------------------------------- MODULE MCPush --------------------------------
(***************************************************************************)
(* Instances of Gateway and Push for TLC.  In the scene "connections" two  *)
(* connections of one user to one gateway, either of which takes over from *)
(* the other, live through failures of the gateway and of Redis and no     *)
(* push is running, so the broadcaster's set, which nobody reads, follows  *)
(* the gateways at once.  In the scene "push" one connection of alice to   *)
(* one of two gateways lives through two pushes: of m1 and m2, which are   *)
(* for alice, or of m3, which has nobody to go to, and m1.  They are       *)
(* published first: a poll may take one of them, and one that comes later  *)
(* is as good as a record that does.  The gateway with the connections is  *)
(* the one that dies.                                                      *)
(***************************************************************************)
EXTENDS Push

CONSTANTS alice, g1, g2, c1, c2, m1, m2, m3

VARIABLE scene

MCUserOf == [c \in Conns |-> alice]
MCGatewayOf == [c \in Conns |-> g1]
MCRecipientsOf == [m \in Msgs |-> IF m = m3 THEN {} ELSE {alice}]

Connections ==
    /\ GatewayNext /\ list'[g2] = NoList /\ dialed' = up'
    /\ UNCHANGED <<logVars, loopVars, call, written, before, pushFaults>>
Pushes ==
    /\ Next /\ pc'[c2] = "none" /\ UNCHANGED gFaults
    /\ Len(toPush) = MaxPushes \/ toPush' # toPush
    /\ toPush' \in {<<m1>>, <<m3>>, <<m1, m2>>, <<m3, m1>>}

MCInit == Init /\ scene \in {"connections", "push"}
MCNext ==
    /\ UNCHANGED scene
    /\ \/ scene = "connections" /\ Connections
       \/ scene = "push" /\ Pushes
    /\ g2 \in up'
MCSpec == MCInit /\ [][MCNext]_<<vars, scene>> /\ GatewayFairness /\ Fairness
=============================================================================
