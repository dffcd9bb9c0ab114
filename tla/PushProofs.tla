----------------------------- MODULE PushProofs ------------------------------
(***************************************************************************)
(* Theorems about the push service and the gateways: a connection that is  *)
(* served and works is in the manager of its gateway or about to be closed *)
(* by its successor, and no recipient of a committed message is forgotten. *)
(* They hold for any number of users, gateways, connections, messages and  *)
(* faults.                                                                 *)
(***************************************************************************)
EXTENDS Push, TLAPS

-----------------------------------------------------------------------------
(*                              The gateways                               *)

(* The states of a ListUserConnections call. *)
Lists == [at : {"idle", "read", "done"}, todo : SUBSET Conns, live : SUBSET Conns, stale : SUBSET Conns]

(* From Register on, also while it closes the ones it took over from, a     *)
(* working connection is in the manager or on the list of one that has      *)
(* still to close it.  Only upgraded connections are ever on one.           *)
ManagedOrListed ==
    \A c \in Conns :
        /\ pc[c] \in {"closing", "serving"} /\ socket[c] = "open" =>
              c \in managed \/ \E d \in Conns : c \in replaced[d]
        /\ \A d \in replaced[c] : ~At(d, "none")

GatewayInv == GatewayTypeOK /\ ManagedOrListed

(* The one whose list it is on is of the same user, on the same gateway,    *)
(* and still closing.                                                       *)
LEMMA ListedIsTakenOver == GatewayInv => ServedOrTakenOver
BY DEF GatewayInv, GatewayTypeOK, ManagedOrListed, ServedOrTakenOver, At, ConnsOf

(* A step of one caller's list, which says nothing else than that a listing *)
(* connection is at its list, keeps the invariant.                          *)
LEMMA ListMoves ==
    ASSUME GatewayInv, NEW x \in Callers, NEW l \in Lists,
           x \in Conns => At(x, "list"),
           list' = [list EXCEPT ![x] = l],
           hash' \subseteq Conns, members' \in [Users -> SUBSET Conns],
           UNCHANGED <<pc, socket, managed, replaced, up, gFaults>>
    PROVE  GatewayInv'
BY DEF GatewayInv, GatewayTypeOK, ManagedOrListed, At, Lists, Callers, PCs, Sockets

(* SMEMBERS of a connection's cleanup or of a gateway. *)
LEMMA SMembersKeeps ==
    ASSUME GatewayInv, NEW x \in Callers, NEW u \in Users,
           SMembers(x, u), x \in Conns => At(x, "list"),
           UNCHANGED <<pc, socket, managed, replaced, presenceVars, up, gFaults>>
    PROVE  GatewayInv'
<1> DEFINE l == [at    |-> IF members[u] = {} THEN "done" ELSE "read",
                 todo  |-> members[u], live |-> {}, stale |-> {}]
<1>1. /\ hash \subseteq Conns
      /\ members \in [Users -> SUBSET Conns]
  BY DEF GatewayInv, GatewayTypeOK
<1>2. l \in Lists
  BY <1>1 DEF Lists
<1>3. list' = [list EXCEPT ![x] = l]
  BY DEF SMembers
<1>4. /\ hash' \subseteq Conns
      /\ members' \in [Users -> SUBSET Conns]
  BY <1>1 DEF presenceVars
<1> HIDE DEF l
<1> QED
  BY <1>2, <1>3, <1>4, ListMoves

(* HGETALL of one member. *)
LEMMA HGetAllKeeps ==
    ASSUME NEW x \in Callers, GatewayInv, HGetAll(x) PROVE GatewayInv'
<1>1. list \in [Callers -> Lists]
  BY DEF GatewayInv, GatewayTypeOK, Lists
<1>2. PICK c \in list[x].todo :
          list' = [list EXCEPT ![x].todo = @ \ {c},
                               ![x].live = IF c \in hash THEN @ \cup {c} ELSE @,
                               ![x].stale = IF c \in hash THEN @ ELSE @ \cup {c}]
  BY DEF HGetAll
<1>3. /\ list[x] \in Lists
      /\ c \in Conns
  BY <1>1, <1>2 DEF Lists
<1> DEFINE l == [list[x] EXCEPT !.todo = @ \ {c},
                                !.live = IF c \in hash THEN @ \cup {c} ELSE @,
                                !.stale = IF c \in hash THEN @ ELSE @ \cup {c}]
<1>4. l \in Lists
  BY <1>3 DEF Lists
<1>5. list' = [list EXCEPT ![x] = l]
  BY <1>1, <1>2
<1>6. x \in Conns => At(x, "list")
  BY DEF HGetAll, GatewayInv, GatewayTypeOK, NoList
<1>7. /\ hash' \subseteq Conns
      /\ members' \in [Users -> SUBSET Conns]
      /\ UNCHANGED <<pc, socket, managed, replaced, up, gFaults>>
  BY DEF HGetAll, GatewayInv, GatewayTypeOK, presenceVars
<1> HIDE DEF l
<1> QED
  BY <1>4, <1>5, <1>6, <1>7, ListMoves

(* The pipeline that removes the members whose hash was missing. *)
LEMMA CleanStaleKeeps ==
    ASSUME NEW x \in Callers, NEW u \in Users, GatewayInv, CleanStale(x, u) PROVE GatewayInv'
<1>1. list \in [Callers -> Lists]
  BY DEF GatewayInv, GatewayTypeOK, Lists
<1>2. list[x] \in Lists
  BY <1>1
<1> DEFINE l == [list[x] EXCEPT !.at = "done"]
<1>4. l \in Lists
  BY <1>2 DEF Lists
<1>5. list' = [list EXCEPT ![x] = l]
  BY <1>1 DEF CleanStale
<1>6. x \in Conns => At(x, "list")
  BY DEF CleanStale, GatewayInv, GatewayTypeOK, NoList
<1>7. /\ hash' \subseteq Conns
      /\ members' \in [Users -> SUBSET Conns]
      /\ UNCHANGED <<pc, socket, managed, replaced, up, gFaults>>
  BY DEF CleanStale, GatewayInv, GatewayTypeOK
<1> HIDE DEF l
<1> QED
  BY <1>4, <1>5, <1>6, <1>7, ListMoves

(* The steps of one connection, from the upgrade to the end of its cleanup. *)
LEMMA ConnectionKeeps ==
    ASSUME NEW c \in Conns, GatewayInv,
           \/ Upgrade(c) \/ ClientLeaves(c) \/ HandleWebSocket(c) \/ Pong(c)
           \/ UnregisterFails(c) \/ ExpireConnection(c) \/ DropConnection(c)
    PROVE  GatewayInv'
<1>0. /\ c \in Callers
      /\ UserOf[c] \in Users
  BY GatewayConstants DEF Callers
<1> USE DEF GatewayInv, GatewayTypeOK, ManagedOrListed, At, Goto, presenceVars, PCs, Sockets, Callers
<1>1. CASE Upgrade(c)
  BY <1>1 DEF Upgrade
<1>2. CASE ClientLeaves(c)
  BY <1>2 DEF ClientLeaves
<1>3. CASE Pong(c)
  BY <1>0, <1>3 DEF Pong, PutPresence
<1>4. CASE UnregisterFails(c)
  BY <1>4, GatewayConstants DEF UnregisterFails, Fault, NoList
<1>5. CASE ExpireConnection(c)
  BY <1>5, GatewayConstants DEF ExpireConnection, Fault
<1>6. CASE RegisterPresence(c)
  <2>1. CASE PutPresence(c) /\ UNCHANGED gFaults
    BY <1>0, <1>6, <2>1 DEF RegisterPresence, PutPresence
  <2>2. CASE Fault /\ UNCHANGED presenceVars
    BY <1>0, <1>6, <2>2, GatewayConstants DEF RegisterPresence, Fault
  <2> QED
    BY <1>6, <2>1, <2>2 DEF RegisterPresence
<1>7. CASE Register(c)
  BY <1>7 DEF Register, UserConnections
<1>8. CASE CloseStale(c)
  BY <1>8 DEF CloseStale
<1>18. CASE CloseReplaced(c)
  <2>1. PICK d \in replaced[c] :
            /\ pc[c] = "closing"
            /\ socket' = [socket EXCEPT ![d] = "closed"]
            /\ replaced' = [replaced EXCEPT ![c] = @ \ {d}]
            /\ pc' = [pc EXCEPT ![c] = IF replaced[c] = {d} THEN "serving" ELSE "closing"]
            /\ UNCHANGED <<managed, hash, members, list, up, gFaults>>
    BY <1>18 DEF CloseReplaced
  <2>2. /\ d \in Conns
        /\ pc[d] # "none"
        /\ pc'[c] \in {"closing", "serving"}
        /\ pc'[c] = "closing" <=> replaced'[c] # {}
    BY <2>1
  <2>3. \A e \in Conns : e # c => pc'[e] = pc[e] /\ replaced'[e] = replaced[e]
    BY <2>1
  <2>4. \A e \in Conns : replaced'[e] \subseteq replaced[e]
    BY <2>1
  <2>5. \A e \in Conns : socket'[e] = IF e = d THEN "closed" ELSE socket[e]
    BY <2>1, <2>2
  <2>6. GatewayTypeOK'
    BY <2>1, <2>2, <2>3, <2>4, <2>5
  <2>7. \A e, f \in Conns : e # d /\ e \in replaced[f] => e \in replaced'[f]
    BY <2>1
  <2>8. ManagedOrListed'
    BY <2>1, <2>2, <2>3, <2>4, <2>5, <2>7
  <2> QED
    BY <2>6, <2>8
<1>9. CASE ReadLoopEnds(c)
  BY <1>9 DEF ReadLoopEnds
<1>10. CASE Unregister(c)
  BY <1>10 DEF Unregister
<1>11. CASE UnregisterConnection(c)
  BY <1>0, <1>11 DEF UnregisterConnection
<1>12. CASE ListRemaining(c)
  <2> HIDE DEF GatewayInv, GatewayTypeOK, ManagedOrListed, Goto, presenceVars, PCs, Sockets, Callers
  <2> QED
    BY <1>0, <1>12, SMembersKeeps DEF ListRemaining
<1>13. CASE HGetAll(c)
  BY <1>0, <1>13, HGetAllKeeps
<1>14. CASE CleanStale(c, UserOf[c])
  BY <1>0, <1>14, CleanStaleKeeps
<1>15. CASE ListReturns(c)
  BY <1>15 DEF ListReturns, NoList
<1>16. CASE DelUserKeys(c)
  BY <1>0, <1>16 DEF DelUserKeys
<1>17. CASE DropConnection(c)
  <2>1. /\ pc[c] \notin {"none", "presence", "register", "gone"}
        /\ \/ socket[c] \in {"broken", "closed"} /\ UNCHANGED <<socket, gFaults>>
           \/ /\ gFaults' \in 0 .. MaxGatewayFaults
              /\ socket' = [socket EXCEPT ![c] = "broken"]
        /\ managed' = managed \ {c}
        /\ UNCHANGED <<pc, replaced, hash, members, list, up>>
    BY <1>17, GatewayConstants DEF DropConnection, Fault
  <2>2. GatewayTypeOK'
    BY <2>1
  <2>3. ManagedOrListed'
    BY <2>1
  <2> QED
    BY <2>2, <2>3
<1> QED
  BY <1>1, <1>2, <1>3, <1>4, <1>5, <1>6, <1>7, <1>8, <1>9, <1>10, <1>11, <1>12, <1>13, <1>14, <1>15,
     <1>16, <1>17, <1>18 DEF HandleWebSocket

(* A gateway that dies takes its own connections with it. *)
LEMMA CrashKeeps ==
    ASSUME NEW g \in Gateways, GatewayInv, CrashGateway(g), gFaults' \in 0 .. MaxGatewayFaults
    PROVE  GatewayInv'
<1> DEFINE mine == {c \in Conns : GatewayOf[c] = g /\ pc[c] # "none"}
<1>1. /\ up' = up \ {g}
      /\ pc' = [c \in Conns |-> IF c \in mine THEN "gone" ELSE pc[c]]
      /\ socket' = [c \in Conns |-> IF c \in mine THEN "closed" ELSE socket[c]]
      /\ managed' = managed \ mine
      /\ replaced' = [c \in Conns |-> IF c \in mine THEN {} ELSE replaced[c]]
      /\ list' = [x \in Callers |-> IF x = g \/ x \in mine THEN NoList ELSE list[x]]
      /\ UNCHANGED <<hash, members>>
  BY DEF CrashGateway, presenceVars
<1>2. /\ GatewayTypeOK
      /\ ManagedOrListed
  BY DEF GatewayInv
<1>3. \A c \in Conns : \A d \in replaced[c] : d \in mine <=> c \in mine
  BY <1>2 DEF GatewayTypeOK, ManagedOrListed, At
<1>4. mine \subseteq Conns /\ Conns \subseteq Callers
  BY DEF Callers
<1> HIDE DEF mine
<1>5. /\ list' \in [Callers -> Lists]
      /\ \A c \in Conns : list'[c] = NoList \/ (list'[c] = list[c] /\ c \notin mine)
  <2>1. /\ list \in [Callers -> Lists]
        /\ NoList \in Lists
    BY <1>2 DEF GatewayTypeOK, Lists, NoList
  <2> QED
    BY <1>1, <1>4, <2>1
<1>6. GatewayTypeOK'
  BY <1>1, <1>2, <1>4, <1>5 DEF GatewayTypeOK, At, PCs, Sockets, Lists
<1>7. ManagedOrListed'
  BY <1>1, <1>2, <1>3, <1>4 DEF GatewayTypeOK, ManagedOrListed, At
<1> QED
  BY <1>6, <1>7 DEF GatewayInv

(* Steps that touch neither connection, manager, presence nor list. *)
LEMMA GatewayStutters == ASSUME GatewayInv, UNCHANGED gatewayVars PROVE GatewayInv'
BY DEF GatewayInv, GatewayTypeOK, ManagedOrListed, gatewayVars, presenceVars, At

LEMMA GatewayStarts == GatewayInit => GatewayInv
BY GatewayConstants
   DEF GatewayInit, GatewayInv, GatewayTypeOK, ManagedOrListed, At, PCs, Sockets, Callers, NoList

(* The steps that both specifications take. *)
LEMMA GatewayStepKeeps == ASSUME GatewayInv, GatewayStep PROVE GatewayInv'
<1>1. CASE \E c \in Conns : \/ Upgrade(c) \/ ClientLeaves(c) \/ HandleWebSocket(c) \/ Pong(c)
                            \/ UnregisterFails(c) \/ ExpireConnection(c)
  BY <1>1, ConnectionKeeps
<1>2. CASE \E u \in Users : ExpireUser(u)
  BY <1>2 DEF ExpireUser, GatewayInv, GatewayTypeOK, ManagedOrListed, At
<1>3. CASE \E g \in Gateways : StartGateway(g)
  BY <1>3 DEF StartGateway, GatewayInv, GatewayTypeOK, ManagedOrListed, At, presenceVars
<1> QED
  BY <1>1, <1>2, <1>3 DEF GatewayStep

(* What a gateway does for IsUserOnline. *)
LEMMA IsUserOnlineKeeps ==
    ASSUME NEW g \in Gateways, NEW u \in Users, GatewayInv, IsUserOnline(g, u) PROVE GatewayInv'
<1>1. /\ g \in Callers
      /\ g \notin Conns
  BY GatewayConstants DEF Callers
<1>2. CASE SMembers(g, u) /\ UNCHANGED <<pc, socket, managed, replaced, presenceVars, up, gFaults>>
  BY <1>1, <1>2, SMembersKeeps
<1>3. CASE HGetAll(g)
  BY <1>1, <1>3, HGetAllKeeps
<1>4. CASE CleanStale(g, u)
  BY <1>1, <1>4, CleanStaleKeeps
<1>5. CASE /\ list' = [list EXCEPT ![g] = NoList]
           /\ UNCHANGED <<pc, socket, managed, replaced, presenceVars, up, gFaults>>
  <2>1. NoList \in Lists
    BY DEF NoList, Lists
  <2>2. /\ hash' \subseteq Conns
        /\ members' \in [Users -> SUBSET Conns]
    BY <1>5 DEF presenceVars, GatewayInv, GatewayTypeOK
  <2> QED
    BY <1>1, <1>5, <2>1, <2>2, ListMoves
<1> QED
  BY <1>2, <1>3, <1>4, <1>5 DEF IsUserOnline

(* The gateways on their own, without the push service. *)
GatewaySpec == GatewayInit /\ [][GatewayNext]_gatewayVars

(* However connections take over from one another, fail and are cleaned up, *)
(* and whichever gateways crash and come back, a served connection whose    *)
(* socket works is in its manager, so a delivery finds it, or the handler   *)
(* of the connection that took its place is about to close it: the time     *)
(* between ConnectionManager.Register and closeWithCode is the only gap     *)
(* (Unregister, HandleWebSocket and its deferred cleanup).                  *)
THEOREM GatewayServes == GatewaySpec => []ServedOrTakenOver
<1>1. GatewayInit => GatewayInv
  BY GatewayStarts
<1>2. GatewayInv /\ [GatewayNext]_gatewayVars => GatewayInv'
  <2> SUFFICES ASSUME GatewayInv, [GatewayNext]_gatewayVars
               PROVE  GatewayInv'
    OBVIOUS
  <2>1. CASE GatewayStep
    BY <2>1, GatewayStepKeeps
  <2>2. CASE \E c \in Conns : DropConnection(c)
    BY <2>2, ConnectionKeeps
  <2>3. CASE \E g \in Gateways : Fault /\ CrashGateway(g)
    <3>1. gFaults' \in 0 .. MaxGatewayFaults
      BY <2>3, GatewayConstants DEF Fault, GatewayInv, GatewayTypeOK
    <3> QED
      BY <2>3, <3>1, CrashKeeps
  <2>4. CASE \E g \in Gateways, u \in Users : IsUserOnline(g, u)
    BY <2>4, IsUserOnlineKeeps
  <2>5. CASE UNCHANGED gatewayVars
    BY <2>5, GatewayStutters
  <2> QED
    BY <2>1, <2>2, <2>3, <2>4, <2>5 DEF GatewayNext
<1>3. GatewayInv => ServedOrTakenOver
  BY ListedIsTakenOver
<1> QED
  BY <1>1, <1>2, <1>3, PTL DEF GatewaySpec
-----------------------------------------------------------------------------
(*                            The push service                             *)

(* The states of a BatchPushOneMsg call. *)
Calls == [at : CallPCs, todo : SUBSET Users, user : SUBSET Users, conns : SUBSET Conns, got : SUBSET Users]

(* TypeOK in three parts: what the consumer keeps, the calls to the         *)
(* gateways, and the gateways.                                              *)
LoopTypes ==
    /\ toPush \in Seq(Msgs)
    /\ toOfflinePush \in Seq([msg : Msgs, to : SUBSET Users])
    /\ committed \in 0 .. Len(toPush) /\ polled \in 0 .. Len(toPush)
    /\ cur \in 0 .. Len(toPush) + 1
    /\ phase \in {"poll", "handle", "broadcast", "produce", "commit"}
    /\ phase # "poll" => committed < polled
    /\ phase \in {"handle", "broadcast", "produce"} => cur \in committed + 1 .. polled
    /\ offline \subseteq Users

CallTypes ==
    /\ dialed \subseteq Gateways
    /\ call \in [Gateways -> Calls]
    /\ written \in [Msgs -> SUBSET Conns]
    /\ before \subseteq Conns
    /\ pushFaults \in 0 .. MaxPushFaults

(* Where a recipient of a message can have been taken care of. *)
Wrote(m, u) == \E c \in written[m] : UserOf[c] = u
SentOffline(m, u) ==
    \E k \in 1 .. Len(toOfflinePush) : toOfflinePush[k].msg = m /\ u \in toOfflinePush[k].to
Handled(n) == \A u \in RecipientsOf[toPush[n]] : Wrote(toPush[n], u) \/ SentOffline(toPush[n], u)

(* HandleBatch has handled the records before the one it is at; all of them *)
(* when it is about to commit.                                              *)
BatchSoFar ==
    /\ phase \in {"handle", "broadcast", "produce"} => \A n \in committed + 1 .. cur - 1 : Handled(n)
    /\ phase = "commit" => \A n \in committed + 1 .. polled : Handled(n)

(* A user a gateway reports as delivered has the message on one of its own  *)
(* connections; one that is not offline has it too.                         *)
DeliveredIsWritten ==
    /\ phase = "broadcast" => \A g \in Gateways : \A u \in call[g].got : Wrote(toPush[cur], u)
    /\ phase = "produce" => \A u \in RecipientsOf[toPush[cur]] : u \in offline \/ Wrote(toPush[cur], u)

(* The inductive invariant of the push service. *)
PushInv ==
    GatewayInv /\ LoopTypes /\ CallTypes /\ NothingDropped /\ BatchSoFar /\ DeliveredIsWritten

(* The logs and the deliveries only grow. *)
Grows ==
    /\ Len(toPush) <= Len(toPush') /\ \A n \in 1 .. Len(toPush) : toPush'[n] = toPush[n]
    /\ Len(toOfflinePush) <= Len(toOfflinePush')
    /\ \A k \in 1 .. Len(toOfflinePush) : toOfflinePush'[k] = toOfflinePush[k]
    /\ \A m \in Msgs : written[m] \subseteq written'[m]

LEMMA TypesAreTypeOK == GatewayTypeOK /\ LoopTypes /\ CallTypes => TypeOK
BY DEF TypeOK, LoopTypes, CallTypes, Calls

LEMMA DroppedIsUnhandled == NothingDropped <=> \A n \in 1 .. committed : Handled(n)
BY DEF NothingDropped, Handled, Wrote, SentOffline

(* What was handled stays handled. *)
LEMMA HandledStays ==
    ASSUME LoopTypes, Grows, NEW n \in 1 .. Len(toPush), Handled(n)
    PROVE  Handled(n)'
<1>1. /\ toPush'[n] = toPush[n]
      /\ toPush[n] \in Msgs
  BY DEF LoopTypes, Grows
<1> DEFINE m == toPush[n]
<1>2. ASSUME NEW u, Wrote(m, u)
      PROVE  \E c \in written'[m] : UserOf[c] = u
  BY <1>1, <1>2 DEF Grows, Wrote
<1>3. ASSUME NEW u, SentOffline(m, u)
      PROVE  \E k \in 1 .. Len(toOfflinePush') : toOfflinePush'[k].msg = m /\ u \in toOfflinePush'[k].to
  <2>1. PICK k \in 1 .. Len(toOfflinePush) : toOfflinePush[k].msg = m /\ u \in toOfflinePush[k].to
    BY <1>3 DEF SentOffline
  <2>2. /\ Len(toOfflinePush) \in Nat
        /\ Len(toOfflinePush) <= Len(toOfflinePush')
        /\ toOfflinePush'[k] = toOfflinePush[k]
    BY DEF Grows, LoopTypes
  <2>3. k \in 1 .. Len(toOfflinePush')
    BY <2>2 DEF LoopTypes
  <2> QED
    BY <2>1, <2>2, <2>3
<1> QED
  BY <1>1, <1>2, <1>3 DEF Handled, Wrote, SentOffline

(* One step handles nothing new: what it leaves of the batch was handled    *)
(* before.                                                                  *)
LEMMA NothingNew ==
    ASSUME LoopTypes, Grows, NothingDropped, BatchSoFar,
           \/ UNCHANGED <<committed, polled, cur, phase>>
           \/ committed' = committed /\ cur' = committed' + 1 /\ phase' = "handle"
           \/ committed' = committed /\ phase' = "poll"
           \/ /\ phase' \in {"handle", "broadcast", "produce"} /\ phase \in {"handle", "broadcast", "produce"}
              /\ UNCHANGED <<committed, cur>>
    PROVE  NothingDropped' /\ BatchSoFar'
<1>1. \A n \in 1 .. Len(toPush) : Handled(n) => Handled(n)'
  BY HandledStays
<1>2. /\ committed \in Nat /\ committed <= Len(toPush)
      /\ cur \in Nat /\ polled \in Nat /\ polled <= Len(toPush)
      /\ Len(toPush) \in Nat
      /\ committed' = committed
      /\ phase \in {"handle", "broadcast", "produce"} => cur <= polled
  BY DEF LoopTypes
<1>3. NothingDropped'
  <2>1. \A n \in 1 .. committed : Handled(n)
    BY DroppedIsUnhandled
  <2>2. \A n \in 1 .. committed' : Handled(n)'
    BY <1>1, <1>2, <2>1
  <2> QED
    BY <2>2 DEF NothingDropped, Handled, Wrote, SentOffline
<1> HIDE DEF Handled
<1>4. BatchSoFar'
  BY <1>1, <1>2 DEF BatchSoFar
<1> QED
  BY <1>3, <1>4

(* The record HandleBatch is at becomes handled. *)
LEMMA RecordHandled ==
    ASSUME LoopTypes, Grows, NothingDropped, BatchSoFar,
           phase \in {"handle", "broadcast", "produce"}, NextRecord,
           UNCHANGED <<toPush, committed, polled>>, toOfflinePush' \in Seq([msg : Msgs, to : SUBSET Users]),
           NEW k, k = cur, Handled(k)'
    PROVE  NothingDropped' /\ BatchSoFar' /\ LoopTypes'
<1>1. \A n \in 1 .. Len(toPush) : Handled(n) => Handled(n)'
  BY HandledStays
<1>2. /\ committed \in Nat /\ committed <= Len(toPush)
      /\ cur \in Nat /\ polled \in Nat /\ polled <= Len(toPush)
      /\ Len(toPush) \in Nat
      /\ committed' = committed /\ polled' = polled /\ cur' = cur + 1
      /\ cur <= polled /\ committed < cur
  BY DEF LoopTypes, NextRecord
<1>3. NothingDropped'
  <2>1. \A n \in 1 .. committed : Handled(n)
    BY DroppedIsUnhandled
  <2>2. \A n \in 1 .. committed' : Handled(n)'
    BY <1>1, <1>2, <2>1
  <2> QED
    BY <2>2 DEF NothingDropped, Handled, Wrote, SentOffline
<1>4. \A n \in committed + 1 .. cur - 1 : Handled(n)'
  BY <1>1, <1>2 DEF BatchSoFar
<1>5. \A n \in committed + 1 .. cur : Handled(n)'
  BY <1>2, <1>4
<1>6. phase' = IF cur = polled THEN "commit" ELSE "handle"
  BY DEF NextRecord
<1>7. BatchSoFar'
  BY <1>2, <1>5, <1>6 DEF BatchSoFar
<1>8. LoopTypes'
  BY <1>2, <1>6 DEF LoopTypes, NextRecord
<1> QED
  BY <1>3, <1>7, <1>8

(* Nothing of the logs and deliveries changes. *)
LEMMA SameLogs == ASSUME UNCHANGED logVars, UNCHANGED written, LoopTypes PROVE Grows
<1>1. Len(toPush) \in Nat /\ Len(toOfflinePush) \in Nat
  BY DEF LoopTypes
<1> QED
  BY <1>1 DEF Grows, logVars

(* The transfer consumer appends a message. *)
LEMMA PublishKeeps ==
    ASSUME PushInv, NEW m \in Msgs, PublishToPush(m) PROVE PushInv'
<1>1. LoopTypes /\ CallTypes /\ NothingDropped /\ BatchSoFar /\ DeliveredIsWritten
  BY DEF PushInv
<1>2. GatewayInv'
  BY GatewayStutters DEF PushInv, PublishToPush
<1>3. /\ toPush \in Seq(Msgs) /\ toPush' \in Seq(Msgs)
      /\ Len(toPush') = Len(toPush) + 1
      /\ \A n \in 1 .. Len(toPush) : toPush'[n] = toPush[n]
  BY <1>1 DEF LoopTypes, PublishToPush
<1>4. LoopTypes'
  BY <1>1, <1>3 DEF LoopTypes, PublishToPush, loopVars
<1>5. CallTypes'
  BY <1>1 DEF CallTypes, PublishToPush
<1>6. Grows
  BY <1>1, <1>3 DEF Grows, LoopTypes, PublishToPush
<1>7. NothingDropped' /\ BatchSoFar'
  BY <1>1, <1>6, NothingNew DEF PublishToPush, loopVars
<1>8. DeliveredIsWritten'
  <2>1. phase \in {"broadcast", "produce"} => toPush'[cur] = toPush[cur]
    BY <1>1, <1>3 DEF LoopTypes
  <2> QED
    BY <1>1, <2>1 DEF DeliveredIsWritten, Wrote, PublishToPush, loopVars
<1> QED
  BY <1>2, <1>4, <1>5, <1>7, <1>8 DEF PushInv

(* The consumer loop. *)
LEMMA LoopKeeps ==
    ASSUME PushInv, PushLoop \/ ProduceFails
    PROVE  PushInv'
<1>1. LoopTypes /\ CallTypes /\ NothingDropped /\ BatchSoFar /\ DeliveredIsWritten /\ GatewayInv
  BY DEF PushInv
<1>2. GatewayInv'
  BY <1>1, GatewayStutters
     DEF PushLoop, PollPush, SkipRecord, Broadcast, BroadcastFails, BroadcastReturns, ProduceOffline,
         CommitPush, ProduceFails
<1>3. Quiet \in [Gateways -> Calls]
  BY DEF Quiet, Nobody, Calls, CallPCs
<1>4. \A n \in 1 .. Len(toPush) : toPush[n] \in Msgs /\ RecipientsOf[toPush[n]] \subseteq Users
  BY <1>1, PushConstants DEF LoopTypes
<1>5. phase \in {"handle", "broadcast", "produce"} => cur \in 1 .. Len(toPush)
  BY <1>1 DEF LoopTypes
<1>6. CASE PollPush
  <2>1. Grows
    BY <1>1, <1>6, SameLogs DEF PollPush
  <2>2. LoopTypes'
    BY <1>1, <1>6 DEF LoopTypes, PollPush, logVars
  <2>3. CallTypes'
    BY <1>1, <1>6 DEF CallTypes, PollPush
  <2>4. NothingDropped' /\ BatchSoFar'
    BY <1>1, <1>6, <2>1, NothingNew DEF PollPush
  <2>5. DeliveredIsWritten'
    BY <1>6 DEF DeliveredIsWritten, PollPush
  <2> QED
    BY <1>2, <2>2, <2>3, <2>4, <2>5 DEF PushInv
<1>7. CASE SkipRecord
  <2>1. Grows
    BY <1>1, <1>7, SameLogs DEF SkipRecord
  <2>2. PICK k : k = cur
    OBVIOUS
  <2>3. Handled(k)'
    BY <1>7, <2>2 DEF Handled, SkipRecord, logVars
  <2>4. NothingDropped' /\ BatchSoFar' /\ LoopTypes'
    BY <1>1, <1>7, <2>1, <2>2, <2>3, RecordHandled DEF SkipRecord, logVars, LoopTypes
  <2>5. CallTypes'
    BY <1>1, <1>7 DEF CallTypes, SkipRecord, NextRecord
  <2>6. DeliveredIsWritten'
    BY <1>7 DEF DeliveredIsWritten, SkipRecord, NextRecord
  <2> QED
    BY <1>2, <2>4, <2>5, <2>6 DEF PushInv
<1>8. CASE Broadcast
  <2>1. Grows
    BY <1>1, <1>8, SameLogs DEF Broadcast
  <2>2. LoopTypes'
    BY <1>1, <1>8 DEF LoopTypes, Broadcast, logVars
  <2>3. /\ call' \in [Gateways -> Calls]
        /\ \A g \in Gateways : call'[g].got = {}
    <3>1. RecipientsOf[toPush[cur]] \subseteq Users
      BY <1>4, <1>5, <1>8 DEF Broadcast
    <3>2. [Nobody EXCEPT !.at = "next", !.todo = RecipientsOf[toPush[cur]]] \in Calls
      BY <3>1 DEF Nobody, Calls, CallPCs
    <3>3. Nobody \in Calls
      BY DEF Nobody, Calls, CallPCs
    <3>4. Nobody.got = {} /\ [Nobody EXCEPT !.at = "next", !.todo = RecipientsOf[toPush[cur]]].got = {}
      BY DEF Nobody
    <3> QED
      BY <1>8, <3>2, <3>3, <3>4 DEF Broadcast
  <2>4. CallTypes'
    BY <1>1, <1>8, <2>3 DEF CallTypes, Broadcast
  <2>5. NothingDropped' /\ BatchSoFar'
    BY <1>1, <1>8, <2>1, NothingNew DEF Broadcast
  <2>6. DeliveredIsWritten'
    BY <1>8, <2>3 DEF DeliveredIsWritten, Broadcast
  <2> QED
    BY <1>2, <2>2, <2>4, <2>5, <2>6 DEF PushInv
<1>9. CASE BroadcastFails \/ ProduceFails
  <2>1. Grows
    BY <1>1, <1>9, SameLogs DEF BroadcastFails, ProduceFails
  <2>2. LoopTypes'
    BY <1>1, <1>9 DEF LoopTypes, BroadcastFails, ProduceFails, RetryBatch, logVars
  <2>3. CallTypes'
    BY <1>1, <1>3, <1>9, PushConstants DEF CallTypes, BroadcastFails, ProduceFails, RetryBatch, PushFault
  <2>4. NothingDropped' /\ BatchSoFar'
    BY <1>1, <1>9, <2>1, NothingNew DEF BroadcastFails, ProduceFails, RetryBatch
  <2>5. DeliveredIsWritten'
    BY <1>9 DEF DeliveredIsWritten, BroadcastFails, ProduceFails, RetryBatch
  <2> QED
    BY <1>2, <2>2, <2>3, <2>4, <2>5 DEF PushInv
<1>10. CASE BroadcastReturns
  <2> DEFINE missed == RecipientsOf[toPush[cur]] \ UNION {call[g].got : g \in Gateways}
  <2>0. /\ phase = "broadcast" /\ call' = Quiet
        /\ UNCHANGED <<logVars, committed, polled, dialed, written, pushFaults>>
        /\ IF missed = {} THEN NextRecord
           ELSE phase' = "produce" /\ offline' = missed /\ UNCHANGED <<cur, before>>
    BY <1>10 DEF BroadcastReturns
  <2>1. Grows
    BY <1>1, <2>0, SameLogs
  <2>2. \A u \in RecipientsOf[toPush[cur]] : u \in missed \/ Wrote(toPush[cur], u)
    BY <1>1, <2>0 DEF DeliveredIsWritten
  <2>3. missed \subseteq Users
    BY <1>4, <1>5, <2>0
  <2> HIDE DEF missed
  <2>4. CallTypes'
    BY <1>1, <1>3, <2>0 DEF CallTypes, NextRecord
  <2>5. CASE missed = {}
    <3>1. PICK k : k = cur
      OBVIOUS
    <3>2. Handled(k)'
      BY <2>0, <2>2, <2>5, <3>1 DEF Handled, Wrote, logVars
    <3>3. NothingDropped' /\ BatchSoFar' /\ LoopTypes'
      BY <1>1, <2>0, <2>1, <2>5, <3>1, <3>2, RecordHandled DEF logVars, LoopTypes
    <3>4. DeliveredIsWritten'
      BY <2>0, <2>5 DEF DeliveredIsWritten, NextRecord
    <3> QED
      BY <1>2, <2>4, <3>3, <3>4 DEF PushInv
  <2>6. CASE missed # {}
    <3>1. LoopTypes'
      BY <1>1, <2>0, <2>3, <2>6 DEF LoopTypes, logVars
    <3>2. NothingDropped' /\ BatchSoFar'
      BY <1>1, <2>0, <2>1, <2>6, NothingNew
    <3>3. DeliveredIsWritten'
      BY <2>0, <2>2, <2>6 DEF DeliveredIsWritten, Wrote, logVars
    <3> QED
      BY <1>2, <2>4, <3>1, <3>2, <3>3 DEF PushInv
  <2> QED
    BY <2>5, <2>6
<1>11. CASE ProduceOffline
  <2> DEFINE rec == [msg |-> toPush[cur], to |-> offline]
  <2>0. /\ phase = "produce" /\ toOfflinePush' = Append(toOfflinePush, rec)
        /\ NextRecord
        /\ UNCHANGED <<toPush, committed, polled, dialed, call, written, pushFaults>>
    BY <1>11 DEF ProduceOffline
  <2>1. /\ rec \in [msg : Msgs, to : SUBSET Users]
        /\ rec.msg = toPush[cur] /\ rec.to = offline
    BY <1>1, <1>4, <1>5, <2>0 DEF LoopTypes
  <2> HIDE DEF rec
  <2>2. toOfflinePush \in Seq([msg : Msgs, to : SUBSET Users])
    BY <1>1 DEF LoopTypes
  <2>3. /\ toOfflinePush' \in Seq([msg : Msgs, to : SUBSET Users])
        /\ Len(toOfflinePush) \in Nat
        /\ Len(toOfflinePush') = Len(toOfflinePush) + 1
        /\ \A k \in 1 .. Len(toOfflinePush) : toOfflinePush'[k] = toOfflinePush[k]
        /\ toOfflinePush'[Len(toOfflinePush')] = rec
    BY <2>0, <2>1, <2>2
  <2>4. Grows
    BY <1>1, <2>0, <2>3 DEF Grows, LoopTypes
  <2>5. PICK k : k = cur
    OBVIOUS
  <2>6. Handled(k)'
    <3>1. ASSUME NEW u \in offline
          PROVE  \E j \in 1 .. Len(toOfflinePush') : /\ toOfflinePush'[j].msg = toPush[k]
                                                     /\ u \in toOfflinePush'[j].to
      <4>1. Len(toOfflinePush') \in 1 .. Len(toOfflinePush')
        BY <2>3
      <4> QED
        BY <2>1, <2>3, <2>5, <4>1
    <3>2. \A u \in RecipientsOf[toPush[k]] : u \in offline \/ Wrote(toPush[k], u)
      BY <1>1, <2>0, <2>5 DEF DeliveredIsWritten
    <3> QED
      BY <2>0, <3>1, <3>2 DEF Handled, Wrote, SentOffline
  <2>7. NothingDropped' /\ BatchSoFar' /\ LoopTypes'
    BY <1>1, <2>0, <2>3, <2>4, <2>5, <2>6, RecordHandled
  <2>8. CallTypes'
    BY <1>1, <2>0 DEF CallTypes, NextRecord
  <2>9. DeliveredIsWritten'
    BY <2>0 DEF DeliveredIsWritten, NextRecord
  <2> QED
    BY <1>2, <2>7, <2>8, <2>9 DEF PushInv
<1>12. CASE CommitPush
  <2>1. LoopTypes'
    BY <1>1, <1>12 DEF LoopTypes, CommitPush, logVars
  <2>2. CallTypes'
    BY <1>1, <1>12 DEF CallTypes, CommitPush
  <2>3. NothingDropped'
    <3>1. \A n \in 1 .. committed : Handled(n)
      BY <1>1, DroppedIsUnhandled
    <3>2. \A n \in 1 .. polled : Handled(n)
      BY <1>1, <1>12, <3>1 DEF BatchSoFar, CommitPush, LoopTypes
    <3> QED
      BY <1>12, <3>2 DEF NothingDropped, Handled, Wrote, SentOffline, CommitPush, logVars
  <2>4. BatchSoFar' /\ DeliveredIsWritten'
    BY <1>12 DEF BatchSoFar, DeliveredIsWritten, CommitPush
  <2> QED
    BY <1>2, <2>1, <2>2, <2>3, <2>4 DEF PushInv
<1> QED
  BY <1>6, <1>7, <1>8, <1>9, <1>10, <1>11, <1>12 DEF PushLoop

(* A step of the call on one gateway during the broadcast. *)
LEMMA CallMoves ==
    ASSUME PushInv, GatewayInv', NEW g \in Gateways, NEW k \in Calls,
           call' = [call EXCEPT ![g] = k],
           UNCHANGED <<logVars, loopVars, dialed, before>>,
           written' \in [Msgs -> SUBSET Conns], \A m \in Msgs : written[m] \subseteq written'[m],
           pushFaults' \in 0 .. MaxPushFaults,
           \A u \in k.got : u \in call[g].got \/ \E c \in written'[toPush[cur]] : UserOf[c] = u
    PROVE  PushInv'
<1>1. LoopTypes /\ CallTypes /\ NothingDropped /\ BatchSoFar /\ DeliveredIsWritten
  BY DEF PushInv
<1>2. /\ LoopTypes'
      /\ CallTypes'
  BY <1>1 DEF LoopTypes, CallTypes, loopVars, logVars
<1>3. Grows
  <2>1. Len(toPush) \in Nat /\ Len(toOfflinePush) \in Nat
    BY <1>1 DEF LoopTypes
  <2> QED
    BY <2>1 DEF Grows, logVars
<1>4. NothingDropped' /\ BatchSoFar'
  BY <1>1, <1>3, NothingNew DEF loopVars
<1>5. DeliveredIsWritten'
  <2>1. phase \in {"broadcast", "produce"} => toPush[cur] \in Msgs
    BY <1>1 DEF LoopTypes
  <2>2. UNCHANGED <<toPush, cur, phase, offline>>
    BY DEF logVars, loopVars
  <2>3. ASSUME NEW u, phase \in {"broadcast", "produce"}, Wrote(toPush[cur], u)
        PROVE  Wrote(toPush[cur], u)'
    BY <2>1, <2>2, <2>3 DEF Wrote
  <2>4. ASSUME phase = "broadcast", NEW h \in Gateways, NEW u \in call'[h].got
        PROVE  Wrote(toPush[cur], u)'
    <3>1. CASE h # g
      <4>1. u \in call[h].got
        BY <1>1, <2>4, <3>1 DEF CallTypes
      <4> QED
        BY <1>1, <2>3, <2>4, <4>1 DEF DeliveredIsWritten
    <3>2. CASE h = g
      <4>1. u \in k.got
        BY <1>1, <2>4, <3>2 DEF CallTypes
      <4>2. CASE u \in call[g].got
        BY <1>1, <2>3, <2>4, <4>2 DEF DeliveredIsWritten
      <4>3. CASE \E c \in written'[toPush[cur]] : UserOf[c] = u
        BY <2>2, <4>3 DEF Wrote
      <4> QED
        BY <4>1, <4>2, <4>3
    <3> QED
      BY <3>1, <3>2
  <2>5. phase = "produce" => \A u \in RecipientsOf[toPush[cur]] : u \in offline \/ Wrote(toPush[cur], u)'
    BY <1>1, <2>3 DEF DeliveredIsWritten
  <2> QED
    BY <2>2, <2>4, <2>5 DEF DeliveredIsWritten
<1> QED
  BY <1>2, <1>4, <1>5 DEF PushInv

(* The gateways move beside the push service. *)
LEMMA PushStutters ==
    ASSUME PushInv, GatewayInv', UNCHANGED pushVars
    PROVE  PushInv'
BY DEF PushInv, LoopTypes, CallTypes, NothingDropped, BatchSoFar, DeliveredIsWritten, Handled, Wrote,
       SentOffline, pushVars, logVars, loopVars

(* BatchPushOneMsg, step by step, and its failure. *)
LEMMA CallKeeps ==
    ASSUME PushInv, NEW g \in Gateways, BatchPushOneMsg(g) \/ CallFails(g)
    PROVE  PushInv'
<1>1. LoopTypes /\ CallTypes /\ GatewayInv
  BY DEF PushInv
<1>2. /\ g \in Callers
      /\ g \notin Conns
  BY GatewayConstants DEF Callers
<1>3. /\ call[g] \in Calls
      /\ call \in [Gateways -> Calls]
      /\ list \in [Callers -> Lists]
  BY <1>1 DEF CallTypes, GatewayInv, GatewayTypeOK, Lists
<1>4. /\ written \in [Msgs -> SUBSET Conns]
      /\ pushFaults \in 0 .. MaxPushFaults
      /\ hash \subseteq Conns
      /\ members \in [Users -> SUBSET Conns]
      /\ managed \subseteq Conns
  BY <1>1 DEF CallTypes, GatewayInv, GatewayTypeOK
<1>5. phase = "broadcast" => toPush[cur] \in Msgs
  BY <1>1 DEF LoopTypes
<1>6. ASSUME list' = [list EXCEPT ![g] = NoList],
             UNCHANGED <<pc, socket, managed, replaced, presenceVars, up, gFaults>>
      PROVE  GatewayInv'
  <2>1. NoList \in Lists
    BY DEF NoList, Lists
  <2>2. /\ hash' \subseteq Conns
        /\ members' \in [Users -> SUBSET Conns]
    BY <1>4, <1>6 DEF presenceVars
  <2> QED
    BY <1>1, <1>2, <1>6, <2>1, <2>2, ListMoves
<1>7. CASE CallEnds(g)
  <2> DEFINE k == [call[g] EXCEPT !.at = "done", !.user = {}]
  <2>1. /\ k \in Calls
        /\ k.got = call[g].got
    BY <1>3 DEF Calls, CallPCs
  <2>2. call' = [call EXCEPT ![g] = k]
    BY <1>3, <1>7 DEF CallEnds
  <2>3. GatewayInv'
    BY <1>1, <1>7, GatewayStutters DEF CallEnds
  <2> HIDE DEF k
  <2> QED
    BY <1>4, <1>7, <2>1, <2>2, <2>3, CallMoves DEF CallEnds
<1>8. CASE LookupRoutes(g)
  <2>1. PICK u \in call[g].todo :
            /\ SMembers(g, u)
            /\ call' = [call EXCEPT ![g].at = "lookup", ![g].todo = @ \ {u}, ![g].user = {u}]
    BY <1>8 DEF LookupRoutes
  <2>2. u \in Users
    BY <1>3 DEF Calls
  <2> DEFINE k == [call[g] EXCEPT !.at = "lookup", !.todo = @ \ {u}, !.user = {u}]
  <2>3. /\ k \in Calls
        /\ k.got = call[g].got
    BY <1>3, <2>2 DEF Calls, CallPCs
  <2>4. call' = [call EXCEPT ![g] = k]
    BY <1>3, <2>1
  <2>5. GatewayInv'
    BY <1>1, <1>2, <1>8, <2>1, <2>2, SMembersKeeps DEF LookupRoutes
  <2> HIDE DEF k
  <2> QED
    BY <1>4, <1>8, <2>3, <2>4, <2>5, CallMoves DEF LookupRoutes
<1>9. CASE LookupStep(g)
  <2>1. call[g].user \subseteq Users
    BY <1>3 DEF Calls
  <2>2. GatewayInv'
    BY <1>1, <1>2, <1>9, <2>1, HGetAllKeeps, CleanStaleKeeps DEF LookupStep
  <2> QED
    BY <1>9, <2>2, PushStutters DEF LookupStep
<1>10. CASE RoutesKnown(g)
  <2> DEFINE conns == UNION {UserConnections(g, u) : u \in call[g].user}
             at == IF list[g].live = {} \/ conns = {} THEN "next" ELSE "write"
             to == IF list[g].live = {} THEN {} ELSE conns
             k == [call[g] EXCEPT !.at = at, !.conns = to]
  <2>1. /\ at \in CallPCs
        /\ to \subseteq Conns
    BY <1>4 DEF UserConnections, CallPCs
  <2>2. call' = [call EXCEPT ![g].at = at, ![g].conns = to]
    BY <1>10 DEF RoutesKnown
  <2>3. GatewayInv'
    BY <1>6, <1>10 DEF RoutesKnown
  <2> HIDE DEF at, to
  <2>4. /\ k \in Calls
        /\ k.got = call[g].got
    BY <1>3, <2>1 DEF Calls
  <2>5. call' = [call EXCEPT ![g] = k]
    BY <1>3, <2>2
  <2> HIDE DEF k
  <2> QED
    BY <1>4, <1>10, <2>3, <2>4, <2>5, CallMoves DEF RoutesKnown
<1>11. ASSUME NEW c \in call[g].conns
       PROVE  /\ AfterWrite(g, c) \in Calls
              /\ AfterWrite(g, c).got = call[g].got
              /\ c \in Conns
              /\ UserOf[c] \in Users
  BY <1>3, GatewayConstants DEF AfterWrite, Calls, CallPCs
<1>12. CASE WriteEvent(g)
  <2>1. PICK c \in call[g].conns :
            /\ written' = [written EXCEPT ![toPush[cur]] = @ \cup {c}]
            /\ call' = [call EXCEPT ![g] = [AfterWrite(g, c) EXCEPT !.got = @ \cup {UserOf[c]}]]
    BY <1>12 DEF WriteEvent
  <2>2. toPush[cur] \in Msgs
    BY <1>5, <1>12 DEF WriteEvent, InCall
  <2>3. /\ AfterWrite(g, c) \in Calls
        /\ AfterWrite(g, c).got = call[g].got
        /\ c \in Conns
        /\ UserOf[c] \in Users
    BY <1>11
  <2> DEFINE k == [AfterWrite(g, c) EXCEPT !.got = @ \cup {UserOf[c]}]
  <2>4. /\ k \in Calls
        /\ k.got = call[g].got \cup {UserOf[c]}
    BY <2>3 DEF Calls
  <2>5. call' = [call EXCEPT ![g] = k]
    BY <2>1
  <2>6. /\ written' \in [Msgs -> SUBSET Conns]
        /\ \A m \in Msgs : written[m] \subseteq written'[m]
        /\ c \in written'[toPush[cur]]
    BY <1>4, <2>1, <2>2, <2>3
  <2>7. GatewayInv'
    BY <1>1, <1>12, GatewayStutters DEF WriteEvent
  <2> HIDE DEF k
  <2>8. \A u \in k.got : u \in call[g].got \/ \E d \in written'[toPush[cur]] : UserOf[d] = u
    BY <2>4, <2>6
  <2>9. pushFaults' \in 0 .. MaxPushFaults
    BY <1>4, <1>12 DEF WriteEvent
  <2>10. UNCHANGED <<logVars, loopVars, dialed, before>>
    BY <1>12 DEF WriteEvent
  <2> QED
    BY <2>4, <2>5, <2>6, <2>7, <2>8, <2>9, <2>10, CallMoves
<1>13. CASE WriteFails(g)
  <2>1. PICK c \in call[g].conns :
            /\ \/ socket[c] \in {"broken", "closed"} /\ UNCHANGED <<socket, pushFaults>>
               \/ /\ socket[c] \in {"open", "dead"} /\ PushFault
                  /\ socket' = [socket EXCEPT ![c] = "broken"]
            /\ managed' = managed \ {c}
            /\ call' = [call EXCEPT ![g] = AfterWrite(g, c)]
    BY <1>13 DEF WriteFails
  <2>2. /\ AfterWrite(g, c) \in Calls
        /\ AfterWrite(g, c).got = call[g].got
        /\ c \in Conns
    BY <1>11
  <2>3. GatewayInv'
    BY <1>1, <1>13, <2>1, <2>2
       DEF WriteFails, GatewayInv, GatewayTypeOK, ManagedOrListed, At, presenceVars, Sockets
  <2>4. pushFaults' \in 0 .. MaxPushFaults
    BY <1>4, <2>1, PushConstants DEF PushFault
  <2>5. PICK k \in Calls : k = AfterWrite(g, c)
    BY <2>2
  <2> QED
    BY <1>4, <1>13, <2>1, <2>2, <2>3, <2>4, <2>5, CallMoves DEF WriteFails
<1>14. CASE CallFails(g)
  <2> DEFINE k == [call[g] EXCEPT !.at = "error"]
  <2>1. /\ k \in Calls
        /\ k.got = call[g].got
    BY <1>3 DEF Calls, CallPCs
  <2>2. call' = [call EXCEPT ![g] = k]
    BY <1>3, <1>14 DEF CallFails
  <2>3. GatewayInv'
    BY <1>6, <1>14 DEF CallFails
  <2>4. pushFaults' \in 0 .. MaxPushFaults
    BY <1>4, <1>14, PushConstants DEF CallFails, PushFault
  <2> HIDE DEF k
  <2> QED
    BY <1>4, <1>14, <2>1, <2>2, <2>3, <2>4, CallMoves DEF CallFails
<1> QED
  BY <1>7, <1>8, <1>9, <1>10, <1>12, <1>13, <1>14 DEF BatchPushOneMsg

(* A gateway dies with its call. *)
LEMMA GatewayDiesKeeps ==
    ASSUME PushInv, NEW g \in Gateways, GatewayDies(g)
    PROVE  PushInv'
<1>1. CallTypes /\ GatewayInv
  BY DEF PushInv
<1> DEFINE k == [call[g] EXCEPT !.at = IF InCall(g) THEN "error" ELSE @]
<1>2. /\ k \in Calls
      /\ k.got = call[g].got
  BY <1>1 DEF CallTypes, Calls, CallPCs
<1>3. call' = [call EXCEPT ![g] = k]
  BY <1>1 DEF GatewayDies, CallTypes
<1>4. GatewayInv'
  <2>1. gFaults' \in 0 .. MaxGatewayFaults
    BY <1>1 DEF GatewayDies, GatewayInv, GatewayTypeOK
  <2> QED
    BY <1>1, <2>1, CrashKeeps DEF GatewayDies
<1>5. pushFaults' \in 0 .. MaxPushFaults
  BY <1>1, PushConstants DEF CallTypes, GatewayDies, PushFault
<1>6. /\ written' \in [Msgs -> SUBSET Conns]
      /\ written' = written
  BY <1>1 DEF CallTypes, GatewayDies
<1> HIDE DEF k
<1> QED
  BY <1>2, <1>3, <1>4, <1>5, <1>6, CallMoves DEF GatewayDies

(* The push service dies, or resolves the gateways again. *)
LEMMA CrashPushKeeps ==
    ASSUME PushInv, CrashPush \/ RefreshConns
    PROVE  PushInv'
<1>1. LoopTypes /\ CallTypes /\ NothingDropped /\ BatchSoFar /\ DeliveredIsWritten /\ GatewayInv
  BY DEF PushInv
<1>2. up \subseteq Gateways
  BY <1>1 DEF GatewayInv, GatewayTypeOK
<1>3. CASE CrashPush
  <2>1. Quiet \in [Gateways -> Calls]
    BY DEF Quiet, Nobody, Calls, CallPCs
  <2>2. LoopTypes'
    BY <1>1, <1>3 DEF LoopTypes, CrashPush, logVars
  <2>3. CallTypes'
    BY <1>1, <1>2, <1>3, <2>1, PushConstants DEF CallTypes, CrashPush, PushFault
  <2>4. Grows
    BY <1>1, <1>3, SameLogs DEF CrashPush
  <2>5. NothingDropped' /\ BatchSoFar'
    BY <1>1, <1>3, <2>4, NothingNew DEF CrashPush
  <2>6. DeliveredIsWritten'
    BY <1>3 DEF DeliveredIsWritten, CrashPush
  <2>7. GatewayInv'
    BY <1>1, <1>3, GatewayConstants
       DEF CrashPush, GatewayInv, GatewayTypeOK, ManagedOrListed, At, presenceVars, Callers, NoList
  <2> QED
    BY <2>2, <2>3, <2>5, <2>6, <2>7 DEF PushInv
<1>4. CASE RefreshConns
  <2>1. GatewayInv'
    BY <1>1, <1>4, GatewayStutters DEF RefreshConns
  <2> QED
    BY <1>1, <1>2, <1>4, <2>1
       DEF RefreshConns, PushInv, LoopTypes, CallTypes, NothingDropped, BatchSoFar, DeliveredIsWritten,
           Handled, Wrote, SentOffline, logVars, loopVars
<1> QED
  BY <1>3, <1>4

(* Nothing was published, polled or called at the start. *)
LEMMA PushStarts == Init => PushInv
<1> SUFFICES ASSUME Init
             PROVE  PushInv
  OBVIOUS
<1>1. GatewayInv
  BY GatewayStarts DEF Init
<1>2. LoopTypes /\ CallTypes
  BY PushConstants DEF Init, LoopTypes, CallTypes, Quiet, Nobody, Calls, CallPCs
<1>3. NothingDropped /\ BatchSoFar /\ DeliveredIsWritten
  BY DEF Init, NothingDropped, BatchSoFar, DeliveredIsWritten
<1> QED
  BY <1>1, <1>2, <1>3 DEF PushInv

(* Every step of the push service and of the gateways beside it. *)
LEMMA PushInductive == PushInv /\ [Next]_vars => PushInv'
<1> SUFFICES ASSUME PushInv, [Next]_vars
             PROVE  PushInv'
  OBVIOUS
<1>1. CASE \E m \in Msgs : PublishToPush(m)
  BY <1>1, PublishKeeps
<1>2. CASE PushLoop \/ ProduceFails
  BY <1>2, LoopKeeps
<1>3. CASE CrashPush \/ RefreshConns
  BY <1>3, CrashPushKeeps
<1>4. CASE \E g \in Gateways : BatchPushOneMsg(g) \/ CallFails(g)
  BY <1>4, CallKeeps
<1>5. CASE \E g \in Gateways : GatewayDies(g)
  BY <1>5, GatewayDiesKeeps
<1>6. CASE GatewayStep /\ UNCHANGED pushVars
  <2>1. GatewayInv'
    BY <1>6, GatewayStepKeeps DEF PushInv
  <2> QED
    BY <1>6, <2>1, PushStutters
<1>7. CASE UNCHANGED vars
  <2>1. GatewayInv'
    BY <1>7, GatewayStutters DEF PushInv, vars
  <2> QED
    BY <1>7, <2>1, PushStutters DEF vars
<1> QED
  BY <1>1, <1>2, <1>3, <1>4, <1>5, <1>6, <1>7 DEF Next

(* The types, the bounds of the batch and the states a connection can be in *)
(* (online.go HandleBatch, server.go HandleWebSocket), through every crash  *)
(* and retry.                                                               *)
THEOREM PushTyped == Spec => []TypeOK
<1>1. PushInv => TypeOK
  BY TypesAreTypeOK DEF PushInv, GatewayInv
<1> QED
  BY <1>1, PushStarts, PushInductive, PTL DEF Spec

(* "No silent drop": every recipient of a committed message had it written  *)
(* to one of its own connections or is on msg.toOfflinePush.v1 for it,      *)
(* whichever calls, writes, produces, gateways or push services fail in     *)
(* between (online.go HandleBatch, broadcaster.go Broadcast).               *)
THEOREM NoSilentDrop == Spec => []NothingDropped
<1>1. PushInv => NothingDropped
  BY DEF PushInv
<1> QED
  BY <1>1, PushStarts, PushInductive, PTL DEF Spec

(* Also while pushes take connections out of the managers, a served         *)
(* connection whose socket works is in its manager or about to be closed by *)
(* the one that took over (ws/delivery.go, ConnectionManager.Unregister).   *)
THEOREM PushServes == Spec => []ServedOrTakenOver
<1>1. PushInv => ServedOrTakenOver
  BY ListedIsTakenOver DEF PushInv
<1> QED
  BY <1>1, PushStarts, PushInductive, PTL DEF Spec
==============================================================================
