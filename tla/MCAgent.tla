------------------------------- MODULE MCAgent -------------------------------
(***************************************************************************)
(* The agent service for TLC: the two ways an event of agent.trigger is    *)
(* answered, and the run that produces an answer; they share no state.  In *)
(* the scene "private" a private chat with an agent, in the scene "run"    *)
(* one run and its sandbox, in the scene "sink" the queue its observations *)
(* go through, in the others a hosted chat or a group (MCHosting).         *)
(***************************************************************************)
EXTENDS MCHosting, Coalescer, Runtime, Sink

AgentInit == Init /\ HostingInit /\ RuntimeInit /\ SinkInit /\ scene \in {"private", "run", "sink", chat, room}

(* The fourth message comes where nothing has failed. *)
MCPrivateNext == Next /\ (sent' = MaxSeq => faults' = 0)

AgentNext ==
    \/ scene = "private" /\ MCPrivateNext /\ UNCHANGED <<hostingVars, runtimeVars, sinkVars, scene>>
    \/ scene = "run" /\ RuntimeNext /\ UNCHANGED <<vars, hostingVars, sinkVars, scene>>
    \/ scene = "sink" /\ SinkNext /\ UNCHANGED <<vars, hostingVars, runtimeVars, scene>>
    \/ scene \in {chat, room} /\ MCNext /\ UNCHANGED <<vars, runtimeVars, sinkVars>>
AgentSpec ==
    /\ AgentInit /\ [][AgentNext]_<<vars, hostingVars, runtimeVars, sinkVars, scene>>
    /\ Fairness /\ HostingFairness /\ RuntimeFairness

(* Types of the two ways to answer, over which the scenes range.            *)
AgentTypeOK == TypeOK /\ HostingTypeOK
=============================================================================
