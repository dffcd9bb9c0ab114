-------------------------------- MODULE Push ---------------------------------
(***************************************************************************)
(* The push service: the consumer of msg.toPush.v1                         *)
(* (service/push/internal/pusher/online.go), the broadcaster that calls    *)
(* every gateway it has dialed (internal/gateway/broadcaster.go), the      *)
(* BatchPushOneMsg handler of each gateway (msggateway grpcserver and      *)
(* ws/delivery.go) and the topic msg.toOfflinePush.v1, over the            *)
(* connections and presence keys of module Gateway.                        *)
(***************************************************************************)
EXTENDS Gateway

CONSTANTS
    Msgs,           \* accepted messages
    RecipientsOf,   \* [Msgs -> SUBSET Users], payload.receiver_ids
    MaxPushes,      \* bound: records ever written to toPush
    MaxPushBatch,   \* bound: records of one poll
    MaxPushFaults   \* bound: failed RPCs, writes and produces, crashes

ASSUME PushConstants ==
    /\ RecipientsOf \in [Msgs -> SUBSET Users]
    /\ MaxPushes \in Nat /\ MaxPushBatch \in Nat /\ MaxPushFaults \in Nat

VARIABLES
    toPush,         \* log of msg.toPush.v1
    committed,      \* committed offset of the consumer group
    polled,         \* last offset of the batch in memory
    cur,            \* the record HandleBatch is at
    phase,          \* "poll", "handle", "broadcast", "produce" or "commit"
    offline,        \* OfflineUserIDs of the last broadcast
    dialed,         \* the gateways the broadcaster has a connection to
    call,           \* the BatchPushOneMsg call to each of them
    toOfflinePush,  \* log of msg.toOfflinePush.v1
    written,        \* per message, the connections it was written to
    before,         \* history: connections that worked when the broadcast began
    pushFaults      \* failures so far

logVars == <<toPush, toOfflinePush>>
loopVars == <<committed, polled, cur, phase, offline>>
pushVars == <<logVars, loopVars, dialed, call, written, before, pushFaults>>
vars == <<gatewayVars, pushVars>>

CallPCs == {"none", "next", "lookup", "write", "done", "error"}
Nobody == [at |-> "none", todo |-> {}, user |-> {}, conns |-> {}, got |-> {}]
Quiet == [g \in Gateways |-> Nobody]

(* Open, served, found by a delivery on its gateway. *)
Reachable(c) == At(c, "serving") /\ socket[c] = "open" /\ c \in managed /\ Listed(c)

Init ==
    /\ GatewayInit
    /\ toPush = <<>> /\ toOfflinePush = <<>>
    /\ committed = 0 /\ polled = 0 /\ cur = 0 /\ phase = "poll" /\ offline = {}
    /\ dialed = Gateways
    /\ call = Quiet
    /\ written = [m \in Msgs |-> {}]
    /\ before = {}
    /\ pushFaults = 0

PushFault == pushFaults < MaxPushFaults /\ pushFaults' = pushFaults + 1
-----------------------------------------------------------------------------
(* The transfer consumer appends an accepted message. *)
PublishToPush(m) ==
    /\ Len(toPush) < MaxPushes
    /\ toPush' = Append(toPush, m)
    /\ UNCHANGED <<gatewayVars, toOfflinePush, loopVars, dialed, call, written, before, pushFaults>>

(* KafkaConsumer.Run around OnlineHandler.HandleBatch. *)
PollPush ==
    /\ phase = "poll"
    /\ \E hi \in committed + 1 .. Len(toPush) : hi <= committed + MaxPushBatch /\ polled' = hi
    /\ cur' = committed + 1 /\ phase' = "handle"
    /\ UNCHANGED <<gatewayVars, logVars, committed, offline, dialed, call, written, before, pushFaults>>

(* HandleBatch returned an error: the same batch again, from its start. *)
RetryBatch ==
    /\ cur' = committed + 1 /\ phase' = "handle"
    /\ offline' = {} /\ call' = Quiet /\ before' = {}

(* Mutant of NextRecord: the loop runs one record too far. *)
NextRecordPast ==
    /\ cur' = cur + 1
    /\ phase' = IF cur > polled THEN "commit" ELSE "handle"
    /\ offline' = {} /\ before' = {}

NextRecord ==
    /\ cur' = cur + 1
    /\ phase' = IF cur = polled THEN "commit" ELSE "handle"
    /\ offline' = {} /\ before' = {}

(* handleOne of a record without recipients (or malformed: both are skipped). *)
SkipRecord ==
    /\ phase = "handle" /\ RecipientsOf[toPush[cur]] = {}
    /\ NextRecord
    /\ UNCHANGED <<gatewayVars, logVars, committed, polled, dialed, call, written, pushFaults>>

(* Broadcast: one concurrent call per dialed gateway. *)
Broadcast ==
    /\ phase = "handle" /\ RecipientsOf[toPush[cur]] # {} /\ dialed # {}
    /\ call' = [g \in Gateways |->
                   IF g \in dialed THEN [Nobody EXCEPT !.at = "next", !.todo = RecipientsOf[toPush[cur]]]
                                   ELSE Nobody]
    /\ before' = {c \in Conns : Reachable(c)}
    /\ phase' = "broadcast"
    /\ UNCHANGED <<gatewayVars, logVars, committed, polled, cur, offline, dialed, written, pushFaults>>

Answered == \A g \in Gateways : call[g].at \in {"none", "done", "error"}
AnyError == \E g \in Gateways : call[g].at = "error"

(* An error of any gateway fails the broadcast. *)
BroadcastFails ==
    /\ phase = "broadcast" /\ Answered /\ AnyError
    /\ RetryBatch
    /\ UNCHANGED <<gatewayVars, logVars, committed, polled, dialed, written, pushFaults>>

(* Mutant of BroadcastReturns: gateways that failed are ignored. *)
BroadcastReturnsAnyway ==
    LET missed == RecipientsOf[toPush[cur]] \ UNION {call[g].got : g \in Gateways}
    IN  /\ phase = "broadcast" /\ Answered
        /\ call' = Quiet
        /\ IF AnyError \/ missed = {} THEN NextRecord
           ELSE phase' = "produce" /\ offline' = missed /\ UNCHANGED <<cur, before>>
        /\ UNCHANGED <<gatewayVars, logVars, committed, polled, dialed, written, pushFaults>>

(* Only status delivered counts; everybody else is offline. *)
BroadcastReturns ==
    LET missed == RecipientsOf[toPush[cur]] \ UNION {call[g].got : g \in Gateways}
    IN  /\ phase = "broadcast" /\ Answered /\ ~AnyError
        /\ call' = Quiet
        /\ IF missed = {} THEN NextRecord
           ELSE phase' = "produce" /\ offline' = missed /\ UNCHANGED <<cur, before>>
        /\ UNCHANGED <<gatewayVars, logVars, committed, polled, dialed, written, pushFaults>>

ProduceOffline ==
    /\ phase = "produce"
    /\ toOfflinePush' = Append(toOfflinePush, [msg |-> toPush[cur], to |-> offline])
    /\ NextRecord
    /\ UNCHANGED <<gatewayVars, toPush, committed, polled, dialed, call, written, pushFaults>>

ProduceFails ==
    /\ phase = "produce" /\ PushFault
    /\ RetryBatch
    /\ UNCHANGED <<gatewayVars, logVars, committed, polled, dialed, written>>

CommitPush ==
    /\ phase = "commit"
    /\ committed' = polled /\ phase' = "poll"
    /\ UNCHANGED <<gatewayVars, logVars, polled, cur, offline, dialed, call, written, before, pushFaults>>

(* The push service dies; its successor resolves the gateways afresh. *)
CrashPush ==
    /\ phase # "poll" /\ up # {} /\ PushFault
    /\ phase' = "poll" /\ polled' = committed /\ cur' = 0 /\ offline' = {}
    /\ call' = Quiet /\ before' = {} /\ dialed' = up
    /\ list' = [x \in Callers |-> IF x \in Gateways THEN NoList ELSE list[x]]
    /\ UNCHANGED <<pc, socket, managed, replaced, presenceVars, up, gFaults, logVars, committed, written>>

(* Mutant of RefreshConns: the initial set is never resolved again. *)
RefreshConnsNever == up # {} /\ up # dialed /\ UNCHANGED vars

(* refreshConns, every 30 s: an empty answer keeps the connections; a new    *)
(* gateway gets a lazy grpc client, so nothing can fail here.                *)
RefreshConns ==
    /\ up # {} /\ up # dialed
    /\ dialed' = up
    /\ UNCHANGED <<gatewayVars, logVars, loopVars, call, written, before, pushFaults>>
-----------------------------------------------------------------------------
(* BatchPushOneMsg on gateway g: deliverToUser for one recipient after the  *)
(* other; a Redis error ends the call with Unavailable.                     *)

InCall(g) == phase = "broadcast" /\ call[g].at \notin {"none", "done", "error"}

CallEnds(g) ==
    /\ InCall(g) /\ call[g].at = "next" /\ call[g].todo = {}
    /\ call' = [call EXCEPT ![g].at = "done", ![g].user = {}]
    /\ UNCHANGED <<gatewayVars, logVars, loopVars, dialed, written, before, pushFaults>>

LookupRoutes(g) ==
    /\ InCall(g) /\ call[g].at = "next" /\ g \in up
    /\ \E u \in call[g].todo :
          /\ SMembers(g, u)
          /\ call' = [call EXCEPT ![g].at = "lookup", ![g].todo = @ \ {u}, ![g].user = {u}]
    /\ UNCHANGED <<pc, socket, managed, replaced, presenceVars, up, gFaults,
                   logVars, loopVars, dialed, written, before, pushFaults>>

LookupStep(g) ==
    /\ InCall(g) /\ call[g].at = "lookup"
    /\ HGetAll(g) \/ \E u \in call[g].user : CleanStale(g, u)
    /\ UNCHANGED pushVars

(* No route: offline.  No local connection: routed.  Else the connections   *)
(* of the manager are written to.                                           *)
RoutesKnown(g) ==
    LET conns == UNION {UserConnections(g, u) : u \in call[g].user}
    IN  /\ InCall(g) /\ call[g].at = "lookup" /\ list[g].at = "done"
        /\ call' = [call EXCEPT ![g].at = IF list[g].live = {} \/ conns = {} THEN "next" ELSE "write",
                                ![g].conns = IF list[g].live = {} THEN {} ELSE conns]
        /\ list' = [list EXCEPT ![g] = NoList]
        /\ UNCHANGED <<pc, socket, managed, replaced, presenceVars, up, gFaults,
                       logVars, loopVars, dialed, written, before, pushFaults>>

AfterWrite(g, c) ==
    [call[g] EXCEPT !.conns = @ \ {c}, !.at = IF @ = "write" /\ call[g].conns = {c} THEN "next" ELSE @]

(* writeJSON to a connection.  One whose client is gone still takes it. *)
WriteEvent(g) ==
    /\ InCall(g) /\ call[g].at = "write"
    /\ \E c \in call[g].conns :
          /\ socket[c] \in {"open", "dead"}
          /\ written' = [written EXCEPT ![toPush[cur]] = @ \cup {c}]
          /\ call' = [call EXCEPT ![g] = [AfterWrite(g, c) EXCEPT !.got = @ \cup {UserOf[c]}]]
    /\ UNCHANGED <<gatewayVars, logVars, loopVars, dialed, before, pushFaults>>

(* The write fails or times out, which breaks the socket: the connection    *)
(* leaves the manager.                                                      *)
WriteFails(g) ==
    /\ InCall(g) /\ call[g].at = "write"
    /\ \E c \in call[g].conns :
          /\ \/ socket[c] \in {"broken", "closed"} /\ UNCHANGED <<socket, pushFaults>>
             \/ /\ socket[c] \in {"open", "dead"} /\ PushFault
                /\ socket' = [socket EXCEPT ![c] = "broken"]
          /\ managed' = managed \ {c}
          /\ call' = [call EXCEPT ![g] = AfterWrite(g, c)]
    /\ UNCHANGED <<pc, replaced, presenceVars, list, up, gFaults,
                   logVars, loopVars, dialed, written, before>>

(* The RPC fails: the gateway is down, Redis is, or the 5 s are over. *)
CallFails(g) ==
    /\ InCall(g)
    /\ \/ g \notin up /\ UNCHANGED pushFaults
       \/ g \in up /\ PushFault
    /\ call' = [call EXCEPT ![g].at = "error"]
    /\ list' = [list EXCEPT ![g] = NoList]
    /\ UNCHANGED <<pc, socket, managed, replaced, presenceVars, up, gFaults,
                   logVars, loopVars, dialed, written, before>>

(* A gateway dies with its call, if it has one. *)
GatewayDies(g) ==
    /\ PushFault /\ CrashGateway(g)
    /\ call' = [call EXCEPT ![g].at = IF InCall(g) THEN "error" ELSE @]
    /\ UNCHANGED <<gFaults, logVars, loopVars, dialed, written, before>>
-----------------------------------------------------------------------------
BatchPushOneMsg(g) ==
    CallEnds(g) \/ LookupRoutes(g) \/ LookupStep(g) \/ RoutesKnown(g) \/ WriteEvent(g) \/ WriteFails(g)

PushLoop ==
    \/ PollPush \/ SkipRecord \/ Broadcast \/ BroadcastFails \/ BroadcastReturns
    \/ ProduceOffline \/ CommitPush

Next ==
    \/ \E m \in Msgs : PublishToPush(m)
    \/ PushLoop \/ ProduceFails \/ CrashPush \/ RefreshConns
    \/ \E g \in Gateways : BatchPushOneMsg(g) \/ CallFails(g) \/ GatewayDies(g)
    \/ GatewayStep /\ UNCHANGED pushVars

(* The consumer and the gateways keep running and the refresh ticker ticks. *)
(* A dead gateway need not come back.                                       *)
Fairness ==
    /\ WF_vars(PushLoop) /\ WF_vars(RefreshConns)
    /\ \A g \in Gateways : WF_vars(BatchPushOneMsg(g) \/ (CallFails(g) /\ g \notin up))

Spec == Init /\ [][Next]_vars
FairSpec == Spec /\ Fairness
-----------------------------------------------------------------------------
TypeOK ==
    /\ GatewayTypeOK
    /\ toPush \in Seq(Msgs)
    /\ toOfflinePush \in Seq([msg : Msgs, to : SUBSET Users])
    /\ committed \in 0 .. Len(toPush) /\ polled \in 0 .. Len(toPush)
    /\ cur \in 0 .. Len(toPush) + 1
    /\ phase \in {"poll", "handle", "broadcast", "produce", "commit"}
    /\ phase # "poll" => committed < polled
    /\ phase \in {"handle", "broadcast", "produce"} => cur \in committed + 1 .. polled
    /\ offline \subseteq Users /\ dialed \subseteq Gateways
    /\ call \in [Gateways -> [at : CallPCs, todo : SUBSET Users, user : SUBSET Users,
                              conns : SUBSET Conns, got : SUBSET Users]]
    /\ written \in [Msgs -> SUBSET Conns]
    /\ before \subseteq Conns
    /\ pushFaults \in 0 .. MaxPushFaults

(* Each recipient of a message whose offset is committed had it written to  *)
(* one of its own connections or is on toOfflinePush for it: an error of    *)
(* any gateway, a failed produce or a crash replays the batch (online.go    *)
(* HandleBatch, "no silent drop").                                          *)
NothingDropped ==
    \A n \in 1 .. committed : \A u \in RecipientsOf[toPush[n]] :
        \/ \E c \in written[toPush[n]] : UserOf[c] = u
        \/ \E k \in 1 .. Len(toOfflinePush) : toOfflinePush[k].msg = toPush[n] /\ u \in toOfflinePush[k].to

(* A recipient that had a working connection from the start of the          *)
(* broadcast to its end is not declared offline ("no false offline",        *)
(* online.go; "rather than declare false offline", broadcaster.go).         *)
NoFalseOffline ==
    phase = "produce" => \A c \in before : UserOf[c] \in offline => ~Reachable(c)

(* The consumer always catches up with the topic, as long as one gateway    *)
(* runs: one that died fails every broadcast until refreshConns drops it,   *)
(* and no failure pattern makes a batch fail for ever.                      *)
CatchesUp == []<>(committed = Len(toPush))
=============================================================================
