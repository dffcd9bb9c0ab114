------------------------------- MODULE Gateway -------------------------------
(***************************************************************************)
(* The WebSocket gateways and the presence store they share: the life of a *)
(* connection in service/msggateway/internal/ws/server.go                  *)
(* (HandleWebSocket and its deferred cleanup), the ConnectionManager of    *)
(* each instance and the Redis keys of pkg/presence/redis.go.              *)
(*                                                                         *)
(* A Redis command or pipeline is one step.  The keys are conn:<id> (a     *)
(* hash with a TTL, here an element of hash) and user:<id>:connections (a  *)
(* set with twice the TTL, here members); user:<id>:online is written and  *)
(* never read, so it is left out.  A connection id is used once.           *)
(***************************************************************************)
EXTENDS Integers, Sequences, FiniteSets

CONSTANTS
    Users, Gateways, Conns,
    UserOf,             \* [Conns -> Users]
    GatewayOf,          \* [Conns -> Gateways]
    MaxGatewayFaults    \* bound: failed Redis calls, lost heartbeats, broken writes, crashes

ASSUME GatewayConstants ==
    /\ UserOf \in [Conns -> Users]
    /\ GatewayOf \in [Conns -> Gateways]
    /\ Conns \cap Gateways = {}
    /\ MaxGatewayFaults \in Nat

VARIABLES
    pc,        \* where the HandleWebSocket call of a connection is
    socket,    \* its socket: the client may be gone ("dead"), writes may fail ("broken")
    managed,   \* the connections in the ConnectionManager of their gateway
    replaced,  \* those a handler took over from and has still to close
    hash,      \* presence: the conn:<id> keys
    members,   \* presence: the user:<id>:connections sets
    list,      \* the ListUserConnections call of a connection's cleanup or of a gateway
    up,        \* the gateway instances that run
    gFaults    \* failures so far

presenceVars == <<hash, members>>
gatewayVars == <<pc, socket, managed, replaced, presenceVars, list, up, gFaults>>

PCs == {"none", "presence", "register", "closing", "serving", "unregister", "unpresence", "list", "delset", "gone"}
Sockets == {"none", "open", "dead", "broken", "closed"}

Callers == Conns \cup Gateways
NoList == [at |-> "idle", todo |-> {}, live |-> {}, stale |-> {}]

ConnsOf(u) == {c \in Conns : UserOf[c] = u}

(* ConnectionManager.UserConnections of one instance. *)
UserConnections(g, u) == {c \in managed : GatewayOf[c] = g /\ UserOf[c] = u}

(* What ListUserConnections answers when nothing interferes. *)
Listed(c) == c \in hash /\ c \in members[UserOf[c]]

GatewayInit ==
    /\ pc = [c \in Conns |-> "none"]
    /\ socket = [c \in Conns |-> "none"]
    /\ managed = {} /\ replaced = [c \in Conns |-> {}]
    /\ hash = {} /\ members = [u \in Users |-> {}]
    /\ list = [x \in Callers |-> NoList]
    /\ up = Gateways
    /\ gFaults = 0

At(c, p) == pc[c] = p
Goto(c, p) == pc' = [pc EXCEPT ![c] = p]

(* A call fails. *)
Fault == gFaults < MaxGatewayFaults /\ gFaults' = gFaults + 1
-----------------------------------------------------------------------------
(* RedisStore.ListUserConnections: SMEMBERS, one HGETALL per member, then a *)
(* pipeline that removes the members whose hash was missing.                *)

SMembers(x, u) ==
    /\ list[x].at = "idle"
    /\ list' = [list EXCEPT ![x] = [at    |-> IF members[u] = {} THEN "done" ELSE "read",
                                    todo  |-> members[u], live |-> {}, stale |-> {}]]

HGetAll(x) ==
    /\ list[x].at = "read" /\ list[x].todo # {}
    /\ \E c \in list[x].todo :
          list' = [list EXCEPT ![x].todo = @ \ {c},
                               ![x].live = IF c \in hash THEN @ \cup {c} ELSE @,
                               ![x].stale = IF c \in hash THEN @ ELSE @ \cup {c}]
    /\ UNCHANGED <<pc, socket, managed, replaced, presenceVars, up, gFaults>>

CleanStale(x, u) ==
    /\ list[x].at = "read" /\ list[x].todo = {}
    /\ members' = [members EXCEPT ![u] = @ \ list[x].stale]
    /\ hash' = hash \ list[x].stale
    /\ list' = [list EXCEPT ![x].at = "done"]
    /\ UNCHANGED <<pc, socket, managed, replaced, up, gFaults>>
-----------------------------------------------------------------------------
(* HandleWebSocket. *)

Upgrade(c) ==
    /\ At(c, "none") /\ GatewayOf[c] \in up
    /\ socket' = [socket EXCEPT ![c] = "open"]
    /\ Goto(c, "presence")
    /\ UNCHANGED <<managed, replaced, presenceVars, list, up, gFaults>>

(* RegisterConnection's pipeline. *)
PutPresence(c) ==
    /\ hash' = hash \cup {c}
    /\ members' = [members EXCEPT ![UserOf[c]] = @ \cup {c}]

(* registerPresence; its error is ignored. *)
RegisterPresence(c) ==
    /\ At(c, "presence")
    /\ \/ PutPresence(c) /\ UNCHANGED gFaults
       \/ Fault /\ UNCHANGED presenceVars
    /\ Goto(c, "register")
    /\ UNCHANGED <<socket, managed, replaced, list, up>>

(* ConnectionManager.Register, under its mutex: the connection enters the   *)
(* manager and the user's other connections on this instance leave it.      *)
Register(c) ==
    LET others == UserConnections(GatewayOf[c], UserOf[c]) \ {c}
    IN  /\ At(c, "register")
        /\ managed' = (managed \ others) \cup {c}
        /\ replaced' = [replaced EXCEPT ![c] = others]
        /\ Goto(c, IF others = {} THEN "serving" ELSE "closing")
        /\ UNCHANGED <<socket, presenceVars, list, up, gFaults>>

(* HandleWebSocket then closes them with 4001 one by one, each when its     *)
(* write mutex is free; it serves its own connection after the last.        *)
CloseReplaced(c) ==
    \E d \in replaced[c] :
        /\ At(c, "closing")
        /\ socket' = [socket EXCEPT ![d] = "closed"]
        /\ replaced' = [replaced EXCEPT ![c] = @ \ {d}]
        /\ Goto(c, IF replaced[c] = {d} THEN "serving" ELSE "closing")
        /\ UNCHANGED <<managed, presenceVars, list, up, gFaults>>

(* Mutant of Pong: a connection whose hash is gone is not registered again. *)
PongKnownOnly(c) ==
    /\ At(c, "serving") /\ socket[c] = "open" /\ c \in hash
    /\ PutPresence(c)
    /\ UNCHANGED <<pc, socket, managed, replaced, list, up, gFaults>>

(* A pong or a heartbeat command: refreshPresence.  Heartbeat rewrites the  *)
(* hash and the set; when the hash was gone, RegisterConnection does.       *)
Pong(c) ==
    /\ At(c, "serving") /\ socket[c] = "open"
    /\ PutPresence(c)
    /\ UNCHANGED <<pc, socket, managed, replaced, list, up, gFaults>>

(* The client closes, its session is found invalid (4002), or its network   *)
(* goes away unnoticed.                                                     *)
ClientLeaves(c) ==
    /\ socket[c] = "open"
    /\ \E s \in {"closed", "dead"} : socket' = [socket EXCEPT ![c] = s]
    /\ UNCHANGED <<pc, managed, replaced, presenceVars, list, up, gFaults>>

(* The read deadline passes with no pong, or pingLoop cannot write a ping. *)
CloseStale(c) ==
    /\ At(c, "serving") /\ socket[c] \in {"dead", "broken"}
    /\ socket' = [socket EXCEPT ![c] = "closed"]
    /\ UNCHANGED <<pc, managed, replaced, presenceVars, list, up, gFaults>>

(* readLoop returns and the deferred function starts. *)
ReadLoopEnds(c) ==
    /\ At(c, "serving") /\ socket[c] = "closed"
    /\ Goto(c, "unregister")
    /\ UNCHANGED <<socket, managed, replaced, presenceVars, list, up, gFaults>>

(* Mutant of Unregister: the entry of the user goes, whoever holds it. *)
UnregisterUser(c) ==
    /\ At(c, "unregister")
    /\ managed' = managed \ UserConnections(GatewayOf[c], UserOf[c])
    /\ Goto(c, "unpresence")
    /\ UNCHANGED <<socket, replaced, presenceVars, list, up, gFaults>>

Unregister(c) ==
    /\ At(c, "unregister")
    /\ managed' = managed \ {c}
    /\ Goto(c, "unpresence")
    /\ UNCHANGED <<socket, replaced, presenceVars, list, up, gFaults>>

(* unregisterPresence: DEL and SREM in a pipeline, then the list, then DEL  *)
(* of the set when the list was empty.                                      *)
UnregisterConnection(c) ==
    /\ At(c, "unpresence")
    /\ hash' = hash \ {c}
    /\ members' = [members EXCEPT ![UserOf[c]] = @ \ {c}]
    /\ Goto(c, "list")
    /\ UNCHANGED <<socket, managed, replaced, list, up, gFaults>>

ListRemaining(c) ==
    /\ At(c, "list")
    /\ SMembers(c, UserOf[c])
    /\ UNCHANGED <<pc, socket, managed, replaced, presenceVars, up, gFaults>>

ListReturns(c) ==
    /\ At(c, "list") /\ list[c].at = "done"
    /\ Goto(c, IF list[c].live = {} THEN "delset" ELSE "gone")
    /\ list' = [list EXCEPT ![c] = NoList]
    /\ UNCHANGED <<socket, managed, replaced, presenceVars, up, gFaults>>

DelUserKeys(c) ==
    /\ At(c, "delset")
    /\ members' = [members EXCEPT ![UserOf[c]] = {}]
    /\ Goto(c, "gone")
    /\ UNCHANGED <<socket, managed, replaced, hash, list, up, gFaults>>

(* One of these Redis calls fails; the error is ignored. *)
UnregisterFails(c) ==
    /\ pc[c] \in {"unpresence", "list", "delset"} /\ Fault
    /\ Goto(c, "gone")
    /\ list' = [list EXCEPT ![c] = NoList]
    /\ UNCHANGED <<socket, managed, replaced, presenceVars, up>>
-----------------------------------------------------------------------------
(* The TTL of a hash is refreshed by pongs; that of the set outlives every  *)
(* hash of the user.  Redis unreachable for a TTL is a fault.               *)
ExpireConnection(c) ==
    /\ c \in hash
    /\ \/ socket[c] # "open" /\ UNCHANGED gFaults
       \/ socket[c] = "open" /\ Fault
    /\ hash' = hash \ {c}
    /\ UNCHANGED <<pc, socket, managed, replaced, members, list, up>>

ExpireUser(u) ==
    /\ members[u] # {} /\ ConnsOf(u) \cap hash = {}
    /\ members' = [members EXCEPT ![u] = {}]
    /\ UNCHANGED <<pc, socket, managed, replaced, hash, list, up, gFaults>>

(* An instance dies: its sockets close, no deferred function runs. *)
CrashGateway(g) ==
    LET mine == {c \in Conns : GatewayOf[c] = g /\ pc[c] # "none"}
    IN  /\ g \in up
        /\ up' = up \ {g}
        /\ pc' = [c \in Conns |-> IF c \in mine THEN "gone" ELSE pc[c]]
        /\ socket' = [c \in Conns |-> IF c \in mine THEN "closed" ELSE socket[c]]
        /\ managed' = managed \ mine
        /\ replaced' = [c \in Conns |-> IF c \in mine THEN {} ELSE replaced[c]]
        /\ list' = [x \in Callers |-> IF x = g \/ x \in mine THEN NoList ELSE list[x]]
        /\ UNCHANGED presenceVars

StartGateway(g) ==
    /\ g \notin up
    /\ up' = up \cup {g}
    /\ UNCHANGED <<pc, socket, managed, replaced, presenceVars, list, gFaults>>
-----------------------------------------------------------------------------
(* A delivery could not write to the connection (the write failed, or it    *)
(* timed out, which breaks the socket): it leaves the manager.              *)
DropConnection(c) ==
    /\ pc[c] \notin {"none", "presence", "register", "gone"}
    /\ \/ socket[c] \in {"broken", "closed"} /\ UNCHANGED <<socket, gFaults>>
       \/ /\ socket[c] \in {"open", "dead"} /\ Fault
          /\ socket' = [socket EXCEPT ![c] = "broken"]
    /\ managed' = managed \ {c}
    /\ UNCHANGED <<pc, replaced, presenceVars, list, up>>

(* ListUserConnections called by gateway g itself, for IsUserOnline or a    *)
(* delivery.                                                                *)
IsUserOnline(g, u) ==
    /\ g \in up
    /\ \/ SMembers(g, u) /\ UNCHANGED <<pc, socket, managed, replaced, presenceVars, up, gFaults>>
       \/ HGetAll(g)
       \/ list[g].todo \cup list[g].live \cup list[g].stale \subseteq ConnsOf(u) /\ CleanStale(g, u)
       \/ /\ list[g].at = "done"
          /\ list' = [list EXCEPT ![g] = NoList]
          /\ UNCHANGED <<pc, socket, managed, replaced, presenceVars, up, gFaults>>
-----------------------------------------------------------------------------
(* Steps the gateway itself takes for a connection, and Redis' expiry. *)
HandleWebSocket(c) ==
    \/ RegisterPresence(c) \/ Register(c) \/ CloseReplaced(c) \/ CloseStale(c) \/ ReadLoopEnds(c) \/ Unregister(c)
    \/ UnregisterConnection(c) \/ ListRemaining(c) \/ HGetAll(c) \/ CleanStale(c, UserOf[c])
    \/ ListReturns(c) \/ DelUserKeys(c)

GatewayStep ==
    \/ \E c \in Conns : \/ Upgrade(c) \/ ClientLeaves(c) \/ HandleWebSocket(c) \/ Pong(c)
                        \/ UnregisterFails(c) \/ ExpireConnection(c)
    \/ \E u \in Users : ExpireUser(u)
    \/ \E g \in Gateways : StartGateway(g)

GatewayNext ==
    \/ GatewayStep
    \/ \E c \in Conns : DropConnection(c)
    \/ \E g \in Gateways : (Fault /\ CrashGateway(g)) \/ \E u \in Users : IsUserOnline(g, u)

(* The handlers and Redis' expiry keep going; clients that are there answer *)
(* pings.                                                                   *)
GatewayFairness ==
    /\ \A c \in Conns : /\ WF_gatewayVars(HandleWebSocket(c)) /\ WF_gatewayVars(Pong(c))
                        /\ WF_gatewayVars(ExpireConnection(c) /\ socket[c] # "open")
    /\ \A u \in Users : WF_gatewayVars(ExpireUser(u))
-----------------------------------------------------------------------------
GatewayTypeOK ==
    /\ pc \in [Conns -> PCs]
    /\ socket \in [Conns -> Sockets]
    /\ managed \subseteq Conns /\ replaced \in [Conns -> SUBSET Conns]
    /\ hash \subseteq Conns
    /\ members \in [Users -> SUBSET Conns]
    /\ list \in [Callers -> [at : {"idle", "read", "done"}, todo : SUBSET Conns,
                             live : SUBSET Conns, stale : SUBSET Conns]]
    /\ up \subseteq Gateways
    /\ gFaults \in 0 .. MaxGatewayFaults
    /\ \A c \in managed : pc[c] \in {"closing", "serving", "unregister"}
    /\ \A c \in Conns : /\ replaced[c] # {} <=> At(c, "closing")
                        /\ \A d \in replaced[c] : UserOf[d] = UserOf[c] /\ GatewayOf[d] = GatewayOf[c]
                        /\ socket[c] = "none" <=> At(c, "none")
                        /\ list[c] # NoList => At(c, "list")

(* A served connection whose socket works is in the manager of its gateway, *)
(* so a push finds it, until another connection of its user takes over on   *)
(* that gateway, whose handler is then about to close it: neither the       *)
(* deferred cleanup of a connection that was replaced nor a failed push to  *)
(* it takes the successor out (ConnectionManager.Unregister goes by         *)
(* connection id), and none that left the manager in Register is forgotten. *)
ServedOrTakenOver ==
    \A c \in Conns : At(c, "serving") /\ socket[c] = "open" =>
        \/ c \in managed
        \/ \E d \in ConnsOf(UserOf[c]) : GatewayOf[d] = GatewayOf[c] /\ At(d, "closing") /\ c \in replaced[d]

(* Whatever races of list, cleanup, expiry, heartbeat and failed write went *)
(* before (redis.go UnregisterConnection and ListUserConnections, server.go *)
(* refreshPresence and pingLoop), managers and presence come to agree with  *)
(* the sockets again: every connection is served, open, managed and listed, *)
(* or none of these.                                                        *)
Settles ==
    []<>(\A c \in Conns : {At(c, "serving"), socket[c] = "open", c \in managed, Listed(c)} # BOOLEAN)
=============================================================================
