------------------------------ MODULE Commands -------------------------------
(***************************************************************************)
(* One WebSocket connection and the session it belongs to: the handshake,  *)
(* the read loop that checks the session of every command, the token       *)
(* bucket and the dispatch (service/msggateway/internal/ws/server.go),     *)
(* while the account logs in elsewhere and the host's clock is adjusted.   *)
(* What a command does in msg-rpc is in other modules.                     *)
(***************************************************************************)
EXTENDS Sessions

CONSTANTS
    Burst,           \* CommandRateLimitBurst, in tokens
    Tick,            \* ticks of the clock that refill one token (1/CommandRateLimitPerSecond)
    MaxWall          \* bound: the host's clock

ASSUME CommandsConstants == Burst \in Nat \ {0} /\ Tick \in Nat \ {0} /\ MaxWall \in Nat

VARIABLES
    wall,            \* the host's clock, which may be set back
    conn,            \* the connection: where readLoop is, its token, the bucket in 1/Tick tokens
    passed           \* history: commands let through, when it connected, the latest time since

commandVars == <<wall, conn, passed>>

NoConn == [at |-> "closed", token |-> 0, bucket |-> 0, last |-> 0, late |-> FALSE]
NoneYet == [count |-> 0, since |-> 0, until |-> 0, late |-> FALSE]

CommandsInit == SessionsInit /\ wall = 0 /\ conn = NoConn /\ passed = NoneYet

Now(w) == passed' = [passed EXCEPT !.until = IF w > @ THEN w ELSE @]

(* The clock goes on, or NTP sets it back. *)
WallClock ==
    /\ \E w \in {wall - 1, wall + 1} \cap 0 .. MaxWall : wall' = w /\ Now(w)
    /\ UNCHANGED <<sessionVars, conn>>
-----------------------------------------------------------------------------
(* HandleWebSocket: authenticate checks the token's expiry and the active   *)
(* session; the connection gets a full bucket.                              *)
Connect(t) ==
    /\ conn.at = "closed"
    /\ tokens[t].login = "answered" /\ NotExpired(t) /\ Validate(t)
    /\ conn' = [at |-> "reading", token |-> t, bucket |-> Burst * Tick, last |-> wall, late |-> FALSE]
    /\ passed' = [count |-> 0, since |-> wall, until |-> wall, late |-> FALSE]
    /\ UNCHANGED <<sessionVars, wall>>

ConnGoes(at) == conn' = [conn EXCEPT !.at = at]

(* ReadMessage returns a command; late remembers that its session had been  *)
(* replaced, or had gone from Redis, by then.                               *)
ReadMessage ==
    /\ conn.at = "reading"
    /\ conn' = [conn EXCEPT !.at = "read", !.late = ~Validate(conn.token)]
    /\ UNCHANGED <<sessionVars, wall, passed>>

(* Mutant of ValidateActiveSession: only the handshake checks the session. *)
ValidateOnce ==
    /\ conn.at = "read"
    /\ ConnGoes("valid")
    /\ UNCHANGED <<sessionVars, wall, passed>>

(* The session is looked up in Redis, and only there: the expiry of the     *)
(* token is not checked again.  Otherwise the socket is closed with 4002.   *)
ValidateActiveSession ==
    /\ conn.at = "read"
    /\ IF Validate(conn.token) THEN ConnGoes("valid") ELSE conn' = NoConn
    /\ UNCHANGED <<sessionVars, wall, passed>>

(* The bucket after a refill. *)
Refilled == IF conn.bucket + (wall - conn.last) > Burst * Tick THEN Burst * Tick
            ELSE conn.bucket + (wall - conn.last)

(* Mutant of Refill: the bucket follows a clock that was set back. *)
RefillFollows ==
    IF wall > conn.last
    THEN [conn EXCEPT !.bucket = Refilled, !.last = wall]
    ELSE [conn EXCEPT !.last = wall]

(* Allow refills only when time has gone on since the last refill. *)
Refill ==
    IF wall > conn.last
    THEN [conn EXCEPT !.bucket = Refilled, !.last = wall]
    ELSE conn

(* handleCommand: Allow, then dispatch and the answer; without a token the  *)
(* answer is RATE_LIMITED.  Which command it is makes no difference here.   *)
Dispatch ==
    /\ conn.at = "valid" /\ Refill.bucket >= Tick
    /\ conn' = [Refill EXCEPT !.bucket = @ - Tick, !.at = "reading"]
    /\ passed' = [passed EXCEPT !.count = @ + 1, !.late = @ \/ conn.late]
    /\ UNCHANGED <<sessionVars, wall>>

RateLimited ==
    /\ conn.at = "valid" /\ Refill.bucket < Tick
    /\ conn' = [Refill EXCEPT !.at = "reading"]
    /\ UNCHANGED <<sessionVars, wall, passed>>

(* A frame that is no command is answered before the bucket is asked. *)
BadEnvelope ==
    /\ conn.at = "valid" /\ ConnGoes("reading")
    /\ UNCHANGED <<sessionVars, wall, passed>>

(* The client goes, another connection takes over, Redis or the write of an *)
(* answer fails: readLoop returns.                                          *)
Disconnect ==
    /\ conn.at # "closed" /\ conn' = NoConn
    /\ UNCHANGED <<sessionVars, wall, passed>>

CommandsNext ==
    \/ \E t \in DOMAIN tokens : Connect(t)
    \/ ReadMessage \/ ValidateActiveSession \/ BadEnvelope \/ Dispatch \/ RateLimited
    \/ Disconnect \/ WallClock
    \/ SessionsNext /\ UNCHANGED commandVars

CommandsSpec == CommandsInit /\ [][CommandsNext]_<<sessionVars, commandVars>>
-----------------------------------------------------------------------------
(* A command that arrives after another login took the session's place, or  *)
(* after the session ran out, is not carried out, however long the          *)
(* connection has been open and whenever in its loop the login happens      *)
(* (readLoop validates after ReadMessage).                                  *)
ReplacedIsSilent == ~passed.late

(* Of the commands of a connection no more are let through than its burst   *)
(* and what its rate earned in the time that really passed: a clock that is *)
(* set back and catches up earns nothing twice (commandRateLimiter.Allow).  *)
RateBounded == passed.count * Tick <= Burst * Tick + (passed.until - passed.since)
=============================================================================
