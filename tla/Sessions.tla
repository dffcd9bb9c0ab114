------------------------------ MODULE Sessions -------------------------------
(***************************************************************************)
(* The sessions of one account: a login issues a signed token for a device *)
(* type (pkg/auth/token) and records its jti in a Redis hash, one field    *)
(* per device type and one time to live for the whole hash                 *)
(* (pkg/middleware/active_session_store.go).  Logins overlap, and Redis    *)
(* may fail before or after it wrote.  A token is named by its number.     *)
(***************************************************************************)
EXTENDS Naturals, Sequences

CONSTANTS
    Devices,         \* device types
    TokenTTL,        \* ttl of the token manager
    MaxTokens,       \* bound: logins
    MaxTime          \* bound: the clock

ASSUME SessionsConstants == TokenTTL \in Nat \ {0} /\ MaxTokens \in Nat /\ MaxTime \in Nat

VARIABLES
    time,            \* the clock
    tokens,          \* tokens issued: device, expiry, and what became of the login
    activeSession,   \* the hash: the token of a device, 0 without
    hashUntil,       \* when the hash expires
    latest           \* history: the token that was recorded last, by device

sessionVars == <<time, tokens, activeSession, hashUntil, latest>>

NoSessions == [d \in Devices |-> 0]

SessionsInit ==
    /\ time = 0 /\ tokens = <<>>
    /\ activeSession = NoSessions /\ hashUntil = 0 /\ latest = NoSessions
-----------------------------------------------------------------------------
(* Login or Register: Issue. *)
Issue(d) ==
    /\ Len(tokens) < MaxTokens
    /\ tokens' = Append(tokens, [device |-> d, expiresAt |-> time + TokenTTL, login |-> "issued"])
    /\ UNCHANGED <<time, activeSession, hashUntil, latest>>

LoginEnds(t, how) == tokens' = [tokens EXCEPT ![t].login = how]

(* Mutant of Record: only a new hash gets a time to live. *)
RecordExpireNX(t) ==
    /\ activeSession' = [activeSession EXCEPT ![tokens[t].device] = t]
    /\ hashUntil' = (IF activeSession = NoSessions THEN time + TokenTTL ELSE hashUntil)
    /\ latest' = [latest EXCEPT ![tokens[t].device] = t]

(* HSET and EXPIRE, in one transaction. *)
Record(t) ==
    /\ activeSession' = [activeSession EXCEPT ![tokens[t].device] = t]
    /\ hashUntil' = time + TokenTTL
    /\ latest' = [latest EXCEPT ![tokens[t].device] = t]

(* issueToken goes on to SetActive and answers with the token. *)
SetActive(t) ==
    /\ tokens[t].login = "issued" /\ LoginEnds(t, "answered")
    /\ Record(t) /\ UNCHANGED time

(* SetActive fails, with or without its effect: the token is not given out. *)
SetActiveFails(t) ==
    /\ tokens[t].login = "issued" /\ LoginEnds(t, "refused")
    /\ Record(t) \/ UNCHANGED <<activeSession, hashUntil, latest>>
    /\ UNCHANGED time

(* Time passes; Redis drops a hash whose time is up. *)
SessionClock ==
    /\ time < MaxTime
    /\ time' = time + 1
    /\ activeSession' = (IF time' >= hashUntil THEN NoSessions ELSE activeSession)
    /\ UNCHANGED <<tokens, hashUntil, latest>>

SessionsNext ==
    \/ \E d \in Devices : Issue(d)
    \/ \E t \in DOMAIN tokens : SetActive(t) \/ SetActiveFails(t)
    \/ SessionClock

SessionsSpec == SessionsInit /\ [][SessionsNext]_sessionVars
-----------------------------------------------------------------------------
(* Manager.Validate: the token has not expired.  RedisSessionStore.Validate: *)
(* it is the one the hash has for its device.  ValidateToken, the HTTP        *)
(* middleware and the gateway's handshake ask both.                           *)
NotExpired(t) == time < tokens[t].expiresAt
Validate(t) == activeSession[tokens[t].device] = t

(* A login is valid for as long as its token says, unless the same device   *)
(* type logs in again: logins of other devices, and the time to live they   *)
(* share with it, never end it.                                             *)
LoginLasts ==
    \A d \in Devices :
        latest[d] # 0 /\ NotExpired(latest[d]) => Validate(latest[d])
=============================================================================
