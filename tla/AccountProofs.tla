---------------------------- MODULE AccountProofs ----------------------------
(***************************************************************************)
(* Theorems about an account: how it is registered (Identity), its         *)
(* sessions (Sessions), a connection of one (Commands), and the ids it and *)
(* everything else is named by (IdGen).  They hold for any number of       *)
(* calls, codes, logins, devices, machines and facets, any spans of the    *)
(* bit fields, and however the clocks run.                                 *)
(***************************************************************************)
EXTENDS Identity, Commands, IdGen, FiniteSetTheorems, NaturalsInduction, TLAPS

-----------------------------------------------------------------------------
(*                                Sessions                                 *)

Tokens == [device : Devices, expiresAt : Nat, login : {"issued", "answered", "refused"}]

SessionTypes ==
    /\ time \in Nat /\ hashUntil \in Nat
    /\ tokens \in Seq(Tokens)
    /\ activeSession \in [Devices -> Nat] /\ latest \in [Devices -> Nat]

(* No token outlives a hash that is renewed now. *)
NothingOutlivesRenewal ==
    /\ hashUntil <= time + TokenTTL
    /\ \A t \in DOMAIN tokens : tokens[t].expiresAt <= time + TokenTTL

(* The hash has the last login of each device, or its token has expired;    *)
(* and the hash lives as long as each of them.                              *)
LatestIsActive ==
    \A d \in Devices : latest[d] # 0 =>
        /\ latest[d] \in DOMAIN tokens /\ tokens[latest[d]].device = d
        /\ tokens[latest[d]].expiresAt <= hashUntil
        /\ activeSession[d] = latest[d] \/ tokens[latest[d]].expiresAt <= time

(* The inductive invariant of Sessions. *)
SessionInv == SessionTypes /\ NothingOutlivesRenewal /\ LatestIsActive

LEMMA SessionsInitially == SessionsInit => SessionInv
BY SessionsConstants DEF SessionsInit, SessionInv, SessionTypes, NothingOutlivesRenewal, LatestIsActive, NoSessions, Tokens

LEMMA TokensTyped == ASSUME SessionInv, NEW t \in DOMAIN tokens PROVE tokens[t] \in Tokens /\ t \in Nat \ {0}
BY DEF SessionInv, SessionTypes

(* The end of a login changes what became of it and nothing else.           *)
LEMMA LoginEnding ==
    ASSUME SessionTypes, NEW t \in DOMAIN tokens, NEW how \in {"answered", "refused"}, LoginEnds(t, how)
    PROVE  /\ tokens' \in Seq(Tokens) /\ DOMAIN tokens' = DOMAIN tokens
           /\ \A k \in DOMAIN tokens : /\ tokens'[k].device = tokens[k].device
                                       /\ tokens'[k].expiresAt = tokens[k].expiresAt
                                       /\ k # t => tokens'[k].login = tokens[k].login
           /\ tokens'[t].login = how /\ tokens[t].device \in Devices
<1>1. tokens \in [1 .. Len(tokens) -> Tokens] /\ DOMAIN tokens = 1 .. Len(tokens) /\ Len(tokens) \in Nat
  BY DEF SessionTypes
<1>2. [tokens[t] EXCEPT !.login = how] \in Tokens
  BY <1>1 DEF Tokens
<1>3. tokens' = [tokens EXCEPT ![t] = [tokens[t] EXCEPT !.login = how]]
  BY DEF LoginEnds
<1>4. tokens' \in [1 .. Len(tokens) -> Tokens]
  BY <1>1, <1>2, <1>3
<1>5. tokens' \in Seq(Tokens)
  BY <1>1, <1>4
<1> QED
  BY <1>1, <1>2, <1>3, <1>5 DEF Tokens

(* Recording a login renews the hash for all the devices.                   *)
LEMMA Recording ==
    ASSUME SessionInv, NEW t \in DOMAIN tokens, NEW how \in {"answered", "refused"},
           LoginEnds(t, how), Record(t), UNCHANGED time
    PROVE  SessionInv'
<1> DEFINE d == tokens[t].device
<1>1. d \in Devices /\ TokenTTL \in Nat /\ t \in Nat /\ t # 0
  BY LoginEnding, SessionsConstants DEF SessionInv, SessionTypes
<1>2. SessionTypes'
  BY <1>1, LoginEnding DEF SessionInv, SessionTypes, Record
<1>3. NothingOutlivesRenewal'
  BY <1>1, LoginEnding DEF SessionInv, SessionTypes, NothingOutlivesRenewal, Record
<1>4. /\ latest'[d] = t /\ activeSession'[d] = t
      /\ \A e \in Devices \ {d} : latest'[e] = latest[e] /\ activeSession'[e] = activeSession[e]
      /\ hashUntil' = time + TokenTTL
  BY <1>1 DEF SessionInv, SessionTypes, Record
<1>5. \A k \in DOMAIN tokens : tokens[k].expiresAt <= hashUntil'
  BY <1>4 DEF SessionInv, NothingOutlivesRenewal
<1>6. LatestIsActive'
  BY <1>1, <1>4, <1>5, LoginEnding DEF SessionInv, LatestIsActive
<1> QED
  BY <1>2, <1>3, <1>6 DEF SessionInv

LEMMA SessionStep == SessionInv /\ [SessionsNext]_sessionVars => SessionInv'
<1> SUFFICES ASSUME SessionInv, [SessionsNext]_sessionVars
             PROVE  SessionInv'
  OBVIOUS
<1> USE SessionsConstants DEF SessionInv
<1>1. ASSUME NEW d \in Devices, Issue(d)
      PROVE  SessionInv'
  <2> DEFINE new == [device |-> d, expiresAt |-> time + TokenTTL, login |-> "issued"]
  <2>1. tokens' = Append(tokens, new) /\ new \in Tokens /\ new.expiresAt = time + TokenTTL
    BY <1>1 DEF Issue, SessionTypes, Tokens
  <2> HIDE DEF new
  <2>2. /\ tokens' \in Seq(Tokens) /\ Len(tokens) \in Nat /\ DOMAIN tokens' = DOMAIN tokens \cup {Len(tokens) + 1}
        /\ tokens'[Len(tokens) + 1] = new
        /\ \A k \in DOMAIN tokens : tokens'[k] = tokens[k]
    BY <2>1 DEF SessionTypes
  <2> QED
    BY <1>1, <2>1, <2>2 DEF Issue, SessionTypes, NothingOutlivesRenewal, LatestIsActive
<1>2. ASSUME NEW t \in DOMAIN tokens, SetActive(t)
      PROVE  SessionInv'
  BY <1>2, Recording DEF SetActive
<1>3. ASSUME NEW t \in DOMAIN tokens, SetActiveFails(t)
      PROVE  SessionInv'
  <2>1. CASE Record(t)
    BY <1>3, <2>1, Recording DEF SetActiveFails
  <2>2. CASE UNCHANGED <<activeSession, hashUntil, latest>>
    <3>1. LoginEnds(t, "refused") /\ UNCHANGED time
      BY <1>3 DEF SetActiveFails
    <3> QED
      BY <2>2, <3>1, LoginEnding DEF SessionTypes, NothingOutlivesRenewal, LatestIsActive
  <2> QED
    BY <1>3, <2>1, <2>2 DEF SetActiveFails
<1>4. CASE SessionClock
  <2>1. /\ time' = time + 1 /\ UNCHANGED <<tokens, hashUntil, latest>> /\ activeSession' \in {NoSessions, activeSession}
        /\ activeSession' = NoSessions => time' >= hashUntil \/ activeSession = NoSessions
    BY <1>4 DEF SessionClock
  <2>2. time \in Nat /\ hashUntil \in Nat /\ TokenTTL \in Nat /\ time + 1 \in Nat
    BY DEF SessionTypes
  <2>3. activeSession' \in [Devices -> Nat] /\ activeSession \in [Devices -> Nat]
    BY <2>1 DEF SessionTypes, NoSessions
  <2>4. SessionTypes'
    BY <2>1, <2>2, <2>3 DEF SessionTypes
  <2>5. \A t \in DOMAIN tokens : tokens[t].expiresAt \in Nat
    BY TokensTyped DEF Tokens
  <2>6. NothingOutlivesRenewal'
    BY <2>1, <2>2, <2>5 DEF NothingOutlivesRenewal
  <2>7. ASSUME NEW d \in Devices, latest[d] # 0
        PROVE  activeSession'[d] = latest[d] \/ tokens[latest[d]].expiresAt <= time'
    <3>1. /\ tokens[latest[d]].expiresAt \in Nat /\ tokens[latest[d]].expiresAt <= hashUntil
          /\ activeSession[d] = latest[d] \/ tokens[latest[d]].expiresAt <= time
      BY <2>5, <2>7 DEF LatestIsActive
    <3>2. CASE activeSession' = activeSession
      BY <2>1, <2>2, <3>1, <3>2
    <3>3. CASE activeSession' # activeSession
      BY <2>1, <2>2, <3>1, <3>3
    <3> QED
      BY <3>2, <3>3
  <2>8. LatestIsActive'
    BY <2>1, <2>7 DEF LatestIsActive
  <2> QED
    BY <2>4, <2>6, <2>8
<1>5. CASE UNCHANGED sessionVars
  BY <1>5 DEF sessionVars, SessionTypes, NothingOutlivesRenewal, LatestIsActive
<1> QED
  BY <1>1, <1>2, <1>3, <1>4, <1>5 DEF SessionsNext

LEMMA SessionInvImplies == SessionInv => LoginLasts
<1> SUFFICES ASSUME SessionInv, NEW d \in Devices, latest[d] # 0, NotExpired(latest[d])
             PROVE  Validate(latest[d])
  BY DEF LoginLasts
<1>1. latest[d] \in DOMAIN tokens /\ tokens[latest[d]] \in Tokens
  BY DEF SessionInv, SessionTypes, LatestIsActive
<1> QED
  BY <1>1 DEF SessionInv, SessionTypes, LatestIsActive, NotExpired, Validate, Tokens

(* A login is valid until its token expires or its device logs in again:    *)
(* no login of another device, no failed one and no renewal of the hash     *)
(* they share takes it away.                                                *)
THEOREM LoginsLast == SessionsSpec => []LoginLasts
BY SessionsInitially, SessionStep, SessionInvImplies, PTL DEF SessionsSpec

-----------------------------------------------------------------------------
(*                                Commands                                 *)

ConnStates == [at : {"closed", "reading", "read", "valid"}, token : Nat, bucket : Int, last : Nat, late : BOOLEAN]

CommandTypes ==
    /\ wall \in Nat /\ conn \in ConnStates
    /\ passed \in [count : Nat, since : Nat, until : Nat, late : BOOLEAN]

(* The token of an open connection was answered, so it is not recorded      *)
(* again; a command that came too late is not valid, and stays so.          *)
LateIsInvalid ==
    /\ conn.at # "closed" => conn.token \in DOMAIN tokens /\ tokens[conn.token].login = "answered"
    /\ conn.at = "read" /\ conn.late => ~Validate(conn.token)
    /\ conn.at = "valid" => ~conn.late

(* Every token a command took was in the first bucket or was earned up to   *)
(* the last refill, which is never later than the latest time seen.         *)
TokensAccounted ==
    /\ wall <= passed.until
    /\ conn.at # "closed" =>
          /\ conn.last <= passed.until
          /\ passed.count * Tick + conn.bucket <= Burst * Tick + (conn.last - passed.since)
          /\ conn.bucket >= 0

(* The inductive invariant of Commands. *)
CommandInv ==
    SessionInv /\ CommandTypes /\ LateIsInvalid /\ TokensAccounted /\ ReplacedIsSilent /\ RateBounded

LEMMA CommandsInitially == CommandsInit => CommandInv
<1> SUFFICES ASSUME CommandsInit
             PROVE  CommandInv
  OBVIOUS
<1>1. SessionInv
  BY SessionsInitially DEF CommandsInit
<1>2. CommandTypes /\ LateIsInvalid /\ TokensAccounted /\ ReplacedIsSilent
  BY DEF CommandsInit, CommandTypes, LateIsInvalid, TokensAccounted, ReplacedIsSilent, NoConn, NoneYet, ConnStates
<1>3. Burst * Tick \in Nat /\ 0 * Tick = 0
  BY CommandsConstants
<1>4. RateBounded
  BY <1>3 DEF CommandsInit, RateBounded, NoneYet
<1> QED
  BY <1>1, <1>2, <1>4 DEF CommandInv

(* An answered token that is not in the hash does not come back: only a     *)
(* login that is still going on is recorded.                                *)
LEMMA InvalidStays ==
    ASSUME SessionInv, [SessionsNext]_sessionVars, NEW k \in DOMAIN tokens, tokens[k].login = "answered"
    PROVE  /\ k \in DOMAIN tokens' /\ tokens'[k].login = "answered"
           /\ ~Validate(k) => ~Validate(k)'
<1> USE DEF SessionInv
<1>0. k # 0 /\ tokens[k].device \in Devices
  BY TokensTyped DEF Tokens
<1>1. ASSUME NEW d \in Devices, Issue(d)
      PROVE  k \in DOMAIN tokens' /\ tokens'[k] = tokens[k] /\ UNCHANGED activeSession
  <2> DEFINE new == [device |-> d, expiresAt |-> time + TokenTTL, login |-> "issued"]
  <2>1. tokens' = Append(tokens, new) /\ UNCHANGED activeSession /\ new \in Tokens
    BY <1>1, SessionsConstants DEF Issue, SessionTypes, Tokens
  <2> HIDE DEF new
  <2> QED
    BY <2>1 DEF SessionTypes
<1>2. ASSUME NEW t \in DOMAIN tokens, SetActive(t) \/ SetActiveFails(t)
      PROVE  /\ k \in DOMAIN tokens' /\ tokens'[k].login = "answered" /\ tokens'[k].device = tokens[k].device
             /\ activeSession'[tokens[k].device] \in {activeSession[tokens[k].device], t} /\ t # k
  <2>1. t # k
    BY <1>2 DEF SetActive, SetActiveFails
  <2>2. PICK how \in {"answered", "refused"} : LoginEnds(t, how)
    BY <1>2 DEF SetActive, SetActiveFails
  <2>3. /\ DOMAIN tokens' = DOMAIN tokens
        /\ tokens'[k].login = tokens[k].login /\ tokens'[k].device = tokens[k].device
    BY <2>1, <2>2, LoginEnding
  <2>4. activeSession' = [activeSession EXCEPT ![tokens[t].device] = t] \/ UNCHANGED activeSession
    BY <1>2 DEF SetActive, SetActiveFails, Record
  <2> QED
    BY <1>0, <2>1, <2>3, <2>4 DEF SessionTypes
<1>3. CASE SessionClock
  BY <1>0, <1>3 DEF SessionClock, NoSessions, Validate
<1>4. CASE UNCHANGED sessionVars
  BY <1>4 DEF sessionVars, Validate
<1> QED
  BY <1>0, <1>1, <1>2, <1>3, <1>4 DEF SessionsNext, Validate

(* A refill earns no more than the time since the last one. *)
LEMMA Refilling ==
    ASSUME CommandTypes, TokensAccounted, conn.at = "valid"
    PROVE  /\ Refill \in ConnStates /\ Refill.at = "valid" /\ Refill.token = conn.token /\ Refill.late = conn.late
           /\ Refill.last <= passed.until /\ Refill.bucket >= 0
           /\ passed.count * Tick + Refill.bucket <= Burst * Tick + (Refill.last - passed.since)
<1>1. Burst * Tick \in Nat /\ passed.count * Tick \in Nat
  BY CommandsConstants DEF CommandTypes
<1>2. /\ conn \in ConnStates /\ wall \in Nat /\ passed.since \in Nat /\ passed.until \in Nat
      /\ conn.bucket \in Int /\ conn.last \in Nat
  BY DEF CommandTypes, ConnStates
<1> DEFINE B == Burst * Tick
           C == passed.count * Tick
<1>3. C + conn.bucket <= B + (conn.last - passed.since) /\ conn.bucket >= 0 /\ wall <= passed.until
  BY DEF TokensAccounted
<1>4. CASE wall > conn.last
  <2>1. Refill = [conn EXCEPT !.bucket = Refilled, !.last = wall]
    BY <1>4 DEF Refill
  <2>2. Refilled = IF conn.bucket + (wall - conn.last) > B THEN B ELSE conn.bucket + (wall - conn.last)
    BY DEF Refilled
  <2> HIDE DEF B, C
  <2>3. Refilled \in Int /\ Refilled >= 0 /\ Refilled <= conn.bucket + (wall - conn.last)
    BY <1>1, <1>2, <1>3, <1>4, <2>2 DEF B
  <2>4. Refill.bucket = Refilled /\ Refill.last = wall /\ Refill \in ConnStates
        /\ Refill.at = "valid" /\ Refill.token = conn.token /\ Refill.late = conn.late
    BY <1>2, <2>1, <2>3 DEF ConnStates
  <2>5. C + Refilled <= B + (wall - passed.since)
    BY <1>1, <1>2, <1>3, <2>3 DEF B, C
  <2> QED
    BY <1>3, <2>3, <2>4, <2>5 DEF B, C
<1>5. CASE ~(wall > conn.last)
  BY <1>2, <1>3, <1>5 DEF Refill, TokensAccounted
<1> QED
  BY <1>4, <1>5

(* Every step of the connection, of the sessions and of the clocks. *)
LEMMA CommandStep == CommandInv /\ [CommandsNext]_<<sessionVars, commandVars>> => CommandInv'
<1> SUFFICES ASSUME CommandInv, [CommandsNext]_<<sessionVars, commandVars>>
             PROVE  CommandInv'
  OBVIOUS
<1> USE DEF CommandInv
<1>0. /\ Tick \in Nat \ {0} /\ Burst * Tick \in Nat /\ passed.count * Tick \in Nat
      /\ (passed.count + 1) * Tick = passed.count * Tick + Tick /\ 0 * Tick = 0
      /\ wall \in Nat /\ conn \in ConnStates /\ conn.bucket \in Int /\ conn.last \in Nat
      /\ passed.count \in Nat /\ passed.since \in Nat /\ passed.until \in Nat
  BY CommandsConstants DEF CommandTypes, ConnStates
<1>1. UNCHANGED sessionVars => SessionInv' /\ \A t : Validate(t)' <=> Validate(t)
  BY DEF sessionVars, SessionInv, SessionTypes, NothingOutlivesRenewal, LatestIsActive, Validate
<1>2. ASSUME NEW t \in DOMAIN tokens, Connect(t)
      PROVE  CommandInv'
  <2>1. /\ conn' = [at |-> "reading", token |-> t, bucket |-> Burst * Tick, last |-> wall, late |-> FALSE]
        /\ passed' = [count |-> 0, since |-> wall, until |-> wall, late |-> FALSE]
        /\ UNCHANGED <<sessionVars, wall>> /\ t \in Nat /\ tokens[t].login = "answered"
    BY <1>2, TokensTyped DEF Connect
  <2>2. CommandTypes' /\ LateIsInvalid' /\ ReplacedIsSilent'
    BY <1>0, <2>1 DEF CommandTypes, LateIsInvalid, ReplacedIsSilent, ConnStates, sessionVars
  <2>3. TokensAccounted' /\ RateBounded'
    BY <1>0, <2>1 DEF TokensAccounted, RateBounded
  <2> QED
    BY <1>1, <2>1, <2>2, <2>3
<1>3. ASSUME ReadMessage \/ ValidateActiveSession \/ BadEnvelope \/ Disconnect
      PROVE  CommandInv'
  <2>1. UNCHANGED <<sessionVars, wall, passed>>
    BY <1>3 DEF ReadMessage, ValidateActiveSession, BadEnvelope, Disconnect
  <2>2. /\ conn' \in ConnStates
        /\ \/ conn'.at = "closed"
           \/ /\ conn.at # "closed"
              /\ conn'.token = conn.token /\ conn'.bucket = conn.bucket /\ conn'.last = conn.last
              /\ conn'.at = "read" /\ conn'.late => ~Validate(conn.token)
              /\ conn'.at = "valid" => ~conn'.late
    <3>1. CASE ReadMessage
      <4> DEFINE late == ~Validate(conn.token)
      <4>1. late \in BOOLEAN /\ (late => ~Validate(conn.token))
        OBVIOUS
      <4>2. conn' = [conn EXCEPT !.at = "read", !.late = late] /\ conn.at = "reading"
        BY <3>1 DEF ReadMessage
      <4> HIDE DEF late
      <4> QED
        BY <1>0, <4>1, <4>2 DEF ConnStates
    <3>2. CASE ValidateActiveSession
      <4>1. CASE Validate(conn.token)
        <5>1. conn.at = "read" /\ conn' = [conn EXCEPT !.at = "valid"]
          BY <3>2, <4>1 DEF ValidateActiveSession, ConnGoes
        <5>2. ~conn.late
          BY <4>1, <5>1 DEF LateIsInvalid
        <5> QED
          BY <1>0, <5>1, <5>2 DEF ConnStates
      <4>2. CASE ~Validate(conn.token)
        <5>1. conn' = NoConn
          BY <3>2, <4>2 DEF ValidateActiveSession
        <5> QED
          BY <5>1 DEF ConnStates, NoConn
      <4> QED
        BY <4>1, <4>2
    <3>3. CASE BadEnvelope
      BY <1>0, <3>3 DEF BadEnvelope, ConnGoes, ConnStates
    <3>4. CASE Disconnect
      BY <3>4 DEF Disconnect, NoConn, ConnStates
    <3> QED
      BY <1>3, <3>1, <3>2, <3>3, <3>4
  <2>3. CommandTypes' /\ LateIsInvalid'
    BY <1>1, <2>1, <2>2 DEF CommandTypes, LateIsInvalid, sessionVars
  <2>4. TokensAccounted' /\ RateBounded' /\ ReplacedIsSilent'
    BY <2>1, <2>2 DEF TokensAccounted, RateBounded, ReplacedIsSilent
  <2> QED
    BY <1>1, <2>1, <2>3, <2>4
<1>4. CASE Dispatch
  <2> DEFINE b == Refill.bucket
  <2>1. /\ conn.at = "valid" /\ b >= Tick /\ UNCHANGED <<sessionVars, wall>>
        /\ conn' = [Refill EXCEPT !.bucket = b - Tick, !.at = "reading"]
        /\ passed' = [passed EXCEPT !.count = passed.count + 1, !.late = passed.late \/ conn.late]
    BY <1>4 DEF Dispatch
  <2>2. /\ Refill \in ConnStates /\ Refill.token = conn.token /\ Refill.last <= passed.until /\ b \in Int /\ b >= 0
        /\ passed.count * Tick + b <= Burst * Tick + (Refill.last - passed.since) /\ Refill.last \in Nat
    BY <2>1, Refilling DEF ConnStates
  <2>3. /\ conn'.at = "reading" /\ conn'.token = conn.token /\ conn'.last = Refill.last /\ conn'.bucket = b - Tick
        /\ conn' \in ConnStates
    <3>1. b - Tick \in Int
      BY <1>0, <2>2
    <3> HIDE DEF b
    <3> QED
      BY <1>0, <2>1, <2>2, <3>1 DEF ConnStates
  <2>4. /\ passed'.count = passed.count + 1 /\ passed'.since = passed.since /\ passed'.until = passed.until
        /\ ~passed'.late /\ passed' \in [count : Nat, since : Nat, until : Nat, late : BOOLEAN]
    <3>1. passed.late = FALSE /\ conn.late = FALSE
      BY <1>0, <2>1 DEF CommandTypes, ConnStates, LateIsInvalid, ReplacedIsSilent
    <3>2. passed' = [passed EXCEPT !.count = passed.count + 1, !.late = FALSE]
      BY <2>1, <3>1
    <3>3. passed.count + 1 \in Nat
      BY <1>0
    <3> QED
      BY <3>2, <3>3 DEF CommandTypes
  <2>5. CommandTypes' /\ LateIsInvalid' /\ ReplacedIsSilent'
    BY <1>0, <2>1, <2>3, <2>4 DEF CommandTypes, LateIsInvalid, ReplacedIsSilent, sessionVars
  <2> HIDE DEF b
  <2>6. passed'.count * Tick = passed.count * Tick + Tick
    BY <1>0, <2>4
  <2>7. TokensAccounted' /\ RateBounded'
    BY <1>0, <2>1, <2>2, <2>3, <2>4, <2>6 DEF TokensAccounted, RateBounded
  <2> QED
    BY <1>1, <2>1, <2>5, <2>7
<1>5. CASE RateLimited
  <2>1. conn.at = "valid" /\ UNCHANGED <<sessionVars, wall, passed>> /\ conn' = [Refill EXCEPT !.at = "reading"]
    BY <1>5 DEF RateLimited
  <2>2. /\ conn'.at = "reading" /\ conn'.token = conn.token /\ conn'.last = Refill.last
        /\ conn'.bucket = Refill.bucket /\ conn' \in ConnStates
    BY <2>1, Refilling DEF ConnStates
  <2>3. CommandTypes' /\ LateIsInvalid' /\ ReplacedIsSilent' /\ RateBounded'
    BY <2>1, <2>2 DEF CommandTypes, LateIsInvalid, ReplacedIsSilent, RateBounded, sessionVars
  <2>4. TokensAccounted'
    BY <2>1, <2>2, Refilling DEF TokensAccounted
  <2> QED
    BY <1>1, <2>1, <2>3, <2>4
<1>6. CASE WallClock
  <2>1. PICK w \in {wall - 1, wall + 1} \cap 0 .. MaxWall : wall' = w /\ Now(w)
    BY <1>6 DEF WallClock
  <2>2. UNCHANGED <<sessionVars, conn>> /\ wall' \in Nat
    BY <1>6, <2>1, CommandsConstants DEF WallClock
  <2>3. passed' = [passed EXCEPT !.until = IF w > passed.until THEN w ELSE passed.until]
    BY <2>1 DEF Now
  <2>4. /\ passed' \in [count : Nat, since : Nat, until : Nat, late : BOOLEAN]
        /\ passed'.count = passed.count /\ passed'.since = passed.since /\ passed'.late = passed.late
        /\ passed'.until >= passed.until /\ passed'.until >= wall'
    BY <1>0, <2>1, <2>2, <2>3 DEF CommandTypes
  <2>5. CommandTypes' /\ LateIsInvalid' /\ ReplacedIsSilent'
    BY <1>1, <2>2, <2>4 DEF CommandTypes, LateIsInvalid, ReplacedIsSilent, sessionVars
  <2>6. passed'.until \in Nat
    BY <2>4
  <2>7. TokensAccounted' /\ RateBounded'
    BY <1>0, <2>2, <2>4, <2>6 DEF TokensAccounted, RateBounded
  <2> QED
    BY <1>1, <2>2, <2>5, <2>7
<1>7. CASE SessionsNext /\ UNCHANGED commandVars
  <2>1. SessionInv'
    BY <1>7, SessionStep
  <2>2. CommandTypes' /\ TokensAccounted' /\ ReplacedIsSilent' /\ RateBounded'
    BY <1>7 DEF commandVars, CommandTypes, TokensAccounted, ReplacedIsSilent, RateBounded
  <2>3. LateIsInvalid'
    BY <1>7, InvalidStays DEF commandVars, LateIsInvalid
  <2> QED
    BY <2>1, <2>2, <2>3
<1>8. CASE UNCHANGED <<sessionVars, commandVars>>
  BY <1>1, <1>8 DEF commandVars, CommandTypes, LateIsInvalid, TokensAccounted, ReplacedIsSilent, RateBounded, sessionVars
<1> QED
  BY <1>2, <1>3, <1>4, <1>5, <1>6, <1>7, <1>8 DEF CommandsNext

(* A command that arrives after its session was replaced or ran out is not  *)
(* carried out, whenever between the reads, checks and answers of readLoop  *)
(* the other login is recorded.                                             *)
THEOREM ReplacedStaysSilent == CommandsSpec => []ReplacedIsSilent
<1>1. CommandInv => ReplacedIsSilent
  BY DEF CommandInv
<1> QED
  BY <1>1, CommandsInitially, CommandStep, PTL DEF CommandsSpec

(* The commands of a connection are bounded by its burst and what its rate  *)
(* earned in the time that passed, for every burst and rate and however the *)
(* clock is set back.                                                       *)
THEOREM RateIsBounded == CommandsSpec => []RateBounded
<1>1. CommandInv => RateBounded
  BY DEF CommandInv
<1> QED
  BY <1>1, CommandsInitially, CommandStep, PTL DEF CommandsSpec

-----------------------------------------------------------------------------
(*                                Identity                                 *)

CodeRows ==
    [state : {"open", "live", "used", "void"}, age : {"fresh", "old", "expired"}, attempts : Nat, passed : Nat]

(* The steps of a call, by the operations that take them. *)
RegisterAt == {"exists", "email", "latest", "attempt", "consume"}
CodeAt == {"cooldown", "supersede", "insert"}
AssistantAt == {"assistant", "legacy", "rename", "createAssistant", "assemble", "befriend"}
IdentityAt == RegisterAt \cup CodeAt \cup AssistantAt \cup {"idle", "existing", "create", "credential", "list"}

IdCallStates ==
    [op : {"none", "code", "register", "test", "backfill"}, ident : Identifiers \cup {"none"}, guess : Nat,
     code : Nat, at : IdentityAt, locked : SUBSET Nat, todo : SUBSET Identifiers]

StepOfItsOp(o) ==
    /\ o.at \in RegisterAt => o.op = "register"
    /\ o.at \in CodeAt => o.op = "code"
    /\ o.at = "existing" => o.op = "test"
    /\ o.at \in {"create", "credential"} => o.op \in {"register", "test"}
    /\ o.at \in AssistantAt => o.op \in {"register", "test", "backfill"}
    /\ o.at = "list" => o.op = "backfill"
    /\ o.op \in {"register", "test"} => o.ident \in Identifiers

IdentityTypes ==
    /\ codes \in Seq(CodeRows)
    /\ accounts \in [Identifiers -> {"none", "user", "test"}]
    /\ credentials \subseteq Identifiers /\ friendly \subseteq Identifiers
    /\ assistant \in {"none", "legacy", "current"} /\ assembled \in BOOLEAN
    /\ idCalls \in [IdentityCalls -> IdCallStates]
    /\ \A c \in IdentityCalls : StepOfItsOp(idCalls[c])

(* A code that was not used let nobody through. *)
PassedOnce ==
    \A n \in DOMAIN codes : codes[n].passed <= 1 /\ (codes[n].state # "used" => codes[n].passed = 0)

(* A code that is being inserted is its transaction's own, nobody sees it,  *)
(* and the codes the transaction supersedes are others.                     *)
OwnCode ==
    \A c \in IdentityCalls : idCalls[c].at = "insert" =>
        /\ idCalls[c].code \in DOMAIN codes /\ codes[idCalls[c].code].state = "open"
        /\ \A n \in idCalls[c].locked : n \in DOMAIN codes /\ codes[n].state # "open"
        /\ \A d \in IdentityCalls \ {c} : idCalls[d].at = "insert" => idCalls[d].code # idCalls[c].code

(* The calls that read the attempts of code n and will raise them. *)
Guessing(n) == {c \in IdentityCalls : idCalls[c].at \in {"attempt", "consume"} /\ idCalls[c].code = n}

GuessersRead == \A c \in IdentityCalls : idCalls[c].at \in {"attempt", "consume"} => idCalls[c].code \in DOMAIN codes

(* Attempts made and to be made: a call joins when fewer than the maximum   *)
(* were made, so that all but it were already guessing.                     *)
GuessesCounted ==
    \A n \in DOMAIN codes :
        codes[n].attempts + Cardinality(Guessing(n)) <= MaxAttempts - 1 + Cardinality(IdentityCalls)

(* The inductive invariant of codes. *)
CodeInv == IdentityTypes /\ PassedOnce /\ OwnCode /\ GuessersRead /\ GuessesCounted

(* How far the provisioning of a call has come is what it already did. *)
Provisioned(o) ==
    /\ o.op \in {"register", "test"} /\ o.at \in AssistantAt \cup {"credential"} =>
          accounts[o.ident] = IF o.op = "test" THEN "test" ELSE "user"
    /\ o.at \in {"assemble", "befriend", "list"} \/ (o.at = "credential" /\ o.op = "register") =>
          assistant = "current"
    /\ o.at \in {"befriend", "list"} \/ (o.at = "credential" /\ o.op = "register") => assembled
    /\ o.at = "credential" /\ o.op = "register" => o.ident \in friendly

(* The inductive invariant of accounts. *)
ProvisionInv ==
    /\ IdentityTypes
    /\ \A c \in IdentityCalls : Provisioned(idCalls[c])
    /\ \A i \in credentials : accounts[i] # "none"
    /\ UsersHaveAssistant

(* A set of positions of a sequence has a greatest element: Latest is one   *)
(* of the committed codes.                                                  *)
LEMMA GreatestBelow ==
    ASSUME NEW N \in Nat, NEW S \in SUBSET (1 .. N), S # {}
    PROVE  \E x \in S : \A y \in S : y <= x
<1> DEFINE R == OpToRel(<, Nat)
           T == {k \in Nat : k <= N /\ N - k \in S}
<1>1. R = {ss \in Nat \X Nat : ss[1] < ss[2]}
  BY Zenon DEF OpToRel
<1>2. T \subseteq Nat /\ T # {}
  <2>1. PICK y \in S : TRUE
    OBVIOUS
  <2>2. N - y \in Nat /\ N - y <= N /\ N - (N - y) = y
    BY <2>1
  <2> QED
    BY <2>1, <2>2
<1>3. PICK k \in T : \A j \in T : ~ (<<j, k>> \in R)
  <2>1. IsWellFoundedOn(R, Nat)
    BY NatLessThanWellFounded
  <2> HIDE DEF R, T
  <2> QED
    BY <1>2, <2>1, WFMin
<1>4. \A j \in T : ~(j < k)
  BY <1>1, <1>3
<1>5. ASSUME NEW y \in S
      PROVE  y <= N - k
  <2>1. N - y \in Nat /\ N - y <= N /\ N - (N - y) = y
    OBVIOUS
  <2>2. N - y \in T
    BY <2>1
  <2>3. ~(N - y < k) /\ k \in Nat /\ y \in Nat
    BY <1>4, <2>2
  <2> HIDE DEF T, R
  <2> QED
    BY <2>1, <2>3
<1>6. N - k \in S
  OBVIOUS
<1> QED
  BY <1>5, <1>6

LEMMA LatestIsCommitted == IdentityTypes /\ Committed # {} => Latest \in Committed /\ Latest \in DOMAIN codes
<1> SUFFICES ASSUME IdentityTypes, Committed # {}
             PROVE  Latest \in Committed
  BY DEF Committed
<1>1. Committed \in SUBSET (1 .. Len(codes)) /\ Len(codes) \in Nat
  BY DEF IdentityTypes, Committed
<1>2. \E x \in Committed : \A y \in Committed : y <= x
  BY <1>1, GreatestBelow
<1> QED
  BY <1>2 DEF Latest

(* The frame of a step of a call. *)
OthersStay(c) == \A d \in IdentityCalls : d # c => idCalls'[d] = idCalls[d]

AccountTypes ==
    /\ accounts \in [Identifiers -> {"none", "user", "test"}]
    /\ credentials \subseteq Identifiers /\ friendly \subseteq Identifiers
    /\ assistant \in {"none", "legacy", "current"} /\ assembled \in BOOLEAN

CallTypes == idCalls \in [IdentityCalls -> IdCallStates] /\ \A c \in IdentityCalls : StepOfItsOp(idCalls[c])

LEMMA TypesApart == IdentityTypes <=> codes \in Seq(CodeRows) /\ AccountTypes /\ CallTypes
<1> QED
  BY DEF IdentityTypes, AccountTypes, CallTypes

LEMMA NoCallIsOne == NoCall \in IdCallStates /\ NoCall.at = "idle" /\ StepOfItsOp(NoCall)
<1> QED
  BY DEF NoCall, IdCallStates, IdentityAt, StepOfItsOp, RegisterAt, CodeAt, AssistantAt

LEMMA CallBecomes ==
    ASSUME CallTypes, NEW c \in IdentityCalls, NEW o \in IdCallStates, StepOfItsOp(o),
           idCalls' = [idCalls EXCEPT ![c] = o]
    PROVE  CallTypes' /\ OthersStay(c) /\ idCalls'[c] = o
<1>1. OthersStay(c) /\ idCalls'[c] = o /\ idCalls' \in [IdentityCalls -> IdCallStates]
  BY DEF CallTypes, OthersStay
<1>2. \A d \in IdentityCalls : StepOfItsOp(idCalls'[d])
  BY <1>1 DEF CallTypes, OthersStay
<1> QED
  BY <1>1, <1>2 DEF CallTypes, StepOfItsOp

LEMMA CallEnds ==
    ASSUME CallTypes, NEW c \in IdentityCalls, Ends(c)
    PROVE  CallTypes' /\ OthersStay(c) /\ idCalls'[c] = NoCall
<1> QED
  BY CallBecomes, NoCallIsOne DEF Ends

(* A call that goes on keeps what it was asked and what it read. *)
LEMMA CallGoesOn ==
    ASSUME CallTypes, NEW c \in IdentityCalls, NEW at \in IdentityAt, CallGoes(c, at),
           StepOfItsOp([idCalls[c] EXCEPT !.at = at])
    PROVE  /\ CallTypes' /\ OthersStay(c)
           /\ idCalls'[c] = [idCalls[c] EXCEPT !.at = at]
           /\ idCalls'[c].at = at
           /\ idCalls'[c].op = idCalls[c].op /\ idCalls'[c].ident = idCalls[c].ident
           /\ idCalls'[c].code = idCalls[c].code /\ idCalls'[c].locked = idCalls[c].locked
<1> DEFINE o == [idCalls[c] EXCEPT !.at = at]
<1>1. o \in IdCallStates
  BY DEF CallTypes, IdCallStates
<1>2. idCalls' = [idCalls EXCEPT ![c] = o]
  BY DEF CallGoes
<1>3. CallTypes' /\ OthersStay(c) /\ idCalls'[c] = o
  BY <1>1, <1>2, CallBecomes
<1>4. /\ o.at = at /\ o.op = idCalls[c].op /\ o.ident = idCalls[c].ident
      /\ o.code = idCalls[c].code /\ o.locked = idCalls[c].locked
  BY DEF CallTypes, IdCallStates
<1> QED
  BY <1>3, <1>4

(* The steps at which a call holds on to a code. *)
Acting == {"insert", "attempt", "consume"}

LEMMA GuessingFinite == \A n : IsFiniteSet(Guessing(n)) /\ Cardinality(Guessing(n)) \in Nat
                                 /\ Cardinality(Guessing(n)) <= Cardinality(IdentityCalls)
<1> QED
  BY IdentityConstants, FS_Subset, FS_CardinalityType DEF Guessing

LEMMA RowTyped ==
    ASSUME IdentityTypes, NEW n \in DOMAIN codes
    PROVE  codes[n] \in CodeRows
<1> QED
  BY DEF IdentityTypes

(* What the steps that change a code have in common. *)
Guesses == {"attempt", "consume"}

LEMMA GuessersKept ==
    ASSUME CodeInv, DOMAIN codes' = DOMAIN codes,
           \A n \in DOMAIN codes : codes'[n].attempts = codes[n].attempts,
           \A d \in IdentityCalls : idCalls'[d].at \in Guesses => idCalls'[d] = idCalls[d]
    PROVE  GuessersRead' /\ GuessesCounted'
<1>1. GuessersRead'
  BY DEF CodeInv, GuessersRead, Guesses
<1>2. ASSUME NEW n \in DOMAIN codes
      PROVE  codes'[n].attempts + Cardinality(Guessing(n)') <= MaxAttempts - 1 + Cardinality(IdentityCalls)
  <2>1. Guessing(n)' \subseteq Guessing(n)
    BY DEF Guessing, Guesses
  <2>2. Cardinality(Guessing(n)') <= Cardinality(Guessing(n)) /\ Cardinality(Guessing(n)') \in Nat
    BY <2>1, GuessingFinite, FS_Subset, FS_CardinalityType
  <2>3. codes[n].attempts \in Nat /\ codes'[n].attempts = codes[n].attempts
    BY RowTyped DEF CodeInv, CodeRows
  <2>4. codes[n].attempts + Cardinality(Guessing(n)) <= MaxAttempts - 1 + Cardinality(IdentityCalls)
    BY DEF CodeInv, GuessesCounted
  <2>5. Cardinality(Guessing(n)) \in Nat /\ Cardinality(IdentityCalls) \in Nat
    BY GuessingFinite, IdentityConstants, FS_CardinalityType
  <2> QED
    BY <2>2, <2>3, <2>4, <2>5, IdentityConstants
<1> QED
  BY <1>1, <1>2 DEF GuessesCounted

(* The guess that is answered is one fewer to come. *)
LEMMA GuessAnswered ==
    ASSUME CodeInv, NEW c \in IdentityCalls, idCalls[c].at \in Guesses, DOMAIN codes' = DOMAIN codes,
           codes'[idCalls[c].code].attempts = codes[idCalls[c].code].attempts + 1,
           \A n \in DOMAIN codes : n # idCalls[c].code => codes'[n] = codes[n],
           idCalls'[c].at \notin Guesses, OthersStay(c)
    PROVE  GuessersRead' /\ GuessesCounted'
<1> DEFINE m == idCalls[c].code
<1>1. GuessersRead'
  BY DEF CodeInv, GuessersRead, Guesses, OthersStay
<1>2. ASSUME NEW n \in DOMAIN codes
      PROVE  codes'[n].attempts + Cardinality(Guessing(n)') <= MaxAttempts - 1 + Cardinality(IdentityCalls)
  <2>1. Guessing(n)' \subseteq Guessing(n)
    BY DEF Guessing, Guesses, OthersStay
  <2>2. Cardinality(Guessing(n)') <= Cardinality(Guessing(n)) /\ Cardinality(Guessing(n)') \in Nat
    BY <2>1, GuessingFinite, FS_Subset, FS_CardinalityType
  <2>3. codes[n].attempts \in Nat
    BY RowTyped DEF CodeInv, CodeRows
  <2>4. codes[n].attempts + Cardinality(Guessing(n)) <= MaxAttempts - 1 + Cardinality(IdentityCalls)
    BY DEF CodeInv, GuessesCounted
  <2>5. Cardinality(Guessing(n)) \in Nat /\ Cardinality(IdentityCalls) \in Nat
    BY GuessingFinite, IdentityConstants, FS_CardinalityType
  <2>6. CASE n # m
    BY <2>2, <2>3, <2>4, <2>5, <2>6, IdentityConstants
  <2>7. CASE n = m
    <3>1. c \in Guessing(n) /\ Guessing(n)' \subseteq Guessing(n) \ {c}
      BY <2>1, <2>7 DEF Guessing, Guesses
    <3>2. /\ IsFiniteSet(Guessing(n) \ {c})
          /\ Cardinality(Guessing(n) \ {c}) = Cardinality(Guessing(n)) - 1
      BY <3>1, GuessingFinite, FS_RemoveElement
    <3>3. Cardinality(Guessing(n)') <= Cardinality(Guessing(n) \ {c})
      BY <3>1, <3>2, FS_Subset
    <3> QED
      BY <2>2, <2>3, <2>4, <2>5, <2>7, <3>2, <3>3, IdentityConstants
  <2> QED
    BY <2>6, <2>7
<1> QED
  BY <1>1, <1>2 DEF GuessesCounted

LEMMA OwnCodeKept ==
    ASSUME CodeInv, DOMAIN codes' = DOMAIN codes,
           \A n \in DOMAIN codes : codes[n].state # "open" => codes'[n].state # "open",
           \A d \in IdentityCalls : idCalls'[d].at = "insert" =>
              idCalls'[d] = idCalls[d] /\ codes'[idCalls[d].code].state = "open"
    PROVE  OwnCode'
<1> QED
  BY DEF CodeInv, OwnCode

LEMMA RowsTyped ==
    ASSUME CodeInv, NEW f, DOMAIN f = DOMAIN codes, f = [n \in DOMAIN codes |-> f[n]], \A n \in DOMAIN codes : f[n] \in CodeRows
    PROVE  f \in Seq(CodeRows)
<1>1. Len(codes) \in Nat /\ DOMAIN codes = 1 .. Len(codes)
  BY DEF CodeInv, IdentityTypes
<1>2. f \in [1 .. Len(codes) -> CodeRows]
  BY <1>1
<1> QED
  BY <1>1, <1>2

(* A step that leaves the codes alone and takes no call to where it holds   *)
(* on to one.                                                               *)
LEMMA CodesUntouched ==
    ASSUME CodeInv, NEW c \in IdentityCalls, UNCHANGED codes, IdentityTypes', OthersStay(c),
           idCalls'[c].at \notin Acting
    PROVE  CodeInv'
<1>1. PassedOnce'
  BY DEF CodeInv, PassedOnce
<1>2. \A d \in IdentityCalls : idCalls'[d].at \in Acting => d # c /\ idCalls'[d] = idCalls[d]
  BY DEF OthersStay
<1>3. OwnCode'
  BY <1>2 DEF CodeInv, OwnCode, Acting
<1>4. GuessersRead' /\ GuessesCounted'
  BY <1>2, GuessersKept DEF Guesses, Acting
<1> QED
  BY <1>1, <1>3, <1>4 DEF CodeInv

(* Where a call may go from where it is. *)
Follows(from, to) ==
    \/ from = "cooldown" /\ to = "supersede"
    \/ from = "exists" /\ to = "email"
    \/ from = "email" /\ to = "latest"
    \/ from = "existing" /\ to \in {"create", "credential"}
    \/ from = "create" /\ to = "assistant"
    \/ from \in AssistantAt /\ to \in AssistantAt \ {"befriend"}

(* The steps that only move a call on, and those that end it. *)
LEMMA QuietGoes ==
    ASSUME CodeInv, NEW c \in IdentityCalls, UNCHANGED codes, AccountTypes', NEW at \in IdentityAt \ Acting,
           CallGoes(c, at),
           \/ Follows(idCalls[c].at, at)
           \/ idCalls[c].at = "assemble" /\ at = IF idCalls[c].op = "backfill" THEN "list" ELSE "befriend"
           \/ idCalls[c].at = "befriend" /\ idCalls[c].op # "backfill" /\ at = "credential"
    PROVE  CodeInv' /\ CallTypes' /\ OthersStay(c) /\ idCalls'[c].at = at
           /\ idCalls'[c].op = idCalls[c].op /\ idCalls'[c].ident = idCalls[c].ident
<1>1. CallTypes
  BY TypesApart DEF CodeInv
<1>2. idCalls[c] \in IdCallStates /\ StepOfItsOp(idCalls[c])
  BY <1>1 DEF CallTypes
<1> DEFINE o == [idCalls[c] EXCEPT !.at = at]
<1>3. o.at = at /\ o.op = idCalls[c].op /\ o.ident = idCalls[c].ident
  BY <1>2 DEF IdCallStates
<1> HIDE DEF o
<1>4. StepOfItsOp(o)
  BY <1>2, <1>3 DEF StepOfItsOp, Follows, RegisterAt, CodeAt, AssistantAt
<1>5. CallTypes' /\ OthersStay(c) /\ idCalls'[c].at = at
      /\ idCalls'[c].op = idCalls[c].op /\ idCalls'[c].ident = idCalls[c].ident
  BY <1>1, <1>4, CallGoesOn DEF o
<1>6. IdentityTypes'
  BY <1>5 DEF CodeInv, IdentityTypes, AccountTypes, CallTypes
<1> QED
  BY <1>5, <1>6, CodesUntouched

LEMMA QuietEnds ==
    ASSUME CodeInv, NEW c \in IdentityCalls, UNCHANGED codes, AccountTypes', Ends(c)
    PROVE  CodeInv' /\ CallTypes' /\ OthersStay(c) /\ idCalls'[c] = NoCall
<1>1. CallTypes
  BY TypesApart DEF CodeInv
<1>2. CallTypes' /\ OthersStay(c) /\ idCalls'[c] = NoCall /\ idCalls'[c].at = "idle"
  BY <1>1, CallEnds, NoCallIsOne
<1>3. IdentityTypes'
  BY <1>2 DEF CodeInv, IdentityTypes, AccountTypes, CallTypes
<1> QED
  BY <1>2, <1>3, CodesUntouched DEF Acting

(* A code grows old. *)
LEMMA CodeAges ==
    ASSUME CodeInv, NEW n \in DOMAIN codes, NEW a \in {"old", "expired"},
           codes' = [codes EXCEPT ![n].age = a], UNCHANGED <<accountVars, idCalls>>
    PROVE  CodeInv'
<1> DEFINE r == [codes[n] EXCEPT !.age = a]
<1>1. codes[n] \in CodeRows
  BY RowTyped DEF CodeInv
<1>2. /\ r \in CodeRows /\ r.state = codes[n].state
      /\ r.attempts = codes[n].attempts /\ r.passed = codes[n].passed
  BY <1>1 DEF CodeRows
<1>3. codes' = [codes EXCEPT ![n] = r]
  OBVIOUS
<1> HIDE DEF r
<1>4. DOMAIN codes' = DOMAIN codes /\ codes'[n] = r /\ \A k \in DOMAIN codes : k # n => codes'[k] = codes[k]
  BY <1>3
<1>5. codes' \in Seq(CodeRows)
  BY <1>2, <1>3 DEF CodeInv, IdentityTypes
<1>6. IdentityTypes'
  BY <1>5 DEF CodeInv, IdentityTypes, accountVars
<1>7. PassedOnce'
  BY <1>2, <1>4 DEF CodeInv, PassedOnce
<1>8. GuessersRead' /\ GuessesCounted'
  <2>1. \A k \in DOMAIN codes : codes'[k].attempts = codes[k].attempts
    BY <1>2, <1>4
  <2> QED
    BY <1>4, <2>1, GuessersKept
<1>9. OwnCode'
  <2>1. \A k \in DOMAIN codes : codes'[k].state = codes[k].state
    BY <1>2, <1>4
  <2> QED
    BY <1>4, <2>1, OwnCodeKept DEF CodeInv, OwnCode
<1> QED
  BY <1>6, <1>7, <1>8, <1>9 DEF CodeInv

(* A new code is one nobody has guessed at. *)
LEMMA SupersedeStep ==
    ASSUME CodeInv, NEW c \in IdentityCalls, Supersede(c)
    PROVE  CodeInv'
<1> DEFINE r == [state |-> "open", age |-> "fresh", attempts |-> 0, passed |-> 0]
           new == Len(codes) + 1
           live == {n \in Committed : codes[n].state = "live"}
           o == [idCalls[c] EXCEPT !.at = "insert", !.code = new, !.locked = live]
<1>0. CallTypes /\ AccountTypes /\ codes \in Seq(CodeRows)
  BY TypesApart DEF CodeInv
<1>1. r \in CodeRows /\ r.state = "open" /\ r.passed = 0 /\ r.attempts = 0
  BY DEF CodeRows
<1>2. o \in IdCallStates /\ o.op = idCalls[c].op /\ o.ident = idCalls[c].ident
      /\ o.at = "insert" /\ o.code = new /\ o.locked = live
  <2>1. new \in Nat /\ live \in SUBSET Nat
    BY <1>0 DEF Committed
  <2>2. idCalls[c] \in IdCallStates /\ "insert" \in IdentityAt
    BY <1>0 DEF CallTypes, IdentityAt, CodeAt
  <2> HIDE DEF new, live
  <2> QED
    BY <2>1, <2>2 DEF IdCallStates
<1>3. StepOfItsOp(o)
  BY <1>0, <1>2 DEF Supersede, CallTypes, StepOfItsOp, RegisterAt, CodeAt, AssistantAt
<1>4. idCalls' = [idCalls EXCEPT ![c] = o] /\ codes' = Append(codes, r)
  BY DEF Supersede
<1> HIDE DEF r, o
<1>5. CallTypes' /\ OthersStay(c) /\ idCalls'[c] = o
  BY <1>0, <1>2, <1>3, <1>4, CallBecomes
<1>6. /\ codes' \in Seq(CodeRows) /\ DOMAIN codes' = 1 .. new /\ DOMAIN codes = 1 .. Len(codes)
      /\ codes'[new] = r /\ \A n \in DOMAIN codes : codes'[n] = codes[n] /\ n \in DOMAIN codes'
      /\ Len(codes) \in Nat
  BY <1>0, <1>1, <1>4
<1> HIDE DEF new
<1>7. \A n \in DOMAIN codes' : n # new => n \in DOMAIN codes
  BY <1>6 DEF new
<1>8. IdentityTypes'
  BY <1>0, <1>5, <1>6 DEF Supersede, IdentityTypes, AccountTypes, CallTypes, accountVars
<1>9. PassedOnce'
  BY <1>1, <1>6, <1>7 DEF CodeInv, PassedOnce
<1>10. new \notin DOMAIN codes /\ new \in DOMAIN codes'
  BY <1>6 DEF new
<1>11. OwnCode'
  <2>1. \A n \in o.locked : n \in DOMAIN codes /\ codes[n].state # "open"
    BY <1>2 DEF Committed
  <2>2. \A d \in IdentityCalls : d # c => idCalls'[d] = idCalls[d]
    BY <1>5 DEF OthersStay
  <2>3. \A d \in IdentityCalls : d # c /\ idCalls'[d].at = "insert" => idCalls'[d].code \in DOMAIN codes
    BY <2>2 DEF CodeInv, OwnCode
  <2>4. ASSUME NEW d \in IdentityCalls, idCalls'[d].at = "insert"
        PROVE  /\ idCalls'[d].code \in DOMAIN codes' /\ codes'[idCalls'[d].code].state = "open"
               /\ \A n \in idCalls'[d].locked : n \in DOMAIN codes' /\ codes'[n].state # "open"
    <3>1. CASE d = c
      BY <1>1, <1>2, <1>5, <1>6, <1>10, <2>1, <3>1
    <3>2. CASE d # c
      BY <1>6, <2>2, <2>4, <3>2 DEF CodeInv, OwnCode
    <3> QED
      BY <3>1, <3>2
  <2>5. ASSUME NEW d \in IdentityCalls, NEW e \in IdentityCalls \ {d}, idCalls'[d].at = "insert", idCalls'[e].at = "insert"
        PROVE  idCalls'[e].code # idCalls'[d].code
    BY <1>2, <1>5, <1>10, <2>2, <2>3, <2>5 DEF CodeInv, OwnCode
  <2> QED
    BY <2>4, <2>5 DEF OwnCode
<1>12. \A d \in IdentityCalls : idCalls'[d].at \in Guesses => idCalls'[d] = idCalls[d]
  BY <1>2, <1>5 DEF OthersStay, Guesses
<1>13. GuessersRead'
  BY <1>6, <1>12 DEF CodeInv, GuessersRead, Guesses
<1>14. ASSUME NEW n \in DOMAIN codes'
       PROVE  codes'[n].attempts + Cardinality(Guessing(n)') <= MaxAttempts - 1 + Cardinality(IdentityCalls)
  <2>1. Guessing(n)' \subseteq Guessing(n)
    BY <1>12 DEF Guessing, Guesses
  <2>2. Cardinality(Guessing(n)') <= Cardinality(Guessing(n)) /\ Cardinality(Guessing(n)') \in Nat
    BY <2>1, GuessingFinite, FS_Subset, FS_CardinalityType
  <2>3. Cardinality(Guessing(n)) \in Nat /\ Cardinality(IdentityCalls) \in Nat
        /\ Cardinality(Guessing(n)) <= Cardinality(IdentityCalls)
    BY GuessingFinite, IdentityConstants, FS_CardinalityType
  <2>4. CASE n = new
    BY <1>1, <1>6, <2>2, <2>3, <2>4, IdentityConstants
  <2>5. CASE n # new
    <3>1. n \in DOMAIN codes /\ codes'[n] = codes[n] /\ codes[n].attempts \in Nat
      BY <1>6, <1>7, <2>5, RowTyped DEF CodeInv, CodeRows
    <3>2. codes[n].attempts + Cardinality(Guessing(n)) <= MaxAttempts - 1 + Cardinality(IdentityCalls)
      BY <3>1 DEF CodeInv, GuessesCounted
    <3> QED
      BY <2>2, <2>3, <3>1, <3>2, IdentityConstants
  <2> QED
    BY <2>4, <2>5
<1>15. GuessesCounted'
  BY <1>14 DEF GuessesCounted
<1> QED
  BY <1>8, <1>9, <1>11, <1>13, <1>15 DEF CodeInv

(* The states of codes change, as a transaction ends, and nothing else of them. *)
LEMMA TransactionEnds ==
    ASSUME CodeInv, NEW c \in IdentityCalls, idCalls[c].at = "insert", Ends(c), UNCHANGED accountVars,
           NEW own \in {"live", "void"}, NEW locked, locked \in {{}, idCalls[c].locked},
           codes' = [n \in DOMAIN codes |->
                       IF n = idCalls[c].code THEN [codes[n] EXCEPT !.state = own]
                       ELSE IF n \in locked THEN [codes[n] EXCEPT !.state = "used"] ELSE codes[n]]
    PROVE  CodeInv'
<1> DEFINE m == idCalls[c].code
<1>0. CallTypes /\ AccountTypes
  BY TypesApart DEF CodeInv
<1>1. CallTypes' /\ OthersStay(c) /\ idCalls'[c].at = "idle"
  BY <1>0, CallEnds, NoCallIsOne
<1>2. m \in DOMAIN codes /\ codes[m].state = "open" /\ codes[m].passed = 0
  BY DEF CodeInv, OwnCode, PassedOnce
<1>3. DOMAIN codes' = DOMAIN codes /\ codes' = [n \in DOMAIN codes |-> codes'[n]]
  OBVIOUS
<1>4. ASSUME NEW n \in DOMAIN codes
      PROVE  /\ codes'[n] \in CodeRows /\ codes'[n].attempts = codes[n].attempts /\ codes'[n].passed = codes[n].passed
             /\ codes'[n].state = IF n = m THEN own ELSE IF n \in locked THEN "used" ELSE codes[n].state
  <2>1. codes[n] \in CodeRows
    BY RowTyped DEF CodeInv
  <2> QED
    BY <2>1 DEF CodeRows
<1>5. codes' \in Seq(CodeRows)
  BY <1>3, <1>4, RowsTyped
<1>6. IdentityTypes'
  BY <1>0, <1>1, <1>5 DEF IdentityTypes, AccountTypes, CallTypes, accountVars
<1>7. PassedOnce'
  BY <1>2, <1>3, <1>4 DEF CodeInv, PassedOnce
<1>8. GuessersRead' /\ GuessesCounted'
  <2>1. \A d \in IdentityCalls : idCalls'[d].at \in Guesses => idCalls'[d] = idCalls[d]
    BY <1>1 DEF OthersStay, Guesses
  <2> QED
    BY <1>3, <1>4, <2>1, GuessersKept
<1>9. OwnCode'
  <2>1. \A n \in DOMAIN codes : codes[n].state # "open" => codes'[n].state # "open"
    BY <1>4
  <2>2. ASSUME NEW d \in IdentityCalls, idCalls'[d].at = "insert"
        PROVE  idCalls'[d] = idCalls[d] /\ codes'[idCalls[d].code].state = "open"
    <3>1. d # c /\ idCalls'[d] = idCalls[d]
      BY <1>1, <2>2 DEF OthersStay
    <3>2. idCalls[d].code # m /\ idCalls[d].code \in DOMAIN codes /\ codes[idCalls[d].code].state = "open"
      BY <2>2, <3>1 DEF CodeInv, OwnCode
    <3>3. idCalls[d].code \notin locked
      BY <3>2 DEF CodeInv, OwnCode
    <3> QED
      BY <1>4, <3>1, <3>2, <3>3
  <2> QED
    BY <1>3, <2>1, <2>2, OwnCodeKept
<1> QED
  BY <1>6, <1>7, <1>8, <1>9 DEF CodeInv

(* A call joins those that guess at a code that was not tried too often:    *)
(* all but the attempts made are calls, and there are no more than these.   *)
LEMMA CheckLatestStep ==
    ASSUME CodeInv, NEW c \in IdentityCalls, CheckLatest(c)
    PROVE  CodeInv'
<1>0. CallTypes /\ AccountTypes /\ UNCHANGED <<codes, accountVars>> /\ AccountTypes'
  BY TypesApart DEF CodeInv, CheckLatest, AccountTypes, accountVars
<1>1. CASE Ends(c)
  BY <1>0, <1>1, QuietEnds
<1>2. CASE ~ Ends(c)
  <2> DEFINE n == Latest
             at == IF idCalls[c].guess = n THEN "consume" ELSE "attempt"
             o == [idCalls[c] EXCEPT !.code = n, !.at = at]
  <2>1. Committed # {} /\ codes[n].state = "live" /\ codes[n].attempts < MaxAttempts
        /\ idCalls' = [idCalls EXCEPT ![c] = o] /\ idCalls[c].at = "latest"
    BY <1>2 DEF CheckLatest
  <2>2. n \in Committed /\ n \in DOMAIN codes /\ n \in Nat
    BY <2>1, LatestIsCommitted DEF CodeInv, IdentityTypes
  <2>3. at \in Guesses /\ at \in IdentityAt /\ at \in RegisterAt
    BY DEF Guesses, IdentityAt, RegisterAt
  <2> HIDE DEF n, at
  <2>4. o \in IdCallStates /\ o.op = idCalls[c].op /\ o.ident = idCalls[c].ident /\ o.at = at /\ o.code = n
    BY <1>0, <2>2, <2>3 DEF CallTypes, IdCallStates
  <2>5. idCalls[c].op = "register" /\ idCalls[c].ident \in Identifiers
    BY <1>0, <2>1 DEF CallTypes, StepOfItsOp, RegisterAt
  <2>6. StepOfItsOp(o)
    BY <2>3, <2>4, <2>5 DEF StepOfItsOp, RegisterAt, CodeAt, AssistantAt, Guesses
  <2> HIDE DEF o
  <2>7. CallTypes' /\ OthersStay(c) /\ idCalls'[c] = o
    BY <1>0, <2>1, <2>4, <2>6, CallBecomes
  <2>8. IdentityTypes'
    BY <1>0, <2>7 DEF CodeInv, IdentityTypes, AccountTypes, CallTypes
  <2>9. PassedOnce' /\ GuessersRead'
    BY <1>0, <2>2, <2>4, <2>7 DEF CodeInv, PassedOnce, GuessersRead, OthersStay
  <2>10. OwnCode'
    BY <1>0, <2>3, <2>4, <2>7, OwnCodeKept DEF CodeInv, OwnCode, OthersStay, Guesses
  <2>11. ASSUME NEW k \in DOMAIN codes
         PROVE  codes'[k].attempts + Cardinality(Guessing(k)') <= MaxAttempts - 1 + Cardinality(IdentityCalls)
    <3>1. codes' = codes /\ codes[k].attempts \in Nat
      BY <1>0, RowTyped DEF CodeInv, CodeRows
    <3>2. codes[k].attempts + Cardinality(Guessing(k)) <= MaxAttempts - 1 + Cardinality(IdentityCalls)
      BY DEF CodeInv, GuessesCounted
    <3>3. Guessing(k)' \subseteq IdentityCalls /\ (k # n => Guessing(k)' \subseteq Guessing(k))
      BY <2>4, <2>7 DEF Guessing, OthersStay
    <3>4. /\ Cardinality(Guessing(k)') \in Nat /\ Cardinality(Guessing(k)) \in Nat /\ Cardinality(IdentityCalls) \in Nat
          /\ Cardinality(Guessing(k)') <= Cardinality(IdentityCalls)
          /\ k # n => Cardinality(Guessing(k)') <= Cardinality(Guessing(k))
      BY <3>3, GuessingFinite, IdentityConstants, FS_Subset, FS_CardinalityType
    <3>5. k = n => codes[k].attempts <= MaxAttempts - 1
      BY <2>1, <3>1, IdentityConstants
    <3> QED
      BY <3>1, <3>2, <3>4, <3>5, IdentityConstants
  <2>12. GuessesCounted'
    BY <1>0, <2>11 DEF GuessesCounted
  <2> QED
    BY <2>8, <2>9, <2>10, <2>12 DEF CodeInv
<1> QED
  BY <1>1, <1>2

(* An answered guess: attempts are raised, and a code that is used is used  *)
(* by this call alone.                                                      *)
LEMMA GuessStep ==
    ASSUME CodeInv, NEW c \in IdentityCalls, idCalls[c].at \in Guesses, UNCHANGED accountVars,
           CallTypes', OthersStay(c), idCalls'[c].at \notin Acting,
           NEW r \in CodeRows, codes' = [codes EXCEPT ![idCalls[c].code] = r],
           r.attempts = codes[idCalls[c].code].attempts + 1,
           \/ r.state = codes[idCalls[c].code].state /\ r.passed = codes[idCalls[c].code].passed
           \/ /\ codes[idCalls[c].code].state = "live" /\ r.state = "used"
              /\ r.passed = codes[idCalls[c].code].passed + 1
    PROVE  CodeInv'
<1> DEFINE m == idCalls[c].code
<1>1. m \in DOMAIN codes
  BY DEF CodeInv, GuessersRead, Guesses
<1>2. DOMAIN codes' = DOMAIN codes /\ codes'[m] = r /\ \A n \in DOMAIN codes : n # m => codes'[n] = codes[n]
  BY <1>1
<1>3. codes' \in Seq(CodeRows)
  BY <1>1 DEF CodeInv, IdentityTypes
<1>4. IdentityTypes'
  BY <1>3 DEF CodeInv, IdentityTypes, CallTypes, accountVars
<1>5. PassedOnce'
  <2>1. codes[m].passed <= 1 /\ (codes[m].state # "used" => codes[m].passed = 0)
    BY <1>1 DEF CodeInv, PassedOnce
  <2> HIDE DEF m
  <2>2. r.passed <= 1 /\ (r.state # "used" => r.passed = 0)
    BY <2>1 DEF m
  <2> QED
    BY <1>2, <2>2 DEF CodeInv, PassedOnce
<1>6. GuessersRead' /\ GuessesCounted'
  BY <1>2, GuessAnswered DEF Acting, Guesses
<1>7. OwnCode'
  <2>1. \A n \in DOMAIN codes : codes[n].state # "open" => codes'[n].state # "open"
    BY <1>2
  <2>2. \A n \in DOMAIN codes : codes[n].state = "open" => codes'[n].state = "open"
    BY <1>2
  <2>3. \A d \in IdentityCalls : idCalls'[d].at = "insert" => d # c /\ idCalls'[d] = idCalls[d]
    BY DEF OthersStay, Acting
  <2>4. \A d \in IdentityCalls : idCalls'[d].at = "insert" => codes'[idCalls[d].code].state = "open"
    BY <2>2, <2>3 DEF CodeInv, OwnCode
  <2> QED
    BY <1>2, <2>1, <2>3, <2>4, OwnCodeKept
<1> QED
  BY <1>4, <1>5, <1>6, <1>7 DEF CodeInv

LEMMA IncrementAttemptsStep ==
    ASSUME CodeInv, NEW c \in IdentityCalls, IncrementAttempts(c)
    PROVE  CodeInv'
<1> DEFINE m == idCalls[c].code
           r == [codes[m] EXCEPT !.attempts = @ + 1]
<1>1. m \in DOMAIN codes /\ idCalls[c].at \in Guesses
  BY DEF CodeInv, GuessersRead, Guesses, IncrementAttempts
<1>2. codes[m] \in CodeRows
  BY <1>1, RowTyped DEF CodeInv
<1>3. /\ r \in CodeRows /\ r.state = codes[m].state
      /\ r.attempts = codes[m].attempts + 1 /\ r.passed = codes[m].passed
  BY <1>2 DEF CodeRows
<1>4. codes' = [codes EXCEPT ![m] = r]
  BY DEF IncrementAttempts
<1>5. CallTypes' /\ OthersStay(c) /\ idCalls'[c].at \notin Acting
  BY TypesApart, CallEnds, NoCallIsOne DEF CodeInv, IncrementAttempts, Acting
<1> HIDE DEF r
<1> QED
  BY <1>1, <1>3, <1>4, <1>5, GuessStep DEF IncrementAttempts

LEMMA LetThroughRow ==
    ASSUME NEW row \in CodeRows
    PROVE  /\ LetThrough(row) \in CodeRows /\ LetThrough(row).state = "used"
           /\ LetThrough(row).attempts = row.attempts + 1 /\ LetThrough(row).passed = row.passed + 1
<1> DEFINE a == row.attempts + 1
           p == row.passed + 1
<1>1. LetThrough(row) = [row EXCEPT !.state = "used", !.attempts = a, !.passed = p]
  BY DEF LetThrough
<1>2. a \in Nat /\ p \in Nat
  BY DEF CodeRows
<1> HIDE DEF a, p
<1>3. LetThrough(row) \in CodeRows
  BY <1>1, <1>2 DEF CodeRows
<1>4. LetThrough(row).state = "used" /\ LetThrough(row).attempts = a /\ LetThrough(row).passed = p
  BY <1>1, <1>2 DEF CodeRows
<1> QED
  BY <1>3, <1>4 DEF a, p

LEMMA ConsumeStep ==
    ASSUME CodeInv, NEW c \in IdentityCalls, Consume(c)
    PROVE  CodeInv'
<1> DEFINE m == idCalls[c].code
           r == LetThrough(codes[m])
<1>0. CallTypes /\ AccountTypes /\ AccountTypes'
  BY TypesApart DEF CodeInv, Consume, AccountTypes, accountVars
<1>1. CASE codes[m].state # "live"
  BY <1>0, <1>1, QuietEnds DEF Consume
<1>2. CASE codes[m].state = "live"
  <2>1. m \in DOMAIN codes /\ idCalls[c].at \in Guesses
    BY DEF CodeInv, GuessersRead, Guesses, Consume
  <2>2. codes[m] \in CodeRows
    BY <2>1, RowTyped DEF CodeInv
  <2>3. /\ r \in CodeRows /\ r.state = "used"
        /\ r.attempts = codes[m].attempts + 1 /\ r.passed = codes[m].passed + 1
    BY <2>2, LetThroughRow
  <2>4. codes' = [codes EXCEPT ![m] = r] /\ CallGoes(c, "create") /\ UNCHANGED accountVars
    BY <1>2 DEF Consume
  <2>5. StepOfItsOp([idCalls[c] EXCEPT !.at = "create"])
    <3>1. idCalls[c].op = "register" /\ idCalls[c].ident \in Identifiers /\ idCalls[c] \in IdCallStates
      BY <1>0 DEF CallTypes, StepOfItsOp, RegisterAt, Consume
    <3> QED
      BY <3>1 DEF StepOfItsOp, RegisterAt, CodeAt, AssistantAt, IdCallStates
  <2>6. "create" \in IdentityAt /\ "create" \notin Acting
    BY DEF IdentityAt, Acting
  <2>7. CallTypes' /\ OthersStay(c) /\ idCalls'[c].at \notin Acting
    BY <1>0, <2>4, <2>5, <2>6, CallGoesOn
  <2> HIDE DEF r
  <2> QED
    BY <1>2, <2>1, <2>3, <2>4, <2>7, GuessStep
<1> QED
  BY <1>1, <1>2

LEMMA IdentityInitially == IdentityInit => CodeInv /\ ProvisionInv
<1> SUFFICES ASSUME IdentityInit
             PROVE  CodeInv /\ ProvisionInv
  OBVIOUS
<1>1. codes = <<>> /\ DOMAIN codes = {} /\ codes \in Seq(CodeRows)
  BY DEF IdentityInit
<1>2. \A c \in IdentityCalls : idCalls[c] = NoCall
  BY DEF IdentityInit
<1>3. CallTypes
  <2>1. idCalls \in [IdentityCalls -> IdCallStates]
    BY NoCallIsOne DEF IdentityInit
  <2> QED
    BY <1>2, <2>1, NoCallIsOne DEF CallTypes
<1>4. IdentityTypes
  BY <1>1, <1>3, TypesApart DEF IdentityInit, AccountTypes
<1>5. CodeInv
  BY <1>1, <1>2, <1>4, NoCallIsOne DEF CodeInv, PassedOnce, OwnCode, GuessersRead, GuessesCounted
<1>6. \A c \in IdentityCalls : Provisioned(idCalls[c])
  BY <1>2 DEF Provisioned, NoCall, AssistantAt
<1> QED
  BY <1>4, <1>5, <1>6 DEF ProvisionInv, UsersHaveAssistant, IdentityInit

(* A call begins, at the first step of its operation. *)
LEMMA BeginStep ==
    ASSUME CodeInv, NEW c \in IdentityCalls, NEW op \in {"register", "code", "test", "backfill"},
           NEW i \in Identifiers \cup {"none"}, op \in {"register", "test"} => i \in Identifiers,
           NEW g \in Nat, BeginCall(c, op, i, g)
    PROVE  /\ CodeInv' /\ CallTypes' /\ OthersStay(c)
           /\ idCalls'[c].at \in {"exists", "cooldown", "existing", "assistant"}
           /\ idCalls'[c].op = op /\ (idCalls'[c].at = "assistant" <=> op = "backfill")
<1> DEFINE at == CASE op = "register" -> "exists" [] op = "code" -> "cooldown"
                   [] op = "test" -> "existing"  [] op = "backfill" -> "assistant"
           o == [NoCall EXCEPT !.op = op, !.ident = i, !.guess = g, !.at = at]
<1>1. /\ op = "register" => at = "exists"
      /\ op = "code" => at = "cooldown"
      /\ op = "test" => at = "existing"
      /\ op = "backfill" => at = "assistant"
  OBVIOUS
<1>2. idCalls' = [idCalls EXCEPT ![c] = o]
  BY DEF BeginCall
<1> HIDE DEF at
<1>3. at \in {"exists", "cooldown", "existing", "assistant"} /\ at \in IdentityAt /\ at \notin Acting
      /\ (at = "assistant" <=> op = "backfill")
  BY <1>1 DEF IdentityAt, Acting, RegisterAt, CodeAt, AssistantAt
<1>4. o \in IdCallStates /\ o.op = op /\ o.at = at /\ o.ident = i
  BY <1>3, NoCallIsOne DEF IdCallStates
<1>5. StepOfItsOp(o)
  BY <1>1, <1>3, <1>4 DEF StepOfItsOp, RegisterAt, CodeAt, AssistantAt
<1> HIDE DEF o
<1>6. CallTypes' /\ OthersStay(c) /\ idCalls'[c] = o
  BY <1>2, <1>4, <1>5, CallBecomes, TypesApart DEF CodeInv
<1>7. IdentityTypes' /\ UNCHANGED codes
  BY <1>6 DEF BeginCall, CodeInv, IdentityTypes, CallTypes, accountVars
<1> QED
  BY <1>3, <1>4, <1>6, <1>7, CodesUntouched

(* Nothing is taken back: an account keeps its type, the assistant its      *)
(* identifier and its agent, a friendship lasts.                            *)
AccountsGrow ==
    /\ \A i \in Identifiers : accounts[i] # "none" => accounts'[i] = accounts[i]
    /\ assistant = "current" => assistant' = "current"
    /\ assembled => assembled'
    /\ friendly \subseteq friendly'

LEMMA ProvisionKept ==
    ASSUME ProvisionInv, NEW c \in IdentityCalls, IdentityTypes', AccountsGrow, OthersStay(c),
           UNCHANGED credentials, Provisioned(idCalls[c])'
    PROVE  ProvisionInv'
<1>1. ASSUME NEW d \in IdentityCalls, d # c
      PROVE  Provisioned(idCalls[d])'
  <2>1. Provisioned(idCalls[d]) /\ idCalls'[d] = idCalls[d] /\ StepOfItsOp(idCalls[d])
    BY <1>1 DEF ProvisionInv, OthersStay, IdentityTypes
  <2> QED
    BY <2>1 DEF Provisioned, AccountsGrow, StepOfItsOp
<1>2. \A i \in credentials' : i \in Identifiers /\ accounts[i] # "none" /\ accounts'[i] = accounts[i]
  BY DEF ProvisionInv, IdentityTypes, AccountsGrow
<1>3. UsersHaveAssistant'
  BY <1>2 DEF ProvisionInv, UsersHaveAssistant, AccountsGrow
<1> QED
  BY <1>1, <1>2, <1>3 DEF ProvisionInv

LEMMA NothingToProvision ==
    ASSUME NEW c \in IdentityCalls, idCalls'[c].at \notin AssistantAt \cup {"credential", "list"}
    PROVE  Provisioned(idCalls[c])'
<1> QED
  BY DEF Provisioned, AssistantAt

LEMMA NothingChanges == UNCHANGED accountVars => AccountsGrow /\ UNCHANGED credentials
<1> QED
  BY DEF AccountsGrow, accountVars

LEMMA TypesStay == IdentityTypes /\ UNCHANGED accountVars => AccountTypes'
<1> QED
  BY DEF IdentityTypes, AccountTypes, accountVars

IdentityInv == CodeInv /\ ProvisionInv

(* Steps of a call that leave the accounts alone. *)
LEMMA GoesOnly ==
    ASSUME IdentityInv, NEW c \in IdentityCalls, UNCHANGED <<codes, accountVars>>, NEW at \in IdentityAt \ Acting,
           CallGoes(c, at), Follows(idCalls[c].at, at),
           \/ at \notin AssistantAt \cup {"credential", "list"}
           \/ idCalls[c].at \in AssistantAt /\ (at = "assemble" => assistant = "current")
           \/ at = "credential" /\ accounts[idCalls[c].ident] = "test" /\ idCalls[c].op = "test"
    PROVE  IdentityInv'
<1>1. AccountTypes'
  BY TypesStay DEF IdentityInv, CodeInv
<1>2. CodeInv' /\ OthersStay(c) /\ idCalls'[c].at = at
      /\ idCalls'[c].op = idCalls[c].op /\ idCalls'[c].ident = idCalls[c].ident
  BY <1>1, QuietGoes DEF IdentityInv
<1>3. Provisioned(idCalls[c])'
  <2>1. CASE at \notin AssistantAt \cup {"credential", "list"}
    BY <1>2, <2>1, NothingToProvision
  <2>2. CASE idCalls[c].at \in AssistantAt /\ (at = "assemble" => assistant = "current")
    BY <1>2, <2>2 DEF IdentityInv, ProvisionInv, Provisioned, AssistantAt, Follows, accountVars
  <2>3. CASE at = "credential" /\ accounts[idCalls[c].ident] = "test" /\ idCalls[c].op = "test"
    BY <1>2, <2>3 DEF Provisioned, AssistantAt, accountVars
  <2> QED
    BY <2>1, <2>2, <2>3
<1> QED
  BY <1>2, <1>3, NothingChanges, ProvisionKept DEF IdentityInv, CodeInv

LEMMA EndsOnly ==
    ASSUME IdentityInv, NEW c \in IdentityCalls, Ends(c), IdentityTypes', AccountsGrow, UNCHANGED credentials
    PROVE  ProvisionInv'
<1>1. OthersStay(c) /\ idCalls'[c].at = "idle"
  BY CallEnds, NoCallIsOne, TypesApart DEF IdentityInv, CodeInv
<1>2. Provisioned(idCalls[c])'
  BY <1>1, NothingToProvision DEF AssistantAt
<1> QED
  BY <1>1, <1>2, ProvisionKept DEF IdentityInv

LEMMA JustEnds ==
    ASSUME IdentityInv, NEW c \in IdentityCalls, Ends(c), UNCHANGED <<codes, accountVars>>
    PROVE  IdentityInv'
<1>1. AccountTypes'
  BY TypesStay DEF IdentityInv, CodeInv
<1>2. CodeInv'
  BY <1>1, QuietEnds DEF IdentityInv
<1> QED
  BY <1>2, EndsOnly, NothingChanges DEF IdentityInv, CodeInv

(* Begin, and the steps of a code. *)
LEMMA CodeActions ==
    ASSUME IdentityInv, NEW c \in IdentityCalls
    PROVE  /\ \A i \in Identifiers, g \in 0 .. Len(codes) : BeginCall(c, "register", i, g) => IdentityInv'
           /\ \A i \in Identifiers : BeginCall(c, "test", i, 0) => IdentityInv'
           /\ BeginCall(c, "code", "none", 0) \/ BeginCall(c, "backfill", "none", 0) => IdentityInv'
           /\ CheckCooldown(c) => IdentityInv'
           /\ Supersede(c) \/ InsertCode(c) => IdentityInv'
           /\ CheckLatest(c) \/ IncrementAttempts(c) \/ Consume(c) => IdentityInv'
           /\ CallFails(c) => IdentityInv'
<1>0. CodeInv /\ ProvisionInv /\ CallTypes /\ idCalls[c] \in IdCallStates /\ StepOfItsOp(idCalls[c])
  BY TypesApart DEF IdentityInv, CodeInv, CallTypes
<1>1. ASSUME NEW op \in {"register", "code", "test", "backfill"},
             NEW i \in Identifiers \cup {"none"}, op \in {"register", "test"} => i \in Identifiers,
             NEW g \in Nat, BeginCall(c, op, i, g)
      PROVE  IdentityInv'
  <2>1. CodeInv' /\ CallTypes' /\ OthersStay(c) /\ idCalls'[c].at \in {"exists", "cooldown", "existing", "assistant"}
        /\ idCalls'[c].op = op /\ (idCalls'[c].at = "assistant" <=> op = "backfill")
    BY <1>0, <1>1, BeginStep
  <2>2. Provisioned(idCalls[c])'
    BY <2>1 DEF Provisioned, AssistantAt
  <2> QED
    BY <1>0, <1>1, <2>1, <2>2, NothingChanges, ProvisionKept DEF IdentityInv, CodeInv, BeginCall
<1>2. ASSUME CheckCooldown(c)
      PROVE  IdentityInv'
  <2>1. CASE Ends(c)
    BY <1>2, <2>1, JustEnds DEF CheckCooldown
  <2>2. CASE CallGoes(c, "supersede")
    <3>1. "supersede" \in IdentityAt \ Acting /\ Follows("cooldown", "supersede")
          /\ "supersede" \notin AssistantAt \cup {"credential", "list"}
      BY DEF IdentityAt, CodeAt, Acting, Follows, AssistantAt
    <3> QED
      BY <1>2, <2>2, <3>1, GoesOnly DEF CheckCooldown
  <2> QED
    BY <1>2, <2>1, <2>2 DEF CheckCooldown
<1>3. ASSUME Supersede(c)
      PROVE  IdentityInv'
  <2>1. CodeInv'
    BY <1>0, <1>3, SupersedeStep
  <2>2. OthersStay(c) /\ idCalls'[c].at = "insert"
    BY <1>0, <1>3 DEF Supersede, OthersStay, CallTypes, IdCallStates
  <2>3. Provisioned(idCalls[c])'
    BY <2>2, NothingToProvision DEF AssistantAt
  <2> QED
    BY <1>0, <1>3, <2>1, <2>2, <2>3, NothingChanges, ProvisionKept DEF IdentityInv, CodeInv, Supersede
<1>4. ASSUME InsertCode(c)
      PROVE  IdentityInv'
  <2>1. CodeInv'
    BY <1>0, <1>4, TransactionEnds DEF InsertCode
  <2> QED
    BY <1>4, <2>1, EndsOnly, NothingChanges DEF IdentityInv, CodeInv, InsertCode
<1>5. ASSUME CheckLatest(c)
      PROVE  IdentityInv'
  <2>1. CodeInv' /\ UNCHANGED accountVars
    BY <1>0, <1>5, CheckLatestStep DEF CheckLatest
  <2>2. CASE Ends(c)
    BY <2>1, <2>2, EndsOnly, NothingChanges DEF IdentityInv, CodeInv
  <2>3. CASE ~ Ends(c)
    <3>1. OthersStay(c) /\ idCalls'[c].at \in {"consume", "attempt"}
      BY <1>0, <1>5, <2>3 DEF CheckLatest, OthersStay, CallTypes, IdCallStates
    <3>2. Provisioned(idCalls[c])'
      BY <3>1, NothingToProvision DEF AssistantAt
    <3> QED
      BY <1>0, <2>1, <3>1, <3>2, NothingChanges, ProvisionKept DEF IdentityInv, CodeInv
  <2> QED
    BY <2>2, <2>3
<1>6. ASSUME IncrementAttempts(c)
      PROVE  IdentityInv'
  <2>1. CodeInv'
    BY <1>0, <1>6, IncrementAttemptsStep
  <2> QED
    BY <1>6, <2>1, EndsOnly, NothingChanges DEF IdentityInv, CodeInv, IncrementAttempts
<1>7. ASSUME Consume(c)
      PROVE  IdentityInv'
  <2>1. CodeInv' /\ UNCHANGED accountVars
    BY <1>0, <1>7, ConsumeStep DEF Consume
  <2>2. CASE Ends(c)
    BY <2>1, <2>2, EndsOnly, NothingChanges DEF IdentityInv, CodeInv
  <2>3. CASE CallGoes(c, "create")
    <3>1. OthersStay(c) /\ idCalls'[c].at = "create"
      BY <1>0, <2>3 DEF CallGoes, OthersStay, CallTypes, IdCallStates
    <3>2. Provisioned(idCalls[c])'
      BY <3>1, NothingToProvision DEF AssistantAt
    <3> QED
      BY <1>0, <2>1, <3>1, <3>2, NothingChanges, ProvisionKept DEF IdentityInv, CodeInv
  <2> QED
    BY <1>7, <2>2, <2>3 DEF Consume
<1>8. ASSUME CallFails(c)
      PROVE  IdentityInv'
  <2>1. CASE idCalls[c].at = "insert"
    <3>1. codes' = [n \in DOMAIN codes |->
                      IF n = idCalls[c].code THEN [codes[n] EXCEPT !.state = "void"]
                      ELSE IF n \in {} THEN [codes[n] EXCEPT !.state = "used"] ELSE codes[n]]
      <4>1. codes \in Seq(CodeRows) /\ codes' = [codes EXCEPT ![idCalls[c].code].state = "void"]
        BY <1>0, <1>8, <2>1 DEF CallFails, CodeInv, IdentityTypes
      <4>2. \A n \in {} : FALSE
        OBVIOUS
      <4> QED
        BY <4>1
    <3>2. Ends(c) /\ UNCHANGED accountVars
      BY <1>8 DEF CallFails
    <3>3. CodeInv'
      BY <1>0, <2>1, <3>1, <3>2, TransactionEnds
    <3> QED
      BY <3>2, <3>3, EndsOnly, NothingChanges DEF IdentityInv, CodeInv
  <2>2. CASE idCalls[c].at # "insert"
    BY <1>8, <2>2, JustEnds DEF CallFails
  <2> QED
    BY <2>1, <2>2
<1>9. Len(codes) \in Nat
  BY <1>0 DEF CodeInv, IdentityTypes
<1> QED
  BY <1>1, <1>2, <1>3, <1>4, <1>5, <1>6, <1>7, <1>8, <1>9

(* The steps that make an account, its assistant and its password. *)
LEMMA AccountActions ==
    ASSUME IdentityInv, NEW c \in IdentityCalls
    PROVE  /\ ExistsByIdentifier(c) \/ EnsureEmailAvailable(c) \/ FindTestAccount(c) => IdentityInv'
           /\ InsertAccount(c) \/ InsertCredential(c) => IdentityInv'
           /\ FindAssistant(c) \/ RenameAssistant(c) \/ CreateAssistant(c) => IdentityInv'
           /\ EnsureDefaultAssistant(c) \/ ListUsers(c) => IdentityInv'
           /\ EnsureAssistantFriendship(c) \/ BackfillFriendship(c) => IdentityInv'
<1>0. /\ CodeInv /\ ProvisionInv /\ CallTypes /\ AccountTypes
      /\ idCalls[c] \in IdCallStates /\ StepOfItsOp(idCalls[c]) /\ Provisioned(idCalls[c])
  BY TypesApart DEF IdentityInv, CodeInv, CallTypes, ProvisionInv
<1>1. ASSUME ExistsByIdentifier(c)
      PROVE  IdentityInv'
  <2>1. CASE Ends(c)
    BY <1>1, <2>1, JustEnds DEF ExistsByIdentifier
  <2>2. CASE CallGoes(c, "email")
    <3>1. "email" \in IdentityAt \ Acting /\ Follows("exists", "email")
          /\ "email" \notin AssistantAt \cup {"credential", "list"}
      BY DEF IdentityAt, RegisterAt, Acting, Follows, AssistantAt
    <3> QED
      BY <1>1, <2>2, <3>1, GoesOnly DEF ExistsByIdentifier
  <2> QED
    BY <1>1, <2>1, <2>2 DEF ExistsByIdentifier
<1>2. ASSUME EnsureEmailAvailable(c)
      PROVE  IdentityInv'
  <2>1. CASE Ends(c)
    BY <1>2, <2>1, JustEnds DEF EnsureEmailAvailable
  <2>2. CASE CallGoes(c, "latest")
    <3>1. "latest" \in IdentityAt \ Acting /\ Follows("email", "latest")
          /\ "latest" \notin AssistantAt \cup {"credential", "list"}
      BY DEF IdentityAt, RegisterAt, Acting, Follows, AssistantAt
    <3> QED
      BY <1>2, <2>2, <3>1, GoesOnly DEF EnsureEmailAvailable
  <2> QED
    BY <1>2, <2>1, <2>2 DEF EnsureEmailAvailable
<1>3. ASSUME FindTestAccount(c)
      PROVE  IdentityInv'
  <2>1. idCalls[c].at = "existing" /\ idCalls[c].op = "test" /\ idCalls[c].ident \in Identifiers
        /\ UNCHANGED <<codes, accountVars>>
    BY <1>0, <1>3 DEF FindTestAccount, StepOfItsOp
  <2>2. CASE accounts[idCalls[c].ident] = "user"
    <3>1. Ends(c)
      BY <1>3, <2>2 DEF FindTestAccount
    <3> QED
      BY <2>1, <3>1, JustEnds
  <2>3. CASE accounts[idCalls[c].ident] = "none"
    <3>1. "create" \in IdentityAt \ Acting /\ Follows("existing", "create")
          /\ "create" \notin AssistantAt \cup {"credential", "list"}
      BY DEF IdentityAt, Acting, Follows, AssistantAt
    <3>2. CallGoes(c, "create")
      BY <1>3, <2>3 DEF FindTestAccount
    <3> QED
      BY <2>1, <3>1, <3>2, GoesOnly
  <2>4. CASE accounts[idCalls[c].ident] = "test"
    <3>1. "credential" \in IdentityAt \ Acting /\ Follows("existing", "credential")
      BY DEF IdentityAt, Acting, Follows
    <3>2. CallGoes(c, "credential")
      BY <1>3, <2>4 DEF FindTestAccount
    <3> QED
      BY <2>1, <2>4, <3>1, <3>2, GoesOnly
  <2>5. accounts[idCalls[c].ident] \in {"none", "user", "test"}
    BY <1>0, <2>1 DEF AccountTypes
  <2> QED
    BY <2>2, <2>3, <2>4, <2>5
<1>4. ASSUME InsertAccount(c)
      PROVE  IdentityInv'
  <2> DEFINE i == idCalls[c].ident
             type == IF idCalls[c].op = "test" THEN "test" ELSE "user"
  <2>1. /\ idCalls[c].at = "create" /\ i \in Identifiers /\ idCalls[c].op \in {"register", "test"}
        /\ UNCHANGED <<codes, credentials, friendly, assistant, assembled>>
    BY <1>0, <1>4 DEF InsertAccount, StepOfItsOp
  <2>2. CASE Ends(c) /\ UNCHANGED accounts
    BY <2>1, <2>2, JustEnds DEF accountVars
  <2>3. CASE accounts[i] = "none" /\ accounts' = [accounts EXCEPT ![i] = type] /\ CallGoes(c, "assistant")
    <3>1. AccountTypes' /\ AccountsGrow
      BY <1>0, <2>1, <2>3 DEF AccountTypes, AccountsGrow
    <3>2. "assistant" \in IdentityAt \ Acting /\ Follows("create", "assistant")
      BY DEF IdentityAt, AssistantAt, Acting, Follows
    <3>3. /\ CodeInv' /\ OthersStay(c) /\ idCalls'[c].at = "assistant"
          /\ idCalls'[c].op = idCalls[c].op /\ idCalls'[c].ident = i
      BY <1>0, <2>1, <2>3, <3>1, <3>2, QuietGoes
    <3>4. accounts'[i] = type
      BY <1>0, <2>1, <2>3 DEF AccountTypes
    <3>5. Provisioned(idCalls[c])'
      BY <2>1, <3>3, <3>4 DEF Provisioned
    <3> QED
      BY <1>0, <2>1, <3>1, <3>3, <3>5, ProvisionKept DEF IdentityInv, CodeInv
  <2> QED
    BY <1>4, <2>2, <2>3 DEF InsertAccount
<1>5. ASSUME InsertCredential(c)
      PROVE  IdentityInv'
  <2> DEFINE i == idCalls[c].ident
  <2>1. /\ idCalls[c].at = "credential" /\ i \in Identifiers /\ idCalls[c].op \in {"register", "test"}
        /\ UNCHANGED <<codes, accounts, friendly, assistant, assembled>> /\ credentials' = credentials \cup {i}
        /\ Ends(c)
    BY <1>0, <1>5 DEF InsertCredential, StepOfItsOp
  <2>2. AccountTypes'
    BY <1>0, <2>1 DEF AccountTypes
  <2>3. CodeInv' /\ OthersStay(c) /\ idCalls'[c].at = "idle"
    BY <1>0, <2>1, <2>2, QuietEnds, NoCallIsOne
  <2>4. accounts[i] # "none" /\ (accounts[i] = "user" => i \in friendly /\ assistant = "current" /\ assembled)
    BY <1>0, <2>1 DEF Provisioned
  <2>5. \A j \in credentials' : accounts'[j] # "none"
    BY <1>0, <2>1, <2>4 DEF ProvisionInv
  <2>6. UsersHaveAssistant'
    BY <1>0, <2>1, <2>4 DEF ProvisionInv, UsersHaveAssistant
  <2>7. ASSUME NEW d \in IdentityCalls
        PROVE  Provisioned(idCalls[d])'
    <3>1. CASE d = c
      BY <2>3, <3>1, NothingToProvision DEF AssistantAt
    <3>2. CASE d # c
      BY <1>0, <2>1, <2>3, <3>2 DEF ProvisionInv, OthersStay, Provisioned
    <3> QED
      BY <3>1, <3>2
  <2> QED
    BY <2>3, <2>5, <2>6, <2>7 DEF IdentityInv, ProvisionInv, CodeInv
<1>6. ASSUME FindAssistant(c)
      PROVE  IdentityInv'
  <2>1. PICK at \in {"assemble", "legacy", "rename", "createAssistant"} :
           /\ CallGoes(c, at) /\ idCalls[c].at \in AssistantAt
           /\ at = "assemble" => assistant = "current"
    BY <1>6 DEF FindAssistant, AssistantAt
  <2>2. at \in IdentityAt \ Acting /\ Follows(idCalls[c].at, at)
    BY <2>1 DEF IdentityAt, AssistantAt, Acting, Follows
  <2> QED
    BY <1>6, <2>1, <2>2, GoesOnly DEF FindAssistant
<1>7. ASSUME RenameAssistant(c) \/ CreateAssistant(c)
      PROVE  IdentityInv'
  <2>1. idCalls[c].at \in AssistantAt /\ UNCHANGED <<codes, accounts, credentials, friendly, assembled>>
    BY <1>7 DEF RenameAssistant, CreateAssistant, AssistantAt
  <2>2. CASE Ends(c) /\ UNCHANGED assistant
    BY <2>1, <2>2, JustEnds DEF accountVars
  <2>3. CASE assistant' = "current" /\ CallGoes(c, "assemble")
    <3>1. AccountTypes' /\ AccountsGrow
      BY <1>0, <2>1, <2>3 DEF AccountTypes, AccountsGrow
    <3>2. "assemble" \in IdentityAt \ Acting /\ Follows(idCalls[c].at, "assemble")
      BY <2>1 DEF IdentityAt, AssistantAt, Acting, Follows
    <3>3. /\ CodeInv' /\ OthersStay(c) /\ idCalls'[c].at = "assemble"
          /\ idCalls'[c].op = idCalls[c].op /\ idCalls'[c].ident = idCalls[c].ident
      BY <1>0, <2>1, <2>3, <3>1, <3>2, QuietGoes
    <3>4. Provisioned(idCalls[c])'
      BY <1>0, <2>1, <2>3, <3>3 DEF Provisioned
    <3> QED
      BY <1>0, <2>1, <3>1, <3>3, <3>4, ProvisionKept DEF IdentityInv, CodeInv
  <2> QED
    BY <1>7, <2>2, <2>3 DEF RenameAssistant, CreateAssistant
<1>8. ASSUME EnsureDefaultAssistant(c)
      PROVE  IdentityInv'
  <2> DEFINE at == IF idCalls[c].op = "backfill" THEN "list" ELSE "befriend"
  <2>1. /\ idCalls[c].at = "assemble" /\ UNCHANGED <<codes, accounts, credentials, friendly, assistant>>
        /\ assembled' = TRUE /\ CallGoes(c, at)
    BY <1>8 DEF EnsureDefaultAssistant
  <2>2. AccountTypes' /\ AccountsGrow
    BY <1>0, <2>1 DEF AccountTypes, AccountsGrow
  <2>3. at \in IdentityAt \ Acting /\ at \in {"list", "befriend"}
    BY DEF IdentityAt, AssistantAt, Acting
  <2>4. /\ CodeInv' /\ OthersStay(c) /\ idCalls'[c].at = at
        /\ idCalls'[c].op = idCalls[c].op /\ idCalls'[c].ident = idCalls[c].ident
    BY <1>0, <2>1, <2>2, <2>3, QuietGoes
  <2>5. Provisioned(idCalls[c])'
    BY <1>0, <2>1, <2>3, <2>4 DEF Provisioned, AssistantAt
  <2> QED
    BY <1>0, <2>1, <2>2, <2>4, <2>5, ProvisionKept DEF IdentityInv, CodeInv
<1>9. ASSUME ListUsers(c)
      PROVE  IdentityInv'
  <2> DEFINE users == {i \in Identifiers : accounts[i] = "user"}
             o == [idCalls[c] EXCEPT !.at = "befriend", !.todo = users]
  <2>1. /\ idCalls[c].at = "list" /\ UNCHANGED <<codes, accountVars>>
        /\ idCalls' = [idCalls EXCEPT ![c] = o]
    BY <1>9 DEF ListUsers
  <2>2. users \in SUBSET Identifiers /\ "befriend" \in IdentityAt /\ "befriend" \notin Acting
    BY DEF IdentityAt, AssistantAt, Acting
  <2> HIDE DEF users
  <2>3. o \in IdCallStates /\ o.at = "befriend" /\ o.op = idCalls[c].op /\ o.ident = idCalls[c].ident
    BY <1>0, <2>2 DEF IdCallStates
  <2>4. idCalls[c].op = "backfill"
    BY <1>0, <2>1 DEF StepOfItsOp
  <2>5. StepOfItsOp(o)
    BY <1>0, <2>3, <2>4 DEF StepOfItsOp, RegisterAt, CodeAt, AssistantAt
  <2> HIDE DEF o
  <2>6. CallTypes' /\ OthersStay(c) /\ idCalls'[c] = o
    BY <1>0, <2>1, <2>3, <2>5, CallBecomes
  <2>7. IdentityTypes'
    BY <1>0, <2>1, <2>6 DEF CodeInv, IdentityTypes, CallTypes, accountVars
  <2>8. CodeInv'
    BY <1>0, <2>1, <2>2, <2>3, <2>6, <2>7, CodesUntouched
  <2>9. Provisioned(idCalls[c])'
    BY <1>0, <2>1, <2>3, <2>4, <2>6 DEF Provisioned, accountVars
  <2> QED
    BY <1>0, <2>1, <2>6, <2>7, <2>8, <2>9, NothingChanges, ProvisionKept DEF IdentityInv
<1>10. ASSUME EnsureAssistantFriendship(c)
       PROVE  IdentityInv'
  <2> DEFINE i == idCalls[c].ident
  <2>1. /\ idCalls[c].at = "befriend" /\ UNCHANGED <<codes, accounts, credentials, assistant, assembled>>
        /\ friendly' = friendly \cup {i} /\ CallGoes(c, "credential")
        /\ idCalls[c].op \in {"register", "test"} /\ i \in Identifiers
    BY <1>0, <1>10 DEF EnsureAssistantFriendship, StepOfItsOp, AssistantAt
  <2>2. AccountTypes' /\ AccountsGrow
    BY <1>0, <2>1 DEF AccountTypes, AccountsGrow
  <2>3. "credential" \in IdentityAt \ Acting
    BY DEF IdentityAt, Acting
  <2>4. /\ CodeInv' /\ OthersStay(c) /\ idCalls'[c].at = "credential"
        /\ idCalls'[c].op = idCalls[c].op /\ idCalls'[c].ident = i
    BY <1>0, <2>1, <2>2, <2>3, QuietGoes
  <2>5. Provisioned(idCalls[c])'
    BY <1>0, <2>1, <2>4 DEF Provisioned, AssistantAt
  <2> QED
    BY <1>0, <2>1, <2>2, <2>4, <2>5, ProvisionKept DEF IdentityInv, CodeInv
<1>11. ASSUME BackfillFriendship(c)
       PROVE  IdentityInv'
  <2>1. /\ idCalls[c].at = "befriend" /\ UNCHANGED <<codes, accounts, credentials, assistant, assembled>>
        /\ idCalls[c].op = "backfill"
    BY <1>11 DEF BackfillFriendship
  <2>2. CASE Ends(c) /\ UNCHANGED friendly
    BY <2>1, <2>2, JustEnds DEF accountVars
  <2>3. CASE \E i \in idCalls[c].todo :
                friendly' = friendly \cup {i} /\ idCalls' = [idCalls EXCEPT ![c].todo = @ \ {i}]
    <3>1. PICK i \in idCalls[c].todo :
             friendly' = friendly \cup {i} /\ idCalls' = [idCalls EXCEPT ![c].todo = @ \ {i}]
      BY <2>3
    <3> DEFINE rest == idCalls[c].todo \ {i}
               o == [idCalls[c] EXCEPT !.todo = rest]
    <3>2. i \in Identifiers /\ rest \in SUBSET Identifiers
      BY <1>0 DEF IdCallStates
    <3>3. idCalls' = [idCalls EXCEPT ![c] = o]
      BY <3>1
    <3> HIDE DEF rest
    <3>4. o \in IdCallStates /\ o.at = "befriend" /\ o.op = idCalls[c].op /\ o.ident = idCalls[c].ident
      BY <1>0, <2>1, <3>2 DEF IdCallStates
    <3>5. StepOfItsOp(o)
      BY <1>0, <2>1, <3>4 DEF StepOfItsOp
    <3> HIDE DEF o
    <3>6. CallTypes' /\ OthersStay(c) /\ idCalls'[c] = o
      BY <1>0, <3>3, <3>4, <3>5, CallBecomes
    <3>7. AccountTypes' /\ AccountsGrow
      BY <1>0, <2>1, <3>1, <3>2 DEF AccountTypes, AccountsGrow
    <3>8. IdentityTypes'
      BY <1>0, <2>1, <3>6, <3>7 DEF CodeInv, IdentityTypes, CallTypes, AccountTypes
    <3>9. CodeInv'
      BY <1>0, <2>1, <3>4, <3>6, <3>8, CodesUntouched DEF Acting
    <3>10. Provisioned(idCalls[c])'
      BY <1>0, <2>1, <3>4, <3>6 DEF Provisioned
    <3> QED
      BY <1>0, <2>1, <3>6, <3>7, <3>8, <3>9, <3>10, ProvisionKept DEF IdentityInv
  <2> QED
    BY <1>11, <2>2, <2>3 DEF BackfillFriendship
<1> QED
  BY <1>1, <1>2, <1>3, <1>4, <1>5, <1>6, <1>7, <1>8, <1>9, <1>10, <1>11

LEMMA IdentityStep == IdentityInv /\ [IdentityNext]_identityVars => IdentityInv'
<1> SUFFICES ASSUME IdentityInv, [IdentityNext]_identityVars
             PROVE  IdentityInv'
  OBVIOUS
<1>1. ASSUME NEW n \in DOMAIN codes, CooldownPasses(n) \/ CodeExpires(n)
      PROVE  IdentityInv'
  <2>1. CodeInv' /\ UNCHANGED <<accountVars, idCalls>>
    BY <1>1, CodeAges DEF IdentityInv, CooldownPasses, CodeExpires
  <2>2. ProvisionInv'
    BY <2>1 DEF IdentityInv, CodeInv, ProvisionInv, Provisioned, UsersHaveAssistant, accountVars
  <2> QED
    BY <2>1, <2>2 DEF IdentityInv
<1>2. CASE UNCHANGED identityVars
  <2>1. \A n : Guessing(n)' = Guessing(n)
    BY <1>2 DEF Guessing, identityVars
  <2>2. CodeInv'
    BY <1>2, <2>1 DEF IdentityInv, CodeInv, IdentityTypes, PassedOnce, OwnCode, GuessersRead, GuessesCounted, identityVars
  <2>3. ProvisionInv'
    BY <1>2, <2>2 DEF IdentityInv, CodeInv, ProvisionInv, Provisioned, UsersHaveAssistant, identityVars
  <2> QED
    BY <2>2, <2>3 DEF IdentityInv
<1> QED
  BY <1>1, <1>2, CodeActions, AccountActions DEF IdentityNext

(* A registration code lets one call through and answers no more guesses    *)
(* than the limit and the calls that can overlap allow, for any number of   *)
(* codes, calls and identifiers, whatever fails between two statements.     *)
THEOREM CodesAreSafe == IdentitySpec => []CodesHold
<1>1. IdentityInv => CodesHold
  <2> SUFFICES ASSUME IdentityInv
               PROVE  CodesHold
    OBVIOUS
  <2>1. OnePassPerCode
    BY DEF IdentityInv, CodeInv, PassedOnce, OnePassPerCode
  <2>2. ASSUME NEW n \in DOMAIN codes
        PROVE  codes[n].attempts <= MaxAttempts - 1 + Cardinality(IdentityCalls)
    <3>1. codes[n].attempts + Cardinality(Guessing(n)) <= MaxAttempts - 1 + Cardinality(IdentityCalls)
      BY DEF IdentityInv, CodeInv, GuessesCounted
    <3>2. codes[n].attempts \in Nat
      BY RowTyped DEF IdentityInv, CodeInv, CodeRows
    <3>3. Cardinality(Guessing(n)) \in Nat /\ Cardinality(IdentityCalls) \in Nat
      BY GuessingFinite, IdentityConstants, FS_CardinalityType
    <3> QED
      BY <3>1, <3>2, <3>3, IdentityConstants
  <2> QED
    BY <2>1, <2>2 DEF CodesHold, GuessesBounded
<1>2. IdentityInit => IdentityInv
  BY IdentityInitially DEF IdentityInv
<1> QED
  BY <1>1, <1>2, IdentityStep, PTL DEF IdentitySpec

(* Whoever has a password to log in with has the default assistant, its     *)
(* agent and the friendship, although they are made by three services that  *)
(* share no transaction and the calls race and fail.                        *)
THEOREM AssistantBeforePassword == IdentitySpec => []UsersHaveAssistant
<1>1. IdentityInv => UsersHaveAssistant
  BY DEF IdentityInv, ProvisionInv
<1>2. IdentityInit => IdentityInv
  BY IdentityInitially DEF IdentityInv
<1> QED
  BY <1>1, <1>2, IdentityStep, PTL DEF IdentitySpec

-----------------------------------------------------------------------------
(*                                  IdGen                                  *)

(* A number is divided in one way. *)
LEMMA DivideOnce ==
    ASSUME NEW n \in Nat \ {0}, NEW a \in Int, NEW b \in Int, NEW r \in 0 .. n - 1, NEW q \in 0 .. n - 1,
           a * n + r = b * n + q
    PROVE  a = b /\ r = q
<1>1. ASSUME NEW x \in Int, NEW y \in Int, x < y
      PROVE  x * n + n <= y * n
  <2>1. y - x - 1 \in Nat
    BY <1>1
  <2>2. (y - x - 1) * n >= 0
    BY <2>1
  <2>3. (y - x - 1) * n = y * n - x * n - n
    OBVIOUS
  <2> QED
    BY <2>2, <2>3
<1>2. a * n \in Int /\ b * n \in Int
  OBVIOUS
<1>3. ~(a < b)
  BY <1>1, <1>2
<1>4. ~(b < a)
  BY <1>1, <1>2
<1>5. a = b
  BY <1>3, <1>4
<1> QED
  BY <1>2, <1>5

LEMMA DivideBack ==
    ASSUME NEW n \in Nat \ {0}, NEW a \in Int, NEW r \in 0 .. n - 1
    PROVE  (a * n + r) \div n = a /\ (a * n + r) % n = r
<1> DEFINE x == a * n + r
           d == x \div n
           m == x % n
<1>1. x \in Int
  OBVIOUS
<1>2. d \in Int /\ m \in 0 .. n - 1
  <2> HIDE DEF x
  <2> QED
    BY <1>1
<1>3. x = d * n + m
  <2> HIDE DEF x
  <2> QED
    BY <1>1
<1> HIDE DEF d, m
<1>4. a = d /\ r = m
  BY <1>2, <1>3, DivideOnce
<1> QED
  BY <1>4 DEF d, m

(* The next sequence number is the next one, or the millisecond is full. *)
LEMMA SequenceRuns ==
    ASSUME NEW n \in Nat \ {0}, NEW s \in 0 .. n - 1
    PROVE  (s + 1) % n \in 0 .. n - 1 /\ ((s + 1) % n = s + 1 \/ (s + 1) % n = 0)
<1>1. CASE s + 1 < n
  BY <1>1
<1>2. CASE s + 1 = n
  BY <1>2
<1> QED
  BY <1>1, <1>2

(* The fields of an id can be told apart, and two ids that are the same     *)
(* number have the same fields.                                             *)
LEMMA PackInjective ==
    ASSUME NEW t \in Nat, NEW f \in Facets, NEW g \in Machines, NEW s \in 0 .. SequenceSpan - 1,
           NEW u \in Nat, NEW e \in Facets, NEW h \in Machines, NEW q \in 0 .. SequenceSpan - 1,
           Pack(t, f, g, s) = Pack(u, e, h, q)
    PROVE  t = u /\ f = e /\ g = h /\ s = q
<1> DEFINE a == t * FacetSpan + f
           b == u * FacetSpan + e
           x == a * MachineSpan + g
           y == b * MachineSpan + h
<1>1. g \in 0 .. MachineSpan - 1 /\ h \in 0 .. MachineSpan - 1 /\ f \in 0 .. FacetSpan - 1 /\ e \in 0 .. FacetSpan - 1
  BY IdGenConstants DEF Facets
<1>2. a \in Int /\ b \in Int
  BY <1>1, IdGenConstants
<1>3. x * SequenceSpan + s = y * SequenceSpan + q
  BY DEF Pack
<1> HIDE DEF a, b
<1>4. x \in Int /\ y \in Int
  BY <1>1, <1>2, IdGenConstants
<1> HIDE DEF x, y
<1>5. x = y /\ s = q
  BY <1>3, <1>4, IdGenConstants, DivideOnce
<1>6. a = b /\ g = h
  BY <1>1, <1>2, <1>5, IdGenConstants, DivideOnce DEF x, y
<1>7. t = u /\ f = e
  BY <1>1, <1>6, IdGenConstants, DivideOnce DEF a, b
<1> QED
  BY <1>5, <1>6, <1>7

LEMMA FacetOfPack ==
    ASSUME NEW t \in Nat, NEW f \in Facets, NEW g \in Machines, NEW s \in 0 .. SequenceSpan - 1
    PROVE  AccountFacet(Pack(t, f, g, s)) = f
<1> DEFINE a == t * FacetSpan + f
           w == SequenceSpan * MachineSpan
           r == g * SequenceSpan + s
<1>1. g \in 0 .. MachineSpan - 1 /\ f \in 0 .. FacetSpan - 1 /\ SequenceSpan \in Nat \ {0} /\ MachineSpan \in Nat \ {0}
  BY IdGenConstants DEF Facets
<1>2. a \in Int
  BY <1>1, IdGenConstants
<1>3. w \in Nat \ {0}
  BY <1>1
<1>4. r \in 0 .. w - 1
  <2>1. (MachineSpan - 1 - g) * SequenceSpan >= 0
    BY <1>1
  <2>2. (MachineSpan - 1 - g) * SequenceSpan = w - SequenceSpan - g * SequenceSpan
    BY <1>1
  <2>3. g * SequenceSpan \in Nat
    BY <1>1
  <2> QED
    BY <1>1, <1>3, <2>1, <2>2, <2>3
<1>5. Pack(t, f, g, s) = (a * MachineSpan + g) * SequenceSpan + s
  BY DEF Pack
<1> HIDE DEF a
<1>6. (a * MachineSpan + g) * SequenceSpan + s = a * w + r
  BY <1>1, <1>2
<1> HIDE DEF w, r
<1>7. Pack(t, f, g, s) \div w = a
  BY <1>2, <1>3, <1>4, <1>5, <1>6, DivideBack
<1>8. a % FacetSpan = f
  BY <1>1, IdGenConstants, DivideBack DEF a
<1> QED
  BY <1>7, <1>8 DEF AccountFacet, w

MintedIds == [id : Int, facet : Facets]

IdGenTypes ==
    /\ now \in [Machines -> Nat] /\ started \in [Machines -> Nat]
    /\ lastMs \in [Machines -> Int] /\ sequence \in [Machines -> 0 .. SequenceSpan - 1]
    /\ spinning \in [Machines -> Facets \cup {-1}]
    /\ minted \in [Machines -> Seq(MintedIds)]

(* The clock was not set back past the start, an id has a time past the     *)
(* epoch, and a call only spins in the millisecond of an id.                *)
ClocksSound ==
    \A g \in Machines :
        /\ started[g] <= now[g]
        /\ lastMs[g] # -1 => lastMs[g] >= EpochMs
        /\ lastMs[g] = -1 => spinning[g] = -1

(* Past the last timestamp an instance mints no more. *)
Exhausted(g) == now[g] > EpochMs + MaxTimestamp

(* Millisecond t and sequence number s are behind what g will mint next.    *)
(* While a call spins its sequence number was reset, and only time counts.  *)
Behind(g, t, s) ==
    \/ Exhausted(g)
    \/ lastMs[g] = -1 /\ t < started[g]
    \/ /\ lastMs[g] # -1
       /\ t < lastMs[g] \/ (t = lastMs[g] /\ (spinning[g] = -1 => s <= sequence[g]))

MintedBehind ==
    \A g \in Machines : \A i \in DOMAIN minted[g] :
        \E t \in Nat, s \in 0 .. SequenceSpan - 1 :
            minted[g][i].id = Pack(t, minted[g][i].facet, g, s) /\ Behind(g, EpochMs + t, s)

(* The inductive invariant of the generators. *)
IdGenInv == IdGenTypes /\ ClocksSound /\ MintedBehind /\ UniqueIds

LEMMA IdGenInitially == IdGenInit => IdGenInv
<1> SUFFICES ASSUME IdGenInit
             PROVE  IdGenInv
  OBVIOUS
<1>1. IdGenTypes /\ ClocksSound
  BY IdGenConstants DEF IdGenInit, IdGenTypes, ClocksSound, Facets
<1>2. \A g \in Machines : minted[g] = <<>> /\ DOMAIN minted[g] = {} /\ Len(minted[g]) = 0
  BY DEF IdGenInit
<1> QED
  BY <1>1, <1>2 DEF IdGenInv, MintedBehind, UniqueIds

(* A step that mints nothing and leaves what was minted behind. *)
LEMMA NothingMinted ==
    ASSUME IdGenInv, IdGenTypes', ClocksSound', UNCHANGED minted,
           \A g \in Machines : \A t \in Nat, s \in 0 .. SequenceSpan - 1 : Behind(g, t, s) => Behind(g, t, s)'
    PROVE  IdGenInv'
<1>1. MintedBehind'
  <2> SUFFICES ASSUME NEW g \in Machines, NEW i \in DOMAIN minted[g]
               PROVE  \E t \in Nat, s \in 0 .. SequenceSpan - 1 :
                          minted[g][i].id = Pack(t, minted[g][i].facet, g, s) /\ Behind(g, EpochMs + t, s)'
    BY DEF MintedBehind
  <2>1. PICK t \in Nat, s \in 0 .. SequenceSpan - 1 :
            minted[g][i].id = Pack(t, minted[g][i].facet, g, s) /\ Behind(g, EpochMs + t, s)
    BY DEF IdGenInv, MintedBehind
  <2>2. EpochMs + t \in Nat
    BY IdGenConstants
  <2> QED
    BY <2>1, <2>2
<1> QED
  BY <1>1 DEF IdGenInv, UniqueIds

(* A step that mints an id, at a time and with a sequence number that those *)
(* minted so far are behind.                                                *)
LEMMA IdMinted ==
    ASSUME IdGenInv, IdGenTypes', ClocksSound', NEW g \in Machines, NEW f \in Facets,
           NEW t \in Nat, NEW s \in 0 .. SequenceSpan - 1,
           minted' = [minted EXCEPT ![g] = Append(@, [id |-> Pack(t, f, g, s), facet |-> f])],
           \A u \in Nat, q \in 0 .. SequenceSpan - 1 :
               Behind(g, EpochMs + u, q) => <<u, q>> # <<t, s>> /\ Behind(g, EpochMs + u, q)',
           \A h \in Machines \ {g} : \A u \in Nat, q \in 0 .. SequenceSpan - 1 :
               Behind(h, u, q) => Behind(h, u, q)',
           Behind(g, EpochMs + t, s)'
    PROVE  IdGenInv'
<1> DEFINE e == [id |-> Pack(t, f, g, s), facet |-> f]
           n == Len(minted[g]) + 1
<1>1. e.id = Pack(t, f, g, s) /\ e.facet = f
  OBVIOUS
<1> HIDE DEF e
<1>2. /\ minted'[g] = Append(minted[g], e) /\ \A h \in Machines : h # g => minted'[h] = minted[h]
      /\ minted[g] \in Seq(MintedIds) /\ \A h \in Machines : DOMAIN minted[h] = 1 .. Len(minted[h])
  BY DEF IdGenInv, IdGenTypes, e
<1>3. /\ DOMAIN minted'[g] = 1 .. n /\ Len(minted'[g]) = n /\ minted'[g][n] = e /\ n \in 1 .. n
      /\ \A i \in 1 .. n : i # n => i \in 1 .. Len(minted[g]) /\ minted'[g][i] = minted[g][i]
  <2>1. Len(minted[g]) \in Nat
    BY <1>2
  <2> QED
    BY <1>2, <2>1
<1> HIDE DEF n
<1>4. MintedBehind'
  <2> SUFFICES ASSUME NEW h \in Machines, NEW i \in DOMAIN minted'[h]
               PROVE  \E u \in Nat, q \in 0 .. SequenceSpan - 1 :
                          minted'[h][i].id = Pack(u, minted'[h][i].facet, h, q) /\ Behind(h, EpochMs + u, q)'
    BY DEF MintedBehind
  <2>1. CASE h = g /\ i = n
    BY <1>1, <1>3, <2>1
  <2>2. CASE h = g /\ i # n
    <3>1. i \in DOMAIN minted[g] /\ minted'[g][i] = minted[g][i]
      BY <1>2, <1>3, <2>2
    <3>2. PICK u \in Nat, q \in 0 .. SequenceSpan - 1 :
              minted[g][i].id = Pack(u, minted[g][i].facet, g, q) /\ Behind(g, EpochMs + u, q)
      BY <3>1 DEF IdGenInv, MintedBehind
    <3> QED
      BY <2>2, <3>1, <3>2
  <2>3. CASE h # g
    <3>1. i \in DOMAIN minted[h] /\ minted'[h] = minted[h]
      BY <1>2, <2>3
    <3>2. PICK u \in Nat, q \in 0 .. SequenceSpan - 1 :
              minted[h][i].id = Pack(u, minted[h][i].facet, h, q) /\ Behind(h, EpochMs + u, q)
      BY <3>1 DEF IdGenInv, MintedBehind
    <3>3. EpochMs + u \in Nat
      BY IdGenConstants
    <3> QED
      BY <2>3, <3>1, <3>2, <3>3
  <2> QED
    BY <2>1, <2>2, <2>3
<1>5. ASSUME NEW h \in Machines, NEW i \in DOMAIN minted[h]
      PROVE  minted[h][i].id # e.id
  <2>1. PICK u \in Nat, q \in 0 .. SequenceSpan - 1 :
            minted[h][i].id = Pack(u, minted[h][i].facet, h, q) /\ Behind(h, EpochMs + u, q)
    BY DEF IdGenInv, MintedBehind
  <2> DEFINE x == minted[h][i].facet
  <2>2. minted[h] \in Seq(MintedIds)
    BY DEF IdGenInv, IdGenTypes
  <2>3. minted[h][i] \in MintedIds
    BY <2>2
  <2>4. x \in Facets
    BY <2>3 DEF MintedIds
  <2>5. minted[h][i].id = Pack(u, x, h, q)
    BY <2>1
  <2> HIDE DEF x
  <2>6. ASSUME minted[h][i].id = e.id
        PROVE  h = g /\ u = t /\ q = s
    <3>1. Pack(u, x, h, q) = Pack(t, f, g, s)
      BY <1>1, <2>5, <2>6
    <3> QED
      BY <2>4, <3>1, PackInjective
  <2> QED
    BY <2>1, <2>6
<1>6. UniqueIds'
  <2> SUFFICES ASSUME NEW h \in Machines, NEW k \in Machines,
                      NEW i \in 1 .. Len(minted'[h]), NEW j \in 1 .. Len(minted'[k]),
                      minted'[h][i].id = minted'[k][j].id
               PROVE  h = k /\ i = j
    BY DEF UniqueIds
  <2>1. \/ h = g /\ i = n /\ minted'[h][i] = e
        \/ ~(h = g /\ i = n) /\ i \in 1 .. Len(minted[h]) /\ minted'[h][i] = minted[h][i]
    BY <1>2, <1>3
  <2>2. \/ k = g /\ j = n /\ minted'[k][j] = e
        \/ ~(k = g /\ j = n) /\ j \in 1 .. Len(minted[k]) /\ minted'[k][j] = minted[k][j]
    BY <1>2, <1>3
  <2> QED
    BY <1>2, <1>5, <2>1, <2>2 DEF IdGenInv, UniqueIds
<1> QED
  BY <1>4, <1>6 DEF IdGenInv

(* The end of Next: an id for this millisecond, or none before the epoch or *)
(* past the last timestamp.                                                 *)
LEMMA MintStep ==
    ASSUME IdGenInv, NEW g \in Machines, NEW f \in Facets, NEW s \in 0 .. SequenceSpan - 1,
           Mint(g, f, now[g], s), UNCHANGED <<now, started>>,
           sequence' = [sequence EXCEPT ![g] = s], spinning' = [spinning EXCEPT ![g] = -1],
           now[g] >= lastMs[g],
           now[g] = lastMs[g] => spinning[g] = -1 /\ s = sequence[g] + 1
    PROVE  IdGenInv'
<1>1. /\ now[g] \in Nat /\ started[g] \in Nat /\ started[g] <= now[g] /\ lastMs[g] \in Int /\ sequence[g] \in Nat
      /\ lastMs[g] # -1 => lastMs[g] >= EpochMs
      /\ EpochMs \in Nat /\ MaxTimestamp \in Nat
  BY IdGenConstants DEF IdGenInv, IdGenTypes, ClocksSound
<1>2. /\ spinning'[g] = -1 /\ sequence'[g] = s /\ now'[g] = now[g] /\ started'[g] = started[g]
      /\ \A h \in Machines \ {g} : spinning'[h] = spinning[h] /\ sequence'[h] = sequence[h]
                                   /\ now'[h] = now[h] /\ started'[h] = started[h]
  BY DEF IdGenInv, IdGenTypes
<1>3. /\ now' \in [Machines -> Nat] /\ started' \in [Machines -> Nat]
      /\ sequence' \in [Machines -> 0 .. SequenceSpan - 1] /\ spinning' \in [Machines -> Facets \cup {-1}]
  BY DEF IdGenInv, IdGenTypes
<1>4. CASE now[g] - EpochMs \notin 0 .. MaxTimestamp
  <2>1. UNCHANGED <<lastMs, minted>>
    BY <1>4 DEF Mint
  <2>2. IdGenTypes' /\ ClocksSound'
    BY <1>2, <1>3, <2>1 DEF IdGenInv, IdGenTypes, ClocksSound
  <2>3. Exhausted(g) \/ now[g] < EpochMs
    BY <1>1, <1>4 DEF Exhausted
  <2>4. now[g] < EpochMs => lastMs[g] = -1
    BY <1>1
  <2>5. \A h \in Machines : \A t \in Nat, q \in 0 .. SequenceSpan - 1 : Behind(h, t, q) => Behind(h, t, q)'
    <3>1. \A t \in Nat, q \in 0 .. SequenceSpan - 1 : Behind(g, t, q) => Behind(g, t, q)'
      BY <1>2, <2>1, <2>3, <2>4 DEF Behind, Exhausted
    <3>2. \A h \in Machines \ {g} : \A t \in Nat, q \in 0 .. SequenceSpan - 1 : Behind(h, t, q) => Behind(h, t, q)'
      BY <1>2, <2>1 DEF Behind, Exhausted
    <3> QED
      BY <3>1, <3>2
  <2> QED
    BY <2>1, <2>2, <2>5, NothingMinted
<1>5. CASE now[g] - EpochMs \in 0 .. MaxTimestamp
  <2>0. PICK t \in Nat : t = now[g] - EpochMs
    BY <1>5
  <2>1. /\ lastMs' = [lastMs EXCEPT ![g] = now[g]]
        /\ minted' = [minted EXCEPT ![g] = Append(@, [id |-> Pack(t, f, g, s), facet |-> f])]
    BY <1>5, <2>0 DEF Mint
  <2>2. EpochMs + t = now[g] /\ ~ Exhausted(g)
    BY <1>1, <1>5, <2>0 DEF Exhausted
  <2>3. Pack(t, f, g, s) \in Int
    <3>1. g \in Int /\ f \in Int /\ s \in Int /\ MachineSpan \in Int /\ FacetSpan \in Int /\ SequenceSpan \in Int
      BY IdGenConstants DEF Facets
    <3> DEFINE a == t * FacetSpan + f
               x == a * MachineSpan + g
    <3>2. a \in Int
      BY <2>2, <3>1
    <3>3. Pack(t, f, g, s) = x * SequenceSpan + s
      BY DEF Pack
    <3> HIDE DEF a
    <3>4. x \in Int
      BY <3>1, <3>2
    <3> HIDE DEF x
    <3> QED
      BY <3>1, <3>3, <3>4
  <2>4. lastMs'[g] = now[g] /\ \A h \in Machines \ {g} : lastMs'[h] = lastMs[h]
    BY <2>1 DEF IdGenInv, IdGenTypes
  <2>5. IdGenTypes'
    <3>1. lastMs' \in [Machines -> Int]
      BY <1>1, <2>1 DEF IdGenInv, IdGenTypes
    <3>2. [id |-> Pack(t, f, g, s), facet |-> f] \in MintedIds
      BY <2>3 DEF MintedIds
    <3>3. minted' \in [Machines -> Seq(MintedIds)]
      BY <2>1, <3>2 DEF IdGenInv, IdGenTypes
    <3> QED
      BY <1>3, <3>1, <3>3 DEF IdGenTypes
  <2>6. ClocksSound'
    BY <1>1, <1>2, <1>5, <2>2, <2>4, SMTT(20) DEF IdGenInv, IdGenTypes, ClocksSound
  <2>7. Behind(g, EpochMs + t, s)'
    BY <1>1, <1>2, <2>2, <2>4 DEF Behind
  <2>8. ASSUME NEW u \in Nat, NEW q \in 0 .. SequenceSpan - 1, Behind(g, EpochMs + u, q)
        PROVE  <<u, q>> # <<t, s>> /\ Behind(g, EpochMs + u, q)'
    <3>1. EpochMs + u < now[g] \/ (EpochMs + u = now[g] /\ q < s)
      BY <1>1, <2>2, <2>8 DEF Behind
    <3>2. u # t \/ q # s
      BY <1>1, <2>2, <3>1
    <3>3. Behind(g, EpochMs + u, q)'
      BY <1>1, <1>2, <2>4, <3>1 DEF Behind
    <3> QED
      BY <3>2, <3>3
  <2>9. \A h \in Machines \ {g} : \A u \in Nat, q \in 0 .. SequenceSpan - 1 : Behind(h, u, q) => Behind(h, u, q)'
    BY <1>2, <2>4 DEF Behind, Exhausted
  <2> QED
    BY <2>1, <2>2, <2>5, <2>6, <2>7, <2>8, <2>9, IdMinted
<1> QED
  BY <1>4, <1>5

LEMMA IdGenStep == IdGenInv /\ [IdGenNext]_idgenVars => IdGenInv'
<1> SUFFICES ASSUME IdGenInv, [IdGenNext]_idgenVars
             PROVE  IdGenInv'
  OBVIOUS
<1>1. ASSUME NEW g \in Machines, NEW ms \in 0 .. MaxClock, Clock(g, ms)
      PROVE  IdGenInv'
  <2>1. /\ now' = [now EXCEPT ![g] = ms] /\ UNCHANGED <<started, lastMs, sequence, spinning, minted>>
        /\ ms >= started[g] /\ (Exhausted(g) => ms >= now[g]) /\ ms \in Nat
    BY <1>1, IdGenConstants DEF Clock, Exhausted
  <2>2. /\ now'[g] = ms /\ \A h \in Machines \ {g} : now'[h] = now[h]
        /\ now[g] \in Nat
    BY <2>1 DEF IdGenInv, IdGenTypes
  <2>3. IdGenTypes' /\ ClocksSound'
    BY <2>1, <2>2 DEF IdGenInv, IdGenTypes, ClocksSound
  <2>4. \A h \in Machines : Exhausted(h) => Exhausted(h)'
    BY <2>1, <2>2, IdGenConstants DEF Exhausted
  <2>5. \A h \in Machines : \A t \in Nat, s \in 0 .. SequenceSpan - 1 : Behind(h, t, s) => Behind(h, t, s)'
    BY <2>1, <2>4 DEF Behind
  <2> QED
    BY <2>1, <2>3, <2>5, NothingMinted
<1>2. ASSUME NEW g \in Machines, NEW f \in Facets, NextID(g, f)
      PROVE  IdGenInv'
  <2> DEFINE s == IF now[g] = lastMs[g] THEN (sequence[g] + 1) % SequenceSpan ELSE 0
  <2>1. s \in 0 .. SequenceSpan - 1 /\ (now[g] = lastMs[g] => s = sequence[g] + 1 \/ s = 0)
    <3>1. sequence[g] \in 0 .. SequenceSpan - 1 /\ SequenceSpan \in Nat \ {0}
      BY IdGenConstants DEF IdGenInv, IdGenTypes
    <3>2. /\ (sequence[g] + 1) % SequenceSpan \in 0 .. SequenceSpan - 1
          /\ (sequence[g] + 1) % SequenceSpan = sequence[g] + 1 \/ (sequence[g] + 1) % SequenceSpan = 0
      BY <3>1, SequenceRuns
    <3> QED
      BY <3>1, <3>2
  <2>2. /\ spinning[g] = -1 /\ now[g] >= lastMs[g] /\ UNCHANGED <<now, started>>
        /\ sequence' = [sequence EXCEPT ![g] = s]
        /\ IF now[g] = lastMs[g] /\ s = 0
           THEN spinning' = [spinning EXCEPT ![g] = f] /\ UNCHANGED <<lastMs, minted>>
           ELSE Mint(g, f, now[g], s) /\ UNCHANGED spinning
    BY <1>2 DEF NextID, NextSequence
  <2> HIDE DEF s
  <2>3. now[g] \in Nat /\ -1 \in Int /\ spinning \in [Machines -> Facets \cup {-1}]
    BY DEF IdGenInv, IdGenTypes
  <2>4. CASE now[g] = lastMs[g] /\ s = 0
    <3>1. /\ spinning'[g] = f /\ \A h \in Machines \ {g} : spinning'[h] = spinning[h] /\ sequence'[h] = sequence[h]
          /\ UNCHANGED <<lastMs, minted, now, started>> /\ lastMs[g] # -1
      BY <2>2, <2>3, <2>4 DEF IdGenInv, IdGenTypes
    <3>2. f # -1
      BY IdGenConstants DEF Facets
    <3>3. IdGenTypes' /\ ClocksSound'
      BY <2>1, <2>2, <2>4, <3>1 DEF IdGenInv, IdGenTypes, ClocksSound
    <3>4. \A h \in Machines : \A t \in Nat, q \in 0 .. SequenceSpan - 1 : Behind(h, t, q) => Behind(h, t, q)'
      BY <3>1, <3>2 DEF Behind, Exhausted
    <3> QED
      BY <3>1, <3>3, <3>4, NothingMinted
  <2>5. CASE ~(now[g] = lastMs[g] /\ s = 0)
    <3>1. spinning' = [spinning EXCEPT ![g] = -1]
      BY <2>2, <2>3, <2>5
    <3> QED
      BY <2>1, <2>2, <2>5, <3>1, MintStep
  <2> QED
    BY <2>4, <2>5
<1>3. ASSUME NEW g \in Machines, WaitNextMillis(g)
      PROVE  IdGenInv'
  <2>1. /\ spinning[g] \in Facets /\ sequence[g] \in 0 .. SequenceSpan - 1
        /\ now[g] \in Nat /\ lastMs[g] \in Int /\ sequence = [sequence EXCEPT ![g] = sequence[g]]
    BY <1>3 DEF WaitNextMillis, IdGenInv, IdGenTypes
  <2>2. sequence' = [sequence EXCEPT ![g] = sequence[g]] /\ now[g] >= lastMs[g] /\ now[g] # lastMs[g]
    BY <1>3, <2>1 DEF WaitNextMillis
  <2> DEFINE f == spinning[g]
             q == sequence[g]
  <2>3. Mint(g, f, now[g], q) /\ UNCHANGED <<now, started>> /\ spinning' = [spinning EXCEPT ![g] = -1]
        /\ sequence' = [sequence EXCEPT ![g] = q] /\ f \in Facets /\ q \in 0 .. SequenceSpan - 1
    BY <1>3, <2>1, <2>2 DEF WaitNextMillis
  <2> HIDE DEF f, q
  <2> QED
    BY <2>2, <2>3, MintStep
<1>4. ASSUME NEW g \in Machines, NewGenerator(g)
      PROVE  IdGenInv'
  <2>1. /\ now[g] > lastMs[g] /\ lastMs[g] # -1 /\ UNCHANGED <<now, minted>>
        /\ lastMs'[g] = -1 /\ sequence'[g] = 0 /\ spinning'[g] = -1 /\ started'[g] = now[g]
        /\ \A h \in Machines \ {g} : lastMs'[h] = lastMs[h] /\ sequence'[h] = sequence[h]
                                     /\ spinning'[h] = spinning[h] /\ started'[h] = started[h]
    BY <1>4 DEF NewGenerator, IdGenInv, IdGenTypes
  <2>2. IdGenTypes'
    BY <1>4, IdGenConstants DEF NewGenerator, IdGenInv, IdGenTypes
  <2>3. lastMs[g] \in Int /\ now[g] \in Nat
    BY DEF IdGenInv, IdGenTypes
  <2>4. ClocksSound'
    <3> SUFFICES ASSUME NEW h \in Machines
                 PROVE  /\ started'[h] <= now'[h]
                        /\ lastMs'[h] # -1 => lastMs'[h] >= EpochMs
                        /\ lastMs'[h] = -1 => spinning'[h] = -1
      BY DEF ClocksSound
    <3>1. CASE h = g
      BY <2>1, <2>3, <3>1
    <3>2. CASE h # g
      BY <2>1, <3>2 DEF IdGenInv, ClocksSound
    <3> QED
      BY <3>1, <3>2
  <2>5. \A h \in Machines : \A t \in Nat, q \in 0 .. SequenceSpan - 1 : Behind(h, t, q) => Behind(h, t, q)'
    BY <2>1, <2>3 DEF Behind, Exhausted
  <2> QED
    BY <2>1, <2>2, <2>4, <2>5, NothingMinted
<1>5. CASE UNCHANGED idgenVars
  BY <1>5 DEF idgenVars, IdGenInv, IdGenTypes, ClocksSound, MintedBehind, Behind, Exhausted, UniqueIds
<1> QED
  BY <1>1, <1>2, <1>3, <1>4, <1>5 DEF IdGenNext

(* No two ids of any machines are the same, and an id tells the facet it    *)
(* was minted with, for every bit layout, number of machines and course of  *)
(* the clocks that Clock admits.                                            *)
THEOREM IdsAreSound == IdGenSpec => []IdsSound
<1>1. IdGenInv => IdsSound
  <2> SUFFICES ASSUME IdGenInv, NEW g \in Machines, NEW i \in 1 .. Len(minted[g])
               PROVE  AccountFacet(minted[g][i].id) = minted[g][i].facet
    BY DEF IdGenInv, IdsSound, FacetSurvives
  <2> DEFINE x == minted[g][i].facet
  <2>1. minted[g] \in Seq(MintedIds) /\ i \in DOMAIN minted[g]
    BY DEF IdGenInv, IdGenTypes
  <2>2. minted[g][i] \in MintedIds
    BY <2>1
  <2>3. x \in Facets
    BY <2>2 DEF MintedIds
  <2>4. PICK t \in Nat, s \in 0 .. SequenceSpan - 1 : minted[g][i].id = Pack(t, x, g, s)
    BY <2>1 DEF IdGenInv, MintedBehind
  <2> HIDE DEF x
  <2>5. AccountFacet(Pack(t, x, g, s)) = x
    BY <2>3, FacetOfPack
  <2> QED
    BY <2>4, <2>5 DEF x
<1> QED
  BY <1>1, IdGenInitially, IdGenStep, PTL DEF IdGenSpec

==============================================================================
