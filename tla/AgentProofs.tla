----------------------------- MODULE AgentProofs -----------------------------
(***************************************************************************)
(* Theorems about the agent service: triggers run once and agents do not   *)
(* answer agents (Hosting), what was observed is exported when Close       *)
(* returns (Sink), a python.execute call reports its own job (Runtime),    *)
(* and an agent that is somebody's friend is complete (Assembly); last the *)
(* types of private chat and hosting side by side (MCAgent).  They hold    *)
(* for any number of records, runs, calls, queue slots and agents.         *)
(***************************************************************************)
EXTENDS MCAgent, CoalescerProofs, Assembly, TLAPS

-----------------------------------------------------------------------------
(*                                Hosting                                  *)

(* What a record, a key of the ledger, a run and an agent's message are.    *)
(* The key of a trigger is made of the id of an event a human caused.       *)
HumanIds == {"send", "replay"} \X HumanMsgs
Keys == [event : HumanIds, msg : HumanMsgs, chat : Chats \cup Rooms, agent : Accounts]
Cids == [key : Keys, run : {0}]
Records == [id : HumanIds \cup ({"agent"} \X Cids), msg : HumanMsgs, chat : Chats \cup Rooms,
            author : Accounts, ai : BOOLEAN, at : SUBSET Accounts, visible : SUBSET Accounts]
RunAts == {"build", "llm", "auditSucceeded", "auditFailed", "reply", "notice", "succeed", "fail"}
Runs == [key : Keys, n : Nat \ {0}, at : RunAts]
Replies == [cid : Cids, key : Keys, kind : RunAts]
Scheds == [todo : SUBSET Accounts, at : {"judge", "next", "claim", "claimRejected", "mark", "refuse"},
           agent : SUBSET Accounts]
Claiming == {"claim", "claimRejected", "mark", "refuse"}
Statuses == {"running", "expired", "failed", "succeeded"}

TopicTypes ==
    /\ trigLog \in Seq(Records)
    /\ hCommitted \in Nat /\ hCur \in Nat /\ hCommitted <= hCur /\ hCur <= Len(trigLog)
    /\ enabled \in [Chats -> SUBSET Accounts] /\ roster \in [Rooms -> SUBSET Accounts]
    /\ archived \subseteq HumanMsgs
    /\ hFaults \in 0 .. MaxHostingFaults

(* Only what the judge let through has an id of its own kind. *)
HumansCause == \A n \in 1 .. Len(trigLog) : ~trigLog[n].ai => trigLog[n].id \in HumanIds

(* ScheduleTrigger works on one agent of a record that a human caused. *)
SchedSound ==
    /\ sched \in Scheds
    /\ sched # Idle => hCur < Len(trigLog) /\ ~NextEvent.ai
    /\ sched.at \in {"judge", "next"} => sched.agent = {}
    /\ sched.at \in Claiming => \E a \in sched.todo : sched.agent = {a}

LedgerTypes ==
    /\ DOMAIN ledger \subseteq Keys
    /\ \A k \in DOMAIN ledger : ledger[k] \in Statuses
    /\ runs \subseteq Runs /\ runCount \in Nat /\ \A r \in runs : r.n <= runCount
    /\ chatLog \subseteq Replies
    /\ \A x \in chatLog : x.cid = [key |-> x.key, run |-> 0]

(* A trigger that has been claimed and has no run yet is nobody's. *)
ClaimIsHeld == sched.at \in {"mark", "refuse"} => Status(Key) = "running" /\ \A r \in runs : r.key # Key

(* A run reports success after its message is in the chat. *)
SuccessIsWritten == \A r \in runs : r.at = "succeed" => \E x \in chatLog : x.key = r.key

(* The inductive invariant of Hosting. *)
HostingInv ==
    /\ TopicTypes /\ HumansCause /\ SchedSound /\ LedgerTypes
    /\ OneRunPerTrigger /\ OneMessagePerTrigger /\ ClaimIsHeld /\ SuccessIsWritten /\ SucceededIsWritten

LEMMA TypesAreHostingTypeOK == TopicTypes /\ SchedSound /\ LedgerTypes => HostingTypeOK
<1> SUFFICES ASSUME TopicTypes, SchedSound, LedgerTypes
             PROVE  HostingTypeOK
  OBVIOUS
<1>1. /\ sched.todo \subseteq Accounts /\ sched.agent \subseteq sched.todo
      /\ sched.at \in {"judge", "next", "claim", "claimRejected", "mark", "refuse"}
  BY DEF SchedSound, Scheds, Claiming
<1>2. \A r \in runs : r.n \in 1 .. runCount /\ r.at \in RunAts
  BY DEF LedgerTypes, Runs
<1> QED
  BY <1>1, <1>2 DEF HostingTypeOK, TopicTypes, SchedSound, LedgerTypes, RunAts, Statuses

(* The key is the one of the agent that is being scheduled. *)
LEMMA KeyIs ==
    ASSUME NEW a, sched.agent = {a}
    PROVE  Key = RequestID(NextEvent, a)
<1>1. {RequestID(NextEvent, b) : b \in sched.agent} = {RequestID(NextEvent, a)}
  OBVIOUS
<1> QED
  BY <1>1 DEF Key

LEMMA KeyIsNext ==
    ASSUME NEW a, (sched.agent)' = {a}
    PROVE  Key' = RequestID(NextEvent', a)
<1>1. {RequestID(NextEvent', b) : b \in (sched.agent)'} = {RequestID(NextEvent', a)}
  OBVIOUS
<1> QED
  BY <1>1 DEF Key, RequestID

(* It is a key of a human's event. *)
LEMMA KeyTyped ==
    ASSUME TopicTypes, HumansCause, SchedSound, sched.at \in Claiming
    PROVE  Key \in Keys
<1>1. PICK a \in sched.todo : sched.agent = {a}
  BY DEF SchedSound
<1>2. a \in Accounts
  BY <1>1 DEF SchedSound, Scheds
<1>3. sched # Idle
  BY DEF Idle, Claiming
<1>4. /\ hCur + 1 \in 1 .. Len(trigLog)
      /\ ~NextEvent.ai
  BY <1>3 DEF SchedSound, TopicTypes
<1>5. NextEvent \in Records
  BY <1>4 DEF TopicTypes, NextEvent
<1>6. NextEvent.id \in HumanIds
  BY <1>4 DEF HumansCause, NextEvent
<1>7. Key = RequestID(NextEvent, a)
  BY <1>1, KeyIs
<1> QED
  BY <1>2, <1>5, <1>6, <1>7 DEF RequestID, Records, Keys

(* A step that leaves the consumer where it is and at most appends to the   *)
(* topic, as people, administrators, the persist consumer and runs do.      *)
TopicMoves ==
    /\ UNCHANGED consumerVars
    /\ \/ trigLog' = trigLog
       \/ \E e \in Records : (~e.ai => e.id \in HumanIds) /\ trigLog' = Append(trigLog, e)
    /\ enabled' \in [Chats -> SUBSET Accounts] /\ roster' \in [Rooms -> SUBSET Accounts]
    /\ archived' \subseteq HumanMsgs
    /\ hFaults' \in 0 .. MaxHostingFaults

LEMMA TopicKept ==
    ASSUME TopicTypes, HumansCause, SchedSound, TopicMoves
    PROVE  /\ TopicTypes' /\ HumansCause' /\ SchedSound'
           /\ sched.at \in Claiming => Key' = Key
<1>1. /\ trigLog \in Seq(Records)
      /\ UNCHANGED <<hCommitted, hCur, sched>>
  BY DEF TopicTypes, TopicMoves, consumerVars
<1>2. /\ trigLog' \in Seq(Records)
      /\ Len(trigLog) \in Nat /\ Len(trigLog') \in Nat
      /\ Len(trigLog) <= Len(trigLog')
      /\ \A n \in 1 .. Len(trigLog) : trigLog'[n] = trigLog[n]
      /\ HumansCause'
  <2>1. CASE trigLog' = trigLog
    BY <1>1, <2>1 DEF HumansCause
  <2>2. CASE \E e \in Records : (~e.ai => e.id \in HumanIds) /\ trigLog' = Append(trigLog, e)
    <3>1. PICK e \in Records : (~e.ai => e.id \in HumanIds) /\ trigLog' = Append(trigLog, e)
      BY <2>2
    <3>2. /\ trigLog' \in Seq(Records)
          /\ Len(trigLog) \in Nat /\ Len(trigLog') = Len(trigLog) + 1
          /\ \A n \in 1 .. Len(trigLog) : trigLog'[n] = trigLog[n]
          /\ trigLog'[Len(trigLog) + 1] = e
      BY <1>1, <3>1
    <3>3. HumansCause'
      BY <3>1, <3>2 DEF HumansCause
    <3> QED
      BY <3>2, <3>3
  <2> QED
    BY <2>1, <2>2 DEF TopicMoves
<1>3. TopicTypes'
  BY <1>1, <1>2 DEF TopicTypes, TopicMoves
<1>4. hCur < Len(trigLog) => NextEvent' = NextEvent
  BY <1>1, <1>2, SMTT(20) DEF NextEvent, TopicTypes
<1>5. SchedSound'
  BY <1>1, <1>2, <1>4 DEF SchedSound, TopicTypes
<1>6. ASSUME sched.at \in Claiming
      PROVE  Key' = Key
  <2>1. PICK a \in sched.todo : sched.agent = {a}
    BY <1>6 DEF SchedSound
  <2>2. NextEvent' = NextEvent
    BY <1>4, <1>6 DEF SchedSound, Idle, Claiming
  <2>3. Key = RequestID(NextEvent, a)
    BY <2>1, KeyIs
  <2>4. Key' = RequestID(NextEvent', a)
    BY <1>1, <2>1, KeyIsNext
  <2> QED
    BY <2>2, <2>3, <2>4
<1> QED
  BY <1>2, <1>3, <1>5, <1>6

(* People, administrators, the persist consumer and groups-rpc. *)
LEMMA WorldKeeps ==
    ASSUME HostingInv, TopicMoves, UNCHANGED <<ledger, runs, chatLog, runCount>>
    PROVE  HostingInv'
<1>1. /\ TopicTypes' /\ HumansCause' /\ SchedSound'
      /\ sched.at \in Claiming => Key' = Key
  BY TopicKept DEF HostingInv
<1>2. LedgerTypes'
  BY DEF HostingInv, LedgerTypes
<1>3. OneRunPerTrigger' /\ OneMessagePerTrigger' /\ SuccessIsWritten' /\ SucceededIsWritten'
  BY DEF HostingInv, OneRunPerTrigger, OneMessagePerTrigger, SuccessIsWritten, SucceededIsWritten, Status
<1>4. ClaimIsHeld'
  BY <1>1 DEF HostingInv, ClaimIsHeld, Status, TopicMoves, consumerVars, Claiming
<1> QED
  BY <1>1, <1>2, <1>3, <1>4 DEF HostingInv

LEMMA EventTyped ==
    ASSUME NEW m \in HumanMsgs, NEW kind \in {"send", "replay"}, NEW visible \in SUBSET Accounts
    PROVE  /\ Event(<<kind, m>>, m, visible) \in Records
           /\ Event(<<kind, m>>, m, visible).id \in HumanIds
BY HostingConstants DEF Event, Records, HumanIds

LEMMA WorldMoves ==
    ASSUME HostingInv,
           \/ \E m \in HumanMsgs : SendHuman(m) \/ AdminReplay(m) \/ PersistRow(m)
           \/ \E c \in Chats, u \in Accounts, on \in BOOLEAN : UpdateHosting(c, u, on)
           \/ \E g \in Rooms, u \in Accounts : RemoveMember(g, u)
    PROVE  HostingInv'
<1>1. TopicTypes
  BY DEF HostingInv
<1>2. /\ enabled \in [Chats -> SUBSET Accounts] /\ roster \in [Rooms -> SUBSET Accounts]
      /\ archived \subseteq HumanMsgs
      /\ hFaults \in 0 .. MaxHostingFaults
  BY <1>1 DEF TopicTypes
<1>3. ASSUME NEW m \in HumanMsgs, SendHuman(m)
      PROVE  HostingInv'
  <2> DEFINE visible == IF ChatOf[m] \in Rooms THEN roster[ChatOf[m]] ELSE Participants[ChatOf[m]]
             e == Event(<<"send", m>>, m, visible)
  <2>1. visible \in SUBSET Accounts
    BY <1>2, HostingConstants
  <2>2. trigLog' = Append(trigLog, e)
    BY <1>3 DEF SendHuman
  <2> HIDE DEF visible
  <2>3. e \in Records /\ e.id \in HumanIds
    BY <2>1, EventTyped
  <2> HIDE DEF e
  <2>4. TopicMoves
    BY <1>2, <1>3, <2>2, <2>3 DEF TopicMoves, SendHuman, settingVars
  <2> QED
    BY <1>3, <2>4, WorldKeeps DEF SendHuman
<1>4. ASSUME NEW m \in HumanMsgs, AdminReplay(m)
      PROVE  HostingInv'
  <2> DEFINE e == Event(<<"replay", m>>, m, Participants[ChatOf[m]])
  <2>1. Participants[ChatOf[m]] \in SUBSET Accounts
    BY HostingConstants
  <2>2. trigLog' = Append(trigLog, e)
    BY <1>4 DEF AdminReplay
  <2>3. e \in Records /\ e.id \in HumanIds
    BY <2>1, EventTyped
  <2> HIDE DEF e
  <2>4. TopicMoves
    BY <1>2, <1>4, <2>2, <2>3 DEF TopicMoves, AdminReplay, settingVars
  <2> QED
    BY <1>4, <2>4, WorldKeeps DEF AdminReplay
<1>5. ASSUME NEW m \in HumanMsgs, PersistRow(m)
      PROVE  HostingInv'
  <2>1. TopicMoves
    BY <1>2, <1>5 DEF TopicMoves, PersistRow
  <2> QED
    BY <1>5, <2>1, WorldKeeps DEF PersistRow
<1>6. ASSUME NEW c \in Chats, NEW u \in Accounts, NEW on \in BOOLEAN, UpdateHosting(c, u, on)
      PROVE  HostingInv'
  <2>1. TopicMoves
    BY <1>2, <1>6 DEF TopicMoves, UpdateHosting
  <2> QED
    BY <1>6, <2>1, WorldKeeps DEF UpdateHosting
<1>7. ASSUME NEW g \in Rooms, NEW u \in Accounts, RemoveMember(g, u)
      PROVE  HostingInv'
  <2>1. TopicMoves
    BY <1>2, <1>7 DEF TopicMoves, RemoveMember
  <2> QED
    BY <1>7, <2>1, WorldKeeps DEF RemoveMember
<1> QED
  BY <1>3, <1>4, <1>5, <1>6, <1>7

(* The consumer moves and the ledger stays. *)
LEMMA ConsumerKeeps ==
    ASSUME HostingInv, TopicTypes', HumansCause', SchedSound', (sched.at)' \notin {"mark", "refuse"},
           UNCHANGED <<ledger, runs, chatLog, runCount>>
    PROVE  HostingInv'
BY DEF HostingInv, LedgerTypes, OneRunPerTrigger, OneMessagePerTrigger, SuccessIsWritten, SucceededIsWritten,
       Status, ClaimIsHeld

(* The triggers of an event are accounts, and an agent's message has none. *)
LEMMA EvaluateTyped ==
    ASSUME TopicTypes, NEW e \in Records
    PROVE  Evaluate(e) \subseteq Accounts /\ (Evaluate(e) # {} => ~e.ai)
<1>1. Inbox(e) \subseteq Accounts
  BY HostingConstants DEF Inbox
<1>2. Hosts(e) \subseteq Accounts
  BY DEF Hosts, TopicTypes
<1> QED
  BY <1>1, <1>2 DEF Evaluate

(* Judge.Evaluate, its failure, the check of the members and the commit. *)
LEMMA JudgeKeeps ==
    ASSUME HostingInv, JudgeEvent \/ JudgeFails \/ Authorize \/ CommitTriggers
    PROVE  HostingInv'
<1>1. TopicTypes /\ HumansCause /\ SchedSound
  BY DEF HostingInv
<1>2. /\ hCur \in Nat /\ hCommitted \in Nat /\ Len(trigLog) \in Nat
      /\ hCommitted <= hCur /\ hCur <= Len(trigLog)
      /\ trigLog \in Seq(Records)
  BY <1>1 DEF TopicTypes
<1>3. Idle \in Scheds /\ Idle.at = "judge" /\ Idle.agent = {}
  BY DEF Idle, Scheds
<1>4. CASE JudgeEvent
  <2> DEFINE todo == Evaluate(NextEvent)
             s == [Idle EXCEPT !.todo = todo, !.at = "next"]
  <2>1. hCur < Len(trigLog) /\ sched = Idle
    BY <1>4 DEF JudgeEvent
  <2>2. NextEvent \in Records
    BY <1>2, <2>1 DEF NextEvent
  <2>3. todo \subseteq Accounts /\ (todo # {} => ~NextEvent.ai)
    BY <1>1, <2>2, EvaluateTyped
  <2>4. IF todo = {} THEN hCur' = hCur + 1 /\ UNCHANGED sched ELSE sched' = s /\ UNCHANGED hCur
    BY <1>4 DEF JudgeEvent
  <2>5. UNCHANGED <<trigLog, hCommitted, settingVars, ledger, runs, chatLog, runCount, hFaults>>
    BY <1>4 DEF JudgeEvent
  <2> HIDE DEF todo
  <2>6. s \in Scheds /\ s.at = "next" /\ s.agent = {}
    BY <2>3 DEF Idle, Scheds
  <2> HIDE DEF s
  <2>7. TopicTypes' /\ HumansCause'
    BY <1>1, <1>2, <2>1, <2>4, <2>5 DEF TopicTypes, HumansCause, settingVars
  <2>8. SchedSound' /\ (sched.at)' \notin {"mark", "refuse"}
    <3>1. CASE todo = {}
      BY <1>3, <2>1, <2>4, <3>1 DEF SchedSound, Claiming
    <3>2. CASE todo # {}
      <4>1. UNCHANGED <<trigLog, hCur>> /\ sched' = s
        BY <2>4, <2>5, <3>2
      <4>2. NextEvent' = NextEvent
        BY <4>1 DEF NextEvent
      <4> QED
        BY <2>1, <2>3, <2>6, <3>2, <4>1, <4>2 DEF SchedSound, Claiming
    <3> QED
      BY <3>1, <3>2
  <2> QED
    BY <2>5, <2>7, <2>8, ConsumerKeeps
<1>5. CASE JudgeFails
  <2>1. TopicTypes' /\ HumansCause'
    BY <1>1, <1>2, <1>5, HostingConstants DEF TopicTypes, HumansCause, settingVars, JudgeFails, HFault
  <2>2. SchedSound' /\ (sched.at)' \notin {"mark", "refuse"}
    BY <1>3, <1>5 DEF SchedSound, Claiming, JudgeFails
  <2> QED
    BY <1>5, <2>1, <2>2, ConsumerKeeps DEF JudgeFails
<1>6. CASE Authorize
  <2>1. PICK a \in sched.todo : \E at \in {"claim", "claimRejected"} :
            sched' = [sched EXCEPT !.agent = {a}, !.at = at]
    BY <1>6 DEF Authorize
  <2>2. PICK at \in {"claim", "claimRejected"} : sched' = [sched EXCEPT !.agent = {a}, !.at = at]
    BY <2>1
  <2>3. sched \in Scheds /\ a \in Accounts
    BY <1>1 DEF SchedSound, Scheds
  <2>4. /\ sched' \in Scheds
        /\ sched'.at = at /\ sched'.agent = {a} /\ sched'.todo = sched.todo
    BY <2>2, <2>3 DEF Scheds
  <2>5. hCur < Len(trigLog) /\ ~NextEvent.ai
    <3>1. sched.at = "next"
      BY <1>6 DEF Authorize
    <3> QED
      BY <1>1, <3>1 DEF SchedSound, Idle
  <2>6. UNCHANGED <<trigLog, hCommitted, hCur, settingVars, ledger, runs, chatLog, runCount>>
    BY <1>6 DEF Authorize
  <2>7. hFaults' \in 0 .. MaxHostingFaults
    <3>1. UNCHANGED hFaults \/ HFault
      BY <1>6 DEF Authorize
    <3> QED
      BY <1>1, <3>1, HostingConstants DEF HFault, TopicTypes
  <2>8. TopicTypes' /\ HumansCause'
    BY <1>1, <2>6, <2>7 DEF TopicTypes, HumansCause, settingVars
  <2>9. NextEvent' = NextEvent
    BY <2>6 DEF NextEvent
  <2>10. SchedSound' /\ (sched.at)' \notin {"mark", "refuse"}
    BY <2>4, <2>5, <2>6, <2>9 DEF SchedSound, Claiming
  <2> QED
    BY <2>6, <2>8, <2>10, ConsumerKeeps
<1>7. CASE CommitTriggers
  <2>1. TopicTypes' /\ HumansCause'
    BY <1>1, <1>2, <1>7 DEF TopicTypes, HumansCause, settingVars, CommitTriggers
  <2>2. SchedSound' /\ (sched.at)' \notin {"mark", "refuse"}
    BY <1>3, <1>7 DEF SchedSound, Claiming, CommitTriggers
  <2> QED
    BY <1>7, <2>1, <2>2, ConsumerKeeps DEF CommitTriggers
<1> QED
  BY <1>4, <1>5, <1>6, <1>7

(* The loop over the triggers of a record goes on, or the record is done. *)
LEMMA DoneKeeps ==
    ASSUME TopicTypes, HumansCause, SchedSound, sched.at \in Claiming, TriggerDone,
           UNCHANGED <<trigLog, hCommitted, settingVars>>, hFaults' \in 0 .. MaxHostingFaults
    PROVE  /\ TopicTypes' /\ HumansCause' /\ SchedSound'
           /\ (sched.at)' \notin {"mark", "refuse"}
<1>1. /\ hCur \in Nat /\ hCommitted \in Nat /\ Len(trigLog) \in Nat
      /\ hCommitted <= hCur /\ hCur < Len(trigLog) /\ ~NextEvent.ai
  BY DEF TopicTypes, SchedSound, Idle, Claiming
<1> DEFINE rest == sched.todo \ sched.agent
           s == [Idle EXCEPT !.todo = rest, !.at = "next"]
<1>2. IF rest = {} THEN sched' = Idle /\ hCur' = hCur + 1 ELSE sched' = s /\ UNCHANGED hCur
  BY DEF TriggerDone
<1>3. rest \subseteq Accounts
  BY DEF SchedSound, Scheds
<1> HIDE DEF rest
<1>4. s \in Scheds /\ s.at = "next" /\ s.agent = {}
  BY <1>3 DEF Idle, Scheds
<1>5. Idle \in Scheds /\ Idle.at = "judge" /\ Idle.agent = {}
  BY DEF Idle, Scheds
<1> HIDE DEF s
<1>6. TopicTypes' /\ HumansCause'
  BY <1>1, <1>2 DEF TopicTypes, HumansCause, settingVars
<1>7. hCur' = hCur => NextEvent' = NextEvent
  BY DEF NextEvent
<1>8. SchedSound' /\ (sched.at)' \notin {"mark", "refuse"}
  <2>1. CASE rest = {}
    BY <1>2, <1>5, <2>1 DEF SchedSound, Claiming
  <2>2. CASE rest # {}
    BY <1>1, <1>2, <1>4, <1>7, <2>2 DEF SchedSound, Claiming
  <2> QED
    BY <2>1, <2>2
<1> QED
  BY <1>6, <1>8

(* What a statement on a row of the ledger does. *)
LEMMA StatusAfter ==
    ASSUME NEW k, NEW s, ledger' = SetStatus(k, s)
    PROVE  /\ DOMAIN ledger' = DOMAIN ledger \cup {k}
           /\ \A x : Status(x)' = IF x = k THEN s ELSE Status(x)
BY DEF SetStatus, Status

(* A row that no run and no claim stands for moves to another status. *)
LEMMA LedgerMoves ==
    ASSUME HostingInv, NEW k \in Keys, NEW s \in Statuses, ledger' = SetStatus(k, s),
           UNCHANGED chatLog,
           runs' \subseteq Runs, runCount' \in Nat, \A r \in runs' : r.n <= runCount',
           \A r \in runs' : r \in runs \/ (r.key = k /\ r.at # "succeed"),
           s = "succeeded" => \E x \in chatLog : x.key = k,
           \A r, q \in runs' : r.key = q.key => r = q,
           s # "running" => \A r \in runs' : r.key # k
    PROVE  LedgerTypes' /\ OneRunPerTrigger' /\ OneMessagePerTrigger' /\ SuccessIsWritten' /\ SucceededIsWritten'
<1>1. /\ DOMAIN ledger' = DOMAIN ledger \cup {k}
      /\ \A x : Status(x)' = IF x = k THEN s ELSE Status(x)
  BY StatusAfter
<1>2. \A x \in DOMAIN ledger' : ledger'[x] = Status(x)'
  BY DEF Status
<1>3. \A x \in DOMAIN ledger : ledger[x] = Status(x)
  BY DEF Status
<1>4. LedgerTypes'
  BY <1>1, <1>2, <1>3 DEF HostingInv, LedgerTypes
<1>5. OneRunPerTrigger'
  <2>1. \A r \in runs' : Status(r.key)' = "running"
    BY <1>1 DEF HostingInv, OneRunPerTrigger
  <2> QED
    BY <2>1 DEF OneRunPerTrigger
<1>6. OneMessagePerTrigger'
  BY DEF HostingInv, OneMessagePerTrigger
<1>7. SuccessIsWritten'
  BY DEF HostingInv, SuccessIsWritten
<1>8. SucceededIsWritten'
  BY <1>1, <1>2, <1>3 DEF HostingInv, SucceededIsWritten
<1> QED
  BY <1>4, <1>5, <1>6, <1>7, <1>8

(* TryStartAgentTrigger, the read marker, and the record of a refusal. *)
LEMMA TryStartKeeps ==
    ASSUME HostingInv, TryStart
    PROVE  HostingInv'
<1>1. TopicTypes /\ HumansCause /\ SchedSound
  BY DEF HostingInv
<1>2. /\ sched.at \in {"claim", "claimRejected"}
      /\ UNCHANGED <<trigLog, hCommitted, settingVars, runs, chatLog, runCount>>
  BY DEF TryStart
<1>3. sched.at \in Claiming
  BY <1>2 DEF Claiming
<1>4. PICK k \in Keys : k = Key
  BY <1>1, <1>3, KeyTyped
<1>5. CASE /\ Claimable(Key) /\ ledger' = SetStatus(Key, "running")
           /\ sched' = [sched EXCEPT !.at = IF @ = "claim" THEN "mark" ELSE "refuse"]
           /\ UNCHANGED <<hCur, hFaults>>
  <2>1. Status(k) # "running" /\ ledger' = SetStatus(k, "running")
    BY <1>4, <1>5 DEF Claimable
  <2>2. \A r \in runs : r.key # k
    BY <2>1 DEF HostingInv, OneRunPerTrigger
  <2>3. /\ runs \subseteq Runs /\ runCount \in Nat /\ \A r \in runs : r.n <= runCount
        /\ \A r, q \in runs : r.key = q.key => r = q
    BY DEF HostingInv, LedgerTypes, OneRunPerTrigger
  <2>4. "running" \in Statuses
    BY DEF Statuses
  <2>5. LedgerTypes' /\ OneRunPerTrigger' /\ OneMessagePerTrigger' /\ SuccessIsWritten' /\ SucceededIsWritten'
    BY <1>2, <2>1, <2>2, <2>3, <2>4, LedgerMoves
  <2>6. PICK a \in sched.todo : sched.agent = {a}
    BY <1>1, <1>3 DEF SchedSound
  <2>7. /\ sched' \in Scheds
        /\ sched'.todo = sched.todo /\ sched'.agent = sched.agent
        /\ sched'.at \in {"mark", "refuse"}
    BY <1>1, <1>2, <1>5 DEF SchedSound, Scheds
  <2>8. TopicTypes' /\ HumansCause' /\ NextEvent' = NextEvent
    BY <1>1, <1>2, <1>5 DEF TopicTypes, HumansCause, NextEvent, settingVars
  <2>9. hCur < Len(trigLog) /\ ~NextEvent.ai
    BY <1>1, <1>3 DEF SchedSound, Idle, Claiming
  <2>10. SchedSound'
    BY <1>2, <1>5, <2>6, <2>7, <2>8, <2>9 DEF SchedSound
  <2>11. Key' = k
    <3>1. Key = RequestID(NextEvent, a)
      BY <2>6, KeyIs
    <3>2. Key' = RequestID(NextEvent', a)
      BY <2>6, <2>7, KeyIsNext
    <3> QED
      BY <1>4, <2>8, <3>1, <3>2
  <2>12. Status(k)' = "running"
    BY <2>1, StatusAfter
  <2>13. ClaimIsHeld'
    BY <1>2, <2>2, <2>11, <2>12 DEF ClaimIsHeld, Status
  <2> QED
    BY <2>5, <2>8, <2>10, <2>13 DEF HostingInv
<1>6. CASE TriggerDone /\ (UNCHANGED hFaults \/ HFault) /\ UNCHANGED ledger
  <2>1. hFaults' \in 0 .. MaxHostingFaults
    BY <1>1, <1>6, HostingConstants DEF HFault, TopicTypes
  <2>2. TopicTypes' /\ HumansCause' /\ SchedSound' /\ (sched.at)' \notin {"mark", "refuse"}
    BY <1>1, <1>2, <1>3, <1>6, <2>1, DoneKeeps
  <2> QED
    BY <1>2, <1>6, <2>2, ConsumerKeeps
<1> QED
  BY <1>5, <1>6 DEF TryStart

LEMMA MarkKeeps ==
    ASSUME HostingInv, MarkTriggerRead
    PROVE  HostingInv'
<1>1. TopicTypes /\ HumansCause /\ SchedSound /\ ClaimIsHeld /\ LedgerTypes
  BY DEF HostingInv
<1>2. /\ sched.at = "mark"
      /\ UNCHANGED <<trigLog, hCommitted, settingVars, ledger, chatLog>>
  BY DEF MarkTriggerRead
<1>3. sched.at \in Claiming
  BY <1>2 DEF Claiming
<1>4. PICK k \in Keys : k = Key
  BY <1>1, <1>3, KeyTyped
<1>5. Status(k) = "running" /\ \A r \in runs : r.key # k
  BY <1>1, <1>2, <1>4 DEF ClaimIsHeld
<1>6. CASE StartRun(Key) /\ TriggerDone /\ UNCHANGED hFaults
  <2> DEFINE new == [key |-> k, n |-> runCount + 1, at |-> "build"]
  <2>1. runs' = runs \cup {new} /\ runCount' = runCount + 1
    BY <1>4, <1>6 DEF StartRun
  <2>2. runs \subseteq Runs /\ runCount \in Nat /\ \A r \in runs : r.n <= runCount
    BY <1>1 DEF LedgerTypes
  <2>3. new \in Runs /\ new.key = k /\ new.n = runCount + 1 /\ new.at = "build"
    BY <2>2 DEF Runs, RunAts
  <2> HIDE DEF new
  <2>4. \A r \in runs : r.n \in Nat
    BY <2>2 DEF Runs
  <2>5. LedgerTypes'
    BY <1>1, <1>2, <2>1, <2>2, <2>3, <2>4 DEF LedgerTypes
  <2>6. OneRunPerTrigger'
    BY <1>2, <1>5, <2>1, <2>3 DEF HostingInv, OneRunPerTrigger, Status
  <2>7. OneMessagePerTrigger' /\ SucceededIsWritten'
    BY <1>2 DEF HostingInv, OneMessagePerTrigger, SucceededIsWritten
  <2>8. SuccessIsWritten'
    BY <1>2, <2>1, <2>3 DEF HostingInv, SuccessIsWritten
  <2>9. hFaults' \in 0 .. MaxHostingFaults
    BY <1>1, <1>6 DEF TopicTypes
  <2>10. TopicTypes' /\ HumansCause' /\ SchedSound' /\ (sched.at)' \notin {"mark", "refuse"}
    BY <1>1, <1>2, <1>3, <1>6, <2>9, DoneKeeps
  <2>11. ClaimIsHeld'
    BY <2>10 DEF ClaimIsHeld
  <2> QED
    BY <2>5, <2>6, <2>7, <2>8, <2>10, <2>11 DEF HostingInv
<1>7. CASE /\ UNCHANGED hFaults \/ HFault
           /\ sched' = [sched EXCEPT !.at = "refuse"]
           /\ UNCHANGED <<hCur, runs, runCount>>
  <2>1. hFaults' \in 0 .. MaxHostingFaults
    BY <1>1, <1>7, HostingConstants DEF HFault, TopicTypes
  <2>2. PICK a \in sched.todo : sched.agent = {a}
    BY <1>1, <1>3 DEF SchedSound
  <2>3. /\ sched' \in Scheds
        /\ sched'.todo = sched.todo /\ sched'.agent = sched.agent
        /\ sched'.at = "refuse"
    BY <1>1, <1>7 DEF SchedSound, Scheds
  <2>4. TopicTypes' /\ HumansCause' /\ NextEvent' = NextEvent
    BY <1>1, <1>2, <1>7, <2>1 DEF TopicTypes, HumansCause, NextEvent, settingVars
  <2>5. hCur < Len(trigLog) /\ ~NextEvent.ai
    BY <1>1, <1>3 DEF SchedSound, Idle, Claiming
  <2>6. SchedSound'
    BY <1>2, <1>7, <2>2, <2>3, <2>4, <2>5 DEF SchedSound
  <2>7. Key' = k
    <3>1. Key = RequestID(NextEvent, a)
      BY <2>2, KeyIs
    <3>2. Key' = RequestID(NextEvent', a)
      BY <2>2, <2>3, KeyIsNext
    <3> QED
      BY <1>4, <2>4, <3>1, <3>2
  <2>8. ClaimIsHeld'
    BY <1>2, <1>5, <1>7, <2>7 DEF ClaimIsHeld, Status
  <2>9. LedgerTypes' /\ OneRunPerTrigger' /\ OneMessagePerTrigger' /\ SuccessIsWritten' /\ SucceededIsWritten'
    BY <1>2, <1>7 DEF HostingInv, LedgerTypes, OneRunPerTrigger, OneMessagePerTrigger, SuccessIsWritten,
                      SucceededIsWritten, Status
  <2> QED
    BY <2>4, <2>6, <2>8, <2>9 DEF HostingInv
<1> QED
  BY <1>6, <1>7 DEF MarkTriggerRead

LEMMA RefuseKeeps ==
    ASSUME HostingInv, RefuseTrigger
    PROVE  HostingInv'
<1>1. TopicTypes /\ HumansCause /\ SchedSound /\ ClaimIsHeld /\ LedgerTypes
  BY DEF HostingInv
<1>2. /\ sched.at = "refuse" /\ TriggerDone
      /\ UNCHANGED <<trigLog, hCommitted, settingVars, runs, chatLog, runCount>>
      /\ UNCHANGED hFaults \/ HFault
      /\ ledger' = Finished(Key, "failed") \/ UNCHANGED ledger
  BY DEF RefuseTrigger
<1>3. sched.at \in Claiming
  BY <1>2 DEF Claiming
<1>4. PICK k \in Keys : k = Key
  BY <1>1, <1>3, KeyTyped
<1>5. Status(k) = "running" /\ \A r \in runs : r.key # k
  BY <1>1, <1>2, <1>4 DEF ClaimIsHeld
<1>6. hFaults' \in 0 .. MaxHostingFaults
  BY <1>1, <1>2, HostingConstants DEF HFault, TopicTypes
<1>7. TopicTypes' /\ HumansCause' /\ SchedSound' /\ (sched.at)' \notin {"mark", "refuse"}
  BY <1>1, <1>2, <1>3, <1>6, DoneKeeps
<1>8. CASE UNCHANGED ledger
  BY <1>2, <1>7, <1>8, ConsumerKeeps
<1>9. CASE ledger' = Finished(Key, "failed")
  <2>1. ledger' = SetStatus(k, "failed")
    BY <1>4, <1>5, <1>9 DEF Finished
  <2>2. /\ runs \subseteq Runs /\ runCount \in Nat /\ \A r \in runs : r.n <= runCount
        /\ \A r, q \in runs : r.key = q.key => r = q
        /\ "failed" \in Statuses
    BY DEF HostingInv, LedgerTypes, OneRunPerTrigger, Statuses
  <2>3. LedgerTypes' /\ OneRunPerTrigger' /\ OneMessagePerTrigger' /\ SuccessIsWritten' /\ SucceededIsWritten'
    BY <1>2, <1>5, <2>1, <2>2, LedgerMoves
  <2>4. ClaimIsHeld'
    BY <1>7 DEF ClaimIsHeld
  <2> QED
    BY <1>7, <2>3, <2>4 DEF HostingInv
<1> QED
  BY <1>2, <1>8, <1>9

(* A run may have put its message into the chat, unless one is there. *)
Sent ==
    /\ chatLog \subseteq chatLog' /\ chatLog' \subseteq Replies
    /\ \A x \in chatLog' : x.cid = [key |-> x.key, run |-> 0]
    /\ \A x, y \in chatLog' : x.key = y.key => x = y
    /\ \/ trigLog' = trigLog
       \/ \E e \in Records : (~e.ai => e.id \in HumanIds) /\ trigLog' = Append(trigLog, e)

LEMMA NothingSent == ASSUME HostingInv, UNCHANGED <<trigLog, chatLog>> PROVE Sent
BY DEF Sent, HostingInv, LedgerTypes, OneMessagePerTrigger

LEMMA PublishSends ==
    ASSUME HostingInv, NEW r \in runs, Publish(r)
    PROVE  Sent /\ \E x \in chatLog' : x.key = r.key
<1>1. LedgerTypes /\ OneMessagePerTrigger
  BY DEF HostingInv
<1>2. r.key \in Keys /\ r.at \in RunAts
  BY <1>1 DEF LedgerTypes, Runs
<1> DEFINE cid == ClientMsgID(r)
           x == [cid |-> cid, key |-> r.key, kind |-> r.at]
           echo == [id |-> <<"agent", cid>>, msg |-> r.key.msg, chat |-> r.key.chat,
                    author |-> r.key.agent, ai |-> TRUE, at |-> {}, visible |-> Participants[r.key.chat]]
<1>3. cid = [key |-> r.key, run |-> 0] /\ cid \in Cids /\ cid.key = r.key
  BY <1>2 DEF ClientMsgID, Cids
<1>4. IF \E y \in chatLog : y.cid = cid
      THEN UNCHANGED <<trigLog, chatLog>>
      ELSE chatLog' = chatLog \cup {x} /\ trigLog' = Append(trigLog, echo)
  BY DEF Publish
<1> HIDE DEF cid
<1>5. x \in Replies /\ x.cid = cid /\ x.key = r.key
  BY <1>2, <1>3 DEF Replies
<1>6. echo \in Records /\ echo.ai = TRUE
  <2>1. /\ r.key.msg \in HumanMsgs /\ r.key.chat \in Chats \cup Rooms /\ r.key.agent \in Accounts
        /\ Participants[r.key.chat] \subseteq Accounts
    BY <1>2, HostingConstants DEF Keys
  <2> QED
    BY <1>3, <2>1 DEF Records
<1> HIDE DEF x, echo
<1>7. \A y \in chatLog : y.cid = [key |-> y.key, run |-> 0]
  BY <1>1 DEF LedgerTypes
<1>8. CASE \E y \in chatLog : y.cid = cid
  <2>1. UNCHANGED <<trigLog, chatLog>>
    BY <1>4, <1>8
  <2>2. PICK y \in chatLog : y.cid = cid
    BY <1>8
  <2>3. y.key = r.key
    <3>1. [key |-> y.key, run |-> 0].key = [key |-> r.key, run |-> 0].key
      BY <1>3, <1>7, <2>2
    <3> QED
      BY <3>1
  <2> QED
    BY <2>1, <2>3, NothingSent
<1>9. CASE ~\E y \in chatLog : y.cid = cid
  <2>1. chatLog' = chatLog \cup {x} /\ trigLog' = Append(trigLog, echo)
    BY <1>4, <1>9
  <2>2. \A y \in chatLog : y.key # r.key
    BY <1>3, <1>7, <1>9
  <2>3. \A y, z \in chatLog' : y.key = z.key => y = z
    BY <1>1, <1>5, <2>1, <2>2 DEF OneMessagePerTrigger
  <2>4. chatLog' \subseteq Replies /\ \A y \in chatLog' : y.cid = [key |-> y.key, run |-> 0]
    BY <1>1, <1>3, <1>5, <1>7, <2>1 DEF LedgerTypes
  <2> QED
    BY <1>5, <1>6, <2>1, <2>3, <2>4 DEF Sent
<1> QED
  BY <1>8, <1>9

(* A run takes a step, or ends without touching the ledger. *)
LEMMA RunMoves ==
    ASSUME HostingInv, NEW r \in runs, NEW at \in RunAts,
           Step(r, at) \/ runs' = runs \ {r},
           Sent, at = "succeed" => \E x \in chatLog' : x.key = r.key,
           UNCHANGED <<consumerVars, settingVars, runCount, ledger>>,
           UNCHANGED hFaults \/ HFault
    PROVE  HostingInv'
<1>1. TopicTypes /\ HumansCause /\ SchedSound /\ LedgerTypes
  BY DEF HostingInv
<1>2. TopicMoves
  BY <1>1, HostingConstants DEF TopicMoves, Sent, TopicTypes, settingVars, HFault
<1>3. /\ TopicTypes' /\ HumansCause' /\ SchedSound'
      /\ sched.at \in Claiming => Key' = Key
  BY <1>1, <1>2, TopicKept
<1> DEFINE q == [r EXCEPT !.at = at]
<1>4. q \in Runs /\ q.key = r.key /\ q.n = r.n /\ q.at = at
  BY <1>1 DEF LedgerTypes, Runs
<1>5. runs' = (runs \ {r}) \cup {q} \/ runs' = runs \ {r}
  BY DEF Step
<1> HIDE DEF q
<1>6. LedgerTypes'
  BY <1>1, <1>4, <1>5 DEF LedgerTypes, Sent
<1>7. OneRunPerTrigger'
  BY <1>4, <1>5 DEF HostingInv, OneRunPerTrigger, Status
<1>8. OneMessagePerTrigger'
  BY DEF Sent, OneMessagePerTrigger
<1>9. SuccessIsWritten'
  BY <1>4, <1>5 DEF HostingInv, SuccessIsWritten, Sent
<1>10. SucceededIsWritten'
  BY DEF HostingInv, SucceededIsWritten, Sent
<1>11. ClaimIsHeld'
  BY <1>3, <1>4, <1>5 DEF HostingInv, ClaimIsHeld, Status, consumerVars, Claiming
<1> QED
  BY <1>3, <1>6, <1>7, <1>8, <1>9, <1>10, <1>11 DEF HostingInv

(* The ledger changes beside the consumer. *)
LEMMA LedgerKeeps ==
    ASSUME HostingInv, NEW k \in Keys, NEW s \in Statuses, ledger' = SetStatus(k, s),
           runs' \subseteq runs, UNCHANGED <<trigLog, consumerVars, settingVars, runCount, chatLog>>,
           UNCHANGED hFaults \/ HFault, s # "running",
           s = "succeeded" => \E x \in chatLog : x.key = k,
           \A r \in runs' : r.key # k,
           sched.at \in {"mark", "refuse"} => Key # k
    PROVE  HostingInv'
<1>1. TopicTypes /\ HumansCause /\ SchedSound /\ LedgerTypes /\ ClaimIsHeld
  BY DEF HostingInv
<1>2. TopicMoves
  BY <1>1, HostingConstants DEF TopicMoves, TopicTypes, settingVars, HFault
<1>3. /\ TopicTypes' /\ HumansCause' /\ SchedSound'
      /\ sched.at \in Claiming => Key' = Key
  BY <1>1, <1>2, TopicKept
<1>4. /\ runs' \subseteq Runs /\ runCount' \in Nat /\ \A r \in runs' : r.n <= runCount'
      /\ \A r, q \in runs' : r.key = q.key => r = q
  BY DEF HostingInv, LedgerTypes, OneRunPerTrigger
<1>5. LedgerTypes' /\ OneRunPerTrigger' /\ OneMessagePerTrigger' /\ SuccessIsWritten' /\ SucceededIsWritten'
  BY <1>4, LedgerMoves
<1>6. ClaimIsHeld'
  <2>1. ASSUME (sched.at)' \in {"mark", "refuse"}
        PROVE  Status(Key)' = "running" /\ \A r \in runs' : r.key # Key'
    <3>1. sched.at \in {"mark", "refuse"}
      BY <2>1 DEF consumerVars
    <3>2. Key' = Key
      BY <1>3, <3>1 DEF Claiming
    <3>3. PICK j : j = Key
      OBVIOUS
    <3>4. j # k /\ Status(j) = "running" /\ \A r \in runs : r.key # j
      BY <1>1, <3>1, <3>3 DEF ClaimIsHeld
    <3>5. Status(j)' = "running"
      BY <3>4, StatusAfter
    <3> QED
      BY <3>2, <3>3, <3>4, <3>5 DEF Status
  <2> QED
    BY <2>1 DEF ClaimIsHeld
<1> QED
  BY <1>3, <1>5, <1>6 DEF HostingInv

(* AgentRunOrchestrator.Run, step by step. *)
LEMMA RunKeeps ==
    ASSUME HostingInv, NEW r \in runs, RunStep(r) \/ RunTimesOut(r)
    PROVE  HostingInv'
<1>1. r.key \in Keys /\ LedgerTypes
  BY DEF HostingInv, LedgerTypes, Runs
<1> USE DEF RunAts
<1>2. CASE BuildRuntimeRequest(r) \/ RuntimeRun(r) \/ RecordAgentRun(r)
  <2>1. /\ UNCHANGED <<trigLog, consumerVars, settingVars, runCount, ledger, chatLog>>
        /\ UNCHANGED hFaults \/ HFault
        /\ \E at \in RunAts \ {"succeed"} : Step(r, at)
    BY <1>2 DEF BuildRuntimeRequest, RuntimeRun, RecordAgentRun, StepOrFail, runOnly
  <2>2. Sent
    BY <2>1, NothingSent
  <2> QED
    BY <2>1, <2>2, RunMoves
<1>3. CASE WriteAgentResponse(r)
  <2>1. UNCHANGED <<consumerVars, settingVars, runCount, ledger>>
    BY <1>3 DEF WriteAgentResponse
  <2>2. CASE Publish(r) /\ Step(r, "succeed") /\ UNCHANGED hFaults
    BY <2>1, <2>2, PublishSends, RunMoves
  <2>3. CASE HFault /\ Step(r, "fail") /\ (Publish(r) \/ UNCHANGED <<trigLog, chatLog>>)
    BY <2>1, <2>3, PublishSends, NothingSent, RunMoves
  <2> QED
    BY <1>3, <2>2, <2>3 DEF WriteAgentResponse
<1>4. CASE NotifyRunFailure(r)
  <2>1. /\ UNCHANGED <<consumerVars, settingVars, runCount, ledger>> /\ Step(r, "fail")
        /\ UNCHANGED hFaults \/ HFault
        /\ Publish(r) \/ UNCHANGED <<trigLog, chatLog>>
    BY <1>4 DEF NotifyRunFailure
  <2> QED
    BY <2>1, PublishSends, NothingSent, RunMoves
<1>5. CASE RunTimesOut(r)
  <2>1. /\ UNCHANGED <<consumerVars, settingVars, runCount, ledger>> /\ runs' = runs \ {r} /\ HFault
        /\ Publish(r) \/ UNCHANGED <<trigLog, chatLog>>
    BY <1>5 DEF RunTimesOut
  <2>2. Sent
    BY <2>1, PublishSends, NothingSent
  <2>3. "fail" \in RunAts
    OBVIOUS
  <2> QED
    BY <2>1, <2>2, <2>3, RunMoves
<1>6. CASE FinishRun(r)
  <2>1. /\ UNCHANGED <<trigLog, consumerVars, settingVars, runCount, chatLog>>
        /\ runs' = runs \ {r} /\ r.at \in {"succeed", "fail"}
        /\ UNCHANGED hFaults \/ HFault
    BY <1>6 DEF FinishRun, runOnly
  <2>2. CASE UNCHANGED ledger
    <3>1. Sent /\ "fail" \in RunAts
      BY <2>1, NothingSent
    <3> QED
      BY <2>1, <2>2, <3>1, RunMoves
  <2>3. CASE ledger' = Finished(r.key, IF r.at = "succeed" THEN "succeeded" ELSE "failed")
    <3>1. PICK s \in Statuses : s = IF r.at = "succeed" THEN "succeeded" ELSE "failed"
      BY DEF Statuses
    <3>2. Status(r.key) = "running"
      BY DEF HostingInv, OneRunPerTrigger
    <3>3. ledger' = SetStatus(r.key, s)
      BY <2>3, <3>1, <3>2 DEF Finished
    <3>4. \A q \in runs' : q.key # r.key
      BY <2>1 DEF HostingInv, OneRunPerTrigger
    <3>5. s # "running" /\ (s = "succeeded" => \E x \in chatLog : x.key = r.key)
      BY <2>1, <3>1 DEF HostingInv, SuccessIsWritten
    <3>6. sched.at \in {"mark", "refuse"} => Key # r.key
      BY DEF HostingInv, ClaimIsHeld
    <3>7. runs' \subseteq runs
      BY <2>1
    <3> QED
      BY <1>1, <2>1, <3>3, <3>4, <3>5, <3>6, <3>7, LedgerKeeps
  <2> QED
    BY <1>6, <2>2, <2>3 DEF FinishRun
<1> QED
  BY <1>2, <1>3, <1>4, <1>5, <1>6 DEF RunStep

(* A row that was running for longer than its TTL. *)
LEMMA TTLKeeps ==
    ASSUME HostingInv, NEW k \in DOMAIN ledger, TTLExpires(k)
    PROVE  HostingInv'
<1>1. k \in Keys /\ "expired" \in Statuses
  BY DEF HostingInv, LedgerTypes, Statuses
<1>2. /\ ledger' = SetStatus(k, "expired") /\ \A r \in runs : r.key # k
      /\ UNCHANGED <<trigLog, consumerVars, settingVars, runCount, runs, chatLog, hFaults>>
      /\ ~(sched.agent # {} /\ Key = k)
  BY DEF TTLExpires, runOnly
<1>3. sched.at \in {"mark", "refuse"} => Key # k
  BY <1>2 DEF HostingInv, SchedSound, Claiming
<1> QED
  BY <1>1, <1>2, <1>3, LedgerKeeps

(* The agent service dies: the claims stay as they are. *)
LEMMA CrashHostingKeeps ==
    ASSUME HostingInv, CrashHosting
    PROVE  HostingInv'
<1>1. TopicTypes /\ HumansCause /\ SchedSound /\ LedgerTypes
  BY DEF HostingInv
<1>2. /\ hCur' = hCommitted /\ sched' = Idle /\ runs' = {} /\ HFault
      /\ UNCHANGED <<trigLog, hCommitted, settingVars, ledger, chatLog, runCount>>
  BY DEF CrashHosting
<1>3. Idle \in Scheds /\ Idle.at = "judge" /\ Idle.agent = {}
  BY DEF Idle, Scheds
<1>4. TopicTypes' /\ HumansCause'
  BY <1>1, <1>2, HostingConstants DEF TopicTypes, HumansCause, settingVars, HFault
<1>5. SchedSound' /\ ClaimIsHeld'
  BY <1>2, <1>3 DEF SchedSound, ClaimIsHeld, Claiming
<1>6. LedgerTypes' /\ OneRunPerTrigger' /\ OneMessagePerTrigger' /\ SuccessIsWritten' /\ SucceededIsWritten'
  BY <1>2 DEF HostingInv, LedgerTypes, OneRunPerTrigger, OneMessagePerTrigger, SuccessIsWritten,
              SucceededIsWritten
<1> QED
  BY <1>4, <1>5, <1>6 DEF HostingInv

LEMMA HostingStarts == HostingInit => HostingInv
<1> SUFFICES ASSUME HostingInit
             PROVE  HostingInv
  OBVIOUS
<1>1. Idle \in Scheds /\ Idle.at = "judge" /\ Idle.agent = {}
  BY DEF Idle, Scheds
<1>2. TopicTypes
  BY HostingConstants DEF HostingInit, TopicTypes
<1>3. HumansCause /\ SchedSound /\ ClaimIsHeld
  BY <1>1 DEF HostingInit, HumansCause, SchedSound, ClaimIsHeld, Claiming
<1>4. LedgerTypes /\ OneRunPerTrigger /\ OneMessagePerTrigger /\ SuccessIsWritten /\ SucceededIsWritten
  BY DEF HostingInit, LedgerTypes, OneRunPerTrigger, OneMessagePerTrigger, SuccessIsWritten, SucceededIsWritten
<1> QED
  BY <1>2, <1>3, <1>4 DEF HostingInv

LEMMA HostingStutters == ASSUME HostingInv, UNCHANGED hostingVars PROVE HostingInv'
<1>1. TopicMoves
  BY DEF HostingInv, TopicTypes, TopicMoves, hostingVars, consumerVars, settingVars
<1> QED
  BY <1>1, WorldKeeps DEF hostingVars

LEMMA HostingInductive == HostingInv /\ [HostingNext]_hostingVars => HostingInv'
<1> SUFFICES ASSUME HostingInv, [HostingNext]_hostingVars
             PROVE  HostingInv'
  OBVIOUS
<1>1. CASE \/ \E m \in HumanMsgs : SendHuman(m) \/ AdminReplay(m) \/ PersistRow(m)
           \/ \E c \in Chats, u \in Accounts, on \in BOOLEAN : UpdateHosting(c, u, on)
           \/ \E g \in Rooms, u \in Accounts : RemoveMember(g, u)
  BY <1>1, WorldMoves
<1>2. CASE JudgeEvent \/ JudgeFails \/ Authorize \/ CommitTriggers
  BY <1>2, JudgeKeeps
<1>3. CASE TryStart
  BY <1>3, TryStartKeeps
<1>4. CASE MarkTriggerRead
  BY <1>4, MarkKeeps
<1>5. CASE RefuseTrigger
  BY <1>5, RefuseKeeps
<1>6. CASE CrashHosting
  BY <1>6, CrashHostingKeeps
<1>7. CASE \E r \in runs : RunStep(r) \/ RunTimesOut(r)
  BY <1>7, RunKeeps
<1>8. CASE \E k \in DOMAIN ledger : TTLExpires(k)
  BY <1>8, TTLKeeps
<1>9. CASE UNCHANGED hostingVars
  BY <1>9, HostingStutters
<1> QED
  BY <1>1, <1>2, <1>3, <1>4, <1>5, <1>6, <1>7, <1>8, <1>9 DEF HostingNext, ConsumeTriggers

(* However often a record is replayed, its row fails, is reclaimed after    *)
(* the TTL or an administrator sends it again, a trigger has one run at a   *)
(* time and one message in the chat (TryStartAgentTrigger, the client       *)
(* message id of WriteAgentResponse).                                       *)
THEOREM TriggersRunOnce == HostingSpec => []OncePerTrigger
<1>1. HostingInv => OncePerTrigger
  BY DEF HostingInv, OncePerTrigger
<1> QED
  BY <1>1, HostingStarts, HostingInductive, PTL DEF HostingSpec

(* FinishAgentTrigger says succeeded of triggers whose message is in the    *)
(* chat only.                                                               *)
THEOREM SuccessIsTold == HostingSpec => []SucceededIsWritten
<1>1. HostingInv => SucceededIsWritten
  BY DEF HostingInv
<1> QED
  BY <1>1, HostingStarts, HostingInductive, PTL DEF HostingSpec

(* No agent's message is ever claimed as a trigger: the recursion gate of   *)
(* Judge.Evaluate holds while hosting moves between participants, records   *)
(* come again and agents write.                                             *)
THEOREM AgentsDoNotAnswerAgents == HostingSpec => []NoRecursion
<1>1. HostingInv => NoRecursion
  <2> SUFFICES ASSUME HostingInv, NEW k \in DOMAIN ledger
               PROVE  k.event[1] # "agent"
    BY DEF NoRecursion
  <2>1. k.event \in HumanIds
    BY DEF HostingInv, LedgerTypes, Keys
  <2> QED
    BY <2>1 DEF HumanIds
<1> QED
  BY <1>1, HostingStarts, HostingInductive, PTL DEF HostingSpec

(* Offsets, rows and runs stay in their ranges, and a record that is being  *)
(* scheduled is there.                                                      *)
THEOREM HostingTyped == HostingSpec => []HostingTypeOK
<1>1. HostingInv => HostingTypeOK
  BY TypesAreHostingTypeOK DEF HostingInv
<1> QED
  BY <1>1, HostingStarts, HostingInductive, PTL DEF HostingSpec

-----------------------------------------------------------------------------
(*                                  Sink                                   *)

Increasing(s) == \A i, j \in 1 .. Len(s) : i < j => s[i] < s[j]
Elements(s) == {s[i] : i \in 1 .. Len(s)}

(* Events are numbered, and wait, are exported and have been in that order. *)
SinkOrder ==
    /\ observed \in Nat /\ exporting \in 0 .. observed
    /\ queue \in Seq(Nat) /\ exported \in Seq(Nat)
    /\ Elements(queue) \cup Elements(exported) \subseteq 1 .. observed
    /\ Increasing(queue) /\ Increasing(exported)
    /\ \A e \in Elements(exported), q \in Elements(queue) : e < q
    /\ exporting # 0 => /\ \A e \in Elements(exported) : e < exporting
                        /\ \A q \in Elements(queue) : exporting < q

(* What the first Close was promised is on its way until the worker ends. *)
SinkPromise ==
    /\ worker \in {"run", "drain", "done"}
    /\ worker # "run" => closed = TRUE
    /\ promised \subseteq Elements(queue) \cup Elements(exported) \cup ({exporting} \ {0})
    /\ worker = "done" => promised \subseteq Elements(exported)
    /\ closedBy # {} => worker = "done"

SinkInv == SinkOrder /\ SinkPromise

LEMMA ElementsAreSet == ASSUME NEW S, NEW s \in Seq(S) PROVE ToSet(s) = Elements(s)
BY DEF ToSet, Elements

LEMMA ElementsOfAppend ==
    ASSUME NEW S, NEW s \in Seq(S), NEW e
    PROVE  Elements(Append(s, e)) = Elements(s) \cup {e}
<1> DEFINE t == Append(s, e)
<1>1. /\ Len(t) = Len(s) + 1 /\ Len(s) \in Nat
      /\ \A i \in 1 .. Len(s) : t[i] = s[i]
      /\ t[Len(s) + 1] = e
  OBVIOUS
<1> HIDE DEF t
<1>2. Elements(t) \subseteq Elements(s) \cup {e}
  BY <1>1 DEF Elements
<1>3. Elements(s) \cup {e} \subseteq Elements(t)
  <2>1. \A i \in 1 .. Len(s) : i \in 1 .. Len(t) /\ t[i] = s[i]
    BY <1>1
  <2>2. Len(s) + 1 \in 1 .. Len(t)
    BY <1>1
  <2> QED
    BY <1>1, <2>1, <2>2 DEF Elements
<1> QED
  BY <1>2, <1>3 DEF t

LEMMA ElementsOfTail ==
    ASSUME NEW S, NEW s \in Seq(S), s # <<>>
    PROVE  Elements(s) = {Head(s)} \cup Elements(Tail(s))
<1> DEFINE t == Tail(s)
<1>1. /\ Len(s) \in Nat /\ Len(s) # 0 /\ Len(t) = Len(s) - 1
      /\ \A i \in 1 .. Len(t) : t[i] = s[i + 1]
      /\ Head(s) = s[1]
  OBVIOUS
<1> HIDE DEF t
<1>2. Elements(s) \subseteq {Head(s)} \cup Elements(t)
  <2>1. ASSUME NEW i \in 1 .. Len(s), i # 1
        PROVE  i - 1 \in 1 .. Len(t) /\ t[i - 1] = s[i]
    BY <1>1, <2>1
  <2> QED
    BY <1>1, <2>1 DEF Elements
<1>3. {Head(s)} \cup Elements(t) \subseteq Elements(s)
  <2>1. \A i \in 1 .. Len(t) : i + 1 \in 1 .. Len(s) /\ t[i] = s[i + 1]
    BY <1>1
  <2>2. 1 \in 1 .. Len(s)
    BY <1>1
  <2> QED
    BY <1>1, <2>1, <2>2 DEF Elements
<1> QED
  BY <1>2, <1>3 DEF t

LEMMA IncreasingAppend ==
    ASSUME NEW S \in SUBSET Nat, NEW s \in Seq(S), NEW e \in Nat, Increasing(s), \A x \in Elements(s) : x < e
    PROVE  Increasing(Append(s, e))
<1> DEFINE t == Append(s, e)
<1>1. /\ Len(t) = Len(s) + 1 /\ Len(s) \in Nat
      /\ \A i \in 1 .. Len(s) : t[i] = s[i]
      /\ t[Len(s) + 1] = e
  OBVIOUS
<1> HIDE DEF t
<1> SUFFICES ASSUME NEW i \in 1 .. Len(t), NEW j \in 1 .. Len(t), i < j
             PROVE  t[i] < t[j]
  BY DEF Increasing, t
<1>2. i \in 1 .. Len(s)
  BY <1>1
<1>3. CASE j \in 1 .. Len(s)
  BY <1>1, <1>2, <1>3 DEF Increasing
<1>4. CASE j = Len(s) + 1
  BY <1>1, <1>2, <1>4 DEF Elements
<1> QED
  BY <1>1, <1>3, <1>4

LEMMA IncreasingTail ==
    ASSUME NEW S \in SUBSET Nat, NEW s \in Seq(S), s # <<>>, Increasing(s)
    PROVE  Increasing(Tail(s)) /\ \A x \in Elements(Tail(s)) : Head(s) < x
<1> DEFINE t == Tail(s)
<1>1. /\ Len(s) \in Nat /\ Len(s) # 0 /\ Len(t) = Len(s) - 1
      /\ \A i \in 1 .. Len(t) : t[i] = s[i + 1]
      /\ Head(s) = s[1]
  OBVIOUS
<1> HIDE DEF t
<1>2. Increasing(t)
  BY <1>1 DEF Increasing
<1>3. \A i \in 1 .. Len(t) : Head(s) < t[i]
  BY <1>1 DEF Increasing
<1> QED
  BY <1>2, <1>3 DEF Elements, t

LEMMA SinkStarts == SinkInit => SinkInv
<1>1. Elements(<<>>) = {} /\ Increasing(<<>>)
  BY DEF Elements, Increasing
<1> QED
  BY <1>1 DEF SinkInit, SinkInv, SinkOrder, SinkPromise

LEMMA ObserveKeeps == ASSUME SinkInv, Observe PROVE SinkInv'
<1>1. SinkOrder /\ SinkPromise
  BY DEF SinkInv
<1>2. /\ observed \in Nat /\ observed' = observed + 1
      /\ UNCHANGED <<exporting, exported, closed, worker, closedBy, promised>>
  BY <1>1 DEF SinkOrder, Observe
<1>3. CASE UNCHANGED queue
  BY <1>1, <1>2, <1>3 DEF SinkInv, SinkOrder, SinkPromise
<1>4. CASE queue' = Append(queue, observed')
  <2>1. queue \in Seq(Nat) /\ queue' \in Seq(Nat)
    BY <1>1, <1>2, <1>4 DEF SinkOrder
  <2>2. Elements(queue') = Elements(queue) \cup {observed + 1}
    BY <1>2, <1>4, <2>1, ElementsOfAppend
  <2>3. \A x \in Elements(queue) : x < observed + 1
    BY <1>1 DEF SinkOrder
  <2>4. Increasing(queue')
    <3>1. Nat \in SUBSET Nat /\ observed + 1 \in Nat /\ Increasing(queue)
      BY <1>1 DEF SinkOrder
    <3>2. Increasing(Append(queue, observed + 1))
      BY <2>1, <2>3, <3>1, IncreasingAppend
    <3> QED
      BY <1>2, <1>4, <3>2
  <2>5. SinkOrder'
    BY <1>1, <1>2, <2>1, <2>2, <2>4 DEF SinkOrder
  <2>6. SinkPromise'
    BY <1>1, <1>2, <2>2 DEF SinkPromise
  <2> QED
    BY <2>5, <2>6 DEF SinkInv
<1> QED
  BY <1>3, <1>4 DEF Observe

LEMMA ReceiveKeeps == ASSUME SinkInv, Receive PROVE SinkInv'
<1>1. SinkOrder /\ SinkPromise
  BY DEF SinkInv
<1>2. /\ worker # "done" /\ exporting = 0 /\ queue # <<>>
      /\ exporting' = Head(queue) /\ queue' = Tail(queue)
      /\ UNCHANGED <<observed, exported, closed, worker, closedBy, promised>>
  BY DEF Receive
<1>3. queue \in Seq(Nat) /\ queue' \in Seq(Nat) /\ Nat \in SUBSET Nat /\ Increasing(queue)
  BY <1>1, <1>2 DEF SinkOrder
<1>4. Elements(queue) = {exporting'} \cup Elements(queue')
  BY <1>2, <1>3, ElementsOfTail
<1>5. Increasing(queue') /\ \A x \in Elements(queue') : exporting' < x
  BY <1>2, <1>3, IncreasingTail
<1>6. SinkOrder'
  BY <1>1, <1>2, <1>3, <1>4, <1>5 DEF SinkOrder
<1>7. exporting' # 0
  <2>1. exporting' \in Elements(queue) /\ observed \in Nat /\ Elements(queue) \subseteq 1 .. observed
    BY <1>1, <1>4 DEF SinkOrder
  <2>2. exporting' \in 1 .. observed
    BY <2>1
  <2> QED
    BY <2>1, <2>2
<1>8. SinkPromise'
  BY <1>1, <1>2, <1>4, <1>7 DEF SinkPromise
<1> QED
  BY <1>6, <1>8 DEF SinkInv

LEMMA ExportKeeps == ASSUME SinkInv, Export PROVE SinkInv'
<1>1. SinkOrder /\ SinkPromise
  BY DEF SinkInv
<1>2. /\ exporting # 0 /\ exported' = Append(exported, exporting) /\ exporting' = 0
      /\ UNCHANGED <<observed, queue, closed, worker, closedBy, promised>>
  BY DEF Export
<1>3. /\ exported \in Seq(Nat) /\ exported' \in Seq(Nat) /\ Nat \in SUBSET Nat /\ Increasing(exported)
      /\ exporting \in Nat /\ exporting \in 1 .. observed
      /\ \A x \in Elements(exported) : x < exporting
  BY <1>1, <1>2 DEF SinkOrder
<1>4. Elements(exported') = Elements(exported) \cup {exporting}
  BY <1>2, <1>3, ElementsOfAppend
<1>5. Increasing(exported')
  BY <1>2, <1>3, IncreasingAppend
<1>6. SinkOrder'
  BY <1>1, <1>2, <1>3, <1>4, <1>5 DEF SinkOrder
<1>7. SinkPromise'
  BY <1>1, <1>2, <1>4 DEF SinkPromise
<1> QED
  BY <1>6, <1>7 DEF SinkInv

LEMMA SinkInductive == SinkInv /\ [SinkNext]_sinkVars => SinkInv'
<1> SUFFICES ASSUME SinkInv, [SinkNext]_sinkVars
             PROVE  SinkInv'
  OBVIOUS
<1>1. SinkOrder /\ SinkPromise
  BY DEF SinkInv
<1>2. Elements(<<>>) = {}
  BY DEF Elements
<1>3. CASE Observe
  BY <1>3, ObserveKeeps
<1>4. CASE Receive
  BY <1>4, ReceiveKeeps
<1>5. CASE Export
  BY <1>5, ExportKeeps
<1>6. CASE SeesDone
  BY <1>1, <1>6 DEF SeesDone, SinkInv, SinkOrder, SinkPromise
<1>7. CASE Drained
  BY <1>1, <1>2, <1>7 DEF Drained, SinkInv, SinkOrder, SinkPromise
<1>8. ASSUME NEW c \in Closers, Close(c)
      PROVE  SinkInv'
  <2>1. Accepted = Elements(queue) \cup Elements(exported) \cup ({exporting} \ {0})
    BY <1>1, ElementsAreSet DEF SinkOrder, Accepted
  <2>2. SinkOrder'
    BY <1>1, <1>8 DEF Close, SinkOrder
  <2>3. SinkPromise'
    BY <1>1, <1>8, <2>1 DEF Close, SinkPromise
  <2> QED
    BY <2>2, <2>3 DEF SinkInv
<1>9. ASSUME NEW c \in Closers, CloseReturns(c)
      PROVE  SinkInv'
  BY <1>1, <1>9 DEF CloseReturns, SinkInv, SinkOrder, SinkPromise
<1>10. CASE UNCHANGED sinkVars
  BY <1>1, <1>10 DEF sinkVars, SinkInv, SinkOrder, SinkPromise
<1> QED
  BY <1>3, <1>4, <1>5, <1>6, <1>7, <1>8, <1>9, <1>10 DEF SinkNext

(* When Close returns, whatever was accepted before the first Close has     *)
(* been exported, and everything in the order of Observe, for every size of *)
(* the queue and any number of closers and observers (async.go run, Close). *)
THEOREM CloseFlushes == SinkSpec => []FlushedOnClose
<1>1. SinkInv => FlushedOnClose
  <2> SUFFICES ASSUME SinkInv
               PROVE  FlushedOnClose
    OBVIOUS
  <2>1. exported \in Seq(Nat) /\ Increasing(exported)
    BY DEF SinkInv, SinkOrder
  <2>2. ToSet(exported) = Elements(exported)
    BY <2>1, ElementsAreSet
  <2>3. DOMAIN exported = 1 .. Len(exported)
    BY <2>1
  <2> QED
    BY <2>1, <2>2, <2>3 DEF SinkInv, SinkPromise, FlushedOnClose, Increasing
<1> QED
  BY <1>1, SinkStarts, SinkInductive, PTL DEF SinkSpec

-----------------------------------------------------------------------------
(*                                 Runtime                                 *)

ExecuteAts == {"createConfigMap", "createJob", "wait", "logs", "deleteJob", "deleteConfigMap", "return"}
Exits == {"none", "succeeded", "failed", "timeout"}
Executions == [call : Nat, at : {"idle"} \cup ExecuteAts, exit : Exits, own : BOOLEAN, left : SUBSET Nat, read : SUBSET Nat,
               configMapCreated : BOOLEAN, jobCreated : BOOLEAN]
Jobs == [call : Nat, status : {"none", "created", "running", "succeeded", "failed"}, code : Nat]
Reports == [call : Nat, exit : Exits, own : BOOLEAN, left : SUBSET Nat, read : SUBSET Nat]

RuntimeTypes ==
    /\ run \in [at : {"start", "generate", "tools", "invoke", "python", "done", "failed"}, executed : Nat]
    /\ returned \in Seq(Nat) /\ execution \in Executions /\ configMap \in Nat /\ job \in Jobs
    /\ pods \subseteq Nat /\ reported \in Seq(Reports)
    /\ stranded \in BOOLEAN

(* Execute runs inside its tool call, and knows what it has created. *)
ExecuteSound ==
    /\ execution.at # "idle" <=> run.at = "python"
    /\ execution.at # "idle" => execution.call # 0
    /\ execution.at \in {"createConfigMap", "createJob"} => ~execution.jobCreated
    /\ execution.at = "createConfigMap" => ~execution.configMapCreated
    /\ execution.at \in {"createJob", "wait", "logs"} => execution.configMapCreated
    /\ execution.at \in {"wait", "logs"} => execution.jobCreated
    /\ execution.jobCreated => execution.configMapCreated

(* What the call has created stays under the run's name until it deletes    *)
(* it, so the pod ran the call's code.                                      *)
OwnObjects ==
    /\ execution.configMapCreated /\ execution.at \in {"createJob", "wait", "logs", "deleteJob", "deleteConfigMap"} =>
          configMap = execution.call
    /\ execution.jobCreated /\ execution.at \in {"wait", "logs", "deleteJob"} =>
          /\ job.call = execution.call
          /\ job.status \in {"running", "succeeded", "failed"} => job.code = execution.call
    /\ execution.exit \in {"succeeded", "failed"} => execution.own

(* Unless something was stranded, what is there is the call's and will be   *)
(* deleted.                                                                 *)
NothingStray ==
    ~stranded =>
        /\ configMap # 0 => /\ execution.configMapCreated
                            /\ execution.at \in {"createJob", "wait", "logs", "deleteJob", "deleteConfigMap"}
        /\ job # NoJob => execution.jobCreated /\ execution.at \in {"wait", "logs", "deleteJob"}

(* While the call waits for its job and reads from a pod, no pod comes up   *)
(* but its own: the others were there when it created the job.              *)
OwnPods ==
    /\ execution.read \subseteq {execution.call} \cup execution.left
    /\ execution.at \in {"createConfigMap", "createJob"} => execution.read = {}
    /\ execution.at \in {"wait", "logs"} => pods \subseteq {execution.call} \cup execution.left

ReportOwn(rep) ==
    /\ rep.exit \in {"succeeded", "failed"} => rep.own
    /\ rep.read \subseteq {rep.call} \cup rep.left

ReportsOwn == \A i \in 1 .. Len(reported) : ReportOwn(reported[i])

RuntimeInv == RuntimeTypes /\ ExecuteSound /\ OwnObjects /\ NothingStray /\ OwnPods /\ ReportsOwn

LEMMA RuntimeStarts == RuntimeInit => RuntimeInv
<1>1. NoJob \in Jobs
  BY DEF NoJob, Jobs
<1>2. NoExecution \in Executions
  BY DEF NoExecution, Executions, Exits
<1>3. /\ NoExecution.at = "idle" /\ NoExecution.exit = "none" /\ NoExecution.jobCreated = FALSE
      /\ NoExecution.read = {}
  BY DEF NoExecution
<1> SUFFICES ASSUME RuntimeInit
             PROVE  RuntimeInv
  OBVIOUS
<1>4. RuntimeTypes
  <2>1. run \in [at : {"start", "generate", "tools", "invoke", "python", "done", "failed"}, executed : Nat]
    BY DEF RuntimeInit
  <2>2. /\ returned \in Seq(Nat)
        /\ reported \in Seq(Reports)
    BY DEF RuntimeInit
  <2> QED
    BY <1>1, <1>2, <2>1, <2>2 DEF RuntimeInit, RuntimeTypes
<1>5. ExecuteSound /\ OwnObjects /\ NothingStray /\ OwnPods /\ ReportsOwn
  BY <1>3 DEF RuntimeInit, ExecuteSound, OwnObjects, NothingStray, OwnPods, ReportsOwn
<1> QED
  BY <1>4, <1>5 DEF RuntimeInv

(* The loop moves outside of Execute. *)
LEMMA LoopMoves ==
    ASSUME RuntimeInv, execution.at = "idle",
           run' \in [at : {"start", "generate", "tools", "invoke", "done", "failed"}, executed : Nat],
           returned' \in Seq(Nat), UNCHANGED <<clusterVars, execution, reported, stranded>>
    PROVE  RuntimeInv'
<1>1. RuntimeTypes'
  BY DEF RuntimeInv, RuntimeTypes, clusterVars
<1>2. run'.at # "python"
  OBVIOUS
<1>3. ExecuteSound'
  BY <1>2 DEF RuntimeInv, ExecuteSound
<1>4. OwnObjects' /\ NothingStray' /\ OwnPods' /\ ReportsOwn'
  BY DEF RuntimeInv, OwnObjects, NothingStray, OwnPods, ReportsOwn, clusterVars
<1> QED
  BY <1>1, <1>3, <1>4 DEF RuntimeInv

LEMMA RunLoopKeeps ==
    ASSUME RuntimeInv,
           \/ \E ok \in BOOLEAN : ResolveTools(ok)
           \/ \E calls : Generate(calls)
           \/ RunFails \/ NextToolCall \/ InvokeAdapter
    PROVE  RuntimeInv'
<1>1. RuntimeTypes /\ ExecuteSound
  BY DEF RuntimeInv
<1>2. /\ run \in [at : {"start", "generate", "tools", "invoke", "python", "done", "failed"}, executed : Nat]
      /\ returned \in Seq(Nat) /\ Current \in Nat
  BY <1>1 DEF RuntimeTypes, Current
<1>3. run.at \in {"start", "generate", "tools", "invoke"}
  BY DEF ResolveTools, Generate, RunFails, NextToolCall, InvokeAdapter
<1>4. execution.at = "idle"
  BY <1>1, <1>3 DEF ExecuteSound
<1>5. UNCHANGED <<clusterVars, execution, reported, stranded>>
  BY DEF ResolveTools, Generate, RunFails, NextToolCall, InvokeAdapter
<1>6. returned' \in Seq(Nat)
  <2>1. returned' = returned \/ returned' = Append(returned, Current)
    BY DEF ResolveTools, Generate, RunFails, NextToolCall, InvokeAdapter, Reply, ReplyError
  <2> QED
    BY <1>2, <2>1, SMTT(20)
<1>7. run' \in [at : {"start", "generate", "tools", "invoke", "done", "failed"}, executed : Nat]
  <2>1. \/ \E at \in {"start", "generate", "tools", "invoke", "done", "failed"} : run' = [run EXCEPT !.at = at]
        \/ \E at \in {"invoke", "failed"} : run' = [at |-> at, executed |-> run.executed + 1]
    <3>1. CASE \E ok \in BOOLEAN : ResolveTools(ok)
      BY <3>1 DEF ResolveTools
    <3>2. CASE \E calls : Generate(calls)
      BY <3>2 DEF Generate
    <3>3. CASE RunFails
      BY <3>3 DEF RunFails
    <3>4. CASE NextToolCall
      BY <3>4 DEF NextToolCall
    <3>5. CASE InvokeAdapter
      BY <3>5 DEF InvokeAdapter, Reply, ReplyError
    <3> QED
      BY <3>1, <3>2, <3>3, <3>4, <3>5
  <2>2. ASSUME NEW at \in {"start", "generate", "tools", "invoke", "done", "failed"}, run' = [run EXCEPT !.at = at]
        PROVE  run' \in [at : {"start", "generate", "tools", "invoke", "done", "failed"}, executed : Nat]
    BY <1>2, <2>2
  <2>3. ASSUME NEW at \in {"invoke", "failed"}, run' = [at |-> at, executed |-> run.executed + 1]
        PROVE  run' \in [at : {"start", "generate", "tools", "invoke", "done", "failed"}, executed : Nat]
    BY <1>2, <2>3
  <2> QED
    BY <2>1, <2>2, <2>3
<1> QED
  BY <1>4, <1>5, <1>6, <1>7, LoopMoves

(* A call of python.execute starts. *)
LEMMA InvokePythonKeeps == ASSUME RuntimeInv, InvokePython PROVE RuntimeInv'
<1>1. RuntimeTypes /\ ExecuteSound /\ OwnObjects /\ NothingStray /\ OwnPods /\ ReportsOwn
  BY DEF RuntimeInv
<1>2. /\ run' = [run EXCEPT !.at = "python"] /\ run.at = "invoke"
      /\ execution' = [NoExecution EXCEPT !.call = Current, !.at = "createConfigMap"]
      /\ UNCHANGED <<returned, configMap, job, pods, reported, stranded>>
  BY DEF InvokePython, clusterVars
<1>3. Current \in Nat \ {0}
  BY <1>1 DEF RuntimeTypes, Current
<1>4. /\ execution' \in Executions /\ execution'.call # 0 /\ execution'.at = "createConfigMap"
      /\ execution'.jobCreated = FALSE /\ execution'.configMapCreated = FALSE /\ execution'.exit = "none"
      /\ execution'.read = {}
  BY <1>2, <1>3 DEF NoExecution, Executions, Exits, ExecuteAts
<1>5. RuntimeTypes' /\ run'.at = "python"
  BY <1>1, <1>2, <1>4 DEF RuntimeTypes
<1>6. execution.at = "idle"
  BY <1>1, <1>2 DEF ExecuteSound
<1>7. ExecuteSound' /\ OwnObjects' /\ OwnPods' /\ ReportsOwn'
  BY <1>1, <1>2, <1>4, <1>5 DEF ExecuteSound, OwnObjects, OwnPods, ReportsOwn
<1>8. NothingStray'
  BY <1>1, <1>2, <1>6 DEF NothingStray
<1> QED
  BY <1>5, <1>7, <1>8 DEF RuntimeInv

(* Execute moves on and changes the cluster. *)
LEMMA ExecuteKeeps ==
    ASSUME RuntimeInv, CreateConfigMap \/ CreateJob \/ WaitForJob \/ ReadJobLogs \/ DeleteJob \/ DeleteConfigMap
    PROVE  RuntimeInv'
<1>1. RuntimeTypes /\ ExecuteSound /\ OwnObjects /\ NothingStray /\ OwnPods /\ ReportsOwn
  BY DEF RuntimeInv
<1>2. /\ execution \in Executions /\ job \in Jobs /\ configMap \in Nat /\ NoJob \in Jobs
      /\ execution.call \in Nat
  BY <1>1 DEF RuntimeTypes, NoJob, Jobs, Executions
<1>3. UNCHANGED <<run, returned, reported>>
  <2>1. UNCHANGED runVars /\ UNCHANGED reported
    BY Zenon DEF CreateConfigMap, CreateJob, WaitForJob, ReadJobLogs, DeleteJob, DeleteConfigMap
  <2> QED
    BY <2>1 DEF runVars
<1>4. ReportsOwn'
  BY <1>1, <1>3 DEF ReportsOwn
<1> USE DEF ExecuteAts, Exits
<1>5. CASE CreateConfigMap
  <2>1. CASE configMap # 0 /\ ExecuteGoes("deleteJob") /\ UNCHANGED configMap
    <3>1. /\ execution' \in Executions /\ execution'.at = "deleteJob"
          /\ execution'.call = execution.call /\ execution'.exit = execution.exit /\ execution'.own = execution.own
          /\ UNCHANGED <<execution.left, execution.read>>
          /\ execution'.configMapCreated = execution.configMapCreated
          /\ execution'.jobCreated = execution.jobCreated
      BY <1>2, <2>1 DEF ExecuteGoes, Executions
    <3>2. UNCHANGED <<configMap, job, pods, stranded>> /\ execution.at = "createConfigMap"
      BY <1>5, <2>1 DEF CreateConfigMap
    <3>3. RuntimeTypes'
      BY <1>1, <1>3, <3>1, <3>2 DEF RuntimeTypes
    <3>4. ExecuteSound' /\ OwnObjects' /\ NothingStray' /\ OwnPods'
      BY <1>1, <1>3, <2>1, <3>1, <3>2 DEF ExecuteSound, OwnObjects, NothingStray, OwnPods
    <3> QED
      BY <1>4, <3>3, <3>4 DEF RuntimeInv
  <2>2. CASE /\ configMap = 0 /\ configMap' = execution.call
             /\ execution' = [execution EXCEPT !.at = "createJob", !.configMapCreated = TRUE]
    <3>1. /\ execution' \in Executions /\ execution'.at = "createJob"
          /\ execution'.call = execution.call /\ execution'.exit = execution.exit /\ execution'.own = execution.own
          /\ UNCHANGED <<execution.left, execution.read>>
          /\ execution'.configMapCreated = TRUE
          /\ execution'.jobCreated = execution.jobCreated
      BY <1>2, <2>2 DEF Executions
    <3>2. UNCHANGED <<job, pods, stranded>> /\ execution.at = "createConfigMap"
      BY <1>5 DEF CreateConfigMap
    <3>3. RuntimeTypes'
      BY <1>1, <1>2, <1>3, <2>2, <3>1, <3>2 DEF RuntimeTypes
    <3>4. ExecuteSound' /\ OwnObjects' /\ NothingStray' /\ OwnPods'
      BY <1>1, <1>3, <2>2, <3>1, <3>2 DEF ExecuteSound, OwnObjects, NothingStray, OwnPods
    <3> QED
      BY <1>4, <3>3, <3>4 DEF RuntimeInv
  <2> QED
    BY <1>5, <2>1, <2>2 DEF CreateConfigMap
<1>6. CASE CreateJob
  <2>1. CASE job # NoJob /\ ExecuteGoes("deleteJob") /\ UNCHANGED job
    <3>1. /\ execution' \in Executions /\ execution'.at = "deleteJob"
          /\ execution'.call = execution.call /\ execution'.exit = execution.exit /\ execution'.own = execution.own
          /\ UNCHANGED <<execution.left, execution.read>>
          /\ execution'.configMapCreated = execution.configMapCreated
          /\ execution'.jobCreated = execution.jobCreated
      BY <1>2, <2>1 DEF ExecuteGoes, Executions
    <3>2. UNCHANGED <<configMap, job, pods, stranded>> /\ execution.at = "createJob"
      BY <1>6, <2>1 DEF CreateJob
    <3>3. RuntimeTypes'
      BY <1>1, <1>3, <3>1, <3>2 DEF RuntimeTypes
    <3>4. ExecuteSound' /\ OwnObjects' /\ NothingStray' /\ OwnPods'
      BY <1>1, <1>3, <2>1, <3>1, <3>2 DEF ExecuteSound, OwnObjects, NothingStray, OwnPods
    <3> QED
      BY <1>4, <3>3, <3>4 DEF RuntimeInv
  <2>2. CASE /\ job' = [call |-> execution.call, status |-> "created", code |-> 0]
             /\ execution' = [execution EXCEPT !.at = "wait", !.jobCreated = TRUE, !.left = pods]
    <3>1. /\ execution' \in Executions /\ execution'.at = "wait"
          /\ execution'.call = execution.call /\ execution'.exit = execution.exit /\ execution'.own = execution.own
          /\ execution'.left = pods /\ execution'.read = execution.read
          /\ execution'.configMapCreated = execution.configMapCreated
          /\ execution'.jobCreated = TRUE
      BY <1>1, <1>2, <2>2 DEF RuntimeTypes, Executions
    <3>2. job' \in Jobs /\ job'.call = execution.call /\ job'.status = "created"
      BY <1>2, <2>2 DEF Jobs
    <3>3. UNCHANGED <<configMap, pods, stranded>> /\ execution.at = "createJob"
      BY <1>6 DEF CreateJob
    <3>4. RuntimeTypes'
      BY <1>1, <1>3, <3>1, <3>2, <3>3 DEF RuntimeTypes
    <3>5. ExecuteSound' /\ OwnObjects' /\ NothingStray' /\ OwnPods'
      BY <1>1, <1>3, <3>1, <3>2, <3>3 DEF ExecuteSound, OwnObjects, NothingStray, OwnPods
    <3> QED
      BY <1>4, <3>4, <3>5 DEF RuntimeInv
  <2> QED
    BY <1>6, <2>1, <2>2 DEF CreateJob
<1>7. CASE WaitForJob
  <2>0. UNCHANGED <<configMap, job, pods, stranded>> /\ execution.at = "wait"
    <3>1. execution.at = "wait" /\ UNCHANGED clusterVars /\ UNCHANGED stranded
      BY <1>7, Zenon DEF WaitForJob
    <3> QED
      BY <3>1 DEF clusterVars
  <2>1. ASSUME job.status \in {"succeeded", "failed"}, NEW read \in {{}} \cup FindJobPod,
               execution' = JobResult(read)
        PROVE  RuntimeInv'
    <3>1. job.call = execution.call /\ job.code = execution.call
      BY <1>1, <2>0, <2>1 DEF ExecuteSound, OwnObjects
    <3>0. read \subseteq pods /\ read \in SUBSET Nat
      BY <1>1 DEF FindJobPod, RuntimeTypes
    <3>2. /\ execution' \in Executions /\ execution'.at = "logs"
          /\ execution'.call = execution.call /\ execution'.own = TRUE
          /\ execution'.left = execution.left /\ execution'.read = read
          /\ execution'.configMapCreated = execution.configMapCreated
          /\ execution'.jobCreated = execution.jobCreated
      BY <1>2, <2>1, <3>0, <3>1 DEF JobResult, Executions
    <3>3. RuntimeTypes'
      BY <1>1, <1>3, <2>0, <3>2 DEF RuntimeTypes
    <3>4. ExecuteSound' /\ OwnObjects' /\ NothingStray' /\ OwnPods'
      BY <1>1, <1>3, <2>0, <3>0, <3>2 DEF ExecuteSound, OwnObjects, NothingStray, OwnPods
    <3> QED
      BY <1>4, <3>3, <3>4 DEF RuntimeInv
  <2>2. CASE ExecuteGoes("deleteJob") \/ execution' = [execution EXCEPT !.at = "deleteJob", !.exit = "timeout"]
    <3>1. /\ execution' \in Executions /\ execution'.at = "deleteJob"
          /\ execution'.call = execution.call /\ execution'.own = execution.own
          /\ UNCHANGED <<execution.left, execution.read>>
          /\ execution'.exit \in {execution.exit, "timeout"}
          /\ execution'.configMapCreated = execution.configMapCreated
          /\ execution'.jobCreated = execution.jobCreated
      BY <1>2, <2>2 DEF ExecuteGoes, Executions
    <3>2. RuntimeTypes'
      BY <1>1, <1>3, <2>0, <3>1 DEF RuntimeTypes
    <3>3. ExecuteSound' /\ OwnObjects' /\ NothingStray' /\ OwnPods'
      BY <1>1, <1>3, <2>0, <3>1 DEF ExecuteSound, OwnObjects, NothingStray, OwnPods
    <3> QED
      BY <1>4, <3>2, <3>3 DEF RuntimeInv
  <2>3. CASE /\ job.status \in {"succeeded", "failed"}
             /\ \E read \in {{}} \cup (IF job.status = "failed" THEN FindJobPod ELSE {}) :
                   execution' = JobResult(read)
    BY <2>1, <2>3
  <2> QED
    BY <1>7, <2>2, <2>3, Zenon DEF WaitForJob
<1>8. CASE ReadJobLogs
  <2>0. UNCHANGED <<configMap, job, pods, stranded>> /\ execution.at = "logs"
    <3>1. execution.at = "logs" /\ UNCHANGED clusterVars /\ UNCHANGED stranded
      BY <1>8, Zenon DEF ReadJobLogs
    <3> QED
      BY <3>1 DEF clusterVars
  <2>1. /\ execution' \in Executions /\ execution'.at = "deleteJob"
        /\ execution'.call = execution.call /\ execution'.own = execution.own
        /\ execution'.left = execution.left /\ execution'.read \subseteq execution.read \cup pods
        /\ execution'.exit \in {execution.exit, "none"}
        /\ execution'.configMapCreated = execution.configMapCreated
        /\ execution'.jobCreated = execution.jobCreated
    <3>1. CASE execution' = [execution EXCEPT !.at = "deleteJob", !.exit = "none"]
      BY <1>2, <3>1 DEF Executions
    <3>2. ASSUME NEW read \in FindJobPod, execution' = [execution EXCEPT !.at = "deleteJob", !.read = @ \cup read]
          PROVE  /\ execution' \in Executions /\ execution'.at = "deleteJob"
                 /\ execution'.call = execution.call /\ execution'.own = execution.own
                 /\ execution'.left = execution.left /\ execution'.read \subseteq execution.read \cup pods
                 /\ execution'.exit \in {execution.exit, "none"}
                 /\ execution'.configMapCreated = execution.configMapCreated
                 /\ execution'.jobCreated = execution.jobCreated
      <4>1. read \subseteq pods /\ read \in SUBSET Nat
        BY <1>1 DEF FindJobPod, RuntimeTypes
      <4> QED
        BY <1>2, <3>2, <4>1 DEF Executions
    <3> QED
      BY <1>8, <3>1, <3>2, Zenon DEF ReadJobLogs
  <2>2. RuntimeTypes'
    BY <1>1, <1>3, <2>0, <2>1 DEF RuntimeTypes
  <2>3. ExecuteSound' /\ OwnObjects' /\ NothingStray' /\ OwnPods'
    BY <1>1, <1>3, <2>0, <2>1 DEF ExecuteSound, OwnObjects, NothingStray, OwnPods
  <2> QED
    BY <1>4, <2>2, <2>3 DEF RuntimeInv
<1>9. CASE DeleteJob
  <2>0. /\ ExecuteGoes("deleteConfigMap") /\ execution.at = "deleteJob" /\ UNCHANGED <<configMap, pods>>
        /\ \/ job' = (IF execution.jobCreated THEN NoJob ELSE job) /\ UNCHANGED stranded
           \/ stranded' = TRUE /\ UNCHANGED job
    BY <1>9 DEF DeleteJob
  <2>1. /\ execution' \in Executions /\ execution'.at = "deleteConfigMap"
        /\ execution'.call = execution.call /\ execution'.exit = execution.exit /\ execution'.own = execution.own
        /\ UNCHANGED <<execution.left, execution.read>>
        /\ execution'.configMapCreated = execution.configMapCreated
        /\ execution'.jobCreated = execution.jobCreated
    BY <1>2, <2>0 DEF ExecuteGoes, Executions
  <2>2. RuntimeTypes'
    BY <1>1, <1>2, <1>3, <2>0, <2>1 DEF RuntimeTypes
  <2>3. ExecuteSound' /\ OwnObjects' /\ NothingStray' /\ OwnPods'
    BY <1>1, <1>3, <2>0, <2>1 DEF ExecuteSound, OwnObjects, NothingStray, OwnPods
  <2> QED
    BY <1>4, <2>2, <2>3 DEF RuntimeInv
<1>10. CASE DeleteConfigMap
  <2>0. /\ ExecuteGoes("return") /\ execution.at = "deleteConfigMap" /\ UNCHANGED <<job, pods>>
        /\ \/ configMap' = (IF execution.configMapCreated THEN 0 ELSE configMap) /\ UNCHANGED stranded
           \/ stranded' = TRUE /\ UNCHANGED configMap
    BY <1>10 DEF DeleteConfigMap
  <2>1. /\ execution' \in Executions /\ execution'.at = "return"
        /\ execution'.call = execution.call /\ execution'.exit = execution.exit /\ execution'.own = execution.own
        /\ UNCHANGED <<execution.left, execution.read>>
        /\ execution'.configMapCreated = execution.configMapCreated
        /\ execution'.jobCreated = execution.jobCreated
    BY <1>2, <2>0 DEF ExecuteGoes, Executions
  <2>2. RuntimeTypes'
    <3>1. configMap' \in {0, configMap} /\ stranded' \in {stranded, TRUE}
      BY <2>0
    <3>2. configMap' \in Nat
      BY <1>2, <3>1
    <3>3. stranded' \in BOOLEAN
      BY <1>1, <3>1, Zenon DEF RuntimeTypes
    <3> QED
      BY <1>1, <1>3, <2>0, <2>1, <3>2, <3>3 DEF RuntimeTypes
  <2>3. ExecuteSound' /\ OwnObjects' /\ NothingStray' /\ OwnPods'
    BY <1>1, <1>3, <2>0, <2>1 DEF ExecuteSound, OwnObjects, NothingStray, OwnPods
  <2> QED
    BY <1>4, <2>2, <2>3 DEF RuntimeInv
<1> QED
  BY <1>5, <1>6, <1>7, <1>8, <1>9, <1>10

(* A create fails, or its answer is lost. *)
LEMMA CreateFailsKeeps ==
    ASSUME RuntimeInv, NEW done \in BOOLEAN, CreateFails(done)
    PROVE  RuntimeInv'
<1>1. RuntimeTypes /\ ExecuteSound /\ OwnObjects /\ NothingStray /\ OwnPods /\ ReportsOwn
  BY DEF RuntimeInv
<1>2. /\ execution \in Executions /\ job \in Jobs /\ configMap \in Nat /\ NoJob \in Jobs
      /\ execution.call \in Nat
  BY <1>1 DEF RuntimeTypes, NoJob, Jobs, Executions
<1> DEFINE new == [call |-> execution.call, status |-> "created", code |-> 0]
<1>3. /\ UNCHANGED <<run, returned, pods, reported>> /\ stranded' = (stranded \/ done)
      /\ ExecuteGoes("deleteJob")
      /\ \/ /\ execution.at = "createConfigMap" /\ configMap = 0
            /\ configMap' = (IF done THEN execution.call ELSE 0) /\ UNCHANGED job
         \/ /\ execution.at = "createJob" /\ job = NoJob
            /\ job' = (IF done THEN new ELSE NoJob) /\ UNCHANGED configMap
  BY DEF CreateFails, runVars
<1>4. /\ execution' \in Executions /\ execution'.at = "deleteJob"
      /\ execution'.call = execution.call /\ execution'.exit = execution.exit /\ execution'.own = execution.own
      /\ UNCHANGED <<execution.left, execution.read>>
      /\ execution'.configMapCreated = execution.configMapCreated
      /\ execution'.jobCreated = execution.jobCreated
  BY <1>2, <1>3 DEF ExecuteGoes, Executions, ExecuteAts
<1>5. new \in Jobs
  BY <1>2 DEF Jobs
<1> HIDE DEF new
<1>6. RuntimeTypes'
  <2>1. configMap' \in Nat /\ job' \in Jobs /\ stranded' \in BOOLEAN
    BY <1>1, <1>2, <1>3, <1>5 DEF RuntimeTypes
  <2> QED
    BY <1>1, <1>3, <1>4, <2>1 DEF RuntimeTypes
<1>7. ExecuteSound'
  BY <1>1, <1>3, <1>4 DEF ExecuteSound
<1>8. OwnObjects'
  BY <1>1, <1>3, <1>4 DEF ExecuteSound, OwnObjects
<1>9. NothingStray'
  BY <1>1, <1>3, <1>4 DEF ExecuteSound, NothingStray
<1>10. OwnPods' /\ ReportsOwn'
  BY <1>1, <1>3, <1>4 DEF OwnPods, ReportsOwn
<1> QED
  BY <1>6, <1>7, <1>8, <1>9, <1>10 DEF RuntimeInv

(* Execute returns, or the process dies in it. *)
LEMMA ReturnKeeps == ASSUME RuntimeInv, ExecuteReturns \/ ProcessDies PROVE RuntimeInv'
<1>1. RuntimeTypes /\ ExecuteSound /\ OwnObjects /\ NothingStray /\ OwnPods /\ ReportsOwn
  BY DEF RuntimeInv
<1>2. /\ NoExecution \in Executions /\ NoExecution.at = "idle" /\ NoExecution.exit = "none"
      /\ NoExecution.configMapCreated = FALSE /\ NoExecution.jobCreated = FALSE /\ NoExecution.read = {}
  BY DEF NoExecution, Executions, Exits
<1>3. /\ run \in [at : {"start", "generate", "tools", "invoke", "python", "done", "failed"}, executed : Nat]
      /\ returned \in Seq(Nat) /\ Current \in Nat
  BY <1>1 DEF RuntimeTypes, Current
<1>4. CASE ExecuteReturns
  <2> DEFINE rep == [call |-> execution.call, exit |-> execution.exit, own |-> execution.own,
                     left |-> execution.left, read |-> execution.read]
  <2>1. /\ execution.at = "return" /\ reported' = Append(reported, rep) /\ execution' = NoExecution
        /\ UNCHANGED <<configMap, job, pods, stranded>>
        /\ IF execution.exit = "none" THEN run' = [run EXCEPT !.at = "failed"] /\ UNCHANGED <<asked, returned>>
           ELSE Reply
    BY <1>4 DEF ExecuteReturns, clusterVars
  <2>2. /\ rep \in Reports
        /\ rep.exit = execution.exit /\ rep.own = execution.own
        /\ rep.call = execution.call /\ rep.left = execution.left /\ rep.read = execution.read
    BY <1>1 DEF RuntimeTypes, Executions, Reports
  <2> HIDE DEF rep
  <2>3. /\ reported \in Seq(Reports)
        /\ reported' \in Seq(Reports)
        /\ Len(reported) \in Nat /\ Len(reported') = Len(reported) + 1
        /\ \A i \in 1 .. Len(reported) : reported'[i] = reported[i]
        /\ reported'[Len(reported) + 1] = rep
    BY <1>1, <2>1, <2>2 DEF RuntimeTypes
  <2>4. ReportsOwn'
    <3>1. ReportOwn(rep)
      BY <1>1, <2>2 DEF OwnObjects, OwnPods, ReportOwn
    <3> QED
      BY <1>1, <2>3, <3>1 DEF ReportsOwn
  <2>5. returned' \in Seq(Nat)
    <3>1. returned' = returned \/ returned' = Append(returned, Current)
      BY <2>1 DEF Reply
    <3> QED
      BY <1>3, <3>1, SMTT(20)
  <2>6. /\ run' \in [at : {"start", "generate", "tools", "invoke", "python", "done", "failed"}, executed : Nat]
        /\ run'.at # "python"
    <3>1. \E at \in {"failed", "generate", "tools"} : run' = [run EXCEPT !.at = at]
      BY <2>1 DEF Reply
    <3> QED
      BY <1>3, <3>1
  <2>7. RuntimeTypes'
    BY <1>1, <1>2, <2>1, <2>3, <2>5, <2>6 DEF RuntimeTypes
  <2>8. ExecuteSound' /\ OwnObjects' /\ OwnPods'
    BY <1>2, <2>1, <2>6 DEF ExecuteSound, OwnObjects, OwnPods
  <2>9. NothingStray'
    BY <1>1, <1>2, <2>1 DEF NothingStray
  <2> QED
    BY <2>4, <2>7, <2>8, <2>9 DEF RuntimeInv
<1>5. CASE ProcessDies
  <2>1. /\ execution' = NoExecution /\ stranded' = TRUE /\ run' = [run EXCEPT !.at = "failed"]
        /\ UNCHANGED <<returned, configMap, job, pods, reported>>
    BY <1>5 DEF ProcessDies, clusterVars
  <2>2. /\ run' \in [at : {"start", "generate", "tools", "invoke", "python", "done", "failed"}, executed : Nat]
        /\ run'.at = "failed"
    BY <1>3, <2>1
  <2>3. RuntimeTypes'
    BY <1>1, <1>2, <2>1, <2>2 DEF RuntimeTypes
  <2>4. ExecuteSound' /\ OwnObjects' /\ NothingStray' /\ OwnPods' /\ ReportsOwn'
    BY <1>1, <1>2, <2>1, <2>2 DEF ExecuteSound, OwnObjects, NothingStray, OwnPods, ReportsOwn
  <2> QED
    BY <2>3, <2>4 DEF RuntimeInv
<1> QED
  BY <1>4, <1>5

(* The cluster moves by itself. *)
LEMMA ClusterKeeps ==
    ASSUME RuntimeInv,
           \/ PodStarts \/ (\E status \in {"succeeded", "failed"} : PodEnds(status)) \/ JobTTLPasses
           \/ \E n \in pods : PodCollected(n)
    PROVE  RuntimeInv'
<1>1. RuntimeTypes /\ ExecuteSound /\ OwnObjects /\ NothingStray /\ OwnPods /\ ReportsOwn
  BY DEF RuntimeInv
<1>2. UNCHANGED <<run, returned, configMap, execution, reported, stranded>>
  BY DEF PodStarts, PodEnds, JobTTLPasses, PodCollected, runVars
<1>3. job \in Jobs /\ configMap \in Nat /\ NoJob \in Jobs
  BY <1>1 DEF RuntimeTypes, NoJob, Jobs
<1>4. ExecuteSound' /\ ReportsOwn'
  BY <1>1, <1>2 DEF ExecuteSound, ReportsOwn
<1>5. ASSUME job' \in Jobs, pods' \subseteq Nat PROVE RuntimeTypes'
  BY <1>1, <1>2, <1>5 DEF RuntimeTypes
<1>6. NoJob.status = "none"
  BY DEF NoJob
<1>7. CASE PodStarts
  <2>1. /\ job' \in Jobs /\ job'.call = job.call /\ job'.status = "running" /\ job'.code = configMap
        /\ job.status = "created" /\ job # NoJob /\ pods' = pods \cup {job.call} /\ pods' \subseteq Nat
    BY <1>1, <1>3, <1>6, <1>7 DEF PodStarts, RuntimeTypes, Jobs
  <2>2. OwnObjects'
    <3>1. execution.jobCreated /\ execution.at \in {"wait", "logs"} => execution.configMapCreated
      BY <1>1 DEF ExecuteSound
    <3>2. execution.jobCreated /\ execution.at = "deleteJob" => configMap = execution.call
      BY <1>1 DEF ExecuteSound, OwnObjects
    <3> QED
      BY <1>1, <1>2, <2>1, <3>1, <3>2 DEF OwnObjects
  <2>3. NothingStray' /\ OwnPods'
    BY <1>1, <1>2, <2>1 DEF ExecuteSound, OwnObjects, NothingStray, OwnPods
  <2> QED
    BY <1>4, <1>5, <2>1, <2>2, <2>3 DEF RuntimeInv
<1>8. ASSUME NEW status \in {"succeeded", "failed"}, PodEnds(status)
      PROVE  RuntimeInv'
  <2>1. /\ job' \in Jobs /\ job'.call = job.call /\ job'.code = job.code
        /\ job.status = "running" /\ job # NoJob /\ pods' = pods /\ pods' \subseteq Nat
    BY <1>1, <1>3, <1>6, <1>8 DEF PodEnds, RuntimeTypes, Jobs
  <2>2. OwnObjects' /\ NothingStray' /\ OwnPods'
    BY <1>1, <1>2, <2>1 DEF OwnObjects, NothingStray, OwnPods
  <2> QED
    BY <1>4, <1>5, <2>1, <2>2 DEF RuntimeInv
<1>9. CASE JobTTLPasses
  <2>1. job' = NoJob /\ execution.at = "idle" /\ pods' = pods /\ pods' \subseteq Nat
    BY <1>1, <1>9 DEF JobTTLPasses, ExecuteSound, RuntimeTypes
  <2>2. OwnObjects' /\ NothingStray' /\ OwnPods'
    BY <1>1, <1>2, <2>1 DEF OwnObjects, NothingStray, OwnPods
  <2> QED
    BY <1>3, <1>4, <1>5, <2>1, <2>2 DEF RuntimeInv
<1>10. CASE \E n \in pods : PodCollected(n)
  <2>1. job' = job /\ pods' \subseteq pods /\ pods' \subseteq Nat
    BY <1>1, <1>10 DEF PodCollected, RuntimeTypes
  <2>2. OwnObjects' /\ NothingStray' /\ OwnPods'
    BY <1>1, <1>2, <2>1 DEF OwnObjects, NothingStray, OwnPods
  <2> QED
    BY <1>3, <1>4, <1>5, <2>1, <2>2 DEF RuntimeInv
<1> QED
  BY <1>7, <1>8, <1>9, <1>10

LEMMA RuntimeInductive == RuntimeInv /\ [RuntimeNext]_runtimeVars => RuntimeInv'
<1> SUFFICES ASSUME RuntimeInv, [RuntimeNext]_runtimeVars
             PROVE  RuntimeInv'
  OBVIOUS
<1>1. CASE \/ \E ok \in BOOLEAN : ResolveTools(ok)
           \/ \E calls : Generate(calls)
           \/ RunFails \/ NextToolCall \/ InvokeAdapter
  BY <1>1, RunLoopKeeps
<1>2. CASE InvokePython
  BY <1>2, InvokePythonKeeps
<1>3. CASE CreateConfigMap \/ CreateJob \/ WaitForJob \/ ReadJobLogs \/ DeleteJob \/ DeleteConfigMap
  BY <1>3, ExecuteKeeps
<1>4. CASE \E done \in BOOLEAN : CreateFails(done)
  BY <1>4, CreateFailsKeeps
<1>5. CASE ExecuteReturns \/ ProcessDies
  BY <1>5, ReturnKeeps
<1>6. CASE \/ PodStarts \/ (\E status \in {"succeeded", "failed"} : PodEnds(status)) \/ JobTTLPasses
           \/ \E n \in pods : PodCollected(n)
  BY <1>6, ClusterKeeps
<1>7. CASE UNCHANGED runtimeVars
  BY <1>7 DEF RuntimeInv, RuntimeTypes, ExecuteSound, OwnObjects, NothingStray, OwnPods, ReportsOwn, runtimeVars,
              runVars, clusterVars
<1> QED
  BY <1>1, <1>2, <1>3, <1>4, <1>5, <1>6, <1>7 DEF RuntimeNext, RunLoop

(* No call of python.execute takes the status of a job that another call of *)
(* the run left under the shared name for its own; output and exit code are *)
(* read from its own pod or from one that was there when it created its     *)
(* job; and Execute leaves nothing behind unless the cluster refused a      *)
(* delete, an answer was lost or the process died (k8s_executor.go Execute, *)
(* ReadJobLogs), for any number of calls.                                   *)
THEOREM SandboxIsOwn == RuntimeSpec => []SandboxSound
<1>1. RuntimeInv => SandboxSound
  <2> SUFFICES ASSUME RuntimeInv
               PROVE  SandboxSound
    OBVIOUS
  <2>1. DOMAIN reported = 1 .. Len(reported)
    BY DEF RuntimeInv, RuntimeTypes
  <2>2. StatusIsOwn /\ OutputFromOwnOrLeft
    BY <2>1 DEF RuntimeInv, ReportsOwn, ReportOwn, StatusIsOwn, OutputFromOwnOrLeft
  <2>3. CleansUp
    BY DEF RuntimeInv, NothingStray, CleansUp
  <2> QED
    BY <2>2, <2>3 DEF SandboxSound
<1> QED
  BY <1>1, RuntimeStarts, RuntimeInductive, PTL DEF RuntimeSpec

-----------------------------------------------------------------------------
(*                                Assembly                                 *)

(* The states of a call, and the ones after its agent has a row, after it   *)
(* has a prompt, and those of the two calls that replace bindings.          *)
ReadyAts == {"prompt", "deletePrompts", "insertPrompts", "deleteTools", "insertTools", "befriend", "bindPrompt", "bindTools"}
PromptedAts == {"deleteTools", "insertTools", "befriend", "bindTools"}
EnsureAts == {"ensureAgent", "bindPrompt", "bindTools"}
ReplaceAts == {"account", "agent", "prompt", "deletePrompts", "insertPrompts", "deleteTools", "insertTools"}

Refs == Nat \cup (UNION ToolChoices) \cup {"python.execute", "agent.create", "time.now", "web.search"}
BindingRows == [agent : AgentIds, table : {"prompt", "tool"}, ref : Refs]
AssemblyStates ==
    [op : {"none", "define", "create", "ensure"}, agent : AgentIds, prompt : Nat,
     tools : ToolChoices \cup {{}}, at : {"idle", "befriend"} \cup EnsureAts \cup ReplaceAts,
     seen : SUBSET BindingRows, todo : Seq({"python.execute", "agent.create", "time.now", "web.search"})]

Ready(a) == agents[a] \in {"active", "disabled"}
HasPrompt(a) == \E b \in bindings : b.agent = a /\ b.table = "prompt"

AssemblyTypes ==
    /\ agents \in [AgentIds -> {"none", "account", "active", "disabled"}] /\ agents[Assistant] # "none"
    /\ bindings \subseteq BindingRows /\ prompts \in Nat
    /\ assemblies \in [AssemblyCalls -> AssemblyStates]
    /\ befriended \subseteq AgentIds

(* An account is created for an id that no other call works on. *)
AccountIsNew ==
    \A c \in AssemblyCalls : assemblies[c].at = "account" =>
        /\ agents[assemblies[c].agent] = "none"
        /\ \A d \in AssemblyCalls \ {c} : assemblies[d].agent # assemblies[c].agent

(* What a call in state k has reached of its agent, and may still write. *)
CallSound(k) ==
    /\ k.at \in ReadyAts => Ready(k.agent)
    /\ k.at \in PromptedAts => HasPrompt(k.agent)
    /\ k.at \in EnsureAts => k.agent = Assistant
    /\ k.at \in ReplaceAts => k.op \in {"define", "create"}
    /\ k.op = "define" => k.agent \in edited
    /\ k.op = "create" => k.tools \subseteq LowRisk
    /\ k.at = "bindTools" => k.todo # <<>>
    /\ k.at = "insertPrompts" => \A b \in k.seen : b.agent = k.agent /\ b.table = "prompt"
    /\ k.at = "insertTools" => \A b \in k.seen : b.agent = k.agent /\ b.table = "tool"

CallsSound == \A c \in AssemblyCalls : CallSound(assemblies[c])

(* Whatever agent.create made has low-risk tools until someone edits it. *)
ToolsLowRisk ==
    \A b \in bindings : b.table = "tool" /\ b.agent \notin edited \cup {Assistant} => b.ref \in LowRisk

FriendsReady == \A a \in befriended : Ready(a) /\ HasPrompt(a)

AssemblyInv == AssemblyTypes /\ AccountIsNew /\ CallsSound /\ ToolsLowRisk /\ FriendsReady

(* The other calls stay where they are; the rows one of them saw may go. *)
Others(c) ==
    \A d \in AssemblyCalls \ {c} :
        /\ assemblies'[d].op = assemblies[d].op /\ assemblies'[d].agent = assemblies[d].agent
        /\ assemblies'[d].tools = assemblies[d].tools /\ assemblies'[d].at = assemblies[d].at
        /\ assemblies'[d].todo = assemblies[d].todo /\ assemblies'[d].seen \subseteq assemblies[d].seen

(* An agent that has a row, or a prompt, keeps one. *)
AgentsGrow ==
    /\ \A a \in AgentIds : (Ready(a) => Ready(a)') /\ (HasPrompt(a) => HasPrompt(a)')
    /\ edited \subseteq edited'

(* Call c moves to state k. *)
LEMMA AssemblyMoves ==
    ASSUME AssemblyInv, NEW c \in AssemblyCalls, NEW k \in AssemblyStates,
           assemblies' \in [AssemblyCalls -> AssemblyStates], assemblies'[c] = k, Others(c),
           AgentsGrow, CallSound(k)',
           agents' \in [AgentIds -> {"none", "account", "active", "disabled"}], agents'[Assistant] # "none",
           bindings' \subseteq BindingRows, prompts' \in Nat, ToolsLowRisk',
           befriended' \subseteq AgentIds, \A a \in befriended' \ befriended : Ready(a)' /\ HasPrompt(a)',
           k.at = "account" => /\ agents'[k.agent] = "none"
                               /\ \A d \in AssemblyCalls \ {c} : assemblies[d].agent # k.agent,
           k.at = "account" \/ k.agent = assemblies[c].agent \/ agents[k.agent] # "none",
           \A a \in AgentIds : agents[a] = "none" /\ (assemblies[c].at = "account" => a # assemblies[c].agent) =>
               agents'[a] = "none"
    PROVE  AssemblyInv'
<1>1. AssemblyTypes /\ AccountIsNew /\ CallsSound /\ FriendsReady
  BY DEF AssemblyInv
<1>2. AssemblyTypes'
  BY DEF AssemblyTypes
<1>3. AccountIsNew'
  <2> SUFFICES ASSUME NEW d \in AssemblyCalls, assemblies'[d].at = "account"
               PROVE  /\ agents'[assemblies'[d].agent] = "none"
                      /\ \A e \in AssemblyCalls \ {d} : assemblies'[e].agent # assemblies'[d].agent
    BY DEF AccountIsNew
  <2>1. CASE d = c
    BY <2>1 DEF Others
  <2>2. CASE d # c
    <3>1. assemblies[d].at = "account" /\ assemblies'[d].agent = assemblies[d].agent
      BY <2>2 DEF Others
    <3>2. /\ agents[assemblies[d].agent] = "none" /\ assemblies[d].agent \in AgentIds
          /\ \A e \in AssemblyCalls \ {d} : assemblies[e].agent # assemblies[d].agent
      BY <1>1, <3>1 DEF AccountIsNew, AssemblyTypes, AssemblyStates
    <3>3. agents'[assemblies[d].agent] = "none"
      BY <2>2, <3>2
    <3>4. k.agent # assemblies[d].agent
      BY <2>2, <3>2
    <3>5. \A e \in AssemblyCalls \ {d} : assemblies'[e].agent # assemblies[d].agent
      BY <3>2, <3>4 DEF Others
    <3> QED
      BY <3>1, <3>3, <3>5
  <2> QED
    BY <2>1, <2>2
<1>4. CallsSound'
  <2> SUFFICES ASSUME NEW d \in AssemblyCalls
               PROVE  CallSound(assemblies[d])'
    BY DEF CallsSound
  <2>1. CASE d = c
    BY <2>1 DEF CallSound, Ready, HasPrompt
  <2>2. CASE d # c
    <3>1. CallSound(assemblies[d]) /\ assemblies[d] \in AssemblyStates
      BY <1>1 DEF CallsSound, AssemblyTypes
    <3>2. assemblies[d].agent \in AgentIds
      BY <3>1 DEF AssemblyStates
    <3>3. \A a \in AgentIds : (Ready(a) => Ready(a)') /\ (HasPrompt(a) => HasPrompt(a)')
      BY DEF AgentsGrow
    <3>4. PICK o : o = assemblies[d]
      OBVIOUS
    <3>5. PICK n : n = assemblies'[d]
      OBVIOUS
    <3>6. /\ n.op = o.op /\ n.agent = o.agent /\ n.tools = o.tools /\ n.at = o.at /\ n.todo = o.todo
          /\ n.seen \subseteq o.seen
      BY <2>2, <3>4, <3>5 DEF Others
    <3>7. /\ o.at \in ReadyAts => Ready(o.agent)'
          /\ o.at \in PromptedAts => HasPrompt(o.agent)'
      BY <3>1, <3>2, <3>3, <3>4 DEF CallSound
    <3>8. CallSound(n)'
      BY <3>1, <3>4, <3>6, <3>7 DEF CallSound, AgentsGrow, Ready, HasPrompt
    <3> QED
      BY <3>5, <3>8 DEF CallSound, Ready, HasPrompt
  <2> QED
    BY <2>1, <2>2
<1>5. FriendsReady'
  <2> SUFFICES ASSUME NEW a \in befriended'
               PROVE  Ready(a)' /\ HasPrompt(a)'
    BY DEF FriendsReady, Ready, HasPrompt
  <2> QED
    BY <1>1 DEF FriendsReady, AgentsGrow
<1> QED
  BY <1>2, <1>3, <1>4, <1>5 DEF AssemblyInv

(* Only the state of call c changes. *)
LEMMA CallMovesOn ==
    ASSUME AssemblyInv, NEW c \in AssemblyCalls, NEW k \in AssemblyStates,
           assemblies' = [assemblies EXCEPT ![c] = k],
           UNCHANGED <<agents, bindings, befriended>>, edited \subseteq edited', prompts' \in Nat, CallSound(k)',
           k.at = "account" => /\ agents[k.agent] = "none"
                               /\ \A d \in AssemblyCalls \ {c} : assemblies[d].agent # k.agent,
           k.at = "account" \/ k.agent = assemblies[c].agent \/ agents[k.agent] # "none"
    PROVE  AssemblyInv'
<1>1. AssemblyTypes /\ ToolsLowRisk
  BY DEF AssemblyInv
<1>2. assemblies' \in [AssemblyCalls -> AssemblyStates] /\ assemblies'[c] = k
  BY <1>1 DEF AssemblyTypes
<1>3. Others(c)
  BY <1>1 DEF Others, AssemblyTypes
<1>4. AgentsGrow
  BY DEF AgentsGrow, Ready, HasPrompt
<1>5. ToolsLowRisk'
  BY <1>1 DEF ToolsLowRisk
<1>6. /\ agents' \in [AgentIds -> {"none", "account", "active", "disabled"}] /\ agents'[Assistant] # "none"
      /\ bindings' \subseteq BindingRows /\ befriended' \subseteq AgentIds
  BY <1>1 DEF AssemblyTypes
<1> QED
  BY <1>2, <1>3, <1>4, <1>5, <1>6, AssemblyMoves

LEMMA NoAssemblyTyped ==
    NoAssembly \in AssemblyStates /\ NoAssembly.at = "idle" /\ NoAssembly.agent = Assistant /\ NoAssembly.op = "none"
BY AssemblyConstants DEF NoAssembly, AssemblyStates

(* A call ends, wherever it is. *)
LEMMA CallEndsKeeps ==
    ASSUME AssemblyInv, NEW c \in AssemblyCalls, assemblies' = [assemblies EXCEPT ![c] = NoAssembly],
           UNCHANGED <<agents, bindings, prompts, befriended, edited>>
    PROVE  AssemblyInv'
<1>1. PICK k \in AssemblyStates : k = NoAssembly
  BY NoAssemblyTyped
<1>2. k.at = "idle" /\ k.agent = Assistant /\ k.op = "none"
  BY <1>1, NoAssemblyTyped
<1>3. CallSound(k)'
  BY <1>2 DEF CallSound, ReadyAts, PromptedAts, EnsureAts, ReplaceAts
<1>4. agents[Assistant] # "none" /\ prompts' \in Nat
  BY DEF AssemblyInv, AssemblyTypes
<1> QED
  BY <1>1, <1>2, <1>3, <1>4, CallMovesOn

(* A call starts. *)
LEMMA StartKeeps ==
    ASSUME AssemblyInv, NEW c \in AssemblyCalls,
           \/ \E a \in AgentIds, ts \in ToolChoices : UpdateAgentDefinition(c, a, ts) \/ CreateAgentFromTool(c, a, ts)
           \/ EnsureForUser(c)
    PROVE  AssemblyInv'
<1>0. AssemblyTypes
  BY DEF AssemblyInv
<1> USE DEF ReadyAts, PromptedAts, EnsureAts, ReplaceAts
<1>2. ASSUME NEW a \in AgentIds, NEW ts \in ToolChoices, UpdateAgentDefinition(c, a, ts)
      PROVE  AssemblyInv'
  <2>1. PICK k : k = [NoAssembly EXCEPT !.op = "define", !.agent = a, !.tools = ts, !.at = "prompt"]
    OBVIOUS
  <2>1a. k \in AssemblyStates /\ k.op = "define" /\ k.agent = a /\ k.tools = ts /\ k.at = "prompt"
    BY <2>1, NoAssemblyTyped DEF AssemblyStates
  <2>2. /\ agents[a] \in {"active", "disabled"} /\ assemblies' = [assemblies EXCEPT ![c] = k]
        /\ edited' = edited \cup {a} /\ UNCHANGED <<agents, bindings, prompts, befriended>>
    BY <1>2, <2>1 DEF UpdateAgentDefinition, Starts
  <2>3. CallSound(k)'
    BY <2>1a, <2>2 DEF CallSound, Ready
  <2>4. prompts' \in Nat
    BY <1>0, <2>2 DEF AssemblyTypes
  <2> QED
    BY <2>1a, <2>2, <2>3, <2>4, CallMovesOn
<1>3. ASSUME NEW a \in AgentIds, NEW ts \in ToolChoices, CreateAgentFromTool(c, a, ts)
      PROVE  AssemblyInv'
  <2>1. PICK k : k = [NoAssembly EXCEPT !.op = "create", !.agent = a, !.tools = ts, !.at = "account"]
    OBVIOUS
  <2>1a. k \in AssemblyStates /\ k.op = "create" /\ k.agent = a /\ k.tools = ts /\ k.at = "account"
    BY <2>1, NoAssemblyTyped DEF AssemblyStates
  <2>2. /\ agents[a] = "none" /\ \A d \in AssemblyCalls : assemblies[d].agent # a
        /\ assemblies' = [assemblies EXCEPT ![c] = k] /\ ts \subseteq LowRisk
        /\ UNCHANGED <<agents, bindings, prompts, befriended, edited>>
    BY <1>3, <2>1 DEF CreateAgentFromTool, Starts, CreatableTools
  <2>3. CallSound(k)'
    BY <2>1a, <2>2 DEF CallSound
  <2>4. prompts' \in Nat
    BY <1>0, <2>2 DEF AssemblyTypes
  <2> QED
    BY <2>1a, <2>2, <2>3, <2>4, CallMovesOn
<1>4. CASE EnsureForUser(c)
  <2>0. Assistant \in AgentIds /\ {} \in ToolChoices \cup {{}}
    BY AssemblyConstants
  <2>1. PICK k : k = [NoAssembly EXCEPT !.op = "ensure", !.agent = Assistant, !.tools = {}, !.at = "ensureAgent"]
    OBVIOUS
  <2>1a. k \in AssemblyStates /\ k.op = "ensure" /\ k.agent = Assistant /\ k.tools = {} /\ k.at = "ensureAgent"
    BY <2>1, <2>0, NoAssemblyTyped DEF AssemblyStates
  <2>2. /\ assemblies' = [assemblies EXCEPT ![c] = k]
        /\ UNCHANGED <<agents, bindings, prompts, befriended, edited>>
    BY <1>4, <2>1 DEF EnsureForUser, Starts
  <2>3. CallSound(k)'
    BY <2>1a, <2>2 DEF CallSound
  <2>4. prompts' \in Nat /\ agents[Assistant] # "none"
    BY <1>0, <2>2 DEF AssemblyTypes
  <2> QED
    BY <2>1a, <2>2, <2>3, <2>4, CallMovesOn
<1> QED
  BY <1>2, <1>3, <1>4

(* The steps of agent.create before the bindings. *)
LEMMA AccountKeeps ==
    ASSUME AssemblyInv, NEW c \in AssemblyCalls, CreateAgentAccount(c)
    PROVE  AssemblyInv'
<1> USE DEF ReadyAts, PromptedAts, EnsureAts, ReplaceAts
<1>1. AssemblyTypes /\ AccountIsNew /\ CallsSound /\ ToolsLowRisk
  BY DEF AssemblyInv
<1>2. PICK k : k = assemblies[c]
  OBVIOUS
<1>3. PICK n : n = [k EXCEPT !.at = "agent"]
  OBVIOUS
<1>4. k \in AssemblyStates /\ k.at = "account" /\ k.agent \in AgentIds /\ agents[k.agent] = "none" /\ CallSound(k)
  BY <1>1, <1>2 DEF CreateAgentAccount, AccountIsNew, CallsSound, AssemblyTypes, AssemblyStates
<1>5. n \in AssemblyStates /\ n.at = "agent" /\ n.agent = k.agent /\ n.op = k.op /\ n.tools = k.tools
  BY <1>3, <1>4 DEF AssemblyStates
<1>6. /\ agents' = [agents EXCEPT ![k.agent] = "account"] /\ assemblies' = [assemblies EXCEPT ![c] = n]
      /\ UNCHANGED <<bindings, prompts, befriended, edited>>
  BY <1>1, <1>2, <1>3 DEF CreateAgentAccount, AssemblyTypes
<1>7. CallSound(n)'
  BY <1>4, <1>5, <1>6 DEF CallSound
<1>8. assemblies' \in [AssemblyCalls -> AssemblyStates] /\ assemblies'[c] = n /\ Others(c)
  BY <1>1, <1>5, <1>6 DEF AssemblyTypes, Others
<1>9. /\ agents' \in [AgentIds -> {"none", "account", "active", "disabled"}] /\ agents'[Assistant] # "none"
      /\ bindings' \subseteq BindingRows /\ prompts' \in Nat /\ befriended' \subseteq AgentIds
  BY <1>1, <1>4, <1>6, AssemblyConstants DEF AssemblyTypes
<1>10. AgentsGrow /\ ToolsLowRisk'
  BY <1>1, <1>4, <1>6 DEF AgentsGrow, Ready, HasPrompt, ToolsLowRisk, AssemblyTypes
<1>11. \A a \in AgentIds : agents[a] = "none" /\ (assemblies[c].at = "account" => a # assemblies[c].agent) =>
               agents'[a] = "none"
  BY <1>1, <1>2, <1>4, <1>6 DEF AssemblyTypes
<1>12. befriended' \ befriended = {}
  BY <1>6
<1> QED
  BY <1>2, <1>5, <1>7, <1>8, <1>9, <1>10, <1>11, <1>12, AssemblyMoves

(* An agent's row appears or changes its status; a call may move to n. *)
LEMMA AgentRowKeeps ==
    ASSUME AssemblyInv, NEW c \in AssemblyCalls, NEW a \in AgentIds, NEW status \in {"active", "disabled"},
           NEW n \in AssemblyStates, agents[a] # "none",
           agents' = [agents EXCEPT ![a] = status], assemblies' = [assemblies EXCEPT ![c] = n],
           UNCHANGED <<bindings, prompts, befriended, edited>>,
           n.at = "account" => n = assemblies[c], n.agent = assemblies[c].agent, CallSound(n)'
    PROVE  AssemblyInv'
<1>1. AssemblyTypes /\ AccountIsNew /\ CallsSound /\ ToolsLowRisk
  BY DEF AssemblyInv
<1>2. assemblies' \in [AssemblyCalls -> AssemblyStates] /\ assemblies'[c] = n /\ Others(c)
  BY <1>1 DEF AssemblyTypes, Others
<1>3. /\ agents' \in [AgentIds -> {"none", "account", "active", "disabled"}] /\ agents'[Assistant] # "none"
      /\ bindings' \subseteq BindingRows /\ prompts' \in Nat /\ befriended' \subseteq AgentIds
  BY <1>1, AssemblyConstants DEF AssemblyTypes
<1>4. AgentsGrow /\ ToolsLowRisk'
  BY <1>1 DEF AgentsGrow, Ready, HasPrompt, ToolsLowRisk, AssemblyTypes
<1>5. \A e \in AgentIds : agents[e] = "none" => agents'[e] = "none"
  BY <1>1 DEF AssemblyTypes
<1>6. befriended' \ befriended = {}
  OBVIOUS
<1>7. n.at = "account" => /\ agents'[n.agent] = "none"
                          /\ \A d \in AssemblyCalls \ {c} : assemblies[d].agent # n.agent
  BY <1>1, <1>5 DEF AccountIsNew, AssemblyStates
<1> QED
  BY <1>2, <1>3, <1>4, <1>5, <1>6, <1>7, AssemblyMoves

LEMMA ItsAgentKeeps ==
    ASSUME AssemblyInv, NEW c \in AssemblyCalls, CreateItsAgent(c)
    PROVE  AssemblyInv'
<1> USE DEF ReadyAts, PromptedAts, EnsureAts, ReplaceAts
<1>1. AssemblyTypes /\ CallsSound
  BY DEF AssemblyInv
<1>2. PICK k : k = assemblies[c]
  OBVIOUS
<1>3. k \in AssemblyStates /\ k.at = "agent" /\ k.agent \in AgentIds /\ CallSound(k)
  BY <1>1, <1>2 DEF CreateItsAgent, CallsSound, AssemblyTypes, AssemblyStates
<1>4. CASE agents[k.agent] # "account"
  BY <1>2, <1>4, CallEndsKeeps DEF CreateItsAgent
<1>5. CASE agents[k.agent] = "account"
  <2>1. PICK n : n = [k EXCEPT !.at = "prompt"]
    OBVIOUS
  <2>2. n \in AssemblyStates /\ n.at = "prompt" /\ n.agent = k.agent /\ n.op = k.op /\ n.tools = k.tools
    BY <1>3, <2>1 DEF AssemblyStates
  <2>3. /\ agents' = [agents EXCEPT ![k.agent] = "active"] /\ assemblies' = [assemblies EXCEPT ![c] = n]
        /\ UNCHANGED <<bindings, prompts, befriended, edited>>
    BY <1>1, <1>2, <1>5, <2>1 DEF CreateItsAgent, AssemblyTypes
  <2>4. CallSound(n)'
    BY <1>1, <1>3, <2>2, <2>3 DEF CallSound, Ready, AssemblyTypes
  <2> QED
    BY <1>2, <1>3, <1>5, <2>2, <2>3, <2>4, AgentRowKeeps
<1> QED
  BY <1>4, <1>5

LEMMA EnsureAgentKeeps ==
    ASSUME AssemblyInv, NEW c \in AssemblyCalls, EnsureAgent(c)
    PROVE  AssemblyInv'
<1> USE DEF ReadyAts, PromptedAts, EnsureAts, ReplaceAts
<1>1. AssemblyTypes /\ CallsSound
  BY DEF AssemblyInv
<1>2. PICK k : k = assemblies[c]
  OBVIOUS
<1>3. k \in AssemblyStates /\ k.at = "ensureAgent" /\ k.agent = Assistant /\ CallSound(k)
  BY <1>1, <1>2 DEF EnsureAgent, CallsSound, AssemblyTypes, CallSound
<1>4. PICK n : n = [k EXCEPT !.at = "bindPrompt"]
  OBVIOUS
<1>5. n \in AssemblyStates /\ n.at = "bindPrompt" /\ n.agent = k.agent /\ n.op = k.op /\ n.tools = k.tools
  BY <1>3, <1>4 DEF AssemblyStates
<1>6. /\ agents' = [agents EXCEPT ![Assistant] = "active"] /\ assemblies' = [assemblies EXCEPT ![c] = n]
      /\ UNCHANGED <<bindings, prompts, befriended, edited>> /\ agents[Assistant] # "none" /\ Assistant \in AgentIds
  BY <1>1, <1>2, <1>4, AssemblyConstants DEF EnsureAgent, AssemblyTypes
<1>7. CallSound(n)'
  BY <1>1, <1>3, <1>5, <1>6 DEF CallSound, Ready, AssemblyTypes
<1> QED
  BY <1>2, <1>3, <1>5, <1>6, <1>7, AgentRowKeeps

(* Calls that only write the agent's row. *)
LEMMA ManagementKeeps ==
    ASSUME AssemblyInv, NEW a \in AgentIds, NEW status \in {"active", "disabled"},
           CreateAgent(a, status) \/ UpdateAgentStatus(a, status)
    PROVE  AssemblyInv'
<1>1. /\ agents[a] # "none" /\ agents' = [agents EXCEPT ![a] = status]
      /\ UNCHANGED <<bindings, prompts, assemblies, befriended, edited>>
  BY DEF CreateAgent, UpdateAgentStatus
<1>2. AssemblyTypes /\ AccountIsNew /\ CallsSound /\ ToolsLowRisk /\ FriendsReady
  BY DEF AssemblyInv
<1>3. AssemblyTypes'
  BY <1>1, <1>2, AssemblyConstants DEF AssemblyTypes
<1>4. /\ \A e \in AgentIds : agents[e] = "none" => agents'[e] = "none"
      /\ \A e \in AgentIds : (Ready(e) => Ready(e)') /\ (HasPrompt(e) => HasPrompt(e)')
  BY <1>1, <1>2 DEF AssemblyTypes, Ready, HasPrompt
<1>5. AccountIsNew'
  BY <1>1, <1>2, <1>4 DEF AccountIsNew, AssemblyTypes, AssemblyStates
<1>6. CallsSound'
  <2> SUFFICES ASSUME NEW d \in AssemblyCalls
               PROVE  CallSound(assemblies[d])'
    BY DEF CallsSound
  <2>1. PICK k : k = assemblies[d]
    OBVIOUS
  <2>2. CallSound(k) /\ k.agent \in AgentIds
    BY <1>2, <2>1 DEF CallsSound, AssemblyTypes, AssemblyStates
  <2>3. (Ready(k.agent) => Ready(k.agent)') /\ (HasPrompt(k.agent) => HasPrompt(k.agent)')
    BY <1>4, <2>2
  <2>4. CallSound(k)'
    BY <1>1, <2>2, <2>3 DEF CallSound
  <2> QED
    BY <1>1, <2>1, <2>4 DEF CallSound, Ready, HasPrompt
<1>7. ToolsLowRisk' /\ FriendsReady'
  BY <1>1, <1>2, <1>4 DEF ToolsLowRisk, FriendsReady, AssemblyTypes, Ready, HasPrompt
<1> QED
  BY <1>3, <1>5, <1>6, <1>7 DEF AssemblyInv

LEMMA CreatePromptKeeps ==
    ASSUME AssemblyInv, NEW c \in AssemblyCalls, CreatePrompt(c)
    PROVE  AssemblyInv'
<1> USE DEF ReadyAts, PromptedAts, EnsureAts, ReplaceAts
<1>1. AssemblyTypes /\ CallsSound
  BY DEF AssemblyInv
<1>2. PICK k : k = assemblies[c]
  OBVIOUS
<1>3. k \in AssemblyStates /\ k.at = "prompt" /\ CallSound(k) /\ prompts + 1 \in Nat
  BY <1>1, <1>2 DEF CreatePrompt, CallsSound, AssemblyTypes
<1>4. PICK n : n = [k EXCEPT !.prompt = prompts + 1, !.at = "deletePrompts"]
  OBVIOUS
<1>5. n \in AssemblyStates /\ n.at = "deletePrompts" /\ n.agent = k.agent /\ n.op = k.op /\ n.tools = k.tools
  BY <1>3, <1>4 DEF AssemblyStates
<1>6. /\ assemblies' = [assemblies EXCEPT ![c] = n] /\ prompts' \in Nat
      /\ UNCHANGED <<agents, bindings, befriended, edited>>
  BY <1>1, <1>2, <1>3, <1>4 DEF CreatePrompt, AssemblyTypes
<1>7. CallSound(n)'
  BY <1>3, <1>5, <1>6 DEF CallSound, Ready
<1> QED
  BY <1>2, <1>5, <1>6, <1>7, CallMovesOn

LEMMA DeleteKeeps ==
    ASSUME AssemblyInv, NEW c \in AssemblyCalls, UNCHANGED <<agents, prompts, befriended, edited>>,
           \/ assemblies[c].at = "deletePrompts" /\ DeleteBindings(c, "prompt", "insertPrompts")
           \/ assemblies[c].at = "deleteTools" /\ DeleteBindings(c, "tool", "insertTools")
    PROVE  AssemblyInv'
<1> USE DEF ReadyAts, PromptedAts, EnsureAts, ReplaceAts
<1>1. AssemblyTypes /\ CallsSound
  BY DEF AssemblyInv
<1>2. PICK k : k = assemblies[c]
  OBVIOUS
<1>3. k \in AssemblyStates /\ CallSound(k)
  BY <1>1, <1>2 DEF CallsSound, AssemblyTypes
<1>4. ASSUME NEW t \in {"prompt", "tool"}, NEW next \in {"insertPrompts", "insertTools"},
             DeleteBindings(c, t, next),
             \/ k.at = "deletePrompts" /\ t = "prompt" /\ next = "insertPrompts"
             \/ k.at = "deleteTools" /\ t = "tool" /\ next = "insertTools"
      PROVE  AssemblyInv'
  <2>1. PICK s : s = Of(k.agent, t)
    OBVIOUS
  <2>2. s \subseteq BindingRows /\ \A b \in s : b.agent = k.agent /\ b.table = t
    BY <1>1, <2>1 DEF Of, AssemblyTypes
  <2>3. PICK n : n = [k EXCEPT !.seen = s, !.at = next]
    OBVIOUS
  <2>4. /\ n \in AssemblyStates /\ n.at = next /\ n.agent = k.agent /\ n.op = k.op /\ n.tools = k.tools
        /\ n.seen = s
    BY <1>3, <2>2, <2>3 DEF AssemblyStates
  <2>5. assemblies' = [assemblies EXCEPT ![c] = n] /\ bindings' = bindings
    BY <1>1, <1>2, <1>4, <2>1, <2>3 DEF DeleteBindings, AssemblyTypes
  <2>6. CallSound(n)'
    BY <1>3, <1>4, <2>2, <2>4, <2>5 DEF CallSound, Ready, HasPrompt
  <2>7. prompts' \in Nat
    BY <1>1 DEF AssemblyTypes
  <2> QED
    BY <1>2, <1>4, <2>4, <2>5, <2>6, <2>7, CallMovesOn
<1>5. /\ "prompt" \in {"prompt", "tool"} /\ "tool" \in {"prompt", "tool"}
      /\ "insertPrompts" \in {"insertPrompts", "insertTools"} /\ "insertTools" \in {"insertPrompts", "insertTools"}
  OBVIOUS
<1>6. CASE assemblies[c].at = "deletePrompts" /\ DeleteBindings(c, "prompt", "insertPrompts")
  <2>1. k.at = "deletePrompts"
    BY <1>2, <1>6
  <2> QED
    BY <1>4, <1>5, <1>6, <2>1, Zenon
<1>7. CASE assemblies[c].at = "deleteTools" /\ DeleteBindings(c, "tool", "insertTools")
  <2>1. k.at = "deleteTools"
    BY <1>2, <1>7
  <2> QED
    BY <1>4, <1>5, <1>7, <2>1, Zenon
<1> QED
  BY <1>6, <1>7

(* The inserts of a replacement and its commit: of an agent's prompts the   *)
(* new one takes the place of those it deletes, and its tools stay the ones *)
(* that were asked for.                                                     *)
LEMMA InsertKeeps ==
    ASSUME AssemblyInv, NEW c \in AssemblyCalls, NEW t \in {"prompt", "tool"},
           NEW next \in {"deleteTools", "befriend", "idle"}, NEW refs \in SUBSET Refs,
           InsertBindings(c, t, refs, next), UNCHANGED <<agents, prompts, befriended, edited>>,
           \/ /\ assemblies[c].at = "insertPrompts" /\ t = "prompt" /\ refs = {assemblies[c].prompt}
              /\ next = "deleteTools"
           \/ /\ assemblies[c].at = "insertTools" /\ t = "tool" /\ refs = assemblies[c].tools
              /\ next = IF assemblies[c].op = "create" THEN "befriend" ELSE "idle"
    PROVE  AssemblyInv'
<1> USE DEF ReadyAts, PromptedAts, EnsureAts, ReplaceAts
<1>1. AssemblyTypes /\ CallsSound /\ ToolsLowRisk
  BY DEF AssemblyInv
<1>2. PICK k : k = assemblies[c]
  OBVIOUS
<1>3. k \in AssemblyStates /\ CallSound(k) /\ k.agent \in AgentIds /\ k.seen \subseteq BindingRows
  BY <1>1, <1>2 DEF CallsSound, AssemblyTypes, AssemblyStates
<1>4. \A b \in k.seen : b.agent = k.agent /\ b.table = t
  BY <1>2, <1>3 DEF CallSound
<1>5. CASE assemblies' = [assemblies EXCEPT ![c] = NoAssembly] /\ UNCHANGED bindings
  BY <1>5, CallEndsKeeps
<1>6. CASE /\ bindings' = (bindings \ k.seen) \cup {Row(k.agent, t, r) : r \in refs}
           /\ assemblies' =
                [d \in AssemblyCalls |->
                   IF d # c THEN [assemblies[d] EXCEPT !.seen = @ \ k.seen]
                   ELSE IF next = "idle" THEN NoAssembly
                   ELSE [k EXCEPT !.seen = {}, !.at = next]]
  <2>1. PICK n : n = IF next = "idle" THEN NoAssembly ELSE [k EXCEPT !.seen = {}, !.at = next]
    OBVIOUS
  <2>2. /\ n \in AssemblyStates /\ n.at = next
        /\ \/ n.agent = k.agent /\ n.op = k.op /\ n.tools = k.tools
           \/ n.agent = Assistant /\ n.op = "none" /\ next = "idle"
    <3>1. CASE next = "idle"
      BY <2>1, <3>1, NoAssemblyTyped
    <3>2. CASE next # "idle"
      <4>1. n = [k EXCEPT !.seen = {}, !.at = next]
        BY <2>1, <3>2
      <4>2. {} \in SUBSET BindingRows /\ next \in {"idle", "befriend"} \cup EnsureAts \cup ReplaceAts
        OBVIOUS
      <4>3. n \in AssemblyStates
        BY <1>3, <4>1, <4>2 DEF AssemblyStates
      <4>4. n.at = next /\ n.agent = k.agent /\ n.op = k.op /\ n.tools = k.tools
        BY <1>3, <4>1 DEF AssemblyStates
      <4> QED
        BY <4>3, <4>4
    <3> QED
      BY <3>1, <3>2
  <2>3. assemblies'[c] = n
    BY <1>6, <2>1
  <2>4. \A d \in AssemblyCalls \ {c} : assemblies'[d] = [assemblies[d] EXCEPT !.seen = @ \ k.seen]
    BY <1>6
  <2>5. \A d \in AssemblyCalls \ {c} : assemblies'[d] \in AssemblyStates
    <3> SUFFICES ASSUME NEW d \in AssemblyCalls \ {c}
                 PROVE  assemblies'[d] \in AssemblyStates
      OBVIOUS
    <3>1. assemblies[d] \in AssemblyStates
      BY <1>1 DEF AssemblyTypes
    <3>2. assemblies[d].seen \ k.seen \in SUBSET BindingRows
      BY <3>1 DEF AssemblyStates
    <3>3. assemblies'[d] = [assemblies[d] EXCEPT !.seen = assemblies[d].seen \ k.seen]
      BY <2>4
    <3> QED
      BY <3>1, <3>2, <3>3 DEF AssemblyStates
  <2>6. assemblies' \in [AssemblyCalls -> AssemblyStates]
    <3>1. \A d \in AssemblyCalls : assemblies'[d] \in AssemblyStates
      BY <2>2, <2>3, <2>5
    <3>2. PICK f : f = assemblies'
      OBVIOUS
    <3>3. f = [d \in AssemblyCalls |-> f[d]]
      BY <1>6, <3>2
    <3> QED
      BY <3>1, <3>2, <3>3
  <2>7. Others(c)
    <3> SUFFICES ASSUME NEW d \in AssemblyCalls \ {c}
                 PROVE  /\ assemblies'[d].op = assemblies[d].op /\ assemblies'[d].agent = assemblies[d].agent
                        /\ assemblies'[d].tools = assemblies[d].tools /\ assemblies'[d].at = assemblies[d].at
                        /\ assemblies'[d].todo = assemblies[d].todo /\ assemblies'[d].seen \subseteq assemblies[d].seen
      BY DEF Others
    <3>1. assemblies[d] \in AssemblyStates
      BY <1>1 DEF AssemblyTypes
    <3>2. PICK S : S = assemblies[d].seen \ k.seen
      OBVIOUS
    <3>3. assemblies'[d] = [assemblies[d] EXCEPT !.seen = S]
      BY <2>4, <3>2
    <3>4. /\ assemblies'[d].op = assemblies[d].op /\ assemblies'[d].agent = assemblies[d].agent
          /\ assemblies'[d].tools = assemblies[d].tools /\ assemblies'[d].at = assemblies[d].at
          /\ assemblies'[d].todo = assemblies[d].todo /\ assemblies'[d].seen = S
      BY <3>1, <3>3 DEF AssemblyStates
    <3> QED
      BY <3>2, <3>4
  <2>8. \A r \in refs : Row(k.agent, t, r) \in bindings' /\ Row(k.agent, t, r) \in BindingRows
    BY <1>3, <1>6 DEF Row, BindingRows
  <2>9. \A b \in bindings' : b \in bindings \/ \E r \in refs : b = Row(k.agent, t, r)
    BY <1>6
  <2>10. bindings' \subseteq BindingRows
    BY <1>1, <2>8, <2>9 DEF AssemblyTypes
  <2>11. \A b \in bindings : b.agent # k.agent \/ b.table # t => b \in bindings'
    BY <1>4, <1>6
  <2>12. t = "prompt" => HasPrompt(k.agent)'
    <3> SUFFICES ASSUME t = "prompt"
                 PROVE  HasPrompt(k.agent)'
      OBVIOUS
    <3>1. refs = {k.prompt}
      BY <1>2
    <3>2. Row(k.agent, "prompt", k.prompt) \in bindings'
      BY <2>8, <3>1
    <3> QED
      BY <3>2 DEF HasPrompt, Row
  <2>13. AgentsGrow
    <3>1. ASSUME NEW a \in AgentIds, HasPrompt(a)
          PROVE  HasPrompt(a)'
      <4>1. PICK b \in bindings : b.agent = a /\ b.table = "prompt"
        BY <3>1 DEF HasPrompt
      <4>2. CASE a = k.agent /\ t = "prompt"
        BY <2>12, <4>2
      <4>3. CASE ~(a = k.agent /\ t = "prompt")
        BY <2>11, <4>1, <4>3 DEF HasPrompt
      <4> QED
        BY <4>2, <4>3
    <3> QED
      BY <3>1 DEF AgentsGrow, Ready
  <2>14. ToolsLowRisk'
    <3> SUFFICES ASSUME NEW b \in bindings', b.table = "tool", b.agent \notin edited \cup {Assistant}
                 PROVE  b.ref \in LowRisk
      BY DEF ToolsLowRisk
    <3>1. CASE b \in bindings
      BY <1>1, <3>1 DEF ToolsLowRisk
    <3>2. CASE \E r \in refs : b = Row(k.agent, t, r)
      <4>1. PICK r \in refs : b = Row(k.agent, t, r)
        BY <3>2
      <4>2. b.agent = k.agent /\ t = "tool" /\ b.ref = r
        BY <4>1 DEF Row
      <4>3. refs = k.tools /\ k.at = "insertTools"
        BY <1>2, <4>2
      <4>4. k.op = "create"
        BY <1>3, <4>2, <4>3 DEF CallSound
      <4> QED
        BY <1>3, <4>2, <4>3, <4>4 DEF CallSound
    <3> QED
      BY <2>9, <3>1, <3>2
  <2>15. CallSound(n)'
    <3>1. Ready(k.agent)' /\ (k.at = "insertTools" => HasPrompt(k.agent))
      BY <1>2, <1>3 DEF CallSound, Ready
    <3>2. HasPrompt(k.agent)'
      BY <1>2, <1>3, <2>12, <2>13, <3>1 DEF AgentsGrow
    <3>3. CASE next = "idle"
      BY <1>2, <1>3, <2>1, <3>3, NoAssemblyTyped DEF CallSound
    <3>4. CASE next # "idle"
      <4>1. n.agent = k.agent /\ n.op = k.op /\ n.tools = k.tools
        BY <2>2, <3>4
      <4>2. k.op \in {"define", "create"} /\ (next = "befriend" => k.op = "create")
        BY <1>2, <1>3 DEF CallSound
      <4>3. /\ n.op = "define" => n.agent \in edited'
            /\ n.op = "create" => n.tools \subseteq LowRisk
        BY <1>3, <4>1 DEF CallSound
      <4>4. Ready(n.agent)' /\ HasPrompt(n.agent)'
        BY <3>1, <3>2, <4>1
      <4> QED
        BY <2>2, <3>4, <4>1, <4>2, <4>3, <4>4 DEF CallSound
    <3> QED
      BY <3>3, <3>4
  <2>16. /\ agents' \in [AgentIds -> {"none", "account", "active", "disabled"}] /\ agents'[Assistant] # "none"
         /\ prompts' \in Nat /\ befriended' \subseteq AgentIds /\ befriended' \ befriended = {}
         /\ agents[Assistant] # "none"
    BY <1>1 DEF AssemblyTypes
  <2>17. n.at # "account" /\ (n.agent = assemblies[c].agent \/ agents[n.agent] # "none")
    BY <1>2, <2>2, <2>16
  <2>18. \A a \in AgentIds : agents[a] = "none" => agents'[a] = "none"
    OBVIOUS
  <2> QED
    BY <2>2, <2>3, <2>6, <2>7, <2>10, <2>13, <2>14, <2>15, <2>16, <2>17, <2>18, AssemblyMoves
<1> QED
  BY <1>2, <1>5, <1>6 DEF InsertBindings

LEMMA BefriendKeeps ==
    ASSUME AssemblyInv, NEW c \in AssemblyCalls, Befriend(c)
    PROVE  AssemblyInv'
<1> USE DEF ReadyAts, PromptedAts, EnsureAts, ReplaceAts
<1>1. AssemblyTypes /\ CallsSound /\ ToolsLowRisk
  BY DEF AssemblyInv
<1>2. PICK k : k = assemblies[c]
  OBVIOUS
<1>3. k \in AssemblyStates /\ k.agent \in AgentIds /\ Ready(k.agent) /\ HasPrompt(k.agent)
  BY <1>1, <1>2 DEF Befriend, CallsSound, CallSound, AssemblyTypes, AssemblyStates
<1>4. /\ befriended' = befriended \cup {k.agent} /\ assemblies' = [assemblies EXCEPT ![c] = NoAssembly]
      /\ UNCHANGED <<agents, bindings, prompts, edited>>
  BY <1>2 DEF Befriend
<1>5. PICK n \in AssemblyStates : n = NoAssembly
  BY NoAssemblyTyped
<1>6. n.at = "idle" /\ n.agent = Assistant /\ n.op = "none"
  BY <1>5, NoAssemblyTyped
<1>7. CallSound(n)'
  BY <1>6 DEF CallSound
<1>8. assemblies' \in [AssemblyCalls -> AssemblyStates] /\ assemblies'[c] = n /\ Others(c)
  BY <1>1, <1>4, <1>5 DEF AssemblyTypes, Others
<1>9. /\ agents' \in [AgentIds -> {"none", "account", "active", "disabled"}] /\ agents'[Assistant] # "none"
      /\ bindings' \subseteq BindingRows /\ prompts' \in Nat /\ befriended' \subseteq AgentIds
      /\ agents[Assistant] # "none"
  BY <1>1, <1>3, <1>4 DEF AssemblyTypes
<1>10. AgentsGrow /\ ToolsLowRisk'
  BY <1>1, <1>4 DEF AgentsGrow, Ready, HasPrompt, ToolsLowRisk
<1>11. \A a \in AgentIds : agents[a] = "none" => agents'[a] = "none"
  BY <1>4
<1>12. \A a \in befriended' \ befriended : Ready(a)' /\ HasPrompt(a)'
  BY <1>3, <1>4 DEF Ready, HasPrompt
<1> QED
  BY <1>5, <1>6, <1>7, <1>8, <1>9, <1>10, <1>11, <1>12, AssemblyMoves

(* BindPrompt and BindTool for the default assistant. *)
LEMMA BindOneKeeps ==
    ASSUME AssemblyInv, NEW c \in AssemblyCalls, NEW t \in {"prompt", "tool"}, NEW r \in Refs, NEW n \in AssemblyStates,
           BindOne(Assistant, t, r), assemblies' = [assemblies EXCEPT ![c] = n],
           UNCHANGED <<agents, prompts, befriended, edited>>,
           n.at # "account", n.agent = assemblies[c].agent,
           (t = "prompt" => HasPrompt(Assistant)') /\ (\A a \in AgentIds : HasPrompt(a) => HasPrompt(a)') => CallSound(n)'
    PROVE  AssemblyInv'
<1>1. AssemblyTypes /\ ToolsLowRisk
  BY DEF AssemblyInv
<1>2. Row(Assistant, t, r) \in BindingRows
  BY AssemblyConstants DEF Row, BindingRows
<1>3. \/ bindings' = bindings /\ \E b \in bindings : b.agent = Assistant /\ b.table = t
      \/ bindings' = bindings \cup {Row(Assistant, t, r)}
  BY DEF BindOne, Of
<1>4. bindings' \subseteq BindingRows /\ bindings \subseteq bindings'
  BY <1>1, <1>2, <1>3 DEF AssemblyTypes
<1>5. \A a \in AgentIds : (Ready(a) => Ready(a)') /\ (HasPrompt(a) => HasPrompt(a)')
  BY <1>4 DEF Ready, HasPrompt
<1>6. AgentsGrow
  BY <1>5 DEF AgentsGrow
<1>7. t = "prompt" => HasPrompt(Assistant)'
  <2>1. Row(Assistant, t, r).agent = Assistant /\ Row(Assistant, t, r).table = t
    BY DEF Row
  <2> QED
    BY <1>3, <2>1 DEF HasPrompt
<1>8. CallSound(n)'
  BY <1>5, <1>7
<1>9. ToolsLowRisk'
  <2>1. Row(Assistant, t, r).agent = Assistant
    BY DEF Row
  <2> QED
    BY <1>1, <1>3, <2>1 DEF ToolsLowRisk
<1>10. assemblies' \in [AssemblyCalls -> AssemblyStates] /\ assemblies'[c] = n /\ Others(c)
  BY <1>1 DEF AssemblyTypes, Others
<1>11. /\ agents' \in [AgentIds -> {"none", "account", "active", "disabled"}] /\ agents'[Assistant] # "none"
       /\ prompts' \in Nat /\ befriended' \subseteq AgentIds /\ befriended' \ befriended = {}
       /\ \A a \in AgentIds : agents[a] = "none" => agents'[a] = "none"
  BY <1>1 DEF AssemblyTypes
<1> QED
  BY <1>4, <1>6, <1>8, <1>9, <1>10, <1>11, AssemblyMoves

LEMMA EnsurePromptKeeps ==
    ASSUME AssemblyInv, NEW c \in AssemblyCalls, EnsurePrompt(c)
    PROVE  AssemblyInv'
<1> USE DEF ReadyAts, PromptedAts, EnsureAts, ReplaceAts
<1>1. AssemblyTypes /\ CallsSound
  BY DEF AssemblyInv
<1>2. PICK k : k = assemblies[c]
  OBVIOUS
<1>3. k \in AssemblyStates /\ k.at = "bindPrompt" /\ k.agent = Assistant /\ CallSound(k)
  BY <1>1, <1>2 DEF EnsurePrompt, CallsSound, AssemblyTypes, CallSound
<1>4. AssistantTools \in Seq({"python.execute", "agent.create", "time.now", "web.search"}) /\ AssistantTools # <<>>
  BY DEF AssistantTools
<1>5. PICK n : n = [k EXCEPT !.at = "bindTools", !.todo = AssistantTools]
  OBVIOUS
<1>6. /\ n \in AssemblyStates /\ n.at = "bindTools" /\ n.agent = Assistant /\ n.op = k.op /\ n.tools = k.tools
      /\ n.todo # <<>>
  BY <1>3, <1>4, <1>5 DEF AssemblyStates
<1>7. /\ assemblies' = [assemblies EXCEPT ![c] = n] /\ BindOne(Assistant, "prompt", 0)
      /\ UNCHANGED <<agents, prompts, befriended, edited>>
  BY <1>1, <1>2, <1>5 DEF EnsurePrompt, AssemblyTypes
<1>8. ASSUME HasPrompt(Assistant)'
      PROVE  CallSound(n)'
  BY <1>3, <1>6, <1>7, <1>8 DEF CallSound, Ready
<1>9. 0 \in Refs /\ "prompt" \in {"prompt", "tool"}
  BY DEF Refs
<1> QED
  BY <1>2, <1>3, <1>6, <1>7, <1>8, <1>9, BindOneKeeps

LEMMA EnsureToolKeeps ==
    ASSUME AssemblyInv, NEW c \in AssemblyCalls, EnsureTool(c)
    PROVE  AssemblyInv'
<1> USE DEF ReadyAts, PromptedAts, EnsureAts, ReplaceAts
<1> DEFINE Tools == {"python.execute", "agent.create", "time.now", "web.search"}
<1>1. AssemblyTypes /\ CallsSound
  BY DEF AssemblyInv
<1>2. PICK k : k = assemblies[c]
  OBVIOUS
<1>3. k \in AssemblyStates /\ k.at = "bindTools" /\ k.agent = Assistant /\ CallSound(k) /\ k.todo \in Seq(Tools) /\ k.todo # <<>>
  BY <1>1, <1>2 DEF EnsureTool, CallsSound, AssemblyTypes, CallSound, AssemblyStates
<1>4. Head(k.todo) \in Tools /\ Tail(k.todo) \in Seq(Tools)
  BY <1>3
<1>5. PICK at : at = IF Tail(k.todo) = <<>> THEN "befriend" ELSE "bindTools"
  OBVIOUS
<1>6. PICK n : n = [k EXCEPT !.todo = Tail(k.todo), !.at = at]
  OBVIOUS
<1>7. /\ n \in AssemblyStates /\ n.at = at /\ n.agent = Assistant /\ n.op = k.op /\ n.tools = k.tools
      /\ n.todo = Tail(k.todo) /\ at \in {"befriend", "bindTools"}
  BY <1>3, <1>4, <1>5, <1>6 DEF AssemblyStates
<1>8. /\ assemblies' = [assemblies EXCEPT ![c] = n] /\ BindOne(Assistant, "tool", Head(k.todo))
      /\ UNCHANGED <<agents, prompts, befriended, edited>>
  BY <1>1, <1>2, <1>3, <1>5, <1>6 DEF EnsureTool, AssemblyTypes, AssemblyStates
<1>9. ASSUME \A a \in AgentIds : HasPrompt(a) => HasPrompt(a)'
      PROVE  CallSound(n)'
  <2>1. HasPrompt(Assistant)' /\ Ready(Assistant)'
    BY <1>3, <1>8, <1>9, AssemblyConstants DEF CallSound, Ready
  <2> QED
    BY <1>3, <1>5, <1>7, <1>8, <2>1 DEF CallSound
<1>10. Head(k.todo) \in Refs /\ "tool" \in {"prompt", "tool"}
  <2>1. Tools \subseteq Refs
    BY DEF Refs
  <2> QED
    BY <1>4, <2>1
<1> QED
  BY <1>2, <1>3, <1>7, <1>8, <1>9, <1>10, BindOneKeeps

LEMMA ReplaceKeeps ==
    ASSUME AssemblyInv, NEW c \in AssemblyCalls, ReplaceBindings(c)
    PROVE  AssemblyInv'
<1>1. PICK k : k = assemblies[c]
  OBVIOUS
<1>2. {k.prompt} \in SUBSET Refs /\ k.tools \in SUBSET Refs
  BY <1>1 DEF AssemblyInv, AssemblyTypes, AssemblyStates, Refs
<1>3. UNCHANGED <<agents, prompts, befriended, edited>>
  BY DEF ReplaceBindings
<1>4. PICK after : after = IF k.op = "create" THEN "befriend" ELSE "idle"
  OBVIOUS
<1>5. /\ "prompt" \in {"prompt", "tool"} /\ "tool" \in {"prompt", "tool"}
      /\ "deleteTools" \in {"deleteTools", "befriend", "idle"} /\ after \in {"deleteTools", "befriend", "idle"}
  BY <1>4
<1>6. \/ k.at = "deletePrompts" /\ DeleteBindings(c, "prompt", "insertPrompts")
      \/ k.at = "insertPrompts" /\ InsertBindings(c, "prompt", {k.prompt}, "deleteTools")
      \/ k.at = "deleteTools" /\ DeleteBindings(c, "tool", "insertTools")
      \/ k.at = "insertTools" /\ InsertBindings(c, "tool", k.tools, after)
  BY <1>1, <1>4 DEF ReplaceBindings
<1>7. CASE \/ k.at = "deletePrompts" /\ DeleteBindings(c, "prompt", "insertPrompts")
           \/ k.at = "deleteTools" /\ DeleteBindings(c, "tool", "insertTools")
  BY <1>1, <1>3, <1>7, DeleteKeeps
<1>8. CASE k.at = "insertPrompts" /\ InsertBindings(c, "prompt", {k.prompt}, "deleteTools")
  BY <1>1, <1>2, <1>3, <1>5, <1>8, InsertKeeps
<1>9. CASE k.at = "insertTools" /\ InsertBindings(c, "tool", k.tools, after)
  BY <1>1, <1>2, <1>3, <1>4, <1>5, <1>9, InsertKeeps
<1> QED
  BY <1>6, <1>7, <1>8, <1>9

LEMMA AssemblyInitSound == AssemblyInit => AssemblyInv
<1> SUFFICES ASSUME AssemblyInit
             PROVE  AssemblyInv
  OBVIOUS
<1> USE DEF ReadyAts, PromptedAts, EnsureAts, ReplaceAts
<1>1. \A c \in AssemblyCalls : assemblies[c] = NoAssembly /\ assemblies[c].at = "idle" /\ assemblies[c].op = "none"
  BY NoAssemblyTyped DEF AssemblyInit
<1>2. AssemblyTypes
  BY NoAssemblyTyped, AssemblyConstants DEF AssemblyInit, AssemblyTypes
<1>3. AccountIsNew /\ CallsSound
  BY <1>1 DEF AccountIsNew, CallsSound, CallSound
<1>4. ToolsLowRisk /\ FriendsReady
  BY DEF AssemblyInit, ToolsLowRisk, FriendsReady
<1> QED
  BY <1>2, <1>3, <1>4 DEF AssemblyInv

LEMMA AssemblyStep == AssemblyInv /\ [AssemblyNext]_assemblyVars => AssemblyInv'
<1> SUFFICES ASSUME AssemblyInv, [AssemblyNext]_assemblyVars
             PROVE  AssemblyInv'
  OBVIOUS
<1>1. CASE UNCHANGED assemblyVars
  BY <1>1 DEF assemblyVars, AssemblyInv, AssemblyTypes, AccountIsNew, CallsSound, CallSound, ToolsLowRisk, FriendsReady,
     Ready, HasPrompt
<1>2. ASSUME NEW c \in AssemblyCalls,
             \/ \E a \in AgentIds, ts \in ToolChoices :
                   UpdateAgentDefinition(c, a, ts) \/ CreateAgentFromTool(c, a, ts)
             \/ EnsureForUser(c)
      PROVE  AssemblyInv'
  BY <1>2, StartKeeps
<1>3. ASSUME NEW c \in AssemblyCalls, CreateAgentAccount(c)
      PROVE  AssemblyInv'
  BY <1>3, AccountKeeps
<1>4. ASSUME NEW c \in AssemblyCalls, CreateItsAgent(c)
      PROVE  AssemblyInv'
  BY <1>4, ItsAgentKeeps
<1>5. ASSUME NEW c \in AssemblyCalls, CreatePrompt(c)
      PROVE  AssemblyInv'
  BY <1>5, CreatePromptKeeps
<1>6. ASSUME NEW c \in AssemblyCalls, ReplaceBindings(c)
      PROVE  AssemblyInv'
  BY <1>6, ReplaceKeeps
<1>7. ASSUME NEW c \in AssemblyCalls, Befriend(c)
      PROVE  AssemblyInv'
  BY <1>7, BefriendKeeps
<1>8. ASSUME NEW c \in AssemblyCalls, EnsureAgent(c) \/ EnsurePrompt(c) \/ EnsureTool(c)
      PROVE  AssemblyInv'
  BY <1>8, EnsureAgentKeeps, EnsurePromptKeeps, EnsureToolKeeps
<1>9. ASSUME NEW c \in AssemblyCalls, AssemblyFails(c)
      PROVE  AssemblyInv'
  BY <1>9, CallEndsKeeps DEF AssemblyFails
<1>10. ASSUME NEW a \in AgentIds, NEW status \in {"active", "disabled"},
              CreateAgent(a, status) \/ UpdateAgentStatus(a, status)
       PROVE  AssemblyInv'
  BY <1>10, ManagementKeeps
<1> QED
  BY <1>1, <1>2, <1>3, <1>4, <1>5, <1>6, <1>7, <1>8, <1>9, <1>10 DEF AssemblyNext

(* An agent that a user has as a friend has its row and a system prompt,    *)
(* and low-risk tools only when agent.create made it and nobody edited it:  *)
(* CreateAgentFromTool, EnsureForUser and UpdateAgentDefinition commit one  *)
(* statement at a time, overlap and may stop anywhere (assembly.go,         *)
(* default_assistant.go).                                                   *)
THEOREM FriendsCanAnswer == AssemblySpec => []FriendlyIsReady
<1>1. AssemblyInv => FriendlyIsReady
  <2> SUFFICES ASSUME AssemblyInv, NEW a \in befriended
               PROVE  /\ agents[a] \in {"active", "disabled"}
                      /\ Of(a, "prompt") # {}
                      /\ a \notin edited \cup {Assistant} => {b.ref : b \in Of(a, "tool")} \subseteq LowRisk
    BY DEF FriendlyIsReady
  <2>1. Ready(a) /\ HasPrompt(a)
    BY DEF AssemblyInv, FriendsReady
  <2>2. Of(a, "prompt") # {}
    BY <2>1 DEF HasPrompt, Of
  <2>3. a \notin edited \cup {Assistant} => \A b \in Of(a, "tool") : b.ref \in LowRisk
    BY DEF AssemblyInv, ToolsLowRisk, Of
  <2> QED
    BY <2>1, <2>2, <2>3 DEF Ready
<1> QED
  BY <1>1, AssemblyInitSound, AssemblyStep, PTL DEF AssemblySpec

-----------------------------------------------------------------------------
(*                     The two ways to answer together                     *)

(* The private chat and the hosted one share no state: in every scene a     *)
(* step of one is a step of it or leaves it alone.  So the types of both    *)
(* hold of the agent service as TLC runs it (AgentSpec).                    *)
THEOREM AgentTyped == AgentSpec => []AgentTypeOK
<1> DEFINE AnyStep == [AgentNext]_<<vars, hostingVars, runtimeVars, sinkVars, scene>>
<1>1. AnyStep => [Next]_vars /\ [HostingNext]_hostingVars
  BY DEF AgentNext, MCNext, MCPrivateNext
<1>2. AgentInit => CoalescerInv /\ HostingInv
  BY CoalescerInit, HostingStarts DEF AgentInit
<1>3. CoalescerInv /\ HostingInv /\ AnyStep => (CoalescerInv /\ HostingInv)'
  BY <1>1, CoalescerStep, HostingInductive
<1>4. CoalescerInv /\ HostingInv => AgentTypeOK
  BY TypesAreHostingTypeOK DEF CoalescerInv, HostingInv, AgentTypeOK
<1> QED
  BY <1>2, <1>3, <1>4, PTL DEF AgentSpec
==============================================================================
