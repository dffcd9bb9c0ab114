------------------------------- MODULE Hosting -------------------------------
(***************************************************************************)
(* AI replies outside private agent chats: chats of two humans one of whom *)
(* has switched AI hosting on, and agents mentioned in groups.  The        *)
(* agent.trigger consumer (agent/rpc/internal/consumer) judges each event  *)
(* (trigger/judge.go), claims it in agent_trigger_idempotency              *)
(* (orchestrator/hosting.go, aghosting, model/agent_trigger_idempotency_   *)
(* model.go) and starts a goroutine that runs the agent and writes its     *)
(* answer as an ordinary message (orchestrator/runner.go,                  *)
(* response_writer.go).                                                    *)
(*                                                                         *)
(* Each call to the database or to another service is one step.  The       *)
(* transfer consumer's answer to a written message is one step with it: a  *)
(* message is accepted unless one with its client_msg_id was (module       *)
(* Transfer), and accepted messages come back on agent.trigger.            *)
(***************************************************************************)
EXTENDS Integers, Sequences, FiniteSets

CONSTANTS
    Accounts,           \* account ids
    Bots,               \* the ones with the agent type bits
    Chats, Rooms,       \* single and group conversations
    Participants,       \* [Chats \cup Rooms -> SUBSET Accounts], initially
    HumanMsgs,          \* messages people may send
    ChatOf, AuthorOf,   \* of a message
    AtUsers,            \* [HumanMsgs -> SUBSET Accounts], payload.at_user_ids
    MaxTriggers,        \* bound: records not written by agents
    MaxHostingFaults    \* bound: failed calls, timeouts, crashes

ASSUME HostingConstants ==
    /\ Bots \subseteq Accounts
    /\ Participants \in [Chats \cup Rooms -> SUBSET Accounts]
    /\ ChatOf \in [HumanMsgs -> Chats \cup Rooms] /\ AuthorOf \in [HumanMsgs -> Accounts]
    /\ AtUsers \in [HumanMsgs -> SUBSET Accounts]
    /\ MaxTriggers \in Nat /\ MaxHostingFaults \in Nat

VARIABLES
    trigLog,    \* log of agent.trigger.v1
    hCommitted, \* committed offset of the consumer group
    hCur,       \* the last record HandleBatch is done with
    sched,      \* the triggers of the next record, and what ScheduleTrigger is doing with one
    enabled,    \* conversation_ai_hosting_settings: owners with enabled = true
    roster,     \* active members of the groups
    archived,   \* human messages in the messages table
    ledger,     \* agent_trigger_idempotency: status of a key
    runs,       \* the goroutines of runAcceptedTriggerAsync
    chatLog,    \* agent messages the pipeline accepted
    runCount,   \* runs started, to tell them apart
    hFaults     \* failures so far

consumerVars == <<hCommitted, hCur, sched>>
settingVars == <<enabled, roster, archived>>
hostingVars == <<trigLog, consumerVars, settingVars, ledger, runs, chatLog, runCount, hFaults>>

Idle == [todo |-> {}, at |-> "judge", agent |-> {}]

(* An event carries what the judge looks at; its id is unique per send, and *)
(* the same for every admin replay of a message.                            *)
Event(id, m, visible) ==
    [id |-> id, msg |-> m, chat |-> ChatOf[m], author |-> AuthorOf[m], ai |-> FALSE,
     at |-> AtUsers[m], visible |-> visible]

(* RequestID = event_id:agent. *)
RequestID(e, a) == [event |-> e.id, msg |-> e.msg, chat |-> e.chat, agent |-> a]

(* Status of a ledger row; "expired" is running for longer than the TTL. *)
Status(k) == IF k \in DOMAIN ledger THEN ledger[k] ELSE "absent"
SetStatus(k, s) == [x \in DOMAIN ledger \cup {k} |-> IF x = k THEN s ELSE ledger[x]]

HostingInit ==
    /\ trigLog = <<>> /\ hCommitted = 0 /\ hCur = 0 /\ sched = Idle
    /\ enabled = [c \in Chats |-> {}]
    /\ roster = [r \in Rooms |-> Participants[r]]
    /\ archived = {}
    /\ ledger = [k \in {} |-> "absent"]
    /\ runs = {} /\ chatLog = {} /\ runCount = 0
    /\ hFaults = 0

HFault == hFaults < MaxHostingFaults /\ hFaults' = hFaults + 1
-----------------------------------------------------------------------------
(* What the consumer and the runs work on. *)

HumanRecords == {n \in DOMAIN trigLog : ~trigLog[n].ai}

(* msg-rpc SendMessage and the transfer consumer. *)
SendHuman(m) ==
    LET visible == IF ChatOf[m] \in Rooms THEN roster[ChatOf[m]] ELSE Participants[ChatOf[m]]
    IN  /\ Cardinality(HumanRecords) < MaxTriggers
        /\ \A n \in DOMAIN trigLog : trigLog[n].msg # m
        /\ AuthorOf[m] \in visible
        /\ trigLog' = Append(trigLog, Event(<<"send", m>>, m, visible))
        /\ UNCHANGED <<consumerVars, settingVars, ledger, runs, chatLog, runCount, hFaults>>

(* AdminReplayAgentMessage: an archived human message of a single chat. *)
AdminReplay(m) ==
    /\ Cardinality(HumanRecords) < MaxTriggers
    /\ m \in archived /\ ChatOf[m] \in Chats
    /\ trigLog' = Append(trigLog, Event(<<"replay", m>>, m, Participants[ChatOf[m]]))
    /\ UNCHANGED <<consumerVars, settingVars, ledger, runs, chatLog, runCount, hFaults>>

(* The persist consumer writes rows in seq order. *)
PersistRow(m) ==
    /\ m \notin archived
    /\ \E n \in DOMAIN trigLog :
          /\ trigLog[n].id = <<"send", m>>
          /\ \A i \in 1 .. n - 1 : trigLog[i].chat = ChatOf[m] /\ ~trigLog[i].ai => trigLog[i].msg \in archived
    /\ archived' = archived \cup {m}
    /\ UNCHANGED <<trigLog, consumerVars, enabled, roster, ledger, runs, chatLog, runCount, hFaults>>

(* UpdateConversationAIHosting by a participant; no chat with an agent can  *)
(* be hosted, and a unique index allows one enabled row per conversation.   *)
UpdateHosting(c, u, on) ==
    /\ u \in Participants[c]
    /\ on => Participants[c] \cap Bots = {} /\ enabled[c] \subseteq {u}
    /\ enabled' = [enabled EXCEPT ![c] = IF on THEN @ \cup {u} ELSE @ \ {u}]
    /\ enabled' # enabled
    /\ UNCHANGED <<trigLog, consumerVars, roster, archived, ledger, runs, chatLog, runCount, hFaults>>

(* groups-rpc takes a member out. *)
RemoveMember(r, u) ==
    /\ u \in roster[r]
    /\ roster' = [roster EXCEPT ![r] = @ \ {u}]
    /\ UNCHANGED <<trigLog, consumerVars, enabled, archived, ledger, runs, chatLog, runCount, hFaults>>
-----------------------------------------------------------------------------
(* Judge.Evaluate.  A mentioned agent, or the account whose chat is hosted, *)
(* never on its own message.                                                *)

Inbox(e) == IF e.chat \in Rooms THEN (e.visible \cap Bots \cap e.at) \ {e.author} ELSE {}
Hosts(e) == IF e.chat \in Chats THEN enabled[e.chat] \ {e.author} ELSE {}

(* Mutant of Evaluate: no recursion gate. *)
EvaluateAll(e) == Inbox(e) \cup Hosts(e)

(* AI messages stop at the recursion gate: allow_recursive_trigger is never *)
(* set, as the runtime policy the request builder makes forbids it.         *)
Evaluate(e) == IF e.ai THEN {} ELSE Inbox(e) \cup Hosts(e)

NextEvent == trigLog[hCur + 1]

JudgeEvent ==
    /\ hCur < Len(trigLog) /\ sched = Idle
    /\ LET todo == Evaluate(NextEvent)
       IN  IF todo = {} THEN hCur' = hCur + 1 /\ UNCHANGED sched
           ELSE sched' = [Idle EXCEPT !.todo = todo, !.at = "next"] /\ UNCHANGED hCur
    /\ UNCHANGED <<trigLog, hCommitted, settingVars, ledger, runs, chatLog, runCount, hFaults>>

(* The hosting lookup fails: the event is logged and dropped. *)
JudgeFails ==
    /\ hCur < Len(trigLog) /\ sched = Idle /\ HFault
    /\ hCur' = hCur + 1
    /\ UNCHANGED <<trigLog, hCommitted, sched, settingVars, ledger, runs, chatLog, runCount>>

(* The loop over the triggers goes on, or the record is done. *)
TriggerDone ==
    LET rest == sched.todo \ sched.agent
    IN  IF rest = {} THEN sched' = Idle /\ hCur' = hCur + 1
        ELSE sched' = [Idle EXCEPT !.todo = rest, !.at = "next"] /\ UNCHANGED hCur

Key == CHOOSE k \in {RequestID(NextEvent, a) : a \in sched.agent} : TRUE

(* validateTriggerAuthorization: in a group the sender and the agent must   *)
(* be members now.  A failed call counts as a refusal.                      *)
Authorize ==
    /\ sched.at = "next"
    /\ \E a \in sched.todo :
          LET e == NextEvent
              allowed == e.chat \in Rooms => {a, e.author} \subseteq roster[e.chat]
          IN  \/ /\ sched' = [sched EXCEPT !.agent = {a}, !.at = IF allowed THEN "claim" ELSE "claimRejected"]
                 /\ UNCHANGED hFaults
              \/ /\ e.chat \in Rooms /\ HFault
                 /\ sched' = [sched EXCEPT !.agent = {a}, !.at = "claimRejected"]
    /\ UNCHANGED <<trigLog, hCommitted, hCur, settingVars, ledger, runs, chatLog, runCount>>

(* The row is new, or failed, or running past its TTL. *)
Claimable(k) == Status(k) \in {"absent", "failed", "expired"}

(* TryStartAgentTrigger. *)
TryStart ==
    /\ sched.at \in {"claim", "claimRejected"}
    /\ \/ /\ Claimable(Key)
          /\ ledger' = SetStatus(Key, "running")
          /\ sched' = [sched EXCEPT !.at = IF @ = "claim" THEN "mark" ELSE "refuse"]
          /\ UNCHANGED <<hCur, hFaults>>
       \/ ~Claimable(Key) /\ TriggerDone /\ UNCHANGED <<ledger, hFaults>>
       \/ HFault /\ TriggerDone /\ UNCHANGED ledger
    /\ UNCHANGED <<trigLog, hCommitted, settingVars, runs, chatLog, runCount>>

StartRun(k) ==
    /\ runs' = runs \cup {[key |-> k, n |-> runCount + 1, at |-> "build"]}
    /\ runCount' = runCount + 1

(* Mutant of MarkTriggerRead: the consumer waits for the row. *)
MarkTriggerReadWaits ==
    /\ sched.at = "mark" /\ (NextEvent.chat \in Rooms \/ NextEvent.msg \in archived)
    /\ StartRun(Key) /\ TriggerDone
    /\ UNCHANGED <<trigLog, hCommitted, settingVars, ledger, chatLog, hFaults>>

(* markTriggerRead, in single chats: msg-rpc refuses a seq the persist      *)
(* consumer has not reached.  Then the run starts.                          *)
MarkTriggerRead ==
    /\ sched.at = "mark"
    /\ \/ /\ NextEvent.chat \in Rooms \/ NextEvent.msg \in archived
          /\ StartRun(Key) /\ TriggerDone
          /\ UNCHANGED hFaults
       \/ /\ NextEvent.chat \in Chats
          /\ IF NextEvent.msg \in archived THEN HFault ELSE UNCHANGED hFaults
          /\ sched' = [sched EXCEPT !.at = "refuse"]
          /\ UNCHANGED <<hCur, runs, runCount>>
    /\ UNCHANGED <<trigLog, hCommitted, settingVars, ledger, chatLog>>

(* FinishAgentTrigger: only a running row changes. *)
Finished(k, s) == IF Status(k) \in {"running", "expired"} THEN SetStatus(k, s) ELSE ledger

(* The trigger is recorded as failed. *)
RefuseTrigger ==
    /\ sched.at = "refuse"
    /\ \/ ledger' = Finished(Key, "failed") /\ UNCHANGED hFaults
       \/ HFault /\ UNCHANGED ledger
    /\ TriggerDone
    /\ UNCHANGED <<trigLog, hCommitted, settingVars, runs, chatLog, runCount>>

CommitTriggers ==
    /\ hCommitted < hCur /\ sched = Idle
    /\ hCommitted' = hCur
    /\ UNCHANGED <<trigLog, hCur, sched, settingVars, ledger, runs, chatLog, runCount, hFaults>>

(* The agent service dies: records after the committed offset come again.   *)
CrashHosting ==
    /\ HFault
    /\ hCur' = hCommitted /\ sched' = Idle /\ runs' = {}
    /\ <<hCur, sched, runs>>' # <<hCur, sched, runs>>
    /\ UNCHANGED <<trigLog, hCommitted, settingVars, ledger, chatLog, runCount>>
-----------------------------------------------------------------------------
(* AgentRunOrchestrator.Run and runAcceptedTrigger. *)

Step(r, at) == runs' = (runs \ {r}) \cup {[r EXCEPT !.at = at]}

runOnly == <<trigLog, consumerVars, settingVars, runCount>>

(* Goes on, or fails and goes on elsewhere. *)
StepOrFail(r, at, failed) ==
    \/ Step(r, at) /\ UNCHANGED hFaults
    \/ HFault /\ Step(r, failed)

(* BuildRuntimeRequest: the prompt is the text of the triggering row; when  *)
(* it is not archived yet the prompt is empty and the request invalid.      *)
BuildRuntimeRequest(r) ==
    /\ r.at = "build"
    /\ IF r.key.msg \in archived THEN StepOrFail(r, "llm", "auditFailed")
       ELSE Step(r, "auditFailed") /\ UNCHANGED hFaults
    /\ UNCHANGED <<runOnly, ledger, chatLog>>

RuntimeRun(r) ==
    /\ r.at = "llm"
    /\ StepOrFail(r, "auditSucceeded", "auditFailed")
    /\ UNCHANGED <<runOnly, ledger, chatLog>>

(* RecordAgentRun; without the record there is neither reply nor notice. *)
RecordAgentRun(r) ==
    /\ \/ r.at = "auditSucceeded" /\ StepOrFail(r, "reply", "fail")
       \/ r.at = "auditFailed" /\ StepOrFail(r, "notice", "fail")
    /\ UNCHANGED <<runOnly, ledger, chatLog>>

(* agentResponseRequestID: the same for a reply and a failure notice. *)
ClientMsgID(r) == [key |-> r.key, run |-> 0]

(* SendMessage of the answer, and its way through the transfer consumer. *)
Publish(r) ==
    LET echo == [id |-> <<"agent", ClientMsgID(r)>>, msg |-> r.key.msg, chat |-> r.key.chat,
                 author |-> r.key.agent, ai |-> TRUE, at |-> {}, visible |-> Participants[r.key.chat]]
    IN  IF \E x \in chatLog : x.cid = ClientMsgID(r)
        THEN UNCHANGED <<trigLog, chatLog>>
        ELSE /\ chatLog' = chatLog \cup {[cid |-> ClientMsgID(r), key |-> r.key, kind |-> r.at]}
             /\ trigLog' = Append(trigLog, echo)

(* Mutant of WriteAgentResponse: its error is ignored. *)
WriteAgentResponseIgnoring(r) ==
    /\ r.at = "reply"
    /\ \/ Publish(r) /\ UNCHANGED hFaults
       \/ HFault /\ UNCHANGED <<trigLog, chatLog>>
    /\ Step(r, "succeed")
    /\ UNCHANGED <<consumerVars, settingVars, runCount, ledger>>

(* WriteAgentResponse of the reply.  An error may come after the message    *)
(* was published.                                                           *)
WriteAgentResponse(r) ==
    /\ r.at = "reply"
    /\ \/ Publish(r) /\ Step(r, "succeed") /\ UNCHANGED hFaults
       \/ HFault /\ Step(r, "fail") /\ (Publish(r) \/ UNCHANGED <<trigLog, chatLog>>)
    /\ UNCHANGED <<consumerVars, settingVars, runCount, ledger>>

(* notifyRunFailure; its error is only logged. *)
NotifyRunFailure(r) ==
    /\ r.at = "notice"
    /\ \/ Publish(r) /\ UNCHANGED hFaults
       \/ HFault /\ UNCHANGED <<trigLog, chatLog>>
    /\ Step(r, "fail")
    /\ UNCHANGED <<consumerVars, settingVars, runCount, ledger>>

FinishRun(r) ==
    /\ r.at \in {"succeed", "fail"}
    /\ \/ /\ ledger' = Finished(r.key, IF r.at = "succeed" THEN "succeeded" ELSE "failed")
          /\ UNCHANGED hFaults
       \/ HFault /\ UNCHANGED ledger
    /\ runs' = runs \ {r}
    /\ UNCHANGED <<runOnly, chatLog>>

(* runTimeout passes.  Every later call of the run has the same context and *)
(* fails, the FinishAgentTrigger too; a message being written may still be. *)
RunTimesOut(r) ==
    /\ HFault
    /\ runs' = runs \ {r}
    /\ (r.at \in {"reply", "notice"} /\ Publish(r)) \/ UNCHANGED <<trigLog, chatLog>>
    /\ UNCHANGED <<consumerVars, settingVars, runCount, ledger>>

(* Mutant of TTLExpires: the TTL is not longer than a run. *)
TTLExpiresAnyTime(k) ==
    /\ Status(k) = "running" /\ ~(sched.agent # {} /\ Key = k)
    /\ ledger' = SetStatus(k, "expired")
    /\ UNCHANGED <<runOnly, runs, chatLog, hFaults>>

(* triggerRunningTTL is a minute more than runTimeout, so a run that is     *)
(* still going has no expired row; neither has a trigger being scheduled.   *)
TTLExpires(k) ==
    /\ Status(k) = "running" /\ ~(sched.agent # {} /\ Key = k)
    /\ \A r \in runs : r.key # k
    /\ ledger' = SetStatus(k, "expired")
    /\ UNCHANGED <<runOnly, runs, chatLog, hFaults>>
-----------------------------------------------------------------------------
ConsumeTriggers ==
    \/ JudgeEvent \/ Authorize \/ TryStart \/ MarkTriggerRead \/ RefuseTrigger \/ CommitTriggers

RunStep(r) ==
    \/ BuildRuntimeRequest(r) \/ RuntimeRun(r) \/ RecordAgentRun(r)
    \/ WriteAgentResponse(r) \/ NotifyRunFailure(r) \/ FinishRun(r)

HostingNext ==
    \/ \E m \in HumanMsgs : SendHuman(m) \/ AdminReplay(m) \/ PersistRow(m)
    \/ \E c \in Chats, u \in Accounts, on \in BOOLEAN : UpdateHosting(c, u, on)
    \/ \E g \in Rooms, u \in Accounts : RemoveMember(g, u)
    \/ ConsumeTriggers \/ JudgeFails \/ CrashHosting
    \/ \E r \in runs : RunStep(r) \/ RunTimesOut(r)
    \/ \E k \in DOMAIN ledger : TTLExpires(k)

SomeRun == \E r \in runs : RunStep(r)

HostingFairness == WF_hostingVars(ConsumeTriggers) /\ WF_hostingVars(SomeRun)

HostingSpec == HostingInit /\ [][HostingNext]_hostingVars /\ HostingFairness
-----------------------------------------------------------------------------
HostingTypeOK ==
    /\ hCommitted \in 0 .. hCur /\ hCur \in 0 .. Len(trigLog)
    /\ sched.todo \subseteq Accounts /\ sched.agent \subseteq sched.todo
    /\ sched.at \in {"judge", "next", "claim", "claimRejected", "mark", "refuse"}
    /\ sched # Idle => hCur < Len(trigLog)
    /\ enabled \in [Chats -> SUBSET Accounts] /\ roster \in [Rooms -> SUBSET Accounts]
    /\ archived \subseteq HumanMsgs
    /\ \A k \in DOMAIN ledger : ledger[k] \in {"running", "expired", "failed", "succeeded"}
    /\ \A r \in runs : /\ r.n \in 1 .. runCount
                       /\ r.at \in {"build", "llm", "auditSucceeded", "auditFailed", "reply", "notice",
                                    "succeed", "fail"}
    /\ hFaults \in 0 .. MaxHostingFaults

(* A trigger never has two runs at a time, however often its record is      *)
(* replayed, failed, reclaimed after the TTL or resent by an administrator  *)
(* (TryStart and triggerRunningTTL), and while one is going its row says so.*)
OneRunPerTrigger ==
    /\ \A r, s \in runs : r.key = s.key => r = s
    /\ \A r \in runs : Status(r.key) = "running"

(* "Replays after a crash before offset commit do not double-reply"         *)
(* (consumer.go): the chat sees one message per trigger at most, although   *)
(* a reclaimed trigger may write twice.                                     *)
OneMessagePerTrigger == \A x, y \in chatLog : x.key = y.key => x = y

(* The ledger makes a trigger happen once: one run at a time, one message.  *)
OncePerTrigger == OneRunPerTrigger /\ OneMessagePerTrigger

(* A trigger the ledger calls succeeded has left a message in the chat.     *)
SucceededIsWritten ==
    \A k \in DOMAIN ledger : ledger[k] = "succeeded" => \E x \in chatLog : x.key = k

(* Agents never answer agents: what an agent wrote starts no run, even when *)
(* hosting moves from one participant to the other in between (the          *)
(* recursion gate of Judge.Evaluate).                                       *)
NoRecursion == \A k \in DOMAIN ledger : k.event[1] # "agent"

(* "Trigger processing must never wedge the topic" (consumer.go), and no    *)
(* run stays: whatever fails, everything is consumed and every goroutine    *)
(* ends.                                                                    *)
NeverWedged == []<>(hCommitted = Len(trigLog) /\ sched = Idle /\ runs = {})

(* A trigger the ledger calls succeeded has been answered: the row is       *)
(* final ("succeeded ... not claimable"), so nobody will answer it later.   *)
SucceededIsAnswered ==
    \A k \in DOMAIN ledger : ledger[k] = "succeeded" => \E x \in chatLog : x.key = k /\ x.kind = "reply"
=============================================================================
