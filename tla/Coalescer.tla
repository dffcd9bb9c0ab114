------------------------------ MODULE Coalescer ------------------------------
(***************************************************************************)
(* Replies of an agent in one private chat: the consumer of agent.trigger  *)
(* (agent/rpc/internal/consumer), PrivateChatCoalescer and its drive       *)
(* goroutines (orchestrator/private_coalescer.go) and the row of the       *)
(* conversation in agent_private_conversations, which they share           *)
(* (privconv/store.go, model/agent_private_conversations_model.go).        *)
(*                                                                         *)
(* Each statement that changes the row is one step; a statement whose      *)
(* condition fails locks nothing, so others may come between it and the    *)
(* next one of its transaction.  A message is its seq; the topic carries   *)
(* increasing seqs (module Transfer), and the agent's own replies, which   *)
(* the judge ignores, are left out.  A round is the set of seqs it         *)
(* answered, and a memory the set of seqs it was summarised from.  The     *)
(* read marker drive sets in msg-rpc (markRead) is left out: its failure   *)
(* is only logged, and Persist has the call it makes.                      *)
(***************************************************************************)
EXTENDS Integers, Sequences, SequencesExt, FiniteSetsExt

CONSTANTS
    MaxSeq,             \* bound: messages of the conversation
    MaxRounds,          \* rounds CommitRound keeps
    SummarizeThreshold, \* rounds that make maybeSummarize act
    KeepRounds,         \* rounds a summary leaves
    MaxAgentFaults      \* bound: failed calls and crashes

ASSUME CoalescerConstants ==
    /\ MaxSeq \in Nat /\ MaxAgentFaults \in Nat
    /\ MaxRounds \in Nat \ {0} /\ SummarizeThreshold \in Nat /\ KeepRounds \in Nat

VARIABLES
    sent,       \* messages on agent.trigger: 1 .. sent
    committed,  \* committed offset of the agent's consumer group
    cur,        \* last record HandleBatch has been through
    stmt,       \* the next statement of AppendPending, for record cur + 1
    state,      \* the row: "absent", "idle" or "running"
    leased,     \* running_until is in the future
    pending,    \* messages appended and not consumed
    last,       \* last_consumed_seq: the last message appended
    rounds,     \* answered rounds, oldest first
    memory,     \* long_term_memory
    loop,       \* the drive goroutine that message n fired
    ran,        \* history: messages some runner.Run was given
    replied,    \* history: messages of committed rounds
    lost,       \* history: messages whose event failed
    overtaken,  \* history: a lease ran out under a live loop
    faults      \* failures so far

topicVars == <<sent, committed, cur, stmt>>
rowVars == <<state, leased, pending, last, rounds, memory>>
historyVars == <<ran, replied, lost, overtaken>>
vars == <<topicVars, rowVars, loop, historyVars, faults>>

Seqs == 1 .. MaxSeq
NoLoop == [at |-> "none", batch |-> {}, ok |-> FALSE, more |-> FALSE,
           fold |-> <<>>, seen |-> {}, slow |-> FALSE]

(* A loop between the moment it got the running lock and its last commit. *)
Active(n) == loop[n].at \in {"load", "run", "settle", "release"} \/ loop[n].more

Init ==
    /\ sent = 0 /\ committed = 0 /\ cur = 0 /\ stmt = "claim"
    /\ state = "absent" /\ leased = FALSE /\ pending = {} /\ last = 0
    /\ rounds = <<>> /\ memory = {}
    /\ loop = [n \in Seqs |-> NoLoop]
    /\ ran = {} /\ replied = {} /\ lost = {} /\ overtaken = FALSE
    /\ faults = 0

Fault == faults < MaxAgentFaults /\ faults' = faults + 1
-----------------------------------------------------------------------------
(* The consumer. *)

(* The transfer consumer publishes a message. *)
PublishTrigger ==
    /\ sent < MaxSeq
    /\ sent' = sent + 1
    /\ UNCHANGED <<committed, cur, stmt, rowVars, loop, historyVars, faults>>

(* A message not seen before, and a row nobody holds: the conditions of     *)
(* AppendPending's statements.                                              *)
Fresh(n) == n > last

(* Mutant of Fires: a row once running is left alone. *)
FiresIdle == state # "running"

Fires == state # "running" \/ ~leased

(* The insert, or the first update: the message is appended and the row is  *)
(* taken.                                                                   *)
ClaimPending(n) ==
    /\ stmt = "claim" /\ Fresh(n) /\ Fires
    /\ pending' = pending \cup {n} /\ last' = n
    /\ state' = "running" /\ leased' = TRUE
    /\ UNCHANGED <<rounds, memory>>

(* Neither did anything, and neither holds a lock. *)
NotClaimed(n) ==
    /\ stmt = "claim" /\ ~(Fresh(n) /\ Fires)
    /\ stmt' = "append"

(* The second update: the message is appended to whatever the row is by     *)
(* now, which stays idle or running as it is.                               *)
AppendOnly(n) ==
    /\ stmt = "append"
    /\ pending' = IF Fresh(n) THEN pending \cup {n} ELSE pending
    /\ last' = IF Fresh(n) THEN n ELSE last
    /\ UNCHANGED <<state, leased, rounds, memory>>

AppendPending(n) == ClaimPending(n) \/ AppendOnly(n)

(* Mutant of OnUserMessage: every fresh message drives. *)
OnUserMessageAlways(n) ==
    /\ AppendPending(n)
    /\ loop' = IF Fresh(n) THEN [loop EXCEPT ![n].at = "load"] ELSE loop
    /\ UNCHANGED <<historyVars, faults>>

OnUserMessage(n) ==
    /\ \/ ClaimPending(n) /\ loop' = [loop EXCEPT ![n].at = "load"]
       \/ AppendOnly(n) /\ UNCHANGED loop
    /\ UNCHANGED <<historyVars, faults>>

(* The event fails: the judge or the append did, or the answer to a commit  *)
(* that took effect was lost.  It is logged and the batch goes on.          *)
EventFails(n) ==
    /\ Fault
    /\ UNCHANGED rowVars \/ AppendPending(n)
    /\ lost' = lost \cup {n}
    /\ UNCHANGED <<loop, ran, replied, overtaken>>

HandleEvent ==
    /\ cur < sent
    /\ \/ /\ OnUserMessage(cur + 1) \/ EventFails(cur + 1)
          /\ cur' = cur + 1 /\ stmt' = "claim"
       \/ NotClaimed(cur + 1) /\ UNCHANGED <<cur, rowVars, loop, historyVars, faults>>
    /\ UNCHANGED <<sent, committed>>

(* HandleBatch always returns nil; a batch may end anywhere. *)
CommitOffsets ==
    /\ committed < cur /\ stmt = "claim"
    /\ committed' = cur
    /\ UNCHANGED <<sent, cur, stmt, rowVars, loop, historyVars, faults>>

(* The agent service dies with its loops. *)
CrashAgent ==
    /\ Fault
    /\ cur' = committed /\ stmt' = "claim"
    /\ loop' = [n \in Seqs |-> NoLoop]
    /\ UNCHANGED <<sent, committed, rowVars, historyVars>>

(* running_until passes.  It is set for run timeout + 1 min, so it outlives *)
(* a round, but not always a summary followed by a round.                   *)
LeaseExpires ==
    /\ leased
    /\ \A n \in Seqs : Active(n) => loop[n].slow
    /\ leased' = FALSE
    /\ overtaken' = (overtaken \/ \E n \in Seqs : Active(n))
    /\ UNCHANGED <<topicVars, state, pending, last, rounds, memory, loop, ran, replied, lost, faults>>
-----------------------------------------------------------------------------
(* drive. *)

At(n, p) == loop[n].at = p

Load(n) ==
    /\ At(n, "load")
    /\ loop' = [loop EXCEPT ![n].at = IF pending = {} THEN "release" ELSE "run",
                            ![n].batch = pending, ![n].more = FALSE]
    /\ UNCHANGED <<topicVars, rowVars, historyVars, faults>>

(* runner.Run: the reply is sent, or a failure notice. *)
Run(n) ==
    /\ At(n, "run")
    /\ \/ loop' = [loop EXCEPT ![n].at = "settle", ![n].ok = TRUE] /\ UNCHANGED faults
       \/ loop' = [loop EXCEPT ![n].at = "settle", ![n].ok = FALSE] /\ Fault
    /\ ran' = ran \cup loop[n].batch
    /\ UNCHANGED <<topicVars, rowVars, replied, lost, overtaken>>

(* Mutant of Consume: the row stays running with nothing left in it. *)
ConsumeStays(upTo) ==
    /\ pending' = {s \in pending : s > upTo}
    /\ UNCHANGED <<state, leased, last>>

(* What CommitRound and DiscardPending do to the pending messages. *)
Consume(upTo) ==
    /\ pending' = {s \in pending : s > upTo}
    /\ state' = IF pending' = {} THEN "idle" ELSE "running"
    /\ leased' = (pending' # {})
    /\ UNCHANGED last

(* Mutant of CommitRound: all of pending is taken as consumed. *)
CommitRoundTakesAll(batch) ==
    /\ Consume(MaxSeq)
    /\ rounds' = Append(rounds, batch)
    /\ replied' = replied \cup batch
    /\ UNCHANGED memory

CommitRound(batch) ==
    /\ Consume(Max(batch))
    /\ LET all == Append(rounds, batch)
       IN  rounds' = SubSeq(all, Max({1, Len(all) - MaxRounds + 1}), Len(all))
    /\ replied' = replied \cup batch
    /\ UNCHANGED memory

DiscardPending(upTo) == Consume(upTo) /\ UNCHANGED <<rounds, memory, replied>>

(* The end of an iteration: another one, or the goroutine returns. *)
Continue(l, more) == [NoLoop EXCEPT !.at = IF more THEN "load" ELSE "none", !.slow = more /\ l.slow]

(* Mutant of Settle: the goroutine returns after its first round. *)
SettleOnce(n) ==
    /\ At(n, "settle")
    /\ IF loop[n].ok THEN CommitRound(loop[n].batch) ELSE DiscardPending(Max(loop[n].batch))
    /\ loop' = [loop EXCEPT ![n] = NoLoop]
    /\ UNCHANGED <<topicVars, ran, lost, overtaken, faults>>

(* After the run: CommitRound and then maybeSummarize, or DiscardPending. *)
Settle(n) ==
    /\ At(n, "settle")
    /\ \/ /\ loop[n].ok /\ CommitRound(loop[n].batch)
          /\ loop' = [loop EXCEPT ![n] = [NoLoop EXCEPT !.at = "sumload", !.more = pending' # {}]]
       \/ /\ ~loop[n].ok /\ DiscardPending(Max(loop[n].batch))
          /\ loop' = [loop EXCEPT ![n] = Continue(NoLoop, pending' # {})]
    /\ UNCHANGED <<topicVars, ran, lost, overtaken, faults>>

(* A load that found nothing: DiscardPending(0), whose answer is ignored. *)
Release(n) ==
    /\ At(n, "release")
    /\ DiscardPending(0)
    /\ loop' = [loop EXCEPT ![n] = NoLoop]
    /\ UNCHANGED <<topicVars, ran, lost, overtaken, faults>>

(* A statement on the row fails, with or without effect: drive returns. *)
DriveFails(n) ==
    /\ loop[n].at \in {"load", "settle", "release"} /\ Fault
    /\ \/ UNCHANGED <<rowVars, replied>>
       \/ At(n, "settle") /\ loop[n].ok /\ CommitRound(loop[n].batch)
       \/ At(n, "settle") /\ ~loop[n].ok /\ DiscardPending(Max(loop[n].batch))
    /\ loop' = [loop EXCEPT ![n] = NoLoop]
    /\ UNCHANGED <<topicVars, ran, lost, overtaken>>

(* maybeSummarize: the snapshot it works on. *)
LoadRounds(n) ==
    LET enough == Len(rounds) >= SummarizeThreshold /\ KeepRounds < Len(rounds)
    IN  /\ At(n, "sumload")
        /\ loop' = [loop EXCEPT ![n] = IF enough
                       THEN [@ EXCEPT !.at = "summarize", !.seen = memory, !.slow = TRUE,
                                      !.fold = SubSeq(rounds, 1, Len(rounds) - KeepRounds)]
                       ELSE Continue(@, @.more)]
        /\ UNCHANGED <<topicVars, rowVars, historyVars, faults>>

(* The lists that hold exactly the elements of S, in increasing order. *)
InOrder(S, bound) ==
    {f \in UNION {[1 .. n -> S] : n \in 0 .. bound} :
        /\ \A o \in S : \E i \in DOMAIN f : f[i] = o
        /\ \A i, j \in DOMAIN f : i < j => f[i] < f[j]}

(* The summary of the snapshot replaces the memory; rounds up to its last   *)
(* one go.                                                                  *)
ApplySummary(n) ==
    LET cutoff == Max(Last(loop[n].fold))
    IN  /\ At(n, "summarize")
        /\ memory' = loop[n].seen \cup UNION Range(loop[n].fold)
        /\ \E keep \in InOrder({i \in DOMAIN rounds : Max(rounds[i]) > cutoff}, Len(rounds)) :
              rounds' = [i \in DOMAIN keep |-> rounds[keep[i]]]
        /\ loop' = [loop EXCEPT ![n] = Continue(@, @.more)]
        /\ UNCHANGED <<topicVars, state, leased, pending, last, historyVars, faults>>

(* The load, the summary or ApplySummary fails: logged, tried again after   *)
(* the next round.                                                          *)
SummarizeFails(n) ==
    /\ loop[n].at \in {"sumload", "summarize"} /\ Fault
    /\ loop' = [loop EXCEPT ![n] = Continue(@, @.more)]
    /\ UNCHANGED <<topicVars, rowVars, historyVars>>
-----------------------------------------------------------------------------
Drive(n) == Load(n) \/ Run(n) \/ Settle(n) \/ Release(n) \/ LoadRounds(n) \/ ApplySummary(n)

Next ==
    \/ PublishTrigger \/ HandleEvent \/ CommitOffsets \/ CrashAgent \/ LeaseExpires
    \/ \E n \in Seqs : Drive(n) \/ DriveFails(n) \/ SummarizeFails(n)

(* The consumer keeps polling, and goroutines that can run on do: that not *)
(* all of them rest is enough, for each ends after finitely many steps.     *)
SomeDrive == \E n \in Seqs : Drive(n)
Fairness == WF_vars(HandleEvent) /\ WF_vars(SomeDrive)

Spec == Init /\ [][Next]_vars
-----------------------------------------------------------------------------
TypeOK ==
    /\ sent \in 0 .. MaxSeq /\ cur \in 0 .. sent /\ committed \in 0 .. cur
    /\ stmt \in {"claim", "append"}
    /\ state \in {"absent", "idle", "running"} /\ leased \in BOOLEAN
    /\ pending \subseteq 1 .. last /\ last \in 0 .. sent
    /\ rounds \in Seq(SUBSET Seqs) /\ memory \subseteq Seqs
    /\ loop \in [Seqs -> [at : {"none", "load", "run", "settle", "release", "sumload", "summarize"},
                          batch : SUBSET Seqs, ok : BOOLEAN, more : BOOLEAN,
                          fold : Seq(SUBSET Seqs), seen : SUBSET Seqs, slow : BOOLEAN]]
    /\ ran \subseteq Seqs /\ replied \subseteq ran /\ lost \subseteq Seqs
    /\ overtaken \in BOOLEAN /\ faults \in 0 .. MaxAgentFaults
    /\ Len(rounds) <= MaxRounds
    /\ state = "running" => pending # {}
    /\ leased => state = "running"
    /\ state = "absent" <=> last = 0
    /\ stmt = "append" => cur < sent /\ state # "absent"

(* A message whose offset is committed was given to the runner, waits in    *)
(* pending for one, or its event failed: coalescing consumes no message     *)
(* that arrived while a round ran (CommitRound drops seq <= consumed only), *)
(* and a replay after a crash is recognised without hiding a message.       *)
NothingSkipped == 1 .. committed \subseteq pending \cup ran \cup lost

(* One loop at a time holds the running lock, and it finds its lease valid  *)
(* and its messages there, unless a lease ran out under it                  *)
(* ("the running gate guarantees that only one loop runs",                  *)
(* private_coalescer.go drive).                                             *)
OneLoop ==
    ~overtaken => \A n \in Seqs : Active(n) =>
        /\ leased /\ loop[n].batch \subseteq pending
        /\ \A k \in Seqs \ {n} : ~Active(k)

(* The context of the next prompt is in order and holds nothing twice:      *)
(* memory, rounds and pending messages follow each other by seq, although   *)
(* crashed rounds are run again and summaries run beside new rounds.        *)
HistoryInOrder ==
    ~overtaken =>
        /\ \A i, j \in 1 .. Len(rounds) : i < j =>
              \A s \in rounds[i], t \in rounds[j] : s < t
        /\ \A i \in 1 .. Len(rounds) : \A s \in rounds[i] :
              (\A t \in pending : s < t) /\ s \notin memory

(* The context of a private chat loses, repeats and reorders nothing,       *)
(* whatever crashed, was replayed or arrived in the middle of a round.      *)
ContextSound == NothingSkipped /\ HistoryInOrder

(* Without a failure every message is answered, at the latest with the next *)
(* one: a message that arrives while a round is being committed is seen by  *)
(* that commit or starts a loop, unless the commit comes between the two    *)
(* updates of AppendPending.  Then it alone waits, in an idle row that the  *)
(* next message takes.                                                      *)
AnsweredWithNext ==
    []<>(\/ 1 .. sent \subseteq ran
         \/ 1 .. sent - 1 \subseteq ran /\ pending = {sent} /\ state = "idle"
         \/ faults > 0 \/ overtaken)

(* What a crash, a failed statement or a commit between two updates left    *)
(* pending is answered with the next message whose append begins after the  *)
(* lease ran out (AppendPending fires on an expired lease, and the loop     *)
(* loads all of pending).                                                   *)
PendingRecovered ==
    (/\ pending # {} /\ ~leased /\ faults = MaxAgentFaults
     /\ stmt = "claim" /\ last < sent /\ cur < sent) ~> (pending \subseteq ran)

(* What was answered stays in the agent's context until MaxRounds cuts it:  *)
(* a summary is taken inside the running lock, so no round is committed     *)
(* meanwhile (private_coalescer.go maybeSummarize) and none is forgotten.   *)
NothingForgotten ==
    Cardinality(replied) <= MaxRounds /\ ~overtaken => replied \subseteq memory \cup UNION Range(rounds)
=============================================================================
