------------------------------ MODULE Transfer ------------------------------
(***************************************************************************)
(* The hot path of the message pipeline: service/msgtransfer's consumer of *)
(* msg.toTransfer.v1 (chain/handler.go, seq.go, store.go), driven by the   *)
(* poll loop of pkg/messaging/kafka.go.  A polled batch is grouped by      *)
(* conversation and one worker per conversation runs                       *)
(*                                                                         *)
(*   dedup -> Malloc -> cache -> has-read -> produce x3 -> dedup record    *)
(*                                                                         *)
(* Every Redis, PostgreSQL or Kafka call is one step, so a call that fails *)
(* and a process that dies between any two calls are behaviours.  A call   *)
(* that reports an error although the server applied it is the step        *)
(* followed by a failure of the worker's next call.                        *)
(*                                                                         *)
(* A record of msg.toTransfer.v1 is abstracted to its client key, the pair *)
(* (sender_id, client_msg_id) that identifies a message.  Each SendMessage *)
(* call allocates a new server_msg_id and publishes one record, so the     *)
(* offset of the record stands for the server_msg_id.                      *)
(***************************************************************************)
EXTENDS AcceptedLog

CONSTANTS
    Agents,           \* the account ids that carry the agent type bits
    Malformed,        \* a record the handler cannot decode or does not expect
    TypedAccountIDs,  \* the D16 toPush filter is configured on
    InitialMax,       \* [Convs -> Nat], max(messages.seq) before the first record
    MaxRecords,       \* bound: records ever written to toTransfer
    MaxBatch,         \* bound: records of one poll
    MaxFaults         \* bound: failed calls and process crashes

ASSUME ConstantTypes ==
    /\ Malformed \notin ClientKeys
    /\ ConvOf \in [ClientKeys -> Convs]
    /\ SenderOf \in [ClientKeys -> Users]
    /\ VisibleTo \in [ClientKeys -> SUBSET Users]
    /\ TypedAccountIDs \in BOOLEAN
    /\ InitialMax \in [Convs -> Nat]
    /\ MaxRecords \in Nat /\ MaxBatch \in Nat /\ MaxFaults \in Nat

VARIABLES
    toTransfer,    \* log of msg.toTransfer.v1 (one partition)
    committed,     \* committed offset of the transfer consumer group
    polled,        \* last offset of the batch in memory
    phase,         \* where the poll loop is: "poll", "handle" or "commit"
    worker,        \* per conversation, the goroutine of the current batch
    seqKey,        \* Redis msg:seq:conv:<id>, Missing when the key is absent
    dedup,         \* Redis msg:dedup:<sender>:<client_msg_id>
    cache,         \* Redis msg:cache:conv:<id>:*, the hot message cache
    hasRead,       \* Redis msg:hasread:conv:<id>:user:<id>
    agentTrigger,  \* log of agent.trigger.v1
    toPush,        \* log of msg.toPush.v1
    maxRow,        \* PostgreSQL max(messages.seq) per conversation, 0 when none
    faults         \* failures so far

consumerVars == <<committed, polled, phase>>
redisVars == <<seqKey, dedup, cache, hasRead>>
topicVars == <<toPostgres, agentTrigger, toPush>>
vars == <<toTransfer, consumerVars, worker, redisVars, topicVars, maxRow, faults>>

Missing == -1
NoRecord == [seq |-> 0, srv |-> 0]

Records == ClientKeys \cup {Malformed}
PushEvents == [key : ClientKeys, srv : Nat, seq : Nat, to : SUBSET Users]

Batch == committed + 1 .. polled

(* Offsets of the batch that belong to conversation c, malformed ones dropped. *)
EventsOf(c) == {o \in Batch : toTransfer[o] # Malformed /\ ConvOf[toTransfer[o]] = c}

(* Mutant of FreshOffsets: the record in Redis is not looked at. *)
FreshIgnoringRecord(c) ==
    {o \in EventsOf(c) : \A p \in EventsOf(c) : toTransfer[p] = toTransfer[o] => o <= p}

(* Neither repeated earlier in the batch nor already recorded in Redis. *)
FreshOffsets(c) ==
    {o \in EventsOf(c) : /\ dedup[toTransfer[o]] = NoRecord
                         /\ \A p \in EventsOf(c) : toTransfer[p] = toTransfer[o] => o <= p}

(* The lists that hold exactly the elements of S, in increasing order. *)
InOrder(S, bound) ==
    {f \in UNION {[1 .. n -> S] : n \in 0 .. bound} :
        /\ \A o \in S : \E i \in DOMAIN f : f[i] = o
        /\ \A i, j \in DOMAIN f : i < j => f[i] < f[j]}

WorkerPCs == {"idle", "dedup", "exists", "query", "setnx", "incr", "cache", "hasread",
              "toPostgres", "agentTrigger", "toPush", "record", "done", "fail"}

Workers == [pc : WorkerPCs, fresh : Seq(Nat), first : Nat, seed : Nat, i : Nat]

IdleWorker == [pc |-> "idle", fresh |-> <<>>, first |-> 0, seed |-> 0, i |-> 1]
StartedWorker == [IdleWorker EXCEPT !.pc = "dedup"]
DoneWorker == [IdleWorker EXCEPT !.pc = "done"]
Quiet == [c \in Convs |-> IdleWorker]

(* A goroutine for every conversation the batch mentions. *)
StartWorkers(batch) ==
    [c \in Convs |-> IF \E o \in batch : toTransfer[o] # Malformed /\ ConvOf[toTransfer[o]] = c
                     THEN StartedWorker ELSE DoneWorker]

(* The i-th fresh message of c with its seq: the accepted event. *)
Accepted(c, i) ==
    LET o == worker[c].fresh[i]
    IN  [key |-> toTransfer[o], srv |-> o, seq |-> worker[c].first + i - 1]

(* deriveReceiverIDs, then the D16 filter: the sender is always included. *)
PushRecipients(k) ==
    LET all == {SenderOf[k]} \cup VisibleTo[k]
    IN  IF TypedAccountIDs THEN all \ Agents ELSE all

Init ==
    /\ toTransfer = <<>> /\ committed = 0 /\ polled = 0 /\ phase = "poll"
    /\ worker = Quiet
    /\ seqKey = [c \in Convs |-> Missing]
    /\ dedup = [k \in ClientKeys |-> NoRecord]
    /\ cache = [c \in Convs |-> {}]
    /\ hasRead = [c \in Convs |-> [u \in Users |-> 0]]
    /\ toPostgres = <<>> /\ agentTrigger = <<>> /\ toPush = <<>>
    /\ maxRow = InitialMax
    /\ faults = 0

-----------------------------------------------------------------------------
(* msg-rpc SendMessage: one acks=all record per call.  A client whose call  *)
(* failed or timed out calls again with the same client_msg_id, whether or  *)
(* not the first record was written.                                        *)
SendMessage(k) ==
    /\ Len(toTransfer) < MaxRecords
    /\ toTransfer' = Append(toTransfer, k)
    /\ UNCHANGED <<consumerVars, worker, redisVars, topicVars, maxRow, faults>>

(* A record that is no decodable message.submitted event. *)
ForeignRecord ==
    /\ Len(toTransfer) < MaxRecords
    /\ toTransfer' = Append(toTransfer, Malformed)
    /\ UNCHANGED <<consumerVars, worker, redisVars, topicVars, maxRow, faults>>

-----------------------------------------------------------------------------
(* KafkaConsumer.Run and HandleBatch. *)

(* PollFetches returned records: group them and start the workers. *)
Poll ==
    /\ phase = "poll"
    /\ \E hi \in committed + 1 .. Len(toTransfer) :
        /\ hi <= committed + MaxBatch
        /\ polled' = hi
        /\ worker' = StartWorkers(committed + 1 .. hi)
    /\ phase' = "handle"
    /\ UNCHANGED <<toTransfer, committed, redisVars, topicVars, maxRow, faults>>

Returned == \A c \in Convs : worker[c].pc \in {"done", "fail"}
AnyFailed == \E c \in Convs : worker[c].pc = "fail"

(* group.Wait returned an error: retry the SAME batch in place. *)
HandlerError ==
    /\ phase = "handle" /\ Returned /\ AnyFailed
    /\ worker' = StartWorkers(Batch)
    /\ UNCHANGED <<toTransfer, consumerVars, redisVars, topicVars, maxRow, faults>>

(* Mutant of HandlerOK: the error of a worker is ignored. *)
HandlerOKIgnoringErrors ==
    /\ phase = "handle" /\ Returned
    /\ phase' = "commit"
    /\ UNCHANGED <<toTransfer, committed, polled, worker, redisVars, topicVars, maxRow, faults>>

HandlerOK ==
    /\ phase = "handle" /\ Returned /\ ~AnyFailed
    /\ phase' = "commit"
    /\ UNCHANGED <<toTransfer, committed, polled, worker, redisVars, topicVars, maxRow, faults>>

(* Mutant of CommitRecords: the offset committed is one too large. *)
CommitRecordsPastBatch ==
    /\ phase = "commit"
    /\ committed' = polled + 1
    /\ phase' = "poll"
    /\ worker' = Quiet
    /\ UNCHANGED <<toTransfer, polled, redisVars, topicVars, maxRow, faults>>

(* CommitRecords; a failing commit is retried and changes nothing. *)
CommitRecords ==
    /\ phase = "commit"
    /\ committed' = polled
    /\ phase' = "poll"
    /\ worker' = Quiet
    /\ UNCHANGED <<toTransfer, polled, redisVars, topicVars, maxRow, faults>>

(* The process dies; its successor resumes from the committed offset. *)
Crash ==
    /\ phase # "poll" /\ faults < MaxFaults
    /\ faults' = faults + 1
    /\ phase' = "poll"
    /\ worker' = Quiet
    /\ UNCHANGED <<toTransfer, committed, polled, redisVars, topicVars, maxRow>>

-----------------------------------------------------------------------------
(* handleConversation, one action per call. *)

At(c, pc) == phase = "handle" /\ worker[c].pc = pc
Goto(c, pc) == worker' = [worker EXCEPT ![c].pc = pc]

(* One round of a loop over the fresh messages ended: next round or next call. *)
LoopOr(c, again, next) ==
    worker' = IF worker[c].i < Len(worker[c].fresh)
              THEN [worker EXCEPT ![c].pc = again, ![c].i = @ + 1]
              ELSE [worker EXCEPT ![c].pc = next, ![c].i = 1]

(* The DedupGet loop; nothing fresh returns nil. *)
DedupGet(c) ==
    /\ At(c, "dedup")
    /\ \E f \in InOrder(FreshOffsets(c), polled - committed) :
          worker' = [worker EXCEPT ![c].fresh = f, ![c].i = 1,
                                   ![c].pc = IF f = <<>> THEN "done" ELSE "exists"]
    /\ UNCHANGED <<toTransfer, consumerVars, redisVars, topicVars, maxRow, faults>>

(* Mutant of MallocExists: an absent counter is not seeded from PostgreSQL. *)
MallocExistsUnseeded(c) ==
    /\ At(c, "exists")
    /\ Goto(c, "incr")
    /\ UNCHANGED <<toTransfer, consumerVars, redisVars, topicVars, maxRow, faults>>

(* SeqAllocator.Malloc: EXISTS, max(seq) from PostgreSQL, SET NX, INCRBY. *)
MallocExists(c) ==
    /\ At(c, "exists")
    /\ Goto(c, IF seqKey[c] = Missing THEN "query" ELSE "incr")
    /\ UNCHANGED <<toTransfer, consumerVars, redisVars, topicVars, maxRow, faults>>

MallocQuery(c) ==
    /\ At(c, "query")
    /\ worker' = [worker EXCEPT ![c].pc = "setnx", ![c].seed = maxRow[c]]
    /\ UNCHANGED <<toTransfer, consumerVars, redisVars, topicVars, maxRow, faults>>

MallocSetNX(c) ==
    /\ At(c, "setnx")
    /\ Goto(c, "incr")
    /\ seqKey' = [seqKey EXCEPT ![c] = IF @ = Missing THEN worker[c].seed ELSE @]
    /\ UNCHANGED <<toTransfer, consumerVars, dedup, cache, hasRead, topicVars, maxRow, faults>>

(* Mutant of MallocIncr: one seq is reserved, whatever the number of messages. *)
MallocIncrByOne(c) ==
    LET base == IF seqKey[c] = Missing THEN 0 ELSE seqKey[c]
    IN  /\ At(c, "incr")
        /\ seqKey' = [seqKey EXCEPT ![c] = base + 1]
        /\ worker' = [worker EXCEPT ![c].pc = "cache", ![c].first = base + 1, ![c].i = 1]
        /\ UNCHANGED <<toTransfer, consumerVars, dedup, cache, hasRead, topicVars, maxRow, faults>>

(* INCRBY treats an absent key as 0. *)
MallocIncr(c) ==
    LET base == IF seqKey[c] = Missing THEN 0 ELSE seqKey[c]
    IN  /\ At(c, "incr")
        /\ seqKey' = [seqKey EXCEPT ![c] = base + Len(worker[c].fresh)]
        /\ worker' = [worker EXCEPT ![c].pc = "cache", ![c].first = base + 1, ![c].i = 1]
        /\ UNCHANGED <<toTransfer, consumerVars, dedup, cache, hasRead, topicVars, maxRow, faults>>

(* CacheMessages: one HSET per message, the field is the seq. *)
CacheMessage(c) ==
    LET e == Accepted(c, worker[c].i)
    IN  /\ At(c, "cache")
        /\ cache' = [cache EXCEPT ![c] = {x \in @ : x.seq # e.seq} \cup {e}]
        /\ LoopOr(c, "cache", "hasread")
        /\ UNCHANGED <<toTransfer, consumerVars, seqKey, dedup, hasRead, topicVars, maxRow, faults>>

(* Mutant of SetHasRead: agent.trigger is produced before toPostgres. *)
SetHasReadThenTrigger(c) ==
    LET e == Accepted(c, worker[c].i)
    IN  /\ At(c, "hasread")
        /\ hasRead' = [hasRead EXCEPT ![c][SenderOf[e.key]] = IF e.seq > @ THEN e.seq ELSE @]
        /\ LoopOr(c, "hasread", "agentTrigger")
        /\ UNCHANGED <<toTransfer, consumerVars, seqKey, dedup, cache, topicVars, maxRow, faults>>

(* The hasReadAdvance script keeps the larger of the two. *)
SetHasRead(c) ==
    LET e == Accepted(c, worker[c].i)
    IN  /\ At(c, "hasread")
        /\ hasRead' = [hasRead EXCEPT ![c][SenderOf[e.key]] = IF e.seq > @ THEN e.seq ELSE @]
        /\ LoopOr(c, "hasread", "toPostgres")
        /\ UNCHANGED <<toTransfer, consumerVars, seqKey, dedup, cache, topicVars, maxRow, faults>>

PublishToPostgres(c) ==
    /\ At(c, "toPostgres")
    /\ toPostgres' = Append(toPostgres, Accepted(c, worker[c].i))
    /\ Goto(c, "agentTrigger")
    /\ UNCHANGED <<toTransfer, consumerVars, redisVars, agentTrigger, toPush, maxRow, faults>>

PublishAgentTrigger(c) ==
    /\ At(c, "agentTrigger")
    /\ agentTrigger' = Append(agentTrigger, Accepted(c, worker[c].i))
    /\ Goto(c, "toPush")
    /\ UNCHANGED <<toTransfer, consumerVars, redisVars, toPostgres, toPush, maxRow, faults>>

(* A fanout that filters down to empty skips the topic. *)
PublishToPush(c) ==
    LET e  == Accepted(c, worker[c].i)
        to == PushRecipients(e.key)
    IN  /\ At(c, "toPush")
        /\ toPush' = IF to = {} THEN toPush
                     ELSE Append(toPush, [key |-> e.key, srv |-> e.srv, seq |-> e.seq, to |-> to])
        /\ LoopOr(c, "toPostgres", "record")
        /\ UNCHANGED <<toTransfer, consumerVars, redisVars, toPostgres, agentTrigger, maxRow, faults>>

(* SET NX: an existing record is kept. *)
DedupSet(c) ==
    LET e == Accepted(c, worker[c].i)
    IN  /\ At(c, "record")
        /\ dedup' = [dedup EXCEPT ![e.key] = IF @ = NoRecord THEN [seq |-> e.seq, srv |-> e.srv] ELSE @]
        /\ LoopOr(c, "record", "done")
        /\ UNCHANGED <<toTransfer, consumerVars, seqKey, cache, hasRead, topicVars, maxRow, faults>>

(* A call of the worker fails.  errgroup cancels the others' context, so    *)
(* once one worker failed the rest may fail without a fault of their own.   *)
Fail(c) ==
    /\ phase = "handle" /\ worker[c].pc \notin {"idle", "done", "fail"}
    /\ \/ AnyFailed /\ faults' = faults
       \/ faults < MaxFaults /\ faults' = faults + 1
    /\ Goto(c, "fail")
    /\ UNCHANGED <<toTransfer, consumerVars, redisVars, topicVars, maxRow>>

-----------------------------------------------------------------------------
(* What the persist consumer may do to max(messages.seq): raise it to a seq *)
(* it read from toPostgres.  Module Persist says how.                       *)
Archive(c) ==
    /\ \E n \in 1 .. Len(toPostgres) :
          /\ ConvOf[toPostgres[n].key] = c
          /\ toPostgres[n].seq > maxRow[c]
          /\ maxRow' = [maxRow EXCEPT ![c] = toPostgres[n].seq]
    /\ UNCHANGED <<toTransfer, consumerVars, worker, redisVars, topicVars, faults>>

(* Redis loses everything (no AOF), or a 7-day dedup record expires. *)
LoseRedis ==
    /\ faults < MaxFaults
    /\ faults' = faults + 1
    /\ seqKey' = [c \in Convs |-> Missing]
    /\ dedup' = [k \in ClientKeys |-> NoRecord]
    /\ cache' = [c \in Convs |-> {}]
    /\ hasRead' = [c \in Convs |-> [u \in Users |-> 0]]
    /\ UNCHANGED <<toTransfer, consumerVars, worker, topicVars, maxRow>>

ExpireDedup(k) ==
    /\ dedup[k] # NoRecord /\ faults < MaxFaults
    /\ faults' = faults + 1
    /\ dedup' = [dedup EXCEPT ![k] = NoRecord]
    /\ UNCHANGED <<toTransfer, consumerVars, worker, seqKey, cache, hasRead, topicVars, maxRow>>

-----------------------------------------------------------------------------
Malloc(c) == MallocExists(c) \/ MallocQuery(c) \/ MallocSetNX(c) \/ MallocIncr(c)

HandleConversation(c) ==
    \/ DedupGet(c) \/ Malloc(c) \/ CacheMessage(c) \/ SetHasRead(c)
    \/ PublishToPostgres(c) \/ PublishAgentTrigger(c) \/ PublishToPush(c) \/ DedupSet(c)

RunLoop == Poll \/ HandlerError \/ HandlerOK \/ CommitRecords

Next ==
    \/ \E k \in ClientKeys : SendMessage(k)
    \/ ForeignRecord
    \/ RunLoop \/ Crash
    \/ \E c \in Convs : HandleConversation(c) \/ Fail(c) \/ Archive(c)

(* Redis keeps its data. *)
Spec == Init /\ [][Next]_vars

(* Redis may lose it. *)
LossySpec == Init /\ [][Next \/ LoseRedis \/ \E k \in ClientKeys : ExpireDedup(k)]_vars

-----------------------------------------------------------------------------
TypeOK ==
    /\ toTransfer \in Seq(Records)
    /\ committed \in Nat /\ polled \in Nat /\ committed <= Len(toTransfer) /\ polled <= Len(toTransfer)
    /\ phase \in {"poll", "handle", "commit"}
    /\ phase # "poll" => committed <= polled
    /\ worker \in [Convs -> Workers]
    /\ seqKey \in [Convs -> Nat \cup {Missing}]
    /\ dedup \in [ClientKeys -> [seq : Nat, srv : Nat]]
    /\ cache \in [Convs -> SUBSET Events]
    /\ hasRead \in [Convs -> [Users -> Nat]]
    /\ toPostgres \in Seq(Events) /\ agentTrigger \in Seq(Events) /\ toPush \in Seq(PushEvents)
    /\ maxRow \in [Convs -> Nat]
    /\ faults \in 0 .. MaxFaults

(* On toPostgres the seqs of a conversation increase strictly and stay      *)
(* above the rows that existed before: no two records carry one (conv, seq) *)
(* and a reader that has seen seq n never meets a new message below n.      *)
(* Crashes, in-place retries and client retries included (seq.go Malloc).   *)
SeqStrictlyIncreasing ==
    /\ \A m, n \in 1 .. Len(toPostgres) :
          m < n /\ ConvOf[toPostgres[m].key] = ConvOf[toPostgres[n].key]
              => toPostgres[m].seq < toPostgres[n].seq
    /\ \A n \in 1 .. Len(toPostgres) : toPostgres[n].seq > InitialMax[ConvOf[toPostgres[n].key]]

PublishedTo(log, k) == \E n \in 1 .. Len(log) : log[n].key = k

FullyPublished(k) ==
    /\ PublishedTo(toPostgres, k) /\ PublishedTo(agentTrigger, k)
    /\ PushRecipients(k) # {} => PublishedTo(toPush, k)

(* A committed offset never covers a message that has not reached all its   *)
(* topics (kafka.go commits after the whole batch; handler.go writes the    *)
(* dedup record last): an acknowledged message is not lost, whatever        *)
(* crashes, fails, is retried, or is forgotten by Redis.                    *)
NoAcceptedLoss ==
    \A o \in 1 .. committed : toTransfer[o] # Malformed => FullyPublished(toTransfer[o])

(* A dedup record suppresses every later record of its key, so it may exist *)
(* only once the message reached all its topics, and it resolves to an      *)
(* event that toPostgres carries (store.go DedupRecord).                    *)
DedupMeansPublished ==
    \A k \in ClientKeys : dedup[k] # NoRecord =>
        /\ FullyPublished(k)
        /\ \E n \in 1 .. Len(toPostgres) :
              toPostgres[n] = [key |-> k, srv |-> dedup[k].srv, seq |-> dedup[k].seq]

(* Nothing is pushed to a client or triggers an agent under a seq that the  *)
(* archive topic does not carry for that message (order of the produce loop *)
(* in handleConversation).                                                  *)
FanoutIsArchived ==
    /\ \A n \in 1 .. Len(agentTrigger) : \E m \in 1 .. Len(toPostgres) : toPostgres[m] = agentTrigger[n]
    /\ \A n \in 1 .. Len(toPush) : \E m \in 1 .. Len(agentTrigger) :
          agentTrigger[m] = [key |-> toPush[n].key, srv |-> toPush[n].srv, seq |-> toPush[n].seq]

(* The order of the produce loop in handleConversation: toPostgres first,   *)
(* then the fanout, the dedup record last.  So whatever fails in between,   *)
(* nothing is fanned out that is not archived, and no later record is       *)
(* suppressed for a message that is not out.                                *)
PublishedInOrder == FanoutIsArchived /\ DedupMeansPublished

(* Once the dedup record of a message exists, no step publishes the message *)
(* again (handler.go: "Already seq-assigned in an earlier batch").          *)
NoRepublish ==
    [][\A k \in ClientKeys : dedup[k] # NoRecord /\ toPostgres' # toPostgres
          => toPostgres'[Len(toPostgres')].key # k]_vars

(* The message is replayed with the seq it already has: "everything before  *)
(* it is idempotent" (handler.go, comment before the dedup record).         *)
OneSeqPerMessage ==
    \A m, n \in 1 .. Len(toPostgres) :
        toPostgres[m].key = toPostgres[n].key => toPostgres[m].seq = toPostgres[n].seq

(* Every record is eventually consumed: no failure pattern, malformed record *)
(* or duplicate stops the loop for good.                                     *)
EveryRecordConsumed ==
    \A o \in 1 .. MaxRecords : Len(toTransfer) >= o ~> committed >= o
=============================================================================
