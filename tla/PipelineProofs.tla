--------------------------- MODULE PipelineProofs ---------------------------
(***************************************************************************)
(* The two consumers together, for any number of conversations, records,   *)
(* failures and sizes of batches: each gives the other the environment it  *)
(* was proved correct in (KeepsContracts), and what they do to the         *)
(* messages table is what Archive allows.                                  *)
(*                                                                         *)
(* The theorems of TransferProofs and PersistProofs hold of a consumer     *)
(* whose environment keeps to its contract, and each consumer is the       *)
(* other's environment.  So their invariants are proved together: in a     *)
(* state that satisfies both, a step of either consumer is a step the      *)
(* other's specification allows, and therefore keeps both invariants.      *)
(***************************************************************************)
EXTENDS Pipeline, TransferProofs, PersistProofs, FiniteSetTheorems

-----------------------------------------------------------------------------
(*             A message keeps its server_msg_id when published again      *)

Recorded(k) == dedup[k] # NoRecord

(* Offset o is the first record of its message. *)
FirstOf(o) == o \in 1 .. Len(toTransfer) /\ \A p \in 1 .. o - 1 : toTransfer[p] # toTransfer[o]

(* What the worker of c numbers are first records, in order; what it does   *)
(* not number is recorded.                                                  *)
FreshAreFirst(c) ==
    /\ \A j \in 1 .. Len(worker[c].fresh) : FirstOf(worker[c].fresh[j])
    /\ \A i, j \in 1 .. Len(worker[c].fresh) : i < j => worker[c].fresh[i] < worker[c].fresh[j]
    /\ \A o \in EventsOf(c) : \/ Recorded(toTransfer[o])
                              \/ \E j \in 1 .. Len(worker[c].fresh) : KeyOf(c, j) = toTransfer[o]

WorkerFirst(c) ==
    /\ worker[c].pc \in Active => FreshAreFirst(c)
    /\ worker[c].pc = "record" => \A j \in 1 .. worker[c].i - 1 : Recorded(KeyOf(c, j))
    /\ worker[c].pc = "done" => \A o \in EventsOf(c) : Recorded(toTransfer[o])

LogFirst ==
    \A n \in 1 .. Len(toPostgres) :
        FirstOf(toPostgres[n].srv) /\ toTransfer[toPostgres[n].srv] = toPostgres[n].key

CommittedRecorded == \A o \in 1 .. committed : toTransfer[o] # Malformed => Recorded(toTransfer[o])

(* Redis keeps its data here: a committed message is recorded, so a message *)
(* that is not has its first record in the batch.                           *)
FirstInv == CommittedRecorded /\ LogFirst /\ \A c \in Convs : WorkerFirst(c)

RecordsGrow == \A k \in ClientKeys : Recorded(k) => Recorded(k)'

LEMMA FirstKeptByAppend ==
    ASSUME TypeInv, NEW o, FirstOf(o),
           \/ UNCHANGED toTransfer
           \/ \E r \in Records : toTransfer' = Append(toTransfer, r)
    PROVE  /\ o \in 1 .. Len(toTransfer') /\ toTransfer'[o] = toTransfer[o]
           /\ \A p \in 1 .. o - 1 : toTransfer'[p] # toTransfer'[o]
<1>1. CASE UNCHANGED toTransfer
  BY <1>1 DEF FirstOf
<1>2. ASSUME NEW r \in Records, toTransfer' = Append(toTransfer, r)
      PROVE  /\ o \in 1 .. Len(toTransfer') /\ toTransfer'[o] = toTransfer[o]
             /\ \A p \in 1 .. o - 1 : toTransfer'[p] # toTransfer'[o]
  <2>1. toTransfer \in Seq(Records)
    BY DEF TypeInv, TypeOK
  <2>2. /\ Len(toTransfer) \in Nat /\ Len(toTransfer') = Len(toTransfer) + 1
        /\ \A p \in 1 .. Len(toTransfer) : toTransfer'[p] = toTransfer[p]
    BY <1>2, <2>1
  <2>3. o \in 1 .. Len(toTransfer) /\ \A p \in 1 .. o - 1 : p \in 1 .. Len(toTransfer)
    BY <2>2 DEF FirstOf
  <2> QED
    BY <2>2, <2>3 DEF FirstOf
<1> QED
  BY <1>1, <1>2

(* A worker that keeps its list keeps what is said of it. *)
LEMMA FreshStayFirst ==
    ASSUME TypeInv, NEW c \in Convs, worker[c].pc \in Active, FreshAreFirst(c), Kept(c), RecordsGrow,
           worker'[c].fresh = worker[c].fresh,
           \/ UNCHANGED toTransfer
           \/ \E r \in Records : toTransfer' = Append(toTransfer, r)
    PROVE  /\ FreshAreFirst(c)'
           /\ \A j \in 1 .. Len(worker[c].fresh) : KeyOf(c, j)' = KeyOf(c, j) /\ KeyOf(c, j) \in ClientKeys
<1>1. ASSUME NEW j \in 1 .. Len(worker[c].fresh)
      PROVE  KeyOf(c, j)' = KeyOf(c, j) /\ FirstOf(worker[c].fresh[j])' /\ KeyOf(c, j) \in ClientKeys
  <2>1. PICK o : o = worker[c].fresh[j]
    OBVIOUS
  <2>2. FirstOf(o) /\ o \in EventsOf(c)
    BY <2>1 DEF FreshAreFirst, TypeInv, WorkerInv
  <2>3. /\ o \in 1 .. Len(toTransfer') /\ toTransfer'[o] = toTransfer[o]
        /\ \A p \in 1 .. o - 1 : toTransfer'[p] # toTransfer'[o]
    BY <2>2, FirstKeptByAppend
  <2>4. o = worker'[c].fresh[j] /\ toTransfer[o] \in ClientKeys
    BY <2>1, <2>2, EventKeys
  <2> QED
    BY <2>1, <2>3, <2>4 DEF FirstOf, KeyOf
<1>2. \A o \in EventsOf(c) : toTransfer[o] \in ClientKeys
  BY EventKeys
<1>3. ASSUME NEW o \in EventsOf(c)'
      PROVE  Recorded(toTransfer[o])' \/ \E j \in 1 .. Len(worker[c].fresh)' : (KeyOf(c, j) = toTransfer[o])'
  <2>1. o \in EventsOf(c) /\ toTransfer'[o] = toTransfer[o] /\ toTransfer[o] \in ClientKeys
    BY <1>2 DEF Kept
  <2>2. CASE Recorded(toTransfer[o])
    BY <2>1, <2>2 DEF RecordsGrow, Recorded
  <2>3. CASE \E j \in 1 .. Len(worker[c].fresh) : KeyOf(c, j) = toTransfer[o]
    BY <1>1, <2>1, <2>3
  <2> QED
    BY <2>1, <2>2, <2>3 DEF FreshAreFirst
<1> QED
  BY <1>1, <1>3 DEF FreshAreFirst

LEMMA FirstElsewhere ==
    ASSUME TypeInv, NEW c \in Convs, WorkerFirst(c), Kept(c), RecordsGrow, worker'[c] = worker[c],
           \/ UNCHANGED toTransfer
           \/ \E r \in Records : toTransfer' = Append(toTransfer, r)
    PROVE  WorkerFirst(c)'
<1>1. CASE worker[c].pc \in Active
  <2>1. /\ FreshAreFirst(c)'
        /\ \A j \in 1 .. Len(worker[c].fresh) : KeyOf(c, j)' = KeyOf(c, j) /\ KeyOf(c, j) \in ClientKeys
    BY <1>1, FreshStayFirst DEF WorkerFirst
  <2>2. \A j \in 1 .. worker[c].i - 1 : j \in 1 .. Len(worker[c].fresh)
    BY <1>1, IndexRange
  <2> QED
    BY <1>1, <2>1, <2>2 DEF WorkerFirst, Active, RecordsGrow, Recorded
<1>2. CASE worker[c].pc = "done"
  <2>1. \A o \in EventsOf(c) : toTransfer[o] \in ClientKeys
    BY EventKeys
  <2> QED
    BY <1>2, <2>1 DEF WorkerFirst, Kept, RecordsGrow, Active, Recorded
<1>3. CASE worker[c].pc \notin Active \cup {"done"}
  BY <1>3 DEF WorkerFirst, Active
<1> QED
  BY <1>1, <1>2, <1>3

(* A step of one worker: what is left to show is about that worker only. *)
LEMMA FirstWorkerStep ==
    ASSUME TypeInv, FirstInv, NEW c \in Convs, RecordsGrow, UNCHANGED <<toTransfer, consumerVars>>,
           \A d \in Convs : d # c => worker'[d] = worker[d], LogFirst', WorkerFirst(c)'
    PROVE  FirstInv'
<1>1. \A d \in Convs : WorkerFirst(d)'
  <2> TAKE d \in Convs
  <2>1. CASE d # c
    BY <2>1, ConsumerKept, FirstElsewhere DEF FirstInv
  <2> QED
    BY <2>1
<1>2. CommittedRecorded'
  <2>1. \A o \in 1 .. committed : toTransfer[o] # Malformed => toTransfer[o] \in ClientKeys
    BY DEF TypeInv, TypeOK, Records
  <2> QED
    BY <2>1 DEF FirstInv, CommittedRecorded, RecordsGrow, consumerVars, Recorded
<1> QED
  BY <1>1, <1>2 DEF FirstInv

(* A call of a worker between its dedup loop and its dedup records. *)
LEMMA FirstQuietStep ==
    ASSUME TypeInv, FirstInv, NEW c \in Convs, worker[c].pc \in Active, worker'[c].fresh = worker[c].fresh,
           \/ worker'[c].pc \in Active \ {"record"}
           \/ worker'[c].pc = "record" /\ worker'[c].i = 1
           \/ worker'[c].pc = "fail",
           UNCHANGED <<toTransfer, consumerVars, dedup>>, LogFirst',
           \A d \in Convs : d # c => worker'[d] = worker[d]
    PROVE  FirstInv'
<1>1. RecordsGrow /\ Kept(c)
  BY ConsumerKept DEF RecordsGrow, Recorded
<1>2. FreshAreFirst(c)'
  BY <1>1, FreshStayFirst DEF FirstInv, WorkerFirst
<1>3. WorkerFirst(c)'
  BY <1>2 DEF WorkerFirst, Active
<1> QED
  BY <1>1, <1>3, FirstWorkerStep

(* The list of the dedup loop, as a sequence. *)
LEMMA DedupGetList ==
    ASSUME TypeInv, NEW c \in Convs, DedupGet(c)
    PROVE  \E f \in Seq(FreshOffsets(c)) :
              /\ worker'[c].fresh = f /\ worker'[c].pc = (IF f = <<>> THEN "done" ELSE "exists")
              /\ \A d \in Convs : d # c => worker'[d] = worker[d]
              /\ \A o \in FreshOffsets(c) : \E j \in 1 .. Len(f) : f[j] = o
              /\ \A i, j \in 1 .. Len(f) : i < j => f[i] < f[j]
<1>1. PICK f \in InOrder(FreshOffsets(c), polled - committed) :
        worker' = [worker EXCEPT ![c].fresh = f, ![c].i = 1,
                                 ![c].pc = IF f = <<>> THEN "done" ELSE "exists"]
  BY DEF DedupGet
<1>2. worker \in [Convs -> Workers]
  BY DEF TypeInv, TypeOK
<1>3. /\ worker'[c].fresh = f /\ worker'[c].pc = (IF f = <<>> THEN "done" ELSE "exists")
      /\ \A d \in Convs : d # c => worker'[d] = worker[d]
  BY <1>1, <1>2 DEF Workers
<1>4. PICK n \in 0 .. polled - committed : f \in [1 .. n -> FreshOffsets(c)]
  BY <1>1 DEF InOrder
<1>5. n \in Nat
  BY <1>4 DEF TypeInv, TypeOK
<1>6. f \in Seq(FreshOffsets(c)) /\ DOMAIN f = 1 .. Len(f)
  BY <1>4, <1>5
<1> QED
  BY <1>1, <1>3, <1>6 DEF InOrder

(* The first record of a message in the batch is its first record at all,   *)
(* unless the message is recorded.                                          *)
LEMMA FreshIsFirst ==
    ASSUME TypeInv, FirstInv, NEW c \in Convs, NEW o \in FreshOffsets(c)
    PROVE  FirstOf(o) /\ o \in EventsOf(c)
<1>1. /\ o \in EventsOf(c) /\ ~ Recorded(toTransfer[o])
      /\ \A p \in EventsOf(c) : toTransfer[p] = toTransfer[o] => o <= p
  BY DEF FreshOffsets, Recorded
<1>2. o \in Nat /\ o \in 1 .. Len(toTransfer) /\ o \in Batch /\ toTransfer[o] # Malformed /\ ConvOf[toTransfer[o]] = c
  BY <1>1, EventKeys DEF EventsOf
<1>3. committed \in Nat /\ polled \in Nat
  BY DEF TypeInv, TypeOK
<1>4. ASSUME NEW p \in 1 .. o - 1, toTransfer[p] = toTransfer[o] PROVE FALSE
  <2>1. CASE p <= committed
    <3>1. p \in 1 .. committed
      BY <1>2, <1>3, <2>1
    <3> QED
      BY <1>1, <1>2, <1>4, <3>1 DEF FirstInv, CommittedRecorded
  <2>2. CASE p > committed
    <3>1. p \in Batch
      BY <1>2, <1>3, <2>2 DEF Batch
    <3>2. p \in EventsOf(c)
      BY <1>2, <1>4, <3>1 DEF EventsOf
    <3> QED
      BY <1>1, <1>2, <1>4, <3>2
  <2> QED
    BY <1>2, <1>3, <2>1, <2>2
<1> QED
  BY <1>1, <1>2, <1>4 DEF FirstOf

LEMMA FirstDedupGet ==
    ASSUME TypeInv, FirstInv, NEW c \in Convs, DedupGet(c) PROVE FirstInv'
<1>1. PICK f \in Seq(FreshOffsets(c)) :
              /\ worker'[c].fresh = f /\ worker'[c].pc = (IF f = <<>> THEN "done" ELSE "exists")
              /\ \A d \in Convs : d # c => worker'[d] = worker[d]
              /\ \A o \in FreshOffsets(c) : \E j \in 1 .. Len(f) : f[j] = o
              /\ \A i, j \in 1 .. Len(f) : i < j => f[i] < f[j]
  BY DedupGetList
<1>2. UNCHANGED <<toTransfer, consumerVars, dedup, toPostgres>>
  BY DEF DedupGet, redisVars, topicVars
<1>3. RecordsGrow /\ LogFirst' /\ EventsOf(c)' = EventsOf(c)
  BY <1>2, ConsumerKept DEF RecordsGrow, Recorded, LogFirst, FirstInv, FirstOf, Kept
<1>4. ASSUME NEW o \in EventsOf(c)
      PROVE  Recorded(toTransfer[o]) \/ \E j \in 1 .. Len(f) : toTransfer[f[j]] = toTransfer[o]
  <2>1. CASE ~ Recorded(toTransfer[o])
    <3> DEFINE Same == {p \in EventsOf(c) : toTransfer[p] = toTransfer[o]}
    <3>1. Same \in SUBSET Nat /\ Same # {}
      BY EventKeys
    <3> HIDE DEF Same
    <3>2. PICK x \in Same : \A y \in Same : x <= y
      BY <3>1, LeastNat
    <3> USE DEF Same
    <3>3. x \in FreshOffsets(c) /\ toTransfer[x] = toTransfer[o]
      BY <2>1, <3>2 DEF FreshOffsets, Recorded
    <3> QED
      BY <1>1, <3>3
  <2> QED
    BY <2>1
<1>5. \A j \in 1 .. Len(f) : FirstOf(f[j])
  BY FreshIsFirst
<1>6. CASE f = <<>>
  <2>1. Len(f) = 0
    BY <1>6
  <2>2. \A o \in EventsOf(c) : Recorded(toTransfer[o])
    BY <1>4, <2>1
  <2>3. WorkerFirst(c)'
    BY <1>1, <1>2, <1>3, <1>6, <2>2 DEF WorkerFirst, Active, Recorded
  <2> QED
    BY <1>1, <1>2, <1>3, <2>3, FirstWorkerStep
<1>7. CASE f # <<>>
  <2>1. FreshAreFirst(c)'
    BY <1>1, <1>2, <1>3, <1>4, <1>5 DEF FreshAreFirst, FirstOf, Recorded, KeyOf
  <2>2. WorkerFirst(c)'
    BY <1>1, <1>7, <2>1 DEF WorkerFirst, Active
  <2> QED
    BY <1>1, <1>2, <1>3, <2>2, FirstWorkerStep
<1> QED
  BY <1>6, <1>7

LEMMA FirstDedupSet ==
    ASSUME TypeInv, FirstInv, NEW c \in Convs, DedupSet(c) PROVE FirstInv'
<1>1. /\ worker[c].pc = "record" /\ worker[c].pc \in Active /\ LoopOr(c, "record", "done")
      /\ UNCHANGED <<toTransfer, consumerVars, toPostgres>>
  BY DEF DedupSet, At, Active, topicVars
<1>2. /\ Len(worker[c].fresh) \in Nat /\ worker[c].i \in 1 .. Len(worker[c].fresh)
      /\ \A j \in 1 .. worker[c].i - 1 : j \in 1 .. Len(worker[c].fresh)
  BY <1>1, IndexRange
<1>3. /\ worker'[c].fresh = worker[c].fresh
      /\ \A d \in Convs : d # c => worker'[d] = worker[d]
      /\ \/ worker'[c].pc = "record" /\ worker'[c].i = worker[c].i + 1
         \/ worker'[c].pc = "done" /\ worker'[c].i = 1 /\ worker[c].i = Len(worker[c].fresh)
  BY <1>1, LoopMoves
<1>4. PICK k, o : k = KeyOf(c, worker[c].i) /\ o = worker[c].fresh[worker[c].i]
  OBVIOUS
<1>5. o \in EventsOf(c) /\ k = toTransfer[o] /\ k \in ClientKeys /\ o \in Nat /\ o >= 1
  <2>1. o \in EventsOf(c) /\ k = toTransfer[o]
    BY <1>1, <1>2, <1>4 DEF TypeInv, WorkerInv, KeyOf
  <2> QED
    BY <2>1, EventKeys
<1>6. PICK r : r.srv = o /\ dedup' = [dedup EXCEPT ![k] = IF dedup[k] = NoRecord THEN r ELSE dedup[k]]
  <2>1. PICK e : e = Accepted(c, worker[c].i)
    OBVIOUS
  <2>2. e.key = k /\ e.srv = o
    BY <1>4, <1>5, <2>1 DEF Accepted
  <2>3. dedup' = [dedup EXCEPT ![k] = IF dedup[k] = NoRecord THEN [seq |-> e.seq, srv |-> e.srv] ELSE dedup[k]]
    BY <2>1, <2>2 DEF DedupSet
  <2> QED
    BY <2>2, <2>3
<1>7. dedup \in [ClientKeys -> [seq : Nat, srv : Nat]]
  BY DEF TypeInv, TypeOK
<1>8. Recorded(k)' /\ \A q \in ClientKeys : q # k => dedup'[q] = dedup[q]
  BY <1>5, <1>6, <1>7 DEF Recorded, NoRecord
<1>9. RecordsGrow /\ LogFirst' /\ Kept(c)
  BY <1>1, <1>8, ConsumerKept DEF RecordsGrow, Recorded, LogFirst, FirstInv, FirstOf
<1>10. /\ FreshAreFirst(c)' /\ FreshAreFirst(c)
       /\ \A j \in 1 .. Len(worker[c].fresh) : KeyOf(c, j)' = KeyOf(c, j) /\ KeyOf(c, j) \in ClientKeys
  BY <1>1, <1>3, <1>9, FreshStayFirst DEF FirstInv, WorkerFirst
<1>11. \A j \in 1 .. worker[c].i : Recorded(KeyOf(c, j))'
  <2> TAKE j \in 1 .. worker[c].i
  <2>1. CASE j = worker[c].i
    BY <1>2, <1>4, <1>8, <1>10, <2>1 DEF Recorded
  <2>2. CASE j # worker[c].i
    <3>1. j \in 1 .. worker[c].i - 1 /\ j \in 1 .. Len(worker[c].fresh)
      BY <1>2, <2>2
    <3> QED
      BY <1>1, <1>9, <1>10, <3>1 DEF FirstInv, WorkerFirst, RecordsGrow, Recorded
  <2> QED
    BY <2>1, <2>2
<1>12. CASE worker'[c].pc = "record"
  <2>1. \A j \in 1 .. worker'[c].i - 1 : Recorded(KeyOf(c, j))'
    BY <1>2, <1>3, <1>11, <1>12
  <2>2. WorkerFirst(c)'
    BY <1>10, <1>12, <2>1 DEF WorkerFirst
  <2> QED
    BY <1>1, <1>3, <1>9, <2>2, FirstWorkerStep
<1>13. CASE worker'[c].pc = "done"
  <2>1. \A j \in 1 .. Len(worker'[c].fresh) : Recorded(KeyOf(c, j))'
    BY <1>3, <1>11, <1>13
  <2>2. \A p \in EventsOf(c)' : Recorded(toTransfer[p])'
    BY <1>10, <2>1 DEF FreshAreFirst, Recorded
  <2>3. WorkerFirst(c)'
    BY <1>13, <2>2 DEF WorkerFirst, Active
  <2> QED
    BY <1>1, <1>3, <1>9, <2>3, FirstWorkerStep
<1> QED
  BY <1>3, <1>12, <1>13

LEMMA FirstPublish ==
    ASSUME TypeInv, FirstInv, NEW c \in Convs, PublishToPostgres(c) PROVE FirstInv'
<1>1. /\ worker[c].pc = "toPostgres" /\ worker[c].pc \in Active /\ Goto(c, "agentTrigger")
      /\ UNCHANGED <<toTransfer, consumerVars, dedup>>
  BY DEF PublishToPostgres, At, Active, redisVars
<1>2. /\ worker'[c].fresh = worker[c].fresh /\ worker'[c].pc = "agentTrigger"
      /\ \A d \in Convs : d # c => worker'[d] = worker[d]
  BY <1>1, GotoMoves
<1>3. PICK e : e = Accepted(c, worker[c].i)
  OBVIOUS
<1>4. FirstOf(e.srv) /\ toTransfer[e.srv] = e.key
  <2>1. worker[c].i \in 1 .. Len(worker[c].fresh)
    BY <1>1, IndexRange
  <2> QED
    BY <1>1, <1>3, <2>1 DEF FirstInv, WorkerFirst, FreshAreFirst, Accepted
<1>5. e \in Events /\ toPostgres \in Seq(Events) /\ toPostgres' = Append(toPostgres, e)
  BY <1>1, <1>3, AcceptedEvent DEF PublishToPostgres, TypeInv, TypeOK
<1>6. /\ Len(toPostgres) \in Nat /\ Len(toPostgres') = Len(toPostgres) + 1 /\ toPostgres'[Len(toPostgres) + 1] = e
      /\ \A n \in 1 .. Len(toPostgres) : toPostgres'[n] = toPostgres[n]
  BY <1>5
<1>7. \A n \in 1 .. Len(toPostgres') : n \in 1 .. Len(toPostgres) \/ n = Len(toPostgres) + 1
  BY <1>6
<1>8. LogFirst'
  BY <1>1, <1>4, <1>6, <1>7, SMTT(20) DEF LogFirst, FirstInv, FirstOf
<1>9. worker'[c].pc \in Active \ {"record"}
  BY <1>2 DEF Active
<1> QED
  BY <1>1, <1>2, <1>8, <1>9, FirstQuietStep

LEMMA FirstLoop ==
    ASSUME TypeInv, LossInv, FirstInv, RunLoop \/ Crash PROVE FirstInv'
<1>1. UNCHANGED <<toTransfer, dedup, toPostgres>>
  BY DEF RunLoop, Poll, HandlerError, HandlerOK, CommitRecords, Crash, redisVars, topicVars
<1>2. LogFirst' /\ RecordsGrow
  BY <1>1 DEF FirstInv, LogFirst, FirstOf, RecordsGrow, Recorded
<1>3. UNCHANGED committed => CommittedRecorded'
  BY <1>1 DEF FirstInv, CommittedRecorded, Recorded
<1>4. ASSUME NEW c \in Convs, worker' = StartWorkers(Batch') PROVE WorkerFirst(c)'
  <2>1. /\ worker'[c].pc \in {"dedup", "done"}
        /\ worker'[c].pc = "done" => \A o \in Batch' : ~(toTransfer[o] # Malformed /\ ConvOf[toTransfer[o]] = c)
    BY <1>4 DEF StartWorkers, StartedWorker, DoneWorker, IdleWorker
  <2>2. worker'[c].pc = "done" => EventsOf(c)' = {}
    BY <1>1, <2>1 DEF EventsOf
  <2> QED
    BY <2>1, <2>2 DEF WorkerFirst, Active
<1>5. ASSUME NEW c \in Convs, worker' = Quiet PROVE WorkerFirst(c)'
  <2>1. worker'[c].pc = "idle"
    BY <1>5 DEF Quiet, IdleWorker
  <2> QED
    BY <2>1 DEF WorkerFirst, Active
<1>6. CASE Poll
  <2>1. PICK hi : polled' = hi /\ worker' = StartWorkers(committed + 1 .. hi)
    BY <1>6 DEF Poll
  <2>2. UNCHANGED committed
    BY <1>6 DEF Poll
  <2>3. worker' = StartWorkers(Batch')
    BY <2>1, <2>2 DEF Batch
  <2> QED
    BY <1>2, <1>3, <1>4, <2>2, <2>3 DEF FirstInv
<1>7. CASE HandlerError
  <2>1. UNCHANGED committed /\ worker' = StartWorkers(Batch')
    BY <1>7 DEF HandlerError, consumerVars, Batch
  <2> QED
    BY <1>2, <1>3, <1>4, <2>1 DEF FirstInv
<1>8. CASE HandlerOK
  <2>1. UNCHANGED <<committed, polled, worker>>
    BY <1>8 DEF HandlerOK
  <2>2. \A c \in Convs : Kept(c)
    BY <1>1, <2>1 DEF Kept, EventsOf, Batch
  <2>3. \A c \in Convs : WorkerFirst(c)'
    BY <1>1, <1>2, <2>1, <2>2, FirstElsewhere DEF FirstInv
  <2> QED
    BY <1>2, <1>3, <2>1, <2>3 DEF FirstInv
<1>9. CASE CommitRecords
  <2>1. phase = "commit" /\ committed' = polled /\ worker' = Quiet
    BY <1>9 DEF CommitRecords
  <2>2. committed \in Nat /\ polled \in Nat /\ polled <= Len(toTransfer) /\ Len(toTransfer) \in Nat
    BY DEF TypeInv, TypeOK
  <2>3. ASSUME NEW o \in 1 .. polled, toTransfer[o] # Malformed PROVE Recorded(toTransfer[o])
    <3>1. CASE o <= committed
      BY <2>2, <2>3, <3>1 DEF FirstInv, CommittedRecorded
    <3>2. CASE o > committed
      <4>1. o \in Batch /\ o \in 1 .. Len(toTransfer)
        BY <2>2, <3>2 DEF Batch
      <4>2. toTransfer[o] \in ClientKeys
        BY <2>3, <4>1 DEF TypeInv, TypeOK, Records
      <4>3. ConvOf[toTransfer[o]] \in Convs /\ o \in EventsOf(ConvOf[toTransfer[o]])
        BY <2>3, <4>1, <4>2, ConstantTypes DEF EventsOf
      <4> QED
        BY <2>1, <4>3 DEF LossInv, FirstInv, WorkerFirst
    <3> QED
      BY <2>2, <3>1, <3>2
  <2>4. CommittedRecorded'
    BY <1>1, <2>1, <2>3 DEF CommittedRecorded, Recorded
  <2> QED
    BY <1>2, <1>5, <2>1, <2>4 DEF FirstInv
<1>10. CASE Crash
  <2>1. worker' = Quiet /\ UNCHANGED committed
    BY <1>10 DEF Crash
  <2> QED
    BY <1>2, <1>3, <1>5, <2>1 DEF FirstInv
<1> QED
  BY <1>6, <1>7, <1>8, <1>9, <1>10 DEF RunLoop

(* A record more, or none: nothing of the batch changes. *)
LEMMA FirstOutside ==
    ASSUME TypeInv, FirstInv, UNCHANGED <<consumerVars, worker, dedup, toPostgres>>,
           \/ UNCHANGED toTransfer
           \/ \E r \in Records : toTransfer' = Append(toTransfer, r)
    PROVE  FirstInv'
<1>1. RecordsGrow /\ UNCHANGED <<committed, polled, phase>>
  BY DEF RecordsGrow, Recorded, consumerVars
<1>2. \A c \in Convs : Kept(c)
  BY <1>1, SameEvents DEF Kept, EventsOf
<1>3. \A c \in Convs : WorkerFirst(c)'
  BY <1>1, <1>2, FirstElsewhere DEF FirstInv
<1>4. \A o \in 1 .. committed : toTransfer'[o] = toTransfer[o]
  <2>1. \A o \in 1 .. committed : o \in 1 .. Len(toTransfer)
    BY DEF TypeInv, TypeOK
  <2>2. toTransfer \in Seq(Records)
    BY DEF TypeInv, TypeOK
  <2>3. ASSUME NEW r \in Records, toTransfer' = Append(toTransfer, r), NEW o \in 1 .. Len(toTransfer)
        PROVE  toTransfer'[o] = toTransfer[o]
    BY <2>2, <2>3
  <2> QED
    BY <2>1, <2>3
<1>5. CommittedRecorded'
  BY <1>1, <1>4 DEF FirstInv, CommittedRecorded, Recorded
<1>6. LogFirst'
  <2> SUFFICES ASSUME NEW n \in 1 .. Len(toPostgres), NEW o, o = toPostgres[n].srv
               PROVE  FirstOf(o)' /\ toTransfer'[o] = toPostgres[n].key
    BY DEF LogFirst, FirstOf
  <2>1. FirstOf(o) /\ toTransfer[o] = toPostgres[n].key
    BY DEF FirstInv, LogFirst
  <2> QED
    BY <2>1, FirstKeptByAppend DEF FirstOf
<1> QED
  BY <1>3, <1>5, <1>6 DEF FirstInv

LEMMA FirstInit == Init => FirstInv
<1> SUFFICES ASSUME Init PROVE FirstInv
  OBVIOUS
<1>1. committed = 0 /\ Len(toPostgres) = 0
  BY DEF Init
<1>2. \A c \in Convs : worker[c].pc = "idle"
  BY DEF Init, Quiet, IdleWorker
<1> QED
  BY <1>1, <1>2 DEF FirstInv, CommittedRecorded, LogFirst, WorkerFirst, Active

LEMMA FirstStep == TypeInv /\ LossInv /\ FirstInv /\ [Next]_vars => FirstInv'
<1> SUFFICES ASSUME TypeInv, LossInv, FirstInv, [Next]_vars PROVE FirstInv'
  OBVIOUS
<1>1. CASE UNCHANGED vars
  BY <1>1, FirstOutside DEF vars, redisVars, topicVars
<1>2. ASSUME NEW k \in ClientKeys, SendMessage(k) PROVE FirstInv'
  BY <1>2, FirstOutside DEF SendMessage, Records, redisVars, topicVars
<1>3. CASE ForeignRecord
  BY <1>3, FirstOutside DEF ForeignRecord, Records, redisVars, topicVars
<1>4. CASE RunLoop \/ Crash
  BY <1>4, FirstLoop
<1>5. ASSUME NEW c \in Convs, Archive(c) PROVE FirstInv'
  BY <1>5, FirstOutside DEF Archive, redisVars, topicVars
<1>6. ASSUME NEW c \in Convs, HandleConversation(c) \/ Fail(c) PROVE FirstInv'
  <2>1. CASE DedupGet(c)
    BY <2>1, FirstDedupGet
  <2>2. CASE PublishToPostgres(c)
    BY <2>2, FirstPublish
  <2>3. CASE DedupSet(c)
    BY <2>3, FirstDedupSet
  <2>4. ASSUME UNCHANGED <<toTransfer, toPostgres>> PROVE (LogFirst => LogFirst')
    BY <2>4 DEF LogFirst, FirstOf
  <2>5. ASSUME NEW pc, Goto(c, pc), worker[c].pc \in Active, pc \in (Active \ {"record"}) \cup {"fail"},
               UNCHANGED <<toTransfer, consumerVars, dedup, toPostgres>>
        PROVE  FirstInv'
    BY <2>4, <2>5, GotoMoves, FirstQuietStep DEF FirstInv
  <2>6. ASSUME NEW again, NEW next, LoopOr(c, again, next), worker[c].pc \in Active, again \in Active \ {"record"},
               next \in Active, UNCHANGED <<toTransfer, consumerVars, dedup, toPostgres>>
        PROVE  FirstInv'
    <3>1. /\ worker'[c].fresh = worker[c].fresh
          /\ \A d \in Convs : d # c => worker'[d] = worker[d]
          /\ \/ worker'[c].pc = again
             \/ worker'[c].pc = next /\ worker'[c].i = 1
      BY <2>6, LoopMoves
    <3>2. LogFirst'
      BY <2>4, <2>6 DEF FirstInv
    <3> QED
      BY <2>6, <3>1, <3>2, FirstQuietStep
  <2>7. CASE MallocExists(c)
    <3>1. PICK pc \in {"query", "incr"} : Goto(c, pc)
      BY <2>7 DEF MallocExists
    <3> QED
      BY <2>5, <2>7, <3>1 DEF MallocExists, At, Active, redisVars, topicVars
  <2>8. CASE MallocQuery(c)
    <3>1. worker \in [Convs -> Workers]
      BY DEF TypeInv, TypeOK
    <3>2. /\ worker'[c].fresh = worker[c].fresh /\ worker'[c].pc = "setnx"
          /\ \A d \in Convs : d # c => worker'[d] = worker[d]
      BY <2>8, <3>1 DEF MallocQuery, Workers
    <3>3. worker[c].pc \in Active /\ UNCHANGED <<toTransfer, consumerVars, dedup, toPostgres>>
      BY <2>8 DEF MallocQuery, At, Active, redisVars, topicVars
    <3>4. worker'[c].pc \in Active \ {"record"} /\ LogFirst'
      BY <2>4, <3>2, <3>3 DEF Active, FirstInv
    <3> QED
      BY <3>2, <3>3, <3>4, FirstQuietStep
  <2>9. CASE MallocSetNX(c)
    BY <2>5, <2>9 DEF MallocSetNX, At, Active, redisVars, topicVars
  <2>10. CASE MallocIncr(c)
    <3>1. worker \in [Convs -> Workers]
      BY DEF TypeInv, TypeOK
    <3>2. /\ worker'[c].fresh = worker[c].fresh /\ worker'[c].pc = "cache"
          /\ \A d \in Convs : d # c => worker'[d] = worker[d]
      BY <2>10, <3>1 DEF MallocIncr, Workers
    <3>3. worker[c].pc \in Active /\ UNCHANGED <<toTransfer, consumerVars, dedup, toPostgres>>
      BY <2>10 DEF MallocIncr, At, Active, redisVars, topicVars
    <3>4. worker'[c].pc \in Active \ {"record"} /\ LogFirst'
      BY <2>4, <3>2, <3>3 DEF Active, FirstInv
    <3> QED
      BY <3>2, <3>3, <3>4, FirstQuietStep
  <2>11. CASE CacheMessage(c)
    BY <2>6, <2>11 DEF CacheMessage, At, Active, redisVars, topicVars
  <2>12. CASE SetHasRead(c)
    BY <2>6, <2>12 DEF SetHasRead, At, Active, redisVars, topicVars
  <2>13. CASE PublishAgentTrigger(c)
    BY <2>5, <2>13 DEF PublishAgentTrigger, At, Active, redisVars, topicVars
  <2>14. CASE PublishToPush(c)
    BY <2>6, <2>14 DEF PublishToPush, At, Active, redisVars, topicVars
  <2>15. CASE Fail(c)
    <3>1. UNCHANGED <<toTransfer, consumerVars, dedup, toPostgres>> /\ Goto(c, "fail")
      BY <2>15 DEF Fail, redisVars, topicVars
    <3>2. /\ worker'[c].pc = "fail"
          /\ \A d \in Convs : d # c => worker'[d] = worker[d]
      BY <3>1, GotoMoves
    <3>3. WorkerFirst(c)' /\ RecordsGrow /\ LogFirst'
      BY <2>4, <3>1, <3>2 DEF WorkerFirst, Active, RecordsGrow, Recorded, FirstInv
    <3> QED
      BY <3>1, <3>2, <3>3, FirstWorkerStep
  <2> QED
    BY <1>6, <2>1, <2>2, <2>3, <2>7, <2>8, <2>9, <2>10, <2>11, <2>12, <2>13, <2>14, <2>15
       DEF HandleConversation, Malloc
<1> QED
  BY <1>1, <1>2, <1>3, <1>4, <1>5, <1>6 DEF Next

-----------------------------------------------------------------------------
(*                  How many seqs there are, and how many events           *)

(* The seqs issued so far, with their conversations. *)
Issued == UNION {{c} \X (1 .. seqKey[c]) : c \in Convs}

(* The offsets that the current attempt at the batch may still number. *)
Waiting(c) ==
    IF worker[c].pc = "dedup" THEN EventsOf(c)
    ELSE IF worker[c].pc \in {"exists", "query", "setnx", "incr"}
         THEN {worker[c].fresh[j] : j \in 1 .. Len(worker[c].fresh)} ELSE {}

Reached == IF phase = "poll" THEN committed ELSE polled

(* g says for which record, and in which of a + 1 attempts, a seq was       *)
(* issued: once per record and attempt.                                     *)
Numbering(g, a) ==
    /\ \A x, y \in Issued : g[x] = g[y] => x = y
    /\ \A x \in Issued : g[x][2] = a => /\ g[x][1] <= Reached
                                        /\ \A c \in Convs : g[x][1] \notin Waiting(c)

(* Every attempt but the first follows a failure. *)
AttemptInv ==
    /\ Len(toTransfer) <= MaxRecords
    /\ \E a \in 0 .. faults :
          /\ AnyFailed => a < faults
          /\ \E g \in [Issued -> (1 .. MaxRecords) \X (0 .. a)] : Numbering(g, a)

LEMMA IssuedPairs ==
    /\ \A x \in Issued : x[1] \in Convs /\ x[2] \in 1 .. seqKey[x[1]] /\ x = <<x[1], x[2]>>
    /\ \A c \in Convs : \A s \in 1 .. seqKey[c] : <<c, s>> \in Issued
  BY DEF Issued

(* What a worker may still number is of its own conversation. *)
LEMMA WaitingIsOwn ==
    ASSUME TypeInv, NEW c \in Convs PROVE Waiting(c) \subseteq EventsOf(c)
  BY DEF Waiting, TypeInv, WorkerInv, Active

LEMMA ReachedTyped ==
    ASSUME TypeInv
    PROVE  Reached \in Nat /\ committed \in Nat /\ polled \in Nat /\ faults \in Nat /\ faults \in 0 .. MaxFaults
  BY ConstantTypes DEF TypeInv, TypeOK, Reached

(* A step within an attempt that issues no seq. *)
LEMMA AttemptGoesOn ==
    ASSUME TypeInv, TypeInv', AttemptInv, Issued' = Issued, Len(toTransfer') <= MaxRecords, Reached <= Reached',
           \A c \in Convs : \A o \in Waiting(c)' : o \in Waiting(c) \/ (o \in Nat /\ o > Reached),
           faults <= faults', AnyFailed' => AnyFailed \/ faults < faults'
    PROVE  AttemptInv'
<1>1. PICK a \in 0 .. faults :
        (AnyFailed => a < faults) /\ \E g \in [Issued -> (1 .. MaxRecords) \X (0 .. a)] : Numbering(g, a)
  BY DEF AttemptInv
<1>2. PICK g \in [Issued -> (1 .. MaxRecords) \X (0 .. a)] : Numbering(g, a)
  BY <1>1
<1>3. /\ Reached \in Nat /\ Reached' \in Nat /\ faults \in Nat /\ faults' \in Nat
      /\ \A x \in Issued : g[x][1] \in Nat
  <2>1. Reached \in Nat /\ faults \in Nat
    BY ReachedTyped
  <2>2. Reached' \in Nat /\ faults' \in Nat
    BY ConstantTypes DEF TypeInv, TypeOK, Reached
  <2> QED
    BY <1>2, <2>1, <2>2
<1>4. \A x \in Issued : g[x][2] = a => g[x][1] <= Reached' /\ \A c \in Convs : g[x][1] \notin Waiting(c)'
  BY <1>2, <1>3 DEF Numbering
<1>5. Numbering(g, a)'
  BY <1>2, <1>4 DEF Numbering
<1>6. a \in 0 .. faults' /\ (AnyFailed' => a < faults')
  BY <1>1, <1>3
<1> QED
  BY <1>2, <1>5, <1>6 DEF AttemptInv

(* A new attempt, after a failure. *)
LEMMA AttemptStarts ==
    ASSUME TypeInv, TypeInv', AttemptInv, UNCHANGED <<seqKey, toTransfer>>, ~ AnyFailed',
           \/ AnyFailed /\ UNCHANGED faults
           \/ faults' = faults + 1
    PROVE  AttemptInv'
<1>1. PICK a \in 0 .. faults :
        (AnyFailed => a < faults) /\ \E g \in [Issued -> (1 .. MaxRecords) \X (0 .. a)] : Numbering(g, a)
  BY DEF AttemptInv
<1>2. PICK g \in [Issued -> (1 .. MaxRecords) \X (0 .. a)] : Numbering(g, a)
  BY <1>1
<1>3. faults \in Nat /\ a \in Nat /\ a + 1 \in 0 .. faults'
  BY <1>1, ReachedTyped
<1>4. Issued' = Issued
  BY DEF Issued
<1>5. /\ g \in [Issued' -> (1 .. MaxRecords) \X (0 .. (a + 1))]
      /\ \A x \in Issued : g[x][2] # a + 1
  <2>1. \A x \in Issued : g[x] \in (1 .. MaxRecords) \X (0 .. a)
    BY <1>2
  <2>2. \A p \in (1 .. MaxRecords) \X (0 .. a) : p \in (1 .. MaxRecords) \X (0 .. (a + 1)) /\ p[2] # a + 1
    BY <1>3
  <2> QED
    BY <1>2, <1>4, <2>1, <2>2
<1>6. Numbering(g, a + 1)'
  BY <1>2, <1>4, <1>5 DEF Numbering
<1> QED
  BY <1>3, <1>5, <1>6 DEF AttemptInv

(* Malloc: every fresh record takes a seq, for the first time in this       *)
(* attempt.                                                                 *)
LEMMA AttemptNumbers ==
    ASSUME TypeInv, TypeInv', SeqInv, FirstInv, AttemptInv, NEW c \in Convs, MallocIncr(c)
    PROVE  AttemptInv'
<1>1. PICK a \in 0 .. faults :
        (AnyFailed => a < faults) /\ \E g \in [Issued -> (1 .. MaxRecords) \X (0 .. a)] : Numbering(g, a)
  BY DEF AttemptInv
<1>2. PICK g \in [Issued -> (1 .. MaxRecords) \X (0 .. a)] : Numbering(g, a)
  BY <1>1
<1>3. PICK fresh, base : fresh = worker[c].fresh /\ base = seqKey[c]
  OBVIOUS
<1>4. /\ phase = "handle" /\ worker[c].pc = "incr" /\ worker[c].pc \in Active
      /\ UNCHANGED <<toTransfer, committed, polled, phase, faults>>
  BY DEF MallocIncr, At, Active, consumerVars
<1>5. /\ worker \in [Convs -> Workers] /\ seqKey \in [Convs -> Nat \cup {Missing}]
      /\ fresh \in Seq(Nat) /\ Len(fresh) \in Nat
  <2>1. worker \in [Convs -> Workers] /\ seqKey \in [Convs -> Nat \cup {Missing}]
    BY DEF TypeInv, TypeOK
  <2>2. fresh \in Seq(Nat)
    BY <1>3, <2>1 DEF Workers
  <2> QED
    BY <2>1, <2>2
<1>6. base \in Nat /\ base # Missing
  <2>1. seqKey[c] # Missing
    BY <1>4 DEF SeqInv, ConvInv, CounterMissing
  <2> QED
    BY <1>3, <1>5, <2>1 DEF Missing
<1>7. /\ seqKey' = [seqKey EXCEPT ![c] = base + Len(fresh)]
      /\ worker'[c].pc = "cache" /\ \A d \in Convs : d # c => worker'[d] = worker[d]
  BY <1>3, <1>5, <1>6 DEF MallocIncr, Workers
<1>8. /\ \A d \in Convs : d # c => seqKey'[d] = seqKey[d]
      /\ seqKey'[c] = base + Len(fresh)
  BY <1>5, <1>7
<1>9. /\ \A d \in Convs : EventsOf(d)' = EventsOf(d) /\ (d # c => Waiting(d)' = Waiting(d))
      /\ Waiting(c)' = {} /\ Waiting(c) = {fresh[j] : j \in 1 .. Len(fresh)} /\ Reached = polled /\ Reached' = polled
  <2>1. \A d \in Convs : EventsOf(d)' = EventsOf(d)
    BY <1>4 DEF EventsOf, Batch
  <2>2. \A d \in Convs : d # c => Waiting(d)' = Waiting(d)
    BY <1>7, <2>1, SMTT(10), ZenonT(30) DEF Waiting
  <2> QED
    BY <1>3, <1>4, <1>7, <2>1, <2>2, SMTT(10), ZenonT(30) DEF Waiting, Reached
<1>10. ASSUME NEW j \in 1 .. Len(fresh)
       PROVE  /\ fresh[j] \in EventsOf(c) /\ fresh[j] \in 1 .. MaxRecords /\ fresh[j] <= polled
              /\ \A d \in Convs : d # c => fresh[j] \notin EventsOf(d)
  <2>1. fresh[j] \in EventsOf(c)
    BY <1>3, <1>4 DEF TypeInv, WorkerInv
  <2>2. /\ fresh[j] \in 1 .. Len(toTransfer) /\ fresh[j] \in Batch
        /\ \A d \in Convs : d # c => fresh[j] \notin EventsOf(d)
    BY <2>1, EventKeys DEF EventsOf
  <2>3. Len(toTransfer) \in Nat /\ Len(toTransfer) <= MaxRecords /\ MaxRecords \in Nat
    BY ConstantTypes DEF TypeInv, TypeOK, AttemptInv
  <2>4. fresh[j] \in 1 .. MaxRecords
    BY <2>2, <2>3
  <2>5. fresh[j] <= polled
    BY <2>2, ReachedTyped DEF Batch
  <2> QED
    BY <2>1, <2>2, <2>4, <2>5
<1>11. \A i, j \in 1 .. Len(fresh) : fresh[i] = fresh[j] => i = j
  <2>1. \A i, j \in 1 .. Len(fresh) : i < j => fresh[i] < fresh[j]
    BY <1>3, <1>4 DEF FirstInv, WorkerFirst, FreshAreFirst
  <2>2. \A i \in 1 .. Len(fresh) : fresh[i] \in Nat
    BY <1>10
  <2> QED
    BY <1>5, <2>1, <2>2
<1>12. /\ Issued \subseteq Issued'
       /\ \A x \in Issued' : x \notin Issued => x[1] = c /\ x[2] - base \in 1 .. Len(fresh) /\ x = <<c, base + (x[2] - base)>>
  <2>1. ASSUME NEW x \in Issued PROVE x \in Issued'
    <3>1. x[1] \in Convs /\ x[2] \in 1 .. seqKey[x[1]] /\ x = <<x[1], x[2]>>
      BY IssuedPairs
    <3>2. x[2] \in 1 .. seqKey'[x[1]]
      <4>1. CASE x[1] = c
        BY <1>3, <1>5, <1>6, <1>8, <3>1, <4>1
      <4>2. CASE x[1] # c
        BY <1>8, <3>1, <4>2
      <4> QED
        BY <4>1, <4>2
    <3> QED
      BY <3>1, <3>2 DEF Issued
  <2>2. ASSUME NEW x \in Issued', x \notin Issued
        PROVE  x[1] = c /\ x[2] - base \in 1 .. Len(fresh) /\ x = <<c, base + (x[2] - base)>>
    <3>1. x[1] \in Convs /\ x[2] \in 1 .. seqKey'[x[1]] /\ x = <<x[1], x[2]>>
      BY DEF Issued
    <3>2. x[2] \notin 1 .. seqKey[x[1]]
      BY <2>2, <3>1, IssuedPairs
    <3>3. x[1] = c
      BY <1>8, <3>1, <3>2
    <3>4. x[2] \in 1 .. base + Len(fresh) /\ x[2] \notin 1 .. base
      BY <1>3, <1>8, <3>1, <3>2, <3>3
    <3>5. x[2] \in Int /\ x[2] - base \in 1 .. Len(fresh) /\ base + (x[2] - base) = x[2]
      BY <1>5, <1>6, <3>4
    <3> QED
      BY <3>1, <3>3, <3>5
  <2> QED
    BY <2>1, <2>2
<1>13. a \in 0 .. a /\ a \in Nat
  BY <1>1, ReachedTyped
<1>14. PICK h \in [Issued' -> (1 .. MaxRecords) \X (0 .. a)] :
          \A x \in Issued' : /\ x \in Issued => h[x] = g[x]
                             /\ x \notin Issued => h[x] = <<fresh[x[2] - base], a>>
  <2> DEFINE f == [x \in Issued' |-> IF x \in Issued THEN g[x] ELSE <<fresh[x[2] - base], a>>]
  <2>1. \A x \in Issued' : /\ x \in Issued => f[x] = g[x]
                           /\ x \notin Issued => f[x] = <<fresh[x[2] - base], a>>
    OBVIOUS
  <2>2. ASSUME NEW x \in Issued' PROVE f[x] \in (1 .. MaxRecords) \X (0 .. a)
    <3>1. CASE x \in Issued
      BY <1>2, <2>1, <3>1
    <3>2. CASE x \notin Issued
      BY <1>10, <1>12, <1>13, <2>1, <3>2
    <3> QED
      BY <3>1, <3>2
  <2>3. f \in [Issued' -> (1 .. MaxRecords) \X (0 .. a)]
    BY <2>2
  <2> HIDE DEF f
  <2> QED
    BY <2>1, <2>3
<1>16. \A x \in Issued, j \in 1 .. Len(fresh) : g[x] # <<fresh[j], a>>
  <2> SUFFICES ASSUME NEW x \in Issued, NEW j \in 1 .. Len(fresh), g[x] = <<fresh[j], a>> PROVE FALSE
    OBVIOUS
  <2>1. g[x][2] = a /\ g[x][1] = fresh[j]
    OBVIOUS
  <2>2. fresh[j] \in Waiting(c)
    BY <1>9
  <2> QED
    BY <1>2, <2>1, <2>2 DEF Numbering
<1>17. ASSUME NEW x \in Issued', NEW y \in Issued', h[x] = h[y] PROVE x = y
  <2>1. CASE x \in Issued /\ y \in Issued
    BY <1>2, <1>14, <1>17, <2>1 DEF Numbering
  <2>2. CASE x \in Issued /\ y \notin Issued
    BY <1>12, <1>14, <1>16, <1>17, <2>2
  <2>3. CASE x \notin Issued /\ y \in Issued
    BY <1>12, <1>14, <1>16, <1>17, <2>3
  <2>4. CASE x \notin Issued /\ y \notin Issued
    <3>1. fresh[x[2] - base] = fresh[y[2] - base]
      BY <1>14, <1>17, <2>4
    <3>2. x[2] - base = y[2] - base
      BY <1>11, <1>12, <2>4, <3>1
    <3> QED
      BY <1>12, <2>4, <3>2
  <2> QED
    BY <2>1, <2>2, <2>3, <2>4
<1>18. ASSUME NEW x \in Issued', h[x][2] = a
       PROVE  h[x][1] <= Reached' /\ \A d \in Convs : h[x][1] \notin Waiting(d)'
  <2>1. CASE x \in Issued
    BY <1>2, <1>9, <1>14, <1>18, <2>1 DEF Numbering
  <2>2. CASE x \notin Issued
    <3>1. PICK j \in 1 .. Len(fresh) : j = x[2] - base
      BY <1>12, <2>2
    <3>2. h[x][1] = fresh[j]
      BY <1>14, <2>2, <3>1
    <3>3. \A d \in Convs : d # c => Waiting(d) \subseteq EventsOf(d)
      BY WaitingIsOwn
    <3> QED
      BY <1>9, <1>10, <3>2, <3>3
  <2> QED
    BY <2>1, <2>2
<1>19. Numbering(h, a)'
  BY <1>17, <1>18 DEF Numbering
<1>20. AnyFailed' => AnyFailed
  BY <1>7 DEF AnyFailed
<1>21. Len(toTransfer') <= MaxRecords
  BY <1>4 DEF AttemptInv
<1> QED
  BY <1>1, <1>4, <1>14, <1>19, <1>20, <1>21 DEF AttemptInv

LEMMA WaitingKept ==
    ASSUME NEW c \in Convs, EventsOf(c)' = EventsOf(c), worker'[c] = worker[c] PROVE Waiting(c)' = Waiting(c)
  BY DEF Waiting

(* A call of the worker of c that issues no seq. *)
LEMMA AttemptWorker ==
    ASSUME TypeInv, TypeInv', AttemptInv, NEW c \in Convs, UNCHANGED <<toTransfer, consumerVars>>, Issued' = Issued,
           \A d \in Convs : d # c => worker'[d] = worker[d], Waiting(c)' \subseteq Waiting(c),
           \/ worker'[c].pc # "fail" /\ UNCHANGED faults
           \/ AnyFailed /\ UNCHANGED faults
           \/ faults' = faults + 1
    PROVE  AttemptInv'
<1>1. \A d \in Convs : EventsOf(d)' = EventsOf(d)
  BY DEF EventsOf, Batch, consumerVars
<1>2. \A d \in Convs : d # c => Waiting(d)' = Waiting(d)
  BY <1>1, WaitingKept
<1>3. faults \in Nat /\ Reached \in Nat /\ Reached' = Reached
  BY ReachedTyped DEF Reached, consumerVars
<1>4. faults <= faults' /\ (AnyFailed' => AnyFailed \/ faults < faults')
  BY <1>3 DEF AnyFailed
<1>5. Len(toTransfer') <= MaxRecords /\ Reached <= Reached'
  BY <1>3 DEF AttemptInv
<1> QED
  BY <1>2, <1>4, <1>5, AttemptGoesOn

LEMMA AttemptOutside ==
    ASSUME TypeInv, TypeInv', AttemptInv, UNCHANGED <<consumerVars, worker, seqKey, faults>>,
           \/ UNCHANGED toTransfer
           \/ Len(toTransfer) < MaxRecords /\ \E r \in Records : toTransfer' = Append(toTransfer, r)
    PROVE  AttemptInv'
<1>1. UNCHANGED <<committed, polled, phase>>
  BY DEF consumerVars
<1>2. \A c \in Convs : Waiting(c)' = Waiting(c)
  BY <1>1, SameEvents, WaitingKept
<1>3. faults \in Nat /\ Reached \in Nat /\ Reached' = Reached
  BY <1>1, ReachedTyped DEF Reached
<1>4. faults <= faults' /\ Reached <= Reached' /\ Issued' = Issued /\ (AnyFailed' => AnyFailed)
  BY <1>3 DEF Issued, AnyFailed
<1>5. Len(toTransfer') <= MaxRecords
  <2>1. toTransfer \in Seq(Records) /\ Len(toTransfer) \in Nat /\ MaxRecords \in Nat
    BY ConstantTypes DEF TypeInv, TypeOK
  <2>2. CASE UNCHANGED toTransfer
    BY <2>2 DEF AttemptInv
  <2>3. ASSUME NEW r \in Records, toTransfer' = Append(toTransfer, r), Len(toTransfer) < MaxRecords
        PROVE  Len(toTransfer') <= MaxRecords
    BY <2>1, <2>3
  <2> QED
    BY <2>2, <2>3
<1> QED
  BY <1>2, <1>4, <1>5, AttemptGoesOn

LEMMA AttemptLoop ==
    ASSUME TypeInv, TypeInv', AttemptInv, RunLoop \/ Crash PROVE AttemptInv'
<1>1. UNCHANGED <<toTransfer, seqKey>> /\ Issued' = Issued /\ Len(toTransfer') <= MaxRecords
  BY DEF RunLoop, Poll, HandlerError, HandlerOK, CommitRecords, Crash, redisVars, Issued, AttemptInv
<1>2. faults \in Nat /\ Reached \in Nat /\ committed \in Nat /\ polled \in Nat
  BY ReachedTyped
<1>3. \A S : worker' = StartWorkers(S) => ~ AnyFailed' /\ \A c \in Convs : worker'[c].pc \in {"dedup", "done"}
  BY DEF StartWorkers, StartedWorker, DoneWorker, IdleWorker, AnyFailed
<1>4. worker' = Quiet => ~ AnyFailed' /\ \A c \in Convs : worker'[c].pc = "idle"
  BY DEF Quiet, IdleWorker, AnyFailed
<1>5. CASE Poll
  <2>1. PICK hi \in committed + 1 .. Len(toTransfer) : polled' = hi /\ worker' = StartWorkers(committed + 1 .. hi)
    BY <1>5 DEF Poll
  <2>2. phase = "poll" /\ phase' = "handle" /\ UNCHANGED <<committed, faults>>
    BY <1>5 DEF Poll
  <2>3. Len(toTransfer) \in Nat
    BY DEF TypeInv, TypeOK
  <2>4. Reached = committed /\ Reached' = hi /\ hi \in Nat /\ committed < hi
    BY <1>2, <2>1, <2>2, <2>3 DEF Reached
  <2>5. ASSUME NEW c \in Convs, NEW o \in Waiting(c)' PROVE o \in Nat /\ o > Reached
    <3>1. worker'[c].pc \in {"dedup", "done"}
      BY <1>3, <2>1
    <3>2. o \in Batch'
      BY <2>5, <3>1 DEF Waiting, EventsOf
    <3> QED
      BY <1>2, <2>1, <2>2, <2>4, <3>2 DEF Batch
  <2>6. faults <= faults' /\ Reached <= Reached' /\ ~ AnyFailed'
    BY <1>2, <1>3, <2>1, <2>2, <2>4
  <2> QED
    BY <1>1, <2>5, <2>6, AttemptGoesOn
<1>6. CASE HandlerError
  <2>1. AnyFailed /\ UNCHANGED faults /\ ~ AnyFailed'
    BY <1>3, <1>6 DEF HandlerError
  <2> QED
    BY <1>1, <2>1, AttemptStarts
<1>7. CASE HandlerOK
  <2>1. phase = "handle" /\ phase' = "commit" /\ UNCHANGED <<committed, polled, worker, faults>> /\ ~ AnyFailed
    BY <1>7 DEF HandlerOK
  <2>2. Reached' = Reached
    BY <2>1 DEF Reached
  <2>3. \A c \in Convs : Waiting(c)' = Waiting(c)
    <3>1. \A c \in Convs : EventsOf(c)' = EventsOf(c)
      BY <1>1, <2>1 DEF EventsOf, Batch
    <3> QED
      BY <2>1, <3>1, WaitingKept
  <2>4. faults <= faults' /\ Reached <= Reached' /\ (AnyFailed' => AnyFailed)
    BY <1>2, <2>1, <2>2 DEF AnyFailed
  <2> QED
    BY <1>1, <2>3, <2>4, AttemptGoesOn
<1>8. CASE CommitRecords
  <2>1. phase = "commit" /\ committed' = polled /\ phase' = "poll" /\ worker' = Quiet /\ UNCHANGED faults
    BY <1>8 DEF CommitRecords
  <2>2. Reached' = Reached
    BY <2>1 DEF Reached
  <2>3. \A c \in Convs : Waiting(c)' = {}
    BY <1>4, <2>1 DEF Waiting
  <2>4. faults <= faults' /\ Reached <= Reached' /\ ~ AnyFailed'
    BY <1>2, <1>4, <2>1, <2>2
  <2> QED
    BY <1>1, <2>3, <2>4, AttemptGoesOn
<1>9. CASE Crash
  <2>1. faults' = faults + 1 /\ ~ AnyFailed'
    BY <1>4, <1>9 DEF Crash
  <2> QED
    BY <1>1, <2>1, AttemptStarts
<1> QED
  BY <1>5, <1>6, <1>7, <1>8, <1>9 DEF RunLoop

LEMMA AttemptInit == Init => AttemptInv
<1> SUFFICES ASSUME Init PROVE AttemptInv
  OBVIOUS
<1>1. Len(toTransfer) = 0 /\ faults = 0 /\ \A c \in Convs : seqKey[c] = -1
  BY DEF Init, Missing
<1>2. Issued = {}
  BY <1>1 DEF Issued
<1>3. ~ AnyFailed
  BY DEF Init, Quiet, IdleWorker, AnyFailed
<1>4. PICK g : g = [x \in {} |-> 0]
  OBVIOUS
<1>5. g \in [Issued -> (1 .. MaxRecords) \X (0 .. 0)] /\ Numbering(g, 0)
  BY <1>2, <1>4 DEF Numbering
<1>6. Len(toTransfer) <= MaxRecords /\ 0 \in 0 .. faults
  BY <1>1, ConstantTypes
<1> QED
  BY <1>3, <1>5, <1>6 DEF AttemptInv

LEMMA AttemptStep == TypeInv /\ TypeInv' /\ SeqInv /\ FirstInv /\ AttemptInv /\ [Next]_vars => AttemptInv'
<1> SUFFICES ASSUME TypeInv, TypeInv', SeqInv, FirstInv, AttemptInv, [Next]_vars PROVE AttemptInv'
  OBVIOUS
<1>1. CASE UNCHANGED vars
  BY <1>1, AttemptOutside DEF vars, redisVars
<1>2. ASSUME NEW k \in ClientKeys, SendMessage(k) PROVE AttemptInv'
  BY <1>2, AttemptOutside DEF SendMessage, Records, redisVars
<1>3. CASE ForeignRecord
  BY <1>3, AttemptOutside DEF ForeignRecord, Records, redisVars
<1>4. CASE RunLoop \/ Crash
  BY <1>4, AttemptLoop
<1>5. ASSUME NEW c \in Convs, Archive(c) PROVE AttemptInv'
  BY <1>5, AttemptOutside DEF Archive, redisVars
<1>6. ASSUME NEW c \in Convs, HandleConversation(c) \/ Fail(c) PROVE AttemptInv'
  <2>1. worker \in [Convs -> Workers] /\ seqKey \in [Convs -> Nat \cup {Missing}]
    BY DEF TypeInv, TypeOK
  <2>2. ASSUME UNCHANGED seqKey PROVE Issued' = Issued
    BY <2>2 DEF Issued
  <2>3. ASSUME worker'[c].pc \in (Active \cup {"done", "fail"}) \ {"exists", "query", "setnx", "incr"}
        PROVE  Waiting(c)' = {}
    BY <2>3 DEF Waiting, Active
  <2>4. ASSUME worker[c].pc \in {"exists", "query", "setnx"}, worker'[c].fresh = worker[c].fresh,
               worker'[c].pc \in {"query", "setnx", "incr"}
        PROVE  Waiting(c)' = Waiting(c)
    BY <2>4 DEF Waiting
  <2>5. CASE DedupGet(c)
    <3>1. PICK f \in Seq(FreshOffsets(c)) :
              /\ worker'[c].fresh = f /\ worker'[c].pc = (IF f = <<>> THEN "done" ELSE "exists")
              /\ \A d \in Convs : d # c => worker'[d] = worker[d]
      BY <2>5, DedupGetList
    <3>2. worker[c].pc = "dedup" /\ UNCHANGED <<toTransfer, consumerVars, seqKey, faults>>
      BY <2>5 DEF DedupGet, At, redisVars
    <3>3. \A j \in 1 .. Len(f) : f[j] \in EventsOf(c)
      BY DEF FreshOffsets
    <3>4. Waiting(c)' \subseteq Waiting(c) /\ worker'[c].pc # "fail"
      BY <3>1, <3>2, <3>3 DEF Waiting
    <3> QED
      BY <2>2, <3>1, <3>2, <3>4, AttemptWorker
  <2>6. CASE MallocExists(c)
    <3>1. PICK pc \in {"query", "incr"} : Goto(c, pc)
      BY <2>6 DEF MallocExists
    <3>2. worker[c].pc = "exists" /\ UNCHANGED <<toTransfer, consumerVars, seqKey, faults>>
      BY <2>6 DEF MallocExists, At, redisVars
    <3>3. /\ worker'[c].fresh = worker[c].fresh /\ worker'[c].pc = pc
          /\ \A d \in Convs : d # c => worker'[d] = worker[d]
      BY <3>1, GotoMoves
    <3>4. Waiting(c)' = Waiting(c) /\ worker'[c].pc # "fail"
      BY <2>4, <3>2, <3>3
    <3> QED
      BY <2>2, <3>2, <3>3, <3>4, AttemptWorker
  <2>7. CASE MallocQuery(c)
    <3>1. /\ worker'[c].fresh = worker[c].fresh /\ worker'[c].pc = "setnx"
          /\ \A d \in Convs : d # c => worker'[d] = worker[d]
      BY <2>1, <2>7 DEF MallocQuery, Workers
    <3>2. worker[c].pc = "query" /\ UNCHANGED <<toTransfer, consumerVars, seqKey, faults>>
      BY <2>7 DEF MallocQuery, At, redisVars
    <3>3. Waiting(c)' = Waiting(c) /\ worker'[c].pc # "fail"
      BY <2>4, <3>1, <3>2
    <3> QED
      BY <2>2, <3>1, <3>2, <3>3, AttemptWorker
  <2>8. CASE MallocSetNX(c)
    <3>1. worker[c].pc = "setnx" /\ UNCHANGED <<toTransfer, consumerVars, faults>> /\ Goto(c, "incr")
      BY <2>8 DEF MallocSetNX, At
    <3>2. /\ worker'[c].fresh = worker[c].fresh /\ worker'[c].pc = "incr"
          /\ \A d \in Convs : d # c => worker'[d] = worker[d]
      BY <3>1, GotoMoves
    <3>3. Issued' = Issued
      <4>1. CASE seqKey[c] = Missing
        <5>1. worker[c].seed = 0
          BY <3>1, <4>1, PipelineConstants DEF SeqInv, ConvInv, CounterMissing, NoOlderRows
        <5>2. seqKey' = [seqKey EXCEPT ![c] = 0]
          BY <2>8, <4>1, <5>1 DEF MallocSetNX
        <5>3. \A d \in Convs : 1 .. seqKey'[d] = 1 .. seqKey[d]
          <6>1. 1 .. 0 = {} /\ 1 .. -1 = {}
            OBVIOUS
          <6> QED
            BY <2>1, <4>1, <5>2, <6>1 DEF Missing
        <5> QED
          BY <5>3 DEF Issued
      <4>2. CASE seqKey[c] # Missing
        <5>1. seqKey' = seqKey
          BY <2>1, <2>8, <4>2 DEF MallocSetNX
        <5> QED
          BY <2>2, <5>1
      <4> QED
        BY <4>1, <4>2
    <3>4. Waiting(c)' = Waiting(c) /\ worker'[c].pc # "fail"
      BY <2>4, <3>1, <3>2
    <3> QED
      BY <3>1, <3>2, <3>3, <3>4, AttemptWorker
  <2>9. CASE MallocIncr(c)
    BY <2>9, AttemptNumbers
  <2>10. ASSUME NEW again, NEW next, LoopOr(c, again, next), worker[c].pc \in Active,
                again \in {"cache", "hasread", "toPostgres", "record"},
                next \in {"hasread", "toPostgres", "record", "done"},
                UNCHANGED <<toTransfer, consumerVars, seqKey, faults>>
         PROVE  AttemptInv'
    <3>1. /\ \A d \in Convs : d # c => worker'[d] = worker[d]
          /\ worker'[c].pc \in {again, next}
      BY <2>10, LoopMoves
    <3>2. Waiting(c)' = {} /\ worker'[c].pc # "fail"
      BY <2>3, <2>10, <3>1 DEF Active
    <3> QED
      BY <2>2, <2>10, <3>1, <3>2, AttemptWorker
  <2>11. ASSUME NEW pc \in {"agentTrigger", "toPush", "fail"}, Goto(c, pc),
                UNCHANGED <<toTransfer, consumerVars, seqKey>>,
                \/ pc # "fail" /\ UNCHANGED faults
                \/ AnyFailed /\ UNCHANGED faults
                \/ faults' = faults + 1
         PROVE  AttemptInv'
    <3>1. worker'[c].pc = pc /\ \A d \in Convs : d # c => worker'[d] = worker[d]
      BY <2>11, GotoMoves
    <3>2. Waiting(c)' = {}
      BY <2>3, <3>1 DEF Active
    <3> QED
      BY <2>2, <2>11, <3>1, <3>2, AttemptWorker
  <2>12. CASE CacheMessage(c)
    BY <2>10, <2>12 DEF CacheMessage, At, Active
  <2>13. CASE SetHasRead(c)
    BY <2>10, <2>13 DEF SetHasRead, At, Active
  <2>14. CASE PublishToPostgres(c)
    BY <2>11, <2>14 DEF PublishToPostgres, redisVars
  <2>15. CASE PublishAgentTrigger(c)
    BY <2>11, <2>15 DEF PublishAgentTrigger, redisVars
  <2>16. CASE PublishToPush(c)
    BY <2>10, <2>16 DEF PublishToPush, At, Active, redisVars
  <2>17. CASE DedupSet(c)
    BY <2>10, <2>17 DEF DedupSet, At, Active
  <2>18. CASE Fail(c)
    BY <2>11, <2>18 DEF Fail, redisVars
  <2> QED
    BY <1>6, <2>5, <2>6, <2>7, <2>8, <2>9, <2>12, <2>13, <2>14, <2>15, <2>16, <2>17, <2>18
       DEF HandleConversation, Malloc
<1> QED
  BY <1>1, <1>2, <1>3, <1>4, <1>5, <1>6 DEF Next

(* There are as many seqs and events as records and attempts, at most: the  *)
(* bounds of Persist have room for them.                                    *)
LEMMA WithinBounds ==
    ASSUME TypeInv, SeqInv, AttemptInv
    PROVE  /\ Len(toPostgres) <= MaxRecords * (MaxFaults + 1)
           /\ \A n \in 1 .. Len(toPostgres) : toPostgres[n].seq \in 1 .. MaxSeq
<1>1. PICK a \in 0 .. faults : \E g \in [Issued -> (1 .. MaxRecords) \X (0 .. a)] : Numbering(g, a)
  BY DEF AttemptInv
<1>2. PICK g \in [Issued -> (1 .. MaxRecords) \X (0 .. a)] : Numbering(g, a)
  BY <1>1
<1>3. PICK T : T = (1 .. MaxRecords) \X (0 .. MaxFaults)
  OBVIOUS
<1>4. MaxRecords \in Nat /\ MaxFaults \in Nat /\ a \in 0 .. MaxFaults
  BY <1>1, ReachedTyped, ConstantTypes
<1>5. IsFiniteSet(T) /\ Cardinality(T) = MaxRecords * (MaxFaults + 1)
  <2>1. IsFiniteSet(1 .. MaxRecords) /\ Cardinality(1 .. MaxRecords) = MaxRecords
    BY <1>4, FS_Interval
  <2>2. IsFiniteSet(0 .. MaxFaults) /\ Cardinality(0 .. MaxFaults) = MaxFaults + 1
    BY <1>4, FS_Interval
  <2>3. PICK S, U : S = 1 .. MaxRecords /\ U = 0 .. MaxFaults
    OBVIOUS
  <2>4. IsFiniteSet(S) /\ IsFiniteSet(U)
    BY <2>1, <2>2, <2>3
  <2>5. IsFiniteSet(S \X U) /\ Cardinality(S \X U) = Cardinality(S) * Cardinality(U)
    BY <2>4, FS_Product, Zenon
  <2>6. T = S \X U
    BY <1>3, <2>3, Zenon
  <2>7. Cardinality(T) = Cardinality(S) * Cardinality(U) /\ IsFiniteSet(T)
    BY <2>5, <2>6, Zenon
  <2>8. Cardinality(S) = MaxRecords /\ Cardinality(U) = MaxFaults + 1
    BY <2>1, <2>2, <2>3, Zenon
  <2> QED
    BY <2>7, <2>8
<1>6. \A x \in Issued : g[x] \in T
  BY <1>2, <1>3, <1>4
<1>7. \A x, y \in Issued : g[x] = g[y] => x = y
  BY <1>2 DEF Numbering
<1>8. ASSUME NEW m \in Nat, NEW f \in [1 .. m -> T], \A i, j \in 1 .. m : f[i] = f[j] => i = j
      PROVE  m <= MaxRecords * (MaxFaults + 1)
  <2>1. f \in Injection(1 .. m, T)
    BY <1>8 DEF Injection, IsInjective
  <2>2. Cardinality(1 .. m) <= Cardinality(T)
    BY <1>5, <2>1, FS_Injection
  <2>3. Cardinality(1 .. m) = m
    BY FS_Interval
  <2> QED
    BY <1>5, <2>2, <2>3
<1>9. ASSUME NEW n \in 1 .. Len(toPostgres), NEW c, c = ConvOf[toPostgres[n].key]
      PROVE  /\ c \in Convs /\ seqKey[c] \in Nat /\ toPostgres[n].seq \in 1 .. seqKey[c]
             /\ <<c, toPostgres[n].seq>> \in Issued
  <2>1. toPostgres[n] \in Events /\ toPostgres[n].seq \in Nat
    BY EventSeqs
  <2>2. c \in Convs
    BY <1>9, <2>1, ConstantTypes DEF Events
  <2>3. toPostgres[n].seq > 0
    BY <1>9, <2>2, PipelineConstants DEF SeqInv, SeqStrictlyIncreasing, NoOlderRows
  <2>4. seqKey[c] # Missing
    BY <1>9, <2>1, <2>2 DEF SeqInv, ConvInv, CounterMissing, Below
  <2>5. seqKey[c] \in Nat
    BY <2>2, <2>4 DEF TypeInv, TypeOK
  <2>6. toPostgres[n].seq < seqKey[c] + 1
    BY <1>9, <2>2, <2>4 DEF SeqInv, ConvInv, CounterPresent, Below
  <2>7. toPostgres[n].seq \in 1 .. seqKey[c]
    BY <2>1, <2>3, <2>5, <2>6
  <2> QED
    BY <2>2, <2>5, <2>7, IssuedPairs
<1>10. Len(toPostgres) <= MaxRecords * (MaxFaults + 1)
  <2> DEFINE at(n) == <<ConvOf[toPostgres[n].key], toPostgres[n].seq>>
             f == [n \in 1 .. Len(toPostgres) |-> g[at(n)]]
  <2>1. Len(toPostgres) \in Nat
    BY DEF TypeInv, TypeOK
  <2>2. \A n \in 1 .. Len(toPostgres) : at(n) \in Issued
    BY <1>9
  <2>3. ASSUME NEW i \in 1 .. Len(toPostgres), NEW j \in 1 .. Len(toPostgres), at(i) = at(j) PROVE i = j
    <3>1. ConvOf[toPostgres[i].key] = ConvOf[toPostgres[j].key] /\ toPostgres[i].seq = toPostgres[j].seq
      BY <2>3
    <3>2. toPostgres[i].seq \in Nat
      BY EventSeqs
    <3>3. ~ (i < j) /\ ~ (j < i)
      BY <3>1, <3>2 DEF SeqInv, SeqStrictlyIncreasing
    <3> QED
      BY <2>1, <3>3
  <2> HIDE DEF at
  <2>4. f \in [1 .. Len(toPostgres) -> T]
    BY <1>6, <2>2
  <2>5. \A i, j \in 1 .. Len(toPostgres) : f[i] = f[j] => i = j
    BY <1>7, <2>2, <2>3
  <2> HIDE DEF f
  <2> QED
    BY <1>8, <2>1, <2>4, <2>5
<1>11. ASSUME NEW n \in 1 .. Len(toPostgres) PROVE toPostgres[n].seq \in 1 .. MaxSeq
  <2>1. PICK c : c = ConvOf[toPostgres[n].key]
    OBVIOUS
  <2>2. c \in Convs /\ seqKey[c] \in Nat /\ toPostgres[n].seq \in 1 .. seqKey[c]
    BY <1>9, <2>1
  <2> DEFINE f == [s \in 1 .. seqKey[c] |-> g[<<c, s>>]]
  <2>3. \A s \in 1 .. seqKey[c] : <<c, s>> \in Issued
    BY <2>2, IssuedPairs
  <2>4. f \in [1 .. seqKey[c] -> T]
    BY <1>6, <2>3
  <2>5. \A i, j \in 1 .. seqKey[c] : f[i] = f[j] => i = j
    BY <1>7, <2>3
  <2> HIDE DEF f
  <2>6. seqKey[c] <= MaxRecords * (MaxFaults + 1)
    BY <1>8, <2>2, <2>4, <2>5
  <2>7. MaxRecords * (MaxFaults + 1) \in Nat /\ MaxSeq \in Nat /\ MaxRecords * (MaxFaults + 1) <= MaxSeq
    BY <1>4, PipelineConstants, PersistConstants
  <2>8. toPostgres[n].seq <= seqKey[c] /\ toPostgres[n].seq \in Nat /\ 1 <= toPostgres[n].seq
    BY <2>2
  <2> QED
    BY <2>2, <2>6, <2>7, <2>8
<1> QED
  BY <1>10, <1>11

-----------------------------------------------------------------------------
(*                 A transaction, seen by the seq allocator                *)

(* max(seq) of the table. *)
MaxOfRows ==
    \A c \in Convs :
        /\ RowMax(c) \in Nat
        /\ \A k \in RowsOf(c) : messages[k].seq <= RowMax(c)
        /\ RowMax(c) = 0 \/ \E k \in RowsOf(c) : RowMax(c) = messages[k].seq

LEMMA RowMaxIs == PersistInv => MaxOfRows
<1> SUFFICES ASSUME PersistInv, NEW c \in Convs
             PROVE  /\ RowMax(c) \in Nat
                    /\ \A k \in RowsOf(c) : messages[k].seq <= RowMax(c)
                    /\ RowMax(c) = 0 \/ \E k \in RowsOf(c) : RowMax(c) = messages[k].seq
  BY DEF MaxOfRows
<1>1. PersistTypeOK /\ ThreadCoversRows
  BY DEF PersistInv, TablesAgree
<1>2. PICK S : S = {0} \cup {messages[k].seq : k \in RowsOf(c)}
  OBVIOUS
<1>3. \A k \in RowsOf(c) : messages[k].seq \in Nat /\ messages[k].seq <= threads[c].maxSeq
  BY <1>1, RowTypedSeq DEF RowsOf, ThreadCoversRows
<1>4. threads[c].maxSeq \in Int /\ threads[c].maxSeq >= -1
  BY <1>1, ThreadTyped
<1>5. S \in SUBSET Int /\ S # {} /\ \A x \in S : x <= threads[c].maxSeq + 1 /\ x \in Nat
  BY <1>2, <1>3, <1>4
<1>6. threads[c].maxSeq + 1 \in Int
  BY <1>4
<1>7. Largest(S) \in S /\ \A y \in S : y <= Largest(S)
  BY <1>5, <1>6, LargestOf
<1>8. RowMax(c) = Largest(S)
  BY <1>2 DEF RowMax
<1>9. PICK m : m = Largest(S)
  OBVIOUS
<1>10. m \in S /\ m \in Nat /\ \A y \in S : y <= m
  BY <1>5, <1>7, <1>9
<1>11. RowMax(c) = m
  BY <1>8, <1>9
<1> QED
  BY <1>2, <1>10, <1>11

LEMMA RowMaxIsNext == PersistInv' => MaxOfRows'
  BY RowMaxIs, PTL

(* PersistBatch leaves max(seq) alone or raises it to a seq of the log. *)
LEMMA BatchRaisesMax ==
    ASSUME PersistInv, NEW c \in Convs, PersistBatch(c)
    PROVE  \/ DurableMax' = DurableMax
           \/ \E n \in 1 .. Len(toPostgres) :
                 /\ ConvOf[toPostgres[n].key] = c /\ toPostgres[n].seq > DurableMax[c]
                 /\ DurableMax' = [DurableMax EXCEPT ![c] = toPostgres[n].seq]
<1>1. PersistTypeOK /\ LogSound /\ RowsArePrefix /\ messages' = MessagesAfter(c) /\ UNCHANGED toPostgres
  BY DEF PersistInv, PersistBatch
<1>2. PersistInv'
  BY BatchStep
<1>3. /\ \A k \in ClientKeys : messages[k] # NoRow => messages'[k] = messages[k]
      /\ \A k \in ClientKeys : messages'[k] # messages[k] =>
            /\ messages[k] = NoRow /\ ConvOf[k] = c
            /\ \E n \in Inserted(c) : Keys(n) = k /\ messages'[k].seq = Seqs(n)
  BY <1>1, RowsAfter
<1>4. \A d \in Convs : d # c => RowMax(d)' = RowMax(d)
  <2> TAKE d \in Convs
  <2>1. ASSUME d # c, NEW k \in ClientKeys, ConvOf[k] = d PROVE messages'[k] = messages[k]
    BY <1>3, <2>1
  <2>2. ASSUME d # c PROVE RowsOf(d)' = RowsOf(d) /\ \A k \in RowsOf(d) : messages'[k] = messages[k]
    BY <2>1, <2>2 DEF RowsOf
  <2> QED
    BY <2>2 DEF RowMax
<1>5. PICK old, new : old = RowMax(c) /\ new = RowMax(c)'
  OBVIOUS
<1>6. /\ old \in Nat /\ \A k \in RowsOf(c) : messages[k].seq <= old
      /\ old = 0 \/ \E k \in RowsOf(c) : old = messages[k].seq
  BY <1>5, RowMaxIs DEF MaxOfRows
<1>7. MaxOfRows'
  BY <1>2, RowMaxIsNext
<1>8. /\ new \in Nat /\ \A k \in RowsOf(c)' : messages'[k].seq <= new
      /\ new = 0 \/ \E k \in RowsOf(c)' : new = messages'[k].seq
  BY <1>5, <1>7 DEF MaxOfRows
<1>9. CASE messages' = messages
  <2>1. \A d \in Convs : RowMax(d)' = RowMax(d)
    BY <1>9 DEF RowMax, RowsOf
  <2> QED
    BY <2>1 DEF DurableMax
<1>10. CASE messages' # messages
  <2>1. PICK k \in ClientKeys : messages'[k] # messages[k]
    <3>1. messages \in [ClientKeys -> [seq : Nat, srv : Nat]] /\ messages' \in [ClientKeys -> [seq : Nat, srv : Nat]]
      BY <1>1, RowsAfter DEF PersistTypeOK
    <3> QED
      BY <1>10, <3>1
  <2>2. PICK n \in Inserted(c) : Keys(n) = k /\ messages'[k].seq = Seqs(n)
    BY <1>3, <2>1
  <2>3. ASSUME NEW m \in Inserted(c)
        PROVE  /\ m \in 1 .. Len(toPostgres) /\ ConvOf[Keys(m)] = c /\ Seqs(m) \in Nat /\ Seqs(m) >= 1
               /\ Seqs(m) > old
    <3>1. m \in BatchOf(c)
      BY DEF Inserted
    <3>2. m \in DOMAIN toPostgres /\ ConvOf[Keys(m)] = c /\ DOMAIN toPostgres = 1 .. Len(toPostgres)
      BY <1>1, <3>1, BatchInLog
    <3>3. Seqs(m) \in Nat /\ Seqs(m) >= 1
      BY <1>1, <3>2, LogTyped DEF LogSound, Seqs
    <3>4. \A j \in RowsOf(c) : messages[j].seq < Seqs(m)
      BY <1>1, InsertedAfterRows
    <3> QED
      BY <1>6, <3>2, <3>3, <3>4
  <2>4. k \in RowsOf(c)'
    BY <1>3, <2>1, <2>2, <2>3 DEF RowsOf, NoRow
  <2>5. new > old
    BY <1>6, <1>8, <2>2, <2>3, <2>4
  <2>6. PICK j \in RowsOf(c)' : new = messages'[j].seq
    BY <1>6, <1>8, <2>5
  <2>7. j \in ClientKeys /\ ConvOf[j] = c
    BY DEF RowsOf
  <2>8. messages'[j] # messages[j]
    <3> SUFFICES ASSUME messages'[j] = messages[j] PROVE FALSE
      OBVIOUS
    <3>1. j \in RowsOf(c)
      BY <2>6, <2>7 DEF RowsOf, NoRow
    <3> QED
      BY <1>6, <1>8, <2>5, <2>6, <3>1
  <2>9. PICK m \in Inserted(c) : messages'[j].seq = Seqs(m)
    BY <1>3, <2>7, <2>8
  <2>10. new = toPostgres[m].seq /\ m \in 1 .. Len(toPostgres) /\ ConvOf[toPostgres[m].key] = c
    BY <2>3, <2>6, <2>9 DEF Seqs, Keys
  <2>11. DurableMax[c] = old /\ DurableMax' = [DurableMax EXCEPT ![c] = new]
    BY <1>4, <1>5 DEF DurableMax
  <2> QED
    BY <2>5, <2>10, <2>11
<1> QED
  BY <1>9, <1>10

-----------------------------------------------------------------------------
(*                      Each consumer's steps, seen by the other           *)

(* The bounds of Persist are wide enough for what Transfer publishes. *)
InBounds ==
    /\ Len(toPostgres) <= MaxRecords * (MaxFaults + 1)
    /\ \A n \in 1 .. Len(toPostgres) : toPostgres[n].seq \in 1 .. MaxSeq

TransferInv == TypeInv /\ SeqInv /\ LossInv /\ FirstInv /\ AttemptInv

LEMMA BoundsHold == TransferInv => InBounds
  BY WithinBounds DEF TransferInv, InBounds

LEMMA BoundsHoldNext == TransferInv' => InBounds'
  BY BoundsHold, PTL

(* A step of the transfer consumer or of a sender leaves toPostgres and     *)
(* max(seq) alone, but for the one call that publishes.                     *)
TransferMoves ==
    \/ \E k \in ClientKeys : SendMessage(k)
    \/ RunLoop \/ Crash
    \/ \E c \in Convs : HandleConversation(c) \/ Fail(c)

LEMMA TransferTouches ==
    ASSUME TransferMoves
    PROVE  UNCHANGED maxRow /\ (UNCHANGED toPostgres \/ \E c \in Convs : PublishToPostgres(c))
<1>1. ASSUME NEW k \in ClientKeys, SendMessage(k) PROVE UNCHANGED <<maxRow, toPostgres>>
  BY <1>1 DEF SendMessage, topicVars
<1>2. CASE RunLoop
  BY <1>2 DEF RunLoop, Poll, HandlerError, HandlerOK, CommitRecords, topicVars
<1>3. CASE Crash
  BY <1>3 DEF Crash, topicVars
<1>4. ASSUME NEW c \in Convs, Fail(c) PROVE UNCHANGED <<maxRow, toPostgres>>
  BY <1>4 DEF Fail, topicVars
<1>5. ASSUME NEW c \in Convs, HandleConversation(c)
      PROVE  UNCHANGED maxRow /\ (UNCHANGED toPostgres \/ PublishToPostgres(c))
  <2>1. CASE DedupGet(c) \/ Malloc(c)
    BY <2>1 DEF DedupGet, Malloc, MallocExists, MallocQuery, MallocSetNX, MallocIncr, topicVars
  <2>2. CASE CacheMessage(c) \/ SetHasRead(c) \/ DedupSet(c)
    BY <2>2 DEF CacheMessage, SetHasRead, DedupSet, topicVars
  <2>3. CASE PublishToPostgres(c) \/ PublishAgentTrigger(c) \/ PublishToPush(c)
    BY <2>3 DEF PublishToPostgres, PublishAgentTrigger, PublishToPush
  <2> QED
    BY <1>5, <2>1, <2>2, <2>3 DEF HandleConversation
<1> QED
  BY <1>1, <1>2, <1>3, <1>4, <1>5 DEF TransferMoves

LEMMA PipelineCases ==
    ASSUME [PipelineNext]_pipelineVars
    PROVE  \/ UNCHANGED <<vars, persistVars>>
           \/ TransferMoves /\ UNCHANGED persistVars
           \/ PersistStep
  BY DEF PipelineNext, pipelineVars, ClientSends, TransferLoop, TransferWorker, TransferFails, TransferMoves

LEMMA SameRowsSameMax == ASSUME UNCHANGED messages PROVE DurableMax' = DurableMax
<1>1. \A c \in Convs : RowMax(c)' = RowMax(c)
  BY DEF RowMax, RowsOf
<1> QED
  BY <1>1 DEF DurableMax

(* To the transfer consumer a transaction is an Archive step or nothing. *)
LEMMA TransferSide ==
    ASSUME TypeInv, PersistInv, maxRow = DurableMax, [PipelineNext]_pipelineVars
    PROVE  [Next]_vars /\ maxRow' = DurableMax'
<1>1. CASE UNCHANGED <<vars, persistVars>>
  <2>1. UNCHANGED <<maxRow, messages, vars>>
    BY <1>1 DEF vars, persistVars, tableVars
  <2> QED
    BY <2>1, SameRowsSameMax
<1>2. CASE TransferMoves /\ UNCHANGED persistVars
  <2>1. UNCHANGED <<maxRow, messages>>
    BY <1>2, TransferTouches DEF persistVars, tableVars
  <2>2. Next
    BY <1>2 DEF TransferMoves, Next
  <2> QED
    BY <2>1, <2>2, SameRowsSameMax
<1>3. CASE PersistStep
  <2>1. UNCHANGED <<transferVars, toPostgres>> /\ PersistNext /\ maxRow' = DurableMax'
    BY <1>3 DEF PersistStep, OnTables
  <2>2. ASSUME UNCHANGED maxRow PROVE UNCHANGED vars
    BY <2>1, <2>2 DEF vars, transferVars, topicVars, consumerVars, redisVars
  <2>3. CASE UNCHANGED messages
    BY <2>1, <2>2, <2>3, SameRowsSameMax
  <2>4. ASSUME NEW c \in Convs, PersistBatch(c) PROVE [Next]_vars
    <3>1. CASE DurableMax' = DurableMax
      BY <2>1, <2>2, <3>1
    <3>2. ASSUME NEW n \in 1 .. Len(toPostgres), ConvOf[toPostgres[n].key] = c,
                 toPostgres[n].seq > DurableMax[c],
                 DurableMax' = [DurableMax EXCEPT ![c] = toPostgres[n].seq]
          PROVE  Archive(c)
      BY <2>1, <3>2 DEF Archive, transferVars, topicVars
    <3> QED
      BY <2>4, <3>1, <3>2, BatchRaisesMax DEF Next
  <2>5. UNCHANGED messages \/ \E c \in Convs : PersistBatch(c)
    BY <2>1 DEF PersistNext, PersistLoop, PollPersist, PersistOK, CommitPersist, PersistError,
                CrashPersist, MarkConversationAsRead, tableVars
  <2> QED
    BY <2>1, <2>3, <2>4, <2>5
<1> QED
  BY <1>1, <1>2, <1>3, PipelineCases

(* To the persist consumer a call that publishes is a PublishAccepted step. *)
LEMMA PersistSide ==
    ASSUME TransferInv, TransferInv', PersistInv, [PipelineNext]_pipelineVars
    PROVE  [PersistSystemNext]_persistSystemVars
<1>1. CASE UNCHANGED <<vars, persistVars>>
  BY <1>1 DEF vars, topicVars, persistSystemVars
<1>2. CASE PersistStep
  BY <1>2 DEF PersistStep, OnTables, PersistSystemNext
<1>3. CASE TransferMoves /\ UNCHANGED persistVars
  <2>1. CASE UNCHANGED toPostgres
    BY <1>3, <2>1 DEF persistSystemVars
  <2>2. ASSUME NEW c \in Convs, PublishToPostgres(c) PROVE PersistSystemNext
    <3>1. PICK e : e = Accepted(c, worker[c].i)
      OBVIOUS
    <3>2. toPostgres' = Append(toPostgres, e) /\ toPostgres \in Seq(Events)
      BY <2>2, <3>1 DEF PublishToPostgres, TransferInv, TypeInv, TypeOK
    <3>3. e \in Events
      BY <2>2, <3>1, AcceptedEvent DEF TransferInv, PublishToPostgres, At, Active
    <3>4. PICK z : z = Len(toPostgres) + 1
      OBVIOUS
    <3>5. /\ Len(toPostgres) \in Nat /\ Len(toPostgres') = z /\ toPostgres'[z] = e
          /\ \A n \in 1 .. Len(toPostgres) : toPostgres'[n] = toPostgres[n] /\ n \in 1 .. z /\ n < z
          /\ z \in 1 .. z
      BY <3>2, <3>3, <3>4
    <3>6. InBounds'
      BY BoundsHoldNext
    <3>7. Len(toPostgres) < MaxEvents /\ e.seq \in 1 .. MaxSeq
      BY <3>4, <3>5, <3>6, PipelineConstants, ConstantTypes, PersistConstants DEF InBounds
    <3>8. \A n \in 1 .. Len(toPostgres) : ConvOf[toPostgres[n].key] = ConvOf[e.key] => toPostgres[n].seq < e.seq
      BY <3>5 DEF TransferInv, SeqInv, SeqStrictlyIncreasing
    <3>9. \A n \in 1 .. z : FirstOf(toPostgres[n].srv)' /\ toTransfer'[toPostgres'[n].srv] = toPostgres'[n].key
      BY <3>5 DEF TransferInv, FirstInv, LogFirst
    <3>10. \A n \in 1 .. Len(toPostgres) : (toPostgres[n].key = e.key) <=> (toPostgres[n].srv = e.srv)
      <4> TAKE n \in 1 .. Len(toPostgres)
      <4>1. PICK a, b : a = toPostgres[n].srv /\ b = e.srv
        OBVIOUS
      <4>2. /\ FirstOf(a)' /\ toTransfer'[a] = toPostgres[n].key
            /\ FirstOf(b)' /\ toTransfer'[b] = e.key
        BY <3>5, <3>9, <4>1, SMTT(20) DEF FirstOf
      <4>3. /\ a \in Nat /\ a >= 1 /\ b \in Nat /\ b >= 1
            /\ \A p \in 1 .. a - 1 : toTransfer'[p] # toTransfer'[a]
            /\ \A p \in 1 .. b - 1 : toTransfer'[p] # toTransfer'[b]
        BY <4>2 DEF FirstOf
      <4>4. toTransfer'[a] = toTransfer'[b] => ~(a < b) /\ ~(b < a)
        BY <4>3
      <4> QED
        BY <4>1, <4>2, <4>3, <4>4
    <3>11. e.srv \in ServerIds
      <4>1. e.srv \in 1 .. Len(toTransfer')
        BY <3>5, <3>9 DEF FirstOf
      <4>2. Len(toTransfer') <= MaxRecords /\ Len(toTransfer') \in Nat
        BY DEF TransferInv, AttemptInv, TypeInv, TypeOK
      <4>3. e.srv \in 1 .. MaxRecords
        BY <4>1, <4>2, ConstantTypes
      <4> QED
        BY <4>3, PipelineConstants
    <3>12. PICK k \in ClientKeys, srv \in Nat, seq \in Nat : e = [key |-> k, srv |-> srv, seq |-> seq]
      BY <3>3 DEF Events
    <3>13. k = e.key /\ srv = e.srv /\ seq = e.seq
      BY <3>12
    <3>14. PublishAccepted(e)
      BY <1>3, <3>2, <3>7, <3>8, <3>10 DEF PublishAccepted
    <3> QED
      BY <3>7, <3>11, <3>12, <3>13, <3>14 DEF PersistSystemNext
  <2> QED
    BY <1>3, <2>1, <2>2, TransferTouches
<1> QED
  BY <1>1, <1>2, <1>3, PipelineCases

-----------------------------------------------------------------------------
(*                            The two consumers together                   *)

PipelineInv == TransferInv /\ PersistInv /\ maxRow = DurableMax

LEMMA PipelineInitially == PipelineInit => PipelineInv
<1> SUFFICES ASSUME PipelineInit PROVE PipelineInv
  OBVIOUS
<1>1. Init /\ PersistInit
  BY DEF PipelineInit
<1>2. TransferInv /\ PersistInv
  BY <1>1, TypeInit, SeqInit, LossInit, FirstInit, AttemptInit, PersistInitially DEF TransferInv
<1>3. \A c \in Convs : RowMax(c) = 0
  <2> TAKE c \in Convs
  <2>1. RowsOf(c) = {}
    BY <1>1 DEF PersistInit, RowsOf
  <2>2. MaxOfRows
    BY <1>2, RowMaxIs
  <2> QED
    BY <2>1, <2>2 DEF MaxOfRows
<1>4. maxRow = DurableMax
  BY <1>1, <1>3, PipelineConstants DEF Init, DurableMax, NoOlderRows
<1> QED
  BY <1>2, <1>4 DEF PipelineInv

LEMMA PipelineKeeps ==
    PipelineInv /\ [PipelineNext]_pipelineVars
        => PipelineInv' /\ [Next]_vars /\ [PersistSystemNext]_persistSystemVars
<1> SUFFICES ASSUME PipelineInv, [PipelineNext]_pipelineVars
             PROVE  PipelineInv' /\ [Next]_vars /\ [PersistSystemNext]_persistSystemVars
  OBVIOUS
<1>1. TypeInv /\ SeqInv /\ LossInv /\ FirstInv /\ AttemptInv /\ TransferInv /\ PersistInv /\ maxRow = DurableMax
  BY DEF PipelineInv, TransferInv
<1>2. [Next]_vars /\ maxRow' = DurableMax'
  BY <1>1, TransferSide
<1>3. [LossyNext]_vars
  BY <1>2 DEF LossyNext
<1>4. TypeInv'
  BY <1>1, <1>2, TypeStep
<1>5. SeqInv' /\ LossInv' /\ FirstInv' /\ AttemptInv'
  BY <1>1, <1>2, <1>3, <1>4, SeqStep, LossStep, FirstStep, AttemptStep
<1>6. TransferInv'
  BY <1>4, <1>5 DEF TransferInv
<1>7. [PersistSystemNext]_persistSystemVars
  BY <1>1, <1>6, PersistSide
<1>8. PersistInv'
  BY <1>1, <1>7, PersistKeeps
<1> QED
  BY <1>2, <1>6, <1>7, <1>8 DEF PipelineInv

LEMMA PipelineAlways == PipelineSpec => []PipelineInv
  BY PipelineInitially, PipelineKeeps, PTL DEF PipelineSpec

(* Composed over toPostgres and the messages table, each consumer gives the *)
(* other the environment it was specified in: the transfer consumer appends *)
(* in seq order and publishes a message again under its first               *)
(* server_msg_id; the persist consumer raises max(messages.seq), which      *)
(* Malloc seeds its counter from, to seqs it read, and never lowers it.     *)
THEOREM ContractsKept == PipelineSpec => KeepsContracts
<1>1. PipelineInit => Init /\ PersistInit
  BY DEF PipelineInit
<1> QED
  BY <1>1, PipelineAlways, PipelineKeeps, PTL
     DEF PipelineSpec, KeepsContracts, ImplementsTransfer, ImplementsPersist, Spec, PersistSpec

(* What the consumers promise alone, they promise together, with no        *)
(* assumption left on the other one.                                        *)
THEOREM TogetherSafe ==
    PipelineSpec => /\ []SeqStrictlyIncreasing /\ []NoAcceptedLoss /\ []PublishedInOrder /\ NoRepublish
                    /\ []CommittedIsArchived /\ []TablesAgree /\ OnlyForward
<1>1. PipelineSpec => Spec /\ PersistSpec
  BY ContractsKept DEF KeepsContracts, ImplementsTransfer, ImplementsPersist
<1> QED
  BY <1>1, SeqsIncrease, NoLoss, FanoutFollowsArchiveKept, NeverRepublished,
     NoCommitWithoutRow, TablesAlwaysAgree, TablesOnlyForward, PTL

-----------------------------------------------------------------------------
(*                      From the first send to the row                     *)

(* Wherever a message is between SendMessage and its row, one of the two    *)
(* consumers will still read it: a record the transfer consumer has         *)
(* committed is stored, or waits on toPostgres past the offset the persist  *)
(* consumer has committed.                                                  *)
NothingDropped ==
    \A o \in 1 .. committed : toTransfer[o] # Malformed =>
        \/ messages[toTransfer[o]] # NoRow
        \/ \E n \in pCommitted + 1 .. Len(toPostgres) : toPostgres[n].key = toTransfer[o]

(* A message is stored under the server_msg_id of its first record, however *)
(* often the client sent it again and however often a batch was replayed.   *)
StoredAsFirstSent ==
    \A k \in ClientKeys : messages[k] # NoRow =>
        /\ toTransfer[messages[k].srv] = k
        /\ \A p \in 1 .. messages[k].srv - 1 : toTransfer[p] # k

LEMMA DroppedNever == PipelineInv => NothingDropped
<1> SUFFICES ASSUME PipelineInv, NEW o \in 1 .. committed, toTransfer[o] # Malformed
             PROVE  \/ messages[toTransfer[o]] # NoRow
                    \/ \E n \in pCommitted + 1 .. Len(toPostgres) : toPostgres[n].key = toTransfer[o]
  BY DEF NothingDropped
<1>1. NoAcceptedLoss /\ CommittedIsArchived /\ pCommitted \in Nat /\ Len(toPostgres) \in Nat
  BY LossImplies DEF PipelineInv, TransferInv, PersistInv, PersistTypeOK
<1>2. PICK n \in 1 .. Len(toPostgres) : toPostgres[n].key = toTransfer[o]
  BY <1>1 DEF NoAcceptedLoss, FullyPublished, PublishedTo
<1>3. CASE n <= pCommitted
  BY <1>1, <1>2, <1>3 DEF CommittedIsArchived
<1>4. CASE ~(n <= pCommitted)
  BY <1>1, <1>2, <1>4
<1> QED
  BY <1>3, <1>4

LEMMA FirstIsStored == PipelineInv => StoredAsFirstSent
<1> SUFFICES ASSUME PipelineInv, NEW k \in ClientKeys, messages[k] # NoRow
             PROVE  /\ toTransfer[messages[k].srv] = k
                    /\ \A p \in 1 .. messages[k].srv - 1 : toTransfer[p] # k
  BY DEF StoredAsFirstSent
<1>1. PICK n \in DOMAIN toPostgres : RowFrom(k, n)
  BY DEF PipelineInv, PersistInv, RowsArePrefix
<1>2. toPostgres \in Seq(Events)
  BY DEF PipelineInv, PersistInv, PersistTypeOK
<1>3. n \in 1 .. Len(toPostgres)
  BY <1>1, <1>2
<1>4. FirstOf(toPostgres[n].srv) /\ toTransfer[toPostgres[n].srv] = toPostgres[n].key
  BY <1>3 DEF PipelineInv, TransferInv, FirstInv, LogFirst
<1> QED
  BY <1>1, <1>4 DEF RowFrom, FirstOf

(* End to end, no acknowledged message is ever out of both consumers' reach *)
(* without being stored, whatever fails, crashes or is sent again: the      *)
(* transfer consumer commits a record only after it is on toPostgres, and   *)
(* the persist consumer commits that only after its row exists.             *)
THEOREM NeverDropped == PipelineSpec => []NothingDropped
  BY PipelineAlways, DroppedNever, PTL

(* The archived id of a message is the id of the first SendMessage call     *)
(* whose record was written; retries of the client do not change it.        *)
THEOREM StoredUnderFirstId == PipelineSpec => []StoredAsFirstSent
  BY PipelineAlways, FirstIsStored, PTL

-----------------------------------------------------------------------------
(*                    The pipeline implements Archive's steps              *)

Acked == {toTransfer[o] : o \in DOMAIN toTransfer} \cap ClientKeys
RowSeqs == [k \in ClientKeys |-> messages[k].seq]

LEMMA ArchiveIs ==
    /\ A!Init <=> (Acked = {} /\ RowSeqs = [k \in ClientKeys |-> 0])
    /\ A!archiveVars = <<Acked, RowSeqs>>
    /\ \A k \in ClientKeys : A!Acknowledge(k) <=> (Acked' = Acked \cup {k} /\ RowSeqs' = RowSeqs)
    /\ A!Next <=> \/ \E k \in ClientKeys : A!Acknowledge(k)
                  \/ \E c \in Convs : A!Store(c)
<1>1. A!Init <=> (Acked = {} /\ RowSeqs = [k \in ClientKeys |-> 0])
  BY DEF A!Init, Acked, RowSeqs
<1>2. A!archiveVars = <<Acked, RowSeqs>>
  BY DEF A!archiveVars, Acked, RowSeqs
<1>3. \A k \in ClientKeys : A!Acknowledge(k) <=> (Acked' = Acked \cup {k} /\ RowSeqs' = RowSeqs)
  BY DEF A!Acknowledge, Acked, RowSeqs
<1>4. A!Next <=> \/ \E k \in ClientKeys : A!Acknowledge(k)
                 \/ \E c \in Convs : A!Store(c)
  BY DEF A!Next
<1> QED
  BY <1>1, <1>2, <1>3, <1>4

(* A transaction that inserts rows stores acknowledged messages of one      *)
(* conversation, past the rows it has.                                      *)
LEMMA BatchStores ==
    ASSUME PipelineInv, NEW c \in Convs, PersistBatch(c), UNCHANGED toTransfer
    PROVE  [A!Next]_(A!archiveVars)
<1>1. /\ PersistTypeOK /\ LogSound /\ RowsArePrefix /\ messages' = MessagesAfter(c) /\ LogFirst
      /\ toPostgres \in Seq(Events)
  BY DEF PipelineInv, TransferInv, FirstInv, PersistInv, PersistTypeOK, PersistBatch
<1>2. PICK old, new \in [ClientKeys -> [seq : Nat, srv : Nat]] : old = messages /\ new = messages'
  BY <1>1, RowsAfter DEF PersistTypeOK
<1>3. /\ RowSeqs = [k \in ClientKeys |-> old[k].seq] /\ RowSeqs' = [k \in ClientKeys |-> new[k].seq]
      /\ Acked' = Acked
  BY <1>2 DEF RowSeqs, Acked
<1>4. CASE messages' = messages
  <2>1. UNCHANGED A!archiveVars
    BY <1>2, <1>3, <1>4 DEF A!archiveVars, Acked, RowSeqs
  <2> QED
    BY <2>1
<1>5. CASE messages' # messages
  <2>1. ASSUME NEW k \in ClientKeys, new[k] # old[k]
        PROVE  /\ old[k] = NoRow /\ ConvOf[k] = c
               /\ \E n \in Inserted(c) : Keys(n) = k /\ new[k].seq = Seqs(n)
    BY <1>1, <1>2, <2>1, RowsAfter
  <2>2. ASSUME NEW n \in Inserted(c)
        PROVE  /\ n \in 1 .. Len(toPostgres) /\ n \in Nat /\ ConvOf[Keys(n)] = c
               /\ Seqs(n) \in Nat /\ Seqs(n) >= 1 /\ Keys(n) \in Acked
    <3>1. n \in BatchOf(c)
      BY DEF Inserted
    <3>2. n \in DOMAIN toPostgres /\ ConvOf[Keys(n)] = c /\ DOMAIN toPostgres = 1 .. Len(toPostgres)
      BY <1>1, <3>1, BatchInLog
    <3>3. Seqs(n) \in Nat /\ Keys(n) \in ClientKeys /\ Seqs(n) >= 1
      BY <1>1, <3>2, LogTyped DEF LogSound, Seqs
    <3>4. FirstOf(toPostgres[n].srv) /\ toTransfer[toPostgres[n].srv] = Keys(n)
      BY <1>1, <3>2 DEF LogFirst, Keys
    <3>5. toPostgres[n].srv \in DOMAIN toTransfer
      BY <3>4 DEF FirstOf, PipelineInv, TransferInv, TypeInv, TypeOK
    <3> QED
      BY <3>2, <3>3, <3>4, <3>5 DEF Acked
  <2>3. PICK N : N = {k \in ClientKeys : new[k].seq # old[k].seq}
    OBVIOUS
  <2>4. ASSUME NEW k \in N
        PROVE  /\ k \in ClientKeys /\ k \in Acked /\ ConvOf[k] = c /\ old[k] = NoRow
               /\ \E n \in Inserted(c) : Keys(n) = k /\ new[k].seq = Seqs(n)
    BY <2>1, <2>2, <2>3
  <2>5. N # {}
    <3>1. PICK k \in ClientKeys : new[k] # old[k]
      BY <1>2, <1>5
    <3>2. PICK n \in Inserted(c) : Keys(n) = k /\ new[k].seq = Seqs(n)
      BY <2>1, <3>1
    <3>3. old[k].seq = 0 /\ new[k].seq >= 1
      BY <2>1, <2>2, <3>1, <3>2 DEF NoRow
    <3> QED
      BY <2>3, <3>3
  <2>6. ASSUME NEW k \in N, NEW j \in ClientKeys, ConvOf[j] = c, old[j].seq # 0
        PROVE  new[k].seq > old[j].seq
    <3>1. PICK n \in Inserted(c) : Keys(n) = k /\ new[k].seq = Seqs(n)
      BY <2>4
    <3>2. j \in RowsOf(c)
      BY <1>2, <2>6 DEF RowsOf, NoRow
    <3>3. messages[j].seq < Seqs(n)
      BY <1>1, <3>2, InsertedAfterRows
    <3>4. old[j].seq \in Nat /\ Seqs(n) \in Nat
      BY <1>2, <2>2
    <3> QED
      BY <1>2, <3>1, <3>3, <3>4
  <2>7. ASSUME NEW j \in N, NEW k \in N, j # k
        PROVE  new[j].seq # new[k].seq
    <3>1. PICK m \in Inserted(c) : Keys(m) = j /\ new[j].seq = Seqs(m)
      BY <2>4
    <3>2. PICK n \in Inserted(c) : Keys(n) = k /\ new[k].seq = Seqs(n)
      BY <2>4
    <3>3. /\ m \in DOMAIN toPostgres /\ n \in DOMAIN toPostgres /\ m \in Nat /\ n \in Nat /\ m # n
          /\ Seqs(m) \in Nat /\ Seqs(n) \in Nat
          /\ ConvOf[toPostgres[m].key] = ConvOf[toPostgres[n].key]
      BY <1>1, <2>2, <2>7, <3>1, <3>2 DEF Keys
    <3>4. CASE m < n
      BY <1>1, <3>1, <3>2, <3>3, <3>4, SMTT(20) DEF LogSound, Seqs
    <3>5. CASE n < m
      BY <1>1, <3>1, <3>2, <3>3, <3>5, SMTT(20) DEF LogSound, Seqs
    <3>6. m < n \/ n < m
      BY <3>3
    <3> QED
      BY <3>4, <3>5, <3>6
  <2>8. A!Store(c) <=>
           LET fresh == {k \in ClientKeys : RowSeqs'[k] # RowSeqs[k]}
           IN  /\ fresh # {}
               /\ fresh \subseteq {k \in Acked : ConvOf[k] = c /\ RowSeqs[k] = 0}
               /\ \A k \in fresh : \A j \in {i \in ClientKeys : ConvOf[i] = c /\ RowSeqs[i] # 0} :
                     RowSeqs'[k] > RowSeqs[j]
               /\ \A j, k \in fresh : j # k => RowSeqs'[j] # RowSeqs'[k]
               /\ Acked' = Acked
    BY DEF A!Store, A!Stored, Acked, RowSeqs
  <2>9. N = {k \in ClientKeys : RowSeqs'[k] # RowSeqs[k]}
    BY <1>3, <2>3
  <2>10. \A k \in ClientKeys : RowSeqs'[k] = new[k].seq /\ RowSeqs[k] = old[k].seq
    BY <1>3
  <2>11. /\ N # {} /\ N \subseteq {k \in Acked : ConvOf[k] = c /\ RowSeqs[k] = 0}
         /\ \A k \in N : \A j \in {i \in ClientKeys : ConvOf[i] = c /\ RowSeqs[i] # 0} : RowSeqs'[k] > RowSeqs[j]
         /\ \A j, k \in N : j # k => RowSeqs'[j] # RowSeqs'[k]
    BY <2>4, <2>5, <2>6, <2>7, <2>10 DEF NoRow
  <2>12. A!Store(c)
    BY <1>3, <2>8, <2>9, <2>11
  <2> QED
    BY <2>12, ArchiveIs
<1> QED
  BY <1>4, <1>5

LEMMA ArchiveStep == PipelineInv /\ [PipelineNext]_pipelineVars => [A!Next]_(A!archiveVars)
<1> SUFFICES ASSUME PipelineInv, [PipelineNext]_pipelineVars PROVE [A!Next]_(A!archiveVars)
  OBVIOUS
<1>1. ASSUME UNCHANGED <<toTransfer, messages>> PROVE UNCHANGED A!archiveVars
  BY <1>1 DEF A!archiveVars
<1>2. ASSUME NEW k \in ClientKeys, SendMessage(k), UNCHANGED messages PROVE A!Next
  <2>1. toTransfer \in Seq(Records) /\ toTransfer' = Append(toTransfer, k)
    BY <1>2 DEF PipelineInv, TransferInv, TypeInv, TypeOK, SendMessage
  <2>2. PICK z : z = Len(toTransfer) + 1
    OBVIOUS
  <2>3. /\ DOMAIN toTransfer = 1 .. Len(toTransfer) /\ Len(toTransfer) \in Nat
        /\ DOMAIN toTransfer' = 1 .. z /\ toTransfer'[z] = k
        /\ \A p \in 1 .. Len(toTransfer) : toTransfer'[p] = toTransfer[p]
    BY <2>1, <2>2 DEF Records
  <2>4. \A p \in 1 .. z : p \in 1 .. Len(toTransfer) \/ p = z
    BY <2>2, <2>3
  <2>5. z \in 1 .. z /\ \A p \in 1 .. Len(toTransfer) : p \in 1 .. z
    BY <2>2, <2>3
  <2>6. Acked' = Acked \cup {k}
    BY <2>3, <2>4, <2>5 DEF Acked
  <2>7. RowSeqs' = RowSeqs
    BY <1>2 DEF RowSeqs
  <2> QED
    BY <2>6, <2>7, ArchiveIs
<1>3. CASE UNCHANGED <<vars, persistVars>>
  BY <1>1, <1>3 DEF vars, persistVars, tableVars
<1>4. CASE TransferMoves /\ UNCHANGED persistVars
  <2>1. UNCHANGED messages
    BY <1>4 DEF persistVars, tableVars
  <2>2. CASE RunLoop
    BY <1>1, <2>1, <2>2 DEF RunLoop, Poll, HandlerError, HandlerOK, CommitRecords
  <2>3. CASE Crash
    BY <1>1, <2>1, <2>3 DEF Crash
  <2>4. ASSUME NEW c \in Convs, Fail(c) PROVE UNCHANGED A!archiveVars
    BY <1>1, <2>1, <2>4 DEF Fail
  <2>5. ASSUME NEW c \in Convs, HandleConversation(c) PROVE UNCHANGED A!archiveVars
    <3>1. UNCHANGED toTransfer
      BY <2>5 DEF HandleConversation, DedupGet, Malloc, MallocExists, MallocQuery, MallocSetNX, MallocIncr,
                  CacheMessage, SetHasRead, DedupSet, PublishToPostgres, PublishAgentTrigger, PublishToPush
    <3> QED
      BY <1>1, <2>1, <3>1
  <2> QED
    BY <1>2, <1>4, <2>1, <2>2, <2>3, <2>4, <2>5 DEF TransferMoves
<1>5. CASE PersistStep
  <2>1. UNCHANGED toTransfer /\ PersistNext
    BY <1>5 DEF PersistStep, OnTables, transferVars
  <2>2. UNCHANGED messages \/ \E c \in Convs : PersistBatch(c)
    BY <2>1 DEF PersistNext, PersistLoop, PollPersist, PersistOK, CommitPersist, PersistError,
                CrashPersist, MarkConversationAsRead, tableVars
  <2> QED
    BY <1>1, <2>1, <2>2, BatchStores
<1> QED
  BY <1>3, <1>4, <1>5, PipelineCases

(* The safety half of ImplementsArchive: to a client the whole pipeline is  *)
(* a store that acknowledges messages and then stores each of them once, a  *)
(* conversation at a time and in seq order, and never changes a row.        *)
THEOREM ArchiveImplemented == PipelineSpec => A!Safety
<1>1. PipelineInit => A!Init
  <2>1. ASSUME PipelineInit PROVE Acked = {} /\ RowSeqs = [k \in ClientKeys |-> 0]
    BY <2>1 DEF PipelineInit, Init, PersistInit, Acked, RowSeqs, NoRow
  <2> QED
    BY <2>1, ArchiveIs
<1> QED
  BY <1>1, PipelineAlways, ArchiveStep, PTL DEF PipelineSpec, A!Safety
==============================================================================
