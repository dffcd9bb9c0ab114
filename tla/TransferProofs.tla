--------------------------- MODULE TransferProofs ---------------------------
(***************************************************************************)
(* Theorems about Transfer, for any number of conversations, accounts,     *)
(* messages, records, polls and failures: its types; that the seqs of a    *)
(* conversation increase strictly on toPostgres; that no acknowledged      *)
(* message is lost between toTransfer and the three topics behind it, even *)
(* when Redis loses its data at any point; that what is fanned out is      *)
(* archived first, and that what is recorded is not produced again.        *)
(***************************************************************************)
EXTENDS Transfer, WellFoundedInduction, TLAPS

(* The pcs at which a worker holds a list of fresh messages. *)
Active == {"exists", "query", "setnx", "incr", "cache", "hasread",
           "toPostgres", "agentTrigger", "toPush", "record"}

(* A worker that holds fresh messages belongs to a batch in memory; the     *)
(* messages are records of that batch and of its conversation, and its loop *)
(* index points at one of them.                                             *)
WorkerInv ==
    \A c \in Convs : worker[c].pc \in Active =>
        /\ phase = "handle"
        /\ worker[c].i \in 1 .. Len(worker[c].fresh)
        /\ \A j \in 1 .. Len(worker[c].fresh) : worker[c].fresh[j] \in EventsOf(c)

TypeInv == TypeOK /\ WorkerInv

-----------------------------------------------------------------------------
(* The event a worker is about to write is a well-formed event of c. *)
LEMMA AcceptedEvent ==
    ASSUME TypeInv, NEW c \in Convs, worker[c].pc \in Active
    PROVE  /\ Accepted(c, worker[c].i) \in Events
           /\ ConvOf[Accepted(c, worker[c].i).key] = c
           /\ Accepted(c, worker[c].i).seq = worker[c].first + worker[c].i - 1
           /\ SenderOf[Accepted(c, worker[c].i).key] \in Users
<1> DEFINE o == worker[c].fresh[worker[c].i]
<1>1. worker[c] \in Workers /\ worker[c].i \in 1 .. Len(worker[c].fresh)
  BY DEF TypeInv, TypeOK, WorkerInv
<1>2. o \in EventsOf(c)
  BY <1>1 DEF TypeInv, WorkerInv
<1>3. o \in 1 .. Len(toTransfer) /\ o \in Nat
  <2>1. o \in committed + 1 .. polled
    BY <1>2 DEF EventsOf, Batch
  <2>2. committed \in Nat /\ polled \in Nat /\ polled <= Len(toTransfer) /\ Len(toTransfer) \in Nat
    BY DEF TypeInv, TypeOK
  <2> HIDE DEF o
  <2> QED
    BY <2>1, <2>2
<1>4. toTransfer[o] \in ClientKeys /\ ConvOf[toTransfer[o]] = c
  BY <1>2, <1>3, SMTT(20) DEF EventsOf, TypeInv, TypeOK, Records
<1>5. worker[c].first \in Nat /\ worker[c].i \in Nat /\ worker[c].i >= 1
  BY <1>1 DEF Workers
<1>6. worker[c].first + worker[c].i - 1 \in Nat
  BY <1>5
<1> QED
  BY <1>3, <1>4, <1>6, ConstantTypes DEF Accepted, Events

(* Starting or clearing the workers of a batch keeps them well typed. *)
LEMMA FreshWorkers ==
    ASSUME NEW S
    PROVE  /\ StartWorkers(S) \in [Convs -> Workers]
           /\ Quiet \in [Convs -> Workers]
           /\ \A c \in Convs : /\ StartWorkers(S)[c].pc \in {"idle", "dedup", "done"}
                               /\ Quiet[c].pc \in {"idle", "dedup", "done"}
           /\ {"idle", "dedup", "done"} \cap Active = {}
<1>0. <<>> \in Seq(Nat)
  OBVIOUS
<1>1. IdleWorker \in Workers /\ StartedWorker \in Workers /\ DoneWorker \in Workers
  BY <1>0 DEF IdleWorker, StartedWorker, DoneWorker, Workers, WorkerPCs
<1>2. IdleWorker.pc = "idle" /\ StartedWorker.pc = "dedup" /\ DoneWorker.pc = "done"
  BY DEF IdleWorker, StartedWorker, DoneWorker
<1> QED
  BY <1>1, <1>2 DEF StartWorkers, Quiet, Active

(* The batch in memory does not change while toTransfer only grows. *)
LEMMA SameEvents ==
    ASSUME TypeInv, NEW c \in Convs, UNCHANGED <<committed, polled>>,
           \/ UNCHANGED toTransfer
           \/ \E r \in Records : toTransfer' = Append(toTransfer, r)
    PROVE  /\ EventsOf(c)' = EventsOf(c)
           /\ \A o \in Batch : toTransfer'[o] = toTransfer[o]
<1>1. \A o \in Batch : toTransfer'[o] = toTransfer[o]
  <2>1. \A o \in Batch : o \in 1 .. Len(toTransfer)
    BY DEF TypeInv, TypeOK, Batch
  <2>2. toTransfer \in Seq(Records)
    BY DEF TypeInv, TypeOK
  <2>3. ASSUME NEW r \in Records, toTransfer' = Append(toTransfer, r), NEW o \in 1 .. Len(toTransfer)
        PROVE  toTransfer'[o] = toTransfer[o]
    BY <2>2, <2>3
  <2> QED
    BY <2>1, <2>3
<1>2. Batch' = Batch
  BY DEF Batch
<1> QED
  BY <1>1, <1>2 DEF EventsOf

(* Moving a worker to another call, with the same fresh messages. *)
LEMMA GotoKeeps ==
    ASSUME TypeInv, NEW c \in Convs, worker[c].pc \in Active,
           NEW pc \in WorkerPCs, Goto(c, pc), UNCHANGED <<toTransfer, consumerVars>>
    PROVE  worker' \in [Convs -> Workers] /\ WorkerInv'
<1>1. \A d \in Convs : EventsOf(d)' = EventsOf(d)
  BY DEF EventsOf, Batch, consumerVars
<1>2. worker \in [Convs -> Workers]
  BY DEF TypeInv, TypeOK
<1>3. worker' \in [Convs -> Workers]
  BY <1>2 DEF Goto, Workers
<1>4. \A d \in Convs : d # c => worker'[d] = worker[d]
  BY <1>2 DEF Goto
<1>5. worker'[c].fresh = worker[c].fresh /\ worker'[c].i = worker[c].i
  BY <1>2 DEF Goto, Workers
<1> QED
  BY <1>1, <1>3, <1>4, <1>5 DEF TypeInv, WorkerInv, consumerVars

LEMMA LoopKeeps ==
    ASSUME TypeInv, NEW c \in Convs, worker[c].pc \in Active,
           NEW again \in WorkerPCs, NEW next \in WorkerPCs, LoopOr(c, again, next),
           UNCHANGED <<toTransfer, consumerVars>>
    PROVE  worker' \in [Convs -> Workers] /\ WorkerInv'
<1>1. \A d \in Convs : EventsOf(d)' = EventsOf(d)
  BY DEF EventsOf, Batch, consumerVars
<1>2. worker \in [Convs -> Workers] /\ worker[c].i \in 1 .. Len(worker[c].fresh)
  BY DEF TypeInv, TypeOK, WorkerInv
<1>3. worker' \in [Convs -> Workers]
  <2>0. worker[c] \in Workers /\ worker[c].i + 1 \in Nat /\ 1 \in Nat
    BY <1>2 DEF Workers
  <2>1. \A pc \in WorkerPCs, i \in Nat : [worker[c] EXCEPT !.pc = pc, !.i = i] \in Workers
    BY <2>0 DEF Workers
  <2>2. \/ worker' = [worker EXCEPT ![c] = [worker[c] EXCEPT !.pc = again, !.i = worker[c].i + 1]]
        \/ worker' = [worker EXCEPT ![c] = [worker[c] EXCEPT !.pc = next, !.i = 1]]
    BY <1>2 DEF LoopOr
  <2> QED
    BY <1>2, <2>0, <2>1, <2>2
<1>4. \A d \in Convs : d # c => worker'[d] = worker[d]
  BY <1>2 DEF LoopOr
<1>5. worker'[c].fresh = worker[c].fresh /\ worker'[c].i \in 1 .. Len(worker[c].fresh)
  BY <1>2 DEF LoopOr, Workers
<1> QED
  BY <1>1, <1>3, <1>4, <1>5 DEF TypeInv, WorkerInv, consumerVars

-----------------------------------------------------------------------------
LEMMA TypeInit == Init => TypeInv
<1> SUFFICES ASSUME Init PROVE TypeInv
  OBVIOUS
<1>1. worker \in [Convs -> Workers] /\ \A c \in Convs : worker[c].pc \notin Active
  BY FreshWorkers DEF Init
<1>2. TypeOK
  BY <1>1, ConstantTypes DEF Init, TypeOK, Missing, NoRecord
<1> QED
  BY <1>1, <1>2 DEF TypeInv, WorkerInv

LEMMA TypeStep == TypeInv /\ [Next]_vars => TypeInv'
<1> SUFFICES ASSUME TypeInv, [Next]_vars PROVE TypeInv'
  OBVIOUS
<1> USE DEF TypeInv
<1>1. ASSUME NEW k \in ClientKeys, SendMessage(k) PROVE TypeInv'
  <2>1. toTransfer' \in Seq(Records) /\ Len(toTransfer') = Len(toTransfer) + 1
    BY <1>1 DEF SendMessage, TypeOK, Records
  <2>2. TypeOK'
    BY <1>1, <2>1 DEF SendMessage, TypeOK, consumerVars, redisVars, topicVars
  <2>3. WorkerInv'
    BY <1>1, SameEvents DEF SendMessage, WorkerInv, consumerVars, Records
  <2> QED BY <2>2, <2>3
<1>2. ASSUME ForeignRecord PROVE TypeInv'
  <2>1. toTransfer' \in Seq(Records) /\ Len(toTransfer') = Len(toTransfer) + 1
    BY <1>2 DEF ForeignRecord, TypeOK, Records
  <2>2. TypeOK'
    BY <1>2, <2>1 DEF ForeignRecord, TypeOK, consumerVars, redisVars, topicVars
  <2>3. WorkerInv'
    BY <1>2, SameEvents DEF ForeignRecord, WorkerInv, consumerVars, Records
  <2> QED BY <2>2, <2>3
<1>3. ASSUME RunLoop PROVE TypeInv'
  <2>1. CASE Poll
    BY <2>1, FreshWorkers DEF Poll, TypeOK, WorkerInv, redisVars, topicVars
  <2>2. CASE HandlerError
    BY <2>2, FreshWorkers DEF HandlerError, TypeOK, WorkerInv, redisVars, topicVars, consumerVars
  <2>3. CASE HandlerOK
    BY <2>3 DEF HandlerOK, Returned, Active, TypeOK, WorkerInv, redisVars, topicVars
  <2>4. CASE CommitRecords
    BY <2>4, FreshWorkers DEF CommitRecords, TypeOK, WorkerInv, redisVars, topicVars
  <2> QED BY <1>3, <2>1, <2>2, <2>3, <2>4 DEF RunLoop
<1>4. ASSUME Crash PROVE TypeInv'
  <2>1. faults' \in 0 .. MaxFaults
    BY <1>4, ConstantTypes DEF Crash, TypeOK
  <2> QED
    BY <1>4, <2>1, FreshWorkers DEF Crash, TypeOK, WorkerInv, redisVars, topicVars
<1>5. ASSUME NEW c \in Convs, HandleConversation(c) PROVE TypeInv'
  <2>1. CASE DedupGet(c)
    <3>1. PICK f \in InOrder(FreshOffsets(c), polled - committed) :
            worker' = [worker EXCEPT ![c].fresh = f, ![c].i = 1,
                                     ![c].pc = IF f = <<>> THEN "done" ELSE "exists"]
      BY <2>1 DEF DedupGet
    <3>2. phase = "handle" /\ UNCHANGED <<toTransfer, consumerVars, redisVars, topicVars, maxRow, faults>>
      BY <2>1 DEF DedupGet, At
    <3>3. EventsOf(c) \subseteq Nat /\ FreshOffsets(c) \subseteq EventsOf(c)
      BY DEF EventsOf, Batch, FreshOffsets, TypeOK
    <3>4. polled - committed \in Int
      BY DEF TypeOK
    <3>5. PICK n \in 0 .. polled - committed : f \in [1 .. n -> FreshOffsets(c)]
      BY <3>1 DEF InOrder
    <3>6. n \in Nat
      BY <3>4, <3>5
    <3>7. f \in Seq(Nat) /\ Len(f) = n /\ \A j \in 1 .. Len(f) : f[j] \in EventsOf(c)
      BY <3>3, <3>5, <3>6
    <3>8. worker' \in [Convs -> Workers]
      <4> DEFINE w == [worker[c] EXCEPT !.fresh = f, !.i = 1, !.pc = IF f = <<>> THEN "done" ELSE "exists"]
      <4>1. worker[c] \in Workers
        BY DEF TypeOK
      <4>2. w \in Workers
        BY <3>7, <4>1 DEF Workers, WorkerPCs
      <4>3. worker' = [worker EXCEPT ![c] = w]
        BY <3>1
      <4> QED
        BY <4>2, <4>3 DEF TypeOK
    <3>9. \A d \in Convs : EventsOf(d)' = EventsOf(d)
      BY <3>2 DEF EventsOf, Batch, consumerVars
    <3>10. worker'[c].fresh = f /\ worker'[c].i = 1 /\ (f = <<>> => worker'[c].pc = "done")
      BY <3>1, <3>7 DEF TypeOK, Workers
    <3>11. \A d \in Convs : d # c => worker'[d] = worker[d]
      BY <3>1 DEF TypeOK
    <3>12. f # <<>> => n >= 1
      BY <3>5, <3>6, <3>7
    <3>13. WorkerInv'
      BY <3>2, <3>7, <3>9, <3>10, <3>11, <3>12 DEF WorkerInv, consumerVars, Active
    <3>14. TypeOK'
      BY <3>2, <3>8 DEF TypeOK, consumerVars, redisVars, topicVars
    <3> QED BY <3>13, <3>14
  <2>2. CASE MallocExists(c)
    <3>1. worker[c].pc \in Active
      BY <2>2 DEF MallocExists, At, Active
    <3>2. worker' \in [Convs -> Workers] /\ WorkerInv'
      BY <2>2, <3>1, GotoKeeps DEF MallocExists, WorkerPCs
    <3> QED BY <2>2, <3>2 DEF MallocExists, TypeOK, consumerVars, redisVars, topicVars
  <2>3. CASE MallocQuery(c)
    <3>1. worker[c].pc = "query" /\ phase = "handle" /\ worker \in [Convs -> Workers] /\ maxRow[c] \in Nat
      BY <2>3 DEF MallocQuery, At, TypeOK
    <3>2. worker' \in [Convs -> Workers]
      BY <2>3, <3>1, SMTT(10), ZenonT(30) DEF MallocQuery, Workers, WorkerPCs
    <3>3. worker'[c].fresh = worker[c].fresh /\ worker'[c].i = worker[c].i
      BY <2>3, <3>1 DEF MallocQuery, Workers
    <3>4. \A d \in Convs : d # c => worker'[d] = worker[d]
      BY <2>3, <3>1 DEF MallocQuery
    <3>5. \A d \in Convs : EventsOf(d)' = EventsOf(d)
      BY <2>3 DEF MallocQuery, EventsOf, Batch, consumerVars
    <3>6. WorkerInv'
      BY <2>3, <3>1, <3>3, <3>4, <3>5 DEF MallocQuery, WorkerInv, Active, consumerVars
    <3> QED BY <2>3, <3>2, <3>6 DEF MallocQuery, TypeOK, consumerVars, redisVars, topicVars
  <2>4. CASE MallocSetNX(c)
    <3>1. worker[c].pc \in Active
      BY <2>4 DEF MallocSetNX, At, Active
    <3>2. worker' \in [Convs -> Workers] /\ WorkerInv'
      BY <2>4, <3>1, GotoKeeps DEF MallocSetNX, WorkerPCs
    <3>3. seqKey' \in [Convs -> Nat \cup {Missing}]
      BY <2>4 DEF MallocSetNX, TypeOK, Workers
    <3> QED BY <2>4, <3>2, <3>3 DEF MallocSetNX, TypeOK, consumerVars, topicVars
  <2>5. CASE MallocIncr(c)
    <3> DEFINE base == IF seqKey[c] = Missing THEN 0 ELSE seqKey[c]
    <3>1. worker[c].pc = "incr" /\ phase = "handle" /\ worker \in [Convs -> Workers]
      BY <2>5 DEF MallocIncr, At, TypeOK
    <3>2. base \in Nat /\ Len(worker[c].fresh) \in Nat
      BY <3>1 DEF TypeOK, Workers
    <3>3. /\ worker' = [worker EXCEPT ![c].pc = "cache", ![c].first = base + 1, ![c].i = 1]
          /\ seqKey' = [seqKey EXCEPT ![c] = base + Len(worker[c].fresh)]
          /\ UNCHANGED <<toTransfer, consumerVars, dedup, cache, hasRead, topicVars, maxRow, faults>>
      BY <2>5 DEF MallocIncr
    <3> HIDE DEF base
    <3>4. worker' \in [Convs -> Workers] /\ seqKey' \in [Convs -> Nat \cup {Missing}]
      <4> DEFINE w == [worker[c] EXCEPT !.pc = "cache", !.first = base + 1, !.i = 1]
      <4>0. base + 1 \in Nat /\ worker[c] \in Workers
        BY <3>1, <3>2
      <4>1. w \in Workers
        BY <4>0 DEF Workers, WorkerPCs
      <4>2. worker' = [worker EXCEPT ![c] = w]
        BY <3>3
      <4>3. worker' \in [Convs -> Workers]
        BY <3>1, <4>1, <4>2
      <4>4. base + Len(worker[c].fresh) \in Nat
        BY <3>2
      <4> QED
        BY <3>3, <4>3, <4>4 DEF TypeOK
    <3>5. worker'[c].fresh = worker[c].fresh /\ worker'[c].i = 1
      BY <3>1, <3>3 DEF Workers
    <3>6. \A d \in Convs : d # c => worker'[d] = worker[d]
      BY <3>1, <3>3
    <3>7. \A d \in Convs : EventsOf(d)' = EventsOf(d)
      BY <3>3 DEF EventsOf, Batch, consumerVars
    <3>8. WorkerInv'
      BY <3>1, <3>2, <3>3, <3>5, <3>6, <3>7 DEF WorkerInv, Active, consumerVars
    <3> QED BY <3>3, <3>4, <3>8 DEF TypeOK, consumerVars, topicVars
  <2>6. CASE CacheMessage(c)
    <3>1. worker[c].pc \in Active
      BY <2>6 DEF CacheMessage, At, Active
    <3>2. worker' \in [Convs -> Workers] /\ WorkerInv'
      BY <2>6, <3>1, LoopKeeps DEF CacheMessage, WorkerPCs
    <3>3. cache' \in [Convs -> SUBSET Events]
      BY <2>6, <3>1, AcceptedEvent DEF CacheMessage, TypeOK
    <3> QED BY <2>6, <3>2, <3>3 DEF CacheMessage, TypeOK, consumerVars, topicVars
  <2>7. CASE SetHasRead(c)
    <3>1. worker[c].pc \in Active
      BY <2>7 DEF SetHasRead, At, Active
    <3>2. worker' \in [Convs -> Workers] /\ WorkerInv'
      BY <2>7, <3>1, LoopKeeps DEF SetHasRead, WorkerPCs
    <3>3. hasRead' \in [Convs -> [Users -> Nat]]
      BY <2>7, <3>1, AcceptedEvent, SMTT(20) DEF SetHasRead, TypeOK, Events
    <3> QED BY <2>7, <3>2, <3>3 DEF SetHasRead, TypeOK, consumerVars, topicVars
  <2>8. CASE PublishToPostgres(c)
    <3>1. worker[c].pc \in Active
      BY <2>8 DEF PublishToPostgres, At, Active
    <3>2. worker' \in [Convs -> Workers] /\ WorkerInv'
      BY <2>8, <3>1, GotoKeeps DEF PublishToPostgres, WorkerPCs
    <3>3. toPostgres' \in Seq(Events)
      BY <2>8, <3>1, AcceptedEvent DEF PublishToPostgres, TypeOK
    <3> QED BY <2>8, <3>2, <3>3 DEF PublishToPostgres, TypeOK, consumerVars, redisVars
  <2>9. CASE PublishAgentTrigger(c)
    <3>1. worker[c].pc \in Active
      BY <2>9 DEF PublishAgentTrigger, At, Active
    <3>2. worker' \in [Convs -> Workers] /\ WorkerInv'
      BY <2>9, <3>1, GotoKeeps DEF PublishAgentTrigger, WorkerPCs
    <3>3. agentTrigger' \in Seq(Events)
      BY <2>9, <3>1, AcceptedEvent DEF PublishAgentTrigger, TypeOK
    <3> QED BY <2>9, <3>2, <3>3 DEF PublishAgentTrigger, TypeOK, consumerVars, redisVars
  <2>10. CASE PublishToPush(c)
    <3>1. worker[c].pc \in Active
      BY <2>10 DEF PublishToPush, At, Active
    <3>2. worker' \in [Convs -> Workers] /\ WorkerInv'
      BY <2>10, <3>1, LoopKeeps DEF PublishToPush, WorkerPCs
    <3> DEFINE e == Accepted(c, worker[c].i)
    <3>3. e.key \in ClientKeys /\ e.srv \in Nat /\ e.seq \in Nat
      BY <3>1, AcceptedEvent DEF Events
    <3>4. PushRecipients(e.key) \in SUBSET Users
      BY <3>3, ConstantTypes DEF PushRecipients
    <3>5. toPush' = toPush \/ toPush' = Append(toPush, [key |-> e.key, srv |-> e.srv, seq |-> e.seq,
                                                      to |-> PushRecipients(e.key)])
      BY <2>10 DEF PublishToPush
    <3> HIDE DEF e
    <3>6. [key |-> e.key, srv |-> e.srv, seq |-> e.seq, to |-> PushRecipients(e.key)] \in PushEvents
      BY <3>3, <3>4 DEF PushEvents
    <3>7. toPush' \in Seq(PushEvents)
      <4>1. \A p \in PushEvents : Append(toPush, p) \in Seq(PushEvents)
        BY DEF TypeOK
      <4> QED
        BY <3>5, <3>6, <4>1 DEF TypeOK
    <3> QED BY <2>10, <3>2, <3>7 DEF PublishToPush, TypeOK, consumerVars, redisVars
  <2>11. CASE DedupSet(c)
    <3>1. worker[c].pc \in Active
      BY <2>11 DEF DedupSet, At, Active
    <3>2. worker' \in [Convs -> Workers] /\ WorkerInv'
      BY <2>11, <3>1, LoopKeeps DEF DedupSet, WorkerPCs
    <3>3. dedup' \in [ClientKeys -> [seq : Nat, srv : Nat]]
      BY <2>11, <3>1, AcceptedEvent, SMTT(10), ZenonT(30) DEF DedupSet, TypeOK, Events
    <3> QED BY <2>11, <3>2, <3>3 DEF DedupSet, TypeOK, consumerVars, topicVars
  <2> QED
    BY <1>5, <2>1, <2>2, <2>3, <2>4, <2>5, <2>6, <2>7, <2>8, <2>9, <2>10, <2>11 DEF HandleConversation, Malloc
<1>6. ASSUME NEW c \in Convs, Fail(c) PROVE TypeInv'
  <2>1. worker \in [Convs -> Workers]
    BY DEF TypeOK
  <2>2. worker' \in [Convs -> Workers] /\ worker'[c].pc = "fail"
    BY <1>6, <2>1 DEF Fail, Goto, Workers, WorkerPCs
  <2>3. \A d \in Convs : d # c => worker'[d] = worker[d]
    BY <1>6, <2>1 DEF Fail, Goto
  <2>4. \A d \in Convs : EventsOf(d)' = EventsOf(d)
    BY <1>6 DEF Fail, EventsOf, Batch, consumerVars
  <2>5. WorkerInv'
    BY <1>6, <2>2, <2>3, <2>4 DEF Fail, WorkerInv, Active, consumerVars
  <2>6. faults' \in 0 .. MaxFaults
    BY <1>6, ConstantTypes DEF Fail, TypeOK
  <2> QED BY <1>6, <2>2, <2>5, <2>6 DEF Fail, TypeOK, consumerVars, redisVars, topicVars
<1>7. ASSUME NEW c \in Convs, Archive(c) PROVE TypeInv'
  <2>1. maxRow' \in [Convs -> Nat]
    <3>1. PICK n \in 1 .. Len(toPostgres) : maxRow' = [maxRow EXCEPT ![c] = toPostgres[n].seq]
      BY <1>7 DEF Archive
    <3>2. toPostgres[n] \in Events
      BY DEF TypeOK
    <3>3. toPostgres[n].seq \in Nat
      BY <3>2 DEF Events
    <3> QED
      BY <3>1, <3>3 DEF TypeOK
  <2>2. \A d \in Convs : EventsOf(d)' = EventsOf(d)
    BY <1>7 DEF Archive, EventsOf, Batch, consumerVars
  <2> QED BY <1>7, <2>1, <2>2, SMTT(20) DEF Archive, TypeOK, WorkerInv, consumerVars, redisVars, topicVars
<1>8. CASE UNCHANGED vars
  BY <1>8 DEF vars, TypeOK, WorkerInv, EventsOf, Batch, consumerVars, redisVars, topicVars
<1> QED
  BY <1>1, <1>2, <1>3, <1>4, <1>5, <1>6, <1>7, <1>8 DEF Next

(* Every reachable state is well typed; in particular a worker never reads   *)
(* beyond its list of fresh messages and never writes an event of another    *)
(* conversation (handleConversation).                                        *)
THEOREM TypeCorrect == Spec => []TypeOK
<1>1. Spec => []TypeInv
  BY TypeInit, TypeStep, PTL DEF Spec
<1>2. TypeInv => TypeOK
  BY DEF TypeInv
<1> QED
  BY <1>1, <1>2, PTL

-----------------------------------------------------------------------------
(* The seqs of a conversation on toPostgres. *)

(* The pcs at which a worker may still publish under the seqs it reserved. *)
Numbered == {"cache", "hasread", "toPostgres", "agentTrigger", "toPush"}

(* How many of its fresh messages the worker of c has put on toPostgres. *)
Sent(c) ==
    IF worker[c].pc \in {"cache", "hasread"} THEN 0
    ELSE IF worker[c].pc = "toPostgres" THEN worker[c].i - 1 ELSE worker[c].i

(* All seqs of c on toPostgres are below b. *)
Below(c, b) == \A n \in 1 .. Len(toPostgres) : ConvOf[toPostgres[n].key] = c => toPostgres[n].seq < b

(* The counter of c covers everything published, the reserved range of the  *)
(* worker lies above everything published before it, and without a counter  *)
(* nothing has been published yet.                                          *)
CounterMissing(c) ==
    /\ worker[c].pc \notin Numbered \cup {"incr"}
    /\ maxRow[c] = InitialMax[c]
    /\ Below(c, 0)
    /\ worker[c].pc = "setnx" => worker[c].seed = InitialMax[c]

CounterPresent(c) == InitialMax[c] <= seqKey[c] /\ Below(c, seqKey[c] + 1)

RangeReserved(c) ==
    /\ InitialMax[c] < worker[c].first
    /\ worker[c].first + Len(worker[c].fresh) - 1 <= seqKey[c]
    /\ Below(c, worker[c].first + Sent(c))

ConvInv(c) ==
    /\ seqKey[c] = Missing => CounterMissing(c)
    /\ seqKey[c] # Missing => CounterPresent(c)
    /\ worker[c].pc \in Numbered => RangeReserved(c)

SeqInv == SeqStrictlyIncreasing /\ \A c \in Convs : ConvInv(c)

-----------------------------------------------------------------------------
(* What toPostgres carries are events, with natural numbers for seqs. *)
LEMMA EventSeqs ==
    ASSUME TypeInv
    PROVE  \A n \in 1 .. Len(toPostgres) : toPostgres[n] \in Events /\ toPostgres[n].seq \in Nat
<1>1. \A n \in 1 .. Len(toPostgres) : toPostgres[n] \in Events
  BY DEF TypeInv, TypeOK
<1>2. \A e \in Events : e.seq \in Nat
  BY DEF Events
<1> QED
  BY <1>1, <1>2

(* A step of the worker of c does not concern another conversation d. *)
LEMMA OtherConv ==
    ASSUME TypeInv, NEW d \in Convs, ConvInv(d),
           worker'[d] = worker[d], seqKey'[d] = seqKey[d], maxRow'[d] = maxRow[d],
           \/ UNCHANGED toPostgres
           \/ \E e \in Events : ConvOf[e.key] # d /\ toPostgres' = Append(toPostgres, e)
    PROVE  ConvInv(d)'
<1>1. toPostgres \in Seq(Events)
  BY DEF TypeInv, TypeOK
<1>2. ASSUME NEW b, Below(d, b) PROVE \A n \in 1 .. Len(toPostgres') :
                   ConvOf[toPostgres'[n].key] = d => toPostgres'[n].seq < b
  <2>1. CASE UNCHANGED toPostgres
    BY <1>2, <2>1 DEF Below
  <2>2. CASE \E e \in Events : ConvOf[e.key] # d /\ toPostgres' = Append(toPostgres, e)
    <3>1. PICK e \in Events : ConvOf[e.key] # d /\ toPostgres' = Append(toPostgres, e)
      BY <2>2
    <3>2. Len(toPostgres') = Len(toPostgres) + 1 /\ toPostgres'[Len(toPostgres) + 1] = e
      BY <1>1, <3>1
    <3>3. \A n \in 1 .. Len(toPostgres) : toPostgres'[n] = toPostgres[n]
      BY <1>1, <3>1
    <3> QED
      BY <1>1, <1>2, <3>1, <3>2, <3>3 DEF Below
  <2> QED
    BY <2>1, <2>2
<1>3. Sent(d)' = Sent(d)
  BY DEF Sent
<1>4. Below(d, 0) => Below(d, 0)'
  BY <1>2 DEF Below
<1>5. Below(d, seqKey[d] + 1) => Below(d, seqKey[d] + 1)'
  BY <1>2 DEF Below
<1>6. Below(d, worker[d].first + Sent(d)) => Below(d, worker[d].first + Sent(d))'
  BY <1>2, <1>3 DEF Below
<1> HIDE DEF Below
<1> QED
  BY <1>4, <1>5, <1>6 DEF ConvInv, CounterMissing, CounterPresent, RangeReserved

(* A step that leaves counter, rows and toPostgres alone keeps ConvInv(c) if *)
(* the worker ends, or goes on under the same reserved range.               *)
LEMMA SeqQuietStep ==
    ASSUME TypeInv, NEW c \in Convs, ConvInv(c), UNCHANGED <<seqKey, maxRow, toPostgres>>,
           worker' \in [Convs -> Workers],
           \/ worker'[c].pc \notin Numbered \cup {"incr", "setnx"}
           \/ /\ worker[c].pc \in Numbered /\ worker'[c].pc \in Numbered
              /\ worker'[c].first = worker[c].first /\ worker'[c].fresh = worker[c].fresh
              /\ Sent(c)' = Sent(c)
    PROVE  ConvInv(c)'
<1>2. Below(c, 0)' <=> Below(c, 0)
  BY DEF Below
<1>3. Below(c, seqKey[c] + 1)' <=> Below(c, seqKey[c] + 1)
  BY DEF Below
<1>4. CASE worker'[c].pc \notin Numbered \cup {"incr", "setnx"}
  BY <1>2, <1>3, <1>4 DEF ConvInv, CounterMissing, CounterPresent
<1>5. CASE /\ worker[c].pc \in Numbered /\ worker'[c].pc \in Numbered
           /\ worker'[c].first = worker[c].first /\ worker'[c].fresh = worker[c].fresh
           /\ Sent(c)' = Sent(c)
  <2>1. Below(c, worker[c].first + Sent(c))' <=> Below(c, worker[c].first + Sent(c))
    BY <1>5 DEF Below
  <2> QED
    BY <1>2, <1>3, <1>5, <2>1 DEF ConvInv, CounterMissing, CounterPresent, RangeReserved
<1> QED
  BY <1>4, <1>5

-----------------------------------------------------------------------------
LEMMA SeqInit == Init => SeqInv
<1> SUFFICES ASSUME Init PROVE SeqInv
  OBVIOUS
<1>1. Len(toPostgres) = 0 /\ \A n \in 1 .. Len(toPostgres) : FALSE
  BY DEF Init
<1>2. SeqStrictlyIncreasing /\ \A c \in Convs : Below(c, 0)
  BY <1>1 DEF SeqStrictlyIncreasing, Below
<1>3. \A c \in Convs : worker[c].pc \in {"idle", "dedup", "done"}
  BY FreshWorkers DEF Init
<1>4. \A c \in Convs : seqKey[c] = Missing /\ maxRow[c] = InitialMax[c]
  BY DEF Init
<1> QED
  BY <1>2, <1>3, <1>4 DEF SeqInv, ConvInv, CounterMissing, Numbered

(* One case per step of a worker: what it does to its own conversation. *)
LEMMA SeqWorker ==
    ASSUME TypeInv, TypeInv', NEW c \in Convs, ConvInv(c), HandleConversation(c), SeqStrictlyIncreasing
    PROVE  ConvInv(c)' /\ SeqStrictlyIncreasing'
<1>0. worker \in [Convs -> Workers] /\ worker' \in [Convs -> Workers] /\ seqKey \in [Convs -> Nat \cup {Missing}]
  BY DEF TypeInv, TypeOK
<1>1. CASE DedupGet(c)
  <2>1. worker'[c].pc \in {"done", "exists"}
    BY <1>0, <1>1 DEF DedupGet, Workers
  <2> QED
    BY <1>0, <1>1, <2>1, SeqQuietStep
       DEF DedupGet, redisVars, topicVars, Numbered, SeqStrictlyIncreasing
<1>2. CASE MallocExists(c)
  <2>1. worker'[c].pc = IF seqKey[c] = Missing THEN "query" ELSE "incr"
    BY <1>0, <1>2 DEF MallocExists, Goto, Workers
  <2>2. UNCHANGED <<seqKey, maxRow, toPostgres>>
    BY <1>2 DEF MallocExists, redisVars, topicVars
  <2>3. CASE seqKey[c] = Missing
    BY <1>0, <2>1, <2>2, <2>3, SeqQuietStep DEF Numbered, SeqStrictlyIncreasing
  <2>4. CASE seqKey[c] # Missing
    <3>1. Below(c, seqKey[c] + 1)' <=> Below(c, seqKey[c] + 1)
      BY <2>2 DEF Below
    <3> QED
      BY <2>1, <2>2, <2>4, <3>1 DEF ConvInv, CounterPresent, Numbered, SeqStrictlyIncreasing
  <2> QED BY <2>3, <2>4
<1>3. CASE MallocQuery(c)
  <2>1. worker'[c].pc = "setnx" /\ worker'[c].seed = maxRow[c]
    BY <1>0, <1>3 DEF MallocQuery, Workers
  <2>2. UNCHANGED <<seqKey, maxRow, toPostgres>>
    BY <1>3 DEF MallocQuery, redisVars, topicVars
  <2>3. /\ Below(c, 0)' <=> Below(c, 0)
        /\ Below(c, seqKey[c] + 1)' <=> Below(c, seqKey[c] + 1)
    BY <2>2 DEF Below
  <2> QED
    BY <2>1, <2>2, <2>3
       DEF ConvInv, CounterMissing, CounterPresent, Numbered, SeqStrictlyIncreasing
<1>4. CASE MallocSetNX(c)
  <2>1. worker'[c].pc = "incr" /\ worker[c].pc = "setnx"
    BY <1>0, <1>4 DEF MallocSetNX, Goto, At, Workers
  <2>2. UNCHANGED <<maxRow, toPostgres>>
    BY <1>4 DEF MallocSetNX, topicVars
  <2>3. seqKey'[c] = IF seqKey[c] = Missing THEN worker[c].seed ELSE seqKey[c]
    BY <1>0, <1>4 DEF MallocSetNX
  <2>4. worker[c].seed \in Nat /\ InitialMax[c] \in Nat
    BY <1>0, ConstantTypes DEF Workers
  <2>5. seqKey'[c] # Missing /\ InitialMax[c] <= seqKey'[c]
    BY <1>0, <2>1, <2>3, <2>4 DEF ConvInv, CounterMissing, CounterPresent, Missing
  <2>6. \A n \in 1 .. Len(toPostgres) : toPostgres[n].seq \in Nat
    BY EventSeqs
  <2>7. Below(c, seqKey[c] + 1)'
    BY <1>0, <2>2, <2>3, <2>4, <2>6, SMTT(20) DEF ConvInv, CounterMissing, CounterPresent, Below
  <2> QED
    BY <2>1, <2>2, <2>5, <2>7 DEF ConvInv, CounterPresent, Numbered, SeqStrictlyIncreasing
<1>5. CASE MallocIncr(c)
  <2>1. worker[c].pc = "incr" /\ seqKey[c] # Missing /\ seqKey[c] \in Nat
    BY <1>0, <1>5 DEF MallocIncr, At, ConvInv, CounterMissing
  <2>2. seqKey'[c] = seqKey[c] + Len(worker[c].fresh) /\ UNCHANGED <<maxRow, toPostgres>>
    BY <1>0, <1>5, <2>1 DEF MallocIncr, topicVars
  <2>3. /\ worker'[c].pc = "cache" /\ worker'[c].first = seqKey[c] + 1
        /\ worker'[c].fresh = worker[c].fresh
    BY <1>0, <1>5, <2>1 DEF MallocIncr, Workers
  <2>4. Len(worker[c].fresh) \in Nat /\ InitialMax[c] \in Nat
    BY <1>0, ConstantTypes DEF Workers
  <2>5. CounterPresent(c)
    BY <2>1 DEF ConvInv
  <2>6. \A n \in 1 .. Len(toPostgres) : toPostgres[n].seq \in Nat
    BY EventSeqs
  <2>7. Sent(c)' = 0
    BY <2>3 DEF Sent
  <2>8. Below(c, seqKey[c] + 1)' /\ Below(c, worker[c].first + Sent(c))'
    BY <2>1, <2>2, <2>3, <2>4, <2>5, <2>6, <2>7, SMTT(20) DEF CounterPresent, Below
  <2>9. seqKey'[c] # Missing /\ InitialMax[c] <= seqKey'[c]
    BY <2>1, <2>2, <2>4, <2>5 DEF CounterPresent, Missing
  <2>10. InitialMax[c] < worker'[c].first /\ worker'[c].first + Len(worker'[c].fresh) - 1 <= seqKey'[c]
    BY <2>1, <2>2, <2>3, <2>4, <2>5 DEF CounterPresent
  <2> QED
    BY <2>2, <2>8, <2>9, <2>10 DEF ConvInv, CounterPresent, RangeReserved, SeqStrictlyIncreasing
<1>6. CASE CacheMessage(c)
  <2>1. worker[c].pc = "cache" /\ UNCHANGED <<seqKey, maxRow, toPostgres>>
    BY <1>6 DEF CacheMessage, At, topicVars
  <2>2. /\ worker'[c].pc \in {"cache", "hasread"}
        /\ worker'[c].first = worker[c].first /\ worker'[c].fresh = worker[c].fresh
    BY <1>0, <1>6 DEF CacheMessage, LoopOr, Workers
  <2>3. Sent(c)' = Sent(c)
    BY <2>1, <2>2 DEF Sent
  <2> QED
    BY <1>0, <2>1, <2>2, <2>3, SeqQuietStep DEF Numbered, SeqStrictlyIncreasing
<1>7. CASE SetHasRead(c)
  <2>1. worker[c].pc = "hasread" /\ UNCHANGED <<seqKey, maxRow, toPostgres>>
    BY <1>7 DEF SetHasRead, At, topicVars
  <2>2. /\ worker'[c].pc = "hasread" \/ (worker'[c].pc = "toPostgres" /\ worker'[c].i = 1)
        /\ worker'[c].first = worker[c].first /\ worker'[c].fresh = worker[c].fresh
    BY <1>0, <1>7 DEF SetHasRead, LoopOr, Workers
  <2>3. Sent(c)' = Sent(c)
    BY <2>1, <2>2 DEF Sent
  <2> QED
    BY <1>0, <2>1, <2>2, <2>3, SeqQuietStep DEF Numbered, SeqStrictlyIncreasing
<1>8. CASE PublishToPostgres(c)
  <2> DEFINE e == Accepted(c, worker[c].i)
  <2>1. worker[c].pc = "toPostgres" /\ UNCHANGED <<seqKey, maxRow>> /\ toPostgres' = Append(toPostgres, e)
    BY <1>8 DEF PublishToPostgres, At, redisVars
  <2>2. /\ worker'[c].pc = "agentTrigger" /\ worker'[c].i = worker[c].i
        /\ worker'[c].first = worker[c].first /\ worker'[c].fresh = worker[c].fresh
    BY <1>0, <1>8 DEF PublishToPostgres, Goto, Workers
  <2>3. e \in Events /\ ConvOf[e.key] = c /\ e.seq = worker[c].first + worker[c].i - 1
    BY <2>1, AcceptedEvent DEF Active
  <2>4. worker[c].first \in Nat /\ worker[c].i \in Nat /\ worker[c].i >= 1 /\ worker[c].i <= Len(worker[c].fresh)
        /\ Len(worker[c].fresh) \in Nat /\ InitialMax[c] \in Nat
    BY <1>0, <2>1, ConstantTypes DEF Workers, TypeInv, WorkerInv, Active
  <2>5. RangeReserved(c) /\ Sent(c) = worker[c].i - 1 /\ Sent(c)' = worker[c].i
    BY <2>1, <2>2 DEF ConvInv, Numbered, Sent
  <2>6. seqKey[c] \in Nat /\ seqKey[c] # Missing /\ CounterPresent(c)
    BY <1>0, <2>1 DEF ConvInv, CounterMissing, Numbered
  <2> HIDE DEF e
  <2>7. /\ toPostgres \in Seq(Events) /\ Len(toPostgres') = Len(toPostgres) + 1
        /\ toPostgres'[Len(toPostgres) + 1] = e
        /\ \A n \in 1 .. Len(toPostgres) : toPostgres'[n] = toPostgres[n]
    BY <2>1 DEF TypeInv, TypeOK
  <2>8. Below(c, e.seq)
    BY <2>3, <2>4, <2>5 DEF RangeReserved, Below
  <2>9. \A n \in 1 .. Len(toPostgres) : toPostgres[n].seq \in Nat
    BY EventSeqs
  <2>10. SeqStrictlyIncreasing'
    <3>1. \A m, n \in 1 .. Len(toPostgres') :
            m < n /\ ConvOf[toPostgres'[m].key] = ConvOf[toPostgres'[n].key]
                => toPostgres'[m].seq < toPostgres'[n].seq
      <4> SUFFICES ASSUME NEW m \in 1 .. Len(toPostgres'), NEW n \in 1 .. Len(toPostgres'), m < n,
                          ConvOf[toPostgres'[m].key] = ConvOf[toPostgres'[n].key]
                   PROVE  toPostgres'[m].seq < toPostgres'[n].seq
        OBVIOUS
      <4>1. m \in 1 .. Len(toPostgres) /\ (n \in 1 .. Len(toPostgres) \/ n = Len(toPostgres) + 1)
        BY <2>7
      <4>2. CASE n \in 1 .. Len(toPostgres)
        BY <2>7, <4>1, <4>2 DEF SeqStrictlyIncreasing
      <4>3. CASE n = Len(toPostgres) + 1
        BY <2>3, <2>7, <2>8, <4>1, <4>3 DEF Below
      <4> QED BY <4>1, <4>2, <4>3
    <3>2. e.seq > InitialMax[c]
      BY <2>3, <2>4, <2>5 DEF RangeReserved
    <3>3. \A n \in 1 .. Len(toPostgres') : toPostgres'[n].seq > InitialMax[ConvOf[toPostgres'[n].key]]
      BY <2>3, <2>7, <3>2 DEF SeqStrictlyIncreasing
    <3> QED BY <3>1, <3>3 DEF SeqStrictlyIncreasing
  <2>11. e.seq \in Nat /\ e.seq < seqKey[c] + 1 /\ e.seq < worker[c].first + worker[c].i
    <3>1. worker[c].first + Len(worker[c].fresh) - 1 <= seqKey[c]
      BY <2>5 DEF RangeReserved
    <3>2. e.seq \in Nat
      BY <2>3 DEF Events
    <3>3. \A f, i, l, k, x \in Nat :
             f + l - 1 <= k /\ i <= l /\ x = f + i - 1 => x < k + 1 /\ x < f + i
      OBVIOUS
    <3>4. e.seq < seqKey[c] + 1 /\ e.seq < worker[c].first + worker[c].i
      BY <2>3, <2>4, <2>6, <3>1, <3>2, <3>3
    <3> QED BY <3>2, <3>4
  <2>12. Below(c, seqKey[c] + 1)' /\ Below(c, worker[c].first + Sent(c))'
    <3> SUFFICES ASSUME NEW n \in 1 .. Len(toPostgres'), ConvOf[toPostgres'[n].key] = c
                 PROVE  /\ toPostgres'[n].seq < seqKey'[c] + 1
                        /\ toPostgres'[n].seq < worker'[c].first + Sent(c)'
      BY DEF Below
    <3>1. seqKey'[c] = seqKey[c] /\ worker'[c].first + Sent(c)' = worker[c].first + worker[c].i
      BY <2>1, <2>2, <2>5
    <3>2. CASE n = Len(toPostgres) + 1
      BY <2>7, <2>11, <3>1, <3>2
    <3>3. CASE n \in 1 .. Len(toPostgres)
      <4>1. toPostgres'[n].seq \in Nat /\ toPostgres'[n].seq < e.seq
        BY <2>7, <2>8, <2>9, <3>3 DEF Below
      <4> QED BY <2>4, <2>6, <2>11, <3>1, <4>1, SMTT(20)
    <3> QED BY <2>7, <3>2, <3>3
  <2> QED
    BY <2>1, <2>2, <2>5, <2>6, <2>10, <2>12 DEF ConvInv, CounterPresent, RangeReserved
<1>9. CASE PublishAgentTrigger(c)
  <2>1. worker[c].pc = "agentTrigger" /\ UNCHANGED <<seqKey, maxRow, toPostgres>>
    BY <1>9 DEF PublishAgentTrigger, At, redisVars
  <2>2. /\ worker'[c].pc = "toPush" /\ worker'[c].i = worker[c].i
        /\ worker'[c].first = worker[c].first /\ worker'[c].fresh = worker[c].fresh
    BY <1>0, <1>9 DEF PublishAgentTrigger, Goto, Workers
  <2>3. Sent(c)' = Sent(c)
    BY <2>1, <2>2 DEF Sent
  <2> QED
    BY <1>0, <2>1, <2>2, <2>3, SeqQuietStep DEF Numbered, SeqStrictlyIncreasing
<1>10. CASE PublishToPush(c)
  <2>1. worker[c].pc = "toPush" /\ UNCHANGED <<seqKey, maxRow, toPostgres>>
    BY <1>10 DEF PublishToPush, At, redisVars
  <2>2. /\ \/ worker'[c].pc = "toPostgres" /\ worker'[c].i = worker[c].i + 1
           \/ worker'[c].pc = "record"
        /\ worker'[c].first = worker[c].first /\ worker'[c].fresh = worker[c].fresh
    BY <1>0, <1>10 DEF PublishToPush, LoopOr, Workers
  <2>3. worker'[c].pc = "toPostgres" => Sent(c)' = Sent(c)
    BY <1>0, <2>1, <2>2 DEF Sent, Workers
  <2> QED
    BY <1>0, <2>1, <2>2, <2>3, SeqQuietStep DEF Numbered, SeqStrictlyIncreasing
<1>11. CASE DedupSet(c)
  <2>1. worker'[c].pc \in {"record", "done"}
    BY <1>0, <1>11 DEF DedupSet, LoopOr, Workers
  <2> QED
    BY <1>0, <1>11, <2>1, SeqQuietStep DEF DedupSet, topicVars, Numbered, SeqStrictlyIncreasing
<1> QED
  BY <1>1, <1>2, <1>3, <1>4, <1>5, <1>6, <1>7, <1>8, <1>9, <1>10, <1>11 DEF HandleConversation, Malloc

(* The worker of c touches no other conversation. *)
LEMMA WorkerFrame ==
    ASSUME TypeInv, NEW c \in Convs, HandleConversation(c), NEW d \in Convs, d # c
    PROVE  /\ worker'[d] = worker[d] /\ seqKey'[d] = seqKey[d] /\ maxRow'[d] = maxRow[d]
           /\ \/ UNCHANGED toPostgres
              \/ \E e \in Events : ConvOf[e.key] # d /\ toPostgres' = Append(toPostgres, e)
<1>1. worker \in [Convs -> Workers] /\ seqKey \in [Convs -> Nat \cup {Missing}]
  BY DEF TypeInv, TypeOK
<1>2. worker'[d] = worker[d]
  BY <1>1 DEF HandleConversation, Malloc, DedupGet, MallocExists, MallocQuery, MallocSetNX, MallocIncr,
              CacheMessage, SetHasRead, PublishToPostgres, PublishAgentTrigger, PublishToPush, DedupSet,
              Goto, LoopOr
<1>3. seqKey'[d] = seqKey[d] /\ UNCHANGED maxRow
  BY <1>1 DEF HandleConversation, Malloc, DedupGet, MallocExists, MallocQuery, MallocSetNX, MallocIncr,
              CacheMessage, SetHasRead, PublishToPostgres, PublishAgentTrigger, PublishToPush, DedupSet,
              redisVars
<1>4. CASE PublishToPostgres(c)
  BY <1>2, <1>3, <1>4, AcceptedEvent DEF PublishToPostgres, At, Active
<1>5. CASE ~PublishToPostgres(c)
  <2>1. UNCHANGED toPostgres
    BY <1>5 DEF HandleConversation, Malloc, DedupGet, MallocExists, MallocQuery, MallocSetNX, MallocIncr,
                CacheMessage, SetHasRead, PublishAgentTrigger, PublishToPush, DedupSet, topicVars
  <2> QED BY <1>2, <1>3, <2>1
<1> QED BY <1>4, <1>5

LEMMA SeqStep == TypeInv /\ TypeInv' /\ SeqInv /\ [Next]_vars => SeqInv'
<1> SUFFICES ASSUME TypeInv, TypeInv', SeqInv, [Next]_vars PROVE SeqInv'
  OBVIOUS
<1>0. worker \in [Convs -> Workers] /\ worker' \in [Convs -> Workers]
  BY DEF TypeInv, TypeOK
<1>1. ASSUME UNCHANGED <<worker, seqKey, maxRow, toPostgres>> PROVE SeqInv'
  BY <1>1, OtherConv DEF SeqInv, SeqStrictlyIncreasing
<1>2. ASSUME UNCHANGED <<seqKey, maxRow, toPostgres>>,
             \A c \in Convs : worker'[c].pc \in {"idle", "dedup", "done"}
      PROVE  SeqInv'
  BY <1>0, <1>2, SeqQuietStep DEF SeqInv, SeqStrictlyIncreasing, Numbered
<1>3. CASE \E k \in ClientKeys : SendMessage(k)
  BY <1>1, <1>3 DEF SendMessage, redisVars, topicVars
<1>4. CASE ForeignRecord
  BY <1>1, <1>4 DEF ForeignRecord, redisVars, topicVars
<1>5. CASE RunLoop
  <2>1. CASE Poll
    BY <1>2, <2>1, FreshWorkers DEF Poll, redisVars, topicVars
  <2>2. CASE HandlerError
    BY <1>2, <2>2, FreshWorkers DEF HandlerError, redisVars, topicVars
  <2>3. CASE HandlerOK
    BY <1>1, <2>3 DEF HandlerOK, redisVars, topicVars
  <2>4. CASE CommitRecords
    BY <1>2, <2>4, FreshWorkers DEF CommitRecords, redisVars, topicVars
  <2> QED BY <1>5, <2>1, <2>2, <2>3, <2>4 DEF RunLoop
<1>6. CASE Crash
  BY <1>2, <1>6, FreshWorkers DEF Crash, redisVars, topicVars
<1>7. ASSUME NEW c \in Convs, HandleConversation(c) PROVE SeqInv'
  <2>1. ConvInv(c)' /\ SeqStrictlyIncreasing'
    BY <1>7, SeqWorker DEF SeqInv
  <2>2. ASSUME NEW d \in Convs, d # c PROVE ConvInv(d)'
    BY <1>7, <2>2, WorkerFrame, OtherConv DEF SeqInv
  <2> QED BY <2>1, <2>2 DEF SeqInv
<1>8. ASSUME NEW c \in Convs, Fail(c) PROVE SeqInv'
  <2>1. UNCHANGED <<seqKey, maxRow, toPostgres>>
    BY <1>8 DEF Fail, redisVars, topicVars
  <2>2. worker'[c].pc = "fail" /\ \A d \in Convs : d # c => worker'[d] = worker[d]
    BY <1>0, <1>8 DEF Fail, Goto, Workers
  <2>3. ConvInv(c)'
    BY <1>0, <2>1, <2>2, SeqQuietStep DEF SeqInv, Numbered
  <2>4. \A d \in Convs : d # c => ConvInv(d)'
    BY <2>1, <2>2, OtherConv DEF SeqInv
  <2> QED BY <2>1, <2>3, <2>4 DEF SeqInv, SeqStrictlyIncreasing
<1>9. ASSUME NEW c \in Convs, Archive(c) PROVE SeqInv'
  <2>1. PICK n \in 1 .. Len(toPostgres) : /\ ConvOf[toPostgres[n].key] = c
                                          /\ maxRow' = [maxRow EXCEPT ![c] = toPostgres[n].seq]
    BY <1>9 DEF Archive
  <2>2. UNCHANGED <<worker, seqKey, toPostgres>> /\ maxRow \in [Convs -> Nat]
    BY <1>9 DEF Archive, redisVars, topicVars, TypeInv, TypeOK
  <2>3. toPostgres[n].seq \in Nat
    BY EventSeqs
  <2>4. seqKey[c] # Missing
    BY <2>1, <2>3 DEF SeqInv, ConvInv, CounterMissing, Below
  <2>5. ConvInv(c)'
    BY <2>2, <2>4 DEF SeqInv, ConvInv, CounterPresent, RangeReserved, Below, Sent
  <2>6. \A d \in Convs : d # c => ConvInv(d)'
    BY <2>1, <2>2, OtherConv DEF SeqInv
  <2> QED BY <2>2, <2>5, <2>6 DEF SeqInv, SeqStrictlyIncreasing
<1>10. CASE UNCHANGED vars
  BY <1>1, <1>10 DEF vars, redisVars, topicVars
<1> QED
  BY <1>3, <1>4, <1>5, <1>6, <1>7, <1>8, <1>9, <1>10 DEF Next

(* On toPostgres the seqs of every conversation increase strictly and stay   *)
(* above the rows that existed before: while Redis keeps its data, no crash, *)
(* failed call, in-place retry or client retry makes SeqAllocator.Malloc     *)
(* hand out a seq twice or out of order.                                     *)
THEOREM SeqsIncrease == Spec => []SeqStrictlyIncreasing
<1>1. Spec => []TypeInv
  BY TypeInit, TypeStep, PTL DEF Spec
<1>2. SeqInv => SeqStrictlyIncreasing
  BY DEF SeqInv
<1> QED
  BY <1>1, <1>2, SeqInit, SeqStep, PTL DEF Spec

-----------------------------------------------------------------------------
(*                     No loss, and the order of the topics                *)

(* The client keys on each topic, and those on all the topics they go to. *)
PgKeys == {k \in ClientKeys : PublishedTo(toPostgres, k)}
AgKeys == {k \in ClientKeys : PublishedTo(agentTrigger, k)}
OutKeys == {k \in ClientKeys : FullyPublished(k)}

KeyOf(c, j) == toTransfer[worker[c].fresh[j]]

(* Each message of the batch is out already, or is among the fresh ones. *)
Covered(c) ==
    \A o \in EventsOf(c) : \/ toTransfer[o] \in OutKeys
                           \/ \E j \in 1 .. Len(worker[c].fresh) : KeyOf(c, j) = toTransfer[o]

(* What the produce loop has put on the topics so far. *)
Produced(c) ==
    /\ worker[c].pc \in {"toPostgres", "agentTrigger", "toPush"} =>
          \A j \in 1 .. worker[c].i - 1 : KeyOf(c, j) \in OutKeys
    /\ worker[c].pc \in {"agentTrigger", "toPush"} => KeyOf(c, worker[c].i) \in PgKeys
    /\ worker[c].pc = "toPush" => KeyOf(c, worker[c].i) \in AgKeys
    /\ worker[c].pc = "record" => \A j \in 1 .. Len(worker[c].fresh) : KeyOf(c, j) \in OutKeys

Finished(c) == \A o \in EventsOf(c) : toTransfer[o] \in OutKeys

WorkerLossInv(c) ==
    /\ worker[c].pc \in Active => Covered(c) /\ Produced(c)
    /\ worker[c].pc = "done" => phase # "poll" /\ Finished(c)

AckedOut == \A o \in 1 .. committed : toTransfer[o] # Malformed => toTransfer[o] \in OutKeys

DedupInv == \A k \in ClientKeys : dedup[k] # NoRecord => k \in OutKeys

LossInv ==
    /\ AckedOut /\ DedupInv
    /\ \A c \in Convs : WorkerLossInv(c)
    /\ phase = "commit" => \A c \in Convs : worker[c].pc = "done"

LossyNext == Next \/ LoseRedis \/ \E k \in ClientKeys : ExpireDedup(k)

-----------------------------------------------------------------------------
(* The least-number principle. *)
LEMMA LeastNat ==
    ASSUME NEW S \in SUBSET Nat, S # {}
    PROVE  \E x \in S : \A y \in S : x <= y
<1> DEFINE R == OpToRel(<, Nat)
<1>1. R = {ss \in Nat \X Nat : ss[1] < ss[2]}
  BY Zenon DEF OpToRel
<1>2. IsWellFoundedOn(R, Nat)
  BY NatLessThanWellFounded
<1>3. PICK x \in S : \A y \in S : ~ (<<y, x>> \in R)
  <2> HIDE DEF R
  <2> QED BY <1>2, WFMin
<1>4. \A y \in S : <<y, x>> \in R <=> y < x
  BY <1>1
<1>5. \A y \in S : ~(y < x)
  BY <1>3, <1>4
<1>6. \A y \in S : x <= y
  BY <1>5
<1> QED
  BY <1>6

(* Losing Redis data leaves a well-typed state. *)
LEMMA LossyTypeStep == TypeInv /\ [LossyNext]_vars => TypeInv'
<1> SUFFICES ASSUME TypeInv, LoseRedis \/ \E k \in ClientKeys : ExpireDedup(k) PROVE TypeInv'
  BY TypeStep DEF LossyNext
<1> USE DEF TypeInv
<1>1. \A c \in Convs : EventsOf(c)' = EventsOf(c)
  BY DEF LoseRedis, ExpireDedup, EventsOf, Batch, consumerVars
<1>2. WorkerInv'
  BY <1>1 DEF LoseRedis, ExpireDedup, WorkerInv, consumerVars
<1>3. faults' \in 0 .. MaxFaults
  BY ConstantTypes, SMTT(20) DEF LoseRedis, ExpireDedup, TypeOK
<1>4. CASE LoseRedis
  BY <1>2, <1>3, <1>4 DEF LoseRedis, TypeOK, consumerVars, topicVars, NoRecord
<1>5. CASE \E k \in ClientKeys : ExpireDedup(k)
  BY <1>2, <1>3, <1>5 DEF ExpireDedup, TypeOK, consumerVars, topicVars, NoRecord
<1> QED BY <1>4, <1>5

-----------------------------------------------------------------------------
(* The topics only grow, so what is published stays published. *)
Grow == PgKeys \subseteq PgKeys' /\ AgKeys \subseteq AgKeys' /\ OutKeys \subseteq OutKeys'

LEMMA AppendPublishes ==
    ASSUME NEW S, NEW s \in Seq(S), NEW e \in S
    PROVE  /\ PublishedTo(Append(s, e), e.key)
           /\ \A k : PublishedTo(s, k) => PublishedTo(Append(s, e), k)
<1>1. /\ Len(Append(s, e)) = Len(s) + 1 /\ Len(s) \in Nat
      /\ Append(s, e)[Len(s) + 1] = e
      /\ \A n \in 1 .. Len(s) : Append(s, e)[n] = s[n]
  OBVIOUS
<1> QED
  BY <1>1 DEF PublishedTo

LEMMA TopicsGrow ==
    ASSUME \A k \in ClientKeys : PublishedTo(toPostgres, k) => PublishedTo(toPostgres', k),
           \A k \in ClientKeys : PublishedTo(agentTrigger, k) => PublishedTo(agentTrigger', k),
           \A k \in ClientKeys : PublishedTo(toPush, k) => PublishedTo(toPush', k)
    PROVE  Grow
  BY DEF Grow, PgKeys, AgKeys, OutKeys, FullyPublished, PublishedTo, PushRecipients

LEMMA TopicsKept == UNCHANGED topicVars => Grow
  BY TopicsGrow DEF topicVars

(* The records of the batch are the same before and after. *)
Kept(c) == EventsOf(c)' = EventsOf(c) /\ \A o \in EventsOf(c) : toTransfer'[o] = toTransfer[o]

LEMMA ConsumerKept ==
    ASSUME UNCHANGED <<toTransfer, consumerVars>>, NEW c PROVE Kept(c)
  BY DEF Kept, EventsOf, Batch, consumerVars

LEMMA FreshKept ==
    ASSUME TypeInv, NEW c \in Convs, Kept(c), Grow,
           worker'[c].fresh = worker[c].fresh, worker[c].pc \in Active
    PROVE  /\ \A j \in 1 .. Len(worker[c].fresh) : KeyOf(c, j)' = KeyOf(c, j)
           /\ Covered(c) => Covered(c)'
<1>1. \A j \in 1 .. Len(worker[c].fresh) : worker[c].fresh[j] \in EventsOf(c)
  BY DEF TypeInv, WorkerInv
<1>2. \A j \in 1 .. Len(worker[c].fresh) : KeyOf(c, j)' = KeyOf(c, j)
  BY <1>1 DEF KeyOf, Kept
<1>3. ASSUME Covered(c) PROVE Covered(c)'
  BY <1>1, <1>3 DEF Covered, KeyOf, Kept, Grow
<1> QED BY <1>2, <1>3

LEMMA IndexRange ==
    ASSUME TypeInv, NEW c \in Convs, worker[c].pc \in Active
    PROVE  /\ Len(worker[c].fresh) \in Nat /\ worker[c].i \in 1 .. Len(worker[c].fresh)
           /\ \A j \in 1 .. worker[c].i - 1 : j \in 1 .. Len(worker[c].fresh)
<1>1. worker[c] \in Workers
  BY DEF TypeInv, TypeOK
<1>2. Len(worker[c].fresh) \in Nat /\ worker[c].i \in 1 .. Len(worker[c].fresh)
  BY <1>1 DEF TypeInv, WorkerInv, Workers
<1> QED BY <1>2

(* A worker that does not move keeps its part of the invariant. *)
LEMMA IdleElsewhere ==
    ASSUME TypeInv, NEW d \in Convs, WorkerLossInv(d), Kept(d), Grow,
           worker'[d] = worker[d], phase' # "poll" \/ UNCHANGED phase
    PROVE  WorkerLossInv(d)'
<1>1. CASE worker[d].pc \in Active
  <2>1. /\ \A j \in 1 .. Len(worker[d].fresh) : KeyOf(d, j)' = KeyOf(d, j)
        /\ Covered(d)' /\ Produced(d)
    BY <1>1, FreshKept DEF WorkerLossInv
  <2>2. /\ worker[d].i \in 1 .. Len(worker[d].fresh)
        /\ \A j \in 1 .. worker[d].i - 1 : j \in 1 .. Len(worker[d].fresh)
    BY <1>1, IndexRange
  <2>3. KeyOf(d, worker[d].i)' = KeyOf(d, worker[d].i)
    BY <2>1, <2>2 DEF KeyOf
  <2>4. Produced(d)'
    BY <2>1, <2>2, <2>3 DEF Produced, Grow
  <2> QED BY <1>1, <2>1, <2>4 DEF WorkerLossInv, Active
<1>2. CASE worker[d].pc = "done"
  BY <1>2 DEF WorkerLossInv, Finished, Kept, Grow, Active
<1>3. CASE worker[d].pc \notin Active \cup {"done"}
  BY <1>3 DEF WorkerLossInv
<1> QED BY <1>1, <1>2, <1>3

(* A step of one worker: what is left to show is about that worker only. *)
LEMMA WorkerStep ==
    ASSUME TypeInv, LossInv, NEW c \in Convs, phase = "handle", Grow,
           UNCHANGED <<toTransfer, consumerVars>>,
           \A d \in Convs : d # c => worker'[d] = worker[d],
           DedupInv', WorkerLossInv(c)'
    PROVE  LossInv'
<1>1. \A d \in Convs : WorkerLossInv(d)'
  <2> TAKE d \in Convs
  <2>1. CASE d # c
    BY <2>1, ConsumerKept, IdleElsewhere DEF LossInv, consumerVars
  <2> QED BY <2>1
<1>2. AckedOut'
  BY DEF LossInv, AckedOut, Grow, consumerVars
<1>3. phase' = "handle"
  BY DEF consumerVars
<1> QED BY <1>1, <1>2, <1>3 DEF LossInv

(* A call before the produce loop touches neither topics nor dedup. *)
LEMMA QuietStep ==
    ASSUME TypeInv, LossInv, NEW c \in Convs, phase = "handle",
           worker[c].pc \in Active, worker'[c].fresh = worker[c].fresh,
           \/ worker'[c].pc \in {"exists", "query", "setnx", "incr", "cache", "hasread"}
           \/ worker'[c].pc = "toPostgres" /\ worker'[c].i = 1,
           UNCHANGED <<toTransfer, consumerVars, topicVars, dedup>>,
           \A d \in Convs : d # c => worker'[d] = worker[d]
    PROVE  LossInv'
<1>1. Grow
  BY TopicsKept
<1>2. DedupInv'
  BY <1>1 DEF DedupInv, LossInv, Grow
<1>3. Covered(c)'
  BY <1>1, FreshKept, ConsumerKept DEF LossInv, WorkerLossInv
<1>4. Produced(c)'
  BY DEF Produced
<1>5. WorkerLossInv(c)'
  BY <1>3, <1>4 DEF WorkerLossInv
<1> QED BY <1>1, <1>2, <1>5, WorkerStep

(* One round of a loop over the fresh messages. *)
LEMMA LoopMoves ==
    ASSUME TypeInv, NEW c \in Convs, worker[c].pc \in Active, NEW again, NEW next, LoopOr(c, again, next)
    PROVE  /\ worker'[c].fresh = worker[c].fresh
           /\ \A d \in Convs : d # c => worker'[d] = worker[d]
           /\ \/ worker'[c].pc = again /\ worker'[c].i = worker[c].i + 1
              \/ worker'[c].pc = next /\ worker'[c].i = 1 /\ worker[c].i = Len(worker[c].fresh)
<1>1. worker \in [Convs -> Workers]
  BY DEF TypeInv, TypeOK
<1>2. Len(worker[c].fresh) \in Nat /\ worker[c].i \in 1 .. Len(worker[c].fresh)
  BY IndexRange
<1> QED BY <1>1, <1>2 DEF LoopOr, Workers

LEMMA GotoMoves ==
    ASSUME TypeInv, NEW c \in Convs, NEW pc, Goto(c, pc)
    PROVE  /\ worker'[c].fresh = worker[c].fresh /\ worker'[c].i = worker[c].i /\ worker'[c].pc = pc
           /\ \A d \in Convs : d # c => worker'[d] = worker[d]
<1>1. worker \in [Convs -> Workers]
  BY DEF TypeInv, TypeOK
<1> QED BY <1>1 DEF Goto, Workers

(* A record of the batch carries a client key. *)
LEMMA EventKeys ==
    ASSUME TypeInv, NEW c \in Convs, NEW o \in EventsOf(c)
    PROVE  o \in Nat /\ o \in 1 .. Len(toTransfer) /\ toTransfer[o] \in ClientKeys
<1>1. o \in Batch /\ toTransfer[o] # Malformed
  BY DEF EventsOf
<1>2. o \in 1 .. Len(toTransfer) /\ o \in Nat
  BY <1>1 DEF Batch, TypeInv, TypeOK
<1> QED BY <1>1, <1>2 DEF TypeInv, TypeOK, Records

-----------------------------------------------------------------------------
(* The dedup loop: the first record of a key in the batch is fresh unless    *)
(* Redis remembers the key, and Redis remembers only what is out.            *)
LEMMA DedupGetStep ==
    ASSUME TypeInv, LossInv, NEW c \in Convs, DedupGet(c) PROVE LossInv'
<1>1. PICK f \in InOrder(FreshOffsets(c), polled - committed) :
        worker' = [worker EXCEPT ![c].fresh = f, ![c].i = 1,
                                 ![c].pc = IF f = <<>> THEN "done" ELSE "exists"]
  BY DEF DedupGet
<1>2. /\ phase = "handle" /\ phase' = "handle"
      /\ UNCHANGED <<toTransfer, consumerVars, topicVars>> /\ UNCHANGED dedup
  BY DEF DedupGet, At, redisVars, consumerVars
<1>3. worker \in [Convs -> Workers]
  BY DEF TypeInv, TypeOK
<1>4. /\ worker'[c].fresh = f /\ worker'[c].pc = (IF f = <<>> THEN "done" ELSE "exists")
      /\ \A d \in Convs : d # c => worker'[d] = worker[d]
  BY <1>1, <1>3 DEF Workers
<1>5. Grow /\ \A d \in Convs : Kept(d)
  BY <1>2, TopicsKept, ConsumerKept
<1>6. DedupInv'
  BY <1>2, <1>5 DEF DedupInv, LossInv, Grow
<1>7. /\ f \in Seq(FreshOffsets(c)) /\ DOMAIN f = 1 .. Len(f)
      /\ \A o \in FreshOffsets(c) : \E j \in 1 .. Len(f) : f[j] = o
  <2>1. PICK n \in 0 .. polled - committed : f \in [1 .. n -> FreshOffsets(c)]
    BY <1>1 DEF InOrder
  <2>2. n \in Nat
    BY <2>1 DEF TypeInv, TypeOK
  <2>3. f \in Seq(FreshOffsets(c)) /\ DOMAIN f = 1 .. Len(f)
    BY <2>1, <2>2
  <2> QED BY <1>1, <2>3 DEF InOrder
<1>8. ASSUME NEW o \in EventsOf(c)
      PROVE  toTransfer[o] \in OutKeys \/ \E j \in 1 .. Len(f) : toTransfer[f[j]] = toTransfer[o]
  <2>1. CASE dedup[toTransfer[o]] # NoRecord
    BY <2>1, EventKeys DEF LossInv, DedupInv
  <2>2. CASE dedup[toTransfer[o]] = NoRecord
    <3> DEFINE Same == {p \in EventsOf(c) : toTransfer[p] = toTransfer[o]}
    <3>1. Same \in SUBSET Nat /\ Same # {}
      BY EventKeys
    <3> HIDE DEF Same
    <3>2. PICK x \in Same : \A y \in Same : x <= y
      BY <3>1, LeastNat
    <3> USE DEF Same
    <3>3. x \in FreshOffsets(c) /\ toTransfer[x] = toTransfer[o]
      BY <2>2, <3>2 DEF FreshOffsets
    <3> QED BY <1>7, <3>3
  <2> QED BY <2>1, <2>2
<1>9. CASE f = <<>>
  <2>1. Len(f) = 0
    BY <1>9
  <2>2. \A o \in EventsOf(c) : toTransfer[o] \in OutKeys
    BY <1>8, <2>1
  <2>3. Finished(c)'
    BY <1>5, <2>2 DEF Finished, Kept, Grow
  <2>4. WorkerLossInv(c)'
    BY <1>2, <1>4, <1>9, <2>3 DEF WorkerLossInv, Active
  <2> QED BY <1>2, <1>4, <1>5, <1>6, <2>4, WorkerStep
<1>10. CASE f # <<>>
  <2>1. worker'[c].pc = "exists"
    BY <1>4, <1>10
  <2>2. Covered(c)'
    BY <1>2, <1>4, <1>5, <1>8 DEF Covered, KeyOf, Kept, Grow
  <2>3. Produced(c)'
    BY <2>1 DEF Produced
  <2>4. WorkerLossInv(c)'
    BY <2>1, <2>2, <2>3 DEF WorkerLossInv
  <2> QED BY <1>2, <1>4, <1>5, <1>6, <2>4, WorkerStep
<1> QED BY <1>9, <1>10

(* The produce loop: each publication is one more topic for one message. *)
LEMMA ProduceStep ==
    ASSUME TypeInv, LossInv, NEW c \in Convs,
           PublishToPostgres(c) \/ PublishAgentTrigger(c) \/ PublishToPush(c)
    PROVE  LossInv'
<1> DEFINE w == worker[c]
           e == Accepted(c, w.i)
           k == KeyOf(c, w.i)
<1>1. /\ w.pc \in Active /\ w.pc \in {"toPostgres", "agentTrigger", "toPush"} /\ phase = "handle"
      /\ UNCHANGED <<toTransfer, consumerVars>> /\ UNCHANGED dedup
  BY DEF PublishToPostgres, PublishAgentTrigger, PublishToPush, At, Active, redisVars
<1>2. e \in Events /\ e.key = k /\ k \in ClientKeys
  BY <1>1, AcceptedEvent DEF Accepted, KeyOf, Events
<1>3. /\ Len(w.fresh) \in Nat /\ w.i \in 1 .. Len(w.fresh)
      /\ \A j \in 1 .. w.i - 1 : j \in 1 .. Len(w.fresh)
  BY <1>1, IndexRange
<1>4. Kept(c) /\ Covered(c) /\ Produced(c)
  BY <1>1, ConsumerKept DEF LossInv, WorkerLossInv
<1>5. toPostgres \in Seq(Events) /\ agentTrigger \in Seq(Events) /\ toPush \in Seq(PushEvents)
  BY DEF TypeInv, TypeOK
<1>6. ASSUME Grow PROVE DedupInv'
  BY <1>1, <1>6 DEF DedupInv, LossInv, Grow
<1>7. ASSUME Grow, worker'[c].fresh = w.fresh
      PROVE  /\ \A j \in 1 .. Len(w.fresh) : KeyOf(c, j)' = KeyOf(c, j)
             /\ Covered(c)'
  BY <1>1, <1>4, <1>7, FreshKept
<1>8. CASE PublishToPostgres(c)
  <2>1. /\ worker'[c].fresh = w.fresh /\ worker'[c].i = w.i /\ worker'[c].pc = "agentTrigger"
        /\ \A d \in Convs : d # c => worker'[d] = worker[d]
    BY <1>8, GotoMoves DEF PublishToPostgres
  <2>2. toPostgres' = Append(toPostgres, e) /\ UNCHANGED <<agentTrigger, toPush>> /\ w.pc = "toPostgres"
    BY <1>8 DEF PublishToPostgres, At
  <2>3. Grow /\ k \in PgKeys'
    <3> HIDE DEF e, k, w
    <3>1. PublishedTo(toPostgres', e.key) /\ \A q : PublishedTo(toPostgres, q) => PublishedTo(toPostgres', q)
      BY <1>2, <1>5, <2>2, AppendPublishes
    <3>2. Grow
      BY <2>2, <3>1, TopicsGrow
    <3> QED BY <1>2, <3>1, <3>2 DEF PgKeys
  <2>4. /\ \A j \in 1 .. Len(w.fresh) : KeyOf(c, j)' = KeyOf(c, j)
        /\ Covered(c)'
    BY <1>7, <2>1, <2>3
  <2>5. KeyOf(c, worker[c].i)' = k
    BY <1>3, <2>1, <2>4 DEF KeyOf
  <2>6. Produced(c)'
    BY <1>3, <1>4, <2>1, <2>2, <2>3, <2>4, <2>5 DEF Produced, Grow
  <2>7. WorkerLossInv(c)'
    BY <2>1, <2>4, <2>6 DEF WorkerLossInv
  <2> QED BY <1>1, <1>6, <2>1, <2>3, <2>7, WorkerStep
<1>9. CASE PublishAgentTrigger(c)
  <2>1. /\ worker'[c].fresh = w.fresh /\ worker'[c].i = w.i /\ worker'[c].pc = "toPush"
        /\ \A d \in Convs : d # c => worker'[d] = worker[d]
    BY <1>9, GotoMoves DEF PublishAgentTrigger
  <2>2. agentTrigger' = Append(agentTrigger, e) /\ UNCHANGED <<toPostgres, toPush>> /\ w.pc = "agentTrigger"
    BY <1>9 DEF PublishAgentTrigger, At
  <2>3. Grow /\ k \in AgKeys'
    <3> HIDE DEF e, k, w
    <3>1. PublishedTo(agentTrigger', e.key) /\ \A q : PublishedTo(agentTrigger, q) => PublishedTo(agentTrigger', q)
      BY <1>2, <1>5, <2>2, AppendPublishes
    <3>2. Grow
      BY <2>2, <3>1, TopicsGrow
    <3> QED BY <1>2, <3>1, <3>2 DEF AgKeys
  <2>4. /\ \A j \in 1 .. Len(w.fresh) : KeyOf(c, j)' = KeyOf(c, j)
        /\ Covered(c)'
    BY <1>7, <2>1, <2>3
  <2>5. KeyOf(c, worker[c].i)' = k
    BY <1>3, <2>1, <2>4 DEF KeyOf
  <2>6. Produced(c)'
    BY <1>3, <1>4, <2>1, <2>2, <2>3, <2>4, <2>5 DEF Produced, Grow
  <2>7. WorkerLossInv(c)'
    BY <2>1, <2>4, <2>6 DEF WorkerLossInv
  <2> QED BY <1>1, <1>6, <2>1, <2>3, <2>7, WorkerStep
<1>10. CASE PublishToPush(c)
  <2>1. /\ worker'[c].fresh = w.fresh
        /\ \A d \in Convs : d # c => worker'[d] = worker[d]
        /\ \/ worker'[c].pc = "toPostgres" /\ worker'[c].i = w.i + 1
           \/ worker'[c].pc = "record" /\ worker'[c].i = 1 /\ w.i = Len(w.fresh)
    BY <1>1, <1>10, LoopMoves DEF PublishToPush
  <2> DEFINE p == [key |-> e.key, srv |-> e.srv, seq |-> e.seq, to |-> PushRecipients(e.key)]
  <2>2. /\ UNCHANGED <<toPostgres, agentTrigger>> /\ w.pc = "toPush"
        /\ \/ PushRecipients(k) = {} /\ toPush' = toPush
           \/ toPush' = Append(toPush, p)
    BY <1>2, <1>10 DEF PublishToPush, At
  <2>3. p \in PushEvents /\ p.key = k
    <3>1. PushRecipients(e.key) \in SUBSET Users
      BY <1>2, ConstantTypes DEF PushRecipients
    <3> HIDE DEF e, k
    <3>2. e.key \in ClientKeys /\ e.srv \in Nat /\ e.seq \in Nat
      BY <1>2 DEF Events
    <3> QED BY <1>2, <3>1, <3>2 DEF PushEvents
  <2>4. Grow /\ k \in OutKeys'
    <3> HIDE DEF e, k, w, p
    <3>1. /\ PushRecipients(k) # {} => PublishedTo(toPush', k)
          /\ \A q : PublishedTo(toPush, q) => PublishedTo(toPush', q)
      BY <1>5, <2>2, <2>3, AppendPublishes
    <3>2. Grow
      BY <2>2, <3>1, TopicsGrow
    <3>3. k \in PgKeys /\ k \in AgKeys
      BY <1>4, <2>2 DEF Produced, k, w
    <3> QED BY <1>2, <2>2, <3>1, <3>2, <3>3 DEF PgKeys, AgKeys, OutKeys, FullyPublished, PushRecipients
  <2>5. /\ \A j \in 1 .. Len(w.fresh) : KeyOf(c, j)' = KeyOf(c, j)
        /\ Covered(c)'
    BY <1>7, <2>1, <2>4
  <2>6. \A j \in 1 .. w.i : j \in 1 .. Len(w.fresh) /\ (j \in 1 .. w.i - 1 \/ j = w.i)
    <3> HIDE DEF w
    <3> QED BY <1>3
  <2>7. \A j \in 1 .. w.i : KeyOf(c, j)' \in OutKeys'
    <3>1. \A j \in 1 .. w.i - 1 : KeyOf(c, j) \in OutKeys
      BY <1>4, <2>2 DEF Produced
    <3> HIDE DEF w
    <3> QED BY <2>4, <2>5, <2>6, <3>1 DEF Grow, k
  <2>8. Produced(c)'
    <3>1. CASE worker'[c].pc = "toPostgres" /\ worker'[c].i = w.i + 1
      <4>1. worker'[c].i - 1 = w.i
        <5>1. w.i \in Nat
          BY <1>3
        <5> HIDE DEF w
        <5> QED BY <3>1, <5>1
      <4>2. \A j \in 1 .. worker'[c].i - 1 : KeyOf(c, j)' \in OutKeys'
        BY <2>7, <4>1
      <4> QED BY <3>1, <4>2 DEF Produced
    <3>2. CASE worker'[c].pc = "record" /\ w.i = Len(w.fresh)
      BY <2>1, <2>7, <3>2 DEF Produced
    <3> QED BY <2>1, <3>1, <3>2
  <2>9. WorkerLossInv(c)'
    BY <2>1, <2>5, <2>8 DEF WorkerLossInv, Active
  <2> QED BY <1>1, <1>6, <2>1, <2>4, <2>9, WorkerStep
<1> QED BY <1>8, <1>9, <1>10

(* The dedup record is written for a message that is out. *)
LEMMA DedupSetStep ==
    ASSUME TypeInv, LossInv, NEW c \in Convs, DedupSet(c) PROVE LossInv'
<1> DEFINE w == worker[c]
           k == KeyOf(c, w.i)
<1>1. /\ w.pc = "record" /\ w.pc \in Active /\ phase = "handle" /\ phase' = "handle"
      /\ UNCHANGED <<toTransfer, consumerVars>> /\ UNCHANGED topicVars
  BY DEF DedupSet, At, Active, consumerVars
<1>2. Grow /\ Kept(c) /\ Covered(c)
  BY <1>1, TopicsKept, ConsumerKept DEF LossInv, WorkerLossInv
<1>3. w.i \in 1 .. Len(w.fresh) /\ \A j \in 1 .. Len(w.fresh) : KeyOf(c, j) \in OutKeys
  BY <1>1, IndexRange DEF LossInv, WorkerLossInv, Produced
<1>4. /\ w.fresh = worker'[c].fresh
      /\ \A d \in Convs : d # c => worker'[d] = worker[d]
      /\ worker'[c].pc \in {"record", "done"}
  BY <1>1, LoopMoves DEF DedupSet
<1>5. DedupInv'
  <2>1. Accepted(c, w.i).key = k
    BY DEF Accepted, KeyOf
  <2>2. \A q \in ClientKeys : q # k => dedup'[q] = dedup[q]
    BY <2>1 DEF DedupSet, TypeInv, TypeOK
  <2>3. k \in OutKeys
    BY <1>3
  <2> HIDE DEF k
  <2> QED BY <1>2, <2>2, <2>3 DEF DedupInv, LossInv, Grow
<1>6. \A o \in EventsOf(c) : toTransfer[o] \in OutKeys
  BY <1>2, <1>3 DEF Covered
<1>7. Finished(c)' /\ Covered(c)'
  BY <1>2, <1>6 DEF Finished, Covered, Kept, Grow
<1>8. \A j \in 1 .. Len(w.fresh) : KeyOf(c, j)' \in OutKeys'
  BY <1>1, <1>2, <1>3, <1>4, FreshKept DEF Grow
<1>9. WorkerLossInv(c)'
  BY <1>1, <1>4, <1>7, <1>8 DEF WorkerLossInv, Produced, Active
<1> QED BY <1>1, <1>2, <1>4, <1>5, <1>9, WorkerStep

-----------------------------------------------------------------------------
(* The poll loop. *)

(* A worker of a new batch has no messages, or is about to look for them. *)
LEMMA StartKeeps ==
    ASSUME NEW c \in Convs, worker' = StartWorkers(Batch'), UNCHANGED toTransfer, phase' = "handle"
    PROVE  WorkerLossInv(c)'
<1>1. /\ worker'[c].pc \in {"dedup", "done"}
      /\ worker'[c].pc = "done" => \A o \in Batch' : ~(toTransfer[o] # Malformed /\ ConvOf[toTransfer[o]] = c)
  BY DEF StartWorkers, StartedWorker, DoneWorker, IdleWorker
<1>2. worker'[c].pc = "done" => EventsOf(c)' = {}
  BY <1>1 DEF EventsOf
<1> QED BY <1>1, <1>2 DEF WorkerLossInv, Finished, Active

LEMMA QuietWorkers ==
    ASSUME NEW c \in Convs, worker' = Quiet PROVE WorkerLossInv(c)'
<1>1. worker'[c].pc = "idle"
  BY DEF Quiet, IdleWorker
<1> QED BY <1>1 DEF WorkerLossInv, Active

(* All workers are done, so every message of the batch is out. *)
LEMMA CommitStep ==
    ASSUME TypeInv, LossInv, CommitRecords PROVE LossInv'
<1>1. /\ phase = "commit" /\ committed' = polled /\ phase' = "poll" /\ worker' = Quiet
      /\ UNCHANGED <<toTransfer, topicVars>> /\ UNCHANGED dedup
  BY DEF CommitRecords, redisVars
<1>2. Grow
  BY <1>1, TopicsKept
<1>3. DedupInv'
  BY <1>1, <1>2 DEF DedupInv, LossInv, Grow
<1>4. ASSUME NEW o \in 1 .. polled, toTransfer[o] # Malformed PROVE toTransfer[o] \in OutKeys
  <2>1. committed \in Nat /\ polled \in Nat /\ polled <= Len(toTransfer) /\ Len(toTransfer) \in Nat
    BY DEF TypeInv, TypeOK
  <2>2. CASE o <= committed
    BY <1>4, <2>1, <2>2 DEF LossInv, AckedOut
  <2>3. CASE o > committed
    <3>1. o \in Batch /\ o \in 1 .. Len(toTransfer)
      BY <2>1, <2>3 DEF Batch
    <3>2. toTransfer[o] \in ClientKeys
      BY <1>4, <3>1 DEF TypeInv, TypeOK, Records
    <3>3. ConvOf[toTransfer[o]] \in Convs /\ o \in EventsOf(ConvOf[toTransfer[o]])
      BY <1>4, <3>1, <3>2, ConstantTypes DEF EventsOf
    <3> QED BY <1>1, <3>3 DEF LossInv, WorkerLossInv, Finished
  <2> QED BY <2>1, <2>2, <2>3
<1>5. AckedOut'
  BY <1>1, <1>2, <1>4 DEF AckedOut, Grow
<1> QED BY <1>1, <1>3, <1>5, QuietWorkers DEF LossInv

LEMMA LoopStep ==
    ASSUME TypeInv, LossInv, RunLoop \/ Crash PROVE LossInv'
<1>1. UNCHANGED <<toTransfer, topicVars>> /\ UNCHANGED dedup /\ Grow
  BY TopicsKept DEF RunLoop, Poll, HandlerError, HandlerOK, CommitRecords, Crash, redisVars
<1>2. DedupInv'
  BY <1>1 DEF DedupInv, LossInv, Grow
<1>3. UNCHANGED committed => AckedOut'
  BY <1>1 DEF LossInv, AckedOut, Grow
<1>4. CASE Poll
  <2>1. PICK hi \in committed + 1 .. Len(toTransfer) : polled' = hi /\ worker' = StartWorkers(committed + 1 .. hi)
    BY <1>4 DEF Poll
  <2>2. UNCHANGED committed /\ phase' = "handle"
    BY <1>4 DEF Poll
  <2>3. worker' = StartWorkers(Batch')
    BY <2>1, <2>2 DEF Batch
  <2> QED BY <1>1, <1>2, <1>3, <2>2, <2>3, StartKeeps DEF LossInv
<1>5. CASE HandlerError
  <2>1. phase' = "handle" /\ UNCHANGED committed /\ Batch' = Batch /\ worker' = StartWorkers(Batch)
    BY <1>5 DEF HandlerError, consumerVars, Batch
  <2> QED BY <1>1, <1>2, <1>3, <2>1, StartKeeps DEF LossInv
<1>6. CASE HandlerOK
  <2>1. /\ phase = "handle" /\ phase' = "commit" /\ UNCHANGED <<committed, polled, worker>>
        /\ \A c \in Convs : worker[c].pc = "done"
    BY <1>6 DEF HandlerOK, Returned, AnyFailed
  <2>2. \A c \in Convs : Kept(c)
    BY <1>1, <2>1 DEF Kept, EventsOf, Batch
  <2>3. \A c \in Convs : WorkerLossInv(c)'
    BY <1>1, <2>1, <2>2, IdleElsewhere DEF LossInv
  <2> QED BY <1>2, <1>3, <2>1, <2>3 DEF LossInv
<1>7. CASE CommitRecords
  BY <1>7, CommitStep
<1>8. CASE Crash
  <2>1. phase' = "poll" /\ worker' = Quiet /\ UNCHANGED committed
    BY <1>8 DEF Crash
  <2> QED BY <1>2, <1>3, <2>1, QuietWorkers DEF LossInv
<1> QED BY <1>4, <1>5, <1>6, <1>7, <1>8 DEF RunLoop

(* A step that moves no worker and forgets, at most, dedup records. *)
LEMMA OutsideStep ==
    ASSUME TypeInv, LossInv, UNCHANGED <<consumerVars, worker, topicVars>>,
           \/ UNCHANGED toTransfer
           \/ \E r \in Records : toTransfer' = Append(toTransfer, r),
           \A k \in ClientKeys : dedup'[k] \in {dedup[k], NoRecord}
    PROVE  LossInv'
<1>1. Grow
  BY TopicsKept
<1>2. DedupInv'
  BY <1>1 DEF DedupInv, LossInv, Grow
<1>3. UNCHANGED <<committed, polled, phase, worker>>
  BY DEF consumerVars
<1>4. \A c \in Convs : Kept(c)
  BY <1>3, SameEvents DEF Kept, EventsOf
<1>5. \A c \in Convs : WorkerLossInv(c)'
  BY <1>1, <1>3, <1>4, IdleElsewhere DEF LossInv
<1>6. \A o \in 1 .. committed : toTransfer'[o] = toTransfer[o]
  <2>1. \A o \in 1 .. committed : o \in 1 .. Len(toTransfer)
    BY DEF TypeInv, TypeOK
  <2>2. toTransfer \in Seq(Records)
    BY DEF TypeInv, TypeOK
  <2>3. ASSUME NEW r \in Records, toTransfer' = Append(toTransfer, r), NEW o \in 1 .. Len(toTransfer)
        PROVE  toTransfer'[o] = toTransfer[o]
    BY <2>2, <2>3
  <2> QED BY <2>1, <2>3
<1>7. AckedOut'
  BY <1>1, <1>3, <1>6 DEF AckedOut, LossInv, Grow
<1> QED BY <1>2, <1>3, <1>5, <1>7 DEF LossInv

-----------------------------------------------------------------------------
LEMMA LossInit == Init => LossInv
<1> SUFFICES ASSUME Init PROVE LossInv
  OBVIOUS
<1>1. committed = 0 /\ phase = "poll" /\ \A k \in ClientKeys : dedup[k] = NoRecord
  BY DEF Init
<1>2. \A c \in Convs : worker[c].pc = "idle"
  BY DEF Init, Quiet, IdleWorker
<1> QED BY <1>1, <1>2 DEF LossInv, AckedOut, DedupInv, WorkerLossInv, Active

LEMMA LossStep == TypeInv /\ LossInv /\ [LossyNext]_vars => LossInv'
<1> SUFFICES ASSUME TypeInv, LossInv, [LossyNext]_vars PROVE LossInv'
  OBVIOUS
<1>1. ASSUME NEW k \in ClientKeys, SendMessage(k) PROVE LossInv'
  BY <1>1, OutsideStep DEF SendMessage, Records, redisVars
<1>2. ASSUME ForeignRecord PROVE LossInv'
  BY <1>2, OutsideStep DEF ForeignRecord, Records, redisVars
<1>3. ASSUME RunLoop \/ Crash PROVE LossInv'
  BY <1>3, LoopStep
<1>4. ASSUME NEW c \in Convs, HandleConversation(c) PROVE LossInv'
  <2>1. CASE DedupGet(c)
    BY <2>1, DedupGetStep
  <2>2. CASE MallocExists(c)
    <3>1. /\ worker[c].pc \in Active /\ phase = "handle"
          /\ UNCHANGED <<toTransfer, consumerVars, topicVars, dedup>>
      BY <2>2 DEF MallocExists, At, Active, redisVars
    <3>2. PICK pc \in {"query", "incr"} : Goto(c, pc)
      BY <2>2 DEF MallocExists
    <3> QED BY <3>1, <3>2, GotoMoves, QuietStep
  <2>3. CASE MallocQuery(c)
    <3>1. /\ worker[c].pc \in Active /\ phase = "handle"
          /\ UNCHANGED <<toTransfer, consumerVars, topicVars, dedup>>
      BY <2>3 DEF MallocQuery, At, Active, redisVars
    <3>2. worker \in [Convs -> Workers]
      BY DEF TypeInv, TypeOK
    <3>3. /\ worker'[c].fresh = worker[c].fresh /\ worker'[c].pc = "setnx"
          /\ \A d \in Convs : d # c => worker'[d] = worker[d]
      BY <2>3, <3>2 DEF MallocQuery, Workers
    <3> QED BY <3>1, <3>3, QuietStep
  <2>4. CASE MallocSetNX(c)
    <3>1. /\ worker[c].pc \in Active /\ phase = "handle" /\ Goto(c, "incr")
          /\ UNCHANGED <<toTransfer, consumerVars, topicVars, dedup>>
      BY <2>4 DEF MallocSetNX, At, Active
    <3> QED BY <3>1, GotoMoves, QuietStep
  <2>5. CASE MallocIncr(c)
    <3>1. /\ worker[c].pc \in Active /\ phase = "handle"
          /\ UNCHANGED <<toTransfer, consumerVars, topicVars, dedup>>
      BY <2>5 DEF MallocIncr, At, Active
    <3>2. worker \in [Convs -> Workers]
      BY DEF TypeInv, TypeOK
    <3>3. /\ worker'[c].fresh = worker[c].fresh /\ worker'[c].pc = "cache"
          /\ \A d \in Convs : d # c => worker'[d] = worker[d]
      BY <2>5, <3>2 DEF MallocIncr, Workers
    <3> QED BY <3>1, <3>3, QuietStep
  <2>6. CASE CacheMessage(c)
    <3>1. /\ worker[c].pc \in Active /\ phase = "handle" /\ LoopOr(c, "cache", "hasread")
          /\ UNCHANGED <<toTransfer, consumerVars, topicVars, dedup>>
      BY <2>6 DEF CacheMessage, At, Active
    <3> QED BY <3>1, LoopMoves, QuietStep
  <2>7. CASE SetHasRead(c)
    <3>1. /\ worker[c].pc \in Active /\ phase = "handle" /\ LoopOr(c, "hasread", "toPostgres")
          /\ UNCHANGED <<toTransfer, consumerVars, topicVars, dedup>>
      BY <2>7 DEF SetHasRead, At, Active
    <3> QED BY <3>1, LoopMoves, QuietStep
  <2>8. CASE PublishToPostgres(c) \/ PublishAgentTrigger(c) \/ PublishToPush(c)
    BY <2>8, ProduceStep
  <2>9. CASE DedupSet(c)
    BY <2>9, DedupSetStep
  <2> QED
    BY <1>4, <2>1, <2>2, <2>3, <2>4, <2>5, <2>6, <2>7, <2>8, <2>9 DEF HandleConversation, Malloc
<1>5. ASSUME NEW c \in Convs, Fail(c) PROVE LossInv'
  <2>1. /\ phase = "handle" /\ Goto(c, "fail")
        /\ UNCHANGED <<toTransfer, consumerVars, topicVars>> /\ UNCHANGED dedup
    BY <1>5 DEF Fail, redisVars
  <2>2. worker'[c].pc = "fail" /\ \A d \in Convs : d # c => worker'[d] = worker[d]
    BY <2>1, GotoMoves
  <2>3. Grow
    BY <2>1, TopicsKept
  <2>4. DedupInv'
    BY <2>1, <2>3 DEF DedupInv, LossInv, Grow
  <2>5. WorkerLossInv(c)'
    BY <2>2 DEF WorkerLossInv, Active
  <2> QED BY <2>1, <2>2, <2>3, <2>4, <2>5, WorkerStep
<1>6. ASSUME NEW c \in Convs, Archive(c) PROVE LossInv'
  BY <1>6, OutsideStep DEF Archive, redisVars
<1>7. ASSUME LoseRedis PROVE LossInv'
  BY <1>7, OutsideStep DEF LoseRedis
<1>8. ASSUME NEW k \in ClientKeys, ExpireDedup(k) PROVE LossInv'
  <2>1. \A q \in ClientKeys : dedup'[q] \in {dedup[q], NoRecord}
    BY <1>8 DEF ExpireDedup, TypeInv, TypeOK
  <2> QED BY <1>8, <2>1, OutsideStep DEF ExpireDedup
<1>9. CASE UNCHANGED vars
  BY <1>9, OutsideStep DEF vars, redisVars
<1> QED
  BY <1>1, <1>2, <1>3, <1>4, <1>5, <1>6, <1>7, <1>8, <1>9 DEF LossyNext, Next

LEMMA LossImplies == TypeInv /\ LossInv => NoAcceptedLoss
  BY DEF LossInv, AckedOut, NoAcceptedLoss, OutKeys

(* No acknowledged message is lost, even if Redis forgets the counters, the  *)
(* dedup records and the cache between any two calls: an offset is committed *)
(* only when each of its messages is on every topic it goes to.              *)
THEOREM NoLossLossy == LossySpec => []NoAcceptedLoss
<1>1. Init => TypeInv /\ LossInv
  BY TypeInit, LossInit
<1>2. TypeInv /\ LossInv /\ [LossyNext]_vars => (TypeInv /\ LossInv)'
  BY LossyTypeStep, LossStep
<1>3. LossySpec => []LossInv /\ []TypeInv
  BY <1>1, <1>2, PTL DEF LossySpec, LossyNext
<1> QED BY <1>3, LossImplies, PTL

(* In particular when Redis keeps its data (KafkaConsumer.Run commits after  *)
(* HandleBatch, handleConversation records last).                            *)
THEOREM NoLoss == Spec => []NoAcceptedLoss
<1>1. Init => TypeInv /\ LossInv
  BY TypeInit, LossInit
<1>2. TypeInv /\ LossInv /\ [Next]_vars => (TypeInv /\ LossInv)'
  BY LossyTypeStep, LossStep DEF LossyNext
<1>3. Spec => []LossInv /\ []TypeInv
  BY <1>1, <1>2, PTL DEF Spec
<1> QED BY <1>3, LossImplies, PTL

-----------------------------------------------------------------------------
(* The order of the produce loop, and what a dedup record stands for. *)

On(log, e) == \E n \in 1 .. Len(log) : log[n] = e

(* What the worker of c has written to the logs: the event it is at goes to *)
(* toPostgres, then to agentTrigger, then to toPush.                        *)
Written(c) ==
    /\ worker[c].pc \in {"toPostgres", "agentTrigger", "toPush"} =>
          \A j \in 1 .. worker[c].i - 1 : On(toPostgres, Accepted(c, j))
    /\ worker[c].pc \in {"agentTrigger", "toPush"} => On(toPostgres, Accepted(c, worker[c].i))
    /\ worker[c].pc = "toPush" => On(agentTrigger, Accepted(c, worker[c].i))
    /\ worker[c].pc = "record" => \A j \in 1 .. Len(worker[c].fresh) : On(toPostgres, Accepted(c, j))

(* Until it records its messages, none of them has a record. *)
Unrecorded(c) ==
    worker[c].pc \in Active \ {"record"} => \A j \in 1 .. Len(worker[c].fresh) : dedup[KeyOf(c, j)] = NoRecord

RecordsResolve ==
    \A k \in ClientKeys : dedup[k] # NoRecord =>
        On(toPostgres, [key |-> k, srv |-> dedup[k].srv, seq |-> dedup[k].seq])

OrderInv == FanoutIsArchived /\ RecordsResolve /\ \A c \in Convs : Written(c) /\ Unrecorded(c)

LogsGrow ==
    /\ \A e : On(toPostgres, e) => On(toPostgres, e)'
    /\ \A e : On(agentTrigger, e) => On(agentTrigger, e)'

LEMMA AppendOn ==
    ASSUME NEW S, NEW s \in Seq(S), NEW e \in S
    PROVE  /\ On(Append(s, e), e) /\ \A x : On(s, x) => On(Append(s, e), x)
           /\ \A x : On(Append(s, e), x) => On(s, x) \/ x = e
<1>1. /\ Len(Append(s, e)) = Len(s) + 1 /\ Len(s) \in Nat
      /\ Append(s, e)[Len(s) + 1] = e
      /\ \A n \in 1 .. Len(s) : Append(s, e)[n] = s[n]
  OBVIOUS
<1> QED
  BY <1>1 DEF On

(* The events of a batch stay what they are. *)
LEMMA AcceptedKept ==
    ASSUME TypeInv, NEW c \in Convs, Kept(c), worker[c].pc \in Active,
           worker'[c].fresh = worker[c].fresh, worker'[c].first = worker[c].first
    PROVE  \A j \in 1 .. Len(worker[c].fresh) : Accepted(c, j)' = Accepted(c, j) /\ KeyOf(c, j)' = KeyOf(c, j)
<1>1. \A j \in 1 .. Len(worker[c].fresh) : worker[c].fresh[j] \in EventsOf(c)
  BY DEF TypeInv, WorkerInv
<1>2. \A j \in 1 .. Len(worker[c].fresh) : toTransfer'[worker[c].fresh[j]] = toTransfer[worker[c].fresh[j]]
  BY <1>1 DEF Kept
<1> QED
  BY <1>2 DEF Accepted, KeyOf

(* The keys of a worker are keys of its conversation. *)
LEMMA OwnKeys ==
    ASSUME TypeInv, NEW c \in Convs, worker[c].pc \in Active, NEW j \in 1 .. Len(worker[c].fresh)
    PROVE  KeyOf(c, j) \in ClientKeys /\ ConvOf[KeyOf(c, j)] = c
<1>1. worker[c].fresh[j] \in EventsOf(c)
  BY DEF TypeInv, WorkerInv
<1> QED
  BY <1>1, EventKeys DEF KeyOf, EventsOf

(* A worker that does not move keeps its part of the invariant. *)
LEMMA OrderElsewhere ==
    ASSUME TypeInv, NEW d \in Convs, Written(d), Unrecorded(d), Kept(d), LogsGrow, worker'[d] = worker[d],
           \A k \in ClientKeys : ConvOf[k] = d => dedup'[k] \in {dedup[k], NoRecord}
    PROVE  Written(d)' /\ Unrecorded(d)'
<1>1. CASE worker[d].pc \in Active
  <2>1. \A j \in 1 .. Len(worker[d].fresh) : Accepted(d, j)' = Accepted(d, j) /\ KeyOf(d, j)' = KeyOf(d, j)
    BY <1>1, AcceptedKept
  <2>2. /\ worker[d].i \in 1 .. Len(worker[d].fresh)
        /\ \A j \in 1 .. worker[d].i - 1 : j \in 1 .. Len(worker[d].fresh)
    BY <1>1, IndexRange
  <2>3. Accepted(d, worker[d].i)' = Accepted(d, worker[d].i)
    BY <2>1, <2>2 DEF Accepted
  <2>4. Written(d)'
    BY <2>1, <2>2, <2>3 DEF Written, LogsGrow
  <2>5. \A j \in 1 .. Len(worker[d].fresh) : dedup'[KeyOf(d, j)] \in {dedup[KeyOf(d, j)], NoRecord}
    BY <1>1, OwnKeys
  <2>6. Unrecorded(d)'
    BY <2>1, <2>5 DEF Unrecorded
  <2> QED
    BY <2>4, <2>6
<1>2. CASE worker[d].pc \notin Active
  BY <1>2 DEF Written, Unrecorded, Active
<1> QED
  BY <1>1, <1>2

(* A step of worker c: the rest is about that worker and the logs. *)
LEMMA OrderWorkerStep ==
    ASSUME TypeInv, OrderInv, NEW c \in Convs, UNCHANGED <<toTransfer, consumerVars>>, LogsGrow,
           \A d \in Convs : d # c => worker'[d] = worker[d],
           \A k \in ClientKeys : ConvOf[k] # c => dedup'[k] = dedup[k],
           FanoutIsArchived', RecordsResolve', Written(c)', Unrecorded(c)'
    PROVE  OrderInv'
<1>1. ASSUME NEW d \in Convs, d # c
      PROVE  Written(d)' /\ Unrecorded(d)'
  BY <1>1, ConsumerKept, OrderElsewhere DEF OrderInv
<1> QED
  BY <1>1 DEF OrderInv

(* A step that leaves the topics and the dedup records alone. *)
LEMMA SameTopics ==
    ASSUME OrderInv, UNCHANGED <<toPostgres, agentTrigger, toPush, dedup>>
    PROVE  LogsGrow /\ FanoutIsArchived' /\ RecordsResolve'
BY DEF OrderInv, LogsGrow, FanoutIsArchived, RecordsResolve, On

(* A call before the produce loop. *)
LEMMA OrderQuietStep ==
    ASSUME TypeInv, OrderInv, NEW c \in Convs, worker[c].pc \in Active \ {"record"}, worker'[c].fresh = worker[c].fresh,
           \/ worker'[c].pc \in {"exists", "query", "setnx", "incr", "cache", "hasread"}
           \/ worker'[c].pc = "toPostgres" /\ worker'[c].i = 1,
           UNCHANGED <<toTransfer, consumerVars, topicVars, dedup>>,
           \A d \in Convs : d # c => worker'[d] = worker[d]
    PROVE  OrderInv'
<1>1. UNCHANGED <<toPostgres, agentTrigger, toPush>>
  BY DEF topicVars
<1>2. LogsGrow /\ FanoutIsArchived' /\ RecordsResolve'
  BY <1>1, SameTopics
<1>3. Written(c)'
  BY DEF Written
<1>4. \A j \in 1 .. Len(worker[c].fresh) : KeyOf(c, j)' = KeyOf(c, j)
  BY DEF KeyOf
<1>5. Unrecorded(c)'
  BY <1>4 DEF OrderInv, Unrecorded
<1> QED
  BY <1>2, <1>3, <1>5, OrderWorkerStep

(* A worker that goes where it holds no messages, or has none yet. *)
LEMMA OrderLeaveStep ==
    ASSUME TypeInv, OrderInv, NEW c \in Convs, worker'[c].pc \notin Active,
           UNCHANGED <<toTransfer, consumerVars, topicVars, dedup>>,
           \A d \in Convs : d # c => worker'[d] = worker[d]
    PROVE  OrderInv'
<1>1. UNCHANGED <<toPostgres, agentTrigger, toPush>>
  BY DEF topicVars
<1>2. LogsGrow /\ FanoutIsArchived' /\ RecordsResolve'
  BY <1>1, SameTopics
<1>3. Written(c)' /\ Unrecorded(c)'
  BY DEF Written, Unrecorded, Active
<1> QED
  BY <1>2, <1>3, OrderWorkerStep

(* The dedup loop takes what has no record. *)
LEMMA OrderDedupGet ==
    ASSUME TypeInv, OrderInv, NEW c \in Convs, DedupGet(c)
    PROVE  OrderInv'
<1>1. PICK f \in InOrder(FreshOffsets(c), polled - committed) :
        worker' = [worker EXCEPT ![c].fresh = f, ![c].i = 1,
                                 ![c].pc = IF f = <<>> THEN "done" ELSE "exists"]
  BY DEF DedupGet
<1>2. worker \in [Convs -> Workers] /\ UNCHANGED <<toTransfer, consumerVars, topicVars>> /\ UNCHANGED dedup
  BY DEF DedupGet, TypeInv, TypeOK, redisVars
<1>3. /\ \A d \in Convs : d # c => worker'[d] = worker[d]
      /\ worker'[c].fresh = f /\ worker'[c].pc = IF f = <<>> THEN "done" ELSE "exists"
  BY <1>1, <1>2 DEF Workers
<1>4. CASE f = <<>>
  BY <1>2, <1>3, <1>4, OrderLeaveStep DEF Active
<1>5. CASE f # <<>>
  <2>1. UNCHANGED <<toPostgres, agentTrigger, toPush>>
    BY <1>2 DEF topicVars
  <2>2. LogsGrow /\ FanoutIsArchived' /\ RecordsResolve'
    BY <1>2, <2>1, SameTopics
  <2>3. Written(c)'
    BY <1>3, <1>5 DEF Written
  <2>4. PICK n \in 0 .. polled - committed : f \in [1 .. n -> FreshOffsets(c)]
    BY <1>1 DEF InOrder
  <2>5. Len(f) = n
    <3>1. n \in Nat
      BY <2>4 DEF TypeInv, TypeOK
    <3> QED
      BY <2>4, <3>1
  <2>6. \A j \in 1 .. Len(f) : f[j] \in FreshOffsets(c)
    BY <2>4, <2>5
  <2>7. \A j \in 1 .. Len(f) : dedup[toTransfer[f[j]]] = NoRecord
    BY <2>6 DEF FreshOffsets
  <2>8. Unrecorded(c)'
    BY <1>2, <1>3, <2>7 DEF Unrecorded, KeyOf
  <2> QED
    BY <1>2, <1>3, <2>2, <2>3, <2>8, OrderWorkerStep
<1> QED
  BY <1>4, <1>5

(* The moves of a worker keep the number its first message has. *)
LEMMA FirstKept ==
    ASSUME TypeInv, NEW c \in Convs, worker[c].pc \in Active,
           (\E pc : Goto(c, pc)) \/ (\E again, next : LoopOr(c, again, next))
    PROVE  worker'[c].first = worker[c].first
<1>1. worker \in [Convs -> Workers]
  BY DEF TypeInv, TypeOK
<1> QED
  BY <1>1 DEF Goto, LoopOr, Workers

(* The produce loop: toPostgres, agentTrigger, toPush, next message. *)
LEMMA OrderProduce ==
    ASSUME TypeInv, OrderInv, NEW c \in Convs,
           PublishToPostgres(c) \/ PublishAgentTrigger(c) \/ PublishToPush(c)
    PROVE  OrderInv'
<1>1. /\ worker[c].pc \in Active \ {"record"} /\ UNCHANGED <<toTransfer, consumerVars>> /\ UNCHANGED dedup
      /\ worker[c].pc \in Active
  BY DEF PublishToPostgres, PublishAgentTrigger, PublishToPush, At, Active, redisVars
<1>2. PICK e : e = Accepted(c, worker[c].i)
  OBVIOUS
<1>3. /\ e \in Events /\ toPostgres \in Seq(Events) /\ agentTrigger \in Seq(Events) /\ toPush \in Seq(PushEvents)
  BY <1>1, <1>2, AcceptedEvent DEF TypeInv, TypeOK
<1>4. /\ worker[c].i \in 1 .. Len(worker[c].fresh) /\ Len(worker[c].fresh) \in Nat
      /\ \A j \in 1 .. worker[c].i - 1 : j \in 1 .. Len(worker[c].fresh)
  BY <1>1, IndexRange
<1>5. FanoutIsArchived /\ RecordsResolve /\ Written(c) /\ Unrecorded(c)
  BY DEF OrderInv
<1>6. Kept(c)
  BY <1>1, ConsumerKept
<1>7. CASE PublishToPostgres(c)
  <2>1. /\ worker[c].pc = "toPostgres" /\ toPostgres' = Append(toPostgres, e) /\ Goto(c, "agentTrigger")
        /\ UNCHANGED <<agentTrigger, toPush>>
    BY <1>2, <1>7 DEF PublishToPostgres, At
  <2>2. /\ worker'[c].fresh = worker[c].fresh /\ worker'[c].i = worker[c].i /\ worker'[c].pc = "agentTrigger"
        /\ \A d \in Convs : d # c => worker'[d] = worker[d]
    BY <2>1, GotoMoves
  <2>3. worker'[c].first = worker[c].first
    BY <1>1, <2>1, FirstKept
  <2>4. \A j \in 1 .. Len(worker[c].fresh) : Accepted(c, j)' = Accepted(c, j) /\ KeyOf(c, j)' = KeyOf(c, j)
    BY <1>1, <1>6, <2>2, <2>3, AcceptedKept
  <2>5. On(toPostgres', e) /\ (\A x : On(toPostgres, x) => On(toPostgres', x))
    BY <1>3, <2>1, AppendOn
  <2>6. LogsGrow
    BY <2>1, <2>5 DEF LogsGrow, On
  <2>7. FanoutIsArchived' /\ RecordsResolve'
    <3>1. \A n \in 1 .. Len(agentTrigger) : On(toPostgres', agentTrigger[n])
      BY <1>5, <2>5 DEF FanoutIsArchived, On
    <3> QED
      BY <1>1, <1>5, <2>1, <2>5, <3>1 DEF FanoutIsArchived, RecordsResolve, On
  <2>8. Written(c)'
    <3>1. \A j \in 1 .. worker[c].i - 1 : On(toPostgres', Accepted(c, j)')
      BY <1>4, <1>5, <2>1, <2>4, <2>5 DEF Written
    <3>2. Accepted(c, worker[c].i)' = e
      BY <1>2, <1>4, <2>2, <2>4 DEF Accepted
    <3> QED
      BY <2>2, <2>5, <3>1, <3>2 DEF Written, On
  <2>9. Unrecorded(c)'
    BY <1>1, <1>5, <2>2, <2>4 DEF Unrecorded
  <2> QED
    BY <1>1, <2>2, <2>6, <2>7, <2>8, <2>9, OrderWorkerStep
<1>8. CASE PublishAgentTrigger(c)
  <2>1. /\ worker[c].pc = "agentTrigger" /\ agentTrigger' = Append(agentTrigger, e) /\ Goto(c, "toPush")
        /\ UNCHANGED <<toPostgres, toPush>>
    BY <1>2, <1>8 DEF PublishAgentTrigger, At
  <2>2. /\ worker'[c].fresh = worker[c].fresh /\ worker'[c].i = worker[c].i /\ worker'[c].pc = "toPush"
        /\ \A d \in Convs : d # c => worker'[d] = worker[d]
    BY <2>1, GotoMoves
  <2>3. worker'[c].first = worker[c].first
    BY <1>1, <2>1, FirstKept
  <2>4. \A j \in 1 .. Len(worker[c].fresh) : Accepted(c, j)' = Accepted(c, j) /\ KeyOf(c, j)' = KeyOf(c, j)
    BY <1>1, <1>6, <2>2, <2>3, AcceptedKept
  <2>5. /\ On(agentTrigger', e) /\ (\A x : On(agentTrigger, x) => On(agentTrigger', x))
        /\ \A x : On(agentTrigger', x) => On(agentTrigger, x) \/ x = e
    BY <1>3, <2>1, AppendOn
  <2>6. LogsGrow
    BY <2>1, <2>5 DEF LogsGrow, On
  <2>7. On(toPostgres, e)
    BY <1>2, <1>5, <2>1 DEF Written
  <2>8. FanoutIsArchived'
    <3>1. \A x : On(agentTrigger, x) => On(toPostgres, x)
      BY <1>5 DEF FanoutIsArchived, On
    <3>2. \A x : On(agentTrigger', x) => On(toPostgres, x)
      BY <2>5, <2>7, <3>1
    <3>3. \A n \in 1 .. Len(agentTrigger') : On(toPostgres, agentTrigger'[n])
      BY <3>2 DEF On
    <3>4. \A n \in 1 .. Len(toPush) :
             On(agentTrigger', [key |-> toPush[n].key, srv |-> toPush[n].srv, seq |-> toPush[n].seq])
      BY <1>5, <2>5 DEF FanoutIsArchived, On
    <3> QED
      BY <2>1, <3>3, <3>4 DEF FanoutIsArchived, On
  <2>9. RecordsResolve'
    BY <1>1, <1>5, <2>1 DEF RecordsResolve, On
  <2>10. Written(c)'
    <3>1. \A j \in 1 .. worker[c].i - 1 : On(toPostgres, Accepted(c, j)')
      BY <1>4, <1>5, <2>1, <2>4 DEF Written
    <3>2. Accepted(c, worker[c].i)' = e
      BY <1>2, <1>4, <2>2, <2>4 DEF Accepted
    <3> QED
      BY <2>1, <2>2, <2>5, <2>7, <3>1, <3>2 DEF Written, On
  <2>11. Unrecorded(c)'
    BY <1>1, <1>5, <2>2, <2>4 DEF Unrecorded
  <2> QED
    BY <1>1, <2>2, <2>6, <2>8, <2>9, <2>10, <2>11, OrderWorkerStep
<1>9. CASE PublishToPush(c)
  <2>1. /\ worker[c].pc = "toPush" /\ LoopOr(c, "toPostgres", "record") /\ UNCHANGED <<toPostgres, agentTrigger>>
        /\ \/ toPush' = toPush
           \/ toPush' = Append(toPush, [key |-> e.key, srv |-> e.srv, seq |-> e.seq, to |-> PushRecipients(e.key)])
    BY <1>2, <1>9 DEF PublishToPush, At
  <2>2. /\ worker'[c].fresh = worker[c].fresh /\ \A d \in Convs : d # c => worker'[d] = worker[d]
        /\ \/ worker'[c].pc = "toPostgres" /\ worker'[c].i = worker[c].i + 1
           \/ worker'[c].pc = "record" /\ worker'[c].i = 1 /\ worker[c].i = Len(worker[c].fresh)
    BY <1>1, <2>1, LoopMoves
  <2>3. worker'[c].first = worker[c].first
    BY <1>1, <2>1, FirstKept
  <2>4. \A j \in 1 .. Len(worker[c].fresh) : Accepted(c, j)' = Accepted(c, j) /\ KeyOf(c, j)' = KeyOf(c, j)
    BY <1>1, <1>6, <2>2, <2>3, AcceptedKept
  <2>5. LogsGrow
    BY <2>1 DEF LogsGrow, On
  <2>6. On(toPostgres, e) /\ On(agentTrigger, e)
    BY <1>2, <1>5, <2>1 DEF Written
  <2>7. FanoutIsArchived'
    <3> DEFINE Bare(p) == [key |-> p.key, srv |-> p.srv, seq |-> p.seq]
    <3>1. \A n \in 1 .. Len(toPush) : On(agentTrigger, Bare(toPush[n]))
      BY <1>5 DEF FanoutIsArchived, On
    <3>2. \A n \in 1 .. Len(toPush') : On(agentTrigger, Bare(toPush'[n]))
      <4>1. PICK p : p = [key |-> e.key, srv |-> e.srv, seq |-> e.seq, to |-> PushRecipients(e.key)]
        OBVIOUS
      <4>2. Bare(p) = e
        BY <1>3, <4>1 DEF Events
      <4>3. p \in PushEvents
        BY <1>3, <4>1, ConstantTypes DEF Events, PushEvents, PushRecipients
      <4>4. ASSUME toPush' = Append(toPush, p), NEW n \in 1 .. Len(toPush')
            PROVE  On(agentTrigger, Bare(toPush'[n]))
        <5>1. \/ n \in 1 .. Len(toPush) /\ toPush'[n] = toPush[n]
              \/ toPush'[n] = p
          BY <1>3, <4>3, <4>4
        <5> HIDE DEF Bare
        <5> QED
          BY <2>6, <3>1, <4>2, <5>1
      <4> HIDE DEF Bare
      <4> QED
        BY <2>1, <3>1, <4>1, <4>4
    <3> QED
      BY <1>5, <2>1, <3>2 DEF FanoutIsArchived, On
  <2>8. RecordsResolve'
    BY <1>1, <1>5, <2>1 DEF RecordsResolve, On
  <2>9. Written(c)'
    <3>1. \A j \in 1 .. worker[c].i : On(toPostgres, Accepted(c, j)')
      <4>1. \A j \in 1 .. worker[c].i : j \in 1 .. worker[c].i - 1 \/ j = worker[c].i
        BY <1>4
      <4> QED
        BY <1>2, <1>4, <1>5, <2>1, <2>4, <2>6, <4>1 DEF Written
    <3>2. CASE worker'[c].pc = "toPostgres" /\ worker'[c].i = worker[c].i + 1
      <4>1. 1 .. worker'[c].i - 1 = 1 .. worker[c].i
        BY <1>4, <3>2
      <4> QED
        BY <2>1, <3>1, <3>2, <4>1 DEF Written, On
    <3>3. CASE worker'[c].pc = "record" /\ worker'[c].i = 1 /\ worker[c].i = Len(worker[c].fresh)
      BY <2>1, <2>2, <3>1, <3>3 DEF Written, On
    <3> QED
      BY <2>2, <3>2, <3>3
  <2>10. Unrecorded(c)'
    BY <1>1, <1>5, <2>2, <2>4 DEF Unrecorded
  <2> QED
    BY <1>1, <2>2, <2>5, <2>7, <2>8, <2>9, <2>10, OrderWorkerStep
<1> QED
  BY <1>7, <1>8, <1>9

(* The record of a message resolves to the event toPostgres carries. *)
LEMMA OrderDedupSet ==
    ASSUME TypeInv, OrderInv, NEW c \in Convs, DedupSet(c)
    PROVE  OrderInv'
<1>1. /\ worker[c].pc = "record" /\ worker[c].pc \in Active /\ UNCHANGED <<toTransfer, consumerVars, topicVars>>
      /\ LoopOr(c, "record", "done")
  BY DEF DedupSet, At, Active
<1>2. PICK e : e = Accepted(c, worker[c].i)
  OBVIOUS
<1>3. e \in Events /\ ConvOf[e.key] = c /\ e.key \in ClientKeys
  BY <1>1, <1>2, AcceptedEvent DEF Events
<1>4. worker[c].i \in 1 .. Len(worker[c].fresh)
  BY <1>1, IndexRange
<1>5. dedup \in [ClientKeys -> [seq : Nat, srv : Nat]] /\ UNCHANGED <<toPostgres, agentTrigger, toPush>>
  BY <1>1 DEF TypeInv, TypeOK, topicVars
<1>6. /\ dedup'[e.key] \in {dedup[e.key], [seq |-> e.seq, srv |-> e.srv]}
      /\ \A k \in ClientKeys : k # e.key => dedup'[k] = dedup[k]
  BY <1>2, <1>3, <1>5 DEF DedupSet
<1>7. On(toPostgres, e)
  BY <1>1, <1>2, <1>4 DEF OrderInv, Written
<1>8. LogsGrow /\ FanoutIsArchived'
  BY <1>5 DEF OrderInv, LogsGrow, FanoutIsArchived, On
<1>9. RecordsResolve'
  <2> SUFFICES ASSUME NEW k \in ClientKeys, dedup'[k] # NoRecord
               PROVE  On(toPostgres, [key |-> k, srv |-> dedup'[k].srv, seq |-> dedup'[k].seq])
    BY <1>5 DEF RecordsResolve, On
  <2>1. CASE dedup'[k] = dedup[k]
    BY <2>1 DEF OrderInv, RecordsResolve
  <2>2. CASE k = e.key /\ dedup'[k] = [seq |-> e.seq, srv |-> e.srv]
    <3>1. [key |-> k, srv |-> dedup'[k].srv, seq |-> dedup'[k].seq] = e
      BY <1>3, <2>2 DEF Events
    <3> QED
      BY <1>7, <3>1
  <2> QED
    BY <1>6, <2>1, <2>2
<1>10. /\ worker'[c].fresh = worker[c].fresh /\ \A d \in Convs : d # c => worker'[d] = worker[d]
       /\ worker'[c].pc \in {"record", "done"}
  BY <1>1, LoopMoves
<1>11. worker'[c].first = worker[c].first
  BY <1>1, FirstKept
<1>12. \A j \in 1 .. Len(worker[c].fresh) : Accepted(c, j)' = Accepted(c, j)
  BY <1>1, <1>10, <1>11, AcceptedKept, ConsumerKept
<1>13. Written(c)' /\ Unrecorded(c)'
  BY <1>1, <1>5, <1>10, <1>12 DEF OrderInv, Written, Unrecorded, On, Active
<1>14. \A k \in ClientKeys : ConvOf[k] # c => dedup'[k] = dedup[k]
  BY <1>3, <1>6
<1> QED
  BY <1>1, <1>8, <1>9, <1>10, <1>13, <1>14, OrderWorkerStep

(* The poll loop starts and ends batches. *)
LEMMA OrderLoop ==
    ASSUME TypeInv, OrderInv, RunLoop \/ Crash
    PROVE  OrderInv'
<1>1. UNCHANGED <<toPostgres, agentTrigger, toPush, dedup, toTransfer>>
  BY DEF RunLoop, Poll, HandlerError, HandlerOK, CommitRecords, Crash, redisVars, topicVars
<1>2. LogsGrow /\ FanoutIsArchived' /\ RecordsResolve'
  BY <1>1, SameTopics
<1>3. CASE HandlerOK
  <2>1. /\ worker' = worker /\ \A c \in Convs : worker[c].pc \notin Active
    BY <1>3 DEF HandlerOK, Returned, Active
  <2>2. \A c \in Convs : Written(c)' /\ Unrecorded(c)'
    BY <2>1 DEF Written, Unrecorded, Active
  <2> QED
    BY <1>2, <2>2 DEF OrderInv
<1>4. CASE Poll \/ HandlerError \/ CommitRecords \/ Crash
  <2>1. (\E S : worker' = StartWorkers(S)) \/ worker' = Quiet
    BY <1>4 DEF Poll, HandlerError, CommitRecords, Crash
  <2>2. \A c \in Convs : worker'[c].pc \notin Active
    BY <2>1, FreshWorkers
  <2>3. \A c \in Convs : Written(c)' /\ Unrecorded(c)'
    BY <2>2 DEF Written, Unrecorded, Active
  <2> QED
    BY <1>2, <2>3 DEF OrderInv
<1> QED
  BY <1>3, <1>4 DEF RunLoop

(* A step that moves no worker and forgets, at most, dedup records. *)
LEMMA OrderOutside ==
    ASSUME TypeInv, OrderInv, UNCHANGED <<consumerVars, worker, topicVars>>,
           \/ UNCHANGED toTransfer
           \/ \E r \in Records : toTransfer' = Append(toTransfer, r),
           \A k \in ClientKeys : dedup'[k] \in {dedup[k], NoRecord}
    PROVE  OrderInv'
<1>1. UNCHANGED <<committed, polled, phase, worker, toPostgres, agentTrigger, toPush>>
  BY DEF consumerVars, topicVars
<1>2. LogsGrow /\ FanoutIsArchived' /\ RecordsResolve'
  BY <1>1 DEF OrderInv, LogsGrow, FanoutIsArchived, RecordsResolve, On
<1>3. \A c \in Convs : Kept(c)
  BY <1>1, SameEvents DEF Kept, EventsOf
<1>4. ASSUME NEW c \in Convs
      PROVE  Written(c)' /\ Unrecorded(c)'
  <2>1. worker'[c] = worker[c] /\ Written(c) /\ Unrecorded(c)
    BY <1>1 DEF OrderInv
  <2> QED
    BY <1>2, <1>3, <2>1, OrderElsewhere
<1> QED
  BY <1>2, <1>4 DEF OrderInv

LEMMA OrderInit == Init => OrderInv
<1> SUFFICES ASSUME Init
             PROVE  OrderInv
  OBVIOUS
<1>1. /\ toPostgres = <<>> /\ agentTrigger = <<>> /\ toPush = <<>> /\ \A k \in ClientKeys : dedup[k] = NoRecord
  BY DEF Init
<1>2. \A c \in Convs : worker[c].pc = "idle"
  BY DEF Init, Quiet, IdleWorker
<1>3. FanoutIsArchived
  BY <1>1 DEF FanoutIsArchived
<1> QED
  BY <1>1, <1>2, <1>3 DEF OrderInv, RecordsResolve, Written, Unrecorded, Active

LEMMA OrderStep == TypeInv /\ OrderInv /\ [LossyNext]_vars => OrderInv'
<1> SUFFICES ASSUME TypeInv, OrderInv, [LossyNext]_vars
             PROVE  OrderInv'
  OBVIOUS
<1>1. ASSUME NEW k \in ClientKeys, SendMessage(k)
      PROVE  OrderInv'
  BY <1>1, OrderOutside DEF SendMessage, Records, redisVars
<1>2. CASE ForeignRecord
  BY <1>2, OrderOutside DEF ForeignRecord, Records, redisVars
<1>3. CASE RunLoop \/ Crash
  BY <1>3, OrderLoop
<1>4. ASSUME NEW c \in Convs, HandleConversation(c)
      PROVE  OrderInv'
  <2>0. worker \in [Convs -> Workers]
    BY DEF TypeInv, TypeOK
  <2>1. CASE DedupGet(c)
    BY <2>1, OrderDedupGet
  <2>2. CASE Malloc(c)
    <3>1. /\ worker[c].pc \in Active \ {"record"} /\ UNCHANGED <<toTransfer, consumerVars, topicVars, dedup>>
      BY <2>2 DEF Malloc, MallocExists, MallocQuery, MallocSetNX, MallocIncr, At, Active, redisVars
    <3>2. \/ \E pc \in {"query", "incr"} : Goto(c, pc)
          \/ \E n : worker' = [worker EXCEPT ![c].pc = "setnx", ![c].seed = n]
          \/ \E n : worker' = [worker EXCEPT ![c].pc = "cache", ![c].first = n, ![c].i = 1]
      BY <2>2 DEF Malloc, MallocExists, MallocQuery, MallocSetNX, MallocIncr
    <3>3. /\ worker'[c].fresh = worker[c].fresh /\ worker'[c].pc \in {"query", "incr", "setnx", "cache"}
          /\ \A d \in Convs : d # c => worker'[d] = worker[d]
      BY <2>0, <3>2, SMTT(10), ZenonT(30) DEF Goto, Workers
    <3> QED
      BY <3>1, <3>3, OrderQuietStep
  <2>3. CASE CacheMessage(c)
    <3>1. /\ worker[c].pc \in Active \ {"record"} /\ LoopOr(c, "cache", "hasread")
          /\ UNCHANGED <<toTransfer, consumerVars, topicVars, dedup>>
      BY <2>3 DEF CacheMessage, At, Active
    <3> QED
      BY <3>1, LoopMoves, OrderQuietStep
  <2>4. CASE SetHasRead(c)
    <3>1. /\ worker[c].pc \in Active \ {"record"} /\ LoopOr(c, "hasread", "toPostgres")
          /\ UNCHANGED <<toTransfer, consumerVars, topicVars, dedup>>
      BY <2>4 DEF SetHasRead, At, Active
    <3> QED
      BY <3>1, LoopMoves, OrderQuietStep
  <2>5. CASE PublishToPostgres(c) \/ PublishAgentTrigger(c) \/ PublishToPush(c)
    BY <2>5, OrderProduce
  <2>6. CASE DedupSet(c)
    BY <2>6, OrderDedupSet
  <2> QED
    BY <1>4, <2>1, <2>2, <2>3, <2>4, <2>5, <2>6 DEF HandleConversation
<1>5. ASSUME NEW c \in Convs, Fail(c)
      PROVE  OrderInv'
  <2>1. Goto(c, "fail") /\ UNCHANGED <<toTransfer, consumerVars, topicVars, dedup>>
    BY <1>5 DEF Fail, redisVars
  <2>2. worker'[c].pc \notin Active /\ \A d \in Convs : d # c => worker'[d] = worker[d]
    BY <2>1, GotoMoves DEF Active
  <2> QED
    BY <2>1, <2>2, OrderLeaveStep
<1>6. ASSUME NEW c \in Convs, Archive(c)
      PROVE  OrderInv'
  BY <1>6, OrderOutside DEF Archive, redisVars
<1>7. CASE LoseRedis
  BY <1>7, OrderOutside DEF LoseRedis
<1>8. ASSUME NEW k \in ClientKeys, ExpireDedup(k)
      PROVE  OrderInv'
  <2>1. \A q \in ClientKeys : dedup'[q] \in {dedup[q], NoRecord}
    BY <1>8 DEF ExpireDedup, TypeInv, TypeOK
  <2> QED
    BY <1>8, <2>1, OrderOutside DEF ExpireDedup
<1>9. CASE UNCHANGED vars
  BY <1>9, OrderOutside DEF vars, redisVars
<1> QED
  BY <1>1, <1>2, <1>3, <1>4, <1>5, <1>6, <1>7, <1>8, <1>9 DEF LossyNext, Next

(* Nothing is fanned out that toPostgres does not carry, and a dedup record *)
(* resolves to a message that is on all its topics: handleConversation      *)
(* produces to toPostgres, agentTrigger and toPush in this order and calls  *)
(* DedupSet last, and neither crashes and retries nor a Redis that forgets  *)
(* changes that.                                                            *)
THEOREM FanoutFollowsArchive == LossySpec => []PublishedInOrder
<1>1. Init => TypeInv /\ LossInv /\ OrderInv
  BY TypeInit, LossInit, OrderInit
<1>2. (TypeInv /\ LossInv /\ OrderInv) /\ [LossyNext]_vars => (TypeInv /\ LossInv /\ OrderInv)'
  BY LossyTypeStep, LossStep, OrderStep
<1>3. LossInv /\ OrderInv => PublishedInOrder
  BY DEF LossInv, DedupInv, OutKeys, OrderInv, RecordsResolve, On, PublishedInOrder, DedupMeansPublished
<1> QED
  BY <1>1, <1>2, <1>3, PTL DEF LossySpec, LossyNext

(* The same for the specification in which Redis keeps its data. *)
THEOREM FanoutFollowsArchiveKept == Spec => []PublishedInOrder
<1>1. Init => TypeInv /\ LossInv /\ OrderInv
  BY TypeInit, LossInit, OrderInit
<1>2. (TypeInv /\ LossInv /\ OrderInv) /\ [Next]_vars => (TypeInv /\ LossInv /\ OrderInv)'
  BY LossyTypeStep, LossStep, OrderStep DEF LossyNext
<1>3. LossInv /\ OrderInv => PublishedInOrder
  BY DEF LossInv, DedupInv, OutKeys, OrderInv, RecordsResolve, On, PublishedInOrder, DedupMeansPublished
<1> QED
  BY <1>1, <1>2, <1>3, PTL DEF Spec

(* A message that has its dedup record is never produced again: while the   *)
(* worker of a conversation is between its dedup loop and its records,      *)
(* nobody else records its messages, so a batch it retries or is handed     *)
(* again leaves recorded messages out (handler.go, the DedupGet loop).      *)
THEOREM NeverRepublished == Spec => NoRepublish
<1>1. TypeInv /\ OrderInv /\ [Next]_vars =>
        [\A k \in ClientKeys : dedup[k] # NoRecord /\ toPostgres' # toPostgres
            => toPostgres'[Len(toPostgres')].key # k]_vars
  <2> SUFFICES ASSUME TypeInv, OrderInv, [Next]_vars, NEW k \in ClientKeys, dedup[k] # NoRecord, toPostgres' # toPostgres
               PROVE  toPostgres'[Len(toPostgres')].key # k
    OBVIOUS
  <2>1. PICK c \in Convs : PublishToPostgres(c)
    BY DEF Next, SendMessage, ForeignRecord, RunLoop, Poll, HandlerError, HandlerOK, CommitRecords, Crash, HandleConversation,
       DedupGet, Malloc, MallocExists, MallocQuery, MallocSetNX, MallocIncr, CacheMessage, SetHasRead, PublishAgentTrigger,
       PublishToPush, DedupSet, Fail, Archive, vars, topicVars
  <2>2. worker[c].pc = "toPostgres" /\ worker[c].pc \in Active /\ toPostgres' = Append(toPostgres, Accepted(c, worker[c].i))
    BY <2>1 DEF PublishToPostgres, At, Active
  <2>3. /\ worker[c].i \in 1 .. Len(worker[c].fresh) /\ Accepted(c, worker[c].i) \in Events
        /\ toPostgres \in Seq(Events)
    BY <2>2, IndexRange, AcceptedEvent DEF TypeInv, TypeOK
  <2>4. dedup[KeyOf(c, worker[c].i)] = NoRecord
    BY <2>2, <2>3 DEF OrderInv, Unrecorded
  <2>5. Accepted(c, worker[c].i).key = KeyOf(c, worker[c].i)
    BY DEF Accepted, KeyOf
  <2>6. toPostgres'[Len(toPostgres')] = Accepted(c, worker[c].i)
    BY <2>2, <2>3
  <2> QED
    BY <2>4, <2>5, <2>6
<1>2. Init => TypeInv /\ OrderInv
  BY TypeInit, OrderInit
<1>3. (TypeInv /\ OrderInv) /\ [Next]_vars => (TypeInv /\ OrderInv)'
  BY LossyTypeStep, OrderStep DEF LossyNext
<1> QED
  BY <1>1, <1>2, <1>3, PTL DEF Spec, NoRepublish
==============================================================================
