------------------------------- MODULE Persist -------------------------------
(***************************************************************************)
(* The archive of the message pipeline: msgtransfer's consumer of          *)
(* msg.toPostgres.v1 (chain/persist.go, model/writer.go) and the           *)
(* PostgreSQL tables messages, conversation_threads and                    *)
(* user_conversation_states, which msg-rpc's MarkConversationAsRead writes *)
(* too.  A transaction is one step; the consumer fails, retries the same   *)
(* batch and crashes between transactions.                                 *)
(***************************************************************************)
EXTENDS AcceptedLog

CONSTANTS
    Groups,       \* the group conversations, a subset of Convs
    ContentOf,    \* [ClientKeys -> STRING], payload.content_type
    ServerIds,    \* server_msg_ids, positive integers
    MaxEvents,    \* bound: records ever written to toPostgres
    MaxSeq,       \* bound: seqs
    PersistBatchMax,  \* bound: records of one poll
    MaxPersistFaults  \* bound: failed transactions and crashes

ASSUME PersistConstants ==
    /\ Groups \subseteq Convs
    /\ ConvOf \in [ClientKeys -> Convs]
    /\ SenderOf \in [ClientKeys -> Users]
    /\ VisibleTo \in [ClientKeys -> SUBSET Users]
    /\ \A k \in ClientKeys : SenderOf[k] \in VisibleTo[k]   \* model.VisibleUserIDs adds the sender
    /\ ServerIds \subseteq Nat \ {0}
    /\ MaxEvents \in Nat /\ MaxSeq \in Nat /\ PersistBatchMax \in Nat /\ MaxPersistFaults \in Nat

VARIABLES
    pCommitted,   \* committed offset of the persist consumer group
    pPolled,      \* last offset of the batch in memory
    pPhase,       \* "poll", "handle" or "commit"
    pDone,        \* conversations whose transaction this attempt committed
    messages,     \* table messages: [ClientKeys -> row or NoRow]
    threads,      \* table conversation_threads: [Convs -> thread or NoThread]
    states,       \* table user_conversation_states: [Convs -> [Users -> state or NoState]]
    pFaults       \* failures so far

loopVars == <<pCommitted, pPolled, pPhase, pDone>>
tableVars == <<messages, threads, states>>
persistVars == <<loopVars, tableVars, pFaults>>
persistSystemVars == <<toPostgres, persistVars>>

NoRow == [seq |-> 0, srv |-> 0]
NoThread == [maxSeq |-> -1, last |-> 0]
NoState == [read |-> -1, start |-> -1]

Larger(a, b) == IF a > b THEN a ELSE b
Largest(S) == CHOOSE m \in S : \A n \in S : n <= m

RowsOf(c) == {k \in ClientKeys : ConvOf[k] = c /\ messages[k] # NoRow}

(* Writer.MaxSeq: coalesce(max(seq), 0). *)
RowMax(c) == Largest({0} \cup {messages[k].seq : k \in RowsOf(c)})

BatchOf(c) == {n \in pCommitted + 1 .. pPolled : ConvOf[toPostgres[n].key] = c}
BatchConvs == {ConvOf[toPostgres[n].key] : n \in pCommitted + 1 .. pPolled}

PersistInit ==
    /\ toPostgres = <<>>
    /\ pCommitted = 0 /\ pPolled = 0 /\ pPhase = "poll" /\ pDone = {}
    /\ messages = [k \in ClientKeys |-> NoRow]
    /\ threads = [c \in Convs |-> NoThread]
    /\ states = [c \in Convs |-> [u \in Users |-> NoState]]
    /\ pFaults = 0

-----------------------------------------------------------------------------
(* What the transfer consumer may append: seqs of a conversation increase,  *)
(* a message published again keeps its server_msg_id.  Pipeline shows that  *)
(* Transfer does no more than this while Redis keeps its data.              *)
PublishAccepted(e) ==
    /\ Len(toPostgres) < MaxEvents
    /\ \A n \in 1 .. Len(toPostgres) :
          /\ ConvOf[toPostgres[n].key] = ConvOf[e.key] => toPostgres[n].seq < e.seq
          /\ (toPostgres[n].key = e.key) <=> (toPostgres[n].srv = e.srv)
    /\ toPostgres' = Append(toPostgres, e)
    /\ UNCHANGED persistVars

-----------------------------------------------------------------------------
(* KafkaConsumer.Run around PersistHandler.HandleBatch. *)

PollPersist ==
    /\ pPhase = "poll"
    /\ \E hi \in pCommitted + 1 .. Len(toPostgres) :
          hi <= pCommitted + PersistBatchMax /\ pPolled' = hi
    /\ pPhase' = "handle" /\ pDone' = {}
    /\ UNCHANGED <<toPostgres, pCommitted, tableVars, pFaults>>

(* HandleBatch takes the conversations in the order of their first record. *)
IsNext(c) ==
    /\ c \in BatchConvs \ pDone
    /\ \E n \in BatchOf(c) : \A d \in BatchConvs \ pDone : \A m \in BatchOf(d) : n <= m

(* insert ... on conflict (sender_account_id, client_msg_id) do nothing *)
Inserted(c) ==
    {n \in BatchOf(c) :
        /\ messages[toPostgres[n].key] = NoRow
        /\ \A m \in BatchOf(c) : m < n => toPostgres[m].key # toPostgres[n].key}

(* contentTypeValue knows text, image and file only. *)
Storable(k) == ContentOf[k] \in {"", "text", "image", "file"}

(* unique (conversation_id, seq) *)
SeqTaken(c) ==
    \E n \in Inserted(c) :
        \/ \E k \in RowsOf(c) : messages[k].seq = toPostgres[n].seq
        \/ \E m \in Inserted(c) : m # n /\ toPostgres[m].seq = toPostgres[n].seq

Rejected(c) == SeqTaken(c) \/ \E n \in BatchOf(c) : ~Storable(toPostgres[n].key)

MessagesAfter(c) ==
    [k \in ClientKeys |->
        IF \E n \in Inserted(c) : toPostgres[n].key = k
        THEN LET n == CHOOSE n \in Inserted(c) : toPostgres[n].key = k
             IN  [seq |-> toPostgres[n].seq, srv |-> toPostgres[n].srv]
        ELSE messages[k]]

(* Mutant of StateAfter: the row starts at the first message, not below it. *)
StateFromFirst(c, u) ==
    LET seen == {n \in BatchOf(c) : u \in VisibleTo[toPostgres[n].key]}
        sent == {toPostgres[n].seq : n \in {m \in BatchOf(c) : SenderOf[toPostgres[m].key] = u}}
        n1   == CHOOSE n \in seen : \A m \in seen : n <= m
        init == IF c \in Groups THEN toPostgres[n1].seq ELSE 0
        old  == IF states[c][u] = NoState /\ seen # {}
                THEN [read |-> init, start |-> init] ELSE states[c][u]
    IN  [read |-> Largest({old.read} \cup sent), start |-> old.start]

(* upsertVisible then upsertSenderRead, message by message: the first       *)
(* message visible to u creates the row, u's own messages raise last_read.  *)
StateAfter(c, u) ==
    LET seen == {n \in BatchOf(c) : u \in VisibleTo[toPostgres[n].key]}
        sent == {toPostgres[n].seq : n \in {m \in BatchOf(c) : SenderOf[toPostgres[m].key] = u}}
        n1   == CHOOSE n \in seen : \A m \in seen : n <= m
        init == IF c \in Groups THEN toPostgres[n1].seq - 1 ELSE 0
        old  == IF states[c][u] = NoState /\ seen # {}
                THEN [read |-> init, start |-> init] ELSE states[c][u]
    IN  [read |-> Largest({old.read} \cup sent), start |-> old.start]

(* upsertThread creates the row with max_seq 0 and keeps an existing one. *)
UpsertThread(c) == IF threads[c] = NoThread THEN [maxSeq |-> 0, last |-> 0] ELSE threads[c]

(* Mutant of ThreadAfter: max_seq is assigned, not raised. *)
ThreadAssigned(c) ==
    LET last == toPostgres[Largest(BatchOf(c))]
    IN  [maxSeq |-> last.seq, last |-> last.srv]
(* updateThreadAfterMessage looks at the last message of the batch only. *)
ThreadAfter(c) ==
    LET old  == UpsertThread(c)
        last == toPostgres[Largest(BatchOf(c))]
    IN  [maxSeq |-> Larger(old.maxSeq, last.seq),
         last   |-> IF last.seq >= old.maxSeq THEN last.srv ELSE old.last]

(* Writer.PersistBatch: one transaction for one conversation. *)
PersistBatch(c) ==
    /\ pPhase = "handle" /\ IsNext(c)
    /\ ~Rejected(c)
    /\ messages' = MessagesAfter(c)
    /\ states' = [states EXCEPT ![c] = [u \in Users |-> StateAfter(c, u)]]
    /\ threads' = [threads EXCEPT ![c] = ThreadAfter(c)]
    /\ pDone' = pDone \cup {c}
    /\ UNCHANGED <<toPostgres, pCommitted, pPolled, pPhase, pFaults>>

(* Mutant of PersistError: the batch is given up. *)
PersistErrorSkips(c) ==
    /\ pPhase = "handle" /\ IsNext(c)
    /\ \/ Rejected(c) /\ pFaults' = pFaults
       \/ ~Rejected(c) /\ pFaults < MaxPersistFaults /\ pFaults' = pFaults + 1
    /\ pPhase' = "commit"
    /\ UNCHANGED <<toPostgres, pCommitted, pPolled, pDone, tableVars>>

(* The transaction is refused or fails and is rolled back: the same batch   *)
(* starts over from its first conversation.                                 *)
PersistError(c) ==
    /\ pPhase = "handle" /\ IsNext(c)
    /\ \/ Rejected(c) /\ pFaults' = pFaults
       \/ ~Rejected(c) /\ pFaults < MaxPersistFaults /\ pFaults' = pFaults + 1
    /\ pDone' = {}
    /\ UNCHANGED <<toPostgres, pCommitted, pPolled, pPhase, tableVars>>

(* Mutant of PersistOK: the batch counts as done after its first conversation. *)
PersistOKEarly ==
    /\ pPhase = "handle" /\ pDone # {}
    /\ pPhase' = "commit"
    /\ UNCHANGED <<toPostgres, pCommitted, pPolled, pDone, tableVars, pFaults>>

PersistOK ==
    /\ pPhase = "handle" /\ BatchConvs \subseteq pDone
    /\ pPhase' = "commit"
    /\ UNCHANGED <<toPostgres, pCommitted, pPolled, pDone, tableVars, pFaults>>

(* Mutant of CommitPersist: the offset committed is one too large. *)
CommitPersistPastBatch ==
    /\ pPhase = "commit"
    /\ pCommitted' = pPolled + 1 /\ pPhase' = "poll" /\ pDone' = {}
    /\ UNCHANGED <<toPostgres, pPolled, tableVars, pFaults>>

CommitPersist ==
    /\ pPhase = "commit"
    /\ pCommitted' = pPolled /\ pPhase' = "poll" /\ pDone' = {}
    /\ UNCHANGED <<toPostgres, pPolled, tableVars, pFaults>>

CrashPersist ==
    /\ pPhase # "poll" /\ pFaults < MaxPersistFaults
    /\ pFaults' = pFaults + 1 /\ pPhase' = "poll" /\ pDone' = {}
    /\ UNCHANGED <<toPostgres, pCommitted, pPolled, tableVars>>

-----------------------------------------------------------------------------
(* msg-rpc, on the same tables. *)

Participants(c) == UNION {VisibleTo[k] : k \in {j \in ClientKeys : ConvOf[j] = c}}

(* RepairDirect: a participant of a single chat has a row that hides nothing. *)
Repaired(u, c) ==
    IF c \notin Groups /\ threads[c] # NoThread /\ u \in Participants(c)
    THEN IF states[c][u] = NoState THEN [read |-> 0, start |-> 0]
                                   ELSE [read |-> states[c][u].read, start |-> 0]
    ELSE states[c][u]

(* QuerySeqState reports NotFound when last_message_id has no row. *)
LastMessageFound(u, c) ==
    \/ threads[c].maxSeq <= Repaired(u, c).start
    \/ threads[c].last = 0
    \/ \E k \in ClientKeys : messages[k] # NoRow /\ messages[k].srv = threads[c].last

(* MarkConversationAsRead: RepairDirect, then the FOR UPDATE transaction,   *)
(* which QuerySeqState can still roll back.                                 *)
MarkConversationAsRead(u, c, seq) ==
    LET s  == Repaired(u, c)
        ok == /\ s # NoState /\ threads[c] # NoThread
              /\ seq <= threads[c].maxSeq
              /\ LastMessageFound(u, c)
    IN  /\ u \in Participants(c)
        /\ states' = [states EXCEPT ![c][u] =
                         IF ok THEN [read |-> Larger(s.read, Larger(seq, s.start)), start |-> s.start] ELSE s]
        /\ UNCHANGED <<toPostgres, loopVars, messages, threads, pFaults>>

-----------------------------------------------------------------------------
PersistLoop ==
    PollPersist \/ PersistOK \/ CommitPersist \/ \E c \in Convs : PersistBatch(c) \/ PersistError(c)

PersistNext ==
    \/ PersistLoop \/ CrashPersist
    \/ \E c \in Convs, u \in Users, seq \in 0 .. MaxSeq : MarkConversationAsRead(u, c, seq)

PersistSystemNext ==
    \/ \E k \in ClientKeys, srv \in ServerIds, seq \in 1 .. MaxSeq :
          PublishAccepted([key |-> k, srv |-> srv, seq |-> seq])
    \/ PersistNext

PersistSpec == PersistInit /\ [][PersistSystemNext]_persistSystemVars

(* The consumer keeps running; transactions fail finitely often. *)
PersistFairness == WF_persistSystemVars(PersistLoop)
FairSpec == PersistSpec /\ PersistFairness

-----------------------------------------------------------------------------
PersistTypeOK ==
    /\ toPostgres \in Seq(Events)
    /\ pCommitted \in 0 .. Len(toPostgres) /\ pPolled \in 0 .. Len(toPostgres)
    /\ pPhase \in {"poll", "handle", "commit"} /\ (pPhase # "poll" => pCommitted < pPolled)
    /\ pDone \subseteq Convs
    /\ messages \in [ClientKeys -> [seq : Nat, srv : Nat]]
    /\ threads \in [Convs -> [maxSeq : Nat, last : Nat] \cup {NoThread}]
    /\ states \in [Convs -> [Users -> [read : Nat, start : Nat] \cup {NoState}]]
    /\ pFaults \in 0 .. MaxPersistFaults

(* An offset is committed only when the row of its message exists: a crash  *)
(* or an error at any point replays the record instead of dropping it       *)
(* (persist.go: "lag grows visibly instead of dropping data").              *)
CommittedIsArchived == \A n \in 1 .. pCommitted : messages[toPostgres[n].key] # NoRow

(* A row never changes, and new rows of a conversation come after all its   *)
(* rows: a client that has pulled up to seq n can ask for n + 1 next        *)
(* without missing a row that is inserted later (PersistBatch).             *)
RowsAppendInSeqOrder ==
    [][\A k \in ClientKeys : messages'[k] # messages[k] =>
          /\ messages[k] = NoRow
          /\ \A j \in RowsOf(ConvOf[k]) : messages[j].seq < messages'[k].seq]_persistSystemVars

(* max_seq covers every row although only the last message of a batch       *)
(* updates it, and last_message_id is the id of a row of the conversation:  *)
(* QuerySeqState fails the whole conversation list when it is not.          *)
ThreadCoversRows ==
    \A c \in Convs :
        /\ \A k \in RowsOf(c) : messages[k].seq <= threads[c].maxSeq
        /\ RowsOf(c) # {} => \E k \in RowsOf(c) : messages[k].srv = threads[c].last

(* Every user a message was addressed to can see it: the state row exists   *)
(* and its visible_start_seq lies below the message, whichever message of   *)
(* whichever batch created the row.                                         *)
NothingHidden ==
    \A k \in ClientKeys : messages[k] # NoRow =>
        \A u \in VisibleTo[k] :
            /\ states[ConvOf[k]][u] # NoState
            /\ states[ConvOf[k]][u].start < messages[k].seq

(* Read markers stay between visible_start_seq and max_seq, and a sender    *)
(* has read its own messages, however persist, replay and mark-as-read      *)
(* interleave.                                                              *)
ReadMarkersInRange ==
    /\ \A c \in Convs, u \in Users : states[c][u] # NoState =>
          /\ states[c][u].start <= states[c][u].read
          /\ states[c][u].read <= threads[c].maxSeq
    /\ \A k \in ClientKeys : messages[k] # NoRow =>
          states[ConvOf[k]][SenderOf[k]].read >= messages[k].seq

(* No step, replayed batches included, takes a read marker or max_seq back. *)
NeverBackwards ==
    [][\A c \in Convs : /\ threads'[c].maxSeq >= threads[c].maxSeq
                        /\ \A u \in Users : states'[c][u].read >= states[c][u].read]_persistSystemVars

(* Every accepted message is eventually archived: no batch is retried for   *)
(* ever (needs seqs to be unique and content types to be storable).         *)
EventuallyArchived ==
    \A k \in ClientKeys :
        (\E n \in 1 .. Len(toPostgres) : toPostgres[n].key = k) ~> messages[k] # NoRow

(* The three tables agree after every transaction, whatever was replayed or *)
(* marked as read before: threads cover the rows, the users' states show    *)
(* them, and read markers lie within.                                       *)
TablesAgree == ThreadCoversRows /\ NothingHidden /\ ReadMarkersInRange

(* The tables only go forward: rows are appended in seq order and never     *)
(* change, read markers and max_seq do not go back (PersistBatch upserts    *)
(* with greatest and on conflict do nothing).                               *)
OnlyForward == RowsAppendInSeqOrder /\ NeverBackwards
=============================================================================
