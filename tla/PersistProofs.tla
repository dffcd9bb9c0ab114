---------------------------- MODULE PersistProofs ----------------------------
(***************************************************************************)
(* The archive, for any number of conversations, users, records, failures  *)
(* and sizes of batches: what is committed is stored, the three tables     *)
(* agree after every transaction, and they only go forward.                *)
(*                                                                         *)
(* The argument turns on the order of the log.  A batch that is polled     *)
(* again after a crash may be shorter than the one before it, so rows can  *)
(* be ahead of the batch; but the rows of a conversation always belong to  *)
(* a prefix of its records, and so a record without a row comes after all  *)
(* records that have one.                                                  *)
(***************************************************************************)
EXTENDS Persist, NaturalsInduction, WellFoundedInduction, TLAPS

(* What PublishAccepted keeps true of the log. *)
LogSound ==
    /\ \A n \in DOMAIN toPostgres : toPostgres[n].seq >= 1 /\ toPostgres[n].srv >= 1
    /\ \A m, n \in DOMAIN toPostgres :
          /\ ConvOf[toPostgres[m].key] = ConvOf[toPostgres[n].key] /\ m < n => toPostgres[m].seq < toPostgres[n].seq
          /\ toPostgres[m].key = toPostgres[n].key <=> toPostgres[m].srv = toPostgres[n].srv

(* The row of key k is the one of record n. *)
RowFrom(k, n) ==
    toPostgres[n].key = k /\ messages[k].seq = toPostgres[n].seq /\ messages[k].srv = toPostgres[n].srv

(* A row is one of the log, and the records of its conversation before it   *)
(* have rows too.                                                           *)
RowsArePrefix ==
    \A k \in ClientKeys : messages[k] # NoRow =>
        \E n \in DOMAIN toPostgres :
            /\ RowFrom(k, n)
            /\ \A m \in 1 .. n : ConvOf[toPostgres[m].key] = ConvOf[k] => messages[toPostgres[m].key] # NoRow

(* Of the batch, what is handled has its rows. *)
HandledIsArchived ==
    /\ pPhase = "handle" => \A c \in pDone : \A n \in BatchOf(c) : messages[toPostgres[n].key] # NoRow
    /\ pPhase = "commit" => \A n \in pCommitted + 1 .. pPolled : messages[toPostgres[n].key] # NoRow

(* A thread that has a max_seq has a last message. *)
LastIsRow ==
    \A c \in Convs : threads[c].maxSeq > 0 => \E k \in RowsOf(c) : messages[k].srv = threads[c].last

(* visible_start_seq is below a row, unless it hides nothing. *)
StartBelowRows ==
    \A c \in Convs, u \in Users : states[c][u] # NoState =>
        states[c][u].start = 0 \/ \E k \in RowsOf(c) : states[c][u].start < messages[k].seq

(* The inductive invariant. *)
PersistInv ==
    /\ PersistTypeOK /\ LogSound /\ RowsArePrefix /\ CommittedIsArchived /\ HandledIsArchived
    /\ TablesAgree /\ LastIsRow /\ StartBelowRows

-----------------------------------------------------------------------------
(*                     Least and greatest elements                         *)

LEMMA LeastOf ==
    ASSUME NEW S \in SUBSET Nat, S # {}
    PROVE  \E x \in S : \A y \in S : x <= y
<1> DEFINE R == OpToRel(<, Nat)
<1>1. R = {ss \in Nat \X Nat : ss[1] < ss[2]}
  BY Zenon DEF OpToRel
<1>2. IsWellFoundedOn(R, Nat)
  BY NatLessThanWellFounded
<1>3. PICK x \in S : \A y \in S : ~ (<<y, x>> \in R)
  <2> HIDE DEF R
  <2> QED
    BY <1>2, WFMin
<1>4. \A y \in S : ~(y < x)
  BY <1>1, <1>3
<1> QED
  BY <1>4

LEMMA LargestOf ==
    ASSUME NEW N \in Int, NEW S \in SUBSET Int, S # {}, \A x \in S : x <= N
    PROVE  Largest(S) \in S /\ \A y \in S : y <= Largest(S)
<1> DEFINE T == {k \in Nat : N - k \in S}
<1>1. T \in SUBSET Nat /\ T # {}
  <2>1. PICK y \in S : TRUE
    OBVIOUS
  <2>2. N - y \in Nat /\ N - (N - y) = y
    BY <2>1
  <2> QED
    BY <2>1, <2>2
<1>2. PICK k \in T : \A j \in T : k <= j
  <2> HIDE DEF T
  <2> QED
    BY <1>1, LeastOf
<1>3. N - k \in S
  OBVIOUS
<1>4. ASSUME NEW y \in S
      PROVE  y <= N - k
  <2>1. N - y \in Nat /\ N - (N - y) = y
    OBVIOUS
  <2>2. N - y \in T
    BY <2>1
  <2>3. k <= N - y /\ k \in Nat
    BY <1>2, <2>2
  <2> HIDE DEF T
  <2> QED
    BY <2>3
<1> HIDE DEF T
<1>5. \E m \in S : \A n \in S : n <= m
  BY <1>3, <1>4
<1> QED
  BY <1>5 DEF Largest

-----------------------------------------------------------------------------
(*                         The log and a batch                             *)

Seqs(n) == toPostgres[n].seq
Keys(n) == toPostgres[n].key

LEMMA LogTyped ==
    ASSUME PersistTypeOK, NEW n \in DOMAIN toPostgres
    PROVE  toPostgres[n] \in Events /\ Keys(n) \in ClientKeys /\ Seqs(n) \in Nat /\ toPostgres[n].srv \in Nat
           /\ n \in Nat /\ n >= 1 /\ ConvOf[Keys(n)] \in Convs
<1>1. toPostgres[n] \in Events /\ n \in 1 .. Len(toPostgres)
  BY DEF PersistTypeOK
<1> QED
  BY <1>1, PersistConstants DEF Events, Keys, Seqs

LEMMA BatchInLog ==
    ASSUME PersistTypeOK
    PROVE  /\ DOMAIN toPostgres = 1 .. Len(toPostgres) /\ Len(toPostgres) \in Nat
           /\ pCommitted \in Nat /\ pPolled \in Nat /\ pPolled <= Len(toPostgres) /\ pCommitted <= Len(toPostgres)
           /\ \A c : \A n \in BatchOf(c) : n \in DOMAIN toPostgres /\ n > pCommitted /\ n <= pPolled /\ ConvOf[Keys(n)] = c
<1>1. DOMAIN toPostgres = 1 .. Len(toPostgres) /\ Len(toPostgres) \in Nat
  BY DEF PersistTypeOK
<1>2. pCommitted \in 0 .. Len(toPostgres) /\ pPolled \in 0 .. Len(toPostgres)
  BY DEF PersistTypeOK
<1> QED
  BY <1>1, <1>2 DEF BatchOf, Keys

(* The last record of a conversation's part of the batch has its highest seq. *)
LEMMA LastOfBatch ==
    ASSUME PersistTypeOK, LogSound, NEW c \in Convs, IsNext(c)
    PROVE  /\ BatchOf(c) # {} /\ Largest(BatchOf(c)) \in BatchOf(c)
           /\ \A n \in BatchOf(c) : n <= Largest(BatchOf(c)) /\ Seqs(n) <= Seqs(Largest(BatchOf(c)))
<1> DEFINE B == BatchOf(c)
           z == Largest(B)
<1>1. B # {}
  BY DEF IsNext
<1>2. B \in SUBSET Int /\ pPolled \in Int /\ \A n \in B : n <= pPolled
  BY BatchInLog
<1>3. z \in B /\ \A n \in B : n <= z
  BY <1>1, <1>2, LargestOf
<1>4. ASSUME NEW n \in B
      PROVE  Seqs(n) <= Seqs(z)
  <2>1. n \in DOMAIN toPostgres /\ z \in DOMAIN toPostgres /\ n \in Nat /\ z \in Nat
        /\ ConvOf[Keys(n)] = c /\ ConvOf[Keys(z)] = c /\ Seqs(n) \in Nat /\ Seqs(z) \in Nat
    BY <1>3, BatchInLog, LogTyped
  <2>2. n = z \/ n < z
    BY <1>3, <2>1
  <2> QED
    BY <2>1, <2>2 DEF LogSound, Seqs, Keys
<1> QED
  BY <1>1, <1>3, <1>4

(* A record that a transaction inserts a row for, one for every key that    *)
(* has none, and past every row of the conversation.                        *)
LEMMA InsertedOnce ==
    ASSUME PersistTypeOK, NEW c \in Convs, NEW n \in BatchOf(c), messages[Keys(n)] = NoRow
    PROVE  \E m \in Inserted(c) : Keys(m) = Keys(n)
<1> DEFINE S == {m \in BatchOf(c) : Keys(m) = Keys(n)}
<1>1. S \in SUBSET Nat /\ n \in S
  BY BatchInLog
<1>2. PICK m \in S : \A j \in S : m <= j
  <2> HIDE DEF S
  <2> QED
    BY <1>1, LeastOf
<1>3. m \in Nat /\ \A j \in BatchOf(c) : j \in Nat
  BY <1>1, BatchInLog
<1>4. \A j \in BatchOf(c) : j < m => Keys(j) # Keys(m)
  BY <1>2, <1>3
<1> QED
  BY <1>2, <1>4 DEF Inserted, Keys

LEMMA InsertedApart ==
    ASSUME PersistTypeOK, NEW c \in Convs, NEW m \in Inserted(c), NEW n \in Inserted(c), Keys(m) = Keys(n)
    PROVE  m = n
<1>1. m \in BatchOf(c) /\ n \in BatchOf(c)
  BY DEF Inserted
<1>2. m \in Nat /\ n \in Nat
  BY <1>1, BatchInLog
<1>3. ~(m < n) /\ ~(n < m)
  BY <1>1 DEF Inserted, Keys
<1> QED
  BY <1>2, <1>3

LEMMA InsertedAfterRows ==
    ASSUME PersistTypeOK, LogSound, RowsArePrefix, NEW c \in Convs, NEW n \in Inserted(c), NEW k \in RowsOf(c)
    PROVE  messages[k].seq < Seqs(n)
<1>1. k \in ClientKeys /\ ConvOf[k] = c /\ messages[k] # NoRow
  BY DEF RowsOf
<1>2. n \in BatchOf(c) /\ messages[Keys(n)] = NoRow
  BY DEF Inserted, Keys
<1>3. n \in DOMAIN toPostgres /\ n \in Nat /\ ConvOf[Keys(n)] = c /\ n >= 1
  BY <1>2, BatchInLog, LogTyped
<1>4. PICK j \in DOMAIN toPostgres :
         /\ RowFrom(k, j)
         /\ \A m \in 1 .. j : ConvOf[toPostgres[m].key] = ConvOf[k] => messages[toPostgres[m].key] # NoRow
  BY <1>1 DEF RowsArePrefix
<1>5. j \in Nat
  BY LogTyped
<1>6. ~(n <= j)
  BY <1>1, <1>2, <1>3, <1>4, <1>5 DEF Keys
<1>7. ConvOf[toPostgres[j].key] = ConvOf[toPostgres[n].key] /\ j < n /\ messages[k].seq = toPostgres[j].seq
  BY <1>1, <1>3, <1>4, <1>5, <1>6 DEF RowFrom, Keys
<1> QED
  BY <1>3, <1>7 DEF LogSound, Seqs

(* What the insert statement does to the rows. *)
LEMMA RowsAfter ==
    ASSUME PersistTypeOK, LogSound, NEW c \in Convs, messages' = MessagesAfter(c)
    PROVE  /\ messages' \in [ClientKeys -> [seq : Nat, srv : Nat]]
           /\ \A k \in ClientKeys : messages[k] # NoRow => messages'[k] = messages[k]
           /\ \A k \in ClientKeys : messages'[k] # messages[k] =>
                 /\ messages[k] = NoRow /\ ConvOf[k] = c
                 /\ \E n \in Inserted(c) :
                       /\ Keys(n) = k /\ messages'[k].seq = Seqs(n) /\ messages'[k].srv = toPostgres[n].srv
           /\ \A n \in BatchOf(c) : messages'[Keys(n)] # NoRow
<1> DEFINE row(n) == [seq |-> Seqs(n), srv |-> toPostgres[n].srv]
<1>1. ASSUME NEW n \in Inserted(c)
      PROVE  /\ n \in BatchOf(c) /\ messages[Keys(n)] = NoRow /\ Keys(n) \in ClientKeys /\ ConvOf[Keys(n)] = c
             /\ row(n) \in [seq : Nat, srv : Nat] /\ row(n) # NoRow
             /\ messages'[Keys(n)] = row(n)
  <2>1. n \in BatchOf(c) /\ messages[Keys(n)] = NoRow
    BY DEF Inserted, Keys
  <2>2. /\ n \in DOMAIN toPostgres /\ Keys(n) \in ClientKeys /\ ConvOf[Keys(n)] = c
        /\ Seqs(n) \in Nat /\ toPostgres[n].srv \in Nat
    BY <2>1, BatchInLog, LogTyped
  <2>3. Seqs(n) >= 1
    BY <2>2 DEF LogSound, Seqs
  <2>4. row(n) \in [seq : Nat, srv : Nat] /\ row(n) # NoRow
    BY <2>2, <2>3 DEF NoRow
  <2> DEFINE x == CHOOSE x \in Inserted(c) : toPostgres[x].key = Keys(n)
  <2>5. x \in Inserted(c) /\ Keys(x) = Keys(n)
    BY DEF Keys
  <2>6. messages'[Keys(n)] = [seq |-> toPostgres[x].seq, srv |-> toPostgres[x].srv]
    BY <2>2 DEF MessagesAfter, Keys
  <2> HIDE DEF x
  <2>7. x = n
    BY <2>5, InsertedApart
  <2> QED
    BY <2>1, <2>2, <2>4, <2>6, <2>7 DEF Seqs
<1>2. ASSUME NEW k \in ClientKeys, \A n \in Inserted(c) : Keys(n) # k
      PROVE  messages'[k] = messages[k]
  BY <1>2 DEF MessagesAfter, Keys
<1>3. messages' \in [ClientKeys -> [seq : Nat, srv : Nat]]
  <2>1. messages' = [k \in ClientKeys |-> messages'[k]] /\ DOMAIN messages' = ClientKeys
    BY DEF MessagesAfter
  <2>2. ASSUME NEW k \in ClientKeys
        PROVE  messages'[k] \in [seq : Nat, srv : Nat]
    <3>1. CASE \E n \in Inserted(c) : Keys(n) = k
      <4>1. PICK n \in Inserted(c) : Keys(n) = k
        BY <3>1
      <4>2. messages'[k] = row(n) /\ row(n) \in [seq : Nat, srv : Nat]
        BY <1>1, <4>1
      <4> HIDE DEF row
      <4> QED
        BY <4>2
    <3>2. CASE \A n \in Inserted(c) : Keys(n) # k
      <4>1. messages'[k] = messages[k] /\ messages[k] \in [seq : Nat, srv : Nat]
        BY <1>2, <3>2 DEF PersistTypeOK
      <4> QED
        BY <4>1
    <3> QED
      BY <3>1, <3>2
  <2> QED
    BY <2>1, <2>2
<1>4. \A k \in ClientKeys : messages[k] # NoRow => messages'[k] = messages[k]
  BY <1>1, <1>2, SMTT(10), ZenonT(30)
<1>5. ASSUME NEW k \in ClientKeys, messages'[k] # messages[k]
      PROVE  /\ messages[k] = NoRow /\ ConvOf[k] = c
             /\ \E n \in Inserted(c) :
                   /\ Keys(n) = k /\ messages'[k].seq = Seqs(n) /\ messages'[k].srv = toPostgres[n].srv
  <2>1. PICK n \in Inserted(c) : Keys(n) = k
    BY <1>2, <1>5
  <2>2. messages'[k] = row(n) /\ messages[k] = NoRow /\ ConvOf[k] = c
    BY <1>1, <2>1
  <2> QED
    BY <2>1, <2>2
<1>6. ASSUME NEW n \in BatchOf(c)
      PROVE  messages'[Keys(n)] # NoRow
  <2>1. Keys(n) \in ClientKeys
    BY BatchInLog, LogTyped
  <2>2. CASE messages[Keys(n)] = NoRow
    <3>1. PICK m \in Inserted(c) : Keys(m) = Keys(n)
      BY <2>2, InsertedOnce
    <3> QED
      BY <1>1, <3>1
  <2> QED
    BY <1>4, <2>1, <2>2
<1> QED
  BY <1>3, <1>4, <1>5, <1>6

-----------------------------------------------------------------------------
(*                       The state of a user                               *)

SeenBy(c, u) == {n \in BatchOf(c) : u \in VisibleTo[Keys(n)]}
SentBy(c, u) == {Seqs(n) : n \in {m \in BatchOf(c) : SenderOf[Keys(m)] = u}}

(* The row a batch finds or creates, before the user's own messages count. *)
Created(c, u, s) ==
    \/ s = [read |-> 0, start |-> 0]
    \/ \E n \in SeenBy(c, u) : /\ \A m \in SeenBy(c, u) : n <= m
                               /\ s = [read |-> Seqs(n) - 1, start |-> Seqs(n) - 1]

LEMMA StateTyped ==
    ASSUME PersistTypeOK, NEW c \in Convs, NEW u \in Users
    PROVE  /\ states[c][u] # NoState => states[c][u].read \in Nat /\ states[c][u].start \in Nat
           /\ states[c][u].read \in Int /\ states[c][u].start \in Int /\ states[c][u].read >= -1
           /\ states[c][u] = NoState => states[c][u].read = -1 /\ states[c][u].start = -1
<1>1. states[c][u] \in [read : Nat, start : Nat] \cup {NoState}
  BY DEF PersistTypeOK
<1> QED
  BY <1>1 DEF NoState

LEMMA StateOfBatch ==
    ASSUME PersistTypeOK, LogSound, NEW c \in Convs, IsNext(c), NEW u \in Users
    PROVE  \E old :
              /\ \/ old = states[c][u] /\ (states[c][u] # NoState \/ SeenBy(c, u) = {})
                 \/ states[c][u] = NoState /\ SeenBy(c, u) # {} /\ Created(c, u, old)
              /\ StateAfter(c, u) = [read |-> StateAfter(c, u).read, start |-> old.start]
              /\ StateAfter(c, u).start = old.start
              /\ StateAfter(c, u).read \in {old.read} \cup SentBy(c, u)
              /\ \A x \in {old.read} \cup SentBy(c, u) : x <= StateAfter(c, u).read
              /\ old.read \in Int /\ old.start \in Int
              /\ states[c][u] = NoState /\ SeenBy(c, u) # {} => old.read \in Nat /\ old.start \in Nat
<1> DEFINE seen == SeenBy(c, u)
           sent == SentBy(c, u)
           n1 == CHOOSE n \in seen : \A m \in seen : n <= m
           init == IF c \in Groups THEN Seqs(n1) - 1 ELSE 0
           old == IF states[c][u] = NoState /\ seen # {} THEN [read |-> init, start |-> init] ELSE states[c][u]
           r == Largest({old.read} \cup sent)
           z == Largest(BatchOf(c))
<1>1. StateAfter(c, u) = [read |-> r, start |-> old.start]
  BY DEF StateAfter, SeenBy, SentBy, Seqs, Keys
<1>2. seen # {} => n1 \in seen /\ \A m \in seen : n1 <= m
  <2>1. seen \in SUBSET Nat
    BY BatchInLog DEF SeenBy
  <2>2. seen # {} => \E n \in seen : \A m \in seen : n <= m
    BY <2>1, LeastOf
  <2> HIDE DEF seen
  <2> QED
    BY <2>2
<1>3. \A n \in BatchOf(c) : n \in DOMAIN toPostgres /\ Seqs(n) \in Nat /\ Seqs(n) >= 1
  BY BatchInLog, LogTyped DEF LogSound, Seqs
<1>4. seen \subseteq BatchOf(c)
  BY DEF SeenBy
<1> HIDE DEF seen, n1
<1>5. seen # {} => init \in Nat
  <2>1. seen # {} => Seqs(n1) - 1 \in Nat
    BY <1>2, <1>3, <1>4
  <2> QED
    BY <2>1
<1>6. /\ states[c][u] = NoState /\ seen # {} => Created(c, u, old) /\ old.read \in Nat /\ old.start \in Nat
      /\ ~(states[c][u] = NoState /\ seen # {}) => old = states[c][u]
  <2>1. CASE states[c][u] = NoState /\ seen # {}
    <3>1. old = [read |-> init, start |-> init]
      BY <2>1
    <3>2. Created(c, u, old)
      BY <1>2, <2>1, <3>1 DEF Created, seen
    <3>3. old.read = init /\ old.start = init
      BY <3>1
    <3> QED
      BY <1>5, <2>1, <3>2, <3>3
  <2> QED
    BY <2>1
<1>7. old.read \in Int /\ old.start \in Int
  BY <1>6, StateTyped
<1> HIDE DEF old
<1>8. z \in BatchOf(c) /\ \A n \in BatchOf(c) : Seqs(n) <= Seqs(z)
  BY LastOfBatch
<1> HIDE DEF z
<1>9. sent \in SUBSET Int /\ \A x \in sent : x <= Seqs(z) /\ Seqs(z) \in Int
  BY <1>3, <1>8 DEF SentBy
<1>10. r \in {old.read} \cup sent /\ \A x \in {old.read} \cup sent : x <= r
  <2> DEFINE S == {old.read} \cup sent
             N == IF old.read <= Seqs(z) THEN Seqs(z) ELSE old.read
  <2>1. Seqs(z) \in Int
    BY <1>3, <1>8
  <2>2. S \in SUBSET Int /\ S # {} /\ N \in Int /\ \A x \in S : x <= N
    BY <1>7, <1>9, <2>1
  <2> HIDE DEF S, N
  <2>3. Largest(S) \in S /\ \A x \in S : x <= Largest(S)
    BY <2>2, LargestOf
  <2> QED
    BY <2>3 DEF S
<1> HIDE DEF r, sent
<1>11. StateAfter(c, u).read = r /\ StateAfter(c, u).start = old.start
  BY <1>1
<1> QED
  BY <1>1, <1>6, <1>7, <1>10, <1>11 DEF seen, sent

-----------------------------------------------------------------------------
(*                            A transaction                                *)

RowsForward ==
    \A k \in ClientKeys : messages'[k] # messages[k] =>
        messages[k] = NoRow /\ \A j \in RowsOf(ConvOf[k]) : messages[j].seq < messages'[k].seq
MarkersForward ==
    \A c \in Convs : /\ threads'[c].maxSeq >= threads[c].maxSeq
                     /\ \A u \in Users : states'[c][u].read >= states[c][u].read

LEMMA ThreadTyped ==
    ASSUME PersistTypeOK, NEW c \in Convs
    PROVE  /\ threads[c].maxSeq \in Int /\ threads[c].maxSeq >= -1
           /\ threads[c] # NoThread => threads[c].maxSeq \in Nat /\ threads[c].last \in Nat
           /\ threads[c] = NoThread => threads[c].maxSeq = -1
<1>1. threads[c] \in [maxSeq : Nat, last : Nat] \cup {NoThread}
  BY DEF PersistTypeOK
<1> QED
  BY <1>1 DEF NoThread

LEMMA RowTypedSeq ==
    ASSUME PersistTypeOK, NEW k \in ClientKeys
    PROVE  messages[k].seq \in Nat /\ messages[k].srv \in Nat
<1>1. messages[k] \in [seq : Nat, srv : Nat]
  BY DEF PersistTypeOK
<1> QED
  BY <1>1

(* A row has a positive seq. *)
LEMMA RowSeqPositive ==
    ASSUME PersistTypeOK, LogSound, RowsArePrefix, NEW k \in ClientKeys, messages[k] # NoRow
    PROVE  messages[k].seq >= 1
<1>1. PICK j \in DOMAIN toPostgres : RowFrom(k, j)
  BY DEF RowsArePrefix
<1> QED
  BY <1>1 DEF RowFrom, LogSound

(* The thread after the batch. *)
LEMMA ThreadOfBatch ==
    ASSUME PersistTypeOK, LogSound, NEW c \in Convs, IsNext(c)
    PROVE  LET z == Largest(BatchOf(c))
           IN  /\ ThreadAfter(c) \in [maxSeq : Nat, last : Nat]
               /\ ThreadAfter(c).maxSeq >= threads[c].maxSeq /\ ThreadAfter(c).maxSeq >= Seqs(z)
               /\ ThreadAfter(c).maxSeq > 0
               /\ \/ ThreadAfter(c).last = toPostgres[z].srv
                  \/ ThreadAfter(c).last = threads[c].last /\ threads[c].maxSeq > 0
<1> DEFINE z == Largest(BatchOf(c))
           old == UpsertThread(c)
           m == Larger(old.maxSeq, toPostgres[z].seq)
           l == IF toPostgres[z].seq >= old.maxSeq THEN toPostgres[z].srv ELSE old.last
<1>1. z \in DOMAIN toPostgres /\ Seqs(z) \in Nat /\ toPostgres[z].srv \in Nat
  BY LastOfBatch, BatchInLog, LogTyped
<1>2. Seqs(z) >= 1
  BY <1>1 DEF LogSound, Seqs
<1>3. ThreadAfter(c) = [maxSeq |-> m, last |-> l]
  BY DEF ThreadAfter
<1> HIDE DEF z
<1>4. /\ old.maxSeq \in Nat /\ old.last \in Nat /\ old.maxSeq >= threads[c].maxSeq
      /\ old.maxSeq > 0 => old.last = threads[c].last /\ old.maxSeq = threads[c].maxSeq
  <2>1. CASE threads[c] = NoThread
    <3>1. old = [maxSeq |-> 0, last |-> 0]
      BY <2>1 DEF UpsertThread
    <3>2. old.maxSeq = 0 /\ old.last = 0
      BY <3>1
    <3> HIDE DEF old
    <3> QED
      BY <2>1, <3>2, ThreadTyped
  <2>2. CASE threads[c] # NoThread
    <3>1. old = threads[c]
      BY <2>2 DEF UpsertThread
    <3> HIDE DEF old
    <3> QED
      BY <2>2, <3>1, ThreadTyped
  <2> QED
    BY <2>1, <2>2
<1> HIDE DEF old
<1>5. m \in Nat /\ m >= old.maxSeq /\ m >= Seqs(z) /\ l \in Nat
  BY <1>1, <1>4 DEF Larger, Seqs
<1>6. l = toPostgres[z].srv \/ (l = threads[c].last /\ threads[c].maxSeq > 0)
  BY <1>1, <1>2, <1>4 DEF Seqs
<1> HIDE DEF m, l
<1>7. ThreadAfter(c) \in [maxSeq : Nat, last : Nat] /\ ThreadAfter(c).maxSeq = m /\ ThreadAfter(c).last = l
  BY <1>3, <1>5
<1>8. threads[c].maxSeq \in Int
  BY ThreadTyped
<1> QED
  BY <1>1, <1>2, <1>4, <1>5, <1>6, <1>7, <1>8 DEF z

(* A user without a row sees none of the rows, so that the first message    *)
(* visible in the batch is one the batch inserts.                           *)
LEMMA FirstSeenIsInserted ==
    ASSUME PersistTypeOK, NothingHidden, NEW c \in Convs, NEW u \in Users, states[c][u] = NoState,
           NEW n \in SeenBy(c, u), \A m \in SeenBy(c, u) : n <= m
    PROVE  n \in Inserted(c)
<1>1. n \in BatchOf(c) /\ u \in VisibleTo[Keys(n)]
  BY DEF SeenBy
<1>2. n \in DOMAIN toPostgres /\ Keys(n) \in ClientKeys /\ ConvOf[Keys(n)] = c
  BY <1>1, BatchInLog, LogTyped
<1>3. messages[Keys(n)] = NoRow
  BY <1>1, <1>2 DEF NothingHidden
<1>4. \A m \in BatchOf(c) : m < n => Keys(m) # Keys(n)
  <2> SUFFICES ASSUME NEW m \in BatchOf(c), m < n, Keys(m) = Keys(n)
               PROVE  FALSE
    OBVIOUS
  <2>1. m \in SeenBy(c, u)
    BY <1>1 DEF SeenBy
  <2>2. n <= m /\ m \in Nat /\ n \in Nat
    BY <1>1, <2>1, BatchInLog
  <2> QED
    BY <2>2
<1> QED
  BY <1>1, <1>3, <1>4 DEF Inserted, Keys

LEMMA StateStep ==
    ASSUME PersistTypeOK, LogSound, NothingHidden, ReadMarkersInRange, NEW c \in Convs, IsNext(c), NEW u \in Users
    PROVE  LET s == states[c][u]
               t == StateAfter(c, u)
               z == Largest(BatchOf(c))
           IN  /\ t \in [read : Nat, start : Nat] \cup {NoState}
               /\ s # NoState => t # NoState /\ t.start = s.start
               /\ s = NoState /\ t # NoState =>
                     t.start = 0 \/ \E n \in Inserted(c) : t.start = Seqs(n) - 1 /\ \A m \in SeenBy(c, u) : n <= m
               /\ SeenBy(c, u) # {} => t # NoState
               /\ t.read >= s.read
               /\ \A n \in BatchOf(c) : SenderOf[Keys(n)] = u => t.read >= Seqs(n)
               /\ t # NoState => t.start <= t.read /\ (t.read <= s.read \/ t.read <= Seqs(z))
<1> DEFINE s == states[c][u]
           t == StateAfter(c, u)
           z == Largest(BatchOf(c))
<1>1. PICK old :
         /\ \/ old = states[c][u] /\ (states[c][u] # NoState \/ SeenBy(c, u) = {})
            \/ states[c][u] = NoState /\ SeenBy(c, u) # {} /\ Created(c, u, old)
         /\ StateAfter(c, u) = [read |-> StateAfter(c, u).read, start |-> old.start]
         /\ StateAfter(c, u).start = old.start
         /\ StateAfter(c, u).read \in {old.read} \cup SentBy(c, u)
         /\ \A x \in {old.read} \cup SentBy(c, u) : x <= StateAfter(c, u).read
         /\ old.read \in Int /\ old.start \in Int
         /\ states[c][u] = NoState /\ SeenBy(c, u) # {} => old.read \in Nat /\ old.start \in Nat
  BY StateOfBatch
<1>2. \A n \in BatchOf(c) : n \in DOMAIN toPostgres /\ Seqs(n) \in Nat /\ Seqs(n) >= 1 /\ Keys(n) \in ClientKeys
  BY BatchInLog, LogTyped DEF LogSound, Seqs
<1>3. z \in BatchOf(c) /\ \A n \in BatchOf(c) : Seqs(n) <= Seqs(z)
  BY LastOfBatch
<1>4. \A x \in SentBy(c, u) : x \in Nat /\ x <= Seqs(z) /\ SeenBy(c, u) # {}
  BY <1>2, <1>3, PersistConstants DEF SentBy, SeenBy
<1>5. /\ s # NoState => s.read \in Nat /\ s.start \in Nat
      /\ s.read \in Int /\ s.start \in Int /\ s.read >= -1
      /\ s = NoState => s.read = -1 /\ s.start = -1
  BY StateTyped
<1>6. s # NoState => s.start <= s.read
  BY DEF ReadMarkersInRange
<1> HIDE DEF s, t, z
<1>7. t.read \in Int /\ t.start = old.start /\ t = [read |-> t.read, start |-> old.start]
  BY <1>1, <1>4 DEF t
<1>8. \A n \in BatchOf(c) : SenderOf[Keys(n)] = u => t.read >= Seqs(n)
  BY <1>1 DEF SentBy, t
<1>9. t.read = old.read \/ (t.read \in Nat /\ t.read <= Seqs(z) /\ SeenBy(c, u) # {})
  BY <1>1, <1>4 DEF t
<1>10. t.read >= old.read
  BY <1>1 DEF t
<1>11. CASE s # NoState
  <2>1. old = s
    BY <1>1, <1>11 DEF s
  <2>2. t.read \in Nat /\ t.start \in Nat /\ t.start = s.start /\ t.read >= s.read
    BY <1>5, <1>7, <1>10, <1>11, <2>1
  <2>3. t \in [read : Nat, start : Nat] /\ t # NoState
    BY <1>7, <2>2 DEF NoState
  <2>4. t.start <= t.read /\ (t.read <= s.read \/ t.read <= Seqs(z))
    BY <1>5, <1>6, <1>7, <1>9, <1>11, <2>1, <2>2
  <2> QED
    BY <1>8, <1>11, <2>2, <2>3, <2>4 DEF s, t, z
<1>12. CASE s = NoState /\ SeenBy(c, u) = {}
  <2>1. old = s
    BY <1>1, <1>12 DEF s
  <2>2. t.read = -1 /\ old.start = -1
    BY <1>5, <1>9, <1>12, <2>1
  <2>3. t = NoState
    BY <1>7, <2>2 DEF NoState
  <2> QED
    BY <1>5, <1>8, <1>12, <2>2, <2>3 DEF s, t, z
<1>13. CASE s = NoState /\ SeenBy(c, u) # {}
  <2>1. Created(c, u, old) /\ old.read \in Nat /\ old.start \in Nat
    BY <1>1, <1>13 DEF s, NoState
  <2>2. t.read \in Nat /\ t.start \in Nat /\ t.read >= s.read
    BY <1>5, <1>7, <1>10, <1>13, <2>1
  <2>3. t \in [read : Nat, start : Nat] /\ t # NoState
    BY <1>7, <2>2 DEF NoState
  <2>4. CASE old = [read |-> 0, start |-> 0]
    <3>1. old.read = 0 /\ old.start = 0
      BY <2>4
    <3>2. t.start = 0 /\ t.start <= t.read /\ (t.read <= s.read \/ t.read <= Seqs(z))
      BY <1>2, <1>3, <1>7, <1>9, <2>2, <3>1
    <3> QED
      BY <1>8, <1>13, <2>2, <2>3, <3>2 DEF s, t, z
  <2>5. CASE \E n \in SeenBy(c, u) : /\ \A m \in SeenBy(c, u) : n <= m
                                     /\ old = [read |-> Seqs(n) - 1, start |-> Seqs(n) - 1]
    <3>1. PICK n \in SeenBy(c, u) : /\ \A m \in SeenBy(c, u) : n <= m
                                    /\ old = [read |-> Seqs(n) - 1, start |-> Seqs(n) - 1]
      BY <2>5
    <3>2. old.read = Seqs(n) - 1 /\ old.start = Seqs(n) - 1
      BY <3>1
    <3>3. n \in BatchOf(c) /\ Seqs(n) \in Nat /\ Seqs(n) <= Seqs(z) /\ Seqs(z) \in Nat
      BY <1>2, <1>3 DEF SeenBy
    <3>4. n \in Inserted(c)
      BY <1>13, <3>1, FirstSeenIsInserted DEF s
    <3>5. t.start = Seqs(n) - 1 /\ t.start <= t.read /\ (t.read <= s.read \/ t.read <= Seqs(z))
      BY <1>7, <1>9, <1>10, <3>2, <3>3
    <3> QED
      BY <1>8, <1>13, <2>2, <2>3, <3>1, <3>4, <3>5 DEF s, t, z
  <2> QED
    BY <2>1, <2>4, <2>5 DEF Created
<1> QED
  BY <1>11, <1>12, <1>13

(* One transaction of the consumer. *)
LEMMA BatchStep ==
    ASSUME PersistInv, NEW c \in Convs, PersistBatch(c)
    PROVE  PersistInv' /\ RowsForward /\ MarkersForward
<1> DEFINE z == Largest(BatchOf(c))
<1>0. /\ PersistTypeOK /\ LogSound /\ RowsArePrefix /\ CommittedIsArchived /\ HandledIsArchived
      /\ ThreadCoversRows /\ NothingHidden /\ ReadMarkersInRange /\ LastIsRow /\ StartBelowRows
  BY DEF PersistInv, TablesAgree
<1>1. /\ pPhase = "handle" /\ IsNext(c) /\ messages' = MessagesAfter(c) /\ pDone' = pDone \cup {c}
      /\ UNCHANGED <<toPostgres, pCommitted, pPolled, pPhase, pFaults>>
      /\ states' = [states EXCEPT ![c] = [u \in Users |-> StateAfter(c, u)]]
      /\ threads' = [threads EXCEPT ![c] = ThreadAfter(c)]
  BY DEF PersistBatch
<1>2. /\ messages' \in [ClientKeys -> [seq : Nat, srv : Nat]]
      /\ \A k \in ClientKeys : messages[k] # NoRow => messages'[k] = messages[k]
      /\ \A k \in ClientKeys : messages'[k] # messages[k] =>
            /\ messages[k] = NoRow /\ ConvOf[k] = c
            /\ \E n \in Inserted(c) :
                  /\ Keys(n) = k /\ messages'[k].seq = Seqs(n) /\ messages'[k].srv = toPostgres[n].srv
      /\ \A n \in BatchOf(c) : messages'[Keys(n)] # NoRow
  BY <1>0, <1>1, RowsAfter
<1>3. /\ threads'[c] = ThreadAfter(c) /\ \A d \in Convs : d # c => threads'[d] = threads[d]
      /\ \A u \in Users : states'[c][u] = StateAfter(c, u)
      /\ \A d \in Convs : d # c => states'[d] = states[d]
  BY <1>0, <1>1 DEF PersistTypeOK
<1>4. /\ threads'[c] \in [maxSeq : Nat, last : Nat]
      /\ threads'[c].maxSeq >= threads[c].maxSeq /\ threads'[c].maxSeq >= Seqs(z) /\ threads'[c].maxSeq > 0
      /\ \/ threads'[c].last = toPostgres[z].srv
         \/ threads'[c].last = threads[c].last /\ threads[c].maxSeq > 0
  BY <1>0, <1>1, <1>3, ThreadOfBatch
<1>5. z \in BatchOf(c) /\ \A n \in BatchOf(c) : Seqs(n) <= Seqs(z)
  BY <1>0, <1>1, LastOfBatch
<1>6. \A n \in BatchOf(c) : /\ n \in DOMAIN toPostgres /\ Keys(n) \in ClientKeys /\ Seqs(n) \in Nat /\ n \in Nat
                            /\ ConvOf[Keys(n)] = c /\ Seqs(n) >= 1
  BY <1>0, BatchInLog, LogTyped DEF LogSound, Seqs
<1>7. Inserted(c) \subseteq BatchOf(c)
  BY DEF Inserted
<1>8. ASSUME NEW u \in Users
      PROVE  /\ states'[c][u] \in [read : Nat, start : Nat] \cup {NoState}
             /\ states[c][u] # NoState => states'[c][u] # NoState /\ states'[c][u].start = states[c][u].start
             /\ states[c][u] = NoState /\ states'[c][u] # NoState =>
                   \/ states'[c][u].start = 0
                   \/ \E n \in Inserted(c) : states'[c][u].start = Seqs(n) - 1 /\ \A m \in SeenBy(c, u) : n <= m
             /\ SeenBy(c, u) # {} => states'[c][u] # NoState
             /\ states'[c][u].read >= states[c][u].read
             /\ \A n \in BatchOf(c) : SenderOf[Keys(n)] = u => states'[c][u].read >= Seqs(n)
             /\ states'[c][u] # NoState =>
                   /\ states'[c][u].start <= states'[c][u].read
                   /\ states'[c][u].read <= states[c][u].read \/ states'[c][u].read <= Seqs(z)
  BY <1>0, <1>1, <1>3, StateStep
<1> HIDE DEF z
<1>9. PersistTypeOK'
  <2>1. threads' \in [Convs -> [maxSeq : Nat, last : Nat] \cup {NoThread}]
    BY <1>0, <1>1, <1>3, <1>4 DEF PersistTypeOK
  <2>2. states' \in [Convs -> [Users -> [read : Nat, start : Nat] \cup {NoState}]]
    <3>1. [u \in Users |-> StateAfter(c, u)] \in [Users -> [read : Nat, start : Nat] \cup {NoState}]
      BY <1>3, <1>8
    <3> QED
      BY <1>0, <1>1, <3>1 DEF PersistTypeOK
  <2> QED
    BY <1>0, <1>1, <1>2, <2>1, <2>2 DEF PersistTypeOK
<1>10. LogSound' /\ CommittedIsArchived'
  <2>1. \A n \in 1 .. pCommitted : n \in DOMAIN toPostgres /\ toPostgres[n].key \in ClientKeys
    BY <1>0, BatchInLog, LogTyped DEF Keys
  <2> QED
    BY <1>0, <1>1, <1>2, <2>1 DEF LogSound, CommittedIsArchived
<1>11. HandledIsArchived'
  <2>1. \A d \in Convs : BatchOf(d)' = BatchOf(d)
    BY <1>1 DEF BatchOf
  <2>2. \A d \in pDone : d \in Convs
    BY <1>0 DEF PersistTypeOK
  <2>3. \A d \in pDone : \A n \in BatchOf(d) : messages[Keys(n)] # NoRow
    BY <1>0, <1>1 DEF HandledIsArchived, Keys
  <2>4. \A d \in Convs : \A n \in BatchOf(d) : Keys(n) \in ClientKeys
    BY <1>0, BatchInLog, LogTyped
  <2>5. \A d \in pDone' : \A n \in BatchOf(d) : messages'[Keys(n)] # NoRow
    BY <1>1, <1>2, <2>2, <2>3, <2>4
  <2> QED
    BY <1>1, <2>1, <2>2, <2>5 DEF HandledIsArchived, Keys
<1>12. RowsArePrefix'
  <2> SUFFICES ASSUME NEW k \in ClientKeys, messages'[k] # NoRow
               PROVE  \E n \in DOMAIN toPostgres :
                         /\ RowFrom(k, n)'
                         /\ \A m \in 1 .. n : ConvOf[Keys(m)] = ConvOf[k] => messages'[Keys(m)] # NoRow
    BY <1>1 DEF RowsArePrefix, Keys
  <2>1. CASE messages[k] # NoRow
    <3>1. PICK n \in DOMAIN toPostgres :
             /\ RowFrom(k, n)
             /\ \A m \in 1 .. n : ConvOf[Keys(m)] = ConvOf[k] => messages[Keys(m)] # NoRow
      BY <1>0, <2>1 DEF RowsArePrefix, Keys
    <3>2. messages'[k] = messages[k] /\ RowFrom(k, n)'
      BY <1>1, <1>2, <2>1, <3>1 DEF RowFrom
    <3>3. \A m \in 1 .. n : Keys(m) \in ClientKeys
      BY <1>0, BatchInLog, LogTyped
    <3> QED
      BY <1>2, <3>1, <3>2, <3>3
  <2>2. CASE messages[k] = NoRow
    <3>1. PICK n \in Inserted(c) :
             /\ Keys(n) = k /\ messages'[k].seq = Seqs(n) /\ messages'[k].srv = toPostgres[n].srv
      BY <1>2, <2>2
    <3>2. n \in BatchOf(c) /\ n \in DOMAIN toPostgres /\ ConvOf[k] = c /\ n \in Nat
      BY <1>6, <1>7, <3>1
    <3>3. RowFrom(k, n)'
      BY <1>1, <3>1 DEF RowFrom, Seqs, Keys
    <3>4. ASSUME NEW m \in 1 .. n, ConvOf[Keys(m)] = ConvOf[k]
          PROVE  messages'[Keys(m)] # NoRow
      <4>1. m \in DOMAIN toPostgres /\ Keys(m) \in ClientKeys /\ m <= pPolled
            /\ pCommitted \in Nat /\ pPolled \in Nat
        BY <1>0, <3>2, BatchInLog, LogTyped
      <4>2. CASE m <= pCommitted
        BY <1>0, <1>2, <4>1, <4>2 DEF CommittedIsArchived, Keys
      <4>3. CASE m > pCommitted
        <5>1. m \in BatchOf(c)
          BY <3>2, <3>4, <4>1, <4>3 DEF BatchOf, Keys
        <5> QED
          BY <1>2, <5>1
      <4> QED
        BY <4>1, <4>2, <4>3
    <3> QED
      BY <3>2, <3>3, <3>4
  <2> QED
    BY <2>1, <2>2
<1>13. \A d \in Convs : RowsOf(d) \subseteq RowsOf(d)' /\ (d # c => RowsOf(d)' = RowsOf(d))
  BY <1>2 DEF RowsOf
<1>14. ASSUME NEW d \in Convs, NEW k \in RowsOf(d)'
       PROVE  \/ k \in RowsOf(d) /\ messages'[k] = messages[k]
              \/ /\ d = c /\ messages[k] = NoRow
                 /\ \E n \in Inserted(c) : Keys(n) = k /\ messages'[k].seq = Seqs(n)
  BY <1>2, <1>14 DEF RowsOf
<1>15. ThreadCoversRows' /\ LastIsRow'
  <2>1. ASSUME NEW d \in Convs, NEW k \in RowsOf(d)'
        PROVE  messages'[k].seq <= threads'[d].maxSeq
    <3>1. CASE d # c
      BY <1>0, <1>3, <1>14, <2>1, <3>1 DEF ThreadCoversRows
    <3>2. CASE d = c /\ k \in RowsOf(d) /\ messages'[k] = messages[k]
      <4>1. messages[k].seq <= threads[c].maxSeq /\ messages[k].seq \in Nat
            /\ threads[c].maxSeq \in Int /\ threads'[c].maxSeq \in Nat
        BY <1>0, <1>4, <3>2, ThreadTyped, RowTypedSeq DEF ThreadCoversRows, RowsOf
      <4> QED
        BY <1>4, <3>2, <4>1
    <3>3. CASE d = c /\ \E n \in Inserted(c) : Keys(n) = k /\ messages'[k].seq = Seqs(n)
      <4>1. PICK n \in Inserted(c) : messages'[k].seq = Seqs(n)
        BY <3>3
      <4>2. Seqs(n) <= Seqs(z) /\ Seqs(n) \in Nat /\ Seqs(z) \in Nat /\ threads'[c].maxSeq \in Nat
        BY <1>4, <1>5, <1>6, <1>7
      <4> QED
        BY <1>4, <3>3, <4>1, <4>2
    <3> QED
      BY <1>14, <2>1, <3>1, <3>2, <3>3
  <2>2. \E k \in RowsOf(c)' : messages'[k].srv = threads'[c].last
    <3>1. CASE threads'[c].last = toPostgres[z].srv
      <4>1. z \in DOMAIN toPostgres /\ messages'[Keys(z)] # NoRow /\ Keys(z) \in ClientKeys /\ ConvOf[Keys(z)] = c
        BY <1>2, <1>5, <1>6
      <4>2. Keys(z) \in RowsOf(c)'
        BY <4>1 DEF RowsOf
      <4>3. messages'[Keys(z)].srv = toPostgres[z].srv
        <5>1. PICK k \in ClientKeys : k = Keys(z)
          BY <4>1
        <5>2. PICK j \in DOMAIN toPostgres : toPostgres[j].key = k /\ messages'[k].srv = toPostgres[j].srv
          BY <1>1, <1>12, <4>1, <5>1 DEF RowsArePrefix, RowFrom
        <5>3. toPostgres[j].key = toPostgres[z].key
          BY <5>1, <5>2 DEF Keys
        <5> QED
          BY <1>0, <4>1, <5>1, <5>2, <5>3 DEF LogSound
      <4> QED
        BY <3>1, <4>2, <4>3
    <3>2. CASE threads'[c].last = threads[c].last /\ threads[c].maxSeq > 0
      <4>1. PICK k \in RowsOf(c) : messages[k].srv = threads[c].last
        BY <1>0, <3>2 DEF LastIsRow
      <4>2. messages'[k] = messages[k] /\ k \in RowsOf(c)'
        BY <1>2, <1>13 DEF RowsOf
      <4> QED
        BY <3>2, <4>1, <4>2
    <3> QED
      BY <1>4, <3>1, <3>2
  <2>3. \A d \in Convs : d # c => RowsOf(d)' = RowsOf(d) /\ \A k \in RowsOf(d) : messages'[k] = messages[k]
    BY <1>2, <1>13 DEF RowsOf
  <2>4. ThreadCoversRows'
    BY <1>0, <1>3, <2>1, <2>2, <2>3 DEF ThreadCoversRows
  <2>5. LastIsRow'
    BY <1>0, <1>3, <2>2, <2>3 DEF LastIsRow
  <2> QED
    BY <2>4, <2>5
<1>16. \A n \in Inserted(c) : messages'[Keys(n)] # messages[Keys(n)] /\ Keys(n) \in RowsOf(c)'
  BY <1>2, <1>6, <1>7 DEF Inserted, Keys, RowsOf
<1>17. StartBelowRows'
  <2> SUFFICES ASSUME NEW d \in Convs, NEW u \in Users, states'[d][u] # NoState
               PROVE  states'[d][u].start = 0 \/ \E k \in RowsOf(d)' : states'[d][u].start < messages'[k].seq
    BY DEF StartBelowRows
  <2>1. \A k \in RowsOf(d) : messages'[k] = messages[k] /\ k \in RowsOf(d)'
    BY <1>2, <1>13 DEF RowsOf
  <2>2. CASE d # c
    BY <1>0, <1>3, <2>1, <2>2 DEF StartBelowRows
  <2>3. CASE d = c /\ states[c][u] # NoState
    BY <1>0, <1>8, <2>1, <2>3 DEF StartBelowRows
  <2>4. CASE d = c /\ states[c][u] = NoState
    <3>1. CASE states'[c][u].start = 0
      BY <2>4, <3>1
    <3>2. CASE \E n \in Inserted(c) : states'[c][u].start = Seqs(n) - 1
      <4>1. PICK n \in Inserted(c) : states'[c][u].start = Seqs(n) - 1
        BY <3>2
      <4>2. PICK m \in Inserted(c) : Keys(m) = Keys(n) /\ messages'[Keys(n)].seq = Seqs(m)
        BY <1>2, <1>6, <1>7, <1>16
      <4>3. m = n /\ Keys(n) \in RowsOf(c)' /\ Seqs(n) \in Nat
        BY <1>0, <1>6, <1>7, <1>16, <4>2, InsertedApart
      <4>4. states'[c][u].start < messages'[Keys(n)].seq
        BY <4>1, <4>2, <4>3
      <4> QED
        BY <2>4, <4>3, <4>4
    <3> QED
      BY <1>8, <2>4, <3>1, <3>2
  <2> QED
    BY <2>2, <2>3, <2>4
<1>18. NothingHidden'
  <2> SUFFICES ASSUME NEW k \in ClientKeys, messages'[k] # NoRow, NEW u \in VisibleTo[k]
               PROVE  states'[ConvOf[k]][u] # NoState /\ states'[ConvOf[k]][u].start < messages'[k].seq
    BY DEF NothingHidden
  <2>0. u \in Users /\ ConvOf[k] \in Convs
    BY PersistConstants
  <2>1. CASE messages[k] # NoRow
    <3>1. /\ states[ConvOf[k]][u] # NoState /\ states[ConvOf[k]][u].start < messages[k].seq
          /\ messages'[k] = messages[k]
      BY <1>0, <1>2, <2>1 DEF NothingHidden
    <3> QED
      BY <1>3, <1>8, <2>0, <3>1
  <2>2. CASE messages[k] = NoRow
    <3>1. ConvOf[k] = c
      BY <1>2, <2>2
    <3>2. PICK n \in Inserted(c) : Keys(n) = k /\ messages'[k].seq = Seqs(n)
      BY <1>2, <2>2
    <3>3. n \in BatchOf(c) /\ n \in SeenBy(c, u) /\ n \in DOMAIN toPostgres /\ Seqs(n) \in Nat /\ Seqs(n) >= 1 /\ n \in Nat
      BY <1>6, <1>7, <3>2 DEF SeenBy
    <3>4. states'[c][u] # NoState
      BY <1>8, <2>0, <3>3
    <3>5. CASE states[c][u] # NoState
      <4>1. states'[c][u].start = states[c][u].start
        BY <1>8, <2>0, <3>5
      <4>2. CASE states[c][u].start = 0
        BY <3>1, <3>2, <3>3, <3>4, <4>1, <4>2
      <4>3. CASE \E j \in RowsOf(c) : states[c][u].start < messages[j].seq
        <5>1. PICK j \in RowsOf(c) : states[c][u].start < messages[j].seq
          BY <4>3
        <5>2. messages[j].seq < Seqs(n) /\ messages[j].seq \in Nat /\ states[c][u].start \in Nat
          BY <1>0, <2>0, <3>5, InsertedAfterRows, RowTypedSeq, StateTyped DEF RowsOf
        <5>3. states[c][u].start < Seqs(n)
          BY <3>3, <5>1, <5>2
        <5> QED
          BY <3>1, <3>2, <3>4, <4>1, <5>3
      <4> QED
        BY <1>0, <2>0, <3>5, <4>2, <4>3 DEF StartBelowRows
    <3>6. CASE states[c][u] = NoState
      <4>1. CASE states'[c][u].start = 0
        BY <3>1, <3>2, <3>3, <3>4, <4>1
      <4>2. CASE \E m \in Inserted(c) : states'[c][u].start = Seqs(m) - 1 /\ \A j \in SeenBy(c, u) : m <= j
        <5>1. PICK m \in Inserted(c) : states'[c][u].start = Seqs(m) - 1 /\ m <= n
          BY <3>3, <4>2
        <5>2. m \in BatchOf(c) /\ m \in DOMAIN toPostgres /\ Seqs(m) \in Nat /\ m \in Nat /\ ConvOf[Keys(m)] = c /\ ConvOf[Keys(n)] = c
          BY <1>6, <1>7, <3>3
        <5>3. Seqs(m) <= Seqs(n)
          <6>1. CASE m = n
            BY <5>2, <6>1
          <6>2. CASE m < n
            <7>1. Seqs(m) < Seqs(n)
              BY <1>0, <3>3, <5>2, <6>2 DEF LogSound, Seqs, Keys
            <7> QED
              BY <3>3, <5>2, <7>1
          <6> QED
            BY <3>3, <5>1, <5>2, <6>1, <6>2
        <5>4. states'[c][u].start < Seqs(n)
          BY <3>3, <5>1, <5>2, <5>3
        <5> QED
          BY <3>1, <3>2, <3>4, <5>4
      <4> QED
        BY <1>8, <2>0, <3>4, <3>6, <4>1, <4>2
    <3> QED
      BY <3>5, <3>6
  <2> QED
    BY <2>1, <2>2
<1>19. ReadMarkersInRange'
  <2>1. ASSUME NEW d \in Convs, NEW u \in Users, states'[d][u] # NoState
        PROVE  states'[d][u].start <= states'[d][u].read /\ states'[d][u].read <= threads'[d].maxSeq
    <3>1. CASE d # c
      BY <1>0, <1>3, <2>1, <3>1 DEF ReadMarkersInRange
    <3>2. CASE d = c
      <4>1. /\ states'[c][u].start <= states'[c][u].read
            /\ states'[c][u].read <= states[c][u].read \/ states'[c][u].read <= Seqs(z)
        BY <1>8, <2>1, <3>2
      <4>2. states'[c][u].read \in Nat /\ states[c][u].read \in Int /\ threads[c].maxSeq \in Int
            /\ threads'[c].maxSeq \in Nat /\ Seqs(z) \in Nat
        BY <1>0, <1>4, <1>5, <1>6, <1>8, <2>1, <3>2, StateTyped, ThreadTyped
      <4>3. CASE states'[c][u].read <= Seqs(z)
        BY <1>4, <3>2, <4>1, <4>2, <4>3
      <4>4. CASE states'[c][u].read <= states[c][u].read
        <5>1. states[c][u] # NoState
          BY <1>0, <4>2, <4>4, StateTyped
        <5>2. states[c][u].read <= threads[c].maxSeq
          BY <1>0, <5>1 DEF ReadMarkersInRange
        <5> QED
          BY <1>4, <3>2, <4>1, <4>2, <4>4, <5>2
      <4> QED
        BY <4>1, <4>3, <4>4
    <3> QED
      BY <3>1, <3>2
  <2>2. ASSUME NEW k \in ClientKeys, messages'[k] # NoRow
        PROVE  states'[ConvOf[k]][SenderOf[k]].read >= messages'[k].seq
    <3>0. SenderOf[k] \in Users /\ ConvOf[k] \in Convs
      BY PersistConstants
    <3>1. CASE messages[k] # NoRow
      <4>1. messages'[k] = messages[k] /\ states[ConvOf[k]][SenderOf[k]].read >= messages[k].seq /\ messages[k].seq \in Nat
        BY <1>0, <1>2, <3>1, RowTypedSeq DEF ReadMarkersInRange
      <4>2. CASE ConvOf[k] # c
        BY <1>3, <3>0, <4>1, <4>2
      <4>3. CASE ConvOf[k] = c
        <5>1. states'[c][SenderOf[k]].read >= states[c][SenderOf[k]].read
          BY <1>8, <3>0
        <5>2. states[c][SenderOf[k]].read \in Int /\ states'[c][SenderOf[k]].read \in Int
          BY <1>0, <1>9, <1>8, <3>0, StateTyped DEF NoState
        <5> QED
          BY <4>1, <4>3, <5>1, <5>2
      <4> QED
        BY <4>2, <4>3
    <3>2. CASE messages[k] = NoRow
      <4>1. PICK n \in Inserted(c) : Keys(n) = k /\ messages'[k].seq = Seqs(n) /\ ConvOf[k] = c
        BY <1>2, <2>2, <3>2
      <4>2. states'[c][SenderOf[k]].read >= Seqs(n)
        BY <1>7, <1>8, <3>0, <4>1
      <4> QED
        BY <4>1, <4>2
    <3> QED
      BY <3>1, <3>2
  <2> QED
    BY <2>1, <2>2 DEF ReadMarkersInRange
<1>20. RowsForward
  <2> SUFFICES ASSUME NEW k \in ClientKeys, messages'[k] # messages[k]
               PROVE  messages[k] = NoRow /\ \A j \in RowsOf(ConvOf[k]) : messages[j].seq < messages'[k].seq
    BY DEF RowsForward
  <2>1. PICK n \in Inserted(c) : messages'[k].seq = Seqs(n) /\ messages[k] = NoRow /\ ConvOf[k] = c
    BY <1>2
  <2> QED
    BY <1>0, <2>1, InsertedAfterRows
<1>21. MarkersForward
  <2>1. \A d \in Convs : threads'[d].maxSeq >= threads[d].maxSeq
    BY <1>0, <1>3, <1>4, ThreadTyped
  <2>2. \A d \in Convs, u \in Users : states'[d][u].read >= states[d][u].read
    BY <1>0, <1>3, <1>8, StateTyped
  <2> QED
    BY <2>1, <2>2 DEF MarkersForward
<1> QED
  BY <1>9, <1>10, <1>11, <1>12, <1>15, <1>17, <1>18, <1>19, <1>20, <1>21 DEF PersistInv, TablesAgree

-----------------------------------------------------------------------------
(*                           The other steps                               *)

LEMMA PersistInitially == PersistInit => PersistInv
<1> SUFFICES ASSUME PersistInit
             PROVE  PersistInv
  OBVIOUS
<1>1. PersistTypeOK
  <2>1. NoRow \in [seq : Nat, srv : Nat]
    BY DEF NoRow
  <2> QED
    BY <2>1, PersistConstants DEF PersistInit, PersistTypeOK
<1>2. \A k \in ClientKeys : messages[k] = NoRow
  BY DEF PersistInit
<1>3. \A c \in Convs : threads[c] = NoThread /\ \A u \in Users : states[c][u] = NoState
  BY DEF PersistInit
<1>4. DOMAIN toPostgres = {} /\ pCommitted = 0 /\ pPolled = 0 /\ pPhase = "poll"
  BY DEF PersistInit
<1>5. LogSound /\ RowsArePrefix /\ CommittedIsArchived /\ HandledIsArchived
  BY <1>2, <1>4 DEF LogSound, RowsArePrefix, CommittedIsArchived, HandledIsArchived
<1>6. \A c \in Convs : RowsOf(c) = {}
  BY <1>2 DEF RowsOf
<1>7. TablesAgree /\ LastIsRow /\ StartBelowRows
  BY <1>1, <1>2, <1>3, <1>6, ThreadTyped
  DEF TablesAgree, ThreadCoversRows, NothingHidden, ReadMarkersInRange, LastIsRow, StartBelowRows
<1> QED
  BY <1>1, <1>5, <1>7 DEF PersistInv

(* The log grows and nothing else changes. *)
LEMMA PublishStep ==
    ASSUME PersistInv, NEW k \in ClientKeys, NEW srv \in ServerIds, NEW seq \in 1 .. MaxSeq,
           PublishAccepted([key |-> k, srv |-> srv, seq |-> seq])
    PROVE  PersistInv' /\ RowsForward /\ MarkersForward
<1> DEFINE e == [key |-> k, srv |-> srv, seq |-> seq]
           new == Len(toPostgres) + 1
<1>0. PersistTypeOK /\ LogSound
  BY DEF PersistInv
<1>1. srv \in Nat /\ srv >= 1 /\ seq \in Nat /\ seq >= 1
  BY PersistConstants
<1>2. e \in Events /\ e.key = k /\ e.srv = srv /\ e.seq = seq
  BY <1>1 DEF Events
<1>3. /\ toPostgres' = Append(toPostgres, e) /\ UNCHANGED persistVars
      /\ \A n \in 1 .. Len(toPostgres) :
            /\ ConvOf[toPostgres[n].key] = ConvOf[e.key] => toPostgres[n].seq < e.seq
            /\ (toPostgres[n].key = e.key) <=> (toPostgres[n].srv = e.srv)
  BY DEF PublishAccepted
<1> HIDE DEF e
<1>4. /\ toPostgres' \in Seq(Events) /\ Len(toPostgres') = new /\ Len(toPostgres) \in Nat
      /\ DOMAIN toPostgres = 1 .. Len(toPostgres) /\ DOMAIN toPostgres' = 1 .. new /\ toPostgres'[new] = e
      /\ \A n \in DOMAIN toPostgres : n \in DOMAIN toPostgres' /\ toPostgres'[n] = toPostgres[n]
      /\ \A n \in DOMAIN toPostgres' : n = new \/ n \in DOMAIN toPostgres
  <2>1. toPostgres \in Seq(Events)
    BY <1>0 DEF PersistTypeOK
  <2> QED
    BY <1>2, <1>3, <2>1
<1>5. UNCHANGED <<pCommitted, pPolled, pPhase, pDone, messages, threads, states, pFaults>>
  BY <1>3 DEF persistVars, loopVars, tableVars
<1> HIDE DEF new
<1>6. PersistTypeOK'
  BY <1>0, <1>4, <1>5 DEF PersistTypeOK, new
<1>7. LogSound'
  <2>1. \A n \in DOMAIN toPostgres : n < new /\ n \in Nat
    BY <1>4 DEF new
  <2>2. new \in Nat
    BY <1>4 DEF new
  <2>3. \A n \in DOMAIN toPostgres' : toPostgres'[n].seq >= 1 /\ toPostgres'[n].srv >= 1
    BY <1>0, <1>1, <1>2, <1>4 DEF LogSound
  <2>4. ASSUME NEW m \in DOMAIN toPostgres', NEW n \in DOMAIN toPostgres'
        PROVE  /\ ConvOf[toPostgres'[m].key] = ConvOf[toPostgres'[n].key] /\ m < n =>
                     toPostgres'[m].seq < toPostgres'[n].seq
               /\ toPostgres'[m].key = toPostgres'[n].key <=> toPostgres'[m].srv = toPostgres'[n].srv
    <3>1. CASE m \in DOMAIN toPostgres /\ n \in DOMAIN toPostgres
      BY <1>0, <1>4, <3>1 DEF LogSound
    <3>2. CASE m \in DOMAIN toPostgres /\ n = new
      BY <1>3, <1>4, <3>2
    <3>3. CASE m = new /\ n \in DOMAIN toPostgres
      BY <1>3, <1>4, <2>1, <2>2, <3>3
    <3>4. CASE m = new /\ n = new
      BY <2>2, <3>4
    <3> QED
      BY <1>4, <3>1, <3>2, <3>3, <3>4
  <2> QED
    BY <2>3, <2>4 DEF LogSound
<1>8. \A n \in 1 .. pPolled : n \in DOMAIN toPostgres /\ toPostgres'[n] = toPostgres[n]
  BY <1>0, <1>4, BatchInLog
<1>9. \A n \in 1 .. pCommitted : n \in DOMAIN toPostgres /\ toPostgres'[n] = toPostgres[n]
  BY <1>0, <1>4, BatchInLog
<1>10. CommittedIsArchived'
  BY <1>5, <1>9 DEF PersistInv, CommittedIsArchived
<1>11. pCommitted + 1 .. pPolled \subseteq 1 .. pPolled
  BY <1>0, BatchInLog
<1>12. \A c : BatchOf(c)' = BatchOf(c)
  BY <1>5, <1>8, <1>11 DEF BatchOf
<1>13. HandledIsArchived'
  <2>1. \A c : \A n \in BatchOf(c) : toPostgres'[n] = toPostgres[n]
    BY <1>8, <1>11 DEF BatchOf
  <2> QED
    BY <1>5, <1>8, <1>11, <1>12, <2>1 DEF PersistInv, HandledIsArchived
<1>14. RowsArePrefix'
  <2> SUFFICES ASSUME NEW j \in ClientKeys, messages[j] # NoRow
               PROVE  \E n \in DOMAIN toPostgres' :
                         /\ RowFrom(j, n)'
                         /\ \A m \in 1 .. n : ConvOf[toPostgres'[m].key] = ConvOf[j] => messages[toPostgres'[m].key] # NoRow
    BY <1>5 DEF RowsArePrefix
  <2>1. PICK n \in DOMAIN toPostgres :
           /\ RowFrom(j, n)
           /\ \A m \in 1 .. n : ConvOf[toPostgres[m].key] = ConvOf[j] => messages[toPostgres[m].key] # NoRow
    BY DEF PersistInv, RowsArePrefix
  <2>2. \A m \in 1 .. n : m \in DOMAIN toPostgres
    BY <1>4
  <2>3. RowFrom(j, n)'
    BY <1>4, <1>5, <2>1 DEF RowFrom
  <2> QED
    BY <1>4, <2>1, <2>2, <2>3
<1>15. \A c \in Convs : RowsOf(c)' = RowsOf(c)
  BY <1>5 DEF RowsOf
<1>16. TablesAgree' /\ LastIsRow' /\ StartBelowRows'
  BY <1>5, <1>15
  DEF PersistInv, TablesAgree, ThreadCoversRows, NothingHidden, ReadMarkersInRange, LastIsRow, StartBelowRows
<1>17. RowsForward /\ MarkersForward
  BY <1>0, <1>5, StateTyped, ThreadTyped DEF RowsForward, MarkersForward
<1> QED
  BY <1>6, <1>7, <1>10, <1>13, <1>14, <1>16, <1>17 DEF PersistInv

(* Steps of the loop that touch no table. *)
LEMMA PersistLoopStep ==
    ASSUME PersistInv, PollPersist \/ PersistOK \/ CommitPersist \/ CrashPersist \/ \E c \in Convs : PersistError(c)
    PROVE  PersistInv' /\ RowsForward /\ MarkersForward
<1>0. PersistTypeOK
  BY DEF PersistInv
<1>1. UNCHANGED <<toPostgres, messages, threads, states>>
  BY DEF PollPersist, PersistOK, CommitPersist, CrashPersist, PersistError, tableVars
<1>2. LogSound' /\ RowsArePrefix'
  BY <1>1 DEF PersistInv, LogSound, RowsArePrefix, RowFrom
<1>3. \A c \in Convs : RowsOf(c)' = RowsOf(c)
  BY <1>1 DEF RowsOf
<1>4. TablesAgree' /\ LastIsRow' /\ StartBelowRows'
  BY <1>1, <1>3
  DEF PersistInv, TablesAgree, ThreadCoversRows, NothingHidden, ReadMarkersInRange, LastIsRow, StartBelowRows
<1>5. RowsForward /\ MarkersForward
  BY <1>0, <1>1, StateTyped, ThreadTyped DEF RowsForward, MarkersForward
<1>6. PersistTypeOK' /\ CommittedIsArchived' /\ HandledIsArchived'
  <2>0. /\ pCommitted \in 0 .. Len(toPostgres) /\ pPolled \in 0 .. Len(toPostgres) /\ Len(toPostgres) \in Nat
        /\ pPhase # "poll" => pCommitted < pPolled
        /\ pFaults \in 0 .. MaxPersistFaults /\ MaxPersistFaults \in Nat
    BY <1>0, PersistConstants DEF PersistTypeOK
  <2>1. CASE PollPersist
    <3>1. /\ pPolled' \in pCommitted + 1 .. Len(toPostgres)
          /\ pPhase' = "handle" /\ pDone' = {} /\ UNCHANGED <<pCommitted, pFaults>>
      BY <2>1 DEF PollPersist
    <3>2. pPolled' \in 0 .. Len(toPostgres) /\ pCommitted < pPolled'
      BY <2>0, <3>1
    <3> QED
      BY <1>0, <1>1, <3>1, <3>2 DEF PersistInv, PersistTypeOK, CommittedIsArchived, HandledIsArchived
  <2>2. CASE PersistOK
    <3>1. /\ pPhase = "handle" /\ BatchConvs \subseteq pDone /\ pPhase' = "commit"
          /\ UNCHANGED <<pCommitted, pPolled, pDone, pFaults>>
      BY <2>2 DEF PersistOK
    <3>2. \A n \in pCommitted + 1 .. pPolled : messages[toPostgres[n].key] # NoRow
      BY <3>1 DEF PersistInv, HandledIsArchived, BatchConvs, BatchOf
    <3> QED
      BY <1>0, <1>1, <3>1, <3>2 DEF PersistInv, PersistTypeOK, CommittedIsArchived, HandledIsArchived
  <2>3. CASE CommitPersist
    <3>1. /\ pPhase = "commit" /\ pCommitted' = pPolled /\ pPhase' = "poll" /\ pDone' = {}
          /\ UNCHANGED <<pPolled, pFaults>>
      BY <2>3 DEF CommitPersist
    <3>2. \A n \in 1 .. pPolled : n \in 1 .. pCommitted \/ n \in pCommitted + 1 .. pPolled
      BY <2>0
    <3>3. \A n \in 1 .. pPolled : messages[toPostgres[n].key] # NoRow
      BY <3>1, <3>2 DEF PersistInv, CommittedIsArchived, HandledIsArchived
    <3> QED
      BY <1>0, <1>1, <3>1, <3>3 DEF PersistTypeOK, CommittedIsArchived, HandledIsArchived
  <2>4. CASE CrashPersist
    <3>1. /\ pFaults' = pFaults + 1 /\ pFaults < MaxPersistFaults /\ pPhase' = "poll" /\ pDone' = {}
          /\ UNCHANGED <<pCommitted, pPolled>>
      BY <2>4 DEF CrashPersist
    <3>2. pFaults' \in 0 .. MaxPersistFaults
      BY <2>0, <3>1
    <3> QED
      BY <1>0, <1>1, <3>1, <3>2 DEF PersistInv, PersistTypeOK, CommittedIsArchived, HandledIsArchived
  <2>5. CASE \E c \in Convs : PersistError(c)
    <3>1. /\ pFaults' = pFaults \/ (pFaults < MaxPersistFaults /\ pFaults' = pFaults + 1)
          /\ pPhase = "handle" /\ pDone' = {} /\ UNCHANGED <<pCommitted, pPolled, pPhase>>
      BY <2>5 DEF PersistError
    <3>2. pFaults' \in 0 .. MaxPersistFaults
      BY <2>0, <3>1
    <3> QED
      BY <1>0, <1>1, <3>1, <3>2 DEF PersistInv, PersistTypeOK, CommittedIsArchived, HandledIsArchived
  <2> QED
    BY <2>1, <2>2, <2>3, <2>4, <2>5
<1> QED
  BY <1>2, <1>4, <1>5, <1>6 DEF PersistInv

(* msg-rpc raises a read marker, within what the thread has. *)
LEMMA MarkStep ==
    ASSUME PersistInv, NEW c \in Convs, NEW u \in Users, NEW seq \in 0 .. MaxSeq, MarkConversationAsRead(u, c, seq)
    PROVE  PersistInv' /\ RowsForward /\ MarkersForward
<1> DEFINE o == states[c][u]
           s == Repaired(u, c)
           t == states'[c][u]
<1>0. PersistTypeOK /\ ReadMarkersInRange /\ NothingHidden /\ StartBelowRows
  BY DEF PersistInv, TablesAgree
<1>1. UNCHANGED <<toPostgres, pCommitted, pPolled, pPhase, pDone, messages, threads, pFaults>>
  BY DEF MarkConversationAsRead, loopVars
<1>2. /\ o # NoState => o.read \in Nat /\ o.start \in Nat
      /\ o.read \in Int /\ o.start \in Int /\ o.read >= -1
      /\ o = NoState => o.read = -1 /\ o.start = -1
      /\ o \in [read : Nat, start : Nat] \cup {NoState}
  BY <1>0, StateTyped DEF PersistTypeOK
<1>3. /\ threads[c].maxSeq \in Int
      /\ threads[c] # NoThread => threads[c].maxSeq \in Nat
  BY <1>0, ThreadTyped
<1>4. o # NoState => o.start <= o.read /\ o.read <= threads[c].maxSeq
  BY <1>0 DEF ReadMarkersInRange
<1>5. /\ s \in [read : Nat, start : Nat] \cup {NoState}
      /\ s.read >= o.read /\ s.read \in Int /\ s.start \in Int
      /\ s = NoState => o = NoState
      /\ s # NoState => /\ s.read \in Nat /\ s.start \in Nat /\ s.start <= s.read /\ s.read <= threads[c].maxSeq
                        /\ s.start = 0 \/ (o # NoState /\ s.start = o.start)
  <2>1. CASE s = o
    BY <1>2, <1>4, <2>1
  <2>2. CASE s # o
    <3>1. threads[c] # NoThread
          /\ s = IF o = NoState THEN [read |-> 0, start |-> 0] ELSE [read |-> o.read, start |-> 0]
      BY <2>2 DEF Repaired
    <3>2. CASE o = NoState
      <4>1. s = [read |-> 0, start |-> 0]
        BY <3>1, <3>2
      <4>2. s.read = 0 /\ s.start = 0 /\ s \in [read : Nat, start : Nat]
        BY <4>1
      <4>3. s # NoState
        BY <4>2 DEF NoState
      <4> HIDE DEF s, o
      <4> QED
        BY <1>2, <1>3, <3>1, <3>2, <4>2, <4>3
    <3>3. CASE o # NoState
      <4>1. s = [read |-> o.read, start |-> 0]
        BY <3>1, <3>3
      <4>2. s.read = o.read /\ s.start = 0 /\ s \in [read : Nat, start : Nat]
        BY <1>2, <3>3, <4>1
      <4>3. s # NoState
        BY <1>2, <3>3, <4>2 DEF NoState
      <4> HIDE DEF s, o
      <4> QED
        BY <1>2, <1>3, <1>4, <3>1, <3>3, <4>2, <4>3
    <3> QED
      BY <3>2, <3>3
  <2> QED
    BY <2>1, <2>2
<1>6. \/ t = s
      \/ /\ s # NoState /\ threads[c] # NoThread /\ seq <= threads[c].maxSeq
         /\ t = [read |-> Larger(s.read, Larger(seq, s.start)), start |-> s.start]
  BY <1>0 DEF MarkConversationAsRead, PersistTypeOK
<1>7. /\ \A d \in Convs : d # c => states'[d] = states[d]
      /\ \A w \in Users : w # u => states'[c][w] = states[c][w]
      /\ DOMAIN states' = Convs /\ DOMAIN states'[c] = Users
      /\ states' = [states EXCEPT ![c] = [states[c] EXCEPT ![u] = t]]
  BY <1>0 DEF MarkConversationAsRead, PersistTypeOK
<1>8. seq \in Nat
  BY PersistConstants
<1> HIDE DEF s, o, t
<1>9. /\ t \in [read : Nat, start : Nat] \cup {NoState}
      /\ t.read >= o.read
      /\ o # NoState => t # NoState /\ (t.start = o.start \/ t.start = 0)
      /\ t # NoState => /\ t.start <= t.read /\ t.read <= threads[c].maxSeq
                        /\ t.start = 0 \/ (o # NoState /\ t.start = o.start)
  <2>1. CASE t = s
    BY <1>5, <2>1
  <2>2. CASE /\ s # NoState /\ threads[c] # NoThread /\ seq <= threads[c].maxSeq
             /\ t = [read |-> Larger(s.read, Larger(seq, s.start)), start |-> s.start]
    <3> DEFINE r == Larger(s.read, Larger(seq, s.start))
    <3>1. r \in Nat /\ r >= s.read /\ r <= threads[c].maxSeq
      BY <1>3, <1>5, <1>8, <2>2 DEF Larger
    <3> HIDE DEF r
    <3>2. t = [read |-> r, start |-> s.start]
      BY <2>2 DEF r
    <3>3. t.read = r /\ t.start = s.start /\ t \in [read : Nat, start : Nat]
      BY <1>5, <2>2, <3>1, <3>2
    <3>4. t # NoState
      BY <3>1, <3>3 DEF NoState
    <3>5. t.start <= t.read /\ t.read >= o.read
      BY <1>2, <1>5, <2>2, <3>1, <3>3
    <3> QED
      BY <1>5, <2>2, <3>1, <3>3, <3>4, <3>5
  <2> QED
    BY <1>6, <2>1, <2>2
<1>10. PersistTypeOK'
  <2>1. states' \in [Convs -> [Users -> [read : Nat, start : Nat] \cup {NoState}]]
    BY <1>0, <1>7, <1>9 DEF PersistTypeOK
  <2> QED
    BY <1>0, <1>1, <2>1 DEF PersistTypeOK
<1>11. LogSound' /\ RowsArePrefix' /\ CommittedIsArchived' /\ HandledIsArchived' /\ ThreadCoversRows' /\ LastIsRow'
  <2>1. \A d \in Convs : RowsOf(d)' = RowsOf(d) /\ BatchOf(d)' = BatchOf(d)
    BY <1>1 DEF RowsOf, BatchOf
  <2>2. pDone \subseteq Convs
    BY <1>0 DEF PersistTypeOK
  <2> QED
    BY <1>1, <2>1, <2>2 DEF PersistInv, TablesAgree, LogSound, RowsArePrefix, RowFrom, CommittedIsArchived,
                            HandledIsArchived, ThreadCoversRows, LastIsRow
<1>12. \A d \in Convs, w \in Users : (d = c /\ w = u) \/ states'[d][w] = states[d][w]
  BY <1>7
<1>13. StartBelowRows'
  <2>1. \A d \in Convs : RowsOf(d)' = RowsOf(d)
    BY <1>1 DEF RowsOf
  <2> QED
    BY <1>0, <1>1, <1>9, <1>12, <2>1 DEF StartBelowRows, t, o
<1>14. NothingHidden'
  <2> SUFFICES ASSUME NEW k \in ClientKeys, messages[k] # NoRow, NEW w \in VisibleTo[k]
               PROVE  states'[ConvOf[k]][w] # NoState /\ states'[ConvOf[k]][w].start < messages[k].seq
    BY <1>1 DEF NothingHidden
  <2>1. w \in Users /\ ConvOf[k] \in Convs
    BY PersistConstants
  <2>2. states[ConvOf[k]][w] # NoState /\ states[ConvOf[k]][w].start < messages[k].seq
    BY <1>0 DEF NothingHidden
  <2>3. messages[k].seq >= 1 /\ messages[k].seq \in Nat
    BY RowSeqPositive, RowTypedSeq DEF PersistInv
  <2>4. CASE ConvOf[k] = c /\ w = u
    BY <1>9, <2>2, <2>3, <2>4 DEF t, o
  <2> QED
    BY <1>12, <2>1, <2>2, <2>4
<1>15. ReadMarkersInRange'
  <2>1. \A d \in Convs, w \in Users : states'[d][w] # NoState =>
           states'[d][w].start <= states'[d][w].read /\ states'[d][w].read <= threads[d].maxSeq
    BY <1>0, <1>9, <1>12 DEF ReadMarkersInRange, t, o
  <2>2. ASSUME NEW k \in ClientKeys, messages[k] # NoRow
        PROVE  states'[ConvOf[k]][SenderOf[k]].read >= messages[k].seq
    <3>1. SenderOf[k] \in Users /\ ConvOf[k] \in Convs /\ messages[k].seq \in Nat
          /\ states[ConvOf[k]][SenderOf[k]].read >= messages[k].seq
      BY <1>0, <2>2, PersistConstants, RowTypedSeq DEF ReadMarkersInRange
    <3>2. CASE ConvOf[k] = c /\ SenderOf[k] = u
      <4>1. t.read \in Int
        BY <1>9 DEF NoState
      <4> QED
        BY <1>2, <1>9, <3>1, <3>2, <4>1 DEF t, o
    <3> QED
      BY <1>12, <3>1, <3>2
  <2> QED
    BY <1>1, <2>1, <2>2 DEF ReadMarkersInRange
<1>16. RowsForward /\ MarkersForward
  <2>1. \A d \in Convs, w \in Users : states'[d][w].read >= states[d][w].read
    BY <1>0, <1>9, <1>12, StateTyped DEF t, o
  <2>2. \A d \in Convs : threads'[d].maxSeq >= threads[d].maxSeq
    BY <1>0, <1>1, ThreadTyped
  <2> QED
    BY <1>1, <2>1, <2>2 DEF RowsForward, MarkersForward
<1> QED
  BY <1>10, <1>11, <1>13, <1>14, <1>15, <1>16 DEF PersistInv, TablesAgree

LEMMA PersistKeeps ==
    PersistInv /\ [PersistSystemNext]_persistSystemVars => PersistInv' /\ (UNCHANGED persistSystemVars \/ (RowsForward /\ MarkersForward))
<1> SUFFICES ASSUME PersistInv, [PersistSystemNext]_persistSystemVars
             PROVE  PersistInv' /\ (UNCHANGED persistSystemVars \/ (RowsForward /\ MarkersForward))
  OBVIOUS
<1>1. CASE UNCHANGED persistSystemVars
  <2>1. UNCHANGED <<toPostgres, pCommitted, pPolled, pPhase, pDone, messages, threads, states, pFaults>>
    BY <1>1 DEF persistSystemVars, persistVars, loopVars, tableVars
  <2>2. \A c : RowsOf(c)' = RowsOf(c) /\ BatchOf(c)' = BatchOf(c)
    BY <2>1 DEF RowsOf, BatchOf
  <2>3. PersistTypeOK'
    BY <2>1 DEF PersistInv, PersistTypeOK
  <2>4. LogSound' /\ RowsArePrefix' /\ CommittedIsArchived' /\ HandledIsArchived'
    BY <2>1, <2>2 DEF PersistInv, LogSound, RowsArePrefix, RowFrom, CommittedIsArchived, HandledIsArchived
  <2>5. TablesAgree' /\ LastIsRow' /\ StartBelowRows'
    BY <2>1, <2>2
    DEF PersistInv, TablesAgree, ThreadCoversRows, NothingHidden, ReadMarkersInRange, LastIsRow, StartBelowRows
  <2> QED
    BY <1>1, <2>3, <2>4, <2>5 DEF PersistInv
<1>2. ASSUME NEW k \in ClientKeys, NEW srv \in ServerIds, NEW seq \in 1 .. MaxSeq,
             PublishAccepted([key |-> k, srv |-> srv, seq |-> seq])
      PROVE  PersistInv' /\ RowsForward /\ MarkersForward
  BY <1>2, PublishStep
<1>3. CASE PersistNext
  BY <1>3, BatchStep, PersistLoopStep, MarkStep DEF PersistNext, PersistLoop
<1> QED
  BY <1>1, <1>2, <1>3 DEF PersistSystemNext

(* Every state the archive reaches has the type it is written with: offsets *)
(* stay within the log, a batch in memory is never empty.                   *)
THEOREM ArchiveTyped == PersistSpec => []PersistTypeOK
<1>1. PersistInv => PersistTypeOK
  BY DEF PersistInv
<1> QED
  BY <1>1, PersistInitially, PersistKeeps, PTL DEF PersistSpec

(* The persist consumer commits no offset whose message has no row, for any *)
(* batch size and any number of failed transactions and crashes.            *)
THEOREM NoCommitWithoutRow == PersistSpec => []CommittedIsArchived
<1>1. PersistInv => CommittedIsArchived
  BY DEF PersistInv
<1> QED
  BY <1>1, PersistInitially, PersistKeeps, PTL DEF PersistSpec

(* After every transaction threads cover the rows, states show them to      *)
(* everybody they are visible to, and read markers lie between.             *)
THEOREM TablesAlwaysAgree == PersistSpec => []TablesAgree
<1>1. PersistInv => TablesAgree
  BY DEF PersistInv
<1> QED
  BY <1>1, PersistInitially, PersistKeeps, PTL DEF PersistSpec

(* Rows of a conversation are appended in seq order and stay as they are,   *)
(* max_seq and read markers are never taken back, by a replayed batch or by *)
(* MarkConversationAsRead.                                                  *)
THEOREM TablesOnlyForward == PersistSpec => OnlyForward
<1> DEFINE A == [\A k \in ClientKeys : messages'[k] # messages[k] =>
                    /\ messages[k] = NoRow
                    /\ \A j \in RowsOf(ConvOf[k]) : messages[j].seq < messages'[k].seq]_persistSystemVars
           B == [\A c \in Convs : /\ threads'[c].maxSeq >= threads[c].maxSeq
                                  /\ \A u \in Users : states'[c][u].read >= states[c][u].read]_persistSystemVars
<1>1. PersistInv /\ [PersistSystemNext]_persistSystemVars => A /\ B
  BY PersistKeeps DEF RowsForward, MarkersForward
<1>2. PersistInv /\ [PersistSystemNext]_persistSystemVars => PersistInv'
  BY PersistKeeps
<1> HIDE DEF PersistInv
<1>3. PersistSpec => []PersistInv
  BY <1>2, PersistInitially, PTL DEF PersistSpec
<1> QED
  BY <1>1, <1>3, PTL DEF PersistSpec, OnlyForward, RowsAppendInSeqOrder, NeverBackwards

==============================================================================
