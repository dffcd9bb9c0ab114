--------------------------- MODULE CoalescerProofs ---------------------------
(***************************************************************************)
(* Theorems about Coalescer, for any number of messages, rounds, crashes   *)
(* and failed statements, and any limits of the history: one loop holds    *)
(* the running lock, and the context of the chat loses, repeats and        *)
(* reorders nothing.                                                       *)
(***************************************************************************)
EXTENDS Coalescer, SequenceTheorems, WellFoundedInduction, TLAPS

LoopStates ==
    [at : {"none", "load", "run", "settle", "release", "sumload", "summarize"},
     batch : SUBSET Seqs, ok : BOOLEAN, more : BOOLEAN,
     fold : Seq(SUBSET Seqs), seen : SUBSET Seqs, slow : BOOLEAN]

(* Active, of the state of a loop. *)
Busy(k) == k.at \in {"load", "run", "settle", "release"} \/ k.more

(* What a loop carries: messages of the row as it was when it loaded them,  *)
(* so what came since is newer; and rounds to summarise that are not empty. *)
LoopSound(k) ==
    /\ k.batch \subseteq 1 .. last
    /\ k.at \in {"run", "settle"} =>
          k.batch # {} /\ \A s \in pending \ k.batch : \A t \in k.batch : t < s
    /\ k.at = "settle" => k.batch \subseteq ran
    /\ k.at = "summarize" => k.fold # <<>> /\ \A i \in 1 .. Len(k.fold) : k.fold[i] # {}

LoopsSound == \A n \in Seqs : LoopSound(loop[n]) /\ (n > last => loop[n] = NoLoop)

(* Whatever was appended or handled waits, was run or failed. *)
AllSeen == \A s \in Seqs : s <= cur \/ s <= last => s \in pending \cup ran \cup lost

RoundsSound == \A i \in 1 .. Len(rounds) : rounds[i] # {} /\ rounds[i] \subseteq 1 .. last

(* A summary ends at a message that no round straddles: what it folds and   *)
(* the memory it saw lie before, what is pending lies behind.               *)
Cut(k) == Max(Last(k.fold))

SummarySound(k) ==
    /\ Cut(k) \in 1 .. last
    /\ \A x \in k.seen : x <= Cut(k)
    /\ \A i \in 1 .. Len(k.fold) : \A x \in k.fold[i] : x <= Cut(k)
    /\ \A i \in 1 .. Len(rounds) : \A s, t \in rounds[i] : s <= Cut(k) => t <= Cut(k)
    /\ \A t \in pending : Cut(k) < t

SummariesSound == ~overtaken => \A n \in Seqs : loop[n].at = "summarize" => SummarySound(loop[n])

(* Memory, rounds and pending messages follow each other. *)
ContextInOrder ==
    ~overtaken =>
        /\ \A i, j \in 1 .. Len(rounds) : i < j => \A s \in rounds[i], t \in rounds[j] : s < t
        /\ \A i \in 1 .. Len(rounds) : \A s \in rounds[i] : (\A t \in pending : s < t) /\ (\A m \in memory : m < s)
        /\ \A m \in memory, t \in pending : m < t
        /\ memory \subseteq 1 .. last

CoalescerInv ==
    /\ TypeOK /\ OneLoop /\ LoopsSound /\ AllSeen /\ RoundsSound /\ SummariesSound /\ ContextInOrder

-----------------------------------------------------------------------------
(* A set of message numbers that is not empty has a largest one. *)
LEMMA MaxSeqs ==
    ASSUME NEW S \in SUBSET Nat, NEW b \in Nat, \A x \in S : x <= b, S # {}
    PROVE  Max(S) \in S /\ \A y \in S : y <= Max(S)
<1> DEFINE R == OpToRel(<, Nat)
           T == {b - x : x \in S}
<1>1. \A x, y \in Nat : <<x, y>> \in R <=> x < y
  <2>1. R = {ss \in Nat \X Nat : ss[1] < ss[2]}
    BY Zenon DEF OpToRel
  <2> HIDE DEF R
  <2> QED
    BY <2>1
<1> HIDE DEF R
<1>2. T \in SUBSET Nat /\ T # {}
  <2>1. \A x \in S : b - x \in Nat
    OBVIOUS
  <2> QED
    BY <2>1
<1>3. PICK t \in T : \A y \in T : ~(<<y, t>> \in R)
  <2>1. IsWellFoundedOn(R, Nat)
    BY NatLessThanWellFounded DEF R
  <2> HIDE DEF T
  <2> QED
    BY <1>2, <2>1, WFMin
<1>4. \A y \in T : t <= y
  <2> HIDE DEF T
  <2>1. \A y \in T : y \in Nat /\ t \in Nat /\ ~(y < t)
    BY <1>1, <1>2, <1>3
  <2> QED
    BY <2>1
<1>5. PICK x \in S : t = b - x
  OBVIOUS
<1>6. \A y \in S : x >= y
  BY <1>4, <1>5
<1>7. Max(S) \in S /\ \A y \in S : Max(S) >= y
  BY <1>6 DEF Max
<1> QED
  BY <1>7

LEMMA NoLoopTyped ==
    /\ NoLoop \in LoopStates /\ NoLoop.at = "none" /\ NoLoop.batch = {} /\ NoLoop.more = FALSE /\ ~Busy(NoLoop)
    /\ NoLoop.fold = <<>>
BY DEF NoLoop, LoopStates, Busy

(* The end of an iteration. *)
LEMMA ContinueTyped ==
    ASSUME NEW l \in LoopStates, NEW more \in BOOLEAN
    PROVE  /\ Continue(l, more) \in LoopStates /\ Continue(l, more).batch = {} /\ Continue(l, more).more = FALSE
           /\ Continue(l, more).at = IF more THEN "load" ELSE "none"
<1>1. l.slow \in BOOLEAN
  BY DEF LoopStates
<1>2. (more /\ l.slow) \in BOOLEAN
  BY <1>1
<1>3. NoLoop \in LoopStates /\ NoLoop.batch = {} /\ NoLoop.more = FALSE
  BY NoLoopTyped
<1>4. PICK at \in {"load", "none"} : at = IF more THEN "load" ELSE "none"
  OBVIOUS
<1>5. PICK slow \in BOOLEAN : slow = (more /\ l.slow)
  BY <1>2
<1>6. Continue(l, more) = [NoLoop EXCEPT !.at = at, !.slow = slow]
  BY <1>4, <1>5 DEF Continue
<1> QED
  BY <1>3, <1>4, <1>6 DEF LoopStates

(* Loop n moves and may change the row. *)
LEMMA OneLoopKept ==
    ASSUME OneLoop, NEW n \in Seqs, \A d \in Seqs \ {n} : loop'[d] = loop[d], overtaken' = overtaken,
           Busy(loop[n]) \/ ((leased => leased') /\ pending \subseteq pending'),
           Busy(loop'[n]) /\ ~overtaken => /\ leased' /\ loop'[n].batch \subseteq pending'
                                           /\ Busy(loop[n]) \/ \A d \in Seqs : ~Busy(loop[d])
    PROVE  OneLoop'
<1>1. \A d \in Seqs : (Active(d) <=> Busy(loop[d])) /\ (Active(d)' <=> Busy(loop'[d]))
  BY DEF Active, Busy
<1> SUFFICES ASSUME ~overtaken, NEW d \in Seqs, Busy(loop'[d])
             PROVE  /\ leased' /\ loop'[d].batch \subseteq pending'
                    /\ \A e \in Seqs \ {d} : ~Busy(loop'[e])
  BY <1>1 DEF OneLoop
<1>2. \A e \in Seqs : Busy(loop[e]) =>
         leased /\ loop[e].batch \subseteq pending /\ \A f \in Seqs \ {e} : ~Busy(loop[f])
  BY <1>1 DEF OneLoop
<1>3. CASE d = n
  BY <1>2, <1>3
<1>4. CASE d # n
  BY <1>2, <1>4
<1> QED
  BY <1>3, <1>4

(* A loop that does not move: the row has no older messages than before. *)
LEMMA LoopKept ==
    ASSUME NEW k \in LoopStates, LoopSound(k), last \in Nat, last' \in Nat, last <= last', ran \subseteq ran',
           \A s \in pending' : s \in Nat, \A s \in pending' : s \in pending \/ s > last
    PROVE  LoopSound(k)'
<1>1. k.batch \subseteq 1 .. last /\ k.batch \subseteq 1 .. last'
  BY DEF LoopSound
<1>2. \A s \in pending' \ k.batch : \A t \in k.batch : s \in pending \/ t < s
  BY <1>1
<1> QED
  BY <1>1, <1>2 DEF LoopSound

LEMMA SummaryKept ==
    ASSUME NEW k \in LoopStates, SummarySound(k), last \in Nat, last' \in Nat, last <= last',
           \A s \in pending' : s \in Nat, \A s \in pending' : s \in pending \/ s > last,
           \A i \in 1 .. Len(rounds') : \/ \E j \in 1 .. Len(rounds) : rounds'[i] = rounds[j]
                                        \/ rounds'[i] \subseteq pending /\ rounds'[i] \subseteq Nat
    PROVE  SummarySound(k)'
<1>1. PICK cut : cut = Cut(k)
  OBVIOUS
<1>2. /\ cut \in 1 .. last /\ cut \in 1 .. last' /\ cut \in Nat
      /\ \A t \in pending : cut < t
      /\ \A i \in 1 .. Len(rounds) : \A s, t \in rounds[i] : s <= cut => t <= cut
  BY <1>1 DEF SummarySound
<1>3. \A t \in pending' : cut < t
  BY <1>2
<1>4. ASSUME NEW i \in 1 .. Len(rounds'), NEW s \in rounds'[i], NEW t \in rounds'[i], s <= cut
      PROVE  t <= cut
  <2>1. CASE \E j \in 1 .. Len(rounds) : rounds'[i] = rounds[j]
    BY <1>2, <1>4, <2>1
  <2>2. CASE rounds'[i] \subseteq pending /\ rounds'[i] \subseteq Nat
    BY <1>2, <1>4, <2>2
  <2> QED
    BY <2>1, <2>2
<1>5. /\ \A x \in k.seen : x <= cut
      /\ \A i \in 1 .. Len(k.fold) : \A x \in k.fold[i] : x <= cut
  BY <1>1 DEF SummarySound
<1> QED
  BY <1>1, <1>2, <1>3, <1>4, <1>5 DEF SummarySound, Cut

-----------------------------------------------------------------------------
(* A loop moves; the row stays as it is. *)

(* A loop that is somewhere was fired by a message of the row. *)
LEMMA Fired ==
    ASSUME CoalescerInv, NEW n \in Seqs, loop[n].at # "none"
    PROVE  /\ loop[n] \in LoopStates /\ LoopSound(loop[n]) /\ n <= last
           /\ loop[n].at = "summarize" /\ ~overtaken => SummarySound(loop[n])
<1>1. loop[n] \in LoopStates /\ last \in Nat /\ n \in Nat
  <2>1. loop \in [Seqs -> LoopStates] /\ sent \in 0 .. MaxSeq /\ last \in 0 .. sent
    BY DEF CoalescerInv, TypeOK, LoopStates
  <2>2. loop[n] \in LoopStates
    BY <2>1
  <2>3. last \in Nat /\ n \in Nat
    BY <2>1 DEF Seqs
  <2> QED
    BY <2>2, <2>3
<1>2. LoopSound(loop[n]) /\ (n > last => loop[n] = NoLoop)
  BY DEF CoalescerInv, LoopsSound
<1>3. loop[n].at = "summarize" /\ ~overtaken => SummarySound(loop[n])
  BY DEF CoalescerInv, SummariesSound
<1> QED
  BY <1>1, <1>2, <1>3, NoLoopTyped

LEMMA FaultTyped ==
    ASSUME faults \in 0 .. MaxAgentFaults, UNCHANGED faults \/ Fault
    PROVE  faults' \in 0 .. MaxAgentFaults
BY CoalescerConstants DEF Fault

LEMMA MovesOn ==
    ASSUME CoalescerInv, NEW n \in Seqs, NEW k \in LoopStates, loop' = [loop EXCEPT ![n] = k], n <= last,
           UNCHANGED <<topicVars, rowVars, replied, lost, overtaken>>, ran \subseteq ran', ran' \subseteq Seqs,
           faults' \in 0 .. MaxAgentFaults, LoopSound(k)',
           Busy(k) /\ ~overtaken => Busy(loop[n]) /\ k.batch \subseteq pending,
           k.at = "summarize" /\ ~overtaken => SummarySound(k)
    PROVE  CoalescerInv'
<1>1. TypeOK /\ OneLoop /\ LoopsSound /\ AllSeen /\ RoundsSound /\ SummariesSound /\ ContextInOrder
  BY DEF CoalescerInv
<1>2. UNCHANGED <<sent, committed, cur, stmt, state, leased, pending, last, rounds, memory, replied, lost, overtaken>>
  BY DEF topicVars, rowVars
<1>3. loop \in [Seqs -> LoopStates] /\ last \in Nat /\ \A s \in pending : s \in Nat
  BY <1>1 DEF TypeOK, LoopStates
<1>4. loop' \in [Seqs -> LoopStates] /\ loop'[n] = k /\ \A d \in Seqs \ {n} : loop'[d] = loop[d]
  BY <1>3
<1>5. TypeOK'
  BY <1>1, <1>2, <1>4 DEF TypeOK, LoopStates
<1>6. OneLoop'
  <2>1. ~overtaken => \A d \in Seqs : Busy(loop[d]) => leased
    BY <1>1 DEF OneLoop, Active, Busy
  <2> QED
    BY <1>1, <1>2, <1>4, <2>1, OneLoopKept
<1>7. LoopsSound'
  <2> SUFFICES ASSUME NEW d \in Seqs
               PROVE  LoopSound(loop[d])' /\ (d > last => loop'[d] = NoLoop)
    BY <1>2 DEF LoopsSound
  <2>1. CASE d = n
    <3>1. n \in Nat
      BY DEF Seqs
    <3> QED
      BY <1>3, <1>4, <2>1, <3>1 DEF LoopSound
  <2>2. CASE d # n
    <3>1. PICK o \in LoopStates : o = loop[d] /\ o = loop'[d]
      BY <1>3, <1>4, <2>2
    <3>2. LoopSound(o) /\ (d > last => o = NoLoop)
      BY <1>1, <3>1 DEF LoopsSound
    <3>3. LoopSound(o)'
      BY <1>2, <1>3, <3>2, LoopKept
    <3> QED
      BY <3>1, <3>2, <3>3 DEF LoopSound
  <2> QED
    BY <2>1, <2>2
<1>8. AllSeen' /\ RoundsSound' /\ ContextInOrder'
  BY <1>1, <1>2 DEF AllSeen, RoundsSound, ContextInOrder
<1>9. SummariesSound'
  <2> SUFFICES ASSUME ~overtaken, NEW d \in Seqs, loop'[d].at = "summarize"
               PROVE  SummarySound(loop'[d])
    BY <1>2 DEF SummariesSound, SummarySound
  <2> QED
    BY <1>1, <1>4 DEF SummariesSound
<1> QED
  BY <1>5, <1>6, <1>7, <1>8, <1>9 DEF CoalescerInv

LEMMA LoadKeeps ==
    ASSUME CoalescerInv, NEW n \in Seqs, Load(n)
    PROVE  CoalescerInv'
<1>1. PICK l : l = loop[n]
  OBVIOUS
<1>2. l \in LoopStates /\ l.at = "load" /\ n <= last
  BY <1>1, Fired DEF Load, At
<1>3. PICK at \in {"release", "run"} : at = IF pending = {} THEN "release" ELSE "run"
  OBVIOUS
<1>4. PICK p : p = pending
  OBVIOUS
<1>5. PICK k : k = [l EXCEPT !.at = at, !.batch = p, !.more = FALSE]
  OBVIOUS
<1>6. /\ TypeOK /\ p \subseteq 1 .. last /\ p \subseteq Seqs /\ loop \in [Seqs -> LoopStates] /\ faults \in 0 .. MaxAgentFaults
      /\ ran \subseteq Seqs
  <2>1. TypeOK
    BY DEF CoalescerInv
  <2>2. p \subseteq 1 .. last /\ last \in 0 .. sent /\ sent \in 0 .. MaxSeq /\ MaxSeq \in Nat
    BY <1>4, <2>1, CoalescerConstants DEF TypeOK
  <2>3. p \subseteq Seqs
    BY <2>2 DEF Seqs
  <2> QED
    BY <2>1, <2>2, <2>3 DEF TypeOK, LoopStates
<1>7. /\ loop' = [loop EXCEPT ![n] = k] /\ UNCHANGED <<topicVars, rowVars, historyVars, faults>>
      /\ UNCHANGED <<ran, replied, lost, overtaken, last, pending>>
  BY <1>1, <1>3, <1>4, <1>5, <1>6 DEF Load, historyVars, rowVars
<1>8. k \in LoopStates /\ k.at = at /\ k.batch = p /\ k.more = FALSE
  BY <1>2, <1>5, <1>6 DEF LoopStates
<1>9. LoopSound(k)'
  BY <1>3, <1>4, <1>6, <1>7, <1>8 DEF LoopSound
<1>10. Busy(loop[n]) /\ k.batch \subseteq pending /\ k.at # "summarize"
  BY <1>1, <1>2, <1>4, <1>8 DEF Busy
<1> QED
  BY <1>2, <1>6, <1>7, <1>8, <1>9, <1>10, MovesOn

LEMMA RunRoundKeeps ==
    ASSUME CoalescerInv, NEW n \in Seqs, Run(n)
    PROVE  CoalescerInv'
<1>1. PICK l : l = loop[n]
  OBVIOUS
<1>2. l \in LoopStates /\ l.at = "run" /\ n <= last /\ LoopSound(l)
  BY <1>1, Fired DEF Run, At
<1>3. /\ TypeOK /\ OneLoop /\ loop \in [Seqs -> LoopStates] /\ faults \in 0 .. MaxAgentFaults /\ ran \subseteq Seqs
  BY DEF CoalescerInv, TypeOK, LoopStates
<1>4. PICK ok \in BOOLEAN : loop' = [loop EXCEPT ![n].at = "settle", ![n].ok = ok]
  BY DEF Run
<1>5. PICK k : k = [l EXCEPT !.at = "settle", !.ok = ok]
  OBVIOUS
<1>6. k \in LoopStates /\ k.at = "settle" /\ k.batch = l.batch /\ k.more = l.more /\ l.batch \subseteq Seqs
  BY <1>2, <1>4, <1>5 DEF LoopStates
<1>7. /\ loop' = [loop EXCEPT ![n] = k] /\ ran' = ran \cup l.batch
      /\ UNCHANGED <<topicVars, rowVars, replied, lost, overtaken>>
  BY <1>1, <1>3, <1>4, <1>5 DEF Run
<1>8. faults' \in 0 .. MaxAgentFaults
  BY <1>3, FaultTyped DEF Run
<1>9. UNCHANGED <<last, pending>>
  BY <1>7 DEF rowVars
<1>10. LoopSound(k)'
  BY <1>2, <1>6, <1>7, <1>9 DEF LoopSound
<1>11. Busy(loop[n]) /\ (~overtaken => k.batch \subseteq pending)
  BY <1>1, <1>2, <1>3, <1>6 DEF Busy, OneLoop, Active
<1> QED
  BY <1>2, <1>3, <1>6, <1>7, <1>8, <1>10, <1>11, MovesOn

(* An iteration ends without a statement on the row. *)
LEMMA ContinueKeeps ==
    ASSUME CoalescerInv, NEW n \in Seqs, loop[n].at \in {"sumload", "summarize"},
           loop' = [loop EXCEPT ![n] = Continue(loop[n], loop[n].more)],
           UNCHANGED <<topicVars, rowVars, historyVars>>, faults' \in 0 .. MaxAgentFaults
    PROVE  CoalescerInv'
<1>1. PICK l : l = loop[n]
  OBVIOUS
<1>2. l \in LoopStates /\ n <= last /\ l.more \in BOOLEAN
  BY <1>1, Fired DEF LoopStates
<1>3. PICK k : k = Continue(l, l.more)
  OBVIOUS
<1>4. /\ k \in LoopStates /\ k.batch = {} /\ k.more = FALSE /\ k.at = IF l.more THEN "load" ELSE "none"
  BY <1>2, <1>3, ContinueTyped
<1>5. LoopSound(k)'
  BY <1>4 DEF LoopSound
<1>6. Busy(k) => Busy(loop[n])
  BY <1>1, <1>4 DEF Busy
<1>7. ran \subseteq Seqs /\ UNCHANGED <<ran, replied, lost, overtaken>>
  BY DEF CoalescerInv, TypeOK, historyVars
<1> QED
  BY <1>1, <1>2, <1>3, <1>4, <1>5, <1>6, <1>7, MovesOn

(* The snapshot of a summary. *)
LEMMA LoadRoundsKeeps ==
    ASSUME CoalescerInv, NEW n \in Seqs, LoadRounds(n)
    PROVE  CoalescerInv'
<1>1. PICK l : l = loop[n]
  OBVIOUS
<1>2. l \in LoopStates /\ l.at = "sumload" /\ n <= last /\ LoopSound(l)
  BY <1>1, Fired DEF LoadRounds, At
<1>3. /\ TypeOK /\ loop \in [Seqs -> LoopStates] /\ faults \in 0 .. MaxAgentFaults /\ ran \subseteq Seqs
      /\ rounds \in Seq(SUBSET Seqs) /\ memory \subseteq Seqs /\ last \in Nat /\ OneLoop /\ RoundsSound /\ ContextInOrder
  BY DEF CoalescerInv, TypeOK, LoopStates
<1>4. UNCHANGED <<topicVars, rowVars, historyVars, faults>> /\ UNCHANGED <<ran, replied, lost, overtaken, last, pending>>
  BY DEF LoadRounds, historyVars, rowVars
<1> DEFINE enough == Len(rounds) >= SummarizeThreshold /\ KeepRounds < Len(rounds)
<1>5. CASE ~enough
  <2>1. loop' = [loop EXCEPT ![n] = Continue(loop[n], loop[n].more)]
    BY <1>5 DEF LoadRounds
  <2> QED
    BY <1>1, <1>2, <1>3, <1>4, <2>1, ContinueKeeps
<1>6. CASE enough
  <2>1. PICK q \in Nat : q = Len(rounds) - KeepRounds /\ q \in 1 .. Len(rounds)
    <3>1. Len(rounds) \in Nat /\ KeepRounds \in Nat /\ KeepRounds < Len(rounds)
      BY <1>3, <1>6, CoalescerConstants
    <3> QED
      BY <3>1
  <2>2. PICK fold : fold = SubSeq(rounds, 1, q)
    OBVIOUS
  <2>3. fold \in Seq(SUBSET Seqs) /\ Len(fold) = q /\ \A i \in 1 .. q : fold[i] = rounds[i]
    BY <1>3, <2>1, <2>2
  <2>4. PICK m : m = memory
    OBVIOUS
  <2>5. PICK k : k = [l EXCEPT !.at = "summarize", !.seen = m, !.slow = TRUE, !.fold = fold]
    OBVIOUS
  <2>6. /\ k \in LoopStates /\ k.at = "summarize" /\ k.seen = m /\ k.fold = fold /\ k.batch = l.batch /\ k.more = l.more
    BY <1>2, <1>3, <2>3, <2>4, <2>5 DEF LoopStates
  <2>7. loop' = [loop EXCEPT ![n] = k]
    BY <1>1, <1>6, <2>1, <2>2, <2>4, <2>5 DEF LoadRounds
  <2>8. \A i \in 1 .. Len(fold) : fold[i] # {}
    BY <1>3, <2>1, <2>3 DEF RoundsSound
  <2>9. LoopSound(k)'
    <3>1. fold # <<>>
      BY <2>1, <2>3
    <3> QED
      BY <1>2, <1>4, <2>6, <2>8, <3>1 DEF LoopSound
  <2>10. Busy(k) => Busy(loop[n])
    BY <1>1, <2>6 DEF Busy
  <2>11. ~overtaken /\ Busy(k) => k.batch \subseteq pending
    BY <1>1, <1>3, <2>6, <2>10 DEF OneLoop, Active, Busy
  <2>12. ASSUME ~overtaken
         PROVE  SummarySound(k)
    <3>1. Cut(k) = Max(rounds[q])
      BY <2>1, <2>3, <2>6 DEF Cut, Last
    <3>2. rounds[q] \subseteq 1 .. last /\ rounds[q] # {} /\ rounds[q] \in SUBSET Nat /\ \A x \in rounds[q] : x <= last
      BY <1>3, <2>1 DEF RoundsSound
    <3>3. PICK cut : cut = Cut(k)
      OBVIOUS
    <3>4. cut \in rounds[q] /\ \A y \in rounds[q] : y <= cut
      BY <1>3, <3>1, <3>2, <3>3, MaxSeqs
    <3>5. cut \in 1 .. last /\ cut \in Nat
      BY <3>2, <3>4
    <3>6. /\ \A i, j \in 1 .. Len(rounds) : i < j => \A s \in rounds[i], t \in rounds[j] : s < t
          /\ \A i \in 1 .. Len(rounds) : \A s \in rounds[i] : (\A t \in pending : s < t) /\ (\A x \in memory : x < s)
          /\ \A i \in 1 .. Len(rounds) : rounds[i] \subseteq Nat
          /\ memory \subseteq Nat
      BY <1>3, <2>12 DEF ContextInOrder, RoundsSound
    <3>7. \A x \in k.seen : x <= cut
      <4>1. \A x \in memory : x < cut /\ x \in Nat
        BY <2>1, <3>4, <3>6
      <4> QED
        BY <2>4, <2>6, <3>5, <4>1
    <3>8. \A i \in 1 .. Len(rounds) : \/ i <= q /\ \A s \in rounds[i] : s <= cut
                                      \/ i > q /\ \A s \in rounds[i] : cut < s
      <4> TAKE i \in 1 .. Len(rounds)
      <4>1. CASE i < q
        BY <2>1, <3>4, <3>5, <3>6, <4>1
      <4>2. CASE i = q
        BY <2>1, <3>4, <4>2
      <4>3. CASE i > q
        BY <2>1, <3>4, <4>3, <3>6
      <4> QED
        BY <2>1, <4>1, <4>2, <4>3
    <3>9. \A i \in 1 .. Len(k.fold) : \A x \in k.fold[i] : x <= cut
      BY <2>1, <2>3, <2>6, <3>8
    <3>10. \A i \in 1 .. Len(rounds) : \A s, t \in rounds[i] : s <= cut => t <= cut
      BY <3>5, <3>6, <3>8
    <3>11. \A t \in pending : cut < t
      BY <2>1, <3>4, <3>6
    <3> QED
      BY <3>3, <3>5, <3>7, <3>9, <3>10, <3>11 DEF SummarySound
  <2> QED
    BY <1>2, <1>3, <1>4, <2>6, <2>7, <2>9, <2>10, <2>11, <2>12, MovesOn
<1> QED
  BY <1>5, <1>6

-----------------------------------------------------------------------------
(* A loop writes the row. *)

(* Loop n moves to k; the row changes as the hypotheses say. *)
LEMMA LoopWrites ==
    ASSUME CoalescerInv, NEW n \in Seqs, NEW k \in LoopStates, loop' = [loop EXCEPT ![n] = k], n <= last,
           UNCHANGED <<ran, overtaken, last>>, TypeOK', pending' \subseteq pending,
           LoopSound(k)', k.at # "summarize",
           Busy(loop[n]) \/ UNCHANGED <<leased, pending>>,
           Busy(k) /\ ~overtaken => leased' /\ k.batch \subseteq pending' /\ Busy(loop[n]),
           ~overtaken => \A i \in 1 .. Len(rounds') : \/ \E j \in 1 .. Len(rounds) : rounds'[i] = rounds[j]
                                                      \/ rounds'[i] \subseteq pending,
           AllSeen', RoundsSound', ContextInOrder'
    PROVE  CoalescerInv'
<1>1. TypeOK /\ OneLoop /\ LoopsSound /\ SummariesSound
  BY DEF CoalescerInv
<1>2. loop \in [Seqs -> LoopStates] /\ last \in Nat /\ n \in Nat /\ \A s \in pending : s \in Nat
  BY <1>1 DEF TypeOK, LoopStates, Seqs
<1>3. loop'[n] = k /\ \A d \in Seqs \ {n} : loop'[d] = loop[d]
  BY <1>2
<1>4. OneLoop'
  BY <1>1, <1>3, OneLoopKept
<1>5. LoopsSound'
  <2> SUFFICES ASSUME NEW d \in Seqs
               PROVE  LoopSound(loop[d])' /\ (d > last => loop'[d] = NoLoop)
    BY DEF LoopsSound
  <2>1. CASE d = n
    BY <1>2, <1>3, <2>1 DEF LoopSound
  <2>2. CASE d # n
    <3>1. PICK o \in LoopStates : o = loop[d] /\ o = loop'[d]
      BY <1>2, <1>3, <2>2
    <3>2. LoopSound(o) /\ (d > last => o = NoLoop)
      BY <1>1, <3>1 DEF LoopsSound
    <3>3. LoopSound(o)'
      BY <1>2, <3>2, LoopKept
    <3> QED
      BY <3>1, <3>2, <3>3 DEF LoopSound
  <2> QED
    BY <2>1, <2>2
<1>6. SummariesSound'
  <2> SUFFICES ASSUME ~overtaken, NEW d \in Seqs, loop'[d].at = "summarize"
               PROVE  SummarySound(loop[d])'
    BY DEF SummariesSound
  <2>1. PICK o \in LoopStates : o = loop[d] /\ o = loop'[d]
    BY <1>2, <1>3
  <2>2. SummarySound(o)
    BY <1>1, <2>1 DEF SummariesSound
  <2>3. SummarySound(o)'
    BY <1>2, <2>2, SummaryKept
  <2> QED
    BY <2>1, <2>3 DEF SummarySound
<1> QED
  BY <1>4, <1>5, <1>6 DEF CoalescerInv

(* ApplySummary keeps, in order, the rounds that lie behind its cut. *)
LEMMA ApplySummaryKeeps ==
    ASSUME CoalescerInv, NEW n \in Seqs, ApplySummary(n)
    PROVE  CoalescerInv'
<1>1. PICK l : l = loop[n]
  OBVIOUS
<1>2. /\ l \in LoopStates /\ l.at = "summarize" /\ n <= last /\ LoopSound(l) /\ l.more \in BOOLEAN
      /\ ~overtaken => SummarySound(l)
  BY <1>1, Fired DEF ApplySummary, At, LoopStates
<1>3. /\ TypeOK /\ OneLoop /\ AllSeen /\ RoundsSound /\ ContextInOrder /\ loop \in [Seqs -> LoopStates]
      /\ rounds \in Seq(SUBSET Seqs) /\ Len(rounds) \in Nat /\ Len(rounds) <= MaxRounds /\ last \in Nat
  BY DEF CoalescerInv, TypeOK, LoopStates
<1>4. /\ UNCHANGED <<sent, committed, cur, stmt, state, leased, pending, last, ran, replied, lost, overtaken, faults>>
  BY DEF ApplySummary, topicVars, historyVars
<1>5. PICK cut : cut = Cut(l)
  OBVIOUS
<1>6. PICK keep \in InOrder({i \in DOMAIN rounds : Max(rounds[i]) > cut}, Len(rounds)) :
         rounds' = [i \in DOMAIN keep |-> rounds[keep[i]]]
  BY <1>1, <1>5 DEF ApplySummary, Cut
<1>7. PICK m \in 0 .. Len(rounds) : keep \in [1 .. m -> {i \in DOMAIN rounds : Max(rounds[i]) > cut}]
  BY <1>6 DEF InOrder
<1>8. /\ m \in Nat /\ m <= Len(rounds)
      /\ \A i \in 1 .. m : keep[i] \in 1 .. Len(rounds) /\ Max(rounds[keep[i]]) > cut
      /\ \A i, j \in 1 .. m : i < j => keep[i] < keep[j]
      /\ DOMAIN keep = 1 .. m
  <2>1. DOMAIN keep = 1 .. m /\ DOMAIN rounds = 1 .. Len(rounds)
    BY <1>3, <1>7
  <2>2. \A i, j \in DOMAIN keep : i < j => keep[i] < keep[j]
    BY <1>6 DEF InOrder
  <2>3. \A i \in 1 .. m : keep[i] \in {j \in 1 .. Len(rounds) : Max(rounds[j]) > cut}
    BY <1>7, <2>1
  <2> QED
    BY <1>3, <1>7, <2>1, <2>2, <2>3
<1>9. rounds' = [i \in 1 .. m |-> rounds[keep[i]]]
  BY <1>6, <1>8
<1>10. rounds' \in Seq(SUBSET Seqs) /\ Len(rounds') = m /\ \A i \in 1 .. m : rounds'[i] = rounds[keep[i]]
  <2>1. \A i \in 1 .. m : rounds[keep[i]] \in SUBSET Seqs
    BY <1>3, <1>8
  <2>2. rounds' \in [1 .. m -> SUBSET Seqs]
    BY <1>9, <2>1
  <2> QED
    BY <1>8, <1>9, <2>2
<1>11. l.fold \in Seq(SUBSET Seqs) /\ l.seen \subseteq Seqs
  BY <1>2 DEF LoopStates
<1>12. memory' = l.seen \cup UNION Range(l.fold)
  BY <1>1 DEF ApplySummary
<1>13. \A x \in memory' : x \in l.seen \/ \E i \in 1 .. Len(l.fold) : x \in l.fold[i]
  <2>1. DOMAIN l.fold = 1 .. Len(l.fold)
    BY <1>11
  <2> QED
    BY <1>12, <2>1 DEF Range
<1>14. memory' \subseteq Seqs
  BY <1>11, <1>13
<1>15. PICK k : k = Continue(l, l.more)
  OBVIOUS
<1>16. k \in LoopStates /\ k.batch = {} /\ k.more = FALSE /\ k.at = IF l.more THEN "load" ELSE "none"
  BY <1>2, <1>15, ContinueTyped
<1>17. loop' = [loop EXCEPT ![n] = k]
  BY <1>1, <1>15 DEF ApplySummary
<1>18. TypeOK'
  <2>1. loop' \in [Seqs -> LoopStates]
    BY <1>3, <1>16, <1>17
  <2>2. Len(rounds') <= MaxRounds
    BY <1>3, <1>8, <1>10, CoalescerConstants
  <2> QED
    BY <1>3, <1>4, <1>10, <1>14, <2>1, <2>2 DEF TypeOK, LoopStates
<1>19. LoopSound(k)'
  BY <1>16 DEF LoopSound
<1>20. Busy(k) /\ ~overtaken => leased' /\ k.batch \subseteq pending' /\ Busy(loop[n])
  <2>1. Busy(k) => Busy(loop[n])
    BY <1>1, <1>16 DEF Busy
  <2> QED
    BY <1>3, <1>4, <1>16, <2>1 DEF OneLoop, Active, Busy
<1>21. AllSeen'
  BY <1>3, <1>4 DEF AllSeen
<1>22. RoundsSound'
  BY <1>3, <1>4, <1>8, <1>10 DEF RoundsSound
<1>23. \A i \in 1 .. Len(rounds') : \E j \in 1 .. Len(rounds) : rounds'[i] = rounds[j]
  BY <1>8, <1>10
<1>24. ASSUME ~overtaken
       PROVE  /\ \A i, j \in 1 .. m : i < j => \A s \in rounds'[i], t \in rounds'[j] : s < t
              /\ \A i \in 1 .. m : \A s \in rounds'[i] : (\A t \in pending : s < t) /\ (\A x \in memory' : x < s)
              /\ \A x \in memory', t \in pending : x < t
              /\ memory' \subseteq 1 .. last
  <2>1. /\ cut \in 1 .. last /\ cut \in Nat
        /\ \A x \in l.seen : x <= cut
        /\ \A i \in 1 .. Len(l.fold) : \A x \in l.fold[i] : x <= cut
        /\ \A i \in 1 .. Len(rounds) : \A s, t \in rounds[i] : s <= cut => t <= cut
        /\ \A t \in pending : cut < t
    BY <1>2, <1>5, <1>24 DEF SummarySound
  <2>2. ASSUME NEW x \in memory'
        PROVE  x <= cut /\ x \in Nat /\ x >= 1
    <3>1. x \in l.seen \/ \E i \in 1 .. Len(l.fold) : x \in l.fold[i]
      BY <1>13
    <3>2. x <= cut
      BY <2>1, <3>1
    <3>3. x \in Seqs
      BY <1>14
    <3> QED
      BY <3>2, <3>3, CoalescerConstants DEF Seqs
  <2>3. ASSUME NEW i \in 1 .. m, NEW s \in rounds'[i]
        PROVE  cut < s /\ s \in Nat
    <3>1. PICK r : r = rounds[keep[i]]
      OBVIOUS
    <3>2. /\ r # {} /\ r \in SUBSET Nat /\ (\A x \in r : x <= last) /\ s \in r /\ Max(r) > cut
          /\ \A x, y \in r : x <= cut => y <= cut
      BY <1>3, <1>8, <1>10, <2>1, <2>3, <3>1 DEF RoundsSound
    <3>3. PICK x \in r : x > cut
      BY <1>3, <3>2, MaxSeqs
    <3>4. ~(s <= cut)
      BY <2>1, <3>2, <3>3
    <3> QED
      BY <2>1, <3>2, <3>4
  <2>4. \A t \in pending : t \in Nat
    BY <1>3 DEF TypeOK
  <2>5. /\ \A i, j \in 1 .. Len(rounds) : i < j => \A s \in rounds[i], t \in rounds[j] : s < t
        /\ \A i \in 1 .. Len(rounds) : \A s \in rounds[i] : \A t \in pending : s < t
    BY <1>3, <1>24 DEF ContextInOrder
  <2>6. \A i, j \in 1 .. m : i < j => \A s \in rounds'[i], t \in rounds'[j] : s < t
    BY <1>8, <1>10, <2>5, SMTT(20)
  <2>7. \A i \in 1 .. m : \A s \in rounds'[i] : (\A t \in pending : s < t) /\ (\A x \in memory' : x < s)
    <3> SUFFICES ASSUME NEW i \in 1 .. m, NEW s \in rounds'[i]
                 PROVE  (\A t \in pending : s < t) /\ (\A x \in memory' : x < s)
      OBVIOUS
    <3>1. keep[i] \in 1 .. Len(rounds) /\ s \in rounds[keep[i]]
      BY <1>8, <1>10
    <3>2. \A t \in pending : s < t
      BY <2>5, <3>1
    <3>3. cut < s /\ s \in Nat
      BY <2>3
    <3> QED
      BY <2>1, <2>2, <3>2, <3>3
  <2>8. (\A x \in memory', t \in pending : x < t) /\ memory' \subseteq 1 .. last
    BY <1>3, <2>1, <2>2, <2>4
  <2> QED
    BY <2>6, <2>7, <2>8
<1>25. ContextInOrder'
  BY <1>4, <1>10, <1>24 DEF ContextInOrder
<1>26. pending' \subseteq pending /\ UNCHANGED <<leased, pending>> /\ UNCHANGED <<ran, overtaken, last>> /\ k.at # "summarize"
  BY <1>4, <1>16
<1> QED
  BY <1>2, <1>16, <1>17, <1>18, <1>19, <1>20, <1>21, <1>22, <1>23, <1>25, <1>26, LoopWrites

(* CommitRound appends the batch and drops the oldest rounds beyond the cap. *)
LEMMA CappedRounds ==
    ASSUME NEW b \in SUBSET Seqs, rounds \in Seq(SUBSET Seqs),
           rounds' = SubSeq(Append(rounds, b), Max({1, Len(Append(rounds, b)) - MaxRounds + 1}), Len(Append(rounds, b)))
    PROVE  /\ rounds' \in Seq(SUBSET Seqs) /\ Len(rounds') <= MaxRounds
           /\ \E lo \in 1 .. Len(rounds) + 1 :
                 /\ Len(rounds') = Len(rounds) + 2 - lo
                 /\ \A i \in 1 .. Len(rounds') : /\ lo + i - 1 \in 1 .. Len(rounds) + 1
                                                 /\ lo + i - 1 <= Len(rounds) => rounds'[i] = rounds[lo + i - 1]
                                                 /\ lo + i - 1 > Len(rounds) => rounds'[i] = b
<1>1. PICK all : all = Append(rounds, b)
  OBVIOUS
<1>2. PICK r : r = rounds
  OBVIOUS
<1>3. PICK len \in Nat : len = Len(r)
  BY <1>2
<1>4. /\ all \in Seq(SUBSET Seqs) /\ Len(all) = len + 1 /\ all[len + 1] = b
      /\ \A i \in 1 .. len : all[i] = r[i]
  BY <1>1, <1>2, <1>3
<1>5. PICK lo : lo = Max({1, Len(all) - MaxRounds + 1})
  OBVIOUS
<1>6. lo \in {1, len + 1 - MaxRounds + 1} /\ lo >= 1 /\ lo >= len + 1 - MaxRounds + 1
  <2>1. PICK x : x = Len(all) - MaxRounds + 1
    OBVIOUS
  <2>2. x \in Int /\ x = len + 1 - MaxRounds + 1
    BY <1>3, <1>4, <2>1, CoalescerConstants
  <2>3. lo = Max({1, x})
    BY <1>5, <2>1
  <2>4. \E y \in {1, x} : \A z \in {1, x} : y >= z
    BY <2>2
  <2>5. lo \in {1, x} /\ \A z \in {1, x} : lo >= z
    BY <2>3, <2>4 DEF Max
  <2> QED
    BY <2>2, <2>5
<1>7. lo \in 1 .. len + 1
  BY <1>3, <1>6, CoalescerConstants
<1>8. rounds' = SubSeq(all, lo, Len(all))
  BY <1>1, <1>5
<1>9. /\ rounds' \in Seq(SUBSET Seqs) /\ Len(rounds') = len + 2 - lo
      /\ \A i \in 1 .. Len(rounds') : rounds'[i] = all[lo + i - 1]
  <2>1. lo \in Int /\ len + 1 \in Int /\ lo <= len + 1
    BY <1>3, <1>7
  <2>2. \A i \in lo .. len + 1 : all[i] \in SUBSET Seqs
    <3>1. \A i \in lo .. len + 1 : i \in 1 .. Len(all)
      BY <1>3, <1>4, <1>7
    <3> QED
      BY <1>4, <3>1
  <2>3. PICK f : f = SubSeq(all, lo, len + 1)
    OBVIOUS
  <2>4. /\ f \in Seq(SUBSET Seqs) /\ Len(f) = IF lo <= len + 1 THEN (len + 1) - lo + 1 ELSE 0
        /\ \A i \in 1 .. (len + 1) - lo + 1 : f[i] = all[lo + i - 1]
    BY <2>1, <2>2, <2>3, SubSeqProperties
  <2>5. rounds' = f
    BY <1>4, <1>8, <2>3
  <2>6. (len + 1) - lo + 1 = len + 2 - lo
    BY <1>3, <2>1
  <2> QED
    BY <2>1, <2>4, <2>5, <2>6
<1>10. Len(rounds') <= MaxRounds
  BY <1>3, <1>6, <1>7, <1>9, CoalescerConstants
<1>11. \A i \in 1 .. Len(rounds') : /\ lo + i - 1 \in 1 .. len + 1
                                    /\ lo + i - 1 <= len => rounds'[i] = r[lo + i - 1]
                                    /\ lo + i - 1 > len => rounds'[i] = b
  <2> SUFFICES ASSUME NEW i \in 1 .. Len(rounds')
               PROVE  /\ lo + i - 1 \in 1 .. len + 1
                      /\ lo + i - 1 <= len => rounds'[i] = r[lo + i - 1]
                      /\ lo + i - 1 > len => rounds'[i] = b
    OBVIOUS
  <2>1. lo + i - 1 \in 1 .. len + 1
    BY <1>3, <1>7, <1>9
  <2>2. PICK j \in 1 .. len + 1 : j = lo + i - 1 /\ rounds'[i] = all[j]
    BY <1>9, <2>1
  <2>3. \/ j \in 1 .. len /\ all[j] = r[j]
        \/ j = len + 1 /\ all[j] = b
    BY <1>3, <1>4, <2>2, SMTT(20)
  <2>4. CASE j \in 1 .. len /\ all[j] = r[j]
    <3>1. ~(j > len)
      BY <1>3, <2>4
    <3> QED
      BY <2>2, <2>4, <3>1
  <2>5. CASE j = len + 1 /\ all[j] = b
    <3>1. ~(j <= len)
      BY <1>3, <2>5
    <3> QED
      BY <2>2, <2>5, <3>1
  <2> QED
    BY <2>3, <2>4, <2>5
<1> QED
  BY <1>2, <1>3, <1>7, <1>9, <1>10, <1>11

(* CommitRound or DiscardPending: what goes from pending was run. *)
LEMMA ConsumeKeeps ==
    ASSUME CoalescerInv, NEW n \in Seqs, NEW k \in LoopStates, NEW upTo \in Nat, loop' = [loop EXCEPT ![n] = k],
           n <= last, Busy(loop[n]), Consume(upTo), UNCHANGED <<topicVars, memory, ran, lost, overtaken>>,
           faults' \in 0 .. MaxAgentFaults, \A s \in pending : s <= upTo => s \in ran,
           rounds' \in Seq(SUBSET Seqs), Len(rounds') <= MaxRounds, replied' \subseteq ran,
           ~overtaken => \A i \in 1 .. Len(rounds') : \/ \E j \in 1 .. Len(rounds) : rounds'[i] = rounds[j]
                                                      \/ rounds'[i] \subseteq pending,
           RoundsSound', ContextInOrder',
           k.batch = {}, k.at \in {"none", "load", "sumload"}, Busy(k) => pending' # {}
    PROVE  CoalescerInv'
<1>1. /\ TypeOK /\ AllSeen /\ loop \in [Seqs -> LoopStates] /\ last \in Nat /\ \A s \in pending : s \in Nat
  BY DEF CoalescerInv, TypeOK, LoopStates
<1>2. /\ UNCHANGED <<sent, committed, cur, stmt, last, memory, ran, lost, overtaken>>
      /\ pending' = {s \in pending : s > upTo} /\ state' = (IF pending' = {} THEN "idle" ELSE "running")
      /\ leased' = (pending' # {})
  BY DEF Consume, topicVars
<1>3. pending' \subseteq pending /\ loop' \in [Seqs -> LoopStates]
  BY <1>1, <1>2
<1>4. /\ state' \in {"idle", "running"} /\ leased' \in BOOLEAN /\ (state' = "running" => pending' # {})
      /\ (leased' => state' = "running")
  BY <1>2
<1>0. last # 0
  BY <1>1 DEF Seqs
<1>5. TypeOK'
  BY <1>0, <1>1, <1>2, <1>3, <1>4 DEF TypeOK, LoopStates
<1>6. AllSeen'
  <2>1. \A s \in pending : s \in pending' \/ s \in ran
    BY <1>1, <1>2
  <2> QED
    BY <1>1, <1>2, <2>1 DEF AllSeen
<1>7. LoopSound(k)'
  BY DEF LoopSound
<1>8. Busy(k) => leased' /\ k.batch \subseteq pending'
  BY <1>2
<1> QED
  BY <1>2, <1>3, <1>5, <1>6, <1>7, <1>8, LoopWrites

(* What a loop that settles consumes: its batch, and nothing that came since. *)
LEMMA BatchConsumed ==
    ASSUME CoalescerInv, NEW n \in Seqs, loop[n].at = "settle"
    PROVE  /\ Max(loop[n].batch) \in Nat /\ loop[n].batch \in SUBSET Seqs /\ loop[n].batch # {} /\ loop[n].batch \subseteq ran
           /\ \A s \in loop[n].batch : s <= Max(loop[n].batch)
           /\ loop[n].batch \subseteq 1 .. last
           /\ \A s \in pending : s <= Max(loop[n].batch) => s \in loop[n].batch
           /\ ~overtaken => loop[n].batch \subseteq pending
<1>1. PICK l : l = loop[n]
  OBVIOUS
<1>2. l \in LoopStates /\ LoopSound(l) /\ l.at = "settle"
  BY <1>1, Fired
<1>3. PICK b : b = l.batch
  OBVIOUS
<1>4. /\ last \in Nat /\ b \in SUBSET Nat /\ b \subseteq 1 .. last /\ (\A x \in b : x <= last) /\ b # {} /\ b \in SUBSET Seqs
      /\ \A s \in pending : s \in Nat
  BY <1>2, <1>3 DEF CoalescerInv, TypeOK, LoopSound, LoopStates
<1>5. PICK m : m = Max(b)
  OBVIOUS
<1>6. m \in b /\ \A y \in b : y <= m
  BY <1>4, <1>5, MaxSeqs
<1>7. \A s \in pending : s <= m => s \in b
  <2>1. \A s \in pending \ b : \A t \in b : t < s
    BY <1>2, <1>3 DEF LoopSound
  <2> QED
    BY <1>4, <1>6, <2>1
<1>8. b \subseteq ran
  BY <1>2, <1>3 DEF LoopSound
<1>9. ~overtaken => b \subseteq pending
  BY <1>1, <1>2, <1>3 DEF CoalescerInv, OneLoop, Active
<1> QED
  BY <1>1, <1>3, <1>4, <1>5, <1>6, <1>7, <1>8, <1>9

LEMMA DiscardKeeps ==
    ASSUME CoalescerInv, NEW n \in Seqs, NEW k \in LoopStates, NEW upTo, loop' = [loop EXCEPT ![n] = k],
           \/ loop[n].at = "settle" /\ upTo = Max(loop[n].batch)
           \/ loop[n].at = "release" /\ upTo = 0,
           DiscardPending(upTo), UNCHANGED <<topicVars, ran, lost, overtaken>>, faults' \in 0 .. MaxAgentFaults,
           k.batch = {}, k.at \in {"none", "load", "sumload"}, Busy(k) => pending' # {}
    PROVE  CoalescerInv'
<1>1. /\ TypeOK /\ RoundsSound /\ ContextInOrder /\ rounds \in Seq(SUBSET Seqs) /\ Len(rounds) <= MaxRounds
      /\ replied \subseteq ran /\ \A s \in pending : s \in Nat /\ s > 0
  BY DEF CoalescerInv, TypeOK
<1>2. Consume(upTo) /\ UNCHANGED <<rounds, memory, replied>>
  BY DEF DiscardPending
<1>3. upTo \in Nat /\ \A s \in pending : s <= upTo => s \in ran
  <2>1. CASE loop[n].at = "settle" /\ upTo = Max(loop[n].batch)
    BY <2>1, BatchConsumed
  <2>2. CASE upTo = 0
    BY <1>1, <2>2
  <2> QED
    BY <2>1, <2>2
<1>4. n <= last /\ Busy(loop[n])
  BY Fired DEF Busy
<1>5. pending' \subseteq pending /\ UNCHANGED last
  BY <1>2 DEF Consume
<1>6. RoundsSound' /\ ContextInOrder'
  BY <1>1, <1>2, <1>5 DEF RoundsSound, ContextInOrder
<1> QED
  BY <1>1, <1>2, <1>3, <1>4, <1>6, ConsumeKeeps

LEMMA CommitKeeps ==
    ASSUME CoalescerInv, NEW n \in Seqs, NEW k \in LoopStates, loop' = [loop EXCEPT ![n] = k], loop[n].at = "settle",
           CommitRound(loop[n].batch), UNCHANGED <<topicVars, ran, lost, overtaken>>, faults' \in 0 .. MaxAgentFaults,
           k.batch = {}, k.at \in {"none", "load", "sumload"}, Busy(k) => pending' # {}
    PROVE  CoalescerInv'
<1>1. /\ TypeOK /\ RoundsSound /\ ContextInOrder /\ rounds \in Seq(SUBSET Seqs) /\ Len(rounds) \in Nat
      /\ replied \subseteq ran /\ \A s \in pending : s \in Nat
  <2>1. TypeOK /\ RoundsSound /\ ContextInOrder
    BY DEF CoalescerInv
  <2>2. rounds \in Seq(SUBSET Seqs) /\ replied \subseteq ran /\ pending \subseteq 1 .. last
    BY <2>1 DEF TypeOK
  <2> QED
    BY <2>1, <2>2
<1>2. PICK b : b = loop[n].batch
  OBVIOUS
<1>3. PICK m : m = Max(b)
  OBVIOUS
<1>4. /\ m \in Nat /\ b \in SUBSET Seqs /\ b # {} /\ b \subseteq ran /\ (\A s \in b : s <= m) /\ b \subseteq 1 .. last
      /\ \A s \in pending : s <= m => s \in b
      /\ ~overtaken => b \subseteq pending
  BY <1>2, <1>3, BatchConsumed
<1>5. /\ Consume(m) /\ replied' = replied \cup b /\ UNCHANGED memory
      /\ rounds' = SubSeq(Append(rounds, b), Max({1, Len(Append(rounds, b)) - MaxRounds + 1}), Len(Append(rounds, b)))
  BY <1>2, <1>3 DEF CommitRound
<1>6. rounds' \in Seq(SUBSET Seqs) /\ Len(rounds') <= MaxRounds
  BY <1>1, <1>4, <1>5, CappedRounds
<1>7. PICK lo \in 1 .. Len(rounds) + 1 :
         \A i \in 1 .. Len(rounds') : /\ lo + i - 1 \in 1 .. Len(rounds) + 1
                                      /\ lo + i - 1 <= Len(rounds) => rounds'[i] = rounds[lo + i - 1]
                                      /\ lo + i - 1 > Len(rounds) => rounds'[i] = b
  BY <1>1, <1>4, <1>5, CappedRounds
<1>8. \A i \in 1 .. Len(rounds') : \/ lo + i - 1 \in 1 .. Len(rounds) /\ rounds'[i] = rounds[lo + i - 1]
                                   \/ lo + i - 1 = Len(rounds) + 1 /\ rounds'[i] = b
  BY <1>1, <1>7
<1>9. pending' = {s \in pending : s > m} /\ UNCHANGED last
  BY <1>5 DEF Consume
<1>10. RoundsSound'
  BY <1>1, <1>4, <1>8, <1>9 DEF RoundsSound
<1>11. ASSUME ~overtaken
       PROVE  /\ \A i, j \in 1 .. Len(rounds') : i < j => \A s \in rounds'[i], t \in rounds'[j] : s < t
              /\ \A i \in 1 .. Len(rounds') : \A s \in rounds'[i] : (\A t \in pending' : s < t) /\ (\A x \in memory : x < s)
              /\ \A x \in memory, t \in pending' : x < t
              /\ memory \subseteq 1 .. last
  <2>1. /\ \A i, j \in 1 .. Len(rounds) : i < j => \A s \in rounds[i], t \in rounds[j] : s < t
        /\ \A i \in 1 .. Len(rounds) : \A s \in rounds[i] : (\A t \in pending : s < t) /\ (\A x \in memory : x < s)
        /\ \A x \in memory, t \in pending : x < t
        /\ memory \subseteq 1 .. last
    BY <1>1, <1>11 DEF ContextInOrder
  <2>2. ASSUME NEW i \in 1 .. Len(rounds'), NEW j \in 1 .. Len(rounds'), i < j, NEW s \in rounds'[i], NEW t \in rounds'[j]
        PROVE  s < t
    <3>1. lo + i - 1 \in 1 .. Len(rounds) /\ rounds'[i] = rounds[lo + i - 1] /\ lo + i - 1 < lo + j - 1
      BY <1>1, <1>6, <1>8, <2>2, SMTT(20)
    <3>2. CASE lo + j - 1 \in 1 .. Len(rounds) /\ rounds'[j] = rounds[lo + j - 1]
      BY <2>1, <2>2, <3>1, <3>2
    <3>3. CASE rounds'[j] = b
      BY <1>4, <1>11, <2>1, <2>2, <3>1, <3>3
    <3> QED
      BY <1>8, <3>2, <3>3
  <2>3. ASSUME NEW i \in 1 .. Len(rounds'), NEW s \in rounds'[i]
        PROVE  (\A t \in pending' : s < t) /\ (\A x \in memory : x < s)
    <3>1. CASE lo + i - 1 \in 1 .. Len(rounds) /\ rounds'[i] = rounds[lo + i - 1]
      BY <1>9, <2>1, <2>3, <3>1
    <3>2. CASE rounds'[i] = b
      <4>1. s \in b /\ s <= m /\ s \in pending /\ s \in Nat
        BY <1>1, <1>4, <1>11, <2>3, <3>2
      <4>2. \A t \in pending' : t \in Nat /\ t > m
        BY <1>1, <1>9
      <4> QED
        BY <1>4, <2>1, <4>1, <4>2
    <3> QED
      BY <1>8, <3>1, <3>2
  <2> QED
    BY <1>9, <2>1, <2>2, <2>3
<1>12. ContextInOrder'
  BY <1>5, <1>9, <1>11 DEF ContextInOrder
<1>13. ~overtaken => \A i \in 1 .. Len(rounds') : \/ \E j \in 1 .. Len(rounds) : rounds'[i] = rounds[j]
                                                  \/ rounds'[i] \subseteq pending
  BY <1>4, <1>8
<1>14. n <= last /\ Busy(loop[n]) /\ replied' \subseteq ran /\ \A s \in pending : s <= m => s \in ran
  BY <1>1, <1>4, <1>5, Fired DEF Busy
<1> QED
  BY <1>4, <1>5, <1>6, <1>10, <1>12, <1>13, <1>14, ConsumeKeeps

LEMMA SettleKeeps ==
    ASSUME CoalescerInv, NEW n \in Seqs, Settle(n)
    PROVE  CoalescerInv'
<1>1. /\ loop[n].at = "settle" /\ UNCHANGED <<topicVars, ran, lost, overtaken>> /\ faults' \in 0 .. MaxAgentFaults
  BY DEF Settle, At, CoalescerInv, TypeOK
<1>2. PICK more \in BOOLEAN : more = (pending' # {})
  OBVIOUS
<1>3. CASE loop[n].ok
  <2>1. PICK k : k = [NoLoop EXCEPT !.at = "sumload", !.more = more]
    OBVIOUS
  <2>2. k \in LoopStates /\ k.batch = {} /\ k.at = "sumload" /\ k.more = more
    BY <1>2, <2>1, NoLoopTyped DEF LoopStates
  <2>3. k.at \in {"none", "load", "sumload"} /\ (Busy(k) => pending' # {})
    BY <1>2, <2>2 DEF Busy
  <2>4. CommitRound(loop[n].batch) /\ loop' = [loop EXCEPT ![n] = k]
    BY <1>2, <1>3, <2>1 DEF Settle
  <2> QED
    BY <1>1, <2>2, <2>3, <2>4, CommitKeeps
<1>4. CASE ~loop[n].ok
  <2>1. PICK k : k = Continue(NoLoop, more)
    OBVIOUS
  <2>2. k \in LoopStates /\ k.batch = {} /\ k.more = FALSE /\ k.at = IF more THEN "load" ELSE "none"
    BY <1>2, <2>1, NoLoopTyped, ContinueTyped
  <2>3. k.at \in {"none", "load", "sumload"} /\ (Busy(k) => pending' # {})
    BY <1>2, <2>2 DEF Busy
  <2>4. PICK m : m = Max(loop[n].batch)
    OBVIOUS
  <2>5. DiscardPending(m) /\ loop' = [loop EXCEPT ![n] = k]
    BY <1>2, <1>4, <2>1, <2>4 DEF Settle
  <2> QED
    BY <1>1, <2>2, <2>3, <2>4, <2>5, DiscardKeeps
<1> QED
  BY <1>3, <1>4

LEMMA ReleaseKeeps ==
    ASSUME CoalescerInv, NEW n \in Seqs, Release(n)
    PROVE  CoalescerInv'
<1>1. /\ loop[n].at = "release" /\ UNCHANGED <<topicVars, ran, lost, overtaken>> /\ faults' \in 0 .. MaxAgentFaults
      /\ DiscardPending(0) /\ loop' = [loop EXCEPT ![n] = NoLoop]
  BY DEF Release, At, CoalescerInv, TypeOK
<1>2. NoLoop \in LoopStates /\ NoLoop.batch = {} /\ NoLoop.at \in {"none", "load", "sumload"} /\ ~Busy(NoLoop)
  BY NoLoopTyped
<1> QED
  BY <1>1, <1>2, DiscardKeeps

LEMMA DriveFailsKeeps ==
    ASSUME CoalescerInv, NEW n \in Seqs, DriveFails(n)
    PROVE  CoalescerInv'
<1>1. /\ loop[n].at \in {"load", "settle", "release"} /\ UNCHANGED <<topicVars, ran, lost, overtaken>>
      /\ loop' = [loop EXCEPT ![n] = NoLoop]
  BY DEF DriveFails
<1>2. faults' \in 0 .. MaxAgentFaults /\ ran \subseteq Seqs
  BY FaultTyped DEF DriveFails, CoalescerInv, TypeOK
<1>3. NoLoop \in LoopStates /\ NoLoop.batch = {} /\ NoLoop.at \in {"none", "load", "sumload"} /\ ~Busy(NoLoop)
  BY NoLoopTyped
<1>4. CASE UNCHANGED <<rowVars, replied>>
  <2>1. n <= last
    BY <1>1, Fired
  <2>2. LoopSound(NoLoop)' /\ NoLoop.at = "none"
    BY NoLoopTyped DEF LoopSound
  <2> QED
    BY <1>1, <1>2, <1>3, <1>4, <2>1, <2>2, MovesOn
<1>5. CASE loop[n].at = "settle" /\ CommitRound(loop[n].batch)
  BY <1>1, <1>2, <1>3, <1>5, CommitKeeps
<1>6. CASE loop[n].at = "settle" /\ DiscardPending(Max(loop[n].batch))
  <2>1. PICK m : m = Max(loop[n].batch)
    OBVIOUS
  <2> QED
    BY <1>1, <1>2, <1>3, <1>6, <2>1, DiscardKeeps
<1> QED
  BY <1>4, <1>5, <1>6 DEF DriveFails, At

LEMMA SummarizeFailsKeeps ==
    ASSUME CoalescerInv, NEW n \in Seqs, SummarizeFails(n)
    PROVE  CoalescerInv'
<1>1. faults' \in 0 .. MaxAgentFaults
  BY FaultTyped DEF SummarizeFails, CoalescerInv, TypeOK
<1> QED
  BY <1>1, ContinueKeeps DEF SummarizeFails

-----------------------------------------------------------------------------
(* The consumer, the clock and crashes. *)

(* Loops stay as they are or die, and the row stays as it is. *)
LEMMA QuietKeeps ==
    ASSUME CoalescerInv, TypeOK', OneLoop', AllSeen', UNCHANGED <<pending, last, rounds, memory, ran>>,
           ~overtaken' => ~overtaken, \A d \in Seqs : loop'[d] = loop[d] \/ loop'[d] = NoLoop
    PROVE  CoalescerInv'
<1>1. TypeOK /\ LoopsSound /\ RoundsSound /\ SummariesSound /\ ContextInOrder
  BY DEF CoalescerInv
<1>2. LoopsSound'
  <2> SUFFICES ASSUME NEW d \in Seqs
               PROVE  LoopSound(loop[d])' /\ (d > last => loop'[d] = NoLoop)
    BY DEF LoopsSound
  <2>1. CASE loop'[d] = loop[d]
    BY <1>1, <2>1 DEF LoopsSound, LoopSound
  <2>2. CASE loop'[d] = NoLoop
    BY <2>2, NoLoopTyped DEF LoopSound
  <2> QED
    BY <2>1, <2>2
<1>3. RoundsSound' /\ ContextInOrder'
  BY <1>1 DEF RoundsSound, ContextInOrder
<1>4. SummariesSound'
  <2> SUFFICES ASSUME ~overtaken', NEW d \in Seqs, loop'[d].at = "summarize"
               PROVE  SummarySound(loop[d])'
    BY DEF SummariesSound
  <2>1. loop'[d] = loop[d]
    BY NoLoopTyped
  <2>2. SummarySound(loop[d])
    BY <1>1, <2>1 DEF SummariesSound
  <2> QED
    BY <2>1, <2>2 DEF SummarySound, Cut
<1> QED
  BY <1>2, <1>3, <1>4 DEF CoalescerInv

(* A new message reaches the row, and fires a loop only where none holds    *)
(* the lock; the second update leaves an idle row idle.                     *)
LEMMA FreshKeeps ==
    ASSUME CoalescerInv, NEW n \in Seqs, n = cur + 1, cur < sent, cur' = n, stmt' = "claim", Fresh(n),
           ClaimPending(n) \/ AppendOnly(n),
           \/ loop' = loop
           \/ ClaimPending(n) /\ loop' = [loop EXCEPT ![n].at = "load"],
           UNCHANGED <<sent, committed, ran, replied, overtaken>>, faults' \in 0 .. MaxAgentFaults,
           lost \subseteq lost', lost' \subseteq Seqs
    PROVE  CoalescerInv'
<1>1. TypeOK /\ OneLoop /\ LoopsSound /\ AllSeen /\ RoundsSound /\ SummariesSound /\ ContextInOrder
  BY DEF CoalescerInv
<1>2. /\ pending' = pending \cup {n} /\ last' = n /\ UNCHANGED <<rounds, memory>>
      /\ \/ ClaimPending(n) /\ Fires /\ state' = "running" /\ leased' = TRUE
         \/ UNCHANGED <<state, leased, loop>> /\ stmt = "append"
  BY DEF ClaimPending, AppendOnly
<1>3. /\ last \in Nat /\ last' \in Nat /\ n \in Nat /\ n > last /\ cur \in Nat /\ pending \subseteq 1 .. last
      /\ loop \in [Seqs -> LoopStates] /\ sent \in Nat /\ n <= sent
  <2>1. sent \in Nat /\ cur \in Nat /\ last \in Nat
    BY <1>1 DEF TypeOK
  <2>2. n <= sent /\ n \in Nat
    BY <2>1 DEF Seqs
  <2> QED
    BY <1>1, <1>2, <2>1, <2>2 DEF TypeOK, LoopStates, Fresh
<1>4. loop[n] = NoLoop
  BY <1>1, <1>3 DEF LoopsSound
<1>5. PICK k : k = [NoLoop EXCEPT !.at = "load"]
  OBVIOUS
<1>6. k \in LoopStates /\ k.at = "load" /\ k.batch = {} /\ k.more = FALSE
  BY <1>5, NoLoopTyped DEF LoopStates
<1>7. loop' \in [Seqs -> LoopStates] /\ \A d \in Seqs : loop'[d] = loop[d] \/ (d = n /\ loop'[d] = k /\ Fires /\ leased')
  <2>1. loop' = loop \/ (Fires /\ leased' /\ loop' = [loop EXCEPT ![n] = k])
    BY <1>3, <1>4, <1>5 DEF ClaimPending
  <2> QED
    BY <1>3, <1>6, <2>1
<1>8. \A s \in pending' : s \in 1 .. n /\ s \in Nat /\ (s \in pending \/ s > last)
  BY <1>2, <1>3
<1>9. TypeOK'
  <2>1. cur' \in 0 .. sent /\ committed \in 0 .. cur' /\ last' \in 0 .. sent
    BY <1>1, <1>2, <1>3 DEF TypeOK
  <2>2. n \in pending' /\ pending' \subseteq 1 .. last'
    BY <1>2, <1>8
  <2>3. state' \in {"idle", "running"} /\ leased' \in BOOLEAN /\ (leased' => state' = "running") /\ last' # 0
    <3>1. last' # 0
      BY <1>2, <1>3
    <3>2. stmt = "append" => state \in {"idle", "running"}
      BY <1>1 DEF TypeOK
    <3>3. leased \in BOOLEAN /\ (leased => state = "running")
      BY <1>1 DEF TypeOK
    <3>4. CASE state' = "running" /\ leased' = TRUE
      BY <3>1, <3>4
    <3>5. CASE UNCHANGED <<state, leased>> /\ stmt = "append"
      BY <3>1, <3>2, <3>3, <3>5, Zenon
    <3> QED
      BY <1>2, <3>4, <3>5
  <2> QED
    BY <1>1, <1>2, <1>7, <2>1, <2>2, <2>3 DEF TypeOK, LoopStates
<1>10. OneLoop'
  <2>1. \A d \in Seqs : (Active(d) <=> Busy(loop[d])) /\ (Active(d)' <=> Busy(loop'[d]))
    BY DEF Active, Busy
  <2>2. ~overtaken => \A e \in Seqs : Busy(loop[e]) =>
           leased /\ loop[e].batch \subseteq pending /\ \A f \in Seqs \ {e} : ~Busy(loop[f])
    BY <1>1, <2>1 DEF OneLoop
  <2>3. ~overtaken /\ Fires => \A e \in Seqs : ~Busy(loop[e])
    BY <1>1, <2>2 DEF Fires, TypeOK
  <2> SUFFICES ASSUME ~overtaken, NEW d \in Seqs, Busy(loop'[d])
               PROVE  /\ leased' /\ loop'[d].batch \subseteq pending'
                      /\ \A e \in Seqs \ {d} : ~Busy(loop'[e])
    BY <2>1 DEF OneLoop
  <2>4. CASE loop'[d] = loop[d]
    BY <1>2, <1>7, <2>2, <2>3, <2>4
  <2>5. CASE d = n /\ loop'[d] = k /\ Fires /\ leased'
    BY <1>2, <1>6, <1>7, <2>3, <2>5
  <2> QED
    BY <1>7, <2>4, <2>5
<1>11. LoopsSound'
  <2> SUFFICES ASSUME NEW d \in Seqs
               PROVE  LoopSound(loop[d])' /\ (d > last' => loop'[d] = NoLoop)
    BY DEF LoopsSound
  <2>1. CASE loop'[d] = loop[d]
    <3>1. PICK o \in LoopStates : o = loop[d] /\ o = loop'[d]
      BY <1>3, <2>1
    <3>2. LoopSound(o) /\ (d > last => o = NoLoop)
      BY <1>1, <3>1 DEF LoopsSound
    <3>3. LoopSound(o)'
      BY <1>2, <1>3, <1>8, <3>2, LoopKept
    <3>4. d > last' => d > last
      BY <1>2, <1>3 DEF Seqs
    <3> QED
      BY <3>1, <3>2, <3>3, <3>4 DEF LoopSound
  <2>2. CASE d = n /\ loop'[d] = k
    <3>1. ~(d > last')
      BY <1>2, <1>3, <2>2
    <3> QED
      BY <1>6, <2>2, <3>1 DEF LoopSound
  <2> QED
    BY <1>7, <2>1, <2>2
<1>12. AllSeen'
  <2> SUFFICES ASSUME NEW s \in Seqs, s <= n
               PROVE  s \in pending' \cup ran \cup lost'
    BY <1>2 DEF AllSeen
  <2>1. s \in Nat /\ (s = n \/ s <= cur)
    BY <1>3 DEF Seqs
  <2> QED
    BY <1>1, <1>2, <2>1 DEF AllSeen
<1>13. RoundsSound'
  BY <1>1, <1>2, <1>3 DEF RoundsSound
<1>14. SummariesSound'
  <2> SUFFICES ASSUME ~overtaken, NEW d \in Seqs, loop'[d].at = "summarize"
               PROVE  SummarySound(loop[d])'
    BY DEF SummariesSound
  <2>1. PICK o \in LoopStates : o = loop[d] /\ o = loop'[d]
    BY <1>3, <1>6, <1>7
  <2>2. SummarySound(o)
    BY <1>1, <2>1 DEF SummariesSound
  <2>3. SummarySound(o)'
    BY <1>2, <1>3, <1>8, <2>2, SummaryKept
  <2> QED
    BY <2>1, <2>3 DEF SummarySound, Cut
<1>15. ContextInOrder'
  <2> SUFFICES ASSUME ~overtaken
               PROVE  /\ \A i, j \in 1 .. Len(rounds) : i < j => \A s \in rounds[i], t \in rounds[j] : s < t
                      /\ \A i \in 1 .. Len(rounds) : \A s \in rounds[i] : (\A t \in pending' : s < t) /\ (\A m \in memory : m < s)
                      /\ \A m \in memory, t \in pending' : m < t
                      /\ memory \subseteq 1 .. last'
    BY <1>2 DEF ContextInOrder
  <2>1. /\ \A i, j \in 1 .. Len(rounds) : i < j => \A s \in rounds[i], t \in rounds[j] : s < t
        /\ \A i \in 1 .. Len(rounds) : \A s \in rounds[i] : (\A t \in pending : s < t) /\ (\A m \in memory : m < s)
        /\ \A m \in memory, t \in pending : m < t
        /\ memory \subseteq 1 .. last
    BY <1>1 DEF ContextInOrder
  <2>2. \A i \in 1 .. Len(rounds) : \A s \in rounds[i] : s < n
    BY <1>1, <1>3 DEF RoundsSound
  <2>3. memory \subseteq 1 .. last' /\ \A m \in memory : m < n
    BY <1>2, <1>3, <2>1
  <2> QED
    BY <1>2, <2>1, <2>2, <2>3
<1> QED
  BY <1>9, <1>10, <1>11, <1>12, <1>13, <1>14, <1>15 DEF CoalescerInv

LEMMA HandleEventKeeps ==
    ASSUME CoalescerInv, HandleEvent
    PROVE  CoalescerInv'
<1>1. TypeOK /\ OneLoop /\ AllSeen
  BY DEF CoalescerInv
<1>2. PICK n : n = cur + 1
  OBVIOUS
<1>3. /\ n \in Seqs /\ cur \in Nat /\ sent \in 0 .. MaxSeq /\ cur < sent /\ UNCHANGED <<sent, committed>>
      /\ last \in Nat /\ faults \in 0 .. MaxAgentFaults /\ lost \subseteq Seqs
  <2>1. sent \in 0 .. MaxSeq /\ cur \in 0 .. sent /\ MaxSeq \in Nat /\ cur < sent
    BY <1>1, CoalescerConstants DEF TypeOK, HandleEvent
  <2>2. n \in Seqs
    BY <1>2, <2>1 DEF Seqs
  <2> QED
    BY <1>1, <1>2, <2>1, <2>2 DEF TypeOK, HandleEvent
<1>4. ASSUME cur' = n, stmt' = "claim", UNCHANGED <<rowVars, loop, ran, replied, overtaken>>, n \in lost' \/ n <= last,
             lost \subseteq lost', lost' \subseteq Seqs, faults' \in 0 .. MaxAgentFaults
      PROVE  CoalescerInv'
  <2>1. UNCHANGED <<state, leased, pending, last, rounds, memory>>
    BY <1>4 DEF rowVars
  <2>2. cur' \in 0 .. sent /\ committed \in 0 .. cur'
    BY <1>1, <1>2, <1>3, <1>4 DEF TypeOK
  <2>3. TypeOK'
    BY <1>1, <1>3, <1>4, <2>1, <2>2 DEF TypeOK
  <2>4. OneLoop'
    BY <1>1, <1>4, <2>1 DEF OneLoop, Active
  <2>5. AllSeen'
    <3> SUFFICES ASSUME NEW s \in Seqs, s <= n \/ s <= last
                 PROVE  s \in pending \cup ran \cup lost'
      BY <1>3, <1>4, <2>1 DEF AllSeen
    <3>1. s \in Nat /\ (s = n \/ s <= cur \/ s <= last)
      BY <1>2, <1>3 DEF Seqs
    <3> QED
      BY <1>1, <1>4, <3>1 DEF AllSeen
  <2> QED
    BY <1>4, <2>1, <2>3, <2>4, <2>5, QuietKeeps
<1>5. CASE OnUserMessage(n) /\ cur' = n /\ stmt' = "claim"
  <2>1. /\ UNCHANGED <<ran, replied, lost, overtaken, faults>>
        /\ \/ ClaimPending(n) /\ loop' = [loop EXCEPT ![n].at = "load"]
           \/ AppendOnly(n) /\ UNCHANGED loop
    BY <1>5 DEF OnUserMessage, historyVars
  <2>0. lost \subseteq lost' /\ lost' \subseteq Seqs /\ faults' \in 0 .. MaxAgentFaults
    BY <1>3, <2>1
  <2>2. CASE Fresh(n)
    BY <1>2, <1>3, <1>5, <2>0, <2>1, <2>2, FreshKeeps
  <2>3. CASE ~Fresh(n)
    <3>1. UNCHANGED <<rowVars, loop>> /\ n <= last
      BY <1>2, <1>3, <2>1, <2>3 DEF ClaimPending, AppendOnly, Fresh, rowVars
    <3> QED
      BY <1>4, <1>5, <2>0, <2>1, <3>1
  <2> QED
    BY <2>2, <2>3
<1>6. CASE EventFails(n) /\ cur' = n /\ stmt' = "claim"
  <2>1. /\ lost' = lost \cup {n} /\ UNCHANGED <<loop, ran, replied, overtaken>>
        /\ UNCHANGED rowVars \/ AppendPending(n)
    BY <1>6 DEF EventFails
  <2>2. faults' \in 0 .. MaxAgentFaults
    BY <1>3, <1>6, FaultTyped DEF EventFails
  <2>3. lost \subseteq lost' /\ lost' \subseteq Seqs /\ n \in lost'
    BY <1>3, <2>1
  <2>4. CASE Fresh(n) /\ AppendPending(n)
    BY <1>2, <1>3, <1>6, <2>1, <2>2, <2>3, <2>4, FreshKeeps DEF AppendPending
  <2>5. CASE UNCHANGED rowVars
    BY <1>4, <1>6, <2>1, <2>2, <2>3, <2>5
  <2>6. CASE ~Fresh(n) /\ AppendPending(n)
    <3>1. UNCHANGED rowVars
      BY <2>6 DEF AppendPending, ClaimPending, AppendOnly, rowVars
    <3> QED
      BY <2>5, <3>1
  <2> QED
    BY <2>1, <2>4, <2>5, <2>6
<1>7. CASE NotClaimed(n) /\ UNCHANGED <<cur, rowVars, loop, historyVars, faults>>
  <2>1. /\ UNCHANGED <<cur, state, leased, pending, last, rounds, memory, loop, ran, replied, lost, overtaken, faults>>
        /\ stmt' = "append" /\ ~(n > last /\ state # "running")
    BY <1>7 DEF NotClaimed, Fresh, Fires, rowVars, historyVars
  <2>2. state # "absent"
    BY <1>1, <1>2, <1>3, <2>1 DEF TypeOK
  <2>3. TypeOK'
    BY <1>1, <1>3, <2>1, <2>2 DEF TypeOK
  <2>4. OneLoop' /\ AllSeen'
    BY <1>1, <2>1 DEF OneLoop, Active, AllSeen
  <2> QED
    BY <2>1, <2>3, <2>4, QuietKeeps
<1> QED
  BY <1>2, <1>5, <1>6, <1>7 DEF HandleEvent

(* Publishing, committing offsets, a crash and a stuttering step. *)
LEMMA TopicKeeps ==
    ASSUME CoalescerInv, PublishTrigger \/ CommitOffsets \/ CrashAgent \/ UNCHANGED vars
    PROVE  CoalescerInv'
<1>1. TypeOK /\ OneLoop /\ AllSeen
  BY DEF CoalescerInv
<1>2. /\ sent \in 0 .. MaxSeq /\ cur \in 0 .. sent /\ committed \in 0 .. cur /\ last \in 0 .. sent /\ MaxSeq \in Nat
      /\ faults \in 0 .. MaxAgentFaults
  BY <1>1, CoalescerConstants DEF TypeOK
<1>3. UNCHANGED <<state, leased, pending, last, rounds, memory, ran, replied, lost, overtaken>>
  BY DEF PublishTrigger, CommitOffsets, CrashAgent, vars, rowVars, historyVars
<1>4. loop' = loop \/ loop' = [d \in Seqs |-> NoLoop]
  BY DEF PublishTrigger, CommitOffsets, CrashAgent, vars
<1>5. /\ sent' \in 0 .. MaxSeq /\ cur' \in 0 .. sent' /\ committed' \in 0 .. cur' /\ last \in 0 .. sent'
      /\ cur' <= cur /\ cur' \in Nat
      /\ stmt' = "claim" \/ (stmt' = stmt /\ cur' = cur /\ sent <= sent')
  BY <1>2 DEF PublishTrigger, CommitOffsets, CrashAgent, vars, topicVars
<1>6. faults' \in 0 .. MaxAgentFaults
  BY <1>2, FaultTyped DEF PublishTrigger, CommitOffsets, CrashAgent, vars
<1>7. loop' \in [Seqs -> LoopStates] /\ \A d \in Seqs : loop'[d] = loop[d] \/ loop'[d] = NoLoop
  BY <1>1, <1>4, NoLoopTyped DEF TypeOK, LoopStates
<1>8. TypeOK'
  BY <1>1, <1>3, <1>5, <1>6, <1>7 DEF TypeOK, LoopStates
<1>9. OneLoop'
  <2>1. \A d \in Seqs : (Active(d) <=> Busy(loop[d])) /\ (Active(d)' <=> Busy(loop'[d]))
    BY DEF Active, Busy
  <2> QED
    BY <1>1, <1>3, <1>7, <2>1, NoLoopTyped DEF OneLoop
<1>10. AllSeen'
  BY <1>1, <1>2, <1>3, <1>5 DEF AllSeen, Seqs
<1> QED
  BY <1>3, <1>7, <1>8, <1>9, <1>10, QuietKeeps

(* A lease runs out under a loop that is then overtaken, or under none. *)
LEMMA LeaseExpiresKeeps ==
    ASSUME CoalescerInv, LeaseExpires
    PROVE  CoalescerInv'
<1>1. TypeOK /\ OneLoop /\ AllSeen
  BY DEF CoalescerInv
<1>2. /\ UNCHANGED <<sent, committed, cur, stmt, state, pending, last, rounds, memory, loop, ran, replied, lost, faults>>
      /\ leased' = FALSE /\ overtaken' = (overtaken \/ \E n \in Seqs : Active(n))
  BY DEF LeaseExpires, topicVars
<1>3. TypeOK'
  <2>1. overtaken' \in BOOLEAN
    BY <1>2
  <2> QED
    BY <1>1, <1>2, <2>1 DEF TypeOK
<1>4. OneLoop'
  BY <1>2 DEF OneLoop, Active
<1>5. AllSeen'
  BY <1>1, <1>2 DEF AllSeen
<1>6. ~overtaken' => ~overtaken
  BY <1>2
<1> QED
  BY <1>2, <1>3, <1>4, <1>5, <1>6, QuietKeeps

-----------------------------------------------------------------------------
LEMMA CoalescerInit == Init => CoalescerInv
<1> SUFFICES ASSUME Init
             PROVE  CoalescerInv
  OBVIOUS
<1>1. /\ sent = 0 /\ committed = 0 /\ cur = 0 /\ stmt = "claim" /\ state = "absent" /\ leased = FALSE /\ pending = {} /\ last = 0
      /\ rounds = <<>> /\ memory = {} /\ loop = [n \in Seqs |-> NoLoop]
      /\ ran = {} /\ replied = {} /\ lost = {} /\ overtaken = FALSE /\ faults = 0
  BY DEF Init
<1>2. loop \in [Seqs -> LoopStates] /\ \A d \in Seqs : loop[d] = NoLoop
  BY <1>1, NoLoopTyped
<1>3. rounds \in Seq(SUBSET Seqs) /\ Len(rounds) = 0
  BY <1>1
<1>4. TypeOK
  <2>1. /\ sent \in 0 .. MaxSeq /\ cur \in 0 .. sent /\ committed \in 0 .. cur /\ last \in 0 .. sent
        /\ faults \in 0 .. MaxAgentFaults /\ Len(rounds) <= MaxRounds
    BY <1>1, <1>3, CoalescerConstants
  <2>2. state \in {"absent", "idle", "running"} /\ leased \in BOOLEAN /\ overtaken \in BOOLEAN /\ ~leased
    BY <1>1, Zenon
  <2>3. state = "absent" /\ last = 0 /\ pending \subseteq 1 .. last
    BY <1>1
  <2>4. memory \subseteq Seqs /\ ran \subseteq Seqs /\ replied \subseteq ran /\ lost \subseteq Seqs
    BY <1>1
  <2> QED
    BY <1>1, <1>2, <1>3, <2>1, <2>2, <2>3, <2>4 DEF TypeOK, LoopStates
<1>5. OneLoop
  BY <1>2, NoLoopTyped DEF OneLoop, Active
<1>6. LoopsSound
  BY <1>2, NoLoopTyped DEF LoopsSound, LoopSound
<1>7. AllSeen
  BY <1>1 DEF AllSeen, Seqs
<1>8. RoundsSound /\ ContextInOrder
  BY <1>1, <1>3 DEF RoundsSound, ContextInOrder
<1>9. SummariesSound
  BY <1>2, NoLoopTyped DEF SummariesSound
<1> QED
  BY <1>4, <1>5, <1>6, <1>7, <1>8, <1>9 DEF CoalescerInv

LEMMA CoalescerStep == CoalescerInv /\ [Next]_vars => CoalescerInv'
<1> SUFFICES ASSUME CoalescerInv, [Next]_vars
             PROVE  CoalescerInv'
  OBVIOUS
<1>1. CASE PublishTrigger \/ CommitOffsets \/ CrashAgent \/ UNCHANGED vars
  BY <1>1, TopicKeeps
<1>2. CASE HandleEvent
  BY <1>2, HandleEventKeeps
<1>3. CASE LeaseExpires
  BY <1>3, LeaseExpiresKeeps
<1>4. ASSUME NEW n \in Seqs, Drive(n) \/ DriveFails(n) \/ SummarizeFails(n)
      PROVE  CoalescerInv'
  BY <1>4, LoadKeeps, RunRoundKeeps, SettleKeeps, ReleaseKeeps, LoadRoundsKeeps, ApplySummaryKeeps, DriveFailsKeeps,
     SummarizeFailsKeeps DEF Drive
<1> QED
  BY <1>1, <1>2, <1>3, <1>4 DEF Next

LEMMA CoalescerInvariant == Spec => []CoalescerInv
BY CoalescerInit, CoalescerStep, PTL DEF Spec

(* The row, the loops and the history keep their types, the history its cap *)
(* of MaxRounds; a running row has messages waiting, only a running one is  *)
(* leased, and the second update of AppendPending always finds a row.  (An  *)
(* idle row may have messages waiting too: see AnsweredWithNext.)           *)
THEOREM CoalescerTyped == Spec => []TypeOK
<1>1. CoalescerInv => TypeOK
  BY DEF CoalescerInv
<1> QED
  BY <1>1, CoalescerInvariant, PTL

(* AppendPending and the commits of drive hand the running lock from loop   *)
(* to loop: two loops never hold it, whatever crashes or fails, unless a    *)
(* lease ran out under one.                                                 *)
THEOREM OneLoopAtATime == Spec => []OneLoop
<1>1. CoalescerInv => OneLoop
  BY DEF CoalescerInv
<1> QED
  BY <1>1, CoalescerInvariant, PTL

(* The context of the chat loses no committed message and keeps memory,     *)
(* rounds and pending messages in order, through crashes, replays, failed   *)
(* statements and summaries.                                                *)
THEOREM ContextStaysSound == Spec => []ContextSound
<1>1. CoalescerInv => ContextSound
  <2> SUFFICES ASSUME CoalescerInv
               PROVE  ContextSound
    OBVIOUS
  <2>1. TypeOK /\ AllSeen /\ ContextInOrder /\ RoundsSound
    BY DEF CoalescerInv
  <2>2. NothingSkipped
    <3>1. \A s \in 1 .. committed : s \in Seqs /\ s <= cur
      BY <2>1, CoalescerConstants DEF TypeOK, Seqs
    <3> QED
      BY <2>1, <3>1 DEF AllSeen, NothingSkipped
  <2>3. HistoryInOrder
    <3>1. \A i \in 1 .. Len(rounds) : \A s \in rounds[i] : s \in Nat /\ ~(s < s)
      BY <2>1 DEF RoundsSound
    <3> QED
      BY <2>1, <3>1 DEF ContextInOrder, HistoryInOrder
  <2> QED
    BY <2>2, <2>3 DEF ContextSound
<1> QED
  BY <1>1, CoalescerInvariant, PTL
==============================================================================
