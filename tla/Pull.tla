-------------------------------- MODULE Pull ---------------------------------
(***************************************************************************)
(* PullMessages (service/msg/rpc) against a conversation the persist       *)
(* consumer appends to.  A call reads the thread's max_seq, then the       *)
(* user's bounds, then a page of rows, in statements of their own; a       *)
(* reader pages upwards from from_seq = next_seq, or downwards from        *)
(* to_seq = next_seq.  A seq may have no row (a record that was dropped).  *)
(***************************************************************************)
EXTENDS Integers, Sequences, SequencesExt

CONSTANTS
    Readers,       \* clients of the user, each with a scroll of its own
    Limits,        \* page sizes asked for
    MaxRowSeq      \* bound: seqs of the conversation

(* normalizePullRange refuses a negative limit and replaces 0 by 50. *)
ASSUME PullConstants == Limits \subseteq Nat \ {0} /\ MaxRowSeq \in Nat

VARIABLES
    rowSeqs,       \* messages of the conversation, by seq
    maxSeq,        \* conversation_threads.max_seq, 0 without a thread
    single,        \* conversation_type
    visibleStart,  \* user_conversation_states.visible_start_seq
    scrolls        \* per reader: its order, cursor and rows so far, and the call in progress

pullVars == <<rowSeqs, maxSeq, single, visibleStart, scrolls>>
threadVars == <<rowSeqs, maxSeq, single>>

Orders == {"asc", "desc"}
NoScroll(order) ==
    [order |-> order, from |-> 1, to |-> 0, got |-> <<>>, isEnd |-> FALSE, top |-> 0,
     at |-> "idle", callFrom |-> 0, callTo |-> 0, callMax |-> 0]

PullInit ==
    /\ rowSeqs = {} /\ maxSeq = 0
    /\ single \in BOOLEAN
    /\ visibleStart \in 0 .. 1
    /\ scrolls \in [Readers -> {NoScroll(o) : o \in Orders}]

(* Rows the user may see. *)
Visible == {q \in rowSeqs : single \/ q > visibleStart}

(* PersistBatch: one transaction adds the rows and moves max_seq. *)
AppendRows(n, dropped) ==
    /\ maxSeq + n <= MaxRowSeq
    /\ rowSeqs' = rowSeqs \cup ((maxSeq + 1 .. maxSeq + n) \ dropped)
    /\ maxSeq' = maxSeq + n
    /\ UNCHANGED <<single, visibleStart, scrolls>>

(* RepairDirect: nothing is hidden from the users of a single chat. *)
RepairDirect == visibleStart' = IF single THEN 0 ELSE visibleStart

(* PullMessages up to loadConversationSeqStates; without a thread it fails. *)
QuerySeqState(r) ==
    LET s == scrolls[r]
    IN  /\ s.at = "idle" /\ maxSeq > 0
        /\ RepairDirect
        /\ scrolls' = [scrolls EXCEPT ![r].at = "bounds", ![r].callFrom = s.from,
                          ![r].callTo = IF s.to = 0 \/ s.to > maxSeq THEN maxSeq ELSE s.to]
        /\ UNCHANGED threadVars

(* loadMessagesForUser up to the page. *)
UserScopedBounds(r) ==
    LET s == scrolls[r]
    IN  /\ s.at = "bounds"
        /\ RepairDirect
        /\ scrolls' = [scrolls EXCEPT ![r].at = "page", ![r].callMax = maxSeq,
                          ![r].callFrom = IF @ <= visibleStart' THEN visibleStart' + 1 ELSE @,
                          ![r].callTo = IF @ = 0 \/ @ > maxSeq THEN maxSeq ELSE @]
        /\ UNCHANGED threadVars

(* order by seq *)
Before(order, p, q) == IF order = "asc" THEN p < q ELSE p > q
InSeqOrder(order, s) == \A i, j \in DOMAIN s : i < j => Before(order, s[i], s[j])

(* order by seq limit n: the first n of the seqs, or all of them. *)
FirstOnes(order, seqs, n) ==
    {f \in UNION {[1 .. m -> seqs] : m \in 0 .. n} :
        /\ InSeqOrder(order, f)
        /\ \A q \in seqs \ ToSet(f) : Len(f) = n /\ \A p \in ToSet(f) : Before(order, p, q)}

(* select ... where seq >= from and seq <= to order by seq limit n *)
Select(from, to, order, n) == FirstOnes(order, {q \in rowSeqs : from <= q /\ q <= to}, n)

FirstOf(s, n) == IF Len(s) > n THEN SubSeq(s, 1, n) ELSE s

(* Mutant of NextSeq: the next page starts at the last row of this one. *)
NextSeqInclusive(page, from, order) == IF page = <<>> THEN from ELSE page[Len(page)]

(* Where the reader goes on. *)
NextSeq(page, from, order) ==
    IF page = <<>> THEN from ELSE IF order = "asc" THEN page[Len(page)] + 1 ELSE page[Len(page)] - 1

(* One row more than the limit was asked for, and dropped. *)
IsEnd(found, limit) == Len(found) <= limit

(* GetMessagesInRange and the reader's next cursor. *)
GetMessagesInRange(r, limit) ==
    LET s == scrolls[r]
    IN  /\ s.at = "page"
        /\ \E found \in IF s.callFrom > s.callTo THEN {<<>>}
                         ELSE Select(s.callFrom, s.callTo, s.order, limit + 1) :
              LET page == FirstOf(found, limit)
                  next == NextSeq(page, s.callFrom, s.order)
              IN  scrolls' = [scrolls EXCEPT ![r] =
                     [s EXCEPT !.at = "idle", !.got = s.got \o page, !.isEnd = IsEnd(found, limit),
                               !.from = IF s.order = "asc" THEN next ELSE s.from,
                               !.to = IF s.order = "desc" THEN next ELSE s.to,
                               !.top = IF s.got = <<>> THEN s.callTo ELSE s.top]]
        /\ UNCHANGED <<threadVars, visibleStart>>

(* A call that fails or whose answer is lost is made again. *)
PullFails(r) ==
    /\ scrolls[r].at # "idle"
    /\ scrolls' = [scrolls EXCEPT ![r].at = "idle"]
    /\ UNCHANGED <<threadVars, visibleStart>>

(* A reader scrolling down stops at the end; upwards it asks for what is new. *)
PullNext ==
    \/ \E n \in 1 .. 2 : \E dropped \in SUBSET (maxSeq + 1 .. maxSeq + n - 1) : AppendRows(n, dropped)
    \/ \E r \in Readers :
          \/ ~ (scrolls[r].order = "desc" /\ scrolls[r].isEnd) /\ QuerySeqState(r)
          \/ UserScopedBounds(r)
          \/ \E limit \in Limits : GetMessagesInRange(r, limit)
          \/ PullFails(r)

PullSpec == PullInit /\ [][PullNext]_pullVars
-----------------------------------------------------------------------------
(* However pages and appended rows interleave, a scroll has every row       *)
(* between its ends once and in order: none is skipped because it arrived   *)
(* between two statements of a call, none is repeated by the next page, and *)
(* a seq without a row does not stop it.                                    *)
PagesExact ==
    \A r \in Readers :
        LET s == scrolls[r]
        IN  /\ InSeqOrder(s.order, s.got)
            /\ ToSet(s.got) = IF s.order = "asc" THEN {q \in Visible : q < s.from}
                              ELSE {q \in Visible : s.to < q /\ q <= s.top}

(* is_end can be trusted: a scroll down that has ended has every row the    *)
(* user may see, up to where it started.                                    *)
EndMeansAll ==
    \A r \in Readers : scrolls[r].isEnd /\ scrolls[r].order = "desc" =>
        {q \in Visible : q <= scrolls[r].top} \subseteq ToSet(scrolls[r].got)

(* What a client makes of PullMessages can be trusted: its pages, and where *)
(* they end.                                                                *)
PagingSound == PagesExact /\ EndMeansAll
=============================================================================
