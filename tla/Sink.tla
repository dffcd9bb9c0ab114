-------------------------------- MODULE Sink ---------------------------------
(***************************************************************************)
(* The queue between agent runs and the LLM observability backend,         *)
(* pkg/llmobs/async.go: Observe never blocks, one worker exports, Close    *)
(* waits for it.  Runs observe events while others close.                  *)
(***************************************************************************)
EXTENDS Naturals, Sequences, SequencesExt

CONSTANTS
    QueueSize,       \* capacity of the channel
    Closers,         \* callers of Close
    MaxObserved      \* bound: events

ASSUME SinkConstants == QueueSize \in Nat \ {0} /\ MaxObserved \in Nat

VARIABLES
    observed,        \* events Observe was called with, numbered
    queue,           \* the channel
    exporting,       \* the event the worker is exporting, 0 without
    exported,        \* history: the events handed to the underlying sink, in order
    dropped,         \* the counter of dropped events
    closed,          \* the done channel is closed
    worker,          \* "run", "drain" or "done"
    closing,         \* the callers that wait in Close, and
    closedBy,        \*   those to whom it has returned
    promised         \* history: events that had been accepted when Close was first called

sinkVars == <<observed, queue, exporting, exported, dropped, closed, worker, closing, closedBy, promised>>

SinkInit ==
    /\ observed = 0 /\ queue = <<>> /\ exporting = 0 /\ exported = <<>> /\ dropped = 0
    /\ closed = FALSE /\ worker = "run" /\ closing = {} /\ closedBy = {} /\ promised = {}

(* Observe puts the event into the channel or counts it; Close is not asked. *)
Observe ==
    /\ observed < MaxObserved
    /\ observed' = observed + 1
    /\ \/ Len(queue) < QueueSize /\ queue' = Append(queue, observed') /\ UNCHANGED dropped
       \/ Len(queue) = QueueSize /\ dropped' = dropped + 1 /\ UNCHANGED queue
    /\ UNCHANGED <<exporting, exported, closed, worker, closing, closedBy, promised>>

(* run: the select takes an event, also when done is closed. *)
Receive ==
    /\ worker # "done" /\ exporting = 0 /\ queue # <<>>
    /\ exporting' = Head(queue) /\ queue' = Tail(queue)
    /\ UNCHANGED <<observed, exported, dropped, closed, worker, closing, closedBy, promised>>

(* export returns; an error is logged. *)
Export ==
    /\ exporting # 0
    /\ exported' = Append(exported, exporting) /\ exporting' = 0
    /\ UNCHANGED <<observed, queue, dropped, closed, worker, closing, closedBy, promised>>

(* Mutant of SeesDone: the worker leaves what is in the queue. *)
SeesDoneReturns ==
    /\ worker = "run" /\ exporting = 0 /\ closed
    /\ worker' = "done"
    /\ UNCHANGED <<observed, queue, exporting, exported, dropped, closed, closing, closedBy, promised>>

(* The select takes done, also when there are events, and the worker drains. *)
SeesDone ==
    /\ worker = "run" /\ exporting = 0 /\ closed
    /\ worker' = "drain"
    /\ UNCHANGED <<observed, queue, exporting, exported, dropped, closed, closing, closedBy, promised>>

Drained ==
    /\ worker = "drain" /\ exporting = 0 /\ queue = <<>>
    /\ worker' = "done"
    /\ UNCHANGED <<observed, queue, exporting, exported, dropped, closed, closing, closedBy, promised>>

(* The events that are in the channel, with the worker or behind it. *)
Accepted == ToSet(queue) \cup ToSet(exported) \cup ({exporting} \ {0})

(* Close: closeOnce, then wg.Wait. *)
Close(c) ==
    /\ c \notin closing \cup closedBy
    /\ closed' = TRUE /\ closing' = closing \cup {c}
    /\ promised' = (IF closed THEN promised ELSE Accepted)
    /\ UNCHANGED <<observed, queue, exporting, exported, dropped, worker, closedBy>>

CloseReturns(c) ==
    /\ c \in closing /\ worker = "done"
    /\ closing' = closing \ {c} /\ closedBy' = closedBy \cup {c}
    /\ UNCHANGED <<observed, queue, exporting, exported, dropped, closed, worker, promised>>

SinkNext ==
    \/ Observe \/ Receive \/ Export \/ SeesDone \/ Drained
    \/ \E c \in Closers : Close(c) \/ CloseReturns(c)

SinkSpec == SinkInit /\ [][SinkNext]_sinkVars
-----------------------------------------------------------------------------
(* When Close returns to any of its callers, every event that was accepted   *)
(* before the first of them called it has been handed to the backend, and    *)
(* the events in the order they were observed (run drains the queue before   *)
(* it lets Close go).                                                        *)
FlushedOnClose ==
    /\ closedBy # {} => promised \subseteq ToSet(exported)
    /\ \A i, j \in DOMAIN exported : i < j => exported[i] < exported[j]
=============================================================================
