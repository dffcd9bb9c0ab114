------------------------------ MODULE Pipeline -------------------------------
(***************************************************************************)
(* The message write pipeline end to end: msg-rpc SendMessage, the         *)
(* transfer consumer (Transfer) and the persist consumer with msg-rpc's    *)
(* read-state writes (Persist), composed over the topic msg.toPostgres.v1. *)
(* The seq allocator reads max(messages.seq) from the table that the       *)
(* persist consumer fills: maxRow of Transfer follows messages here.       *)
(***************************************************************************)
EXTENDS Transfer, Persist

NoOlderRows == [c \in Convs |-> 0]

(* The messages table is empty at first.  The bounds of Persist leave room  *)
(* for what Transfer can write within its own: a record is numbered and     *)
(* published once per attempt at its batch, and every attempt but the first *)
(* follows a failure.                                                       *)
ASSUME PipelineConstants ==
    /\ InitialMax = NoOlderRows
    /\ 1 .. MaxRecords \subseteq ServerIds
    /\ MaxRecords * (MaxFaults + 1) <= MaxEvents
    /\ MaxRecords * (MaxFaults + 1) <= MaxSeq

DurableMax == [c \in Convs |-> RowMax(c)]

A == INSTANCE Archive WITH
        acked <- {toTransfer[o] : o \in DOMAIN toTransfer} \cap ClientKeys,
        rows  <- [k \in ClientKeys |-> messages[k].seq]

transferVars == <<toTransfer, consumerVars, worker, redisVars, agentTrigger, toPush, faults>>
pipelineVars == <<vars, persistVars>>

PipelineInit == Init /\ PersistInit

ClientSends == /\ UNCHANGED persistVars
               /\ \E k \in ClientKeys : SendMessage(k)

TransferLoop == UNCHANGED persistVars /\ RunLoop

TransferWorker(c) == UNCHANGED persistVars /\ HandleConversation(c)

TransferFails == /\ UNCHANGED persistVars
                 /\ \/ Crash
                    \/ \E c \in Convs : Fail(c)

(* A step on the tables is seen by the next max(messages.seq). *)
OnTables(step) == UNCHANGED <<transferVars, toPostgres>> /\ step /\ maxRow' = DurableMax'

PersistStep == OnTables(PersistNext)

PipelineNext == \/ ClientSends \/ TransferLoop \/ TransferFails \/ PersistStep
                \/ \E c \in Convs : TransferWorker(c)

Fairness == /\ WF_pipelineVars(TransferLoop)
            /\ \A c \in Convs : WF_pipelineVars(TransferWorker(c))
            /\ WF_pipelineVars(OnTables(PersistLoop))

PipelineSpec == PipelineInit /\ [][PipelineNext]_pipelineVars /\ Fairness

-----------------------------------------------------------------------------
(* The composition keeps the contract under which Transfer was checked:     *)
(* what the persist consumer does to max(messages.seq) is an Archive step.  *)
ImplementsTransfer == Spec

(* The composition keeps the contract under which Persist was checked: what *)
(* the transfer consumer appends to toPostgres is a PublishAccepted step.   *)
ImplementsPersist == PersistSpec

(* End to end: every message SendMessage acknowledged gets exactly one row, *)
(* rows of a conversation appear in seq order, none is lost or left behind  *)
(* for ever, across crashes, failed calls and client retries.               *)
ImplementsArchive == A!Spec

(* Every record SendMessage wrote is eventually committed by the transfer   *)
(* consumer: no failed call, crash or duplicate stops its loop for good     *)
(* (kafka.go Run retries a failed batch in place).                          *)
TransferCatchesUp == EveryRecordConsumed

(* Every event on toPostgres eventually has its row: no failed transaction  *)
(* or crash of the persist consumer makes it skip a record or retry a batch *)
(* for ever, while the transfer consumer goes on appending.                 *)
PersistCatchesUp == EventuallyArchived

(* Composed, each consumer gives the other what it was checked under alone. *)
KeepsContracts == ImplementsTransfer /\ ImplementsPersist

(* No failure, crash or duplicate stops either consumer for good.           *)
ConsumersCatchUp == TransferCatchesUp /\ PersistCatchesUp
=============================================================================
