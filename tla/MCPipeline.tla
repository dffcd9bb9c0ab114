----------------------------- MODULE MCPipeline ------------------------------
(***************************************************************************)
(* Instances of Pipeline for TLC: a single chat d with k1 and k2, a group  *)
(* g with k3.                                                              *)
(***************************************************************************)
EXTENDS Pipeline

CONSTANTS d, g, alice, bob, k1, k2, k3

MCConvOf == [k \in ClientKeys |-> IF k = k3 THEN g ELSE d]
MCSenderOf == [k \in ClientKeys |-> IF k = k2 THEN bob ELSE alice]
MCVisibleTo == [k \in ClientKeys |-> {alice, bob}]
MCText == [k \in ClientKeys |-> "text"]

(* One fault, of either consumer. *)
MCSpec == PipelineInit /\ [][PipelineNext /\ faults' + pFaults' <= 1]_pipelineVars /\ Fairness
=============================================================================
