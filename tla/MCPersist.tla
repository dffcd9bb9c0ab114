------------------------------ MODULE MCPersist ------------------------------
(***************************************************************************)
(* Instances of Persist for TLC: a single chat d with the messages k1, k2  *)
(* and a group g with the messages k3, k4; bob joins the group after k3.   *)
(***************************************************************************)
EXTENDS Persist

CONSTANTS d, g, alice, bob, k1, k2, k3, k4

MCConvOf == [k \in ClientKeys |-> IF k \in {k1, k2} THEN d ELSE g]
MCSenderOf == [k \in ClientKeys |-> IF k = k2 THEN bob ELSE alice]
MCVisibleTo == [k \in ClientKeys |-> IF k = k3 THEN {alice} ELSE {alice, bob}]
MCText == [k \in ClientKeys |-> "text"]
MCMention == [k \in ClientKeys |-> IF k = k4 THEN "at" ELSE "text"]
=============================================================================
