----------------------------- MODULE MCTransfer -----------------------------
(***************************************************************************)
(* Instances of Transfer for TLC.  k1 and k2 are messages of a chat between*)
(* two humans, k3 of a chat between two agent accounts, whose push fanout  *)
(* the D16 filter empties.  c2 has rows from before the pipeline.          *)
(***************************************************************************)
EXTENDS Transfer

CONSTANTS c1, c2, alice, bob, bot1, bot2, k1, k2, k3

MCConvOf == [k \in ClientKeys |-> IF k = k3 THEN c2 ELSE c1]
MCSenderOf == [k \in ClientKeys |-> CASE k = k1 -> alice [] k = k2 -> bob [] k = k3 -> bot1]
MCVisibleTo == [k \in ClientKeys |-> IF k = k3 THEN {bot1, bot2} ELSE {alice, bob}]
MCInitialMax == [c \in Convs |-> IF c = c1 THEN 0 ELSE 2]
=============================================================================
