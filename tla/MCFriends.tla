------------------------------ MODULE MCFriends ------------------------------
(***************************************************************************)
(* Friends for TLC: one pair of users, since pairs share no row, and any   *)
(* two of their calls at a time, without end.                              *)
(***************************************************************************)
EXTENDS Friends

CONSTANTS ann, ben, f1, f2
=============================================================================
