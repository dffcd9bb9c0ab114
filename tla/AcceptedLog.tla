----------------------------- MODULE AcceptedLog -----------------------------
(***************************************************************************)
(* What the transfer consumer and the persist consumer share: the messages *)
(* and the topic msg.toPostgres.v1, which the one writes and the other     *)
(* reads.                                                                  *)
(***************************************************************************)
EXTENDS Integers, Sequences

CONSTANTS
    Convs,        \* conversation ids
    Users,        \* account ids
    ClientKeys,   \* (sender_id, client_msg_id) pairs
    ConvOf,       \* [ClientKeys -> Convs]
    SenderOf,     \* [ClientKeys -> Users]
    VisibleTo     \* [ClientKeys -> SUBSET Users], payload.visible_user_ids

VARIABLE toPostgres   \* log of msg.toPostgres.v1

(* A message.accepted event: the message, its server_msg_id and its seq. *)
Events == [key : ClientKeys, srv : Nat, seq : Nat]
=============================================================================
