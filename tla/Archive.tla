------------------------------- MODULE Archive -------------------------------
(***************************************************************************)
(* What the message pipeline promises, with no topic, cache or consumer in *)
(* sight: a message that SendMessage acknowledged is stored once, under a  *)
(* seq above every seq stored in its conversation, and stays so; every     *)
(* acknowledged message is stored eventually.                              *)
(***************************************************************************)
EXTENDS Integers

CONSTANTS Convs, ClientKeys, ConvOf

VARIABLES acked,   \* the messages SendMessage acknowledged
          rows     \* [ClientKeys -> Nat], the seq of a stored message, else 0

archiveVars == <<acked, rows>>

Stored(c) == {k \in ClientKeys : ConvOf[k] = c /\ rows[k] # 0}

Init == acked = {} /\ rows = [k \in ClientKeys |-> 0]

Acknowledge(k) == acked' = acked \cup {k} /\ UNCHANGED rows

(* Store some acknowledged messages of conversation c, under distinct seqs. *)
Store(c) ==
    LET new == {k \in ClientKeys : rows'[k] # rows[k]}
    IN  /\ new # {}
        /\ new \subseteq {k \in acked : ConvOf[k] = c /\ rows[k] = 0}
        /\ \A k \in new : \A j \in Stored(c) : rows'[k] > rows[j]
        /\ \A j, k \in new : j # k => rows'[j] # rows'[k]
        /\ UNCHANGED acked

Next == \/ \E k \in ClientKeys : Acknowledge(k)
        \/ \E c \in Convs : Store(c)

Safety == Init /\ [][Next]_archiveVars

Spec == Safety /\ \A k \in ClientKeys : (k \in acked) ~> (rows[k] # 0)
=============================================================================
