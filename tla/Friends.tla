------------------------------- MODULE Friends -------------------------------
(***************************************************************************)
(* The friends service (service/friends/rpc): a pair of users has two      *)
(* directed rows in the friendships table, and every call is one           *)
(* transaction over them (logic/*.go, model/friendships_model.go).         *)
(*                                                                         *)
(* Each statement of a transaction is one step.  PostgreSQL runs them at   *)
(* READ COMMITTED: a statement sees what is committed and what its own     *)
(* transaction wrote, SELECT ... FOR UPDATE locks the row it finds and     *)
(* nothing when there is none, and a statement that meets a locked row     *)
(* waits for the other transaction to end.  A transaction may be rolled    *)
(* back at any statement: a failed call, or the victim of a deadlock.      *)
(***************************************************************************)
EXTENDS Sequences

CONSTANTS
    People,        \* account ids
    FriendCalls    \* calls that may be in progress at a time

VARIABLES
    rows,      \* friendships, committed: status of the row account -> friend
    txs,       \* the transaction each call is running
    asked      \* history: <<u, f>> when u wants f as a friend

friendsVars == <<rows, txs, asked>>

(* validateFriendshipPair: nobody is his own friend. *)
Pairs == {p \in People \X People : p[1] # p[2]}
Statuses == {"none", "pending", "accepted", "rejected", "deleted"}
Back(p) == <<p[2], p[1]>>

NoTx == [op |-> "none", pair |-> <<>>, at |-> "idle", todo |-> <<>>, wrote |-> {}, locks |-> {}]

FriendsInit ==
    /\ rows = [p \in Pairs |-> "none"]
    /\ txs = [c \in FriendCalls |-> NoTx]
    /\ asked = {}
-----------------------------------------------------------------------------
(* Statements. *)

(* What the transaction of c sees of row p. *)
SeenBy(c, p) ==
    IF \E w \in txs[c].wrote : w.pair = p
    THEN (CHOOSE w \in txs[c].wrote : w.pair = p).status
    ELSE rows[p]

Unlocked(c, p) == \A d \in FriendCalls \ {c} : p \notin txs[d].locks

(* select ... for update: no row, no lock. *)
FindPairForUpdate(c, p) == SeenBy(c, p) = "none" \/ Unlocked(c, p)
LocksAfterFind(c, p) == txs[c].locks \cup (IF SeenBy(c, p) = "none" THEN {} ELSE {p})

Goes(c, p, at, todo) ==
    txs' = [txs EXCEPT ![c].at = at, ![c].todo = todo, ![c].locks = LocksAfterFind(c, p)]

Put(p, s) == [pair |-> p, status |-> s]
WithRow(c, p, s) == {w \in txs[c].wrote : w.pair # p} \cup {Put(p, s)}

(* insert ... on conflict do update: UpsertStatus and EnsureAccepted, in    *)
(* the order the logic calls them.                                          *)
UpsertStatus(c) ==
    LET w == Head(txs[c].todo)
    IN  /\ txs[c].at = "write" /\ Unlocked(c, w.pair)
        /\ txs' = [txs EXCEPT ![c].wrote = WithRow(c, w.pair, w.status), ![c].locks = @ \cup {w.pair},
                              ![c].todo = Tail(@), ![c].at = IF Tail(txs[c].todo) = <<>> THEN "commit" ELSE "write"]
        /\ UNCHANGED <<rows, asked>>

(* update ... where status = accepted. *)
MarkAcceptedDeleted(c, p, next, otherwise) ==
    IF SeenBy(c, p) = "accepted"
    THEN /\ Unlocked(c, p)
         /\ txs' = [txs EXCEPT ![c].wrote = WithRow(c, p, "deleted"), ![c].locks = @ \cup {p}, ![c].at = next]
    ELSE txs' = IF otherwise = "rollback" THEN [txs EXCEPT ![c] = NoTx]
                ELSE [txs EXCEPT ![c].at = otherwise]
-----------------------------------------------------------------------------
(* Calls. *)

FirstStatement ==
    [AddFriend |-> "existing", Accept |-> "incoming", Reject |-> "incoming",
     DeleteFriend |-> "mark", EnsureFriendship |-> "write"]

BeginTx(c, op, p) ==
    /\ txs[c] = NoTx
    /\ txs' = [txs EXCEPT ![c] =
                 [NoTx EXCEPT !.op = op, !.pair = p, !.at = FirstStatement[op],
                              !.todo = IF op = "EnsureFriendship"
                                       THEN <<Put(p, "accepted"), Put(Back(p), "accepted")>> ELSE <<>>]]
    /\ UNCHANGED <<rows, asked>>

(* AddFriend: the own request first, and then whether the other one asked.  *)
AddFriendExisting(c) ==
    LET p == txs[c].pair
    IN  /\ txs[c].at = "existing" /\ FindPairForUpdate(c, p)
        /\ Goes(c, p, IF SeenBy(c, p) \in {"accepted", "pending"} THEN "commit" ELSE "reverse", <<>>)
        /\ UNCHANGED <<rows, asked>>

AddFriendReverse(c) ==
    LET p == txs[c].pair
    IN  /\ txs[c].at = "reverse" /\ FindPairForUpdate(c, Back(p))
        /\ Goes(c, Back(p), "write",
                IF SeenBy(c, Back(p)) = "pending" THEN <<Put(p, "accepted"), Put(Back(p), "accepted")>>
                ELSE <<Put(p, "pending")>>)
        /\ UNCHANGED <<rows, asked>>

(* Mutant of DecideFriendRequest: any request there ever was will do. *)
DecideAnyRequest(c) ==
    LET t == txs[c]
        s == IF t.op = "Accept" THEN "accepted" ELSE "rejected"
    IN  /\ t.at = "incoming" /\ FindPairForUpdate(c, Back(t.pair))
        /\ IF SeenBy(c, Back(t.pair)) # "none"
           THEN Goes(c, Back(t.pair), "write", <<Put(Back(t.pair), s), Put(t.pair, s)>>)
           ELSE txs' = [txs EXCEPT ![c] = NoTx]
        /\ UNCHANGED <<rows, asked>>

(* decideFriendRequest: a pending request of the other, or an error. *)
DecideFriendRequest(c) ==
    LET t == txs[c]
        s == IF t.op = "Accept" THEN "accepted" ELSE "rejected"
    IN  /\ t.at = "incoming" /\ FindPairForUpdate(c, Back(t.pair))
        /\ IF SeenBy(c, Back(t.pair)) = "pending"
           THEN Goes(c, Back(t.pair), "write", <<Put(Back(t.pair), s), Put(t.pair, s)>>)
           ELSE txs' = [txs EXCEPT ![c] = NoTx]
        /\ UNCHANGED <<rows, asked>>

DeleteFriend(c) ==
    /\ \/ txs[c].at = "mark" /\ MarkAcceptedDeleted(c, txs[c].pair, "markOther", "rollback")
       \/ txs[c].at = "markOther" /\ MarkAcceptedDeleted(c, Back(txs[c].pair), "commit", "commit")
    /\ UNCHANGED <<rows, asked>>

(* What the call says about who wants whom. *)
AskedAfter(t) ==
    CASE t.op \in {"AddFriend", "Accept"} -> asked \cup {t.pair}
      [] t.op = "EnsureFriendship" -> asked \cup {t.pair, Back(t.pair)}
      [] t.op = "Reject" -> asked \ {t.pair, Back(t.pair)}
      [] t.op = "DeleteFriend" -> asked \ {w.pair : w \in t.wrote}

CommitTx(c) ==
    /\ txs[c].at = "commit"
    /\ rows' = [p \in Pairs |-> SeenBy(c, p)]
    /\ asked' = AskedAfter(txs[c])
    /\ txs' = [txs EXCEPT ![c] = NoTx]

(* A failed statement, a cancelled context, or the database breaks a deadlock. *)
RollbackTx(c) ==
    /\ txs[c] # NoTx
    /\ txs' = [txs EXCEPT ![c] = NoTx]
    /\ UNCHANGED <<rows, asked>>

FriendsNext ==
    \E c \in FriendCalls :
       \/ \E op \in DOMAIN FirstStatement, p \in Pairs : BeginTx(c, op, p)
       \/ AddFriendExisting(c) \/ AddFriendReverse(c) \/ DecideFriendRequest(c) \/ DeleteFriend(c)
       \/ UpsertStatus(c) \/ CommitTx(c) \/ RollbackTx(c)

FriendsSpec == FriendsInit /\ [][FriendsNext]_friendsVars
-----------------------------------------------------------------------------
(* Nobody becomes a friend of someone who does not want it: wherever a row  *)
(* says accepted, both users asked for it, accepted it or had it ensured,   *)
(* and neither has rejected or deleted the other since.  The checks of a    *)
(* call and its writes are several statements, between which other calls    *)
(* for the same pair commit.                                                *)
FriendsByConsent == \A p \in Pairs : rows[p] = "accepted" => {p, Back(p)} \subseteq asked

(* "保证双向状态一致" (docs/design-docs/friends-service-go-zero.md): when no  *)
(* call is in progress, a friendship holds in both directions or in none.   *)
BothDirections ==
    (\A c \in FriendCalls : txs[c] = NoTx)
        => \A p \in Pairs : rows[p] = "accepted" => rows[Back(p)] = "accepted"
=============================================================================
