------------------------------- MODULE Groups --------------------------------
(***************************************************************************)
(* One group of the groups service (service/groups/rpc): its row in groups *)
(* and its members' rows in group_members.  CreateGroup is a transaction.  *)
(* Every other call reads what it decides on in statements of their own    *)
(* and then writes one row, without locks: calls interleave between any    *)
(* two statements, and any statement may fail and end its call.            *)
(***************************************************************************)
EXTENDS Integers, FiniteSets

CONSTANTS
    GroupUsers,        \* account ids
    GroupCalls,        \* calls that may be in progress at a time
    MemberLimitV1,     \* maxGroupMembersV1
    Texts,             \* names and descriptions
    NoCreator          \* the group does not exist yet

ASSUME GroupConstants ==
    /\ MemberLimitV1 \in Nat \ {0} /\ NoCreator \notin GroupUsers
    /\ IsFiniteSet(GroupUsers) /\ IsFiniteSet(GroupCalls) /\ GroupCalls # {}

VARIABLES
    creator,    \* creator_account_id
    title,      \* [name, description] of the group
    members,    \* group_members: status and role of each account's row
    groupOps    \* the calls in progress

groupVars == <<creator, title, members, groupOps>>

NoOp == [op |-> "none", by |-> NoCreator, user |-> NoCreator, at |-> "idle", title |-> {}]
Absent == [status |-> "none", role |-> "none"]

GroupsInit ==
    /\ creator = NoCreator
    /\ title \in [name : Texts, description : Texts]
    /\ members = [u \in GroupUsers |-> Absent]
    /\ groupOps = [c \in GroupCalls |-> NoOp]

ActiveMembers == {u \in GroupUsers : members[u].status = "active"}

RoleOf(u) == IF u = creator THEN "owner" ELSE "member"

UpsertActiveMember(u, role) == members' = [members EXCEPT ![u] = [status |-> "active", role |-> role]]
SetMemberLeft(u) == members' = [members EXCEPT ![u].status = IF @ = "active" THEN "left" ELSE @]

(* The group row and the rows of the creator and the named members, at most *)
(* maxGroupMembersV1 of them (validateGroupMemberIDs), in one transaction.  *)
CreateGroup(u, others) ==
    /\ creator = NoCreator /\ Cardinality({u} \cup others) <= MemberLimitV1
    /\ creator' = u
    /\ members' = [v \in GroupUsers |->
                     IF v = u THEN [status |-> "active", role |-> "owner"]
                     ELSE IF v \in others THEN [status |-> "active", role |-> "member"] ELSE Absent]
    /\ UNCHANGED <<title, groupOps>>
-----------------------------------------------------------------------------
(* FindOne of the group, and what can be refused with it. *)
BeginOp(c, op, by, u) ==
    /\ creator # NoCreator /\ groupOps[c] = NoOp
    /\ op = "AddMember" => by \in {u, creator}
    /\ op \in {"JoinGroup", "LeaveGroup", "UpdateGroup"} => by = u
    /\ op = "KickMember" => by # u
    /\ groupOps' = [groupOps EXCEPT ![c] =
          [op |-> op, by |-> by, user |-> u, title |-> IF op = "UpdateGroup" THEN {title} ELSE {},
           at |-> CASE op \in {"AddMember", "JoinGroup"} -> "existing"
                    [] op = "LeaveGroup" -> IF u = creator THEN "others" ELSE "left"
                    [] OTHER -> "manage"]]
    /\ UNCHANGED <<creator, title, members>>

(* The call goes on, is refused or has failed. *)
OpGoes(c, at) ==
    /\ groupOps' = [groupOps EXCEPT ![c] = IF at = "end" THEN NoOp ELSE [@ EXCEPT !.at = at]]
    /\ UNCHANGED <<creator, title>>

OpFails(c) == groupOps[c] # NoOp /\ OpGoes(c, "end") /\ UNCHANGED members

(* addActiveMember: not for an active member. *)
AddActiveExisting(c) ==
    /\ groupOps[c].at = "existing"
    /\ OpGoes(c, IF groupOps[c].user \in ActiveMembers THEN "end" ELSE "limit")
    /\ UNCHANGED members

(* Mutant of AddActiveLimit: one more than the limit. *)
AddActiveLimitPast(c) ==
    /\ groupOps[c].at = "limit"
    /\ OpGoes(c, IF Cardinality(ActiveMembers) > MemberLimitV1 THEN "end" ELSE "upsert")
    /\ UNCHANGED members

AddActiveLimit(c) ==
    /\ groupOps[c].at = "limit"
    /\ OpGoes(c, IF Cardinality(ActiveMembers) >= MemberLimitV1 THEN "end" ELSE "upsert")
    /\ UNCHANGED members

AddActiveUpsert(c) ==
    /\ groupOps[c].at = "upsert"
    /\ UpsertActiveMember(groupOps[c].user, RoleOf(groupOps[c].user))
    /\ OpGoes(c, "end")

(* The owner does not leave an otherwise empty group. *)
LeaveGroupOthers(c) ==
    LET u == groupOps[c].user
    IN  /\ groupOps[c].at = "others"
        /\ OpGoes(c, IF ActiveMembers = {u} THEN "end" ELSE "left")
        /\ UNCHANGED members

(* ensureCanManageGroup: the operator is active, and owner (no call makes   *)
(* an admin).                                                               *)
EnsureCanManageGroup(c) ==
    LET o == groupOps[c]
        ok == o.by \in ActiveMembers /\ members[o.by].role = "owner"
    IN  /\ o.at = "manage"
        /\ OpGoes(c, IF ~ok THEN "end" ELSE IF o.op = "KickMember" THEN "target" ELSE "update")
        /\ UNCHANGED members

KickMemberTarget(c) ==
    LET u == groupOps[c].user
    IN  /\ groupOps[c].at = "target"
        /\ OpGoes(c, IF u \in ActiveMembers /\ members[u].role # "owner" THEN "left" ELSE "end")
        /\ UNCHANGED members

MemberLeaves(c) ==
    /\ groupOps[c].at = "left"
    /\ SetMemberLeft(groupOps[c].user)
    /\ OpGoes(c, "end")

(* Both columns are written, the one not asked for as it was read; a call   *)
(* that changes nothing is refused.                                         *)
UpdateNameDescription(c) ==
    /\ groupOps[c].at = "update"
    /\ \E old \in groupOps[c].title, new \in [name : Texts, description : Texts] :
          new # old /\ title' = new
    /\ groupOps' = [groupOps EXCEPT ![c] = NoOp]
    /\ UNCHANGED <<creator, members>>

GroupOp == {"AddMember", "JoinGroup", "LeaveGroup", "KickMember", "UpdateGroup"}

GroupsNext ==
    \/ \E u \in GroupUsers, others \in SUBSET GroupUsers : CreateGroup(u, others)
    \/ \E c \in GroupCalls :
          \/ \E op \in GroupOp, by, u \in GroupUsers : BeginOp(c, op, by, u)
          \/ AddActiveExisting(c) \/ AddActiveLimit(c) \/ AddActiveUpsert(c)
          \/ LeaveGroupOthers(c) \/ EnsureCanManageGroup(c) \/ KickMemberTarget(c) \/ MemberLeaves(c)
          \/ UpdateNameDescription(c) \/ OpFails(c)

GroupsSpec == GroupsInit /\ [][GroupsNext]_groupVars
-----------------------------------------------------------------------------
(* "group member limit is 200" (addActiveMember): the count and the insert  *)
(* are two statements, so calls that counted together all insert, and the   *)
(* limit is passed by as many calls as run at a time, less one, and never   *)
(* by more, however calls follow each other.                                *)
LimitOverrunBounded ==
    Cardinality(ActiveMembers) <= MemberLimitV1 - 1 + Cardinality(GroupCalls)

(* The group keeps its owner: whoever joins, leaves, is kicked or comes     *)
(* back, the creator's row and no other has the owner role on which         *)
(* KickMember and UpdateGroup decide.                                       *)
CreatorOwns ==
    creator # NoCreator => \A u \in GroupUsers : members[u].role = "owner" <=> u = creator

(* The membership rules hold up to the race that the code allows: the limit *)
(* is passed by concurrent joins only, and the owner role never moves.      *)
MembershipSound == LimitOverrunBounded /\ CreatorOwns
=============================================================================
