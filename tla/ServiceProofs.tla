---------------------------- MODULE ServiceProofs ----------------------------
(***************************************************************************)
(* Theorems about the services whose calls interleave statement by         *)
(* statement on shared rows: uploads (Media), a group's members (Groups),  *)
(* a pair of friends (Friends), and clients that page through a            *)
(* conversation (Pull).  They hold for any number of users, rows and       *)
(* overlapping calls.                                                      *)
(***************************************************************************)
EXTENDS Media, Groups, Friends, Pull, FiniteSetTheorems, SequenceTheorems, TLAPS

-----------------------------------------------------------------------------
(*                                 Media                                   *)

(* The steps of CreateUploadIntent, and of CompleteUpload: all of them, the *)
(* ones after checkObject, and the ones after the copy.                     *)
IntentAt == {"find", "instant", "pending"}
CompleteAt == {"stat", "statFinal", "copy", "remove", "ready"}
CheckedAt == {"copy", "remove", "ready"}
CopiedAt == {"remove", "ready"}

MediaRows == [status : {"none", "pending", "ready"}, sha : Shas \cup {"none"}, sized : BOOLEAN, url : BOOLEAN]

MediaCallStates ==
    [id : MediaIds \cup {"none"}, sha : Shas \cup {"none"}, sized : BOOLEAN, at : {"idle"} \cup IntentAt \cup CompleteAt]

MediaTypes ==
    /\ media \in [MediaIds -> MediaRows]
    /\ mediaOps \in [MediaCalls -> MediaCallStates]
    /\ \A c \in MediaCalls : mediaOps[c].at # "idle" => mediaOps[c].id \in MediaIds

(* An intent works on an id nobody else has yet. *)
IntentIsAlone ==
    \A c \in MediaCalls : mediaOps[c].at \in IntentAt =>
        /\ mediaOps[c].id # "none" /\ media[mediaOps[c].id] = NoMedia
        /\ \A d \in MediaCalls \ {c} : mediaOps[d].id # mediaOps[c].id

(* What a CompleteUpload read of its row stays true of the row, and what it *)
(* has already checked or copied stays so, whatever runs beside it.         *)
CompleteIsCurrent ==
    \A c \in MediaCalls : LET o == mediaOps[c] IN
        /\ o.at \in CompleteAt => /\ media[o.id].status # "none"
                                  /\ media[o.id].sha = o.sha /\ media[o.id].sized = o.sized
        /\ o.at \in CheckedAt => o.sized
        /\ o.at \in CopiedAt => o.sha \in final

PutHasRow ==
    /\ \A m \in MediaIds : media[m].url => media[m].status # "none"
    /\ \A m \in put : m \in MediaIds /\ media[m].status # "none"

(* The inductive invariant of Media. *)
MediaInv == MediaTypes /\ IntentIsAlone /\ CompleteIsCurrent /\ PutHasRow /\ ReadyIsStored /\ UploadSurvives

(* No row and no call exist at the start. *)
LEMMA MediaInitially == MediaInit => MediaInv
<1> SUFFICES ASSUME MediaInit
             PROVE  MediaInv
  OBVIOUS
<1> USE DEF MediaInit, NoMedia, NoMediaOp, IntentAt, CompleteAt, CheckedAt, CopiedAt
<1>1. MediaTypes
  BY DEF MediaTypes, MediaRows, MediaCallStates
<1>2. IntentIsAlone
  BY DEF IntentIsAlone
<1>3. CompleteIsCurrent
  BY DEF CompleteIsCurrent
<1>4. PutHasRow
  BY DEF PutHasRow
<1>5. ReadyIsStored
  BY DEF ReadyIsStored
<1>6. UploadSurvives
  BY DEF UploadSurvives
<1> QED
  BY <1>1, <1>2, <1>3, <1>4, <1>5, <1>6 DEF MediaInv

(* A call that goes on keeps what it knows, and one that ends forgets it;   *)
(* the other calls are not touched.                                         *)
LEMMA MediaCallGoesOn ==
    ASSUME MediaTypes, NEW c \in MediaCalls, NEW at \in IntentAt \cup CompleteAt,
           mediaOps[c].at # "idle", OpAt(c, at)
    PROVE  /\ mediaOps' \in [MediaCalls -> MediaCallStates]
           /\ \A d \in MediaCalls : mediaOps'[d].at # "idle" => mediaOps'[d].id \in MediaIds
           /\ \A d \in MediaCalls \ {c} : mediaOps'[d] = mediaOps[d]
           /\ mediaOps'[c].id = mediaOps[c].id /\ mediaOps'[c].sha = mediaOps[c].sha
           /\ mediaOps'[c].sized = mediaOps[c].sized /\ mediaOps'[c].at = at
<1>1. mediaOps[c] \in MediaCallStates /\ mediaOps[c].id \in MediaIds
  BY DEF MediaTypes
<1>2. [mediaOps[c] EXCEPT !.at = at] \in MediaCallStates
  BY <1>1 DEF MediaCallStates
<1>3. mediaOps' = [mediaOps EXCEPT ![c] = [mediaOps[c] EXCEPT !.at = at]]
  BY DEF OpAt
<1>4. mediaOps'[c] = [mediaOps[c] EXCEPT !.at = at] /\ \A d \in MediaCalls \ {c} : mediaOps'[d] = mediaOps[d]
  BY <1>3 DEF MediaTypes
<1> QED
  BY <1>1, <1>2, <1>3, <1>4 DEF MediaTypes, MediaCallStates

LEMMA MediaCallEnds ==
    ASSUME MediaTypes, NEW c \in MediaCalls, OpEnds(c)
    PROVE  /\ mediaOps' \in [MediaCalls -> MediaCallStates]
           /\ \A d \in MediaCalls : mediaOps'[d].at # "idle" => mediaOps'[d].id \in MediaIds
           /\ \A d \in MediaCalls \ {c} : mediaOps'[d] = mediaOps[d]
           /\ mediaOps'[c].id = "none" /\ mediaOps'[c].at = "idle"
BY DEF MediaTypes, OpEnds, NoMediaOp, MediaCallStates

(* Every statement, object store call and interruption preserves it. *)
LEMMA MediaStep == MediaInv /\ [MediaNext]_mediaVars => MediaInv'
<1> SUFFICES ASSUME MediaInv, [MediaNext]_mediaVars
             PROVE  MediaInv'
  OBVIOUS
<1> USE DEF MediaInv, MediaTypes, IntentIsAlone, CompleteIsCurrent, PutHasRow, ReadyIsStored, UploadSurvives,
            IntentAt, CompleteAt, CheckedAt, CopiedAt, objectVars
<1>1. ASSUME NEW m \in MediaIds, PutObject(m)
      PROVE  MediaInv'
  BY <1>1 DEF PutObject
<1>2. ASSUME NEW m \in MediaIds, ObjectAges(m)
      PROVE  MediaInv'
  BY <1>2 DEF ObjectAges
<1>3. ASSUME NEW m \in MediaIds, SweepObject(m)
      PROVE  MediaInv'
  BY <1>3 DEF SweepObject
<1>4. ASSUME NEW c \in MediaCalls, NEW m \in MediaIds, NEW s \in Shas, NEW sized \in BOOLEAN,
             BeginIntent(c, m, s, sized)
      PROVE  MediaInv'
  <2>1. MediaTypes'
    BY <1>4 DEF BeginIntent, NoMedia, NoMediaOp, MediaCallStates
  <2>2. IntentIsAlone'
    <3>1. /\ mediaOps'[c].id = m /\ m # "none" /\ media[m] = NoMedia /\ UNCHANGED media
          /\ \A d \in MediaCalls \ {c} : mediaOps'[d] = mediaOps[d] /\ mediaOps[d].id # m
      BY <1>4 DEF BeginIntent, NoMediaOp
    <3> QED
      BY <3>1
  <2>3. CompleteIsCurrent'
    BY <1>4 DEF BeginIntent, NoMedia, NoMediaOp, MediaCallStates
  <2>4. PutHasRow'
    BY <1>4 DEF BeginIntent, NoMedia, NoMediaOp, MediaCallStates
  <2>5. ReadyIsStored'
    BY <1>4 DEF BeginIntent, NoMedia, NoMediaOp, MediaCallStates
  <2>6. UploadSurvives'
    BY <1>4 DEF BeginIntent, NoMedia, NoMediaOp, MediaCallStates
  <2> QED
    BY <2>1, <2>2, <2>3, <2>4, <2>5, <2>6 DEF MediaInv
<1>5. ASSUME NEW c \in MediaCalls, NEW m \in MediaIds, BeginComplete(c, m)
      PROVE  MediaInv'
  <2>1. MediaTypes'
    BY <1>5 DEF BeginComplete, NoMedia, NoMediaOp, MediaRows, MediaCallStates
  <2>2. IntentIsAlone'
    BY <1>5 DEF BeginComplete, NoMedia, NoMediaOp, MediaRows, MediaCallStates
  <2>3. CompleteIsCurrent'
    BY <1>5 DEF BeginComplete, NoMedia, NoMediaOp, MediaRows, MediaCallStates
  <2>4. PutHasRow'
    BY <1>5 DEF BeginComplete, NoMedia, NoMediaOp, MediaRows, MediaCallStates
  <2>5. ReadyIsStored'
    BY <1>5 DEF BeginComplete, NoMedia, NoMediaOp, MediaRows, MediaCallStates
  <2>6. UploadSurvives'
    BY <1>5 DEF BeginComplete, NoMedia, NoMediaOp, MediaRows, MediaCallStates
  <2> QED
    BY <2>1, <2>2, <2>3, <2>4, <2>5, <2>6 DEF MediaInv
<1>6. ASSUME NEW c \in MediaCalls, FindReadyByObjectKey(c)
      PROVE  MediaInv'
  BY <1>6, MediaCallGoesOn DEF FindReadyByObjectKey
<1>7. ASSUME NEW c \in MediaCalls, CreateMediaObject(c)
      PROVE  MediaInv'
  <2> DEFINE id == mediaOps[c].id
  <2>1. /\ id \in MediaIds /\ media[id] = NoMedia /\ OpEnds(c)
        /\ mediaOps[c].sha \in Shas \cup {"none"} /\ mediaOps[c].sized \in BOOLEAN
        /\ UNCHANGED objectVars
    BY <1>7 DEF CreateMediaObject, MediaCallStates
  <2>2. PICK r \in MediaRows :
          /\ media' = [media EXCEPT ![id] = r]
          /\ r.status # "none"
          /\ r.status = "ready" => r.sha \in final /\ r.sized
    <3>1. CASE mediaOps[c].at = "instant"
      <4>1. PICK m \in MediaIds : /\ media[m].status = "ready"
                                 /\ media' = [media EXCEPT ![id] = [media[m] EXCEPT !.url = FALSE]]
        BY <1>7, <3>1 DEF CreateMediaObject
      <4> DEFINE r == [media[m] EXCEPT !.url = FALSE]
      <4>2. media[m] \in MediaRows /\ media[m].sha \in final /\ media[m].sized
        BY <4>1
      <4>3. /\ r \in MediaRows /\ r.status = "ready"
            /\ r.sha \in final /\ r.sized
        BY <4>1, <4>2 DEF MediaRows
      <4> QED
        BY <4>1, <4>3
    <3>2. CASE mediaOps[c].at = "pending"
      <4>1. media' = [media EXCEPT ![id] = [status |-> "pending", sha |-> mediaOps[c].sha,
                                            sized |-> mediaOps[c].sized, url |-> TRUE]]
        BY <1>7, <3>2 DEF CreateMediaObject
      <4>2. [status |-> "pending", sha |-> mediaOps[c].sha, sized |-> mediaOps[c].sized, url |-> TRUE] \in MediaRows
        BY <2>1 DEF MediaRows
      <4> QED
        BY <4>1, <4>2
    <3> QED
      BY <1>7, <3>1, <3>2 DEF CreateMediaObject
  <2>3. \A m \in MediaIds : m # id => media'[m] = media[m]
    BY <2>2
  <2>4. media'[id] = r /\ media' \in [MediaIds -> MediaRows]
    BY <2>1, <2>2
  <2>5. id \notin put /\ media[id].status = "none"
    BY <2>1 DEF NoMedia
  <2> HIDE DEF id
  <2>6. MediaTypes'
    BY <2>1, <2>4, MediaCallEnds
  <2>7. IntentIsAlone' /\ CompleteIsCurrent'
    <3>1. \A d \in MediaCalls \ {c} : mediaOps[d].at \in IntentAt \cup CompleteAt => mediaOps[d].id # id
      BY <1>7, <2>5 DEF CreateMediaObject, id
    <3> QED
      BY <2>1, <2>3, <3>1, MediaCallEnds
  <2>8. PutHasRow'
    BY <2>1, <2>2, <2>3, <2>4
  <2>9. ReadyIsStored'
    BY <2>1, <2>2, <2>3, <2>4
  <2>10. UploadSurvives'
    BY <2>1, <2>3, <2>5
  <2> QED
    BY <2>6, <2>7, <2>8, <2>9, <2>10 DEF MediaInv
<1>8. ASSUME NEW c \in MediaCalls, StatTmp(c)
      PROVE  MediaInv'
  BY <1>8, MediaCallGoesOn, MediaCallEnds DEF StatTmp
<1>9. ASSUME NEW c \in MediaCalls, StatFinal(c)
      PROVE  MediaInv'
  BY <1>9, MediaCallGoesOn, MediaCallEnds DEF StatFinal
<1>10. ASSUME NEW c \in MediaCalls, CopyObject(c)
      PROVE  MediaInv'
  <2>1. MediaTypes'
    BY <1>10, MediaCallGoesOn, MediaCallEnds DEF CopyObject
  <2>2. IntentIsAlone'
    BY <1>10, MediaCallGoesOn, MediaCallEnds DEF CopyObject
  <2>3. CompleteIsCurrent'
    BY <1>10, MediaCallGoesOn, MediaCallEnds DEF CopyObject
  <2>4. PutHasRow'
    BY <1>10, MediaCallGoesOn, MediaCallEnds DEF CopyObject
  <2>5. ReadyIsStored'
    BY <1>10, MediaCallGoesOn, MediaCallEnds DEF CopyObject
  <2>6. UploadSurvives'
    BY <1>10, MediaCallGoesOn, MediaCallEnds DEF CopyObject
  <2> QED
    BY <2>1, <2>2, <2>3, <2>4, <2>5, <2>6 DEF MediaInv
<1>11. ASSUME NEW c \in MediaCalls, RemoveObject(c)
      PROVE  MediaInv'
  BY <1>11, MediaCallGoesOn DEF RemoveObject
<1>12. ASSUME NEW c \in MediaCalls, MarkReady(c)
      PROVE  MediaInv'
  <2>1. MediaTypes'
    BY <1>12, MediaCallEnds DEF MarkReady, NoMedia, MediaRows
  <2>2. IntentIsAlone'
    BY <1>12, MediaCallEnds, SMTT(20) DEF MarkReady, NoMedia, MediaRows
  <2>3. CompleteIsCurrent'
    BY <1>12, MediaCallEnds DEF MarkReady, NoMedia, MediaRows
  <2>4. PutHasRow'
    BY <1>12, MediaCallEnds DEF MarkReady, NoMedia, MediaRows
  <2>5. ReadyIsStored'
    BY <1>12, MediaCallEnds DEF MarkReady, NoMedia, MediaRows
  <2>6. UploadSurvives'
    BY <1>12, MediaCallEnds DEF MarkReady, NoMedia, MediaRows
  <2> QED
    BY <2>1, <2>2, <2>3, <2>4, <2>5, <2>6 DEF MediaInv
<1>13. ASSUME NEW c \in MediaCalls, MediaOpFails(c)
      PROVE  MediaInv'
  BY <1>13, MediaCallEnds DEF MediaOpFails
<1>14. CASE UNCHANGED mediaVars
  BY <1>14 DEF mediaVars
<1> QED
  BY <1>1, <1>2, <1>3, <1>4, <1>5, <1>6, <1>7, <1>8, <1>9, <1>10, <1>11, <1>12, <1>13, <1>14 DEF MediaNext

(* A ready media row can always be downloaded, and an uploaded object that  *)
(* the sweeper did not take is always found, whatever uploads overlap and   *)
(* wherever they are cut short.                                             *)
THEOREM MediaKeepsUploads == MediaSpec => []UploadsKept
<1>1. MediaInv => UploadsKept
  BY DEF MediaInv, UploadsKept
<1> QED
  BY <1>1, MediaInitially, MediaStep, PTL DEF MediaSpec

-----------------------------------------------------------------------------
(*                                 Groups                                  *)

Titles == [name : Texts, description : Texts]
MemberRows == [status : {"none", "active", "left"}, role : {"none", "owner", "member"}]
GroupCallStates ==
    [op : GroupOp \cup {"none"}, by : GroupUsers \cup {NoCreator}, user : GroupUsers \cup {NoCreator},
     title : SUBSET Titles,
     at : {"idle", "existing", "limit", "upsert", "others", "left", "manage", "target", "update"}]

(* A call in progress is about a user, and there is none before the group.  *)
GroupTypes ==
    /\ creator \in GroupUsers \cup {NoCreator} /\ title \in Titles
    /\ members \in [GroupUsers -> MemberRows]
    /\ groupOps \in [GroupCalls -> GroupCallStates]
    /\ \A c \in GroupCalls : groupOps[c].at # "idle" => groupOps[c].user \in GroupUsers /\ creator # NoCreator

(* The calls that counted the members and have not inserted theirs yet. *)
Inserting == {c \in GroupCalls : groupOps[c].at = "upsert"}

(* Members and members to come: each call adds one at most, and only when   *)
(* it counted less than the limit; so the last one that counts finds room   *)
(* for itself, and the others were already inserting.                       *)
RoomForInserts ==
    Cardinality(ActiveMembers) + Cardinality(Inserting) <= MemberLimitV1 - 1 + Cardinality(GroupCalls)

(* The inductive invariant of Groups. *)
GroupInv == GroupTypes /\ CreatorOwns /\ RoomForInserts

(* The sets that the limit counts are finite. *)
LEMMA GroupCounts ==
    /\ IsFiniteSet(ActiveMembers) /\ Cardinality(ActiveMembers) \in Nat
    /\ IsFiniteSet(Inserting) /\ Cardinality(Inserting) \in Nat
    /\ Cardinality(Inserting) <= Cardinality(GroupCalls)
    /\ Cardinality(GroupCalls) \in Nat \ {0} /\ MemberLimitV1 \in Nat \ {0}
<1>1. ActiveMembers \in SUBSET GroupUsers /\ Inserting \in SUBSET GroupCalls
  BY DEF ActiveMembers, Inserting
<1>2. IsFiniteSet(GroupUsers) /\ IsFiniteSet(GroupCalls) /\ GroupCalls # {} /\ MemberLimitV1 \in Nat \ {0}
  BY GroupConstants
<1> QED
  BY <1>1, <1>2, FS_Subset, FS_CardinalityType, FS_EmptySet

(* Members that leave and calls that end or go on without inserting keep    *)
(* within the room there is.                                                *)
LEMMA FewerKeepRoom ==
    ASSUME RoomForInserts, ActiveMembers' \subseteq ActiveMembers, Inserting' \subseteq Inserting
    PROVE  RoomForInserts'
<1>1. /\ Cardinality(ActiveMembers') <= Cardinality(ActiveMembers) /\ Cardinality(ActiveMembers') \in Nat
      /\ Cardinality(Inserting') <= Cardinality(Inserting) /\ Cardinality(Inserting') \in Nat
  BY GroupCounts, FS_Subset, FS_CardinalityType
<1> QED
  BY <1>1, GroupCounts DEF RoomForInserts

(* A call that goes on or ends changes nothing else. *)
LEMMA GroupCallGoes ==
    ASSUME GroupTypes, NEW c \in GroupCalls, NEW at \in {"end", "limit", "upsert", "left", "target", "update"},
           groupOps[c].at # "idle", OpGoes(c, at)
    PROVE  /\ GroupTypes' <=> members' \in [GroupUsers -> MemberRows]
           /\ groupOps'[c].at = IF at = "end" THEN "idle" ELSE at
           /\ \A d \in GroupCalls \ {c} : groupOps'[d] = groupOps[d]
           /\ at # "upsert" => Inserting' = Inserting \ {c}
           /\ UNCHANGED creator
<1>1. groupOps[c] \in GroupCallStates /\ groupOps[c].user \in GroupUsers /\ creator # NoCreator
  BY DEF GroupTypes
<1>2. [groupOps[c] EXCEPT !.at = at] \in GroupCallStates \/ at = "end"
  BY <1>1 DEF GroupCallStates
<1>3. NoOp \in GroupCallStates /\ NoOp.at = "idle"
  BY DEF NoOp, GroupCallStates
<1>4. /\ groupOps' \in [GroupCalls -> GroupCallStates]
      /\ groupOps'[c].at = IF at = "end" THEN "idle" ELSE at
      /\ at # "end" => groupOps'[c].user = groupOps[c].user
      /\ \A d \in GroupCalls \ {c} : groupOps'[d] = groupOps[d]
      /\ UNCHANGED <<creator, title>>
  BY <1>1, <1>2, <1>3 DEF OpGoes, GroupTypes, GroupCallStates
<1>5. at # "upsert" => Inserting' = Inserting \ {c}
  BY <1>4 DEF Inserting
<1> QED
  BY <1>1, <1>4, <1>5 DEF GroupTypes

(* A call that only goes on, without coming to the insert, is harmless. *)
LEMMA GroupCallReads ==
    ASSUME GroupInv, NEW c \in GroupCalls, NEW at \in {"end", "limit", "left", "target", "update"},
           groupOps[c].at # "idle", OpGoes(c, at), UNCHANGED members
    PROVE  GroupInv'
<1>1. GroupTypes' /\ CreatorOwns'
  BY GroupCallGoes DEF GroupInv, GroupTypes, CreatorOwns
<1>2. ActiveMembers' = ActiveMembers /\ Inserting' \subseteq Inserting
  BY GroupCallGoes DEF GroupInv, ActiveMembers
<1> QED
  BY <1>1, <1>2, FewerKeepRoom DEF GroupInv

LEMMA GroupsInitially == GroupsInit => GroupInv
<1> SUFFICES ASSUME GroupsInit
             PROVE  GroupInv
  OBVIOUS
<1>1. GroupTypes /\ CreatorOwns
  BY DEF GroupsInit, GroupTypes, CreatorOwns, Titles, MemberRows, GroupCallStates, NoOp, Absent
<1>2. ActiveMembers = {} /\ Inserting = {}
  BY DEF GroupsInit, ActiveMembers, Inserting, NoOp, Absent
<1> QED
  BY <1>1, <1>2, GroupCounts, FS_EmptySet DEF GroupInv, RoomForInserts

(* Every statement of every call preserves the invariant. *)
LEMMA GroupStep == GroupInv /\ [GroupsNext]_groupVars => GroupInv'
<1> SUFFICES ASSUME GroupInv, [GroupsNext]_groupVars
             PROVE  GroupInv'
  OBVIOUS
<1> USE DEF GroupInv
<1>1. ASSUME NEW u \in GroupUsers, NEW others \in SUBSET GroupUsers, CreateGroup(u, others)
      PROVE  GroupInv'
  <2>1. GroupTypes' /\ CreatorOwns'
    BY <1>1, GroupConstants DEF CreateGroup, GroupTypes, CreatorOwns, MemberRows, Absent
  <2>2. ActiveMembers' \subseteq {u} \cup others /\ Inserting' = {} /\ Inserting = {}
    BY <1>1 DEF CreateGroup, GroupTypes, ActiveMembers, Inserting, Absent
  <2>3. IsFiniteSet({u} \cup others)
    BY GroupConstants, FS_Subset
  <2>4. Cardinality(ActiveMembers') <= MemberLimitV1 /\ Cardinality(ActiveMembers') \in Nat
    BY <1>1, <2>2, <2>3, FS_Subset, FS_CardinalityType, GroupConstants DEF CreateGroup
  <2>5. Cardinality(Inserting') = 0
    BY <2>2, FS_EmptySet
  <2> QED
    BY <2>1, <2>4, <2>5, GroupCounts DEF RoomForInserts
<1>2. ASSUME NEW c \in GroupCalls, NEW op \in GroupOp, NEW by \in GroupUsers, NEW u \in GroupUsers,
             BeginOp(c, op, by, u)
      PROVE  GroupInv'
  <2>1. GroupTypes'
    BY <1>2 DEF BeginOp, GroupTypes, GroupCallStates, GroupOp
  <2>2. CreatorOwns' /\ ActiveMembers' = ActiveMembers
    BY <1>2 DEF BeginOp, CreatorOwns, ActiveMembers
  <2>3. Inserting' \subseteq Inserting
    BY <1>2, <2>1 DEF BeginOp, Inserting, GroupTypes, GroupOp
  <2> QED
    BY <2>1, <2>2, <2>3, FewerKeepRoom
<1>3. ASSUME NEW c \in GroupCalls, AddActiveExisting(c)
      PROVE  GroupInv'
  BY <1>3, GroupCallReads DEF AddActiveExisting
<1>4. ASSUME NEW c \in GroupCalls, AddActiveLimit(c)
      PROVE  GroupInv'
  <2>1. CASE Cardinality(ActiveMembers) >= MemberLimitV1
    BY <1>4, <2>1, GroupCallReads DEF AddActiveLimit
  <2>2. CASE ~(Cardinality(ActiveMembers) >= MemberLimitV1)
    <3>1. OpGoes(c, "upsert") /\ groupOps[c].at = "limit" /\ UNCHANGED members
      BY <1>4, <2>2 DEF AddActiveLimit
    <3>2. GroupTypes' /\ CreatorOwns' /\ ActiveMembers' = ActiveMembers
      BY <3>1, GroupCallGoes DEF GroupTypes, CreatorOwns, ActiveMembers
    <3>3. Cardinality(Inserting') <= Cardinality(GroupCalls) /\ Cardinality(Inserting') \in Nat
      <4>1. Inserting' \in SUBSET GroupCalls
        BY DEF Inserting
      <4> QED
        BY <4>1, GroupConstants, FS_Subset, FS_CardinalityType
    <3> QED
      BY <2>2, <3>2, <3>3, GroupCounts DEF RoomForInserts
  <2> QED
    BY <2>1, <2>2
<1>5. ASSUME NEW c \in GroupCalls, AddActiveUpsert(c)
      PROVE  GroupInv'
  <2> DEFINE u == groupOps[c].user
  <2>1. u \in GroupUsers /\ groupOps[c].at = "upsert" /\ OpGoes(c, "end") /\ creator # NoCreator
    BY <1>5 DEF AddActiveUpsert, GroupTypes
  <2>2. members' = [members EXCEPT ![u] = [status |-> "active", role |-> RoleOf(u)]]
    BY <1>5 DEF AddActiveUpsert, UpsertActiveMember
  <2>3. GroupTypes'
    BY <2>1, <2>2, GroupCallGoes DEF GroupTypes, RoleOf, MemberRows
  <2>4. CreatorOwns'
    BY <2>1, <2>2, GroupCallGoes DEF GroupTypes, CreatorOwns, RoleOf
  <2>5. ActiveMembers' = ActiveMembers \cup {u}
    BY <2>1, <2>2 DEF GroupTypes, ActiveMembers
  <2>6. Inserting' = Inserting \ {c} /\ c \in Inserting
    BY <2>1, GroupCallGoes DEF Inserting
  <2>7. Cardinality(ActiveMembers') <= Cardinality(ActiveMembers) + 1 /\ Cardinality(ActiveMembers') \in Nat
    <3>1. IsFiniteSet(ActiveMembers)
      BY GroupCounts
    <3> HIDE DEF u
    <3>2. /\ IsFiniteSet(ActiveMembers')
          /\ Cardinality(ActiveMembers') = IF u \in ActiveMembers THEN Cardinality(ActiveMembers)
                                           ELSE Cardinality(ActiveMembers) + 1
      BY <2>5, <3>1, FS_AddElement
    <3> QED
      BY <3>2, GroupCounts
  <2>8. Cardinality(Inserting') = Cardinality(Inserting) - 1
    BY <2>6, GroupCounts, FS_RemoveElement
  <2> QED
    BY <2>3, <2>4, <2>7, <2>8, GroupCounts DEF RoomForInserts
<1>6. ASSUME NEW c \in GroupCalls, LeaveGroupOthers(c)
      PROVE  GroupInv'
  BY <1>6, GroupCallReads DEF LeaveGroupOthers
<1>7. ASSUME NEW c \in GroupCalls, EnsureCanManageGroup(c)
      PROVE  GroupInv'
  BY <1>7, GroupCallReads DEF EnsureCanManageGroup
<1>8. ASSUME NEW c \in GroupCalls, KickMemberTarget(c)
      PROVE  GroupInv'
  BY <1>8, GroupCallReads DEF KickMemberTarget
<1>9. ASSUME NEW c \in GroupCalls, MemberLeaves(c)
      PROVE  GroupInv'
  <2> DEFINE u == groupOps[c].user
  <2>1. u \in GroupUsers /\ groupOps[c].at = "left" /\ OpGoes(c, "end")
    BY <1>9 DEF MemberLeaves, GroupTypes
  <2>2. PICK s \in {"none", "left"} : members' = [members EXCEPT ![u] = [members[u] EXCEPT !.status = s]]
    <3>1. members' = [members EXCEPT ![u] = [members[u] EXCEPT
                        !.status = IF members[u].status = "active" THEN "left" ELSE members[u].status]]
      BY <1>9 DEF MemberLeaves, SetMemberLeft
    <3>2. members[u].status \in {"none", "active", "left"}
      BY <2>1 DEF GroupTypes, MemberRows
    <3> QED
      BY <3>1, <3>2
  <2>3. GroupTypes'
    BY <2>1, <2>2, GroupCallGoes DEF GroupTypes, MemberRows
  <2>4. CreatorOwns'
    BY <2>1, <2>2, GroupCallGoes DEF GroupTypes, CreatorOwns, MemberRows
  <2>5. ActiveMembers' \subseteq ActiveMembers
    BY <2>1, <2>2 DEF GroupTypes, ActiveMembers, MemberRows
  <2>6. Inserting' \subseteq Inserting
    BY <2>1, GroupCallGoes
  <2> QED
    BY <2>3, <2>4, <2>5, <2>6, FewerKeepRoom
<1>10. ASSUME NEW c \in GroupCalls, UpdateNameDescription(c)
       PROVE  GroupInv'
  <2>1. GroupTypes'
    BY <1>10 DEF UpdateNameDescription, GroupTypes, GroupCallStates, NoOp, Titles
  <2>2. CreatorOwns' /\ ActiveMembers' = ActiveMembers
    BY <1>10 DEF UpdateNameDescription, CreatorOwns, ActiveMembers
  <2>3. Inserting' \subseteq Inserting
    BY <1>10 DEF UpdateNameDescription, Inserting, GroupTypes, NoOp
  <2> QED
    BY <2>1, <2>2, <2>3, FewerKeepRoom
<1>11. ASSUME NEW c \in GroupCalls, OpFails(c)
       PROVE  GroupInv'
  <2>1. CASE groupOps[c].at # "idle"
    BY <1>11, <2>1, GroupCallReads DEF OpFails
  <2>2. CASE groupOps[c].at = "idle"
    <3>1. GroupTypes' /\ Inserting' = Inserting
      BY <1>11, <2>2 DEF OpFails, OpGoes, GroupTypes, GroupCallStates, NoOp, Inserting
    <3>2. CreatorOwns' /\ ActiveMembers' = ActiveMembers
      BY <1>11 DEF OpFails, OpGoes, CreatorOwns, ActiveMembers
    <3> QED
      BY <3>1, <3>2, FewerKeepRoom
  <2> QED
    BY <2>1, <2>2
<1>12. CASE UNCHANGED groupVars
  <2>1. GroupTypes' /\ CreatorOwns' /\ ActiveMembers' = ActiveMembers /\ Inserting' = Inserting
    BY <1>12 DEF groupVars, GroupTypes, CreatorOwns, ActiveMembers, Inserting
  <2> QED
    BY <2>1, FewerKeepRoom
<1> QED
  BY <1>1, <1>2, <1>3, <1>4, <1>5, <1>6, <1>7, <1>8, <1>9, <1>10, <1>11, <1>12 DEF GroupsNext

(* The creator's row, and no other, has the owner role for as long as the   *)
(* group exists, and the member limit is passed at most by the joins that   *)
(* run at a time, less one.                                                 *)
THEOREM GroupsKeepTheirRules == GroupsSpec => []MembershipSound
<1>1. GroupInv => MembershipSound
  BY GroupCounts DEF GroupInv, RoomForInserts, MembershipSound, LimitOverrunBounded
<1> QED
  BY <1>1, GroupsInitially, GroupStep, PTL DEF GroupsSpec

-----------------------------------------------------------------------------
(*                                 Friends                                 *)

FriendOps == {"AddFriend", "Accept", "Reject", "DeleteFriend", "EnsureFriendship"}
FriendPuts == [pair : Pairs, status : Statuses]

(* What a call that writes both rows makes of them. *)
Verdict(op) == IF op = "Reject" THEN "rejected" ELSE IF op = "DeleteFriend" THEN "deleted" ELSE "accepted"

(* How far a transaction has come, by the statement it is at: what it wrote *)
(* and, while it writes, what it has still to write.                        *)
BeforeWrites(t) == t.wrote = {}
Writing(t) ==
    LET p == t.pair
        v == Verdict(t.op)
    IN  /\ t.op # "DeleteFriend"
        /\ \/ t.op = "AddFriend" /\ t.todo = <<Put(p, "pending")>> /\ t.wrote = {}
           \/ \E q \in {p, Back(p)} : \/ t.todo = <<Put(q, v), Put(Back(q), v)>> /\ t.wrote = {}
                                      \/ t.todo = <<Put(Back(q), v)>> /\ t.wrote = {Put(q, v)}
Committing(t) ==
    LET p == t.pair
        v == Verdict(t.op)
    IN  \/ t.op = "AddFriend" /\ (t.wrote = {} \/ t.wrote = {Put(p, "pending")})
        \/ t.op = "DeleteFriend" /\ t.wrote = {Put(p, v)}
        \/ t.wrote = {Put(p, v), Put(Back(p), v)}

TxShape(t) ==
    /\ t.at = "idle" => t = NoTx
    /\ t.at # "idle" => t.op \in FriendOps /\ t.pair \in Pairs
    /\ t.at \in {"existing", "reverse"} => t.op = "AddFriend" /\ BeforeWrites(t)
    /\ t.at = "incoming" => t.op \in {"Accept", "Reject"} /\ BeforeWrites(t)
    /\ t.at = "mark" => t.op = "DeleteFriend" /\ BeforeWrites(t)
    /\ t.at = "markOther" => t.op = "DeleteFriend" /\ t.wrote = {Put(t.pair, "deleted")}
    /\ t.at = "write" => Writing(t)
    /\ t.at = "commit" => Committing(t)

TxRecords ==
    [op : FriendOps \cup {"none"}, pair : Pairs \cup {<<>>}, wrote : SUBSET FriendPuts, locks : SUBSET Pairs,
     todo : Seq(FriendPuts),
     at : {"idle", "existing", "reverse", "incoming", "mark", "markOther", "write", "commit"}]

FriendTypes ==
    /\ rows \in [Pairs -> Statuses]
    /\ txs \in [FriendCalls -> TxRecords]
    /\ \A c \in FriendCalls : TxShape(txs[c])

(* A row is locked by one transaction, and before it is written. *)
LocksHold ==
    /\ \A c \in FriendCalls : \A w \in txs[c].wrote : w.pair \in txs[c].locks
    /\ \A c, d \in FriendCalls : c # d => txs[c].locks \cap txs[d].locks = {}

(* Who will make a friendship because the other one asked has the other's   *)
(* row locked, and the other one still wants it.                            *)
Accepting(t) ==
    /\ t.op \in {"AddFriend", "Accept"}
    /\ \/ t.at = "write" /\ t.todo # <<Put(t.pair, "pending")>>
       \/ t.at = "commit" /\ Put(t.pair, "accepted") \in t.wrote
OtherAsked ==
    \A c \in FriendCalls : Accepting(txs[c]) => Back(txs[c].pair) \in txs[c].locks \cap asked

(* Who deletes one row only has seen that the other is no friendship, and   *)
(* nobody can make it one without the row that is locked.                   *)
OtherNotFriend ==
    \A c \in FriendCalls :
        txs[c].at = "commit" /\ txs[c].wrote = {Put(txs[c].pair, "deleted")} => rows[Back(txs[c].pair)] # "accepted"

PendingIsAsked == \A p \in Pairs : rows[p] \in {"pending", "accepted"} => p \in asked

(* The inductive invariant of Friends. *)
FriendInv == FriendTypes /\ LocksHold /\ OtherAsked /\ OtherNotFriend /\ PendingIsAsked /\ FriendsByConsent

(* The two rows of a pair. *)
LEMMA TwoRows ==
    ASSUME NEW p \in Pairs
    PROVE  Back(p) \in Pairs /\ Back(Back(p)) = p /\ Back(p) # p
BY DEF Pairs, Back

LEMMA PutIs == ASSUME NEW p, NEW v PROVE Put(p, v).pair = p /\ Put(p, v).status = v
BY DEF Put

(* A transaction sees its own writes, and what is committed elsewhere. *)
LEMMA SeesCommitted ==
    ASSUME NEW c \in FriendCalls, NEW p, \A w \in txs[c].wrote : w.pair # p
    PROVE  SeenBy(c, p) = rows[p]
BY DEF SeenBy

LEMMA SeesWritten ==
    ASSUME NEW c \in FriendCalls, NEW v, NEW w \in txs[c].wrote, \A x \in txs[c].wrote : x.status = v
    PROVE  SeenBy(c, w.pair) = v
BY DEF SeenBy

(* A step of one transaction that commits nothing: it is enough to look at  *)
(* that transaction.                                                        *)
LEMMA TxGoesOn ==
    ASSUME FriendInv, NEW c \in FriendCalls, NEW t,
           txs' = [txs EXCEPT ![c] = t], UNCHANGED <<rows, asked>>,
           t \in TxRecords, TxShape(t),
           \A w \in t.wrote : w.pair \in t.locks,
           \A d \in FriendCalls \ {c} : t.locks \cap txs[d].locks = {},
           Accepting(t) => Back(t.pair) \in t.locks \cap asked,
           t.at = "commit" /\ t.wrote = {Put(t.pair, "deleted")} => rows[Back(t.pair)] # "accepted"
    PROVE  FriendInv'
<1>1. txs'[c] = t /\ (\A d \in FriendCalls \ {c} : txs'[d] = txs[d])
  BY DEF FriendInv, FriendTypes
<1>2. FriendTypes'
  BY <1>1 DEF FriendInv, FriendTypes
<1>3. LocksHold'
  BY <1>1 DEF FriendInv, LocksHold
<1>4. OtherAsked'
  BY <1>1 DEF FriendInv, OtherAsked
<1>5. OtherNotFriend'
  BY <1>1 DEF FriendInv, OtherNotFriend
<1>6. PendingIsAsked' /\ FriendsByConsent'
  BY DEF FriendInv, PendingIsAsked, FriendsByConsent
<1> QED
  BY <1>2, <1>3, <1>4, <1>5, <1>6 DEF FriendInv

(* A transaction that ends, for whatever reason, gives up its locks. *)
LEMMA TxEnds ==
    ASSUME FriendInv, NEW c \in FriendCalls, txs' = [txs EXCEPT ![c] = NoTx], UNCHANGED <<rows, asked>>
    PROVE  FriendInv'
<1>1. NoTx \in TxRecords /\ TxShape(NoTx) /\ NoTx.wrote = {} /\ NoTx.locks = {} /\ NoTx.at = "idle"
  BY DEF TxRecords, TxShape, NoTx
<1>2. ~Accepting(NoTx)
  BY <1>1 DEF Accepting
<1> QED
  BY <1>1, <1>2, TxGoesOn

LEMMA FriendsInitially == FriendsInit => FriendInv
<1> SUFFICES ASSUME FriendsInit
             PROVE  FriendInv
  OBVIOUS
<1>1. NoTx \in TxRecords /\ TxShape(NoTx) /\ NoTx.wrote = {} /\ NoTx.locks = {} /\ NoTx.at = "idle"
  BY DEF TxRecords, TxShape, NoTx
<1>2. \A c \in FriendCalls : txs[c] = NoTx
  BY DEF FriendsInit
<1>3. FriendTypes
  BY <1>1 DEF FriendsInit, FriendTypes, Statuses
<1>4. LocksHold /\ OtherAsked /\ OtherNotFriend
  BY <1>1, <1>2 DEF LocksHold, OtherAsked, OtherNotFriend, Accepting
<1>5. PendingIsAsked /\ FriendsByConsent
  BY DEF FriendsInit, PendingIsAsked, FriendsByConsent
<1> QED
  BY <1>3, <1>4, <1>5 DEF FriendInv

(* SELECT ... FOR UPDATE locks what it finds, and what it finds is what is  *)
(* committed as long as nothing was written.                                *)
LEMMA FindLocks ==
    ASSUME FriendInv, NEW c \in FriendCalls, NEW p, FindPairForUpdate(c, p)
    PROVE  /\ \A d \in FriendCalls \ {c} : LocksAfterFind(c, p) \cap txs[d].locks = {}
           /\ txs[c].locks \subseteq LocksAfterFind(c, p)
           /\ SeenBy(c, p) # "none" => p \in LocksAfterFind(c, p)
BY DEF FriendInv, LocksHold, FindPairForUpdate, LocksAfterFind, Unlocked

(* What a SELECT leads to. *)
LEMMA GoesTo ==
    ASSUME FriendInv, NEW c \in FriendCalls, NEW p \in Pairs, NEW at \in {"write", "reverse", "commit"},
           NEW todo \in Seq(FriendPuts), Goes(c, p, at, todo)
    PROVE  \E t \in TxRecords :
              /\ txs' = [txs EXCEPT ![c] = t]
              /\ t.op = txs[c].op /\ t.pair = txs[c].pair /\ t.wrote = txs[c].wrote
              /\ t.at = at /\ t.todo = todo /\ t.locks = LocksAfterFind(c, p)
<1> DEFINE t == [txs[c] EXCEPT !.at = at, !.todo = todo, !.locks = LocksAfterFind(c, p)]
<1>1. txs[c] \in TxRecords
  BY DEF FriendInv, FriendTypes
<1>2. LocksAfterFind(c, p) \in SUBSET Pairs
  BY <1>1 DEF LocksAfterFind, TxRecords
<1>3. txs' = [txs EXCEPT ![c] = t]
  BY DEF Goes, FriendInv, FriendTypes
<1>4. /\ t \in TxRecords
      /\ t.op = txs[c].op /\ t.pair = txs[c].pair /\ t.wrote = txs[c].wrote
      /\ t.at = at /\ t.todo = todo /\ t.locks = LocksAfterFind(c, p)
  BY <1>1, <1>2 DEF TxRecords
<1> QED
  BY <1>3, <1>4

(* The rows of a pair, written with one status, as sequences. *)
LEMMA PutsTyped ==
    ASSUME NEW p \in Pairs, NEW v \in Statuses
    PROVE  /\ Put(p, v) \in FriendPuts /\ Put(Back(p), v) \in FriendPuts
           /\ <<Put(p, v)>> \in Seq(FriendPuts) /\ <<Put(p, v), Put(Back(p), v)>> \in Seq(FriendPuts)
           /\ <<Put(Back(p), v), Put(p, v)>> \in Seq(FriendPuts)
BY TwoRows DEF Put, FriendPuts

LEMMA BeginTxStep == ASSUME FriendInv, NEW c \in FriendCalls, NEW op \in FriendOps, NEW p \in Pairs, BeginTx(c, op, p)
                     PROVE  FriendInv'
<1> DEFINE t == [NoTx EXCEPT !.op = op, !.pair = p, !.at = FirstStatement[op],
                   !.todo = IF op = "EnsureFriendship" THEN <<Put(p, "accepted"), Put(Back(p), "accepted")>> ELSE <<>>]
<1>1. txs' = [txs EXCEPT ![c] = t] /\ UNCHANGED <<rows, asked>>
  BY DEF BeginTx
<1>2. /\ t.op = op /\ t.pair = p /\ t.at = FirstStatement[op] /\ t.wrote = {} /\ t.locks = {}
      /\ t.todo = IF op = "EnsureFriendship" THEN <<Put(p, "accepted"), Put(Back(p), "accepted")>> ELSE <<>>
  BY DEF NoTx
<1>3. FirstStatement[op] = CASE op = "AddFriend" -> "existing" [] op \in {"Accept", "Reject"} -> "incoming"
                             [] op = "DeleteFriend" -> "mark" [] op = "EnsureFriendship" -> "write"
  BY DEF FirstStatement, FriendOps
<1>4. t \in TxRecords
  <2> DEFINE todo == IF op = "EnsureFriendship" THEN <<Put(p, "accepted"), Put(Back(p), "accepted")>> ELSE <<>>
  <2>1. todo \in Seq(FriendPuts)
    BY PutsTyped DEF Statuses
  <2>2. FirstStatement[op] \in {"existing", "incoming", "mark", "write"}
    BY <1>3 DEF FriendOps
  <2>3. NoTx \in TxRecords
    BY DEF NoTx, TxRecords
  <2> HIDE DEF todo
  <2>4. [NoTx EXCEPT !.op = op, !.pair = p, !.at = FirstStatement[op], !.todo = todo] \in TxRecords
    BY <2>1, <2>2, <2>3 DEF TxRecords
  <2> QED
    BY <2>4 DEF todo
<1>5. TxShape(t)
  BY <1>2, <1>3 DEF TxShape, FriendOps, BeforeWrites, Writing, Verdict
<1>6. ~Accepting(t)
  BY <1>2, <1>3 DEF Accepting, FriendOps
<1> HIDE DEF t
<1> QED
  BY <1>1, <1>2, <1>3, <1>4, <1>5, <1>6, TxGoesOn DEF FriendOps

LEMMA ExistingStep == ASSUME FriendInv, NEW c \in FriendCalls, AddFriendExisting(c) PROVE FriendInv'
<1> DEFINE p == txs[c].pair
<1>1. /\ txs[c].at = "existing" /\ txs[c].op = "AddFriend" /\ p \in Pairs /\ txs[c].wrote = {}
      /\ FindPairForUpdate(c, p) /\ UNCHANGED <<rows, asked>>
  BY DEF AddFriendExisting, FriendInv, FriendTypes, TxShape, BeforeWrites
<1>2. PICK at \in {"commit", "reverse"} : Goes(c, p, at, <<>>)
  BY DEF AddFriendExisting
<1>3. PICK t \in TxRecords :
         /\ txs' = [txs EXCEPT ![c] = t]
         /\ t.op = txs[c].op /\ t.pair = txs[c].pair /\ t.wrote = txs[c].wrote
         /\ t.at = at /\ t.todo = <<>> /\ t.locks = LocksAfterFind(c, p)
  <2> DEFINE todo == <<>>
  <2>1. todo \in Seq(FriendPuts) /\ at \in {"write", "reverse", "commit"} /\ Goes(c, p, at, todo)
    BY <1>2
  <2> HIDE DEF p, todo
  <2>2. \E t \in TxRecords :
         /\ txs' = [txs EXCEPT ![c] = t]
         /\ t.op = txs[c].op /\ t.pair = txs[c].pair /\ t.wrote = txs[c].wrote
         /\ t.at = at /\ t.todo = todo /\ t.locks = LocksAfterFind(c, p)
    BY <1>1, <2>1, GoesTo
  <2> QED
    BY <2>2 DEF todo
<1>4. TxShape(t) /\ ~Accepting(t)
  BY <1>1, <1>3 DEF TxShape, BeforeWrites, Committing, FriendOps, Accepting
<1> QED
  BY <1>1, <1>3, <1>4, FindLocks, TxGoesOn

(* A row that is seen as asking was asked for. *)
LEMMA SeenPendingIsAsked ==
    ASSUME FriendInv, NEW c \in FriendCalls, NEW p \in Pairs, txs[c].wrote = {}, SeenBy(c, p) = "pending"
    PROVE  p \in asked
BY SeesCommitted DEF FriendInv, PendingIsAsked

LEMMA ReverseStep == ASSUME FriendInv, NEW c \in FriendCalls, AddFriendReverse(c) PROVE FriendInv'
<1> DEFINE p == txs[c].pair
<1>1. /\ txs[c].at = "reverse" /\ txs[c].op = "AddFriend" /\ p \in Pairs /\ txs[c].wrote = {} /\ Back(p) \in Pairs
      /\ FindPairForUpdate(c, Back(p)) /\ UNCHANGED <<rows, asked>>
  BY TwoRows DEF AddFriendReverse, FriendInv, FriendTypes, TxShape, BeforeWrites
<1>2. PICK todo \in {<<Put(p, "accepted"), Put(Back(p), "accepted")>>, <<Put(p, "pending")>>} :
         /\ Goes(c, Back(p), "write", todo)
         /\ todo # <<Put(p, "pending")>> => SeenBy(c, Back(p)) = "pending"
  BY DEF AddFriendReverse
<1>3. todo \in Seq(FriendPuts)
  BY <1>1, PutsTyped DEF Statuses
<1>4. PICK t \in TxRecords :
         /\ txs' = [txs EXCEPT ![c] = t]
         /\ t.op = txs[c].op /\ t.pair = txs[c].pair /\ t.wrote = txs[c].wrote
         /\ t.at = "write" /\ t.todo = todo /\ t.locks = LocksAfterFind(c, Back(p))
  BY <1>1, <1>2, <1>3, GoesTo
<1>5. TxShape(t)
  BY <1>1, <1>4 DEF TxShape, Writing, Verdict, FriendOps
<1>6. Accepting(t) => SeenBy(c, Back(p)) = "pending"
  BY <1>1, <1>2, <1>4 DEF Accepting
<1>7. Accepting(t) => Back(p) \in t.locks \cap asked
  BY <1>1, <1>4, <1>6, FindLocks, SeenPendingIsAsked
<1> QED
  BY <1>1, <1>4, <1>5, <1>7, FindLocks, TxGoesOn

LEMMA DecideStep == ASSUME FriendInv, NEW c \in FriendCalls, DecideFriendRequest(c) PROVE FriendInv'
<1> DEFINE p == txs[c].pair
           v == IF txs[c].op = "Accept" THEN "accepted" ELSE "rejected"
<1>1. /\ txs[c].at = "incoming" /\ txs[c].op \in {"Accept", "Reject"} /\ p \in Pairs /\ txs[c].wrote = {}
      /\ Back(p) \in Pairs /\ Back(Back(p)) = p /\ FindPairForUpdate(c, Back(p)) /\ UNCHANGED <<rows, asked>>
  BY TwoRows DEF DecideFriendRequest, FriendInv, FriendTypes, TxShape, BeforeWrites
<1>2. CASE SeenBy(c, Back(p)) = "pending"
  <2> DEFINE todo == <<Put(Back(p), v), Put(p, v)>>
  <2>1. Goes(c, Back(p), "write", todo)
    BY <1>2 DEF DecideFriendRequest
  <2>2. todo \in Seq(FriendPuts)
    BY <1>1, PutsTyped DEF Statuses
  <2>3. PICK t \in TxRecords :
           /\ txs' = [txs EXCEPT ![c] = t]
           /\ t.op = txs[c].op /\ t.pair = txs[c].pair /\ t.wrote = txs[c].wrote
           /\ t.at = "write" /\ t.todo = todo /\ t.locks = LocksAfterFind(c, Back(p))
    <3> HIDE DEF todo
    <3> QED
      BY <1>1, <2>1, <2>2, GoesTo
  <2>4. v = Verdict(txs[c].op)
    BY <1>1 DEF Verdict
  <2>5. TxShape(t)
    <3>1. Writing(t)
      BY <1>1, <2>3, <2>4 DEF Writing
    <3> QED
      BY <1>1, <2>3, <3>1 DEF TxShape, FriendOps
  <2>6. Back(p) \in t.locks \cap asked
    BY <1>1, <1>2, <2>3, FindLocks, SeenPendingIsAsked
  <2> QED
    BY <1>1, <2>3, <2>5, <2>6, FindLocks, TxGoesOn
<1>3. CASE SeenBy(c, Back(p)) # "pending"
  BY <1>1, <1>3, TxEnds DEF DecideFriendRequest
<1> QED
  BY <1>2, <1>3

(* UpsertStatus and MarkAcceptedDeleted: a row is locked and written. *)
Writes(c, p, v, at, todo) ==
    txs' = [txs EXCEPT ![c] = [txs[c] EXCEPT !.wrote = WithRow(c, p, v), !.locks = txs[c].locks \cup {p},
                                             !.todo = todo, !.at = at]]

LEMMA WritesRow ==
    ASSUME FriendInv, NEW c \in FriendCalls, NEW p \in Pairs, NEW v \in Statuses, NEW at \in {"write", "commit", "markOther"},
           NEW todo \in Seq(FriendPuts), Unlocked(c, p), \A w \in txs[c].wrote : w.pair # p,
           Writes(c, p, v, at, todo)
    PROVE  \E t \in TxRecords :
              /\ txs' = [txs EXCEPT ![c] = t]
              /\ t.op = txs[c].op /\ t.pair = txs[c].pair /\ t.wrote = txs[c].wrote \cup {Put(p, v)}
              /\ t.at = at /\ t.todo = todo /\ t.locks = txs[c].locks \cup {p}
              /\ \A w \in t.wrote : w.pair \in t.locks
              /\ \A d \in FriendCalls \ {c} : t.locks \cap txs[d].locks = {}
<1> DEFINE t == [txs[c] EXCEPT !.wrote = WithRow(c, p, v), !.locks = txs[c].locks \cup {p}, !.todo = todo, !.at = at]
<1>1. txs[c] \in TxRecords
  BY DEF FriendInv, FriendTypes
<1>2. WithRow(c, p, v) = txs[c].wrote \cup {Put(p, v)} /\ Put(p, v) \in FriendPuts /\ Put(p, v).pair = p
  BY PutsTyped, PutIs DEF WithRow
<1>3. /\ t \in TxRecords
      /\ t.op = txs[c].op /\ t.pair = txs[c].pair /\ t.wrote = WithRow(c, p, v)
      /\ t.at = at /\ t.todo = todo /\ t.locks = txs[c].locks \cup {p}
  BY <1>1, <1>2 DEF TxRecords
<1> HIDE DEF t
<1>4. \A w \in t.wrote : w.pair \in t.locks
  BY <1>2, <1>3 DEF FriendInv, LocksHold
<1>5. \A d \in FriendCalls \ {c} : t.locks \cap txs[d].locks = {}
  BY <1>3 DEF FriendInv, LocksHold, Unlocked
<1> QED
  BY <1>2, <1>3, <1>4, <1>5 DEF t, Writes

LEMMA UpsertStep == ASSUME FriendInv, NEW c \in FriendCalls, UpsertStatus(c) PROVE FriendInv'
<1> DEFINE p == txs[c].pair
           v == Verdict(txs[c].op)
           w == Head(txs[c].todo)
           rest == Tail(txs[c].todo)
           at == IF rest = <<>> THEN "commit" ELSE "write"
<1>1. /\ txs[c].at = "write" /\ txs[c] \in TxRecords /\ txs[c].op \in FriendOps \ {"DeleteFriend"} /\ p \in Pairs
      /\ Back(p) \in Pairs /\ Back(Back(p)) = p /\ Back(p) # p /\ Writing(txs[c]) /\ Unlocked(c, w.pair)
      /\ UNCHANGED <<rows, asked>> /\ v \in {"accepted", "rejected"}
  BY TwoRows DEF UpsertStatus, FriendInv, FriendTypes, TxShape, Writing, Verdict
<1>2. Writes(c, w.pair, w.status, at, rest)
  BY DEF Writes, UpsertStatus, FriendInv, FriendTypes
<1>3. OtherAsked /\ (Accepting(txs[c]) => Back(p) \in txs[c].locks \cap asked)
  BY DEF FriendInv, OtherAsked
<1>4. CASE txs[c].op = "AddFriend" /\ txs[c].todo = <<Put(p, "pending")>> /\ txs[c].wrote = {}
  <2>1. w.pair = p /\ w.status = "pending" /\ rest = <<>> /\ at = "commit" /\ rest \in Seq(FriendPuts)
    BY <1>4, PutIs
  <2>2. PICK t \in TxRecords :
              /\ txs' = [txs EXCEPT ![c] = t]
              /\ t.op = txs[c].op /\ t.pair = txs[c].pair /\ t.wrote = txs[c].wrote \cup {Put(p, "pending")}
              /\ t.at = "commit" /\ t.todo = rest /\ t.locks = txs[c].locks \cup {p}
              /\ \A x \in t.wrote : x.pair \in t.locks
              /\ \A d \in FriendCalls \ {c} : t.locks \cap txs[d].locks = {}
    <3>1. Writes(c, p, "pending", "commit", rest) /\ Unlocked(c, p)
      BY <1>1, <1>2, <1>4, <2>1
    <3>2. /\ p \in Pairs /\ "pending" \in Statuses /\ \A x \in txs[c].wrote : x.pair # p
          /\ rest \in Seq(FriendPuts)
      BY <1>1, <1>2, <1>4, <2>1 DEF Statuses
    <3> HIDE DEF w, rest, at, p
    <3> QED
      BY <3>1, <3>2, WritesRow
  <2>3. t.wrote = {Put(p, "pending")}
    BY <1>4, <2>2
  <2>4. TxShape(t)
    BY <1>1, <1>4, <2>2, <2>3 DEF TxShape, Committing, FriendOps
  <2>5. Put(p, "accepted") \notin t.wrote /\ Put(p, "deleted") \notin t.wrote
    BY <2>3, PutIs
  <2> QED
    BY <1>1, <2>2, <2>4, <2>5, TxGoesOn DEF Accepting
<1>5. ASSUME NEW q \in {p, Back(p)}, txs[c].todo = <<Put(q, v), Put(Back(q), v)>>, txs[c].wrote = {}
      PROVE  FriendInv'
  <2>1. /\ w.pair = q /\ w.status = v /\ rest = <<Put(Back(q), v)>> /\ at = "write"
        /\ q \in Pairs /\ Back(q) \in Pairs /\ rest \in Seq(FriendPuts) /\ v \in Statuses
    BY <1>1, <1>5, PutIs, PutsTyped DEF Statuses
  <2>2. PICK t \in TxRecords :
              /\ txs' = [txs EXCEPT ![c] = t]
              /\ t.op = txs[c].op /\ t.pair = txs[c].pair /\ t.wrote = txs[c].wrote \cup {Put(q, v)}
              /\ t.at = "write" /\ t.todo = rest /\ t.locks = txs[c].locks \cup {q}
              /\ \A x \in t.wrote : x.pair \in t.locks
              /\ \A d \in FriendCalls \ {c} : t.locks \cap txs[d].locks = {}
    <3>1. Writes(c, q, v, "write", rest) /\ Unlocked(c, q)
      BY <1>1, <1>2, <1>5, <2>1
    <3>2. /\ q \in Pairs /\ v \in Statuses /\ \A x \in txs[c].wrote : x.pair # q
          /\ rest \in Seq(FriendPuts)
      BY <1>1, <1>2, <1>5, <2>1 DEF Statuses
    <3> HIDE DEF w, rest, at, p, v
    <3> QED
      BY <3>1, <3>2, WritesRow
  <2>3. t.wrote = {Put(q, v)}
    BY <1>5, <2>2
  <2>4. TxShape(t)
    <3>1. Writing(t)
      BY <1>1, <2>1, <2>2, <2>3 DEF Writing
    <3> QED
      BY <1>1, <2>2, <3>1 DEF TxShape
  <2>5. Accepting(t) => Accepting(txs[c])
    <3>1. txs[c].todo # <<Put(p, "pending")>>
      BY <1>5
    <3> QED
      BY <1>1, <2>2, <3>1 DEF Accepting
  <2> QED
    BY <1>1, <1>3, <2>2, <2>4, <2>5, TxGoesOn
<1>6. ASSUME NEW q \in {p, Back(p)}, txs[c].todo = <<Put(Back(q), v)>>, txs[c].wrote = {Put(q, v)}
      PROVE  FriendInv'
  <2>1. /\ w.pair = Back(q) /\ w.status = v /\ rest = <<>> /\ at = "commit"
        /\ q \in Pairs /\ Back(q) \in Pairs /\ Back(q) # q /\ rest \in Seq(FriendPuts) /\ v \in Statuses
    BY <1>1, <1>6, PutIs DEF Statuses
  <2>2. \A x \in txs[c].wrote : x.pair # Back(q)
    BY <1>6, <2>1, PutIs
  <2>3. PICK t \in TxRecords :
              /\ txs' = [txs EXCEPT ![c] = t]
              /\ t.op = txs[c].op /\ t.pair = txs[c].pair /\ t.wrote = txs[c].wrote \cup {Put(Back(q), v)}
              /\ t.at = "commit" /\ t.todo = rest /\ t.locks = txs[c].locks \cup {Back(q)}
              /\ \A x \in t.wrote : x.pair \in t.locks
              /\ \A d \in FriendCalls \ {c} : t.locks \cap txs[d].locks = {}
    <3>1. Writes(c, Back(q), v, "commit", rest) /\ Unlocked(c, Back(q))
      BY <1>1, <1>2, <1>6, <2>1, <2>2
    <3>2. /\ Back(q) \in Pairs /\ v \in Statuses /\ \A x \in txs[c].wrote : x.pair # Back(q)
          /\ rest \in Seq(FriendPuts)
      BY <1>1, <1>2, <1>6, <2>1, <2>2 DEF Statuses
    <3> HIDE DEF w, rest, at, p, v
    <3> QED
      BY <3>1, <3>2, WritesRow
  <2>4. t.wrote = {Put(p, v), Put(Back(p), v)}
    BY <1>1, <1>6, <2>3
  <2>5. TxShape(t)
    <3>1. Committing(t)
      BY <1>1, <2>3, <2>4 DEF Committing
    <3> QED
      BY <1>1, <2>3, <3>1 DEF TxShape
  <2>6. Accepting(t) => Accepting(txs[c])
    <3>1. txs[c].todo # <<Put(p, "pending")>>
      BY <1>1, <1>6, PutIs
    <3> QED
      BY <1>1, <2>3, <3>1 DEF Accepting
  <2>7. t.wrote # {Put(p, "deleted")}
    BY <1>1, <2>4, PutIs
  <2> QED
    BY <1>1, <1>3, <2>3, <2>5, <2>6, <2>7, TxGoesOn
<1> QED
  BY <1>1, <1>4, <1>5, <1>6 DEF Writing

(* Both statements of DeleteFriend. *)
LEMMA DeleteStep == ASSUME FriendInv, NEW c \in FriendCalls, DeleteFriend(c) PROVE FriendInv'
<1> DEFINE p == txs[c].pair
<1>1. /\ txs[c] \in TxRecords /\ txs[c].op = "DeleteFriend" /\ p \in Pairs /\ UNCHANGED <<rows, asked>>
      /\ Back(p) \in Pairs /\ Back(Back(p)) = p /\ Back(p) # p /\ txs[c].todo \in Seq(FriendPuts)
  BY TwoRows DEF DeleteFriend, FriendInv, FriendTypes, TxShape, TxRecords
<1>2. CASE txs[c].at = "mark" /\ MarkAcceptedDeleted(c, p, "markOther", "rollback")
  <2>1. CASE SeenBy(c, p) = "accepted"
    <3>1. txs[c].wrote = {} /\ Unlocked(c, p)
      BY <1>2, <2>1 DEF MarkAcceptedDeleted, FriendInv, FriendTypes, TxShape, BeforeWrites
    <3>2. Writes(c, p, "deleted", "markOther", txs[c].todo)
      BY <1>1, <1>2, <2>1 DEF Writes, MarkAcceptedDeleted, FriendInv, FriendTypes, TxRecords
    <3> DEFINE todo == txs[c].todo
    <3>3. PICK t \in TxRecords :
              /\ txs' = [txs EXCEPT ![c] = t]
              /\ t.op = txs[c].op /\ t.pair = txs[c].pair /\ t.wrote = txs[c].wrote \cup {Put(p, "deleted")}
              /\ t.at = "markOther" /\ t.todo = todo /\ t.locks = txs[c].locks \cup {p}
              /\ \A x \in t.wrote : x.pair \in t.locks
              /\ \A d \in FriendCalls \ {c} : t.locks \cap txs[d].locks = {}
      <4>1. /\ p \in Pairs /\ "deleted" \in Statuses /\ todo \in Seq(FriendPuts)
            /\ Writes(c, p, "deleted", "markOther", todo) /\ Unlocked(c, p)
            /\ \A x \in txs[c].wrote : x.pair # p
        BY <1>1, <3>1, <3>2 DEF Statuses
      <4> HIDE DEF p, todo
      <4> QED
        BY <4>1, WritesRow
    <3>4. TxShape(t) /\ ~Accepting(t)
      BY <1>1, <3>1, <3>3 DEF TxShape, Accepting, FriendOps
    <3> QED
      BY <1>1, <3>3, <3>4, TxGoesOn
  <2>2. CASE SeenBy(c, p) # "accepted"
    BY <1>1, <1>2, <2>2, TxEnds DEF MarkAcceptedDeleted
  <2> QED
    BY <2>1, <2>2
<1>3. CASE txs[c].at = "markOther" /\ MarkAcceptedDeleted(c, Back(p), "commit", "commit")
  <2>0. txs[c].wrote = {Put(p, "deleted")} /\ \A x \in txs[c].wrote : x.pair # Back(p)
    BY <1>1, <1>3, PutIs DEF FriendInv, FriendTypes, TxShape
  <2>1. CASE SeenBy(c, Back(p)) = "accepted"
    <3>1. Unlocked(c, Back(p))
      BY <1>3, <2>1 DEF MarkAcceptedDeleted
    <3>2. Writes(c, Back(p), "deleted", "commit", txs[c].todo)
      BY <1>1, <1>3, <2>1 DEF Writes, MarkAcceptedDeleted, FriendInv, FriendTypes, TxRecords
    <3> DEFINE todo == txs[c].todo
    <3>3. PICK t \in TxRecords :
              /\ txs' = [txs EXCEPT ![c] = t]
              /\ t.op = txs[c].op /\ t.pair = txs[c].pair /\ t.wrote = txs[c].wrote \cup {Put(Back(p), "deleted")}
              /\ t.at = "commit" /\ t.todo = todo /\ t.locks = txs[c].locks \cup {Back(p)}
              /\ \A x \in t.wrote : x.pair \in t.locks
              /\ \A d \in FriendCalls \ {c} : t.locks \cap txs[d].locks = {}
      <4>1. /\ Back(p) \in Pairs /\ "deleted" \in Statuses /\ todo \in Seq(FriendPuts)
            /\ Writes(c, Back(p), "deleted", "commit", todo) /\ Unlocked(c, Back(p))
            /\ \A x \in txs[c].wrote : x.pair # Back(p)
        BY <1>1, <2>0, <3>1, <3>2 DEF Statuses
      <4> HIDE DEF p, todo
      <4> QED
        BY <4>1, WritesRow, SMTT(20)
    <3>4. t.wrote = {Put(p, "deleted"), Put(Back(p), "deleted")}
      BY <2>0, <3>3
    <3>5. TxShape(t) /\ ~Accepting(t)
      BY <1>1, <3>3, <3>4 DEF TxShape, Committing, Verdict, Accepting, FriendOps
    <3>6. t.wrote # {Put(p, "deleted")}
      BY <1>1, <3>4, PutIs
    <3> QED
      BY <1>1, <3>3, <3>5, <3>6, TxGoesOn
  <2>2. CASE SeenBy(c, Back(p)) # "accepted"
    <3> DEFINE t == [txs[c] EXCEPT !.at = "commit"]
    <3>1. txs' = [txs EXCEPT ![c] = t]
      BY <1>3, <2>2 DEF MarkAcceptedDeleted, FriendInv, FriendTypes
    <3>2. /\ t \in TxRecords /\ t.op = txs[c].op /\ t.pair = txs[c].pair /\ t.wrote = txs[c].wrote
          /\ t.at = "commit" /\ t.locks = txs[c].locks
      BY <1>1 DEF TxRecords
    <3> HIDE DEF t
    <3>3. TxShape(t) /\ ~Accepting(t)
      BY <1>1, <2>0, <3>2 DEF TxShape, Committing, Verdict, Accepting, FriendOps
    <3>4. /\ \A w \in t.wrote : w.pair \in t.locks
          /\ \A d \in FriendCalls \ {c} : t.locks \cap txs[d].locks = {}
      BY <3>2 DEF FriendInv, LocksHold
    <3>5. rows[Back(t.pair)] # "accepted"
      BY <2>0, <2>2, <3>2, SeesCommitted
    <3> QED
      BY <1>1, <3>1, <3>2, <3>3, <3>4, <3>5, TxGoesOn
  <2> QED
    BY <2>1, <2>2
<1> QED
  BY <1>2, <1>3 DEF DeleteFriend

(* What a transaction that commits wrote, with one status or not at all,    *)
(* and what becomes of the rows.                                            *)
LEMMA CommitWrites ==
    ASSUME FriendInv, NEW c \in FriendCalls, CommitTx(c)
    PROVE  LET t == txs[c] IN
           /\ t.op \in FriendOps /\ t.pair \in Pairs /\ Committing(t)
           /\ \A p \in Pairs : (\A w \in t.wrote : w.pair # p) => rows'[p] = rows[p]
           /\ \A w \in t.wrote : rows'[w.pair] = w.status
           /\ \A w \in t.wrote : w.pair \in {t.pair, Back(t.pair)}
           /\ rows' \in [Pairs -> Statuses]
<1> DEFINE t == txs[c]
<1>1. /\ t.op \in FriendOps /\ t.pair \in Pairs /\ Committing(t) /\ t.wrote \in SUBSET FriendPuts
      /\ rows \in [Pairs -> Statuses] /\ rows' = [p \in Pairs |-> SeenBy(c, p)]
  BY DEF CommitTx, FriendInv, FriendTypes, TxShape, TxRecords
<1>2. \A p \in Pairs : (\A w \in t.wrote : w.pair # p) => rows'[p] = rows[p]
  BY <1>1, SeesCommitted
<1>3. \E v \in Statuses : \A w \in t.wrote : w.status = v
  BY <1>1, PutIs DEF Committing, Verdict, Statuses
<1>4. \A w \in t.wrote : SeenBy(c, w.pair) = w.status /\ w.pair \in Pairs /\ w.status \in Statuses
  BY <1>1, <1>3, SeesWritten DEF FriendPuts
<1>5. \A w \in t.wrote : w.pair \in {t.pair, Back(t.pair)}
  BY <1>1, PutIs DEF Committing
<1>6. \A p \in Pairs : SeenBy(c, p) \in Statuses
  <2> TAKE p \in Pairs
  <2>1. CASE \A w \in t.wrote : w.pair # p
    BY <1>1, <2>1, SeesCommitted
  <2>2. CASE \E w \in t.wrote : w.pair = p
    BY <1>4, <2>2
  <2> QED
    BY <2>1, <2>2
<1> QED
  BY <1>1, <1>2, <1>4, <1>5, <1>6

LEMMA CommitStep == ASSUME FriendInv, NEW c \in FriendCalls, CommitTx(c) PROVE FriendInv'
<1> DEFINE t == txs[c]
           p == t.pair
           v == Verdict(t.op)
           Wrote == {w.pair : w \in t.wrote}
<1>1. /\ t.op \in FriendOps /\ p \in Pairs /\ Committing(t)
      /\ \A q \in Pairs : q \notin Wrote => rows'[q] = rows[q]
      /\ \A w \in t.wrote : rows'[w.pair] = w.status
      /\ rows' \in [Pairs -> Statuses]
      /\ Back(p) \in Pairs /\ Back(Back(p)) = p /\ Back(p) # p
  BY CommitWrites, TwoRows
<1>2. txs' = [txs EXCEPT ![c] = NoTx] /\ asked' = AskedAfter(t) /\ t.at = "commit"
  BY DEF CommitTx
<1>3. txs'[c] = NoTx /\ (\A d \in FriendCalls \ {c} : txs'[d] = txs[d])
  BY <1>2 DEF FriendInv, FriendTypes
<1>4. NoTx \in TxRecords /\ TxShape(NoTx) /\ NoTx.wrote = {} /\ NoTx.locks = {} /\ NoTx.at = "idle" /\ ~Accepting(NoTx)
  BY DEF TxRecords, TxShape, NoTx, Accepting
<1>5. Wrote \subseteq t.locks
  BY DEF FriendInv, LocksHold
<1>6. Committing(t) => \/ t.op = "AddFriend" /\ t.wrote = {}
                       \/ t.op = "AddFriend" /\ t.wrote = {Put(p, "pending")} /\ Wrote = {p}
                       \/ t.op = "DeleteFriend" /\ t.wrote = {Put(p, "deleted")} /\ Wrote = {p}
                       \/ t.wrote = {Put(p, v), Put(Back(p), v)} /\ Wrote = {p, Back(p)}
  BY PutIs DEF Committing, Verdict
<1>7. asked \ Wrote \subseteq asked'
  BY <1>1, <1>2, <1>6 DEF AskedAfter, FriendOps
<1>8. FriendTypes'
  BY <1>1, <1>2, <1>3, <1>4 DEF FriendInv, FriendTypes
<1>9. LocksHold'
  BY <1>3, <1>4 DEF FriendInv, LocksHold
<1>10. OtherAsked'
  BY <1>3, <1>4, <1>5, <1>7 DEF FriendInv, OtherAsked, LocksHold
<1>11. \A q \in Pairs : rows'[q] = "accepted" => \/ rows[q] = "accepted" /\ q \notin Wrote
                                                 \/ /\ q \in {p, Back(p)} /\ v = "accepted"
                                                    /\ t.wrote = {Put(p, v), Put(Back(p), v)}
  BY <1>1, <1>6, PutIs
<1>12. OtherNotFriend'
  <2> SUFFICES ASSUME NEW d \in FriendCalls \ {c}, txs[d].at = "commit", txs[d].wrote = {Put(txs[d].pair, "deleted")},
                      rows'[Back(txs[d].pair)] = "accepted"
               PROVE  FALSE
    BY <1>3, <1>4 DEF OtherNotFriend
  <2> DEFINE q == txs[d].pair
  <2>1. q \in Pairs /\ Back(q) \in Pairs /\ Back(Back(q)) = q /\ q \in txs[d].locks /\ rows[Back(q)] # "accepted"
    BY TwoRows, PutIs DEF FriendInv, FriendTypes, TxShape, LocksHold, OtherNotFriend
  <2>2. Back(q) \in {p, Back(p)} /\ Wrote = {p, Back(p)}
    BY <1>11, <2>1, PutIs
  <2>3. q \in Wrote
    BY <1>1, <2>1, <2>2
  <2> QED
    BY <1>5, <2>1, <2>3 DEF FriendInv, LocksHold
<1>13. v = "accepted" /\ t.wrote = {Put(p, v), Put(Back(p), v)} => {p, Back(p)} \subseteq asked'
  <2> SUFFICES ASSUME v = "accepted", t.wrote = {Put(p, v), Put(Back(p), v)}
               PROVE  {p, Back(p)} \subseteq asked'
    OBVIOUS
  <2>1. CASE t.op = "EnsureFriendship"
    BY <1>2, <2>1 DEF AskedAfter
  <2>2. CASE t.op \in {"AddFriend", "Accept"}
    <3>1. Accepting(t)
      BY <1>2, <2>2 DEF Accepting
    <3> QED
      BY <1>2, <2>2, <3>1 DEF AskedAfter, FriendInv, OtherAsked
  <2> QED
    BY <1>1, <2>1, <2>2 DEF Verdict, FriendOps
<1>14. FriendsByConsent'
  <2> SUFFICES ASSUME NEW q \in Pairs, rows'[q] = "accepted"
               PROVE  {q, Back(q)} \subseteq asked'
    BY DEF FriendsByConsent
  <2>1. CASE q \in {p, Back(p)} /\ v = "accepted" /\ t.wrote = {Put(p, v), Put(Back(p), v)}
    BY <1>1, <1>13, <2>1
  <2>2. CASE rows[q] = "accepted" /\ q \notin Wrote
    <3>1. {q, Back(q)} \subseteq asked
      BY <2>2 DEF FriendInv, FriendsByConsent
    <3>2. CASE Back(q) \notin Wrote
      BY <1>7, <2>2, <3>1, <3>2
    <3>3. CASE Back(q) \in Wrote
      <4>1. Back(Back(q)) = q /\ Back(q) \in Pairs
        BY TwoRows
      <4>2. Back(q) = p /\ q = Back(p)
        BY <1>1, <1>6, <2>2, <3>3, <4>1
      <4>3. t.op = "AddFriend" \/ (t.op = "DeleteFriend" /\ t.wrote = {Put(p, "deleted")})
        BY <1>1, <1>6, <2>2, <4>2
      <4>4. t.op = "AddFriend"
        BY <1>2, <2>2, <4>2, <4>3 DEF FriendInv, OtherNotFriend
      <4> QED
        BY <1>2, <3>1, <4>4 DEF AskedAfter
    <3> QED
      BY <3>2, <3>3
  <2> QED
    BY <1>11, <2>1, <2>2
<1>15. PendingIsAsked'
  <2> SUFFICES ASSUME NEW q \in Pairs, rows'[q] = "pending"
               PROVE  q \in asked'
    BY <1>14 DEF PendingIsAsked, FriendsByConsent
  <2>1. CASE q \notin Wrote
    BY <1>1, <1>7, <2>1 DEF FriendInv, PendingIsAsked
  <2>2. CASE q \in Wrote
    <3>1. t.op = "AddFriend" /\ q = p
      BY <1>1, <1>6, <2>2, PutIs DEF Verdict
    <3> QED
      BY <1>2, <3>1 DEF AskedAfter
  <2> QED
    BY <2>1, <2>2
<1> QED
  BY <1>8, <1>9, <1>10, <1>12, <1>14, <1>15 DEF FriendInv

(* Every statement of every transaction preserves the invariant. *)
LEMMA FriendStep == FriendInv /\ [FriendsNext]_friendsVars => FriendInv'
<1> SUFFICES ASSUME FriendInv, [FriendsNext]_friendsVars
             PROVE  FriendInv'
  OBVIOUS
<1>1. ASSUME NEW c \in FriendCalls, NEW op \in DOMAIN FirstStatement, NEW p \in Pairs, BeginTx(c, op, p)
      PROVE  FriendInv'
  <2>1. op \in FriendOps
    BY DEF FirstStatement, FriendOps
  <2> QED
    BY <1>1, <2>1, BeginTxStep
<1>2. ASSUME NEW c \in FriendCalls, RollbackTx(c)
      PROVE  FriendInv'
  BY <1>2, TxEnds DEF RollbackTx
<1>3. CASE UNCHANGED friendsVars
  BY <1>3 DEF friendsVars, FriendInv, FriendTypes, LocksHold, OtherAsked, OtherNotFriend, PendingIsAsked, FriendsByConsent
<1> QED
  BY <1>1, <1>2, <1>3, ExistingStep, ReverseStep, DecideStep, DeleteStep, UpsertStep, CommitStep DEF FriendsNext

(* Nobody is made a friend against his will, however the transactions on a  *)
(* pair's two rows interleave, wait for each other and are rolled back.     *)
THEOREM FriendsConsent == FriendsSpec => []FriendsByConsent
<1>1. FriendInv => FriendsByConsent
  BY DEF FriendInv
<1> QED
  BY <1>1, FriendsInitially, FriendStep, PTL DEF FriendsSpec


-----------------------------------------------------------------------------
(*                                  Pull                                   *)

ScrollStates ==
    [order : Orders, from : Nat, to : Nat, got : Seq(Nat), isEnd : BOOLEAN, top : Nat,
     at : {"idle", "bounds", "page"}, callFrom : Nat, callTo : Nat, callMax : Nat]

PullTypes ==
    /\ maxSeq \in Nat /\ rowSeqs \subseteq 1 .. maxSeq
    /\ single \in BOOLEAN /\ visibleStart \in 0 .. 1
    /\ scrolls \in [Readers -> ScrollStates]

(* Cursors lie within the conversation; a scroll down that has rows and has *)
(* not ended has a row to come.                                             *)
CursorsInRange(s) ==
    /\ s.from >= 1
    /\ s.order = "asc" => s.to = 0 /\ s.from <= maxSeq + 1
    /\ s.order = "desc" => /\ s.from = 1 /\ s.top <= maxSeq
                           /\ s.isEnd => s.at = "idle"
                           /\ ~s.isEnd => IF s.got = <<>> THEN s.to = 0 /\ s.top = 0
                                          ELSE s.to <= s.top /\ \E q \in Visible : q <= s.to

(* The bounds of a call are those of its reader, cut to what existed and to *)
(* what the user may see.                                                   *)
CallInRange(s) ==
    s.at # "idle" =>
        /\ s.callTo \in 1 .. maxSeq
        /\ s.to # 0 => s.callTo = s.to
        /\ IF s.at = "bounds" THEN s.callFrom = s.from
           ELSE /\ s.from <= s.callFrom /\ s.callFrom <= maxSeq + 1
                /\ single \/ s.callFrom > visibleStart
                /\ s.callFrom = s.from \/ (~single /\ s.callFrom = visibleStart + 1)

(* What PagesExact and EndMeansAll say of one scroll. *)
PagesOf(s) ==
    /\ InSeqOrder(s.order, s.got)
    /\ ToSet(s.got) = IF s.order = "asc" THEN {q \in Visible : q < s.from}
                      ELSE {q \in Visible : s.to < q /\ q <= s.top}
EndOf(s) == s.isEnd /\ s.order = "desc" => {q \in Visible : q <= s.top} \subseteq ToSet(s.got)

ScrollSound(s) == CursorsInRange(s) /\ CallInRange(s) /\ PagesOf(s) /\ EndOf(s)

PullInv == PullTypes /\ \A r \in Readers : ScrollSound(scrolls[r])

LEMMA BeforeIs ==
    ASSUME NEW order \in Orders
    PROVE  /\ \A p, q \in Nat : Before(order, p, q) => ~Before(order, q, p) /\ p # q
           /\ \A p, q \in Nat : p = q \/ Before(order, p, q) \/ Before(order, q, p)
  BY DEF Before, Orders

LEMMA InToSet ==
    ASSUME NEW s, NEW x PROVE x \in ToSet(s) <=> \E i \in DOMAIN s : s[i] = x
  BY DEF ToSet

(* A page is the rows up to its last one, and all of them when the query    *)
(* found no row more than the limit.                                        *)
IsPage(page, found, order, hits, limit) ==
    /\ page \in Seq(hits) /\ InSeqOrder(order, page) /\ Len(found) \in Nat
    /\ page = <<>> => hits = {}
    /\ page # <<>> => /\ page[Len(page)] \in hits
                      /\ ToSet(page) = {q \in hits : q = page[Len(page)] \/ Before(order, q, page[Len(page)])}
    /\ Len(found) <= limit => ToSet(page) = hits
    /\ Len(found) > limit => page # <<>> /\ \E q \in hits : Before(order, page[Len(page)], q)

LEMMA PageIs ==
    ASSUME NEW hits \in SUBSET Nat, NEW order \in Orders, NEW limit \in Nat \ {0},
           NEW found \in FirstOnes(order, hits, limit + 1), NEW page, page = FirstOf(found, limit)
    PROVE  IsPage(page, found, order, hits, limit)
<1>1. PICK m \in 0 .. limit + 1 : found \in [1 .. m -> hits]
  BY DEF FirstOnes
<1>2. /\ found \in Seq(hits) /\ Len(found) = m /\ m \in Nat /\ DOMAIN found = 1 .. m
      /\ \A i \in 1 .. m : found[i] \in hits /\ found[i] \in Nat
  <2>1. m \in Nat
    OBVIOUS
  <2>2. found \in Seq(hits)
    BY <1>1, <2>1, IsASeq
  <2>3. DOMAIN found = 1 .. Len(found) /\ Len(found) \in Nat /\ DOMAIN found = 1 .. m
    BY <1>1, <2>2
  <2>4. Len(found) = m
    <3>1. PICK n \in Nat : n = Len(found)
      BY <2>3
    <3>2. \A i \in Nat : i \in 1 .. m <=> i \in 1 .. n
      BY <2>3, <3>1
    <3>3. ~(m < n) /\ ~(n < m)
      BY <2>1, <3>2
    <3> QED
      BY <2>1, <3>1, <3>3
  <2>5. \A i \in 1 .. m : found[i] \in hits /\ found[i] \in Nat
    BY <1>1
  <2> QED
    BY <2>1, <2>2, <2>3, <2>4, <2>5
<1>3. /\ \A i, j \in 1 .. m : i < j => Before(order, found[i], found[j])
      /\ \A q \in hits : \/ \E i \in 1 .. m : found[i] = q
                         \/ m = limit + 1 /\ \A i \in 1 .. m : Before(order, found[i], q)
  BY <1>2 DEF FirstOnes, InSeqOrder, ToSet
<1>4. PICK z \in Nat : z = IF m > limit THEN limit ELSE m
  BY <1>2
<1>5. /\ page \in Seq(hits) /\ Len(page) = z /\ DOMAIN page = 1 .. z
      /\ \A i \in 1 .. z : page[i] = found[i] /\ i \in 1 .. m
  <2>1. CASE m > limit
    BY <1>2, <1>4, <2>1, SubSeqProperties DEF FirstOf
  <2>2. CASE ~(m > limit)
    BY <1>2, <1>4, <2>2 DEF FirstOf
  <2> QED
    BY <2>1, <2>2
<1>5a. \A q : q \in ToSet(page) <=> \E i \in 1 .. z : page[i] = q
  BY <1>5, InToSet
<1>6. InSeqOrder(order, page)
  BY <1>3, <1>5 DEF InSeqOrder
<1>7. ASSUME page = <<>> PROVE hits = {} /\ m = 0
  <2>1. z = 0
    BY <1>5, <1>7
  <2>2. m = 0
    BY <1>4, <2>1
  <2> QED
    BY <1>3, <2>2
<1>8. ASSUME m <= limit PROVE ToSet(page) = hits
  <2>1. z = m
    BY <1>2, <1>4, <1>8
  <2>2. \A q \in hits : \E i \in 1 .. z : page[i] = q
    BY <1>2, <1>3, <1>5, <1>8, <2>1
  <2>3. \A i \in 1 .. z : page[i] \in hits
    BY <1>2, <1>5
  <2> QED
    BY <1>5a, <2>2, <2>3
<1>9. ASSUME page # <<>>
      PROVE  /\ z \in 1 .. z /\ page[z] \in hits
             /\ ToSet(page) = {q \in hits : q = page[z] \/ Before(order, q, page[z])}
  <2>1. z \in 1 .. z
    BY <1>5, <1>9
  <2>2. page[z] = found[z] /\ z \in 1 .. m /\ page[z] \in hits /\ page[z] \in Nat
    BY <1>2, <1>5, <2>1
  <2>3. \A i \in 1 .. z : page[i] \in hits /\ (page[i] = page[z] \/ Before(order, page[i], page[z]))
    <3> TAKE i \in 1 .. z
    <3>1. page[i] \in hits
      BY <1>2, <1>5
    <3>2. CASE i < z
      BY <1>3, <1>5, <2>2, <3>1, <3>2
    <3> QED
      BY <3>1, <3>2
  <2>4. ASSUME NEW q \in hits, q = page[z] \/ Before(order, q, page[z])
        PROVE  \E i \in 1 .. z : page[i] = q
    <3>1. ~Before(order, page[z], q)
      BY <2>2, <2>4, BeforeIs
    <3>2. PICK i \in 1 .. m : found[i] = q
      BY <1>3, <2>2, <3>1
    <3>3. ~(z < i)
      BY <1>3, <2>2, <3>1, <3>2
    <3>4. i \in 1 .. z
      BY <3>3
    <3> QED
      BY <1>5, <3>2, <3>4
  <2>5. \A q : q \in ToSet(page) <=> q \in hits /\ (q = page[z] \/ Before(order, q, page[z]))
    BY <1>5a, <2>3, <2>4
  <2>6. ToSet(page) = {q \in hits : q = page[z] \/ Before(order, q, page[z])}
    BY <2>5
  <2> QED
    BY <2>1, <2>2, <2>6
<1>10. ASSUME m > limit PROVE page # <<>> /\ \E q \in hits : Before(order, page[z], q)
  <2>1. z = limit /\ m = limit + 1 /\ z \in 1 .. z
    BY <1>1, <1>4, <1>10
  <2>2. page[z] = found[z] /\ z \in 1 .. m /\ m \in 1 .. m /\ z < m
    BY <1>5, <2>1
  <2>3. Before(order, found[z], found[m]) /\ found[m] \in hits
    BY <1>2, <1>3, <2>2
  <2>4. page # <<>>
    BY <1>5, <2>1
  <2> QED
    BY <2>2, <2>3, <2>4
<1>11. page = <<>> \/ page # <<>>
  OBVIOUS
<1>12. CASE m <= limit
  BY <1>2, <1>5, <1>6, <1>7, <1>8, <1>9, <1>12 DEF IsPage
<1>13. CASE m > limit
  BY <1>2, <1>5, <1>6, <1>9, <1>10, <1>13 DEF IsPage
<1> QED
  BY <1>2, <1>12, <1>13

(* A page put after what the reader has. *)
LEMMA PageAfter ==
    ASSUME NEW order \in Orders, NEW got \in Seq(Nat), NEW page \in Seq(Nat),
           InSeqOrder(order, got), InSeqOrder(order, page),
           \A p \in ToSet(got), q \in ToSet(page) : Before(order, p, q)
    PROVE  /\ got \o page \in Seq(Nat) /\ InSeqOrder(order, got \o page)
           /\ ToSet(got \o page) = ToSet(got) \cup ToSet(page)
<1>1. PICK m, n \in Nat : m = Len(got) /\ n = Len(page)
  OBVIOUS
<1>2. PICK all \in Seq(Nat) : all = got \o page
  BY ConcatProperties
<1>3. /\ Len(all) = m + n /\ DOMAIN all = 1 .. m + n /\ DOMAIN got = 1 .. m /\ DOMAIN page = 1 .. n
      /\ \A i \in 1 .. m : all[i] = got[i]
      /\ \A i \in 1 .. n : all[m + i] = page[i]
  BY <1>1, <1>2, ConcatProperties
<1>4. \A i \in 1 .. m + n : i \in 1 .. m \/ (i - m \in 1 .. n /\ i = m + (i - m))
  BY <1>1
<1>5. \A i \in 1 .. m + n : i \in 1 .. m \/ (i - m \in 1 .. n /\ all[i] = page[i - m])
  BY <1>3, <1>4
<1>6. ToSet(all) = ToSet(got) \cup ToSet(page)
  <2>1. \A i \in 1 .. m : i \in 1 .. m + n
    BY <1>1
  <2>2. \A i \in 1 .. n : m + i \in 1 .. m + n
    BY <1>1
  <2> QED
    BY <1>3, <1>5, <2>1, <2>2, InToSet, SMTT(20)
<1>7. InSeqOrder(order, all)
  <2> SUFFICES ASSUME NEW i \in 1 .. m + n, NEW j \in 1 .. m + n, i < j
               PROVE  Before(order, all[i], all[j])
    BY <1>3 DEF InSeqOrder
  <2>1. CASE j \in 1 .. m
    <3>1. i \in 1 .. m
      BY <2>1
    <3> QED
      BY <1>3, <2>1, <3>1 DEF InSeqOrder
  <2>2. CASE i \in 1 .. m /\ j \notin 1 .. m
    <3>1. j - m \in 1 .. n /\ all[j] = page[j - m]
      BY <1>5, <2>2
    <3> QED
      BY <1>3, <2>2, <3>1 DEF ToSet
  <2>3. CASE i \notin 1 .. m
    <3>1. i - m \in 1 .. n /\ all[i] = page[i - m] /\ j - m \in 1 .. n /\ all[j] = page[j - m] /\ i - m < j - m
      <4>1. j \notin 1 .. m /\ i - m < j - m
        BY <2>3
      <4>2. i - m \in 1 .. n /\ all[i] = page[i - m]
        BY <1>5, <2>3
      <4>3. j - m \in 1 .. n /\ all[j] = page[j - m]
        BY <1>5, <4>1
      <4> QED
        BY <4>1, <4>2, <4>3
    <3> QED
      BY <1>3, <3>1 DEF InSeqOrder
  <2> QED
    BY <2>1, <2>2, <2>3
<1> QED
  BY <1>2, <1>6, <1>7

(* The user's bound is repaired, which hides nothing from a single chat. *)
BoundKept == visibleStart' = visibleStart \/ (single /\ visibleStart' = 0)

LEMMA VisibleKept ==
    ASSUME UNCHANGED threadVars, BoundKept PROVE Visible' = Visible
  BY DEF threadVars, BoundKept, Visible

LEMMA ScrollKept ==
    ASSUME PullTypes, NEW s \in ScrollStates, ScrollSound(s), UNCHANGED threadVars, BoundKept
    PROVE  ScrollSound(s)'
<1>1. Visible' = Visible
  BY VisibleKept
<1>2. PagesOf(s)' /\ EndOf(s)'
  BY <1>1 DEF ScrollSound, PagesOf, EndOf
<1>3. CursorsInRange(s)'
  BY <1>1 DEF ScrollSound, CursorsInRange, threadVars
<1>4. CallInRange(s)'
  BY DEF ScrollSound, CallInRange, threadVars, BoundKept, PullTypes, ScrollStates
<1> QED
  BY <1>2, <1>3, <1>4 DEF ScrollSound

(* A step of one reader. *)
LEMMA OneScroll ==
    ASSUME PullInv, NEW r \in Readers, NEW t \in ScrollStates, scrolls' = [scrolls EXCEPT ![r] = t],
           UNCHANGED threadVars, BoundKept, ScrollSound(t)'
    PROVE  PullInv'
<1>1. PullTypes /\ scrolls \in [Readers -> ScrollStates]
  BY DEF PullInv, PullTypes
<1>2. PullTypes'
  BY <1>1 DEF PullTypes, threadVars, BoundKept
<1>3. ASSUME NEW d \in Readers PROVE ScrollSound(scrolls[d])'
  <2>1. CASE d = r
    <3>1. scrolls'[d] = t
      BY <1>1, <2>1
    <3> QED
      BY <3>1 DEF ScrollSound, CursorsInRange, CallInRange, PagesOf, EndOf
  <2>2. CASE d # r
    <3>1. PICK s \in ScrollStates : s = scrolls[d]
      BY <1>1
    <3>2. scrolls'[d] = s
      BY <1>1, <2>2, <3>1
    <3>3. ScrollSound(s)
      BY <3>1 DEF PullInv
    <3>4. ScrollSound(s)'
      BY <1>1, <3>3, ScrollKept
    <3> QED
      BY <3>2, <3>4 DEF ScrollSound, CursorsInRange, CallInRange, PagesOf, EndOf
  <2> QED
    BY <2>1, <2>2
<1> QED
  BY <1>2, <1>3 DEF PullInv

LEMMA AppendRowsKeeps ==
    ASSUME PullInv, NEW n \in 1 .. 2, NEW dropped, AppendRows(n, dropped)
    PROVE  PullInv'
<1>1. PullTypes
  BY DEF PullInv
<1>2. /\ maxSeq \in Nat /\ maxSeq' = maxSeq + n /\ maxSeq' \in Nat /\ maxSeq <= maxSeq'
      /\ rowSeqs \subseteq 1 .. maxSeq /\ UNCHANGED <<single, visibleStart, scrolls>>
  BY <1>1 DEF PullTypes, AppendRows
<1>3. \A q : q \in rowSeqs' => q \in rowSeqs \/ q \in maxSeq + 1 .. maxSeq + n
  BY DEF AppendRows
<1>4. rowSeqs \subseteq rowSeqs'
  BY DEF AppendRows
<1>5. rowSeqs' \subseteq 1 .. maxSeq'
  <2>1. \A q \in 1 .. maxSeq : q \in 1 .. maxSeq'
    BY <1>2
  <2>2. \A q \in maxSeq + 1 .. maxSeq + n : q \in 1 .. maxSeq' /\ q \in Nat /\ q > maxSeq
    BY <1>2
  <2> QED
    BY <1>2, <1>3, <2>1, <2>2
<1>6. PullTypes'
  BY <1>1, <1>2, <1>5 DEF PullTypes
<1>7. \A q : q \in Visible' => (q \in Visible /\ q \in 1 .. maxSeq) \/ (q \in Nat /\ q > maxSeq)
  <2>1. \A q \in maxSeq + 1 .. maxSeq + n : q \in Nat /\ q > maxSeq
    BY <1>2
  <2> QED
    BY <1>2, <1>3, <2>1 DEF Visible
<1>8. Visible \subseteq Visible'
  BY <1>2, <1>4 DEF Visible
<1>9. ASSUME NEW r \in Readers PROVE ScrollSound(scrolls[r])'
  <2>1. PICK s \in ScrollStates : s = scrolls[r] /\ s = scrolls'[r]
    BY <1>1, <1>2 DEF PullTypes
  <2>2. ScrollSound(s)
    BY <2>1 DEF PullInv
  <2>3. s.from \in Nat /\ s.to \in Nat /\ s.top \in Nat /\ s.callTo \in Nat /\ s.callFrom \in Nat /\ s.order \in Orders
    BY DEF ScrollStates
  <2>4. CursorsInRange(s)'
    BY <1>2, <1>8, <2>2, <2>3 DEF ScrollSound, CursorsInRange
  <2>5. CallInRange(s)'
    BY <1>2, <2>2, <2>3 DEF ScrollSound, CallInRange
  <2>6. ASSUME s.order = "asc" PROVE PagesOf(s)' /\ EndOf(s)'
    <3>1. s.from <= maxSeq + 1
      BY <2>2, <2>6 DEF ScrollSound, CursorsInRange
    <3>2. {q \in Visible' : q < s.from} = {q \in Visible : q < s.from}
      BY <1>2, <1>7, <1>8, <2>3, <3>1
    <3> QED
      BY <2>2, <2>6, <3>2 DEF ScrollSound, PagesOf, EndOf
  <2>7. ASSUME s.order = "desc" PROVE PagesOf(s)' /\ EndOf(s)'
    <3>1. s.top <= maxSeq
      BY <2>2, <2>7 DEF ScrollSound, CursorsInRange
    <3>2. /\ {q \in Visible' : s.to < q /\ q <= s.top} = {q \in Visible : s.to < q /\ q <= s.top}
          /\ {q \in Visible' : q <= s.top} = {q \in Visible : q <= s.top}
      BY <1>2, <1>7, <1>8, <2>3, <3>1
    <3> QED
      BY <2>2, <2>7, <3>2 DEF ScrollSound, PagesOf, EndOf
  <2>8. PagesOf(s)' /\ EndOf(s)'
    BY <2>2, <2>3, <2>6, <2>7 DEF Orders
  <2> QED
    BY <2>1, <2>4, <2>5, <2>8 DEF ScrollSound, CursorsInRange, CallInRange, PagesOf, EndOf
<1> QED
  BY <1>6, <1>9 DEF PullInv

(* A call of a scroll goes on: its rows and cursors stay. *)
MovedTo(s, a, f, u, m) == [s EXCEPT !.at = a, !.callFrom = f, !.callTo = u, !.callMax = m]

MayMoveTo(s, a, f, u) ==
    /\ s.order = "desc" /\ s.isEnd => a = "idle"
    /\ a # "idle" => /\ u \in 1 .. maxSeq
                     /\ s.to # 0 => u = s.to
                     /\ a = "bounds" => f = s.from
                     /\ a = "page" => /\ s.from <= f /\ f <= maxSeq + 1
                                      /\ single \/ f > visibleStart'
                                      /\ f = s.from \/ (~single /\ f = visibleStart' + 1)

LEMMA CallMoves ==
    ASSUME PullInv, NEW r \in Readers, NEW s \in ScrollStates, s = scrolls[r],
           NEW a \in {"idle", "bounds", "page"}, NEW f \in Nat, NEW u \in Nat, NEW m \in Nat,
           scrolls' = [scrolls EXCEPT ![r] = MovedTo(s, a, f, u, m)],
           UNCHANGED threadVars, BoundKept, MayMoveTo(s, a, f, u)
    PROVE  PullInv'
<1>1. PICK t : t = MovedTo(s, a, f, u, m)
  OBVIOUS
<1>2. /\ t \in ScrollStates /\ t.order = s.order /\ t.from = s.from /\ t.to = s.to /\ t.got = s.got
      /\ t.isEnd = s.isEnd /\ t.top = s.top /\ t.at = a /\ t.callFrom = f /\ t.callTo = u
  BY <1>1 DEF ScrollStates, MovedTo
<1>3. ScrollSound(s) /\ PullTypes
  BY DEF PullInv
<1>4. ScrollSound(s)'
  BY <1>3, ScrollKept
<1>5. PagesOf(t)' /\ EndOf(t)'
  BY <1>2, <1>4 DEF ScrollSound, PagesOf, EndOf
<1>6. CursorsInRange(t)'
  BY <1>2, <1>4 DEF ScrollSound, CursorsInRange, MayMoveTo
<1>7. CallInRange(t)'
  BY <1>2 DEF CallInRange, threadVars, MayMoveTo
<1> QED
  BY <1>1, <1>2, <1>5, <1>6, <1>7, OneScroll DEF ScrollSound

LEMMA RepairKeeps == ASSUME RepairDirect PROVE BoundKept
  BY DEF RepairDirect, BoundKept

LEMMA QuerySeqStateKeeps ==
    ASSUME PullInv, NEW r \in Readers, ~(scrolls[r].order = "desc" /\ scrolls[r].isEnd), QuerySeqState(r)
    PROVE  PullInv'
<1>1. PICK s \in ScrollStates : s = scrolls[r]
  BY DEF PullInv, PullTypes
<1>2. PullTypes /\ ScrollSound(s)
  BY <1>1 DEF PullInv
<1>3. PICK u : u = IF s.to = 0 \/ s.to > maxSeq THEN maxSeq ELSE s.to
  OBVIOUS
<1>4. /\ s.from \in Nat /\ s.to \in Nat /\ s.callMax \in Nat /\ maxSeq \in Nat /\ maxSeq > 0 /\ s.top \in Nat
      /\ s.isEnd \in BOOLEAN
  BY <1>2 DEF PullTypes, ScrollStates, QuerySeqState
<1>5. u \in Nat /\ u \in 1 .. maxSeq
  BY <1>3, <1>4
<1>6. s.to # 0 => s.to <= maxSeq
  <2>1. CASE s.order = "asc"
    BY <1>2, <2>1 DEF ScrollSound, CursorsInRange
  <2>2. CASE s.order = "desc"
    BY <1>1, <1>2, <1>4, <2>2 DEF ScrollSound, CursorsInRange, PullTypes
  <2> QED
    BY <2>1, <2>2 DEF ScrollStates, Orders
<1>7. scrolls' = [scrolls EXCEPT ![r] = [s EXCEPT !.at = "bounds", !.callFrom = s.from, !.callTo = u, !.callMax = s.callMax]]
  BY <1>1, <1>3 DEF QuerySeqState, PullInv, PullTypes, ScrollStates
<1>8. s.to # 0 => u = s.to
  BY <1>3, <1>4, <1>6
<1>9. UNCHANGED threadVars /\ BoundKept
  BY RepairKeeps DEF QuerySeqState
<1>10. ~(s.order = "desc" /\ s.isEnd)
  BY <1>1
<1> QED
  <2>1. MayMoveTo(s, "bounds", s.from, u)
    BY <1>5, <1>8, <1>10 DEF MayMoveTo
  <2>2. scrolls' = [scrolls EXCEPT ![r] = MovedTo(s, "bounds", s.from, u, s.callMax)]
    BY <1>7 DEF MovedTo
  <2>3. u \in Nat /\ s.from \in Nat /\ s.callMax \in Nat /\ "bounds" \in {"idle", "bounds", "page"}
    BY <1>4, <1>5
  <2> QED
    BY <1>1, <1>9, <2>1, <2>2, <2>3, CallMoves

LEMMA UserScopedBoundsKeeps ==
    ASSUME PullInv, NEW r \in Readers, UserScopedBounds(r)
    PROVE  PullInv'
<1>1. PICK s \in ScrollStates : s = scrolls[r]
  BY DEF PullInv, PullTypes
<1>2. PullTypes /\ ScrollSound(s) /\ s.at = "bounds"
  BY <1>1 DEF PullInv, UserScopedBounds
<1>3. PICK v \in Nat : v = visibleStart' /\ v <= 1 /\ (single => v = 0)
  BY <1>2 DEF UserScopedBounds, RepairDirect, PullTypes
<1>4. PICK f : f = IF s.callFrom <= v THEN v + 1 ELSE s.callFrom
  OBVIOUS
<1>5. PICK u : u = IF s.callTo = 0 \/ s.callTo > maxSeq THEN maxSeq ELSE s.callTo
  OBVIOUS
<1>6. /\ s.from \in Nat /\ s.callFrom \in Nat /\ s.callTo \in 1 .. maxSeq /\ maxSeq \in Nat /\ s.from >= 1
      /\ s.callFrom = s.from /\ (s.to # 0 => s.callTo = s.to)
  BY <1>2 DEF PullTypes, ScrollStates, ScrollSound, CallInRange, CursorsInRange
<1>7. u = s.callTo
  BY <1>5, <1>6
<1>8. s.from <= maxSeq + 1
  BY <1>2, <1>6 DEF ScrollSound, CursorsInRange, ScrollStates, Orders
<1>9. /\ f \in Nat /\ s.from <= f /\ f <= maxSeq + 1 /\ (single \/ f > v)
      /\ f = s.from \/ (~single /\ f = v + 1)
  <2>1. f \in Nat /\ s.from <= f /\ f <= maxSeq + 1 /\ f > v /\ (f = s.from \/ (f = v + 1 /\ v # 0))
    <3>1. v \in Nat /\ v <= 1
      BY <1>3
    <3> QED
      BY <1>4, <1>6, <1>8, <3>1
  <2> QED
    BY <1>3, <2>1
<1>10. scrolls' = [scrolls EXCEPT ![r] = [s EXCEPT !.at = "page", !.callFrom = f, !.callTo = u, !.callMax = maxSeq]]
  BY <1>1, <1>3, <1>4, <1>5, SMTT(10), ZenonT(30) DEF UserScopedBounds, PullInv, PullTypes, ScrollStates
<1>11. UNCHANGED threadVars /\ BoundKept
  BY RepairKeeps DEF UserScopedBounds
<1>12. ~(s.order = "desc" /\ s.isEnd)
  BY <1>2 DEF ScrollSound, CursorsInRange
<1>13. u \in Nat /\ u \in 1 .. maxSeq /\ (s.to # 0 => u = s.to)
  BY <1>6, <1>7
<1> QED
  <2>1. MayMoveTo(s, "page", f, u)
    BY <1>3, <1>9, <1>12, <1>13 DEF MayMoveTo
  <2>2. scrolls' = [scrolls EXCEPT ![r] = MovedTo(s, "page", f, u, maxSeq)]
    BY <1>10 DEF MovedTo
  <2>3. u \in Nat /\ f \in Nat /\ maxSeq \in Nat /\ "page" \in {"idle", "bounds", "page"}
    BY <1>6, <1>9, <1>13
  <2> QED
    BY <1>1, <1>11, <2>1, <2>2, <2>3, CallMoves

LEMMA PullFailsKeeps ==
    ASSUME PullInv, NEW r \in Readers, PullFails(r)
    PROVE  PullInv'
<1>1. PICK s \in ScrollStates : s = scrolls[r]
  BY DEF PullInv, PullTypes
<1>2. s.callFrom \in Nat /\ s.callTo \in Nat /\ s.callMax \in Nat
  BY DEF ScrollStates
<1>3. scrolls' = [scrolls EXCEPT ![r] =
                     [s EXCEPT !.at = "idle", !.callFrom = s.callFrom, !.callTo = s.callTo, !.callMax = s.callMax]]
  BY <1>1 DEF PullFails, PullInv, PullTypes, ScrollStates
<1>4. UNCHANGED threadVars /\ BoundKept
  BY DEF PullFails, BoundKept
<1> QED
  <2>1. MayMoveTo(s, "idle", s.callFrom, s.callTo)
    BY DEF MayMoveTo
  <2>2. scrolls' = [scrolls EXCEPT ![r] = MovedTo(s, "idle", s.callFrom, s.callTo, s.callMax)]
    BY <1>3 DEF MovedTo
  <2>3. "idle" \in {"idle", "bounds", "page"}
    OBVIOUS
  <2> QED
    BY <1>1, <1>2, <1>4, <2>1, <2>2, <2>3, CallMoves

LEMMA EmptyPage ==
    ASSUME NEW order, NEW limit \in Nat, NEW hits, hits = {}
    PROVE  IsPage(<<>>, <<>>, order, hits, limit)
<1>1. <<>> \in Seq(hits) /\ Len(<<>>) = 0 /\ DOMAIN <<>> = {}
  OBVIOUS
<1>2. ToSet(<<>>) = {}
  BY <1>1, InToSet
<1>3. InSeqOrder(order, <<>>)
  BY <1>1 DEF InSeqOrder
<1>4. ~(Len(<<>>) > limit)
  BY <1>1
<1> QED
  BY <1>1, <1>2, <1>3, <1>4 DEF IsPage

(* The rows a call may return. *)
Hits(s) == {q \in rowSeqs : s.callFrom <= q /\ q <= s.callTo}

(* The scroll t is s after a page. *)
WithPage(s, t, page, found, limit) ==
    /\ t.order = s.order /\ t.at = "idle" /\ t.got = s.got \o page /\ t.isEnd = (Len(found) <= limit)
    /\ t.from = (IF s.order = "asc" THEN NextSeq(page, s.callFrom, s.order) ELSE s.from)
    /\ t.to = (IF s.order = "desc" THEN NextSeq(page, s.callFrom, s.order) ELSE s.to)
    /\ t.top = (IF s.got = <<>> THEN s.callTo ELSE s.top)

(* A call sees what the user may see, from the cursor on. *)
LEMMA HitsAreVisible ==
    ASSUME PullTypes, NEW s \in ScrollStates, ScrollSound(s), s.at = "page"
    PROVE  /\ Hits(s) = {q \in Visible : s.callFrom <= q /\ q <= s.callTo}
           /\ \A q \in Visible : q \in 1 .. maxSeq /\ (s.from <= q => s.callFrom <= q)
           /\ s.callFrom \in Nat /\ s.callTo \in Nat /\ s.callTo <= maxSeq /\ s.from \in Nat /\ s.to \in Nat /\ s.top \in Nat
           /\ s.from <= s.callFrom /\ s.callFrom <= maxSeq + 1 /\ maxSeq \in Nat /\ s.from >= 1
<1>1. /\ s.callFrom \in Nat /\ s.callTo \in Nat /\ s.callTo <= maxSeq /\ s.from \in Nat /\ s.to \in Nat /\ s.top \in Nat
      /\ s.from <= s.callFrom /\ s.callFrom <= maxSeq + 1 /\ maxSeq \in Nat /\ s.from >= 1
      /\ visibleStart \in Nat /\ rowSeqs \subseteq 1 .. maxSeq
  BY DEF PullTypes, ScrollStates, ScrollSound, CursorsInRange, CallInRange
<1>2. /\ single \/ s.callFrom > visibleStart
      /\ s.callFrom = s.from \/ (~single /\ s.callFrom = visibleStart + 1)
  BY DEF ScrollSound, CallInRange
<1>3. \A q \in Visible : q \in rowSeqs /\ q \in 1 .. maxSeq /\ (single \/ q > visibleStart)
  BY <1>1 DEF Visible
<1>4. ASSUME NEW q \in Visible, s.from <= q PROVE s.callFrom <= q
  <2>1. CASE s.callFrom = s.from
    BY <1>4, <2>1
  <2>2. CASE ~single /\ s.callFrom = visibleStart + 1
    <3>1. q > visibleStart /\ q \in Nat
      BY <1>3, <2>2
    <3> QED
      BY <1>1, <2>2, <3>1
  <2> QED
    BY <1>2, <2>1, <2>2
<1>5. ASSUME NEW q \in rowSeqs, s.callFrom <= q PROVE q \in Visible
  <2>1. q \in Nat
    BY <1>1
  <2>2. CASE s.callFrom > visibleStart
    BY <1>1, <1>5, <2>1, <2>2 DEF Visible
  <2>3. CASE single
    BY <2>3 DEF Visible
  <2> QED
    BY <1>2, <2>2, <2>3
<1>6. Hits(s) = {q \in Visible : s.callFrom <= q /\ q <= s.callTo}
  BY <1>3, <1>5 DEF Hits
<1> QED
  BY <1>1, <1>3, <1>4, <1>6

LEMMA PageUp ==
    ASSUME PullTypes, NEW s \in ScrollStates, ScrollSound(s), s.at = "page", s.order = "asc",
           NEW t \in ScrollStates, NEW found, NEW limit \in Nat, NEW page,
           IsPage(page, found, s.order, Hits(s), limit), WithPage(s, t, page, found, limit)
    PROVE  ScrollSound(t)
<1>1. PICK H : H = Hits(s)
  OBVIOUS
<1>2. PICK V : V = Visible
  OBVIOUS
<1>3. /\ H = {q \in V : s.callFrom <= q /\ q <= s.callTo}
      /\ \A q \in V : q \in Nat /\ q >= 1 /\ q <= maxSeq /\ (s.from <= q => s.callFrom <= q)
      /\ s.callFrom \in Nat /\ s.callTo \in Nat /\ s.callTo <= maxSeq /\ s.from \in Nat
      /\ s.from <= s.callFrom /\ s.callFrom <= maxSeq + 1 /\ maxSeq \in Nat /\ s.from >= 1
  BY <1>1, <1>2, HitsAreVisible
<1>4. s.got \in Seq(Nat) /\ InSeqOrder("asc", s.got) /\ ToSet(s.got) = {q \in V : q < s.from} /\ s.to = 0
  BY <1>2 DEF ScrollStates, ScrollSound, PagesOf, CursorsInRange
<1>5. /\ page \in Seq(H) /\ InSeqOrder("asc", page) /\ (page = <<>> => H = {})
      /\ page # <<>> => /\ page[Len(page)] \in H
                        /\ ToSet(page) = {q \in H : q = page[Len(page)] \/ Before("asc", q, page[Len(page)])}
  BY <1>1 DEF IsPage
<1>6. page \in Seq(Nat)
  BY <1>3, <1>5
<1>7. \A q \in ToSet(page) : q \in H
  BY <1>5, InToSet
<1>8. \A p \in ToSet(s.got), q \in ToSet(page) : Before("asc", p, q)
  BY <1>3, <1>4, <1>7 DEF Before
<1>9. "asc" \in Orders
  BY DEF Orders
<1>10. InSeqOrder("asc", s.got \o page) /\ ToSet(s.got \o page) = ToSet(s.got) \cup ToSet(page)
  BY <1>4, <1>5, <1>6, <1>8, <1>9, PageAfter
<1>11. /\ t.order = "asc" /\ t.got = s.got \o page /\ t.to = 0 /\ t.at = "idle"
       /\ t.from = NextSeq(page, s.callFrom, "asc")
  BY <1>4 DEF WithPage
<1>12. /\ ToSet(s.got) \cup ToSet(page) = {q \in V : q < t.from}
       /\ t.from >= 1 /\ t.from <= maxSeq + 1
  <2>1. CASE page = <<>>
    <3>1. t.from = s.callFrom /\ H = {} /\ ToSet(page) = {}
      BY <1>5, <1>7, <1>11, <2>1 DEF NextSeq
    <3>2. \A q \in V : q < s.from <=> q < s.callFrom
      BY <1>3
    <3> QED
      BY <1>3, <1>4, <3>1, <3>2
  <2>2. CASE page # <<>>
    <3>1. PICK z : z = page[Len(page)]
      OBVIOUS
    <3>2. t.from = z + 1 /\ z \in H /\ ToSet(page) = {q \in H : q = z \/ Before("asc", q, z)}
      BY <1>5, <1>11, <2>2, <3>1 DEF NextSeq
    <3>3. z \in Nat /\ z >= 1 /\ z <= maxSeq /\ z <= s.callTo /\ s.callFrom <= z
      BY <1>3, <3>2
    <3>4. ASSUME NEW q \in V PROVE q < t.from <=> q \in ToSet(s.got) \/ q \in ToSet(page)
      <4>1. q \in ToSet(page) <=> q \in H /\ (q = z \/ q < z)
        BY <3>2 DEF Before
      <4>2. q \in ToSet(s.got) <=> q < s.from
        BY <1>4
      <4>3. q \in H <=> s.callFrom <= q /\ q <= s.callTo
        BY <1>3
      <4>4. q \in Nat /\ (s.from <= q => s.callFrom <= q)
        BY <1>3
      <4> QED
        BY <1>3, <3>2, <3>3, <4>1, <4>2, <4>3, <4>4
    <3>5. \A q \in ToSet(s.got) \cup ToSet(page) : q \in V
      BY <1>3, <1>4, <1>7
    <3>6. ToSet(s.got) \cup ToSet(page) = {q \in V : q < t.from}
      BY <3>4, <3>5
    <3>7. t.from >= 1 /\ t.from <= maxSeq + 1
      BY <1>3, <3>2, <3>3
    <3> QED
      BY <3>6, <3>7
  <2> QED
    BY <2>1, <2>2
<1>13. PagesOf(t) /\ EndOf(t)
  BY <1>2, <1>10, <1>11, <1>12 DEF PagesOf, EndOf
<1>14. CursorsInRange(t) /\ CallInRange(t)
  BY <1>11, <1>12 DEF CursorsInRange, CallInRange
<1> QED
  BY <1>13, <1>14 DEF ScrollSound

LEMMA PageDown ==
    ASSUME PullTypes, NEW s \in ScrollStates, ScrollSound(s), s.at = "page", s.order = "desc",
           NEW t \in ScrollStates, NEW found, NEW limit \in Nat, NEW page,
           IsPage(page, found, s.order, Hits(s), limit), WithPage(s, t, page, found, limit)
    PROVE  ScrollSound(t)
<1>1. PICK H : H = Hits(s)
  OBVIOUS
<1>2. PICK V : V = Visible
  OBVIOUS
<1>3. /\ H = {q \in V : s.callFrom <= q /\ q <= s.callTo}
      /\ \A q \in V : q \in Nat /\ q >= 1 /\ q <= maxSeq /\ (s.from <= q => s.callFrom <= q)
      /\ s.callFrom \in Nat /\ s.callTo \in Nat /\ s.callTo <= maxSeq /\ s.to \in Nat /\ s.top \in Nat
      /\ maxSeq \in Nat
  BY <1>1, <1>2, HitsAreVisible
<1>4. /\ s.got \in Seq(Nat) /\ InSeqOrder("desc", s.got) /\ ToSet(s.got) = {q \in V : s.to < q /\ q <= s.top}
      /\ s.from = 1 /\ s.top <= maxSeq /\ (s.to # 0 => s.callTo = s.to)
  BY <1>2 DEF ScrollStates, ScrollSound, PagesOf, CursorsInRange, CallInRange
<1>5. IF s.got = <<>> THEN s.to = 0 /\ s.top = 0 ELSE s.to <= s.top /\ \E q \in V : q <= s.to
  <2>1. ~s.isEnd
    BY DEF ScrollSound, CursorsInRange
  <2> QED
    BY <1>2, <2>1 DEF ScrollSound, CursorsInRange
<1>6. /\ page \in Seq(H) /\ InSeqOrder("desc", page) /\ (page = <<>> => H = {}) /\ Len(found) \in Nat
      /\ page # <<>> => /\ page[Len(page)] \in H
                        /\ ToSet(page) = {q \in H : q = page[Len(page)] \/ Before("desc", q, page[Len(page)])}
      /\ Len(found) <= limit => ToSet(page) = H
      /\ Len(found) > limit => page # <<>> /\ \E q \in H : Before("desc", page[Len(page)], q)
  BY <1>1 DEF IsPage
<1>7. \A q \in V : s.callFrom <= q
  BY <1>3, <1>4
<1>8. /\ ToSet(s.got) = {q \in V : s.callTo < q /\ q <= t.top}
      /\ t.top \in Nat /\ s.callTo <= t.top /\ t.top <= maxSeq
  <2>1. CASE s.got = <<>>
    <3>1. t.top = s.callTo /\ s.to = 0 /\ s.top = 0
      BY <1>5, <2>1 DEF WithPage
    <3>2. ToSet(s.got) = {}
      BY <1>3, <1>4, <3>1
    <3>3. {q \in V : s.callTo < q /\ q <= s.callTo} = {}
      BY <1>3
    <3> QED
      BY <1>3, <3>1, <3>2, <3>3
  <2>2. CASE s.got # <<>>
    <3>1. PICK q \in V : q <= s.to
      BY <1>5, <2>2
    <3>2. s.to # 0
      BY <1>3, <3>1
    <3>3. t.top = s.top /\ s.callTo = s.to /\ s.to <= s.top
      BY <1>4, <1>5, <2>2, <3>2 DEF WithPage
    <3> QED
      BY <1>3, <1>4, <3>3
  <2> QED
    BY <2>1, <2>2
<1>9. page \in Seq(Nat)
  BY <1>3, <1>6
<1>10. \A q \in ToSet(page) : q \in H
  BY <1>6, InToSet
<1>11. \A p \in ToSet(s.got), q \in ToSet(page) : Before("desc", p, q)
  BY <1>3, <1>8, <1>10 DEF Before
<1>12. "desc" \in Orders
  BY DEF Orders
<1>13. InSeqOrder("desc", s.got \o page) /\ ToSet(s.got \o page) = ToSet(s.got) \cup ToSet(page)
  BY <1>4, <1>6, <1>9, <1>11, <1>12, PageAfter
<1>14. /\ t.order = "desc" /\ t.got = s.got \o page /\ t.from = 1 /\ t.at = "idle"
       /\ t.to = NextSeq(page, s.callFrom, "desc") /\ t.isEnd = (Len(found) <= limit)
  BY <1>4 DEF WithPage
<1>15. ToSet(s.got) \cup ToSet(page) = {q \in V : t.to < q /\ q <= t.top}
  <2>1. CASE page = <<>>
    <3>1. t.to = s.callFrom /\ H = {} /\ ToSet(page) = {}
      BY <1>6, <1>10, <1>14, <2>1 DEF NextSeq
    <3>2. \A q \in V : ~(q <= s.callTo)
      BY <1>3, <1>7, <3>1
    <3>3. s.got = <<>>
      <4> SUFFICES ASSUME s.got # <<>> PROVE FALSE
        OBVIOUS
      <4>1. PICK q \in V : q <= s.to
        BY <1>5
      <4>2. s.callTo = s.to
        BY <1>3, <1>4, <4>1
      <4> QED
        BY <3>2, <4>1, <4>2
    <3>4. t.top = s.callTo
      BY <3>3 DEF WithPage
    <3> QED
      BY <1>8, <3>1, <3>2, <3>4
  <2>2. CASE page # <<>>
    <3>1. PICK z : z = page[Len(page)]
      OBVIOUS
    <3>2. t.to = z - 1 /\ z \in H /\ ToSet(page) = {q \in H : q = z \/ Before("desc", q, z)}
      BY <1>6, <1>14, <2>2, <3>1 DEF NextSeq
    <3>3. z \in Nat /\ z >= 1 /\ z <= s.callTo /\ s.callFrom <= z
      BY <1>3, <3>2
    <3>4. ASSUME NEW q \in V PROVE t.to < q /\ q <= t.top <=> q \in ToSet(s.got) \/ q \in ToSet(page)
      <4>1. q \in ToSet(page) <=> q \in H /\ (q = z \/ q > z)
        BY <3>2 DEF Before
      <4>2. q \in ToSet(s.got) <=> s.callTo < q /\ q <= t.top
        BY <1>8
      <4>3. q \in H <=> s.callFrom <= q /\ q <= s.callTo
        BY <1>3
      <4>4. q \in Nat /\ s.callFrom <= q
        BY <1>3, <1>7
      <4> QED
        BY <1>3, <1>8, <3>2, <3>3, <4>1, <4>2, <4>3, <4>4
    <3>5. \A q \in ToSet(s.got) \cup ToSet(page) : q \in V
      BY <1>3, <1>4, <1>10
    <3> QED
      BY <3>4, <3>5
  <2> QED
    BY <2>1, <2>2
<1>16. ASSUME Len(found) <= limit PROVE {q \in V : q <= t.top} \subseteq ToSet(s.got) \cup ToSet(page)
  <2>1. ASSUME NEW q \in V, q <= t.top PROVE q \in ToSet(s.got) \/ q \in H
    BY <1>3, <1>7, <1>8, <2>1
  <2> QED
    BY <1>6, <1>16, <2>1
<1>17. ASSUME ~(Len(found) <= limit)
       PROVE  t.got # <<>> /\ t.to <= t.top /\ \E q \in V : q <= t.to
  <2>1. PICK z : z = page[Len(page)]
    OBVIOUS
  <2>2. page # <<>> /\ z \in H /\ t.to = z - 1
    BY <1>6, <1>14, <1>17, <2>1 DEF NextSeq
  <2>3. PICK q \in H : Before("desc", z, q)
    BY <1>6, <1>17, <2>1
  <2>4. z \in Nat /\ q \in Nat /\ q < z /\ z <= s.callTo /\ q \in V
    BY <1>3, <2>2, <2>3 DEF Before
  <2>5. t.got # <<>>
    <3>1. Len(s.got \o page) = Len(s.got) + Len(page) /\ Len(s.got) \in Nat /\ Len(page) \in Nat /\ Len(page) # 0
      BY <1>4, <1>9, <2>2, ConcatProperties
    <3> QED
      BY <1>14, <3>1
  <2> QED
    BY <1>3, <1>8, <2>2, <2>4, <2>5
<1>18. PagesOf(t) /\ EndOf(t)
  BY <1>2, <1>13, <1>14, <1>15, <1>16 DEF PagesOf, EndOf
<1>19. CursorsInRange(t)
  <2>1. t.from >= 1 /\ t.from = 1 /\ t.top <= maxSeq /\ t.order # "asc" /\ t.at = "idle"
    BY <1>8, <1>14
  <2>2. ~t.isEnd => t.got # <<>> /\ t.to <= t.top /\ \E q \in Visible : q <= t.to
    BY <1>2, <1>14, <1>17
  <2> QED
    BY <2>1, <2>2 DEF CursorsInRange
<1>20. CallInRange(t)
  BY <1>14 DEF CallInRange
<1> QED
  BY <1>18, <1>19, <1>20 DEF ScrollSound

LEMMA GetMessagesInRangeKeeps ==
    ASSUME PullInv, NEW r \in Readers, NEW limit \in Limits, GetMessagesInRange(r, limit)
    PROVE  PullInv'
<1>1. PICK s \in ScrollStates : s = scrolls[r]
  BY DEF PullInv, PullTypes
<1>2. PullTypes /\ ScrollSound(s) /\ s.at = "page" /\ limit \in Nat \ {0} /\ s.order \in Orders
  BY <1>1, PullConstants DEF PullInv, GetMessagesInRange, ScrollStates
<1>3. PICK found \in IF s.callFrom > s.callTo THEN {<<>>} ELSE Select(s.callFrom, s.callTo, s.order, limit + 1) :
         LET page == FirstOf(found, limit)
             next == NextSeq(page, s.callFrom, s.order)
         IN  scrolls' = [scrolls EXCEPT ![r] =
                [s EXCEPT !.at = "idle", !.got = s.got \o page, !.isEnd = IsEnd(found, limit),
                          !.from = IF s.order = "asc" THEN next ELSE s.from,
                          !.to = IF s.order = "desc" THEN next ELSE s.to,
                          !.top = IF s.got = <<>> THEN s.callTo ELSE s.top]]
  BY <1>1, SMTT(10), ZenonT(30) DEF GetMessagesInRange
<1>4. PICK page : page = FirstOf(found, limit)
  OBVIOUS
<1>5. PICK next : next = NextSeq(page, s.callFrom, s.order)
  OBVIOUS
<1>6. PICK t : t = [s EXCEPT !.at = "idle", !.got = s.got \o page, !.isEnd = IsEnd(found, limit),
                             !.from = IF s.order = "asc" THEN next ELSE s.from,
                             !.to = IF s.order = "desc" THEN next ELSE s.to,
                             !.top = IF s.got = <<>> THEN s.callTo ELSE s.top]
  OBVIOUS
<1>7. scrolls' = [scrolls EXCEPT ![r] = t]
  BY <1>3, <1>4, <1>5, <1>6
<1>8. /\ Hits(s) \in SUBSET Nat /\ s.callFrom \in Nat /\ s.callTo \in Nat /\ s.from \in Nat /\ s.to \in Nat /\ s.top \in Nat
      /\ \A q \in Hits(s) : q >= 1
  BY <1>2, HitsAreVisible DEF Hits, PullTypes
<1>9. IsPage(page, found, s.order, Hits(s), limit)
  <2>1. CASE s.callFrom > s.callTo
    <3>1. found = <<>> /\ Hits(s) = {}
      BY <1>3, <1>8, <2>1 DEF Hits
    <3>2. page = <<>>
      BY <1>2, <1>4, <3>1 DEF FirstOf
    <3> QED
      BY <1>2, <3>1, <3>2, EmptyPage
  <2>2. CASE ~(s.callFrom > s.callTo)
    <3>1. found \in FirstOnes(s.order, Hits(s), limit + 1)
      BY <1>3, <2>2 DEF Select, Hits
    <3> QED
      BY <1>2, <1>4, <1>8, <3>1, PageIs
  <2> QED
    BY <2>1, <2>2
<1>10. next \in Nat /\ page \in Seq(Nat) /\ Len(found) \in Nat
  <2>1. page \in Seq(Hits(s)) /\ Len(found) \in Nat /\ (page # <<>> => page[Len(page)] \in Hits(s))
    BY <1>9 DEF IsPage
  <2>2. page \in Seq(Nat)
    BY <1>8, <2>1
  <2>3. next \in Nat
    BY <1>5, <1>8, <2>1, SMTT(20) DEF NextSeq
  <2> QED
    BY <2>1, <2>2, <2>3
<1>11. s.got \o page \in Seq(Nat)
  BY <1>10, ConcatProperties DEF ScrollStates
<1>12. IsEnd(found, limit) \in BOOLEAN /\ IsEnd(found, limit) = (Len(found) <= limit)
  BY DEF IsEnd
<1>13. t \in ScrollStates /\ WithPage(s, t, page, found, limit)
  <2>1. PICK all : all = s.got \o page
    OBVIOUS
  <2>2. PICK e \in BOOLEAN : e = IsEnd(found, limit)
    BY <1>12
  <2>3. PICK f \in Nat : f = IF s.order = "asc" THEN next ELSE s.from
    BY <1>8, <1>10
  <2>4. PICK u \in Nat : u = IF s.order = "desc" THEN next ELSE s.to
    BY <1>8, <1>10
  <2>5. PICK w \in Nat : w = IF s.got = <<>> THEN s.callTo ELSE s.top
    BY <1>8
  <2>6. t = [s EXCEPT !.at = "idle", !.got = all, !.isEnd = e, !.from = f, !.to = u, !.top = w]
    BY <1>6, <2>1, <2>2, <2>3, <2>4, <2>5
  <2>7. all \in Seq(Nat)
    BY <1>11, <2>1
  <2>8. /\ t \in ScrollStates /\ t.order = s.order /\ t.at = "idle" /\ t.got = all /\ t.isEnd = e
        /\ t.from = f /\ t.to = u /\ t.top = w
    BY <2>6, <2>7 DEF ScrollStates
  <2> QED
    BY <1>5, <1>12, <2>1, <2>2, <2>3, <2>4, <2>5, <2>8 DEF WithPage
<1>14. ScrollSound(t)
  <2>1. limit \in Nat
    BY <1>2
  <2>2. CASE s.order = "asc"
    BY <1>2, <1>9, <1>13, <2>1, <2>2, PageUp
  <2>3. CASE s.order = "desc"
    BY <1>2, <1>9, <1>13, <2>1, <2>3, PageDown
  <2> QED
    BY <1>2, <2>2, <2>3 DEF Orders
<1>15. UNCHANGED threadVars /\ BoundKept
  BY DEF GetMessagesInRange, BoundKept
<1>16. ScrollSound(t)'
  BY <1>2, <1>13, <1>14, <1>15, ScrollKept
<1> QED
  BY <1>7, <1>13, <1>15, <1>16, OneScroll

LEMMA PullInitially == PullInit => PullInv
<1> SUFFICES ASSUME PullInit PROVE PullInv
  OBVIOUS
<1>1. \A o \in Orders : NoScroll(o) \in ScrollStates
  BY DEF NoScroll, ScrollStates, Orders
<1>2. PullTypes
  BY <1>1 DEF PullInit, PullTypes
<1>3. ASSUME NEW r \in Readers PROVE ScrollSound(scrolls[r])
  <2>1. PICK o \in Orders : scrolls[r] = NoScroll(o)
    BY DEF PullInit
  <2>2. PICK s : s = scrolls[r]
    OBVIOUS
  <2>3. /\ s.order = o /\ s.from = 1 /\ s.to = 0 /\ s.got = <<>> /\ s.isEnd = FALSE /\ s.top = 0 /\ s.at = "idle"
    BY <2>1, <2>2 DEF NoScroll
  <2>4. Visible = {} /\ maxSeq = 0
    BY DEF PullInit, Visible
  <2>5. InSeqOrder(o, <<>>) /\ ToSet(<<>>) = {}
    <3>1. DOMAIN <<>> = {}
      OBVIOUS
    <3> QED
      BY <3>1, InToSet DEF InSeqOrder
  <2>6. PagesOf(s) /\ EndOf(s)
    BY <2>3, <2>4, <2>5 DEF PagesOf, EndOf
  <2>7. CursorsInRange(s) /\ CallInRange(s)
    BY <2>3, <2>4 DEF CursorsInRange, CallInRange
  <2> QED
    BY <2>2, <2>6, <2>7 DEF ScrollSound
<1> QED
  BY <1>2, <1>3 DEF PullInv

LEMMA PullStep == PullInv /\ [PullNext]_pullVars => PullInv'
<1> SUFFICES ASSUME PullInv, [PullNext]_pullVars PROVE PullInv'
  OBVIOUS
<1>1. CASE UNCHANGED pullVars
  BY <1>1, SMTT(10), ZenonT(30) DEF pullVars, PullInv, PullTypes, ScrollSound, CursorsInRange, CallInRange, PagesOf, EndOf, Visible
<1>2. ASSUME NEW n \in 1 .. 2, NEW dropped, AppendRows(n, dropped) PROVE PullInv'
  BY <1>2, AppendRowsKeeps
<1>3. ASSUME NEW r \in Readers, ~(scrolls[r].order = "desc" /\ scrolls[r].isEnd), QuerySeqState(r) PROVE PullInv'
  BY <1>3, QuerySeqStateKeeps
<1>4. ASSUME NEW r \in Readers, UserScopedBounds(r) \/ PullFails(r) PROVE PullInv'
  BY <1>4, UserScopedBoundsKeeps, PullFailsKeeps
<1>5. ASSUME NEW r \in Readers, NEW limit \in Limits, GetMessagesInRange(r, limit) PROVE PullInv'
  BY <1>5, GetMessagesInRangeKeeps
<1> QED
  BY <1>1, <1>2, <1>3, <1>4, <1>5 DEF PullNext

(* However the statements of PullMessages interleave with PersistBatch, for *)
(* any number of readers and any page sizes, the pages of a scroll hold     *)
(* every row the user may see between its ends, once and in order, and      *)
(* is_end of a scroll down means that nothing is left (GetMessagesInRange). *)
THEOREM PagesAreExact == PullSpec => []PagingSound
<1>1. PullInv => PagingSound
  BY DEF PullInv, ScrollSound, PagesOf, EndOf, PagingSound, PagesExact, EndMeansAll
<1> QED
  BY <1>1, PullInitially, PullStep, PTL DEF PullSpec
==============================================================================
