-------------------------------- MODULE Media --------------------------------
(***************************************************************************)
(* Content-addressed uploads (service/media/rpc): rows of media_objects,   *)
(* the objects tmp/{media_id}/{sha256} a client puts with a presigned URL, *)
(* and the objects agents_im/{sha256} that ready rows share.  CreateUpload-*)
(* Intent, CompleteUpload and the sweep of old tmp objects are sequences   *)
(* of statements and object store calls; calls overlap, are repeated by    *)
(* clients, and may stop after any step.  Without a row of that content    *)
(* ready, an intent creates a pending row; the object store refuses bytes  *)
(* that do not have the signed checksum, so an object's key tells its      *)
(* content.                                                                *)
(***************************************************************************)
EXTENDS Naturals

CONSTANTS
    MediaIds,      \* media ids
    Shas,          \* contents, by sha256
    MediaCalls     \* calls that may be in progress at a time

VARIABLES
    media,         \* media_objects: status, content, whether size_bytes is the content's,
                   \* and whether an upload URL was signed for it
    tmp,           \* ids with an object tmp/{id}/{sha256}
    final,         \* contents with an object agents_im/{sha256}
    put,           \* history: ids whose upload succeeded
    old,           \* ids whose URL is no longer valid and whose object is old enough to sweep
    swept,         \* history: ids whose object the sweeper removed
    mediaOps       \* calls in progress

mediaVars == <<media, tmp, final, put, old, swept, mediaOps>>
objectVars == <<tmp, final, put, old, swept>>

NoMedia == [status |-> "none", sha |-> "none", sized |-> FALSE, url |-> FALSE]
NoMediaOp == [id |-> "none", sha |-> "none", sized |-> FALSE, at |-> "idle"]

MediaInit ==
    /\ media = [m \in MediaIds |-> NoMedia]
    /\ tmp = {} /\ final = {} /\ put = {} /\ old = {} /\ swept = {}
    /\ mediaOps = [c \in MediaCalls |-> NoMediaOp]

OpAt(c, at) == mediaOps' = [mediaOps EXCEPT ![c].at = at]
OpEnds(c) == mediaOps' = [mediaOps EXCEPT ![c] = NoMediaOp]

(* An error, a deadline or the end of the process. *)
MediaOpFails(c) ==
    /\ mediaOps[c] # NoMediaOp
    /\ OpEnds(c) /\ UNCHANGED <<media, objectVars>>
-----------------------------------------------------------------------------
(* CreateUploadIntent. *)

(* The client names the content and its size, maybe a wrong one. *)
BeginIntent(c, m, s, sized) ==
    /\ mediaOps[c] = NoMediaOp
    /\ media[m] = NoMedia /\ \A d \in MediaCalls : mediaOps[d].id # m
    /\ mediaOps' = [mediaOps EXCEPT ![c] = [id |-> m, sha |-> s, sized |-> sized, at |-> "find"]]
    /\ UNCHANGED <<media, objectVars>>

FindReadyByObjectKey(c) ==
    /\ mediaOps[c].at = "find"
    /\ OpAt(c, IF \E m \in MediaIds : media[m].status = "ready" /\ media[m].sha = mediaOps[c].sha
               THEN "instant" ELSE "pending")
    /\ UNCHANGED <<media, objectVars>>

(* A ready row takes the size of the row it was found by (instantComplete). *)
CreateMediaObject(c) ==
    LET o == mediaOps[c]
    IN  /\ \/ /\ o.at = "instant"
              /\ \E m \in MediaIds :
                    /\ media[m].status = "ready" /\ media[m].sha = o.sha
                    /\ media' = [media EXCEPT ![o.id] = [media[m] EXCEPT !.url = FALSE]]
           \/ /\ o.at = "pending"
              /\ media' = [media EXCEPT ![o.id] = [status |-> "pending", sha |-> o.sha, sized |-> o.sized, url |-> TRUE]]
        /\ OpEnds(c) /\ UNCHANGED objectVars

(* The client puts the bytes, perhaps again, while the URL is valid. *)
PutObject(m) ==
    /\ media[m].url /\ m \notin old
    /\ tmp' = tmp \cup {m} /\ put' = put \cup {m}
    /\ UNCHANGED <<media, final, old, swept, mediaOps>>

(* uploadURLTTL and, much longer, tmpObjectMaxAge pass. *)
ObjectAges(m) ==
    /\ media[m].url /\ m \notin old
    /\ old' = old \cup {m}
    /\ UNCHANGED <<media, tmp, final, put, swept, mediaOps>>

(* SweepOnce. *)
SweepObject(m) ==
    /\ m \in old \cap tmp
    /\ tmp' = tmp \ {m} /\ swept' = swept \cup {m}
    /\ UNCHANGED <<media, final, put, old, mediaOps>>
-----------------------------------------------------------------------------
(* CompleteUpload; a row that is ready is only returned. *)
BeginComplete(c, m) ==
    /\ mediaOps[c] = NoMediaOp /\ media[m].status = "pending"
    /\ mediaOps' = [mediaOps EXCEPT ![c] = [id |-> m, sha |-> media[m].sha, sized |-> media[m].sized, at |-> "stat"]]
    /\ UNCHANGED <<media, objectVars>>

(* checkObject: the size is the row's, and the checksum follows from it. *)
StatTmp(c) ==
    LET o == mediaOps[c]
    IN  /\ o.at = "stat"
        /\ IF o.id \notin tmp THEN OpAt(c, "statFinal")
           ELSE IF o.sized THEN OpAt(c, "copy") ELSE OpEnds(c)
        /\ UNCHANGED <<media, objectVars>>

(* No tmp object: an earlier call may have got past the copy. *)
StatFinal(c) ==
    /\ mediaOps[c].at = "statFinal"
    /\ IF mediaOps[c].sha \in final /\ mediaOps[c].sized THEN OpAt(c, "ready") ELSE OpEnds(c)
    /\ UNCHANGED <<media, objectVars>>

(* Mutant of CopyObject: a failed copy does not stop the call. *)
CopyObjectOrNot(c) ==
    /\ mediaOps[c].at = "copy"
    /\ final' \in {final, final \cup {mediaOps[c].sha}}
    /\ OpAt(c, "remove")
    /\ UNCHANGED <<media, tmp, put, old, swept>>

(* The copy fails when its source has gone. *)
CopyObject(c) ==
    /\ mediaOps[c].at = "copy"
    /\ IF mediaOps[c].id \in tmp
       THEN final' = final \cup {mediaOps[c].sha} /\ OpAt(c, "remove")
       ELSE OpEnds(c) /\ UNCHANGED final
    /\ UNCHANGED <<media, tmp, put, old, swept>>

(* An error of the removal is only logged. *)
RemoveObject(c) ==
    /\ mediaOps[c].at = "remove"
    /\ tmp' \in {tmp, tmp \ {mediaOps[c].id}}
    /\ OpAt(c, "ready")
    /\ UNCHANGED <<media, final, put, old, swept>>

MarkReady(c) ==
    /\ mediaOps[c].at = "ready"
    /\ media' = [media EXCEPT ![mediaOps[c].id].status = "ready"]
    /\ OpEnds(c) /\ UNCHANGED objectVars

MediaNext ==
    \/ \E m \in MediaIds : PutObject(m) \/ ObjectAges(m) \/ SweepObject(m)
    \/ \E c \in MediaCalls :
          \/ \E m \in MediaIds, s \in Shas, sized \in BOOLEAN : BeginIntent(c, m, s, sized)
          \/ \E m \in MediaIds : BeginComplete(c, m)
          \/ FindReadyByObjectKey(c) \/ CreateMediaObject(c)
          \/ StatTmp(c) \/ StatFinal(c) \/ CopyObject(c) \/ RemoveObject(c) \/ MarkReady(c)
          \/ MediaOpFails(c)

MediaSpec == MediaInit /\ [][MediaNext]_mediaVars
-----------------------------------------------------------------------------
(* A ready row can be downloaded: its object is there and has the row's     *)
(* size, although calls overlap and are cut short, objects are swept under  *)
(* them and rows are made ready from other rows without an upload.          *)
ReadyIsStored ==
    \A m \in MediaIds : media[m].status = "ready" => media[m].sha \in final /\ media[m].sized

(* "copy/delete 幂等可重试" (complete_upload_logic.go): until the sweeper    *)
(* takes it, an upload is never lost, so CompleteUpload can be repeated     *)
(* after any interrupted one and find the bytes in one place or the other.  *)
UploadSurvives ==
    \A m \in put \ swept : m \in tmp \/ media[m].sha \in final

(* No upload is lost on the way from tmp to ready, and none is ready that   *)
(* is not stored, wherever CompleteUpload stopped.                          *)
UploadsKept == ReadyIsStored /\ UploadSurvives
=============================================================================
