---------------------------- MODULE StratusBucket ----------------------------
(***************************************************************************)
(* What the methods of Bucket, BucketAdmin and StratusObject of            *)
(* packages/stratus do to a bucket while its generators are under way.     *)
(* The methods keep nothing: an action is the arrival of the request of    *)
(* one of them, whose access is module BucketAccess.  The server, external,*)
(* is what the parameters of the request ask of it.                        *)
(***************************************************************************)
EXTENDS Listings

BucketInit == store \in [Keys -> SUBSET Versions]

BucketRests == store = [k \in Keys |-> {}]

Exists(k) == store[k] # {}

-----------------------------------------------------------------------------
(* putObject(): a version is added, or is the only one where nothing is versioned; with
   extractUpload the files of an archive are. *)
PutObject ==
  \E files \in SUBSET Keys, v \in Versions, versioned \in BOOLEAN :
    StoreBecomes([k \in Keys |->
                    IF k \notin files THEN store[k] ELSE IF versioned THEN store[k] \cup {v} ELSE {v}])

(* completeMultipartUpload(): initiateMultipartUpload() and uploadPart() before it leave
   the listing as it is. *)
CompleteMultipartUpload ==
  \E k \in Keys, v \in Versions : StoreBecomes([store EXCEPT ![k] = @ \cup {v}])

(* Bucket.deleteObject(): one version, or deleteAllVersions. *)
DeleteObject ==
  \E k \in Keys : Exists(k) /\ \E left \in {store[k] \ {v} : v \in store[k]} \cup {{}} :
    StoreBecomes([store EXCEPT ![k] = left])

(* deleteObjects(), and deleteObject() of an admin: versions of several objects. *)
DeleteObjects ==
  \E left \in [Keys -> SUBSET Versions] :
    /\ \A k \in Keys : left[k] \subseteq store[k]
    /\ StoreBecomes(left)

(* copyObject() *)
CopyObject ==
  \E k, dest \in Keys, v \in Versions :
    Exists(k) /\ k # dest /\ StoreBecomes([store EXCEPT ![dest] = @ \cup {v}])

(* renameObject(): behind or before the place of a generator. *)
RenameObject ==
  \E k, dest \in Keys :
    /\ Exists(k) /\ k # dest
    /\ StoreBecomes([store EXCEPT ![dest] = store[k], ![k] = {}])

(* deletePath(): the objects under a prefix are consecutive. *)
DeletePath ==
  \E first, last \in Keys :
    StoreBecomes([k \in Keys |-> IF first <= k /\ k <= last THEN {} ELSE store[k]])

Truncate == StoreBecomes([k \in Keys |-> {}])

(* unzipObject() begins a task: its files appear one by one or together, until
   getUnzipStatus() says that it is complete. *)
UnzipObject ==
  \E files \in SUBSET Keys, v \in Versions :
    StoreBecomes([k \in Keys |-> IF k \in files THEN store[k] \cup {v} ELSE store[k]])

BucketStep ==
  \/ PutObject \/ CompleteMultipartUpload
  \/ DeleteObject \/ DeleteObjects \/ CopyObject \/ RenameObject \/ DeletePath \/ Truncate
  \/ UnzipObject

(* The bucket while its generators are under way. *)
ObjectsNext ==
  \/ BucketStep
  \/ \E i \in Iterators :
       \/ ListingStep(i)
       \/ Start(i, "versions", Unshared)
       \/ \E o \in OptionObjects : Start(i, "objects", o)

ObjectsSpec == BucketInit /\ rows = {} /\ IteratorInit /\ [][ObjectsNext]_listingVars

-----------------------------------------------------------------------------
(* headObject() by the status of its answer. *)
NotThere == {400, 403, 404}
HeadObject(status, throwErr) ==
  CASE status = 200 -> "true"
    [] status \in NotThere /\ ~throwErr -> "false"
    [] OTHER -> "throws"

(* BucketAdmin.headObject(): the promise of Bucket.headObject(), which is called without
   throwErr, is returned and not awaited, so that its errors pass the catch. *)
HeadObjectOfAdmin(isAdmin, status, throwErr) ==
  IF isAdmin THEN HeadObject(status, throwErr) ELSE HeadObject(status, FALSE)

(* "throwErr - Whether to rethrow not-found or access errors."  BucketAdmin violates it
   for a user that is no admin. *)
ThrowErrHonoured ==
  \A isAdmin \in BOOLEAN, status \in NotThere : HeadObjectOfAdmin(isAdmin, status, TRUE) = "throws"
=============================================================================
