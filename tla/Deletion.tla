------------------------------- MODULE Deletion -------------------------------
(***************************************************************************)
(* FileDeletionService.  deleteFileCompletely is called by an API request  *)
(* (the owner) and by the purge job (the reaper), so it is written once,   *)
(* as the steps of any thread: DeletionStep(at, to, f) takes a thread that *)
(* is deleting f from label `at` to label `to`, "done" when it returns and *)
(* "thrown" when it throws.  Every step is one await on PostgreSQL or      *)
(* MinIO; what the thread read before is kept in its label only.           *)
(***************************************************************************)
EXTENDS Store

CONSTANT HeadMayFail   \* may headObject throw for an object that is there?

ASSUME DeletionAssumption == HeadMayFail \in BOOLEAN

DeletionLabel ==
  {"findUnique", "abort", "orphanHead", "deleteObject", "deleteRow"}

\* The row is read again: what the caller saw of it is not used.
FindRow(at, to, f) ==
  /\ at = "findUnique"
  /\ to = IF ~Exists(f) THEN "done"
          ELSE IF state[f] = "pending" THEN "abort"
          ELSE IF f \in keyed THEN "deleteObject"
          ELSE "deleteRow"
  /\ UNCHANGED storeVars

AbortStep(at, to, f) ==
  /\ at = "abort"
  /\ AbortMultipart(f)
  /\ to = IF f \in multipart THEN "deleteRow" ELSE "orphanHead"
  /\ UNCHANGED <<state, keyed, object, content, overdue>>

\* Mutant: takes NoSuchUpload for "already deleted".
OrphanHeadAssumed(at, to, f) ==
  /\ at = "orphanHead"
  /\ to = "deleteRow"
  /\ UNCHANGED storeVars

\* NoSuchUpload: was the multipart aborted by another, or completed?  The
\* bare catch takes any error of headObject for "there is no object".
OrphanHead(at, to, f) ==
  /\ at = "orphanHead"
  /\ \/ Stored(f) /\ to = "deleteObject"
     \/ (~Stored(f) \/ HeadMayFail) /\ to = "deleteRow"
  /\ UNCHANGED storeVars

DeleteObjectStep(at, to, f) ==
  /\ at = "deleteObject"
  /\ DeleteObject(f)
  /\ to = "deleteRow"
  /\ UNCHANGED <<state, keyed, multipart, content, overdue>>

\* deleteRow, also the whole of purgeTombstone: P2025 counts as success.
DeleteRowStep(at, to, f) ==
  /\ at = "deleteRow"
  /\ DeleteRow(f)
  /\ to = "done"
  /\ UNCHANGED <<multipart, object, content, overdue>>

DeletionStep(at, to, f) ==
  \/ FindRow(at, to, f)
  \/ AbortStep(at, to, f)
  \/ OrphanHead(at, to, f)
  \/ DeleteObjectStep(at, to, f)
  \/ DeleteRowStep(at, to, f)

=============================================================================
