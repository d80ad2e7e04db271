-------------------------------- MODULE Upload --------------------------------
(***************************************************************************)
(* The write side of the API: FilesService (initiate, complete, abort,     *)
(* status) and the owner's DELETE /files/:id.  Each element of Call is one *)
(* request in flight in some API replica, at the await its label names.    *)
(* A request refused at its first read changes nothing and is left out; a  *)
(* request that throws later returns to idle with what it had done done.   *)
(***************************************************************************)
EXTENDS ScanQueue, Deletion

CONSTANTS
  Call,           \* API requests that may be in flight together
  MaxCallFaults   \* bound: requests cut by a crash or an unreachable service

ASSUME CallAssumption == MaxCallFaults \in Nat

VARIABLES
  call,           \* where each request is, and on which file
  told,           \* files whose owner was given the download token
  callFaults      \* requests cut so far

callVars == <<call, told, callFaults>>

CallLabel ==
  {"create", "completeMultipart", "head", "discard", "markRejected",
   "markUploaded", "enqueue", "abortOwn"} \cup DeletionLabel

InCall(label, f) == [pc |-> label, file |-> f]

IdleCall == InCall("idle", NoFile)

UploadTypeOK ==
  /\ call \in [Call -> {IdleCall} \cup [pc: CallLabel, file: File]]
  /\ told \in SUBSET File
  /\ callFaults \in 0..MaxCallFaults

UploadInit ==
  /\ call = [c \in Call |-> IdleCall]
  /\ told = {}
  /\ callFaults = 0

Begin(c, f, label) ==
  /\ call[c] = IdleCall
  /\ call' = [call EXCEPT ![c] = InCall(label, f)]
  /\ UNCHANGED <<told, callFaults>>

\* Mutant: a request that returned still holds its file.
GotoHolding(c, label) ==
  /\ call' = [call EXCEPT ![c] = InCall(label, @.file)]
  /\ UNCHANGED <<told, callFaults>>

\* Request c moves on from one await to the next, or returns ("done").
Goto(c, label) ==
  /\ call' = [call EXCEPT
                ![c] = IF label \in {"done", "thrown"} THEN IdleCall
                       ELSE InCall(label, @.file)]
  /\ UNCHANGED <<told, callFaults>>

At(c, label) == call[c].pc = label

Creating(f) == \E c \in Call : call[c] = InCall("create", f)

-----------------------------------------------------------------------------
(* initiateUpload: the key is a fresh UUID, so f is no other request's. *)

\* Mutant: the key is derived from the file, a deleted one comes back.
InitiateUploadAgain(c, f) ==
  /\ state[f] \in {"unborn", "deleted"}
  /\ f \notin multipart
  /\ Begin(c, f, "create")
  /\ multipart' = multipart \cup {f}
  /\ UNCHANGED <<state, keyed, object, content, overdue, job>>

InitiateUpload(c, f) ==
  /\ state[f] = "unborn"
  /\ f \notin multipart
  /\ Begin(c, f, "create")
  /\ multipart' = multipart \cup {f}
  /\ UNCHANGED <<state, keyed, object, content, overdue, job>>

\* The row exists from here on: a crash before it leaves a bare multipart.
CreateRow(c) ==
  /\ At(c, "create")
  /\ InsertRow(call[c].file)
  /\ Goto(c, "done")
  /\ UNCHANGED <<multipart, object, content, overdue, job>>

-----------------------------------------------------------------------------
(* completeUpload *)

\* findPendingUpload; 404 or 409 otherwise
PendingUpload(f) == state[f] = "pending"

CompleteUpload(c, f) ==
  /\ PendingUpload(f)
  /\ Begin(c, f, "completeMultipart")
  /\ UNCHANGED <<storeVars, job>>

\* Mutant: NoSuchUpload counts as completed, to make `complete` idempotent.
CompleteMultipartAgain(c) ==
  LET f == call[c].file IN
  /\ At(c, "completeMultipart")
  /\ IF f \in multipart THEN AssembleObject(f)
                         ELSE UNCHANGED <<multipart, object, content>>
  /\ Goto(c, "head")
  /\ UNCHANGED <<state, keyed, overdue, job>>

CompleteMultipart(c) ==
  LET f == call[c].file IN
  /\ At(c, "completeMultipart")
  /\ \/ /\ f \in multipart
        /\ AssembleObject(f)
        /\ Goto(c, "head")
     \/ /\ f \notin multipart            \* NoSuchUpload, uncaught here
        /\ Goto(c, "thrown")
        /\ UNCHANGED <<multipart, object, content>>
  /\ UNCHANGED <<state, keyed, overdue, job>>

\* Mutant: trusts the declared size.
CheckSizeNever(c) ==
  LET f == call[c].file IN
  /\ At(c, "head")
  /\ Goto(c, IF ~Stored(f) THEN "thrown" ELSE "markUploaded")
  /\ UNCHANGED <<storeVars, job>>

CheckSize(c) ==
  LET f == call[c].file IN
  /\ At(c, "head")
  /\ Goto(c, IF ~Stored(f) THEN "thrown"
             ELSE IF content[f] = "missized" THEN "discard"
             ELSE "markUploaded")
  /\ UNCHANGED <<storeVars, job>>

\* Mutant: rejects the row and leaves the object to a later sweep.
DiscardMissizedLater(c) ==
  /\ At(c, "discard")
  /\ Goto(c, "markRejected")
  /\ UNCHANGED <<storeVars, job>>

DiscardMissized(c) ==
  /\ At(c, "discard")
  /\ DeleteObject(call[c].file)
  /\ Goto(c, "markRejected")
  /\ UNCHANGED <<state, keyed, multipart, content, overdue, job>>

\* Both updates below throw P2025 when the row has been deleted meanwhile.
MarkRejected(c) ==
  LET f == call[c].file IN
  /\ At(c, "markRejected")
  /\ IF Exists(f) THEN SetTombstone(f, "rejected")
                  ELSE UNCHANGED <<state, keyed>>
  /\ Goto(c, "done")
  /\ UNCHANGED <<multipart, object, content, overdue, job>>

MarkUploaded(c) ==
  LET f == call[c].file IN
  /\ At(c, "markUploaded")
  /\ IF Exists(f) THEN SetState(f, "uploaded") /\ Goto(c, "enqueue")
                  ELSE UNCHANGED <<state, keyed>> /\ Goto(c, "thrown")
  /\ UNCHANGED <<multipart, object, content, overdue, job>>

Enqueue(c) ==
  /\ At(c, "enqueue")
  /\ EnqueueValidation(call[c].file)
  /\ Goto(c, "done")
  /\ UNCHANGED storeVars

-----------------------------------------------------------------------------
(* abortUpload: unlike deleteFileCompletely it does not catch NoSuchUpload. *)

AbortUpload(c, f) ==
  /\ PendingUpload(f)
  /\ Begin(c, f, "abortOwn")
  /\ UNCHANGED <<storeVars, job>>

AbortOwn(c) ==
  LET f == call[c].file IN
  /\ At(c, "abortOwn")
  /\ AbortMultipart(f)
  /\ Goto(c, IF f \in multipart THEN "deleteRow" ELSE "thrown")
  /\ UNCHANGED <<state, keyed, object, content, overdue, job>>

-----------------------------------------------------------------------------
(* deleteOwnedFile: purgeTombstone or deleteFileCompletely, on what the    *)
(* first read of the row said.                                             *)

DeleteOwnedFile(c, f) ==
  /\ Exists(f)
  /\ Begin(c, f, IF f \in keyed THEN "findUnique" ELSE "deleteRow")
  /\ UNCHANGED <<storeVars, job>>

DeleteOwnedStep(c) ==
  /\ \E to \in DeletionLabel \cup {"done"} :
       /\ DeletionStep(call[c].pc, to, call[c].file)
       /\ Goto(c, to)
  /\ UNCHANGED job

-----------------------------------------------------------------------------
(* The token leaves with a ready row only: getUploadStatus for one file,   *)
(* listFiles for every row, under the same test.                           *)

\* Mutant: the token leaves with every row.
GetUploadStatusAlways(f) ==
  /\ Exists(f)
  /\ told' = told \cup {f}
  /\ UNCHANGED <<storeVars, job, call, callFaults>>

GetUploadStatus(f) ==
  /\ state[f] = "ready"
  /\ told' = told \cup {f}
  /\ UNCHANGED <<storeVars, job, call, callFaults>>

ListFiles(f) == GetUploadStatus(f)

\* A request cut at any await: the replica crashed, or the service it was
\* waiting for failed or did not answer (the effect may have happened, which
\* is the step itself followed by this one).
CutCall(c) ==
  /\ call[c] # IdleCall
  /\ callFaults < MaxCallFaults
  /\ callFaults' = callFaults + 1
  /\ call' = [call EXCEPT ![c] = IdleCall]
  /\ UNCHANGED <<storeVars, job, told>>

\* One await of a request that is in flight
CallStep(c) ==
  \/ CreateRow(c)
  \/ CompleteMultipart(c)
  \/ CheckSize(c)
  \/ DiscardMissized(c)
  \/ MarkRejected(c)
  \/ MarkUploaded(c)
  \/ Enqueue(c)
  \/ AbortOwn(c)
  \/ DeleteOwnedStep(c)

UploadNext ==
  \/ \E c \in Call :
       \/ CallStep(c)
       \/ CutCall(c)
       \/ \E f \in File :
            \/ InitiateUpload(c, f)
            \/ CompleteUpload(c, f)
            \/ AbortUpload(c, f)
            \/ DeleteOwnedFile(c, f)
  \/ \E f \in File : GetUploadStatus(f) \/ ListFiles(f)

=============================================================================
