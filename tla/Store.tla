-------------------------------- MODULE Store --------------------------------
(***************************************************************************)
(* The two stores every component of DataShare shares: the `files` table   *)
(* of PostgreSQL and the MinIO bucket.  A file is identified by its row id *)
(* and its object key, which initiateUpload draws together, so one element *)
(* of File names both.                                                     *)
(*                                                                         *)
(* Time is abstracted.  `overdue` is the set of rows whose expiresAt has   *)
(* passed, because several components must agree on it.  The other ages    *)
(* the code compares (15 minutes in `scanning`, 48 hours since createdAt,  *)
(* 7 days as a tombstone) are each read by one query only, and a row may   *)
(* have been in its state for any length of time when that query runs, so  *)
(* they are a choice made by the query.                                    *)
(***************************************************************************)
EXTENDS FiniteSets, Naturals

CONSTANTS
  File,           \* the uploads ever initiated
  NoFile          \* the file of an idle thread

ASSUME NoFileAssumption == NoFile \notin File

VARIABLES
  state,          \* FileState of each row; "unborn" before, "deleted" after it
  keyed,          \* rows whose storageKey is not null
  multipart,      \* files whose multipart upload is open in MinIO
  object,         \* files whose assembled object is in MinIO
  content,        \* what CompleteMultipartUpload assembled, once it did
  overdue         \* rows whose expiresAt is in the past

storeVars == <<state, keyed, multipart, object, content, overdue>>

(***************************************************************************)
(* FileState of schema.prisma.  `abandoned` is declared there and written  *)
(* by no code.                                                             *)
(***************************************************************************)
FileState ==
  {"pending", "uploaded", "scanning", "ready", "rejected", "expired"}

(***************************************************************************)
(* What the browser may have uploaded: bytes whose size is not the         *)
(* declared one, bytes whose signature contradicts the extension, bytes    *)
(* ClamAV recognises, and bytes every check accepts.                       *)
(***************************************************************************)
Content == {"missized", "spoofed", "infected", "clean"}

StoreTypeOK ==
  /\ state \in [File -> FileState \cup {"unborn", "deleted"}]
  /\ keyed \in SUBSET File
  /\ multipart \in SUBSET File
  /\ object \in SUBSET File
  /\ content \in [File -> Content \cup {"none"}]
  /\ overdue \in SUBSET File

StoreInit ==
  /\ state = [f \in File |-> "unborn"]
  /\ keyed = {}
  /\ multipart = {}
  /\ object = {}
  /\ content = [f \in File |-> "none"]
  /\ overdue = {}

-----------------------------------------------------------------------------
(* PostgreSQL, through Prisma. *)

Exists(f) == state[f] \in FileState

\* prisma.file.create of initiateUpload
InsertRow(f) ==
  /\ state' = [state EXCEPT ![f] = "pending"]
  /\ keyed' = keyed \cup {f}

\* prisma.file.update on a row that exists, leaving storageKey alone
SetState(f, s) ==
  /\ state' = [state EXCEPT ![f] = s]
  /\ UNCHANGED keyed

\* The same, with storageKey: null
SetTombstone(f, s) ==
  /\ state' = [state EXCEPT ![f] = s]
  /\ keyed' = keyed \ {f}

\* prisma.file.delete.  On a row that is gone it throws P2025, which the
\* callers either swallow or answer with an error: no row changes.
DeleteRow(f) ==
  /\ state' = IF Exists(f) THEN [state EXCEPT ![f] = "deleted"] ELSE state
  /\ keyed' = keyed \ {f}

-----------------------------------------------------------------------------
(* MinIO, through StorageService. *)

\* AbortMultipartUpload, when the multipart is there; otherwise NoSuchUpload.
AbortMultipart(f) == multipart' = multipart \ {f}

\* CompleteMultipartUpload: the object is whatever parts the browser PUT.
AssembleObject(f) ==
  /\ multipart' = multipart \ {f}
  /\ object' = object \cup {f}
  /\ \E c \in Content : content' = [content EXCEPT ![f] = c]

\* HeadObject and GetObject find something under the key; they throw if not.
Stored(f) == f \in object

\* DeleteObject is idempotent.
DeleteObject(f) == object' = object \ {f}

=============================================================================
