------------------------------- MODULE Datashare -------------------------------
(***************************************************************************)
(* The whole back end: API replicas, worker processes, the two stores, the *)
(* job queue and the clock, and what they promise together about a file.   *)
(***************************************************************************)
EXTENDS Upload, Scan, Purge, Download

\* The purge consumer lives in the process of the scan consumer.
ASSUME ProcessAssumption == Purger \subseteq Worker

vars == <<storeVars, job, callVars, scanVars, purgeVars, downloadVars>>

Init ==
  /\ StoreInit
  /\ QueueInit
  /\ UploadInit
  /\ ScanInit
  /\ PurgeInit
  /\ DownloadInit

TypeOK ==
  /\ StoreTypeOK
  /\ JobTypeOK
  /\ UploadTypeOK
  /\ ScanTypeOK
  /\ PurgeTypeOK
  /\ DownloadTypeOK

-----------------------------------------------------------------------------
(* The environment *)

\* expiresAt passes.
Expire(f) ==
  /\ Exists(f)
  /\ f \notin overdue
  /\ overdue' = overdue \cup {f}
  /\ UNCHANGED <<state, keyed, multipart, object, content>>
  /\ UNCHANGED <<job, callVars, scanVars, purgeVars, downloadVars>>

\* MinIO drops a multipart nobody finished (stale_uploads_expiry, 96 hours):
\* never one that a request is still creating the row of.
DropStaleMultipart(f) ==
  /\ f \in multipart
  /\ ~Creating(f)
  /\ AbortMultipart(f)
  /\ UNCHANGED <<state, keyed, object, content, overdue>>
  /\ UNCHANGED <<job, callVars, scanVars, purgeVars, downloadVars>>

\* Process w ends and restarts at once (`restart: unless-stopped`).
ProcessDies(w) ==
  /\ ScanDies(w)
  /\ IF w \in Purger THEN PurgeDies(w) ELSE UNCHANGED purgeVars
  /\ UNCHANGED <<callVars, downloadVars>>

KillWorker(w) ==
  /\ run[w] # IdleRun \/ sweep[w] # IdleSweep
       \/ (w \in Purger /\ purge[w] # IdlePurge)
  /\ crashes < MaxCrashes
  /\ crashes' = crashes + 1
  /\ ProcessDies(w)

\* A sweep that meets a deleted row takes its whole process down.
SweepThrows(w) ==
  /\ SweepRowGone(w)
  /\ ProcessDies(w)
  /\ UNCHANGED crashes

Next ==
  \/ UploadNext /\ UNCHANGED <<scanVars, purgeVars, downloadVars>>
  \/ ScanNext /\ UNCHANGED <<callVars, purgeVars, downloadVars>>
  \/ PurgeNext /\ UNCHANGED <<job, callVars, scanVars, downloadVars>>
  \/ DownloadNext /\ UNCHANGED <<job, callVars, scanVars, purgeVars>>
  \/ \E f \in File : Expire(f) \/ DropStaleMultipart(f)
  \/ \E w \in Worker : KillWorker(w) \/ SweepThrows(w)

Spec == Init /\ [][Next]_vars

-----------------------------------------------------------------------------
(* Fairness: what goes on by itself.  A request in flight goes on; a       *)
(* worker finishes what it started, takes a waiting job, checks for        *)
(* stalled ones, and runs its hourly timer.  Nobody has to send a request. *)

OfApi(A) == A /\ UNCHANGED <<scanVars, purgeVars, downloadVars>>
OfScan(A) == A /\ UNCHANGED <<callVars, purgeVars, downloadVars>>
OfPurge(A) == A /\ UNCHANGED <<job, callVars, scanVars, downloadVars>>

Fairness ==
  /\ \A c \in Call : WF_vars(OfApi(CallStep(c)))
  /\ \A w \in Worker :
       /\ WF_vars(OfScan(RunStep(w)))
       /\ WF_vars(OfScan(SweepStep(w)))
       /\ WF_vars(OfScan(RequeueStaleScans(w)))
       /\ WF_vars(SweepThrows(w))
  /\ \A f \in File :
       /\ WF_vars(OfScan(\E w \in Worker : TakeJob(w, f)))
       /\ WF_vars(OfScan(StalledCheck(f)))

LiveSpec == Spec /\ Fairness

-----------------------------------------------------------------------------
(* Safety *)

\* The barrier of the product: a file is `ready`, its token told or a URL to
\* it signed, only if its bytes passed the size check of completeUpload, the
\* signature check and ClamAV.  The writes of `scanning` and `ready` are
\* unconditional, so this rests on the bytes at a key never changing.
OnlyCleanIsShared ==
  \A f \in File :
    state[f] = "ready" \/ f \in told \/ f \in links => content[f] = "clean"

\* A file the scan or the size check refused never had a shareable link
\* (getUploadStatus, listFiles, verifyPasswordAndGetUrl): however late the
\* refusal comes, and whoever wrote the row in between.
RefusedWasNeverShared ==
  \A f \in File : state[f] = "rejected" => f \notin told \cup links

\* Storage first, row last: in deleteFileCompletely, abortUpload and
\* purgeTombstone alike, a deleted row leaves neither object nor multipart
\* behind, so that nothing is stored that no query can find again.
NothingOutlivesTheRow ==
  \A f \in File : state[f] = "deleted" => f \notin object \cup multipart

\* A tombstone has lost its key and its object: this is what lets
\* purgeGhostRows and deleteOwnedFile drop the row alone.
TombstoneIsEmpty ==
  \A f \in File :
    state[f] \in {"expired", "rejected"} =>
      f \notin keyed \cup object \cup multipart

\* The job id dedupes validations: two runs work on one file only if one of
\* them has lost the lock of its job, although completeUpload, the sweep,
\* retries and the stalled check all put the file in the queue.
OneScanAtATime ==
  \A v, w \in Worker :
    /\ run[v] # IdleRun /\ run[w] # IdleRun
    /\ run[v].file = run[w].file
    => v = w \/ ~run[v].lock \/ ~run[w].lock

\* A row that waits for its verdict, its object still there, has something
\* that will give it one: a live job, the request that is about to add it, or
\* the sweep that is about to.  Nothing else ever looks at such a row again.
\* A request cut before it added the job is the one exception.
AwaitedIsQueued ==
  callFaults = 0 => \A f \in File :
    state[f] \in {"uploaded", "scanning"} /\ f \in object =>
      \/ Queued(f)
      \/ \E c \in Call : call[c] = InCall("enqueue", f)
      \/ \E w \in Worker : f \in sweep[w].marked

-----------------------------------------------------------------------------
(* Action properties *)

\* The transitions of the file's state machine (docs/diagrams/03), with the
\* owner's deletion allowed from every state as deleteOwnedFile allows it:
\* no late write of a scan, a sweep or a purge takes a row back.
MayBecome(s) ==
  CASE s = "unborn"   -> {"pending"}
    [] s = "pending"  -> {"uploaded", "rejected", "deleted"}
    [] s = "uploaded" -> {"scanning", "deleted"}
    [] s = "scanning" -> {"ready", "rejected", "uploaded", "deleted"}
    [] s = "ready"    -> {"expired", "deleted"}
    [] s \in {"expired", "rejected"} -> {"deleted"}
    [] OTHER          -> {}

DocumentedTransitions ==
  [][\A f \in File : state'[f] # state[f] => state'[f] \in MayBecome(state[f])
    ]_state

\* The purge deletes no file that reached `uploaded`, `scanning` or `ready`:
\* those leave by expiry or by their owner.
PurgeSparesCompleted ==
  [][\A p \in Purger, f \in File :
       /\ purge[p].pc = "deleteRow"
       /\ purge[p].file = f
       /\ purge'[p].pc = "reaping"
       => state[f] \in {"pending", "deleted"}]_vars

\* What the hourly sweep requeues is then in the queue, unless someone is
\* deleting it: the recovery the fault table of docs/documentation-technique.md
\* gives for clamd and for a killed worker.  (A sweep cut by the death of its
\* own process requeues nothing.)
RequeuedIsQueued ==
  [][\A w \in Worker : \A f \in sweep[w].marked \ sweep'[w].marked :
       /\ crashes' = crashes
       /\ Exists(f)
       /\ \A c \in Call : call[c].file # f
       => Queued(f)']_vars

-----------------------------------------------------------------------------
(* Liveness *)

Settled(f) == state[f] \notin {"uploaded", "scanning"}

\* A sound file that was uploaded gets its verdict or is deleted: clamd
\* failing an attempt and a killed worker delay its link but do not lose it,
\* unless a request was cut (see AwaitedIsQueued).
CleanUploadSettles ==
  \A f \in File :
    state[f] = "uploaded" /\ content[f] = "clean" ~> Settled(f) \/ callFaults > 0

=============================================================================
