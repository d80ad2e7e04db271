---------------------------- MODULE DatashareProofs ----------------------------
(***************************************************************************)
(* Proofs about Datashare, for any number of files, requests, workers and  *)
(* recipients, and any bounds on the faults.                               *)
(***************************************************************************)
EXTENDS Invariants, TLAPS

-----------------------------------------------------------------------------
(* Type correctness: the moves of each kind of thread, then one lemma per  *)
(* component.                                                              *)

LEMMA GotoType ==
  ASSUME UploadTypeOK, NEW c \in Call, call[c] # IdleCall,
         NEW label \in CallLabel \cup {"done", "thrown"}, Goto(c, label)
  PROVE  UploadTypeOK'
BY DEF UploadTypeOK, Goto, InCall

LEMMA BeginType ==
  ASSUME UploadTypeOK, NEW c \in Call, NEW f \in File,
         NEW label \in CallLabel, Begin(c, f, label)
  PROVE  UploadTypeOK'
BY DEF UploadTypeOK, Begin, InCall

LEMMA AtBusy ==
  ASSUME UploadTypeOK, NEW c \in Call, call[c].pc \in CallLabel
  PROVE  call[c] # IdleCall /\ call[c].file \in File
BY DEF UploadTypeOK, IdleCall, InCall, CallLabel, DeletionLabel

LEMMA JobType ==
  ASSUME JobTypeOK, NEW f \in File,
         \/ EnqueueValidation(f)
         \/ ActivateJob(f)
         \/ CompleteJob(f)
         \/ FailAttempt(f)
         \/ StallJob(f)
  PROVE  JobTypeOK'
BY DEF JobTypeOK, EnqueueValidation, ActivateJob, CompleteJob, FailAttempt,
       StallJob, Job, NewJob, NoJob, JobStatus

LEMMA DeletionType ==
  ASSUME StoreTypeOK, NEW f \in File, NEW at, NEW to, DeletionStep(at, to, f)
  PROVE  StoreTypeOK' /\ at \in DeletionLabel
BY DEF StoreTypeOK, DeletionStep, FindRow, AbortStep, OrphanHead,
       DeleteObjectStep, DeleteRowStep, AbortMultipart, DeleteObject,
       DeleteRow, storeVars, DeletionLabel

LEMMA UploadType ==
  ASSUME TypeOK, UploadNext, UNCHANGED <<scanVars, purgeVars, downloadVars>>
  PROVE  TypeOK'
<1> USE DEF TypeOK
<1>1. ScanTypeOK' /\ PurgeTypeOK' /\ DownloadTypeOK'
  BY DEF ScanTypeOK, PurgeTypeOK, DownloadTypeOK, scanVars, purgeVars,
         downloadVars
<1>2. ASSUME NEW c \in Call, CallStep(c)
      PROVE  StoreTypeOK' /\ JobTypeOK' /\ UploadTypeOK'
  <2> DEFINE f == call[c].file
  <2> USE DEF At
  <2>0. ASSUME call[c].pc \in CallLabel
        PROVE  f \in File /\ call[c] # IdleCall
    BY <2>0, AtBusy
  <2>1. CASE CreateRow(c)
    <3>1. f \in File /\ call[c] # IdleCall
      BY <2>1, <2>0 DEF CreateRow, CallLabel
    <3>2. StoreTypeOK' /\ JobTypeOK'
      BY <2>1, <3>1 DEF CreateRow, InsertRow, StoreTypeOK, JobTypeOK, FileState
    <3>3. UploadTypeOK'
      BY <2>1, <3>1, GotoType DEF CreateRow
    <3> QED  BY <3>2, <3>3
  <2>2. CASE CompleteMultipart(c)
    <3>1. f \in File /\ call[c] # IdleCall
      BY <2>2, <2>0 DEF CompleteMultipart, CallLabel
    <3>2. StoreTypeOK' /\ JobTypeOK'
      BY <2>2, <3>1 DEF CompleteMultipart, AssembleObject, StoreTypeOK,
                        JobTypeOK
    <3>3. UploadTypeOK'
      BY <2>2, <3>1, GotoType DEF CompleteMultipart, CallLabel
    <3> QED  BY <3>2, <3>3
  <2>3. CASE CheckSize(c)
    <3>1. f \in File /\ call[c] # IdleCall
      BY <2>3, <2>0 DEF CheckSize, CallLabel
    <3>2. StoreTypeOK' /\ JobTypeOK'
      BY <2>3 DEF CheckSize, StoreTypeOK, JobTypeOK, storeVars
    <3>3. UploadTypeOK'
      BY <2>3, <3>1, GotoType DEF CheckSize, CallLabel
    <3> QED  BY <3>2, <3>3
  <2>4. CASE DiscardMissized(c)
    <3>1. f \in File /\ call[c] # IdleCall
      BY <2>4, <2>0 DEF DiscardMissized, CallLabel
    <3>2. StoreTypeOK' /\ JobTypeOK'
      BY <2>4, <3>1 DEF DiscardMissized, DeleteObject, StoreTypeOK, JobTypeOK
    <3>3. UploadTypeOK'
      BY <2>4, <3>1, GotoType DEF DiscardMissized, CallLabel
    <3> QED  BY <3>2, <3>3
  <2>5. CASE MarkRejected(c)
    <3>1. f \in File /\ call[c] # IdleCall
      BY <2>5, <2>0 DEF MarkRejected, CallLabel
    <3>2. StoreTypeOK' /\ JobTypeOK'
      BY <2>5, <3>1 DEF MarkRejected, SetTombstone, StoreTypeOK, JobTypeOK,
                        FileState
    <3>3. UploadTypeOK'
      BY <2>5, <3>1, GotoType DEF MarkRejected
    <3> QED  BY <3>2, <3>3
  <2>6. CASE MarkUploaded(c)
    <3>1. f \in File /\ call[c] # IdleCall
      BY <2>6, <2>0 DEF MarkUploaded, CallLabel
    <3>2. StoreTypeOK' /\ JobTypeOK'
      BY <2>6, <3>1 DEF MarkUploaded, SetState, StoreTypeOK, JobTypeOK,
                        FileState
    <3>3. UploadTypeOK'
      BY <2>6, <3>1, GotoType DEF MarkUploaded, CallLabel
    <3> QED  BY <3>2, <3>3
  <2>7. CASE Enqueue(c)
    <3>1. f \in File /\ call[c] # IdleCall
      BY <2>7, <2>0 DEF Enqueue, CallLabel
    <3>2. StoreTypeOK' /\ JobTypeOK'
      BY <2>7, <3>1, JobType DEF Enqueue, StoreTypeOK, storeVars
    <3>3. UploadTypeOK'
      BY <2>7, <3>1, GotoType DEF Enqueue
    <3> QED  BY <3>2, <3>3
  <2>8. CASE AbortOwn(c)
    <3>1. f \in File /\ call[c] # IdleCall
      BY <2>8, <2>0 DEF AbortOwn, CallLabel
    <3>2. StoreTypeOK' /\ JobTypeOK'
      BY <2>8, <3>1 DEF AbortOwn, AbortMultipart, StoreTypeOK, JobTypeOK
    <3>3. UploadTypeOK'
      BY <2>8, <3>1, GotoType DEF AbortOwn, CallLabel, DeletionLabel
    <3> QED  BY <3>2, <3>3
  <2>9. CASE DeleteOwnedStep(c)
    <3>1. PICK to \in DeletionLabel \cup {"done"} :
            DeletionStep(call[c].pc, to, f) /\ Goto(c, to)
      BY <2>9 DEF DeleteOwnedStep
    <3>2. call[c].pc \in DeletionLabel
      BY <3>1 DEF DeletionStep, FindRow, AbortStep, OrphanHead,
                  DeleteObjectStep, DeleteRowStep, DeletionLabel
    <3>3. f \in File /\ call[c] # IdleCall
      BY <3>2, <2>0 DEF CallLabel
    <3>4. StoreTypeOK' /\ JobTypeOK'
      BY <2>9, <3>1, <3>3, DeletionType DEF DeleteOwnedStep, JobTypeOK
    <3>5. UploadTypeOK'
      BY <3>1, <3>3, GotoType DEF CallLabel
    <3> QED  BY <3>4, <3>5
  <2> QED
    BY <1>2, <2>1, <2>2, <2>3, <2>4, <2>5, <2>6, <2>7, <2>8, <2>9
    DEF CallStep
<1>3. ASSUME NEW c \in Call, CutCall(c)
      PROVE  StoreTypeOK' /\ JobTypeOK' /\ UploadTypeOK'
  BY <1>3, CallAssumption
  DEF CutCall, StoreTypeOK, JobTypeOK, UploadTypeOK, storeVars
<1>4. ASSUME NEW c \in Call, NEW f \in File,
             \/ InitiateUpload(c, f)
             \/ CompleteUpload(c, f)
             \/ AbortUpload(c, f)
             \/ DeleteOwnedFile(c, f)
      PROVE  StoreTypeOK' /\ JobTypeOK' /\ UploadTypeOK'
  <2>1. StoreTypeOK' /\ JobTypeOK'
    BY <1>4 DEF InitiateUpload, CompleteUpload, AbortUpload, DeleteOwnedFile,
                StoreTypeOK, JobTypeOK, storeVars
  <2>2. UploadTypeOK'
    BY <1>4, BeginType DEF InitiateUpload, CompleteUpload, AbortUpload,
                           DeleteOwnedFile, CallLabel, DeletionLabel
  <2> QED  BY <2>1, <2>2
<1>5. ASSUME NEW f \in File, GetUploadStatus(f) \/ ListFiles(f)
      PROVE  StoreTypeOK' /\ JobTypeOK' /\ UploadTypeOK'
  BY <1>5 DEF GetUploadStatus, ListFiles, StoreTypeOK, JobTypeOK, UploadTypeOK, storeVars
<1> QED
  BY <1>1, <1>2, <1>3, <1>4, <1>5 DEF UploadNext

-----------------------------------------------------------------------------

LEMMA RunBusy ==
  ASSUME ScanTypeOK, NEW w \in Worker, run[w].pc \in RunLabel
  PROVE  run[w] # IdleRun /\ run[w].file \in File /\ run[w].lock \in BOOLEAN
BY DEF ScanTypeOK, IdleRun, InRun, RunLabel

LEMMA RunGotoType ==
  ASSUME ScanTypeOK, JobTypeOK, NEW w \in Worker, run[w] # IdleRun,
         UNCHANGED <<sweep, runFaults, crashes>>,
         \/ \E label \in RunLabel : RunGoto(w, label)
         \/ Throw(w)
  PROVE  ScanTypeOK' /\ JobTypeOK'
<1>1. run[w].file \in File
  BY DEF ScanTypeOK
<1>2. JobTypeOK'
  BY <1>1, JobType DEF RunGoto, Throw, JobTypeOK
<1>3. run[w] \in [pc: RunLabel, file: File, lock: BOOLEAN]
  BY DEF ScanTypeOK
<1>4. ASSUME Throw(w)  PROVE ScanTypeOK'
  <2>1. run' = [run EXCEPT ![w] = IdleRun]
    BY <1>4 DEF Throw
  <2> QED  BY <2>1 DEF ScanTypeOK
<1>5. ASSUME NEW label \in RunLabel, RunGoto(w, label)  PROVE ScanTypeOK'
  <2>1. InRun(label, run[w].file, run[w].lock) \in [pc: RunLabel, file: File, lock: BOOLEAN]
    BY <1>3 DEF InRun
  <2> QED  BY <1>5, <2>1 DEF ScanTypeOK, RunGoto
<1> QED  BY <1>2, <1>4, <1>5

LEMMA RunStepType ==
  ASSUME StoreTypeOK, JobTypeOK, ScanTypeOK, NEW w \in Worker, RunStep(w)
  PROVE  StoreTypeOK' /\ JobTypeOK' /\ ScanTypeOK'
<1> DEFINE f == run[w].file
<1> USE DEF RunAt
<1>0. run[w] # IdleRun /\ f \in File
  BY RunBusy DEF RunStep, FindFile, ClaimRow, ReadHead, ScanBody, MarkReady,
                 RejectObject, RejectRow, CompleteRun, RunLabel
<1>1. CASE FindFile(w)
  BY <1>0, <1>1, RunGotoType DEF FindFile, StoreTypeOK, storeVars, RunLabel
<1>2. CASE ClaimRow(w)
  <2>1. StoreTypeOK'
    BY <1>0, <1>2 DEF ClaimRow, SetState, StoreTypeOK, FileState
  <2> QED  BY <2>1, <1>0, <1>2, RunGotoType DEF ClaimRow, RunLabel
<1>3. CASE ReadHead(w)
  BY <1>0, <1>3, RunGotoType DEF ReadHead, StoreTypeOK, storeVars, RunLabel
<1>4. CASE ScanBody(w)
  BY <1>0, <1>4, RunGotoType DEF ScanBody, StoreTypeOK, storeVars, RunLabel
<1>5. CASE MarkReady(w)
  <2>1. StoreTypeOK'
    BY <1>0, <1>5 DEF MarkReady, SetState, StoreTypeOK, FileState
  <2> QED  BY <2>1, <1>0, <1>5, RunGotoType DEF MarkReady, RunLabel
<1>6. CASE RejectObject(w)
  <2>1. StoreTypeOK'
    BY <1>0, <1>6 DEF RejectObject, DeleteObject, StoreTypeOK
  <2> QED  BY <2>1, <1>0, <1>6, RunGotoType DEF RejectObject, RunLabel
<1>7. CASE RejectRow(w)
  <2>1. StoreTypeOK'
    BY <1>0, <1>7 DEF RejectRow, SetTombstone, StoreTypeOK, FileState
  <2> QED  BY <2>1, <1>0, <1>7, RunGotoType DEF RejectRow, RunLabel
<1>8. CASE CompleteRun(w)
  <2>1. JobTypeOK'
    BY <1>0, <1>8, JobType DEF CompleteRun, JobTypeOK
  <2>2. StoreTypeOK' /\ ScanTypeOK'
    BY <1>8 DEF CompleteRun, StoreTypeOK, ScanTypeOK, storeVars
  <2> QED  BY <2>1, <2>2
<1> QED
  BY <1>1, <1>2, <1>3, <1>4, <1>5, <1>6, <1>7, <1>8 DEF RunStep

LEMMA ScanType ==
  ASSUME TypeOK, ScanNext, UNCHANGED <<callVars, purgeVars, downloadVars>>
  PROVE  TypeOK'
<1> USE DEF TypeOK
<1>1. UploadTypeOK' /\ PurgeTypeOK' /\ DownloadTypeOK'
  BY DEF UploadTypeOK, PurgeTypeOK, DownloadTypeOK, callVars, purgeVars,
         downloadVars
<1>2. ASSUME NEW w \in Worker, RunStep(w)
      PROVE  StoreTypeOK' /\ JobTypeOK' /\ ScanTypeOK'
  BY <1>2, RunStepType
<1>3. ASSUME NEW w \in Worker, NEW f \in File, RequeueRow(w, f)
      PROVE  StoreTypeOK' /\ JobTypeOK' /\ ScanTypeOK'
  BY <1>3 DEF RequeueRow, SetState, StoreTypeOK, JobTypeOK, ScanTypeOK,
              InSweep, FileState
<1>4. ASSUME NEW w \in Worker, NEW f \in File, RequeueJob(w, f)
      PROVE  StoreTypeOK' /\ JobTypeOK' /\ ScanTypeOK'
  <2>1. StoreTypeOK' /\ JobTypeOK'
    BY <1>4, JobType DEF RequeueJob, StoreTypeOK, storeVars
  <2>2. ScanTypeOK'
    BY <1>4 DEF RequeueJob, ScanTypeOK, InSweep
  <2> QED  BY <2>1, <2>2
<1>5. ASSUME NEW w \in Worker, LoseLock(w)
      PROVE  StoreTypeOK' /\ JobTypeOK' /\ ScanTypeOK'
  <2>1. run[w] # IdleRun
    BY <1>5 DEF LoseLock, IdleRun, InRun
  <2> QED
    BY <2>1, <1>5 DEF LoseLock, InRun, StoreTypeOK, JobTypeOK, ScanTypeOK,
                      storeVars
<1>6. ASSUME NEW w \in Worker, AttemptThrows(w)
      PROVE  StoreTypeOK' /\ JobTypeOK' /\ ScanTypeOK'
  <2>1. run[w].file \in File
    BY <1>6 DEF AttemptThrows, ScanTypeOK
  <2>2. StoreTypeOK' /\ JobTypeOK'
    BY <1>6, <2>1, JobType DEF AttemptThrows, Throw, StoreTypeOK, JobTypeOK,
                               storeVars
  <2>3. ScanTypeOK'
    BY <1>6, ScanAssumption DEF AttemptThrows, Throw, ScanTypeOK
  <2> QED  BY <2>2, <2>3
<1>7. ASSUME NEW w \in Worker, RequeueStaleScans(w)
      PROVE  StoreTypeOK' /\ JobTypeOK' /\ ScanTypeOK'
  BY <1>7 DEF RequeueStaleScans, InSweep, StoreTypeOK, JobTypeOK, ScanTypeOK,
              storeVars
<1>8. ASSUME NEW w \in Worker, NEW f \in File, TakeJob(w, f)
      PROVE  StoreTypeOK' /\ JobTypeOK' /\ ScanTypeOK'
  <2>1. StoreTypeOK' /\ JobTypeOK'
    BY <1>8, JobType DEF TakeJob, StoreTypeOK, storeVars
  <2>2. ScanTypeOK'
    BY <1>8 DEF TakeJob, ScanTypeOK, InRun, RunLabel
  <2> QED  BY <2>1, <2>2
<1>9. ASSUME NEW f \in File, StalledCheck(f)
      PROVE  StoreTypeOK' /\ JobTypeOK' /\ ScanTypeOK'
  <2>1. JobTypeOK'
    BY <1>9, JobType DEF StalledCheck
  <2> QED
    BY <2>1, <1>9 DEF StalledCheck, StoreTypeOK, ScanTypeOK, storeVars,
                      scanVars
<1> QED
  BY <1>1, <1>2, <1>3, <1>4, <1>5, <1>6, <1>7, <1>8, <1>9
  DEF ScanNext, SweepStep

-----------------------------------------------------------------------------

LEMMA PurgeType ==
  ASSUME TypeOK, PurgeNext, UNCHANGED <<job, callVars, scanVars, downloadVars>>
  PROVE  TypeOK'
<1> USE DEF TypeOK
<1>1. JobTypeOK' /\ UploadTypeOK' /\ ScanTypeOK' /\ DownloadTypeOK'
  BY DEF JobTypeOK, UploadTypeOK, ScanTypeOK, DownloadTypeOK, callVars,
         scanVars, downloadVars
<1>2. PICK p \in Purger : PurgeStep(p) \/ ExpireReadyFiles(p) \/ PurgeThrows(p)
  BY DEF PurgeNext
<1> USE DEF PurgeTypeOK, InPurge, PurgePass, PurgeLabel, DeletionLabel,
            IdlePurge
<1>3. CASE ExpireReadyFiles(p)
  BY <1>1, <1>3 DEF ExpireReadyFiles, StartPass, StoreTypeOK, storeVars
<1>4. CASE PurgeThrows(p)
  BY <1>1, <1>4, PurgeAssumption DEF PurgeThrows, StoreTypeOK, storeVars
<1>5. ASSUME NEW f \in File, ExpireObject(p, f)
      PROVE  StoreTypeOK' /\ PurgeTypeOK'
  BY <1>5 DEF ExpireObject, DeleteObject, Enter, StoreTypeOK
<1>6. CASE ExpireRow(p)
  <2>1. purge[p].file \in File
    BY <1>6 DEF ExpireRow
  <2>2. StoreTypeOK'
    BY <1>6, <2>1 DEF ExpireRow, SetTombstone, StoreTypeOK, FileState
  <2>3. PurgeTypeOK'
    BY <1>6 DEF ExpireRow, BackTo
  <2> QED  BY <1>1, <2>2, <2>3
<1>7. CASE PurgeGhostRows(p)
  BY <1>1, <1>7 DEF PurgeGhostRows, StartPass, StoreTypeOK, storeVars
<1>8. ASSUME NEW f \in File, PurgeTombstone(p, f)
      PROVE  StoreTypeOK' /\ PurgeTypeOK'
  BY <1>8 DEF PurgeTombstone, DeleteRow, StoreTypeOK, FileState
<1>9. CASE ReapAbandonedUploads(p)
  BY <1>1, <1>9 DEF ReapAbandonedUploads, StartPass, StoreTypeOK, storeVars
<1>10. ASSUME NEW f \in File, Reap(p, f)
       PROVE  StoreTypeOK' /\ PurgeTypeOK'
  BY <1>10 DEF Reap, Enter, StoreTypeOK, storeVars
<1>11. CASE ReapStep(p)
  <2>1. PICK to \in DeletionLabel \cup {"done"} :
          /\ DeletionStep(purge[p].pc, to, purge[p].file)
          /\ IF to = "done" THEN BackTo(p, "reaping")
             ELSE purge' = [purge EXCEPT
                              ![p] = InPurge(to, @.todo, @.file)]
    BY <1>11 DEF ReapStep
  <2>2. purge[p].pc \in DeletionLabel
    BY <2>1 DEF DeletionStep, FindRow, AbortStep, OrphanHead,
                DeleteObjectStep, DeleteRowStep
  <2>3. purge[p].file \in File /\ purge[p].todo \in SUBSET File
    BY <2>2
  <2>4. StoreTypeOK'
    BY <2>1, <2>3, DeletionType
  <2>5. purgeFaults' = purgeFaults
    BY <1>11 DEF ReapStep
  <2>6. PurgeTypeOK'
    BY <2>1, <2>3, <2>5 DEF BackTo
  <2> QED  BY <1>1, <2>4, <2>6
<1>12. CASE SweepDone(p)
  BY <1>1, <1>12 DEF SweepDone, StoreTypeOK, storeVars
<1> QED
  BY <1>1, <1>2, <1>3, <1>4, <1>5, <1>6, <1>7, <1>8, <1>9, <1>10, <1>11, <1>12
  DEF PurgeStep

LEMMA DownloadType ==
  ASSUME TypeOK, DownloadNext, UNCHANGED <<job, callVars, scanVars, purgeVars>>
  PROVE  TypeOK'
<1> USE DEF TypeOK
<1>1. JobTypeOK' /\ UploadTypeOK' /\ ScanTypeOK' /\ PurgeTypeOK'
  BY DEF JobTypeOK, UploadTypeOK, ScanTypeOK, PurgeTypeOK, callVars,
         scanVars, purgeVars
<1>2. StoreTypeOK'
  BY DEF DownloadNext, SignDownloadUrl, RefuseUrl, VerifyPasswordAndGetUrl,
         StoreTypeOK, storeVars
<1>3. DownloadTypeOK'
  BY DEF DownloadNext, SignDownloadUrl, RefuseUrl, VerifyPasswordAndGetUrl,
         DownloadTypeOK, InAsk, IdleAsk
<1> QED  BY <1>1, <1>2, <1>3

LEMMA ProcessDiesType ==
  ASSUME TypeOK, NEW w \in Worker, ProcessDies(w), crashes' \in 0..MaxCrashes
  PROVE  TypeOK'
<1> USE DEF TypeOK, ProcessDies, ScanDies
<1>1. StoreTypeOK' /\ JobTypeOK' /\ UploadTypeOK' /\ DownloadTypeOK'
  BY DEF StoreTypeOK, JobTypeOK, UploadTypeOK, DownloadTypeOK, storeVars,
         callVars, downloadVars
<1>2. ScanTypeOK'
  BY DEF ScanTypeOK, IdleSweep, InSweep
<1>3. PurgeTypeOK'
  BY DEF PurgeDies, PurgeTypeOK, purgeVars
<1> QED  BY <1>1, <1>2, <1>3

\* Every variable keeps its type, whatever the instance.
THEOREM TypeCorrect == Spec => []TypeOK
<1>1. Init => TypeOK
  BY CallAssumption, ScanAssumption, PurgeAssumption
  DEF Init, StoreInit, QueueInit, UploadInit, ScanInit, PurgeInit,
      DownloadInit, TypeOK, StoreTypeOK, JobTypeOK, UploadTypeOK, ScanTypeOK,
      PurgeTypeOK, DownloadTypeOK, NoJob, Job, JobStatus, IdleSweep, InSweep
<1>2. TypeOK /\ [Next]_vars => TypeOK'
  <2> SUFFICES ASSUME TypeOK, [Next]_vars  PROVE TypeOK'
    OBVIOUS
  <2>1. CASE UNCHANGED vars
    BY <2>1 DEF vars, storeVars, callVars, scanVars, purgeVars, downloadVars,
                TypeOK, StoreTypeOK, JobTypeOK, UploadTypeOK, ScanTypeOK,
                PurgeTypeOK, DownloadTypeOK
  <2>2. ASSUME NEW f \in File, Expire(f) \/ DropStaleMultipart(f)
        PROVE  TypeOK'
    BY <2>2 DEF Expire, DropStaleMultipart, AbortMultipart,
                callVars, scanVars, purgeVars, downloadVars,
                TypeOK, StoreTypeOK, JobTypeOK, UploadTypeOK, ScanTypeOK,
                PurgeTypeOK, DownloadTypeOK
  <2>3. ASSUME NEW w \in Worker, KillWorker(w) \/ SweepThrows(w)
        PROVE  TypeOK'
    <3>1. crashes' \in 0..MaxCrashes
      BY <2>3, ScanAssumption DEF KillWorker, SweepThrows, TypeOK, ScanTypeOK
    <3> QED
      BY <2>3, <3>1, ProcessDiesType DEF KillWorker, SweepThrows
  <2> QED
    BY <2>1, <2>2, <2>3, UploadType, ScanType, PurgeType, DownloadType
    DEF Next
<1> QED
  BY <1>1, <1>2, PTL DEF Spec

=============================================================================
