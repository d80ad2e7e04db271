------------------------------ MODULE LockProofs ------------------------------
(***************************************************************************)
(* One scan at a time: a run holds the lock of the one active job of its   *)
(* file.  Only the holder of the lock finishes or fails the job, and the   *)
(* stalled check touches an active job only when nobody holds its lock.    *)
(***************************************************************************)
EXTENDS DatashareProofs

\* What a step does to the runs and jobs that are not its own
LEMMA LocksKept ==
  ASSUME LockOK, UNCHANGED run,
         \A f \in File : job[f].status = "active" => job'[f] = job[f],
         ScanTypeOK
  PROVE  LockOK'
BY DEF LockOK, ScanTypeOK, IdleRun, InRun

\* Worker w leaves its run, and finishes or fails the job if it owned it.
LEMMA RunLeft ==
  ASSUME LockOK, ScanTypeOK, JobTypeOK, NEW w \in Worker, run[w] # IdleRun,
         run' = [run EXCEPT ![w] = IdleRun],
         \A f \in File : f # run[w].file \/ ~run[w].lock => job'[f] = job[f]
  PROVE  LockOK'
<1>1. run'[w] = IdleRun /\ \A v \in Worker \ {w} : run'[v] = run[v]
  BY DEF ScanTypeOK
<1>2. IdleRun.lock = FALSE
  BY DEF IdleRun, InRun
<1>3. \A v \in Worker : run'[v].lock => v # w /\ run[v].lock
  BY <1>1, <1>2
<1>4. \A v \in Worker : run[v].lock => run[v].file \in File
  BY DEF ScanTypeOK, IdleRun, InRun
<1>5. \A v \in Worker \ {w} : run[v].lock => job'[run[v].file] = job[run[v].file]
  BY <1>4 DEF LockOK
<1> QED  BY <1>1, <1>2, <1>3, <1>5 DEF LockOK

\* Worker w goes on in its run.
LEMMA RunWentOn ==
  ASSUME LockOK, ScanTypeOK, NEW w \in Worker, NEW label, run[w] # IdleRun,
         label # "idle", RunGoto(w, label)
  PROVE  LockOK'
<1>1. /\ run'[w].file = run[w].file
      /\ run'[w].lock = run[w].lock
      /\ run'[w] # IdleRun
  BY DEF ScanTypeOK, RunGoto, IdleRun, InRun
<1>2. \A v \in Worker \ {w} : run'[v] = run[v]
  BY DEF ScanTypeOK, RunGoto
<1>3. job' = job
  BY DEF RunGoto
<1> QED  BY <1>1, <1>2, <1>3 DEF LockOK

LEMMA ThrowKeepsLocks ==
  ASSUME LockOK, ScanTypeOK, JobTypeOK, NEW w \in Worker, run[w] # IdleRun,
         Throw(w)
  PROVE  LockOK'
<1>1. run[w].file \in File
  BY DEF ScanTypeOK
<1>2. \A f \in File : f # run[w].file \/ ~run[w].lock => job'[f] = job[f]
  BY <1>1 DEF Throw, FailAttempt, JobTypeOK
<1> QED  BY <1>2, RunLeft DEF Throw

LEMMA RunStepKeepsLocks ==
  ASSUME LockOK, ScanTypeOK, JobTypeOK, NEW w \in Worker, RunStep(w)
  PROVE  LockOK'
<1>1. run[w] # IdleRun /\ run[w].file \in File
  BY RunBusy DEF RunStep, RunAt, FindFile, ClaimRow, ReadHead, ScanBody,
                 MarkReady, RejectObject, RejectRow, CompleteRun, RunLabel
<1>2. CASE CompleteRun(w)
  <2>1. \A f \in File : f # run[w].file \/ ~run[w].lock => job'[f] = job[f]
    BY <1>1, <1>2 DEF CompleteRun, CompleteJob, JobTypeOK
  <2> QED  BY <1>1, <1>2, <2>1, RunLeft DEF CompleteRun
<1>3. CASE ~CompleteRun(w)
  <2>1. Throw(w) \/ \E label \in RunLabel : RunGoto(w, label)
    BY <1>3 DEF RunStep, FindFile, ClaimRow, ReadHead, ScanBody, MarkReady,
                RejectObject, RejectRow, RunLabel
  <2>2. \A label \in RunLabel : label # "idle"
    BY DEF RunLabel
  <2> QED  BY <1>1, <2>1, <2>2, ThrowKeepsLocks, RunWentOn
<1> QED  BY <1>2, <1>3

LEMMA ScanKeepsLocks ==
  ASSUME LockOK, ScanTypeOK, JobTypeOK, ScanNext
  PROVE  LockOK'
<1>1. ASSUME NEW w \in Worker, NEW f \in File, RequeueRow(w, f)
      PROVE  LockOK'
  BY <1>1, LocksKept DEF RequeueRow
<1>2. ASSUME NEW w \in Worker, NEW f \in File, RequeueJob(w, f)
      PROVE  LockOK'
  BY <1>2, LocksKept DEF RequeueJob, EnqueueValidation, JobTypeOK
<1>3. ASSUME NEW w \in Worker, LoseLock(w)
      PROVE  LockOK'
  <2>1. /\ run'[w].file = run[w].file
        /\ run'[w].lock = FALSE
        /\ \A v \in Worker \ {w} : run'[v] = run[v]
        /\ job' = job
        /\ LocksMayLapse
    BY <1>3 DEF LoseLock, ScanTypeOK, InRun
  <2> QED  BY <2>1 DEF LockOK
<1>4. ASSUME NEW w \in Worker, AttemptThrows(w)
      PROVE  LockOK'
  BY <1>4, ThrowKeepsLocks DEF AttemptThrows
<1>5. ASSUME NEW w \in Worker, RequeueStaleScans(w)
      PROVE  LockOK'
  BY <1>5, LocksKept DEF RequeueStaleScans
<1>6. ASSUME NEW w \in Worker, NEW f \in File, TakeJob(w, f)
      PROVE  LockOK'
  <2>1. run'[w] = InRun("find", f, TRUE)
        /\ \A v \in Worker \ {w} : run'[v] = run[v]
    BY <1>6 DEF TakeJob, ScanTypeOK
  <2>2. job'[f].status = "active" /\ \A g \in File \ {f} : job'[g] = job[g]
    BY <1>6 DEF TakeJob, ActivateJob, Job, JobTypeOK
  <2>3. \A v \in Worker : run[v].lock => run[v].file \in File \ {f}
    BY <1>6 DEF TakeJob, LockOK, ScanTypeOK
  <2>4. InRun("find", f, TRUE).file = f /\ InRun("find", f, TRUE).lock = TRUE
        /\ InRun("find", f, TRUE) # IdleRun
    BY DEF InRun, IdleRun
  <2>5. \A v \in Worker \ {w} : run[v].lock => job'[run[v].file] = job[run[v].file]
    BY <2>2, <2>3
  <2>6. \A v \in Worker :
          run'[v].lock =>
            run'[v] # IdleRun /\ job'[run'[v].file].status = "active"
    <3> SUFFICES ASSUME NEW v \in Worker, run'[v].lock
                 PROVE  run'[v] # IdleRun
                        /\ job'[run'[v].file].status = "active"
      OBVIOUS
    <3>1. CASE v = w
      BY <2>1, <2>2, <2>4, <3>1
    <3>2. CASE v # w
      <4>1. run'[v] = run[v]
        BY <2>1, <3>2
      <4>2. run[v] # IdleRun /\ job[run[v].file].status = "active"
        BY <4>1 DEF LockOK
      <4> QED  BY <2>5, <3>2, <4>1, <4>2
    <3> QED  BY <3>1, <3>2
  <2>7. \A v \in Worker : ~LocksMayLapse /\ run'[v] # IdleRun => run'[v].lock
    BY <2>1, <2>4 DEF LockOK
  <2>8. \A u, v \in Worker :
          run'[u].lock /\ run'[v].lock /\ run'[u].file = run'[v].file => u = v
    <3> SUFFICES ASSUME NEW u \in Worker, NEW v \in Worker, run'[u].lock,
                        run'[v].lock, run'[u].file = run'[v].file
                 PROVE  u = v
      OBVIOUS
    <3>1. CASE u # w /\ v # w
      BY <2>1, <3>1 DEF LockOK
    <3>2. CASE u = w \/ v = w
      BY <2>1, <2>3, <2>4, <3>2
    <3> QED  BY <3>1, <3>2
  <2> QED  BY <2>6, <2>7, <2>8 DEF LockOK
<1>7. ASSUME NEW f \in File, StalledCheck(f)
      PROVE  LockOK'
  <2>1. run' = run /\ \A g \in File \ {f} : job'[g] = job[g]
    BY <1>7 DEF StalledCheck, StallJob, scanVars, JobTypeOK
  <2>2. \A v \in Worker : run[v].lock => run[v].file \in File \ {f}
    BY <1>7 DEF StalledCheck, ScanTypeOK, LockOK
  <2> QED  BY <2>1, <2>2 DEF LockOK
<1> QED
  BY <1>1, <1>2, <1>3, <1>4, <1>5, <1>6, <1>7, RunStepKeepsLocks
  DEF ScanNext, SweepStep

LEMMA LockNext ==
  ASSUME TypeOK, LockOK, [Next]_vars
  PROVE  LockOK'
<1> USE DEF TypeOK
<1>1. CASE UNCHANGED vars
  BY <1>1, LocksKept DEF vars, scanVars
<1>2. ASSUME UploadNext, UNCHANGED <<scanVars, purgeVars, downloadVars>>
      PROVE  LockOK'
  <2>1. run' = run
    BY <1>2 DEF scanVars
  <2>2. \/ UNCHANGED job
        \/ \E c \in Call : EnqueueValidation(call[c].file)
    BY <1>2 DEF UploadNext, CallStep, CreateRow, CompleteMultipart, CheckSize,
      DiscardMissized, MarkRejected, MarkUploaded, Enqueue, AbortOwn,
      DeleteOwnedStep, CutCall, InitiateUpload, CompleteUpload, AbortUpload,
      DeleteOwnedFile, GetUploadStatus, ListFiles
  <2>3. \A f \in File : job[f].status = "active" => job'[f] = job[f]
    BY <2>2 DEF EnqueueValidation, JobTypeOK
  <2> QED  BY <2>1, <2>3, LocksKept
<1>3. CASE PurgeNext /\ UNCHANGED <<job, callVars, scanVars, downloadVars>>
  BY <1>3, LocksKept DEF scanVars
<1>4. CASE DownloadNext /\ UNCHANGED <<job, callVars, scanVars, purgeVars>>
  BY <1>4, LocksKept DEF scanVars
<1>5. ASSUME NEW f \in File, Expire(f) \/ DropStaleMultipart(f)
      PROVE  LockOK'
  BY <1>5, LocksKept DEF Expire, DropStaleMultipart, scanVars
<1>6. ASSUME NEW w \in Worker, ProcessDies(w)
      PROVE  LockOK'
  <2>1. CASE run[w] = IdleRun
    <3>1. run' = run /\ job' = job
      BY <1>6, <2>1 DEF ProcessDies, ScanDies, ScanTypeOK
    <3> QED  BY <3>1, LocksKept
  <2>2. CASE run[w] # IdleRun
    BY <1>6, <2>2, RunLeft DEF ProcessDies, ScanDies
  <2> QED  BY <2>1, <2>2
<1> QED
  BY <1>1, <1>2, <1>3, <1>4, <1>5, <1>6, ScanKeepsLocks
  DEF Next, KillWorker, SweepThrows

\* Whoever holds a job's lock owns the one active job of its file.
THEOREM Locks == Spec => []LockOK
<1>1. Init => LockOK
  BY DEF Init, ScanInit, LockOK, IdleRun, InRun
<1>2. TypeOK /\ LockOK /\ [Next]_vars => LockOK'
  BY LockNext
<1> QED  BY TypeCorrect, <1>1, <1>2, PTL DEF Spec

\* Two workers scan the same file only after one has lost its lock, however
\* often the file is enqueued, requeued or found stalled.
THEOREM NoTwoScans == Spec => []OneScanAtATime
<1>1. LockOK => OneScanAtATime
  BY DEF LockOK, OneScanAtATime
<1> QED  BY Locks, <1>1, PTL

=============================================================================
