--------------------------------- MODULE Scan ---------------------------------
(***************************************************************************)
(* The validation half of the worker process: the BullMQ consumer of       *)
(* ScanWorker (one job at a time per process), ValidationService.validate, *)
(* and the hourly requeueStaleScans timer of the same process.             *)
(***************************************************************************)
EXTENDS ScanQueue

CONSTANTS
  Worker,          \* worker processes
  LocksMayLapse,   \* may a live run lose its job lock (blocked event loop)?
  SweepOn,         \* is the hourly sweep running?
  ScansAreQuick,   \* does a run leave `scanning` within 15 minutes?
  MaxRunFaults,    \* bound: attempts that throw for want of a service
  MaxCrashes       \* bound: worker processes killed

ASSUME ScanAssumption ==
  /\ {LocksMayLapse, SweepOn, ScansAreQuick} \subseteq BOOLEAN
  /\ MaxRunFaults \in Nat
  /\ MaxCrashes \in Nat

VARIABLES
  run,             \* the validation in progress in each worker
  sweep,           \* requeueStaleScans of each worker: ids left, id updated
  runFaults, crashes

scanVars == <<run, sweep, runFaults, crashes>>

RunLabel ==
  {"find", "claim", "readHead", "scanBody", "markReady", "discard",
   "markRejected", "finish"}

InRun(label, f, lock) == [pc |-> label, file |-> f, lock |-> lock]
InSweep(todo, marked) == [todo |-> todo, marked |-> marked]

IdleRun == InRun("idle", NoFile, FALSE)
IdleSweep == InSweep({}, {})

ScanTypeOK ==
  /\ run \in [Worker -> {IdleRun} \cup
                        [pc: RunLabel, file: File, lock: BOOLEAN]]
  /\ sweep \in [Worker -> [todo: SUBSET File, marked: SUBSET File]]
  /\ runFaults \in 0..MaxRunFaults
  /\ crashes \in 0..MaxCrashes

ScanInit ==
  /\ run = [w \in Worker |-> IdleRun]
  /\ sweep = [w \in Worker |-> IdleSweep]
  /\ runFaults = 0
  /\ crashes = 0

RunAt(w, label) == run[w].pc = label

RunGoto(w, label) ==
  /\ run' = [run EXCEPT ![w] = InRun(label, @.file, @.lock)]
  /\ UNCHANGED job

\* validate threw: the attempt fails, if this run still owns the job.
Throw(w) ==
  /\ run' = [run EXCEPT ![w] = IdleRun]
  /\ IF run[w].lock THEN FailAttempt(run[w].file) ELSE UNCHANGED job

-----------------------------------------------------------------------------
(* The consumer *)

TakeJob(w, f) ==
  /\ run[w] = IdleRun
  /\ job[f].status = "waiting"
  /\ ActivateJob(f)
  /\ run' = [run EXCEPT ![w] = InRun("find", f, TRUE)]
  /\ UNCHANGED <<storeVars, sweep, runFaults, crashes>>

LoseLock(w) ==
  /\ LocksMayLapse
  /\ run[w].lock
  /\ run' = [run EXCEPT ![w] = InRun(@.pc, @.file, FALSE)]
  /\ UNCHANGED <<storeVars, job, sweep, runFaults, crashes>>

StalledCheck(f) ==
  /\ job[f].status = "active"
  /\ ~ \E w \in Worker : run[w].lock /\ run[w].file = f
  /\ StallJob(f)
  /\ UNCHANGED <<storeVars, scanVars>>

-----------------------------------------------------------------------------
(* ValidationService.validate *)

\* verifyMagicBytes: the first bytes contradict the extension.
Spoofed(f) == content[f] = "spoofed"

\* ClamAvClient.scanBuffer: clamd answers FOUND.
Infected(f) == content[f] = "infected"

\* Mutant: scans whatever row is there.
FindFileAnyState(w) ==
  /\ RunAt(w, "find")
  /\ IF Exists(run[w].file) THEN RunGoto(w, "claim") ELSE RunGoto(w, "finish")
  /\ UNCHANGED <<storeVars, sweep, runFaults, crashes>>

\* Mutant: a row some run already claimed is skipped.
FindFileUnclaimed(w) ==
  /\ RunAt(w, "find")
  /\ IF state[run[w].file] = "uploaded" THEN RunGoto(w, "claim")
                                       ELSE RunGoto(w, "finish")
  /\ UNCHANGED <<storeVars, sweep, runFaults, crashes>>

FindFile(w) ==
  /\ RunAt(w, "find")
  /\ IF state[run[w].file] \in {"uploaded", "scanning"}
       THEN RunGoto(w, "claim")
       ELSE RunGoto(w, "finish")
  /\ UNCHANGED <<storeVars, sweep, runFaults, crashes>>

\* The write does not repeat the test FindFile made; P2025 if the row is gone.
ClaimRow(w) ==
  LET f == run[w].file IN
  /\ RunAt(w, "claim")
  /\ IF Exists(f) THEN SetState(f, "scanning") /\ RunGoto(w, "readHead")
                  ELSE UNCHANGED <<state, keyed>> /\ Throw(w)
  /\ UNCHANGED <<multipart, object, content, overdue,
                 sweep, runFaults, crashes>>

\* Mutant: a good signature is enough, as above the ClamAV cap.
ReadHeadOnly(w) ==
  LET f == run[w].file IN
  /\ RunAt(w, "readHead")
  /\ IF ~Stored(f) THEN Throw(w)
     ELSE RunGoto(w, IF Spoofed(f) THEN "discard"
                                               ELSE "markReady")
  /\ UNCHANGED <<storeVars, sweep, runFaults, crashes>>

\* A null storageKey and a key whose object is gone both throw.
ReadHead(w) ==
  LET f == run[w].file IN
  /\ RunAt(w, "readHead")
  /\ IF ~Stored(f) THEN Throw(w)
     ELSE RunGoto(w, IF Spoofed(f) THEN "discard"
                                               ELSE "scanBody")
  /\ UNCHANGED <<storeVars, sweep, runFaults, crashes>>

\* getObjectFull and scanBuffer: the verdict is on the bytes read here.
ScanBody(w) ==
  LET f == run[w].file IN
  /\ RunAt(w, "scanBody")
  /\ IF ~Stored(f) THEN Throw(w)
     ELSE RunGoto(w, IF Infected(f) THEN "discard"
                                                ELSE "markReady")
  /\ UNCHANGED <<storeVars, sweep, runFaults, crashes>>

MarkReady(w) ==
  LET f == run[w].file IN
  /\ RunAt(w, "markReady")
  /\ IF Exists(f) THEN SetState(f, "ready") /\ RunGoto(w, "finish")
                  ELSE UNCHANGED <<state, keyed>> /\ Throw(w)
  /\ UNCHANGED <<multipart, object, content, overdue,
                 sweep, runFaults, crashes>>

RejectObject(w) ==
  /\ RunAt(w, "discard")
  /\ DeleteObject(run[w].file)
  /\ RunGoto(w, "markRejected")
  /\ UNCHANGED <<state, keyed, multipart, content, overdue,
                 sweep, runFaults, crashes>>

RejectRow(w) ==
  LET f == run[w].file IN
  /\ RunAt(w, "markRejected")
  /\ IF Exists(f) THEN SetTombstone(f, "rejected") /\ RunGoto(w, "finish")
                  ELSE UNCHANGED <<state, keyed>> /\ Throw(w)
  /\ UNCHANGED <<multipart, object, content, overdue,
                 sweep, runFaults, crashes>>

\* validate returned: the job is completed, if this run still owns it.
CompleteRun(w) ==
  /\ RunAt(w, "finish")
  /\ run' = [run EXCEPT ![w] = IdleRun]
  /\ IF run[w].lock THEN CompleteJob(run[w].file) ELSE UNCHANGED job
  /\ UNCHANGED <<storeVars, sweep, runFaults, crashes>>

\* clamd, MinIO or PostgreSQL refused, broke or timed out an await.
AttemptThrows(w) ==
  /\ run[w] # IdleRun
  /\ runFaults < MaxRunFaults
  /\ runFaults' = runFaults + 1
  /\ Throw(w)
  /\ UNCHANGED <<storeVars, sweep, crashes>>

-----------------------------------------------------------------------------
(* requeueStaleScans *)

\* May f have been in `scanning` for 15 minutes?  Claiming the row renews its
\* updatedAt, so not one that a quick run has claimed.
MayBeStale(f) ==
  /\ state[f] = "scanning"
  /\ ScansAreQuick =>
       ~ \E w \in Worker :
           run[w].file = f /\ run[w].pc \notin {"find", "claim"}

RequeueStaleScans(w) ==
  /\ SweepOn
  /\ sweep[w] = IdleSweep
  /\ \E stale \in SUBSET {f \in File : MayBeStale(f)} :
       /\ stale # {}
       /\ sweep' = [sweep EXCEPT ![w] = InSweep(stale, {})]
  /\ UNCHANGED <<storeVars, job, run, runFaults, crashes>>

\* The update is by id alone, whatever the row has become since.
RequeueRow(w, f) ==
  /\ f \in sweep[w].todo
  /\ sweep[w].marked = {}
  /\ Exists(f)
  /\ SetState(f, "uploaded")
  /\ sweep' = [sweep EXCEPT ![w] = InSweep(@.todo \ {f}, {f})]
  /\ UNCHANGED <<multipart, object, content, overdue,
                 job, run, runFaults, crashes>>

RequeueJob(w, f) ==
  /\ f \in sweep[w].marked
  /\ EnqueueValidation(f)
  /\ sweep' = [sweep EXCEPT ![w] = InSweep(@.todo, {})]
  /\ UNCHANGED <<storeVars, run, runFaults, crashes>>

\* The row went between the query and the update: P2025 in a promise nobody
\* awaits (`void this.requeueStaleScans()`), which ends the Node process.
SweepRowGone(w) ==
  /\ sweep[w].marked = {}
  /\ \E f \in sweep[w].todo : ~Exists(f)

\* What the death of process w does here: its job stays active in Redis.
ScanDies(w) ==
  /\ run' = [run EXCEPT ![w] = IdleRun]
  /\ sweep' = [sweep EXCEPT ![w] = IdleSweep]
  /\ UNCHANGED <<storeVars, job, runFaults>>

\* One await of a validation in progress
RunStep(w) ==
  \/ FindFile(w)
  \/ ClaimRow(w)
  \/ ReadHead(w)
  \/ ScanBody(w)
  \/ MarkReady(w)
  \/ RejectObject(w)
  \/ RejectRow(w)
  \/ CompleteRun(w)

SweepStep(w) == \E f \in File : RequeueRow(w, f) \/ RequeueJob(w, f)

ScanNext ==
  \/ \E w \in Worker :
       \/ RunStep(w)
       \/ SweepStep(w)
       \/ LoseLock(w)
       \/ AttemptThrows(w)
       \/ RequeueStaleScans(w)
       \/ \E f \in File : TakeJob(w, f)
  \/ \E f \in File : StalledCheck(f)

=============================================================================
