------------------------------ MODULE ScanQueue ------------------------------
(***************************************************************************)
(* The BullMQ queue `file-validation`: what ScanQueueService adds and the  *)
(* life of one job in Redis.  The job id is the file id, so a file has at  *)
(* most one job; `removeOnComplete: true` deletes a finished job,          *)
(* `removeOnFail: false` keeps a failed one for ever.  Waiting and delayed *)
(* (the exponential backoff) are one state: nothing here measures the      *)
(* delay.                                                                  *)
(***************************************************************************)
EXTENDS Store

CONSTANTS
  Attempts,       \* attempts of enqueueValidation
  MaxStalled      \* maxStalledCount of the BullMQ Worker

ASSUME QueueAssumption ==
  /\ Attempts \in Nat \ {0}
  /\ MaxStalled \in Nat

VARIABLE job      \* the job of each file

JobStatus == {"none", "waiting", "active", "failed"}

JobTypeOK ==
  job \in [File -> [status: JobStatus, tries: Nat, stalled: Nat]]

Job(status, tries, stalled) ==
  [status |-> status, tries |-> tries, stalled |-> stalled]

NoJob == Job("none", 0, 0)
NewJob == Job("waiting", 0, 0)

QueueInit == job = [f \in File |-> NoJob]

\* Mutant: no jobId, so that every call adds a job.
EnqueueValidationAnew(f) == job' = [job EXCEPT ![f] = NewJob]

\* Queue.add with jobId = fileId: a no-op when a job of that id is in Redis,
\* in any state, the failed set included.
EnqueueValidation(f) ==
  job' = IF job[f].status = "none" THEN [job EXCEPT ![f] = NewJob] ELSE job

Queued(f) == job[f].status \in {"waiting", "active"}

ActivateJob(f) ==
  job' = [job EXCEPT ![f] = Job("active", @.tries, @.stalled)]

CompleteJob(f) == job' = [job EXCEPT ![f] = NoJob]

\* An attempt threw: back to delayed, or to the failed set after the last.
FailAttempt(f) ==
  job' = [job EXCEPT
            ![f] = Job(IF @.tries + 1 < Attempts THEN "waiting" ELSE "failed",
                       @.tries + 1, @.stalled)]

\* The lock of an active job ran out: a live worker's stalled check moves it
\* back to waiting, or to the failed set when it has stalled too often.
StallJob(f) ==
  job' = [job EXCEPT
            ![f] = IF @.stalled < MaxStalled
                     THEN Job("waiting", @.tries, @.stalled + 1)
                     ELSE Job("failed", @.tries, @.stalled)]

=============================================================================
