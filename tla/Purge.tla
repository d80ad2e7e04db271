-------------------------------- MODULE Purge --------------------------------
(***************************************************************************)
(* PurgeService.runDailySweep, run by the purge consumer of the worker     *)
(* process on the 03:00 cron job: three passes, each a query and a loop    *)
(* over what it returned.  A pass works on its own list while the API and  *)
(* the scans go on.  A throw ends the job, which has one attempt.          *)
(***************************************************************************)
EXTENDS Deletion

CONSTANTS
  Purger,          \* worker processes that consume the purge queue
  MaxPurgeFaults   \* bound: sweeps cut by a service that failed

ASSUME PurgeAssumption == MaxPurgeFaults \in Nat

VARIABLES
  purge,           \* pass or label, ids left, and the file of each sweep
  purgeFaults

purgeVars == <<purge, purgeFaults>>

PurgePass == {"expiring", "ghosts", "reaping"}
PurgeLabel == {"expireRow"} \cup DeletionLabel

InPurge(label, ids, f) == [pc |-> label, todo |-> ids, file |-> f]

IdlePurge == InPurge("idle", {}, NoFile)

PurgeTypeOK ==
  /\ purge \in [Purger -> {IdlePurge}
                  \cup [pc: PurgePass, todo: SUBSET File, file: {NoFile}]
                  \cup [pc: PurgeLabel, todo: SUBSET File, file: File]]
  /\ purgeFaults \in 0..MaxPurgeFaults

PurgeInit ==
  /\ purge = [p \in Purger |-> IdlePurge]
  /\ purgeFaults = 0

StartPass(p, pass, ids) ==
  purge' = [purge EXCEPT ![p] = InPurge(pass, ids, NoFile)]

\* The loop body starts on f, or is done with it.
Enter(p, f, label) ==
  purge' = [purge EXCEPT ![p] = InPurge(label, @.todo \ {f}, f)]

BackTo(p, pass) ==
  purge' = [purge EXCEPT ![p] = InPurge(pass, @.todo, NoFile)]

PassDone(p, pass) == purge[p].pc = pass /\ purge[p].todo = {}

-----------------------------------------------------------------------------
(* Pass 1, expireReadyFiles *)

ExpireReadyFiles(p) ==
  /\ purge[p] = IdlePurge
  /\ StartPass(p, "expiring",
               {f \in File : state[f] = "ready" /\ f \in overdue})
  /\ UNCHANGED <<storeVars, purgeFaults>>

\* Mutant: tombstones the row and leaves the object to another job.
ExpireObjectLater(p, f) ==
  /\ purge[p].pc = "expiring"
  /\ f \in purge[p].todo
  /\ Enter(p, f, "expireRow")
  /\ UNCHANGED <<storeVars, purgeFaults>>

\* The key is the one the query read.  When it was null there is no call,
\* and no object either: DeleteObject on an absent object is the same step.
ExpireObject(p, f) ==
  /\ purge[p].pc = "expiring"
  /\ f \in purge[p].todo
  /\ DeleteObject(f)
  /\ Enter(p, f, "expireRow")
  /\ UNCHANGED <<state, keyed, multipart, content, overdue, purgeFaults>>

\* updateMany, guarded on the state: the only conditional write of the code.
ExpireRow(p) ==
  LET f == purge[p].file IN
  /\ purge[p].pc = "expireRow"
  /\ IF state[f] = "ready" THEN SetTombstone(f, "expired")
                           ELSE UNCHANGED <<state, keyed>>
  /\ BackTo(p, "expiring")
  /\ UNCHANGED <<multipart, object, content, overdue, purgeFaults>>

-----------------------------------------------------------------------------
(* Pass 2, purgeGhostRows: some of the tombstones are over 7 days old. *)

\* Mutant: takes every row out of date for a tombstone.
PurgeGhostRowsOverdue(p) ==
  /\ PassDone(p, "expiring")
  /\ \E old \in SUBSET {f \in File : Exists(f) /\ f \in overdue} :
       StartPass(p, "ghosts", old)
  /\ UNCHANGED <<storeVars, purgeFaults>>

PurgeGhostRows(p) ==
  /\ PassDone(p, "expiring")
  /\ \E old \in SUBSET {f \in File : state[f] \in {"expired", "rejected"}} :
       StartPass(p, "ghosts", old)
  /\ UNCHANGED <<storeVars, purgeFaults>>

PurgeTombstone(p, f) ==
  /\ purge[p].pc = "ghosts"
  /\ f \in purge[p].todo
  /\ DeleteRow(f)
  /\ purge' = [purge EXCEPT ![p] = InPurge(@.pc, @.todo \ {f}, @.file)]
  /\ UNCHANGED <<multipart, object, content, overdue, purgeFaults>>

-----------------------------------------------------------------------------
(* Pass 3, reapAbandonedUploads: some pending rows are over 48 hours old.  *)
(* The ids are handed to deleteFileCompletely, which reads the row again   *)
(* and deletes it whatever its state is by then.                           *)

ReapAbandonedUploads(p) ==
  /\ PassDone(p, "ghosts")
  /\ \E old \in SUBSET {f \in File : state[f] = "pending"} :
       StartPass(p, "reaping", old)
  /\ UNCHANGED <<storeVars, purgeFaults>>

Reap(p, f) ==
  /\ purge[p].pc = "reaping"
  /\ f \in purge[p].todo
  /\ Enter(p, f, "findUnique")
  /\ UNCHANGED <<storeVars, purgeFaults>>

ReapStep(p) ==
  /\ \E to \in DeletionLabel \cup {"done"} :
       /\ DeletionStep(purge[p].pc, to, purge[p].file)
       /\ IF to = "done" THEN BackTo(p, "reaping")
                         ELSE purge' = [purge EXCEPT
                                         ![p] = InPurge(to, @.todo, @.file)]
  /\ UNCHANGED purgeFaults

SweepDone(p) ==
  /\ PassDone(p, "reaping")
  /\ purge' = [purge EXCEPT ![p] = IdlePurge]
  /\ UNCHANGED <<storeVars, purgeFaults>>

-----------------------------------------------------------------------------

PurgeThrows(p) ==
  /\ purge[p] # IdlePurge
  /\ purgeFaults < MaxPurgeFaults
  /\ purgeFaults' = purgeFaults + 1
  /\ purge' = [purge EXCEPT ![p] = IdlePurge]
  /\ UNCHANGED storeVars

\* What the death of process p does here.
PurgeDies(p) ==
  /\ purge' = [purge EXCEPT ![p] = IdlePurge]
  /\ UNCHANGED <<storeVars, purgeFaults>>

\* One await of a sweep in progress
PurgeStep(p) ==
  \/ ExpireRow(p)
  \/ PurgeGhostRows(p)
  \/ ReapAbandonedUploads(p)
  \/ ReapStep(p)
  \/ SweepDone(p)
  \/ \E f \in File : ExpireObject(p, f) \/ PurgeTombstone(p, f) \/ Reap(p, f)

PurgeNext ==
  \E p \in Purger :
    \/ PurgeStep(p)
    \/ ExpireReadyFiles(p)
    \/ PurgeThrows(p)

=============================================================================
