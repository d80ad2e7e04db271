------------------------------ MODULE Invariants ------------------------------
(***************************************************************************)
(* The inductive invariant behind the safety properties of Datashare.  A   *)
(* thread keeps no copy of the row it read, only its label, so each part   *)
(* says what a thread at a label may still rely on, whatever the others    *)
(* did since it got there.  Every such fact is one that OnlyForward keeps: *)
(* once assembled, bytes do not change; once a file that was born is       *)
(* emptied, nothing of it comes back.                                      *)
(***************************************************************************)
EXTENDS Datashare

Born(f) == state[f] # "unborn"

Assembled(f) == content[f] # "none"

\* The size check of completeUpload has passed.
Sized(f) == Assembled(f) /\ content[f] # "missized"

Emptied(f) == Born(f) /\ f \notin object \cup multipart

\* The one way an object outlives its row, see OrphanHead: no multipart does.
EmptiedUnlessHeadFails(f) ==
  /\ Born(f)
  /\ f \notin multipart
  /\ ~HeadMayFail => f \notin object

-----------------------------------------------------------------------------
(* The rows and what is stored under their keys. *)

FileOK(f) ==
  /\ f \in multipart => ~Assembled(f)
  /\ f \in object => Assembled(f)
  /\ ~Born(f) => ~Assembled(f)
  /\ state[f] \in {"uploaded", "scanning"} => Sized(f)
  /\ state[f] \in {"ready", "expired"} => content[f] = "clean"
  /\ state[f] = "rejected" => content[f] # "clean"
  /\ state[f] \in {"expired", "rejected"} => f \notin keyed /\ Emptied(f)
  /\ Exists(f) /\ f \notin keyed => Emptied(f)
  /\ state[f] = "deleted" => EmptiedUnlessHeadFails(f)

-----------------------------------------------------------------------------
(* The threads. *)

\* A thread inside deleteFileCompletely, purgeTombstone or abortUpload
DeletionOK(label, f) ==
  /\ label \in {"orphanHead", "deleteObject"} => f \notin multipart
  /\ label = "deleteRow" => EmptiedUnlessHeadFails(f)

CallOK(c) ==
  LET f == call[c].file IN
  /\ call[c].pc = "create" => ~Born(f) /\ f \in multipart
  /\ call[c].pc \in CallLabel \ {"create"} => Born(f)
  /\ call[c].pc \in {"discard", "markRejected"} => content[f] = "missized"
  /\ call[c].pc = "markRejected" => Emptied(f)
  /\ call[c].pc \in {"markUploaded", "enqueue"} => Sized(f)
  /\ DeletionOK(call[c].pc, f)

\* Only the request that drew a key inserts its row.
OneCreator ==
  \A c, d \in Call :
    /\ call[c].pc = "create"
    /\ call[d].pc = "create"
    /\ call[c].file = call[d].file
    => c = d

RunOK(w) ==
  LET f == run[w].file IN
  /\ run[w].pc \in RunLabel => Born(f)
  /\ run[w].pc \in {"claim", "readHead", "scanBody"} => Sized(f)
  /\ run[w].pc = "scanBody" => content[f] # "spoofed"
  /\ run[w].pc = "markReady" => content[f] = "clean"
  /\ run[w].pc \in {"discard", "markRejected"} =>
       content[f] \in {"spoofed", "infected"}
  /\ run[w].pc = "markRejected" => Emptied(f)

SweepOK(w) ==
  /\ \A f \in sweep[w].todo : Sized(f)
  /\ \A f \in sweep[w].marked : Born(f)

PurgeOK(p) ==
  LET f == purge[p].file  todo == purge[p].todo IN
  /\ purge[p].pc \in PurgeLabel => Born(f)
  /\ \A g \in todo : Born(g)
  /\ purge[p].pc \in {"expiring", "expireRow"} =>
       \A g \in todo : content[g] = "clean"
  /\ purge[p].pc = "expireRow" => content[f] = "clean" /\ Emptied(f)
  /\ purge[p].pc = "ghosts" => \A g \in todo : Emptied(g)
  /\ DeletionOK(purge[p].pc, f)

ShareOK ==
  /\ \A f \in told \cup links : content[f] = "clean"
  /\ \A r \in Recipient : ask[r].pc = "sign" => content[ask[r].file] = "clean"

JobOK == \A f \in File : job[f].status # "none" => Born(f)

\* What every reachable state satisfies and every step keeps.
IInv ==
  /\ \A f \in File : FileOK(f)
  /\ \A c \in Call : CallOK(c)
  /\ OneCreator
  /\ \A w \in Worker : RunOK(w) /\ SweepOK(w)
  /\ \A p \in Purger : PurgeOK(p)
  /\ ShareOK
  /\ JobOK

\* The two stores only go forward: a row once inserted stays or leaves a
\* trace, assembled bytes never change under their key (CompleteMultipart
\* ends the upload, part URLs die with it), a multipart that ended does not
\* reopen, and a file whose object and multipart are gone never has either
\* again, whichever of the threads still holds its id.
OnlyForward ==
  \A f \in File :
    /\ Born(f) => Born(f)'
    /\ Assembled(f) => content'[f] = content[f]
    /\ Born(f) /\ f \notin multipart => f \notin multipart'
    /\ Emptied(f) => Emptied(f)'

StoresOnlyGoForward == [][OnlyForward]_vars

-----------------------------------------------------------------------------
(* The locks of the queue. *)

\* A run that holds its lock owns the one active job of its file, and while
\* locks do not lapse every run holds its own.
LockOK ==
  /\ \A w \in Worker :
       /\ run[w].lock =>
            run[w] # IdleRun /\ job[run[w].file].status = "active"
       /\ ~LocksMayLapse /\ run[w] # IdleRun => run[w].lock
  /\ \A v, w \in Worker :
       run[v].lock /\ run[w].lock /\ run[v].file = run[w].file => v = w

-----------------------------------------------------------------------------
(* The stage of a row, while locks do not lapse and the hourly sweep does  *)
(* not run.  The writes of `uploaded`, `scanning`, `ready` and `rejected`  *)
(* are by id alone: what keeps them in order is that one request completes *)
(* an upload, one run scans it, and each knows where the other left the    *)
(* row unless it was deleted.                                              *)

SweepIsOff == \A w \in Worker : sweep[w] = IdleSweep

\* A request past CompleteMultipartUpload, which one request passes.
Completing(c) ==
  call[c].pc \in {"head", "discard", "markRejected", "markUploaded", "enqueue"}

Scanning(w) ==
  run[w].pc \in {"readHead", "scanBody", "markReady", "discard", "markRejected"}

\* Nothing waits for a verdict in these states, and no row leaves them but by
\* its deletion or its expiry.
PastScan == {"ready", "rejected", "expired", "deleted"}

CallStage(c) ==
  LET f == call[c].file IN
  /\ Completing(c) => Assembled(f) /\ job[f] = NoJob
  /\ Completing(c) /\ call[c].pc # "enqueue" =>
       state[f] \in {"pending", "deleted"}
  /\ call[c].pc = "enqueue" => state[f] # "pending"

OneCompleter ==
  \A c, d \in Call :
    Completing(c) /\ Completing(d) /\ call[c].file = call[d].file => c = d

RunStage(w) ==
  LET f == run[w].file IN
  /\ run[w].pc = "claim" => state[f] \in {"uploaded", "scanning", "deleted"}
  /\ Scanning(w) => state[f] \in {"scanning", "deleted"}
  /\ run[w].pc = "finish" => state[f] \in PastScan

\* Nobody holds the lock of the active job of f.
LockLost(f) ==
  job[f].status = "active" /\ ~ \E w \in Worker : run[w].lock /\ run[w].file = f

Awaited(f) == state[f] \in {"uploaded", "scanning"} /\ f \in object

\* A job counts its attempts and the locks it lost; each of them cost one of
\* the faults there were.
JobStage(f) ==
  /\ job[f].status = "none" => job[f] = NoJob
  /\ job[f].status # "none" => Assembled(f) /\ state[f] # "pending"
  /\ Awaited(f) => job[f].tries <= runFaults
  /\ job[f].stalled <= crashes
  /\ LockLost(f) => job[f].stalled < crashes
  /\ job[f].status = "failed" => job[f].tries >= Attempts \/ crashes > MaxStalled

\* A file that waits has a job, in the failed set perhaps, or the request
\* that is about to add it.
AwaitedHasJob ==
  callFaults = 0 => \A f \in File :
    Awaited(f) =>
      \/ job[f].status # "none"
      \/ \E c \in Call : call[c] = InCall("enqueue", f)

StageOK ==
  /\ SweepIsOff
  /\ \A c \in Call : CallStage(c)
  /\ OneCompleter
  /\ \A w \in Worker : RunStage(w)
  /\ \A f \in File : JobStage(f)
  /\ AwaitedHasJob

=============================================================================
