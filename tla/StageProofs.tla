------------------------------ MODULE StageProofs ------------------------------
(***************************************************************************)
(* The order of the writes of one row.  While workers keep the locks of    *)
(* their jobs and the hourly sweep does not run, a row goes through the    *)
(* states of its diagram, and a file that waits for its verdict has a job: *)
(* StageOK is inductive.  The steps fall in two kinds: those that advance  *)
(* one upload or one job, and the quiet ones.                              *)
(***************************************************************************)
EXTENDS InvariantProofs, LockProofs

\* MayBecome, arrow by arrow
LEMMA Diagram ==
  /\ "pending" \in MayBecome("unborn")
  /\ {"uploaded", "rejected"} \subseteq MayBecome("pending")
  /\ "scanning" \in MayBecome("uploaded")
  /\ {"ready", "rejected"} \subseteq MayBecome("scanning")
  /\ "expired" \in MayBecome("ready")
  /\ \A s \in FileState : "deleted" \in MayBecome(s)
<1>1. "pending" \in MayBecome("unborn")
  BY DEF MayBecome
<1>2. {"uploaded", "rejected"} \subseteq MayBecome("pending")
  BY DEF MayBecome
<1>3. "scanning" \in MayBecome("uploaded")
  BY DEF MayBecome
<1>4. {"ready", "rejected"} \subseteq MayBecome("scanning")
  BY DEF MayBecome
<1>5. "expired" \in MayBecome("ready")
  BY DEF MayBecome
<1>6. \A s \in FileState : "deleted" \in MayBecome(s)
  BY DEF MayBecome, FileState
<1> QED  BY <1>1, <1>2, <1>3, <1>4, <1>5, <1>6

\* What a step does to the rows
RowsFollow ==
  \A f \in File : state'[f] # state[f] => state'[f] \in MayBecome(state[f])

\* What every state satisfies that StageOK builds on
Known == TypeOK /\ IInv /\ LockOK

-----------------------------------------------------------------------------
(* Facts of one state *)

\* A run in progress owns the active job of its file.
LEMMA RunOwns ==
  ASSUME LocksMayLapse = FALSE, Known, NEW w \in Worker, run[w].pc \in RunLabel
  PROVE  /\ run[w].file \in File
         /\ run[w].lock
         /\ job[run[w].file].status = "active"
         /\ \A v \in Worker :
              run[v].pc \in RunLabel /\ run[v].file = run[w].file => v = w
BY RunBusy DEF Known, TypeOK, LockOK

\* A file with a job is not being completed, and its row is past `pending`.
LEMMA JobExcludes ==
  ASSUME Known, StageOK, NEW f \in File, job[f].status # "none"
  PROVE  /\ Assembled(f)
         /\ state[f] \notin {"unborn", "pending"}
         /\ \A c \in Call : Completing(c) => call[c].file # f
<1>1. Assembled(f) /\ state[f] \notin {"unborn", "pending"}
  BY DEF Known, IInv, JobOK, Born, StageOK, JobStage
<1>2. \A c \in Call : Completing(c) => call[c].file # f
  BY DEF StageOK, CallStage, NoJob, Job
<1> QED  BY <1>1, <1>2

\* An open multipart is not assembled: no request completes it yet, it has no
\* job, and its row, once inserted, is still `pending`.
LEMMA OpenMultipart ==
  ASSUME Known, StageOK, NEW f \in File, f \in multipart
  PROVE  /\ ~Assembled(f)
         /\ job[f] = NoJob
         /\ Born(f) => state[f] = "pending"
         /\ \A c \in Call : Completing(c) => call[c].file # f
<1>1. ~Assembled(f)
  BY DEF Known, IInv, FileOK
<1>2. job[f] = NoJob
  BY <1>1 DEF StageOK, JobStage
<1>3. ASSUME Born(f)  PROVE state[f] = "pending"
  BY <1>1, <1>3 DEF Known, TypeOK, StoreTypeOK, FileState, IInv, FileOK,
                    EmptiedUnlessHeadFails, Emptied, Sized, Assembled, Born
<1>4. \A c \in Call : Completing(c) => call[c].file # f
  BY <1>1 DEF StageOK, CallStage
<1> QED  BY <1>1, <1>2, <1>3, <1>4

\* Only a row that was `pending` starts to wait for a verdict.
LEMMA AwaitedBefore ==
  ASSUME IInv, OnlyForward, NEW f \in File, state[f] \in {"uploaded", "scanning"},
         Awaited(f)'
  PROVE  Awaited(f)
BY DEF IInv, FileOK, OnlyForward, Awaited, Emptied, Sized, Assembled, Born

-----------------------------------------------------------------------------
(* The quiet steps: no upload is completed, marked or queued, no run moves  *)
(* and no job either.                                                      *)

\* A row is inserted, deleted or expired, or nothing happens to it.
QuietRow(f) ==
  \/ state'[f] = state[f]
  \/ state[f] = "unborn" /\ state'[f] = "pending"
  \/ Exists(f) /\ state'[f] = "deleted"
  \/ state[f] = "ready" /\ state'[f] = "expired"

\* A request that completes an upload goes on, or ends; the one that is about
\* to add the job does not move, unless it is cut.
QuietCall(c) ==
  /\ Completing(c)' =>
       /\ Completing(c)
       /\ call'[c].file = call[c].file
       /\ call'[c].pc = "enqueue" <=> call[c].pc = "enqueue"
  /\ call[c].pc = "enqueue" => call'[c] = call[c] \/ callFaults' > 0

QuietStep ==
  /\ \A f \in File : QuietRow(f)
  /\ \A c \in Call : QuietCall(c)
  /\ callFaults' = 0 => callFaults = 0
  /\ UNCHANGED <<job, scanVars>>

LEMMA QuietRows ==
  ASSUME QuietStep
  PROVE  RowsFollow
BY Diagram DEF QuietStep, QuietRow, RowsFollow, Exists

LEMMA QuietKeeps ==
  ASSUME LocksMayLapse = FALSE, Known, StageOK, OnlyForward, QuietStep
  PROVE  StageOK'
<1> USE DEF QuietStep, scanVars
<1>1. SweepIsOff'
  BY DEF StageOK, SweepIsOff
<1>2. ASSUME NEW c \in Call  PROVE CallStage(c)'
  <2>1. CASE ~Completing(c)'
    BY <2>1 DEF CallStage, Completing
  <2>2. CASE Completing(c)'
    <3>1. /\ Completing(c)
          /\ call'[c].file = call[c].file
          /\ call'[c].pc = "enqueue" <=> call[c].pc = "enqueue"
      BY <2>2 DEF QuietCall
    <3>2. call[c].file \in File
      BY <3>1, AtBusy DEF Completing, CallLabel, Known, TypeOK
    <3>3. Assembled(call[c].file)'
      BY <3>1, <3>2 DEF StageOK, CallStage, OnlyForward, Assembled
    <3>4. QuietRow(call[c].file)
      BY <3>2
    <3>5. state[call[c].file] # "unborn"
      BY <3>1, <3>2 DEF StageOK, CallStage, Known, IInv, FileOK, Born
    <3> QED
      BY <3>1, <3>3, <3>4, <3>5
      DEF StageOK, CallStage, QuietRow, Completing, Assembled
  <2> QED  BY <2>1, <2>2
<1>3. OneCompleter'
  BY DEF QuietCall, StageOK, OneCompleter
<1>4. ASSUME NEW w \in Worker  PROVE RunStage(w)'
  <2>1. CASE run[w].pc \notin RunLabel
    BY <2>1 DEF RunStage, RunLabel, Scanning
  <2>2. CASE run[w].pc \in RunLabel
    <3>1. run[w].file \in File /\ state[run[w].file] \notin {"unborn", "pending"}
      BY <2>2, RunOwns, JobExcludes
    <3>2. QuietRow(run[w].file)
      BY <3>1
    <3> QED
      BY <3>1, <3>2 DEF StageOK, RunStage, QuietRow, Scanning, PastScan
  <2> QED  BY <2>1, <2>2
<1>5. ASSUME NEW f \in File  PROVE JobStage(f)'
  <2>1. QuietRow(f) /\ JobStage(f)
    BY DEF StageOK
  <2>2. job[f].status # "none" => Assembled(f)' /\ state'[f] # "pending"
    BY <2>1, JobExcludes DEF QuietRow, OnlyForward, Assembled
  <2>3. Awaited(f)' => Awaited(f)
    BY <2>1, AwaitedBefore DEF QuietRow, Awaited, Known
  <2> QED  BY <2>1, <2>2, <2>3 DEF JobStage, LockLost
<1>6. AwaitedHasJob'
  <2>1. \A f \in File : Awaited(f)' => Awaited(f)
    BY AwaitedBefore DEF QuietRow, Awaited, Known
  <2>2. ASSUME NEW c \in Call, NEW f \in File, call[c] = InCall("enqueue", f),
               callFaults' = 0
        PROVE  call'[c] = call[c]
    BY <2>2 DEF QuietCall, InCall
  <2> QED  BY <2>1, <2>2 DEF StageOK, AwaitedHasJob
<1> QED  BY <1>1, <1>2, <1>3, <1>4, <1>5, <1>6 DEF StageOK

-----------------------------------------------------------------------------
(* The requests *)

\* A request that is not about to add the job goes on without taking an
\* upload over.
LEMMA QuietGoto ==
  ASSUME UploadTypeOK, NEW c \in Call, call[c] # IdleCall,
         call[c].pc # "enqueue", NEW label, label # "enqueue", Goto(c, label),
         label \in {"head", "discard", "markRejected", "markUploaded"} =>
           Completing(c)
  PROVE  (\A d \in Call : QuietCall(d)) /\ callFaults' = callFaults
<1>1. /\ \/ call'[c].pc = label /\ call'[c].file = call[c].file
         \/ call'[c].pc = "idle"
      /\ \A d \in Call \ {c} : call'[d] = call[d]
      /\ callFaults' = callFaults
  BY DEF UploadTypeOK, Goto, InCall, IdleCall
<1> QED  BY <1>1 DEF QuietCall, Completing

\* A new request takes no upload over by itself.
LEMMA QuietBegin ==
  ASSUME UploadTypeOK, NEW c \in Call, NEW f, NEW label, Begin(c, f, label),
         label \notin {"head", "discard", "markRejected", "markUploaded",
                       "enqueue"}
  PROVE  (\A d \in Call : QuietCall(d)) /\ callFaults' = callFaults
<1>1. /\ call[c].pc = "idle"
      /\ call'[c].pc = label
      /\ \A d \in Call \ {c} : call'[d] = call[d]
      /\ callFaults' = callFaults
  BY DEF UploadTypeOK, Begin, InCall, IdleCall
<1> QED  BY <1>1 DEF QuietCall, Completing

\* A deletion, whoever runs it, does nothing to a row but delete it.
LEMMA DeletionRows ==
  ASSUME StoreTypeOK, NEW f \in File, NEW at, NEW to, DeletionStep(at, to, f)
  PROVE  \A g \in File : QuietRow(g)
BY DEF StoreTypeOK, DeletionStep, FindRow, AbortStep, OrphanHead,
       DeleteObjectStep, DeleteRowStep, DeleteRow, QuietRow, storeVars

\* What is left to show of a step of request c that has no part in the queue
LEMMA CompleterKeeps ==
  ASSUME LocksMayLapse = FALSE, Known, StageOK, OnlyForward, NEW c \in Call,
         NEW f \in File, f = call[c].file,
         \A g \in File \ {f} : state'[g] = state[g],
         \A d \in Call \ {c} : call'[d] = call[d],
         UNCHANGED <<job, scanVars, callFaults>>,
         \A d \in Call \ {c} : Completing(d) => call[d].file # f,
         Completing(c)' => call'[c].file = f, CallStage(c)',
         call[c].pc # "enqueue", job[f] = NoJob,
         Awaited(f)' => call'[c] = InCall("enqueue", f)
  PROVE  StageOK'
<1> USE DEF scanVars
<1>1. SweepIsOff'
  BY DEF StageOK, SweepIsOff
<1>2. ASSUME NEW d \in Call  PROVE CallStage(d)'
  <2>1. CASE d = c
    BY <2>1
  <2>2. CASE d # c /\ Completing(d)
    <3>1. call[d].file \in File \ {f}
      BY <2>2, AtBusy DEF Completing, CallLabel, Known, TypeOK
    <3>2. Assembled(call[d].file)'
      BY <2>2, <3>1 DEF StageOK, CallStage, OnlyForward, Assembled
    <3> QED
      BY <2>2, <3>1, <3>2 DEF StageOK, CallStage, Completing, Assembled
  <2>3. CASE d # c /\ ~Completing(d)
    BY <2>3 DEF CallStage, Completing
  <2> QED  BY <2>1, <2>2, <2>3
<1>3. OneCompleter'
  BY DEF StageOK, OneCompleter, Completing
<1>4. ASSUME NEW w \in Worker  PROVE RunStage(w)'
  <2>1. CASE run[w].pc \notin RunLabel
    BY <2>1 DEF RunStage, RunLabel, Scanning
  <2>2. CASE run[w].pc \in RunLabel
    <3>1. run[w].file \in File /\ job[run[w].file].status = "active"
      BY <2>2, RunOwns
    <3>2. run[w].file # f
      BY <3>1 DEF NoJob, Job
    <3> QED  BY <3>1, <3>2 DEF StageOK, RunStage, Scanning, PastScan
  <2> QED  BY <2>1, <2>2
<1>5. ASSUME NEW g \in File  PROVE JobStage(g)'
  <2>1. CASE g = f
    <3>1. /\ job'[g].status = "none"
          /\ job'[g].tries = 0
          /\ job'[g].stalled = 0
          /\ job'[g] = NoJob
      BY <2>1 DEF NoJob, Job
    <3>2. runFaults' \in Nat /\ crashes' \in Nat
      BY ScanAssumption DEF Known, TypeOK, ScanTypeOK
    <3> QED  BY <3>1, <3>2 DEF JobStage, LockLost
  <2>2. CASE g # f
    <3>1. JobStage(g) /\ state'[g] = state[g]
      BY <2>2 DEF StageOK
    <3>2. job[g].status # "none" => Assembled(g)'
      BY <3>1 DEF JobStage, OnlyForward, Assembled
    <3>3. Awaited(g)' => Awaited(g)
      BY <3>1, AwaitedBefore DEF Awaited, Known
    <3> QED  BY <3>1, <3>2, <3>3 DEF JobStage, LockLost
  <2> QED  BY <2>1, <2>2
<1>6. AwaitedHasJob'
  <2>1. \A g \in File \ {f} : Awaited(g)' => Awaited(g)
    BY AwaitedBefore DEF Awaited, Known
  <2>2. ASSUME NEW d \in Call, NEW g \in File \ {f}, call[d] = InCall("enqueue", g)
        PROVE  call'[d] = call[d]
    BY <2>2 DEF InCall
  <2> QED  BY <2>1, <2>2 DEF StageOK, AwaitedHasJob
<1> QED  BY <1>1, <1>2, <1>3, <1>4, <1>5, <1>6 DEF StageOK


\* A row keeps its place unless the step writes it.
LEMMA SameRows ==
  ASSUME UNCHANGED state
  PROVE  \A f \in File : QuietRow(f)
BY DEF QuietRow

LEMMA CompleteMultipartKeeps ==
  ASSUME LocksMayLapse = FALSE, Known, StageOK, OnlyForward, NEW c \in Call,
         CompleteMultipart(c), UNCHANGED scanVars
  PROVE  RowsFollow /\ StageOK'
<1>1. PICK f \in File :
        /\ f = call[c].file
        /\ call[c].pc = "completeMultipart"
        /\ call[c] # IdleCall
  BY AtBusy DEF CompleteMultipart, At, CallLabel, Known, TypeOK
<1>2. CASE f \notin multipart
  <2>1. Goto(c, "thrown") /\ UNCHANGED <<state, job>>
    BY <1>1, <1>2 DEF CompleteMultipart
  <2>2. QuietStep
    BY <1>1, <2>1, SameRows, QuietGoto DEF QuietStep, Known, TypeOK
  <2> QED  BY <2>2, QuietRows, QuietKeeps
<1>3. CASE f \in multipart
  <2>1. /\ Goto(c, "head") /\ UNCHANGED <<state, job>>
        /\ \E b \in Content : content' = [content EXCEPT ![f] = b]
    BY <1>1, <1>3 DEF CompleteMultipart, AssembleObject
  <2>2. /\ call'[c].pc = "head" /\ call'[c].file = f
        /\ \A d \in Call \ {c} : call'[d] = call[d]
        /\ callFaults' = callFaults
    BY <1>1, <2>1 DEF Goto, InCall, Known, TypeOK, UploadTypeOK
  <2>3. /\ job[f] = NoJob
        /\ state[f] = "pending"
        /\ \A d \in Call : Completing(d) => call[d].file # f
    <3>1. Born(f)
      BY <1>1 DEF Known, IInv, CallOK, CallLabel
    <3> QED  BY <1>1, <1>3, <3>1, OpenMultipart
  <2>4. Assembled(f)'
    BY <1>1, <2>1 DEF Assembled, Content, Known, TypeOK, StoreTypeOK
  <2>5. CallStage(c)'
    BY <2>1, <2>2, <2>3, <2>4 DEF CallStage, Completing, Assembled
  <2>6. RowsFollow
    BY <2>1 DEF RowsFollow
  <2>7. ~Awaited(f)'
    BY <2>1, <2>3 DEF Awaited
  <2> QED
    BY <1>1, <2>1, <2>2, <2>3, <2>5, <2>6, <2>7, CompleterKeeps
<1> QED  BY <1>2, <1>3

LEMMA MarkKeeps ==
  ASSUME LocksMayLapse = FALSE, Known, StageOK, OnlyForward, NEW c \in Call,
         MarkRejected(c) \/ MarkUploaded(c), UNCHANGED scanVars
  PROVE  RowsFollow /\ StageOK'
<1>1. PICK f \in File :
        /\ f = call[c].file
        /\ call[c].pc \in {"markRejected", "markUploaded"}
        /\ call[c] # IdleCall
  BY AtBusy DEF MarkRejected, MarkUploaded, At, CallLabel, Known, TypeOK
<1>2. Completing(c) /\ call[c].pc # "enqueue"
  BY <1>1 DEF Completing
<1>3. Assembled(f) /\ job[f] = NoJob /\ state[f] \in {"pending", "deleted"}
  BY <1>1, <1>2 DEF StageOK, CallStage
<1>4. UNCHANGED <<content, job>>
  BY DEF MarkRejected, MarkUploaded
<1>5. CASE ~Exists(f)
  <2>1. UNCHANGED state /\ (Goto(c, "done") \/ Goto(c, "thrown"))
    BY <1>1, <1>5 DEF MarkRejected, MarkUploaded
  <2>2. QuietStep
    BY <1>1, <1>4, <2>1, SameRows, QuietGoto DEF QuietStep, Known, TypeOK
  <2> QED  BY <2>2, QuietRows, QuietKeeps
<1>6. CASE Exists(f)
  <2>1. state[f] = "pending"
    BY <1>3, <1>6 DEF Exists, FileState
  <2>2. \/ /\ state' = [state EXCEPT ![f] = "rejected"]
           /\ Goto(c, "done")
        \/ /\ state' = [state EXCEPT ![f] = "uploaded"]
           /\ Goto(c, "enqueue")
    BY <1>1, <1>6 DEF MarkRejected, MarkUploaded, SetTombstone, SetState
  <2>3. \/ /\ state'[f] = "rejected"
           /\ call'[c] = IdleCall
        \/ /\ state'[f] = "uploaded"
           /\ call'[c] = InCall("enqueue", f)
    BY <1>1, <2>2 DEF Goto, Known, TypeOK, StoreTypeOK, UploadTypeOK
  <2>4. /\ \A g \in File \ {f} : state'[g] = state[g]
        /\ \A d \in Call \ {c} : call'[d] = call[d]
        /\ callFaults' = callFaults
    BY <2>2 DEF Goto, Known, TypeOK, StoreTypeOK, UploadTypeOK
  <2>5. RowsFollow
    BY <2>1, <2>3, <2>4, Diagram DEF RowsFollow
  <2>6. Completing(c)' =>
          call'[c].pc = "enqueue" /\ call'[c].file = f /\ state'[f] = "uploaded"
    BY <2>3 DEF Completing, IdleCall, InCall
  <2>7. CallStage(c)'
    BY <1>3, <1>4, <2>6 DEF CallStage, Completing, Assembled
  <2>8. \A d \in Call \ {c} : Completing(d) => call[d].file # f
    BY <1>1, <1>2 DEF StageOK, OneCompleter
  <2>9. Awaited(f)' => call'[c] = InCall("enqueue", f)
    BY <2>3 DEF Awaited
  <2> QED
    BY <1>1, <1>2, <1>3, <1>4, <2>4, <2>5, <2>6, <2>7, <2>8, <2>9,
       CompleterKeeps
<1> QED  BY <1>5, <1>6


LEMMA EnqueueKeeps ==
  ASSUME LocksMayLapse = FALSE, Known, StageOK, OnlyForward, NEW c \in Call,
         Enqueue(c), UNCHANGED scanVars
  PROVE  RowsFollow /\ StageOK'
<1> USE DEF scanVars
<1>1. PICK f \in File :
        f = call[c].file /\ call[c].pc = "enqueue" /\ call[c] # IdleCall
  BY AtBusy DEF Enqueue, At, CallLabel, Known, TypeOK
<1>2. Assembled(f) /\ job[f] = NoJob /\ state[f] # "pending"
  BY <1>1 DEF StageOK, CallStage, Completing
<1>3. /\ call'[c] = IdleCall
      /\ \A d \in Call \ {c} : call'[d] = call[d]
      /\ callFaults' = callFaults
      /\ UNCHANGED storeVars
  BY DEF Enqueue, Goto, Known, TypeOK, UploadTypeOK
<1>4. job'[f] = NewJob /\ \A g \in File \ {f} : job'[g] = job[g]
  BY <1>1, <1>2 DEF Enqueue, EnqueueValidation, NoJob, Job, Known, TypeOK,
                    JobTypeOK
<1>5. ~Completing(c)'
  BY <1>3 DEF Completing, IdleCall, InCall
<1>6. SweepIsOff'
  BY DEF StageOK, SweepIsOff
<1>7. ASSUME NEW d \in Call  PROVE CallStage(d)'
  <2>1. CASE ~Completing(d)'
    BY <2>1 DEF CallStage, Completing
  <2>2. CASE Completing(d)'
    <3>1. d # c /\ call'[d] = call[d] /\ Completing(d)
      BY <1>3, <1>5, <2>2 DEF Completing
    <3>2. call[d].file \in File
      BY <3>1, AtBusy DEF Completing, CallLabel, Known, TypeOK
    <3>3. call[d].file # f
      BY <1>1, <3>1 DEF StageOK, OneCompleter, Completing
    <3> QED
      BY <1>3, <1>4, <3>1, <3>2, <3>3
      DEF StageOK, CallStage, Completing, Assembled, storeVars
  <2> QED  BY <2>1, <2>2
<1>8. OneCompleter'
  BY <1>3, <1>5 DEF StageOK, OneCompleter, Completing
<1>9. \A w \in Worker : RunStage(w)'
  BY <1>3 DEF StageOK, RunStage, Scanning, storeVars
<1>10. ASSUME NEW g \in File  PROVE JobStage(g)'
  <2>1. CASE g = f
    <3>1. /\ job'[g].status = "waiting"
          /\ job'[g].tries = 0
          /\ job'[g].stalled = 0
      BY <1>4, <2>1 DEF NewJob, Job
    <3>2. runFaults' \in Nat /\ crashes' \in Nat
      BY ScanAssumption DEF Known, TypeOK, ScanTypeOK
    <3> QED
      BY <1>2, <1>3, <2>1, <3>1, <3>2 DEF JobStage, LockLost, Assembled, storeVars
  <2>2. CASE g # f
    BY <1>3, <1>4, <2>2
    DEF StageOK, JobStage, LockLost, Awaited, Assembled, storeVars
  <2> QED  BY <2>1, <2>2
<1>11. AwaitedHasJob'
  <2>1. job'[f].status # "none"
    BY <1>4 DEF NewJob, Job
  <2>2. ASSUME NEW d \in Call, NEW g \in File \ {f}, call[d] = InCall("enqueue", g)
        PROVE  call'[d] = call[d]
    BY <1>1, <1>3, <2>2 DEF InCall
  <2> QED
    BY <1>3, <1>4, <2>1, <2>2 DEF StageOK, AwaitedHasJob, Awaited, storeVars
<1>12. RowsFollow
  BY <1>3 DEF RowsFollow, storeVars
<1> QED  BY <1>6, <1>7, <1>8, <1>9, <1>10, <1>11, <1>12 DEF StageOK

LEMMA UploadStages ==
  ASSUME LocksMayLapse = FALSE, Known, StageOK, OnlyForward, UploadNext,
         UNCHANGED scanVars
  PROVE  RowsFollow /\ StageOK'
<1>0. StoreTypeOK /\ UploadTypeOK
  BY DEF Known, TypeOK
<1>a. ASSUME QuietStep  PROVE RowsFollow /\ StageOK'
  BY <1>a, QuietRows, QuietKeeps
<1>b. ASSUME NEW c \in Call, call[c].pc \in CallLabel
      PROVE  call[c] # IdleCall /\ call[c].file \in File
  BY <1>0, <1>b, AtBusy
<1>1. ASSUME NEW c \in Call, CreateRow(c)
      PROVE  QuietStep
  <2>1. call[c].pc = "create" /\ call[c] # IdleCall /\ call[c].file \in File
    BY <1>1, <1>b DEF CreateRow, At, CallLabel
  <2>2. state[call[c].file] = "unborn"
    BY <2>1 DEF Known, IInv, CallOK, Born
  <2>3. \A f \in File : QuietRow(f)
    BY <1>0, <1>1, <2>1, <2>2 DEF CreateRow, InsertRow, QuietRow, StoreTypeOK
  <2> QED
    BY <1>0, <1>1, <2>1, <2>3, QuietGoto DEF CreateRow, QuietStep
<1>2. ASSUME NEW c \in Call, CheckSize(c) \/ DiscardMissized(c)
      PROVE  QuietStep
  <2>1. call[c].pc \in {"head", "discard"} /\ call[c] # IdleCall
    BY <1>2, <1>b DEF CheckSize, DiscardMissized, At, CallLabel
  <2>2. UNCHANGED <<state, job>>
    BY <1>2 DEF CheckSize, DiscardMissized, storeVars
  <2>3. PICK label \in {"thrown", "discard", "markUploaded", "markRejected"} :
          Goto(c, label)
    BY <1>2 DEF CheckSize, DiscardMissized
  <2> QED
    BY <1>0, <2>1, <2>2, <2>3, SameRows, QuietGoto DEF QuietStep, Completing
<1>3. ASSUME NEW c \in Call, AbortOwn(c)
      PROVE  QuietStep
  <2>1. call[c].pc = "abortOwn" /\ call[c] # IdleCall
    BY <1>3, <1>b DEF AbortOwn, At, CallLabel
  <2>2. PICK label \in {"thrown", "deleteRow"} : Goto(c, label)
    BY <1>3 DEF AbortOwn
  <2> QED
    BY <1>0, <1>3, <2>1, <2>2, SameRows, QuietGoto DEF AbortOwn, QuietStep
<1>4. ASSUME NEW c \in Call, DeleteOwnedStep(c)
      PROVE  QuietStep
  <2>1. PICK to \in DeletionLabel \cup {"done"} :
          DeletionStep(call[c].pc, to, call[c].file) /\ Goto(c, to)
    BY <1>4 DEF DeleteOwnedStep
  <2>2. call[c].pc \in DeletionLabel
    BY <2>1 DEF DeletionStep, FindRow, AbortStep, OrphanHead,
                DeleteObjectStep, DeleteRowStep, DeletionLabel
  <2>3. call[c].pc # "enqueue" /\ call[c] # IdleCall /\ call[c].file \in File
    BY <2>2, <1>b DEF CallLabel, DeletionLabel
  <2>4. \A f \in File : QuietRow(f)
    BY <1>0, <2>1, <2>3, DeletionRows
  <2>5. (\A d \in Call : QuietCall(d)) /\ callFaults' = callFaults
    BY <1>0, <2>1, <2>3, QuietGoto DEF DeletionLabel
  <2> QED  BY <1>4, <2>4, <2>5 DEF DeleteOwnedStep, QuietStep
<1>5. ASSUME NEW c \in Call, CutCall(c)
      PROVE  QuietStep
  <2>1. UNCHANGED <<state, job>> /\ callFaults' > 0
    BY <1>0, <1>5, CallAssumption DEF CutCall, UploadTypeOK, storeVars
  <2>2. \A d \in Call : QuietCall(d)
    BY <1>0, <1>5, <2>1
    DEF CutCall, UploadTypeOK, QuietCall, Completing, IdleCall, InCall
  <2> QED  BY <2>1, <2>2, SameRows DEF QuietStep
<1>6. ASSUME NEW c \in Call, NEW f \in File,
             \/ InitiateUpload(c, f)
             \/ CompleteUpload(c, f)
             \/ AbortUpload(c, f)
             \/ DeleteOwnedFile(c, f)
      PROVE  QuietStep
  <2>1. UNCHANGED <<state, job>>
    BY <1>6 DEF InitiateUpload, CompleteUpload, AbortUpload, DeleteOwnedFile,
                storeVars
  <2>2. PICK label \in {"create", "completeMultipart", "abortOwn",
                        "findUnique", "deleteRow"} : Begin(c, f, label)
    BY <1>6 DEF InitiateUpload, CompleteUpload, AbortUpload, DeleteOwnedFile
  <2> QED
    BY <1>0, <2>1, <2>2, SameRows, QuietBegin DEF QuietStep
<1>7. ASSUME NEW f \in File, GetUploadStatus(f) \/ ListFiles(f)
      PROVE  QuietStep
  BY <1>7, SameRows
  DEF GetUploadStatus, ListFiles, QuietStep, QuietCall, Completing, storeVars
<1> QED
  BY <1>a, <1>1, <1>2, <1>3, <1>4, <1>5, <1>6, <1>7, CompleteMultipartKeeps,
     MarkKeeps, EnqueueKeeps
  DEF UploadNext, CallStep

-----------------------------------------------------------------------------
(* The workers *)

\* What is left to show of a step of a worker about the job of f
LEMMA JobKeeps ==
  ASSUME LocksMayLapse = FALSE, Known, StageOK, OnlyForward, NEW f \in File,
         job[f].status # "none",
         \A g \in File \ {f} : state'[g] = state[g] /\ job'[g] = job[g],
         UNCHANGED callVars, SweepIsOff', \A w \in Worker : RunStage(w)',
         JobStage(f)', runFaults' \in Nat, runFaults' >= runFaults,
         crashes' \in Nat, crashes' >= crashes,
         \A g \in File \ {f} : LockLost(g)' => LockLost(g) \/ crashes' > crashes,
         Awaited(f)' => job'[f].status # "none"
  PROVE  StageOK'
<1> USE DEF callVars
<1>1. ASSUME NEW d \in Call  PROVE CallStage(d)'
  <2>1. CASE ~Completing(d)
    BY <2>1 DEF CallStage, Completing
  <2>2. CASE Completing(d)
    <3>1. call[d].file \in File
      BY <2>2, AtBusy DEF Completing, CallLabel, Known, TypeOK
    <3>2. call[d].file # f
      BY <2>2, JobExcludes
    <3>3. Assembled(call[d].file)'
      BY <2>2, <3>1 DEF StageOK, CallStage, OnlyForward, Assembled
    <3> QED
      BY <2>2, <3>1, <3>2, <3>3 DEF StageOK, CallStage, Completing, Assembled
  <2> QED  BY <2>1, <2>2
<1>2. OneCompleter'
  BY DEF StageOK, OneCompleter, Completing
<1>3. ASSUME NEW g \in File  PROVE JobStage(g)'
  <2>1. CASE g = f
    BY <2>1
  <2>2. CASE g # f
    <3>1. JobStage(g) /\ state'[g] = state[g] /\ job'[g] = job[g]
      BY <2>2 DEF StageOK
    <3>2. job[g].status # "none" => Assembled(g)'
      BY <3>1 DEF JobStage, OnlyForward, Assembled
    <3>3. Awaited(g)' => Awaited(g)
      BY <3>1, AwaitedBefore DEF Awaited, Known
    <3>4. /\ job[g].tries \in Nat /\ job[g].stalled \in Nat
          /\ runFaults \in Nat /\ crashes \in Nat
      BY ScanAssumption DEF Known, TypeOK, ScanTypeOK, JobTypeOK
    <3>5. Awaited(g)' => job'[g].tries <= runFaults'
      BY <3>1, <3>3, <3>4 DEF JobStage
    <3>6. job'[g].stalled <= crashes'
      BY <3>1, <3>4 DEF JobStage
    <3>7. LockLost(g)' => job'[g].stalled < crashes'
      BY <2>2, <3>1, <3>4 DEF JobStage
    <3>8. job'[g].status = "failed" =>
            job'[g].tries >= Attempts \/ crashes' > MaxStalled
      BY <3>1, <3>4, QueueAssumption DEF JobStage
    <3> QED
      BY <3>1, <3>2, <3>5, <3>6, <3>7, <3>8 DEF JobStage
  <2> QED  BY <2>1, <2>2
<1>4. AwaitedHasJob'
  <2>1. \A g \in File \ {f} : Awaited(g)' => Awaited(g)
    BY AwaitedBefore DEF Awaited, Known
  <2> QED  BY <2>1 DEF StageOK, AwaitedHasJob
<1> QED  BY <1>1, <1>2, <1>3, <1>4 DEF StageOK

\* A run goes on, or ends: the other runs, on other files, do not move.
LEMMA RunKeeps ==
  ASSUME LocksMayLapse = FALSE, Known, StageOK, OnlyForward, NEW w \in Worker,
         run[w].pc \in RunLabel, NEW f \in File, f = run[w].file,
         \A v \in Worker \ {w} : run'[v] = run[v],
         \A g \in File \ {f} : state'[g] = state[g] /\ job'[g] = job[g],
         UNCHANGED <<callVars, sweep, crashes>>,
         runFaults' \in Nat, runFaults' >= runFaults,
         RunStage(w)', JobStage(f)', Awaited(f)' => job'[f].status # "none"
  PROVE  StageOK'
<1>1. job[f].status # "none"
  BY RunOwns
<1>2. SweepIsOff'
  BY DEF StageOK, SweepIsOff
<1>3. ASSUME NEW v \in Worker  PROVE RunStage(v)'
  <2>1. CASE v = w
    BY <2>1
  <2>2. CASE v # w /\ run[v].pc \in RunLabel
    <3>1. run[v].file \in File /\ run[v].file # f
      BY <2>2, RunOwns
    <3> QED  BY <2>2, <3>1 DEF StageOK, RunStage, Scanning, PastScan
  <2>3. CASE v # w /\ run[v].pc \notin RunLabel
    BY <2>3 DEF RunStage, RunLabel, Scanning
  <2> QED  BY <2>1, <2>2, <2>3
<1>4. \A g \in File \ {f} : LockLost(g)' => LockLost(g) \/ crashes' > crashes
  BY DEF LockLost
<1>5. crashes' \in Nat /\ crashes' >= crashes /\ UNCHANGED callVars
  BY ScanAssumption DEF Known, TypeOK, ScanTypeOK
<1> QED  BY <1>1, <1>2, <1>3, <1>4, <1>5, JobKeeps

\* The attempt of w failed; the file no longer waits, or a fault is counted.
LEMMA ThrowStages ==
  ASSUME LocksMayLapse = FALSE, Known, StageOK, OnlyForward, NEW w \in Worker,
         run[w].pc \in RunLabel, NEW f \in File, f = run[w].file, Throw(w),
         UNCHANGED <<state, callVars, sweep, crashes>>,
         \/ ~Awaited(f)' /\ runFaults' = runFaults
         \/ runFaults' = runFaults + 1
  PROVE  RowsFollow /\ StageOK'
<1>1. run[w].lock /\ job[f].status = "active"
  BY RunOwns
<1>2. FailAttempt(f) /\ run' = [run EXCEPT ![w] = IdleRun]
  BY <1>1 DEF Throw
<1>3. /\ run'[w] = IdleRun
      /\ \A v \in Worker \ {w} : run'[v] = run[v]
  BY <1>2 DEF Known, TypeOK, ScanTypeOK
<1>4. /\ job'[f].status = IF job[f].tries + 1 < Attempts THEN "waiting"
                                                        ELSE "failed"
      /\ job'[f].tries = job[f].tries + 1
      /\ job'[f].stalled = job[f].stalled
      /\ \A g \in File \ {f} : job'[g] = job[g]
  BY <1>2 DEF FailAttempt, Job, Known, TypeOK, JobTypeOK
<1>5. /\ job[f].tries \in Nat /\ runFaults \in Nat
      /\ job[f].stalled <= crashes
  BY ScanAssumption
  DEF Known, TypeOK, JobTypeOK, ScanTypeOK, StageOK, JobStage
<1>6. RunStage(w)'
  BY <1>3 DEF RunStage, Scanning, IdleRun, InRun
<1>7. Assembled(f)' /\ state'[f] # "pending"
  BY <1>1, JobExcludes DEF OnlyForward, Assembled
<1>8. Awaited(f)' => Awaited(f)
  BY AwaitedBefore DEF Awaited, Known
<1>9. Awaited(f)' => job'[f].tries <= runFaults'
  BY <1>4, <1>5, <1>8 DEF StageOK, JobStage
<1>10. job'[f].status = "failed" => job'[f].tries >= Attempts
  BY <1>4, <1>5, QueueAssumption
<1>11. JobStage(f)'
  BY <1>4, <1>5, <1>7, <1>9, <1>10 DEF JobStage, LockLost
<1>12. RowsFollow
  BY DEF RowsFollow
<1>13. job'[f].status # "none"
  BY <1>4
<1>14. runFaults' \in Nat /\ runFaults' >= runFaults
  BY <1>5
<1>15. \A g \in File \ {f} : state'[g] = state[g] /\ job'[g] = job[g]
  BY <1>4
<1> QED
  BY <1>3, <1>6, <1>11, <1>12, <1>13, <1>14, <1>15, RunKeeps


\* The run of w goes on; it wrote its own row, or none.
LEMMA GotoStages ==
  ASSUME LocksMayLapse = FALSE, Known, StageOK, OnlyForward, NEW w \in Worker,
         run[w].pc \in RunLabel, NEW f \in File, f = run[w].file,
         NEW label \in RunLabel, RunGoto(w, label),
         \A g \in File \ {f} : state'[g] = state[g],
         state'[f] = state[f] \/ state'[f] \in MayBecome(state[f]),
         state'[f] # "pending", Awaited(f)' => Awaited(f),
         label = "claim" => state'[f] \in {"uploaded", "scanning"},
         label \in {"readHead", "scanBody", "markReady", "discard",
                    "markRejected"} => state'[f] \in {"scanning", "deleted"},
         label = "finish" => state'[f] \in PastScan,
         UNCHANGED <<callVars, sweep, runFaults, crashes>>
  PROVE  RowsFollow /\ StageOK'
<1>1. /\ run'[w].pc = label
      /\ run'[w].file = f
      /\ run'[w].lock = run[w].lock
      /\ \A v \in Worker \ {w} : run'[v] = run[v]
      /\ job' = job
  BY DEF RunGoto, InRun, Known, TypeOK, ScanTypeOK
<1>2. RunStage(w)'
  BY <1>1 DEF RunStage, Scanning
<1>3. job[f].status = "active" /\ Assembled(f)
  BY RunOwns, JobExcludes
<1>4. JobStage(f)'
  <2>1. LockLost(f)' => LockLost(f)
    BY <1>1 DEF LockLost
  <2>2. Assembled(f)'
    BY <1>3 DEF OnlyForward, Assembled
  <2> QED  BY <1>1, <2>1, <2>2 DEF StageOK, JobStage
<1>5. RowsFollow
  BY DEF RowsFollow
<1>6. runFaults' \in Nat /\ runFaults' >= runFaults
  BY ScanAssumption DEF Known, TypeOK, ScanTypeOK
<1>7. Awaited(f)' => job'[f].status # "none"
  BY <1>1, <1>3
<1>8. \A g \in File \ {f} : state'[g] = state[g] /\ job'[g] = job[g]
  BY <1>1
<1> QED  BY <1>1, <1>2, <1>4, <1>5, <1>6, <1>7, <1>8, RunKeeps

LEMMA RunStepStages ==
  ASSUME LocksMayLapse = FALSE, Known, StageOK, OnlyForward, NEW w \in Worker,
         RunStep(w), UNCHANGED callVars
  PROVE  RowsFollow /\ StageOK'
<1> USE DEF RunAt
<1>0. StoreTypeOK
  BY DEF Known, TypeOK
<1>a. run[w].pc \in RunLabel /\ UNCHANGED <<sweep, runFaults, crashes>>
  BY DEF RunStep, FindFile, ClaimRow, ReadHead, ScanBody, MarkReady,
         RejectObject, RejectRow, CompleteRun, RunLabel
<1>b. PICK f \in File :
        /\ f = run[w].file
        /\ run[w].lock
        /\ job[f].status = "active"
        /\ state[f] \in (FileState \cup {"deleted"}) \ {"pending"}
  <2>1. /\ run[w].file \in File
        /\ run[w].lock
        /\ job[run[w].file].status = "active"
    BY <1>a, RunOwns
  <2>2. state[run[w].file] \notin {"unborn", "pending"}
    BY <2>1, JobExcludes
  <2> QED  BY <1>0, <2>1, <2>2 DEF StoreTypeOK
<1>c. RunStage(w)
  BY DEF StageOK
\* The row is gone, or the object is: no verdict is awaited any more.
<1>d. ASSUME Throw(w), UNCHANGED state, ~Exists(f) \/ f \notin object'
      PROVE  RowsFollow /\ StageOK'
  <2>1. ~Awaited(f)'
    BY <1>d DEF Awaited, Exists, FileState
  <2> QED  BY <1>a, <1>b, <1>d, <2>1, ThrowStages
\* The row is read, or not even that.
<1>e. ASSUME UNCHANGED state, NEW label \in RunLabel, RunGoto(w, label),
             label = "claim" => state[f] \in {"uploaded", "scanning"},
             label \in {"readHead", "scanBody", "markReady", "discard",
                        "markRejected"} => state[f] \in {"scanning", "deleted"},
             label = "finish" => state[f] \in PastScan
      PROVE  RowsFollow /\ StageOK'
  <2>1. Awaited(f)' => Awaited(f)
    BY <1>e, AwaitedBefore DEF Awaited, Known
  <2> QED  BY <1>a, <1>b, <1>e, <2>1, GotoStages
\* The row is written: the run claims it, or gives its verdict.
<1>f. ASSUME state[f] \in {"uploaded", "scanning"},
             state' = [state EXCEPT ![f] = "scanning"], RunGoto(w, "readHead")
      PROVE  RowsFollow /\ StageOK'
  <2>1. state'[f] = "scanning" /\ \A g \in File \ {f} : state'[g] = state[g]
    BY <1>0, <1>f DEF StoreTypeOK
  <2>2. state'[f] = state[f] \/ state'[f] \in MayBecome(state[f])
    BY <1>f, <2>1, Diagram
  <2>3. Awaited(f)' => Awaited(f)
    BY <1>f, AwaitedBefore DEF Known
  <2>4. \E label \in {"readHead"} : RunGoto(w, label)
    BY <1>f
  <2> QED
    BY <1>a, <1>b, <2>1, <2>2, <2>3, <2>4, GotoStages DEF RunLabel
<1>g. ASSUME state[f] = "scanning", NEW s \in {"ready", "rejected"},
             state' = [state EXCEPT ![f] = s], RunGoto(w, "finish")
      PROVE  RowsFollow /\ StageOK'
  <2>1. state'[f] = s /\ \A g \in File \ {f} : state'[g] = state[g]
    BY <1>0, <1>g DEF StoreTypeOK
  <2>2. state'[f] = state[f] \/ state'[f] \in MayBecome(state[f])
    BY <1>g, <2>1, Diagram
  <2>3. Awaited(f)' => Awaited(f)
    BY <1>g, AwaitedBefore DEF Known
  <2>4. state'[f] \in PastScan /\ state'[f] # "pending"
    BY <2>1 DEF PastScan
  <2>5. \E label \in {"finish"} : RunGoto(w, label)
    BY <1>g
  <2> QED
    BY <1>a, <1>b, <2>1, <2>2, <2>3, <2>4, <2>5, GotoStages DEF RunLabel
<1>1. CASE FindFile(w)
  <2>1. UNCHANGED state
    BY <1>1 DEF FindFile, storeVars
  <2>2. CASE state[f] \in {"uploaded", "scanning"}
    BY <1>1, <1>b, <1>e, <2>1, <2>2 DEF FindFile, RunLabel
  <2>3. CASE state[f] \notin {"uploaded", "scanning"}
    BY <1>1, <1>b, <1>e, <2>1, <2>3 DEF FindFile, RunLabel, PastScan, FileState
  <2> QED  BY <2>2, <2>3
<1>2. CASE ClaimRow(w)
  <2>1. CASE ~Exists(f)
    BY <1>2, <1>b, <1>d, <2>1 DEF ClaimRow
  <2>2. CASE Exists(f)
    <3>1. state[f] \in {"uploaded", "scanning"}
      BY <1>2, <1>b, <1>c, <2>2 DEF ClaimRow, RunStage, Exists, FileState
    <3>2. state' = [state EXCEPT ![f] = "scanning"] /\ RunGoto(w, "readHead")
      BY <1>2, <1>b, <2>2 DEF ClaimRow, SetState
    <3> QED  BY <1>f, <3>1, <3>2
  <2> QED  BY <2>1, <2>2
<1>3. CASE ReadHead(w)
  <2>1. UNCHANGED <<state, object>> /\ state[f] \in {"scanning", "deleted"}
    BY <1>3, <1>b, <1>c DEF ReadHead, RunStage, Scanning, storeVars
  <2>2. CASE ~Stored(f)
    BY <1>3, <1>b, <1>d, <2>1, <2>2 DEF ReadHead, Stored
  <2>3. CASE Stored(f)
    BY <1>3, <1>b, <1>e, <2>1, <2>3 DEF ReadHead, RunLabel
  <2> QED  BY <2>2, <2>3
<1>4. CASE ScanBody(w)
  <2>1. UNCHANGED <<state, object>> /\ state[f] \in {"scanning", "deleted"}
    BY <1>4, <1>b, <1>c DEF ScanBody, RunStage, Scanning, storeVars
  <2>2. CASE ~Stored(f)
    BY <1>4, <1>b, <1>d, <2>1, <2>2 DEF ScanBody, Stored
  <2>3. CASE Stored(f)
    BY <1>4, <1>b, <1>e, <2>1, <2>3 DEF ScanBody, RunLabel
  <2> QED  BY <2>2, <2>3
<1>5. CASE MarkReady(w) \/ RejectRow(w)
  <2>1. state[f] \in {"scanning", "deleted"}
    BY <1>5, <1>b, <1>c DEF MarkReady, RejectRow, RunStage, Scanning
  <2>2. CASE ~Exists(f)
    BY <1>5, <1>b, <1>d, <2>2 DEF MarkReady, RejectRow
  <2>3. CASE Exists(f)
    <3>1. state[f] = "scanning"
      BY <2>1, <2>3 DEF Exists, FileState
    <3>2. PICK s \in {"ready", "rejected"} :
            state' = [state EXCEPT ![f] = s] /\ RunGoto(w, "finish")
      BY <1>5, <1>b, <2>3 DEF MarkReady, RejectRow, SetState, SetTombstone
    <3> QED  BY <1>g, <3>1, <3>2
  <2> QED  BY <2>2, <2>3
<1>6. CASE RejectObject(w)
  <2>1. state[f] \in {"scanning", "deleted"}
    BY <1>6, <1>b, <1>c DEF RejectObject, RunStage, Scanning
  <2> QED  BY <1>6, <1>e, <2>1 DEF RejectObject, RunLabel
<1>7. CASE CompleteRun(w)
  <2>1. state[f] \in PastScan /\ UNCHANGED state
    BY <1>7, <1>b, <1>c DEF CompleteRun, RunStage, storeVars
  <2>2. job'[f] = NoJob /\ \A g \in File \ {f} : job'[g] = job[g]
    BY <1>7, <1>b DEF CompleteRun, CompleteJob, Known, TypeOK, JobTypeOK
  <2>3. run'[w] = IdleRun /\ \A v \in Worker \ {w} : run'[v] = run[v]
    BY <1>7 DEF CompleteRun, Known, TypeOK, ScanTypeOK
  <2>4. RunStage(w)'
    BY <2>3 DEF RunStage, Scanning, IdleRun, InRun
  <2>5. ~Awaited(f)'
    BY <2>1 DEF Awaited, PastScan
  <2>6. crashes' \in Nat
    BY <1>a, ScanAssumption DEF Known, TypeOK, ScanTypeOK
  <2>7. JobStage(f)'
    BY <2>2, <2>5, <2>6 DEF JobStage, LockLost, NoJob, Job
  <2>8. RowsFollow
    BY <2>1 DEF RowsFollow
  <2>9. runFaults' \in Nat /\ runFaults' >= runFaults
    BY <1>a, ScanAssumption DEF Known, TypeOK, ScanTypeOK
  <2>10. \A g \in File \ {f} : state'[g] = state[g] /\ job'[g] = job[g]
    BY <2>1, <2>2
  <2> QED
    BY <1>a, <1>b, <2>3, <2>4, <2>5, <2>7, <2>8, <2>9, <2>10, RunKeeps
<1> QED
  BY <1>1, <1>2, <1>3, <1>4, <1>5, <1>6, <1>7 DEF RunStep


LEMMA TakeJobStages ==
  ASSUME LocksMayLapse = FALSE, Known, StageOK, OnlyForward, NEW w \in Worker,
         NEW f \in File, TakeJob(w, f), UNCHANGED callVars
  PROVE  RowsFollow /\ StageOK'
<1>1. /\ job[f].status = "waiting"
      /\ run[w].pc = "idle"
      /\ UNCHANGED <<storeVars, sweep, runFaults, crashes>>
  BY DEF TakeJob, IdleRun, InRun
<1>2. /\ run'[w].pc = "find" /\ run'[w].file = f /\ run'[w].lock
      /\ \A v \in Worker \ {w} : run'[v] = run[v]
  BY DEF TakeJob, InRun, Known, TypeOK, ScanTypeOK
<1>3. /\ job'[f].status = "active"
      /\ job'[f].tries = job[f].tries
      /\ job'[f].stalled = job[f].stalled
      /\ \A g \in File \ {f} : job'[g] = job[g]
  BY DEF TakeJob, ActivateJob, Job, Known, TypeOK, JobTypeOK
<1>4. SweepIsOff'
  BY <1>1 DEF StageOK, SweepIsOff
<1>5. ASSUME NEW v \in Worker  PROVE RunStage(v)'
  <2>1. CASE v = w
    BY <1>2, <2>1 DEF RunStage, Scanning
  <2>2. CASE v # w
    BY <1>1, <1>2, <2>2 DEF StageOK, RunStage, Scanning, storeVars
  <2> QED  BY <2>1, <2>2
<1>6. JobStage(f)'
  BY <1>1, <1>2, <1>3
  DEF StageOK, JobStage, LockLost, Assembled, Awaited, storeVars
<1>7. /\ runFaults' \in Nat /\ runFaults' >= runFaults
      /\ crashes' \in Nat /\ crashes' >= crashes
  BY <1>1, ScanAssumption DEF Known, TypeOK, ScanTypeOK
<1>8. ASSUME NEW g \in File \ {f}, LockLost(g)'  PROVE LockLost(g)
  <2>1. ~run[w].lock
    BY <1>1 DEF Known, LockOK, TypeOK, ScanTypeOK, IdleRun, InRun, RunLabel
  <2> QED  BY <1>2, <1>3, <1>8, <2>1 DEF LockLost
<1>9. \A g \in File \ {f} : LockLost(g)' => LockLost(g) \/ crashes' > crashes
  BY <1>8
<1>10. \A g \in File \ {f} : state'[g] = state[g] /\ job'[g] = job[g]
  BY <1>1, <1>3 DEF storeVars
<1>11. job[f].status # "none" /\ job'[f].status # "none"
  BY <1>1, <1>3
<1>12. RowsFollow
  BY <1>1 DEF RowsFollow, storeVars
<1> QED
  BY <1>4, <1>5, <1>6, <1>7, <1>9, <1>10, <1>11, <1>12, JobKeeps

LEMMA StalledCheckStages ==
  ASSUME LocksMayLapse = FALSE, Known, StageOK, OnlyForward, NEW f \in File,
         StalledCheck(f), UNCHANGED callVars
  PROVE  RowsFollow /\ StageOK'
<1>1. /\ LockLost(f)
      /\ job[f].status = "active"
      /\ UNCHANGED <<storeVars, scanVars>>
  BY DEF StalledCheck, LockLost
<1>2. /\ job[f].stalled \in Nat /\ job[f].stalled < crashes
      /\ runFaults' \in Nat /\ runFaults' >= runFaults
      /\ crashes' \in Nat /\ crashes' >= crashes
  BY <1>1, ScanAssumption
  DEF StageOK, JobStage, Known, TypeOK, ScanTypeOK, JobTypeOK, scanVars
<1>3. /\ \A g \in File \ {f} : job'[g] = job[g]
      /\ job'[f].tries = job[f].tries
      /\ \/ job'[f].status = "waiting" /\ job'[f].stalled = job[f].stalled + 1
         \/ /\ job'[f].status = "failed"
            /\ job'[f].stalled = job[f].stalled
            /\ ~ (job[f].stalled < MaxStalled)
  BY DEF StalledCheck, StallJob, Job, Known, TypeOK, JobTypeOK
<1>4. SweepIsOff'
  BY <1>1 DEF StageOK, SweepIsOff, scanVars
<1>5. \A w \in Worker : RunStage(w)'
  BY <1>1 DEF StageOK, RunStage, Scanning, storeVars, scanVars
<1>6. job'[f].status = "failed" => crashes' > MaxStalled
  BY <1>1, <1>2, <1>3, QueueAssumption DEF scanVars
<1>7. JobStage(f)'
  <2>1. JobStage(f)
    BY DEF StageOK
  <2>2. job'[f].status # "active" /\ job'[f].status # "none"
    BY <1>3
  <2>3. job'[f].stalled <= crashes'
    BY <1>1, <1>2, <1>3 DEF scanVars, Known, TypeOK, ScanTypeOK
  <2>4. Assembled(f)' /\ state'[f] # "pending"
    BY <1>1, <2>1 DEF JobStage, Assembled, storeVars
  <2>5. Awaited(f)' => job'[f].tries <= runFaults'
    BY <1>1, <1>3, <2>1 DEF JobStage, Awaited, storeVars, scanVars
  <2> QED  BY <1>6, <2>2, <2>3, <2>4, <2>5 DEF JobStage, LockLost
<1>8. \A g \in File \ {f} : LockLost(g)' => LockLost(g) \/ crashes' > crashes
  BY <1>1, <1>3 DEF LockLost, scanVars
<1>9. \A g \in File \ {f} : state'[g] = state[g] /\ job'[g] = job[g]
  BY <1>1, <1>3 DEF storeVars
<1>10. job[f].status # "none" /\ job'[f].status # "none"
  BY <1>1, <1>3
<1>11. RowsFollow
  BY <1>1 DEF RowsFollow, storeVars
<1> QED
  BY <1>2, <1>4, <1>5, <1>7, <1>8, <1>9, <1>10, <1>11, JobKeeps

LEMMA ScanStages ==
  ASSUME LocksMayLapse = FALSE, SweepOn = FALSE, Known, StageOK, OnlyForward,
         ScanNext, UNCHANGED callVars
  PROVE  RowsFollow /\ StageOK'
<1>1. ASSUME NEW w \in Worker, SweepStep(w) \/ RequeueStaleScans(w)
      PROVE  FALSE
  BY <1>1 DEF SweepStep, RequeueRow, RequeueJob, RequeueStaleScans, StageOK,
              SweepIsOff, IdleSweep, InSweep
<1>2. ASSUME NEW w \in Worker, LoseLock(w)
      PROVE  FALSE
  BY <1>2 DEF LoseLock
<1>3. ASSUME NEW w \in Worker, AttemptThrows(w)
      PROVE  RowsFollow /\ StageOK'
  <2>1. run[w].pc \in RunLabel /\ run[w].file \in File
    BY <1>3 DEF AttemptThrows, Known, TypeOK, ScanTypeOK
  <2> QED  BY <1>3, <2>1, ThrowStages DEF AttemptThrows, storeVars
<1> QED
  BY <1>1, <1>2, <1>3, RunStepStages, TakeJobStages, StalledCheckStages
  DEF ScanNext

LEMMA ProcessDiesStages ==
  ASSUME LocksMayLapse = FALSE, Known, StageOK, OnlyForward, NEW w \in Worker,
         KillWorker(w) \/ SweepThrows(w)
  PROVE  RowsFollow /\ StageOK'
<1>0. ~SweepThrows(w)
  BY DEF SweepThrows, SweepRowGone, StageOK, SweepIsOff, IdleSweep, InSweep
<1>1. /\ UNCHANGED <<storeVars, job, runFaults, callVars>>
      /\ crashes' = crashes + 1
      /\ run' = [run EXCEPT ![w] = IdleRun]
      /\ sweep' = [sweep EXCEPT ![w] = IdleSweep]
  BY <1>0 DEF KillWorker, ProcessDies, ScanDies
<1>2. /\ run'[w] = IdleRun
      /\ \A v \in Worker \ {w} : run'[v] = run[v]
      /\ \A v \in Worker : sweep'[v] = IdleSweep
  BY <1>1 DEF StageOK, SweepIsOff, Known, TypeOK, ScanTypeOK
<1>3. crashes \in Nat /\ runFaults \in Nat
  BY ScanAssumption DEF Known, TypeOK, ScanTypeOK
<1>4. SweepIsOff'
  BY <1>2 DEF SweepIsOff
<1>5. \A c \in Call : CallStage(c)'
  BY <1>1 DEF StageOK, CallStage, Completing, Assembled, callVars, storeVars
<1>6. OneCompleter'
  BY <1>1 DEF StageOK, OneCompleter, Completing, callVars
<1>7. ASSUME NEW v \in Worker  PROVE RunStage(v)'
  <2>1. CASE v = w
    BY <1>2, <2>1 DEF RunStage, Scanning, IdleRun, InRun
  <2>2. CASE v # w
    BY <1>1, <1>2, <2>2 DEF StageOK, RunStage, Scanning, storeVars
  <2> QED  BY <2>1, <2>2
<1>8. ASSUME NEW f \in File  PROVE JobStage(f)'
  <2>1. JobStage(f) /\ job[f].stalled \in Nat /\ job[f].tries \in Nat
    BY DEF StageOK, Known, TypeOK, JobTypeOK
  <2>2. job'[f].stalled < crashes'
    BY <1>1, <1>3, <2>1 DEF JobStage
  <2>3. job'[f].status = "failed" =>
          job'[f].tries >= Attempts \/ crashes' > MaxStalled
    BY <1>1, <1>3, <2>1, QueueAssumption DEF JobStage
  <2>4. Assembled(f)' = Assembled(f) /\ Awaited(f)' = Awaited(f)
    BY <1>1 DEF Assembled, Awaited, storeVars
  <2>5. job' = job /\ state' = state /\ runFaults' = runFaults
    BY <1>1 DEF storeVars
  <2>6. job'[f].stalled <= crashes'
    BY <1>1, <1>3, <2>1, <2>2
  <2> QED  BY <2>1, <2>2, <2>3, <2>4, <2>5, <2>6 DEF JobStage
<1>9. AwaitedHasJob'
  BY <1>1 DEF StageOK, AwaitedHasJob, Awaited, callVars, storeVars
<1>10. RowsFollow
  BY <1>1 DEF RowsFollow, storeVars
<1> QED  BY <1>4, <1>5, <1>6, <1>7, <1>8, <1>9, <1>10 DEF StageOK

-----------------------------------------------------------------------------
(* The purge, the recipients and the environment *)

\* Calls do not move: what is left to show of a quiet step is about the rows.
LEMMA SameCalls ==
  ASSUME UNCHANGED callVars
  PROVE  (\A c \in Call : QuietCall(c)) /\ callFaults' = callFaults
BY DEF QuietCall, Completing, callVars

LEMMA PurgeStages ==
  ASSUME LocksMayLapse = FALSE, Known, StageOK, OnlyForward, PurgeNext,
         UNCHANGED <<job, callVars, scanVars, downloadVars>>
  PROVE  RowsFollow /\ StageOK'
<1>0. StoreTypeOK /\ PurgeTypeOK
  BY DEF Known, TypeOK
<1>1. PICK p \in Purger : PurgeStep(p) \/ ExpireReadyFiles(p) \/ PurgeThrows(p)
  BY DEF PurgeNext
<1>2. CASE ExpireRow(p)
  <2>1. purge[p].file \in File
    BY <1>0, <1>2 DEF ExpireRow, PurgeTypeOK, IdlePurge, InPurge, PurgePass
  <2>2. \A f \in File : QuietRow(f)
    BY <1>0, <1>2, <2>1 DEF ExpireRow, SetTombstone, QuietRow, StoreTypeOK
  <2> QED  BY <2>2, SameCalls, QuietRows, QuietKeeps DEF QuietStep
<1>3. ASSUME NEW f \in File, PurgeTombstone(p, f)
      PROVE  \A g \in File : QuietRow(g)
  BY <1>0, <1>3 DEF PurgeTombstone, DeleteRow, QuietRow, StoreTypeOK
<1>4. CASE ReapStep(p)
  <2>1. PICK to \in DeletionLabel \cup {"done"} :
          DeletionStep(purge[p].pc, to, purge[p].file)
    BY <1>4 DEF ReapStep
  <2>2. purge[p].pc \in DeletionLabel
    BY <2>1 DEF DeletionStep, FindRow, AbortStep, OrphanHead,
                DeleteObjectStep, DeleteRowStep, DeletionLabel
  <2>3. purge[p].file \in File
    BY <1>0, <2>2 DEF PurgeTypeOK, IdlePurge, InPurge, PurgePass, DeletionLabel
  <2>4. \A f \in File : QuietRow(f)
    BY <1>0, <2>1, <2>3, DeletionRows
  <2> QED  BY <2>4, SameCalls, QuietRows, QuietKeeps DEF QuietStep
<1>5. ASSUME UNCHANGED state
      PROVE  RowsFollow /\ StageOK'
  BY <1>5, SameRows, SameCalls, QuietRows, QuietKeeps DEF QuietStep
<1>6. \/ ExpireRow(p)
      \/ ReapStep(p)
      \/ \E f \in File : PurgeTombstone(p, f)
      \/ UNCHANGED state
  BY <1>1 DEF PurgeStep, PurgeGhostRows, ReapAbandonedUploads, SweepDone,
              ExpireObject, Reap, ExpireReadyFiles, PurgeThrows, storeVars
<1> QED
  BY <1>2, <1>3, <1>4, <1>5, <1>6, SameCalls, QuietRows, QuietKeeps
  DEF QuietStep

LEMMA OtherStages ==
  ASSUME LocksMayLapse = FALSE, Known, StageOK, OnlyForward,
         UNCHANGED <<state, job, callVars, scanVars>>
  PROVE  RowsFollow /\ StageOK'
BY SameRows, SameCalls, QuietRows, QuietKeeps DEF QuietStep

LEMMA StageNext ==
  ASSUME LocksMayLapse = FALSE, SweepOn = FALSE, Known, StageOK, [Next]_vars
  PROVE  RowsFollow /\ StageOK'
<1>0. OnlyForward
  BY IInvNext DEF Known
<1>1. CASE UNCHANGED vars
  BY <1>0, <1>1, OtherStages DEF vars, storeVars
<1>2. ASSUME NEW f \in File, Expire(f) \/ DropStaleMultipart(f)
      PROVE  RowsFollow /\ StageOK'
  BY <1>0, <1>2, OtherStages DEF Expire, DropStaleMultipart
<1>3. CASE DownloadNext /\ UNCHANGED <<job, callVars, scanVars, purgeVars>>
  BY <1>0, <1>3, OtherStages
  DEF DownloadNext, SignDownloadUrl, RefuseUrl, VerifyPasswordAndGetUrl,
      storeVars
<1> QED
  BY <1>0, <1>1, <1>2, <1>3, UploadStages, ScanStages, PurgeStages,
     ProcessDiesStages
  DEF Next

LEMMA StageInit == Init => StageOK
BY ScanAssumption
DEF Init, StoreInit, QueueInit, UploadInit, ScanInit, StageOK, SweepIsOff,
    CallStage, OneCompleter, RunStage, JobStage, AwaitedHasJob, Completing,
    Scanning, LockLost, Awaited, IdleCall, InCall, IdleRun, InRun, NoJob, Job

-----------------------------------------------------------------------------
(* The theorems *)

\* Every reachable state satisfies the invariant of the stages: one request
\* completes an upload, one run scans it, and what each last saw of the row is
\* still so, unless the row was deleted.
THEOREM Stages ==
  ASSUME LocksMayLapse = FALSE, SweepOn = FALSE
  PROVE  Spec => []StageOK
<1>1. Known /\ StageOK /\ [Next]_vars => StageOK'
  BY StageNext
<1> QED  BY StageInit, TypeCorrect, Inductive, Locks, <1>1, PTL DEF Spec, Known

\* A row only takes the transitions of its diagram, although no write but that
\* of the expiry tests the state it replaces.
THEOREM RowsFollowTheDiagram ==
  ASSUME LocksMayLapse = FALSE, SweepOn = FALSE
  PROVE  Spec => DocumentedTransitions
<1>1. Known /\ StageOK /\ [Next]_vars =>
        [\A f \in File :
           state'[f] # state[f] => state'[f] \in MayBecome(state[f])]_state
  BY StageNext DEF RowsFollow
<1> QED
  BY Stages, TypeCorrect, Inductive, Locks, <1>1, PTL
  DEF Spec, Known, DocumentedTransitions

\* A file whose verdict is awaited has a waiting or active job, or the request
\* that is about to add it, as long as no request was cut and there were too
\* few faults to use up the attempts of a job or the stalls it is allowed.
THEOREM AwaitedUnlessWorn ==
  ASSUME LocksMayLapse = FALSE, SweepOn = FALSE
  PROVE  Spec => [](runFaults < Attempts /\ crashes <= MaxStalled
                      => AwaitedIsQueued)
<1>1. Known /\ StageOK /\ runFaults < Attempts /\ crashes <= MaxStalled
        => AwaitedIsQueued
  <2> SUFFICES ASSUME Known, StageOK, runFaults < Attempts,
                      crashes <= MaxStalled, callFaults = 0,
                      NEW f \in File, Awaited(f)
               PROVE  \/ Queued(f)
                      \/ \E c \in Call : call[c] = InCall("enqueue", f)
    BY DEF AwaitedIsQueued, Awaited
  <2>1. \/ job[f].status # "none"
        \/ \E c \in Call : call[c] = InCall("enqueue", f)
    BY DEF StageOK, AwaitedHasJob
  <2>2. /\ job[f].tries \in Nat /\ runFaults \in Nat /\ crashes \in Nat
        /\ job[f].status \in JobStatus
    BY ScanAssumption DEF Known, TypeOK, JobTypeOK, ScanTypeOK
  <2>3. job[f].status # "failed"
    BY <2>2, QueueAssumption DEF StageOK, JobStage
  <2> QED  BY <2>1, <2>2, <2>3 DEF Queued, JobStatus
<1> QED
  BY Stages, TypeCorrect, Inductive, Locks, <1>1, PTL DEF Known

\* With fewer faults than attempts and no more killed workers than stalls, no
\* file is ever forgotten by the queue.
THEOREM NothingIsForgotten ==
  ASSUME LocksMayLapse = FALSE, SweepOn = FALSE,
         MaxRunFaults < Attempts, MaxCrashes <= MaxStalled
  PROVE  Spec => []AwaitedIsQueued
<1>1. TypeOK => runFaults < Attempts /\ crashes <= MaxStalled
  BY ScanAssumption, QueueAssumption DEF TypeOK, ScanTypeOK
<1> QED  BY TypeCorrect, AwaitedUnlessWorn, <1>1, PTL

=============================================================================
