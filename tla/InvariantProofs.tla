--------------------------- MODULE InvariantProofs ---------------------------
(***************************************************************************)
(* IInv is inductive.  Each step moves at most one thread and changes the  *)
(* stores forward only (OnlyForward), which keeps what every other thread  *)
(* relies on; what is left to show of an action is the row it wrote and    *)
(* the label its own thread arrived at.                                    *)
(***************************************************************************)
EXTENDS DatashareProofs

-----------------------------------------------------------------------------
(* Threads that do not move *)

LEMMA CallKept ==
  ASSUME UploadTypeOK, OnlyForward, NEW c \in Call, call'[c] = call[c],
         CallOK(c),
         call[c].pc = "create" =>
           ~Born(call[c].file)' /\ call[c].file \in multipart'
  PROVE  CallOK(c)'
BY DEF UploadTypeOK, OnlyForward, CallOK, Born, Assembled, Sized, Emptied,
       EmptiedUnlessHeadFails, DeletionOK, IdleCall, InCall, CallLabel,
       DeletionLabel

LEMMA RunKept ==
  ASSUME ScanTypeOK, OnlyForward, NEW w \in Worker, run'[w] = run[w], RunOK(w)
  PROVE  RunOK(w)'
BY DEF ScanTypeOK, OnlyForward, RunOK, Born, Assembled, Sized, Emptied,
       IdleRun, InRun, RunLabel

LEMMA SweepKept ==
  ASSUME ScanTypeOK, OnlyForward, NEW w \in Worker, sweep'[w] = sweep[w],
         SweepOK(w)
  PROVE  SweepOK(w)'
BY DEF ScanTypeOK, OnlyForward, SweepOK, Born, Assembled, Sized

LEMMA PurgeKept ==
  ASSUME PurgeTypeOK, OnlyForward, NEW p \in Purger, purge'[p] = purge[p],
         PurgeOK(p)
  PROVE  PurgeOK(p)'
BY DEF PurgeTypeOK, OnlyForward, PurgeOK, Born, Assembled, Emptied,
       EmptiedUnlessHeadFails, DeletionOK, IdlePurge, InPurge, PurgeLabel,
       PurgePass, DeletionLabel

LEMMA ShareKept ==
  ASSUME UploadTypeOK, DownloadTypeOK, OnlyForward, ShareOK,
         UNCHANGED <<told, downloadVars>>
  PROVE  ShareOK'
BY DEF UploadTypeOK, DownloadTypeOK, OnlyForward, ShareOK, Assembled,
       downloadVars, IdleAsk, InAsk

LEMMA JobKept ==
  ASSUME OnlyForward, JobOK,
         \A f \in File : job'[f].status # "none" =>
                           job[f].status # "none" \/ Born(f)
  PROVE  JobOK'
BY DEF OnlyForward, JobOK, Born

-----------------------------------------------------------------------------
(* What the rows and the stores may do *)

FilesOK == \A g \in File : FileOK(g)

\* No request loses the multipart of the row it is about to insert.
CreationKept(c) ==
  call[c].pc = "create" =>
    ~Born(call[c].file)' /\ call[c].file \in multipart'

\* Every effect but the insertion of a row: the files not born yet stay so.
UnbornKept ==
  \A g \in File : ~Born(g) /\ g \in multipart => ~Born(g)' /\ g \in multipart'

LEMMA NoEffect ==
  ASSUME FilesOK, UNCHANGED storeVars
  PROVE  OnlyForward /\ FilesOK' /\ UnbornKept
BY DEF FilesOK, FileOK, OnlyForward, UnbornKept, Born, Assembled, Sized,
       Emptied, EmptiedUnlessHeadFails, Exists, storeVars

LEMMA DeleteObjectEffect ==
  ASSUME StoreTypeOK, FilesOK, NEW f \in File, DeleteObject(f),
         UNCHANGED <<state, keyed, multipart, content>>
  PROVE  OnlyForward /\ FilesOK' /\ UnbornKept
BY DEF StoreTypeOK, FilesOK, FileOK, OnlyForward, UnbornKept, Born, Assembled,
       Sized, Emptied, EmptiedUnlessHeadFails, Exists, DeleteObject

LEMMA AbortEffect ==
  ASSUME StoreTypeOK, FilesOK, NEW f \in File, AbortMultipart(f),
         UNCHANGED <<state, keyed, object, content>>
  PROVE  OnlyForward /\ FilesOK' /\ (Born(f) => UnbornKept)
BY DEF StoreTypeOK, FilesOK, FileOK, OnlyForward, UnbornKept, Born, Assembled,
       Sized, Emptied, EmptiedUnlessHeadFails, Exists, AbortMultipart

LEMMA AssembleEffect ==
  ASSUME StoreTypeOK, FilesOK, NEW f \in File, f \in multipart, Born(f),
         AssembleObject(f), UNCHANGED <<state, keyed>>
  PROVE  OnlyForward /\ FilesOK' /\ UnbornKept
BY DEF StoreTypeOK, FilesOK, FileOK, OnlyForward, UnbornKept, Born, Assembled,
       Sized, Emptied, EmptiedUnlessHeadFails, Exists, AssembleObject, Content

LEMMA SetStateEffect ==
  ASSUME StoreTypeOK, FilesOK, NEW f \in File,
         NEW s \in {"uploaded", "scanning", "ready"}, Exists(f), Sized(f),
         s = "ready" => content[f] = "clean",
         SetState(f, s), UNCHANGED <<multipart, object, content>>
  PROVE  OnlyForward /\ FilesOK' /\ UnbornKept
BY DEF StoreTypeOK, FilesOK, FileOK, OnlyForward, UnbornKept, Born, Assembled,
       Sized, Emptied, EmptiedUnlessHeadFails, Exists, SetState, FileState

LEMMA SetTombstoneEffect ==
  ASSUME StoreTypeOK, FilesOK, NEW f \in File, NEW s \in {"rejected", "expired"},
         Exists(f), Emptied(f), s = "expired" <=> content[f] = "clean",
         SetTombstone(f, s), UNCHANGED <<multipart, object, content>>
  PROVE  OnlyForward /\ FilesOK' /\ UnbornKept
BY DEF StoreTypeOK, FilesOK, FileOK, OnlyForward, UnbornKept, Born, Assembled,
       Sized, Emptied, EmptiedUnlessHeadFails, Exists, SetTombstone, FileState

LEMMA DeleteRowEffect ==
  ASSUME StoreTypeOK, FilesOK, NEW f \in File, Born(f),
         EmptiedUnlessHeadFails(f),
         DeleteRow(f), UNCHANGED <<multipart, object, content>>
  PROVE  OnlyForward /\ FilesOK' /\ UnbornKept
BY DEF StoreTypeOK, FilesOK, FileOK, OnlyForward, UnbornKept, Born, Assembled,
       Sized, Emptied, EmptiedUnlessHeadFails, Exists, DeleteRow, FileState

LEMMA OpenMultipartEffect ==
  ASSUME StoreTypeOK, FilesOK, NEW f \in File, ~Born(f),
         multipart' = multipart \cup {f},
         UNCHANGED <<state, keyed, object, content>>
  PROVE  OnlyForward /\ FilesOK' /\ UnbornKept
BY DEF StoreTypeOK, FilesOK, FileOK, OnlyForward, UnbornKept, Born, Assembled,
       Sized, Emptied, EmptiedUnlessHeadFails, Exists

LEMMA InsertEffect ==
  ASSUME StoreTypeOK, FilesOK, NEW f \in File, ~Born(f), f \in multipart,
         InsertRow(f), UNCHANGED <<multipart, object, content>>
  PROVE  OnlyForward /\ FilesOK'
BY DEF StoreTypeOK, FilesOK, FileOK, OnlyForward, Born, Assembled, Sized,
       Emptied, EmptiedUnlessHeadFails, Exists, InsertRow, FileState

-----------------------------------------------------------------------------
(* A step of one thread keeps IInv if it keeps the rows going forward and  *)
(* brings that thread to a label whose part of IInv holds.                 *)

\* A step creates jobs of born files only.
JobsOfBorn ==
  \A f \in File : job'[f].status # "none" => job[f].status # "none" \/ Born(f)

LEMMA CallMoves ==
  ASSUME TypeOK, IInv, OnlyForward, FilesOK', NEW c \in Call,
         \A d \in Call \ {c} : call'[d] = call[d] /\ CreationKept(d),
         CallOK(c)', OneCreator', JobsOfBorn,
         UNCHANGED <<told, scanVars, purgeVars, downloadVars>>
  PROVE  OnlyForward /\ IInv'
<1> USE DEF TypeOK, IInv
<1>1. \A d \in Call : CallOK(d)'
  <2> SUFFICES ASSUME NEW d \in Call \ {c}  PROVE CallOK(d)'
    OBVIOUS
  <2> QED  BY CallKept DEF CreationKept
<1>2. \A w \in Worker : RunOK(w)' /\ SweepOK(w)'
  BY RunKept, SweepKept DEF scanVars
<1>3. \A p \in Purger : PurgeOK(p)'
  BY PurgeKept DEF purgeVars
<1>4. ShareOK' /\ JobOK'
  BY ShareKept, JobKept DEF JobsOfBorn
<1> QED  BY <1>1, <1>2, <1>3, <1>4 DEF FilesOK

LEMMA WorkerMoves ==
  ASSUME TypeOK, IInv, OnlyForward, FilesOK', UnbornKept, NEW w \in Worker,
         \A v \in Worker \ {w} : run'[v] = run[v] /\ sweep'[v] = sweep[v],
         RunOK(w)', SweepOK(w)', JobsOfBorn,
         UNCHANGED <<callVars, purgeVars, downloadVars>>
  PROVE  OnlyForward /\ IInv'
<1> USE DEF TypeOK, IInv, callVars
<1>1. \A d \in Call : CallOK(d)'
  <2> SUFFICES ASSUME NEW d \in Call  PROVE CallOK(d)'
    OBVIOUS
  <2>1. CreationKept(d)
    BY DEF UnbornKept, CreationKept, CallOK, UploadTypeOK, IdleCall, InCall
  <2> QED  BY <2>1, CallKept DEF CreationKept
<1>2. OneCreator'
  BY DEF OneCreator
<1>3. \A v \in Worker : RunOK(v)' /\ SweepOK(v)'
  BY RunKept, SweepKept
<1>4. \A p \in Purger : PurgeOK(p)'
  BY PurgeKept DEF purgeVars
<1>5. ShareOK' /\ JobOK'
  BY ShareKept, JobKept DEF JobsOfBorn
<1> QED  BY <1>1, <1>2, <1>3, <1>4, <1>5 DEF FilesOK

LEMMA PurgerMoves ==
  ASSUME TypeOK, IInv, OnlyForward, FilesOK', UnbornKept, NEW p \in Purger,
         \A q \in Purger \ {p} : purge'[q] = purge[q],
         PurgeOK(p)',
         UNCHANGED <<job, callVars, scanVars, downloadVars>>
  PROVE  OnlyForward /\ IInv'
<1> USE DEF TypeOK, IInv, callVars, scanVars
<1>1. \A d \in Call : CallOK(d)'
  <2> SUFFICES ASSUME NEW d \in Call  PROVE CallOK(d)'
    OBVIOUS
  <2>1. CreationKept(d)
    BY DEF UnbornKept, CreationKept, CallOK, UploadTypeOK, IdleCall, InCall
  <2> QED  BY <2>1, CallKept DEF CreationKept
<1>2. OneCreator'
  BY DEF OneCreator
<1>3. \A v \in Worker : RunOK(v)' /\ SweepOK(v)'
  BY RunKept, SweepKept
<1>4. \A q \in Purger : PurgeOK(q)'
  BY PurgeKept
<1>5. ShareOK' /\ JobOK'
  BY ShareKept, JobKept
<1> QED  BY <1>1, <1>2, <1>3, <1>4, <1>5 DEF FilesOK

-----------------------------------------------------------------------------
(* The deletion, whoever runs it *)

LEMMA DeletionKeeps ==
  ASSUME StoreTypeOK, FilesOK, NEW f \in File, Born(f), NEW at, NEW to,
         DeletionOK(at, f), DeletionStep(at, to, f)
  PROVE  OnlyForward /\ FilesOK' /\ UnbornKept /\ DeletionOK(to, f)'
<1>1. CASE FindRow(at, to, f)
  <2>1. OnlyForward /\ FilesOK' /\ UnbornKept
    BY <1>1, NoEffect DEF FindRow
  <2>2. DeletionOK(to, f)'
    BY <1>1 DEF FindRow, DeletionOK, EmptiedUnlessHeadFails, Emptied, FilesOK,
                FileOK, Exists, FileState, Sized, Assembled, storeVars, Born
  <2> QED  BY <2>1, <2>2
<1>2. CASE AbortStep(at, to, f)
  <2>1. OnlyForward /\ FilesOK' /\ UnbornKept
    BY <1>2, AbortEffect DEF AbortStep
  <2>2. DeletionOK(to, f)'
    BY <1>2 DEF AbortStep, AbortMultipart, DeletionOK, EmptiedUnlessHeadFails, Emptied,
                FilesOK, FileOK, Born
  <2> QED  BY <2>1, <2>2
<1>3. CASE OrphanHead(at, to, f)
  <2>1. OnlyForward /\ FilesOK' /\ UnbornKept
    BY <1>3, NoEffect DEF OrphanHead
  <2>2. DeletionOK(to, f)'
    BY <1>3 DEF OrphanHead, DeletionOK, EmptiedUnlessHeadFails, Emptied, Stored, Born,
                storeVars
  <2> QED  BY <2>1, <2>2
<1>4. CASE DeleteObjectStep(at, to, f)
  <2>1. OnlyForward /\ FilesOK' /\ UnbornKept
    BY <1>4, DeleteObjectEffect DEF DeleteObjectStep
  <2>2. DeletionOK(to, f)'
    BY <1>4 DEF DeleteObjectStep, DeleteObject, DeletionOK, EmptiedUnlessHeadFails, Emptied,
                Born
  <2> QED  BY <2>1, <2>2
<1>5. CASE DeleteRowStep(at, to, f)
  <2>1. EmptiedUnlessHeadFails(f)
    BY <1>5 DEF DeleteRowStep, DeletionOK
  <2>2. OnlyForward /\ FilesOK' /\ UnbornKept
    BY <1>5, <2>1, DeleteRowEffect DEF DeleteRowStep
  <2>3. DeletionOK(to, f)'
    BY <1>5 DEF DeleteRowStep, DeletionOK
  <2> QED  BY <2>2, <2>3
<1> QED  BY <1>1, <1>2, <1>3, <1>4, <1>5 DEF DeletionStep

-----------------------------------------------------------------------------
(* The requests *)

\* A request arrives at any label but "create".
LEMMA CallArrives ==
  ASSUME TypeOK, IInv, OnlyForward, FilesOK', UnbornKept, NEW c \in Call,
         NEW at, call' = [call EXCEPT ![c] = at], at.pc # "create",
         CallOK(c)', JobsOfBorn,
         UNCHANGED <<told, scanVars, purgeVars, downloadVars>>
  PROVE  OnlyForward /\ IInv'
<1>1. \A d \in Call \ {c} : call'[d] = call[d] /\ CreationKept(d)
  <2> SUFFICES ASSUME NEW d \in Call \ {c}
               PROVE  call'[d] = call[d] /\ CreationKept(d)
    OBVIOUS
  <2>1. call'[d] = call[d]
    BY DEF TypeOK, UploadTypeOK
  <2>2. CallOK(d)
    BY DEF IInv
  <2>3. CreationKept(d)
    BY <2>1, <2>2 DEF UnbornKept, CreationKept, CallOK, TypeOK, UploadTypeOK,
                      IdleCall, InCall
  <2> QED  BY <2>1, <2>3
<1>2. OneCreator'
  <2>1. call'[c].pc # "create"
    BY DEF TypeOK, UploadTypeOK
  <2> QED  BY <1>1, <2>1 DEF IInv, OneCreator
<1> QED  BY <1>1, <1>2, CallMoves

\* A request goes on to an await whose part of CallOK holds, or returns.
LEMMA CallGoes ==
  ASSUME TypeOK, IInv, OnlyForward, FilesOK', UnbornKept, NEW c \in Call,
         call[c].pc \in CallLabel \ {"create"}, NEW f, f = call[c].file,
         NEW label \in (CallLabel \ {"create"}) \cup {"done", "thrown"},
         Goto(c, label), JobsOfBorn,
         label \in {"discard", "markRejected"} => content'[f] = "missized",
         label = "markRejected" => Emptied(f)',
         label \in {"markUploaded", "enqueue"} => Sized(f)',
         DeletionOK(label, f)',
         UNCHANGED <<scanVars, purgeVars, downloadVars>>
  PROVE  OnlyForward /\ IInv'
<1>1. f \in File /\ Born(f)
  BY AtBusy DEF TypeOK, IInv, CallOK
<1>2. Born(f)'
  BY <1>1 DEF OnlyForward
<1>3. CASE label \in {"done", "thrown"}
  <2>1. call' = [call EXCEPT ![c] = IdleCall] /\ told' = told
    BY <1>3 DEF Goto
  <2>2. call'[c] = IdleCall
    BY <2>1 DEF TypeOK, UploadTypeOK
  <2>3. CallOK(c)'
    BY <2>2 DEF CallOK, DeletionOK, IdleCall, InCall, CallLabel, DeletionLabel
  <2>4. IdleCall.pc # "create"
    BY DEF IdleCall, InCall
  <2> QED  BY <2>1, <2>3, <2>4, CallArrives
<1>4. CASE label \notin {"done", "thrown"}
  <2>1. call' = [call EXCEPT ![c] = InCall(label, f)] /\ told' = told
    BY <1>4 DEF Goto
  <2>2. call'[c].pc = label /\ call'[c].file = f
    BY <2>1 DEF TypeOK, UploadTypeOK, InCall
  <2>3. CallOK(c)'
    BY <2>2, <1>2 DEF CallOK, DeletionOK, EmptiedUnlessHeadFails, Emptied,
                      Sized, Assembled, Born
  <2>4. InCall(label, f).pc # "create"
    BY <1>4 DEF InCall
  <2> QED  BY <2>1, <2>3, <2>4, CallArrives
<1> QED  BY <1>3, <1>4

\* The files of a request in flight, and what is known of one of them
LEMMA CallFile ==
  ASSUME TypeOK, IInv, NEW c \in Call, call[c].pc \in CallLabel
  PROVE  call[c].file \in File /\ CallOK(c) /\ FileOK(call[c].file)
BY AtBusy DEF TypeOK, IInv

LEMMA SameJobs ==
  ASSUME UNCHANGED job
  PROVE  JobsOfBorn
BY DEF JobsOfBorn

LEMMA EnqueuedIsBorn ==
  ASSUME JobTypeOK, NEW f \in File, Born(f), EnqueueValidation(f)
  PROVE  JobsOfBorn
BY DEF JobTypeOK, JobsOfBorn, EnqueueValidation, NewJob, Job

LEMMA CallStepKeeps ==
  ASSUME TypeOK, IInv, NEW c \in Call, CallStep(c),
         UNCHANGED <<scanVars, purgeVars, downloadVars>>
  PROVE  OnlyForward /\ IInv'
<1> USE DEF At
<1>0. StoreTypeOK /\ JobTypeOK /\ FilesOK
  BY DEF TypeOK, IInv, FilesOK
<1>a. call[c].pc \in CallLabel
  <2>1. ASSUME NEW to, DeletionStep(call[c].pc, to, call[c].file)
        PROVE  call[c].pc \in DeletionLabel
    BY <2>1 DEF DeletionStep, FindRow, AbortStep, OrphanHead,
                DeleteObjectStep, DeleteRowStep, DeletionLabel
  <2> QED
    BY <2>1 DEF CallStep, CreateRow, CompleteMultipart, CheckSize,
                DiscardMissized, MarkRejected, MarkUploaded, Enqueue,
                AbortOwn, DeleteOwnedStep, CallLabel
<1>b. PICK f \in File : f = call[c].file /\ CallOK(c) /\ FileOK(f)
  BY <1>a, CallFile
<1>1. CASE CreateRow(c)
  <2>1. f = call[c].file /\ call[c].pc = "create" /\ CallOK(c) /\ FileOK(f)
    BY <1>1, <1>b DEF CreateRow
  <2>2. ~Born(f) /\ f \in multipart
    BY <2>1 DEF CallOK
  <2>3. OnlyForward /\ FilesOK'
    BY <1>0, <1>1, <2>1, <2>2, InsertEffect DEF CreateRow
  <2>4. call' = [call EXCEPT ![c] = IdleCall] /\ told' = told
    BY <1>1 DEF CreateRow, Goto
  <2>5. \A d \in Call \ {c} : call'[d] = call[d] /\ CreationKept(d)
    <3> SUFFICES ASSUME NEW d \in Call \ {c}
                 PROVE  call'[d] = call[d] /\ CreationKept(d)
      OBVIOUS
    <3>1. call'[d] = call[d]
      BY <2>4 DEF TypeOK, UploadTypeOK
    <3>2. call[d].pc = "create" =>
            /\ call[d].file # f
            /\ call[d].file \in File
            /\ ~Born(call[d].file)
            /\ call[d].file \in multipart
      BY <2>1, CallFile DEF CallLabel, CallOK, IInv, OneCreator
    <3>3. \A g \in File \ {f} : state'[g] = state[g]
      BY <1>0, <1>1, <2>1 DEF CreateRow, InsertRow, StoreTypeOK
    <3>4. multipart' = multipart
      BY <1>1 DEF CreateRow
    <3> QED  BY <3>1, <3>2, <3>3, <3>4 DEF CreationKept, Born
  <2>6. call'[c] = IdleCall
    BY <2>4 DEF TypeOK, UploadTypeOK
  <2>7. CallOK(c)'
    BY <2>6 DEF CallOK, DeletionOK, IdleCall, InCall, CallLabel, DeletionLabel
  <2>8. OneCreator'
    BY <2>5, <2>6 DEF IInv, OneCreator, IdleCall, InCall
  <2>9. JobsOfBorn
    BY <1>1, SameJobs DEF CreateRow
  <2> QED  BY <2>3, <2>4, <2>5, <2>7, <2>8, <2>9, CallMoves
<1>2. CASE CompleteMultipart(c)
  <2>1. f = call[c].file /\ call[c].pc = "completeMultipart" /\ CallOK(c) /\ FileOK(f)
    BY <1>2, <1>b DEF CompleteMultipart
  <2>2. Born(f) /\ JobsOfBorn
    BY <1>2, <2>1, SameJobs DEF CallOK, CallLabel, CompleteMultipart
  <2>3. CASE f \in multipart
    <3>1. OnlyForward /\ FilesOK' /\ UnbornKept
      BY <1>0, <1>2, <2>1, <2>2, <2>3, AssembleEffect DEF CompleteMultipart
    <3> QED
      BY <1>2, <2>1, <2>2, <2>3, <3>1, CallGoes
      DEF CompleteMultipart, CallLabel, DeletionOK
  <2>4. CASE f \notin multipart
    <3>1. OnlyForward /\ FilesOK' /\ UnbornKept
      BY <1>0, <1>2, <2>1, <2>4, NoEffect DEF CompleteMultipart, storeVars
    <3> QED
      BY <1>2, <2>1, <2>2, <2>4, <3>1, CallGoes
      DEF CompleteMultipart, CallLabel, DeletionOK
  <2> QED  BY <2>3, <2>4
<1>3. CASE CheckSize(c)
  <2>1. f = call[c].file /\ call[c].pc = "head" /\ CallOK(c) /\ FileOK(f)
    BY <1>3, <1>b DEF CheckSize
  <2>2. OnlyForward /\ FilesOK' /\ UnbornKept /\ JobsOfBorn
    BY <1>0, <1>3, NoEffect, SameJobs DEF CheckSize
  <2>3. content' = content
    BY <1>3 DEF CheckSize, storeVars
  <2>4. CASE ~Stored(f)
    BY <1>3, <2>1, <2>2, <2>4, CallGoes DEF CheckSize, CallLabel, DeletionOK
  <2>5. CASE Stored(f) /\ content[f] = "missized"
    BY <1>3, <2>1, <2>2, <2>3, <2>5, CallGoes
    DEF CheckSize, CallLabel, DeletionOK
  <2>6. CASE Stored(f) /\ content[f] # "missized"
    <3>1. Sized(f)'
      BY <2>1, <2>3, <2>6 DEF Stored, FileOK, Sized, Assembled
    <3> QED
      BY <1>3, <2>1, <2>2, <2>6, <3>1, CallGoes
      DEF CheckSize, CallLabel, DeletionOK
  <2> QED  BY <2>4, <2>5, <2>6
<1>4. CASE DiscardMissized(c)
  <2>1. f = call[c].file /\ call[c].pc = "discard" /\ CallOK(c) /\ FileOK(f)
    BY <1>4, <1>b DEF DiscardMissized
  <2>2. OnlyForward /\ FilesOK' /\ UnbornKept /\ JobsOfBorn
    BY <1>0, <1>4, <2>1, DeleteObjectEffect, SameJobs DEF DiscardMissized
  <2>3. content[f] = "missized" /\ Born(f)
    BY <2>1 DEF CallOK, CallLabel
  <2>4. Emptied(f)' /\ content'[f] = "missized"
    BY <1>4, <2>1, <2>3
    DEF DiscardMissized, DeleteObject, Emptied, Born, FileOK, Assembled
  <2> QED
    BY <1>4, <2>1, <2>2, <2>4, CallGoes
    DEF DiscardMissized, CallLabel, DeletionOK
<1>5. CASE MarkRejected(c)
  <2>1. f = call[c].file /\ call[c].pc = "markRejected" /\ CallOK(c) /\ FileOK(f)
    BY <1>5, <1>b DEF MarkRejected
  <2>2. content[f] = "missized" /\ Emptied(f) /\ JobsOfBorn
    BY <1>5, <2>1, SameJobs DEF CallOK, MarkRejected
  <2>3. CASE Exists(f)
    <3>1. OnlyForward /\ FilesOK' /\ UnbornKept
      BY <1>0, <1>5, <2>1, <2>2, <2>3, SetTombstoneEffect DEF MarkRejected
    <3> QED
      BY <1>5, <2>1, <2>2, <3>1, CallGoes
      DEF MarkRejected, CallLabel, DeletionOK
  <2>4. CASE ~Exists(f)
    <3>1. OnlyForward /\ FilesOK' /\ UnbornKept
      BY <1>0, <1>5, <2>1, <2>4, NoEffect DEF MarkRejected, storeVars
    <3> QED
      BY <1>5, <2>1, <2>2, <3>1, CallGoes
      DEF MarkRejected, CallLabel, DeletionOK
  <2> QED  BY <2>3, <2>4
<1>6. CASE MarkUploaded(c)
  <2>1. f = call[c].file /\ call[c].pc = "markUploaded" /\ CallOK(c) /\ FileOK(f)
    BY <1>6, <1>b DEF MarkUploaded
  <2>2. Sized(f) /\ JobsOfBorn
    BY <1>6, <2>1, SameJobs DEF CallOK, MarkUploaded
  <2>3. CASE Exists(f)
    <3>1. SetState(f, "uploaded") /\ Goto(c, "enqueue")
      BY <1>6, <2>1, <2>3 DEF MarkUploaded
    <3>2. OnlyForward /\ FilesOK' /\ UnbornKept
      BY <1>0, <1>6, <2>2, <2>3, <3>1, SetStateEffect DEF MarkUploaded
    <3>3. Sized(f)'
      BY <1>6, <2>2 DEF MarkUploaded, Sized, Assembled
    <3> QED
      BY <2>1, <2>2, <3>1, <3>2, <3>3, CallGoes DEF CallLabel, DeletionOK
  <2>4. CASE ~Exists(f)
    <3>1. OnlyForward /\ FilesOK' /\ UnbornKept
      BY <1>0, <1>6, <2>1, <2>4, NoEffect DEF MarkUploaded, storeVars
    <3>2. Goto(c, "thrown")
      BY <1>6, <2>1, <2>4 DEF MarkUploaded
    <3> QED
      BY <2>1, <2>2, <3>1, <3>2, CallGoes DEF CallLabel, DeletionOK
  <2> QED  BY <2>3, <2>4
<1>7. CASE Enqueue(c)
  <2>1. f = call[c].file /\ call[c].pc = "enqueue" /\ CallOK(c)
    BY <1>7, <1>b DEF Enqueue
  <2>2. OnlyForward /\ FilesOK' /\ UnbornKept
    BY <1>0, <1>7, NoEffect DEF Enqueue
  <2>3. JobsOfBorn
    BY <1>0, <1>7, <2>1, EnqueuedIsBorn DEF Enqueue, CallOK, CallLabel
  <2> QED
    BY <1>7, <2>1, <2>2, <2>3, CallGoes DEF Enqueue, CallLabel, DeletionOK
<1>8. CASE AbortOwn(c)
  <2>1. f = call[c].file /\ call[c].pc = "abortOwn" /\ CallOK(c) /\ FileOK(f)
    BY <1>8, <1>b DEF AbortOwn
  <2>2. Born(f) /\ JobsOfBorn
    BY <1>8, <2>1, SameJobs DEF CallOK, CallLabel, AbortOwn
  <2>3. OnlyForward /\ FilesOK' /\ UnbornKept
    BY <1>0, <1>8, <2>1, <2>2, AbortEffect DEF AbortOwn
  <2>4. CASE f \in multipart
    <3>1. Emptied(f)'
      BY <1>8, <2>1, <2>2, <2>4
      DEF AbortOwn, AbortMultipart, Emptied, Born, FileOK, Assembled
    <3>2. DeletionOK("deleteRow", f)'
      BY <3>1 DEF DeletionOK, EmptiedUnlessHeadFails, Emptied, Born
    <3>3. Goto(c, "deleteRow")
      BY <1>8, <2>1, <2>4 DEF AbortOwn
    <3> QED
      BY <2>1, <2>2, <2>3, <3>2, <3>3, <1>8, CallGoes
      DEF CallLabel, DeletionLabel
  <2>5. CASE f \notin multipart
    <3>1. Goto(c, "thrown")
      BY <1>8, <2>1, <2>5 DEF AbortOwn
    <3> QED
      BY <2>1, <2>2, <2>3, <3>1, CallGoes DEF CallLabel, DeletionOK
  <2> QED  BY <2>4, <2>5
<1>9. CASE DeleteOwnedStep(c)
  <2>1. PICK to \in DeletionLabel \cup {"done"} :
          DeletionStep(call[c].pc, to, f) /\ Goto(c, to)
    BY <1>9, <1>b DEF DeleteOwnedStep
  <2>2. call[c].pc \in DeletionLabel
    BY <2>1 DEF DeletionStep, FindRow, AbortStep, OrphanHead,
                DeleteObjectStep, DeleteRowStep, DeletionLabel
  <2>3. Born(f) /\ DeletionOK(call[c].pc, f)
    BY <1>b, <2>2 DEF CallOK, CallLabel, DeletionLabel
  <2>4. OnlyForward /\ FilesOK' /\ UnbornKept /\ DeletionOK(to, f)'
    BY <1>0, <2>1, <2>3, DeletionKeeps
  <2>5. JobsOfBorn
    BY <1>9, SameJobs DEF DeleteOwnedStep
  <2> QED
    BY <1>b, <2>1, <2>2, <2>4, <2>5, CallGoes DEF CallLabel, DeletionLabel
<1> QED
  BY <1>1, <1>2, <1>3, <1>4, <1>5, <1>6, <1>7, <1>8, <1>9 DEF CallStep

LEMMA UploadKeeps ==
  ASSUME TypeOK, IInv, UploadNext,
         UNCHANGED <<scanVars, purgeVars, downloadVars>>
  PROVE  OnlyForward /\ IInv'
<1>0. StoreTypeOK /\ FilesOK
  BY DEF TypeOK, IInv, FilesOK
<1>1. ASSUME NEW c \in Call, CutCall(c)
      PROVE  OnlyForward /\ IInv'
  <2>1. OnlyForward /\ FilesOK' /\ UnbornKept /\ JobsOfBorn
    BY <1>0, <1>1, NoEffect, SameJobs DEF CutCall
  <2>2. call' = [call EXCEPT ![c] = IdleCall] /\ told' = told
    BY <1>1 DEF CutCall
  <2>3. call'[c] = IdleCall
    BY <2>2 DEF TypeOK, UploadTypeOK
  <2>4. CallOK(c)'
    BY <2>3 DEF CallOK, DeletionOK, IdleCall, InCall, CallLabel, DeletionLabel
  <2>5. IdleCall.pc # "create"
    BY DEF IdleCall, InCall
  <2> QED  BY <2>1, <2>2, <2>4, <2>5, CallArrives
<1>2. ASSUME NEW c \in Call, NEW f \in File, InitiateUpload(c, f)
      PROVE  OnlyForward /\ IInv'
  <2>1. ~Born(f) /\ f \notin multipart /\ JobsOfBorn
    BY <1>2, SameJobs DEF InitiateUpload, Born
  <2>2. OnlyForward /\ FilesOK' /\ UnbornKept
    BY <1>0, <1>2, <2>1, OpenMultipartEffect DEF InitiateUpload
  <2>3. call' = [call EXCEPT ![c] = InCall("create", f)] /\ told' = told
    BY <1>2 DEF InitiateUpload, Begin
  <2>4. call'[c].pc = "create" /\ call'[c].file = f
    BY <2>3 DEF TypeOK, UploadTypeOK, InCall
  <2>5. \A d \in Call \ {c} :
          /\ call'[d] = call[d]
          /\ call[d].pc = "create" =>
               /\ call[d].file \in File
               /\ ~Born(call[d].file)
               /\ call[d].file \in multipart
    BY <2>3, CallFile DEF TypeOK, UploadTypeOK, CallLabel, CallOK
  <2>6. \A d \in Call \ {c} : call'[d] = call[d] /\ CreationKept(d)
    BY <2>2, <2>5 DEF UnbornKept, CreationKept
  <2>7. OneCreator'
    BY <2>1, <2>4, <2>5 DEF IInv, OneCreator
  <2>8. CallOK(c)'
    BY <1>2, <2>1, <2>4
    DEF InitiateUpload, CallOK, DeletionOK, CallLabel, DeletionLabel, Born
  <2> QED  BY <2>1, <2>2, <2>3, <2>6, <2>7, <2>8, CallMoves
<1>3. ASSUME NEW c \in Call, NEW f \in File,
             \/ CompleteUpload(c, f)
             \/ AbortUpload(c, f)
             \/ DeleteOwnedFile(c, f)
      PROVE  OnlyForward /\ IInv'
  <2>1. OnlyForward /\ FilesOK' /\ UnbornKept /\ JobsOfBorn /\ state' = state
    BY <1>0, <1>3, NoEffect, SameJobs
    DEF CompleteUpload, AbortUpload, DeleteOwnedFile, storeVars
  <2>2. PICK label \in {"completeMultipart", "abortOwn", "findUnique",
                        "deleteRow"} : Begin(c, f, label)
    BY <1>3 DEF CompleteUpload, AbortUpload, DeleteOwnedFile
  <2>3. call' = [call EXCEPT ![c] = InCall(label, f)] /\ told' = told
    BY <2>2 DEF Begin
  <2>4. call'[c].pc = label /\ call'[c].file = f
    BY <2>3 DEF TypeOK, UploadTypeOK, InCall
  <2>5. Exists(f)
    BY <1>3 DEF CompleteUpload, AbortUpload, DeleteOwnedFile, PendingUpload,
                Exists, FileState
  <2>6. Born(f)'
    BY <2>1, <2>5 DEF Born, Exists, FileState
  <2>7. label = "deleteRow" => f \notin keyed
    <3>1. call'[c].pc = (IF f \in keyed THEN "findUnique" ELSE "deleteRow")
          \/ label \in {"completeMultipart", "abortOwn"}
      BY <1>3, <2>4 DEF CompleteUpload, AbortUpload, DeleteOwnedFile, Begin,
                        TypeOK, UploadTypeOK, InCall
    <3> QED  BY <2>4, <3>1
  <2>8. label = "deleteRow" => EmptiedUnlessHeadFails(f)'
    BY <1>0, <1>3, <2>5, <2>7
    DEF FilesOK, FileOK, EmptiedUnlessHeadFails, Emptied, CompleteUpload,
        AbortUpload, DeleteOwnedFile, storeVars, Born
  <2>9. CallOK(c)'
    BY <2>4, <2>6, <2>8 DEF CallOK, DeletionOK, CallLabel
  <2>10. InCall(label, f).pc # "create"
    BY DEF InCall
  <2> QED  BY <2>1, <2>3, <2>9, <2>10, CallArrives
<1>4. ASSUME NEW f \in File, GetUploadStatus(f) \/ ListFiles(f)
      PROVE  OnlyForward /\ IInv'
  <2>1. OnlyForward /\ FilesOK' /\ UnbornKept
    BY <1>0, <1>4, NoEffect DEF GetUploadStatus, ListFiles
  <2> USE DEF GetUploadStatus, ListFiles
  <2>2. /\ \A c \in Call : CallOK(c)'
        /\ OneCreator'
        /\ \A w \in Worker : RunOK(w)' /\ SweepOK(w)'
        /\ \A p \in Purger : PurgeOK(p)'
        /\ JobOK'
    BY <1>4 DEF IInv, CallOK, OneCreator, RunOK, SweepOK, PurgeOK, JobOK, Born,
                Sized, Assembled, Emptied, EmptiedUnlessHeadFails, DeletionOK,
                storeVars, scanVars, purgeVars
  <2>3. content[f] = "clean"
    BY <1>0, <1>4 DEF FilesOK, FileOK
  <2>4. ShareOK'
    BY <1>4, <2>3 DEF IInv, ShareOK, storeVars, downloadVars
  <2> QED  BY <2>1, <2>2, <2>4 DEF IInv, FilesOK
<1> QED
  BY <1>1, <1>2, <1>3, <1>4, CallStepKeeps DEF UploadNext

-----------------------------------------------------------------------------
(* The workers *)

LEMMA RunFile ==
  ASSUME TypeOK, IInv, NEW w \in Worker, run[w].pc \in RunLabel
  PROVE  /\ run[w].file \in File
         /\ RunOK(w)
         /\ FileOK(run[w].file)
         /\ Born(run[w].file)
         /\ content[run[w].file] \in Content \cup {"none"}
BY RunBusy DEF TypeOK, IInv, RunOK, StoreTypeOK

\* A run goes on to an await whose part of RunOK holds.
LEMMA RunGoes ==
  ASSUME TypeOK, IInv, OnlyForward, FilesOK', UnbornKept, NEW w \in Worker,
         run[w].pc \in RunLabel, NEW f, f = run[w].file,
         NEW label \in RunLabel, RunGoto(w, label),
         label \in {"claim", "readHead", "scanBody"} => Sized(f)',
         label = "scanBody" => content'[f] # "spoofed",
         label = "markReady" => content'[f] = "clean",
         label \in {"discard", "markRejected"} =>
           content'[f] \in {"spoofed", "infected"},
         label = "markRejected" => Emptied(f)',
         UNCHANGED <<sweep, callVars, purgeVars, downloadVars>>
  PROVE  OnlyForward /\ IInv'
<1>1. f \in File /\ Born(f)'
  BY RunFile DEF OnlyForward
<1>2. \A v \in Worker \ {w} : run'[v] = run[v] /\ sweep'[v] = sweep[v]
  BY DEF RunGoto, TypeOK, ScanTypeOK
<1>3. run'[w].pc = label /\ run'[w].file = f
  BY DEF RunGoto, TypeOK, ScanTypeOK, InRun
<1>4. RunOK(w)'
  BY <1>1, <1>3 DEF RunOK, Born, Sized, Assembled, Emptied
<1>5. SweepOK(w)'
  BY SweepKept DEF TypeOK, IInv
<1>6. JobsOfBorn
  BY SameJobs DEF RunGoto
<1> QED  BY <1>2, <1>4, <1>5, <1>6, WorkerMoves

\* A run throws or completes: no row changes, its job may.
LEMMA RunEnds ==
  ASSUME TypeOK, IInv, NEW w \in Worker, run[w].pc \in RunLabel,
         run' = [run EXCEPT ![w] = IdleRun],
         \/ FailAttempt(run[w].file)
         \/ CompleteJob(run[w].file)
         \/ UNCHANGED job,
         UNCHANGED <<storeVars, sweep, callVars, purgeVars, downloadVars>>
  PROVE  OnlyForward /\ IInv'
<1>1. OnlyForward /\ FilesOK' /\ UnbornKept
  BY NoEffect DEF IInv, FilesOK
<1>2. \A v \in Worker \ {w} : run'[v] = run[v] /\ sweep'[v] = sweep[v]
  BY DEF TypeOK, ScanTypeOK
<1>3. run'[w] = IdleRun
  BY DEF TypeOK, ScanTypeOK
<1>4. RunOK(w)'
  BY <1>3 DEF RunOK, IdleRun, InRun, RunLabel
<1>5. SweepOK(w)'
  BY <1>1, SweepKept DEF TypeOK, IInv
<1>6. JobsOfBorn
  BY RunFile DEF JobsOfBorn, FailAttempt, CompleteJob, NoJob, Job, TypeOK,
                 JobTypeOK
<1> QED  BY <1>1, <1>2, <1>4, <1>5, <1>6, WorkerMoves

LEMMA RunStepKeeps ==
  ASSUME TypeOK, IInv, NEW w \in Worker, RunStep(w),
         UNCHANGED <<callVars, purgeVars, downloadVars>>
  PROVE  OnlyForward /\ IInv'
<1> USE DEF RunAt
<1>0. StoreTypeOK /\ FilesOK
  BY DEF TypeOK, IInv, FilesOK
<1>a. run[w].pc \in RunLabel /\ sweep' = sweep
  BY DEF RunStep, FindFile, ClaimRow, ReadHead, ScanBody, MarkReady,
         RejectObject, RejectRow, CompleteRun, RunLabel
<1>b. PICK f \in File :
        /\ f = run[w].file
        /\ RunOK(w)
        /\ FileOK(f)
        /\ Born(f)
        /\ content[f] \in Content \cup {"none"}
  BY <1>a, RunFile
<1>c. ASSUME Throw(w), UNCHANGED storeVars
      PROVE  OnlyForward /\ IInv'
  BY <1>a, <1>c, RunEnds DEF Throw
<1>1. CASE FindFile(w)
  <2>1. OnlyForward /\ FilesOK' /\ UnbornKept /\ UNCHANGED storeVars
    BY <1>0, <1>1, NoEffect DEF FindFile
  <2>2. CASE state[f] \in {"uploaded", "scanning"}
    <3>1. Sized(f)'
      BY <1>b, <2>1, <2>2 DEF FileOK, Sized, Assembled, storeVars
    <3> QED
      BY <1>1, <1>a, <1>b, <2>1, <2>2, <3>1, RunGoes DEF FindFile, RunLabel
  <2>3. CASE state[f] \notin {"uploaded", "scanning"}
    BY <1>1, <1>a, <1>b, <2>1, <2>3, RunGoes DEF FindFile, RunLabel
  <2> QED  BY <2>2, <2>3
<1>2. CASE ClaimRow(w)
  <2>1. Sized(f)
    BY <1>2, <1>b DEF ClaimRow, RunOK
  <2>2. CASE Exists(f)
    <3>1. SetState(f, "scanning") /\ RunGoto(w, "readHead")
      BY <1>2, <1>b, <2>2 DEF ClaimRow
    <3>2. OnlyForward /\ FilesOK' /\ UnbornKept
      BY <1>0, <1>2, <2>1, <2>2, <3>1, SetStateEffect DEF ClaimRow
    <3>3. Sized(f)'
      BY <1>2, <2>1 DEF ClaimRow, Sized, Assembled
    <3> QED  BY <1>a, <1>b, <3>1, <3>2, <3>3, RunGoes DEF RunLabel
  <2>3. CASE ~Exists(f)
    BY <1>2, <1>b, <1>c, <2>3 DEF ClaimRow, storeVars
  <2> QED  BY <2>2, <2>3
<1>3. CASE ReadHead(w)
  <2>1. OnlyForward /\ FilesOK' /\ UnbornKept /\ UNCHANGED storeVars
    BY <1>0, <1>3, NoEffect DEF ReadHead
  <2>2. Sized(f) /\ Sized(f)'
    BY <1>3, <1>b, <2>1 DEF ReadHead, RunOK, Sized, Assembled, storeVars
  <2>3. CASE ~Stored(f)
    BY <1>3, <1>b, <1>c, <2>3 DEF ReadHead
  <2>4. CASE Stored(f) /\ Spoofed(f)
    BY <1>3, <1>a, <1>b, <2>1, <2>4, RunGoes
    DEF ReadHead, Spoofed, RunLabel, storeVars
  <2>5. CASE Stored(f) /\ ~Spoofed(f)
    BY <1>3, <1>a, <1>b, <2>1, <2>2, <2>5, RunGoes
    DEF ReadHead, Spoofed, RunLabel, storeVars
  <2> QED  BY <2>3, <2>4, <2>5
<1>4. CASE ScanBody(w)
  <2>1. OnlyForward /\ FilesOK' /\ UnbornKept /\ UNCHANGED storeVars
    BY <1>0, <1>4, NoEffect DEF ScanBody
  <2>2. content[f] \in {"spoofed", "infected", "clean"} \ {"spoofed"}
    BY <1>4, <1>b DEF ScanBody, RunOK, Sized, Assembled, Content
  <2>3. CASE ~Stored(f)
    BY <1>4, <1>b, <1>c, <2>3 DEF ScanBody
  <2>4. CASE Stored(f) /\ Infected(f)
    BY <1>4, <1>a, <1>b, <2>1, <2>4, RunGoes
    DEF ScanBody, Infected, RunLabel, storeVars
  <2>5. CASE Stored(f) /\ ~Infected(f)
    BY <1>4, <1>a, <1>b, <2>1, <2>2, <2>5, RunGoes
    DEF ScanBody, Infected, RunLabel, storeVars
  <2> QED  BY <2>3, <2>4, <2>5
<1>5. CASE MarkReady(w)
  <2>1. content[f] = "clean" /\ Sized(f)
    BY <1>5, <1>b DEF MarkReady, RunOK, Sized, Assembled
  <2>2. CASE Exists(f)
    <3>1. SetState(f, "ready") /\ RunGoto(w, "finish")
      BY <1>5, <1>b, <2>2 DEF MarkReady
    <3>2. OnlyForward /\ FilesOK' /\ UnbornKept
      BY <1>0, <1>5, <2>1, <2>2, <3>1, SetStateEffect DEF MarkReady
    <3> QED  BY <1>a, <1>b, <3>1, <3>2, RunGoes DEF RunLabel
  <2>3. CASE ~Exists(f)
    BY <1>5, <1>b, <1>c, <2>3 DEF MarkReady, storeVars
  <2> QED  BY <2>2, <2>3
<1>6. CASE RejectObject(w)
  <2>1. content[f] \in {"spoofed", "infected"}
    BY <1>6, <1>b DEF RejectObject, RunOK
  <2>2. OnlyForward /\ FilesOK' /\ UnbornKept
    BY <1>0, <1>6, <1>b, DeleteObjectEffect DEF RejectObject
  <2>3. Emptied(f)'
    BY <1>6, <1>b, <2>1
    DEF RejectObject, DeleteObject, Emptied, Born, FileOK, Assembled
  <2> QED
    BY <1>6, <1>a, <1>b, <2>1, <2>2, <2>3, RunGoes DEF RejectObject, RunLabel
<1>7. CASE RejectRow(w)
  <2>1. content[f] # "clean" /\ Emptied(f)
    BY <1>7, <1>b DEF RejectRow, RunOK
  <2>2. CASE Exists(f)
    <3>1. SetTombstone(f, "rejected") /\ RunGoto(w, "finish")
      BY <1>7, <1>b, <2>2 DEF RejectRow
    <3>2. OnlyForward /\ FilesOK' /\ UnbornKept
      BY <1>0, <1>7, <2>1, <2>2, <3>1, SetTombstoneEffect DEF RejectRow
    <3> QED  BY <1>a, <1>b, <3>1, <3>2, RunGoes DEF RunLabel
  <2>3. CASE ~Exists(f)
    BY <1>7, <1>b, <1>c, <2>3 DEF RejectRow, storeVars
  <2> QED  BY <2>2, <2>3
<1>8. CASE CompleteRun(w)
  BY <1>8, <1>a, RunEnds DEF CompleteRun
<1> QED
  BY <1>1, <1>2, <1>3, <1>4, <1>5, <1>6, <1>7, <1>8 DEF RunStep

LEMMA ScanKeeps ==
  ASSUME TypeOK, IInv, ScanNext, UNCHANGED <<callVars, purgeVars, downloadVars>>
  PROVE  OnlyForward /\ IInv'
<1>0. StoreTypeOK /\ JobTypeOK /\ ScanTypeOK /\ FilesOK
  BY DEF TypeOK, IInv, FilesOK
<1>1. ASSUME NEW w \in Worker, NEW f \in File, RequeueRow(w, f)
      PROVE  OnlyForward /\ IInv'
  <2>1. Sized(f) /\ Exists(f)
    BY <1>1 DEF RequeueRow, IInv, SweepOK
  <2>2. OnlyForward /\ FilesOK' /\ UnbornKept
    BY <1>0, <1>1, <2>1, SetStateEffect DEF RequeueRow
  <2>3. /\ run' = run
        /\ \A v \in Worker \ {w} : sweep'[v] = sweep[v]
        /\ sweep'[w].todo = sweep[w].todo \ {f}
        /\ sweep'[w].marked = {f}
    BY <1>0, <1>1 DEF RequeueRow, ScanTypeOK, InSweep
  <2>4. SweepOK(w)'
    <3>1. \A g \in sweep[w].todo : g \in File /\ Sized(g)
      BY <1>0 DEF IInv, SweepOK, ScanTypeOK
    <3>2. Born(f)'
      BY <2>1, <2>2 DEF OnlyForward, Exists, FileState, Born
    <3>3. content' = content
      BY <1>1 DEF RequeueRow
    <3> QED  BY <2>3, <3>1, <3>2, <3>3 DEF SweepOK, Sized, Assembled, Born
  <2>5. RunOK(w)'
    BY <1>0, <2>2, <2>3, RunKept DEF IInv
  <2>6. JobsOfBorn
    BY <1>1, SameJobs DEF RequeueRow
  <2> QED  BY <2>2, <2>3, <2>4, <2>5, <2>6, WorkerMoves
<1>2. ASSUME NEW w \in Worker, NEW f \in File, RequeueJob(w, f)
      PROVE  OnlyForward /\ IInv'
  <2>1. Born(f)
    BY <1>2 DEF RequeueJob, IInv, SweepOK
  <2>2. OnlyForward /\ FilesOK' /\ UnbornKept
    BY <1>0, <1>2, NoEffect DEF RequeueJob
  <2>3. /\ run' = run
        /\ \A v \in Worker \ {w} : sweep'[v] = sweep[v]
        /\ sweep'[w].todo = sweep[w].todo
        /\ sweep'[w].marked = {}
    BY <1>0, <1>2 DEF RequeueJob, ScanTypeOK, InSweep
  <2>4. SweepOK(w)'
    BY <1>2, <2>3 DEF RequeueJob, IInv, SweepOK, Sized, Assembled, storeVars
  <2>5. RunOK(w)'
    BY <1>0, <2>2, <2>3, RunKept DEF IInv
  <2>6. JobsOfBorn
    BY <1>0, <1>2, <2>1, EnqueuedIsBorn DEF RequeueJob
  <2> QED  BY <2>2, <2>3, <2>4, <2>5, <2>6, WorkerMoves
<1>3. ASSUME NEW w \in Worker, RequeueStaleScans(w)
      PROVE  OnlyForward /\ IInv'
  <2>1. OnlyForward /\ FilesOK' /\ UnbornKept
    BY <1>0, <1>3, NoEffect DEF RequeueStaleScans
  <2>2. PICK stale \in SUBSET {f \in File : MayBeStale(f)} :
          sweep' = [sweep EXCEPT ![w] = InSweep(stale, {})]
    BY <1>3 DEF RequeueStaleScans
  <2>3. /\ run' = run
        /\ \A v \in Worker \ {w} : sweep'[v] = sweep[v]
        /\ sweep'[w].todo = stale
        /\ sweep'[w].marked = {}
    BY <1>0, <1>3, <2>2 DEF RequeueStaleScans, ScanTypeOK, InSweep
  <2>4. \A f \in stale : Sized(f)'
    BY <1>0, <1>3, <2>2
    DEF RequeueStaleScans, MayBeStale, FilesOK, FileOK, Sized, Assembled,
        storeVars
  <2>5. SweepOK(w)'
    BY <2>3, <2>4 DEF SweepOK
  <2>6. RunOK(w)'
    BY <1>0, <2>1, <2>3, RunKept DEF IInv
  <2>7. JobsOfBorn
    BY <1>3, SameJobs DEF RequeueStaleScans
  <2> QED  BY <2>1, <2>3, <2>5, <2>6, <2>7, WorkerMoves
<1>4. ASSUME NEW w \in Worker, NEW f \in File, TakeJob(w, f)
      PROVE  OnlyForward /\ IInv'
  <2>1. OnlyForward /\ FilesOK' /\ UnbornKept
    BY <1>0, <1>4, NoEffect DEF TakeJob
  <2>2. /\ sweep' = sweep
        /\ \A v \in Worker \ {w} : run'[v] = run[v]
        /\ run'[w] = InRun("find", f, TRUE)
    BY <1>0, <1>4 DEF TakeJob, ScanTypeOK
  <2>3. Born(f) /\ Born(f)'
    BY <1>4, <2>1 DEF TakeJob, IInv, JobOK, OnlyForward
  <2>4. RunOK(w)'
    BY <2>2, <2>3 DEF RunOK, InRun, Born
  <2>5. SweepOK(w)'
    BY <1>0, <2>1, <2>2, SweepKept DEF IInv
  <2>6. JobsOfBorn
    BY <1>0, <1>4 DEF TakeJob, ActivateJob, Job, JobTypeOK, JobsOfBorn
  <2> QED  BY <2>1, <2>2, <2>4, <2>5, <2>6, WorkerMoves
<1>5. ASSUME NEW w \in Worker, LoseLock(w)
      PROVE  OnlyForward /\ IInv'
  <2>1. OnlyForward /\ FilesOK' /\ UnbornKept
    BY <1>0, <1>5, NoEffect DEF LoseLock
  <2>2. /\ sweep' = sweep
        /\ \A v \in Worker \ {w} : run'[v] = run[v]
        /\ run'[w].pc = run[w].pc
        /\ run'[w].file = run[w].file
    BY <1>0, <1>5 DEF LoseLock, ScanTypeOK, InRun
  <2>3. UNCHANGED storeVars
    BY <1>5 DEF LoseLock
  <2>4. RunOK(w)'
    BY <2>2, <2>3 DEF IInv, RunOK, Born, Sized, Assembled, Emptied, storeVars
  <2>5. SweepOK(w)'
    BY <1>0, <2>1, <2>2, SweepKept DEF IInv
  <2>6. JobsOfBorn
    BY <1>5, SameJobs DEF LoseLock
  <2> QED  BY <2>1, <2>2, <2>4, <2>5, <2>6, WorkerMoves
<1>6. ASSUME NEW w \in Worker, AttemptThrows(w)
      PROVE  OnlyForward /\ IInv'
  <2>1. run[w].pc \in RunLabel
    BY <1>0, <1>6 DEF AttemptThrows, ScanTypeOK
  <2> QED  BY <1>6, <2>1, RunEnds DEF AttemptThrows, Throw
<1>7. ASSUME NEW f \in File, StalledCheck(f)
      PROVE  OnlyForward /\ IInv'
  <2>1. OnlyForward /\ FilesOK'
    BY <1>0, <1>7, NoEffect DEF StalledCheck
  <2>2. JobOK'
    BY <1>0, <1>7
    DEF StalledCheck, StallJob, Job, JobTypeOK, IInv, JobOK, Born, storeVars
  <2>3. /\ \A c \in Call : CallOK(c)'
        /\ OneCreator'
        /\ \A w \in Worker : RunOK(w)' /\ SweepOK(w)'
        /\ \A p \in Purger : PurgeOK(p)'
        /\ ShareOK'
    BY <1>7
    DEF StalledCheck, IInv, CallOK, OneCreator, RunOK, SweepOK, PurgeOK,
        ShareOK, Born, Sized, Assembled, Emptied, EmptiedUnlessHeadFails,
        DeletionOK, storeVars, callVars, scanVars, purgeVars, downloadVars
  <2> QED  BY <2>1, <2>2, <2>3 DEF IInv, FilesOK
<1> QED
  BY <1>1, <1>2, <1>3, <1>4, <1>5, <1>6, <1>7, RunStepKeeps
  DEF ScanNext, SweepStep

-----------------------------------------------------------------------------
(* The purge *)

LEMMA PurgeStepKeeps ==
  ASSUME TypeOK, IInv, NEW p \in Purger,
         PurgeStep(p) \/ ExpireReadyFiles(p) \/ PurgeThrows(p),
         UNCHANGED <<job, callVars, scanVars, downloadVars>>
  PROVE  OnlyForward /\ IInv'
<1>0. StoreTypeOK /\ PurgeTypeOK /\ FilesOK /\ PurgeOK(p)
  BY DEF TypeOK, IInv, FilesOK
<1>a. SUFFICES /\ OnlyForward /\ FilesOK' /\ UnbornKept
               /\ \A q \in Purger \ {p} : purge'[q] = purge[q]
               /\ PurgeOK(p)'
  BY PurgerMoves
<1>b. \A q \in Purger \ {p} : purge'[q] = purge[q]
  BY <1>0 DEF PurgeStep, ExpireReadyFiles, PurgeThrows, ExpireRow,
     PurgeGhostRows, ReapAbandonedUploads, ReapStep, SweepDone, ExpireObject,
     PurgeTombstone, Reap, StartPass, Enter, BackTo, PurgeTypeOK
<1>c. ASSUME purge'[p] = IdlePurge
      PROVE  PurgeOK(p)'
  BY <1>c DEF PurgeOK, IdlePurge, InPurge, DeletionOK, PurgeLabel,
              DeletionLabel
<1>1. CASE ExpireReadyFiles(p)
  <2>1. OnlyForward /\ FilesOK' /\ UnbornKept /\ UNCHANGED storeVars
    BY <1>0, <1>1, NoEffect DEF ExpireReadyFiles
  <2>2. purge'[p] = InPurge("expiring",
                      {f \in File : state[f] = "ready" /\ f \in overdue}, NoFile)
    BY <1>0, <1>1 DEF ExpireReadyFiles, StartPass, PurgeTypeOK
  <2>3. PurgeOK(p)'
    BY <1>0, <2>1, <2>2 DEF PurgeOK, InPurge, DeletionOK, PurgeLabel,
                       DeletionLabel, FilesOK, FileOK, Born, storeVars
  <2> QED  BY <1>b, <2>1, <2>3
<1>2. CASE PurgeThrows(p)
  <2>1. OnlyForward /\ FilesOK' /\ UnbornKept
    BY <1>0, <1>2, NoEffect DEF PurgeThrows
  <2>2. purge'[p] = IdlePurge
    BY <1>0, <1>2 DEF PurgeThrows, PurgeTypeOK
  <2> QED  BY <1>b, <1>c, <2>1, <2>2
<1>3. CASE SweepDone(p)
  <2>1. OnlyForward /\ FilesOK' /\ UnbornKept
    BY <1>0, <1>3, NoEffect DEF SweepDone
  <2>2. purge'[p] = IdlePurge
    BY <1>0, <1>3 DEF SweepDone, PurgeTypeOK
  <2> QED  BY <1>b, <1>c, <2>1, <2>2
<1>4. ASSUME NEW f \in File, ExpireObject(p, f)
      PROVE  OnlyForward /\ FilesOK' /\ UnbornKept /\ PurgeOK(p)'
  <2>1. content[f] = "clean" /\ Born(f) /\ f \notin multipart
    BY <1>0, <1>4 DEF ExpireObject, PurgeOK, FilesOK, FileOK, Assembled
  <2>2. OnlyForward /\ FilesOK' /\ UnbornKept
    BY <1>0, <1>4, DeleteObjectEffect DEF ExpireObject
  <2>3. purge'[p] = InPurge("expireRow", purge[p].todo \ {f}, f)
    BY <1>0, <1>4 DEF ExpireObject, Enter, PurgeTypeOK
  <2>4. PurgeOK(p)'
    BY <1>0, <1>4, <2>1, <2>3
    DEF ExpireObject, DeleteObject, PurgeOK, InPurge, DeletionOK, PurgeLabel,
        DeletionLabel, Born, Emptied
  <2> QED  BY <2>2, <2>4
<1>5. CASE ExpireRow(p)
  <2>1. PICK f \in File :
          f = purge[p].file /\ content[f] = "clean" /\ Emptied(f)
    BY <1>0, <1>5 DEF ExpireRow, PurgeTypeOK, PurgeOK, IdlePurge, InPurge,
                      PurgePass
  <2>2. OnlyForward /\ FilesOK' /\ UnbornKept
    <3>1. CASE state[f] = "ready"
      BY <1>0, <1>5, <2>1, <3>1, SetTombstoneEffect
      DEF ExpireRow, Exists, FileState
    <3>2. CASE state[f] # "ready"
      BY <1>0, <1>5, <2>1, <3>2, NoEffect DEF ExpireRow, storeVars
    <3> QED  BY <3>1, <3>2
  <2>3. purge'[p] = InPurge("expiring", purge[p].todo, NoFile)
    BY <1>0, <1>5 DEF ExpireRow, BackTo, PurgeTypeOK
  <2>4. \A g \in purge[p].todo : g \in File /\ Born(g) /\ content[g] = "clean"
    BY <1>0, <1>5 DEF ExpireRow, PurgeOK, PurgeTypeOK, IdlePurge, InPurge
  <2>5. \A g \in purge[p].todo : Born(g)' /\ content'[g] = "clean"
    BY <1>5, <2>2, <2>4 DEF ExpireRow, OnlyForward
  <2>6. PurgeOK(p)'
    BY <2>3, <2>5 DEF PurgeOK, InPurge, DeletionOK, PurgeLabel, DeletionLabel,
                      Born
  <2> QED  BY <1>b, <2>2, <2>6
<1>6. CASE PurgeGhostRows(p)
  <2>1. OnlyForward /\ FilesOK' /\ UnbornKept /\ UNCHANGED storeVars
    BY <1>0, <1>6, NoEffect DEF PurgeGhostRows
  <2>2. PICK old \in SUBSET {f \in File : state[f] \in {"expired", "rejected"}} :
          purge'[p] = InPurge("ghosts", old, NoFile)
    BY <1>0, <1>6 DEF PurgeGhostRows, StartPass, PurgeTypeOK
  <2>3. PurgeOK(p)'
    BY <1>0, <2>1, <2>2 DEF PurgeOK, InPurge, DeletionOK, PurgeLabel,
                  DeletionLabel, FilesOK, FileOK, Born, Emptied, storeVars
  <2> QED  BY <1>b, <2>1, <2>3
<1>7. ASSUME NEW f \in File, PurgeTombstone(p, f)
      PROVE  OnlyForward /\ FilesOK' /\ UnbornKept /\ PurgeOK(p)'
  <2>1. Born(f) /\ EmptiedUnlessHeadFails(f)
    BY <1>0, <1>7 DEF PurgeTombstone, PurgeOK, EmptiedUnlessHeadFails,
                      Emptied
  <2>2. OnlyForward /\ FilesOK' /\ UnbornKept
    BY <1>0, <1>7, <2>1, DeleteRowEffect DEF PurgeTombstone
  <2>3. purge'[p] = InPurge("ghosts", purge[p].todo \ {f}, purge[p].file)
    BY <1>0, <1>7 DEF PurgeTombstone, PurgeTypeOK
  <2>4. \A g \in purge[p].todo : g \in File /\ Born(g) /\ Emptied(g)
    BY <1>0, <1>7 DEF PurgeTombstone, PurgeOK, PurgeTypeOK, IdlePurge, InPurge
  <2>5. \A g \in purge[p].todo : Born(g)' /\ Emptied(g)'
    BY <2>2, <2>4 DEF OnlyForward
  <2>6. PurgeOK(p)'
    BY <2>3, <2>5 DEF PurgeOK, InPurge, DeletionOK, PurgeLabel, DeletionLabel,
                      Born, Emptied
  <2> QED  BY <2>2, <2>6
<1>8. CASE ReapAbandonedUploads(p)
  <2>1. OnlyForward /\ FilesOK' /\ UnbornKept /\ UNCHANGED storeVars
    BY <1>0, <1>8, NoEffect DEF ReapAbandonedUploads
  <2>2. PICK old \in SUBSET {f \in File : state[f] = "pending"} :
          purge'[p] = InPurge("reaping", old, NoFile)
    BY <1>0, <1>8 DEF ReapAbandonedUploads, StartPass, PurgeTypeOK
  <2>3. PurgeOK(p)'
    BY <2>1, <2>2 DEF PurgeOK, InPurge, DeletionOK, PurgeLabel,
                      DeletionLabel, Born, storeVars
  <2> QED  BY <1>b, <2>1, <2>3
<1>9. ASSUME NEW f \in File, Reap(p, f)
      PROVE  OnlyForward /\ FilesOK' /\ UnbornKept /\ PurgeOK(p)'
  <2>1. OnlyForward /\ FilesOK' /\ UnbornKept /\ UNCHANGED storeVars
    BY <1>0, <1>9, NoEffect DEF Reap
  <2>2. purge'[p] = InPurge("findUnique", purge[p].todo \ {f}, f)
    BY <1>0, <1>9 DEF Reap, Enter, PurgeTypeOK
  <2>3. Born(f) /\ \A g \in purge[p].todo : Born(g)
    BY <1>0, <1>9 DEF Reap, PurgeOK
  <2>4. PurgeOK(p)'
    BY <2>1, <2>2, <2>3 DEF PurgeOK, InPurge, DeletionOK, PurgeLabel,
                            DeletionLabel, Born, storeVars
  <2> QED  BY <2>1, <2>4
<1>10. CASE ReapStep(p)
  <2>1. PICK to \in DeletionLabel \cup {"done"} :
          /\ DeletionStep(purge[p].pc, to, purge[p].file)
          /\ IF to = "done" THEN BackTo(p, "reaping")
             ELSE purge' = [purge EXCEPT
                              ![p] = InPurge(to, @.todo, @.file)]
    BY <1>10 DEF ReapStep
  <2>2. purge[p].pc \in DeletionLabel
    BY <2>1 DEF DeletionStep, FindRow, AbortStep, OrphanHead,
                DeleteObjectStep, DeleteRowStep, DeletionLabel
  <2>3. PICK f \in File : f = purge[p].file
    BY <1>0, <2>2 DEF PurgeTypeOK, IdlePurge, InPurge, PurgePass, DeletionLabel
  <2>4. /\ Born(f)
        /\ DeletionOK(purge[p].pc, f)
        /\ \A g \in purge[p].todo : g \in File /\ Born(g)
    BY <1>0, <2>2, <2>3 DEF PurgeOK, PurgeLabel, PurgeTypeOK, IdlePurge, InPurge
  <2>5. OnlyForward /\ FilesOK' /\ UnbornKept /\ DeletionOK(to, f)'
    BY <1>0, <2>1, <2>3, <2>4, DeletionKeeps
  <2>6. Born(f)' /\ \A g \in purge[p].todo : Born(g)'
    BY <2>4, <2>5 DEF OnlyForward
  <2>7. CASE to = "done"
    <3>1. purge'[p] = InPurge("reaping", purge[p].todo, NoFile)
      BY <1>0, <2>1, <2>7 DEF BackTo, PurgeTypeOK
    <3>2. PurgeOK(p)'
      BY <2>6, <3>1 DEF PurgeOK, InPurge, DeletionOK, PurgeLabel,
                        DeletionLabel, Born
    <3> QED  BY <1>b, <2>5, <3>2
  <2>8. CASE to # "done"
    <3>1. /\ purge'[p].pc = to
          /\ purge'[p].todo = purge[p].todo
          /\ purge'[p].file = f
      BY <1>0, <2>1, <2>3, <2>8 DEF InPurge, PurgeTypeOK
    <3>2. DeletionOK(purge[p].pc, purge[p].file)'
      BY <2>5, <3>1 DEF DeletionOK, EmptiedUnlessHeadFails, Emptied, Born
    <3>3. to \in DeletionLabel
      BY <2>8
    <3>4. PurgeOK(p)'
      BY <2>6, <3>1, <3>2, <3>3 DEF PurgeOK, DeletionLabel, Born
    <3> QED  BY <1>b, <2>5, <3>4
  <2> QED  BY <2>7, <2>8
<1> QED
  BY <1>b, <1>1, <1>2, <1>3, <1>4, <1>5, <1>6, <1>7, <1>8, <1>9, <1>10
  DEF PurgeStep

-----------------------------------------------------------------------------
(* The recipients and the environment *)

LEMMA DownloadKeeps ==
  ASSUME TypeOK, IInv, DownloadNext,
         UNCHANGED <<job, callVars, scanVars, purgeVars>>
  PROVE  OnlyForward /\ IInv'
<1>1. UNCHANGED storeVars
  BY DEF DownloadNext, SignDownloadUrl, RefuseUrl, VerifyPasswordAndGetUrl
<1>2. OnlyForward /\ FilesOK'
  BY <1>1, NoEffect DEF IInv, FilesOK
<1>3. /\ \A c \in Call : CallOK(c)'
      /\ OneCreator'
      /\ \A w \in Worker : RunOK(w)' /\ SweepOK(w)'
      /\ \A p \in Purger : PurgeOK(p)'
      /\ JobOK'
  BY <1>1
  DEF IInv, CallOK, OneCreator, RunOK, SweepOK, PurgeOK, JobOK, Born, Sized,
      Assembled, Emptied, EmptiedUnlessHeadFails, DeletionOK, storeVars,
      callVars, scanVars, purgeVars
<1>4. ShareOK'
  <2>0. content' = content /\ told' = told
    BY <1>1 DEF storeVars, callVars
  <2>1. ASSUME NEW r \in Recipient, SignDownloadUrl(r)
        PROVE  ShareOK'
    BY <2>0, <2>1
    DEF SignDownloadUrl, IInv, ShareOK, TypeOK, DownloadTypeOK, IdleAsk, InAsk
  <2>2. ASSUME NEW r \in Recipient, RefuseUrl(r)
        PROVE  ShareOK'
    BY <2>0, <2>2
    DEF RefuseUrl, IInv, ShareOK, TypeOK, DownloadTypeOK, IdleAsk, InAsk
  <2>3. ASSUME NEW r \in Recipient, NEW f \in File,
               VerifyPasswordAndGetUrl(r, f)
        PROVE  ShareOK'
    <3>1. content[f] = "clean"
      BY <2>3 DEF VerifyPasswordAndGetUrl, Resolves, IInv, FileOK
    <3> QED
      BY <2>0, <2>3, <3>1
      DEF VerifyPasswordAndGetUrl, IInv, ShareOK, TypeOK, DownloadTypeOK, InAsk
  <2> QED  BY <2>1, <2>2, <2>3 DEF DownloadNext
<1> QED  BY <1>2, <1>3, <1>4 DEF IInv, FilesOK

LEMMA EnvironmentKeeps ==
  ASSUME TypeOK, IInv, NEW f \in File, Expire(f) \/ DropStaleMultipart(f)
  PROVE  OnlyForward /\ IInv'
<1>0. StoreTypeOK /\ FilesOK
  BY DEF TypeOK, IInv, FilesOK
<1>1. OnlyForward /\ FilesOK'
  <2>1. CASE Expire(f)
    BY <1>0, <2>1 DEF Expire, FilesOK, FileOK, OnlyForward, Born, Assembled,
      Sized, Emptied, EmptiedUnlessHeadFails, Exists
  <2>2. CASE DropStaleMultipart(f)
    BY <1>0, <2>2, AbortEffect DEF DropStaleMultipart
  <2> QED  BY <2>1, <2>2
<1>2. \A c \in Call : CreationKept(c)
  <2> SUFFICES ASSUME NEW c \in Call, call[c].pc = "create"
               PROVE  CreationKept(c)
    BY DEF CreationKept, Expire, DropStaleMultipart, callVars
  <2>1. /\ call[c].file \in File
        /\ ~Born(call[c].file)
        /\ call[c].file \in multipart
    BY CallFile DEF CallLabel, CallOK
  <2>2. DropStaleMultipart(f) => call[c].file # f
    <3>1. call[c] = InCall("create", call[c].file)
      BY DEF TypeOK, UploadTypeOK, IdleCall, InCall
    <3> QED  BY <3>1 DEF DropStaleMultipart, Creating
  <2> QED
    BY <2>1, <2>2 DEF CreationKept, Expire, DropStaleMultipart,
                      AbortMultipart, Born, callVars
<1>3. \A c \in Call : CallOK(c)'
  BY <1>1, <1>2, CallKept
  DEF CreationKept, IInv, TypeOK, Expire, DropStaleMultipart, callVars
<1>4. OneCreator'
  BY DEF IInv, OneCreator, Expire, DropStaleMultipart, callVars
<1>5. \A w \in Worker : RunOK(w)' /\ SweepOK(w)'
  BY <1>1, RunKept, SweepKept
  DEF IInv, TypeOK, Expire, DropStaleMultipart, scanVars
<1>6. \A p \in Purger : PurgeOK(p)'
  BY <1>1, PurgeKept
  DEF IInv, TypeOK, Expire, DropStaleMultipart, purgeVars
<1>7. ShareOK' /\ JobOK'
  BY <1>1, ShareKept, JobKept
  DEF IInv, TypeOK, Expire, DropStaleMultipart, callVars
<1> QED  BY <1>1, <1>3, <1>4, <1>5, <1>6, <1>7 DEF IInv, FilesOK

LEMMA ProcessDiesKeeps ==
  ASSUME TypeOK, IInv, NEW w \in Worker, ProcessDies(w)
  PROVE  OnlyForward /\ IInv'
<1>1. UNCHANGED storeVars /\ job' = job
  BY DEF ProcessDies, ScanDies
<1>2. OnlyForward /\ FilesOK' /\ UnbornKept
  BY <1>1, NoEffect DEF IInv, FilesOK
<1>3. \A v \in Worker : RunOK(v)' /\ SweepOK(v)'
  <2> SUFFICES ASSUME NEW v \in Worker  PROVE RunOK(v)' /\ SweepOK(v)'
    OBVIOUS
  <2>1. \/ run'[v] = run[v] /\ sweep'[v] = sweep[v]
        \/ run'[v] = IdleRun /\ sweep'[v] = IdleSweep
    BY DEF ProcessDies, ScanDies, TypeOK, ScanTypeOK
  <2>2. CASE run'[v] = run[v] /\ sweep'[v] = sweep[v]
    BY <1>2, <2>2, RunKept, SweepKept DEF TypeOK, IInv
  <2>3. CASE run'[v] = IdleRun /\ sweep'[v] = IdleSweep
    BY <2>3 DEF RunOK, SweepOK, IdleRun, InRun, IdleSweep, InSweep, RunLabel
  <2> QED  BY <2>1, <2>2, <2>3
<1>4. \A p \in Purger : PurgeOK(p)'
  <2> SUFFICES ASSUME NEW p \in Purger  PROVE PurgeOK(p)'
    OBVIOUS
  <2>1. purge'[p] = purge[p] \/ purge'[p] = IdlePurge
    BY DEF ProcessDies, PurgeDies, purgeVars, TypeOK, PurgeTypeOK
  <2>2. CASE purge'[p] = purge[p]
    BY <1>2, <2>2, PurgeKept DEF TypeOK, IInv
  <2>3. CASE purge'[p] = IdlePurge
    BY <2>3 DEF PurgeOK, IdlePurge, InPurge, DeletionOK, PurgeLabel,
                DeletionLabel
  <2> QED  BY <2>1, <2>2, <2>3
<1>5. (\A c \in Call : CallOK(c)') /\ OneCreator' /\ ShareOK' /\ JobOK'
  BY <1>1
  DEF ProcessDies, IInv, CallOK, OneCreator, ShareOK, JobOK, Born, Sized,
      Assembled, Emptied, EmptiedUnlessHeadFails, DeletionOK, storeVars,
      callVars, downloadVars
<1> QED  BY <1>2, <1>3, <1>4, <1>5 DEF IInv, FilesOK

-----------------------------------------------------------------------------
(* The theorems *)

LEMMA IInvInit == Init => IInv
BY DEF Init, StoreInit, QueueInit, UploadInit, ScanInit, PurgeInit,
       DownloadInit, IInv, FileOK, CallOK, OneCreator, RunOK, SweepOK, PurgeOK,
       ShareOK, JobOK, DeletionOK, Born, Assembled, Sized, Exists, FileState,
       IdleCall, InCall, IdleRun, InRun, IdleSweep, InSweep, IdlePurge,
       InPurge, IdleAsk, InAsk, NoJob, Job, CallLabel, RunLabel, PurgeLabel,
       DeletionLabel

LEMMA IInvNext ==
  ASSUME TypeOK, IInv, [Next]_vars
  PROVE  OnlyForward /\ IInv'
<1>1. CASE UNCHANGED vars
  <2>1. OnlyForward /\ FilesOK'
    BY <1>1, NoEffect DEF IInv, FilesOK, vars
  <2>2. IInv'
    BY <1>1
    DEF vars, IInv, FileOK, CallOK, OneCreator, RunOK, SweepOK, PurgeOK,
        ShareOK, JobOK, Born, Sized, Assembled, Emptied, Exists,
        EmptiedUnlessHeadFails, DeletionOK, storeVars, callVars, scanVars,
        purgeVars, downloadVars
  <2> QED  BY <2>1, <2>2
<1>2. ASSUME PurgeNext, UNCHANGED <<job, callVars, scanVars, downloadVars>>
      PROVE  OnlyForward /\ IInv'
  BY <1>2, PurgeStepKeeps DEF PurgeNext
<1>3. ASSUME NEW w \in Worker, KillWorker(w) \/ SweepThrows(w)
      PROVE  OnlyForward /\ IInv'
  BY <1>3, ProcessDiesKeeps DEF KillWorker, SweepThrows
<1> QED
  BY <1>1, <1>2, <1>3, UploadKeeps, ScanKeeps, DownloadKeeps, EnvironmentKeeps
  DEF Next

\* Every reachable state satisfies the inductive invariant.
THEOREM Inductive == Spec => []IInv
<1>1. TypeOK /\ IInv /\ [Next]_vars => IInv'
  BY IInvNext
<1> QED  BY IInvInit, TypeCorrect, <1>1, PTL DEF Spec

\* The stores only go forward: no late thread brings back bytes, a multipart
\* or a row, or changes the bytes assembled under a key.
THEOREM Forward == Spec => StoresOnlyGoForward
<1>1. TypeOK /\ IInv /\ [Next]_vars => [OnlyForward]_vars
  BY IInvNext
<1> QED  BY TypeCorrect, Inductive, <1>1, PTL DEF Spec, StoresOnlyGoForward

\* A ready file, a file whose token its owner has and a file a URL was signed
\* for passed the size check, the signature check and ClamAV.
THEOREM Barrier == Spec => []OnlyCleanIsShared
<1>1. IInv => OnlyCleanIsShared
  BY DEF IInv, FileOK, ShareOK, OnlyCleanIsShared
<1> QED  BY Inductive, <1>1, PTL

\* A file that was refused never had a link.
THEOREM NoLinkToRefused == Spec => []RefusedWasNeverShared
<1>1. IInv => RefusedWasNeverShared
  BY DEF IInv, FileOK, ShareOK, RefusedWasNeverShared
<1> QED  BY Inductive, <1>1, PTL

\* A tombstone has neither key, object nor multipart.
THEOREM EmptyTombstones == Spec => []TombstoneIsEmpty
<1>1. IInv => TombstoneIsEmpty
  BY DEF IInv, FileOK, Emptied, TombstoneIsEmpty
<1> QED  BY Inductive, <1>1, PTL

\* If headObject never fails for an object that is there, a deleted row leaves
\* nothing in the bucket, whoever deleted it and whatever raced with it.
THEOREM NoOrphans ==
  ASSUME HeadMayFail = FALSE
  PROVE  Spec => []NothingOutlivesTheRow
<1>1. IInv => NothingOutlivesTheRow
  BY DEF IInv, FileOK, EmptiedUnlessHeadFails, Emptied, NothingOutlivesTheRow
<1> QED  BY Inductive, <1>1, PTL

=============================================================================
