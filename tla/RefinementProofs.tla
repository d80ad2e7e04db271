--------------------------- MODULE RefinementProofs ---------------------------
(***************************************************************************)
(* Datashare implements Sharing.  A write of a row moves the fate of one   *)
(* file along the diagram or not at all; the bytes arrive when the upload  *)
(* is completed; a token or a URL is given out for a file that was open    *)
(* when its row was read.  Every other step is a stutter.                  *)
(***************************************************************************)
EXTENDS Refinement, StageProofs

\* The fate along each arrow of the diagram
LEMMA FateFollows ==
  ASSUME NEW s, NEW t \in MayBecome(s)
  PROVE  \/ FateIn(s) = "private" /\ t = "ready"
         \/ FateIn(s) \in {"private", "open"} /\ FateIn(t) = "closed"
         \/ FateIn(t) = FateIn(s)
<1>1. \/ s = "unborn" /\ t = "pending"
      \/ s = "pending" /\ t \in {"uploaded", "rejected", "deleted"}
      \/ s = "uploaded" /\ t \in {"scanning", "deleted"}
      \/ s = "scanning" /\ t \in {"ready", "rejected", "uploaded", "deleted"}
      \/ s = "ready" /\ t \in {"expired", "deleted"}
      \/ s \in {"expired", "rejected"} /\ t = "deleted"
  BY DEF MayBecome
<1> QED  BY <1>1 DEF FateIn

-----------------------------------------------------------------------------
(* What each kind of step shows *)

SharingStep == [Promise!SharingNext]_(Promise!sharingVars)

\* A row is written, or none.
LEMMA RowStep ==
  ASSUME TypeOK, RowsFollow, IInv', NEW f \in File, NEW s,
         state' = [state EXCEPT ![f] = s],
         UNCHANGED <<content, told, downloadVars>>
  PROVE  SharingStep
<1>1. state'[f] = s /\ \A g \in File \ {f} : state'[g] = state[g]
  BY DEF TypeOK, StoreTypeOK
<1>2. Bytes' = Bytes /\ Asked' = Asked /\ (told \cup links)' = told \cup links
  BY DEF Bytes, Asked, downloadVars
<1>3. CASE FateIn(s) = FateIn(state[f])
  <2>1. \A g \in File : FateIn(state'[g]) = FateIn(state[g])
    BY <1>1, <1>3
  <2>2. Fate' = Fate
    BY <2>1 DEF Fate
  <2> QED  BY <1>2, <2>2 DEF SharingStep, Promise!sharingVars
<1>4. CASE FateIn(s) # FateIn(state[f])
  <2>1. s \in MayBecome(state[f])
    BY <1>1, <1>4 DEF RowsFollow
  <2>2. Fate[f] = FateIn(state[f]) /\ Fate' = [Fate EXCEPT ![f] = FateIn(s)]
    <3>1. \A g \in File :
            FateIn(state'[g]) = IF g = f THEN FateIn(s) ELSE FateIn(state[g])
      BY <1>1
    <3> QED  BY <3>1 DEF Fate
  <2>3. CASE FateIn(state[f]) = "private" /\ s = "ready"
    <3>1. Bytes[f] = "sound"
      BY <1>1, <2>3 DEF IInv, FileOK, Bytes, BytesIn
    <3>2. Promise!Open(f)
      BY <1>2, <2>2, <2>3, <3>1 DEF Promise!Open, FateIn
    <3> QED  BY <3>2 DEF SharingStep, Promise!SharingNext
  <2>4. CASE FateIn(state[f]) \in {"private", "open"} /\ FateIn(s) = "closed"
    <3>1. Promise!Close(f)
      BY <1>2, <2>2, <2>4 DEF Promise!Close
    <3> QED  BY <3>1 DEF SharingStep, Promise!SharingNext
  <2> QED  BY <1>4, <2>1, <2>3, <2>4, FateFollows
<1> QED  BY <1>3, <1>4

\* Nothing a user can see happens.
LEMMA Invisible ==
  ASSUME UNCHANGED <<state, content, told, downloadVars>>
  PROVE  SharingStep
BY DEF SharingStep, Promise!sharingVars, Fate, Bytes, Asked, downloadVars

\* The bytes of f arrive.
LEMMA ReceiveStep ==
  ASSUME TypeOK, NEW f \in File, state[f] \in {"unborn", "pending"},
         ~Assembled(f), NEW b \in Content, content' = [content EXCEPT ![f] = b],
         UNCHANGED <<state, told, downloadVars>>
  PROVE  SharingStep
<1>1. Fate' = Fate /\ Asked' = Asked /\ (told \cup links)' = told \cup links
  BY DEF Fate, Asked, downloadVars
<1>2. Bytes' = [Bytes EXCEPT ![f] = BytesIn(b)]
  <2>1. \A g \in File :
          content'[g] = IF g = f THEN b ELSE content[g]
    BY DEF TypeOK, StoreTypeOK
  <2>2. \A g \in File :
          BytesIn(content'[g]) = IF g = f THEN BytesIn(b) ELSE BytesIn(content[g])
    BY <2>1
  <2> QED  BY <2>2 DEF Bytes
<1>3. BytesIn(b) \in {"sound", "unfit"}
  BY DEF BytesIn, Content
<1>4. Bytes[f] = "none" /\ Fate[f] = "private"
  BY DEF Bytes, BytesIn, Fate, FateIn, Assembled
<1>5. Promise!Receive(f)
  BY <1>1, <1>2, <1>3, <1>4 DEF Promise!Receive
<1> QED  BY <1>5 DEF SharingStep, Promise!SharingNext

\* The owner is told the token of f.
LEMMA TellStep ==
  ASSUME NEW f \in File, GetUploadStatus(f), UNCHANGED downloadVars
  PROVE  SharingStep
<1>1. Fate' = Fate /\ Bytes' = Bytes /\ Asked' = Asked /\ Fate[f] = "open"
  BY DEF GetUploadStatus, Fate, FateIn, Bytes, Asked, storeVars, downloadVars
<1>2. (told \cup links)' = (told \cup links) \cup {f}
  BY DEF GetUploadStatus, downloadVars
<1>3. Promise!TellOwner(f)
  BY <1>1, <1>2 DEF Promise!TellOwner
<1> QED  BY <1>3 DEF SharingStep, Promise!SharingNext

\* A recipient asks for a URL, and is answered.
LEMMA DownloadStep ==
  ASSUME TypeOK, DownloadNext, UNCHANGED callVars
  PROVE  SharingStep
<1>1. Fate' = Fate /\ Bytes' = Bytes /\ told' = told
  BY DEF DownloadNext, SignDownloadUrl, RefuseUrl, VerifyPasswordAndGetUrl,
         Fate, Bytes, storeVars, callVars
<1>2. ASSUME NEW r \in Recipient, NEW f \in File, VerifyPasswordAndGetUrl(r, f)
      PROVE  SharingStep
  <2>1. /\ Asked[r] = NoFile
        /\ Fate[f] = "open"
        /\ links' = links
    BY <1>2 DEF VerifyPasswordAndGetUrl, Resolves, Asked, Fate, FateIn,
                IdleAsk, InAsk
  <2>2. \A q \in Recipient : ask'[q].file = IF q = r THEN f ELSE ask[q].file
    BY <1>2 DEF VerifyPasswordAndGetUrl, InAsk, TypeOK, DownloadTypeOK
  <2>3. Asked' = [Asked EXCEPT ![r] = f]
    BY <2>2 DEF Asked
  <2>4. Promise!Ask(r, f)
    BY <1>1, <2>1, <2>3 DEF Promise!Ask
  <2> QED  BY <2>4 DEF SharingStep, Promise!SharingNext
<1>3. ASSUME NEW r \in Recipient, SignDownloadUrl(r) \/ RefuseUrl(r)
      PROVE  SharingStep
  <2>1. ask[r].file \in File
    BY <1>3 DEF SignDownloadUrl, RefuseUrl, TypeOK, DownloadTypeOK, IdleAsk,
                InAsk
  <2>2. Asked[r] = ask[r].file /\ Asked[r] # NoFile
    BY <2>1, NoFileAssumption DEF Asked
  <2>3. \A q \in Recipient : ask'[q].file = IF q = r THEN NoFile ELSE ask[q].file
    BY <1>3 DEF SignDownloadUrl, RefuseUrl, IdleAsk, InAsk, TypeOK,
                DownloadTypeOK
  <2>4. Asked' = [Asked EXCEPT ![r] = NoFile]
    BY <2>3 DEF Asked
  <2>5. \E given \in SUBSET {Asked[r]} :
          (told \cup links)' = (told \cup links) \cup given
    <3>1. CASE SignDownloadUrl(r)
      BY <1>1, <2>2, <3>1 DEF SignDownloadUrl
    <3>2. CASE RefuseUrl(r)
      <4>1. (told \cup links)' = (told \cup links) \cup {}
        BY <1>1, <3>2 DEF RefuseUrl
      <4> QED  BY <4>1
    <3> QED  BY <1>3, <3>1, <3>2
  <2>6. Promise!Answer(r)
    BY <1>1, <2>2, <2>4, <2>5 DEF Promise!Answer
  <2> QED  BY <2>6 DEF SharingStep, Promise!SharingNext
<1> QED  BY <1>2, <1>3 DEF DownloadNext

\* A deletion, whoever runs it
LEMMA DeletionShares ==
  ASSUME TypeOK, RowsFollow, IInv', NEW f \in File, NEW at, NEW to,
         DeletionStep(at, to, f), UNCHANGED <<told, downloadVars>>
  PROVE  SharingStep
<1>1. content' = content
  BY DEF DeletionStep, FindRow, AbortStep, OrphanHead, DeleteObjectStep,
         DeleteRowStep, storeVars
<1>2. \/ UNCHANGED state
      \/ \E s \in {"deleted"} : state' = [state EXCEPT ![f] = s]
  BY DEF DeletionStep, FindRow, AbortStep, OrphanHead, DeleteObjectStep,
         DeleteRowStep, DeleteRow, storeVars
<1> QED  BY <1>1, <1>2, RowStep, Invisible

-----------------------------------------------------------------------------
(* The steps, component by component *)

LEMMA UploadShares ==
  ASSUME Known, StageOK, IInv', RowsFollow, UploadNext,
         UNCHANGED <<scanVars, purgeVars, downloadVars>>
  PROVE  SharingStep
<1>0. TypeOK
  BY DEF Known
<1>a. ASSUME NEW c \in Call, call[c].pc \in CallLabel
      PROVE  call[c].file \in File
  BY <1>0, <1>a, AtBusy DEF TypeOK
<1>1. ASSUME NEW c \in Call, CreateRow(c)
      PROVE  SharingStep
  <2>1. call[c].file \in File
    BY <1>1, <1>a DEF CreateRow, At, CallLabel
  <2> QED
    BY <1>0, <1>1, <2>1, RowStep DEF CreateRow, InsertRow, Goto
<1>2. ASSUME NEW c \in Call, CompleteMultipart(c)
      PROVE  SharingStep
  <2>1. PICK f \in File : f = call[c].file
    BY <1>2, <1>a DEF CompleteMultipart, At, CallLabel
  <2>2. UNCHANGED <<state, told>>
    BY <1>2 DEF CompleteMultipart, Goto
  <2>3. CASE f \in multipart
    <3>1. ~Assembled(f) /\ state[f] \in {"unborn", "pending"}
      BY <2>3, OpenMultipart DEF Born
    <3>2. PICK b \in Content : content' = [content EXCEPT ![f] = b]
      BY <1>2, <2>1, <2>3 DEF CompleteMultipart, AssembleObject
    <3> QED  BY <1>0, <2>2, <3>1, <3>2, ReceiveStep
  <2>4. CASE f \notin multipart
    BY <1>2, <2>1, <2>2, <2>4, Invisible DEF CompleteMultipart
  <2> QED  BY <2>3, <2>4
<1>3. ASSUME NEW c \in Call, MarkRejected(c) \/ MarkUploaded(c)
      PROVE  SharingStep
  <2>1. PICK f \in File : f = call[c].file
    BY <1>3, <1>a DEF MarkRejected, MarkUploaded, At, CallLabel
  <2>2. UNCHANGED <<content, told>>
    BY <1>3 DEF MarkRejected, MarkUploaded, Goto
  <2>3. \/ UNCHANGED state
        \/ \E s \in {"rejected", "uploaded"} : state' = [state EXCEPT ![f] = s]
    BY <1>3, <2>1 DEF MarkRejected, MarkUploaded, SetTombstone, SetState
  <2> QED  BY <1>0, <2>2, <2>3, RowStep, Invisible
<1>4. ASSUME NEW c \in Call, DeleteOwnedStep(c)
      PROVE  SharingStep
  <2>1. PICK to \in DeletionLabel \cup {"done"} :
          DeletionStep(call[c].pc, to, call[c].file) /\ Goto(c, to)
    BY <1>4 DEF DeleteOwnedStep
  <2>2. PICK f \in File : f = call[c].file
    BY <2>1, <1>a DEF DeletionStep, FindRow, AbortStep, OrphanHead,
                DeleteObjectStep, DeleteRowStep, CallLabel, DeletionLabel
  <2> QED
    BY <1>0, <2>1, <2>2, DeletionShares DEF Goto
<1>5. ASSUME NEW f \in File, GetUploadStatus(f) \/ ListFiles(f)
      PROVE  SharingStep
  BY <1>5, TellStep DEF ListFiles
<1>6. ASSUME NEW c \in Call,
             \/ CheckSize(c) \/ DiscardMissized(c) \/ Enqueue(c) \/ AbortOwn(c)
             \/ CutCall(c)
             \/ \E f \in File :
                  \/ InitiateUpload(c, f)
                  \/ CompleteUpload(c, f)
                  \/ AbortUpload(c, f)
                  \/ DeleteOwnedFile(c, f)
      PROVE  SharingStep
  <2>1. UNCHANGED <<state, content, told>>
    BY <1>6 DEF CheckSize, DiscardMissized, Enqueue, AbortOwn, CutCall,
                InitiateUpload, CompleteUpload, AbortUpload, DeleteOwnedFile,
                Goto, Begin, storeVars
  <2> QED  BY <2>1, Invisible
<1> QED
  BY <1>1, <1>2, <1>3, <1>4, <1>5, <1>6 DEF UploadNext, CallStep

LEMMA ScanShares ==
  ASSUME Known, IInv', RowsFollow, ScanNext,
         UNCHANGED <<callVars, purgeVars, downloadVars>>
  PROVE  SharingStep
<1>0. TypeOK /\ told' = told
  BY DEF Known, callVars
<1>1. ASSUME NEW w \in Worker, ClaimRow(w) \/ MarkReady(w) \/ RejectRow(w)
      PROVE  SharingStep
  <2>1. PICK f \in File : f = run[w].file
    BY <1>0, <1>1, RunBusy
    DEF ClaimRow, MarkReady, RejectRow, RunAt, RunLabel, TypeOK
  <2>2. content' = content
    BY <1>1 DEF ClaimRow, MarkReady, RejectRow
  <2>3. \/ UNCHANGED state
        \/ \E s \in {"scanning", "ready", "rejected"} :
             state' = [state EXCEPT ![f] = s]
    BY <1>1, <2>1 DEF ClaimRow, MarkReady, RejectRow, SetTombstone, SetState
  <2> QED  BY <1>0, <2>2, <2>3, RowStep, Invisible
<1>2. ASSUME NEW w \in Worker, NEW f \in File, RequeueRow(w, f)
      PROVE  SharingStep
  <2>1. \E s \in {"uploaded"} : state' = [state EXCEPT ![f] = s]
    BY <1>2 DEF RequeueRow, SetState
  <2> QED  BY <1>0, <1>2, <2>1, RowStep DEF RequeueRow
<1>3. \/ \E w \in Worker : ClaimRow(w) \/ MarkReady(w) \/ RejectRow(w)
      \/ \E w \in Worker, f \in File : RequeueRow(w, f)
      \/ UNCHANGED <<state, content>>
  BY DEF ScanNext, RunStep, SweepStep, FindFile, ReadHead, ScanBody,
         RejectObject, CompleteRun, RequeueJob, LoseLock, AttemptThrows,
         RequeueStaleScans, TakeJob, StalledCheck, storeVars
<1> QED  BY <1>0, <1>1, <1>2, <1>3, Invisible

LEMMA PurgeShares ==
  ASSUME Known, IInv', RowsFollow, PurgeNext,
         UNCHANGED <<job, callVars, scanVars, downloadVars>>
  PROVE  SharingStep
<1>0. TypeOK /\ told' = told
  BY DEF Known, callVars
<1>1. PICK p \in Purger : PurgeStep(p) \/ ExpireReadyFiles(p) \/ PurgeThrows(p)
  BY DEF PurgeNext
<1>2. CASE ExpireRow(p)
  <2>1. PICK f \in File : f = purge[p].file
    BY <1>0, <1>2 DEF ExpireRow, TypeOK, PurgeTypeOK, IdlePurge, InPurge,
                      PurgePass
  <2>2. \/ UNCHANGED state
        \/ \E s \in {"expired"} : state' = [state EXCEPT ![f] = s]
    BY <1>2, <2>1 DEF ExpireRow, SetTombstone
  <2> QED  BY <1>0, <1>2, <2>2, RowStep, Invisible DEF ExpireRow
<1>3. ASSUME NEW f \in File, PurgeTombstone(p, f)
      PROVE  SharingStep
  <2>1. \/ UNCHANGED state
        \/ \E s \in {"deleted"} : state' = [state EXCEPT ![f] = s]
    BY <1>3 DEF PurgeTombstone, DeleteRow
  <2> QED  BY <1>0, <1>3, <2>1, RowStep, Invisible DEF PurgeTombstone
<1>4. CASE ReapStep(p)
  <2>1. PICK to \in DeletionLabel \cup {"done"} :
          DeletionStep(purge[p].pc, to, purge[p].file)
    BY <1>4 DEF ReapStep
  <2>2. purge[p].pc \in DeletionLabel
    BY <2>1 DEF DeletionStep, FindRow, AbortStep, OrphanHead,
                DeleteObjectStep, DeleteRowStep, DeletionLabel
  <2>3. PICK f \in File : f = purge[p].file
    BY <1>0, <2>2 DEF TypeOK, PurgeTypeOK, IdlePurge, InPurge, PurgePass,
                      DeletionLabel
  <2> QED  BY <1>0, <2>1, <2>3, DeletionShares
<1>5. \/ ExpireRow(p)
      \/ ReapStep(p)
      \/ \E f \in File : PurgeTombstone(p, f)
      \/ UNCHANGED <<state, content>>
  BY <1>1 DEF PurgeStep, PurgeGhostRows, ReapAbandonedUploads, SweepDone,
              ExpireObject, Reap, ExpireReadyFiles, PurgeThrows, storeVars
<1> QED  BY <1>0, <1>2, <1>3, <1>4, <1>5, Invisible

LEMMA SharesNext ==
  ASSUME LocksMayLapse = FALSE, SweepOn = FALSE, Known, StageOK, [Next]_vars
  PROVE  SharingStep
<1>1. RowsFollow /\ IInv' /\ TypeOK
  BY StageNext, IInvNext DEF Known
<1>2. CASE UNCHANGED vars
  BY <1>2, Invisible DEF vars, storeVars, callVars
<1>3. ASSUME NEW f \in File, Expire(f) \/ DropStaleMultipart(f)
      PROVE  SharingStep
  BY <1>3, Invisible DEF Expire, DropStaleMultipart, callVars
<1>4. ASSUME NEW w \in Worker, KillWorker(w) \/ SweepThrows(w)
      PROVE  SharingStep
  BY <1>4, Invisible
  DEF KillWorker, SweepThrows, ProcessDies, ScanDies, storeVars, callVars
<1>5. CASE DownloadNext /\ UNCHANGED <<job, callVars, scanVars, purgeVars>>
  BY <1>1, <1>5, DownloadStep
<1> QED
  BY <1>1, <1>2, <1>3, <1>4, <1>5, UploadShares, ScanShares, PurgeShares
  DEF Next

-----------------------------------------------------------------------------

LEMMA SharesInit == Init => Promise!SharingInit
BY DEF Init, StoreInit, UploadInit, DownloadInit, Promise!SharingInit, Fate,
       FateIn, Bytes, BytesIn, Asked, IdleAsk, InAsk

\* The whole back end keeps the promise of Sharing: the bytes of an upload are
\* fixed when they arrive, it opens once and only if they are sound, it closes
\* for good, and its token and URLs come from a file that was open.
THEOREM PromiseKept ==
  ASSUME LocksMayLapse = FALSE, SweepOn = FALSE
  PROVE  Spec => KeepsThePromise
<1>1. Known /\ StageOK /\ [Next]_vars =>
        [Promise!SharingNext]_(Promise!sharingVars)
  BY SharesNext DEF SharingStep
<1> QED
  BY SharesInit, Stages, TypeCorrect, Inductive, Locks, <1>1, PTL
  DEF Spec, Known, KeepsThePromise, Promise!SharingSpec

=============================================================================
