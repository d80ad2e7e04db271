------------------------------- MODULE Uploader -------------------------------
(***************************************************************************)
(* One sender's browser: the uploads it starts, resumes, cancels and       *)
(* abandons (Uploader.tsx, MonEspace.tsx, App.tsx) and the records of      *)
(* interrupted uploads it keeps in IndexedDB (resumeStore.ts).             *)
(*                                                                         *)
(* A tab is one instance of App, which shows Mon espace or a page: one     *)
(* mounting of the Uploader.  A page that is left loses its state, but the *)
(* async functions it started go on, and call the App they were given.     *)
(* A session is one call of startFreshUpload or of handleResumeFile; its   *)
(* label names the await it is at, or how far the server is with a         *)
(* complete.  The API and the bucket are seen through their answers: every *)
(* other request is served at one point, as what races inside the server   *)
(* is the subject of Datashare.                                            *)
(***************************************************************************)
EXTENDS Integers, FiniteSets

CONSTANTS
  Tab,             \* browser tabs
  Page, NoPage,    \* mountings of the Uploader: a page left is used again
  TabOf,           \* TabOf[p]: the tab whose App mounts page p
  Session,         \* calls of startFreshUpload and handleResumeFile in flight
  Id, NoId,        \* file ids the server draws
  Candidate,       \* files of the same name, size and date on the user's disk
  NoFile,
  Parts,           \* how many parts a file has
  Common,          \* the parts on which all candidates have the same bytes
  PartAttempts,    \* MAX_PART_ATTEMPTS
  MaxFaults        \* bound: requests that fail though they could be served

Part == 1..Parts

ASSUME UploaderAssumption ==
  /\ TabOf \in [Page -> Tab]
  /\ NoId \notin Id
  /\ NoFile \notin Candidate
  /\ "common" \notin Candidate
  /\ Parts \in Nat \ {0}
  /\ Common \subseteq Part
  /\ PartAttempts \in Nat \ {0}
  /\ MaxFaults \in Nat

VARIABLES
  page,      \* page[p]: status and the refs of the component
  tab,       \* tab[t]: resumeTarget of App, what Mon espace lists and deletes
  session,   \* session[s]: one upload or resume in flight
  cancel,    \* cancel[p]: the DELETE that a click on "Annuler" started
  records,   \* the ids in IndexedDB
  gaveUp,    \* history: the uploads the user cancelled
  row,       \* row[i]: the state of the file on the server
  multipart, \* the uploads whose multipart is open in the bucket
  stored,    \* stored[i][k]: ETag of part k, of the multipart or the object
  faults

vars == <<page, tab, session, cancel, records, gaveUp, row, multipart, stored,
          faults>>

serverVars == <<row, multipart, stored>>

View == {"idle", "configuring", "verifying", "uploading", "scanning", "done",
         "cancelled", "error", "left"}

\* "sent" and "unheard" are "complete" and "assembled" when nobody waits for the
\* answer any more.
SessionLabel == {"initiate", "save", "parts", "put", "landed", "backoff",
                 "complete", "sent", "assembled", "unheard", "completed",
                 "forget", "poll", "drop"}

ETag == Candidate \cup {"common"}

\* The MD5 of part k of x, which is also its ETag.
Digest(x, k) == IF k \in Common THEN "common" ELSE x

NoParts == [k \in Part |-> NoFile]

IdleSession == [at |-> "none", page |-> NoPage, resume |-> FALSE,
                id |-> NoId, file |-> NoFile,
                list |-> NoParts, tries |-> 0]

InSession == [at : SessionLabel, page : Page, resume : BOOLEAN,
              id : Id \cup {NoId}, file : Candidate,
              list : [Part -> ETag \cup {NoFile}], tries : 0..PartAttempts - 1]

\* What is left of a page once its component is gone: the flag of its closures
LeftPage(stop) == [view |-> "left", id |-> NoId, file |-> NoFile,
                   stop |-> stop, handled |-> FALSE, xhr |-> {}]

PageRecord == [view : View, id : Id \cup {NoId}, file : Candidate \cup {NoFile},
               stop : BOOLEAN, handled : BOOLEAN, xhr : SUBSET Session]

NoRequest == [at |-> "none", id |-> NoId]
Request == [at : {"none", "delete", "forget"}, id : Id \cup {NoId}]

NewTab == [target |-> NoId, listed |-> {}, abandon |-> NoRequest]
TabRecord == [target : Id \cup {NoId}, listed : SUBSET Id, abandon : Request]

ClientTypeOK ==
  /\ page \in [Page -> PageRecord]
  /\ tab \in [Tab -> TabRecord]
  /\ session \in [Session -> InSession \cup {IdleSession}]
  /\ cancel \in [Page -> Request]
  /\ records \subseteq Id
  /\ gaveUp \subseteq Id
  /\ row \in [Id -> {"unborn", "pending", "uploaded", "ready", "rejected",
                     "gone"}]
  /\ multipart \subseteq Id
  /\ stored \in [Id -> [Part -> ETag \cup {NoFile}]]
  /\ faults \in 0..MaxFaults

Init ==
  /\ page = [p \in Page |-> LeftPage(FALSE)]
  /\ tab = [t \in Tab |-> NewTab]
  /\ session = [s \in Session |-> IdleSession]
  /\ cancel = [p \in Page |-> NoRequest]
  /\ records = {} /\ gaveUp = {}
  /\ row = [i \in Id |-> "unborn"]
  /\ multipart = {}
  /\ stored = [i \in Id |-> NoParts]
  /\ faults = 0

-----------------------------------------------------------------------------
(* What the handlers share. *)

Fault == faults < MaxFaults /\ faults' = faults + 1

\* setStatus on page record pg: nothing once the component is gone.
Showing(pg, view, i) ==
  IF pg.view = "left" THEN pg
  ELSE [pg EXCEPT !.view = view, !.id = i, !.file = NoFile]

Stopped(s) == page[session[s].page].stop

Returns(s) == session' = [session EXCEPT ![s] = IdleSession]

Goes(s, label) == session' = [session EXCEPT ![s].at = label]

\* onResumeConsumed, which the closures of page p were given by App: it clears
\* the target of the tab, whichever page the tab shows by now.
ConsumesTarget(p) == tab' = [tab EXCEPT ![TabOf[p]].target = NoId]

\* handleLogout: the tab shows the login form, then a new Uploader.
SignsOut(t) ==
  /\ page' = [p \in Page |->
       IF TabOf[p] = t THEN LeftPage(page[p].stop) ELSE page[p]]
  /\ tab' = [tab EXCEPT ![t].target = NoId, ![t].listed = {}]

\* setStatus in a catch: not when the user cancelled
Caught(pg) == IF pg.stop THEN pg ELSE Showing(pg, "error", NoId)

\* Mutant: a resume drops its record whatever the error.
ThrowsDropping(s) ==
  \/ session[s].resume /\ Goes(s, "drop") /\ UNCHANGED page
  \/ /\ ~session[s].resume /\ Returns(s)
     /\ page' = [page EXCEPT ![session[s].page] = Caught(@)]

\* The catch of both functions, for an error that is none of the below
Throws(s) ==
  /\ Returns(s)
  /\ page' = [page EXCEPT ![session[s].page] = Caught(@)]

\* 404, 409 and 410: a resume also drops its record.
ThrowsGone(s) ==
  \/ /\ session[s].resume
     /\ Goes(s, "drop")
     /\ UNCHANGED page
  \/ ~session[s].resume /\ Throws(s)

\* The server goes on with the complete of session k when its client does not.
Unheard(k) ==
  CASE k.at \in {"complete", "sent"}     -> [k EXCEPT !.at = "sent"]
    [] k.at \in {"assembled", "unheard"} -> [k EXCEPT !.at = "unheard"]
    [] OTHER                             -> IdleSession

\* The parts still to be sent, first to last
Missing(list) == {k \in Part : list[k] = NoFile}
NextPart(list) == CHOOSE k \in Missing(list) : \A j \in Missing(list) : k <= j

\* The loop over the parts, from its test of cancelRequestedRef to the next
\* await, for the session record sess of s on page record pg.
Loop(s, sess, pg) ==
  LET sending == Missing(sess.list) # {} IN
  \/ /\ pg.stop
     /\ session' = [session EXCEPT ![s] = IdleSession]
     /\ page' = [page EXCEPT ![sess.page] = pg]
  \/ /\ ~pg.stop
     /\ session' = [session EXCEPT ![s] =
          [sess EXCEPT !.at = IF sending THEN "put" ELSE "complete"]]
     /\ page' = [page EXCEPT ![sess.page] =
          IF sending /\ pg.view # "left" THEN [pg EXCEPT !.xhr = {s}] ELSE pg]

-----------------------------------------------------------------------------
(* The user, in a tab. *)

\* Mon espace or the login form is shown instead of a page.
NoPageShown(t) == \A p \in Page : TabOf[p] = t => page[p].view = "left"

\* The Uploader is mounted: with the record i that "Reprendre" was clicked on
\* in Mon espace, or with what App still holds of an earlier click, which may
\* have been abandoned, resumed or completed since.  Bound: a page is used
\* again when nothing it started is in flight.
Open(p, i) ==
  LET t == TabOf[p] IN
  /\ NoPageShown(t)
  /\ \A s \in Session : session[s].page # p
  /\ cancel[p] = NoRequest
  /\ i \in {tab[t].target} \cup tab[t].listed
  /\ page' = [page EXCEPT ![p] = [LeftPage(FALSE) EXCEPT !.view = "idle"]]
  /\ tab' = [tab EXCEPT ![t].target = i, ![t].listed = {}]
  /\ UNCHANGED <<session, cancel, records, gaveUp, serverVars, faults>>

\* onNavigateHistory: App keeps its resumeTarget.
Leave(p) ==
  /\ page[p].view # "left"
  /\ page' = [page EXCEPT ![p] = LeftPage(@.stop)]
  /\ UNCHANGED <<tab, session, cancel, records, gaveUp, serverVars, faults>>

\* "Déconnexion", or a 401 to the list of Mon espace, however late
SignOut(t) ==
  /\ SignsOut(t)
  /\ UNCHANGED <<session, cancel, records, gaveUp, serverVars, faults>>

\* A reload or a closed tab ends all that the tab had started; a complete that
\* was sent is served all the same.
Reload(t) ==
  /\ page' = [p \in Page |-> IF TabOf[p] = t THEN LeftPage(FALSE) ELSE page[p]]
  /\ tab' = [tab EXCEPT ![t] = NewTab]
  /\ session' = [s \in Session |->
       IF session[s].at # "none" /\ TabOf[session[s].page] = t
       THEN Unheard(session[s]) ELSE session[s]]
  /\ cancel' = [p \in Page |-> IF TabOf[p] = t THEN NoRequest ELSE cancel[p]]
  /\ UNCHANGED <<records, gaveUp, serverVars, faults>>

-----------------------------------------------------------------------------
(* The user, on a page. *)

Choosing(p) == page[p].view \in {"idle", "configuring", "cancelled", "error"}

Target(p) == tab[TabOf[p]].target

\* handleFile without a resume target
ChooseFile(p, x) ==
  /\ Choosing(p) /\ Target(p) = NoId
  /\ page' = [page EXCEPT ![p].view = "configuring", ![p].id = NoId, ![p].file = x]
  /\ UNCHANGED <<tab, session, cancel, records, gaveUp, serverVars, faults>>

\* handleFile or handleResumeFile refuses the file at once: too large, or of
\* another name, size or date than the record.
ChooseWrongFile(p) ==
  /\ Choosing(p)
  /\ page' = [page EXCEPT ![p] = Showing(@, "error", NoId)]
  /\ UNCHANGED <<tab, session, cancel, records, gaveUp, serverVars, faults>>

\* "Annuler la reprise"
DropTarget(p) ==
  /\ page[p].view = "idle" /\ Target(p) # NoId
  /\ ConsumesTarget(p)
  /\ UNCHANGED <<page, session, cancel, records, gaveUp, serverVars, faults>>

\* startFreshUpload and handleResumeFile both begin by resetting the refs.
Start(p, s, sess, view) ==
  /\ session[s] = IdleSession
  /\ session' = [session EXCEPT ![s] = sess]
  /\ page' = [page EXCEPT ![p].stop = FALSE, ![p].handled = FALSE,
                          ![p].view = view, ![p].id = NoId]
  /\ UNCHANGED <<tab, cancel, records, gaveUp, serverVars, faults>>

\* "Téléverser": the page goes on showing the options until initiate answers,
\* so that the user may confirm twice.
Confirm(p, s) ==
  /\ page[p].view = "configuring"
  /\ Start(p, s, [IdleSession EXCEPT !.at = "initiate", !.page = p,
                                     !.file = page[p].file], "configuring")

\* handleResumeFile, for a file that has the name, size and date of the record
Resume(p, s, x) ==
  /\ Choosing(p) /\ Target(p) # NoId
  /\ Start(p, s, [IdleSession EXCEPT !.at = "parts", !.page = p, !.resume = TRUE,
                                     !.id = Target(p), !.file = x],
           "verifying")

\* handleCancelClick: the transfer in progress on the page, if there is one,
\* rejects with AbortError, and its session returns.  Bound: one DELETE of a
\* page in flight (a second upload may be started before the first is over).
CancelClick(p) ==
  /\ cancel[p] = NoRequest
  /\ page[p].view = "uploading" /\ ~page[p].handled
  /\ page' = [page EXCEPT ![p].handled = TRUE, ![p].stop = TRUE, ![p].xhr = {}]
  /\ session' = [s \in Session |->
       IF s \in page[p].xhr THEN IdleSession ELSE session[s]]
  /\ cancel' = [cancel EXCEPT ![p] = [at |-> "delete", id |-> page[p].id]]
  /\ gaveUp' = gaveUp \cup {page[p].id}
  /\ UNCHANGED <<tab, records, serverVars, faults>>

\* The bytes of upload i are gone, as parts of its multipart or as its object.
BytesGone(i) ==
  /\ multipart' = multipart \ {i}
  /\ stored' = [stored EXCEPT ![i] = NoParts]

RowGone(i) == row' = [row EXCEPT ![i] = "gone"]

\* abortUpload answers: it deletes a pending row after its multipart, and
\* refuses anything else; the client ignores refusals and failures.
CancelDelete(p) ==
  LET i == cancel[p].id IN
  /\ cancel[p].at = "delete"
  /\ \/ i \in multipart /\ BytesGone(i) /\ RowGone(i) /\ UNCHANGED faults
     \/ i \notin multipart /\ UNCHANGED <<serverVars, faults>>
     \/ Fault /\ UNCHANGED serverVars
     \/ Fault /\ i \in multipart /\ BytesGone(i) /\ UNCHANGED row
  /\ cancel' = [cancel EXCEPT ![p].at = "forget"]
  /\ UNCHANGED <<page, tab, session, records, gaveUp>>

CancelForget(p) ==
  /\ cancel[p].at = "forget"
  /\ records' = records \ {cancel[p].id}
  /\ ConsumesTarget(p)
  /\ page' = [page EXCEPT ![p] = Showing(@, "cancelled", NoId)]
  /\ cancel' = [cancel EXCEPT ![p] = NoRequest]
  /\ UNCHANGED <<session, gaveUp, serverVars, faults>>

-----------------------------------------------------------------------------
(* Mon espace. *)

\* Mon espace is mounted and reads the records.  Bound: not while a DELETE of
\* an earlier mounting is in flight.
ListRecords(t) ==
  /\ NoPageShown(t)
  /\ tab[t].abandon = NoRequest
  /\ tab' = [tab EXCEPT ![t].listed = records]
  /\ UNCHANGED <<page, session, cancel, records, gaveUp, serverVars, faults>>

\* handleAbandonResume, on an entry of the list as it was read
Abandon(t, i) ==
  /\ tab[t].abandon = NoRequest
  /\ i \in tab[t].listed
  /\ tab' = [tab EXCEPT ![t].abandon = [at |-> "delete", id |-> i]]
  /\ UNCHANGED <<page, session, cancel, records, gaveUp, serverVars, faults>>

\* Mutant: forgets the upload whatever the DELETE answered.
AbandonDeleteBestEffort(t) ==
  LET i == tab[t].abandon.id IN
  /\ tab[t].abandon.at = "delete"
  /\ \/ BytesGone(i) /\ RowGone(i) /\ UNCHANGED faults
     \/ Fault /\ UNCHANGED serverVars
  /\ tab' = [tab EXCEPT ![t].abandon.at = "forget"]
  /\ UNCHANGED <<page, session, cancel, records, gaveUp>>

\* deleteOwnedFile answers: it deletes a row in any state, after its bytes, and
\* 404 counts as done.  A failure, before the bytes or after them, leaves the
\* entry in the list.
AbandonDelete(t) ==
  LET i == tab[t].abandon.id IN
  /\ tab[t].abandon.at = "delete"
  /\ \/ /\ BytesGone(i) /\ RowGone(i)
        /\ tab' = [tab EXCEPT ![t].abandon.at = "forget"]
        /\ UNCHANGED faults
     \/ /\ Fault
        /\ UNCHANGED <<multipart, stored>> \/ BytesGone(i)
        /\ tab' = [tab EXCEPT ![t].abandon = NoRequest]
        /\ UNCHANGED row
  /\ UNCHANGED <<page, session, cancel, records, gaveUp>>

AbandonUnauthorized(t) ==
  /\ tab[t].abandon.at = "delete"
  /\ Fault
  /\ page' = [p \in Page |->
       IF TabOf[p] = t THEN LeftPage(page[p].stop) ELSE page[p]]
  /\ tab' = [tab EXCEPT ![t] = NewTab]
  /\ UNCHANGED <<session, cancel, records, gaveUp, serverVars>>

AbandonForget(t) ==
  LET i == tab[t].abandon.id IN
  /\ tab[t].abandon.at = "forget"
  /\ records' = records \ {i}
  /\ tab' = [tab EXCEPT ![t].listed = @ \ {i}, ![t].abandon = NoRequest]
  /\ UNCHANGED <<page, session, cancel, gaveUp, serverVars, faults>>

-----------------------------------------------------------------------------
(* A session. *)

\* initiateUpload answers; a session stopped meanwhile leaves the row.
Initiated(s, i) ==
  /\ session[s].at = "initiate" /\ row[i] = "unborn"
  /\ row' = [row EXCEPT ![i] = "pending"]
  /\ multipart' = multipart \cup {i}
  /\ \/ Stopped(s) /\ Returns(s) /\ UNCHANGED page
     \/ /\ ~Stopped(s)
        /\ session' = [session EXCEPT ![s].at = "save", ![s].id = i]
        /\ page' = [page EXCEPT ![session[s].page] = Showing(@, "uploading", i)]
  /\ UNCHANGED <<tab, cancel, records, gaveUp, stored, faults>>

\* saveResumable, then the first part
Saved(s) ==
  /\ session[s].at = "save"
  /\ records' = records \cup {session[s].id}
  /\ Loop(s, session[s], page[session[s].page])
  /\ UNCHANGED <<tab, cancel, gaveUp, serverVars, faults>>

\* The first and last of the parts already stored, and a random middle one
Sample(done) ==
  LET inner == {k \in done : \E j, l \in done : j < k /\ k < l} IN
  IF inner = {} THEN {done} ELSE {(done \ inner) \cup {k} : k \in inner}

\* Mutant: hashes the first part only.
VerifiedFirst(sample, etags, x) ==
  \A k \in sample : (\A j \in sample : k <= j) => etags[k] = Digest(x, k)

\* verifyCompletedParts, for the parts it samples
Verified(sample, etags, x) == \A k \in sample : etags[k] = Digest(x, k)

\* getUploadParts answers and the sample is hashed: nothing else may happen to
\* this session in between, and the list it got is the one it will complete.
PartsListed(s) ==
  LET etags == stored[session[s].id]  pg == page[session[s].page] IN
  /\ session[s].at = "parts" /\ session[s].id \in multipart
  /\ \E sample \in Sample(Part \ Missing(etags)) :
       \/ /\ ~Verified(sample, etags, session[s].file)
          /\ Returns(s)
          /\ page' = [page EXCEPT ![session[s].page] = Showing(@, "error", NoId)]
       \/ /\ Verified(sample, etags, session[s].file)
          /\ Loop(s, [session[s] EXCEPT !.list = etags],
                  Showing(pg, "uploading", session[s].id))
  /\ UNCHANGED <<tab, cancel, records, gaveUp, serverVars, faults>>

\* getUploadParts answers 404 or 409, as the row is not pending, or 410, as the
\* multipart of a pending row is gone: completed, expired or cut down by a
\* deletion that did not reach the row.
PartsRefused(s) ==
  /\ session[s].at = "parts" /\ session[s].id \notin multipart
  /\ ThrowsGone(s)
  /\ UNCHANGED <<tab, cancel, records, gaveUp, serverVars, faults>>

\* The bucket has the whole part; another PUT of it is overwritten.
PutLands(s) ==
  LET k == NextPart(session[s].list) IN
  /\ session[s].at = "put" /\ session[s].id \in multipart
  /\ stored' = [stored EXCEPT ![session[s].id][k] = Digest(session[s].file, k)]
  /\ Goes(s, "landed")
  /\ UNCHANGED <<page, tab, cancel, records, gaveUp, row, multipart, faults>>

\* putPart resolves with the ETag; the loop goes on.
PutAnswered(s) ==
  LET k == NextPart(session[s].list)  pg == page[session[s].page] IN
  /\ session[s].at = "landed"
  /\ Loop(s, [session[s] EXCEPT !.list[k] = Digest(session[s].file, k), !.tries = 0],
          [pg EXCEPT !.xhr = {}])
  /\ UNCHANGED <<tab, cancel, records, gaveUp, serverVars, faults>>

\* The network fails, or the multipart is closed.
PutRefused(s) ==
  \/ session[s].at \in {"put", "landed"} /\ Fault
  \/ /\ session[s].at = "put" /\ session[s].id \notin multipart
     /\ UNCHANGED faults

\* Mutant: one attempt more.
PutFailsOnceMore(s) ==
  /\ PutRefused(s)
  /\ session' = [session EXCEPT ![s].at = "backoff", ![s].tries = @ + 1]
  /\ page' = [page EXCEPT ![session[s].page].xhr = {}]
  /\ UNCHANGED <<tab, cancel, records, gaveUp, serverVars>>

\* putPart rejects; after the last attempt the loop throws.
PutFails(s) ==
  LET p == session[s].page IN
  /\ PutRefused(s)
  /\ \/ /\ session[s].tries < PartAttempts - 1
        /\ session' = [session EXCEPT ![s].at = "backoff", ![s].tries = @ + 1]
        /\ page' = [page EXCEPT ![p].xhr = {}]
     \/ /\ session[s].tries = PartAttempts - 1
        /\ Returns(s)
        /\ page' = [page EXCEPT ![p] = Caught([@ EXCEPT !.xhr = {}])]
  /\ UNCHANGED <<tab, cancel, records, gaveUp, serverVars>>

\* The sleep between two attempts is over.
BackoffEnds(s) ==
  /\ session[s].at = "backoff"
  /\ Loop(s, session[s], page[session[s].page])
  /\ UNCHANGED <<tab, cancel, records, gaveUp, serverVars, faults>>

\* completeUpload, first half: the bucket assembles the object, if the parts it
\* has are those of the list.
CompletesMultipart(s) ==
  LET i == session[s].id IN
  /\ session[s].at \in {"complete", "sent"}
  /\ i \in multipart /\ stored[i] = session[s].list
  /\ multipart' = multipart \ {i}
  /\ Goes(s, IF session[s].at = "complete" THEN "assembled" ELSE "unheard")
  /\ UNCHANGED <<page, tab, cancel, records, gaveUp, row, stored, faults>>

\* It refuses: 404 or 409 when the row is not pending, 500 when the storage
\* does not know the multipart or its parts.
CompleteRefused(s) ==
  LET i == session[s].id IN
  /\ \/ session[s].at = "complete" /\ row[i] # "pending" /\ ThrowsGone(s)
     \/ /\ session[s].at = "complete" /\ row[i] = "pending"
        /\ i \notin multipart \/ stored[i] # session[s].list
        /\ Throws(s)
     \/ /\ session[s].at = "sent"
        /\ i \notin multipart \/ stored[i] # session[s].list
        /\ Returns(s) /\ UNCHANGED page
  /\ UNCHANGED <<tab, cancel, records, gaveUp, serverVars, faults>>

\* Second half, after headObject, which finds the declared size, as all candidates
\* have it: the row is updated by its id.  If it was deleted meanwhile the answer
\* is 500.
MarksUploaded(s) ==
  LET i == session[s].id IN
  /\ session[s].at \in {"assembled", "unheard"}
  /\ \/ row[i] # "gone" /\ row' = [row EXCEPT ![i] = "uploaded"]
        /\ \/ session[s].at = "assembled" /\ Goes(s, "completed")
           \/ session[s].at = "unheard" /\ Returns(s)
        /\ UNCHANGED page
     \/ row[i] = "gone" /\ UNCHANGED row
        /\ \/ session[s].at = "assembled" /\ Throws(s)
           \/ session[s].at = "unheard" /\ Returns(s) /\ UNCHANGED page
  /\ UNCHANGED <<tab, cancel, records, gaveUp, multipart, stored, faults>>

CompleteAnswered(s) ==
  /\ session[s].at = "completed"
  /\ Goes(s, "forget")
  /\ UNCHANGED <<page, tab, cancel, records, gaveUp, serverVars, faults>>

\* removeResumable, then the page shows the scan, cancelled or not.
Forgotten(s) ==
  /\ session[s].at = "forget"
  /\ records' = records \ {session[s].id}
  /\ IF session[s].resume THEN ConsumesTarget(session[s].page) ELSE UNCHANGED tab
  /\ page' = [page EXCEPT ![session[s].page] = Showing(@, "scanning", NoId)]
  /\ Goes(s, "poll")
  /\ UNCHANGED <<cancel, gaveUp, serverVars, faults>>

\* pollUntilScanned ends: with the token, with a refusal, after its last attempt
\* (whose answer may be stale by then), or with 404 if the row was deleted.
PollEnds(s) ==
  LET i == session[s].id IN
  /\ session[s].at = "poll"
  /\ \/ /\ row[i] = "ready"
        /\ Returns(s)
        /\ page' = [page EXCEPT ![session[s].page] = Showing(@, "done", NoId)]
     \/ row[i] # "gone" /\ Throws(s)
     \/ row[i] = "gone" /\ ThrowsGone(s)
  /\ UNCHANGED <<tab, cancel, records, gaveUp, serverVars, faults>>

\* Mutant: leaves what the page shows.
DroppedQuietly(s) ==
  /\ session[s].at = "drop"
  /\ records' = records \ {session[s].id}
  /\ ConsumesTarget(session[s].page)
  /\ Returns(s)
  /\ UNCHANGED <<page, cancel, gaveUp, serverVars, faults>>

\* removeResumable in the catch of handleResumeFile
Dropped(s) ==
  /\ session[s].at = "drop"
  /\ records' = records \ {session[s].id}
  /\ ConsumesTarget(session[s].page)
  /\ page' = [page EXCEPT ![session[s].page] = Showing(@, "error", NoId)]
  /\ Returns(s)
  /\ UNCHANGED <<cancel, gaveUp, serverVars, faults>>

\* The network loses a request or its answer, IndexedDB refuses the write, or
\* the server answers 500.  A lost answer to initiate leaves an upload; a
\* complete may be served although its answer is lost.
RequestFails(s) ==
  /\ session[s].at \in {"initiate", "save", "parts", "complete", "assembled",
                        "completed", "forget", "poll"}
  /\ Fault
  /\ session' \in {[session EXCEPT ![s] = k] : k \in {IdleSession, Unheard(session[s])}}
  /\ page' = [page EXCEPT ![session[s].page] = Caught(@)]
  /\ \/ UNCHANGED <<row, multipart>>
     \/ \E i \in Id : /\ session[s].at = "initiate" /\ row[i] = "unborn"
                      /\ row' = [row EXCEPT ![i] = "pending"]
                      /\ multipart' = multipart \cup {i}
  /\ UNCHANGED <<tab, cancel, records, gaveUp, stored>>

\* A complete nobody waits for never reached the server, or fails in it.
UnheardFails(s) ==
  /\ \/ session[s].at = "sent" /\ UNCHANGED faults
     \/ session[s].at = "unheard" /\ Fault
  /\ Returns(s)
  /\ UNCHANGED <<page, tab, cancel, records, gaveUp, serverVars>>

\* 401: the token expired.
Unauthorized(s) ==
  /\ session[s].at \in {"initiate", "parts", "complete", "poll"}
  /\ Fault
  /\ Returns(s)
  /\ SignsOut(TabOf[session[s].page])
  /\ UNCHANGED <<cancel, records, gaveUp, serverVars>>

SessionStep(s) ==
  \/ \E i \in Id : Initiated(s, i)
  \/ Saved(s) \/ PartsListed(s) \/ PartsRefused(s)
  \/ PutLands(s) \/ PutAnswered(s) \/ PutFails(s) \/ BackoffEnds(s)
  \/ CompletesMultipart(s) \/ CompleteRefused(s) \/ MarksUploaded(s)
  \/ CompleteAnswered(s) \/ Forgotten(s) \/ PollEnds(s) \/ Dropped(s)
  \/ RequestFails(s) \/ UnheardFails(s) \/ Unauthorized(s)

-----------------------------------------------------------------------------
(* The server on its own. *)

\* The worker's verdict; a refused object is deleted.
Settle(i) ==
  /\ row[i] = "uploaded"
  /\ \/ row' = [row EXCEPT ![i] = "ready"] /\ UNCHANGED stored
     \/ /\ row' = [row EXCEPT ![i] = "rejected"]
        /\ stored' = [stored EXCEPT ![i] = NoParts]
  /\ UNCHANGED <<page, tab, session, cancel, records, gaveUp, multipart, faults>>

\* The reaper, 48 hours after
Reap(i) ==
  /\ row[i] = "pending"
  /\ BytesGone(i) /\ RowGone(i)
  /\ UNCHANGED <<page, tab, session, cancel, records, gaveUp, faults>>

\* The multipart expires in the bucket, or the reaper is cut before the row.
Expire(i) ==
  /\ row[i] = "pending"
  /\ BytesGone(i)
  /\ UNCHANGED <<page, tab, session, cancel, records, gaveUp, row, faults>>

Next ==
  \/ \E p \in Page :
       \/ \E i \in Id \cup {NoId} : Open(p, i)
       \/ Leave(p)
       \/ \E x \in Candidate : ChooseFile(p, x)
       \/ ChooseWrongFile(p) \/ DropTarget(p)
       \/ \E s \in Session : Confirm(p, s)
       \/ \E s \in Session, x \in Candidate : Resume(p, s, x)
       \/ CancelClick(p) \/ CancelDelete(p) \/ CancelForget(p)
  \/ \E t \in Tab :
       \/ SignOut(t) \/ Reload(t)
       \/ ListRecords(t)
       \/ \E i \in Id : Abandon(t, i)
       \/ AbandonDelete(t) \/ AbandonUnauthorized(t) \/ AbandonForget(t)
  \/ \E s \in Session : SessionStep(s)
  \/ \E i \in Id : Settle(i) \/ Reap(i) \/ Expire(i)

Spec == Init /\ [][Next]_vars

-----------------------------------------------------------------------------
(* Fairness: the event loop of the browser goes on and every request is     *)
(* answered in the end, be it by an error.  Nobody has to click, and the    *)
(* server need not settle: a poll has a last attempt.                       *)

LiveSpec ==
  /\ Spec
  /\ \A s \in Session : WF_vars(SessionStep(s))
  /\ \A p \in Page : WF_vars(CancelDelete(p)) /\ WF_vars(CancelForget(p))

-----------------------------------------------------------------------------
(* Properties. *)

\* Object i has the bytes of one file, or was deleted.
OneFile(i) ==
  \/ stored[i] = NoParts
  \/ \E x \in Candidate : \A k \in Part : stored[i][k] = Digest(x, k)

\* What was completed is one file, whichever sessions sent its parts: a resume
\* with another file of the same name, size and date is found out, and two
\* pages that send to the same upload cannot each contribute parts.
ObjectIsOneFile ==
  \A i \in Id : row[i] \in {"uploaded", "ready", "rejected"} => OneFile(i)

\* "Persisted before the first byte goes out": an upload that left bytes in an
\* open multipart, which a resume could continue, is offered in Mon espace,
\* through reloads, failed requests, late answers and other tabs, unless the
\* user cancelled it.
SentIsResumable ==
  \A i \in multipart : Missing(stored[i]) # Part => i \in records \cup gaveUp

Busy(p) == page[p].view \in {"verifying", "uploading", "scanning"}

\* A page that shows a progress bar or a spinner does not show it for ever,
\* unless the user clicked cancel: whatever fails or is lost, in a fresh upload
\* or a resume, and whatever the earlier pages of the tab do to its target.
UploadSettles == \A p \in Page : Busy(p) ~> ~Busy(p) \/ page[p].stop

=============================================================================
