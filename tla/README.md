# DataShare: the verification project

DataShare is a file-sharing service: a sender uploads a file in parts straight to
object storage, a worker checks it (signature, ClamAV), and only then does a link
resolve for a recipient. These modules model four parts of it, each against
what it sees of the others. `Datashare` and the modules it composes are the back
end: what its API requests, worker processes and timers do to a file, in every
order and with every crash the bounds allow. `Uploader` is the sender's browser:
what its pages, tabs and reloads do to an upload that takes minutes. `Recipient` is
the page a link opens, its polling and the counter that protects a password.
`Account` is everybody's way in: registration, login and the history of sent files.

## 1. The system

| Component | Code | State it keeps | Operations |
|---|---|---|---|
| Row and object stores | `prisma/schema.prisma`, `storage/storage.service.ts` | the `files` row (state, storageKey, expiresAt); the open multipart and the object in MinIO | insert, update by id, guarded updateMany, delete; create/complete/abort multipart, head, get, delete |
| Files API | `files/files.service.ts` | a request in flight | initiate, parts, complete, status, abort, list |
| File deletion | `files/file-deletion.service.ts` | a request or a purge in flight | deleteOwnedFile, deleteFileCompletely, purgeTombstone |
| Scan queue | `scan/scan-queue.service.ts`, BullMQ | one job per file: waiting, active, failed; attempts, stalls | add (job id = file id), activate, complete, fail, stalled check |
| Validation worker | `scan/scan.worker.ts`, `scan/validation.service.ts` | the run in progress, the hourly sweep in progress | validate, reject, requeueStaleScans |
| Signature and virus checks | `scan/magic-bytes.ts`, `scan/clamav.client.ts` | none | verdict on bytes |
| Daily purge | `purge/*.ts` | the pass and what is left of its list | expireReadyFiles, purgeGhostRows, reapAbandonedUploads |
| Download API | `download/download.service.ts` | a POST in flight | getMetadata, verifyPasswordAndGetUrl |
| Authentication | `auth/*.ts` | the `users` table; a token in flight | register (test, then insert), login, verify a token |
| Throttling | `throttler/`, `download-throttler.guard.ts` | counters in Redis, one window each | count, refuse, reset |
| Upload client | `frontend/.../Uploader.tsx`, `lib/resumeStore.ts` | part queue, resume record | send, retry, resume, cancel, poll |
| Recipient page | `frontend/.../RecipientPage.tsx`, `lib/usePollUntil.ts`, `lib/download.ts` | the phase, the poll and its end, GETs and POSTs in flight | load, poll, give up, click, send a password |
| Mon espace | `frontend/.../MonEspace.tsx`, `ConfirmDeleteDialog.tsx`, `App.tsx` | the history it read, the filter, the dialog; the interrupted uploads it read | load, filter, delete, sign out; resume, abandon |
| Account forms | `LoginForm.tsx`, `RegisterForm.tsx` | whether a submission is under way | submit, chain a login, switch form |
| Design system, health check, infrastructure | `frontend/src/components/ds`, `health/`, `infra/` | none | none that changes state |

The components of the back end meet in three places only: the `files` row, the bucket and the job
queue. Nothing locks a row. Every handler reads it, awaits something else and
writes it by id, mostly without repeating the test it made; the API runs in any
number of replicas, the worker in any number of processes, each of which restarts
when it dies. What keeps a file consistent is the order of the writes ("storage
first, row last"), the fact that a multipart can be completed once, that bytes
under a key never change, and the job id. The hard behaviours are listed, at
their lines, as `hazards` in `PROJECT.json`.

What makes each component correct:

- *stores*: an object or a multipart never outlives its row, a tombstone has
  neither key nor object, and stored bytes only go forward;
- *API*: racing requests on one file leave one of the documented transitions;
- *worker*: only bytes that passed every check are ever `ready`; one scan of a
  file at a time; every sound upload gets its verdict;
- *purge*: it never takes a row back, and leaves alone what is not its to take;
- *download*: no token and no URL for a file that was ever refused;
- *upload client*: what is completed is one file, an upload that left bytes in an
  open multipart can be found again, and the page does not wait for ever;
- *recipient*: whatever order answers come in, the page offers only what passed the
  checks, shows the verdict in the end, never locks its own button, and a password
  may be tried only as often as the counter says;
- *accounts*: an address belongs to whoever registered it first, nobody is shown or
  signed in to another's, and no form, list or dialog waits for nothing.

## 2. The modules

| Module | Models |
|---|---|
| `Store` | the row, the multipart, the object, the bytes (`content`: what each check says of them) and `overdue`; one operator per call on PostgreSQL or MinIO |
| `ScanQueue` | `ScanQueueService` and one BullMQ job per file |
| `Deletion` | `FileDeletionService` as the steps of any thread (`DeletionStep(at, to, f)`), used by `Upload` and `Purge` |
| `Upload` | `FilesService`; `call[c]` is the await each request is at and its file |
| `Scan` | `ScanWorker` and `ValidationService`; `run[w]` the validation in progress with its job lock, `sweep[w]` the hourly sweep's list |
| `Purge` | `PurgeService`; `purge[p]` the pass, its list and its current file |
| `Download` | `DownloadService`; `ask[r]` a POST that found the file ready, `links` the files a URL was signed for |
| `Datashare` | the composition, the environment (clock, MinIO's expiry, process death), fairness and the properties |
| `Sharing` | the abstract promise: private, open, closed |
| `Refinement` | `Datashare` implements `Sharing`: `Fate`, `Bytes` and `Asked` map its state to the promise |
| `Invariants` | what every reachable state satisfies and every step keeps: `IInv` of the stores and the threads, `LockOK` of the queue, `StageOK` of the states of a row |
| `Uploader` | the sender's browser: `tab[t]` what App and Mon espace keep in a tab (the resume target, the list as it was read, the DELETE of an abandon), `page[p]` a mounting of the component in one, `session[s]` a call of `startFreshUpload` or `handleResumeFile`, `cancel[p]` the DELETE of a cancel, `records` the IndexedDB store; of the server, `row`, `multipart` and `stored` |
| `UploaderInvariants` | the inductive invariant `IInv` of `Uploader` |
| `Recipient` | the recipients of one link: `page[p]` the component and its poll, `get[p]` its GETs in flight by what they will be answered, `post[q]` a POST at the await the API is at, `hits` the counter dlTokenPassword |
| `Account` | the tabs of several users: `tab[t]` App and the component it shows, `call[c]` a request in flight or its answer, `users` the table, `row` the files as the history tells them apart |
| `MCDatashare`, `MCUploader`, `MCAccount` | symmetry sets and tables of constants for TLC |
| `DatashareProofs`, `InvariantProofs`, `LockProofs`, `StageProofs`, `RefinementProofs` | the theorems about `Datashare`, each on the ones before |
| `UploaderProofs`, `RecipientProofs`, `AccountProofs` | the theorems about the other three |

One action is one await: everything the code does between two awaits is one step,
a label names the await a thread is at, and a thread keeps no copy of the row
(the code keeps only the id and the key, and a key never changes until it is
nulled). A request refused at its first read changes nothing and is left out; one
that throws later returns to idle with its effects kept (`CutCall`,
`AttemptThrows`, `PurgeThrows` cut a thread at any await, for a crash or an
unreachable service; an effect that did happen before the cut is the step itself
followed by the cut).

Abstractions. A file is its id, its key and its token at once: `initiateUpload`
draws the three together. Bytes are one of four contents, by the verdict of the
size check, the signature check and ClamAV. Time is `overdue` (several components
read expiresAt) and otherwise a choice of the query that reads an age: a row may
have been `pending` for 48 hours, `scanning` for 15 minutes or a tombstone for 7
days whenever it is in that state. `ScansAreQuick` narrows this: a run does not
stay past 15 minutes in a scan it has claimed; the passing runs do not assume it.
The ClamAV size cap equals the upload cap, so the branch that skips ClamAV is
unreachable and absent. `abandoned` is written by no code. ClamAV's verdict is a
function of the bytes, the same at every scan: `OnlyCleanIsShared` and
`RefusedWasNeverShared`, checked or proved, say nothing of a file scanned again after
an update of the signature database that changes the verdict.

In `Uploader` the server is what its answers show: a request is served at one
point (what races inside it is the subject of the other modules), with a label
for an answer still on its way where something may come between the two
(`landed`, `completed`). A complete alone is served in its two halves, because
what can be cut between them is a state the browser meets again: the bucket
assembles the object (`CompletesMultipart`), then the row is updated by its id
(`MarksUploaded`); and as it may be served although its client is gone, it goes on
as `sent` and `unheard`. `multipart` is the set of uploads a resume could
continue. An upload may leave it while its row is still `pending`: through a
complete cut half-way, a deletion cut before the row, or an expiry in the bucket
(`Expire`); listing its parts is then answered 410 (`PartsRefused`).

A session outlives the page that started it, because leaving for Mon espace
unmounts the component and cancels nothing; only a reload ends it. What its
closures call when they end is of two kinds. `setStatus` belongs to the component
and does nothing once it is gone; `onResumeConsumed` and `onUnauthorized` belong to
App, and act on the tab as it is by then: the first clears `tab[t].target`,
whichever upload it names and whichever page is shown (`ConsumesTarget`), the
second signs the tab out (`SignsOut`). App keeps its target from one mounting to
the next, so a page may be mounted with an upload that was abandoned, completed or
reaped since (`Open`).

A file is one of the `Candidate`s that share a name, a size and a date, the only
ones `handleResumeFile` lets through, and an ETag is which candidate a part came
from, or "common" for a part that all of them have alike. Bounds, besides the
constants: a page is mounted again once nothing it had started is in flight (the
sets of pages and sessions bound what is in flight at once); a page has one DELETE in
flight, and Mon espace is not read again while one of its own is. Left out: the
options form and the progress figure; an IndexedDB that fails inside a `catch`
(`Uploader.tsx:482`, after which the page stays on `verifying`); the refusal of an
object of the wrong size, which all candidates have; two people who share one
browser; and an initiate or a DELETE that is served after the reload of the page
that sent it, of which the first leaves a row no record names and no bytes, and the
second looks like `Reap`.

In `Recipient` a GET in flight has no identity: `get[p][k]` counts those that will
be answered `k`, so answers overtake one another freely. Time is the page's own
(`elapsed`, advanced by the interval that just ended). `fetchDownloadMetadata` and
`requestDownloadUrl` know three statuses and take any other for a success; such an
answer is "unknown", and a page that shows one has `real` FALSE, because what it
offers has neither a name nor a URL. Every request may be answered so, which stands
for the counters dlIp and dlToken as well. The window of dlTokenPassword closes at
any time after its first hit; what the throttler does after a hit over the limit
(it refuses until its block ends) is a refusal that changes nothing here. The row
goes from being checked to ready or unknown, to expired, to unknown: the hourly
sweep's way back (`sweep_regresses`) is left out.

In `Account` a user has one password, which is never another's, so a row of `users`
is the tab whose password opens it, and `Types` says which addresses each user
types, another's included. A request keeps the filter and the token it was sent
with; `from` says whether the component that sent it is still mounted, is gone, or
its whole page is. Deletion and listing are one step each, the awaits inside them
being in `Upload` and `Deletion`. A reload keeps the token, which is in
localStorage; two tabs of one browser, which share it, are not modelled.

The names a mutant needs (`...Again`, `...Later` and so on, marked "Mutant") are
used by no specification.

Constants of an instance: `HeadMayFail` (headObject may throw although the object
is there), `LocksMayLapse` (a live run may lose its job lock), `SweepOn` (the
hourly sweep runs), `Attempts` = 3 and `MaxStalled` = 1 as in the code and
BullMQ's default; `MaxCallFaults`, `MaxRunFaults`, `MaxPurgeFaults`, `MaxCrashes`
bound how many cuts, failing attempts, failing purges and killed processes a
behaviour has.

## 3. The runs

| Run | Instance | Shows |
|---|---|---|
| `requests` | 2 requests, 1 cut, 1 worker, 2 failing attempts, 1 crash, fairness | `TypeOK`, `NothingOutlivesTheRow`, `TombstoneIsEmpty`, `AwaitedIsQueued`, `StageOK`, `StoresOnlyGoForward`, `DocumentedTransitions`, `CleanUploadSettles` under every interleaving of initiate, complete, abort, delete |
| `purge` | 1 request, 1 process that scans and purges, 1 recipient, one fault of each kind | `OnlyCleanIsShared`, `RefusedWasNeverShared`, `NothingOutlivesTheRow`, `DocumentedTransitions`, and `KeepsThePromise`: the refinement of `Sharing` |
| `replicas` | 2 processes, sweep on, locks lapse, 1 failing attempt, 1 crash, head failures | `IInv`, `LockOK`, `OneScanAtATime`, `OnlyCleanIsShared`, `RefusedWasNeverShared` even when two runs work on one job |
| `client` | 1 tab, 2 pages used again and again, 2 sessions, 1 upload of 2 parts, 2 candidate files, 1 attempt per part, 1 fault | `ClientTypeOK`, `IInv`, `ObjectIsOneFile`, `SentIsResumable` |
| `one_page` | 1 tab, 1 page used again and again, 2 sessions, 1 upload of 2 parts, 2 attempts, 3 faults, fairness | `UploadSettles` |
| `recipient` | 1 page and its reloads, 2 GETs and 2 POSTs in flight, a limit of 1 password and 2 windows, fairness | `RecipientTypeOK`, `PasswordBudget`, `OffersOnlyChecked`, `VerdictIsShown`, `ClickIsAnswered` |
| `account` | 2 users, 2 addresses of which user 1 types both, 1 file, 2 filters, 2 requests in flight | `AccountTypeOK`, `AccountsAreTheirs`, `WaitsForAnAnswer` |

One file is enough in the back end: no operation reads two rows, and files meet
only in the occupancy of a worker or a purge and in the lists of a sweep; the
theorems of section 4 hold for any number of files. Two requests are enough for a race on one file because a
third finds what the first two left; two workers because the stalled check and
the job lock are between one owner and one other. Attempts stay at 3, so the
bound of 2 failing attempts is the last that must not lose a file.

In `Uploader` a fault (`MaxFaults`) is a request that is lost, refused with a 500 or a
401, or cut between its two halves. Refusals with a 404, 409 or 410 are no faults:
they follow from what the reaper, the bucket, another session or Mon espace did. Two
sessions are a fresh upload and a resume of it, or two resumes with different files,
on one page or on two. Pages are used again, so one page is any number of visits one
after the other, and two are needed for a page that is gone while its session goes
on beside the next one, which is `client`. There both pages are in one tab, where they
share a target as well as the records; two tabs share only the records, and what two
tabs do is proved for any number of them (section 4). In `one_page` three faults are
enough to leave something behind (a record whose complete was served, a page signed
out), to meet it again and to lose that request as well; the second session is the
one started after a late cancel, or by a second click on "Téléverser". With one id
that second upload ends in initiate: two uploads that both get past it on one page,
under fairness and with faults, are beyond a run of minutes, so `UploadSettles` is
shown for each session beside a late or failing one. Two parts are both hashed by
`verifyCompletedParts`, as are any three. From four stored parts on, a middle one may
go unhashed (the compromise of `docs/documentation-technique.md:281`), so
`ObjectIsOneFile` says nothing of uploads resumed with four parts or more.
`PartAttempts` is 2 instead of 3: one retry, and the failure of the last attempt;
`client` has 1, the failure alone.

`SentIsResumable` speaks of open multiparts. An object that was assembled while its
row stayed `pending` (a complete cut half-way) is past resuming: the resume is answered
410, the record dropped, and the reaper collects the rest, as
`docs/documentation-technique.md:115` says. `UploadSettles` leaves out a page on which
cancel was clicked: a poll that fails after a cancel that came too late does leave
its spinner (`Uploader.tsx:490`), and no line of the repository says otherwise.

One page is enough in `Recipient`, where pages meet only in the counter, and there a
reload leaves the POSTs of the old page beside those of the new: two POSTs in flight,
whatever page sent them, are what a race for the last hit needs. Two GETs are the
fewest that can overtake one another. The intervals are 1 and 2 and the end is at 3,
so that a poll has a fast tick, a slow one and an end, as in 2 s, 5 s and 2 min. A
limit of 1 over 2 windows has the request let through in one window and compared in
the next, which is where a count per window would be wrong. In `account` two
requests are a registration racing another, a load overtaken by another, or a
deletion beside a load; one file and two filters ("all" and one that narrows) are
enough because a list is replaced as a whole.

`AwaitedIsQueued` and `CleanUploadSettles` speak of behaviours in which no request
was cut (`callFaults = 0`): a replica that dies between writing `uploaded` and
adding the job leaves a row nothing will ever enqueue. No document says otherwise.

Deadlock checking is off where the system may stop (no file left, no id left, no
user who clicks).

Fairness (`LiveSpec`): a request in flight goes on, a run goes on, a waiting job is
taken, the stalled check runs, the sweep's timer runs. All are Node or BullMQ timers
and event loops that go on by themselves; nobody is assumed to send a request, and no
fairness is put on the environment. In `Uploader` (`LiveSpec` there) a session and a
cancel in flight go on: every request is answered in the end, be it by an error, and
a poll has a last attempt. Nobody is assumed to click, and the server need not
settle, reap or expire anything. In `Recipient` timers fire, and every request is
served and its answer taken: `fetch` has no time limit here, but a connection ends,
and its end is an answer. `Account` states no fairness: that a request is under way
is an invariant, and that it ends is the network's.

### Where code and documents disagree

| Run | What it shows |
|---|---|
| `sweep_regresses` | the hourly sweep's unconditional update takes a `ready` or `rejected` row back to `uploaded` |
| `head_failure` | a failing `HeadObject` makes the deletion drop the row and keep the object |
| `reaper_race` | an upload completed between the reaper's query and its turn is deleted |
| `dead_job` | three failing attempts leave a failed job whose id makes the sweep's re-add a no-op |
| `recipient_stuck` | the answer of the last poll puts a page that gave up back to `scanning`; the end of the poll it restarts changes nothing, and the page says that it checks for ever |

The findings in `PROJECT.json` quote the lines. The first is why `purge` and
`requests` run without the sweep: with it, `DocumentedTransitions`, the refinement
and the liveness fail as it shows. The last is not rare: the timer that ends a poll
sends its last GET first, so a file that is still being checked after two minutes
always takes that path. It is why `VerdictIsShown` promises a verdict only to a page
whose time is not up.

## 4. What is proved

For every value of the constants, so for any number of files, requests, workers,
purges, recipients, pages, tabs, sessions and users, any bound on faults, and with
or without the sweep, lapsed locks and a failing `headObject` unless said otherwise:

| Theorem | Module | States |
|---|---|---|
| `TypeCorrect` | `DatashareProofs` | `Spec => []TypeOK` |
| `Inductive` | `InvariantProofs` | `Spec => []IInv` |
| `Forward` | `InvariantProofs` | `Spec => StoresOnlyGoForward`: no late thread brings back bytes, a multipart or a row |
| `Barrier` | `InvariantProofs` | `Spec => []OnlyCleanIsShared` |
| `NoLinkToRefused` | `InvariantProofs` | `Spec => []RefusedWasNeverShared` |
| `EmptyTombstones` | `InvariantProofs` | `Spec => []TombstoneIsEmpty` |
| `NoOrphans` | `InvariantProofs` | `Spec => []NothingOutlivesTheRow`, if `HeadMayFail = FALSE` |
| `Locks` | `LockProofs` | `Spec => []LockOK` |
| `NoTwoScans` | `LockProofs` | `Spec => []OneScanAtATime`: of two runs on one file, one lost its lock |
| `Stages` | `StageProofs` | `Spec => []StageOK`, if the sweep is off and locks are kept |
| `RowsFollowTheDiagram` | `StageProofs` | `Spec => DocumentedTransitions`, likewise |
| `AwaitedUnlessWorn` | `StageProofs` | `Spec => [](runFaults < Attempts /\ crashes <= MaxStalled => AwaitedIsQueued)`, likewise |
| `NothingIsForgotten` | `StageProofs` | `Spec => []AwaitedIsQueued`, likewise, if `MaxRunFaults < Attempts` and `MaxCrashes <= MaxStalled` |
| `PromiseKept` | `RefinementProofs` | `Spec => KeepsThePromise`, if the sweep is off and locks are kept |
| `Inductive` | `UploaderProofs` | `Spec => []IInv` |
| `ClientTypes` | `UploaderProofs` | `Spec => []ClientTypeOK` |
| `NeverTwoFiles` | `UploaderProofs` | `Spec => []ObjectIsOneFile`, if `Parts <= 3` |
| `SentStaysResumable` | `UploaderProofs` | `Spec => []SentIsResumable` |
| `RecipientTypeCorrect` | `RecipientProofs` | `Spec => []RecipientTypeOK` |
| `PagesOfferChecked` | `RecipientProofs` | `Spec => []OffersOnlyChecked` |
| `BudgetHolds` | `RecipientProofs` | `Spec => []PasswordBudget` |
| `AccountTypeCorrect` | `AccountProofs` | `Spec => []AccountTypeOK` |
| `AccountsStayTheirs` | `AccountProofs` | `Spec => []AccountsAreTheirs` |
| `NothingWaitsInVain` | `AccountProofs` | `Spec => []WaitsForAnAnswer` |

The conditions, and why each is needed:

- `HeadMayFail = FALSE`: `head_failure` shows an object left without a row.
- Sweep off: `sweep_regresses` shows the sweep take a row back, which neither the
  diagram nor `Sharing` allows; and a sweep whose update throws ends its process
  without being counted among the faults, so that a job may use up its stalls.
- Locks kept: two runs of one job write the row by id in any order, so one may write
  `scanning` after the other's verdict. A timer of the worker's own process renews
  the lock, so it lapses only under a process that is held up for longer than the
  lock lasts, or cut off from Redis. What holds even then is `Barrier`,
  `NoLinkToRefused`, `Forward` and the rest of `InvariantProofs`.
- At most `Attempts - 1` failing attempts and `MaxStalled` deaths: `dead_job` is what
  happens beyond. `AwaitedUnlessWorn` puts no bound on an instance: in a behaviour
  with more faults the property holds until the one too many.
- `Parts <= 3`: of four parts or more only a sample is hashed (section 3).

The other assumptions are the named ones on the constants (bounds are numbers, flags
are Booleans, no file is `NoFile`), which TLC evaluates in every run.

The argument. A thread of this program keeps an id and a label, never the row it
read, so nothing the row said need still be true when the thread writes. What does
stay true are the facts nobody can undo, gathered in `OnlyForward`: a row once
inserted, assembled bytes (a multipart is completed once, and its part URLs die
with it), a multipart that ended, a file emptied of object and multipart. `IInv`
says, for each label, which of these its thread relies on: a thread about to write
`ready` holds the id of clean bytes, one about to write `uploaded` or `scanning` of
bytes of the declared size, one about to tombstone or to drop a row of an emptied
file. That is why an unconditional update by id cannot share what was refused,
even from a stale list or a second run of the same job, although it can move a
state back (`sweep_regresses`). The proof has three layers: what each store
operation does to one file; that each step of a request, a worker, a sweep or a
purge moves its own thread so that `IInv` holds of it and the stores only go
forward; that whatever goes forward keeps the part of `IInv` about every other
thread. `IInv` was checked by TLC first (`replicas`).

`LockProofs` is a second, smaller induction: a run that holds its lock owns the one
active job of its file, and only an unlocked active job is found stalled.

`StageProofs` is the third, on top of both. The writes of a row's state are by id
and test nothing, so `DocumentedTransitions` needs to know that what a thread is
about to write fits what the row has become while it awaited something else.
`StageOK` says why it does. One request gets past CompleteMultipartUpload
(`OneCompleter`); until it has written, the row is `pending` or deleted and has no
job, and it has one only once it left `pending`. The run that holds the active job
is alone with it: it claims a row that waits, finds its own `scanning` or a deleted
row after that, and a row past its scan when it finishes. Only the expiry leaves
`ready`, and it tests for it. A job counts what happened to it: its tries are at most the
attempts that failed, its stalls at most the processes that died, and strictly fewer
while its lost lock is not yet found out; so a job in the failed set means that
one of the two budgets is used up. A row that waits has a job, or the request about
to add it, and with budgets left that is `AwaitedIsQueued`.

`RefinementProofs` maps each step to a step of `Sharing` or to a stutter: the fate
of a file follows the transitions just proved, it opens only with the sound bytes
`IInv` knows of, and a token or a URL is given out only by a step that read the row
as `ready`, or for a POST that had.

`UploaderProofs` has one induction. A session outlives its page, a DELETE the view
that sent it, App keeps a target whatever became of it and Mon espace shows a list
it read once, so nothing that was seen need still be so. What is never lost are the
`Facts`: the ids the server has drawn; those `kept`, whose record is there as long
as their multipart is open unless the user cancelled them; those whose multipart is
closed (`over`), and of these the ones of which the bucket has one whole file or
nothing (`whole`); those cancelled. `SessionOK`, `PageOK` and `TabOK` say which of them
each label, each view and each tab relies on, so that a step that loses no fact keeps
what is said of every other thread. A session about to drop a record holds an upload
whose multipart is closed, whatever its row: that covers the 404, the 409 and the 410
alike. `TabOK` asks of a target only that it is `kept`, so it may be stale, and
clearing it, whoever does, loses nothing. `StoresOK` has the one clause that makes it
work from the other side: a multipart with bytes in it is `kept`, because no session
sends a part before its record was saved or was there to be resumed. For
`ObjectIsOneFile`, the parts a session holds to be stored are those of its own file
(`OfFile`): of three parts at most each one stored was hashed, and the others it sent
itself. The storage completes the list it is given or refuses, so a part another tab
has overwritten makes complete fail.

`RecipientProofs` has two inductions. What a page shows was true once: an answer in
flight that offers the file, a POST past its first read and a page that offers it
all imply that the bytes passed their checks, and a verdict is never taken back, so
the order of answers does not matter. For the password, each comparison made or
under way was a hit of some window, so their number (a cardinality, over any finite
set of POSTs) is at most the hits of this window and the limit times the windows
before.

`AccountProofs` rests on one fact: a row of `users` is written once and never again.
So a tab or a request that was entitled to an account stays so however late it is,
and `IInv` there says, for each tab and each request apart (`TabOK`, `CallOK`), what
it is entitled to; registration, which alone writes the table, fills an empty row
only. `WaitsForAnAnswer` follows by keeping, for each thing that waits, the request
that will end it: a step of one tab does not touch the requests of another, a new
request takes a free slot, and a request that ends ends what waited for it.

Only model-checked: the liveness properties (`CleanUploadSettles`, `UploadSettles`,
`VerdictIsShown`, `ClickIsAnswered`), because fairness and ENABLED are out of the
prover's reach. Every other property a passing run checks is a theorem; those of the
other runs are false. TLC checked each inductive invariant of `Datashare` and `Uploader` before it was
proved, and still does: `StageOK` in `requests`, `IInv` and `LockOK` in `replicas`,
the `IInv` of `Uploader` in `client`. One of them had to grow: that a multipart never
outlives its row had been stated only for a `headObject` that does not fail, and
`EmptiedUnlessHeadFails` now says that only the object may.

## 5. Not modelled, and the plan

Not modelled: the content of the checks (byte signatures, the clamd protocol), URL
signing and expiry, the counters other than dlTokenPassword (they only refuse, and
a refusal may come at any time), the tag filter, the drawer and the action sheet of
Mon espace, tabs that share one localStorage, the health check, presentation and
deployment.

Known to be false, so stated by no run. Three of these a comment in the source counts
on, and `Uploader` has the steps that contradict it:

- that a cancelled upload is pending or gone ("if this fails the row stays pending and
  the scheduled reaper collects it", `Uploader.tsx:513`): when complete is served
  first, the DELETE is refused and the refusal ignored, the page says cancelled, and
  the file goes on to be scanned and shared;
- that the end of a cancel is a "no-op if this wasn't a resume in progress"
  (`Uploader.tsx:517`): it clears the target of App, which may by then be that of
  another upload;
- that abandoning an entry that was completed meanwhile is answered 404
  (`MonEspace.tsx:98`): deleteOwnedFile deletes a row in any state, so the completed
  file is deleted.

The others are promised by no document: that the list shown is the list of the filter
shown (`MonEspace.tsx:60`); that a late 401 signs out only its own session
(`MonEspace.tsx:63`); that a record never outlives its upload (`Uploader.tsx:391`); that
a poll that fails after a late cancel takes the spinner away (`Uploader.tsx:490`); that
a page shows what a 429 means (`download.ts:36`). The hazards in `PROJECT.json` say
where each bites, and which hazards no property covers.

To come, in this order:

1. A composition of `Uploader` with `Upload`, for the cancel and the abandon that
   lose against a scan or a download.
2. `Recipient` with the row the sweep takes back, and the part of
   `DocumentedTransitions` that survives the sweep.
3. `StageOK` with locks that lapse: which transitions two runs of one job can make.
