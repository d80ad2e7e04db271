------------------------------ MODULE Recipient ------------------------------
(***************************************************************************)
(* The recipients of one link: their pages (RecipientPage.tsx), the poll   *)
(* of a file that is being checked (usePollUntil.ts), the two calls they   *)
(* make (download.ts) and what the API does with them (download.           *)
(* controller.ts, its throttler guard and download.service.ts).            *)
(*                                                                         *)
(* A page does not wait for the answer of one poll before it sends the     *)
(* next, and applies answers in the order they arrive, which need not be   *)
(* the order in which the server gave them.                                *)
(***************************************************************************)
EXTENDS Integers, FiniteSets, Functions

CONSTANTS
  Page, NoPage,      \* tabs open on the link
  MaxGets,           \* bound: GETs of one page in flight
  Post,              \* bound: POSTs in flight
  FastInterval, SlowInterval, SwitchToSlowAfter, GiveUpAfter,
  PasswordLimit,     \* limit of dlTokenPassword
  MaxWindows         \* bound: windows of dlTokenPassword

ASSUME RecipientAssumption ==
  /\ NoPage \notin Page /\ IsFiniteSet(Post)
  /\ {FastInterval, SlowInterval, GiveUpAfter, MaxWindows} \subseteq Nat \ {0}
  /\ {SwitchToSlowAfter, PasswordLimit, MaxGets} \subseteq Nat

VARIABLES
  page,      \* page[p]: phase, timer, flags of the component
  get,       \* get[p][k]: GETs of p in flight, "sent" or answered with k
  post,      \* post[q]: a POST, at the await the API is at
  row,       \* what the file is to a recipient
  passed,    \* history: whether its bytes passed the checks
  secret,    \* whether it has a password
  verified,  \* history: passwords compared so far
  hits,      \* dlTokenPassword: requests let through in its window
  windows    \* history: its windows so far

vars == <<page, get, post, row, passed, secret, verified, hits, windows>>

fileVars == <<row, passed, secret>>
serverVars == <<fileVars, verified, hits, windows>>

Phase == {"unopened", "loading", "ready", "clickToDownload", "passwordRequired",
          "scanning", "expired", "invalid", "timedOut", "error"}

\* What fetchDownloadMetadata makes of an answer; a status it does not know
\* (429, 500) has a body without metadata.
Metadata == {"clickToDownload", "passwordRequired", "scanning", "expired",
             "invalid", "unknown"}

\* What requestDownloadUrl makes of one
UrlResult == {"signed", "wrongPassword", "expired", "invalid", "unknown"}

NoTimer == -1

NoGet == [k \in Metadata \cup {"sent"} |-> 0]

Closed == [phase |-> "unopened", elapsed |-> NoTimer, timedOut |-> FALSE,
           busy |-> {}, real |-> FALSE]
NoPost == [at |-> "none", page |-> NoPage, way |-> "click", right |-> FALSE,
           result |-> "invalid"]

RecipientTypeOK ==
  /\ page \in [Page -> [phase : Phase, elapsed : NoTimer..GiveUpAfter - 1,
                        timedOut : BOOLEAN, busy : SUBSET {"click", "password"},
                        real : BOOLEAN]]
  /\ get \in [Page -> [Metadata \cup {"sent"} -> Nat]]
  /\ post \in [Post -> [at : {"none", "sent", "verify", "answer"},
                        page : Page \cup {NoPage}, way : {"click", "password"},
                        right : BOOLEAN, result : UrlResult]]
  /\ row \in {"scanning", "ready", "expired", "unknown"}
  /\ passed \in BOOLEAN /\ secret \in BOOLEAN
  /\ verified \in Nat
  /\ hits \in 0..PasswordLimit
  /\ windows \in 1..MaxWindows

Init ==
  /\ page = [p \in Page |-> Closed]
  /\ get = [p \in Page |-> NoGet]
  /\ post = [q \in Post |-> NoPost]
  /\ row = "scanning"
  /\ passed = FALSE /\ secret \in BOOLEAN
  /\ verified = 0 /\ hits = 0 /\ windows = 1

-----------------------------------------------------------------------------
(* The page. *)

\* setPhase on page record pg: the effect of usePollUntil follows, which
\* starts a poll when the phase becomes `scanning` and clears it afterwards.
Showing(pg, phase, real) ==
  [pg EXCEPT !.phase = phase, !.real = real,
             !.elapsed = IF phase # "scanning" THEN NoTimer
                         ELSE IF pg.phase = "scanning" THEN @ ELSE 0]

\* The link is opened or reloaded: the component is new, what the old one had
\* in flight is answered to nobody, and load is called.
Open(p) ==
  /\ page' = [page EXCEPT ![p] = [Closed EXCEPT !.phase = "loading"]]
  /\ get' = [get EXCEPT ![p] = [NoGet EXCEPT !["sent"] = 1]]
  /\ post' = [q \in Post |->
       CASE post[q].page # p -> post[q]
         [] post[q].at = "answer" -> NoPost
         [] OTHER -> [post[q] EXCEPT !.page = NoPage]]
  /\ UNCHANGED <<serverVars>>

InFlight(p) == SumFunction(get[p])

SendGet(p) ==
  /\ InFlight(p) < MaxGets
  /\ get' = [get EXCEPT ![p]["sent"] = @ + 1]

Interval(elapsed) ==
  IF elapsed < SwitchToSlowAfter THEN FastInterval ELSE SlowInterval

\* Mutant: the limit itself is not yet the limit.
GiveUpLater(pg) == [pg EXCEPT !.elapsed = GiveUpAfter]

\* tick once the time is up: setTimedOut re-renders, and its effect in the
\* page runs, only the first time.
GiveUp(pg) ==
  IF pg.timedOut THEN [pg EXCEPT !.elapsed = NoTimer]
  ELSE [Showing(pg, "timedOut", FALSE) EXCEPT !.timedOut = TRUE]

\* Mutant: the next timer is not armed.
TickOnce(p) ==
  /\ page[p].elapsed # NoTimer
  /\ SendGet(p)
  /\ page' = [page EXCEPT ![p].elapsed = NoTimer]
  /\ UNCHANGED <<post, serverVars>>

\* The timer fires: load is called, not awaited, and tick again.
Tick(p) ==
  LET elapsed == page[p].elapsed + Interval(page[p].elapsed) IN
  /\ page[p].elapsed # NoTimer
  /\ SendGet(p)
  /\ page' = [page EXCEPT ![p] =
       IF elapsed >= GiveUpAfter THEN GiveUp(@) ELSE [@ EXCEPT !.elapsed = elapsed]]
  /\ UNCHANGED <<post, serverVars>>

\* load resumes with an answer, in whatever phase the page is by then.
GetArrives(p, k) ==
  /\ get[p][k] > 0
  /\ page' = [page EXCEPT ![p] =
       IF k = "unknown" THEN Showing(@, "clickToDownload", FALSE)
       ELSE Showing(@, k, k \in {"clickToDownload", "passwordRequired"})]
  /\ get' = [get EXCEPT ![p][k] = @ - 1]
  /\ UNCHANGED <<post, serverVars>>

\* fetch rejects.
GetFails(p, k) ==
  /\ get[p][k] > 0
  /\ page' = [page EXCEPT ![p] = Showing(@, "error", FALSE)]
  /\ get' = [get EXCEPT ![p][k] = @ - 1]
  /\ UNCHANGED <<post, serverVars>>

Sends(p, way, right) ==
  /\ way \notin page[p].busy
  /\ page' = [page EXCEPT ![p].busy = @ \cup {way}]
  /\ \E q \in Post :
       /\ post[q] = NoPost
       /\ post' = [post EXCEPT ![q] =
            [NoPost EXCEPT !.at = "sent", !.page = p, !.way = way, !.right = right]]
  /\ UNCHANGED <<get, serverVars>>

\* handleDownloadClick: no password goes along.
Click(p) == page[p].phase = "clickToDownload" /\ Sends(p, "click", FALSE)

\* handlePasswordSubmit
Submit(p, right) == page[p].phase = "passwordRequired" /\ Sends(p, "password", right)

\* Mutant: `finally` is forgotten when the password was wrong.
UrlArrivesBusy(q) ==
  LET r == post[q]  p == post[q].page IN
  /\ r.at = "answer"
  /\ page' = IF r.result = "wrongPassword" THEN page ELSE [page EXCEPT ![p] =
       [Showing(@, IF r.result \in {"signed", "unknown"} THEN "ready" ELSE "invalid",
                r.result = "signed") EXCEPT !.busy = @ \ {r.way}]]
  /\ post' = [post EXCEPT ![q] = NoPost]
  /\ UNCHANGED <<get, serverVars>>

\* Any status requestDownloadUrl does not know is taken for a URL, and only the
\* password form knows a wrong password.
Shown(pg, r) ==
  [(CASE r.result \in {"signed", "unknown"} ->
           Showing(pg, "ready", r.result = "signed")
      [] r.result = "expired" -> Showing(pg, "expired", FALSE)
      [] r.result = "wrongPassword" /\ r.way = "password" -> pg
      [] OTHER -> Showing(pg, "invalid", FALSE))
   EXCEPT !.busy = @ \ {r.way}]

\* The handler resumes.
UrlArrives(q) ==
  /\ post[q].at = "answer"
  /\ post' = [post EXCEPT ![q] = NoPost]
  /\ page' = [page EXCEPT ![post[q].page] = Shown(@, post[q])]
  /\ UNCHANGED <<get, serverVars>>

\* The request is lost, or its answer.
PostFails(q) ==
  LET p == post[q].page IN
  /\ post[q].at \in {"sent", "answer"} /\ p # NoPage
  /\ page' = [page EXCEPT ![p] =
       [Showing(page[p], "error", FALSE) EXCEPT !.busy = @ \ {post[q].way}]]
  /\ post' = [post EXCEPT ![q] = NoPost]
  /\ UNCHANGED <<get, serverVars>>

-----------------------------------------------------------------------------
(* The API. *)

\* Mutant: a file that is being checked resolves like one that passed.
ResolvedEarly ==
  CASE row \in {"scanning", "ready"} /\ secret -> "passwordRequired"
    [] row \in {"scanning", "ready"} -> "clickToDownload"
    [] row = "expired" -> "expired"
    [] OTHER -> "invalid"

\* getMetadata, as fetchDownloadMetadata reads its status and body
Resolved ==
  CASE row = "scanning" -> "scanning"
    [] row = "ready" /\ secret -> "passwordRequired"
    [] row = "ready" /\ ~secret -> "clickToDownload"
    [] row = "expired" -> "expired"
    [] OTHER -> "invalid"

\* A 429 (dlToken, dlIp) or a 500 may come instead at any time.
ServeGet(p) ==
  /\ get[p]["sent"] > 0
  /\ \E k \in {Resolved, "unknown"} :
       get' = [get EXCEPT ![p]["sent"] = @ - 1, ![p][k] = @ + 1]
  /\ UNCHANGED <<page, post, serverVars>>

\* The answer is on its way, if its page is still there to take it.
Answers(q, result) ==
  post' = [post EXCEPT ![q] = IF @.page = NoPage THEN NoPost ELSE
             [@ EXCEPT !.at = "answer", !.right = FALSE, !.result = result]]

\* verifyPasswordAndGetUrl up to the password: 410 too while it is scanned
ResolveToken(q) ==
  \/ row = "ready" /\ post' = [post EXCEPT ![q].at = "verify"]
  \/ row \in {"scanning", "expired"} /\ Answers(q, "expired")
  \/ row = "unknown" /\ Answers(q, "invalid")

\* Mutant: the POST inherits `dlTokenPassword: true` of the controller's
\* @SkipThrottle.
CountedNever == UNCHANGED hits

\* DownloadThrottlerGuard: dlTokenPassword is for files that have a password,
\* which they have for life.  It lives in Redis, where a hit is one atomic step,
\* for all API replicas.
Counted ==
  IF secret THEN hits < PasswordLimit /\ hits' = hits + 1 ELSE UNCHANGED hits

\* A 429, of this counter or of dlIp, or a 500 may come instead.
ServePost(q) ==
  /\ post[q].at = "sent"
  /\ \/ Counted /\ ResolveToken(q)
     \/ UNCHANGED hits /\ Answers(q, "unknown")
  /\ UNCHANGED <<page, get, fileVars, verified, windows>>

\* The password is compared if there is one to compare, and the URL signed,
\* whatever the row is by now.
VerifyPassword(q) ==
  /\ post[q].at = "verify"
  /\ Answers(q, IF secret /\ ~post[q].right THEN "wrongPassword" ELSE "signed")
  /\ verified' = IF secret /\ post[q].way = "password" THEN verified + 1 ELSE verified
  /\ UNCHANGED <<page, get, fileVars, windows, hits>>

PostStep(q) == ServePost(q) \/ VerifyPassword(q) \/ UrlArrives(q)

-----------------------------------------------------------------------------
(* The file, as the rest of the system moves it. *)

OfFile(A) == A /\ UNCHANGED <<page, get, post, secret, verified, windows, hits>>

Verdict ==
  OfFile(/\ row = "scanning" /\ row' \in {"ready", "unknown"}
         /\ passed' = (row' = "ready"))

Expire == OfFile(row = "ready" /\ row' = "expired" /\ UNCHANGED passed)

\* Its owner deletes it, or its ghost is purged.
Delete == OfFile(row # "unknown" /\ row' = "unknown" /\ UNCHANGED passed)

\* The clock closes the window that the first hit opened, at any time here.
Window ==
  /\ windows < MaxWindows
  /\ hits > 0 /\ hits' = 0
  /\ windows' = windows + 1
  /\ UNCHANGED <<page, get, post, fileVars, verified>>

Next ==
  \/ \E p \in Page :
       \/ Open(p) \/ Tick(p) \/ Click(p) \/ ServeGet(p)
       \/ \E right \in BOOLEAN : Submit(p, right)
       \/ \E k \in Metadata : GetArrives(p, k)
       \/ \E k \in Metadata \cup {"sent"} : GetFails(p, k)
  \/ \E q \in Post : PostStep(q) \/ PostFails(q)
  \/ Verdict \/ Expire \/ Delete \/ Window

Spec == Init /\ [][Next]_vars

\* Fairness: the event loop of the browser fires its timers and every request
\* is served and answered, be it by an error.  Nobody has to click.
LiveSpec ==
  /\ Spec
  /\ \A p \in Page :
       /\ WF_vars(Tick(p)) /\ WF_vars(ServeGet(p))
       /\ \A k \in Metadata : WF_vars(GetArrives(p, k))
  /\ \A q \in Post : WF_vars(PostStep(q))

-----------------------------------------------------------------------------
(* Properties. *)

\* "seul rempart contre le brute-force": however many tabs ask at once,
\* reload, or have a request under way when a window closes, no more passwords
\* are compared than the windows allow, and a file without one uses none.
PasswordBudget ==
  /\ verified <= PasswordLimit * windows
  /\ ~secret => hits = 0

\* A page that shows the name of a file and offers it shows one that passed
\* the checks, whichever answers came late and whatever became of it since.
\* (What it offers after a 429 or a 500 has no name, see the README.)
OffersOnlyChecked ==
  \A p \in Page :
    /\ page[p].phase \in {"clickToDownload", "passwordRequired", "ready"}
    /\ page[p].real
    => passed

\* "would be a lie if nothing ever retried": a page that says a file is being
\* checked and to try again in a moment is about to ask again.
ScanningIsPolled ==
  \A p \in Page :
    page[p].phase = "scanning" =>
      page[p].elapsed # NoTimer \/ InFlight(p) > 0

\* Late answers heal: a page that says a file is being checked when it no
\* longer is says something else in the end, even if the answer that tells it
\* so is overtaken by an older one, unless its time was up.
VerdictIsShown ==
  \A p \in Page :
    page[p].phase = "scanning" /\ row # "scanning"
      ~> page[p].phase # "scanning" \/ page[p].timedOut

\* A button that a click disabled is enabled again.
ClickIsAnswered ==
  \A p \in Page, way \in {"click", "password"} :
    way \in page[p].busy ~> way \notin page[p].busy

=============================================================================
