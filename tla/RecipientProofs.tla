---------------------------- MODULE RecipientProofs ----------------------------
(***************************************************************************)
(* Proofs about Recipient, for any number of pages and requests, any       *)
(* intervals of the poll and any limits.                                   *)
(***************************************************************************)
EXTENDS Recipient, FiniteSetTheorems, TLAPS

PageRecord ==
  [phase : Phase, elapsed : NoTimer..GiveUpAfter - 1, timedOut : BOOLEAN,
   busy : SUBSET {"click", "password"}, real : BOOLEAN]

PostRecord ==
  [at : {"none", "sent", "verify", "answer"}, page : Page \cup {NoPage},
   way : {"click", "password"}, right : BOOLEAN, result : UrlResult]

\* setPhase keeps a page record one; what it says of the new phase
LEMMA ShowingType ==
  ASSUME NEW pg \in PageRecord, NEW phase \in Phase, NEW real \in BOOLEAN
  PROVE  /\ Showing(pg, phase, real) \in PageRecord
         /\ Showing(pg, phase, real).phase = phase
         /\ Showing(pg, phase, real).real = real
<1> DEFINE elapsed == IF phase # "scanning" THEN NoTimer
                       ELSE IF pg.phase = "scanning" THEN pg.elapsed ELSE 0
<1>1. elapsed \in NoTimer..GiveUpAfter - 1
  BY RecipientAssumption DEF PageRecord, NoTimer
<1>2. Showing(pg, phase, real)
        = [pg EXCEPT !.phase = phase, !.real = real, !.elapsed = elapsed]
  BY DEF Showing, PageRecord
<1> HIDE DEF elapsed
<1> QED  BY <1>1, <1>2 DEF PageRecord

\* A tick keeps a page record one; it offers nothing that was not offered.
LEMMA TickType ==
  ASSUME RecipientTypeOK, NEW p \in Page, Tick(p)
  PROVE  /\ page' \in [Page -> PageRecord]
         /\ page'[p].real => page'[p].phase = page[p].phase /\ page[p].real
<1> DEFINE pg == page[p]
           elapsed == pg.elapsed + Interval(pg.elapsed)
           new == IF elapsed >= GiveUpAfter THEN GiveUp(pg)
                  ELSE [pg EXCEPT !.elapsed = elapsed]
<1>1. pg \in PageRecord /\ page \in [Page -> PageRecord]
  BY DEF RecipientTypeOK, PageRecord
<1>2. page' = [page EXCEPT ![p] = new]
  BY DEF Tick
<1>3. elapsed \in Nat /\ pg.elapsed \in Int
  BY <1>1, RecipientAssumption DEF Tick, Interval, PageRecord, NoTimer
<1>4. new \in PageRecord /\ (new.real => new.phase = pg.phase /\ pg.real)
  <2>1. CASE elapsed < GiveUpAfter
    <3>1. new = [pg EXCEPT !.elapsed = elapsed]
      BY <2>1, <1>3, RecipientAssumption
    <3>2. elapsed \in NoTimer..GiveUpAfter - 1
      BY <2>1, <1>3, RecipientAssumption DEF NoTimer
    <3> QED  BY <1>1, <3>1, <3>2 DEF PageRecord
  <2>2. CASE elapsed >= GiveUpAfter
    <3> "timedOut" \in Phase
      BY DEF Phase
    <3>1. Showing(pg, "timedOut", FALSE) \in PageRecord
          /\ Showing(pg, "timedOut", FALSE).real = FALSE
      BY <1>1, ShowingType
    <3>2. NoTimer \in NoTimer..GiveUpAfter - 1
      BY RecipientAssumption DEF NoTimer
    <3> QED  BY <2>2, <1>1, <3>1, <3>2 DEF GiveUp, PageRecord
  <2> QED  BY <2>1, <2>2, <1>3, RecipientAssumption
<1> QED  BY <1>1, <1>2, <1>4

\* What the answer of a POST shows offers nothing, unless a URL was signed.
LEMMA ShownType ==
  ASSUME NEW pg \in PageRecord, NEW r \in PostRecord
  PROVE  /\ Shown(pg, r) \in PageRecord
         /\ Shown(pg, r).real /\ r.result # "signed" =>
              Shown(pg, r).phase = pg.phase /\ pg.real
<1>1. {"ready", "expired", "invalid"} \subseteq Phase
  BY DEF Phase
<1>2. CASE r.result \in {"signed", "unknown"}
  <2>1. Shown(pg, r) = [Showing(pg, "ready", r.result = "signed") EXCEPT !.busy = @ \ {r.way}]
    BY <1>2 DEF Shown
  <2>2. Showing(pg, "ready", r.result = "signed") \in PageRecord
        /\ Showing(pg, "ready", r.result = "signed").real = (r.result = "signed")
    BY <1>1, ShowingType
  <2> QED  BY <2>1, <2>2 DEF PageRecord
<1>3. CASE r.result = "expired"
  <2>1. Shown(pg, r) = [Showing(pg, "expired", FALSE) EXCEPT !.busy = @ \ {r.way}]
    BY <1>3 DEF Shown
  <2>2. Showing(pg, "expired", FALSE) \in PageRecord
        /\ Showing(pg, "expired", FALSE).real = FALSE
    BY <1>1, ShowingType
  <2> QED  BY <2>1, <2>2 DEF PageRecord
<1>4. CASE r.result = "wrongPassword" /\ r.way = "password"
  <2>1. Shown(pg, r) = [pg EXCEPT !.busy = @ \ {r.way}]
    BY <1>4 DEF Shown
  <2> QED  BY <2>1 DEF PageRecord
<1>5. CASE r.result \notin {"signed", "unknown", "expired"}
           /\ ~(r.result = "wrongPassword" /\ r.way = "password")
  <2>1. Shown(pg, r) = [Showing(pg, "invalid", FALSE) EXCEPT !.busy = @ \ {r.way}]
    BY <1>5 DEF Shown
  <2>2. Showing(pg, "invalid", FALSE) \in PageRecord
        /\ Showing(pg, "invalid", FALSE).real = FALSE
    BY <1>1, ShowingType
  <2> QED  BY <2>1, <2>2 DEF PageRecord
<1> QED  BY <1>2, <1>3, <1>4, <1>5

-----------------------------------------------------------------------------
(* Type correctness. *)

LEMMA AnswersType ==
  ASSUME RecipientTypeOK, NEW q \in Post, NEW result \in UrlResult, Answers(q, result)
  PROVE  /\ post' \in [Post -> PostRecord]
         /\ \A o \in Post \ {q} : post'[o] = post[o]
         /\ post'[q].at \in {"none", "answer"}
         /\ post'[q].at = "answer" => post'[q].result = result /\ post'[q].page # NoPage
<1>1. post \in [Post -> PostRecord] /\ NoPost \in PostRecord
  BY DEF RecipientTypeOK, PostRecord, NoPost, UrlResult
<1>2. [post[q] EXCEPT !.at = "answer", !.right = FALSE, !.result = result] \in PostRecord
  BY <1>1 DEF PostRecord
<1> QED  BY <1>1, <1>2 DEF Answers, PostRecord, NoPost

\* Which requests have an answer: none that its page no longer waits for
AnswersHavePages ==
  \A q \in Post : post[q].at = "answer" => post[q].page # NoPage

Typed == RecipientTypeOK /\ AnswersHavePages

LEMMA TypedInit == Init => Typed
<1>1. NoTimer \in NoTimer..GiveUpAfter - 1 /\ 1 \in 1..MaxWindows /\ 0 \in 0..PasswordLimit
  BY RecipientAssumption DEF NoTimer
<1>2. Closed \in PageRecord
  BY <1>1 DEF Closed, PageRecord, Phase
<1>3. NoGet \in [Metadata \cup {"sent"} -> Nat]
  BY DEF NoGet
<1>4. NoPost \in PostRecord /\ NoPost.at # "answer"
  BY DEF NoPost, PostRecord, UrlResult
<1> SUFFICES ASSUME Init PROVE Typed
  OBVIOUS
<1>5. /\ page \in [Page -> PageRecord] /\ post \in [Post -> PostRecord]
      /\ get \in [Page -> [Metadata \cup {"sent"} -> Nat]]
      /\ \A q \in Post : post[q].at # "answer"
  BY <1>2, <1>3, <1>4 DEF Init
<1> QED  BY <1>1, <1>5
   DEF Init, Typed, RecipientTypeOK, AnswersHavePages, PageRecord, PostRecord

LEMMA GetType ==
  ASSUME RecipientTypeOK, NEW p \in Page, NEW k \in Metadata \cup {"sent"}
  PROVE  /\ get[p] \in [Metadata \cup {"sent"} -> Nat]
         /\ [get EXCEPT ![p][k] = @ + 1] \in [Page -> [Metadata \cup {"sent"} -> Nat]]
         /\ get[p][k] > 0 =>
              [get EXCEPT ![p][k] = @ - 1] \in [Page -> [Metadata \cup {"sent"} -> Nat]]
<1> DEFINE Gets == Metadata \cup {"sent"}
<1> k \in Gets
  OBVIOUS
<1>0. get \in [Page -> [Gets -> Nat]]
  BY DEF RecipientTypeOK
<1> HIDE DEF Gets
<1>1. get \in [Page -> [Gets -> Nat]] /\ get[p] \in [Gets -> Nat] /\ get[p][k] \in Nat
  BY <1>0
<1>2. [get[p] EXCEPT ![k] = @ + 1] \in [Gets -> Nat]
  BY <1>1
<1>3. get[p][k] > 0 => [get[p] EXCEPT ![k] = @ - 1] \in [Gets -> Nat]
  BY <1>1
<1> QED  BY <1>1, <1>2, <1>3 DEF Gets

LEMMA PageMoves ==
  ASSUME Typed, NEW p \in Page,
         \/ Open(p) \/ Tick(p) \/ Click(p) \/ ServeGet(p)
         \/ \E right \in BOOLEAN : Submit(p, right)
         \/ \E k \in Metadata : GetArrives(p, k)
         \/ \E k \in Metadata \cup {"sent"} : GetFails(p, k)
  PROVE  Typed'
<1> USE DEF Typed
<1>1. /\ page \in [Page -> PageRecord] /\ post \in [Post -> PostRecord]
      /\ NoPost \in PostRecord /\ page[p] \in PageRecord
  BY DEF RecipientTypeOK, PageRecord, PostRecord, NoPost, UrlResult
<1> SUFFICES /\ page' \in [Page -> PageRecord] /\ post' \in [Post -> PostRecord]
             /\ get' \in [Page -> [Metadata \cup {"sent"} -> Nat]]
             /\ AnswersHavePages' /\ UNCHANGED serverVars
  BY DEF RecipientTypeOK, PageRecord, PostRecord, serverVars, fileVars
<1>2. CASE Open(p)
  <2>1. [Closed EXCEPT !.phase = "loading"] \in PageRecord
    <3>1. NoTimer \in NoTimer..GiveUpAfter - 1
      BY RecipientAssumption DEF NoTimer
    <3> QED  BY <3>1 DEF Closed, PageRecord, Phase
  <2>2. [NoGet EXCEPT !["sent"] = 1] \in [Metadata \cup {"sent"} -> Nat]
    BY DEF NoGet
  <2>3. post' \in [Post -> PostRecord]
    BY <1>1, <1>2 DEF Open, PostRecord
  <2>4. AnswersHavePages'
    BY <1>1, <1>2 DEF Open, AnswersHavePages, PostRecord, NoPost
  <2> QED  BY <1>1, <1>2, <2>1, <2>2, <2>3, <2>4 DEF Open, RecipientTypeOK
<1>3. CASE Tick(p)
  <2>1. get' \in [Page -> [Metadata \cup {"sent"} -> Nat]]
    BY <1>3, GetType DEF Tick, SendGet
  <2> QED  BY <1>1, <1>3, <2>1, TickType DEF Tick, AnswersHavePages
<1>4. ASSUME NEW way \in {"click", "password"}, NEW right \in BOOLEAN, Sends(p, way, right)
      PROVE  /\ page' \in [Page -> PageRecord] /\ post' \in [Post -> PostRecord]
             /\ get' = get /\ AnswersHavePages' /\ UNCHANGED serverVars
  <2>1. [page[p] EXCEPT !.busy = @ \cup {way}] \in PageRecord
    BY <1>1 DEF PageRecord
  <2>2. PICK q \in Post :
          post' = [post EXCEPT ![q] =
            [NoPost EXCEPT !.at = "sent", !.page = p, !.way = way, !.right = right]]
    BY <1>4 DEF Sends
  <2>3. [NoPost EXCEPT !.at = "sent", !.page = p, !.way = way, !.right = right]
          \in [at : {"sent"}, page : {p}, way : {way}, right : BOOLEAN, result : UrlResult]
    BY DEF NoPost, UrlResult
  <2>4. post' \in [Post -> PostRecord] /\ AnswersHavePages'
    BY <1>1, <2>2, <2>3 DEF PostRecord, AnswersHavePages
  <2> QED  BY <1>1, <1>4, <2>1, <2>4 DEF Sends
<1>5. CASE Click(p) \/ \E right \in BOOLEAN : Submit(p, right)
  <2>1. get \in [Page -> [Metadata \cup {"sent"} -> Nat]]
    BY DEF RecipientTypeOK
  <2> QED  BY <1>4, <1>5, <2>1 DEF Click, Submit
<1>6. CASE ServeGet(p)
  <2>1. Resolved \in Metadata /\ "unknown" \in Metadata /\ "sent" \notin Metadata
    BY DEF Resolved, Metadata
  <2>2. PICK k \in Metadata :
          get' = [get EXCEPT ![p]["sent"] = @ - 1, ![p][k] = @ + 1]
    BY <1>6, <2>1 DEF ServeGet
  <2>3. get'[p] \in [Metadata \cup {"sent"} -> Nat] /\ get' \in [Page -> [Metadata \cup {"sent"} -> Nat]]
    BY <1>6, <2>1, <2>2 DEF ServeGet, RecipientTypeOK
  <2> QED  BY <1>1, <1>6, <2>3 DEF ServeGet, AnswersHavePages
<1>7. ASSUME NEW k \in Metadata, GetArrives(p, k)
      PROVE  page' \in [Page -> PageRecord]
  <2>1. Metadata \ {"unknown"} \subseteq Phase /\ "clickToDownload" \in Phase
    BY DEF Metadata, Phase
  <2>2. /\ Showing(page[p], "clickToDownload", FALSE) \in PageRecord
        /\ k # "unknown" =>
             Showing(page[p], k, k \in {"clickToDownload", "passwordRequired"}) \in PageRecord
    <3> DEFINE real == k \in {"clickToDownload", "passwordRequired"}
    <3>1. real \in BOOLEAN /\ (k # "unknown" => k \in Phase)
      BY <2>1
    <3> HIDE DEF real
    <3>2. k # "unknown" => Showing(page[p], k, real) \in PageRecord
      BY <1>1, <3>1, ShowingType
    <3> QED  BY <1>1, <2>1, <3>2, ShowingType DEF real
  <2> QED  BY <1>1, <1>7, <2>2 DEF GetArrives
<1>8. ASSUME NEW k \in Metadata \cup {"sent"}, GetFails(p, k)
      PROVE  page' \in [Page -> PageRecord]
  <2>1. Showing(page[p], "error", FALSE) \in PageRecord
    BY <1>1, ShowingType DEF Phase
  <2> QED  BY <1>1, <1>8, <2>1 DEF GetFails
<1>9. CASE (\E k \in Metadata : GetArrives(p, k)) \/ (\E k \in Metadata \cup {"sent"} : GetFails(p, k))
  <2>1. PICK k \in Metadata \cup {"sent"} :
          get[p][k] > 0 /\ get' = [get EXCEPT ![p][k] = @ - 1]
    BY <1>9 DEF GetArrives, GetFails
  <2>2. get' \in [Page -> [Metadata \cup {"sent"} -> Nat]]
    BY <2>1, GetType
  <2>3. post' = post /\ UNCHANGED serverVars
    BY <1>9 DEF GetArrives, GetFails
  <2> QED  BY <1>1, <1>7, <1>8, <1>9, <2>2, <2>3 DEF AnswersHavePages
<1> QED  BY <1>2, <1>3, <1>5, <1>6, <1>9

LEMMA PostMoves ==
  ASSUME Typed, NEW q \in Post, PostStep(q) \/ PostFails(q)
  PROVE  Typed'
<1> USE DEF Typed
<1>1. /\ page \in [Page -> PageRecord] /\ post \in [Post -> PostRecord]
      /\ post[q] \in PostRecord /\ NoPost \in PostRecord
  BY DEF RecipientTypeOK, PageRecord, PostRecord, NoPost, UrlResult
<1>2. CASE ServePost(q) \/ VerifyPassword(q)
  <2>1. post' = [post EXCEPT ![q].at = "verify"] \/ \E result \in UrlResult : Answers(q, result)
    BY <1>2 DEF ServePost, ResolveToken, VerifyPassword, UrlResult
  <2>2. post' \in [Post -> PostRecord] /\ AnswersHavePages'
    <3>1. CASE post' = [post EXCEPT ![q].at = "verify"]
      BY <1>1, <3>1 DEF PostRecord, AnswersHavePages
    <3> QED  BY <2>1, <3>1, AnswersType DEF AnswersHavePages
  <2>3. hits' \in 0..PasswordLimit /\ verified' \in Nat
    BY <1>2, RecipientAssumption
       DEF ServePost, VerifyPassword, Counted, RecipientTypeOK
  <2> QED  BY <1>2, <2>2, <2>3
           DEF ServePost, VerifyPassword, RecipientTypeOK, PostRecord, fileVars
<1>3. CASE UrlArrives(q) \/ PostFails(q)
  <2> DEFINE p == post[q].page
  <2>1. p \in Page /\ page[p] \in PageRecord
    BY <1>1, <1>3 DEF UrlArrives, PostFails, AnswersHavePages, PostRecord
  <2>2. /\ UrlArrives(q) => page' = [page EXCEPT ![p] = Shown(page[p], post[q])]
        /\ PostFails(q) => page' = [page EXCEPT ![p] =
              [Showing(page[p], "error", FALSE) EXCEPT !.busy = @ \ {post[q].way}]]
    BY <1>1, <2>1 DEF UrlArrives, PostFails
  <2>3. Showing(page[p], "error", FALSE) \in PageRecord
    BY <2>1, ShowingType DEF Phase
  <2>4. [Showing(page[p], "error", FALSE) EXCEPT !.busy = @ \ {post[q].way}] \in PageRecord
    BY <2>3 DEF PageRecord
  <2>5. page' \in [Page -> PageRecord]
    BY <1>1, <1>3, <2>1, <2>2, <2>4, ShownType
  <2>6. post' = [post EXCEPT ![q] = NoPost] /\ UNCHANGED <<get, serverVars>>
    BY <1>3 DEF UrlArrives, PostFails
  <2>7. post' \in [Post -> PostRecord] /\ AnswersHavePages'
    BY <1>1, <2>6 DEF AnswersHavePages, NoPost
  <2> QED  BY <2>5, <2>6, <2>7
           DEF RecipientTypeOK, PageRecord, PostRecord, serverVars, fileVars
<1> QED  BY <1>2, <1>3 DEF PostStep

LEMMA TypedNext == Typed /\ [Next]_vars => Typed'
<1> SUFFICES ASSUME Typed, [Next]_vars PROVE Typed'
  OBVIOUS
<1>1. CASE UNCHANGED vars
  BY <1>1 DEF Typed, RecipientTypeOK, AnswersHavePages, vars
<1>2. CASE Verdict \/ Expire \/ Delete
  BY <1>2 DEF Typed, RecipientTypeOK, AnswersHavePages, Verdict, Expire, Delete, OfFile
<1>3. CASE Window
  <2>1. hits' \in 0..PasswordLimit /\ windows' \in 1..MaxWindows
    BY <1>3, RecipientAssumption DEF Typed, RecipientTypeOK, Window
  <2> QED  BY <1>3, <2>1 DEF Typed, RecipientTypeOK, AnswersHavePages, Window, fileVars
<1> QED  BY <1>1, <1>2, <1>3, PageMoves, PostMoves DEF Next

\* Every variable keeps its type: a late answer, a second time-out or a reload
\* leave neither a negative count of answers nor a timer past its limit.
THEOREM RecipientTypeCorrect == Spec => []RecipientTypeOK
<1>1. Spec => []Typed
  BY TypedInit, TypedNext, PTL DEF Spec
<1>2. Typed => RecipientTypeOK
  BY DEF Typed
<1> QED  BY <1>1, <1>2, PTL

-----------------------------------------------------------------------------
(* What did not pass is not offered. *)

Offers(pg) == pg.phase \in {"clickToDownload", "passwordRequired", "ready"} /\ pg.real

\* Nothing says that the file may be downloaded: not its row, no answer on its
\* way, no request past the test of the row, no page.
Withheld ==
  /\ row # "ready"
  /\ \A p \in Page :
       /\ \A k \in {"clickToDownload", "passwordRequired"} : ~(get[p][k] > 0)
       /\ ~Offers(page[p])
  /\ \A q \in Post : post[q].at # "verify" /\ (post[q].at = "answer" => post[q].result # "signed")

Checked == (passed \/ Withheld) /\ (passed => row # "scanning")

LEMMA CheckedInit == Init => Checked
BY DEF Init, Checked, Withheld, Offers, Closed, NoGet, NoPost, Metadata

LEMMA PageWithholds ==
  ASSUME Typed, Withheld, NEW p \in Page,
         \/ Open(p) \/ Tick(p) \/ Click(p) \/ ServeGet(p)
         \/ \E right \in BOOLEAN : Submit(p, right)
         \/ \E k \in Metadata : GetArrives(p, k)
         \/ \E k \in Metadata \cup {"sent"} : GetFails(p, k)
  PROVE  Withheld'
<1> DEFINE Gets == Metadata \cup {"sent"}
<1>1. /\ page \in [Page -> PageRecord] /\ page[p] \in PageRecord
      /\ post \in [Post -> PostRecord]
      /\ get \in [Page -> [Gets -> Nat]] /\ {"clickToDownload", "passwordRequired"} \subseteq Metadata
      /\ "sent" \notin Metadata
  BY DEF Typed, RecipientTypeOK, PageRecord, PostRecord, Metadata
<1>2. row' = row
  BY DEF Open, Tick, Click, Submit, Sends, ServeGet, GetArrives, GetFails, serverVars, fileVars
<1>3. CASE Open(p)
  <2>1. \A q \in Post : post'[q].at # "verify" /\ (post'[q].at = "answer" => post'[q].result # "signed")
    BY <1>1, <1>3 DEF Open, Withheld, PostRecord, NoPost
  <2>2. ~Offers([Closed EXCEPT !.phase = "loading"])
    BY DEF Offers, Closed
  <2>3. \A k \in {"clickToDownload", "passwordRequired"} : ~([NoGet EXCEPT !["sent"] = 1][k] > 0)
    BY <1>1 DEF NoGet
  <2> QED  BY <1>1, <1>2, <1>3, <2>1, <2>2, <2>3 DEF Open, Withheld
<1>4. CASE Tick(p)
  <2>1. ~Offers(page'[p]) /\ page' = [page EXCEPT ![p] = page'[p]]
    BY <1>1, <1>4, TickType DEF Typed, Tick, Withheld, Offers
  <2>2. \A o \in Page, k \in {"clickToDownload", "passwordRequired"} : get'[o][k] = get[o][k]
    BY <1>1, <1>4 DEF Tick, SendGet
  <2> QED  BY <1>1, <1>2, <1>4, <2>1, <2>2 DEF Tick, Withheld
<1>5. CASE Click(p) \/ \E right \in BOOLEAN : Submit(p, right)
  <2>1. PICK way \in {"click", "password"}, right \in BOOLEAN : Sends(p, way, right)
    BY <1>5 DEF Click, Submit
  <2>2. Offers(page'[p]) <=> Offers(page[p])
    BY <1>1, <2>1 DEF Sends, Offers, PageRecord
  <2>3. \A q \in Post : post'[q] = post[q] \/ post'[q].at = "sent"
    BY <1>1, <2>1 DEF Sends, NoPost
  <2> QED  BY <1>1, <1>2, <2>1, <2>2, <2>3 DEF Sends, Withheld
<1>6. CASE ServeGet(p)
  <2>1. PICK k \in Metadata \ {"clickToDownload", "passwordRequired"} :
          get' = [get EXCEPT ![p]["sent"] = @ - 1, ![p][k] = @ + 1]
    BY <1>6 DEF ServeGet, Withheld, Resolved, Metadata
  <2>2. \A o \in Page, j \in {"clickToDownload", "passwordRequired"} : get'[o][j] = get[o][j]
    BY <1>1, <2>1
  <2> QED  BY <1>2, <1>6, <2>2 DEF ServeGet, Withheld
<1>7. ASSUME NEW k \in Gets, GetArrives(p, k) \/ GetFails(p, k)
      PROVE  Withheld'
  <2>2. k \notin {"clickToDownload", "passwordRequired"}
    BY <1>7 DEF GetArrives, GetFails, Withheld
  <2>1. get' = [get EXCEPT ![p][k] = @ - 1]
    BY <1>7 DEF GetArrives, GetFails
  <2>3. \A o \in Page, j \in {"clickToDownload", "passwordRequired"} : get'[o][j] = get[o][j]
    BY <1>1, <2>1, <2>2
  <2>4. PICK phase \in Gets \cup {"error"} :
          page' = [page EXCEPT ![p] = Showing(page[p], phase, FALSE)]
    <3>1. CASE GetFails(p, k)
      BY <3>1 DEF GetFails
    <3>2. CASE GetArrives(p, k) /\ k = "unknown"
      BY <1>1, <3>2 DEF GetArrives
    <3>3. CASE GetArrives(p, k) /\ k # "unknown"
      <4> DEFINE real == k \in {"clickToDownload", "passwordRequired"}
      <4>1. real = FALSE
        BY <2>2
      <4>2. page' = [page EXCEPT ![p] = Showing(page[p], k, real)]
        BY <3>3, Zenon DEF GetArrives
      <4> HIDE DEF real
      <4> QED  BY <4>1, <4>2
    <3> QED  BY <1>7, <3>1, <3>2, <3>3
  <2>5. page'[p].real = FALSE /\ page' = [page EXCEPT ![p] = page'[p]]
    BY <1>1, <2>4 DEF Showing, PageRecord
  <2> QED  BY <1>1, <1>2, <1>7, <2>3, <2>5 DEF GetArrives, GetFails, Withheld, Offers
<1> QED  BY <1>3, <1>4, <1>5, <1>6, <1>7

LEMMA PostWithholds ==
  ASSUME Typed, Withheld, NEW q \in Post, PostStep(q) \/ PostFails(q)
  PROVE  Withheld'
<1>1. /\ page \in [Page -> PageRecord] /\ post \in [Post -> PostRecord]
      /\ post[q] \in PostRecord
  BY DEF Typed, RecipientTypeOK, PageRecord, PostRecord
<1>2. CASE ServePost(q) \/ VerifyPassword(q)
  <2>1. PICK result \in UrlResult \ {"signed"} : Answers(q, result)
    BY <1>2 DEF ServePost, ResolveToken, VerifyPassword, Withheld, UrlResult
  <2>2. \A o \in Post : post'[o].at # "verify" /\ (post'[o].at = "answer" => post'[o].result # "signed")
    BY <2>1, AnswersType DEF Typed, Withheld
  <2> QED  BY <1>2, <2>2 DEF ServePost, VerifyPassword, Withheld, fileVars
<1>3. CASE UrlArrives(q) \/ PostFails(q)
  <2> DEFINE p == post[q].page
  <2>1. p \in Page /\ page[p] \in PageRecord /\ ~Offers(page[p])
    BY <1>1, <1>3 DEF UrlArrives, PostFails, Typed, AnswersHavePages, PostRecord, Withheld
  <2>2. page' = [page EXCEPT ![p] = page'[p]] /\ ~Offers(page'[p])
    <3>1. CASE UrlArrives(q)
      <4>1. post[q].result # "signed" /\ page' = [page EXCEPT ![p] = Shown(page[p], post[q])]
        BY <1>1, <3>1 DEF UrlArrives, Withheld
      <4> QED  BY <1>1, <2>1, <4>1, ShownType DEF Offers
    <3>2. CASE PostFails(q)
      <4>1. page'[p].real = FALSE /\ page' = [page EXCEPT ![p] = page'[p]]
        BY <1>1, <2>1, <3>2 DEF PostFails, Showing, PageRecord
      <4> QED  BY <4>1 DEF Offers
    <3> QED  BY <1>3, <3>1, <3>2
  <2>3. post' = [post EXCEPT ![q] = NoPost] /\ get' = get /\ row' = row
    BY <1>3 DEF UrlArrives, PostFails, serverVars, fileVars
  <2>4. \A o \in Post : post'[o] = post[o] \/ post'[o].at = "none"
    BY <1>1, <2>3 DEF NoPost
  <2> QED  BY <1>1, <2>1, <2>2, <2>3, <2>4 DEF Withheld
<1> QED  BY <1>2, <1>3 DEF PostStep

LEMMA CheckedNext == Typed /\ Checked /\ [Next]_vars => Checked'
<1> SUFFICES ASSUME Typed, Checked, [Next]_vars PROVE Checked'
  OBVIOUS
<1>1. CASE UNCHANGED vars
  BY <1>1 DEF Checked, Withheld, vars
<1>2. CASE Verdict \/ Expire \/ Delete
  BY <1>2 DEF Checked, Withheld, Verdict, Expire, Delete, OfFile
<1>3. CASE Window
  BY <1>3 DEF Checked, Withheld, Window, fileVars
<1>4. CASE Next /\ ~(Verdict \/ Expire \/ Delete \/ Window)
  <2>1. row' = row /\ passed' = passed
    BY <1>4 DEF Next, Open, Tick, Click, Submit, Sends, ServeGet, GetArrives,
                GetFails, PostStep, ServePost, VerifyPassword, UrlArrives, PostFails,
                serverVars, fileVars
  <2>2. Withheld => Withheld'
    BY <1>4, PageWithholds, PostWithholds DEF Next
  <2> QED  BY <2>1, <2>2 DEF Checked
<1> QED  BY <1>1, <1>2, <1>3, <1>4 DEF Next

\* No page shows the name and the button of a file that did not pass, for any
\* number of tabs and requests and any order of the answers.
THEOREM PagesOfferChecked == Spec => []OffersOnlyChecked
<1>1. Spec => [](Typed /\ Checked)
  BY TypedInit, TypedNext, CheckedInit, CheckedNext, PTL DEF Spec
<1>2. Typed /\ Checked => OffersOnlyChecked
  BY DEF Checked, Withheld, Offers, OffersOnlyChecked, Typed
<1> QED  BY <1>1, <1>2, PTL

-----------------------------------------------------------------------------
(* The budget of passwords. *)

\* The requests let through whose password is still to be compared
Comparing == {q \in Post : post[q].at = "verify" /\ post[q].way = "password"}

\* Every comparison, made or to come, was a hit of its own.
Paid ==
  /\ secret => verified + Cardinality(Comparing) <= PasswordLimit * (windows - 1) + hits
  /\ ~secret => verified = 0 /\ hits = 0

LEMMA ComparingFinite == IsFiniteSet(Comparing) /\ Cardinality(Comparing) \in Nat
<1>1. Comparing \subseteq Post
  BY DEF Comparing
<1> QED  BY <1>1, RecipientAssumption, FS_Subset, FS_CardinalityType

LEMMA PaidInit == Init => Paid
<1> SUFFICES ASSUME Init PROVE Paid
  OBVIOUS
<1>1. Comparing = {}
  BY DEF Init, Comparing, NoPost
<1> QED  BY <1>1, FS_EmptySet, RecipientAssumption DEF Init, Paid

LEMMA PageMovesAreFree ==
  ASSUME Typed, NEW p \in Page,
         \/ Open(p) \/ Tick(p) \/ Click(p) \/ ServeGet(p)
         \/ \E right \in BOOLEAN : Submit(p, right)
         \/ \E k \in Metadata : GetArrives(p, k)
         \/ \E k \in Metadata \cup {"sent"} : GetFails(p, k)
  PROVE  Comparing' = Comparing /\ UNCHANGED <<secret, verified, hits, windows>>
<1>1. post \in [Post -> PostRecord]
  BY DEF Typed, RecipientTypeOK, PostRecord
<1>2. UNCHANGED <<secret, verified, hits, windows>>
  BY DEF Open, Tick, Click, Submit, Sends, ServeGet, GetArrives, GetFails, serverVars, fileVars
<1>3. CASE Open(p)
  BY <1>1, <1>2, <1>3 DEF Open, Comparing, NoPost, PostRecord
<1>4. CASE Click(p) \/ \E right \in BOOLEAN : Submit(p, right)
  <2>1. PICK way \in {"click", "password"}, right \in BOOLEAN : Sends(p, way, right)
    BY <1>4 DEF Click, Submit
  <2>2. \A q \in Post : post'[q] = post[q] \/ (post[q].at = "none" /\ post'[q].at = "sent")
    BY <1>1, <2>1 DEF Sends, NoPost
  <2> QED  BY <1>2, <2>2 DEF Comparing
<1>5. CASE UNCHANGED post
  BY <1>2, <1>5 DEF Comparing
<1> QED  BY <1>3, <1>4, <1>5 DEF Tick, ServeGet, GetArrives, GetFails

LEMMA PostMovesArePaid ==
  ASSUME Typed, Paid, NEW q \in Post, PostStep(q) \/ PostFails(q)
  PROVE  Paid'
<1>1. /\ post \in [Post -> PostRecord] /\ post[q] \in PostRecord
      /\ hits \in Nat /\ verified \in Nat /\ windows \in Nat \ {0}
  BY RecipientAssumption DEF Typed, RecipientTypeOK, PostRecord
<1> DEFINE n == Cardinality(Comparing)
           spent == PasswordLimit * (windows - 1)
<1>2. n \in Nat /\ spent \in Int /\ IsFiniteSet(Comparing)
  BY <1>1, ComparingFinite, RecipientAssumption
<1>3. ASSUME NEW result \in UrlResult, Answers(q, result)
      PROVE  Comparing' = Comparing \ {q}
  BY <1>1, <1>3, AnswersType DEF Typed, Comparing
<1>4. CASE ServePost(q)
  <2>1. windows' = windows /\ secret' = secret /\ verified' = verified /\ q \notin Comparing
    BY <1>4 DEF ServePost, fileVars, Comparing
  <2>2. CASE Counted /\ ResolveToken(q)
    <3>1. Comparing' \in {Comparing, Comparing \cup {q}}
      <4>1. CASE \E result \in UrlResult : Answers(q, result)
        BY <1>3, <2>1, <4>1
      <4>2. CASE post' = [post EXCEPT ![q].at = "verify"]
        BY <1>1, <4>2 DEF Comparing, PostRecord
      <4> QED  BY <2>2, <4>1, <4>2 DEF ResolveToken, UrlResult
    <3>2. Cardinality(Comparing') <= n + 1 /\ Cardinality(Comparing') \in Nat
      BY <1>2, <2>1, <3>1, FS_AddElement
    <3> HIDE DEF n, spent
    <3>3. PasswordLimit * (windows' - 1) = spent
      BY <2>1 DEF spent
    <3> QED  BY <1>1, <1>2, <2>1, <2>2, <3>2, <3>3 DEF Counted, Paid, n, spent
  <2>3. CASE UNCHANGED hits /\ Answers(q, "unknown")
    <3>1. Comparing' = Comparing
      BY <1>3, <2>1, <2>3 DEF UrlResult
    <3> QED  BY <2>1, <2>3, <3>1 DEF Paid
  <2> QED  BY <1>4, <2>2, <2>3 DEF ServePost
<1>5. CASE VerifyPassword(q)
  <2>1. /\ windows' = windows /\ secret' = secret /\ hits' = hits
        /\ verified' = IF secret /\ post[q].way = "password" THEN verified + 1 ELSE verified
        /\ q \in Comparing <=> post[q].way = "password"
        /\ Comparing' = Comparing \ {q}
    BY <1>3, <1>5 DEF VerifyPassword, fileVars, Comparing, UrlResult
  <2>2. Cardinality(Comparing') = IF q \in Comparing THEN n - 1 ELSE n
    BY <1>2, <2>1, FS_RemoveElement
  <2> HIDE DEF n
  <2> QED  BY <1>1, <1>2, <2>1, <2>2 DEF Paid, n
<1>6. CASE UrlArrives(q) \/ PostFails(q)
  <2>1. Comparing' = Comparing
    BY <1>1, <1>6 DEF UrlArrives, PostFails, Comparing, NoPost
  <2> QED  BY <1>6, <2>1 DEF UrlArrives, PostFails, Paid, serverVars, fileVars
<1> QED  BY <1>4, <1>5, <1>6 DEF PostStep

LEMMA PaidNext == Typed /\ Paid /\ [Next]_vars => Paid'
<1> SUFFICES ASSUME Typed, Paid, [Next]_vars PROVE Paid'
  OBVIOUS
<1>1. CASE UNCHANGED vars \/ Verdict \/ Expire \/ Delete
  <2>1. Comparing' = Comparing
    BY <1>1 DEF vars, Verdict, Expire, Delete, OfFile, Comparing
  <2> QED  BY <1>1, <2>1 DEF vars, Verdict, Expire, Delete, OfFile, Paid
<1>2. CASE Window
  <2>1. /\ Comparing' = Comparing /\ secret' = secret /\ verified' = verified
        /\ hits' = 0 /\ windows' = windows + 1
    BY <1>2 DEF Window, Comparing, fileVars
  <2>2. hits \in 0..PasswordLimit /\ windows \in Nat /\ verified \in Nat
    BY RecipientAssumption DEF Typed, RecipientTypeOK
  <2>3. PasswordLimit * (windows' - 1) = PasswordLimit * (windows - 1) + PasswordLimit
    BY <2>1, <2>2, RecipientAssumption
  <2>4. PasswordLimit * (windows - 1) \in Int /\ PasswordLimit \in Nat
    BY <2>2, RecipientAssumption
  <2> DEFINE spent == PasswordLimit * (windows - 1)
  <2> HIDE DEF spent
  <2>5. PasswordLimit * (windows' - 1) = spent + PasswordLimit /\ spent \in Int
    BY <2>3, <2>4 DEF spent
  <2>6. secret => verified + Cardinality(Comparing) <= spent + hits
    BY DEF Paid, spent
  <2>7. secret' => verified' + Cardinality(Comparing') <= PasswordLimit * (windows' - 1) + hits'
    BY <2>1, <2>2, <2>4, <2>5, <2>6, ComparingFinite
  <2> QED  BY <2>1, <2>7 DEF Paid
<1>3. CASE \E p \in Page :
             \/ Open(p) \/ Tick(p) \/ Click(p) \/ ServeGet(p)
             \/ \E right \in BOOLEAN : Submit(p, right)
             \/ \E k \in Metadata : GetArrives(p, k)
             \/ \E k \in Metadata \cup {"sent"} : GetFails(p, k)
  BY <1>3, PageMovesAreFree DEF Paid
<1> QED  BY <1>1, <1>2, <1>3, PostMovesArePaid DEF Next

\* "seul rempart contre le brute-force": no more passwords of one link are
\* compared than the limit allows in the windows that have begun, for any
\* number of tabs and of requests that ask at once.
THEOREM BudgetHolds == Spec => []PasswordBudget
<1>1. Spec => [](Typed /\ Paid)
  BY TypedInit, TypedNext, PaidInit, PaidNext, PTL DEF Spec
<1>2. Typed /\ Paid => PasswordBudget
  <2> SUFFICES ASSUME Typed, Paid PROVE PasswordBudget
    OBVIOUS
  <2>1. hits \in 0..PasswordLimit /\ windows \in Nat /\ verified \in Nat
    BY RecipientAssumption DEF Typed, RecipientTypeOK
  <2>2. PasswordLimit * windows = PasswordLimit * (windows - 1) + PasswordLimit
    BY <2>1, RecipientAssumption
  <2>3. PasswordLimit * windows \in Nat /\ PasswordLimit * (windows - 1) \in Int
    BY <2>1, RecipientAssumption
  <2> DEFINE spent == PasswordLimit * (windows - 1)
             budget == PasswordLimit * windows
  <2> HIDE DEF spent, budget
  <2>4. budget = spent + PasswordLimit /\ budget \in Nat /\ spent \in Int
    BY <2>2, <2>3 DEF spent, budget
  <2>5. secret => verified + Cardinality(Comparing) <= spent + hits
    BY DEF Paid, spent
  <2>6. verified <= budget
    BY <2>1, <2>4, <2>5, ComparingFinite, RecipientAssumption DEF Paid
  <2> QED  BY <2>6 DEF PasswordBudget, Paid, budget
<1> QED  BY <1>1, <1>2, PTL

=============================================================================
