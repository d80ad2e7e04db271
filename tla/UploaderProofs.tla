---------------------------- MODULE UploaderProofs ----------------------------
(***************************************************************************)
(* Proofs about Uploader, for any number of tabs, pages, sessions, files,  *)
(* parts and faults.                                                       *)
(*                                                                         *)
(* What a session, a page, App or Mon espace knows of an upload is never   *)
(* wrong later, only old: a row once drawn is never unborn again, a closed *)
(* multipart is never opened again, and while it is open its record stays  *)
(* unless the user cancelled it.  IInv says of each of them what it relies *)
(* on, in these terms.                                                     *)
(***************************************************************************)
EXTENDS UploaderInvariants, TLAPS

-----------------------------------------------------------------------------
(* What is never lost. *)

\* Everything that v says is still so in w.
Holds(v, w) ==
  /\ v.drawn \subseteq w.drawn /\ v.kept \subseteq w.kept
  /\ v.over \subseteq w.over /\ v.whole \subseteq w.whole
  /\ v.gaveUp \subseteq w.gaveUp

\* A row never goes back and a multipart is opened once; a record is removed
\* once its multipart is closed or its upload cancelled; an object is written
\* once, by the multipart: with that, nothing that was relied on is lost.
LEMMA FactsHold ==
  ASSUME gaveUp \subseteq gaveUp',
         \A i \in Drawn : row'[i] # "unborn" /\ (i \in multipart' => i \in multipart),
         \A i \in records \ records' : i \in gaveUp' \/ i \in Facts.over,
         \A i \in Facts.over : stored'[i] \in {stored[i], NoParts}
  PROVE  Holds(Facts, Facts')
BY DEF Holds, Facts, Drawn, OneFile

LEMMA SameFacts ==
  ASSUME UNCHANGED <<row, multipart, stored, records, gaveUp>>
  PROVE  Facts' = Facts /\ Holds(Facts, Facts')
BY DEF Holds, Facts, Drawn, OneFile

LEMMA SessionLater ==
  ASSUME NEW v, NEW w, Holds(v, w), NEW k, SessionOK(v, k)
  PROVE  SessionOK(w, k)
BY DEF SessionOK, Holds

LEMMA PageLater ==
  ASSUME NEW v, NEW w, Holds(v, w), NEW pg, NEW c, PageOK(v, pg, c)
  PROVE  PageOK(w, pg, c)
BY DEF PageOK, Holds

LEMMA TabLater ==
  ASSUME NEW v, NEW w, Holds(v, w), NEW r, TabOK(v, r)
  PROVE  TabOK(w, r)
BY DEF TabOK, Holds

-----------------------------------------------------------------------------
(* Steps of sessions, pages and tabs. *)

LEMMA RunningIs ==
  ASSUME SessionsOK, NEW s \in Session, session[s].at # "none"
  PROVE  /\ session[s] \in InSession /\ SessionOK(Facts, session[s])
         /\ session[s].page \in Page
BY DEF SessionsOK, IdleSession, InSession, SessionOK

\* Some sessions return, some go on to where their upload allows it.
LEMMA SessionsGoOn ==
  ASSUME SessionsOK, Holds(Facts, Facts'),
         session' = [s \in Session |-> session'[s]],
         \A s \in Session : \/ session'[s] \in {session[s], IdleSession}
                            \/ SessionOK(Facts', session'[s])
  PROVE  SessionsOK'
<1>1. \A s \in Session : session'[s] = IdleSession \/ SessionOK(Facts', session'[s])
  BY SessionLater DEF SessionsOK
<1>2. \A s \in Session : session'[s] \in InSession \cup {IdleSession}
  BY <1>1 DEF SessionOK
<1> QED  BY <1>1, <1>2 DEF SessionsOK

LEMMA SessionGoesOn ==
  ASSUME SessionsOK, Holds(Facts, Facts'), NEW s \in Session, NEW k,
         session' = [session EXCEPT ![s] = k],
         k = IdleSession \/ SessionOK(Facts', k)
  PROVE  SessionsOK'
<1>1. session' = [t \in Session |-> IF t = s THEN k ELSE session[t]]
  BY DEF SessionsOK
<1>2. session' = [t \in Session |-> session'[t]]
  BY <1>1
<1> QED  BY <1>1, <1>2, SessionsGoOn

LEMMA SameSessions ==
  ASSUME SessionsOK, Holds(Facts, Facts'), session' = session
  PROVE  SessionsOK'
<1>1. session' = [s \in Session |-> session'[s]]
  BY DEF SessionsOK
<1> QED  BY <1>1, SessionsGoOn

\* A session goes on with another label.
LEMMA GoesOK ==
  ASSUME SessionsOK, Holds(Facts, Facts'), NEW s \in Session, session[s].at # "none",
         NEW label \in {"put", "landed", "sent", "assembled", "unheard",
                        "completed", "forget", "poll", "drop"},
         Goes(s, label), session[s].id \in Facts'.kept,
         label \in {"assembled", "unheard", "completed", "forget", "poll", "drop"}
           => session[s].id \in Facts'.over,
         Parts <= 3 /\ label \in {"assembled", "unheard"}
           => session[s].id \in Facts'.whole,
         label = "sent" => Missing(session[s].list) = {}
  PROVE  SessionsOK'
<1> DEFINE k == [session[s] EXCEPT !.at = label]
<1>1. session[s] \in InSession /\ SessionOK(Facts, session[s])
  BY RunningIs
<1>2. /\ k \in InSession /\ k.at = label /\ k.id = session[s].id
      /\ k.list = session[s].list /\ k.file = session[s].file
  BY <1>1 DEF InSession, SessionLabel
<1>3. session' = [session EXCEPT ![s] = k]
  BY DEF Goes
<1> HIDE DEF k
<1>4. SessionOK(Facts', k)
  BY <1>1, <1>2 DEF SessionOK
<1> QED  BY <1>3, <1>4, SessionGoesOn

LEMMA ReturnsOK ==
  ASSUME SessionsOK, Holds(Facts, Facts'), NEW s \in Session, Returns(s)
  PROVE  SessionsOK'
BY SessionGoesOn DEF Returns

\* Pages show something else, of which their DELETE may be in flight, or not
\* any more.
LEMMA PagesGoOn ==
  ASSUME PagesOK, Holds(Facts, Facts'),
         page' = [p \in Page |-> page'[p]], cancel' = [p \in Page |-> cancel'[p]],
         \A p \in Page : \/ page'[p] = page[p] /\ cancel'[p] = cancel[p]
                         \/ PageOK(Facts', page'[p], cancel'[p])
  PROVE  PagesOK'
<1>1. \A p \in Page : PageOK(Facts', page'[p], cancel'[p])
  BY PageLater DEF PagesOK
<1>2. \A p \in Page : page'[p] \in PageRecord /\ cancel'[p] \in Request
  BY <1>1 DEF PageOK
<1> QED  BY <1>1, <1>2 DEF PagesOK

LEMMA PageGoesOn ==
  ASSUME PagesOK, Holds(Facts, Facts'), NEW p \in Page, NEW q,
         page' = [page EXCEPT ![p] = q], cancel' = cancel,
         PageOK(Facts', q, cancel[p])
  PROVE  PagesOK'
<1>1. page' = [r \in Page |-> IF r = p THEN q ELSE page[r]]
  BY DEF PagesOK
<1>2. /\ page' = [r \in Page |-> page'[r]] /\ cancel' = [r \in Page |-> cancel'[r]]
      /\ page'[p] = q /\ \A r \in Page \ {p} : page'[r] = page[r]
  BY <1>1 DEF PagesOK
<1>3. \A r \in Page : \/ page'[r] = page[r] /\ cancel'[r] = cancel[r]
                      \/ PageOK(Facts', page'[r], cancel'[r])
  BY <1>2
<1> QED  BY <1>2, <1>3, PagesGoOn

LEMMA SamePages ==
  ASSUME PagesOK, Holds(Facts, Facts'), UNCHANGED <<page, cancel>>
  PROVE  PagesOK'
<1>1. page' = [p \in Page |-> page'[p]] /\ cancel' = [p \in Page |-> cancel'[p]]
  BY DEF PagesOK
<1> QED  BY <1>1, PagesGoOn

\* A page that shows no upload in progress
LEMMA SettledPageOK ==
  ASSUME NEW w, NEW pg, NEW q \in PageRecord, NEW c, PageOK(w, pg, c),
         q.view \notin {"configuring", "uploading"}
  PROVE  PageOK(w, q, c)
BY DEF PageOK

LEMMA ShowingIs ==
  ASSUME NEW pg \in PageRecord, NEW view \in View, NEW i \in Id \cup {NoId}
  PROVE  /\ Showing(pg, view, i) \in PageRecord
         /\ pg.view = "left" => Showing(pg, view, i) = pg
         /\ pg.view # "left" =>
              Showing(pg, view, i).view = view /\ Showing(pg, view, i).id = i
BY DEF Showing, PageRecord

LEMMA ShowingOK ==
  ASSUME NEW w, NEW pg, NEW c, PageOK(w, pg, c),
         NEW view \in View \ {"configuring"}, NEW i \in Id \cup {NoId},
         view = "uploading" => i \in w.drawn
  PROVE  PageOK(w, Showing(pg, view, i), c)
<1>1. pg \in PageRecord
  BY DEF PageOK
<1>2. /\ Showing(pg, view, i) \in PageRecord
      /\ pg.view = "left" => Showing(pg, view, i) = pg
      /\ pg.view # "left" =>
           Showing(pg, view, i).view = view /\ Showing(pg, view, i).id = i
  BY <1>1, ShowingIs
<1> QED  BY <1>2 DEF PageOK

LEMMA CaughtOK ==
  ASSUME NEW w, NEW pg, NEW c, PageOK(w, pg, c)
  PROVE  PageOK(w, Caught(pg), c)
<1>1. "error" \in View \ {"configuring"} /\ NoId \in Id \cup {NoId}
  BY DEF View
<1>2. PageOK(w, Showing(pg, "error", NoId), c)
  BY <1>1, ShowingOK
<1> QED  BY <1>2 DEF Caught

\* The end of a transfer, or a new one
LEMMA XhrOK ==
  ASSUME NEW w, NEW pg, NEW c, PageOK(w, pg, c), NEW x \in SUBSET Session
  PROVE  PageOK(w, [pg EXCEPT !.xhr = x], c)
<1>1. /\ [pg EXCEPT !.xhr = x] \in PageRecord
      /\ [pg EXCEPT !.xhr = x].view = pg.view
      /\ [pg EXCEPT !.xhr = x].id = pg.id /\ [pg EXCEPT !.xhr = x].file = pg.file
  BY DEF PageOK, PageRecord
<1> QED  BY <1>1 DEF PageOK

LEMMA LeftPageOK ==
  ASSUME NEW w, NEW pg, NEW c, PageOK(w, pg, c), NEW stop \in BOOLEAN
  PROVE  PageOK(w, LeftPage(stop), c) /\ PageOK(w, LeftPage(stop), NoRequest)
<1>1. LeftPage(stop) \in PageRecord /\ LeftPage(stop).view = "left"
  BY DEF LeftPage, PageRecord, View
<1>2. NoRequest \in Request /\ NoRequest.at = "none"
  BY DEF NoRequest, Request
<1> QED  BY <1>1, <1>2 DEF PageOK

LEMMA ThrowsOK ==
  ASSUME SessionsOK, PagesOK, Holds(Facts, Facts'), NEW s \in Session,
         session[s].at # "none", Throws(s), cancel' = cancel
  PROVE  SessionsOK' /\ PagesOK'
<1> DEFINE p == session[s].page
<1>1. p \in Page /\ PageOK(Facts, page[p], cancel[p])
  BY RunningIs DEF PagesOK
<1>2. PageOK(Facts', Caught(page[p]), cancel[p])
  BY <1>1, PageLater, CaughtOK
<1>3. page' = [page EXCEPT ![p] = Caught(page[p])]
  BY DEF Throws
<1> HIDE DEF p
<1>4. PagesOK'
  BY <1>1, <1>2, <1>3, PageGoesOn
<1> QED  BY <1>4, ReturnsOK DEF Throws

LEMMA ThrowsGoneOK ==
  ASSUME SessionsOK, PagesOK, Holds(Facts, Facts'), NEW s \in Session,
         session[s].at # "none", ThrowsGone(s), cancel' = cancel,
         session[s].id \in Facts'.kept, session[s].id \in Facts'.over
  PROVE  SessionsOK' /\ PagesOK'
<1>1. CASE session[s].resume /\ Goes(s, "drop") /\ UNCHANGED page
  BY <1>1, GoesOK, SamePages
<1>2. CASE Throws(s)
  BY <1>2, ThrowsOK
<1> QED  BY <1>1, <1>2 DEF ThrowsGone

\* The loop over the parts sends one, completes the upload, or returns.
LEMMA LoopOK ==
  ASSUME SessionsOK, PagesOK, Holds(Facts, Facts'), NEW s \in Session,
         NEW k \in InSession, NEW pg, Loop(s, k, pg), cancel' = cancel,
         k.id \in Facts'.kept, Parts <= 3 => OfFile(k.list, k.file),
         PageOK(Facts', pg, cancel[k.page])
  PROVE  SessionsOK' /\ PagesOK'
<1> DEFINE sending == Missing(k.list) # {}
           l == [k EXCEPT !.at = IF sending THEN "put" ELSE "complete"]
           q == IF sending /\ pg.view # "left" THEN [pg EXCEPT !.xhr = {s}] ELSE pg
<1>1. k.page \in Page
  BY DEF InSession
<1>2. /\ l \in InSession /\ l.at \in {"put", "complete"}
      /\ l.at = "complete" => Missing(l.list) = {}
      /\ l.id = k.id /\ l.list = k.list /\ l.file = k.file
  BY DEF InSession, SessionLabel
<1>3. PageOK(Facts', q, cancel[k.page])
  BY XhrOK
<1>4. CASE /\ session' = [session EXCEPT ![s] = IdleSession]
           /\ page' = [page EXCEPT ![k.page] = pg]
  BY <1>1, <1>4, SessionGoesOn, PageGoesOn
<1>5. CASE /\ session' = [session EXCEPT ![s] = l]
           /\ page' = [page EXCEPT ![k.page] = q]
  <2> HIDE DEF l, q
  <2>1. SessionOK(Facts', l)
    BY <1>2 DEF SessionOK
  <2> QED  BY <1>1, <1>3, <1>5, <2>1, SessionGoesOn, PageGoesOn
<1> QED  BY <1>4, <1>5 DEF Loop

LEMMA TabGoesOn ==
  ASSUME TabsOK, Holds(Facts, Facts'), NEW t \in Tab, NEW r,
         tab' = [tab EXCEPT ![t] = r], TabOK(Facts', r)
  PROVE  TabsOK'
<1>1. \A u \in Tab : tab'[u] = IF u = t THEN r ELSE tab[u]
  BY DEF TabsOK
<1>2. \A u \in Tab : TabOK(Facts', tab'[u])
  BY <1>1, TabLater DEF TabsOK
<1>3. r \in TabRecord
  BY DEF TabOK
<1> QED  BY <1>2, <1>3 DEF TabsOK

LEMMA SameTabs ==
  ASSUME TabsOK, Holds(Facts, Facts'), tab' = tab
  PROVE  TabsOK'
BY TabLater DEF TabsOK

LEMMA NewTabOK ==
  ASSUME NEW w
  PROVE  TabOK(w, NewTab)
<1>1. NoRequest \in Request /\ NoRequest.at = "none"
  BY DEF NoRequest, Request
<1>2. /\ NewTab \in TabRecord /\ NewTab.target = NoId /\ NewTab.listed = {}
      /\ NewTab.abandon = NoRequest
  BY <1>1 DEF NewTab, TabRecord
<1> QED  BY <1>1, <1>2 DEF TabOK

\* App is told to forget what it would resume, by any of its pages.
LEMMA ConsumesOK ==
  ASSUME TabsOK, Holds(Facts, Facts'), NEW p \in Page, ConsumesTarget(p)
  PROVE  TabsOK'
<1> DEFINE r == [tab[TabOf[p]] EXCEPT !.target = NoId]
<1>1. TabOf[p] \in Tab
  BY UploaderAssumption
<1>2. TabOK(Facts', tab[TabOf[p]]) /\ tab[TabOf[p]] \in TabRecord
  BY <1>1, TabLater DEF TabsOK
<1>3. /\ r \in TabRecord /\ r.target = NoId /\ r.listed = tab[TabOf[p]].listed
      /\ r.abandon = tab[TabOf[p]].abandon
  BY <1>2 DEF TabRecord
<1>4. tab' = [tab EXCEPT ![TabOf[p]] = r]
  BY DEF ConsumesTarget
<1> HIDE DEF r
<1>5. TabOK(Facts', r)
  BY <1>2, <1>3 DEF TabOK
<1> QED  BY <1>1, <1>4, <1>5, TabGoesOn

\* The pages of tab t are left.
LEMMA PagesLeaveOK ==
  ASSUME PagesOK, Holds(Facts, Facts'), NEW t, cancel' = cancel,
         page' = [p \in Page |->
           IF TabOf[p] = t THEN LeftPage(page[p].stop) ELSE page[p]]
  PROVE  PagesOK'
<1>1. page' = [p \in Page |-> page'[p]] /\ cancel' = [p \in Page |-> cancel'[p]]
  BY DEF PagesOK
<1>2. ASSUME NEW p \in Page
      PROVE  PageOK(Facts', page'[p], cancel'[p])
  <2>1. PageOK(Facts', page[p], cancel[p]) /\ page[p].stop \in BOOLEAN
    BY PageLater DEF PagesOK, PageOK, PageRecord
  <2> QED  BY <2>1, LeftPageOK
<1> QED  BY <1>1, <1>2, PagesGoOn

LEMMA SignsOutOK ==
  ASSUME PagesOK, TabsOK, Holds(Facts, Facts'), NEW t \in Tab, SignsOut(t),
         cancel' = cancel
  PROVE  PagesOK' /\ TabsOK'
<1> DEFINE r == [tab[t] EXCEPT !.target = NoId, !.listed = {}]
<1>1. TabOK(Facts', tab[t]) /\ tab[t] \in TabRecord
  BY TabLater DEF TabsOK
<1>2. /\ r \in TabRecord /\ r.target = NoId /\ r.listed = {}
      /\ r.abandon = tab[t].abandon
  BY <1>1 DEF TabRecord
<1>3. tab' = [tab EXCEPT ![t] = r]
  BY DEF SignsOut, TabsOK
<1> HIDE DEF r
<1>4. TabOK(Facts', r)
  BY <1>1, <1>2 DEF TabOK
<1>5. TabsOK'
  BY <1>3, <1>4, TabGoesOn
<1> QED  BY <1>5, PagesLeaveOK DEF SignsOut

-----------------------------------------------------------------------------
(* Steps of the stores. *)

LEMMA FaultOK ==
  ASSUME faults \in 0..MaxFaults, Fault \/ UNCHANGED faults
  PROVE  faults' \in 0..MaxFaults
BY UploaderAssumption DEF Fault

LEMMA SameStores ==
  ASSUME StoresOK, UNCHANGED <<row, multipart, stored, records, gaveUp>>,
         Fault \/ UNCHANGED faults
  PROVE  StoresOK' /\ Holds(Facts, Facts')
<1>1. Facts' = Facts /\ Holds(Facts, Facts')
  BY SameFacts
<1>2. faults' \in 0..MaxFaults
  BY FaultOK DEF StoresOK
<1> QED  BY <1>1, <1>2 DEF StoresOK, ObjectIsOneFile, OneFile, Drawn

\* The server draws id i.
LEMMA DrawnOK ==
  ASSUME StoresOK, NEW i \in Id, row[i] = "unborn",
         row' = [row EXCEPT ![i] = "pending"], multipart' = multipart \cup {i},
         UNCHANGED <<stored, records, gaveUp>>, Fault \/ UNCHANGED faults
  PROVE  StoresOK' /\ Holds(Facts, Facts') /\ i \in Facts'.drawn
<1>1. row \in [Id -> {"unborn", "pending", "uploaded", "ready", "rejected", "gone"}]
      /\ records \subseteq Drawn
  BY DEF StoresOK
<1>2. /\ row' \in [Id -> {"unborn", "pending", "uploaded", "ready", "rejected", "gone"}]
      /\ row'[i] = "pending" /\ \A j \in Id \ {i} : row'[j] = row[j]
  BY <1>1
<1>3. Holds(Facts, Facts')
  <2>1. \A j \in Drawn : row'[j] # "unborn" /\ (j \in multipart' => j \in multipart)
    BY <1>2 DEF Drawn
  <2> QED  BY <2>1, FactsHold
<1>4. \A j \in Id : Missing(stored[j]) # Part => j \in Facts'.kept
  BY <1>3 DEF StoresOK, Holds
<1>5. Parts <= 3 => ObjectIsOneFile'
  BY <1>2 DEF StoresOK, ObjectIsOneFile, OneFile
<1>6. faults' \in 0..MaxFaults
  BY FaultOK DEF StoresOK
<1>7. records' \subseteq Drawn' /\ i \in Facts'.drawn
  BY <1>1, <1>2 DEF Drawn, Facts
<1>8. \A j \in multipart' : j \in Id /\ row'[j] = "pending"
  BY <1>2 DEF StoresOK
<1> QED  BY <1>2, <1>3, <1>4, <1>5, <1>6, <1>7, <1>8 DEF StoresOK

\* The multipart of i is closed, its bytes are deleted or its row goes on, in any
\* combination that leaves no multipart open behind a row that is not pending.
LEMMA CloseOK ==
  ASSUME StoresOK, NEW i \in Drawn,
         multipart' \in {multipart, multipart \ {i}},
         stored' \in {stored, [stored EXCEPT ![i] = NoParts]},
         NEW x \in {"uploaded", "ready", "rejected", "gone"},
         row' \in {row, [row EXCEPT ![i] = x]},
         row' # row => i \notin multipart',
         stored' = stored /\ row' # row /\ Parts <= 3 => OneFile(i) \/ x = "gone",
         stored' # stored => i \notin multipart',
         UNCHANGED <<records, gaveUp>>, Fault \/ UNCHANGED faults
  PROVE  StoresOK' /\ Holds(Facts, Facts')
<1>1. /\ row \in [Id -> {"unborn", "pending", "uploaded", "ready", "rejected", "gone"}]
      /\ stored \in [Id -> [Part -> ETag \cup {NoFile}]] /\ records \subseteq Drawn
      /\ i \in Id /\ row[i] # "unborn"
  BY DEF StoresOK, Drawn
<1>2. /\ row' \in [Id -> {"unborn", "pending", "uploaded", "ready", "rejected", "gone"}]
      /\ \A j \in Id \ {i} : row'[j] = row[j]
      /\ row'[i] \in {row[i], x} /\ row'[i] # "unborn"
      /\ row' = row \/ row'[i] = x
  BY <1>1
<1>3. /\ NoParts \in [Part -> ETag \cup {NoFile}] /\ Missing(NoParts) = Part
  BY DEF NoParts, Missing
<1>4. /\ stored' \in [Id -> [Part -> ETag \cup {NoFile}]]
      /\ \A j \in Id \ {i} : stored'[j] = stored[j]
      /\ stored' = stored \/ stored'[i] = NoParts
      /\ \A j \in Id : stored'[j] \in {stored[j], NoParts}
  BY <1>1, <1>3
<1>5. Holds(Facts, Facts')
  <2>1. \A j \in Drawn : row'[j] # "unborn" /\ (j \in multipart' => j \in multipart)
    BY <1>2 DEF Drawn
  <2>2. \A j \in Facts.over : stored'[j] \in {stored[j], NoParts}
    BY <1>4 DEF Facts, Drawn
  <2> QED  BY <2>1, <2>2, FactsHold
<1>6. \A j \in Id : Missing(stored'[j]) # Part => j \in Facts'.kept
  BY <1>3, <1>4, <1>5 DEF StoresOK, Holds
<1>7. ASSUME Parts <= 3
      PROVE  ObjectIsOneFile'
  <2> SUFFICES ASSUME NEW j \in Id, row'[j] \in {"uploaded", "ready", "rejected"}
               PROVE  OneFile(j)'
    BY DEF ObjectIsOneFile
  <2>1. CASE stored'[j] = NoParts
    BY <2>1 DEF OneFile
  <2>2. CASE stored'[j] # NoParts
    <3>1. stored'[j] = stored[j]
      BY <1>4, <2>2
    <3>2. OneFile(j)
      <4>1. CASE j # i \/ row' = row
        BY <1>2, <1>7, <4>1 DEF StoresOK, ObjectIsOneFile
      <4>2. CASE j = i /\ row' # row
        BY <1>2, <1>4, <1>7, <2>2, <4>2
      <4> QED  BY <4>1, <4>2
    <3> QED  BY <3>1, <3>2 DEF OneFile
  <2> QED  BY <2>1, <2>2
<1>8. faults' \in 0..MaxFaults
  BY FaultOK DEF StoresOK
<1>9. records' \subseteq Drawn'
  BY <1>1, <1>2 DEF Drawn
<1>10. \A j \in multipart' : j \in Id /\ row'[j] = "pending"
  BY <1>2 DEF StoresOK
<1> QED  BY <1>2, <1>4, <1>5, <1>6, <1>7, <1>8, <1>9, <1>10 DEF StoresOK

\* A record is written, or removed once its multipart is closed or its upload
\* cancelled.
LEMMA RecordOK ==
  ASSUME StoresOK, UNCHANGED <<row, multipart, stored, gaveUp, faults>>,
         NEW i \in Drawn,
         \/ records' = records \cup {i}
         \/ records' = records \ {i} /\ i \in gaveUp \cup Facts.over
  PROVE  StoresOK' /\ Holds(Facts, Facts')
<1>1. Holds(Facts, Facts')
  <2>1. \A j \in records \ records' : j \in gaveUp' \/ j \in Facts.over
    OBVIOUS
  <2> QED  BY <2>1, FactsHold DEF Drawn
<1>2. records' \subseteq Drawn' /\ Drawn' = Drawn
  BY DEF StoresOK, Drawn
<1>3. \A j \in Id : Missing(stored[j]) # Part => j \in Facts'.kept
  BY <1>1 DEF StoresOK, Holds
<1> QED  BY <1>1, <1>2, <1>3 DEF StoresOK, ObjectIsOneFile, OneFile


-----------------------------------------------------------------------------
(* The actions of a session. *)

LEMMA InitiatedOK ==
  ASSUME IInv, NEW s \in Session, NEW i \in Id, Initiated(s, i)
  PROVE  IInv'
<1> DEFINE p == session[s].page
           k == [session[s] EXCEPT !.at = "save", !.id = i]
<1>1. /\ SessionsOK /\ PagesOK /\ TabsOK /\ StoresOK
      /\ session[s].at = "initiate" /\ UNCHANGED <<tab, cancel>>
  BY DEF IInv, Initiated
<1>2. StoresOK' /\ Holds(Facts, Facts') /\ i \in Facts'.drawn
  BY <1>1, DrawnOK DEF Initiated
<1>3. TabsOK'
  BY <1>1, <1>2, SameTabs
<1>4. p \in Page /\ SessionOK(Facts, session[s]) /\ session[s] \in InSession
  BY <1>1, RunningIs
<1>5. CASE Stopped(s) /\ Returns(s) /\ UNCHANGED page
  BY <1>1, <1>2, <1>3, <1>5, ReturnsOK, SamePages DEF IInv
<1>6. CASE /\ session' = [session EXCEPT ![s] = k]
           /\ page' = [page EXCEPT ![p] = Showing(@, "uploading", i)]
  <2>1. k \in InSession /\ k.at = "save" /\ k.id = i
        /\ k.list = session[s].list /\ k.file = session[s].file
    BY <1>4 DEF InSession, SessionLabel
  <2> HIDE DEF k
  <2>2. SessionOK(Facts', k)
    BY <1>2, <1>4, <2>1 DEF SessionOK
  <2>3. PageOK(Facts', page[p], cancel[p])
    BY <1>1, <1>2, <1>4, PageLater DEF PagesOK
  <2>4. "uploading" \in View \ {"configuring"} /\ i \in Id \cup {NoId}
    BY DEF View
  <2>5. PageOK(Facts', Showing(page[p], "uploading", i), cancel[p])
    BY <1>2, <2>3, <2>4, ShowingOK
  <2>6. page' = [page EXCEPT ![p] = Showing(page[p], "uploading", i)]
    BY <1>6
  <2>7. SessionsOK'
    BY <1>1, <1>2, <1>6, <2>2, SessionGoesOn
  <2> HIDE DEF p
  <2>8. PagesOK'
    BY <1>1, <1>2, <1>4, <2>5, <2>6, PageGoesOn
  <2> QED  BY <1>2, <1>3, <2>7, <2>8 DEF IInv
<1> QED  BY <1>5, <1>6 DEF Initiated

LEMMA SavedOK ==
  ASSUME IInv, NEW s \in Session, Saved(s)
  PROVE  IInv'
<1> DEFINE p == session[s].page
<1>1. /\ SessionsOK /\ PagesOK /\ TabsOK /\ StoresOK
      /\ session[s].at = "save" /\ UNCHANGED <<tab, cancel>>
  BY DEF IInv, Saved
<1>2. p \in Page /\ SessionOK(Facts, session[s]) /\ session[s] \in InSession
  BY <1>1, RunningIs
<1>3. session[s].id \in Drawn
  BY <1>1, <1>2 DEF SessionOK, Facts
<1>4. StoresOK' /\ Holds(Facts, Facts')
  BY <1>1, <1>3, RecordOK DEF Saved, serverVars
<1>5. session[s].id \in Facts'.kept
  BY <1>3 DEF Saved, Facts, Drawn, serverVars
<1>6. PageOK(Facts', page[p], cancel[p])
  BY <1>1, <1>2, <1>4, PageLater DEF PagesOK
<1>7. Parts <= 3 => OfFile(session[s].list, session[s].file)
  BY <1>2 DEF SessionOK
<1>8. Loop(s, session[s], page[p])
  BY DEF Saved
<1>9. SessionsOK' /\ PagesOK'
  BY <1>1, <1>2, <1>4, <1>5, <1>6, <1>7, <1>8, LoopOK
<1> QED  BY <1>1, <1>4, <1>9, SameTabs DEF IInv

\* Of three parts at most, the sample leaves out none.
LEMMA SampleIsAll ==
  ASSUME Parts <= 3, NEW done \in SUBSET Part, NEW sample \in Sample(done)
  PROVE  sample = done
<1> DEFINE inner == {k \in done : \E j, l \in done : j < k /\ k < l}
<1>1. \A k \in inner : k = 2
  BY UploaderAssumption DEF Part
<1>2. CASE inner = {}
  BY <1>2 DEF Sample
<1>3. CASE inner # {}
  <2>1. PICK k \in inner : sample = (done \ inner) \cup {k}
    BY <1>3 DEF Sample
  <2> HIDE DEF inner
  <2>2. inner = {k}
    BY <1>1, <2>1
  <2>3. inner \subseteq done
    BY DEF inner
  <2> QED  BY <2>1, <2>2, <2>3
<1> QED  BY <1>2, <1>3

LEMMA PartsListedOK ==
  ASSUME IInv, NEW s \in Session, PartsListed(s)
  PROVE  IInv'
<1> DEFINE p == session[s].page
           i == session[s].id
           etags == stored[i]
           k == [session[s] EXCEPT !.list = etags]
<1>1. /\ SessionsOK /\ PagesOK /\ TabsOK /\ StoresOK
      /\ session[s].at = "parts" /\ UNCHANGED <<tab, cancel>>
  BY DEF IInv, PartsListed
<1>2. StoresOK' /\ Holds(Facts, Facts')
  BY <1>1, SameStores DEF PartsListed, serverVars
<1>3. p \in Page /\ SessionOK(Facts, session[s]) /\ session[s] \in InSession
  BY <1>1, RunningIs
<1>4. i \in Id /\ i \in Facts'.kept /\ i \in Facts'.drawn
  BY <1>1, <1>2, <1>3 DEF SessionOK, Facts, Drawn, Holds
<1>5. etags \in [Part -> ETag \cup {NoFile}]
  BY <1>1, <1>4 DEF StoresOK
<1>6. PageOK(Facts', page[p], cancel[p])
  BY <1>1, <1>2, <1>3, PageLater DEF PagesOK
<1>7. "uploading" \in View \ {"configuring"} /\ "error" \in View \ {"configuring"}
      /\ i \in Id \cup {NoId} /\ NoId \in Id \cup {NoId}
  BY <1>4 DEF View
<1>8. /\ PageOK(Facts', Showing(page[p], "uploading", i), cancel[p])
      /\ PageOK(Facts', Showing(page[p], "error", NoId), cancel[p])
  BY <1>4, <1>6, <1>7, ShowingOK
<1>9. /\ k \in InSession /\ k.page = p /\ k.id = i /\ k.list = etags
      /\ k.file = session[s].file
  BY <1>3, <1>5 DEF InSession
<1>10. PICK sample \in Sample(Part \ Missing(etags)) :
         \/ /\ ~Verified(sample, etags, session[s].file)
            /\ Returns(s)
            /\ page' = [page EXCEPT ![p] = Showing(page[p], "error", NoId)]
         \/ /\ Verified(sample, etags, session[s].file)
            /\ Loop(s, k, Showing(page[p], "uploading", i))
  BY DEF PartsListed
<1> HIDE DEF k, p
<1>11. CASE Returns(s) /\ page' = [page EXCEPT ![p] = Showing(page[p], "error", NoId)]
  BY <1>1, <1>2, <1>3, <1>8, <1>11, ReturnsOK, PageGoesOn, SameTabs DEF IInv
<1>12. CASE /\ Verified(sample, etags, session[s].file)
            /\ Loop(s, k, Showing(page[p], "uploading", i))
  <2>1. Parts <= 3 => OfFile(etags, session[s].file)
    <3>1. Parts <= 3 => sample = Part \ Missing(etags)
      BY SampleIsAll
    <3> QED  BY <1>12, <3>1 DEF Verified, Missing, OfFile
  <2>2. Parts <= 3 => OfFile(k.list, k.file)
    BY <1>9, <2>1
  <2>3. k.id \in Facts'.kept /\ cancel[k.page] = cancel[p]
    BY <1>4, <1>9
  <2> HIDE DEF i, etags
  <2>4. SessionsOK' /\ PagesOK'
    BY <1>1, <1>2, <1>8, <1>9, <1>12, <2>2, <2>3, LoopOK
  <2> QED  BY <1>1, <1>2, <2>4, SameTabs DEF IInv
<1> QED  BY <1>10, <1>11, <1>12

LEMMA PartsRefusedOK ==
  ASSUME IInv, NEW s \in Session, PartsRefused(s)
  PROVE  IInv'
<1>1. /\ SessionsOK /\ PagesOK /\ TabsOK /\ StoresOK
      /\ session[s].at = "parts" /\ UNCHANGED <<tab, cancel>>
  BY DEF IInv, PartsRefused
<1>2. StoresOK' /\ Holds(Facts, Facts')
  BY <1>1, SameStores DEF PartsRefused, serverVars
<1>3. session[s].id \in Facts'.kept /\ session[s].id \in Facts'.over
  <2>1. session[s].id \in Facts.kept
    BY <1>1, RunningIs DEF SessionOK
  <2>2. session[s].id \in Facts.over
    BY <2>1 DEF Facts, PartsRefused
  <2> QED  BY <1>2, <2>1, <2>2 DEF Holds
<1>4. SessionsOK' /\ PagesOK'
  BY <1>1, <1>2, <1>3, ThrowsGoneOK DEF PartsRefused
<1> QED  BY <1>1, <1>2, <1>4, SameTabs DEF IInv

LEMMA PutLandsOK ==
  ASSUME IInv, NEW s \in Session, PutLands(s)
  PROVE  IInv'
<1> DEFINE i == session[s].id
           n == NextPart(session[s].list)
           d == Digest(session[s].file, n)
<1>1. /\ SessionsOK /\ PagesOK /\ TabsOK /\ StoresOK
      /\ session[s].at = "put" /\ i \in multipart
      /\ stored' = [stored EXCEPT ![i][n] = d] /\ Goes(s, "landed")
      /\ UNCHANGED <<page, tab, cancel, records, gaveUp, row, multipart, faults>>
  BY DEF IInv, PutLands
<1>2. /\ session[s] \in InSession /\ i \in Facts.kept /\ i \in Id /\ row[i] = "pending"
  BY <1>1, RunningIs DEF SessionOK, StoresOK
<1>3. d \in ETag
  BY <1>2 DEF Digest, ETag, InSession
<1>4. stored \in [Id -> [Part -> ETag \cup {NoFile}]]
  BY <1>1 DEF StoresOK
<1> HIDE DEF i, n, d
<1>5. /\ stored' \in [Id -> [Part -> ETag \cup {NoFile}]]
      /\ \A j \in Id \ {i} : stored'[j] = stored[j]
  BY <1>1, <1>2, <1>3, <1>4
<1>6. Holds(Facts, Facts') /\ Facts'.kept = Facts.kept
  <2>1. \A j \in Facts.over : stored'[j] \in {stored[j], NoParts}
    BY <1>1, <1>5 DEF Facts, Drawn
  <2> QED  BY <1>1, <2>1, FactsHold DEF Drawn, Facts
<1>7. \A j \in Id : Missing(stored'[j]) # Part => j \in Facts'.kept
  BY <1>1, <1>2, <1>5, <1>6 DEF StoresOK
<1>8. Parts <= 3 => ObjectIsOneFile'
  BY <1>1, <1>2, <1>5 DEF StoresOK, ObjectIsOneFile, OneFile
<1>9. StoresOK'
  BY <1>1, <1>5, <1>7, <1>8 DEF StoresOK, Drawn
<1>10. SessionsOK'
  BY <1>1, <1>2, <1>6, GoesOK DEF i
<1> QED  BY <1>1, <1>6, <1>9, <1>10, SamePages, SameTabs DEF IInv

LEMMA PutAnsweredOK ==
  ASSUME IInv, NEW s \in Session, PutAnswered(s)
  PROVE  IInv'
<1> DEFINE p == session[s].page
           n == NextPart(session[s].list)
           d == Digest(session[s].file, n)
           k == [session[s] EXCEPT !.list[n] = d, !.tries = 0]
           q == [page[p] EXCEPT !.xhr = {}]
<1>1. /\ SessionsOK /\ PagesOK /\ TabsOK /\ StoresOK
      /\ session[s].at = "landed" /\ UNCHANGED <<tab, cancel>>
      /\ Loop(s, k, q)
  BY DEF IInv, PutAnswered
<1>2. StoresOK' /\ Holds(Facts, Facts')
  BY <1>1, SameStores DEF PutAnswered, serverVars
<1>3. p \in Page /\ SessionOK(Facts, session[s]) /\ session[s] \in InSession
  BY <1>1, RunningIs
<1>4. PageOK(Facts', q, cancel[p])
  BY <1>1, <1>2, <1>3, PageLater, XhrOK DEF PagesOK
<1>5. d \in ETag
  BY <1>3 DEF Digest, ETag, InSession
<1>6. /\ k \in InSession /\ k.page = p /\ k.id = session[s].id
      /\ k.file = session[s].file /\ k.list = [session[s].list EXCEPT ![n] = d]
  <2> DEFINE list == [session[s].list EXCEPT ![n] = d]
  <2> HIDE DEF d, n
  <2>1. list \in [Part -> ETag \cup {NoFile}] /\ 0 \in 0..PartAttempts - 1
    <3>1. session[s].list \in [Part -> ETag \cup {NoFile}]
      BY <1>3 DEF InSession
    <3>2. 0 \in 0..PartAttempts - 1
      BY UploaderAssumption
    <3> QED  BY <1>5, <3>1, <3>2
  <2> QED  BY <1>3, <2>1 DEF InSession
<1>7. session[s].list \in [Part -> ETag \cup {NoFile}]
      /\ (Parts <= 3 => OfFile(session[s].list, session[s].file))
  BY <1>3 DEF SessionOK, InSession
<1>8. Parts <= 3 => OfFile(k.list, k.file)
  <2> SUFFICES ASSUME Parts <= 3, NEW j \in Part
               PROVE  k.list[j] \in {NoFile, Digest(k.file, j)}
    BY DEF OfFile
  <2> HIDE DEF k
  <2> QED  BY <1>6, <1>7 DEF OfFile
<1>9. k.id \in Facts'.kept
  BY <1>1, <1>2, <1>3, <1>6 DEF SessionOK, Holds
<1> HIDE DEF k, q, p
<1>10. SessionsOK' /\ PagesOK'
  BY <1>1, <1>2, <1>4, <1>6, <1>8, <1>9, LoopOK
<1> QED  BY <1>1, <1>2, <1>10, SameTabs DEF IInv

LEMMA PutFailsOK ==
  ASSUME IInv, NEW s \in Session, PutFails(s)
  PROVE  IInv'
<1> DEFINE p == session[s].page
           k == [session[s] EXCEPT !.at = "backoff", !.tries = @ + 1]
           q == [page[p] EXCEPT !.xhr = {}]
<1>1. /\ SessionsOK /\ PagesOK /\ TabsOK /\ StoresOK
      /\ session[s].at \in {"put", "landed"} /\ UNCHANGED <<tab, cancel>>
      /\ Fault \/ UNCHANGED faults
  BY DEF IInv, PutFails, PutRefused
<1>2. StoresOK' /\ Holds(Facts, Facts')
  BY <1>1, SameStores DEF PutFails, serverVars
<1>3. p \in Page /\ SessionOK(Facts, session[s]) /\ session[s] \in InSession
  BY <1>1, RunningIs
<1>4. PageOK(Facts', q, cancel[p])
  BY <1>1, <1>2, <1>3, PageLater, XhrOK DEF PagesOK
<1>5. CASE /\ session[s].tries < PartAttempts - 1
           /\ session' = [session EXCEPT ![s] = k]
           /\ page' = [page EXCEPT ![p] = q]
  <2>1. session[s].tries + 1 \in 0..PartAttempts - 1
    BY <1>3, <1>5, UploaderAssumption DEF InSession
  <2>2. k \in InSession /\ k.at = "backoff" /\ k.id = session[s].id
        /\ k.list = session[s].list /\ k.file = session[s].file
    BY <1>3, <2>1 DEF InSession, SessionLabel
  <2>3. SessionOK(Facts, session[s]) /\ session[s].at \in {"put", "landed"}
    BY <1>1, <1>3
  <2> HIDE DEF k, q, p
  <2>4. SessionOK(Facts', k)
    BY <1>2, <2>2, <2>3 DEF SessionOK, Holds
  <2>5. SessionsOK' /\ PagesOK'
    BY <1>1, <1>2, <1>3, <1>4, <1>5, <2>4, SessionGoesOn, PageGoesOn
  <2> QED  BY <1>1, <1>2, <2>5, SameTabs DEF IInv
<1>6. CASE Returns(s) /\ page' = [page EXCEPT ![p] = Caught(q)]
  <2> HIDE DEF q, p
  <2>1. PageOK(Facts', Caught(q), cancel[p])
    BY <1>4, CaughtOK
  <2>2. PagesOK'
    BY <1>1, <1>2, <1>3, <1>6, <2>1, PageGoesOn
  <2> QED  BY <1>1, <1>2, <1>6, <2>2, ReturnsOK, SameTabs DEF IInv
<1> QED  BY <1>5, <1>6 DEF PutFails

LEMMA BackoffEndsOK ==
  ASSUME IInv, NEW s \in Session, BackoffEnds(s)
  PROVE  IInv'
<1> DEFINE p == session[s].page
<1>1. /\ SessionsOK /\ PagesOK /\ TabsOK /\ StoresOK
      /\ session[s].at = "backoff" /\ UNCHANGED <<tab, cancel>>
      /\ Loop(s, session[s], page[p])
  BY DEF IInv, BackoffEnds
<1>2. StoresOK' /\ Holds(Facts, Facts')
  BY <1>1, SameStores DEF BackoffEnds, serverVars
<1>3. p \in Page /\ SessionOK(Facts, session[s]) /\ session[s] \in InSession
  BY <1>1, RunningIs
<1>4. PageOK(Facts', page[p], cancel[p])
  BY <1>1, <1>2, <1>3, PageLater DEF PagesOK
<1>5. session[s].id \in Facts'.kept
      /\ (Parts <= 3 => OfFile(session[s].list, session[s].file))
  BY <1>1, <1>2, <1>3 DEF SessionOK, Holds
<1>6. SessionsOK' /\ PagesOK'
  BY <1>1, <1>2, <1>3, <1>4, <1>5, LoopOK
<1> QED  BY <1>1, <1>2, <1>6, SameTabs DEF IInv


\* The object is that of the file of the session, whose parts are all of it.
LEMMA CompletesMultipartOK ==
  ASSUME IInv, NEW s \in Session, CompletesMultipart(s)
  PROVE  IInv'
<1> DEFINE i == session[s].id
<1>1. /\ SessionsOK /\ PagesOK /\ TabsOK /\ StoresOK
      /\ session[s].at \in {"complete", "sent"} /\ i \in multipart
      /\ stored[i] = session[s].list /\ multipart' = multipart \ {i}
      /\ UNCHANGED <<page, tab, cancel, records, gaveUp, row, stored, faults>>
  BY DEF IInv, CompletesMultipart
<1>2. SessionOK(Facts, session[s]) /\ session[s] \in InSession
  BY <1>1, RunningIs
<1>3. i \in Facts.kept /\ i \in Drawn
  BY <1>1, <1>2 DEF SessionOK, Facts
<1>4. StoresOK' /\ Holds(Facts, Facts')
  BY <1>1, <1>3, CloseOK
<1>5. Parts <= 3 => OneFile(i)
  <2> SUFFICES ASSUME Parts <= 3
               PROVE  \E x \in Candidate : \A k \in Part : stored[i][k] = Digest(x, k)
    BY DEF OneFile
  <2>1. session[s].file \in Candidate
    BY <1>2 DEF InSession
  <2>2. \A k \in Part : stored[i][k] = Digest(session[s].file, k)
    BY <1>1, <1>2 DEF SessionOK, OfFile, Missing
  <2> QED  BY <2>1, <2>2
<1>6. /\ i \in Facts'.kept /\ i \in Facts'.over
      /\ Parts <= 3 => i \in Facts'.whole
  BY <1>1, <1>3, <1>4, <1>5 DEF Holds, Facts, Drawn, OneFile
<1>7. SessionsOK'
  BY <1>1, <1>4, <1>6, GoesOK DEF CompletesMultipart
<1> QED  BY <1>1, <1>4, <1>7, SamePages, SameTabs DEF IInv

LEMMA CompleteRefusedOK ==
  ASSUME IInv, NEW s \in Session, CompleteRefused(s)
  PROVE  IInv'
<1>1. /\ SessionsOK /\ PagesOK /\ TabsOK /\ StoresOK
      /\ session[s].at \in {"complete", "sent"} /\ UNCHANGED <<tab, cancel>>
  BY DEF IInv, CompleteRefused
<1>2. StoresOK' /\ Holds(Facts, Facts')
  BY <1>1, SameStores DEF CompleteRefused, serverVars
<1>3. session[s].id \in Facts.kept
  BY <1>1, RunningIs DEF SessionOK
<1>4. CASE row[session[s].id] # "pending" /\ ThrowsGone(s)
  <2>1. session[s].id \in Facts.over
    BY <1>1, <1>3, <1>4 DEF Facts, StoresOK
  <2>2. session[s].id \in Facts'.kept /\ session[s].id \in Facts'.over
    BY <1>2, <1>3, <2>1 DEF Holds
  <2>3. SessionsOK' /\ PagesOK'
    BY <1>1, <1>2, <1>4, <2>2, ThrowsGoneOK
  <2> QED  BY <1>1, <1>2, <2>3, SameTabs DEF IInv
<1>5. CASE Throws(s)
  BY <1>1, <1>2, <1>5, ThrowsOK, SameTabs DEF IInv
<1>6. CASE Returns(s) /\ UNCHANGED page
  BY <1>1, <1>2, <1>6, ReturnsOK, SamePages, SameTabs DEF IInv
<1> QED  BY <1>4, <1>5, <1>6 DEF CompleteRefused

LEMMA MarksUploadedOK ==
  ASSUME IInv, NEW s \in Session, MarksUploaded(s)
  PROVE  IInv'
<1> DEFINE i == session[s].id
<1>1. /\ SessionsOK /\ PagesOK /\ TabsOK /\ StoresOK
      /\ session[s].at \in {"assembled", "unheard"}
      /\ row' \in {row, [row EXCEPT ![i] = "uploaded"]}
      /\ UNCHANGED <<tab, cancel, records, gaveUp, multipart, stored, faults>>
  BY DEF IInv, MarksUploaded
<1>2. SessionOK(Facts, session[s])
  BY <1>1, RunningIs
<1>3. /\ i \in Facts.kept /\ i \in Facts.over
      /\ Parts <= 3 => i \in Facts.whole
  BY <1>1, <1>2 DEF SessionOK
<1>4. /\ i \in Drawn /\ i \notin multipart
      /\ Parts <= 3 => OneFile(i)
  BY <1>3 DEF Facts
<1>5. StoresOK' /\ Holds(Facts, Facts')
  BY <1>1, <1>4, CloseOK
<1>6. i \in Facts'.kept /\ i \in Facts'.over
  BY <1>3, <1>5 DEF Holds
<1>7. CASE session[s].at = "assembled" /\ Goes(s, "completed") /\ UNCHANGED page
  <2>1. SessionsOK'
    BY <1>1, <1>5, <1>6, <1>7, GoesOK
  <2> QED  BY <1>1, <1>5, <1>7, <2>1, SamePages, SameTabs DEF IInv
<1>8. CASE Returns(s) /\ UNCHANGED page
  BY <1>1, <1>5, <1>8, ReturnsOK, SamePages, SameTabs DEF IInv
<1>9. CASE Throws(s)
  BY <1>1, <1>5, <1>9, ThrowsOK, SameTabs DEF IInv
<1> QED  BY <1>7, <1>8, <1>9 DEF MarksUploaded

LEMMA CompleteAnsweredOK ==
  ASSUME IInv, NEW s \in Session, CompleteAnswered(s)
  PROVE  IInv'
<1>1. /\ SessionsOK /\ PagesOK /\ TabsOK /\ StoresOK
      /\ session[s].at = "completed" /\ UNCHANGED <<page, tab, cancel>>
  BY DEF IInv, CompleteAnswered
<1>2. StoresOK' /\ Holds(Facts, Facts')
  BY <1>1, SameStores DEF CompleteAnswered, serverVars
<1>3. session[s].id \in Facts'.kept /\ session[s].id \in Facts'.over
  BY <1>1, <1>2, RunningIs DEF SessionOK, Holds
<1>4. SessionsOK'
  BY <1>1, <1>2, <1>3, GoesOK DEF CompleteAnswered
<1> QED  BY <1>1, <1>2, <1>4, SamePages, SameTabs DEF IInv

LEMMA ForgottenOK ==
  ASSUME IInv, NEW s \in Session, Forgotten(s)
  PROVE  IInv'
<1> DEFINE p == session[s].page
<1>1. /\ SessionsOK /\ PagesOK /\ TabsOK /\ StoresOK
      /\ session[s].at = "forget" /\ cancel' = cancel /\ Goes(s, "poll")
      /\ page' = [page EXCEPT ![p] = Showing(page[p], "scanning", NoId)]
  BY DEF IInv, Forgotten
<1>2. p \in Page /\ SessionOK(Facts, session[s])
  BY <1>1, RunningIs
<1>3. session[s].id \in Facts.kept /\ session[s].id \in Facts.over
      /\ session[s].id \in Drawn
  BY <1>1, <1>2 DEF SessionOK, Facts
<1>4. StoresOK' /\ Holds(Facts, Facts')
  BY <1>1, <1>3, RecordOK DEF Forgotten, serverVars
<1>5. SessionsOK'
  <2>1. session[s].id \in Facts'.kept /\ session[s].id \in Facts'.over
    BY <1>3, <1>4 DEF Holds
  <2> QED  BY <1>1, <1>4, <2>1, GoesOK
<1>6. "scanning" \in View \ {"configuring"} /\ NoId \in Id \cup {NoId}
  BY DEF View
<1> HIDE DEF p
<1>7. PageOK(Facts', Showing(page[p], "scanning", NoId), cancel[p])
  BY <1>1, <1>2, <1>4, <1>6, PageLater, ShowingOK DEF PagesOK
<1>8. PagesOK'
  BY <1>1, <1>2, <1>4, <1>7, PageGoesOn
<1>9. TabsOK'
  <2>1. ConsumesTarget(p) \/ tab' = tab
    BY DEF Forgotten, p
  <2> QED  BY <1>1, <1>2, <1>4, <2>1, ConsumesOK, SameTabs
<1> QED  BY <1>4, <1>5, <1>8, <1>9 DEF IInv

LEMMA PollEndsOK ==
  ASSUME IInv, NEW s \in Session, PollEnds(s)
  PROVE  IInv'
<1> DEFINE p == session[s].page
<1>1. /\ SessionsOK /\ PagesOK /\ TabsOK /\ StoresOK
      /\ session[s].at = "poll" /\ UNCHANGED <<tab, cancel>>
  BY DEF IInv, PollEnds
<1>2. StoresOK' /\ Holds(Facts, Facts')
  BY <1>1, SameStores DEF PollEnds, serverVars
<1>3. p \in Page /\ SessionOK(Facts, session[s])
  BY <1>1, RunningIs
<1>4. CASE Returns(s) /\ page' = [page EXCEPT ![p] = Showing(page[p], "done", NoId)]
  <2>1. "done" \in View \ {"configuring"} /\ NoId \in Id \cup {NoId}
    BY DEF View
  <2> HIDE DEF p
  <2>2. PageOK(Facts', Showing(page[p], "done", NoId), cancel[p])
    BY <1>1, <1>2, <1>3, <2>1, PageLater, ShowingOK DEF PagesOK
  <2>3. PagesOK'
    BY <1>1, <1>2, <1>3, <1>4, <2>2, PageGoesOn
  <2> QED  BY <1>1, <1>2, <1>4, <2>3, ReturnsOK, SameTabs DEF IInv
<1>5. CASE Throws(s)
  BY <1>1, <1>2, <1>5, ThrowsOK, SameTabs DEF IInv
<1>6. CASE ThrowsGone(s)
  <2>1. session[s].id \in Facts'.kept /\ session[s].id \in Facts'.over
    BY <1>1, <1>2, <1>3 DEF SessionOK, Holds
  <2>2. SessionsOK' /\ PagesOK'
    BY <1>1, <1>2, <1>6, <2>1, ThrowsGoneOK
  <2> QED  BY <1>1, <1>2, <2>2, SameTabs DEF IInv
<1> QED  BY <1>4, <1>5, <1>6 DEF PollEnds

LEMMA DroppedOK ==
  ASSUME IInv, NEW s \in Session, Dropped(s)
  PROVE  IInv'
<1> DEFINE p == session[s].page
<1>1. /\ SessionsOK /\ PagesOK /\ TabsOK /\ StoresOK
      /\ session[s].at = "drop" /\ cancel' = cancel /\ Returns(s)
      /\ page' = [page EXCEPT ![p] = Showing(page[p], "error", NoId)]
      /\ ConsumesTarget(p)
  BY DEF IInv, Dropped
<1>2. p \in Page /\ SessionOK(Facts, session[s])
  BY <1>1, RunningIs
<1>3. session[s].id \in Facts.over /\ session[s].id \in Drawn
  BY <1>1, <1>2 DEF SessionOK, Facts
<1>4. StoresOK' /\ Holds(Facts, Facts')
  BY <1>1, <1>3, RecordOK DEF Dropped, serverVars
<1>5. "error" \in View \ {"configuring"} /\ NoId \in Id \cup {NoId}
  BY DEF View
<1> HIDE DEF p
<1>6. PageOK(Facts', Showing(page[p], "error", NoId), cancel[p])
  BY <1>1, <1>2, <1>4, <1>5, PageLater, ShowingOK DEF PagesOK
<1>7. PagesOK'
  BY <1>1, <1>2, <1>4, <1>6, PageGoesOn
<1> QED  BY <1>1, <1>2, <1>4, <1>7, ReturnsOK, ConsumesOK DEF IInv

\* A complete goes on without its client; any other session ends.
LEMMA UnheardOK ==
  ASSUME NEW w, NEW k \in InSession, SessionOK(w, k)
  PROVE  Unheard(k) = IdleSession \/ SessionOK(w, Unheard(k))
<1>1. CASE k.at \in {"complete", "sent"}
  <2> DEFINE l == [k EXCEPT !.at = "sent"]
  <2>1. l \in InSession /\ l.at = "sent" /\ l.id = k.id /\ l.list = k.list
        /\ l.file = k.file
    BY DEF InSession, SessionLabel
  <2>2. Unheard(k) = l
    BY <1>1 DEF Unheard
  <2> HIDE DEF l
  <2> QED  BY <1>1, <2>1, <2>2 DEF SessionOK
<1>2. CASE k.at \in {"assembled", "unheard"}
  <2> DEFINE l == [k EXCEPT !.at = "unheard"]
  <2>1. l \in InSession /\ l.at = "unheard" /\ l.id = k.id /\ l.list = k.list
        /\ l.file = k.file
    BY DEF InSession, SessionLabel
  <2>2. Unheard(k) = l
    BY <1>2 DEF Unheard
  <2> HIDE DEF l
  <2> QED  BY <1>2, <2>1, <2>2 DEF SessionOK
<1>3. CASE k.at \notin {"complete", "sent", "assembled", "unheard"}
  BY <1>3 DEF Unheard
<1> QED  BY <1>1, <1>2, <1>3

LEMMA RequestFailsOK ==
  ASSUME IInv, NEW s \in Session, RequestFails(s)
  PROVE  IInv'
<1> DEFINE p == session[s].page
<1>1. /\ SessionsOK /\ PagesOK /\ TabsOK /\ StoresOK
      /\ session[s].at # "none" /\ UNCHANGED <<tab, cancel>> /\ Fault
      /\ page' = [page EXCEPT ![p] = Caught(page[p])]
  BY DEF IInv, RequestFails
<1>2. StoresOK' /\ Holds(Facts, Facts')
  <2>1. CASE UNCHANGED <<row, multipart>>
    BY <1>1, <2>1, SameStores DEF RequestFails
  <2>2. CASE ~UNCHANGED <<row, multipart>>
    <3>1. PICK i \in Id : /\ row[i] = "unborn" /\ row' = [row EXCEPT ![i] = "pending"]
                          /\ multipart' = multipart \cup {i}
      BY <2>2 DEF RequestFails
    <3> QED  BY <1>1, <3>1, DrawnOK DEF RequestFails
  <2> QED  BY <2>1, <2>2
<1>3. p \in Page /\ SessionOK(Facts, session[s]) /\ session[s] \in InSession
  BY <1>1, RunningIs
<1>4. SessionsOK'
  <2>1. PICK k \in {IdleSession, Unheard(session[s])} :
          session' = [session EXCEPT ![s] = k]
    BY DEF RequestFails
  <2>2. k = IdleSession \/ SessionOK(Facts', k)
    BY <1>2, <1>3, <2>1, SessionLater, UnheardOK
  <2> QED  BY <1>1, <1>2, <2>1, <2>2, SessionGoesOn
<1> HIDE DEF p
<1>5. PageOK(Facts', Caught(page[p]), cancel[p])
  BY <1>1, <1>2, <1>3, PageLater, CaughtOK DEF PagesOK
<1>6. PagesOK'
  BY <1>1, <1>2, <1>3, <1>5, PageGoesOn
<1> QED  BY <1>1, <1>2, <1>4, <1>6, SameTabs DEF IInv

LEMMA UnheardFailsOK ==
  ASSUME IInv, NEW s \in Session, UnheardFails(s)
  PROVE  IInv'
<1>1. SessionsOK /\ PagesOK /\ TabsOK /\ StoresOK /\ Returns(s)
      /\ UNCHANGED <<page, tab, cancel>> /\ (Fault \/ UNCHANGED faults)
  BY DEF IInv, UnheardFails
<1>2. StoresOK' /\ Holds(Facts, Facts')
  BY <1>1, SameStores DEF UnheardFails, serverVars
<1> QED  BY <1>1, <1>2, ReturnsOK, SamePages, SameTabs DEF IInv

LEMMA UnauthorizedOK ==
  ASSUME IInv, NEW s \in Session, Unauthorized(s)
  PROVE  IInv'
<1>1. SessionsOK /\ PagesOK /\ TabsOK /\ StoresOK /\ Returns(s)
      /\ session[s].at # "none" /\ cancel' = cancel /\ Fault
      /\ SignsOut(TabOf[session[s].page])
  BY DEF IInv, Unauthorized
<1>2. StoresOK' /\ Holds(Facts, Facts')
  BY <1>1, SameStores DEF Unauthorized, serverVars
<1>3. TabOf[session[s].page] \in Tab
  BY <1>1, RunningIs, UploaderAssumption
<1>4. PagesOK' /\ TabsOK'
  BY <1>1, <1>2, <1>3, SignsOutOK
<1> QED  BY <1>1, <1>2, <1>4, ReturnsOK DEF IInv

LEMMA SessionStepOK ==
  ASSUME IInv, NEW s \in Session, SessionStep(s)
  PROVE  IInv'
BY InitiatedOK, SavedOK, PartsListedOK, PartsRefusedOK, PutLandsOK, PutAnsweredOK,
   PutFailsOK, BackoffEndsOK, CompletesMultipartOK, CompleteRefusedOK,
   MarksUploadedOK, CompleteAnsweredOK, ForgottenOK, PollEndsOK, DroppedOK,
   RequestFailsOK, UnheardFailsOK, UnauthorizedOK
   DEF SessionStep


-----------------------------------------------------------------------------
(* The actions of the user. *)

\* An action that leaves the sessions and the stores alone
LEMMA SameRest ==
  ASSUME IInv, UNCHANGED <<session, records, gaveUp, serverVars, faults>>
  PROVE  /\ SessionsOK' /\ StoresOK' /\ Holds(Facts, Facts') /\ Facts' = Facts
         /\ SessionsOK /\ PagesOK /\ TabsOK
<1>1. SessionsOK /\ PagesOK /\ TabsOK /\ StoresOK
  BY DEF IInv
<1>2. StoresOK' /\ Holds(Facts, Facts') /\ Facts' = Facts
  BY <1>1, SameStores, SameFacts DEF serverVars
<1> QED  BY <1>1, <1>2, SameSessions

LEMMA OpenOK ==
  ASSUME IInv, NEW p \in Page, NEW i \in Id \cup {NoId}, Open(p, i)
  PROVE  IInv'
<1> DEFINE t == TabOf[p]
           q == [LeftPage(FALSE) EXCEPT !.view = "idle"]
           r == [tab[t] EXCEPT !.target = i, !.listed = {}]
<1>1. /\ SessionsOK' /\ StoresOK' /\ Holds(Facts, Facts')
      /\ SessionsOK /\ PagesOK /\ TabsOK /\ cancel' = cancel
  BY SameRest DEF Open
<1>2. t \in Tab /\ TabOK(Facts, tab[t]) /\ tab[t] \in TabRecord
  BY <1>1, UploaderAssumption DEF TabsOK
<1>3. q \in PageRecord /\ q.view = "idle"
  BY DEF LeftPage, PageRecord, View
<1>4. PageOK(Facts', q, cancel[p])
  <2> HIDE DEF q
  <2> QED  BY <1>1, <1>3, PageLater, SettledPageOK DEF PagesOK
<1>5. PagesOK'
  <2>1. page' = [page EXCEPT ![p] = q]
    BY DEF Open
  <2> HIDE DEF q
  <2> QED  BY <1>1, <1>4, <2>1, PageGoesOn
<1>6. i # NoId => i \in Facts.kept
  BY <1>2 DEF TabOK, Open
<1>7. r \in TabRecord /\ r.target = i /\ r.listed = {} /\ r.abandon = tab[t].abandon
  BY <1>2 DEF TabRecord
<1>8. tab' = [tab EXCEPT ![t] = r]
  BY <1>2 DEF Open
<1> HIDE DEF r, t
<1>9. TabOK(Facts', r)
  BY <1>1, <1>2, <1>6, <1>7 DEF TabOK, Holds
<1>10. TabsOK'
  BY <1>1, <1>2, <1>8, <1>9, TabGoesOn
<1> QED  BY <1>1, <1>5, <1>10 DEF IInv

LEMMA LeaveOK ==
  ASSUME IInv, NEW p \in Page, Leave(p)
  PROVE  IInv'
<1>1. /\ SessionsOK' /\ StoresOK' /\ Holds(Facts, Facts')
      /\ SessionsOK /\ PagesOK /\ TabsOK /\ UNCHANGED <<tab, cancel>>
      /\ page' = [page EXCEPT ![p] = LeftPage(page[p].stop)]
  BY SameRest DEF Leave
<1>2. PageOK(Facts', page[p], cancel[p]) /\ page[p].stop \in BOOLEAN
  BY <1>1, PageLater DEF PagesOK, PageOK, PageRecord
<1>3. PageOK(Facts', LeftPage(page[p].stop), cancel[p])
  BY <1>2, LeftPageOK
<1> QED  BY <1>1, <1>3, PageGoesOn, SameTabs DEF IInv

LEMMA SignOutOK ==
  ASSUME IInv, NEW t \in Tab, SignOut(t)
  PROVE  IInv'
<1>1. /\ SessionsOK' /\ StoresOK' /\ Holds(Facts, Facts')
      /\ PagesOK /\ TabsOK /\ cancel' = cancel /\ SignsOut(t)
  BY SameRest DEF SignOut
<1> QED  BY <1>1, SignsOutOK DEF IInv

LEMMA ReloadOK ==
  ASSUME IInv, NEW t \in Tab, Reload(t)
  PROVE  IInv'
<1>1. /\ SessionsOK /\ PagesOK /\ TabsOK /\ StoresOK
  BY DEF IInv
<1>2. StoresOK' /\ Holds(Facts, Facts')
  BY <1>1, SameStores DEF Reload, serverVars
<1>3. SessionsOK'
  <2>1. session' = [s \in Session |-> session'[s]]
    BY DEF Reload
  <2>2. ASSUME NEW s \in Session
        PROVE  \/ session'[s] \in {session[s], IdleSession}
               \/ SessionOK(Facts', session'[s])
    <3>1. CASE session[s].at = "none"
      BY <3>1 DEF Reload
    <3>2. CASE session[s].at # "none"
      <4>1. SessionOK(Facts', session[s]) /\ session[s] \in InSession
        BY <1>1, <1>2, <3>2, RunningIs, SessionLater
      <4>2. session'[s] \in {session[s], Unheard(session[s])}
        BY DEF Reload
      <4> QED  BY <4>1, <4>2, UnheardOK
    <3> QED  BY <3>1, <3>2
  <2> QED  BY <1>1, <1>2, <2>1, <2>2, SessionsGoOn
<1>4. PagesOK'
  <2>1. page' = [p \in Page |-> page'[p]] /\ cancel' = [p \in Page |-> cancel'[p]]
    BY DEF Reload
  <2>2. \A p \in Page : \/ page'[p] = page[p] /\ cancel'[p] = cancel[p]
                        \/ page'[p] = LeftPage(FALSE) /\ cancel'[p] = NoRequest
    BY DEF Reload
  <2>3. \A p \in Page : PageOK(Facts', LeftPage(FALSE), NoRequest)
    BY <1>1, <1>2, PageLater, LeftPageOK DEF PagesOK
  <2>4. \A p \in Page : \/ page'[p] = page[p] /\ cancel'[p] = cancel[p]
                        \/ PageOK(Facts', page'[p], cancel'[p])
    BY <2>2, <2>3
  <2> QED  BY <1>1, <1>2, <2>1, <2>4, PagesGoOn
<1>5. TabsOK'
  <2>1. TabOK(Facts', NewTab) /\ tab' = [tab EXCEPT ![t] = NewTab]
    BY NewTabOK DEF Reload
  <2> QED  BY <1>1, <1>2, <2>1, TabGoesOn
<1> QED  BY <1>2, <1>3, <1>4, <1>5 DEF IInv

LEMMA ChooseFileOK ==
  ASSUME IInv, NEW p \in Page, NEW x \in Candidate, ChooseFile(p, x)
  PROVE  IInv'
<1> DEFINE q == [page[p] EXCEPT !.view = "configuring", !.id = NoId, !.file = x]
<1>1. /\ SessionsOK' /\ StoresOK' /\ Holds(Facts, Facts')
      /\ PagesOK /\ TabsOK /\ UNCHANGED <<tab, cancel>>
      /\ page' = [page EXCEPT ![p] = q]
  BY SameRest DEF ChooseFile, PagesOK
<1>2. PageOK(Facts', page[p], cancel[p]) /\ page[p] \in PageRecord
  BY <1>1, PageLater DEF PagesOK
<1>3. q \in PageRecord /\ q.view = "configuring" /\ q.file = x
  BY <1>2 DEF PageRecord, View
<1> HIDE DEF q
<1>4. PageOK(Facts', q, cancel[p])
  BY <1>2, <1>3 DEF PageOK
<1> QED  BY <1>1, <1>4, PageGoesOn, SameTabs DEF IInv

LEMMA ChooseWrongFileOK ==
  ASSUME IInv, NEW p \in Page, ChooseWrongFile(p)
  PROVE  IInv'
<1>1. /\ SessionsOK' /\ StoresOK' /\ Holds(Facts, Facts')
      /\ PagesOK /\ TabsOK /\ UNCHANGED <<tab, cancel>>
      /\ page' = [page EXCEPT ![p] = Showing(page[p], "error", NoId)]
  BY SameRest DEF ChooseWrongFile
<1>2. "error" \in View \ {"configuring"} /\ NoId \in Id \cup {NoId}
  BY DEF View
<1>3. PageOK(Facts', Showing(page[p], "error", NoId), cancel[p])
  BY <1>1, <1>2, PageLater, ShowingOK DEF PagesOK
<1> QED  BY <1>1, <1>3, PageGoesOn, SameTabs DEF IInv

LEMMA DropTargetOK ==
  ASSUME IInv, NEW p \in Page, DropTarget(p)
  PROVE  IInv'
<1>1. /\ SessionsOK' /\ StoresOK' /\ Holds(Facts, Facts')
      /\ PagesOK /\ TabsOK /\ UNCHANGED <<page, cancel>> /\ ConsumesTarget(p)
  BY SameRest DEF DropTarget
<1> QED  BY <1>1, SamePages, ConsumesOK DEF IInv

\* A session starts on page p.
LEMMA StartOK ==
  ASSUME IInv, NEW p \in Page, NEW s \in Session, NEW sess,
         NEW view \in {"configuring", "verifying"}, Start(p, s, sess, view),
         SessionOK(Facts, sess), view = "configuring" => page[p].view = view
  PROVE  IInv'
<1> DEFINE q == [page[p] EXCEPT !.stop = FALSE, !.handled = FALSE, !.view = view,
                                !.id = NoId]
<1>1. SessionsOK /\ PagesOK /\ TabsOK /\ StoresOK /\ UNCHANGED <<tab, cancel>>
      /\ session' = [session EXCEPT ![s] = sess]
  BY DEF IInv, Start
<1>2. StoresOK' /\ Holds(Facts, Facts') /\ Facts' = Facts
  BY <1>1, SameStores, SameFacts DEF Start, serverVars
<1>3. page' = [page EXCEPT ![p] = q]
  BY <1>1 DEF Start, PagesOK
<1>4. PageOK(Facts', page[p], cancel[p]) /\ page[p] \in PageRecord
  BY <1>1, <1>2, PageLater DEF PagesOK
<1>5. q \in PageRecord /\ q.view = view /\ q.file = page[p].file
  BY <1>4 DEF PageRecord, View
<1> HIDE DEF q
<1>6. PageOK(Facts', q, cancel[p])
  BY <1>4, <1>5 DEF PageOK
<1>7. SessionsOK'
  BY <1>1, <1>2, SessionGoesOn
<1>8. PagesOK'
  BY <1>1, <1>2, <1>3, <1>6, PageGoesOn
<1> QED  BY <1>1, <1>2, <1>7, <1>8, SameTabs DEF IInv

LEMMA FreshIs ==
  /\ 0 \in 0..PartAttempts - 1
  /\ NoParts \in [Part -> ETag \cup {NoFile}]
  /\ \A x : OfFile(NoParts, x)
BY UploaderAssumption DEF NoParts, OfFile

LEMMA ConfirmOK ==
  ASSUME IInv, NEW p \in Page, NEW s \in Session, Confirm(p, s)
  PROVE  IInv'
<1> DEFINE k == [IdleSession EXCEPT !.at = "initiate", !.page = p,
                                    !.file = page[p].file]
<1>1. Start(p, s, k, "configuring") /\ page[p].view = "configuring"
  BY DEF Confirm
<1>2. page[p].file \in Candidate
  BY <1>1 DEF IInv, PagesOK, PageOK
<1>3. k \in InSession /\ k.at = "initiate" /\ k.list = NoParts
  BY <1>2, FreshIs DEF IdleSession, InSession, SessionLabel
<1> HIDE DEF k
<1>4. SessionOK(Facts, k)
  BY <1>3, FreshIs DEF SessionOK
<1> QED  BY <1>1, <1>4, StartOK

LEMMA ResumeOK ==
  ASSUME IInv, NEW p \in Page, NEW s \in Session, NEW x \in Candidate, Resume(p, s, x)
  PROVE  IInv'
<1> DEFINE k == [IdleSession EXCEPT !.at = "parts", !.page = p, !.resume = TRUE,
                                    !.id = Target(p), !.file = x]
<1>1. Start(p, s, k, "verifying") /\ Target(p) # NoId
  BY DEF Resume
<1>2. Target(p) \in Facts.kept /\ Target(p) \in Id
  BY <1>1, UploaderAssumption DEF IInv, TabsOK, TabOK, Target, Facts, Drawn
<1>3. k \in InSession /\ k.at = "parts" /\ k.list = NoParts /\ k.id = Target(p)
  BY <1>2, FreshIs DEF IdleSession, InSession, SessionLabel
<1> HIDE DEF k
<1>4. SessionOK(Facts, k)
  BY <1>2, <1>3, FreshIs DEF SessionOK
<1> QED  BY <1>1, <1>4, StartOK

LEMMA CancelClickOK ==
  ASSUME IInv, NEW p \in Page, CancelClick(p)
  PROVE  IInv'
<1> DEFINE i == page[p].id
           q == [page[p] EXCEPT !.handled = TRUE, !.stop = TRUE, !.xhr = {}]
           c == [at |-> "delete", id |-> i]
<1>1. /\ SessionsOK /\ PagesOK /\ TabsOK /\ StoresOK
      /\ page[p].view = "uploading" /\ gaveUp' = gaveUp \cup {i}
      /\ UNCHANGED <<tab, records, row, multipart, stored, faults>>
  BY DEF IInv, CancelClick, serverVars
<1>2. PageOK(Facts, page[p], cancel[p]) /\ page[p] \in PageRecord
  BY <1>1 DEF PagesOK
<1>3. i \in Drawn /\ i \in Id
  BY <1>1, <1>2 DEF PageOK, Facts, Drawn
<1>4. Holds(Facts, Facts')
  BY <1>1, FactsHold DEF Drawn
<1>5. StoresOK'
  <2>1. \A j \in Id : Missing(stored[j]) # Part => j \in Facts'.kept
    BY <1>1, <1>4 DEF StoresOK, Holds
  <2> QED  BY <1>1, <1>3, <2>1 DEF StoresOK, ObjectIsOneFile, OneFile, Drawn
<1>6. SessionsOK'
  <2>1. session' = [s \in Session |-> session'[s]]
        /\ \A s \in Session : session'[s] \in {session[s], IdleSession}
    BY DEF CancelClick
  <2> QED  BY <1>1, <1>4, <2>1, SessionsGoOn
<1>7. /\ q \in PageRecord /\ q.view = "uploading" /\ q.id = i
      /\ c \in Request /\ c.at = "delete" /\ c.id = i
  BY <1>1, <1>2, <1>3 DEF PageRecord, Request
<1>8. page' = [page EXCEPT ![p] = q] /\ cancel' = [cancel EXCEPT ![p] = c]
  BY <1>1 DEF CancelClick, PagesOK
<1>9. i \in Facts'.drawn /\ i \in Facts'.gaveUp
  BY <1>1, <1>3 DEF Facts, Drawn
<1> HIDE DEF i, q, c
<1>10. PageOK(Facts', q, c)
  BY <1>7, <1>9 DEF PageOK
<1>11. PagesOK'
  <2>1. /\ page' = [r \in Page |-> page'[r]] /\ cancel' = [r \in Page |-> cancel'[r]]
        /\ \A r \in Page \ {p} : page'[r] = page[r] /\ cancel'[r] = cancel[r]
        /\ page'[p] = q /\ cancel'[p] = c
    BY <1>1, <1>8 DEF PagesOK
  <2>2. \A r \in Page : \/ page'[r] = page[r] /\ cancel'[r] = cancel[r]
                        \/ PageOK(Facts', page'[r], cancel'[r])
    BY <1>10, <2>1
  <2> QED  BY <1>1, <1>4, <2>1, <2>2, PagesGoOn
<1> QED  BY <1>1, <1>4, <1>5, <1>6, <1>11, SameTabs DEF IInv

\* The DELETE of a page goes on to what it does next, or ends.
LEMMA CancelGoesOn ==
  ASSUME PagesOK, Holds(Facts, Facts'), NEW p \in Page, NEW q, NEW c,
         page' = [page EXCEPT ![p] = q], cancel' = [cancel EXCEPT ![p] = c],
         PageOK(Facts', q, cancel[p]),
         c = NoRequest \/ c = [cancel[p] EXCEPT !.at = "forget"],
         cancel[p].at # "none"
  PROVE  PagesOK'
<1>1. /\ page' = [r \in Page |-> page'[r]] /\ cancel' = [r \in Page |-> cancel'[r]]
      /\ \A r \in Page \ {p} : page'[r] = page[r] /\ cancel'[r] = cancel[r]
      /\ page'[p] = q /\ cancel'[p] = c
  BY DEF PagesOK
<1>2. cancel[p] \in Request
  BY DEF PagesOK
<1>3. c \in Request /\ (c.at # "none" => c.id = cancel[p].id)
  BY <1>2 DEF Request, NoRequest
<1>4. PageOK(Facts', q, c)
  BY <1>3 DEF PageOK
<1>5. \A r \in Page : \/ page'[r] = page[r] /\ cancel'[r] = cancel[r]
                      \/ PageOK(Facts', page'[r], cancel'[r])
  BY <1>1, <1>4
<1> QED  BY <1>1, <1>5, PagesGoOn

LEMMA CancelDeleteOK ==
  ASSUME IInv, NEW p \in Page, CancelDelete(p)
  PROVE  IInv'
<1> DEFINE i == cancel[p].id
           c == [cancel[p] EXCEPT !.at = "forget"]
<1>1. /\ SessionsOK /\ PagesOK /\ TabsOK /\ StoresOK
      /\ cancel[p].at = "delete" /\ UNCHANGED <<page, tab, session, records, gaveUp>>
      /\ Fault \/ UNCHANGED faults
  BY DEF IInv, CancelDelete
<1>2. PageOK(Facts, page[p], cancel[p]) /\ i \in Drawn
  BY <1>1 DEF PagesOK, PageOK, Facts
<1>3. StoresOK' /\ Holds(Facts, Facts')
  <2>1. \/ UNCHANGED <<row, multipart, stored>>
        \/ BytesGone(i) /\ (RowGone(i) \/ UNCHANGED row)
    BY DEF CancelDelete, serverVars
  <2>2. CASE UNCHANGED <<row, multipart, stored>>
    BY <1>1, <2>2, SameStores
  <2>3. CASE BytesGone(i) /\ (RowGone(i) \/ UNCHANGED row)
    <3>1. i \notin multipart'
      BY <2>3 DEF BytesGone
    <3> HIDE DEF i
    <3> QED  BY <1>1, <1>2, <2>3, <3>1, CloseOK DEF BytesGone, RowGone
  <2> QED  BY <2>1, <2>2, <2>3
<1>4. PagesOK'
  <2>1. page' = [page EXCEPT ![p] = page[p]] /\ cancel' = [cancel EXCEPT ![p] = c]
    BY <1>1 DEF PagesOK, CancelDelete
  <2>2. PageOK(Facts', page[p], cancel[p])
    BY <1>2, <1>3, PageLater
  <2> QED  BY <1>1, <1>3, <2>1, <2>2, CancelGoesOn
<1> QED  BY <1>1, <1>3, <1>4, SameSessions, SameTabs DEF IInv

LEMMA CancelForgetOK ==
  ASSUME IInv, NEW p \in Page, CancelForget(p)
  PROVE  IInv'
<1> DEFINE i == cancel[p].id
           q == Showing(page[p], "cancelled", NoId)
<1>1. /\ SessionsOK /\ PagesOK /\ TabsOK /\ StoresOK
      /\ cancel[p].at = "forget" /\ session' = session /\ ConsumesTarget(p)
      /\ page' = [page EXCEPT ![p] = q] /\ cancel' = [cancel EXCEPT ![p] = NoRequest]
  BY DEF IInv, CancelForget
<1>2. PageOK(Facts, page[p], cancel[p]) /\ i \in Drawn /\ i \in gaveUp
  BY <1>1 DEF PagesOK, PageOK, Facts
<1>3. StoresOK' /\ Holds(Facts, Facts')
  BY <1>1, <1>2, RecordOK DEF CancelForget, serverVars
<1>4. PageOK(Facts', q, cancel[p])
  <2>1. "cancelled" \in View \ {"configuring"} /\ NoId \in Id \cup {NoId}
    BY DEF View
  <2> QED  BY <1>2, <1>3, <2>1, PageLater, ShowingOK
<1> HIDE DEF q
<1>5. PagesOK'
  BY <1>1, <1>3, <1>4, CancelGoesOn
<1> QED  BY <1>1, <1>3, <1>5, SameSessions, ConsumesOK DEF IInv


-----------------------------------------------------------------------------
(* The actions of Mon espace and of the server. *)

LEMMA ListRecordsOK ==
  ASSUME IInv, NEW t \in Tab, ListRecords(t)
  PROVE  IInv'
<1> DEFINE r == [tab[t] EXCEPT !.listed = records]
<1>1. /\ SessionsOK' /\ StoresOK' /\ Holds(Facts, Facts')
      /\ PagesOK /\ TabsOK /\ UNCHANGED <<page, cancel>>
      /\ tab' = [tab EXCEPT ![t] = r]
  BY SameRest DEF ListRecords
<1>2. records \subseteq Facts.kept /\ records \subseteq Id
  BY DEF IInv, StoresOK, Facts, Drawn
<1>3. TabOK(Facts, tab[t]) /\ tab[t] \in TabRecord
  BY <1>1 DEF TabsOK
<1>4. /\ r \in TabRecord /\ r.target = tab[t].target /\ r.listed = records
      /\ r.abandon = tab[t].abandon
  BY <1>2, <1>3 DEF TabRecord
<1> HIDE DEF r
<1>5. TabOK(Facts', r)
  BY <1>1, <1>2, <1>3, <1>4 DEF TabOK, Holds
<1>6. TabsOK'
  BY <1>1, <1>5, TabGoesOn
<1> QED  BY <1>1, <1>6, SamePages DEF IInv

LEMMA AbandonOK ==
  ASSUME IInv, NEW t \in Tab, NEW i \in Id, Abandon(t, i)
  PROVE  IInv'
<1> DEFINE a == [at |-> "delete", id |-> i]
           r == [tab[t] EXCEPT !.abandon = a]
<1>1. /\ SessionsOK' /\ StoresOK' /\ Holds(Facts, Facts')
      /\ PagesOK /\ TabsOK /\ UNCHANGED <<page, cancel>>
      /\ tab' = [tab EXCEPT ![t] = r] /\ i \in tab[t].listed
  BY SameRest DEF Abandon
<1>2. TabOK(Facts, tab[t]) /\ tab[t] \in TabRecord
  BY <1>1 DEF TabsOK
<1>3. i \in Facts'.drawn
  BY <1>1, <1>2 DEF TabOK, Facts, Holds
<1>4. a \in Request /\ a.at = "delete" /\ a.id = i
  BY DEF Request
<1> HIDE DEF a
<1>5. /\ r \in TabRecord /\ r.target = tab[t].target /\ r.listed = tab[t].listed
      /\ r.abandon = a
  BY <1>2, <1>4 DEF TabRecord
<1> HIDE DEF r
<1>6. TabOK(Facts', r)
  BY <1>1, <1>2, <1>3, <1>4, <1>5 DEF TabOK, Holds
<1>7. TabsOK'
  BY <1>1, <1>6, TabGoesOn
<1> QED  BY <1>1, <1>7, SamePages DEF IInv

LEMMA AbandonDeleteOK ==
  ASSUME IInv, NEW t \in Tab, AbandonDelete(t)
  PROVE  IInv'
<1> DEFINE i == tab[t].abandon.id
           a == [tab[t].abandon EXCEPT !.at = "forget"]
           r == [tab[t] EXCEPT !.abandon = a]
           e == [tab[t] EXCEPT !.abandon = NoRequest]
<1>1. /\ SessionsOK /\ PagesOK /\ TabsOK /\ StoresOK
      /\ tab[t].abandon.at = "delete" /\ UNCHANGED <<page, session, cancel>>
      /\ UNCHANGED <<records, gaveUp>> /\ (Fault \/ UNCHANGED faults)
  BY DEF IInv, AbandonDelete
<1>2. TabOK(Facts, tab[t]) /\ tab[t] \in TabRecord
  BY <1>1 DEF TabsOK
<1>3. i \in Drawn /\ tab[t].abandon \in Request
  BY <1>1, <1>2 DEF TabOK, Facts, TabRecord
<1>4. \/ BytesGone(i) /\ RowGone(i) /\ tab' = [tab EXCEPT ![t] = r]
      \/ BytesGone(i) /\ UNCHANGED row /\ tab' = [tab EXCEPT ![t] = e]
      \/ UNCHANGED <<row, multipart, stored>> /\ tab' = [tab EXCEPT ![t] = e]
  BY <1>1 DEF AbandonDelete, TabsOK
<1>5. StoresOK' /\ Holds(Facts, Facts')
  <2>1. CASE UNCHANGED <<row, multipart, stored>>
    BY <1>1, <2>1, SameStores
  <2>2. CASE BytesGone(i) /\ (RowGone(i) \/ UNCHANGED row)
    <3>1. i \notin multipart'
      BY <2>2 DEF BytesGone
    <3> HIDE DEF i
    <3> QED  BY <1>1, <1>3, <2>2, <3>1, CloseOK DEF BytesGone, RowGone
  <2> HIDE DEF r, e
  <2> QED  BY <1>4, <2>1, <2>2
<1>6. /\ a \in Request /\ a.at = "forget" /\ a.id = i
      /\ NoRequest \in Request /\ NoRequest.at = "none"
  BY <1>3 DEF Request, NoRequest
<1> HIDE DEF a
<1>7. /\ r \in TabRecord /\ r.target = tab[t].target /\ r.listed = tab[t].listed
      /\ r.abandon = a
      /\ e \in TabRecord /\ e.target = tab[t].target /\ e.listed = tab[t].listed
      /\ e.abandon = NoRequest
  BY <1>2, <1>6 DEF TabRecord
<1> HIDE DEF r, e, i
<1>8. TabOK(Facts', e)
  BY <1>2, <1>5, <1>6, <1>7 DEF TabOK, Holds
<1>9. ASSUME BytesGone(i) PROVE TabOK(Facts', r)
  <2>1. i \in Facts'.drawn /\ i \notin multipart'
    BY <1>3, <1>5, <1>9 DEF Holds, Facts, BytesGone
  <2>2. i \in Facts'.over
    BY <2>1 DEF Facts
  <2> QED  BY <1>2, <1>5, <1>6, <1>7, <2>2 DEF TabOK, Holds
<1>10. TabsOK'
  <2>1. CASE tab' = [tab EXCEPT ![t] = e]
    BY <1>1, <1>5, <1>8, <2>1, TabGoesOn
  <2>2. CASE BytesGone(i) /\ tab' = [tab EXCEPT ![t] = r]
    BY <1>1, <1>5, <1>9, <2>2, TabGoesOn
  <2> QED  BY <1>4, <2>1, <2>2
<1> QED  BY <1>1, <1>5, <1>10, SameSessions, SamePages DEF IInv

LEMMA AbandonUnauthorizedOK ==
  ASSUME IInv, NEW t \in Tab, AbandonUnauthorized(t)
  PROVE  IInv'
<1>1. SessionsOK /\ PagesOK /\ TabsOK /\ StoresOK /\ UNCHANGED <<session, cancel>>
      /\ Fault /\ tab' = [tab EXCEPT ![t] = NewTab]
  BY DEF IInv, AbandonUnauthorized
<1>2. StoresOK' /\ Holds(Facts, Facts')
  BY <1>1, SameStores DEF AbandonUnauthorized, serverVars
<1>3. PagesOK'
  BY <1>1, <1>2, PagesLeaveOK DEF AbandonUnauthorized
<1>4. TabsOK'
  BY <1>1, <1>2, NewTabOK, TabGoesOn
<1> QED  BY <1>1, <1>2, <1>3, <1>4, SameSessions DEF IInv

LEMMA AbandonForgetOK ==
  ASSUME IInv, NEW t \in Tab, AbandonForget(t)
  PROVE  IInv'
<1> DEFINE i == tab[t].abandon.id
           r == [tab[t] EXCEPT !.listed = @ \ {i}, !.abandon = NoRequest]
<1>1. /\ SessionsOK /\ PagesOK /\ TabsOK /\ StoresOK
      /\ tab[t].abandon.at = "forget" /\ UNCHANGED <<page, session, cancel>>
      /\ tab' = [tab EXCEPT ![t] = r] /\ records' = records \ {i}
  BY DEF IInv, AbandonForget
<1>2. TabOK(Facts, tab[t]) /\ tab[t] \in TabRecord
  BY <1>1 DEF TabsOK
<1>3. i \in Facts.over /\ i \in Drawn
  BY <1>1, <1>2 DEF TabOK, Facts
<1>4. StoresOK' /\ Holds(Facts, Facts')
  BY <1>1, <1>3, RecordOK DEF AbandonForget, serverVars
<1>5. NoRequest \in Request /\ NoRequest.at = "none"
  BY DEF Request, NoRequest
<1>6. /\ r \in TabRecord /\ r.target = tab[t].target
      /\ r.listed \subseteq tab[t].listed /\ r.abandon = NoRequest
  <2> HIDE DEF i
  <2> QED  BY <1>2, <1>5 DEF TabRecord
<1> HIDE DEF r, i
<1>7. TabOK(Facts', r)
  BY <1>2, <1>4, <1>5, <1>6 DEF TabOK, Holds
<1>8. TabsOK'
  BY <1>1, <1>4, <1>7, TabGoesOn
<1> QED  BY <1>1, <1>4, <1>8, SameSessions, SamePages DEF IInv

\* Settle, Reap and Expire: the bytes go, or the row goes on.
LEMMA ServerOK ==
  ASSUME IInv, NEW i \in Id, Settle(i) \/ Reap(i) \/ Expire(i)
  PROVE  IInv'
<1>1. /\ SessionsOK /\ PagesOK /\ TabsOK /\ StoresOK
      /\ UNCHANGED <<page, tab, session, cancel, records, gaveUp, faults>>
  BY DEF IInv, Settle, Reap, Expire
<1>2. i \in Drawn
  BY DEF Settle, Reap, Expire, Drawn
<1>3. StoresOK' /\ Holds(Facts, Facts')
  <2>1. CASE Settle(i)
    <3>1. i \notin multipart /\ multipart' = multipart /\ (Parts <= 3 => OneFile(i))
      BY <1>1, <2>1 DEF Settle, StoresOK, ObjectIsOneFile
    <3>2. CASE row' = [row EXCEPT ![i] = "ready"] /\ UNCHANGED stored
      BY <1>1, <1>2, <3>1, <3>2, CloseOK
    <3>3. CASE /\ row' = [row EXCEPT ![i] = "rejected"]
               /\ stored' = [stored EXCEPT ![i] = NoParts]
      <4>1. stored' = stored /\ row' # row /\ Parts <= 3
              => OneFile(i) \/ "rejected" = "gone"
        BY <3>1
      <4> QED  BY <1>1, <1>2, <3>1, <3>3, <4>1, CloseOK
    <3> QED  BY <2>1, <3>2, <3>3 DEF Settle
  <2>2. CASE Reap(i)
    <3>1. i \notin multipart'
      BY <2>2 DEF Reap, BytesGone
    <3> QED  BY <1>1, <1>2, <2>2, <3>1, CloseOK DEF Reap, BytesGone, RowGone
  <2>3. CASE Expire(i)
    <3>1. i \notin multipart' /\ row' = row
      BY <2>3 DEF Expire, BytesGone
    <3> QED  BY <1>1, <1>2, <2>3, <3>1, CloseOK DEF Expire, BytesGone
  <2> QED  BY <2>1, <2>2, <2>3
<1> QED  BY <1>1, <1>3, SameSessions, SamePages, SameTabs DEF IInv

-----------------------------------------------------------------------------
(* The theorems. *)

LEMMA InitOK == Init => IInv
<1> SUFFICES ASSUME Init PROVE IInv
  OBVIOUS
<1>1. SessionsOK
  BY DEF Init, SessionsOK
<1>2. PagesOK
  <2>1. LeftPage(FALSE) \in PageRecord /\ LeftPage(FALSE).view = "left"
    BY DEF LeftPage, PageRecord, View
  <2>2. NoRequest \in Request /\ NoRequest.at = "none"
    BY DEF NoRequest, Request
  <2>3. PageOK(Facts, LeftPage(FALSE), NoRequest)
    BY <2>1, <2>2 DEF PageOK
  <2> QED  BY <2>1, <2>2, <2>3 DEF Init, PagesOK
<1>3. TabsOK
  BY NewTabOK DEF Init, TabsOK, TabOK
<1>4. StoresOK
  <2>1. NoParts \in [Part -> ETag \cup {NoFile}] /\ Missing(NoParts) = Part
    BY DEF NoParts, Missing
  <2>2. 0 \in 0..MaxFaults
    BY UploaderAssumption
  <2> QED  BY <2>1, <2>2 DEF Init, StoresOK, ObjectIsOneFile
<1> QED  BY <1>1, <1>2, <1>3, <1>4 DEF IInv

LEMMA NextOK == IInv /\ [Next]_vars => IInv'
<1> SUFFICES ASSUME IInv, [Next]_vars PROVE IInv'
  OBVIOUS
<1>1. CASE \E p \in Page, i \in Id \cup {NoId} : Open(p, i)
  BY <1>1, OpenOK
<1>2. CASE \E p \in Page : Leave(p) \/ ChooseWrongFile(p) \/ DropTarget(p)
  BY <1>2, LeaveOK, ChooseWrongFileOK, DropTargetOK
<1>3. CASE \E p \in Page, x \in Candidate : ChooseFile(p, x)
  BY <1>3, ChooseFileOK
<1>4. CASE \E p \in Page, s \in Session : Confirm(p, s)
  BY <1>4, ConfirmOK
<1>5. CASE \E p \in Page, s \in Session, x \in Candidate : Resume(p, s, x)
  BY <1>5, ResumeOK
<1>6. CASE \E p \in Page : CancelClick(p) \/ CancelDelete(p) \/ CancelForget(p)
  BY <1>6, CancelClickOK, CancelDeleteOK, CancelForgetOK
<1>7. CASE \E t \in Tab : SignOut(t) \/ Reload(t) \/ ListRecords(t)
  BY <1>7, SignOutOK, ReloadOK, ListRecordsOK
<1>8. CASE \E t \in Tab, i \in Id : Abandon(t, i)
  BY <1>8, AbandonOK
<1>9. CASE \E t \in Tab : AbandonDelete(t) \/ AbandonUnauthorized(t) \/ AbandonForget(t)
  BY <1>9, AbandonDeleteOK, AbandonUnauthorizedOK, AbandonForgetOK
<1>10. CASE \E s \in Session : SessionStep(s)
  BY <1>10, SessionStepOK
<1>11. CASE \E i \in Id : Settle(i) \/ Reap(i) \/ Expire(i)
  BY <1>11, ServerOK
<1>12. CASE UNCHANGED vars
  <2>1. /\ UNCHANGED <<page, tab, session, cancel>>
        /\ UNCHANGED <<row, multipart, stored, records, gaveUp>> /\ UNCHANGED faults
    BY <1>12 DEF vars
  <2>2. SessionsOK /\ PagesOK /\ TabsOK /\ StoresOK
    BY DEF IInv
  <2>3. StoresOK' /\ Holds(Facts, Facts')
    BY <2>1, <2>2, SameStores
  <2> QED  BY <2>1, <2>2, <2>3, SameSessions, SamePages, SameTabs DEF IInv
<1> QED  BY <1>1, <1>2, <1>3, <1>4, <1>5, <1>6, <1>7, <1>8, <1>9, <1>10, <1>11, <1>12
         DEF Next

LEMMA IInvImplies ==
  ASSUME IInv
  PROVE  /\ ClientTypeOK /\ SentIsResumable
         /\ Parts <= 3 => ObjectIsOneFile
<1>1. records \subseteq Id /\ multipart \subseteq Id
  BY DEF IInv, StoresOK, Drawn
<1>2. ClientTypeOK
  BY <1>1 DEF IInv, SessionsOK, PagesOK, TabsOK, StoresOK, ClientTypeOK
<1>3. SentIsResumable
  BY <1>1 DEF IInv, StoresOK, SentIsResumable, Facts
<1> QED  BY <1>2, <1>3 DEF IInv, StoresOK

\* The inductive invariant of the sender's browser: what a session, a page, App,
\* Mon espace or a DELETE in flight knows of an upload may be old, and what they
\* do with it is right all the same.
THEOREM Inductive == Spec => []IInv
BY InitOK, NextOK, PTL DEF Spec

\* Pages, tabs, sessions and requests keep their type: a part is tried as often as
\* MAX_PART_ATTEMPTS says and no more.
THEOREM ClientTypes == Spec => []ClientTypeOK
<1>1. IInv => ClientTypeOK
  BY IInvImplies
<1> QED  BY <1>1, Inductive, PTL

\* As long as the multipart of an upload is open and holds bytes, Mon espace offers
\* to resume it unless the user cancelled it, whatever is reloaded, lost, refused
\* or answered late, and whatever other tabs do.
THEOREM SentStaysResumable == Spec => []SentIsResumable
<1>1. IInv => SentIsResumable
  BY IInvImplies
<1> QED  BY <1>1, Inductive, PTL

\* Of an upload of at most three parts, which the sample of verifyCompletedParts
\* covers, no mixture of two files is ever completed.
THEOREM NeverTwoFiles ==
  ASSUME Parts <= 3
  PROVE  Spec => []ObjectIsOneFile
<1>1. IInv => ObjectIsOneFile
  BY IInvImplies
<1> QED  BY <1>1, Inductive, PTL


=============================================================================
