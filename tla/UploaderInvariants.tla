-------------------------- MODULE UploaderInvariants --------------------------
(***************************************************************************)
(* What every reachable state of Uploader satisfies and every step keeps:  *)
(* what each session, page, tab and DELETE in flight relies on, however    *)
(* old the answer it acts on.                                              *)
(***************************************************************************)
EXTENDS Uploader

Drawn == {i \in Id : row[i] # "unborn"}

\* What sessions and tabs rely on, none of which is ever lost: the ids the server
\* has drawn; those that Mon espace offers as long as their multipart is open,
\* unless the user cancelled them; those whose multipart is closed; those of
\* which the bucket has one whole file, or nothing any more; and the cancelled.
Facts ==
  [drawn |-> Drawn,
   kept |-> {i \in Drawn : i \in multipart => i \in records \cup gaveUp},
   over |-> Drawn \ multipart,
   whole |-> {i \in Drawn \ multipart : OneFile(i)},
   gaveUp |-> gaveUp]

\* The parts in list are those of file x.
OfFile(list, x) == \A k \in Part : list[k] \in {NoFile, Digest(x, k)}

\* The session with record k may go on whatever has happened to its upload, its
\* page and its tab; w are the facts.
SessionOK(w, k) ==
  /\ k \in InSession
  /\ k.at = "save" => k.id \in w.drawn
  /\ k.at \notin {"initiate", "save"} => k.id \in w.kept
  /\ k.at \in {"assembled", "unheard", "completed", "forget", "poll", "drop"}
       => k.id \in w.over
  /\ k.at \in {"complete", "sent"} => Missing(k.list) = {}
  /\ Parts <= 3 =>
       /\ OfFile(k.list, k.file)
       /\ k.at \in {"assembled", "unheard"} => k.id \in w.whole

\* pg may be the record of a page while c is its DELETE in flight.
PageOK(w, pg, c) ==
  /\ pg \in PageRecord /\ c \in Request
  /\ pg.view = "configuring" => pg.file \in Candidate
  /\ pg.view = "uploading" => pg.id \in w.drawn
  /\ c.at # "none" => c.id \in w.drawn /\ c.id \in w.gaveUp

\* r may be the record of a tab: what it would resume may have been abandoned,
\* completed or reaped since, but nothing it could still send parts to lacks
\* its record.
TabOK(w, r) ==
  /\ r \in TabRecord
  /\ r.target # NoId => r.target \in w.kept
  /\ r.listed \subseteq w.kept
  /\ r.abandon.at = "delete" => r.abandon.id \in w.drawn
  /\ r.abandon.at = "forget" => r.abandon.id \in w.over

SessionsOK ==
  /\ session \in [Session -> InSession \cup {IdleSession}]
  /\ \A s \in Session : session[s] = IdleSession \/ SessionOK(Facts, session[s])

PagesOK ==
  /\ page \in [Page -> PageRecord]
  /\ cancel \in [Page -> Request]
  /\ \A p \in Page : PageOK(Facts, page[p], cancel[p])

TabsOK ==
  /\ tab \in [Tab -> TabRecord]
  /\ \A t \in Tab : TabOK(Facts, tab[t])

StoresOK ==
  /\ row \in [Id -> {"unborn", "pending", "uploaded", "ready", "rejected", "gone"}]
  /\ stored \in [Id -> [Part -> ETag \cup {NoFile}]]
  /\ gaveUp \subseteq Id
  /\ faults \in 0..MaxFaults
  /\ records \subseteq Drawn
  /\ \A i \in multipart : i \in Id /\ row[i] = "pending"
  /\ \A i \in Id : Missing(stored[i]) # Part => i \in Facts.kept
  /\ Parts <= 3 => ObjectIsOneFile

IInv == SessionsOK /\ PagesOK /\ TabsOK /\ StoresOK

=============================================================================
