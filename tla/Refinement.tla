------------------------------ MODULE Refinement ------------------------------
(***************************************************************************)
(* Datashare implements Sharing while workers keep their job locks and the *)
(* hourly sweep does not run: with it a ready file may go back to          *)
(* `uploaded`, which no sharer was promised.                               *)
(***************************************************************************)
EXTENDS Datashare

FateIn(s) ==
  IF s = "ready" THEN "open"
  ELSE IF s \in {"rejected", "expired", "deleted"} THEN "closed"
  ELSE "private"

BytesIn(c) ==
  IF c = "none" THEN "none" ELSE IF c = "clean" THEN "sound" ELSE "unfit"

Fate == [f \in File |-> FateIn(state[f])]

Bytes == [f \in File |-> BytesIn(content[f])]

Asked == [r \in Recipient |-> ask[r].file]

Promise ==
  INSTANCE Sharing WITH
    fate <- Fate,
    bytes <- Bytes,
    asked <- Asked,
    shared <- told \cup links

\* Every step of uploads, scans, purges, downloads, crashes and retries is a
\* step the sharing promise allows, or changes nothing a user can see.
KeepsThePromise == Promise!SharingSpec

=============================================================================
