------------------------------- MODULE Sharing -------------------------------
(***************************************************************************)
(* What DataShare promises about one upload, whatever goes on inside: its  *)
(* bytes are fixed when they arrive, it is opened at most once and only if *)
(* they are sound, it may be closed at any time and for good, and its      *)
(* token and download URLs come from an open file.  An URL may still be    *)
(* signed after the file was closed, for a request that found it open.     *)
(***************************************************************************)
EXTENDS Naturals

CONSTANTS
  File,
  Recipient,
  NoFile          \* the file of a recipient who asked for none

VARIABLES
  fate,           \* "private", "open" or "closed"
  bytes,          \* "none" until they arrive, then "sound" or "unfit"
  asked,          \* the file each recipient found open, until answered
  shared          \* files whose token or whose URL was given out

sharingVars == <<fate, bytes, asked, shared>>

SharingInit ==
  /\ fate = [f \in File |-> "private"]
  /\ bytes = [f \in File |-> "none"]
  /\ asked = [r \in Recipient |-> NoFile]
  /\ shared = {}

Receive(f) ==
  /\ fate[f] = "private"
  /\ bytes[f] = "none"
  /\ \E b \in {"sound", "unfit"} : bytes' = [bytes EXCEPT ![f] = b]
  /\ UNCHANGED <<fate, asked, shared>>

Open(f) ==
  /\ fate[f] = "private"
  /\ bytes[f] = "sound"
  /\ fate' = [fate EXCEPT ![f] = "open"]
  /\ UNCHANGED <<bytes, asked, shared>>

Close(f) ==
  /\ fate[f] \in {"private", "open"}
  /\ fate' = [fate EXCEPT ![f] = "closed"]
  /\ UNCHANGED <<bytes, asked, shared>>

TellOwner(f) ==
  /\ fate[f] = "open"
  /\ shared' = shared \cup {f}
  /\ UNCHANGED <<fate, bytes, asked>>

Ask(r, f) ==
  /\ asked[r] = NoFile
  /\ fate[f] = "open"
  /\ asked' = [asked EXCEPT ![r] = f]
  /\ UNCHANGED <<fate, bytes, shared>>

Answer(r) ==
  /\ asked[r] # NoFile
  /\ \E given \in SUBSET {asked[r]} : shared' = shared \cup given
  /\ asked' = [asked EXCEPT ![r] = NoFile]
  /\ UNCHANGED <<fate, bytes>>

SharingNext ==
  \/ \E f \in File :
       \/ Receive(f)
       \/ Open(f)
       \/ Close(f)
       \/ TellOwner(f)
       \/ \E r \in Recipient : Ask(r, f)
  \/ \E r \in Recipient : Answer(r)

SharingSpec == SharingInit /\ [][SharingNext]_sharingVars

=============================================================================
