------------------------------- MODULE Download -------------------------------
(***************************************************************************)
(* DownloadService, the recipient's side.  POST /d/:token reads the row    *)
(* once (resolveToken), compares the password with bcrypt, and signs a URL *)
(* for the key it read; the row may change in between.  Requests that end  *)
(* at the first read (404, 410) change nothing.                            *)
(***************************************************************************)
EXTENDS Store

CONSTANT Recipient

VARIABLES
  ask,            \* the POST in flight of each recipient
  links           \* files for which a download URL was ever signed

downloadVars == <<ask, links>>

InAsk(label, f) == [pc |-> label, file |-> f]

IdleAsk == InAsk("idle", NoFile)

DownloadTypeOK ==
  /\ ask \in [Recipient -> {IdleAsk} \cup [pc: {"sign"}, file: File]]
  /\ links \in SUBSET File

DownloadInit ==
  /\ ask = [r \in Recipient |-> IdleAsk]
  /\ links = {}

\* Mutant: every state GET /d/:token answers for.
ResolvesEarly(f) ==
  /\ state[f] \in {"uploaded", "scanning", "ready"}
  /\ f \notin overdue
  /\ f \in keyed

\* resolveToken, then the state test of verifyPasswordAndGetUrl.  A null
\* storageKey would make the signer throw: nothing is signed then.
Resolves(f) == state[f] = "ready" /\ f \notin overdue /\ f \in keyed

VerifyPasswordAndGetUrl(r, f) ==
  /\ ask[r] = IdleAsk
  /\ Resolves(f)
  /\ ask' = [ask EXCEPT ![r] = InAsk("sign", f)]
  /\ UNCHANGED <<storeVars, links>>

\* 401
RefuseUrl(r) ==
  /\ ask[r].pc = "sign"
  /\ ask' = [ask EXCEPT ![r] = IdleAsk]
  /\ UNCHANGED <<storeVars, links>>

\* The key was read with the row: signing does not look at the store again.
SignDownloadUrl(r) ==
  /\ ask[r].pc = "sign"
  /\ links' = links \cup {ask[r].file}
  /\ ask' = [ask EXCEPT ![r] = IdleAsk]
  /\ UNCHANGED storeVars

DownloadNext ==
  \E r \in Recipient :
    \/ SignDownloadUrl(r)
    \/ RefuseUrl(r)
    \/ \E f \in File : VerifyPasswordAndGetUrl(r, f)

=============================================================================
