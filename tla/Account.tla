------------------------------- MODULE Account -------------------------------
(***************************************************************************)
(* Accounts and the history of sent files: the tabs of several users       *)
(* (App.tsx, LoginForm.tsx, RegisterForm.tsx, MonEspace.tsx and its        *)
(* ConfirmDeleteDialog.tsx) and what the API does with their requests      *)
(* (auth.service.ts; listFiles and deleteOwnedFile as one step each).      *)
(*                                                                         *)
(* Each tab is the browser of one user, who has one password: users[e] is  *)
(* the tab whose password opens account e.  A request outlives the form or *)
(* the list that sent it; only closing the page forgets it.                *)
(***************************************************************************)

CONSTANTS
  Tab, NoTab,
  Email, NoEmail,
  Types,           \* bound: the addresses the user of each tab types
  File, NoFile,
  Owner,           \* the account each file is sent from
  Filter,          \* bound: the filters users choose, "all" among them
  Call             \* bound: requests in flight, of all tabs

ASSUME AccountAssumption ==
  /\ NoTab \notin Tab /\ NoEmail \notin Email /\ NoFile \notin File
  /\ Owner \in [File -> Email] /\ Types \in [Tab -> SUBSET Email]
  /\ "all" \in Filter /\ Filter \subseteq {"all", "active", "expired"}

VARIABLES
  users,   \* users[e]: the row of e in the table, by its password
  row,     \* row[f]: its state, as far as the history tells states apart
  tab,     \* tab[t]: the state of App and of the component it shows
  call     \* call[c]: a request in flight, or its answer

vars == <<users, row, tab, call>>

Settled == {"ready", "expired", "rejected"}

\* `list`, `filter`, `shown`, `target` and `deleting` are MonEspace's.
SignedOut == [view |-> "login", token |-> NoEmail, busy |-> FALSE,
              filter |-> "all", list |-> "loading", shown |-> {},
              target |-> NoFile, deleting |-> FALSE]

NoCall == [what |-> "none", answer |-> "none", tab |-> NoTab, from |-> "closed",
           who |-> NoEmail, filter |-> "all", file |-> NoFile, files |-> {}]

AccountTypeOK ==
  /\ users \in [Email -> Tab \cup {NoTab}]
  /\ row \in [File -> Settled \cup {"unsent", "deleted"}]
  /\ tab \in [Tab -> [view : {"login", "register", "uploader", "history"},
                      token : Email \cup {NoEmail}, busy : BOOLEAN,
                      filter : Filter, list : {"loading", "loaded", "error"},
                      shown : SUBSET File, target : File \cup {NoFile},
                      deleting : BOOLEAN]]
  /\ call \in [Call -> [what : {"none", "register", "create", "login", "list", "delete"},
                        answer : {"none", "ok", "refused", "unauthorized"},
                        tab : Tab \cup {NoTab},
                        from : {"mounted", "unmounted", "closed"},
                        who : Email \cup {NoEmail}, filter : Filter,
                        file : File \cup {NoFile}, files : SUBSET File]]
  /\ \A t \in Tab :
       /\ (tab[t].token = NoEmail) <=> (tab[t].view \in {"login", "register"})
       /\ tab[t].busy => tab[t].token = NoEmail
       /\ tab[t].deleting => tab[t].target # NoFile

Init ==
  /\ users = [e \in Email |-> NoTab]
  /\ row = [f \in File |-> "unsent"]
  /\ tab = [t \in Tab |-> SignedOut]
  /\ call = [c \in Call |-> NoCall]

-----------------------------------------------------------------------------
(* App, the forms and MonEspace. *)

\* The component that sent the requests of t is unmounted: they go on.
Unmounted(t) ==
  [c \in Call |-> IF call[c].tab = t /\ call[c].from = "mounted"
                  THEN [call[c] EXCEPT !.from = "unmounted"] ELSE call[c]]

\* calls and one more request of t
Sends(t, calls, what, who, filter, file) ==
  \E c \in Call :
    /\ calls[c] = NoCall
    /\ call' = [calls EXCEPT ![c] =
         [what |-> what, answer |-> "none", tab |-> t, from |-> "mounted",
          who |-> who, filter |-> filter, file |-> file, files |-> {}]]

\* onNavigateRegister, onNavigateLogin: nothing disables the link meanwhile.
SwitchForm(t) ==
  /\ tab[t].token = NoEmail
  /\ tab' = [tab EXCEPT ![t].busy = FALSE,
                        ![t].view = IF @ = "login" THEN "register" ELSE "login"]
  /\ call' = Unmounted(t)
  /\ UNCHANGED <<users, row>>

\* handleSubmit of either form, past the checks of the fields
Submit(t, e) ==
  /\ tab[t].token = NoEmail /\ ~tab[t].busy
  /\ tab' = [tab EXCEPT ![t].busy = TRUE]
  /\ Sends(t, call, tab[t].view, e, "all", NoFile)
  /\ UNCHANGED <<users, row>>

\* load in MonEspace m: the state it sets and the request it sends
Loading(m) == [m EXCEPT !.list = "loading", !.shown = {}]
Lists(t, calls, m) == Sends(t, calls, "list", m.token, m.filter, NoFile)

OpenHistory(t) ==
  LET m == [SignedOut EXCEPT !.view = "history", !.token = tab[t].token] IN
  /\ tab[t].view = "uploader"
  /\ tab' = [tab EXCEPT ![t] = m]
  /\ Lists(t, call, m)
  /\ UNCHANGED <<users, row>>

\* The overlay of the dialog covers what is behind it, here and below.
LeaveHistory(t) ==
  /\ tab[t].view = "history" /\ tab[t].target = NoFile
  /\ tab' = [tab EXCEPT ![t] = [SignedOut EXCEPT !.view = "uploader", !.token = tab[t].token]]
  /\ call' = Unmounted(t)
  /\ UNCHANGED <<users, row>>

\* handleLogout: the forms come back, whatever was shown.
Logout(t) ==
  /\ tab[t].view = "history" /\ tab[t].target = NoFile
  /\ tab' = [tab EXCEPT ![t] = SignedOut]
  /\ call' = Unmounted(t)
  /\ UNCHANGED <<users, row>>

\* A request whose page is gone: served all the same, its answer lost
Orphaned(k) == IF k.answer # "none" THEN NoCall ELSE [k EXCEPT !.from = "closed"]

\* The page is closed or reloaded; the token is in localStorage.
Reload(t) ==
  /\ tab' = [tab EXCEPT ![t] = IF tab[t].token = NoEmail THEN SignedOut ELSE
       [SignedOut EXCEPT !.view = "uploader", !.token = tab[t].token]]
  /\ call' = [c \in Call |-> IF call[c].tab = t THEN Orphaned(call[c]) ELSE call[c]]
  /\ UNCHANGED <<users, row>>

SetFilter(t, filter) ==
  LET m == [Loading(tab[t]) EXCEPT !.filter = filter] IN
  /\ tab[t].view = "history" /\ tab[t].target = NoFile
  /\ filter # tab[t].filter
  /\ tab' = [tab EXCEPT ![t] = m]
  /\ Lists(t, call, m)
  /\ UNCHANGED <<users, row>>

AskDelete(t, f) ==
  /\ tab[t].view = "history" /\ tab[t].list = "loaded"
  /\ f \in tab[t].shown /\ tab[t].target = NoFile
  /\ tab' = [tab EXCEPT ![t].target = f]
  /\ UNCHANGED <<users, row, call>>

\* Mutant: the button stays enabled during the deletion.
CancelDeleteAnyTime(t) ==
  /\ tab[t].target # NoFile
  /\ tab' = [tab EXCEPT ![t].target = NoFile]
  /\ UNCHANGED <<users, row, call>>

CancelDelete(t) ==
  /\ tab[t].target # NoFile /\ ~tab[t].deleting
  /\ tab' = [tab EXCEPT ![t].target = NoFile]
  /\ UNCHANGED <<users, row, call>>

\* handleConfirm, handleDelete
ConfirmDelete(t) ==
  /\ tab[t].target # NoFile /\ ~tab[t].deleting
  /\ tab' = [tab EXCEPT ![t].deleting = TRUE]
  /\ Sends(t, call, "delete", tab[t].token, tab[t].filter, tab[t].target)
  /\ UNCHANGED <<users, row>>

-----------------------------------------------------------------------------
(* The API. *)

\* The answer of c, if its page is still open to take it
Answers(c, answer, files) ==
  call' = [call EXCEPT ![c] = IF @.from = "closed" THEN NoCall
                              ELSE [@ EXCEPT !.answer = answer, !.files = files]]

Serving(c, what) == call[c].what = what /\ call[c].answer = "none"

FindUser(c) ==
  /\ Serving(c, "register")
  /\ IF users[call[c].who] # NoTab THEN Answers(c, "refused", {})
     ELSE call' = [call EXCEPT ![c].what = "create"]
  /\ UNCHANGED <<users, row, tab>>

\* Mutant: the row is written as `upsert` would.
CreateUserAnew(c) ==
  /\ Serving(c, "create")
  /\ users' = [users EXCEPT ![call[c].who] = call[c].tab]
  /\ Answers(c, "ok", {})
  /\ UNCHANGED <<row, tab>>

\* After the hash: a row created since is found by the unique index alone.
CreateUser(c) ==
  LET e == call[c].who IN
  /\ Serving(c, "create")
  /\ IF users[e] = NoTab
     THEN users' = [users EXCEPT ![e] = call[c].tab] /\ Answers(c, "ok", {})
     ELSE UNCHANGED users /\ Answers(c, "refused", {})
  /\ UNCHANGED <<row, tab>>

\* An unknown address is compared too, and refused alike.
Login(c) ==
  /\ Serving(c, "login")
  /\ Answers(c, IF users[call[c].who] = call[c].tab THEN "ok" ELSE "refused", {})
  /\ UNCHANGED <<users, row, tab>>

States(filter) ==
  CASE filter = "active" -> {"ready"}
    [] filter = "expired" -> {"expired"}
    [] OTHER -> Settled

ListFiles(c) ==
  /\ Serving(c, "list")
  /\ Answers(c, "ok", {f \in File : Owner[f] = call[c].who /\ row[f] \in States(call[c].filter)})
  /\ UNCHANGED <<users, row, tab>>

DeleteFile(c) ==
  LET f == call[c].file IN
  /\ Serving(c, "delete")
  /\ IF Owner[f] = call[c].who /\ row[f] # "deleted"
     THEN row' = [row EXCEPT ![f] = "deleted"] /\ Answers(c, "ok", {})
     ELSE UNCHANGED row /\ Answers(c, "refused", {})
  /\ UNCHANGED <<users, tab>>

\* 429, 5xx or no connection; for a request with a token, one that is expired.
Refused(c, answer) ==
  /\ call[c].what # "none"
  /\ answer = "unauthorized" => call[c].what \in {"list", "delete"} /\ call[c].answer = "none"
  /\ Answers(c, answer, {})
  /\ UNCHANGED <<users, row, tab>>

-----------------------------------------------------------------------------
(* The answers. *)

Ended(c) == [call EXCEPT ![c] = NoCall]

\* The account exists: the form goes on with a login, shown or not.
Registered(c) ==
  /\ call[c].what = "create" /\ call[c].answer = "ok"
  /\ call' = [call EXCEPT ![c].what = "login", ![c].answer = "none"]
  /\ UNCHANGED <<users, row, tab>>

\* handleLogin.  A late token replaces that of a tab signed in since; a history
\* it finds open is loaded anew with it.
SignedIn(c) ==
  LET t == call[c].tab  m == [tab[t] EXCEPT !.token = call[c].who] IN
  /\ call[c].what = "login" /\ call[c].answer = "ok"
  /\ IF m.view = "history"
     THEN tab' = [tab EXCEPT ![t] = Loading(m)] /\ Lists(t, Ended(c), m)
     ELSE /\ tab' = [tab EXCEPT ![t] = IF m.view = "uploader" THEN m ELSE
               [m EXCEPT !.view = "uploader", !.busy = FALSE]]
          /\ call' = [Unmounted(t) EXCEPT ![c] = NoCall]
  /\ UNCHANGED <<users, row>>

\* catch, finally
FormRefused(c) ==
  /\ call[c].what \in {"register", "create", "login"} /\ call[c].answer = "refused"
  /\ tab' = [tab EXCEPT ![call[c].tab].busy = IF call[c].from = "mounted" THEN FALSE ELSE @]
  /\ call' = Ended(c)
  /\ UNCHANGED <<users, row>>

\* load resumes.  A 401 signs out whoever is signed in by now.
Listed(c) ==
  LET t == call[c].tab  m == tab[t] IN
  /\ call[c].what = "list" /\ call[c].answer # "none"
  /\ IF call[c].answer = "unauthorized"
     THEN tab' = [tab EXCEPT ![t] = SignedOut] /\ call' = [Unmounted(t) EXCEPT ![c] = NoCall]
     ELSE /\ tab' = [tab EXCEPT ![t] = IF call[c].from # "mounted" THEN m ELSE
               IF call[c].answer = "ok" THEN [m EXCEPT !.list = "loaded", !.shown = call[c].files]
               ELSE [m EXCEPT !.list = "error", !.shown = {}]]
          /\ call' = Ended(c)
  /\ UNCHANGED <<users, row>>

\* Mutant: the reload goes before the dialog closes, and is the only one that does.
DeletedStill(c) ==
  LET t == call[c].tab IN
  /\ call[c].what = "delete" /\ call[c].answer = "ok"
  /\ tab' = [tab EXCEPT ![t] = IF call[c].from # "mounted" THEN @ ELSE Loading(@)]
  /\ call' = [call EXCEPT ![c].what = "list", ![c].answer = "none", ![c].file = NoFile]
  /\ UNCHANGED <<users, row>>

\* handleDelete resumes, with the filter and the token it started with.
Deleted(c) ==
  LET t == call[c].tab IN
  /\ call[c].what = "delete" /\ call[c].answer = "ok"
  /\ tab' = [tab EXCEPT ![t] = IF call[c].from # "mounted" THEN @ ELSE
       [Loading(@) EXCEPT !.target = NoFile, !.deleting = FALSE]]
  /\ call' = [call EXCEPT ![c].what = "list", ![c].answer = "none", ![c].file = NoFile]
  /\ UNCHANGED <<users, row>>

\* handleConfirm catches, a 401 as well.
DeleteFailed(c) ==
  /\ call[c].what = "delete" /\ call[c].answer \in {"refused", "unauthorized"}
  /\ tab' = [tab EXCEPT ![call[c].tab].deleting = IF call[c].from = "mounted" THEN FALSE ELSE @]
  /\ call' = Ended(c)
  /\ UNCHANGED <<users, row>>

CallStep(c) ==
  \/ FindUser(c) \/ CreateUser(c) \/ Login(c) \/ ListFiles(c) \/ DeleteFile(c)
  \/ Registered(c) \/ SignedIn(c) \/ FormRefused(c) \/ Listed(c)
  \/ Deleted(c) \/ DeleteFailed(c)

-----------------------------------------------------------------------------

\* A file passes its checks and may expire (a refused one is listed as an
\* expired one is, under no other filter than "all").
Settle(f) ==
  /\ row[f] = "unsent" /\ users[Owner[f]] # NoTab
  /\ row' = [row EXCEPT ![f] = "ready"]
  /\ UNCHANGED <<users, tab, call>>

Expire(f) ==
  /\ row[f] = "ready"
  /\ row' = [row EXCEPT ![f] = "expired"]
  /\ UNCHANGED <<users, tab, call>>

Next ==
  \/ \E t \in Tab :
       \/ SwitchForm(t) \/ OpenHistory(t) \/ LeaveHistory(t) \/ Logout(t)
       \/ Reload(t) \/ CancelDelete(t) \/ ConfirmDelete(t)
       \/ \E e \in Types[t] : Submit(t, e)
       \/ \E filter \in Filter : SetFilter(t, filter)
       \/ \E f \in File : AskDelete(t, f)
  \/ \E c \in Call :
       \/ CallStep(c)
       \/ \E answer \in {"refused", "unauthorized"} : Refused(c, answer)
  \/ \E f \in File : Settle(f) \/ Expire(f)

Spec == Init /\ [][Next]_vars

-----------------------------------------------------------------------------

\* Whoever registers an address first keeps it: a tab is signed in to, and
\* shows or is about to delete files of, accounts of its own user only,
\* although the existence test and the insertion are two steps, requests
\* outlive the forms that sent them and a late token replaces a newer one.
AccountsAreTheirs ==
  \A t \in Tab :
    /\ tab[t].token # NoEmail => users[tab[t].token] = t
    /\ \A f \in tab[t].shown \cup ({tab[t].target} \ {NoFile}) : users[Owner[f]] = t

\* No form, list or dialog waits for nothing: while it says that it is busy,
\* a request it sent is under way whose answer, if only an error, it will take,
\* however many requests went out and whatever was mounted meanwhile.
WaitsForAnAnswer ==
  \A t \in Tab :
    LET Awaits(whats) ==
          \E c \in Call : call[c].tab = t /\ call[c].from = "mounted" /\ call[c].what \in whats
    IN
    /\ tab[t].busy => Awaits({"register", "create", "login"})
    /\ tab[t].deleting => Awaits({"delete"})
    /\ tab[t].view = "history" /\ tab[t].list = "loading" => Awaits({"list"})

=============================================================================
