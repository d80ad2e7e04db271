----------------------------- MODULE AccountProofs -----------------------------
(***************************************************************************)
(* Proofs about Account, for any number of users, addresses, files and     *)
(* requests in flight.                                                     *)
(*                                                                         *)
(* A row of `users` is never changed once it is there, so a request or a   *)
(* tab that was entitled to an account stays so, however late it is: IInv  *)
(* says this of each tab and of each request, whatever its component.      *)
(***************************************************************************)
EXTENDS Account, TLAPS

TabRecord ==
  [view : {"login", "register", "uploader", "history"},
   token : Email \cup {NoEmail}, busy : BOOLEAN, filter : Filter,
   list : {"loading", "loaded", "error"}, shown : SUBSET File,
   target : File \cup {NoFile}, deleting : BOOLEAN]

CallRecord ==
  [what : {"none", "register", "create", "login", "list", "delete"},
   answer : {"none", "ok", "refused", "unauthorized"}, tab : Tab \cup {NoTab},
   from : {"mounted", "unmounted", "closed"}, who : Email \cup {NoEmail},
   filter : Filter, file : File \cup {NoFile}, files : SUBSET File]

\* m is a state that tab t may be in when the users are us.
TabOK(us, t, m) ==
  /\ m \in TabRecord
  /\ (m.token = NoEmail) <=> (m.view \in {"login", "register"})
  /\ m.busy => m.token = NoEmail
  /\ m.deleting => m.target # NoFile
  /\ m.target # NoFile => m.view = "history"
  /\ m.token # NoEmail => us[m.token] = t
  /\ \A f \in m.shown \cup ({m.target} \ {NoFile}) : us[Owner[f]] = t

CallOK(us, k) ==
  /\ k \in CallRecord
  /\ k.what = "none" => k = NoCall
  /\ k.what # "none" => k.tab \in Tab /\ k.who \in Email
  /\ k.what = "delete" => k.file \in File
  /\ k.what \in {"list", "delete"} \/ (k.what = "login" /\ k.answer = "ok") =>
       us[k.who] = k.tab
  /\ \A f \in k.files : us[Owner[f]] = k.tab

IInv ==
  /\ users \in [Email -> Tab \cup {NoTab}]
  /\ row \in [File -> Settled \cup {"unsent", "deleted"}]
  /\ tab \in [Tab -> TabRecord]
  /\ call \in [Call -> CallRecord]
  /\ \A t \in Tab : TabOK(users, t, tab[t])
  /\ \A c \in Call : CallOK(users, call[c])

LEMMA SignedOutOK ==
  ASSUME NEW us, NEW t \in Tab
  PROVE  TabOK(us, t, SignedOut)
BY AccountAssumption DEF TabOK, TabRecord, SignedOut

\* A tab that keeps its token and shows the uploader or a fresh history
LEMMA FreshOK ==
  ASSUME NEW us, NEW t \in Tab, NEW m, TabOK(us, t, m), m.token # NoEmail,
         NEW view \in {"uploader", "history"}
  PROVE  TabOK(us, t, [SignedOut EXCEPT !.view = view, !.token = m.token])
BY AccountAssumption DEF TabOK, TabRecord, SignedOut

LEMMA NoCallOK == ASSUME NEW us PROVE CallOK(us, NoCall)
BY AccountAssumption DEF CallOK, CallRecord, NoCall

\* One request more, in a slot of its own
LEMMA SendsOK ==
  ASSUME NEW us, NEW calls \in [Call -> CallRecord],
         \A c \in Call : CallOK(us, calls[c]),
         NEW t \in Tab, NEW what \in {"register", "login", "list", "delete"},
         NEW who \in Email, NEW filter \in Filter, NEW file \in File \cup {NoFile},
         what = "delete" => file \in File,
         what \in {"list", "delete"} => us[who] = t,
         Sends(t, calls, what, who, filter, file)
  PROVE  /\ call' \in [Call -> CallRecord] /\ \A c \in Call : CallOK(us, call'[c])
         /\ \E c \in Call :
              /\ calls[c].what = "none"
              /\ call'[c].tab = t /\ call'[c].from = "mounted" /\ call'[c].what = what
              /\ \A d \in Call \ {c} : call'[d] = calls[d]
<1> DEFINE k == [what |-> what, answer |-> "none", tab |-> t, from |-> "mounted",
                 who |-> who, filter |-> filter, file |-> file, files |-> {}]
<1>1. PICK c \in Call : calls[c] = NoCall /\ call' = [calls EXCEPT ![c] = k]
  BY DEF Sends
<1>2. CallOK(us, k) /\ k \in CallRecord
  BY DEF CallOK, CallRecord
<1>3. NoCall.what = "none"
  BY DEF NoCall
<1> QED  BY <1>1, <1>2, <1>3

LEMMA UnmountedOK ==
  ASSUME IInv, NEW t \in Tab
  PROVE  /\ Unmounted(t) \in [Call -> CallRecord]
         /\ \A c \in Call : CallOK(users, Unmounted(t)[c])
         /\ \A c \in Call : call[c].tab # t => Unmounted(t)[c] = call[c]
<1>1. ASSUME NEW c \in Call
      PROVE  CallOK(users, Unmounted(t)[c]) /\ Unmounted(t)[c] \in CallRecord
  <2>1. CallOK(users, call[c]) /\ NoCall.from = "closed" /\ call[c] \in CallRecord
    BY DEF IInv, NoCall
  <2>2. Unmounted(t)[c] = IF call[c].tab = t /\ call[c].from = "mounted"
                          THEN [call[c] EXCEPT !.from = "unmounted"] ELSE call[c]
    BY DEF Unmounted
  <2> QED  BY <2>1, <2>2 DEF CallOK, CallRecord
<1> QED  BY <1>1 DEF Unmounted

\* An answer to request c, or the end of it
LEMMA AnswersOK ==
  ASSUME IInv, NEW c \in Call, call[c].what # "none",
         NEW answer \in {"ok", "refused", "unauthorized"}, NEW files \in SUBSET File,
         Answers(c, answer, files),
         call[c].what = "login" /\ answer = "ok" => users[call[c].who] = call[c].tab,
         \A f \in files : users[Owner[f]] = call[c].tab
  PROVE  /\ call' \in [Call -> CallRecord] /\ \A d \in Call : CallOK(users, call'[d])
         /\ call' = [call EXCEPT ![c] = call'[c]]
         /\ call[c].from # "closed" =>
              call'[c] = [call[c] EXCEPT !.answer = answer, !.files = files]
<1> DEFINE k == [call[c] EXCEPT !.answer = answer, !.files = files]
<1>1. call \in [Call -> CallRecord] /\ \A d \in Call : CallOK(users, call[d])
  BY DEF IInv
<1>2. CallOK(users, k) /\ k \in CallRecord
  <2> call[c] \in CallRecord
    BY <1>1
  <2>1. k \in CallRecord
    BY DEF CallRecord
  <2>2. /\ k.what = call[c].what /\ k.tab = call[c].tab /\ k.who = call[c].who
        /\ k.file = call[c].file /\ k.answer = answer /\ k.files = files
    BY <1>1 DEF CallRecord
  <2> HIDE DEF k
  <2> QED  BY <1>1, <2>1, <2>2 DEF CallOK
<1>3. call' = [call EXCEPT ![c] = IF call[c].from = "closed" THEN NoCall ELSE k]
  BY DEF Answers
<1>4. CallOK(users, NoCall) /\ NoCall \in CallRecord
  BY NoCallOK DEF CallOK
<1> HIDE DEF k
<1>5. call' \in [Call -> CallRecord] /\ \A d \in Call : CallOK(users, call'[d])
  BY <1>1, <1>2, <1>3, <1>4
<1>6. call' = [call EXCEPT ![c] = call'[c]] /\ (call[c].from # "closed" => call'[c] = k)
  BY <1>1, <1>3
<1> QED  BY <1>5, <1>6 DEF k

\* An answer that lists nothing
LEMMA PlainAnswerOK ==
  ASSUME IInv, NEW c \in Call, call[c].what # "none",
         NEW answer \in {"ok", "refused", "unauthorized"}, Answers(c, answer, {}),
         call[c].what = "login" /\ answer = "ok" => users[call[c].who] = call[c].tab
  PROVE  call' \in [Call -> CallRecord] /\ \A d \in Call : CallOK(users, call'[d])
<1>1. {} \in SUBSET File /\ \A f \in {} : users[Owner[f]] = call[c].tab
  OBVIOUS
<1> QED  BY <1>1, AnswersOK

LEMMA EndedOK ==
  ASSUME IInv, NEW c \in Call
  PROVE  /\ Ended(c) \in [Call -> CallRecord]
         /\ \A d \in Call : CallOK(users, Ended(c)[d])
         /\ \A d \in Call \ {c} : Ended(c)[d] = call[d]
<1>1. CallOK(users, NoCall) /\ NoCall \in CallRecord
  BY NoCallOK DEF CallOK
<1> QED  BY <1>1 DEF Ended, IInv

\* A step that gives tab t the state m and leaves the users as they are
LEMMA TabStep ==
  ASSUME IInv, users' = users,
         row' \in [File -> Settled \cup {"unsent", "deleted"}],
         NEW t \in Tab, NEW m, TabOK(users, t, m), tab' = [tab EXCEPT ![t] = m],
         call' \in [Call -> CallRecord], \A c \in Call : CallOK(users, call'[c])
  PROVE  IInv'
<1>1. m \in TabRecord
  BY DEF TabOK
<1>2. tab' \in [Tab -> TabRecord]
  BY <1>1 DEF IInv
<1>3. \A u \in Tab : TabOK(users, u, tab'[u])
  BY DEF IInv
<1> QED  BY <1>2, <1>3 DEF IInv

\* A step that leaves the tabs and the users as they are
LEMMA CallStepOK ==
  ASSUME IInv, users' = users, tab' = tab,
         row' \in [File -> Settled \cup {"unsent", "deleted"}],
         call' \in [Call -> CallRecord], \A c \in Call : CallOK(users, call'[c])
  PROVE  IInv'
BY DEF IInv

\* The steps of a user at tab t
LEMMA TabActions ==
  ASSUME IInv, NEW t \in Tab,
         \/ SwitchForm(t) \/ OpenHistory(t) \/ LeaveHistory(t) \/ Logout(t)
         \/ Reload(t) \/ CancelDelete(t) \/ ConfirmDelete(t)
         \/ \E e \in Types[t] : Submit(t, e)
         \/ \E filter \in Filter : SetFilter(t, filter)
         \/ \E f \in File : AskDelete(t, f)
  PROVE  IInv'
<1> DEFINE m == tab[t]
<1>1. /\ TabOK(users, t, m) /\ m \in TabRecord /\ users \in [Email -> Tab \cup {NoTab}]
      /\ row \in [File -> Settled \cup {"unsent", "deleted"}]
      /\ tab \in [Tab -> TabRecord] /\ call \in [Call -> CallRecord]
      /\ \A c \in Call : CallOK(users, call[c])
  BY DEF IInv
<1>2. TabOK(users, t, SignedOut)
  BY SignedOutOK
<1>3. /\ Unmounted(t) \in [Call -> CallRecord]
      /\ \A c \in Call : CallOK(users, Unmounted(t)[c])
  BY UnmountedOK
<1>4. ASSUME m.token # NoEmail, NEW view \in {"uploader", "history"}
      PROVE  TabOK(users, t, [SignedOut EXCEPT !.view = view, !.token = m.token])
  BY <1>1, <1>4, FreshOK
<1>5. CASE SwitchForm(t)
  <2> DEFINE n == [m EXCEPT !.busy = FALSE,
                            !.view = IF m.view = "login" THEN "register" ELSE "login"]
  <2>1. m.token = NoEmail /\ tab' = [tab EXCEPT ![t] = n]
    BY <1>1, <1>5 DEF SwitchForm
  <2>2. TabOK(users, t, n)
    BY <1>1, <2>1 DEF TabOK, TabRecord
  <2> HIDE DEF n
  <2> QED  BY <1>1, <1>3, <1>5, <2>1, <2>2, TabStep DEF SwitchForm
<1>6. CASE OpenHistory(t)
  <2> DEFINE n == [SignedOut EXCEPT !.view = "history", !.token = m.token]
  <2>1. m.token # NoEmail /\ m.token \in Email
    BY <1>1, <1>6 DEF OpenHistory, TabOK, TabRecord
  <2>2. TabOK(users, t, n)
    BY <1>4, <2>1
  <2>3. n.token = m.token /\ n.filter \in Filter /\ users[n.token] = t
    BY <2>1, <2>2 DEF TabOK, TabRecord, SignedOut
  <2>4. Sends(t, call, "list", n.token, n.filter, NoFile)
    BY <1>6 DEF OpenHistory, Lists
  <2> HIDE DEF n
  <2>5. call' \in [Call -> CallRecord] /\ \A c \in Call : CallOK(users, call'[c])
    BY <1>1, <2>1, <2>3, <2>4, SendsOK
  <2> QED  BY <1>1, <1>6, <2>2, <2>5, TabStep DEF OpenHistory, n
<1>7. CASE LeaveHistory(t)
  <2>1. m.token # NoEmail
    BY <1>1, <1>7 DEF LeaveHistory, TabOK
  <2>2. TabOK(users, t, [SignedOut EXCEPT !.view = "uploader", !.token = m.token])
    BY <1>4, <2>1
  <2> QED  BY <1>1, <1>3, <1>7, <2>2, TabStep DEF LeaveHistory
<1>8. CASE Logout(t)
  BY <1>1, <1>2, <1>3, <1>8, TabStep DEF Logout
<1>9. CASE Reload(t)
  <2> DEFINE n == IF m.token = NoEmail THEN SignedOut
                  ELSE [SignedOut EXCEPT !.view = "uploader", !.token = m.token]
  <2>1. TabOK(users, t, n)
    BY <1>2, <1>4
  <2>2. ASSUME NEW c \in Call  PROVE CallOK(users, call'[c]) /\ call'[c] \in CallRecord
    <3>1. CallOK(users, call[c]) /\ call[c] \in CallRecord
      BY <1>1
    <3>2. CallOK(users, NoCall) /\ NoCall \in CallRecord
      BY NoCallOK DEF CallOK
    <3>3. \/ call'[c] = call[c] \/ call'[c] = NoCall
          \/ call'[c] = [call[c] EXCEPT !.from = "closed"]
      BY <1>9 DEF Reload, Orphaned
    <3>4. CallOK(users, [call[c] EXCEPT !.from = "closed"])
      <4>1. [NoCall EXCEPT !.from = "closed"] = NoCall
        BY DEF NoCall
      <4>2. CASE call[c].what = "none"
        BY <3>1, <3>2, <4>1, <4>2 DEF CallOK
      <4>3. CASE call[c].what # "none"
        BY <3>1, <4>3 DEF CallOK, CallRecord
      <4> QED  BY <4>2, <4>3
    <3>5. [call[c] EXCEPT !.from = "closed"] \in CallRecord
      BY <3>1 DEF CallRecord
    <3> QED  BY <3>1, <3>2, <3>3, <3>4, <3>5
  <2>3. call' \in [Call -> CallRecord]
    BY <1>9, <2>2 DEF Reload
  <2> QED  BY <1>1, <1>9, <2>1, <2>2, <2>3, TabStep DEF Reload
<1>10. CASE CancelDelete(t)
  <2> DEFINE n == [m EXCEPT !.target = NoFile]
  <2>1. TabOK(users, t, n)
    BY <1>1, <1>10 DEF TabOK, TabRecord, CancelDelete
  <2> QED  BY <1>1, <1>10, <2>1, TabStep DEF CancelDelete
<1>11. CASE ConfirmDelete(t)
  <2> DEFINE n == [m EXCEPT !.deleting = TRUE]
  <2>1. TabOK(users, t, n)
    BY <1>1, <1>11 DEF TabOK, TabRecord, ConfirmDelete
  <2>2. /\ m.token \in Email /\ m.filter \in Filter /\ m.target \in File
        /\ users[m.token] = t
    BY <1>1, <1>11 DEF TabOK, TabRecord, ConfirmDelete
  <2>3. call' \in [Call -> CallRecord] /\ \A c \in Call : CallOK(users, call'[c])
    BY <1>1, <1>11, <2>2, SendsOK DEF ConfirmDelete
  <2> QED  BY <1>1, <1>11, <2>1, <2>3, TabStep DEF ConfirmDelete
<1>12. ASSUME NEW e \in Types[t], Submit(t, e)  PROVE IInv'
  <2> DEFINE n == [m EXCEPT !.busy = TRUE]
  <2>1. e \in Email /\ m.view \in {"login", "register"}
    BY <1>1, <1>12, AccountAssumption DEF TabOK, Submit
  <2>2. TabOK(users, t, n)
    BY <1>1, <1>12 DEF TabOK, TabRecord, Submit
  <2>3. call' \in [Call -> CallRecord] /\ \A c \in Call : CallOK(users, call'[c])
    BY <1>1, <1>12, <2>1, SendsOK, AccountAssumption DEF Submit
  <2> QED  BY <1>1, <1>12, <2>2, <2>3, TabStep DEF Submit
<1>13. ASSUME NEW filter \in Filter, SetFilter(t, filter)  PROVE IInv'
  <2> DEFINE n == [Loading(m) EXCEPT !.filter = filter]
  <2>1. TabOK(users, t, n)
    BY <1>1, <1>13 DEF TabOK, TabRecord, SetFilter, Loading
  <2>2. /\ n.token = m.token /\ n.filter = filter
        /\ m.token \in Email /\ users[m.token] = t
    BY <1>1, <1>13 DEF TabOK, TabRecord, SetFilter, Loading
  <2>3. Sends(t, call, "list", m.token, filter, NoFile)
    BY <1>13, <2>2 DEF SetFilter, Lists
  <2>4. call' \in [Call -> CallRecord] /\ \A c \in Call : CallOK(users, call'[c])
    BY <1>1, <2>2, <2>3, SendsOK
  <2> QED  BY <1>1, <1>13, <2>1, <2>4, TabStep DEF SetFilter
<1>14. ASSUME NEW f \in File, AskDelete(t, f)  PROVE IInv'
  <2> DEFINE n == [m EXCEPT !.target = f]
  <2>1. TabOK(users, t, n)
    BY <1>1, <1>14, AccountAssumption DEF TabOK, TabRecord, AskDelete
  <2> QED  BY <1>1, <1>14, <2>1, TabStep DEF AskDelete
<1> QED  BY <1>5, <1>6, <1>7, <1>8, <1>9, <1>10, <1>11, <1>12, <1>13, <1>14

\* The steps of the API: CreateUser alone writes users, and only a new row.
LEMMA ServedOK ==
  ASSUME IInv, NEW c \in Call,
         \/ FindUser(c) \/ CreateUser(c) \/ Login(c) \/ ListFiles(c) \/ DeleteFile(c)
         \/ \E answer \in {"refused", "unauthorized"} : Refused(c, answer)
  PROVE  IInv'
<1>1. /\ CallOK(users, call[c]) /\ call[c] \in CallRecord
      /\ users \in [Email -> Tab \cup {NoTab}]
      /\ row \in [File -> Settled \cup {"unsent", "deleted"}]
      /\ call \in [Call -> CallRecord] /\ \A d \in Call : CallOK(users, call[d])
  BY DEF IInv
<1>2. CASE FindUser(c)
  <2>1. call[c].what # "none"
    BY <1>2 DEF FindUser, Serving
  <2>2. CASE Answers(c, "refused", {})
    BY <1>1, <1>2, <2>1, <2>2, PlainAnswerOK, CallStepOK DEF FindUser
  <2>3. CASE call' = [call EXCEPT ![c].what = "create"]
    <3> DEFINE k == [call[c] EXCEPT !.what = "create"]
    <3>1. CallOK(users, k) /\ k \in CallRecord
      BY <1>1, <2>1 DEF CallOK, CallRecord
    <3>2. call' = [call EXCEPT ![c] = k]
      BY <2>3
    <3> HIDE DEF k
    <3>3. call' \in [Call -> CallRecord] /\ \A d \in Call : CallOK(users, call'[d])
      BY <1>1, <3>1, <3>2
    <3> QED  BY <1>1, <1>2, <3>3, CallStepOK DEF FindUser
  <2> QED  BY <1>2, <2>2, <2>3 DEF FindUser
<1>3. CASE CreateUser(c)
  <2> DEFINE e == call[c].who
  <2>1. call[c].what = "create" /\ call[c].tab \in Tab /\ e \in Email
    BY <1>1, <1>3 DEF CreateUser, Serving, CallOK
  <2>2. Answers(c, "ok", {}) \/ Answers(c, "refused", {})
    BY <1>3 DEF CreateUser
  <2>3. call' \in [Call -> CallRecord] /\ \A d \in Call : CallOK(users, call'[d])
    BY <2>1, <2>2, PlainAnswerOK
  <2>4. CASE users[e] # NoTab
    BY <1>1, <1>3, <2>3, <2>4, CallStepOK DEF CreateUser
  <2>5. CASE users[e] = NoTab
    <3>1. users' = [users EXCEPT ![e] = call[c].tab] /\ tab' = tab /\ row' = row
      BY <1>3, <2>5 DEF CreateUser
    <3>2. \A a \in Email : users[a] \in Tab => users'[a] = users[a]
      BY <1>1, <2>1, <2>5, <3>1, AccountAssumption
    <3>3. \A f \in File : Owner[f] \in Email
      BY AccountAssumption
    <3>4. ASSUME NEW t \in Tab  PROVE TabOK(users', t, tab'[t])
      <4>1. TabOK(users, t, tab[t])
        BY DEF IInv
      <4> QED  BY <3>1, <3>2, <3>3, <4>1 DEF TabOK, TabRecord
    <3>5. ASSUME NEW d \in Call  PROVE CallOK(users', call'[d])
      <4> DEFINE k == call'[d]
      <4>1. CallOK(users, k)
        BY <2>3
      <4>2. k.files \subseteq File /\ (k.files # {} => k.what # "none")
        BY <4>1 DEF CallOK, CallRecord, NoCall
      <4>3. k.what # "none" => k.tab \in Tab /\ k.who \in Email
        BY <4>1 DEF CallOK
      <4> HIDE DEF k
      <4>4. \A f \in k.files : users'[Owner[f]] = k.tab
        BY <3>2, <3>3, <4>1, <4>2, <4>3 DEF CallOK
      <4>5. k.what \in {"list", "delete"} \/ (k.what = "login" /\ k.answer = "ok") =>
              users'[k.who] = k.tab
        BY <3>2, <4>1, <4>3 DEF CallOK
      <4>6. CallOK(users', k)
        BY <4>1, <4>4, <4>5 DEF CallOK
      <4> QED  BY <4>6 DEF k
    <3>6. users' \in [Email -> Tab \cup {NoTab}]
      BY <1>1, <2>1, <3>1
    <3> QED  BY <2>3, <3>1, <3>4, <3>5, <3>6 DEF IInv
  <2> QED  BY <2>4, <2>5
<1>4. CASE Login(c)
  <2> DEFINE answer == IF users[call[c].who] = call[c].tab THEN "ok" ELSE "refused"
  <2>1. call[c].what # "none" /\ Answers(c, answer, {})
    BY <1>4 DEF Login, Serving
  <2>2. call' \in [Call -> CallRecord] /\ \A d \in Call : CallOK(users, call'[d])
    BY <2>1, PlainAnswerOK
  <2> QED  BY <1>1, <1>4, <2>2, CallStepOK DEF Login
<1>5. CASE ListFiles(c)
  <2> DEFINE files == {f \in File : Owner[f] = call[c].who /\ row[f] \in States(call[c].filter)}
  <2>1. call[c].what = "list" /\ Answers(c, "ok", files)
    BY <1>5 DEF ListFiles, Serving
  <2>2. files \subseteq File /\ \A f \in files : users[Owner[f]] = call[c].tab
    BY <1>1, <2>1 DEF CallOK
  <2> HIDE DEF files
  <2>3. call' \in [Call -> CallRecord] /\ \A d \in Call : CallOK(users, call'[d])
    BY <2>1, <2>2, AnswersOK
  <2> QED  BY <1>1, <1>5, <2>3, CallStepOK DEF ListFiles
<1>6. CASE DeleteFile(c)
  <2>1. call[c].what = "delete" /\ (Answers(c, "ok", {}) \/ Answers(c, "refused", {}))
    BY <1>6 DEF DeleteFile, Serving
  <2>2. call' \in [Call -> CallRecord] /\ \A d \in Call : CallOK(users, call'[d])
    BY <2>1, PlainAnswerOK
  <2>3. row' \in [File -> Settled \cup {"unsent", "deleted"}]
    BY <1>1, <1>6 DEF DeleteFile
  <2> QED  BY <1>6, <2>2, <2>3, CallStepOK DEF DeleteFile
<1>7. ASSUME NEW answer \in {"refused", "unauthorized"}, Refused(c, answer)  PROVE IInv'
  <2>1. call' \in [Call -> CallRecord] /\ \A d \in Call : CallOK(users, call'[d])
    BY <1>7, PlainAnswerOK DEF Refused
  <2> QED  BY <1>1, <1>7, <2>1, CallStepOK DEF Refused
<1> QED  BY <1>2, <1>3, <1>4, <1>5, <1>6, <1>7

\* The steps by which a page takes an answer, however late
LEMMA TakenOK ==
  ASSUME IInv, NEW c \in Call,
         \/ Registered(c) \/ SignedIn(c) \/ FormRefused(c)
         \/ Listed(c) \/ Deleted(c) \/ DeleteFailed(c)
  PROVE  IInv'
<1> DEFINE t == call[c].tab  m == tab[t]
<1>1. /\ CallOK(users, call[c]) /\ call[c] \in CallRecord
      /\ row \in [File -> Settled \cup {"unsent", "deleted"}]
      /\ users \in [Email -> Tab \cup {NoTab}]
      /\ call \in [Call -> CallRecord] /\ \A d \in Call : CallOK(users, call[d])
  BY DEF IInv
<1>2. call[c].what # "none" /\ t \in Tab /\ call[c].who \in Email
  BY <1>1 DEF CallOK, Registered, SignedIn, FormRefused, Listed, Deleted, DeleteFailed
<1>3. TabOK(users, t, m) /\ m \in TabRecord
  BY <1>2 DEF IInv, TabOK
<1>4. /\ Ended(c) \in [Call -> CallRecord]
      /\ \A d \in Call : CallOK(users, Ended(c)[d])
  BY EndedOK
<1>5. LET calls == [Unmounted(t) EXCEPT ![c] = NoCall] IN
      calls \in [Call -> CallRecord] /\ \A d \in Call : CallOK(users, calls[d])
  <2>1. CallOK(users, NoCall) /\ NoCall \in CallRecord
    BY NoCallOK DEF CallOK
  <2>2. /\ Unmounted(t) \in [Call -> CallRecord]
        /\ \A d \in Call : CallOK(users, Unmounted(t)[d])
    BY <1>2, UnmountedOK
  <2> QED  BY <2>1, <2>2
<1>6. CASE Registered(c)
  <2> DEFINE k == [call[c] EXCEPT !.what = "login", !.answer = "none"]
  <2>1. CallOK(users, k) /\ k \in CallRecord
    BY <1>1, <1>2 DEF CallOK, CallRecord
  <2>2. call' = [call EXCEPT ![c] = k]
    BY <1>6 DEF Registered
  <2> HIDE DEF k
  <2>3. call' \in [Call -> CallRecord] /\ \A d \in Call : CallOK(users, call'[d])
    BY <1>1, <2>1, <2>2
  <2> QED  BY <1>1, <1>6, <2>3, CallStepOK DEF Registered
<1>7. CASE SignedIn(c)
  <2> DEFINE n == [m EXCEPT !.token = call[c].who]
             u == [n EXCEPT !.view = "uploader", !.busy = FALSE]
  <2>1. users[call[c].who] = t /\ call[c].who # NoEmail
    BY <1>1, <1>2, <1>7, AccountAssumption DEF SignedIn, CallOK
  <2>2. CASE m.view = "history"
    <3>1. TabOK(users, t, Loading(n))
      BY <1>2, <1>3, <2>1, <2>2 DEF TabOK, TabRecord, Loading
    <3>2. /\ tab' = [tab EXCEPT ![t] = Loading(n)] /\ users' = users /\ row' = row
          /\ Sends(t, Ended(c), "list", call[c].who, m.filter, NoFile)
      BY <1>3, <1>7, <2>2 DEF SignedIn, Lists, TabRecord
    <3>3. call' \in [Call -> CallRecord] /\ \A d \in Call : CallOK(users, call'[d])
      BY <1>2, <1>3, <1>4, <2>1, <3>2, SendsOK DEF TabRecord
    <3> QED  BY <1>1, <1>2, <3>1, <3>2, <3>3, TabStep
  <2>3. CASE m.view = "uploader"
    <3>1. TabOK(users, t, n)
      BY <1>2, <1>3, <2>1, <2>3 DEF TabOK, TabRecord
    <3>2. /\ tab' = [tab EXCEPT ![t] = n] /\ users' = users /\ row' = row
          /\ call' = [Unmounted(t) EXCEPT ![c] = NoCall]
      BY <1>3, <1>7, <2>3 DEF SignedIn, TabRecord
    <3> QED  BY <1>1, <1>2, <1>5, <3>1, <3>2, TabStep
  <2>4. CASE m.view \in {"login", "register"}
    <3>1. TabOK(users, t, u)
      BY <1>2, <1>3, <2>1, <2>4 DEF TabOK, TabRecord
    <3>2. /\ tab' = [tab EXCEPT ![t] = u] /\ users' = users /\ row' = row
          /\ call' = [Unmounted(t) EXCEPT ![c] = NoCall]
      BY <1>3, <1>7, <2>4 DEF SignedIn, TabRecord
    <3> QED  BY <1>1, <1>2, <1>5, <3>1, <3>2, TabStep
  <2> QED  BY <1>3, <2>2, <2>3, <2>4 DEF TabRecord
<1>8. CASE FormRefused(c)
  <2> DEFINE n == [m EXCEPT !.busy = IF call[c].from = "mounted" THEN FALSE ELSE m.busy]
  <2>1. TabOK(users, t, n)
    BY <1>3 DEF TabOK, TabRecord
  <2>2. tab' = [tab EXCEPT ![t] = n] /\ users' = users /\ row' = row /\ call' = Ended(c)
    BY <1>8 DEF FormRefused
  <2> QED  BY <1>1, <1>2, <1>4, <2>1, <2>2, TabStep
<1>9. CASE Listed(c)
  <2>1. CASE call[c].answer = "unauthorized"
    BY <1>1, <1>2, <1>5, <1>9, <2>1, SignedOutOK, TabStep DEF Listed
  <2>2. CASE call[c].answer # "unauthorized"
    <3> DEFINE n == IF call[c].from # "mounted" THEN m ELSE
                    IF call[c].answer = "ok"
                    THEN [m EXCEPT !.list = "loaded", !.shown = call[c].files]
                    ELSE [m EXCEPT !.list = "error", !.shown = {}]
    <3>1. \A f \in call[c].files : users[Owner[f]] = t
      BY <1>1 DEF CallOK
    <3>2. TabOK(users, t, n)
      <4>1. TabOK(users, t, [m EXCEPT !.list = "loaded", !.shown = call[c].files])
        BY <1>1, <1>3, <3>1 DEF TabOK, TabRecord, CallRecord
      <4>2. TabOK(users, t, [m EXCEPT !.list = "error", !.shown = {}])
        BY <1>3 DEF TabOK, TabRecord
      <4> QED  BY <1>3, <4>1, <4>2
    <3>3. tab' = [tab EXCEPT ![t] = n] /\ users' = users /\ row' = row /\ call' = Ended(c)
      BY <1>9, <2>2 DEF Listed
    <3> HIDE DEF n
    <3> QED  BY <1>1, <1>2, <1>4, <3>2, <3>3, TabStep
  <2> QED  BY <2>1, <2>2
<1>10. CASE Deleted(c)
  <2> DEFINE n == IF call[c].from # "mounted" THEN m
                  ELSE [Loading(m) EXCEPT !.target = NoFile, !.deleting = FALSE]
             k == [call[c] EXCEPT !.what = "list", !.answer = "none", !.file = NoFile]
  <2>1. TabOK(users, t, n)
    BY <1>3 DEF TabOK, TabRecord, Loading
  <2>2. /\ tab' = [tab EXCEPT ![t] = n] /\ users' = users /\ row' = row
        /\ call' = [call EXCEPT ![c] = k]
    BY <1>10 DEF Deleted
  <2>3. CallOK(users, k) /\ k \in CallRecord
    BY <1>1, <1>2, <1>10 DEF CallOK, CallRecord, Deleted
  <2> HIDE DEF n, k
  <2>4. call' \in [Call -> CallRecord] /\ \A d \in Call : CallOK(users, call'[d])
    BY <1>1, <2>2, <2>3
  <2> QED  BY <1>1, <1>2, <2>1, <2>2, <2>4, TabStep
<1>11. CASE DeleteFailed(c)
  <2> DEFINE n == [m EXCEPT !.deleting = IF call[c].from = "mounted" THEN FALSE ELSE m.deleting]
  <2>1. TabOK(users, t, n)
    BY <1>3 DEF TabOK, TabRecord
  <2>2. tab' = [tab EXCEPT ![t] = n] /\ users' = users /\ row' = row /\ call' = Ended(c)
    BY <1>11 DEF DeleteFailed
  <2> QED  BY <1>1, <1>2, <1>4, <2>1, <2>2, TabStep
<1> QED  BY <1>6, <1>7, <1>8, <1>9, <1>10, <1>11

LEMMA FilesOK ==
  ASSUME IInv, NEW f \in File, Settle(f) \/ Expire(f)
  PROVE  IInv'
<1>1. row \in [File -> Settled \cup {"unsent", "deleted"}]
  BY DEF IInv
<1>2. users' = users /\ tab' = tab /\ call' = call
  BY DEF Settle, Expire
<1>3. row' \in [File -> Settled \cup {"unsent", "deleted"}]
  BY <1>1 DEF Settle, Expire, Settled
<1> QED  BY <1>2, <1>3 DEF IInv

LEMMA Initially == Init => IInv
<1> SUFFICES ASSUME Init  PROVE IInv
  OBVIOUS
<1>1. \A t \in Tab : tab[t] = SignedOut /\ TabOK(users, t, SignedOut)
  BY SignedOutOK DEF Init
<1>2. \A c \in Call : call[c] = NoCall /\ CallOK(users, NoCall)
  BY NoCallOK DEF Init
<1>3. SignedOut \in TabRecord /\ NoCall \in CallRecord
  BY <1>1, <1>2, AccountAssumption DEF SignedOut, TabRecord, NoCall, CallRecord
<1> QED  BY <1>1, <1>2, <1>3 DEF Init, IInv, Settled

LEMMA Inductive == IInv /\ [Next]_vars => IInv'
<1> SUFFICES ASSUME IInv, [Next]_vars  PROVE IInv'
  OBVIOUS
<1>1. CASE UNCHANGED vars
  BY <1>1 DEF IInv, vars
<1>2. CASE Next
  BY <1>2, TabActions, ServedOK, TakenOK, FilesOK DEF Next, CallStep
<1> QED  BY <1>1, <1>2

LEMMA Always == Spec => []IInv
BY Initially, Inductive, PTL DEF Spec

\* AccountTypeOK: the type, with a token exactly where no form is shown.
THEOREM AccountTypeCorrect == Spec => []AccountTypeOK
<1>1. IInv => AccountTypeOK
  BY DEF IInv, TabOK, TabRecord, CallRecord, AccountTypeOK
<1> QED  BY <1>1, Always, PTL

\* AccountsAreTheirs: in spite of registrations that race and of answers that
\* come late, a tab is only ever signed in to, or shows files of, its user.
THEOREM AccountsStayTheirs == Spec => []AccountsAreTheirs
<1>1. IInv => AccountsAreTheirs
  BY DEF IInv, TabOK, AccountsAreTheirs
<1> QED  BY <1>1, Always, PTL

-----------------------------------------------------------------------------

\* A request of t that its page still takes the answer of
Awaits(calls, t, whats) ==
  \E c \in Call : calls[c].tab = t /\ calls[c].from = "mounted" /\ calls[c].what \in whats

WaitsAt(calls, t, m) ==
  /\ m.busy => Awaits(calls, t, {"register", "create", "login"})
  /\ m.deleting => Awaits(calls, t, {"delete"})
  /\ m.view = "history" /\ m.list = "loading" => Awaits(calls, t, {"list"})

\* A step of tab t, or of its requests, leaves what other tabs wait for.
LEMMA OthersWait ==
  ASSUME WaitsForAnAnswer, NEW t \in Tab, WaitsAt(call', t, tab'[t]),
         \A u \in Tab \ {t} : tab'[u] = tab[u],
         \A c \in Call : call[c].tab \in Tab \ {t} => call'[c] = call[c]
  PROVE  WaitsForAnAnswer'
<1>1. \A u \in Tab : WaitsAt(call, u, tab[u])
  BY DEF WaitsForAnAnswer, WaitsAt, Awaits
<1>2. ASSUME NEW u \in Tab \ {t}  PROVE WaitsAt(call', u, tab'[u])
  BY <1>1, <1>2 DEF WaitsAt, Awaits
<1>3. \A u \in Tab : WaitsAt(call', u, tab'[u])
  BY <1>2
<1> QED  BY <1>3 DEF WaitsForAnAnswer, WaitsAt, Awaits

\* A step that keeps the tabs, and the kind of each request still awaited
LEMMA SameWait ==
  ASSUME WaitsForAnAnswer, tab' = tab,
         \A c \in Call : call[c].from = "mounted" =>
           /\ call'[c].from = "mounted" /\ call'[c].tab = call[c].tab
           /\ \/ call'[c].what = call[c].what
              \/ {call'[c].what, call[c].what} \subseteq {"register", "create", "login"}
  PROVE  WaitsForAnAnswer'
BY DEF WaitsForAnAnswer

\* What a new request of t adds to the requests in `calls`
LEMMA SentWait ==
  ASSUME NEW calls \in [Call -> CallRecord], NEW t \in Tab, NEW what, NEW who,
         NEW filter, NEW file, Sends(t, calls, what, who, filter, file)
  PROVE  /\ Awaits(call', t, {what})
         /\ \A whats : Awaits(calls, t, whats) => Awaits(call', t, whats)
         /\ \A c \in Call : calls[c].tab \in Tab => call'[c] = calls[c]
<1>1. PICK c \in Call :
        /\ calls[c] = NoCall
        /\ call' = [calls EXCEPT ![c] =
             [what |-> what, answer |-> "none", tab |-> t, from |-> "mounted",
              who |-> who, filter |-> filter, file |-> file, files |-> {}]]
  BY DEF Sends
<1>2. NoCall.tab \notin Tab /\ NoCall.from # "mounted"
  BY AccountAssumption DEF NoCall
<1>3. /\ call'[c].tab = t /\ call'[c].from = "mounted" /\ call'[c].what = what
      /\ \A d \in Call \ {c} : call'[d] = calls[d]
  BY <1>1
<1> QED  BY <1>1, <1>2, <1>3 DEF Awaits

LEMMA TabWaits ==
  ASSUME IInv, WaitsForAnAnswer, NEW t \in Tab,
         \/ SwitchForm(t) \/ OpenHistory(t) \/ LeaveHistory(t) \/ Logout(t)
         \/ Reload(t) \/ CancelDelete(t) \/ ConfirmDelete(t)
         \/ \E e \in Types[t] : Submit(t, e)
         \/ \E filter \in Filter : SetFilter(t, filter)
         \/ \E f \in File : AskDelete(t, f)
  PROVE  WaitsForAnAnswer'
<1> DEFINE m == tab[t]
<1>1. /\ TabOK(users, t, m) /\ m \in TabRecord /\ tab \in [Tab -> TabRecord]
      /\ call \in [Call -> CallRecord]
  BY DEF IInv
<1>2. WaitsAt(call, t, m)
  BY DEF WaitsForAnAnswer, WaitsAt, Awaits
<1>3. \A c \in Call : call[c].tab # t => Unmounted(t)[c] = call[c]
  BY UnmountedOK
<1>4. ~SignedOut.busy /\ ~SignedOut.deleting /\ SignedOut.view # "history"
  BY DEF SignedOut
<1>5. CASE SwitchForm(t)
  <2>1. m.view \in {"login", "register"} /\ ~m.deleting
    BY <1>1, <1>5 DEF SwitchForm, TabOK
  <2>2. WaitsAt(call', t, tab'[t]) /\ \A u \in Tab \ {t} : tab'[u] = tab[u]
    BY <1>1, <1>5, <2>1 DEF SwitchForm, WaitsAt, TabRecord
  <2> QED  BY <1>3, <1>5, <2>2, OthersWait DEF SwitchForm
<1>6. CASE OpenHistory(t)
  <2> DEFINE n == [SignedOut EXCEPT !.view = "history", !.token = m.token]
  <2>1. Sends(t, call, "list", n.token, n.filter, NoFile)
    BY <1>6 DEF OpenHistory, Lists
  <2>2. /\ Awaits(call', t, {"list"})
        /\ \A c \in Call : call[c].tab \in Tab => call'[c] = call[c]
    BY <1>1, <2>1, SentWait
  <2>3. tab' = [tab EXCEPT ![t] = n] /\ ~n.busy /\ ~n.deleting
    BY <1>6 DEF OpenHistory, SignedOut
  <2> HIDE DEF n
  <2>4. WaitsAt(call', t, tab'[t]) /\ \A u \in Tab \ {t} : tab'[u] = tab[u]
    BY <1>1, <2>2, <2>3 DEF WaitsAt
  <2> QED  BY <2>2, <2>4, OthersWait
<1>7. CASE LeaveHistory(t)
  <2>1. WaitsAt(call', t, tab'[t]) /\ \A u \in Tab \ {t} : tab'[u] = tab[u]
    BY <1>1, <1>7 DEF LeaveHistory, WaitsAt, SignedOut
  <2> QED  BY <1>3, <1>7, <2>1, OthersWait DEF LeaveHistory
<1>8. CASE Logout(t)
  <2>1. WaitsAt(call', t, tab'[t]) /\ \A u \in Tab \ {t} : tab'[u] = tab[u]
    BY <1>1, <1>4, <1>8 DEF Logout, WaitsAt
  <2> QED  BY <1>3, <1>8, <2>1, OthersWait DEF Logout
<1>9. CASE Reload(t)
  <2>1. WaitsAt(call', t, tab'[t]) /\ \A u \in Tab \ {t} : tab'[u] = tab[u]
    BY <1>1, <1>9 DEF Reload, WaitsAt, SignedOut
  <2>2. \A c \in Call : call[c].tab # t => call'[c] = call[c]
    BY <1>9 DEF Reload
  <2> QED  BY <2>1, <2>2, OthersWait
<1>10. CASE CancelDelete(t)
  <2>1. WaitsAt(call', t, tab'[t]) /\ \A u \in Tab \ {t} : tab'[u] = tab[u]
    BY <1>1, <1>2, <1>10 DEF CancelDelete, WaitsAt, TabRecord
  <2> QED  BY <1>10, <2>1, OthersWait DEF CancelDelete
<1>11. CASE ConfirmDelete(t)
  <2>1. Sends(t, call, "delete", m.token, m.filter, m.target)
    BY <1>11 DEF ConfirmDelete
  <2>2. /\ Awaits(call', t, {"delete"})
        /\ \A whats : Awaits(call, t, whats) => Awaits(call', t, whats)
        /\ \A c \in Call : call[c].tab \in Tab => call'[c] = call[c]
    BY <1>1, <2>1, SentWait
  <2>3. tab' = [tab EXCEPT ![t] = [m EXCEPT !.deleting = TRUE]]
    BY <1>11 DEF ConfirmDelete
  <2>4. WaitsAt(call', t, tab'[t]) /\ \A u \in Tab \ {t} : tab'[u] = tab[u]
    BY <1>1, <1>2, <2>2, <2>3 DEF WaitsAt, TabRecord
  <2> QED  BY <2>2, <2>4, OthersWait
<1>12. ASSUME NEW e \in Types[t], Submit(t, e)  PROVE WaitsForAnAnswer'
  <2>1. m.view \in {"login", "register"} /\ ~m.deleting
    BY <1>1, <1>12 DEF Submit, TabOK
  <2>2. /\ Awaits(call', t, {m.view})
        /\ \A c \in Call : call[c].tab \in Tab => call'[c] = call[c]
    BY <1>1, <1>12, SentWait DEF Submit
  <2>3. Awaits(call', t, {"register", "create", "login"})
    BY <2>1, <2>2 DEF Awaits
  <2>4. tab' = [tab EXCEPT ![t] = [m EXCEPT !.busy = TRUE]]
    BY <1>12 DEF Submit
  <2>5. WaitsAt(call', t, tab'[t]) /\ \A u \in Tab \ {t} : tab'[u] = tab[u]
    BY <1>1, <2>1, <2>3, <2>4 DEF WaitsAt, TabRecord
  <2> QED  BY <2>2, <2>5, OthersWait
<1>13. ASSUME NEW filter \in Filter, SetFilter(t, filter)  PROVE WaitsForAnAnswer'
  <2> DEFINE n == [Loading(m) EXCEPT !.filter = filter]
  <2>1. ~n.busy /\ ~n.deleting /\ tab' = [tab EXCEPT ![t] = n]
    BY <1>1, <1>13 DEF SetFilter, TabOK, TabRecord, Loading
  <2>2. Sends(t, call, "list", n.token, n.filter, NoFile)
    BY <1>13 DEF SetFilter, Lists
  <2> HIDE DEF n
  <2>3. /\ Awaits(call', t, {"list"})
        /\ \A c \in Call : call[c].tab \in Tab => call'[c] = call[c]
    BY <1>1, <2>2, SentWait
  <2>4. WaitsAt(call', t, tab'[t]) /\ \A u \in Tab \ {t} : tab'[u] = tab[u]
    BY <1>1, <2>1, <2>3 DEF WaitsAt
  <2> QED  BY <2>3, <2>4, OthersWait
<1>14. ASSUME NEW f \in File, AskDelete(t, f)  PROVE WaitsForAnAnswer'
  <2>1. WaitsAt(call', t, tab'[t]) /\ \A u \in Tab \ {t} : tab'[u] = tab[u]
    BY <1>1, <1>2, <1>14 DEF AskDelete, WaitsAt, TabRecord
  <2> QED  BY <1>14, <2>1, OthersWait DEF AskDelete
<1> QED  BY <1>5, <1>6, <1>7, <1>8, <1>9, <1>10, <1>11, <1>12, <1>13, <1>14

LEMMA ServedWaits ==
  ASSUME IInv, WaitsForAnAnswer, NEW c \in Call,
         \/ FindUser(c) \/ CreateUser(c) \/ Login(c) \/ ListFiles(c) \/ DeleteFile(c)
         \/ Registered(c)
         \/ \E answer \in {"refused", "unauthorized"} : Refused(c, answer)
  PROVE  WaitsForAnAnswer'
<1>1. call \in [Call -> CallRecord] /\ tab' = tab
  BY DEF IInv, FindUser, CreateUser, Login, ListFiles, DeleteFile, Registered, Refused
<1>2. ASSUME NEW answer, NEW files, Answers(c, answer, files)  PROVE WaitsForAnAnswer'
  <2>1. call' = [call EXCEPT ![c] = IF call[c].from = "closed" THEN NoCall
                   ELSE [call[c] EXCEPT !.answer = answer, !.files = files]]
    BY <1>2 DEF Answers
  <2> QED  BY <1>1, <2>1, SameWait DEF CallRecord
<1>3. CASE FindUser(c) /\ call' = [call EXCEPT ![c].what = "create"]
  BY <1>1, <1>3, SameWait DEF FindUser, Serving, CallRecord
<1>4. CASE Registered(c)
  BY <1>1, <1>4, SameWait DEF Registered, CallRecord
<1> QED  BY <1>2, <1>3, <1>4 DEF FindUser, CreateUser, Login, ListFiles, DeleteFile, Refused

LEMMA TakenWaits ==
  ASSUME IInv, WaitsForAnAnswer, NEW c \in Call,
         SignedIn(c) \/ FormRefused(c) \/ Listed(c) \/ Deleted(c) \/ DeleteFailed(c)
  PROVE  WaitsForAnAnswer'
<1> DEFINE t == call[c].tab  m == tab[t]
<1>1. /\ CallOK(users, call[c]) /\ call[c] \in CallRecord
      /\ call \in [Call -> CallRecord] /\ tab \in [Tab -> TabRecord]
  BY DEF IInv
<1>2. t \in Tab
  BY <1>1 DEF CallOK, SignedIn, FormRefused, Listed, Deleted, DeleteFailed
<1>3. TabOK(users, t, m) /\ m \in TabRecord /\ WaitsAt(call, t, m)
  BY <1>2 DEF IInv, WaitsForAnAnswer, WaitsAt, Awaits
<1>4. /\ Ended(c) \in [Call -> CallRecord]
      /\ \A d \in Call \ {c} : Ended(c)[d] = call[d]
  BY EndedOK
<1>5. \A d \in Call \ {c} : call[d].tab # t => [Unmounted(t) EXCEPT ![c] = NoCall][d] = call[d]
  BY <1>2, UnmountedOK DEF Unmounted
<1>6. CASE SignedIn(c)
  <2> DEFINE n == [m EXCEPT !.token = call[c].who]
  <2>1. CASE m.view = "history"
    <3>1. /\ tab' = [tab EXCEPT ![t] = Loading(n)]
          /\ Sends(t, Ended(c), "list", call[c].who, m.filter, NoFile)
      BY <1>3, <1>6, <2>1 DEF SignedIn, Lists, TabRecord
    <3>2. /\ Awaits(call', t, {"list"})
          /\ Awaits(Ended(c), t, {"delete"}) => Awaits(call', t, {"delete"})
          /\ \A d \in Call : Ended(c)[d].tab \in Tab => call'[d] = Ended(c)[d]
      BY <1>2, <1>4, <3>1, SentWait
    <3>3. Awaits(call, t, {"delete"}) => Awaits(Ended(c), t, {"delete"})
      BY <1>4, <1>6 DEF Awaits, SignedIn
    <3>4. /\ tab'[t].busy = m.busy /\ tab'[t].deleting = m.deleting /\ ~m.busy
      BY <1>1, <1>2, <1>3, <2>1, <3>1 DEF Loading, TabOK, TabRecord
    <3>5. WaitsAt(call', t, tab'[t]) /\ \A u \in Tab \ {t} : tab'[u] = tab[u]
      BY <1>1, <1>3, <3>1, <3>2, <3>3, <3>4 DEF WaitsAt
    <3>6. \A d \in Call : call[d].tab \in Tab \ {t} => call'[d] = call[d]
      BY <1>4, <3>2
    <3> QED  BY <1>2, <3>5, <3>6, OthersWait
  <2>2. CASE m.view # "history"
    <3>1. /\ tab' = [tab EXCEPT ![t] = IF m.view = "uploader" THEN n ELSE
                      [n EXCEPT !.view = "uploader", !.busy = FALSE]]
          /\ call' = [Unmounted(t) EXCEPT ![c] = NoCall]
      BY <1>3, <1>6, <2>2 DEF SignedIn, TabRecord
    <3>2. tab'[t].view = "uploader" /\ ~tab'[t].busy /\ ~tab'[t].deleting
      BY <1>1, <1>2, <1>3, <2>2, <3>1 DEF TabOK, TabRecord
    <3>3. WaitsAt(call', t, tab'[t]) /\ \A u \in Tab \ {t} : tab'[u] = tab[u]
      BY <1>1, <3>1, <3>2 DEF WaitsAt
    <3> QED  BY <1>2, <1>5, <3>1, <3>3, OthersWait
  <2> QED  BY <2>1, <2>2
<1>7. CASE FormRefused(c)
  <2> DEFINE n == [m EXCEPT !.busy = IF call[c].from = "mounted" THEN FALSE ELSE m.busy]
  <2>1. /\ tab' = [tab EXCEPT ![t] = n]
        /\ call' = Ended(c) /\ call[c].what \in {"register", "create", "login"}
    BY <1>7 DEF FormRefused
  <2>2. /\ n.deleting = m.deleting /\ n.view = m.view /\ n.list = m.list
        /\ n.busy => m.busy /\ call[c].from # "mounted"
    BY <1>3 DEF TabRecord
  <2> HIDE DEF n
  <2>3. WaitsAt(call', t, n)
    BY <1>3, <1>4, <2>1, <2>2 DEF WaitsAt, Awaits
  <2>4. WaitsAt(call', t, tab'[t]) /\ \A u \in Tab \ {t} : tab'[u] = tab[u]
    BY <1>1, <1>2, <2>1, <2>3
  <2> QED  BY <1>2, <1>4, <2>1, <2>4, OthersWait
<1>8. CASE Listed(c) /\ call[c].answer = "unauthorized"
  <2>1. tab' = [tab EXCEPT ![t] = SignedOut] /\ call' = [Unmounted(t) EXCEPT ![c] = NoCall]
    BY <1>8 DEF Listed
  <2>2. WaitsAt(call', t, tab'[t]) /\ \A u \in Tab \ {t} : tab'[u] = tab[u]
    BY <1>1, <1>2, <2>1 DEF WaitsAt, SignedOut
  <2> QED  BY <1>2, <1>5, <2>1, <2>2, OthersWait
<1>9. CASE Listed(c) /\ call[c].answer # "unauthorized"
  <2> DEFINE n == IF call[c].from # "mounted" THEN m ELSE
                  IF call[c].answer = "ok"
                  THEN [m EXCEPT !.list = "loaded", !.shown = call[c].files]
                  ELSE [m EXCEPT !.list = "error", !.shown = {}]
  <2>1. /\ tab' = [tab EXCEPT ![t] = n]
        /\ call' = Ended(c) /\ call[c].what = "list"
    BY <1>9 DEF Listed
  <2>2. /\ n.busy = m.busy /\ n.deleting = m.deleting /\ n.view = m.view
        /\ call[c].from # "mounted" => n.list = m.list
        /\ call[c].from = "mounted" => n.list # "loading"
    BY <1>3 DEF TabRecord
  <2> HIDE DEF n
  <2>3. WaitsAt(call', t, tab'[t]) /\ \A u \in Tab \ {t} : tab'[u] = tab[u]
    BY <1>1, <1>2, <1>3, <1>4, <2>1, <2>2 DEF WaitsAt, Awaits
  <2> QED  BY <1>2, <1>4, <2>1, <2>3, OthersWait
<1>10. CASE Deleted(c)
  <2> DEFINE n == IF call[c].from # "mounted" THEN m
                  ELSE [Loading(m) EXCEPT !.target = NoFile, !.deleting = FALSE]
             k == [call[c] EXCEPT !.what = "list", !.answer = "none", !.file = NoFile]
  <2>1. /\ tab' = [tab EXCEPT ![t] = n] /\ call' = [call EXCEPT ![c] = k]
        /\ call[c].what = "delete"
    BY <1>10 DEF Deleted
  <2>2. /\ k.tab = t /\ k.from = call[c].from /\ k.what = "list"
        /\ n.busy = m.busy /\ n.view = m.view
        /\ call[c].from # "mounted" => n = m
        /\ call[c].from = "mounted" => ~n.deleting
    BY <1>1, <1>3 DEF TabRecord, CallRecord, Loading
  <2> HIDE DEF n, k
  <2>3. WaitsAt(call', t, tab'[t]) /\ \A u \in Tab \ {t} : tab'[u] = tab[u]
    BY <1>1, <1>2, <1>3, <2>1, <2>2 DEF WaitsAt, Awaits
  <2> QED  BY <1>1, <1>2, <2>1, <2>3, OthersWait
<1>11. CASE DeleteFailed(c)
  <2> DEFINE n == [m EXCEPT !.deleting = IF call[c].from = "mounted" THEN FALSE ELSE m.deleting]
  <2>1. /\ tab' = [tab EXCEPT ![t] = n]
        /\ call' = Ended(c) /\ call[c].what = "delete"
    BY <1>11 DEF DeleteFailed
  <2>2. /\ n.busy = m.busy /\ n.view = m.view /\ n.list = m.list
        /\ n.deleting => m.deleting /\ call[c].from # "mounted"
    BY <1>3 DEF TabRecord
  <2> HIDE DEF n
  <2>3. WaitsAt(call', t, n)
    BY <1>3, <1>4, <2>1, <2>2 DEF WaitsAt, Awaits
  <2>4. WaitsAt(call', t, tab'[t]) /\ \A u \in Tab \ {t} : tab'[u] = tab[u]
    BY <1>1, <1>2, <2>1, <2>3
  <2> QED  BY <1>2, <1>4, <2>1, <2>4, OthersWait
<1> QED  BY <1>6, <1>7, <1>8, <1>9, <1>10, <1>11

\* WaitsForAnAnswer: each form, list or dialog that is busy has a request under
\* way whose answer, or error, it takes, whatever was sent and mounted before.
THEOREM NothingWaitsInVain == Spec => []WaitsForAnAnswer
<1>1. Init => WaitsForAnAnswer
  <2>1. ~SignedOut.busy /\ ~SignedOut.deleting /\ SignedOut.view # "history"
    BY DEF SignedOut
  <2>2. Init => \A t \in Tab : tab[t] = SignedOut
    BY DEF Init
  <2> QED  BY <2>1, <2>2 DEF WaitsForAnAnswer
<1>2. ASSUME IInv, WaitsForAnAnswer, [Next]_vars  PROVE WaitsForAnAnswer'
  <2>1. CASE UNCHANGED vars
    BY <1>2, <2>1 DEF WaitsForAnAnswer, vars
  <2>2. CASE \E f \in File : Settle(f) \/ Expire(f)
    BY <1>2, <2>2 DEF WaitsForAnAnswer, Settle, Expire
  <2>3. CASE Next
    BY <1>2, <2>2, <2>3, TabWaits, ServedWaits, TakenWaits DEF Next, CallStep
  <2> QED  BY <1>2, <2>1, <2>3
<1> QED  BY <1>1, <1>2, Always, PTL DEF Spec

=============================================================================
