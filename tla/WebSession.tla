----------------------------- MODULE WebSession -----------------------------
(***************************************************************************)
(* A browser tab with the web interface and the sessions of epghttpd, with *)
(* a login required (parameter needLogin = 1).  epghttpd keeps the         *)
(* sessions in memory; one that was not used for an hour is removed when   *)
(* it is used next.  A request without a valid session is refused (401).   *)
(* The browser then logs in again with the key it has stored, in the       *)
(* background, and repeats the request; without a key it shows the login   *)
(* form.  Requests, login calls and their answers overtake each other:     *)
(* each has a connection of its own.                                       *)
(*                                                                         *)
(* A login call c that succeeds creates session c: ids are never used      *)
(* twice (getUniqueId).                                                    *)
(***************************************************************************)
EXTENDS Naturals

CONSTANTS
  Users,        \* the users; a user's key is his name and password, hashed
  Reqs,         \* requests the user makes with a click
  Nobody,       \* user '' with no rights
  Unset,        \* rights -1: the page has just been loaded
  None,         \* no session, no key, no request
  MaxCalls,     \* bound: number of login and logout calls
  MaxFaults,    \* bound: restarts of epghttpd and hours without a request
  MaxLost       \* bound: number of requests and calls that are lost

Calls == 1..MaxCalls
Sids  == Calls \cup {None}

ASSUME ValuesAssumption ==
  /\ Nobody \notin Users /\ Unset \notin Users \cup {Nobody}
  /\ None \notin Users \cup Reqs \cup Calls

ASSUME BoundsAssumption ==
  MaxCalls \in Nat \ {0} /\ {MaxFaults, MaxLost} \subseteq Nat

VARIABLES
  \* the browser
  login,     \* epgd.login: user and session
  url,       \* epgd.login.url: the session named in the URL of a request
  key,       \* the key in the session storage or the cookie
  form,      \* the login dialog: made, open, and the request it was made for
  opening,   \* the login page was selected in the menu, but not yet rendered
  shown,     \* the user whose profile, channels and VDRs are loaded
  req,       \* how each request fares, and whether its URL names no session
  mail,      \* requests on their way to epghttpd, and answers on their way back
  call,      \* login and logout calls under way
  calls,     \* their number so far
  byes,      \* the sessions that are to be ended, with no interest in the answer
  \* epghttpd
  sess,      \* the user of each session
  stale,     \* sessions last used more than an hour ago
  active,    \* users who may log in
  \* history
  ran,       \* how often each request was carried out
  overtaken, \* an answer came when the user had changed since the call
  doubled,   \* two calls were under way at once
  dropped,   \* a call was lost
  faults, lost

browser == <<login, url, key, form, opening, shown>>
server  == <<sess, stale, active>>
history == <<ran, overtaken, doubled, dropped>>
bounds  == <<faults, lost>>
vars    == <<browser, req, mail, call, calls, byes, server, history, bounds>>

Logins == [user : Users \cup {Nobody, Unset}, sid : Sids]
LoggedOut == [user |-> Nobody, sid |-> None]

(* The key None in a call means a logout.  `old` is the user at the time   *)
(* of the call, `then` the request to be repeated afterwards.              *)
CallRow ==
  [key : Users \cup {None}, sid : Sids, old : Users \cup {Nobody, Unset},
   then : Reqs \cup {None}, st : {"sent", "answered"}, ans : Logins]

Mail == [req : Reqs, again : BOOLEAN, sid : Sids, st : {"sent", "ok", "refused"}]

ASSUME RowsAssumption == None \notin CallRow

TypeOK ==
  /\ login \in Logins
  /\ url \in Sids
  /\ key \in Users \cup {None}
  /\ form \in [made : BOOLEAN, open : BOOLEAN, then : Reqs \cup {None}]
  /\ opening \in BOOLEAN
  /\ shown \in Users \cup {Nobody}
  /\ req \in [Reqs -> [st : {"new", "out", "waiting", "done", "told"}, bare : BOOLEAN]]
  /\ mail \subseteq Mail
  /\ call \in [Calls -> CallRow \cup {None}]
  /\ calls \in 0..MaxCalls
  /\ byes \subseteq Calls
  /\ sess \in [Calls -> Users \cup {None}]
  /\ stale \subseteq Calls
  /\ active \subseteq Users
  /\ ran \in [Reqs -> Nat]
  /\ {overtaken, doubled, dropped} \subseteq BOOLEAN
  /\ faults \in 0..MaxFaults /\ lost \in 0..MaxLost

(* The page is loaded and calls doLogin, with a stored key or without.     *)
Init ==
  /\ login = [user |-> Unset, sid |-> None]
  /\ url = None
  /\ key \in Users \cup {None}
  /\ form = [made |-> key = None, open |-> key = None, then |-> None]
  /\ opening = FALSE
  /\ shown = Nobody
  /\ req = [r \in Reqs |-> [st |-> "new", bare |-> FALSE]]
  /\ mail = {}
  /\ call = [c \in Calls |-> IF c = 1 /\ key # None
                             THEN [key |-> key, sid |-> None, old |-> Unset, then |-> None,
                                   st |-> "sent", ans |-> LoggedOut]
                             ELSE None]
  /\ calls = (IF key = None THEN 0 ELSE 1)
  /\ byes = {}
  /\ sess = [c \in Calls |-> None] /\ stale = {} /\ active = Users
  /\ ran = [r \in Reqs |-> 0]
  /\ overtaken = FALSE /\ doubled = FALSE /\ dropped = FALSE
  /\ faults = 0 /\ lost = 0

-----------------------------------------------------------------------------
(* The browser.                                                            *)

UnderWay == {c \in Calls : call[c] # None}

(* $.ajax of doLogin *)
Post(k, sid, then) ==
  /\ calls < MaxCalls
  /\ calls' = calls + 1
  /\ call' = [call EXCEPT ![calls'] = [key |-> k, sid |-> sid, old |-> login.user, then |-> then,
                                       st |-> "sent", ans |-> LoggedOut]]
  /\ doubled' = (doubled \/ UnderWay # {})

(* A dialog is made once, with the request of that time. *)
ShowForm(then) ==
  form' = IF form.made THEN [form EXCEPT !.open = TRUE]
          ELSE [made |-> TRUE, open |-> TRUE, then |-> then]

(* doLogin: the session in use is given up first.  typed is the user of    *)
(* the login form, None in the background.                                 *)
DoLogin(typed, then) ==
  LET k == IF typed # None THEN typed ELSE key
  IN /\ byes' = IF login.sid # None /\ url # None /\ sess[url] # None THEN byes \cup {url} ELSE byes
     /\ url' = IF login.sid # None THEN None ELSE url
     /\ IF k = None
        THEN ShowForm(then) /\ UNCHANGED <<call, calls, doubled>>
        ELSE /\ Post(k, url', then)
             /\ form' = IF typed # None THEN [form EXCEPT !.open = FALSE] ELSE form

(* The user clicks: a timer is saved, a column of the magazine loaded ...  *)
Click(r) ==
  /\ req[r].st = "new"
  /\ login.user \in Users
  /\ ~form.open /\ ~opening
  /\ req' = [req EXCEPT ![r] = [st |-> "out", bare |-> url = None]]
  /\ mail' = mail \cup {[req |-> r, again |-> FALSE, sid |-> url, st |-> "sent"]}
  /\ UNCHANGED <<browser, call, calls, byes, server, history, bounds>>

(* epgd.ajax: done, or fail with status 401 *)
Answered(m) ==
  /\ m.st \in {"ok", "refused"}
  /\ mail' = mail \ {m}
  /\ \/ /\ m.st = "ok"
        /\ req' = [req EXCEPT ![m.req].st = "done"]
        /\ UNCHANGED <<url, form, call, calls, byes, doubled>>
     \/ /\ m.st = "refused" /\ m.again
        /\ req' = [req EXCEPT ![m.req].st = "told"]
        /\ UNCHANGED <<url, form, call, calls, byes, doubled>>
     \/ /\ m.st = "refused" /\ ~m.again
        /\ req' = [req EXCEPT ![m.req].st = "waiting"]
        /\ DoLogin(None, m.req)
  /\ UNCHANGED <<login, key, opening, shown, server, ran, overtaken, dropped, bounds>>

(* A request or its answer is lost: the user is told. *)
MailLost(m) ==
  /\ lost < MaxLost
  /\ lost' = lost + 1
  /\ mail' = mail \ {m}
  /\ req' = [req EXCEPT ![m.req].st = "told"]
  /\ UNCHANGED <<browser, call, calls, byes, server, history, faults>>

(* Mutant: the request is repeated as it was. *)
RepeatAsItWas(r, sid) ==
  /\ req' = [req EXCEPT ![r].st = "out"]
  /\ mail' = mail \cup {[req |-> r, again |-> TRUE, sid |-> None, st |-> "sent"]}

(* Mutant: there is no callback unless the user changed. *)
RepeatNever(r, sid) == UNCHANGED <<req, mail>>

(* The callback of doLogin: the session in the URL is replaced, *)
Repeat(r, sid) ==
  /\ req' = [req EXCEPT ![r].st = "out"]
  /\ mail' = mail \cup {[req |-> r, again |-> TRUE, sid |-> IF req[r].bare THEN None ELSE sid,
                         st |-> "sent"]}

(* or "forbidden" is shown. *)
Deny(r) == req' = [req EXCEPT ![r].st = "told"] /\ UNCHANGED mail

UserOf(old) == IF old = Unset THEN Nobody ELSE old

(* Mutant: the session is stored in place of the key. *)
ChangedKey(c, old, ans) ==
  /\ key' = ans.sid
  /\ shown' = IF ans.user # UserOf(old) THEN ans.user ELSE shown
  /\ opening' = (opening \/ ans.user = Nobody)

(* Mutant: a logout leaves the data of the user on the page. *)
ChangedIn(c, old, ans) ==
  /\ key' = IF ans.sid = None THEN None ELSE c.key
  /\ shown' = IF ans.user \notin {Nobody, UserOf(old)} THEN ans.user ELSE shown
  /\ opening' = (opening \/ ans.user = Nobody)

(* login_changed: the page is built again, for another user with his data.  *)
(* A login page selected before is rendered all the same.                  *)
Changed(c, old, ans) ==
  /\ key' = IF ans.sid = None THEN None ELSE c.key
  /\ shown' = IF ans.user # UserOf(old) THEN ans.user ELSE shown
  /\ opening' = (opening \/ ans.user = Nobody)

(* The answer to a login or logout call: done, trigger_changed. *)
LoggedIn(c) ==
  LET row == call[c] IN
  /\ row # None /\ row.st = "answered"
  /\ call' = [call EXCEPT ![c] = None]
  /\ login' = row.ans
  /\ url' = row.ans.sid
  /\ IF row.ans.user # row.old
     THEN Changed(row, row.old, row.ans)
     ELSE UNCHANGED <<key, shown, opening>>
  /\ IF row.then = None THEN UNCHANGED <<req, mail>>
     ELSE IF row.ans.user # Nobody THEN Repeat(row.then, row.ans.sid)
     ELSE Deny(row.then)
  /\ overtaken' = (overtaken \/ row.old # login.user)
  /\ UNCHANGED <<form, calls, byes, server, ran, doubled, dropped, bounds>>

(* Nobody waits for the failure of a login call. *)
CallLost(c) ==
  /\ lost < MaxLost
  /\ call[c] # None
  /\ lost' = lost + 1
  /\ dropped' = TRUE
  /\ call' = [call EXCEPT ![c] = None]
  /\ UNCHANGED <<browser, req, mail, calls, byes, server, ran, overtaken, doubled, faults>>

(* The user selects the login page in the menu: to log in or out. *)
SelectLogin ==
  /\ login.user # Unset
  /\ ~form.open /\ ~opening
  /\ opening' = TRUE
  /\ UNCHANGED <<login, url, key, form, shown, req, mail, call, calls, byes, server, history, bounds>>

(* 400 ms later pages.login.render runs. *)
RenderLogin ==
  /\ opening
  /\ opening' = FALSE
  /\ ShowForm(None)
  /\ IF login.sid # None THEN Post(None, url, None) ELSE UNCHANGED <<call, calls, doubled>>
  /\ UNCHANGED <<login, url, key, shown, req, mail, byes, server, ran, overtaken, dropped, bounds>>

SubmitForm(u) ==
  /\ form.open
  /\ DoLogin(u, form.then)
  /\ UNCHANGED <<login, key, opening, shown, req, mail, server, ran, overtaken, dropped, bounds>>

-----------------------------------------------------------------------------
(* epghttpd, one call at a time.                                           *)

Valid(s) == s # None /\ sess[s] # None /\ s \notin stale

(* setSession: an expired session is removed. *)
Expire(s, t) == IF s \in stale THEN [t EXCEPT ![s] = None] ELSE t

(* Mutant: the request is carried out before the session is looked at. *)
RunFirst(m) == ran' = [ran EXCEPT ![m.req] = @ + 1]

Run(m) == ran' = IF Valid(m.sid) THEN [ran EXCEPT ![m.req] = @ + 1] ELSE ran

ServeRequest(m) ==
  /\ m.st = "sent"
  /\ mail' = (mail \ {m}) \cup {[m EXCEPT !.st = IF Valid(m.sid) THEN "ok" ELSE "refused"]}
  /\ sess' = Expire(m.sid, sess)
  /\ stale' = stale \ {m.sid}
  /\ Run(m)
  /\ UNCHANGED <<browser, req, call, calls, byes, active, overtaken, doubled, dropped, bounds>>

(* Mutant: a logout leaves the session. *)
EndNothing(s) == sess

End(s) == IF s = None THEN sess ELSE [sess EXCEPT ![s] = None]

(* cEpgHttpd::doLogin.  A logout with an expired session is refused, and   *)
(* the browser does nothing then.                                          *)
ServeCall(c) ==
  LET row == call[c] IN
  /\ row # None /\ row.st = "sent"
  /\ \/ /\ row.key # None /\ row.key \in active
        /\ sess' = [sess EXCEPT ![c] = row.key]
        /\ call' = [call EXCEPT ![c].st = "answered", ![c].ans = [user |-> row.key, sid |-> c]]
     \/ /\ row.key # None /\ row.key \notin active
        /\ sess' = sess
        /\ call' = [call EXCEPT ![c].st = "answered"]
     \/ /\ row.key = None /\ (row.sid = None \/ Valid(row.sid))
        /\ sess' = End(row.sid)
        /\ call' = [call EXCEPT ![c].st = "answered"]
     \/ /\ row.key = None /\ row.sid # None /\ ~Valid(row.sid)
        /\ sess' = Expire(row.sid, sess)
        /\ call' = [call EXCEPT ![c] = None]
  /\ stale' = stale \ {row.sid}
  /\ UNCHANGED <<browser, req, mail, calls, byes, active, history, bounds>>

ServeBye(s) ==
  /\ s \in byes
  /\ byes' = byes \ {s}
  /\ sess' = End(s)
  /\ stale' = stale \ {s}
  /\ UNCHANGED <<browser, req, mail, call, calls, active, history, bounds>>

Fault == faults < MaxFaults /\ faults' = faults + 1

(* The sessions are kept in memory only. *)
Restart ==
  /\ Fault
  /\ sess' = [s \in Calls |-> None]
  /\ stale' = {}
  /\ byes' = {}
  /\ UNCHANGED <<browser, req, mail, call, calls, active, history, lost>>

HourPasses ==
  /\ Fault
  /\ mail = {} /\ UnderWay = {} /\ byes = {}
  /\ stale' = {s \in Calls : sess[s] # None}
  /\ UNCHANGED <<browser, req, mail, call, calls, byes, sess, active, history, lost>>

(* The administrator deactivates a user or changes his password. *)
Deactivate(u) ==
  /\ active = Users
  /\ active' = Users \ {u}
  /\ UNCHANGED <<browser, req, mail, call, calls, byes, sess, stale, history, bounds>>

-----------------------------------------------------------------------------
Deliver ==
  \/ \E m \in mail : Answered(m) \/ ServeRequest(m)
  \/ \E c \in Calls : LoggedIn(c) \/ ServeCall(c)
  \/ \E s \in Calls : ServeBye(s)
  \/ RenderLogin

Next ==
  \/ Deliver
  \/ \E r \in Reqs : Click(r)
  \/ SelectLogin
  \/ \E u \in Users : SubmitForm(u)
  \/ \E m \in mail : MailLost(m)
  \/ \E c \in Calls : CallLost(c)
  \/ Restart \/ HourPasses
  \/ \E u \in Users : Deactivate(u)

Spec == Init /\ [][Next]_vars
FairSpec == Spec /\ WF_vars(Deliver)

-----------------------------------------------------------------------------
(* A request is carried out once at most, however it and the login calls   *)
(* overtake each other and whatever is lost.  The exception is the request *)
(* the login dialog was made for: the dialog keeps the callback and        *)
(* repeats it after every later login.                                     *)
AtMostOnce == \A r \in Reqs : ran[r] > 1 => form.then = r

(* The profile, the channels and the VDRs on the page are those of the     *)
(* user logged in.  It does not hold once two logins overtook each other:  *)
(* login_changed compares with the user at the time of the call.           *)
PageOfUser == ~overtaken => shown = UserOf(login.user)

Alone(r) == \A q \in Reqs \ {r} : req[q].st = "new"

(* A restart of epghttpd or an hour without requests goes unnoticed: the   *)
(* user is told of a failure only if he made two requests at a time, there *)
(* were two such faults, a message was lost, or he cannot log in any more  *)
(* or did so by hand.                                                      *)
RestartUnnoticed ==
  \A r \in Reqs : req[r].st = "told" =>
    ~Alone(r) \/ faults > 1 \/ lost > 0 \/ active # Users \/ form.made

(* A valid session is the one in use, or about to be used or ended, unless *)
(* two calls were under way at once or one was lost.                       *)
NoOrphan ==
  ~doubled /\ ~dropped =>
    \A s \in Calls : Valid(s) =>
      s = login.sid \/ s \in byes \/ (call[s] # None /\ call[s].ans.sid = s)

(* Every request is answered or the user told of its failure; or he is     *)
(* asked to log in.  A login call that is lost takes its request with it:  *)
(* nobody handles its failure.                                             *)
EveryClickAnswered ==
  \A r \in Reqs : req[r].st = "out" ~>
    req[r].st \in {"done", "told"} \/ form.open \/ dropped \/ calls = MaxCalls
=============================================================================
