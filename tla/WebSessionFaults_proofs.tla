----------------------- MODULE WebSessionFaults_proofs -----------------------
(***************************************************************************)
(* Sessions that are left behind in epghttpd, and what the user notices of *)
(* a restart of epghttpd, for any number of users, requests, login calls   *)
(* and lost messages.                                                      *)
(*                                                                         *)
(* Both rest on SidInv: where the id of a session can be at a time.  An id *)
(* is that of the login call which asked for the session, so a call under  *)
(* way stands for a session that is not in use yet.                        *)
(***************************************************************************)
EXTENDS WebSession_proofs

USE ValuesAssumption, BoundsAssumption, RowsAssumption

-----------------------------------------------------------------------------
(* The session in use, and the URL names it or none. *)
UseInv ==
  /\ url \in {None, login.sid}
  /\ login.sid # None => login.sid <= calls /\ call[login.sid] = None
  /\ login.user \in Users <=> login.sid # None

(* A login call names no session; it is answered with a session of its own *)
(* or with none. A logout has no request to repeat.                        *)
CallInv ==
  \A c \in Calls : call[c] # None =>
    /\ c <= calls
    /\ call[c].key # None => call[c].sid = None
    /\ call[c].key = None => call[c].then = None
    /\ call[c].st = "sent" => call[c].ans = LoggedOut
    /\ call[c].ans = LoggedOut \/ (call[c].ans.user \in Users /\ call[c].ans.sid = c)

(* A session exists only once its call was answered with it. *)
SessInv ==
  /\ \A s \in Calls : sess[s] # None => s <= calls /\ (call[s] # None => call[s].ans.sid = s)
  /\ \A s \in stale : sess[s] # None

(* Only sessions that have been in use are ended. *)
ByesInv == \A s \in byes : s <= calls /\ call[s] = None

OpenInv == form.open => form.made

SidInv == UseInv /\ CallInv /\ SessInv /\ ByesInv /\ OpenInv

LEMMA SidInit == Init => SidInv
<1> SUFFICES ASSUME Init PROVE SidInv OBVIOUS
<1>1. UseInv BY DEF Init, UseInv
<1>2. CallInv
  <2>1. ASSUME NEW c \in Calls, call[c] # None
        PROVE  /\ c = 1 /\ calls = 1
               /\ call[c] = [key |-> key, sid |-> None, old |-> Unset, then |-> None,
                             st |-> "sent", ans |-> LoggedOut]
               /\ key # None
    BY <2>1 DEF Init
  <2> QED BY <2>1 DEF CallInv
<1>3. SessInv /\ ByesInv /\ OpenInv BY DEF Init, SessInv, ByesInv, OpenInv
<1> QED BY <1>1, <1>2, <1>3 DEF SidInv

(* Steps that make no call, answer none and log nobody in. *)
LEMMA SidKept ==
  ASSUME SidInv, UNCHANGED <<login, url, call, calls>>,
         \A s \in Calls : sess'[s] # None => sess[s] # None,
         \A s \in stale' : sess'[s] # None,
         byes' \subseteq byes, form' = form
  PROVE  SidInv'
BY DEF SidInv, UseInv, CallInv, SessInv, ByesInv, OpenInv

(* A call is made. *)
LEMMA PostRow ==
  ASSUME IInv, SidInv, NEW k \in Users \cup {None}, NEW sid \in Sids, NEW then \in Reqs \cup {None},
         Post(k, sid, then)
  PROVE  /\ calls' = calls + 1 /\ calls' \in Calls
         /\ call[calls'] = None /\ call'[calls'] # None
         /\ call'[calls'].key = k /\ call'[calls'].sid = sid /\ call'[calls'].then = then
         /\ call'[calls'].st = "sent" /\ call'[calls'].ans = LoggedOut
         /\ \A c \in Calls : c # calls' => call'[c] = call[c]
         /\ doubled' = (doubled \/ UnderWay # {})
<1>1. calls' = calls + 1 /\ calls' \in Calls
  BY DEF Post, IInv, Types, CallTypes, Calls
<1>2. PICK row : row = [key |-> k, sid |-> sid, old |-> login.user, then |-> then,
                        st |-> "sent", ans |-> LoggedOut]
  OBVIOUS
<1>3. row \in CallRow
  BY <1>2 DEF CallRow, LoggedOut, Logins, Sids, IInv, Types, PageTypes
<1>4. call' = [call EXCEPT ![calls'] = row] BY <1>2 DEF Post
<1>5. call'[calls'] = row /\ \A c \in Calls : c # calls' => call'[c] = call[c]
  BY <1>1, <1>4 DEF IInv, Types, CallTypes
<1>6. call[calls'] = None
  BY <1>1 DEF SidInv, CallInv, IInv, Types, CallTypes, Calls
<1> QED BY <1>1, <1>2, <1>3, <1>5, <1>6 DEF Post

LEMMA SidPosted ==
  ASSUME IInv, SidInv, NEW k \in Users \cup {None}, NEW sid \in Sids, NEW then \in Reqs \cup {None},
         Post(k, sid, then),
         k # None => sid = None, k = None => then = None,
         UNCHANGED <<login, sess, stale>>,
         url' \in {None, login.sid}, byes' \subseteq byes \cup ({url} \ {None}),
         form'.open => form'.made
  PROVE  SidInv'
<1>1. /\ calls' = calls + 1 /\ calls' \in Calls
      /\ call[calls'] = None /\ call'[calls'] # None
      /\ call'[calls'].key = k /\ call'[calls'].sid = sid /\ call'[calls'].then = then
      /\ call'[calls'].st = "sent" /\ call'[calls'].ans = LoggedOut
      /\ \A c \in Calls : c # calls' => call'[c] = call[c]
  BY PostRow
<1>2. calls \in Nat /\ byes \subseteq Calls /\ login.sid \in Sids /\ \A c \in Calls : c \in Nat
  BY DEF IInv, Types, CallTypes, FormTypes, PageTypes, Logins, Calls
<1>3. \A s \in Calls : s <= calls => s <= calls' /\ s # calls' BY <1>1, <1>2
<1>4. login.sid # None => login.sid <= calls' /\ call'[login.sid] = None
  BY <1>1, <1>2, <1>3 DEF SidInv, UseInv, Sids
<1>5. UseInv' BY <1>4 DEF SidInv, UseInv
<1>6. CallInv'
  <2> SUFFICES ASSUME NEW c \in Calls, call'[c] # None
               PROVE  /\ c <= calls'
                      /\ call'[c].key # None => call'[c].sid = None
                      /\ call'[c].key = None => call'[c].then = None
                      /\ call'[c].st = "sent" => call'[c].ans = LoggedOut
                      /\ \/ call'[c].ans = LoggedOut
                         \/ call'[c].ans.user \in Users /\ call'[c].ans.sid = c
    BY DEF CallInv
  <2>1. CASE c = calls' BY <1>1, <1>2, <2>1
  <2>2. CASE c # calls' BY <1>1, <1>3, <2>2 DEF SidInv, CallInv
  <2> QED BY <2>1, <2>2
<1>7. SessInv' BY <1>1, <1>3 DEF SidInv, SessInv
<1>8. ByesInv'
  <2>1. \A s \in byes : s <= calls' /\ call'[s] = None BY <1>1, <1>2, <1>3 DEF SidInv, ByesInv
  <2> QED BY <1>4, <2>1 DEF ByesInv, SidInv, UseInv
<1> QED BY <1>5, <1>6, <1>7, <1>8 DEF SidInv, OpenInv

(* What doLogin does: it gives up the session in use, and posts a call or   *)
(* shows the dialog.                                                       *)
LEMMA DoLoginRow ==
  ASSUME IInv, SidInv, NEW typed \in Users \cup {None}, NEW then \in Reqs \cup {None},
         DoLogin(typed, then)
  PROVE  /\ url' = None
         /\ byes \subseteq byes' /\ byes' \subseteq byes \cup ({url} \ {None})
         /\ login.sid # None /\ url # None /\ sess[url] # None => url \in byes'
         /\ \/ /\ form'.made /\ UNCHANGED <<call, calls, doubled>>
            \/ /\ Post(IF typed # None THEN typed ELSE key, None, then)
               /\ (IF typed # None THEN typed ELSE key) \in Users
               /\ form'.made = form.made /\ (form'.open => form.open)
<1>1. url' = None BY DEF DoLogin, SidInv, UseInv
<1>2. /\ byes \subseteq byes' /\ byes' \subseteq byes \cup ({url} \ {None})
      /\ login.sid # None /\ url # None /\ sess[url] # None => url \in byes'
  BY DEF DoLogin
<1>3. PICK k : k = IF typed # None THEN typed ELSE key OBVIOUS
<1>4. CASE k = None
  BY <1>1, <1>2, <1>3, <1>4 DEF DoLogin, ShowForm, IInv, Types, FormTypes
<1>5. CASE k # None
  <2>1. k \in Users BY <1>3, <1>5 DEF IInv, Types, PageTypes
  <2>2. Post(k, None, then) BY <1>1, <1>3, <1>5 DEF DoLogin
  <2>3. form'.made = form.made /\ (form'.open => form.open)
    BY <1>3, <1>5 DEF DoLogin, IInv, Types, FormTypes
  <2> QED BY <1>1, <1>2, <1>3, <2>1, <2>2, <2>3
<1> QED BY <1>4, <1>5

LEMMA SidDoLogin ==
  ASSUME IInv, SidInv, NEW typed \in Users \cup {None}, NEW then \in Reqs \cup {None},
         DoLogin(typed, then), UNCHANGED <<login, sess, stale>>
  PROVE  SidInv'
<1>1. /\ url' = None
      /\ byes' \subseteq byes \cup ({url} \ {None})
      /\ \/ form'.made /\ UNCHANGED <<call, calls, doubled>>
         \/ /\ Post(IF typed # None THEN typed ELSE key, None, then)
            /\ (IF typed # None THEN typed ELSE key) \in Users
            /\ form'.made = form.made /\ (form'.open => form.open)
  BY DoLoginRow
<1>2. CASE form'.made /\ UNCHANGED <<call, calls, doubled>>
  <2>1. UseInv' /\ CallInv' /\ SessInv' /\ OpenInv'
    BY <1>1, <1>2 DEF SidInv, UseInv, CallInv, SessInv, OpenInv
  <2>2. ByesInv' BY <1>1, <1>2 DEF SidInv, UseInv, ByesInv
  <2> QED BY <2>1, <2>2 DEF SidInv
<1>3. CASE ~(form'.made /\ UNCHANGED <<call, calls, doubled>>)
  <2>1. PICK k \in Users : k = (IF typed # None THEN typed ELSE key) BY <1>1, <1>3
  <2>2. Post(k, None, then) /\ k # None /\ (form'.open => form'.made)
    BY <1>1, <1>3, <2>1 DEF SidInv, OpenInv
  <2>3. None \in Sids BY DEF Sids
  <2> QED BY <1>1, <2>2, <2>3, SidPosted
<1> QED BY <1>2, <1>3

(* A call is over, whatever comes of it. *)
LEMMA SidDone ==
  ASSUME IInv, SidInv, NEW c \in Calls, call[c] # None,
         call' = [call EXCEPT ![c] = None], UNCHANGED <<calls, byes, form>>,
         \A s \in Calls : sess'[s] # None => sess[s] # None,
         \A s \in stale' : sess'[s] # None,
         UseInv'
  PROVE  SidInv'
<1>1. call'[c] = None /\ \A d \in Calls : d # c => call'[d] = call[d]
  BY DEF IInv, Types, CallTypes
<1>2. CallInv' BY <1>1 DEF SidInv, CallInv
<1>3. SessInv' BY <1>1 DEF SidInv, SessInv
<1>4. ByesInv' BY <1>1 DEF SidInv, ByesInv, IInv, Types, FormTypes
<1> QED BY <1>2, <1>3, <1>4 DEF SidInv, OpenInv

-----------------------------------------------------------------------------
(* What epghttpd does with a call, and which sessions are valid then. *)
Refused(c) ==
  /\ call[c].key # None /\ call[c].key \notin active
  /\ call'[c].ans = LoggedOut /\ UNCHANGED <<sess, stale>>

Granted(c) ==
  /\ call[c].key \in Users /\ call[c].key \in active
  /\ call'[c].ans = [user |-> call[c].key, sid |-> c]
  /\ sess[c] = None /\ sess'[c] # None /\ c \notin stale' /\ stale' = stale
  /\ \A s \in Calls : s # c => sess'[s] = sess[s]

Ended(c) ==
  /\ call[c].key = None
  /\ call'[c].ans = LoggedOut
  /\ stale' = stale \ {call[c].sid}
  /\ call[c].sid \in Calls => sess'[call[c].sid] = None
  /\ \A s \in Calls : s # call[c].sid => sess'[s] = sess[s]

(* A session that has expired is removed, no other one touched. *)
Expired ==
  /\ \A s \in Calls : Valid(s)' <=> Valid(s)
  /\ \A s \in Calls : sess'[s] # None => sess[s] # None
  /\ \A s \in stale' : sess'[s] # None

LEMMA ServeCallRow ==
  ASSUME IInv, SidInv, NEW c \in Calls, ServeCall(c)
  PROVE  /\ call[c] # None /\ call[c].st = "sent" /\ calls' = calls
         /\ \A d \in Calls : d # c => call'[d] = call[d]
         /\ \/ /\ call'[c] # None /\ call'[c].st = "answered"
               /\ call'[c].key = call[c].key /\ call'[c].sid = call[c].sid /\ call'[c].then = call[c].then
               /\ Refused(c) \/ Granted(c) \/ Ended(c)
            \/ call'[c] = None /\ call[c].key = None /\ Expired
<1>1. call[c] # None /\ call[c].st = "sent" /\ calls' = calls BY DEF ServeCall
<1>2. PICK row : row = call[c] OBVIOUS
<1>3. /\ row \in CallRow /\ row.ans = LoggedOut /\ (row.key # None => row.sid = None)
      /\ call \in [Calls -> CallRow \cup {None}]
      /\ sess \in [Calls -> Users \cup {None}] /\ stale \subseteq Calls
      /\ \A s \in stale : sess[s] # None
  BY <1>1, <1>2 DEF IInv, Types, CallTypes, ServerTypes, SidInv, CallInv, SessInv
<1>4. row.key \in Users \cup {None} /\ row.sid \in Sids BY <1>3, RowTypes
<1>5. stale' = stale \ {row.sid} BY <1>2 DEF ServeCall
<1>6. CASE /\ row.key # None /\ row.key \in active
           /\ sess' = [sess EXCEPT ![c] = row.key]
           /\ call' = [call EXCEPT ![c].st = "answered", ![c].ans = [user |-> row.key, sid |-> c]]
  <2>1. PICK new : new = [row EXCEPT !.st = "answered", !.ans = [user |-> row.key, sid |-> c]] OBVIOUS
  <2>2. call' = [call EXCEPT ![c] = new] BY <1>2, <1>3, <1>6, <2>1
  <2>3. call'[c] = new /\ \A d \in Calls : d # c => call'[d] = call[d] BY <1>3, <2>2
  <2>4. /\ new \in [key : Users \cup {None}, sid : Sids, old : Users \cup {Nobody, Unset},
                    then : Reqs \cup {None}, st : {"sent", "answered"}, ans : Logins]
        /\ new.st = "answered" /\ new.ans = [user |-> row.key, sid |-> c]
        /\ new.key = row.key /\ new.sid = row.sid /\ new.then = row.then
    BY <1>3, <1>4, <1>6, <2>1 DEF CallRow, Logins, Sids
  <2>5. new # None BY <2>4 DEF CallRow
  <2>6. sess[c] = None
    BY <1>1, <1>2, <1>3 DEF SidInv, SessInv, LoggedOut
  <2>7. stale' = stale /\ c \notin stale BY <1>3, <1>5, <1>6, <2>6 DEF Sids
  <2>8. sess'[c] # None /\ \A s \in Calls : s # c => sess'[s] = sess[s] BY <1>3, <1>4, <1>6
  <2>9. Granted(c) BY <1>2, <1>4, <1>6, <2>3, <2>4, <2>6, <2>7, <2>8 DEF Granted
  <2> QED BY <1>1, <1>2, <2>3, <2>4, <2>5, <2>9
<1>7. CASE /\ call' = [call EXCEPT ![c].st = "answered"]
           /\ \/ row.key # None /\ row.key \notin active /\ sess' = sess
              \/ row.key = None /\ sess' = End(row.sid)
  <2>1. PICK new : new = [row EXCEPT !.st = "answered"] OBVIOUS
  <2>2. call' = [call EXCEPT ![c] = new] BY <1>2, <1>7, <2>1
  <2>3. call'[c] = new /\ \A d \in Calls : d # c => call'[d] = call[d] BY <1>3, <2>2
  <2>4. /\ new \in CallRow /\ new # None
        /\ new.st = "answered" /\ new.ans = LoggedOut
        /\ new.key = row.key /\ new.sid = row.sid /\ new.then = row.then
    <3>1. new \in CallRow BY <1>3, <2>1 DEF CallRow
    <3> QED BY <1>3, <2>1, <3>1 DEF CallRow
  <2>5. CASE row.key # None /\ row.key \notin active /\ sess' = sess
    <3>1. stale' = stale BY <1>3, <1>5, <2>5 DEF Sids
    <3> QED BY <1>1, <1>2, <2>3, <2>4, <2>5, <3>1 DEF Refused
  <2>6. CASE row.key = None /\ sess' = End(row.sid)
    <3>1. /\ row.sid \in Calls => sess'[row.sid] = None
          /\ \A s \in Calls : s # row.sid => sess'[s] = sess[s]
      BY <1>3, <2>6 DEF End
    <3>2. Ended(c) BY <1>2, <1>5, <2>3, <2>4, <2>6, <3>1 DEF Ended
    <3> QED BY <1>1, <1>2, <2>3, <2>4, <3>2
  <2> QED BY <1>7, <2>5, <2>6
<1>8. CASE /\ row.key = None /\ row.sid # None /\ ~Valid(row.sid)
           /\ sess' = Expire(row.sid, sess)
           /\ call' = [call EXCEPT ![c] = None]
  <2>1. call'[c] = None /\ \A d \in Calls : d # c => call'[d] = call[d] BY <1>3, <1>8
  <2>2. row.sid \in Calls BY <1>4, <1>8 DEF Sids
  <2>3. \A s \in Calls : sess'[s] = IF s = row.sid /\ s \in stale THEN None ELSE sess[s]
    BY <1>3, <1>8, <2>2 DEF Expire
  <2>4. Expired BY <1>3, <1>5, <2>3 DEF Expired, Valid
  <2> QED BY <1>1, <1>2, <1>8, <2>1, <2>4
<1> QED BY <1>2, <1>6, <1>7, <1>8 DEF ServeCall

-----------------------------------------------------------------------------
(* The steps that make no call, answer none and log nobody in. *)
Quiet ==
  /\ UNCHANGED <<login, url, call, calls, form, doubled, dropped>>
  /\ byes' \subseteq byes
  /\ \A s \in byes : s \in byes' \/ ~Valid(s)'
  /\ \A s \in Calls : sess'[s] # None => sess[s] # None
  /\ \A s \in stale' : sess'[s] # None
  /\ \A s \in Calls : Valid(s)' => Valid(s)

LEMMA QuietSteps ==
  ASSUME IInv, SidInv,
         \/ \E r \in Reqs : Click(r)
         \/ \E m \in mail : MailLost(m) \/ ServeRequest(m)
         \/ SelectLogin \/ (\E s \in Calls : ServeBye(s)) \/ Restart \/ HourPasses
         \/ (\E u \in Users : Deactivate(u)) \/ UNCHANGED vars
  PROVE  Quiet
<1>1. /\ sess \in [Calls -> Users \cup {None}] /\ stale \subseteq Calls /\ byes \subseteq Calls
      /\ \A s \in stale : sess[s] # None
  BY DEF IInv, Types, ServerTypes, FormTypes, SidInv, SessInv
<1>2. UNCHANGED <<login, url, call, calls, form, doubled, dropped>>
  BY DEF Click, MailLost, ServeRequest, SelectLogin, ServeBye, Restart, HourPasses, Deactivate, vars,
         browser, server, history
<1>3. CASE UNCHANGED <<byes, sess, stale>>
  BY <1>1, <1>2, <1>3 DEF Quiet, Valid
<1>4. ASSUME NEW m \in mail, ServeRequest(m) PROVE Quiet
  <2>1. m.sid \in Sids BY DEF IInv, Types, MailTypes, Mail
  <2>2. \A s \in Calls : sess'[s] = IF s = m.sid /\ s \in stale THEN None ELSE sess[s]
    BY <1>1, <1>4 DEF ServeRequest, Expire
  <2>3. stale' = stale \ {m.sid} /\ byes' = byes BY <1>4 DEF ServeRequest
  <2> QED BY <1>1, <1>2, <2>2, <2>3 DEF Quiet, Valid
<1>5. ASSUME NEW s \in Calls, ServeBye(s) PROVE Quiet
  <2>1. \A d \in Calls : sess'[d] = IF d = s THEN None ELSE sess[d]
    BY <1>1, <1>5 DEF ServeBye, End
  <2>2. stale' = stale \ {s} /\ byes' = byes \ {s} BY <1>5 DEF ServeBye
  <2> QED BY <1>1, <1>2, <2>1, <2>2 DEF Quiet, Valid
<1>6. CASE Restart
  BY <1>1, <1>2, <1>6 DEF Restart, Quiet, Valid
<1>7. CASE HourPasses
  <2>1. sess' = sess /\ byes' = byes /\ stale' = {s \in Calls : sess[s] # None}
    BY <1>7 DEF HourPasses
  <2>2. byes = {} BY <1>7 DEF HourPasses
  <2> QED BY <1>1, <1>2, <2>1, <2>2 DEF Quiet, Valid
<1> QED
  BY <1>3, <1>4, <1>5, <1>6, <1>7 DEF Click, MailLost, SelectLogin, Deactivate, vars, server

(* Every other step makes a call or is one of a call. *)
LEMMA Steps ==
  ASSUME IInv, SidInv, [Next]_vars
  PROVE  \/ Quiet
         \/ \E typed \in Users \cup {None}, then \in Reqs \cup {None} :
              DoLogin(typed, then) /\ UNCHANGED <<login, sess, stale, dropped>>
         \/ RenderLogin
         \/ \E c \in Calls : LoggedIn(c) \/ CallLost(c) \/ ServeCall(c)
<1>1. ASSUME NEW m \in mail, Answered(m)
      PROVE  \/ Quiet
             \/ \E typed \in Users \cup {None}, then \in Reqs \cup {None} :
                  DoLogin(typed, then) /\ UNCHANGED <<login, sess, stale, dropped>>
  <2>1. m.req \in Reqs BY MailFields DEF IInv, Types
  <2>2. UNCHANGED <<login, sess, stale, dropped>> BY <1>1 DEF Answered, server
  <2>3. CASE UNCHANGED <<url, form, call, calls, byes, doubled>>
    BY <2>2, <2>3 DEF Quiet, Valid, SidInv, SessInv
  <2>4. CASE DoLogin(None, m.req)
    BY <2>1, <2>2, <2>4
  <2> QED BY <1>1, <2>3, <2>4 DEF Answered
<1>2. ASSUME NEW u \in Users, SubmitForm(u)
      PROVE  \E typed \in Users \cup {None}, then \in Reqs \cup {None} :
               DoLogin(typed, then) /\ UNCHANGED <<login, sess, stale, dropped>>
  <2>1. form.then \in Reqs \cup {None} BY DEF IInv, Types, FormTypes
  <2>2. DoLogin(u, form.then) /\ UNCHANGED <<login, sess, stale, dropped>>
    BY <1>2 DEF SubmitForm, server
  <2> QED BY <2>1, <2>2
<1> QED BY <1>1, <1>2, QuietSteps DEF Next, Deliver

LEMMA LoggedInRow ==
  ASSUME IInv, SidInv, NEW c \in Calls, LoggedIn(c)
  PROVE  /\ call[c] # None /\ call[c].st = "answered"
         /\ call' = [call EXCEPT ![c] = None] /\ call'[c] = None
         /\ \A d \in Calls : d # c => call'[d] = call[d]
         /\ login' = call[c].ans /\ url' = login'.sid
         /\ call[c].ans = LoggedOut \/ (call[c].ans.user \in Users /\ call[c].ans.sid = c)
         /\ UNCHANGED <<form, calls, byes, sess, stale, active, doubled, dropped, faults, lost>>
BY DEF LoggedIn, IInv, Types, CallTypes, SidInv, CallInv, server, bounds

LEMMA RenderLoginRow ==
  ASSUME IInv, SidInv, RenderLogin
  PROVE  /\ form'.made /\ UNCHANGED <<login, url, byes, sess, stale, dropped>>
         /\ IF login.sid # None THEN Post(None, url, None) ELSE UNCHANGED <<call, calls, doubled>>
BY DEF RenderLogin, ShowForm, IInv, Types, FormTypes, server

LEMMA SidStep ==
  ASSUME IInv, SidInv, [Next]_vars
  PROVE  SidInv'
<1>1. CASE Quiet
  BY <1>1, SidKept DEF Quiet
<1>2. ASSUME NEW typed \in Users \cup {None}, NEW then \in Reqs \cup {None},
             DoLogin(typed, then), UNCHANGED <<login, sess, stale>>
      PROVE  SidInv'
  BY <1>2, SidDoLogin
<1>3. CASE RenderLogin
  <2>1. /\ form'.made /\ UNCHANGED <<login, url, byes, sess, stale>>
        /\ IF login.sid # None THEN Post(None, url, None) ELSE UNCHANGED <<call, calls, doubled>>
    BY <1>3, RenderLoginRow
  <2>2. CASE login.sid # None
    <3>1. url \in Sids BY DEF IInv, Types, FormTypes
    <3>2. Post(None, url, None) /\ url' \in {None, login.sid} BY <2>1, <2>2 DEF SidInv, UseInv
    <3> QED BY <2>1, <3>1, <3>2, SidPosted
  <2>3. CASE login.sid = None
    BY <2>1, <2>3 DEF SidInv, UseInv, CallInv, SessInv, ByesInv, OpenInv
  <2> QED BY <2>2, <2>3
<1>4. ASSUME NEW c \in Calls, LoggedIn(c) PROVE SidInv'
  <2>1. /\ call[c] # None /\ call' = [call EXCEPT ![c] = None] /\ call'[c] = None
        /\ login' = call[c].ans /\ url' = login'.sid
        /\ call[c].ans = LoggedOut \/ (call[c].ans.user \in Users /\ call[c].ans.sid = c)
        /\ UNCHANGED <<form, calls, byes, sess, stale>>
    BY <1>4, LoggedInRow
  <2>2. c <= calls BY <2>1 DEF SidInv, CallInv
  <2>3. UseInv' BY <2>1, <2>2 DEF UseInv, LoggedOut
  <2>4. \A s \in stale : sess[s] # None BY DEF SidInv, SessInv
  <2> QED BY <2>1, <2>3, <2>4, SidDone
<1>5. ASSUME NEW c \in Calls, CallLost(c) PROVE SidInv'
  <2>1. /\ call[c] # None /\ call' = [call EXCEPT ![c] = None]
        /\ UNCHANGED <<login, url, form, calls, byes, sess, stale>>
    BY <1>5 DEF CallLost, browser, server
  <2>2. \A s \in stale : sess[s] # None BY DEF SidInv, SessInv
  <2>3. UseInv' BY <2>1 DEF SidInv, UseInv, IInv, Types, CallTypes
  <2> QED BY <2>1, <2>2, <2>3, SidDone
<1>6. ASSUME NEW c \in Calls, ServeCall(c) PROVE SidInv'
  <2>1. UNCHANGED <<login, url, form, byes, calls>> BY <1>6 DEF ServeCall, browser
  <2>2. /\ call[c] # None /\ \A d \in Calls : d # c => call'[d] = call[d]
        /\ \/ /\ call'[c] # None /\ call'[c].st = "answered"
              /\ call'[c].key = call[c].key /\ call'[c].sid = call[c].sid /\ call'[c].then = call[c].then
              /\ Refused(c) \/ Granted(c) \/ Ended(c)
           \/ call'[c] = None /\ call[c].key = None /\ Expired
    BY <1>6, ServeCallRow
  <2>3. UseInv' BY <2>1, <2>2 DEF SidInv, UseInv, IInv, Types, PageTypes, Logins, Sids
  <2>4. CallInv' BY <2>1, <2>2 DEF SidInv, CallInv, Refused, Granted, Ended
  <2>5. SessInv'
    <3>1. \A s \in Calls : sess[s] # None => s <= calls /\ (call[s] # None => call[s].ans.sid = s)
      BY DEF SidInv, SessInv
    <3>2. c <= calls BY <2>2 DEF SidInv, CallInv
    <3>3. sess[c] = None
      <4>1. call[c].ans = LoggedOut BY <1>6, <2>2, ServeCallRow DEF SidInv, CallInv
      <4> QED BY <2>2, <3>1, <4>1 DEF LoggedOut
    <3>4. CASE Refused(c)
      BY <2>1, <2>2, <3>1, <3>3, <3>4 DEF Refused, SidInv, SessInv
    <3>5. CASE Granted(c)
      <4>1. call'[c].ans.sid = c BY <3>5 DEF Granted
      <4> QED BY <2>1, <2>2, <3>1, <3>2, <3>5, <4>1 DEF Granted, SidInv, SessInv, IInv, Types, ServerTypes
    <3>6. CASE Ended(c)
      BY <2>1, <2>2, <3>1, <3>3, <3>6 DEF Ended, SidInv, SessInv, IInv, Types, ServerTypes
    <3>7. CASE call'[c] = None /\ Expired
      BY <2>1, <2>2, <3>1, <3>7 DEF Expired, SessInv
    <3> QED BY <2>2, <3>4, <3>5, <3>6, <3>7
  <2>6. ByesInv' BY <2>1, <2>2 DEF SidInv, ByesInv, IInv, Types, FormTypes
  <2> QED BY <2>1, <2>3, <2>4, <2>5, <2>6 DEF SidInv, OpenInv
<1> QED BY <1>1, <1>2, <1>3, <1>4, <1>5, <1>6, Steps

-----------------------------------------------------------------------------
(* Which session the browser still uses, if one call at a time was under   *)
(* way and none was lost.  Before an answer replaces the session in use,   *)
(* that session has been given up.                                         *)
Gone(s) == s = None \/ ~Valid(s) \/ s \in byes

LeftInv ==
  /\ \A c, d \in UnderWay : c = d
  /\ url = None => Gone(login.sid)
  /\ \A c \in UnderWay :
       /\ call[c].key # None => url = None
       /\ call[c].key = None => \/ Gone(login.sid)
                                \/ call[c].st = "sent" /\ call[c].sid = login.sid

OrphanInv == ~doubled /\ ~dropped => LeftInv /\ NoOrphan

LEMMA OrphanInit == Init => OrphanInv
<1> SUFFICES ASSUME Init PROVE LeftInv /\ NoOrphan BY DEF OrphanInv
<1>1. LeftInv BY DEF Init, LeftInv, Gone, UnderWay
<1>2. NoOrphan BY DEF Init, NoOrphan, Valid
<1> QED BY <1>1, <1>2

LEMMA OrphanSame ==
  ASSUME SidInv, LeftInv, NoOrphan, ~doubled, ~dropped,
         UNCHANGED <<login, url, call>>,
         \A s \in byes : s \in byes' \/ ~Valid(s)',
         \A s \in Calls : Valid(s)' => Valid(s),
         login.sid \in Sids
  PROVE  LeftInv' /\ NoOrphan'
<1>1. Gone(login.sid) => Gone(login.sid)' BY DEF Gone, Sids
<1>2. LeftInv' BY <1>1 DEF LeftInv, UnderWay
<1>3. NoOrphan' BY DEF NoOrphan
<1> QED BY <1>2, <1>3

LEMMA OrphanStep ==
  ASSUME IInv, SidInv, OrphanInv, [Next]_vars
  PROVE  OrphanInv'
<1> SUFFICES ASSUME ~doubled', ~dropped' PROVE LeftInv' /\ NoOrphan' BY DEF OrphanInv
<1>0. /\ login.sid \in Sids /\ url \in {None, login.sid} /\ doubled \in BOOLEAN /\ dropped \in BOOLEAN
      /\ login.sid # None => call[login.sid] = None /\ login.sid <= calls
      /\ byes \subseteq Calls
  BY DEF IInv, Types, PageTypes, Logins, CallTypes, CountTypes, FormTypes, SidInv, UseInv
<1>1. CASE Quiet
  <2>1. LeftInv /\ NoOrphan /\ ~doubled /\ ~dropped BY <1>1 DEF Quiet, OrphanInv
  <2> QED BY <1>0, <1>1, <2>1, OrphanSame DEF Quiet
<1>2. ASSUME NEW typed \in Users \cup {None}, NEW then \in Reqs \cup {None},
             DoLogin(typed, then), UNCHANGED <<login, sess, stale, dropped>>
      PROVE  LeftInv' /\ NoOrphan'
  <2>1. /\ url' = None
        /\ byes \subseteq byes'
        /\ login.sid # None /\ url # None /\ sess[url] # None => url \in byes'
        /\ \/ UNCHANGED <<call, calls, doubled>>
           \/ /\ Post(IF typed # None THEN typed ELSE key, None, then)
              /\ (IF typed # None THEN typed ELSE key) \in Users
    BY <1>2, DoLoginRow
  <2>2. ~doubled /\ ~dropped /\ LeftInv /\ NoOrphan
    <3>1. doubled' = doubled \/ doubled' = (doubled \/ UnderWay # {}) BY <2>1 DEF Post
    <3>2. ~doubled /\ ~dropped BY <1>0, <1>2, <3>1
    <3> QED BY <3>2 DEF OrphanInv
  <2>3. \A s \in Calls : Valid(s)' <=> Valid(s) BY <1>2 DEF Valid
  <2>4. Gone(login.sid)'
    <3>1. CASE url = None BY <1>0, <1>2, <2>1, <2>2, <2>3, <3>1 DEF LeftInv, Gone, Sids
    <3>2. CASE url = login.sid /\ login.sid # None
      BY <1>0, <1>2, <2>1, <3>2 DEF Gone, Valid
    <3> QED BY <1>0, <3>1, <3>2
  <2>6. CASE UNCHANGED <<call, calls, doubled>>
    <3>1. LeftInv'
      BY <1>2, <2>1, <2>2, <2>4, <2>6 DEF LeftInv, UnderWay
    <3>2. NoOrphan' BY <1>2, <2>1, <2>2, <2>3, <2>6 DEF NoOrphan
    <3> QED BY <3>1, <3>2
  <2>7. ASSUME NEW k \in Users, Post(k, None, then) PROVE LeftInv' /\ NoOrphan'
    <3>1. /\ calls' \in Calls /\ call[calls'] = None /\ call'[calls'] # None
          /\ call'[calls'].key = k
          /\ \A c \in Calls : c # calls' => call'[c] = call[c]
          /\ UnderWay = {}
      <4>1. None \in Sids BY DEF Sids
      <4>2. doubled' = (doubled \/ UnderWay # {}) BY <2>7, <4>1, PostRow
      <4> QED BY <2>7, <4>1, <4>2, PostRow
    <3>2. UnderWay' = {calls'} BY <3>1 DEF UnderWay
    <3>3. LeftInv' BY <2>1, <2>4, <3>1, <3>2 DEF LeftInv
    <3>4. NoOrphan' BY <1>2, <2>1, <2>2, <2>3, <3>1 DEF NoOrphan
    <3> QED BY <3>3, <3>4
  <2> QED BY <2>1, <2>6, <2>7
<1>3. CASE RenderLogin
  <2>1. /\ UNCHANGED <<login, url, byes, sess, stale, dropped>>
        /\ IF login.sid # None THEN Post(None, url, None) ELSE UNCHANGED <<call, calls, doubled>>
    BY <1>3, RenderLoginRow
  <2>2. ~doubled /\ ~dropped /\ LeftInv /\ NoOrphan BY <2>1 DEF OrphanInv, Post
  <2>3. \A s \in Calls : Valid(s)' <=> Valid(s) BY <2>1 DEF Valid
  <2>4. Gone(login.sid) <=> Gone(login.sid)' BY <2>1 DEF Gone, Valid
  <2>5. CASE login.sid = None
    BY <1>0, <2>1, <2>2, <2>3, <2>5, OrphanSame
  <2>6. CASE login.sid # None
    <3>1. /\ calls' \in Calls /\ call[calls'] = None /\ call'[calls'] # None
          /\ call'[calls'].key = None /\ call'[calls'].sid = url /\ call'[calls'].st = "sent"
          /\ \A c \in Calls : c # calls' => call'[c] = call[c]
          /\ UnderWay = {}
      <4>1. url \in Sids BY DEF IInv, Types, FormTypes
      <4>2. Post(None, url, None) BY <2>1, <2>6
      <4>3. doubled' = (doubled \/ UnderWay # {}) BY <4>1, <4>2, PostRow
      <4> QED BY <4>1, <4>2, <4>3, PostRow
    <3>2. UnderWay' = {calls'} BY <3>1 DEF UnderWay
    <3>3. LeftInv' BY <1>0, <2>1, <2>2, <2>4, <3>1, <3>2 DEF LeftInv
    <3>4. NoOrphan' BY <2>1, <2>2, <2>3, <3>1 DEF NoOrphan
    <3> QED BY <3>3, <3>4
  <2> QED BY <2>5, <2>6
<1>4. ASSUME NEW c \in Calls, LoggedIn(c) PROVE LeftInv' /\ NoOrphan'
  <2>1. /\ call[c] # None /\ call[c].st = "answered" /\ call'[c] = None
        /\ \A d \in Calls : d # c => call'[d] = call[d]
        /\ login' = call[c].ans /\ url' = login'.sid
        /\ call[c].ans = LoggedOut \/ call[c].ans.sid = c
        /\ UNCHANGED <<byes, sess, stale, doubled, dropped>>
    BY <1>4, LoggedInRow
  <2>2. LeftInv /\ NoOrphan /\ ~doubled /\ ~dropped BY <2>1 DEF OrphanInv
  <2>3. Gone(login.sid) BY <2>1, <2>2 DEF LeftInv, UnderWay
  <2>4. UnderWay = {c} /\ UnderWay' = {} BY <2>1, <2>2 DEF LeftInv, UnderWay
  <2>5. LeftInv' BY <2>1, <2>4 DEF LeftInv, Gone, LoggedOut
  <2>6. NoOrphan'
    <3> SUFFICES ASSUME NEW s \in Calls, Valid(s)
                 PROVE  s = login'.sid \/ s \in byes
      BY <2>1 DEF NoOrphan, Valid
    <3>1. s = login.sid \/ s \in byes \/ (s = c /\ call[s].ans.sid = s)
      BY <2>2, <2>4 DEF NoOrphan, UnderWay
    <3> QED BY <2>1, <2>3, <3>1 DEF Gone
  <2> QED BY <2>5, <2>6
<1>5. ASSUME NEW c \in Calls, CallLost(c) PROVE LeftInv' /\ NoOrphan'
  BY <1>5 DEF CallLost
<1>6. ASSUME NEW c \in Calls, ServeCall(c) PROVE LeftInv' /\ NoOrphan'
  <2>1. UNCHANGED <<login, url, byes, doubled, dropped>> BY <1>6 DEF ServeCall, browser, history
  <2>2. LeftInv /\ NoOrphan /\ ~doubled /\ ~dropped BY <2>1 DEF OrphanInv
  <2>3. /\ call[c] # None /\ call[c].st = "sent" /\ \A d \in Calls : d # c => call'[d] = call[d]
        /\ \/ /\ call'[c] # None /\ call'[c].st = "answered"
              /\ call'[c].key = call[c].key /\ call'[c].sid = call[c].sid
              /\ Refused(c) \/ Granted(c) \/ Ended(c)
           \/ call'[c] = None /\ call[c].key = None /\ Expired
    BY <1>6, ServeCallRow
  <2>4. call[c].ans.sid = None /\ c # login.sid
    BY <1>0, <2>3 DEF SidInv, CallInv, LoggedOut
  <2>5. UnderWay = {c} /\ UnderWay' \subseteq {c} BY <2>2, <2>3 DEF LeftInv, UnderWay
  <2>6. \A s \in Calls : Valid(s)' => Valid(s) \/ (s = c /\ call'[c] # None /\ call'[c].ans.sid = c)
    BY <2>3 DEF Refused, Granted, Ended, Expired, Valid
  <2>7. Gone(login.sid) => Gone(login.sid)'
    BY <1>0, <2>1, <2>4, <2>6 DEF Gone, Sids
  <2>8. call[c].key = None => Gone(login.sid)' \/ call'[c] = None
    <3> SUFFICES ASSUME call[c].key = None, call'[c] # None, ~Gone(login.sid) PROVE Gone(login.sid)'
      BY <2>7
    <3>1. call[c].sid = login.sid BY <2>2, <2>5 DEF LeftInv
    <3>2. Ended(c) BY <2>3 DEF Refused, Granted
    <3> QED BY <1>0, <2>1, <3>1, <3>2 DEF Ended, Gone, Valid, Sids
  <2>9. LeftInv'
    <3>1. \A d, e \in UnderWay' : d = e BY <2>5
    <3>2. url' = None => Gone(login.sid)' BY <2>1, <2>2, <2>7 DEF LeftInv
    <3>3. ASSUME NEW d \in UnderWay'
          PROVE  /\ call'[d].key # None => url' = None
                 /\ call'[d].key = None => Gone(login.sid)'
      <4>1. d = c /\ call'[c] # None /\ call'[c].key = call[c].key BY <2>3, <2>5 DEF UnderWay
      <4> QED BY <2>1, <2>2, <2>5, <2>8, <4>1 DEF LeftInv
    <3> QED BY <3>1, <3>2, <3>3 DEF LeftInv
  <2>10. NoOrphan'
    BY <2>1, <2>2, <2>3, <2>4, <2>6 DEF NoOrphan
  <2> QED BY <2>9, <2>10
<1> QED BY <1>1, <1>2, <1>3, <1>4, <1>5, <1>6, Steps

(* A valid session is the one in use, or about to be used or ended, unless *)
(* two calls were under way at once or one was lost: no session is left    *)
(* open in epghttpd by a login, a logout or a login in the background.     *)
THEOREM NothingLeft == Spec => []NoOrphan
<1>1. Init => IInv /\ SidInv /\ OrphanInv BY InitIInv, SidInit, OrphanInit
<1>2. IInv /\ SidInv /\ OrphanInv /\ [Next]_vars => (IInv /\ SidInv /\ OrphanInv)'
  BY NextStep, SidStep, OrphanStep
<1>3. OrphanInv => NoOrphan BY DEF OrphanInv, NoOrphan
<1> QED BY <1>1, <1>2, <1>3, PTL DEF Spec

-----------------------------------------------------------------------------
(* The case RestartUnnoticed speaks of, and how it goes on in it: a refusal *)
(* costs the one fault there is, so that the login in the background        *)
(* succeeds and the repeated request finds its session.                     *)
Smooth(r) == Alone(r) /\ faults <= 1 /\ lost = 0 /\ active = Users /\ ~form.made

SmoothPage(r) ==
  /\ req[r].st # "told" /\ ~req[r].bare
  /\ req[r].st = "new" /\ login.user \in Users => url # None
  /\ faults = 0 => byes = {} /\ (login.sid # None => Valid(login.sid))

SmoothMail ==
  \A m \in mail :
    /\ m.again => /\ faults = 1 /\ m.st # "refused"
                  /\ m.st = "sent" => Valid(m.sid) /\ m.sid \notin byes
    /\ ~m.again => /\ m.st = "refused" => faults = 1
                   /\ m.st = "sent" /\ faults = 0 => Valid(m.sid)

SmoothCalls(r) ==
  \A c \in UnderWay :
    /\ call[c].key # None
    /\ call[c].then = r => faults = 1
    /\ call[c].st = "answered" =>
         call[c].ans.user \in Users /\ (call[c].then = r \/ faults = 0 => Valid(c))

SmoothInv == \A r \in Reqs : Smooth(r) => SmoothPage(r) /\ SmoothMail /\ SmoothCalls(r)

LEMMA SmoothInit == Init => SmoothInv
<1> SUFFICES ASSUME Init, NEW r \in Reqs, ~form.made
             PROVE  SmoothPage(r) /\ SmoothMail /\ SmoothCalls(r)
  BY DEF SmoothInv, Smooth
<1>1. key # None BY DEF Init
<1>2. SmoothPage(r) BY DEF Init, SmoothPage
<1>3. SmoothMail BY DEF Init, SmoothMail
<1>4. SmoothCalls(r)
  <2>1. ASSUME NEW c \in UnderWay
        PROVE  call[c] = [key |-> key, sid |-> None, old |-> Unset, then |-> None,
                          st |-> "sent", ans |-> LoggedOut]
    BY <2>1 DEF Init, UnderWay
  <2> QED BY <1>1, <2>1 DEF SmoothCalls
<1> QED BY <1>2, <1>3, <1>4

(* There is no other request then, and each is at one place. *)
LEMMA SmoothAlone ==
  ASSUME IInv, NEW r \in Reqs, Smooth(r)
  PROVE  /\ Once(r)
         /\ \A m \in mail : m.req = r
         /\ \A c \in UnderWay : call[c].then \in {None, r}
         /\ faults \in {0, 1}
<1>1. form.then = None BY DEF Smooth, IInv, FormInv
<1>2. \A q \in Reqs : Once(q) BY <1>1 DEF IInv, OnceInv
<1>3. \A q \in Reqs \ {r} : req[q].st = "new" BY DEF Smooth, Alone
<1>4. \A m \in mail : m.req = r
  <2>1. \A m \in mail : m.req \in Reqs BY MailFields DEF IInv, Types
  <2> QED BY <1>2, <1>3, <2>1 DEF Once
<1>5. \A c \in UnderWay : call[c].then \in {None, r}
  <2>1. \A c \in UnderWay : call[c].then \in Reqs \cup {None}
    BY RowTypes DEF UnderWay, IInv, Types, CallTypes
  <2> QED BY <1>2, <1>3, <2>1 DEF Once, Waits, UnderWay
<1>6. faults \in {0, 1} BY DEF Smooth, IInv, Types, CountTypes
<1> QED BY <1>2, <1>4, <1>5, <1>6

(* What spoils it cannot be undone. *)
LEMMA SmoothBefore ==
  ASSUME IInv, SidInv, [Next]_vars, NEW r \in Reqs, Smooth(r)'
  PROVE  Smooth(r)
<1>1. \A q \in Reqs : req'[q].st = "new" => req[q].st = "new"
  <2>1. ASSUME NEW q \in Reqs, Click(q) PROVE \A p \in Reqs : req'[p].st = "new" => req[p].st = "new"
    BY <2>1 DEF Click, IInv, Types, MailTypes
  <2>2. ASSUME NEW m \in mail, Answered(m) \/ MailLost(m)
        PROVE  \A p \in Reqs : req'[p].st = "new" => req[p].st = "new"
    <3>1. m.req \in Reqs BY MailFields DEF IInv, Types
    <3>2. PICK u \in {"out", "waiting", "done", "told"} : req' = [req EXCEPT ![m.req].st = u]
      BY <2>2 DEF Answered, MailLost
    <3> QED BY <3>1, <3>2, ReqStates DEF IInv, Types
  <2>3. ASSUME NEW c \in Calls, LoggedIn(c)
        PROVE  \A p \in Reqs : req'[p].st = "new" => req[p].st = "new"
    <3>1. call[c].then \in Reqs \cup {None}
      BY <2>3, RowTypes DEF LoggedIn, IInv, Types, CallTypes
    <3>2. CASE req' = req BY <3>2
    <3>3. CASE req' # req
      <4>1. PICK u \in {"out", "told"} : req' = [req EXCEPT ![call[c].then].st = u]
        BY <2>3, <3>3 DEF LoggedIn, Repeat, Deny
      <4>2. call[c].then \in Reqs BY <2>3, <3>1, <3>3 DEF LoggedIn
      <4> QED BY <4>1, <4>2, ReqStates DEF IInv, Types
    <3> QED BY <3>2, <3>3
  <2> QED
    BY <2>1, <2>2, <2>3 DEF Next, Deliver, ServeRequest, ServeCall, ServeBye, RenderLogin, SelectLogin,
       SubmitForm, CallLost, Restart, HourPasses, Deactivate, vars
<1>2. form.made => form'.made
  <2>1. form \in [made : BOOLEAN, open : BOOLEAN, then : Reqs \cup {None}]
    BY DEF IInv, Types, FormTypes
  <2>2. CASE Quiet BY <2>2 DEF Quiet
  <2>3. ASSUME NEW typed \in Users \cup {None}, NEW then \in Reqs \cup {None}, DoLogin(typed, then)
        PROVE  form.made => form'.made
    BY <2>3, DoLoginRow
  <2>4. CASE RenderLogin BY <2>4, RenderLoginRow
  <2>5. ASSUME NEW c \in Calls, LoggedIn(c) \/ CallLost(c) \/ ServeCall(c) PROVE form.made => form'.made
    BY <2>5 DEF LoggedIn, CallLost, ServeCall, browser
  <2> QED BY <2>2, <2>3, <2>4, <2>5, Steps
<1>3. faults' = faults \/ faults' = faults + 1
  BY DEF Next, Deliver, Click, Answered, MailLost, LoggedIn, CallLost, SelectLogin, RenderLogin,
     SubmitForm, ServeRequest, ServeCall, ServeBye, Restart, HourPasses, Fault, Deactivate, bounds, vars
<1>4. lost' = lost \/ lost' = lost + 1
  BY DEF Next, Deliver, Click, Answered, MailLost, LoggedIn, CallLost, SelectLogin, RenderLogin,
     SubmitForm, ServeRequest, ServeCall, ServeBye, Restart, HourPasses, Deactivate, bounds, vars
<1>5. active' = active \/ \E u \in Users : active' = Users \ {u}
  BY DEF Next, Deliver, Click, Answered, MailLost, LoggedIn, CallLost, SelectLogin, RenderLogin,
     SubmitForm, ServeRequest, ServeCall, ServeBye, Restart, HourPasses, Deactivate, server, vars
<1>6. faults \in Nat /\ lost \in Nat BY DEF IInv, Types, CountTypes
<1> QED BY <1>1, <1>2, <1>3, <1>4, <1>5, <1>6 DEF Smooth, Alone

(* One step of that case: r is the request, everything else waits for it. *)
SmoothNow(r) == IInv /\ SidInv /\ Smooth(r) /\ SmoothPage(r) /\ SmoothMail /\ SmoothCalls(r)
SmoothThen(r) == SmoothPage(r)' /\ SmoothMail' /\ SmoothCalls(r)'

LEMMA SmoothClick ==
  ASSUME NEW r \in Reqs, SmoothNow(r), Click(r)
  PROVE  SmoothThen(r)
<1>1. PICK n : n = [req |-> r, again |-> FALSE, sid |-> url, st |-> "sent"] OBVIOUS
<1>2. /\ mail' = mail \cup {n} /\ login.user \in Users /\ req[r].st = "new"
      /\ req' = [req EXCEPT ![r] = [st |-> "out", bare |-> url = None]]
      /\ UNCHANGED <<login, url, call, calls, byes, sess, stale, faults>>
  BY <1>1 DEF Click, browser, server, bounds
<1>3. \A s : Valid(s)' <=> Valid(s) BY <1>2 DEF Valid
<1>4. url # None /\ url = login.sid /\ (faults = 0 => Valid(url))
  BY <1>2 DEF SmoothNow, SmoothPage, SidInv, UseInv
<1>5. req'[r].st = "out" /\ ~req'[r].bare
  BY <1>2, <1>4 DEF SmoothNow, IInv, Types, MailTypes
<1>6. SmoothPage(r)' BY <1>2, <1>3, <1>5 DEF SmoothNow, SmoothPage, Valid
<1>7. ~n.again /\ n.st = "sent" /\ n.sid = url BY <1>1
<1>8. SmoothMail'
  <2> SUFFICES ASSUME NEW m \in mail'
               PROVE  /\ m.again => /\ faults = 1 /\ m.st # "refused"
                                    /\ m.st = "sent" => Valid(m.sid)' /\ m.sid \notin byes
                      /\ ~m.again => /\ m.st = "refused" => faults = 1
                                     /\ m.st = "sent" /\ faults = 0 => Valid(m.sid)'
    BY <1>2 DEF SmoothMail, Valid
  <2>1. CASE m = n BY <1>3, <1>4, <1>7, <2>1
  <2>2. CASE m \in mail BY <1>3, <2>2 DEF SmoothNow, SmoothMail
  <2> QED BY <1>2, <2>1, <2>2
<1>9. SmoothCalls(r)' BY <1>2, <1>3 DEF SmoothNow, SmoothCalls, UnderWay, Valid
<1> QED BY <1>6, <1>8, <1>9 DEF SmoothThen

LEMMA SmoothAnswered ==
  ASSUME NEW r \in Reqs, SmoothNow(r), Smooth(r)', NEW m \in mail, Answered(m)
  PROVE  SmoothThen(r)
<1>1. /\ m.req = r /\ Once(r) /\ faults \in {0, 1}
      /\ \A n \in mail : n = m
  <2>1. Once(r) /\ faults \in {0, 1} /\ \A n \in mail : n.req = r BY SmoothAlone DEF SmoothNow
  <2> QED BY <2>1 DEF Once
<1>2. /\ mail' = {} /\ UNCHANGED <<login, sess, stale, faults>>
  BY <1>1 DEF Answered, server, bounds
<1>3. \A s : Valid(s)' <=> Valid(s) BY <1>2 DEF Valid
<1>4. SmoothMail' BY <1>2 DEF SmoothMail
<1>5. ~(m.st = "refused" /\ m.again) BY DEF SmoothNow, SmoothMail
<1>6. CASE m.st = "ok"
  <2>1. /\ req' = [req EXCEPT ![r].st = "done"]
        /\ UNCHANGED <<url, call, byes>>
    BY <1>1, <1>6 DEF Answered
  <2>2. req'[r].st = "done" /\ ~req'[r].bare
    BY <2>1 DEF SmoothNow, SmoothPage, IInv, Types, MailTypes
  <2>3. SmoothPage(r)' BY <1>2, <1>3, <2>1, <2>2 DEF SmoothNow, SmoothPage, Valid
  <2>4. SmoothCalls(r)' BY <1>2, <1>3, <2>1 DEF SmoothNow, SmoothCalls, UnderWay, Valid
  <2> QED BY <1>4, <2>3, <2>4 DEF SmoothThen
<1>7. CASE m.st = "refused" /\ ~m.again
  <2>1. req' = [req EXCEPT ![r].st = "waiting"] /\ DoLogin(None, r)
    BY <1>1, <1>7 DEF Answered
  <2>2. req'[r].st = "waiting" /\ ~req'[r].bare
    BY <2>1 DEF SmoothNow, SmoothPage, IInv, Types, MailTypes
  <2>3. faults = 1 BY <1>7 DEF SmoothNow, SmoothMail
  <2>4. SmoothPage(r)' BY <1>2, <2>2, <2>3 DEF SmoothPage
  <2>5. Post(key, None, r) /\ key \in Users
    BY <2>1, DoLoginRow DEF SmoothNow, Smooth
  <2>6. None \in Sids BY DEF Sids
  <2>7. /\ calls' \in Calls /\ call'[calls'].key = key /\ call'[calls'].then = r /\ call'[calls'].st = "sent"
        /\ \A c \in Calls : c # calls' => call'[c] = call[c]
    BY <2>5, <2>6, PostRow DEF SmoothNow
  <2>8. SmoothCalls(r)'
    <3> SUFFICES ASSUME NEW c \in UnderWay'
                 PROVE  /\ call'[c].key # None
                        /\ call'[c].then = r => faults = 1
                        /\ call'[c].st = "answered" =>
                             call'[c].ans.user \in Users /\ (call'[c].then = r \/ faults = 0 => Valid(c)')
      BY <1>2 DEF SmoothCalls, Valid
    <3>1. CASE c = calls' BY <2>3, <2>5, <2>7, <3>1
    <3>2. CASE c # calls'
      <4>1. call'[c] = call[c] /\ c \in UnderWay BY <2>7, <3>2 DEF UnderWay
      <4> QED BY <1>3, <4>1 DEF SmoothNow, SmoothCalls
    <3> QED BY <3>1, <3>2
  <2> QED BY <1>4, <2>4, <2>8 DEF SmoothThen
<1> QED BY <1>5, <1>6, <1>7 DEF Answered

LEMMA SmoothLoggedIn ==
  ASSUME NEW r \in Reqs, SmoothNow(r), NEW c \in Calls, LoggedIn(c)
  PROVE  SmoothThen(r)
<1>1. /\ c \in UnderWay /\ call[c].st = "answered" /\ call'[c] = None
      /\ \A d \in Calls : d # c => call'[d] = call[d]
      /\ login' = call[c].ans /\ url' = login'.sid
      /\ call[c].ans = LoggedOut \/ call[c].ans.sid = c
      /\ UNCHANGED <<byes, sess, stale, faults>>
  BY LoggedInRow DEF SmoothNow, UnderWay
<1>2. call[c].ans.user \in Users /\ (call[c].then = r \/ faults = 0 => Valid(c))
  BY <1>1 DEF SmoothNow, SmoothCalls
<1>3. login'.user \in Users /\ login'.sid = c /\ url' = c
  BY <1>1, <1>2 DEF LoggedOut
<1>4. \A s : Valid(s)' <=> Valid(s) BY <1>1 DEF Valid
<1>5. SmoothCalls(r)'
  <2>1. \A d \in UnderWay' : d \in UnderWay /\ call'[d] = call[d] BY <1>1 DEF UnderWay
  <2> QED BY <1>1, <1>4, <2>1 DEF SmoothNow, SmoothCalls, Valid
<1>6. CASE call[c].then = None
  <2>1. UNCHANGED <<req, mail>> BY <1>6 DEF LoggedIn
  <2>2. SmoothPage(r)' BY <1>1, <1>2, <1>3, <2>1 DEF SmoothNow, SmoothPage, Valid
  <2>3. SmoothMail' BY <1>1, <1>4, <2>1 DEF SmoothNow, SmoothMail, Valid
  <2> QED BY <1>5, <2>2, <2>3 DEF SmoothThen
<1>7. CASE call[c].then = r
  <2>1. Repeat(r, c)
    <3>1. call[c].ans.user # Nobody /\ call[c].then # None BY <1>2, <1>7
    <3> QED BY <1>1, <1>3, <1>7, <3>1 DEF LoggedIn
  <2>2. PICK n : n = [req |-> r, again |-> TRUE, sid |-> IF req[r].bare THEN None ELSE c, st |-> "sent"]
    OBVIOUS
  <2>3. n.again /\ n.sid = c /\ n.st = "sent" BY <2>2 DEF SmoothNow, SmoothPage
  <2>4. mail' = mail \cup {n} /\ req' = [req EXCEPT ![r].st = "out"] BY <2>1, <2>2 DEF Repeat
  <2>5. req'[r].st = "out" /\ ~req'[r].bare
    BY <2>4 DEF SmoothNow, SmoothPage, IInv, Types, MailTypes
  <2>6. faults = 1 /\ Valid(c) BY <1>1, <1>2, <1>7 DEF SmoothNow, SmoothCalls
  <2>7. c \notin byes BY <1>1 DEF SmoothNow, SidInv, ByesInv, UnderWay
  <2>8. SmoothPage(r)' BY <1>1, <2>5, <2>6 DEF SmoothPage
  <2>9. SmoothMail'
    <3> SUFFICES ASSUME NEW m \in mail'
                 PROVE  /\ m.again => m.st # "refused" /\ (m.st = "sent" => Valid(m.sid)' /\ m.sid \notin byes)
      BY <1>1, <2>6 DEF SmoothMail, Valid
    <3>1. CASE m = n BY <1>4, <2>3, <2>6, <2>7, <3>1
    <3>2. CASE m \in mail BY <1>4, <3>2 DEF SmoothNow, SmoothMail
    <3> QED BY <2>4, <3>1, <3>2
  <2> QED BY <1>5, <2>8, <2>9 DEF SmoothThen
<1> QED BY <1>1, <1>6, <1>7, SmoothAlone DEF SmoothNow

LEMMA SmoothServeRequest ==
  ASSUME NEW r \in Reqs, SmoothNow(r), NEW m \in mail, ServeRequest(m)
  PROVE  SmoothThen(r)
<1>1. /\ sess \in [Calls -> Users \cup {None}] /\ stale \subseteq Calls /\ login.sid \in Sids
      /\ m \in Mail /\ faults \in {0, 1}
  BY SmoothAlone DEF SmoothNow, IInv, Types, ServerTypes, PageTypes, Logins, MailTypes
<1>2. /\ UNCHANGED <<login, url, req, call, byes, faults>> /\ stale' = stale \ {m.sid}
      /\ m.st = "sent"
  BY DEF ServeRequest, browser, bounds
<1>3. \A s \in Calls : sess'[s] = IF s = m.sid /\ s \in stale THEN None ELSE sess[s]
  BY <1>1 DEF ServeRequest, Expire
<1>4. \A s \in Sids : Valid(s)' <=> Valid(s) BY <1>1, <1>2, <1>3 DEF Valid, Sids
<1>5. PICK n : n = [m EXCEPT !.st = IF Valid(m.sid) THEN "ok" ELSE "refused"] OBVIOUS
<1>6. /\ mail' = (mail \ {m}) \cup {n}
      /\ n.again = m.again /\ n.st = IF Valid(m.sid) THEN "ok" ELSE "refused"
  BY <1>1, <1>5 DEF ServeRequest, Mail
<1>7. SmoothPage(r)' BY <1>1, <1>2, <1>4 DEF SmoothNow, SmoothPage
<1>8. SmoothCalls(r)'
  <2>1. \A c \in Calls : c \in Sids BY DEF Sids
  <2> QED BY <1>2, <1>4, <2>1 DEF SmoothNow, SmoothCalls, UnderWay
<1>9. SmoothMail'
  <2> SUFFICES ASSUME NEW x \in mail'
               PROVE  /\ x.again => /\ faults = 1 /\ x.st # "refused"
                                    /\ x.st = "sent" => Valid(x.sid)' /\ x.sid \notin byes
                      /\ ~x.again => /\ x.st = "refused" => faults = 1
                                     /\ x.st = "sent" /\ faults = 0 => Valid(x.sid)'
    BY <1>2 DEF SmoothMail, Valid
  <2>1. CASE x = n BY <1>1, <1>2, <1>6, <2>1 DEF SmoothNow, SmoothMail
  <2>2. CASE x \in mail
    <3>1. x.sid \in Sids BY <2>2 DEF SmoothNow, IInv, Types, MailTypes, Mail
    <3> QED BY <1>4, <2>2, <3>1 DEF SmoothNow, SmoothMail
  <2> QED BY <1>6, <2>1, <2>2
<1> QED BY <1>7, <1>8, <1>9 DEF SmoothThen

LEMMA SmoothServeCall ==
  ASSUME NEW r \in Reqs, SmoothNow(r), NEW c \in Calls, ServeCall(c)
  PROVE  SmoothThen(r)
<1>1. /\ UNCHANGED <<login, url, req, mail, byes, faults>>
      /\ login.sid \in Sids /\ active = Users
  BY DEF ServeCall, browser, bounds, SmoothNow, Smooth, IInv, Types, PageTypes, Logins
<1>2. /\ c \in UnderWay /\ call[c].key # None /\ \A d \in Calls : d # c => call'[d] = call[d]
      /\ call'[c] # None /\ call'[c].key = call[c].key /\ call'[c].then = call[c].then
      /\ Refused(c) \/ Granted(c)
  <2>1. call[c] # None /\ call[c].key # None
    BY ServeCallRow DEF SmoothNow, SmoothCalls, UnderWay
  <2> QED BY <2>1, ServeCallRow DEF SmoothNow, Ended, UnderWay
<1>3. Granted(c)
  <2>1. call[c].key \in Users
    BY <1>2, RowTypes DEF SmoothNow, IInv, Types, CallTypes, UnderWay
  <2> QED BY <1>1, <1>2, <2>1 DEF Refused
<1>4. Valid(c)' /\ call'[c].ans.user \in Users
  BY <1>3 DEF Granted, Valid
<1>5. \A s \in Sids : Valid(s) => Valid(s)'
  BY <1>3 DEF Granted, Valid, Sids
<1>6. SmoothPage(r)' BY <1>1, <1>5 DEF SmoothNow, SmoothPage
<1>7. SmoothMail'
  <2>1. \A m \in mail : m.sid \in Sids BY DEF SmoothNow, IInv, Types, MailTypes, Mail
  <2> QED BY <1>1, <1>5, <2>1 DEF SmoothNow, SmoothMail
<1>8. SmoothCalls(r)'
  <2> SUFFICES ASSUME NEW d \in UnderWay'
               PROVE  /\ call'[d].key # None
                      /\ call'[d].then = r => faults = 1
                      /\ call'[d].st = "answered" =>
                           call'[d].ans.user \in Users /\ (call'[d].then = r \/ faults = 0 => Valid(d)')
    BY <1>1 DEF SmoothCalls, Valid
  <2>1. CASE d = c BY <1>2, <1>4, <2>1 DEF SmoothNow, SmoothCalls
  <2>2. CASE d # c
    <3>1. d \in UnderWay /\ d \in Sids /\ call'[d] = call[d] BY <1>2, <2>2 DEF UnderWay, Sids
    <3> QED BY <1>5, <3>1 DEF SmoothNow, SmoothCalls
  <2> QED BY <2>1, <2>2
<1> QED BY <1>6, <1>7, <1>8 DEF SmoothThen

(* A session is ended only after the fault, and is not the new one. *)
LEMMA SmoothServeBye ==
  ASSUME NEW r \in Reqs, SmoothNow(r), NEW s \in Calls, ServeBye(s)
  PROVE  SmoothThen(r)
<1>1. /\ UNCHANGED <<login, url, req, mail, call, faults>> /\ byes' = byes \ {s} /\ s \in byes
      /\ stale' = stale \ {s} /\ sess' = End(s)
  BY DEF ServeBye, browser, bounds
<1>2. \A d \in Calls : d # s => sess'[d] = sess[d]
  BY <1>1 DEF SmoothNow, IInv, Types, ServerTypes, End
<1>3. \A d \in Sids : d # s /\ Valid(d) => Valid(d)' BY <1>1, <1>2 DEF Valid, Sids
<1>4. faults = 1 /\ call[s] = None
  BY <1>1, SmoothAlone DEF SmoothNow, SmoothPage, SidInv, ByesInv
<1>5. SmoothPage(r)' BY <1>1, <1>4 DEF SmoothNow, SmoothPage
<1>6. SmoothMail'
  <2>1. \A m \in mail : m.sid \in Sids BY DEF SmoothNow, IInv, Types, MailTypes, Mail
  <2> QED BY <1>1, <1>3, <1>4, <2>1 DEF SmoothNow, SmoothMail
<1>7. SmoothCalls(r)'
  <2>1. \A d \in UnderWay : d \in Sids /\ d # s BY <1>4 DEF UnderWay, Sids
  <2> QED BY <1>1, <1>3, <2>1 DEF SmoothNow, SmoothCalls, UnderWay
<1> QED BY <1>5, <1>6, <1>7 DEF SmoothThen

(* The fault: nothing was refused before, so no login repeats a request. *)
LEMMA SmoothFault ==
  ASSUME NEW r \in Reqs, SmoothNow(r), Smooth(r)', Restart \/ HourPasses
  PROVE  SmoothThen(r)
<1>1. faults = 0 /\ faults' = 1
  BY SmoothAlone DEF SmoothNow, Smooth, Restart, HourPasses, Fault
<1>2. UNCHANGED <<login, url, req, mail, call>>
  BY DEF Restart, HourPasses, browser
<1>3. SmoothPage(r)' BY <1>1, <1>2 DEF SmoothNow, SmoothPage
<1>4. SmoothMail' BY <1>1, <1>2 DEF SmoothNow, SmoothMail
<1>5. SmoothCalls(r)' BY <1>1, <1>2 DEF SmoothNow, SmoothCalls, UnderWay
<1> QED BY <1>3, <1>4, <1>5 DEF SmoothThen

LEMMA SmoothStep ==
  ASSUME IInv, SidInv, SmoothInv, [Next]_vars
  PROVE  SmoothInv'
<1> SUFFICES ASSUME NEW r \in Reqs, Smooth(r)' PROVE SmoothThen(r)
  BY DEF SmoothInv, SmoothThen
<1>1. SmoothNow(r) BY SmoothBefore DEF SmoothInv, SmoothNow
<1>2. ASSUME NEW q \in Reqs, Click(q) PROVE SmoothThen(r)
  <2>1. req'[q].st = "out" BY <1>2 DEF Click, IInv, Types, MailTypes
  <2>2. q = r BY <2>1 DEF Smooth, Alone
  <2> QED BY <1>1, <1>2, <2>2, SmoothClick
<1>3. ASSUME NEW m \in mail, MailLost(m) PROVE FALSE
  BY <1>1, <1>3 DEF MailLost, Smooth, SmoothNow
<1>4. ASSUME NEW c \in Calls, CallLost(c) PROVE FALSE
  BY <1>1, <1>4 DEF CallLost, Smooth, SmoothNow
<1>5. ~RenderLogin BY RenderLoginRow DEF Smooth
<1>6. ASSUME NEW u \in Users, SubmitForm(u) PROVE FALSE
  BY <1>1, <1>6 DEF SubmitForm, SmoothNow, Smooth, SidInv, OpenInv
<1>7. ASSUME NEW u \in Users, Deactivate(u) PROVE FALSE
  BY <1>7 DEF Deactivate, Smooth
<1>8. CASE SelectLogin \/ UNCHANGED vars
  <2>1. UNCHANGED <<login, url, req, mail, call, byes, sess, stale, faults>>
    BY <1>8 DEF SelectLogin, vars, browser, server, bounds
  <2> QED BY <1>1, <2>1 DEF SmoothNow, SmoothThen, SmoothPage, SmoothMail, SmoothCalls, UnderWay, Valid
<1> QED
  BY <1>1, <1>2, <1>3, <1>4, <1>5, <1>6, <1>7, <1>8, SmoothAnswered, SmoothLoggedIn,
     SmoothServeRequest, SmoothServeCall, SmoothServeBye, SmoothFault DEF Next, Deliver

(* A restart of epghttpd or an hour without requests goes unnoticed: a user *)
(* with one request is told of its failure only after two such faults, a    *)
(* lost message, a deactivated user or a login by hand (epgd.ajax, doLogin).*)
THEOREM FaultUnnoticed == Spec => []RestartUnnoticed
<1>1. Init => IInv /\ SidInv /\ SmoothInv BY InitIInv, SidInit, SmoothInit
<1>2. IInv /\ SidInv /\ SmoothInv /\ [Next]_vars => (IInv /\ SidInv /\ SmoothInv)'
  BY NextStep, SidStep, SmoothStep
<1>3. IInv /\ SmoothInv => RestartUnnoticed
  <2>1. IInv => faults \in Nat /\ lost \in Nat BY DEF IInv, Types, CountTypes
  <2> QED BY <2>1 DEF SmoothInv, Smooth, SmoothPage, RestartUnnoticed
<1> QED BY <1>1, <1>2, <1>3, PTL DEF Spec
=============================================================================
