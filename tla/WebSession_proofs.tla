------------------------- MODULE WebSession_proofs -------------------------
(***************************************************************************)
(* Type correctness of WebSession, and that a request is carried out once  *)
(* at most unless the login dialog was made for it.                        *)
(***************************************************************************)
EXTENDS WebSession, TLAPS

USE ValuesAssumption, BoundsAssumption, RowsAssumption

-----------------------------------------------------------------------------
(* TypeOK in parts. *)
PageTypes ==
  /\ login \in Logins
  /\ key \in Users \cup {None}
  /\ opening \in BOOLEAN
  /\ shown \in Users \cup {Nobody}

FormTypes ==
  /\ url \in Sids
  /\ form \in [made : BOOLEAN, open : BOOLEAN, then : Reqs \cup {None}]
  /\ byes \subseteq Calls

CallTypes ==
  /\ call \in [Calls -> CallRow \cup {None}]
  /\ calls \in 0..MaxCalls
  /\ doubled \in BOOLEAN

MailTypes ==
  /\ req \in [Reqs -> [st : {"new", "out", "waiting", "done", "told"}, bare : BOOLEAN]]
  /\ mail \subseteq Mail

ServerTypes ==
  /\ sess \in [Calls -> Users \cup {None}]
  /\ stale \subseteq Calls
  /\ active \subseteq Users
  /\ ran \in [Reqs -> Nat]

CountTypes ==
  /\ overtaken \in BOOLEAN /\ dropped \in BOOLEAN
  /\ faults \in 0..MaxFaults /\ lost \in 0..MaxLost

Types == PageTypes /\ FormTypes /\ CallTypes /\ MailTypes /\ ServerTypes /\ CountTypes

LEMMA TypesTypeOK == Types => TypeOK
BY DEF Types, TypeOK, PageTypes, FormTypes, CallTypes, MailTypes, ServerTypes, CountTypes

(* Until the dialog is made it keeps no request; and nobody is answered    *)
(* that the page has just been loaded.                                     *)
FormInv == ~form.made => form.then = None
AnsInv == \A c \in Calls : call[c] # None => call[c].ans.user # Unset

(* Call c repeats request r afterwards. *)
Waits(c, r) == call[c] # None /\ call[c].then = r

(* Request r is at one place at most: in a message, or with a call that    *)
(* repeats it; and once it was carried out only its answer is left.        *)
Once(r) ==
  /\ \A m, n \in mail : m.req = r /\ n.req = r => m = n
  /\ \A c, d \in Calls : Waits(c, r) /\ Waits(d, r) => c = d
  /\ \A m \in mail, c \in Calls : m.req = r => ~Waits(c, r)
  /\ ran[r] = 0 \/ ran[r] = 1
  /\ ran[r] = 1 => /\ \A c \in Calls : ~Waits(c, r)
                   /\ \A m \in mail : m.req = r => m.st = "ok"
  /\ req[r].st = "new" => /\ ran[r] = 0
                          /\ \A c \in Calls : ~Waits(c, r)
                          /\ \A m \in mail : m.req # r

OnceInv == \A r \in Reqs : form.then # r => Once(r)

IInv == Types /\ FormInv /\ AnsInv /\ OnceInv

-----------------------------------------------------------------------------
(* A step that neither adds a message of r nor a call that repeats it.     *)
LEMMA OnceKept ==
  ASSUME NEW r \in Reqs, Once(r),
         \A m \in mail' : m.req = r => m \in mail,
         \A c \in Calls : Waits(c, r)' => Waits(c, r),
         ran'[r] = ran[r],
         req'[r].st = "new" => req[r].st = "new"
  PROVE  Once(r)'
BY DEF Once

(* The same for all requests. *)
LEMMA AllKept ==
  ASSUME OnceInv,
         \A m \in mail' : m \in mail,
         \A c \in Calls, r \in Reqs : form'.then # r /\ Waits(c, r)' => Waits(c, r),
         \A r \in Reqs : form'.then # r => form.then # r,
         ran' = ran,
         \A r \in Reqs : req'[r].st = "new" => req[r].st = "new"
  PROVE  OnceInv'
<1> SUFFICES ASSUME NEW r \in Reqs, form'.then # r PROVE Once(r)' BY DEF OnceInv
<1>1. Once(r) BY DEF OnceInv
<1>2. \A c \in Calls : Waits(c, r)' => Waits(c, r) OBVIOUS
<1> QED BY <1>1, <1>2, OnceKept

LEMMA RowTypes ==
  ASSUME NEW row \in CallRow
  PROVE  /\ row.key \in Users \cup {None} /\ row.sid \in Sids
         /\ row.old \in Users \cup {Nobody, Unset}
         /\ row.then \in Reqs \cup {None} /\ row.ans \in Logins
         /\ row.ans.user \in Users \cup {Nobody, Unset} /\ row.ans.sid \in Sids
BY DEF CallRow, Logins

(* A call that repeats the request then takes the slot d, if it is one. *)
Taken(d, then) ==
  /\ d \in Calls => \A r : Waits(d, r)' <=> r = then
  /\ \A c \in Calls \ {d} : \A r : Waits(c, r)' <=> Waits(c, r)

(* A call is made: only its slot changes. *)
LEMMA PostFacts ==
  ASSUME CallTypes, login \in Logins, AnsInv,
         NEW k \in Users \cup {None}, NEW sid \in Sids, NEW then \in Reqs \cup {None},
         Post(k, sid, then)
  PROVE  /\ CallTypes' /\ AnsInv'
         /\ \E d \in Calls : Taken(d, then)
<1>1. PICK d : d = calls + 1 OBVIOUS
<1>2. d \in Calls /\ d = calls' /\ calls' \in 0..MaxCalls BY <1>1 DEF Post, CallTypes, Calls
<1>3. PICK row : row = [key |-> k, sid |-> sid, old |-> login.user, then |-> then,
                        st |-> "sent", ans |-> LoggedOut]
  OBVIOUS
<1>4. row \in CallRow /\ row.then = then /\ row.ans.user = Nobody
  BY <1>3 DEF CallRow, LoggedOut, Logins, Sids
<1>5. call' = [call EXCEPT ![d] = row] BY <1>2, <1>3 DEF Post
<1>6. /\ call' \in [Calls -> CallRow \cup {None}] /\ call'[d] = row
      /\ \A c \in Calls \ {d} : call'[c] = call[c]
  BY <1>2, <1>4, <1>5 DEF CallTypes
<1>7. doubled' \in BOOLEAN BY DEF Post
<1>8. row # None BY <1>4
<1>9. Taken(d, then) BY <1>2, <1>4, <1>6, <1>8 DEF Taken, Waits
<1> QED BY <1>2, <1>4, <1>6, <1>7, <1>9 DEF CallTypes, AnsInv

(* What doLogin leaves behind: a call for the request, or the dialog.      *)
LEMMA DoLoginFacts ==
  ASSUME PageTypes, FormTypes, CallTypes, FormInv, AnsInv,
         NEW typed \in Users \cup {None}, NEW then \in Reqs \cup {None},
         DoLogin(typed, then)
  PROVE  /\ FormTypes' /\ CallTypes' /\ FormInv' /\ AnsInv'
         /\ \A r \in Reqs : form'.then # r => form.then # r
         /\ \E d \in Calls \cup {0} : Taken(d, then)
<1>1. PICK k : k = IF typed # None THEN typed ELSE key OBVIOUS
<1>2. PICK u : u = url' OBVIOUS
<1>3. k \in Users \cup {None} BY <1>1 DEF PageTypes
<1>4. u \in Sids BY <1>2 DEF DoLogin, FormTypes, Sids
<1>5. byes' \subseteq Calls BY DEF DoLogin, FormTypes, Sids
<1>6. CASE k = None
  <2>1. ShowForm(then) /\ UNCHANGED <<call, calls, doubled>> BY <1>1, <1>6 DEF DoLogin
  <2>2. /\ form' \in [made : BOOLEAN, open : BOOLEAN, then : Reqs \cup {None}]
        /\ form'.made
        /\ form.made => form'.then = form.then
    BY <2>1 DEF ShowForm, FormTypes
  <2>3. CallTypes' /\ AnsInv' BY <2>1 DEF CallTypes, AnsInv
  <2>4. 0 \notin Calls BY DEF Calls
  <2>5. Taken(0, then) BY <2>1, <2>4 DEF Taken, Waits
  <2>6. \A r \in Reqs : form'.then # r => form.then # r BY <2>2 DEF FormInv
  <2> QED BY <1>2, <1>4, <1>5, <2>2, <2>3, <2>5, <2>6 DEF FormTypes, FormInv
<1>7. CASE k # None
  <2>1. Post(k, u, then) BY <1>1, <1>2, <1>7 DEF DoLogin
  <2>2. /\ CallTypes' /\ AnsInv'
        /\ \E d \in Calls : Taken(d, then)
    <3>1. login \in Logins BY DEF PageTypes
    <3> QED BY <1>3, <1>4, <2>1, <3>1, PostFacts
  <2>3. form' = (IF typed # None THEN [form EXCEPT !.open = FALSE] ELSE form)
    BY <1>1, <1>7 DEF DoLogin
  <2>4. /\ form' \in [made : BOOLEAN, open : BOOLEAN, then : Reqs \cup {None}]
        /\ form'.then = form.then /\ form'.made = form.made
    BY <2>3 DEF FormTypes
  <2> QED BY <1>2, <1>4, <1>5, <2>2, <2>4 DEF FormTypes, FormInv
<1> QED BY <1>6, <1>7

-----------------------------------------------------------------------------
LEMMA MailFields ==
  ASSUME MailTypes, NEW m \in mail
  PROVE  m \in Mail /\ m.req \in Reqs /\ m.st \in {"sent", "ok", "refused"}
BY DEF MailTypes, Mail

LEMMA ReqStates ==
  ASSUME MailTypes, NEW r \in Reqs, NEW u \in {"out", "waiting", "done", "told"},
         req' = [req EXCEPT ![r].st = u]
  PROVE  /\ req' \in [Reqs -> [st : {"new", "out", "waiting", "done", "told"}, bare : BOOLEAN]]
         /\ req'[r].st = u
         /\ \A q \in Reqs : req'[q].st = "new" => req[q].st = "new"
BY DEF MailTypes

LEMMA InitIInv == Init => IInv
<1> SUFFICES ASSUME Init PROVE IInv OBVIOUS
<1>1. PageTypes BY DEF Init, PageTypes, Logins, Sids
<1>2. FormTypes BY DEF Init, FormTypes, Sids
<1>3. CallTypes
  <2>1. ASSUME key # None
        PROVE  [key |-> key, sid |-> None, old |-> Unset, then |-> None,
                st |-> "sent", ans |-> LoggedOut] \in CallRow
    BY <2>1, <1>1 DEF PageTypes, CallRow, LoggedOut, Logins, Sids
  <2>2. call \in [Calls -> CallRow \cup {None}] BY <2>1 DEF Init
  <2>3. calls \in 0..MaxCalls BY DEF Init
  <2>4. doubled \in BOOLEAN BY DEF Init
  <2> QED BY <2>2, <2>3, <2>4 DEF CallTypes
<1>4. MailTypes BY DEF Init, MailTypes
<1>5. ServerTypes BY DEF Init, ServerTypes
<1>6. CountTypes
  <2>1. faults \in 0..MaxFaults /\ lost \in 0..MaxLost BY DEF Init
  <2>2. overtaken \in BOOLEAN /\ dropped \in BOOLEAN BY DEF Init
  <2> QED BY <2>1, <2>2 DEF CountTypes
<1>7. FormInv BY DEF Init, FormInv
<1>8. AnsInv BY DEF Init, AnsInv, LoggedOut
<1>9. OnceInv
  <2>1. \A c \in Calls, r \in Reqs : ~Waits(c, r) BY DEF Init, Waits
  <2> QED BY <2>1 DEF Init, OnceInv, Once
<1> QED BY <1>1, <1>2, <1>3, <1>4, <1>5, <1>6, <1>7, <1>8, <1>9 DEF IInv, Types

LEMMA ClickStep ==
  ASSUME IInv, NEW r \in Reqs, Click(r)
  PROVE  IInv'
<1>1. PageTypes' /\ FormTypes' /\ CallTypes' /\ ServerTypes' /\ CountTypes'
  BY DEF Click, browser, server, history, bounds, IInv, Types, PageTypes, FormTypes, CallTypes,
         ServerTypes, CountTypes
<1>2. FormInv' /\ AnsInv'
  BY DEF Click, browser, IInv, FormInv, AnsInv
<1>3. PICK n : n = [req |-> r, again |-> FALSE, sid |-> url, st |-> "sent"] OBVIOUS
<1>4. n \in Mail /\ n.req = r BY <1>3 DEF Mail, IInv, Types, FormTypes
<1>5. mail' = mail \cup {n} BY <1>3 DEF Click
<1>6. /\ req' \in [Reqs -> [st : {"new", "out", "waiting", "done", "told"}, bare : BOOLEAN]]
      /\ req'[r].st = "out"
      /\ \A q \in Reqs : req'[q].st = "new" => req[q].st = "new"
  BY DEF Click, IInv, Types, MailTypes
<1>7. MailTypes' BY <1>4, <1>5, <1>6 DEF MailTypes, IInv, Types
<1>8. OnceInv'
  <2> SUFFICES ASSUME NEW q \in Reqs, form'.then # q PROVE Once(q)' BY DEF OnceInv
  <2>1. Once(q) BY DEF Click, browser, IInv, OnceInv
  <2>2. \A c \in Calls : Waits(c, q)' <=> Waits(c, q) BY DEF Click, Waits
  <2>3. ran' = ran /\ req[r].st = "new" BY DEF Click, history
  <2>4. CASE q = r BY <1>4, <1>5, <1>6, <2>1, <2>2, <2>3, <2>4 DEF Once
  <2>5. CASE q # r
    <3>1. \A m \in mail' : m.req = q => m \in mail BY <1>4, <1>5, <2>5
    <3> QED BY <1>6, <2>1, <2>2, <2>3, <3>1, OnceKept
  <2> QED BY <2>4, <2>5
<1> QED BY <1>1, <1>2, <1>7, <1>8 DEF IInv, Types

LEMMA AnsweredStep ==
  ASSUME IInv, NEW m \in mail, Answered(m)
  PROVE  IInv'
<1>1. PageTypes' /\ ServerTypes' /\ CountTypes'
  BY DEF Answered, server, bounds, IInv, Types, PageTypes, ServerTypes, CountTypes
<1>2. m \in Mail /\ m.req \in Reqs BY MailFields DEF IInv, Types
<1>3. mail' = mail \ {m} /\ ran' = ran BY DEF Answered
<1>4. PICK u \in {"done", "told", "waiting"} : req' = [req EXCEPT ![m.req].st = u]
  BY DEF Answered
<1>5. /\ req' \in [Reqs -> [st : {"new", "out", "waiting", "done", "told"}, bare : BOOLEAN]]
      /\ req'[m.req].st = u
      /\ \A q \in Reqs : req'[q].st = "new" => req[q].st = "new"
  BY <1>2, <1>4, ReqStates DEF IInv, Types
<1>6. MailTypes' BY <1>3, <1>5 DEF MailTypes, IInv, Types
<1>7. CASE UNCHANGED <<url, form, call, calls, byes, doubled>>
  <2>1. FormTypes' /\ CallTypes' /\ FormInv' /\ AnsInv'
    BY <1>7 DEF IInv, Types, FormTypes, CallTypes, FormInv, AnsInv
  <2>2. OnceInv' BY <1>3, <1>5, <1>7, AllKept DEF IInv, Waits
  <2> QED BY <1>1, <1>6, <2>1, <2>2 DEF IInv, Types
<1>8. CASE DoLogin(None, m.req) /\ m.st = "refused" /\ u = "waiting"
  <2>1. /\ FormTypes' /\ CallTypes' /\ FormInv' /\ AnsInv'
        /\ \A r \in Reqs : form'.then # r => form.then # r
        /\ \E d \in Calls \cup {0} : Taken(d, m.req)
    BY <1>2, <1>8, DoLoginFacts DEF IInv, Types
  <2>2. PICK d \in Calls \cup {0} : Taken(d, m.req) BY <2>1
  <2>3. OnceInv'
    <3> SUFFICES ASSUME NEW r \in Reqs, form'.then # r PROVE Once(r)' BY DEF OnceInv
    <3>1. Once(r) BY <2>1 DEF IInv, OnceInv
    <3>2. CASE r # m.req
      <4>1. \A c \in Calls : Waits(c, r)' => Waits(c, r) BY <2>2, <3>2 DEF Taken
      <4> QED BY <1>3, <1>5, <3>1, <4>1, OnceKept
    <3>3. CASE r = m.req
      <4>1. /\ \A n \in mail : n.req = r => n = m
            /\ \A c \in Calls : ~Waits(c, r)
            /\ ran[r] = 0
        BY <1>2, <1>8, <3>1, <3>3 DEF Once
      <4>2. \A c \in Calls : Waits(c, r)' => c = d BY <2>2, <4>1 DEF Taken
      <4>3. \A n \in mail' : n.req # r BY <1>3, <4>1
      <4> QED BY <1>3, <1>5, <1>8, <3>3, <4>1, <4>2, <4>3 DEF Once
    <3> QED BY <3>2, <3>3
  <2> QED BY <1>1, <1>6, <2>1, <2>3 DEF IInv, Types
<1>9. \/ UNCHANGED <<url, form, call, calls, byes, doubled>>
      \/ DoLogin(None, m.req) /\ m.st = "refused" /\ u = "waiting"
  <2>1. CASE m.st = "refused" /\ ~m.again
    <3>1. req' = [req EXCEPT ![m.req].st = "waiting"] /\ DoLogin(None, m.req)
      BY <2>1 DEF Answered
    <3>2. req'[m.req].st = "waiting" BY <1>2, <3>1, ReqStates DEF IInv, Types
    <3> QED BY <1>5, <2>1, <3>1, <3>2
  <2>2. CASE ~(m.st = "refused" /\ ~m.again) BY <2>2 DEF Answered
  <2> QED BY <2>1, <2>2
<1> QED BY <1>7, <1>8, <1>9

LEMMA MailLostStep ==
  ASSUME IInv, NEW m \in mail, MailLost(m)
  PROVE  IInv'
<1>1. PageTypes' /\ FormTypes' /\ CallTypes' /\ ServerTypes' /\ FormInv' /\ AnsInv'
  BY DEF MailLost, browser, server, history, IInv, Types, PageTypes, FormTypes, CallTypes,
         ServerTypes, FormInv, AnsInv
<1>2. CountTypes'
  <2>1. faults' \in 0..MaxFaults /\ lost' \in 0..MaxLost
    BY DEF MailLost, IInv, Types, CountTypes
  <2> QED BY <2>1 DEF MailLost, history, IInv, Types, CountTypes
<1>3. m.req \in Reqs BY MailFields DEF IInv, Types
<1>4. /\ req' \in [Reqs -> [st : {"new", "out", "waiting", "done", "told"}, bare : BOOLEAN]]
      /\ \A q \in Reqs : req'[q].st = "new" => req[q].st = "new"
  BY <1>3, ReqStates DEF MailLost, IInv, Types
<1>5. MailTypes' BY <1>4 DEF MailLost, MailTypes, IInv, Types
<1>6. OnceInv'
  BY <1>4, AllKept DEF MailLost, browser, history, IInv, Waits
<1> QED BY <1>1, <1>2, <1>5, <1>6 DEF IInv, Types

LEMMA CallLostStep ==
  ASSUME IInv, NEW c \in Calls, CallLost(c)
  PROVE  IInv'
<1>1. PageTypes' /\ FormTypes' /\ MailTypes' /\ ServerTypes' /\ FormInv'
  BY DEF CallLost, browser, server, IInv, Types, PageTypes, FormTypes, MailTypes,
         ServerTypes, FormInv
<1>2. CountTypes'
  <2>1. faults' \in 0..MaxFaults /\ lost' \in 0..MaxLost
    BY DEF CallLost, IInv, Types, CountTypes
  <2> QED BY <2>1 DEF CallLost, IInv, Types, CountTypes
<1>3. /\ call' \in [Calls -> CallRow \cup {None}] /\ call'[c] = None
      /\ \A d \in Calls \ {c} : call'[d] = call[d]
  BY DEF CallLost, IInv, Types, CallTypes
<1>4. CallTypes' BY <1>3 DEF CallLost, CallTypes, IInv, Types
<1>5. AnsInv' BY <1>3 DEF AnsInv, IInv
<1>6. \A d \in Calls, r \in Reqs : Waits(d, r)' => Waits(d, r) BY <1>3 DEF Waits
<1>7. OnceInv' BY <1>6, AllKept DEF CallLost, browser, IInv
<1> QED BY <1>1, <1>2, <1>4, <1>5, <1>7 DEF IInv, Types

LEMMA SelectLoginStep ==
  ASSUME IInv, SelectLogin
  PROVE  IInv'
<1>1. PageTypes' BY DEF SelectLogin, IInv, Types, PageTypes
<1>2. FormTypes' /\ CallTypes' /\ MailTypes' /\ ServerTypes' /\ CountTypes' /\ FormInv' /\ AnsInv'
  BY DEF SelectLogin, server, history, bounds, IInv, Types, FormTypes, CallTypes, MailTypes,
         ServerTypes, CountTypes, FormInv, AnsInv
<1>3. OnceInv' BY AllKept DEF SelectLogin, history, IInv, Waits
<1> QED BY <1>1, <1>2, <1>3 DEF IInv, Types

LEMMA RenderLoginStep ==
  ASSUME IInv, RenderLogin
  PROVE  IInv'
<1>1. PageTypes' BY DEF RenderLogin, IInv, Types, PageTypes
<1>2. MailTypes' /\ ServerTypes' /\ CountTypes'
  BY DEF RenderLogin, server, bounds, IInv, Types, MailTypes, ServerTypes, CountTypes
<1>3. /\ form' \in [made : BOOLEAN, open : BOOLEAN, then : Reqs \cup {None}]
      /\ form'.made
      /\ form'.then = form.then
  BY DEF RenderLogin, ShowForm, IInv, Types, FormTypes, FormInv
<1>4. FormTypes' /\ FormInv' BY <1>3 DEF RenderLogin, IInv, Types, FormTypes, FormInv
<1>5. /\ CallTypes' /\ AnsInv'
      /\ \A c \in Calls, r \in Reqs : Waits(c, r)' => Waits(c, r)
  <2>1. CASE Post(None, url, None)
    <3>1. url \in Sids /\ login \in Logins BY DEF IInv, Types, FormTypes, PageTypes
    <3>2. CallTypes' /\ AnsInv' /\ \E d \in Calls : Taken(d, None)
      BY <2>1, <3>1, PostFacts DEF IInv, Types
    <3>3. \A c \in Calls, r \in Reqs : Waits(c, r)' => Waits(c, r) BY <3>2 DEF Taken
    <3> QED BY <3>2, <3>3
  <2>2. CASE UNCHANGED <<call, calls, doubled>>
    BY <2>2 DEF IInv, Types, CallTypes, AnsInv, Waits
  <2> QED BY <2>1, <2>2 DEF RenderLogin
<1>6. OnceInv' BY <1>3, <1>5, AllKept DEF RenderLogin, IInv
<1> QED BY <1>1, <1>2, <1>4, <1>5, <1>6 DEF IInv, Types

LEMMA SubmitFormStep ==
  ASSUME IInv, NEW u \in Users, SubmitForm(u)
  PROVE  IInv'
<1>1. PageTypes' /\ MailTypes' /\ ServerTypes' /\ CountTypes'
  BY DEF SubmitForm, server, bounds, IInv, Types, PageTypes, MailTypes, ServerTypes, CountTypes
<1>2. PICK then \in Reqs \cup {None} : then = form.then BY DEF IInv, Types, FormTypes
<1>3. /\ FormTypes' /\ CallTypes' /\ FormInv' /\ AnsInv'
      /\ \A r \in Reqs : form'.then # r => form.then # r
      /\ \E d \in Calls \cup {0} : Taken(d, then)
  BY <1>2, DoLoginFacts DEF SubmitForm, IInv, Types
<1>4. \A c \in Calls, r \in Reqs : form'.then # r /\ Waits(c, r)' => Waits(c, r)
  BY <1>2, <1>3 DEF Taken
<1>5. mail' = mail /\ ran' = ran /\ req' = req BY DEF SubmitForm
<1>6. OnceInv' BY <1>3, <1>4, <1>5, AllKept DEF IInv
<1> QED BY <1>1, <1>3, <1>6 DEF IInv, Types

(* The callback repeats its request, which is nowhere else, or tells the   *)
(* user.                                                                   *)
LEMMA LoggedInStep ==
  ASSUME IInv, NEW c \in Calls, LoggedIn(c)
  PROVE  IInv'
<1>1. PICK row : row = call[c] OBVIOUS
<1>2. row \in CallRow /\ row # None /\ row.ans.user # Unset
  BY <1>1 DEF LoggedIn, IInv, Types, CallTypes, AnsInv
<1>3. /\ row.key \in Users \cup {None} /\ row.then \in Reqs \cup {None} /\ row.ans \in Logins
      /\ row.ans.user \in Users \cup {Nobody} /\ row.ans.sid \in Sids
  BY <1>2, RowTypes
<1>4. /\ login' = row.ans /\ url' = row.ans.sid
      /\ Changed(row, row.old, row.ans) \/ UNCHANGED <<key, shown, opening>>
  BY <1>1 DEF LoggedIn
<1>5. PageTypes'
  BY <1>3, <1>4 DEF Changed, PageTypes, IInv, Types
<1>6. FormTypes' /\ FormInv' BY <1>3, <1>4 DEF LoggedIn, FormTypes, FormInv, IInv, Types
<1>7. ServerTypes' BY DEF LoggedIn, server, ServerTypes, IInv, Types
<1>8. CountTypes'
  <2>1. overtaken' \in BOOLEAN BY DEF LoggedIn
  <2>2. UNCHANGED <<dropped, faults, lost>> BY DEF LoggedIn, bounds
  <2> QED BY <2>1, <2>2 DEF CountTypes, IInv, Types
<1>9. /\ call' \in [Calls -> CallRow \cup {None}] /\ call'[c] = None
      /\ \A d \in Calls \ {c} : call'[d] = call[d]
  BY DEF LoggedIn, IInv, Types, CallTypes
<1>10. CallTypes' /\ AnsInv' BY <1>9 DEF LoggedIn, CallTypes, AnsInv, IInv, Types
<1>11. \A d \in Calls, r \in Reqs : Waits(d, r)' => Waits(d, r) /\ d # c BY <1>9 DEF Waits
<1>12. ran' = ran /\ form' = form BY DEF LoggedIn
<1>13. CASE UNCHANGED <<req, mail>>
  <2>1. MailTypes' BY <1>13 DEF MailTypes, IInv, Types
  <2>2. OnceInv' BY <1>11, <1>12, <1>13, AllKept DEF IInv
  <2> QED BY <1>5, <1>6, <1>7, <1>8, <1>10, <2>1, <2>2 DEF IInv, Types
<1>14. CASE row.then \in Reqs /\ Deny(row.then)
  <2>1. /\ req' \in [Reqs -> [st : {"new", "out", "waiting", "done", "told"}, bare : BOOLEAN]]
        /\ \A q \in Reqs : req'[q].st = "new" => req[q].st = "new"
    BY <1>14, ReqStates DEF Deny, IInv, Types
  <2>2. MailTypes' BY <1>14, <2>1 DEF Deny, MailTypes, IInv, Types
  <2>3. OnceInv' BY <1>11, <1>12, <1>14, <2>1, AllKept DEF Deny, IInv
  <2> QED BY <1>5, <1>6, <1>7, <1>8, <1>10, <2>2, <2>3 DEF IInv, Types
<1>15. CASE row.then \in Reqs /\ Repeat(row.then, row.ans.sid)
  <2>1. PICK n : n = [req |-> row.then, again |-> TRUE,
                      sid |-> IF req[row.then].bare THEN None ELSE row.ans.sid, st |-> "sent"]
    OBVIOUS
  <2>2. n \in Mail /\ n.req = row.then BY <1>3, <1>15, <2>1 DEF Mail, Sids
  <2>3. mail' = mail \cup {n} BY <1>15, <2>1 DEF Repeat
  <2>4. /\ req' \in [Reqs -> [st : {"new", "out", "waiting", "done", "told"}, bare : BOOLEAN]]
        /\ req'[row.then].st = "out"
        /\ \A q \in Reqs : req'[q].st = "new" => req[q].st = "new"
    BY <1>15, ReqStates DEF Repeat, IInv, Types
  <2>5. MailTypes' BY <2>2, <2>3, <2>4 DEF MailTypes, IInv, Types
  <2>6. OnceInv'
    <3> SUFFICES ASSUME NEW r \in Reqs, form'.then # r PROVE Once(r)' BY DEF OnceInv
    <3>1. Once(r) BY <1>12 DEF IInv, OnceInv
    <3>2. CASE r # row.then
      <4>1. \A m \in mail' : m.req = r => m \in mail BY <2>2, <2>3, <3>2
      <4> QED BY <1>11, <1>12, <2>4, <3>1, <4>1, OnceKept
    <3>3. CASE r = row.then
      <4>1. Waits(c, r) BY <1>1, <1>2, <3>3 DEF Waits
      <4>2. /\ \A m \in mail : m.req # r
            /\ \A d \in Calls : Waits(d, r) => d = c
            /\ ran[r] = 0
        BY <3>1, <4>1 DEF Once
      <4>3. \A d \in Calls : ~Waits(d, r)' BY <1>11, <4>2
      <4>4. \A m \in mail' : m.req = r => m = n BY <2>3, <4>2
      <4> QED BY <1>12, <2>4, <3>3, <4>2, <4>3, <4>4 DEF Once
    <3> QED BY <3>2, <3>3
  <2> QED BY <1>5, <1>6, <1>7, <1>8, <1>10, <2>5, <2>6 DEF IInv, Types
<1>16. \/ UNCHANGED <<req, mail>>
       \/ row.then \in Reqs /\ (Repeat(row.then, row.ans.sid) \/ Deny(row.then))
  BY <1>1, <1>3 DEF LoggedIn
<1> QED BY <1>13, <1>14, <1>15, <1>16

-----------------------------------------------------------------------------
(* epghttpd *)
LEMMA ExpireTypes ==
  ASSUME ServerTypes, NEW s
  PROVE  Expire(s, sess) \in [Calls -> Users \cup {None}]
BY DEF Expire, ServerTypes

LEMMA EndTypes ==
  ASSUME ServerTypes, NEW s
  PROVE  End(s) \in [Calls -> Users \cup {None}]
BY DEF End, ServerTypes

(* A request that was carried out before has no other message than its     *)
(* answer: this one was not.                                               *)
LEMMA ServeRequestStep ==
  ASSUME IInv, NEW m \in mail, ServeRequest(m)
  PROVE  IInv'
<1>1. PageTypes' /\ FormTypes' /\ CallTypes' /\ CountTypes' /\ FormInv' /\ AnsInv'
  BY DEF ServeRequest, browser, bounds, IInv, Types, PageTypes, FormTypes, CallTypes, CountTypes,
         FormInv, AnsInv
<1>2. m \in Mail /\ m.req \in Reqs /\ m.st = "sent" BY MailFields DEF ServeRequest, IInv, Types
<1>3. PICK n : n = [m EXCEPT !.st = IF Valid(m.sid) THEN "ok" ELSE "refused"] OBVIOUS
<1>4. n \in Mail /\ n.req = m.req /\ (Valid(m.sid) => n.st = "ok") BY <1>2, <1>3 DEF Mail
<1>5. mail' = (mail \ {m}) \cup {n} /\ req' = req BY <1>3 DEF ServeRequest
<1>6. MailTypes' BY <1>4, <1>5 DEF MailTypes, IInv, Types
<1>7. ran' \in [Reqs -> Nat] BY <1>2 DEF ServeRequest, Run, IInv, Types, ServerTypes
<1>8. ServerTypes' BY <1>7, ExpireTypes DEF ServeRequest, ServerTypes, IInv, Types
<1>9. OnceInv'
  <2> SUFFICES ASSUME NEW r \in Reqs, form'.then # r PROVE Once(r)' BY DEF OnceInv
  <2>1. Once(r) BY DEF ServeRequest, browser, IInv, OnceInv
  <2>2. \A c \in Calls : Waits(c, r)' <=> Waits(c, r) BY DEF ServeRequest, Waits
  <2>3. CASE r # m.req
    <3>1. \A x \in mail' : x.req = r => x \in mail BY <1>4, <1>5, <2>3
    <3>2. ran'[r] = ran[r] BY <1>2, <2>3 DEF ServeRequest, Run, IInv, Types, ServerTypes
    <3> QED BY <1>5, <2>1, <2>2, <3>1, <3>2, OnceKept
  <2>4. CASE r = m.req
    <3>1. /\ \A x \in mail : x.req = r => x = m
          /\ \A c \in Calls : ~Waits(c, r)
          /\ ran[r] = 0
          /\ req[r].st # "new"
      BY <1>2, <2>1, <2>4 DEF Once
    <3>2. \A x \in mail' : x.req = r => x = n BY <1>5, <3>1
    <3>3. ran'[r] = IF Valid(m.sid) THEN 1 ELSE 0
      BY <1>2, <2>4, <3>1 DEF ServeRequest, Run, IInv, Types, ServerTypes
    <3> QED BY <1>4, <1>5, <2>2, <3>1, <3>2, <3>3 DEF Once
  <2> QED BY <2>3, <2>4
<1> QED BY <1>1, <1>6, <1>8, <1>9 DEF IInv, Types

LEMMA ServeCallStep ==
  ASSUME IInv, NEW c \in Calls, ServeCall(c)
  PROVE  IInv'
<1>1. PageTypes' /\ FormTypes' /\ MailTypes' /\ CountTypes' /\ FormInv'
  BY DEF ServeCall, browser, history, bounds, IInv, Types, PageTypes, FormTypes, MailTypes,
         CountTypes, FormInv
<1>2. PICK row : row = call[c] OBVIOUS
<1>3. row \in CallRow /\ row # None /\ row.ans.user # Unset
  BY <1>2 DEF ServeCall, IInv, Types, CallTypes, AnsInv
<1>4. row.key \in Users \cup {None} /\ row.sid \in Sids /\ row.ans \in Logins BY <1>3, RowTypes
<1>5. PICK a \in Logins :
        /\ a.user # Unset
        /\ \/ call' = [call EXCEPT ![c] = [row EXCEPT !.st = "answered", !.ans = a]]
           \/ call' = [call EXCEPT ![c] = None]
  <2>1. CASE /\ row.key # None
             /\ call' = [call EXCEPT ![c].st = "answered",
                                     ![c].ans = [user |-> row.key, sid |-> c]]
    <3>1. PICK a : a = [user |-> row.key, sid |-> c] OBVIOUS
    <3>2. a \in Logins /\ a.user # Unset BY <1>4, <2>1, <3>1 DEF Logins, Sids
    <3>3. call' = [call EXCEPT ![c] = [row EXCEPT !.st = "answered", !.ans = a]]
      BY <1>2, <2>1, <3>1 DEF IInv, Types, CallTypes
    <3> QED BY <3>2, <3>3
  <2>2. CASE call' = [call EXCEPT ![c].st = "answered"]
    <3>1. row = [row EXCEPT !.ans = row.ans] BY <1>3 DEF CallRow
    <3>2. [row EXCEPT !.st = "answered"] = [row EXCEPT !.st = "answered", !.ans = row.ans]
      BY <1>3 DEF CallRow
    <3>3. call' = [call EXCEPT ![c] = [row EXCEPT !.st = "answered"]] BY <1>2, <2>2
    <3> QED BY <1>3, <1>4, <3>2, <3>3
  <2>3. CASE call' = [call EXCEPT ![c] = None]
    BY <1>3, <1>4, <2>3
  <2> QED BY <1>2, <2>1, <2>2, <2>3 DEF ServeCall
<1>6. PICK new : new = call'[c] OBVIOUS
<1>7. /\ new \in CallRow \cup {None}
      /\ new # None => new.then = row.then /\ new.ans.user # Unset
      /\ call' = [call EXCEPT ![c] = new]
  <2>1. /\ [row EXCEPT !.st = "answered", !.ans = a] \in CallRow
        /\ [row EXCEPT !.st = "answered", !.ans = a].then = row.then
        /\ [row EXCEPT !.st = "answered", !.ans = a].ans = a
    BY <1>3 DEF CallRow
  <2> QED BY <1>5, <1>6, <2>1 DEF IInv, Types, CallTypes
<1>8. /\ call' \in [Calls -> CallRow \cup {None}]
      /\ \A d \in Calls \ {c} : call'[d] = call[d]
  BY <1>7 DEF IInv, Types, CallTypes
<1>9. CallTypes' BY <1>8 DEF ServeCall, history, CallTypes, IInv, Types
<1>10. AnsInv' BY <1>6, <1>7, <1>8 DEF AnsInv, IInv
<1>11. \A d \in Calls, r \in Reqs : Waits(d, r)' => Waits(d, r)
  BY <1>2, <1>3, <1>6, <1>7, <1>8 DEF Waits
<1>12. OnceInv' BY <1>11, AllKept DEF ServeCall, browser, history, IInv
<1>13. sess' \in [Calls -> Users \cup {None}]
  <2>1. \/ sess' = [sess EXCEPT ![c] = row.key] \/ sess' = sess
        \/ sess' = End(row.sid) \/ sess' = Expire(row.sid, sess)
    BY <1>2 DEF ServeCall
  <2>2. [sess EXCEPT ![c] = row.key] \in [Calls -> Users \cup {None}]
    BY <1>4 DEF IInv, Types, ServerTypes
  <2>3. ServerTypes /\ sess \in [Calls -> Users \cup {None}] BY DEF IInv, Types, ServerTypes
  <2> QED BY <2>1, <2>2, <2>3, ExpireTypes, EndTypes
<1>14. ServerTypes' BY <1>13 DEF ServeCall, history, ServerTypes, IInv, Types
<1> QED BY <1>1, <1>9, <1>10, <1>12, <1>14 DEF IInv, Types

(* The remaining steps of epghttpd touch neither requests nor callbacks. *)
LEMMA ServerStep ==
  ASSUME IInv,
         (\E s \in Calls : ServeBye(s)) \/ Restart \/ HourPasses \/ \E u \in Users : Deactivate(u)
  PROVE  IInv'
<1>1. /\ UNCHANGED <<login, url, key, form, opening, shown>>
      /\ UNCHANGED <<req, mail, call, calls>>
      /\ UNCHANGED <<ran, overtaken, doubled, dropped, lost>>
  BY DEF ServeBye, Restart, HourPasses, Deactivate, browser, history, bounds
<1>2. PageTypes' /\ CallTypes' /\ MailTypes' /\ FormInv' /\ AnsInv'
  BY <1>1 DEF IInv, Types, PageTypes, CallTypes, MailTypes, FormInv, AnsInv
<1>3. byes' \subseteq Calls
  BY DEF ServeBye, Restart, HourPasses, Deactivate, IInv, Types, FormTypes
<1>4. FormTypes' BY <1>1, <1>3 DEF IInv, Types, FormTypes
<1>5. faults' \in 0..MaxFaults
  BY DEF ServeBye, Restart, HourPasses, Deactivate, Fault, bounds, IInv, Types, CountTypes
<1>6. CountTypes' BY <1>1, <1>5 DEF IInv, Types, CountTypes
<1>7. sess' \in [Calls -> Users \cup {None}]
  <2>1. ServerTypes BY DEF IInv, Types
  <2>2. CASE \E s \in Calls : ServeBye(s) BY <2>1, <2>2, EndTypes DEF ServeBye
  <2>3. CASE Restart BY <2>3 DEF Restart
  <2>4. CASE UNCHANGED sess BY <2>1, <2>4 DEF ServerTypes
  <2> QED BY <2>2, <2>3, <2>4 DEF HourPasses, Deactivate
<1>8. stale' \subseteq Calls /\ active' \subseteq Users
  BY DEF ServeBye, Restart, HourPasses, Deactivate, IInv, Types, ServerTypes
<1>9. ServerTypes' BY <1>1, <1>7, <1>8 DEF IInv, Types, ServerTypes
<1>10. OnceInv' BY <1>1, AllKept DEF IInv, Waits
<1> QED BY <1>2, <1>4, <1>6, <1>9, <1>10 DEF IInv, Types

LEMMA NextStep ==
  ASSUME IInv, [Next]_vars
  PROVE  IInv'
<1>1. CASE Deliver
  BY <1>1, AnsweredStep, ServeRequestStep, LoggedInStep, ServeCallStep, ServerStep,
     RenderLoginStep DEF Deliver
<1>2. CASE \E r \in Reqs : Click(r) BY <1>2, ClickStep
<1>3. CASE SelectLogin BY <1>3, SelectLoginStep
<1>4. CASE \E u \in Users : SubmitForm(u) BY <1>4, SubmitFormStep
<1>5. CASE \E m \in mail : MailLost(m) BY <1>5, MailLostStep
<1>6. CASE \E c \in Calls : CallLost(c) BY <1>6, CallLostStep
<1>7. CASE Restart \/ HourPasses \/ \E u \in Users : Deactivate(u) BY <1>7, ServerStep
<1>8. CASE UNCHANGED vars
  <2>1. Types'
    BY <1>8 DEF vars, browser, server, history, bounds, IInv, Types, PageTypes, FormTypes,
                CallTypes, MailTypes, ServerTypes, CountTypes
  <2>2. FormInv' /\ AnsInv' BY <1>8 DEF vars, browser, IInv, FormInv, AnsInv
  <2>3. OnceInv' BY <1>8, AllKept DEF vars, browser, history, IInv, Waits
  <2> QED BY <2>1, <2>2, <2>3 DEF IInv
<1> QED BY <1>1, <1>2, <1>3, <1>4, <1>5, <1>6, <1>7, <1>8 DEF Next

(* The browser and epghttpd always agree as the invariant says. *)
THEOREM Invariance == Spec => []IInv
<1>1. Init => IInv BY InitIInv
<1>2. IInv /\ [Next]_vars => IInv' BY NextStep
<1> QED BY <1>1, <1>2, PTL DEF Spec

(* Type correctness: the browser and epghttpd stay in the states declared. *)
THEOREM TypeCorrect == Spec => []TypeOK
<1>1. IInv => TypeOK BY TypesTypeOK DEF IInv
<1> QED BY <1>1, Invariance, PTL

(* However requests, login calls and their answers overtake each other,    *)
(* and whatever of them is lost or refused, a request the login dialog was *)
(* not made for is carried out once at most (doLogin and the callback of   *)
(* epgd.ajax).                                                             *)
THEOREM RunOnce == Spec => []AtMostOnce
<1>1. IInv => AtMostOnce
  <2> SUFFICES ASSUME IInv, NEW r \in Reqs, ran[r] > 1 PROVE form.then = r BY DEF AtMostOnce
  <2>1. ~Once(r) BY DEF Once
  <2> QED BY <2>1 DEF IInv, OnceInv
<1> QED BY <1>1, Invariance, PTL

(* Unless the answers to two logins overtook each other, the profile, the  *)
(* channels and the VDRs on the page are those of the user logged in       *)
(* (login_changed).                                                        *)
THEOREM SamePage == Spec => []PageOfUser
<1>1. Init => PageOfUser BY DEF Init, PageOfUser, UserOf
<1>2. ASSUME IInv, PageOfUser, [Next]_vars PROVE PageOfUser'
  <2>1. ASSUME NEW c \in Calls, LoggedIn(c) PROVE PageOfUser'
    <3> SUFFICES ASSUME ~overtaken' PROVE shown' = UserOf(login'.user) BY DEF PageOfUser
    <3>1. ~overtaken /\ call[c].old = login.user BY <2>1 DEF LoggedIn
    <3>2. shown = UserOf(login.user) BY <1>2, <3>1 DEF PageOfUser
    <3>3. call[c].ans.user # Unset BY <1>2, <2>1 DEF LoggedIn, IInv, AnsInv
    <3>4. login'.user = call[c].ans.user BY <2>1 DEF LoggedIn
    <3>5. CASE call[c].ans.user # call[c].old
      <4>1. shown' = IF call[c].ans.user # UserOf(call[c].old) THEN call[c].ans.user ELSE shown
        BY <2>1, <3>5 DEF LoggedIn, Changed
      <4> QED BY <3>1, <3>2, <3>3, <3>4, <4>1 DEF UserOf
    <3>6. CASE call[c].ans.user = call[c].old
      <4>1. shown' = shown BY <2>1, <3>6 DEF LoggedIn
      <4> QED BY <3>1, <3>2, <3>4, <3>6, <4>1
    <3> QED BY <3>5, <3>6
  <2>2. ASSUME ~\E c \in Calls : LoggedIn(c) PROVE UNCHANGED <<login, shown, overtaken>>
    BY <1>2, <2>2 DEF Next, Deliver, Click, Answered, ServeRequest, ServeCall, ServeBye, RenderLogin,
         SelectLogin, SubmitForm, MailLost, CallLost, Restart, HourPasses, Deactivate, vars,
         browser, history
  <2> QED BY <1>2, <2>1, <2>2 DEF PageOfUser
<1> QED BY <1>1, <1>2, Invariance, PTL DEF Spec

=============================================================================
