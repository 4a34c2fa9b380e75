--------------------------- MODULE Timers_proofs ---------------------------
(***************************************************************************)
(* A search timer schedules a programme at most once at a time, for any    *)
(* events, any number of timers, of requests of the user, and of runs cut  *)
(* off at any statement.                                                   *)
(*                                                                         *)
(* The reason is Memory: as long as a timer of the search timer is at its  *)
(* VDR or asked of it, timersdone holds an entry of its programme that     *)
(* forbids another one, and only the outcome of this very timer can change *)
(* that entry.  What threatens it is the stale rows checkTimers writes:    *)
(* they must not link a timer to the entry of another, nor bring back a    *)
(* create request.                                                         *)
(***************************************************************************)
EXTENDS Timers, TLAPS

(* The ids given out, and no others, are in use. *)
IdsInv ==
  /\ \A t \in TimerIds : IsTimer(t) \/ snap[t] # None \/ t \in onVdr \/ cur.timer = t => t <= timerId
  /\ \A t \in TimerIds : IsTimer(t) => timer[t].done <= doneId
  /\ \A d \in DoneIds : done[d] # None => d <= doneId
  /\ cur.done <= doneId
  /\ job # None => job.done <= doneId

(* The creation under way. *)
CurInv ==
  /\ pc \in {"idle", "check"} => cand = {}
  /\ \A e \in cand : Listed(e)
  /\ cur.event # None => Listed(cur.event)
  /\ pc \in {"idle", "check", "search"} => cur = Nobody
  /\ pc \in {"create", "remember", "link"} => cur.event # None
  /\ pc = "create" => cur.timer = 0 /\ cur.done = 0
  /\ pc \in {"remember", "link"} =>
       /\ cur.timer \in TimerIds
       /\ IsTimer(cur.timer) => timer[cur.timer].event = cur.event
  /\ pc = "link" => cur.done # 0

(* A request to create is open only while the state is unknown, so a row   *)
(* that checkTimers keeps is none, and what it keeps of a timer's identity *)
(* is up to date.                                                          *)
SnapInv ==
  /\ \A t \in TimerIds : IsTimer(t) /\ timer[t].action = "C" => timer[t].state = "u"
  /\ \A t \in TimerIds : snap[t] # None =>
       /\ pc = "check"
       /\ snap[t].action # "C"
       /\ IsTimer(t) => /\ timer[t].event = snap[t].event
                        /\ timer[t].auto = snap[t].auto
                        /\ timer[t].done = snap[t].done

(* The timer t is, or is about to be, linked to the entry d. *)
Linked(t, d) ==
  \/ IsTimer(t) /\ timer[t].done = d
  \/ cur.timer = t /\ cur.done = d

LinksInv ==
  /\ \A t, u \in TimerIds, d \in DoneIds : Linked(t, d) /\ Linked(u, d) => t = u
  /\ job # None => \A t \in TimerIds : ~Linked(t, job.done)

Forbids(t, d) ==
  /\ done[d] # None
  /\ done[d].programme = Programme[timer[t].event]
  /\ done[d].state \notin {"F", "f", "J"}
  /\ \A u \in TimerIds : Linked(u, d) => u = t
  /\ job # None => job.done # d

Cared(t) == AvoidRepeats /\ Scheduled(t) /\ Programme[timer[t].event] \notin disturbed

Memory ==
  \A t \in TimerIds : Cared(t) => (pc = "remember" /\ cur.timer = t) \/ \E d \in DoneIds : Forbids(t, d)

NoneYet ==
  pc = "create" =>
    \A t \in TimerIds : Cared(t) => Programme[timer[t].event] # Programme[cur.event]

IInv == TypeOK /\ IdsInv /\ CurInv /\ SnapInv /\ LinksInv /\ Memory /\ NoneYet /\ OnceScheduled

-----------------------------------------------------------------------------
(* The steps of epghttpd that lead to a new timer. *)
Orders ==
  \/ \E e \in Events : UserCreates(e) \/ UserRemembers(e)
  \/ CreateRemembered \/ LoseJob

(* The steps that write the row of one timer t. *)
Rewrites(t) ==
  \/ CheckTimer(t) \/ CheckName(t) \/ CloseTimer(t)
  \/ (\E b \in BOOLEAN : UserModifies(t, b)) \/ UserDeletes(t)
  \/ VdrAnswers(t) \/ VdrStarts(t) \/ \E ok \in BOOLEAN : VdrEnds(t, ok)

LEMMA NextCases ==
  ASSUME [Next]_vars
  PROVE  \/ UNCHANGED vars
         \/ \E e \in Events, v \in Versions \cup {None} : EpgChange(e, v)
         \/ \E f \in BOOLEAN : StartRun(f)
         \/ EndChecks
         \/ \E e \in Events : SearchEvent(e)
         \/ CreateTimer
         \/ Remember
         \/ Link
         \/ EndRun
         \/ Crash
         \/ \E t \in TimerIds : CleanupTimerActions(t) \/ UserDropsJob(t)
         \/ Orders
         \/ \E d \in DoneIds : UserDropsDone(d)
         \/ \E t \in TimerIds : Rewrites(t)
BY DEF Next, EpgdStep, UserStep, Rewrites, Orders

LEMMA Constants ==
  /\ TimerIds \subseteq Nat \ {0} /\ DoneIds \subseteq Nat \ {0}
  /\ MaxTimers \in Nat /\ MaxDones \in Nat /\ MaxUser \in Nat /\ MaxCrashes \in Nat
  /\ \A t \in TimerIds : t <= MaxTimers
  /\ \A d \in DoneIds : d <= MaxDones
  /\ None \notin TimerRow /\ None \notin DoneRow /\ None \notin JobRow
  /\ None \notin Events /\ None \notin Versions
  /\ Programme \in [Events -> Programmes]
BY EventsAssumption, BoundsAssumption, RowsAssumption DEF TimerIds, DoneIds

(* What becomes of a row, or is put into a new one, is a row. *)
LEMMA NewRow ==
  ASSUME NEW e \in Events, NEW v \in Versions, NEW b \in BOOLEAN, NEW d \in {0} \cup DoneIds
  PROVE  NewTimer(e, v, b, d) \in TimerRow
BY DEF NewTimer, TimerRow, Requests

LEMMA RowChanges ==
  ASSUME NEW r \in TimerRow
  PROVE  /\ \A a \in Requests \cup {"A", "F"} : [r EXCEPT !.action = a] \in TimerRow
         /\ \A s \in {"u", "P", "R", "F", "D", "E"} : [r EXCEPT !.state = s] \in TimerRow
         /\ \A d \in {0} \cup DoneIds : [r EXCEPT !.done = d] \in TimerRow
         /\ \A v \in Versions : [r EXCEPT !.at = Start[v]] \in TimerRow
         /\ \A v \in Versions : [r EXCEPT !.file = Name[v]] \in TimerRow
         /\ \A b \in BOOLEAN : [r EXCEPT !.warned = b] \in TimerRow
         /\ \A n \in Nat : [r EXCEPT !.retrys = n] \in TimerRow
BY DEF TimerRow

LEMMA AskedRow ==
  ASSUME NEW r \in TimerRow, NEW a \in Requests
  PROVE  /\ Asked(r, a) \in TimerRow
         /\ AskAgain(r, a) \in TimerRow
BY DEF Asked, AskAgain, TimerRow, Requests

LEMMA CheckedRow ==
  ASSUME NEW r \in TimerRow, epg[r.event] \in Versions \cup {None}
  PROVE  Checked(r) \in TimerRow
<1>1. CASE epg[r.event] # None
  <2> DEFINE v == epg[r.event]
             q == Adjusted(r, v)
             n == [q EXCEPT !.file = Name[v]]
  <2>1. q \in TimerRow
    BY AskedRow DEF Adjusted, Requests
  <2>2. n \in TimerRow
    BY <1>1, <2>1, RowChanges
  <2> HIDE DEF q, n
  <2>3. AskAgain(n, "M") \in TimerRow
    BY <2>2, AskedRow DEF Requests
  <2>4. Renamed(q, v) \in TimerRow
    BY <2>1, <2>3 DEF Renamed, n
  <2> QED  BY <1>1, <2>4 DEF Checked, q
<1>2. CASE epg[r.event] = None
  <2>1. [r EXCEPT !.warned = TRUE] \in TimerRow
    BY RowChanges
  <2> QED  BY <1>2, <2>1, AskedRow DEF Checked, Requests
<1> QED  BY <1>1, <1>2

-----------------------------------------------------------------------------
(* What a step that rewrites a row r makes of it, if it is no new request. *)
Kept(r, q) ==
  /\ q \in TimerRow
  /\ q.event = r.event /\ q.auto = r.auto /\ q.done = r.done
  /\ q.action = "C" => r.action = "C" /\ q.state = "u"

RowKept(t) ==
  \/ timer' = timer
  \/ /\ IsTimer(t)
     /\ \E q \in TimerRow : Kept(timer[t], q) /\ timer' = [timer EXCEPT ![t] = q]

(* What it makes of the rows that checkTimers read. *)
SnapFades ==
  /\ snap' \in [TimerIds -> TimerRow \cup {None}]
  /\ \A u \in TimerIds : snap'[u] \in {snap[u], None}

(* What it makes of the entry of timersdone. *)
Settles(t) ==
  \A d \in DoneIds :
    \/ done'[d] = done[d]
    \/ /\ IsTimer(t) /\ timer[t].done = d
       /\ done[d] # None /\ done'[d] \in DoneRow
       /\ done'[d].programme = done[d].programme
       /\ ~Scheduled(t)' \/ done'[d].state = "C"

LEMMA CheckedKept ==
  ASSUME NEW r \in TimerRow, epg[r.event] \in Versions \cup {None}, r.action # "C"
  PROVE  /\ Kept(r, Checked(r))
         /\ epg[r.event] # None => Kept(r, Adjusted(r, epg[r.event]))
<1>1. ASSUME NEW q \in TimerRow, NEW a \in Requests \ {"C"}, q.action # "C"
      PROVE  Kept(q, Asked(q, a)) /\ Kept(q, AskAgain(q, a))
  BY <1>1, AskedRow DEF Kept, Asked, AskAgain, TimerRow
<1>2. CASE epg[r.event] # None
  <2> DEFINE v == epg[r.event]
             q == Adjusted(r, v)
             n == [q EXCEPT !.file = Name[v]]
  <2>1. Kept(r, q) /\ q.action # "C"
    BY <1>1 DEF Adjusted, Requests, AskAgain, Asked, Kept, TimerRow
  <2>2. n \in TimerRow
    BY <1>2, <2>1, RowChanges DEF Kept
  <2>3. Kept(q, n) /\ n.action # "C"
    BY <2>1, <2>2 DEF Kept, TimerRow
  <2> HIDE DEF q, n
  <2>4. Kept(n, AskAgain(n, "M"))
    BY <1>1, <2>2, <2>3 DEF Requests
  <2>5. Kept(r, Renamed(q, v))
    BY <2>1, <2>3, <2>4 DEF Renamed, n, Kept
  <2> QED  BY <1>2, <2>1, <2>5 DEF Checked, q
<1>3. CASE epg[r.event] = None
  <2>1. Kept(r, [r EXCEPT !.warned = TRUE])
    <3>1. [r EXCEPT !.warned = TRUE] \in TimerRow
      BY RowChanges
    <3> QED  BY <3>1 DEF Kept, TimerRow
  <2> QED  BY <1>1, <1>3, <2>1 DEF Checked, Requests
<1> QED  BY <1>2, <1>3

(* A timer that is rewritten stays the timer of its event, becomes no new  *)
(* request, and settles its own entry of timersdone only.                  *)
LEMMA Rewritten ==
  ASSUME TypeOK, SnapInv, NEW t \in TimerIds, Rewrites(t)
  PROVE  /\ RowKept(t)
         /\ UNCHANGED <<epg, timerId, doneId, pc, forced, cand, cur, disturbed, job, crashes>>
         /\ todo' \subseteq todo /\ SnapFades /\ \A u \in todo' : snap'[u] # None
         /\ onVdr' \subseteq onVdr \cup {t}
         /\ t \in onVdr' => t \in onVdr \/ (IsTimer(t) /\ timer[t].action = "C")
         /\ done' \in [DoneIds -> DoneRow \cup {None}]
         /\ Settles(t)
         /\ user' \in 0..MaxUser
<1> USE Constants
<1>1. IsTimer(t) => timer[t] \in TimerRow
  BY DEF TypeOK, IsTimer
<1>2. ASSUME done' = done PROVE Settles(t) /\ done' \in [DoneIds -> DoneRow \cup {None}]
  BY <1>2 DEF Settles, TypeOK
<1> DEFINE Becomes(q) == IsTimer(t) /\ Kept(timer[t], q) /\ timer' = [timer EXCEPT ![t] = q]
<1>0. ASSUME NEW q, Becomes(q) PROVE RowKept(t)
  BY <1>0 DEF RowKept, Kept
<1>3. ASSUME NEW s \in {"C", "f", "R", "F", "D", "J"}, IsTimer(t), SetDone(timer[t].done, s),
             ~Scheduled(t)' \/ s = "C"
      PROVE  Settles(t) /\ done' \in [DoneIds -> DoneRow \cup {None}]
  <2> DEFINE d == timer[t].done
  <2>1. CASE d # 0 /\ done[d] # None
    <3>1. d \in DoneIds /\ done[d] \in DoneRow
      BY <1>1, <1>3, <2>1 DEF TimerRow, TypeOK
    <3>2. [done[d] EXCEPT !.state = s] \in DoneRow
      BY <3>1 DEF DoneRow
    <3>3. done' = [done EXCEPT ![d] = [done[d] EXCEPT !.state = s]]
      BY <1>3, <2>1 DEF SetDone
    <3>4. done'[d].programme = done[d].programme /\ done'[d].state = s
      BY <3>1, <3>3 DEF DoneRow, TypeOK
    <3> QED  BY <1>3, <2>1, <3>1, <3>2, <3>3, <3>4 DEF Settles, TypeOK
  <2>2. CASE ~(d # 0 /\ done[d] # None)
    BY <1>2, <1>3, <2>2 DEF SetDone
  <2> QED  BY <2>1, <2>2
<1>01. snap' = snap /\ todo' = todo => SnapFades /\ \A u \in todo' : snap'[u] # None
  BY DEF SnapFades, TypeOK
<1>4. CASE CheckTimer(t) \/ CheckName(t)
  <2> DEFINE r == snap[t]
  <2>1. r \in TimerRow /\ epg[r.event] \in Versions \cup {None} /\ r.action # "C"
    BY <1>4 DEF CheckTimer, CheckName, TypeOK, TimerRow, SnapInv
  <2>2. Kept(r, Checked(r)) /\ (AskedTwice(r) => Kept(r, Adjusted(r, epg[r.event])))
    BY <2>1, CheckedKept DEF AskedTwice
  <2>3. ASSUME NEW q, Kept(r, q), IsTimer(t) PROVE Kept(timer[t], q)
    BY <1>4, <2>1, <2>3 DEF SnapInv, Kept
  <2>4. \/ timer' = timer
        \/ Write(t, Checked(r))
        \/ AskedTwice(r) /\ Write(t, Adjusted(r, epg[r.event]))
    BY <1>4 DEF CheckTimer, CheckName
  <2>5. RowKept(t)
    BY <1>0, <2>2, <2>3, <2>4 DEF Write, RowKept
  <2>6. /\ todo' = todo \ {t}
        /\ snap' = snap \/ snap' = [snap EXCEPT ![t] = None]
        /\ UNCHANGED <<epg, done, timerId, doneId, pc, forced, cand, cur, onVdr, disturbed, user, job, crashes>>
    BY <1>4 DEF CheckTimer, CheckName
  <2>7. SnapFades /\ \A u \in todo' : snap'[u] # None
    BY <2>6 DEF SnapFades, TypeOK
  <2> QED  BY <1>2, <2>5, <2>6, <2>7 DEF TypeOK
<1>5. CASE CloseTimer(t)
  <2>1. IsTimer(t) /\ timer' = [timer EXCEPT ![t] = [timer[t] EXCEPT !.state = "F", !.action = "A"]]
    BY <1>5 DEF CloseTimer
  <2>2. Kept(timer[t], [timer[t] EXCEPT !.state = "F", !.action = "A"])
    BY <1>1, <2>1 DEF Kept, TimerRow
  <2>3. RowKept(t)
    BY <1>0, <2>1, <2>2
  <2> QED  BY <1>01, <1>2, <1>5, <2>3 DEF CloseTimer, epgd, TypeOK
<1>6. ASSUME NEW b \in BOOLEAN, UserModifies(t, b) PROVE RowKept(t)
  <2> DEFINE v == epg[timer[t].event]
             r == IF b THEN [timer[t] EXCEPT !.at = Start[v], !.file = Name[v]] ELSE timer[t]
             q == [r EXCEPT !.action = "M"]
  <2>1. IsTimer(t) /\ timer' = [timer EXCEPT ![t] = q]
    BY <1>6 DEF UserModifies
  <2>2. r \in TimerRow /\ r.event = timer[t].event /\ r.auto = timer[t].auto /\ r.done = timer[t].done
    <3>1. CASE ~b
      BY <1>1, <2>1, <3>1
    <3>2. CASE b
      <4>1. v \in Versions
        BY <1>1, <1>6, <2>1, <3>2 DEF UserModifies, Listed, TypeOK, TimerRow
      <4>2. [timer[t] EXCEPT !.at = Start[v], !.file = Name[v]] \in TimerRow
        BY <1>1, <2>1, <4>1 DEF TimerRow
      <4> QED  BY <1>1, <2>1, <3>2, <4>2 DEF TimerRow
    <3> QED  BY <3>1, <3>2
  <2> HIDE DEF r
  <2>3. Kept(timer[t], q)
    BY <2>2 DEF Kept, TimerRow, Requests
  <2> HIDE DEF q
  <2> QED  BY <1>0, <2>1, <2>3
<1>61. ASSUME UserDeletes(t) PROVE RowKept(t)
  <2>1. IsTimer(t) /\ timer' = [timer EXCEPT ![t] = [timer[t] EXCEPT !.action = "D"]]
    BY <1>61 DEF UserDeletes
  <2>2. Kept(timer[t], [timer[t] EXCEPT !.action = "D"])
    BY <1>1, <2>1 DEF Kept, TimerRow, Requests
  <2> QED  BY <1>0, <2>1, <2>2
<1>7. ASSUME NEW a \in {"A", "F"}, NEW s \in {"u", "P", "R", "F", "D", "E"}, IsTimer(t), Answer(t, a, s)
      PROVE  /\ RowKept(t)
             /\ IsTimer(t)' /\ timer'[t].action = a
  <2>1. timer' = [timer EXCEPT ![t] = [timer[t] EXCEPT !.action = a, !.state = s]]
    BY <1>7 DEF Answer
  <2>2. Kept(timer[t], [timer[t] EXCEPT !.action = a, !.state = s])
    BY <1>1, <1>7 DEF Kept, TimerRow
  <2>3. timer'[t] = [timer[t] EXCEPT !.action = a, !.state = s] /\ timer'[t] \in TimerRow
    BY <2>1, <2>2 DEF TypeOK, Kept
  <2>4. timer'[t].action = a
    BY <1>1, <1>7, <2>3 DEF TimerRow
  <2>5. RowKept(t)
    BY <1>0, <1>7, <2>1, <2>2
  <2> QED  BY <2>3, <2>4, <2>5 DEF IsTimer
<1>8. ASSUME NEW ok \in BOOLEAN, VdrCreates(t, ok)
      PROVE  /\ IsTimer(t) /\ timer[t].action = "C"
             /\ RowKept(t)
             /\ onVdr' \subseteq onVdr \cup {t}
             /\ done' \in [DoneIds -> DoneRow \cup {None}] /\ Settles(t)
             /\ UNCHANGED <<epg, timerId, doneId, epgd, disturbed, user, job, crashes>>
  <2>1. CASE ok
    BY <1>3, <1>7, <1>8, <2>1 DEF VdrCreates
  <2>2. CASE ~ok
    <3>1. ~Scheduled(t)'
      BY <1>7, <1>8, <2>2 DEF VdrCreates, Scheduled
    <3> QED  BY <1>3, <1>7, <1>8, <2>2, <3>1 DEF VdrCreates
  <2> QED  BY <2>1, <2>2
<1>9. CASE VdrModifies(t)
  <2>1. CASE t \in onVdr
    <3> DEFINE at == IF timer[t].action = "J" /\ Listed(timer[t].event)
                     THEN Start[epg[timer[t].event]] ELSE timer[t].at
               q == [timer[t] EXCEPT !.action = "A", !.state = "P", !.at = at]
    <3>1. at \in {Start[v] : v \in Versions}
      BY <1>1, <1>9 DEF VdrModifies, Listed, TypeOK, TimerRow
    <3>2. timer' = [timer EXCEPT ![t] = q]
      BY <1>9, <2>1 DEF VdrModifies, TypeOK
    <3> HIDE DEF at
    <3>3. Kept(timer[t], q)
      BY <1>1, <1>9, <3>1 DEF Kept, TimerRow, VdrModifies
    <3> HIDE DEF q
    <3>4. RowKept(t)
      BY <1>0, <1>9, <3>2, <3>3 DEF VdrModifies
    <3> QED  BY <1>01, <1>2, <1>9, <3>4 DEF VdrModifies, epgd, TypeOK
  <2>2. CASE t \notin onVdr
    BY <1>01, <1>2, <1>7, <1>9, <2>2 DEF VdrModifies, epgd, TypeOK
  <2> QED  BY <2>1, <2>2
<1>10. CASE VdrDeletes(t)
  <2>1. ~Scheduled(t)'
    BY <1>7, <1>10 DEF VdrDeletes, Scheduled
  <2> QED  BY <1>01, <1>3, <1>7, <1>10, <2>1 DEF VdrDeletes, epgd, TypeOK
<1>11. CASE VdrStarts(t)
  <2>1. IsTimer(t) /\ timer' = [timer EXCEPT ![t] = [timer[t] EXCEPT !.state = "R"]]
    BY <1>11 DEF VdrStarts
  <2>2. Kept(timer[t], [timer[t] EXCEPT !.state = "R"])
    BY <1>1, <1>11, <2>1 DEF Kept, TimerRow, VdrStarts
  <2>3. RowKept(t)
    BY <1>0, <2>1, <2>2
  <2> QED  BY <1>01, <1>2, <1>11, <2>3 DEF VdrStarts, epgd, TypeOK
<1>12. ASSUME NEW ok \in BOOLEAN, VdrEnds(t, ok)
       PROVE  /\ IsTimer(t)
              /\ RowKept(t)
              /\ onVdr' \subseteq onVdr
              /\ done' \in [DoneIds -> DoneRow \cup {None}] /\ Settles(t)
              /\ UNCHANGED <<epg, timerId, doneId, epgd, disturbed, user, job, crashes>>
  <2>1. ~Scheduled(t)'
    BY <1>7, <1>12 DEF VdrEnds, Scheduled
  <2> QED  BY <1>3, <1>7, <1>12, <2>1 DEF VdrEnds
<1>13. CASE (\E b \in BOOLEAN : UserModifies(t, b)) \/ UserDeletes(t)
  <2>1. /\ UNCHANGED <<epg, done, timerId, doneId, epgd, onVdr, disturbed, job, crashes>>
        /\ user' \in 0..MaxUser
    BY <1>13 DEF UserModifies, UserDeletes, OfUser, TypeOK
  <2> QED  BY <1>01, <1>2, <1>6, <1>61, <1>13, <2>1 DEF epgd
<1>14. CASE \E ok \in BOOLEAN : VdrCreates(t, ok)
  BY <1>01, <1>8, <1>14 DEF epgd, TypeOK
<1>15. CASE \E ok \in BOOLEAN : VdrEnds(t, ok)
  BY <1>01, <1>12, <1>15 DEF epgd, TypeOK
<1> QED
  BY <1>4, <1>5, <1>9, <1>10, <1>11, <1>13, <1>14, <1>15 DEF Rewrites, VdrAnswers

(* What createTimer does, if it does not give up: a row of cur.event asks  *)
(* the VDR to create the timer, a new row or that of a failed timer.       *)
Created(t, r) ==
  /\ r \in TimerRow
  /\ r.event = cur.event /\ r.auto /\ r.action = "C" /\ r.state = "u"
  /\ timer' = [timer EXCEPT ![t] = r]
  /\ cur' = [cur EXCEPT !.timer = t, !.done = r.done]
  /\ pc' = "remember"
  /\ \/ t = timerId + 1 /\ timerId' = t /\ r.done = 0
     \/ IsTimer(t) /\ timerId' = timerId /\ timer[t].event = r.event /\ timer[t].done = r.done

GivesUp == pc' = "search" /\ cur' = Nobody /\ UNCHANGED <<timer, timerId>>

LEMMA Creation ==
  ASSUME TypeOK, CurInv, CreateTimer
  PROVE  GivesUp \/ \E t \in TimerIds, r \in TimerRow : Created(t, r)
<1> USE Constants
<1> DEFINE e == cur.event
<1>1. e \in Events /\ epg[e] \in Versions
  BY DEF CreateTimer, CurInv, TypeOK, Listed
<1>2. \A d \in {0} \cup DoneIds : NewTimer(e, epg[e], TRUE, d) \in TimerRow
  BY <1>1, NewRow
<1>3. \A d : LET r == NewTimer(e, epg[e], TRUE, d)
             IN r.event = e /\ r.auto /\ r.action = "C" /\ r.state = "u" /\ r.done = d
  BY DEF NewTimer
<1>4. CASE Failed(e) # {}
  <2>1. PICK t \in Failed(e) : Reuse(t)
    BY <1>4 DEF CreateTimer
  <2>2. t \in TimerIds /\ IsTimer(t) /\ timer[t] \in TimerRow /\ timer[t].event = e
    BY DEF Failed, TimersOf, IsTimer, TypeOK
  <2>3. CASE timer[t].retrys > 3
    BY <2>1, <2>3 DEF Reuse, GivesUp
  <2>4. CASE ~(timer[t].retrys > 3)
    <3> DEFINE n == NewTimer(e, epg[e], TRUE, timer[t].done)
               r == [n EXCEPT !.warned = timer[t].warned, !.retrys = timer[t].retrys + 1]
    <3>1. n \in TimerRow /\ timer[t].done \in {0} \cup DoneIds
      BY <1>2, <2>2 DEF TimerRow
    <3>2. n.event = e /\ n.auto /\ n.action = "C" /\ n.state = "u" /\ n.done = timer[t].done
      BY <1>3
    <3>3. timer' = [timer EXCEPT ![t] = r] /\ cur' = [cur EXCEPT !.timer = t, !.done = timer[t].done]
          /\ pc' = "remember" /\ timerId' = timerId
      BY <2>1, <2>2, <2>4 DEF Reuse, TypeOK
    <3> HIDE DEF n
    <3>4. r \in TimerRow
      <4>1. timer[t].warned \in BOOLEAN /\ timer[t].retrys + 1 \in Nat
        BY <2>2 DEF TimerRow
      <4>2. [n EXCEPT !.warned = timer[t].warned] \in TimerRow
        BY <3>1, <4>1, RowChanges
      <4> QED  BY <4>1, <4>2, RowChanges DEF r
    <3>5. r.event = e /\ r.auto /\ r.action = "C" /\ r.state = "u" /\ r.done = timer[t].done
      BY <3>1, <3>2 DEF TimerRow
    <3> HIDE DEF r
    <3> QED  BY <2>2, <3>3, <3>4, <3>5 DEF Created
  <2> QED  BY <2>3, <2>4
<1>5. CASE Failed(e) = {}
  <2> DEFINE t == timerId + 1
             r == NewTimer(e, epg[e], TRUE, 0)
  <2>1. t \in TimerIds
    BY <1>5 DEF CreateTimer, Insert
  <2>2. timer' = [timer EXCEPT ![t] = r] /\ cur' = [cur EXCEPT !.timer = t] /\ pc' = "remember"
        /\ timerId' = t
    BY <1>5 DEF CreateTimer, Insert
  <2>3. cur.done = 0
    BY DEF CreateTimer, CurInv
  <2>4. cur' = [cur EXCEPT !.timer = t, !.done = 0]
    BY <2>2, <2>3 DEF TypeOK
  <2>5. r \in TimerRow
    BY <1>2
  <2>6. r.event = e /\ r.auto /\ r.action = "C" /\ r.state = "u" /\ r.done = 0
    BY <1>3
  <2> HIDE DEF r
  <2> QED  BY <2>1, <2>2, <2>4, <2>5, <2>6 DEF Created
<1> QED  BY <1>4, <1>5

(* Its entry in timersdone, a new one or that of the failed timer. *)
Enters(d) ==
  /\ done' = [done EXCEPT ![d] = [programme |-> Programme[cur.event], state |-> "Q"]]
  /\ cur' = [cur EXCEPT !.done = d]
  /\ \/ d = doneId + 1 /\ doneId' = d
     \/ d = cur.done /\ doneId' = doneId

LEMMA Entry ==
  ASSUME TypeOK, Remember
  PROVE  \E d \in DoneIds : Enters(d)
BY DEF Remember, Enters

-----------------------------------------------------------------------------
(* What epghttpd does for a new timer. *)
Gone == job' = None /\ UNCHANGED <<timer, timerId, done, doneId>>

Noted ==
  /\ UNCHANGED <<timer, timerId>>
  /\ doneId' \in DoneIds /\ doneId' = doneId + 1
  /\ \E r \in DoneRow : done' = [done EXCEPT ![doneId'] = r]
  /\ job' \in JobRow /\ job'.done = doneId'

Ordered(r) ==
  /\ UNCHANGED <<done, doneId>>
  /\ r \in TimerRow /\ ~r.auto /\ r.state = "u"
  /\ timerId' \in TimerIds /\ timerId' = timerId + 1
  /\ timer' = [timer EXCEPT ![timerId'] = r]
  /\ \/ r.done = 0 /\ job' = job
     \/ job # None /\ r.done = job.done /\ job' = None

LEMMA OrderSteps ==
  ASSUME TypeOK, Orders
  PROVE  /\ UNCHANGED <<epg, epgd, onVdr, disturbed>>
         /\ user' \in 0..MaxUser /\ crashes' \in 0..MaxCrashes
         /\ Gone \/ Noted \/ \E r \in TimerRow : Ordered(r)
<1> USE Constants
<1>1. \A e, v, d : LET r == NewTimer(e, v, FALSE, d) IN ~r.auto /\ r.state = "u" /\ r.done = d
  BY DEF NewTimer
<1>2. ASSUME NEW e \in Events, UserCreates(e)
      PROVE  /\ UNCHANGED <<epg, epgd, onVdr, disturbed, crashes>> /\ OfUser
             /\ \E r \in TimerRow : Ordered(r)
  <2> DEFINE r == NewTimer(e, epg[e], FALSE, 0)
  <2>1. r \in TimerRow
    BY <1>2, NewRow DEF UserCreates, Listed, TypeOK
  <2>2. ~r.auto /\ r.state = "u" /\ r.done = 0
    BY <1>1
  <2>3. timerId' \in TimerIds /\ timerId' = timerId + 1 /\ timer' = [timer EXCEPT ![timerId'] = r]
    BY <1>2 DEF UserCreates, Insert
  <2> HIDE DEF r
  <2> QED  BY <1>2, <2>1, <2>2, <2>3 DEF UserCreates, Ordered
<1>3. ASSUME NEW e \in Events, UserRemembers(e)
      PROVE  UNCHANGED <<epg, epgd, onVdr, disturbed, crashes>> /\ OfUser /\ Noted
  <2>1. doneId' = doneId + 1 /\ doneId' \in DoneIds /\ epg[e] \in Versions
    BY <1>3 DEF UserRemembers, Listed, DoneIds, TypeOK
  <2>2. [programme |-> Programme[e], state |-> "Q"] \in DoneRow
    BY DEF DoneRow
  <2>3. job' \in JobRow /\ job'.done = doneId'
    BY <1>3, <2>1 DEF UserRemembers, JobRow
  <2> QED  BY <1>3, <2>1, <2>2, <2>3 DEF UserRemembers, Noted
<1>4. ASSUME CreateRemembered
      PROVE  /\ UNCHANGED <<epg, epgd, onVdr, disturbed, user, crashes>>
             /\ \E r \in TimerRow : Ordered(r)
  <2> DEFINE r == NewTimer(job.event, job.version, FALSE, job.done)
  <2>1. r \in TimerRow
    <3>1. job.event \in Events /\ job.version \in Versions /\ job.done \in {0} \cup DoneIds
      BY <1>4 DEF CreateRemembered, TypeOK, JobRow
    <3> QED  BY <3>1, NewRow
  <2>2. ~r.auto /\ r.state = "u" /\ r.done = job.done
    BY DEF NewTimer
  <2>3. timerId' \in TimerIds /\ timerId' = timerId + 1 /\ timer' = [timer EXCEPT ![timerId'] = r]
    BY <1>4 DEF CreateRemembered, Insert
  <2> HIDE DEF r
  <2> QED  BY <1>4, <2>1, <2>2, <2>3 DEF CreateRemembered, Ordered
<1>5. ASSUME LoseJob
      PROVE  /\ UNCHANGED <<epg, epgd, onVdr, disturbed, user>> /\ crashes' \in 0..MaxCrashes
             /\ Gone
  BY <1>5 DEF LoseJob, Gone, TypeOK
<1>6. OfUser => user' \in 0..MaxUser
  BY DEF OfUser, TypeOK
<1>7. user \in 0..MaxUser /\ crashes \in 0..MaxCrashes
  BY DEF TypeOK
<1> QED  BY <1>2, <1>3, <1>4, <1>5, <1>6, <1>7 DEF Orders

-----------------------------------------------------------------------------
LEMMA UserCounted == TypeOK /\ OfUser => user' \in 0..MaxUser
BY Constants DEF TypeOK, OfUser

LEMMA TypeStep ==
  ASSUME TypeOK, CurInv, SnapInv, [Next]_vars
  PROVE  TypeOK'
<1> USE Constants
<1>1. CASE UNCHANGED vars
  BY <1>1 DEF vars, epgd, TypeOK
<1>2. ASSUME NEW e \in Events, NEW v \in Versions \cup {None}, EpgChange(e, v) PROVE TypeOK'
  BY <1>2 DEF EpgChange, epgd, TypeOK
<1>3. ASSUME NEW f \in BOOLEAN, StartRun(f) PROVE TypeOK'
  BY <1>3 DEF StartRun, IsTimer, TypeOK
<1>4. CASE EndChecks
  BY <1>4 DEF EndChecks, Nothing, TypeOK
<1>5. ASSUME NEW e \in Events, SearchEvent(e) PROVE TypeOK'
  BY <1>5 DEF SearchEvent, Nobody, TypeOK
<1>6. CASE CreateTimer
  <2>1. CASE GivesUp
    BY <1>6, <2>1 DEF CreateTimer, GivesUp, Nobody, TypeOK
  <2>2. ASSUME NEW t \in TimerIds, NEW r \in TimerRow, Created(t, r) PROVE TypeOK'
    <3>1. timerId' \in 0..MaxTimers
      BY <2>2 DEF Created, TimerIds, TypeOK
    <3>2. r.done \in {0} \cup DoneIds
      BY DEF TimerRow
    <3> QED  BY <1>6, <2>2, <3>1, <3>2 DEF CreateTimer, Created, TypeOK
  <2> QED  BY <1>6, <2>1, <2>2, Creation
<1>7. CASE Remember
  <2>1. PICK d \in DoneIds : Enters(d)
    BY <1>7, Entry
  <2>2. doneId' \in 0..MaxDones
    BY <2>1 DEF Enters, DoneIds, TypeOK
  <2>3. cur.event \in Events
    BY <1>7 DEF Remember, CurInv, TypeOK
  <2>4. [programme |-> Programme[cur.event], state |-> "Q"] \in DoneRow
    BY <2>3 DEF DoneRow
  <2> QED  BY <1>7, <2>1, <2>2, <2>4 DEF Enters, Remember, TypeOK
<1>8. CASE Link
  <2>1. IsTimer(cur.timer) => [timer[cur.timer] EXCEPT !.done = cur.done] \in TimerRow
    <3>1. cur.timer \in TimerIds /\ cur.done \in {0} \cup DoneIds
      BY <1>8 DEF Link, CurInv, TypeOK
    <3> QED  BY <3>1, RowChanges DEF TypeOK, IsTimer
  <2>2. timer' \in [TimerIds -> TimerRow \cup {None}]
    BY <1>8, <2>1 DEF Link, TypeOK
  <2> QED  BY <1>8, <2>2 DEF Link, Nobody, TypeOK
<1>9. CASE EndRun
  BY <1>9 DEF EndRun, TypeOK
<1>10. CASE Crash
  <2>1. disturbed' \subseteq Programmes
    <3>1. pc = "remember" => cur.event \in Events
      BY DEF CurInv, TypeOK
    <3> QED  BY <1>10, <3>1 DEF Crash, TypeOK
  <2>2. crashes' \in 0..MaxCrashes
    BY <1>10 DEF Crash, TypeOK
  <2> QED  BY <1>10, <2>1, <2>2 DEF Crash, Nothing, Nobody, TypeOK
<1>11. ASSUME NEW t \in TimerIds, CleanupTimerActions(t) \/ UserDropsJob(t) PROVE TypeOK'
  <2>1. CASE CleanupTimerActions(t)
    BY <2>1 DEF CleanupTimerActions, epgd, TypeOK
  <2>2. CASE UserDropsJob(t)
    BY <2>2, UserCounted DEF UserDropsJob, epgd, TypeOK
  <2> QED  BY <1>11, <2>1, <2>2
<1>12. CASE Orders
  <2>1. /\ UNCHANGED <<epg, epgd, onVdr, disturbed>>
        /\ user' \in 0..MaxUser /\ crashes' \in 0..MaxCrashes
        /\ Gone \/ Noted \/ \E r \in TimerRow : Ordered(r)
    BY <1>12, OrderSteps
  <2>2. /\ timer' \in [TimerIds -> TimerRow \cup {None}]
        /\ done' \in [DoneIds -> DoneRow \cup {None}]
        /\ timerId' \in 0..MaxTimers /\ doneId' \in 0..MaxDones
        /\ job' \in JobRow \cup {None}
    <3>1. CASE Gone
      BY <3>1 DEF Gone, TypeOK
    <3>2. CASE Noted
      BY <3>2 DEF Noted, DoneIds, TypeOK
    <3>3. ASSUME NEW r \in TimerRow, Ordered(r)
          PROVE  /\ timer' \in [TimerIds -> TimerRow \cup {None}]
                 /\ timerId' \in 0..MaxTimers
                 /\ UNCHANGED <<done, doneId>> /\ job' \in JobRow \cup {None}
      BY <3>3 DEF Ordered, TimerIds, TypeOK
    <3> QED  BY <2>1, <3>1, <3>2, <3>3 DEF TypeOK
  <2> QED  BY <2>1, <2>2 DEF epgd, TypeOK
<1>13. ASSUME NEW d \in DoneIds, UserDropsDone(d) PROVE TypeOK'
  <2>1. done[d].programme \in Programmes
    BY <1>13 DEF UserDropsDone, DoneRow, TypeOK
  <2> QED  BY <1>13, <2>1, UserCounted DEF UserDropsDone, epgd, TypeOK
<1>14. ASSUME NEW t \in TimerIds, Rewrites(t) PROVE TypeOK'
  <2>1. timer' \in [TimerIds -> TimerRow \cup {None}]
    BY <1>14, Rewritten DEF RowKept, TypeOK
  <2>2. snap' \in [TimerIds -> TimerRow \cup {None}] /\ \A u \in todo' : snap'[u] # None
    BY <1>14, Rewritten DEF SnapFades
  <2>3. /\ UNCHANGED <<epg, timerId, doneId, pc, forced, cand, cur, disturbed, job, crashes>>
        /\ todo' \subseteq todo /\ onVdr' \subseteq onVdr \cup {t}
        /\ done' \in [DoneIds -> DoneRow \cup {None}] /\ user' \in 0..MaxUser
    BY <1>14, Rewritten
  <2> QED  BY <2>1, <2>2, <2>3 DEF TypeOK
<1> QED
  BY <1>1, <1>2, <1>3, <1>4, <1>5, <1>6, <1>7, <1>8, <1>9, <1>10, <1>11, <1>12, <1>13, <1>14,
     NextCases

-----------------------------------------------------------------------------
(* Where a row comes from. *)
Stays(t) == IsTimer(t) /\ Kept(timer[t], timer'[t])

Relinked(t) ==
  /\ Link /\ t = cur.timer /\ IsTimer(t)
  /\ timer' = [timer EXCEPT ![t] = timer'[t]]
  /\ timer'[t].event = timer[t].event /\ timer'[t].auto = timer[t].auto
  /\ timer'[t].action = timer[t].action /\ timer'[t].state = timer[t].state
  /\ timer'[t].done = cur.done

ByUser(t) ==
  /\ Orders
  /\ t = timerId + 1 /\ timerId' = t
  /\ ~timer'[t].auto /\ timer'[t].state = "u"
  /\ timer'[t].done = 0 \/ (job # None /\ timer'[t].done = job.done /\ job' = None)

LEMMA RowStep ==
  ASSUME TypeOK, CurInv, SnapInv, [Next]_vars, NEW t \in TimerIds, IsTimer(t)'
  PROVE  \/ Stays(t)
         \/ Relinked(t)
         \/ CreateTimer /\ Created(t, timer'[t])
         \/ ByUser(t)
<1> USE Constants
<1>0. TypeOK'
  BY TypeStep
<1>1. ASSUME timer'[t] = timer[t] PROVE Stays(t)
  BY <1>1 DEF Stays, Kept, IsTimer, TypeOK, SnapInv
<1>2. ASSUME timer' = timer PROVE Stays(t)
  BY <1>1, <1>2
<1>3. ASSUME UNCHANGED vars \/ EndChecks \/ Remember \/ EndRun \/ Crash PROVE Stays(t)
  BY <1>2, <1>3 DEF vars, EndChecks, Remember, EndRun, Crash
<1>4. ASSUME NEW e \in Events, NEW v \in Versions \cup {None},
             EpgChange(e, v) \/ SearchEvent(e) PROVE Stays(t)
  BY <1>2, <1>4 DEF EpgChange, SearchEvent
<1>5. ASSUME NEW f \in BOOLEAN, StartRun(f) PROVE Stays(t)
  BY <1>2, <1>5 DEF StartRun
<1>6. ASSUME CreateTimer PROVE Stays(t) \/ Created(t, timer'[t])
  <2>1. CASE GivesUp
    BY <1>2, <2>1 DEF GivesUp
  <2>2. ASSUME NEW u \in TimerIds, NEW r \in TimerRow, Created(u, r)
        PROVE  Stays(t) \/ Created(t, timer'[t])
    <3>1. timer' = [timer EXCEPT ![u] = r]
      BY <2>2 DEF Created
    <3>2. CASE t = u
      <4>1. timer'[t] = r
        BY <3>1, <3>2 DEF TypeOK
      <4> QED  BY <2>2, <3>2, <4>1
    <3>3. CASE t # u
      BY <1>1, <3>1, <3>3 DEF TypeOK
    <3> QED  BY <3>2, <3>3
  <2> QED  BY <1>6, <2>1, <2>2, Creation
<1>7. ASSUME Link PROVE Stays(t) \/ Relinked(t)
  <2>1. CASE t = cur.timer /\ IsTimer(t)
    <3>1. timer' = [timer EXCEPT ![t] = [timer[t] EXCEPT !.done = cur.done]]
      BY <1>7, <2>1 DEF Link
    <3>2. timer[t] \in TimerRow
      BY <2>1 DEF IsTimer, TypeOK
    <3>3. timer'[t] = [timer[t] EXCEPT !.done = cur.done]
      BY <3>1 DEF TypeOK
    <3>4. /\ timer'[t].event = timer[t].event /\ timer'[t].auto = timer[t].auto
          /\ timer'[t].action = timer[t].action /\ timer'[t].state = timer[t].state
          /\ timer'[t].done = cur.done
      BY <3>2, <3>3 DEF TimerRow
    <3>5. timer' = [timer EXCEPT ![t] = timer'[t]]
      BY <3>1, <3>3
    <3> QED  BY <1>7, <2>1, <3>4, <3>5 DEF Relinked
  <2>2. CASE ~(t = cur.timer /\ IsTimer(t))
    <3>1. timer'[t] = timer[t]
      BY <1>7, <2>2 DEF Link, TypeOK
    <3> QED  BY <1>1, <3>1
  <2> QED  BY <2>1, <2>2
<1>8. ASSUME NEW u \in TimerIds, CleanupTimerActions(u) \/ UserDropsJob(u) PROVE Stays(t)
  <2>1. timer' = [timer EXCEPT ![u] = None]
    BY <1>8 DEF CleanupTimerActions, UserDropsJob
  <2>2. t # u
    BY <2>1 DEF IsTimer, TypeOK
  <2> QED  BY <1>1, <2>1, <2>2 DEF TypeOK
<1>9. ASSUME Orders PROVE Stays(t) \/ ByUser(t)
  <2>1. ASSUME NEW r \in TimerRow, Ordered(r) PROVE Stays(t) \/ ByUser(t)
    <3>1. CASE t = timerId'
      <4>1. timer'[t] = r
        BY <2>1, <3>1 DEF Ordered, TypeOK
      <4> QED  BY <1>9, <2>1, <3>1, <4>1 DEF Ordered, ByUser
    <3>2. CASE t # timerId'
      BY <1>1, <2>1, <3>2 DEF Ordered, TypeOK
    <3> QED  BY <3>1, <3>2
  <2> QED  BY <1>2, <1>9, <2>1, OrderSteps DEF Gone, Noted
<1>10. ASSUME NEW d \in DoneIds, UserDropsDone(d) PROVE Stays(t)
  BY <1>2, <1>10 DEF UserDropsDone
<1>11. ASSUME NEW u \in TimerIds, Rewrites(u) PROVE Stays(t)
  <2>1. RowKept(u)
    BY <1>11, Rewritten
  <2>2. ASSUME NEW q \in TimerRow, IsTimer(u), Kept(timer[u], q), timer' = [timer EXCEPT ![u] = q]
        PROVE  Stays(t)
    <3>1. CASE t = u
      BY <2>2, <3>1 DEF Stays, TypeOK
    <3>2. CASE t # u
      BY <1>1, <2>2, <3>2 DEF TypeOK
    <3> QED  BY <3>1, <3>2
  <2> QED  BY <1>2, <2>1, <2>2 DEF RowKept
<1> QED
  BY <1>3, <1>4, <1>5, <1>6, <1>7, <1>8, <1>9, <1>10, <1>11, NextCases

-----------------------------------------------------------------------------
(* The steps that leave epgd where it is, or at the next row. *)
EpgdRests ==
  /\ UNCHANGED <<epg, pc, cand, cur>>
  /\ \A u \in TimerIds : snap'[u] \in {snap[u], None}

LEMMA OtherSteps ==
  ASSUME TypeOK, SnapInv, [Next]_vars
  PROVE  \/ EpgdRests
         \/ \E e \in Events, v \in Versions \cup {None} : EpgChange(e, v)
         \/ \E f \in BOOLEAN : StartRun(f)
         \/ EndChecks
         \/ \E e \in Events : SearchEvent(e)
         \/ CreateTimer \/ Remember \/ Link \/ EndRun \/ Crash
<1>1. CASE UNCHANGED vars
  BY <1>1 DEF vars, epgd, EpgdRests
<1>2. ASSUME NEW t \in TimerIds, CleanupTimerActions(t) \/ UserDropsJob(t) PROVE EpgdRests
  BY <1>2 DEF CleanupTimerActions, UserDropsJob, epgd, EpgdRests
<1>3. CASE Orders
  BY <1>3, OrderSteps DEF epgd, EpgdRests
<1>4. ASSUME NEW d \in DoneIds, UserDropsDone(d) PROVE EpgdRests
  BY <1>4 DEF UserDropsDone, epgd, EpgdRests
<1>5. ASSUME NEW t \in TimerIds, Rewrites(t) PROVE EpgdRests
  BY <1>5, Rewritten DEF SnapFades, EpgdRests
<1> QED  BY <1>1, <1>2, <1>3, <1>4, <1>5, NextCases

LEMMA CurStep ==
  ASSUME TypeOK, IdsInv, CurInv, SnapInv, [Next]_vars
  PROVE  CurInv'
<1> USE Constants
<1>0. TypeOK'
  BY TypeStep
<1>1. ASSUME NEW t \in TimerIds, t = cur.timer, pc \in {"remember", "link"}, ~CreateTimer, IsTimer(t)'
      PROVE  timer'[t].event = cur.event
  <2>1. ~ByUser(t)
    BY <1>1 DEF ByUser, IdsInv, TypeOK
  <2> QED  BY <1>1, <2>1, RowStep DEF Stays, Kept, Relinked, CurInv
<1>2. ASSUME pc \in {"remember", "link"}, ~CreateTimer
      PROVE  /\ cur.timer \in TimerIds
             /\ timer'[cur.timer] # None => timer'[cur.timer].event = cur.event
  BY <1>1, <1>2 DEF CurInv, IsTimer
<1>3. CASE EpgdRests
  <2>1. ~CreateTimer
    BY <1>3 DEF EpgdRests, CreateTimer, Reuse
  <2> QED  BY <1>2, <1>3, <2>1 DEF EpgdRests, CurInv, Listed, IsTimer
<1>4. ASSUME NEW e \in Events, NEW v \in Versions \cup {None}, EpgChange(e, v) PROVE CurInv'
  BY <1>4 DEF EpgChange, epgd, CurInv, Nobody
<1>5. ASSUME NEW f \in BOOLEAN, StartRun(f) PROVE CurInv'
  BY <1>5 DEF StartRun, CurInv, Nobody
<1>6. CASE EndChecks
  BY <1>6 DEF EndChecks, CurInv, Nobody, Listed
<1>7. ASSUME NEW e \in Events, SearchEvent(e) PROVE CurInv'
  BY <1>7 DEF SearchEvent, CurInv, Nobody, Listed
<1>8. CASE CreateTimer
  <2>1. CASE GivesUp
    BY <1>8, <2>1 DEF CreateTimer, GivesUp, CurInv, Nobody, Listed
  <2>2. ASSUME NEW t \in TimerIds, NEW r \in TimerRow, Created(t, r) PROVE CurInv'
    <3>1. cur'.timer = t /\ cur'.event = cur.event /\ pc' = "remember"
      BY <2>2 DEF Created, TypeOK
    <3>2. timer'[t].event = cur.event
      BY <2>2 DEF Created, TypeOK
    <3> QED  BY <1>8, <3>1, <3>2 DEF CreateTimer, CurInv, Listed
  <2> QED  BY <1>8, <2>1, <2>2, Creation
<1>9. CASE Remember
  <2>1. PICK d \in DoneIds : Enters(d)
    BY <1>9, Entry
  <2>2. cur'.timer = cur.timer /\ cur'.event = cur.event /\ cur'.done = d
    BY <2>1 DEF Enters, TypeOK
  <2>3. timer' = timer /\ pc = "remember" /\ pc' = "link" /\ UNCHANGED <<epg, cand>>
    BY <1>9 DEF Remember
  <2> QED  BY <2>2, <2>3 DEF CurInv, Listed, IsTimer
<1>10. CASE Link
  BY <1>10 DEF Link, CurInv, Nobody, Listed
<1>11. CASE EndRun
  BY <1>11 DEF EndRun, CurInv, Listed
<1>12. CASE Crash
  BY <1>12 DEF Crash, CurInv, Nobody
<1> QED
  BY <1>3, <1>4, <1>5, <1>6, <1>7, <1>8, <1>9, <1>10, <1>11, <1>12, OtherSteps

LEMMA IdsGrow ==
  ASSUME TypeOK, CurInv, SnapInv, [Next]_vars
  PROVE  timerId' \in Nat /\ timerId <= timerId' /\ doneId' \in Nat /\ doneId <= doneId'
<1> USE Constants DEF TypeOK
<1>1. ASSUME UNCHANGED <<timerId, doneId>>
      PROVE  timerId' \in Nat /\ timerId <= timerId' /\ doneId' \in Nat /\ doneId <= doneId'
  BY <1>1
<1>2. CASE UNCHANGED vars \/ EndChecks \/ Link \/ EndRun \/ Crash
  BY <1>1, <1>2 DEF vars, EndChecks, Link, EndRun, Crash
<1>3. ASSUME NEW e \in Events, NEW v \in Versions \cup {None}, EpgChange(e, v) \/ SearchEvent(e)
      PROVE  UNCHANGED <<timerId, doneId>>
  BY <1>3 DEF EpgChange, SearchEvent
<1>4. ASSUME NEW f \in BOOLEAN, StartRun(f) PROVE UNCHANGED <<timerId, doneId>>
  BY <1>4 DEF StartRun
<1>5. CASE CreateTimer
  <2>1. doneId' = doneId
    BY <1>5 DEF CreateTimer
  <2>2. timerId' \in {timerId, timerId + 1}
    BY <1>5, Creation DEF GivesUp, Created
  <2> QED  BY <2>1, <2>2
<1>6. CASE Remember
  BY <1>6 DEF Remember
<1>7. ASSUME NEW t \in TimerIds, CleanupTimerActions(t) \/ UserDropsJob(t)
      PROVE  UNCHANGED <<timerId, doneId>>
  BY <1>7 DEF CleanupTimerActions, UserDropsJob
<1>8. ASSUME Orders
      PROVE  timerId' \in {timerId, timerId + 1} /\ doneId' \in {doneId, doneId + 1}
  BY <1>8, OrderSteps DEF Gone, Noted, Ordered
<1>9. ASSUME NEW d \in DoneIds, UserDropsDone(d) PROVE UNCHANGED <<timerId, doneId>>
  BY <1>9 DEF UserDropsDone
<1>10. ASSUME NEW t \in TimerIds, Rewrites(t) PROVE UNCHANGED <<timerId, doneId>>
  BY <1>10, Rewritten
<1> QED
  BY <1>1, <1>2, <1>3, <1>4, <1>5, <1>6, <1>7, <1>8, <1>9, <1>10, NextCases

(* The VDR only gets timers it is asked to create. *)
LEMMA VdrStep ==
  ASSUME TypeOK, SnapInv, [Next]_vars, NEW t \in TimerIds, t \in onVdr'
  PROVE  t \in onVdr \/ (IsTimer(t) /\ timer[t].action = "C")
<1>1. CASE UNCHANGED vars \/ EndChecks \/ CreateTimer \/ Remember \/ Link \/ EndRun \/ Crash
  BY <1>1 DEF vars, EndChecks, CreateTimer, Remember, Link, EndRun, Crash
<1>2. ASSUME NEW e \in Events, NEW v \in Versions \cup {None}, EpgChange(e, v) \/ SearchEvent(e)
      PROVE  onVdr' = onVdr
  BY <1>2 DEF EpgChange, SearchEvent
<1>3. ASSUME NEW f \in BOOLEAN, StartRun(f) PROVE onVdr' = onVdr
  BY <1>3 DEF StartRun
<1>4. ASSUME NEW u \in TimerIds, CleanupTimerActions(u) \/ UserDropsJob(u) PROVE onVdr' = onVdr
  BY <1>4 DEF CleanupTimerActions, UserDropsJob
<1>5. Orders => onVdr' = onVdr
  BY OrderSteps
<1>6. ASSUME NEW d \in DoneIds, UserDropsDone(d) PROVE onVdr' = onVdr
  BY <1>6 DEF UserDropsDone
<1>7. ASSUME NEW u \in TimerIds, Rewrites(u)
      PROVE  t \in onVdr \/ (IsTimer(t) /\ timer[t].action = "C")
  <2>1. onVdr' \subseteq onVdr \cup {u} /\ (u \in onVdr' => u \in onVdr \/ (IsTimer(u) /\ timer[u].action = "C"))
    BY <1>7, Rewritten
  <2> QED  BY <2>1
<1> QED  BY <1>1, <1>2, <1>3, <1>4, <1>5, <1>6, <1>7, NextCases

(* What becomes of an entry of timersdone, and where a new one comes from. *)
LEMMA DoneStep ==
  ASSUME TypeOK, CurInv, SnapInv, [Next]_vars, NEW d \in DoneIds
  PROVE  \/ done'[d] = done[d]
         \/ Remember /\ Enters(d)
         \/ d = doneId + 1 /\ doneId' = d
         \/ UserDropsDone(d) /\ done'[d] = None
         \/ \E t \in TimerIds : Rewrites(t) /\ Settles(t) /\ done'[d] # done[d]
<1>1. CASE UNCHANGED vars \/ EndChecks \/ CreateTimer \/ Link \/ EndRun \/ Crash
  BY <1>1 DEF vars, EndChecks, CreateTimer, Link, EndRun, Crash
<1>2. ASSUME NEW e \in Events, NEW v \in Versions \cup {None}, EpgChange(e, v) \/ SearchEvent(e)
      PROVE  done' = done
  BY <1>2 DEF EpgChange, SearchEvent
<1>3. ASSUME NEW f \in BOOLEAN, StartRun(f) PROVE done' = done
  BY <1>3 DEF StartRun
<1>4. ASSUME NEW u \in TimerIds, CleanupTimerActions(u) \/ UserDropsJob(u) PROVE done' = done
  BY <1>4 DEF CleanupTimerActions, UserDropsJob
<1>5. ASSUME Orders
      PROVE  done'[d] = done[d] \/ (d = doneId + 1 /\ doneId' = d)
  BY <1>5, OrderSteps DEF Gone, Noted, Ordered, TypeOK
<1>6. ASSUME NEW c \in DoneIds, UserDropsDone(c)
      PROVE  done'[d] = done[d] \/ (UserDropsDone(d) /\ done'[d] = None)
  BY <1>6 DEF UserDropsDone, TypeOK
<1>7. ASSUME Remember PROVE done'[d] = done[d] \/ Enters(d)
  BY <1>7, Entry DEF Enters, TypeOK
<1>8. ASSUME NEW u \in TimerIds, Rewrites(u) PROVE Settles(u)
  BY <1>8, Rewritten
<1> QED  BY <1>1, <1>2, <1>3, <1>4, <1>5, <1>6, <1>7, <1>8, NextCases

(* Where the creation under way stands. *)
LEMMA CurMoves ==
  ASSUME TypeOK, CurInv, SnapInv, [Next]_vars
  PROVE  \/ cur' = cur
         \/ cur'.timer = 0 /\ cur'.done = 0
         \/ CreateTimer /\ \E t \in TimerIds, r \in TimerRow : Created(t, r)
         \/ Remember /\ \E d \in DoneIds : Enters(d)
<1>1. CASE EpgdRests
  BY <1>1 DEF EpgdRests
<1>2. ASSUME NEW e \in Events, NEW v \in Versions \cup {None}, EpgChange(e, v) \/ SearchEvent(e)
      PROVE  cur' = cur \/ (cur'.timer = 0 /\ cur'.done = 0)
  BY <1>2 DEF EpgChange, epgd, SearchEvent, Nobody
<1>3. ASSUME NEW f \in BOOLEAN, StartRun(f) PROVE cur' = cur
  BY <1>3 DEF StartRun
<1>4. CASE EndChecks \/ Link \/ EndRun \/ Crash
  BY <1>4 DEF EndChecks, Link, EndRun, Crash, Nobody
<1>5. CASE CreateTimer
  BY <1>5, Creation DEF GivesUp, Nobody
<1>6. CASE Remember
  BY <1>6, Entry
<1> QED  BY <1>1, <1>2, <1>3, <1>4, <1>5, <1>6, OtherSteps

(* Where the new timer on its way stands. *)
LEMMA JobMoves ==
  ASSUME TypeOK, SnapInv, [Next]_vars
  PROVE  job' \in {job, None} \/ (Orders /\ Noted)
<1>1. CASE UNCHANGED vars \/ EndChecks \/ CreateTimer \/ Remember \/ Link \/ EndRun \/ Crash
  BY <1>1 DEF vars, EndChecks, CreateTimer, Remember, Link, EndRun, Crash
<1>2. ASSUME NEW e \in Events, NEW v \in Versions \cup {None}, EpgChange(e, v) \/ SearchEvent(e)
      PROVE  job' = job
  BY <1>2 DEF EpgChange, SearchEvent
<1>3. ASSUME NEW f \in BOOLEAN, StartRun(f) PROVE job' = job
  BY <1>3 DEF StartRun
<1>4. ASSUME NEW u \in TimerIds, CleanupTimerActions(u) \/ UserDropsJob(u) PROVE job' = job
  BY <1>4 DEF CleanupTimerActions, UserDropsJob
<1>5. CASE Orders
  BY <1>5, OrderSteps DEF Gone, Ordered
<1>6. ASSUME NEW d \in DoneIds, UserDropsDone(d) PROVE job' = job
  BY <1>6 DEF UserDropsDone
<1>7. ASSUME NEW u \in TimerIds, Rewrites(u) PROVE job' = job
  BY <1>7, Rewritten
<1> QED  BY <1>1, <1>2, <1>3, <1>4, <1>5, <1>6, <1>7, NextCases

LEMMA IdsStep ==
  ASSUME TypeOK, IdsInv, CurInv, SnapInv, [Next]_vars
  PROVE  IdsInv'
<1>0. TypeOK' /\ timerId' \in Nat /\ timerId <= timerId' /\ doneId' \in Nat /\ doneId <= doneId'
  BY TypeStep, IdsGrow
<1>00. /\ timerId \in Nat /\ doneId \in Nat /\ cur.done \in Nat
       /\ TimerIds \subseteq Nat /\ DoneIds \subseteq Nat
       /\ \A t \in TimerIds : IsTimer(t) => timer[t].done \in Nat
  <2>1. TimerIds \subseteq Nat /\ {0} \cup DoneIds \subseteq Nat
    BY Constants
  <2>2. ASSUME NEW t \in TimerIds, IsTimer(t) PROVE timer[t].done \in {0} \cup DoneIds
    BY <2>2 DEF TypeOK, IsTimer, TimerRow
  <2>3. cur.done \in {0} \cup DoneIds
    BY DEF TypeOK
  <2>4. timerId \in Nat /\ doneId \in Nat
    BY DEF TypeOK
  <2> QED  BY <2>1, <2>2, <2>3, <2>4
<1>01. /\ \A n \in Nat : n <= timerId => n <= timerId'
       /\ \A n \in Nat : n <= doneId => n <= doneId'
  BY <1>0, <1>00
<1>1. ASSUME NEW t \in TimerIds, IsTimer(t)' PROVE t <= timerId' /\ timer'[t].done <= doneId'
  <2>1. CASE Stays(t)
    BY <1>0, <1>00, <1>01, <2>1 DEF Stays, Kept, IdsInv
  <2>2. CASE Relinked(t)
    BY <1>0, <1>00, <1>01, <2>2 DEF Relinked, IdsInv, TypeOK
  <2>3. CASE CreateTimer /\ Created(t, timer'[t])
    BY <1>0, <1>00, <1>01, <2>3 DEF Created, IdsInv
  <2>4. CASE ByUser(t)
    <3>1. job # None => job.done \in Nat
      BY <1>00 DEF TypeOK, JobRow
    <3>2. 0 <= doneId'
      BY <1>0
    <3> QED  BY <1>0, <1>00, <1>01, <2>4, <3>1, <3>2 DEF ByUser, IdsInv
  <2> QED  BY <1>1, <2>1, <2>2, <2>3, <2>4, RowStep
<1>2. ASSUME NEW t \in TimerIds, snap'[t] # None PROVE t <= timerId'
  <2>1. snap[t] # None \/ IsTimer(t)
    <3>1. ASSUME NEW f \in BOOLEAN, StartRun(f) PROVE IsTimer(t)
      BY <1>2, <3>1 DEF StartRun
    <3>2. ASSUME NEW e \in Events, NEW v \in Versions \cup {None}, EpgChange(e, v) \/ SearchEvent(e)
          PROVE  snap' = snap
      BY <3>2 DEF EpgChange, epgd, SearchEvent
    <3>3. EndChecks \/ Crash => snap' = Nothing
      BY DEF EndChecks, Crash
    <3>4. EpgdRests \/ CreateTimer \/ Remember \/ Link \/ EndRun => snap'[t] \in {snap[t], None}
      BY DEF EpgdRests, CreateTimer, Remember, Link, EndRun
    <3> QED  BY <1>2, <3>1, <3>2, <3>3, <3>4, OtherSteps DEF Nothing
  <2> QED  BY <1>0, <1>00, <1>01, <2>1 DEF IdsInv
<1>3. ASSUME NEW t \in TimerIds, t \in onVdr' PROVE t <= timerId'
  BY <1>0, <1>00, <1>01, <1>3, VdrStep DEF IdsInv
<1>4. ASSUME NEW t \in TimerIds, cur'.timer = t PROVE t <= timerId'
  <2>1. ASSUME NEW u \in TimerIds, NEW r \in TimerRow, Created(u, r) PROVE t <= timerId'
    <3>1. t = u
      BY <1>4, <2>1 DEF Created, TypeOK
    <3> QED  BY <1>0, <1>00, <1>01, <2>1, <3>1 DEF Created, IdsInv
  <2>2. ASSUME NEW d \in DoneIds, Enters(d) PROVE cur.timer = t
    BY <1>4, <2>2 DEF Enters, TypeOK
  <2> QED  BY <1>0, <1>00, <1>01, <1>4, <2>1, <2>2, CurMoves DEF IdsInv
<1>5. ASSUME NEW d \in DoneIds, done'[d] # None PROVE d <= doneId'
  <2>1. CASE Enters(d)
    BY <1>0, <1>00, <1>01, <2>1 DEF Enters, IdsInv
  <2>2. ASSUME NEW t \in TimerIds, Settles(t), done'[d] # done[d] PROVE d <= doneId'
    BY <1>0, <1>00, <1>01, <2>2 DEF Settles, IdsInv
  <2> QED  BY <1>0, <1>00, <1>01, <1>5, <2>1, <2>2, DoneStep DEF IdsInv
<1>6. cur'.done <= doneId'
  <2>1. ASSUME NEW u \in TimerIds, NEW r \in TimerRow, Created(u, r) PROVE cur'.done <= doneId'
    <3>1. cur'.done = r.done
      BY <2>1 DEF Created, TypeOK
    <3> QED  BY <1>0, <1>00, <1>01, <2>1, <3>1 DEF Created, IdsInv
  <2>2. ASSUME NEW d \in DoneIds, Enters(d) PROVE cur'.done <= doneId'
    <3>1. cur'.done = d
      BY <2>2 DEF Enters, TypeOK
    <3> QED  BY <1>0, <1>00, <1>01, <2>2, <3>1 DEF Enters, IdsInv
  <2> QED  BY <1>0, <1>00, <1>01, <2>1, <2>2, CurMoves DEF IdsInv
<1>7. job' # None => job'.done <= doneId'
  <2>1. CASE job' \in {job, None}
    <3>1. job # None => job.done \in Nat
      BY <1>00 DEF TypeOK, JobRow
    <3> QED  BY <1>0, <1>00, <1>01, <2>1, <3>1 DEF IdsInv
  <2>2. CASE Noted
    BY <1>0, <2>2 DEF Noted
  <2> QED  BY <2>1, <2>2, JobMoves
<1> QED  BY <1>1, <1>2, <1>3, <1>4, <1>5, <1>6, <1>7 DEF IdsInv, IsTimer

LEMMA SnapStep ==
  ASSUME TypeOK, IdsInv, CurInv, SnapInv, [Next]_vars
  PROVE  SnapInv'
<1>0. TypeOK'
  BY TypeStep
<1>1. ASSUME NEW t \in TimerIds, IsTimer(t)', timer'[t].action = "C" PROVE timer'[t].state = "u"
  BY <1>1, RowStep DEF Stays, Kept, Relinked, Created, ByUser, SnapInv
<1>2. ASSUME NEW t \in TimerIds, snap[t] # None, IsTimer(t)', pc = "check"
      PROVE  /\ timer'[t].event = snap[t].event
             /\ timer'[t].auto = snap[t].auto
             /\ timer'[t].done = snap[t].done
  <2>1. t <= timerId /\ timerId \in Nat
    BY <1>2, Constants DEF IdsInv, TypeOK
  <2>2. Stays(t)
    BY <1>2, <2>1, RowStep DEF Relinked, Link, ByUser, CreateTimer
  <2> QED  BY <1>2, <2>2 DEF Stays, Kept, SnapInv
<1>3. ASSUME NEW t \in TimerIds, snap'[t] # None
      PROVE  /\ pc' = "check"
             /\ snap'[t].action # "C"
             /\ IsTimer(t)' => /\ timer'[t].event = snap'[t].event
                               /\ timer'[t].auto = snap'[t].auto
                               /\ timer'[t].done = snap'[t].done
  <2>1. ASSUME NEW f \in BOOLEAN, StartRun(f)
        PROVE  /\ pc' = "check" /\ snap'[t] = timer[t] /\ timer' = timer
               /\ IsTimer(t) /\ timer[t].state \in {"P", "R"}
    BY <1>3, <2>1 DEF StartRun
  <2>2. ASSUME NEW f \in BOOLEAN, StartRun(f) PROVE snap'[t].action # "C"
    BY <2>1, <2>2 DEF SnapInv
  <2>3. CASE \E f \in BOOLEAN : StartRun(f)
    BY <2>1, <2>2, <2>3
  <2>4. CASE EpgdRests
    <3>1. snap[t] # None /\ pc = "check" /\ pc' = "check" /\ snap'[t] = snap[t]
      BY <1>3, <2>4 DEF EpgdRests, SnapInv
    <3> QED  BY <1>2, <3>1 DEF SnapInv
  <2>5. ~EndChecks /\ ~Crash
    BY <1>3 DEF EndChecks, Crash, Nothing
  <2>6. ASSUME \/ \E e \in Events, v \in Versions \cup {None} : EpgChange(e, v)
               \/ \E e \in Events : SearchEvent(e)
               \/ CreateTimer \/ Remember \/ Link \/ EndRun
        PROVE  FALSE
    <3>1. snap' = snap /\ pc # "check"
      BY <2>6 DEF EpgChange, epgd, SearchEvent, CreateTimer, Remember, Link, EndRun
    <3> QED  BY <1>3, <3>1 DEF SnapInv
  <2> QED  BY <2>3, <2>4, <2>5, <2>6, OtherSteps
<1> QED  BY <1>1, <1>3 DEF SnapInv, IsTimer

-----------------------------------------------------------------------------
(* A timer is linked only to an entry it was linked to before, or to a new *)
(* one, and then no other timer is.                                        *)
NewLinks(o) ==
  \A t \in TimerIds, d \in DoneIds :
    Linked(t, d)' => \/ Linked(t, d)
                     \/ t = o /\ Remember /\ d = doneId + 1
                     \/ t = o /\ job # None /\ d = job.done /\ job' = None

LEMMA LinksMove ==
  ASSUME TypeOK, IdsInv, CurInv, SnapInv, [Next]_vars
  PROVE  \E o : NewLinks(o)
<1>0. TypeOK' /\ 0 \notin TimerIds /\ 0 \notin DoneIds
  BY TypeStep, Constants
<1>1. ASSUME NEW t \in TimerIds, NEW d \in DoneIds, IsTimer(t)', timer'[t].done = d
      PROVE  Linked(t, d) \/ (job # None /\ d = job.done /\ job' = None /\ ByUser(t))
  BY <1>0, <1>1, RowStep DEF Stays, Kept, Relinked, Created, ByUser, Linked
<1>2. ASSUME NEW t \in TimerIds, NEW d \in DoneIds, cur'.timer = t, cur'.done = d
      PROVE  Linked(t, d) \/ (d = doneId + 1 /\ Remember /\ t = cur.timer)
  <2>1. ASSUME NEW u \in TimerIds, NEW r \in TimerRow, Created(u, r) PROVE Linked(t, d)
    <3>1. t = u /\ d = r.done
      BY <1>2, <2>1 DEF Created, TypeOK
    <3> QED  BY <1>0, <2>1, <3>1 DEF Created, Linked
  <2>2. ASSUME NEW c \in DoneIds, Enters(c) PROVE t = cur.timer /\ (d = doneId + 1 \/ Linked(t, d))
    BY <1>2, <2>2 DEF Enters, Linked, TypeOK
  <2> QED  BY <1>0, <1>2, <2>1, <2>2, CurMoves DEF Linked
<1>3. CASE Remember
  <2>1. ~\E t \in TimerIds : ByUser(t)
    BY <1>3, OrderSteps DEF Remember, ByUser, epgd
  <2> QED  BY <1>1, <1>2, <2>1 DEF NewLinks, Linked, IsTimer
<1>4. CASE ~Remember
  <2>1. NewLinks(timerId + 1)
    BY <1>1, <1>2, <1>4 DEF NewLinks, Linked, IsTimer, ByUser
  <2> QED  BY <2>1
<1> QED  BY <1>3, <1>4

LEMMA LinksStep ==
  ASSUME TypeOK, IdsInv, CurInv, SnapInv, LinksInv, [Next]_vars
  PROVE  LinksInv'
<1>1. PICK o : NewLinks(o)
  BY LinksMove
<1>2. ASSUME NEW t \in TimerIds, NEW d \in DoneIds, Linked(t, d)
      PROVE  d # doneId + 1 /\ (job # None => d # job.done)
  <2>1. d <= doneId /\ doneId \in Nat
    BY <1>2, Constants DEF Linked, IdsInv, TypeOK
  <2> QED  BY <1>2, <2>1 DEF LinksInv
<1>3. ASSUME NEW t \in TimerIds, NEW u \in TimerIds, NEW d \in DoneIds, Linked(t, d)', Linked(u, d)'
      PROVE  t = u
  BY <1>1, <1>2, <1>3 DEF NewLinks, LinksInv
<1>4. ASSUME NEW t \in TimerIds, NEW d \in DoneIds, job' # None, job'.done = d, Linked(t, d)'
      PROVE  FALSE
  <2>1. CASE job' = job
    <3>1. d # doneId + 1
      BY <1>4, <2>1, Constants DEF IdsInv, TypeOK
    <3> QED  BY <1>1, <1>2, <1>4, <2>1, <3>1 DEF NewLinks
  <2>2. CASE Orders /\ Noted
    <3>1. d = doneId + 1 /\ ~Remember
      BY <1>4, <2>2, OrderSteps DEF Noted, Remember, epgd
    <3> QED  BY <1>1, <1>2, <1>4, <3>1 DEF NewLinks
  <2> QED  BY <1>4, <2>1, <2>2, JobMoves
<1>5. job' # None => job'.done \in DoneIds
  BY TypeStep DEF TypeOK, JobRow
<1> QED  BY <1>3, <1>4, <1>5 DEF LinksInv

-----------------------------------------------------------------------------
(* Only createTimer makes a timer a scheduled one. *)
LEMMA ScheduledStep ==
  ASSUME TypeOK, IdsInv, CurInv, SnapInv, [Next]_vars, NEW t \in TimerIds, Scheduled(t)'
  PROVE  \/ Scheduled(t) /\ timer'[t].event = timer[t].event
         \/ CreateTimer /\ Created(t, timer'[t])
<1>0. IsTimer(t)' /\ timer'[t].auto /\ (t \in onVdr' \/ timer'[t].action = "C")
  BY DEF Scheduled
<1>1. CASE Stays(t)
  BY <1>0, <1>1, VdrStep DEF Stays, Kept, Scheduled
<1>2. CASE Relinked(t)
  BY <1>0, <1>2, VdrStep DEF Relinked, Scheduled
<1>3. ~ByUser(t)
  BY <1>0 DEF ByUser
<1> QED  BY <1>0, <1>1, <1>2, <1>3, RowStep

LEMMA DisturbedGrows ==
  ASSUME TypeOK, SnapInv, [Next]_vars
  PROVE  disturbed \subseteq disturbed'
<1>1. CASE UNCHANGED vars \/ EndChecks \/ CreateTimer \/ Remember \/ Link \/ EndRun \/ Crash
  BY <1>1 DEF vars, EndChecks, CreateTimer, Remember, Link, EndRun, Crash
<1>2. ASSUME NEW e \in Events, NEW v \in Versions \cup {None}, EpgChange(e, v) \/ SearchEvent(e)
      PROVE  disturbed' = disturbed
  BY <1>2 DEF EpgChange, SearchEvent
<1>3. ASSUME NEW f \in BOOLEAN, StartRun(f) PROVE disturbed' = disturbed
  BY <1>3 DEF StartRun
<1>4. ASSUME NEW u \in TimerIds, CleanupTimerActions(u) \/ UserDropsJob(u) PROVE disturbed' = disturbed
  BY <1>4 DEF CleanupTimerActions, UserDropsJob
<1>5. Orders => disturbed' = disturbed
  BY OrderSteps
<1>6. ASSUME NEW d \in DoneIds, UserDropsDone(d) PROVE disturbed \subseteq disturbed'
  BY <1>6 DEF UserDropsDone
<1>7. ASSUME NEW u \in TimerIds, Rewrites(u) PROVE disturbed' = disturbed
  BY <1>7, Rewritten
<1> QED  BY <1>1, <1>2, <1>3, <1>4, <1>5, <1>6, <1>7, NextCases

LEMMA CaredStep ==
  ASSUME TypeOK, IdsInv, CurInv, SnapInv, [Next]_vars, NEW t \in TimerIds, Cared(t)'
  PROVE  \/ Cared(t) /\ timer'[t].event = timer[t].event
         \/ CreateTimer /\ Created(t, timer'[t])
BY ScheduledStep, DisturbedGrows DEF Cared

(* An entry that forbids another timer does so until the outcome of its    *)
(* own timer, or the user, says otherwise.                                 *)
LEMMA ForbidsStep ==
  ASSUME TypeOK, IdsInv, CurInv, SnapInv, [Next]_vars,
         NEW t \in TimerIds, Cared(t)', timer'[t].event = timer[t].event,
         NEW d \in DoneIds, Forbids(t, d), ~(Remember /\ Enters(d))
  PROVE  Forbids(t, d)'
<1>1. done[d] # None /\ d <= doneId /\ d # doneId + 1 /\ (job # None => d # job.done)
  BY Constants DEF Forbids, IdsInv, TypeOK
<1>4. job' # None => job'.done # d
  BY <1>1, JobMoves DEF Noted
<1>2. ASSUME NEW u \in TimerIds, Linked(u, d)' PROVE u = t
  BY <1>1, <1>2, LinksMove DEF NewLinks, Forbids
<1>3. /\ done'[d] # None
      /\ done'[d].programme = done[d].programme
      /\ done'[d].state \notin {"F", "f", "J"}
  <2>1. CASE done'[d] = done[d]
    BY <2>1 DEF Forbids
  <2>2. CASE UserDropsDone(d)
    <3>1. Programme[timer[t].event] \in disturbed'
      BY <2>2 DEF UserDropsDone, Forbids
    <3> QED  BY <3>1 DEF Cared
  <2>3. ASSUME NEW u \in TimerIds, Settles(u), done'[d] # done[d]
        PROVE  /\ done'[d] # None
               /\ done'[d].programme = done[d].programme
               /\ done'[d].state \notin {"F", "f", "J"}
    <3>1. Linked(u, d)
      BY <2>3 DEF Settles, Linked
    <3>2. u = t
      BY <3>1 DEF Forbids
    <3> QED  BY <2>3, <3>2, Constants DEF Settles, Cared
  <2> QED  BY <1>1, <2>1, <2>2, <2>3, DoneStep
<1> QED  BY <1>2, <1>3, <1>4 DEF Forbids

LEMMA MemoryStep ==
  ASSUME TypeOK, IdsInv, CurInv, SnapInv, LinksInv, Memory, [Next]_vars
  PROVE  Memory'
<1> SUFFICES ASSUME NEW t \in TimerIds, Cared(t)'
             PROVE  (pc' = "remember" /\ cur'.timer = t) \/ \E d \in DoneIds : Forbids(t, d)'
  BY DEF Memory
<1>0. ASSUME Remember PROVE [programme |-> Programme[cur.event], state |-> "Q"] # None
  <2>1. cur.event \in Events
    BY <1>0 DEF Remember, CurInv, TypeOK
  <2>2. [programme |-> Programme[cur.event], state |-> "Q"] \in DoneRow
    BY <2>1, Constants DEF DoneRow
  <2> QED  BY <2>2, Constants
<1>1. CASE CreateTimer /\ Created(t, timer'[t])
  BY <1>1 DEF Created, TypeOK
<1>2. CASE Cared(t) /\ timer'[t].event = timer[t].event
  <2>1. ASSUME NEW d \in DoneIds, Forbids(t, d) PROVE Forbids(t, d)'
    <3>1. CASE Remember /\ Enters(d)
      <4>0. d <= doneId /\ d # doneId + 1
        BY <2>1, Constants DEF Forbids, IdsInv, TypeOK
      <4>1. d = cur.done /\ cur.timer \in TimerIds
        BY <3>1, <4>0 DEF Remember, Enters, CurInv
      <4>2. Linked(cur.timer, d)
        BY <4>1 DEF Linked
      <4>3. cur.timer = t
        BY <2>1, <4>1, <4>2 DEF Forbids
      <4>4. done'[d] = [programme |-> Programme[cur.event], state |-> "Q"]
        BY <3>1 DEF Enters, TypeOK
      <4>5. timer'[t].event = cur.event
        BY <1>2, <3>1, <4>3 DEF Remember, CurInv, Cared, Scheduled
      <4>6. Linked(t, d)'
        BY <3>1, <4>3 DEF Linked, Enters, TypeOK
      <4>7. \A u \in TimerIds : Linked(u, d)' => u = t
        BY <4>6, LinksStep DEF LinksInv
      <4>8. job' = job
        BY <3>1 DEF Remember
      <4> QED  BY <1>0, <2>1, <3>1, <4>4, <4>5, <4>7, <4>8 DEF Forbids
    <3>2. CASE ~(Remember /\ Enters(d))
      BY <1>2, <2>1, <3>2, ForbidsStep
    <3> QED  BY <3>1, <3>2
  <2>2. ASSUME pc = "remember", cur.timer = t
        PROVE  (pc' = "remember" /\ cur'.timer = t) \/ \E d \in DoneIds : Forbids(t, d)'
    <3>1. CASE Remember
      <4>1. PICK d \in DoneIds : Enters(d)
        BY <3>1, Entry
      <4>2. done'[d] = [programme |-> Programme[cur.event], state |-> "Q"]
        BY <4>1 DEF Enters, TypeOK
      <4>3. timer'[t].event = cur.event
        BY <1>2, <2>2 DEF CurInv, Cared, Scheduled
      <4>4. Linked(t, d)'
        BY <2>2, <4>1 DEF Linked, Enters, TypeOK
      <4>5. \A u \in TimerIds : Linked(u, d)' => u = t
        BY <4>4, LinksStep DEF LinksInv
      <4>6. job' # None => job'.done # d
        BY <4>4, LinksStep DEF LinksInv
      <4>7. Forbids(t, d)'
        BY <1>0, <3>1, <4>2, <4>3, <4>5, <4>6 DEF Forbids
      <4> QED  BY <4>7
    <3>2. ~Crash
      <4>1. ASSUME Crash PROVE Programme[timer'[t].event] \in disturbed'
        BY <1>2, <2>2, <4>1 DEF Crash, CurInv, Cared, Scheduled
      <4> QED  BY <4>1 DEF Cared
    <3>3. CASE EpgdRests
      BY <2>2, <3>3 DEF EpgdRests
    <3>4. ~ \/ \E e \in Events, v \in Versions \cup {None} : EpgChange(e, v)
            \/ \E f \in BOOLEAN : StartRun(f)
            \/ EndChecks
            \/ \E e \in Events : SearchEvent(e)
            \/ CreateTimer \/ Link \/ EndRun
      BY <2>2 DEF EpgChange, StartRun, EndChecks, SearchEvent, CreateTimer, Link, EndRun
    <3> QED  BY <3>1, <3>2, <3>3, <3>4, OtherSteps
  <2> QED  BY <1>2, <2>1, <2>2 DEF Memory
<1> QED  BY <1>1, <1>2, CaredStep

(* isAlreadyDone has found nothing that forbids a timer. *)
LEMMA NoneYetStep ==
  ASSUME TypeOK, IdsInv, CurInv, SnapInv, Memory, NoneYet, [Next]_vars
  PROVE  NoneYet'
<1> SUFFICES ASSUME pc' = "create", NEW t \in TimerIds, Cared(t)'
             PROVE  Programme[timer'[t].event] # Programme[cur'.event]
  BY DEF NoneYet
<1>1. CASE EpgdRests
  <2>1. ~CreateTimer
    BY <1>1 DEF EpgdRests, CreateTimer, Reuse
  <2>2. Cared(t) /\ timer'[t].event = timer[t].event
    BY <2>1, CaredStep
  <2> QED  BY <1>1, <2>2 DEF EpgdRests, NoneYet
<1>2. ASSUME NEW e \in Events, SearchEvent(e)
      PROVE  Programme[timer'[t].event] # Programme[cur'.event]
  <2>1. pc = "search" /\ timer' = timer /\ ~AlreadyDone(Programme[e]) /\ cur'.event = e
    BY <1>2 DEF SearchEvent, Nobody
  <2>2. Cared(t)
    BY <2>1, CaredStep DEF CreateTimer
  <2>3. PICK d \in DoneIds : Forbids(t, d)
    BY <2>1, <2>2 DEF Memory
  <2> QED  BY <2>1, <2>2, <2>3 DEF Forbids, AlreadyDone, Cared
<1>3. ~ \/ \E e \in Events, v \in Versions \cup {None} : EpgChange(e, v)
        \/ \E f \in BOOLEAN : StartRun(f)
        \/ EndChecks \/ Remember \/ Link \/ EndRun \/ Crash
  BY DEF EpgChange, epgd, StartRun, EndChecks, Remember, Link, EndRun, Crash
<1>4. ~CreateTimer
  <2>1. CreateTimer => pc' \in {"search", "remember"}
    BY Creation DEF GivesUp, Created
  <2> QED  BY <2>1
<1> QED  BY <1>1, <1>2, <1>3, <1>4, OtherSteps

LEMMA OnceStep ==
  ASSUME TypeOK, IdsInv, CurInv, SnapInv, NoneYet, OnceScheduled, [Next]_vars
  PROVE  OnceScheduled'
<1> SUFFICES ASSUME NEW t \in TimerIds, NEW u \in TimerIds, Cared(t)', Cared(u)',
                    Programme[timer'[t].event] = Programme[timer'[u].event]
             PROVE  t = u
  BY DEF OnceScheduled, Cared
<1>1. ASSUME NEW x \in TimerIds, NEW y \in TimerIds, CreateTimer, Created(x, timer'[x]),
             Cared(y), timer'[y].event = timer[y].event
      PROVE  Programme[timer'[x].event] # Programme[timer'[y].event]
  BY <1>1 DEF CreateTimer, Created, NoneYet
<1>2. CASE Cared(t) /\ timer'[t].event = timer[t].event /\ Cared(u) /\ timer'[u].event = timer[u].event
  BY <1>2 DEF OnceScheduled, Cared
<1>3. CASE CreateTimer /\ Created(t, timer'[t]) /\ Created(u, timer'[u])
  BY <1>3 DEF Created, TypeOK
<1> QED  BY <1>1, <1>2, <1>3, CaredStep

-----------------------------------------------------------------------------
LEMMA Initially == Init => IInv
<1> SUFFICES ASSUME Init PROVE IInv
  OBVIOUS
<1> USE Constants DEF Init, Nothing, Nobody
<1>1. TypeOK
  <2>1. \A n \in {MaxTimers, MaxDones, MaxUser, MaxCrashes} : 0 \in 0..n
    OBVIOUS
  <2>2. /\ timerId \in 0..MaxTimers /\ doneId \in 0..MaxDones
        /\ user \in 0..MaxUser /\ crashes \in 0..MaxCrashes
    BY <2>1
  <2>3. cur \in [event : Events \cup {None}, timer : {0} \cup TimerIds, done : {0} \cup DoneIds]
    OBVIOUS
  <2>4. /\ epg \in [Events -> Versions \cup {None}]
        /\ timer \in [TimerIds -> TimerRow \cup {None}]
        /\ done \in [DoneIds -> DoneRow \cup {None}]
        /\ snap \in [TimerIds -> TimerRow \cup {None}]
    OBVIOUS
  <2> QED  BY <2>2, <2>3, <2>4 DEF TypeOK
<1>2. IdsInv
  BY DEF IdsInv, IsTimer
<1>3. CurInv /\ SnapInv
  BY DEF CurInv, SnapInv, IsTimer
<1>4. LinksInv
  BY DEF LinksInv, Linked, IsTimer
<1>5. Memory /\ NoneYet /\ OnceScheduled
  BY DEF Memory, NoneYet, OnceScheduled, Cared, Scheduled, IsTimer
<1> QED  BY <1>1, <1>2, <1>3, <1>4, <1>5 DEF IInv

(* What the whole argument shows in every reachable state. *)
THEOREM Inductive == Spec => []IInv
<1>1. Init => IInv
  BY Initially
<1>2. IInv /\ [Next]_vars => IInv'
  BY TypeStep, IdsStep, CurStep, SnapStep, LinksStep, MemoryStep, NoneYetStep, OnceStep DEF IInv
<1> QED  BY <1>1, <1>2, PTL DEF Spec

(* Every row of timers and timersdone, and what epgd keeps of them, is one *)
(* the program knows.                                                      *)
THEOREM Types == Spec => []TypeOK
<1>1. IInv => TypeOK
  BY DEF IInv
<1> QED  BY <1>1, Inductive, PTL

(* The search timer has at most one timer at the VDR, or asked of it, for  *)
(* a programme that is to be recorded once: whatever the VDR answers and   *)
(* the user asks in the middle of a run, and however often runs are cut    *)
(* off, except for a programme whose memory was cut.                       *)
THEOREM ScheduledOnce == Spec => []OnceScheduled
<1>1. IInv => OnceScheduled
  BY DEF IInv
<1> QED  BY <1>1, Inductive, PTL
=============================================================================
