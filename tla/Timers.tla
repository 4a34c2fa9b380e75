------------------------------- MODULE Timers -------------------------------
(***************************************************************************)
(* Timers are rows of the table `timers`.  The column action holds a       *)
(* request to the VDR that owns the timer, until the VDR puts its answer   *)
(* there; the column state says how the timer fares at the VDR:            *)
(*                                                                         *)
(*   requests  C create, M modify, J adjust to the event, T reject,        *)
(*             D delete (by the user)                                      *)
(*   answers   A assumed, F failed                                         *)
(*   states    u unknown, P pending, R recording, F finished, D deleted,   *)
(*             E error                                                     *)
(*                                                                         *)
(* Three processes write them: epgd for its search timers ("autotimers"),  *)
(* epghttpd for the user, and the VDR.  The table `timersdone` remembers   *)
(* which programmes were asked for, so that a search timer records each    *)
(* only once:                                                              *)
(*                                                                         *)
(*   Q requested, C created, f creation failed, R recorded, F recording    *)
(*   failed, D deleted by the user, J rejected                             *)
(*                                                                         *)
(* A statement is a step.  A row that is read, changed and written by      *)
(* adjacent statements is written in one step; what is read long before it *)
(* is written (the list of checkTimers) is kept and may be stale.          *)
(***************************************************************************)
EXTENDS Naturals

CONSTANTS
  Events,       \* useids of events that match the one search timer
  Programmes,
  Programme,    \* what the search timer compares of an event
  Versions,     \* what the EPG can say of an event
  Start,        \* its start time in each version
  Name,         \* the name of the recording calculated for each version
  AvoidRepeats, \* the search timer has repeatfields
  None,         \* no row, or no version: the event is not listed
  MaxTimers,    \* bound: number of rows of timers ever inserted
  MaxDones,     \* bound: number of rows of timersdone ever inserted
  MaxUser,      \* bound: number of requests of the user
  MaxCrashes    \* bound: number of runs cut off

TimerIds == 1..MaxTimers
DoneIds  == 1..MaxDones

ASSUME EventsAssumption ==
  /\ Programme \in [Events -> Programmes]
  /\ AvoidRepeats \in BOOLEAN
  /\ None \notin Versions \cup Events

ASSUME BoundsAssumption == {MaxTimers, MaxDones, MaxUser, MaxCrashes} \subseteq Nat

Requests == {"C", "M", "J", "T", "D"}

TimerRow ==
  [event : Events, at : {Start[v] : v \in Versions}, file : {Name[v] : v \in Versions},
   auto : BOOLEAN,                               \* autotimerid is set
   state : {"u", "P", "R", "F", "D", "E"}, action : Requests \cup {"A", "F"},
   warned : BOOLEAN,                             \* wrncount
   retrys : Nat, done : {0} \cup DoneIds]        \* doneid

DoneRow == [programme : Programmes, state : {"Q", "C", "f", "R", "F", "D", "J"}]

JobRow == [event : Events, version : Versions, done : DoneIds]

ASSUME RowsAssumption == None \notin TimerRow \cup DoneRow \cup JobRow

VARIABLES
  epg,       \* useevents: the version listed of each event
  timer,     \* the table timers
  done,      \* the table timersdone
  timerId,   \* the autoinc ids given so far
  doneId,
  pc,        \* epgd: "idle", "check", "search", "create", "remember", "link"
  forced,    \* the run looks at search timers that did not change too
  todo,      \* the timers checkTimers has still to look at,
  snap,      \* the columns it read of those it is not done with
  cand,      \* the events the search timer has still to look at
  cur,       \* the event, timer and done id of the creation under way
  onVdr,     \* the timers the VDR really has
  disturbed, \* history: programmes whose memory the user or a crash cut
  user,      \* the requests of the user so far
  job,       \* epghttpd: the new timer that is remembered, but not there yet
  crashes

epgd == <<pc, forced, todo, snap, cand, cur>>
vars == <<epg, timer, done, timerId, doneId, epgd, onVdr, disturbed, user, job, crashes>>

Nobody == [event |-> None, timer |-> 0, done |-> 0]
Nothing == [t \in TimerIds |-> None]

TypeOK ==
  /\ epg \in [Events -> Versions \cup {None}]
  /\ timer \in [TimerIds -> TimerRow \cup {None}]
  /\ done \in [DoneIds -> DoneRow \cup {None}]
  /\ timerId \in 0..MaxTimers /\ doneId \in 0..MaxDones
  /\ pc \in {"idle", "check", "search", "create", "remember", "link"}
  /\ forced \in BOOLEAN
  /\ todo \subseteq TimerIds
  /\ snap \in [TimerIds -> TimerRow \cup {None}]
  /\ \A t \in todo : snap[t] # None
  /\ cand \subseteq Events
  /\ cur \in [event : Events \cup {None}, timer : {0} \cup TimerIds, done : {0} \cup DoneIds]
  /\ onVdr \subseteq TimerIds
  /\ disturbed \subseteq Programmes
  /\ job \in JobRow \cup {None}
  /\ user \in 0..MaxUser /\ crashes \in 0..MaxCrashes

Init ==
  /\ epg = [e \in Events |-> None]
  /\ timer = Nothing
  /\ done = [d \in DoneIds |-> None]
  /\ timerId = 0 /\ doneId = 0
  /\ pc = "idle" /\ forced = FALSE
  /\ todo = {} /\ snap = Nothing /\ cand = {} /\ cur = Nobody
  /\ onVdr = {} /\ disturbed = {}
  /\ user = 0 /\ job = None /\ crashes = 0

-----------------------------------------------------------------------------
IsTimer(t) == timer[t] # None
Listed(e)  == epg[e] # None

NewTimerNoState(e, v, auto, d) ==                                   \* mutant
  [event |-> e, at |-> Start[v], file |-> Name[v], auto |-> auto, state |-> "-",
   action |-> "C", warned |-> FALSE, retrys |-> 0, done |-> d]

NewTimer(e, v, auto, d) ==
  [event |-> e, at |-> Start[v], file |-> Name[v], auto |-> auto, state |-> "u",
   action |-> "C", warned |-> FALSE, retrys |-> 0, done |-> d]

Insert(t, r) == t \in TimerIds /\ timerId' = t /\ timer' = [timer EXCEPT ![t] = r]

(* An update writes all columns of the row; without such a row it writes   *)
(* nothing.                                                                *)
Write(t, r) == timer' = IF IsTimer(t) THEN [timer EXCEPT ![t] = r] ELSE timer

SetDone(d, s) ==
  done' = IF d # 0 /\ done[d] # None THEN [done EXCEPT ![d].state = s] ELSE done

(* mergeepg, between two runs of the search timers *)
EpgChange(e, v) ==
  /\ pc = "idle"
  /\ epg[e] # v
  /\ epg' = [epg EXCEPT ![e] = v]
  /\ UNCHANGED <<timer, done, timerId, doneId, epgd, onVdr, disturbed, user, job, crashes>>

-----------------------------------------------------------------------------
(* epgd: cEpgd::updateSearchTimers, first checkTimers ...                  *)

StartRun(force) ==
  /\ pc = "idle"
  /\ pc' = "check"
  /\ forced' = force
  /\ todo' = {t \in TimerIds : IsTimer(t) /\ timer[t].state \in {"P", "R"}}
  /\ snap' = [t \in TimerIds |-> IF t \in todo' THEN timer[t] ELSE None]
  /\ UNCHANGED <<epg, timer, done, timerId, doneId, cand, cur, onVdr, disturbed, user, job, crashes>>

(* modifyTimer: the state is set to NULL, which means its default *)
Asked(r, action) == [r EXCEPT !.action = action, !.state = "u"]

AskAgain(r, action) == Asked(r, IF r.action = "C" THEN "C" ELSE action)

Adjusted(r, v) == IF r.at # Start[v] THEN AskAgain(r, "J") ELSE r

RenamedKeepsFile(r, v) ==                                        \* mutant
  IF r.file # Name[v] THEN AskAgain(r, "M") ELSE r

Renamed(r, v) == IF r.file # Name[v] THEN AskAgain([r EXCEPT !.file = Name[v]], "M") ELSE r

(* What checkTimers makes of the row r. *)
Checked(r) ==
  LET v == epg[r.event]
  IN IF v # None THEN Renamed(Adjusted(r, v), v)
     ELSE IF r.auto THEN Asked(r, "T")
     ELSE [r EXCEPT !.warned = TRUE]

(* The time and the name are written by two statements. *)
AskedTwice(r) ==
  LET v == epg[r.event]
  IN v # None /\ r.at # Start[v] /\ r.file # Name[v]

CheckTimer(t) ==
  /\ pc = "check"
  /\ t \in todo
  /\ \A u \in TimerIds : snap[u] # None => u \in todo     \* none is half checked
  /\ todo' = todo \ {t}
  /\ LET r == snap[t]
     IN IF r.state = "P" /\ AskedTwice(r)
        THEN Write(t, Adjusted(r, epg[r.event])) /\ UNCHANGED snap
        ELSE /\ IF r.state = "P" /\ Checked(r) # r THEN Write(t, Checked(r)) ELSE timer' = timer
             /\ snap' = [snap EXCEPT ![t] = None]
  /\ UNCHANGED <<epg, done, timerId, doneId, pc, forced, cand, cur, onVdr, disturbed, user, job, crashes>>

(* "Check recording name" of a timer whose time was adjusted; its row is   *)
(* still the one read at the beginning.                                    *)
CheckName(t) ==
  /\ pc = "check"
  /\ t \notin todo /\ snap[t] # None
  /\ Write(t, Checked(snap[t]))
  /\ snap' = [snap EXCEPT ![t] = None]
  /\ UNCHANGED <<epg, done, timerId, doneId, pc, forced, todo, cand, cur, onVdr, disturbed, user, job, crashes>>

(* ... then the search timer, whose hits are read as a whole. *)
EndChecks ==
  /\ pc = "check"
  /\ todo = {} /\ snap = Nothing
  /\ pc' = "search"
  /\ cand' = IF forced THEN {e \in Events : Listed(e)} ELSE {}
  /\ UNCHANGED <<epg, timer, done, timerId, doneId, forced, todo, snap, cur, onVdr, disturbed, user, job, crashes>>

AlreadyDoneNoRejected(p) ==                                      \* mutant
  AvoidRepeats /\ \E d \in DoneIds : /\ done[d] # None /\ done[d].programme = p
                                     /\ done[d].state \notin {"F", "f"}

AlreadyDoneNoRequested(p) ==                                     \* mutant
  AvoidRepeats /\ \E d \in DoneIds : /\ done[d] # None /\ done[d].programme = p
                                     /\ done[d].state \notin {"F", "f", "J", "Q"}

(* isAlreadyDone: "mysql ignoring case by default" *)
AlreadyDone(p) ==
  AvoidRepeats /\ \E d \in DoneIds : /\ done[d] # None /\ done[d].programme = p
                                     /\ done[d].state \notin {"F", "f", "J"}

TimersOf(e) == {t \in TimerIds : IsTimer(t) /\ timer[t].event = e}

SearchEvent(e) ==
  /\ pc = "search"
  /\ e \in cand
  /\ cand' = cand \ {e}
  /\ IF AlreadyDone(Programme[e]) \/ TimersOf(e) # {}
     THEN UNCHANGED <<pc, cur>>
     ELSE pc' = "create" /\ cur' = [Nobody EXCEPT !.event = e]
  /\ UNCHANGED <<epg, timer, done, timerId, doneId, forced, todo, snap, onVdr, disturbed, user, job, crashes>>

(* createTimer: the row of a failed timer is used again, up to four times  *)
Failed(e) == {t \in TimersOf(e) : timer[t].state = "E"}

Reuse(t) ==
  IF timer[t].retrys > 3
  THEN pc' = "search" /\ cur' = Nobody /\ UNCHANGED <<timer, timerId>>
  ELSE /\ timer' = [timer EXCEPT ![t] =
                      [NewTimer(cur.event, epg[cur.event], TRUE, @.done) EXCEPT !.warned = timer[t].warned,
                                                                !.retrys = timer[t].retrys + 1]]
       /\ cur' = [cur EXCEPT !.timer = t, !.done = timer[t].done]
       /\ pc' = "remember"
       /\ UNCHANGED timerId

CreateTimer ==
  /\ pc = "create"
  /\ IF Failed(cur.event) # {}
     THEN \E t \in Failed(cur.event) : Reuse(t)
     ELSE /\ Insert(timerId + 1, NewTimer(cur.event, epg[cur.event], TRUE, 0))
          /\ cur' = [cur EXCEPT !.timer = timerId']
          /\ pc' = "remember"
  /\ UNCHANGED <<epg, done, doneId, forced, todo, snap, cand, onVdr, disturbed, user, job, crashes>>

(* "add to timersdone" *)
Remember ==
  /\ pc = "remember"
  /\ LET old == cur.done # 0 /\ done[cur.done] # None
         d == IF old THEN cur.done ELSE doneId + 1
     IN /\ d \in DoneIds
        /\ doneId' = IF old THEN doneId ELSE d
        /\ done' = [done EXCEPT ![d] = [programme |-> Programme[cur.event], state |-> "Q"]]
        /\ cur' = [cur EXCEPT !.done = d]
  /\ pc' = "link"
  /\ UNCHANGED <<epg, timer, timerId, forced, todo, snap, cand, onVdr, disturbed, user, job, crashes>>

(* The timer is told which entry of timersdone is its own. *)
Link ==
  /\ pc = "link"
  /\ timer' = IF IsTimer(cur.timer) THEN [timer EXCEPT ![cur.timer].done = cur.done] ELSE timer
  /\ cur' = Nobody
  /\ pc' = "search"
  /\ UNCHANGED <<epg, done, timerId, doneId, forced, todo, snap, cand, onVdr, disturbed, user, job, crashes>>

EndRun ==
  /\ pc = "search"
  /\ cand = {}
  /\ pc' = "idle"
  /\ forced' = FALSE
  /\ UNCHANGED <<epg, timer, done, timerId, doneId, todo, snap, cand, cur, onVdr, disturbed, user, job, crashes>>

(* epgd is stopped or loses the database while it is at work. *)
Crash ==
  /\ pc # "idle"
  /\ crashes < MaxCrashes
  /\ crashes' = crashes + 1
  /\ disturbed' = IF pc = "remember" THEN disturbed \cup {Programme[cur.event]} ELSE disturbed
  /\ pc' = "idle" /\ forced' = FALSE /\ todo' = {} /\ snap' = Nothing /\ cand' = {} /\ cur' = Nobody
  /\ UNCHANGED <<epg, timer, done, timerId, doneId, onVdr, user, job>>

(* cleanupEvents: timers whose last request failed days ago *)
CleanupTimerActions(t) ==
  /\ pc = "idle"
  /\ IsTimer(t) /\ timer[t].action = "F"
  /\ timer' = [timer EXCEPT ![t] = None]
  /\ UNCHANGED <<epg, done, timerId, doneId, epgd, onVdr, disturbed, user, job, crashes>>

(* "cleanuped": the timer should have ended and its VDR did not say so *)
CloseTimer(t) ==
  /\ pc = "idle"
  /\ IsTimer(t) /\ timer[t].state \in {"P", "R"}
  /\ timer' = [timer EXCEPT ![t].state = "F", ![t].action = "A"]
  /\ UNCHANGED <<epg, done, timerId, doneId, epgd, onVdr, disturbed, user, job, crashes>>

-----------------------------------------------------------------------------
(* epghttpd: the requests of the user.                                     *)

OfUser == job = None /\ user < MaxUser /\ user' = user + 1

(* storeTimerJob, a new timer ...                                          *)
UserCreates(e) ==
  /\ OfUser
  /\ Listed(e)
  /\ Insert(timerId + 1, NewTimer(e, epg[e], FALSE, 0))
  /\ UNCHANGED <<epg, done, doneId, epgd, onVdr, disturbed, job, crashes>>

(* ... or, if manualTimer2Done is set, its entry in timersdone first, *)
UserRemembers(e) ==
  /\ OfUser
  /\ Listed(e)
  /\ doneId < MaxDones
  /\ doneId' = doneId + 1
  /\ done' = [done EXCEPT ![doneId'] = [programme |-> Programme[e], state |-> "Q"]]
  /\ job' = [event |-> e, version |-> epg[e], done |-> doneId']
  /\ UNCHANGED <<epg, timer, timerId, epgd, onVdr, disturbed, crashes>>

(* then, in modifyCreateTimer, the timer as it was read before, *)
CreateRemembered ==
  /\ job # None
  /\ Insert(timerId + 1, NewTimer(job.event, job.version, FALSE, job.done))
  /\ job' = None
  /\ UNCHANGED <<epg, done, doneId, epgd, onVdr, disturbed, user, crashes>>

(* unless epghttpd is stopped or loses the database in between. *)
LoseJob ==
  /\ job # None
  /\ job' = None
  /\ crashes < MaxCrashes
  /\ crashes' = crashes + 1
  /\ UNCHANGED <<epg, timer, done, timerId, doneId, epgd, onVdr, disturbed, user>>

(* storeTimerJob, changed settings of a timer.  The web interface may name  *)
(* the event: then it has to be listed, and the timer is set to it again.   *)
UserModifies(t, byEvent) ==
  /\ OfUser
  /\ IsTimer(t)
  /\ byEvent => Listed(timer[t].event)
  /\ LET v == epg[timer[t].event]
         r == IF byEvent THEN [timer[t] EXCEPT !.at = Start[v], !.file = Name[v]] ELSE timer[t]
     IN timer' = [timer EXCEPT ![t] = [r EXCEPT !.action = "M"]]
  /\ UNCHANGED <<epg, done, timerId, doneId, epgd, onVdr, disturbed, job, crashes>>

(* storeTimerJob, a delete request *)
UserDeletes(t) ==
  /\ OfUser
  /\ IsTimer(t)
  /\ timer' = [timer EXCEPT ![t].action = "D"]
  /\ UNCHANGED <<epg, done, timerId, doneId, epgd, onVdr, disturbed, job, crashes>>

UserDropsJob(t) ==                                         \* deleteTimerJobs
  /\ OfUser
  /\ IsTimer(t) /\ timer[t].action # "A"
  /\ timer' = [timer EXCEPT ![t] = None]
  /\ UNCHANGED <<epg, done, timerId, doneId, epgd, onVdr, disturbed, job, crashes>>

UserDropsDone(d) ==                                        \* deleteDoneTimers
  /\ OfUser
  /\ done[d] # None
  /\ done' = [done EXCEPT ![d] = None]
  /\ disturbed' = disturbed \cup {done[d].programme}
  /\ UNCHANGED <<epg, timer, timerId, doneId, epgd, onVdr, job, crashes>>

-----------------------------------------------------------------------------
(* The VDR with its plugin epg2vdr: external code.                         *)

Answer(t, action, state) ==
  timer' = [timer EXCEPT ![t].action = action, ![t].state = state]

(* It creates the timer or cannot. *)
VdrCreates(t, ok) ==
  /\ IsTimer(t) /\ timer[t].action = "C"
  /\ IF ok
     THEN Answer(t, "A", "P") /\ SetDone(timer[t].done, "C") /\ onVdr' = onVdr \cup {t}
     ELSE Answer(t, "F", "E") /\ SetDone(timer[t].done, "f") /\ onVdr' = onVdr \ {t}
  /\ UNCHANGED <<epg, timerId, doneId, epgd, disturbed, user, job, crashes>>

(* It changes or moves a timer it has. *)
VdrModifies(t) ==
  /\ IsTimer(t) /\ timer[t].action \in {"M", "J"}
  /\ IF t \in onVdr
     THEN timer' = [timer EXCEPT ![t].action = "A", ![t].state = "P",
                                    ![t].at = IF timer[t].action = "J" /\ Listed(timer[t].event)
                                              THEN Start[epg[timer[t].event]] ELSE @]
     ELSE Answer(t, "F", "E")
  /\ UNCHANGED <<epg, done, timerId, doneId, epgd, onVdr, disturbed, user, job, crashes>>

VdrDeletes(t) ==
  /\ IsTimer(t) /\ timer[t].action \in {"D", "T"}
  /\ Answer(t, "A", "D")
  /\ SetDone(timer[t].done, IF timer[t].action = "D" THEN "D" ELSE "J")
  /\ onVdr' = onVdr \ {t}
  /\ UNCHANGED <<epg, timerId, doneId, epgd, disturbed, user, job, crashes>>

VdrStarts(t) ==
  /\ t \in onVdr
  /\ IsTimer(t) /\ timer[t].state = "P" /\ timer[t].action = "A"
  /\ timer' = [timer EXCEPT ![t].state = "R"]
  /\ UNCHANGED <<epg, done, timerId, doneId, epgd, onVdr, disturbed, user, job, crashes>>

VdrEnds(t, ok) ==
  /\ t \in onVdr
  /\ IsTimer(t) /\ timer[t].state = "R"
  /\ Answer(t, "A", "F")
  /\ SetDone(timer[t].done, IF ok THEN "R" ELSE "F")
  /\ onVdr' = onVdr \ {t}
  /\ UNCHANGED <<epg, timerId, doneId, epgd, disturbed, user, job, crashes>>

-----------------------------------------------------------------------------
EpgdStep ==
  \/ \E t \in TimerIds : CheckTimer(t) \/ CheckName(t)
  \/ EndChecks
  \/ \E e \in Events : SearchEvent(e)
  \/ CreateTimer \/ Remember \/ Link
  \/ EndRun

UserStep ==
  \/ \E e \in Events : UserCreates(e) \/ UserRemembers(e)
  \/ \E t \in TimerIds, b \in BOOLEAN : UserModifies(t, b)
  \/ \E t \in TimerIds : UserDeletes(t)
  \/ \E t \in TimerIds : UserDropsJob(t)
  \/ \E d \in DoneIds : UserDropsDone(d)
  \/ CreateRemembered \/ LoseJob

VdrAnswers(t) == (\E ok \in BOOLEAN : VdrCreates(t, ok)) \/ VdrModifies(t) \/ VdrDeletes(t)

Next ==
  \/ \E e \in Events, v \in Versions \cup {None} : EpgChange(e, v)
  \/ \E f \in BOOLEAN : StartRun(f)
  \/ EpgdStep
  \/ Crash
  \/ \E t \in TimerIds : CleanupTimerActions(t)
  \/ \E t \in TimerIds : CloseTimer(t)
  \/ UserStep
  \/ \E t \in TimerIds : VdrAnswers(t)
  \/ \E t \in TimerIds : VdrStarts(t)
  \/ \E t \in TimerIds, ok \in BOOLEAN : VdrEnds(t, ok)

Spec == Init /\ [][Next]_vars

FairSpec ==
  /\ Spec
  /\ SF_vars(StartRun(TRUE)) /\ WF_vars(EpgdStep)
  /\ \A t \in TimerIds : WF_vars(VdrAnswers(t))

-----------------------------------------------------------------------------
(* A search timer schedules a programme at most once at a time, however    *)
(* often it is broadcast: unless the user drops the memory of it, or epgd  *)
(* is cut off before it remembers.                                         *)
Scheduled(t) ==
  /\ IsTimer(t) /\ timer[t].auto
  /\ t \in onVdr \/ timer[t].action = "C"

OnceScheduled ==
  AvoidRepeats =>
    \A t, u \in TimerIds :
       /\ Scheduled(t) /\ Scheduled(u)
       /\ Programme[timer[t].event] = Programme[timer[u].event]
       /\ Programme[timer[t].event] \notin disturbed
       => t = u

(* What a search timer is to record and nobody ever asked for, or what was *)
(* rejected or failed, gets a timer: whatever became of the timers of      *)
(* other broadcasts of it, and although a run may be cut off.              *)
Remembered(p) ==
  \E d \in DoneIds : /\ done[d] # None /\ done[d].programme = p
                     /\ done[d].state \in {"Q", "C", "R", "D"}

Settled(e) == ~Listed(e) \/ TimersOf(e) # {} \/ Remembered(Programme[e])

IdsUsedUp == timerId = MaxTimers \/ doneId = MaxDones

EventuallyScheduled == \A e \in Events : ~Settled(e) ~> Settled(e) \/ IdsUsedUp

(* A timer follows its event when that moves, also if it is renamed at the *)
(* same time, which replaces the request to adjust the timer by one to     *)
(* modify it.                                                              *)
Misplaced(t) ==
  /\ IsTimer(t) /\ t \in onVdr /\ timer[t].state \in {"u", "P"}
  /\ Listed(timer[t].event)
  /\ timer[t].at # Start[epg[timer[t].event]]

MovesFollowed == \A t \in TimerIds : Misplaced(t) ~> ~Misplaced(t)

(* HISTORY.h of 0.6.46: "implemented max fail retries for autotimers with  *)
(* reuse of timer-row".                                                    *)
Retryable(t) ==
  /\ IsTimer(t) /\ timer[t].auto /\ timer[t].state = "E" /\ timer[t].action = "F"
  /\ timer[t].retrys = 0
  /\ Listed(timer[t].event) /\ ~Remembered(Programme[timer[t].event])

FailedRetried == \A t \in TimerIds : Retryable(t) ~> ~Retryable(t)

(* storeTimerJob of webstore.c: "even 'delete-jobs' to distribution the    *)
(* delete request to the VDR(s)".                                          *)
DeleteRequestKept ==
  [][\A t \in TimerIds :
        IsTimer(t) /\ timer[t].action = "D" /\ IsTimer(t)' /\ timer'[t].action # "D"
        => timer'[t].action = "A" \/ user' # user]_vars
=============================================================================
