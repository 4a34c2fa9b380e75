--------------------------- MODULE TimerConflicts ---------------------------
(***************************************************************************)
(* The timer conflict check ("TCC") of epgd.  Every 15 minutes the daemon  *)
(* goes through the timers the VDRs have taken over, counts for each the   *)
(* transponders in use on its VDR while it runs, and mails the user those  *)
(* for which the VDR has not enough tuners.  A column of the table timers  *)
(* counts the mails a timer was reported in: a timer is to be reported     *)
(* only once.                                                              *)
(*                                                                         *)
(* Reading the timers in use goes through the same row buffer (timerDb) as *)
(* the loop over the timers to check, so when the check writes the count   *)
(* it writes it to the row the inner query returned last.                  *)
(***************************************************************************)
EXTENDS Integers, FiniteSets

CONSTANTS
  Timers,       \* ids of the timers
  Vdrs,
  Tuners,       \* tuners of every VDR
  DayLen,       \* minutes of a day
  Rows,         \* what a timer can be set to: VDR, day, times, transponder
  None,         \* not a row: no timer the check looks at
  MaxChecks,    \* bound: number of checks
  MaxMoves      \* bound: number of changes of timers while a check runs

ASSUME TimersAssumption == IsFiniteSet(Timers) /\ Tuners \in [Vdrs -> Nat]

ASSUME RowsAssumption ==
  /\ DayLen \in Nat \ {0}
  /\ None \notin Rows
  /\ \A r \in Rows : r.vdr \in Vdrs /\ r.day \in Nat /\ {r.from, r.till} \subseteq 0..(DayLen - 1)

ASSUME BoundsAssumption == {MaxChecks, MaxMoves} \subseteq Nat

VARIABLES
  row,      \* the columns of the active timers that are pending or recording
  cnt,      \* timers.tccmailcnt
  todo,     \* the timers the running check has still to look at,
  seen,     \* with the columns and the counts they had when it started
  found,    \* the timers in the body of the mail it builds
  checking,
  quiet,    \* the last mail is less than an hour old
  mails,    \* history: how often a timer was reported to the user
  moves,    \* history: how often timers changed since the check started
  checks

vars == <<row, cnt, todo, seen, found, checking, quiet, mails, moves, checks>>

TypeOK ==
  /\ row \in [Timers -> Rows \cup {None}]
  /\ cnt \in [Timers -> Nat]
  /\ todo \in SUBSET Timers
  /\ seen \in [Timers -> [row : Rows \cup {None}, cnt : Nat]]
  /\ \A t \in todo : seen[t].row \in Rows
  /\ found \in SUBSET Timers
  /\ {checking, quiet} \subseteq BOOLEAN
  /\ mails \in [Timers -> Nat]
  /\ {moves, checks} \subseteq Nat

sched == {t \in Timers : row[t] # None}

NothingSeen == [t \in Timers |-> [row |-> None, cnt |-> 0]]

Init ==
  /\ row = [t \in Timers |-> None]
  /\ cnt = [t \in Timers |-> 0]
  /\ todo = {}
  /\ seen = NothingSeen
  /\ found = {}
  /\ checking = FALSE
  /\ quiet = FALSE
  /\ mails = [t \in Timers |-> 0]
  /\ moves = 0
  /\ checks = 0

-----------------------------------------------------------------------------
Begin(r) == r.day * DayLen + r.from

EndSameDay(r) == r.day * DayLen + r.till                        \* mutant

(* A timer that ends at an earlier time of day than it starts at ends on   *)
(* the next day.                                                           *)
End(r) == (IF r.till < r.from THEN r.day + 1 ELSE r.day) * DayLen + r.till

InUseAfter(r) ==                                                \* mutant
  {u \in sched : row[u].vdr = r.vdr /\ Begin(r) < Begin(row[u]) /\ Begin(row[u]) <= End(r)}

(* selectConflictingTimers: the timers that start while r runs *)
InUse(r) ==
  {u \in sched : row[u].vdr = r.vdr /\ Begin(r) <= Begin(row[u]) /\ Begin(row[u]) <= End(r)}

(* getUsedTransponderAt *)
UsedTransponders(r) == {row[u].transponder : u \in InUse(r)}

Conflict(r) == Cardinality(UsedTransponders(r)) > Tuners[r.vdr]

-----------------------------------------------------------------------------
Moved == IF checking THEN moves < MaxMoves /\ moves' = moves + 1 ELSE moves' = moves

(* The VDRs and their users: timers come, are moved and go.  External code. *)
Schedule(t, r) ==
  /\ row[t] # r
  /\ row' = [row EXCEPT ![t] = r]
  /\ Moved
  /\ UNCHANGED <<cnt, todo, seen, found, checking, quiet, mails, checks>>

Remove(t) ==
  /\ t \in sched
  /\ row' = [row EXCEPT ![t] = None]
  /\ Moved
  /\ UNCHANGED <<cnt, todo, seen, found, checking, quiet, mails, checks>>

CheckedAll == Timers                                             \* mutant

(* selectAllTimer: the active timers that are pending or recording *)
Checked == sched

(* The loop of the daemon reaches the check; the list of timers is read    *)
(* as a whole.                                                             *)
StartCheck ==
  /\ ~checking
  /\ checks < MaxChecks
  /\ checking' = TRUE
  /\ todo' = Checked
  /\ seen' = [t \in Timers |-> [row |-> row[t], cnt |-> cnt[t]]]
  /\ moves' = 0
  /\ checks' = checks + 1
  /\ UNCHANGED <<row, cnt, found, quiet, mails>>

(* "order by t.day, t.starttime" *)
IsNext(t) == t \in todo /\ \A u \in todo : Begin(seen[t].row) <= Begin(seen[u].row)

CountNone(u) == cnt                                              \* mutant

(* The count is written to u, the row the query for InUse returned last. *)
CountMail(u) == [cnt EXCEPT ![u] = @ + 1]

CheckTimer(t) ==
  /\ checking
  /\ IsNext(t)
  /\ todo' = todo \ {t}
  /\ IF seen[t].cnt = 0 /\ Conflict(seen[t].row)
     THEN /\ found' = found \cup {t}
          /\ \E u \in InUse(seen[t].row) : cnt' = CountMail(u)
     ELSE UNCHANGED <<found, cnt>>
  /\ UNCHANGED <<row, seen, checking, quiet, mails, moves, checks>>

(* sendTccMail: at most one mail per hour *)
EndCheck ==
  /\ checking
  /\ todo = {}
  /\ checking' = FALSE
  /\ seen' = NothingSeen
  /\ found' = {}
  /\ moves' = 0
  /\ IF found # {} /\ ~quiet
     THEN /\ mails' = [t \in Timers |-> IF t \in found THEN mails[t] + 1 ELSE mails[t]]
          /\ quiet' = TRUE
     ELSE UNCHANGED <<mails, quiet>>
  /\ UNCHANGED <<row, cnt, todo, checks>>

HourPasses ==
  /\ quiet
  /\ quiet' = FALSE
  /\ UNCHANGED <<row, cnt, todo, seen, found, checking, mails, moves, checks>>

Next ==
  \/ \E t \in Timers, r \in Rows : Schedule(t, r)
  \/ \E t \in Timers : Remove(t)
  \/ StartCheck
  \/ \E t \in Timers : CheckTimer(t)
  \/ EndCheck
  \/ HourPasses

Spec == Init /\ [][Next]_vars

-----------------------------------------------------------------------------
(* What really happens at a moment, whatever the check computes. *)
Until(r) == Begin(r) + (IF r.till < r.from THEN r.till + DayLen - r.from ELSE r.till - r.from)
Recording(v, m) == {t \in sched : row[t].vdr = v /\ Begin(row[t]) <= m /\ m < Until(row[t])}
Overbooked(v, m) == Cardinality({row[t].transponder : t \in Recording(v, m)}) > Tuners[v]

Moments == {Begin(row[t]) : t \in sched}

(* No conflict is missed: when a VDR is to receive from more transponders  *)
(* at some moment than it has tuners for, the check finds a conflict for   *)
(* one of the timers that record then, although it only looks at timers    *)
(* that start while another runs.                                          *)
NoConflictMissed ==
  \A m \in Moments, v \in Vdrs :
     Overbooked(v, m) => \E t \in Recording(v, m) : Conflict(row[t])

(* After a check during which no timer changed, every conflict has left    *)
(* its mark: a timer that starts while one of its timers records counts a  *)
(* mail, be it from an earlier check.                                      *)
ConflictsCounted ==
  checking /\ todo = {} /\ moves = 0 =>
     \A m \in Moments, v \in Vdrs :
        Overbooked(v, m) =>
           \E t \in Recording(v, m) : \E u \in sched :
              /\ row[u].vdr = v
              /\ Begin(row[t]) <= Begin(row[u]) /\ Begin(row[u]) <= Until(row[t])
              /\ cnt[u] > 0

(* HISTORY.h of 0.6.8: "Send TCC mail only one per timer". *)
MailOncePerTimer == \A t \in Timers : mails[t] <= 1
=============================================================================
