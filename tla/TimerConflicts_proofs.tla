------------------------ MODULE TimerConflicts_proofs ------------------------
(***************************************************************************)
(* The conflict check sees every conflict, for any timers, times, tuners   *)
(* and days: of the timers that record at an overbooked moment, take one   *)
(* that started first.  All the others started while it records, so it is  *)
(* found in conflict although only starting times are compared.            *)
(***************************************************************************)
EXTENDS TimerConflicts, Recursion

(* The columns of the timers stay rows, whatever the VDRs do with them. *)
Typed == row \in [Timers -> Rows \cup {None}]

LEMMA TypedInductive == Spec => []Typed
<1>1. Init => Typed
  BY DEF Init, Typed
<1>2. Typed /\ [Next]_vars => Typed'
  BY DEF Typed, Next, vars, Schedule, Remove, StartCheck, CheckTimer, EndCheck, HourPasses
<1> QED  BY <1>1, <1>2, PTL DEF Spec

(* Beginnings and ends are numbers, and the check takes a timer to end     *)
(* when it does.                                                           *)
LEMMA Times ==
  ASSUME NEW r \in Rows
  PROVE  /\ Begin(r) \in Nat
         /\ End(r) = Until(r)
         /\ Until(r) \in Nat
         /\ r.vdr \in Vdrs
<1>1. /\ DayLen \in Nat /\ r.day \in Nat /\ r.vdr \in Vdrs
      /\ r.from \in 0..(DayLen - 1) /\ r.till \in 0..(DayLen - 1)
  BY RowsAssumption
<1> DEFINE d == r.day * DayLen
<1>2. d \in Nat
  BY <1>1
<1>3. Begin(r) = d + r.from
  BY DEF Begin
<1>4. End(r) = IF r.till < r.from THEN d + DayLen + r.till ELSE d + r.till
  BY <1>1 DEF End
<1> HIDE DEF d
<1> QED  BY <1>1, <1>2, <1>3, <1>4 DEF Until

(* The transponders of finitely many timers are finitely many. *)
LEMMA FiniteTransponders ==
  ASSUME NEW S, IsFiniteSet(S)
  PROVE  IsFiniteSet({row[u].transponder : u \in S})
<1> DEFINE T == {row[u].transponder : u \in S}
           f == [u \in S |-> row[u].transponder]
<1>1. f \in Surjection(S, T)
  BY DEF Surjection
<1> HIDE DEF f, T
<1> QED  BY <1>1, FS_Surjection DEF T

(* Among the timers that record at an overbooked moment one started first. *)
LEMMA FirstOfThem ==
  ASSUME Typed, NEW v \in Vdrs, NEW m, Overbooked(v, m)
  PROVE  \E t \in Recording(v, m) :
            \A u \in Recording(v, m) : Begin(row[t]) <= Begin(row[u])
<1> DEFINE S == {Begin(row[t]) : t \in Recording(v, m)}
<1>1. ASSUME NEW t \in Recording(v, m) PROVE Begin(row[t]) \in Nat
  <2>1. row[t] \in Rows
    BY DEF Recording, sched, Typed
  <2> QED  BY <2>1, Times
<1>2. Recording(v, m) # {}
  <2>1. SUFFICES ASSUME Recording(v, m) = {} PROVE FALSE
    OBVIOUS
  <2>2. {row[t].transponder : t \in Recording(v, m)} = {}
    BY <2>1
  <2>3. Tuners[v] \in Nat /\ 0 > Tuners[v]
    BY <2>2, FS_EmptySet, TimersAssumption DEF Overbooked
  <2> QED  BY <2>3
<1>3. S \in SUBSET Nat /\ S # {}
  BY <1>1, <1>2
<1>4. PICK b \in S : \A c \in S : b <= c
  BY <1>3, LeastNatural
<1> QED  BY <1>4

(* All that record at a moment one of them is in use with are counted. *)
LEMMA AllCounted ==
  ASSUME Typed, NEW v \in Vdrs, NEW m \in Nat,
         NEW t \in Recording(v, m), NEW u \in Recording(v, m),
         Begin(row[t]) <= Begin(row[u])
  PROVE  u \in InUse(row[t])
<1>1. row[t] \in Rows /\ row[u] \in Rows
  BY DEF Recording, sched, Typed
<1>2. Begin(row[u]) <= m /\ m < End(row[t])
  BY <1>1, Times DEF Recording
<1>3. Begin(row[u]) \in Nat /\ End(row[t]) \in Nat
  BY <1>1, Times
<1>4. Begin(row[u]) <= End(row[t])
  BY <1>2, <1>3
<1> QED  BY <1>4 DEF InUse, Recording

LEMMA EveryConflictSeen == Typed => NoConflictMissed
<1> SUFFICES ASSUME Typed, NEW m \in Moments, NEW v \in Vdrs, Overbooked(v, m)
             PROVE  \E t \in Recording(v, m) : Conflict(row[t])
  BY DEF NoConflictMissed
<1>1. m \in Nat
  <2>1. PICK t \in sched : m = Begin(row[t])
    BY DEF Moments
  <2>2. row[t] \in Rows
    BY <2>1 DEF sched, Typed
  <2> QED  BY <2>1, <2>2, Times
<1>2. PICK t \in Recording(v, m) :
          \A u \in Recording(v, m) : Begin(row[t]) <= Begin(row[u])
  BY FirstOfThem
<1> DEFINE needed == {row[u].transponder : u \in Recording(v, m)}
           counted == {row[u].transponder : u \in InUse(row[t])}
<1>3. needed \in SUBSET counted
  BY <1>1, <1>2, AllCounted
<1>4. IsFiniteSet(counted)
  <2>1. InUse(row[t]) \in SUBSET Timers
    BY DEF InUse, sched
  <2>2. IsFiniteSet(InUse(row[t]))
    BY <2>1, TimersAssumption, FS_Subset
  <2> QED  BY <2>2, FiniteTransponders
<1>5. /\ IsFiniteSet(needed)
      /\ Cardinality(needed) <= Cardinality(counted)
  BY <1>3, <1>4, FS_Subset
<1>6. Cardinality(needed) \in Nat /\ Cardinality(counted) \in Nat
  BY <1>4, <1>5, FS_CardinalityType
<1>7. Cardinality(needed) > Tuners[v] /\ Tuners[v] \in Nat
  BY TimersAssumption DEF Overbooked
<1>8. Cardinality(counted) > Tuners[v]
  <2> HIDE DEF needed, counted
  <2> QED  BY <1>5, <1>6, <1>7
<1>9. row[t].vdr = v
  BY <1>2 DEF Recording
<1> QED  BY <1>2, <1>8, <1>9 DEF Conflict, UsedTransponders

(* At every moment of every run a VDR that has too few tuners is noticed.  *)
THEOREM ConflictsNoticed == Spec => []NoConflictMissed
BY TypedInductive, EveryConflictSeen, PTL

-----------------------------------------------------------------------------
(* Type correctness: what the check remembers of the timers stays in step  *)
(* with the list it goes through.                                          *)
THEOREM TypeCorrect == Spec => []TypeOK
<1>1. ASSUME Init PROVE TypeOK
  <2>1. checking \in BOOLEAN /\ quiet \in BOOLEAN BY <1>1 DEF Init
  <2>2. seen \in [Timers -> [row : Rows \cup {None}, cnt : Nat]] BY <1>1 DEF Init, NothingSeen
  <2> QED BY <1>1, <2>1, <2>2 DEF Init, TypeOK
<1>2. ASSUME TypeOK, [Next]_vars PROVE TypeOK'
  <2>1. ASSUME NEW t \in Timers, NEW r \in Rows, Schedule(t, r) PROVE TypeOK'
    BY <1>2, <2>1 DEF Schedule, Moved, TypeOK
  <2>2. ASSUME NEW t \in Timers, Remove(t) PROVE TypeOK'
    BY <1>2, <2>2 DEF Remove, Moved, TypeOK
  <2>3. CASE StartCheck
    <3>1. /\ todo' \in SUBSET Timers
          /\ seen' \in [Timers -> [row : Rows \cup {None}, cnt : Nat]]
          /\ \A t \in todo' : seen'[t].row \in Rows
      BY <1>2, <2>3 DEF StartCheck, Checked, sched, TypeOK
    <3>2. checks' \in Nat /\ moves' \in Nat BY <1>2, <2>3 DEF StartCheck, TypeOK
    <3>3. checking' \in BOOLEAN BY <2>3 DEF StartCheck
    <3> QED BY <1>2, <2>3, <3>1, <3>2, <3>3 DEF StartCheck, TypeOK
  <2>4. ASSUME NEW t \in Timers, CheckTimer(t) PROVE TypeOK'
    <3>1. cnt' \in [Timers -> Nat]
      BY <1>2, <2>4 DEF CheckTimer, CountMail, InUse, sched, TypeOK
    <3>2. found' \in SUBSET Timers /\ todo' \in SUBSET todo
      BY <1>2, <2>4 DEF CheckTimer, TypeOK
    <3> QED BY <1>2, <2>4, <3>1, <3>2 DEF CheckTimer, TypeOK
  <2>5. CASE EndCheck
    <3>1. mails' \in [Timers -> Nat] BY <1>2, <2>5 DEF EndCheck, TypeOK
    <3>2. checking' \in BOOLEAN /\ quiet' \in BOOLEAN BY <1>2, <2>5 DEF EndCheck, TypeOK
    <3>3. seen' \in [Timers -> [row : Rows \cup {None}, cnt : Nat]]
      BY <2>5 DEF EndCheck, NothingSeen
    <3> QED BY <1>2, <2>5, <3>1, <3>2, <3>3 DEF EndCheck, TypeOK
  <2>6. CASE HourPasses BY <1>2, <2>6 DEF HourPasses, TypeOK
  <2>7. CASE UNCHANGED vars BY <1>2, <2>7 DEF vars, TypeOK
  <2> QED BY <1>2, <2>1, <2>2, <2>3, <2>4, <2>5, <2>6, <2>7 DEF Next
<1> QED BY <1>1, <1>2, PTL DEF Spec

(* While a check runs and no timer changed, it sees the timers as they     *)
(* are; counts only grow; and a timer it is done with and that is in       *)
(* conflict has its mark: it was counted before, or the check counted a    *)
(* timer that starts while it records.                                     *)
Marked(t) == \E u \in InUse(row[t]) : cnt[u] > 0

DoneMarked ==
  checking /\ moves = 0 =>
    /\ \A t \in Timers : seen[t].row = row[t] /\ seen[t].cnt <= cnt[t]
    /\ \A t \in sched \ todo : Conflict(row[t]) => Marked(t)

(* A timer starts while itself records. *)
LEMMA InUseWithItself ==
  ASSUME TypeOK, NEW t \in sched
  PROVE  t \in InUse(row[t])
<1>1. row[t] \in Rows BY DEF TypeOK, sched
<1>2. PICK r \in Rows : r = row[t] BY <1>1
<1>3. /\ DayLen \in Nat /\ r.from \in 0..(DayLen - 1) /\ r.till \in 0..(DayLen - 1)
      /\ Begin(r) \in Nat /\ Until(r) \in Nat /\ End(r) = Until(r)
  BY RowsAssumption, Times
<1>4. Begin(r) <= End(r) BY <1>3 DEF Until
<1> QED BY <1>2, <1>3, <1>4 DEF InUse

LEMMA CheckMarks ==
  ASSUME TypeOK, DoneMarked, NEW t \in Timers, CheckTimer(t)
  PROVE  DoneMarked'
<1> SUFFICES ASSUME moves = 0 PROVE DoneMarked' BY DEF DoneMarked, CheckTimer
<1>1. /\ \A u \in Timers : seen[u].row = row[u] /\ seen[u].cnt <= cnt[u]
      /\ \A u \in sched \ todo : Conflict(row[u]) => Marked(u)
  BY DEF DoneMarked, CheckTimer
<1>2. UNCHANGED <<row, seen>> /\ todo' = todo \ {t} BY DEF CheckTimer
<1>3. \A u \in Timers : cnt'[u] \in Nat /\ cnt[u] <= cnt'[u]
  BY DEF CheckTimer, CountMail, InUse, sched, TypeOK
<1>4. \A u \in Timers : seen[u].cnt \in Nat /\ cnt[u] \in Nat BY DEF TypeOK
<1>5. \A u \in Timers : seen[u].cnt <= cnt'[u] BY <1>1, <1>3, <1>4
<1>6. \A r : InUse(r)' = InUse(r) /\ (Conflict(r)' <=> Conflict(r))
  BY <1>2 DEF InUse, Conflict, UsedTransponders, sched
<1>7. \A r : InUse(r) \in SUBSET Timers BY DEF InUse, sched
<1>8. \A u \in Timers : Marked(u) => Marked(u)'
  BY <1>2, <1>3, <1>4, <1>6, <1>7 DEF Marked
<1>9. ASSUME t \in sched, Conflict(row[t]) PROVE Marked(t)'
  <2>1. seen[t].row = row[t] BY <1>1
  <2>2. CASE seen[t].cnt = 0
    <3>1. PICK u \in InUse(row[t]) : cnt' = CountMail(u) BY <1>9, <2>1, <2>2 DEF CheckTimer
    <3>2. cnt'[u] > 0 BY <1>4, <1>7, <3>1 DEF CountMail, TypeOK
    <3> QED BY <1>2, <1>6, <3>2 DEF Marked
  <2>3. CASE seen[t].cnt # 0
    <3>1. cnt'[t] > 0 BY <1>3, <1>4, <1>5, <2>3
    <3>2. t \in InUse(row[t]) BY <1>9, InUseWithItself
    <3> QED BY <1>2, <1>6, <3>1, <3>2 DEF Marked
  <2> QED BY <2>2, <2>3
<1>10. sched' = sched BY <1>2 DEF sched
<1>11. \A u \in sched' \ todo' : Conflict(row[u])' => Marked(u)'
  <2>1. TAKE u \in sched' \ todo'
  <2>2. u \in sched /\ u \in Timers /\ row'[u] = row[u] BY <1>2, <1>10 DEF sched
  <2>6. Conflict(row[u])' <=> Conflict(row[u])
    BY <1>2, <1>10 DEF Conflict, UsedTransponders, InUse
  <2>3. SUFFICES ASSUME Conflict(row[u]) PROVE Marked(u)' BY <2>6
  <2>4. CASE u = t BY <1>9, <2>2, <2>3, <2>4
  <2>5. CASE u # t BY <1>1, <1>2, <1>8, <2>1, <2>2, <2>3, <2>5
  <2> QED BY <2>4, <2>5
<1>12. \A u \in Timers : seen'[u].row = row'[u] /\ seen'[u].cnt <= cnt'[u] BY <1>1, <1>2, <1>5
<1> QED BY <1>11, <1>12 DEF DoneMarked

LEMMA MarkedInductive == Spec => []DoneMarked
<1>1. Init => DoneMarked BY DEF Init, DoneMarked
<1>2. ASSUME TypeOK, DoneMarked, [Next]_vars PROVE DoneMarked'
  <2>1. ASSUME (\E t \in Timers, r \in Rows : Schedule(t, r)) \/ (\E t \in Timers : Remove(t))
        PROVE  ~(checking' /\ moves' = 0)
    BY <1>2, <2>1 DEF Schedule, Remove, Moved, TypeOK
  <2>2. ASSUME StartCheck PROVE DoneMarked'
    <3>1. /\ \A t \in Timers : seen'[t].row = row'[t] /\ seen'[t].cnt <= cnt'[t]
          /\ sched' \ todo' = {}
      BY <1>2, <2>2 DEF StartCheck, Checked, sched, TypeOK
    <3> QED BY <3>1 DEF DoneMarked
  <2>3. ASSUME NEW t \in Timers, CheckTimer(t) PROVE DoneMarked' BY <1>2, <2>3, CheckMarks
  <2>4. ASSUME EndCheck PROVE DoneMarked' BY <2>4 DEF EndCheck, DoneMarked
  <2>5. ASSUME HourPasses \/ UNCHANGED vars PROVE DoneMarked'
    <3>1. UNCHANGED <<row, cnt, todo, seen, checking, moves>> BY <2>5 DEF HourPasses, vars
    <3>2. sched' = sched BY <3>1 DEF sched
    <3>3. \A r : InUse(r)' = InUse(r) BY <3>1, <3>2 DEF InUse
    <3>4. \A r : Conflict(r)' <=> Conflict(r) BY <3>1, <3>3 DEF Conflict, UsedTransponders
    <3>5. \A t : Marked(t)' <=> Marked(t) BY <3>1, <3>3 DEF Marked
    <3> QED BY <1>2, <3>1, <3>2, <3>4, <3>5 DEF DoneMarked
  <2> QED BY <1>2, <2>1, <2>2, <2>3, <2>4, <2>5 DEF Next, DoneMarked
<1> QED BY <1>1, <1>2, TypeCorrect, PTL DEF Spec

(* No conflict is passed over: at the end of a check during which no timer *)
(* changed, a timer of every overbooked moment, or one that starts while   *)
(* it records, counts a mail, although the check writes the count to       *)
(* whatever row its inner query read last.                                 *)
THEOREM EveryConflictCounted == Spec => []ConflictsCounted
<1>1. ASSUME TypeOK, Typed, DoneMarked PROVE ConflictsCounted
  <2> SUFFICES ASSUME checking, todo = {}, moves = 0, NEW m \in Moments, NEW v \in Vdrs,
                      Overbooked(v, m)
               PROVE  \E t \in Recording(v, m) : \E u \in sched :
                         /\ row[u].vdr = v
                         /\ Begin(row[t]) <= Begin(row[u]) /\ Begin(row[u]) <= Until(row[t])
                         /\ cnt[u] > 0
    BY DEF ConflictsCounted
  <2>1. PICK t \in Recording(v, m) : Conflict(row[t])
    BY <1>1, EveryConflictSeen DEF NoConflictMissed
  <2>2. t \in sched /\ row[t] \in Rows /\ row[t].vdr = v
    BY <1>1, <2>1 DEF Recording, sched, TypeOK
  <2>3. Marked(t) BY <1>1, <2>1, <2>2 DEF DoneMarked
  <2>4. PICK u \in InUse(row[t]) : cnt[u] > 0 BY <2>3 DEF Marked
  <2>5. End(row[t]) = Until(row[t]) BY <2>2, Times
  <2> QED BY <2>1, <2>2, <2>4, <2>5 DEF InUse
<1> QED BY <1>1, TypeCorrect, TypedInductive, MarkedInductive, PTL
=============================================================================
