------------------------------ MODULE Magazine ------------------------------
(***************************************************************************)
(* The page "magazine": one column per channel, with a box per programme,  *)
(* as high as it is long.  The page covers a span of time that grows while *)
(* the user scrolls.  A column is loaded when it is to be seen, and half a *)
(* second later the columns to the right of those.  It notes the span it   *)
(* covers when it asks for the programmes, and puts them at its end or at  *)
(* its beginning when they arrive, in whatever order they do.              *)
(***************************************************************************)
EXTENDS Integers, Sequences, FiniteSetsExt

CONSTANTS
  Count,     \* number of channels in the selection box
  Epg,       \* the programmes of each channel, in order
  Hour,      \* 3600 s:  the page grows by whole hours
  Half,      \* 43200 s: and at its end by twelve at least
  MinBox,    \* 600 s:   the least height of a box, 20 px
  Wide,      \* 5: with fewer columns in view, viewCnt is what the window holds
  MaxView,   \* bound: columns the widest window holds
  Opening,   \* the full hour after the page is opened
  JumpTimes, \* the times the user can go to
  None,      \* not loaded
  MaxLater,  \* bound: timeouts under way
  MaxLost    \* bound: requests that fail

Columns == 1..Count

Programme == [start : Nat, end : Nat]

ASSUME NumbersAssumption ==
  /\ Count \in Nat \ {0}
  /\ {Hour, MinBox, MaxLater} \subseteq Nat \ {0}
  /\ {Half, Opening, Wide, MaxView, MaxLost} \subseteq Nat
  /\ Opening >= 2 * Hour
  /\ JumpTimes \subseteq Nat
  /\ Epg \in [Columns -> Seq(Programme)]

(* A channel shows one programme after the other. *)
ASSUME EpgAssumption ==
  \A c \in Columns : \A i, j \in 1..Len(Epg[c]) : i < j => Epg[c][i].start < Epg[c][j].start

VARIABLES
  start, end,   \* epgd.pages.magazine.startTime, endTime
  main,         \* the first column in view, 1 for the index 0, 0 for none
  view,         \* viewCnt: the number of columns in view, 0 before the page
                \* was laid out
  later,        \* timeouts of update under way
  col,          \* startTime and endTime of every column, None at first
  load,         \* the requests of every column, in order
  box,          \* its boxes from top to bottom
  margin,       \* the margin above the first programme
  eTime,        \* the time the last programme's box reaches down to
  overtaken,    \* history: columns with an answer before that of an earlier request
  lost

vars == <<start, end, main, view, later, col, load, box, margin, eTime, overtaken, lost>>

Span == [from : Nat, to : Nat]
Request == [lo : Nat, hi : Nat, after : BOOLEAN, st : {"out", "in", "lost"}]

(* The programme of a box is named by its start, a gap is None. *)
Box == [at : Nat \cup {None}, height : Nat]

ASSUME NoneAssumption == None \notin Nat \cup Span

TypeOK ==
  /\ start \in Nat /\ end \in Nat
  /\ main \in 0..Count /\ view \in Nat
  /\ later \in 0..MaxLater
  /\ col \in [Columns -> Span \cup {None}]
  /\ load \in [Columns -> Seq(Request)]
  /\ box \in [Columns -> Seq(Box)]
  /\ margin \in [Columns -> Nat]
  /\ eTime \in [Columns -> Nat]
  /\ overtaken \subseteq Columns
  /\ lost \in 0..MaxLost

-----------------------------------------------------------------------------
(* updateTime, loadData: what a column that covers x, or nothing yet,  *)
(* asks for when the page covers s..e, and covers then.                    *)

Ask(lo, hi, after) == [lo |-> lo, hi |-> hi, after |-> after, st |-> "out"]

(* Mutant: insAfter is found out after endTime was set. *)
AskedBefore(x, s, e) ==
  IF x = None THEN <<Ask(s, e, FALSE)>>
  ELSE (IF s < x.from THEN <<Ask(s, x.from, FALSE)>> ELSE <<>>)
         \o (IF e > x.to THEN <<Ask(x.to, e, FALSE)>> ELSE <<>>)

Asked(x, s, e) ==
  IF x = None THEN <<Ask(s, e, FALSE)>>
  ELSE (IF s < x.from THEN <<Ask(s, x.from, FALSE)>> ELSE <<>>)
         \o (IF e > x.to THEN <<Ask(x.to, e, TRUE)>> ELSE <<>>)

Least(a, b) == IF a < b THEN a ELSE b
Greatest(a, b) == IF a > b THEN a ELSE b

(* Mutant: endTime is not noted by the first request. *)
CoveredNoEnd(x, s, e) ==
  IF x = None THEN [from |-> s, to |-> s]
  ELSE [from |-> Least(s, x.from), to |-> Greatest(e, x.to)]

(* Mutant: endTime is not noted by the following requests. *)
CoveredOnce(x, s, e) ==
  IF x = None THEN [from |-> s, to |-> e]
  ELSE [from |-> Least(s, x.from), to |-> x.to]

Covered(x, s, e) ==
  IF x = None THEN [from |-> s, to |-> e]
  ELSE [from |-> Least(s, x.from), to |-> Greatest(e, x.to)]

UpdateColumns(S, s, e) ==
  /\ load' = [c \in Columns |-> IF c \in S THEN load[c] \o Asked(col[c], s, e) ELSE load[c]]
  /\ col' = [c \in Columns |-> IF c \in S THEN Covered(col[c], s, e) ELSE col[c]]

InView(m, v) == {c \in Columns : m <= c /\ c < m + v}
Beside(m, v) == {c \in Columns : m + v <= c /\ c < m + 2 * v}

(* Without a first column in view update fails at once. *)
Update(m, v, s, e) ==
  IF m = 0 /\ v > 0 THEN UNCHANGED <<load, col, later>>
  ELSE /\ UpdateColumns(InView(m, v), s, e)
       /\ later < MaxLater
       /\ later' = later + 1

(* setTimeout in update, 500 ms *)
LaterUpdate ==
  /\ later > 0
  /\ later' = later - 1
  /\ UpdateColumns(Beside(main, view), start, end)
  /\ UNCHANGED <<start, end, main, view, box, margin, eTime, overtaken, lost>>

(* The window is resized, or the page is laid out for the first time; w   *)
(* columns fit in.                                                        *)
Resize(w) ==
  /\ view' = (IF w >= Wide /\ w >= Count THEN Count ELSE w)
  /\ Update(main, view', start, end)
  /\ UNCHANGED <<start, end, main, box, margin, eTime, overtaken, lost>>

(* setMain: the last columns are not passed, *)
FirstInView(i) == IF i = 0 THEN 1
                  ELSE IF i + view > Count THEN Greatest(Count + 1 - view, 0)
                  ELSE i

(* for a column chosen or by clicks on the arrows. *)
SetMain(i) ==
  /\ view > 0
  /\ main' = FirstInView(i)
  /\ Update(main', view, start, end)
  /\ UNCHANGED <<start, end, view, box, margin, eTime, overtaken, lost>>

(* Whole hours that reach from a down to b, or up to it. *)
HoursTo(a, b) == Hour * ((Greatest(a, b) - Least(a, b) + Hour - 1) \div Hour)

Earlier(t) == IF t < start THEN start - HoursTo(start, t) ELSE start
Later(t) ==
  IF end < t + Half THEN end + HoursTo(end, Greatest(t + Half, end + Half)) ELSE end

(* setTime; times before 0 are left out. *)
SetTime(t) ==
  /\ Earlier(t) >= 0
  /\ start' = Earlier(t)
  /\ end' = Later(t)
  /\ IF start' # start \/ end' # end
     THEN Update(main, view, start', end')
     ELSE UNCHANGED <<load, col, later>>
  /\ UNCHANGED <<main, view, box, margin, eTime, overtaken, lost>>

-----------------------------------------------------------------------------
(* The answer: cEpgHttpd::doEvents and the callback of loadData.           *)

(* The programmes numbered N, which follow each other. *)
Consecutive(c, N) == IF N = {} THEN <<>> ELSE SubSeq(Epg[c], Min(N), Max(N))

(* Mutant: events that run at the beginning are selected, too. *)
InRangeRunning(c, q) ==
  Consecutive(c, {n \in 1..Len(Epg[c]) : q.lo < Epg[c][n].end /\ Epg[c][n].start <= q.hi})

(* Mutant: the beginning is not included. *)
InRangeAfter(c, q) ==
  Consecutive(c, {n \in 1..Len(Epg[c]) : q.lo < Epg[c][n].start /\ Epg[c][n].start <= q.hi})

(* selectEventsStartInRange: both ends are included. *)
InRange(c, q) ==
  Consecutive(c, {n \in 1..Len(Epg[c]) : q.lo <= Epg[c][n].start /\ Epg[c][n].start <= q.hi})

IsGap(b) == b.at = None

(* The numbers of the boxes that show a programme. *)
Programmes(c) == {n \in 1..Len(box[c]) : ~IsGap(box[c][n])}
First(s) == s[1]
Last(s)  == s[Len(s)]

(* A box reaches down to the end of its programme, whatever the boxes      *)
(* above it took too much, but has its least height.                       *)
Height(p, t) == Greatest(p.end - t, MinBox)

(* How far down the first n programmes of es reach if they begin at t. *)
Reach(es, t) ==
  LET f[n \in 0..Len(es)] == IF n = 0 THEN t ELSE f[n-1] + Height(es[n], f[n-1]) IN f

(* Mutant: the height of a box is the duration of its programme. *)
BoxesOfDuration(es, t) ==
  [n \in 1..Len(es) |-> [at |-> es[n].start, height |-> Greatest(es[n].end - es[n].start, MinBox)]]

Boxes(es, t) ==
  [n \in 1..Len(es) |-> [at |-> es[n].start, height |-> Height(es[n], Reach(es, t)[n-1])]]

Gap(q) == <<[at |-> None, height |-> q.hi - q.lo]>>

(* Programmes that begin where the request does are the last one of the    *)
(* column already; the callback deletes it from the answer and then trips  *)
(* over it: nothing is shown of the answer.                                *)
Known(c, q, es) ==
  /\ Programmes(c) # {}
  /\ IF q.after THEN box[c][Max(Programmes(c))].at = First(es).start
                ELSE box[c][Min(Programmes(c))].at = Last(es).start

AppendBoxes(c, es) ==
  IF Programmes(c) = {} THEN UNCHANGED <<box, margin, eTime>>
  ELSE /\ box' = [box EXCEPT ![c] = @ \o Boxes(es, eTime[c])]
       /\ eTime' = [eTime EXCEPT ![c] = Reach(es, @)[Len(es)]]
       /\ UNCHANGED margin

PrependBoxes(c, q, es) ==
  /\ box' = [box EXCEPT ![c] = Boxes(es, First(es).start) \o @]
  /\ margin' = [margin EXCEPT ![c] = First(es).start - q.lo]
  /\ eTime' = [eTime EXCEPT ![c] = IF Programmes(c) = {}
                                   THEN Reach(es, First(es).start)[Len(es)] ELSE @]

(* Without programmes a gap is shown. *)
PutGap(c, q) ==
  /\ box' = [box EXCEPT ![c] = IF q.after THEN @ \o Gap(q) ELSE Gap(q) \o @]
  /\ IF Programmes(c) = {} THEN UNCHANGED <<margin, eTime>>
     ELSE /\ eTime' = [eTime EXCEPT ![c] = q.lo]
          /\ margin' = IF q.after THEN margin ELSE [margin EXCEPT ![c] = 0]

Answer(c, i) ==
  LET q == load[c][i]
      es == InRange(c, q)
  IN /\ q.st = "out"
     /\ load' = [load EXCEPT ![c][i].st = "in"]
     /\ overtaken' = IF \E j \in 1..(i-1) : load[c][j].st = "out" THEN overtaken \cup {c} ELSE overtaken
     /\ IF es = <<>> THEN PutGap(c, q)
        ELSE IF Known(c, q, es) THEN UNCHANGED <<box, margin, eTime>>
        ELSE IF q.after THEN AppendBoxes(c, es)
        ELSE PrependBoxes(c, q, es)
     /\ UNCHANGED <<start, end, main, view, later, col, lost>>

(* The request fails: it is not made again. *)
Fail(c, i) ==
  /\ lost < MaxLost
  /\ lost' = lost + 1
  /\ load[c][i].st = "out"
  /\ load' = [load EXCEPT ![c][i].st = "lost"]
  /\ UNCHANGED <<start, end, main, view, later, col, box, margin, eTime, overtaken>>

-----------------------------------------------------------------------------
(* render: the page covers fourteen hours and was not laid out yet. *)
Init ==
  /\ start = Opening - 2 * Hour /\ end = Opening + HoursTo(0, Half)
  /\ main = 1 /\ view = 0 /\ later = 1
  /\ col = [c \in Columns |-> None]
  /\ load = [c \in Columns |-> <<>>]
  /\ box = [c \in Columns |-> <<>>]
  /\ margin = [c \in Columns |-> 0]
  /\ eTime = [c \in Columns |-> 0]
  /\ overtaken = {}
  /\ lost = 0

Next ==
  \/ \E w \in 1..MaxView : Resize(w)
  \/ \E i \in 0..Count : SetMain(i)
  \/ \E t \in JumpTimes : SetTime(t)
  \/ LaterUpdate
  \/ \E c \in Columns : \E i \in 1..Len(load[c]) : Answer(c, i) \/ Fail(c, i)

Spec == Init /\ [][Next]_vars
-----------------------------------------------------------------------------
Answers(L, st) == {i \in 1..Len(L) : L[i].st = st}

(* What is in view has been asked for: whatever way the user went, and     *)
(* whenever the window was resized meanwhile, every column in view covers  *)
(* the whole span of the page.                                             *)
VisibleCovered ==
  \A c \in InView(main, view) : main > 0 =>
    col[c] # None /\ col[c].from <= start /\ end <= col[c].to

(* The programmes of a column are in order, unless answers overtook each   *)
(* other: one that was awaited above others or below them may then be put  *)
(* at the wrong end.                                                       *)
InOrder ==
  \A c \in Columns \ overtaken : \A i, j \in Programmes(c) :
    i < j => box[c][i].at < box[c][j].at

(* Everything a column asked for has come, in order; no programme starts   *)
(* exactly where a later request does; and no request met no programme.    *)
AllIn(c) == Answers(load[c], "out") = {} /\ Answers(load[c], "lost") = {} /\ c \notin overtaken

OnTheHour(c) == \E p \in Range(Epg[c]), i \in 2..Len(load[c]) :
  p.start = (IF load[c][i].after THEN load[c][i].lo ELSE load[c][i].hi)

HasGap(c) == \E q \in Range(load[c]) : InRange(c, q) = <<>>

Clean(c) == col[c] # None /\ AllIn(c) /\ ~OnTheHour(c) /\ ~HasGap(c)

(* Such a column shows the programmes of the span it covers, each of them. *)
NothingMissing ==
  \A c \in Columns : Clean(c) =>
    {b.at : b \in Range(box[c])} =
      {p.start : p \in {p \in Range(Epg[c]) : col[c].from <= p.start /\ p.start <= col[c].to}}

(* How far down the first n boxes of bs reach, if they begin at t. *)
Bottom(bs, t) ==
  LET f[n \in 0..Len(bs)] == IF n = 0 THEN t ELSE f[n-1] + bs[n].height IN f

Bottoms(c) == Bottom(box[c], col[c].from + margin[c])

Shown(c, b) == CHOOSE p \in Range(Epg[c]) : p.start = b.at

(* Every box reaches down to the end of its programme, or has the least    *)
(* height: what a short programme took too much the next one gives back.   *)
InStep(c) ==
  \A n \in 1..Len(box[c]) : box[c][n].height = Height(Shown(c, box[c][n]), Bottoms(c)[n-1])

(* lang/hilfe.html promises it of every column: "Das delta wird dann mit   *)
(* an die naechste Sendung gegeben ... damit es danach wieder passt".      *)
BackInStep == \A c \in Columns : Clean(c) => InStep(c)

(* It holds of a column that was only continued downwards, over several    *)
(* requests: the last programme of one is made up for in the next.         *)
BackInStepDown ==
  \A c \in Columns :
    Clean(c) /\ (\A i \in 2..Len(load[c]) : load[c][i].after) => InStep(c)

-----------------------------------------------------------------------------
Stretch(lo, hi) == {t \in 0..hi : lo <= t /\ t < hi}
SpanOf(x) == IF x = None THEN {} ELSE Stretch(x.from, x.to)
Pieces(L, st) == UNION {Stretch(L[i].lo, L[i].hi) : i \in Answers(L, st)}

Promise == INSTANCE ColumnPromise WITH
  Columns <- Columns, Times <- Nat,
  span <- [c \in Columns |-> SpanOf(col[c])],
  awaited <- [c \in Columns |-> Pieces(load[c], "out")],
  there <- [c \in Columns |-> Pieces(load[c], "in")]

(* The page implements the promise: whatever the page asks for the user    *)
(* scrolling and the timeouts of update cause, no moment is left out of    *)
(* the requests of a column and none is requested twice.                   *)
Promised == Promise!Spec
=============================================================================
