---------------------------- MODULE ColumnPromise ----------------------------
(***************************************************************************)
(* What a column of the magazine promises: the time it covers only grows;  *)
(* every moment of it is asked for once, when the column first covers it,  *)
(* and arrives once or is given up.                                        *)
(***************************************************************************)
CONSTANTS Columns, Times

VARIABLES
  span,      \* the moments each column covers
  awaited,   \* those that were asked for and have not arrived
  there      \* those that have arrived

vars == <<span, awaited, there>>

Init ==
  /\ span = [c \in Columns |-> {}]
  /\ awaited = [c \in Columns |-> {}]
  /\ there = [c \in Columns |-> {}]

(* Columns come to cover more: what is new is asked for, nothing twice. *)
Ask ==
  /\ span' \in [Columns -> SUBSET Times]
  /\ \A c \in Columns : span[c] \subseteq span'[c]
  /\ awaited' = [c \in Columns |-> awaited[c] \cup (span'[c] \ span[c])]
  /\ UNCHANGED there

Fewer(c) ==
  /\ awaited' \in [Columns -> SUBSET Times]
  /\ awaited'[c] \subseteq awaited[c]
  /\ \A d \in Columns \ {c} : awaited'[d] = awaited[d]

(* Moments that are awaited arrive, *)
Arrive(c) ==
  /\ Fewer(c)
  /\ there' = [there EXCEPT ![c] = @ \cup (awaited[c] \ awaited'[c])]
  /\ UNCHANGED span

(* or never will. *)
GiveUp(c) == Fewer(c) /\ UNCHANGED <<span, there>>

Next ==
  \/ Ask
  \/ \E c \in Columns : Arrive(c) \/ GiveUp(c)

Spec == Init /\ [][Next]_vars
=============================================================================
