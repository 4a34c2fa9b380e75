------------------------- MODULE MCTimerConflicts -------------------------
EXTENDS TimerConflicts, TLC
CONSTANTS t1, t2, t3, vdr, a, b
MCTuners == [v \in Vdrs |-> 1]
(* A day has three slots; a timer may run over midnight. *)
MCRows == {[vdr |-> vdr, day |-> 0, from |-> i[1], till |-> i[2], transponder |-> p] :
             i \in {<<0, 1>>, <<0, 2>>, <<1, 2>>, <<1, 0>>}, p \in {a, b}}
MCSymmetry == Permutations(Timers) \cup Permutations({a, b})
=============================================================================
