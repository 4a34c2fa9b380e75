----------------------------- MODULE MCMagazine -----------------------------
(* Two channels: one with programmes all day, some shorter than a box is    *)
(* high at least and none that starts when a request does; and one with a   *)
(* programme that starts when a request does, and none at the end.          *)
EXTENDS Magazine

P(s, e) == [start |-> s, end |-> e]

MCEpg == <<
  <<P(0, 2), P(2, 3), P(3, 5), P(5, 11), P(11, 18), P(18, 19), P(19, 21), P(21, 26), P(26, 34)>>,
  <<P(1, 3), P(4, 9), P(9, 19)>> >>
=============================================================================
