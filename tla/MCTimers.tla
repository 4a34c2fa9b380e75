----------------------------- MODULE MCTimers -----------------------------
EXTENDS Timers, TLC
CONSTANTS e1, e2, p
MCProgramme == [e \in Events |-> p]
MCStart == [v \in Versions |-> v]
MCName == [v \in Versions |-> v]
=============================================================================
