---------------------------- MODULE MCEpgMerge ----------------------------
EXTENDS EpgMerge, TLC
CONSTANTS v1, v2, x1, x2
MCStarts == [e \in Events |-> CASE e = v1 -> {1, 3} [] e = v2 -> {2} [] OTHER -> {1}]
MCStartsB == [e \in Events |-> CASE e = v1 -> {1, 4} [] e = v2 -> {2} [] e = x1 -> {1} [] OTHER -> {2}]
=============================================================================
