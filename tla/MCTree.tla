------------------------------- MODULE MCTree -------------------------------
(* Instances of Tree for TLC: every session belongs to the first environment. *)
EXTENDS Tree, TLC

CONSTANTS e1, e2, s1, s2

InTheFirst == [s \in Sessions |-> e1]
=============================================================================
