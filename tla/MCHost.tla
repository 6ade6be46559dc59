------------------------------- MODULE MCHost -------------------------------
(***************************************************************************)
(* Host on small instances: callers are interchangeable, and so are        *)
(* environments and the names people give them.                            *)
(***************************************************************************)
EXTENDS Host, TLC

CONSTANTS c1, c2, e1, e2, n1, n2

TwoCallers == {c1, c2}
TwoEnvs == {e1, e2}
TwoNames == {n1, n2}
BothKinds == {"local", "docker"}
OnlyDocker == {"docker"}

Peers == Permutations(TwoCallers) \cup Permutations(TwoEnvs) \cup Permutations(TwoNames)
=============================================================================
