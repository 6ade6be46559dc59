----------------------------- MODULE MCKeeper -----------------------------
(***************************************************************************)
(* Values for checking Keeper.  Connections are interchangeable, so safety *)
(* runs take them as a symmetry set.                                       *)
(***************************************************************************)
EXTENDS Keeper, TLC

Symmetry == Permutations(Tasks)
=============================================================================
