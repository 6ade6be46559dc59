------------------------------ MODULE MCRelay ------------------------------
(* Instances of Relay for TLC.  Machines m1 and m2 enrol in the same place, *)
(* m3 under the same name for another account; u1 has no key.              *)
EXTENDS Relay, TLC

CONSTANTS m1, m2, m3, u1, c1, c2, c3, a, b, box

PlaceOf == [x \in Machines \cup Clients |-> IF x = m3 THEN <<b, box>> ELSE <<a, box>>]
KeyedOf == (Machines \cup Clients) \ {u1}

Interchangeable == Permutations(Clients) \cup Permutations(Machines \cap {m1, m2})
=============================================================================
