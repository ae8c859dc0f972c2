----------------------------- MODULE MCSessions -----------------------------
(* Instances of Sessions for TLC: up to three connections from two addresses,  *)
(* two devices of one account, one command of the administrator.               *)
EXTENDS Sessions, TLC

CONSTANTS c1, c2, c3, d1, d2, i1, i2

Three == {c1, c2, c3}
Two == {c1, c2}
TwoAddresses == (c1 :> i1) @@ (c2 :> i1) @@ (c3 :> i2)
OneAddress == (c1 :> i1) @@ (c2 :> i1)
Neighbours == Permutations({c1, c2})
Interchangeable == Neighbours \cup Permutations({d1, d2})
=============================================================================
