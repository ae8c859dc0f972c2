------------------------------ MODULE MCPrekeys ------------------------------
(***************************************************************************)
(* Prekeys for TLC: alice with two devices, bob with one.                  *)
(***************************************************************************)
EXTENDS Prekeys, TLC

CONSTANTS a1, a2, b1

OneEach == {a1, b1}
ThreeDevices == {a1, a2, b1}
MCAccount == [d \in ThreeDevices |-> IF d = b1 THEN "bob" ELSE "alice"]
AliceDevices == Permutations({a1, a2})
=============================================================================
