---------------------------- MODULE MCConversations ----------------------------
(* Instances of Conversations for TLC: alice with two devices, bob with one. *)
EXTENDS Conversations, TLC

CONSTANTS a1, a2, b1

MCDevice == {a1, a2, b1}
MCAccount == [d \in MCDevice |-> IF d = b1 THEN "bob" ELSE "alice"]
AliceDevices == Permutations({a1, a2})

=============================================================================
