------------------------------ MODULE MCRelay ------------------------------
(***************************************************************************)
(* The relay for TLC: alice with two devices writes to bob with one.  The  *)
(* requests cover a message copied to the sender's other device, a reply,  *)
(* a resend with another ciphertext, and a second device that reuses the   *)
(* logical id of the first.  Ciphertexts differ in size, and one alice     *)
(* message fits the account quota but not both of her messages at once.    *)
(***************************************************************************)
EXTENDS Relay

CONSTANTS alice, bob, a1, a2, b1, m1, m2, m3, e1, e2, e3, e4, short, long

MCAccount == {alice, bob}
MCDevice == {a1, a2, b1}
MCMessageId == {m1, m2, m3}
MCEnvelopeId == {e1, e2, e3, e4}
MCCiphertext == {short, long}
MCOwner == [d \in MCDevice |-> IF d = b1 THEN bob ELSE alice]
MCSize == [c \in MCCiphertext |-> IF c = short THEN 1 ELSE 2]

To(id, device, text) == [id |-> id, to |-> device, text |-> text]
Request(logical, from, entries) == [logical |-> logical, from |-> from, entries |-> entries]

MCBatch ==
    { Request(m1, a1, {To(e1, b1, long), To(e2, a2, short)}),
      Request(m1, a1, {To(e1, b1, short)}),
      Request(m1, a2, {To(e3, b1, short)}),
      Request(m2, b1, {To(e4, a1, short)}),
      Request(m3, a2, {To(e3, b1, short), To(e2, a1, short)}) }
=============================================================================
