------------------------------ MODULE RtpUtils ------------------------------
(***************************************************************************)
(* Sequence numbers of RTP packets and their order                         *)
(* (licodecore/erizo/rtp/RtpUtils.cpp).  The width is a constant, 16 in    *)
(* the code, so that instances wrap around within a few packets.           *)
(***************************************************************************)
EXTENDS Integers

CONSTANT Bits  \* the width of a sequence number

ASSUME BitsAssumption == Bits \in Nat /\ Bits > 4

Modulus == 2 ^ Bits
Number  == 0 .. Modulus - 1

ASSUME ModulusAssumption == Modulus \in Nat \ {0}

\* What the proofs use of powers of two.
ASSUME PowerAssumption == 2 ^ (Bits - 4) \in Nat \ {0} /\ Modulus = 16 * 2 ^ (Bits - 4)

\* How far b is ahead of a.
Distance(a, b) == (b - a) % Modulus

\* sequenceNumberLessThan: a is behind b unless it is ahead of it by less
\* than a sixteenth of the range.
SequenceNumberLessThan(a, b) == Distance(b, a) > 2 ^ (Bits - 4) - 1
=============================================================================
