-------------------------- MODULE RtcpRrGenerator --------------------------
(***************************************************************************)
(* The counters of receiver reports                                        *)
(* (licodecore/erizo/rtp/RtcpRrGenerator.cpp): operators on the state of   *)
(* one generator, a record named for rr_info_.  Jitter and the times of    *)
(* sender reports are copied into the reports and left out.                *)
(***************************************************************************)
EXTENDS RtpUtils

CONSTANT Interval  \* selectInterval(), in ticks

ASSUME RrAssumption == Interval \in Nat \ {0}

NewRr == [packets_received |-> 0, base_seq |-> -1, max_seq |-> -1, cycle |-> 0,
          lost |-> 0, expected_prior |-> 0, received_prior |-> 0, frac_lost |-> 0,
          next_packet |-> 0]

\* extended_seq
ExtendedSeq(r) == r.cycle * Modulus + r.max_seq

-----------------------------------------------------------------------------
\* Whether packet seq begins another cycle of the numbers.
NewCycle_AtLast(r, seq) == r.max_seq = Modulus - 1 /\ seq = 0

NewCycle(r, seq) == ~SequenceNumberLessThan(seq, r.max_seq) /\ seq < r.max_seq

\* handleRtpPacket(): the counters after packet seq, ...
RrHandleRtpPacket(r, seq, now) ==
    LET late == r.max_seq # -1 /\ SequenceNumberLessThan(seq, r.max_seq)
    IN  [r EXCEPT
            !.packets_received = @ + 1,
            !.base_seq = IF @ = -1 THEN seq ELSE @,
            !.cycle = IF r.max_seq # -1 /\ NewCycle(r, seq) THEN @ + 1 ELSE @,
            !.max_seq = IF late THEN @ ELSE seq,
            !.next_packet = IF @ = 0 THEN now + Interval ELSE @]

\* ... and its answer.
WantsRr(r, now) == r.next_packet # 0 /\ now >= r.next_packet

\* The intervals of a report: what should have come since the last one, what
\* has come, and what is missing (negative when late packets came).
Expected(r)         == ExtendedSeq(r) - r.base_seq + 1
ExpectedInterval(r) == Expected(r) - r.expected_prior
ReceivedInterval(r) == r.packets_received - r.received_prior
LostInterval(r)     == ExpectedInterval(r) - ReceivedInterval(r)

\* fraction, 8 bits.
Fraction_OfAll(r) ==
    IF ExpectedInterval(r) # 0 /\ LostInterval(r) > 0
    THEN ((LostInterval(r) * 256) \div Expected(r)) % 256
    ELSE 0

Fraction(r) ==
    IF ExpectedInterval(r) # 0 /\ LostInterval(r) > 0
    THEN ((LostInterval(r) * 256) \div ExpectedInterval(r)) % 256
    ELSE 0

\* generateReceiverReport(), with the random delay of the next one.
GenerateReceiverReport_PriorKept(r, now, delay) ==
    [r EXCEPT
        !.received_prior = r.packets_received,
        !.lost = IF LostInterval(r) > 0 THEN @ + LostInterval(r) ELSE @,
        !.frac_lost = Fraction(r),
        !.next_packet = now + delay]

GenerateReceiverReport(r, now, delay) ==
    [r EXCEPT
        !.expected_prior = Expected(r),
        !.received_prior = r.packets_received,
        !.lost = IF LostInterval(r) > 0 THEN @ + LostInterval(r) ELSE @,
        !.frac_lost = Fraction(r),
        !.next_packet = now + delay]
=============================================================================
