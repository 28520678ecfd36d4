------------------- MODULE RtcpFeedbackGenerationHandler -------------------
(***************************************************************************)
(* The handler that answers a publisher's video packets with receiver      *)
(* reports and requests for lost packets                                   *)
(* (licodecore/erizo/rtp/RtcpFeedbackGenerationHandler.cpp): a pair of     *)
(* generators per stream, here those of one video stream after             *)
(* notifyUpdate() has made them.                                           *)
(*                                                                         *)
(* The network loses, repeats, delays and reorders packets.  For the       *)
(* properties, packets are known by their place in the publisher's stream; *)
(* the code only sees that number modulo 2^Bits.                           *)
(***************************************************************************)
EXTENDS RtcpNackGenerator, RtcpRrGenerator, Bags

CONSTANTS
    First,       \* the sequence numbers a stream may begin with
    MaxAhead,    \* how far a packet may be ahead of the last in order,
    MaxBehind,   \*   and how far behind it
    MaxPackets,  \* bound: packets received
    MaxTime      \* bound: the clock stops here

ASSUME FeedbackAssumption ==
    /\ First \subseteq Number
    /\ MaxAhead \in 1 .. 2 ^ (Bits - 4) - 1
    /\ MaxBehind \in Nat
    /\ MaxBehind <= Modulus - 2 ^ (Bits - 4)
    /\ MaxPackets \in Nat
    /\ MaxTime \in Nat \ {0}

VARIABLES
    now,        \* clock_->now()
    nack,       \* the RtcpNackGenerator
    rr,         \* the RtcpRrGenerator
    first,      \* history: the place of the first packet
    top,        \* history: the highest place received
    got,        \* history: the places received
    asks,       \* history: the places asked for, a bag
    requested,  \* history: the places the last step asked for
    full,       \* history: the nack list has been cut at its limit
    interval    \* history: what the last report counted as expected and lost

history == <<first, top, got, asks, requested, full, interval>>
vars == <<now, nack, rr, history>>

Place == 0 .. Modulus + MaxPackets * MaxAhead

\* The place of number s at or below the place at, whose number is n.
PlaceOf(s, n, at) == at - Distance(s, n)

TypeOK ==
    /\ now \in 1 .. MaxTime
    /\ nack.highest \in Number
    /\ Len(nack.list) <= MaxNacks
    /\ \A i \in 1 .. Len(nack.list) :
         nack.list[i] \in [seq_num: Number, retransmits: 1 .. MaxRetransmits, sent_time: 1 .. MaxTime]
    /\ rr.lost \in Nat
    /\ rr.frac_lost \in 0 .. 255
    /\ got \subseteq Place
    /\ requested \subseteq Place

Init ==
    /\ now = 1
    /\ nack = NewNack
    /\ rr = NewRr
    /\ first \in First
    /\ top = first
    /\ got = {}
    /\ asks = EmptyBag
    /\ requested = {}
    /\ full = FALSE
    /\ interval = [expected |-> 0, lost |-> 0]

-----------------------------------------------------------------------------
\* The delays getRandomValue() may choose for the next report.
NextDelay == (Interval \div 2) .. (3 * Interval) \div 2

\* Whether read() answers a packet.
ShouldSend_OnlyReports(n, r, seq, t) == WantsRr(r, t)

ShouldSend(n, r, seq, t) == WantsRr(r, t) \/ WantsNack(n, seq)

\* Whether addNacks() has to cut the list.
Overfull(n, seq) == InOrder(n, seq) /\ Len(n.list \o Skipped(n, seq)) > MaxNacks

\* read() of the packet at place p.
Read(p) ==
    LET seq == p % Modulus
        n   == NackHandleRtpPacket(nack, seq)
        r   == RrHandleRtpPacket(rr, seq, now)
        reached == IF p > top THEN p ELSE top
        wanted  == {PlaceOf(s, n.highest, reached) : s \in Requested(NackBlocks(n.list, now))}
    IN  /\ rr.packets_received < MaxPackets
        /\ top' = reached
        /\ got' = got \cup {p}
        /\ full' = (full \/ Overfull(nack, seq))
        /\ IF ShouldSend(nack, rr, seq, now)
           THEN /\ \E delay \in NextDelay : rr' = GenerateReceiverReport(r, now, delay)
                /\ nack' = [n EXCEPT !.list = ListAfterReport(@, now)]
                /\ requested' = wanted
                /\ asks' = asks (+) SetToBag(wanted)
                /\ interval' = [expected |-> ExpectedInterval(r), lost |-> LostInterval(r)]
           ELSE /\ rr' = r
                /\ nack' = n
                /\ requested' = {}
                /\ UNCHANGED <<asks, interval>>
        /\ UNCHANGED <<now, first>>

\* A packet arrives, in order, after a loss, late or for the second time.
Receive ==
    IF got = {}
    THEN Read(first)
    ELSE \E p \in top - MaxBehind .. top + MaxAhead : p >= 0 /\ Read(p)

Tick ==
    /\ now < MaxTime
    /\ now' = now + 1
    /\ requested' = {}
    /\ UNCHANGED <<nack, rr, first, top, got, asks, full, interval>>

Next == Receive \/ Tick

Spec == Init /\ [][Next]_vars

-----------------------------------------------------------------------------
\* No packet that has been received is asked for again, although the report
\* packs the numbers into masks and they wrap around.
NackOnlyMissing == requested \cap got = {}

\* No packet is asked for more than kMaxRetransmits times.
AskLimit == \A p \in BagToSet(asks) : asks[p] <= MaxRetransmits

\* A loss is asked for in the step that detects it: read() sends a report for
\* it even if no report is due.  Only a list at its limit drops losses.
EveryLossAsked ==
    ~full => \A p \in first + 1 .. top : p \in got \/ BagIn(p, asks)

\* The extended sequence number of the reports and the highest number of the
\* nack list follow the stream across the wrap-around.
WrapCounted ==
    got # {} => ExtendedSeq(rr) = top /\ nack.highest = top % Modulus

\* The packets reported lost are at least those that are missing on balance
\* and at most all that were expected.
LossBounds ==
    /\ rr.expected_prior - rr.received_prior <= rr.lost
    /\ rr.lost <= rr.expected_prior

\* The fraction lost of a report is that of its interval, although 256/256
\* would not fit into its byte: a report always counts the packet it answers.
FractionExact ==
    interval.lost > 0 =>
        /\ rr.frac_lost * interval.expected <= 256 * interval.lost
        /\ 256 * interval.lost < (rr.frac_lost + 1) * interval.expected
=============================================================================
