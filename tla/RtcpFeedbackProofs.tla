------------------------- MODULE RtcpFeedbackProofs -------------------------
(***************************************************************************)
(* Proofs about RtcpFeedbackGenerationHandler, for every width, interval   *)
(* and bound, whatever the network does: first the receiver reports, then  *)
(* the requests for lost packets.                                          *)
(***************************************************************************)
EXTENDS RtcpFeedbackGenerationHandler, NumberLemmas, SequenceTheorems

RrRecord == [packets_received: Nat, base_seq: Int, max_seq: Int, cycle: Nat, lost: Int,
             expected_prior: Int, received_prior: Nat, frac_lost: Int, next_packet: Int]

\* The counters of a generator fit together: nothing is counted before the
\* first packet, and after it the expected packets only grow.
Counters(r) ==
    /\ r \in RrRecord
    /\ r.received_prior <= r.packets_received
    /\ r.base_seq = -1 => r.expected_prior = 0 /\ r.max_seq = -1 /\ r.cycle = 0
    /\ r.base_seq # -1 => r.max_seq \in Number /\ r.expected_prior <= Expected(r)
    /\ r.expected_prior - r.received_prior <= r.lost
    /\ r.lost <= r.expected_prior

Inv ==
    /\ first \in Number /\ top \in Nat /\ now \in Nat
    /\ Counters(rr)

-----------------------------------------------------------------------------
\* A packet is counted, and the expected packets do not go down, across the
\* wrap-around or not (RtcpRrGenerator::handleRtpPacket).
LEMMA HandleKeeps ==
    ASSUME NEW r, Counters(r), NEW seq \in Number, NEW t \in Nat
    PROVE  LET s == RrHandleRtpPacket(r, seq, t) IN
           /\ Counters(s)
           /\ s.base_seq # -1
           /\ s.packets_received = r.packets_received + 1
           /\ s.received_prior = r.received_prior
<1> DEFINE s == RrHandleRtpPacket(r, seq, t)
           late == r.max_seq # -1 /\ SequenceNumberLessThan(seq, r.max_seq)
           wrap == r.max_seq # -1 /\ NewCycle(r, seq)
<1>1. Modulus \in Nat /\ Modulus > 0 /\ Number = 0 .. Modulus - 1
  BY ModulusAssumption DEF Number
<1>2. /\ r.packets_received \in Nat /\ r.base_seq \in Int /\ r.max_seq \in Int
      /\ r.cycle \in Nat /\ r.lost \in Int /\ r.expected_prior \in Int
      /\ r.received_prior \in Nat /\ r.frac_lost \in Int /\ r.next_packet \in Int
      /\ r \in RrRecord
  BY DEF Counters, RrRecord
<1>3. /\ s.packets_received = r.packets_received + 1
      /\ s.base_seq = IF r.base_seq = -1 THEN seq ELSE r.base_seq
      /\ s.cycle = IF wrap THEN r.cycle + 1 ELSE r.cycle
      /\ s.max_seq = IF late THEN r.max_seq ELSE seq
      /\ s.lost = r.lost /\ s.expected_prior = r.expected_prior
      /\ s.received_prior = r.received_prior /\ s.frac_lost = r.frac_lost
      /\ s.next_packet = IF r.next_packet = 0 THEN t + Interval ELSE r.next_packet
  BY <1>2 DEF RrHandleRtpPacket, RrRecord
<1>4. s \in RrRecord
  <2>1. \A a \in Nat, b \in Int, c \in Nat, d \in Int, e \in Int :
          [r EXCEPT !.packets_received = a, !.base_seq = b, !.cycle = c, !.max_seq = d,
                    !.next_packet = e] \in RrRecord
    BY <1>2 DEF RrRecord
  <2>2. /\ r.packets_received + 1 \in Nat
        /\ (IF r.base_seq = -1 THEN seq ELSE r.base_seq) \in Int
        /\ (IF wrap THEN r.cycle + 1 ELSE r.cycle) \in Nat
        /\ (IF late THEN r.max_seq ELSE seq) \in Int
        /\ (IF r.next_packet = 0 THEN t + Interval ELSE r.next_packet) \in Int
    BY <1>1, <1>2, RrAssumption DEF RrAssumption
  <2> QED
    BY <2>1, <2>2 DEF RrHandleRtpPacket
<1>5. s.base_seq # -1 /\ s.max_seq \in Number
  BY <1>1, <1>2, <1>3 DEF Counters
<1>6. s.expected_prior <= Expected(s)
  <2>1. CASE r.base_seq = -1
    <3>1. s.cycle = 0 /\ s.max_seq = seq /\ s.base_seq = seq /\ s.expected_prior = 0
      BY <2>1, <1>3 DEF Counters
    <3>2. 0 * Modulus = 0
      BY <1>1
    <3> QED
      BY <3>1, <3>2, <1>1 DEF Expected, ExtendedSeq
  <2>2. CASE r.base_seq # -1
    <3>1. /\ s.base_seq = r.base_seq /\ s.expected_prior = r.expected_prior
          /\ r.max_seq \in Number /\ r.expected_prior <= Expected(r)
      BY <2>2, <1>3 DEF Counters
    <3>2. r.cycle * Modulus \in Int /\ (r.cycle + 1) * Modulus = r.cycle * Modulus + Modulus
      BY <1>1, <1>2
    <3>3. ExtendedSeq(r) <= ExtendedSeq(s)
      <4>1. CASE late
        BY <4>1, <1>1, <1>2, <1>3, <3>1, <3>2 DEF ExtendedSeq, NewCycle
      <4>2. CASE ~late /\ wrap
        BY <4>2, <1>1, <1>2, <1>3, <3>1, <3>2 DEF ExtendedSeq
      <4>3. CASE ~late /\ ~wrap
        <5>1. seq >= r.max_seq
          BY <4>3, <1>1, <3>1 DEF NewCycle
        <5> QED
          BY <4>3, <5>1, <1>1, <1>2, <1>3, <3>1, <3>2 DEF ExtendedSeq
      <4> QED
        BY <4>1, <4>2, <4>3
    <3>4. ExtendedSeq(r) \in Int /\ ExtendedSeq(s) \in Int
      <4>1. s.cycle \in Nat /\ s.max_seq \in Int /\ s.cycle * Modulus \in Int
        BY <1>1, <1>4 DEF RrRecord
      <4> QED
        BY <4>1, <1>2, <3>2 DEF ExtendedSeq
    <3> QED
      BY <3>1, <3>3, <3>4, <1>2 DEF Expected
  <2> QED
    BY <2>1, <2>2
<1> QED
  BY <1>2, <1>3, <1>4, <1>5, <1>6 DEF Counters

\* The fraction of an interval that lost some but not all packets fits into
\* its byte and is rounded down (RtcpRrGenerator::generateReceiverReport).
LEMMA FractionLemma ==
    ASSUME NEW l \in Nat, NEW e \in Nat, 0 < l, l < e
    PROVE  LET f == ((l * 256) \div e) % 256 IN
           f \in Int /\ f * e <= 256 * l /\ 256 * l < (f + 1) * e
<1> DEFINE q == (l * 256) \div e
<1>1. q \in Int /\ q * e <= l * 256 /\ l * 256 < (q + 1) * e
  BY Z3
<1>2. 0 <= q
  <2>1. ASSUME q < 0 PROVE FALSE
    <3>1. (q + 1) * e <= 0
      BY <2>1, <1>1
    <3> QED
      BY <3>1, <1>1
  <2> QED
    BY <2>1, <1>1
<1>3. q < 256
  <2>1. ASSUME q >= 256 PROVE FALSE
    <3>1. q * e >= 256 * e
      BY <2>1, <1>1
    <3> QED
      BY <3>1, <1>1
  <2> QED
    BY <2>1, <1>1
<1>4. q % 256 = q
  BY <1>1, <1>2, <1>3
<1> QED
  BY <1>1, <1>4

\* A report keeps the bounds on the loss (RtcpRrGenerator::generateReceiverReport).
LEMMA ReportKeeps ==
    ASSUME NEW r, Counters(r), r.base_seq # -1, r.received_prior < r.packets_received,
           NEW t \in Nat, NEW delay \in Int
    PROVE  LET s == GenerateReceiverReport(r, t, delay) IN
           /\ Counters(s)
           /\ LostInterval(r) > 0 =>
                /\ LostInterval(r) \in Int /\ ExpectedInterval(r) \in Int
                /\ s.frac_lost * ExpectedInterval(r) <= 256 * LostInterval(r)
                /\ 256 * LostInterval(r) < (s.frac_lost + 1) * ExpectedInterval(r)
<1> DEFINE s == GenerateReceiverReport(r, t, delay)
           e == ExpectedInterval(r)
           l == LostInterval(r)
<1>1. /\ r.packets_received \in Nat /\ r.base_seq \in Int /\ r.max_seq \in Int
      /\ r.cycle \in Nat /\ r.lost \in Int /\ r.expected_prior \in Int
      /\ r.received_prior \in Nat /\ r.frac_lost \in Int
      /\ r \in RrRecord /\ r.expected_prior <= Expected(r)
      /\ r.expected_prior - r.received_prior <= r.lost /\ r.lost <= r.expected_prior
  BY DEF Counters, RrRecord
<1>2. Expected(r) \in Int
  <2>1. r.cycle * Modulus \in Int
    BY <1>1, ModulusAssumption
  <2> QED
    BY <2>1, <1>1 DEF Expected, ExtendedSeq
<1>3. /\ e = Expected(r) - r.expected_prior /\ e \in Nat
      /\ l = e - (r.packets_received - r.received_prior) /\ l \in Int /\ l < e
  BY <1>1, <1>2 DEF ExpectedInterval, LostInterval, ReceivedInterval
<1>4. l > 0 => /\ Fraction(r) \in Int /\ Fraction(r) * e <= 256 * l
               /\ 256 * l < (Fraction(r) + 1) * e
  BY <1>3, FractionLemma DEF Fraction
<1>5. Fraction(r) \in Int
  BY <1>4, <1>3 DEF Fraction
<1>6. /\ s.packets_received = r.packets_received /\ s.base_seq = r.base_seq
      /\ s.max_seq = r.max_seq /\ s.cycle = r.cycle
      /\ s.expected_prior = Expected(r) /\ s.received_prior = r.packets_received
      /\ s.lost = IF l > 0 THEN r.lost + l ELSE r.lost
      /\ s.frac_lost = Fraction(r)
  BY <1>1 DEF GenerateReceiverReport, RrRecord
<1>7. s \in RrRecord
  <2>1. \A a \in Int, b \in Nat, c \in Int, d \in Int, f \in Int :
          [r EXCEPT !.expected_prior = a, !.received_prior = b, !.lost = c, !.frac_lost = d,
                    !.next_packet = f] \in RrRecord
    BY <1>1 DEF RrRecord
  <2>2. (IF l > 0 THEN r.lost + l ELSE r.lost) \in Int /\ t + delay \in Int
    BY <1>1, <1>3
  <2> QED
    BY <2>1, <2>2, <1>1, <1>2, <1>5 DEF GenerateReceiverReport
<1>8. Expected(s) = Expected(r)
  BY <1>6 DEF Expected, ExtendedSeq
<1>9. r.max_seq \in Number
  BY DEF Counters
<1>10. Counters(s)
  BY <1>1, <1>2, <1>3, <1>6, <1>7, <1>8, <1>9 DEF Counters
<1> QED
  BY <1>3, <1>4, <1>6, <1>10

-----------------------------------------------------------------------------
\* The state before the first packet.
LEMMA InitInv == Init => Inv /\ FractionExact
<1> SUFFICES ASSUME Init PROVE Inv /\ FractionExact
  OBVIOUS
<1>1. rr \in RrRecord /\ first \in Number /\ top \in Nat /\ now \in Nat
  BY FeedbackAssumption, ModulusAssumption DEF Init, NewRr, RrRecord, FeedbackAssumption, Number
<1> QED
  BY <1>1 DEF Init, NewRr, Inv, Counters, FractionExact

\* The step of every packet and of the clock.
LEMMA StepInv == Inv /\ FractionExact /\ [Next]_vars => Inv' /\ FractionExact'
<1> SUFFICES ASSUME Inv, FractionExact, [Next]_vars PROVE Inv' /\ FractionExact'
  OBVIOUS
<1>1. ASSUME NEW p \in Nat, Read(p) PROVE Inv' /\ FractionExact'
  <2> DEFINE seq == p % Modulus
             r == RrHandleRtpPacket(rr, seq, now)
  <2>1. seq \in Number
    BY ModulusAssumption DEF Number
  <2>2. /\ Counters(r) /\ r.base_seq # -1 /\ r.packets_received = rr.packets_received + 1
        /\ r.received_prior = rr.received_prior
    BY <2>1, HandleKeeps DEF Inv
  <2>3. r.received_prior < r.packets_received
    <3>1. /\ rr.received_prior \in Nat /\ rr.packets_received \in Nat
          /\ rr.received_prior <= rr.packets_received
      BY DEF Inv, Counters, RrRecord
    <3> QED
      BY <3>1, <2>2
  <2>4. /\ top' = (IF p > top THEN p ELSE top) /\ now' = now /\ first' = first
    BY <1>1 DEF Read
  <2>5. CASE ShouldSend(nack, rr, seq, now)
    <3>1. PICK delay \in NextDelay : rr' = GenerateReceiverReport(r, now, delay)
      BY <1>1, <2>5 DEF Read
    <3>2. interval' = [expected |-> ExpectedInterval(r), lost |-> LostInterval(r)]
      BY <1>1, <2>5 DEF Read
    <3>3. delay \in Int
      BY <3>1, RrAssumption DEF NextDelay, RrAssumption
    <3> QED
      BY <2>2, <2>3, <2>4, <3>1, <3>2, <3>3, ReportKeeps DEF Inv, FractionExact
  <2>6. CASE ~ShouldSend(nack, rr, seq, now)
    <3>1. rr' = r /\ interval' = interval
      BY <1>1, <2>6 DEF Read
    <3>2. r.frac_lost = rr.frac_lost
      BY DEF RrHandleRtpPacket, Inv, Counters, RrRecord
    <3> QED
      BY <2>2, <2>4, <3>1, <3>2 DEF Inv, FractionExact
  <2> QED
    BY <2>5, <2>6
<1>2. CASE Receive
  <2>1. CASE got = {}
    <3>1. first \in Nat
      BY ModulusAssumption DEF Inv, Number
    <3> QED
      BY <1>1, <1>2, <2>1, <3>1 DEF Receive
  <2>2. CASE got # {}
    <3>1. PICK p \in top - MaxBehind .. top + MaxAhead : p >= 0 /\ Read(p)
      BY <1>2, <2>2 DEF Receive
    <3>2. p \in Nat
      BY <3>1, FeedbackAssumption DEF FeedbackAssumption, Inv
    <3> QED
      BY <3>1, <3>2, <1>1
  <2> QED
    BY <2>1, <2>2
<1>3. CASE Tick
  BY <1>3 DEF Tick, Inv, FractionExact
<1>4. CASE UNCHANGED vars
  BY <1>4 DEF vars, history, Inv, FractionExact
<1> QED
  BY <1>2, <1>3, <1>4 DEF Next

\* The packets reported lost stay within their bounds for every stream, width
\* and interval (RtcpRrGenerator::generateReceiverReport).
THEOREM LossBoundsTheorem == Spec => []LossBounds
<1>1. Inv => LossBounds
  BY DEF Inv, Counters, LossBounds
<1> QED
  BY <1>1, InitInv, StepInv, PTL DEF Spec

\* The 8-bit fraction of a report is exact for every stream: it never
\* overflows (RtcpRrGenerator::generateReceiverReport).
THEOREM FractionExactTheorem == Spec => []FractionExact
<1> QED
  BY InitInv, StepInv, PTL DEF Spec
-----------------------------------------------------------------------------
\* What counts as ahead: a sixteenth of the range.
Sixteenth == 2 ^ (Bits - 4)

\* The constants.
LEMMA Ranges ==
    /\ Modulus \in Nat \ {0} /\ Sixteenth \in Nat \ {0} /\ Modulus = 16 * Sixteenth
    /\ MaxAhead \in Nat \ {0} /\ MaxAhead < Sixteenth
    /\ MaxBehind \in Nat /\ MaxBehind <= Modulus - Sixteenth
    /\ MaxPackets \in Nat /\ MaxTime \in Nat \ {0}
    /\ MaxRetransmits \in Nat \ {0} /\ MaxNacks \in Nat \ {0}
<1>1. Sixteenth \in Nat \ {0} /\ Modulus = 16 * Sixteenth /\ Modulus \in Nat \ {0}
  BY PowerAssumption, ModulusAssumption DEF PowerAssumption, ModulusAssumption, Sixteenth
<1>2. MaxAhead \in 1 .. Sixteenth - 1 /\ MaxBehind \in Nat /\ MaxBehind <= Modulus - Sixteenth
  BY FeedbackAssumption DEF FeedbackAssumption, Sixteenth
<1>3. MaxPackets \in Nat /\ MaxTime \in Nat \ {0}
  BY FeedbackAssumption DEF FeedbackAssumption
<1> QED
  BY <1>1, <1>2, <1>3, NackAssumption DEF NackAssumption

\* The comparison of two numbers is that of their places, when these are not
\* too far apart (RtpUtils::sequenceNumberLessThan).
LEMMA BehindPlaces ==
    ASSUME NEW p \in Int, NEW q \in Int, p - q < Sixteenth, q - p <= Modulus - Sixteenth
    PROVE  SequenceNumberLessThan(p % Modulus, q % Modulus) <=> p < q
<1>0. Modulus \in Nat \ {0}
  BY Ranges
<1>1. ((p % Modulus) - (q % Modulus)) % Modulus = (p - q) % Modulus
  BY <1>0, ModDiff
<1>2. (p - q) % Modulus = IF p - q >= 0 THEN p - q ELSE p - q + Modulus
  <2>1. p - q \in Int /\ -Modulus <= p - q /\ p - q < Modulus
    BY Ranges
  <2> QED
    BY <1>0, <2>1, ModSmall
<1>3. SequenceNumberLessThan(p % Modulus, q % Modulus) <=> (p - q) % Modulus > Sixteenth - 1
  BY <1>1 DEF SequenceNumberLessThan, Distance, Sixteenth
<1> QED
  BY <1>2, <1>3, Ranges

-----------------------------------------------------------------------------
\* The entries of the list: those asked for at least once, and those just added.
Sent  == [seq_num: Number, retransmits: 1 .. MaxRetransmits, sent_time: 1 .. MaxTime]
Fresh == {NackInfo(s) : s \in Number}
Entry == Sent \cup Fresh

Block == [pid: Number, blp: SUBSET Int]

\* The blocks name number s.
Named(blocks, s) ==
    \E i \in 1 .. Len(blocks) : s = blocks[i].pid \/ \E k \in blocks[i].blp : s = (blocks[i].pid + 1 + k) % Modulus

\* No two entries have the same number.
Distinct(list) ==
    \A i, j \in 1 .. Len(list) : list[i].seq_num = list[j].seq_num => i = j

\* What a report makes of an entry it keeps.
After(e, t) == IF Asked(e, t) THEN Stamped(e, t) ELSE e

\* What l keeps of the first i entries of the list.
Kept(l, list, i, t) ==
    /\ l \in Seq(Sent) /\ Len(l) <= i
    /\ \A k \in 1 .. Len(l) : \E j \in 1 .. i : ~Erased(list[j], t) /\ l[k] = After(list[j], t)
    /\ Distinct(list) => Distinct(l)

\* The blocks ask for the first i entries of the list, those that are due.
Packed(blocks, list, i, t) ==
    \A s \in Number : Named(blocks, s) <=> \E j \in 1 .. i : Asked(list[j], t) /\ s = list[j].seq_num

\* What addNackPacketToRr() has done after the first i entries.
Visited(acc, list, i, t) ==
    /\ acc.blocks \in Seq(Block) /\ acc.open \in BOOLEAN /\ (acc.open => Len(acc.blocks) > 0)
    /\ Packed(acc.blocks, list, i, t)
    /\ Kept(acc.list, list, i, t)

\* The parts of an entry.
LEMMA EntryParts ==
    ASSUME NEW e \in Entry
    PROVE  /\ e.seq_num \in Number /\ e.retransmits \in 0 .. MaxRetransmits /\ e.sent_time \in 0 .. MaxTime
           /\ e.sent_time # 0 => e \in Sent
           /\ e.sent_time = 0 => e.retransmits = 0
<1>1. CASE e \in Sent
  BY <1>1, Ranges DEF Sent
<1>2. CASE e \in Fresh
  BY <1>2, Ranges DEF Fresh, NackInfo
<1> QED
  BY <1>1, <1>2 DEF Entry

\* An entry that is kept has been asked for.
LEMMA AfterSent ==
    ASSUME NEW e \in Entry, NEW t \in 1 .. MaxTime, ~Erased(e, t)
    PROVE  /\ After(e, t) \in Sent /\ After(e, t).seq_num = e.seq_num
           /\ After(e, t).retransmits = IF Asked(e, t) THEN e.retransmits + 1 ELSE e.retransmits
<1>1. CASE Asked(e, t)
  <2>1. e.retransmits \in Nat /\ e.retransmits < MaxRetransmits /\ e.seq_num \in Number
    BY <1>1, EntryParts, Ranges DEF Asked, Exhausted
  <2>2. e.retransmits + 1 \in 1 .. MaxRetransmits
    BY <2>1, Ranges
  <2>3. e \in [seq_num: Number, retransmits: Int, sent_time: Int]
    BY Ranges DEF Entry, Sent, Fresh, NackInfo
  <2>4. \A v \in 1 .. MaxRetransmits :
          LET f == [e EXCEPT !.sent_time = t, !.retransmits = v] IN
          f \in Sent /\ f.seq_num = e.seq_num /\ f.retransmits = v
    BY <2>1, <2>3 DEF Sent
  <2> QED
    BY <1>1, <2>2, <2>4 DEF After, Stamped
<1>2. CASE ~Asked(e, t)
  <2>1. ~IsTimeToRetransmit(e, t)
    BY <1>2 DEF Asked, Erased
  <2>2. e.sent_time # 0
    BY <2>1 DEF IsTimeToRetransmit
  <2> QED
    BY <1>2, <2>2, EntryParts DEF After
<1> QED
  BY <1>1, <1>2

\* A bit of a mask stands for the number it was made from.
LEMMA BitNumber ==
    ASSUME NEW s \in Number, NEW p \in Number
    PROVE  LET k == (s - p - 1) % Modulus IN k \in Int /\ (p + 1 + k) % Modulus = s
<1>1. Modulus \in Nat \ {0} /\ s \in Int /\ p \in Int /\ s \in 0 .. Modulus - 1
  BY Ranges DEF Number
<1>2. PICK d \in Int, u \in Int : d = p + 1 /\ u = s - p - 1
  BY <1>1
<1>3. ((u % Modulus) + d) % Modulus = (u + d) % Modulus
  BY <1>1, ModSum
<1>4. u % Modulus \in Int
  BY <1>1, ModDef
<1>5. p + 1 + (u % Modulus) = (u % Modulus) + d /\ u + d = s
  BY <1>1, <1>2, <1>4
<1>6. s % Modulus = s
  <2>1. -Modulus <= s /\ s < Modulus /\ s >= 0
    BY <1>1
  <2> QED
    BY <1>1, <2>1, ModSmall
<1> QED
  BY <1>2, <1>3, <1>4, <1>5, <1>6

\* A new block adds the number of its pid.
LEMMA NamedAppend ==
    ASSUME NEW blocks \in Seq(Block), NEW p \in Number, NEW s \in Number
    PROVE  LET new == Append(blocks, [pid |-> p, blp |-> {}]) IN
           new \in Seq(Block) /\ Len(new) > 0 /\ (Named(new, s) <=> Named(blocks, s) \/ s = p)
<1> DEFINE b == [pid |-> p, blp |-> {}]
           new == Append(blocks, b)
<1>1. b \in Block /\ b.pid = p /\ b.blp = {}
  BY DEF Block
<1> HIDE DEF b
<1>2. /\ new \in Seq(Block) /\ Len(new) = Len(blocks) + 1 /\ Len(blocks) \in Nat
      /\ \A i \in 1 .. Len(blocks) : new[i] = blocks[i]
      /\ new[Len(blocks) + 1] = b
  BY <1>1
<1> HIDE DEF new
<1>3. Named(new, s) => Named(blocks, s) \/ s = p
  <2> SUFFICES ASSUME NEW i \in 1 .. Len(new),
                      s = new[i].pid \/ \E k \in new[i].blp : s = (new[i].pid + 1 + k) % Modulus
               PROVE  Named(blocks, s) \/ s = p
    BY DEF Named
  <2>1. CASE i = Len(blocks) + 1
    BY <1>1, <1>2, <2>1
  <2>2. CASE i \in 1 .. Len(blocks)
    BY <1>2, <2>2 DEF Named
  <2> QED
    BY <1>2, <2>1, <2>2
<1>4. Named(blocks, s) => Named(new, s)
  <2>1. 1 .. Len(blocks) \subseteq 1 .. Len(new)
    BY <1>2
  <2> QED
    BY <1>2, <2>1 DEF Named
<1>5. s = p => Named(new, s)
  <2>1. Len(blocks) + 1 \in 1 .. Len(new)
    BY <1>2
  <2> QED
    BY <1>1, <1>2, <2>1 DEF Named
<1> QED
  BY <1>2, <1>3, <1>4, <1>5 DEF new, b

\* A bit added to the last block adds the number it stands for.
LEMMA NamedBit ==
    ASSUME NEW blocks \in Seq(Block), Len(blocks) > 0, NEW bit \in Int, NEW s \in Number
    PROVE  LET new == [blocks EXCEPT ![Len(blocks)].blp = @ \cup {bit}] IN
           /\ new \in Seq(Block) /\ Len(new) > 0
           /\ Named(new, s) <=> Named(blocks, s) \/ s = (Last(blocks).pid + 1 + bit) % Modulus
<1> DEFINE last == blocks[Len(blocks)]
           b == [last EXCEPT !.blp = @ \cup {bit}]
           new == [blocks EXCEPT ![Len(blocks)].blp = @ \cup {bit}]
<1>1. last \in Block /\ Len(blocks) \in 1 .. Len(blocks)
  OBVIOUS
<1>2. b \in Block /\ b.pid = last.pid /\ b.blp = last.blp \cup {bit}
  BY <1>1 DEF Block
<1>3. new = [blocks EXCEPT ![Len(blocks)] = b]
  OBVIOUS
<1> HIDE DEF b
<1>4. /\ new \in Seq(Block) /\ Len(new) = Len(blocks) /\ Len(blocks) \in Nat
      /\ \A i \in 1 .. Len(blocks) : new[i] = IF i = Len(blocks) THEN b ELSE blocks[i]
  <2>1. PICK m \in 1 .. Len(blocks) : m = Len(blocks)
    BY <1>1
  <2>2. /\ [blocks EXCEPT ![m] = b] \in Seq(Block) /\ Len([blocks EXCEPT ![m] = b]) = Len(blocks)
        /\ \A i \in 1 .. Len(blocks) : [blocks EXCEPT ![m] = b][i] = IF i = m THEN b ELSE blocks[i]
    BY <1>2, ExceptSeq
  <2>3. new = [blocks EXCEPT ![m] = b] /\ Len(blocks) \in Nat
    BY <1>3, <2>1
  <2> HIDE DEF new
  <2> QED
    BY <2>1, <2>2, <2>3
<1> HIDE DEF new, last
<1>5. ASSUME Named(new, s) PROVE Named(blocks, s) \/ s = (last.pid + 1 + bit) % Modulus
  <2>1. PICK i \in 1 .. Len(blocks) :
          s = new[i].pid \/ \E k \in new[i].blp : s = (new[i].pid + 1 + k) % Modulus
    BY <1>4, <1>5 DEF Named
  <2>2. CASE i = Len(blocks)
    BY <1>1, <1>2, <1>4, <2>1, <2>2 DEF Named, last
  <2>3. CASE i # Len(blocks)
    BY <1>4, <2>1, <2>3 DEF Named
  <2> QED
    BY <2>2, <2>3
<1>6. ASSUME Named(blocks, s) PROVE Named(new, s)
  <2>1. PICK i \in 1 .. Len(blocks) :
          s = blocks[i].pid \/ \E k \in blocks[i].blp : s = (blocks[i].pid + 1 + k) % Modulus
    BY <1>6 DEF Named
  <2>2. new[i].pid = blocks[i].pid /\ blocks[i].blp \subseteq new[i].blp
    BY <1>2, <1>4 DEF last
  <2> QED
    BY <1>4, <2>1, <2>2 DEF Named
<1>7. s = (last.pid + 1 + bit) % Modulus => Named(new, s)
  BY <1>1, <1>2, <1>4 DEF Named
<1> QED
  BY <1>4, <1>5, <1>6, <1>7 DEF new, last, Last

\* One more entry of the list is kept, or none.
LEMMA KeptStep ==
    ASSUME NEW list \in Seq(Entry), NEW i \in Nat, i < Len(list), NEW t \in 1 .. MaxTime,
           NEW l, Kept(l, list, i, t), NEW m \in Nat, m = i + 1,
           NEW new, new = IF Erased(list[m], t) THEN l ELSE Append(l, After(list[m], t))
    PROVE  Kept(new, list, m, t)
<1>0. /\ l \in Seq(Sent) /\ Len(l) <= i /\ (Distinct(list) => Distinct(l))
      /\ \A k \in 1 .. Len(l) : \E j \in 1 .. i : ~Erased(list[j], t) /\ l[k] = After(list[j], t)
  BY DEF Kept
<1>1. m \in 1 .. Len(list) /\ i < m
  OBVIOUS
<1>2. \A j \in 1 .. m : j \in 1 .. i \/ j = m
  BY <1>1
<1>3. 1 .. i \subseteq 1 .. m /\ m \in 1 .. m /\ \A j \in 1 .. m : list[j] \in Entry
  BY <1>1
<1>4. CASE Erased(list[m], t)
  <2>1. new = l
    BY <1>4
  <2>2. Len(l) <= m
    BY <1>0, <1>1
  <2> QED
    BY <1>0, <1>3, <2>1, <2>2 DEF Kept
<1>5. CASE ~Erased(list[m], t)
  <2> DEFINE a == After(list[m], t)
  <2>1. a \in Sent /\ a.seq_num = list[m].seq_num
    BY <1>3, <1>5, AfterSent
  <2> HIDE DEF a
  <2>2. new = Append(l, a)
    BY <1>5 DEF a
  <2>3. /\ new \in Seq(Sent) /\ Len(new) = Len(l) + 1 /\ Len(l) \in Nat
        /\ \A k \in 1 .. Len(l) : new[k] = l[k]
        /\ new[Len(l) + 1] = a
    BY <1>0, <2>1, <2>2
  <2>4. ASSUME NEW k \in 1 .. Len(new)
        PROVE  \E j \in 1 .. m : ~Erased(list[j], t) /\ new[k] = After(list[j], t)
    <3>1. CASE k \in 1 .. Len(l)
      BY <1>0, <1>3, <2>3, <3>1
    <3>2. CASE k = Len(l) + 1
      BY <1>3, <1>5, <2>3, <3>2 DEF a
    <3> QED
      BY <2>3, <3>1, <3>2
  <2>5. ASSUME Distinct(list) PROVE Distinct(new)
    <3>1. ASSUME NEW k \in 1 .. Len(l) PROVE l[k].seq_num # a.seq_num
      <4>1. PICK j \in 1 .. i : ~Erased(list[j], t) /\ l[k] = After(list[j], t)
        BY <1>0
      <4>2. l[k].seq_num = list[j].seq_num
        BY <1>3, <4>1, AfterSent
      <4>3. j # m /\ j \in 1 .. Len(list)
        BY <1>1
      <4> QED
        BY <1>1, <2>1, <2>5, <4>2, <4>3 DEF Distinct
    <3>2. Distinct(l)
      BY <1>0, <2>5
    <3>3. ASSUME NEW k \in 1 .. Len(new), NEW n \in 1 .. Len(new), new[k].seq_num = new[n].seq_num
          PROVE  k = n
      <4>1. (k \in 1 .. Len(l) \/ k = Len(l) + 1) /\ (n \in 1 .. Len(l) \/ n = Len(l) + 1)
        BY <2>3
      <4> QED
        BY <2>3, <3>1, <3>2, <3>3, <4>1 DEF Distinct
    <3> QED
      BY <3>3 DEF Distinct
  <2>6. Len(new) <= m
    BY <1>0, <2>3
  <2> QED
    BY <2>3, <2>4, <2>5, <2>6 DEF Kept
<1> QED
  BY <1>4, <1>5

\* One entry is visited (RtcpNackGenerator::addNackPacketToRr).
LEMMA VisitStep ==
    ASSUME NEW list \in Seq(Entry), NEW i \in Nat, i < Len(list), NEW t \in 1 .. MaxTime,
           NEW acc, Visited(acc, list, i, t)
    PROVE  Visited(Visit(acc, list[i + 1], t), list, i + 1, t)
<1>1. PICK m \in 1 .. Len(list) : m = i + 1
  OBVIOUS
<1>2. PICK e \in Entry : e = list[m]
  OBVIOUS
<1> DEFINE near == acc.open /\ Bit(acc, e) < BlpBits
           blocks == IF near THEN [acc.blocks EXCEPT ![Len(acc.blocks)].blp = @ \cup {Bit(acc, e)}]
                     ELSE Append(acc.blocks, [pid |-> e.seq_num, blp |-> {}])
           new == Visit(acc, e, t)
<1>3. e.seq_num \in Number
  BY EntryParts
<1>4. /\ new.open = IF Asked(e, t) THEN TRUE ELSE near
      /\ new.blocks = IF Asked(e, t) THEN blocks ELSE acc.blocks
      /\ new.list = IF Erased(e, t) THEN acc.list ELSE Append(acc.list, After(e, t))
  <2>1. CASE Asked(e, t)
    BY <2>1 DEF Visit, After, Asked, Erased
  <2>2. CASE ~Asked(e, t)
    BY <2>2 DEF Visit, After
  <2> QED
    BY <2>1, <2>2
<1> HIDE DEF new
<1>5. Kept(new.list, list, m, t)
  <2>1. PICK l, n : l = acc.list /\ n = new.list
    OBVIOUS
  <2>2. Kept(l, list, i, t)
    BY <2>1 DEF Visited
  <2>3. n = IF Erased(list[m], t) THEN l ELSE Append(l, After(list[m], t))
    BY <1>2, <1>4, <2>1
  <2>4. Kept(n, list, m, t)
    <3>1. m \in Nat /\ m = i + 1
      BY <1>1
    <3> QED
      BY <2>2, <2>3, <3>1, KeptStep, Zenon
  <2> QED
    BY <2>1, <2>4
<1>6. acc.blocks \in Seq(Block) /\ acc.open \in BOOLEAN /\ (acc.open => Len(acc.blocks) > 0)
  BY DEF Visited
<1>7. ASSUME NEW s \in Number
      PROVE  blocks \in Seq(Block) /\ Len(blocks) > 0 /\ (Named(blocks, s) <=> Named(acc.blocks, s) \/ s = e.seq_num)
  <2>1. CASE near
    <3>1. PICK bit \in Int : bit = Bit(acc, e) /\ (Last(acc.blocks).pid + 1 + bit) % Modulus = e.seq_num
      <4>1. Last(acc.blocks).pid \in Number
        <5>1. PICK b \in Seq(Block) : b = acc.blocks /\ Len(b) \in 1 .. Len(b)
          BY <1>6, <2>1
        <5>2. b[Len(b)] \in Block
          BY <5>1
        <5>3. b[Len(b)].pid \in Number
          BY <5>2 DEF Block
        <5> QED
          BY <5>1, <5>3 DEF Last
      <4> QED
        BY <1>3, <4>1, BitNumber DEF Bit
    <3>2. PICK b \in Seq(Block) : b = acc.blocks /\ Len(b) > 0
      BY <1>6, <2>1
    <3>3. LET n == [b EXCEPT ![Len(b)].blp = @ \cup {bit}] IN
          n \in Seq(Block) /\ Len(n) > 0 /\ (Named(n, s) <=> Named(b, s) \/ s = (Last(b).pid + 1 + bit) % Modulus)
      BY <3>2, NamedBit
    <3>4. blocks = [b EXCEPT ![Len(b)].blp = @ \cup {bit}]
      BY <2>1, <3>1, <3>2
    <3> QED
      BY <3>1, <3>2, <3>3, <3>4
  <2>2. CASE ~near
    BY <1>3, <1>6, <2>2, NamedAppend
  <2> QED
    BY <2>1, <2>2
<1> HIDE DEF blocks
<1>8. /\ new.blocks \in Seq(Block) /\ new.open \in BOOLEAN /\ (new.open => Len(new.blocks) > 0)
  <2>1. 0 \in Number
    BY Ranges DEF Number
  <2> QED
    BY <1>4, <1>6, <1>7, <2>1
<1>9. ASSUME NEW s \in Number
      PROVE  Named(new.blocks, s) <=> \E j \in 1 .. m : Asked(list[j], t) /\ s = list[j].seq_num
  <2>1. Named(acc.blocks, s) <=> \E j \in 1 .. i : Asked(list[j], t) /\ s = list[j].seq_num
    BY DEF Visited, Packed
  <2>2. Named(new.blocks, s) <=> Named(acc.blocks, s) \/ (Asked(e, t) /\ s = e.seq_num)
    BY <1>4, <1>7
  <2>3. \A j : j \in 1 .. m <=> (j \in 1 .. i \/ j = m)
    BY <1>1
  <2> QED
    BY <1>2, <2>1, <2>2, <2>3
<1>10. Visited(new, list, m, t)
  BY <1>5, <1>8, <1>9 DEF Visited, Packed
<1> QED
  BY <1>1, <1>2, <1>10 DEF new

\* The function that Walk() is defined by, up to k.
IsWalk(g, k, list, t) ==
    g = [i \in 0 .. k |-> IF i = 0 THEN [open |-> FALSE, blocks |-> <<>>, list |-> <<>>]
                          ELSE Visit(g[i - 1], list[i], t)]

\* There is such a function.
LEMMA WalkExists ==
    ASSUME NEW list, NEW t, NEW n \in Nat
    PROVE  \E g : IsWalk(g, n, list, t)
<1> DEFINE X == {k \in Nat : \E g : IsWalk(g, k, list, t)}
<1>1. 0 \in X
  <2> DEFINE g == [i \in 0 .. 0 |-> [open |-> FALSE, blocks |-> <<>>, list |-> <<>>]]
  <2>1. IsWalk(g, 0, list, t)
    BY DEF IsWalk
  <2> QED
    BY <2>1
<1>2. ASSUME NEW k \in X PROVE k + 1 \in X
  <2>1. PICK g : IsWalk(g, k, list, t)
    OBVIOUS
  <2> DEFINE h == [i \in 0 .. k + 1 |-> IF i <= k THEN g[i] ELSE Visit(g[k], list[k + 1], t)]
             E == [open |-> FALSE, blocks |-> <<>>, list |-> <<>>]
  <2>2. k \in Nat
    OBVIOUS
  <2>3. \A i \in 0 .. k : g[i] = IF i = 0 THEN E ELSE Visit(g[i - 1], list[i], t)
    BY <2>1 DEF IsWalk
  <2> HIDE DEF E
  <2>4. ASSUME NEW i \in 0 .. k + 1 PROVE h[i] = IF i = 0 THEN E ELSE Visit(h[i - 1], list[i], t)
    <3>1. CASE i = 0
      BY <2>2, <2>3, <3>1
    <3>2. CASE i \in 1 .. k
      <4>1. i \in 0 .. k /\ i # 0 /\ i - 1 \in 0 .. k + 1 /\ i - 1 <= k
        BY <2>2, <3>2
      <4>2. h[i] = g[i] /\ h[i - 1] = g[i - 1]
        BY <4>1
      <4> QED
        BY <2>3, <4>1, <4>2
    <3>3. CASE i = k + 1
      <4>1. i - 1 = k /\ k \in 0 .. k + 1 /\ ~(i <= k) /\ i # 0 /\ k <= k
        BY <2>2, <3>3
      <4>2. h[i] = Visit(g[k], list[k + 1], t) /\ h[k] = g[k]
        BY <4>1
      <4> QED
        BY <3>3, <4>1, <4>2
    <3> QED
      BY <2>2, <3>1, <3>2, <3>3
  <2>5. h = [i \in 0 .. k + 1 |-> IF i = 0 THEN E ELSE Visit(h[i - 1], list[i], t)]
    BY <2>4
  <2>6. IsWalk(h, k + 1, list, t)
    BY <2>5 DEF IsWalk, E
  <2> QED
    BY <2>2, <2>6
<1>3. X = Nat
  <2> HIDE DEF X
  <2>1. X \subseteq Nat
    BY DEF X
  <2> QED
    BY <1>1, <1>2, <2>1, Induct
<1> QED
  BY <1>3

\* What a report does with the whole list: it names the entries that it asks
\* for, and only these, and keeps the others (RtcpNackGenerator::addNackPacketToRr).
LEMMA WalkVisits ==
    ASSUME NEW list \in Seq(Entry), NEW t \in 1 .. MaxTime
    PROVE  Visited(Walk(list, t), list, Len(list), t)
<1>1. PICK n \in Nat : n = Len(list)
  OBVIOUS
<1>2. \E g : IsWalk(g, n, list, t)
  BY WalkExists
<1>3. \E g : IsWalk(g, n, list, t) /\ Walk(list, t) = g[n]
  BY <1>1, <1>2 DEF Walk, IsWalk
<1>4. PICK g : IsWalk(g, n, list, t) /\ Walk(list, t) = g[n]
  BY <1>3
<1> DEFINE X == {i \in Nat : i <= n => Visited(g[i], list, i, t)}
<1>5. 0 \in X
  <2>1. g[0] = [open |-> FALSE, blocks |-> <<>>, list |-> <<>>]
    BY <1>4 DEF IsWalk
  <2>2. Visited(g[0], list, 0, t)
    <3>1. /\ g[0].blocks = <<>> /\ g[0].list = <<>> /\ g[0].open = FALSE
          /\ Len(<<>>) = 0 /\ 1 .. 0 = {} /\ <<>> \in Seq(Block) /\ <<>> \in Seq(Sent)
      BY <2>1
    <3>2. Packed(<<>>, list, 0, t)
      BY <3>1 DEF Packed, Named
    <3>3. Kept(<<>>, list, 0, t)
      BY <3>1 DEF Kept, Distinct
    <3> QED
      BY <3>1, <3>2, <3>3 DEF Visited
  <2> QED
    BY <2>2
<1>6. ASSUME NEW i \in X PROVE i + 1 \in X
  <2>1. ASSUME i + 1 <= n PROVE Visited(g[i + 1], list, i + 1, t)
    <3>1. i \in Nat /\ i < Len(list) /\ Visited(g[i], list, i, t) /\ i + 1 \in 0 .. n /\ i + 1 # 0 /\ (i + 1) - 1 = i
      BY <1>1, <2>1
    <3>2. g[i + 1] = Visit(g[i], list[i + 1], t)
      BY <1>4, <3>1 DEF IsWalk
    <3>3. Visited(Visit(g[i], list[i + 1], t), list, i + 1, t)
      BY <3>1, VisitStep
    <3> QED
      BY <3>2, <3>3
  <2> QED
    BY <2>1
<1>7. X = Nat
  <2> HIDE DEF X
  <2>1. X \subseteq Nat
    BY DEF X
  <2> QED
    BY <1>5, <1>6, <2>1, Induct
<1>8. Visited(g[n], list, n, t)
  BY <1>7
<1> QED
  BY <1>1, <1>4, <1>8

-----------------------------------------------------------------------------
\* The place reached after packet p, when `at` was reached before.
Reached(p, at) == IF p > at THEN p ELSE at

\* A packet the network may deliver.
Near(p, at) == p - at <= MaxAhead /\ at - p <= MaxBehind

\* The cycle and the highest number of the reports follow the places
\* (RtcpRrGenerator::handleRtpPacket).
LEMMA CycleFollows ==
    ASSUME NEW r \in RrRecord, NEW at \in Nat, r.max_seq = at % Modulus, r.cycle = at \div Modulus,
           NEW p \in Nat, Near(p, at), NEW t \in Nat
    PROVE  LET s == RrHandleRtpPacket(r, p % Modulus, t) IN
           s.max_seq = Reached(p, at) % Modulus /\ s.cycle = Reached(p, at) \div Modulus
<1> DEFINE s == RrHandleRtpPacket(r, p % Modulus, t)
           seq == p % Modulus
<1>1. /\ Modulus \in Nat \ {0} /\ p \in Int /\ at \in Int /\ p - at < Sixteenth /\ at - p <= Modulus - Sixteenth
      /\ p - at < Modulus
  BY Ranges DEF Near
<1>2. PICK m \in 0 .. Modulus - 1, k \in Int : m = at % Modulus /\ k = at \div Modulus /\ at = Modulus * k + m
  BY <1>1, ModDef
<1>3. SequenceNumberLessThan(seq, r.max_seq) <=> p < at
  BY <1>1, BehindPlaces
<1>4. r.max_seq # -1
  BY <1>2
<1>5. /\ s.max_seq = IF p < at THEN m ELSE seq
      /\ s.cycle = IF ~(p < at) /\ seq < m THEN k + 1 ELSE k
  BY <1>2, <1>3, <1>4 DEF RrHandleRtpPacket, RrRecord, NewCycle
<1> HIDE DEF s
<1>6. ASSUME p < at PROVE s.max_seq = Reached(p, at) % Modulus /\ s.cycle = Reached(p, at) \div Modulus
  <2>1. Reached(p, at) = at
    BY <1>6 DEF Reached
  <2> QED
    BY <1>2, <1>5, <1>6, <2>1
<1>7. ASSUME ~(p < at) PROVE s.max_seq = Reached(p, at) % Modulus /\ s.cycle = Reached(p, at) \div Modulus
  <2>1. Reached(p, at) = p /\ p >= at
    BY <1>1, <1>7 DEF Reached
  <2>2. PICK d \in Nat : d = p - at /\ d < Modulus
    BY <1>1, <2>1
  <2>3. CASE m + d < Modulus
    <3>1. PICK w \in 0 .. Modulus - 1 : w = m + d
      BY <1>1, <2>3
    <3>2. p = Modulus * k + w
      BY <1>1, <1>2, <2>2, <3>1
    <3>3. p % Modulus = w /\ p \div Modulus = k
      BY <1>1, <3>2, ModUnique
    <3> QED
      BY <1>5, <1>7, <2>1, <3>1, <3>3
  <2>4. CASE ~(m + d < Modulus)
    <3>1. PICK w \in 0 .. Modulus - 1, l \in Int : w = m + d - Modulus /\ l = k + 1
      BY <1>1, <2>2, <2>4
    <3>2. p = Modulus * l + w
      <4>1. Modulus * l = Modulus * k + Modulus
        BY <1>1, <3>1
      <4> QED
        BY <1>1, <1>2, <2>2, <3>1, <4>1
    <3>3. p % Modulus = w /\ p \div Modulus = l
      BY <1>1, <3>2, ModUnique
    <3>4. w < m
      BY <1>1, <2>2, <3>1
    <3> QED
      BY <1>5, <1>7, <2>1, <3>1, <3>3, <3>4
  <2> QED
    BY <2>3, <2>4
<1> QED
  BY <1>6, <1>7 DEF s

\* The nack list takes a packet for the next, a late or a repeated one as their
\* places say (RtcpNackGenerator::handleRtpPacket).
LEMMA OrderFollows ==
    ASSUME NEW n, n.initialized = TRUE, NEW at \in Nat, n.highest = at % Modulus, NEW p \in Nat, Near(p, at)
    PROVE  /\ InOrder(n, p % Modulus) <=> p > at
           /\ p % Modulus = n.highest <=> p = at
<1>1. /\ Modulus \in Nat \ {0} /\ p \in Int /\ at \in Int /\ p - at < Sixteenth /\ at - p <= Modulus - Sixteenth
      /\ p - at < Modulus /\ at - p < Modulus
  BY Ranges DEF Near
<1>2. SequenceNumberLessThan(p % Modulus, n.highest) <=> p < at
  BY <1>1, BehindPlaces
<1>3. p % Modulus = at % Modulus => p = at
  BY <1>1, ModInjective
<1> QED
  BY <1>1, <1>2, <1>3 DEF InOrder

\* The numbers skipped, by their places.
LEMMA SkippedPlaces ==
    ASSUME NEW n, NEW at \in Nat, n.highest = at % Modulus, NEW p \in Nat, Near(p, at), p > at
    PROVE  LET l == Skipped(n, p % Modulus) IN
           /\ l \in Seq(Entry) /\ Len(l) = p - at - 1
           /\ \A i \in 1 .. p - at - 1 : l[i] = NackInfo((at + i) % Modulus)
<1>1. Modulus \in Nat \ {0} /\ p \in Int /\ at \in Int /\ p - at < Modulus
  BY Ranges DEF Near
<1>2. PICK d \in Nat : d = p - at - 1
  BY <1>1
<1>3. Distance(n.highest, p % Modulus) - 1 = d
  <2>1. ((p % Modulus) - (at % Modulus)) % Modulus = (p - at) % Modulus
    BY <1>1, ModDiff
  <2>2. PICK e \in Int : e = p - at /\ -Modulus <= e /\ e < Modulus /\ e >= 0
    BY <1>1
  <2>3. e % Modulus = e
    BY <1>1, <2>2, ModSmall
  <2> QED
    BY <1>2, <2>1, <2>2, <2>3 DEF Distance
<1>4. ASSUME NEW i \in Int PROVE NackInfo((n.highest + i) % Modulus) = NackInfo((at + i) % Modulus)
                                 /\ NackInfo((at + i) % Modulus) \in Entry
  <2>1. ((at % Modulus) + i) % Modulus = (at + i) % Modulus
    BY <1>1, ModSum
  <2>2. PICK v \in Int : v = at + i
    BY <1>1
  <2>3. v % Modulus \in Number
    BY <1>1, ModDef DEF Number
  <2> QED
    BY <2>1, <2>2, <2>3 DEF Entry, Fresh
<1>5. Skipped(n, p % Modulus) = [i \in 1 .. d |-> NackInfo((n.highest + i) % Modulus)]
  BY <1>3 DEF Skipped
<1>6. Skipped(n, p % Modulus) = [i \in 1 .. d |-> NackInfo((at + i) % Modulus)]
  BY <1>4, <1>5
<1> DEFINE l == [i \in 1 .. d |-> NackInfo((at + i) % Modulus)]
<1>7. \A i \in 1 .. d : l[i] \in Entry /\ l[i] = NackInfo((at + i) % Modulus)
  BY <1>4
<1>8. DOMAIN l = 1 .. d
  OBVIOUS
<1>9. l \in [1 .. d -> Entry]
  BY <1>4
<1> HIDE DEF l
<1>10. l \in Seq(Entry) /\ Len(l) = d
  BY <1>8, <1>9
<1> QED
  BY <1>2, <1>6, <1>7, <1>10 DEF l

\* The list l begins with the list old, and what follows it are the places
\* between at and p, in order; all of them are there.
Added(l, old, at, p) ==
    \A k \in 1 .. Len(l) :
       \/ k <= Len(old) /\ l[k] = old[k]
       \/ k > Len(old) /\ k - Len(old) <= p - at - 1 /\ l[k] = NackInfo((at + (k - Len(old))) % Modulus)

AllAdded(l, old, at, p) ==
    \A i \in 1 .. p - at - 1 : Len(old) + i \in 1 .. Len(l) /\ l[Len(old) + i] = NackInfo((at + i) % Modulus)

\* What addNacks() leaves: the old list and the skipped numbers, or the
\* beginning of these (RtcpNackGenerator::addNacks).
LEMMA AddedPlaces ==
    ASSUME NEW n, n.list \in Seq(Entry), NEW at \in Nat, n.highest = at % Modulus,
           NEW p \in Nat, Near(p, at), p > at
    PROVE  LET l == AddNacks(n, p % Modulus) IN
           /\ l \in Seq(Entry) /\ Len(l) <= MaxNacks
           /\ Added(l, n.list, at, p)
           /\ Len(n.list \o Skipped(n, p % Modulus)) <= MaxNacks => AllAdded(l, n.list, at, p)
<1> DEFINE a == n.list
           b == Skipped(n, p % Modulus)
           all == a \o b
           l == AddNacks(n, p % Modulus)
<1>1. /\ b \in Seq(Entry) /\ Len(b) = p - at - 1
      /\ \A i \in 1 .. p - at - 1 : b[i] = NackInfo((at + i) % Modulus)
  BY SkippedPlaces
<1>0. p - at - 1 \in Nat /\ Len(a) \in Nat
  OBVIOUS
<1>2. PICK d \in Nat, m \in Nat : d = p - at - 1 /\ m = Len(a)
  BY <1>0
<1>a. a \in Seq(Entry)
  OBVIOUS
<1> HIDE DEF a, b
<1>3. /\ all \in Seq(Entry) /\ Len(all) = m + d
      /\ \A k \in 1 .. m + d : all[k] = IF k <= m THEN a[k] ELSE b[k - m]
  <2>1. /\ all \in Seq(Entry) /\ Len(all) = Len(a) + Len(b)
        /\ \A k \in 1 .. Len(a) + Len(b) : all[k] = IF k <= Len(a) THEN a[k] ELSE b[k - Len(a)]
    BY <1>1, <1>a, ConcatProperties
  <2> QED
    BY <1>1, <1>2, <2>1
<1>4. l = IF Len(all) > MaxNacks THEN SubSeq(all, 1, MaxNacks) ELSE all
  BY DEF AddNacks, a, b
<1> HIDE DEF all, l
<1>5. /\ l \in Seq(Entry) /\ Len(l) <= MaxNacks /\ Len(l) <= m + d
      /\ \A k \in 1 .. Len(l) : l[k] = all[k]
      /\ Len(all) <= MaxNacks => l = all
  <2>1. PICK c \in Nat : c = MaxNacks
    BY Ranges
  <2>2. CASE Len(all) > c
    <3>1. PICK one \in Int : one = 1
      OBVIOUS
    <3>2. \A i \in one .. c : all[i] \in Entry
      BY <1>3, <2>2, <3>1
    <3>3. /\ SubSeq(all, one, c) \in Seq(Entry)
          /\ Len(SubSeq(all, one, c)) = IF one <= c THEN c - one + 1 ELSE 0
          /\ \A i \in 1 .. c - one + 1 : SubSeq(all, one, c)[i] = all[one + i - 1]
      BY <3>2, SubSeqProperties
    <3>4. l = SubSeq(all, one, c)
      BY <1>4, <2>1, <2>2, <3>1
    <3>5. Len(l) = c /\ \A i \in 1 .. c : l[i] = all[i]
      BY <3>1, <3>3, <3>4
    <3>6. l \in Seq(Entry)
      BY <3>3, <3>4
    <3>7. Len(l) <= MaxNacks /\ Len(l) <= m + d /\ ~(Len(all) <= MaxNacks)
      BY <1>3, <2>1, <2>2, <3>5
    <3>8. \A k \in 1 .. Len(l) : l[k] = all[k]
      BY <3>5
    <3> QED
      BY <3>6, <3>7, <3>8
  <2>3. CASE ~(Len(all) > c)
    BY <1>3, <1>4, <2>1, <2>3
  <2> QED
    BY <2>2, <2>3
<1>6. ASSUME NEW k \in 1 .. Len(l)
      PROVE  \/ k <= m /\ l[k] = a[k]
             \/ k > m /\ k - m <= p - at - 1 /\ l[k] = NackInfo((at + (k - m)) % Modulus)
  <2>1. k \in 1 .. m + d
    BY <1>5
  <2>2. CASE k <= m
    BY <1>3, <1>5, <2>1, <2>2
  <2>3. CASE k > m
    <3>0. k - m \in 1 .. d
      BY <2>1, <2>3
    <3>1. PICK i \in 1 .. d : i = k - m
      BY <3>0
    <3>2. l[k] = b[i]
      BY <1>3, <1>5, <2>1, <2>3, <3>1
    <3>3. b[i] = NackInfo((at + i) % Modulus)
      BY <1>1, <1>2
    <3>4. l[k] = NackInfo((at + (k - m)) % Modulus)
      BY <3>1, <3>2, <3>3, Zenon
    <3>5. k - m <= p - at - 1
      BY <1>2, <3>0
    <3> QED
      BY <2>3, <3>4, <3>5, Zenon
  <2>4. k <= m \/ k > m
    BY <2>1
  <2> QED
    BY <2>2, <2>3, <2>4, Zenon
<1>7. ASSUME Len(all) <= MaxNacks, NEW i \in 1 .. p - at - 1
      PROVE  m + i \in 1 .. Len(l) /\ l[m + i] = NackInfo((at + i) % Modulus)
  <2>1. m + i \in 1 .. m + d /\ ~(m + i <= m) /\ (m + i) - m = i /\ l = all
    BY <1>2, <1>5, <1>7
  <2> QED
    BY <1>1, <1>3, <2>1
<1>8. Added(l, a, at, p)
  BY <1>2, <1>6 DEF Added
<1>9. Len(all) <= MaxNacks => AllAdded(l, a, at, p)
  BY <1>2, <1>7 DEF AllAdded
<1> QED
  BY <1>5, <1>8, <1>9 DEF all, l, a, b

\* What is left when a packet has come after all: its entry is gone, the others
\* stay (RtcpNackGenerator::handleRtpPacket).
LEMMA RecoveredEntries ==
    ASSUME NEW V, NEW list \in Seq(V), NEW s
    PROVE  LET l == Recovered(list, s) IN
           /\ l \in Seq(V) /\ Len(l) <= Len(list)
           /\ \A k \in 1 .. Len(l) : \E j \in 1 .. Len(list) : l[k] = list[j]
           /\ Distinct(list) => Distinct(l) /\ \A k \in 1 .. Len(l) : l[k].seq_num # s
<1> DEFINE I == {i \in 1 .. Len(list) : list[i].seq_num = s}
           l == Recovered(list, s)
<1>1. l = IF \E i \in 1 .. Len(list) : list[i].seq_num = s THEN RemoveAt(list, Min(I)) ELSE list
  BY DEF Recovered, RemoveFirstMatch, SelectInSeq
<1> HIDE DEF l
<1>2. CASE I = {}
  <2>1. l = list
    BY <1>1, <1>2
  <2> QED
    BY <1>2, <2>1 DEF l
<1>3. CASE I # {}
  <2>1. PICK m \in I : \A i \in I : m <= i
    <3>1. I \subseteq Nat
      OBVIOUS
    <3> HIDE DEF I
    <3> QED
      BY <1>3, <3>1, LeastNat
  <2>2. Min(I) = m
    <3>1. \A x \in I : (\A y \in I : x <= y) => x = m
      BY <2>1
    <3> HIDE DEF I
    <3> QED
      BY <2>1, <3>1 DEF Min
  <2>3. m \in 1 .. Len(list) /\ list[m].seq_num = s
    OBVIOUS
  <2>4. PICK one \in Int, a \in Int, b \in Int, z \in Int : one = 1 /\ a = m - 1 /\ b = m + 1 /\ z = Len(list)
    BY <2>3
  <2> DEFINE u == SubSeq(list, one, a)
             v == SubSeq(list, b, z)
  <2>5. l = u \o v
    BY <1>1, <1>3, <2>2, <2>4 DEF RemoveAt
  <2>6. /\ u \in Seq(V) /\ v \in Seq(V)
        /\ Len(u) = m - 1 /\ Len(v) = Len(list) - m
        /\ \A k \in 1 .. m - 1 : u[k] = list[k]
        /\ \A k \in 1 .. Len(list) - m : v[k] = list[m + k]
    <3>1. (\A k \in one .. a : list[k] \in V) /\ (\A k \in b .. z : list[k] \in V)
      BY <2>3, <2>4
    <3>2. /\ u \in Seq(V) /\ Len(u) = (IF one <= a THEN a - one + 1 ELSE 0)
          /\ \A k \in 1 .. a - one + 1 : u[k] = list[one + k - 1]
      BY <3>1, SubSeqProperties
    <3>3. /\ v \in Seq(V) /\ Len(v) = (IF b <= z THEN z - b + 1 ELSE 0)
          /\ \A k \in 1 .. z - b + 1 : v[k] = list[b + k - 1]
      BY <3>1, SubSeqProperties
    <3> HIDE DEF u, v
    <3>4. Len(u) = m - 1 /\ \A k \in 1 .. m - 1 : u[k] = list[k]
      BY <2>3, <2>4, <3>2
    <3>5. Len(v) = Len(list) - m /\ \A k \in 1 .. Len(list) - m : v[k] = list[m + k]
      BY <2>3, <2>4, <3>3
    <3> QED
      BY <3>2, <3>3, <3>4, <3>5
  <2> HIDE DEF u, v
  <2>7. /\ l \in Seq(V) /\ Len(l) = Len(list) - 1 /\ Len(list) \in Nat
        /\ \A k \in 1 .. Len(list) - 1 : l[k] = IF k <= m - 1 THEN u[k] ELSE v[k - (m - 1)]
    BY <2>3, <2>5, <2>6
  <2>8. ASSUME NEW k \in 1 .. Len(l)
        PROVE  (k < m /\ l[k] = list[k]) \/ (k >= m /\ k + 1 \in 1 .. Len(list) /\ l[k] = list[k + 1])
    <3>1. k \in 1 .. Len(list) - 1
      BY <2>7
    <3>2. CASE k < m
      <4>1. k \in 1 .. m - 1 /\ k <= m - 1
        BY <2>3, <3>1, <3>2
      <4>2. l[k] = u[k]
        BY <2>7, <3>1, <4>1
      <4>3. u[k] = list[k]
        BY <2>6, <4>1
      <4> QED
        BY <3>2, <4>2, <4>3, Zenon
    <3>3. CASE ~(k < m)
      <4>1. PICK j \in 1 .. Len(list) - m : j = k - (m - 1)
        BY <2>3, <2>7, <3>1, <3>3
      <4>2. l[k] = v[j] /\ m + j = k + 1
        BY <2>3, <2>7, <3>1, <3>3, <4>1
      <4> QED
        BY <2>3, <2>6, <2>7, <3>1, <3>3, <4>2
    <3> QED
      BY <3>2, <3>3
  <2> HIDE DEF I
  <2>9. ASSUME NEW k \in 1 .. Len(l) PROVE \E j \in 1 .. Len(list) : l[k] = list[j]
    <3>1. k \in 1 .. Len(list)
      BY <2>7
    <3> QED
      BY <2>8, <3>1
  <2>10. ASSUME Distinct(list) PROVE Distinct(l) /\ \A k \in 1 .. Len(l) : l[k].seq_num # s
    <3>1. ASSUME NEW k \in 1 .. Len(l)
          PROVE  \E j \in 1 .. Len(list) : l[k] = list[j] /\ j = (IF k < m THEN k ELSE k + 1) /\ j # m
      <4>1. k \in 1 .. Len(list) /\ k < Len(list)
        BY <2>7
      <4> QED
        BY <2>3, <2>8, <4>1
    <3>2. ASSUME NEW k \in 1 .. Len(l), NEW n \in 1 .. Len(l), l[k].seq_num = l[n].seq_num PROVE k = n
      <4>1. PICK i \in 1 .. Len(list) : l[k] = list[i] /\ i = IF k < m THEN k ELSE k + 1
        BY <3>1
      <4>2. PICK j \in 1 .. Len(list) : l[n] = list[j] /\ j = IF n < m THEN n ELSE n + 1
        BY <3>1
      <4>3. i = j
        BY <2>10, <3>2, <4>1, <4>2 DEF Distinct
      <4> QED
        BY <2>3, <4>1, <4>2, <4>3
    <3>3. ASSUME NEW k \in 1 .. Len(l) PROVE l[k].seq_num # s
      <4>1. PICK j \in 1 .. Len(list) : l[k] = list[j] /\ j # m
        BY <3>1
      <4> QED
        BY <2>3, <2>10, <4>1 DEF Distinct
    <3> QED
      BY <3>2, <3>3 DEF Distinct
  <2>11. Len(l) <= Len(list)
    BY <2>7
  <2> QED
    BY <2>7, <2>9, <2>10, <2>11 DEF l
<1> QED
  BY <1>2, <1>3

-----------------------------------------------------------------------------
\* Every entry of the list stands for a place after the first packet.
Placed(list, at) ==
    \A i \in 1 .. Len(list) : \E q \in first + 1 .. at : q % Modulus = list[i].seq_num

\* The generators know where the stream is.
Synchronised ==
    /\ got = {} => /\ nack.initialized = FALSE /\ nack.list = <<>>
                   /\ rr.max_seq = -1 /\ rr.cycle = 0 /\ top = first
    /\ got # {} => /\ nack.initialized = TRUE /\ nack.highest = top % Modulus
                   /\ rr.max_seq = top % Modulus /\ rr.cycle = top \div Modulus
                   /\ top \in got

Stream ==
    /\ Inv
    /\ now \in 1 .. MaxTime
    /\ nack \in [initialized: BOOLEAN, highest: Number, list: Seq(Sent)] /\ Len(nack.list) <= MaxNacks
    /\ got \subseteq Nat /\ (\A p \in got : p <= top)
    /\ first <= top /\ top <= first + rr.packets_received * MaxAhead
    /\ rr.packets_received <= MaxPackets
    /\ rr.lost \in Nat /\ rr.frac_lost \in 0 .. 255
    /\ requested \subseteq first + 1 .. top
    /\ Placed(nack.list, top)
    /\ Synchronised

\* The numbers read from the blocks are those they name.
LEMMA RequestedNamed ==
    ASSUME NEW blocks \in Seq(Block), NEW s
    PROVE  s \in Requested(blocks) <=> Named(blocks, s)
<1>1. DOMAIN blocks = 1 .. Len(blocks)
  OBVIOUS
<1>2. s \in Requested(blocks) <=>
        \E b \in ToSet(blocks) : s = b.pid \/ \E k \in b.blp : s = (b.pid + 1 + k) % Modulus
  BY DEF Requested
<1>3. \A b : b \in ToSet(blocks) <=> \E i \in 1 .. Len(blocks) : b = blocks[i]
  BY <1>1 DEF ToSet
<1> QED
  BY <1>2, <1>3 DEF Named

\* PlaceOf() is the last place of a number up to the highest one.
LEMMA LastPlace ==
    ASSUME NEW at \in Int, NEW q \in Int, q <= at, NEW s, s = q % Modulus
    PROVE  LET v == PlaceOf(s, at % Modulus, at) IN
           /\ v \in q .. at /\ v % Modulus = s
           /\ at - q < Modulus => v = q
<1>1. Modulus \in Nat \ {0}
  BY Ranges
<1>2. ((at % Modulus) - (q % Modulus)) % Modulus = (at - q) % Modulus
  BY <1>1, ModDiff
<1>3. PICK d \in Nat : d = at - q
  OBVIOUS
<1>4. PICK r \in 0 .. Modulus - 1, k \in Int : r = d % Modulus /\ k = d \div Modulus /\ d = Modulus * k + r
  <2>1. PICK c \in Int : c = d
    OBVIOUS
  <2>2. c % Modulus \in 0 .. Modulus - 1 /\ c \div Modulus \in Int /\ c = Modulus * (c \div Modulus) + (c % Modulus)
    BY <1>1, ModDef
  <2> QED
    BY <2>1, <2>2
<1>5. k >= 0
  <2>1. ASSUME k < 0 PROVE FALSE
    <3>1. k <= -1
      BY <2>1
    <3>2. Modulus * k <= -Modulus
      BY <1>1, <3>1
    <3> QED
      BY <1>1, <1>4, <3>2
  <2> QED
    BY <2>1
<1>6. Modulus * k \in Nat
  BY <1>1, <1>5
<1>7. PICK v \in Int : v = PlaceOf(s, at % Modulus, at) /\ v = at - r
  BY <1>2, <1>3, <1>4 DEF PlaceOf, Distance
<1>8. v = q + Modulus * k /\ v <= at /\ v >= q
  BY <1>1, <1>3, <1>4, <1>6, <1>7
<1>9. v % Modulus = q % Modulus
  BY <1>1, <1>8, ModEq
<1>10. ASSUME at - q < Modulus PROVE v = q
  <2>1. -Modulus <= d /\ d < Modulus /\ d >= 0
    BY <1>1, <1>3, <1>10
  <2>2. d % Modulus = d
    BY <1>1, <2>1, ModSmall
  <2> QED
    BY <1>3, <1>4, <1>7, <2>2
<1> QED
  BY <1>7, <1>8, <1>9, <1>10

\* The places that a report asks for.
Wanted(list, t, at) == {PlaceOf(s, at % Modulus, at) : s \in Requested(NackBlocks(list, t))}

\* They are places of the entries that are due, and all of them.
LEMMA WantedPlaces ==
    ASSUME first \in Nat, NEW list \in Seq(Entry), NEW t \in 1 .. MaxTime, NEW at \in Nat, Placed(list, at),
           NEW w, w = Wanted(list, t, at)
    PROVE  /\ \A q \in w : /\ q \in first + 1 .. at
                           /\ \E i \in 1 .. Len(list) : Asked(list[i], t) /\ q % Modulus = list[i].seq_num
           /\ \A i \in 1 .. Len(list) : \A q \in first + 1 .. at :
                Asked(list[i], t) /\ q % Modulus = list[i].seq_num /\ at - q < Modulus => q \in w
<1>1. Visited(Walk(list, t), list, Len(list), t)
  BY WalkVisits
<1>2. PICK blocks \in Seq(Block) : blocks = NackBlocks(list, t) /\ Packed(blocks, list, Len(list), t)
  BY <1>1 DEF Visited, NackBlocks
<1>3. \A s \in Number : s \in Requested(blocks) <=> \E j \in 1 .. Len(list) : Asked(list[j], t) /\ s = list[j].seq_num
  BY <1>2, RequestedNamed DEF Packed
<1>4. Requested(blocks) \subseteq Number
  <2> SUFFICES ASSUME NEW s, Named(blocks, s) PROVE s \in Number
    BY RequestedNamed
  <2>1. PICK i \in 1 .. Len(blocks) :
          s = blocks[i].pid \/ \E k \in blocks[i].blp : s = (blocks[i].pid + 1 + k) % Modulus
    BY DEF Named
  <2>2. blocks[i].pid \in Number /\ blocks[i].blp \subseteq Int
    <3>1. blocks[i] \in Block
      OBVIOUS
    <3> QED
      BY <3>1 DEF Block
  <2>3. CASE s = blocks[i].pid
    BY <2>2, <2>3
  <2>4. ASSUME NEW k \in blocks[i].blp, s = (blocks[i].pid + 1 + k) % Modulus PROVE s \in Number
    <3>1. PICK v \in Int : v = blocks[i].pid + 1 + k
      BY <2>2, Ranges DEF Number
    <3>2. v % Modulus \in Number
      BY Ranges, ModDef DEF Number
    <3> QED
      BY <2>4, <3>1, <3>2
  <2> QED
    BY <2>1, <2>3, <2>4
<1>5. ASSUME NEW q \in w
      PROVE  /\ q \in first + 1 .. at
             /\ \E i \in 1 .. Len(list) : Asked(list[i], t) /\ q % Modulus = list[i].seq_num
  <2>1. PICK s \in Requested(blocks) : q = PlaceOf(s, at % Modulus, at)
    BY <1>2 DEF Wanted
  <2>2. PICK i \in 1 .. Len(list) : Asked(list[i], t) /\ s = list[i].seq_num
    BY <1>3, <1>4
  <2>3. PICK v \in first + 1 .. at : v % Modulus = s
    BY <2>2 DEF Placed
  <2>4. q \in v .. at /\ q % Modulus = s
    BY <2>1, <2>3, LastPlace
  <2> QED
    BY <2>2, <2>3, <2>4
<1>6. ASSUME NEW i \in 1 .. Len(list), NEW q \in first + 1 .. at, Asked(list[i], t),
             q % Modulus = list[i].seq_num, at - q < Modulus
      PROVE  q \in w
  <2>1. PICK s \in Number : s = list[i].seq_num
    BY EntryParts
  <2>2. s \in Requested(blocks)
    BY <1>3, <1>6, <2>1
  <2>3. PlaceOf(s, at % Modulus, at) = q
    BY <1>6, <2>1, LastPlace
  <2> QED
    BY <1>2, <2>2, <2>3 DEF Wanted
<1> QED
  BY <1>5, <1>6

\* The nack list after a packet.
LEMMA ListHandled ==
    ASSUME Stream, NEW p \in Nat, got = {} => p = first, got # {} => Near(p, top),
           NEW n, n = NackHandleRtpPacket(nack, p % Modulus), NEW at \in Nat, at = Reached(p, top)
    PROVE  /\ n \in [initialized: BOOLEAN, highest: Number, list: Seq(Entry)]
           /\ n.initialized = TRUE /\ n.highest = at % Modulus /\ Len(n.list) <= MaxNacks
           /\ Placed(n.list, at)
           /\ ~ShouldSend(nack, rr, p % Modulus, now) => n.list \in Seq(Sent)
<1> DEFINE seq == p % Modulus
           Nack == [initialized: BOOLEAN, highest: Number, list: Seq(Entry)]
<1>1. /\ nack.initialized \in BOOLEAN /\ nack.highest \in Number /\ nack.list \in Seq(Sent)
      /\ Len(nack.list) <= MaxNacks /\ Placed(nack.list, top) /\ top \in Nat /\ first \in Nat
      /\ nack \in [initialized: BOOLEAN, highest: Number, list: Seq(Sent)]
  BY Ranges DEF Stream, Inv, Number
<1>2. nack.list \in Seq(Entry) /\ nack \in Nack
  <2>1. Sent \subseteq Entry
    BY DEF Entry
  <2>2. Seq(Sent) \subseteq Seq(Entry)
    BY <2>1, SeqMonotonic
  <2> QED
    BY <1>1, <2>2
<1>3. seq \in Number
  BY Ranges, ModDef DEF Number
<1>4. \A l \in Seq(Entry), h \in Number :
        /\ [nack EXCEPT !.list = l, !.highest = h] \in Nack
        /\ [nack EXCEPT !.list = l, !.highest = h].list = l
        /\ [nack EXCEPT !.list = l, !.highest = h].highest = h
        /\ [nack EXCEPT !.list = l, !.highest = h].initialized = nack.initialized
        /\ [nack EXCEPT !.list = l] \in Nack
        /\ [nack EXCEPT !.list = l].list = l
        /\ [nack EXCEPT !.list = l].highest = nack.highest
        /\ [nack EXCEPT !.list = l].initialized = nack.initialized
  BY <1>2
<1>5. CASE got = {}
  <2>1. nack.initialized = FALSE /\ nack.list = <<>> /\ top = first /\ p = first
    BY <1>5 DEF Stream, Synchronised
  <2>2. n = [nack EXCEPT !.initialized = TRUE, !.highest = seq]
    BY <2>1 DEF NackHandleRtpPacket
  <2>3. n \in Nack /\ n.initialized = TRUE /\ n.highest = seq /\ n.list = nack.list
    BY <1>2, <1>3, <2>2
  <2>4. at = p
    BY <1>1, <2>1 DEF Reached
  <2> QED
    BY <1>1, <2>1, <2>3, <2>4
<1>6. CASE got # {}
  <2>1. nack.initialized = TRUE /\ nack.highest = top % Modulus /\ Near(p, top)
    BY <1>6 DEF Stream, Synchronised
  <2>2. (InOrder(nack, seq) <=> p > top) /\ (seq = nack.highest <=> p = top)
    BY <1>1, <2>1, OrderFollows
  <2>3. CASE p > top
    <3>1. PICK m \in Nat : m = Len(nack.list)
      BY <1>1
    <3>2. PICK l : l = AddNacks(nack, seq)
      OBVIOUS
    <3>3. /\ l \in Seq(Entry) /\ Len(l) <= MaxNacks
          /\ Added(l, nack.list, top, p)
      BY <1>1, <1>2, <2>1, <2>3, <3>2, AddedPlaces
    <3>4. n = [nack EXCEPT !.list = l, !.highest = seq] /\ at = p
      BY <1>1, <2>1, <2>2, <2>3, <3>2 DEF NackHandleRtpPacket, Reached
    <3>5. n \in Nack /\ n.list = l /\ n.highest = seq /\ n.initialized = TRUE
      BY <1>3, <1>4, <2>1, <3>3, <3>4
    <3>6. Placed(l, at)
      <4> SUFFICES ASSUME NEW k \in 1 .. Len(l) PROVE \E q \in first + 1 .. at : q % Modulus = l[k].seq_num
        BY DEF Placed
      <4>1. CASE k <= m /\ l[k] = nack.list[k]
        <5>1. k \in 1 .. Len(nack.list)
          BY <3>1, <4>1
        <5>2. PICK q \in first + 1 .. top : q % Modulus = nack.list[k].seq_num
          BY <1>1, <5>1 DEF Placed
        <5>3. q \in first + 1 .. at
          BY <1>1, <2>3, <3>4
        <5> QED
          BY <4>1, <5>2, <5>3
      <4>2. CASE k > m /\ k - m <= p - top - 1 /\ l[k] = NackInfo((top + (k - m)) % Modulus)
        <5>1. first <= top
          BY DEF Stream
        <5>a. k - m \in Int /\ top + (k - m) \in Int
          BY <1>1, <3>1
        <5>2. PICK q \in Int : q = top + (k - m)
          BY <5>a
        <5>3. q \in first + 1 .. at
          BY <1>1, <3>1, <3>4, <4>2, <5>1, <5>2
        <5>4. l[k].seq_num = q % Modulus
          BY <4>2, <5>2 DEF NackInfo
        <5> QED
          BY <5>3, <5>4
      <4> QED
        BY <3>1, <3>3, <4>1, <4>2 DEF Added
    <3>7. ASSUME ~ShouldSend(nack, rr, seq, now) PROVE l \in Seq(Sent)
      <4>1. l = <<>>
        BY <2>2, <2>3, <3>2, <3>7 DEF ShouldSend, WantsNack
      <4> QED
        BY <4>1
    <3> QED
      BY <3>3, <3>4, <3>5, <3>6, <3>7
  <2>4. CASE p = top
    <3>1. n = nack /\ at = top
      BY <1>1, <2>1, <2>2, <2>4 DEF NackHandleRtpPacket, Reached
    <3> QED
      BY <1>1, <1>2, <2>1, <3>1
  <2>5. CASE p < top
    <3>1. PICK l : l = Recovered(nack.list, seq)
      OBVIOUS
    <3>2. /\ l \in Seq(Sent) /\ Len(l) <= Len(nack.list)
          /\ \A k \in 1 .. Len(l) : \E j \in 1 .. Len(nack.list) : l[k] = nack.list[j]
      BY <1>1, <3>1, RecoveredEntries
    <3>3. l \in Seq(Entry)
      <4>1. Sent \subseteq Entry
        BY DEF Entry
      <4> QED
        BY <3>2, <4>1, SeqMonotonic
    <3>4. n = [nack EXCEPT !.list = l] /\ at = top
      BY <1>1, <2>1, <2>2, <2>5, <3>1 DEF NackHandleRtpPacket, Reached
    <3>5. n \in Nack /\ n.list = l /\ n.highest = nack.highest /\ n.initialized = TRUE
      BY <1>3, <1>4, <2>1, <3>3, <3>4
    <3>6. Placed(l, at)
      BY <1>1, <3>2, <3>4 DEF Placed
    <3>7. Len(l) <= MaxNacks
      BY <1>1, <3>2, Ranges
    <3> QED
      BY <2>1, <3>2, <3>4, <3>5, <3>6, <3>7
  <2>6. p > top \/ p = top \/ p < top
    BY <1>1
  <2> QED
    BY <2>3, <2>4, <2>5, <2>6, Zenon
<1> QED
  BY <1>5, <1>6

\* The counters of the reports after a packet.
LEMMA RrHandled ==
    ASSUME Stream, NEW p \in Nat, got = {} => p = first, got # {} => Near(p, top),
           NEW s, s = RrHandleRtpPacket(rr, p % Modulus, now), NEW at \in Nat, at = Reached(p, top)
    PROVE  /\ Counters(s) /\ s.base_seq # -1 /\ s.packets_received = rr.packets_received + 1
           /\ s.received_prior < s.packets_received
           /\ s.max_seq = at % Modulus /\ s.cycle = at \div Modulus
           /\ s.lost = rr.lost /\ s.frac_lost = rr.frac_lost
<1>1. /\ Counters(rr) /\ rr \in RrRecord /\ now \in Nat /\ top \in Nat /\ first \in Number
      /\ rr.received_prior \in Nat /\ rr.packets_received \in Nat /\ rr.received_prior <= rr.packets_received
  BY DEF Stream, Inv, Counters, RrRecord
<1>2. p % Modulus \in Number
  BY Ranges, ModDef DEF Number
<1>3. /\ Counters(s) /\ s.base_seq # -1 /\ s.packets_received = rr.packets_received + 1
      /\ s.received_prior = rr.received_prior
  BY <1>1, <1>2, HandleKeeps
<1>4. s.lost = rr.lost /\ s.frac_lost = rr.frac_lost
  BY <1>1 DEF RrHandleRtpPacket, RrRecord
<1>5. ASSUME got = {} PROVE s.max_seq = at % Modulus /\ s.cycle = at \div Modulus
  <2>1. rr.max_seq = -1 /\ rr.cycle = 0 /\ top = first /\ p = first
    BY <1>5 DEF Stream, Synchronised
  <2>2. s.max_seq = p % Modulus /\ s.cycle = 0 /\ at = p
    BY <1>1, <2>1 DEF RrHandleRtpPacket, RrRecord, Reached
  <2>3. p \in 0 .. Modulus - 1 /\ p \in Int /\ Modulus \in Nat \ {0}
    BY <1>1, <2>1, Ranges DEF Number
  <2>4. PICK z \in Int : z = 0 /\ p = Modulus * z + p
    BY <2>3
  <2>5. p \div Modulus = z
    BY <2>3, <2>4, ModUnique
  <2> QED
    BY <2>2, <2>4, <2>5
<1>6. ASSUME got # {} PROVE s.max_seq = at % Modulus /\ s.cycle = at \div Modulus
  <2>1. rr.max_seq = top % Modulus /\ rr.cycle = top \div Modulus
    BY <1>6 DEF Stream, Synchronised
  <2> QED
    BY <1>1, <1>6, <2>1, CycleFollows
<1> QED
  BY <1>1, <1>3, <1>4, <1>5, <1>6

\* A report leaves the count of packets and the extended number alone.
LEMMA RrReported ==
    ASSUME NEW r, Counters(r), r.base_seq # -1, r.lost \in Nat, NEW t, NEW delay
    PROVE  LET s == GenerateReceiverReport(r, t, delay) IN
           /\ s.packets_received = r.packets_received
           /\ s.max_seq = r.max_seq /\ s.cycle = r.cycle
           /\ s.lost \in Nat /\ s.frac_lost \in 0 .. 255
<1>1. /\ r \in RrRecord /\ r.cycle \in Nat /\ r.max_seq \in Int /\ r.base_seq \in Int /\ r.expected_prior \in Int
      /\ r.packets_received \in Nat /\ r.received_prior \in Nat
  BY DEF Counters, RrRecord
<1>2. r.cycle * Modulus \in Int
  BY <1>1, Ranges
<1>3. PICK l \in Int, e \in Int : l = LostInterval(r) /\ e = ExpectedInterval(r)
  BY <1>1, <1>2 DEF LostInterval, ExpectedInterval, ReceivedInterval, Expected, ExtendedSeq
<1>4. /\ GenerateReceiverReport(r, t, delay).packets_received = r.packets_received
      /\ GenerateReceiverReport(r, t, delay).max_seq = r.max_seq
      /\ GenerateReceiverReport(r, t, delay).cycle = r.cycle
      /\ GenerateReceiverReport(r, t, delay).lost = IF l > 0 THEN r.lost + l ELSE r.lost
      /\ GenerateReceiverReport(r, t, delay).frac_lost = Fraction(r)
  BY <1>1, <1>3 DEF GenerateReceiverReport, RrRecord
<1>5. Fraction(r) \in 0 .. 255
  <2>1. CASE e # 0 /\ l > 0
    <3>1. Fraction(r) = ((l * 256) \div e) % 256
      BY <1>3, <2>1 DEF Fraction
    <3>2. e > 0
      <4>1. r.expected_prior <= Expected(r) /\ Expected(r) \in Int
        BY <1>1, <1>2 DEF Counters, Expected, ExtendedSeq
      <4> QED
        BY <1>1, <1>3, <2>1, <4>1 DEF ExpectedInterval
    <3>3. PICK q \in Int, c \in Nat \ {0} : q = (l * 256) \div e /\ c = 256
      <4>1. PICK x \in Int, y \in Nat \ {0} : x = l * 256 /\ y = e
        BY <3>2
      <4>2. x \div y \in Int
        BY <4>1, ModDef
      <4> QED
        BY <4>1, <4>2
    <3>4. q % c \in 0 .. c - 1
      BY <3>3, ModDef
    <3> QED
      BY <3>1, <3>3, <3>4
  <2>2. CASE ~(e # 0 /\ l > 0)
    BY <1>3, <2>2 DEF Fraction
  <2> QED
    BY <2>1, <2>2
<1> QED
  BY <1>3, <1>4, <1>5

\* The list that a packet leaves, with a report or without one.
LEMMA ListReported ==
    ASSUME first \in Nat, NEW list \in Seq(Entry), Len(list) <= MaxNacks, NEW t \in 1 .. MaxTime,
           NEW at \in Nat, Placed(list, at)
    PROVE  LET l == ListAfterReport(list, t) IN
           /\ l \in Seq(Sent) /\ Len(l) <= MaxNacks /\ Placed(l, at)
           /\ Kept(l, list, Len(list), t)
<1> DEFINE l == ListAfterReport(list, t)
<1>1. Kept(l, list, Len(list), t)
  BY WalkVisits DEF Visited, ListAfterReport
<1> HIDE DEF l
<1>2. /\ l \in Seq(Sent) /\ Len(l) <= Len(list) /\ Len(list) \in Nat
      /\ \A k \in 1 .. Len(l) : \E j \in 1 .. Len(list) : ~Erased(list[j], t) /\ l[k] = After(list[j], t)
  BY <1>1 DEF Kept
<1>3. Len(l) <= MaxNacks
  BY <1>2, Ranges
<1>4. ASSUME NEW k \in 1 .. Len(l) PROVE \E q \in first + 1 .. at : q % Modulus = l[k].seq_num
  <2>1. PICK j \in 1 .. Len(list) : ~Erased(list[j], t) /\ l[k] = After(list[j], t)
    BY <1>2
  <2>2. list[j] \in Entry
    OBVIOUS
  <2>3. l[k].seq_num = list[j].seq_num
    BY <2>1, <2>2, AfterSent
  <2> QED
    BY <2>1, <2>3 DEF Placed
<1> QED
  BY <1>1, <1>2, <1>3, <1>4 DEF Placed, l

\* The step of a packet keeps the generators at the place of the stream.
LEMMA ReadStream ==
    ASSUME Stream, Inv', NEW p \in Nat, got = {} => p = first, got # {} => Near(p, top), Read(p)
    PROVE  Stream'
<1> DEFINE seq == p % Modulus
           n == NackHandleRtpPacket(nack, seq)
           r == RrHandleRtpPacket(rr, seq, now)
<1>1. /\ top \in Nat /\ first \in Nat /\ now \in 1 .. MaxTime /\ now \in Nat /\ got \subseteq Nat
      /\ (\A q \in got : q <= top) /\ first <= top /\ top <= first + rr.packets_received * MaxAhead
      /\ rr.packets_received \in Nat /\ rr.lost \in Nat /\ rr.frac_lost \in 0 .. 255
  <2>1. top \in Nat /\ first \in Nat /\ now \in Nat /\ rr.packets_received \in Nat
    BY Ranges DEF Stream, Inv, Number, Counters, RrRecord
  <2> QED
    BY <2>1 DEF Stream
<1>2. Reached(p, top) \in Nat /\ Reached(p, top) >= p /\ Reached(p, top) >= top
  BY <1>1 DEF Reached
<1>3. PICK at \in Nat : at = Reached(p, top) /\ at >= p /\ at >= top
  BY <1>2
<1>4. /\ n \in [initialized: BOOLEAN, highest: Number, list: Seq(Entry)]
      /\ n.initialized = TRUE /\ n.highest = at % Modulus /\ Len(n.list) <= MaxNacks
      /\ Placed(n.list, at)
      /\ ~ShouldSend(nack, rr, seq, now) => n.list \in Seq(Sent)
  BY <1>3, ListHandled
<1>5. /\ Counters(r) /\ r.base_seq # -1 /\ r.packets_received = rr.packets_received + 1
      /\ r.max_seq = at % Modulus /\ r.cycle = at \div Modulus
      /\ r.lost = rr.lost /\ r.frac_lost = rr.frac_lost
  BY <1>3, RrHandled
<1>6. /\ top' = at /\ got' = got \cup {p} /\ now' = now /\ first' = first
      /\ rr.packets_received < MaxPackets
  BY <1>3 DEF Read, Reached
<1> HIDE DEF n, r
<1>7. /\ rr'.packets_received = rr.packets_received + 1
      /\ rr'.max_seq = at % Modulus /\ rr'.cycle = at \div Modulus
      /\ rr'.lost \in Nat /\ rr'.frac_lost \in 0 .. 255
  <2>1. CASE ShouldSend(nack, rr, seq, now)
    <3>1. PICK delay \in NextDelay : rr' = GenerateReceiverReport(r, now, delay)
      BY <2>1 DEF Read, r
    <3> QED
      BY <1>1, <1>5, <3>1, RrReported
  <2>2. CASE ~ShouldSend(nack, rr, seq, now)
    <3>1. rr' = r
      BY <2>2 DEF Read, r
    <3> QED
      BY <1>1, <1>5, <3>1
  <2> QED
    BY <2>1, <2>2
<1>8. /\ nack' \in [initialized: BOOLEAN, highest: Number, list: Seq(Sent)] /\ Len(nack'.list) <= MaxNacks
      /\ nack'.initialized = TRUE /\ nack'.highest = at % Modulus
      /\ Placed(nack'.list, at) /\ requested' \subseteq first + 1 .. at
  <2>1. CASE ShouldSend(nack, rr, seq, now)
    <3>1. PICK l : l = ListAfterReport(n.list, now)
      OBVIOUS
    <3>2. n.list \in Seq(Entry) /\ n.highest \in Number
      BY <1>4
    <3>3. l \in Seq(Sent) /\ Len(l) <= MaxNacks /\ Placed(l, at)
      BY <1>1, <1>4, <3>1, <3>2, ListReported
    <3>4. nack' = [n EXCEPT !.list = l]
      BY <2>1, <3>1 DEF Read, n
    <3>5. /\ nack' \in [initialized: BOOLEAN, highest: Number, list: Seq(Sent)] /\ nack'.list = l
          /\ nack'.initialized = TRUE /\ nack'.highest = at % Modulus
      BY <1>4, <3>3, <3>4
    <3>6. requested' = Wanted(n.list, now, at)
      BY <1>3, <1>4, <2>1 DEF Read, n, Reached, Wanted
    <3>7. requested' \subseteq first + 1 .. at
      <4>1. PICK w, list : w = requested' /\ list = n.list
        OBVIOUS
      <4>2. list \in Seq(Entry) /\ Placed(list, at) /\ w = Wanted(list, now, at)
        BY <1>4, <3>2, <3>6, <4>1
      <4>3. \A q \in w : q \in first + 1 .. at
        BY <1>1, <4>2, WantedPlaces
      <4> QED
        BY <4>1, <4>3
    <3> QED
      BY <3>3, <3>5, <3>7
  <2>2. CASE ~ShouldSend(nack, rr, seq, now)
    <3>1. nack' = n /\ requested' = {}
      BY <2>2 DEF Read, n
    <3> QED
      BY <1>4, <2>2, <3>1
  <2> QED
    BY <2>1, <2>2
<1>9. at <= first + (rr.packets_received + 1) * MaxAhead
  <2>1. PICK k \in Nat, a \in Nat : k = rr.packets_received /\ a = MaxAhead
    BY <1>1, Ranges
  <2>2. (k + 1) * a = k * a + a /\ k * a \in Nat
    BY <2>1
  <2>3. at <= top + a
    <3>1. CASE got = {}
      <4>1. p = first /\ top = first
        BY <3>1 DEF Stream, Synchronised
      <4> QED
        BY <1>1, <1>3, <2>1, <4>1 DEF Reached
    <3>2. CASE got # {}
      BY <1>1, <1>3, <2>1, <3>2 DEF Reached, Near
    <3> QED
      BY <3>1, <3>2
  <2> QED
    BY <1>1, <2>1, <2>2, <2>3
<1>10. at \in got \cup {p}
  <2>1. CASE got = {}
    <3>1. p = first /\ top = first
      BY <2>1 DEF Stream, Synchronised
    <3> QED
      BY <1>1, <1>3, <3>1 DEF Reached
  <2>2. CASE got # {}
    <3>1. top \in got
      BY <2>2 DEF Stream, Synchronised
    <3> QED
      BY <1>3, <3>1 DEF Reached
  <2> QED
    BY <2>1, <2>2
<1>11. (Placed(nack.list, top))'
  BY <1>6, <1>8 DEF Placed
<1>12. Synchronised'
  BY <1>6, <1>7, <1>8, <1>10 DEF Synchronised
<1>13. (rr.packets_received <= MaxPackets)'
  BY <1>1, <1>6, <1>7, Ranges
<1>14. (got \subseteq Nat /\ (\A q \in got : q <= top) /\ first <= top)'
  BY <1>1, <1>3, <1>6
<1>15. (top <= first + rr.packets_received * MaxAhead)'
  BY <1>6, <1>7, <1>9
<1>16. (now \in 1 .. MaxTime /\ requested \subseteq first + 1 .. top)'
  BY <1>1, <1>6, <1>8
<1> QED
  BY <1>7, <1>8, <1>11, <1>12, <1>13, <1>14, <1>15, <1>16 DEF Stream

\* The packet of a step.
LEMMA Received ==
    ASSUME Stream, Receive
    PROVE  \E p \in Nat : Read(p) /\ (got = {} => p = first) /\ (got # {} => Near(p, top))
<1>1. top \in Nat /\ first \in Nat /\ MaxBehind \in Nat /\ MaxAhead \in Nat
  BY Ranges DEF Stream, Inv, Number
<1>2. CASE got = {}
  BY <1>1, <1>2 DEF Receive
<1>3. CASE got # {}
  <2>1. PICK p \in top - MaxBehind .. top + MaxAhead : p >= 0 /\ Read(p)
    BY <1>3 DEF Receive
  <2> QED
    BY <1>1, <1>3, <2>1 DEF Near
<1> QED
  BY <1>2, <1>3

\* The state before the first packet.
LEMMA InitStream == Init => Stream
<1> SUFFICES ASSUME Init PROVE Stream
  OBVIOUS
<1>1. Inv
  BY InitInv
<1>2. nack \in [initialized: BOOLEAN, highest: Number, list: Seq(Sent)] /\ nack.list = <<>> /\ Len(nack.list) = 0
  BY Ranges DEF Init, NewNack, Number
<1>3. first \in Nat /\ top = first /\ first + 0 * MaxAhead = first
  BY <1>1, Ranges DEF Inv, Init, Number
<1>4. Placed(nack.list, top)
  BY <1>2 DEF Placed
<1>5. Synchronised
  BY DEF Init, NewNack, NewRr, Synchronised
<1> QED
  BY <1>1, <1>2, <1>3, <1>4, <1>5, Ranges DEF Init, NewRr, Stream

\* Every step keeps the generators at the place of the stream.
LEMMA StepStream == Stream /\ FractionExact /\ [Next]_vars => Stream'
<1> SUFFICES ASSUME Stream, FractionExact, [Next]_vars PROVE Stream'
  OBVIOUS
<1>1. Inv'
  BY StepInv DEF Stream
<1>2. CASE Receive
  BY <1>1, <1>2, Received, ReadStream
<1>3. CASE Tick
  <2>1. now' \in 1 .. MaxTime
    BY <1>3, Ranges DEF Tick, Stream
  <2>2. /\ nack' = nack /\ rr' = rr /\ first' = first /\ top' = top /\ got' = got /\ requested' = {}
    BY <1>3 DEF Tick
  <2>3. (Placed(nack.list, top))' /\ Synchronised'
    BY <2>2 DEF Stream, Placed, Synchronised
  <2> QED
    BY <1>1, <2>1, <2>2, <2>3 DEF Stream
<1>4. CASE UNCHANGED vars
  <2>1. /\ nack' = nack /\ rr' = rr /\ first' = first /\ top' = top /\ got' = got /\ requested' = requested
        /\ now' = now
    BY <1>4 DEF vars, history
  <2>2. (Placed(nack.list, top))' /\ Synchronised'
    BY <2>1 DEF Stream, Placed, Synchronised
  <2> QED
    BY <1>1, <2>1, <2>2 DEF Stream
<1> QED
  BY <1>2, <1>3, <1>4 DEF Next

\* The reports and the nack list follow the stream for ever: the invariant that
\* the theorems below rest on.
LEMMA Followed == Spec => [](Stream /\ FractionExact)
<1>1. Init => Stream /\ FractionExact
  BY InitInv, InitStream
<1>2. Stream /\ FractionExact /\ [Next]_vars => (Stream /\ FractionExact)'
  BY StepInv, StepStream DEF Stream
<1> QED
  BY <1>1, <1>2, PTL DEF Spec

\* Type correctness.  The list never outgrows kMaxNacks, and it never holds an
\* entry that was not asked for at least once, nor one that was asked for too
\* often (RtcpNackGenerator.cpp).
THEOREM TypeCorrect == Spec => []TypeOK
<1>1. Stream => TypeOK
  <2> SUFFICES ASSUME Stream PROVE TypeOK
    OBVIOUS
  <2>1. /\ first \in Number /\ top \in Nat /\ rr.packets_received \in Nat /\ rr.packets_received <= MaxPackets
        /\ top <= first + rr.packets_received * MaxAhead
    BY DEF Stream, Inv, Counters, RrRecord
  <2>2. rr.packets_received * MaxAhead <= MaxPackets * MaxAhead /\ MaxPackets * MaxAhead \in Nat
    <3>1. PICK k \in Nat, a \in Nat, m \in Nat : k = rr.packets_received /\ a = MaxAhead /\ m = MaxPackets /\ k <= m
      BY <2>1, Ranges
    <3>2. PICK d \in Nat : m = k + d
      <4>1. m - k \in Nat /\ m = k + (m - k)
        BY <3>1
      <4> QED
        BY <4>1
    <3>3. (k + d) * a = k * a + d * a /\ d * a \in Nat /\ k * a \in Nat
      BY <3>1
    <3> QED
      BY <3>1, <3>2, <3>3
  <2>3. top <= Modulus + MaxPackets * MaxAhead /\ first \in Nat
    <3>1. PICK x \in Nat, y \in Nat : x = MaxPackets * MaxAhead /\ y = rr.packets_received * MaxAhead
      BY <2>1, <2>2, Ranges
    <3> QED
      BY <2>1, <2>2, <3>1, Ranges DEF Number
  <2>4. got \subseteq Place
    BY <2>1, <2>2, <2>3, Ranges DEF Stream, Place
  <2>5. requested \subseteq Place
    BY <2>1, <2>2, <2>3, Ranges DEF Stream, Place
  <2>6. \A i \in 1 .. Len(nack.list) : nack.list[i] \in Sent
    BY DEF Stream
  <2> QED
    BY <2>4, <2>5, <2>6 DEF Stream, TypeOK, Sent
<1> QED
  BY <1>1, Followed, PTL

\* The extended number of every report and the highest number of the nack list
\* are those of the stream, for ever, however often the numbers wrap around
\* (RtcpRrGenerator::handleRtpPacket, RtcpNackGenerator::handleRtpPacket).
THEOREM WrapCountedTheorem == Spec => []WrapCounted
<1>1. Stream => WrapCounted
  <2> SUFFICES ASSUME Stream, got # {} PROVE ExtendedSeq(rr) = top /\ nack.highest = top % Modulus
    BY DEF WrapCounted
  <2>1. /\ nack.highest = top % Modulus /\ rr.max_seq = top % Modulus /\ rr.cycle = top \div Modulus
        /\ top \in Int
    BY DEF Stream, Synchronised, Inv
  <2>2. top % Modulus \in 0 .. Modulus - 1 /\ top \div Modulus \in Int /\ top = Modulus * (top \div Modulus) + (top % Modulus)
    BY <2>1, Ranges, ModDef
  <2>3. PICK k \in Int, m \in Int : k = top \div Modulus /\ m = top % Modulus /\ top = Modulus * k + m
    BY <2>2, Ranges
  <2>4. Modulus * k = k * Modulus
    BY Ranges
  <2> QED
    BY <2>1, <2>3, <2>4 DEF ExtendedSeq
<1> QED
  BY <1>1, Followed, PTL

-----------------------------------------------------------------------------
Losses == full \in BOOLEAN /\ EveryLossAsked

\* The places asked for after a step.
LEMMA AskedPlaces ==
    ASSUME NEW b, NEW w, NEW q
    PROVE  BagIn(q, b (+) SetToBag(w)) <=> BagIn(q, b) \/ q \in w
  BY DEF BagIn, BagToSet, (+), SetToBag

\* A packet that leaves a gap in the stream is answered, and what is missing in
\* the gap is asked for (RtcpFeedbackGenerationHandler::read).
LEMMA GapAsked ==
    ASSUME Stream, NEW p \in Nat, Near(p, top), got # {}, Read(p),
           ~Overfull(nack, p % Modulus), NEW q \in top + 1 .. p - 1
    PROVE  BagIn(q, asks')
<1> DEFINE seq == p % Modulus
           n == NackHandleRtpPacket(nack, seq)
<1>1. /\ top \in Nat /\ first \in Nat /\ first <= top /\ p > top /\ now \in 1 .. MaxTime /\ nack.list \in Seq(Sent)
  <2>1. top \in Nat /\ first \in Nat
    BY Ranges DEF Stream, Inv, Number
  <2> QED
    BY <2>1 DEF Stream
<1>2. nack.initialized = TRUE /\ nack.highest = top % Modulus
  BY DEF Stream, Synchronised
<1>3. InOrder(nack, seq)
  BY <1>1, <1>2, OrderFollows
<1>4. nack.list \in Seq(Entry)
  <2>1. Sent \subseteq Entry
    BY DEF Entry
  <2> QED
    BY <1>1, <2>1, SeqMonotonic
<1>5. PICK l : l = AddNacks(nack, seq)
  OBVIOUS
<1>6. Len(nack.list \o Skipped(nack, seq)) <= MaxNacks
  <2>1. ~(Len(nack.list \o Skipped(nack, seq)) > MaxNacks)
    BY <1>3 DEF Overfull
  <2>2. Skipped(nack, seq) \in Seq(Entry)
    BY <1>1, <1>2, SkippedPlaces
  <2>3. nack.list \o Skipped(nack, seq) \in Seq(Entry)
    BY <1>4, <2>2, ConcatProperties
  <2>4. Len(nack.list \o Skipped(nack, seq)) \in Nat
    BY <2>3, LenProperties
  <2>5. PICK c \in Nat : c = Len(nack.list \o Skipped(nack, seq))
    BY <2>4
  <2>6. ~(c > MaxNacks)
    BY <2>1, <2>5, Zenon
  <2>7. c <= MaxNacks
    BY <2>6, Ranges
  <2> QED
    BY <2>5, <2>7, Zenon
<1>7. l \in Seq(Entry) /\ AllAdded(l, nack.list, top, p)
  BY <1>1, <1>2, <1>4, <1>5, <1>6, AddedPlaces
<1>8. PICK i \in 1 .. p - top - 1 : q = top + i
  <2>1. q - top \in 1 .. p - top - 1 /\ q = top + (q - top)
    BY <1>1
  <2> QED
    BY <2>1
<1>9. PICK k \in 1 .. Len(l) : l[k] = NackInfo(q % Modulus)
  <2>1. Len(nack.list) + i \in 1 .. Len(l) /\ l[Len(nack.list) + i] = NackInfo((top + i) % Modulus)
    BY <1>7, <1>8 DEF AllAdded
  <2> QED
    BY <1>8, <2>1
<1>10. Asked(l[k], now) /\ q % Modulus = l[k].seq_num
  BY <1>9, Ranges DEF NackInfo, Asked, IsTimeToRetransmit, Exhausted
<1>11. ShouldSend(nack, rr, seq, now)
  <2>1. l # <<>>
    BY <1>9
  <2> QED
    BY <1>3, <1>5, <2>1 DEF ShouldSend, WantsNack
<1>12. PICK at \in Nat : at = p /\ at = Reached(p, top)
  BY <1>1 DEF Reached
<1>13. n.list = l /\ n.highest = at % Modulus /\ Placed(l, at)
  <2>1. n.highest = at % Modulus /\ Placed(n.list, at)
    BY <1>12, ListHandled
  <2>2. n.list = l
    BY <1>1, <1>2, <1>3, <1>5 DEF NackHandleRtpPacket, Stream
  <2> QED
    BY <2>1, <2>2
<1>14. asks' = asks (+) SetToBag(Wanted(l, now, at))
  BY <1>11, <1>12, <1>13 DEF Read, Reached, Wanted
<1>15. q \in Wanted(l, now, at)
  <2>0. p - top <= MaxAhead /\ MaxAhead < Modulus /\ MaxAhead \in Nat /\ Modulus \in Nat
    BY Ranges DEF Near
  <2>2. q \in Int /\ top < q /\ q < p /\ first <= top /\ first \in Int /\ top \in Int
    BY <1>1
  <2>3. first + 1 <= q /\ q <= p /\ p - q < Modulus
    BY <2>0, <2>2
  <2>4. q \in first + 1 .. p
    BY <2>2, <2>3
  <2>1. q \in first + 1 .. at /\ at - q < Modulus
    BY <1>12, <2>3, <2>4
  <2> QED
    BY <1>1, <1>7, <1>10, <1>13, <2>1, WantedPlaces
<1> QED
  BY <1>14, <1>15, AskedPlaces

\* What has been asked for stays so.
LEMMA AsksGrow ==
    ASSUME NEW p, Read(p), NEW q, BagIn(q, asks)
    PROVE  BagIn(q, asks')
<1>1. asks' = asks \/ \E w : asks' = asks (+) SetToBag(w)
  <2>1. CASE ShouldSend(nack, rr, p % Modulus, now)
    BY <2>1 DEF Read
  <2>2. CASE ~ShouldSend(nack, rr, p % Modulus, now)
    BY <2>2 DEF Read
  <2> QED
    BY <2>1, <2>2
<1> QED
  BY <1>1, AskedPlaces

\* Every packet keeps it that all losses have been asked for.
LEMMA ReadLosses ==
    ASSUME Stream, Losses, NEW p \in Nat, got = {} => p = first, got # {} => Near(p, top), Read(p)
    PROVE  Losses'
<1>1. /\ full' = (full \/ Overfull(nack, p % Modulus)) /\ top' = (IF p > top THEN p ELSE top)
      /\ got' = got \cup {p} /\ first' = first
  BY DEF Read
<1>2. full' \in BOOLEAN
  BY <1>1
<1>3. top \in Nat /\ first \in Nat
  BY Ranges DEF Stream, Inv, Number
<1>4. ASSUME ~full', NEW q \in first + 1 .. top' PROVE q \in got' \/ BagIn(q, asks')
  <2>1. ~full /\ ~Overfull(nack, p % Modulus)
    BY <1>1, <1>4 DEF Losses
  <2>2. CASE q <= top
    <3>1. q \in got \/ BagIn(q, asks)
      BY <1>3, <2>1, <2>2 DEF Losses, EveryLossAsked
    <3> QED
      BY <1>1, <3>1, AsksGrow
  <2>3. CASE q > top
    <3>1. p > top /\ q \in top + 1 .. p
      BY <1>1, <1>3, <2>3
    <3>2. got # {}
      <4>1. got = {} => p = top
        BY DEF Stream, Synchronised
      <4> QED
        BY <1>3, <3>1, <4>1
    <3>3. CASE q = p
      BY <1>1, <3>3
    <3>4. CASE q # p
      <4>1. q \in top + 1 .. p - 1
        BY <1>3, <3>1, <3>4
      <4> QED
        BY <2>1, <3>2, <4>1, GapAsked
    <3> QED
      BY <3>3, <3>4
  <2>4. q <= top \/ q > top
    BY <1>3
  <2> QED
    BY <2>2, <2>3, <2>4
<1>5. EveryLossAsked'
  BY <1>1, <1>4 DEF EveryLossAsked
<1> QED
  BY <1>2, <1>5 DEF Losses

\* Every packet of the stream has come or has been asked for, unless the list
\* was once full: a loss is asked for in the step that shows it, whatever was
\* lost, repeated or reordered before (RtcpFeedbackGenerationHandler::read).
THEOREM EveryLossAskedTheorem == Spec => []EveryLossAsked
<1>1. Init => Losses
  <2> SUFFICES ASSUME Init PROVE Losses
    OBVIOUS
  <2>1. first \in Nat /\ top = first /\ full \in BOOLEAN
    BY InitInv, Ranges DEF Inv, Init, Number
  <2>2. first + 1 .. top = {}
    BY <2>1
  <2> QED
    BY <2>1, <2>2 DEF Losses, EveryLossAsked
<1>2. Stream /\ Losses /\ [Next]_vars => Losses'
  <2> SUFFICES ASSUME Stream, Losses, [Next]_vars PROVE Losses'
    OBVIOUS
  <2>1. CASE Receive
    BY <2>1, Received, ReadLosses
  <2>2. CASE Tick \/ UNCHANGED vars
    BY <2>2 DEF Tick, vars, history, Losses, EveryLossAsked
  <2> QED
    BY <2>1, <2>2 DEF Next
<1>3. Losses => EveryLossAsked
  BY DEF Losses
<1> QED
  BY <1>1, <1>2, <1>3, Followed, PTL DEF Spec

-----------------------------------------------------------------------------
\* As long as the stream has not gone all the way round the numbers, an entry
\* stands for one place.

\* How often the place q has been asked for.
Times(q, b) == IF q \in DOMAIN b THEN b[q] ELSE 0

\* The entries of the list are missing, and none of them has been asked for
\* more often than it counts.
Missing(list, at, g, b) ==
    \A i \in 1 .. Len(list) : \A q \in first + 1 .. at :
       q % Modulus = list[i].seq_num => q \notin g /\ Times(q, b) <= list[i].retransmits

\* What has been asked for, how often.
Counts(b, at) == \A q \in DOMAIN b : b[q] \in Nat /\ b[q] <= MaxRetransmits /\ q \in Int /\ q <= at

Misses ==
    /\ Distinct(nack.list)
    /\ Missing(nack.list, top, got, asks)
    /\ Counts(asks, top)
    /\ requested \cap got = {}

Counted(b) == \A x \in DOMAIN b : b[x] \in Nat

\* One more request for the place q if it is wanted.
OnceMore(q, b, w, c) ==
    /\ Times(q, b) \in Nat
    /\ Times(q, c) = Times(q, b) + (IF q \in w THEN 1 ELSE 0)
    /\ DOMAIN c = DOMAIN b \cup w

\* So the bag of requests is counted.
LEMMA CopiesAdded ==
    ASSUME NEW b, Counted(b), NEW w, NEW q
    PROVE  OnceMore(q, b, w, b (+) SetToBag(w))
<1> DEFINE c == SetToBag(w)
           f == [x \in DOMAIN b \cup DOMAIN c |->
                    (IF x \in DOMAIN b THEN b[x] ELSE 0) + (IF x \in DOMAIN c THEN c[x] ELSE 0)]
           d == b (+) c
<1>1. DOMAIN c = w /\ \A x \in w : c[x] = 1
  BY DEF SetToBag
<1>2. d = f
  BY DEF (+)
<1> HIDE DEF c, d
<1>3. DOMAIN d = DOMAIN b \cup w
  BY <1>1, <1>2
<1>4. Times(q, b) = (IF q \in DOMAIN b THEN b[q] ELSE 0) /\ Times(q, b) \in Nat
  BY DEF Times, Counted
<1>5. Times(q, d) = IF q \in DOMAIN b \cup w THEN d[q] ELSE 0
  BY <1>3 DEF Times
<1>6. q \in DOMAIN b \cup w => d[q] = Times(q, b) + (IF q \in w THEN 1 ELSE 0)
  BY <1>1, <1>2, <1>4
<1>7. q \notin DOMAIN b \cup w => Times(q, b) = 0
  BY <1>4
<1> QED
  BY <1>3, <1>4, <1>5, <1>6, <1>7 DEF c, d, OnceMore

\* A report asks for nothing that has come and for nothing too often, and its
\* entries count what it asks for (RtcpNackGenerator::addNackPacketToRr).
LEMMA ReportMisses ==
    ASSUME first \in Nat, NEW list \in Seq(Entry), NEW t \in 1 .. MaxTime, NEW at \in Nat, Placed(list, at),
           Distinct(list), NEW g, NEW b, Missing(list, at, g, b), Counts(b, at),
           NEW w, w = Wanted(list, t, at), NEW l, Kept(l, list, Len(list), t),
           NEW c, c = b (+) SetToBag(w)
    PROVE  Distinct(l) /\ Missing(l, at, g, c) /\ Counts(c, at) /\ w \cap g = {}
<1>1. ASSUME NEW q \in w
      PROVE  /\ q \in first + 1 .. at
             /\ \E i \in 1 .. Len(list) : Asked(list[i], t) /\ q % Modulus = list[i].seq_num
  BY WantedPlaces
<1>2. Counted(b)
  BY DEF Counts, Counted
<1>3. ASSUME NEW q
      PROVE  /\ Times(q, b) \in Nat
             /\ Times(q, c) = Times(q, b) + (IF q \in w THEN 1 ELSE 0)
             /\ DOMAIN c = DOMAIN b \cup w
  <2>1. OnceMore(q, b, w, b (+) SetToBag(w))
    BY <1>2, CopiesAdded
  <2>2. OnceMore(q, b, w, c)
    BY <2>1
  <2> QED
    BY <2>2 DEF OnceMore
<1>4. ASSUME NEW q \in w PROVE q \notin g /\ Times(q, b) < MaxRetransmits
  <2>1. PICK i \in 1 .. Len(list) : Asked(list[i], t) /\ q % Modulus = list[i].seq_num
    BY <1>1
  <2>2. list[i].retransmits \in Nat /\ list[i].retransmits < MaxRetransmits
    <3>1. list[i] \in Entry
      OBVIOUS
    <3> QED
      BY <2>1, <3>1, EntryParts, Ranges DEF Asked, Exhausted
  <2>3. q \notin g /\ Times(q, b) <= list[i].retransmits
    BY <1>1, <2>1 DEF Missing
  <2> QED
    BY <1>3, <2>2, <2>3, Ranges
<1>5. Counts(c, at)
  <2> SUFFICES ASSUME NEW q \in DOMAIN c PROVE c[q] \in Nat /\ c[q] <= MaxRetransmits /\ q \in Int /\ q <= at
    BY DEF Counts
  <2>1. c[q] = Times(q, b) + (IF q \in w THEN 1 ELSE 0) /\ Times(q, b) \in Nat
    BY <1>3 DEF Times
  <2>2. CASE q \in w
    <3>1. q \in Int /\ q <= at
      BY <1>1, <2>2
    <3> QED
      BY <1>4, <2>1, <2>2, <3>1, Ranges
  <2>3. CASE q \notin w
    <3>1. q \in DOMAIN b
      BY <1>3, <2>3
    <3>2. Times(q, b) = b[q]
      BY <3>1 DEF Times
    <3> QED
      BY <2>1, <2>3, <3>1, <3>2 DEF Counts
  <2> QED
    BY <2>2, <2>3
<1>6. Missing(l, at, g, c)
  <2> SUFFICES ASSUME NEW k \in 1 .. Len(l), NEW q \in first + 1 .. at, q % Modulus = l[k].seq_num
               PROVE  q \notin g /\ Times(q, c) <= l[k].retransmits
    BY DEF Missing
  <2>1. PICK j \in 1 .. Len(list) : ~Erased(list[j], t) /\ l[k] = After(list[j], t)
    BY DEF Kept
  <2>2. list[j] \in Entry
    OBVIOUS
  <2>3. /\ l[k].seq_num = list[j].seq_num
        /\ l[k].retransmits = IF Asked(list[j], t) THEN list[j].retransmits + 1 ELSE list[j].retransmits
        /\ list[j].retransmits \in Nat
    BY <2>1, <2>2, AfterSent, EntryParts, Ranges
  <2>4. q \notin g /\ Times(q, b) <= list[j].retransmits
    BY <2>3 DEF Missing
  <2>5. CASE Asked(list[j], t)
    BY <1>3, <2>3, <2>4, <2>5
  <2>6. CASE ~Asked(list[j], t)
    <3>1. q \notin w
      <4> SUFFICES ASSUME q \in w PROVE FALSE
        OBVIOUS
      <4>1. PICK i \in 1 .. Len(list) : Asked(list[i], t) /\ q % Modulus = list[i].seq_num
        BY <1>1
      <4>2. i = j
        BY <2>3, <4>1 DEF Distinct
      <4> QED
        BY <2>6, <4>1, <4>2
    <3> QED
      BY <1>3, <2>3, <2>4, <2>6, <3>1
  <2> QED
    BY <2>5, <2>6
<1>7. Distinct(l)
  BY DEF Kept
<1> QED
  BY <1>4, <1>5, <1>6, <1>7

\* The places of a stream that has not gone all the way round.
LEMMA OneRound ==
    ASSUME NEW f \in Nat, NEW t \in Nat, NEW k \in Nat, t <= f + k * MaxAhead, k <= MaxPackets,
           MaxPackets * MaxAhead < Modulus
    PROVE  t - f < Modulus
<1>1. PICK a \in Nat, m \in Nat : a = MaxAhead /\ m = MaxPackets
  BY Ranges
<1>2. PICK d \in Nat : m = k + d
  <2>1. m - k \in Nat /\ m = k + (m - k)
    BY <1>1
  <2> QED
    BY <2>1
<1>3. (k + d) * a = k * a + d * a /\ d * a \in Nat /\ k * a \in Nat
  BY <1>1
<1> QED
  BY <1>1, <1>2, <1>3, Ranges

\* The gap that a packet leaves is missing: its places are new, and so are
\* their numbers.
LEMMA GapMisses ==
    ASSUME first \in Nat, NEW at \in Nat, first <= at, NEW p \in Nat, p > at, p - first < Modulus,
           NEW list \in Seq(Entry), Placed(list, at), Distinct(list),
           NEW g, \A q \in g : q \in Nat /\ q <= at, NEW b, Missing(list, at, g, b), Counts(b, at),
           NEW l \in Seq(Entry), Added(l, list, at, p)
    PROVE  Distinct(l) /\ Missing(l, p, g \cup {p}, b)
<1> DEFINE m == Len(list)
           Old(k) == k <= m /\ k \in 1 .. m /\ l[k] = list[k]
           New(k, q) == q = at + (k - m) /\ q \in at + 1 .. p - 1 /\ l[k] = NackInfo(q % Modulus)
<1>0. m \in Nat /\ Modulus \in Nat \ {0}
  BY Ranges
<1>1. ASSUME NEW k \in 1 .. Len(l) PROVE Old(k) \/ \E q \in Int : New(k, q)
  <2>1. \/ k <= m /\ l[k] = list[k]
        \/ k > m /\ k - m <= p - at - 1 /\ l[k] = NackInfo((at + (k - m)) % Modulus)
    BY DEF Added
  <2>2. CASE k <= m /\ l[k] = list[k]
    BY <1>0, <2>2
  <2>3. CASE k > m /\ k - m <= p - at - 1 /\ l[k] = NackInfo((at + (k - m)) % Modulus)
    <3>1. at + (k - m) \in Int
      BY <1>0
    <3>2. PICK q \in Int : q = at + (k - m)
      BY <3>1
    <3>3. q \in at + 1 .. p - 1
      BY <1>0, <2>3, <3>2
    <3>4. l[k] = NackInfo(q % Modulus)
      BY <2>3, <3>2, Zenon
    <3> QED
      BY <3>2, <3>3, <3>4
  <2> QED
    BY <2>1, <2>2, <2>3
<1>2. \A x, y \in first + 1 .. p : x % Modulus = y % Modulus => x = y
  <2> SUFFICES ASSUME NEW x \in first + 1 .. p, NEW y \in first + 1 .. p, x % Modulus = y % Modulus PROVE x = y
    OBVIOUS
  <2>1. x \in Int /\ y \in Int /\ x - y < Modulus /\ y - x < Modulus
    BY <1>0
  <2> QED
    BY <1>0, <2>1, ModInjective
<1>3. ASSUME NEW k \in 1 .. Len(l), Old(k), NEW q \in first + 1 .. p, q % Modulus = l[k].seq_num
      PROVE  q <= at
  <2>1. PICK v \in first + 1 .. at : v % Modulus = list[k].seq_num
    BY <1>3 DEF Placed
  <2>2. v \in first + 1 .. p
    BY <2>1
  <2>3. v = q
    BY <1>2, <1>3, <2>1, <2>2
  <2> QED
    BY <2>1, <2>3
<1>4. ASSUME NEW k \in 1 .. Len(l), NEW v \in Int, New(k, v), NEW q \in first + 1 .. p, q % Modulus = l[k].seq_num
      PROVE  q = v
  <2>1. v \in first + 1 .. p
    BY <1>4
  <2>2. l[k].seq_num = v % Modulus
    BY <1>4 DEF NackInfo
  <2> QED
    BY <1>2, <1>4, <2>1, <2>2
<1>5. ASSUME NEW k \in 1 .. Len(l), NEW v \in Int, New(k, v)
      PROVE  v \in first + 1 .. p /\ v > at /\ v < p /\ v % Modulus = l[k].seq_num /\ l[k].retransmits = 0
  <2>1. l[k].seq_num = v % Modulus /\ l[k].retransmits = 0
    BY <1>5 DEF NackInfo
  <2>2. v \in first + 1 .. p /\ v > at /\ v < p
    BY <1>5
  <2> QED
    BY <2>1, <2>2
<1>6. ASSUME NEW i \in 1 .. Len(l), NEW j \in 1 .. Len(l), l[i].seq_num = l[j].seq_num PROVE i = j
  <2>1. CASE Old(i) /\ Old(j)
    BY <1>6, <2>1 DEF Distinct
  <2>2. ASSUME Old(i), NEW v \in Int, New(j, v) PROVE FALSE
    BY <1>3, <1>5, <1>6, <2>2
  <2>3. ASSUME Old(j), NEW v \in Int, New(i, v) PROVE FALSE
    BY <1>3, <1>5, <1>6, <2>3
  <2>4. ASSUME NEW u \in Int, New(i, u), NEW v \in Int, New(j, v) PROVE i = j
    <3>1. u = v
      BY <1>4, <1>5, <1>6, <2>4
    <3> QED
      BY <1>0, <2>4, <3>1
  <2> HIDE DEF Old, New
  <2> QED
    BY <1>1, <2>1, <2>2, <2>3, <2>4
<1>7. ASSUME NEW k \in 1 .. Len(l), NEW q \in first + 1 .. p, q % Modulus = l[k].seq_num
      PROVE  q \notin g \cup {p} /\ Times(q, b) <= l[k].retransmits
  <2>1. CASE Old(k)
    <3>1. q <= at
      BY <1>3, <1>7, <2>1
    <3>2. q \in first + 1 .. at /\ q # p
      BY <3>1
    <3> QED
      BY <1>7, <2>1, <3>2 DEF Missing
  <2>2. ASSUME NEW v \in Int, New(k, v) PROVE q \notin g \cup {p} /\ Times(q, b) <= l[k].retransmits
    <3>1. q = v /\ v > at /\ v < p /\ l[k].retransmits = 0
      BY <1>4, <1>5, <1>7, <2>2
    <3>2. q \notin DOMAIN b
      BY <3>1 DEF Counts
    <3>3. Times(q, b) = 0
      BY <3>2 DEF Times
    <3>4. q \notin g /\ q # p
      BY <3>1
    <3> QED
      BY <3>1, <3>3, <3>4
  <2> HIDE DEF Old, New
  <2> QED
    BY <1>1, <2>1, <2>2
<1> QED
  BY <1>6, <1>7 DEF Distinct, Missing

\* What a packet makes of the list, before a report
\* (RtcpNackGenerator::handleRtpPacket).
LEMMA HandleMisses ==
    ASSUME Stream, Misses, NEW p \in Nat, got = {} => p = first, got # {} => Near(p, top),
           NEW n, n = NackHandleRtpPacket(nack, p % Modulus), NEW at \in Nat, at = Reached(p, top),
           at - first < Modulus
    PROVE  Distinct(n.list) /\ Missing(n.list, at, got \cup {p}, asks) /\ Counts(asks, at)
<1> DEFINE seq == p % Modulus
<1>1. /\ top \in Nat /\ first \in Nat /\ first <= top /\ nack.list \in Seq(Sent) /\ Placed(nack.list, top)
      /\ \A q \in got : q \in Nat /\ q <= top
  <2>1. top \in Nat /\ first \in Nat
    BY Ranges DEF Stream, Inv, Number
  <2> QED
    BY <2>1 DEF Stream
<1>2. Distinct(nack.list) /\ Missing(nack.list, top, got, asks) /\ Counts(asks, top)
  BY DEF Misses
<1>3. Counts(asks, at)
  <2>1. at >= top
    BY <1>1 DEF Reached
  <2> QED
    BY <1>1, <1>2, <2>1 DEF Counts
<1>4. ASSUME got = {} PROVE Distinct(n.list) /\ Missing(n.list, at, got \cup {p}, asks)
  <2>1. nack.initialized = FALSE /\ nack.list = <<>>
    BY <1>4 DEF Stream, Synchronised
  <2>2. n.list = <<>>
    BY <2>1 DEF NackHandleRtpPacket, Stream
  <2>3. 1 .. Len(n.list) = {}
    BY <2>2
  <2> QED
    BY <2>3 DEF Distinct, Missing
<1>5. ASSUME got # {} PROVE Distinct(n.list) /\ Missing(n.list, at, got \cup {p}, asks)
  <2>1. nack.initialized = TRUE /\ nack.highest = top % Modulus /\ Near(p, top) /\ top \in got
    BY <1>5 DEF Stream, Synchronised
  <2>2. (InOrder(nack, seq) <=> p > top) /\ (seq = nack.highest <=> p = top)
    BY <1>1, <2>1, OrderFollows
  <2>3. nack.list \in Seq(Entry)
    <3>1. Sent \subseteq Entry
      BY DEF Entry
    <3> QED
      BY <1>1, <3>1, SeqMonotonic
  <2>4. CASE p > top
    <3>1. PICK l : l = AddNacks(nack, seq)
      OBVIOUS
    <3>2. l \in Seq(Entry) /\ Added(l, nack.list, top, p)
      BY <1>1, <2>1, <2>3, <2>4, <3>1, AddedPlaces
    <3>3. n.list = l /\ at = p
      BY <1>1, <2>1, <2>2, <2>4, <3>1 DEF NackHandleRtpPacket, Reached, Stream
    <3>4. PICK list \in Seq(Entry) : list = nack.list
      BY <2>3
    <3>5. Distinct(l) /\ Missing(l, p, got \cup {p}, asks)
      <4>1. p - first < Modulus
        BY <3>3
      <4>2. Placed(list, top) /\ Distinct(list) /\ Missing(list, top, got, asks) /\ Added(l, list, top, p)
        BY <1>1, <1>2, <3>2, <3>4
      <4> QED
        BY <1>1, <1>2, <2>4, <3>2, <4>1, <4>2, GapMisses
    <3> QED
      BY <3>3, <3>5
  <2>5. CASE p = top
    <3>1. n = nack /\ at = top
      BY <1>1, <2>1, <2>2, <2>5 DEF NackHandleRtpPacket, Reached
    <3>2. got \cup {p} = got
      BY <2>1, <2>5
    <3> QED
      BY <1>2, <3>1, <3>2
  <2>6. CASE p < top
    <3>1. PICK l : l = Recovered(nack.list, seq)
      OBVIOUS
    <3>2. /\ \A k \in 1 .. Len(l) : \E j \in 1 .. Len(nack.list) : l[k] = nack.list[j]
          /\ Distinct(l) /\ \A k \in 1 .. Len(l) : l[k].seq_num # seq
      <4>1. PICK list \in Seq(Sent) : list = nack.list /\ Distinct(list)
        BY <1>1, <1>2
      <4>2. l = Recovered(list, seq)
        BY <3>1, <4>1
      <4>3. /\ \A k \in 1 .. Len(l) : \E j \in 1 .. Len(list) : l[k] = list[j]
            /\ Distinct(l) /\ \A k \in 1 .. Len(l) : l[k].seq_num # seq
        BY <4>1, <4>2, RecoveredEntries
      <4> QED
        BY <4>1, <4>3
    <3>3. n.list = l /\ at = top
      <4>1. n = [nack EXCEPT !.list = l] /\ at = top
        BY <1>1, <2>1, <2>2, <2>6, <3>1 DEF NackHandleRtpPacket, Reached
      <4> QED
        BY <4>1 DEF Stream
    <3>4. Missing(l, top, got \cup {p}, asks)
      <4> SUFFICES ASSUME NEW k \in 1 .. Len(l), NEW q \in first + 1 .. top, q % Modulus = l[k].seq_num
                   PROVE  q \notin got \cup {p} /\ Times(q, asks) <= l[k].retransmits
        BY DEF Missing
      <4>1. PICK j \in 1 .. Len(nack.list) : l[k] = nack.list[j]
        BY <3>2
      <4>2. q \notin got /\ Times(q, asks) <= l[k].retransmits
        BY <1>2, <4>1 DEF Missing
      <4>3. q # p
        BY <3>2
      <4> QED
        BY <4>2, <4>3
    <3> QED
      BY <3>2, <3>3, <3>4
  <2>7. p > top \/ p = top \/ p < top
    BY <1>1
  <2> QED
    BY <2>4, <2>5, <2>6, <2>7, Zenon
<1> QED
  BY <1>3, <1>4, <1>5

\* The step of a packet asks only for packets that are missing, and not too
\* often (RtcpFeedbackGenerationHandler::read).
LEMMA ReadMisses ==
    ASSUME Stream, Stream', Misses, MaxPackets * MaxAhead < Modulus,
           NEW p \in Nat, got = {} => p = first, got # {} => Near(p, top), Read(p)
    PROVE  Misses'
<1> DEFINE seq == p % Modulus
           n == NackHandleRtpPacket(nack, seq)
<1>1. top \in Nat /\ first \in Nat /\ now \in 1 .. MaxTime
  <2>1. top \in Nat /\ first \in Nat
    BY Ranges DEF Stream, Inv, Number
  <2> QED
    BY <2>1 DEF Stream
<1>2. Reached(p, top) \in Nat
  BY <1>1 DEF Reached
<1>3. PICK at \in Nat : at = Reached(p, top)
  BY <1>2
<1>4. top' = at /\ got' = got \cup {p} /\ first' = first
  BY <1>3 DEF Read, Reached
<1>5. at - first < Modulus
  <2>1. (/\ first \in Nat /\ top \in Nat /\ rr.packets_received \in Nat /\ rr.packets_received <= MaxPackets
         /\ top <= first + rr.packets_received * MaxAhead)'
    <3>1. (/\ first \in Nat /\ top \in Nat /\ rr.packets_received \in Nat)'
      BY Ranges DEF Stream, Inv, Number, Counters, RrRecord
    <3> QED
      BY <3>1 DEF Stream
  <2>2. PICK k \in Nat : k = rr'.packets_received
    BY <2>1
  <2> QED
    BY <1>1, <1>4, <2>1, <2>2, OneRound
<1>6. PICK list \in Seq(Entry) :
        /\ list = n.list /\ Placed(list, at) /\ n.highest = at % Modulus
        /\ n \in [initialized: BOOLEAN, highest: Number, list: Seq(Entry)]
  <2>1. /\ n \in [initialized: BOOLEAN, highest: Number, list: Seq(Entry)]
        /\ n.highest = at % Modulus /\ Placed(n.list, at)
    BY <1>3, ListHandled
  <2> QED
    BY <2>1
<1>7. Distinct(list) /\ Missing(list, at, got', asks) /\ Counts(asks, at)
  <2>1. Distinct(n.list) /\ Missing(n.list, at, got \cup {p}, asks) /\ Counts(asks, at)
    BY <1>3, <1>5, HandleMisses
  <2> QED
    BY <1>4, <1>6, <2>1
<1> HIDE DEF n
<1>8. Distinct(nack'.list) /\ Missing(nack'.list, at, got', asks') /\ Counts(asks', at) /\ requested' \cap got' = {}
  <2>1. CASE ShouldSend(nack, rr, seq, now)
    <3>1. PICK w, l, c : w = Wanted(list, now, at) /\ l = ListAfterReport(list, now) /\ c = asks (+) SetToBag(w)
      OBVIOUS
    <3>2. Kept(l, list, Len(list), now)
      BY <1>1, <3>1, WalkVisits DEF Visited, ListAfterReport
    <3>3. Distinct(l) /\ Missing(l, at, got', c) /\ Counts(c, at) /\ w \cap got' = {}
      BY <1>1, <1>6, <1>7, <3>1, <3>2, ReportMisses
    <3>4. nack' = [n EXCEPT !.list = l] /\ requested' = w /\ asks' = c
      BY <1>3, <1>6, <2>1, <3>1 DEF Read, n, Reached, Wanted
    <3>5. nack'.list = l
      BY <1>6, <3>4
    <3> QED
      BY <3>3, <3>4, <3>5
  <2>2. CASE ~ShouldSend(nack, rr, seq, now)
    <3>1. nack' = n /\ requested' = {} /\ asks' = asks
      BY <2>2 DEF Read, n
    <3> QED
      BY <1>6, <1>7, <3>1
  <2> QED
    BY <2>1, <2>2
<1> QED
  BY <1>4, <1>8 DEF Misses, Missing

\* Every step asks only for packets that are missing, and not too often.
LEMMA Missed ==
    ASSUME MaxPackets * MaxAhead < Modulus
    PROVE  Spec => []Misses
<1>1. Init => Misses
  <2> SUFFICES ASSUME Init PROVE Misses
    OBVIOUS
  <2>1. nack.list = <<>> /\ 1 .. Len(nack.list) = {}
    BY DEF Init, NewNack
  <2>2. DOMAIN asks = {}
    BY DEF Init, EmptyBag, SetToBag
  <2> QED
    BY <2>1, <2>2 DEF Init, Misses, Distinct, Missing, Counts
<1>2. Stream /\ Stream' /\ Misses /\ [Next]_vars => Misses'
  <2> SUFFICES ASSUME Stream, Stream', Misses, [Next]_vars PROVE Misses'
    OBVIOUS
  <2>1. CASE Receive
    BY <2>1, Received, ReadMisses
  <2>2. CASE Tick \/ UNCHANGED vars
    <3>1. nack' = nack /\ first' = first /\ top' = top /\ got' = got /\ asks' = asks
          /\ (requested' = requested \/ requested' = {})
      BY <2>2 DEF Tick, vars, history
    <3> QED
      BY <3>1 DEF Misses, Missing
  <2> QED
    BY <2>1, <2>2 DEF Next
<1> QED
  BY <1>1, <1>2, Followed, PTL DEF Spec

\* No packet that has come is asked for again, while the stream does not go all
\* the way round the numbers: the mask of a block names exactly the entries that
\* are due (RtcpNackGenerator::addNackPacketToRr).
THEOREM NackOnlyMissingTheorem ==
    ASSUME MaxPackets * MaxAhead < Modulus
    PROVE  Spec => []NackOnlyMissing
<1>1. Misses => NackOnlyMissing
  BY DEF Misses, NackOnlyMissing
<1> QED
  BY <1>1, Missed, PTL

\* No packet is asked for more than kMaxRetransmits times, while the stream does
\* not go all the way round the numbers: what is asked for too often is erased
\* before it is asked for again (RtcpNackGenerator::addNackPacketToRr).
THEOREM AskLimitTheorem ==
    ASSUME MaxPackets * MaxAhead < Modulus
    PROVE  Spec => []AskLimit
<1>1. Misses => AskLimit
  BY DEF Misses, Counts, AskLimit, BagToSet
<1> QED
  BY <1>1, Missed, PTL
=============================================================================
