------------------------- MODULE RtcpNackGenerator -------------------------
(***************************************************************************)
(* The list of lost packets to ask for again                               *)
(* (licodecore/erizo/rtp/RtcpNackGenerator.cpp): operators on the state of *)
(* one generator, a record                                                 *)
(*   initialized, highest   initialized_ and highest_seq_num_              *)
(*   list                   nack_info_list_                                *)
(***************************************************************************)
EXTENDS RtpUtils, SequencesExt

CONSTANTS
    MaxRetransmits,  \* kMaxRetransmits
    MaxNacks,        \* kMaxNacks
    MinNackDelay,    \* kMinNackDelayMs, in ticks
    BlpBits          \* the bits of a block's bitmask, 16 in the code

ASSUME NackAssumption ==
    /\ MaxRetransmits \in Nat \ {0}
    /\ MaxNacks \in Nat \ {0}
    /\ MinNackDelay \in Nat
    /\ BlpBits \in Nat

NackInfo(s) == [seq_num |-> s, retransmits |-> 0, sent_time |-> 0]

NewNack == [initialized |-> FALSE, highest |-> 0, list |-> <<>>]

-----------------------------------------------------------------------------
\* The numbers skipped when seq follows highest.
Skipped(n, seq) ==
    [i \in 1 .. Distance(n.highest, seq) - 1 |-> NackInfo((n.highest + i) % Modulus)]

\* addNacks(): the list is cut at its newest end.
AddNacks_Uncut(n, seq) == n.list \o Skipped(n, seq)

AddNacks(n, seq) ==
    LET all == n.list \o Skipped(n, seq)
    IN  IF Len(all) > MaxNacks THEN SubSeq(all, 1, MaxNacks) ELSE all

\* A packet of the list has come after all.
Recovered_NotErased(list, seq) == list

Recovered(list, seq) == RemoveFirstMatch(list, LAMBDA e : e.seq_num = seq)

\* Whether seq is ahead of all packets before it.
InOrder(n, seq) ==
    n.initialized /\ seq # n.highest /\ ~SequenceNumberLessThan(seq, n.highest)

\* handleRtpPacket(): the generator after packet seq, and its answer.
NackHandleRtpPacket(n, seq) ==
    IF ~n.initialized     THEN [n EXCEPT !.initialized = TRUE, !.highest = seq]
    ELSE IF InOrder(n, seq) THEN [n EXCEPT !.list = AddNacks(n, seq), !.highest = seq]
    ELSE IF seq = n.highest THEN n
    ELSE [n EXCEPT !.list = Recovered(@, seq)]

WantsNack(n, seq) == InOrder(n, seq) /\ AddNacks(n, seq) # <<>>

-----------------------------------------------------------------------------
IsTimeToRetransmit(e, now) == e.sent_time = 0 \/ now - e.sent_time > MinNackDelay

Exhausted_OffByOne(e) == e.retransmits > MaxRetransmits

Exhausted(e) == e.retransmits >= MaxRetransmits

\* addNackPacketToRr() asks for an entry that is due, once more, unless it has
\* been asked for too often: then it is erased.
Asked(e, now)   == IsTimeToRetransmit(e, now) /\ ~Exhausted(e)
Erased(e, now)  == IsTimeToRetransmit(e, now) /\ Exhausted(e)
Stamped(e, now) == [e EXCEPT !.sent_time = now, !.retransmits = @ + 1]

\* The bit of entry e in the mask of the last block.
Bit(acc, e) == (e.seq_num - Last(acc.blocks).pid - 1) % Modulus

\* What its loops do with one entry: acc holds the blocks written and the list
\* left so far, and whether the inner loop is running (open), which goes on
\* while entries are within reach of the block's pid; the others start again
\* from the outer one.
Visit(acc, e, now) ==
    LET near   == acc.open /\ Bit(acc, e) < BlpBits
        blocks == IF near THEN [acc.blocks EXCEPT ![Len(acc.blocks)].blp = @ \cup {Bit(acc, e)}]
                  ELSE Append(acc.blocks, [pid |-> e.seq_num, blp |-> {}])
    IN  IF Asked(e, now)
        THEN [open |-> TRUE, blocks |-> blocks, list |-> Append(acc.list, Stamped(e, now))]
        ELSE [open |-> near, blocks |-> acc.blocks,
              list |-> IF Erased(e, now) THEN acc.list ELSE Append(acc.list, e)]

\* addNackPacketToRr(), up to the last entry.
Walk(list, now) ==
    LET walk[i \in 0 .. Len(list)] ==
            IF i = 0 THEN [open |-> FALSE, blocks |-> <<>>, list |-> <<>>]
            ELSE Visit(walk[i - 1], list[i], now)
    IN  walk[Len(list)]

NackBlocks(list, now)      == Walk(list, now).blocks
ListAfterReport(list, now) == Walk(list, now).list

\* What the sender reads from blocks: the numbers asked for.
Requested(blocks) ==
    UNION {{b.pid} \cup {(b.pid + 1 + k) % Modulus : k \in b.blp} : b \in ToSet(blocks)}
=============================================================================
