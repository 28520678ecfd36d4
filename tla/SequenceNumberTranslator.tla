---------------------- MODULE SequenceNumberTranslator ----------------------
(***************************************************************************)
(* rtp/SequenceNumberTranslator: the sequence numbers of a stream from     *)
(* which packets are dropped (skipped) and to which packets are added      *)
(* (generated), renumbered without holes, with numbers that wrap around    *)
(* and two ring buffers that remember the most recent translations.        *)
(* The width of a sequence number is a parameter: 16 in RTP, 15 for        *)
(* picture ids.  The integers are 16 bits wide in both cases, and not all  *)
(* results are cut to the width of the number.                             *)
(*                                                                         *)
(* An operator named X_Y is a variant of X with a fault, Y: the properties *)
(* that detect it are listed in PROJECT.json.                              *)
(***************************************************************************)
EXTENDS Integers, FiniteSetsExt

CONSTANTS
    Bits,          \* bits_
    WordBits,      \* the width of the integers, uint16_t
    BufferSize,    \* max_number_in_buffer_
    MaxDistance,   \* max_distance_
    Starts,        \* sequence numbers a stream, or what follows a reset, begins with
    SkipAfterLoss, \* whether a dropped packet may follow a loss
    MaxJump,       \* bound: how far ahead of the last packet the next one is
    MaxGenerate,   \* bound: packets generated between two translated ones
    MaxCalls       \* bound: calls

ASSUME TranslatorAssumption ==
    /\ Bits \in Nat /\ Bits > 4
    /\ WordBits \in Nat /\ WordBits >= Bits
    /\ BufferSize \in Nat \ {0}
    /\ MaxDistance \in Nat
    /\ SkipAfterLoss \in BOOLEAN
    /\ MaxJump \in Nat /\ MaxGenerate \in Nat /\ MaxCalls \in Nat

Modulus == 2 ^ Bits
WordModulus == 2 ^ WordBits
ASSUME StartsAssumption == Starts \subseteq 0 .. Modulus - 1

\* What the proofs use of powers of two.
ASSUME PowerAssumption ==
    /\ 2 ^ (Bits - 4) \in Nat \ {0} /\ Modulus = 16 * 2 ^ (Bits - 4)
    /\ WordModulus \in Nat \ {0} /\ Modulus <= WordModulus /\ WordModulus % Modulus = 0

\* The window is smaller than the buffer and than what counts as ahead, as for
\* both translators of the code (500 of 1024, 16 bits; 250 of 511, 15 bits).
ASSUME DistanceAssumption == MaxDistance < BufferSize /\ MaxDistance < 2 ^ (Bits - 4)

VARIABLES
    in_out,          \* in_out_buffer_
    out_in,          \* out_in_buffer_
    first_input,
    last_input,
    last_output,
    offset,
    initialized,
    reset,
    calls,           \* calls made so far
    asked,           \* the input of the last get(input, skip)
    result           \* what it returned

buffers == <<in_out, out_in>>
vars == <<buffers, first_input, last_input, last_output, offset, initialized, reset, calls, asked, result>>

Number == 0 .. Modulus - 1
Word == 0 .. WordModulus - 1
SN(i, o, t) == [input |-> i, output |-> o, type |-> t]
SequenceNumber == [input : Number, output : Word, type : {"Valid", "Skip", "Discard", "Generated"}]
Blank == SN(0, 0, "Valid")

TypeOK ==
    /\ in_out \in [0 .. BufferSize - 1 -> SequenceNumber]
    /\ out_in \in [0 .. BufferSize - 1 -> SequenceNumber]
    /\ first_input \in Word
    /\ last_input \in Number
    /\ last_output \in Word
    /\ offset \in 0 .. MaxGenerate
    /\ initialized \in BOOLEAN
    /\ reset \in BOOLEAN
    /\ calls \in 0 .. MaxCalls
    /\ asked \in Number
    /\ result \in SequenceNumber

EmptyBuffer == [k \in 0 .. BufferSize - 1 |-> Blank]

Init ==
    /\ in_out = EmptyBuffer
    /\ out_in = EmptyBuffer
    /\ first_input = 0
    /\ last_input = 0
    /\ last_output = 0
    /\ offset = 0
    /\ initialized = FALSE
    /\ reset = FALSE
    /\ calls = 0
    /\ asked = 0
    /\ result = Blank

-----------------------------------------------------------------------------
\* RtpUtils::numberLessThan: a is behind b unless it is ahead of it by at
\* most a sixteenth of the range.
LessThan(a, b) == (a - b) % Modulus > 2 ^ (Bits - 4) - 1

\* boundedSequenceNumber
Bounded(n) == n % Modulus

\* What an integer of the code can hold.
Wrap(n) == n % WordModulus

AddOut_Missing(buf, sn) == buf

\* add
AddIn(buf, sn)  == [buf EXCEPT ![sn.input % BufferSize] = sn]
AddOut(buf, sn) == [buf EXCEPT ![sn.output % BufferSize] = sn]

\* fill: the n inputs from `first` on are given the outputs from `out` on; in
\* each slot the last write stays.  Where the inputs wrap around, the code
\* first fills both parts on their own, into slots it then writes again.
Fill(buf, first, out, n, slot) ==
    [k \in DOMAIN buf |->
        LET writes == {j \in 0 .. n - 1 : Bounded(slot + j) % BufferSize = k} IN
        IF writes = {} THEN buf[k]
        ELSE SN(Bounded(first + Max(writes)), Bounded(out + Max(writes)), "Valid")]

FillIn(buf, first, out, n)  == Fill(buf, first, out, n, first)
FillOut(buf, first, out, n) == Fill(buf, first, out, n, out)

\* updateLastOutputSequenceNumber
UpdateLastOutput(skip, out) ==
    last_output' = IF ~skip /\ (LessThan(last_output, out) \/ (~initialized /\ ~reset /\ offset = 0))
                   THEN out ELSE last_output

NextOutput_Repeated == last_output + offset

\* The output after the last one and the generated ones.
NextOutput == last_output + offset + 1

\* get(input, skip) before the first packet that is not skipped.
GetFirst(x, skip) ==
    LET out == IF reset \/ offset > 0 THEN Bounded(NextOutput) ELSE x
        sn  == SN(x, out, IF skip THEN "Skip" ELSE "Valid")
    IN
    /\ ~initialized
    /\ in_out' = AddIn(in_out, sn)
    /\ out_in' = AddOut(out_in, sn)
    /\ UpdateLastOutput(skip, out)
    /\ IF skip THEN UNCHANGED <<first_input, last_input, initialized, reset, offset>>
       ELSE /\ last_input' = x /\ first_input' = x
            /\ initialized' = TRUE /\ reset' = FALSE /\ offset' = 0
    /\ result' = sn

TooOld_Never(x) == FALSE

TooOld(x) == LessThan(x, first_input)

\* get(input, skip) of a packet that comes before all that are remembered.
GetTooOld(x) ==
    /\ initialized /\ TooOld(x)
    /\ result' = SN(x, 0, "Skip")
    /\ UNCHANGED <<buffers, first_input, last_input, last_output, offset, initialized, reset>>

\* get(input, skip) of a packet ahead of all others: those it leaves out get
\* numbers too, they may come late.  Its own output is what fill() counted up
\* to, which fill() does not bound, and neither is the new first input.
GetNew(x, skip) ==
    LET n   == (x - (last_input + 1)) % Modulus
        out == NextOutput
        sn  == SN(x, Wrap(Bounded(out) + n), IF skip THEN "Skip" ELSE "Valid")
    IN
    /\ initialized /\ ~TooOld(x) /\ LessThan(last_input, x)
    /\ in_out' = AddIn(FillIn(in_out, last_input + 1, out, n), sn)
    /\ out_in' = AddOut(FillOut(out_in, last_input + 1, out, n), sn)
    /\ UpdateLastOutput(skip, sn.output)
    /\ last_input' = x
    /\ first_input' = IF LessThan(first_input, x - MaxDistance)
                      THEN Wrap(x - MaxDistance) ELSE first_input
    /\ offset' = IF skip THEN offset ELSE 0
    /\ result' = sn
    /\ UNCHANGED <<initialized, reset>>

\* get(input, skip) of a packet that was left out or was translated before.
GetLate(x, skip) ==
    LET old == in_out[x % BufferSize]
        new == IF skip THEN "Discard" ELSE "Valid"
    IN
    /\ initialized /\ ~TooOld(x) /\ ~LessThan(last_input, x)
    /\ IF old.type = "Valid"
       THEN /\ in_out' = [in_out EXCEPT ![x % BufferSize].type = new]
            /\ out_in' = [out_in EXCEPT ![old.output % BufferSize].type = new]
            /\ result' = [old EXCEPT !.type = new]
       ELSE UNCHANGED buffers /\ result' = old
    /\ UpdateLastOutput(skip, old.output)
    /\ UNCHANGED <<first_input, last_input, offset, initialized, reset>>

\* The packets that can come next: the next ones and the recent ones.
Inputs(skip) ==
    LET jump == IF skip /\ ~SkipAfterLoss THEN 1 ELSE MaxJump IN
    IF initialized THEN {Bounded(last_input + d) : d \in -(MaxDistance + 1) .. jump} ELSE Starts

Get(x, skip) ==
    /\ calls < MaxCalls /\ calls' = calls + 1
    /\ asked' = x
    /\ \/ GetFirst(x, skip)
       \/ GetTooOld(x)
       \/ GetNew(x, skip)
       \/ GetLate(x, skip)

Generate ==
    /\ calls < MaxCalls /\ calls' = calls + 1
    /\ offset < MaxGenerate
    /\ offset' = offset + 1
    /\ out_in' = AddOut(out_in, SN(0, Bounded(offset' + last_output), "Generated"))
    /\ UNCHANGED <<in_out, first_input, last_input, last_output, initialized, reset, asked, result>>

Reset ==
    /\ calls < MaxCalls /\ calls' = calls + 1
    /\ initialized
    /\ initialized' = FALSE
    /\ reset' = TRUE
    /\ first_input' = 0
    /\ last_input' = 0
    /\ in_out' = EmptyBuffer
    /\ out_in' = EmptyBuffer
    /\ UNCHANGED <<last_output, offset, asked, result>>

Next ==
    \/ \E skip \in BOOLEAN : \E x \in Inputs(skip) : Get(x, skip)
    \/ Generate
    \/ Reset

Spec == Init /\ [][Next]_vars

-----------------------------------------------------------------------------
\* reverse
Reverse(o) ==
    LET sn == out_in[o % BufferSize] IN
    IF sn.output # o \/ LessThan(sn.input, first_input) \/ LessThan(last_input, sn.input)
    THEN SN(0, o, "Discard") ELSE sn

Window == {Bounded(first_input + j) : j \in 0 .. (last_input - first_input) % Modulus}
Translation(x) == in_out[x % BufferSize]

\* The outputs from that of the oldest packet of the window to the next one, the
\* generated ones in between included, are fewer than the slots of the buffer.
WindowFits == initialized => (NextOutput - Translation(first_input).output) % Modulus < BufferSize

\* A packet that get(input, skip) declares Valid is the packet it was asked
\* for, although the ring buffer is read without comparing the input.
GetMatches == result.type = "Valid" => result.input = asked

\* reverse() undoes get(): a NACK for an outgoing packet is sent on for the
\* packet it came from, so no two packets share an output.
ReverseInverts ==
    initialized => \A x \in Window :
        Translation(x).type = "Valid" => Reverse(Translation(x).output) = Translation(x)

\* Renumbering keeps the order of the packets.
OutputsOrdered ==
    initialized => \A x, y \in Window :
        /\ Translation(x).type = "Valid" /\ Translation(y).type = "Valid"
        /\ (x - first_input) % Modulus < (y - first_input) % Modulus
        => LessThan(Translation(x).output, Translation(y).output)
=============================================================================
