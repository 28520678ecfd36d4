------------------- MODULE SequenceNumberTranslatorProofs -------------------
(***************************************************************************)
(* Proofs about SequenceNumberTranslator.  The numbers of the translator   *)
(* wrap around; the invariants say that they are the remainders of         *)
(* unbounded ones, for which "ahead" and "distance" are the usual ones.    *)
(***************************************************************************)
EXTENDS SequenceNumberTranslator, NumberLemmas

Buffer == [0 .. BufferSize - 1 -> SequenceNumber]

\* What counts as ahead: a sixteenth of the range.
Ahead == 2 ^ (Bits - 4)

-----------------------------------------------------------------------------
\* The range of the numbers.
LEMMA Ranges ==
    /\ Modulus \in Nat \ {0} /\ Ahead \in Nat \ {0} /\ Modulus = 16 * Ahead
    /\ BufferSize \in Nat \ {0} /\ MaxDistance \in Nat /\ MaxGenerate \in Nat
    /\ MaxDistance < BufferSize /\ MaxDistance < Ahead
    /\ WordModulus \in Nat \ {0} /\ Modulus <= WordModulus
<1>1. Ahead \in Nat \ {0} /\ Modulus = 16 * Ahead /\ MaxDistance < Ahead
  BY PowerAssumption, DistanceAssumption DEF PowerAssumption, DistanceAssumption, Ahead
<1>2. Modulus \in Nat \ {0}
  BY <1>1
<1> QED
  BY <1>1, <1>2, TranslatorAssumption, DistanceAssumption, PowerAssumption
  DEF TranslatorAssumption, DistanceAssumption, PowerAssumption

\* The comparison of two numbers is that of the unbounded ones, when these are
\* not too far apart (RtpUtils::numberLessThan).
LEMMA LessThanClose ==
    ASSUME NEW p \in Int, NEW q \in Int, p - q < Ahead, q - p <= Modulus - Ahead
    PROVE  LessThan(p % Modulus, q % Modulus) <=> p < q
<1>0. Modulus \in Nat \ {0}
  BY Ranges
<1>1. ((p % Modulus) - (q % Modulus)) % Modulus = (p - q) % Modulus
  BY <1>0, ModDiff
<1>2. (p - q) % Modulus = IF p - q >= 0 THEN p - q ELSE p - q + Modulus
  <2>1. p - q \in Int /\ -Modulus <= p - q /\ p - q < Modulus
    BY Ranges
  <2> QED
    BY <1>0, <2>1, ModSmall
<1>3. LessThan(p % Modulus, q % Modulus) <=> (p - q) % Modulus > Ahead - 1
  BY <1>1 DEF LessThan, Ahead
<1> QED
  BY <1>2, <1>3, Ranges

\* The slot of a number in a buffer.
LEMMA Slot ==
    ASSUME NEW a \in Int
    PROVE  a % BufferSize \in 0 .. BufferSize - 1 /\ a % Modulus \in Number
  BY Ranges, ModDef DEF Number

\* What an integer of the code holds; a number is one.
LEMMA Words ==
    /\ Number \subseteq Word /\ Word \subseteq Int
    /\ \A n \in Int : Wrap(n) \in Word
<1>1. Number \subseteq Word /\ Word \subseteq Int
  BY Ranges DEF Number, Word
<1>2. ASSUME NEW n \in Int PROVE Wrap(n) \in Word
  BY Ranges, ModDef DEF Wrap, Word
<1> QED
  BY <1>1, <1>2

\* The type of what fill() leaves in a slot.
LEMMA FillType ==
    ASSUME NEW buf \in Buffer, NEW first \in Int, NEW out \in Int, NEW n \in Int, NEW slot \in Int,
           NEW k \in 0 .. BufferSize - 1
    PROVE  Fill(buf, first, out, n, slot)[k] \in SequenceNumber
<1> DEFINE writes == {j \in 0 .. n - 1 : Bounded(slot + j) % BufferSize = k}
<1>1. Fill(buf, first, out, n, slot)[k] =
        IF writes = {} THEN buf[k]
        ELSE SN(Bounded(first + Max(writes)), Bounded(out + Max(writes)), "Valid")
  BY DEF Fill, Buffer
<1>2. CASE writes = {}
  BY <1>1, <1>2 DEF Buffer
<1>3. CASE writes # {}
  <2>1. \A x \in writes : x \in Int /\ x <= n
    OBVIOUS
  <2> HIDE DEF writes
  <2>2. \E x \in writes : \A z \in writes : x >= z
    BY <1>3, <2>1, Greatest
  <2>3. Max(writes) \in Int
    BY <2>1, <2>2 DEF Max
  <2>4. Bounded(first + Max(writes)) \in Number /\ Bounded(out + Max(writes)) \in Word
    <3>1. PICK u \in Int, v \in Int : u = first + Max(writes) /\ v = out + Max(writes)
      BY <2>3
    <3>2. u % Modulus \in Number /\ v % Modulus \in Number
      BY Slot
    <3> QED
      BY <3>1, <3>2, Words DEF Bounded
  <2> QED
    BY <1>1, <1>3, <2>4 DEF SN, SequenceNumber
<1> QED
  BY <1>2, <1>3

\* Writing and filling keep the type of a buffer.
LEMMA BufferType ==
    ASSUME NEW buf \in Buffer
    PROVE  /\ \A sn \in SequenceNumber : AddIn(buf, sn) \in Buffer /\ AddOut(buf, sn) \in Buffer
           /\ \A first, out, n, slot \in Int : Fill(buf, first, out, n, slot) \in Buffer
<1>1. ASSUME NEW sn \in SequenceNumber PROVE AddIn(buf, sn) \in Buffer /\ AddOut(buf, sn) \in Buffer
  BY DEF AddIn, AddOut, Buffer
<1>2. ASSUME NEW first \in Int, NEW out \in Int, NEW n \in Int, NEW slot \in Int
      PROVE  Fill(buf, first, out, n, slot) \in Buffer
  <2>1. \A k \in 0 .. BufferSize - 1 : Fill(buf, first, out, n, slot)[k] \in SequenceNumber
    BY FillType
  <2>2. Fill(buf, first, out, n, slot) = [k \in 0 .. BufferSize - 1 |-> Fill(buf, first, out, n, slot)[k]]
    BY DEF Fill, Buffer
  <2> QED
    BY <2>1, <2>2 DEF Buffer
<1> QED
  BY <1>1, <1>2

-----------------------------------------------------------------------------
\* The initial values have the types of the variables.
LEMMA InitType == Init => TypeOK
<1>1. Blank \in SequenceNumber /\ 0 \in Number /\ 0 \in Word /\ EmptyBuffer \in Buffer
  BY Ranges, Words DEF Blank, SN, SequenceNumber, Number, EmptyBuffer, Buffer
<1>2. 0 \in 0 .. MaxGenerate /\ 0 \in 0 .. MaxCalls
  BY TranslatorAssumption DEF TranslatorAssumption
<1> QED
  BY <1>1, <1>2 DEF Init, TypeOK, Buffer

\* The packets that come are numbers.
LEMMA InputsType ==
    ASSUME TypeOK, NEW skip \in BOOLEAN, NEW x \in Inputs(skip)
    PROVE  x \in Number
<1>1. CASE initialized
  <2>1. PICK d \in Int : x = Bounded(last_input + d)
    <3>1. -(MaxDistance + 1) \in Int /\ (IF skip /\ ~SkipAfterLoss THEN 1 ELSE MaxJump) \in Int
      BY Ranges, TranslatorAssumption DEF TranslatorAssumption
    <3> QED
      BY <1>1, <3>1 DEF Inputs
  <2>2. last_input + d \in Int
    BY <2>1 DEF TypeOK, Number
  <2> QED
    BY <2>1, <2>2, Slot DEF Bounded
<1>2. CASE ~initialized
  BY <1>2, StartsAssumption DEF Inputs, StartsAssumption, Number
<1> QED
  BY <1>1, <1>2

\* Every call of get(input, skip), in its four cases, keeps the types.
LEMMA GetType ==
    ASSUME TypeOK, NEW skip \in BOOLEAN, NEW x \in Number, Get(x, skip)
    PROVE  TypeOK'
<1>1. /\ in_out \in Buffer /\ out_in \in Buffer
      /\ first_input \in Word /\ last_input \in Number /\ last_output \in Word
      /\ offset \in 0 .. MaxGenerate /\ initialized \in BOOLEAN /\ reset \in BOOLEAN
      /\ calls \in 0 .. MaxCalls /\ asked \in Number /\ result \in SequenceNumber
  BY DEF TypeOK, Buffer
<1>2. calls' \in 0 .. MaxCalls /\ asked' \in Number
  BY <1>1, TranslatorAssumption DEF Get, TranslatorAssumption
<1>3. x \in Int /\ first_input \in Int /\ last_input \in Int /\ last_output \in Int
      /\ offset \in Int /\ 0 \in 0 .. MaxGenerate /\ 0 \in Word /\ x \in Word
  BY <1>1, Ranges, Words DEF Number, Word
<1>4. \A n \in Int : Bounded(n) \in Int /\ Bounded(n) \in Word
  BY Slot, Words DEF Bounded
<1>5. \A i \in Number, o \in Word : SN(i, o, "Valid") \in SequenceNumber /\ SN(i, o, "Skip") \in SequenceNumber
  BY DEF SN, SequenceNumber
<1>6. ASSUME NEW o \in Word, UpdateLastOutput(skip, o) PROVE last_output' \in Word
  BY <1>1, <1>6 DEF UpdateLastOutput
<1>7. CASE GetFirst(x, skip)
  <2> DEFINE out == IF reset \/ offset > 0 THEN Bounded(NextOutput) ELSE x
             sn == SN(x, out, IF skip THEN "Skip" ELSE "Valid")
  <2>1. out \in Word
    BY <1>3, <1>4 DEF NextOutput
  <2>2. sn \in SequenceNumber
    BY <2>1, <1>5
  <2>3. in_out' = AddIn(in_out, sn) /\ out_in' = AddOut(out_in, sn) /\ result' = sn
        /\ UpdateLastOutput(skip, out)
    BY <1>7 DEF GetFirst
  <2>4. in_out' \in Buffer /\ out_in' \in Buffer
    BY <1>1, <2>2, <2>3, BufferType
  <2>5. last_output' \in Word
    BY <1>6, <2>1, <2>3
  <2>6. first_input' \in Word /\ last_input' \in Number /\ offset' \in 0 .. MaxGenerate
        /\ initialized' \in BOOLEAN /\ reset' \in BOOLEAN
    BY <1>1, <1>3, <1>7 DEF GetFirst
  <2> HIDE DEF sn
  <2> QED
    BY <1>2, <2>2, <2>3, <2>4, <2>5, <2>6 DEF TypeOK, Buffer
<1>8. CASE GetTooOld(x)
  BY <1>1, <1>2, <1>3, <1>5, <1>8 DEF GetTooOld, buffers, TypeOK, Buffer
<1>9. CASE GetNew(x, skip)
  <2> DEFINE n == (x - (last_input + 1)) % Modulus
             sn == SN(x, Wrap(Bounded(NextOutput) + n), IF skip THEN "Skip" ELSE "Valid")
  <2>1. n \in Int /\ NextOutput \in Int /\ last_input + 1 \in Int
    <3>1. x - (last_input + 1) \in Int
      BY <1>3
    <3> QED
      BY <3>1, <1>3, Slot DEF NextOutput, Number
  <2>2. Wrap(Bounded(NextOutput) + n) \in Word /\ Wrap(x - MaxDistance) \in Word
    <3>1. Bounded(NextOutput) + n \in Int /\ x - MaxDistance \in Int
      BY <1>3, <1>4, <2>1, Ranges
    <3> QED
      BY <3>1, Words
  <2>3. sn \in SequenceNumber /\ sn.output = Wrap(Bounded(NextOutput) + n)
    BY <2>2, <1>5 DEF SN
  <2>4. /\ in_out' = AddIn(FillIn(in_out, last_input + 1, NextOutput, n), sn)
        /\ out_in' = AddOut(FillOut(out_in, last_input + 1, NextOutput, n), sn)
        /\ UpdateLastOutput(skip, sn.output) /\ result' = sn
    BY <1>9 DEF GetNew
  <2>5. in_out' \in Buffer /\ out_in' \in Buffer
    <3>1. FillIn(in_out, last_input + 1, NextOutput, n) \in Buffer
      BY <1>1, <2>1, BufferType DEF FillIn
    <3>2. FillOut(out_in, last_input + 1, NextOutput, n) \in Buffer
      BY <1>1, <2>1, BufferType DEF FillOut
    <3> QED
      BY <2>3, <2>4, <3>1, <3>2, BufferType
  <2>6. last_output' \in Word
    BY <1>6, <2>2, <2>3, <2>4
  <2>7. first_input' \in Word /\ last_input' \in Number /\ offset' \in 0 .. MaxGenerate
        /\ initialized' = initialized /\ reset' = reset
    BY <1>1, <1>3, <1>9, <2>2 DEF GetNew
  <2> HIDE DEF sn
  <2> QED
    BY <1>1, <1>2, <2>3, <2>4, <2>5, <2>6, <2>7 DEF TypeOK, Buffer
<1>10. CASE GetLate(x, skip)
  <2> DEFINE k == x % BufferSize
             old == in_out[k]
             new == IF skip THEN "Discard" ELSE "Valid"
  <2>1. k \in 0 .. BufferSize - 1 /\ old \in SequenceNumber
    BY <1>1, <1>3, Slot DEF Buffer
  <2>2. old.output \in Word /\ old.output % BufferSize \in 0 .. BufferSize - 1
    <3>1. old.output \in Word /\ old.output \in Int
      BY <2>1, Words DEF SequenceNumber
    <3> QED
      BY <3>1, Slot
  <2>3. \A sn \in SequenceNumber : [sn EXCEPT !.type = new] \in SequenceNumber
    BY DEF SequenceNumber
  <2>4. in_out' \in Buffer /\ out_in' \in Buffer /\ result' \in SequenceNumber
    <3>1. CASE old.type = "Valid"
      <4>1. /\ in_out' = [in_out EXCEPT ![k] = [in_out[k] EXCEPT !.type = new]]
            /\ out_in' = [out_in EXCEPT ![old.output % BufferSize] =
                            [out_in[old.output % BufferSize] EXCEPT !.type = new]]
            /\ result' = [old EXCEPT !.type = new]
        BY <1>10, <3>1 DEF GetLate
      <4> HIDE DEF new, old
      <4> QED
        BY <4>1, <1>1, <2>1, <2>2, <2>3 DEF Buffer, old
    <3>2. CASE old.type # "Valid"
      BY <1>1, <1>10, <2>1, <3>2 DEF GetLate, buffers
    <3> QED
      BY <3>1, <3>2
  <2>5. last_output' \in Word
    BY <1>6, <1>10, <2>2 DEF GetLate
  <2> QED
    BY <1>1, <1>2, <1>10, <2>4, <2>5 DEF GetLate, TypeOK, Buffer
<1> QED
  BY <1>7, <1>8, <1>9, <1>10 DEF Get

\* Every step keeps the types.
LEMMA StepType == TypeOK /\ [Next]_vars => TypeOK'
<1> SUFFICES ASSUME TypeOK, [Next]_vars PROVE TypeOK'
  OBVIOUS
<1>1. ASSUME NEW skip \in BOOLEAN, NEW x \in Inputs(skip), Get(x, skip) PROVE TypeOK'
  BY <1>1, InputsType, GetType
<1>2. CASE Generate
  <2>1. offset' \in 0 .. MaxGenerate /\ calls' \in 0 .. MaxCalls
    BY <1>2, TranslatorAssumption DEF Generate, TypeOK, TranslatorAssumption
  <2>2. offset' + last_output \in Int /\ 0 \in Number
    BY <2>1, Ranges, Words DEF TypeOK, Number
  <2>3. Bounded(offset' + last_output) \in Word
    BY <2>2, Slot, Words DEF Bounded
  <2>4. SN(0, Bounded(offset' + last_output), "Generated") \in SequenceNumber
    BY <2>2, <2>3 DEF SN, SequenceNumber
  <2>5. out_in' \in Buffer
    <3>1. out_in \in Buffer
      BY DEF TypeOK, Buffer
    <3>2. out_in' = AddOut(out_in, SN(0, Bounded(offset' + last_output), "Generated"))
      BY <1>2 DEF Generate
    <3> QED
      BY <2>4, <3>1, <3>2, BufferType
  <2> QED
    BY <1>2, <2>1, <2>5 DEF Generate, TypeOK, Buffer
<1>3. CASE Reset
  <2>1. Blank \in SequenceNumber /\ 0 \in Number /\ 0 \in Word /\ EmptyBuffer \in Buffer
    BY Ranges, Words DEF Blank, SN, SequenceNumber, Number, EmptyBuffer, Buffer
  <2>2. calls' \in 0 .. MaxCalls
    BY <1>3, TranslatorAssumption DEF Reset, TypeOK, TranslatorAssumption
  <2> QED
    BY <1>3, <2>1, <2>2 DEF Reset, TypeOK, Buffer
<1>4. CASE UNCHANGED vars
  BY <1>4 DEF vars, buffers, TypeOK
<1> QED
  BY <1>1, <1>2, <1>3, <1>4 DEF Next

-----------------------------------------------------------------------------
\* The numbers are as wide as the integers, as they are for sequence numbers.
OneWidth == WordBits = Bits

\* get(input, skip) of a packet ahead of all others, then: all is bounded.
BoundedNew(x, skip) ==
    LET n   == (x - (last_input + 1)) % Modulus
        out == NextOutput
        sn  == SN(x, Bounded(out + n), IF skip THEN "Skip" ELSE "Valid")
    IN
    /\ initialized /\ ~TooOld(x) /\ LessThan(last_input, x)
    /\ in_out' = AddIn(FillIn(in_out, last_input + 1, out, n), sn)
    /\ out_in' = AddOut(FillOut(out_in, last_input + 1, out, n), sn)
    /\ UpdateLastOutput(skip, sn.output)
    /\ last_input' = x
    /\ first_input' = IF LessThan(first_input, Bounded(x - MaxDistance))
                      THEN Bounded(x - MaxDistance) ELSE first_input
    /\ offset' = IF skip THEN offset ELSE 0
    /\ result' = sn
    /\ UNCHANGED <<initialized, reset>>

\* What fill() and get() leave unbounded is bounded by the width of the integers.
LEMMA Widths ==
    ASSUME OneWidth, TypeOK, NEW x \in Number
    PROVE  /\ WordModulus = Modulus /\ Word = Number
           /\ Wrap(Bounded(NextOutput) + ((x - (last_input + 1)) % Modulus)) =
                Bounded(NextOutput + ((x - (last_input + 1)) % Modulus))
           /\ Wrap(x - MaxDistance) = Bounded(x - MaxDistance)
           /\ LessThan(first_input, x - MaxDistance) <=> LessThan(first_input, Bounded(x - MaxDistance))
<1>1. WordModulus = Modulus /\ Word = Number /\ Modulus \in Nat \ {0}
  BY Ranges DEF OneWidth, WordModulus, Modulus, Word, Number
<1>2. \A n \in Int : Wrap(n) = Bounded(n)
  BY <1>1 DEF Wrap, Bounded
<1>3. /\ first_input \in Int /\ first_input \in Number /\ NextOutput \in Int /\ x \in Int
      /\ last_input \in Int /\ x - MaxDistance \in Int /\ x - (last_input + 1) \in Int
  BY <1>1, Words, Ranges DEF TypeOK, NextOutput, Number
<1>4. PICK v \in Int, e \in Int, i \in Int :
        v = NextOutput /\ e = x - MaxDistance /\ i = x - (last_input + 1)
  BY <1>3
<1>5. PICK n \in Int : n = i % Modulus
  BY <1>1, ModDef
<1>6. ((v % Modulus) + n) % Modulus = (v + n) % Modulus /\ (v % Modulus) + n \in Int
  <2>1. ((v % Modulus) + n) % Modulus = (v + n) % Modulus
    BY <1>1, ModSum
  <2>2. v % Modulus \in Int
    BY <1>1, ModDef
  <2> QED
    BY <2>1, <2>2
<1>7. Wrap(Bounded(v) + n) = Bounded(v + n)
  BY <1>2, <1>6 DEF Bounded
<1>8. (first_input - (e % Modulus)) % Modulus = (first_input - e) % Modulus
  <2>1. PICK g \in Int : g = first_input /\ 0 <= g /\ g < Modulus /\ -Modulus <= g
    BY <1>3, Ranges DEF Number
  <2>2. g % Modulus = g
    BY <1>1, <2>1, ModSmall
  <2>3. ((g % Modulus) - (e % Modulus)) % Modulus = (g - e) % Modulus
    BY <1>1, ModDiff
  <2> QED
    BY <2>1, <2>2, <2>3
<1>9. LessThan(first_input, e) <=> LessThan(first_input, Bounded(e))
  BY <1>8 DEF LessThan, Bounded
<1> QED
  BY <1>1, <1>2, <1>4, <1>5, <1>7, <1>9

\* The four cases of get(input, skip) with one width.
LEMMA GetCases ==
    ASSUME OneWidth, TypeOK, NEW x \in Number, NEW skip \in BOOLEAN, Get(x, skip)
    PROVE  GetFirst(x, skip) \/ GetTooOld(x) \/ BoundedNew(x, skip) \/ GetLate(x, skip)
<1>1. ASSUME GetNew(x, skip) PROVE BoundedNew(x, skip)
  BY <1>1, Widths DEF GetNew, BoundedNew
<1> QED
  BY <1>1 DEF Get

-----------------------------------------------------------------------------
\* The window from a to b, unbounded: the first and the last input are their
\* remainders, and each of its numbers is in its slot of the buffer.
Follows(a, b) ==
    /\ a <= b /\ b - a <= MaxDistance
    /\ first_input = a % Modulus /\ last_input = b % Modulus
    /\ \A y \in a .. b : in_out[y % BufferSize].input = y % Modulus

\* The unbounded number of an input, at or after a.
PlaceOf(a, x) == a + ((x - first_input) % Modulus)

\* The three cases of get(input, skip) for a window, in unbounded numbers.
LEMMA Place ==
    ASSUME NEW a \in Int, NEW b \in Int, Follows(a, b), NEW x \in Number
    PROVE  LET y == PlaceOf(a, x) IN
           /\ y \in Int /\ y >= a /\ y % Modulus = x
           /\ TooOld(x) <=> y - a >= Ahead
           /\ ~TooOld(x) => (LessThan(last_input, x) <=> b < y)
<1> DEFINE e == (x - first_input) % Modulus
           y == PlaceOf(a, x)
<1>1. Modulus \in Nat \ {0} /\ x \in 0 .. Modulus - 1
  BY Ranges DEF Number
<1>2. first_input = a % Modulus /\ last_input = b % Modulus /\ a <= b /\ b - a <= MaxDistance
  BY DEF Follows
<1>3. e \in 0 .. Modulus - 1 /\ (a + e) % Modulus = x
  BY <1>1, <1>2, ModAhead
<1>4. y = a + e
  BY DEF PlaceOf
<1>5. TooOld(x) <=> e > Ahead - 1
  BY DEF TooOld, LessThan, Ahead
<1>6. ASSUME e < Ahead PROVE LessThan(last_input, x) <=> b < y
  <2>1. a + e \in Int /\ b - (a + e) < Ahead /\ (a + e) - b <= Modulus - Ahead
    BY <1>1, <1>2, <1>3, <1>6, Ranges
  <2>2. LessThan(b % Modulus, (a + e) % Modulus) <=> b < a + e
    BY <2>1, LessThanClose
  <2> QED
    BY <1>2, <1>3, <1>4, <2>2
<1> HIDE DEF e, y
<1>7. e \in Int /\ y \in Int /\ y >= a /\ y % Modulus = x
  BY <1>1, <1>3, <1>4
<1>8. TooOld(x) <=> y - a >= Ahead
  BY <1>4, <1>5, <1>7, Ranges
<1>9. ~TooOld(x) => e < Ahead
  BY <1>5, <1>7, Ranges
<1> QED
  BY <1>6, <1>7, <1>8, <1>9 DEF y

\* The number n of packets that x leaves out.
LEMMA LeftOut ==
    ASSUME NEW a \in Int, NEW b \in Int, Follows(a, b), NEW x \in Number, ~TooOld(x), LessThan(last_input, x)
    PROVE  LET y == PlaceOf(a, x) IN
           (x - (last_input + 1)) % Modulus = y - b - 1 /\ y - b - 1 \in 0 .. Ahead - 2
<1> DEFINE y == PlaceOf(a, x)
<1>1. y \in Int /\ y % Modulus = x /\ b < y /\ y - a < Ahead
  <2>1. /\ y \in Int /\ y % Modulus = x /\ ~(y - a >= Ahead) /\ b < y
    BY Place
  <2> QED
    BY <2>1, Ranges
<1> HIDE DEF y
<1>2. last_input = b % Modulus /\ a <= b /\ last_input \in Int /\ Modulus \in Nat \ {0}
  BY Ranges, Slot DEF Follows, Number
<1>3. (x - last_input) % Modulus = (y - b) % Modulus
  BY <1>1, <1>2, ModDiff
<1>4. y - b - 1 \in 0 .. Ahead - 2
  BY <1>1, <1>2, Ranges
<1>5. (y - b - 1) % Modulus = y - b - 1
  <2>1. y - b - 1 \in Int /\ -Modulus <= y - b - 1 /\ y - b - 1 < Modulus /\ y - b - 1 >= 0
    BY <1>1, <1>4, Ranges
  <2> QED
    BY <1>2, <2>1, ModSmall
<1>6. (x - (last_input + 1)) % Modulus = (y - b - 1) % Modulus
  <2> DEFINE u == x - last_input
             v == y - b
  <2>1. /\ u \in Int /\ v \in Int /\ u - 1 = x - (last_input + 1) /\ v - 1 = y - b - 1
        /\ u % Modulus = v % Modulus
    BY <1>1, <1>2, <1>3, Ranges DEF Number
  <2> HIDE DEF u, v
  <2>2. PICK one \in Int : one = 1
    OBVIOUS
  <2>3. ((u % Modulus) - one) % Modulus = (u - one) % Modulus
    BY <1>2, <2>1, ModSub
  <2>4. ((v % Modulus) - one) % Modulus = (v - one) % Modulus
    BY <1>2, <2>1, ModSub
  <2>5. (u - one) % Modulus = (v - one) % Modulus
    BY <2>1, <2>3, <2>4
  <2> QED
    BY <2>1, <2>2, <2>5
<1> QED
  BY <1>4, <1>5, <1>6 DEF y

\* Where the buffers' size divides the range, the slot of a number is that of
\* the unbounded one.
LEMMA SlotOf ==
    ASSUME Modulus % BufferSize = 0, NEW s \in Int, NEW t \in Int, s % Modulus = t % Modulus, NEW d \in Int
    PROVE  Bounded(s + d) = (t + d) % Modulus /\ Bounded(s + d) % BufferSize = (t + d) % BufferSize
<1>1. Modulus \in Nat \ {0} /\ BufferSize \in Nat \ {0} /\ t + d \in Int
  BY Ranges
<1>2. ((s % Modulus) + d) % Modulus = (s + d) % Modulus
  BY <1>1, ModSum
<1>3. ((t % Modulus) + d) % Modulus = (t + d) % Modulus
  BY <1>1, ModSum
<1>4. Bounded(s + d) = (t + d) % Modulus
  BY <1>2, <1>3 DEF Bounded
<1>5. ((t + d) % Modulus) % BufferSize = (t + d) % BufferSize
  BY <1>1, ModMod
<1> QED
  BY <1>4, <1>5

\* The buffer new is the buffer old with the slots of the n unbounded numbers
\* from t on filled, as far as the filling does not go round the buffer.
Filled(new, old, t, n, first, out) ==
    \A j \in Int : n - j <= BufferSize =>
        /\ j < 0 => new[(t + j) % BufferSize] = old[(t + j) % BufferSize]
        /\ j \in 0 .. n - 1 =>
             new[(t + j) % BufferSize] = SN(Bounded(first + j), Bounded(out + j), "Valid")

\* What fill() does, in unbounded numbers.
LEMMA FillFrom ==
    ASSUME Modulus % BufferSize = 0, NEW buf \in Buffer, NEW first \in Int, NEW out \in Int, NEW n \in Nat,
           NEW slot \in Int, NEW t \in Int, slot % Modulus = t % Modulus
    PROVE  Filled(Fill(buf, first, out, n, slot), buf, t, n, first, out)
<1> SUFFICES ASSUME NEW j \in Int, n - j <= BufferSize
             PROVE  /\ j < 0 => Fill(buf, first, out, n, slot)[(t + j) % BufferSize] = buf[(t + j) % BufferSize]
                    /\ j \in 0 .. n - 1 =>
                         Fill(buf, first, out, n, slot)[(t + j) % BufferSize] =
                           SN(Bounded(first + j), Bounded(out + j), "Valid")
  BY DEF Filled
<1>1. BufferSize \in Nat \ {0} /\ t + j \in Int
  BY Ranges
<1>2. PICK w \in Int : w = t + j
  BY <1>1
<1>3. w % BufferSize \in 0 .. BufferSize - 1
  BY Slot
<1>4. PICK k \in 0 .. BufferSize - 1 : k = w % BufferSize
  BY <1>3
<1> DEFINE writes == {i \in 0 .. n - 1 : Bounded(slot + i) % BufferSize = k}
<1>5. Fill(buf, first, out, n, slot)[k] =
        IF writes = {} THEN buf[k]
        ELSE SN(Bounded(first + Max(writes)), Bounded(out + Max(writes)), "Valid")
  BY DEF Fill, Buffer
<1>6. ASSUME NEW i \in writes, j < i PROVE FALSE
  <2>0. i \in 0 .. n - 1 /\ Bounded(slot + i) % BufferSize = k
    OBVIOUS
  <2> HIDE DEF writes
  <2>1. i \in Int /\ t + i \in Int /\ i < n
    BY <2>0
  <2>2. (t + i) % BufferSize = w % BufferSize
    BY <1>4, <2>0, <2>1, SlotOf
  <2>3. PICK v \in Int : v = t + i
    BY <2>1
  <2>4. v % BufferSize = w % BufferSize /\ v - w < BufferSize /\ w - v < BufferSize /\ v # w
    BY <1>1, <1>2, <1>6, <2>1, <2>2, <2>3
  <2> QED
    BY <1>1, <2>4, ModInjective
<1>7. ASSUME j < 0 PROVE Fill(buf, first, out, n, slot)[k] = buf[k]
  <2>1. writes = {}
    BY <1>6, <1>7
  <2> QED
    BY <1>5, <2>1
<1>8. ASSUME j \in 0 .. n - 1
      PROVE  Fill(buf, first, out, n, slot)[k] = SN(Bounded(first + j), Bounded(out + j), "Valid")
  <2>1. Bounded(slot + j) % BufferSize = (t + j) % BufferSize
    BY SlotOf
  <2>2. j \in writes
    BY <2>1, <1>2, <1>4, <1>8
  <2>3. \A i \in writes : i \in Int /\ j >= i
    BY <1>6
  <2> HIDE DEF writes
  <2>4. Max(writes) \in writes /\ Max(writes) >= j
    BY <2>2, <2>3 DEF Max
  <2>5. Max(writes) = j
    <3>1. Max(writes) \in Int /\ j >= Max(writes)
      BY <2>3, <2>4
    <3> QED
      BY <2>4, <3>1
  <2> QED
    BY <1>5, <2>2, <2>5
<1> QED
  BY <1>2, <1>4, <1>7, <1>8

\* The window after a packet ahead of all others.
NewFirst(a, y) == IF a < y - MaxDistance THEN y - MaxDistance ELSE a

LEMMA NewWindow ==
    ASSUME NEW a \in Int, NEW b \in Int, Follows(a, b), NEW x \in Number, NEW skip \in BOOLEAN,
           BoundedNew(x, skip)
    PROVE  LET y == PlaceOf(a, x)
               f == NewFirst(a, y) IN
           /\ first_input' = f % Modulus /\ last_input' = y % Modulus
           /\ f \in Int /\ f <= y /\ y - f <= MaxDistance /\ a <= f
<1> DEFINE y == PlaceOf(a, x)
           f == NewFirst(a, y)
<1>1. y \in Int /\ y % Modulus = x /\ b < y /\ y - a < Ahead
  <2>1. ~TooOld(x) /\ LessThan(last_input, x)
    BY DEF BoundedNew
  <2>2. /\ y \in Int /\ y % Modulus = x /\ ~(y - a >= Ahead) /\ b < y
    BY <2>1, Place
  <2> QED
    BY <2>2, Ranges
<1> HIDE DEF y
<1>2. first_input = a % Modulus /\ a <= b /\ Modulus \in Nat \ {0} /\ MaxDistance \in Nat
  BY Ranges DEF Follows
<1>3. Bounded(x - MaxDistance) = (y - MaxDistance) % Modulus
  <2>1. MaxDistance \in Int
    BY <1>2
  <2>2. ((y % Modulus) - MaxDistance) % Modulus = (y - MaxDistance) % Modulus
    BY <1>1, <1>2, <2>1, ModSub
  <2> QED
    BY <1>1, <2>2 DEF Bounded
<1>4. LessThan(first_input, Bounded(x - MaxDistance)) <=> a < y - MaxDistance
  <2>1. /\ y - MaxDistance \in Int /\ a - (y - MaxDistance) < Ahead
        /\ (y - MaxDistance) - a <= Modulus - Ahead
    BY <1>1, <1>2, Ranges
  <2> QED
    BY <1>2, <1>3, <2>1, LessThanClose
<1>5. last_input' = x /\ first_input' = (IF LessThan(first_input, Bounded(x - MaxDistance))
                                       THEN Bounded(x - MaxDistance) ELSE first_input)
  BY DEF BoundedNew
<1>6. first_input' = f % Modulus
  BY <1>2, <1>3, <1>4, <1>5 DEF NewFirst
<1>7. f \in Int /\ f <= y /\ y - f <= MaxDistance /\ a <= f
  BY <1>1, <1>2 DEF NewFirst
<1> QED
  BY <1>1, <1>5, <1>6, <1>7 DEF y

\* The entry at place z after packet x at place y, when the last was at b.
NewEntry(b, x, skip, y, z) ==
    IF z = y THEN SN(x, Bounded(NextOutput + (y - b - 1)), IF skip THEN "Skip" ELSE "Valid")
    ELSE IF z > b THEN SN(z % Modulus, Bounded(NextOutput + (z - b - 1)), "Valid")
    ELSE in_out[z % BufferSize]

\* What the buffer of inputs holds for the window after BoundedNew.
LEMMA NewIn ==
    ASSUME Modulus % BufferSize = 0, TypeOK, NEW a \in Int, NEW b \in Int, Follows(a, b),
           NEW x \in Number, NEW skip \in BOOLEAN, BoundedNew(x, skip),
           NEW z \in Int, NewFirst(a, PlaceOf(a, x)) <= z, z <= PlaceOf(a, x)
    PROVE  in_out'[z % BufferSize] = NewEntry(b, x, skip, PlaceOf(a, x), z)
<1> DEFINE y == PlaceOf(a, x)
           n == y - b - 1
           sn == SN(x, Bounded(NextOutput + n), IF skip THEN "Skip" ELSE "Valid")
           fill == FillIn(in_out, last_input + 1, NextOutput, n)
<1>1. ~TooOld(x) /\ LessThan(last_input, x)
  BY DEF BoundedNew
<1>2. (x - (last_input + 1)) % Modulus = n /\ n \in Nat
  BY <1>1, LeftOut, Ranges
<1>3. y \in Int /\ y % Modulus = x /\ y - NewFirst(a, y) <= MaxDistance /\ NewFirst(a, y) \in Int
  BY <1>1, Place, NewWindow
<1>4. y - z < BufferSize
  BY <1>3, Ranges
<1>5. in_out' = AddIn(fill, sn) /\ sn.input = x
  BY <1>2 DEF BoundedNew, SN
<1>6. /\ in_out \in Buffer /\ last_input \in Int /\ NextOutput \in Int /\ BufferSize \in Nat \ {0}
      /\ last_input = b % Modulus
  BY Ranges DEF TypeOK, Buffer, NextOutput, Number, Follows
<1>7. fill \in Buffer
  BY <1>2, <1>6, BufferType DEF FillIn
<1>8. x % BufferSize = y % BufferSize /\ z % BufferSize \in 0 .. BufferSize - 1 /\ y % BufferSize \in 0 .. BufferSize - 1
  <2>1. Modulus \in Nat \ {0} /\ BufferSize \in Nat \ {0}
    BY Ranges
  <2>2. (y % Modulus) % BufferSize = y % BufferSize
    BY <1>3, <2>1, ModMod
  <2> QED
    BY <1>3, <2>2, Slot
<1> HIDE DEF y, n, sn, fill
<1>9. CASE z = y
  <2>1. in_out'[z % BufferSize] = sn
    BY <1>5, <1>7, <1>8, <1>9 DEF AddIn, Buffer
  <2> QED
    BY <1>9, <2>1 DEF sn, n, y, NewEntry
<1>10. CASE z < y
  <2>1. z % BufferSize # y % BufferSize
    BY <1>3, <1>4, <1>6, <1>10, ModInjective
  <2>2. in_out'[z % BufferSize] = fill[z % BufferSize]
    BY <2>1, <1>5, <1>7, <1>8 DEF AddIn, Buffer
  <2>3. PICK one \in Int : one = 1
    OBVIOUS
  <2>4. ((b % Modulus) + one) % Modulus = (b + one) % Modulus
    BY Ranges, ModSum
  <2>5. /\ last_input + 1 \in Int /\ b + 1 \in Int
        /\ (last_input + 1) % Modulus = (b + 1) % Modulus
    BY <1>6, <2>3, <2>4
  <2>6. PICK j \in Int, t \in Int, l \in Int : j = z - b - 1 /\ t = b + 1 /\ l = last_input + 1
    BY <2>5
  <2>m. l % Modulus = t % Modulus
    BY <2>5, <2>6
  <2>7. t + j = z /\ n - j <= BufferSize
    BY <1>3, <1>4, <1>6, <2>5, <2>6 DEF n
  <2>8. /\ j < 0 => fill[z % BufferSize] = in_out[z % BufferSize]
        /\ j \in 0 .. n - 1 => fill[z % BufferSize] = SN(Bounded(l + j), Bounded(NextOutput + j), "Valid")
    <3>1. fill = Fill(in_out, l, NextOutput, n, l)
      BY <2>6 DEF fill, FillIn
    <3>2. Filled(Fill(in_out, l, NextOutput, n, l), in_out, t, n, l, NextOutput)
      BY <1>2, <1>6, <2>m, FillFrom
    <3> QED
      BY <2>7, <3>1, <3>2 DEF Filled
  <2>9. CASE z <= b
    BY <1>10, <2>2, <2>6, <2>8, <2>9 DEF y, NewEntry
  <2>10. CASE z > b
    <3>1. j \in 0 .. n - 1
      BY <1>3, <1>10, <2>6, <2>10 DEF n
    <3>2. Bounded(l + j) = (t + j) % Modulus
      BY <2>m, SlotOf, ZenonT(30)
    <3>3. in_out'[z % BufferSize] = SN(z % Modulus, Bounded(NextOutput + j), "Valid")
      BY <2>2, <2>7, <2>8, <3>1, <3>2
    <3> QED
      BY <1>10, <2>6, <2>10, <3>3 DEF y, NewEntry
  <2> QED
    BY <2>9, <2>10
<1> QED
  BY <1>3, <1>9, <1>10 DEF y

\* The packet of GetLate is in the window, and its slot is that of its place.
LEMMA LatePlace ==
    ASSUME Modulus % BufferSize = 0, TypeOK, NEW a \in Int, NEW b \in Int, Follows(a, b),
           NEW x \in Number, NEW skip \in BOOLEAN, GetLate(x, skip)
    PROVE  LET y == PlaceOf(a, x) IN
           y \in a .. b /\ x = y % Modulus /\ x % BufferSize = y % BufferSize
<1>1. ~TooOld(x) /\ ~LessThan(last_input, x)
  BY DEF GetLate
<1>2. PICK y \in Int : y = PlaceOf(a, x) /\ y >= a /\ y % Modulus = x /\ ~(b < y)
  BY <1>1, Place
<1>3. Modulus \in Nat \ {0} /\ BufferSize \in Nat \ {0}
  BY Ranges
<1>4. (y % Modulus) % BufferSize = y % BufferSize
  BY <1>3, ModMod
<1> QED
  BY <1>2, <1>4

\* The first packet begins a window.
LEMMA FollowsFirst ==
    ASSUME TypeOK, NEW x \in Number, GetFirst(x, FALSE)
    PROVE  Follows(x, x)'
<1> DEFINE out == IF reset \/ offset > 0 THEN Bounded(NextOutput) ELSE x
           sn == SN(x, out, "Valid")
<1>1. in_out' = AddIn(in_out, sn) /\ last_input' = x /\ first_input' = x
  BY DEF GetFirst
<1>2. x \in Int /\ x % Modulus = x /\ in_out \in Buffer /\ x % BufferSize \in 0 .. BufferSize - 1
      /\ MaxDistance \in Nat
  <2>1. x \in Int /\ -Modulus <= x /\ x < Modulus /\ x >= 0 /\ Modulus \in Nat \ {0}
    BY Ranges DEF Number
  <2> QED
    BY <2>1, ModSmall, Slot, Ranges DEF TypeOK, Buffer
<1>3. sn.input = x
  BY DEF SN
<1> HIDE DEF sn
<1>4. in_out'[x % BufferSize].input = x % Modulus
  BY <1>1, <1>2, <1>3 DEF AddIn, Buffer
<1>5. x \in Int /\ x <= x /\ x - x <= MaxDistance /\ \A y \in x .. x : y = x
  BY <1>2
<1> QED
  BY <1>1, <1>2, <1>4, <1>5 DEF Follows

\* A packet ahead of all others moves the window.
LEMMA FollowsNew ==
    ASSUME Modulus % BufferSize = 0, TypeOK, NEW a \in Int, NEW b \in Int, Follows(a, b),
           NEW x \in Number, NEW skip \in BOOLEAN, BoundedNew(x, skip),
           NEW y \in Int, y = PlaceOf(a, x), NEW f \in Int, f = NewFirst(a, y)
    PROVE  Follows(f, y)'
<1>1. y = PlaceOf(a, x) /\ y % Modulus = x
  BY Place
<1>2. f = NewFirst(a, y)
  OBVIOUS
<1>3. /\ first_input' = f % Modulus /\ last_input' = y % Modulus
      /\ f <= y /\ y - f <= MaxDistance /\ a <= f
  BY <1>1, <1>2, NewWindow
<1>4. ASSUME NEW z \in f .. y PROVE in_out'[z % BufferSize].input = z % Modulus
  <2>1. in_out'[z % BufferSize] = NewEntry(b, x, skip, y, z)
    BY <1>1, <1>2, NewIn
  <2>2. z <= b => in_out[z % BufferSize].input = z % Modulus
    BY <1>3 DEF Follows
  <2> QED
    BY <1>1, <2>1, <2>2 DEF SN, NewEntry
<1> QED
  BY <1>3, <1>4 DEF Follows

\* A late packet leaves the window alone.
LEMMA FollowsLate ==
    ASSUME TypeOK, NEW a \in Int, NEW b \in Int, Follows(a, b), NEW x \in Number, NEW skip \in BOOLEAN,
           GetLate(x, skip)
    PROVE  Follows(a, b)'
<1>1. in_out \in Buffer /\ x % BufferSize \in 0 .. BufferSize - 1
  BY Slot, Ranges DEF TypeOK, Buffer, Number
<1>2. ASSUME NEW k \in 0 .. BufferSize - 1 PROVE in_out'[k].input = in_out[k].input
  <2>1. in_out[k] \in SequenceNumber
    BY <1>1 DEF Buffer
  <2>2. CASE in_out[x % BufferSize].type = "Valid"
    <3>1. in_out' = [in_out EXCEPT ![x % BufferSize] =
                       [in_out[x % BufferSize] EXCEPT !.type = IF skip THEN "Discard" ELSE "Valid"]]
      BY <2>2 DEF GetLate
    <3> QED
      BY <1>1, <2>1, <3>1 DEF Buffer, SequenceNumber
  <2>3. CASE in_out[x % BufferSize].type # "Valid"
    BY <2>3 DEF GetLate, buffers
  <2> QED
    BY <2>2, <2>3
<1>3. first_input' = first_input /\ last_input' = last_input
  BY DEF GetLate
<1>4. \A y \in a .. b : y % BufferSize \in 0 .. BufferSize - 1
  BY Slot
<1> QED
  BY <1>2, <1>3, <1>4 DEF Follows

\* The window exists while the translator is initialized.
InputInv == initialized => \E a, b \in Int : Follows(a, b)

\* Every step keeps the window, and get(input, skip) reads the slot of its packet.
LEMMA StepMatches ==
    ASSUME OneWidth, Modulus % BufferSize = 0, TypeOK, InputInv, GetMatches, [Next]_vars
    PROVE  InputInv' /\ GetMatches'
<1>1. ASSUME NEW skip \in BOOLEAN, NEW x \in Inputs(skip), Get(x, skip) PROVE InputInv' /\ GetMatches'
  <2>1. x \in Number /\ asked' = x
    BY <1>1, InputsType DEF Get
  <2>c. GetFirst(x, skip) \/ GetTooOld(x) \/ BoundedNew(x, skip) \/ GetLate(x, skip)
    BY <1>1, <2>1, GetCases
  <2>2. CASE GetFirst(x, skip)
    <3>1. GetMatches'
      BY <2>1, <2>2 DEF GetFirst, GetMatches, SN
    <3>2. CASE skip
      BY <2>2, <3>1, <3>2 DEF GetFirst, InputInv
    <3>3. CASE ~skip
      <4>1. Follows(x, x)'
        BY <2>1, <2>2, <3>3, FollowsFirst
      <4>2. x \in Int
        BY <2>1, Ranges DEF Number
      <4> QED
        BY <3>1, <4>1, <4>2 DEF InputInv
    <3> QED
      BY <3>2, <3>3
  <2>3. ASSUME initialized, ~GetFirst(x, skip) PROVE InputInv' /\ GetMatches'
    <3>1. PICK a, b \in Int : Follows(a, b)
      BY <2>3 DEF InputInv
    <3>2. CASE GetTooOld(x)
      BY <2>1, <3>1, <3>2 DEF GetTooOld, buffers, InputInv, Follows, GetMatches, SN
    <3>3. CASE BoundedNew(x, skip)
      <4>1. PlaceOf(a, x) \in Int /\ NewFirst(a, PlaceOf(a, x)) \in Int
        BY <2>1, <3>1, <3>3, Place, NewWindow
      <4>2. PICK y \in Int, f \in Int : y = PlaceOf(a, x) /\ f = NewFirst(a, y)
        BY <4>1
      <4>4. Follows(f, y)'
        BY <2>1, <3>1, <3>3, <4>2, FollowsNew
      <4>3. GetMatches'
        BY <2>1, <3>3 DEF BoundedNew, GetMatches, SN
      <4> QED
        BY <4>3, <4>4 DEF InputInv
    <3>4. CASE GetLate(x, skip)
      <4>1. Follows(a, b)'
        BY <2>1, <3>1, <3>4, FollowsLate
      <4>2. PICK y \in a .. b : x = y % Modulus /\ x % BufferSize = y % BufferSize
        BY <2>1, <3>1, <3>4, LatePlace
      <4>3. in_out[x % BufferSize].input = x
        BY <3>1, <4>2 DEF Follows
      <4>4. in_out[x % BufferSize] \in SequenceNumber
        BY <2>1, Slot, Ranges DEF TypeOK, Number
      <4>5. result'.input = x
        <5>1. CASE in_out[x % BufferSize].type = "Valid"
          BY <3>4, <4>3, <4>4, <5>1 DEF GetLate, SequenceNumber
        <5>2. CASE in_out[x % BufferSize].type # "Valid"
          BY <3>4, <4>3, <5>2 DEF GetLate
        <5> QED
          BY <5>1, <5>2
      <4> QED
        BY <2>1, <4>1, <4>5 DEF InputInv, GetMatches
    <3> QED
      BY <2>3, <2>c, <3>2, <3>3, <3>4
  <2> QED
    BY <2>2, <2>3, <2>c DEF GetTooOld, BoundedNew, GetLate
<1>2. CASE Generate
  BY <1>2 DEF Generate, InputInv, Follows, GetMatches
<1>3. CASE Reset
  BY <1>3 DEF Reset, InputInv, GetMatches
<1>4. CASE UNCHANGED vars
  BY <1>4 DEF vars, buffers, InputInv, Follows, GetMatches
<1> QED
  BY <1>1, <1>2, <1>3, <1>4 DEF Next

\* A packet declared Valid is the one asked for, for numbers as wide as the
\* integers that hold them and every size of the buffers that divides the range,
\* as 1024 does with 65536.  The size
\* of the buffers for picture identifiers, 511, does not divide 32768: there
\* numbers on both sides of the wrap-around share a slot
\* (SequenceNumberTranslator::get, QualityFilterHandler's constructor).
THEOREM GetMatchesTheorem ==
    ASSUME WordBits = Bits, Modulus % BufferSize = 0
    PROVE  Spec => []GetMatches
<1>1. Init => InputInv /\ GetMatches
  BY DEF Init, InputInv, GetMatches, Blank, SN
<1>2. TypeOK /\ InputInv /\ GetMatches /\ [Next]_vars => InputInv' /\ GetMatches'
  BY StepMatches DEF OneWidth
<1> QED
  BY <1>1, <1>2, InitType, StepType, PTL DEF Spec

-----------------------------------------------------------------------------
\* How far the output can move on from one input to the next.
Growth == MaxGenerate + 1

\* The unbounded output o[y] of every y in the window, and c, the last output:
\* the outputs do not decrease, they grow by at most Growth per input, those of
\* packets that are not skipped are all different and are not above c.
Ordered(a, b, c, o) ==
    /\ Follows(a, b)
    /\ last_output = c % Modulus
    /\ c <= o[b] /\ o[b] <= c + offset + 1
    /\ \A y \in a .. b :
         /\ in_out[y % BufferSize].output = o[y] % Modulus
         /\ in_out[y % BufferSize].type = "Valid" => o[y] <= c
    /\ \A y, z \in a .. b : y <= z =>
         /\ 0 <= o[z] - o[y] /\ o[z] - o[y] <= (z - y) * Growth
         /\ y < z /\ in_out[y % BufferSize].type = "Valid" => o[y] < o[z]

\* A window's outputs do not span what counts as ahead.
Narrow == (MaxDistance + 1) * Growth <= Ahead

\* Products that the proofs need.
LEMMA Products ==
    ASSUME NEW k \in Nat
    PROVE  /\ Growth \in Nat \ {0} /\ k * Growth \in Nat /\ k <= k * Growth
           /\ (k + 1) * Growth = k * Growth + Growth
           /\ \A m \in Nat : (k + m) * Growth = k * Growth + m * Growth /\ m * Growth \in Nat
           /\ \A m \in Nat : k <= m => k * Growth <= m * Growth
<1>1. PICK g \in Nat \ {0} : g = Growth
  BY Ranges DEF Growth
<1>2. k * g \in Nat /\ k <= k * g /\ (k + 1) * g = k * g + g
  OBVIOUS
<1>3. \A m \in Nat : (k + m) * g = k * g + m * g /\ m * g \in Nat
  OBVIOUS
<1>4. ASSUME NEW m \in Nat, k <= m PROVE k * g <= m * g
  <2>1. (m - k) * g = m * g - k * g /\ (m - k) * g >= 0
    BY <1>4
  <2> QED
    BY <2>1
<1> QED
  BY <1>1, <1>2, <1>3, <1>4

\* A window's outputs are close to each other and to the last output.
LEMMA Close ==
    ASSUME Narrow, TypeOK, NEW a \in Int, NEW b \in Int, NEW c \in Int, NEW o \in [Int -> Int],
           Ordered(a, b, c, o), NEW y \in a .. b, NEW z \in a .. b, y <= z
    PROVE  /\ o[z] - o[y] <= MaxDistance * Growth
           /\ MaxDistance * Growth + Growth <= Ahead /\ MaxDistance * Growth \in Nat
           /\ c - o[y] <= MaxDistance * Growth
<1>1. MaxDistance \in Nat /\ z - y \in Nat /\ z - y <= MaxDistance /\ b \in a .. b /\ y <= b
      /\ b - y \in Nat /\ b - y <= MaxDistance
  BY Ranges DEF Ordered, Follows
<1>2. MaxDistance * Growth \in Nat /\ (MaxDistance + 1) * Growth = MaxDistance * Growth + Growth
  BY <1>1, Products
<1>3. /\ (z - y) * Growth <= MaxDistance * Growth /\ (b - y) * Growth <= MaxDistance * Growth
      /\ (z - y) * Growth \in Nat /\ (b - y) * Growth \in Nat
  <2>1. PICK m \in Nat, l \in Nat : m = z - y /\ l = b - y
    BY <1>1
  <2>2. m * Growth <= MaxDistance * Growth /\ m * Growth \in Nat
    BY <1>1, <2>1, Products
  <2>3. l * Growth <= MaxDistance * Growth /\ l * Growth \in Nat
    BY <1>1, <2>1, Products
  <2> QED
    BY <2>1, <2>2, <2>3
<1>4. o[z] - o[y] <= (z - y) * Growth /\ o[b] - o[y] <= (b - y) * Growth /\ c <= o[b]
  BY <1>1 DEF Ordered
<1> QED
  BY <1>2, <1>3, <1>4, Ranges DEF Narrow

\* What the steps use of it.
LEMMA NarrowSteps ==
    ASSUME Narrow
    PROVE  /\ MaxGenerate + 1 <= Ahead
           /\ \A a, b, c \in Int : \A o \in [Int -> Int] : TypeOK /\ Ordered(a, b, c, o) => c - o[a] < Ahead
<1>1. MaxGenerate + 1 <= Ahead
  <2>1. MaxDistance * Growth \in Nat /\ (MaxDistance + 1) * Growth = MaxDistance * Growth + Growth
    BY Ranges, Products
  <2> QED
    BY <2>1, Ranges DEF Narrow, Growth
<1>2. ASSUME NEW a \in Int, NEW b \in Int, NEW c \in Int, NEW o \in [Int -> Int], TypeOK, Ordered(a, b, c, o)
      PROVE  c - o[a] < Ahead
  <2>1. a \in a .. b /\ a <= a
    BY <1>2 DEF Ordered, Follows
  <2>2. /\ c - o[a] <= MaxDistance * Growth /\ MaxDistance * Growth + Growth <= Ahead
        /\ MaxDistance * Growth \in Nat
    BY <1>2, <2>1, Close
  <2> QED
    BY <2>2, Ranges DEF Growth
<1> QED
  BY <1>1, <1>2

\* The outputs after a packet y ahead of the window up to b: from q on.
Extended(o, b, q) == [z \in Int |-> IF z <= b THEN o[z] ELSE q + (z - b - 1)]

\* The next outputs, bounded, are those from q on.
LEMMA NextOutputs ==
    ASSUME Modulus % BufferSize = 0, TypeOK, NEW c \in Int, last_output = c % Modulus,
           NEW q \in Int, q = c + offset + 1
    PROVE  NextOutput \in Int /\ NextOutput % Modulus = q % Modulus
           /\ \A j \in Int : Bounded(NextOutput + j) = (q + j) % Modulus
<1>1. PICK d \in Int : d = offset + 1
  BY Ranges DEF TypeOK
<1>2. ((c % Modulus) + d) % Modulus = (c + d) % Modulus
  BY Ranges, ModSum
<1>3. NextOutput = last_output + d /\ q = c + d /\ last_output \in Int
  BY <1>1, Ranges DEF NextOutput, TypeOK, Number
<1>4. NextOutput \in Int /\ NextOutput % Modulus = q % Modulus
  BY <1>2, <1>3
<1>5. ASSUME NEW j \in Int PROVE Bounded(NextOutput + j) = (q + j) % Modulus
  BY <1>4, SlotOf
<1> QED
  BY <1>4, <1>5

\* What a new packet adds to the window, in unbounded numbers.
LEMMA NewEntries ==
    ASSUME Modulus % BufferSize = 0, TypeOK, NEW a \in Int, NEW b \in Int, NEW c \in Int,
           NEW o \in [Int -> Int], Ordered(a, b, c, o),
           NEW x \in Number, NEW skip \in BOOLEAN, BoundedNew(x, skip),
           NEW y \in Int, y = PlaceOf(a, x), NEW f \in Int, f = NewFirst(a, y),
           NEW q \in Int, q = c + offset + 1, NEW z \in f .. y
    PROVE  LET e == in_out'[z % BufferSize]
               p == Extended(o, b, q) IN
           /\ e.output = p[z] % Modulus
           /\ z <= b => e = in_out[z % BufferSize] /\ z \in a .. b
           /\ z > b => e = SN(z % Modulus, p[z] % Modulus, IF z = y /\ skip THEN "Skip" ELSE "Valid")
<1> DEFINE e == in_out'[z % BufferSize]
           p == Extended(o, b, q)
<1>1. Follows(a, b) /\ last_output = c % Modulus
  BY DEF Ordered
<1>2. b < y /\ y % Modulus = x
  BY <1>1, Place DEF BoundedNew
<1>3. a <= f /\ f <= y
  BY <1>1, NewWindow
<1>4. e = NewEntry(b, x, skip, y, z)
  <2>1. z \in Int /\ NewFirst(a, PlaceOf(a, x)) <= z /\ z <= PlaceOf(a, x)
    OBVIOUS
  <2> QED
    BY <1>1, <2>1, NewIn
<1>5. CASE z <= b
  <2>1. e = in_out[z % BufferSize] /\ z \in a .. b
    BY <1>2, <1>3, <1>4, <1>5 DEF NewEntry
  <2>2. p[z] = o[z]
    BY <1>5 DEF Extended
  <2>3. in_out[z % BufferSize].output = o[z] % Modulus
    BY <2>1 DEF Ordered
  <2> QED
    BY <1>5, <2>1, <2>2, <2>3
<1>6. CASE z > b
  <2>1. PICK j \in Int : j = z - b - 1
    OBVIOUS
  <2>2. Bounded(NextOutput + j) = (q + j) % Modulus
    BY <1>1, NextOutputs
  <2>3. p[z] = q + j
    BY <1>6, <2>1 DEF Extended
  <2>4. e = SN(z % Modulus, Bounded(NextOutput + j), IF z = y /\ skip THEN "Skip" ELSE "Valid")
    BY <1>2, <1>4, <1>6, <2>1 DEF NewEntry
  <2> HIDE DEF e, p
  <2>5. e = SN(z % Modulus, p[z] % Modulus, IF z = y /\ skip THEN "Skip" ELSE "Valid")
    BY <2>2, <2>3, <2>4
  <2>6. e.output = p[z] % Modulus
    BY <2>5 DEF SN
  <2> QED
    BY <1>6, <2>5, <2>6 DEF e, p
<1> QED
  BY <1>5, <1>6

\* The extended outputs keep their order and their bound.
LEMMA ExtendedOrder ==
    ASSUME TypeOK, NEW a \in Int, NEW b \in Int, NEW c \in Int, NEW o \in [Int -> Int], Ordered(a, b, c, o),
           NEW q \in Int, q = c + offset + 1,
           NEW y \in Int, NEW z \in Int, a <= y, y <= z
    PROVE  LET p == Extended(o, b, q) IN
           /\ p \in [Int -> Int]
           /\ 0 <= p[z] - p[y] /\ p[z] - p[y] <= (z - y) * Growth
           /\ y < z /\ (y > b \/ in_out[y % BufferSize].type = "Valid") => p[y] < p[z]
           /\ z > b => c < p[z]
<1> DEFINE p == Extended(o, b, q)
<1>1. /\ a <= b /\ c <= o[b] /\ o[b] <= q /\ q - o[b] <= Growth /\ o[b] \in Int /\ c < q
      /\ Growth \in Nat \ {0}
  <2>1. a <= b /\ c <= o[b] /\ o[b] <= c + offset + 1 /\ o[b] \in Int
    BY DEF Ordered, Follows
  <2>2. offset \in Nat /\ offset + 1 <= Growth /\ Growth \in Nat \ {0}
    BY Ranges DEF TypeOK, Growth
  <2> QED
    BY <2>1, <2>2
<1>2. p \in [Int -> Int] /\ p[y] = (IF y <= b THEN o[y] ELSE q + (y - b - 1))
      /\ p[z] = (IF z <= b THEN o[z] ELSE q + (z - b - 1))
  BY DEF Extended
<1> HIDE DEF p
<1>3. CASE z <= b
  <2>1. y \in a .. b /\ z \in a .. b
    BY <1>1, <1>3
  <2> QED
    BY <1>1, <1>2, <1>3, <2>1 DEF Ordered, p
<1>4. CASE y <= b /\ z > b
  <2>1. y \in a .. b /\ b \in a .. b /\ y <= b
    BY <1>1, <1>4
  <2>2. /\ 0 <= o[b] - o[y] /\ o[b] - o[y] <= (b - y) * Growth /\ o[y] \in Int
        /\ in_out[y % BufferSize].type = "Valid" => o[y] <= c
    BY <2>1 DEF Ordered
  <2>3. PICK k \in Nat, m \in Nat : k = b - y /\ m = z - b - 1
    BY <1>4
  <2>4. /\ (k + 1) * Growth = k * Growth + Growth /\ k * Growth \in Nat
        /\ m <= m * Growth /\ m * Growth \in Nat
    BY Products
  <2>5. ((k + 1) + m) * Growth = (k + 1) * Growth + m * Growth /\ k + 1 \in Nat
    <3>1. PICK i \in Nat : i = k + 1
      OBVIOUS
    <3>2. (i + m) * Growth = i * Growth + m * Growth
      BY Products
    <3> QED
      BY <3>1, <3>2
  <2>6. z - y = (k + 1) + m
    BY <2>3
  <2>7. p[z] - p[y] = (q - o[b]) + (o[b] - o[y]) + m /\ p[z] = q + m /\ p[y] = o[y]
    BY <1>1, <1>2, <1>4, <2>2, <2>3
  <2>8. o[b] - o[y] <= k * Growth
    BY <2>2, <2>3
  <2>9. (z - y) * Growth = k * Growth + Growth + m * Growth
    BY <2>4, <2>5, <2>6
  <2>10. 0 <= p[z] - p[y] /\ p[z] - p[y] <= (z - y) * Growth
    BY <1>1, <2>2, <2>4, <2>7, <2>8, <2>9
  <2>11. c < p[z] /\ (in_out[y % BufferSize].type = "Valid" => p[y] < p[z])
    BY <1>1, <2>2, <2>7
  <2> QED
    BY <1>2, <1>4, <2>10, <2>11 DEF p
<1>5. CASE y > b
  <2>1. PICK k \in Nat : k = z - y
    OBVIOUS
  <2>2. k <= k * Growth /\ k * Growth \in Nat
    BY Products
  <2>3. p[z] - p[y] = k /\ c < p[z] /\ p[z] \in Int /\ p[y] \in Int
    BY <1>1, <1>2, <1>5, <2>1
  <2> QED
    BY <1>2, <1>5, <2>1, <2>2, <2>3 DEF p
<1> QED
  BY <1>3, <1>4, <1>5

\* A packet ahead of all others extends the order; a dropped one may not leave
\* out others, whose outputs would be given away again.
LEMMA OrderedNew ==
    ASSUME Modulus % BufferSize = 0, MaxGenerate + 1 <= Ahead, TypeOK,
           NEW a \in Int, NEW b \in Int, NEW c \in Int, NEW o \in [Int -> Int], Ordered(a, b, c, o),
           NEW x \in Number, NEW skip \in BOOLEAN, BoundedNew(x, skip),
           NEW y \in Int, y = PlaceOf(a, x), NEW f \in Int, f = NewFirst(a, y),
           NEW q \in Int, q = c + offset + 1, skip => y = b + 1,
           NEW p, p = Extended(o, b, q), NEW d \in Int, d = IF skip THEN c ELSE p[y]
    PROVE  Ordered(f, y, d, p)'
<1>1. Follows(a, b) /\ last_output = c % Modulus /\ a <= b
  BY DEF Ordered, Follows
<1>2. b < y /\ y - b - 1 \in 0 .. Ahead - 2
  BY <1>1, Place, LeftOut DEF BoundedNew
<1>3. a <= f /\ f <= y /\ y \in f .. y
  BY <1>1, NewWindow
<1>4. Follows(f, y)'
  BY <1>1, FollowsNew
<1>5. p \in [Int -> Int] /\ p[y] = q + (y - b - 1) /\ p[y] \in Int /\ c < p[y]
  <2>1. p \in [Int -> Int]
    BY DEF Extended
  <2>2. p[y] = q + (y - b - 1)
    BY <1>2 DEF Extended
  <2>3. offset \in Nat
    BY Ranges DEF TypeOK
  <2> QED
    BY <1>2, <2>1, <2>2, <2>3
<1>6. offset \in 0 .. MaxGenerate /\ offset' = (IF skip THEN offset ELSE 0)
  BY DEF TypeOK, BoundedNew
<1>7. last_output' = d % Modulus
  <2>1. UpdateLastOutput(skip, p[y] % Modulus)
    <3>1. (x - (last_input + 1)) % Modulus = y - b - 1
      BY <1>1, LeftOut DEF BoundedNew
    <3>2. UpdateLastOutput(skip, Bounded(NextOutput + (y - b - 1)))
      BY <3>1 DEF BoundedNew, SN
    <3>3. PICK j \in Int : j = y - b - 1
      OBVIOUS
    <3>4. Bounded(NextOutput + j) = (q + j) % Modulus
      BY <1>1, NextOutputs
    <3>5. Bounded(NextOutput + (y - b - 1)) = p[y] % Modulus
      BY <1>5, <3>3, <3>4
    <3> QED
      BY <3>2, <3>5
  <2>2. LessThan(c % Modulus, p[y] % Modulus)
    <3>1. c - p[y] < Ahead /\ p[y] - c <= Modulus - Ahead
      BY <1>2, <1>5, <1>6, Ranges
    <3> QED
      BY <1>5, <3>1, LessThanClose
  <2> QED
    BY <1>1, <2>1, <2>2 DEF UpdateLastOutput
<1>8. d <= p[y] /\ p[y] <= d + offset' + 1
  BY <1>2, <1>5, <1>6
<1>9. ASSUME NEW z \in f .. y
      PROVE  /\ in_out'[z % BufferSize].output = p[z] % Modulus
             /\ in_out'[z % BufferSize].type = "Valid" => p[z] <= d
             /\ in_out'[z % BufferSize].type = "Valid" /\ z <= b => in_out[z % BufferSize].type = "Valid"
  <2>1. /\ in_out'[z % BufferSize].output = p[z] % Modulus
        /\ z <= b => in_out'[z % BufferSize] = in_out[z % BufferSize] /\ z \in a .. b
        /\ z > b => in_out'[z % BufferSize] =
                      SN(z % Modulus, p[z] % Modulus, IF z = y /\ skip THEN "Skip" ELSE "Valid")
    BY NewEntries
  <2>2. CASE z <= b
    <3>1. p[z] = o[z] /\ o[z] \in Int
      BY <2>2 DEF Extended
    <3>2. in_out[z % BufferSize].type = "Valid" => o[z] <= c
      BY <2>1, <2>2 DEF Ordered
    <3> QED
      BY <1>5, <2>1, <2>2, <3>1, <3>2
  <2>3. CASE z > b
    <3>1. in_out'[z % BufferSize].type = "Valid" => ~skip
      <4>1. skip => z = y
        BY <2>3
      <4> QED
        BY <2>1, <2>3, <4>1 DEF SN
    <3>2. p[z] = q + (z - b - 1)
      BY <2>3 DEF Extended
    <3>3. p[z] <= p[y]
      BY <1>2, <1>5, <3>2
    <3> QED
      BY <2>1, <2>3, <3>1, <3>3
  <2> QED
    BY <2>2, <2>3
<1>10. ASSUME NEW w \in f .. y, NEW z \in f .. y, w <= z
       PROVE  /\ 0 <= p[z] - p[w] /\ p[z] - p[w] <= (z - w) * Growth
              /\ w < z /\ in_out'[w % BufferSize].type = "Valid" => p[w] < p[z]
  <2>1. a <= w /\ w \in Int /\ z \in Int
    BY <1>3
  <2>2. /\ 0 <= p[z] - p[w] /\ p[z] - p[w] <= (z - w) * Growth
        /\ w < z /\ (w > b \/ in_out[w % BufferSize].type = "Valid") => p[w] < p[z]
    BY <1>10, <2>1, ExtendedOrder
  <2>3. w > b \/ w <= b
    OBVIOUS
  <2> QED
    BY <1>9, <2>2, <2>3
<1> QED
  BY <1>4, <1>7, <1>8, <1>9, <1>10 DEF Ordered

\* The first packet after the start or a reset.
LEMMA OrderedFirst ==
    ASSUME OneWidth, MaxGenerate + 1 <= Ahead, TypeOK, NEW x \in Number, GetFirst(x, FALSE),
           NEW c \in Int, c = IF reset \/ offset > 0 THEN Bounded(NextOutput) ELSE x,
           NEW o, o = [z \in Int |-> c]
    PROVE  /\ Ordered(x, x, c, o)'
           /\ in_out'[x % BufferSize] = SN(x, c, "Valid")
           /\ out_in'[c % BufferSize] = SN(x, c, "Valid")
<1>1. x \in Int /\ c \in Number /\ c % Modulus = c /\ last_output \in Int /\ last_output % Modulus = last_output
      /\ offset \in 0 .. MaxGenerate
  <2>1. x \in Number /\ last_output \in Number /\ offset \in 0 .. MaxGenerate
    BY Widths DEF TypeOK
  <2>2. NextOutput \in Int
    BY <2>1, Ranges DEF NextOutput, Number
  <2>3. c \in Number
    BY <2>1, <2>2, Slot DEF Bounded
  <2>4. \A k \in Number : k \in Int /\ -Modulus <= k /\ k < Modulus /\ k >= 0
    BY Ranges DEF Number
  <2>5. Modulus \in Nat \ {0}
    BY Ranges
  <2>6. c % Modulus = c
    BY <2>3, <2>4, <2>5, ModSmall
  <2>7. last_output % Modulus = last_output
    BY <2>1, <2>4, <2>5, ModSmall
  <2> QED
    BY <2>1, <2>3, <2>4, <2>6, <2>7
<1>2. last_output' = c
  <2>1. UpdateLastOutput(FALSE, c)
    BY DEF GetFirst
  <2>2. CASE reset \/ offset > 0
    <3>1. LessThan(last_output, c)
      <4>1. PICK v \in Int : v = NextOutput
        BY <1>1, Ranges DEF NextOutput
      <4>2. c = v % Modulus
        BY <2>2, <4>1 DEF Bounded
      <4>4. last_output - v < Ahead /\ v - last_output <= Modulus - Ahead /\ last_output < v
        BY <1>1, <4>1, Ranges DEF NextOutput
      <4>5. LessThan(last_output % Modulus, v % Modulus)
        BY <1>1, <4>4, LessThanClose
      <4> QED
        BY <1>1, <4>2, <4>5
    <3> QED
      BY <2>1, <3>1 DEF UpdateLastOutput
  <2>3. CASE ~(reset \/ offset > 0)
    <3>1. offset = 0
      BY <1>1, <2>3
    <3> QED
      BY <2>1, <2>3, <3>1 DEF UpdateLastOutput, GetFirst
  <2> QED
    BY <2>2, <2>3
<1>3. Follows(x, x)' /\ offset' = 0
  BY FollowsFirst DEF GetFirst
<1>4. in_out' = AddIn(in_out, SN(x, c, "Valid")) /\ out_in' = AddOut(out_in, SN(x, c, "Valid"))
  BY DEF GetFirst
<1>5. in_out'[x % BufferSize] = SN(x, c, "Valid") /\ out_in'[c % BufferSize] = SN(x, c, "Valid")
  <2>1. /\ in_out \in Buffer /\ out_in \in Buffer /\ x % BufferSize \in 0 .. BufferSize - 1
        /\ c % BufferSize \in 0 .. BufferSize - 1
    BY <1>1, Slot DEF TypeOK, Buffer
  <2>2. SN(x, c, "Valid").input = x /\ SN(x, c, "Valid").output = c
    BY DEF SN
  <2> QED
    BY <1>4, <2>1, <2>2 DEF AddIn, AddOut, Buffer
<1>6. o[x] = c /\ \A y \in x .. x : y = x
  BY <1>1
<1>7. (x - x) * Growth = 0
  BY <1>1, Ranges DEF Growth
<1>8. in_out'[x % BufferSize].output = c % Modulus
  BY <1>1, <1>5 DEF SN
<1>9. Ordered(x, x, c, o)'
  BY <1>1, <1>2, <1>3, <1>6, <1>7, <1>8 DEF Ordered
<1> QED
  BY <1>5, <1>9

\* A late packet can only move the last output forward, to one of the window.
LEMMA OrderedLate ==
    ASSUME Modulus % BufferSize = 0, MaxGenerate + 1 <= Ahead, TypeOK,
           NEW a \in Int, NEW b \in Int, NEW c \in Int, NEW o \in [Int -> Int], Ordered(a, b, c, o),
           c - o[a] < Ahead, NEW x \in Number, NEW skip \in BOOLEAN, GetLate(x, skip)
    PROVE  \E d \in Int : Ordered(a, b, d, o)'
<1>1. Follows(a, b) /\ last_output = c % Modulus /\ a <= b /\ b \in a .. b /\ c <= o[b]
      /\ o[b] <= c + offset + 1 /\ o[b] \in Int
  BY DEF Ordered, Follows
<1>2. PICK y \in a .. b : x = y % Modulus /\ x % BufferSize = y % BufferSize
  BY <1>1, LatePlace
<1>3. Follows(a, b)' /\ offset' = offset /\ offset \in 0 .. MaxGenerate
  BY <1>1, FollowsLate DEF GetLate, TypeOK
<1>4. ASSUME NEW z \in a .. b
      PROVE  /\ in_out'[z % BufferSize].output = in_out[z % BufferSize].output
             /\ in_out'[z % BufferSize].type = "Valid" => in_out[z % BufferSize].type = "Valid"
  <2>1. in_out \in Buffer /\ z % BufferSize \in 0 .. BufferSize - 1 /\ x % BufferSize \in 0 .. BufferSize - 1
    <3>1. x \in Int /\ z \in Int
      BY Ranges DEF Number
    <3>2. in_out \in Buffer
      BY DEF TypeOK, Buffer
    <3> QED
      BY <3>1, <3>2, Slot
  <2>2. in_out[z % BufferSize] \in SequenceNumber
    BY <2>1 DEF Buffer
  <2>3. CASE in_out[x % BufferSize].type = "Valid"
    <3>1. in_out' = [in_out EXCEPT ![x % BufferSize] =
                       [in_out[x % BufferSize] EXCEPT !.type = IF skip THEN "Discard" ELSE "Valid"]]
      BY <2>3 DEF GetLate
    <3> QED
      BY <2>1, <2>2, <2>3, <3>1 DEF Buffer, SequenceNumber
  <2>4. CASE in_out[x % BufferSize].type # "Valid"
    BY <2>4 DEF GetLate, buffers
  <2> QED
    BY <2>3, <2>4
<1>5. PICK d \in Int : last_output' = d % Modulus /\ c <= d /\ d <= o[b]
  <2>1. UpdateLastOutput(skip, o[y] % Modulus)
    BY <1>2 DEF GetLate, Ordered
  <2>2. LessThan(c % Modulus, o[y] % Modulus) <=> c < o[y]
    <3>1. o[y] \in Int /\ o[a] \in Int /\ o[y] <= o[b] /\ o[a] <= o[y]
      <4>1. a \in a .. b /\ a <= y /\ y <= b
        BY <1>1
      <4>2. o[y] \in Int /\ o[a] \in Int /\ 0 <= o[b] - o[y] /\ 0 <= o[y] - o[a]
        BY <1>1, <4>1 DEF Ordered
      <4> QED
        BY <1>1, <4>2
    <3>2. c - o[y] < Ahead /\ o[y] - c <= Modulus - Ahead
      BY <1>1, <1>3, <3>1, Ranges
    <3> QED
      BY <3>1, <3>2, LessThanClose
  <2>3. o[y] \in Int /\ o[y] <= o[b]
    <3>1. 0 <= o[b] - o[y] /\ o[y] \in Int
      BY <1>1 DEF Ordered
    <3> QED
      BY <1>1, <3>1
  <2>4. CASE ~skip /\ LessThan(last_output, o[y] % Modulus)
    BY <1>1, <2>1, <2>2, <2>3, <2>4 DEF UpdateLastOutput
  <2>5. CASE ~(~skip /\ LessThan(last_output, o[y] % Modulus))
    <3>1. last_output' = last_output
      BY <2>1, <2>5 DEF UpdateLastOutput, GetLate
    <3> QED
      BY <1>1, <3>1
  <2> QED
    BY <2>4, <2>5
<1>6. o[b] <= d + offset' + 1
  BY <1>1, <1>3, <1>5
<1>7. ASSUME NEW z \in a .. b
      PROVE  /\ in_out'[z % BufferSize].output = o[z] % Modulus
             /\ in_out'[z % BufferSize].type = "Valid" => o[z] <= d
  <2>1. o[z] \in Int /\ in_out[z % BufferSize].output = o[z] % Modulus
        /\ (in_out[z % BufferSize].type = "Valid" => o[z] <= c)
    BY DEF Ordered
  <2> QED
    BY <1>4, <1>5, <2>1
<1>8. Ordered(a, b, d, o)'
  <2>1. \A w, z \in a .. b : w <= z =>
          /\ 0 <= o[z] - o[w] /\ o[z] - o[w] <= (z - w) * Growth
          /\ w < z /\ in_out'[w % BufferSize].type = "Valid" => o[w] < o[z]
    BY <1>4 DEF Ordered
  <2> QED
    BY <1>3, <1>5, <1>6, <1>7, <2>1 DEF Ordered
<1> QED
  BY <1>8

\* A step that changes no input and no output keeps the order; generating a
\* packet only makes room.
LEMMA OrderedUnchanged ==
    ASSUME TypeOK, NEW a \in Int, NEW b \in Int, NEW c \in Int, NEW o \in [Int -> Int], Ordered(a, b, c, o),
           UNCHANGED <<in_out, first_input, last_input, last_output>>, offset' \in {offset, offset + 1}
    PROVE  Ordered(a, b, c, o)'
<1>1. o[b] <= c + offset' + 1
  <2>1. offset \in Int /\ o[b] \in Int /\ o[b] <= c + offset + 1
    BY DEF TypeOK, Ordered
  <2> QED
    BY <2>1
<1>2. Follows(a, b)'
  BY DEF Ordered, Follows
<1> QED
  BY <1>1, <1>2 DEF Ordered

\* The order exists while the translator is initialized.
OutputInv == initialized => \E a, b, c \in Int : \E o \in [Int -> Int] : Ordered(a, b, c, o)

\* Where no packet is dropped right after a loss, a dropped packet that is ahead
\* of all others is the next one.
LEMMA SkipNext ==
    ASSUME ~SkipAfterLoss, TypeOK, NEW a \in Int, NEW b \in Int, Follows(a, b),
           NEW x \in Inputs(TRUE), BoundedNew(x, TRUE)
    PROVE  PlaceOf(a, x) = b + 1
<1>1. x \in Number
  BY InputsType
<1>2. PICK y \in Int : y = PlaceOf(a, x)
  BY <1>1, Place
<1>3. b < y /\ y % Modulus = x /\ y - b - 1 \in 0 .. Ahead - 2
  BY <1>1, <1>2, Place, LeftOut DEF BoundedNew
<1>4. PICK d \in -(MaxDistance + 1) .. 1 : x = Bounded(last_input + d)
  BY DEF Inputs, BoundedNew
<1>5. d \in Int /\ -(MaxDistance + 1) <= d /\ d <= 1 /\ Modulus \in Nat \ {0}
  BY <1>4, Ranges
<1>6. x = (b + d) % Modulus
  <2>1. ((b % Modulus) + d) % Modulus = (b + d) % Modulus
    BY <1>5, ModSum
  <2> QED
    BY <1>4, <2>1 DEF Bounded, Follows
<1>7. PICK v \in Int : v = b + d
  BY <1>5
<1>8. y - v < Modulus /\ v - y < Modulus
  BY <1>3, <1>5, <1>7, Ranges
<1>9. y % Modulus = v % Modulus
  BY <1>3, <1>6, <1>7
<1>10. y = v
  BY <1>5, <1>8, <1>9, ModInjective
<1> QED
  BY <1>2, <1>3, <1>5, <1>7, <1>10

\* Every step keeps the order.
LEMMA StepOrdered ==
    ASSUME OneWidth, Modulus % BufferSize = 0, Narrow, ~SkipAfterLoss, TypeOK, OutputInv, [Next]_vars
    PROVE  OutputInv'
<1>1. ASSUME NEW skip \in BOOLEAN, NEW x \in Inputs(skip), Get(x, skip) PROVE OutputInv'
  <2>1. x \in Number /\ x \in Int
    BY InputsType, Ranges DEF Number
  <2>c. GetFirst(x, skip) \/ GetTooOld(x) \/ BoundedNew(x, skip) \/ GetLate(x, skip)
    BY <1>1, <2>1, GetCases
  <2>2. CASE GetFirst(x, skip)
    <3>1. CASE skip
      BY <2>2, <3>1 DEF GetFirst, OutputInv
    <3>2. CASE ~skip
      <4>1. (IF reset \/ offset > 0 THEN Bounded(NextOutput) ELSE x) \in Int
        <5>1. NextOutput \in Int
          BY Words DEF TypeOK, NextOutput
        <5> QED
          BY <2>1, <5>1, Slot, Ranges DEF Bounded, Number
      <4>2. PICK c \in Int : c = IF reset \/ offset > 0 THEN Bounded(NextOutput) ELSE x
        BY <4>1
      <4>3. PICK o \in [Int -> Int] : o = [z \in Int |-> c]
        OBVIOUS
      <4>4. Ordered(x, x, c, o)'
        BY <2>1, <2>2, <3>2, <4>2, <4>3, NarrowSteps, OrderedFirst
      <4> QED
        BY <2>1, <4>4 DEF OutputInv
    <3> QED
      BY <3>1, <3>2
  <2>3. ASSUME initialized, ~GetFirst(x, skip) PROVE OutputInv'
    <3>1. PICK a, b, c \in Int, o \in [Int -> Int] : Ordered(a, b, c, o)
      BY <2>3 DEF OutputInv
    <3>2. Follows(a, b)
      BY <3>1 DEF Ordered
    <3>3. CASE GetTooOld(x)
      <4>1. Ordered(a, b, c, o)'
        BY <3>1, <3>3, OrderedUnchanged DEF GetTooOld, buffers
      <4> QED
        BY <4>1 DEF OutputInv
    <3>4. CASE BoundedNew(x, skip)
      <4>1. PlaceOf(a, x) \in Int /\ NewFirst(a, PlaceOf(a, x)) \in Int
        BY <2>1, <3>2, <3>4, Place, NewWindow
      <4>2. PICK y \in Int, f \in Int : y = PlaceOf(a, x) /\ f = NewFirst(a, y)
        BY <4>1
      <4>3. PICK q \in Int : q = c + offset + 1
        BY DEF TypeOK
      <4>e. Extended(o, b, q) \in [Int -> Int]
        BY DEF Extended
      <4>4. PICK p \in [Int -> Int] : p = Extended(o, b, q)
        BY <4>e
      <4>5. PICK d \in Int : d = IF skip THEN c ELSE p[y]
        OBVIOUS
      <4>6. ASSUME skip PROVE y = b + 1
        <5>1. x \in Inputs(TRUE) /\ BoundedNew(x, TRUE)
          BY <3>4, <4>6
        <5> QED
          BY <3>2, <4>2, <5>1, SkipNext
      <4>7. Ordered(f, y, d, p)'
        BY <2>1, <3>1, <3>4, <4>2, <4>3, <4>4, <4>5, <4>6, NarrowSteps, OrderedNew
      <4> QED
        BY <4>7 DEF OutputInv
    <3>5. CASE GetLate(x, skip)
      <4>1. PICK d \in Int : Ordered(a, b, d, o)'
        BY <2>1, <3>1, <3>5, NarrowSteps, OrderedLate
      <4> QED
        BY <4>1 DEF OutputInv
    <3> QED
      BY <2>3, <2>c, <3>3, <3>4, <3>5
  <2> QED
    BY <2>2, <2>3, <2>c DEF GetTooOld, BoundedNew, GetLate
<1>2. CASE Generate
  <2>1. ASSUME initialized PROVE OutputInv'
    <3>1. PICK a, b, c \in Int, o \in [Int -> Int] : Ordered(a, b, c, o)
      BY <2>1 DEF OutputInv
    <3>2. Ordered(a, b, c, o)'
      BY <1>2, <3>1, OrderedUnchanged DEF Generate
    <3> QED
      BY <3>2 DEF OutputInv
  <2> QED
    BY <1>2, <2>1 DEF Generate, OutputInv
<1>3. CASE Reset
  BY <1>3 DEF Reset, OutputInv
<1>4. CASE UNCHANGED vars
  <2>1. ASSUME initialized PROVE OutputInv'
    <3>1. PICK a, b, c \in Int, o \in [Int -> Int] : Ordered(a, b, c, o)
      BY <2>1 DEF OutputInv
    <3>2. Ordered(a, b, c, o)'
      BY <1>4, <3>1, OrderedUnchanged DEF vars, buffers
    <3> QED
      BY <3>2 DEF OutputInv
  <2> QED
    BY <1>4, <2>1 DEF vars, OutputInv
<1> QED
  BY <1>1, <1>2, <1>3, <1>4 DEF Next

\* The numbers of the window are those from a to b.
LEMMA WindowPlace ==
    ASSUME Modulus % BufferSize = 0, NEW a \in Int, NEW b \in Int, Follows(a, b), NEW x \in Window
    PROVE  \E y \in a .. b : /\ x = y % Modulus /\ x % BufferSize = y % BufferSize
                            /\ (x - first_input) % Modulus = y - a
<1>1. Modulus \in Nat \ {0} /\ BufferSize \in Nat \ {0} /\ a <= b /\ b - a <= MaxDistance
      /\ MaxDistance < Modulus /\ MaxDistance \in Nat
  BY Ranges DEF Follows
<1>2. (last_input - first_input) % Modulus = b - a
  <2>1. (last_input - first_input) % Modulus = (b - a) % Modulus
    BY <1>1, ModDiff DEF Follows
  <2>2. PICK l \in Int : l = b - a /\ -Modulus <= l /\ l < Modulus /\ l >= 0
    BY <1>1
  <2>3. l % Modulus = l
    BY <1>1, <2>2, ModSmall
  <2> QED
    BY <2>1, <2>2, <2>3
<1>3. PICK j \in 0 .. b - a : x = Bounded(first_input + j)
  BY <1>2 DEF Window
<1>4. PICK y \in Int : y = a + j
  OBVIOUS
<1>5. x = y % Modulus /\ y \in a .. b
  <2>1. j \in Int
    OBVIOUS
  <2>2. ((a % Modulus) + j) % Modulus = (a + j) % Modulus
    BY <1>1, <2>1, ModSum
  <2> QED
    BY <1>3, <1>4, <2>2 DEF Bounded, Follows
<1>6. (y % Modulus) % BufferSize = y % BufferSize
  BY <1>1, ModMod
<1>7. (x - first_input) % Modulus = (y - a) % Modulus
  <2>1. ((y % Modulus) - (a % Modulus)) % Modulus = (y - a) % Modulus
    BY <1>1, ModDiff
  <2> QED
    BY <1>5, <2>1 DEF Follows
<1>8. (y - a) % Modulus = y - a
  <2>1. PICK l \in Int : l = y - a /\ -Modulus <= l /\ l < Modulus /\ l >= 0
    BY <1>1, <1>5
  <2>2. l % Modulus = l
    BY <1>1, <2>1, ModSmall
  <2> QED
    BY <2>1, <2>2
<1> QED
  BY <1>5, <1>6, <1>7, <1>8

\* Renumbering keeps the order of the packets, for numbers as wide as the integers
\* that hold them and every window and number of calls, if no packet is dropped right after a loss, and if a window's
\* outputs, with the generated ones, do not span a sixteenth of the range
\* (SequenceNumberTranslator::get, fill, generate).
THEOREM OutputsOrderedTheorem ==
    ASSUME WordBits = Bits, Modulus % BufferSize = 0, ~SkipAfterLoss,
           (MaxDistance + 1) * (MaxGenerate + 1) <= 2 ^ (Bits - 4)
    PROVE  Spec => []OutputsOrdered
<1>1. Narrow
  BY DEF Narrow, Growth, Ahead
<1>2. Init => OutputInv
  BY DEF Init, OutputInv
<1>3. TypeOK /\ OutputInv /\ [Next]_vars => OutputInv'
  BY <1>1, StepOrdered DEF OneWidth
<1>4. TypeOK /\ OutputInv => OutputsOrdered
  <2> SUFFICES ASSUME TypeOK, OutputInv, initialized, NEW x \in Window, NEW y \in Window,
                      Translation(x).type = "Valid", Translation(y).type = "Valid",
                      (x - first_input) % Modulus < (y - first_input) % Modulus
               PROVE  LessThan(Translation(x).output, Translation(y).output)
    BY DEF OutputsOrdered
  <2>1. PICK a, b, c \in Int, o \in [Int -> Int] : Ordered(a, b, c, o)
    BY DEF OutputInv
  <2>2. Follows(a, b)
    BY <2>1 DEF Ordered
  <2>3. PICK u \in a .. b : /\ x = u % Modulus /\ x % BufferSize = u % BufferSize
                            /\ (x - first_input) % Modulus = u - a
    BY <2>2, WindowPlace
  <2>4. PICK v \in a .. b : /\ y = v % Modulus /\ y % BufferSize = v % BufferSize
                            /\ (y - first_input) % Modulus = v - a
    BY <2>2, WindowPlace
  <2>5. u < v
    BY <2>3, <2>4
  <2>6. o[u] < o[v] /\ o[u] \in Int /\ o[v] \in Int
    BY <2>1, <2>3, <2>5 DEF Ordered, Translation
  <2>7. Translation(x).output = o[u] % Modulus /\ Translation(y).output = o[v] % Modulus
    BY <2>1, <2>3, <2>4 DEF Ordered, Translation
  <2>8. /\ o[v] - o[u] <= MaxDistance * Growth /\ MaxDistance * Growth + Growth <= Ahead
        /\ MaxDistance * Growth \in Nat
    BY <1>1, <2>1, <2>5, Close
  <2>9. o[u] - o[v] < Ahead /\ o[v] - o[u] <= Modulus - Ahead
    BY <2>6, <2>8, Ranges DEF Growth
  <2> QED
    BY <2>6, <2>7, <2>9, LessThanClose
<1> QED
  BY <1>2, <1>3, <1>4, InitType, StepType, PTL DEF Spec
-----------------------------------------------------------------------------
\* The buffer of outputs holds the translation of every valid packet.
Mirrored(a, b, o) ==
    \A y \in a .. b : in_out[y % BufferSize].type = "Valid" => out_in[o[y] % BufferSize] = in_out[y % BufferSize]

\* Different outputs that are fewer than the slots apart are in different slots.
LEMMA Apart ==
    ASSUME NEW u \in Int, NEW v \in Int, u < v, v - u < BufferSize
    PROVE  u % BufferSize # v % BufferSize
<1>1. v - u < BufferSize /\ u - v < BufferSize /\ BufferSize \in Nat \ {0} /\ u # v
  BY Ranges
<1>2. ASSUME u % BufferSize = v % BufferSize PROVE u = v
  BY <1>1, <1>2, ModInjective
<1> QED
  BY <1>1, <1>2

\* Where the unbounded outputs of a window span less than the range, WindowFits,
\* for the last output l, the offset g and the oldest output t, bounds them.
LEMMA Span ==
    ASSUME NEW c \in Int, NEW v \in Int, NEW g \in Int, NEW l \in Int, NEW t \in Int,
           l = c % Modulus, t = v % Modulus, ((l + g + 1) - t) % Modulus < BufferSize,
           v <= c + g + 1, c + g + 1 - v < Modulus
    PROVE  c + g + 1 - v < BufferSize
<1>1. Modulus \in Nat \ {0}
  BY Ranges
<1>2. PICK e \in Int, q \in Int : e = g + 1 /\ q = c + g + 1
  OBVIOUS
<1>3. (l + e) % Modulus = q % Modulus
  <2>1. ((c % Modulus) + e) % Modulus = (c + e) % Modulus
    BY <1>1, ModSum
  <2>2. q = c + e
    BY <1>2
  <2> QED
    BY <2>1, <2>2
<1>4. PICK w \in Int : w = l + e
  BY <1>2
<1>5. ((w % Modulus) - (v % Modulus)) % Modulus = (q - v) % Modulus
  <2>1. ((q % Modulus) - (v % Modulus)) % Modulus = (q - v) % Modulus
    BY <1>1, ModDiff
  <2> QED
    BY <1>3, <1>4, <2>1
<1>6. ((w % Modulus) - t) % Modulus = (w - t) % Modulus
  BY <1>1, ModSub
<1>7. PICK k \in Int : k = q - v /\ 0 <= k /\ k < Modulus /\ -Modulus <= k
  BY <1>1, <1>2
<1>8. k % Modulus = k
  BY <1>1, <1>7, ModSmall
<1>9. (w - t) % Modulus = k
  BY <1>5, <1>6, <1>7, <1>8
<1>10. w - t = (l + g + 1) - t
  BY <1>2, <1>4
<1> QED
  BY <1>2, <1>7, <1>9, <1>10

\* The inputs after the last one, unbounded.
LEMMA AfterLast ==
    ASSUME Modulus % BufferSize = 0, NEW b \in Int, NEW l \in Int, l = (b % Modulus) + 1, NEW j \in Int
    PROVE  Bounded(l + j) = (b + 1 + j) % Modulus
<1>1. PICK one \in Int, t \in Int : one = 1 /\ t = b + 1
  OBVIOUS
<1>2. ((b % Modulus) + one) % Modulus = (b + one) % Modulus
  BY Ranges, ModSum
<1>3. l % Modulus = t % Modulus
  BY <1>1, <1>2
<1>4. Bounded(l + j) = (t + j) % Modulus
  BY <1>3, SlotOf
<1> QED
  BY <1>1, <1>4

\* New packets overwrite no valid translation of the window.
LEMMA MirroredNew ==
    ASSUME Modulus % BufferSize = 0, TypeOK, NEW a \in Int, NEW b \in Int, NEW c \in Int,
           NEW o \in [Int -> Int], Ordered(a, b, c, o), Mirrored(a, b, o),
           NEW x \in Number, NEW skip \in BOOLEAN, BoundedNew(x, skip),
           NEW y \in Int, y = PlaceOf(a, x), NEW f \in Int, f = NewFirst(a, y),
           NEW q \in Int, q = c + offset + 1, NEW p, p = Extended(o, b, q), p[y] - p[f] < BufferSize
    PROVE  Mirrored(f, y, p)'
<1> SUFFICES ASSUME NEW z \in f .. y, in_out'[z % BufferSize].type = "Valid"
             PROVE  out_in'[p[z] % BufferSize] = in_out'[z % BufferSize]
  BY DEF Mirrored
<1>1. Follows(a, b) /\ last_output = c % Modulus /\ a <= b /\ last_input = b % Modulus
  BY DEF Ordered, Follows
<1>2. PICK n \in Nat : n = y - b - 1 /\ (x - (last_input + 1)) % Modulus = n
  BY <1>1, LeftOut DEF BoundedNew
<1>3. a <= f /\ f <= y /\ y - f <= MaxDistance /\ y \in f .. y /\ b < y /\ z \in Int /\ y % Modulus = x
  <2>1. a <= f /\ f <= y /\ y - f <= MaxDistance
    BY <1>1, NewWindow
  <2>2. y % Modulus = x
    BY <1>1, Place
  <2> QED
    BY <1>2, <2>1, <2>2
<1>4. p \in [Int -> Int] /\ p[y] = q + n
  <2>1. p \in [Int -> Int]
    BY DEF Extended
  <2> QED
    BY <1>2, <1>3, <2>1 DEF Extended
<1>5. NextOutput \in Int /\ NextOutput % Modulus = q % Modulus /\ Bounded(NextOutput + n) = p[y] % Modulus
      /\ \A j \in Int : Bounded(NextOutput + j) = (q + j) % Modulus
  <2>1. NextOutput \in Int /\ NextOutput % Modulus = q % Modulus
        /\ \A j \in Int : Bounded(NextOutput + j) = (q + j) % Modulus
    BY <1>1, NextOutputs
  <2>2. Bounded(NextOutput + n) = (q + n) % Modulus
    BY <2>1
  <2> QED
    BY <1>4, <2>1, <2>2
<1> DEFINE sn == SN(x, p[y] % Modulus, IF skip THEN "Skip" ELSE "Valid")
           fill == FillOut(out_in, last_input + 1, NextOutput, n)
<1>6. out_in' = AddOut(fill, sn) /\ sn.output = p[y] % Modulus
  BY <1>2, <1>5 DEF BoundedNew, SN
<1>7. out_in \in Buffer /\ last_input \in Int /\ last_input + 1 \in Int /\ fill \in Buffer
  <2>1. out_in \in Buffer /\ last_input \in Int /\ last_input + 1 \in Int
    BY Ranges DEF TypeOK, Buffer, Number
  <2>2. fill \in Buffer
    BY <1>5, <2>1, BufferType DEF FillOut
  <2> QED
    BY <2>1, <2>2
<1>8. (p[y] % Modulus) % BufferSize = p[y] % BufferSize /\ p[y] % BufferSize \in 0 .. BufferSize - 1
      /\ p[z] % BufferSize \in 0 .. BufferSize - 1
  <2>1. p[y] \in Int /\ p[z] \in Int /\ Modulus \in Nat \ {0} /\ BufferSize \in Nat \ {0}
    BY <1>3, <1>4, Ranges
  <2>2. (p[y] % Modulus) % BufferSize = p[y] % BufferSize
    <3>1. PICK v \in Int : v = p[y]
      BY <2>1
    <3>2. Modulus \in Nat \ {0} /\ BufferSize \in Nat \ {0} /\ Modulus % BufferSize = 0
      BY Ranges
    <3>3. (v % Modulus) % BufferSize = v % BufferSize
      BY <3>2, ModMod
    <3> QED
      BY <3>1, <3>3
  <2>3. p[y] % BufferSize \in 0 .. BufferSize - 1
    BY <2>1, Slot
  <2>4. p[z] % BufferSize \in 0 .. BufferSize - 1
    BY <2>1, Slot
  <2> QED
    BY <2>2, <2>3, <2>4
<1>9. /\ z <= b => in_out'[z % BufferSize] = in_out[z % BufferSize] /\ z \in a .. b
      /\ z > b => in_out'[z % BufferSize] =
                    SN(z % Modulus, p[z] % Modulus, IF z = y /\ skip THEN "Skip" ELSE "Valid")
  BY NewEntries
<1> HIDE DEF sn, fill
<1>10. CASE z = y
  <2>1. out_in'[p[y] % BufferSize] = sn
    BY <1>6, <1>7, <1>8 DEF AddOut, Buffer
  <2>2. in_out'[z % BufferSize] = SN(x, p[y] % Modulus, IF skip THEN "Skip" ELSE "Valid")
    BY <1>3, <1>9, <1>10
  <2> QED
    BY <1>10, <2>1, <2>2 DEF sn
<1>11. CASE z < y
  <2>1. a <= z /\ z <= y /\ (z > b \/ in_out[z % BufferSize].type = "Valid")
    BY <1>3, <1>9, <1>11
  <2>2. p[z] < p[y]
    BY <1>3, <1>11, <2>1, ExtendedOrder
  <2>3. p[y] - p[z] < BufferSize /\ p[z] \in Int /\ p[y] \in Int
    <3>1. f \in Int /\ a <= f /\ f <= z
      BY <1>3
    <3>2. 0 <= p[z] - p[f]
      BY <1>3, <3>1, ExtendedOrder
    <3>3. p[f] \in Int /\ p[z] \in Int /\ p[y] \in Int
      BY <1>3, <1>4
    <3> QED
      BY <3>2, <3>3, Ranges
  <2>4. p[z] % BufferSize # p[y] % BufferSize
    BY <2>2, <2>3, Apart
  <2>5. out_in'[p[z] % BufferSize] = fill[p[z] % BufferSize]
    BY <1>6, <1>7, <1>8, <2>4 DEF AddOut, Buffer
  <2>6. PICK j \in Int : j = p[z] - q
    BY <2>3
  <2>7. q + j = p[z] /\ n - j <= BufferSize
    BY <1>4, <2>3, <2>6, Ranges
  <2>8. PICK l \in Int : l = last_input + 1
    BY <1>7
  <2>9. Filled(fill, out_in, q, n, l, NextOutput)
    <3>1. fill = Fill(out_in, l, NextOutput, n, NextOutput)
      BY <2>8 DEF fill, FillOut
    <3>2. Filled(Fill(out_in, l, NextOutput, n, NextOutput), out_in, q, n, l, NextOutput)
      BY <1>5, <1>7, FillFrom
    <3> QED
      BY <3>1, <3>2
  <2>10. CASE z <= b
    <3>1. p[z] = o[z] /\ o[z] \in Int
      BY <2>10 DEF Extended
    <3>2. o[z] <= c /\ offset \in Nat
      <4>1. offset \in Nat
        BY Ranges DEF TypeOK
      <4>2. z \in a .. b /\ in_out[z % BufferSize].type = "Valid"
        BY <1>9, <2>10
      <4> QED
        BY <4>1, <4>2 DEF Ordered
    <3>3. j < 0
      BY <2>6, <3>1, <3>2
    <3>4. fill[(q + j) % BufferSize] = out_in[(q + j) % BufferSize]
      BY <2>7, <2>9, <3>3 DEF Filled
    <3>5. out_in[o[z] % BufferSize] = in_out[z % BufferSize]
      BY <1>9, <2>10 DEF Mirrored
    <3> QED
      BY <1>9, <2>5, <2>7, <2>10, <3>1, <3>4, <3>5
  <2>11. CASE z > b
    <3>1. j = z - b - 1 /\ j \in 0 .. n - 1
      <4>1. p[z] = q + (z - b - 1)
        BY <2>11 DEF Extended
      <4> QED
        BY <1>2, <1>3, <1>11, <2>6, <2>11, <4>1
    <3>2. fill[(q + j) % BufferSize] = SN(Bounded(l + j), Bounded(NextOutput + j), "Valid")
      BY <2>7, <2>9, <3>1 DEF Filled
    <3>3. Bounded(NextOutput + j) = p[z] % Modulus
      BY <1>5, <2>7
    <3>4. Bounded(l + j) = z % Modulus
      <4>1. Bounded(l + j) = (b + 1 + j) % Modulus
        BY <1>1, <2>8, AfterLast
      <4> QED
        BY <1>3, <3>1, <4>1
    <3>5. in_out'[z % BufferSize] = SN(z % Modulus, p[z] % Modulus, "Valid")
      BY <1>9, <1>11, <2>11
    <3> QED
      BY <2>5, <2>7, <3>2, <3>3, <3>4, <3>5
  <2> QED
    BY <1>3, <2>10, <2>11
<1> QED
  BY <1>3, <1>10, <1>11

\* A late packet changes both buffers alike.
LEMMA MirroredLate ==
    ASSUME Modulus % BufferSize = 0, TypeOK, NEW a \in Int, NEW b \in Int, NEW c \in Int,
           NEW o \in [Int -> Int], Ordered(a, b, c, o), Mirrored(a, b, o), c + offset + 1 - o[a] < BufferSize,
           NEW x \in Number, NEW skip \in BOOLEAN, GetLate(x, skip)
    PROVE  Mirrored(a, b, o)'
<1>1. Follows(a, b) /\ a <= b /\ b - a <= MaxDistance
  BY DEF Ordered, Follows
<1>2. PICK y \in a .. b : x = y % Modulus /\ x % BufferSize = y % BufferSize
  BY <1>1, LatePlace
<1> SUFFICES ASSUME NEW z \in a .. b, in_out'[z % BufferSize].type = "Valid"
             PROVE  out_in'[o[z] % BufferSize] = in_out'[z % BufferSize]
  BY DEF Mirrored
<1>3. /\ in_out \in Buffer /\ out_in \in Buffer /\ o[y] \in Int /\ o[z] \in Int /\ y \in Int /\ z \in Int
      /\ y % BufferSize \in 0 .. BufferSize - 1 /\ z % BufferSize \in 0 .. BufferSize - 1
      /\ o[y] % BufferSize \in 0 .. BufferSize - 1 /\ o[z] % BufferSize \in 0 .. BufferSize - 1
  <2>1. y \in Int /\ z \in Int /\ o[y] \in Int /\ o[z] \in Int
    OBVIOUS
  <2> QED
    BY <2>1, Slot DEF TypeOK, Buffer
<1>4. CASE in_out[y % BufferSize].type # "Valid"
  <2>1. in_out' = in_out /\ out_in' = out_in
    BY <1>2, <1>4 DEF GetLate, buffers
  <2> QED
    BY <2>1 DEF Mirrored
<1>5. CASE in_out[y % BufferSize].type = "Valid"
  <2> DEFINE new == IF skip THEN "Discard" ELSE "Valid"
  <2>1. in_out[y % BufferSize].output % BufferSize = o[y] % BufferSize
    <3>1. in_out[y % BufferSize].output = o[y] % Modulus
      BY DEF Ordered
    <3>2. Modulus \in Nat \ {0} /\ BufferSize \in Nat \ {0}
      BY Ranges
    <3>3. PICK v \in Int : v = o[y]
      BY <1>3
    <3>4. (v % Modulus) % BufferSize = v % BufferSize
      BY <3>2, ModMod
    <3> QED
      BY <3>1, <3>3, <3>4
  <2>2. /\ in_out' = [in_out EXCEPT ![y % BufferSize] = [in_out[y % BufferSize] EXCEPT !.type = new]]
        /\ out_in' = [out_in EXCEPT ![o[y] % BufferSize] = [out_in[o[y] % BufferSize] EXCEPT !.type = new]]
    BY <1>2, <1>5, <2>1 DEF GetLate
  <2>3. out_in[o[y] % BufferSize] = in_out[y % BufferSize]
    BY <1>5 DEF Mirrored
  <2> HIDE DEF new
  <2>4. CASE z = y
    BY <1>3, <2>2, <2>3, <2>4 DEF Buffer
  <2>5. CASE z # y
    <3>1. z % BufferSize # y % BufferSize
      <4>1. z - y < BufferSize /\ y - z < BufferSize /\ BufferSize \in Nat \ {0}
        BY <1>1, <1>3, Ranges
      <4> QED
        BY <1>3, <2>5, <4>1, ModInjective
    <3>2. in_out'[z % BufferSize] = in_out[z % BufferSize]
      BY <1>3, <2>2, <3>1 DEF Buffer
    <3>s. o[z] - o[y] < BufferSize /\ o[y] - o[z] < BufferSize
      <4>1. a \in a .. b /\ b \in a .. b /\ a <= z /\ a <= y /\ z <= b /\ y <= b
        BY <1>1
      <4>2. 0 <= o[z] - o[a] /\ 0 <= o[y] - o[a] /\ 0 <= o[b] - o[z] /\ 0 <= o[b] - o[y]
        BY <4>1 DEF Ordered
      <4>3. o[b] <= c + offset + 1 /\ o[a] \in Int /\ o[b] \in Int /\ offset \in Int
        BY DEF Ordered, TypeOK
      <4> QED
        BY <1>3, <4>2, <4>3, Ranges
    <3>3. o[z] % BufferSize # o[y] % BufferSize
      <4>1. CASE y < z
        <5>1. o[y] < o[z]
          BY <1>5, <4>1 DEF Ordered
        <5> QED
          BY <1>3, <3>s, <5>1, Apart
      <4>2. CASE z < y
        <5>1. o[z] < o[y]
          BY <3>2, <4>2 DEF Ordered
        <5> QED
          BY <1>3, <3>s, <5>1, Apart
      <4> QED
        BY <1>3, <2>5, <4>1, <4>2
    <3>4. out_in'[o[z] % BufferSize] = out_in[o[z] % BufferSize]
      BY <1>3, <2>2, <3>3 DEF Buffer
    <3> QED
      BY <3>2, <3>4 DEF Mirrored
  <2> QED
    BY <2>4, <2>5
<1> QED
  BY <1>4, <1>5

\* A generated packet takes an output after those of the window.
LEMMA MirroredGenerate ==
    ASSUME Modulus % BufferSize = 0, TypeOK, NEW a \in Int, NEW b \in Int, NEW c \in Int,
           NEW o \in [Int -> Int], Ordered(a, b, c, o), Mirrored(a, b, o), c + offset + 1 - o[a] < BufferSize,
           Generate
    PROVE  Mirrored(a, b, o)'
<1> SUFFICES ASSUME NEW z \in a .. b, in_out'[z % BufferSize].type = "Valid"
             PROVE  out_in'[o[z] % BufferSize] = in_out'[z % BufferSize]
  BY DEF Mirrored
<1>1. /\ in_out' = in_out /\ offset' \in 1 .. MaxGenerate /\ last_output = c % Modulus /\ last_output \in Int
      /\ out_in' = AddOut(out_in, SN(0, Bounded(last_output + offset'), "Generated"))
  <2>1. offset' = offset + 1 /\ offset < MaxGenerate /\ offset \in Nat /\ last_output \in Int
    BY Ranges, Words DEF Generate, TypeOK
  <2>2. offset' + last_output = last_output + offset'
    BY <2>1
  <2>3. offset' \in 1 .. MaxGenerate
    BY <2>1, Ranges
  <2> QED
    BY <2>1, <2>2, <2>3 DEF Generate, Ordered
<1>2. PICK g \in Int : g = offset' /\ 1 <= g /\ g = offset + 1
  BY <1>1, Ranges DEF Generate
<1>3. PICK v \in Int : v = c + g
  OBVIOUS
<1>4. Bounded(last_output + g) % BufferSize = v % BufferSize
  <2>1. last_output % Modulus = c % Modulus
    <3>1. (c % Modulus) % Modulus = c % Modulus
      <4>0. Modulus \in Nat \ {0}
        BY Ranges
      <4>1. c % Modulus \in Int /\ 0 <= c % Modulus /\ c % Modulus < Modulus /\ Modulus \in Nat \ {0}
        BY <4>0, ModDef
      <4>2. PICK r \in Int : r = c % Modulus /\ 0 <= r /\ r < Modulus
        BY <4>1
      <4>3. -Modulus <= r
        BY <4>1, <4>2
      <4>4. r % Modulus = r
        BY <4>1, <4>2, <4>3, ModSmall
      <4> QED
        BY <4>2, <4>4
    <3> QED
      BY <1>1, <3>1
  <2>2. Bounded(last_output + g) % BufferSize = (c + g) % BufferSize
    BY <1>1, <2>1, SlotOf
  <2> QED
    BY <1>3, <2>2
<1>5. o[z] \in Int /\ o[z] <= c /\ o[a] \in Int /\ o[a] <= o[z]
  <2>1. o[z] \in Int /\ o[z] <= c
    BY <1>1 DEF Ordered
  <2>2. a \in a .. b /\ a <= z
    BY DEF Ordered, Follows
  <2>3. 0 <= o[z] - o[a] /\ o[a] \in Int
    BY <2>2 DEF Ordered
  <2> QED
    BY <2>1, <2>3
<1>6. PICK u \in Int : u = o[z]
  BY <1>5
<1>7. u < v /\ v - u < BufferSize
  <2>1. offset \in Int /\ v = c + offset + 1
    BY <1>2, <1>3 DEF TypeOK
  <2> QED
    BY <1>2, <1>3, <1>5, <1>6, <2>1, Ranges
<1>8. u % BufferSize # v % BufferSize
  BY <1>7, Apart
<1>9. out_in'[u % BufferSize] = out_in[u % BufferSize]
  <2>1. u % BufferSize \in 0 .. BufferSize - 1 /\ out_in \in Buffer
    BY Slot DEF TypeOK, Buffer
  <2>2. out_in' = [out_in EXCEPT ![v % BufferSize] = SN(0, Bounded(last_output + g), "Generated")]
    BY <1>1, <1>2, <1>4 DEF AddOut, SN
  <2> QED
    BY <1>8, <2>1, <2>2 DEF Buffer
<1> QED
  BY <1>1, <1>6, <1>9 DEF Mirrored

\* WindowFits, after a step, bounds the unbounded outputs.
LEMMA SpanNext ==
    ASSUME Modulus % BufferSize = 0, TypeOK', WindowFits', initialized',
           NEW f \in Int, NEW y \in Int, NEW d \in Int, NEW p \in [Int -> Int], Ordered(f, y, d, p)',
           d + offset' + 1 - p[f] < Modulus
    PROVE  d + offset' + 1 - p[f] < BufferSize /\ p[y] - p[f] < BufferSize
<1>1. f <= y /\ f \in f .. y /\ y \in f .. y
  BY DEF Ordered, Follows
<1>2. /\ first_input' = f % Modulus /\ last_output' = d % Modulus
      /\ in_out'[f % BufferSize].output = p[f] % Modulus
      /\ 0 <= p[y] - p[f] /\ p[y] <= d + offset' + 1
  BY <1>1 DEF Ordered, Follows
<1>3. (f % Modulus) % BufferSize = f % BufferSize
  <2>1. Modulus \in Nat \ {0} /\ BufferSize \in Nat \ {0}
    BY Ranges
  <2> QED
    BY <2>1, ModMod
<1>4. ((last_output' + offset' + 1) - in_out'[first_input' % BufferSize].output) % Modulus < BufferSize
  BY DEF WindowFits, NextOutput, Translation
<1>5. PICK v \in Int, g \in Int : v = p[f] /\ g = offset'
  BY DEF TypeOK
<1>6. d % Modulus \in Int /\ v % Modulus \in Int
  BY Ranges, ModDef
<1>7. PICK l \in Int, t \in Int : l = d % Modulus /\ t = v % Modulus
  BY <1>6
<1>8. ((l + g + 1) - t) % Modulus < BufferSize
  BY <1>2, <1>3, <1>4, <1>5, <1>7
<1>9. v <= d + g + 1 /\ d + g + 1 - v < Modulus /\ p[y] - v <= d + g + 1 - v
  BY <1>2, <1>5
<1>10. d + g + 1 - v < BufferSize
  BY <1>7, <1>8, <1>9, Span
<1> QED
  BY <1>5, <1>9, <1>10, Ranges

\* The order exists, the buffer of outputs agrees with it, and its slots suffice,
\* while the translator is initialized.
Inverted(a, b, c, o) == Ordered(a, b, c, o) /\ Mirrored(a, b, o) /\ c + offset + 1 - o[a] < BufferSize

ReverseInv == initialized => \E a, b, c \in Int : \E o \in [Int -> Int] : Inverted(a, b, c, o)

\* What the proof needs of the sizes: the buffer, and the packets generated in a
\* row, do not exceed what counts as ahead (1024, 4096 for sequence numbers).
Sizes == BufferSize <= Ahead /\ MaxGenerate + 1 <= Ahead

\* Every step keeps the two buffers in agreement.
LEMMA StepMirrored ==
    ASSUME OneWidth, Modulus % BufferSize = 0, Sizes, ~SkipAfterLoss,
           TypeOK, ReverseInv, [Next]_vars, TypeOK', WindowFits'
    PROVE  ReverseInv'
<1>s. BufferSize <= Ahead /\ MaxGenerate + 1 <= Ahead
  BY DEF Sizes
<1>o. offset \in Nat /\ offset <= MaxGenerate /\ offset' \in Nat /\ offset' <= MaxGenerate
  BY Ranges DEF TypeOK
<1>1. ASSUME NEW skip \in BOOLEAN, NEW x \in Inputs(skip), Get(x, skip) PROVE ReverseInv'
  <2>1. x \in Number /\ x \in Int
    BY InputsType, Ranges DEF Number
  <2>c. GetFirst(x, skip) \/ GetTooOld(x) \/ BoundedNew(x, skip) \/ GetLate(x, skip)
    BY <1>1, <2>1, GetCases
  <2>2. CASE GetFirst(x, skip)
    <3>1. CASE skip
      BY <2>2, <3>1 DEF GetFirst, ReverseInv
    <3>2. CASE ~skip
      <4>1. (IF reset \/ offset > 0 THEN Bounded(NextOutput) ELSE x) \in Int
        <5>1. NextOutput \in Int
          BY Words DEF TypeOK, NextOutput
        <5> QED
          BY <2>1, <5>1, Slot, Ranges DEF Bounded, Number
      <4>2. PICK c \in Int : c = IF reset \/ offset > 0 THEN Bounded(NextOutput) ELSE x
        BY <4>1
      <4>3. PICK o \in [Int -> Int] : o = [z \in Int |-> c]
        OBVIOUS
      <4>4. /\ Ordered(x, x, c, o)' /\ in_out'[x % BufferSize] = SN(x, c, "Valid")
            /\ out_in'[c % BufferSize] = SN(x, c, "Valid")
        BY <1>s, <2>1, <2>2, <3>2, <4>2, <4>3, OrderedFirst
      <4>5. Mirrored(x, x, o)'
        <5>1. o[x] = c /\ \A y \in x .. x : y = x
          BY <2>1, <4>3
        <5> QED
          BY <4>4, <5>1 DEF Mirrored
      <4>6. c + offset' + 1 - o[x] < BufferSize
        <5>1. offset' = 0 /\ initialized' /\ o[x] = c
          BY <2>1, <2>2, <3>2, <4>3 DEF GetFirst
        <5>2. c + offset' + 1 - o[x] < Modulus
          BY <5>1, Ranges
        <5> QED
          BY <2>1, <4>4, <5>1, <5>2, SpanNext
      <4> QED
        BY <2>1, <4>4, <4>5, <4>6 DEF ReverseInv, Inverted
    <3> QED
      BY <3>1, <3>2
  <2>3. ASSUME initialized, ~GetFirst(x, skip) PROVE ReverseInv'
    <3>1. PICK a, b, c \in Int, o \in [Int -> Int] :
            Ordered(a, b, c, o) /\ Mirrored(a, b, o) /\ c + offset + 1 - o[a] < BufferSize
      BY <2>3 DEF ReverseInv, Inverted
    <3>2. Follows(a, b) /\ a <= b /\ o[a] \in Int
      BY <3>1 DEF Ordered, Follows
    <3>3. CASE GetTooOld(x)
      <4>1. Ordered(a, b, c, o)'
        BY <3>1, <3>3, OrderedUnchanged DEF GetTooOld, buffers
      <4>2. Mirrored(a, b, o)'
        BY <3>1, <3>3 DEF GetTooOld, buffers, Mirrored
      <4>3. offset' = offset
        BY <3>3 DEF GetTooOld
      <4> QED
        BY <3>1, <4>1, <4>2, <4>3 DEF ReverseInv, Inverted
    <3>4. CASE BoundedNew(x, skip)
      <4>1. PlaceOf(a, x) \in Int /\ NewFirst(a, PlaceOf(a, x)) \in Int
        BY <2>1, <3>2, <3>4, Place, NewWindow
      <4>2. PICK y \in Int, f \in Int : y = PlaceOf(a, x) /\ f = NewFirst(a, y)
        BY <4>1
      <4>3. PICK q \in Int : q = c + offset + 1
        BY DEF TypeOK
      <4>4. Extended(o, b, q) \in [Int -> Int]
        BY DEF Extended
      <4>5. PICK p \in [Int -> Int] : p = Extended(o, b, q)
        BY <4>4
      <4>6. PICK d \in Int : d = IF skip THEN c ELSE p[y]
        OBVIOUS
      <4>7. ASSUME skip PROVE y = b + 1
        <5>1. x \in Inputs(TRUE) /\ BoundedNew(x, TRUE)
          BY <3>4, <4>7
        <5> QED
          BY <3>2, <4>2, <5>1, SkipNext
      <4>8. Ordered(f, y, d, p)'
        BY <1>s, <2>1, <3>1, <3>4, <4>2, <4>3, <4>5, <4>6, <4>7, OrderedNew
      <4>9. d + offset' + 1 - p[f] < Modulus
        <5>1. y - b - 1 \in 0 .. Ahead - 2
          BY <2>1, <3>2, <3>4, <4>2, LeftOut DEF BoundedNew
        <5>2. a <= f /\ f <= y
          BY <2>1, <3>2, <3>4, <4>2, NewWindow
        <5>3. p[a] = o[a] /\ p[y] = q + (y - b - 1) /\ p[f] \in Int
          BY <3>2, <4>5, <5>1, Ranges DEF Extended
        <5>4. 0 <= p[f] - p[a]
          <6>1. a <= a /\ f \in Int
            BY <4>2
          <6> QED
            BY <3>1, <4>3, <4>5, <5>2, <6>1, ExtendedOrder
        <5>5. d <= p[y]
          <6>1. c <= p[y]
            BY <1>o, <4>3, <5>1, <5>3
          <6> QED
            BY <4>6, <6>1, <5>3
        <5>6. p[y] - p[f] < BufferSize + Ahead - 1
          BY <3>1, <3>2, <4>3, <5>1, <5>3, <5>4, <1>o, Ranges
        <5> QED
          BY <1>o, <1>s, <5>3, <5>5, <5>6, Ranges
      <4>10. d + offset' + 1 - p[f] < BufferSize /\ p[y] - p[f] < BufferSize
        <5>1. initialized'
          BY <3>4 DEF BoundedNew
        <5> QED
          BY <4>8, <4>9, <5>1, SpanNext
      <4>11. Mirrored(f, y, p)'
        BY <2>1, <3>1, <3>4, <4>2, <4>3, <4>5, <4>10, MirroredNew
      <4> QED
        BY <4>8, <4>10, <4>11 DEF ReverseInv, Inverted
    <3>5. CASE GetLate(x, skip)
      <4>1. PICK d \in Int : Ordered(a, b, d, o)'
        <5>1. c - o[a] < Ahead
          BY <1>o, <1>s, <3>1, <3>2, Ranges
        <5> QED
          BY <1>s, <2>1, <3>1, <3>5, <5>1, OrderedLate
      <4>2. Mirrored(a, b, o)'
        BY <2>1, <3>1, <3>5, MirroredLate
      <4>3. d + offset' + 1 - o[a] < BufferSize
        <5>1. offset' = offset /\ initialized'
          BY <3>5 DEF GetLate
        <5>2. d <= o[b] /\ o[b] <= c + offset + 1 /\ o[b] \in Int
          BY <3>1, <4>1 DEF Ordered
        <5>3. d + offset' + 1 - o[a] < Modulus
          BY <1>o, <1>s, <3>1, <3>2, <5>1, <5>2, Ranges
        <5> QED
          BY <4>1, <5>1, <5>3, SpanNext
      <4> QED
        BY <4>1, <4>2, <4>3 DEF ReverseInv, Inverted
    <3> QED
      BY <2>3, <2>c, <3>3, <3>4, <3>5
  <2> QED
    BY <2>2, <2>3, <2>c DEF GetTooOld, BoundedNew, GetLate
<1>2. CASE Generate
  <2>1. ASSUME initialized PROVE ReverseInv'
    <3>1. PICK a, b, c \in Int, o \in [Int -> Int] :
            Ordered(a, b, c, o) /\ Mirrored(a, b, o) /\ c + offset + 1 - o[a] < BufferSize
      BY <2>1 DEF ReverseInv, Inverted
    <3>2. Ordered(a, b, c, o)'
      BY <1>2, <3>1, OrderedUnchanged DEF Generate
    <3>3. Mirrored(a, b, o)'
      BY <1>2, <3>1, MirroredGenerate
    <3>4. c + offset' + 1 - o[a] < BufferSize
      <4>1. offset' = offset + 1 /\ initialized' /\ o[a] \in Int
        BY <1>2, <2>1 DEF Generate
      <4>2. c + offset' + 1 - o[a] < Modulus
        BY <1>o, <1>s, <3>1, <4>1, Ranges
      <4> QED
        BY <3>2, <4>1, <4>2, SpanNext
    <3> QED
      BY <3>2, <3>3, <3>4 DEF ReverseInv, Inverted
  <2> QED
    BY <1>2, <2>1 DEF Generate, ReverseInv
<1>3. CASE Reset
  BY <1>3 DEF Reset, ReverseInv
<1>4. CASE UNCHANGED vars
  <2>1. ASSUME initialized PROVE ReverseInv'
    <3>1. PICK a, b, c \in Int, o \in [Int -> Int] :
            Ordered(a, b, c, o) /\ Mirrored(a, b, o) /\ c + offset + 1 - o[a] < BufferSize
      BY <2>1 DEF ReverseInv, Inverted
    <3>2. Ordered(a, b, c, o)'
      BY <1>4, <3>1, OrderedUnchanged DEF vars, buffers
    <3>3. Mirrored(a, b, o)'
      BY <1>4, <3>1 DEF vars, buffers, Mirrored
    <3>4. offset' = offset
      BY <1>4 DEF vars
    <3> QED
      BY <3>1, <3>2, <3>3, <3>4 DEF ReverseInv, Inverted
  <2> QED
    BY <1>4, <2>1 DEF vars, ReverseInv
<1> QED
  BY <1>1, <1>2, <1>3, <1>4 DEF Next

\* reverse() undoes get() for every packet of the window, for every number of
\* calls, however many packets are generated between two of them, as long as the
\* outputs from the oldest remembered packet on, with the generated ones, are
\* fewer than the slots of the buffer.  For sequence numbers (16 bits, 1024 slots,
\* 500 packets) this leaves room for the 20 packets RtpSlideShowHandler generates
\* for a stored keyframe, at most 26 times per window.  The packets that are
\* dropped are not the first after a loss: those break reverse()
\* (SequenceNumberTranslator::reverse, RtpSlideShowHandler::maybeSendStoredKeyframe).
THEOREM ReverseInvertsTheorem ==
    ASSUME WordBits = Bits, Modulus % BufferSize = 0, ~SkipAfterLoss,
           BufferSize <= 2 ^ (Bits - 4), MaxGenerate + 1 <= 2 ^ (Bits - 4)
    PROVE  Spec /\ []WindowFits => []ReverseInverts
<1>1. OneWidth /\ Sizes
  BY DEF OneWidth, Sizes, Ahead
<1>2. Init => ReverseInv
  BY DEF Init, ReverseInv
<1>3. TypeOK /\ ReverseInv /\ [Next]_vars /\ TypeOK' /\ WindowFits' => ReverseInv'
  BY <1>1, StepMirrored
<1>4. TypeOK /\ ReverseInv => ReverseInverts
  <2> SUFFICES ASSUME TypeOK, ReverseInv, initialized, NEW x \in Window, Translation(x).type = "Valid"
               PROVE  Reverse(Translation(x).output) = Translation(x)
    BY DEF ReverseInverts
  <2>1. PICK a, b, c \in Int, o \in [Int -> Int] : Ordered(a, b, c, o) /\ Mirrored(a, b, o)
    BY DEF ReverseInv, Inverted
  <2>2. Follows(a, b)
    BY <2>1 DEF Ordered
  <2>3. PICK u \in a .. b : x = u % Modulus /\ x % BufferSize = u % BufferSize
    BY <2>2, WindowPlace
  <2>4. PICK v \in Int : v = o[u]
    OBVIOUS
  <2>5. Translation(x) = in_out[u % BufferSize] /\ Translation(x).output = v % Modulus
    BY <2>1, <2>3, <2>4 DEF Ordered, Translation
  <2>6. (v % Modulus) % BufferSize = v % BufferSize
    BY Ranges, ModMod
  <2>7. out_in[v % BufferSize] = Translation(x)
    BY <2>1, <2>4, <2>5 DEF Mirrored
  <2>8. Translation(x).input = u % Modulus /\ first_input = a % Modulus /\ last_input = b % Modulus
        /\ a <= u /\ u <= b /\ b - a <= MaxDistance /\ u \in Int
    BY <2>2, <2>5 DEF Follows
  <2>9. ~LessThan(u % Modulus, a % Modulus)
    <3>1. u - a < Ahead /\ a - u <= Modulus - Ahead
      BY <2>8, Ranges
    <3> QED
      BY <2>8, <3>1, LessThanClose
  <2>10. ~LessThan(b % Modulus, u % Modulus)
    <3>1. b - u < Ahead /\ u - b <= Modulus - Ahead
      BY <2>8, Ranges
    <3> QED
      BY <2>8, <3>1, LessThanClose
  <2> QED
    BY <2>5, <2>6, <2>7, <2>8, <2>9, <2>10 DEF Reverse
<1> QED
  BY <1>2, <1>3, <1>4, InitType, StepType, PTL DEF Spec
=============================================================================
