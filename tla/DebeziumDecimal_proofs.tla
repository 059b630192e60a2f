----------------------- MODULE DebeziumDecimal_proofs -----------------------
(***************************************************************************)
(* What becomes of a decimal on its way to the worker, for all values of up*)
(* to three bytes.                                                         *)
(***************************************************************************)
EXTENDS DebeziumDecimal, TLAPS

LEMMA RangeValues ==
    /\ Range(1) = 256
    /\ Range(2) = 65536
    /\ Range(3) = 16777216
BY SMT DEF Range

\* The smallest number of bytes that hold v.
LEMMA ByteCountValue ==
    ASSUME NEW v \in Int, Fits(v, 3)
    PROVE  /\ Fits(v, 1) => ByteCount(v) = 1
           /\ ~Fits(v, 1) /\ Fits(v, 2) => ByteCount(v) = 2
           /\ ~Fits(v, 1) /\ ~Fits(v, 2) => ByteCount(v) = 3
<1> DEFINE Smallest(n) == Fits(v, n) /\ \A m \in 1 .. (n - 1) : ~Fits(v, m)
<1>1. ByteCount(v) = CHOOSE n \in 1 .. 3 : Smallest(n)
  BY DEF ByteCount
<1>2. 1 .. 3 = {1, 2, 3} /\ 1 .. (1 - 1) = {} /\ 1 .. (2 - 1) = {1} /\ 1 .. (3 - 1) = {1, 2}
  BY SMT
<1>3. Fits(v, 1) => \A n \in {1, 2, 3} : Smallest(n) <=> n = 1
  BY <1>2, Zenon
<1>4. ~Fits(v, 1) /\ Fits(v, 2) => \A n \in {1, 2, 3} : Smallest(n) <=> n = 2
  BY <1>2, Zenon
<1>5. ~Fits(v, 1) /\ ~Fits(v, 2) => \A n \in {1, 2, 3} : Smallest(n) <=> n = 3
  BY <1>2, Zenon
<1> HIDE DEF Smallest
<1> QED
  BY <1>1, <1>2, <1>3, <1>4, <1>5, Zenon

\* The three bytes of the base64 group of v.
Group(v) == (v % Range(ByteCount(v))) * (Range(3) \div Range(ByteCount(v)))

LEMMA GroupOfOneByte ==
    ASSUME NEW v \in Int, Fits(v, 1)
    PROVE  /\ ByteCount(v) = 1
           /\ Group(v) = (v % 256) * 65536
           /\ v % 256 \in 0 .. 255
           /\ v % 256 = IF v >= 0 THEN v ELSE v + 256
           /\ -128 <= v /\ v < 128
<1>1. -128 <= v /\ v < 128
  BY RangeValues, SMT DEF Fits
<1>2. Fits(v, 3)
  BY <1>1, RangeValues, SMT DEF Fits
<1>3. ByteCount(v) = 1
  BY <1>2, ByteCountValue, Zenon
<1>4. Group(v) = (v % 256) * (16777216 \div 256)
  BY <1>3, RangeValues, SMT DEF Group
<1>5. 16777216 \div 256 = 65536
  BY SMT
<1>6. v % 256 = IF v >= 0 THEN v ELSE v + 256
  BY <1>1, SMT
<1> QED
  BY <1>1, <1>3, <1>4, <1>5, <1>6, SMT

LEMMA GroupOfTwoBytes ==
    ASSUME NEW v \in Int, ~Fits(v, 1), Fits(v, 2)
    PROVE  /\ ByteCount(v) = 2
           /\ Group(v) = (v % 65536) * 256
           /\ v % 65536 \in Nat /\ v % 65536 < 65536
           /\ v % 65536 = IF v >= 0 THEN v ELSE v + 65536
           /\ -32768 <= v /\ v < 32768
<1>1. -32768 <= v /\ v < 32768
  BY RangeValues, SMT DEF Fits
<1>2. Fits(v, 3)
  BY <1>1, RangeValues, SMT DEF Fits
<1>3. ByteCount(v) = 2
  BY <1>2, ByteCountValue, Zenon
<1>4. Group(v) = (v % 65536) * (16777216 \div 65536)
  BY <1>3, RangeValues, SMT DEF Group
<1>5. 16777216 \div 65536 = 256
  BY SMT
<1>6. v % 65536 = IF v >= 0 THEN v ELSE v + 65536
  BY <1>1, SMT
<1> QED
  BY <1>1, <1>3, <1>4, <1>5, <1>6, SMT

LEMMA GroupOfThreeBytes ==
    ASSUME NEW v \in Int, ~Fits(v, 1), ~Fits(v, 2), Fits(v, 3)
    PROVE  /\ ByteCount(v) = 3
           /\ Group(v) \in Nat /\ Group(v) < 16777216
           /\ Group(v) = IF v >= 0 THEN v ELSE v + 16777216
           /\ -8388608 <= v /\ v < 8388608
<1>1. -8388608 <= v /\ v < 8388608
  BY RangeValues, SMT DEF Fits
<1>2. ByteCount(v) = 3
  BY ByteCountValue, Zenon
<1>3. Group(v) = (v % 16777216) * (16777216 \div 16777216)
  BY <1>2, RangeValues, SMT DEF Group
<1>4. 16777216 \div 16777216 = 1
  BY SMT
<1>5. v % 16777216 = IF v >= 0 THEN v ELSE v + 16777216
  BY <1>1, SMT
<1>6. Group(v) = v % 16777216
  <2> DEFINE low == v % 16777216
  <2>1. low \in Int
    BY SMT
  <2> HIDE DEF low
  <2>2. low * 1 = low
    BY <2>1, SMT
  <2> QED
    BY <1>3, <1>4, <2>2, SMT DEF low
<1> QED
  BY <1>1, <1>2, <1>5, <1>6, SMT

\* The characters of a group.
LEMMA Base64Text ==
    ASSUME NEW v \in Int, NEW n \in 1 .. 3, ByteCount(v) = n, Group(v) \in Nat /\ Group(v) < 16777216
    PROVE  /\ Base64(v) \in [1 .. 4 -> Characters]
           /\ Base64(v)[1] = Group(v) \div 262144
           /\ Base64(v)[2] = (Group(v) \div 4096) % 64
           /\ Base64(v)[3] = IF n = 1 THEN Pad ELSE (Group(v) \div 64) % 64
           /\ Base64(v)[4] = IF n < 3 THEN Pad ELSE Group(v) % 64
           /\ Base64(v)[1] \in 0 .. 63
           /\ Base64(v)[2] \in 0 .. 63
           /\ n # 1 => Base64(v)[3] \in 0 .. 63
           /\ n = 3 => Base64(v)[4] \in 0 .. 63
<1> DEFINE g == Group(v)
           Sextet(i) == (g \div Weights[i]) % 64
<1>1. Base64(v) = [i \in 1 .. 4 |-> IF i <= n + 1 THEN Sextet(i) ELSE Pad]
  BY SMT DEF Base64, Group
<1>2. g \in Nat /\ g < 16777216
  BY SMT
<1> HIDE DEF g
<1>3. /\ Sextet(1) = g \div 262144
      /\ Sextet(2) = (g \div 4096) % 64
      /\ Sextet(3) = (g \div 64) % 64
      /\ Sextet(4) = g % 64
  <2>1. /\ Weights[1] = 262144
        /\ Weights[2] = 4096
        /\ Weights[3] = 64
        /\ Weights[4] = 1
    BY SMT DEF Weights
  <2>2. (g \div 262144) % 64 = g \div 262144 /\ g \div 1 = g
    BY <1>2, SMT
  <2> QED
    BY <2>1, <2>2, SMT
<1>4. \A i \in 1 .. 4 : Sextet(i) \in 0 .. 63
  <2>1. /\ g \div 262144 \in 0 .. 63
        /\ (g \div 4096) % 64 \in 0 .. 63
        /\ (g \div 64) % 64 \in 0 .. 63
        /\ g % 64 \in 0 .. 63
    BY <1>2, SMT
  <2> HIDE DEF Sextet
  <2> QED
    BY <1>3, <2>1, SMT
<1> HIDE DEF Sextet
<1>5. /\ Base64(v)[1] = Sextet(1)
      /\ Base64(v)[2] = Sextet(2)
      /\ Base64(v)[3] = IF n = 1 THEN Pad ELSE Sextet(3)
      /\ Base64(v)[4] = IF n < 3 THEN Pad ELSE Sextet(4)
      /\ Base64(v) \in [1 .. 4 -> Characters]
  BY <1>1, <1>4, SMT DEF Pad, Characters
<1> QED
  BY <1>3, <1>4, <1>5, SMT DEF g

-----------------------------------------------------------------------------
(* int.from_bytes of the bytes of a base64 text gives back the value. *)

\* What RawBytes puts together.
LEMMA RawBytesOf ==
    ASSUME NEW text \in [1 .. 4 -> Characters],
           NEW a, NEW b, NEW c, NEW d,
           a = IF text[1] = Pad THEN 0 ELSE text[1],
           b = IF text[2] = Pad THEN 0 ELSE text[2],
           c = IF text[3] = Pad THEN 0 ELSE text[3],
           d = IF text[4] = Pad THEN 0 ELSE text[4]
    PROVE  RawBytes(text) =
             (a * 262144 + b * 4096 + c * 64 + d) \div (Range(3) \div Range(Count(text)))
<1>1. /\ Weights[1] = 262144
      /\ Weights[2] = 4096
      /\ Weights[3] = 64
      /\ Weights[4] = 1
  BY SMT DEF Weights
<1>2. d \in Int
  BY SMT DEF Characters
<1>3. d * 1 = d
  BY <1>2, SMT
<1>4. RawBytes(text) =
        (a * Weights[1] + b * Weights[2] + c * Weights[3] + d * Weights[4])
          \div (Range(3) \div Range(Count(text)))
  BY Zenon DEF RawBytes
<1> QED
  BY <1>1, <1>3, <1>4, SMT

\* The four sextets of a group give it back.
LEMMA Sextets ==
    ASSUME NEW g \in Nat, g < 16777216
    PROVE  (g \div 262144) * 262144 + ((g \div 4096) % 64) * 4096
             + ((g \div 64) % 64) * 64 + (g % 64) = g
BY SMTT(30)

LEMMA OneByteRoundTrip ==
    ASSUME NEW v \in Int, Fits(v, 1)
    PROVE  FromBytes(Base64(v)) = v
<1> DEFINE low == v % 256
           text == Base64(v)
<1>1. /\ ByteCount(v) = 1
      /\ Group(v) = low * 65536
      /\ low \in 0 .. 255
      /\ low = IF v >= 0 THEN v ELSE v + 256
      /\ -128 <= v /\ v < 128
  BY GroupOfOneByte, SMT
<1> HIDE DEF low
<1>2. Group(v) \in Nat /\ Group(v) < 16777216
  BY <1>1, SMT
<1>3. /\ text \in [1 .. 4 -> Characters]
      /\ text[1] = (low * 65536) \div 262144
      /\ text[2] = ((low * 65536) \div 4096) % 64
      /\ text[3] = Pad
      /\ text[4] = Pad
      /\ text[1] \in 0 .. 63
      /\ text[2] \in 0 .. 63
  BY <1>1, <1>2, Base64Text, SMT
<1> HIDE DEF text
<1>4. Count(text) = 1
  BY <1>3, SMT DEF Count
<1>5. RawBytes(text) =
        (text[1] * 262144 + text[2] * 4096 + 0 * 64 + 0) \div (Range(3) \div Range(1))
  BY <1>3, <1>4, RawBytesOf, SMT DEF Pad
<1>6. Range(3) \div Range(1) = 65536
  BY RangeValues, SMT
<1>7. text[1] * 262144 + text[2] * 4096 = low * 65536
  BY <1>1, <1>3, SMT
<1>8. RawBytes(text) = low
  BY <1>1, <1>3, <1>5, <1>6, <1>7, SMT
<1>9. Fits(low, 1) <=> v >= 0
  BY <1>1, RangeValues, SMT DEF Fits
<1> QED
  BY <1>1, <1>4, <1>8, <1>9, RangeValues, SMT DEF FromBytes, text

LEMMA TwoByteRoundTrip ==
    ASSUME NEW v \in Int, ~Fits(v, 1), Fits(v, 2)
    PROVE  FromBytes(Base64(v)) = v
<1> DEFINE low == v % 65536
           text == Base64(v)
<1>1. /\ ByteCount(v) = 2
      /\ Group(v) = low * 256
      /\ low \in Nat /\ low < 65536
      /\ low = IF v >= 0 THEN v ELSE v + 65536
      /\ -32768 <= v /\ v < 32768
  BY GroupOfTwoBytes, SMT
<1> HIDE DEF low
<1>2. Group(v) \in Nat /\ Group(v) < 16777216
  BY <1>1, SMT
<1>3. /\ text \in [1 .. 4 -> Characters]
      /\ text[1] = (low * 256) \div 262144
      /\ text[2] = ((low * 256) \div 4096) % 64
      /\ text[3] = ((low * 256) \div 64) % 64
      /\ text[4] = Pad
      /\ text[1] \in 0 .. 63
      /\ text[2] \in 0 .. 63
      /\ text[3] \in 0 .. 63
  BY <1>1, <1>2, Base64Text, SMT
<1> HIDE DEF text
<1>4. Count(text) = 2
  BY <1>3, SMT DEF Count, Pad
<1>5. RawBytes(text) =
        (text[1] * 262144 + text[2] * 4096 + text[3] * 64 + 0) \div (Range(3) \div Range(2))
  BY <1>3, <1>4, RawBytesOf, SMT DEF Pad
<1>6. Range(3) \div Range(2) = 256
  BY RangeValues, SMT
<1>7. text[1] * 262144 + text[2] * 4096 + text[3] * 64 = low * 256
  <2> DEFINE g == low * 256
  <2>1. g \in Nat /\ g < 16777216 /\ g % 64 = 0
    BY <1>1, SMT
  <2>2. /\ text[1] = g \div 262144
        /\ text[2] = (g \div 4096) % 64
        /\ text[3] = (g \div 64) % 64
    BY <1>3, SMT
  <2> HIDE DEF g
  <2>3. text[1] * 262144 + text[2] * 4096 + text[3] * 64 = g
    BY <2>1, <2>2, <1>3, Sextets, SMT
  <2> QED
    BY <2>3, SMT DEF g
<1>8. RawBytes(text) = low
  BY <1>1, <1>3, <1>5, <1>6, <1>7, SMT
<1>9. Fits(low, 2) <=> v >= 0
  BY <1>1, RangeValues, SMT DEF Fits
<1> QED
  BY <1>1, <1>4, <1>8, <1>9, RangeValues, SMT DEF FromBytes, text

LEMMA ThreeByteRoundTrip ==
    ASSUME NEW v \in Int, ~Fits(v, 1), ~Fits(v, 2), Fits(v, 3)
    PROVE  FromBytes(Base64(v)) = v
<1> DEFINE g == Group(v)
           text == Base64(v)
<1>1. /\ ByteCount(v) = 3
      /\ g \in Nat /\ g < 16777216
      /\ g = IF v >= 0 THEN v ELSE v + 16777216
      /\ -8388608 <= v /\ v < 8388608
  BY GroupOfThreeBytes, SMT
<1>2. /\ text \in [1 .. 4 -> Characters]
      /\ text[1] = g \div 262144
      /\ text[2] = (g \div 4096) % 64
      /\ text[3] = (g \div 64) % 64
      /\ text[4] = g % 64
      /\ text[1] \in 0 .. 63
      /\ text[2] \in 0 .. 63
      /\ text[3] \in 0 .. 63
      /\ text[4] \in 0 .. 63
  BY <1>1, Base64Text, SMT
<1> HIDE DEF g, text
<1>3. Count(text) = 3
  BY <1>2, SMT DEF Count, Pad
<1>4. RawBytes(text) =
        (text[1] * 262144 + text[2] * 4096 + text[3] * 64 + text[4])
          \div (Range(3) \div Range(3))
  BY <1>2, <1>3, RawBytesOf, SMT DEF Pad
<1>5. Range(3) \div Range(3) = 1
  BY RangeValues, SMT
<1>6. text[1] * 262144 + text[2] * 4096 + text[3] * 64 + text[4] = g
  BY <1>1, <1>2, Sextets, SMT
<1>7. RawBytes(text) = g
  BY <1>1, <1>4, <1>5, <1>6, SMT
<1>8. Fits(g, 3) <=> v >= 0
  BY <1>1, RangeValues, SMT DEF Fits
<1> QED
  BY <1>1, <1>3, <1>7, <1>8, RangeValues, SMT DEF FromBytes, text

LEMMA RoundTrip ==
    ASSUME NEW v \in Int, Fits(v, 3)
    PROVE  FromBytes(Base64(v)) = v
BY OneByteRoundTrip, TwoByteRoundTrip, ThreeByteRoundTrip, Zenon

-----------------------------------------------------------------------------
(* Which base64 texts are numerals. *)

\* Every base64 text is four characters, and ends in "=" if it stands for fewer than three bytes.
LEMMA TextShape ==
    ASSUME NEW v \in Int, Fits(v, 3)
    PROVE  /\ Base64(v) \in [1 .. 4 -> Characters]
           /\ ByteCount(v) < 3 => Base64(v)[4] = Pad
<1>1. CASE Fits(v, 1)
  <2>1. ByteCount(v) = 1 /\ Group(v) \in Nat /\ Group(v) < 16777216
    BY <1>1, GroupOfOneByte, SMT
  <2> QED
    BY <2>1, Base64Text, SMT
<1>2. CASE ~Fits(v, 1) /\ Fits(v, 2)
  <2>1. ByteCount(v) = 2 /\ Group(v) \in Nat /\ Group(v) < 16777216
    BY <1>2, GroupOfTwoBytes, SMT
  <2> QED
    BY <2>1, Base64Text, SMT
<1>3. CASE ~Fits(v, 1) /\ ~Fits(v, 2)
  <2>1. ByteCount(v) = 3 /\ Group(v) \in Nat /\ Group(v) < 16777216
    BY <1>3, GroupOfThreeBytes, SMT
  <2> QED
    BY <2>1, Base64Text, SMT
<1> QED
  BY <1>1, <1>2, <1>3, Zenon

\* No numeral ends in "=".
LEMMA PaddedIsNoNumeral ==
    ASSUME NEW text \in [1 .. 4 -> Characters], text[4] = Pad
    PROVE  ~IsNumeral(text)
<1>1. \A first \in 1 .. 4 : ~IsNumber(text, first, 4)
  BY SMT DEF IsNumber, Digit, Pad
<1>2. ~IsNumber(text, First(text), 4)
  BY <1>1, SMT DEF First
<1>3. Exponents(text) = {}
  <2>1. \A at \in [mark : 2 .. 3, digit : 3 .. 4] : ~IsNumber(text, at.digit, 4)
    BY <1>1, SMT
  <2> QED
    BY <2>1, Zenon DEF Exponents
<1>4. ~IsSpecial(text)
  <2> DEFINE lower == [i \in 1 .. 4 |-> LowerCase(text[i])]
  <2>1. lower[4] = 64
    BY SMT DEF LowerCase, Pad
  <2>2. \A special \in SpecialTexts : special[4] # 64
    BY SMT DEF SpecialTexts, Plus
  <2>3. text[4] \notin Digit
    BY SMT DEF Pad, Digit
  <2> QED
    BY <2>1, <2>2, <2>3, Zenon DEF IsSpecial
<1> QED
  BY <1>2, <1>3, <1>4, Zenon DEF IsNumeral

\* The first character of a value of three bytes that is not negative is a letter, because
\* its sign bit is not set.
LEMMA NonNegativeText ==
    ASSUME NEW v \in Int, Fits(v, 3), ByteCount(v) = 3, v >= 0
    PROVE  Base64(v)[1] \in 0 .. 31
<1>1. ~Fits(v, 1) /\ ~Fits(v, 2)
  BY ByteCountValue, SMT
<1>2. Group(v) \in Nat /\ Group(v) < 8388608
  BY <1>1, GroupOfThreeBytes, SMT
<1>3. Base64(v)[1] = Group(v) \div 262144
  BY <1>2, Base64Text, SMT
<1> QED
  BY <1>2, <1>3, SMT

\* The only numerals among the texts that start with such a letter are NaN and infinity.
LEMMA LetterIsNoNumber ==
    ASSUME NEW text \in [1 .. 4 -> Characters], text[1] \in 0 .. 31
    PROVE  /\ ~IsNumber(text, First(text), 4)
           /\ Exponents(text) = {}
<1>1. First(text) = 1 /\ text[1] \notin Digit
  BY SMT DEF First, Plus, Digit
<1>2. \A last \in 1 .. 4 : ~IsNumber(text, 1, last)
  BY <1>1, SMT DEF IsNumber
<1>3. \A at \in [mark : 2 .. 3, digit : 3 .. 4] : at.mark - 1 \in 1 .. 4
  BY SMT
<1>4. Exponents(text) = {}
  BY <1>1, <1>2, <1>3, Zenon DEF Exponents
<1> QED
  BY <1>1, <1>2, <1>4, SMT

-----------------------------------------------------------------------------
(* The specification. *)

\* A field is the text of the column it was captured from, and a value is what the
\* normalizer makes of that text.
Inv ==
    /\ column \in Columns
    /\ field = NoText => value = NoValue
    /\ field = NoText \/ field = Base64(column.unscaled)
    /\ value = NoValue \/ value = normalize_decimal(Base64(column.unscaled), column.scale)

LEMMA Invariant == Spec => []Inv
<1>1. Init => Inv
  BY Zenon DEF Init, Inv
<1>2. Inv /\ [Next]_vars => Inv'
  <2> SUFFICES ASSUME Inv, [Next]_vars
               PROVE  Inv'
    OBVIOUS
  <2>1. ASSUME NEW new \in Columns, Update(new)
        PROVE  Inv'
    BY <2>1, Zenon DEF Update, Inv
  <2>2. CASE Capture
    BY <2>2, Zenon DEF Capture, Inv
  <2>3. CASE Normalize
    BY <2>3, Zenon DEF Normalize, Inv
  <2>4. CASE UNCHANGED vars
    BY <2>4, Zenon DEF vars, Inv
  <2> QED
    BY <2>1, <2>2, <2>3, <2>4, Zenon DEF Next
<1> QED
  BY <1>1, <1>2, PTL DEF Spec

\* What the columns hold.
LEMMA ColumnValue ==
    ASSUME column \in Columns
    PROVE  /\ column.unscaled \in Int
           /\ Fits(column.unscaled, 3)
           /\ column.scale \in Nat
BY UnscaledAssumption, ScalesAssumption, Zenon DEF Columns

\* A text that is no numeral arrives.
LEMMA NoNumeralArrives ==
    ASSUME Inv, value # NoValue, ~IsNumeral(Base64(column.unscaled))
    PROVE  Arrived
<1>1. FromBytes(Base64(column.unscaled)) = column.unscaled
  BY ColumnValue, RoundTrip, Zenon DEF Inv
<1> QED
  BY <1>1, Zenon DEF Inv, normalize_decimal, Arrived

\* Decimals of one or two bytes arrive with their number, sign and scale, whatever their
\* digits: _normalize_decimal never takes their text for a numeral.
THEOREM ShortDecimals == Spec => []ShortDecimalsArrive
<1>1. Inv => ShortDecimalsArrive
  <2> SUFFICES ASSUME Inv, value # NoValue, ByteCount(column.unscaled) < 3
               PROVE  Arrived
    BY DEF ShortDecimalsArrive
  <2>1. ~IsNumeral(Base64(column.unscaled))
    BY ColumnValue, TextShape, PaddedIsNoNumeral, Zenon DEF Inv
  <2> QED
    BY <2>1, NoNumeralArrives, Zenon
<1> QED
  BY <1>1, Invariant, PTL

\* A decimal that is not negative arrives, or is read as NaN or infinity, but never as
\* another number.
THEOREM NonNegativeDecimals == Spec => []NonNegativeNeverMisread
<1>1. Inv => NonNegativeNeverMisread
  <2> SUFFICES ASSUME Inv, value # NoValue, column.unscaled >= 0
               PROVE  Arrived \/ value = NaN
    BY DEF NonNegativeNeverMisread
  <2> DEFINE text == Base64(column.unscaled)
  <2>1. CASE ~IsNumeral(text)
    BY <2>1, NoNumeralArrives, Zenon
  <2>2. CASE IsNumeral(text)
    <3>1. text \in [1 .. 4 -> Characters]
      BY ColumnValue, TextShape, Zenon DEF Inv
    <3>2. ByteCount(column.unscaled) = 3
      <4>1. ByteCount(column.unscaled) \in {1, 2, 3}
        BY ColumnValue, ByteCountValue, Zenon DEF Inv
      <4>2. ~(ByteCount(column.unscaled) < 3)
        BY <2>2, ColumnValue, TextShape, PaddedIsNoNumeral, Zenon DEF Inv
      <4> QED
        BY <4>1, <4>2, SMT
    <3>3. text[1] \in 0 .. 31
      BY <3>2, ColumnValue, NonNegativeText, Zenon DEF Inv
    <3>4. ~IsNumber(text, First(text), 4) /\ Exponents(text) = {}
      BY <3>1, <3>3, LetterIsNoNumber, Zenon
    <3>5. IsSpecial(text)
      BY <2>2, <3>4, Zenon DEF IsNumeral
    <3>6. NumeralValue(text) = NaN
      BY <3>4, <3>5, SMT DEF NumeralValue
    <3>7. value = NumeralValue(text)
      BY <2>2, Zenon DEF Inv, normalize_decimal
    <3> QED
      BY <3>6, <3>7, Zenon
  <2> QED
    BY <2>1, <2>2, Zenon
<1> QED
  BY <1>1, Invariant, PTL

-----------------------------------------------------------------------------
(* Types. *)

\* The digits of a numeral make a number of at most three bytes.
LEMMA NumberFits ==
    ASSUME NEW text \in [1 .. 4 -> Characters], NEW first \in 1 .. 4, NEW last \in 1 .. 4,
           IsNumber(text, first, last)
    PROVE  Number(text, first, last) \in Int /\ Fits(Number(text, first, last), 3)
<1> DEFINE weight(i) == <<1, 10, 100, 1000>>[last - i + 1]
           place(i) == IF i \in first .. last THEN (text[i] - 52) * weight(i) ELSE 0
<1>1. \A i \in 1 .. 4 : place(i) \in Nat /\ place(i) <= 9000
  <2> SUFFICES ASSUME NEW i \in 1 .. 4, i \in first .. last
               PROVE  (text[i] - 52) * weight(i) \in Nat /\ (text[i] - 52) * weight(i) <= 9000
    BY SMT
  <2>1. text[i] - 52 \in Nat /\ text[i] - 52 <= 9
    BY SMT DEF IsNumber, Digit
  <2>2. last - i + 1 \in 1 .. 4
    BY SMT
  <2>3. \A n \in 1 .. 4 : <<1, 10, 100, 1000>>[n] \in {1, 10, 100, 1000}
    BY SMT
  <2>4. weight(i) \in {1, 10, 100, 1000}
    BY <2>2, <2>3, SMT
  <2> HIDE DEF weight
  <2> QED
    BY <2>1, <2>4, SMT
<1>2. Number(text, first, last) = place(1) + place(2) + place(3) + place(4)
  BY Zenon DEF Number
<1> HIDE DEF place
<1>3. Number(text, first, last) \in Nat /\ Number(text, first, last) <= 36000
  BY <1>1, <1>2, SMT
<1> QED
  BY <1>3, RangeValues, SMT DEF Fits

\* A value's type.
Written(v) ==
    \/ v \in {NoValue, NaN}
    \/ /\ v = Decimal(v.coefficient, v.exponent)
       /\ Fits(v.coefficient, 3)
       /\ v.exponent \in Int

LEMMA DecimalWritten ==
    ASSUME NEW c \in Int, Fits(c, 3), NEW e \in Int
    PROVE  Written(Decimal(c, e))
BY Zenon DEF Written, Decimal

\* A number and a special text differ in their second character.
LEMMA SpecialIsNoNumber ==
    ASSUME NEW text \in [1 .. 4 -> Characters], IsSpecial(text)
    PROVE  ~IsNumber(text, First(text), 4)
<1> DEFINE lower == [i \in 1 .. 4 |-> LowerCase(text[i])]
<1>1. lower[2] \notin Digit
  <2>1. \A special \in SpecialTexts : special[2] \in {34, 39}
    BY SMT DEF SpecialTexts
  <2>2. QuietText[2] = 26
    BY SMT DEF QuietText
  <2>3. lower \in SpecialTexts \/ lower[2] = QuietText[2]
    BY SMT DEF IsSpecial
  <2> HIDE DEF lower
  <2>4. lower[2] \in {34, 39, 26}
    BY <2>1, <2>2, <2>3, Zenon
  <2> QED
    BY <2>4, SMT DEF Digit
<1>2. text[2] \in Digit => lower[2] = text[2]
  BY SMT DEF LowerCase, Digit
<1>3. IsNumber(text, First(text), 4) => text[2] \in Digit
  BY SMT DEF IsNumber, First
<1> QED
  BY <1>1, <1>2, <1>3, Zenon

LEMMA NumeralWritten ==
    ASSUME NEW text \in [1 .. 4 -> Characters], IsNumeral(text)
    PROVE  Written(NumeralValue(text))
<1>1. First(text) \in 1 .. 4
  BY SMT DEF First
<1>2. CASE IsNumber(text, First(text), 4)
  <2>1. NumeralValue(text) = Decimal(Number(text, First(text), 4), 0)
    BY <1>2, SpecialIsNoNumber, Zenon DEF NumeralValue
  <2>2. /\ Number(text, First(text), 4) \in Int
        /\ Fits(Number(text, First(text), 4), 3)
    BY <1>1, <1>2, NumberFits, SMT
  <2> QED
    BY <2>1, <2>2, DecimalWritten, SMT
<1>3. CASE IsSpecial(text) /\ ~IsNumber(text, First(text), 4)
  <2>1. NumeralValue(text) = NaN
    BY <1>3, Zenon DEF NumeralValue
  <2> QED
    BY <2>1, Zenon DEF Written
<1>4. CASE ~IsSpecial(text) /\ ~IsNumber(text, First(text), 4)
  <2> DEFINE at == CHOOSE e \in Exponents(text) : TRUE
  <2>1. at \in Exponents(text)
    BY <1>4, Zenon DEF IsNumeral
  <2>2. /\ at \in [mark : 2 .. 3, digit : 3 .. 4]
        /\ IsNumber(text, First(text), at.mark - 1)
        /\ IsNumber(text, at.digit, 4)
    BY <2>1, Zenon DEF Exponents
  <2>3. NumeralValue(text) =
          Decimal(Number(text, First(text), at.mark - 1), Number(text, at.digit, 4))
    BY <1>4, Zenon DEF NumeralValue
  <2> HIDE DEF at
  <2>4. at.mark - 1 \in 1 .. 4 /\ at.digit \in 1 .. 4 /\ 4 \in 1 .. 4
    BY <2>2, SMT
  <2>5. /\ Number(text, First(text), at.mark - 1) \in Int
        /\ Fits(Number(text, First(text), at.mark - 1), 3)
        /\ Number(text, at.digit, 4) \in Int
    BY <1>1, <2>2, <2>4, NumberFits, Zenon
  <2> QED
    BY <2>3, <2>5, DecimalWritten, Zenon
<1> QED
  BY <1>2, <1>3, <1>4, Zenon

\* The column, the text and the value written stay of their types: a value is no wider
\* than three bytes, whatever its text was taken for.
THEOREM DecimalTypeOK == Spec => []TypeOK
<1>1. Inv => TypeOK
  <2> SUFFICES ASSUME Inv
               PROVE  TypeOK
    OBVIOUS
  <2>1. column \in Columns
    BY Zenon DEF Inv
  <2>2. field = NoText \/ field \in [1 .. 4 -> Characters]
    BY ColumnValue, TextShape, Zenon DEF Inv
  <2>3. Written(value)
    <3>1. CASE value = NoValue
      BY <3>1, Zenon DEF Written
    <3>2. CASE value # NoValue /\ IsNumeral(Base64(column.unscaled))
      BY <3>2, ColumnValue, TextShape, NumeralWritten, Zenon DEF Inv, normalize_decimal
    <3>3. CASE value # NoValue /\ ~IsNumeral(Base64(column.unscaled))
      <4>1. value = Decimal(column.unscaled, -column.scale)
        BY <3>3, NoNumeralArrives, Zenon DEF Arrived
      <4>2. -column.scale \in Int
        BY ColumnValue, SMT DEF Inv
      <4> QED
        BY <4>1, <4>2, ColumnValue, DecimalWritten, Zenon DEF Inv
    <3> QED
      BY <3>1, <3>2, <3>3, Zenon
  <2> QED
    BY <2>1, <2>2, <2>3, Zenon DEF TypeOK, Written
<1> QED
  BY <1>1, Invariant, PTL
=============================================================================
