-------------------------- MODULE DebeziumDecimal --------------------------
(***************************************************************************)
(* A NUMERIC column on its way to the worker.  Debezium sends it as the    *)
(* bytes of its unscaled value, which Kafka Connect's JSON converter turns *)
(* into base64 text; _normalize_decimal (debezium_data_normalizer.py) reads*)
(* the text back.  It tries the text as a decimal numeral first, and       *)
(* base64 has digits, "+" and letters too.  Texts of up to three bytes,    *)
(* one base64 group, are modelled; longer ones repeat the group.           *)
(***************************************************************************)
EXTENDS Integers, Sequences

CONSTANTS
    Unscaled,  \* unscaled values of up to three bytes
    Scales     \* scales of the columns

\* The numbers that n bytes hold, and v as a signed one.
Range(n) == <<256, 65536, 16777216>>[n]
Fits(v, n) == -Range(n) <= 2 * v /\ 2 * v < Range(n)

ASSUME UnscaledAssumption == \A v \in Unscaled : v \in Int /\ Fits(v, 3)
ASSUME ScalesAssumption == Scales \subseteq Nat

VARIABLES
    column,  \* [unscaled, scale]: the value in PostgreSQL
    field,   \* the text in the record, or NoText
    value    \* what the worker writes: a decimal, NaN, or NoValue

vars == <<column, field, value>>

NoText == <<>>
NoValue == [kind |-> "none"]
NaN == [kind |-> "special"]  \* NaN or Infinity
Decimal(coefficient, exponent) ==
    [kind |-> "number", coefficient |-> coefficient, exponent |-> exponent]

\* Base64 characters by their index (A-Z, a-z, 0-9, "+", "/"), and "=".
Plus == 62
Pad == 64
Digit == 52 .. 61
Characters == 0 .. 64
LowerCase(c) == IF c \in 0 .. 25 THEN c + 26 ELSE c
Marks == {LowerCase(4), 4}                           \* "e" and "E"
SpecialTexts == {<<Plus, 34, 39, 31>>,               \* "+inf"
                 <<Plus, 39, 26, 39>>,               \* "+nan"
                 <<44, 39, 26, 39>>}                 \* "snan"
QuietText == <<39, 26, 39>>                          \* "nan", digits may follow

-----------------------------------------------------------------------------
(* PostgreSQL, Debezium and Kafka Connect. *)

\* The shortest big-endian two's complement bytes of v.
ByteCount(v) == CHOOSE n \in 1 .. 3 : Fits(v, n) /\ \A m \in 1 .. (n - 1) : ~Fits(v, m)

\* What the four characters of a base64 group stand for.
Weights == <<262144, 4096, 64, 1>>

\* Their base64 text: n bytes, filled up with zeros to three, give n + 1 characters.
Base64(v) ==
    LET n == ByteCount(v)
        group == (v % Range(n)) * (Range(3) \div Range(n))
    IN  [i \in 1 .. 4 |-> IF i <= n + 1 THEN (group \div Weights[i]) % 64 ELSE Pad]

-----------------------------------------------------------------------------
(* The worker. *)

IsNumber(text, first, last) == first <= last /\ \A i \in first .. last : text[i] \in Digit

Number(text, first, last) ==
    LET place(i) == IF i \in first .. last
                      THEN (text[i] - 52) * <<1, 10, 100, 1000>>[last - i + 1] ELSE 0
    IN  place(1) + place(2) + place(3) + place(4)

First(text) == IF text[1] = Plus THEN 2 ELSE 1

\* Positions of the exponent's mark and of its first digit.
Exponents(text) ==
    {at \in [mark : 2 .. 3, digit : 3 .. 4] :
        /\ text[at.mark] \in Marks
        /\ at.digit = at.mark + 1 \/ (at.digit = at.mark + 2 /\ text[at.mark + 1] = Plus)
        /\ IsNumber(text, First(text), at.mark - 1)
        /\ IsNumber(text, at.digit, 4)}

IsSpecial(text) ==
    LET lower == [i \in 1 .. 4 |-> LowerCase(text[i])]
    IN  \/ lower \in SpecialTexts
        \/ text[4] \in Digit /\ \A i \in 1 .. 3 : lower[i] = QuietText[i]

\* Decimal(str(value)) raises no InvalidOperation.
IsNumeral(text) ==
    IsNumber(text, First(text), 4) \/ Exponents(text) # {} \/ IsSpecial(text)

NumeralValue(text) ==
    CASE IsNumber(text, First(text), 4) -> Decimal(Number(text, First(text), 4), 0)
      [] IsSpecial(text) -> NaN
      [] OTHER -> LET at == CHOOSE e \in Exponents(text) : TRUE
                  IN  Decimal(Number(text, First(text), at.mark - 1), Number(text, at.digit, 4))

\* How many bytes a text stands for, and these as an unsigned number.
Count(text) == IF text[3] = Pad THEN 1 ELSE IF text[4] = Pad THEN 2 ELSE 3
RawBytes(text) ==
    LET sextet(i) == IF text[i] = Pad THEN 0 ELSE text[i]
        group == sextet(1) * Weights[1] + sextet(2) * Weights[2]
                   + sextet(3) * Weights[3] + sextet(4) * Weights[4]
    IN  group \div (Range(3) \div Range(Count(text)))

\* Mutant: int.from_bytes without signed=True.
FromBytesUnsigned(text) == RawBytes(text)

\* _read_decimal_bytes and int.from_bytes(..., signed=True).
FromBytes(text) ==
    LET raw == RawBytes(text)
    IN  IF Fits(raw, Count(text)) THEN raw ELSE raw - Range(Count(text))

\* Mutant: scaleb(scale).
normalize_decimal_scaled_up(text, scale) ==
    IF IsNumeral(text) THEN NumeralValue(text) ELSE Decimal(FromBytes(text), scale)

normalize_decimal(text, scale) ==
    IF IsNumeral(text) THEN NumeralValue(text) ELSE Decimal(FromBytes(text), -scale)

-----------------------------------------------------------------------------
Columns == [unscaled : Unscaled, scale : Scales]

TypeOK ==
    /\ column \in Columns
    /\ field = NoText \/ field \in [1 .. 4 -> Characters]
    /\ \/ value \in {NoValue, NaN}
       \/ /\ value = Decimal(value.coefficient, value.exponent)
          /\ Fits(value.coefficient, 3)
          /\ value.exponent \in Int

Init ==
    /\ column \in Columns
    /\ field = NoText
    /\ value = NoValue

\* The row is changed in the source.
Update(new) ==
    /\ field # NoText
    /\ column' = new
    /\ field' = NoText
    /\ value' = NoValue

Capture ==
    /\ field = NoText
    /\ field' = Base64(column.unscaled)
    /\ UNCHANGED <<column, value>>

Normalize ==
    /\ field # NoText /\ value = NoValue
    /\ value' = normalize_decimal(field, column.scale)
    /\ UNCHANGED <<column, field>>

Next ==
    \/ \E new \in Columns : Update(new)
    \/ Capture
    \/ Normalize

Spec == Init /\ [][Next]_vars

-----------------------------------------------------------------------------
(* Properties. *)

Arrived == value = Decimal(column.unscaled, -column.scale)

\* The worker writes the number that is in the source: what
\* tests/test_base_debezium_adapter.py:85-108 expects of a base64 decimal.
DecimalsArrive == value # NoValue => Arrived

\* Decimals of one or two bytes always arrive, sign included: their text ends in "=",
\* which no numeral contains.
ShortDecimalsArrive ==
    value # NoValue /\ ByteCount(column.unscaled) < 3 => Arrived

\* A decimal that is not negative never turns into another number, though its text may
\* read as NaN: a text that starts with a digit or "+" has its sign bit set.
NonNegativeNeverMisread ==
    value # NoValue /\ column.unscaled >= 0 => Arrived \/ value = NaN
=============================================================================
