-------------------------- MODULE MCDebeziumDecimal --------------------------
(* Instances of DebeziumDecimal for TLC. *)
EXTENDS DebeziumDecimal

\* All values of one byte and their neighbours, the limits of two and three bytes, and
\* neighbourhoods of values whose text is "1234", "1e+9", "+Inf" and "NaN1".
UnscaledValues ==
    (-260 .. 260)
        \cup {-32769, -32768, 32767, 32768, -8388608, 8388607}
        \cup (-2658834 .. -2658814)
        \cup (-2756680 .. -2756670)
        \cup (-488998 .. -488988)
        \cup (3515248 .. 3515258)

\* A whole number and a NUMERIC(p, 2).
DecimalScales == {0, 2}
=============================================================================
