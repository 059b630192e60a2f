------------------------------- MODULE Texts -------------------------------
(***************************************************************************)
(* Texts are TLA+ strings; what Python's string operations make of one is  *)
(* given by constant operators.  Tuples and lists of the code are          *)
(* sequences.  Strip is JavaScript's trim as well: the two differ only on   *)
(* U+FEFF, U+001C to U+001F and U+0085, and no text begins or ends with one *)
(* of these.                                                               *)
(***************************************************************************)
EXTENDS Naturals, SequencesExt

CONSTANTS
    Strip(_),      \* text -> text: str.strip()
    Parts(_),      \* text -> sequence: the parts between its dots
    CommaParts(_)  \* text -> sequence: the parts between its commas

None == "none"  \* Python's None

Comma(text) == Len(CommaParts(text)) > 1
NonEmpty(text) == text # ""
NotBlank(text) == Strip(text) # ""

IsList(value) == value \in Seq(ToSet(value))

Map(seq, Op(_)) == [i \in DOMAIN seq |-> Op(seq[i])]
ForAll(seq, Test(_)) == \A i \in DOMAIN seq : Test(seq[i])

\* The elements of a sequence that are in a set, in their order: SelectSeq, with a body
\* that the theorems can use.
Keep(seq, set) ==
    LET kept[n \in 0 .. Len(seq)] ==
            IF n = 0 THEN <<>>
            ELSE IF seq[n] \in set THEN Append(kept[n - 1], seq[n])
            ELSE kept[n - 1]
    IN  kept[Len(seq)]

Distinct(seq) == \A i, j \in DOMAIN seq : seq[i] = seq[j] => i = j
=============================================================================
