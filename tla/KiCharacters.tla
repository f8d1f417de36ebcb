---------------------------- MODULE KiCharacters ----------------------------
(***************************************************************************)
(* The characters the string functions of the Ki library tell apart, by    *)
(* their codes, and its widest integer.                                    *)
(***************************************************************************)
EXTENDS Integers, Sequences, SequencesExt, FiniteSets

CONSTANT
    Width       \* bits of the library's widest integer, 64 in the code

ASSUME WidthAssumption == Width \in Nat /\ Width > 1

Absent == <<-1>>        \* the text of a variable that has no string

\* What a call returns: nothing, a number, or the characters it printed.
Nothing == <<>>
Truth(b) == IF b THEN <<1>> ELSE <<0>>

Nul == 0
Newline == 10
Space == 32
Percent == 37
Plus == 43
Minus == 45
Dot == 46
Slash == 47
Digit0 == 48
LowerA == 97
LowerH == 104
LowerO == 111
LowerX == 120

Digits == Digit0 .. Digit0 + 9
Uppers == 65 .. 90
Lowers == LowerA .. 122
Lower(c) == IF c \in Uppers THEN c + 32 ELSE c
White == {Space, Newline, 9, 13}

Power(b, n) == LET power[k \in Nat] == IF k = 0 THEN 1 ELSE b * power[k - 1] IN power[n]
Half == Power(2, Width - 1)
Integers == -Half .. Half - 1
Wrap(n) == ((n + Half) % (2 * Half)) - Half
=============================================================================
