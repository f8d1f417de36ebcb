--------------------------- MODULE KiLibraryModel ---------------------------
(***************************************************************************)
(* KiLibrary for TLC: two strings, a smallest capacity of 2 (so that short *)
(* texts make buffers grow, twice) and 8-bit integers; int_to_string asks  *)
(* for 8/2 + 1 characters as it asks for 64/2 + 1 in the code, which both  *)
(* round up to one character per bit.                                      *)
(***************************************************************************)
EXTENDS KiLibrary

MCLiterals ==
    {<<>>, <<97>>, <<97, 98>>, <<98, 97, 98>>, <<Percent, 97, Percent>>, <<Slash, Percent>>}

\* "12", "-128", " +7", "0x1f", "17o", "1fh", "0X1", "-", " "
MCNumerals ==
    {<<49, 50>>, <<Minus, 49, 50, 56>>, <<Space, Plus, 55>>, <<Digit0, LowerX, 49, 102>>,
     <<49, 55, LowerO>>, <<49, 102, LowerH>>, <<49, 49, LowerH>>, <<Digit0, 88, 49>>, <<Minus>>, <<Space>>}

MCNumbers == {-128, -127, -10, 0, 7, 127}
MCHundredths == {-1250, -50, 0, 5, 199}
MCDecimals == {0, 2, 7}
MCCapacities == {0, 3}
MCBases == {2, 10}
\* What the next call depends on.
MCView == <<str, stray, calls>>

MCLines == {<<>>, <<Newline>>, <<97, Newline>>, <<97, 98>>}
=============================================================================
