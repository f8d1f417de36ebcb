----------------------------- MODULE KiLibrary -----------------------------
(***************************************************************************)
(* A program that calls the string functions of the Ki library, one after  *)
(* the other, with the arguments its caller may choose, and what becomes   *)
(* of its strings: seen as buffers (KiStrings, KiNumbers) they must be     *)
(* the texts of KiText.                                                    *)
(***************************************************************************)
EXTENDS KiNumbers

CONSTANTS
    Names,      \* the program's variables for strings
    Literals,   \* the texts of its string constants
    Numerals,   \* the texts it reads numbers from
    Numbers,    \* the integers it converts
    Hundredths, \* the floating-point numbers it converts, times 100
    Decimals,   \* the digits it asks for after the point
    Lines,      \* what a user types, up to the size of the buffer
    Capacities, \* the capacities it asks for
    Bases,      \* the bases it writes numbers in
    MaxIndex,   \* the last position it names in a string
    MaxCalls    \* how many calls it makes

\* The strings the functions make for themselves have other names; the widest
\* integer fits into the buffer of int_to_string but for its sign and terminator.
ASSUME LibraryAssumption ==
    /\ {Temp, Page} \intersect Names = {}
    /\ Literals \subseteq Seq(Int) /\ Numerals \subseteq Seq(Int)
    /\ Lines \subseteq Seq(Int) /\ \A s \in Lines : Len(s) <= STRING_CAPACITY
    /\ Numbers \subseteq Integers
    /\ Hundredths \subseteq Int /\ \A h \in Hundredths : Toward0(h, 100) \in Integers
    /\ Decimals \subseteq Nat /\ Capacities \subseteq Nat /\ Bases \subseteq Nat \ {0, 1}
    /\ MaxIndex \in Nat
    /\ Width <= Doubled(STRING_CAPACITY, INT_BUFFER_CAPACITY)

VARIABLES
    str,        \* its strings
    ret,        \* what the last call returned
    stray,      \* the last call touched a byte outside the buffers
    call,       \* the last call
    calls       \* how many calls were made

vars == <<str, ret, stray, call, calls>>

World == [str |-> [n \in Names \union {Temp, Page} |-> IF n \in Names THEN str[n] ELSE NoString],
          ret |-> Nothing, stray |-> FALSE]

\* A buffer is the text of as many characters as its string is long, a
\* terminator among them included.
Text == INSTANCE KiText WITH
            text <- [n \in Names |-> IF Held(str[n]) THEN Contents(str[n]) ELSE Absent]

TextOf(n) == Contents(str[n])

-----------------------------------------------------------------------------
Strings == {n \in Names : Held(str[n])}
Chars == UNION {ToSet(s) : s \in Literals}
Indexes == 0 .. MaxIndex
Pairs(op) == [op : {op}, to : Strings, from : Strings]
Buffers(op) == [op : {op}, to : Strings, buffer : Literals]
Spans(op) == {c \in [op : {op}, to : Strings, from : Strings, start : Indexes, end : 0 .. MaxIndex + 1] : c.to # c.from}

\* The calls a program may make: a function that makes a string gives it to a
\* variable that is not one of its arguments, a format is not its own argument.
Calls ==
    [op : {"delete_string", "reverse_string"}, to : Strings]
        \union [op : {"new_string"}, to : Names, capacity : Capacities]
        \union [op : {"copy_string_buffer", "buffer_to_string"}, to : Names, buffer : Literals]
        \union Pairs("assign_string") \union Pairs("append_string") \union Pairs("compare_string")
        \union {c \in Pairs("copy_string") : c.to # c.from}
        \union Buffers("assign_string_from_buffer") \union Buffers("append_string_buffer")
        \union Spans("copy_string_slice") \union Spans("append_string_slice")
        \union [op : {"push_string_char"}, to : Strings, char : Chars, index : -1 .. MaxIndex]
        \union [op : {"pop_string_char"}, to : Strings, index : -1 .. MaxIndex]
        \union [op : {"insert_string"}, to : Strings, from : Strings, index : Indexes, remove : BOOLEAN]
        \union {c \in [op : {"format_string"}, to : Strings, from : Strings,
                       args : {<<>>} \union {<<n>> : n \in Strings} \union {<<n, n>> : n \in Strings}] :
                    c.to # c.from /\ c.to \notin ToSet(c.args)}
        \union [op : {"print_format"}, from : Strings,
                   args : {<<n>> : n \in Strings} \union (Strings \X Strings)]
        \union [op : {"find_string_char", "count_string_char"}, to : Strings, char : Chars, start : Indexes]
        \union [op : {"find_last_string_char"}, to : Strings, char : Chars, index : -1 .. MaxIndex]
        \union [op : {"find_substring"}, to : Strings, from : Strings, start : Indexes]
        \union [op : {"int_to_string"}, to : Names, number : Numbers, base : Bases]
        \union [op : {"float_to_string"}, to : Names, number : Hundredths, decimals : Decimals]
        \union [op : {"string_to_int"}, to : Strings]
        \union [op : {"input"}, to : Names, line : Lines, failed : {FALSE}, strip : BOOLEAN]
        \union [op : {"input"}, to : Names, line : {<<>>}, failed : {TRUE}, strip : {TRUE}]

Run(w, c) ==
    CASE c.op = "new_string" -> new_string(w, c.to, c.capacity)
      [] c.op = "delete_string" -> delete_string(w, c.to)
      [] c.op = "copy_string" -> copy_string(w, c.to, c.from)
      [] c.op = "copy_string_slice" -> copy_string_slice(w, c.to, c.from, c.start, c.end)
      [] c.op = "copy_string_buffer" -> copy_string_buffer(w, c.to, c.buffer)
      [] c.op = "buffer_to_string" -> buffer_to_string(w, c.to, c.buffer)
      [] c.op = "assign_string" -> assign_string(w, c.to, c.from)
      [] c.op = "assign_string_from_buffer" -> assign_string_from_buffer(w, c.to, c.buffer)
      [] c.op = "append_string" -> append_string(w, c.to, c.from)
      [] c.op = "append_string_buffer" -> append_string_buffer(w, c.to, c.buffer)
      [] c.op = "append_string_slice" -> append_string_slice(w, c.to, c.from, c.start, c.end)
      [] c.op = "push_string_char" -> push_string_char(w, c.to, c.char, c.index)
      [] c.op = "pop_string_char" -> pop_string_char(w, c.to, c.index)
      [] c.op = "insert_string" -> insert_string(w, c.to, c.from, c.index, c.remove)
      [] c.op = "format_string" -> format_string(w, c.to, c.from, c.args)
      [] c.op = "print_format" -> print_format(w, c.from, c.args)
      [] c.op = "reverse_string" -> reverse_string(w, c.to)
      [] c.op = "compare_string" -> compare_string(w, c.to, c.from)
      [] c.op = "find_string_char" -> find_string_char(w, c.to, c.char, c.start)
      [] c.op = "find_last_string_char" -> find_last_string_char(w, c.to, c.char, c.index)
      [] c.op = "count_string_char" -> count_string_char(w, c.to, c.char, c.start)
      [] c.op = "find_substring" -> find_substring(w, c.to, c.from, c.start)
      [] c.op = "int_to_string" -> int_to_string(w, c.to, c.number, c.base)
      [] c.op = "string_to_int" -> string_to_int(w, c.to)
      [] c.op = "float_to_string" -> float_to_string(w, c.to, c.number, c.decimals)
      [] c.op = "input" -> input(w, c.to, STRING_CAPACITY, c.line, c.failed, c.strip)

Make(c) ==
    LET w == Run(World, c)
    IN  /\ str' = [n \in Names |-> w.str[n]]
        /\ ret' = w.ret
        /\ stray' = w.stray
        /\ call' = c
        /\ calls' = calls + 1

\* The program starts with strings it has made from its constants.
Init ==
    /\ \E f \in [Names -> Literals] \union {[n \in Names |-> t] : t \in Numerals} :
          str = [n \in Names |-> copy_string_buffer([str |-> [m \in {n} |-> NoString], ret |-> Nothing, stray |-> FALSE],
                                                    n, f[n]).str[n]]
    /\ ret = Nothing /\ stray = FALSE /\ call = [op |-> "main"] /\ calls = 0

\* Once a byte outside the buffers was touched nothing is known of the program.
Next == calls < MaxCalls /\ ~stray /\ \E c \in Calls : Make(c)

Spec == Init /\ [][Next]_vars
-----------------------------------------------------------------------------
\* Texts that string_to_int reads right: a sign and decimal digits, 0x and
\* hexadecimal digits, decimal digits and o or h.
Readable(s) ==
    LET t == IF \E i \in DOMAIN s : s[i] \notin White
             THEN SubSeq(s, CHOOSE i \in DOMAIN s : s[i] \notin White /\ \A j \in 1..i-1 : s[j] \in White, Len(s))
             ELSE <<>>
        AllIn(S, d) == \A i \in DOMAIN d : d[i] \in S
        body == IF t # <<>> /\ t[1] \in {Plus, Minus} THEN Tail(t) ELSE t
    IN  \/ t = <<>>
        \/ Len(t) > 1 /\ t[1] = Digit0 /\ t[2] = LowerX
               /\ AllIn(Digits \union 65..70 \union 97..102, SubSeq(t, 3, Len(t)))
        \/ AllIn(Digits, body)
        \/ body # <<>> /\ Last(body) \in {LowerO, LowerH} /\ AllIn(Digits, Front(body))

-----------------------------------------------------------------------------
(* Where the functions do not do what they say. *)

\* A slice that ends past its string, or starts past the string it goes to.
SliceOutside(c) ==
    /\ c.op \in {"copy_string_slice", "append_string_slice"}
    /\ \/ c.end > str[c.from].length
       \/ c.op = "append_string_slice" /\ c.start > str[c.to].length

\* A string inserted into the middle of itself is overwritten while it is read.
InsertsItself(c) ==
    c.op = "insert_string" /\ c.to = c.from /\ c.index \in 1 .. str[c.to].length

\* With nothing to insert the character at the index stays.
RemovesNothing(c) ==
    c.op = "insert_string" /\ c.remove /\ c.index < str[c.to].length /\ TextOf(c.from) = <<>>

\* The position after the last character is accepted and pops the last one.
PopsAtEnd(c) == c.op = "pop_string_char" /\ c.index = str[c.to].length

\* The format of a call has these two characters one after the other.
OfFormat(c) == c.op \in {"format_string", "print_format"}
HasPair(c, first, second) ==
    \E i \in 1 .. Len(TextOf(c.from)) - 1 :
        TextOf(c.from)[i] = first /\ TextOf(c.from)[i + 1] = second

\* The character after a replaced % is skipped, and an empty argument leaves the %.
FormatsAmiss(c) ==
    /\ OfFormat(c)
    /\ \/ \E i \in DOMAIN c.args : TextOf(c.args[i]) = <<>>
       \/ HasPair(c, Percent, Percent)

\* The / before a % that is no place for an argument stays in the text.
KeepsSlash(c) == OfFormat(c) /\ HasPair(c, Slash, Percent)

\* The needle's characters are found with others between them, and the position
\* is counted from the start.
SearchesAmiss(c) ==
    /\ c.op = "find_substring"
    /\ \/ c.start > 0
       \/ Len(TextOf(c.from)) > 1 /\ ~IsPrefix(TextOf(c.from), TextOf(c.to))

\* Capitals mark no base, letters have no value before h, and a character
\* that is no digit is not refused.
Misread(c) ==
    c.op = "string_to_int" /\ ~Readable(TextOf(c.to))

\* The sign of a number between -1 and 0 is lost.
LosesSign(c) == c.op = "float_to_string" /\ c.number \in -99 .. -1

\* The last character of a line that does not end in a newline is lost.
CutsLine(c) == c.op = "input" /\ c.strip /\ c.line # <<>> /\ Last(c.line) # Newline

\* The characters of a whole number.
NumberLength(n) == IF n = 0 THEN 1 ELSE Figures(SizeOf(n), 10) + (IF n < 0 THEN 1 ELSE 0)

\* The digits of the most negative number in base two, its sign and the
\* terminator are one more than the buffer of int_to_string holds; the buffer of
\* float_to_string does not grow with the digits after the point.
DigitsOutgrow(c) ==
    \/ c.op = "int_to_string" /\ c.base = 2 /\ c.number = -Half
    \/ /\ c.op = "float_to_string" /\ c.decimals > 0
       /\ NumberLength(Toward0(c.number, 100)) + 1 + c.decimals > Doubled(STRING_CAPACITY, INT_BUFFER_CAPACITY)

\* A string that was made and got no characters yet has no terminator either,
\* which is what ends the search for the first digit.
NothingWritten(c) ==
    c.op = "string_to_int" /\ str[c.to].data[str[c.to].length] # Nul

Overruns(c) ==
    \/ SliceOutside(c) \/ DigitsOutgrow(c) \/ NothingWritten(c)
    \/ c.op = "find_substring" /\ c.start > 0

Amiss(c) ==
    \/ Overruns(c) \/ InsertsItself(c) \/ RemovesNothing(c) \/ PopsAtEnd(c)
    \/ FormatsAmiss(c) \/ KeepsSlash(c)
    \/ SearchesAmiss(c) \/ Misread(c) \/ LosesSign(c) \/ CutsLine(c)

\* The characters a call removes to put a text in their place.
Removed(c) ==
    CASE c.op = "insert_string" -> IF c.remove /\ c.index < str[c.to].length THEN 1 ELSE 0
      [] OfFormat(c) ->
            LET places == Len(SelectSeq(TextOf(c.from), LAMBDA x : x = Percent))
            IN  IF Len(c.args) < places THEN Len(c.args) ELSE places
      [] OTHER -> 0

\* The text such a call is to make.
Promised(c) ==
    IF OfFormat(c) THEN Text!Formatted(TextOf(c.from), [i \in DOMAIN c.args |-> TextOf(c.args[i])])
    ELSE Text!Inserted(TextOf(c.to), TextOf(c.from), c.index, c.remove)

\* The length set by insert_string counts the character it removed: for each a
\* terminator is left inside the string, at its end.
CountsRemoved(c) ==
    LET whole == Promised(c) \o [i \in 1 .. Removed(c) |-> Nul]
    IN  IF c.op = "print_format" THEN ret' = whole /\ UNCHANGED str
        ELSE /\ Contents(str'[c.to]) = whole /\ ret' = Nothing
             /\ \A n \in Names \ {c.to} : str'[n] = str[n]

-----------------------------------------------------------------------------
(* Properties. *)

\* A string with characters is followed by a terminator inside its buffer, as
\* the system calls that are given its data expect.
Terminated ==
    ~stray => \A n \in Strings : str[n].length > 0 =>
        /\ str[n].length \in DOMAIN str[n].data
        /\ str[n].data[str[n].length] = Nul

\* No call touches a byte outside the buffers of its strings, but for the
\* calls above.
InBounds == [][stray' => Overruns(call')]_vars

\* Every other call does to the texts what its description says, but that
\* insert_string and the formats leave exactly one terminator at the end of the
\* text for every character they removed.  That is not what their descriptions
\* promise, and what it does to later calls is not left out.
CallsMeanText ==
    [][Amiss(call') \/ IF Removed(call') > 0 THEN CountsRemoved(call') ELSE Text!Do(call')]_vars
=============================================================================
