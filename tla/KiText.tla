------------------------------- MODULE KiText -------------------------------
(***************************************************************************)
(* What the string functions of the Ki library (basic.ki, group strings)   *)
(* promise: a string is a sequence of characters.  Buffers, capacities and *)
(* terminators do not appear.  A call is a record: the function and its    *)
(* arguments, each string known by the variable the caller keeps it in.    *)
(***************************************************************************)
EXTENDS KiCharacters

CONSTANT
    Names       \* the caller's variables for strings

VARIABLES
    text,       \* the characters of each variable's string, Absent when it has none
    ret         \* what the last call returned

\* The characters at positions first..last-1 (the library's positions start at 0).
Slice(s, first, last) == SubSeq(s, first + 1, IF last < Len(s) THEN last ELSE Len(s))

Digit(c) == IF c \in Digits THEN c - Digit0 ELSE Lower(c) - LowerA + 10

\* The number written by digits in a base.
Value(s, base) == FoldLeft(LAMBDA n, c : n * base + Digit(c), 0, s)

\* The digits of a number that is not negative.
Written(n, base) ==
    LET written[k \in Nat] ==
            (IF k < base THEN <<>> ELSE written[k \div base]) \o <<Digit0 + (k % base)>>
    IN  written[n]

Numeral(n, base) == IF n < 0 THEN <<Minus>> \o Written(-n, base) ELSE Written(n, base)

\* The number n / 100 with p digits after the point, the rest cut off.
Decimal(n, p) ==
    LET size == IF n < 0 THEN -n ELSE n
        part == ((size % 100) * Power(10, p)) \div 100
        tail == [i \in 1..p |-> Digit0 + ((part \div Power(10, p - i)) % 10)]
    IN  (IF n < 0 THEN <<Minus>> ELSE <<>>) \o Written(size \div 100, 10)
            \o (IF p = 0 THEN <<>> ELSE <<Dot>> \o tail)

Trimmed(s) == SelectSeq(s, LAMBDA c : c \notin White)

\* The integer a text stands for: hexadecimal after 0x or before h, octal
\* before o, decimal otherwise; -1 when there is nothing but white space.
Number(s) ==
    LET t == Trimmed(s)
        negative == t # <<>> /\ t[1] = Minus
        signed == t # <<>> /\ t[1] \in {Plus, Minus}
        digits == IF signed THEN Tail(t) ELSE t
        last == IF t = <<>> THEN Nul ELSE Lower(Last(t))
        size == IF Len(t) > 1 /\ t[1] = Digit0 /\ Lower(t[2]) = LowerX
                THEN Value(SubSeq(t, 3, Len(t)), 16)
                ELSE IF last = LowerH THEN Value(Front(digits), 16)
                ELSE IF last = LowerO THEN Value(Front(digits), 8) ELSE Value(digits, 10)
    IN  IF t = <<>> THEN -1 ELSE Wrap(IF negative THEN -size ELSE size)

\* The format with each % replaced by the next argument, as long as there are
\* arguments, but /% by a single percent sign.
Formatted(f, args) ==
    LET rest[at \in 1 .. Len(f) + 1, used \in 0 .. Len(args)] ==
            IF at > Len(f) THEN <<>>
            ELSE IF f[at] = Slash /\ at < Len(f) /\ f[at + 1] = Percent
                 THEN <<Percent>> \o rest[at + 2, used]
            ELSE IF f[at] = Percent /\ used < Len(args)
                 THEN args[used + 1] \o rest[at + 1, used + 1]
                 ELSE <<f[at]>> \o rest[at + 1, used]
    IN  rest[1, 0]

\* One text put into another at an index, in place of the character there if
\* that is to be removed.
Inserted(s, t, index, remove) ==
    Slice(s, 0, index) \o t \o Slice(s, IF remove THEN index + 1 ELSE index, Len(s))

\* The first position from start at which the test holds, -1 if there is none.
FirstFrom(s, start, Test(_)) ==
    LET found == {i \in start .. Len(s) - 1 : Test(i)}
    IN  IF found = {} THEN -1 ELSE CHOOSE i \in found : \A j \in found : i <= j

-----------------------------------------------------------------------------
Becomes(n, s) == text' = [text EXCEPT ![n] = s] /\ ret' = Nothing
Answers(v) == ret' = <<v>> /\ UNCHANGED text

new_string(c) == Becomes(c.to, <<>>)
delete_string(c) == Becomes(c.to, Absent)
assign_string(c) == Becomes(c.to, text[c.from])
assign_string_from_buffer(c) == Becomes(c.to, c.buffer)
append_string(c) == Becomes(c.to, text[c.to] \o text[c.from])
append_string_buffer(c) == Becomes(c.to, text[c.to] \o c.buffer)
copy_string_slice(c) ==
    Becomes(c.to, IF c.start >= Len(text[c.from]) THEN <<>> ELSE Slice(text[c.from], c.start, c.end))
append_string_slice(c) == Becomes(c.to, text[c.to] \o Slice(text[c.from], c.start, c.end))
reverse_string(c) == Becomes(c.to, Reverse(text[c.to]))

push_string_char(c) ==
    LET at == IF c.index = -1 THEN Len(text[c.to]) ELSE c.index
    IN  IF c.index > Len(text[c.to]) THEN UNCHANGED text /\ ret' = Nothing
        ELSE Becomes(c.to, InsertAt(text[c.to], at + 1, c.char))

\* A character outside the string is not popped: the call returns 0.
pop_string_char(c) ==
    LET s == text[c.to]
        at == IF c.index = -1 THEN Len(s) - 1 ELSE c.index
    IN  IF at \in 0 .. Len(s) - 1
        THEN text' = [text EXCEPT ![c.to] = RemoveAt(s, at + 1)] /\ ret' = <<s[at + 1]>>
        ELSE Answers(0)

\* With remove_index_char the character at the index gives way to the source.
insert_string(c) ==
    IF c.index > Len(text[c.to]) THEN UNCHANGED text /\ ret' = Nothing
    ELSE Becomes(c.to, Inserted(text[c.to], text[c.from], c.index, c.remove))

format_string(c) ==
    Becomes(c.to, Formatted(text[c.from], [i \in DOMAIN c.args |-> text[c.args[i]]]))

compare_string(c) == ret' = Truth(text[c.to] = text[c.from]) /\ UNCHANGED text
find_string_char(c) ==
    Answers(FirstFrom(text[c.to], c.start, LAMBDA i : text[c.to][i + 1] = c.char))
find_last_string_char(c) ==
    LET s == text[c.to]
        from == {i \in 0 .. Len(s) - 1 : s[i + 1] = c.char /\ (c.index = -1 \/ i <= c.index)}
    IN  Answers(IF from = {} \/ c.index >= Len(s) THEN -1 ELSE CHOOSE i \in from : \A j \in from : j <= i)
count_string_char(c) ==
    Answers(Len(SelectSeq(Slice(text[c.to], c.start, Len(text[c.to])), LAMBDA x : x = c.char)))
find_substring(c) ==
    LET h == text[c.to]   n == text[c.from]
    IN  Answers(IF n = <<>> THEN -1
                ELSE FirstFrom(h, c.start, LAMBDA i : Slice(h, i, i + Len(n)) = n))

int_to_string(c) == Becomes(c.to, Numeral(c.number, c.base))
string_to_int(c) == Answers(Number(text[c.to]))
float_to_string(c) == Becomes(c.to, Decimal(c.number, c.decimals))

\* What is printed is what the call returns.
print_format(c) ==
    /\ ret' = Formatted(text[c.from], [i \in DOMAIN c.args |-> text[c.args[i]]])
    /\ UNCHANGED text

\* A line read from the user, without the newline that ends it.
input(c) ==
    Becomes(c.to, IF c.strip /\ c.line # <<>> /\ Last(c.line) = Newline THEN Front(c.line) ELSE c.line)

Do(c) ==
    \/ c.op = "new_string" /\ new_string(c)
    \/ c.op = "delete_string" /\ delete_string(c)
    \/ c.op \in {"assign_string", "copy_string"} /\ assign_string(c)
    \/ c.op \in {"assign_string_from_buffer", "copy_string_buffer", "buffer_to_string"}
        /\ assign_string_from_buffer(c)
    \/ c.op = "append_string" /\ append_string(c)
    \/ c.op = "append_string_buffer" /\ append_string_buffer(c)
    \/ c.op = "copy_string_slice" /\ copy_string_slice(c)
    \/ c.op = "append_string_slice" /\ append_string_slice(c)
    \/ c.op = "reverse_string" /\ reverse_string(c)
    \/ c.op = "push_string_char" /\ push_string_char(c)
    \/ c.op = "pop_string_char" /\ pop_string_char(c)
    \/ c.op = "insert_string" /\ insert_string(c)
    \/ c.op = "format_string" /\ format_string(c)
    \/ c.op = "compare_string" /\ compare_string(c)
    \/ c.op = "find_string_char" /\ find_string_char(c)
    \/ c.op = "find_last_string_char" /\ find_last_string_char(c)
    \/ c.op = "count_string_char" /\ count_string_char(c)
    \/ c.op = "find_substring" /\ find_substring(c)
    \/ c.op = "int_to_string" /\ int_to_string(c)
    \/ c.op = "string_to_int" /\ string_to_int(c)
    \/ c.op = "float_to_string" /\ float_to_string(c)
    \/ c.op = "print_format" /\ print_format(c)
    \/ c.op = "input" /\ input(c)
=============================================================================
