----------------------------- MODULE KiNumbers -----------------------------
(***************************************************************************)
(* The conversions between numbers and strings, formatted output and line  *)
(* input of the Ki library (basic.ki), on the strings of KiStrings.        *)
(* Numbers have Width bits; the digits of a floating-point number are      *)
(* exact here, in hundredths.                                              *)
(***************************************************************************)
EXTENDS KiStrings

\* What is left of a number when its last k digits are taken: the division is unsigned.
Left(number, base, k) ==
    LET left[j \in Nat] == IF j = 0 THEN number ELSE left[j - 1] \div base IN left[k]

\* How many digits are taken until nothing is left.
Figures(number, base) ==
    CHOOSE k \in 0 .. Width : Left(number, base, k) = 0 /\ \A j \in 0 .. k - 1 : Left(number, base, j) # 0

\* The least integer is its own negative.
SizeOf(number) == (IF number < 0 THEN Wrap(-number) ELSE number) % (2 * Half)

\* The last digit is written first.
int_to_string(w, to, number, base) ==
    LET made == new_string(w, to, INT_BUFFER_CAPACITY)
        size == SizeOf(number)
        n == Figures(size, base)
        digits == Fill(made, to, 0, [i \in 0 .. n - 1 |-> Digit0 + (Left(size, base, i) % base)])
        signed == IF number < 0 THEN End(Put(digits, to, n, Minus), to, n + 1) ELSE End(digits, to, n)
    IN  IF number = 0 THEN End(Put(made, to, 0, Digit0), to, 1) ELSE reverse_string(signed, to)

is_whitespace(c) == c \in White

\* A capital letter is moved by 48, not by 32.
to_lower(c) == IF c \in Uppers THEN c - 48 ELSE c

HexDigit(c) == IF c \in Digits THEN c - Digit0 ELSE IF c \in Lowers THEN c - LowerA + 10 ELSE c - 65 + 10

hex_prefixed_string_to_int(w, n, first) ==
    LET length == Length(w, n)
        refused == {j \in first .. length - 1 : Seen(w, n, j) \notin Digits \union Lowers \union Uppers}
        end == IF refused = {} THEN length ELSE 1 + CHOOSE j \in refused : \A k \in refused : j <= k
        value[k \in Int] ==    \* of k digits
            IF k <= 0 THEN 0 ELSE Wrap(value[k - 1] * 16 + (HexDigit(Seen(w, n, first + k - 1)) % 16))
    IN  Return(Read(w, n, first, end - first), IF refused = {} THEN value[length - first] ELSE -1)

DigitsToInt(w, n, first, last, base) ==
    LET value[k \in Int] ==
            IF k <= 0 THEN 0 ELSE Wrap(value[k - 1] * base + Seen(w, n, first + k - 1) - Digit0)
    IN  value[last - first]

\* The first byte of the buffer that is not white; only a terminator ends the search.
FirstSolid(w, n) ==
    LET bytes == w.str[n].data
        solid == {i \in DOMAIN bytes : ~is_whitespace(bytes[i])}
    IN  IF solid = {} THEN Cardinality(DOMAIN bytes) ELSE CHOOSE i \in solid : \A j \in solid : i <= j

\* Bytes that nobody has written may be white, and the search goes on behind them.
SearchRead(w, n, i) ==
    [Read(w, n, 0, i + 1) EXCEPT !.stray = @ \/ \A j \in DOMAIN w.str[n].data : j >= i => w.str[n].data[j] = Unknown]

string_to_int(w, n) ==
    LET i == FirstSolid(w, n)
        length == Length(w, n)
        suffix == to_lower(Seen(w, n, length - 1))
        base == IF suffix = LowerO THEN 8 ELSE IF suffix = LowerH THEN 16 ELSE 10
        first == IF Seen(w, n, i) \in {Plus, Minus} THEN i + 1 ELSE i
        last == IF base = 10 THEN length ELSE length - 1
        value == DigitsToInt(w, n, first, last, base)
        v == SearchRead(w, n, i)
    IN  IF i = length THEN Return(v, -1)
        ELSE IF length > i + 1 /\ Seen(w, n, i) = Digit0 /\ to_lower(Seen(w, n, i + 1)) = LowerX
        THEN hex_prefixed_string_to_int(v, n, i + 2)
        ELSE Return(Read(v, n, first, last - first), IF Seen(w, n, i) = Minus THEN Wrap(-value) ELSE value)

Toward0(n, d) == IF n < 0 THEN -((-n) \div d) ELSE n \div d

\* When the digits do not fit it is the block of the string that is moved to a
\* larger place, not its buffer.
float_to_string(w, to, hundredths, decimals) ==
    LET whole == int_to_string(w, to, Toward0(hundredths, 100), 10)
        n == Length(whole, to)
        sized == IF n + decimals > whole.str[to].capacity
                 THEN [whole EXCEPT !.str[to].capacity = n + decimals + 1] ELSE whole
        part == (IF hundredths < 0 THEN -hundredths ELSE hundredths) % 100
        point == Put(sized, to, n, Dot)
        decimal == [i \in 0 .. decimals - 1 |-> Digit0 + (((part * Power(10, i + 1)) \div 100) % 10)]
    IN  IF decimals <= 0 THEN whole
        ELSE End(Fill(point, to, n + 1, decimal), to, n + 1 + decimals)

-----------------------------------------------------------------------------
(* Output and input. *)

SumLengths(w, args) ==
    LET sum[k \in 0 .. Len(args)] == IF k = 0 THEN 0 ELSE sum[k - 1] + Length(w, args[k])
    IN  sum[Len(args)]

\* What it writes to standard output is the value returned here.
print_format(w, format, args) ==
    LET page == new_string(w, Page, Length(w, format) + SumLengths(w, args))
        done == format_string(page, Page, format, args)
    IN  IF args = <<>> THEN Printed(w, Contents(w.str[format]))
        ELSE Printed(delete_string(done, Page), Contents(done.str[Page]))

\* read() has put what the user typed into the buffer, or failed; the last
\* character read is taken for the newline.
scan(w, n, line, failed, strip_newline) ==
    LET count == Len(line)
        filled == FillFrom(w, n, 0, line)
    IN  IF failed THEN w
        ELSE IF strip_newline /\ count > 0
              THEN SetLength(Put(Put(filled, n, count - 1, Nul), n, count, Nul), n, count - 1)
        ELSE End(filled, n, count)

input(w, to, capacity, line, failed, strip_newline) ==
    scan(new_string(w, to, capacity), to, line, failed, strip_newline)
=============================================================================
