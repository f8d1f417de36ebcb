----------------------------- MODULE KiStrings -----------------------------
(***************************************************************************)
(* The string functions of the Ki library (basic.ki) over their buffers.   *)
(* A string is a block of its own that points to a buffer of characters;   *)
(* capacity is what the string says of the buffer's size (one less, room   *)
(* for the terminator), length the number of characters in use.  Blocks    *)
(* are private: what the heap does to them is the subject of KiHeap.       *)
(*                                                                         *)
(* A function is an operator from a world to a world: the strings, the     *)
(* value returned and whether a byte outside a buffer was touched.         *)
(***************************************************************************)
EXTENDS KiCharacters

CONSTANTS
    STRING_CAPACITY,        \* the smallest capacity, 16 in the code
    INT_BUFFER_CAPACITY     \* what int_to_string asks for, 33 in the code

ASSUME CapacityAssumption == STRING_CAPACITY \in Nat \ {0} /\ INT_BUFFER_CAPACITY \in Nat

Temp == "temp"      \* the variable of a function that makes a string of its own
Page == "page"      \* the variable in which print_format formats
Unknown == -1       \* a byte nobody has written since the block was allocated

NoString == [capacity |-> 0, length |-> 0, data |-> <<>>]
Held(s) == s # NoString

Contents(s) == [i \in 1 .. s.length |-> IF i - 1 \in DOMAIN s.data THEN s.data[i - 1] ELSE Unknown]

Buffer(size) == [i \in 0 .. size - 1 |-> Unknown]

-----------------------------------------------------------------------------
(* Bytes, loops and capacities. *)

Seen(w, n, i) == IF i \in DOMAIN w.str[n].data THEN w.str[n].data[i] ELSE Unknown

\* count bytes are read, in whatever order.
Read(w, n, first, count) ==
    [w EXCEPT !.stray = @ \/ ~(first .. first + count - 1 \subseteq DOMAIN w.str[n].data)]

\* The characters chars[0], chars[1], ... are written from the position at on.
Fill(w, n, at, chars) ==
    LET old == w.str[n].data
    IN  [w EXCEPT !.str[n].data = [j \in DOMAIN old |-> IF j - at \in DOMAIN chars THEN chars[j - at] ELSE old[j]],
                  !.stray = @ \/ \E i \in DOMAIN chars : at + i \notin DOMAIN old]

Put(w, n, i, c) == Fill(w, n, i, [k \in {0} |-> c])

Length(w, n) == w.str[n].length
SetLength(w, n, length) == [w EXCEPT !.str[n].length = length]
End(w, n, length) == Put(SetLength(w, n, length), n, length, Nul)
Return(w, v) == [w EXCEPT !.ret = <<v>>]
Printed(w, s) == [w EXCEPT !.ret = s]
Tell(w, b) == [w EXCEPT !.ret = Truth(b)]

\* The loop copies upwards: when the target starts inside the source, bytes
\* already copied are read again.
copy_bytes(w, to, at, from, first, count) ==
    LET Byte(i) == Seen(w, from, first + (IF to = from /\ first < at THEN i % (at - first) ELSE i))
    IN  Fill(Read(w, from, first, count), to, at, [i \in 0 .. count - 1 |-> Byte(i)])

\* The same from a buffer of the caller's, which is not one of the strings.
FillFrom(w, to, at, buffer) == Fill(w, to, at, [i \in 0 .. Len(buffer) - 1 |-> buffer[i + 1]])

\* The capacity is doubled until it is enough.
Doubled(capacity, need) ==
    LET doubled[k \in Nat] == IF k = 0 THEN capacity ELSE 2 * doubled[k - 1]
        enough == {k \in 0 .. need : doubled[k] >= need}
    IN  doubled[CHOOSE k \in enough : \A j \in enough : k <= j]

new_string(w, to, capacity) ==
    LET size == Doubled(STRING_CAPACITY, capacity)
    IN  [w EXCEPT !.str[to] = [capacity |-> size, length |-> 0, data |-> Buffer(size + 1)]]

delete_string(w, to) == [w EXCEPT !.str[to] = NoString]

\* A plausible mistake: the capacity is raised, the buffer stays as it is.
reserve_capacity_only(w, n, need) ==
    IF w.str[n].capacity >= need THEN w ELSE [w EXCEPT !.str[n].capacity = Doubled(STRING_CAPACITY, need)]

reserve_string(w, n, need) ==
    LET size == Doubled(STRING_CAPACITY, need)
        old == w.str[n].data
    IN  IF w.str[n].capacity >= need \/ w.str[n].capacity = size THEN w
        ELSE [w EXCEPT !.str[n].capacity = size,
                       !.str[n].data = [i \in 0 .. size |-> IF i \in DOMAIN old THEN old[i] ELSE Unknown]]

-----------------------------------------------------------------------------
(* Copies and changes. *)

assign_string(w, to, from) ==
    LET n == Length(w, from)
    IN  End(copy_bytes(reserve_string(w, to, n), to, 0, from, 0, n), to, n)

assign_string_from_buffer(w, to, buffer) ==
    End(FillFrom(reserve_string(w, to, Len(buffer)), to, 0, buffer), to, Len(buffer))

copy_string(w, to, from) == assign_string(new_string(w, to, w.str[from].capacity), to, from)

copy_string_buffer(w, to, buffer) == assign_string_from_buffer(new_string(w, to, Len(buffer)), to, buffer)

buffer_to_string(w, to, buffer) ==
    assign_string_from_buffer(new_string(w, to, Len(buffer) + 1), to, buffer)

copy_string_slice(w, to, from, start, end) ==
    IF start >= Length(w, from) \/ end < start THEN new_string(w, to, 0)
    ELSE End(copy_bytes(new_string(w, to, end - start), to, 0, from, start, end - start), to, end - start)

\* A plausible mistake: the terminator is not written after the new end.
append_unterminated(w, to, from) ==
    LET n == Length(w, to) + Length(w, from)
    IN  SetLength(copy_bytes(reserve_string(w, to, n), to, Length(w, to), from, 0, Length(w, from)), to, n)

append_string(w, to, from) ==
    LET n == Length(w, to) + Length(w, from)
    IN  End(copy_bytes(reserve_string(w, to, n), to, Length(w, to), from, 0, Length(w, from)), to, n)

append_string_buffer(w, to, buffer) ==
    LET n == Length(w, to) + Len(buffer)
    IN  End(FillFrom(reserve_string(w, to, n), to, Length(w, to), buffer), to, n)

append_string_slice(w, to, from, start, end) ==
    LET n == Length(w, to) + end - start
    IN  IF Length(w, from) = 0 \/ start > Length(w, to) \/ start > end THEN w
        ELSE End(copy_bytes(reserve_string(w, to, n), to, Length(w, to), from, start, end - start), to, n)

\* A plausible mistake: the characters are moved up from the front, each over the next.
push_from_front(w, n, c, index) ==
    LET length == Length(w, n)
        at == IF index = -1 THEN length ELSE index
    IN  IF index < -1 \/ index > length THEN w
        ELSE End(Put(copy_bytes(reserve_string(w, n, length + 1), n, at + 1, n, at, length - at), n, at, c), n, length + 1)

\* The characters from the index on are moved up, the last one first.
push_string_char(w, n, c, index) ==
    LET length == Length(w, n)
        at == IF index = -1 THEN length ELSE index
        room == reserve_string(w, n, length + 1)
        moved == Fill(Read(room, n, at, length + 1 - at), n, at + 1, [i \in 0 .. length - at |-> Seen(room, n, at + i)])
    IN  IF index < -1 \/ index > length THEN w
        ELSE End(Put(moved, n, at, c), n, length + 1)

pop_string_char(w, n, index) ==
    LET length == Length(w, n)
        at == IF index < 0 THEN length - 1 ELSE index
        moved == copy_bytes(Read(w, n, at, 1), n, at, n, at + 1, length - 1 - at)
    IN  IF length = 0 \/ index > length \/ index < -1 THEN Return(w, 0)
        ELSE Return(End(moved, n, length - 1), Seen(w, n, at))

\* The rest is put aside in a string of its own, the source written over it,
\* the rest appended again.  The length set at the end counts the character
\* that remove_index_char takes away.
insert_string(w, to, from, index, remove_index_char) ==
    LET before == Length(w, to)
        count == Length(w, from)
        aside == copy_string_slice(reserve_string(w, to, before + count), Temp, to,
                                   IF remove_index_char THEN index + 1 ELSE index, before)
        written == copy_bytes(SetLength(aside, to, index), to, index, from, 0, count)
        whole == append_string(SetLength(written, to, index + count), to, Temp)
    IN  IF index > before \/ count = 0 THEN w
        ELSE End(delete_string(whole, Temp), to, before + count)

IsSpecifier(w, n, i) == Seen(w, n, i) = Percent /\ ~(i > 0 /\ Seen(w, n, i - 1) = Slash)

\* The next place from i on that an argument replaces, the end if there is none.
NextSpecifier(w, n, i) ==
    LET found == {j \in i .. Length(w, n) - 1 : IsSpecifier(w, n, j)}
    IN  IF found = {} THEN Length(w, n) ELSE CHOOSE j \in found : \A k \in found : j <= k

\* The next argument is put in its place; the search goes on after it.
Replaced(to, arg, s) ==
    LET at == NextSpecifier(s.w, to, s.i)
        v == insert_string(s.w, to, arg, at, TRUE)
    IN  IF at >= Length(s.w, to) THEN s ELSE [w |-> v, i |-> at + Length(v, arg) + 1]

\* As many arguments are put in as the format has places for; the length the
\* loop runs to grows with each.
format_string(w, to, format, args) ==
    LET places == Cardinality({i \in 0 .. Length(w, format) - 1 : IsSpecifier(w, format, i)})
        replaced[k \in 0 .. Len(args)] ==
            IF k = 0 THEN [w |-> assign_string(w, to, format), i |-> 0]
            ELSE Replaced(to, args[k], replaced[k - 1])
    IN  replaced[IF Len(args) < places THEN Len(args) ELSE places].w

reverse_string(w, n) ==
    LET length == Length(w, n)
    IN  IF length <= 1 THEN w ELSE Fill(w, n, 0, [i \in 0 .. length - 1 |-> Seen(w, n, length - 1 - i)])

-----------------------------------------------------------------------------
(* Searches. *)

compare_string(w, a, b) ==
    LET n == Length(w, a)
    IN  IF n # Length(w, b) THEN Tell(w, FALSE)
        ELSE Tell(Read(Read(w, a, 0, n), b, 0, n), \A i \in 0 .. n - 1 : Seen(w, a, i) = Seen(w, b, i))

Positions(w, n, c) == {i \in 0 .. Length(w, n) - 1 : Seen(w, n, i) = c}

find_string_char(w, n, c, start) ==
    LET found == {i \in Positions(w, n, c) : i >= start}
    IN  Return(w, IF found = {} THEN -1 ELSE CHOOSE i \in found : \A j \in found : i <= j)

find_last_string_char(w, n, c, start) ==
    LET from == IF start = -1 THEN Length(w, n) - 1 ELSE start
        found == {i \in Positions(w, n, c) : i <= from}
    IN  Return(w, IF start >= Length(w, n) \/ start < -1 \/ found = {} THEN -1
                  ELSE CHOOSE i \in found : \A j \in found : j <= i)

count_string_char(w, n, c, start) == Return(w, Cardinality({i \in Positions(w, n, c) : i >= start}))

\* The characters of the needle are looked for one after the other, whatever
\* stands between them.
find_substring(w, haystack, needle, start) ==
    LET length == Length(w, haystack)
        matched[i \in Nat] ==  \* how many, after i characters of the haystack
            IF i = 0 THEN 0
            ELSE IF Seen(w, haystack, start + i - 1) = Seen(w, needle, matched[i - 1])
                 THEN matched[i - 1] + 1 ELSE matched[i - 1]
        ends == {i \in 1 .. length : matched[i] = Length(w, needle)}
        end == IF ends = {} THEN length ELSE CHOOSE i \in ends : \A j \in ends : i <= j
    IN  IF length = 0 \/ Length(w, needle) = 0 \/ start >= length THEN Return(w, -1)
        ELSE Return(Read(w, haystack, start, end), IF ends = {} THEN -1 ELSE end - Length(w, needle))
=============================================================================
