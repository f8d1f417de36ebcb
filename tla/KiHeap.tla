------------------------------- MODULE KiHeap -------------------------------
(***************************************************************************)
(* The heap of the Ki standard library (lib/basic.ki): one mapping of      *)
(* HEAP_SIZE bytes, the free list _ki_heap_free_list with one word per     *)
(* byte (0 for a free byte, else the size of the block the byte belongs    *)
(* to), and _ki_heap_ptr, where an allocation goes when no gap before it   *)
(* is big enough.  The module has the operations alloc, free and realloc   *)
(* and the writes of the calling program; which of them a program calls,   *)
(* and in which order, is left to the modules that extend this one.        *)
(***************************************************************************)
EXTENDS Integers

CONSTANTS
    HEAP_SIZE,  \* bytes of the heap, entries of the free list
    MaxBlocks,  \* how many blocks the program holds at once
    Sizes,      \* the sizes it asks for
    Byte        \* the values of a byte

ASSUME HeapAssumption ==
    /\ HEAP_SIZE \in Nat
    /\ MaxBlocks \in Nat
    /\ Sizes \subseteq Nat \ {0}
    /\ 0 \in Byte

\* A handle is the place where the program keeps the pointer of one block.
Handles == 1..MaxBlocks

VARIABLES
    free_list,  \* _ki_heap_free_list
    heap_ptr,   \* _ki_heap_ptr
    bytes,      \* the memory of the heap
    block,      \* address and size of the block of each handle; size 0: none
    overrun     \* the library went past the end of the heap or of the free list

vars == <<free_list, heap_ptr, bytes, block, overrun>>

Cell == 0..HEAP_SIZE-1
NoBlock == [addr |-> 0, size |-> 0]

TypeOK ==
    /\ free_list \in [Cell -> 0..HEAP_SIZE]
    /\ heap_ptr \in 0..HEAP_SIZE
    /\ bytes \in [Cell -> Byte]
    /\ block \in [Handles -> [addr : 0..HEAP_SIZE, size : 0..HEAP_SIZE]]
    /\ overrun \in BOOLEAN

Live(h) == block[h].size > 0
End(h) == block[h].addr + block[h].size
Cells(h) == block[h].addr .. End(h) - 1

-----------------------------------------------------------------------------
(***************************************************************************)
(* The helpers of alloc, free and realloc.                                 *)
(***************************************************************************)

\* A plausible mistake in the loop of set_heap_free_list_sizes: one byte short.
StampShort(list, start, value, count) ==
    [c \in Cell |-> IF start <= c /\ c < start + count - 1 THEN value ELSE list[c]]

\* set_heap_free_list_sizes(start, value, count)
Stamp(list, start, value, count) ==
    [c \in Cell |-> IF start <= c /\ c < start + count THEN value ELSE list[c]]

\* A plausible mistake in its search: the last byte of the gap is not looked at.
GapsShort(size) ==
    {i \in 0..heap_ptr-1 :
        /\ i + size <= HEAP_SIZE
        /\ \A j \in 0..size-2 : free_list[i + j] = 0}

\* The starts that find_empty_space_before_heap_pointer(size) accepts.
Gaps(size) ==
    {i \in 0..heap_ptr-1 :
        /\ i + size <= HEAP_SIZE
        /\ \A j \in 0..size-1 : free_list[i + j] = 0}

\* A plausible mistake in alloc: the gaps are not used.
FirstFitNoGap(i, size) == i = heap_ptr

\* Where alloc puts a block: the first gap, or the heap pointer.
FirstFit(i, size) ==
    \/ i \in Gaps(size) /\ \A k \in Gaps(size) : i <= k
    \/ Gaps(size) = {} /\ i = heap_ptr

\* There is no check against HEAP_SIZE.  A block that fits nowhere is put past the
\* end, and its sizes are written past the end of the free list.  And the search
\* reads past the end of the list when the bytes up to the end are free but too
\* few: what follows the list may look like more free bytes, or not.
PastEnd(size) ==
    /\ Gaps(size) = {}
    /\ \/ heap_ptr + size > HEAP_SIZE
       \/ \E i \in 0..heap_ptr-1 :
             /\ i + size > HEAP_SIZE
             /\ \A c \in i..HEAP_SIZE-1 : free_list[c] = 0

\* A plausible mistake in copy_bytes: the last byte is not copied.
CopyBytesShort(to, from, count) ==
    [c \in Cell |->
        IF to <= c /\ c < to + count - 1 THEN bytes[from + (c - to)] ELSE bytes[c]]

\* copy_bytes(to, from, count), which copies upwards one byte at a time: when
\* the target starts inside the source, bytes already copied are read again.
CopyBytes(to, from, count) ==
    [c \in Cell |->
        IF to <= c /\ c < to + count
        THEN IF from < to
             THEN bytes[from + ((c - to) % (to - from))]
             ELSE bytes[from + (c - to)]
        ELSE bytes[c]]

-----------------------------------------------------------------------------
\* A plausible mistake in the start of the heap: the pointer is at the last byte
\* taken, before the first one.
InitBefore ==
    /\ free_list = [c \in Cell |-> 0]
    /\ heap_ptr = -1
    /\ bytes = [c \in Cell |-> 0]
    /\ block = [h \in Handles |-> NoBlock]
    /\ overrun = FALSE

(***************************************************************************)
(* Init is the state __internal_allocate_heap leaves: both mappings are    *)
(* zero, the heap pointer is 0.                                            *)
(***************************************************************************)
Init ==
    /\ free_list = [c \in Cell |-> 0]
    /\ heap_ptr = 0
    /\ bytes = [c \in Cell |-> 0]
    /\ block = [h \in Handles |-> NoBlock]
    /\ overrun = FALSE

\* h = alloc(size)
Alloc(h, size) ==
    /\ ~overrun /\ ~Live(h)
    /\ \E i \in 0..HEAP_SIZE :
          /\ FirstFit(i, size)
          /\ i + size <= HEAP_SIZE
          /\ heap_ptr' = i + size
          /\ free_list' = Stamp(free_list, i, size, size)
          /\ block' = [block EXCEPT ![h] = [addr |-> i, size |-> size]]
    /\ UNCHANGED <<bytes, overrun>>

AllocOverrun(h, size) ==
    /\ ~overrun /\ ~Live(h)
    /\ PastEnd(size)
    /\ overrun' = TRUE
    /\ UNCHANGED <<free_list, heap_ptr, bytes, block>>

\* A plausible mistake in free: it lowers the heap pointer by the freed size.
FreeLowers(h) ==
    /\ ~overrun /\ Live(h)
    /\ free_list' = Stamp(free_list, block[h].addr, 0, free_list[block[h].addr])
    /\ heap_ptr' = heap_ptr - free_list[block[h].addr]
    /\ block' = [block EXCEPT ![h] = NoBlock]
    /\ UNCHANGED <<bytes, overrun>>

\* Another one: the free list keeps the sizes of the freed block.
FreeKeepsSizes(h) ==
    /\ ~overrun /\ Live(h)
    /\ block' = [block EXCEPT ![h] = NoBlock]
    /\ UNCHANGED <<free_list, heap_ptr, bytes, overrun>>

\* free(h): the size of the block is the free list entry of its first byte.
Free(h) ==
    /\ ~overrun /\ Live(h)
    /\ LET size == free_list[block[h].addr]
       IN IF block[h].addr + size <= HEAP_SIZE
          THEN /\ free_list' = Stamp(free_list, block[h].addr, 0, size)
               /\ block' = [block EXCEPT ![h] = NoBlock]
               /\ UNCHANGED overrun
          ELSE /\ overrun' = TRUE
               /\ UNCHANGED <<free_list, block>>
    /\ UNCHANGED <<heap_ptr, bytes>>

\* h = realloc(h, new_size): alloc, then copy as many bytes as the free list
\* says the old block has, then free the old block.
Realloc(h, new_size) ==
    /\ ~overrun /\ Live(h)
    /\ \E i \in 0..HEAP_SIZE :
          /\ FirstFit(i, new_size)
          /\ i + new_size <= HEAP_SIZE
          /\ LET list     == Stamp(free_list, i, new_size, new_size)
                 old      == block[h].addr
                 old_size == list[old]
             IN IF i + old_size <= HEAP_SIZE /\ old + old_size <= HEAP_SIZE
                THEN /\ heap_ptr' = i + new_size
                     /\ bytes' = CopyBytes(i, old, old_size)
                     /\ free_list' = Stamp(list, old, 0, old_size)
                     /\ block' = [block EXCEPT ![h] = [addr |-> i, size |-> new_size]]
                     /\ UNCHANGED overrun
                ELSE /\ overrun' = TRUE
                     /\ UNCHANGED <<free_list, heap_ptr, bytes, block>>

ReallocOverrun(h, new_size) ==
    /\ ~overrun /\ Live(h)
    /\ PastEnd(new_size)
    /\ overrun' = TRUE
    /\ UNCHANGED <<free_list, heap_ptr, bytes, block>>

\* The program writes a byte of a block it holds.
Write(h, k, v) ==
    /\ ~overrun /\ Live(h)
    /\ k < block[h].size
    /\ bytes' = [bytes EXCEPT ![block[h].addr + k] = v]
    /\ UNCHANGED <<free_list, heap_ptr, block, overrun>>

-----------------------------------------------------------------------------
(***************************************************************************)
(* Any program: blocks are allocated, reallocated and freed in any order.  *)
(***************************************************************************)
AllocStep == \E h \in Handles, size \in Sizes : Alloc(h, size) \/ AllocOverrun(h, size)
FreeStep == \E h \in Handles : Free(h)
ReallocStep == \E h \in Handles, size \in Sizes : Realloc(h, size) \/ ReallocOverrun(h, size)
WriteStep == \E h \in Handles, k \in Cell, v \in Byte : Write(h, k, v)

Next == AllocStep \/ FreeStep \/ ReallocStep \/ WriteStep

Spec == Init /\ [][Next]_vars

-----------------------------------------------------------------------------
(***************************************************************************)
(* Properties.                                                             *)
(***************************************************************************)

\* No byte belongs to two blocks that are held at the same time: alloc hands
\* out "a portion of memory" (lib/basic.ki:941), one nobody else has.
NoOverlap ==
    \A g, h \in Handles : g # h /\ Live(g) /\ Live(h) => Cells(g) \intersect Cells(h) = {}

\* The free list says of every byte whether it is held and how large its
\* block is: free and realloc take the size of a block from there.
FreeListExact ==
    /\ \A h \in Handles : \A c \in Cells(h) : free_list[c] = block[h].size
    /\ \A c \in Cell : free_list[c] # 0 => \E h \in Handles : c \in Cells(h)

\* The heap pointer is never inside or before a block that is held: the next
\* allocation that finds no gap is put there without looking.
PtrAboveLive == \A h \in Handles : Live(h) => End(h) <= heap_ptr

\* The bytes of each block, as the program that holds it reads them.
Contents == [h \in Handles |-> [k \in 0..block[h].size-1 |-> bytes[block[h].addr + k]]]

Store == INSTANCE KiStore WITH store <- Contents
StoreSpec == Store!Spec
=============================================================================
