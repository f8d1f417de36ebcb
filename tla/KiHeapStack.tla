----------------------------- MODULE KiHeapStack -----------------------------
(***************************************************************************)
(* The heap under a program that holds its blocks as a stack: it frees     *)
(* only the block it allocated last, and reallocates only that one, to     *)
(* grow it.  A buffer that grows leaves its former places behind as a gap; *)
(* the program grows it past the size of that gap (doubling does) and      *)
(* allocates nothing above it before it is freed.                          *)
(*                                                                         *)
(* This is the discipline under which the allocator keeps its promise:     *)
(* KiHeap's runs show that it breaks as soon as a gap is filled while a    *)
(* block above the gap is held.                                            *)
(***************************************************************************)
EXTENDS KiHeap, FiniteSets

VARIABLE
    outgrown    \* bytes of the places the topmost block was moved out of

stackVars == <<vars, outgrown>>

StackTypeOK == TypeOK /\ outgrown \in Nat

Top(h) ==
    /\ Live(h)
    /\ \A g \in Handles : g > h => ~Live(g)

\* The handle of the next block: all below it are held, none above it.
NextFree(h) ==
    /\ \A g \in Handles : g < h => Live(g)
    /\ \A g \in Handles : g > h => ~Live(g)

StackInit == Init /\ outgrown = 0

Push(h, size) ==
    /\ NextFree(h)
    /\ outgrown = 0
    /\ Alloc(h, size) \/ AllocOverrun(h, size)
    /\ UNCHANGED outgrown

Grow(h, size) ==
    /\ Top(h)
    /\ size > outgrown /\ size >= block[h].size
    /\ Realloc(h, size) \/ ReallocOverrun(h, size)
    /\ outgrown' = IF overrun' THEN outgrown ELSE outgrown + block[h].size

Pop(h) ==
    /\ Top(h)
    /\ Free(h)
    /\ outgrown' = 0

Fill(h, k, v) ==
    /\ Write(h, k, v)
    /\ UNCHANGED outgrown

StackNext ==
    \/ \E h \in Handles, size \in Sizes : Push(h, size)
    \/ \E h \in Handles, size \in Sizes : Grow(h, size)
    \/ \E h \in Handles : Pop(h)
    \/ \E h \in Handles, k \in Cell, v \in Byte : Fill(h, k, v)

StackSpec == StackInit /\ [][StackNext]_stackVars

-----------------------------------------------------------------------------
\* The blocks lie one after the other in the order of the stack.
Ordered == \A g, h \in Handles : g < h /\ Live(h) => Live(g) /\ End(g) <= block[h].addr

\* The topmost block lies past the places it was moved out of, and those past
\* the blocks below it; and no other byte below it is free, so that a search
\* for a gap finds none that a block of the program's sizes fits in.
Packed ==
    \A h \in Handles : Top(h) =>
        /\ outgrown <= block[h].addr
        /\ \A g \in Handles : g < h => End(g) <= block[h].addr - outgrown
        /\ \A c \in 0 .. block[h].addr - outgrown - 1 : \E g \in Handles : c \in Cells(g)

\* The bytes of the blocks held, and the places the topmost one was moved out of.
Taken == Cardinality(UNION {Cells(h) : h \in Handles}) + outgrown

\* An allocation runs past the end of the heap, which alloc does not check, exactly
\* when there is no room left for it: nothing is lost to blocks that were freed or
\* to a heap pointer that is never lowered.
OverrunWhenFull ==
    [][/\ \A h \in Handles, size \in Sizes :
            Push(h, size) \/ Grow(h, size) => (overrun' <=> Taken + size > HEAP_SIZE)
       /\ \A h \in Handles : Pop(h) => ~overrun']_stackVars

\* With no block held there is nothing that was outgrown.
NothingOutgrown == (\A h \in Handles : ~Live(h)) => outgrown = 0
=============================================================================
