----------------------------- MODULE KiHeapGap -----------------------------
(***************************************************************************)
(* The heap under any program, up to the first allocation that the search  *)
(* of alloc places in a gap below a block that is held.  Until then the    *)
(* heap keeps its promise, whatever the order of the calls: filling a gap  *)
(* is the only thing that breaks it (alloc then moves the heap pointer     *)
(* back, below blocks that are held).                                      *)
(***************************************************************************)
EXTENDS KiHeap

VARIABLE
    gap_filled  \* a block was placed below the end of a block then held

gapVars == <<vars, gap_filled>>

\* This step places a block below the end of a block that is held.
FillsGap ==
    \E g, h \in Handles :
        /\ block'[h] # block[h] /\ block'[h].size > 0
        /\ Live(g) /\ block'[h].addr < End(g)

GapInit == Init /\ gap_filled = FALSE

GapNext ==
    /\ ~gap_filled
    /\ Next
    /\ gap_filled' = FillsGap

GapSpec == GapInit /\ [][GapNext]_gapVars

-----------------------------------------------------------------------------
\* Until a gap is filled no byte has two owners, the free list is right about
\* every byte, and the heap pointer is past every block that is held.
SafeUntilGapFilled == ~gap_filled => NoOverlap /\ FreeListExact /\ PtrAboveLive

\* Until a gap is filled every step is one that private arrays could make.
StoreUntilGapFilled == Store!Init /\ [][~gap_filled' => [Store!Next]_Contents]_gapVars
=============================================================================
