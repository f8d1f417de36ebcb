---------------------------- MODULE KiHeapProofs ----------------------------
(***************************************************************************)
(* Proofs about the heap.  The lemmas say that an operation of the library *)
(* keeps the heap safe when it places no block below the end of one that   *)
(* is held; the theorems follow for the two ways a program can meet that   *)
(* condition, KiHeapGap (it holds as long as it holds) and KiHeapStack (a  *)
(* discipline on the order of the calls under which it always holds).      *)
(***************************************************************************)
EXTENDS KiHeapGap, KiHeapStack, FiniteSetTheorems, TLAPS

\* The inductive invariant of the heap.
SafeHeap == TypeOK /\ NoOverlap /\ FreeListExact /\ PtrAboveLive

\* The heap starts with nothing held.
LEMMA InitSafe == Init => SafeHeap
<1> SUFFICES ASSUME Init PROVE SafeHeap
  OBVIOUS
<1> USE HeapAssumption DEF Init, Handles, Cell, NoBlock
<1>1. TypeOK
  <2>1. 0 \in 0..HEAP_SIZE
    OBVIOUS
  <2>2. free_list \in [Cell -> 0..HEAP_SIZE] /\ heap_ptr \in 0..HEAP_SIZE /\ bytes \in [Cell -> Byte]
    BY <2>1
  <2>3. NoBlock \in [addr : 0..HEAP_SIZE, size : 0..HEAP_SIZE]
    BY <2>1
  <2>4. block \in [Handles -> [addr : 0..HEAP_SIZE, size : 0..HEAP_SIZE]]
    BY <2>3
  <2> QED
    BY <2>2, <2>4 DEF TypeOK
<1>2. \A h \in Handles : block[h].addr = 0 /\ block[h].size = 0
  OBVIOUS
<1>3. NoOverlap /\ FreeListExact /\ PtrAboveLive
  BY <1>2 DEF NoOverlap, FreeListExact, PtrAboveLive, Live, Cells, End
<1> QED
  BY <1>1, <1>3 DEF SafeHeap

\* The bytes a held block covers are bytes of the heap.
LEMMA CellsInHeap ==
  ASSUME SafeHeap, NEW h \in Handles
  PROVE  /\ Cells(h) \subseteq Cell
         /\ Live(h) <=> Cells(h) # {}
         /\ Live(h) => End(h) <= HEAP_SIZE
         /\ block[h].addr \in 0..HEAP_SIZE /\ block[h].size \in 0..HEAP_SIZE
<1>1. block[h].addr \in 0..HEAP_SIZE /\ block[h].size \in 0..HEAP_SIZE
  BY DEF SafeHeap, TypeOK
<1>2. Live(h) => End(h) <= heap_ptr /\ heap_ptr <= HEAP_SIZE
  BY HeapAssumption DEF SafeHeap, TypeOK, PtrAboveLive
<1>3. Live(h) => block[h].addr \in Cells(h)
  BY <1>1, HeapAssumption DEF Live, Cells, End
<1>4. ~Live(h) => Cells(h) = {}
  BY <1>1, HeapAssumption DEF Live, Cells, End
<1>5. Cells(h) \subseteq Cell
  <2>1. CASE Live(h)
    BY <2>1, <1>1, <1>2, HeapAssumption DEF SafeHeap, TypeOK, Cells, End, Cell
  <2> QED
    BY <2>1, <1>4
<1>6. Live(h) <=> Cells(h) # {}
  BY <1>3, <1>4
<1>7. Live(h) => End(h) <= HEAP_SIZE
  BY <1>1, <1>2, HeapAssumption DEF SafeHeap, TypeOK, End
<1> QED
  BY <1>1, <1>5, <1>6, <1>7

\* A block placed past the ends of all held blocks, with the free list stamped
\* and the heap pointer moved to its end, leaves a safe heap.
LEMMA AllocSafe ==
  ASSUME SafeHeap, NEW h \in Handles, NEW size \in Sizes, Alloc(h, size), ~FillsGap
  PROVE  SafeHeap'
<1> USE HeapAssumption
<1>1. PICK i \in 0..HEAP_SIZE :
        /\ i + size <= HEAP_SIZE
        /\ heap_ptr' = i + size
        /\ free_list' = Stamp(free_list, i, size, size)
        /\ block' = [block EXCEPT ![h] = [addr |-> i, size |-> size]]
  BY DEF Alloc
<1>2. ~Live(h) /\ bytes' = bytes /\ overrun' = overrun
  BY DEF Alloc
<1>3. size \in Nat \ {0} /\ size <= HEAP_SIZE
  BY <1>1
<1>4. block'[h] = [addr |-> i, size |-> size] /\ \A g \in Handles : g # h => block'[g] = block[g]
  BY <1>1 DEF SafeHeap, TypeOK
<1>5. \A g \in Handles : Live(g) => End(g) <= i
  <2>1. block'[h] # block[h]
    BY <1>2, <1>3, <1>4 DEF Live
  <2> QED
    BY <2>1, <1>3, <1>4, CellsInHeap DEF FillsGap, End
<1>6. TypeOK'
  BY <1>1, <1>2, <1>3 DEF SafeHeap, TypeOK, Stamp, Cell
<1>7. Cells(h)' = i..i+size-1 /\ \A g \in Handles : g # h => Cells(g)' = Cells(g) /\ Live(g)' = Live(g)
                                                             /\ End(g)' = End(g)
  BY <1>4 DEF Cells, End, Live
<1>8. \A g \in Handles : g # h => Cells(g) \intersect (i..i+size-1) = {}
  BY <1>3, <1>5, CellsInHeap DEF Cells, End
<1>9. NoOverlap'
  BY <1>7, <1>8 DEF NoOverlap, SafeHeap
<1>10. FreeListExact'
  <2>1. \A c \in Cell : free_list'[c] = IF i <= c /\ c < i + size THEN size ELSE free_list[c]
    BY <1>1 DEF Stamp
  <2>2. \A g \in Handles : \A c \in Cells(g)' : free_list'[c] = block'[g].size
    <3> SUFFICES ASSUME NEW g \in Handles, NEW c \in Cells(g)' PROVE free_list'[c] = block'[g].size
      OBVIOUS
    <3>1. CASE g = h
      BY <3>1, <1>1, <1>3, <1>4, <1>7, <2>1 DEF Cell
    <3>2. CASE g # h
      <4>1. c \in Cells(g) /\ c \in Cell /\ c \notin i..i+size-1
        BY <3>2, <1>7, <1>8, CellsInHeap
      <4>2. free_list'[c] = free_list[c]
        BY <4>1, <1>3, <2>1 DEF Cell
      <4> QED
        BY <3>2, <4>1, <4>2, <1>4 DEF SafeHeap, FreeListExact
    <3> QED
      BY <3>1, <3>2
  <2>3. \A c \in Cell : free_list'[c] # 0 => \E g \in Handles : c \in Cells(g)'
    <3> SUFFICES ASSUME NEW c \in Cell, free_list'[c] # 0 PROVE \E g \in Handles : c \in Cells(g)'
      OBVIOUS
    <3>1. CASE c \in i..i+size-1
      BY <3>1, <1>7
    <3>2. CASE c \notin i..i+size-1
      <4>1. free_list[c] # 0
        BY <3>2, <2>1, <1>3 DEF Cell
      <4>2. PICK g \in Handles : c \in Cells(g)
        BY <4>1 DEF SafeHeap, FreeListExact
      <4>3. g # h
        BY <4>2, <1>2, CellsInHeap
      <4> QED
        BY <4>2, <4>3, <1>7
    <3> QED
      BY <3>1, <3>2
  <2> QED
    BY <2>2, <2>3 DEF FreeListExact
<1>11. PtrAboveLive'
  <2> SUFFICES ASSUME NEW g \in Handles, Live(g)' PROVE End(g)' <= heap_ptr'
    BY DEF PtrAboveLive
  <2>1. CASE g = h
    BY <2>1, <1>1, <1>4 DEF End
  <2>2. CASE g # h
    <3>1. End(g)' = End(g) /\ End(g) <= i /\ End(g) \in Nat
      BY <2>2, <1>5, <1>7, CellsInHeap DEF End
    <3> QED
      BY <3>1, <1>1, <1>3
  <2> QED
    BY <2>1, <2>2
<1> QED
  BY <1>6, <1>9, <1>10, <1>11 DEF SafeHeap

\* Freeing a held block clears exactly the free list entries of its bytes.
LEMMA FreeSafe ==
  ASSUME SafeHeap, NEW h \in Handles, Free(h)
  PROVE  /\ SafeHeap'
         /\ block' = [block EXCEPT ![h] = NoBlock]
         /\ free_list' = Stamp(free_list, block[h].addr, 0, block[h].size)
         /\ overrun' = FALSE
<1> USE HeapAssumption
<1>1. /\ Live(h) /\ block[h].addr \in Cells(h) /\ block[h].addr \in Cell
      /\ block[h].size \in Nat /\ block[h].addr \in Nat /\ End(h) <= HEAP_SIZE
  BY CellsInHeap DEF Free, Live, Cells, End
<1>2. free_list[block[h].addr] = block[h].size
  BY <1>1 DEF SafeHeap, FreeListExact
<1>3. /\ free_list' = Stamp(free_list, block[h].addr, 0, block[h].size)
      /\ block' = [block EXCEPT ![h] = NoBlock]
      /\ heap_ptr' = heap_ptr /\ bytes' = bytes /\ overrun' = FALSE
  BY <1>1, <1>2 DEF Free, End
<1>4. TypeOK'
  <2>1. 0 \in 0..HEAP_SIZE
    OBVIOUS
  <2>2. free_list' \in [Cell -> 0..HEAP_SIZE]
    BY <1>3, <2>1 DEF SafeHeap, TypeOK, Stamp
  <2>3. NoBlock \in [addr : 0..HEAP_SIZE, size : 0..HEAP_SIZE]
    BY <2>1 DEF NoBlock
  <2>4. block' \in [Handles -> [addr : 0..HEAP_SIZE, size : 0..HEAP_SIZE]]
    BY <1>3, <2>3 DEF SafeHeap, TypeOK
  <2> QED
    BY <2>2, <2>4, <1>3 DEF SafeHeap, TypeOK
<1>5. /\ ~Live(h)' /\ Cells(h)' = {}
      /\ \A g \in Handles : g # h => /\ block'[g] = block[g] /\ Cells(g)' = Cells(g)
                                     /\ Live(g)' = Live(g) /\ End(g)' = End(g)
  BY <1>3 DEF SafeHeap, TypeOK, NoBlock, Live, Cells, End
<1>6. NoOverlap' /\ PtrAboveLive'
  BY <1>3, <1>5 DEF SafeHeap, NoOverlap, PtrAboveLive
<1>7. \A c \in Cell : free_list'[c] = IF c \in Cells(h) THEN 0 ELSE free_list[c]
  BY <1>1, <1>3 DEF Stamp, Cells, End, Cell
<1>8. FreeListExact'
  <2>1. ASSUME NEW g \in Handles, NEW c \in Cells(g)' PROVE free_list'[c] = block'[g].size
    <3>1. g # h /\ c \in Cells(g) /\ c \in Cell /\ Live(g)
      BY <2>1, <1>5, CellsInHeap
    <3>2. c \notin Cells(h)
      BY <3>1, <1>1 DEF SafeHeap, NoOverlap
    <3> QED
      BY <3>1, <3>2, <1>5, <1>7 DEF SafeHeap, FreeListExact
  <2>2. ASSUME NEW c \in Cell, free_list'[c] # 0 PROVE \E g \in Handles : c \in Cells(g)'
    <3>1. free_list[c] # 0 /\ c \notin Cells(h)
      BY <2>2, <1>7
    <3>2. PICK g \in Handles : c \in Cells(g)
      BY <3>1 DEF SafeHeap, FreeListExact
    <3> QED
      BY <3>1, <3>2, <1>5
  <2> QED
    BY <2>1, <2>2 DEF FreeListExact
<1> QED
  BY <1>3, <1>4, <1>6, <1>8 DEF SafeHeap

\* What a realloc that does not run past the end of the heap does, when it
\* places the new block past the ends of all held ones: the bytes of the old
\* block are copied as they were, to places nobody holds.
LEMMA ReallocEffect ==
  ASSUME SafeHeap, NEW h \in Handles, NEW size \in Sizes, Realloc(h, size), ~FillsGap,
         overrun' = FALSE
  PROVE  \E i \in 0..HEAP_SIZE :
           /\ \A g \in Handles : Live(g) => End(g) <= i
           /\ i + size <= HEAP_SIZE /\ i + block[h].size <= HEAP_SIZE
           /\ heap_ptr' = i + size
           /\ bytes' = CopyBytes(i, block[h].addr, block[h].size)
           /\ free_list' = Stamp(Stamp(free_list, i, size, size), block[h].addr, 0, block[h].size)
           /\ block' = [block EXCEPT ![h] = [addr |-> i, size |-> size]]
<1> USE HeapAssumption
<1> DEFINE old == block[h].addr
           list(i) == Stamp(free_list, i, size, size)
<1>1. PICK i \in 0..HEAP_SIZE :
        /\ FirstFit(i, size)
        /\ i + size <= HEAP_SIZE
        /\ i + list(i)[old] <= HEAP_SIZE
        /\ heap_ptr' = i + size
        /\ bytes' = CopyBytes(i, old, list(i)[old])
        /\ free_list' = Stamp(list(i), old, 0, list(i)[old])
        /\ block' = [block EXCEPT ![h] = [addr |-> i, size |-> size]]
  BY DEF Realloc
<1>2. Live(h) /\ size \in Nat \ {0}
  BY DEF Realloc
<1>3. block'[h] = [addr |-> i, size |-> size]
  BY <1>1 DEF SafeHeap, TypeOK
<1>4. old \in Cells(h) /\ old \in Cell /\ old < End(h) /\ End(h) \in Nat
  BY <1>2, CellsInHeap DEF Cells, End, Live
<1>5. \A g \in Handles : Live(g) => End(g) <= i
  <2>1. block'[h] # block[h]
    <3>1. free_list[old] # 0
      BY <1>2, <1>4 DEF SafeHeap, FreeListExact, Live
    <3>2. old \notin Gaps(size)
      <4>1. 0 \in 0..size-1 /\ old + 0 = old
        BY <1>2, CellsInHeap
      <4> QED
        BY <4>1, <3>1 DEF Gaps
    <3>3. old # heap_ptr
      BY <1>2, <1>4 DEF SafeHeap, PtrAboveLive, TypeOK, Cell
    <3> QED
      BY <1>1, <1>3, <3>2, <3>3 DEF FirstFit
  <2> QED
    BY <2>1, <1>2, <1>3, CellsInHeap DEF FillsGap, End
<1>6. list(i)[old] = block[h].size
  BY <1>2, <1>4, <1>5, CellsInHeap DEF Stamp, SafeHeap, FreeListExact, Cell
<1> QED
  BY <1>1, <1>5, <1>6

\* A number below the divisor is its own remainder.
LEMMA SmallMod == ASSUME NEW a \in Nat, NEW b \in Nat, a < b PROVE a % b = a
  OBVIOUS

\* Copying upwards to a place past the end of the source copies it exactly.
LEMMA CopyExact ==
  ASSUME TypeOK, NEW to \in Nat, NEW from \in Nat, NEW count \in Nat \ {0},
         from + count <= to, to + count <= HEAP_SIZE
  PROVE  /\ CopyBytes(to, from, count) \in [Cell -> Byte]
         /\ \A k \in 0..count-1 : CopyBytes(to, from, count)[to + k] = bytes[from + k]
         /\ \A c \in Cell : c < to => CopyBytes(to, from, count)[c] = bytes[c]
<1> USE HeapAssumption
<1>1. ASSUME NEW c \in Cell, to <= c, c < to + count
      PROVE  /\ from < to /\ from + (c - to) \in Cell
             /\ (c - to) % (to - from) = c - to
  <2>1. c - to \in Nat /\ to - from \in Nat /\ c - to < to - from
    BY <1>1 DEF Cell
  <2>2. (c - to) % (to - from) = c - to
    BY <2>1, SmallMod
  <2> QED
    BY <2>1, <2>2, <1>1 DEF Cell
<1>2. \A c \in Cell : CopyBytes(to, from, count)[c] =
          IF to <= c /\ c < to + count THEN bytes[from + (c - to)] ELSE bytes[c]
  BY <1>1 DEF CopyBytes
<1>3. CopyBytes(to, from, count) \in [Cell -> Byte]
  <2>1. \A c \in Cell : CopyBytes(to, from, count)[c] \in Byte
    BY <1>1, <1>2 DEF TypeOK
  <2> QED
    BY <2>1 DEF CopyBytes
<1>4. ASSUME NEW k \in 0..count-1 PROVE CopyBytes(to, from, count)[to + k] = bytes[from + k]
  <2>1. to + k \in Cell /\ (to + k) - to = k
    BY DEF Cell
  <2> QED
    BY <2>1, <1>2
<1> QED
  BY <1>2, <1>3, <1>4 DEF Cell

\* A realloc that fills no gap keeps the heap safe.
LEMMA ReallocSafe ==
  ASSUME SafeHeap, NEW h \in Handles, NEW size \in Sizes, Realloc(h, size), ~FillsGap,
         overrun' = FALSE
  PROVE  SafeHeap'
<1> USE HeapAssumption
<1> DEFINE old == block[h].addr
           old_size == block[h].size
<1>1. PICK i \in 0..HEAP_SIZE :
        /\ \A g \in Handles : Live(g) => End(g) <= i
        /\ i + size <= HEAP_SIZE /\ i + old_size <= HEAP_SIZE
        /\ heap_ptr' = i + size
        /\ bytes' = CopyBytes(i, old, old_size)
        /\ free_list' = Stamp(Stamp(free_list, i, size, size), old, 0, old_size)
        /\ block' = [block EXCEPT ![h] = [addr |-> i, size |-> size]]
  BY ReallocEffect
<1>2. /\ Live(h) /\ size \in Nat \ {0} /\ size <= HEAP_SIZE
      /\ old \in Nat /\ old_size \in Nat \ {0} /\ old + old_size <= i
  BY <1>1, CellsInHeap DEF Realloc, Live, End
<1>3. /\ block'[h] = [addr |-> i, size |-> size]
      /\ Cells(h)' = i..i+size-1 /\ Live(h)' /\ End(h)' = i + size
      /\ \A g \in Handles : g # h => /\ block'[g] = block[g] /\ Cells(g)' = Cells(g)
                                     /\ Live(g)' = Live(g) /\ End(g)' = End(g)
  BY <1>1, <1>2 DEF SafeHeap, TypeOK, Live, Cells, End
<1>4. TypeOK'
  <2>1. 0 \in 0..HEAP_SIZE /\ size \in 0..HEAP_SIZE
    BY <1>2
  <2>2. free_list' \in [Cell -> 0..HEAP_SIZE]
    BY <1>1, <2>1 DEF SafeHeap, TypeOK, Stamp
  <2>3. bytes' \in [Cell -> Byte]
    BY <1>1, <1>2, CopyExact DEF SafeHeap
  <2>4. block' \in [Handles -> [addr : 0..HEAP_SIZE, size : 0..HEAP_SIZE]]
    BY <1>1, <2>1 DEF SafeHeap, TypeOK
  <2> QED
    <3>1. heap_ptr' \in 0..HEAP_SIZE
      BY <1>1, <1>2
    <3> QED
      BY <2>2, <2>3, <2>4, <3>1, Zenon DEF TypeOK
<1>5. \A g \in Handles : Cells(g) \intersect (i..i+size-1) = {}
  BY <1>1, <1>2, CellsInHeap DEF Cells, End
<1>6. NoOverlap'
  BY <1>3, <1>5 DEF SafeHeap, NoOverlap
<1>7. \A c \in Cell : free_list'[c] = IF c \in Cells(h) THEN 0
                                      ELSE IF c \in i..i+size-1 THEN size ELSE free_list[c]
  BY <1>1, <1>2 DEF Stamp, Cells, End, Cell
<1>8. FreeListExact'
  <2>1. ASSUME NEW g \in Handles, NEW c \in Cells(g)' PROVE free_list'[c] = block'[g].size
    <3>1. CASE g = h
      <4>1. c \in Cell /\ c \in i..i+size-1 /\ c \notin Cells(h)
        BY <2>1, <3>1, <1>1, <1>2, <1>3, <1>5 DEF Cell
      <4> QED
        BY <4>1, <3>1, <1>3, <1>7
    <3>2. CASE g # h
      <4>1. c \in Cells(g) /\ c \in Cell /\ Live(g)
        BY <2>1, <3>2, <1>3, CellsInHeap
      <4>2. c \notin Cells(h) /\ c \notin i..i+size-1
        BY <3>2, <4>1, <1>2, <1>5 DEF SafeHeap, NoOverlap
      <4> QED
        BY <3>2, <4>1, <4>2, <1>3, <1>7 DEF SafeHeap, FreeListExact
    <3> QED
      BY <3>1, <3>2
  <2>2. ASSUME NEW c \in Cell, free_list'[c] # 0 PROVE \E g \in Handles : c \in Cells(g)'
    <3>1. CASE c \in i..i+size-1
      BY <3>1, <1>3
    <3>2. CASE c \notin i..i+size-1
      <4>1. free_list[c] # 0 /\ c \notin Cells(h)
        BY <2>2, <3>2, <1>7
      <4>2. PICK g \in Handles : c \in Cells(g)
        BY <4>1 DEF SafeHeap, FreeListExact
      <4> QED
        BY <4>1, <4>2, <1>3
    <3> QED
      BY <3>1, <3>2
  <2> QED
    BY <2>1, <2>2 DEF FreeListExact
<1>9. PtrAboveLive'
  <2> SUFFICES ASSUME NEW g \in Handles, Live(g)' PROVE End(g)' <= heap_ptr'
    BY DEF PtrAboveLive
  <2>1. CASE g = h
    BY <2>1, <1>1, <1>3
  <2>2. CASE g # h
    <3>1. End(g)' = End(g) /\ End(g) <= i /\ End(g) \in Nat
      BY <2>2, <1>1, <1>3, CellsInHeap DEF End
    <3> QED
      BY <3>1, <1>1, <1>2
  <2> QED
    BY <2>1, <2>2
<1> QED
  BY <1>4, <1>6, <1>8, <1>9 DEF SafeHeap

\* A write stays inside the block it goes to.
LEMMA WriteSafe ==
  ASSUME SafeHeap, NEW h \in Handles, NEW k \in Cell, NEW v \in Byte, Write(h, k, v)
  PROVE  SafeHeap'
<1>1. /\ free_list' = free_list /\ heap_ptr' = heap_ptr /\ block' = block /\ overrun' = overrun
      /\ bytes' = [bytes EXCEPT ![block[h].addr + k] = v]
  BY DEF Write
<1>2. TypeOK'
  BY <1>1 DEF SafeHeap, TypeOK
<1> QED
  BY <1>1, <1>2 DEF SafeHeap, NoOverlap, FreeListExact, PtrAboveLive, Live, Cells, End

\* What leaves the heap unchanged, an overrun included, leaves it safe.
LEMMA StutterSafe ==
  ASSUME SafeHeap, UNCHANGED <<free_list, heap_ptr, bytes, block>>, overrun' \in BOOLEAN
  PROVE  SafeHeap'
BY DEF SafeHeap, TypeOK, NoOverlap, FreeListExact, PtrAboveLive, Live, Cells, End

\* A realloc past the end of the heap changes no block.
LEMMA ReallocOverrunStutters ==
  ASSUME NEW h \in Handles, NEW size \in Sizes, Realloc(h, size), overrun' # FALSE,
         overrun \in BOOLEAN
  PROVE  UNCHANGED <<free_list, heap_ptr, bytes, block>> /\ overrun' \in BOOLEAN
<1> DEFINE old == block[h].addr
           old_size(i) == Stamp(free_list, i, size, size)[old]
           Fits(i) == i + old_size(i) <= HEAP_SIZE /\ old + old_size(i) <= HEAP_SIZE
<1>1. overrun = FALSE
  BY DEF Realloc
<1>2. PICK i \in 0..HEAP_SIZE :
        IF Fits(i) THEN overrun' = overrun
                   ELSE overrun' = TRUE /\ UNCHANGED <<free_list, heap_ptr, bytes, block>>
  BY DEF Realloc
<1>3. CASE Fits(i)
  BY <1>1, <1>2, <1>3
<1>4. CASE ~Fits(i)
  BY <1>2, <1>4
<1> QED
  BY <1>3, <1>4

\* Every step of any program that places no block below the end of a held one
\* leaves a safe heap.
LEMMA StepSafe ==
  ASSUME SafeHeap, [Next]_vars, ~FillsGap
  PROVE  SafeHeap'
<1> USE HeapAssumption
<1>1. ASSUME NEW h \in Handles, NEW size \in Sizes, Alloc(h, size) \/ AllocOverrun(h, size)
      PROVE  SafeHeap'
  <2>1. CASE Alloc(h, size)
    BY <2>1, AllocSafe
  <2>2. CASE AllocOverrun(h, size)
    BY <2>2, StutterSafe DEF AllocOverrun
  <2> QED
    BY <1>1, <2>1, <2>2
<1>2. ASSUME NEW h \in Handles, Free(h) PROVE SafeHeap'
  BY <1>2, FreeSafe
<1>3. ASSUME NEW h \in Handles, NEW size \in Sizes, Realloc(h, size) \/ ReallocOverrun(h, size)
      PROVE  SafeHeap'
  <2>1. CASE Realloc(h, size) /\ overrun' = FALSE
    BY <2>1, ReallocSafe
  <2>2. CASE Realloc(h, size) /\ overrun' # FALSE
    BY <2>2, ReallocOverrunStutters, StutterSafe DEF SafeHeap, TypeOK
  <2>3. CASE ReallocOverrun(h, size)
    BY <2>3, StutterSafe DEF ReallocOverrun
  <2> QED
    BY <1>3, <2>1, <2>2, <2>3
<1>4. ASSUME NEW h \in Handles, NEW k \in Cell, NEW v \in Byte, Write(h, k, v) PROVE SafeHeap'
  BY <1>4, WriteSafe
<1>5. CASE UNCHANGED vars
  BY <1>5, StutterSafe DEF vars, SafeHeap, TypeOK
<1> QED
  BY <1>1, <1>2, <1>3, <1>4, <1>5 DEF Next, AllocStep, FreeStep, ReallocStep, WriteStep

\* SafeUntilGapFilled for every heap size, number of blocks and set of sizes:
\* under any order of calls of alloc, realloc and free, no byte has two owners
\* and the free list is right until alloc fills a gap below a held block.
THEOREM GapSafety == GapSpec => []SafeUntilGapFilled
<1> DEFINE Inv == gap_filled \in BOOLEAN /\ (~gap_filled => SafeHeap)
<1>1. GapInit => Inv
  BY InitSafe DEF GapInit
<1>2. ASSUME Inv, [GapNext]_gapVars PROVE Inv'
  <2>1. CASE GapNext
    <3>1. SafeHeap /\ Next /\ gap_filled' = FillsGap
      BY <1>2, <2>1 DEF GapNext
    <3>2. gap_filled' \in BOOLEAN
      BY <3>1, Zenon DEF FillsGap
    <3>3. ~gap_filled' => SafeHeap'
      BY <3>1, StepSafe
    <3> QED
      BY <3>2, <3>3
  <2>2. CASE UNCHANGED gapVars
    <3>1. gap_filled' = gap_filled /\ UNCHANGED vars
      BY <2>2 DEF gapVars
    <3>2. SafeHeap => SafeHeap'
      BY <3>1, StutterSafe DEF vars, SafeHeap, TypeOK
    <3> QED
      BY <1>2, <3>1, <3>2
  <2> QED
    BY <1>2, <2>1, <2>2
<1>3. Inv => SafeUntilGapFilled
  BY DEF SafeUntilGapFilled, SafeHeap
<1> QED
  BY <1>1, <1>2, <1>3, PTL DEF GapSpec

-----------------------------------------------------------------------------
(***************************************************************************)
(* The stack discipline.                                                   *)
(***************************************************************************)

StackInv == SafeHeap /\ outgrown \in Nat /\ Ordered /\ Packed /\ NothingOutgrown

\* A byte of a held block is not free; a byte no block holds is.
LEMMA HeldByte ==
  ASSUME SafeHeap, NEW c \in Cell
  PROVE  free_list[c] # 0 <=> \E g \in Handles : c \in Cells(g)
<1>1. ASSUME NEW g \in Handles, c \in Cells(g) PROVE free_list[c] # 0
  BY <1>1, CellsInHeap DEF SafeHeap, FreeListExact, Live
<1> QED
  BY <1>1 DEF SafeHeap, FreeListExact

\* If E is past every held block and the search finds nothing before E, the
\* block is put at E: the bytes from E on are free.
LEMMA LandsAtEnd ==
  ASSUME SafeHeap, NEW size \in Sizes, NEW i \in 0..HEAP_SIZE, FirstFit(i, size),
         i + size <= HEAP_SIZE,
         NEW E \in 0..heap_ptr, \A g \in Handles : Live(g) => End(g) <= E, E <= i
  PROVE  i = E
<1> USE HeapAssumption
<1>1. heap_ptr \in Nat /\ size \in Nat \ {0} /\ E \in Nat
  BY DEF SafeHeap, TypeOK
<1>2. ASSUME NEW c \in Cell, c >= E PROVE free_list[c] = 0
  <2>1. \A g \in Handles : c \notin Cells(g)
    BY <1>1, <1>2, CellsInHeap DEF Cells, End, Cell
  <2> QED
    BY <2>1, HeldByte
<1>3. E < heap_ptr => E \in Gaps(size)
  <2> SUFFICES ASSUME E < heap_ptr PROVE E \in Gaps(size)
    OBVIOUS
  <2>1. E + size <= HEAP_SIZE
    BY <1>1
  <2>2. \A j \in 0..size-1 : E + j \in Cell /\ E + j >= E
    BY <1>1, <2>1 DEF Cell
  <2>3. \A j \in 0..size-1 : free_list[E + j] = 0
    BY <1>2, <2>2
  <2> QED
    BY <1>1, <2>1, <2>3 DEF Gaps
<1>4. i < heap_ptr \/ i = heap_ptr
  BY <1>1 DEF FirstFit, Gaps
<1>5. CASE E < heap_ptr
  BY <1>1, <1>3, <1>5 DEF FirstFit
<1>6. CASE E = heap_ptr
  BY <1>1, <1>4, <1>6
<1> QED
  BY <1>1, <1>5, <1>6

\* The search of alloc finds no gap below E if every byte below E is held.
LEMMA NoGapBelow ==
  ASSUME SafeHeap, NEW size \in Sizes, NEW i \in 0..HEAP_SIZE, FirstFit(i, size),
         NEW E \in 0..heap_ptr, \A c \in 0..E-1 : \E g \in Handles : c \in Cells(g)
  PROVE  E <= i
<1> USE HeapAssumption
<1>1. heap_ptr \in Nat /\ heap_ptr <= HEAP_SIZE /\ size \in Nat \ {0}
  BY DEF SafeHeap, TypeOK
<1>2. CASE i \in Gaps(size)
  <2>1. 0 \in 0..size-1 /\ i + 0 = i
    BY <1>1
  <2>2. i \in Cell /\ free_list[i] = 0
    BY <1>1, <1>2, <2>1 DEF Gaps, Cell
  <2>3. ~ \E g \in Handles : i \in Cells(g)
    BY <2>2, HeldByte
  <2> QED
    BY <2>3
<1>3. CASE i = heap_ptr
  BY <1>1, <1>3
<1> QED
  BY <1>2, <1>3 DEF FirstFit

\* A topmost block covers, with the blocks below it, all but outgrown bytes.
LEMMA TopCovers ==
  ASSUME StackInv, NEW h \in Handles, Top(h)
  PROVE  /\ End(h) \in 0..heap_ptr
         /\ \A g \in Handles : Live(g) => End(g) <= End(h)
         /\ \A c \in 0..End(h)-1 : \/ \E g \in Handles : c \in Cells(g)
                                   \/ block[h].addr - outgrown <= c /\ c < block[h].addr
<1> USE HeapAssumption
<1>1. Live(h) /\ block[h].addr \in Nat /\ block[h].size \in Nat \ {0} /\ outgrown \in Nat
  BY CellsInHeap DEF StackInv, Top, Live
<1>2. End(h) \in 0..heap_ptr
  BY <1>1 DEF StackInv, SafeHeap, TypeOK, PtrAboveLive, End
<1>3. ASSUME NEW g \in Handles, Live(g) PROVE End(g) <= End(h)
  <2>1. g < h \/ g = h \/ g > h
    BY DEF Handles
  <2>2. CASE g < h
    <3>1. End(g) <= block[h].addr /\ End(g) \in Int
      BY <2>2, <1>1, <1>3, CellsInHeap DEF StackInv, Ordered, End
    <3> QED
      BY <3>1, <1>1 DEF End
  <2>3. CASE g > h
    BY <2>3, <1>3 DEF Top
  <2>4. CASE g = h
    BY <2>4, <1>2
  <2> QED
    BY <2>1, <2>2, <2>3, <2>4
<1>4. ASSUME NEW c \in 0..End(h)-1
      PROVE  \/ \E g \in Handles : c \in Cells(g)
             \/ block[h].addr - outgrown <= c /\ c < block[h].addr
  <2>1. CASE c >= block[h].addr
    BY <2>1, <1>1 DEF Cells
  <2>2. CASE c < block[h].addr - outgrown
    BY <2>2, <1>1 DEF StackInv, Packed
  <2> QED
    BY <2>1, <2>2, <1>1
<1> QED
  BY <1>2, <1>3, <1>4

\* A new block of the stack is put right at the end of the topmost one.
LEMMA PushLands ==
  ASSUME StackInv, NEW h \in Handles, NEW size \in Sizes, NextFree(h), ~Live(h), outgrown = 0,
         NEW i \in 0..HEAP_SIZE, FirstFit(i, size), i + size <= HEAP_SIZE
  PROVE  /\ \A g \in Handles : Live(g) => End(g) <= i
         /\ \A c \in 0..i-1 : \E g \in Handles : c \in Cells(g)
<1> USE HeapAssumption
<1>1. SafeHeap /\ heap_ptr \in Nat
  BY DEF StackInv, SafeHeap, TypeOK
<1>2. CASE h = 1
  <2>1. \A g \in Handles : ~Live(g)
    BY <1>2 DEF NextFree, Handles
  <2>2. i = 0
    BY <1>1, <2>1, LandsAtEnd
  <2> QED
    BY <2>1, <2>2
<1>3. CASE h # 1
  <2>1. h - 1 \in Handles /\ h - 1 < h /\ \A g \in Handles : g > h - 1 => g = h \/ g > h
    BY <1>3 DEF Handles
  <2>2. Top(h - 1)
    BY <2>1 DEF NextFree, Top
  <2>3. /\ End(h - 1) \in 0..heap_ptr
        /\ \A g \in Handles : Live(g) => End(g) <= End(h - 1)
        /\ \A c \in 0..End(h - 1)-1 : \E g \in Handles : c \in Cells(g)
    <3>1. block[h - 1].addr \in Nat
      BY <1>1, <2>1, CellsInHeap
    <3> QED
      BY <2>1, <2>2, <3>1, TopCovers
  <2>4. End(h - 1) <= i
    BY <1>1, <2>3, NoGapBelow
  <2>5. i = End(h - 1)
    BY <1>1, <2>3, <2>4, LandsAtEnd
  <2> QED
    BY <2>3, <2>5
<1> QED
  BY <1>2, <1>3

\* A topmost block that grows past what it has outgrown is moved right to its
\* own end: the places it left are too few for it.
LEMMA GrowLands ==
  ASSUME StackInv, NEW h \in Handles, NEW size \in Sizes, Top(h), size > outgrown,
         NEW i \in 0..HEAP_SIZE, FirstFit(i, size), i + size <= HEAP_SIZE
  PROVE  i = End(h)
<1> USE HeapAssumption
<1>1. /\ SafeHeap /\ heap_ptr \in Nat /\ heap_ptr <= HEAP_SIZE /\ Live(h) /\ outgrown \in Nat
      /\ block[h].addr \in Nat /\ block[h].size \in Nat \ {0} /\ size \in Nat \ {0}
  BY CellsInHeap DEF StackInv, SafeHeap, TypeOK, Top, Live
<1>2. End(h) <= i
  <2> SUFFICES ASSUME i < End(h) PROVE FALSE
    BY <1>1 DEF End
  <2>1. i < heap_ptr
    BY <1>1, TopCovers
  <2>2. i \in Gaps(size)
    BY <1>1, <2>1 DEF FirstFit
  <2>3. \A j \in 0..size-1 : free_list[i + j] = 0
    BY <2>2 DEF Gaps
  <2>4. \A c \in i..i+size-1 : free_list[c] = 0
    <3>1. \A c \in i..i+size-1 : c - i \in 0..size-1 /\ i + (c - i) = c
      BY <1>1
    <3> QED
      BY <2>3, <3>1
  <2>5. i \in Cell /\ \A g \in Handles : i \notin Cells(g)
    BY <1>1, <2>1, <2>4, HeldByte DEF Cell
  <2>6. block[h].addr - outgrown <= i /\ i < block[h].addr
    BY <1>1, <2>5, TopCovers
  <2>7. block[h].addr \in i..i+size-1 /\ block[h].addr \in Cell /\ block[h].addr \in Cells(h)
    BY <1>1, <2>6 DEF Cell, Cells, End
  <2> QED
    BY <1>1, <2>4, <2>7, HeldByte
<1> QED
  BY <1>1, <1>2, TopCovers, LandsAtEnd

\* A step that leaves the blocks and what was outgrown alone keeps the stack.
LEMMA SameStack ==
  ASSUME StackInv, SafeHeap', block' = block, outgrown' = outgrown
  PROVE  StackInv'
BY DEF StackInv, Ordered, Packed, NothingOutgrown, Top, Live, Cells, End

\* Allocating on top of the stack of blocks keeps the invariant.
LEMMA PushStep ==
  ASSUME StackInv, NEW h \in Handles, NEW size \in Sizes, Push(h, size)
  PROVE  StackInv'
<1> USE HeapAssumption
<1>0. SafeHeap /\ outgrown' = outgrown /\ outgrown = 0
  BY DEF StackInv, Push
<1>1. CASE AllocOverrun(h, size)
  <2>1. SafeHeap' /\ block' = block
    BY <1>0, <1>1, StutterSafe DEF AllocOverrun
  <2> QED
    BY <1>0, <2>1, SameStack
<1>2. CASE Alloc(h, size)
  <2>1. PICK i \in 0..HEAP_SIZE :
          /\ FirstFit(i, size) /\ i + size <= HEAP_SIZE
          /\ block' = [block EXCEPT ![h] = [addr |-> i, size |-> size]]
    BY <1>2 DEF Alloc
  <2>2. ~Live(h) /\ NextFree(h) /\ size \in Nat \ {0}
    BY <1>2 DEF Alloc, Push
  <2>3. /\ \A g \in Handles : Live(g) => End(g) <= i
        /\ \A c \in 0..i-1 : \E g \in Handles : c \in Cells(g)
    BY <1>0, <2>1, <2>2, PushLands
  <2>4. /\ block'[h] = [addr |-> i, size |-> size]
        /\ Live(h)' /\ End(h)' = i + size
        /\ \A g \in Handles : g # h => /\ block'[g] = block[g] /\ Cells(g)' = Cells(g)
                                       /\ Live(g)' = Live(g) /\ End(g)' = End(g)
    BY <2>1, <2>2 DEF StackInv, SafeHeap, TypeOK, Live, Cells, End
  <2>5. ~FillsGap
    <3> SUFFICES ASSUME NEW g \in Handles, NEW f \in Handles,
                        block'[f] # block[f], Live(g), block'[f].addr < End(g)
                 PROVE  FALSE
      BY DEF FillsGap
    <3>1. f = h /\ block'[f].addr = i
      BY <2>4
    <3>2. End(g) <= i /\ End(g) \in Int
      BY <1>0, <2>3, CellsInHeap DEF End
    <3> QED
      BY <3>1, <3>2
  <2>6. SafeHeap'
    BY <1>0, <1>2, <2>5, AllocSafe
  <2>7. Ordered'
    <3> SUFFICES ASSUME NEW g \in Handles, NEW f \in Handles, g < f, Live(f)'
                 PROVE  Live(g)' /\ End(g)' <= block'[f].addr
      BY DEF Ordered
    <3>1. CASE f = h
      <4>1. g # h /\ Live(g)
        BY <2>2, <3>1 DEF NextFree, Handles
      <4> QED
        BY <4>1, <3>1, <2>3, <2>4
    <3>2. CASE f # h
      <4>1. Live(f) /\ f < h
        BY <2>2, <2>4, <3>2 DEF NextFree, Handles
      <4>2. g # h
        BY <4>1 DEF Handles
      <4> QED
        BY <4>1, <4>2, <3>2, <2>4 DEF StackInv, Ordered
    <3> QED
      BY <3>1, <3>2
  <2>8. Packed'
    <3> SUFFICES ASSUME NEW f \in Handles, Top(f)'
                 PROVE  /\ 0 <= block'[f].addr
                        /\ \A g \in Handles : g < f => End(g)' <= block'[f].addr - 0
                        /\ \A c \in 0..block'[f].addr - 0 - 1 : \E g \in Handles : c \in Cells(g)'
      BY <1>0 DEF Packed
    <3>1. f = h
      <4>1. f < h => ~Top(f)'
        BY <2>4 DEF Top, Handles
      <4>2. f > h => ~Live(f)'
        BY <2>2, <2>4 DEF NextFree, Handles
      <4> QED
        BY <4>1, <4>2 DEF Top, Handles
    <3>2. \A g \in Handles : g < h => g # h /\ Live(g)
      BY <2>2 DEF NextFree, Handles
    <3>3. \A c \in 0..i-1 : \E g \in Handles : c \in Cells(g)'
      <4>1. ASSUME NEW c \in 0..i-1 PROVE \E g \in Handles : c \in Cells(g)'
        <5>1. PICK g \in Handles : c \in Cells(g)
          BY <2>3
        <5>2. g # h
          BY <5>1, <1>0, <2>2, CellsInHeap
        <5> QED
          BY <5>1, <5>2, <2>4
      <4> QED
        BY <4>1
    <3> QED
      BY <3>1, <3>2, <3>3, <2>3, <2>4
  <2>9. NothingOutgrown'
    BY <1>0 DEF NothingOutgrown
  <2> QED
    BY <1>0, <2>6, <2>7, <2>8, <2>9 DEF StackInv
<1> QED
  BY <1>1, <1>2 DEF Push

\* Growing the topmost block, when the heap is not overrun, leaves its old
\* place to what it has outgrown and puts it right after that.
LEMMA GrowStep ==
  ASSUME StackInv, NEW h \in Handles, NEW size \in Sizes, Grow(h, size)
  PROVE  StackInv' /\ ~FillsGap
<1> USE HeapAssumption
<1>0. /\ SafeHeap /\ Top(h) /\ size > outgrown /\ overrun \in BOOLEAN
      /\ outgrown' = IF overrun' THEN outgrown ELSE outgrown + block[h].size
  BY DEF StackInv, SafeHeap, TypeOK, Grow
<1>1. CASE UNCHANGED <<free_list, heap_ptr, bytes, block>> /\ overrun' = TRUE
  <2>1. SafeHeap' /\ block' = block /\ outgrown' = outgrown
    BY <1>0, <1>1, StutterSafe
  <2>2. ~FillsGap
    BY <2>1 DEF FillsGap
  <2> QED
    BY <2>1, <2>2, SameStack
<1>2. CASE Realloc(h, size) /\ overrun' = FALSE
  <2>1. /\ Live(h) /\ size \in Nat \ {0} /\ outgrown \in Nat
        /\ block[h].addr \in Nat /\ block[h].size \in Nat \ {0} /\ End(h) \in Nat
    BY <1>0, CellsInHeap DEF Top, Live, End, StackInv
  <2>2. PICK i \in 0..HEAP_SIZE :
          /\ FirstFit(i, size) /\ i + size <= HEAP_SIZE
          /\ \/ block' = [block EXCEPT ![h] = [addr |-> i, size |-> size]]
             \/ overrun' = TRUE
    BY <1>2 DEF Realloc
  <2>3. i = End(h) /\ block' = [block EXCEPT ![h] = [addr |-> i, size |-> size]]
    BY <1>0, <1>2, <2>2, GrowLands
  <2>4. /\ block'[h] = [addr |-> i, size |-> size] /\ Live(h)'
        /\ \A g \in Handles : g # h => /\ block'[g] = block[g] /\ Cells(g)' = Cells(g)
                                       /\ Live(g)' = Live(g) /\ End(g)' = End(g)
    BY <1>0, <2>1, <2>3 DEF SafeHeap, TypeOK, Live, Cells, End
  <2>5. ~FillsGap
    <3> SUFFICES ASSUME NEW g \in Handles, NEW f \in Handles,
                        block'[f] # block[f], Live(g), block'[f].addr < End(g)
                 PROVE  FALSE
      BY DEF FillsGap
    <3>1. f = h /\ block'[f].addr = End(h)
      BY <2>3, <2>4
    <3>2. End(g) <= End(h) /\ End(g) \in Int
      BY <1>0, TopCovers, CellsInHeap DEF End
    <3> QED
      BY <2>1, <3>1, <3>2
  <2>6. SafeHeap'
    BY <1>0, <1>2, <2>5, ReallocSafe
  <2>7. outgrown' = outgrown + block[h].size /\ i - outgrown' = block[h].addr - outgrown
    BY <1>0, <1>2, <2>1, <2>3 DEF End
  <2>8. \A g \in Handles : g # h /\ Live(g) => g < h
    BY <1>0 DEF Top, Handles
  <2>9. Ordered'
    <3> SUFFICES ASSUME NEW g \in Handles, NEW f \in Handles, g < f, Live(f)'
                 PROVE  Live(g)' /\ End(g)' <= block'[f].addr
      BY DEF Ordered
    <3>1. CASE f = h
      <4>1. g # h /\ Live(g) /\ End(g) <= block[h].addr /\ End(g) \in Int
        BY <2>1, <3>1, CellsInHeap DEF Handles, StackInv, Ordered, End
      <4> QED
        BY <4>1, <3>1, <2>1, <2>3, <2>4 DEF End
    <3>2. CASE f # h
      <4>1. Live(f) /\ f < h /\ g # h
        BY <2>4, <2>8, <3>2 DEF Handles
      <4> QED
        BY <4>1, <3>2, <2>4 DEF StackInv, Ordered
    <3> QED
      BY <3>1, <3>2
  <2>10. Packed'
    <3> SUFFICES ASSUME NEW f \in Handles, Top(f)'
                 PROVE  /\ outgrown' <= block'[f].addr
                        /\ \A g \in Handles : g < f => End(g)' <= block'[f].addr - outgrown'
                        /\ \A c \in 0..block'[f].addr - outgrown' - 1 : \E g \in Handles : c \in Cells(g)'
      BY DEF Packed
    <3>1. f = h
      BY <1>0, <2>4, <2>8 DEF Top, Handles
    <3>2. /\ outgrown <= block[h].addr
          /\ \A g \in Handles : g < h => End(g) <= block[h].addr - outgrown
          /\ \A c \in 0..block[h].addr - outgrown - 1 : \E g \in Handles : c \in Cells(g)
      BY <1>0 DEF StackInv, Packed
    <3>3. ASSUME NEW c \in 0..block[h].addr - outgrown - 1 PROVE \E g \in Handles : c \in Cells(g)'
      <4>1. PICK g \in Handles : c \in Cells(g)
        BY <3>2
      <4>2. g # h
        BY <2>1, <4>1 DEF Cells
      <4> QED
        BY <4>1, <4>2, <2>4
    <3>4. \A g \in Handles : g < h => g # h
      BY DEF Handles
    <3> QED
      BY <2>1, <2>3, <2>4, <2>7, <3>1, <3>2, <3>3, <3>4 DEF End
  <2>11. NothingOutgrown' /\ outgrown' \in Nat
    BY <2>1, <2>4, <2>7 DEF NothingOutgrown
  <2> QED
    BY <2>5, <2>6, <2>9, <2>10, <2>11 DEF StackInv
<1>3. CASE Realloc(h, size) /\ overrun' # FALSE
  <2>1. UNCHANGED <<free_list, heap_ptr, bytes, block>> /\ overrun' \in BOOLEAN
    BY <1>0, <1>3, ReallocOverrunStutters
  <2> QED
    BY <1>1, <1>3, <2>1
<1>4. CASE ReallocOverrun(h, size)
  BY <1>1, <1>4 DEF ReallocOverrun
<1> QED
  BY <1>2, <1>3, <1>4 DEF Grow

\* Freeing the topmost block leaves a stack whose top has outgrown nothing.
LEMMA PopStep ==
  ASSUME StackInv, NEW h \in Handles, Pop(h)
  PROVE  StackInv'
<1> USE HeapAssumption
<1>0. SafeHeap /\ Top(h) /\ Free(h) /\ outgrown' = 0 /\ outgrown \in Nat
  BY DEF StackInv, Pop
<1>1. SafeHeap' /\ block' = [block EXCEPT ![h] = NoBlock]
  BY <1>0, FreeSafe
<1>2. /\ block[h].addr \in Nat /\ block[h].size \in Nat
      /\ ~Live(h)'
      /\ \A g \in Handles : g # h => /\ block'[g] = block[g] /\ Cells(g)' = Cells(g)
                                     /\ Live(g)' = Live(g) /\ End(g)' = End(g)
  BY <1>0, <1>1, CellsInHeap DEF SafeHeap, TypeOK, NoBlock, Live, Cells, End
<1>3. \A g \in Handles : Live(g)' => g < h /\ Live(g) /\ g # h
  BY <1>0, <1>2 DEF Top, Handles
<1>4. Ordered'
  <2> SUFFICES ASSUME NEW g \in Handles, NEW f \in Handles, g < f, Live(f)'
               PROVE  Live(g)' /\ End(g)' <= block'[f].addr
    BY DEF Ordered
  <2>1. f < h /\ f # h /\ g # h /\ Live(f)
    BY <1>3 DEF Handles
  <2> QED
    BY <2>1, <1>2 DEF StackInv, Ordered
<1>5. Packed'
  <2> SUFFICES ASSUME NEW f \in Handles, Top(f)'
               PROVE  /\ 0 <= block'[f].addr
                      /\ \A g \in Handles : g < f => End(g)' <= block'[f].addr - 0
                      /\ \A c \in 0..block'[f].addr - 0 - 1 : \E g \in Handles : c \in Cells(g)'
    BY <1>0 DEF Packed
  <2>1. Live(f)' /\ f < h /\ f # h /\ Live(f) /\ Live(h)
    BY <1>0, <1>3 DEF Top
  <2>2. block[f].addr \in Nat /\ block'[f] = block[f]
    BY <2>1, <1>0, <1>2, CellsInHeap
  <2>3. \A g \in Handles : g < f => g # h /\ End(g)' <= block'[f].addr
    BY <2>1, <2>2, <1>2 DEF StackInv, Ordered, Handles
  <2>4. ASSUME NEW c \in 0..block[f].addr-1 PROVE \E g \in Handles : c \in Cells(g)'
    <3>1. End(f) <= block[h].addr - outgrown /\ End(f) \in Nat /\ block[f].addr < End(f)
      BY <1>0, <2>1, CellsInHeap DEF StackInv, Packed, End, Live
    <3>2. c \in 0..block[h].addr - outgrown - 1 /\ c < block[h].addr
      BY <1>0, <1>2, <2>2, <3>1
    <3>3. PICK g \in Handles : c \in Cells(g)
      BY <1>0, <3>2 DEF StackInv, Packed
    <3>4. g # h
      BY <1>2, <3>2, <3>3 DEF Cells
    <3> QED
      BY <3>3, <3>4, <1>2
  <2> QED
    BY <2>2, <2>3, <2>4
<1> QED
  BY <1>0, <1>1, <1>4, <1>5 DEF StackInv, NothingOutgrown

\* Writing to a block keeps the invariant.
LEMMA FillStep ==
  ASSUME StackInv, NEW h \in Handles, NEW k \in Cell, NEW v \in Byte, Fill(h, k, v)
  PROVE  StackInv' /\ ~FillsGap
<1>1. SafeHeap' /\ block' = block /\ outgrown' = outgrown
  BY WriteSafe DEF Fill, Write, StackInv
<1> QED
  BY <1>1, SameStack DEF FillsGap

\* The invariant that the theorems about the stack discipline rest on.
LEMMA StackInvariant == StackSpec => []StackInv
<1>1. StackInit => StackInv
  <2> SUFFICES ASSUME StackInit PROVE StackInv
    OBVIOUS
  <2>1. SafeHeap /\ outgrown = 0
    BY InitSafe DEF StackInit
  <2>2. \A h \in Handles : ~Live(h)
    BY DEF StackInit, Init, NoBlock, Live
  <2> QED
    BY <2>1, <2>2 DEF StackInv, Ordered, Packed, NothingOutgrown, Top
<1>2. ASSUME StackInv, [StackNext]_stackVars PROVE StackInv'
  <2>1. CASE UNCHANGED stackVars
    <3>1. SafeHeap' /\ block' = block /\ outgrown' = outgrown
      BY <1>2, <2>1, StutterSafe DEF stackVars, vars, StackInv, SafeHeap, TypeOK
    <3> QED
      BY <1>2, <3>1, SameStack
  <2> QED
    BY <1>2, <2>1, PushStep, GrowStep, PopStep, FillStep DEF StackNext
<1> QED
  BY <1>1, <1>2, PTL DEF StackSpec

\* The type invariant of the heap and of the stack discipline.
THEOREM StackTypes == StackSpec => []StackTypeOK
<1>1. StackInv => StackTypeOK
  BY DEF StackInv, SafeHeap, StackTypeOK
<1> QED
  BY <1>1, StackInvariant, PTL

\* A program that frees its blocks in the reverse of the order it allocated
\* them in never shares a byte between two blocks, whatever their sizes.
THEOREM StackNoOverlap == StackSpec => []NoOverlap
<1>1. StackInv => NoOverlap
  BY DEF StackInv, SafeHeap
<1> QED
  BY <1>1, StackInvariant, PTL

\* Under the discipline the free list is right about every byte, so that free
\* clears and realloc copies exactly the bytes of the block they are given.
THEOREM StackFreeListExact == StackSpec => []FreeListExact
<1>1. StackInv => FreeListExact
  BY DEF StackInv, SafeHeap
<1> QED
  BY <1>1, StackInvariant, PTL

\* The heap pointer, which alloc moves back whenever it reuses freed bytes, is
\* never moved back below a block that is held.
THEOREM StackPtrAboveLive == StackSpec => []PtrAboveLive
<1>1. StackInv => PtrAboveLive
  BY DEF StackInv, SafeHeap
<1> QED
  BY <1>1, StackInvariant, PTL

\* The allocator packs a stack of blocks: every byte below the topmost block is
\* held, but for the places that this block was moved out of.
THEOREM StackPacked == StackSpec => []Packed
<1>1. StackInv => Packed
  BY DEF StackInv
<1> QED
  BY <1>1, StackInvariant, PTL

-----------------------------------------------------------------------------
(***************************************************************************)
(* When a heap without a check against its end is overrun.                 *)
(***************************************************************************)

\* The bytes held are as many as lie below E, less those that were outgrown.
LEMMA TakenBelow ==
  ASSUME SafeHeap, NEW E \in Nat, NEW a \in Nat, outgrown \in Nat, outgrown <= a, a <= E,
         UNION {Cells(g) : g \in Handles} = (0 .. a - outgrown - 1) \cup (a .. E - 1)
  PROVE  Taken = E
<1> DEFINE L == 0 .. a - outgrown - 1
           U == a .. E - 1
<1>1. a - outgrown - 1 \in Int /\ E - 1 \in Int /\ a \in Int
  OBVIOUS
<1>2. IsFiniteSet(L) /\ Cardinality(L) = a - outgrown
  <2>1. IsFiniteSet(L) /\ Cardinality(L) = IF 0 > a - outgrown - 1 THEN 0 ELSE a - outgrown - 1 - 0 + 1
    BY <1>1, FS_Interval
  <2> QED
    BY <2>1
<1>3. IsFiniteSet(U) /\ Cardinality(U) = E - a
  <2>1. IsFiniteSet(U) /\ Cardinality(U) = IF a > E - 1 THEN 0 ELSE E - 1 - a + 1
    BY <1>1, FS_Interval
  <2> QED
    BY <2>1
<1>4. L \cap U = {}
  OBVIOUS
<1>5. Cardinality(L \cap U) = 0
  BY <1>4, FS_EmptySet, Zenon
<1>6. Cardinality(L \cup U) = Cardinality(L) + Cardinality(U) - Cardinality(L \cap U)
  <2> HIDE DEF L, U
  <2> QED
    BY <1>2, <1>3, FS_Union
<1>7. Cardinality(L \cup U) = a - outgrown + (E - a) - 0
  <2> HIDE DEF L, U
  <2> QED
    BY <1>2, <1>3, <1>5, <1>6, Zenon
<1>8. Taken = Cardinality(L \cup U) + outgrown
  BY Zenon DEF Taken
<1>9. Taken = a - outgrown + (E - a) - 0 + outgrown
  BY <1>7, <1>8, Zenon
<1> QED
  BY <1>9

\* With a block held, everything below the end of the topmost one is taken.
LEMMA TakenUnderTop ==
  ASSUME StackInv, NEW h \in Handles, Top(h)
  PROVE  Taken = End(h)
<1> USE HeapAssumption
<1>1. /\ SafeHeap /\ Live(h) /\ outgrown \in Nat /\ outgrown <= block[h].addr
      /\ block[h].addr \in Nat /\ block[h].size \in Nat /\ End(h) \in Nat
      /\ block[h].addr <= End(h)
  BY CellsInHeap DEF StackInv, Packed, Top, End
<1>2. ASSUME NEW g \in Handles, NEW c \in Cells(g)
      PROVE  c \in (0 .. block[h].addr - outgrown - 1) \cup (block[h].addr .. End(h) - 1)
  <2>1. Live(g) /\ block[g].addr \in Nat /\ block[g].size \in Nat
    BY <1>1, <1>2, CellsInHeap
  <2>2. g < h \/ g = h
    BY <2>1 DEF Top, Handles
  <2>3. CASE g < h
    <3>1. End(g) <= block[h].addr - outgrown
      BY <2>3 DEF StackInv, Packed
    <3> QED
      BY <1>1, <1>2, <2>1, <3>1 DEF Cells, End
  <2>4. CASE g = h
    BY <1>1, <1>2, <2>4 DEF Cells
  <2> QED
    BY <2>2, <2>3, <2>4
<1>3. \A c \in 0 .. block[h].addr - outgrown - 1 : \E g \in Handles : c \in Cells(g)
  BY DEF StackInv, Packed
<1>4. UNION {Cells(g) : g \in Handles}
        = (0 .. block[h].addr - outgrown - 1) \cup (block[h].addr .. End(h) - 1)
  <2>1. block[h].addr .. End(h) - 1 = Cells(h)
    BY DEF Cells
  <2> QED
    BY <1>2, <1>3, <2>1
<1> QED
  BY <1>1, <1>4, TakenBelow

\* Without one, nothing is.
LEMMA TakenEmpty ==
  ASSUME StackInv, \A g \in Handles : ~Live(g)
  PROVE  Taken = 0
<1>1. SafeHeap /\ outgrown = 0
  BY DEF StackInv, NothingOutgrown
<1>2. UNION {Cells(g) : g \in Handles} = {}
  BY <1>1, CellsInHeap
<1>3. (0 .. 0 - outgrown - 1) \cup (0 .. 0 - 1) = {}
  BY <1>1
<1> QED
  BY <1>1, <1>2, <1>3, TakenBelow

\* No block is put past the end of the heap, and no search reads past the end of
\* the free list, when the block fits after the last byte that is held.
LEMMA FitsAtEnd ==
  ASSUME SafeHeap, NEW size \in Sizes, NEW E \in 0..heap_ptr, E + size <= HEAP_SIZE,
         \A g \in Handles : Live(g) => End(g) <= E,
         E # 0 => \E g \in Handles : E - 1 \in Cells(g)
  PROVE  ~PastEnd(size)
<1> USE HeapAssumption
<1>1. heap_ptr \in Nat /\ size \in Nat \ {0} /\ E \in Nat
  BY DEF SafeHeap, TypeOK
<1>2. ASSUME NEW c \in Cell, c >= E PROVE free_list[c] = 0
  <2>1. \A g \in Handles : c \notin Cells(g)
    BY <1>1, <1>2, CellsInHeap DEF Cells, End, Cell
  <2> QED
    BY <2>1, HeldByte
<1>3. CASE E < heap_ptr
  <2>1. \A j \in 0..size-1 : E + j \in Cell /\ E + j >= E
    BY <1>1 DEF Cell
  <2>2. \A j \in 0..size-1 : free_list[E + j] = 0
    BY <1>2, <2>1
  <2>3. E \in Gaps(size)
    BY <1>1, <1>3, <2>2 DEF Gaps
  <2> QED
    BY <2>3 DEF PastEnd
<1>4. CASE E = heap_ptr
  <2> SUFFICES ASSUME NEW i \in 0..heap_ptr-1, \A c \in i..HEAP_SIZE-1 : free_list[c] = 0
               PROVE  FALSE
    BY <1>1, <1>4 DEF PastEnd
  <2>1. E - 1 \in Cell /\ E - 1 \in i..HEAP_SIZE-1
    BY <1>1, <1>4 DEF Cell
  <2> QED
    BY <1>1, <1>4, <2>1, HeldByte
<1> QED
  BY <1>1, <1>3, <1>4

\* The last byte of a held block is one of its bytes.
LEMMA LastByte ==
  ASSUME SafeHeap, NEW h \in Handles, Live(h)
  PROVE  End(h) \in Nat /\ End(h) - 1 \in Cells(h)
BY CellsInHeap, HeapAssumption DEF Live, Cells, End

\* An allocation on top of the stack overruns the heap exactly when it is full.
LEMMA PushOverruns ==
  ASSUME StackInv, NEW h \in Handles, NEW size \in Sizes, Push(h, size)
  PROVE  overrun' <=> Taken + size > HEAP_SIZE
<1> USE HeapAssumption
<1>1. /\ SafeHeap /\ NextFree(h) /\ outgrown = 0 /\ ~Live(h) /\ overrun = FALSE
      /\ size \in Nat \ {0} /\ heap_ptr \in 0..HEAP_SIZE
  BY DEF StackInv, SafeHeap, TypeOK, Push, Alloc, AllocOverrun
<1>2. \E E \in 0..heap_ptr :
        /\ Taken = E
        /\ \A g \in Handles : Live(g) => End(g) <= E
        /\ \A c \in 0..E-1 : \E g \in Handles : c \in Cells(g)
  <2>1. CASE h = 1
    <3>1. \A g \in Handles : ~Live(g)
      BY <1>1, <2>1 DEF NextFree, Handles
    <3>2. Taken = 0
      BY <3>1, TakenEmpty
    <3> QED
      BY <1>1, <3>1, <3>2
  <2>2. CASE h # 1
    <3>1. h - 1 \in Handles /\ h - 1 < h /\ \A g \in Handles : g > h - 1 => g = h \/ g > h
      BY <2>2 DEF Handles
    <3>2. Top(h - 1)
      BY <1>1, <3>1 DEF NextFree, Top
    <3>3. Taken = End(h - 1)
      BY <3>1, <3>2, TakenUnderTop
    <3>4. /\ End(h - 1) \in 0..heap_ptr
          /\ \A g \in Handles : Live(g) => End(g) <= End(h - 1)
          /\ \A c \in 0..End(h - 1)-1 : \E g \in Handles : c \in Cells(g)
      <4>1. block[h - 1].addr \in Nat
        BY <1>1, <3>1, CellsInHeap
      <4> QED
        BY <1>1, <3>1, <3>2, <4>1, TopCovers
    <3> QED
      BY <3>3, <3>4
  <2> QED
    BY <2>1, <2>2
<1>3. PICK E \in 0..heap_ptr :
        /\ Taken = E
        /\ \A g \in Handles : Live(g) => End(g) <= E
        /\ \A c \in 0..E-1 : \E g \in Handles : c \in Cells(g)
  BY <1>2
<1>4. CASE Alloc(h, size)
  <2>1. PICK i \in 0..HEAP_SIZE : FirstFit(i, size) /\ i + size <= HEAP_SIZE
    BY <1>4 DEF Alloc
  <2>2. E <= i
    BY <1>1, <1>3, <2>1, NoGapBelow
  <2>3. i = E /\ overrun' = FALSE
    BY <1>1, <1>3, <1>4, <2>1, <2>2, LandsAtEnd DEF Alloc
  <2> QED
    BY <1>1, <1>3, <2>1, <2>3
<1>5. CASE AllocOverrun(h, size)
  <2>1. E # 0 => E - 1 \in 0..E-1
    BY <1>1
  <2>2. PastEnd(size) /\ overrun' = TRUE
    BY <1>5 DEF AllocOverrun
  <2>3. ~(E + size <= HEAP_SIZE)
    BY <1>1, <1>3, <2>1, <2>2, FitsAtEnd
  <2> QED
    BY <1>1, <1>3, <2>2, <2>3
<1> QED
  BY <1>4, <1>5 DEF Push

\* So does the growth of the topmost block.
LEMMA GrowOverruns ==
  ASSUME StackInv, NEW h \in Handles, NEW size \in Sizes, Grow(h, size)
  PROVE  overrun' <=> Taken + size > HEAP_SIZE
<1> USE HeapAssumption
<1>1. /\ SafeHeap /\ Top(h) /\ Live(h) /\ size > outgrown /\ size >= block[h].size
      /\ size \in Nat \ {0} /\ heap_ptr \in 0..HEAP_SIZE
      /\ block[h].addr \in Nat /\ block[h].size \in Nat \ {0} /\ End(h) <= HEAP_SIZE
  BY CellsInHeap DEF StackInv, SafeHeap, TypeOK, Grow, Top, Live
<1>2. Taken = End(h) /\ End(h) \in 0..heap_ptr /\ \A g \in Handles : Live(g) => End(g) <= End(h)
  BY <1>1, TakenUnderTop, TopCovers
<1>3. CASE Realloc(h, size)
  <2>1. PICK i \in 0..HEAP_SIZE :
          /\ FirstFit(i, size) /\ i + size <= HEAP_SIZE
          /\ LET old      == block[h].addr
                 old_size == Stamp(free_list, i, size, size)[old]
             IN i + old_size <= HEAP_SIZE /\ old + old_size <= HEAP_SIZE => overrun' = overrun
    BY <1>3 DEF Realloc
  <2>2. i = End(h)
    BY <1>1, <2>1, GrowLands
  <2>3. block[h].addr \in Cells(h) /\ block[h].addr \in Cell /\ block[h].addr < i
    BY <1>1, <2>2 DEF Cells, End, Cell
  <2>4. Stamp(free_list, i, size, size)[block[h].addr] = block[h].size
    BY <1>1, <2>3 DEF Stamp, SafeHeap, FreeListExact
  <2>5. overrun' = overrun /\ overrun = FALSE
    BY <1>1, <1>3, <2>1, <2>4 DEF Realloc, End
  <2> QED
    BY <1>1, <1>2, <2>1, <2>2, <2>5
<1>4. CASE ReallocOverrun(h, size)
  <2>1. PastEnd(size) /\ overrun' = TRUE
    BY <1>4 DEF ReallocOverrun
  <2>2. ~(End(h) + size <= HEAP_SIZE)
    BY <1>1, <1>2, <2>1, LastByte, FitsAtEnd
  <2> QED
    BY <1>1, <1>2, <2>1, <2>2
<1> QED
  BY <1>3, <1>4 DEF Grow

\* alloc and realloc put a block past the end of the heap, which they do not check,
\* exactly when the blocks held, what the topmost one has outgrown and the new block
\* do not fit together; free never goes past the end.
THEOREM StackOverrunWhenFull == StackSpec => OverrunWhenFull
<1> DEFINE Full == /\ \A h \in Handles, size \in Sizes :
                        Push(h, size) \/ Grow(h, size) => (overrun' <=> Taken + size > HEAP_SIZE)
                   /\ \A h \in Handles : Pop(h) => ~overrun'
<1>1. StackInv => Full
  <2> SUFFICES ASSUME StackInv PROVE Full
    OBVIOUS
  <2>1. ASSUME NEW h \in Handles, Pop(h) PROVE ~overrun'
    <3>1. SafeHeap /\ Free(h)
      BY <2>1 DEF StackInv, Pop
    <3> QED
      BY <3>1, FreeSafe
  <2> QED
    BY <2>1, PushOverruns, GrowOverruns
<1>2. StackInv /\ [StackNext]_stackVars => [Full]_stackVars
  BY <1>1
<1> HIDE DEF Full
<1>3. StackSpec => [][Full]_stackVars
  BY <1>2, StackInvariant, PTL DEF StackSpec
<1> QED
  BY <1>3 DEF Full, OverrunWhenFull

-----------------------------------------------------------------------------
(***************************************************************************)
(* The heap implements private arrays.                                     *)
(***************************************************************************)

\* What a program reads in a block it holds, and in none.
LEMMA ContentsType ==
  ASSUME SafeHeap, NEW h \in Handles
  PROVE  /\ Contents[h] = [k \in 0..block[h].size-1 |-> bytes[block[h].addr + k]]
         /\ Contents[h] \in [0..block[h].size-1 -> Byte]
         /\ Live(h) <=> Store!Held(h)
         /\ ~Live(h) => Contents[h] = Store!NoBytes
<1> USE HeapAssumption
<1>1. Contents[h] = [k \in 0..block[h].size-1 |-> bytes[block[h].addr + k]]
  BY DEF Contents
<1>2. block[h].size \in Nat /\ block[h].addr \in Nat
  BY CellsInHeap
<1>3. \A k \in 0..block[h].size-1 : block[h].addr + k \in Cell
  BY <1>2, CellsInHeap DEF Cells, End
<1>4. \A k \in 0..block[h].size-1 : bytes[block[h].addr + k] \in Byte
  BY <1>3 DEF SafeHeap, TypeOK
<1>5. Live(h) => Contents[h] # Store!NoBytes
  <2>1. DOMAIN Contents[h] = 0..block[h].size-1 /\ DOMAIN Store!NoBytes = {}
    BY <1>1 DEF Store!NoBytes
  <2>2. Live(h) => 0 \in 0..block[h].size-1
    BY <1>2 DEF Live
  <2> QED
    BY <2>1, <2>2
<1>6. ~Live(h) => Contents[h] = Store!NoBytes
  <2>1. ~Live(h) => block[h].size = 0
    BY <1>2 DEF Live
  <2>2. 0..0-1 = 0..-1 /\ 0..-1 = {}
    OBVIOUS
  <2>3. ~Live(h) => 0..block[h].size-1 = {}
    BY <2>1, <2>2
  <2> QED
    BY <1>1, <2>2, <2>3 DEF Store!NoBytes
<1> QED
  BY <1>1, <1>4, <1>5, <1>6 DEF Store!Held

ContentsTyped == \A h \in Handles : Contents[h] \in [0..block[h].size-1 -> Byte]

\* The contents of the blocks keep their types in the next state.
LEMMA ContentsTypedNext == SafeHeap' => ContentsTyped'
<1>1. SafeHeap => ContentsTyped
  BY ContentsType DEF ContentsTyped
<1> QED
  BY <1>1, PTL

\* A step that touches the block of h only changes only what h's owner reads.
LEMMA OthersKeep ==
  ASSUME SafeHeap, NEW h \in Handles,
         \A g \in Handles : g # h =>
            block'[g] = block[g] /\ \A c \in Cells(g) : bytes'[c] = bytes[c]
  PROVE  Contents' = [Contents EXCEPT ![h] = Contents'[h]]
<1> USE HeapAssumption
<1>1. ASSUME NEW g \in Handles, g # h PROVE Contents'[g] = Contents[g]
  <2>1. Contents'[g] = [k \in 0..block[g].size-1 |-> bytes'[block[g].addr + k]]
    BY <1>1 DEF Contents
  <2>2. \A k \in 0..block[g].size-1 : block[g].addr + k \in Cells(g)
    BY CellsInHeap DEF Cells, End
  <2>3. \A k \in 0..block[g].size-1 : bytes'[block[g].addr + k] = bytes[block[g].addr + k]
    BY <1>1, <2>2
  <2>4. [k \in 0..block[g].size-1 |-> bytes'[block[g].addr + k]]
         = [k \in 0..block[g].size-1 |-> bytes[block[g].addr + k]]
    BY <2>3
  <2> QED
    BY <2>1, <2>4, ContentsType
<1> DEFINE F == [Contents EXCEPT ![h] = Contents'[h]]
<1>2. DOMAIN Contents = Handles /\ DOMAIN Contents' = Handles
  BY DEF Contents
<1>3. \A g \in Handles : F[g] = Contents'[g]
  BY <1>1, <1>2
<1>4. Contents' = [g \in Handles |-> Contents'[g]] /\ F = [g \in Handles |-> F[g]]
  BY <1>2 DEF Contents
<1> QED
  BY <1>3, <1>4

\* An alloc is an allocation of the abstract store.
LEMMA AllocStores ==
  ASSUME SafeHeap, SafeHeap', NEW h \in Handles, NEW size \in Sizes, Alloc(h, size)
  PROVE  Store!Alloc(h)
<1> USE HeapAssumption
<1>1. /\ ~Live(h) /\ bytes' = bytes /\ block'[h].size = size
      /\ \A g \in Handles : g # h => block'[g] = block[g]
  BY DEF Alloc, SafeHeap, TypeOK
<1>2. Contents' = [Contents EXCEPT ![h] = Contents'[h]]
  BY <1>1, OthersKeep
<1>3. Contents'[h] \in [0..size-1 -> Byte]
  BY <1>1, ContentsTypedNext DEF ContentsTyped
<1> QED
  BY <1>1, <1>2, <1>3, ContentsType DEF Store!Alloc

\* A free is one of the abstract store.
LEMMA FreeStores ==
  ASSUME SafeHeap, NEW h \in Handles, Free(h)
  PROVE  Store!Free(h)
<1> USE HeapAssumption
<1>1. /\ Live(h) /\ bytes' = bytes /\ block'[h].size = 0
      /\ \A g \in Handles : g # h => block'[g] = block[g]
  <2>1. block' = [block EXCEPT ![h] = NoBlock]
    BY FreeSafe
  <2>2. Live(h) /\ bytes' = bytes
    BY DEF Free
  <2> QED
    BY <2>1, <2>2 DEF SafeHeap, TypeOK, NoBlock
<1>2. Contents' = [Contents EXCEPT ![h] = Contents'[h]]
  BY <1>1, OthersKeep
<1>3. Contents'[h] = Store!NoBytes
  <2>1. Contents'[h] = [k \in 0..0-1 |-> bytes'[block'[h].addr + k]]
    BY <1>1 DEF Contents
  <2>2. 0..0-1 = {} /\ 0..-1 = {}
    OBVIOUS
  <2> QED
    BY <2>1, <2>2 DEF Store!NoBytes
<1> QED
  BY <1>1, <1>2, <1>3, ContentsType DEF Store!Free

\* A realloc that fills no gap is one of the abstract store.
LEMMA ReallocStores ==
  ASSUME SafeHeap, SafeHeap', NEW h \in Handles, NEW size \in Sizes, Realloc(h, size),
         ~FillsGap, overrun' = FALSE
  PROVE  Store!Realloc(h)
<1> USE HeapAssumption
<1> DEFINE old == block[h].addr
           old_size == block[h].size
<1>1. PICK i \in 0..HEAP_SIZE :
        /\ \A g \in Handles : Live(g) => End(g) <= i
        /\ i + size <= HEAP_SIZE /\ i + old_size <= HEAP_SIZE
        /\ bytes' = CopyBytes(i, old, old_size)
        /\ block' = [block EXCEPT ![h] = [addr |-> i, size |-> size]]
  BY ReallocEffect
<1>2. /\ Live(h) /\ size \in Nat \ {0} /\ i \in Nat
      /\ old \in Nat /\ old_size \in Nat \ {0} /\ old + old_size <= i
  BY <1>1, CellsInHeap DEF Realloc, Live, End
<1>3. /\ \A k \in 0..old_size-1 : bytes'[i + k] = bytes[old + k]
      /\ \A c \in Cell : c < i => bytes'[c] = bytes[c]
  <2>1. TypeOK
    BY DEF SafeHeap
  <2>2. i + old_size <= HEAP_SIZE /\ bytes' = CopyBytes(i, old, old_size)
    BY <1>1
  <2>3. i \in Nat /\ old \in Nat /\ old_size \in Nat \ {0} /\ old + old_size <= i
    BY <1>2
  <2>4. PICK from \in Nat, count \in Nat \ {0} : from = old /\ count = old_size
    BY <2>3
  <2> HIDE DEF old, old_size
  <2>5. from + count <= i /\ i + count <= HEAP_SIZE
    BY <2>2, <2>3, <2>4
  <2>6. \A k \in 0..count-1 : CopyBytes(i, from, count)[i + k] = bytes[from + k]
    BY <2>1, <2>3, <2>5, CopyExact
  <2>7. \A c \in Cell : c < i => CopyBytes(i, from, count)[c] = bytes[c]
    BY <2>1, <2>3, <2>5, CopyExact
  <2> QED
    BY <2>2, <2>4, <2>6, <2>7
<1>4. \A g \in Handles : \A c \in Cells(g) : bytes'[c] = bytes[c]
  <2> SUFFICES ASSUME NEW g \in Handles, NEW c \in Cells(g) PROVE bytes'[c] = bytes[c]
    OBVIOUS
  <2>1. c \in Cell /\ Live(g)
    BY CellsInHeap
  <2>2. c < i
    BY <1>1, <1>2, <2>1, CellsInHeap DEF Cells, End
  <2> QED
    BY <1>3, <2>1, <2>2
<1>5. Contents' = [Contents EXCEPT ![h] = Contents'[h]]
  BY <1>1, <1>4, OthersKeep DEF SafeHeap, TypeOK
<1>6. block'[h].addr = i /\ block'[h].size = size
  BY <1>1 DEF SafeHeap, TypeOK
<1>7. Contents'[h] \in [0..size-1 -> Byte] /\ Contents'[h] = [k \in 0..size-1 |-> bytes'[i + k]]
  BY <1>6, ContentsTypedNext DEF ContentsTyped, Contents
<1>8. \A k \in DOMAIN Contents[h] \intersect 0..size-1 : Contents'[h][k] = Contents[h][k]
  <2> SUFFICES ASSUME NEW k \in DOMAIN Contents[h] \intersect 0..size-1
               PROVE  Contents'[h][k] = Contents[h][k]
    OBVIOUS
  <2>1. Contents[h] = [j \in 0..old_size-1 |-> bytes[old + j]]
    BY ContentsType
  <2>2. k \in 0..old_size-1 /\ k \in 0..size-1
    BY <2>1
  <2>3. Contents[h][k] = bytes[old + k]
    BY <2>1, <2>2
  <2>4. Contents'[h][k] = bytes'[i + k]
    BY <1>7, <2>2
  <2> QED
    BY <1>3, <2>2, <2>3, <2>4
<1>9. Store!Held(h)
  BY <1>2, ContentsType
<1> QED
  BY <1>5, <1>7, <1>8, <1>9 DEF Store!Realloc

\* A write is one of the abstract store.
LEMMA WriteStores ==
  ASSUME SafeHeap, NEW h \in Handles, NEW k \in Cell, NEW v \in Byte, Write(h, k, v)
  PROVE  Store!Write(h)
<1> USE HeapAssumption
<1>1. /\ Live(h) /\ block' = block /\ k \in 0..block[h].size-1
      /\ bytes' = [bytes EXCEPT ![block[h].addr + k] = v]
  BY CellsInHeap DEF Write, Cell
<1>2. block[h].addr \in Nat /\ block[h].size \in Nat /\ block[h].addr + k \in Cells(h)
  BY <1>1, CellsInHeap DEF Cells, End
<1>3. \A g \in Handles : g # h => \A c \in Cells(g) : bytes'[c] = bytes[c]
  <2> SUFFICES ASSUME NEW g \in Handles, g # h, NEW c \in Cells(g) PROVE bytes'[c] = bytes[c]
    OBVIOUS
  <2>1. c \in Cell /\ Live(g) /\ c \notin Cells(h)
    BY <1>1, CellsInHeap DEF SafeHeap, NoOverlap
  <2> QED
    BY <1>1, <1>2, <2>1 DEF SafeHeap, TypeOK
<1>4. Contents' = [Contents EXCEPT ![h] = Contents'[h]]
  BY <1>1, <1>3, OthersKeep
<1>5. Contents'[h] = [Contents[h] EXCEPT ![k] = v]
  <2>1. Contents'[h] = [j \in 0..block[h].size-1 |-> bytes'[block[h].addr + j]]
    BY <1>1 DEF Contents
  <2>2. \A j \in 0..block[h].size-1 :
          /\ block[h].addr + j \in Cell
          /\ bytes'[block[h].addr + j] = IF j = k THEN v ELSE bytes[block[h].addr + j]
    <3> SUFFICES ASSUME NEW j \in 0..block[h].size-1
                 PROVE  /\ block[h].addr + j \in Cell
                        /\ bytes'[block[h].addr + j] = IF j = k THEN v ELSE bytes[block[h].addr + j]
      OBVIOUS
    <3>1. block[h].addr + j \in Cell
      BY <1>2, CellsInHeap DEF Cells, End
    <3>2. block[h].addr + j = block[h].addr + k <=> j = k
      BY <1>2 DEF Cell
    <3> QED
      BY <1>1, <3>1, <3>2 DEF SafeHeap, TypeOK
  <2>3. Contents[h] = [j \in 0..block[h].size-1 |-> bytes[block[h].addr + j]]
    BY ContentsType
  <2> DEFINE new == [Contents[h] EXCEPT ![k] = v]
  <2>4. new = [j \in 0..block[h].size-1 |-> IF j = k THEN v ELSE bytes[block[h].addr + j]]
    BY <2>3
  <2>5. Contents'[h] = [j \in 0..block[h].size-1 |-> IF j = k THEN v ELSE bytes[block[h].addr + j]]
    BY <2>1, <2>2
  <2> QED
    BY <2>4, <2>5
<1>6. Store!Held(h) /\ k \in DOMAIN Contents[h]
  <2>1. Contents[h] \in [0..block[h].size-1 -> Byte]
    BY ContentsType
  <2> QED
    BY <1>1, <2>1, ContentsType
<1>7. Contents' = [Contents EXCEPT ![h] = [Contents[h] EXCEPT ![k] = v]]
  BY <1>4, <1>5
<1> QED
  BY <1>6, <1>7 DEF Store!Write

\* Every step of a program that fills no gap is a step of private arrays.
LEMMA StepStores ==
  ASSUME SafeHeap, [Next]_vars, ~FillsGap
  PROVE  [Store!Next]_Contents
<1>0. SafeHeap'
  BY StepSafe
<1>1. ASSUME block' = block, bytes' = bytes PROVE Contents' = Contents
  BY <1>1 DEF Contents
<1>2. ASSUME NEW h \in Handles, NEW size \in Sizes, Alloc(h, size) \/ AllocOverrun(h, size)
      PROVE  [Store!Next]_Contents
  <2>1. CASE Alloc(h, size)
    BY <1>0, <2>1, AllocStores DEF Store!Next
  <2>2. CASE AllocOverrun(h, size)
    BY <1>1, <2>2 DEF AllocOverrun
  <2> QED
    BY <1>2, <2>1, <2>2
<1>3. ASSUME NEW h \in Handles, Free(h) PROVE [Store!Next]_Contents
  BY <1>3, FreeStores DEF Store!Next
<1>4. ASSUME NEW h \in Handles, NEW size \in Sizes, Realloc(h, size) \/ ReallocOverrun(h, size)
      PROVE  [Store!Next]_Contents
  <2>1. CASE Realloc(h, size) /\ overrun' = FALSE
    BY <1>0, <2>1, ReallocStores DEF Store!Next
  <2>2. CASE Realloc(h, size) /\ overrun' # FALSE
    BY <1>1, <2>2, ReallocOverrunStutters DEF SafeHeap, TypeOK
  <2>3. CASE ReallocOverrun(h, size)
    BY <1>1, <2>3 DEF ReallocOverrun
  <2> QED
    BY <1>4, <2>1, <2>2, <2>3
<1>5. ASSUME NEW h \in Handles, NEW k \in Cell, NEW v \in Byte, Write(h, k, v)
      PROVE  [Store!Next]_Contents
  BY <1>5, WriteStores DEF Store!Next
<1>6. CASE UNCHANGED vars
  BY <1>1, <1>6 DEF vars
<1> QED
  BY <1>2, <1>3, <1>4, <1>5, <1>6 DEF Next, AllocStep, FreeStep, ReallocStep, WriteStep

\* The heap starts as the empty store.
LEMMA InitStores == Init => Store!Init
<1> SUFFICES ASSUME Init PROVE Store!Init
  OBVIOUS
<1>1. SafeHeap /\ \A h \in Handles : ~Live(h)
  BY InitSafe DEF Init, NoBlock, Live
<1>2. \A h \in Handles : Contents[h] = Store!NoBytes
  BY <1>1, ContentsType
<1>3. Contents = [h \in Handles |-> Contents[h]]
  BY DEF Contents
<1> QED
  BY <1>2, <1>3 DEF Store!Init

\* A step of the stack discipline fills no gap: a new or a moved block goes to
\* the end of the topmost one.
LEMMA StackFillsNoGap ==
  ASSUME StackInv, [StackNext]_stackVars
  PROVE  [Next]_vars /\ ~FillsGap
<1>1. ASSUME NEW h \in Handles, NEW size \in Sizes, Push(h, size)
      PROVE  Next /\ ~FillsGap
  <2>1. Next
    BY <1>1 DEF Push, Next, AllocStep
  <2>2. CASE AllocOverrun(h, size)
    BY <2>1, <2>2 DEF AllocOverrun, FillsGap
  <2>3. CASE Alloc(h, size)
    <3> SUFFICES ASSUME NEW g \in Handles, NEW f \in Handles,
                        block'[f] # block[f], Live(g), block'[f].addr < End(g)
                 PROVE  FALSE
      BY <2>1 DEF FillsGap
    <3>1. PICK i \in 0..HEAP_SIZE :
            /\ FirstFit(i, size) /\ i + size <= HEAP_SIZE
            /\ block' = [block EXCEPT ![h] = [addr |-> i, size |-> size]]
      BY <2>3 DEF Alloc
    <3>2. End(g) <= i /\ End(g) \in Int
      BY <1>1, <2>3, <3>1, PushLands, CellsInHeap DEF Push, Alloc, End, StackInv
    <3>3. block'[f].addr = i
      BY <3>1 DEF StackInv, SafeHeap, TypeOK
    <3> QED
      BY <3>2, <3>3
  <2> QED
    BY <1>1, <2>2, <2>3 DEF Push
<1>2. ASSUME NEW h \in Handles, NEW size \in Sizes, Grow(h, size)
      PROVE  Next /\ ~FillsGap
  <2>1. Next
    BY <1>2 DEF Grow, Next, ReallocStep
  <2> QED
    BY <1>2, <2>1, GrowStep
<1>3. ASSUME NEW h \in Handles, Pop(h) PROVE Next /\ ~FillsGap
  <2>1. Next /\ Free(h)
    BY <1>3 DEF Pop, Next, FreeStep
  <2>2. \A f \in Handles : block'[f] # block[f] => block'[f].size = 0
    <3>1. SafeHeap
      BY DEF StackInv
    <3>2. block' = [block EXCEPT ![h] = NoBlock]
      BY <2>1, <3>1, FreeSafe
    <3> QED
      BY <3>1, <3>2 DEF SafeHeap, TypeOK, NoBlock
  <2> QED
    BY <2>1, <2>2 DEF FillsGap
<1>4. ASSUME NEW h \in Handles, NEW k \in Cell, NEW v \in Byte, Fill(h, k, v)
      PROVE  Next /\ ~FillsGap
  <2>1. Next
    BY <1>4 DEF Fill, Next, WriteStep
  <2> QED
    BY <1>4, <2>1, FillStep
<1>5. CASE UNCHANGED stackVars
  BY <1>5 DEF stackVars, vars, FillsGap
<1> QED
  BY <1>1, <1>2, <1>3, <1>4, <1>5 DEF StackNext

\* Under the stack discipline the heap of the library implements private
\* arrays: a block changes only when its owner writes to it, moves it or frees
\* it, and a block that grows keeps its bytes.
THEOREM StackImplementsStore == StackSpec => StoreSpec
<1>1. StackInit => Store!Init
  BY InitStores DEF StackInit
<1>2. StackInv /\ [StackNext]_stackVars => [Store!Next]_Contents
  BY StackFillsNoGap, StepStores DEF StackInv
<1> QED
  BY <1>1, <1>2, StackInvariant, PTL DEF StackSpec, StoreSpec, Store!Spec

\* Under any order of calls the heap implements private arrays as long as no
\* allocation has filled a gap below a held block.
THEOREM GapImplementsStore == GapSpec => StoreUntilGapFilled
<1> DEFINE Inv == ~gap_filled => SafeHeap
<1>1. GapInit => Inv /\ Store!Init
  BY InitSafe, InitStores DEF GapInit
<1>2. Inv /\ [GapNext]_gapVars => Inv'
  <2> SUFFICES ASSUME Inv, [GapNext]_gapVars, ~gap_filled' PROVE SafeHeap'
    OBVIOUS
  <2>1. CASE GapNext
    BY <2>1, StepSafe DEF GapNext
  <2>2. CASE UNCHANGED gapVars
    BY <2>2, StutterSafe DEF gapVars, vars, SafeHeap, TypeOK
  <2> QED
    BY <2>1, <2>2
<1>3. Inv /\ [GapNext]_gapVars => [~gap_filled' => [Store!Next]_Contents]_gapVars
  <2> SUFFICES ASSUME Inv, GapNext, ~gap_filled' PROVE [Store!Next]_Contents
    OBVIOUS
  <2>1. SafeHeap /\ Next /\ ~FillsGap
    BY DEF GapNext
  <2> QED
    BY <2>1, StepStores
<1> QED
  BY <1>1, <1>2, <1>3, PTL DEF GapSpec, StoreUntilGapFilled
=============================================================================
