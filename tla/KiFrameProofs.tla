---------------------------- MODULE KiFrameProofs ----------------------------
(***************************************************************************)
(* Proofs about the stack frame: for every set of sizes and all bounds,    *)
(* every function whose jumps are sound runs with rsp where the backend    *)
(* takes it to be, and keeps its locals out of the way of what it pushes.  *)
(***************************************************************************)
EXTENDS KiFrame, SequenceTheorems, TLAPS

\* rsp can only be at n.
AllAt(S, n) == \A d \in S : d = n

\* What is known of an open block: the stack at its start, and that every jump
\* to a label around it arrives with that stack.
BlockOK(b) ==
    /\ b \in Block
    /\ b.used <= b.reserved
    /\ AllAt(b.head, b.reserved)
    /\ AllAt(b.next, b.reserved)
    /\ AllAt(b.done, b.reserved)

StackOfBlocks(s) ==
    /\ s \in Seq(Block)
    /\ \A k \in 1..Len(s) : BlockOK(s[k])
    /\ \A k \in 1..Len(s) : s[k].kind = "for" => k > 1

BlocksOK == StackOfBlocks(blocks)

StackOK ==
    /\ stack_reserved \in Nat /\ stack_used \in Nat /\ temps \in Nat
    /\ stack_used <= stack_reserved
    /\ 8 * temps <= stack_used

\* The variable of an open block lies below what is used, and was there before the
\* blocks that were opened after it.  Every other variable that shares a byte with
\* it was declared after its block was closed.
LocalOK(l) ==
    /\ l.size <= l.offset
    /\ l.until <= Len(locals)
    /\ Open(l) => /\ l.offset + 8 * temps <= stack_used
                  /\ \A k \in 1..Len(blocks) : l.level < k => l.offset <= blocks[k].used

PairsOK ==
    \A k \in 1..Len(locals) : \A j \in 1..k-1 :
        Apart(locals[j], locals[k]) \/ locals[j].until \in 1..k-1

LocalsOK ==
    /\ locals \in Seq(Local)
    /\ \A k \in 1..Len(locals) : LocalOK(locals[k])
    /\ PairsOK

GhostOK == RspKnown /\ LoopsBalanced /\ ReturnsBalanced

FrameInv == BlocksOK /\ StackOK /\ LocalsOK /\ GhostOK

-----------------------------------------------------------------------------
\* Aligning never lowers the stack.
LEMMA AlignBounds == ASSUME NEW n \in Nat PROVE Align(n) \in Nat /\ n <= Align(n)
BY DEF Align

\* Going down by the difference of two depths leads from one to the other.
LEMMA Difference == \A m, n \in Nat : m - n \in Int /\ n + (m - n) = m
OBVIOUS

\* What is reserved for n used bytes holds them, and never shrinks.
LEMMA ReserveBounds ==
  ASSUME StackOK, NEW n \in Nat
  PROVE  Reserve(n) \in Nat /\ n <= Reserve(n) /\ stack_reserved <= Reserve(n)
BY AlignBounds DEF Reserve, StackOK

\* Lowering rsp by m moves the one place it can be at by m.
LEMMA LowerAt ==
  ASSUME NEW S, NEW n \in Int, NEW m \in Int, AllAt(S, n)
  PROVE  AllAt(Lower(S, m), n + m)
BY DEF Lower, AllAt

\* Raising rsp by m moves the one place it can be at back by m.
LEMMA RaiseAt ==
  ASSUME NEW S, NEW n \in Int, NEW m \in Int, AllAt(S, n)
  PROVE  AllAt(Raise(S, m), n - m)
BY DEF Raise, AllAt

\* Paths that arrive at the same place still do so together.
LEMMA UnionAt == ASSUME NEW S, NEW T, NEW n, AllAt(S, n), AllAt(T, n) PROVE AllAt(S \union T, n)
BY DEF AllAt

\* Ends and starts that are all the same place are no drift.
LEMMA DriftAt ==
  ASSUME NEW S, NEW T, NEW n \in Int, AllAt(S, n), AllAt(T, n)
  PROVE  AllAt(Drifts(S, T), 0)
BY DEF Drifts, AllAt

\* AllAt is how the properties say that a place is known.
LEMMA AtZero == ASSUME NEW S, NEW n PROVE S \subseteq {n} <=> AllAt(S, n)
BY DEF AllAt

\* The first n blocks of a stack of blocks, and a block on top of a stack.
LEMMA PrefixOK ==
  ASSUME NEW s, StackOfBlocks(s), NEW n \in 0..Len(s)
  PROVE  /\ StackOfBlocks(SubSeq(s, 1, n)) /\ Len(SubSeq(s, 1, n)) = n
         /\ \A k \in 1..n : SubSeq(s, 1, n)[k] = s[k]
<1>1. s \in Seq(Block) /\ Len(s) \in Nat /\ \A k \in 1..n : k \in 1..Len(s) /\ s[k] \in Block
  BY DEF StackOfBlocks
<1>2. /\ SubSeq(s, 1, n) \in Seq(Block)
      /\ Len(SubSeq(s, 1, n)) = IF 1 <= n THEN n - 1 + 1 ELSE 0
      /\ \A k \in 1..n-1+1 : SubSeq(s, 1, n)[k] = s[1 + k - 1]
  BY <1>1, SubSeqProperties
<1>3. Len(SubSeq(s, 1, n)) = n /\ \A k \in 1..n : SubSeq(s, 1, n)[k] = s[k]
  <2>1. n - 1 + 1 = n /\ n \in Nat /\ \A k \in 1..n : 1 + k - 1 = k
    BY <1>1
  <2> QED
    BY <1>2, <2>1
<1> QED
  BY <1>1, <1>2, <1>3 DEF StackOfBlocks

\* A good block on a good stack of blocks gives a good stack of blocks.
LEMMA AppendOK ==
  ASSUME NEW s, StackOfBlocks(s), NEW b, BlockOK(b), b.kind = "for" => Len(s) > 0
  PROVE  /\ StackOfBlocks(Append(s, b)) /\ Len(Append(s, b)) = Len(s) + 1 /\ Len(s) \in Nat
         /\ \A k \in 1..Len(s) : Append(s, b)[k] = s[k]
         /\ Append(s, b)[Len(s) + 1] = b
<1>1. b \in Block /\ s \in Seq(Block) /\ Len(s) \in Nat
  BY DEF StackOfBlocks, BlockOK
<1>2. /\ Append(s, b) \in Seq(Block) /\ Len(Append(s, b)) = Len(s) + 1
      /\ \A k \in 1..Len(s) : Append(s, b)[k] = s[k]
      /\ Append(s, b)[Len(s) + 1] = b
  BY <1>1
<1>3. \A k \in 1..Len(s) + 1 : k \in 1..Len(s) \/ k = Len(s) + 1
  BY <1>1
<1> QED
  BY <1>1, <1>2, <1>3 DEF StackOfBlocks

\* Changing the jumps of a block to others that arrive with its stack.
LEMMA ExceptOK ==
  ASSUME NEW s, StackOfBlocks(s), NEW k \in 1..Len(s), NEW b, BlockOK(b), b.kind = s[k].kind
  PROVE  /\ StackOfBlocks([s EXCEPT ![k] = b]) /\ Len([s EXCEPT ![k] = b]) = Len(s)
         /\ \A j \in 1..Len(s) : [s EXCEPT ![k] = b][j] = IF j = k THEN b ELSE s[j]
<1>1. b \in Block /\ s \in Seq(Block) /\ Len(s) \in Nat
  BY DEF StackOfBlocks, BlockOK
<1>2. [s EXCEPT ![k] = b] \in Seq(Block) /\ Len([s EXCEPT ![k] = b]) = Len(s)
  BY <1>1
<1>3. \A j \in 1..Len(s) : [s EXCEPT ![k] = b][j] = IF j = k THEN b ELSE s[j]
  BY <1>1
<1> QED
  BY <1>1, <1>2, <1>3 DEF StackOfBlocks

\* The innermost block is a good block, and so is the stack of those around it.
LEMMA InnerOK ==
  ASSUME BlocksOK, blocks # <<>>
  PROVE  /\ Len(blocks) \in Nat /\ Len(blocks) >= 1
         /\ BlockOK(Inner)
         /\ StackOfBlocks(Outer) /\ Len(Outer) = Len(blocks) - 1
         /\ \A k \in 1..Len(blocks)-1 : Outer[k] = blocks[k]
<1>1. Len(blocks) \in Nat /\ Len(blocks) >= 1 /\ Len(blocks) - 1 \in 0..Len(blocks)
  BY DEF BlocksOK, StackOfBlocks
<1>2. BlockOK(Inner)
  BY <1>1 DEF BlocksOK, StackOfBlocks, Inner
<1> QED
  BY <1>1, <1>2, PrefixOK DEF BlocksOK, Outer

\* An END_BLOCK arrives at the stack that the block started with.
LEMMA AfterBlockOK ==
  ASSUME FrameInv, blocks # <<>>
  PROVE  AllAt(AfterBlock, Inner.reserved)
<1>1. Inner.reserved \in Nat /\ stack_reserved \in Nat
  BY InnerOK DEF FrameInv, BlockOK, Block, StackOK
<1>2. AllAt(depths, stack_reserved)
  BY AtZero DEF FrameInv, GhostOK, RspKnown
<1>3. Released \in Int /\ stack_reserved - Released = Inner.reserved
  BY <1>1 DEF Released
<1>4. AllAt(Raise(depths, Released), stack_reserved - Released)
  BY <1>1, <1>2, <1>3, RaiseAt
<1> QED
  BY <1>3, <1>4 DEF AfterBlock

\* The invariant as sets of places, for the steps that follow.
LEMMA GhostAt ==
  GhostOK <=> AllAt(depths, stack_reserved) /\ AllAt(drift, 0) /\ AllAt(pops, 0)
BY AtZero DEF GhostOK, RspKnown, LoopsBalanced, ReturnsBalanced

\* The same in the next state.
LEMMA GhostAtNext ==
  GhostOK' <=> AllAt(depths', stack_reserved') /\ AllAt(drift', 0) /\ AllAt(pops', 0)
BY AtZero DEF GhostOK, RspKnown, LoopsBalanced, ReturnsBalanced

-----------------------------------------------------------------------------
\* A function starts with the invariant.
LEMMA InitInv == Init => FrameInv
<1> SUFFICES ASSUME Init PROVE FrameInv
  OBVIOUS
<1>1. BlocksOK
  BY DEF Init, BlocksOK, StackOfBlocks
<1>2. StackOK /\ LocalsOK
  BY DEF Init, StackOK, LocalsOK, PairsOK
<1>3. GhostOK
  BY DEF Init, GhostOK, RspKnown, LoopsBalanced, ReturnsBalanced
<1> QED
  BY <1>1, <1>2, <1>3 DEF FrameInv

\* What is known of each local variable.
LEMMA LocalIs ==
  ASSUME LocalsOK
  PROVE  /\ locals \in Seq(Local) /\ Len(locals) \in Nat
         /\ \A k \in 1..Len(locals) :
               /\ locals[k] \in Local /\ LocalOK(locals[k])
               /\ locals[k].offset \in Nat /\ locals[k].size \in Nat
               /\ locals[k].level \in Nat /\ locals[k].until \in Nat
<1>1. locals \in Seq(Local) /\ Len(locals) \in Nat /\ \A k \in 1..Len(locals) : locals[k] \in Local
  BY DEF LocalsOK
<1>2. \A l \in Local : l.offset \in Nat /\ l.size \in Nat /\ l.level \in Nat /\ l.until \in Nat
  BY DEF Local
<1> QED
  BY <1>1, <1>2 DEF LocalsOK

\* What an allocation does to the backend's numbers.
LEMMA AllocateStack ==
  ASSUME FrameInv, NEW size \in Sizes, NEW level, Allocate(size, level)
  PROVE  /\ stack_reserved' \in Nat /\ stack_used' = stack_used + size
         /\ stack_used' <= stack_reserved' /\ stack_reserved <= stack_reserved'
<1>1. stack_used \in Nat /\ stack_reserved \in Nat /\ size \in Nat /\ stack_used + size \in Nat
  BY FrameAssumption DEF FrameInv, StackOK
<1>2. stack_used' = stack_used + size /\ stack_reserved' = Reserve(stack_used + size)
  BY DEF Allocate
<1> QED
  BY <1>1, <1>2, ReserveBounds DEF FrameInv

\* What it does to the locals, at the level of the block it is in.
LEMMA AllocateOK ==
  ASSUME FrameInv, NEW size \in Sizes, NEW level \in Nat, level >= Len(blocks),
         temps = 0, temps' = 0, Allocate(size, level),
         Len(blocks') \in Nat, Len(blocks') >= Len(blocks),
         \A k \in 1..Len(blocks) : blocks'[k].used = blocks[k].used,
         \A k \in Len(blocks)+1..Len(blocks') :
            blocks'[k].used \in Nat /\ blocks'[k].used >= stack_used
            /\ (level < k => blocks'[k].used = stack_used + size)
  PROVE  LocalsOK'
<1> USE FrameAssumption
<1> DEFINE n == Len(locals)
           new == NewLocal(size, level)
<1>1. /\ stack_used \in Nat /\ stack_reserved \in Nat /\ size \in Nat /\ Len(blocks) \in Nat
      /\ locals \in Seq(Local) /\ n \in Nat
      /\ \A k \in 1..n : /\ locals[k] \in Local /\ LocalOK(locals[k])
                         /\ locals[k].offset \in Nat /\ locals[k].size \in Nat
                         /\ locals[k].level \in Nat /\ locals[k].until \in Nat
  BY LocalIs DEF FrameInv, StackOK, BlocksOK, StackOfBlocks
<1>2. /\ stack_reserved' \in Nat /\ stack_used' = stack_used + size
      /\ stack_used' <= stack_reserved' /\ stack_reserved <= stack_reserved'
  BY AllocateStack
<1>3. /\ new \in Local /\ Open(new) /\ new.until = 0 /\ new.level = level
      /\ new.size <= new.offset /\ new.offset = stack_used'
      /\ new.offset - new.size = stack_used
  BY <1>1, <1>2 DEF Local, NewLocal, Open
<1>4. locals' = Append(locals, new)
  BY DEF Allocate
<1> HIDE DEF new
<1>5. /\ locals' \in Seq(Local) /\ Len(locals') = n + 1
      /\ \A k \in 1..n : locals'[k] = locals[k]
      /\ locals'[n + 1] = new
  BY <1>1, <1>3, <1>4
<1>6. \A k \in 1..n+1 : k \in 1..n \/ k = n + 1
  BY <1>1
<1>7. \A k \in 1..n : LocalOK(locals[k])'
  <2> SUFFICES ASSUME NEW k \in 1..n PROVE LocalOK(locals[k])'
    OBVIOUS
  <2> DEFINE l == locals[k]
  <2>2. l.offset \in Nat /\ l.until \in Nat /\ l.level \in Nat /\ LocalOK(l) /\ locals'[k] = l
    BY <1>1, <1>5
  <2> HIDE DEF l
  <2>1. /\ l.size <= l.offset /\ l.until <= n
        /\ Open(l) => /\ l.offset <= stack_used
                      /\ \A b \in 1..Len(blocks) : l.level < b => l.offset <= blocks[b].used
    BY <1>1, <2>2 DEF LocalOK
  <2>3. l.until <= Len(locals')
    BY <1>1, <1>5, <2>1, <2>2
  <2>4. Open(l) => l.offset + 8 * temps' <= stack_used'
    BY <1>1, <1>2, <2>1, <2>2
  <2>5. ASSUME Open(l), NEW b \in 1..Len(blocks'), l.level < b PROVE l.offset <= blocks'[b].used
    <3>1. b \in 1..Len(blocks) \/ b \in Len(blocks)+1..Len(blocks')
      BY <1>1
    <3>2. CASE b \in 1..Len(blocks)
      BY <2>1, <2>5, <3>2
    <3>3. CASE b \in Len(blocks)+1..Len(blocks')
      BY <1>1, <2>1, <2>2, <2>5, <3>3
    <3> QED
      BY <3>1, <3>2, <3>3
  <2> QED
    BY <2>1, <2>2, <2>3, <2>4, <2>5 DEF LocalOK, Open
<1>8. ASSUME NEW k, k = n + 1 PROVE LocalOK(locals[k])'
  <2>1. new.offset + 8 * temps' <= stack_used' /\ new.until <= Len(locals')
    BY <1>1, <1>2, <1>3, <1>5
  <2>2. \A b \in 1..Len(blocks') : new.level < b => new.offset <= blocks'[b].used
    BY <1>1, <1>2, <1>3
  <2>3. locals'[k] = new
    BY <1>5, <1>8
  <2> QED
    BY <1>3, <2>1, <2>2, <2>3 DEF LocalOK, Open
<1>9. PairsOK'
  <2> SUFFICES ASSUME NEW k \in 1..n+1, NEW j \in 1..k-1
               PROVE  Apart(locals'[j], locals'[k]) \/ locals'[j].until \in 1..k-1
    BY <1>5 DEF PairsOK, Apart
  <2>1. j \in 1..n /\ locals'[j] = locals[j]
    BY <1>1, <1>5
  <2>2. CASE k \in 1..n
    BY <1>5, <2>1, <2>2 DEF FrameInv, LocalsOK, PairsOK
  <2>3. CASE k = n + 1
    <3>1. LocalOK(locals[j]) /\ locals[j].offset \in Nat /\ locals[j].until \in Nat
      BY <1>1, <2>1
    <3>2. CASE Open(locals[j])
      <4>1. locals[j].offset <= new.offset - new.size
        BY <1>1, <1>3, <3>1, <3>2 DEF LocalOK
      <4> QED
        BY <1>5, <2>1, <2>3, <4>1 DEF Apart
    <3>3. CASE ~Open(locals[j])
      <4>1. locals[j].until \in 1..n
        BY <1>1, <3>1, <3>3 DEF LocalOK, Open
      <4> QED
        BY <1>1, <2>1, <2>3, <4>1
    <3> QED
      BY <3>2, <3>3
  <2> QED
    BY <1>6, <2>2, <2>3
<1>10. \A k \in 1..Len(locals') : LocalOK(locals[k])'
  BY <1>5, <1>6, <1>7, <1>8
<1> QED
  BY <1>5, <1>9, <1>10 DEF LocalsOK

\* The locals when blocks are closed: all are kept, and those of the closed blocks
\* are marked.
LEMMA ClosedOK ==
  ASSUME LocalsOK, NEW n \in Nat, locals' = Closed(n)
  PROVE  /\ locals' \in Seq(Local) /\ Len(locals') = Len(locals)
         /\ \A k \in 1..Len(locals) :
               /\ locals'[k] \in Local
               /\ locals'[k].offset = locals[k].offset /\ locals'[k].size = locals[k].size
               /\ locals'[k].level = locals[k].level
               /\ \/ locals'[k].until = locals[k].until /\ (Open(locals[k]) => locals[k].level <= n)
                  \/ Open(locals[k]) /\ locals'[k].until = Len(locals)
<1> DEFINE m == Len(locals)
           mark(k) == IF Open(locals[k]) /\ locals[k].level > n
                      THEN [locals[k] EXCEPT !.until = m] ELSE locals[k]
<1>1. locals \in Seq(Local) /\ m \in Nat /\ \A k \in 1..m : locals[k] \in Local
  BY DEF LocalsOK
<1>2. \A k \in 1..m : mark(k) \in Local
  BY <1>1 DEF Local
<1>3. locals' = [k \in 1..m |-> mark(k)]
  BY DEF Closed
<1>4. \A k \in 1..m :
         /\ mark(k).offset = locals[k].offset /\ mark(k).size = locals[k].size
         /\ mark(k).level = locals[k].level
         /\ \/ mark(k).until = locals[k].until /\ (Open(locals[k]) => locals[k].level <= n)
            \/ Open(locals[k]) /\ mark(k).until = m
  BY <1>1 DEF Local
<1> HIDE DEF mark
<1>5. locals' \in [1..m -> Local]
  BY <1>2, <1>3
<1>6. locals' \in Seq(Local) /\ Len(locals') = m
  BY <1>1, <1>5
<1> QED
  BY <1>2, <1>3, <1>4, <1>6

-----------------------------------------------------------------------------
\* What a new block starts with: the backend's stack, where rsp really is.
LEMMA NewBlockOK ==
  ASSUME NEW kind \in Kinds, NEW r \in Nat, NEW u \in Nat, u <= r,
         NEW head, NEW next, NEW done,
         AllAt(head, r), AllAt(next, r), AllAt(done, r)
  PROVE  BlockOK(NewBlock(kind, r, u, head, next, done))
<1>1. \A S : AllAt(S, r) => S \in SUBSET Int
  BY DEF AllAt
<1>2. NewBlock(kind, r, u, head, next, done) \in Block
  BY <1>1 DEF NewBlock, Block
<1> QED
  BY <1>2 DEF NewBlock, BlockOK

\* Nothing arrives anywhere along no path.
LEMMA NoneAt == ASSUME NEW n PROVE AllAt({}, n)
BY DEF AllAt

\* The locals when the stack goes back to the start of block n.
LEMMA ScopeOK ==
  ASSUME FrameInv, NEW n \in 1..Len(blocks),
         locals' = Closed(n - 1), stack_used' = blocks[n].used, temps' = 0,
         Len(blocks') \in {n - 1, n},
         \A k \in 1..Len(blocks') : blocks'[k].used = blocks[k].used
  PROVE  LocalsOK'
<1> DEFINE m == Len(locals)
<1>1. /\ Len(blocks) \in Nat /\ temps \in Nat /\ n \in Nat /\ n - 1 \in Nat /\ LocalsOK
      /\ m \in Nat /\ \A k \in 1..m : locals[k] \in Local /\ LocalOK(locals[k])
      /\ \A k \in 1..Len(blocks') : k \in 1..Len(blocks)
      /\ blocks[n].used \in Nat
  <2>1. /\ LocalsOK /\ locals \in Seq(Local) /\ temps \in Nat
        /\ \A k \in 1..Len(locals) : LocalOK(locals[k])
    BY DEF FrameInv, StackOK, LocalsOK
  <2>2. m \in Nat /\ \A k \in 1..m : locals[k] \in Local
    BY <2>1
  <2>3. blocks \in Seq(Block)
    BY DEF FrameInv, BlocksOK, StackOfBlocks
  <2>4. Len(blocks) \in Nat /\ blocks[n] \in Block
    BY <2>3
  <2>5. blocks[n].used \in Nat
    BY <2>4 DEF Block
  <2>6. n \in Nat /\ n - 1 \in Nat /\ \A k \in 1..Len(blocks') : k \in 1..Len(blocks)
    BY <2>4
  <2> QED
    BY <2>1, <2>2, <2>4, <2>5, <2>6
<1>2. /\ locals' \in Seq(Local) /\ Len(locals') = m
      /\ \A k \in 1..m :
            /\ locals'[k] \in Local
            /\ locals'[k].offset = locals[k].offset /\ locals'[k].size = locals[k].size
            /\ locals'[k].level = locals[k].level
            /\ \/ locals'[k].until = locals[k].until /\ (Open(locals[k]) => locals[k].level <= n - 1)
               \/ Open(locals[k]) /\ locals'[k].until = m
  BY <1>1, ClosedOK
<1>3. \A k \in 1..m : LocalOK(locals[k])'
  <2> SUFFICES ASSUME NEW k \in 1..m PROVE LocalOK(locals[k])'
    OBVIOUS
  <2>1. /\ locals[k] \in Local /\ LocalOK(locals[k]) /\ locals'[k] \in Local
        /\ locals'[k].offset = locals[k].offset /\ locals'[k].size = locals[k].size
        /\ locals'[k].level = locals[k].level
        /\ \/ locals'[k].until = locals[k].until /\ (Open(locals[k]) => locals[k].level <= n - 1)
           \/ Open(locals[k]) /\ locals'[k].until = m
    BY <1>1, <1>2
  <2>2. /\ locals'[k].size <= locals'[k].offset
        /\ locals'[k].until <= Len(locals')
    BY <1>1, <1>2, <2>1 DEF LocalOK
  <2>3. Open(locals'[k]) =>
           /\ locals'[k].offset + 8 * temps' <= stack_used'
           /\ \A b \in 1..Len(blocks') : locals'[k].level < b => locals'[k].offset <= blocks'[b].used
    <3> SUFFICES ASSUME Open(locals'[k])
                 PROVE  /\ locals'[k].offset + 8 * temps' <= stack_used'
                        /\ \A b \in 1..Len(blocks') :
                              locals'[k].level < b => locals'[k].offset <= blocks'[b].used
      OBVIOUS
    <3>1. m >= 1
      BY <1>1
    <3>2. locals'[k].until = locals[k].until /\ Open(locals[k]) /\ locals[k].level <= n - 1
      BY <1>1, <2>1, <3>1 DEF Open
    <3>3. \A b \in 1..Len(blocks) : locals[k].level < b => locals[k].offset <= blocks[b].used
      BY <2>1, <3>2 DEF LocalOK
    <3>4. locals[k].level \in Nat /\ locals[k].offset \in Nat /\ locals[k].level < n
      BY <1>1, <2>1, <3>2 DEF Local
    <3>5. locals[k].offset <= blocks[n].used
      BY <3>3, <3>4
    <3>6. locals'[k].offset + 8 * temps' <= stack_used'
      BY <1>1, <2>1, <3>4, <3>5
    <3>7. \A b \in 1..Len(blocks') : locals'[k].level < b => locals'[k].offset <= blocks'[b].used
      BY <1>1, <2>1, <3>3
    <3> QED
      BY <3>6, <3>7
  <2> QED
    BY <2>2, <2>3 DEF LocalOK, Open
<1>4. PairsOK'
  <2> SUFFICES ASSUME NEW k \in 1..m, NEW j \in 1..k-1
               PROVE  Apart(locals'[j], locals'[k]) \/ locals'[j].until \in 1..k-1
    BY <1>2 DEF PairsOK, Apart
  <2>1. j \in 1..m
    BY <1>1
  <2>2. Apart(locals[j], locals[k]) \/ locals[j].until \in 1..k-1
    BY <1>1 DEF LocalsOK, PairsOK
  <2>3. CASE Apart(locals[j], locals[k])
    BY <1>2, <2>1, <2>3 DEF Apart
  <2>4. CASE locals[j].until \in 1..k-1
    <3>1. locals'[j].until = locals[j].until
      BY <1>2, <2>1, <2>4 DEF Open
    <3> QED
      BY <2>4, <3>1
  <2> QED
    BY <2>2, <2>3, <2>4
<1> QED
  BY <1>2, <1>3, <1>4 DEF LocalsOK

\* The backend's numbers at the start of a block.
LEMMA StartOK ==
  ASSUME FrameInv, NEW n \in 1..Len(blocks),
         stack_reserved' = blocks[n].reserved, stack_used' = blocks[n].used, temps' = 0
  PROVE  StackOK'
<1>1. BlockOK(blocks[n])
  BY DEF FrameInv, BlocksOK, StackOfBlocks
<1> QED
  BY <1>1 DEF BlockOK, Block, StackOK

\* A local variable lowers rsp by what allocate_local_variable reserves.
LEMMA DeclareStep == ASSUME FrameInv, NEW size \in Sizes, Declare(size) PROVE FrameInv'
<1>1. Len(blocks) \in Nat /\ Len(blocks) >= Len(blocks) /\ temps = 0 /\ Allocate(size, Len(blocks))
  BY DEF Declare, Statement, FrameInv, BlocksOK, StackOfBlocks
<1>2. UNCHANGED <<blocks, temps, drift, pops>> /\ \A k \in Len(blocks)+1..Len(blocks) : FALSE
  BY <1>1 DEF Declare
<1>3. /\ stack_reserved' \in Nat /\ stack_used' = stack_used + size
      /\ stack_used' <= stack_reserved' /\ stack_reserved <= stack_reserved'
      /\ LocalsOK'
  BY <1>1, <1>2, AllocateStack, AllocateOK
<1>4. BlocksOK'
  BY <1>2 DEF FrameInv, BlocksOK
<1>5. stack_used \in Nat /\ stack_reserved \in Nat /\ size \in Nat
  BY FrameAssumption DEF FrameInv, StackOK
<1>6. StackOK'
  BY <1>1, <1>2, <1>3, <1>5 DEF StackOK
<1>8. GhostOK'
  <2>1. AllAt(depths, stack_reserved) /\ AllAt(drift, 0) /\ AllAt(pops, 0)
    BY GhostAt DEF FrameInv
  <2>2. depths' = Lower(depths, stack_reserved' - stack_reserved)
    BY DEF Declare
  <2>3. stack_reserved' - stack_reserved \in Int
        /\ stack_reserved + (stack_reserved' - stack_reserved) = stack_reserved'
    BY <1>3, <1>5, Difference
  <2>4. AllAt(depths', stack_reserved')
    BY <2>1, <2>2, <2>3, <1>5, LowerAt
  <2> QED
    BY <1>2, <2>1, <2>4, GhostAtNext
<1> QED
  BY <1>3, <1>4, <1>6, <1>8 DEF FrameInv

\* A value pushed by an expression moves rsp and the backend's count together.
LEMMA PushStep == ASSUME FrameInv, Push PROVE FrameInv'
<1>1. /\ temps' = temps + 1 /\ stack_used' = stack_used + 8 /\ stack_reserved' = stack_reserved + 8
      /\ depths' = Lower(depths, 8) /\ UNCHANGED <<blocks, locals, drift, pops>>
  BY DEF Push
<1>2. StackOK'
  BY <1>1 DEF FrameInv, StackOK
<1>3. BlocksOK'
  BY <1>1 DEF FrameInv, BlocksOK
<1>4. \A k \in 1..Len(locals) : LocalOK(locals[k]) /\ locals[k].offset \in Nat
  BY LocalIs DEF FrameInv
<1>5. temps \in Nat /\ stack_used \in Nat /\ stack_reserved \in Nat
  BY DEF FrameInv, StackOK
<1>6. \A k \in 1..Len(locals) : LocalOK(locals[k])'
  BY <1>1, <1>4, <1>5 DEF LocalOK, Open
<1>7. LocalsOK'
  BY <1>1, <1>6 DEF FrameInv, LocalsOK, PairsOK
<1>8. GhostOK'
  <2>1. AllAt(depths, stack_reserved) /\ AllAt(drift, 0) /\ AllAt(pops, 0)
    BY GhostAt DEF FrameInv
  <2>2. AllAt(depths', stack_reserved')
    BY <2>1, <1>1, <1>5, LowerAt
  <2> QED
    BY <1>1, <2>1, <2>2, GhostAtNext
<1> QED
  BY <1>2, <1>3, <1>7, <1>8 DEF FrameInv

\* So does a value popped, and no local variable is above it.
LEMMA PopStep == ASSUME FrameInv, Pop PROVE FrameInv'
<1>1. /\ temps > 0 /\ temps' = temps - 1
      /\ stack_used' = stack_used - 8 /\ stack_reserved' = stack_reserved - 8
      /\ depths' = Raise(depths, 8) /\ UNCHANGED <<blocks, locals, drift, pops>>
  BY DEF Pop
<1>2. StackOK'
  BY <1>1 DEF FrameInv, StackOK
<1>3. BlocksOK'
  BY <1>1 DEF FrameInv, BlocksOK
<1>4. \A k \in 1..Len(locals) : LocalOK(locals[k]) /\ locals[k].offset \in Nat
  BY LocalIs DEF FrameInv
<1>5. temps \in Nat /\ stack_used \in Nat /\ stack_reserved \in Nat
  BY DEF FrameInv, StackOK
<1>6. \A k \in 1..Len(locals) : LocalOK(locals[k])'
  BY <1>1, <1>4, <1>5 DEF LocalOK, Open
<1>7. LocalsOK'
  BY <1>1, <1>6 DEF FrameInv, LocalsOK, PairsOK
<1>8. GhostOK'
  <2>1. AllAt(depths, stack_reserved) /\ AllAt(drift, 0) /\ AllAt(pops, 0)
    BY GhostAt DEF FrameInv
  <2>2. AllAt(depths', stack_reserved')
    BY <2>1, <1>1, <1>5, RaiseAt
  <2> QED
    BY <1>1, <2>1, <2>2, GhostAtNext
<1> QED
  BY <1>2, <1>3, <1>7, <1>8 DEF FrameInv

\* Blocks opened where the statement stands leave the locals as they are.
LEMMA DeeperOK ==
  ASSUME FrameInv, temps = 0, UNCHANGED <<stack_used, locals, temps>>,
         Len(blocks') \in Nat, \A k \in 1..Len(blocks) : blocks'[k].used = blocks[k].used,
         \A k \in Len(blocks)+1..Len(blocks') : blocks'[k].used = stack_used
  PROVE  LocalsOK'
<1>1. Len(blocks) \in Nat /\ stack_used \in Nat
  BY DEF FrameInv, StackOK, BlocksOK, StackOfBlocks
<1>2. \A k \in 1..Len(blocks') : k \in 1..Len(blocks) \/ k \in Len(blocks)+1..Len(blocks')
  BY <1>1
<1>3. \A k \in 1..Len(locals) : LocalOK(locals[k])'
  <2> SUFFICES ASSUME NEW j \in 1..Len(locals) PROVE LocalOK(locals[j])'
    OBVIOUS
  <2>1. LocalOK(locals[j]) /\ locals[j].offset \in Nat
    BY LocalIs DEF FrameInv
  <2>2. Open(locals[j]) => locals[j].offset <= stack_used
    BY <1>1, <2>1 DEF LocalOK
  <2> QED
    BY <1>2, <2>1, <2>2 DEF LocalOK, Open
<1> QED
  BY <1>3 DEF FrameInv, LocalsOK, PairsOK

\* A block opened where the statement stands.
LEMMA OpenOK ==
  ASSUME FrameInv, NEW b, BlockOK(b), b.used = stack_used, b.kind # "for",
         OpenBlock(b), UNCHANGED <<stack_reserved, stack_used, locals, temps, depths, drift, pops>>
  PROVE  FrameInv'
<1>1. StackOfBlocks(blocks) /\ blocks' = Append(blocks, b) /\ temps = 0
  BY DEF FrameInv, BlocksOK, OpenBlock, Statement
<1>2. /\ StackOfBlocks(blocks') /\ Len(blocks') = Len(blocks) + 1 /\ Len(blocks) \in Nat
      /\ \A k \in 1..Len(blocks) : blocks'[k] = blocks[k]
      /\ blocks'[Len(blocks) + 1] = b
  BY <1>1, AppendOK
<1>3. BlocksOK'
  BY <1>2 DEF BlocksOK
<1>4. StackOK' /\ GhostOK'
  BY DEF FrameInv, StackOK, GhostOK, RspKnown, LoopsBalanced, ReturnsBalanced
<1>5. LocalsOK'
  BY <1>1, <1>2, DeeperOK DEF FrameInv
<1> QED
  BY <1>3, <1>4, <1>5 DEF FrameInv

\* An if, a while or a do opens a block at the stack where it stands.
LEMMA OpenStep == ASSUME FrameInv, OpenIf \/ OpenWhile \/ OpenDo PROVE FrameInv'
<1>1. /\ stack_reserved \in Nat /\ stack_used \in Nat /\ stack_used <= stack_reserved
      /\ AllAt(depths, stack_reserved) /\ AllAt({}, stack_reserved)
  BY GhostAt, NoneAt DEF FrameInv, StackOK
<1>2. CASE OpenIf
  <2> DEFINE b == NewBlock("if", stack_reserved, stack_used, {}, depths, {})
  <2>1. BlockOK(b) /\ b.used = stack_used /\ b.kind # "for"
    BY <1>1, NewBlockOK DEF Kinds, NewBlock
  <2> QED
    BY <1>2, <2>1, OpenOK DEF OpenIf
<1>3. CASE OpenWhile
  <2> DEFINE b == NewBlock("while", stack_reserved, stack_used, depths, {}, depths)
  <2>1. BlockOK(b) /\ b.used = stack_used /\ b.kind # "for"
    BY <1>1, NewBlockOK DEF Kinds, NewBlock
  <2> QED
    BY <1>3, <2>1, OpenOK DEF OpenWhile
<1>4. CASE OpenDo
  <2> DEFINE b == NewBlock("do", stack_reserved, stack_used, depths, {}, {})
  <2>1. BlockOK(b) /\ b.used = stack_used /\ b.kind # "for"
    BY <1>1, NewBlockOK DEF Kinds, NewBlock
  <2> QED
    BY <1>4, <2>1, OpenOK DEF OpenDo
<1> QED
  BY <1>2, <1>3, <1>4

\* Closing the innermost block.
LEMMA CloseBlockOK ==
  ASSUME FrameInv, Statement, blocks # <<>>, CloseBlock, UNCHANGED temps
  PROVE  /\ BlocksOK' /\ StackOK' /\ LocalsOK'
         /\ stack_reserved' = Inner.reserved
<1>1. /\ Len(blocks) \in Nat /\ Len(blocks) >= 1 /\ Len(blocks) \in 1..Len(blocks)
      /\ StackOfBlocks(Outer) /\ Len(Outer) = Len(blocks) - 1
      /\ \A k \in 1..Len(blocks)-1 : Outer[k] = blocks[k]
  BY InnerOK DEF FrameInv
<1>2. /\ blocks' = Outer /\ temps' = 0
      /\ stack_reserved' = blocks[Len(blocks)].reserved
      /\ stack_used' = blocks[Len(blocks)].used
      /\ locals' = Closed(Len(blocks) - 1)
  BY DEF CloseBlock, Inner, Statement
<1>3. BlocksOK'
  BY <1>1, <1>2 DEF BlocksOK
<1>4. StackOK'
  BY <1>1, <1>2, StartOK
<1>5. /\ Len(blocks') \in {Len(blocks) - 1, Len(blocks)}
      /\ \A k \in 1..Len(blocks') : blocks'[k].used = blocks[k].used
  BY <1>1, <1>2
<1>6. LocalsOK'
  BY <1>1, <1>2, <1>5, ScopeOK
<1> QED
  BY <1>2, <1>3, <1>4, <1>6 DEF Inner

\* An else starts with the stack that its if started with.
LEMMA ElseStep == ASSUME FrameInv, Else PROVE FrameInv'
<1> DEFINE n == Len(blocks)
           b == NewBlock("else", Inner.reserved, Inner.used, {}, {}, AfterBlock)
<1>1. /\ blocks' = Append(Outer, b) /\ temps = 0 /\ temps' = 0 /\ blocks # <<>>
      /\ stack_reserved' = Inner.reserved /\ stack_used' = Inner.used
      /\ locals' = Closed(Len(blocks) - 1)
      /\ depths' = Inner.next /\ UNCHANGED <<drift, pops>>
  BY DEF Else, Statement
<1>2. /\ n \in Nat /\ n >= 1 /\ n \in 1..n /\ BlockOK(Inner)
      /\ StackOfBlocks(Outer) /\ Len(Outer) = n - 1
      /\ \A k \in 1..n-1 : Outer[k] = blocks[k]
  BY <1>1, InnerOK DEF FrameInv
<1>3. Inner.reserved \in Nat /\ Inner.used \in Nat /\ Inner.used <= Inner.reserved
      /\ AllAt(Inner.next, Inner.reserved)
  BY <1>2 DEF BlockOK, Block
<1>4. BlockOK(b) /\ b.used = Inner.used /\ b.kind # "for"
  <2>1. AllAt(AfterBlock, Inner.reserved) /\ AllAt({}, Inner.reserved)
    BY <1>1, AfterBlockOK, NoneAt
  <2>2. BlockOK(b)
    BY <1>3, <2>1, NewBlockOK DEF Kinds
  <2> QED
    BY <2>2 DEF NewBlock
<1> HIDE DEF b
<1>5. /\ StackOfBlocks(blocks') /\ Len(blocks') = Len(Outer) + 1
      /\ \A k \in 1..Len(Outer) : blocks'[k] = Outer[k]
      /\ blocks'[Len(Outer) + 1] = b
  BY <1>1, <1>2, <1>4, AppendOK
<1>6. Len(blocks') = n /\ \A k \in 1..n : blocks'[k].used = blocks[k].used
  <2>1. Len(Outer) + 1 = n /\ \A k \in 1..n : k \in 1..n-1 \/ k = n
    BY <1>2
  <2>2. \A k \in 1..n-1 : blocks'[k] = blocks[k]
    BY <1>2, <1>5
  <2>3. blocks'[n].used = blocks[n].used
    BY <1>4, <1>5, <2>1 DEF Inner
  <2> QED
    BY <1>5, <2>1, <2>2, <2>3
<1>7. BlocksOK'
  BY <1>5 DEF BlocksOK
<1>8. StackOK' /\ LocalsOK'
  <2>1. StackOK'
    BY <1>1, <1>2, StartOK DEF Inner
  <2>2. LocalsOK'
    BY <1>1, <1>2, <1>6, ScopeOK DEF Inner
  <2> QED
    BY <2>1, <2>2
<1>9. GhostOK'
  <2>1. AllAt(drift', 0) /\ AllAt(pops', 0)
    BY <1>1, GhostAt DEF FrameInv
  <2> QED
    BY <1>1, <1>3, <2>1, GhostAtNext
<1> QED
  BY <1>7, <1>8, <1>9 DEF FrameInv

\* Both branches of an if, and the skipped if, arrive with the same stack.
LEMMA CloseIfStep == ASSUME FrameInv, CloseIf PROVE FrameInv'
<1>1. /\ Statement /\ blocks # <<>> /\ CloseBlock /\ UNCHANGED <<temps, drift, pops>>
      /\ depths' = AfterBlock \union Inner.next \union Inner.done
  BY DEF CloseIf
<1>2. BlocksOK' /\ StackOK' /\ LocalsOK' /\ stack_reserved' = Inner.reserved
  BY <1>1, CloseBlockOK
<1>3. BlockOK(Inner)
  BY <1>1, InnerOK DEF FrameInv
<1>4. AllAt(AfterBlock, Inner.reserved) /\ AllAt(Inner.next, Inner.reserved)
      /\ AllAt(Inner.done, Inner.reserved)
  BY <1>1, <1>3, AfterBlockOK DEF BlockOK
<1>5. AllAt(depths', stack_reserved')
  BY <1>1, <1>2, <1>4, UnionAt
<1>6. AllAt(drift', 0) /\ AllAt(pops', 0)
  BY <1>1, GhostAt DEF FrameInv
<1> QED
  BY <1>2, <1>5, <1>6, GhostAtNext DEF FrameInv

\* The end of a loop body, its continues and its breaks arrive with the stack
\* of the start of the loop.
LEMMA CloseLoopStep == ASSUME FrameInv, CloseLoop PROVE FrameInv'
<1> DEFINE ends == AfterBlock \union Inner.next
<1>1. /\ Statement /\ blocks # <<>> /\ CloseBlock /\ UNCHANGED <<temps, pops>>
      /\ drift' = drift \union Drifts(ends, Inner.head)
      /\ depths' = ends \union Inner.done
  BY DEF CloseLoop
<1>2. BlocksOK' /\ StackOK' /\ LocalsOK' /\ stack_reserved' = Inner.reserved
  BY <1>1, CloseBlockOK
<1>3. BlockOK(Inner)
  BY <1>1, InnerOK DEF FrameInv
<1>4. AllAt(AfterBlock, Inner.reserved) /\ AllAt(Inner.next, Inner.reserved)
      /\ AllAt(Inner.done, Inner.reserved) /\ AllAt(Inner.head, Inner.reserved)
      /\ Inner.reserved \in Int
  BY <1>1, <1>3, AfterBlockOK DEF BlockOK, Block
<1>5. AllAt(ends, Inner.reserved)
  BY <1>4, UnionAt
<1> HIDE DEF ends
<1>6. AllAt(depths', stack_reserved')
  BY <1>1, <1>2, <1>4, <1>5, UnionAt
<1>7. AllAt(drift, 0) /\ AllAt(pops', 0)
  BY <1>1, GhostAt DEF FrameInv
<1>8. AllAt(drift', 0)
  BY <1>1, <1>4, <1>5, <1>7, DriftAt, UnionAt
<1> QED
  BY <1>2, <1>6, <1>7, <1>8, GhostAtNext DEF FrameInv

\* The two blocks of a for loop.
LEMMA ForBlocksOK ==
  ASSUME FrameInv, NEW r \in Nat, NEW u \in Nat, u <= r, NEW here, AllAt(here, r),
         blocks' = blocks \o <<NewBlock("iterator", stack_reserved, stack_used, {}, {}, {}),
                               NewBlock("for", r, u, here, {}, here)>>
  PROVE  /\ BlocksOK' /\ Len(blocks) \in Nat /\ Len(blocks') = Len(blocks) + 2
         /\ \A k \in 1..Len(blocks) : blocks'[k].used = blocks[k].used
         /\ blocks'[Len(blocks) + 1].used = stack_used
         /\ blocks'[Len(blocks) + 2].used = u
<1> DEFINE n == Len(blocks)
           a == NewBlock("iterator", stack_reserved, stack_used, {}, {}, {})
           b == NewBlock("for", r, u, here, {}, here)
           s == Append(blocks, a)
<1>1. /\ n \in Nat /\ StackOfBlocks(blocks)
      /\ stack_used \in Nat /\ stack_reserved \in Nat /\ stack_used <= stack_reserved
  BY DEF FrameInv, BlocksOK, StackOfBlocks, StackOK
<1>2. BlockOK(a) /\ a.used = stack_used /\ a.kind = "iterator"
  <2>1. BlockOK(a)
    BY <1>1, NoneAt, NewBlockOK DEF Kinds
  <2> QED
    BY <2>1 DEF NewBlock
<1>3. BlockOK(b) /\ b.used = u
  <2>1. BlockOK(b)
    BY NoneAt, NewBlockOK DEF Kinds
  <2> QED
    BY <2>1 DEF NewBlock
<1>4. blocks' = blocks \o <<a, b>>
  OBVIOUS
<1> HIDE DEF a, b
<1>5. /\ StackOfBlocks(s) /\ Len(s) = n + 1
      /\ \A k \in 1..n : s[k] = blocks[k]
      /\ s[n + 1] = a
  BY <1>1, <1>2, AppendOK
<1>6. blocks' = Append(s, b)
  BY <1>1, <1>2, <1>3, <1>4 DEF StackOfBlocks, BlockOK
<1> HIDE DEF s
<1>7. /\ StackOfBlocks(blocks') /\ Len(blocks') = n + 2
      /\ \A k \in 1..n+1 : blocks'[k] = s[k]
      /\ blocks'[n + 2] = b
  <2>1. Len(s) > 0 /\ Len(s) + 1 = n + 2
    BY <1>1, <1>5
  <2>2. /\ StackOfBlocks(Append(s, b)) /\ Len(Append(s, b)) = Len(s) + 1
        /\ \A k \in 1..Len(s) : Append(s, b)[k] = s[k]
        /\ Append(s, b)[Len(s) + 1] = b
    BY <1>3, <1>5, <2>1, AppendOK
  <2> QED
    BY <1>5, <1>6, <2>1, <2>2
<1>8. n + 1 \in 1..n+1 /\ \A k \in 1..n : k \in 1..n+1
  BY <1>1
<1> QED
  BY <1>1, <1>2, <1>3, <1>5, <1>7, <1>8 DEF BlocksOK

\* A for loop reserves its iterator in a block around its body.
LEMMA OpenForStep == ASSUME FrameInv, NEW size \in Sizes, OpenFor(size) PROVE FrameInv'
<1> USE FrameAssumption
<1> DEFINE n    == Len(blocks)
           here == Lower(depths, stack_reserved' - stack_reserved)
<1>1. /\ temps = 0 /\ temps' = 0 /\ Allocate(size, n + 1) /\ depths' = here
      /\ blocks' = blocks \o <<NewBlock("iterator", stack_reserved, stack_used, {}, {}, {}),
                               NewBlock("for", stack_reserved', stack_used', here, {}, here)>>
      /\ UNCHANGED <<temps, drift, pops>>
  BY DEF OpenFor, Statement
<1>2. /\ n \in Nat /\ n + 1 \in Nat /\ n + 1 >= n
      /\ stack_used \in Nat /\ stack_reserved \in Nat /\ size \in Nat
  BY DEF FrameInv, BlocksOK, StackOfBlocks, StackOK
<1>3. /\ stack_reserved' \in Nat /\ stack_used' = stack_used + size /\ stack_used' \in Nat
      /\ stack_used' <= stack_reserved' /\ stack_reserved <= stack_reserved'
  BY <1>1, <1>2, AllocateStack
<1>4. AllAt(here, stack_reserved')
  <2>1. AllAt(depths, stack_reserved)
    BY GhostAt DEF FrameInv
  <2>2. stack_reserved' - stack_reserved \in Int
        /\ stack_reserved + (stack_reserved' - stack_reserved) = stack_reserved'
    <3>1. stack_reserved \in Nat /\ stack_reserved' \in Nat
      BY <1>2, <1>3
    <3> QED
      BY <3>1, Difference
  <2> QED
    BY <1>2, <2>1, <2>2, LowerAt
<1> HIDE DEF here
<1>5. /\ BlocksOK' /\ Len(blocks') = n + 2
      /\ \A k \in 1..n : blocks'[k].used = blocks[k].used
      /\ blocks'[n + 1].used = stack_used /\ blocks'[n + 2].used = stack_used'
  BY <1>1, <1>3, <1>4, ForBlocksOK
<1>6. StackOK'
  BY <1>1, <1>2, <1>3 DEF StackOK
<1>7. LocalsOK'
  <2>1. \A k \in n+1..Len(blocks') : k = n + 1 \/ k = n + 2
    BY <1>2, <1>5
  <2>2. \A k \in n+1..Len(blocks') :
           blocks'[k].used \in Nat /\ blocks'[k].used >= stack_used
           /\ (n + 1 < k => blocks'[k].used = stack_used + size)
    BY <1>2, <1>3, <1>5, <2>1
  <2>3. Len(blocks') \in Nat /\ Len(blocks') >= n
    BY <1>2, <1>5
  <2> QED
    BY <1>1, <1>2, <1>5, <2>2, <2>3, AllocateOK
<1>8. GhostOK'
  BY <1>1, <1>4, GhostAt, GhostAtNext DEF FrameInv
<1> QED
  BY <1>5, <1>6, <1>7, <1>8 DEF FrameInv

\* Over a variable that exists it reserves nothing.
LEMMA OpenForOverStep == ASSUME FrameInv, OpenForOver PROVE FrameInv'
<1> DEFINE n == Len(blocks)
<1>1. /\ temps = 0 /\ UNCHANGED <<stack_reserved, stack_used, locals, temps, depths, drift, pops>>
      /\ blocks' = blocks \o <<NewBlock("iterator", stack_reserved, stack_used, {}, {}, {}),
                               NewBlock("for", stack_reserved, stack_used, depths, {}, depths)>>
  BY DEF OpenForOver, Statement
<1>2. /\ stack_reserved \in Nat /\ stack_used \in Nat /\ stack_used <= stack_reserved
      /\ AllAt(depths, stack_reserved)
  BY GhostAt DEF FrameInv, StackOK
<1>3. /\ BlocksOK' /\ n \in Nat /\ Len(blocks') = n + 2
      /\ \A k \in 1..n : blocks'[k].used = blocks[k].used
      /\ blocks'[n + 1].used = stack_used /\ blocks'[n + 2].used = stack_used
  BY <1>1, <1>2, ForBlocksOK
<1>4. StackOK' /\ GhostOK'
  BY <1>1 DEF FrameInv, StackOK, GhostOK, RspKnown, LoopsBalanced, ReturnsBalanced
<1>5. LocalsOK'
  <2>1. Len(blocks') \in Nat /\ \A k \in n+1..Len(blocks') : k = n + 1 \/ k = n + 2
    BY <1>3
  <2>2. \A k \in n+1..Len(blocks') : blocks'[k].used = stack_used
    BY <1>3, <2>1
  <2> QED
    BY <1>1, <1>3, <2>1, <2>2, DeeperOK
<1> QED
  BY <1>3, <1>4, <1>5 DEF FrameInv

\* A for loop gives back its body's block, and then its iterator's.
LEMMA CloseForStep == ASSUME FrameInv, CloseFor PROVE FrameInv'
<1> DEFINE n        == Len(blocks)
           iterator == blocks[n - 1]
           ends     == AfterBlock \union Inner.next
<1>1. /\ temps = 0 /\ blocks # <<>> /\ Inner.kind = "for" /\ UNCHANGED <<temps, pops>>
      /\ blocks' = SubSeq(blocks, 1, n - 2)
      /\ stack_reserved' = iterator.reserved /\ stack_used' = iterator.used
      /\ locals' = Closed(n - 2)
      /\ drift' = drift \union Drifts(ends, Inner.head)
      /\ depths' = Raise(ends \union Inner.done, Inner.reserved - iterator.reserved)
  BY DEF CloseFor, Statement
<1>2. /\ n \in Nat /\ n >= 1 /\ BlockOK(Inner) /\ StackOfBlocks(blocks)
  BY <1>1, InnerOK DEF FrameInv, BlocksOK
<1>3. n > 1 /\ n - 1 \in 1..n /\ n - 2 \in 0..n /\ (n - 1) - 1 = n - 2
  <2>1. n > 1
    BY <1>1, <1>2 DEF StackOfBlocks, Inner
  <2> QED
    BY <1>2, <2>1
<1>4. /\ StackOfBlocks(blocks') /\ Len(blocks') = n - 2
      /\ \A k \in 1..n-2 : blocks'[k] = blocks[k]
  BY <1>1, <1>2, <1>3, PrefixOK
<1>5. BlocksOK'
  BY <1>4 DEF BlocksOK
<1>6. StackOK'
  BY <1>1, <1>3, StartOK
<1>7. LocalsOK'
  <2>1. locals' = Closed((n - 1) - 1) /\ Len(blocks') \in {(n - 1) - 1, n - 1} /\ temps' = 0
    BY <1>1, <1>3, <1>4
  <2>2. \A k \in 1..Len(blocks') : blocks'[k].used = blocks[k].used
    BY <1>4
  <2> QED
    BY <1>1, <1>3, <2>1, <2>2, ScopeOK
<1>8. AllAt(AfterBlock, Inner.reserved) /\ AllAt(Inner.next, Inner.reserved)
      /\ AllAt(Inner.done, Inner.reserved) /\ AllAt(Inner.head, Inner.reserved)
      /\ Inner.reserved \in Int
  BY <1>1, <1>2, AfterBlockOK DEF BlockOK, Block
<1>9. iterator.reserved \in Nat
  BY <1>2, <1>3 DEF StackOfBlocks, BlockOK, Block
<1>10. AllAt(ends, Inner.reserved)
  BY <1>8, UnionAt
<1> HIDE DEF ends, iterator
<1>11. AllAt(depths', stack_reserved')
  <2>1. AllAt(ends \union Inner.done, Inner.reserved)
    BY <1>8, <1>10, UnionAt
  <2>2. Inner.reserved - iterator.reserved \in Int
        /\ Inner.reserved - (Inner.reserved - iterator.reserved) = iterator.reserved
    BY <1>8, <1>9
  <2>3. AllAt(Raise(ends \union Inner.done, Inner.reserved - iterator.reserved),
              Inner.reserved - (Inner.reserved - iterator.reserved))
    BY <1>8, <2>1, <2>2, RaiseAt
  <2> QED
    BY <1>1, <2>2, <2>3
<1>12. AllAt(drift, 0) /\ AllAt(pops', 0)
  BY <1>1, GhostAt DEF FrameInv
<1>13. AllAt(drift', 0)
  BY <1>1, <1>8, <1>10, <1>12, DriftAt, UnionAt
<1> QED
  BY <1>5, <1>6, <1>7, <1>11, <1>12, <1>13, GhostAtNext DEF FrameInv

\* A sound break or continue arrives with the stack of the start of its loop.
LEMMA JumpStep ==
  ASSUME FrameInv, NEW k \in 1..Len(blocks), NEW label \in {"break", "continue"},
         SoundJump(k), Jump(k, label)
  PROVE  FrameInv'
<1>1. /\ temps = 0 /\ blocks[k].reserved = Inner.reserved
      /\ stack_used' = stack_reserved /\ depths' = {}
      /\ UNCHANGED <<stack_reserved, locals, temps, drift, pops>>
  BY DEF Jump, SoundJump, Statement
<1>2. /\ StackOfBlocks(blocks) /\ Len(blocks) \in Nat /\ blocks # <<>> /\ BlockOK(blocks[k])
  BY DEF FrameInv, BlocksOK, StackOfBlocks
<1>3. AllAt(AfterBlock, blocks[k].reserved)
  BY <1>1, <1>2, AfterBlockOK
<1> DEFINE b == IF label = "break" THEN [blocks[k] EXCEPT !.done = @ \union AfterBlock]
                                   ELSE [blocks[k] EXCEPT !.next = @ \union AfterBlock]
<1>4. blocks' = [blocks EXCEPT ![k] = b]
  <2>1. CASE label = "break"
    BY <2>1 DEF Jump
  <2>2. CASE label = "continue"
    BY <2>2 DEF Jump
  <2> QED
    BY <2>1, <2>2
<1>5. BlockOK(b) /\ b.kind = blocks[k].kind /\ b.used = blocks[k].used
  <2>1. /\ blocks[k] \in Block /\ AfterBlock \in SUBSET Int
    BY <1>2, <1>3 DEF BlockOK, Block, AllAt
  <2>2. /\ AllAt(blocks[k].done \union AfterBlock, blocks[k].reserved)
        /\ AllAt(blocks[k].next \union AfterBlock, blocks[k].reserved)
    BY <1>2, <1>3, UnionAt DEF BlockOK
  <2>3. b \in Block /\ b.kind = blocks[k].kind /\ b.used = blocks[k].used
        /\ b.reserved = blocks[k].reserved /\ b.head = blocks[k].head
        /\ b.next \in {blocks[k].next, blocks[k].next \union AfterBlock}
        /\ b.done \in {blocks[k].done, blocks[k].done \union AfterBlock}
    BY <2>1 DEF Block
  <2> QED
    BY <1>2, <2>2, <2>3 DEF BlockOK
<1> HIDE DEF b
<1>6. /\ StackOfBlocks(blocks') /\ Len(blocks') = Len(blocks)
      /\ \A j \in 1..Len(blocks) : blocks'[j] = IF j = k THEN b ELSE blocks[j]
  <2>1. /\ StackOfBlocks([blocks EXCEPT ![k] = b]) /\ Len([blocks EXCEPT ![k] = b]) = Len(blocks)
        /\ \A j \in 1..Len(blocks) : [blocks EXCEPT ![k] = b][j] = IF j = k THEN b ELSE blocks[j]
    BY <1>2, <1>5, ExceptOK
  <2> QED
    BY ONLY <1>4, <2>1
<1>7. BlocksOK'
  BY <1>6 DEF BlocksOK
<1>8. stack_reserved \in Nat /\ stack_used \in Nat /\ stack_used <= stack_reserved
  BY DEF FrameInv, StackOK
<1>9. StackOK'
  BY <1>1, <1>8 DEF StackOK
<1>10. \A j \in 1..Len(blocks') : j \in 1..Len(blocks) /\ blocks'[j].used = blocks[j].used
  BY <1>5, <1>6
<1>11. \A j \in 1..Len(locals) : LocalOK(locals[j]) /\ locals[j].offset \in Nat
  BY LocalIs DEF FrameInv
<1>12. \A j \in 1..Len(locals) : LocalOK(locals[j])'
  BY <1>1, <1>8, <1>10, <1>11 DEF LocalOK, Open
<1>13. LocalsOK'
  BY <1>1, <1>12 DEF FrameInv, LocalsOK, PairsOK
<1>14. GhostOK'
  BY <1>1, GhostAt, GhostAtNext, NoneAt DEF FrameInv
<1> QED
  BY <1>7, <1>9, <1>13, <1>14 DEF FrameInv

\* A return without leave is only emitted where rsp is at the saved rbp.
LEMMA ReturnStep == ASSUME FrameInv, Return PROVE FrameInv'
<1>1. /\ pops' = (IF stack_reserved > 0 THEN pops ELSE pops \union depths) /\ depths' = {}
      /\ UNCHANGED <<stack_reserved, stack_used, blocks, locals, temps, drift>>
  BY DEF Return
<1>2. BlocksOK' /\ StackOK' /\ LocalsOK'
  BY <1>1 DEF FrameInv, BlocksOK, StackOK, LocalsOK, LocalOK, PairsOK, Open
<1>3. /\ AllAt(depths, stack_reserved) /\ AllAt(drift, 0) /\ AllAt(pops, 0)
      /\ stack_reserved \in Nat
  BY GhostAt DEF FrameInv, StackOK
<1>4. AllAt(pops', 0)
  <2>1. stack_reserved > 0 \/ stack_reserved = 0
    BY <1>3
  <2> QED
    BY <1>1, <1>3, <2>1, UnionAt
<1> QED
  BY <1>1, <1>2, <1>3, <1>4, NoneAt, GhostAtNext DEF FrameInv

\* The end of a function starts the next one with an empty frame.
LEMMA EndFunctionStep == ASSUME FrameInv, EndFunction PROVE FrameInv'
<1>1. /\ pops' = (IF stack_reserved > 0 THEN pops ELSE pops \union depths)
      /\ stack_reserved' = 0 /\ stack_used' = 0 /\ locals' = <<>> /\ depths' = {0}
      /\ temps = 0 /\ UNCHANGED <<blocks, temps, drift>>
  BY DEF EndFunction, Statement
<1>2. BlocksOK' /\ StackOK' /\ LocalsOK'
  BY <1>1 DEF FrameInv, BlocksOK, StackOK, LocalsOK, LocalOK, PairsOK, Open
<1>3. /\ AllAt(depths, stack_reserved) /\ AllAt(drift, 0) /\ AllAt(pops, 0)
      /\ stack_reserved \in Nat
  BY GhostAt DEF FrameInv, StackOK
<1>4. AllAt(pops', 0)
  <2>1. stack_reserved > 0 \/ stack_reserved = 0
    BY <1>3
  <2> QED
    BY <1>1, <1>3, <2>1, UnionAt
<1>5. AllAt(depths', stack_reserved')
  BY <1>1 DEF AllAt
<1> QED
  BY <1>1, <1>2, <1>3, <1>4, <1>5, GhostAtNext DEF FrameInv

\* Nothing changes when nothing happens.
LEMMA StutterStep == ASSUME FrameInv, UNCHANGED vars PROVE FrameInv'
BY DEF vars, FrameInv, BlocksOK, StackOK, LocalsOK, LocalOK, PairsOK, Open, GhostOK, RspKnown, LoopsBalanced, ReturnsBalanced

\* Every step of a function whose jumps are sound keeps the invariant.
LEMMA StepInv == FrameInv /\ [Next]_vars => FrameInv'
<1> SUFFICES ASSUME FrameInv, [Next]_vars PROVE FrameInv'
  OBVIOUS
<1>1. CASE UNCHANGED vars
  BY <1>1, StutterStep
<1>2. CASE \E size \in Sizes : Declare(size) \/ OpenFor(size)
  BY <1>2, DeclareStep, OpenForStep
<1>3. CASE Push \/ Pop
  BY <1>3, PushStep, PopStep
<1>4. CASE OpenIf \/ OpenWhile \/ OpenDo \/ OpenForOver
  BY <1>4, OpenStep, OpenForOverStep
<1>5. CASE Else \/ CloseIf \/ CloseLoop \/ CloseFor
  BY <1>5, ElseStep, CloseIfStep, CloseLoopStep, CloseForStep
<1>6. CASE Return \/ EndFunction
  BY <1>6, ReturnStep, EndFunctionStep
<1>7. CASE \E k \in 1..Len(blocks), label \in {"break", "continue"} : SoundJump(k) /\ Jump(k, label)
  BY <1>7, JumpStep
<1> QED
  BY <1>1, <1>2, <1>3, <1>4, <1>5, <1>6, <1>7 DEF Next

\* The invariant holds of every function whose jumps are sound.
THEOREM FrameInvariant == Spec => []FrameInv
BY InitInv, StepInv, PTL DEF Spec

-----------------------------------------------------------------------------
\* The invariant gives the properties.
LEMMA InvTypes == FrameInv => TypeOK
<1> SUFFICES ASSUME FrameInv PROVE TypeOK
  OBVIOUS
<1>1. stack_reserved \in Nat /\ stack_used \in Nat /\ temps \in Nat /\ blocks \in Seq(Block)
  BY DEF FrameInv, StackOK, BlocksOK, StackOfBlocks
<1>2. locals \in Seq(Local)
  BY DEF FrameInv, LocalsOK
<1>3. depths \subseteq Int /\ drift \subseteq Int /\ pops \subseteq Int
  BY <1>1 DEF FrameInv, GhostOK, RspKnown, LoopsBalanced, ReturnsBalanced
<1> QED
  BY <1>1, <1>2, <1>3 DEF TypeOK

\* Under the invariant the locals are out of the way of what is pushed.
LEMMA InvLocals == FrameInv => LocalsSafe
<1> SUFFICES ASSUME FrameInv PROVE LocalsSafe
  OBVIOUS
<1>1. /\ stack_reserved \in Nat /\ stack_used \in Nat /\ temps \in Nat
      /\ stack_used <= stack_reserved
  BY DEF FrameInv, StackOK
<1>2. \A d \in depths : d = stack_reserved
  BY DEF FrameInv, GhostOK, RspKnown
<1>3. \A k \in 1..Len(locals) : LocalOK(locals[k]) /\ locals[k].offset \in Nat
  BY LocalIs DEF FrameInv
<1>4. \A k \in 1..Len(locals) : Open(locals[k]) => locals[k].offset <= stack_reserved
  BY <1>1, <1>3 DEF LocalOK
<1>5. \A k \in 1..Len(locals) : Open(locals[k]) => \A d \in depths : locals[k].offset <= d
  BY <1>2, <1>4
<1>6. \A k \in 1..Len(locals) : locals[k].size <= locals[k].offset
  BY <1>3 DEF LocalOK
<1> QED
  BY <1>5, <1>6 DEF FrameInv, LocalsOK, PairsOK, LocalsSafe

\* The backend's state and the ghosts of the machine keep their types.
THEOREM FrameTypes == Spec => []TypeOK
BY FrameInvariant, InvTypes, PTL

\* rsp is always where the code of backend_utilities.c takes it to be.
THEOREM FrameRspKnown == Spec => []RspKnown
<1>1. FrameInv => RspKnown
  BY DEF FrameInv, GhostOK
<1> QED
  BY <1>1, FrameInvariant, PTL

\* No loop, however its body is left, moves the stack from turn to turn.
THEOREM FrameLoopsBalanced == Spec => []LoopsBalanced
<1>1. FrameInv => LoopsBalanced
  BY DEF FrameInv, GhostOK
<1> QED
  BY <1>1, FrameInvariant, PTL

\* emit_return can leave out the leave instruction when nothing is reserved.
THEOREM FrameReturnsBalanced == Spec => []ReturnsBalanced
<1>1. FrameInv => ReturnsBalanced
  BY DEF FrameInv, GhostOK
<1> QED
  BY <1>1, FrameInvariant, PTL

\* What allocate_local_variable gives a variable stays its own while in scope.
THEOREM FrameLocalsSafe == Spec => []LocalsSafe
BY FrameInvariant, InvLocals, PTL
=============================================================================
