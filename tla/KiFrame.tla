------------------------------ MODULE KiFrame ------------------------------
(***************************************************************************)
(* The stack frame of a compiled function (backend_utilities.c and the     *)
(* stack instructions of backend.c, fed by push_if, push_while_loop,       *)
(* push_for_loop, push_block and push_keyword_statement of lir.c).         *)
(*                                                                         *)
(* The backend walks the instructions once, in the order of the text, and  *)
(* keeps stack_reserved and stack_used, its idea of how far rsp is below   *)
(* rbp at that place of the text.  The machine follows the jumps.  Beside  *)
(* the backend's state the module keeps depths, the distances from rbp to  *)
(* rsp with which execution can really arrive at the place of the text the *)
(* backend has reached: none in dead code, more than one when two paths    *)
(* arrive with different stacks.                                           *)
(*                                                                         *)
(* An action is a statement of the source program: the function is walked  *)
(* as hir_to_lir does and each instruction it pushes is emitted at once.   *)
(***************************************************************************)
EXTENDS Integers, Sequences

CONSTANTS
    Sizes,      \* bytes of a local variable
    MaxUsed,    \* bound: bytes of stack a function uses
    MaxLocals,  \* bound: local variables of a function
    MaxBlocks,  \* bound: blocks open at once
    MaxTemps    \* bound: values pushed by an expression

ASSUME FrameAssumption ==
    /\ Sizes \subseteq Nat \ {0}
    /\ MaxUsed \in Nat /\ MaxLocals \in Nat /\ MaxBlocks \in Nat /\ MaxTemps \in Nat

VARIABLES
    stack_reserved, \* bytes below rbp the emitted code has reserved
    stack_used,     \* bytes of them taken by locals and pushed values
    blocks,         \* the stack cache: what was reserved and used at the start of
                    \* each open block, with the jumps to the labels around it
    locals,         \* the locals of the function, in the order of declaration
    temps,          \* values the expression being evaluated has pushed
    depths,         \* how far rsp can really be below rbp here
    drift,          \* how far rsp moves from one iteration of a loop to the next
    pops            \* where rsp can be when a return pops the saved rbp

vars == <<stack_reserved, stack_used, blocks, locals, temps, depths, drift, pops>>

Kinds == {"if", "else", "while", "do", "for", "iterator"}
Loops == {"while", "do", "for"}

Block == [kind : Kinds,
          reserved : Nat, used : Nat,   \* stack_cache
          head : SUBSET Int,            \* depths at the label a loop jumps back to
          next : SUBSET Int,            \* jumps to the condition, increment or else
          done : SUBSET Int]            \* jumps to the end of the statement

\* A local variable: its bytes are the size bytes above rbp - offset.  Beside them
\* how many blocks were open at its declaration, and how many locals there were
\* when its block was closed: none while it is open.
Local == [offset : Nat, size : Nat, level : Nat, until : Nat]

TypeOK ==
    /\ stack_reserved \in Nat /\ stack_used \in Nat
    /\ blocks \in Seq(Block)
    /\ locals \in Seq(Local)
    /\ temps \in Nat
    /\ depths \subseteq Int /\ drift \subseteq Int /\ pops \subseteq Int

-----------------------------------------------------------------------------
Inner == blocks[Len(blocks)]
Outer == SubSeq(blocks, 1, Len(blocks) - 1)

\* rsp goes n bytes down, or up.
Lower(S, n) == {d + n : d \in S}
Raise(S, n) == {d - n : d \in S}

\* A plausible mistake in the rounding: down instead of up.
AlignDown(n) == (n \div 16) * 16

\* The least multiple of 16 that is not below n (allocate_local_variable).
Align(n) == ((n + 15) \div 16) * 16

NewBlock(kind, reserved, used, head, next, done) ==
    [kind |-> kind, reserved |-> reserved, used |-> used,
     head |-> head, next |-> next, done |-> done]

\* A plausible mistake in emit_end_block: rsp is not moved.
AfterBlockKept == depths

\* What END_BLOCK adds to rsp, and where execution then arrives.
Released == stack_reserved - Inner.reserved
AfterBlock == Raise(depths, Released)

Open(l) == l.until = 0

\* The locals when all but n blocks are closed.  None is removed: pop_stack_cache
\* gives back their bytes only, and their names mean them until END_FUNC.
Closed(n) ==
    [k \in 1..Len(locals) |->
        IF Open(locals[k]) /\ locals[k].level > n
        THEN [locals[k] EXCEPT !.until = Len(locals)] ELSE locals[k]]

\* allocate_local_variable, for a variable declared inside level blocks.
Reserve(used) == IF used <= stack_reserved THEN stack_reserved ELSE Align(used)

NewLocal(size, level) ==
    [offset |-> stack_used + size, size |-> size, level |-> level, until |-> 0]

\* A plausible mistake in allocate_local_variable: locals are counted upwards.
AllocateUp(size, level) ==
    /\ stack_used' = stack_used - size
    /\ stack_reserved' = Reserve(stack_used + size)
    /\ locals' = Append(locals, NewLocal(size, level))

Allocate(size, level) ==
    /\ stack_used' = stack_used + size
    /\ stack_reserved' = Reserve(stack_used + size)
    /\ locals' = Append(locals, NewLocal(size, level))

Statement == temps = 0

-----------------------------------------------------------------------------
\* emit_start_function: push rbp; mov rbp, rsp.
Init ==
    /\ stack_reserved = 0 /\ stack_used = 0
    /\ blocks = <<>> /\ locals = <<>> /\ temps = 0
    /\ depths = {0} /\ drift = {} /\ pops = {}

\* A local variable, or a parameter that came in a register.
Declare(size) ==
    /\ Statement /\ stack_used + size <= MaxUsed /\ Len(locals) < MaxLocals
    /\ Allocate(size, Len(blocks))
    /\ depths' = Lower(depths, stack_reserved' - stack_reserved)
    /\ UNCHANGED <<blocks, temps, drift, pops>>

\* LIR_PUSH and LIR_POP of an expression.
Push ==
    /\ temps < MaxTemps
    /\ temps' = temps + 1
    /\ stack_used' = stack_used + 8 /\ stack_reserved' = stack_reserved + 8
    /\ depths' = Lower(depths, 8)
    /\ UNCHANGED <<blocks, locals, drift, pops>>

Pop ==
    /\ temps > 0
    /\ temps' = temps - 1
    /\ stack_used' = stack_used - 8 /\ stack_reserved' = stack_reserved - 8
    /\ depths' = Raise(depths, 8)
    /\ UNCHANGED <<blocks, locals, drift, pops>>

OpenBlock(b) ==
    /\ Statement /\ Len(blocks) < MaxBlocks
    /\ blocks' = Append(blocks, b)

\* if c {   JMP_FALSE else or done; START_BLOCK
OpenIf ==
    /\ OpenBlock(NewBlock("if", stack_reserved, stack_used, {}, depths, {}))
    /\ UNCHANGED <<stack_reserved, stack_used, locals, temps, depths, drift, pops>>

\* } else { END_BLOCK; JMP done; LABEL else; START_BLOCK
Else ==
    /\ Statement /\ blocks # <<>> /\ Inner.kind = "if"
    /\ blocks' = Append(Outer, NewBlock("else", Inner.reserved, Inner.used, {}, {}, AfterBlock))
    /\ stack_reserved' = Inner.reserved /\ stack_used' = Inner.used
    /\ locals' = Closed(Len(blocks) - 1)
    /\ depths' = Inner.next
    /\ UNCHANGED <<temps, drift, pops>>

\* A plausible mistake in pop_stack_cache: the two entries are swapped.
CloseBlockSwapped ==
    /\ blocks' = Outer
    /\ stack_reserved' = Inner.used /\ stack_used' = Inner.reserved
    /\ locals' = Closed(Len(blocks) - 1)

CloseBlock ==
    /\ blocks' = Outer
    /\ stack_reserved' = Inner.reserved /\ stack_used' = Inner.used
    /\ locals' = Closed(Len(blocks) - 1)

\* }        END_BLOCK; LABEL done
CloseIf ==
    /\ Statement /\ blocks # <<>> /\ Inner.kind \in {"if", "else"}
    /\ CloseBlock
    /\ depths' = AfterBlock \union Inner.next \union Inner.done
    /\ UNCHANGED <<temps, drift, pops>>

\* while c { LABEL condition; JMP_FALSE done; START_BLOCK
OpenWhile ==
    /\ OpenBlock(NewBlock("while", stack_reserved, stack_used, depths, {}, depths))
    /\ UNCHANGED <<stack_reserved, stack_used, locals, temps, depths, drift, pops>>

\* do {     LABEL body; START_BLOCK
OpenDo ==
    /\ OpenBlock(NewBlock("do", stack_reserved, stack_used, depths, {}, {}))
    /\ UNCHANGED <<stack_reserved, stack_used, locals, temps, depths, drift, pops>>

Drifts(ends, starts) == {e - s : e \in ends, s \in starts}

\* }        while: END_BLOCK; JMP condition; LABEL done
\*          do: END_BLOCK; LABEL condition; JMP_TRUE body; LABEL done
CloseLoop ==
    /\ Statement /\ blocks # <<>> /\ Inner.kind \in {"while", "do"}
    /\ CloseBlock
    /\ LET ends == AfterBlock \union Inner.next
       IN  /\ drift' = drift \union Drifts(ends, Inner.head)
           /\ depths' = ends \union Inner.done
    /\ UNCHANGED <<temps, pops>>

\* for i := a..b { START_BLOCK; STORE i; LABEL condition; JMP_FALSE done; START_BLOCK
\* The iterator is an integer.
OpenFor(size) ==
    /\ size <= 8
    /\ Statement /\ Len(blocks) + 1 < MaxBlocks
    /\ stack_used + size <= MaxUsed /\ Len(locals) < MaxLocals
    /\ Allocate(size, Len(blocks) + 1)
    /\ LET here == Lower(depths, stack_reserved' - stack_reserved)
       IN  /\ blocks' = blocks \o
                 <<NewBlock("iterator", stack_reserved, stack_used, {}, {}, {}),
                   NewBlock("for", stack_reserved', stack_used', here, {}, here)>>
           /\ depths' = here
    /\ UNCHANGED <<temps, drift, pops>>

\* for i = a..b { the same with a variable that exists, also one of a closed block.
OpenForOver ==
    /\ Statement /\ Len(blocks) + 1 < MaxBlocks /\ locals # <<>>
    /\ blocks' = blocks \o
          <<NewBlock("iterator", stack_reserved, stack_used, {}, {}, {}),
            NewBlock("for", stack_reserved, stack_used, depths, {}, depths)>>
    /\ UNCHANGED <<stack_reserved, stack_used, locals, temps, depths, drift, pops>>

\* A plausible mistake in push_for_loop: the iterator has no block of its own.
CloseForKeepsIterator ==
    /\ Statement /\ blocks # <<>> /\ Inner.kind = "for"
    /\ LET iterator == blocks[Len(blocks) - 1]
           ends     == AfterBlock \union Inner.next
       IN  /\ blocks' = SubSeq(blocks, 1, Len(blocks) - 2)
           /\ stack_reserved' = iterator.reserved /\ stack_used' = iterator.used
           /\ locals' = Closed(Len(blocks) - 2)
           /\ drift' = drift \union Drifts(ends, Inner.head)
           /\ depths' = ends \union Inner.done
    /\ UNCHANGED <<temps, pops>>

\* }        END_BLOCK; LABEL increment; JMP condition; LABEL done; END_BLOCK
CloseFor ==
    /\ Statement /\ blocks # <<>> /\ Inner.kind = "for"
    /\ LET iterator == blocks[Len(blocks) - 1]
           ends     == AfterBlock \union Inner.next
       IN  /\ blocks' = SubSeq(blocks, 1, Len(blocks) - 2)
           /\ stack_reserved' = iterator.reserved /\ stack_used' = iterator.used
           /\ locals' = Closed(Len(blocks) - 2)
           /\ drift' = drift \union Drifts(ends, Inner.head)
           /\ depths' = Raise(ends \union Inner.done, Inner.reserved - iterator.reserved)
    /\ UNCHANGED <<temps, pops>>

\* The body of the innermost loop around this place.
InLoop(k) ==
    /\ k \in 1..Len(blocks) /\ blocks[k].kind \in Loops
    /\ \A j \in k+1..Len(blocks) : blocks[j].kind \notin Loops

\* break and continue: a conditional END_BLOCK, which releases what the innermost
\* block has reserved and then restores the backend's state for the code that
\* follows (taking all that is reserved as used), and a JMP.
Jump(k, label) ==
    /\ Statement /\ InLoop(k)
    /\ blocks' = CASE label = "break"    -> [blocks EXCEPT ![k].done = @ \union AfterBlock]
                   [] label = "continue" -> [blocks EXCEPT ![k].next = @ \union AfterBlock]
    /\ stack_used' = stack_reserved
    /\ depths' = {}
    /\ UNCHANGED <<stack_reserved, locals, temps, drift, pops>>

\* emit_return: leave restores rsp from rbp, and is emitted only when something
\* is reserved; else rsp is trusted to be at the saved rbp.
Return ==
    /\ Statement
    /\ pops' = IF stack_reserved > 0 THEN pops ELSE pops \union depths
    /\ depths' = {}
    /\ UNCHANGED <<stack_reserved, stack_used, blocks, locals, temps, drift>>

\* The end of the function: the return that function_to_hir adds when the last
\* statement is none, END_FUNC, and the start of the next function.
EndFunction ==
    /\ Statement /\ blocks = <<>>
    /\ pops' = IF stack_reserved > 0 THEN pops ELSE pops \union depths
    /\ stack_reserved' = 0 /\ stack_used' = 0 /\ locals' = <<>>
    /\ depths' = {0}
    /\ UNCHANGED <<blocks, temps, drift>>

-----------------------------------------------------------------------------
(***************************************************************************)
(* A jump out of a block nested in the body of a loop releases only that   *)
(* innermost block.  It is sound when the blocks between have reserved     *)
(* nothing; after any other jump the iterations of a loop drift apart.     *)
(* Calls are left out: a call releases what it pushed (KiCall says which   *)
(* do).                                                                    *)
(***************************************************************************)
SoundJump(k) == blocks[k].reserved = Inner.reserved

Next ==
    \/ \E size \in Sizes : Declare(size)
    \/ Push \/ Pop
    \/ OpenIf \/ Else \/ CloseIf
    \/ OpenWhile \/ OpenDo \/ CloseLoop
    \/ \E size \in Sizes : OpenFor(size)
    \/ OpenForOver \/ CloseFor
    \/ Return \/ EndFunction
    \/ \E k \in 1..Len(blocks), label \in {"break", "continue"} : SoundJump(k) /\ Jump(k, label)

Spec == Init /\ [][Next]_vars

-----------------------------------------------------------------------------
(***************************************************************************)
(* Properties.                                                             *)
(***************************************************************************)

\* Along every path execution arrives with rsp where the backend takes it to be.
RspKnown == depths \subseteq {stack_reserved}

\* No iteration of a loop leaves rsp lower or higher than the one before.
LoopsBalanced == drift \subseteq {0}

\* A return without leave pops the saved rbp, and not a local variable.
ReturnsBalanced == pops \subseteq {0}

\* No byte of one variable is a byte of the other.
Apart(l, m) == l.offset <= m.offset - m.size \/ m.offset <= l.offset - l.size

\* The variable of an open block lies between rsp and rbp, so that what is pushed
\* does not overwrite it.  Two variables of the function share bytes only if the
\* block of one was closed before the other was declared: a program that uses its
\* variables in their blocks only finds in each what it wrote there.  These do share
\* bytes, though their names mean them both until the end of the function: a program
\* that goes on with an iterator after its loop, as tests/21_argv.ki does, and has
\* declared a variable in between, changes that variable.
LocalsSafe ==
    /\ \A k \in 1..Len(locals) : locals[k].size <= locals[k].offset
    /\ \A k \in 1..Len(locals) : Open(locals[k]) => \A d \in depths : locals[k].offset <= d
    /\ \A k \in 1..Len(locals) : \A j \in 1..k-1 :
          Apart(locals[j], locals[k]) \/ locals[j].until \in 1..k-1
=============================================================================
