----------------------------- MODULE KiOptimizer -----------------------------
(***************************************************************************)
(* The peephole rules of the optimizer (src/src/ir/optimizer.c).  A rule   *)
(* looks at the instruction at an index and at the one or two after it;    *)
(* do_primary_pass applies four groups of rules at every index in turn,    *)
(* and optimize_lir makes three passes.  A group is an operator from the   *)
(* code before to the code after it: at most one of its rules applies, the *)
(* first in the order of the source.                                       *)
(***************************************************************************)
EXTENDS KiLir

PASS_COUNT == 3

-----------------------------------------------------------------------------
(* Looking at the code, at its index i.                                    *)

\* peek(0): at an omitted instruction it looks back, not forward.  The last
\* place is what peek returns when it runs out of instructions.
ThisAt(c, i) ==
    LET back[j \in 0 .. i] == IF j = 0 THEN Len(c) ELSE IF c[j].op # "nop" THEN j ELSE back[j - 1]
    IN  back[i]
FirstFrom(c, i) ==
    LET on[j \in Nat] == IF j > Len(c) THEN Len(c) ELSE IF c[j].op # "nop" THEN j ELSE on[j + 1]
    IN  on[i]
\* peek(1) and peek(2): the second starts at index + 2 and may see what the first saw.
NextAt(c, i) == FirstFrom(c, i + 1)
Next2At(c, i) == FirstFrom(c, i + 2)

omit(c, j) == [c EXCEPT ![j].op = "nop"]

is_constant(o) == o.k = "int"
IsRegister(o) == o.k = "register"
SameBits(t, u) == BitSize[t] = BitSize[u]
Moves == {"load", "store"}

\* A plausible mistake: any register will do.
FeedsAny(this, next) == IsRegister(this.d) /\ IsRegister(next.s)

\* this writes a register that next has for its source.
Feeds(this, next) ==
    /\ IsRegister(this.d) /\ IsRegister(next.s)
    /\ lir_registers_equal(this.d, next.s)

\* this is dropped and next takes its source, as an instruction of opcode op.
Forward(c, j, k, op) == omit([c EXCEPT ![k].op = op, ![k].s = c[j].s], j)

-----------------------------------------------------------------------------
optimize_stack_operations(c, i) ==
    LET j == ThisAt(c, i)  k == NextAt(c, i)  l == Next2At(c, i)
        this == c[j]  next == c[k]  next2 == c[l]
        PushPop == this.op = "push" /\ next.op = "pop"
    IN  CASE PushPop /\ IsRegister(this.s) /\ lir_registers_equal(this.s, next.d) ->
                omit(omit(c, j), k)
          [] PushPop /\ IsRegister(this.s) /\ ~lir_registers_equal(this.s, next.d) ->
                Forward(c, j, k, "store")
          [] PushPop /\ ~IsRegister(this.s) ->
                Forward(c, j, k, "load")
          \* load %0, 1; push %0
          [] this.op = "load" /\ next.op = "push" /\ Feeds(this, next) /\ ~IsRegister(this.s) ->
                Forward(c, j, k, "push")
          \* push 1; load %1, 2; pop %0
          [] this.op = "push" /\ next.op \in Moves \union {"reference"} /\ next2.op = "pop"
                /\ ~lir_registers_equal(next2.d, next.d) ->
                [omit(c, l) EXCEPT ![j].op = "load", ![j].d = next2.d]
          \* pop %0; store x, %0
          [] this.op = "pop" /\ next.op \in Moves /\ Feeds(this, next) /\ this.d.t = next.s.t ->
                omit([c EXCEPT ![k].op = "pop"], j)
          [] OTHER -> c

optimize_loads_and_stores(c, i) ==
    LET j == ThisAt(c, i)  k == NextAt(c, i)
        this == c[j]  next == c[k]
        Reference == this.op = "reference" /\ IsRegister(this.d)
    IN  IF this.op \in Moves /\ IsRegister(this.d) /\ IsRegister(this.s)
              /\ lir_registers_equal(this.d, this.s) /\ SameBits(this.d.t, this.s.t)
        THEN omit(c, j)
        \* load %0, 1; store x, %0
        ELSE IF this.op = "load" /\ Feeds(this, next)
                 /\ \/ is_constant(this.s) /\ next.op = "store"
                    \/ SameBits(this.s.t, next.d.t)
        THEN Forward(c, j, k, next.op)
        ELSE IF Reference /\ next.op = "store" /\ IsRegister(next.d)
                 /\ next.s.k = "pointer" /\ next.s.r = this.d.r
        THEN Forward(c, j, k, "reference")
        ELSE IF Reference /\ next.op = "store" /\ Feeds(this, next)
                 /\ next.d.k \notin {"variable", "pointer"}
        THEN Forward(c, j, k, "reference")
        ELSE IF Reference /\ this.s.k = "pointer" /\ this.s.r = this.d.r
        THEN omit(c, j)
        ELSE c

\* A plausible mistake: counted from 1.
ExponentsFromOne(n) == {e \in 1 .. WordBits - 1 : n % Size = 2 ^ (e - 1)}

\* The exponents a multiplication or division by a power of two can be shifted by.
Exponents(n) == {e \in 0 .. WordBits - 1 : n % Size = 2 ^ e}

optimize_math_operations(c, i) ==
    LET j == ThisAt(c, i)  k == NextAt(c, i)  l == Next2At(c, i)
        this == c[j]  next == c[k]  next2 == c[l]
        Copies == this.op = "store" /\ IsRegister(this.d)
    IN  CASE this.op \in {"add", "sub", "shl", "shr"} /\ is_constant(this.s) /\ this.s.n = 0 ->
                omit(c, j)
          [] this.op \in {"mul", "div"} /\ is_constant(this.s) /\ this.s.n = 1 ->
                omit(c, j)
          [] this.op \in {"mul", "div"} /\ is_constant(this.s) /\ this.s.n # 1
                /\ IsRegister(this.d) /\ Exponents(this.s.n) # {} ->
                [c EXCEPT ![j].op = IF this.op = "mul" THEN "shl" ELSE "shr",
                          ![j].s = Constant("u32", CHOOSE e \in Exponents(this.s.n) : TRUE)]
          \* store %1, %0; pop %0; add %0, %1
          [] Copies /\ IsRegister(this.s) /\ next.op = "pop" /\ IsRegister(next.d)
                /\ lir_registers_equal(this.s, next.d)
                /\ next2.op \in {"add", "mul"}
                /\ lir_registers_equal(next2.d, next.d) /\ lir_registers_equal(next2.s, this.d) ->
                omit([c EXCEPT ![k].d = this.d], j)
          \* store %1, 1; add %0, %1
          [] Copies /\ is_constant(this.s) /\ next.op \in MathOps /\ IsRegister(next.d)
                /\ lir_registers_equal(next.s, this.d) ->
                Forward(c, j, k, next.op)
          [] OTHER -> c

-----------------------------------------------------------------------------
(* Constant folding.                                                       *)

\* A plausible mistake: the operands the other way round.
calculate_swapped(op, a, b) ==
    CASE op \in {"div", "mod"} -> IF a = 0 THEN -(Size \div 2) ELSE Truncated(b, a)
      [] OTHER -> Signed(Arithmetic(op, "i64", b % Size, a % Size))

\* The result of the compiler's own arithmetic: both remainder and division
\* are computed as a division, and a division by zero in floating point is
\* converted to the least integer.
calculate_constant_math(op, a, b) ==
    CASE op \in {"div", "mod"} -> IF b = 0 THEN -(Size \div 2) ELSE Truncated(a, b)
      [] OTHER -> Signed(Arithmetic(op, "i64", a % Size, b % Size))

Foldable(this, next, ops) ==
    /\ this.op \in ops /\ next.op \in MathOps
    /\ is_constant(this.s) /\ is_constant(next.s)
    /\ IsRegister(this.d) /\ IsRegister(next.d) /\ lir_registers_equal(this.d, next.d)

\* The opcode the compiler computes with: of two operations on a register, the first.
FoldedOp(this, next) == IF this.op = "load" THEN next.op ELSE this.op

\* The compiler divides integers by zero, and dies of it.
Crashes(c, i) ==
    LET this == c[ThisAt(c, i)]  next == c[NextAt(c, i)]
    IN  Foldable(this, next, MathOps \union {"load"}) /\ FoldedOp(this, next) = "mod" /\ next.s.n = 0

optimize_constant_folding(c, i) ==
    LET j == ThisAt(c, i)  k == NextAt(c, i)
        this == c[j]  next == c[k]
    IN  IF Foldable(this, next, MathOps \union {"load"})
        THEN [omit(c, k) EXCEPT ![j].s =
                Constant("i64", calculate_constant_math(FoldedOp(this, next), this.s.n, next.s.n))]
        ELSE c

-----------------------------------------------------------------------------
(* A pass is at place p: index and group.                                  *)

Places(c) == 0 .. 4 * Len(c) - 1
IndexOf(p) == p \div 4 + 1
GroupOf(p) == <<"stack", "moves", "math", "folding">>[(p % 4) + 1]

Optimized(c, p) ==
    CASE GroupOf(p) = "stack" -> optimize_stack_operations(c, IndexOf(p))
      [] GroupOf(p) = "moves" -> optimize_loads_and_stores(c, IndexOf(p))
      [] GroupOf(p) = "math" -> optimize_math_operations(c, IndexOf(p))
      [] GroupOf(p) = "folding" -> optimize_constant_folding(c, IndexOf(p))
=============================================================================
