------------------------------- MODULE KiLir -------------------------------
(***************************************************************************)
(* The low-level IR of the Ki compiler (src/src/ir/lir.h) and what the     *)
(* x86-64 backend makes each instruction do.  An instruction has an        *)
(* opcode, a destination and a source.  Of an operand we keep its kind,    *)
(* its data type and the name or number in it; of the machine, the two     *)
(* temporary registers of the IR (t1 is rax, t2 is rcx), the stack, the    *)
(* local variables and one array in memory.  All integers have one width,  *)
(* WordBits: conversions between widths are left out, the data types stay  *)
(* because the optimizer's rules compare them.                             *)
(***************************************************************************)
EXTENDS Integers, Sequences

CONSTANTS
    WordBits,   \* the bits of a machine word
    ArrayBase,  \* the address of the array
    ItemSize    \* the bytes of one of its items

ASSUME WordAssumption == WordBits \in Nat \ {0} /\ ArrayBase \in Nat /\ ItemSize \in Nat

Size == 2 ^ WordBits
Word == 0 .. Size - 1
Signed(w) == IF w >= Size \div 2 THEN w - Size ELSE w

-----------------------------------------------------------------------------
(* Operands and instructions.                                              *)

\* The bits of a data type; ptr is any type with a pointer_count above 0.
BitSize == [void |-> 8, bool |-> 8, i32 |-> 32, u32 |-> 32,
            i64 |-> 64, u64 |-> 64, usize |-> 64, ptr |-> 64]
Unsigned == {"bool", "u32", "u64", "usize"}

Operand(k, t, r, n) == [k |-> k, t |-> t, r |-> r, n |-> n]
nop == Operand("none", "void", "", 0)
Constant(t, n) == Operand("int", t, "", n)
t1(t) == Operand("register", t, "t1", 0)
t2(t) == Operand("register", t, "t2", 0)
\* The result of a call is in rax, register 0 but not the temporary 0: the
\* optimizer takes it for another register than t1, the machine does not.
r0(t) == Operand("register", t, "r0", 0)
lir_local_variable(t, x) == Operand("variable", t, x, 0)
lir_pointer(t, r) == Operand("pointer", t, r, 0)
lir_label(n) == Operand("label", "void", "", n)

Ins(op, d, s) == [op |-> op, d |-> d, s |-> s]

MathOps == {"add", "sub", "mul", "div", "mod", "and", "or", "xor", "shl", "shr"}
SetOps == {"sete", "setne", "setlt", "setlte", "setgt", "setgte"}
\* A register and a pointer through it share the bytes of the operand's union
\* that are compared; no other kind of operand looks like a temporary register.
HasRegister(o) == o.k \in {"register", "pointer"}
lir_registers_equal(o, q) == HasRegister(o) /\ HasRegister(q) /\ o.r = q.r

-----------------------------------------------------------------------------
(* Arithmetic on words.                                                    *)

Bit(w, k) == (w \div 2 ^ k) % 2

\* The word whose bit k is f of the bits k of a and b.
Bits(f, a, b) ==
    CHOOSE c \in Word : \A k \in 0 .. WordBits - 1 : Bit(c, k) = f[Bit(a, k), Bit(b, k)]

AndTable == [a \in Word, b \in Word |-> Bits([x, y \in 0 .. 1 |-> x * y], a, b)]
OrTable == [a \in Word, b \in Word |-> Bits([x, y \in 0 .. 1 |-> x + y - x * y], a, b)]
XorTable == [a \in Word, b \in Word |-> Bits([x, y \in 0 .. 1 |-> (x + y) % 2], a, b)]

\* Signed division rounds towards zero.
Truncated(a, b) == LET q == (IF a < 0 THEN -a ELSE a) \div (IF b < 0 THEN -b ELSE b)
                   IN  IF (a < 0) = (b < 0) THEN q ELSE -q

\* What the processor computes: the shift count wraps, sar keeps the sign, and
\* div or idiv is chosen by the type of the destination.
Arithmetic(op, t, a, b) ==
    CASE op = "add" -> (a + b) % Size
      [] op = "sub" -> (a - b) % Size
      [] op = "mul" -> (a * b) % Size
      [] op = "div" -> IF t \in Unsigned THEN a \div b ELSE Truncated(Signed(a), Signed(b)) % Size
      [] op = "mod" -> IF t \in Unsigned THEN a % b
                       ELSE (Signed(a) - Signed(b) * Truncated(Signed(a), Signed(b))) % Size
      [] op = "and" -> AndTable[a, b]
      [] op = "or" -> OrTable[a, b]
      [] op = "xor" -> XorTable[a, b]
      [] op = "shl" -> (a * 2 ^ (b % WordBits)) % Size
      [] op = "shr" -> (Signed(a) \div 2 ^ (b % WordBits)) % Size

\* setl, setg and their like are signed whatever the type.
Compared(op, a, b) ==
    CASE op = "sete" -> a = b
      [] op = "setne" -> a # b
      [] op = "setlt" -> Signed(a) < Signed(b)
      [] op = "setlte" -> Signed(a) <= Signed(b)
      [] op = "setgt" -> Signed(a) > Signed(b)
      [] op = "setgte" -> Signed(a) >= Signed(b)

Flag(p) == IF p THEN 1 ELSE 0

-----------------------------------------------------------------------------
(* The machine.                                                            *)

\* m.pc is the instruction to run next; m.ok turns FALSE at a trap, a pop of an
\* empty stack and a jump to a label that is not there.
NextAnswer(w) == (3 * w + 1) % Size

Register(m, r) == IF r = "t2" THEN m.t2 ELSE m.t1

Get(m, o) ==
    CASE o.k = "int" -> o.n % Size
      [] o.k = "register" -> Register(m, o.r)
      [] o.k = "variable" -> m.vars[o.r]
      [] o.k = "pointer" -> m.mem[Register(m, o.r)]
      [] OTHER -> 0

Put(m, o, w) ==
    CASE o.k = "variable" -> [m EXCEPT !.vars[o.r] = w]
      [] o.k = "pointer" -> [m EXCEPT !.mem[Register(m, o.r)] = w]
      [] o.k = "register" /\ o.r = "t2" -> [m EXCEPT !.t2 = w]
      [] OTHER -> [m EXCEPT !.t1 = w]

\* A division by zero, or a signed quotient that does not fit.
Traps(m, i) ==
    /\ i.op \in {"div", "mod"}
    /\ \/ Get(m, i.s) = 0
       \/ i.d.t \notin Unsigned /\ Get(m, i.d) = Size \div 2 /\ Get(m, i.s) = Size - 1

Jumps(m, i) == \/ i.op = "jmp"
               \/ i.op = "jmp_true" /\ Get(m, i.s) # 0
               \/ i.op = "jmp_false" /\ Get(m, i.s) = 0

\* The places of the label that i jumps to.
Targets(c, i) == {j \in DOMAIN c : c[j].op = "new_label" /\ c[j].s.n = i.d.n}

\* emit_instruction: what the code emitted for i does to the machine.
Effect(m, i) ==
    CASE i.op = "load" -> Put(m, i.d, Get(m, i.s))
      [] i.op = "store" -> Put(m, i.d, IF i.d.t = "bool" THEN Flag(Get(m, i.s) # 0) ELSE Get(m, i.s))
      [] i.op = "reference" -> Put(m, i.d, IF i.s.k = "pointer" THEN Register(m, i.s.r) ELSE ArrayBase)
      [] i.op = "push" -> [m EXCEPT !.stack = Append(@, Get(m, i.s))]
      [] i.op = "pop" -> Put([m EXCEPT !.stack = SubSeq(@, 1, Len(@) - 1)], i.d, m.stack[Len(m.stack)])
      [] i.op \in MathOps -> Put(m, i.d, Arithmetic(i.op, i.d.t, Get(m, i.d), Get(m, i.s)))
      [] i.op = "compare" -> [m EXCEPT !.cmp = <<Get(m, i.d), Get(m, i.s)>>]
      [] i.op \in SetOps -> Put(m, i.d, Flag(Compared(i.op, m.cmp[1], m.cmp[2])))
      \* emit_not emits neg as well.
      [] i.op \in {"neg", "not"} -> Put(m, i.d, (-Get(m, i.d)) % Size)
      [] i.op = "bool_not" -> Put(m, i.d, Flag(Get(m, i.d) = 0))
      \* A callee answers in rax and may overwrite rcx; it answers each call anew.
      [] i.op = "call" -> [m EXCEPT !.t1 = m.answer, !.t2 = m.junk, !.answer = NextAnswer(@)]
      \* Labels, and the blocks, whose stack is the subject of KiFrame.
      [] OTHER -> m

Step(c, m) ==
    LET i == c[m.pc]
        targets == Targets(c, i)
    IN  IF \/ Traps(m, i)
           \/ i.op = "pop" /\ m.stack = <<>>
           \/ Jumps(m, i) /\ targets = {}
        THEN [m EXCEPT !.ok = FALSE]
        ELSE IF Jumps(m, i) THEN [m EXCEPT !.pc = CHOOSE j \in targets : TRUE]
        ELSE [Effect(m, i) EXCEPT !.pc = m.pc + 1]

\* x86 divides rax, by a register or memory, and shifts by an immediate or rcx.
Assembles(i) ==
    /\ i.op \in {"div", "mod"} => i.s.k # "int" /\ i.d.r = "t1"
    /\ i.op \in {"shl", "shr"} => i.s.k = "int" \/ (i.s.k = "register" /\ i.s.r = "t2")

\* Every label is placed once.
LabelsAreUnique(c) ==
    \A i, j \in DOMAIN c : {c[i].op, c[j].op} = {"new_label"} /\ c[i].s.n = c[j].s.n => i = j
=============================================================================
