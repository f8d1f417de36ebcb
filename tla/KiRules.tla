------------------------------- MODULE KiRules -------------------------------
(***************************************************************************)
(* When a rule of the optimizer (src/src/ir/optimizer.c) is right whatever *)
(* the code computes: conditions on the instructions it looks at, and on   *)
(* the registers that nothing reads behind them.  The optimizer checks     *)
(* neither; they hold because of what the lowering generates.              *)
(***************************************************************************)
EXTENDS KiOptimizer

-----------------------------------------------------------------------------
(* What an instruction reads and writes of the two registers.              *)

Temporaries == {"t1", "t2"}
\* The result of a call is in t1.
Home(r) == IF r = "t2" THEN "t2" ELSE "t1"
\* The registers in an operand, and those that are only the address in it.
InOperand(o) == IF HasRegister(o) THEN {Home(o.r)} ELSE {}
InAddress(o) == IF o.k = "pointer" THEN {Home(o.r)} ELSE {}

Computes == MathOps \union {"neg", "not", "bool_not"}
Puts == Moves \union {"reference", "pop"} \union Computes \union SetOps
JumpOps == {"jmp", "jmp_true", "jmp_false"}

Reads(i) ==
    UNION {IF i.op \in Moves \union MathOps \union {"push", "compare", "jmp_true", "jmp_false"}
           THEN InOperand(i.s) ELSE {},
           IF i.op = "reference" THEN InAddress(i.s) ELSE {},
           IF i.op \in Computes \union {"compare"} THEN InOperand(i.d) ELSE {},
           IF i.op \in Puts THEN InAddress(i.d) ELSE {}}

Target(o) == IF o.k \in {"variable", "pointer"} THEN {} ELSE
             IF o.k = "register" /\ o.r = "t2" THEN {"t2"} ELSE {"t1"}
Writes(i) == IF i.op = "call" THEN Temporaries ELSE IF i.op \in Puts THEN Target(i.d) ELSE {}

Successors(c, p) ==
    (IF c[p].op = "jmp" THEN {} ELSE {p + 1})
        \union IF c[p].op \in JumpOps THEN Targets(c, c[p]) ELSE {}

\* What is loose at a place is not read there, and is loose behind it or written.
\* This is what an analysis of live registers finds.
NeverRead(c, loose) ==
    \A p \in DOMAIN c :
        /\ Reads(c[p]) \intersect loose[p] = {}
        /\ \A q \in Successors(c, p) : loose[p] \ Writes(c[p]) \subseteq loose[q]

\* What a rule frees is loose behind the places ps, and what is loose is not read.
Unread(c, loose, ps, free) ==
    /\ loose \in [1 .. Len(c) + 1 -> SUBSET Temporaries]
    /\ NeverRead(c, loose)
    /\ \A q \in Successors(c, ps[Len(ps)]) : free \subseteq loose[q]

-----------------------------------------------------------------------------
(* When a rule is right.                                                   *)

\* An assignment to a bool makes the value 0 or 1.
Truncates(op, o) == op = "store" /\ o.t = "bool"

Uses(i, r) == Home(r) \in Reads(i) \union Writes(i)

PushPopSafe(this, next) ==
    IsRegister(this.s) =>
        IF lir_registers_equal(this.s, next.d) THEN IsRegister(next.d) ELSE ~Truncates("store", next.d)
StackSafe(c, i) ==
    LET j == ThisAt(c, i)  k == NextAt(c, i)  l == Next2At(c, i)
        this == c[j]  next == c[k]  next2 == c[l]
    IN  /\ j < k
        /\ this.op = "push" /\ next.op = "pop" => PushPopSafe(this, next)
        /\ this.op = "push" /\ next.op # "pop" => k < l /\ IsRegister(next2.d) /\ ~Uses(next, next2.d.r)
        /\ this.op = "pop" => ~Truncates(next.op, next.d) /\ Home(this.d.r) \notin InAddress(next.d)
\* The places of the rule that applies, and the register it frees.
StackBlock(c, i) ==
    LET j == ThisAt(c, i)  k == NextAt(c, i)  l == Next2At(c, i)
    IN  IF c[j].op = "push" /\ c[k].op # "pop" THEN <<j, k, l>> ELSE <<j, k>>
StackLoose(c, i) ==
    LET this == c[ThisAt(c, i)]
    IN  IF this.op \in {"load", "pop"} THEN {Home(this.d.r)} ELSE {}

Readers == Moves \union MathOps \union {"push", "compare", "jmp_true", "jmp_false"}
\* next reads the register of this in its source only.
ForwardSafe(this, next) ==
    /\ next.op \in Readers
    /\ Home(this.d.r) \notin InAddress(next.d)
    /\ next.op \in MathOps \union {"compare"} => Home(this.d.r) \notin InOperand(next.d)

SelfMove(this) ==
    /\ this.op \in Moves /\ IsRegister(this.d) /\ IsRegister(this.s)
    /\ lir_registers_equal(this.d, this.s) /\ SameBits(this.d.t, this.s.t)
\* What the address in a register points to is stored.
FollowsAddress(this, next) ==
    /\ this.op = "reference" /\ next.op = "store" /\ IsRegister(next.d)
    /\ next.s.k = "pointer" /\ next.s.r = this.d.r
\* The address itself is stored.
StoresAddress(this, next) ==
    /\ this.op = "reference" /\ next.op = "store"
    /\ Feeds(this, next) /\ next.d.k \notin {"variable", "pointer"}

MovesSafe(c, i) ==
    LET j == ThisAt(c, i)  k == NextAt(c, i)
        this == c[j]  next == c[k]
    IN  /\ SelfMove(this) => ~Truncates(this.op, this.d)
        /\ this.op = "load" /\ ~SelfMove(this) => j < k /\ ForwardSafe(this, next)
        /\ ~FollowsAddress(this, next)
        /\ StoresAddress(this, next) => j < k /\ IsRegister(next.d) /\ ~Truncates("store", next.d)
MovesOmit(c, i) ==
    LET this == c[ThisAt(c, i)]  next == c[NextAt(c, i)]
    IN  SelfMove(this) \/ (this.op = "reference" /\ ~StoresAddress(this, next))
MovesBlock(c, i) == IF MovesOmit(c, i) THEN <<ThisAt(c, i)>> ELSE <<ThisAt(c, i), NextAt(c, i)>>
MovesLoose(c, i) == IF MovesOmit(c, i) THEN {} ELSE {Home(c[ThisAt(c, i)].d.r)}
=============================================================================
