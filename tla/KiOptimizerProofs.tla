-------------------------- MODULE KiOptimizerProofs --------------------------
(***************************************************************************)
(* Proofs about the peephole rules of the optimizer, for all code and all  *)
(* sizes of words.  The code before a rule was applied and the code after  *)
(* it run in lock step on two machines.  Outside of the instructions that  *)
(* the rule has changed the machines agree on everything but registers     *)
(* that are written again before they are read.                            *)
(***************************************************************************)
EXTENDS KiRules, SequenceTheorems, FiniteSetTheorems, TLAPS

CONSTANTS
    Code,       \* the code before the rule was applied
    Rewritten,  \* the code after it
    Loose       \* for each place the registers that nothing reads from there on

VARIABLES before, after  \* the machines that run them

-----------------------------------------------------------------------------
(* Machines.                                                               *)

Operands == [k : STRING, t : STRING, r : STRING, n : Int]
Opcodes == Puts \union JumpOps \union {"nop", "push", "compare", "call", "new_label",
                                    "start_func", "end_func", "start_block", "end_block", "eof"}
Instructions == [op : Opcodes, d : Operands, s : Operands]

IsMachine(m) ==
    /\ m = [pc |-> m.pc, t1 |-> m.t1, t2 |-> m.t2, stack |-> m.stack, vars |-> m.vars, mem |-> m.mem,
            cmp |-> m.cmp, answer |-> m.answer, junk |-> m.junk, ok |-> m.ok]
    /\ \E V : m.stack \in Seq(V)

\* Two machines agree on everything but where they are in the code and the
\* registers in loose.
Agree(m, n, loose) ==
    /\ m.stack = n.stack /\ m.vars = n.vars /\ m.mem = n.mem /\ m.cmp = n.cmp
    /\ m.answer = n.answer /\ m.junk = n.junk /\ m.ok = n.ok
    /\ "t1" \notin loose => m.t1 = n.t1
    /\ "t2" \notin loose => m.t2 = n.t2

\* The machine p is m with w put where o is.
IsPut(p, m, o, w) ==
    /\ p.pc = m.pc /\ p.stack = m.stack /\ p.cmp = m.cmp
    /\ p.answer = m.answer /\ p.junk = m.junk /\ p.ok = m.ok
    /\ p.t1 = IF "t1" \in Target(o) THEN w ELSE m.t1
    /\ p.t2 = IF "t2" \in Target(o) THEN w ELSE m.t2
    /\ p.vars = IF o.k = "variable" THEN [m.vars EXCEPT ![o.r] = w] ELSE m.vars
    /\ p.mem = IF o.k = "pointer" THEN [m.mem EXCEPT ![Register(m, o.r)] = w] ELSE m.mem

\* What Put does to each part of the machine.
LEMMA PutFields ==
  ASSUME NEW m, IsMachine(m), NEW o, NEW w
  PROVE  IsMachine(Put(m, o, w)) /\ IsPut(Put(m, o, w), m, o, w)
<1> PICK pc, a, b, st, va, me, cm, an, ju, ok :
        m = [pc |-> pc, t1 |-> a, t2 |-> b, stack |-> st, vars |-> va, mem |-> me,
             cmp |-> cm, answer |-> an, junk |-> ju, ok |-> ok]
  BY DEF IsMachine
<1>0. \E V : st \in Seq(V)
  BY DEF IsMachine
<1>1. CASE o.k = "variable"
  <2>0. PICK put : put = [m.vars EXCEPT ![o.r] = w]
    OBVIOUS
  <2>1. Put(m, o, w) = [pc |-> pc, t1 |-> a, t2 |-> b, stack |-> st, vars |-> put,
                        mem |-> me, cmp |-> cm, answer |-> an, junk |-> ju, ok |-> ok]
    BY <1>1, <2>0 DEF Put
  <2>2. Target(o) = {}
    BY <1>1 DEF Target
  <2>3. IsMachine(Put(m, o, w))
    BY <1>0, <2>1 DEF IsMachine
  <2>4. PICK p : p = Put(m, o, w)
    OBVIOUS
  <2>5. /\ p.pc = m.pc /\ p.stack = m.stack /\ p.cmp = m.cmp
        /\ p.answer = m.answer /\ p.junk = m.junk /\ p.ok = m.ok /\ p.t1 = m.t1 /\ p.t2 = m.t2
    BY <2>1, <2>4
  <2>6. p.vars = put /\ p.mem = m.mem
    BY <2>1, <2>4
  <2> QED
    BY <1>1, <2>0, <2>2, <2>3, <2>4, <2>5, <2>6 DEF IsPut
<1>2. CASE o.k = "pointer"
  <2>0. PICK put : put = [m.mem EXCEPT ![Register(m, o.r)] = w]
    OBVIOUS
  <2>1. Put(m, o, w) = [pc |-> pc, t1 |-> a, t2 |-> b, stack |-> st, vars |-> va, mem |-> put,
                        cmp |-> cm, answer |-> an, junk |-> ju, ok |-> ok]
    BY <1>2, <2>0 DEF Put
  <2>2. Target(o) = {}
    BY <1>2 DEF Target
  <2>3. IsMachine(Put(m, o, w))
    BY <1>0, <2>1 DEF IsMachine
  <2>4. PICK p : p = Put(m, o, w)
    OBVIOUS
  <2>5. /\ p.pc = m.pc /\ p.stack = m.stack /\ p.cmp = m.cmp
        /\ p.answer = m.answer /\ p.junk = m.junk /\ p.ok = m.ok /\ p.t1 = m.t1 /\ p.t2 = m.t2
    BY <2>1, <2>4
  <2>6. p.vars = m.vars /\ p.mem = put
    BY <2>1, <2>4
  <2> QED
    BY <1>2, <2>0, <2>2, <2>3, <2>4, <2>5, <2>6 DEF IsPut
<1>3. CASE o.k = "register" /\ o.r = "t2"
  <2>1. Put(m, o, w) = [pc |-> pc, t1 |-> a, t2 |-> w, stack |-> st, vars |-> va, mem |-> me,
                        cmp |-> cm, answer |-> an, junk |-> ju, ok |-> ok]
    BY <1>3 DEF Put
  <2>2. Target(o) = {"t2"}
    BY <1>3 DEF Target
  <2>3. IsMachine(Put(m, o, w))
    BY <1>0, <2>1 DEF IsMachine
  <2> QED
    BY <1>3, <2>1, <2>2, <2>3 DEF IsPut
<1>4. CASE o.k # "variable" /\ o.k # "pointer" /\ ~(o.k = "register" /\ o.r = "t2")
  <2>1. Put(m, o, w) = [pc |-> pc, t1 |-> w, t2 |-> b, stack |-> st, vars |-> va, mem |-> me,
                        cmp |-> cm, answer |-> an, junk |-> ju, ok |-> ok]
    BY <1>4 DEF Put
  <2>2. Target(o) = {"t1"}
    BY <1>4 DEF Target
  <2>3. IsMachine(Put(m, o, w))
    BY <1>0, <2>1 DEF IsMachine
  <2> QED
    BY <1>4, <2>1, <2>2, <2>3 DEF IsPut
<1> QED
  BY <1>1, <1>2, <1>3, <1>4

\* Machines that agree on an operand read the same.
LEMMA GetAgree ==
  ASSUME NEW m, NEW n, NEW loose, Agree(m, n, loose), NEW o, InOperand(o) \intersect loose = {}
  PROVE  Get(m, o) = Get(n, o)
<1>1. HasRegister(o) => Register(m, o.r) = Register(n, o.r)
  BY DEF Agree, InOperand, Register, Home
<1>2. CASE HasRegister(o)
  BY <1>1, <1>2 DEF Get, HasRegister, Agree
<1>3. CASE ~HasRegister(o)
  BY <1>3 DEF Get, HasRegister, Agree
<1> QED
  BY <1>2, <1>3

\* Machines that agree on the address still agree, and on what was put there.
LEMMA PutAgree ==
  ASSUME NEW m, NEW n, IsMachine(m), IsMachine(n), NEW loose, Agree(m, n, loose),
         NEW o, InAddress(o) \intersect loose = {}, NEW w
  PROVE  Agree(Put(m, o, w), Put(n, o, w), loose \ Target(o))
<1>1. o.k = "pointer" => Register(m, o.r) = Register(n, o.r)
  BY DEF Agree, InAddress, Register, Home
<1>2. IsPut(Put(m, o, w), m, o, w) /\ IsPut(Put(n, o, w), n, o, w)
  BY PutFields
<1> QED
  BY <1>1, <1>2 DEF Agree, IsPut
-----------------------------------------------------------------------------
(* Instructions.                                                           *)

\* The value that an instruction puts into its destination.
Written(m, i) ==
    CASE i.op = "load" -> Get(m, i.s)
      [] i.op = "store" -> IF i.d.t = "bool" THEN Flag(Get(m, i.s) # 0) ELSE Get(m, i.s)
      [] i.op = "reference" -> IF i.s.k = "pointer" THEN Register(m, i.s.r) ELSE ArrayBase
      [] i.op = "pop" -> m.stack[Len(m.stack)]
      [] i.op \in MathOps -> Arithmetic(i.op, i.d.t, Get(m, i.d), Get(m, i.s))
      [] i.op \in SetOps -> Flag(Compared(i.op, m.cmp[1], m.cmp[2]))
      [] i.op \in {"neg", "not"} -> (-Get(m, i.d)) % Size
      [] i.op = "bool_not" -> Flag(Get(m, i.d) = 0)

Popped(m) == [m EXCEPT !.stack = SubSeq(@, 1, Len(@) - 1)]

\* What an instruction does, by its opcode.
LEMMA EffectCases ==
  ASSUME NEW m, NEW i
  PROVE  /\ i.op \in Puts \ {"pop"} => Effect(m, i) = Put(m, i.d, Written(m, i))
         /\ i.op = "pop" => Effect(m, i) = Put(Popped(m), i.d, Written(m, i))
         /\ i.op \notin Puts \union {"push", "compare", "call"} => Effect(m, i) = m
<1>1. ASSUME i.op = "load" PROVE Effect(m, i) = Put(m, i.d, Written(m, i))
  BY <1>1 DEF Effect, Written, MathOps, SetOps
<1>2. ASSUME i.op = "store" PROVE Effect(m, i) = Put(m, i.d, Written(m, i))
  BY <1>2 DEF Effect, Written, MathOps, SetOps
<1>3. ASSUME i.op = "reference" PROVE Effect(m, i) = Put(m, i.d, Written(m, i))
  BY <1>3 DEF Effect, Written, MathOps, SetOps
<1>4. ASSUME i.op \in MathOps PROVE Effect(m, i) = Put(m, i.d, Written(m, i))
  BY <1>4 DEF Effect, Written, MathOps, SetOps
<1>5. ASSUME i.op \in SetOps PROVE Effect(m, i) = Put(m, i.d, Written(m, i))
  BY <1>5 DEF Effect, Written, MathOps, SetOps
<1>6. ASSUME i.op \in {"neg", "not"} PROVE Effect(m, i) = Put(m, i.d, Written(m, i))
  BY <1>6 DEF Effect, Written, MathOps, SetOps
<1>7. ASSUME i.op = "bool_not" PROVE Effect(m, i) = Put(m, i.d, Written(m, i))
  BY <1>7 DEF Effect, Written, MathOps, SetOps
<1>8. i.op = "pop" => Effect(m, i) = Put(Popped(m), i.d, Written(m, i))
  BY DEF Effect, Written, Popped, MathOps, SetOps
<1>9. i.op \notin Puts \union {"push", "compare", "call"} => Effect(m, i) = m
  BY DEF Effect, Puts, Moves, Computes, MathOps, SetOps
<1>10. ASSUME i.op \in Puts \ {"pop"}
       PROVE  i.op \in {"load", "store", "reference", "neg", "not", "bool_not"} \/ i.op \in MathOps \/ i.op \in SetOps
  BY <1>10 DEF Puts, Moves, Computes
<1> QED
  BY <1>1, <1>2, <1>3, <1>4, <1>5, <1>6, <1>7, <1>8, <1>9, <1>10

\* The machine p is m with this stack and this comparison.
IsWith(p, m, stack, cmp) ==
    /\ p.stack = stack /\ p.cmp = cmp
    /\ p.pc = m.pc /\ p.ok = m.ok /\ p.t1 = m.t1 /\ p.t2 = m.t2
    /\ p.vars = m.vars /\ p.mem = m.mem /\ p.answer = m.answer /\ p.junk = m.junk

\* What pushing does to each part of the machine.
LEMMA PushFields ==
  ASSUME NEW m, IsMachine(m), NEW i, i.op = "push", NEW p, p = Effect(m, i)
  PROVE  IsMachine(p) /\ IsWith(p, m, Append(m.stack, Get(m, i.s)), m.cmp)
<1>p. PICK pc, a, b, st, va, me, cm, an, ju, ok :
        m = [pc |-> pc, t1 |-> a, t2 |-> b, stack |-> st, vars |-> va, mem |-> me,
             cmp |-> cm, answer |-> an, junk |-> ju, ok |-> ok]
  BY DEF IsMachine
<1>0. PICK V : m.stack \in Seq(V)
  BY DEF IsMachine
<1>1. PICK w : w = Get(m, i.s)
  OBVIOUS
<1>2. PICK s : s = Append(m.stack, w)
  OBVIOUS
<1>3. p = [pc |-> pc, t1 |-> a, t2 |-> b, stack |-> s, vars |-> va, mem |-> me,
           cmp |-> cm, answer |-> an, junk |-> ju, ok |-> ok]
  <2>1. p = [m EXCEPT !.stack = s]
    BY <1>1, <1>2 DEF Effect, MathOps, SetOps
  <2> QED
    BY <1>p, <2>1
<1>4. \E W : s \in Seq(W)
  <2>1. m.stack \in Seq(V \union {w})
    BY <1>0
  <2> QED
    BY <1>2, <2>1, AppendProperties
<1>5. IsMachine(p)
  BY <1>3, <1>4 DEF IsMachine
<1>6. IsWith(p, m, s, m.cmp)
  BY <1>p, <1>3 DEF IsWith
<1> QED
  BY <1>1, <1>2, <1>5, <1>6

\* What comparing does to each part of the machine.
LEMMA CompareFields ==
  ASSUME NEW m, IsMachine(m), NEW i, i.op = "compare", NEW p, p = Effect(m, i)
  PROVE  IsMachine(p) /\ IsWith(p, m, m.stack, <<Get(m, i.d), Get(m, i.s)>>)
<1>p. PICK pc, a, b, st, va, me, cm, an, ju, ok :
        m = [pc |-> pc, t1 |-> a, t2 |-> b, stack |-> st, vars |-> va, mem |-> me,
             cmp |-> cm, answer |-> an, junk |-> ju, ok |-> ok]
  BY DEF IsMachine
<1>0. PICK V : m.stack \in Seq(V)
  BY DEF IsMachine
<1>1. PICK w : w = <<Get(m, i.d), Get(m, i.s)>>
  OBVIOUS
<1>2. p = [pc |-> pc, t1 |-> a, t2 |-> b, stack |-> st, vars |-> va, mem |-> me,
           cmp |-> w, answer |-> an, junk |-> ju, ok |-> ok]
  <2>1. p = [m EXCEPT !.cmp = w]
    BY <1>1 DEF Effect, MathOps, SetOps
  <2> QED
    BY <1>p, <2>1
<1>3. IsMachine(p)
  BY <1>p, <1>0, <1>2 DEF IsMachine
<1>4. IsWith(p, m, m.stack, w)
  BY <1>p, <1>2 DEF IsWith
<1> QED
  BY <1>1, <1>3, <1>4

\* What calling does to each part of the machine.
LEMMA CallFields ==
  ASSUME NEW m, IsMachine(m), NEW i, i.op = "call", NEW p, p = Effect(m, i)
  PROVE  /\ IsMachine(p) /\ p.pc = m.pc /\ p.ok = m.ok /\ p.stack = m.stack
         /\ p.t1 = m.answer /\ p.t2 = m.junk /\ p.vars = m.vars /\ p.mem = m.mem /\ p.cmp = m.cmp
         /\ p.answer = NextAnswer(m.answer) /\ p.junk = m.junk
<1>p. PICK pc, a, b, st, va, me, cm, an, ju, ok :
        m = [pc |-> pc, t1 |-> a, t2 |-> b, stack |-> st, vars |-> va, mem |-> me,
             cmp |-> cm, answer |-> an, junk |-> ju, ok |-> ok]
  BY DEF IsMachine
<1>0. PICK V : m.stack \in Seq(V)
  BY DEF IsMachine
<1>1. PICK w : w = NextAnswer(m.answer)
  OBVIOUS
<1>2. Effect(m, i) = [pc |-> pc, t1 |-> an, t2 |-> ju, stack |-> st, vars |-> va, mem |-> me,
                      cmp |-> cm, answer |-> w, junk |-> ju, ok |-> ok]
  <2>1. Effect(m, i) = [m EXCEPT !.t1 = m.answer, !.t2 = m.junk, !.answer = w]
    BY <1>1 DEF Effect, MathOps, SetOps
  <2> QED
    BY <1>p, <2>1
<1>3. IsMachine(Effect(m, i))
  BY <1>p, <1>0, <1>2 DEF IsMachine
<1> QED
  BY <1>p, <1>1, <1>2, <1>3

\* Popping takes the last value off the stack.
LEMMA PopFields ==
  ASSUME NEW m, IsMachine(m), NEW p, p = Popped(m)
  PROVE  IsMachine(p) /\ IsWith(p, m, SubSeq(m.stack, 1, Len(m.stack) - 1), m.cmp)
<1>p. PICK pc, a, b, st, va, me, cm, an, ju, ok :
        m = [pc |-> pc, t1 |-> a, t2 |-> b, stack |-> st, vars |-> va, mem |-> me,
             cmp |-> cm, answer |-> an, junk |-> ju, ok |-> ok]
  BY DEF IsMachine
<1>0. PICK V : m.stack \in Seq(V)
  BY DEF IsMachine
<1>1. PICK s : s = SubSeq(m.stack, 1, Len(m.stack) - 1)
  OBVIOUS
<1>2. p = [pc |-> pc, t1 |-> a, t2 |-> b, stack |-> s, vars |-> va, mem |-> me,
           cmp |-> cm, answer |-> an, junk |-> ju, ok |-> ok]
  <2>1. p = [m EXCEPT !.stack = s]
    BY <1>1 DEF Popped
  <2> QED
    BY <1>p, <2>1
<1>3. s \in Seq(V)
  <2>1. \A k \in 1..(Len(m.stack) - 1) : m.stack[k] \in V
    BY <1>0, ElementOfSeq, LenProperties
  <2> QED
    BY <1>0, <1>1, <2>1
<1>4. IsMachine(p)
  BY <1>2, <1>3 DEF IsMachine
<1>5. IsWith(p, m, s, m.cmp)
  BY <1>p, <1>2 DEF IsWith
<1> QED
  BY <1>1, <1>4, <1>5

\* Running an instruction leaves a machine, at the same place.
LEMMA EffectMachine ==
  ASSUME NEW m, IsMachine(m), NEW i
  PROVE  IsMachine(Effect(m, i)) /\ Effect(m, i).pc = m.pc /\ Effect(m, i).ok = m.ok
<1>1. CASE i.op \in Puts \ {"pop"}
  <2>1. PICK w : w = Written(m, i)
    OBVIOUS
  <2>2. Effect(m, i) = Put(m, i.d, w)
    BY <1>1, <2>1, EffectCases
  <2>3. IsMachine(Put(m, i.d, w)) /\ IsPut(Put(m, i.d, w), m, i.d, w)
    BY PutFields
  <2> QED
    BY <2>2, <2>3 DEF IsPut
<1>2. CASE i.op = "pop"
  <2>1. PICK p : p = Popped(m)
    OBVIOUS
  <2>2. IsMachine(p) /\ p.pc = m.pc /\ p.ok = m.ok
    BY <2>1, PopFields DEF IsWith
  <2>3. PICK w : w = Written(m, i)
    OBVIOUS
  <2>4. Effect(m, i) = Put(p, i.d, w)
    BY <1>2, <2>1, <2>3, EffectCases
  <2>5. IsMachine(Put(p, i.d, w)) /\ IsPut(Put(p, i.d, w), p, i.d, w)
    BY <2>2, PutFields
  <2> QED
    BY <2>2, <2>4, <2>5 DEF IsPut
<1>3. CASE i.op \in {"push", "compare", "call"}
  <2>1. PICK p : p = Effect(m, i)
    OBVIOUS
  <2>2. CASE i.op = "push"
    <3>1. IsMachine(p) /\ IsWith(p, m, Append(m.stack, Get(m, i.s)), m.cmp)
      BY <2>1, <2>2, PushFields
    <3> QED
      BY <2>1, <3>1 DEF IsWith
  <2>3. CASE i.op = "compare"
    <3>1. IsMachine(p) /\ IsWith(p, m, m.stack, <<Get(m, i.d), Get(m, i.s)>>)
      BY <2>1, <2>3, CompareFields
    <3> QED
      BY <2>1, <3>1 DEF IsWith
  <2>4. CASE i.op = "call"
    BY <2>4, CallFields
  <2> QED
    BY <1>3, <2>2, <2>3, <2>4
<1>4. CASE i.op \notin Puts \union {"push", "compare", "call"}
  BY <1>4, EffectCases
<1> QED
  BY <1>1, <1>2, <1>3, <1>4

\* What of an instruction is read.
LEMMA ReadsFacts ==
  ASSUME NEW i
  PROVE  /\ i.op \in Moves \union MathOps \union {"push", "compare", "jmp_true", "jmp_false"} =>
               InOperand(i.s) \subseteq Reads(i)
         /\ i.op = "reference" => InAddress(i.s) \subseteq Reads(i)
         /\ i.op \in Computes \union {"compare"} => InOperand(i.d) \subseteq Reads(i)
         /\ i.op \in Puts => InAddress(i.d) \subseteq Reads(i)
<1>1. i.op \in Moves \union MathOps \union {"push", "compare", "jmp_true", "jmp_false"} =>
         InOperand(i.s) \subseteq Reads(i)
  BY DEF Reads
<1>2. i.op = "reference" => InAddress(i.s) \subseteq Reads(i)
  BY DEF Reads
<1>3. i.op \in Computes \union {"compare"} => InOperand(i.d) \subseteq Reads(i)
  BY DEF Reads
<1>4. i.op \in Puts => InAddress(i.d) \subseteq Reads(i)
  BY DEF Reads
<1> QED
  BY <1>1, <1>2, <1>3, <1>4

\* Machines that agree on what is read write the same, and stop both or neither.
LEMMA WrittenAgree ==
  ASSUME NEW m, NEW n, NEW loose, Agree(m, n, loose), NEW i, Reads(i) \intersect loose = {}
  PROVE  /\ i.op \in Puts => Written(m, i) = Written(n, i)
         /\ Traps(m, i) <=> Traps(n, i)
         /\ Jumps(m, i) <=> Jumps(n, i)
<1>1. i.op \in Moves \union MathOps \union {"push", "compare", "jmp_true", "jmp_false"} =>
         Get(m, i.s) = Get(n, i.s)
  BY ReadsFacts, GetAgree
<1>2. i.op \in Computes \union {"compare"} => Get(m, i.d) = Get(n, i.d)
  BY ReadsFacts, GetAgree
<1>3. i.op = "reference" /\ i.s.k = "pointer" => Register(m, i.s.r) = Register(n, i.s.r)
  BY ReadsFacts DEF InAddress, Agree, Register, Home
<1>4. i.op \in Puts => Written(m, i) = Written(n, i)
  <2>1. CASE i.op \in Moves
    BY <1>1, <2>1 DEF Written, Moves, MathOps, SetOps
  <2>2. CASE i.op = "reference"
    BY <1>3, <2>2 DEF Written, MathOps, SetOps
  <2>3. CASE i.op = "pop"
    BY <2>3 DEF Written, MathOps, SetOps, Agree
  <2>4. CASE i.op \in MathOps
    <3>1. Get(m, i.s) = Get(n, i.s) /\ Get(m, i.d) = Get(n, i.d)
      BY <1>1, <1>2, <2>4 DEF Computes
    <3> QED
      BY <2>4, <3>1 DEF Written, MathOps
  <2>5. CASE i.op \in {"neg", "not", "bool_not"}
    BY <1>2, <2>5 DEF Written, Computes, MathOps, SetOps
  <2>6. CASE i.op \in SetOps
    BY <2>6 DEF Written, MathOps, SetOps, Agree
  <2> QED
    BY <2>1, <2>2, <2>3, <2>4, <2>5, <2>6 DEF Puts, Computes
<1>5. Traps(m, i) <=> Traps(n, i)
  BY <1>1, <1>2 DEF Traps, Computes, MathOps
<1>6. Jumps(m, i) <=> Jumps(n, i)
  BY <1>1 DEF Jumps
<1> QED
  BY <1>4, <1>5, <1>6

\* An instruction that does not read what is loose leaves machines that agree but
\* for what was loose and was not written.
LEMMA EffectAgree ==
  ASSUME NEW m, NEW n, IsMachine(m), IsMachine(n), NEW loose, Agree(m, n, loose),
         NEW i, Reads(i) \intersect loose = {}
  PROVE  Agree(Effect(m, i), Effect(n, i), loose \ Writes(i))
<1>1. CASE i.op \in Puts
  <2>1. PICK w : w = Written(m, i) /\ w = Written(n, i)
    BY <1>1, WrittenAgree
  <2>2. InAddress(i.d) \intersect loose = {}
    BY <1>1, ReadsFacts
  <2>3. Writes(i) = Target(i.d)
    BY <1>1 DEF Writes, Puts, Moves, Computes, MathOps, SetOps
  <2>4. CASE i.op = "pop"
    <3>1. PICK p, q : p = Popped(m) /\ q = Popped(n)
      OBVIOUS
    <3>2. IsMachine(p) /\ IsWith(p, m, SubSeq(m.stack, 1, Len(m.stack) - 1), m.cmp)
      BY <3>1, PopFields
    <3>3. IsMachine(q) /\ IsWith(q, n, SubSeq(n.stack, 1, Len(n.stack) - 1), n.cmp)
      BY <3>1, PopFields
    <3>4. Agree(p, q, loose)
      BY <3>2, <3>3 DEF Agree, IsWith
    <3>5. /\ Effect(m, i) = Put(Popped(m), i.d, Written(m, i))
          /\ Effect(n, i) = Put(Popped(n), i.d, Written(n, i))
      BY <2>4, EffectCases
    <3>6. Effect(m, i) = Put(p, i.d, w) /\ Effect(n, i) = Put(q, i.d, w)
      BY <2>1, <3>1, <3>5
    <3> QED
      BY <2>2, <2>3, <3>2, <3>3, <3>4, <3>6, PutAgree
  <2>5. CASE i.op # "pop"
    <3>1. Effect(m, i) = Put(m, i.d, Written(m, i)) /\ Effect(n, i) = Put(n, i.d, Written(n, i))
      BY <1>1, <2>5, EffectCases
    <3>2. Effect(m, i) = Put(m, i.d, w) /\ Effect(n, i) = Put(n, i.d, w)
      BY <2>1, <3>1
    <3> QED
      BY <2>2, <2>3, <3>2, PutAgree
  <2> QED
    BY <2>4, <2>5
<1>2. CASE i.op = "push"
  <2>1. Get(m, i.s) = Get(n, i.s)
    BY <1>2, ReadsFacts, GetAgree
  <2>2. PICK p, q : p = Effect(m, i) /\ q = Effect(n, i)
    OBVIOUS
  <2>3. IsWith(p, m, Append(m.stack, Get(m, i.s)), m.cmp)
    BY <1>2, <2>2, PushFields
  <2>4. IsWith(q, n, Append(n.stack, Get(n, i.s)), n.cmp)
    BY <1>2, <2>2, PushFields
  <2>5. Writes(i) = {}
    BY <1>2 DEF Writes, Puts, Moves, Computes, MathOps, SetOps
  <2> QED
    BY <2>1, <2>2, <2>3, <2>4, <2>5 DEF Agree, IsWith
<1>3. CASE i.op = "compare"
  <2>1. Get(m, i.s) = Get(n, i.s) /\ Get(m, i.d) = Get(n, i.d)
    BY <1>3, ReadsFacts, GetAgree
  <2>2. PICK p, q : p = Effect(m, i) /\ q = Effect(n, i)
    OBVIOUS
  <2>3. IsWith(p, m, m.stack, <<Get(m, i.d), Get(m, i.s)>>)
    BY <1>3, <2>2, CompareFields
  <2>4. IsWith(q, n, n.stack, <<Get(n, i.d), Get(n, i.s)>>)
    BY <1>3, <2>2, CompareFields
  <2>5. Writes(i) = {}
    BY <1>3 DEF Writes, Puts, Moves, Computes, MathOps, SetOps
  <2> QED
    BY <2>1, <2>2, <2>3, <2>4, <2>5 DEF Agree, IsWith
<1>4. CASE i.op = "call"
  BY <1>4, CallFields DEF Agree
<1>5. CASE i.op \notin Puts \union {"push", "compare", "call"}
  <2>1. Writes(i) = {}
    BY <1>5 DEF Writes
  <2> QED
    BY <1>5, <2>1, EffectCases
<1> QED
  BY <1>1, <1>2, <1>3, <1>4, <1>5
-----------------------------------------------------------------------------
(* One step of each machine.                                               *)

\* Where the machine cannot go on.
Stops(m, i) == Traps(m, i) \/ (i.op = "pop" /\ m.stack = <<>>)
Landing(places) == CHOOSE j \in places : TRUE

\* Agreement is an equivalence, up to what is loose.
LEMMA AgreeFacts ==
  /\ \A m : Agree(m, m, {})
  /\ \A m, n, p, a, b, c : Agree(m, n, a) /\ Agree(n, p, b) /\ a \subseteq c /\ b \subseteq c => Agree(m, p, c)
BY DEF Agree

\* Machines that agree on what is read stop both or neither.
LEMMA StopsAgree ==
  ASSUME NEW m, NEW n, NEW loose, Agree(m, n, loose), NEW i, Reads(i) \intersect loose = {}
  PROVE  Stops(m, i) <=> Stops(n, i)
<1>1. Traps(m, i) <=> Traps(n, i)
  BY WrittenAgree
<1>2. m.stack = n.stack
  BY DEF Agree
<1> QED
  BY <1>1, <1>2 DEF Stops

\* A machine that is moved in the code is the same otherwise.
LEMMA MovedFields ==
  ASSUME NEW m, IsMachine(m), NEW q, NEW p, p = [m EXCEPT !.pc = q]
  PROVE  IsMachine(p) /\ Agree(p, m, {}) /\ p.pc = q /\ p.ok = m.ok
<1>p. PICK pc, a, b, st, va, me, cm, an, ju, ok :
        m = [pc |-> pc, t1 |-> a, t2 |-> b, stack |-> st, vars |-> va, mem |-> me,
             cmp |-> cm, answer |-> an, junk |-> ju, ok |-> ok]
  BY DEF IsMachine
<1>0. \E V : m.stack \in Seq(V)
  BY DEF IsMachine
<1>1. p = [pc |-> q, t1 |-> a, t2 |-> b, stack |-> st, vars |-> va, mem |-> me,
           cmp |-> cm, answer |-> an, junk |-> ju, ok |-> ok]
  BY <1>p
<1>2. IsMachine(p)
  BY <1>p, <1>0, <1>1 DEF IsMachine
<1>3. Agree(p, m, {}) /\ p.pc = q /\ p.ok = m.ok
  BY <1>p, <1>1 DEF Agree
<1> QED
  BY <1>2, <1>3

GoesOn(c, m, i) == ~Stops(m, i) /\ (Jumps(m, i) => Targets(c, i) # {})

\* The machine p is where m has come to with the instruction i.
HasGone(c, m, i, p) ==
    /\ IsMachine(p) /\ Agree(p, Effect(m, i), {}) /\ p.ok = TRUE
    /\ Jumps(m, i) => p.pc = Landing(Targets(c, i))
    /\ ~Jumps(m, i) => p.pc = m.pc + 1

\* A step of a machine that goes on is the effect of its instruction.
LEMMA StepFacts ==
  ASSUME NEW c, NEW m, IsMachine(m), m.ok = TRUE, NEW i, i = c[m.pc], NEW p, p = Step(c, m)
  PROVE  /\ p.ok = TRUE => GoesOn(c, m, i)
         /\ GoesOn(c, m, i) => HasGone(c, m, i, p)
<1> DEFINE fails == Stops(m, i) \/ (Jumps(m, i) /\ Targets(c, i) = {})
<1>1. ASSUME fails PROVE p.ok = FALSE
  <2>1. p = [m EXCEPT !.ok = FALSE]
    BY <1>1 DEF Step, Stops
  <2> QED
    BY <2>1 DEF IsMachine
<1>2. ASSUME ~fails, Jumps(m, i)
      PROVE  IsMachine(p) /\ Agree(p, Effect(m, i), {}) /\ p.ok = TRUE /\ p.pc = Landing(Targets(c, i))
  <2>1. PICK q : q = Landing(Targets(c, i))
    OBVIOUS
  <2>2. p = [m EXCEPT !.pc = q]
    BY <1>2, <2>1 DEF Step, Stops, Landing
  <2>3. Effect(m, i) = m
    <3>1. i.op \in JumpOps
      BY <1>2 DEF Jumps, JumpOps
    <3>2. i.op \notin Puts \union {"push", "compare", "call"}
      BY <3>1 DEF JumpOps, Puts, Moves, Computes, MathOps, SetOps
    <3> QED
      BY <3>2, EffectCases
  <2> QED
    BY <2>1, <2>2, <2>3, MovedFields
<1>3. ASSUME ~fails, ~Jumps(m, i)
      PROVE  IsMachine(p) /\ Agree(p, Effect(m, i), {}) /\ p.ok = TRUE /\ p.pc = m.pc + 1
  <2>1. PICK e : e = Effect(m, i)
    OBVIOUS
  <2>2. p = [e EXCEPT !.pc = m.pc + 1]
    BY <1>3, <2>1 DEF Step, Stops
  <2>3. IsMachine(e) /\ e.ok = TRUE
    BY <2>1, EffectMachine
  <2> QED
    BY <2>1, <2>2, <2>3, MovedFields
<1> QED
  BY <1>1, <1>2, <1>3 DEF GoesOn, HasGone
-----------------------------------------------------------------------------
(* Code that was rewritten at one, two or three places.  The places ps are *)
(* those the rule has changed or moved a value over, in order; between     *)
(* them is nothing but what was omitted.                                   *)

\* Where execution is within the places: behind the first, not behind the last.
Inside(ps, p) == ps[1] < p /\ p <= ps[Len(ps)]

\* The machine s after it has run the first h of the places.
Ran(c, ps, h, s) ==
    IF h = 0 THEN s
    ELSE IF h = 1 THEN Effect(s, c[ps[1]])
    ELSE IF h = 2 THEN Effect(Effect(s, c[ps[1]]), c[ps[2]])
    ELSE Effect(Effect(Effect(s, c[ps[1]]), c[ps[2]]), c[ps[3]])

Goes(c, ps, h, s) == \A g \in 1..h : ~Stops(Ran(c, ps, g - 1, s), c[ps[g]])

IsBlock(ps) ==
    /\ ps \in Seq(1..Len(Code)) /\ Len(ps) \in 1..3
    /\ \A g, h \in 1..Len(ps) : g < h => ps[g] < ps[h]

\* Nothing is different but at the places, where no label is, and no jump but at the last.
RewrittenAt(ps) ==
    /\ Code \in Seq(Instructions) /\ Rewritten \in Seq(Instructions) /\ Len(Rewritten) = Len(Code)
    /\ IsBlock(ps)
    /\ \A p \in 1..Len(Code) : (\A h \in 1..Len(ps) : p # ps[h]) =>
          Rewritten[p] = Code[p] /\ (Inside(ps, p) => Code[p].op = "nop")
    /\ \A h \in 1..Len(ps) :
          /\ Code[ps[h]].op # "new_label" /\ Rewritten[ps[h]].op # "new_label"
          /\ h < Len(ps) => Code[ps[h]].op \notin JumpOps /\ Rewritten[ps[h]].op \notin JumpOps
    /\ Rewritten[ps[Len(ps)]].d = Code[ps[Len(ps)]].d

\* From the same machine, if the code does not stop in the places, what was rewritten does
\* not; then they leave machines that agree but for the registers in free, and jump alike.
Simulates(ps, free) ==
    \A s : IsMachine(s) =>
        /\ \A h \in 1..Len(ps) : Goes(Code, ps, h, s) =>
              ~Stops(Ran(Rewritten, ps, h - 1, s), Rewritten[ps[h]])
        /\ Goes(Code, ps, Len(ps), s) =>
              /\ Agree(Ran(Code, ps, Len(ps), s), Ran(Rewritten, ps, Len(ps), s), free)
              /\ Jumps(Ran(Code, ps, Len(ps) - 1, s), Code[ps[Len(ps)]]) <=>
                    Jumps(Ran(Rewritten, ps, Len(ps) - 1, s), Rewritten[ps[Len(ps)]])

\* What the rule frees is not read behind the places.
Dead(ps, free) == Unread(Rewritten, Loose, ps, free)

\* One instruction more.
LEMMA RanNext ==
  ASSUME NEW c, NEW ps, NEW s, IsMachine(s), NEW h \in 0..2
  PROVE  /\ Ran(c, ps, h + 1, s) = Effect(Ran(c, ps, h, s), c[ps[h + 1]])
         /\ IsMachine(Ran(c, ps, h, s)) /\ IsMachine(Ran(c, ps, h + 1, s))
<1>1. CASE h = 0
  <2>1. Ran(c, ps, 0, s) = s /\ Ran(c, ps, 1, s) = Effect(s, c[ps[1]])
    BY DEF Ran
  <2> QED
    BY <1>1, <2>1, EffectMachine
<1>2. CASE h = 1
  <2>1. Ran(c, ps, 1, s) = Effect(s, c[ps[1]]) /\ Ran(c, ps, 2, s) = Effect(Effect(s, c[ps[1]]), c[ps[2]])
    BY DEF Ran
  <2> QED
    BY <1>2, <2>1, EffectMachine
<1>3. CASE h = 2
  <2>1. /\ Ran(c, ps, 2, s) = Effect(Effect(s, c[ps[1]]), c[ps[2]])
        /\ Ran(c, ps, 3, s) = Effect(Effect(Effect(s, c[ps[1]]), c[ps[2]]), c[ps[3]])
    BY DEF Ran
  <2>2. IsMachine(Effect(s, c[ps[1]]))
    BY EffectMachine
  <2>3. IsMachine(Effect(Effect(s, c[ps[1]]), c[ps[2]]))
    BY <2>2, EffectMachine
  <2> QED
    BY <1>3, <2>1, <2>3, EffectMachine
<1> QED
  BY <1>1, <1>2, <1>3

\* Going one instruction further.
LEMMA GoesNext ==
  ASSUME NEW c, NEW ps, NEW s, NEW h \in 0..2, Goes(c, ps, h, s),
         ~Stops(Ran(c, ps, h, s), c[ps[h + 1]])
  PROVE  Goes(c, ps, h + 1, s)
<1> SUFFICES ASSUME NEW g \in 1..h + 1 PROVE ~Stops(Ran(c, ps, g - 1, s), c[ps[g]])
  BY DEF Goes
<1>1. CASE g = h + 1
  <2>1. g - 1 = h
    BY <1>1
  <2> QED
    BY <1>1, <2>1
<1>2. CASE g # h + 1
  <2>1. g \in 1..h
    BY <1>2
  <2> QED
    BY <2>1 DEF Goes
<1> QED
  BY <1>1, <1>2

\* What is known of the code and of the places.
LEMMA BlockFacts ==
  ASSUME NEW ps, RewrittenAt(ps)
  PROVE  /\ Len(Code) \in Nat /\ DOMAIN Code = 1..Len(Code) /\ DOMAIN Rewritten = 1..Len(Code)
         /\ Len(ps) \in 1..3 /\ \A h \in 1..Len(ps) : ps[h] \in 1..Len(Code)
         /\ \A g, h \in 1..Len(ps) : g < h => ps[g] < ps[h]
<1>1. Code \in Seq(Instructions) /\ Rewritten \in Seq(Instructions) /\ Len(Rewritten) = Len(Code)
  BY DEF RewrittenAt
<1>2. ps \in Seq(1..Len(Code)) /\ Len(ps) \in 1..3 /\ \A g, h \in 1..Len(ps) : g < h => ps[g] < ps[h]
  BY DEF RewrittenAt, IsBlock
<1>3. \A h \in 1..Len(ps) : ps[h] \in 1..Len(Code)
  BY <1>2, ElementOfSeq
<1>4. Len(Code) \in Nat /\ DOMAIN Code = 1..Len(Code) /\ DOMAIN Rewritten = 1..Len(Code)
  BY <1>1, LenProperties
<1> QED
  BY <1>2, <1>3, <1>4

\* A label is in both codes at the same place, and not within the places.
LEMMA SameLabels ==
  ASSUME NEW ps, RewrittenAt(ps)
  PROVE  /\ \A i, j : i.d = j.d => Targets(Code, i) = Targets(Rewritten, j)
         /\ \A i : \A q \in Targets(Code, i) : q \in 1..Len(Code) /\ ~Inside(ps, q)
<1>1. ASSUME NEW q \in 1..Len(Code), Code[q].op = "new_label" \/ Rewritten[q].op = "new_label"
      PROVE  Rewritten[q] = Code[q] /\ ~Inside(ps, q)
  <2>1. \A h \in 1..Len(ps) : q # ps[h]
    BY <1>1 DEF RewrittenAt
  <2>2. Rewritten[q] = Code[q] /\ (Inside(ps, q) => Code[q].op = "nop")
    BY <2>1 DEF RewrittenAt
  <2> QED
    BY <1>1, <2>2
<1>2. DOMAIN Code = 1..Len(Code) /\ DOMAIN Rewritten = 1..Len(Code)
  BY BlockFacts
<1>3. ASSUME NEW i, NEW j, i.d = j.d PROVE Targets(Code, i) = Targets(Rewritten, j)
  BY <1>1, <1>2, <1>3 DEF Targets
<1>4. ASSUME NEW i, NEW q \in Targets(Code, i) PROVE q \in 1..Len(Code) /\ ~Inside(ps, q)
  BY <1>1, <1>2 DEF Targets
<1> QED
  BY <1>3, <1>4

\* The machines m2 and n2 are where m has come to with i, and n with j: the same place.
BothGone(ps, m, i, m2, n, j, n2) ==
    /\ IsMachine(m2) /\ IsMachine(n2) /\ n2.ok = TRUE
    /\ Agree(m2, Effect(m, i), {}) /\ Agree(n2, Effect(n, j), {})
    /\ n2.pc = m2.pc /\ m2.pc \in 1..Len(Code) + 1
    /\ m2.pc \in Successors(Rewritten, m.pc)
    /\ (~Jumps(n, j) /\ m2.pc = m.pc + 1) \/ ~Inside(ps, m2.pc)

\* If both machines can go on and jump alike, both have the effect of their instruction
\* and come to the same place.
LEMMA BothStep ==
  ASSUME NEW ps, RewrittenAt(ps), NEW m, NEW n, IsMachine(m), IsMachine(n), m.ok = TRUE, n.ok = TRUE,
         NEW p, p = m.pc, p = n.pc, p \in 1..Len(Code),
         NEW i, i = Code[p], NEW j, j = Rewritten[p],
         NEW m2, m2 = Step(Code, m), NEW n2, n2 = Step(Rewritten, n), m2.ok = TRUE,
         ~Stops(n, j), Jumps(m, i) <=> Jumps(n, j), Jumps(n, j) => i.d = j.d
  PROVE  BothGone(ps, m, i, m2, n, j, n2)
<1>1. i = Code[m.pc] /\ j = Rewritten[n.pc]
  OBVIOUS
<1>2. GoesOn(Code, m, i)
  BY <1>1, StepFacts
<1>3. Jumps(n, j) => Targets(Rewritten, j) = Targets(Code, i)
  BY SameLabels
<1>4. GoesOn(Rewritten, n, j)
  BY <1>2, <1>3 DEF GoesOn
<1>5. HasGone(Code, m, i, m2)
  BY <1>1, <1>2, StepFacts
<1>6. HasGone(Rewritten, n, j, n2)
  BY <1>1, <1>4, StepFacts
<1>7. CASE Jumps(n, j)
  <2>1. m2.pc \in Targets(Code, i) /\ m2.pc = Landing(Targets(Code, i))
    BY <1>2, <1>5, <1>7 DEF GoesOn, HasGone, Landing
  <2>2. n2.pc = Landing(Targets(Rewritten, j))
    BY <1>6, <1>7 DEF HasGone
  <2>3. n2.pc = m2.pc /\ m2.pc \in Targets(Rewritten, j)
    BY <1>3, <1>7, <2>1, <2>2
  <2>4. m2.pc \in 1..Len(Code) /\ ~Inside(ps, m2.pc)
    BY <2>1, SameLabels
  <2>5. j.op \in JumpOps
    BY <1>7 DEF Jumps, JumpOps
  <2>6. m2.pc \in Successors(Rewritten, p)
    BY <2>3, <2>5 DEF Successors
  <2>7. m2.pc \in 1..Len(Code) + 1
    BY <2>4, BlockFacts
  <2> QED
    BY <1>5, <1>6, <2>3, <2>4, <2>6, <2>7 DEF HasGone, BothGone
<1>8. CASE ~Jumps(n, j)
  <2>1. m2.pc = m.pc + 1
    BY <1>5, <1>8 DEF HasGone
  <2>2. n2.pc = n.pc + 1
    BY <1>6, <1>8 DEF HasGone
  <2>3. m2.pc = p + 1 /\ n2.pc = p + 1
    BY <2>1, <2>2
  <2>4. j.op # "jmp"
    BY <1>8 DEF Jumps
  <2>5. p + 1 \in Successors(Rewritten, p)
    BY <2>4 DEF Successors
  <2>6. p + 1 \in 1..Len(Code) + 1
    BY BlockFacts
  <2> QED
    BY <1>5, <1>6, <1>8, <2>1, <2>2, <2>5, <2>6 DEF HasGone, BothGone
<1> QED
  BY <1>7, <1>8
-----------------------------------------------------------------------------
(* The lock step.                                                          *)

\* From some machine s both have run the first h of the places.
Reached(ps, h, s, m, n) ==
    /\ IsMachine(s) /\ Goes(Code, ps, h, s)
    /\ Agree(m, Ran(Code, ps, h, s), {})
    /\ Agree(Ran(Rewritten, ps, h, s), n, Loose[m.pc])

Between(ps, h, p) == ps[h] < p /\ p <= ps[h + 1]

\* Outside of the places the machines agree, within there is one they both come from.
Related(ps, m, n) ==
    IF Inside(ps, m.pc)
    THEN \E h \in 1..Len(ps) - 1 : Between(ps, h, m.pc) /\ \E s : Reached(ps, h, s, m, n)
    ELSE Agree(m, n, Loose[m.pc])

Together(ps, m, n) ==
    /\ IsMachine(m) /\ IsMachine(n) /\ n.ok = TRUE
    /\ n.pc = m.pc /\ m.pc \in 1..Len(Code) + 1
    /\ Related(ps, m, n)

\* What is loose stays loose.
LEMMA LooseNext ==
  ASSUME NEW ps, RewrittenAt(ps), NEW free, Dead(ps, free), NEW p \in 1..Len(Code)
  PROVE  /\ Reads(Rewritten[p]) \intersect Loose[p] = {}
         /\ \A q \in Successors(Rewritten, p) : Loose[p] \ Writes(Rewritten[p]) \subseteq Loose[q]
BY BlockFacts DEF Dead, Unread, NeverRead

\* An instruction that the rule has left alone.
LEMMA OutsideStep ==
  ASSUME NEW ps, RewrittenAt(ps), NEW free, Dead(ps, free),
         NEW m, NEW n, Together(ps, m, n), m.ok = TRUE, m.pc \in 1..Len(Code),
         ~Inside(ps, m.pc), m.pc # ps[1],
         NEW m2, m2 = Step(Code, m), NEW n2, n2 = Step(Rewritten, n), m2.ok = TRUE
  PROVE  Together(ps, m2, n2)
<1>1. PICK p, i, j : p = m.pc /\ i = Code[p] /\ j = Rewritten[p]
  OBVIOUS
<1>2. /\ IsMachine(m) /\ IsMachine(n) /\ n.ok = TRUE /\ p = n.pc /\ p \in 1..Len(Code)
      /\ Agree(m, n, Loose[p])
  BY <1>1 DEF Together, Related
<1>3. /\ Len(ps) \in 1..3 /\ Len(Code) \in Nat /\ \A h \in 1..Len(ps) : ps[h] \in 1..Len(Code)
      /\ \A g, h \in 1..Len(ps) : g < h => ps[g] < ps[h]
  BY BlockFacts
<1>4. \A h \in 1..Len(ps) : p # ps[h]
  <2> SUFFICES ASSUME NEW h \in 1..Len(ps), p = ps[h] PROVE FALSE
    OBVIOUS
  <2>1. 1 < h
    <3>1. h # 1
      BY <1>1
    <3> QED
      BY <1>3, <3>1
  <2>2. ps[1] < p /\ p <= ps[Len(ps)]
    BY <1>3, <2>1
  <2> QED
    BY <1>1, <2>2 DEF Inside
<1>5. j = i
  BY <1>1, <1>2, <1>4 DEF RewrittenAt
<1>6. Reads(i) \intersect Loose[p] = {}
  BY <1>1, <1>2, <1>5, LooseNext
<1>7. \A q \in Successors(Rewritten, p) : Loose[p] \ Writes(i) \subseteq Loose[q]
  BY <1>1, <1>2, <1>5, LooseNext
<1>8. (Stops(m, i) <=> Stops(n, i)) /\ (Jumps(m, i) <=> Jumps(n, i))
  BY <1>2, <1>6, StopsAgree, WrittenAgree
<1>9. ~Stops(m, i)
  BY <1>1, <1>2, StepFacts DEF GoesOn
<1>10. /\ IsMachine(m2) /\ IsMachine(n2) /\ n2.ok = TRUE
       /\ Agree(m2, Effect(m, i), {}) /\ Agree(n2, Effect(n, i), {})
       /\ n2.pc = m2.pc /\ m2.pc \in 1..Len(Code) + 1
       /\ m2.pc \in Successors(Rewritten, p)
       /\ m2.pc = p + 1 \/ ~Inside(ps, m2.pc)
  <2>1. i = Code[p] /\ i = Rewritten[p]
    BY <1>1, <1>5
  <2>2. BothGone(ps, m, i, m2, n, i, n2)
    BY <1>1, <1>2, <1>8, <1>9, <2>1, BothStep
  <2> QED
    BY <1>1, <2>2 DEF BothGone
<1>11. Agree(Effect(m, i), Effect(n, i), Loose[p] \ Writes(i))
  BY <1>2, <1>6, EffectAgree
<1>12. Loose[p] \ Writes(i) \subseteq Loose[m2.pc]
  BY <1>7, <1>10
<1>13. Agree(m2, n2, Loose[m2.pc])
  BY <1>10, <1>11, <1>12 DEF Agree
<1>14. ~Inside(ps, m2.pc)
  <2>1. ASSUME m2.pc = p + 1, Inside(ps, p + 1) PROVE FALSE
    <3>1. ps[1] < p + 1 /\ p + 1 <= ps[Len(ps)] /\ ~(ps[1] < p /\ p <= ps[Len(ps)])
      BY <1>1, <2>1 DEF Inside
    <3>2. ps[1] \in Int /\ ps[Len(ps)] \in Int /\ p \in Int
      BY <1>2, <1>3
    <3> QED
      BY <1>1, <3>1, <3>2
  <2> QED
    BY <1>10, <2>1
<1> QED
  BY <1>10, <1>13, <1>14 DEF Together, Related

\* An instruction between the places is one that was omitted.
LEMMA GapStep ==
  ASSUME NEW ps, RewrittenAt(ps), NEW free, Dead(ps, free),
         NEW m, NEW n, Together(ps, m, n), m.ok = TRUE,
         NEW h \in 1..Len(ps) - 1, ps[h] < m.pc, m.pc < ps[h + 1],
         NEW s, Reached(ps, h, s, m, n),
         NEW m2, m2 = Step(Code, m), NEW n2, n2 = Step(Rewritten, n), m2.ok = TRUE
  PROVE  Together(ps, m2, n2)
<1>1. PICK p, i, j : p = m.pc /\ i = Code[p] /\ j = Rewritten[p]
  OBVIOUS
<1>3. /\ Len(ps) \in 1..3 /\ Len(Code) \in Nat /\ \A g \in 1..Len(ps) : ps[g] \in 1..Len(Code)
      /\ \A f, g \in 1..Len(ps) : f < g => ps[f] < ps[g]
  BY BlockFacts
<1>2. IsMachine(m) /\ IsMachine(n) /\ n.ok = TRUE /\ p = n.pc /\ p \in 1..Len(Code)
  <2>1. p \in 1..Len(Code) + 1 /\ IsMachine(m) /\ IsMachine(n) /\ n.ok = TRUE /\ p = n.pc
    BY <1>1 DEF Together
  <2>2. h + 1 \in 1..Len(ps)
    BY <1>3
  <2>3. p < ps[h + 1] /\ ps[h + 1] \in 1..Len(Code)
    BY <1>1, <1>3, <2>2
  <2> QED
    BY <1>3, <2>1, <2>3
<1>4. ASSUME NEW g \in 1..Len(ps) PROVE p # ps[g]
  <2>1. h \in 1..Len(ps) /\ h + 1 \in 1..Len(ps)
    BY <1>3
  <2>2. CASE g <= h
    <3>1. ps[g] <= ps[h] /\ ps[g] \in Int /\ ps[h] \in Int
      BY <1>3, <2>1, <2>2
    <3> QED
      BY <1>1, <1>2, <3>1
  <2>3. CASE h + 1 <= g
    <3>1. ps[h + 1] <= ps[g] /\ ps[g] \in Int /\ ps[h + 1] \in Int
      BY <1>3, <2>1, <2>3
    <3> QED
      BY <1>1, <1>2, <3>1
  <2> QED
    BY <1>3, <2>2, <2>3
<1>5. ps[1] < p /\ p <= ps[Len(ps)] /\ p + 1 <= ps[Len(ps)] /\ ps[1] < p + 1
  <2>1. h \in 1..Len(ps) /\ h + 1 \in 1..Len(ps) /\ 1 \in 1..Len(ps) /\ Len(ps) \in 1..Len(ps)
    BY <1>3
  <2>2. ps[1] <= ps[h] /\ ps[1] \in Int /\ ps[h] \in Int
    BY <1>3, <2>1
  <2>3. ps[h + 1] <= ps[Len(ps)] /\ ps[h + 1] \in Int /\ ps[Len(ps)] \in Int
    BY <1>3, <2>1
  <2>4. ps[h] < p /\ p < ps[h + 1] /\ p \in Int
    BY <1>1, <1>2
  <2> QED
    BY <2>2, <2>3, <2>4
<1>6. j = i /\ i.op = "nop"
  BY <1>1, <1>2, <1>4, <1>5 DEF RewrittenAt, Inside
<1>7. Effect(m, i) = m /\ Effect(n, i) = n
  <2>1. i.op \notin Puts \union {"push", "compare", "call"}
    BY <1>6 DEF Puts, Moves, Computes, MathOps, SetOps
  <2> QED
    BY <2>1, EffectCases
<1>8. ~Stops(n, i) /\ ~Jumps(m, i) /\ ~Jumps(n, i)
  BY <1>6 DEF Stops, Traps, Jumps
<1>9. /\ IsMachine(m2) /\ IsMachine(n2) /\ n2.ok = TRUE
      /\ Agree(m2, m, {}) /\ Agree(n2, n, {})
      /\ n2.pc = m2.pc /\ m2.pc \in 1..Len(Code) + 1
      /\ m2.pc \in Successors(Rewritten, p)
      /\ m2.pc = p + 1 \/ ~Inside(ps, m2.pc)
  <2>1. i = Code[p] /\ i = Rewritten[p]
    BY <1>1, <1>6
  <2>2. BothGone(ps, m, i, m2, n, i, n2)
    BY <1>1, <1>2, <1>8, <2>1, BothStep
  <2> QED
    BY <1>1, <1>7, <2>2 DEF BothGone
<1>10. m2.pc = p + 1
  <2>1. Successors(Rewritten, p) = {p + 1}
    BY <1>1, <1>6 DEF Successors, JumpOps
  <2> QED
    BY <1>9, <2>1
<1>11. Loose[p] \subseteq Loose[p + 1]
  <2>1. \A q \in Successors(Rewritten, p) : Loose[p] \ Writes(i) \subseteq Loose[q]
    BY <1>1, <1>2, <1>6, LooseNext
  <2>2. Writes(i) = {}
    BY <1>6 DEF Writes, Puts, Moves, Computes, MathOps, SetOps
  <2> QED
    BY <1>9, <1>10, <2>1, <2>2
<1>12. Reached(ps, h, s, m2, n2)
  BY <1>1, <1>9, <1>10, <1>11 DEF Reached, Agree
<1>13. Between(ps, h, m2.pc)
  <2>1. h \in 1..Len(ps) /\ h + 1 \in 1..Len(ps)
    BY <1>3
  <2>2. ps[h] \in Int /\ ps[h + 1] \in Int /\ ps[h] < p /\ p < ps[h + 1] /\ p \in Int
    BY <1>1, <1>2, <1>3, <2>1
  <2>3. ps[h] < p + 1 /\ p + 1 <= ps[h + 1]
    BY <2>2
  <2> QED
    BY <1>10, <2>3 DEF Between
<1>14. Inside(ps, m2.pc)
  BY <1>5, <1>10 DEF Inside
<1> QED
  BY <1>9, <1>12, <1>13, <1>14 DEF Together, Related

\* Machines that agree on everything stop and jump alike and go on to agree.
LEMMA SameAgree ==
  ASSUME NEW m, NEW n, IsMachine(m), IsMachine(n), Agree(m, n, {}), NEW i
  PROVE  /\ Stops(m, i) <=> Stops(n, i)
         /\ Jumps(m, i) <=> Jumps(n, i)
         /\ Agree(Effect(m, i), Effect(n, i), {})
<1>1. Reads(i) \intersect {} = {}
  OBVIOUS
<1>2. Agree(Effect(m, i), Effect(n, i), {} \ Writes(i))
  BY <1>1, EffectAgree
<1>3. {} \ Writes(i) = {}
  OBVIOUS
<1> QED
  BY <1>1, <1>2, <1>3, StopsAgree, WrittenAgree

\* At one of the places both machines run their instruction: what is left of the places
\* goes on in step, and behind the last the machines agree again.
LEMMA PlaceStep ==
  ASSUME NEW ps, RewrittenAt(ps), NEW free, Dead(ps, free), Simulates(ps, free),
         NEW m, NEW n, IsMachine(m), IsMachine(n), m.ok = TRUE, n.ok = TRUE, n.pc = m.pc,
         NEW h \in 0..Len(ps) - 1, m.pc = ps[h + 1],
         NEW s, Reached(ps, h, s, m, n),
         NEW m2, m2 = Step(Code, m), NEW n2, n2 = Step(Rewritten, n), m2.ok = TRUE
  PROVE  Together(ps, m2, n2)
<1>1. PICK p, i, j : p = m.pc /\ i = Code[p] /\ j = Rewritten[p]
  OBVIOUS
<1>0. PICK e : e = h + 1 /\ p = ps[e]
  BY <1>1
<1>2. /\ Len(ps) \in 1..3 /\ Len(Code) \in Nat /\ \A g \in 1..Len(ps) : ps[g] \in 1..Len(Code)
      /\ \A f, g \in 1..Len(ps) : f < g => ps[f] < ps[g]
  BY BlockFacts
<1>3. h \in 0..2 /\ h + 1 \in 1..Len(ps) /\ p = ps[h + 1] /\ p \in 1..Len(Code) /\ p = n.pc
  <2>1. h \in 0..2 /\ h + 1 \in 1..Len(ps)
    BY <1>2
  <2>2. p = ps[h + 1] /\ p = n.pc
    BY <1>1
  <2> QED
    BY <1>2, <2>1, <2>2
<1>4. PICK c, r : c = Ran(Code, ps, h, s) /\ r = Ran(Rewritten, ps, h, s)
  OBVIOUS
<1>5. IsMachine(s) /\ IsMachine(c) /\ IsMachine(r)
  BY <1>3, <1>4, RanNext DEF Reached
<1>6. Agree(m, c, {}) /\ Agree(r, n, Loose[p])
  BY <1>1, <1>4 DEF Reached
<1>7. Ran(Code, ps, h + 1, s) = Effect(c, i) /\ Ran(Rewritten, ps, h + 1, s) = Effect(r, j)
  BY <1>1, <1>3, <1>4, <1>5, RanNext
<1>8. ~Stops(c, i)
  <2>1. ~Stops(m, i)
    BY <1>1, StepFacts DEF GoesOn
  <2> QED
    BY <1>5, <1>6, <2>1, SameAgree
<1>9. Goes(Code, ps, h + 1, s)
  BY <1>1, <1>3, <1>4, <1>5, <1>8, GoesNext DEF Reached
<1>10. ~Stops(r, j)
  <2>1. ~Stops(Ran(Rewritten, ps, (h + 1) - 1, s), Rewritten[ps[h + 1]])
    BY <1>3, <1>5, <1>9 DEF Simulates
  <2>2. (h + 1) - 1 = h
    BY <1>3
  <2> QED
    BY <1>1, <1>3, <1>4, <2>1, <2>2
<1>11. Reads(j) \intersect Loose[p] = {}
  BY <1>1, <1>3, LooseNext
<1>12. \A q \in Successors(Rewritten, p) : Loose[p] \ Writes(j) \subseteq Loose[q]
  BY <1>1, <1>3, LooseNext
<1>13. ~Stops(n, j) /\ (Jumps(r, j) <=> Jumps(n, j))
  BY <1>6, <1>10, <1>11, StopsAgree, WrittenAgree
<1>14. /\ (Jumps(m, i) <=> Jumps(c, i))
       /\ Agree(Effect(m, i), Effect(c, i), {})
  BY <1>5, <1>6, SameAgree
<1>15. Agree(Effect(r, j), Effect(n, j), Loose[p] \ Writes(j))
  BY <1>5, <1>6, <1>11, EffectAgree
<1>16. CASE h + 1 < Len(ps)
  <2>1. ~Jumps(m, i) /\ ~Jumps(n, j)
    <3>1. i.op \notin JumpOps /\ j.op \notin JumpOps
      BY <1>1, <1>3, <1>16 DEF RewrittenAt
    <3> QED
      BY <3>1 DEF Jumps, JumpOps
  <2>2. BothGone(ps, m, i, m2, n, j, n2)
    BY <1>1, <1>3, <1>13, <2>1, BothStep
  <2>3. m2.pc = p + 1 /\ p + 1 \in Successors(Rewritten, p)
    <3>1. Successors(Rewritten, p) = {p + 1}
      <4>1. j.op \notin JumpOps
        BY <1>1, <1>3, <1>16 DEF RewrittenAt
      <4> QED
        BY <1>1, <4>1 DEF Successors, JumpOps
    <3> QED
      BY <1>1, <2>2, <3>1 DEF BothGone
  <2>4. Agree(m2, Effect(c, i), {})
    <3>1. Agree(m2, Effect(m, i), {})
      BY <2>2 DEF BothGone
    <3> QED
      BY <1>14, <3>1 DEF Agree
  <2>5. Agree(Effect(r, j), n2, Loose[m2.pc])
    <3>1. Agree(n2, Effect(n, j), {})
      BY <2>2 DEF BothGone
    <3>2. Loose[p] \ Writes(j) \subseteq Loose[m2.pc]
      BY <1>12, <2>3
    <3> QED
      BY <1>15, <3>1, <3>2 DEF Agree
  <2>6. Reached(ps, h + 1, s, m2, n2)
    BY <1>5, <1>7, <1>9, <2>4, <2>5 DEF Reached
  <2>7. h + 1 \in 1..Len(ps) - 1 /\ (h + 1) + 1 \in 1..Len(ps) /\ 1 \in 1..Len(ps) /\ Len(ps) \in 1..Len(ps)
    BY <1>2, <1>3, <1>16
  <2>8. p < ps[(h + 1) + 1] /\ ps[(h + 1) + 1] \in 1..Len(Code)
    <3>1. PICK k : k = (h + 1) + 1
      OBVIOUS
    <3>2. e \in 1..Len(ps) /\ k \in 1..Len(ps) /\ e < k
      BY <1>0, <1>3, <2>7, <3>1
    <3>3. p < ps[k] /\ ps[k] \in 1..Len(Code)
      BY <1>0, <1>2, <3>2
    <3> QED
      BY <3>1, <3>3
  <2>9. Between(ps, h + 1, m2.pc)
    BY <1>3, <2>3, <2>8 DEF Between
  <2>10. Inside(ps, m2.pc)
    <3>1. PICK k : k = (h + 1) + 1
      OBVIOUS
    <3>2. e \in 1..Len(ps) /\ k \in 1..Len(ps) /\ 1 \in 1..Len(ps) /\ Len(ps) \in 1..Len(ps)
      BY <1>0, <1>3, <2>7, <3>1
    <3>3. ps[1] <= p /\ ps[1] \in Int
      BY <1>0, <1>2, <3>2
    <3>4. ps[k] <= ps[Len(ps)] /\ ps[Len(ps)] \in Int
      BY <1>2, <3>2
    <3>5. p < ps[k] /\ ps[k] \in Int /\ p \in Int
      BY <1>3, <2>8, <3>1
    <3> QED
      BY <2>3, <3>3, <3>4, <3>5 DEF Inside
  <2> QED
    BY <2>2, <2>6, <2>7, <2>9, <2>10 DEF Together, Related, BothGone
<1>17. CASE h + 1 = Len(ps)
  <2>1. /\ Agree(Effect(c, i), Effect(r, j), free)
        /\ Jumps(c, i) <=> Jumps(r, j)
    <3>1. Goes(Code, ps, Len(ps), s)
      BY <1>9, <1>17
    <3>2. /\ Agree(Ran(Code, ps, Len(ps), s), Ran(Rewritten, ps, Len(ps), s), free)
          /\ Jumps(Ran(Code, ps, Len(ps) - 1, s), Code[ps[Len(ps)]]) <=>
                    Jumps(Ran(Rewritten, ps, Len(ps) - 1, s), Rewritten[ps[Len(ps)]])
      BY <1>5, <3>1 DEF Simulates
    <3>3. Len(ps) - 1 = h
      BY <1>3, <1>17
    <3>4. /\ Agree(Ran(Code, ps, h + 1, s), Ran(Rewritten, ps, h + 1, s), free)
          /\ Jumps(Ran(Code, ps, h, s), Code[ps[h + 1]]) <=>
                    Jumps(Ran(Rewritten, ps, h, s), Rewritten[ps[h + 1]])
      BY <1>17, <3>2, <3>3
    <3> QED
      BY <1>1, <1>3, <1>4, <1>7, <3>4
  <2>2. i.d = j.d
    BY <1>1, <1>3, <1>17 DEF RewrittenAt
  <2>3. BothGone(ps, m, i, m2, n, j, n2)
    BY <1>1, <1>3, <1>13, <1>14, <2>1, <2>2, BothStep
  <2>4. free \subseteq Loose[m2.pc] /\ Loose[p] \ Writes(j) \subseteq Loose[m2.pc]
    <3>1. m2.pc \in Successors(Rewritten, p)
      BY <1>1, <2>3 DEF BothGone
    <3>2. free \subseteq Loose[m2.pc]
      BY <1>3, <1>17, <3>1 DEF Dead, Unread
    <3> QED
      BY <1>12, <3>1, <3>2
  <2>5. Agree(m2, n2, Loose[m2.pc])
    <3>1. Agree(m2, Effect(m, i), {}) /\ Agree(n2, Effect(n, j), {})
      BY <2>3 DEF BothGone
    <3>2. Agree(m2, Effect(c, i), {})
      BY <1>14, <3>1 DEF Agree
    <3>3. Agree(m2, Effect(r, j), free)
      BY <2>1, <3>2 DEF Agree
    <3>4. Agree(Effect(r, j), n2, Loose[p] \ Writes(j))
      BY <1>15, <3>1 DEF Agree
    <3> QED
      BY <2>4, <3>3, <3>4 DEF Agree
  <2>6. ~Inside(ps, m2.pc)
    <3>1. m2.pc = p + 1 \/ ~Inside(ps, m2.pc)
      BY <1>1, <2>3 DEF BothGone
    <3>2. ~Inside(ps, p + 1)
      <4>1. e = Len(ps)
        BY <1>0, <1>17
      <4>2. p = ps[Len(ps)]
        BY <1>0, <4>1
      <4>3. p \in Int
        BY <1>3
      <4> QED
        BY <4>2, <4>3 DEF Inside
    <3> QED
      BY <3>1, <3>2
  <2> QED
    BY <2>3, <2>5, <2>6 DEF Together, Related, BothGone
<1> QED
  BY <1>2, <1>3, <1>16, <1>17

Init == before = after /\ IsMachine(before) /\ before.ok = TRUE /\ before.pc = 1
Next ==
    /\ before.ok = TRUE /\ before.pc \in 1..Len(Code)
    /\ before' = Step(Code, before)
    /\ after' = Step(Rewritten, after)
Lockstep == Init /\ [][Next]_<<before, after>>

\* As long as the code has not stopped what was rewritten has not, is at the same place,
\* and outside of the places agrees with it on all that is read later.
RunsAlike(ps) ==
    before.ok = TRUE =>
        /\ after.ok = TRUE /\ after.pc = before.pc
        /\ ~Inside(ps, before.pc) => Agree(before, after, Loose[before.pc])

InStep(ps) == before.ok = TRUE => Together(ps, before, after)

\* A step keeps the machines in step.
LEMMA NextKeeps ==
  ASSUME NEW ps, RewrittenAt(ps), NEW free, Dead(ps, free), Simulates(ps, free),
         InStep(ps), Next
  PROVE  InStep(ps)'
<1>1. PICK m, n, m2, n2 : m = before /\ n = after /\ m2 = before' /\ n2 = after'
  OBVIOUS
<1>2. /\ m.ok = TRUE /\ m.pc \in 1..Len(Code) /\ Together(ps, m, n)
      /\ m2 = Step(Code, m) /\ n2 = Step(Rewritten, n)
  BY <1>1 DEF Next, InStep
<1>3. SUFFICES ASSUME m2.ok = TRUE PROVE Together(ps, m2, n2)
  BY <1>1 DEF InStep, Together, Related, Reached, Goes, Between, Inside
<1>4. /\ Len(ps) \in 1..3 /\ Len(Code) \in Nat /\ \A g \in 1..Len(ps) : ps[g] \in 1..Len(Code)
      /\ \A f, g \in 1..Len(ps) : f < g => ps[f] < ps[g]
  BY BlockFacts
<1>5. /\ IsMachine(m) /\ IsMachine(n) /\ n.ok = TRUE /\ n.pc = m.pc /\ Related(ps, m, n)
  BY <1>2 DEF Together
<1>6. CASE Inside(ps, m.pc)
  <2>1. PICK h \in 1..Len(ps) - 1 : Between(ps, h, m.pc) /\ \E s : Reached(ps, h, s, m, n)
    BY <1>5, <1>6 DEF Related
  <2>2. PICK s : Reached(ps, h, s, m, n)
    BY <2>1
  <2>3. CASE m.pc = ps[h + 1]
    <3>1. h \in 0..Len(ps) - 1
      BY <1>4
    <3> QED
      BY <1>2, <1>3, <1>5, <2>2, <2>3, <3>1, PlaceStep
  <2>4. CASE m.pc # ps[h + 1]
    <3>1. ps[h] < m.pc /\ m.pc <= ps[h + 1]
      BY <2>1 DEF Between
    <3>2. ps[h + 1] \in Int /\ m.pc \in Int
      <4>1. h + 1 \in 1..Len(ps)
        BY <1>4
      <4> QED
        BY <1>2, <1>4, <4>1
    <3>3. m.pc < ps[h + 1]
      BY <2>4, <3>1, <3>2
    <3> QED
      BY <1>2, <1>3, <2>2, <3>1, <3>3, GapStep
  <2> QED
    BY <2>3, <2>4
<1>7. CASE ~Inside(ps, m.pc) /\ m.pc # ps[1]
  BY <1>2, <1>3, <1>7, OutsideStep
<1>8. CASE ~Inside(ps, m.pc) /\ m.pc = ps[1]
  <2>1. Reached(ps, 0, m, m, n)
    <3>1. Agree(m, n, Loose[m.pc])
      BY <1>5, <1>8 DEF Related
    <3>2. Ran(Code, ps, 0, m) = m /\ Ran(Rewritten, ps, 0, m) = m
      BY DEF Ran
    <3>3. Goes(Code, ps, 0, m)
      BY DEF Goes
    <3> QED
      BY <1>5, <3>1, <3>2, <3>3, AgreeFacts DEF Reached
  <2>2. m.pc = ps[0 + 1] /\ 0 \in 0..Len(ps) - 1
    BY <1>4, <1>8
  <2> QED
    BY <1>2, <1>3, <1>5, <2>1, <2>2, PlaceStep
<1> QED
  BY <1>6, <1>7, <1>8

\* The machines are in step from the start to the end.
LEMMA InStepAlways ==
  ASSUME NEW ps, RewrittenAt(ps), NEW free, Dead(ps, free), Simulates(ps, free)
  PROVE  /\ Init => InStep(ps)
         /\ InStep(ps) /\ [Next]_<<before, after>> => InStep(ps)'
         /\ InStep(ps) => RunsAlike(ps)
<1>1. Init => InStep(ps)
  <2> SUFFICES ASSUME Init PROVE InStep(ps)
    OBVIOUS
  <2>1. PICK m : m = before /\ m = after /\ IsMachine(m) /\ m.ok = TRUE /\ m.pc = 1
    BY DEF Init
  <2>2. ~Inside(ps, 1) /\ 1 \in 1..Len(Code) + 1
    <3>1. Len(Code) \in Nat /\ ps[1] \in 1..Len(Code)
      BY BlockFacts
    <3> QED
      BY <3>1 DEF Inside
  <2>3. Agree(m, m, Loose[1])
    BY DEF Agree
  <2> QED
    BY <2>1, <2>2, <2>3 DEF InStep, Together, Related
<1>2. InStep(ps) /\ [Next]_<<before, after>> => InStep(ps)'
  <2> SUFFICES ASSUME InStep(ps), [Next]_<<before, after>> PROVE InStep(ps)'
    OBVIOUS
  <2>1. CASE Next
    BY <2>1, NextKeeps
  <2>2. CASE UNCHANGED <<before, after>>
    BY <2>2 DEF InStep, Together, Related, Reached, Goes, Between, Inside
  <2> QED
    BY <2>1, <2>2
<1>3. InStep(ps) => RunsAlike(ps)
  BY DEF InStep, Together, Related, RunsAlike
<1> QED
  BY <1>1, <1>2, <1>3

\* Code that was rewritten so that it simulates what was there runs alike, for ever,
\* whatever it computes.
THEOREM RewritesRunAlike ==
  ASSUME NEW ps, RewrittenAt(ps), NEW free, Dead(ps, free), Simulates(ps, free)
  PROVE  Lockstep => []RunsAlike(ps)
<1>1. Init => InStep(ps)
  BY InStepAlways
<1>2. InStep(ps) /\ [Next]_<<before, after>> => InStep(ps)'
  BY InStepAlways
<1>3. InStep(ps) => RunsAlike(ps)
  BY InStepAlways
<1> QED
  BY <1>1, <1>2, <1>3, PTL DEF Lockstep
-----------------------------------------------------------------------------
(* Looking at the code: between the instructions that are found is nothing *)
(* but what was omitted.                                                   *)

\* A set of places has a first one.
LEMMA FirstPlace ==
  ASSUME NEW n \in Nat, NEW S \in SUBSET (1..n), S # {}
  PROVE  \E k \in S : \A j \in S : k <= j
<1> DEFINE Initial == {1..k : k \in S}
<1>1. IsWellFoundedOn(StrictSubsetOrdering(1..n), FiniteSubsetsOf(1..n))
  BY FS_StrictSubsetOrderingWellFounded
<1>2. Initial \subseteq FiniteSubsetsOf(1..n) /\ Initial # {}
  <2>1. ASSUME NEW k \in S PROVE 1..k \in FiniteSubsetsOf(1..n)
    <3>1. IsFiniteSet(1..k) /\ 1..k \subseteq 1..n
      <4>1. 1 \in Int /\ k \in Int
        OBVIOUS
      <4> QED
        BY <4>1, FS_Interval
    <3> QED
      BY <3>1 DEF FiniteSubsetsOf
  <2> QED
    BY <2>1
<1>3. \E x \in Initial : \A y \in Initial : <<y, x>> \notin StrictSubsetOrdering(1..n)
  <2> HIDE DEF Initial
  <2> QED
    BY <1>1, <1>2, WFMin
<1>4. PICK k \in S : \A j \in S : <<1..j, 1..k>> \notin StrictSubsetOrdering(1..n)
  BY <1>3
<1>5. ASSUME NEW j \in S, j < k PROVE FALSE
  <2>1. 1..j \subseteq 1..k /\ k \in 1..k /\ k \notin 1..j /\ 1..j \subseteq 1..n /\ 1..k \subseteq 1..n
    BY <1>5
  <2> QED
    BY <1>4, <2>1 DEF StrictSubsetOrdering
<1> QED
  BY <1>5

\* A set of places has a last one.
LEMMA LastPlace ==
  ASSUME NEW n \in Nat, NEW S \in SUBSET (1..n), S # {}
  PROVE  \E k \in S : \A j \in S : j <= k
<1>1. PICK T : T = {n + 1 - k : k \in S}
  OBVIOUS
<1>2. T \in SUBSET (1..n) /\ T # {}
  <2>1. ASSUME NEW k \in S PROVE n + 1 - k \in 1..n
    <3>1. k \in 1..n
      OBVIOUS
    <3> QED
      BY <3>1
  <2>2. T # {}
    BY <1>1
  <2> QED
    BY <1>1, <2>1, <2>2
<1>3. PICK t \in T : \A j \in T : t <= j
  BY <1>2, FirstPlace
<1>4. PICK k \in S : t = n + 1 - k
  BY <1>1
<1>5. ASSUME NEW j \in S PROVE j <= k
  <2>1. n + 1 - j \in T
    BY <1>1
  <2>2. t <= n + 1 - j
    BY <1>3, <2>1
  <2> QED
    BY <1>4, <2>2
<1> QED
  BY <1>5

IsBack(c, f, i) ==
    f = [j \in 0 .. i |-> IF j = 0 THEN Len(c) ELSE IF c[j].op # "nop" THEN j ELSE f[j - 1]]

\* What is found behind is an instruction, with nothing but what was omitted after it.
LEMMA ThisAtFacts ==
  ASSUME NEW c, Len(c) \in Nat, NEW i \in 1..Len(c)
  PROVE  ThisAt(c, i) \in 1..Len(c) /\ \A p \in 1..i : ThisAt(c, i) < p => c[p].op = "nop"
<1> DEFINE Last(q) == {p \in 1..q : c[p].op # "nop" /\ \A r \in 1..q : p < r => c[r].op = "nop"}
<1>1. PICK f : f = CHOOSE g : IsBack(c, g, i)
  OBVIOUS
<1>2. ThisAt(c, i) = f[i]
  BY <1>1 DEF ThisAt, IsBack
<1>3. \E g : IsBack(c, g, i)
  <2>1. PICK w : w = [q \in 0 .. i |-> IF Last(q) # {} THEN CHOOSE p : p \in Last(q) ELSE Len(c)]
    OBVIOUS
  <2>2. w[0] = Len(c)
    <3>1. Last(0) = {}
      OBVIOUS
    <3> QED
      BY <2>1, <3>1
  <2>3. ASSUME NEW q \in 1..i, c[q].op # "nop" PROVE w[q] = q
    <3>1. Last(q) = {q}
      BY <2>3
    <3>2. w[q] = IF Last(q) # {} THEN CHOOSE p : p \in Last(q) ELSE Len(c)
      BY <2>1
    <3> HIDE DEF Last
    <3> QED
      BY <3>1, <3>2
  <2>4. ASSUME NEW q \in 1..i, c[q].op = "nop" PROVE w[q] = w[q - 1]
    <3>1. \A p \in Last(q) : p \in Last(q - 1)
      BY <2>4
    <3>2. \A p \in Last(q - 1) : p \in Last(q)
      <4> SUFFICES ASSUME NEW p \in Last(q - 1) PROVE p \in Last(q)
        OBVIOUS
      <4>1. \A r \in 1..q : r \in 1..(q - 1) \/ r = q
        OBVIOUS
      <4> QED
        BY <2>4, <4>1
    <3>3. Last(q) = Last(q - 1)
      BY <3>1, <3>2
    <3>4. w[q] = IF Last(q) # {} THEN CHOOSE p : p \in Last(q) ELSE Len(c)
      BY <2>1
    <3>5. w[q - 1] = IF Last(q - 1) # {} THEN CHOOSE p : p \in Last(q - 1) ELSE Len(c)
      BY <2>1
    <3> HIDE DEF Last
    <3> QED
      BY <3>3, <3>4, <3>5
  <2>5. w = [j \in 0 .. i |-> IF j = 0 THEN Len(c) ELSE IF c[j].op # "nop" THEN j ELSE w[j - 1]]
    <3>1. DOMAIN w = 0..i /\ w = [j \in 0..i |-> w[j]]
      BY <2>1
    <3>2. ASSUME NEW j \in 0..i
          PROVE  w[j] = IF j = 0 THEN Len(c) ELSE IF c[j].op # "nop" THEN j ELSE w[j - 1]
      <4>1. j = 0 \/ j \in 1..i
        OBVIOUS
      <4> QED
        BY <2>2, <2>3, <2>4, <4>1
    <3> HIDE DEF Last
    <3> QED
      BY <3>1, <3>2
  <2> QED
    BY <2>5 DEF IsBack
<1>4. f = [j \in 0 .. i |-> IF j = 0 THEN Len(c) ELSE IF c[j].op # "nop" THEN j ELSE f[j - 1]]
  BY <1>1, <1>3 DEF IsBack
<1> DEFINE Good(q) == f[q] \in 1..Len(c) /\ \A p \in 1..q : f[q] < p => c[p].op = "nop"
<1>5. Good(0)
  BY <1>4
<1>6. ASSUME NEW q \in 1..i, Good(q - 1) PROVE Good(q)
  <2>1. f[q] = IF c[q].op # "nop" THEN q ELSE f[q - 1]
    BY <1>4
  <2>2. CASE c[q].op # "nop"
    BY <2>1, <2>2
  <2>3. CASE c[q].op = "nop"
    <3>1. \A p \in 1..q : p \in 1..(q - 1) \/ p = q
      OBVIOUS
    <3> QED
      BY <1>6, <2>1, <2>3, <3>1
  <2> QED
    BY <2>2, <2>3
<1>7. ASSUME NEW q \in 1..i PROVE Good(q)
  <2>1. SUFFICES ASSUME ~Good(q) PROVE FALSE
    OBVIOUS
  <2> DEFINE Bad == {k \in 1..i : ~Good(k)}
  <2>2. Bad \in SUBSET (1..i) /\ Bad # {} /\ i \in Nat
    BY <2>1
  <2>3. PICK k \in Bad : \A h \in Bad : k <= h
    <3> HIDE DEF Bad
    <3> QED
      BY <2>2, FirstPlace
  <2>4. k \in 1..i /\ ~Good(k)
    OBVIOUS
  <2>5. Good(k - 1)
    <3>1. k - 1 = 0 \/ k - 1 \in 1..i
      BY <2>4
    <3>2. k - 1 \notin Bad
      <4> HIDE DEF Bad
      <4> QED
        BY <2>3, <2>4
    <3> HIDE DEF Good
    <3> QED
      BY <1>5, <3>1, <3>2
  <2> HIDE DEF Good
  <2> QED
    BY <1>6, <2>4, <2>5
<1> QED
  BY <1>2, <1>7

IsOn(c, f) == f = [j \in Nat |-> IF j > Len(c) THEN Len(c) ELSE IF c[j].op # "nop" THEN j ELSE f[j + 1]]

\* What is found ahead is an instruction, with nothing but what was omitted before it.
LEMMA FirstFromFacts ==
  ASSUME NEW c, Len(c) \in Nat \ {0}, NEW i \in Nat \ {0}
  PROVE  FirstFrom(c, i) \in 1..Len(c) /\ \A p \in i..Len(c) : p < FirstFrom(c, i) => c[p].op = "nop"
<1> DEFINE First(q) == {p \in q..Len(c) : c[p].op # "nop" /\ \A r \in q..Len(c) : r < p => c[r].op = "nop"}
<1>1. PICK f : f = CHOOSE g : IsOn(c, g)
  OBVIOUS
<1>2. FirstFrom(c, i) = f[i]
  BY <1>1 DEF FirstFrom, IsOn
<1>3. \E g : IsOn(c, g)
  <2>1. PICK w : w = [q \in Nat |-> IF First(q) # {} THEN CHOOSE p : p \in First(q) ELSE Len(c)]
    OBVIOUS
  <2>2. ASSUME NEW q \in Nat, q > Len(c) PROVE w[q] = Len(c)
    <3>1. First(q) = {}
      BY <2>2
    <3>2. w[q] = IF First(q) # {} THEN CHOOSE p : p \in First(q) ELSE Len(c)
      BY <2>1
    <3> HIDE DEF First
    <3> QED
      BY <3>1, <3>2
  <2>3. ASSUME NEW q \in Nat, q <= Len(c), c[q].op # "nop" PROVE w[q] = q
    <3>1. First(q) = {q}
      BY <2>3
    <3>2. w[q] = IF First(q) # {} THEN CHOOSE p : p \in First(q) ELSE Len(c)
      BY <2>1
    <3> HIDE DEF First
    <3> QED
      BY <3>1, <3>2
  <2>4. ASSUME NEW q \in Nat, q <= Len(c), c[q].op = "nop" PROVE w[q] = w[q + 1]
    <3>1. \A p \in First(q) : p \in First(q + 1)
      BY <2>4
    <3>2. \A p \in First(q + 1) : p \in First(q)
      <4> SUFFICES ASSUME NEW p \in First(q + 1) PROVE p \in First(q)
        OBVIOUS
      <4>1. \A r \in q..Len(c) : r \in (q + 1)..Len(c) \/ r = q
        OBVIOUS
      <4> QED
        BY <2>4, <4>1
    <3>3. First(q) = First(q + 1)
      BY <3>1, <3>2
    <3>4. w[q] = IF First(q) # {} THEN CHOOSE p : p \in First(q) ELSE Len(c)
      BY <2>1
    <3>5. w[q + 1] = IF First(q + 1) # {} THEN CHOOSE p : p \in First(q + 1) ELSE Len(c)
      <4>1. q + 1 \in Nat
        OBVIOUS
      <4> HIDE DEF First
      <4> QED
        BY <2>1, <4>1
    <3> HIDE DEF First
    <3> QED
      BY <3>3, <3>4, <3>5
  <2>5. w = [j \in Nat |-> IF j > Len(c) THEN Len(c) ELSE IF c[j].op # "nop" THEN j ELSE w[j + 1]]
    <3>1. DOMAIN w = Nat /\ w = [j \in Nat |-> w[j]]
      BY <2>1
    <3>2. ASSUME NEW j \in Nat
          PROVE  w[j] = IF j > Len(c) THEN Len(c) ELSE IF c[j].op # "nop" THEN j ELSE w[j + 1]
      <4>1. j > Len(c) \/ j <= Len(c)
        OBVIOUS
      <4> HIDE DEF First
      <4> QED
        BY <2>2, <2>3, <2>4, <4>1
    <3> HIDE DEF First
    <3> QED
      BY <3>1, <3>2
  <2> QED
    BY <2>5 DEF IsOn
<1>4. f = [j \in Nat |-> IF j > Len(c) THEN Len(c) ELSE IF c[j].op # "nop" THEN j ELSE f[j + 1]]
  BY <1>1, <1>3 DEF IsOn
<1> DEFINE Good(q) == f[q] \in 1..Len(c) /\ \A p \in q..Len(c) : p < f[q] => c[p].op = "nop"
<1>5. ASSUME NEW q \in Nat, q > Len(c) PROVE Good(q)
  BY <1>4, <1>5
<1>6. ASSUME NEW q \in 1..Len(c), Good(q + 1) PROVE Good(q)
  <2>1. f[q] = IF c[q].op # "nop" THEN q ELSE f[q + 1]
    BY <1>4
  <2>2. CASE c[q].op # "nop"
    BY <2>1, <2>2
  <2>3. CASE c[q].op = "nop"
    <3>1. \A p \in q..Len(c) : p \in (q + 1)..Len(c) \/ p = q
      OBVIOUS
    <3> QED
      BY <1>6, <2>1, <2>3, <3>1
  <2> QED
    BY <2>2, <2>3
<1>7. ASSUME NEW q \in 1..Len(c) PROVE Good(q)
  <2>1. SUFFICES ASSUME ~Good(q) PROVE FALSE
    OBVIOUS
  <2> DEFINE Bad == {k \in 1..Len(c) : ~Good(k)}
  <2>2. Bad \in SUBSET (1..Len(c)) /\ Bad # {}
    BY <2>1
  <2>3. PICK k \in Bad : \A h \in Bad : h <= k
    <3> HIDE DEF Bad
    <3> QED
      BY <2>2, LastPlace
  <2>4. k \in 1..Len(c) /\ ~Good(k)
    OBVIOUS
  <2>5. Good(k + 1)
    <3>1. k + 1 \in Nat /\ (k + 1 > Len(c) \/ k + 1 \in 1..Len(c))
      BY <2>4
    <3>2. k + 1 \notin Bad
      <4> HIDE DEF Bad
      <4> QED
        BY <2>3, <2>4
    <3> HIDE DEF Good
    <3> QED
      BY <1>5, <3>1, <3>2
  <2> HIDE DEF Good
  <2> QED
    BY <1>6, <2>4, <2>5
<1>8. Good(i)
  <2>1. i > Len(c) \/ i \in 1..Len(c)
    OBVIOUS
  <2> HIDE DEF Good
  <2> QED
    BY <1>5, <1>7, <2>1
<1> QED
  BY <1>2, <1>8
-----------------------------------------------------------------------------
(* What the rules write.                                                   *)

\* The code d is c but for the instruction j.
SameBut(c, d, js) ==
    /\ d \in Seq(Instructions) /\ Len(d) = Len(c)
    /\ \A p \in 1..Len(c) : p \notin js => d[p] = c[p]

\* One instruction is replaced.
LEMMA ChangeIs ==
  ASSUME NEW c \in Seq(Instructions), NEW j \in 1..Len(c), NEW x \in Instructions
  PROVE  SameBut(c, [c EXCEPT ![j] = x], {j}) /\ [c EXCEPT ![j] = x][j] = x
BY DEF SameBut

\* The parts of an instruction.
LEMMA InstructionIs ==
  ASSUME NEW i \in Instructions
  PROVE  \E op \in Opcodes, d, s \in Operands : i = [op |-> op, d |-> d, s |-> s]
BY DEF Instructions

\* omit changes the opcode only.
LEMMA OmitIs ==
  ASSUME NEW c \in Seq(Instructions), NEW j \in 1..Len(c), NEW d, d = omit(c, j)
  PROVE  SameBut(c, d, {j}) /\ d[j].op = "nop" /\ d[j].d = c[j].d
<1>1. c[j] \in Instructions
  BY ElementOfSeq
<1>2. PICK op \in Opcodes, e, s \in Operands : c[j] = [op |-> op, d |-> e, s |-> s]
  BY <1>1, InstructionIs
<1>n. PICK n \in Opcodes : n = "nop"
  BY DEF Opcodes
<1>3. PICK x : x = [op |-> n, d |-> e, s |-> s]
  OBVIOUS
<1>4. x \in Instructions /\ x.op = "nop" /\ x.d = c[j].d
  <2>1. x \in Instructions
    <3>1. \A o \in Opcodes, g, t \in Operands : [op |-> o, d |-> g, s |-> t] \in Instructions
      BY DEF Instructions
    <3> QED
      BY <1>3, <3>1
  <2>2. x.op = "nop" /\ x.d = e
    BY <1>3, <1>n
  <2>3. c[j].d = e
    BY <1>2
  <2> QED
    BY <2>1, <2>2, <2>3
<1>5. [c[j] EXCEPT !.op = "nop"] = x
  BY <1>2, <1>3, <1>n
<1>6. d = [c EXCEPT ![j] = x]
  BY <1>5 DEF omit
<1>7. SameBut(c, d, {j}) /\ d[j] = x
  <2>1. x \in Instructions
    BY <1>4
  <2>2. SameBut(c, [c EXCEPT ![j] = x], {j}) /\ [c EXCEPT ![j] = x][j] = x
    BY <2>1, ChangeIs
  <2> QED
    BY <1>6, <2>2
<1> QED
  BY <1>4, <1>7

\* Forward omits one instruction and changes the opcode and the source of another.
LEMMA ForwardIs ==
  ASSUME NEW c \in Seq(Instructions), NEW j \in 1..Len(c), NEW k \in 1..Len(c), j # k,
         NEW op \in Opcodes, NEW d, d = Forward(c, j, k, op)
  PROVE  /\ SameBut(c, d, {j, k}) /\ d[j].op = "nop" /\ d[j].d = c[j].d
         /\ d[k] = Ins(op, c[k].d, c[j].s)
<1>1. c[j] \in Instructions /\ c[k] \in Instructions
  BY ElementOfSeq
<1>2. PICK x : x = Ins(op, c[k].d, c[j].s)
  OBVIOUS
<1>3. x \in Instructions
  BY <1>1, <1>2 DEF Instructions, Ins
<1>4. PICK e : e = [c EXCEPT ![k] = x]
  OBVIOUS
<1>5. SameBut(c, e, {k}) /\ e[k] = x
  BY <1>3, <1>4, ChangeIs
<1>6. e = [c EXCEPT ![k].op = op, ![k].s = c[j].s]
  <2>1. [[c[k] EXCEPT !.op = op] EXCEPT !.s = c[j].s] = x
    <3>1. PICK o \in Opcodes, g, s \in Operands : c[k] = [op |-> o, d |-> g, s |-> s]
      BY <1>1, InstructionIs
    <3>2. PICK t : t = c[j].s
      OBVIOUS
    <3>3. x = [op |-> op, d |-> g, s |-> t]
      BY <1>2, <3>1, <3>2 DEF Ins
    <3>4. [c[k] EXCEPT !.op = op] = [op |-> op, d |-> g, s |-> s]
      BY <3>1
    <3>5. [[op |-> op, d |-> g, s |-> s] EXCEPT !.s = t] = [op |-> op, d |-> g, s |-> t]
      OBVIOUS
    <3> QED
      BY <3>2, <3>3, <3>4, <3>5
  <2>2. PICK y : y = [c[k] EXCEPT !.op = op]
    OBVIOUS
  <2>3. [c EXCEPT ![k].op = op] = [c EXCEPT ![k] = y]
    BY <2>2
  <2>4. [[c EXCEPT ![k] = y] EXCEPT ![k].s = c[j].s] = [c EXCEPT ![k] = x]
    BY <2>1, <2>2
  <2> QED
    BY <1>4, <2>3, <2>4
<1>7. d = omit(e, j)
  BY <1>6 DEF Forward
<1>8. SameBut(e, d, {j}) /\ d[j].op = "nop" /\ d[j].d = e[j].d
  <2>1. e \in Seq(Instructions) /\ j \in 1..Len(e)
    BY <1>5 DEF SameBut
  <2> QED
    BY <1>7, <2>1, OmitIs
<1> QED
  BY <1>2, <1>5, <1>8 DEF SameBut
-----------------------------------------------------------------------------
(* What the instructions of a rule do, and what it writes in their place.  *)

\* What was put into a register is there, and nothing else has changed.
LEMMA RegisterPut ==
  ASSUME NEW m, IsMachine(m), NEW o, IsRegister(o), NEW w, NEW p, p = Put(m, o, w)
  PROVE  /\ IsMachine(p) /\ Agree(p, m, {Home(o.r)}) /\ Target(o) = {Home(o.r)}
         /\ m.stack = p.stack
<1>1. IsMachine(p) /\ IsPut(p, m, o, w)
  BY PutFields
<1>2. Target(o) = {Home(o.r)} /\ o.k # "variable" /\ o.k # "pointer"
  BY DEF Target, Home, IsRegister
<1>3. Agree(p, m, {Home(o.r)}) /\ m.stack = p.stack
  BY <1>1, <1>2 DEF IsPut, Agree, Home
<1> QED
  BY <1>1, <1>2, <1>3

\* What was put into a register is read from it.
LEMMA RegisterGet ==
  ASSUME NEW m, IsMachine(m), NEW o, IsRegister(o), NEW w, NEW p, p = Put(m, o, w),
         NEW q, IsRegister(q), o.r = q.r
  PROVE  Get(p, q) = w
<1>1. IsPut(p, m, o, w)
  BY PutFields
<1>2. Target(o) = {Home(o.r)}
  BY RegisterPut
<1>3. Get(p, q) = Register(p, o.r)
  BY DEF Get, IsRegister
<1> QED
  BY <1>1, <1>2, <1>3 DEF IsPut, Register, Home

\* Putting a register's own value into it changes nothing.
LEMMA PutSame ==
  ASSUME NEW m, IsMachine(m), NEW o, IsRegister(o), NEW r, r = o.r, NEW p, p = Put(m, o, Register(m, r))
  PROVE  Agree(p, m, {})
<1>1. IsPut(p, m, o, Register(m, r))
  BY PutFields
<1> QED
  BY <1>1 DEF IsPut, Agree, Target, Register, IsRegister

\* What a move moves.
LEMMA MoveWrites ==
  ASSUME NEW m, NEW i, i.op \in Moves, ~Truncates(i.op, i.d)
  PROVE  Written(m, i) = Get(m, i.s) /\ Effect(m, i) = Put(m, i.d, Get(m, i.s))
<1>1. ASSUME i.op = "load" PROVE Written(m, i) = Get(m, i.s)
  BY <1>1 DEF Written, MathOps, SetOps
<1>2. ASSUME i.op = "store" PROVE Written(m, i) = Get(m, i.s)
  BY <1>2 DEF Written, MathOps, SetOps, Truncates
<1>3. Effect(m, i) = Put(m, i.d, Written(m, i))
  BY EffectCases DEF Puts, Moves
<1> QED
  BY <1>1, <1>2, <1>3 DEF Moves

\* A register is moved to itself.
LEMMA MoveToItself ==
  ASSUME NEW m, IsMachine(m), NEW i, i.op \in Moves, IsRegister(i.d), IsRegister(i.s),
         i.d.r = i.s.r, ~Truncates(i.op, i.d)
  PROVE  Agree(Effect(m, i), m, {})
<1>1. Get(m, i.s) = Register(m, i.d.r)
  BY DEF Get, IsRegister
<1>2. Effect(m, i) = Put(m, i.d, Get(m, i.s))
  BY MoveWrites
<1> QED
  BY <1>1, <1>2, PutSame

\* The address in a register is taken into that register.
LEMMA AddressToItself ==
  ASSUME NEW m, IsMachine(m), NEW i, i.op = "reference", IsRegister(i.d), i.s.k = "pointer", i.s.r = i.d.r
  PROVE  Agree(Effect(m, i), m, {})
<1>1. Written(m, i) = Register(m, i.d.r)
  BY DEF Written, MathOps, SetOps
<1>2. Effect(m, i) = Put(m, i.d, Written(m, i))
  BY EffectCases DEF Puts
<1> QED
  BY <1>1, <1>2, PutSame

\* What is pushed and popped is put where it was popped to.
LEMMA PushPop ==
  ASSUME NEW m, IsMachine(m), NEW a, a.op = "push", NEW b, b.op = "pop",
         NEW w, w = Get(m, a.s)
  PROVE  Agree(Effect(Effect(m, a), b), Put(m, b.d, w), {})
<1>1. PICK p : p = Effect(m, a)
  OBVIOUS
<1>2. IsMachine(p) /\ IsWith(p, m, Append(m.stack, w), m.cmp)
  BY <1>1, PushFields
<1>3. PICK q : q = Popped(p)
  OBVIOUS
<1>4. IsMachine(q) /\ IsWith(q, p, SubSeq(p.stack, 1, Len(p.stack) - 1), p.cmp)
  BY <1>2, <1>3, PopFields
<1>5. q.stack = m.stack /\ p.stack[Len(p.stack)] = w
  <2>1. PICK V : m.stack \in Seq(V)
    BY DEF IsMachine
  <2>2. PICK W : m.stack \in Seq(W) /\ w \in W
    <3>1. m.stack \in Seq(V \union {w})
      BY <2>1
    <3> QED
      BY <3>1
  <2>3. Len(m.stack) \in Nat /\ Len(p.stack) = Len(m.stack) + 1 /\ p.stack[Len(m.stack) + 1] = w
    BY <1>2, <2>2, AppendProperties, LenProperties DEF IsWith
  <2>4. SubSeq(Append(m.stack, w), 1, Len(m.stack)) = m.stack
    BY <2>2
  <2>5. Len(p.stack) - 1 = Len(m.stack)
    BY <2>3
  <2> QED
    BY <1>2, <1>4, <2>3, <2>4, <2>5 DEF IsWith
<1>6. Agree(q, m, {})
  BY <1>2, <1>4, <1>5 DEF Agree, IsWith
<1>7. Effect(p, b) = Put(Popped(p), b.d, Written(p, b))
  BY EffectCases
<1>8. Written(p, b) = w
  BY <1>5 DEF Written, MathOps, SetOps
<1>9. Agree(Put(q, b.d, w), Put(m, b.d, w), {} \ Target(b.d))
  <2>1. InAddress(b.d) \intersect {} = {}
    OBVIOUS
  <2> QED
    BY <1>4, <1>6, <2>1, PutAgree
<1>10. Effect(p, b) = Put(q, b.d, w)
  BY <1>3, <1>7, <1>8
<1>11. {} \ Target(b.d) = {}
  OBVIOUS
<1> QED
  BY <1>1, <1>9, <1>10, <1>11

\* A register is pushed and popped to itself.
LEMMA PushPopSame ==
  ASSUME NEW m, IsMachine(m), NEW a, a.op = "push", NEW b, b.op = "pop",
         IsRegister(a.s), IsRegister(b.d), a.s.r = b.d.r
  PROVE  Agree(Effect(Effect(m, a), b), m, {})
<1>1. Get(m, a.s) = Register(m, b.d.r)
  BY DEF Get, IsRegister
<1>2. Agree(Effect(Effect(m, a), b), Put(m, b.d, Register(m, b.d.r)), {})
  BY <1>1, PushPop
<1>3. Agree(Put(m, b.d, Register(m, b.d.r)), m, {})
  BY PutSame
<1> QED
  BY <1>2, <1>3, AgreeFacts

\* What is pushed and popped is moved.
LEMMA PushPopMove ==
  ASSUME NEW m, IsMachine(m), NEW a, a.op = "push", NEW b, b.op = "pop",
         NEW c, c.op \in Moves, c.d = b.d, c.s = a.s, ~Truncates(c.op, c.d)
  PROVE  Agree(Effect(Effect(m, a), b), Effect(m, c), {})
<1>1. Effect(m, c) = Put(m, c.d, Get(m, c.s))
  BY MoveWrites
<1> QED
  BY <1>1, PushPop

\* A register that is loaded and read is not read.
LEMMA LoadRead ==
  ASSUME NEW m, IsMachine(m), NEW a, a.op = "load", IsRegister(a.d),
         NEW b, b.op \in Readers, IsRegister(b.s), a.d.r = b.s.r,
         b.op \in Puts => Home(a.d.r) \notin InAddress(b.d),
         b.op \in MathOps \union {"compare"} => Home(a.d.r) \notin InOperand(b.d),
         NEW c, c.op = b.op, c.d = b.d, c.s = a.s,
         NEW p, p = Effect(m, a)
  PROVE  /\ Stops(p, b) <=> Stops(m, c)
         /\ Jumps(p, b) <=> Jumps(m, c)
         /\ Agree(Effect(p, b), Effect(m, c), {Home(a.d.r)})
<1>1. PICK w, r : w = Get(m, a.s) /\ r = Home(a.d.r)
  OBVIOUS
<1>2. p = Put(m, a.d, w)
  <2>1. ~Truncates(a.op, a.d)
    BY DEF Truncates
  <2> QED
    BY <1>1, <2>1, MoveWrites DEF Moves
<1>3. IsMachine(p) /\ Agree(p, m, {r}) /\ m.stack = p.stack
  BY <1>1, <1>2, RegisterPut
<1>4. Get(p, b.s) = w /\ Get(m, c.s) = w
  <2>1. Get(p, b.s) = w
    BY <1>2, RegisterGet
  <2> QED
    BY <1>1, <2>1
<1>5. b.op \in MathOps \union {"compare"} => Get(p, b.d) = Get(m, c.d)
  <2> SUFFICES ASSUME b.op \in MathOps \union {"compare"} PROVE Get(p, b.d) = Get(m, b.d)
    OBVIOUS
  <2>1. InOperand(b.d) \intersect {r} = {}
    BY <1>1
  <2> QED
    BY <1>3, <2>1, GetAgree
<1>6. Stops(p, b) <=> Stops(m, c)
  BY <1>3, <1>4, <1>5 DEF Stops, Traps, MathOps
<1>7. Jumps(p, b) <=> Jumps(m, c)
  BY <1>4 DEF Jumps
<1>a. SUFFICES Agree(Effect(p, b), Effect(m, c), {r})
  BY <1>1, <1>6, <1>7
<1>8. CASE b.op \in Puts
  <2>1. b.op \in Moves \union MathOps
    BY <1>8 DEF Readers, Puts, Moves, Computes, MathOps, SetOps
  <2>2. PICK v : v = Written(p, b) /\ v = Written(m, c)
    <3>1. CASE b.op \in Moves
      BY <1>4, <3>1 DEF Written, Moves, MathOps, SetOps
    <3>2. CASE b.op \in MathOps
      <4>1. Get(p, b.d) = Get(m, c.d)
        BY <1>5, <3>2
      <4> QED
        BY <1>4, <3>2, <4>1 DEF Written, MathOps, SetOps
    <3> QED
      BY <2>1, <3>1, <3>2
  <2>3. b.op # "pop"
    BY <2>1 DEF Moves, MathOps
  <2>4. Effect(p, b) = Put(p, b.d, v) /\ Effect(m, c) = Put(m, b.d, v)
    <3>1. Effect(p, b) = Put(p, b.d, Written(p, b))
      BY <1>8, <2>3, EffectCases
    <3>2. Effect(m, c) = Put(m, c.d, Written(m, c))
      BY <1>8, <2>3, EffectCases
    <3> QED
      BY <2>2, <3>1, <3>2
  <2>5. InAddress(b.d) \intersect {r} = {}
    BY <1>1, <1>8
  <2>6. Agree(Put(p, b.d, v), Put(m, b.d, v), {r} \ Target(b.d))
    BY <1>3, <2>5, PutAgree
  <2>7. Agree(Put(p, b.d, v), Put(m, b.d, v), {r})
    BY <2>6 DEF Agree
  <2> QED
    BY <2>4, <2>7
<1>9. CASE b.op = "push"
  <2>1. PICK f, g : f = Effect(p, b) /\ g = Effect(m, c)
    OBVIOUS
  <2>2. IsWith(f, p, Append(p.stack, Get(p, b.s)), p.cmp)
    <3>1. IsMachine(p) /\ b.op = "push" /\ f = Effect(p, b)
      BY <1>3, <1>9, <2>1
    <3> QED
      BY <3>1, PushFields
  <2>3. IsWith(g, m, Append(m.stack, Get(m, c.s)), m.cmp)
    BY <1>9, <2>1, PushFields
  <2>4. Agree(f, g, {r})
    BY <1>3, <1>4, <2>2, <2>3 DEF Agree, IsWith
  <2> QED
    BY <2>1, <2>4
<1>10. CASE b.op = "compare"
  <2>1. PICK f, g : f = Effect(p, b) /\ g = Effect(m, c)
    OBVIOUS
  <2>2. IsWith(f, p, p.stack, <<Get(p, b.d), Get(p, b.s)>>)
    BY <1>3, <1>10, <2>1, CompareFields
  <2>3. IsWith(g, m, m.stack, <<Get(m, c.d), Get(m, c.s)>>)
    BY <1>10, <2>1, CompareFields
  <2>4. f.cmp = g.cmp
    BY <1>4, <1>5, <1>10, <2>2, <2>3 DEF IsWith
  <2>5. Agree(f, g, {r})
    BY <1>3, <2>2, <2>3, <2>4 DEF Agree, IsWith
  <2> QED
    BY <2>1, <2>5
<1>11. CASE b.op \in {"jmp_true", "jmp_false"}
  <2>1. b.op \notin Puts \union {"push", "compare", "call"}
    BY <1>11 DEF Puts, Moves, Computes, MathOps, SetOps
  <2>2. Effect(p, b) = p /\ Effect(m, c) = m
    BY <2>1, EffectCases
  <2> QED
    BY <1>3, <2>2
<1>12. b.op \in Puts \/ b.op = "push" \/ b.op = "compare" \/ b.op \in {"jmp_true", "jmp_false"}
  BY DEF Readers, Puts, Computes
<1> QED
  BY <1>8, <1>9, <1>10, <1>11, <1>12

\* Twice the same value, into a register and into an operand without it.
LEMMA PutTwice ==
  ASSUME NEW m, IsMachine(m), NEW r, IsRegister(r), NEW o, Home(r.r) \notin InAddress(o), NEW w
  PROVE  /\ IsMachine(Put(m, r, w))
         /\ Agree(Put(Put(m, r, w), o, w), Put(m, o, w), {Home(r.r)})
<1>1. PICK p : p = Put(m, r, w)
  OBVIOUS
<1>2. IsMachine(p) /\ Agree(p, m, {Home(r.r)})
  BY <1>1, RegisterPut
<1>3. InAddress(o) \intersect {Home(r.r)} = {}
  OBVIOUS
<1>4. Agree(Put(p, o, w), Put(m, o, w), {Home(r.r)} \ Target(o))
  BY <1>2, <1>3, PutAgree
<1>5. Agree(Put(p, o, w), Put(m, o, w), {Home(r.r)})
  BY <1>4 DEF Agree
<1> QED
  BY <1>1, <1>2, <1>5

\* A register that is popped and moved is not written.
LEMMA PopMove ==
  ASSUME NEW m, IsMachine(m), NEW a, a.op = "pop", IsRegister(a.d),
         NEW b, b.op \in Moves, IsRegister(b.s), a.d.r = b.s.r,
         ~Truncates(b.op, b.d), Home(a.d.r) \notin InAddress(b.d),
         NEW c, c.op = "pop", c.d = b.d
  PROVE  /\ Stops(m, c) <=> Stops(m, a)
         /\ Agree(Effect(Effect(m, a), b), Effect(m, c), {Home(a.d.r)})
<1>1. PICK q, w : q = Popped(m) /\ w = m.stack[Len(m.stack)]
  OBVIOUS
<1>2. IsMachine(q)
  BY <1>1, PopFields
<1>3. Written(m, a) = w /\ Written(m, c) = w
  BY <1>1 DEF Written, MathOps, SetOps
<1>4. Effect(m, a) = Put(q, a.d, w) /\ Effect(m, c) = Put(q, b.d, w)
  BY <1>1, <1>3, EffectCases
<1>5. PICK p : p = Effect(m, a)
  OBVIOUS
<1>6. Effect(p, b) = Put(p, b.d, w)
  <2>1. Effect(p, b) = Put(p, b.d, Get(p, b.s))
    BY MoveWrites
  <2>2. Get(p, b.s) = w
    <3>1. p = Put(q, a.d, w)
      BY <1>4, <1>5
    <3> QED
      BY <1>2, <3>1, RegisterGet
  <2> QED
    BY <2>1, <2>2
<1>7. Agree(Put(Put(q, a.d, w), b.d, w), Put(q, b.d, w), {Home(a.d.r)})
  BY <1>2, PutTwice
<1>8. Stops(m, c) <=> Stops(m, a)
  BY DEF Stops, Traps
<1> QED
  BY <1>4, <1>5, <1>6, <1>7, <1>8

\* A register that is given an address and stored in a register is not written.
LEMMA ReferenceMove ==
  ASSUME NEW m, IsMachine(m), NEW a, a.op = "reference", IsRegister(a.d),
         NEW b, b.op \in Moves, IsRegister(b.s), a.d.r = b.s.r, IsRegister(b.d), ~Truncates(b.op, b.d),
         NEW c, c.op = "reference", c.d = b.d, c.s = a.s
  PROVE  Agree(Effect(Effect(m, a), b), Effect(m, c), {Home(a.d.r)})
<1>1. PICK w : w = Written(m, a)
  OBVIOUS
<1>2. Written(m, c) = w
  BY <1>1 DEF Written, MathOps, SetOps
<1>3. Effect(m, a) = Put(m, a.d, w) /\ Effect(m, c) = Put(m, b.d, w)
  BY <1>1, <1>2, EffectCases DEF Puts
<1>4. PICK p : p = Effect(m, a)
  OBVIOUS
<1>5. Effect(p, b) = Put(p, b.d, w)
  <2>1. Effect(p, b) = Put(p, b.d, Get(p, b.s))
    BY MoveWrites
  <2>2. Get(p, b.s) = w
    <3>1. p = Put(m, a.d, w)
      BY <1>3, <1>4
    <3> QED
      BY <3>1, RegisterGet
  <2> QED
    BY <2>1, <2>2
<1>6. Home(a.d.r) \notin InAddress(b.d)
  BY DEF InAddress, IsRegister
<1>7. Agree(Put(Put(m, a.d, w), b.d, w), Put(m, b.d, w), {Home(a.d.r)})
  BY <1>6, PutTwice
<1> QED
  BY <1>3, <1>4, <1>5, <1>7

\* Machines that agree but for the stack.
ButStack(m, n) ==
    /\ m.vars = n.vars /\ m.mem = n.mem /\ m.cmp = n.cmp
    /\ m.answer = n.answer /\ m.junk = n.junk /\ m.ok = n.ok
    /\ m.t1 = n.t1 /\ m.t2 = n.t2

\* A move does not look at the stack.
LEMMA MoveButStack ==
  ASSUME NEW m, NEW n, IsMachine(m), IsMachine(n), ButStack(m, n),
         NEW i, i.op \in Moves \union {"reference"}
  PROVE  /\ ButStack(Effect(m, i), Effect(n, i))
         /\ Effect(m, i).stack = m.stack /\ Effect(n, i).stack = n.stack
<1>1. Register(m, i.s.r) = Register(n, i.s.r) /\ Register(m, i.d.r) = Register(n, i.d.r)
  BY DEF ButStack, Register
<1>2. Get(m, i.s) = Get(n, i.s)
  BY <1>1 DEF Get, ButStack
<1>3. PICK w : w = Written(m, i) /\ w = Written(n, i)
  BY <1>1, <1>2 DEF Written, Moves, MathOps, SetOps
<1>4. Effect(m, i) = Put(m, i.d, w) /\ Effect(n, i) = Put(n, i.d, w)
  <2>1. i.op \in Puts \ {"pop"}
    BY DEF Puts, Moves
  <2>2. Effect(m, i) = Put(m, i.d, Written(m, i)) /\ Effect(n, i) = Put(n, i.d, Written(n, i))
    BY <2>1, EffectCases
  <2> QED
    BY <1>3, <2>2
<1>6. PICK p, q : p = Effect(m, i) /\ q = Effect(n, i)
  OBVIOUS
<1>7. IsPut(p, m, i.d, w)
  BY <1>4, <1>6, PutFields
<1>8. IsPut(q, n, i.d, w)
  BY <1>4, <1>6, PutFields
<1> QED
  BY <1>1, <1>6, <1>7, <1>8 DEF IsPut, ButStack

\* A value that is pushed, kept over a move that does not use a register, and popped to
\* the register, is loaded to it before.
LEMMA PushOver ==
  ASSUME NEW m, IsMachine(m), NEW a, a.op = "push", NEW b, b.op \in Moves \union {"reference"},
         NEW e, e.op = "pop", IsRegister(e.d), Home(e.d.r) \notin Reads(b) \union Writes(b),
         NEW c, c.op = "load", c.d = e.d, c.s = a.s
  PROVE  Agree(Effect(Effect(Effect(m, a), b), e), Effect(Effect(m, c), b), {})
<1>1. PICK r, w : r = Home(e.d.r) /\ w = Get(m, a.s)
  OBVIOUS
<1>2. PICK p, q, h : p = Effect(m, a) /\ q = Effect(p, b) /\ h = Effect(m, b)
  OBVIOUS
<1>3. IsMachine(p) /\ IsWith(p, m, Append(m.stack, w), m.cmp)
  BY <1>1, <1>2, PushFields
<1>4. IsMachine(q) /\ IsMachine(h)
  BY <1>2, <1>3, EffectMachine
<1>5. ButStack(q, h) /\ q.stack = p.stack /\ h.stack = m.stack
  <2>1. ButStack(p, m)
    BY <1>3 DEF ButStack, IsWith
  <2> QED
    BY <1>2, <1>3, <2>1, MoveButStack
<1>6. PICK g : g = Popped(q)
  OBVIOUS
<1>7. IsMachine(g) /\ IsWith(g, q, SubSeq(q.stack, 1, Len(q.stack) - 1), q.cmp)
  BY <1>4, <1>6, PopFields
<1>8. g.stack = m.stack /\ q.stack[Len(q.stack)] = w
  <2>1. PICK V : m.stack \in Seq(V)
    BY DEF IsMachine
  <2>2. PICK W : m.stack \in Seq(W) /\ w \in W
    <3>1. m.stack \in Seq(V \union {w})
      BY <2>1
    <3> QED
      BY <3>1
  <2>3. q.stack = Append(m.stack, w)
    BY <1>3, <1>5 DEF IsWith
  <2>4. Len(m.stack) \in Nat /\ Len(q.stack) = Len(m.stack) + 1 /\ q.stack[Len(m.stack) + 1] = w
    BY <2>2, <2>3, AppendProperties, LenProperties
  <2>5. SubSeq(Append(m.stack, w), 1, Len(m.stack)) = m.stack
    BY <2>2
  <2>6. Len(q.stack) - 1 = Len(m.stack)
    BY <2>4
  <2> QED
    BY <1>7, <2>3, <2>4, <2>5, <2>6 DEF IsWith
<1>9. Agree(g, h, {})
  BY <1>5, <1>7, <1>8 DEF ButStack, Agree, IsWith
<1>10. Effect(q, e) = Put(g, e.d, w)
  <2>1. Effect(q, e) = Put(Popped(q), e.d, Written(q, e))
    BY EffectCases
  <2>2. Written(q, e) = w
    BY <1>8 DEF Written, MathOps, SetOps
  <2> QED
    BY <1>6, <2>1, <2>2
<1>11. PICK l : l = Effect(m, c)
  OBVIOUS
<1>12. l = Put(m, e.d, w)
  <2>1. ~Truncates(c.op, c.d) /\ c.op \in Moves
    BY DEF Truncates, Moves
  <2>2. Effect(m, c) = Put(m, c.d, Get(m, c.s))
    BY <2>1, MoveWrites
  <2> QED
    BY <1>1, <1>11, <2>2
<1>13. IsMachine(l) /\ Agree(l, m, {r}) /\ Target(e.d) = {r}
  BY <1>1, <1>12, RegisterPut
<1>14. PICK k : k = Effect(l, b)
  OBVIOUS
<1>15. Agree(k, h, {r})
  <2>1. Reads(b) \intersect {r} = {}
    BY <1>1
  <2>2. Agree(k, h, {r} \ Writes(b))
    BY <1>2, <1>13, <1>14, <2>1, EffectAgree
  <2> QED
    BY <2>2 DEF Agree
<1>16. IF r = "t1" THEN k.t1 = w ELSE k.t2 = w
  <2>1. PICK v : v = Written(l, b)
    OBVIOUS
  <2>2. k = Put(l, b.d, v)
    BY <1>14, <2>1, EffectCases DEF Puts, Moves
  <2>3. IsPut(k, l, b.d, v)
    BY <1>13, <2>2, PutFields
  <2>4. r \notin Target(b.d)
    BY <1>1 DEF Writes, Puts, Moves
  <2>5. r \in {"t1", "t2"}
    BY <1>1 DEF Home
  <2>6. IsPut(l, m, e.d, w)
    BY <1>12, PutFields
  <2> QED
    BY <1>13, <2>3, <2>4, <2>5, <2>6 DEF IsPut
<1>17. PICK f : f = Put(g, e.d, w)
  OBVIOUS
<1>18. IsPut(f, g, e.d, w)
  BY <1>7, <1>17, PutFields
<1>19. Agree(f, k, {})
  <2>1. e.d.k # "variable" /\ e.d.k # "pointer"
    BY DEF IsRegister
  <2>2. r \in {"t1", "t2"}
    BY <1>1 DEF Home
  <2>3. CASE r = "t1"
    BY <1>9, <1>13, <1>15, <1>16, <1>18, <2>1, <2>3 DEF IsPut, Agree
  <2>4. CASE r = "t2"
    BY <1>9, <1>13, <1>15, <1>16, <1>18, <2>1, <2>4 DEF IsPut, Agree
  <2> QED
    BY <2>2, <2>3, <2>4
<1> QED
  BY <1>2, <1>10, <1>11, <1>14, <1>17, <1>19
-----------------------------------------------------------------------------
(* The places of a rule.                                                   *)

\* What is found at an index, and what is between.
LEMMA SomeCode ==
  ASSUME Code \in Seq(Instructions), NEW i \in 1..Len(Code)
  PROVE  /\ Len(Code) \in Nat \ {0}
         /\ ThisAt(Code, i) \in 1..Len(Code) /\ NextAt(Code, i) \in 1..Len(Code) /\ Next2At(Code, i) \in 1..Len(Code)
         /\ \A p \in 1..Len(Code) :
               /\ ThisAt(Code, i) < p /\ p <= i => Code[p].op = "nop"
               /\ i + 1 <= p /\ p < NextAt(Code, i) => Code[p].op = "nop"
               /\ i + 2 <= p /\ p < Next2At(Code, i) => Code[p].op = "nop"
<1>1. Len(Code) \in Nat \ {0} /\ i + 1 \in Nat \ {0} /\ i + 2 \in Nat \ {0}
  <2>1. Len(Code) \in Nat
    BY LenProperties
  <2> QED
    BY <2>1
<1>2. ThisAt(Code, i) \in 1..Len(Code) /\ \A p \in 1..i : ThisAt(Code, i) < p => Code[p].op = "nop"
  BY <1>1, ThisAtFacts
<1>3. FirstFrom(Code, i + 1) \in 1..Len(Code) /\ \A p \in (i + 1)..Len(Code) : p < FirstFrom(Code, i + 1) => Code[p].op = "nop"
  BY <1>1, FirstFromFacts
<1>4. FirstFrom(Code, i + 2) \in 1..Len(Code) /\ \A p \in (i + 2)..Len(Code) : p < FirstFrom(Code, i + 2) => Code[p].op = "nop"
  BY <1>1, FirstFromFacts
<1>5. ASSUME NEW p \in 1..Len(Code)
      PROVE  /\ ThisAt(Code, i) < p /\ p <= i => Code[p].op = "nop"
             /\ i + 1 <= p /\ p < NextAt(Code, i) => Code[p].op = "nop"
             /\ i + 2 <= p /\ p < Next2At(Code, i) => Code[p].op = "nop"
  <2>1. p <= i => p \in 1..i
    BY <1>1
  <2>2. i + 1 <= p => p \in (i + 1)..Len(Code)
    BY <1>1
  <2>3. i + 2 <= p => p \in (i + 2)..Len(Code)
    BY <1>1
  <2> QED
    BY <1>2, <1>3, <1>4, <2>1, <2>2, <2>3 DEF NextAt, Next2At
<1> QED
  BY <1>1, <1>2, <1>3, <1>4, <1>5 DEF NextAt, Next2At

\* One instruction is omitted.
LEMMA OneAt ==
  ASSUME Code \in Seq(Instructions), NEW j \in 1..Len(Code), SameBut(Code, Rewritten, {j}),
         Code[j].op # "new_label", Rewritten[j].op # "new_label", Rewritten[j].d = Code[j].d
  PROVE  RewrittenAt(<<j>>)
<1>1. PICK ps : ps = <<j>>
  OBVIOUS
<1>2. Len(ps) = 1 /\ ps[1] = j /\ ps \in Seq(1..Len(Code))
  BY <1>1
<1>3. IsBlock(ps)
  BY <1>2 DEF IsBlock
<1>4. Rewritten \in Seq(Instructions) /\ Len(Rewritten) = Len(Code)
  BY DEF SameBut
<1>5. ASSUME NEW p \in 1..Len(Code), \A h \in 1..Len(ps) : p # ps[h]
      PROVE  Rewritten[p] = Code[p] /\ (Inside(ps, p) => Code[p].op = "nop")
  <2>1. p # j
    BY <1>2, <1>5
  <2>2. ~Inside(ps, p)
    <3>1. ps[1] = j /\ ps[Len(ps)] = j
      BY <1>2
    <3>2. p \in Int /\ j \in Int
      BY LenProperties
    <3> QED
      BY <3>1, <3>2 DEF Inside
  <2> QED
    BY <2>1, <2>2 DEF SameBut
<1>6. ASSUME NEW h \in 1..Len(ps)
      PROVE  /\ Code[ps[h]].op # "new_label" /\ Rewritten[ps[h]].op # "new_label"
             /\ h < Len(ps) => Code[ps[h]].op \notin JumpOps /\ Rewritten[ps[h]].op \notin JumpOps
  BY <1>2
<1>7. Rewritten[ps[Len(ps)]].d = Code[ps[Len(ps)]].d
  BY <1>2
<1>8. RewrittenAt(ps)
  BY <1>3, <1>4, <1>5, <1>6, <1>7 DEF RewrittenAt
<1> QED
  BY <1>1, <1>8

\* The first is omitted and the second changed.
LEMMA TwoAt ==
  ASSUME Code \in Seq(Instructions), NEW i \in 1..Len(Code),
         NEW j, j = ThisAt(Code, i), NEW k, k = NextAt(Code, i), j < k,
         SameBut(Code, Rewritten, {j, k}),
         Code[j].op \notin JumpOps \union {"new_label"}, Code[k].op # "new_label",
         Rewritten[j].op = "nop", Rewritten[k].op # "new_label", Rewritten[k].d = Code[k].d
  PROVE  RewrittenAt(<<j, k>>)
<1>1. PICK ps : ps = <<j, k>>
  OBVIOUS
<1>2. j \in 1..Len(Code) /\ k \in 1..Len(Code) /\ Len(Code) \in Nat
  BY SomeCode
<1>3. Len(ps) = 2 /\ ps[1] = j /\ ps[2] = k /\ ps \in Seq(1..Len(Code))
  BY <1>1, <1>2
<1>4. IsBlock(ps)
  BY <1>3 DEF IsBlock
<1>5. Rewritten \in Seq(Instructions) /\ Len(Rewritten) = Len(Code)
  BY DEF SameBut
<1>6. ASSUME NEW p \in 1..Len(Code), \A h \in 1..Len(ps) : p # ps[h]
      PROVE  Rewritten[p] = Code[p] /\ (Inside(ps, p) => Code[p].op = "nop")
  <2>1. p # j /\ p # k
    BY <1>3, <1>6
  <2>2. Rewritten[p] = Code[p]
    BY <2>1 DEF SameBut
  <2>3. Inside(ps, p) => Code[p].op = "nop"
    <3> SUFFICES ASSUME Inside(ps, p) PROVE Code[p].op = "nop"
      OBVIOUS
    <3>1. j < p /\ p <= k
      BY <1>3 DEF Inside
    <3>2. p < k /\ (p <= i \/ i + 1 <= p)
      BY <1>2, <2>1, <3>1
    <3> QED
      BY <3>1, <3>2, SomeCode
  <2> QED
    BY <2>2, <2>3
<1>7. ASSUME NEW h \in 1..Len(ps)
      PROVE  /\ Code[ps[h]].op # "new_label" /\ Rewritten[ps[h]].op # "new_label"
             /\ h < Len(ps) => Code[ps[h]].op \notin JumpOps /\ Rewritten[ps[h]].op \notin JumpOps
  <2>1. h = 1 \/ h = 2
    BY <1>3
  <2> QED
    BY <1>3, <2>1 DEF JumpOps
<1>8. Rewritten[ps[Len(ps)]].d = Code[ps[Len(ps)]].d
  BY <1>3
<1>9. RewrittenAt(ps)
  BY <1>4, <1>5, <1>6, <1>7, <1>8 DEF RewrittenAt
<1> QED
  BY <1>1, <1>9

\* The push that is made a load, the move between, and the pop that is omitted.
LEMMA ThreeAt ==
  ASSUME Code \in Seq(Instructions), NEW i \in 1..Len(Code),
         NEW j, j = ThisAt(Code, i), NEW k, k = NextAt(Code, i), NEW l, l = Next2At(Code, i), j < k, k < l,
         SameBut(Code, Rewritten, {j, l}),
         Code[j].op \notin JumpOps \union {"new_label"}, Code[l].op # "new_label",
         Code[k].op \notin JumpOps \union {"new_label", "nop"},
         Rewritten[j].op \notin JumpOps \union {"new_label"}, Rewritten[l].op # "new_label",
         Rewritten[l].d = Code[l].d
  PROVE  RewrittenAt(<<j, k, l>>)
<1>1. PICK ps : ps = <<j, k, l>>
  OBVIOUS
<1>2. j \in 1..Len(Code) /\ k \in 1..Len(Code) /\ l \in 1..Len(Code) /\ Len(Code) \in Nat
  BY SomeCode
<1>3. Len(ps) = 3 /\ ps[1] = j /\ ps[2] = k /\ ps[3] = l /\ ps \in Seq(1..Len(Code))
  BY <1>1, <1>2
<1>4. IsBlock(ps)
  <2>1. \A g, h \in 1..3 : g < h => (g = 1 /\ h = 2) \/ (g = 1 /\ h = 3) \/ (g = 2 /\ h = 3)
    OBVIOUS
  <2>2. j < l
    BY <1>2
  <2> QED
    BY <1>3, <2>1, <2>2 DEF IsBlock
<1>5. Rewritten \in Seq(Instructions) /\ Len(Rewritten) = Len(Code) /\ Rewritten[k] = Code[k]
  BY <1>2 DEF SameBut
<1>6. i + 1 <= k
  <2>1. k <= i => Code[k].op = "nop"
    BY <1>2, SomeCode
  <2> QED
    BY <1>2, <2>1
<1>7. ASSUME NEW p \in 1..Len(Code), \A h \in 1..Len(ps) : p # ps[h]
      PROVE  Rewritten[p] = Code[p] /\ (Inside(ps, p) => Code[p].op = "nop")
  <2>1. p # j /\ p # k /\ p # l
    BY <1>3, <1>7
  <2>2. Rewritten[p] = Code[p]
    BY <2>1 DEF SameBut
  <2>3. Inside(ps, p) => Code[p].op = "nop"
    <3> SUFFICES ASSUME Inside(ps, p) PROVE Code[p].op = "nop"
      OBVIOUS
    <3>1. j < p /\ p <= l
      BY <1>3 DEF Inside
    <3>2. p < l /\ (p <= i \/ (i + 1 <= p /\ p < k) \/ i + 2 <= p)
      BY <1>2, <1>6, <2>1, <3>1
    <3> QED
      BY <3>1, <3>2, SomeCode
  <2> QED
    BY <2>2, <2>3
<1>8. ASSUME NEW h \in 1..Len(ps)
      PROVE  /\ Code[ps[h]].op # "new_label" /\ Rewritten[ps[h]].op # "new_label"
             /\ h < Len(ps) => Code[ps[h]].op \notin JumpOps /\ Rewritten[ps[h]].op \notin JumpOps
  <2>1. h = 1 \/ h = 2 \/ h = 3
    BY <1>3
  <2> QED
    BY <1>3, <1>5, <2>1
<1>9. Rewritten[ps[Len(ps)]].d = Code[ps[Len(ps)]].d
  BY <1>3
<1>10. RewrittenAt(ps)
  BY <1>4, <1>5, <1>7, <1>8, <1>9 DEF RewrittenAt
<1> QED
  BY <1>1, <1>10
-----------------------------------------------------------------------------
(* What simulates, from any machine.                                       *)

\* What was omitted does nothing.
LEMMA NothingDone ==
  ASSUME NEW m, NEW i, i.op = "nop"
  PROVE  ~Stops(m, i) /\ ~Jumps(m, i) /\ Effect(m, i) = m
<1>1. i.op \notin Puts \union {"push", "compare", "call"}
  BY DEF Puts, Moves, Computes, MathOps, SetOps
<1>2. Effect(m, i) = m
  BY <1>1, EffectCases
<1>3. ~Stops(m, i) /\ ~Jumps(m, i)
  BY DEF Stops, Traps, Jumps
<1> QED
  BY <1>2, <1>3

\* Only a division and a pop stop, and only a jump jumps.
LEMMA GoesOnAlways ==
  ASSUME NEW m, NEW i, i.op \in Moves \union {"reference", "push"}
  PROVE  ~Stops(m, i) /\ ~Jumps(m, i)
BY DEF Stops, Traps, Jumps, Moves

\* An instruction that changes nothing may be omitted.
LEMMA OneSimulates ==
  ASSUME NEW j, Code[j].op \in Moves \union {"reference"}, Rewritten[j].op = "nop",
         \A s : IsMachine(s) => Agree(Effect(s, Code[j]), s, {})
  PROVE  Simulates(<<j>>, {})
<1>1. PICK ps : ps = <<j>>
  OBVIOUS
<1>2. Len(ps) = 1 /\ ps[1] = j
  BY <1>1
<1>3. SUFFICES ASSUME NEW s, IsMachine(s)
      PROVE  /\ \A h \in 1..Len(ps) : Goes(Code, ps, h, s) =>
                   ~Stops(Ran(Rewritten, ps, h - 1, s), Rewritten[ps[h]])
             /\ Goes(Code, ps, Len(ps), s) =>
                   /\ Agree(Ran(Code, ps, Len(ps), s), Ran(Rewritten, ps, Len(ps), s), {})
                   /\ Jumps(Ran(Code, ps, Len(ps) - 1, s), Code[ps[Len(ps)]]) <=>
                         Jumps(Ran(Rewritten, ps, Len(ps) - 1, s), Rewritten[ps[Len(ps)]])
  BY <1>1 DEF Simulates
<1>4. /\ Ran(Code, ps, 0, s) = s /\ Ran(Rewritten, ps, 0, s) = s
      /\ Ran(Code, ps, 1, s) = Effect(s, Code[j]) /\ Ran(Rewritten, ps, 1, s) = s
  BY <1>2, NothingDone DEF Ran
<1>5. ~Stops(s, Rewritten[j]) /\ ~Jumps(s, Rewritten[j]) /\ ~Jumps(s, Code[j])
  BY NothingDone, GoesOnAlways
<1>6. Agree(Effect(s, Code[j]), s, {})
  BY <1>3
<1>7. \A h \in 1..Len(ps) : ~Stops(Ran(Rewritten, ps, h - 1, s), Rewritten[ps[h]])
  <2> SUFFICES ASSUME NEW h \in 1..Len(ps) PROVE ~Stops(Ran(Rewritten, ps, h - 1, s), Rewritten[ps[h]])
    OBVIOUS
  <2>1. h = 1 /\ h - 1 = 0
    BY <1>2
  <2> QED
    BY <1>2, <1>4, <1>5, <2>1
<1>8. Len(ps) - 1 = 0
  BY <1>2
<1> QED
  BY <1>2, <1>4, <1>5, <1>6, <1>7, <1>8

\* Two instructions a and b from the machine s, and c in their place.
Replaces(s, a, b, c, free) ==
    /\ ~Stops(s, a) /\ ~Stops(Effect(s, a), b) => ~Stops(s, c)
    /\ Jumps(Effect(s, a), b) <=> Jumps(s, c)
    /\ Agree(Effect(Effect(s, a), b), Effect(s, c), free)

\* Two instructions of which the first is omitted.
LEMMA TwoSimulate ==
  ASSUME NEW j, NEW k, NEW free, Rewritten[j].op = "nop",
         \A s : IsMachine(s) => Replaces(s, Code[j], Code[k], Rewritten[k], free)
  PROVE  Simulates(<<j, k>>, free)
<1>1. PICK ps : ps = <<j, k>>
  OBVIOUS
<1>2. Len(ps) = 2 /\ ps[1] = j /\ ps[2] = k
  BY <1>1
<1>3. SUFFICES ASSUME NEW s, IsMachine(s)
      PROVE  /\ \A h \in 1..Len(ps) : Goes(Code, ps, h, s) =>
                   ~Stops(Ran(Rewritten, ps, h - 1, s), Rewritten[ps[h]])
             /\ Goes(Code, ps, Len(ps), s) =>
                   /\ Agree(Ran(Code, ps, Len(ps), s), Ran(Rewritten, ps, Len(ps), s), free)
                   /\ Jumps(Ran(Code, ps, Len(ps) - 1, s), Code[ps[Len(ps)]]) <=>
                         Jumps(Ran(Rewritten, ps, Len(ps) - 1, s), Rewritten[ps[Len(ps)]])
  BY <1>1 DEF Simulates
<1>4. /\ Ran(Code, ps, 0, s) = s /\ Ran(Rewritten, ps, 0, s) = s
      /\ Ran(Code, ps, 1, s) = Effect(s, Code[j]) /\ Ran(Rewritten, ps, 1, s) = s
      /\ Ran(Code, ps, 2, s) = Effect(Effect(s, Code[j]), Code[k])
      /\ Ran(Rewritten, ps, 2, s) = Effect(s, Rewritten[k])
  BY <1>2, NothingDone DEF Ran
<1>5. Replaces(s, Code[j], Code[k], Rewritten[k], free)
  BY <1>3
<1>6. ~Stops(s, Rewritten[j])
  BY NothingDone
<1>7. \A h \in 1..Len(ps) : Goes(Code, ps, h, s) => ~Stops(Ran(Rewritten, ps, h - 1, s), Rewritten[ps[h]])
  <2> SUFFICES ASSUME NEW h \in 1..Len(ps), Goes(Code, ps, h, s)
               PROVE  ~Stops(Ran(Rewritten, ps, h - 1, s), Rewritten[ps[h]])
    OBVIOUS
  <2>1. CASE h = 1
    <3>1. h - 1 = 0
      BY <2>1
    <3> QED
      BY <1>2, <1>4, <1>6, <2>1, <3>1
  <2>2. CASE h = 2
    <3>1. h - 1 = 1 /\ 1 - 1 = 0 /\ 2 - 1 = 1
      BY <2>2
    <3>2. ~Stops(Ran(Code, ps, 1 - 1, s), Code[ps[1]]) /\ ~Stops(Ran(Code, ps, 2 - 1, s), Code[ps[2]])
      BY <2>2 DEF Goes
    <3>3. ~Stops(s, Code[j]) /\ ~Stops(Effect(s, Code[j]), Code[k])
      BY <1>2, <1>4, <3>1, <3>2
    <3> QED
      BY <1>2, <1>4, <1>5, <2>2, <3>1, <3>3 DEF Replaces
  <2> QED
    BY <1>2, <2>1, <2>2
<1>8. Len(ps) - 1 = 1
  BY <1>2
<1>9. /\ Agree(Ran(Code, ps, 2, s), Ran(Rewritten, ps, 2, s), free)
      /\ Jumps(Ran(Code, ps, 1, s), Code[k]) <=> Jumps(Ran(Rewritten, ps, 1, s), Rewritten[k])
  BY <1>4, <1>5 DEF Replaces
<1> QED
  BY <1>2, <1>7, <1>8, <1>9

\* Three, of which the last is omitted.
LEMMA ThreeSimulate ==
  ASSUME NEW j, NEW k, NEW l, Rewritten[j].op = "load", Rewritten[k] = Code[k], Rewritten[l].op = "nop",
         Code[k].op \in Moves \union {"reference"}, Code[l].op = "pop",
         \A s : IsMachine(s) =>
            Agree(Effect(Effect(Effect(s, Code[j]), Code[k]), Code[l]), Effect(Effect(s, Rewritten[j]), Code[k]), {})
  PROVE  Simulates(<<j, k, l>>, {})
<1>1. PICK ps : ps = <<j, k, l>>
  OBVIOUS
<1>2. Len(ps) = 3 /\ ps[1] = j /\ ps[2] = k /\ ps[3] = l
  BY <1>1
<1>3. SUFFICES ASSUME NEW s, IsMachine(s)
      PROVE  /\ \A h \in 1..Len(ps) : Goes(Code, ps, h, s) =>
                   ~Stops(Ran(Rewritten, ps, h - 1, s), Rewritten[ps[h]])
             /\ Goes(Code, ps, Len(ps), s) =>
                   /\ Agree(Ran(Code, ps, Len(ps), s), Ran(Rewritten, ps, Len(ps), s), {})
                   /\ Jumps(Ran(Code, ps, Len(ps) - 1, s), Code[ps[Len(ps)]]) <=>
                         Jumps(Ran(Rewritten, ps, Len(ps) - 1, s), Rewritten[ps[Len(ps)]])
  BY <1>1 DEF Simulates
<1>4. /\ Ran(Code, ps, 3, s) = Effect(Effect(Effect(s, Code[j]), Code[k]), Code[l])
      /\ Ran(Rewritten, ps, 3, s) = Effect(Effect(s, Rewritten[j]), Code[k])
  BY <1>2, NothingDone DEF Ran
<1>5. Agree(Ran(Code, ps, 3, s), Ran(Rewritten, ps, 3, s), {})
  BY <1>3, <1>4
<1>6. \A m : ~Stops(m, Rewritten[j]) /\ ~Stops(m, Rewritten[k]) /\ ~Stops(m, Rewritten[l]) /\ ~Jumps(m, Rewritten[l])
  BY NothingDone, GoesOnAlways DEF Moves
<1>7. \A m : ~Jumps(m, Code[l])
  BY DEF Jumps
<1>8. \A h \in 1..Len(ps) : ~Stops(Ran(Rewritten, ps, h - 1, s), Rewritten[ps[h]])
  <2> SUFFICES ASSUME NEW h \in 1..Len(ps) PROVE ~Stops(Ran(Rewritten, ps, h - 1, s), Rewritten[ps[h]])
    OBVIOUS
  <2>1. h = 1 \/ h = 2 \/ h = 3
    BY <1>2
  <2> QED
    BY <1>2, <1>6, <2>1
<1> QED
  BY <1>2, <1>5, <1>6, <1>7, <1>8
-----------------------------------------------------------------------------
(* optimize_stack_operations, a rule at a time.                            *)

\* A rule that omits the first of two instructions and changes the second.
LEMMA RuleOfTwo ==
  ASSUME Code \in Seq(Instructions), NEW i \in 1..Len(Code),
         NEW j, j = ThisAt(Code, i), NEW k, k = NextAt(Code, i), j < k, NEW free,
         Code[j].op \in Moves \union {"push", "pop", "reference"}, Code[k].op # "new_label",
         NEW op \in Opcodes \ {"new_label"}, Rewritten = Forward(Code, j, k, op),
         NEW c, c = Ins(op, Code[k].d, Code[j].s),
         \A s : IsMachine(s) => Replaces(s, Code[j], Code[k], c, free)
  PROVE  RewrittenAt(<<j, k>>) /\ Simulates(<<j, k>>, free)
<1>1. j \in 1..Len(Code) /\ k \in 1..Len(Code) /\ j # k
  <2>1. j \in 1..Len(Code) /\ k \in 1..Len(Code) /\ Len(Code) \in Nat
    BY SomeCode
  <2> QED
    BY <2>1
<1>2. /\ SameBut(Code, Rewritten, {j, k}) /\ Rewritten[j].op = "nop"
      /\ Rewritten[k] = c
  BY <1>1, ForwardIs
<1>3. c.op = op /\ c.d = Code[k].d
  BY DEF Ins
<1>4. Code[j].op \notin JumpOps \union {"new_label"}
  BY DEF Moves, JumpOps
<1>5. RewrittenAt(<<j, k>>)
  <2>1. op # "new_label"
    OBVIOUS
  <2>2. Rewritten[k].op # "new_label" /\ Rewritten[k].d = Code[k].d
    BY <1>2, <1>3, <2>1
  <2> QED
    BY <1>2, <1>4, <2>2, TwoAt
<1>6. Simulates(<<j, k>>, free)
  BY <1>2, TwoSimulate
<1> QED
  BY <1>5, <1>6

\* push %0; pop %0
LEMMA PushPopOmitted ==
  ASSUME Code \in Seq(Instructions), NEW i \in 1..Len(Code),
         NEW j, j = ThisAt(Code, i), NEW k, k = NextAt(Code, i), j < k,
         Code[j].op = "push", Code[k].op = "pop", IsRegister(Code[j].s), IsRegister(Code[k].d),
         Code[j].s.r = Code[k].d.r, Rewritten = omit(omit(Code, j), k)
  PROVE  RewrittenAt(<<j, k>>) /\ Simulates(<<j, k>>, {})
<1>1. j \in 1..Len(Code) /\ k \in 1..Len(Code) /\ j # k
  <2>1. j \in 1..Len(Code) /\ k \in 1..Len(Code) /\ Len(Code) \in Nat
    BY SomeCode
  <2> QED
    BY <2>1
<1>2. PICK e : e = omit(Code, j)
  OBVIOUS
<1>3. SameBut(Code, e, {j}) /\ e[j].op = "nop"
  BY <1>1, <1>2, OmitIs
<1>4. e \in Seq(Instructions) /\ k \in 1..Len(e) /\ e[k] = Code[k] /\ j \in 1..Len(e)
  BY <1>1, <1>3 DEF SameBut
<1>5. SameBut(e, Rewritten, {k}) /\ Rewritten[k].op = "nop" /\ Rewritten[k].d = e[k].d
  <2>1. Rewritten = omit(e, k)
    BY <1>2
  <2> QED
    BY <1>4, <2>1, OmitIs
<1>6. Rewritten[j].op = "nop" /\ Rewritten[k].d = Code[k].d
  BY <1>1, <1>3, <1>4, <1>5 DEF SameBut
<1>7. SameBut(Code, Rewritten, {j, k})
  BY <1>3, <1>5 DEF SameBut
<1>8. RewrittenAt(<<j, k>>)
  <2>1. Code[j].op \notin JumpOps \union {"new_label"} /\ Code[k].op # "new_label"
    BY DEF JumpOps
  <2> QED
    BY <1>5, <1>6, <1>7, <2>1, TwoAt
<1>9. ASSUME NEW s, IsMachine(s) PROVE Replaces(s, Code[j], Code[k], Rewritten[k], {})
  <2>1. PICK a, b, c : a = Code[j] /\ b = Code[k] /\ c = Rewritten[k]
    OBVIOUS
  <2>2. ~Stops(s, c) /\ ~Jumps(s, c) /\ Effect(s, c) = s
    BY <1>5, <2>1, NothingDone
  <2>3. Agree(Effect(Effect(s, a), b), s, {})
    BY <1>9, <2>1, PushPopSame
  <2>4. ~Jumps(Effect(s, a), b)
    BY <2>1 DEF Jumps
  <2> QED
    BY <2>1, <2>2, <2>3, <2>4 DEF Replaces
<1>10. Simulates(<<j, k>>, {})
  BY <1>6, <1>9, TwoSimulate
<1> QED
  BY <1>8, <1>10

\* push x; pop y
LEMMA PushPopForwarded ==
  ASSUME Code \in Seq(Instructions), NEW i \in 1..Len(Code),
         NEW j, j = ThisAt(Code, i), NEW k, k = NextAt(Code, i), j < k,
         Code[j].op = "push", Code[k].op = "pop", NEW op \in Moves, ~Truncates(op, Code[k].d),
         Rewritten = Forward(Code, j, k, op)
  PROVE  RewrittenAt(<<j, k>>) /\ Simulates(<<j, k>>, {})
<1>1. PICK a, b, c : a = Code[j] /\ b = Code[k] /\ c = Ins(op, Code[k].d, Code[j].s)
  OBVIOUS
<1>2. c.op = op /\ c.d = b.d /\ c.s = a.s
  BY <1>1 DEF Ins
<1>3. ASSUME NEW s, IsMachine(s) PROVE Replaces(s, a, b, c, {})
  <2>1. ~Stops(s, c) /\ ~Jumps(s, c)
    BY <1>2, GoesOnAlways
  <2>2. Agree(Effect(Effect(s, a), b), Effect(s, c), {})
    BY <1>1, <1>2, <1>3, PushPopMove
  <2>3. ~Jumps(Effect(s, a), b)
    BY <1>1 DEF Jumps
  <2> QED
    BY <2>1, <2>2, <2>3 DEF Replaces
<1>4. op \in Opcodes \ {"new_label"}
  BY DEF Opcodes, Puts, Moves
<1> QED
  BY <1>1, <1>3, <1>4, RuleOfTwo

\* load %0, x and a reader of %0.
LEMMA LoadForwarded ==
  ASSUME Code \in Seq(Instructions), NEW i \in 1..Len(Code),
         NEW j, j = ThisAt(Code, i), NEW k, k = NextAt(Code, i), j < k,
         Code[j].op = "load", IsRegister(Code[j].d), Code[k].op \in Readers, IsRegister(Code[k].s),
         Code[j].d.r = Code[k].s.r,
         Code[k].op \in Puts => Home(Code[j].d.r) \notin InAddress(Code[k].d),
         Code[k].op \in MathOps \union {"compare"} => Home(Code[j].d.r) \notin InOperand(Code[k].d),
         Rewritten = Forward(Code, j, k, Code[k].op)
  PROVE  RewrittenAt(<<j, k>>) /\ Simulates(<<j, k>>, {Home(Code[j].d.r)})
<1>1. PICK a, b, op, c : a = Code[j] /\ b = Code[k] /\ op = Code[k].op /\ c = Ins(op, Code[k].d, Code[j].s)
  OBVIOUS
<1>2. c.op = b.op /\ c.d = b.d /\ c.s = a.s
  BY <1>1 DEF Ins
<1>3. ASSUME NEW s, IsMachine(s) PROVE Replaces(s, a, b, c, {Home(a.d.r)})
  <2>1. PICK p : p = Effect(s, a)
    OBVIOUS
  <2>a. a.op = "load" /\ IsRegister(a.d) /\ b.op \in Readers /\ IsRegister(b.s) /\ a.d.r = b.s.r
    BY <1>1
  <2>b. b.op \in Puts => Home(a.d.r) \notin InAddress(b.d)
    BY <1>1
  <2>c. b.op \in MathOps \union {"compare"} => Home(a.d.r) \notin InOperand(b.d)
    BY <1>1
  <2>2. Stops(p, b) <=> Stops(s, c)
    BY <1>2, <1>3, <2>1, <2>a, <2>b, <2>c, LoadRead
  <2>3. Jumps(p, b) <=> Jumps(s, c)
    BY <1>2, <1>3, <2>1, <2>a, <2>b, <2>c, LoadRead
  <2>4. Agree(Effect(p, b), Effect(s, c), {Home(a.d.r)})
    BY <1>2, <1>3, <2>1, <2>a, <2>b, <2>c, LoadRead
  <2> QED
    BY <2>1, <2>2, <2>3, <2>4 DEF Replaces
<1>4. op \in Opcodes \ {"new_label"}
  <2>1. op \in Readers
    BY <1>1
  <2>2. Readers \subseteq Opcodes /\ "new_label" \notin Readers
    BY DEF Readers, Opcodes, Puts, Computes, JumpOps, Moves, MathOps
  <2> QED
    BY <2>1, <2>2
<1>5. Code[j].op \in Moves \union {"push", "pop", "reference"} /\ Code[k].op # "new_label"
  BY <1>1, <1>4 DEF Moves
<1>6. PICK free : free = {Home(Code[j].d.r)}
  OBVIOUS
<1>7. \A s : IsMachine(s) => Replaces(s, Code[j], Code[k], c, free)
  BY <1>1, <1>3, <1>6
<1>8. Rewritten = Forward(Code, j, k, op) /\ c = Ins(op, Code[k].d, Code[j].s)
  BY <1>1
<1>9. RewrittenAt(<<j, k>>) /\ Simulates(<<j, k>>, free)
  BY <1>4, <1>5, <1>7, <1>8, RuleOfTwo
<1> QED
  BY <1>6, <1>9
\* push x; a move; pop %0
LEMMA PushLoaded ==
  ASSUME Code \in Seq(Instructions), NEW i \in 1..Len(Code),
         NEW j, j = ThisAt(Code, i), NEW k, k = NextAt(Code, i), NEW l, l = Next2At(Code, i), j < k, k < l,
         Code[j].op = "push", Code[k].op \in Moves \union {"reference"}, Code[l].op = "pop",
         IsRegister(Code[l].d), ~Uses(Code[k], Code[l].d.r),
         Rewritten = [omit(Code, l) EXCEPT ![j].op = "load", ![j].d = Code[l].d]
  PROVE  RewrittenAt(<<j, k, l>>) /\ Simulates(<<j, k, l>>, {})
<1>1. j \in 1..Len(Code) /\ k \in 1..Len(Code) /\ l \in 1..Len(Code) /\ j # l /\ j # k /\ k # l
  <2>1. j \in 1..Len(Code) /\ k \in 1..Len(Code) /\ l \in 1..Len(Code) /\ Len(Code) \in Nat
    BY SomeCode
  <2> QED
    BY <2>1
<1>2. PICK e : e = omit(Code, l)
  OBVIOUS
<1>3. SameBut(Code, e, {l}) /\ e[l].op = "nop" /\ e[l].d = Code[l].d
  BY <1>1, <1>2, OmitIs
<1>4. e \in Seq(Instructions) /\ j \in 1..Len(e) /\ l \in 1..Len(e) /\ e[j] = Code[j]
  BY <1>1, <1>3 DEF SameBut
<1>5. PICK x : x = Ins("load", Code[l].d, Code[j].s)
  OBVIOUS
<1>6. Code[j] \in Instructions /\ Code[l] \in Instructions
  BY <1>1, ElementOfSeq
<1>7. x \in Instructions
  <2>1. PICK o \in Opcodes : o = "load"
    BY DEF Opcodes, Puts, Moves
  <2>2. Code[l].d \in Operands /\ Code[j].s \in Operands
    BY <1>6 DEF Instructions
  <2>3. [op |-> o, d |-> Code[l].d, s |-> Code[j].s] \in Instructions
    BY <2>2 DEF Instructions
  <2> QED
    BY <1>5, <2>1, <2>3 DEF Ins
<1>8. PICK op \in Opcodes, d, s \in Operands : e[j] = [op |-> op, d |-> d, s |-> s]
  BY <1>4, <1>6, InstructionIs
<1>9. Rewritten = [e EXCEPT ![j] = x]
  <2>1. [[e EXCEPT ![j].op = "load"] EXCEPT ![j].d = Code[l].d] = [e EXCEPT ![j] = x]
    <3>1. PICK g : g = [e EXCEPT ![j].op = "load"]
      OBVIOUS
    <3>y. PICK y : y = [op |-> "load", d |-> d, s |-> s]
      OBVIOUS
    <3>z. [e[j] EXCEPT !.op = "load"] = y
      BY <1>8, <3>y
    <3>2. g = [e EXCEPT ![j] = y]
      BY <3>1, <3>z
    <3>3. g[j] = y
      BY <1>4, <3>2
    <3>5. x = [op |-> "load", d |-> Code[l].d, s |-> s]
      BY <1>4, <1>5, <1>8 DEF Ins
    <3>w. [g[j] EXCEPT !.d = Code[l].d] = x
      BY <3>3, <3>5, <3>y
    <3>4. [g EXCEPT ![j].d = Code[l].d] = [g EXCEPT ![j] = x]
      BY <3>w
    <3>6. [g EXCEPT ![j] = x] = [e EXCEPT ![j] = x]
      BY <1>4, <3>2
    <3> QED
      BY <3>1, <3>4, <3>5, <3>6
  <2> QED
    BY <1>2, <2>1
<1>10. SameBut(e, Rewritten, {j}) /\ Rewritten[j] = x
  <2>1. PICK f : f = [e EXCEPT ![j] = x]
    OBVIOUS
  <2>2. SameBut(e, f, {j}) /\ f[j] = x
    BY <1>4, <1>7, <2>1, ChangeIs
  <2> QED
    BY <1>9, <2>1, <2>2
<1>11. SameBut(Code, Rewritten, {j, l}) /\ Rewritten[l] = e[l] /\ Rewritten[k] = Code[k]
  BY <1>1, <1>3, <1>4, <1>10 DEF SameBut
<1>12. x.op = "load" /\ x.d = Code[l].d /\ x.s = Code[j].s
  BY <1>5 DEF Ins
<1>13. RewrittenAt(<<j, k, l>>)
  <2>1. Code[j].op \notin JumpOps \union {"new_label"} /\ Code[l].op # "new_label"
    BY DEF JumpOps
  <2>2. Code[k].op \notin JumpOps \union {"new_label", "nop"}
    BY DEF JumpOps, Moves
  <2>3. Rewritten[j].op \notin JumpOps \union {"new_label"} /\ Rewritten[l].op # "new_label"
    BY <1>3, <1>10, <1>11, <1>12 DEF JumpOps
  <2>4. Rewritten[l].d = Code[l].d
    BY <1>3, <1>11
  <2> QED
    BY <1>11, <2>1, <2>2, <2>3, <2>4, ThreeAt
<1>14. ASSUME NEW m, IsMachine(m)
       PROVE  Agree(Effect(Effect(Effect(m, Code[j]), Code[k]), Code[l]), Effect(Effect(m, x), Code[k]), {})
  <2>1. Home(Code[l].d.r) \notin Reads(Code[k]) \union Writes(Code[k])
    BY DEF Uses
  <2> QED
    BY <1>12, <1>14, <2>1, PushOver
<1>15. Simulates(<<j, k, l>>, {})
  BY <1>3, <1>10, <1>11, <1>12, <1>14, ThreeSimulate
<1> QED
  BY <1>13, <1>15

\* pop %0; a move of %0
LEMMA PopForwarded ==
  ASSUME Code \in Seq(Instructions), NEW i \in 1..Len(Code),
         NEW j, j = ThisAt(Code, i), NEW k, k = NextAt(Code, i), j < k,
         Code[j].op = "pop", IsRegister(Code[j].d), Code[k].op \in Moves, IsRegister(Code[k].s),
         Code[j].d.r = Code[k].s.r, ~Truncates(Code[k].op, Code[k].d),
         Home(Code[j].d.r) \notin InAddress(Code[k].d),
         Rewritten = omit([Code EXCEPT ![k].op = "pop"], j)
  PROVE  RewrittenAt(<<j, k>>) /\ Simulates(<<j, k>>, {Home(Code[j].d.r)})
<1>1. j \in 1..Len(Code) /\ k \in 1..Len(Code) /\ j # k
  <2>1. j \in 1..Len(Code) /\ k \in 1..Len(Code) /\ Len(Code) \in Nat
    BY SomeCode
  <2> QED
    BY <2>1
<1>2. Code[k] \in Instructions
  BY <1>1, ElementOfSeq
<1>3. PICK op \in Opcodes, d, s \in Operands : Code[k] = [op |-> op, d |-> d, s |-> s]
  BY <1>2, InstructionIs
<1>4. PICK x : x = Ins("pop", d, s)
  OBVIOUS
<1>5. x \in Instructions
  <2>1. PICK o \in Opcodes : o = "pop"
    BY DEF Opcodes, Puts
  <2>2. [op |-> o, d |-> d, s |-> s] \in Instructions
    BY DEF Instructions
  <2> QED
    BY <1>4, <2>1, <2>2 DEF Ins
<1>6. PICK e : e = [Code EXCEPT ![k] = x]
  OBVIOUS
<1>7. e = [Code EXCEPT ![k].op = "pop"]
  <2>1. [Code[k] EXCEPT !.op = "pop"] = x
    BY <1>3, <1>4 DEF Ins
  <2> QED
    BY <1>6, <2>1
<1>8. SameBut(Code, e, {k}) /\ e[k] = x
  <2>1. PICK c : c = Code
    OBVIOUS
  <2>2. c \in Seq(Instructions) /\ k \in 1..Len(c) /\ x \in Instructions
    BY <1>1, <1>5, <2>1
  <2>3. SameBut(c, [c EXCEPT ![k] = x], {k}) /\ [c EXCEPT ![k] = x][k] = x
    BY ONLY <2>2, ChangeIs
  <2> QED
    BY <1>6, <2>1, <2>3
<1>9. e \in Seq(Instructions) /\ j \in 1..Len(e) /\ k \in 1..Len(e)
  BY <1>1, <1>8 DEF SameBut
<1>10. SameBut(e, Rewritten, {j}) /\ Rewritten[j].op = "nop"
  <2>1. Rewritten = omit(e, j)
    BY <1>7
  <2> QED
    BY <1>9, <2>1, OmitIs
<1>11. SameBut(Code, Rewritten, {j, k}) /\ Rewritten[k] = x
  BY <1>1, <1>8, <1>9, <1>10 DEF SameBut
<1>12. x.op = "pop" /\ x.d = Code[k].d
  BY <1>3, <1>4 DEF Ins
<1>13. RewrittenAt(<<j, k>>)
  <2>1. Code[j].op \notin JumpOps \union {"new_label"} /\ Code[k].op # "new_label"
    BY DEF JumpOps, Moves
  <2>2. Rewritten[k].op # "new_label" /\ Rewritten[k].d = Code[k].d
    BY <1>11, <1>12
  <2> QED
    BY <1>10, <1>11, <2>1, <2>2, TwoAt
<1>14. ASSUME NEW m, IsMachine(m) PROVE Replaces(m, Code[j], Code[k], x, {Home(Code[j].d.r)})
  <2>1. PICK a, b : a = Code[j] /\ b = Code[k]
    OBVIOUS
  <2>2. /\ a.op = "pop" /\ IsRegister(a.d) /\ b.op \in Moves /\ IsRegister(b.s) /\ a.d.r = b.s.r
        /\ ~Truncates(b.op, b.d) /\ Home(a.d.r) \notin InAddress(b.d) /\ x.op = "pop" /\ x.d = b.d
    BY <1>12, <2>1
  <2>3. Stops(m, x) <=> Stops(m, a)
    BY <1>14, <2>2, PopMove
  <2>4. Agree(Effect(Effect(m, a), b), Effect(m, x), {Home(a.d.r)})
    BY <1>14, <2>2, PopMove
  <2>5. ~Jumps(Effect(m, a), b) /\ ~Jumps(m, x)
    BY <2>2 DEF Jumps, Moves
  <2> QED
    BY <2>1, <2>3, <2>4, <2>5 DEF Replaces
<1>15. PICK free : free = {Home(Code[j].d.r)}
  OBVIOUS
<1>16. \A m : IsMachine(m) => Replaces(m, Code[j], Code[k], Rewritten[k], free)
  BY <1>11, <1>14, <1>15
<1>17. Simulates(<<j, k>>, free)
  BY <1>10, <1>16, TwoSimulate
<1> QED
  BY <1>13, <1>15, <1>17

\* Each rule on the stack simulates what it has rewritten.
LEMMA StackOperationsSimulate ==
  ASSUME Code \in Seq(Instructions), NEW i \in 1..Len(Code),
         Rewritten = optimize_stack_operations(Code, i), Rewritten # Code,
         StackSafe(Code, i)
  PROVE  RewrittenAt(StackBlock(Code, i)) /\ Simulates(StackBlock(Code, i), StackLoose(Code, i))
<1>1. PICK j, k, l : j = ThisAt(Code, i) /\ k = NextAt(Code, i) /\ l = Next2At(Code, i)
  OBVIOUS
<1>2. PICK this, next, next2 : this = Code[j] /\ next = Code[k] /\ next2 = Code[l]
  OBVIOUS
<1>3. /\ j < k
      /\ this.op = "push" /\ next.op = "pop" => PushPopSafe(this, next)
      /\ this.op = "push" /\ next.op # "pop" => k < l /\ IsRegister(next2.d) /\ ~Uses(next, next2.d.r)
      /\ this.op = "pop" => ~Truncates(next.op, next.d) /\ Home(this.d.r) \notin InAddress(next.d)
  BY <1>1, <1>2 DEF StackSafe
<1>4. StackBlock(Code, i) = IF this.op = "push" /\ next.op # "pop" THEN <<j, k, l>> ELSE <<j, k>>
  BY <1>1, <1>2 DEF StackBlock
<1>5. StackLoose(Code, i) = IF this.op \in {"load", "pop"} THEN {Home(this.d.r)} ELSE {}
  BY <1>1, <1>2 DEF StackLoose
<1>7. CASE this.op = "push" /\ next.op = "pop"
  <2>1. SUFFICES RewrittenAt(<<j, k>>) /\ Simulates(<<j, k>>, {})
    BY <1>4, <1>5, <1>7
  <2>2. CASE IsRegister(this.s) /\ lir_registers_equal(this.s, next.d)
    <3>1. Rewritten = omit(omit(Code, j), k)
      BY <1>1, <1>2, <1>7, <2>2 DEF optimize_stack_operations, Moves
    <3>2. IsRegister(next.d) /\ this.s.r = next.d.r
      BY <1>3, <1>7, <2>2 DEF PushPopSafe, lir_registers_equal
    <3> QED
      BY <1>1, <1>2, <1>3, <1>7, <2>2, <3>1, <3>2, PushPopOmitted
  <2>3. CASE IsRegister(this.s) /\ ~lir_registers_equal(this.s, next.d)
    <3>1. Rewritten = Forward(Code, j, k, "store")
      BY <1>1, <1>2, <1>7, <2>3 DEF optimize_stack_operations, Moves
    <3>2. ~Truncates("store", next.d)
      BY <1>3, <1>7, <2>3 DEF PushPopSafe
    <3> QED
      BY <1>1, <1>2, <1>3, <1>7, <3>1, <3>2, PushPopForwarded DEF Moves
  <2>4. CASE ~IsRegister(this.s)
    <3>1. Rewritten = Forward(Code, j, k, "load")
      BY <1>1, <1>2, <1>7, <2>4 DEF optimize_stack_operations, Moves
    <3>2. ~Truncates("load", next.d)
      BY DEF Truncates
    <3> QED
      BY <1>1, <1>2, <1>3, <1>7, <3>1, <3>2, PushPopForwarded DEF Moves
  <2> QED
    BY <2>2, <2>3, <2>4
<1>8. CASE /\ ~(this.op = "push" /\ next.op = "pop")
           /\ this.op = "load" /\ next.op = "push" /\ Feeds(this, next) /\ ~IsRegister(this.s)
  <2>1. SUFFICES RewrittenAt(<<j, k>>) /\ Simulates(<<j, k>>, {Home(this.d.r)})
    BY <1>4, <1>5, <1>8
  <2>2. Rewritten = Forward(Code, j, k, "push")
    BY <1>1, <1>2, <1>8 DEF optimize_stack_operations
  <2>3. IsRegister(this.d) /\ IsRegister(next.s) /\ this.d.r = next.s.r
    BY <1>8 DEF Feeds, lir_registers_equal
  <2>4. next.op \in Readers /\ next.op \notin Puts /\ next.op \notin MathOps \union {"compare"}
    BY <1>8 DEF Readers, Puts, Moves, Computes, MathOps, SetOps
  <2>5. this.op = "load" /\ next.op = "push"
    BY <1>8
  <2>6. Rewritten = Forward(Code, j, k, next.op)
    BY <2>2, <2>5
  <2> QED
    BY <1>1, <1>2, <1>3, <2>3, <2>4, <2>5, <2>6, LoadForwarded
<1>9. CASE /\ ~(this.op = "push" /\ next.op = "pop")
           /\ this.op = "push" /\ next.op \in Moves \union {"reference"} /\ next2.op = "pop"
           /\ ~lir_registers_equal(next2.d, next.d)
  <2>1. SUFFICES RewrittenAt(<<j, k, l>>) /\ Simulates(<<j, k, l>>, {})
    BY <1>4, <1>5, <1>9
  <2>2. Rewritten = [omit(Code, l) EXCEPT ![j].op = "load", ![j].d = next2.d]
    BY <1>1, <1>2, <1>9 DEF optimize_stack_operations
  <2>3. k < l /\ IsRegister(next2.d) /\ ~Uses(next, next2.d.r)
    BY <1>3, <1>9
  <2> QED
    BY <1>1, <1>2, <1>3, <1>9, <2>2, <2>3, PushLoaded
<1>10. CASE /\ ~(this.op = "push" /\ next.op = "pop")
            /\ this.op = "pop" /\ next.op \in Moves /\ Feeds(this, next) /\ this.d.t = next.s.t
  <2>1. SUFFICES RewrittenAt(<<j, k>>) /\ Simulates(<<j, k>>, {Home(this.d.r)})
    BY <1>4, <1>5, <1>10
  <2>2. Rewritten = omit([Code EXCEPT ![k].op = "pop"], j)
    BY <1>1, <1>2, <1>10 DEF optimize_stack_operations
  <2>3. IsRegister(this.d) /\ IsRegister(next.s) /\ this.d.r = next.s.r
    BY <1>10 DEF Feeds, lir_registers_equal
  <2>4. ~Truncates(next.op, next.d) /\ Home(this.d.r) \notin InAddress(next.d)
    BY <1>3, <1>10
  <2> QED
    BY <1>1, <1>2, <1>3, <1>10, <2>2, <2>3, <2>4, PopForwarded
<1>11. \/ this.op = "push" /\ next.op = "pop"
       \/ /\ ~(this.op = "push" /\ next.op = "pop")
          /\ this.op = "load" /\ next.op = "push" /\ Feeds(this, next) /\ ~IsRegister(this.s)
       \/ /\ ~(this.op = "push" /\ next.op = "pop")
          /\ this.op = "push" /\ next.op \in Moves \union {"reference"} /\ next2.op = "pop"
          /\ ~lir_registers_equal(next2.d, next.d)
       \/ /\ ~(this.op = "push" /\ next.op = "pop")
          /\ this.op = "pop" /\ next.op \in Moves /\ Feeds(this, next) /\ this.d.t = next.s.t
  BY <1>1, <1>2 DEF optimize_stack_operations
<1> QED
  BY <1>7, <1>8, <1>9, <1>10, <1>11

\* The rules on the stack are right: what they have rewritten runs alike, where the
\* registers they free are not read again and the instructions are safe.
THEOREM StackOperationsKeep ==
  ASSUME Code \in Seq(Instructions), NEW i \in 1..Len(Code),
         Rewritten = optimize_stack_operations(Code, i), Rewritten # Code,
         StackSafe(Code, i), Dead(StackBlock(Code, i), StackLoose(Code, i))
  PROVE  Lockstep => []RunsAlike(StackBlock(Code, i))
<1>1. RewrittenAt(StackBlock(Code, i)) /\ Simulates(StackBlock(Code, i), StackLoose(Code, i))
  BY StackOperationsSimulate
<1>2. Init => InStep(StackBlock(Code, i))
  BY <1>1, InStepAlways
<1>3. InStep(StackBlock(Code, i)) /\ [Next]_<<before, after>> => InStep(StackBlock(Code, i))'
  BY <1>1, InStepAlways
<1>4. InStep(StackBlock(Code, i)) => RunsAlike(StackBlock(Code, i))
  BY <1>1, InStepAlways
<1> QED
  BY <1>2, <1>3, <1>4, PTL DEF Lockstep
-----------------------------------------------------------------------------
(* optimize_loads_and_stores, a rule at a time.                            *)

\* load %0, %0 and reference %0, [%0]
LEMMA MoveOmitted ==
  ASSUME Code \in Seq(Instructions), NEW i \in 1..Len(Code), NEW j, j = ThisAt(Code, i),
         Code[j].op \in Moves \union {"reference"}, Rewritten = omit(Code, j),
         \A s : IsMachine(s) => Agree(Effect(s, Code[j]), s, {})
  PROVE  RewrittenAt(<<j>>) /\ Simulates(<<j>>, {})
<1>1. j \in 1..Len(Code)
  BY SomeCode
<1>2. SameBut(Code, Rewritten, {j}) /\ Rewritten[j].op = "nop" /\ Rewritten[j].d = Code[j].d
  BY <1>1, OmitIs
<1>3. Code[j].op # "new_label" /\ Rewritten[j].op # "new_label"
  BY <1>2 DEF Moves
<1>4. RewrittenAt(<<j>>)
  BY <1>1, <1>2, <1>3, OneAt
<1>5. Simulates(<<j>>, {})
  BY <1>2, OneSimulates
<1> QED
  BY <1>4, <1>5

\* reference %0, x; store %1, %0
LEMMA AddressForwarded ==
  ASSUME Code \in Seq(Instructions), NEW i \in 1..Len(Code),
         NEW j, j = ThisAt(Code, i), NEW k, k = NextAt(Code, i), j < k,
         Code[j].op = "reference", IsRegister(Code[j].d), Code[k].op = "store", IsRegister(Code[k].s),
         Code[j].d.r = Code[k].s.r, IsRegister(Code[k].d), ~Truncates("store", Code[k].d),
         Rewritten = Forward(Code, j, k, "reference")
  PROVE  RewrittenAt(<<j, k>>) /\ Simulates(<<j, k>>, {Home(Code[j].d.r)})
<1>1. PICK a, b, c : a = Code[j] /\ b = Code[k] /\ c = Ins("reference", Code[k].d, Code[j].s)
  OBVIOUS
<1>2. c.op = "reference" /\ c.d = b.d /\ c.s = a.s
  BY <1>1 DEF Ins
<1>3. PICK free : free = {Home(a.d.r)}
  OBVIOUS
<1>4. ASSUME NEW s, IsMachine(s) PROVE Replaces(s, a, b, c, free)
  <2>1. ~Stops(s, c) /\ ~Jumps(s, c) /\ ~Jumps(Effect(s, a), b)
    BY <1>1, <1>2, GoesOnAlways DEF Moves
  <2>2. /\ a.op = "reference" /\ IsRegister(a.d) /\ b.op \in Moves /\ IsRegister(b.s) /\ a.d.r = b.s.r
        /\ IsRegister(b.d) /\ ~Truncates(b.op, b.d)
    BY <1>1 DEF Moves
  <2>3. Agree(Effect(Effect(s, a), b), Effect(s, c), free)
    BY <1>2, <1>3, <1>4, <2>2, ReferenceMove
  <2> QED
    BY <2>1, <2>3 DEF Replaces
<1>5. PICK op \in Opcodes : op = "reference"
  BY DEF Opcodes, Puts
<1>6. op \in Opcodes \ {"new_label"} /\ Rewritten = Forward(Code, j, k, op) /\ c = Ins(op, Code[k].d, Code[j].s)
  BY <1>1, <1>5
<1>7. \A s : IsMachine(s) => Replaces(s, Code[j], Code[k], c, free)
  BY <1>1, <1>4
<1>8. Code[j].op \in Moves \union {"push", "pop", "reference"} /\ Code[k].op # "new_label"
  OBVIOUS
<1>9. RewrittenAt(<<j, k>>) /\ Simulates(<<j, k>>, free)
  BY <1>6, <1>7, <1>8, RuleOfTwo
<1> QED
  BY <1>1, <1>3, <1>9

\* Each rule on loads and stores simulates what it has rewritten.
LEMMA LoadsAndStoresSimulate ==
  ASSUME Code \in Seq(Instructions), NEW i \in 1..Len(Code),
         Rewritten = optimize_loads_and_stores(Code, i), Rewritten # Code,
         MovesSafe(Code, i)
  PROVE  RewrittenAt(MovesBlock(Code, i)) /\ Simulates(MovesBlock(Code, i), MovesLoose(Code, i))
<1>1. PICK j, k : j = ThisAt(Code, i) /\ k = NextAt(Code, i)
  OBVIOUS
<1>2. PICK this, next : this = Code[j] /\ next = Code[k]
  OBVIOUS
<1>3. /\ SelfMove(this) => ~Truncates(this.op, this.d)
      /\ this.op = "load" /\ ~SelfMove(this) => j < k /\ ForwardSafe(this, next)
      /\ ~FollowsAddress(this, next)
      /\ StoresAddress(this, next) => j < k /\ IsRegister(next.d) /\ ~Truncates("store", next.d)
  BY <1>1, <1>2 DEF MovesSafe
<1>4. MovesOmit(Code, i) <=> SelfMove(this) \/ (this.op = "reference" /\ ~StoresAddress(this, next))
  BY <1>1, <1>2 DEF MovesOmit
<1>5. /\ MovesOmit(Code, i) => MovesBlock(Code, i) = <<j>> /\ MovesLoose(Code, i) = {}
      /\ ~MovesOmit(Code, i) => MovesBlock(Code, i) = <<j, k>> /\ MovesLoose(Code, i) = {Home(this.d.r)}
  BY <1>1, <1>2 DEF MovesBlock, MovesLoose
<1>7. CASE SelfMove(this)
  <2>1. SUFFICES RewrittenAt(<<j>>) /\ Simulates(<<j>>, {})
    BY <1>4, <1>5, <1>7
  <2>2. Rewritten = omit(Code, j)
    BY <1>1, <1>2, <1>7 DEF optimize_loads_and_stores, SelfMove
  <2>3. this.op \in Moves /\ IsRegister(this.d) /\ IsRegister(this.s) /\ this.d.r = this.s.r /\ ~Truncates(this.op, this.d)
    BY <1>3, <1>7 DEF SelfMove, lir_registers_equal
  <2>4. \A s : IsMachine(s) => Agree(Effect(s, this), s, {})
    BY <2>3, MoveToItself
  <2> QED
    BY <1>1, <1>2, <2>2, <2>3, <2>4, MoveOmitted
<1>8. CASE ~SelfMove(this) /\ this.op = "load" /\ Rewritten # Code
  <2>1. SUFFICES RewrittenAt(<<j, k>>) /\ Simulates(<<j, k>>, {Home(this.d.r)})
    BY <1>4, <1>5, <1>8
  <2>2. Feeds(this, next) /\ Rewritten = Forward(Code, j, k, next.op)
    BY <1>1, <1>2, <1>8 DEF optimize_loads_and_stores, SelfMove
  <2>3. IsRegister(this.d) /\ IsRegister(next.s) /\ this.d.r = next.s.r
    BY <2>2 DEF Feeds, lir_registers_equal
  <2>4. /\ j < k /\ next.op \in Readers
        /\ Home(this.d.r) \notin InAddress(next.d)
        /\ next.op \in MathOps \union {"compare"} => Home(this.d.r) \notin InOperand(next.d)
    BY <1>3, <1>8 DEF ForwardSafe
  <2> QED
    BY <1>1, <1>2, <1>8, <2>2, <2>3, <2>4, LoadForwarded
<1>9. CASE ~SelfMove(this) /\ StoresAddress(this, next)
  <2>1. SUFFICES RewrittenAt(<<j, k>>) /\ Simulates(<<j, k>>, {Home(this.d.r)})
    BY <1>4, <1>5, <1>9
  <2>2. /\ this.op = "reference" /\ next.op = "store" /\ next.d.k \notin {"variable", "pointer"}
        /\ IsRegister(this.d) /\ IsRegister(next.s) /\ this.d.r = next.s.r /\ Feeds(this, next)
    BY <1>9 DEF StoresAddress, Feeds, lir_registers_equal
  <2>3. Rewritten = Forward(Code, j, k, "reference")
    BY <1>1, <1>2, <2>2 DEF optimize_loads_and_stores, Moves
  <2>4. j < k /\ IsRegister(next.d) /\ ~Truncates("store", next.d)
    BY <1>3, <1>9
  <2> QED
    BY <1>1, <1>2, <2>2, <2>3, <2>4, AddressForwarded
<1>10. CASE ~SelfMove(this) /\ this.op # "load" /\ ~StoresAddress(this, next)
  <2>1. /\ this.op = "reference" /\ IsRegister(this.d) /\ this.s.k = "pointer" /\ this.s.r = this.d.r
        /\ Rewritten = omit(Code, j)
    BY <1>1, <1>2, <1>3, <1>10 DEF optimize_loads_and_stores, SelfMove, FollowsAddress, StoresAddress
  <2>2. SUFFICES RewrittenAt(<<j>>) /\ Simulates(<<j>>, {})
    BY <1>4, <1>5, <1>10, <2>1
  <2>3. \A s : IsMachine(s) => Agree(Effect(s, this), s, {})
    BY <2>1, AddressToItself
  <2> QED
    BY <1>1, <1>2, <2>1, <2>3, MoveOmitted
<1> QED
  BY <1>7, <1>8, <1>9, <1>10

\* The rules on loads and stores are right likewise.
THEOREM LoadsAndStoresKeep ==
  ASSUME Code \in Seq(Instructions), NEW i \in 1..Len(Code),
         Rewritten = optimize_loads_and_stores(Code, i), Rewritten # Code,
         MovesSafe(Code, i), Dead(MovesBlock(Code, i), MovesLoose(Code, i))
  PROVE  Lockstep => []RunsAlike(MovesBlock(Code, i))
<1>1. RewrittenAt(MovesBlock(Code, i)) /\ Simulates(MovesBlock(Code, i), MovesLoose(Code, i))
  BY LoadsAndStoresSimulate
<1>2. Init => InStep(MovesBlock(Code, i))
  BY <1>1, InStepAlways
<1>3. InStep(MovesBlock(Code, i)) /\ [Next]_<<before, after>> => InStep(MovesBlock(Code, i))'
  BY <1>1, InStepAlways
<1>4. InStep(MovesBlock(Code, i)) => RunsAlike(MovesBlock(Code, i))
  BY <1>1, InStepAlways
<1> QED
  BY <1>2, <1>3, <1>4, PTL DEF Lockstep
=============================================================================
