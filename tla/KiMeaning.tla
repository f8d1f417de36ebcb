------------------------------ MODULE KiMeaning ------------------------------
(***************************************************************************)
(* What the body of a function means, by its operators, their precedence  *)
(* and its statements, and what its code does; the properties compare the  *)
(* two before, during and after optimization.                              *)
(***************************************************************************)
EXTENDS KiExpression, KiRules

CONSTANTS
    Patience,   \* bound: a run is given up after 2^Patience instructions
    MaxRounds   \* bound: nothing is promised of a loop with more rounds

ASSUME MeaningAssumption == Patience \in Nat /\ MaxRounds \in Nat

-----------------------------------------------------------------------------
(* The meaning of values and statements: what each makes of the variables, *)
(* the array and the answers of calls.  v is the value read last; ok turns *)
(* FALSE where nothing is promised: at a division by zero or one that      *)
(* overflows, and in a loop that goes on for too long.                     *)

Begin(m) == [vars |-> m.vars, mem |-> m.mem, answer |-> m.answer, v |-> 0, ok |-> TRUE, exit |-> "none"]
Give(m, v) == [m EXCEPT !.v = v]
NoPromise(m) == [m EXCEPT !.ok = FALSE]

\* The operator that is done last: the last one of the lowest precedence.
LastDone(nodes) ==
    LET ops == {i \in DOMAIN nodes : nodes[i].k = "operator"}
    IN  CHOOSE i \in ops : \A j \in ops \ {i} :
            LET p == math_operator_to_precedence(nodes[i].op)
                q == math_operator_to_precedence(nodes[j].op)
            IN  p < q \/ (p = q /\ j < i)

\* After the right operand of an operator of a list of type t, whose left one was v.
Computed(op, t, v, right) ==
    IF ~right.ok THEN right
    ELSE IF /\ op \in {"/", "%"}
            /\ right.v = 0 \/ (t \notin Unsigned /\ v = Size \div 2 /\ right.v = Size - 1)
    THEN NoPromise(right)
    ELSE Give(right, Arithmetic(Opcode[op], t, v, right.v))

Ordered == {"<", "<=", ">", ">="}
\* The code takes all integers for signed: no promise for unsigned ones that are
\* too large for that.
MisreadAsSigned(a, op, b, v, w) ==
    /\ op \in Ordered
    /\ {get_hir_data_type(a), get_hir_data_type(b)} \subseteq Unsigned
    /\ v >= Size \div 2 \/ w >= Size \div 2

RECURSIVE Value(_, _), ListValue(_, _, _), ConditionValue(_, _)

\* The list of type t that nodes is, or is a part of; it is split at i.
RightPart(nodes, i, t, left) ==
    Computed(nodes[i].op, t, left.v, ListValue(SubSeq(nodes, i + 1, Len(nodes)), t, left))
SplitAt(nodes, i, t, m) == RightPart(nodes, i, t, ListValue(SubSeq(nodes, 1, i - 1), t, m))
ListValue(nodes, t, m) ==
    IF Len(nodes) = 1 THEN Value(nodes[1], m) ELSE SplitAt(nodes, LastDone(nodes), t, m)

\* A comparison of a with b, whose values were read in this order.
CompareValues(a, op, b, left, right) ==
    IF MisreadAsSigned(a, op, b, left.v, right.v) THEN NoPromise(right)
    ELSE Give(right, Flag(Compared(SetOpcode[op], left.v, right.v)))
ComparedWith(a, op, b, left) == CompareValues(a, op, b, left, Value(b, left))

\* The first term of a condition, a comparison or a bare bool, and its end.
FirstTerm(nodes, end, m) ==
    IF end = 1 THEN Value(nodes[1], m) ELSE ComparedWith(nodes[1], nodes[2].op, nodes[3], Value(nodes[1], m))
EndOfTerm(nodes) ==
    Min({Len(nodes)} \union {i - 1 : i \in {j \in DOMAIN nodes : nodes[j].k = "operator" /\ nodes[j].op \in Chains}})

\* A chain is read from the left and stops as soon as its value is known:
\* a && b || c is a && (b || c).
Continued(nodes, end, first) ==
    IF \/ end = Len(nodes) \/ ~first.ok
       \/ nodes[end + 1].op = "&&" /\ first.v = 0
       \/ nodes[end + 1].op = "||" /\ first.v = 1
    THEN first
    ELSE ConditionValue(SubSeq(nodes, end + 2, Len(nodes)), first)

\* A condition as it stands in the source.
ConditionValue(nodes, m) ==
    LET end == EndOfTerm(nodes) IN Continued(nodes, end, FirstTerm(nodes, end, m))

Item(v) == (ArrayBase + v * ItemSize) % Size

ItemAt(i) == Give(i, i.mem[Item(i.v)])
UnaryOf(op, a) == Give(a, CASE op = "-" -> (-a.v) % Size
                            [] op = "~" -> Size - 1 - a.v
                            [] op = "!" -> Flag(a.v = 0))

Value(e, m) ==
    CASE e.k \in {"literal", "bool"} -> Give(m, e.n)
      [] e.k = "variable" -> Give(m, m.vars[e.x])
      [] e.k = "call" -> [m EXCEPT !.v = m.answer, !.answer = NextAnswer(@)]
      [] e.k = "math" -> ListValue(e.nodes, get_hir_data_type(e), m)
      [] e.k = "condition" -> ConditionValue(e.source, m)
      [] e.k = "index" -> ItemAt(Value(e.e, m))
      [] e.k = "unary" -> UnaryOf(e.op, Value(e.e, m))

\* Where lhs is, in v: its index is read before the right side.
Place(lhs, m) == IF lhs.k = "index" THEN Value(lhs.e, m) ELSE m
Old(lhs, i) == IF lhs.k = "index" THEN i.mem[Item(i.v)] ELSE i.vars[lhs.x]
Stored(lhs, i, m) ==
    IF lhs.k = "index" THEN [m EXCEPT !.mem[Item(i)] = m.v] ELSE [m EXCEPT !.vars[lhs.x] = m.v]
AssignAt(s, i) == Stored(s.lhs, i.v, Value(s.rhs, i))
ComputeAt(s, t, i) == Stored(s.lhs, i.v, Computed(s.op, t, Old(s.lhs, i), Value(s.rhs, i)))

InRange(s, m) ==
    Value(Condition(<<s.iterator, Op(CASE s.rev /\ s.inclusive -> ">="
                                       [] s.rev /\ ~s.inclusive -> ">"
                                       [] ~s.rev /\ s.inclusive -> "<="
                                       [] ~s.rev /\ ~s.inclusive -> "<"), s.to>>), m)
\* The step is taken away from the iterator, or added to it.
StepBy(s, by) ==
    Stored(s.iterator, 0, Give(by, Arithmetic(IF s.rev THEN "sub" ELSE "add", "i32",
                                              by.vars[s.iterator.x], by.v)))
Stepped(s, m) == IF s.k = "for" THEN StepBy(s, Value(s.step, m)) ELSE m

RECURSIVE Did(_, _), Round(_, _, _)

AllDid(block, m) == FoldLeft(LAMBDA n, s : IF n.ok /\ n.exit = "none" THEN Did(s, n) ELSE n, m, block)

\* The loop s with n rounds left: from its condition on, from what that gave,
\* and from what its body did.
AfterBody(s, body, n) ==
    IF ~body.ok \/ body.exit = "break" THEN [body EXCEPT !.exit = "none"]
    ELSE Round(s, Stepped(s, [body EXCEPT !.exit = "none"]), n - 1)
AfterTest(s, test, n) ==
    IF ~test.ok \/ test.v = 0 THEN test ELSE AfterBody(s, AllDid(s.block, test), n)
Round(s, m, n) ==
    IF n = 0 THEN NoPromise(m)
    ELSE AfterTest(s, IF s.k = "for" THEN InRange(s, m) ELSE Value(s.condition, m), n)

Chosen(s, test) == AllDid(IF test.v = 1 THEN s.block ELSE s.else, test)

Did(s, m) ==
    CASE s.k = "assignment" -> AssignAt(s, Place(s.lhs, m))
      [] s.k = "compound" ->
            ComputeAt(s, get_hir_data_type(Math(<<s.lhs, Op(s.op), s.rhs>>)), Place(s.lhs, m))
      [] s.k = "if" -> Chosen(s, Value(s.condition, m))
      [] s.k = "while" /\ ~s.first -> Round(s, m, MaxRounds)
      [] s.k = "while" /\ s.first -> AfterBody(s, AllDid(s.block, m), MaxRounds)
      [] s.k = "for" -> Round(s, Stored(s.iterator, 0, Value(s.from, m)), MaxRounds)
      [] s.k \in {"break", "continue"} -> [m EXCEPT !.exit = s.k]

\* What is left when a body is over.
NoResult == [ok |-> FALSE]
Result(m) == [ok |-> TRUE, vars |-> m.vars, mem |-> m.mem, answer |-> m.answer]

Ended(p, m) == IF p THEN Result(m) ELSE NoResult
Promised(m) == Ended(m.ok, m)
Intended(body, m) == Promised(AllDid(body, Begin(m)))

RECURSIVE RunFor(_, _, _)
\* The machine after at most 2^k instructions of c.
RunFor(c, m, k) ==
    IF ~m.ok \/ m.pc > Len(c) THEN m
    ELSE IF k = 0 THEN Step(c, m)
    ELSE RunFor(c, RunFor(c, m, k - 1), k - 1)

\* The machine after all of c; a run that takes longer has not reached the end.
Run(c, m) == RunFor(c, m, Patience)

\* What the code does; it must leave the stack as it found it.
AtEnd(c, m) == Ended(m.ok /\ m.pc > Len(c) /\ m.stack = <<>>, m)
Done(c, m) == AtEnd(c, Run(c, m))

Agree(intended, done) == intended.ok => done = intended

Right(body, c) ==
    /\ \A i \in DOMAIN c : Assembles(c[i])
    /\ LabelsAreUnique(c)
    /\ \A m \in Inputs : Agree(Intended(body, m), Done(c, m))

SameMeaning(c, d) == \A m \in Inputs : Done(c, m) = Done(d, m)

-----------------------------------------------------------------------------
(* Properties.                                                             *)

RECURSIVE Parts(_)
\* A value and all values inside it.
Parts(e) ==
    {e} \union CASE e.k \in {"index", "unary"} -> Parts(e.e)
                 [] e.k = "math" -> UNION {Parts(e.nodes[i]) : i \in DOMAIN e.nodes}
                 [] e.k = "condition" -> UNION {Parts(e.source[i]) : i \in DOMAIN e.source}
                 [] OTHER -> {}

RECURSIVE StatementsOf(_)
\* The statements of a block, and all that are inside them.
StatementsOf(block) ==
    UNION {{s} \union CASE s.k = "if" -> StatementsOf(s.block) \union StatementsOf(s.else)
                        [] s.k \in {"while", "for"} -> StatementsOf(s.block)
                        [] OTHER -> {} : s \in ToSet(block)}

PartsOf(body) ==
    UNION {CASE s.k = "assignment" -> Parts(s.lhs) \union Parts(s.rhs)
             [] s.k = "compound" -> Parts(Math(<<s.lhs, Op(s.op), s.rhs>>))
             [] s.k \in {"if", "while"} -> Parts(s.condition)
             [] s.k = "for" -> UNION {Parts(e) : e \in {s.from, s.to, s.step}}
             [] OTHER -> {} : s \in StatementsOf(body)}

\* The bodies whose lowering goes wrong, each for its own reason.
\* The complement ~ is emitted as a negation.
Complements(body) == \E e \in PartsOf(body) : e.k = "unary" /\ e.op = "~"
Stores(body) == {s \in StatementsOf(body) : s.k \in {"assignment", "compound"} /\ s.lhs.k = "index"}
\* A unary is not taken for complex: it destroys the address in t1.
LosesAddress(body) == \E s \in Stores(body) : s.k = "assignment" /\ s.rhs.k = "unary"
\* The index of the left side is used as an address while the flag is set.
LeaksAddress(body) == \E s \in Stores(body) : \E e \in Parts(s.lhs.e) : e.k = "index"
\* The index of the left side is computed twice, with its calls.
CallsTwice(body) == \E s \in Stores(body) : s.k = "compound" /\ Call \in Parts(s.lhs.e)
\* A bare bool after a comparison stays without its == true.
DropsBool(body) ==
    \E e \in PartsOf(body) :
        /\ e.k = "condition"
        /\ \/ Len(e.nodes) % 4 # 3
           \/ \E i \in DOMAIN e.nodes : i % 4 = 2 /\ e.nodes[i].op \in Chains
\* A variable declared before counts from 0, wherever its loop starts.
StartsAt0(body) == \E s \in StatementsOf(body) : s.k = "for" /\ ~s.declares

RECURSIVE Stray(_)
\* Outside of a loop break and continue go to label 0, whatever that is.
Stray(block) == \E s \in ToSet(block) : \/ s.k \in {"break", "continue"}
                                        \/ s.k = "if" /\ (Stray(s.block) \/ Stray(s.else))

Lowerable(body) == ~\/ Complements(body) \/ LosesAddress(body) \/ LeaksAddress(body) \/ CallsTwice(body)
                    \/ DropsBool(body) \/ StartsAt0(body) \/ Stray(body)

\* Before optimization (-unopt) the code of a body computes what its operators
\* and statements mean, calls what they call in their order, and leaves the
\* stack balanced, on every path through it.
LoweringRight == (pass = 1 /\ place = 0 /\ Lowerable(program)) => Right(program, code)

Rewrites == code' # code
Folds == Rewrites /\ GroupOf(place' - 1) = "folding"

\* A division became a shift, which rounds down and is signed.
ShiftsDivision == \E i \in DOMAIN code : code[i].op = "div" /\ code'[i].op = "shr"

RECURSIVE LiveFrom(_, _)
\* The registers that are read from each place of c on, found from those found so far.
LiveFrom(c, live) ==
    LET more == [p \in 1 .. Len(c) + 1 |->
                    IF p > Len(c) THEN {}
                    ELSE Reads(c[p]) \union (UNION {live[q] : q \in Successors(c, p)} \ Writes(c[p]))]
    IN  IF more = live THEN live ELSE LiveFrom(c, more)
NotLive(c) ==
    LET live == LiveFrom(c, [p \in 1 .. Len(c) + 1 |-> {}])
    IN  [p \in 1 .. Len(c) + 1 |-> Temporaries \ live[p]]

\* The group g of rules makes d of c at index i where it is right for all machines
\* (KiOptimizerProofs), not only for those the run has.
RightAnywhere(g, c, d, i) ==
    /\ g = "stack" => StackSafe(c, i) /\ Unread(d, NotLive(d), StackBlock(c, i), StackLoose(c, i))
    /\ g = "moves" => MovesSafe(c, i) /\ Unread(d, NotLive(d), MovesBlock(c, i), MovesLoose(c, i))

\* A rule that moves, drops or replaces instructions never changes what the
\* code does, whatever registers are used again behind it.  The exception is
\* the shift for a division by a power of two.  The rules on the stack and on loads
\* and stores look at two or three instructions only, but wherever they apply to code
\* that was lowered, they do so where they are right for all machines: what they do
\* not look at (a register that is read further on or around a loop, an address in
\* a register that is overwritten, an assignment to a bool) does not make them wrong.
RewriteKeeps ==
    [][Rewrites /\ ~Folds =>
          /\ SameMeaning(code, code') \/ ShiftsDivision
          /\ RightAnywhere(GroupOf(place' - 1), code, code', IndexOf(place' - 1))]_vars

\* The two opcodes that the folding step at hand makes into one.
FoldedPair == LET i == IndexOf(place' - 1) IN <<code[ThisAt(code, i)].op, code[NextAt(code, i)].op>>

\* Two operations with constants may become one when they are the same and
\* associative, a constant and an operation when it is not a division.
SoundPairs == {<<op, op>> : op \in {"add", "mul", "and", "or", "xor"}}
         \union {<<"load", op>> : op \in MathOps \ {"div", "mod"}}

FoldKeeps == [][Folds /\ FoldedPair \in SoundPairs => SameMeaning(code, code')]_vars

RECURSIVE Constants(_), Operators(_)
\* How many constants there are in a value, and the operators, down to the
\* operands that are lowered apart.
Constants(e) ==
    CASE e.k = "literal" -> 1
      [] e.k = "unary" -> Constants(e.e)
      [] e.k = "math" -> LET sum[i \in 0 .. Len(e.nodes)] ==
                                IF i = 0 THEN 0 ELSE sum[i - 1] + Constants(e.nodes[i])
                         IN  sum[Len(e.nodes)]
      [] OTHER -> 0
Operators(e) ==
    CASE e.k = "operator" -> {e.op}
      [] e.k = "unary" -> Operators(e.e)
      [] e.k = "math" -> UNION {Operators(e.nodes[i]) : i \in DOMAIN e.nodes}
      [] OTHER -> {}

\* The lists that come through the optimizer: without division, shifted by
\* constants only, and with one constant or one associative operator.  That
\* operator is not the multiplication: x * 2 * 3 becomes x << 1 before the
\* constants meet, and then x << 8.
Optimizable(e) ==
    /\ Operators(e) \intersect {"/", "%"} = {}
    /\ e.k = "math" => \A i \in DOMAIN e.nodes :
          (e.nodes[i].k = "operator" /\ e.nodes[i].op \in {"<<", ">>"}) => e.nodes[i + 1].k = "literal"
    /\ \/ Constants(e) <= 1
       \/ \E op \in {"+", "&", "|", "^"} : Operators(e) = {op}

\* From the source to the optimized code: it can be assembled and computes what
\* the statement means, and the compiler lives to write it.
OptimizedRight ==
    (Lowerable(program) /\ \A e \in PartsOf(program) : Optimizable(e))
      => /\ phase # "crashed"
         /\ phase = "done" => Right(program, code)

\* The optimizer's own comment (optimizer.c:433-436): operations are only made
\* into one where their order does not matter.
OnlyWhereOrderIsFree ==
    [][Folds /\ code[ThisAt(code, IndexOf(place' - 1))].op # "load" => SameMeaning(code, code')]_vars
=============================================================================
