---------------------------- MODULE KiExpression ----------------------------
(***************************************************************************)
(* From the body of a function to its optimized code: how the parser and   *)
(* hir.c lay out values and statements, how lir.c lowers them to the IR of *)
(* KiLir, and the optimizer of KiOptimizer at work on that code, one       *)
(* rewrite at a time.  The meaning of code is what it does to the machine  *)
(* for every input; what the statements mean is stated apart, in KiMeaning.*)
(***************************************************************************)
EXTENDS KiOptimizer, SequencesExt

CONSTANTS
    Programs,   \* the bodies to compile, each a sequence of statements
    Inputs      \* the machines to run the code on

VARIABLES
    program,    \* the body
    code,       \* its instructions
    pass,       \* the optimizer's pass, from 1
    place,      \* where it is in the pass: index and group
    phase       \* "optimizing", "done", or "crashed" in the middle

vars == <<program, code, pass, place, phase>>

-----------------------------------------------------------------------------
(* Values.                                                                 *)

Nothing == [k |-> "none"]
Literal(n) == [k |-> "literal", n |-> n]
Bool(n) == [k |-> "bool", n |-> n]
Variable(x) == [k |-> "variable", x |-> x]
Call == [k |-> "call"]
Index(e) == [k |-> "index", e |-> e]                    \* a[e]
Unary(op, e) == [k |-> "unary", op |-> op, e |-> e]
Op(op) == [k |-> "operator", op |-> op, simple |-> FALSE]
Math(nodes) == [k |-> "math", nodes |-> nodes]          \* value, operator, value, ...

\* Statements; a body and a block are sequences of them.
Assign(lhs, rhs) == [k |-> "assignment", lhs |-> lhs, rhs |-> rhs]
CompoundMath(lhs, op, rhs) == [k |-> "compound", lhs |-> lhs, op |-> op, rhs |-> rhs]
If(c, block, else) == [k |-> "if", condition |-> c, block |-> block, else |-> else]
While(c, block) == [k |-> "while", condition |-> c, block |-> block, first |-> FALSE]
Do(block, c) == [k |-> "while", condition |-> c, block |-> block, first |-> TRUE]
\* for x := from .. to, or x = from .. to when x is declared before; rev, ..= and
\* step are in how, with the step 1 when none is written.
For(x, from, to, how, block) ==
    [k |-> "for", iterator |-> x, from |-> from, to |-> to, block |-> block,
     declares |-> how.declares, rev |-> how.rev, inclusive |-> how.inclusive, step |-> how.step]
Break == [k |-> "break"]
Continue == [k |-> "continue"]

\* x and u are integers, z is a bool; a is an array of i32.
VariableType == [x |-> "i32", u |-> "u32", z |-> "bool"]

\* A literal without a minus is unsigned.
RECURSIVE get_hir_data_type(_)
get_hir_data_type(e) ==
    CASE e.k = "literal" -> "u32"
      [] e.k \in {"bool", "condition"} -> "bool"
      [] e.k = "variable" -> VariableType[e.x]
      [] e.k \in {"call", "index"} -> "i32"
      [] e.k = "unary" -> get_hir_data_type(e.e)
      \* One unsigned item makes the list unsigned.
      [] e.k = "math" ->
            IF \E i \in DOMAIN e.nodes : /\ e.nodes[i].k # "operator"
                                         /\ get_hir_data_type(e.nodes[i]) \in Unsigned
            THEN "u32" ELSE "i32"

\* Of bool, i32 and u32: the second, but of two unsigned types the larger one.
infer_between_two_types(t, u) == IF t = "u32" /\ u = "bool" THEN t ELSE u

Chains == {"&&", "||"}

\* push_simple_boolean_comparison_if_present: z becomes z == true when it stands
\* first, or after a chain operator whose left side was one too.
Completed(nodes) ==
    IF Len(nodes) = 1 \/ nodes[Len(nodes) - 1].simple
    THEN nodes \o <<[Op("==") EXCEPT !.simple = TRUE], Bool(1)>>
    ELSE nodes

\* parse_condition: nodes as they stand in the source, value, operator, value, ...
Condition(nodes) ==
    LET read[i \in 1 .. Len(nodes)] ==
            IF i = 1 THEN <<nodes[1]>>
            ELSE IF nodes[i].k = "operator" /\ nodes[i].op \in Chains
            THEN LET done == Completed(read[i - 1])
                 IN  Append(done, [nodes[i] EXCEPT !.simple = (done # read[i - 1])])
            ELSE Append(read[i - 1], nodes[i])
    IN  [k |-> "condition", nodes |-> Completed(read[Len(nodes)]), source |-> nodes]

-----------------------------------------------------------------------------
(* Lowering.  g is the generator: the code it has emitted, the labels in   *)
(* use, the operand of the value lowered last and the targets of break and *)
(* continue; leak is the flag IR_NO_DEREFERENCE.                           *)

Emit(g, is) == [g EXCEPT !.code = @ \o is]
In(o, g) == [g EXCEPT !.o = o]

math_operator_to_precedence(op) ==
    CASE op \in {"<<", ">>", "&", "|", "^"} -> 0
      [] op \in {"+", "-"} -> 1
      [] OTHER -> 2

Opcode == ("+" :> "add") @@ ("-" :> "sub") @@ ("*" :> "mul") @@ ("/" :> "div") @@ ("%" :> "mod")
       @@ ("&" :> "and") @@ ("|" :> "or") @@ ("^" :> "xor") @@ ("<<" :> "shl") @@ (">>" :> "shr")
\* Where a comparison should be, && and || give opcode 0: no instruction.
SetOpcode == ("==" :> "sete") @@ ("!=" :> "setne") @@ ("<" :> "setlt") @@ ("<=" :> "setlte")
          @@ (">" :> "setgt") @@ (">=" :> "setgte") @@ ("&&" :> "eof") @@ ("||" :> "eof")

Load(d, s) == Ins("load", d, s)
Push(s) == Ins("push", nop, s)
Pop(d) == Ins("pop", d, nop)
label(n) == Ins("new_label", nop, lir_label(n))
jmp(n) == Ins("jmp", lir_label(n), nop)
OnBool(op, n) == Ins(op, lir_label(n), t1("bool"))

RECURSIVE hir_data_to_operand(_, _, _)

\* Loaded into a register, and pushed, is the operand at hand.
Loaded(r, g) == Emit(g, <<Load(r, g.o)>>)
Pushed(t, g) == Emit(g, <<Load(t1(t), g.o), Push(t1(t))>>)
PushValue(e, t, leak, g) == Pushed(t, hir_data_to_operand(e, leak, g))

do_math_operation(op, t) == <<Pop(t2(t)), Pop(t1(t)), Ins(Opcode[op], t1(t), t2(t)), Push(t1(t))>>

\* The code of the delayed operators after the first n, the last one first.
Delayed(ops, n, t) == FoldLeft(LAMBDA c, op : c \o do_math_operation(op, t), <<>>,
                               Reverse(SubSeq(ops, n + 1, Len(ops))))

\* A plausible mistake: operators of the same precedence wait as well.
WaitingForEqual(ops, op) ==
    Max({0} \union {n \in DOMAIN ops :
            math_operator_to_precedence(ops[n]) <= math_operator_to_precedence(op)})

\* The delayed operators that wait on: those below the last one of lower precedence.
Waiting(ops, op) ==
    Max({0} \union {n \in DOMAIN ops :
            math_operator_to_precedence(ops[n]) < math_operator_to_precedence(op)})

\* Of a list of type t the generator and the delayed operators.
Delay(op, n, t, list) ==
    [g |-> Emit(list.g, Delayed(list.ops, n, t)), ops |-> Append(SubSeq(list.ops, 1, n), op)]
MathNode(node, t, leak, list) ==
    IF node.k = "operator" THEN Delay(node.op, Waiting(list.ops, node.op), t, list)
    ELSE [list EXCEPT !.g = PushValue(node, t, leak, @)]
EndOfMath(t, list) == In(t1(t), Emit(list.g, Delayed(list.ops, 0, t) \o <<Pop(t1(t))>>))
MathNodes(nodes, t, leak, g) ==
    EndOfMath(t, FoldLeft(LAMBDA list, node : MathNode(node, t, leak, list), [g |-> g, ops |-> <<>>], nodes))

hir_math_to_lir_operand(e, leak, g) == MathNodes(e.nodes, get_hir_data_type(e), leak, g)

Compare(a, op, b, t, leak, g) ==
    Emit(PushValue(b, t, leak, PushValue(a, t, leak, g)),
         <<Pop(t2(t)), Pop(t1(t)), Ins("compare", t1(t), t2(t)), Ins(SetOpcode[op], t1("bool"), t1(t))>>)

\* One comparison of a condition, its operator at place i.
Comparison(nodes, i, leak, g) ==
    Compare(nodes[i - 1], nodes[i].op, nodes[i + 1],
            infer_between_two_types(get_hir_data_type(nodes[i - 1]), get_hir_data_type(nodes[i + 1])), leak, g)

\* Its part in a chain, whose value so far is on the stack.
Chained(nodes, i, trueLabel, falseLabel, g) ==
    Emit(g, <<Pop(t2("bool")),
              Ins(IF i > 2 /\ nodes[i - 2].op = "&&" THEN "and" ELSE "or", t1("bool"), t2("bool")),
              IF i + 2 < Len(nodes) /\ nodes[i + 2].op = "||" THEN OnBool("jmp_true", trueLabel)
              ELSE OnBool("jmp_false", falseLabel),
              Push(t1("bool"))>>)

EndOfChain(trueLabel, falseLabel, g) ==
    Emit([g EXCEPT !.labels = @ + 1],
         <<Pop(t1("bool")), label(trueLabel), jmp(g.labels), label(falseLabel),
           Load(t1("bool"), Constant("i32", 0)), label(g.labels)>>)

Chain(nodes, trueLabel, falseLabel, leak, g) ==
    EndOfChain(trueLabel, falseLabel, FoldLeft(
        LAMBDA h, k : Chained(nodes, 4 * k - 2, trueLabel, falseLabel, Comparison(nodes, 4 * k - 2, leak, h)),
        Emit(g, <<Load(t1("bool"), Constant("bool", 0)), Push(t1("bool"))>>),
        [k \in 1 .. (Len(nodes) + 1) \div 4 |-> k]))

\* A single comparison has its result in t1, and a label that is never used.
hir_condition_to_lir_operand(e, leak, g) ==
    In(t1("bool"), IF Len(e.nodes) = 3 THEN Comparison(e.nodes, 2, leak, [g EXCEPT !.labels = @ + 1])
                   ELSE Chain(e.nodes, g.labels, g.labels + 1, leak, [g EXCEPT !.labels = @ + 2]))

\* The flag is set while the base is lowered, not while the index is.
ArrayAddress ==
    <<Ins("reference", t1("usize"), lir_local_variable("i32", "a")), Push(t1("usize"))>>
ItemAddress(g) ==
    Emit(Loaded(t2("usize"), g), <<Ins("mul", t2("usize"), Constant("usize", ItemSize)), Pop(t1("usize")),
                                   Ins("add", t1("usize"), t2("usize"))>>)
hir_index_to_lir_operand(e, leak, g) ==
    In(IF leak THEN t1("ptr") ELSE lir_pointer("i32", "t1"),
       ItemAddress(hir_data_to_operand(e.e, leak, Emit(g, ArrayAddress))))

UnaryOpcode == ("-" :> "neg") @@ ("~" :> "not") @@ ("!" :> "bool_not")

Applied(op, r, g) == In(r, Emit(Loaded(r, g), <<Ins(UnaryOpcode[op], r, nop)>>))
hir_unary_to_operand(e, leak, g) ==
    Applied(e.op, t1(get_hir_data_type(e.e)), hir_data_to_operand(e.e, leak, g))

hir_data_to_operand(e, leak, g) ==
    CASE e.k = "none" -> In(nop, g)
      [] e.k = "literal" -> In(Constant("u32", e.n), g)
      [] e.k = "bool" -> In(Constant("bool", e.n), g)
      [] e.k = "variable" -> In(lir_local_variable(VariableType[e.x], e.x), g)
      [] e.k = "call" -> In(r0("i32"), Emit(g, <<Ins("call", nop, nop)>>))
      [] e.k = "math" -> hir_math_to_lir_operand(e, leak, g)
      [] e.k = "condition" -> hir_condition_to_lir_operand(e, leak, g)
      [] e.k = "index" -> hir_index_to_lir_operand(e, leak, g)
      [] e.k = "unary" -> hir_unary_to_operand(e, leak, g)

is_complex_expression(e) == e.k \in {"call", "math", "condition", "index"}

\* The address is in t1; it waits on the stack while a complex value is computed.
StoreAtAddress(rhs, t, g) ==
    IF is_complex_expression(rhs)
    THEN Emit(Loaded(t1(t), hir_data_to_operand(rhs, FALSE, Emit(g, <<Push(t1(t))>>))),
              <<Pop(t2(t)), Ins("store", lir_pointer(t, "t2"), t1(t))>>)
    ELSE Emit(Loaded(t2(t), hir_data_to_operand(rhs, FALSE, g)), <<Ins("store", lir_pointer(t, "t1"), t2(t))>>)
push_pointer_assignment(s, g) ==
    LET t == get_hir_data_type(s.lhs)
    IN  StoreAtAddress(s.rhs, t, Loaded(t1(t), hir_data_to_operand(s.lhs, TRUE, g)))

StoreIn(o, g) == Emit(Loaded(t1(o.t), g), <<Ins("store", o, t1(o.t))>>)
push_assignment(s, g) ==
    IF s.lhs.k = "index" THEN push_pointer_assignment(s, g)
    ELSE StoreIn(hir_data_to_operand(s.lhs, FALSE, g).o, hir_data_to_operand(s.rhs, FALSE, g))

\* The left side is in the tree twice, and its code is too.
compound_math_to_hir(s) == Assign(s.lhs, Math(<<s.lhs, Op(s.op), s.rhs>>))

\* Only a declaration has its value kept.
for_to_hir(s) ==
    [iterator |-> s.iterator,
     initializer |-> IF s.declares THEN s.from ELSE Nothing,
     condition |-> [k |-> "condition", nodes |-> <<s.iterator, Op(
        IF s.rev THEN IF s.inclusive THEN ">=" ELSE ">"
        ELSE IF s.inclusive THEN "<=" ELSE "<"), s.to>>],
     increment |-> s.step, decrement |-> s.rev, block |-> s.block]

RECURSIVE push_hir(_, _)

push_nodes(block, g) == FoldLeft(LAMBDA h, s : push_hir(s, h), g, block)

StartBlock == <<Ins("start_block", nop, nop)>>
EndBlock == <<Ins("end_block", nop, nop)>>

push_block(block, g) == Emit(push_nodes(block, Emit(g, StartBlock)), EndBlock)

\* The condition c, and the jump op to n.
Test(c, op, n, g) == Emit(Loaded(t1("bool"), hir_data_to_operand(c, FALSE, g)), <<OnBool(op, n)>>)

Else(block, else_label, done_label, g) ==
    push_block(block, Emit(g, <<jmp(done_label), label(else_label)>>))
push_if(s, g) ==
    LET else_label == g.labels
        done_label == IF s.else = <<>> THEN else_label ELSE else_label + 1
        then == push_block(s.block, Test(s.condition, "jmp_false", else_label, [g EXCEPT !.labels = done_label + 1]))
    IN  Emit(IF s.else = <<>> THEN then ELSE Else(s.else, else_label, done_label, then), <<label(done_label)>>)

\* A loop has the next three labels: of its condition or body, of what continue
\* goes to, and of its end.  Behind it break and continue are what they were.
Loop(n, continue, g) == [g EXCEPT !.labels = n + 3, !.break = n + 2, !.continue = continue]
Left(n, before, g) == [Emit(g, <<label(n + 2)>>) EXCEPT !.break = before.break, !.continue = before.continue]

TestedLast(s, n, g) ==
    Test(s.condition, "jmp_true", n + 1, Emit(push_block(s.block, Emit(g, <<label(n + 1)>>)), <<label(n)>>))
TestedFirst(s, n, g) ==
    Emit(push_block(s.block, Emit(Test(s.condition, "jmp_false", n + 2, Emit(g, <<label(n)>>)), <<label(n + 1)>>)),
         <<jmp(n)>>)
push_while_loop(s, g) ==
    LET condition_label == g.labels
        inside == Loop(condition_label, condition_label, g)
    IN  Left(condition_label, g, IF s.first THEN TestedLast(s, condition_label, inside)
                                 ELSE TestedFirst(s, condition_label, inside))

StepIterator(h, iter, t, g) ==
    Emit(Pushed(t, hir_data_to_operand(h.increment, FALSE, Pushed(t, In(iter, g)))),
         <<Pop(t2(t)), Pop(t1(t)), Ins(IF h.decrement THEN "sub" ELSE "add", t1(t), t2(t)),
           Ins("store", iter, t1(t))>>)
Turns(h, iter, n, g) ==
    StepIterator(h, iter, iter.t, Emit(
        push_block(h.block, Test(h.condition, "jmp_false", n + 2, Emit(g, <<label(n)>>))), <<label(n + 1)>>))
ForLoop(h, n, g) ==
    Emit(Turns(h, g.o, n, StoreIn(g.o, hir_data_to_operand(h.initializer, FALSE, g))), <<jmp(n)>>)
push_for_loop(s, g) ==
    LET n == g.labels
        h == for_to_hir(s)
        start == hir_data_to_operand(h.iterator, FALSE, Emit(Loop(n, n + 1, g), StartBlock))
    IN  Emit(Left(n, g, ForLoop(h, n, start)), EndBlock)

push_hir(s, g) ==
    CASE s.k = "assignment" -> push_assignment(s, g)
      [] s.k = "compound" -> push_assignment(compound_math_to_hir(s), g)
      [] s.k = "if" -> push_if(s, g)
      [] s.k = "while" -> push_while_loop(s, g)
      [] s.k = "for" -> push_for_loop(s, g)
      \* push_keyword_statement: outside of a loop it jumps to label 0 as well.
      [] s.k = "break" -> Emit(g, EndBlock \o <<jmp(g.break)>>)
      [] s.k = "continue" -> Emit(g, EndBlock \o <<jmp(g.continue)>>)

NewGenerator == [code |-> <<>>, labels |-> 0, o |-> nop, break |-> 0, continue |-> 0]

\* A function with this body.
hir_to_lir(body) ==
    Emit(push_nodes(body, Emit(NewGenerator, <<Ins("start_func", nop, nop)>>)),
         <<Ins("end_func", nop, nop), Ins("eof", nop, nop)>>).code

-----------------------------------------------------------------------------
(* optimize_lir.                                                           *)

RECURSIVE NextChange(_, _)
\* The first place from p on where a group changes the code c, or crashes.
NextChange(c, p) ==
    IF p \notin Places(c) THEN p
    ELSE IF Optimized(c, p) # c \/ (GroupOf(p) = "folding" /\ Crashes(c, IndexOf(p))) THEN p
    ELSE NextChange(c, p + 1)

Init ==
    /\ program \in Programs
    /\ code = hir_to_lir(program)
    /\ pass = 1
    /\ place = 0
    /\ phase = "optimizing"

\* Group g of rules changes the code at the next place where one does.
Rewrite(g) ==
    /\ phase = "optimizing"
    /\ LET p == NextChange(code, place)
       IN  /\ p \in Places(code)
           /\ GroupOf(p) = g
           /\ g = "folding" => ~Crashes(code, IndexOf(p))
           /\ code' = Optimized(code, p)
           /\ place' = p + 1
    /\ UNCHANGED <<program, pass, phase>>

Crash ==
    /\ phase = "optimizing"
    /\ LET p == NextChange(code, place)
       IN  p \in Places(code) /\ GroupOf(p) = "folding" /\ Crashes(code, IndexOf(p))
    /\ phase' = "crashed"
    /\ UNCHANGED <<program, code, pass, place>>

EndPass ==
    /\ phase = "optimizing"
    /\ NextChange(code, place) \notin Places(code)
    /\ IF pass < PASS_COUNT THEN pass' = pass + 1 /\ place' = 0 /\ UNCHANGED phase
       ELSE phase' = "done" /\ UNCHANGED <<pass, place>>
    /\ UNCHANGED <<program, code>>

Next == \/ \E g \in {"stack", "moves", "math", "folding"} : Rewrite(g)
        \/ Crash
        \/ EndPass

Spec == Init /\ [][Next]_vars
=============================================================================
