---------------------------- MODULE KiStatements ----------------------------
(***************************************************************************)
(* The statements and the inputs on which TLC checks KiMeaning.            *)
(***************************************************************************)
EXTENDS KiMeaning

x == Variable("x")
u == Variable("u")
z == Variable("z")
One == Literal(1)
Two == Literal(2)
Three == Literal(3)

MathOperators == {"+", "-", "*", "/", "%", "&", "|", "^", "<<", ">>"}
Binary(a, op, b) == Math(<<a, Op(op), b>>)
Ternary(a, op, b, op2, c) == Math(<<a, Op(op), b, Op(op2), c>>)

\* Every two operators next to each other, on variables, constants and both.
Lists == {Ternary(x, op, b, op2, c) : b \in {u, Two}, c \in {x, Three},
                                      op \in MathOperators, op2 \in MathOperators}
  \union {Ternary(x, op, Two, op2, Literal(0)) : op \in {"%", "/"}, op2 \in {"+", "*"}}
  \union {Binary(a, op, b) : a \in {x, Three}, b \in {u, One, Two}, op \in MathOperators}
\* Parentheses on either side, calls and unaries between.
Some == {"-", "*", "/", "<<", "&"}
Nested == {Binary(Binary(a, op, b), op2, c) :
                a \in {x, One}, b \in {Call, Two}, c \in {u, Three}, op \in Some, op2 \in Some}
     \union {Binary(a, op, Binary(b, op2, c)) :
                a \in {x, One}, b \in {Call, Two}, c \in {u, Three}, op \in Some, op2 \in Some}
     \union {Binary(a, op, Unary(m, b)) :
                a \in {x, Call}, b \in {x, u}, op \in Some, m \in {"-", "~"}}

\* Conditions of up to three terms, each a comparison or a bare bool.
First == <<x, Op("<"), Two>>
Second == <<u, Op("=="), x>>
Terms == {First, Second, <<z>>, <<Call, Op(">="), Binary(x, "+", One)>>}
ChainOps == {<<Op("&&")>>, <<Op("||")>>}
Conditions == {Condition(a \o c \o b) : a \in Terms, b \in Terms, c \in ChainOps}
       \union {Condition(a \o c \o b \o d \o e) : a \in {First, <<z>>}, b \in {Second, <<z>>},
                                                  e \in {First, <<z>>}, c \in ChainOps, d \in ChainOps}
       \union {Condition(a) : a \in Terms \ {<<z>>}}

Indexes == {One, x, Binary(x, "+", One), Index(x), Unary("-", x), Call, Index(Index(One))}
Elements == {x, Three, Binary(x, "-", One), Call, Index(One), Index(Call), Unary("-", x), Unary("~", x),
             Binary(Index(x), "*", Index(Two))}

Values ==
          {Assign(x, e) : e \in Lists \union Nested \union {Index(i) : i \in Indexes} \union Elements}
   \union {Assign(z, e) : e \in Conditions \union {Unary("!", z)}
                                                \union {Unary("!", Condition(First \o <<Op("||")>> \o Second))}}
   \union {Assign(Index(i), e) : i \in Indexes, e \in Elements}
   \union {CompoundMath(lhs, op, e) : lhs \in {x, Index(x), Index(Call)}, op \in {"+", "-", "/", "<<"},
                                      e \in {Two, Call, Binary(u, "-", One), Index(x)}}

\* Loops around blocks that leave them in every way, and loops and conditions
\* inside each other.
AddU(e) == CompoundMath(u, "+", e)
Leaving == {<<If(Condition(c), <<exit>>, <<>>)>> : c \in {<<u, Op("=="), Three>>, <<Call, Op(">"), Two>>},
                                                 exit \in {Break, Continue}}
    \union {<<If(Condition(<<z>>), <<Break>>, <<Assign(z, Bool(1)), Continue>>)>>}
Bodies == {<<AddU(One)>> \o l \o <<CompoundMath(Index(u), "-", x)>> : l \in Leaving \union {<<>>}}
Ranges == [declares : {TRUE}, rev : BOOLEAN, inclusive : BOOLEAN, step : {One, Two}]
Counted(block) == {For(x, One, Three, [r EXCEPT !.rev = FALSE], block) : r \in Ranges}
           \union {For(x, Three, One, [r EXCEPT !.rev = TRUE], block) : r \in Ranges}
Tested(block) ==
    LET c == Condition(<<u, Op("<"), Three, Op("||"), Call, Op(">"), Three>>)
    IN  {While(c, block), Do(block, c)}
Simple == [declares |-> TRUE, rev |-> FALSE, inclusive |-> FALSE, step |-> One]
Loops == UNION {Counted(b) \union Tested(b) : b \in Bodies}
Inner == {For(x, Call, Binary(u, "-", One), Simple, b) : b \in Bodies} \union Tested(<<AddU(x), Continue>>)
Flows == {<<Assign(u, One), l>> : l \in Loops}
  \union {<<Assign(u, One), outer>> : outer \in UNION {Tested(<<AddU(One), i>> \o l) : i \in Inner, l \in Leaving}}
  \union {<<If(c, <<i>>, e)>> : c \in {Condition(<<z>>), Condition(First)}, i \in Inner, e \in {<<>>, <<AddU(Call)>>}}
  \union {<<For(x, from, Three, [Simple EXCEPT !.declares = FALSE], <<AddU(One)>>)>> : from \in {Two, u}}
  \union {<<exit>> : exit \in {Break, Continue}}

MCPrograms == {<<v>> : v \in Values} \union Flows

\* A machine with the given variables; the registers hold what was there before.
Machine(vx, vu, vz, answer, f) ==
    [t1 |-> 11, t2 |-> 6, stack |-> <<>>, cmp |-> <<0, 0>>, pc |-> 1, ok |-> TRUE,
     vars |-> [x |-> vx, u |-> vu, z |-> vz], mem |-> f, answer |-> answer, junk |-> 9]

MCInputs == {Machine(13, 9, 0, 2, [k \in Word |-> (3 * k + 1) % Size]),
             Machine(5, 14, 1, 15, [k \in Word |-> (7 * k + 5) % Size]),
             Machine(1, 1, 1, 5, [k \in Word |-> (5 * k + 2) % Size])}

\* A statement of three additions and subtractions of constants.
MCFolding == {<<Assign(x, Math(<<x, Op(a), One, Op(b), Two, Op(c), Three>>))>> :
                a \in {"+", "-"}, b \in {"+", "-"}, c \in {"+", "-"}}
=============================================================================
