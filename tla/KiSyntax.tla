------------------------------ MODULE KiSyntax ------------------------------
(***************************************************************************)
(* Tokens, syntax trees and the parser's state (token.h, ast.h, parser.h). *)
(* A token is known by its text; a node by the place of the token it was   *)
(* made at, which takes the place of the node's uid and of its line and    *)
(* column.                                                                 *)
(***************************************************************************)
EXTENDS Integers, Sequences, SequencesExt, FiniteSets

EOF == "eof"

MathOperators == {"+", "-", "*", "/", "%", "&", "|", "^", "<<", ">>"}
ConditionOperators == {"==", "!=", "<", "<=", ">", ">=", "&&", "||"}
Marks == {"(", ")", "[", "]", "{", "}", ":", ";", ",", ".", "..", "=", "!", "~", "@", "#", EOF}
Keywords ==
    {"return", "asm", "if", "else", "while", "do", "break", "continue", "for", "sizeof", "cast",
     "export", "import", "from", "as", "using", "null", "true", "false"}
Ints == {"0", "1", "2", "3"}
Literals == {"text", "1.5"} \union Ints
BuiltinTypes == {"void", "bool", "char", "i32", "u8", "f64"}

Type(token) ==
    CASE token \in Keywords -> "keyword"
      [] token \in Ints -> "int"
      [] token \in Literals \ Ints -> "literal"
      [] token \in Marks \union MathOperators \union ConditionOperators -> token
      [] OTHER -> "identifier"

\* The state of the parser.  A result is left in ast.
Parser(tokens) ==
    [toks |-> Append(tokens, EOF), i |-> 1, flags |-> {}, fn |-> 0, ooak |-> 0, scopes |-> 0,
     syms |-> <<>>, customs |-> <<>>, groups |-> {}, errs |-> 0, ast |-> <<>>]

Tok(p) == p.toks[p.i]

\* A node made now: its kind, its text, a number and its parts.
Node(p, type, v, n, kids) ==
    [t |-> type, v |-> v, n |-> n, kids |-> kids, fn |-> p.fn, ooak |-> p.ooak, at |-> p.i]
Leaf(p, type, v) == Node(p, type, v, 0, <<>>)
Nop(p) == Leaf(p, "nop", "")
\* A node placed where another one is.
NodeAt(node, type, v, kids) == [node EXCEPT !.t = type, !.v = v, !.n = 0, !.kids = kids]

Give(p, ast) == [p EXCEPT !.ast = ast]
Wrong(p) == [p EXCEPT !.errs = @ + 1]
SetFlags(p, flags) == [p EXCEPT !.flags = flags]
Unset(p, flag) == [p EXCEPT !.flags = @ \ {flag}]

-----------------------------------------------------------------------------
step(p) == [p EXCEPT !.i = IF @ < Len(p.toks) THEN @ + 1 ELSE @]

Peek(p, k) ==
    p.toks[IF p.i + k > Len(p.toks) THEN Len(p.toks) ELSE IF p.i + k < 1 THEN 1 ELSE p.i + k]

\* The next place from i on with a token of the set, or the end.
NextOf(p, S) ==
    LET found == {j \in p.i .. Len(p.toks) : p.toks[j] \in S \union {EOF}}
    IN  CHOOSE j \in found : \A k \in found : j <= k

skip_until(p, S) == [p EXCEPT !.i = NextOf(p, S)]

\* The last token of each list in the code is never looked for: skip_until is
\* called with one less than there are.
skip_to_next_statement(p) ==
    skip_until(p, IF "call" \in p.flags THEN {")"}
                  ELSE IF "value" \in p.flags THEN {")"} \union MathOperators
                  ELSE {"}"})

eat(p, type) ==
    IF Tok(p) = EOF THEN p
    ELSE IF Type(Tok(p)) = type THEN step(p) ELSE skip_to_next_statement(step(Wrong(p)))

is_data_type(p) ==
    /\ Tok(p) = "&" \/ Type(Tok(p)) = "identifier"
    /\ LET rest == {j \in p.i .. Len(p.toks) : p.toks[j] # "&"}
       IN  p.toks[CHOOSE j \in rest : \A k \in rest : j <= k] \in BuiltinTypes

push_custom_type(p, kind, node, decorators) ==
    [p EXCEPT !.customs = Append(@, [kind |-> kind, name |-> node.v, at |-> node.at, members |-> node.kids,
                                     decorators |-> decorators])]

push_symbol(p, kind, node, type, params) ==
    [p EXCEPT !.syms = Append(@, [kind |-> kind, name |-> node.v, at |-> node.at, fn |-> node.fn,
                                  ooak |-> node.ooak, type |-> type, params |-> params])]
=============================================================================
