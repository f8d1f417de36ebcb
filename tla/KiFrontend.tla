----------------------------- MODULE KiFrontend -----------------------------
(***************************************************************************)
(* A program of one module on its way through the front end of the Ki      *)
(* compiler: parse_root reads one statement after the other; if nothing    *)
(* was wrong, the resolver goes over the types of the program and then     *)
(* over the statements (compiler.c, resolve_root).                         *)
(***************************************************************************)
EXTENDS KiParser, KiResolver

CONSTANTS
    Programs,   \* sets of programs, sequences of tokens
    Values      \* sets of values and what they mean, each [text, tree]

VARIABLES
    program,    \* the tokens
    meant,      \* the trees the value of a program made from a value is meant to have
    parser,     \* the parser's state
    roots,      \* the statements read so far
    resolver,   \* the resolver's state
    next,       \* the next type or statement to resolve
    phase       \* "parse", "types", "statements", "accepted", "refused" or "gone"

vars == <<program, meant, parser, roots, resolver, next, phase>>

Assigned(value) == <<"y", "=">> \o value.text \o <<";">>

Init ==
    /\ \/ meant = {} /\ \E programs \in Programs : program \in programs
       \/ \E values \in Values : \E value \in values : program = Assigned(value) /\ meant = {value.tree}
    /\ parser = Parser(program)
    /\ roots = <<>>
    /\ resolver = Resolver(<<>>, <<>>, 0)
    /\ next = 1
    /\ phase = "parse"

Read(q) == parser' = q /\ roots' = Append(roots, q.ast)

\* A plausible mistake: a statement with an error in it is read once more.
parse_root_again ==
    /\ phase = "parse"
    /\ Tok(parser) # EOF
    /\ LET Again(q) == IF q.errs > parser.errs THEN [parser EXCEPT !.errs = q.errs, !.ast = q.ast] ELSE q
       IN  Read(Again(parse(parser)))
    /\ UNCHANGED <<program, meant, resolver, next, phase>>
parse_root ==
    /\ phase = "parse"
    /\ Tok(parser) # EOF
    /\ Read(parse(parser))
    /\ UNCHANGED <<program, meant, resolver, next, phase>>

\* compile_main_module: the resolver is not called when there were errors.
\* Memory that is never set may name any symbol, or none.
compile_main_module ==
    /\ phase = "parse"
    /\ Tok(parser) = EOF
    /\ IF parser.errs > 0 THEN phase' = "refused" /\ UNCHANGED resolver
       ELSE /\ phase' = "types"
            /\ \E stray \in 0 .. Len(parser.syms) :
                  resolver' = Resolver(parser.syms, parser.customs, stray)
    /\ UNCHANGED <<program, meant, parser, roots, next>>

Went(r) ==
    /\ resolver' = r
    /\ phase' = IF r.gone THEN "gone" ELSE phase
    /\ next' = next + 1

resolve_custom_types ==
    /\ phase = "types"
    /\ IF next > Len(resolver.customs)
       THEN phase' = "statements" /\ next' = 1 /\ UNCHANGED resolver
       ELSE Went(resolve_custom_type(resolver, resolver.customs[next]))
    /\ UNCHANGED <<program, meant, parser, roots>>

resolve_root ==
    /\ phase = "statements"
    /\ IF next > Len(roots)
       THEN /\ phase' = IF resolver.errs = <<>> THEN "accepted" ELSE "refused"
            /\ UNCHANGED <<resolver, next>>
       ELSE Went(resolve_ast(resolver, roots[next]))
    /\ UNCHANGED <<program, meant, parser, roots>>

Next == parse_root \/ compile_main_module \/ resolve_custom_types \/ resolve_root

Spec == Init /\ [][Next]_vars

-----------------------------------------------------------------------------
(* What is said of a program, by its text and its tree.                    *)

RECURSIVE Nodes(_), Words(_)
\* A node and all nodes inside it.
Nodes(node) == {node} \union UNION {Nodes(kid) : kid \in Range(node.kids)}
AllNodes == UNION {Nodes(root) : root \in Range(roots)}

\* The words of a node as they stand in the text, without its marks.
Words(node) ==
    LET Of(list) == FlattenSeq([k \in DOMAIN list |-> Words(list[k])])
        kids == node.kids
    IN  CASE node.t \in {"nop", "infer", "bool"} -> <<>>
          [] node.t \in {"list", "heading", "expression", "math", "condition", "index", "access",
                         "array_initializer", "struct_initializer"} ->
                Of(kids) \o IF node.t = "heading" /\ node.v # "" THEN <<"#", node.v>> ELSE <<>>
          [] node.t = "operator" -> IF node.n = 1 /\ node.v = "==" THEN <<>> ELSE <<node.v>>
          [] node.t = "type" -> [k \in 1 .. node.n |-> "&"] \o Of(kids) \o <<node.v>>
          [] node.t = "array" -> [k \in 1 .. node.n |-> "&"] \o Of(SubSeq(kids, 1, Len(kids) - 1))
                                 \o <<node.v>> \o Of(<<Last(kids)>>)
          [] node.t = "reference" -> <<"&">> \o Of(kids)
          [] node.t \in {"sizeof", "cast", "return", "asm", "if", "while", "export", "import", "from", "using"} ->
                <<node.t>> \o (IF node.t # "if" \/ Len(kids) = 2 THEN Of(kids)
                               ELSE Of(SubSeq(kids, 1, 2)) \o <<"else">> \o Of(<<kids[3]>>))
          [] node.t = "do" -> <<"do">> \o Words(kids[1]) \o <<"while">> \o Words(kids[2])
          [] node.t = "for" -> <<"for">> \o SelectSeq(<<node.v>>, LAMBDA v : v = "rev") \o Words(kids[1]) \o <<"..">>
                               \o (IF node.n = 1 THEN <<"=">> ELSE <<>>) \o Words(kids[2])
                               \o (IF kids[3].t = "nop" THEN <<>> ELSE <<"step">>) \o Of(SubSeq(kids, 3, 4))
          [] node.t = "assignment" -> Words(kids[1]) \o <<"=">> \o Words(kids[2])
          [] node.t = "compound" -> Words(kids[1]) \o <<node.v, "=">> \o Words(kids[2])
          [] node.t \in {"declaration", "parameter", "member"} ->
                <<node.v>> \o Words(kids[1]) \o (IF Len(kids) = 2 THEN <<"=">> \o Words(kids[2]) ELSE <<>>)
          [] node.t = "field" -> <<node.v, "=">> \o Of(kids)
          [] node.t = "function" -> Words(kids[1]) \o <<node.v>> \o Of(Tail(kids))
          [] node.t \in {"struct", "enum", "const", "alias"} -> <<node.v, node.t>> \o Of(kids)
          [] node.t = "as" -> <<"as", node.v>>
          [] node.t \in {"group", "group_list"} -> <<"#", node.v>> \o Of(kids)
          [] OTHER -> <<node.v>> \o Of(kids)

\* A text without its marks; a return type void may be left out.
Marked(words) ==
    FlattenSeq([k \in DOMAIN words |->
        CASE words[k] = "&&" -> <<"&", "&">>
          [] words[k] \in {"", ";", ",", ":", "(", ")", "[", "]", "{", "}", ".", "..", "void", EOF} -> <<>>
          [] OTHER -> <<words[k]>>])

Occurs(token) == \E k \in DOMAIN program : program[k] = token
RECURSIVE Bare(_)
\* A tree without the places of its nodes.
Bare(node) == [t |-> node.t, v |-> node.v, kids |-> [k \in DOMAIN node.kids |-> Bare(node.kids[k])]]

RECURSIVE Refusable(_, _, _)
\* Values the parser does not read because of where they stand: math in the
\* arguments, the index or the elements of an operand of math, and a condition
\* in those of a math or a condition.  The first operand is read before the
\* parser knows; parentheses, * and - begin anew.
Refusable(tree, math, condition) ==
    LET Within(m, c) == \E k \in DOMAIN tree.kids : Refusable(tree.kids[k], m, c)
        Rest(m, c) == \E k \in 2 .. Len(tree.kids) : Refusable(tree.kids[k], m, c)
        First == Refusable(tree.kids[1], math, condition)
    IN  CASE tree.t = "math" -> math \/ First \/ Rest(TRUE, condition)
          [] tree.t = "condition" -> math \/ condition \/ First \/ Rest(math, TRUE)
          [] tree.t \in {"expression", "dereference", "unary"} -> Within(FALSE, FALSE)
          [] OTHER -> Within(math, condition)

\* A value that ends in * or & goes on over the operators behind it, and -
\* ends before an index or an element: *a + 1 is *(a + 1), -a[1] is (-a)[1].
RECURSIVE Open(_)
Open(tree) ==
    \/ tree.t \in {"dereference", "reference"}
    \/ tree.t \in {"unary", "math", "condition"} /\ Open(Last(tree.kids))
ReadOtherwise(tree) ==
    \E node \in Nodes(tree) :
        \/ node.t \in {"math", "condition"} /\ \E k \in 1 .. Len(node.kids) - 1 : Open(node.kids[k])
        \/ node.t = "unary" /\ node.kids[1].t \in {"index", "array_initializer"}

\* What the resolver goes into where statements stand; others are passed over.
Resolved == {"function", "declaration", "assignment", "asm", "compound", "call", "return", "if", "while", "do",
             "for", "const", "access", "group_list", "list", "parameter"}

RECURSIVE Reached(_)
\* The nodes the resolver has to find something for.
Reached(node) ==
    LET Kids(S) == UNION {Reached(node.kids[k]) : k \in S \intersect DOMAIN node.kids}
        Statement(k) == node.kids[k].t \in Resolved
    IN  {node} \union CASE node.t \in {"list", "group_list"} -> Kids({k \in DOMAIN node.kids : Statement(k)})
                         [] node.t = "for" -> Kids({k \in 1 .. 4 : k = 1 => Statement(k)})
                         [] node.t = "access" -> Kids({1})
                         [] node.t \in {"type", "enum", "struct", "alias", "export"} -> {}
                         [] node.t = "cast" -> Kids({2})
                         [] node.t = "sizeof" -> Kids({k \in {1} : node.kids[k].t \notin {"type", "array"}})
                         [] OTHER -> Kids(DOMAIN node.kids)
ReachedNodes == UNION {Reached(root) : root \in {root \in Range(roots) : root.t \in Resolved}}

First(nodes) == {node.at : node \in {n \in nodes : \A m \in nodes : n.at <= m.at}}

\* The function a node is in, if any, as a set.
Around(node) == {f \in Range(roots) : f.t = "function" /\ node \in Nodes(f)}

Declared(f, name) == {node \in Nodes(f) : node.t \in {"declaration", "parameter"} /\ node.v = name}
Types(kind, name) == {node \in AllNodes : node.t = kind /\ node.v = name}

\* What a name stands for: a constant defined before it; else a variable of its
\* function, wherever it is declared there; else a type of the program.
Meaning(id) ==
    LET consts == {node \in ReachedNodes :
                      /\ node.t = "const" /\ node.v = id.v
                      /\ node.at < id.at /\ id \notin Nodes(node)}
        locals == UNION {Declared(f, id.v) : f \in Around(id)}
    IN  CASE consts # {} -> First(consts)
          [] consts = {} /\ locals # {} -> First(locals)
          [] consts \union locals = {} /\ Types("enum", id.v) # {} -> First(Types("enum", id.v))
          [] OTHER -> First(Types("struct", id.v))

NestedFunctions ==
    \E f \in Range(roots), node \in AllNodes :
        f # node /\ {f.t, node.t} = {"function"} /\ node \in Nodes(f)

At(what) == {resolver.errs[k].at : k \in {j \in DOMAIN resolver.errs : resolver.errs[j].what = what}}

\* The whole program has been gone over.
Over == phase \in {"accepted", "refused"} /\ parser.errs = 0

-----------------------------------------------------------------------------
(* Properties.                                                             *)

\* Reading a statement always gets the parser further, whatever the text is.
EveryStatementConsumes == [][roots' # roots => parser'.i > parser.i]_vars

\* A program that is read without an error is in the tree with every word.
NothingDropped ==
    (Tok(parser) = EOF /\ parser.errs = 0 /\ ~Occurs("@") /\ ~Occurs("#")) =>
        Marked(FlattenSeq([k \in DOMAIN roots |-> Words(roots[k])])) = Marked(program)

\* The parser refuses exactly the values named above because of where they
\* stand, and gives every other value the tree it is meant to have; those whose
\* operators go on over what follows them are left out.
ReadAsMeant ==
    \A tree \in meant :
        (Tok(parser) = EOF /\ ~ReadOtherwise(tree)) =>
            /\ parser.errs = 0 <=> ~Refusable(tree, FALSE, FALSE)
            /\ parser.errs = 0 => Bare(roots[1].kids[2]) = tree

\* Where functions are not nested, a name stands for what is said above and is
\* refused when there is nothing; and of two declarations of a name in one
\* function the second is refused, whatever blocks they are in.  A do loop's
\* condition comes before its body here, and a constant of the body after it.
ResolvesByFunction ==
    (Over /\ ~NestedFunctions /\ At("invalid value") = {} /\ ~(Occurs("do") /\ Occurs("const"))) =>
        /\ \A id \in {node \in ReachedNodes : node.t = "identifier"} :
              /\ {use.to : use \in Uses(resolver, id)} = Meaning(id)
              /\ id.at \in At("undefined identifier") <=> Meaning(id) = {}
        /\ At("redefined variable") =
              {node.at : node \in {d \in ReachedNodes : /\ d.t = "declaration"
                                                       /\ \A f \in Around(d) : d.at \notin First(Declared(f, d.v))}}

\* The compiler vanishes on nothing but these: a call of a function that is not
\* there, a declaration outside of functions or behind a nested one, a member
\* of a structure that is neither of a built-in type nor of a structure, and a
\* * or [ ] too many.
CrashesOnly ==
    phase = "gone" =>
        \/ \E node \in AllNodes : node.t = "call" /\ ~\E f \in AllNodes : f.t = "function" /\ f.v = node.v
        \/ \E node \in ReachedNodes : node.t = "declaration" /\ Around(node) = {}
        \/ NestedFunctions
        \/ \E type \in Range(parser.customs) : \E member \in Range(type.members) :
              type.kind = "struct" /\ member.kids[1].v \notin BuiltinTypes \union {"string"}
                                  /\ Types("struct", member.kids[1].v) = {}
        \/ \E node \in ReachedNodes : node.t \in {"dereference", "index"}

\* What the next stage takes for granted of a program without errors: every
\* name, call and member was found, and the type of every variable is known
\* unless its value is a variable whose own type was not known yet.
AcceptedIsResolved ==
    phase = "accepted" =>
        \A node \in ReachedNodes :
            /\ node.t \in {"identifier", "call"} => Cardinality(Uses(resolver, node)) = 1
            /\ node.t = "access" => \E use \in Uses(resolver, node.kids[2]), type \in Range(resolver.customs) :
                                        use.to \in {member.at : member \in Range(type.members)}
            /\ (node.t = "declaration" /\ resolver.types[node.at].prim = "infer") =>
                    \E d \in ReachedNodes, id \in Nodes(node.kids[2]) :
                        d.t = "declaration" /\ d.v = id.v /\ d.at >= node.at /\ d.kids[1].t = "infer"

\* resolve_value is given the address of the pointer to a node "because we may
\* need to reassign its dereferenced value after it gets resolved", resolver.c:588:
\* what was resolved in a program without errors is in its tree.
ResolvedIsKept == phase = "accepted" => resolver.lost = {}
=============================================================================
