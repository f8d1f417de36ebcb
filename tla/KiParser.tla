------------------------------ MODULE KiParser ------------------------------
(***************************************************************************)
(* The parser of the Ki compiler (frontend/parser.c): recursive descent,   *)
(* one operator per function, from a parser to a parser whose ast is what  *)
(* was read.  The numbers and names of local variables that only the       *)
(* listings of the compiler show are left out, and so is the text of       *)
(* literals.                                                               *)
(***************************************************************************)
EXTENDS KiSyntax

RECURSIVE parse(_), parse_value(_), parse_leading_values(_), parse_body(_, _), parse_group_preceded_statement(_, _)

-----------------------------------------------------------------------------
(* A node grows in ast, part by part, while what is read for a part takes  *)
(* its place there for a time.                                             *)

\* The node with what was just read as its next part.
Hang(p, node) == [p EXCEPT !.ast = [node EXCEPT !.kids = Append(@, p.ast)]]
\* The node with the parts of what was just read as its next ones.
HangAll(p, node) == [p EXCEPT !.ast = [node EXCEPT !.kids = @ \o p.ast.kids]]
\* One more part that needs no reading.
Part(p, node) == [p EXCEPT !.ast.kids = Append(@, node)]

AndValue(p) == Hang(parse_value(p), p.ast)
AndStatement(p) == Hang(parse(p), p.ast)
Comma(p) == IF p.ast.kids # <<>> THEN eat(p, ",") ELSE p

-----------------------------------------------------------------------------
(* Values. *)

\* Behind the name of a type: the size of an array.
ArraySize(p) ==
    IF Type(Tok(p)) = "int" THEN step(Part(p, Leaf(p, "int", Tok(p)))) ELSE AndValue(p)
TypeEnd(p) == IF Tok(p) # "[" THEN p ELSE eat(ArraySize(step([p EXCEPT !.ast.t = "array"])), "]")

TypeName(p) == TypeEnd(eat([p EXCEPT !.ast.v = Tok(p)], "identifier"))
TypeModule(p) == IF Peek(p, 1) = "." THEN TypeName(step(eat(Part(p, Leaf(p, "module", Tok(p))), "identifier")))
                 ELSE TypeName(p)

\* Pointers, && and at last one &, are counted on the way.
parse_data_type(p) ==
    LET last == CHOOSE j \in p.i .. Len(p.toks) : p.toks[j] # "&&" /\ \A k \in p.i .. j - 1 : p.toks[k] = "&&"
        q == [p EXCEPT !.i = last, !.ast = Node(p, "type", "", 2 * (last - p.i), <<>>)]
    IN  TypeModule(IF Tok(q) = "&" THEN step([q EXCEPT !.ast.n = @ + 1]) ELSE q)
AndType(p) == Hang(parse_data_type(p), p.ast)

RECURSIVE Operands(_)
\* operator, value, operator, ...
Operands(p) ==
    IF Tok(p) \notin MathOperators THEN p
    ELSE Operands(AndValue(step(Part(p, Leaf(p, "operator", Tok(p))))))

\* From the first operand on.
parse_math(p, first) ==
    Unset(Operands(SetFlags(Give(p, NodeAt(first, "math", "", <<first>>)), p.flags \union {"math"})), "math")

\* A bool that stands alone, with only such before it, gets its == true.
IsSimple(nodes) == Len(nodes) = 1 \/ nodes[Len(nodes) - 1].n = 1
push_simple_boolean_comparison_if_present(p) ==
    IF IsSimple(p.ast.kids) THEN Part(Part(p, Node(p, "operator", "==", 1, <<>>)), Leaf(p, "bool", "true")) ELSE p

AndOperator(p) ==
    IF Tok(p) \in {"&&", "||"}
    THEN Part(push_simple_boolean_comparison_if_present(p),
              Node(p, "operator", Tok(p), IF IsSimple(p.ast.kids) THEN 1 ELSE 0, <<>>))
    ELSE Part(p, Leaf(p, "operator", Tok(p)))

RECURSIVE Comparisons(_)
Comparisons(p) ==
    IF Tok(p) \notin ConditionOperators THEN push_simple_boolean_comparison_if_present(p)
    ELSE Comparisons(AndValue(step(AndOperator(p))))

ConditionFrom(p, first) ==
    Unset(Comparisons(Give(p, NodeAt(first, "condition", "", <<first>>))), "condition")
\* The first value of a condition stands for it so far.
FirstOfCondition(p) == ConditionFrom(p, p.ast)
parse_condition(p) == FirstOfCondition(parse_value(SetFlags(p, p.flags \union {"condition"})))
AndCondition(p) == Hang(parse_condition(p), p.ast)

\* After a statement's semicolon a * or & begins the next one.
parse_leading_values(p) ==
    IF "no_values" \in p.flags \/ "math" \in p.flags \/ Peek(p, 1) = "=" THEN p
    ELSE IF Tok(p) \in MathOperators /\ Peek(p, -1) # ";" THEN parse_leading_values(parse_math(p, p.ast))
    ELSE IF Tok(p) \in ConditionOperators /\ "condition" \notin p.flags
    THEN parse_leading_values(ConditionFrom(SetFlags(p, p.flags \union {"condition"}), p.ast))
    ELSE p

parse_value(p) == parse_leading_values(SetFlags(parse(SetFlags(p, p.flags \union {"value"})), p.flags))

\* The value of an operator before it, read under flags of its own.
Under(p, flags, type) ==
    SetFlags(AndValue(SetFlags(Give(step(p), Leaf(p, type, Tok(p))), flags)), p.flags)

parse_unary(p) == Under(p, {"no_values"}, "unary")
parse_dereference(p) == Under(p, {"no_assignment"}, "dereference")
parse_reference(p) == Under(p, p.flags, "reference")
\* A plausible mistake: the flags of what is around stay set in parentheses.
expression_keeps_flags(p) == eat(Under(p, p.flags, "expression"), ")")
parse_expression(p) == eat(Under(p, {}, "expression"), ")")

parse_index(p, base) == eat(AndValue(Give(step(p), NodeAt(base, "index", "", <<base>>))), "]")

AccessEnd(p) == IF Tok(p) # ";" THEN parse_leading_values(p) ELSE p
parse_access(p, lhs) ==
    AccessEnd(SetFlags(Hang(parse(SetFlags(step(p), p.flags \union {"no_assignment", "no_values"})),
                            NodeAt(lhs, "access", "", <<lhs>>)), p.flags))

RECURSIVE Arguments(_)
Arguments(p) == IF Tok(p) \in {EOF, ")"} THEN p ELSE Arguments(AndValue(Comma(p)))

parse_call(p) ==
    SetFlags(eat(Arguments(SetFlags(Give(step(step(p)), Leaf(p, "call", Tok(p))),
                                    (p.flags \union {"call"}) \ {"no_values"})), ")"), p.flags)

SizeofArgument(p) ==
    IF is_data_type(p) THEN AndType(p) ELSE SetFlags(AndValue(SetFlags(p, {"no_values"})), p.flags)
Sizeof(p) == IF Tok(p) = "(" THEN eat(SizeofArgument(step(p)), ")") ELSE SizeofArgument(p)
parse_sizeof(p) == Sizeof(step(Give(p, Leaf(p, "sizeof", ""))))

parse_cast(p) == eat(AndValue(AndType(eat(step(Give(p, Leaf(p, "cast", ""))), "("))), ")")

Field(p) == AndValue(eat(step(Give(IF Type(Tok(p)) = "identifier" THEN p ELSE Wrong(p), Leaf(p, "field", Tok(p)))), "="))
RECURSIVE Fields(_)
FieldsFrom(p) ==
    IF Tok(p) = "}" THEN p
    ELSE IF Tok(p) # "." THEN skip_until(Wrong(p), {"}"})
    ELSE Fields(Hang(Field(step(p)), p.ast))
Fields(p) == IF Tok(p) \in {EOF, "}"} THEN p ELSE FieldsFrom(Comma(p))

parse_struct_initializer(p) ==
    AndType(eat(eat(Fields(eat(Give(p, Leaf(p, "struct_initializer", "")), "{")), "}"), ":"))

RECURSIVE Elements(_)
ElementsFrom(p) == IF Tok(p) \in {EOF, "]"} THEN p ELSE Elements(AndValue(p))
Elements(p) == IF Tok(p) \in {EOF, "]"} THEN p ELSE ElementsFrom(Comma(p))

parse_array_initializer(p) == eat(Elements(eat(Give(p, Leaf(p, "array_initializer", "")), "[")), "]")

parse_literal(p) == Give(step(p), Leaf(p, "literal", Tok(p)))

-----------------------------------------------------------------------------
(* Statements. *)

parse_assignment(p, lhs) == AndValue(Give(eat(p, "="), NodeAt(lhs, "assignment", "", <<lhs>>)))

\* A plausible mistake: the operator is passed over with the first operand.
compound_math_over(p, lhs) == AndValue(Give(step(step(step(p))), Node(p, "compound", Tok(p), 0, <<lhs>>)))
parse_compound_math(p, lhs) == AndValue(Give(step(step(p)), Node(p, "compound", Tok(p), 0, <<lhs>>)))

RECURSIVE Statements(_)
Statements(p) == IF Tok(p) \in {EOF, "}"} THEN p ELSE Statements(AndStatement(p))

\* A list of statements; without braces it is one.
parse_body(p, require_braces) ==
    LET list == Give(p, Leaf(p, "list", ""))
    IN  IF Tok(p) = "{" THEN eat(Statements(step(list)), "}")
        ELSE IF require_braces THEN eat(Statements(list), "}")
        ELSE IF Tok(p) \in {EOF, "}"} THEN list ELSE AndStatement(list)
AndBody(p, require_braces) == Hang(parse_body(p, require_braces), p.ast)

Default(p) == IF Tok(p) = "=" THEN AndValue(step(p)) ELSE p
Variable(p) == push_symbol(p, "variable", p.ast, p.ast.kids[1], <<>>)
TypeOrVoid(p) == IF Tok(p) = ":" THEN AndType(step(p)) ELSE Part(p, Leaf(p, "type", "void"))

parse_parameter(p) ==
    Default(Variable(AndType(eat(eat(Give(p, Leaf(p, "parameter", Tok(p))), "identifier"), ":"))))
RECURSIVE Parameters(_)
ParametersFrom(p) ==
    IF p.ast.kids # <<>> /\ Tok(p) = ")" THEN p ELSE Parameters(Hang(parse_parameter(p), p.ast))
Parameters(p) == IF Tok(p) \in {EOF, ")"} THEN p ELSE ParametersFrom(Comma(p))
parse_parameters(p) == Hang(eat(Parameters(eat(Give(p, Leaf(p, "list", "")), "(")), ")"), p.ast)

Outside(p) == [p EXCEPT !.fn = 0]

\* The parts of a function: decorators and group, parameters, type and body;
\* n is 1 when it has no body.
FunctionBody(p) ==
    IF Tok(p) = ";" THEN Part([Outside(p) EXCEPT !.ast.n = 1], Leaf(p, "list", "")) ELSE Outside(AndBody(p, TRUE))
FunctionFrom(p) == FunctionBody(push_symbol(p, "function", p.ast, p.ast.kids[3], p.ast.kids[2].kids))
parse_function(p, heading) ==
    LET node == Node(Outside(p), "function", Tok(p), 0, <<heading>>)
    IN  FunctionFrom(TypeOrVoid(parse_parameters([Give(step(p), node) EXCEPT !.fn = p.i])))

ReturnValue(p) == IF Tok(p) = ";" THEN p ELSE AndValue(p)
parse_return(p) == ReturnValue(eat(Give(p, Leaf(p, "return", "")), "keyword"))

AsmText(p) == IF Tok(p) = "(" THEN eat(AndValue(step(p)), ")") ELSE AndValue(p)
parse_asm(p) == AsmText(eat(Give(p, Leaf(p, "asm", "")), "keyword"))

\* A block of its own: the next number that no block has had.
NewScope(p) == [p EXCEPT !.scopes = @ + 1, !.ooak = p.scopes + 1]
Leave(p, outer) == [p EXCEPT !.ooak = outer.ooak]

Else(p) == IF Tok(p) # "else" THEN p ELSE AndBody(step(NewScope(p)), Tok(step(p)) # "if")
parse_if(p) == Leave(Else(AndBody(NewScope(AndCondition(step(Give(p, Leaf(p, "if", ""))))), TRUE)), p)

While(p) == AndBody(AndCondition(p), TRUE)
Until(p) == IF Tok(p) = "while" THEN AndCondition(step(p)) ELSE Part(Wrong(p), Leaf(p, "error", ""))
parse_while(p, do_first) ==
    LET inside == NewScope(step(Give(p, Leaf(p, IF do_first THEN "do" ELSE "while", ""))))
    IN  Leave(IF do_first THEN Until(AndBody(inside, TRUE)) ELSE While(inside), p)

ForRange(p) == IF Tok(p) = "=" THEN AndValue(step([p EXCEPT !.ast.n = 1])) ELSE AndValue(p)
ForStep(p) == IF Tok(p) = "step" THEN AndValue(step(p)) ELSE Part(p, Nop(p))
parse_for(p) ==
    LET reverse == Tok(step(p)) = "rev"
        node == Leaf(p, "for", IF reverse THEN "rev" ELSE "")
        iterator == NewScope(Give(IF reverse THEN step(step(p)) ELSE step(p), node))
    IN  Leave(AndBody(ForStep(ForRange(eat(AndStatement(iterator), ".."))), TRUE), p)

MemberEnd(p, is_enum) ==
    IF ~is_enum THEN eat(p, ";") ELSE IF Tok(p) # "}" THEN eat(p, ",") ELSE p
parse_member(p, is_enum) ==
    MemberEnd(Default(TypeOrVoid(eat(Give(p, Node(p, "member", Tok(p), IF is_enum THEN 1 ELSE 0, <<>>)),
                                "identifier"))),
              is_enum)
RECURSIVE Members(_, _)
Members(p, is_enum) ==
    IF Tok(p) \in {EOF, "}"} THEN p ELSE Members(Hang(parse_member(p, is_enum), p.ast), is_enum)

\* The name, the colon and the word enum or struct are passed over unseen.
CustomType(p, decorators) == push_custom_type(p, p.ast.t, p.ast, decorators)
parse_custom_type(p, is_enum, decorators) ==
    LET node == Leaf(p, IF is_enum THEN "enum" ELSE "struct", Tok(p))
    IN  CustomType(eat(Members(eat(Give(step(step(step(p))), node), "{"), is_enum), "}"), decorators)

\* alias and const.
Definition(p, type) == AndValue(eat(eat(step(Give(p, Leaf(p, type, Tok(p)))), ":"), "identifier"))

DeclaredType(p) == IF Tok(p) = "=" THEN Part(p, Leaf(p, "infer", "")) ELSE AndType(p)
parse_declaration(p, group) ==
    LET kind == Peek(p, 2)
        named == eat(eat(Give(IF group THEN Wrong(p) ELSE p, Leaf(p, "declaration", Tok(p))), "identifier"), ":")
    IN  IF kind \in {"enum", "struct"} THEN parse_custom_type(p, kind = "enum", <<>>)
        ELSE IF kind \in {"alias", "const"} THEN Definition(p, kind)
        ELSE Variable(Default(DeclaredType(named)))

\* A parenthesis and what follows the first one that closes tell a function from a call.
parse_for_function_or_call(p) ==
    LET after == Tok(step(skip_until(p, {")"})))
    IN  IF "value" \notin p.flags /\ after \in {":", "{"} THEN parse_function(p, Nop(p)) ELSE parse_call(p)

parse_identifier(p) ==
    CASE Peek(p, 1) = ":" -> parse_declaration(p, FALSE)
      [] Peek(p, 1) = "(" -> parse_for_function_or_call(p)
      [] OTHER -> Give(step(p), Leaf(p, "identifier", Tok(p)))

\* value, value, ...
Named(p) == IF Last(p.ast.kids).t \in {"identifier", "group"} THEN p ELSE Wrong(p)
RECURSIVE Listed(_)
Listed(p) == IF p.ast.kids # <<>> /\ Tok(p) # "," THEN p ELSE Listed(Named(AndValue(Comma(p))))

parse_export(p) == Listed(Give(step(p), Leaf(p, "export", "")))

\* Behind the path of an import.
ImportAs(p) == IF Tok(p) = "as" THEN eat(Part(step(p), Leaf(p, "as", Tok(step(p)))), "identifier") ELSE p
ImportNames(p) ==
    IF Tok(p) \notin {"import", "using"} THEN step(Wrong(p))
    ELSE HangAll(Listed(Give(step(p), Leaf(p, "list", ""))), Part(p, Leaf(p, "names", Tok(p))).ast)
parse_import(p, from) ==
    LET InPath(k) == p.toks[k] \in {".", ".."} \/ Type(p.toks[k]) = "identifier"
        end == CHOOSE j \in p.i + 1 .. Len(p.toks) : ~InPath(j) /\ \A k \in p.i + 1 .. j - 1 : InPath(k)
        path == [k \in 1 .. end - p.i - 1 |-> Leaf(p, "path", p.toks[p.i + k])]
        q == Give([p EXCEPT !.i = end], Node(p, Tok(p), "", 0, path))
    IN  IF from THEN ImportNames(q) ELSE ImportAs(q)

parse_keyword(p) ==
    CASE Tok(p) = "return" -> parse_return(p)
      [] Tok(p) = "asm" -> parse_asm(p)
      [] Tok(p) = "if" -> parse_if(p)
      [] Tok(p) = "while" -> parse_while(p, FALSE)
      [] Tok(p) = "do" -> parse_while(p, TRUE)
      [] Tok(p) \in {"break", "continue", "null", "true", "false"} -> Give(step(p), Leaf(p, "word", Tok(p)))
      [] Tok(p) = "for" -> parse_for(p)
      [] Tok(p) = "sizeof" -> parse_sizeof(p)
      [] Tok(p) = "cast" -> parse_cast(p)
      [] Tok(p) = "export" -> parse_export(p)
      [] Tok(p) \in {"import", "using"} -> parse_import(p, FALSE)
      [] Tok(p) = "from" -> parse_import(p, TRUE)
      [] OTHER -> Give(step(Wrong(p)), Leaf(p, "error", Tok(p)))

-----------------------------------------------------------------------------
(* Decorators and groups. *)

AndDecorator(p) ==
    LET name == step(p) IN Hang(eat(Give(name, Leaf(p, "decorator", Tok(name))), "identifier"), p.ast)
RECURSIVE Decorators(_)
Decorators(p) == IF Tok(p) # "@" THEN p ELSE Decorators(AndDecorator(p))

Heading(p, group, decorators) == Node(p, "heading", group, 0, decorators)

\* Behind the decorators, which are in the heading read so far.
Decorated(p) ==
    IF Tok(p) = "#" THEN parse_group_preceded_statement(p, p.ast.kids)
    ELSE IF Peek(p, 1) = ":" THEN parse_custom_type(p, Peek(p, 2) = "enum", p.ast.kids)
    ELSE parse_function(p, p.ast)
parse_decorator_preceded_function(p, group, decorators) ==
    Decorated(Decorators(Give(p, Heading(p, group, decorators))))

parse_group(p) == LET name == step(p) IN eat(Give(name, Leaf(p, "group", Tok(name))), "identifier")

\* Behind a group, which began at at.
GroupedStatement(p, at, decorators) ==
    LET group == p.ast.v
        q == [p EXCEPT !.groups = @ \union {group}]
    IN  IF Tok(p) = "{" THEN HangAll(parse_body(q, TRUE), Leaf(at, "group_list", group))
        ELSE IF Tok(p) = "@" THEN parse_decorator_preceded_function(q, group, decorators)
        ELSE IF Peek(p, 1) = ":" THEN parse_declaration(q, TRUE)
        ELSE parse_function(q, Heading(at, group, decorators))
parse_group_preceded_statement(p, decorators) == GroupedStatement(parse_group(p), p, decorators)

-----------------------------------------------------------------------------
\* What can begin neither a statement nor a value is passed over.
parse_unexpected(p) == Give(step(Wrong(p)), Leaf(p, "error", Tok(p)))

Primary(p) ==
    CASE Tok(p) = EOF -> Give(p, Nop(p))
      [] Type(Tok(p)) = "keyword" -> parse_keyword(p)
      [] Type(Tok(p)) = "identifier" -> parse_identifier(p)
      [] Type(Tok(p)) \in {"int", "literal"} -> parse_literal(p)
      [] Tok(p) = "&" -> parse_reference(p)
      [] Tok(p) = "(" -> parse_expression(p)
      [] Tok(p) \in {"-", "~", "!"} -> parse_unary(p)
      [] Tok(p) = "*" -> parse_dereference(p)
      [] Tok(p) = "@" -> parse_decorator_preceded_function(p, "", <<>>)
      [] Tok(p) = "#" -> IF "value" \in p.flags THEN parse_group(p) ELSE parse_group_preceded_statement(p, <<>>)
      [] Tok(p) = "{" -> parse_struct_initializer(p)
      [] Tok(p) = "[" -> parse_array_initializer(p)
      [] OTHER -> parse_unexpected(p)

RECURSIVE Trailing(_)
Trailing(p) ==
    LET assigns == {"no_assignment", "value"} \intersect p.flags = {}
    IN  CASE Tok(p) = "." -> Trailing(parse_access(p, p.ast))
          [] Tok(p) # "." /\ "no_values" \in p.flags -> p
          [] "no_values" \notin p.flags /\ assigns /\ Tok(p) = "=" -> Trailing(parse_assignment(p, p.ast))
          [] "no_values" \notin p.flags /\ assigns /\ Tok(p) \in MathOperators /\ Peek(p, 1) = "=" ->
                Trailing(parse_compound_math(p, p.ast))
          [] "no_values" \notin p.flags /\ Tok(p) = "[" -> Trailing(parse_index(p, p.ast))
          [] OTHER -> p

\* A statement takes the semicolons behind it with it.
End(p) ==
    IF "value" \in p.flags THEN p
    ELSE [p EXCEPT !.i = CHOOSE j \in p.i .. Len(p.toks) :
                            p.toks[j] # ";" /\ \A k \in p.i .. j - 1 : p.toks[k] = ";"]
parse(p) == End(Trailing(Primary(p)))
=============================================================================
