----------------------------- MODULE KiResolver -----------------------------
(***************************************************************************)
(* The resolver of the Ki compiler (frontend/resolver.c, the scopes of     *)
(* common/context.c and the types of frontend/ast.c) on the tree of one    *)
(* module: what each name in it stands for and what is wrong with it.      *)
(* Aliases are left out and the names of other modules are in KiModules;   *)
(* the values of an enumeration are numbers, as the compiler assumes.      *)
(*                                                                         *)
(* A type says whether it is void, a float, another number or a type of    *)
(* the program and which, how many pointers lead to it and, for an array,  *)
(* how many elements it has.                                               *)
(***************************************************************************)
EXTENDS KiSyntax, TLC

DataType(prim, ptrs, size) == [prim |-> prim, ptrs |-> ptrs, size |-> size, name |-> ""]
Custom(name, ptrs, size) == [prim |-> "custom", ptrs |-> ptrs, size |-> size, name |-> name]
Void == DataType("void", 0, 0)
Infer == DataType("infer", 0, 0)
\* Read through a null pointer: the compiler is gone.
Gone == DataType("gone", 0, 0)

UNRESOLVED_ARRAY_SIZE == 1000
Value(literal) == CASE literal \in {"1", "1.5"} -> 1 [] literal = "2" -> 2 [] literal = "3" -> 3 [] OTHER -> 0

Written(type) ==
    LET size == type.kids[Len(type.kids)]
        elements == CASE type.t # "array" -> 0
                      [] type.t = "array" /\ size.t = "int" -> Value(size.v)
                      [] OTHER -> UNRESOLVED_ARRAY_SIZE
    IN  CASE type.t = "infer" -> Infer
          [] type.v \notin BuiltinTypes -> Custom(type.v, type.n, elements)
          [] OTHER -> DataType(CASE type.v = "void" -> "void" [] type.v = "f64" -> "float" [] OTHER -> "int",
                               type.n, elements)

IsFloat(type) == type = DataType("float", 0, 0)

\* The structure the language brings along; it and its members are nowhere
\* in the text.
push_builtin_data ==
    LET Member(name, type, n) == [v |-> name, at |-> -n,
                                  kids |-> <<[t |-> "type", v |-> type, n |-> n \div 3, kids |-> <<>>]>>]
    IN  [kind |-> "struct", name |-> "string", at |-> 0, decorators |-> <<>>,
         members |-> <<Member("capacity", "i32", 1), Member("length", "i32", 2), Member("data", "u8", 3)>>]

\* The state of the resolver.  uses says what a name or a call at a place is
\* declared at; lost are the places whose answer did not reach the tree; stray
\* is the symbol found for a call whose symbol_uid nobody set.
Resolver(syms, types, stray) ==
    LET customs == <<push_builtin_data>> \o types
        Places(list) == {list[k].at : k \in DOMAIN list}
        members == UNION {Range(customs[k].members) : k \in DOMAIN customs}
    IN  [syms |-> syms, customs |-> customs, stack |-> <<>>, consts |-> <<>>, uses |-> {}, lost |-> {},
         errs |-> <<>>, stray |-> stray, gone |-> FALSE,
         types |-> [at \in Places(syms) |->
                        LET k == CHOOSE j \in DOMAIN syms : syms[j].at = at IN Written(syms[k].type)] @@
                   [at \in Places(customs) |->
                        LET k == CHOOSE j \in DOMAIN customs : customs[j].at = at IN Custom(customs[k].name, 0, 0)] @@
                   [at \in {member.at : member \in members} |->
                        Written((CHOOSE member \in members : member.at = at).kids[1])],
         flags |-> [at \in Places(syms) \union Places(customs) |-> {}]]

Amiss(r, what, node) == [r EXCEPT !.errs = Append(@, [what |-> what, at |-> node.at])]
Vanish(r) == [r EXCEPT !.gone = TRUE]
SetType(r, at, type) == IF type = Gone THEN Vanish(r) ELSE [r EXCEPT !.types = (at :> type) @@ @]
Use(r, node, at) == [r EXCEPT !.uses = @ \union {[at |-> node.at, to |-> at]}]
Uses(r, node) == {use \in r.uses : use.at = node.at}

-----------------------------------------------------------------------------
(* Scopes and symbols. *)

push_scope(r, node) == [r EXCEPT !.stack = Append(@, [fn |-> node.fn, ooak |-> node.ooak])]
\* A plausible mistake: leaving a block leaves all.
pop_all_scopes(r) == [r EXCEPT !.stack = <<>>]
pop_scope(r) == [r EXCEPT !.stack = SubSeq(@, 1, Len(@) - 1)]

\* A plausible mistake: only what is declared in the very same blocks is seen.
is_in_same_block(r, sym) == \E k \in DOMAIN r.stack : r.stack[k].fn = sym.fn /\ r.stack[k].ooak = sym.ooak
is_in_scope(r, sym) == \E k \in DOMAIN r.stack : r.stack[k].fn = sym.fn /\ r.stack[k].ooak <= sym.ooak

\* The first symbol in the order of parsing, or 0.
find_symbol(r, kind, name) ==
    LET Found(k) == r.syms[k].kind = kind /\ r.syms[k].name = name /\ (kind = "function" \/ is_in_scope(r, r.syms[k]))
    IN  IF ~\E k \in DOMAIN r.syms : Found(k) THEN 0
        ELSE CHOOSE k \in DOMAIN r.syms : Found(k) /\ \A j \in 1 .. k - 1 : ~Found(j)

find_constant(r, name) == SelectInSeq(r.consts, LAMBDA c : c.name = name)
find_custom_type(r, kind, name) == SelectInSeq(r.customs, LAMBDA c : c.kind = kind /\ c.name = name)
find_custom_type_member(r, k, name) == SelectInSeq(r.customs[k].members, LAMBDA member : member.v = name)

-----------------------------------------------------------------------------
(* Types of values. *)

RECURSIVE get_ast_data_type(_, _)
\* A float makes the whole list a float; otherwise the most pointers count.
infer_ast_list_data_type(r, list) ==
    LET types == {get_ast_data_type(r, list[k]) : k \in {j \in DOMAIN list : list[j].t # "operator"}}
        pointers == CHOOSE n \in {t.ptrs : t \in types} : \A t \in types : t.ptrs <= n
    IN  IF Gone \in types THEN Gone
        ELSE IF \E t \in types : IsFloat(t) THEN DataType("float", 0, 0) ELSE DataType("int", pointers, 0)

\* One pointer more or less, in a size_t (cut to 16 bits); what cannot be read stays so.
SIZE_MAX == 65535
Pointers(type, k) == IF type = Gone THEN Gone ELSE [type EXCEPT !.ptrs = (@ + k) % (SIZE_MAX + 1)]

\* A message that spells out every pointer of a type.
Spelled(r, type, what, node) == IF type.ptrs > SIZE_MAX \div 2 THEN Vanish(r) ELSE Amiss(r, what, node)

get_ast_data_type(r, node) ==
    LET uses == Uses(r, node)
        used == r.types[(CHOOSE use \in uses : TRUE).to]
    IN  CASE node.t = "literal" ->
                CASE node.v = "text" -> Custom("string", 1, 0)
                  [] node.v = "1.5" -> DataType("float", 0, 0)
                  [] OTHER -> DataType("int", 0, 0)
          [] node.t = "identifier" -> IF uses # {} THEN used ELSE Void
          [] node.t = "call" ->
                IF uses # {} THEN used ELSE IF r.stray = 0 THEN Gone ELSE r.types[r.syms[r.stray].at]
          [] node.t = "math" -> infer_ast_list_data_type(r, node.kids)
          [] node.t = "condition" -> DataType("int", 0, 0)
          [] node.t = "reference" -> Pointers(get_ast_data_type(r, node.kids[1]), 1)
          [] node.t = "dereference" -> Pointers(get_ast_data_type(r, node.kids[1]), -1)
          [] node.t = "index" ->
                LET base == get_ast_data_type(r, node.kids[1])
                IN  IF base.size > 0 THEN [base EXCEPT !.size = 0] ELSE Pointers(base, -1)
          [] node.t = "sizeof" -> DataType("int", 0, 0)
          [] node.t \in {"expression", "unary"} -> get_ast_data_type(r, node.kids[1])
          [] node.t = "cast" -> Written(node.kids[1])
          [] node.t = "word" -> IF node.v = "null" THEN DataType("void", 1, 0) ELSE DataType("int", 0, 0)
          [] node.t = "bool" -> DataType("int", 0, 0)
          [] node.t = "access" -> get_ast_data_type(r, node.kids[2])
          [] node.t = "struct_initializer" -> r.types[node.at]
          [] node.t = "array_initializer" -> [r.types[node.at] EXCEPT !.size = 0]
          [] OTHER -> Void

-----------------------------------------------------------------------------
(* Values. *)

RECURSIVE resolve_value(_, _)

resolve_identifier(r, node) ==
    LET con == find_constant(r, node.v)
        var == find_symbol(r, "variable", node.v)
        enum == find_custom_type(r, "enum", node.v)
        struct == find_custom_type(r, "struct", node.v)
    IN  CASE con # 0 -> Use(r, node, r.consts[con].at)
          [] con = 0 /\ var # 0 -> Use(r, node, r.syms[var].at)
          [] con = 0 /\ var = 0 /\ enum # 0 -> Use(r, node, r.customs[enum].at)
          [] con = 0 /\ var = 0 /\ enum = 0 /\ struct # 0 -> Use(r, node, r.customs[struct].at)
          [] OTHER -> Amiss(r, "undefined identifier", node)

\* Once an operator was a bitwise one, those behind it are resolved as values.
IsBitwise(node, k) == k % 2 = 0 /\ node.kids[k].v \in {"&", "|", "^", "<<", ">>"}
Skipped(node, k) == k % 2 = 0 /\ \A j \in 1 .. k - 1 : ~IsBitwise(node, j)
Known(r, node) == IF get_ast_data_type(r, node) = Gone THEN Vanish(r) ELSE r

MathTypes(r, node) ==
    LET float == \E k \in DOMAIN node.kids : ~Skipped(node, k) /\ IsFloat(get_ast_data_type(r, node.kids[k]))
        bits == IF \E k \in DOMAIN node.kids : IsBitwise(node, k) THEN Amiss(r, "bitwise float", node) ELSE r
    IN  IF r.gone \/ ~float THEN r
        ELSE IF \E k \in DOMAIN node.kids : Skipped(node, k) /\ node.kids[k].v = "%"
        THEN Amiss(bits, "modulo float", node) ELSE bits
resolve_math(r, node) ==
    MathTypes(FoldLeftDomain(LAMBDA a, k : IF Skipped(node, k) \/ a.gone THEN a
                                           ELSE Known(resolve_value(a, node.kids[k]), node.kids[k]),
                             r, node.kids), node)

resolve_condition(r, node) ==
    FoldLeftDomain(LAMBDA a, k : IF k % 2 = 1 THEN resolve_value(a, node.kids[k]) ELSE a, r, node.kids)

\* A literal index of an array is looked at.
IndexBounds(r, node, size) ==
    LET index == node.kids[2]
        whole == IF index.v = "1.5" THEN Amiss(r, "float index", index) ELSE r
    IN  IF size = 0 THEN r ELSE IF Value(index.v) >= size THEN Amiss(whole, "index bounds", index) ELSE whole
LiteralIndex(r, node) ==
    IF node.kids[2].t # "literal" \/ node.kids[2].v = "text" \/ r.gone THEN r
    ELSE IF get_ast_data_type(r, node.kids[1]) = Gone THEN Vanish(r)
    ELSE IndexBounds(r, node, get_ast_data_type(r, node.kids[1]).size)
resolve_index(r, node) == LiteralIndex(resolve_value(resolve_value(r, node.kids[1]), node.kids[2]), node)

KnownDecorators == {"ignore_missing_return", "onetime_arguments", "omit_frame_pointer", "extern", "packed"}
resolve_decorators(r, decorators, at) ==
    FoldLeft(LAMBDA a, d : IF d.v \in KnownDecorators THEN [a EXCEPT !.flags[at] = @ \union {d.v}]
                           ELSE Amiss(a, "undefined decorator", d), r, decorators)

ArraySizeKnown(r, size, at) ==
    LET constant == size.t = "identifier" /\ \E use \in Uses(r, size), c \in Range(r.consts) : c.at = use.to
    IN  IF constant \/ r.gone THEN r
        ELSE SetType(Amiss(r, "array size", size), at, [r.types[at] EXCEPT !.size = 1])
resolve_data_type_array_size(r, size, at) ==
    IF size.t = "int" THEN r ELSE ArraySizeKnown(resolve_value(r, size), size, at)

\* The type of what is declared at a place.
NamedType(r, type, node) ==
    LET enum == find_custom_type(r, "enum", type.v)
        k == IF enum # 0 THEN enum ELSE find_custom_type(r, "struct", type.v)
    IN  IF r.gone \/ r.types[node.at].prim # "custom" THEN r
        ELSE IF Len(type.kids) = IF type.t = "array" THEN 2 ELSE 1 THEN Amiss(r, "undefined module", node)
        ELSE IF k = 0 THEN Amiss(r, "undefined type", node)
        ELSE resolve_decorators(r, r.customs[k].decorators, r.customs[k].at)
resolve_data_type(r, type, node) ==
    NamedType(IF type.t = "array" THEN resolve_data_type_array_size(r, Last(type.kids), node.at) ELSE r, type, node)

resolve_enum_member_access(r, node, enum) ==
    LET name == node.kids[2]
        k == find_custom_type_member(r, enum, name.v)
    IN  IF name.t \notin {"identifier", "call"} \/ k = 0 THEN Amiss(r, "member", node)
        ELSE Use(r, name, r.customs[enum].members[k].at)

StructMember(r, node, type) ==
    LET name == node.kids[2]
        struct == find_custom_type(r, "struct", type.name)
        k == find_custom_type_member(r, struct, name.v)
    IN  IF type.prim # "custom" \/ struct = 0 THEN Spelled(r, type, "no struct", node)
        ELSE IF name.t \notin {"identifier", "call"} \/ k = 0 THEN Amiss(r, "member", node)
        ELSE Use(r, name, r.customs[struct].members[k].at)

\* Errors about a type that is not known yet are counted and not shown.
AccessOfType(r, node, type) ==
    CASE type = Gone -> Vanish(r)
      [] type.prim = "infer" -> Amiss(r, "unsaid", node)
      [] OTHER -> StructMember(r, node, type)
AccessOf(r, node) ==
    LET lhs == node.kids[1]
        enum == \E k \in DOMAIN r.customs : /\ r.customs[k].kind = "enum" /\ lhs.t = "identifier"
                                            /\ \E use \in Uses(r, lhs) : use.to = r.customs[k].at
    IN  IF r.gone THEN r
        ELSE IF enum THEN resolve_enum_member_access(r, node, find_custom_type(r, "enum", lhs.v))
        ELSE AccessOfType(r, node, get_ast_data_type(r, lhs))
resolve_access(r, node) == AccessOf(resolve_value(r, node.kids[1]), node)

\* What a name stands for is a new node, which is put into a local variable
\* and not into the list of values.
Lost(r, value) ==
    IF value.t = "identifier" /\ Uses(r, value) # {} THEN [r EXCEPT !.lost = @ \union {value.at}] ELSE r
FieldKnown(r, node, field) ==
    LET type == Last(node.kids)
        struct == IF Len(type.kids) = 0 \/ type.t = "array" THEN find_custom_type(r, "struct", type.v) ELSE 0
    IN  IF ~r.gone /\ struct # 0 /\ find_custom_type_member(r, struct, field.v) = 0
        THEN Amiss(r, "field", node) ELSE r
resolve_struct_initializer(r, node) ==
    FoldLeft(LAMBDA a, field : FieldKnown(Lost(resolve_value(a, field.kids[1]), field.kids[1]), node, field),
             resolve_data_type(SetType(r, node.at, Written(Last(node.kids))), Last(node.kids), node),
             Front(node.kids))

\* Its type is that of its first value.
OneMore(type) == IF type = Gone THEN Gone ELSE [type EXCEPT !.size = @ + 1]
TypeOfElement(r, node, k) ==
    IF k # 1 \/ r.gone THEN r ELSE SetType(r, node.at, OneMore(get_ast_data_type(r, node.kids[k])))
resolve_array_initializer(r, node) ==
    FoldLeftDomain(LAMBDA a, k : TypeOfElement(resolve_value(a, node.kids[k]), node, k),
                   SetType(r, node.at, DataType("void", 1, 0)), node.kids)

check_array_initializer_count(r, node, lhs_type, rhs) ==
    IF rhs.t # "array_initializer" \/ r.gone THEN r
    ELSE IF lhs_type = Gone THEN Vanish(r)
    ELSE IF lhs_type.size = 0 THEN Spelled(r, lhs_type, "array to non-array", node)
    ELSE IF Len(rhs.kids) # lhs_type.size THEN Amiss(r, "array size", node) ELSE r

resolve_values(r, list) == FoldLeft(LAMBDA a, node : resolve_value(a, node), r, list)

resolve_call(r, node) ==
    LET k == find_symbol(r, "function", node.v)
        params == r.syms[k].params
        required == Cardinality({j \in DOMAIN params : Len(params[j].kids) = 1})
        known == Use(r, node, r.syms[k].at)
    IN  resolve_values(
            CASE k = 0 -> Amiss(r, "undefined function", node)
              [] k # 0 /\ required > Len(node.kids) -> Amiss(known, "missing arguments", node)
              [] k # 0 /\ Len(params) < Len(node.kids) -> Amiss(known, "excessive arguments", node)
              [] OTHER -> known,
            node.kids)

resolve_value(r, node) ==
    IF r.gone THEN r
    ELSE CASE node.t \in {"nop", "literal", "bool"} -> r
           [] node.t = "word" /\ node.v \in {"null", "true", "false"} -> r
           [] node.t = "identifier" -> resolve_identifier(r, node)
           [] node.t = "math" -> resolve_math(r, node)
           [] node.t = "call" -> resolve_call(r, node)
           [] node.t = "condition" -> resolve_condition(r, node)
           [] node.t = "index" -> resolve_index(r, node)
           [] node.t \in {"reference", "expression", "unary", "dereference"} -> resolve_value(r, node.kids[1])
           [] node.t = "sizeof" -> IF node.kids[1].t \in {"type", "array"} THEN r ELSE resolve_value(r, node.kids[1])
           [] node.t = "cast" -> resolve_value(r, node.kids[2])
           [] node.t = "access" -> resolve_access(r, node)
           [] node.t = "struct_initializer" -> resolve_struct_initializer(r, node)
           [] node.t = "array_initializer" -> resolve_array_initializer(r, node)
           [] OTHER -> Amiss(r, "invalid value", node)

-----------------------------------------------------------------------------
(* Types of the program. *)

\* A float among the values makes all of them floats.
MembersTyped(r, type, valued) ==
    LET float == \E k \in DOMAIN valued : IsFloat(get_ast_data_type(r, valued[k].kids[2]))
    IN  FoldLeft(LAMBDA a, member : SetType(a, member.at, DataType(IF float THEN "float" ELSE "int", 0, 0)),
                 r, type.members)
resolve_enum_members(r, type) ==
    LET valued == SelectSeq(type.members, LAMBDA member : Len(member.kids) = 2)
    IN  MembersTyped(resolve_values(r, [k \in DOMAIN valued |-> valued[k].kids[2]]), type, valued)

StructMemberType(r, type, member) ==
    LET struct == find_custom_type(r, "struct", r.types[member.at].name)
    IN  IF r.gone \/ r.types[member.at].prim # "custom" THEN r
        ELSE IF struct = 0 THEN Vanish(r)
        ELSE IF r.customs[struct].at = type.at THEN Amiss(r, "member of itself", type) ELSE r
resolve_struct_members(r, type) ==
    FoldLeft(LAMBDA a, member : IF a.gone THEN a
                                ELSE StructMemberType(resolve_data_type(a, member.kids[1], member), type, member),
             r, type.members)

resolve_custom_type(r, type) ==
    IF type.kind = "enum" THEN resolve_enum_members(r, type) ELSE resolve_struct_members(r, type)

-----------------------------------------------------------------------------
(* Statements. *)

RECURSIVE resolve_ast(_, _)
resolve_ast_list(r, list) == FoldLeft(LAMBDA a, node : resolve_ast(a, node), r, list)

DefaultValue(r, param) == IF Len(param.kids) = 1 THEN r ELSE resolve_value(r, param.kids[2])
resolve_parameter(r, param) == DefaultValue(resolve_data_type(r, param.kids[1], param), param)

IsVoid(type) == type.prim = "void" /\ type.ptrs = 0

\* The place of the first function with the name of this one.
FirstOfName(r, node) == r.syms[find_symbol(r, "function", node.v)].at

\* The scope it pushes is that of the first thing in its body, or else of its
\* first parameter.
ScopeOf(node) == node.kids[4].kids \o node.kids[2].kids
EnterFunction(r, node) ==
    LET pushed == IF ScopeOf(node) # <<>> THEN push_scope(r, ScopeOf(node)[1]) ELSE r
    IN  IF FirstOfName(r, node) # node.at THEN Amiss(pushed, "redefined function", node) ELSE pushed
LeaveFunction(r, node) == IF ScopeOf(node) # <<>> THEN pop_scope(r) ELSE r

\* A return is looked for among the function's own statements only.
Returns(r, node) ==
    \/ node.n = 1 \/ IsVoid(r.types[node.at])
    \/ \E k \in DOMAIN node.kids[4].kids : node.kids[4].kids[k].t = "return"
    \/ "ignore_missing_return" \in r.flags[FirstOfName(r, node)]
MustReturn(r, node) == IF Returns(r, node) THEN r ELSE Amiss(r, "missing return", node)
HasBody(r, node) ==
    LET extern == \E decorator \in Range(node.kids[1].kids) : decorator.v = "extern"
    IN  IF node.n = 1 /\ ~extern THEN Amiss(r, "no body", node)
        ELSE IF node.n = 0 /\ extern THEN Amiss(r, "extern body", node) ELSE r
EndOfFunction(r, node) ==
    IF r.gone THEN r
    ELSE HasBody(LeaveFunction(MustReturn(
            resolve_decorators(r, node.kids[1].kids, FirstOfName(r, node)), node), node), node)

resolve_function(r, node) ==
    EndOfFunction(resolve_ast_list(
        FoldLeft(resolve_parameter, resolve_data_type(EnterFunction(r, node), node.kids[3], node), node.kids[2].kids),
        node.kids[4].kids), node)

\* A type to be inferred is that of the value, unless something was wrong.
InferType(r, node) ==
    IF r.types[node.at] = Infer /\ r.errs = <<>> /\ ~r.gone
    THEN SetType(r, node.at, get_ast_data_type(r, node.kids[2])) ELSE r
DeclaredArray(r, node) == check_array_initializer_count(r, node, r.types[node.at], node.kids[2])
DeclaredValue(r, node) ==
    IF Len(node.kids) = 1 THEN r ELSE DeclaredArray(InferType(resolve_value(r, node.kids[2]), node), node)
resolve_declaration(r, node) ==
    LET k == find_symbol(r, "variable", node.v)
        named == IF r.syms[k].at # node.at THEN Amiss(r, "redefined variable", node) ELSE r
    IN  IF k = 0 THEN Vanish(r) ELSE DeclaredValue(resolve_data_type(named, node.kids[1], node), node)

AssignedArray(r, node) ==
    check_array_initializer_count(r, node, get_ast_data_type(r, node.kids[1]), node.kids[2])
resolve_assignment(r, node) == AssignedArray(resolve_values(r, node.kids), node)

resolve_asm(r, node) ==
    LET text == node.kids[1].t = "literal" /\ node.kids[1].v = "text"
    IN  resolve_value(IF text THEN r ELSE Amiss(r, "asm text", node), node.kids[1])

CompoundTypes(r, node) ==
    LET types == {get_ast_data_type(r, node.kids[k]) : k \in 1 .. 2}
    IN  IF Gone \in types THEN Vanish(r)
        ELSE IF ~\E type \in types : IsFloat(type) THEN r
        ELSE Amiss(r, IF node.v = "%" THEN "modulo float" ELSE "bitwise float", node)
Compound(r, node) ==
    IF r.gone \/ node.v \notin {"%", "&", "|", "^", "<<", ">>"} THEN r ELSE CompoundTypes(r, node)
resolve_compound_math(r, node) == Compound(resolve_values(r, node.kids), node)

resolve_return(r, node) ==
    LET functions == {k \in DOMAIN r.syms : r.syms[k].at = node.fn}
        at == node.fn
        value == node.kids # <<>>
        q == CASE functions = {} -> Amiss(r, "return outside", node)
               [] functions # {} /\ ~value /\ ~IsVoid(r.types[at]) /\ "ignore_missing_return" \notin r.flags[at] ->
                    Amiss(r, "missing return value", node)
               [] functions # {} /\ value /\ IsVoid(r.types[at]) -> Amiss(r, "unexpected return value", node)
               [] OTHER -> r
    IN  IF value THEN resolve_value(q, node.kids[1]) ELSE q

LeaveBlock(r) == IF r.gone THEN r ELSE pop_scope(r)
\* A list in the scope of another node.
InScope(r, node, list) == LeaveBlock(resolve_ast_list(push_scope(r, node), list))

Block(r, node, k) ==
    IF r.gone \/ k > Len(node.kids) \/ node.kids[k].kids = <<>> THEN r
    ELSE InScope(r, node.kids[k].kids[1], node.kids[k].kids)
\* A plausible mistake: else is left alone.
resolve_if_only(r, node) == Block(resolve_value(r, node.kids[1]), node, 2)
resolve_if(r, node) == Block(Block(resolve_value(r, node.kids[1]), node, 2), node, 3)

resolve_while(r, node) ==
    LET first == node.t = "do"
        condition == node.kids[IF first THEN 2 ELSE 1]
        body == node.kids[IF first THEN 1 ELSE 2].kids
    IN  InScope(resolve_value(r, condition), node, body)

resolve_for(r, node) ==
    LET iterates == node.kids[1].t \in {"declaration", "assignment"}
        scoped == push_scope(IF iterates THEN r ELSE Amiss(r, "iterator", node.kids[1]), node)
    IN  LeaveBlock(resolve_ast_list(resolve_values(resolve_ast(scoped, node.kids[1]), <<node.kids[2], node.kids[3]>>),
                                    node.kids[4].kids))

Constant(r, node) ==
    IF r.gone THEN r
    ELSE IF find_constant(r, node.v) # 0 THEN Amiss(r, "redefined constant", node)
    ELSE [r EXCEPT !.consts = Append(@, [name |-> node.v, at |-> node.at]),
                   !.types = (node.at :> get_ast_data_type(r, node.kids[1])) @@ @]
resolve_constant(r, node) == Constant(resolve_value(r, node.kids[1]), node)

\* Only constants, and aliases, stand in the braces of a group.
resolve_group_list(r, node) ==
    FoldLeft(LAMBDA a, kid : resolve_ast(IF kid.t \in {"const", "alias"} \/ a.gone THEN a
                                         ELSE Amiss(a, "group list", kid), kid), r, node.kids)

resolve_ast(r, node) ==
    IF r.gone THEN r
    ELSE CASE node.t = "function" -> resolve_function(r, node)
           [] node.t = "declaration" -> resolve_declaration(r, node)
           [] node.t = "assignment" -> resolve_assignment(r, node)
           [] node.t = "asm" -> resolve_asm(r, node)
           [] node.t = "compound" -> resolve_compound_math(r, node)
           [] node.t = "call" -> resolve_call(r, node)
           [] node.t = "return" -> resolve_return(r, node)
           [] node.t = "if" -> resolve_if(r, node)
           [] node.t \in {"while", "do"} -> resolve_while(r, node)
           [] node.t = "for" -> resolve_for(r, node)
           [] node.t = "access" -> resolve_access(r, node)
           [] node.t = "const" -> resolve_constant(r, node)
           [] node.t = "group_list" -> resolve_group_list(r, node)
           [] OTHER -> r
=============================================================================
