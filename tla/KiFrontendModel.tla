-------------------------- MODULE KiFrontendModel --------------------------
(***************************************************************************)
(* The programs TLC takes through KiFrontend.                              *)
(***************************************************************************)
EXTENDS KiFrontend

Upto(S, n) == UNION {[1 .. k -> S] : k \in 0 .. n}

-----------------------------------------------------------------------------
(* Values with their trees. *)

Tree(t, v, kids) == [t |-> t, v |-> v, kids |-> kids]
Valued(text, t, v, kids) == [text |-> text, tree |-> Tree(t, v, kids)]
Name == Valued(<<"a">>, "identifier", "a", <<>>)
One == Valued(<<"1">>, "literal", "1", <<>>)

Infix(t, op, a, b) == Valued(a.text \o <<op>> \o b.text, t, "", <<a.tree, Tree("operator", op, <<>>), b.tree>>)
Sum(a, b) == Infix("math", "+", a, b)
Equal(a, b) == Infix("condition", "==", a, b)
Prefixed(t, op, e) == Valued(<<op>> \o e.text, t, op, <<e.tree>>)
Parens(e) == Valued(<<"(">> \o e.text \o <<")">>, "expression", "(", <<e.tree>>)
CallOf(e) == Valued(<<"g", "(">> \o e.text \o <<")">>, "call", "g", <<e.tree>>)
IndexOf(e) == Valued(<<"a", "[">> \o e.text \o <<"]">>, "index", "", <<Name.tree, e.tree>>)
ArrayOf(e) == Valued(<<"[">> \o e.text \o <<"]">>, "array_initializer", "", <<e.tree>>)

Inner == {Name, Sum(Name, One), Equal(Name, One)}
Wrapped == UNION {{Parens(e), CallOf(e), IndexOf(e), ArrayOf(e)} : e \in Inner}
Terms == Wrapped \union {Name, One}
       \union UNION {{Prefixed("unary", "-", e), Prefixed("dereference", "*", e), Prefixed("reference", "&", e)} :
                        e \in Wrapped \union {Name}}
Sums == {Sum(a, b) : a \in Terms, b \in Terms}
Equals == {Equal(a, b) : a \in Terms, b \in Terms}
-----------------------------------------------------------------------------
(* Functions with blocks. *)

Simple == {<<"y", ":", "i32", ";">>, <<"x", ":", "=", "1", ";">>, <<"y", ":", "=", "x", ";">>,
           <<"y", "=", "x", ";">>, <<"x", ":", "const", "1", ";">>, <<"f", "(", "y", ")", ";">>}
Blocks == UNION {{<<"if", "x", "{">> \o s \o <<"}">>,
                  <<"if", "1", "{", "}", "else", "{">> \o s \o <<"}">>,
                  <<"while", "y", "{">> \o s \o <<"}">>,
                  <<"do", "{">> \o s \o <<"}", "while", "x", ";">>,
                  <<"for", "y", ":", "=", "x", "..", "1", "{">> \o s \o <<"}">>} : s \in Simple \union {<<>>}}
Bodies == Simple \union Blocks
Function(body) == <<"f", "(", "x", ":", "i32", ")", "{">> \o body \o <<"}">>

MCFunctions == {Function(s \o t) \o after : s \in Bodies, t \in Bodies,
                    after \in {<<>>, <<"g", "(", ")", "{", "y", "=", "x", ";", "}">>}}
         \union {before \o Function(s) : s \in Bodies,
                    before \in {<<"x", ":", "const", "1", ";">>, <<"y", ":", "i32", ";">>,
                                <<"g", "(", ")", "{", "x", ":", "const", "2", ";", "}">>}}
         \union {Function(<<"g", "(", ")", "{">> \o s \o <<"}">> \o t) : s \in Simple, t \in Simple}

-----------------------------------------------------------------------------
(* Types. *)

Structure(type) == <<"p", ":", "struct", "{", "n", ":">> \o type \o <<";", "}">>
Member == {<<"i32">>, <<"p">>, <<"&", "p">>, <<"q">>, <<"e">>, <<"f64">>}
Enumeration == <<"e", ":", "enum", "{", "n", ",", "m", "=", "1.5", "}">>
Typed == {<<"y", ":", "=", "x", ".", "n", ";">>, <<"x", ".", "m", "=", "1", ";">>,
          <<"y", ":", "=", "e", ".", "m", ";">>,
          <<"y", ":", "=", "e", ".", "x", ";">>, <<"y", ":", "=", "{", ".", "n", "=", "x", "}", ":", "p", ";">>,
          <<"y", ":", "=", "{", ".", "m", "=", "1", "}", ":", "e", ";">>, <<"x", "=", "y", ".", "n", ";">>,
          <<"x", "=", "f", "(", ")", "+", "y", ";">>, <<"x", "=", "g", "(", "y", ")", "+", "1", ";">>,
          <<"y", ":", "i32", "[", "2", "]", "=", "[", "1", ",", "x", "]", ";">>, <<"y", ":", "=", "y", ";">>,
          <<"y", ":", "i32", "[", "m", "]", "=", "[", "1", "]", ";">>, <<"m", ":", "const", "1", ";">>,
          <<"x", "=", "y", "[", "2", "]", ";">>, <<"x", "%", "=", "1.5", ";">>, <<"x", "=", "1.5", "%", "y", ";">>,
          <<"return", "x", ";">>, <<"return", ";">>, <<"y", ":", "=", "f", "(", "x", ")", ";">>}
Parameter == {<<"p">>, <<"e">>, <<"&", "p">>, <<"i32">>, <<"q">>}
Result == {<<>>, <<":", "i32">>, <<":", "e">>}
Typing(type, body, result) ==
    Enumeration \o <<"f", "(", "x", ":">> \o type \o <<")">> \o result \o <<"{">> \o body \o <<"}">>

MCTypes == {Structure(type) \o Typing(<<"p">>, s, <<>>) : type \in Member, s \in Typed}
     \union {Typing(type, s \o t, <<>>) \o Structure(<<"i32">>) : type \in Parameter, s \in Typed, t \in Typed}
     \union {Typing(<<"i32">>, s, result) : s \in Typed, result \in Result}

-----------------------------------------------------------------------------
(* Decorators and groups. *)

Headings == {<<>>, <<"@", "extern">>, <<"@", "a">>, <<"@", "ignore_missing_return">>, <<"#", "z">>,
            <<"@", "packed", "#", "z">>, <<"#", "z", "@", "extern">>}
Headed == {<<"f", "(", ")", ";">>, <<"f", "(", "x", ":", "i32", ")", ":", "i32", "{", "}">>,
           <<"p", ":", "struct", "{", "n", ":", "i32", ";", "}">>, Enumeration, <<"y", ":", "i32", ";">>,
           <<"x", ":", "const", "1", ";">>}
Grouped == {<<"#", "z", "{">> \o s \o <<"}">> : s \in Simple}

MCHeaded == {heading \o headed \o after : heading \in Headings, headed \in Headed,
                after \in {<<>>} \union {Function(s) : s \in Simple}}
      \union {grouped \o Function(s) : grouped \in Grouped, s \in Simple}

-----------------------------------------------------------------------------
(* All sequences of a few tokens, up to a length. *)

MCTokens ==
    {Upto({"a", ":", "=", "1", "&", "[", "]"}, 5),
     Upto({"a", "(", ")", "{", "}", ";", ":", ","}, 4),
     Upto({"a", "i32", "(", ")", "{", "}", "if", "else", "while", "do"}, 4),
     Upto({"a", ".", "==", "&&", "-", "*", "+", "!", "["}, 4),
     Upto({"a", "export", "import", "from", "as", "using", ".", ","}, 4),
     Upto({"a", "@", "#", "(", ")", "{", "}", ":"}, 4),
     {<<"for">> \o text \o <<"{", "}">> : text \in Upto({"a", "=", "rev", "..", "step"}, 5)}}

MCInitializers == {MCTypes}
MCNone == {}
MCPrograms == MCTokens \union {MCFunctions, MCTypes, MCHeaded}
MCValues == {Terms, Sums, Equals}
=============================================================================
