------------------------------ MODULE KiModules ------------------------------
(***************************************************************************)
(* Modules: import, export and the lookup of functions (resolve_import,    *)
(* resolve_export, resolve_function and resolve_module_access of           *)
(* resolver.c, the module and the symbol table of context.c).              *)
(*                                                                         *)
(* The first import of a module parses its file, which enters all its      *)
(* functions in the symbol table, and resolves its statements before the   *)
(* importing statement goes on.  Modules may import each other.  A module  *)
(* is known by its name alone.                                             *)
(*                                                                         *)
(* A module is resolved once, so what its file contains is chosen when it  *)
(* is read: its functions when it is parsed, each statement when its turn  *)
(* comes.  A call changes nothing here: what it would be resolved to is    *)
(* the operator Lookup, or Access for module.function().                   *)
(***************************************************************************)
EXTENDS Integers, Sequences, FiniteSets

CONSTANTS
    Modules,        \* the modules there are files of
    Main,           \* the file to compile
    Basic,          \* the standard library, imported by every module
    Names,          \* names of functions
    Entry,          \* entrypoint_function
    NoName,         \* no function
    NoModule,       \* no module
    MaxFunctions,   \* bound: functions of a file
    MaxStatements   \* bound: import and export statements of the program

ASSUME ModulesAssumption ==
    /\ Main \in Modules /\ Basic \in Modules
    /\ NoName \notin Names /\ NoModule \notin Modules
    /\ MaxFunctions \in Nat /\ MaxStatements \in Nat

VARIABLES
    modules,    \* the module table, in the order of parsing
    defines,    \* the functions in each module's file
    exported,   \* those of them that are exported
    using,      \* the modules with using_all_symbols
    imported,   \* imported_identifiers of each module
    stack,      \* the modules being resolved; each with the import that waits for it
    todo,       \* the definitions of each module that are not resolved yet
    errors,     \* the error count is not zero
    imports,    \* the imports resolved so far: importer, imported, how
    cyclic,     \* a module imported one that was being resolved
    statements  \* import and export statements so far

vars == <<modules, defines, exported, using, imported, stack, todo, errors,
          imports, cyclic, statements>>

Frame == [module : Modules, begun : BOOLEAN, use : BOOLEAN, name : Names \union {NoName}]
Import == [into : Modules, from : Modules, use : BOOLEAN, name : Names \union {NoName}]

\* A plausible mistake: a module is entered in the table when it is finished.
KnownWhenFinished ==
    {modules[k] : k \in 1..Len(modules)} \ {stack[k].module : k \in 1..Len(stack)}

Known == {modules[k] : k \in 1..Len(modules)}
Resolving == {stack[k].module : k \in 1..Len(stack)}
Finished == Known \ Resolving

TypeOK ==
    /\ modules \in Seq(Modules)
    /\ {defines, exported, todo, imported} \subseteq [Modules -> SUBSET Names]
    /\ \A m \in Modules : exported[m] \subseteq defines[m] /\ todo[m] \subseteq defines[m]
    /\ using \subseteq Known
    /\ stack \in Seq(Frame)
    /\ errors \in BOOLEAN /\ cyclic \in BOOLEAN /\ statements \in 0..MaxStatements
    /\ imports \subseteq Import

-----------------------------------------------------------------------------
(***************************************************************************)
(* The lookup of a function.                                               *)
(***************************************************************************)

\* A plausible mistake: whatever is exported is found.
AcceptsExported(m, x, n, flagged) ==
    /\ n \in defines[x]
    /\ x = m \/ n \in exported[x]

\* find_symbol accepts the function n of module x in module m.
Accepts(m, x, n, flagged) ==
    /\ n \in defines[x]
    /\ x = m \/ (n \in exported[x] /\ (x \in flagged \/ n \in imported[m]))

\* find_symbol: the first in the order of parsing.
Find(m, n, flagged) ==
    LET found == {k \in 1..Len(modules) : Accepts(m, modules[k], n, flagged)}
    IN  IF found = {} THEN NoModule
        ELSE modules[CHOOSE k \in found : \A j \in found : k <= j]

Lookup(m, n) == Find(m, n, using)

\* A call x.n() in module m: the function of x, if it is exported and, once m has
\* imported anything by name, was imported by name; else a plain call in m.
Access(m, x, n) ==
    LET found == Lookup(x, n)
    IN  IF /\ found # NoModule
           /\ n \in exported[found]
           /\ imported[m] = {} \/ n \in imported[m]
        THEN found ELSE Lookup(m, n)

-----------------------------------------------------------------------------
Top == stack[Len(stack)]
Below == SubSeq(stack, 1, Len(stack) - 1)

\* The functions a file may have.
Files == {fs \in SUBSET Names : Cardinality(fs) <= MaxFunctions}

\* A module to resolve, and the import that goes on after it.
Entered(x, use, name) == [module |-> x, begun |-> FALSE, use |-> use, name |-> name]

\* initialize_root and parse_root: a new module, with the functions of its file.
Parse(x) ==
    \E fs \in Files :
        /\ modules' = Append(modules, x)
        /\ defines' = [defines EXCEPT ![x] = fs]
        /\ todo' = [todo EXCEPT ![x] = fs]

Init ==
    \E fs \in Files :
        /\ modules = <<Main>>
        /\ defines = [m \in Modules |-> IF m = Main THEN fs ELSE {}]
        /\ exported = [m \in Modules |-> {}]
        /\ using = {} /\ imported = [m \in Modules |-> {}]
        /\ stack = <<Entered(Main, FALSE, NoName)>>
        /\ todo = defines
        /\ errors = FALSE /\ imports = {} /\ cyclic = FALSE /\ statements = 0

\* The rest of resolve_import once module x is there: its flag is that of the
\* latest import, and a name is imported if it means a function of x in x.
Complete(m, x, use, name) ==
    LET flagged == IF use THEN using \union {x} ELSE using \ {x}
        found   == name = NoName \/ Find(x, name, flagged) = x
    IN  /\ using' = flagged
        /\ imported' = IF found /\ name # NoName
                       THEN [imported EXCEPT ![m] = @ \union {name}] ELSE imported
        /\ errors' = (errors \/ ~found)
        /\ imports' = imports \union {[into |-> m, from |-> x, use |-> use, name |-> name]}

\* A plausible mistake: a module that is known already is not looked at again.
DoImportOnce(x, use, name) ==
    IF x \in Known
    THEN UNCHANGED <<modules, defines, todo, using, imported, errors>>
         /\ imports' = imports \union {[into |-> Top.module, from |-> x, use |-> use, name |-> name]}
    ELSE /\ Parse(x)
         /\ UNCHANGED <<using, imported, errors, imports>>

\* Another: the import is completed when the file is parsed.
DoImportEarly(x, use, name) ==
    /\ Complete(Top.module, x, use, name)
    /\ IF x \in Known THEN UNCHANGED <<modules, defines, todo>> ELSE Parse(x)

\* resolve_import in the module on top.
DoImport(x, use, name) ==
    IF x \in Known
    THEN /\ Complete(Top.module, x, use, name)
         /\ UNCHANGED <<modules, defines, todo>>
    ELSE /\ Parse(x)
         /\ UNCHANGED <<using, imported, errors, imports>>

\* A plausible mistake: the import waits for a module that is being resolved.
AutoImportWaits ==
    /\ stack # <<>> /\ ~Top.begun /\ Basic \notin Resolving
    /\ DoImport(Basic, TRUE, NoName)
    /\ LET begun == [stack EXCEPT ![Len(stack)].begun = TRUE]
       IN  stack' = IF Basic \in Known THEN begun
                    ELSE Append(begun, Entered(Basic, TRUE, NoName))
    /\ UNCHANGED <<exported, cyclic, statements>>

\* The import of the standard library that import_builtin_libraries puts first.
AutoImport ==
    /\ stack # <<>> /\ ~Top.begun
    /\ DoImport(Basic, TRUE, NoName)
    /\ LET begun == [stack EXCEPT ![Len(stack)].begun = TRUE]
       IN  stack' = IF Basic \in Known THEN begun
                    ELSE Append(begun, Entered(Basic, TRUE, NoName))
    /\ UNCHANGED <<exported, cyclic, statements>>

\* An import, using or from statement.
ImportStatement(x, use, name) ==
    /\ stack # <<>> /\ Top.begun /\ statements < MaxStatements
    /\ use => name = NoName
    /\ DoImport(x, use, name)
    /\ stack' = IF x \in Known THEN stack ELSE Append(stack, Entered(x, use, name))
    /\ cyclic' = (cyclic \/ x \in Resolving)
    /\ statements' = statements + 1
    /\ UNCHANGED exported

\* A plausible mistake: the name is exported from here, whatever it means.
ExportHere(n) ==
    /\ stack # <<>> /\ Top.begun /\ statements < MaxStatements
    /\ exported' = [exported EXCEPT ![Top.module] = @ \union {n}]
    /\ statements' = statements + 1
    /\ UNCHANGED <<modules, defines, using, imported, stack, todo, errors, imports, cyclic>>

\* export_identifier: the function that the name means here.
Export(n) ==
    /\ stack # <<>> /\ Top.begun /\ statements < MaxStatements
    /\ LET x == Lookup(Top.module, n)
       IN  IF x = NoModule THEN errors' = TRUE /\ UNCHANGED exported
           ELSE exported' = [exported EXCEPT ![x] = @ \union {n}] /\ UNCHANGED errors
    /\ statements' = statements + 1
    /\ UNCHANGED <<modules, defines, using, imported, stack, todo, imports, cyclic>>

\* A plausible mistake: a definition is not compared with what the name means.
DefineUnchecked(n) ==
    /\ stack # <<>> /\ Top.begun /\ n \in todo[Top.module]
    /\ exported' = IF n = Entry THEN [exported EXCEPT ![Top.module] = @ \union {n}] ELSE exported
    /\ todo' = [todo EXCEPT ![Top.module] = @ \ {n}]
    /\ UNCHANGED <<modules, defines, using, imported, stack, errors, imports, cyclic, statements>>

\* resolve_function: the name must mean the function defined here.
Define(n) ==
    /\ stack # <<>> /\ Top.begun /\ n \in todo[Top.module]
    /\ LET own == Lookup(Top.module, n) = Top.module
       IN  /\ errors' = (errors \/ ~own)
           /\ exported' = IF own /\ n = Entry
                          THEN [exported EXCEPT ![Top.module] = @ \union {n}] ELSE exported
    /\ todo' = [todo EXCEPT ![Top.module] = @ \ {n}]
    /\ UNCHANGED <<modules, defines, using, imported, stack, imports, cyclic, statements>>

\* The end of a file, and the rest of the import that waited for it.
EndModule ==
    /\ stack # <<>> /\ Top.begun /\ todo[Top.module] = {}
    /\ stack' = Below
    /\ IF Below = <<>> THEN UNCHANGED <<using, imported, errors, imports>>
       ELSE Complete(Below[Len(Below)].module, Top.module, Top.use, Top.name)
    /\ UNCHANGED <<modules, defines, exported, todo, cyclic, statements>>

Next ==
    \/ AutoImport
    \/ \E x \in Modules, use \in BOOLEAN, name \in Names \union {NoName} :
          ImportStatement(x, use, name)
    \/ \E n \in Names : Export(n) \/ Define(n)
    \/ EndModule

\* The compiler goes on as long as there is something to resolve.
Spec == Init /\ [][Next]_vars /\ WF_vars(Next)

-----------------------------------------------------------------------------
(***************************************************************************)
(* Which programs are resolved as one expects.                             *)
(***************************************************************************)

\* No name is defined in two modules.
Unique == \A x, y \in Known : x # y => defines[x] \intersect defines[y] = {}

\* No module is imported with using in one place and without in another.
Mixed(x) == \E i, j \in imports : i.from = x /\ j.from = x /\ i.use # j.use

\* Modules are imported as a whole only.
UsingOnly == \A i \in imports : i.use

-----------------------------------------------------------------------------
(***************************************************************************)
(* Properties.                                                             *)
(***************************************************************************)

\* A module is parsed once and resolved once, also when modules import each other.
EachOnce ==
    /\ \A j, k \in 1..Len(modules) : modules[j] = modules[k] => j = k
    /\ \A j, k \in 1..Len(stack) : stack[j].module = stack[k].module => j = k

\* Resolution ends, whatever imports what.
ResolutionEnds == <>[](stack = <<>>)

\* When a module goes on after an import, the module it imported is finished, or
\* is one of those that wait below it.
ImportedIsResolved ==
    \A i \in imports : i.from \in Known /\ (i.into \in Resolving =>
        \/ i.from \in Finished
        \/ \E j, k \in 1..Len(stack) : j <= k /\ stack[j].module = i.from /\ stack[k].module = i.into)

\* What a module imported and the imported one exports is found there, if names
\* are unique and no other module imports that one in another way.
ImportedIsFound ==
    Unique => \A i \in imports : ~Mixed(i.from) => \A n \in exported[i.from] :
        /\ i.use \/ n \in imported[i.into] => Lookup(i.into, n) = i.from
        /\ imported[i.into] = {} => Access(i.into, i.from, n) = i.from

\* A function of another module is found only if it was imported by name here, or
\* some module imported all of that one with using.
FoundIsImported ==
    \A m \in Known, n \in Names :
        LET x == Lookup(m, n)
        IN  x \notin {m, NoModule} =>
                \/ \E i \in imports : i.from = x /\ i.use
                \/ \E i \in imports : i.into = m /\ i.name = n

\* In a program without errors that imports with using only and has no cyclic
\* imports, a function that a module defines is what its name means there from its
\* definition on: an earlier function of that name would have been preferred, and
\* this is what the error "Redefinition of function" is for.
OwnIsMeant ==
    ~errors /\ UsingOnly /\ ~cyclic =>
        \A m \in Resolving : \A n \in defines[m] \ todo[m] : Lookup(m, n) = m

\* Every Ki file imports the standard library automatically (guide): what it
\* exports is found in every module that has got beyond that import, in a program
\* without errors.
StandardLibraryFound ==
    Unique /\ ~errors => \A k \in 1..Len(stack) : stack[k].begun /\ Basic \in Finished =>
        \A n \in exported[Basic] : Lookup(stack[k].module, n) = Basic
=============================================================================
