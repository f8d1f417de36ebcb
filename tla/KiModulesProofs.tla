--------------------------- MODULE KiModulesProofs ---------------------------
(***************************************************************************)
(* Proofs about modules, for all sets of modules and names and all bounds: *)
(* the types, that a module is parsed and resolved once, that an import    *)
(* leaves a resolved module behind, and that only what was imported is     *)
(* found.                                                                  *)
(***************************************************************************)
EXTENDS KiModules, SequenceTheorems, FiniteSetTheorems, TLAPS

\* What is being resolved is in the table; what is not there has no functions.
TablesAgree ==
    /\ Resolving \subseteq Known
    /\ \A m \in Modules \ Known : defines[m] = {}

\* Each flag and each imported name comes from an import, and imports are between
\* modules of the table.
ImportsRecorded ==
    /\ \A i \in imports : i.into \in Known /\ i.from \in Known
    /\ \A x \in using : \E i \in imports : i.from = x /\ i.use
    /\ \A m \in Modules : \A n \in imported[m] : \E i \in imports : i.into = m /\ i.name = n

ModulesInv ==
    TypeOK /\ EachOnce /\ TablesAgree /\ ImportsRecorded /\ ImportedIsResolved

-----------------------------------------------------------------------------
\* A set of positions has a first one.
LEMMA Least ==
  ASSUME NEW n \in Nat, NEW S \in SUBSET (1..n), S # {}
  PROVE  \E k \in S : \A j \in S : k <= j
<1> DEFINE Upto == {1..k : k \in S}
<1>1. IsWellFoundedOn(StrictSubsetOrdering(1..n), FiniteSubsetsOf(1..n))
  BY FS_StrictSubsetOrderingWellFounded
<1>2. Upto \subseteq FiniteSubsetsOf(1..n) /\ Upto # {}
  <2>1. ASSUME NEW k \in S PROVE 1..k \in FiniteSubsetsOf(1..n)
    <3>1. IsFiniteSet(1..k)
      BY FS_Interval
    <3> QED
      BY <3>1 DEF FiniteSubsetsOf
  <2> QED
    BY <2>1
<1>3. PICK k \in S : \A j \in S : <<1..j, 1..k>> \notin StrictSubsetOrdering(1..n)
  <2> HIDE DEF Upto
  <2>1. \E x \in Upto : \A y \in Upto : <<y, x>> \notin StrictSubsetOrdering(1..n)
    BY <1>1, <1>2, WFMin
  <2> QED
    BY <2>1 DEF Upto
<1>4. ASSUME NEW j \in S, j < k PROVE FALSE
  <2>1. 1..j \subseteq 1..k /\ 1..j # 1..k
    <3>1. k \in 1..k /\ k \notin 1..j
      BY <1>4
    <3> QED
      BY <3>1, <1>4
  <2>2. \A i \in S : 1..i \subseteq 1..n
    OBVIOUS
  <2> QED
    BY <2>1, <2>2, <1>3 DEF StrictSubsetOrdering
<1> QED
  BY <1>4

\* The lookup finds nothing, or a function that it accepts.
LEMMA FindAccepts ==
  ASSUME modules \in Seq(Modules), NEW m, NEW n, NEW flagged, Find(m, n, flagged) # NoModule
  PROVE  Find(m, n, flagged) \in Known /\ Accepts(m, Find(m, n, flagged), n, flagged)
<1> DEFINE found == {k \in 1..Len(modules) : Accepts(m, modules[k], n, flagged)}
<1>1. found # {}
  BY DEF Find
<1>2. \E k \in found : \A j \in found : k <= j
  <2>1. Len(modules) \in Nat /\ found \in SUBSET (1..Len(modules))
    BY LenProperties
  <2> HIDE DEF found
  <2> QED
    BY <1>1, <2>1, Least
<1>3. PICK k \in found : Find(m, n, flagged) = modules[k]
  <2>1. Find(m, n, flagged) = modules[CHOOSE k \in found : \A j \in found : k <= j]
    BY <1>1 DEF Find
  <2> HIDE DEF found
  <2> QED
    BY <1>2, <2>1
<1> QED
  BY <1>3 DEF Known

\* Two stacks with the same modules, in the same order.
SameModules(s, t) ==
    /\ Len(s) = Len(t)
    /\ \A k \in 1..Len(s) : s[k].module = t[k].module

-----------------------------------------------------------------------------
\* Parsing enters one new module, last.
LEMMA ParseEnters ==
  ASSUME TypeOK, NEW x \in Modules, x \notin Known, Parse(x)
  PROVE  /\ modules' \in Seq(Modules)
         /\ Len(modules') = Len(modules) + 1
         /\ \A k \in 1..Len(modules) : modules'[k] = modules[k]
         /\ modules'[Len(modules) + 1] = x
         /\ Known' = Known \union {x}
<1>1. /\ modules \in Seq(Modules) /\ Len(modules) \in Nat
      /\ modules' = Append(modules, x)
  BY LenProperties DEF TypeOK, Parse
<1>2. /\ modules' \in Seq(Modules)
      /\ Len(modules') = Len(modules) + 1
      /\ \A k \in 1..Len(modules) : modules'[k] = modules[k]
      /\ modules'[Len(modules) + 1] = x
  BY <1>1, AppendProperties
<1>3. \A k \in 1..Len(modules') : k \in 1..Len(modules) \/ k = Len(modules) + 1
  BY <1>1, <1>2
<1>4. Known' = Known \union {x}
  <2>1. Known' \subseteq Known \union {x}
    BY <1>2, <1>3 DEF Known
  <2>2. 1..Len(modules) \subseteq 1..Len(modules') /\ Len(modules) + 1 \in 1..Len(modules')
    BY <1>1, <1>2
  <2> QED
    BY <1>2, <2>1, <2>2 DEF Known
<1> QED
  BY <1>2, <1>4

\* Completing an import keeps the types and records the import.
LEMMA CompleteRecords ==
  ASSUME TypeOK, ImportsRecorded, Known' = Known, Known \subseteq Modules,
         NEW m \in Known, NEW x \in Known, NEW use \in BOOLEAN, NEW name \in Names \union {NoName},
         Complete(m, x, use, name)
  PROVE  /\ using' \subseteq Known
         /\ imported' \in [Modules -> SUBSET Names]
         /\ errors' \in BOOLEAN
         /\ imports' \subseteq Import
         /\ ImportsRecorded'
<1> DEFINE new == [into |-> m, from |-> x, use |-> use, name |-> name]
<1>1. new \in Import /\ new.into = m /\ new.from = x /\ new.use = use /\ new.name = name
  BY DEF Import
<1>2. imports' = imports \union {new}
  BY DEF Complete
<1>3. /\ using' \subseteq using \union {x}
      /\ x \in using' => use
  BY DEF Complete
<1>4. /\ imported' \in [Modules -> SUBSET Names]
      /\ \A k \in Modules : \A n \in imported'[k] : n \in imported[k] \/ (k = m /\ n = name)
  <2>1. imported \in [Modules -> SUBSET Names]
    BY DEF TypeOK
  <2>2. CASE imported' = imported
    BY <2>1, <2>2
  <2>3. CASE imported' = [imported EXCEPT ![m] = @ \union {name}] /\ name # NoName
    BY <2>1, <2>3
  <2> QED
    BY <2>2, <2>3 DEF Complete
<1>5. errors' \in BOOLEAN
  BY DEF Complete, TypeOK
<1>6. using' \subseteq Known /\ imports' \subseteq Import
  BY <1>1, <1>2, <1>3 DEF TypeOK
<1>7. ImportsRecorded'
  <2> HIDE DEF new
  <2>1. \A i \in imports' : i.into \in Known /\ i.from \in Known
    BY <1>1, <1>2 DEF ImportsRecorded
  <2>2. ASSUME NEW y \in using' PROVE \E i \in imports' : i.from = y /\ i.use
    <3>1. CASE y = x
      BY <1>1, <1>2, <1>3, <3>1
    <3>2. CASE y # x
      BY <1>2, <1>3, <3>2 DEF ImportsRecorded
    <3> QED
      BY <3>1, <3>2
  <2>3. ASSUME NEW k \in Modules, NEW n \in imported'[k]
        PROVE  \E i \in imports' : i.into = k /\ i.name = n
    <3>1. CASE n \in imported[k]
      BY <1>2, <3>1 DEF ImportsRecorded
    <3>2. CASE k = m /\ n = name
      BY <1>1, <1>2, <3>2
    <3> QED
      BY <1>4, <3>1, <3>2
  <2> QED
    BY <2>1, <2>2, <2>3 DEF ImportsRecorded
<1> QED
  BY <1>4, <1>5, <1>6, <1>7

\* The module on top is one of those being resolved.
LEMMA TopResolving ==
  ASSUME TypeOK, TablesAgree, stack # <<>>
  PROVE  /\ Len(stack) \in Nat \ {0}
         /\ Top \in Frame
         /\ Top.module \in Resolving /\ Top.module \in Known
<1>1. stack \in Seq(Frame) /\ Len(stack) \in Nat \ {0}
  BY EmptySeq DEF TypeOK
<1>2. Len(stack) \in 1..Len(stack) /\ Top \in Frame
  BY <1>1, ElementOfSeq DEF Top
<1> QED
  BY <1>1, <1>2 DEF Top, Resolving, TablesAgree

\* The table holds modules.
LEMMA KnownAreModules ==
  ASSUME modules \in Seq(Modules)
  PROVE  Known \subseteq Modules
BY ElementOfSeq DEF Known

\* An import of a module of the table.
LEMMA ImportKnown ==
  ASSUME ModulesInv, stack # <<>>,
         NEW x \in Known, NEW use \in BOOLEAN, NEW name \in Names \union {NoName},
         DoImport(x, use, name),
         stack' \in Seq(Frame), SameModules(stack, stack'),
         exported' = exported, cyclic' \in BOOLEAN, statements' \in 0..MaxStatements
  PROVE  ModulesInv'
<1> USE DEF ModulesInv
<1>1. /\ Complete(Top.module, x, use, name)
      /\ UNCHANGED <<modules, defines, todo>>
  BY DEF DoImport
<1>2. Known' = Known /\ Known \subseteq Modules
  BY <1>1, KnownAreModules DEF Known, TypeOK
<1>3. /\ Len(stack) \in Nat \ {0}
      /\ Top.module \in Resolving /\ Top.module \in Known
  BY TopResolving
<1>4. Len(stack') = Len(stack) /\ \A k \in 1..Len(stack) : stack'[k].module = stack[k].module
  BY DEF SameModules
<1>5. Resolving' = Resolving
  BY <1>4 DEF Resolving
<1>6. /\ using' \subseteq Known
      /\ imported' \in [Modules -> SUBSET Names]
      /\ errors' \in BOOLEAN
      /\ imports' \subseteq Import
      /\ ImportsRecorded'
  BY <1>1, <1>2, <1>3, CompleteRecords
<1>7. TypeOK'
  BY <1>1, <1>2, <1>6 DEF TypeOK
<1>8. EachOnce'
  BY <1>1, <1>4 DEF EachOnce
<1>9. TablesAgree'
  BY <1>1, <1>2, <1>5 DEF TablesAgree
<1>10. ImportedIsResolved'
  <2> SUFFICES ASSUME NEW i \in imports', i.into \in Resolving, i.from \notin Finished'
               PROVE  \E j, k \in 1..Len(stack) :
                          j <= k /\ stack[j].module = i.from /\ stack[k].module = i.into
    BY <1>4, <1>5, <1>6 DEF ImportedIsResolved, ImportsRecorded
  <2>1. Finished' = Finished
    BY <1>2, <1>5 DEF Finished
  <2>2. CASE i \in imports
    BY <2>1, <2>2 DEF ImportedIsResolved
  <2>3. CASE i = [into |-> Top.module, from |-> x, use |-> use, name |-> name]
    <3>1. x \in Resolving
      BY <2>1, <2>3 DEF Finished
    <3>2. PICK j \in 1..Len(stack) : stack[j].module = x
      BY <3>1 DEF Resolving
    <3>3. Len(stack) \in 1..Len(stack) /\ j <= Len(stack)
      BY <1>3
    <3> QED
      BY <2>3, <3>2, <3>3 DEF Top
  <2> QED
    BY <1>1, <2>2, <2>3 DEF Complete
<1> QED
  BY <1>6, <1>7, <1>8, <1>9, <1>10

\* The first import of a module.
LEMMA ImportNew ==
  ASSUME ModulesInv, stack # <<>>,
         NEW x \in Modules, x \notin Known,
         NEW use \in BOOLEAN, NEW name \in Names \union {NoName},
         DoImport(x, use, name),
         NEW below \in Seq(Frame), SameModules(stack, below),
         stack' = Append(below, Entered(x, use, name)),
         exported' = exported, cyclic' \in BOOLEAN, statements' \in 0..MaxStatements
  PROVE  ModulesInv'
<1> USE DEF ModulesInv
<1>1. Parse(x) /\ UNCHANGED <<using, imported, errors, imports>>
  BY DEF DoImport
<1>2. /\ modules' \in Seq(Modules)
      /\ Len(modules') = Len(modules) + 1
      /\ \A k \in 1..Len(modules) : modules'[k] = modules[k]
      /\ modules'[Len(modules) + 1] = x
      /\ Known' = Known \union {x}
  BY <1>1, ParseEnters
<1>3. Len(modules) \in Nat /\ Len(stack) \in Nat \ {0}
  BY LenProperties, TopResolving DEF TypeOK
<1>4. /\ stack' \in Seq(Frame)
      /\ Len(stack') = Len(stack) + 1
      /\ \A k \in 1..Len(stack) : stack'[k].module = stack[k].module
      /\ stack'[Len(stack) + 1].module = x
  <2>1. Entered(x, use, name) \in Frame /\ Entered(x, use, name).module = x
    BY DEF Entered, Frame
  <2>2. Len(below) = Len(stack) /\ \A k \in 1..Len(stack) : below[k].module = stack[k].module
    BY DEF SameModules
  <2> QED
    BY <2>1, <2>2, AppendProperties
<1>5. Resolving' = Resolving \union {x} /\ x \notin Resolving
  <2>1. \A k \in 1..Len(stack') : k \in 1..Len(stack) \/ k = Len(stack) + 1
    BY <1>3, <1>4
  <2>2. 1..Len(stack) \subseteq 1..Len(stack') /\ Len(stack) + 1 \in 1..Len(stack')
    BY <1>3, <1>4
  <2>3. Resolving' \subseteq Resolving \union {x}
    BY <1>4, <2>1 DEF Resolving
  <2>4. Resolving \union {x} \subseteq Resolving'
    BY <1>4, <2>2 DEF Resolving
  <2> QED
    BY <2>3, <2>4 DEF TablesAgree
<1>6. TypeOK'
  <2>1. PICK fs \in Files : defines' = [defines EXCEPT ![x] = fs] /\ todo' = [todo EXCEPT ![x] = fs]
    BY <1>1 DEF Parse
  <2>2. fs \in SUBSET Names
    BY DEF Files
  <2>3. /\ {defines, exported, todo, imported} \subseteq [Modules -> SUBSET Names]
        /\ \A m \in Modules : exported[m] \subseteq defines[m] /\ todo[m] \subseteq defines[m]
        /\ defines[x] = {}
    BY DEF TypeOK, TablesAgree
  <2>4. {defines', exported', todo', imported'} \subseteq [Modules -> SUBSET Names]
    BY <1>1, <2>1, <2>2, <2>3
  <2>5. \A m \in Modules : exported'[m] \subseteq defines'[m] /\ todo'[m] \subseteq defines'[m]
    BY <2>1, <2>3
  <2> QED
    BY <1>1, <1>2, <1>4, <2>4, <2>5 DEF TypeOK
<1>7. EachOnce'
  <2>1. \A j, k \in 1..Len(modules') : modules'[j] = modules'[k] => j = k
    <3>1. \A k \in 1..Len(modules) : modules[k] # x
      BY DEF Known
    <3> QED
      BY <1>2, <1>3, <3>1 DEF EachOnce
  <2>2. \A j, k \in 1..Len(stack') : stack'[j].module = stack'[k].module => j = k
    <3>1. \A k \in 1..Len(stack) : stack[k].module # x
      BY <1>5 DEF Resolving
    <3> QED
      BY <1>3, <1>4, <3>1 DEF EachOnce
  <2> QED
    BY <2>1, <2>2 DEF EachOnce
<1>8. TablesAgree'
  <2>1. \A m \in Modules \ Known' : defines'[m] = defines[m]
    BY <1>1, <1>2 DEF Parse, TypeOK
  <2> QED
    BY <1>2, <1>5, <2>1 DEF TablesAgree
<1>9. ImportsRecorded'
  BY <1>1, <1>2 DEF ImportsRecorded
<1>10. ImportedIsResolved'
  <2> SUFFICES ASSUME NEW i \in imports, i.into \in Resolving', i.from \notin Finished'
               PROVE  \E j, k \in 1..Len(stack') :
                          j <= k /\ stack'[j].module = i.from /\ stack'[k].module = i.into
    BY <1>1, <1>9 DEF ImportedIsResolved, ImportsRecorded
  <2>1. i.into \in Known /\ i.from \in Known
    BY DEF ImportsRecorded
  <2>2. i.into \in Resolving /\ i.from \notin Finished
    BY <1>2, <1>5, <2>1 DEF Finished
  <2>3. PICK j, k \in 1..Len(stack) :
            j <= k /\ stack[j].module = i.from /\ stack[k].module = i.into
    BY <2>2 DEF ImportedIsResolved
  <2> QED
    BY <1>3, <1>4, <2>3
<1> QED
  BY <1>6, <1>7, <1>8, <1>9, <1>10

-----------------------------------------------------------------------------
\* A sequence of one element.
LEMMA Singleton ==
  ASSUME NEW S, NEW e \in S
  PROVE  <<e>> \in Seq(S) /\ Len(<<e>>) = 1 /\ <<e>>[1] = e
OBVIOUS

LEMMA InitInv == ASSUME Init PROVE ModulesInv
<1> USE ModulesAssumption
<1>1. PICK fs \in Files :
        /\ modules = <<Main>>
        /\ defines = [m \in Modules |-> IF m = Main THEN fs ELSE {}]
        /\ exported = [m \in Modules |-> {}]
        /\ using = {} /\ imported = [m \in Modules |-> {}]
        /\ stack = <<Entered(Main, FALSE, NoName)>>
        /\ todo = defines
        /\ errors = FALSE /\ imports = {} /\ cyclic = FALSE /\ statements = 0
  BY DEF Init
<1>2. fs \in SUBSET Names
  BY DEF Files
<1>3. Entered(Main, FALSE, NoName) \in Frame /\ Entered(Main, FALSE, NoName).module = Main
  BY DEF Entered, Frame
<1>4. /\ modules \in Seq(Modules) /\ Len(modules) = 1 /\ modules[1] = Main
      /\ stack \in Seq(Frame) /\ Len(stack) = 1 /\ stack[1].module = Main
  BY <1>1, <1>3, Singleton
<1>5. Known = {Main} /\ Resolving = {Main}
  BY <1>4 DEF Known, Resolving
<1>6. TypeOK
  <2>1. {defines, exported, todo, imported} \subseteq [Modules -> SUBSET Names]
    BY <1>1, <1>2
  <2>2. \A m \in Modules : exported[m] \subseteq defines[m] /\ todo[m] \subseteq defines[m]
    BY <1>1
  <2>3. statements \in 0..MaxStatements
    BY <1>1
  <2>4. using \subseteq Known /\ imports \subseteq Import /\ errors \in BOOLEAN /\ cyclic \in BOOLEAN
    BY <1>1
  <2> QED
    BY <1>4, <2>1, <2>2, <2>3, <2>4 DEF TypeOK
<1>7. EachOnce
  BY <1>4 DEF EachOnce
<1>8. TablesAgree
  BY <1>1, <1>5 DEF TablesAgree
<1>9. ImportsRecorded /\ ImportedIsResolved
  BY <1>1 DEF ImportsRecorded, ImportedIsResolved
<1> QED
  BY <1>6, <1>7, <1>8, <1>9 DEF ModulesInv

LEMMA AutoImportKeeps == ASSUME ModulesInv, AutoImport PROVE ModulesInv'
<1> DEFINE begun == [stack EXCEPT ![Len(stack)].begun = TRUE]
<1>1. /\ Len(stack) \in Nat \ {0} /\ stack \in Seq(Frame)
      /\ Top \in Frame /\ Top = stack[Len(stack)]
  BY TopResolving DEF AutoImport, ModulesInv, TypeOK, Top
<1>2. begun \in Seq(Frame) /\ SameModules(stack, begun)
  <2> DEFINE new == [Top EXCEPT !.begun = TRUE]
  <2>1. new \in Frame /\ new.module = Top.module
    BY <1>1 DEF Frame
  <2>2. begun = [stack EXCEPT ![Len(stack)] = new]
    BY <1>1
  <2>3. Len(stack) \in 1..Len(stack)
    BY <1>1
  <2> HIDE DEF new
  <2>4. /\ [stack EXCEPT ![Len(stack)] = new] \in Seq(Frame)
        /\ Len([stack EXCEPT ![Len(stack)] = new]) = Len(stack)
        /\ \A j \in 1..Len(stack) :
              [stack EXCEPT ![Len(stack)] = new][j] = IF j = Len(stack) THEN new ELSE stack[j]
    BY <1>1, <2>1, <2>3, ExceptSeq
  <2> HIDE DEF begun
  <2> QED
    BY <1>1, <2>1, <2>2, <2>4 DEF SameModules
<1>3. /\ DoImport(Basic, TRUE, NoName) /\ stack # <<>>
      /\ stack' = IF Basic \in Known THEN begun
                  ELSE Append(begun, Entered(Basic, TRUE, NoName))
      /\ exported' = exported
      /\ cyclic' \in BOOLEAN /\ statements' \in 0..MaxStatements
  BY DEF AutoImport, ModulesInv, TypeOK
<1>4. Basic \in Modules
  BY ModulesAssumption
<1> HIDE DEF begun
<1>5. CASE Basic \in Known
  BY <1>2, <1>3, <1>5, ImportKnown
<1>6. CASE Basic \notin Known
  BY <1>2, <1>3, <1>4, <1>6, ImportNew
<1> QED
  BY <1>5, <1>6

LEMMA ImportStatementKeeps ==
  ASSUME ModulesInv, NEW x \in Modules, NEW use \in BOOLEAN, NEW name \in Names \union {NoName},
         ImportStatement(x, use, name)
  PROVE  ModulesInv'
<1>1. /\ DoImport(x, use, name) /\ stack # <<>>
      /\ stack' = IF x \in Known THEN stack ELSE Append(stack, Entered(x, use, name))
      /\ exported' = exported
      /\ cyclic' \in BOOLEAN
  BY DEF ImportStatement, ModulesInv, TypeOK
<1>2. statements' \in 0..MaxStatements
  BY ModulesAssumption DEF ImportStatement, ModulesInv, TypeOK
<1>3. stack \in Seq(Frame) /\ SameModules(stack, stack)
  BY DEF ModulesInv, TypeOK, SameModules
<1>4. CASE x \in Known
  BY <1>1, <1>2, <1>3, <1>4, ImportKnown
<1>5. CASE x \notin Known
  BY <1>1, <1>2, <1>3, <1>5, ImportNew
<1> QED
  BY <1>4, <1>5

\* Export and definition change neither the tables of modules nor the imports.
LEMMA OthersKept ==
  ASSUME ModulesInv, UNCHANGED <<modules, defines, using, imported, stack, imports>>, TypeOK'
  PROVE  ModulesInv'
<1>1. Known' = Known /\ Resolving' = Resolving
  BY DEF Known, Resolving
<1>2. Finished' = Finished
  BY <1>1 DEF Finished
<1> QED
  BY <1>1, <1>2 DEF ModulesInv, EachOnce, TablesAgree, ImportsRecorded, ImportedIsResolved

LEMMA ExportKeeps ==
  ASSUME ModulesInv, NEW n \in Names, Export(n) PROVE ModulesInv'
<1> DEFINE x == Lookup(Top.module, n)
<1>1. exported' = exported \/ (x # NoModule /\ exported' = [exported EXCEPT ![x] = @ \union {n}])
  BY DEF Export
<1>2. TypeOK /\ Known \subseteq Modules
  BY KnownAreModules DEF ModulesInv, TypeOK
<1>3. ASSUME x # NoModule PROVE x \in Modules /\ n \in defines[x]
  <2>1. x \in Known /\ Accepts(Top.module, x, n, using)
    BY <1>2, <1>3, FindAccepts DEF Lookup, TypeOK
  <2> QED
    BY <1>2, <2>1 DEF Accepts
<1> HIDE DEF x
<1>4. /\ exported' \in [Modules -> SUBSET Names]
      /\ \A m \in Modules : exported'[m] \subseteq defines[m]
  BY <1>1, <1>2, <1>3 DEF TypeOK
<1>5. errors' \in BOOLEAN
  BY <1>2 DEF Export, TypeOK
<1>6. statements' \in 0..MaxStatements
  BY <1>2, ModulesAssumption DEF Export, TypeOK
<1>7. UNCHANGED <<modules, defines, using, imported, stack, todo, imports, cyclic>>
  BY DEF Export
<1>8. Known' = Known
  BY <1>7 DEF Known
<1>9. TypeOK'
  BY <1>2, <1>4, <1>5, <1>6, <1>7, <1>8 DEF TypeOK
<1> QED
  BY <1>7, <1>9, OthersKept

LEMMA DefineKeeps ==
  ASSUME ModulesInv, NEW n \in Names, Define(n) PROVE ModulesInv'
<1>1. TypeOK /\ Top.module \in Modules
  BY TopResolving, KnownAreModules DEF ModulesInv, TypeOK, Define
<1>2. n \in defines[Top.module]
  BY <1>1 DEF Define, TypeOK
<1>3. exported' = exported \/ exported' = [exported EXCEPT ![Top.module] = @ \union {n}]
  BY DEF Define
<1>4. /\ exported' \in [Modules -> SUBSET Names]
      /\ \A m \in Modules : exported'[m] \subseteq defines[m]
  <2>1. PICK x : x = Top.module
    OBVIOUS
  <2>2. /\ exported \in [Modules -> SUBSET Names]
        /\ \A m \in Modules : exported[m] \subseteq defines[m]
    BY <1>1 DEF TypeOK
  <2> QED
    BY <1>1, <1>2, <1>3, <2>1, <2>2
<1>5. /\ todo' \in [Modules -> SUBSET Names]
      /\ \A m \in Modules : todo'[m] \subseteq defines[m]
  BY <1>1 DEF Define, TypeOK
<1>6. errors' \in BOOLEAN
  BY <1>1 DEF Define, TypeOK
<1>7. UNCHANGED <<modules, defines, using, imported, stack, imports, cyclic, statements>>
  BY DEF Define
<1>8. Known' = Known
  BY <1>7 DEF Known
<1>9. TypeOK'
  BY <1>1, <1>4, <1>5, <1>6, <1>7, <1>8 DEF TypeOK
<1> QED
  BY <1>7, <1>9, OthersKept

LEMMA EndModuleKeeps == ASSUME ModulesInv, EndModule PROVE ModulesInv'
<1> USE DEF ModulesInv
<1> DEFINE n == Len(stack)
           x == Top.module
<1>1. /\ n \in Nat \ {0} /\ stack \in Seq(Frame)
      /\ Top = stack[n] /\ Top \in Frame /\ x \in Resolving /\ x \in Known
  BY TopResolving DEF EndModule, TypeOK, Top
<1>2. /\ stack' = Below
      /\ stack' \in Seq(Frame) /\ Len(stack') = n - 1
      /\ \A k \in 1..(n - 1) : stack'[k] = stack[k]
  <2>1. \A k \in 1..(n - 1) : k \in 1..n /\ stack[k] \in Frame
    BY <1>1, ElementOfSeq
  <2>2. /\ Below \in Seq(Frame)
        /\ Len(Below) = IF 1 <= n - 1 THEN (n - 1) - 1 + 1 ELSE 0
        /\ \A k \in 1..((n - 1) - 1 + 1) : Below[k] = stack[1 + k - 1]
    BY <1>1, <2>1, SubSeqProperties DEF Below
  <2> HIDE DEF n
  <2>3. Len(Below) = n - 1
    BY <1>1, <2>2
  <2>4. \A k \in 1..(n - 1) : Below[k] = stack[k]
    BY <1>1, <2>2
  <2>5. stack' = Below
    BY DEF EndModule
  <2> QED
    BY <2>2, <2>3, <2>4, <2>5
<1>3. UNCHANGED <<modules, defines, exported, todo, cyclic, statements>>
  BY DEF EndModule
<1>4. Known' = Known /\ Known \subseteq Modules
  BY <1>3, KnownAreModules DEF Known, TypeOK
<1>5. Resolving' = Resolving \ {x}
  <2>1. \A k \in 1..n : k = n \/ k \in 1..(n - 1)
    BY <1>1
  <2>2. \A k \in 1..(n - 1) : stack[k].module # x
    BY <1>1 DEF EachOnce
  <2>3. Resolving' = {stack[k].module : k \in 1..(n - 1)}
    BY <1>2 DEF Resolving
  <2>4. Resolving = {stack[k].module : k \in 1..n}
    BY DEF Resolving
  <2> HIDE DEF n, x
  <2> QED
    BY <1>1, <2>1, <2>2, <2>3, <2>4
<1>6. CASE Below = <<>>
  <2>1. UNCHANGED <<using, imported, errors, imports>>
    BY <1>6 DEF EndModule
  <2>2. Resolving' = {}
    <3>1. Len(stack') = 0
      BY <1>2, <1>6
    <3> QED
      BY <3>1 DEF Resolving
  <2>3. TypeOK'
    BY <1>2, <1>3, <1>4, <2>1 DEF TypeOK
  <2>4. EachOnce' /\ TablesAgree'
    BY <1>2, <1>3, <1>4, <1>6, <2>2 DEF EachOnce, TablesAgree
  <2>5. ImportsRecorded' /\ ImportedIsResolved'
    BY <1>4, <2>1, <2>2 DEF ImportsRecorded, ImportedIsResolved
  <2> QED
    BY <2>3, <2>4, <2>5
<1>7. CASE Below # <<>>
  <2> DEFINE m == stack[n - 1].module
  <2>1. n - 1 \in 1..(n - 1) /\ n - 1 \in 1..n
    BY <1>1, <1>2, <1>7, EmptySeq
  <2>2. stack[n - 1] \in Frame /\ m \in Resolving /\ m \in Known
    BY <1>1, <2>1, ElementOfSeq DEF Resolving, TablesAgree
  <2>3. Complete(m, x, Top.use, Top.name)
    BY <1>2, <1>7, <2>1 DEF EndModule
  <2>4. Top.use \in BOOLEAN /\ Top.name \in Names \union {NoName}
    BY <1>1 DEF Frame
  <2>5. /\ using' \subseteq Known
        /\ imported' \in [Modules -> SUBSET Names]
        /\ errors' \in BOOLEAN
        /\ imports' \subseteq Import
        /\ ImportsRecorded'
    BY <1>1, <1>4, <2>2, <2>3, <2>4, CompleteRecords
  <2>6. TypeOK'
    BY <1>2, <1>3, <1>4, <2>5 DEF TypeOK
  <2>7. EachOnce'
    BY <1>1, <1>2, <1>3 DEF EachOnce
  <2>8. TablesAgree'
    BY <1>3, <1>4, <1>5 DEF TablesAgree
  <2>9. ImportedIsResolved'
    <3> SUFFICES ASSUME NEW i \in imports', i.into \in Resolving', i.from \notin Finished'
                 PROVE  \E j, k \in 1..(n - 1) :
                            j <= k /\ stack[j].module = i.from /\ stack[k].module = i.into
      BY <1>2, <2>5 DEF ImportedIsResolved, ImportsRecorded
    <3>1. i.from \in Resolving /\ i.from # x /\ i.into \in Resolving /\ i.into # x
      BY <1>4, <1>5, <2>5 DEF Finished, ImportsRecorded
    <3>2. i \in imports
      BY <2>3, <3>1 DEF Complete
    <3>3. PICK j, k \in 1..n : j <= k /\ stack[j].module = i.from /\ stack[k].module = i.into
      BY <3>1, <3>2 DEF ImportedIsResolved, Finished
    <3>4. j # n /\ k # n
      BY <1>1, <3>1, <3>3
    <3> QED
      BY <1>1, <3>3, <3>4
  <2> QED
    BY <2>5, <2>6, <2>7, <2>8, <2>9
<1> QED
  BY <1>6, <1>7

LEMMA NextKeeps == ASSUME ModulesInv, [Next]_vars PROVE ModulesInv'
<1>1. CASE AutoImport
  BY <1>1, AutoImportKeeps
<1>2. ASSUME NEW x \in Modules, NEW use \in BOOLEAN, NEW name \in Names \union {NoName},
             ImportStatement(x, use, name)
      PROVE  ModulesInv'
  BY <1>2, ImportStatementKeeps
<1>3. ASSUME NEW n \in Names, Export(n) PROVE ModulesInv'
  BY <1>3, ExportKeeps
<1>4. ASSUME NEW n \in Names, Define(n) PROVE ModulesInv'
  BY <1>4, DefineKeeps
<1>5. CASE EndModule
  BY <1>5, EndModuleKeeps
<1>6. CASE UNCHANGED vars
  <2>1. TypeOK'
    BY <1>6 DEF ModulesInv, TypeOK, Known, vars
  <2> QED
    BY <1>6, <2>1, OthersKept DEF vars
<1> QED
  BY <1>1, <1>2, <1>3, <1>4, <1>5, <1>6 DEF Next

-----------------------------------------------------------------------------
\* The inductive invariant holds of every program.
THEOREM ModulesInvariant == Spec => []ModulesInv
BY InitInv, NextKeeps, PTL DEF Spec

\* Type correctness: only functions that a file defines are exported or to be resolved.
THEOREM ModulesTypes == Spec => []TypeOK
<1>1. ModulesInv => TypeOK
  BY DEF ModulesInv
<1> QED
  BY <1>1, ModulesInvariant, PTL

\* Every module is parsed once and resolved once, whatever imports what.
THEOREM ModulesEachOnce == Spec => []EachOnce
<1>1. ModulesInv => EachOnce
  BY DEF ModulesInv
<1> QED
  BY <1>1, ModulesInvariant, PTL

\* An import leaves a resolved module behind, or one that waits for the importing one.
THEOREM ModulesImportedIsResolved == Spec => []ImportedIsResolved
<1>1. ModulesInv => ImportedIsResolved
  BY DEF ModulesInv
<1> QED
  BY <1>1, ModulesInvariant, PTL

\* A function of another module is found only through an import of its module with
\* using or of its name.
THEOREM ModulesFoundIsImported == Spec => []FoundIsImported
<1>1. ASSUME ModulesInv PROVE FoundIsImported
  <2> SUFFICES ASSUME NEW m \in Known, NEW n \in Names, Lookup(m, n) \notin {m, NoModule}
               PROVE  \/ \E i \in imports : i.from = Lookup(m, n) /\ i.use
                      \/ \E i \in imports : i.into = m /\ i.name = n
    BY DEF FoundIsImported
  <2>1. modules \in Seq(Modules) /\ m \in Modules
    BY <1>1, KnownAreModules DEF ModulesInv, TypeOK
  <2>2. Accepts(m, Lookup(m, n), n, using)
    BY <2>1, FindAccepts DEF Lookup
  <2>3. Lookup(m, n) \in using \/ n \in imported[m]
    BY <2>2 DEF Accepts
  <2> QED
    BY <1>1, <2>1, <2>3 DEF ModulesInv, ImportsRecorded
<1> QED
  BY <1>1, ModulesInvariant, PTL

=============================================================================
