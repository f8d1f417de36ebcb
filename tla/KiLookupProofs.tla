---------------------------- MODULE KiLookupProofs ----------------------------
(***************************************************************************)
(* Proofs about the lookup of functions, for all sets of modules and names *)
(* and all bounds: what was imported and is exported is found, and what a  *)
(* module defines is what its name means there.                            *)
(***************************************************************************)
EXTENDS KiModulesProofs

Position == 1..Len(modules)
Depth == 1..Len(stack)

\* A module waits for modules that were parsed after it, each of which has begun
\* but for the last; the first is the main module.
StackInOrder ==
    /\ \A j, k \in Depth : \A p, q \in Position :
          j < k /\ modules[p] = stack[j].module /\ modules[q] = stack[k].module => p < q
    /\ \A k \in Depth : k < Len(stack) => stack[k].begun
    /\ stack # <<>> => stack[1].module = Main

\* A module is not imported by name and with using at once.
NamesWithoutUsing ==
    /\ \A i \in imports : i.use => i.name = NoName
    /\ \A k \in Depth : stack[k].use => stack[k].name = NoName

\* A module that was imported with using has its flag, unless another import of it
\* took the flag away.
FlagsLast == \A i \in imports : i.use => i.from \in using \/ Mixed(i.from)

\* A module that is finished was imported, and the standard library was imported by
\* itself once it has begun.
FinishedImported ==
    /\ \A x \in Finished : x # Main => \E i \in imports : i.from = x
    /\ \A k \in Depth : stack[k].begun /\ stack[k].module = Basic => \E i \in imports : i.from = Basic

\* No module parsed before m offers a function of the name of one that m has defined.
NothingBefore ==
    ~errors /\ UsingOnly /\ ~cyclic =>
        \A p, q \in Position : p < q /\ modules[q] \in Resolving =>
            \A n \in defines[modules[q]] \ todo[modules[q]] :
                ~(n \in exported[modules[p]] /\ modules[p] \in using)

LookupInv ==
    /\ ModulesInv
    /\ StackInOrder /\ NamesWithoutUsing /\ FlagsLast /\ FinishedImported /\ NothingBefore
-----------------------------------------------------------------------------
\* If all imports are with using, what was imported has its flag.
LEMMA ImportedFlagged ==
  ASSUME TypeOK, FlagsLast, UsingOnly, NEW i \in imports
  PROVE  i.from \in using
<1>1. \A j \in imports : j.use = TRUE
  BY DEF TypeOK, Import, UsingOnly
<1> QED
  BY <1>1 DEF FlagsLast, Mixed

\* The module on top was parsed after all others that are being resolved.
LEMMA TopIsLast ==
  ASSUME LookupInv, stack # <<>>,
         NEW p \in Position, NEW q \in Position, p < q, modules[q] \in Resolving
  PROVE  modules[p] # Top.module
<1>1. Len(stack) \in Nat \ {0} /\ Top = stack[Len(stack)] /\ Len(modules) \in Nat
  BY TopResolving, LenProperties DEF LookupInv, ModulesInv, TypeOK, Top
<1>2. PICK j \in Depth : stack[j].module = modules[q]
  BY DEF Resolving, Depth
<1>3. SUFFICES ASSUME modules[p] = Top.module PROVE FALSE
  OBVIOUS
<1>4. CASE j = Len(stack)
  BY <1>1, <1>2, <1>3, <1>4 DEF LookupInv, ModulesInv, EachOnce, Position
<1>5. CASE j # Len(stack)
  <2>1. j < Len(stack) /\ Len(stack) \in Depth
    BY <1>1, <1>5 DEF Depth
  <2>2. q < p
    BY <1>1, <1>2, <1>3, <2>1 DEF LookupInv, StackInOrder
  <2> QED
    BY <2>2 DEF Position
<1> QED
  BY <1>4, <1>5

\* What the rest of an import leaves of the flags.
LEMMA CompleteFlags ==
  ASSUME FlagsLast, \A i \in imports : i.use => i.name = NoName,
         NEW m, NEW x, NEW use \in BOOLEAN, NEW name, use => name = NoName,
         Complete(m, x, use, name)
  PROVE  /\ FlagsLast'
         /\ \A i \in imports' : i.use => i.name = NoName
         /\ imports \subseteq imports'
         /\ \E i \in imports' : i.from = x
         /\ UsingOnly' => UsingOnly /\ using' = using \union {x}
         /\ errors => errors'
<1> DEFINE new == [into |-> m, from |-> x, use |-> use, name |-> name]
<1>1. imports' = imports \union {new} /\ new.from = x /\ new.use = use /\ new.name = name
  BY DEF Complete
<1>2. using' = IF use THEN using \union {x} ELSE using \ {x}
  BY DEF Complete
<1> HIDE DEF new
<1>3. FlagsLast'
  <2> SUFFICES ASSUME NEW i \in imports', i.use PROVE i.from \in using' \/ Mixed(i.from)'
    BY DEF FlagsLast
  <2>1. CASE i.from = x
    BY <1>1, <1>2, <2>1 DEF Mixed
  <2>2. CASE i.from # x
    <3>1. i \in imports
      BY <1>1, <2>2
    <3>2. i.from \in using \/ Mixed(i.from)
      BY <3>1 DEF FlagsLast
    <3>3. Mixed(i.from) => Mixed(i.from)'
      BY <1>1 DEF Mixed
    <3> QED
      BY <1>2, <2>2, <3>2, <3>3
  <2> QED
    BY <2>1, <2>2
<1>4. UsingOnly' => UsingOnly /\ using' = using \union {x}
  BY <1>1, <1>2 DEF UsingOnly
<1> QED
  BY <1>1, <1>3, <1>4 DEF Complete

\* If nothing is imported by name no name is imported.
LEMMA NoNames ==
  ASSUME ModulesInv, UsingOnly, NamesWithoutUsing, NEW m \in Modules
  PROVE  imported[m] = {}
<1>1. ASSUME NEW n \in imported[m] PROVE FALSE
  <2>1. PICK i \in imports : i.into = m /\ i.name = n
    BY DEF ModulesInv, ImportsRecorded
  <2>2. i.name = NoName
    BY DEF UsingOnly, NamesWithoutUsing
  <2>3. n \in Names
    BY DEF ModulesInv, TypeOK
  <2> QED
    BY <2>1, <2>2, <2>3, ModulesAssumption
<1> QED
  BY <1>1
-----------------------------------------------------------------------------
\* An import of a module of the table that has its flag already, is the one on top,
\* or makes a cycle.
LEMMA LookupImportKnown ==
  ASSUME LookupInv, ModulesInv', stack # <<>>,
         NEW x \in Known, NEW use \in BOOLEAN, NEW name \in Names \union {NoName},
         use => name = NoName,
         DoImport(x, use, name), exported' = exported, cyclic => cyclic',
         UsingOnly /\ ~cyclic' => x \in using \/ x = Top.module,
         SameModules(stack, stack'),
         \A k \in Depth : /\ stack'[k].use => stack'[k].name = NoName
                          /\ k < Len(stack) => stack'[k].begun
                          /\ stack'[k].begun /\ stack[k].module = Basic =>
                                 stack[k].begun \/ x = Basic
  PROVE  LookupInv'
<1> USE DEF LookupInv
<1>1. /\ Complete(Top.module, x, use, name)
      /\ UNCHANGED <<modules, defines, todo>>
  BY DEF DoImport
<1>2. /\ FlagsLast'
      /\ \A i \in imports' : i.use => i.name = NoName
      /\ imports \subseteq imports'
      /\ \E i \in imports' : i.from = x
      /\ UsingOnly' => UsingOnly /\ using' = using \union {x}
      /\ errors => errors'
  BY <1>1, CompleteFlags DEF NamesWithoutUsing
<1>3. /\ Len(stack') = Len(stack) /\ \A k \in Depth : stack'[k].module = stack[k].module
      /\ Depth' = Depth /\ Position' = Position
  BY <1>1 DEF SameModules, Depth, Position
<1>4. Resolving' = Resolving /\ Finished' = Finished
  <2>1. Resolving' = Resolving
    BY <1>3 DEF Resolving, Depth
  <2> QED
    BY <1>1, <2>1 DEF Finished, Known
<1>5. StackInOrder'
  <2>1. \A k \in Depth : k < Len(stack) => stack'[k].begun
    OBVIOUS
  <2>2. Len(stack) \in Nat \ {0} /\ stack'[1].module = Main
    <3>1. Len(stack) \in Nat \ {0}
      BY TopResolving DEF ModulesInv
    <3> QED
      BY <1>3, <3>1 DEF StackInOrder, Depth
  <2> QED
    BY <1>1, <1>3, <2>1, <2>2 DEF StackInOrder
<1>6. NamesWithoutUsing'
  BY <1>2, <1>3 DEF NamesWithoutUsing
<1>7. FinishedImported'
  BY <1>2, <1>3, <1>4 DEF FinishedImported
<1>8. NothingBefore'
  <2> SUFFICES ASSUME ~errors', UsingOnly', ~cyclic',
                      NEW p \in Position, NEW q \in Position, p < q, modules[q] \in Resolving,
                      NEW n \in defines[modules[q]] \ todo[modules[q]],
                      n \in exported[modules[p]], modules[p] \in using'
               PROVE  FALSE
    BY <1>1, <1>3, <1>4 DEF NothingBefore
  <2>1. ~errors /\ UsingOnly /\ ~cyclic /\ using' = using \union {x}
    BY <1>2
  <2>2. modules[p] \in using
    BY <2>1, TopIsLast
  <2> QED
    BY <2>1, <2>2 DEF NothingBefore
<1> QED
  BY <1>2, <1>5, <1>6, <1>7, <1>8

\* The first import of a module.
LEMMA LookupImportNew ==
  ASSUME LookupInv, ModulesInv', stack # <<>>,
         NEW x \in Modules, x \notin Known,
         NEW use \in BOOLEAN, NEW name \in Names \union {NoName}, use => name = NoName,
         DoImport(x, use, name), exported' = exported, cyclic => cyclic',
         NEW below \in Seq(Frame), SameModules(stack, below),
         stack' = Append(below, Entered(x, use, name)),
         \A k \in Depth : /\ below[k].use => below[k].name = NoName
                          /\ below[k].begun
                          /\ below[k].module = Basic => stack[k].begun \/ x = Basic
  PROVE  LookupInv'
<1> USE DEF LookupInv
<1>1. Parse(x) /\ UNCHANGED <<using, imported, errors, imports>>
  BY DEF DoImport
<1>2. /\ Len(modules') = Len(modules) + 1
      /\ \A k \in Position : modules'[k] = modules[k] /\ modules[k] # x
      /\ modules'[Len(modules) + 1] = x
      /\ Known' = Known \union {x}
  BY <1>1, ParseEnters DEF ModulesInv, Position, Known
<1>3. Len(modules) \in Nat /\ Len(stack) \in Nat \ {0}
  BY LenProperties, TopResolving DEF ModulesInv, TypeOK
<1>4. /\ Len(stack') = Len(stack) + 1
      /\ \A k \in Depth : stack'[k] = below[k] /\ stack'[k].module = stack[k].module
                          /\ stack[k].module # x /\ stack[k].module \in Known
      /\ stack'[Len(stack) + 1] = Entered(x, use, name)
  <2>1. Len(below) = Len(stack) /\ \A k \in Depth : below[k].module = stack[k].module
    BY DEF SameModules, Depth
  <2>2. \A k \in Depth : stack[k].module \in Known
    BY DEF ModulesInv, TablesAgree, Resolving, Depth
  <2>3. Entered(x, use, name) \in Frame
    BY DEF Entered, Frame
  <2> QED
    BY <2>1, <2>2, <2>3, AppendProperties DEF Depth
<1>5. /\ \A k \in Depth' : k \in Depth \/ k = Len(stack) + 1
      /\ \A k \in Position' : k \in Position \/ k = Len(modules) + 1
      /\ \A k \in Depth : k \in Nat /\ k <= Len(stack)
      /\ \A k \in Position : k \in Nat /\ k <= Len(modules)
  BY <1>2, <1>3, <1>4 DEF Depth, Position
<1> DEFINE new == stack'[Len(stack) + 1]
<1>a. new.module = x /\ new.begun = FALSE /\ new.use = use /\ new.name = name
  BY <1>4 DEF Entered
<1> HIDE DEF new
<1>6. Resolving' = Resolving \union {x} /\ Finished' = Finished
  <2>1. 1..Len(stack) \subseteq 1..Len(stack') /\ Len(stack) + 1 \in 1..Len(stack')
    BY <1>3, <1>4
  <2>2. Entered(x, use, name).module = x
    BY DEF Entered
  <2>3. Resolving' \subseteq Resolving \union {x}
    BY <1>4, <1>5, <2>2 DEF Resolving, Depth
  <2>4. Resolving \union {x} \subseteq Resolving'
    BY <1>4, <2>1, <2>2 DEF Resolving, Depth
  <2> QED
    BY <1>2, <2>3, <2>4 DEF Finished
<1>7. StackInOrder'
  <2>1. ASSUME NEW j \in Depth', NEW k \in Depth', NEW p \in Position', NEW q \in Position', j < k,
               modules'[p] = stack'[j].module, modules'[q] = stack'[k].module
        PROVE  p < q
    <3>1. j \in Depth
      BY <1>3, <1>5, <2>1
    <3>2. p \in Position
      BY <1>2, <1>4, <1>5, <2>1, <3>1
    <3>3. CASE k \in Depth
      <4>1. q \in Position
        BY <1>2, <1>4, <1>5, <2>1, <3>3
      <4>2. modules[p] = stack[j].module
        BY <1>2, <1>4, <2>1, <3>1, <3>2
      <4>3. modules[q] = stack[k].module
        BY <1>2, <1>4, <2>1, <3>3, <4>1
      <4> QED
        BY <2>1, <3>1, <3>2, <3>3, <4>1, <4>2, <4>3 DEF StackInOrder
    <3>4. CASE k = Len(stack) + 1
      <4>1. modules'[q] = x
        BY <1>a, <2>1, <3>4 DEF new
      <4>2. q = Len(modules) + 1
        BY <1>2, <1>5, <4>1
      <4> QED
        BY <1>3, <1>5, <3>2, <4>2 DEF Position
    <3> QED
      BY <1>5, <3>3, <3>4
  <2>2. \A k \in Depth' : k < Len(stack') => stack'[k].begun
    <3> SUFFICES ASSUME NEW k \in Depth', k < Len(stack') PROVE stack'[k].begun
      OBVIOUS
    <3>1. k \in Depth
      BY <1>3, <1>4, <1>5
    <3> QED
      BY <1>4, <3>1
  <2>3. stack'[1].module = Main
    BY <1>3, <1>4 DEF StackInOrder, Depth
  <2> QED
    BY <2>1, <2>2, <2>3 DEF StackInOrder
<1>8. NamesWithoutUsing'
  <2>1. ASSUME NEW k \in Depth', stack'[k].use PROVE stack'[k].name = NoName
    <3>1. CASE k \in Depth
      BY <1>4, <2>1, <3>1
    <3>2. CASE k = Len(stack) + 1
      <4>1. new.use /\ new.use = use /\ new.name = name
        BY <1>a, <2>1, <3>2 DEF new
      <4> QED
        BY <3>2, <4>1 DEF new
    <3> QED
      BY <1>5, <3>1, <3>2
  <2> QED
    BY <1>1, <2>1 DEF NamesWithoutUsing
<1>9. FlagsLast'
  BY <1>1 DEF FlagsLast, Mixed
<1>10. FinishedImported'
  <2>1. ASSUME NEW k \in Depth', stack'[k].begun, stack'[k].module = Basic
        PROVE  \E i \in imports : i.from = Basic
    <3>1. k \in Depth
      BY <1>5, <1>a, <2>1 DEF new
    <3>2. stack[k].begun /\ stack[k].module = Basic
      BY <1>4, <2>1, <3>1
    <3> QED
      BY <3>1, <3>2 DEF FinishedImported
  <2> QED
    BY <1>1, <1>6, <2>1 DEF FinishedImported
<1>11. NothingBefore'
  <2> SUFFICES ASSUME ~errors, UsingOnly, ~cyclic,
                      NEW p \in Position', NEW q \in Position', p < q, modules'[q] \in Resolving',
                      NEW n \in defines'[modules'[q]] \ todo'[modules'[q]]
               PROVE  ~(n \in exported[modules'[p]] /\ modules'[p] \in using)
    BY <1>1 DEF NothingBefore, UsingOnly
  <2>1. PICK fs \in Files : defines' = [defines EXCEPT ![x] = fs] /\ todo' = [todo EXCEPT ![x] = fs]
    BY <1>1 DEF Parse
  <2>2. defines \in [Modules -> SUBSET Names] /\ todo \in [Modules -> SUBSET Names]
    BY DEF ModulesInv, TypeOK
  <2>3. q \in Position /\ p \in Position
    <3>1. q # Len(modules) + 1
      BY <1>2, <2>1, <2>2
    <3> QED
      BY <1>3, <1>5, <3>1 DEF Position
  <2>4. modules[q] \in Resolving /\ modules[q] \in Modules
    BY <1>2, <1>6, <2>3, KnownAreModules DEF ModulesInv, TypeOK, Known, Position
  <2>5. n \in defines[modules[q]] \ todo[modules[q]]
    BY <1>2, <2>1, <2>2, <2>3, <2>4
  <2> QED
    BY <1>2, <2>3, <2>4, <2>5 DEF NothingBefore
<1> QED
  BY <1>7, <1>8, <1>9, <1>10, <1>11
-----------------------------------------------------------------------------
\* At the start only the main module is there.
LEMMA LookupInit == ASSUME Init PROVE LookupInv
<1>1. ModulesInv
  BY InitInv
<1>2. /\ modules = <<Main>> /\ stack = <<Entered(Main, FALSE, NoName)>>
      /\ todo = defines /\ imports = {}
  BY DEF Init
<1>3. /\ Position = {1} /\ Depth = {1}
      /\ modules[1] = Main /\ stack[1] = Entered(Main, FALSE, NoName)
  BY <1>2 DEF Position, Depth
<1>4. /\ stack[1].module = Main /\ stack[1].use = FALSE /\ stack[1].begun = FALSE
      /\ Len(stack) = 1
  BY <1>2, <1>3 DEF Entered
<1>5. StackInOrder
  <2>1. \A j, k \in Depth : ~(j < k)
    BY <1>3
  <2>2. \A k \in Depth : ~(k < Len(stack))
    BY <1>3, <1>4
  <2> QED
    BY <1>4, <2>1, <2>2 DEF StackInOrder
<1>6. Finished = {}
  <2>1. Known = {modules[k] : k \in Position} /\ Resolving = {stack[k].module : k \in Depth}
    BY DEF Known, Resolving, Position, Depth
  <2> QED
    BY <1>3, <1>4, <2>1 DEF Finished
<1>7. NamesWithoutUsing /\ FlagsLast /\ FinishedImported
  BY <1>2, <1>3, <1>4, <1>6 DEF NamesWithoutUsing, FlagsLast, FinishedImported
<1>8. NothingBefore
  BY <1>2 DEF NothingBefore
<1> QED
  BY <1>1, <1>5, <1>7, <1>8 DEF LookupInv

\* The main module is being resolved as long as any is.
LEMMA MainResolving ==
  ASSUME LookupInv, stack # <<>>
  PROVE  Main \in Resolving
<1>1. Len(stack) \in Nat \ {0}
  BY TopResolving DEF LookupInv, ModulesInv
<1>2. 1 \in 1..Len(stack) /\ stack[1].module = Main
  BY <1>1 DEF LookupInv, StackInOrder
<1> QED
  BY <1>2 DEF Resolving

LEMMA LookupAutoImport == ASSUME LookupInv, ModulesInv', AutoImport PROVE LookupInv'
<1> DEFINE begun == [stack EXCEPT ![Len(stack)].begun = TRUE]
<1>1. /\ Len(stack) \in Nat \ {0} /\ stack \in Seq(Frame)
      /\ Top \in Frame /\ Top = stack[Len(stack)]
  BY TopResolving DEF AutoImport, LookupInv, ModulesInv, TypeOK, Top
<1>2. /\ begun \in Seq(Frame) /\ SameModules(stack, begun)
      /\ \A k \in Depth : /\ begun[k].use => begun[k].name = NoName
                          /\ begun[k].begun
  <2> DEFINE new == [Top EXCEPT !.begun = TRUE]
  <2>1. /\ new \in Frame /\ new.module = Top.module /\ new.begun
        /\ new.use = Top.use /\ new.name = Top.name
    BY <1>1 DEF Frame
  <2>2. begun = [stack EXCEPT ![Len(stack)] = new]
    BY <1>1
  <2>3. Len(stack) \in Depth
    BY <1>1 DEF Depth
  <2>4. /\ \A k \in Depth : stack[k].use => stack[k].name = NoName
        /\ \A k \in Depth : k # Len(stack) => stack[k].begun
    <3>1. \A k \in Depth : k # Len(stack) => k < Len(stack)
      BY <1>1 DEF Depth
    <3> QED
      BY <3>1 DEF LookupInv, NamesWithoutUsing, StackInOrder
  <2> HIDE DEF new
  <2>5. /\ [stack EXCEPT ![Len(stack)] = new] \in Seq(Frame)
        /\ Len([stack EXCEPT ![Len(stack)] = new]) = Len(stack)
        /\ \A j \in 1..Len(stack) :
              [stack EXCEPT ![Len(stack)] = new][j] = IF j = Len(stack) THEN new ELSE stack[j]
    BY <1>1, <2>1, <2>3, ExceptSeq DEF Depth
  <2> HIDE DEF begun
  <2>6. /\ begun \in Seq(Frame) /\ Len(begun) = Len(stack)
        /\ \A k \in Depth : begun[k] = IF k = Len(stack) THEN new ELSE stack[k]
    BY <2>2, <2>5 DEF Depth
  <2> QED
    BY <1>1, <2>1, <2>3, <2>4, <2>6 DEF SameModules, Depth
<1>3. /\ DoImport(Basic, TRUE, NoName) /\ stack # <<>>
      /\ stack' = IF Basic \in Known THEN begun
                  ELSE Append(begun, Entered(Basic, TRUE, NoName))
      /\ exported' = exported /\ cyclic' = cyclic
  BY DEF AutoImport
<1>4. Basic \in Modules
  BY ModulesAssumption
<1>5. ASSUME UsingOnly, Basic \in Known PROVE Basic \in using \/ Basic = Top.module
  <2> USE DEF LookupInv
  <2>1. CASE Basic \in Resolving
    <3>1. PICK k \in Depth : stack[k].module = Basic
      BY <2>1 DEF Resolving, Depth
    <3>2. CASE k = Len(stack)
      BY <1>1, <3>1, <3>2
    <3>3. CASE k < Len(stack)
      <4>1. PICK i \in imports : i.from = Basic
        BY <3>1, <3>3 DEF StackInOrder, FinishedImported
      <4> QED
        BY <1>5, <4>1, ImportedFlagged DEF ModulesInv
    <3> QED
      BY <1>1, <3>2, <3>3 DEF Depth
  <2>2. CASE Basic \notin Resolving
    <3>1. Basic # Main
      BY <1>3, <2>2, MainResolving
    <3>2. PICK i \in imports : i.from = Basic
      BY <1>5, <2>2, <3>1 DEF FinishedImported, Finished
    <3> QED
      BY <1>5, <3>2, ImportedFlagged DEF ModulesInv
  <2> QED
    BY <2>1, <2>2
<1> HIDE DEF begun
<1>6. CASE Basic \in Known
  BY <1>2, <1>3, <1>5, <1>6, LookupImportKnown
<1>7. CASE Basic \notin Known
  BY <1>2, <1>3, <1>4, <1>7, LookupImportNew
<1> QED
  BY <1>6, <1>7

LEMMA LookupImportStatement ==
  ASSUME LookupInv, ModulesInv',
         NEW x \in Modules, NEW use \in BOOLEAN, NEW name \in Names \union {NoName},
         ImportStatement(x, use, name)
  PROVE  LookupInv'
<1>1. /\ DoImport(x, use, name) /\ stack # <<>> /\ Top.begun
      /\ use => name = NoName
      /\ stack' = IF x \in Known THEN stack ELSE Append(stack, Entered(x, use, name))
      /\ exported' = exported
      /\ cyclic' = (cyclic \/ x \in Resolving)
  BY DEF ImportStatement
<1>2. stack \in Seq(Frame) /\ SameModules(stack, stack) /\ Len(stack) \in Nat \ {0}
  BY <1>1, TopResolving DEF LookupInv, ModulesInv, TypeOK, SameModules
<1>3. \A k \in Depth : /\ stack[k].use => stack[k].name = NoName
                       /\ stack[k].begun
  <2>1. \A k \in Depth : k < Len(stack) \/ k = Len(stack)
    BY <1>2 DEF Depth
  <2> QED
    BY <1>1, <2>1 DEF LookupInv, NamesWithoutUsing, StackInOrder, Top
<1>4. ASSUME UsingOnly, ~cyclic', x \in Known PROVE x \in using
  <2>1. x \in Finished /\ x # Main
    BY <1>1, <1>4, MainResolving DEF Finished
  <2>2. PICK i \in imports : i.from = x
    BY <2>1 DEF LookupInv, FinishedImported
  <2> QED
    BY <1>4, <2>2, ImportedFlagged DEF LookupInv, ModulesInv
<1>5. CASE x \in Known
  <2>1. stack' = stack /\ (cyclic => cyclic')
    BY <1>1, <1>5
  <2> QED
    BY <1>1, <1>2, <1>3, <1>4, <1>5, <2>1, LookupImportKnown
<1>6. CASE x \notin Known
  <2>1. stack' = Append(stack, Entered(x, use, name)) /\ (cyclic => cyclic')
    BY <1>1, <1>6
  <2> QED
    BY <1>1, <1>2, <1>3, <1>6, <2>1, LookupImportNew
<1> QED
  BY <1>5, <1>6
\* A step that leaves the tables and the stack alone, and exports functions of the
\* module on top only.
LEMMA LookupOthers ==
  ASSUME LookupInv, ModulesInv',
         UNCHANGED <<modules, defines, using, imported, stack, imports, cyclic>>,
         errors => errors',
         stack = <<>> => exported' = exported,
         stack # <<>> => \A m \in Modules : m # Top.module => exported'[m] = exported[m],
         ASSUME NEW p \in Position, NEW q \in Position, p < q,
                ~errors', UsingOnly, ~cyclic, modules[q] \in Resolving,
                NEW n \in todo[modules[q]] \ todo'[modules[q]],
                n \in exported[modules[p]], modules[p] \in using
         PROVE  FALSE
  PROVE  LookupInv'
<1> USE DEF LookupInv
<1>1. /\ Known' = Known /\ Resolving' = Resolving /\ Position' = Position /\ Depth' = Depth
      /\ Known \subseteq Modules
  BY KnownAreModules DEF Known, Resolving, Position, Depth, ModulesInv, TypeOK
<1>2. StackInOrder' /\ NamesWithoutUsing' /\ FinishedImported' /\ FlagsLast'
  BY <1>1 DEF StackInOrder, NamesWithoutUsing, FinishedImported, Finished, FlagsLast, Mixed
<1>3. NothingBefore'
  <2> SUFFICES ASSUME ~errors', UsingOnly, ~cyclic,
                      NEW p \in Position, NEW q \in Position, p < q, modules[q] \in Resolving,
                      NEW n \in defines[modules[q]] \ todo'[modules[q]],
                      n \in exported'[modules[p]], modules[p] \in using
               PROVE  FALSE
    BY <1>1 DEF NothingBefore, UsingOnly
  <2>1. n \in exported[modules[p]]
    <3>1. CASE stack = <<>>
      BY <3>1
    <3>2. CASE stack # <<>>
      <4>1. modules[p] # Top.module
        BY <3>2, TopIsLast
      <4>2. modules[p] \in Modules
        BY <1>1 DEF Known, Position
      <4> QED
        BY <3>2, <4>1, <4>2
    <3> QED
      BY <3>1, <3>2
  <2>2. CASE n \in todo[modules[q]]
    BY <2>1, <2>2
  <2>3. CASE n \notin todo[modules[q]]
    BY <2>1, <2>3 DEF NothingBefore
  <2> QED
    BY <2>2, <2>3
<1> QED
  BY <1>2, <1>3

LEMMA LookupExport ==
  ASSUME LookupInv, ModulesInv', NEW n \in Names, Export(n) PROVE LookupInv'
<1> DEFINE x == Lookup(Top.module, n)
<1>1. /\ stack # <<>>
      /\ UNCHANGED <<modules, defines, using, imported, stack, todo, imports, cyclic>>
      /\ exported' = exported \/ (x # NoModule /\ exported' = [exported EXCEPT ![x] = @ \union {n}])
      /\ errors => errors'
  BY DEF Export
<1>2. exported \in [Modules -> SUBSET Names] /\ modules \in Seq(Modules)
  BY DEF LookupInv, ModulesInv, TypeOK
<1>3. ASSUME x # NoModule, x # Top.module PROVE n \in exported[x]
  BY <1>2, <1>3, FindAccepts DEF Lookup, Accepts
<1> HIDE DEF x
<1>4. \A m \in Modules : m # Top.module => exported'[m] = exported[m]
  BY <1>1, <1>2, <1>3
<1> QED
  BY <1>1, <1>4, LookupOthers

LEMMA LookupDefine ==
  ASSUME LookupInv, ModulesInv', NEW n \in Names, Define(n) PROVE LookupInv'
<1> DEFINE m == Top.module
           own == Lookup(m, n) = m
<1>1. /\ stack # <<>>
      /\ UNCHANGED <<modules, defines, using, imported, stack, imports, cyclic>>
      /\ todo' = [todo EXCEPT ![m] = @ \ {n}]
      /\ exported' = exported \/ exported' = [exported EXCEPT ![m] = @ \union {n}]
      /\ errors' = (errors \/ ~own)
  BY DEF Define
<1>2. /\ {defines, exported, todo} \subseteq [Modules -> SUBSET Names] /\ modules \in Seq(Modules)
      /\ m \in Known /\ m \in Modules
      /\ \A k \in Modules : exported[k] \subseteq defines[k]
  BY <1>1, TopResolving, KnownAreModules DEF LookupInv, ModulesInv, TypeOK
<1>3. ASSUME NEW p \in Position, NEW q \in Position, p < q, modules[q] = m, own,
             n \in exported[modules[p]], modules[p] \in using
      PROVE  FALSE
  <2> DEFINE found == {k \in Position : Accepts(m, modules[k], n, using)}
  <2>1. modules[p] \in Modules
    BY <1>2, KnownAreModules DEF Known, Position
  <2>2. p \in found
    BY <1>2, <1>3, <2>1 DEF Accepts
  <2>3. PICK k \in found : m = modules[k] /\ \A j \in found : k <= j
    <3>1. Lookup(m, n) = modules[CHOOSE k \in found : \A j \in found : k <= j]
      BY <2>2 DEF Lookup, Find, Position
    <3>2. Len(modules) \in Nat /\ found \in SUBSET (1..Len(modules)) /\ found # {}
      BY <1>2, <2>2, LenProperties DEF Position
    <3> HIDE DEF found
    <3>3. \E k \in found : \A j \in found : k <= j
      BY <3>2, Least
    <3> DEFINE k == CHOOSE k \in found : \A j \in found : k <= j
    <3>4. k \in found /\ \A j \in found : k <= j
      BY <3>3
    <3> QED
      BY <1>3, <3>1, <3>4
  <2>4. k = q
    BY <1>3, <2>3 DEF LookupInv, ModulesInv, EachOnce, Position
  <2> QED
    BY <1>3, <2>2, <2>3, <2>4 DEF Position
<1> HIDE DEF own
<1>4. \A k \in Modules : k # m => exported'[k] = exported[k]
  BY <1>1, <1>2
<1>5. ASSUME NEW p \in Position, NEW q \in Position, p < q,
             ~errors', UsingOnly, ~cyclic, modules[q] \in Resolving,
             NEW k \in todo[modules[q]] \ todo'[modules[q]],
             k \in exported[modules[p]], modules[p] \in using
      PROVE  FALSE
  <2>1. modules[q] \in Modules
    BY <1>2, KnownAreModules DEF Known, Position
  <2>2. k = n /\ modules[q] = m
    BY <1>1, <1>2, <1>5, <2>1
  <2> QED
    BY <1>1, <1>3, <1>5, <2>2
<1> HIDE DEF m
<1>6. m = Top.module /\ (errors => errors')
  BY <1>1 DEF m
<1> QED
  BY <1>1, <1>4, <1>5, <1>6, LookupOthers
\* Without the module on top the others are as they were.
LEMMA BelowKeeps ==
  ASSUME stack \in Seq(Frame), stack # <<>>
  PROVE  /\ Len(stack) \in Nat \ {0}
         /\ Len(Below) = Len(stack) - 1
         /\ \A k \in 1..(Len(stack) - 1) : Below[k] = stack[k]
<1> DEFINE n == Len(stack)
<1>1. n \in Nat \ {0}
  BY EmptySeq
<1>2. \A k \in 1..(n - 1) : k \in 1..n /\ stack[k] \in Frame
  BY <1>1, ElementOfSeq
<1>3. /\ Len(Below) = IF 1 <= n - 1 THEN (n - 1) - 1 + 1 ELSE 0
      /\ \A k \in 1..((n - 1) - 1 + 1) : Below[k] = stack[1 + k - 1]
  BY <1>1, <1>2, SubSeqProperties DEF Below
<1> HIDE DEF n
<1>4. Len(Below) = n - 1 /\ \A k \in 1..(n - 1) : Below[k] = stack[k]
  BY <1>1, <1>3
<1> QED
  BY <1>1, <1>4 DEF n

LEMMA LookupEndModule == ASSUME LookupInv, ModulesInv', EndModule PROVE LookupInv'
<1> USE DEF LookupInv
<1> DEFINE n == Len(stack)
           x == Top.module
<1>1. /\ stack \in Seq(Frame) /\ stack # <<>> /\ stack' = Below
      /\ UNCHANGED <<modules, defines, exported, todo, cyclic>>
      /\ x = stack[n].module
  BY DEF EndModule, ModulesInv, TypeOK, Top
<1>2. /\ n \in Nat \ {0} /\ Len(stack') = n - 1
      /\ Depth = 1..n /\ Depth' = 1..(n - 1)
      /\ \A k \in Depth' : stack'[k] = stack[k]
  BY <1>1, BelowKeeps DEF Depth
<1>3. x \in Resolving /\ Resolving \subseteq Known /\ Known' = Known
  BY <1>1, TopResolving DEF ModulesInv, TablesAgree, Known
<1> HIDE DEF n, x
<1>4. \A k \in Depth' : k \in Depth /\ k < n
  BY <1>2
<1>5. Resolving' \subseteq Resolving /\ Finished' \subseteq Finished \union {x}
  <2>1. Resolving' \subseteq Resolving
    BY <1>2, <1>4 DEF Resolving, Depth
  <2>2. Resolving \subseteq Resolving' \union {x}
    <3>1. Resolving = {stack[k].module : k \in Depth} /\ Resolving' = {stack'[k].module : k \in Depth'}
      BY DEF Resolving, Depth
    <3>2. \A k \in Depth : k = n \/ k \in Depth'
      BY <1>2
    <3> QED
      BY <1>1, <1>2, <3>1, <3>2
  <2> QED
    BY <1>3, <2>1, <2>2 DEF Finished
<1>6. StackInOrder'
  <2>1. \A j, k \in Depth' : \A p, q \in Position' :
            j < k /\ modules[p] = stack'[j].module /\ modules[q] = stack'[k].module => p < q
    BY <1>1, <1>2, <1>4 DEF StackInOrder, Position
  <2>2. \A k \in Depth' : stack'[k].begun
    <3> SUFFICES ASSUME NEW k \in Depth' PROVE stack'[k].begun
      OBVIOUS
    <3>1. k \in Depth /\ k < Len(stack)
      BY <1>4 DEF n
    <3> QED
      BY <1>2, <3>1 DEF StackInOrder
  <2>3. stack' # <<>> => stack'[1].module = Main
    <3> SUFFICES ASSUME stack' # <<>> PROVE stack'[1].module = Main
      OBVIOUS
    <3>1. n - 1 # 0
      BY <1>2, EmptySeq DEF ModulesInv, TypeOK
    <3>2. 1 \in Depth'
      BY <1>2, <3>1
    <3> QED
      BY <1>1, <1>2, <3>2 DEF StackInOrder
  <2> QED
    BY <1>1, <2>1, <2>2, <2>3 DEF StackInOrder
<1>7. CASE Below = <<>>
  <2>1. UNCHANGED <<using, imported, errors, imports>>
    BY <1>7 DEF EndModule
  <2>2. Depth' = {}
    BY <1>1, <1>7 DEF Depth
  <2>3. Resolving' = {}
    BY <2>2 DEF Resolving, Depth
  <2>4. NothingBefore' /\ NamesWithoutUsing' /\ FlagsLast'
    BY <2>1, <2>2, <2>3 DEF NothingBefore, NamesWithoutUsing, FlagsLast, Mixed
  <2>5. x = Main
    <3>1. n = 1
      BY <1>1, <1>2, <1>7
    <3> QED
      BY <1>1, <3>1 DEF StackInOrder
  <2>6. FinishedImported'
    BY <1>5, <2>1, <2>2, <2>5 DEF FinishedImported
  <2> QED
    BY <1>6, <2>4, <2>6
<1>8. CASE Below # <<>>
  <2> DEFINE m == Below[Len(Below)].module
  <2>1. Complete(m, x, Top.use, Top.name)
    BY <1>8 DEF EndModule, x
  <2>2. Top.use \in BOOLEAN /\ (Top.use => Top.name = NoName)
    <3>1. Len(stack) \in Depth /\ Top = stack[Len(stack)]
      BY <1>2 DEF n, Top
    <3>2. Top \in Frame
      BY <1>1, TopResolving DEF ModulesInv
    <3> QED
      BY <3>1, <3>2 DEF NamesWithoutUsing, Frame
  <2>3. /\ FlagsLast'
        /\ \A i \in imports' : i.use => i.name = NoName
        /\ imports \subseteq imports'
        /\ \E i \in imports' : i.from = x
        /\ UsingOnly' => UsingOnly /\ using' = using \union {x}
        /\ errors => errors'
    BY <2>1, <2>2, CompleteFlags DEF NamesWithoutUsing
  <2>4. NamesWithoutUsing'
    BY <1>2, <1>4, <2>3 DEF NamesWithoutUsing
  <2>5. FinishedImported'
    BY <1>2, <1>4, <1>5, <2>3 DEF FinishedImported
  <2>6. NothingBefore'
    <3> SUFFICES ASSUME ~errors', UsingOnly', ~cyclic,
                        NEW p \in Position, NEW q \in Position, p < q, modules[q] \in Resolving',
                        NEW k \in defines[modules[q]] \ todo[modules[q]],
                        k \in exported[modules[p]], modules[p] \in using'
                 PROVE  FALSE
      BY <1>1 DEF NothingBefore, Position
    <3>1. ~errors /\ UsingOnly /\ using' = using \union {x}
      BY <2>3
    <3>2. modules[q] \in Resolving
      BY <1>5
    <3>3. modules[p] \in using
      BY <1>1, <3>1, <3>2, TopIsLast DEF x
    <3> QED
      BY <3>1, <3>2, <3>3 DEF NothingBefore
  <2> QED
    BY <1>6, <2>3, <2>4, <2>5, <2>6
<1> QED
  BY <1>7, <1>8

LEMMA LookupNext == ASSUME LookupInv, [Next]_vars PROVE LookupInv'
<1>1. ModulesInv'
  BY NextKeeps DEF LookupInv
<1>2. CASE AutoImport
  BY <1>1, <1>2, LookupAutoImport
<1>3. ASSUME NEW x \in Modules, NEW use \in BOOLEAN, NEW name \in Names \union {NoName},
             ImportStatement(x, use, name)
      PROVE  LookupInv'
  BY <1>1, <1>3, LookupImportStatement
<1>4. ASSUME NEW n \in Names, Export(n) PROVE LookupInv'
  BY <1>1, <1>4, LookupExport
<1>5. ASSUME NEW n \in Names, Define(n) PROVE LookupInv'
  BY <1>1, <1>5, LookupDefine
<1>6. CASE EndModule
  BY <1>1, <1>6, LookupEndModule
<1>7. CASE UNCHANGED vars
  BY <1>1, <1>7, LookupOthers DEF vars
<1> QED
  BY <1>2, <1>3, <1>4, <1>5, <1>6, <1>7 DEF Next

-----------------------------------------------------------------------------
\* The lookup gives the first module of the table that is accepted.
LEMMA FindFirst ==
  ASSUME ModulesInv, NEW m, NEW n, NEW flagged,
         NEW q \in Position, Accepts(m, modules[q], n, flagged),
         \A p \in Position : p < q => ~Accepts(m, modules[p], n, flagged)
  PROVE  Find(m, n, flagged) = modules[q]
<1> DEFINE found == {k \in Position : Accepts(m, modules[k], n, flagged)}
<1>1. q \in found /\ \A j \in found : q <= j
  BY DEF Position
<1>2. \A k \in found : (\A j \in found : k <= j) => k = q
  BY <1>1 DEF Position
<1>3. Find(m, n, flagged) = modules[CHOOSE k \in found : \A j \in found : k <= j]
  BY <1>1 DEF Find, Position
<1> HIDE DEF found
<1> DEFINE k == CHOOSE k \in found : \A j \in found : k <= j
<1>4. k \in found /\ \A j \in found : k <= j
  BY <1>1
<1> QED
  BY <1>2, <1>3, <1>4

\* The inductive invariant holds of every program.
THEOREM LookupInvariant == Spec => []LookupInv
BY LookupInit, LookupNext, PTL DEF Spec

\* In a program that imports with using only, without errors and cyclic imports, what
\* a module has defined is what its name means there.
THEOREM ModulesOwnIsMeant == Spec => []OwnIsMeant
<1>1. ASSUME LookupInv PROVE OwnIsMeant
  <2> USE <1>1 DEF LookupInv
  <2> SUFFICES ASSUME ~errors, UsingOnly, ~cyclic,
                      NEW m \in Resolving, NEW n \in defines[m] \ todo[m]
               PROVE  Lookup(m, n) = m
    BY DEF OwnIsMeant
  <2>1. m \in Known /\ m \in Modules
    BY KnownAreModules DEF ModulesInv, TablesAgree, TypeOK
  <2>2. PICK q \in Position : modules[q] = m
    BY <2>1 DEF Known, Position
  <2>3. imported[m] = {}
    BY <2>1, NoNames
  <2>4. \A p \in Position : p < q => ~Accepts(m, modules[p], n, using)
    <3> SUFFICES ASSUME NEW p \in Position, p < q, Accepts(m, modules[p], n, using) PROVE FALSE
      OBVIOUS
    <3>1. modules[p] # m
      BY <2>2 DEF ModulesInv, EachOnce, Position
    <3>2. n \in exported[modules[p]] /\ modules[p] \in using
      BY <2>3, <3>1 DEF Accepts
    <3> QED
      BY <2>2, <3>2 DEF NothingBefore
  <2>5. Accepts(m, modules[q], n, using)
    BY <2>2 DEF Accepts
  <2> QED
    BY <2>2, <2>4, <2>5, FindFirst DEF Lookup
<1> QED
  BY <1>1, LookupInvariant, PTL

\* If names are unique, what was imported and is exported is found, unless the module
\* is imported with using in one place and without in another.
THEOREM ModulesImportedIsFound == Spec => []ImportedIsFound
<1>1. ASSUME LookupInv PROVE ImportedIsFound
  <2> USE <1>1 DEF LookupInv
  <2> SUFFICES ASSUME Unique, NEW i \in imports, ~Mixed(i.from), NEW n \in exported[i.from]
               PROVE  /\ i.use \/ n \in imported[i.into] => Lookup(i.into, n) = i.from
                      /\ imported[i.into] = {} => Access(i.into, i.from, n) = i.from
    BY DEF ImportedIsFound
  <2> DEFINE m == i.into
             x == i.from
  <2>1. x \in Known /\ m \in Known /\ x \in Modules /\ n \in defines[x]
    BY KnownAreModules DEF ModulesInv, ImportsRecorded, TypeOK
  <2>2. PICK q \in Position : modules[q] = x
    BY <2>1 DEF Known, Position
  <2>3. ASSUME NEW k, Accepts(k, x, n, using) PROVE Lookup(k, n) = x
    <3>1. \A p \in Position : p < q => ~Accepts(k, modules[p], n, using)
      <4> SUFFICES ASSUME NEW p \in Position, p < q PROVE n \notin defines[modules[p]]
        BY DEF Accepts
      <4>1. modules[p] # x /\ modules[p] \in Known
        BY <2>2 DEF ModulesInv, EachOnce, Position, Known
      <4> QED
        BY <2>1, <4>1 DEF Unique
    <3> QED
      BY <2>2, <2>3, <3>1, FindFirst DEF Lookup
  <2>4. ASSUME i.use \/ n \in imported[m] PROVE Lookup(m, n) = x
    <3>1. x \in using \/ n \in imported[m]
      BY <2>4 DEF FlagsLast
    <3> QED
      BY <2>1, <2>3, <3>1 DEF Accepts
  <2>5. ASSUME imported[m] = {} PROVE Access(m, x, n) = x
    <3>1. Lookup(x, n) = x /\ x # NoModule
      BY <2>1, <2>3, ModulesAssumption DEF Accepts
    <3> QED
      BY <2>5, <3>1 DEF Access
  <2> QED
    BY <2>4, <2>5
<1> QED
  BY <1>1, LookupInvariant, PTL
=============================================================================
