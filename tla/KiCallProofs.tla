----------------------------- MODULE KiCallProofs -----------------------------
(***************************************************************************)
(* Proofs about passing the arguments of a call, for every number of       *)
(* arguments and of argument registers: what is in the registers and on    *)
(* the stack after each step of push_call, and from it which calls pass    *)
(* their arguments right.                                                  *)
(***************************************************************************)
EXTENDS KiCall, SequenceTheorems, FiniteSetTheorems, TLAPS

\* The arguments passed on the stack, complex and simple.
Pushed == {k \in 1..Len(args) : OnStack(k)}
PushedComplex == {k \in Complex : OnStack(k)}
PushedSimple == {k \in 1..Len(args) : ~args[k].complex /\ OnStack(k)}

\* The place of an argument among the complex ones, from the last to the first.
Rank(k) == Cardinality({j \in Complex : j >= k})
\* What is pushed again until the complex argument at place m is popped.
Above(m) == Cardinality({j \in PushedComplex : Rank(j) > m})
\* How many simple arguments are pushed until argument k is, and with it.
Later(k) == Cardinality({j \in PushedSimple : j >= k})

\* What the register of a complex argument holds: what was on top of the stack.
Held(k) ==
    IF args[Rank(k)].class = args[k].class THEN complex_args[Rank(k) + Above(Rank(k))] ELSE Garbage

\* The register of argument k is overwritten while a simple argument after n is
\* evaluated.
Lost(k, n) ==
    \E j \in 1..Len(args) :
        /\ j > n /\ ~args[j].complex /\ (args[k].complex \/ j < k)
        /\ Passed(k) \in args[j].clobbers[args[k].class]

\* What is left in the register of argument k of the value v stored there.
Kept(k, v) == regs[args[k].class][Passed(k)] = IF Lost(k, i) THEN Garbage ELSE v

Types ==
    /\ args \in Calls
    /\ phase \in {"idle", "evaluate", "pop", "load", "call", "callee", "returned"}
    /\ i \in Nat
    /\ complex_args \in Seq(1..Len(args))
    /\ stack \in Seq(Value)
    /\ regs \in [Classes -> [Registers -> Value]]

\* complex_args lists the complex arguments after argument n, from the last.
Ranked(n) ==
    /\ Len(complex_args) = Rank(n + 1)
    /\ \A m \in 1..Len(complex_args) :
          complex_args[m] \in Complex /\ complex_args[m] > n /\ Rank(complex_args[m]) = m
    /\ \A k \in Complex : k > n => Rank(k) \in 1..Len(complex_args) /\ complex_args[Rank(k)] = k

\* The registers hold what was popped for them, for the arguments ks.
ComplexHeld(ks) ==
    \A k \in ks : ~OnStack(k) =>
        /\ Rank(k) + Above(Rank(k)) \in 1..Len(complex_args)
        /\ regs[args[k].class][Passed(k)] = Held(k)

\* And keep it, unless it is lost to a simple argument.
ComplexKept ==
    \A k \in Complex : ~OnStack(k) =>
        Rank(k) + Above(Rank(k)) \in 1..Len(complex_args) /\ Kept(k, Held(k))

\* They hold nothing but what was stored for the arguments ks.
OnlyHeld(ks) ==
    \A c \in Classes, r \in Registers : regs[c][r] # Garbage =>
        \E k \in ks : ~OnStack(k) /\ args[k].class = c /\ Passed(k) = r

StoredByPop == {k \in Complex : Rank(k) > i}
StoredByLoad == Complex \union {k \in 1..Len(args) : k > i}

Idle == phase = "idle" =>
    args = <<>> /\ stack = <<>> /\ complex_args = <<>> /\ regs = Clobbered

Evaluating == phase = "evaluate" =>
    /\ i \in 0..Len(args) /\ Ranked(i)
    /\ stack = complex_args /\ regs = Clobbered

PopPhase == phase = "pop" =>
    /\ Ranked(0) /\ i \in 0..Len(complex_args)
    /\ Len(stack) = i + Above(i) /\ Len(stack) <= Len(complex_args)
    /\ \A t \in 1..Len(stack) : stack[t] = complex_args[t]
    /\ ComplexHeld(StoredByPop) /\ OnlyHeld(StoredByPop)

LoadPhase == phase \in {"load", "call", "callee", "returned"} =>
    /\ Ranked(0) /\ i \in 0..Len(args) /\ (phase # "load" => i = 0)
    /\ Len(stack) = Above(0) + Later(i + 1) /\ Above(0) <= Len(complex_args)
    /\ \A t \in 1..Above(0) : stack[t] = complex_args[t]
    /\ \A k \in PushedSimple : k > i =>
          Above(0) + Later(k) \in 1..Len(stack) /\ stack[Above(0) + Later(k)] = k
    /\ \A t \in 1..Len(stack) : t > Above(0) => stack[t] \in PushedSimple
    /\ \A k \in 1..Len(args) : ~args[k].complex /\ ~OnStack(k) /\ k > i => Kept(k, k)
    /\ ComplexKept /\ OnlyHeld(StoredByLoad)

Called ==
    /\ phase = "callee" => params = [k \in 1..Len(args) |-> Parameter(k)]
    /\ phase = "returned" =>
          released = IF Len(args) <= MAX_REGISTER_ARGUMENT_COUNT THEN 0
                     ELSE Len(args) - MAX_REGISTER_ARGUMENT_COUNT

CallInv == Types /\ Idle /\ Evaluating /\ PopPhase /\ LoadPhase /\ Called
-----------------------------------------------------------------------------
\* The arguments of a call.
LEMMA ArgFacts ==
  ASSUME Types
  PROVE  /\ Len(args) \in Nat /\ Len(args) <= MaxArguments /\ args \in [1..Len(args) -> Argument]
         /\ \A k \in 1..Len(args) : args[k].class \in Classes /\ args[k].complex \in BOOLEAN
         /\ \A k \in 1..Len(args) : k \in Value /\ k # Garbage
         /\ Complex \subseteq 1..Len(args)
<1>1. PICK n \in 0..MaxArguments : args \in [1..n -> Argument]
  BY DEF Types, Calls
<1>2. n \in Nat /\ n <= MaxArguments
  BY CallAssumption
<1>3. Len(args) = n
  <2>1. args \in Seq(Argument)
    BY <1>1, <1>2, SeqDef
  <2>2. Len(args) \in Nat /\ DOMAIN args = 1..Len(args) /\ DOMAIN args = 1..n
    BY <1>1, <2>1, LenProperties
  <2>3. n > 0 => n \in 1..Len(args)
    BY <1>2, <2>2
  <2>4. Len(args) > 0 => Len(args) \in 1..n
    BY <1>2, <2>2
  <2>5. Len(args) \in Nat
    BY <2>2
  <2> QED
    BY <1>2, <2>3, <2>4, <2>5
<1>4. \A k \in 1..n : args[k] \in Argument /\ k \in Value /\ k # Garbage
  BY <1>1, <1>2, CallAssumption DEF Value, Garbage
<1> QED
  BY <1>1, <1>2, <1>3, <1>4 DEF Argument, Complex

\* Counting what of a set of numbers is not below k.
LEMMA CountFrom ==
  ASSUME NEW n \in Nat, NEW A, A \subseteq 1..n, NEW k \in Int
  PROVE  /\ Cardinality({j \in A : j >= k}) \in Nat
         /\ k \in A => Cardinality({j \in A : j >= k}) = Cardinality({j \in A : j >= k + 1}) + 1
         /\ k \notin A => {j \in A : j >= k} = {j \in A : j >= k + 1}
         /\ \A h \in A : h < k => Cardinality({j \in A : j >= k}) < Cardinality({j \in A : j >= h})
<1>1. IsFiniteSet(A) /\ \A j \in A : j \in Int
  <2>1. IsFiniteSet(1..n)
    BY FS_Interval
  <2>2. IsFiniteSet(A)
    BY <2>1, FS_Subset
  <2>3. \A j \in A : j \in Int
    OBVIOUS
  <2> QED
    BY <2>2, <2>3
<1>2. \A h : IsFiniteSet({j \in A : j >= h})
  BY <1>1, FS_Subset
<1>3. ASSUME k \in A
      PROVE  Cardinality({j \in A : j >= k}) = Cardinality({j \in A : j >= k + 1}) + 1
  <2>0. \A j \in A : j >= k <=> j >= k + 1 \/ j = k
    BY <1>1
  <2>1. {j \in A : j >= k} = {j \in A : j >= k + 1} \union {k}
    BY <1>3, <2>0
  <2>2. k \notin {j \in A : j >= k + 1}
    OBVIOUS
  <2> QED
    BY <1>2, <2>1, <2>2, FS_AddElement
<1>4. ASSUME k \notin A PROVE {j \in A : j >= k} = {j \in A : j >= k + 1}
  <2>1. \A j \in A : j >= k <=> j >= k + 1
    BY <1>1, <1>4
  <2> QED
    BY <2>1
<1>5. ASSUME NEW h \in A, h < k
      PROVE  Cardinality({j \in A : j >= k}) < Cardinality({j \in A : j >= h})
  <2>0. \A j \in A : j >= k => j >= h
    BY <1>1, <1>5
  <2>1. {j \in A : j >= k} \subseteq {j \in A : j >= h}
    BY <2>0
  <2>2. h \in {j \in A : j >= h} /\ h \notin {j \in A : j >= k}
    BY <1>1, <1>5
  <2>3. /\ Cardinality({j \in A : j >= k}) <= Cardinality({j \in A : j >= h})
        /\ Cardinality({j \in A : j >= k}) # Cardinality({j \in A : j >= h})
    BY <1>2, <2>1, <2>2, FS_Subset
  <2>4. Cardinality({j \in A : j >= k}) \in Nat /\ Cardinality({j \in A : j >= h}) \in Nat
    BY <1>2, FS_CardinalityType
  <2> QED
    BY <2>3, <2>4
<1> QED
  BY <1>2, <1>3, <1>4, <1>5, FS_CardinalityType

\* The places of the complex arguments.
LEMMA RankFacts ==
  ASSUME Types
  PROVE  /\ \A k \in Int : Rank(k) \in Nat
         /\ \A k \in Complex : Rank(k) = Rank(k + 1) + 1
         /\ \A k \in Int \ Complex : Rank(k) = Rank(k + 1)
         /\ \A j \in Complex, k \in Int : j < k => Rank(k) < Rank(j)
         /\ \A j, k \in Complex : Rank(j) = Rank(k) => j = k
         /\ Rank(Len(args) + 1) = 0
<1>1. Len(args) \in Nat /\ Complex \subseteq 1..Len(args)
  BY ArgFacts
<1>2. \A k \in Int : /\ Rank(k) \in Nat
                     /\ k \in Complex => Rank(k) = Rank(k + 1) + 1
                     /\ k \notin Complex => Rank(k) = Rank(k + 1)
                     /\ \A j \in Complex : j < k => Rank(k) < Rank(j)
  BY <1>1, CountFrom DEF Rank
<1>3. ASSUME NEW j \in Complex, NEW k \in Complex, Rank(j) = Rank(k) PROVE j = k
  <2>1. j \in Int /\ k \in Int
    BY <1>1
  <2>2. /\ j < k => Rank(k) < Rank(j)
        /\ k < j => Rank(j) < Rank(k)
        /\ Rank(j) \in Nat /\ Rank(k) \in Nat
    BY <1>2, <2>1
  <2> QED
    BY <1>3, <2>1, <2>2
<1>4. Rank(Len(args) + 1) = 0
  <2>1. \A j \in Complex : ~(j >= Len(args) + 1)
    BY <1>1
  <2>2. {j \in Complex : j >= Len(args) + 1} = {}
    BY <2>1
  <2> QED
    BY <2>2, FS_EmptySet DEF Rank
<1> QED
  BY <1>1, <1>2, <1>3, <1>4

\* Two arguments of a class are not passed in the same register.
LEMMA PassedFacts ==
  ASSUME Types, NEW k \in 1..Len(args)
  PROVE  /\ Passed(k) \in Nat
         /\ ~OnStack(k) => Passed(k) \in Registers
         /\ \A j \in 1..Len(args) :
               args[j].class = args[k].class /\ Passed(j) = Passed(k) => j = k
<1>1. Len(args) \in Nat
  BY ArgFacts
<1> DEFINE Before(h) == {j \in 1..h-1 : args[j].class = args[h].class}
<1>2. \A h \in 1..Len(args) : IsFiniteSet(Before(h)) /\ Passed(h) = Cardinality(Before(h))
                              /\ Passed(h) \in Nat
  <2>1. ASSUME NEW h \in 1..Len(args) PROVE IsFiniteSet(Before(h))
    <3>1. 1 \in Int /\ h - 1 \in Int
      BY <1>1
    <3>2. IsFiniteSet(1..h-1)
      BY <3>1, FS_Interval
    <3> QED
      BY <3>2, FS_Subset
  <2> QED
    BY <2>1, FS_CardinalityType DEF Passed
<1>3. ASSUME NEW g \in 1..Len(args), NEW h \in 1..Len(args), g < h, args[g].class = args[h].class
      PROVE  Passed(g) # Passed(h)
  <2>1. Before(g) \subseteq Before(h)
    BY <1>1, <1>3
  <2>2. g \in Before(h) /\ g \notin Before(g)
    BY <1>1, <1>3
  <2>3. IsFiniteSet(Before(h)) /\ Passed(g) = Cardinality(Before(g)) /\ Passed(h) = Cardinality(Before(h))
    BY <1>2
  <2> HIDE DEF Before
  <2>4. Before(g) # Before(h)
    BY <2>2
  <2> QED
    BY <2>1, <2>3, <2>4, FS_Subset
<1>4. \A j \in 1..Len(args) : args[j].class = args[k].class /\ Passed(j) = Passed(k) => j = k
  BY <1>1, <1>3
<1>5. ~OnStack(k) => Passed(k) \in Registers
  <2>1. Passed(k) \in Nat /\ MAX_REGISTER_ARGUMENT_COUNT \in Nat
    BY <1>2, CallAssumption
  <2> HIDE DEF Before
  <2> QED
    BY <2>1 DEF OnStack, Registers
<1> QED
  BY <1>2, <1>4, <1>5

\* What is pushed again, one complex argument after the other.
LEMMA AboveFacts ==
  ASSUME Types
  PROVE  /\ \A m \in Int : Above(m) \in Nat
         /\ \A k \in Complex :
               Above(Rank(k) - 1) = IF OnStack(k) THEN Above(Rank(k)) + 1 ELSE Above(Rank(k))
         /\ Above(Rank(1)) = 0
         /\ Above(0) = Cardinality(PushedComplex)
<1>1. /\ Len(args) \in Nat /\ Complex \subseteq 1..Len(args) /\ PushedComplex \subseteq Complex
  BY ArgFacts DEF PushedComplex
<1> DEFINE Over(m) == {j \in PushedComplex : Rank(j) > m}
<1>2. \A m : IsFiniteSet(Over(m)) /\ Above(m) = Cardinality(Over(m))
  <2>1. IsFiniteSet(1..Len(args))
    BY <1>1, FS_Interval
  <2>2. \A m : Over(m) \subseteq 1..Len(args)
    BY <1>1
  <2> QED
    BY <2>1, <2>2, FS_Subset DEF Above
<1>3. \A j \in Complex : Rank(j) \in Nat /\ Rank(j) > 0 /\ Rank(j) <= Rank(1)
  <2> SUFFICES ASSUME NEW j \in Complex PROVE Rank(j) \in Nat /\ Rank(j) > 0 /\ Rank(j) <= Rank(1)
    OBVIOUS
  <2>1. j \in Int /\ j + 1 \in Int /\ 1 \in Int /\ j >= 1
    BY <1>1
  <2>2. Rank(j) \in Nat /\ Rank(j + 1) \in Nat /\ Rank(j) = Rank(j + 1) + 1 /\ Rank(1) \in Nat
    BY <2>1, RankFacts
  <2>3. Rank(j) <= Rank(1)
    <3>1. CASE 1 \in Complex
      <4>1. j = 1 \/ 1 < j
        BY <2>1
      <4>2. 1 < j => Rank(j) < Rank(1)
        BY <2>1, <3>1, RankFacts
      <4> QED
        BY <2>2, <4>1, <4>2
    <3>2. CASE 1 \notin Complex
      <4>0. IsFiniteSet(1..Len(args)) /\ \A h \in Complex : h >= 1
        BY <1>1, FS_Interval
      <4>1. {h \in Complex : h >= j} \subseteq {h \in Complex : h >= 1}
        BY <4>0
      <4>2. IsFiniteSet({h \in Complex : h >= 1})
        <5>1. {h \in Complex : h >= 1} \subseteq 1..Len(args)
          BY <1>1
        <5> QED
          BY <4>0, <5>1, FS_Subset
      <4> QED
        BY <4>1, <4>2, FS_Subset DEF Rank
    <3> QED
      BY <3>1, <3>2
  <2> QED
    BY <2>2, <2>3
<1>4. ASSUME NEW k \in Complex
      PROVE  Above(Rank(k) - 1) = IF OnStack(k) THEN Above(Rank(k)) + 1 ELSE Above(Rank(k))
  <2>1. \A j \in Complex : /\ Rank(j) > Rank(k) - 1 <=> Rank(j) > Rank(k) \/ j = k
                           /\ j = k => ~(Rank(j) > Rank(k))
    <3>1. \A j \in Complex : Rank(j) = Rank(k) => j = k
      BY RankFacts
    <3> QED
      BY <1>3, <3>1
  <2>2. CASE OnStack(k)
    <3>1. Over(Rank(k) - 1) = Over(Rank(k)) \union {k} /\ k \notin Over(Rank(k))
      BY <1>1, <2>1, <2>2 DEF PushedComplex
    <3> HIDE DEF Over
    <3> QED
      BY <1>2, <2>2, <3>1, FS_AddElement
  <2>3. CASE ~OnStack(k)
    <3>1. Over(Rank(k) - 1) = Over(Rank(k))
      BY <1>1, <2>1, <2>3 DEF PushedComplex
    <3> HIDE DEF Over
    <3> QED
      BY <1>2, <2>3, <3>1
  <2> QED
    BY <2>2, <2>3
<1>5. Above(Rank(1)) = 0
  <2>1. Rank(1) \in Nat
    BY RankFacts
  <2>2. \A j \in Complex : ~(Rank(j) > Rank(1))
    BY <1>3, <2>1
  <2>3. Over(Rank(1)) = {}
    BY <1>1, <2>2
  <2> QED
    BY <2>3, FS_EmptySet DEF Above
<1>6. Above(0) = Cardinality(PushedComplex)
  <2>1. Over(0) = PushedComplex
    BY <1>1, <1>3
  <2> QED
    BY <2>1 DEF Above
<1> HIDE DEF Over
<1>7. \A m \in Int : Above(m) \in Nat
  BY <1>2, FS_CardinalityType
<1> QED
  BY <1>4, <1>5, <1>6, <1>7
\* The places of the simple arguments that are pushed.
LEMMA LaterFacts ==
  ASSUME Types
  PROVE  /\ PushedSimple \subseteq 1..Len(args)
         /\ \A k \in Int : Later(k) \in Nat
         /\ \A k \in PushedSimple : Later(k) = Later(k + 1) + 1
         /\ \A k \in Int \ PushedSimple : Later(k) = Later(k + 1)
         /\ \A j \in PushedSimple, k \in Int : j < k => Later(k) < Later(j)
         /\ Later(Len(args) + 1) = 0
         /\ Later(1) = Cardinality(PushedSimple)
<1>1. Len(args) \in Nat /\ PushedSimple \subseteq 1..Len(args)
  BY ArgFacts DEF PushedSimple
<1>2. \A k \in Int : /\ Later(k) \in Nat
                     /\ k \in PushedSimple => Later(k) = Later(k + 1) + 1
                     /\ k \notin PushedSimple => Later(k) = Later(k + 1)
                     /\ \A j \in PushedSimple : j < k => Later(k) < Later(j)
  BY <1>1, CountFrom DEF Later
<1>3. Later(Len(args) + 1) = 0
  <2>1. \A j \in PushedSimple : ~(j >= Len(args) + 1)
    BY <1>1
  <2>2. {j \in PushedSimple : j >= Len(args) + 1} = {}
    BY <2>1
  <2> QED
    BY <2>2, FS_EmptySet DEF Later
<1>4. Later(1) = Cardinality(PushedSimple)
  <2>1. \A j \in PushedSimple : j >= 1
    BY <1>1
  <2>2. {j \in PushedSimple : j >= 1} = PushedSimple
    BY <2>1
  <2> QED
    BY <2>2 DEF Later
<1>5. \A k \in PushedSimple : k \in Int
  BY <1>1
<1> QED
  BY <1>1, <1>2, <1>3, <1>4, <1>5

\* What a store does, on the stack or in a register.
LEMMA StoreFacts ==
  ASSUME Types, NEW k \in 1..Len(args), NEW v \in Value, NEW c \in Classes, NEW s \in Seq(Value),
         NEW g \in [Classes -> [Registers -> Value]], Store(k, v, c, s, g)
  PROVE  /\ stack' \in Seq(Value) /\ regs' \in [Classes -> [Registers -> Value]]
         /\ OnStack(k) => stack' = Append(s, v) /\ regs' = g
         /\ ~OnStack(k) =>
               /\ stack' = s
               /\ regs'[args[k].class][Passed(k)] = IF c = args[k].class THEN v ELSE Garbage
               /\ \A d \in Classes, r \in Registers :
                     d # args[k].class \/ r # Passed(k) => regs'[d][r] = g[d][r]
<1>1. args[k].class \in Classes /\ Garbage \in Value
  BY ArgFacts, CallAssumption DEF Garbage, Value
<1>2. CASE OnStack(k)
  <2>1. stack' = Append(s, v) /\ regs' = g
    BY <1>2 DEF Store
  <2>2. Append(s, v) \in Seq(Value)
    BY AppendProperties
  <2> QED
    BY <1>1, <1>2, <2>1, <2>2
<1>3. CASE ~OnStack(k)
  <2>1. Passed(k) \in Registers
    BY <1>3, PassedFacts
  <2> DEFINE w == IF c = args[k].class THEN v ELSE Garbage
  <2>2. stack' = s /\ regs' = [g EXCEPT ![args[k].class][Passed(k)] = w] /\ w \in Value
    BY <1>1, <1>3 DEF Store
  <2> HIDE DEF w
  <2>3. /\ regs' \in [Classes -> [Registers -> Value]]
        /\ regs'[args[k].class][Passed(k)] = w
        /\ \A d \in Classes, r \in Registers :
              d # args[k].class \/ r # Passed(k) => regs'[d][r] = g[d][r]
    BY <1>1, <2>1, <2>2
  <2> QED
    BY <1>3, <2>2, <2>3 DEF w
<1> QED
  BY <1>2, <1>3

\* What the evaluation of a simple argument leaves in the registers.
LEMMA AfterValueFacts ==
  ASSUME Types, NEW k
  PROVE  /\ AfterValue(k) \in [Classes -> [Registers -> Value]]
         /\ \A c \in Classes, r \in Registers :
               AfterValue(k)[c][r] = IF r \in args[k].clobbers[c] THEN Garbage ELSE regs[c][r]
<1>1. regs \in [Classes -> [Registers -> Value]] /\ Garbage \in Value
  BY CallAssumption DEF Types, Garbage, Value
<1> QED
  BY <1>1 DEF AfterValue

\* What depends on the arguments only stays.
LEMMA SameArgs ==
  ASSUME args' = args
  PROVE  /\ Complex' = Complex /\ PushedComplex' = PushedComplex /\ PushedSimple' = PushedSimple
         /\ \A k : Passed(k)' = Passed(k) /\ (OnStack(k)' <=> OnStack(k))
         /\ \A k : Rank(k)' = Rank(k) /\ Above(k)' = Above(k) /\ Later(k)' = Later(k)
         /\ \A n : complex_args' = complex_args => (Ranked(n)' <=> Ranked(n))
         /\ \A k : complex_args' = complex_args => Held(k)' = Held(k)
         /\ i' = i => \A k : Lost(k, i)' <=> Lost(k, i)
<1>1. Complex' = Complex
  BY DEF Complex
<1>2. \A k : Passed(k)' = Passed(k)
  BY DEF Passed
<1>3. \A k : OnStack(k)' <=> OnStack(k)
  BY <1>2 DEF OnStack
<1>4. PushedComplex' = PushedComplex /\ PushedSimple' = PushedSimple
  BY <1>1, <1>3 DEF PushedComplex, PushedSimple
<1>5. \A k : Rank(k)' = Rank(k)
  BY <1>1 DEF Rank
<1>6. \A k : Above(k)' = Above(k)
  BY <1>4, <1>5 DEF Above
<1>7. \A k : Later(k)' = Later(k)
  BY <1>4 DEF Later
<1>8. \A n : complex_args' = complex_args => (Ranked(n)' <=> Ranked(n))
  BY <1>1, <1>5 DEF Ranked
<1>9. ASSUME NEW k, complex_args' = complex_args PROVE Held(k)' = Held(k)
  <2>1. Rank(k)' = Rank(k) /\ Above(Rank(k))' = Above(Rank(k))
    <3>1. Rank(k)' = Rank(k)
      BY <1>5
    <3> QED
      BY <1>4, <1>5, <3>1 DEF Above
  <2> QED
    BY <1>9, <2>1 DEF Held
<1>10. ASSUME i' = i, NEW k PROVE Lost(k, i)' <=> Lost(k, i)
  <2>1. Passed(k)' = Passed(k)
    BY <1>2
  <2> QED
    BY <1>10, <2>1 DEF Lost
<1> QED
  BY <1>1, <1>2, <1>3, <1>4, <1>5, <1>6, <1>7, <1>8, <1>9, <1>10

\* The same registers hold the same arguments.
LEMMA SameRegisters ==
  ASSUME args' = args, complex_args' = complex_args, regs' = regs
  PROVE  /\ \A ks : ComplexHeld(ks)' <=> ComplexHeld(ks)
         /\ \A ks : OnlyHeld(ks)' <=> OnlyHeld(ks)
         /\ i' = i => (ComplexKept' <=> ComplexKept) /\ \A k : Kept(k, k)' <=> Kept(k, k)
<1>1. /\ \A k : Passed(k)' = Passed(k) /\ (OnStack(k)' <=> OnStack(k)) /\ Held(k)' = Held(k)
      /\ \A k : Rank(k)' = Rank(k) /\ Above(k)' = Above(k)
  BY SameArgs
<1>2. \A k : Above(Rank(k))' = Above(Rank(k))
  <2>1. PushedComplex' = PushedComplex
    BY SameArgs
  <2> QED
    BY <1>1, <2>1 DEF Above
<1>3. ASSUME i' = i
      PROVE  (ComplexKept' <=> ComplexKept) /\ \A k : Kept(k, k)' <=> Kept(k, k)
  <2>1. Complex' = Complex /\ \A k : Lost(k, i)' <=> Lost(k, i)
    BY <1>3, SameArgs
  <2>2. \A k : Kept(k, k)' <=> Kept(k, k)
    BY <1>1, <2>1 DEF Kept
  <2>3. \A k : Kept(k, Held(k))' <=> Kept(k, Held(k))
    BY <1>1, <2>1 DEF Kept
  <2> QED
    BY <1>1, <1>2, <2>1, <2>2, <2>3 DEF ComplexKept
<1> QED
  BY <1>1, <1>2, <1>3 DEF ComplexHeld, OnlyHeld
-----------------------------------------------------------------------------
\* Each action keeps the invariant.
LEMMA CallInit == ASSUME Init PROVE CallInv
<1>1. /\ args = <<>> /\ phase = "idle" /\ i = 0 /\ complex_args = <<>> /\ stack = <<>>
      /\ regs = Clobbered
  BY DEF Init
<1>2. Garbage \in Value /\ 0 \in 0..MaxArguments
  BY CallAssumption DEF Garbage, Value
<1>3. args \in Calls
  <2>1. <<>> \in [1..0 -> Argument]
    <3>1. 1..0 = {}
      OBVIOUS
    <3> QED
      BY <3>1
  <2> QED
    BY <1>1, <1>2, <2>1 DEF Calls
<1>4. complex_args \in Seq(1..Len(args)) /\ stack \in Seq(Value)
  BY <1>1, EmptySeq
<1>5. regs \in [Classes -> [Registers -> Value]]
  BY <1>1, <1>2 DEF Clobbered
<1> QED
  BY <1>1, <1>3, <1>4, <1>5 DEF CallInv, Types, Idle, Evaluating, PopPhase, LoadPhase, Called

LEMMA BeginKeeps ==
  ASSUME CallInv, Begin PROVE CallInv'
<1>1. PICK a \in Calls :
      /\ Types /\ phase = "idle" /\ args' = a /\ i' = Len(a)
      /\ phase' = IF a = <<>> THEN "call" ELSE "evaluate"
      /\ complex_args' = complex_args /\ stack' = stack /\ regs' = regs
      /\ args = <<>> /\ stack = <<>> /\ complex_args = <<>> /\ regs = Clobbered
  BY DEF CallInv, Begin, Idle
<1>2. Types'
  <2>1. Len(a) \in Nat
    <3>1. PICK n \in 0..MaxArguments : a \in [1..n -> Argument]
      BY DEF Calls
    <3>2. a \in Seq(Argument)
      BY <3>1, SeqDef
    <3> QED
      BY <3>2, LenProperties
  <2>2. complex_args' \in Seq(1..Len(args')) /\ Len(complex_args') = 0
    BY <1>1, EmptySeq
  <2>3. stack' \in Seq(Value) /\ regs' \in [Classes -> [Registers -> Value]]
    BY <1>1 DEF Types
  <2> QED
    BY <1>1, <2>1, <2>2, <2>3 DEF Types
<1>3. Len(complex_args') = 0 /\ Len(stack') = 0
  BY <1>1, EmptySeq
<1>4. Len(args') \in Nat /\ i' = Len(args') /\ Complex' \subseteq 1..Len(args')
  BY <1>1, <1>2 DEF Types, Complex
<1>5. Ranked(i)'
  <2>1. \A j \in Complex' : ~(j > Len(args')) /\ ~(j >= Len(args') + 1)
    BY <1>4
  <2>2. {j \in Complex' : j >= Len(args') + 1} = {}
    BY <2>1
  <2>3. Rank(i + 1)' = 0
    BY <1>4, <2>2, FS_EmptySet DEF Rank
  <2>4. 1..Len(complex_args') = {}
    BY <1>3
  <2> QED
    BY <1>3, <1>4, <2>1, <2>3, <2>4 DEF Ranked
<1>6. \A c \in Classes, r \in Registers : regs'[c][r] = Garbage
  BY <1>1 DEF Clobbered
<1>7. CASE a # <<>>
  <2>1. phase' = "evaluate"
    BY <1>1, <1>7
  <2>2. Evaluating'
    <3>1. i' \in 0..Len(args')
      BY <1>4
    <3> QED
      BY <1>1, <1>5, <3>1 DEF Evaluating, Clobbered
  <2> QED
    BY <1>2, <2>1, <2>2 DEF CallInv, Idle, PopPhase, LoadPhase, Called
<1>8. CASE a = <<>>
  <2>1. phase' = "call" /\ Len(args') = 0 /\ i' = 0 /\ 1..Len(args') = {}
    <3>1. Len(args') = 0
      BY <1>1, <1>8, EmptySeq
    <3> QED
      BY <1>1, <1>4, <1>8, <3>1
  <2>2. Complex' = {} /\ PushedComplex' = {} /\ PushedSimple' = {}
    BY <2>1 DEF Complex, PushedComplex, PushedSimple
  <2>3. Above(0)' = 0 /\ Later(i + 1)' = 0
    BY <2>2, FS_EmptySet DEF Above, Later
  <2>4. LoadPhase'
    <3>1. i' \in 0..Len(args') /\ Len(stack') = Above(0)' + Later(i + 1)' /\ Above(0)' <= Len(complex_args')
      BY <1>3, <2>1, <2>3
    <3>2. 1..Above(0)' = {} /\ 1..Len(stack') = {}
      BY <1>3, <2>3
    <3>3. Ranked(0)'
      BY <1>5, <2>1 DEF Ranked
    <3>4. ComplexKept' /\ OnlyHeld(StoredByLoad)'
      BY <1>6, <2>2 DEF ComplexKept, OnlyHeld
    <3> QED
      BY <2>1, <2>2, <3>1, <3>2, <3>3, <3>4 DEF LoadPhase
  <2> QED
    BY <1>2, <2>1, <2>4 DEF CallInv, Idle, Evaluating, PopPhase, Called
<1> QED
  BY <1>7, <1>8

LEMMA EvaluateKeeps ==
  ASSUME CallInv, Evaluate PROVE CallInv'
<1>1. /\ Types /\ phase = "evaluate" /\ i > 0 /\ i' = i - 1 /\ args' = args /\ phase' = phase
      /\ i \in 0..Len(args) /\ Ranked(i) /\ stack = complex_args /\ regs = Clobbered
  BY DEF CallInv, Evaluate, Evaluating
<1>2. Len(args) \in Nat /\ i \in 1..Len(args) /\ i' \in 0..Len(args) /\ i' + 1 = i /\ i' \in Nat
  <2>1. Len(args) \in Nat
    BY <1>1, ArgFacts
  <2> QED
    BY <1>1, <2>1
<1>3. PICK n \in 0..Len(args) : n = i'
  BY <1>2
<1>4. regs' = Clobbered /\ regs' \in [Classes -> [Registers -> Value]]
  BY <1>1 DEF Evaluate, Types
<1>5. /\ complex_args \in Seq(1..Len(args)) /\ stack \in Seq(Value) /\ Len(complex_args) \in Nat
      /\ \A k \in Complex : k \in Int
  BY <1>1, ArgFacts, LenProperties DEF Types
<1>6. /\ complex_args' \in Seq(1..Len(args)) /\ stack' = complex_args' /\ stack' \in Seq(Value)
      /\ Ranked(n)'
  <2>1. SUFFICES /\ complex_args' \in Seq(1..Len(args)) /\ stack' = complex_args' /\ stack' \in Seq(Value)
                 /\ Len(complex_args') = Rank(i)
                 /\ \A m \in 1..Len(complex_args') :
                       /\ complex_args'[m] \in Complex /\ complex_args'[m] > n
                       /\ Rank(complex_args'[m]) = m
                 /\ \A k \in Complex : k > n =>
                       Rank(k) \in 1..Len(complex_args') /\ complex_args'[Rank(k)] = k
    BY <1>1, <1>2, <1>3, SameArgs DEF Ranked
  <2>2. /\ Len(complex_args) = Rank(i + 1)
        /\ \A m \in 1..Len(complex_args) :
              complex_args[m] \in Complex /\ complex_args[m] > i /\ Rank(complex_args[m]) = m
        /\ \A k \in Complex : k > i => Rank(k) \in 1..Len(complex_args) /\ complex_args[Rank(k)] = k
    BY <1>1 DEF Ranked
  <2>0. n \in Int /\ i \in Int /\ i = n + 1
    <3>1. i' = i - 1 /\ i \in Nat
      BY <1>1 DEF Types
    <3>2. n = i'
      BY <1>3
    <3> QED
      BY <3>1, <3>2
  <2>3. \A k \in Complex : k > n <=> k > i \/ k = i
    BY <1>5, <2>0
  <2>4. \A m \in 1..Len(complex_args) : complex_args[m] > n
    BY <2>2, <2>3
  <2>5. CASE args[i].complex
    <3>1. /\ i \in Complex /\ Rank(i) = Len(complex_args) + 1 /\ i \in Value
          /\ complex_args' = Append(complex_args, i) /\ stack' = Append(stack, i)
      <4>1. i \in Complex
        BY <1>2, <2>5 DEF Complex
      <4>2. Rank(i) = Rank(i + 1) + 1
        BY <1>1, <4>1, RankFacts
      <4>3. i \in Value
        BY <1>1, <1>2, ArgFacts
      <4> QED
        BY <2>2, <2>5, <4>1, <4>2, <4>3 DEF Evaluate
    <3>2. /\ complex_args' \in Seq(1..Len(args)) /\ Len(complex_args') = Len(complex_args) + 1
          /\ \A m \in 1..Len(complex_args) : complex_args'[m] = complex_args[m]
          /\ complex_args'[Len(complex_args) + 1] = i
      BY <1>2, <1>5, <3>1, AppendProperties
    <3>3. stack' \in Seq(Value)
      BY <1>5, <3>1, AppendProperties
    <3>4. /\ \A m \in 1..Len(complex_args') : m \in 1..Len(complex_args) \/ m = Len(complex_args) + 1
          /\ 1..Len(complex_args) \subseteq 1..Len(complex_args')
          /\ Len(complex_args) + 1 \in 1..Len(complex_args')
      BY <1>5, <3>2
    <3>5. i > n
      BY <2>0
    <3>6. \A m \in 1..Len(complex_args') :
             /\ complex_args'[m] \in Complex /\ complex_args'[m] > n
             /\ Rank(complex_args'[m]) = m
      BY <2>2, <2>4, <3>1, <3>2, <3>4, <3>5
    <3>7. \A k \in Complex : k > n =>
             Rank(k) \in 1..Len(complex_args') /\ complex_args'[Rank(k)] = k
      BY <2>2, <2>3, <3>1, <3>2, <3>4
    <3> QED
      BY <1>1, <3>1, <3>2, <3>3, <3>6, <3>7
  <2>6. CASE ~args[i].complex
    <3>1. i \notin Complex /\ Rank(i) = Rank(i + 1)
      <4>1. i \notin Complex
        BY <2>6 DEF Complex
      <4> QED
        BY <1>1, <1>2, <4>1, RankFacts
    <3>2. complex_args' = complex_args /\ stack' = stack
      BY <2>6 DEF Evaluate
    <3> QED
      BY <1>1, <1>5, <2>2, <2>3, <2>4, <3>1, <3>2
  <2> QED
    BY <2>5, <2>6
<1>7. Types'
  BY <1>1, <1>2, <1>4, <1>6 DEF Types
<1>8. Evaluating'
  <2>1. Ranked(i)'
    BY <1>3, <1>6 DEF Ranked
  <2> QED
    BY <1>1, <1>2, <1>4, <1>6, <2>1 DEF Evaluating, Clobbered
<1> QED
  BY <1>1, <1>7, <1>8 DEF CallInv, Idle, PopPhase, LoadPhase, Called
LEMMA EvaluatedKeeps ==
  ASSUME CallInv, Evaluated PROVE CallInv'
<1>1. /\ Types /\ phase = "evaluate" /\ phase' = "pop" /\ i = 0 /\ i' = Len(complex_args)
      /\ args' = args /\ complex_args' = complex_args /\ stack' = stack /\ regs' = regs
      /\ Ranked(i) /\ stack = complex_args /\ regs = Clobbered
  BY DEF CallInv, Evaluated, Evaluating
<1>2. Ranked(0) /\ Ranked(0)'
  <2>1. Ranked(0)
    BY <1>1
  <2> QED
    BY <1>1, <2>1, SameArgs
<1>3. Len(complex_args) \in Nat /\ Len(complex_args) = Rank(1) /\ Above(Rank(1)) = 0
  <2>1. Len(complex_args) \in Nat
    BY <1>1, LenProperties DEF Types
  <2>2. Len(complex_args) = Rank(1)
    BY <1>2 DEF Ranked
  <2> QED
    BY <1>1, <2>1, <2>2, AboveFacts
<1>4. Types'
  BY <1>1, <1>3 DEF Types
<1>5. Above(i)' = 0
  <2>1. PushedComplex' = PushedComplex /\ \A k : Rank(k)' = Rank(k)
    BY <1>1, SameArgs
  <2> QED
    BY <1>1, <1>3, <2>1 DEF Above
<1>6. StoredByPop' = {}
  <2>1. \A k \in Complex : ~(Rank(k) > Rank(1))
    <3>1. \A k \in Complex : Rank(k) \in 1..Len(complex_args)
      <4>1. \A k \in Complex : k > 0
        BY <1>1, ArgFacts
      <4> QED
        BY <1>2, <4>1 DEF Ranked
    <3> QED
      BY <1>3, <3>1
  <2>2. Complex' = Complex /\ \A k : Rank(k)' = Rank(k)
    BY <1>1, SameArgs
  <2> QED
    BY <1>1, <1>3, <2>1, <2>2 DEF StoredByPop
<1>7. ComplexHeld(StoredByPop)' /\ OnlyHeld(StoredByPop)'
  BY <1>1, <1>6 DEF ComplexHeld, OnlyHeld, Clobbered
<1>8. PopPhase'
  <2>1. i' \in 0..Len(complex_args') /\ Len(stack') = i' + Above(i)' /\ Len(stack') <= Len(complex_args')
    BY <1>1, <1>3, <1>5
  <2>2. \A t \in 1..Len(stack') : stack'[t] = complex_args'[t]
    BY <1>1
  <2> QED
    BY <1>2, <1>7, <2>1, <2>2 DEF PopPhase
<1> QED
  BY <1>1, <1>4, <1>8 DEF CallInv, Idle, Evaluating, LoadPhase, Called

LEMMA PopComplexKeeps ==
  ASSUME CallInv, PopComplex PROVE CallInv'
<1>1. /\ Types /\ phase = "pop" /\ phase' = "pop" /\ i > 0 /\ i' = i - 1
      /\ args' = args /\ complex_args' = complex_args
      /\ Ranked(0) /\ i \in 0..Len(complex_args)
      /\ Len(stack) = i + Above(i) /\ Len(stack) <= Len(complex_args)
      /\ \A t \in 1..Len(stack) : stack[t] = complex_args[t]
      /\ ComplexHeld(StoredByPop) /\ OnlyHeld(StoredByPop)
      /\ Store(complex_args[i], stack[Len(stack)], args[i].class,
               SubSeq(stack, 1, Len(stack) - 1), regs)
  BY DEF CallInv, PopComplex, PopPhase
<1>2. /\ complex_args \in Seq(1..Len(args)) /\ stack \in Seq(Value)
      /\ Len(complex_args) \in Nat /\ Len(stack) \in Nat /\ Len(args) \in Nat
  BY <1>1, ArgFacts, LenProperties DEF Types
<1>3. i \in 1..Len(complex_args) /\ i \in Nat /\ i - 1 \in 0..Len(complex_args) /\ i - 1 \in Nat
      /\ Above(i) \in Nat
  <2>1. i \in Nat
    BY <1>1 DEF Types
  <2>2. Above(i) \in Nat
    BY <1>1, <2>1, AboveFacts
  <2> QED
    BY <1>1, <1>2, <2>1, <2>2
<1>4. PICK k \in Complex : complex_args[i] = k /\ Rank(k) = i
  BY <1>1, <1>3 DEF Ranked
<1>5. k \in 1..Len(args) /\ args[k].class \in Classes
  BY <1>1, ArgFacts
<1>6. Rank(1) = Len(complex_args) /\ Rank(1) <= Len(args)
  <2>1. IsFiniteSet(1..Len(args)) /\ Cardinality(1..Len(args)) = Len(args)
    <3>1. 1 \in Int /\ Len(args) \in Int
      BY <1>2
    <3>2. /\ IsFiniteSet(1..Len(args))
          /\ Cardinality(1..Len(args)) = IF 1 > Len(args) THEN 0 ELSE Len(args) - 1 + 1
      BY <3>1, FS_Interval
    <3> QED
      BY <1>2, <3>2
  <2>2. {j \in Complex : j >= 1} \subseteq 1..Len(args)
    BY <1>1, ArgFacts
  <2>3. Cardinality({j \in Complex : j >= 1}) <= Cardinality(1..Len(args))
    BY <2>1, <2>2, FS_Subset
  <2> QED
    BY <1>1, <2>1, <2>3 DEF Rank, Ranked
<1>7. i \in 1..Len(args) /\ args[i].class \in Classes
  <2>1. i \in 1..Len(args)
    BY <1>2, <1>3, <1>6
  <2> QED
    BY <1>1, <2>1, ArgFacts
<1>8. PICK v : v = stack[Len(stack)]
  OBVIOUS
<1>9. PICK s : s = SubSeq(stack, 1, Len(stack) - 1)
  OBVIOUS
<1>10. Len(stack) \in 1..Len(stack) /\ v \in Value /\ v = complex_args[i + Above(i)]
       /\ i + Above(i) \in 1..Len(complex_args)
  <2>1. Len(stack) \in 1..Len(stack)
    BY <1>1, <1>2, <1>3
  <2>2. v \in Value
    BY <1>2, <1>8, <2>1, ElementOfSeq
  <2>3. v = complex_args[i + Above(i)]
    BY <1>1, <1>8, <2>1
  <2>4. i + Above(i) \in 1..Len(complex_args)
    BY <1>1, <1>2, <2>1
  <2> QED
    BY <2>1, <2>2, <2>3, <2>4
<1>11. /\ s \in Seq(Value) /\ Len(s) = Len(stack) - 1
       /\ \A t \in 1..(Len(stack) - 1) : s[t] = stack[t]
  <2>1. 1 \in 1..(Len(stack) + 1) /\ Len(stack) - 1 \in 0..Len(stack)
    BY <1>2, <1>10
  <2>2. /\ s \in Seq(Value)
        /\ Len(s) = IF 1 <= Len(stack) - 1 THEN Len(stack) - 1 - 1 + 1 ELSE 0
        /\ \A t \in 1..(Len(stack) - 1 - 1 + 1) : s[t] = stack[1 + t - 1]
    BY <1>2, <1>9, <2>1, SubSeqProperties
  <2>3. Len(s) = Len(stack) - 1
    <3>1. Len(stack) - 1 \in Nat
      BY <1>2, <1>10
    <3>2. PICK l \in Nat : l = Len(stack) - 1
      BY <3>1
    <3>3. Len(s) = IF 1 <= l THEN l - 1 + 1 ELSE 0
      BY <2>2, <3>2
    <3> QED
      BY <3>2, <3>3
  <2>4. \A t \in 1..(Len(stack) - 1) : t \in 1..(Len(stack) - 1 - 1 + 1) /\ 1 + t - 1 = t
    BY <1>2
  <2> QED
    BY <2>2, <2>3, <2>4
<1>12. Store(k, v, args[i].class, s, regs) /\ regs \in [Classes -> [Registers -> Value]]
  BY <1>1, <1>4, <1>8, <1>9 DEF Types
<1>13. /\ stack' \in Seq(Value) /\ regs' \in [Classes -> [Registers -> Value]]
       /\ OnStack(k) => stack' = Append(s, v) /\ regs' = regs
       /\ ~OnStack(k) =>
             /\ stack' = s
             /\ regs'[args[k].class][Passed(k)] = IF args[i].class = args[k].class THEN v ELSE Garbage
             /\ \A d \in Classes, r \in Registers :
                   d # args[k].class \/ r # Passed(k) => regs'[d][r] = regs[d][r]
  BY <1>1, <1>5, <1>7, <1>10, <1>11, <1>12, StoreFacts
<1>14. Above(i - 1) = IF OnStack(k) THEN Above(i) + 1 ELSE Above(i)
  BY <1>1, <1>4, AboveFacts
<1>15. /\ Len(stack') = i - 1 + Above(i - 1) /\ Len(stack') <= Len(complex_args)
       /\ \A t \in 1..Len(stack') : stack'[t] = complex_args[t]
  <2>1. CASE OnStack(k)
    <3>1. /\ Len(stack') = Len(stack) - 1 + 1
          /\ \A t \in 1..(Len(stack) - 1) : stack'[t] = s[t]
          /\ stack'[Len(stack) - 1 + 1] = v
      <4>1. stack' = Append(s, v) /\ s \in Seq(Value) /\ v \in Value
        BY <1>10, <1>11, <1>13, <2>1
      <4>2. /\ Len(stack') = Len(s) + 1
            /\ \A t \in 1..Len(s) : stack'[t] = s[t]
            /\ stack'[Len(s) + 1] = v
        BY <4>1, AppendProperties
      <4>3. Len(s) = Len(stack) - 1
        BY <1>11
      <4> QED
        BY <4>2, <4>3
    <3>2. Len(stack) - 1 + 1 = Len(stack) /\ \A t \in 1..Len(stack) : t \in 1..(Len(stack) - 1) \/ t = Len(stack)
      BY <1>2
    <3>3. Len(stack') = Len(stack) /\ \A t \in 1..Len(stack) : stack'[t] = complex_args[t]
      BY <1>1, <1>8, <1>10, <1>11, <3>1, <3>2
    <3>4. Len(stack) = i - 1 + Above(i - 1)
      BY <1>1, <1>3, <1>14, <2>1
    <3> QED
      BY <1>1, <3>3, <3>4
  <2>2. CASE ~OnStack(k)
    <3>1. Len(stack') = Len(stack) - 1 /\ \A t \in 1..(Len(stack) - 1) : stack'[t] = stack[t]
      BY <1>11, <1>13, <2>2
    <3>2. 1..(Len(stack) - 1) \subseteq 1..Len(stack) /\ Len(stack) - 1 <= Len(complex_args)
      BY <1>1, <1>2
    <3>3. Len(stack) - 1 = i - 1 + Above(i - 1)
      BY <1>1, <1>3, <1>14, <2>2
    <3> QED
      BY <1>1, <3>1, <3>2, <3>3
  <2> QED
    BY <2>1, <2>2
<1>16. /\ \A h : Rank(h)' = Rank(h) /\ Held(h)' = Held(h) /\ Passed(h)' = Passed(h)
       /\ \A h : OnStack(h)' <=> OnStack(h)
       /\ \A h : Above(Rank(h))' = Above(Rank(h))
       /\ Complex' = Complex /\ Above(i - 1)' = Above(i' - 1) /\ Above(i)' = Above(i - 1)
  <2>1. PushedComplex' = PushedComplex /\ \A h : Rank(h)' = Rank(h)
    BY <1>1, SameArgs
  <2>2. \A h : Above(Rank(h))' = Above(Rank(h))
    BY <2>1 DEF Above
  <2>3. Above(i - 1)' = Above(i' - 1) /\ Above(i)' = Above(i - 1)
    BY <1>1, <2>1 DEF Above
  <2> QED
    BY <1>1, <2>1, <2>2, <2>3, SameArgs
<1>17. /\ StoredByPop' = StoredByPop \union {k} /\ k \notin StoredByPop
       /\ StoredByPop \subseteq Complex
  <2>1. \A h \in Complex : (Rank(h) > i - 1 <=> Rank(h) > i \/ h = k) /\ (h = k => ~(Rank(h) > i))
    <3>1. \A h \in Complex : Rank(h) \in Nat /\ (Rank(h) = i => h = k)
      <4>1. \A h \in Complex : h \in Int
        BY <1>1, ArgFacts
      <4> QED
        BY <1>1, <1>4, <4>1, RankFacts
    <3> QED
      BY <1>3, <1>4, <3>1
  <2> QED
    BY <1>1, <1>16, <2>1 DEF StoredByPop
<1>18. ASSUME NEW h \in StoredByPop, ~OnStack(h)
       PROVE  /\ args[h].class \in Classes /\ Passed(h) \in Registers
              /\ ~OnStack(k) => args[h].class # args[k].class \/ Passed(h) # Passed(k)
  <2>1. h \in 1..Len(args) /\ h # k
    BY <1>1, <1>17, ArgFacts
  <2> QED
    BY <1>1, <1>5, <1>18, <2>1, PassedFacts, ArgFacts
<1>19. ASSUME NEW h \in StoredByPop', ~OnStack(h)
       PROVE  /\ Rank(h) + Above(Rank(h)) \in 1..Len(complex_args)
              /\ regs'[args[h].class][Passed(h)] = Held(h)
  <2>1. CASE h = k
    <3>1. Held(k) = IF args[i].class = args[k].class THEN v ELSE Garbage
      BY <1>4, <1>10 DEF Held
    <3> QED
      BY <1>4, <1>10, <1>13, <1>19, <2>1, <3>1
  <2>2. CASE h # k
    <3>1. h \in StoredByPop
      BY <1>17, <2>2
    <3>2. /\ Rank(h) + Above(Rank(h)) \in 1..Len(complex_args)
          /\ regs[args[h].class][Passed(h)] = Held(h)
      BY <1>1, <1>19, <3>1 DEF ComplexHeld
    <3>3. regs'[args[h].class][Passed(h)] = regs[args[h].class][Passed(h)]
      BY <1>13, <1>18, <1>19, <3>1
    <3> QED
      BY <3>2, <3>3
  <2> QED
    BY <2>1, <2>2
<1>20. ASSUME NEW c \in Classes, NEW r \in Registers, regs'[c][r] # Garbage
       PROVE  \E h \in StoredByPop' : ~OnStack(h) /\ args[h].class = c /\ Passed(h) = r
  <2>1. CASE ~OnStack(k) /\ args[k].class = c /\ Passed(k) = r
    BY <1>17, <2>1
  <2>2. CASE ~(~OnStack(k) /\ args[k].class = c /\ Passed(k) = r)
    <3>1. regs[c][r] # Garbage
      BY <1>13, <1>20, <2>2
    <3> QED
      BY <1>1, <1>17, <3>1 DEF OnlyHeld
  <2> QED
    BY <2>1, <2>2
<1>21. ComplexHeld(StoredByPop)' /\ OnlyHeld(StoredByPop)'
  BY <1>1, <1>16, <1>19, <1>20 DEF ComplexHeld, OnlyHeld
<1>22. Ranked(0)'
  BY <1>1, SameArgs
<1>23. PopPhase'
  <2>1. i' \in 0..Len(complex_args') /\ Len(stack') = i' + Above(i)' /\ Len(stack') <= Len(complex_args')
    BY <1>1, <1>3, <1>15, <1>16
  <2>2. \A t \in 1..Len(stack') : stack'[t] = complex_args'[t]
    BY <1>1, <1>15
  <2> QED
    BY <1>21, <1>22, <2>1, <2>2 DEF PopPhase
<1>24. Types'
  <2>1. i' \in Nat
    BY <1>1, <1>3
  <2> QED
    BY <1>1, <1>13, <2>1 DEF Types
<1> QED
  BY <1>1, <1>23, <1>24 DEF CallInv, Idle, Evaluating, LoadPhase, Called

LEMMA PoppedKeeps ==
  ASSUME CallInv, Popped PROVE CallInv'
<1>1. /\ Types /\ phase = "pop" /\ phase' = "load" /\ i = 0 /\ i' = Len(args)
      /\ args' = args /\ complex_args' = complex_args /\ stack' = stack /\ regs' = regs
      /\ Ranked(0) /\ Len(stack) = i + Above(i) /\ Len(stack) <= Len(complex_args)
      /\ \A t \in 1..Len(stack) : stack[t] = complex_args[t]
      /\ ComplexHeld(StoredByPop) /\ OnlyHeld(StoredByPop)
  BY DEF CallInv, Popped, PopPhase
<1>2. Len(args) \in Nat /\ Complex \subseteq 1..Len(args) /\ PushedSimple \subseteq 1..Len(args)
  BY <1>1, ArgFacts, LaterFacts
<1>3. Types'
  BY <1>1, <1>2 DEF Types
<1>4. Len(stack) = Above(0) /\ Above(0) \in Nat
  <2>1. Above(0) \in Nat
    BY <1>1, AboveFacts
  <2> QED
    BY <1>1, <2>1
<1>5. StoredByPop = Complex /\ StoredByLoad' = Complex
  <2>1. \A k \in Complex : Rank(k) > i
    <3>1. \A k \in Complex : k > 0
      BY <1>2
    <3>2. \A k \in Complex : Rank(k) \in 1..Len(complex_args)
      BY <1>1, <3>1 DEF Ranked
    <3> QED
      BY <1>1, <3>2
  <2>2. \A k \in 1..Len(args) : ~(k > Len(args))
    BY <1>2
  <2>3. Complex' = Complex
    BY <1>1, SameArgs
  <2> QED
    BY <1>1, <2>1, <2>2, <2>3 DEF StoredByPop, StoredByLoad
<1>6. ComplexKept' /\ OnlyHeld(StoredByLoad)'
  <2>1. PICK ks : ks = Complex
    OBVIOUS
  <2>2. ComplexHeld(ks) /\ OnlyHeld(ks) /\ ks = Complex' /\ ks = StoredByLoad'
    BY <1>1, <1>5, <2>1, SameArgs
  <2>3. ComplexHeld(ks)' /\ OnlyHeld(ks)'
    BY <1>1, <2>2, SameRegisters
  <2>4. \A k : ~Lost(k, i)'
    <3>1. \A j \in 1..Len(args) : ~(j > Len(args))
      BY <1>2
    <3> QED
      BY <1>1, <3>1 DEF Lost
  <2>5. ComplexKept'
    BY <2>2, <2>3, <2>4 DEF ComplexHeld, ComplexKept, Kept
  <2> QED
    BY <2>2, <2>3, <2>5 DEF OnlyHeld
<1>7. /\ Above(0)' = Above(0) /\ Later(i + 1)' = 0 /\ PushedSimple' = PushedSimple
      /\ Ranked(0)'
  <2>1. PushedSimple' = PushedSimple
    BY <1>1, SameArgs
  <2>2. Later(i + 1)' = Later(Len(args) + 1)
    BY <1>1, <2>1 DEF Later
  <2> QED
    BY <1>1, <2>1, <2>2, LaterFacts, SameArgs
<1>8. LoadPhase'
  <2>1. i' \in 0..Len(args') /\ Len(stack') = Above(0)' + Later(i + 1)' /\ Above(0)' <= Len(complex_args')
    BY <1>1, <1>2, <1>4, <1>7
  <2>2. \A t \in 1..Above(0)' : stack'[t] = complex_args'[t]
    BY <1>1, <1>4, <1>7
  <2>3. \A k \in 1..Len(args') : ~(k > i')
    BY <1>1, <1>2
  <2>4. \A t \in 1..Len(stack') : ~(t > Above(0)')
    BY <1>1, <1>4, <1>7
  <2> QED
    BY <1>1, <1>2, <1>6, <1>7, <2>1, <2>2, <2>3, <2>4 DEF LoadPhase
<1> QED
  BY <1>1, <1>3, <1>8 DEF CallInv, Idle, Evaluating, PopPhase, Called
LEMMA LoadSimpleKeeps ==
  ASSUME CallInv, LoadSimple PROVE CallInv'
<1>1. /\ Types /\ phase = "load" /\ phase' = "load" /\ i > 0 /\ i' = i - 1
      /\ args' = args /\ complex_args' = complex_args
      /\ Ranked(0) /\ i \in 0..Len(args)
      /\ Len(stack) = Above(0) + Later(i + 1) /\ Above(0) <= Len(complex_args)
      /\ \A t \in 1..Above(0) : stack[t] = complex_args[t]
      /\ \A k \in PushedSimple : k > i =>
            Above(0) + Later(k) \in 1..Len(stack) /\ stack[Above(0) + Later(k)] = k
      /\ \A t \in 1..Len(stack) : t > Above(0) => stack[t] \in PushedSimple
      /\ \A k \in 1..Len(args) : ~args[k].complex /\ ~OnStack(k) /\ k > i => Kept(k, k)
      /\ ComplexKept /\ OnlyHeld(StoredByLoad)
      /\ IF args[i].complex THEN stack' = stack /\ regs' = regs
         ELSE Store(i, i, args[i].class, stack, AfterValue(i))
  BY DEF CallInv, LoadSimple, LoadPhase
<1>2. /\ Len(args) \in Nat /\ Len(stack) \in Nat /\ stack \in Seq(Value)
      /\ regs \in [Classes -> [Registers -> Value]]
      /\ Complex \subseteq 1..Len(args) /\ PushedSimple \subseteq 1..Len(args)
  BY <1>1, ArgFacts, LaterFacts, LenProperties DEF Types
<1>3. i \in 1..Len(args) /\ i \in Nat /\ i - 1 \in 0..Len(args) /\ i - 1 \in Nat /\ i - 1 + 1 = i
  <2>1. i \in Nat
    BY <1>1 DEF Types
  <2> QED
    BY <1>1, <1>2, <2>1
<1>4. i \in Value /\ i # Garbage /\ args[i].class \in Classes
  BY <1>1, <1>3, ArgFacts
<1>5. /\ Above(0) \in Nat /\ Later(i + 1) \in Nat /\ Later(i) \in Nat
      /\ i \in PushedSimple => Later(i) = Later(i + 1) + 1
      /\ i \notin PushedSimple => Later(i) = Later(i + 1)
  <2>1. i + 1 \in Int /\ i \in Int /\ 0 \in Int
    BY <1>3
  <2> QED
    BY <1>1, <2>1, AboveFacts, LaterFacts
<1>6. \A k \in 1..Len(args) : k > i - 1 <=> k > i \/ k = i
  BY <1>2, <1>3
<1>7. /\ Complex' = Complex /\ PushedSimple' = PushedSimple /\ Ranked(0)'
      /\ \A k : Passed(k)' = Passed(k) /\ Held(k)' = Held(k) /\ Rank(k)' = Rank(k)
      /\ \A k : OnStack(k)' <=> OnStack(k)
      /\ Above(0)' = Above(0) /\ \A k : Later(k)' = Later(k)
      /\ \A k : Above(Rank(k))' = Above(Rank(k))
      /\ Later(i + 1)' = Later(i)
  <2>1. /\ PushedComplex' = PushedComplex /\ PushedSimple' = PushedSimple
        /\ \A k : Rank(k)' = Rank(k)
    BY <1>1, SameArgs
  <2>2. \A k : Above(Rank(k))' = Above(Rank(k))
    BY <2>1 DEF Above
  <2>3. i' + 1 = i
    BY <1>1, <1>3
  <2>4. Later(i + 1)' = Later(i)
    BY <2>1, <2>3 DEF Later
  <2> QED
    BY <1>1, <2>1, <2>2, <2>4, SameArgs
<1>8. StoredByLoad' = StoredByLoad \union {i}
  <2>1. StoredByLoad' = Complex \union {k \in 1..Len(args) : k > i - 1}
    BY <1>1, <1>7 DEF StoredByLoad
  <2> QED
    BY <1>3, <1>6, <2>1 DEF StoredByLoad
<1>9. \A k : Lost(k, i)' <=>
         \/ Lost(k, i)
         \/ /\ ~args[i].complex /\ (args[k].complex \/ i < k)
            /\ Passed(k) \in args[i].clobbers[args[k].class]
  <2> SUFFICES ASSUME NEW k
               PROVE  Lost(k, i)' <=>
                         \/ Lost(k, i)
                         \/ /\ ~args[i].complex /\ (args[k].complex \/ i < k)
                            /\ Passed(k) \in args[i].clobbers[args[k].class]
    OBVIOUS
  <2>1. Passed(k)' = Passed(k)
    BY <1>7
  <2>2. Lost(k, i)' <=>
           \E j \in 1..Len(args) :
               /\ j > i - 1 /\ ~args[j].complex /\ (args[k].complex \/ j < k)
               /\ Passed(k) \in args[j].clobbers[args[k].class]
    BY <1>1, <2>1 DEF Lost
  <2> QED
    BY <1>3, <1>6, <2>2 DEF Lost
<1>10. CASE args[i].complex
  <2>1. stack' = stack /\ regs' = regs /\ i \notin PushedSimple /\ i \in Complex
    BY <1>1, <1>3, <1>10 DEF PushedSimple, Complex
  <2>2. Types'
    BY <1>1, <1>3, <2>1 DEF Types
  <2>3. StoredByLoad' = StoredByLoad
    BY <1>8, <2>1 DEF StoredByLoad
  <2>4. ComplexKept' /\ OnlyHeld(StoredByLoad)'
    <3>1. PICK ls : ls = StoredByLoad
      OBVIOUS
    <3>2. OnlyHeld(ls) /\ ls = StoredByLoad'
      BY <1>1, <2>3, <3>1
    <3>3. OnlyHeld(ls)'
      BY <1>1, <2>1, <3>2, SameRegisters
    <3>4. \A k : Lost(k, i)' <=> Lost(k, i)
      BY <1>9, <1>10
    <3>5. \A k \in Complex : Kept(k, Held(k))' <=> Kept(k, Held(k))
      BY <1>1, <1>7, <2>1, <3>4 DEF Kept
    <3>6. ComplexKept'
      BY <1>1, <1>7, <3>5 DEF ComplexKept
    <3> QED
      BY <3>2, <3>3, <3>6 DEF OnlyHeld
  <2>5. \A k \in PushedSimple : k > i - 1 => k > i
    BY <1>2, <1>6, <2>1
  <2>6. \A k \in 1..Len(args) : ~args[k].complex /\ k > i - 1 => k > i
    BY <1>6, <1>10
  <2>7. /\ i' \in 0..Len(args') /\ Len(stack') = Above(0)' + Later(i + 1)'
        /\ Above(0)' <= Len(complex_args')
    BY <1>1, <1>3, <1>5, <1>7, <2>1
  <2>8. \A k \in PushedSimple' : k > i' =>
           Above(0)' + Later(k)' \in 1..Len(stack') /\ stack'[Above(0)' + Later(k)'] = k
    BY <1>1, <1>7, <2>1, <2>5
  <2>9. \A t \in 1..Above(0)' : stack'[t] = complex_args'[t]
    BY <1>1, <1>7, <2>1
  <2>10. \A k \in 1..Len(args') : ~args'[k].complex /\ ~OnStack(k)' /\ k > i' => Kept(k, k)'
    <3>1. \A k : Lost(k, i)' <=> Lost(k, i)
      BY <1>9, <1>10
    <3>2. \A k : Kept(k, k)' <=> Kept(k, k)
      BY <1>1, <1>7, <2>1, <3>1 DEF Kept
    <3> QED
      BY <1>1, <1>7, <2>1, <2>6, <3>2
  <2>11. \A t \in 1..Len(stack') : t > Above(0)' => stack'[t] \in PushedSimple'
    BY <1>1, <1>7, <2>1
  <2>12. LoadPhase'
    BY <1>1, <1>7, <2>4, <2>7, <2>8, <2>9, <2>10, <2>11 DEF LoadPhase
  <2> QED
    BY <1>1, <2>2, <2>12 DEF CallInv, Idle, Evaluating, PopPhase, Called
<1>11. CASE ~args[i].complex
  <2>0. PICK g \in [Classes -> [Registers -> Value]] :
           /\ g = AfterValue(i)
           /\ \A c \in Classes, r \in Registers :
                 g[c][r] = IF r \in args[i].clobbers[c] THEN Garbage ELSE regs[c][r]
    BY <1>1, AfterValueFacts
  <2>1. /\ stack' \in Seq(Value) /\ regs' \in [Classes -> [Registers -> Value]]
        /\ OnStack(i) => stack' = Append(stack, i) /\ regs' = g
        /\ ~OnStack(i) =>
              /\ stack' = stack
              /\ regs'[args[i].class][Passed(i)] = i
              /\ \A d \in Classes, r \in Registers :
                    d # args[i].class \/ r # Passed(i) => regs'[d][r] = g[d][r]
    <3>1. Store(i, i, args[i].class, stack, g)
      BY <1>1, <1>11, <2>0
    <3> QED
      BY <1>1, <1>2, <1>3, <1>4, <3>1, StoreFacts
  <2>2. i \notin Complex /\ (i \in PushedSimple <=> OnStack(i))
    BY <1>3, <1>11 DEF Complex, PushedSimple
  <2>3. Types'
    <3>1. i' \in Nat
      BY <1>1, <1>3
    <3> QED
      BY <1>1, <2>1, <3>1 DEF Types
  <2>4. /\ Len(stack') = Above(0) + Later(i)
        /\ \A t \in 1..Len(stack) : stack'[t] = stack[t]
        /\ 1..Len(stack) \subseteq 1..Len(stack')
        /\ OnStack(i) => Above(0) + Later(i) \in 1..Len(stack') /\ stack'[Above(0) + Later(i)] = i
        /\ \A t \in 1..Len(stack') : t \in 1..Len(stack) \/ (OnStack(i) /\ stack'[t] = i)
    <3>1. CASE OnStack(i)
      <4>1. /\ Len(stack') = Len(stack) + 1 /\ \A t \in 1..Len(stack) : stack'[t] = stack[t]
            /\ stack'[Len(stack) + 1] = i
        BY <1>2, <1>4, <2>1, <3>1, AppendProperties
      <4>2. Len(stack) + 1 = Above(0) + Later(i)
        BY <1>1, <1>5, <2>2, <3>1
      <4>3. /\ 1..Len(stack) \subseteq 1..(Len(stack) + 1) /\ Len(stack) + 1 \in 1..(Len(stack) + 1)
            /\ \A t \in 1..(Len(stack) + 1) : t \in 1..Len(stack) \/ t = Len(stack) + 1
        BY <1>2
      <4>4. Len(stack') = Above(0) + Later(i) /\ 1..Len(stack) \subseteq 1..Len(stack')
        BY <4>1, <4>2, <4>3
      <4>5. Above(0) + Later(i) \in 1..Len(stack') /\ stack'[Above(0) + Later(i)] = i
        BY <4>1, <4>2, <4>3
      <4>6. \A t \in 1..Len(stack') : t \in 1..Len(stack) \/ (OnStack(i) /\ stack'[t] = i)
        BY <3>1, <4>1, <4>3
      <4> QED
        BY <4>1, <4>4, <4>5, <4>6
    <3>2. CASE ~OnStack(i)
      <4>1. stack' = stack /\ Len(stack') = Above(0) + Later(i)
        BY <1>1, <1>5, <2>1, <2>2, <3>2
      <4> QED
        BY <3>2, <4>1
    <3> QED
      BY <3>1, <3>2
  <2>5. \A t \in 1..Above(0) : stack'[t] = complex_args[t]
    <3>1. 1..Above(0) \subseteq 1..Len(stack)
      BY <1>1, <1>2, <1>5
    <3> QED
      BY <1>1, <2>4, <3>1
  <2>6. \A k \in PushedSimple : k > i - 1 =>
           Above(0) + Later(k) \in 1..Len(stack') /\ stack'[Above(0) + Later(k)] = k
    <3> SUFFICES ASSUME NEW k \in PushedSimple, k > i - 1
                 PROVE  Above(0) + Later(k) \in 1..Len(stack') /\ stack'[Above(0) + Later(k)] = k
      OBVIOUS
    <3>1. k > i \/ k = i
      BY <1>2, <1>6
    <3>2. CASE k > i
      BY <1>1, <2>4, <3>2
    <3>3. CASE k = i
      BY <2>2, <2>4, <3>3
    <3> QED
      BY <3>1, <3>2, <3>3
  <2>7. ASSUME NEW k \in 1..Len(args), k # i, ~OnStack(k), args[k].complex \/ k > i
        PROVE  \A v : Kept(k, v) =>
                  regs'[args[k].class][Passed(k)] = IF Lost(k, i)' THEN Garbage ELSE v
    <3>1. /\ args[k].class \in Classes /\ Passed(k) \in Registers
          /\ args[k].class # args[i].class \/ Passed(k) # Passed(i)
      BY <1>1, <1>3, <2>7, PassedFacts, ArgFacts
    <3>2. regs'[args[k].class][Passed(k)] = g[args[k].class][Passed(k)]
      BY <2>1, <3>1
    <3>3. Lost(k, i)' <=> Lost(k, i) \/ Passed(k) \in args[i].clobbers[args[k].class]
      BY <1>3, <1>9, <1>11, <2>7
    <3> QED
      BY <2>0, <3>1, <3>2, <3>3 DEF Kept
  <2>8. ComplexKept'
    <3>1. ASSUME NEW k \in Complex, ~OnStack(k)
          PROVE  /\ Rank(k) + Above(Rank(k)) \in 1..Len(complex_args)
                 /\ regs'[args[k].class][Passed(k)] = IF Lost(k, i)' THEN Garbage ELSE Held(k)
      <4>1. Rank(k) + Above(Rank(k)) \in 1..Len(complex_args) /\ Kept(k, Held(k))
        BY <1>1, <3>1 DEF ComplexKept
      <4>2. k \in 1..Len(args) /\ k # i /\ args[k].complex
        BY <1>2, <2>2 DEF Complex
      <4> QED
        BY <2>7, <3>1, <4>1, <4>2
    <3> QED
      BY <1>1, <1>7, <3>1 DEF ComplexKept, Kept
  <2>9. OnlyHeld(StoredByLoad)'
    <3>1. ASSUME NEW c \in Classes, NEW r \in Registers, regs'[c][r] # Garbage
          PROVE  \E h \in StoredByLoad' : ~OnStack(h) /\ args[h].class = c /\ Passed(h) = r
      <4>1. CASE ~OnStack(i) /\ args[i].class = c /\ Passed(i) = r
        BY <1>8, <4>1
      <4>2. CASE ~(~OnStack(i) /\ args[i].class = c /\ Passed(i) = r)
        <5>1. regs[c][r] # Garbage
          BY <2>0, <2>1, <3>1, <4>2
        <5> QED
          BY <1>1, <1>8, <5>1 DEF OnlyHeld
      <4> QED
        BY <4>1, <4>2
    <3> QED
      BY <1>1, <1>7, <3>1 DEF OnlyHeld
  <2>10. /\ i' \in 0..Len(args') /\ Len(stack') = Above(0)' + Later(i + 1)'
         /\ Above(0)' <= Len(complex_args')
    BY <1>1, <1>3, <1>7, <2>4
  <2>11. \A k \in PushedSimple' : k > i' =>
            Above(0)' + Later(k)' \in 1..Len(stack') /\ stack'[Above(0)' + Later(k)'] = k
    BY <1>1, <1>7, <2>6
  <2>12. \A t \in 1..Above(0)' : stack'[t] = complex_args'[t]
    BY <1>1, <1>7, <2>5
  <2>13. \A k \in 1..Len(args') : ~args'[k].complex /\ ~OnStack(k)' /\ k > i' => Kept(k, k)'
    <3> SUFFICES ASSUME NEW k \in 1..Len(args), ~args[k].complex, ~OnStack(k), k > i - 1
                 PROVE  regs'[args[k].class][Passed(k)] = IF Lost(k, i)' THEN Garbage ELSE k
      BY <1>1, <1>7 DEF Kept
    <3>1. CASE k = i
      <4>1. ~Lost(k, i)'
        <5>1. ~Lost(k, i)
          BY <1>2, <1>3, <1>11, <3>1 DEF Lost
        <5>2. ~(i < k)
          BY <1>3, <3>1
        <5> QED
          BY <1>9, <1>11, <3>1, <5>1, <5>2
      <4> QED
        BY <2>1, <3>1, <4>1
    <3>2. CASE k # i
      <4>1. k > i /\ Kept(k, k)
        BY <1>1, <1>6, <3>2
      <4> QED
        BY <2>7, <3>2, <4>1
    <3> QED
      BY <3>1, <3>2
  <2>14. \A t \in 1..Len(stack') : t > Above(0)' => stack'[t] \in PushedSimple'
    BY <1>1, <1>7, <2>2, <2>4
  <2>15. LoadPhase'
    BY <1>1, <1>7, <2>8, <2>9, <2>10, <2>11, <2>12, <2>13, <2>14 DEF LoadPhase
  <2> QED
    BY <1>1, <2>3, <2>15 DEF CallInv, Idle, Evaluating, PopPhase, Called
<1> QED
  BY <1>10, <1>11

\* The steps that leave what has been stored.
LEMMA StoredStays ==
  ASSUME Types, LoadPhase, phase \in {"load", "call", "callee", "returned"},
         phase' \in {"load", "call", "callee", "returned"}, phase' # "load" => i = 0,
         args' = args, i' = i, complex_args' = complex_args, stack' = stack, regs' = regs
  PROVE  Types' /\ LoadPhase'
<1>1. Types'
  BY DEF Types
<1>2. /\ Complex' = Complex /\ PushedSimple' = PushedSimple /\ (Ranked(0)' <=> Ranked(0))
      /\ \A k : Passed(k)' = Passed(k) /\ Later(k)' = Later(k)
      /\ \A k : OnStack(k)' <=> OnStack(k)
      /\ Above(0)' = Above(0) /\ Later(i + 1)' = Later(i + 1)
  <2>1. PushedSimple' = PushedSimple
    BY SameArgs
  <2>2. Later(i + 1)' = Later(i + 1)
    BY <2>1 DEF Later
  <2> QED
    BY <2>1, <2>2, SameArgs
<1>3. StoredByLoad' = StoredByLoad
  BY <1>2 DEF StoredByLoad
<1>4. ComplexKept' /\ OnlyHeld(StoredByLoad)' /\ \A k : Kept(k, k)' <=> Kept(k, k)
  <2>1. PICK ls : ls = StoredByLoad
    OBVIOUS
  <2>2. ComplexKept /\ OnlyHeld(ls) /\ ls = StoredByLoad'
    BY <1>3, <2>1 DEF LoadPhase
  <2>3. ComplexKept' /\ OnlyHeld(ls)' /\ \A k : Kept(k, k)' <=> Kept(k, k)
    BY <2>2, SameRegisters
  <2> QED
    BY <2>2, <2>3 DEF OnlyHeld
<1>5. LoadPhase'
  BY <1>2, <1>4 DEF LoadPhase
<1> QED
  BY <1>1, <1>5

LEMMA LaterStepsKeep ==
  ASSUME CallInv, Loaded \/ Call \/ Release PROVE CallInv'
<1>1. Types /\ LoadPhase /\ Called
  BY DEF CallInv
<1>2. /\ args' = args /\ i' = i /\ complex_args' = complex_args /\ stack' = stack /\ regs' = regs
      /\ phase \in {"load", "call", "callee"} /\ phase' \in {"call", "callee", "returned"}
      /\ i = 0
  BY <1>1 DEF Loaded, Call, Release, LoadPhase
<1>3. Types' /\ LoadPhase'
  BY <1>1, <1>2, StoredStays
<1>4. ASSUME phase' = "callee" PROVE params' = [k \in 1..Len(args') |-> Parameter(k)']
  <2>1. params' = [k \in 1..Len(args) |-> Parameter(k)]
    BY <1>4 DEF Loaded, Call, Release
  <2>2. \A k : Parameter(k)' = Parameter(k)
    BY <1>2, SameArgs DEF Parameter, Slot
  <2> QED
    BY <1>2, <2>1, <2>2
<1>5. ASSUME phase' = "returned"
      PROVE  released' = IF Len(args') <= MAX_REGISTER_ARGUMENT_COUNT THEN 0
                         ELSE Len(args') - MAX_REGISTER_ARGUMENT_COUNT
  BY <1>2, <1>5 DEF Loaded, Call, Release
<1>6. Called'
  BY <1>4, <1>5 DEF Called
<1> QED
  BY <1>2, <1>3, <1>6 DEF CallInv, Idle, Evaluating, PopPhase

LEMMA FinishKeeps ==
  ASSUME CallInv, Finish PROVE CallInv'
<1>1. /\ args' = <<>> /\ phase' = "idle" /\ i' = 0 /\ complex_args' = <<>> /\ stack' = <<>>
      /\ regs' = Clobbered
  BY DEF Finish
<1>2. Garbage \in Value /\ 0 \in 0..MaxArguments
  BY CallAssumption DEF Garbage, Value
<1>3. args' \in Calls
  <2>1. <<>> \in [1..0 -> Argument]
    <3>1. 1..0 = {}
      OBVIOUS
    <3> QED
      BY <3>1
  <2> QED
    BY <1>1, <1>2, <2>1 DEF Calls
<1>4. complex_args' \in Seq(1..Len(args')) /\ stack' \in Seq(Value)
  BY <1>1, EmptySeq
<1>5. regs' \in [Classes -> [Registers -> Value]]
  BY <1>1, <1>2 DEF Clobbered
<1>6. Types'
  BY <1>1, <1>3, <1>4, <1>5 DEF Types
<1> QED
  BY <1>1, <1>6 DEF CallInv, Idle, Evaluating, PopPhase, LoadPhase, Called, Clobbered

LEMMA StutterKeeps ==
  ASSUME CallInv, UNCHANGED vars PROVE CallInv'
<1>1. /\ args' = args /\ phase' = phase /\ i' = i /\ complex_args' = complex_args
      /\ stack' = stack /\ regs' = regs /\ params' = params /\ released' = released
      /\ Types /\ Idle /\ Evaluating /\ PopPhase /\ LoadPhase /\ Called
  BY DEF vars, CallInv
<1>2. Types'
  BY <1>1 DEF Types
<1>3. Idle' /\ Evaluating'
  <2>1. Ranked(i)' <=> Ranked(i)
    BY <1>1, SameArgs DEF Ranked
  <2> QED
    BY <1>1, <2>1 DEF Idle, Evaluating, Clobbered
<1>4. PopPhase'
  <2>1. /\ PushedComplex' = PushedComplex /\ Complex' = Complex /\ (Ranked(0)' <=> Ranked(0))
        /\ \A k : Rank(k)' = Rank(k)
    BY <1>1, SameArgs
  <2>2. Above(i)' = Above(i) /\ StoredByPop' = StoredByPop
    BY <1>1, <2>1 DEF Above, StoredByPop
  <2>3. (ComplexHeld(StoredByPop) /\ OnlyHeld(StoredByPop)) =>
           (ComplexHeld(StoredByPop)' /\ OnlyHeld(StoredByPop)')
    <3>1. PICK ks : ks = StoredByPop
      OBVIOUS
    <3>2. ComplexHeld(ks)' <=> ComplexHeld(ks)
      BY <1>1, SameRegisters
    <3>3. OnlyHeld(ks)' <=> OnlyHeld(ks)
      BY <1>1, SameRegisters
    <3> QED
      BY <2>2, <3>1, <3>2, <3>3 DEF ComplexHeld, OnlyHeld
  <2> QED
    BY <1>1, <2>1, <2>2, <2>3 DEF PopPhase
<1>5. LoadPhase'
  <2>1. CASE phase \in {"load", "call", "callee", "returned"}
    <3>1. phase' # "load" => i = 0
      BY <1>1, <2>1 DEF LoadPhase
    <3> QED
      BY <1>1, <2>1, <3>1, StoredStays
  <2>2. CASE phase \notin {"load", "call", "callee", "returned"}
    BY <1>1, <2>2 DEF LoadPhase
  <2> QED
    BY <2>1, <2>2
<1>6. Called'
  <2>1. \A k : Parameter(k)' = Parameter(k)
    BY <1>1, SameArgs DEF Parameter, Slot
  <2> QED
    BY <1>1, <2>1 DEF Called
<1> QED
  BY <1>2, <1>3, <1>4, <1>5, <1>6 DEF CallInv
-----------------------------------------------------------------------------
\* The invariant holds: what has been stored is where it belongs, and the stack holds
\* what has been pushed and not popped.
THEOREM CallInvariant == Spec => []CallInv
<1>1. Init => CallInv
  BY CallInit
<1>2. CallInv /\ [Next]_vars => CallInv'
  BY BeginKeeps, EvaluateKeeps, EvaluatedKeeps, PopComplexKeeps, PoppedKeeps, LoadSimpleKeeps,
     LaterStepsKeep, FinishKeeps, StutterKeeps DEF Next
<1> QED
  BY <1>1, <1>2, PTL DEF Spec

-----------------------------------------------------------------------------
\* A store leaves all registers but one alone.
LEMMA StoreElsewhere ==
  ASSUME Types, NEW k \in 1..Len(args), NEW v, NEW c, NEW s,
         NEW g \in [Classes -> [Registers -> Value]], Store(k, v, c, s, g),
         NEW d \in Classes, NEW r \in Registers,
         OnStack(k) \/ d # args[k].class \/ r # Passed(k)
  PROVE  regs'[d][r] = g[d][r]
<1>1. args[k].class \in Classes
  BY ArgFacts
<1>2. CASE OnStack(k)
  BY <1>2 DEF Store
<1>3. CASE ~OnStack(k)
  <2>1. Passed(k) \in Registers
    BY <1>3, PassedFacts
  <2>2. PICK w : regs' = [g EXCEPT ![args[k].class][Passed(k)] = w]
    BY <1>3 DEF Store
  <2> QED
    BY <1>1, <1>3, <2>1, <2>2
<1> QED
  BY <1>2, <1>3

\* An argument that is stored takes no register of those stored before.
LEMMA FreshRegister ==
  ASSUME Types, NEW ks, ks \subseteq 1..Len(args), OnlyHeld(ks),
         NEW k \in 1..Len(args), k \notin ks,
         NEW c \in Classes, NEW r \in Registers, regs[c][r] # Garbage
  PROVE  c # args[k].class \/ r # Passed(k)
<1>1. PICK h \in ks : ~OnStack(h) /\ args[h].class = c /\ Passed(h) = r
  BY DEF OnlyHeld
<1>2. h \in 1..Len(args) /\ h # k
  OBVIOUS
<1> QED
  BY <1>1, <1>2, PassedFacts

LEMMA StepKeepsRegisters ==
  ASSUME CallInv, Next, phase' # "idle", NEW c \in Classes, NEW r \in Registers,
         regs[c][r] # Garbage
  PROVE  \/ regs'[c][r] = regs[c][r]
         \/ phase = "load" /\ ~NoneClobbered /\ ~args[i].complex /\ r \in args[i].clobbers[c]
<1>1. /\ Types /\ Complex \subseteq 1..Len(args)
      /\ regs \in [Classes -> [Registers -> Value]]
  BY ArgFacts DEF CallInv, Types
<1>2. CASE Evaluate
  BY <1>2 DEF Evaluate, CallInv, Evaluating, Clobbered
<1>3. CASE PopComplex
  <2>1. /\ Ranked(0) /\ OnlyHeld(StoredByPop) /\ i \in 0..Len(complex_args) /\ i > 0
    BY <1>3 DEF PopComplex, CallInv, PopPhase
  <2>2. PICK k \in Complex : complex_args[i] = k /\ Rank(k) = i
    <3>1. Len(complex_args) \in Nat
      BY <1>1, LenProperties DEF Types
    <3>2. i \in 1..Len(complex_args)
      BY <2>1, <3>1
    <3> QED
      BY <2>1, <3>2 DEF Ranked
  <2>3. k \in 1..Len(args) /\ k \notin StoredByPop /\ StoredByPop \subseteq 1..Len(args)
    <3>1. ~(Rank(k) > i)
      BY <2>1, <2>2
    <3> QED
      BY <1>1, <3>1 DEF StoredByPop
  <2>4. \E v, d, s : Store(k, v, d, s, regs)
    BY <1>3, <2>2 DEF PopComplex
  <2>5. c # args[k].class \/ r # Passed(k)
    BY <1>1, <2>1, <2>3, FreshRegister
  <2> QED
    BY <1>1, <2>3, <2>4, <2>5, StoreElsewhere
<1>4. CASE LoadSimple
  <2>1. OnlyHeld(StoredByLoad) /\ i \in 0..Len(args) /\ i > 0 /\ Len(args) \in Nat
    BY <1>1, <1>4, ArgFacts DEF LoadSimple, CallInv, LoadPhase
  <2>2. i \in 1..Len(args) /\ ~(i > i)
    BY <2>1
  <2>3. CASE args[i].complex
    BY <1>4, <2>3 DEF LoadSimple
  <2>4. CASE ~args[i].complex
    <3>1. i \notin StoredByLoad /\ StoredByLoad \subseteq 1..Len(args)
      BY <1>1, <2>2, <2>4 DEF StoredByLoad, Complex
    <3>2. \E v, d, s : Store(i, v, d, s, AfterValue(i))
      BY <1>4, <2>4 DEF LoadSimple
    <3>3. c # args[i].class \/ r # Passed(i)
      BY <1>1, <2>1, <2>2, <3>1, FreshRegister
    <3>4. /\ AfterValue(i) \in [Classes -> [Registers -> Value]]
          /\ AfterValue(i)[c][r] = IF r \in args[i].clobbers[c] THEN Garbage ELSE regs[c][r]
      BY <1>1, AfterValueFacts
    <3>5. regs'[c][r] = AfterValue(i)[c][r]
      BY <1>1, <2>2, <3>2, <3>3, <3>4, StoreElsewhere
    <3>6. r \in args[i].clobbers[c] => ~NoneClobbered
      <4>1. PICK h \in StoredByLoad : ~OnStack(h) /\ args[h].class = c /\ Passed(h) = r
        BY <2>1 DEF OnlyHeld
      <4>2. h \in 1..Len(args) /\ (args[h].complex \/ i < h)
        BY <1>1, <2>1, <4>1 DEF StoredByLoad, Complex
      <4> QED
        BY <2>2, <2>4, <4>1, <4>2 DEF NoneClobbered
    <3>7. phase = "load"
      BY <1>4 DEF LoadSimple
    <3> QED
      BY <2>4, <3>4, <3>5, <3>6, <3>7
  <2> QED
    BY <2>3, <2>4
<1>5. CASE Begin \/ Evaluated \/ Popped \/ Loaded \/ Call \/ Release
  BY <1>5 DEF Begin, Evaluated, Popped, Loaded, Call, Release
<1>6. ~Finish
  BY DEF Finish
<1> QED
  BY <1>2, <1>3, <1>4, <1>5, <1>6 DEF Next

\* An argument stored in a register is overwritten before the call returns only by a simple
\* argument whose evaluation uses that register.
THEOREM CallRegistersKept == Spec => RegistersKept
<1>1. CallInv /\ [Next]_vars =>
         [phase' # "idle" =>
             \A c \in Classes, r \in Registers :
                 \/ regs[c][r] = Garbage
                 \/ regs'[c][r] = regs[c][r]
                 \/ /\ phase = "load" /\ ~NoneClobbered
                    /\ ~args[i].complex /\ r \in args[i].clobbers[c]]_vars
  BY StepKeepsRegisters
<1> QED
  BY <1>1, CallInvariant, PTL DEF Spec, RegistersKept

-----------------------------------------------------------------------------
\* All arguments for the stack are on it when the function is called.
LEMMA AllPushed ==
  ASSUME CallInv, phase \in {"callee", "returned"}
  PROVE  /\ Len(stack) = Cardinality(Pushed) /\ Len(stack) \in Nat
         /\ Pushed = PushedComplex \union PushedSimple /\ IsFiniteSet(Pushed)
         /\ PushedComplex \cap PushedSimple = {}
<1>1. /\ Types /\ Len(stack) = Above(0) + Later(i + 1) /\ i = 0
  BY DEF CallInv, LoadPhase
<1>2. Len(args) \in Nat /\ Len(stack) \in Nat
  BY <1>1, ArgFacts, LenProperties DEF Types
<1>3. /\ Pushed = PushedComplex \union PushedSimple
      /\ PushedComplex \cap PushedSimple = {}
  BY DEF Pushed, PushedComplex, PushedSimple, Complex
<1>4. IsFiniteSet(Pushed) /\ IsFiniteSet(PushedComplex) /\ IsFiniteSet(PushedSimple)
  <2>1. IsFiniteSet(1..Len(args))
    BY <1>2, FS_Interval
  <2>2. IsFiniteSet(Pushed)
    BY <2>1, FS_Subset DEF Pushed
  <2> QED
    BY <1>3, <2>2, FS_Subset
<1>5. Cardinality(Pushed) = Cardinality(PushedComplex) + Cardinality(PushedSimple)
  <2>1. Cardinality(Pushed) = Cardinality(PushedComplex) + Cardinality(PushedSimple)
                                - Cardinality(PushedComplex \cap PushedSimple)
    BY <1>3, <1>4, FS_Union
  <2>2. Cardinality(PushedComplex \cap PushedSimple) = 0
    BY <1>3, FS_EmptySet
  <2>3. Cardinality(PushedComplex) \in Nat /\ Cardinality(PushedSimple) \in Nat
    BY <1>4, FS_CardinalityType
  <2> QED
    BY <2>1, <2>2, <2>3
<1>6. Above(0) = Cardinality(PushedComplex) /\ Later(1) = Cardinality(PushedSimple)
  BY <1>1, AboveFacts, LaterFacts
<1>7. i + 1 = 1
  BY <1>1
<1> QED
  BY <1>1, <1>2, <1>3, <1>4, <1>5, <1>6, <1>7

\* After a call the stack is where it was before exactly when as many arguments were pushed
\* as emit_call counts.
THEOREM CallStackRestored == Spec => []StackRestored
<1>1. CallInv => StackRestored
  <2> SUFFICES ASSUME CallInv, phase = "returned" PROVE released = Len(stack) <=> PushedAreBeyond
    BY DEF StackRestored
  <2>1. Len(stack) = Cardinality({k \in 1..Len(args) : OnStack(k)})
    BY AllPushed DEF Pushed
  <2>2. released = IF Len(args) <= MAX_REGISTER_ARGUMENT_COUNT THEN 0
                   ELSE Len(args) - MAX_REGISTER_ARGUMENT_COUNT
    BY DEF CallInv, Called
  <2> QED
    BY <2>1, <2>2 DEF PushedAreBeyond
<1> QED
  BY <1>1, CallInvariant, PTL
-----------------------------------------------------------------------------
(***************************************************************************)
(* Which calls pass their arguments right.  The registers are right if     *)
(* each complex argument is popped in its class, nothing was pushed again  *)
(* below it, and no simple argument overwrites what was stored; the stack  *)
(* is right if it lists the arguments in order.                            *)
(***************************************************************************)
RegistersRight ==
    \A k \in 1..Len(args) : ~OnStack(k) => regs[args[k].class][Passed(k)] = k

StackRight ==
    \A k \in 1..Len(args) : OnStack(k) => Slot(k) \in 1..Len(stack) /\ stack[Slot(k)] = k

\* No complex argument for a register comes after one for the stack.
NoneBelow ==
    \A j, k \in 1..Len(args) : j < k /\ args[j].complex /\ OnStack(j) /\ args[k].complex => OnStack(k)

LEMMA ArrivedMeans ==
  ASSUME CallInv, phase = "callee"
  PROVE  Arrived <=> RegistersRight /\ StackRight
<1>1. Types /\ params = [k \in 1..Len(args) |-> Parameter(k)]
  BY DEF CallInv, Called
<1>2. \A k \in 1..Len(args) : k # Garbage
  BY <1>1, ArgFacts
<1>3. Arrived <=> \A k \in 1..Len(args) : Parameter(k) = k
  BY <1>1 DEF Arrived
<1>4. \A k \in 1..Len(args) : Parameter(k) = k <=>
         /\ ~OnStack(k) => regs[args[k].class][Passed(k)] = k
         /\ OnStack(k) => Slot(k) \in 1..Len(stack) /\ stack[Slot(k)] = k
  BY <1>2 DEF Parameter
<1> QED
  BY <1>3, <1>4 DEF RegistersRight, StackRight

\* A complex argument gets its own value if nothing was pushed again before it was popped,
\* that is if no complex argument before it is for the stack.
LEMMA HeldRight ==
  ASSUME CallInv, phase = "callee", NEW k \in Complex, ~OnStack(k)
  PROVE  Held(k) = k <=> /\ args[Rank(k)].class = args[k].class
                         /\ \A j \in PushedComplex : ~(j < k)
<1>1. Types /\ Ranked(0) /\ ComplexKept
  BY DEF CallInv, LoadPhase
<1>2. /\ k \in 1..Len(args) /\ k \in Int /\ k > 0 /\ k # Garbage
      /\ Complex \subseteq 1..Len(args) /\ PushedComplex \subseteq Complex
  BY <1>1, ArgFacts DEF PushedComplex
<1>3. Rank(k) \in Nat /\ \A j \in Complex : j \in Int /\ Rank(j) \in Nat /\ (Rank(j) = Rank(k) => j = k)
  <2>1. \A j \in Complex : j \in Int
    BY <1>2
  <2> QED
    BY <1>1, <2>1, RankFacts
<1>4. Rank(k) + Above(Rank(k)) \in 1..Len(complex_args) /\ Rank(k) \in 1..Len(complex_args)
      /\ complex_args[Rank(k)] = k
  BY <1>1, <1>2 DEF ComplexKept, Ranked
<1>5. Above(Rank(k)) \in Nat
  BY <1>1, <1>3, AboveFacts
<1>6. complex_args[Rank(k) + Above(Rank(k))] = k <=> Above(Rank(k)) = 0
  <2>1. ASSUME complex_args[Rank(k) + Above(Rank(k))] = k PROVE Above(Rank(k)) = 0
    <3>1. Rank(k) = Rank(k) + Above(Rank(k))
      BY <1>1, <1>4, <2>1 DEF Ranked
    <3> QED
      BY <1>3, <1>5, <3>1
  <2>2. ASSUME Above(Rank(k)) = 0 PROVE complex_args[Rank(k) + Above(Rank(k))] = k
    <3>1. Rank(k) + Above(Rank(k)) = Rank(k)
      BY <1>3, <2>2
    <3> QED
      BY <1>4, <3>1
  <2> QED
    BY <2>1, <2>2
<1>7. Above(Rank(k)) = 0 <=> \A j \in PushedComplex : ~(Rank(j) > Rank(k))
  <2>1. IsFiniteSet({j \in PushedComplex : Rank(j) > Rank(k)})
    <3>1. IsFiniteSet(1..Len(args))
      BY <1>1, ArgFacts, FS_Interval
    <3>2. {j \in PushedComplex : Rank(j) > Rank(k)} \subseteq 1..Len(args)
      BY <1>2
    <3> QED
      BY <3>1, <3>2, FS_Subset
  <2>2. Above(Rank(k)) = 0 <=> {j \in PushedComplex : Rank(j) > Rank(k)} = {}
    BY <2>1, FS_EmptySet DEF Above
  <2> QED
    BY <2>2
<1>8. \A j \in PushedComplex : Rank(j) > Rank(k) <=> j < k
  <2> SUFFICES ASSUME NEW j \in PushedComplex PROVE Rank(j) > Rank(k) <=> j < k
    OBVIOUS
  <2>1. j \in Complex /\ j \in Int /\ Rank(j) \in Nat
    BY <1>2, <1>3
  <2>2. j < k => Rank(k) < Rank(j)
    BY <1>1, <1>2, <2>1, RankFacts
  <2>3. k < j => Rank(j) < Rank(k)
    BY <1>1, <2>1, RankFacts
  <2> QED
    BY <1>2, <1>3, <2>1, <2>2, <2>3
<1> QED
  BY <1>2, <1>6, <1>7, <1>8 DEF Held

LEMMA RegistersMeaning ==
  ASSUME CallInv, phase = "callee"
  PROVE  RegistersRight <=> PoppedInItsClass /\ NoneBelow /\ NoneClobbered
<1>1. /\ Types /\ ComplexKept /\ i = 0
      /\ \A k \in 1..Len(args) : ~args[k].complex /\ ~OnStack(k) /\ k > i => Kept(k, k)
  BY DEF CallInv, LoadPhase
<1>2. /\ Len(args) \in Nat /\ Complex = {k \in 1..Len(args) : args[k].complex}
      /\ \A k \in 1..Len(args) : k # Garbage
  BY <1>1, ArgFacts DEF Complex
<1>3. ASSUME NEW k \in 1..Len(args), ~args[k].complex, ~OnStack(k)
      PROVE  regs[args[k].class][Passed(k)] = k <=> ~Lost(k, 0)
  <2>1. k > i
    BY <1>1, <1>2
  <2> QED
    BY <1>1, <1>2, <1>3, <2>1 DEF Kept
<1>4. ASSUME NEW k \in Complex, ~OnStack(k)
      PROVE  regs[args[k].class][Passed(k)] = k <=>
                /\ args[Rank(k)].class = args[k].class
                /\ \A j \in PushedComplex : ~(j < k)
                /\ ~Lost(k, 0)
  <2>1. k # Garbage /\ Kept(k, Held(k))
    BY <1>1, <1>2, <1>4 DEF ComplexKept
  <2>2. Held(k) = k <=> /\ args[Rank(k)].class = args[k].class
                        /\ \A j \in PushedComplex : ~(j < k)
    BY <1>4, HeldRight
  <2> QED
    BY <1>1, <2>1, <2>2 DEF Kept
<1>5. RegistersRight <=>
         /\ \A k \in 1..Len(args) : ~OnStack(k) => ~Lost(k, 0)
         /\ \A k \in Complex : ~OnStack(k) =>
               /\ args[Rank(k)].class = args[k].class
               /\ \A j \in PushedComplex : ~(j < k)
  BY <1>2, <1>3, <1>4 DEF RegistersRight
<1>6. PoppedInItsClass <=> \A k \in Complex : ~OnStack(k) => args[Rank(k)].class = args[k].class
  BY DEF PoppedInItsClass, Rank
<1>7. NoneBelow <=> \A k \in Complex : ~OnStack(k) => \A j \in PushedComplex : ~(j < k)
  BY <1>2 DEF NoneBelow, PushedComplex
<1>8. NoneClobbered <=> \A k \in 1..Len(args) : ~OnStack(k) => ~Lost(k, 0)
  <2>1. \A j \in 1..Len(args) : j > 0
    BY <1>2
  <2> QED
    BY <2>1 DEF NoneClobbered, Lost
<1> QED
  BY <1>5, <1>6, <1>7, <1>8

\* Where the two parts of the stack are: the complex arguments below, the simple ones above.
LEMMA StackParts ==
  ASSUME CallInv, phase = "callee"
  PROVE  /\ Above(0) \in Nat
         /\ \A t \in 1..Len(stack) : t <= Above(0) =>
               stack[t] = complex_args[t] /\ t \in 1..Len(complex_args)
               /\ stack[t] \in Complex /\ Rank(stack[t]) = t
         /\ \A t \in 1..Len(stack) : t > Above(0) => stack[t] \in PushedSimple
         /\ \A k \in PushedSimple :
               Above(0) + Later(k) \in 1..Len(stack) /\ stack[Above(0) + Later(k)] = k
<1>1. /\ Types /\ Ranked(0) /\ i = 0 /\ Above(0) <= Len(complex_args)
      /\ \A t \in 1..Above(0) : stack[t] = complex_args[t]
      /\ \A k \in PushedSimple : k > i =>
            Above(0) + Later(k) \in 1..Len(stack) /\ stack[Above(0) + Later(k)] = k
      /\ \A t \in 1..Len(stack) : t > Above(0) => stack[t] \in PushedSimple
  BY DEF CallInv, LoadPhase
<1>2. Above(0) \in Nat /\ Len(complex_args) \in Nat /\ Len(stack) \in Nat
  BY <1>1, AboveFacts, LenProperties DEF Types
<1>3. \A k \in PushedSimple : k > i
  BY <1>1, LaterFacts
<1>4. ASSUME NEW t \in 1..Len(stack), t <= Above(0)
      PROVE  /\ stack[t] = complex_args[t] /\ t \in 1..Len(complex_args)
             /\ stack[t] \in Complex /\ Rank(stack[t]) = t
  <2>1. t \in 1..Above(0) /\ t \in 1..Len(complex_args)
    BY <1>1, <1>2, <1>4
  <2> QED
    BY <1>1, <2>1 DEF Ranked
<1> QED
  BY <1>1, <1>2, <1>3, <1>4
\* If all parameters are found on the stack its slots are in order without a gap: the arguments
\* on the stack are those after the first that fit in registers.
LEMMA SlotsMeaning ==
  ASSUME CallInv, phase = "callee", StackRight
  PROVE  SlotsMatch
<1>1. /\ Types /\ Len(args) \in Nat /\ MAX_REGISTER_ARGUMENT_COUNT \in Nat
  BY ArgFacts, CallAssumption DEF CallInv
<1>2. PICK P \in Nat : P = Len(stack) /\ P = Cardinality(Pushed)
  BY AllPushed
<1>3. PICK M \in Nat : M = MAX_REGISTER_ARGUMENT_COUNT
  BY <1>1
<1>4. \A k \in Pushed : k \in 1..Len(args) /\ OnStack(k) /\ k \in (M + 1)..(M + P)
  <2> SUFFICES ASSUME NEW k \in Pushed
               PROVE  k \in 1..Len(args) /\ OnStack(k) /\ k \in (M + 1)..(M + P)
    OBVIOUS
  <2>1. k \in 1..Len(args) /\ OnStack(k) /\ k \in Int
    BY <1>1 DEF Pushed
  <2>2. P - (k - 1 - M) \in 1..P
    BY <1>2, <1>3, <2>1 DEF StackRight, Slot
  <2> QED
    BY <2>1, <2>2
<1>5. Pushed = (M + 1)..(M + P)
  <2>1. IsFiniteSet((M + 1)..(M + P)) /\ Cardinality((M + 1)..(M + P)) = P
    <3>1. M + 1 \in Int /\ M + P \in Int
      OBVIOUS
    <3>2. /\ IsFiniteSet((M + 1)..(M + P))
          /\ Cardinality((M + 1)..(M + P)) = IF M + 1 > M + P THEN 0 ELSE M + P - (M + 1) + 1
      BY <3>1, FS_Interval
    <3> QED
      BY <3>2
  <2>2. Pushed \subseteq (M + 1)..(M + P)
    BY <1>4
  <2> QED
    BY <1>2, <2>1, <2>2, FS_Subset
<1>6. ASSUME NEW k \in 1..Len(args), OnStack(k)
      PROVE  Cardinality({j \in 1..k-1 : ~OnStack(j)}) = M
  <2>1. k \in Pushed /\ k \in Int
    BY <1>1, <1>6 DEF Pushed
  <2>2. k \in (M + 1)..(M + P) /\ k <= Len(args)
    BY <1>1, <1>4, <1>6, <2>1
  <2>3. \A j \in 1..k-1 : OnStack(j) <=> j \in (M + 1)..(M + P)
    <3>1. \A j \in 1..k-1 : j \in 1..Len(args)
      BY <1>1, <2>1, <2>2
    <3> QED
      BY <1>5, <3>1 DEF Pushed
  <2>4. \A j \in Int : j \in 1..k-1 /\ j \notin (M + 1)..(M + P) <=> j \in 1..M
    BY <2>1, <2>2
  <2>5. {j \in 1..k-1 : ~OnStack(j)} = 1..M
    <3>1. \A j : j \in 1..k-1 => j \in Int
      OBVIOUS
    <3>2. \A j : j \in 1..M => j \in Int
      OBVIOUS
    <3> QED
      BY <2>3, <2>4, <3>1, <3>2
  <2>6. Cardinality(1..M) = M
    <3>1. Cardinality(1..M) = IF 1 > M THEN 0 ELSE M - 1 + 1
      BY FS_Interval
    <3> QED
      BY <3>1
  <2> QED
    BY <2>5, <2>6
<1> QED
  BY <1>3, <1>6 DEF SlotsMatch

\* And the simple ones come before the complex ones: they are above them on the stack.
LEMMA OrderMeaning ==
  ASSUME CallInv, phase = "callee", StackRight, NoneBelow
  PROVE  PushedInOrder
<1>1. /\ Types /\ Len(args) \in Nat /\ MAX_REGISTER_ARGUMENT_COUNT \in Nat
      /\ Len(stack) \in Nat /\ Above(0) \in Nat
  BY ArgFacts, CallAssumption, AllPushed, StackParts DEF CallInv
<1>2. ASSUME NEW j \in 1..Len(args), NEW k \in 1..Len(args), j < k,
             args[j].complex, OnStack(j), OnStack(k), ~args[k].complex
      PROVE  FALSE
  <2>1. /\ Slot(j) \in 1..Len(stack) /\ stack[Slot(j)] = j
        /\ Slot(k) \in 1..Len(stack) /\ stack[Slot(k)] = k
    BY <1>2 DEF StackRight
  <2>2. Slot(k) < Slot(j)
    <3>1. j \in Int /\ k \in Int
      OBVIOUS
    <3> QED
      BY <1>1, <1>2, <3>1 DEF Slot
  <2>3. ~(Slot(j) > Above(0))
    <3>1. j \notin PushedSimple
      BY <1>2 DEF PushedSimple
    <3> QED
      BY <2>1, <3>1, StackParts
  <2>4. ~(Slot(k) <= Above(0))
    <3>1. k \notin Complex
      BY <1>2 DEF Complex
    <3> QED
      BY <2>1, <3>1, StackParts
  <2>5. Slot(j) \in Int /\ Slot(k) \in Int
    BY <2>1
  <2> QED
    BY <1>1, <2>2, <2>3, <2>4, <2>5
<1>3. \A j, k \in 1..Len(args) : j < k /\ args[j].complex /\ OnStack(j) /\ args[k].complex => OnStack(k)
  BY DEF NoneBelow
<1>4. \A k \in 1..Len(args) : args[k].complex \in BOOLEAN
  BY <1>1, ArgFacts
<1> QED
  BY <1>2, <1>3, <1>4 DEF PushedInOrder

\* A slot counts the arguments on the stack from its own on, if the slots match.
LEMMA SlotCounts ==
  ASSUME CallInv, phase = "callee", SlotsMatch, NEW k \in Pushed
  PROVE  Slot(k) = Cardinality({j \in Pushed : j >= k}) /\ Slot(k) \in 1..Len(stack)
<1>1. /\ Types /\ Len(args) \in Nat /\ MAX_REGISTER_ARGUMENT_COUNT \in Nat
      /\ k \in 1..Len(args) /\ OnStack(k) /\ k \in Int
      /\ Len(stack) \in Nat /\ Len(stack) = Cardinality(Pushed) /\ IsFiniteSet(Pushed)
  BY ArgFacts, CallAssumption, AllPushed DEF CallInv, Pushed
<1> DEFINE From == {j \in Pushed : j >= k}
           Below == {j \in Pushed : j < k}
           Other == {j \in 1..k-1 : ~OnStack(j)}
<1>2. IsFiniteSet(From) /\ IsFiniteSet(Below) /\ IsFiniteSet(Other) /\ IsFiniteSet(1..k-1)
  <2>1. 1 \in Int /\ k - 1 \in Int
    BY <1>1
  <2>2. IsFiniteSet(1..k-1)
    BY <2>1, FS_Interval
  <2>3. From \subseteq Pushed /\ Below \subseteq Pushed /\ Other \subseteq 1..k-1
    OBVIOUS
  <2> QED
    BY <1>1, <2>2, <2>3, FS_Subset
<1>3. \A j \in Pushed : j \in Int /\ (j >= k <=> ~(j < k)) /\ (j < k => j \in 1..k-1)
  BY <1>1 DEF Pushed
<1>4. Pushed = From \union Below /\ From \cap Below = {}
  BY <1>3
<1>5. 1..k-1 = Below \union Other /\ Below \cap Other = {}
  <2>1. \A j \in 1..k-1 : j \in 1..Len(args) /\ j < k
    BY <1>1
  <2>2. \A j \in 1..k-1 : j \in Below <=> OnStack(j)
    BY <2>1 DEF Pushed
  <2>3. Below \subseteq 1..k-1
    BY <1>3
  <2> QED
    BY <2>2, <2>3
<1>6. Cardinality(Other) = MAX_REGISTER_ARGUMENT_COUNT
  BY <1>1 DEF SlotsMatch
<1>7. Cardinality(1..k-1) = k - 1
  <2>1. 1 \in Int /\ k - 1 \in Int
    BY <1>1
  <2>2. Cardinality(1..k-1) = IF 1 > k - 1 THEN 0 ELSE k - 1 - 1 + 1
    BY <2>1, FS_Interval
  <2> QED
    BY <1>1, <2>2
<1>8. k \in From
  BY <1>1
<1> HIDE DEF From, Below, Other
<1>9. /\ Cardinality(From) \in Nat /\ Cardinality(Below) \in Nat /\ Cardinality(Other) \in Nat
      /\ Cardinality({}) = 0
  BY <1>2, FS_CardinalityType, FS_EmptySet
<1>10. Cardinality(Pushed) = Cardinality(From) + Cardinality(Below)
  <2>1. Cardinality(Pushed) = Cardinality(From) + Cardinality(Below) - Cardinality(From \cap Below)
    BY <1>2, <1>4, FS_Union
  <2>2. Cardinality(From \cap Below) = 0
    BY <1>4, <1>9
  <2> QED
    BY <1>9, <2>1, <2>2
<1>11. Cardinality(1..k-1) = Cardinality(Below) + Cardinality(Other)
  <2>1. Cardinality(1..k-1) = Cardinality(Below) + Cardinality(Other) - Cardinality(Below \cap Other)
    BY <1>2, <1>5, FS_Union
  <2>2. Cardinality(Below \cap Other) = 0
    BY <1>5, <1>9
  <2> QED
    BY <1>9, <2>1, <2>2
<1>12. Slot(k) = Cardinality(From)
  BY <1>1, <1>6, <1>7, <1>9, <1>10, <1>11 DEF Slot
<1>13. Cardinality(From) # 0
  BY <1>2, <1>8, FS_EmptySet
<1>14. Slot(k) \in 1..Len(stack)
  BY <1>1, <1>9, <1>10, <1>12, <1>13
<1> QED
  BY <1>12, <1>14 DEF From

\* A sound call has each of its arguments on the stack in its slot.
LEMMA SoundStack ==
  ASSUME CallInv, phase = "callee", SlotsMatch, PushedInOrder
  PROVE  StackRight
<1>1. /\ Types /\ Ranked(0) /\ Len(args) \in Nat /\ Above(0) \in Nat
      /\ Pushed = PushedComplex \union PushedSimple /\ IsFiniteSet(Pushed)
      /\ PushedComplex \cap PushedSimple = {}
  BY ArgFacts, AllPushed, StackParts DEF CallInv, LoadPhase
<1>2. Above(0) = Cardinality(PushedComplex)
  BY <1>1, AboveFacts
<1>3. \A k \in 1..Len(args) : args[k].complex \in BOOLEAN
  BY <1>1, ArgFacts
<1>4. \A k \in Pushed : /\ k \in 1..Len(args) /\ OnStack(k) /\ k \in Int
                        /\ Slot(k) \in 1..Len(stack)
                        /\ Slot(k) = Cardinality({j \in Pushed : j >= k})
  BY <1>1, SlotCounts DEF Pushed
<1>5. ASSUME NEW k \in PushedComplex PROVE stack[Slot(k)] = k
  <2>1. k \in Pushed /\ k \in Complex /\ args[k].complex /\ OnStack(k) /\ k \in 1..Len(args) /\ k \in Int
    BY <1>1, <1>4 DEF PushedComplex, Complex
  <2>2. \A j \in 1..Len(args) : j >= k => (args[j].complex <=> OnStack(j))
    <3> SUFFICES ASSUME NEW j \in 1..Len(args), j >= k PROVE args[j].complex <=> OnStack(j)
      OBVIOUS
    <3>1. j = k \/ k < j
      BY <2>1
    <3> QED
      BY <2>1, <3>1 DEF PushedInOrder
  <2>3. /\ {j \in Pushed : j >= k} = {j \in Complex : j >= k}
        /\ {j \in Complex : j >= k} \subseteq PushedComplex
    BY <2>2 DEF Pushed, Complex, PushedComplex
  <2>4. Slot(k) = Rank(k)
    BY <1>4, <2>1, <2>3 DEF Rank
  <2>5. Rank(k) <= Above(0)
    <3>1. IsFiniteSet(PushedComplex)
      BY <1>1, FS_Subset
    <3> QED
      BY <1>2, <2>3, <3>1, FS_Subset DEF Rank
  <2>6. complex_args[Rank(k)] = k
    <3>1. k > 0
      BY <2>1
    <3> QED
      BY <1>1, <2>1, <3>1 DEF Ranked
  <2> QED
    BY <1>4, <2>1, <2>4, <2>5, <2>6, StackParts
<1>6. ASSUME NEW k \in PushedSimple PROVE stack[Slot(k)] = k
  <2>1. k \in Pushed /\ ~args[k].complex /\ OnStack(k) /\ k \in 1..Len(args) /\ k \in Int
    BY <1>1, <1>4 DEF PushedSimple
  <2>2. \A j \in PushedComplex : j >= k
    <3> SUFFICES ASSUME NEW j \in PushedComplex, j < k PROVE FALSE
      <4>1. \A j \in PushedComplex : j \in Int
        BY <1>1, <1>4
      <4> QED
        BY <2>1, <4>1
    <3>1. j \in 1..Len(args) /\ args[j].complex /\ OnStack(j)
      BY DEF PushedComplex, Complex
    <3> QED
      BY <2>1, <3>1 DEF PushedInOrder
  <2> DEFINE Simple == {j \in PushedSimple : j >= k}
  <2>3. {j \in Pushed : j >= k} = PushedComplex \union Simple /\ PushedComplex \cap Simple = {}
    BY <1>1, <2>2
  <2>4. IsFiniteSet(PushedComplex) /\ IsFiniteSet(Simple) /\ Later(k) = Cardinality(Simple)
    <3>1. PushedComplex \subseteq Pushed /\ Simple \subseteq Pushed
      BY <1>1
    <3> QED
      BY <1>1, <3>1, FS_Subset DEF Later
  <2> HIDE DEF Simple
  <2>5. Cardinality(PushedComplex \union Simple) = Cardinality(PushedComplex) + Cardinality(Simple)
    <3>1. Cardinality(PushedComplex \union Simple) =
             Cardinality(PushedComplex) + Cardinality(Simple) - Cardinality(PushedComplex \cap Simple)
      BY <2>4, FS_Union
    <3>2. Cardinality(PushedComplex \cap Simple) = 0
      BY <2>3, FS_EmptySet
    <3>3. Cardinality(PushedComplex) \in Nat /\ Cardinality(Simple) \in Nat
      BY <2>4, FS_CardinalityType
    <3> QED
      BY <3>1, <3>2, <3>3
  <2>6. Slot(k) = Above(0) + Later(k)
    BY <1>2, <1>4, <2>1, <2>3, <2>4, <2>5
  <2> QED
    BY <2>6, StackParts
<1>7. ASSUME NEW k \in 1..Len(args), OnStack(k)
      PROVE  Slot(k) \in 1..Len(stack) /\ stack[Slot(k)] = k
  <2>1. k \in Pushed
    BY <1>7 DEF Pushed
  <2> QED
    BY <1>1, <1>4, <1>5, <1>6, <2>1
<1> QED
  BY <1>7 DEF StackRight

\* Every parameter holds its argument in the called function, exactly for the calls that
\* are sound.
THEOREM CallArriveWhenSound == Spec => []ArriveWhenSound
<1>1. CallInv => ArriveWhenSound
  <2> SUFFICES ASSUME CallInv, phase = "callee" PROVE Arrived <=> Sound
    BY DEF ArriveWhenSound
  <2>1. Arrived <=> RegistersRight /\ StackRight
    BY ArrivedMeans
  <2>2. RegistersRight <=> PoppedInItsClass /\ NoneBelow /\ NoneClobbered
    BY RegistersMeaning
  <2>3. PushedInOrder => NoneBelow
    BY DEF PushedInOrder, NoneBelow
  <2>4. StackRight /\ NoneBelow => SlotsMatch /\ PushedInOrder
    BY SlotsMeaning, OrderMeaning
  <2>5. SlotsMatch /\ PushedInOrder => StackRight
    BY SoundStack
  <2> QED
    BY <2>1, <2>2, <2>3, <2>4, <2>5 DEF Sound
<1> QED
  BY <1>1, CallInvariant, PTL
\* Most calls: all arguments are of one class.
OneClass == \A j, k \in 1..Len(args) : args[j].class = args[k].class
OneClassArrives ==
    phase = "callee" /\ OneClass =>
        (Arrived <=>
            /\ NoneClobbered
            /\ \A j, k \in 1..Len(args) :
                  MAX_REGISTER_ARGUMENT_COUNT < j /\ j < k /\ args[j].complex => args[k].complex)

\* If all arguments are of one class they arrive exactly if no simple one overwrites what is
\* loaded, and none comes after a complex one that is beyond the registers; so they do if
\* all are complex, and if none of the simple ones overwrites registers and they fit in
\* registers, or all are simple.
THEOREM CallOfOneClass == Spec => []OneClassArrives
<1>1. CallInv /\ ArriveWhenSound => OneClassArrives
  <2> SUFFICES ASSUME CallInv, ArriveWhenSound, phase = "callee", OneClass
               PROVE  Arrived <=>
                         /\ NoneClobbered
                         /\ \A j, k \in 1..Len(args) :
                               MAX_REGISTER_ARGUMENT_COUNT < j /\ j < k /\ args[j].complex =>
                                   args[k].complex
    BY DEF OneClassArrives
  <2>1. /\ Types /\ Len(args) \in Nat /\ MAX_REGISTER_ARGUMENT_COUNT \in Nat
        /\ \A k \in 1..Len(args) : args[k].complex \in BOOLEAN
    BY ArgFacts, CallAssumption DEF CallInv
  <2>2. PICK M \in Nat : M = MAX_REGISTER_ARGUMENT_COUNT
    BY <2>1
  <2>3. ASSUME NEW k \in 1..Len(args) PROVE Passed(k) = k - 1 /\ (OnStack(k) <=> M < k)
    <3>1. {j \in 1..k-1 : args[j].class = args[k].class} = 1..k-1
      <4>1. \A j \in 1..k-1 : j \in 1..Len(args)
        BY <2>1
      <4> QED
        BY <4>1 DEF OneClass
    <3>2. k \in Int /\ k >= 1 /\ 1 \in Int /\ k - 1 \in Int
      BY <2>1
    <3>3. Cardinality(1..k-1) = IF 1 > k - 1 THEN 0 ELSE k - 1 - 1 + 1
      BY <3>2, FS_Interval
    <3>4. Passed(k) = k - 1
      <4>1. Cardinality(1..k-1) = k - 1
        BY <3>2, <3>3
      <4> QED
        BY <3>1, <4>1 DEF Passed
    <3> QED
      BY <2>2, <3>2, <3>4 DEF OnStack
  <2>4. SlotsMatch
    <3> SUFFICES ASSUME NEW k \in 1..Len(args), OnStack(k)
                 PROVE  Cardinality({j \in 1..k-1 : ~OnStack(j)}) = M
      BY <2>2 DEF SlotsMatch
    <3>1. M < k /\ k \in Int /\ k <= Len(args)
      BY <2>1, <2>3
    <3>2. \A j \in 1..k-1 : OnStack(j) <=> M < j
      <4>1. \A j \in 1..k-1 : j \in 1..Len(args)
        BY <2>1
      <4> QED
        BY <2>3, <4>1
    <3>3. \A j \in Int : j \in 1..k-1 /\ ~(M < j) <=> j \in 1..M
      BY <3>1
    <3>4. {j \in 1..k-1 : ~OnStack(j)} = 1..M
      <4>1. \A j : j \in 1..k-1 => j \in Int
        OBVIOUS
      <4>2. \A j : j \in 1..M => j \in Int
        OBVIOUS
      <4> QED
        BY <3>2, <3>3, <4>1, <4>2
    <3>5. Cardinality(1..M) = M
      <4>1. Cardinality(1..M) = IF 1 > M THEN 0 ELSE M - 1 + 1
        BY FS_Interval
      <4> QED
        BY <4>1
    <3> QED
      BY <3>4, <3>5
  <2>5. PoppedInItsClass
    <3> SUFFICES ASSUME NEW k \in Complex PROVE args[Rank(k)].class = args[k].class
      BY DEF PoppedInItsClass, Rank
    <3>1. Complex \subseteq 1..Len(args) /\ k \in 1..Len(args)
      BY <2>1, ArgFacts
    <3>2. IsFiniteSet(1..Len(args)) /\ Cardinality(1..Len(args)) = Len(args)
      <4>1. 1 \in Int /\ Len(args) \in Int
        BY <2>1
      <4>2. /\ IsFiniteSet(1..Len(args))
            /\ Cardinality(1..Len(args)) = IF 1 > Len(args) THEN 0 ELSE Len(args) - 1 + 1
        BY <4>1, FS_Interval
      <4> QED
        BY <2>1, <4>2
    <3>3. Rank(k) <= Len(args)
      <4>1. {j \in Complex : j >= k} \subseteq 1..Len(args)
        BY <3>1
      <4> QED
        BY <3>2, <4>1, FS_Subset DEF Rank
    <3>4. k \in Int /\ k + 1 \in Int
      BY <3>1
    <3>5. Rank(k) \in Nat /\ Rank(k + 1) \in Nat /\ Rank(k) = Rank(k + 1) + 1
      BY <2>1, <3>4, RankFacts
    <3>6. Rank(k) \in 1..Len(args)
      BY <2>1, <3>3, <3>5
    <3> QED
      BY <3>1, <3>6 DEF OneClass
  <2>6. PushedInOrder <=> \A j, k \in 1..Len(args) : M < j /\ j < k /\ args[j].complex => args[k].complex
    <3>1. \A j, k \in 1..Len(args) : j < k /\ M < j => M < k
      BY <2>1
    <3> QED
      BY <2>1, <2>3, <3>1 DEF PushedInOrder
  <2> QED
    BY <2>2, <2>4, <2>5, <2>6 DEF ArriveWhenSound, Sound
<1> QED
  BY <1>1, CallInvariant, CallArriveWhenSound, PTL
=============================================================================
