-------------------------- MODULE KiLibraryProofs --------------------------
(***************************************************************************)
(* Memory safety of the strings of the Ki library, for every program that  *)
(* calls its functions (KiLibrary), every set of texts, capacities, bases  *)
(* and positions, and however many calls it makes: a call leaves every     *)
(* string with its characters and its terminator inside its buffer, and    *)
(* the calls that touch a byte outside a buffer are those KiLibrary names. *)
(*                                                                         *)
(* The lemmas follow the modules: loops and arithmetic; reading, writing,  *)
(* ending and growing a buffer; one lemma for each function of KiStrings   *)
(* and KiNumbers; one for each kind of call.  Inside a function only the   *)
(* shape of the buffers holds (IsLoose), not yet their terminators.        *)
(***************************************************************************)
EXTENDS KiLibrary, FiniteSetTheorems, TLAPS

-----------------------------------------------------------------------------
(* Counting.                                                               *)

\* A set of natural numbers has a least one.
LEMMA LeastOf ==
  ASSUME NEW S \in SUBSET Nat, S # {}
  PROVE  \E k \in S : \A j \in S : k <= j
<1>1. PICK n \in S : TRUE
  OBVIOUS
<1> DEFINE Some == {k \in S : k <= n}
<1> DEFINE Initial == {0..k : k \in Some}
<1>2. n \in Nat
  OBVIOUS
<1>3. IsWellFoundedOn(StrictSubsetOrdering(0..n), FiniteSubsetsOf(0..n))
  BY FS_StrictSubsetOrderingWellFounded
<1>4. Initial \subseteq FiniteSubsetsOf(0..n) /\ Initial # {}
  <2>1. ASSUME NEW k \in Some PROVE 0..k \in FiniteSubsetsOf(0..n)
    <3>1. k \in Nat /\ k <= n
      OBVIOUS
    <3>2. 0 \in Int /\ k \in Int
      BY <3>1
    <3>3. IsFiniteSet(0..k) /\ 0..k \subseteq 0..n
      BY <1>2, <3>1, <3>2, FS_Interval
    <3> QED
      BY <3>3 DEF FiniteSubsetsOf
  <2>2. n \in Some
    BY <1>2
  <2> QED
    BY <2>1, <2>2
<1>5. \E x \in Initial : \A y \in Initial : <<y, x>> \notin StrictSubsetOrdering(0..n)
  <2> HIDE DEF Initial
  <2> QED
    BY <1>3, <1>4, WFMin
<1>6. PICK k \in Some : \A j \in Some : <<0..j, 0..k>> \notin StrictSubsetOrdering(0..n)
  BY <1>5
<1>7. ASSUME NEW j \in S, j < k PROVE FALSE
  <2>1. j \in Some /\ j \in Nat /\ k \in Nat /\ k <= n
    BY <1>2, <1>7
  <2>2. 0..j \subseteq 0..k /\ k \in 0..k /\ k \notin 0..j /\ 0..j \subseteq 0..n /\ 0..k \subseteq 0..n
    BY <1>2, <1>7, <2>1
  <2> HIDE DEF Some
  <2> QED
    BY <1>6, <2>1, <2>2 DEF StrictSubsetOrdering
<1>8. k \in S /\ \A j \in S : j \in Nat /\ k \in Nat
  OBVIOUS
<1> QED
  BY <1>7, <1>8

\* Induction, for the set of the numbers that have a property.
LEMMA AllOf ==
  ASSUME NEW S, 0 \in S, \A k \in Nat : k \in S => k + 1 \in S
  PROVE  \A k \in Nat : k \in S
<1> DEFINE Others == {k \in Nat : k \notin S}
<1>1. SUFFICES ASSUME Others # {} PROVE FALSE
  OBVIOUS
<1>2. PICK k \in Others : \A j \in Others : k <= j
  <2>1. Others \in SUBSET Nat
    OBVIOUS
  <2> HIDE DEF Others
  <2> QED
    BY <1>1, <2>1, LeastOf
<1>3. k \in Nat /\ k \notin S /\ k # 0
  OBVIOUS
<1>4. k - 1 \in Nat /\ k - 1 \in S /\ (k - 1) + 1 = k
  <2>1. k - 1 \in Nat /\ (k - 1) + 1 = k /\ ~(k <= k - 1)
    BY <1>3
  <2> QED
    BY <1>2, <2>1
<1> QED
  BY <1>3, <1>4

Iterates(f, S, a, G) ==
    f \in [Nat -> S] /\ f[0] = a /\ \A k \in Nat : f[k + 1] = G[<<k, f[k]>>]

\* A recursive function over the natural numbers, its values in a set S.
LEMMA Iterated ==
  ASSUME NEW S, NEW a \in S, NEW G \in [Nat \X S -> S]
  PROVE  \E f : Iterates(f, S, a, G)
<1> DEFINE Follows(h, n) == h[0] = a /\ \A k \in 0..n : k < n => h[k + 1] = G[<<k, h[k]>>]
<1> DEFINE Part(n) == {h \in [0..n -> S] : Follows(h, n)}
<1>1. ASSUME NEW n \in Nat, NEW h \in Part(n), NEW g \in Part(n) PROVE h = g
  <2> DEFINE Same == {k \in Nat : k <= n => h[k] = g[k]}
  <2>1. 0 \in Same
    OBVIOUS
  <2>2. ASSUME NEW k \in Nat, k \in Same PROVE k + 1 \in Same
    <3>1. CASE k < n
      <4>1. k \in 0..n /\ h[k] = g[k]
        BY <2>2, <3>1
      <4>2. h[k + 1] = G[<<k, h[k]>>] /\ g[k + 1] = G[<<k, g[k]>>]
        BY <3>1, <4>1
      <4> QED
        BY <4>1, <4>2
    <3>2. CASE ~(k < n)
      BY <3>2
    <3> QED
      BY <3>1, <3>2
  <2>3. \A k \in Nat : k \in Same
    <3> HIDE DEF Same
    <3> QED
      BY <2>1, <2>2, AllOf
  <2>4. \A k \in 0..n : h[k] = g[k]
    BY <2>3
  <2>5. h \in [0..n -> S] /\ g \in [0..n -> S]
    OBVIOUS
  <2> QED
    BY <2>4, <2>5
<1>2. ASSUME NEW n \in Nat PROVE Part(n) # {}
  <2> DEFINE Made == {k \in Nat : Part(k) # {}}
  <2>1. 0 \in Made
    <3>1. [k \in 0..0 |-> a] \in Part(0)
      OBVIOUS
    <3> QED
      BY <3>1
  <2>2. ASSUME NEW k \in Nat, k \in Made PROVE k + 1 \in Made
    <3>1. PICK h : h \in Part(k)
      BY <2>2
    <3>2. PICK g : g = [j \in 0..(k + 1) |-> IF j = k + 1 THEN G[<<k, h[k]>>] ELSE h[j]]
      OBVIOUS
    <3>3. G[<<k, h[k]>>] \in S
      <4>1. k \in 0..k /\ h[k] \in S
        BY <3>1
      <4> QED
        BY <4>1
    <3>4. g \in [0..(k + 1) -> S]
      <4>1. ASSUME NEW j \in 0..(k + 1) PROVE (IF j = k + 1 THEN G[<<k, h[k]>>] ELSE h[j]) \in S
        <5>1. j = k + 1 \/ j \in 0..k
          OBVIOUS
        <5> QED
          BY <3>1, <3>3, <5>1
      <4> QED
        BY <3>2, <4>1
    <3>5. Follows(g, k + 1)
      <4>1. g[0] = a
        BY <3>1, <3>2
      <4>2. ASSUME NEW j \in 0..(k + 1), j < k + 1 PROVE g[j + 1] = G[<<j, g[j]>>]
        <5>1. g[j] = h[j] /\ j \in 0..k
          BY <3>2, <4>2
        <5>2. CASE j = k
          <6>1. g[j + 1] = G[<<k, h[k]>>]
            BY <3>2, <5>2
          <6> QED
            BY <5>1, <5>2, <6>1
        <5>3. CASE j < k
          <6>1. h[j + 1] = G[<<j, h[j]>>]
            BY <3>1, <5>1, <5>3
          <6>2. g[j + 1] = h[j + 1]
            BY <3>2, <5>1, <5>3
          <6> QED
            BY <5>1, <6>1, <6>2
        <5> QED
          BY <5>1, <5>2, <5>3
      <4> QED
        BY <4>1, <4>2
    <3> QED
      BY <3>4, <3>5
  <2> HIDE DEF Made
  <2>3. n \in Made
    BY <2>1, <2>2, AllOf
  <2> QED
    BY <2>3 DEF Made
<1>3. PICK f : f = [n \in Nat |-> (CHOOSE h : h \in Part(n))[n]]
  OBVIOUS
<1>4. ASSUME NEW n \in Nat, NEW h \in Part(n) PROVE f[n] = h[n] /\ f[n] \in S
  <2> HIDE DEF Part
  <2>1. PICK g : g = CHOOSE x : x \in Part(n)
    OBVIOUS
  <2>2. g \in Part(n) /\ f[n] = g[n]
    BY <1>2, <1>3, <2>1
  <2>3. g = h
    BY <1>1, <2>2
  <2>4. h \in [0..n -> S] /\ n \in 0..n
    BY DEF Part
  <2> QED
    BY <2>2, <2>3, <2>4
<1>5. f \in [Nat -> S]
  <2>1. ASSUME NEW n \in Nat PROVE f[n] \in S
    <3>1. PICK h : h \in Part(n)
      BY <1>2
    <3> HIDE DEF Part
    <3> QED
      BY <1>4, <3>1
  <2> QED
    BY <1>3, <2>1
<1>6. f[0] = a
  <2>1. PICK h : h \in Part(0)
    BY <1>2
  <2>2. h[0] = a
    BY <2>1
  <2> HIDE DEF Part
  <2> QED
    BY <1>4, <2>1, <2>2
<1>7. ASSUME NEW k \in Nat PROVE f[k + 1] = G[<<k, f[k]>>]
  <2>1. k + 1 \in Nat
    OBVIOUS
  <2>2. PICK h : h \in Part(k + 1)
    <3> HIDE DEF Part
    <3> QED
      BY <1>2, <2>1
  <2>3. PICK g : g = [j \in 0..k |-> h[j]]
    OBVIOUS
  <2>4. g \in Part(k)
    <3>1. h \in [0..(k + 1) -> S] /\ Follows(h, k + 1)
      BY <2>2
    <3>2. g \in [0..k -> S]
      <4>1. \A j \in 0..k : j \in 0..(k + 1) /\ h[j] \in S
        BY <3>1
      <4> QED
        BY <2>3, <4>1
    <3>3. g[0] = a
      BY <2>3, <3>1
    <3>4. ASSUME NEW j \in 0..k, j < k PROVE g[j + 1] = G[<<j, g[j]>>]
      <4>1. j \in 0..(k + 1) /\ j < k + 1 /\ j + 1 \in 0..k
        BY <3>4
      <4>2. h[j + 1] = G[<<j, h[j]>>]
        BY <3>1, <4>1
      <4> QED
        BY <2>3, <4>1, <4>2
    <3> QED
      BY <3>2, <3>3, <3>4
  <2>5. f[k] = h[k]
    <3>1. f[k] = g[k] /\ g[k] = h[k]
      <4> HIDE DEF Part
      <4> QED
        BY <1>4, <2>3, <2>4
    <3> QED
      BY <3>1
  <2>6. f[k + 1] = h[k + 1]
    <3> HIDE DEF Part
    <3> QED
      BY <1>4, <2>1, <2>2
  <2>7. h[k + 1] = G[<<k, h[k]>>]
    <3>1. k \in 0..(k + 1) /\ k < k + 1
      OBVIOUS
    <3> QED
      BY <2>2, <3>1
  <2> QED
    BY <2>5, <2>6, <2>7
<1> QED
  BY <1>5, <1>6, <1>7 DEF Iterates

Recurs(f, S, a, G) == f \in [Nat -> S] /\ f = [k \in Nat |-> IF k = 0 THEN a ELSE G[<<k - 1, f[k - 1]>>]]

\* The same in the form in which such a function is defined.
LEMMA Recursive ==
  ASSUME NEW S, NEW a \in S, NEW G \in [Nat \X S -> S]
  PROVE  \E f : Recurs(f, S, a, G)
<1>0. PICK f : Iterates(f, S, a, G)
  BY Iterated
<1>1. f \in [Nat -> S] /\ f[0] = a /\ \A k \in Nat : f[k + 1] = G[<<k, f[k]>>]
  BY <1>0 DEF Iterates
<1>2. ASSUME NEW k \in Nat PROVE f[k] = IF k = 0 THEN a ELSE G[<<k - 1, f[k - 1]>>]
  <2>1. CASE k = 0
    BY <1>1, <2>1
  <2>2. CASE k # 0
    <3>1. k - 1 \in Nat /\ (k - 1) + 1 = k
      BY <2>2
    <3> QED
      BY <1>1, <2>2, <3>1
  <2> QED
    BY <2>1, <2>2
<1>3. f = [k \in Nat |-> IF k = 0 THEN a ELSE G[<<k - 1, f[k - 1]>>]]
  BY <1>1, <1>2
<1> QED
  BY <1>1, <1>3 DEF Recurs

IsPower(b, f) == f = [k \in Nat |-> IF k = 0 THEN 1 ELSE b * f[k - 1]]

\* A power is a product.
LEMMA PowerFacts ==
  ASSUME NEW b \in Nat
  PROVE  /\ Power(b, 0) = 1
         /\ \A k \in Nat : Power(b, k) \in Nat /\ Power(b, k + 1) = b * Power(b, k)
<1>1. \E f : IsPower(b, f)
  <2>1. PICK G : G = [p \in Nat \X Nat |-> b * p[2]]
    OBVIOUS
  <2>2. G \in [Nat \X Nat -> Nat] /\ \A k \in Nat, x \in Nat : G[<<k, x>>] = b * x
    BY <2>1
  <2>3. PICK f : Recurs(f, Nat, 1, G)
    <3>1. 1 \in Nat
      OBVIOUS
    <3> QED
      BY <2>2, <3>1, Recursive
  <2>4. ASSUME NEW k \in Nat PROVE f[k] = IF k = 0 THEN 1 ELSE b * f[k - 1]
    <3>1. k = 0 \/ (k - 1 \in Nat /\ f[k - 1] \in Nat)
      BY <2>3 DEF Recurs
    <3> QED
      BY <2>2, <2>3, <3>1 DEF Recurs
  <2>5. f = [k \in Nat |-> IF k = 0 THEN 1 ELSE b * f[k - 1]]
    BY <2>3, <2>4 DEF Recurs
  <2> QED
    BY <2>5 DEF IsPower
<1>2. PICK f : f = CHOOSE g : IsPower(b, g)
  OBVIOUS
<1>3. \A k : Power(b, k) = f[k]
  BY <1>2 DEF Power, IsPower
<1>4. f = [k \in Nat |-> IF k = 0 THEN 1 ELSE b * f[k - 1]]
  BY <1>1, <1>2 DEF IsPower
<1>5. f[0] = 1 /\ \A k \in Nat : f[k + 1] = b * f[k]
  <2>1. f[0] = 1
    BY <1>4
  <2>2. ASSUME NEW k \in Nat PROVE f[k + 1] = b * f[k]
    <3>1. k + 1 \in Nat /\ k + 1 # 0 /\ (k + 1) - 1 = k
      OBVIOUS
    <3> QED
      BY <1>4, <3>1
  <2> QED
    BY <2>1, <2>2
<1> DEFINE Numbered == {k \in Nat : f[k] \in Nat}
<1>6. \A k \in Nat : k \in Numbered
  <2>1. 0 \in Numbered
    BY <1>5
  <2>2. ASSUME NEW k \in Nat, k \in Numbered PROVE k + 1 \in Numbered
    <3>1. f[k] \in Nat /\ f[k + 1] = b * f[k]
      BY <1>5, <2>2
    <3>2. b * f[k] \in Nat
      BY <3>1
    <3> QED
      BY <3>1, <3>2
  <2> HIDE DEF Numbered
  <2> QED
    BY <2>1, <2>2, AllOf
<1> QED
  BY <1>3, <1>5, <1>6

\* A power of two is positive and even but for the first.
LEMMA PowerOf2 ==
  ASSUME NEW k \in Nat
  PROVE  Power(2, k) \in Nat \ {0} /\ Power(2, k + 1) = 2 * Power(2, k)
<1> DEFINE Positive == {j \in Nat : Power(2, j) > 0}
<1>1. Power(2, 0) = 1 /\ \A j \in Nat : Power(2, j) \in Nat /\ Power(2, j + 1) = 2 * Power(2, j)
  BY PowerFacts
<1>2. \A j \in Nat : j \in Positive
  <2>1. 0 \in Positive
    BY <1>1
  <2>2. ASSUME NEW j \in Nat, j \in Positive PROVE j + 1 \in Positive
    <3>1. Power(2, j) \in Nat /\ Power(2, j) > 0 /\ Power(2, j + 1) = 2 * Power(2, j)
      BY <1>1, <2>2
    <3> QED
      BY <3>1
  <2> HIDE DEF Positive
  <2> QED
    BY <2>1, <2>2, AllOf
<1> QED
  BY <1>1, <1>2

IsDoubled(c, f) == f = [k \in Nat |-> IF k = 0 THEN c ELSE 2 * f[k - 1]]

\* Doubling ends, and what it ends with is enough.
LEMMA DoubledFacts ==
  ASSUME NEW capacity \in Nat \ {0}, NEW need \in Nat
  PROVE  Doubled(capacity, need) \in Nat \ {0} /\ Doubled(capacity, need) >= need
<1>1. \E f : IsDoubled(capacity, f)
  <2>1. PICK G : G = [p \in Nat \X Nat |-> 2 * p[2]]
    OBVIOUS
  <2>2. G \in [Nat \X Nat -> Nat] /\ \A k \in Nat, x \in Nat : G[<<k, x>>] = 2 * x
    BY <2>1
  <2>3. PICK f : Recurs(f, Nat, capacity, G)
    <3>1. capacity \in Nat
      OBVIOUS
    <3> QED
      BY <2>2, <3>1, Recursive
  <2>4. ASSUME NEW k \in Nat PROVE f[k] = IF k = 0 THEN capacity ELSE 2 * f[k - 1]
    <3>1. k = 0 \/ (k - 1 \in Nat /\ f[k - 1] \in Nat)
      BY <2>3 DEF Recurs
    <3> QED
      BY <2>2, <2>3, <3>1 DEF Recurs
  <2>5. f = [k \in Nat |-> IF k = 0 THEN capacity ELSE 2 * f[k - 1]]
    BY <2>3, <2>4 DEF Recurs
  <2> QED
    BY <2>5 DEF IsDoubled
<1>2. PICK f : f = CHOOSE g : IsDoubled(capacity, g)
  OBVIOUS
<1>3. f = [k \in Nat |-> IF k = 0 THEN capacity ELSE 2 * f[k - 1]]
  BY <1>1, <1>2 DEF IsDoubled
<1> DEFINE Enough == {k \in 0..need : f[k] >= need}
<1>4. Doubled(capacity, need) = f[CHOOSE k \in Enough : \A j \in Enough : k <= j]
  BY <1>2 DEF Doubled, IsDoubled
<1> DEFINE Grown == {k \in Nat : f[k] \in Nat /\ f[k] > k}
<1>5. \A k \in Nat : k \in Grown
  <2>1. 0 \in Grown
    BY <1>3
  <2>2. ASSUME NEW k \in Nat, k \in Grown PROVE k + 1 \in Grown
    <3>1. k + 1 \in Nat /\ k + 1 # 0 /\ (k + 1) - 1 = k
      OBVIOUS
    <3>2. f[k + 1] = 2 * f[k] /\ f[k] \in Nat /\ f[k] > k
      BY <1>3, <2>2, <3>1
    <3> QED
      BY <3>1, <3>2
  <2> HIDE DEF Grown
  <2> QED
    BY <2>1, <2>2, AllOf
<1>6. need \in Enough
  BY <1>5
<1>7. PICK k : k = CHOOSE i \in Enough : \A j \in Enough : i <= j
  OBVIOUS
<1>8. k \in Enough
  <2>1. Enough \in SUBSET Nat
    OBVIOUS
  <2> HIDE DEF Enough
  <2>2. \E i \in Enough : \A j \in Enough : i <= j
    BY <1>6, <2>1, LeastOf
  <2> QED
    BY <1>7, <2>2
<1>9. k \in Nat /\ f[k] >= need /\ f[k] \in Nat /\ f[k] > k
  BY <1>5, <1>8
<1> QED
  <2> HIDE DEF Enough
  <2> QED
    BY <1>4, <1>7, <1>9

-----------------------------------------------------------------------------
(* Buffers, and worlds in the middle of a call.                            *)

IsBuffer(s) ==
    /\ s = [capacity |-> s.capacity, length |-> s.length, data |-> s.data]
    /\ s.capacity \in Nat /\ s.length \in Int /\ s.data \in [0 .. s.capacity -> Int]

IsString(s) == IsBuffer(s) /\ s.length \in 0 .. s.capacity /\ (s.length > 0 => s.data[s.length] = Nul)

IsLoose(w) ==
    /\ w = [str |-> w.str, ret |-> w.ret, stray |-> w.stray] /\ w.stray \in BOOLEAN
    /\ w.str = [m \in DOMAIN w.str |-> w.str[m]]
    /\ \A m \in DOMAIN w.str : w.str[m] = NoString \/ IsBuffer(w.str[m])

\* Outside a call nothing was touched that should not be, and strings are terminated.
IsWorld(w) ==
    /\ IsLoose(w) /\ ~w.stray
    /\ \A m \in DOMAIN w.str : w.str[m] = NoString \/ IsString(w.str[m])

\* Of the strings at most n has changed, and it is one.
Only(w, v, n) ==
    /\ IsLoose(v) /\ DOMAIN v.str = DOMAIN w.str /\ v.ret = w.ret
    /\ \A m \in DOMAIN w.str : m # n => v.str[m] = w.str[m]
    /\ IsBuffer(v.str[n])

\* The bytes from first on lie in the buffer of the string s.
Within(s, first, count) == count <= 0 \/ (first >= 0 /\ first + count <= s.capacity + 1)

Has(w, n) == IsLoose(w) /\ n \in DOMAIN w.str /\ IsBuffer(w.str[n])

\* A byte is a number, whether it was ever written or not.
LEMMA SeenIs ==
  ASSUME NEW w, NEW n, Has(w, n), NEW i
  PROVE  Seen(w, n, i) \in Int
BY DEF Seen, Has, IsBuffer, Unknown

Reads(w, v, n, first, count) ==
    Only(w, v, n) /\ v.str = w.str /\ (v.stray <=> w.stray \/ ~Within(w.str[n], first, count))

\* Reading bytes changes no string, and strays when they are not all in the buffer.
LEMMA ReadIs ==
  ASSUME NEW w, NEW n, Has(w, n), NEW first \in Int, NEW count \in Int
  PROVE  Reads(w, Read(w, n, first, count), n, first, count)
<1> DEFINE v == Read(w, n, first, count)
<1>1. (first .. first + count - 1 \subseteq DOMAIN w.str[n].data) <=> Within(w.str[n], first, count)
  <2>1. DOMAIN w.str[n].data = 0 .. w.str[n].capacity /\ w.str[n].capacity \in Nat
    BY DEF Has, IsBuffer
  <2>2. CASE count <= 0
    <3>1. first .. first + count - 1 = {}
      BY <2>2
    <3> QED
      BY <2>2, <3>1 DEF Within
  <2>3. CASE count > 0
    <3>1. first \in first .. first + count - 1 /\ first + count - 1 \in first .. first + count - 1
      BY <2>3
    <3>2. CASE Within(w.str[n], first, count)
      <4>1. ASSUME NEW i \in first .. first + count - 1 PROVE i \in 0 .. w.str[n].capacity
        BY <2>1, <2>3, <3>2 DEF Within
      <4> QED
        BY <2>1, <3>2, <4>1
    <3>3. CASE ~Within(w.str[n], first, count)
      <4>1. ~(first \in 0 .. w.str[n].capacity /\ first + count - 1 \in 0 .. w.str[n].capacity)
        BY <2>1, <2>3, <3>3 DEF Within
      <4> QED
        BY <2>1, <3>1, <3>3, <4>1
    <3> QED
      BY <3>2, <3>3
  <2> QED
    BY <2>2, <2>3
<1>2. v.str = w.str /\ v.ret = w.ret /\ v.stray \in BOOLEAN /\ v = [str |-> v.str, ret |-> v.ret, stray |-> v.stray]
  BY DEF Has, IsLoose, Read
<1>3. v.stray = (w.stray \/ ~(first .. first + count - 1 \subseteq DOMAIN w.str[n].data))
  BY DEF Has, IsLoose, Read
<1> SUFFICES Reads(w, v, n, first, count)
  OBVIOUS
<1> HIDE DEF v
<1>4. Only(w, v, n)
  BY <1>2 DEF Has, IsLoose, Only
<1> QED
  BY <1>1, <1>2, <1>3, <1>4 DEF Reads

Fills(w, v, n, at, chars, count) ==
    /\ Only(w, v, n)
    /\ v.str[n].capacity = w.str[n].capacity /\ v.str[n].length = w.str[n].length
    /\ \A j \in 0 .. w.str[n].capacity :
          v.str[n].data[j] = IF at <= j /\ j < at + count THEN chars[j - at] ELSE w.str[n].data[j]
    /\ v.stray <=> w.stray \/ ~Within(w.str[n], at, count)

\* Writing characters changes the buffer where they are put, and nowhere else.
LEMMA FillIs ==
  ASSUME NEW w, NEW n, Has(w, n), NEW at \in Int, NEW count \in Int, NEW chars \in [0 .. count - 1 -> Int]
  PROVE  Fills(w, Fill(w, n, at, chars), n, at, chars, count)
<1> DEFINE v == Fill(w, n, at, chars)
<1> DEFINE s == w.str[n]
<1> DEFINE new == [j \in DOMAIN s.data |-> IF j - at \in DOMAIN chars THEN chars[j - at] ELSE s.data[j]]
<1>0. DOMAIN s.data = 0 .. s.capacity /\ s.capacity \in Nat /\ s.data \in [0 .. s.capacity -> Int]
         /\ s = [capacity |-> s.capacity, length |-> s.length, data |-> s.data] /\ s.length \in Int
  BY DEF Has, IsBuffer
<1>1. (\E i \in DOMAIN chars : at + i \notin DOMAIN s.data) <=> ~Within(s, at, count)
  <2>1. DOMAIN chars = 0 .. count - 1
    OBVIOUS
  <2>2. CASE count <= 0
    BY <2>1, <2>2 DEF Within
  <2>3. CASE count > 0
    <3>1. 0 \in DOMAIN chars /\ count - 1 \in DOMAIN chars
      BY <2>1, <2>3
    <3>2. (at + 0 \notin DOMAIN s.data \/ at + (count - 1) \notin DOMAIN s.data) <=> ~Within(s, at, count)
      BY <1>0, <2>3 DEF Within
    <3>3. ASSUME NEW i \in DOMAIN chars, at + i \notin DOMAIN s.data PROVE ~Within(s, at, count)
      BY <1>0, <2>1, <2>3, <3>3 DEF Within
    <3> QED
      BY <3>1, <3>2, <3>3
  <2> QED
    BY <2>2, <2>3
<1>2. v = [w EXCEPT !.str[n].data = new, !.stray = @ \/ \E i \in DOMAIN chars : at + i \notin DOMAIN s.data]
  BY DEF Fill
<1>3. v.str = [w.str EXCEPT ![n].data = new] /\ v.ret = w.ret /\ DOMAIN v = DOMAIN w
         /\ v.stray = (w.stray \/ \E i \in DOMAIN chars : at + i \notin DOMAIN s.data)
  <2> HIDE DEF v, new
  <2> QED
    BY <1>2 DEF Has, IsLoose
<1>4. v = [str |-> v.str, ret |-> v.ret, stray |-> v.stray]
  <2> HIDE DEF new
  <2> QED
    BY <1>2 DEF Has, IsLoose
<1>5. new \in [0 .. s.capacity -> Int] /\ \A j \in 0 .. s.capacity :
         new[j] = IF at <= j /\ j < at + count THEN chars[j - at] ELSE s.data[j]
  <2>1. ASSUME NEW j \in 0 .. s.capacity
        PROVE new[j] = (IF at <= j /\ j < at + count THEN chars[j - at] ELSE s.data[j]) /\ new[j] \in Int
    <3>1. j \in Int /\ (j - at \in 0 .. count - 1 <=> at <= j /\ j < at + count)
      BY <1>0
    <3>2. new[j] = IF j - at \in 0 .. count - 1 THEN chars[j - at] ELSE s.data[j]
      BY <1>0
    <3>3. s.data[j] \in Int /\ (j - at \in 0 .. count - 1 => chars[j - at] \in Int)
      BY <1>0
    <3> HIDE DEF new, s
    <3> QED
      BY <3>1, <3>2, <3>3
  <2> QED
    BY <1>0, <2>1
<1> SUFFICES Fills(w, v, n, at, chars, count)
  OBVIOUS
<1> HIDE DEF v, new
<1>6. v.str[n] = [capacity |-> s.capacity, length |-> s.length, data |-> new]
  BY <1>0, <1>3 DEF Has
<1>7. IsBuffer(v.str[n])
  BY <1>0, <1>5, <1>6 DEF IsBuffer
<1>8. DOMAIN v.str = DOMAIN w.str /\ \A m \in DOMAIN w.str : m # n => v.str[m] = w.str[m]
  BY <1>3 DEF Has
<1>9. v.stray \in BOOLEAN
  BY <1>3
<1>10. v.str = [m \in DOMAIN v.str |-> v.str[m]]
  BY <1>3 DEF Has, IsLoose
<1>11. Only(w, v, n)
  BY <1>3, <1>4, <1>7, <1>8, <1>9, <1>10 DEF Only, IsLoose, Has
<1>12. v.stray <=> w.stray \/ ~Within(s, at, count)
  <2> HIDE DEF s
  <2> QED
    BY <1>1, <1>3, Zenon
<1> QED
  BY <1>5, <1>6, <1>11, <1>12 DEF Fills

\* What holds of a string before a step that changes n holds of the others after it.
LEMMA OnlyHas ==
  ASSUME NEW w, NEW v, NEW n, n \in DOMAIN w.str, Only(w, v, n)
  PROVE  Has(v, n) /\ \A m : Has(w, m) => Has(v, m)
BY DEF Only, Has

LEMMA OnlyTwice ==
  ASSUME NEW w, NEW u, NEW v, NEW n, Only(w, u, n), Only(u, v, n)
  PROVE  Only(w, v, n)
BY DEF Only

SetsLength(w, v, n, length) ==
    Only(w, v, n) /\ (v.stray <=> w.stray)
        /\ v.str[n] = [capacity |-> w.str[n].capacity, length |-> length, data |-> w.str[n].data]

\* Setting the length touches no byte.
LEMMA SetLengthIs ==
  ASSUME NEW w, NEW n, Has(w, n), NEW length \in Int
  PROVE  SetsLength(w, SetLength(w, n, length), n, length)
<1> DEFINE v == SetLength(w, n, length)
<1>1. v.str = [w.str EXCEPT ![n].length = length] /\ v.ret = w.ret /\ v.stray = w.stray
         /\ v = [str |-> v.str, ret |-> v.ret, stray |-> v.stray]
  BY DEF Has, IsLoose, SetLength
<1> SUFFICES SetsLength(w, v, n, length)
  OBVIOUS
<1> HIDE DEF v
<1>2. v.str[n] = [capacity |-> w.str[n].capacity, length |-> length, data |-> w.str[n].data]
  BY <1>1 DEF Has, IsBuffer
<1>3. IsBuffer(v.str[n])
  BY <1>2 DEF Has, IsBuffer
<1>4. DOMAIN v.str = DOMAIN w.str /\ \A m \in DOMAIN w.str : m # n => v.str[m] = w.str[m]
  BY <1>1 DEF Has
<1>5. v.str = [m \in DOMAIN v.str |-> v.str[m]] /\ v.stray \in BOOLEAN
  BY <1>1 DEF Has, IsLoose
<1>6. Only(w, v, n)
  BY <1>1, <1>3, <1>4, <1>5 DEF Only, IsLoose, Has
<1> QED
  BY <1>1, <1>2, <1>6 DEF SetsLength

\* A byte is written where it lies, or the call strays.
LEMMA PutIs ==
  ASSUME NEW w, NEW n, Has(w, n), NEW i \in Int, NEW c \in Int
  PROVE  Fills(w, Put(w, n, i, c), n, i, [k \in {0} |-> c], 1)
<1> DEFINE chars == [k \in {0} |-> c]
<1>1. {0} = 0 .. 1 - 1 /\ 1 \in Int
  OBVIOUS
<1>2. chars \in [0 .. 1 - 1 -> Int]
  BY <1>1
<1> HIDE DEF chars
<1>3. Fills(w, Fill(w, n, i, chars), n, i, chars, 1)
  BY <1>1, <1>2, FillIs
<1> QED
  BY <1>3 DEF Put, chars

Ends(w, v, n, length) ==
    /\ Only(w, v, n)
    /\ v.str[n].capacity = w.str[n].capacity /\ v.str[n].length = length
    /\ \A j \in 0 .. w.str[n].capacity : v.str[n].data[j] = IF j = length THEN Nul ELSE w.str[n].data[j]
    /\ v.stray <=> w.stray \/ length \notin 0 .. w.str[n].capacity

\* A string is ended by its length and a terminator.
LEMMA EndIs ==
  ASSUME NEW w, NEW n, Has(w, n), NEW length \in Int
  PROVE  Ends(w, End(w, n, length), n, length)
<1> DEFINE u == SetLength(w, n, length)
<1> DEFINE v == Put(u, n, length, Nul)
<1>1. SetsLength(w, u, n, length)
  BY SetLengthIs
<1>2. Has(u, n)
  BY <1>1, OnlyHas DEF SetsLength, Has
<1>3. Fills(u, v, n, length, [k \in {0} |-> Nul], 1)
  <2> HIDE DEF u
  <2> QED
    BY <1>2, PutIs DEF Nul
<1> SUFFICES Ends(w, v, n, length)
  BY DEF End
<1> HIDE DEF u, v
<1>4. Only(w, v, n)
  BY <1>1, <1>3, OnlyTwice DEF SetsLength, Fills
<1>5. v.str[n].capacity = w.str[n].capacity /\ v.str[n].length = length
  BY <1>1, <1>3 DEF SetsLength, Fills
<1>6. w.str[n].capacity \in Nat
  BY DEF Has, IsBuffer
<1>7. ASSUME NEW j \in 0 .. w.str[n].capacity
      PROVE v.str[n].data[j] = IF j = length THEN Nul ELSE w.str[n].data[j]
  <2>1. v.str[n].data[j] = IF length <= j /\ j < length + 1 THEN [k \in {0} |-> Nul][j - length] ELSE u.str[n].data[j]
    BY <1>1, <1>3 DEF SetsLength, Fills
  <2>2. u.str[n].data[j] = w.str[n].data[j]
    BY <1>1 DEF SetsLength
  <2>3. j \in Int /\ (length <= j /\ j < length + 1 <=> j = length) /\ (j = length => j - length = 0)
    BY <1>6
  <2> QED
    BY <2>1, <2>2, <2>3
<1>8. v.stray <=> w.stray \/ length \notin 0 .. w.str[n].capacity
  <2>1. v.stray <=> u.stray \/ ~Within(u.str[n], length, 1)
    BY <1>3 DEF Fills
  <2>2. Within(u.str[n], length, 1) <=> length \in 0 .. w.str[n].capacity
    BY <1>1, <1>6 DEF SetsLength, Within
  <2>3. u.stray <=> w.stray
    BY <1>1 DEF SetsLength
  <2> QED
    BY <2>1, <2>2, <2>3, Zenon
<1> QED
  BY <1>4, <1>5, <1>7, <1>8 DEF Ends

Copies(w, v, to, at, from, first, count) ==
    /\ Only(w, v, to)
    /\ v.str[to].capacity = w.str[to].capacity /\ v.str[to].length = w.str[to].length
    /\ \A j \in 0 .. w.str[to].capacity :
          ~(at <= j /\ j < at + count) => v.str[to].data[j] = w.str[to].data[j]
    /\ v.stray <=> w.stray \/ ~Within(w.str[from], first, count) \/ ~Within(w.str[to], at, count)

\* Copying reads the source and writes the target, and no other byte.
LEMMA CopyIs ==
  ASSUME NEW w, NEW to, NEW from, Has(w, to), Has(w, from), NEW at \in Int, NEW first \in Int, NEW count \in Int
  PROVE  Copies(w, copy_bytes(w, to, at, from, first, count), to, at, from, first, count)
<1> DEFINE Byte(i) == Seen(w, from, first + (IF to = from /\ first < at THEN i % (at - first) ELSE i))
<1> DEFINE chars == [i \in 0 .. count - 1 |-> Byte(i)]
<1> DEFINE u == Read(w, from, first, count)
<1> DEFINE v == Fill(u, to, at, chars)
<1>1. chars \in [0 .. count - 1 -> Int]
  <2>1. \A i \in 0 .. count - 1 : Byte(i) \in Int
    BY SeenIs
  <2> HIDE DEF Byte
  <2> QED
    BY <2>1
<1>2. Reads(w, u, from, first, count)
  BY ReadIs
<1> HIDE DEF u, chars
<1>3. Has(u, to) /\ u.str = w.str /\ u.ret = w.ret
  BY <1>2 DEF Reads, Only, Has
<1>4. Fills(u, v, to, at, chars, count)
  BY <1>1, <1>3, FillIs
<1> SUFFICES Copies(w, v, to, at, from, first, count)
  BY DEF copy_bytes, u, chars
<1> HIDE DEF v
<1>5. Only(w, v, to)
  BY <1>3, <1>4 DEF Fills, Only
<1>6. v.str[to].capacity = w.str[to].capacity /\ v.str[to].length = w.str[to].length
         /\ \A j \in 0 .. w.str[to].capacity :
               ~(at <= j /\ j < at + count) => v.str[to].data[j] = w.str[to].data[j]
  BY <1>3, <1>4 DEF Fills
<1>7. v.stray <=> w.stray \/ ~Within(w.str[from], first, count) \/ ~Within(w.str[to], at, count)
  BY <1>2, <1>3, <1>4, Zenon DEF Fills, Reads
<1> QED
  BY <1>5, <1>6, <1>7 DEF Copies

\* The caller's characters are written in order.
LEMMA FillFromIs ==
  ASSUME NEW w, NEW n, Has(w, n), NEW at \in Int, NEW buffer \in Seq(Int)
  PROVE  \E chars : Fills(w, FillFrom(w, n, at, buffer), n, at, chars, Len(buffer))
<1>1. Len(buffer) \in Int /\ \A i \in 0 .. Len(buffer) - 1 : buffer[i + 1] \in Int
  OBVIOUS
<1>2. [i \in 0 .. Len(buffer) - 1 |-> buffer[i + 1]] \in [0 .. Len(buffer) - 1 -> Int]
  BY <1>1
<1> QED
  BY <1>1, <1>2, FillIs DEF FillFrom

NewString(w, v, n, capacity) ==
    /\ Only(w, v, n)
    /\ v.str[n] = [capacity |-> Doubled(STRING_CAPACITY, capacity), length |-> 0,
                   data |-> Buffer(Doubled(STRING_CAPACITY, capacity) + 1)]
    /\ v.str[n].capacity >= capacity /\ v.str[n].capacity > 0 /\ v.str[n].length = 0
    /\ v.stray <=> w.stray

\* A new string has the room that was asked for.
LEMMA NewStringIs ==
  ASSUME NEW w, NEW n, IsLoose(w), n \in DOMAIN w.str, NEW capacity \in Nat
  PROVE  NewString(w, new_string(w, n, capacity), n, capacity)
<1> DEFINE size == Doubled(STRING_CAPACITY, capacity)
<1> DEFINE s == [capacity |-> size, length |-> 0, data |-> Buffer(size + 1)]
<1> DEFINE v == new_string(w, n, capacity)
<1>1. size \in Nat \ {0} /\ size >= capacity
  BY CapacityAssumption, DoubledFacts
<1>2. v = [w EXCEPT !.str[n] = s]
  BY DEF new_string
<1> HIDE DEF v, s
<1>3. v.str = [w.str EXCEPT ![n] = s] /\ v.ret = w.ret /\ v.stray = w.stray
         /\ v = [str |-> v.str, ret |-> v.ret, stray |-> v.stray]
  BY <1>2 DEF IsLoose
<1>4. v.str[n] = s
  BY <1>3
<1>5. IsBuffer(s)
  <2> HIDE DEF size
  <2>1. (size + 1) - 1 = size
    BY <1>1
  <2>2. Buffer(size + 1) \in [0 .. size -> Int]
    BY <2>1 DEF Buffer, Unknown
  <2> QED
    BY <1>1, <2>2 DEF s, IsBuffer
<1>6. DOMAIN v.str = DOMAIN w.str /\ \A m \in DOMAIN w.str : m # n => v.str[m] = w.str[m]
  BY <1>3
<1>7. v.str = [m \in DOMAIN v.str |-> v.str[m]] /\ v.stray \in BOOLEAN
  BY <1>3 DEF IsLoose
<1>8. Only(w, v, n)
  BY <1>3, <1>4, <1>5, <1>6, <1>7 DEF Only, IsLoose
<1>9. NewString(w, v, n, capacity)
  <2> HIDE DEF size
  <2>1. s.capacity >= capacity /\ s.capacity > 0 /\ s.length = 0
    BY <1>1 DEF s
  <2> QED
    BY <1>3, <1>4, <1>8, <2>1 DEF NewString, s, size
<1> QED
  BY <1>9 DEF v

Deletes(w, v, n) ==
    /\ IsLoose(v) /\ DOMAIN v.str = DOMAIN w.str /\ v.ret = w.ret
    /\ \A m \in DOMAIN w.str : m # n => v.str[m] = w.str[m]
    /\ v.str[n] = NoString /\ (v.stray <=> w.stray)

\* A string that is deleted is gone, and the others stay as they are.
LEMMA DeleteIs ==
  ASSUME NEW w, NEW n, IsLoose(w), n \in DOMAIN w.str
  PROVE  Deletes(w, delete_string(w, n), n)
<1> DEFINE v == delete_string(w, n)
<1>1. v = [w EXCEPT !.str[n] = NoString]
  BY DEF delete_string
<1> SUFFICES Deletes(w, v, n)
  OBVIOUS
<1> HIDE DEF v
<1>2. v.str = [w.str EXCEPT ![n] = NoString] /\ v.ret = w.ret /\ v.stray = w.stray
         /\ v = [str |-> v.str, ret |-> v.ret, stray |-> v.stray]
  BY <1>1 DEF IsLoose
<1>3. v.str[n] = NoString /\ DOMAIN v.str = DOMAIN w.str /\ \A m \in DOMAIN w.str : m # n => v.str[m] = w.str[m]
  BY <1>2
<1>4. v.str = [m \in DOMAIN v.str |-> v.str[m]] /\ v.stray \in BOOLEAN
  BY <1>2 DEF IsLoose
<1> QED
  BY <1>2, <1>3, <1>4 DEF Deletes, IsLoose

Reserves(w, v, n, need) ==
    /\ Only(w, v, n)
    /\ v.str[n].length = w.str[n].length
    /\ v.str[n].capacity >= need /\ v.str[n].capacity >= w.str[n].capacity
    /\ \A j \in 0 .. w.str[n].capacity : v.str[n].data[j] = w.str[n].data[j]
    /\ v.stray <=> w.stray

\* There is room for what was asked for, and what was written stays.
LEMMA ReserveIs ==
  ASSUME NEW w, NEW n, Has(w, n), NEW need \in Nat
  PROVE  Reserves(w, reserve_string(w, n, need), n, need)
<1> DEFINE size == Doubled(STRING_CAPACITY, need)
<1> DEFINE old == w.str[n].data
<1> DEFINE new == [i \in 0 .. size |-> IF i \in DOMAIN old THEN old[i] ELSE Unknown]
<1> DEFINE v == reserve_string(w, n, need)
<1>1. size \in Nat \ {0} /\ size >= need
  BY CapacityAssumption, DoubledFacts
<1>2. w.str[n].capacity \in Nat /\ w.str[n].length \in Int /\ old \in [0 .. w.str[n].capacity -> Int]
         /\ w.str[n] = [capacity |-> w.str[n].capacity, length |-> w.str[n].length, data |-> old]
  BY DEF Has, IsBuffer
<1>3. CASE w.str[n].capacity >= need \/ w.str[n].capacity = size
  <2>1. v = w
    BY <1>3 DEF reserve_string
  <2>2. w.str[n].capacity >= need /\ w.str[n].capacity >= w.str[n].capacity
    <3> HIDE DEF size
    <3> QED
      BY <1>1, <1>2, <1>3
  <2>3. Reserves(w, w, n, need)
    BY <2>2 DEF Reserves, Only, Has
  <2> QED
    BY <2>1, <2>3
<1>4. CASE ~(w.str[n].capacity >= need \/ w.str[n].capacity = size)
  <2>1. v = [w EXCEPT !.str[n].capacity = size, !.str[n].data = new]
    BY <1>4 DEF reserve_string
  <2> SUFFICES Reserves(w, v, n, need)
    OBVIOUS
  <2> HIDE DEF v, new, size
  <2>2. v.str = [w.str EXCEPT ![n] = [w.str[n] EXCEPT !.capacity = size, !.data = new]]
           /\ v.ret = w.ret /\ v.stray = w.stray
           /\ v = [str |-> v.str, ret |-> v.ret, stray |-> v.stray]
    <3> HIDE DEF old
    <3> QED
      BY <2>1 DEF Has, IsLoose
  <2>3. v.str[n] = [capacity |-> size, length |-> w.str[n].length, data |-> new]
    BY <1>2, <2>2 DEF Has
  <2>4. new \in [0 .. size -> Int]
    <3>1. ASSUME NEW i \in 0 .. size PROVE (IF i \in DOMAIN old THEN old[i] ELSE Unknown) \in Int
      BY <1>2 DEF Unknown
    <3> QED
      BY <3>1 DEF new
  <2>5. IsBuffer(v.str[n])
    BY <1>1, <1>2, <2>3, <2>4 DEF IsBuffer
  <2>6. DOMAIN v.str = DOMAIN w.str /\ \A m \in DOMAIN w.str : m # n => v.str[m] = w.str[m]
    BY <2>2 DEF Has
  <2>7. v.str = [m \in DOMAIN v.str |-> v.str[m]] /\ v.stray \in BOOLEAN
    BY <2>2 DEF Has, IsLoose
  <2>8. Only(w, v, n)
    BY <2>2, <2>5, <2>6, <2>7 DEF Only, IsLoose, Has
  <2>9. ASSUME NEW j \in 0 .. w.str[n].capacity PROVE v.str[n].data[j] = w.str[n].data[j]
    <3>1. j \in 0 .. size /\ j \in DOMAIN old
      BY <1>1, <1>2, <1>4
    <3> QED
      BY <2>3, <3>1 DEF new
  <2>10. size >= need /\ size >= w.str[n].capacity
    BY <1>1, <1>2, <1>4
  <2> QED
    BY <2>2, <2>3, <2>8, <2>9, <2>10 DEF Reserves
<1> QED
  BY <1>3, <1>4

-----------------------------------------------------------------------------
(* The functions that make strings and change them.                        *)

Fit(s) == IsBuffer(s) /\ s.length \in 0 .. s.capacity

Makes(w, v, n, length) ==
    Only(w, v, n) /\ IsString(v.str[n]) /\ v.str[n].length = length /\ (v.stray <=> w.stray)

\* A string that is ended inside its buffer is terminated.
LEMMA Ended ==
  ASSUME NEW w, NEW n, Has(w, n), NEW length \in 0 .. w.str[n].capacity
  PROVE  Makes(w, End(w, n, length), n, length) /\ End(w, n, length).str[n].capacity = w.str[n].capacity
<1> DEFINE v == End(w, n, length)
<1>1. w.str[n].capacity \in Nat /\ length \in Int
  BY DEF Has, IsBuffer
<1>2. Ends(w, v, n, length)
  BY <1>1, EndIs
<1> HIDE DEF v
<1>3. IsBuffer(v.str[n]) /\ v.str[n].length \in 0 .. v.str[n].capacity
  BY <1>1, <1>2 DEF Ends, Only
<1>4. v.str[n].data[v.str[n].length] = Nul
  BY <1>1, <1>2 DEF Ends
<1>5. Makes(w, v, n, length) /\ v.str[n].capacity = w.str[n].capacity
  BY <1>2, <1>3, <1>4 DEF Makes, Ends, IsString
<1> QED
  BY <1>5 DEF v

CopyMakes(w, v, to, from, first, count, end) ==
    /\ Only(w, v, to) /\ IsString(v.str[to]) /\ v.str[to].length = end
    /\ v.str[to].capacity = w.str[to].capacity
    /\ v.stray <=> w.stray \/ ~Within(w.str[from], first, count)

\* Characters copied into the room made for them, up to the end, make a string.
LEMMA CopiedAndEnded ==
  ASSUME NEW w, NEW to, NEW from, Has(w, to), Has(w, from), NEW at \in Nat, NEW first \in Nat, NEW count \in Nat,
         NEW end \in Nat, at + count <= end, end <= w.str[to].capacity
  PROVE  CopyMakes(w, End(copy_bytes(w, to, at, from, first, count), to, end), to, from, first, count, end)
<1> DEFINE u == copy_bytes(w, to, at, from, first, count)
<1> DEFINE v == End(u, to, end)
<1>1. Copies(w, u, to, at, from, first, count)
  BY CopyIs
<1>2. w.str[to].capacity \in Nat
  BY DEF Has, IsBuffer
<1> HIDE DEF u
<1>3. Has(u, to) /\ end \in 0 .. u.str[to].capacity
  BY <1>1, <1>2, OnlyHas DEF Copies, Has
<1>4. Makes(u, v, to, end) /\ v.str[to].capacity = u.str[to].capacity
  BY <1>3, Ended
<1> SUFFICES CopyMakes(w, v, to, from, first, count, end)
  BY DEF u
<1> HIDE DEF v
<1>5. Only(w, v, to)
  BY <1>1, <1>4, OnlyTwice DEF Copies, Makes
<1>6. Within(w.str[to], at, count)
  BY <1>2 DEF Within
<1>7. v.stray <=> w.stray \/ ~Within(w.str[from], first, count)
  BY <1>1, <1>4, <1>6, Zenon DEF Copies, Makes
<1> QED
  BY <1>1, <1>4, <1>5, <1>7 DEF Makes, CopyMakes, Copies

\* The caller's characters are written into the room made for them.
LEMMA FilledAndEnded ==
  ASSUME NEW w, NEW n, Has(w, n), NEW at \in Nat, NEW buffer \in Seq(Int), at + Len(buffer) <= w.str[n].capacity
  PROVE  Makes(w, End(FillFrom(w, n, at, buffer), n, at + Len(buffer)), n, at + Len(buffer))
<1> DEFINE u == FillFrom(w, n, at, buffer)
<1> DEFINE end == at + Len(buffer)
<1> DEFINE v == End(u, n, end)
<1>1. PICK chars : Fills(w, u, n, at, chars, Len(buffer))
  BY FillFromIs
<1>2. w.str[n].capacity \in Nat /\ Len(buffer) \in Nat
  BY DEF Has, IsBuffer
<1> HIDE DEF u
<1>3. Has(u, n) /\ end \in 0 .. u.str[n].capacity
  BY <1>1, <1>2, OnlyHas DEF Fills, Has
<1>4. Makes(u, v, n, end)
  <2> HIDE DEF end
  <2> QED
    BY <1>3, Ended
<1> SUFFICES Makes(w, v, n, end)
  BY DEF u
<1> HIDE DEF v
<1>5. Only(w, v, n)
  BY <1>1, <1>4, OnlyTwice DEF Fills, Makes
<1>6. Within(w.str[n], at, Len(buffer))
  BY <1>2 DEF Within
<1>7. v.stray <=> w.stray
  BY <1>1, <1>4, <1>6, Zenon DEF Fills, Makes
<1> QED
  BY <1>4, <1>5, <1>7 DEF Makes

GrowMakes(w, v, to, from, first, count, end) ==
    /\ Only(w, v, to) /\ IsString(v.str[to]) /\ v.str[to].length = end
    /\ v.str[to].capacity >= w.str[to].capacity
    /\ w.stray => v.stray
    /\ Within(w.str[from], first, count) => (v.stray <=> w.stray)

\* The same when the room is made first, which may move the source as well.
LEMMA CopyAfterReserve ==
  ASSUME NEW w, NEW to, NEW from, Has(w, to), Has(w, from), NEW at \in Nat, NEW first \in Nat, NEW count \in Nat,
         NEW end \in Nat, at + count <= end
  PROVE  GrowMakes(w, End(copy_bytes(reserve_string(w, to, end), to, at, from, first, count), to, end),
                   to, from, first, count, end)
<1> DEFINE u == reserve_string(w, to, end)
<1> DEFINE v == End(copy_bytes(u, to, at, from, first, count), to, end)
<1>1. Reserves(w, u, to, end)
  BY ReserveIs
<1> HIDE DEF u
<1>2. Has(u, to) /\ Has(u, from)
  BY <1>1, OnlyHas DEF Reserves, Has
<1>3. u.str[to].capacity >= end /\ end <= u.str[to].capacity
  BY <1>1, <1>2 DEF Reserves, Has, IsBuffer
<1>4. CopyMakes(u, v, to, from, first, count, end)
  BY <1>2, <1>3, CopiedAndEnded
<1> SUFFICES GrowMakes(w, v, to, from, first, count, end)
  BY DEF u
<1> HIDE DEF v
<1>5. Within(w.str[from], first, count) => Within(u.str[from], first, count)
  <2>1. w.str[from].capacity \in Nat /\ u.str[from].capacity \in Nat
    BY <1>2 DEF Has, IsBuffer
  <2>2. u.str[from].capacity >= w.str[from].capacity
    <3>1. CASE from = to
      BY <1>1, <3>1 DEF Reserves
    <3>2. CASE from # to
      BY <1>1, <2>1, <3>2 DEF Reserves, Only, Has
    <3> QED
      BY <3>1, <3>2
  <2> QED
    BY <2>1, <2>2 DEF Within
<1>6. Only(w, v, to)
  BY <1>1, <1>4, OnlyTwice DEF Reserves, CopyMakes
<1>7. /\ w.stray => v.stray
      /\ Within(w.str[from], first, count) => (v.stray <=> w.stray)
  BY <1>1, <1>4, <1>5, Zenon DEF Reserves, CopyMakes
<1>8. v.str[to].capacity >= w.str[to].capacity
  BY <1>1, <1>4 DEF Reserves, CopyMakes
<1> QED
  BY <1>4, <1>6, <1>7, <1>8 DEF GrowMakes, CopyMakes

\* Assigning a string makes one as long.
LEMMA AssignIs ==
  ASSUME NEW w, NEW to, NEW from, Has(w, to), Has(w, from), Fit(w.str[from])
  PROVE  Makes(w, assign_string(w, to, from), to, w.str[from].length)
<1> DEFINE n == Length(w, from)
<1> DEFINE v == assign_string(w, to, from)
<1>1. n \in Nat /\ n = w.str[from].length /\ n <= w.str[from].capacity /\ w.str[from].capacity \in Nat
  BY DEF Fit, IsBuffer, Length
<1>2. v = End(copy_bytes(reserve_string(w, to, n), to, 0, from, 0, n), to, n)
  BY DEF assign_string
<1> HIDE DEF n, v
<1>3. 0 \in Nat /\ 0 + n <= n
  BY <1>1
<1>4. GrowMakes(w, v, to, from, 0, n, n)
  BY <1>1, <1>2, <1>3, CopyAfterReserve
<1>5. Within(w.str[from], 0, n)
  BY <1>1 DEF Within
<1>6. Makes(w, v, to, n)
  BY <1>4, <1>5 DEF GrowMakes, Makes
<1> QED
  BY <1>1, <1>6 DEF v

\* So does assigning from a buffer.
LEMMA AssignFromBufferIs ==
  ASSUME NEW w, NEW to, Has(w, to), NEW buffer \in Seq(Int)
  PROVE  Makes(w, assign_string_from_buffer(w, to, buffer), to, Len(buffer))
<1> DEFINE u == reserve_string(w, to, Len(buffer))
<1> DEFINE v == End(FillFrom(u, to, 0, buffer), to, Len(buffer))
<1>1. Len(buffer) \in Nat /\ 0 + Len(buffer) = Len(buffer)
  OBVIOUS
<1>2. Reserves(w, u, to, Len(buffer))
  BY <1>1, ReserveIs
<1> HIDE DEF u
<1>3. Has(u, to) /\ 0 + Len(buffer) <= u.str[to].capacity
  <2>1. Has(u, to)
    BY <1>2, OnlyHas DEF Reserves, Has
  <2> QED
    BY <1>1, <1>2, <2>1 DEF Reserves, Has, IsBuffer
<1>4. Makes(u, End(FillFrom(u, to, 0, buffer), to, 0 + Len(buffer)), to, 0 + Len(buffer))
  BY <1>3, FilledAndEnded
<1>5. Makes(u, v, to, Len(buffer))
  BY <1>1, <1>4
<1> SUFFICES Makes(w, v, to, Len(buffer))
  BY DEF assign_string_from_buffer, u
<1> HIDE DEF v
<1>6. Only(w, v, to) /\ (v.stray <=> w.stray)
  BY <1>2, <1>5, OnlyTwice, Zenon DEF Reserves, Makes
<1> QED
  BY <1>5, <1>6 DEF Makes

LEMMA MakesTwice ==
  ASSUME NEW w, NEW u, NEW v, NEW n, NEW length, Only(w, u, n), u.stray <=> w.stray, Makes(u, v, n, length)
  PROVE  Makes(w, v, n, length)
<1>1. Only(w, v, n)
  BY OnlyTwice DEF Makes
<1>2. v.stray <=> w.stray
  BY Zenon DEF Makes
<1> QED
  BY <1>1, <1>2 DEF Makes

\* A copy is a string of its own, as long as its source.
LEMMA CopyStringIs ==
  ASSUME NEW w, NEW to, NEW from, to \in DOMAIN w.str, to # from, Has(w, from), Fit(w.str[from])
  PROVE  Makes(w, copy_string(w, to, from), to, w.str[from].length)
<1> DEFINE u == new_string(w, to, w.str[from].capacity)
<1>1. w.str[from].capacity \in Nat /\ IsLoose(w)
  BY DEF Fit, IsBuffer, Has
<1>2. NewString(w, u, to, w.str[from].capacity)
  BY <1>1, NewStringIs
<1> HIDE DEF u
<1>3. Has(u, to) /\ Has(u, from) /\ u.str[from] = w.str[from]
  BY <1>2, OnlyHas DEF NewString, Has, Only
<1>4. Makes(u, assign_string(u, to, from), to, w.str[from].length)
  BY <1>3, AssignIs
<1>5. Makes(w, assign_string(u, to, from), to, w.str[from].length)
  BY <1>2, <1>4, MakesTwice DEF NewString
<1> QED
  BY <1>5 DEF copy_string, u

\* So is a copy of a buffer.
LEMMA CopyBufferIs ==
  ASSUME NEW w, NEW to, IsLoose(w), to \in DOMAIN w.str, NEW buffer \in Seq(Int)
  PROVE  /\ Makes(w, copy_string_buffer(w, to, buffer), to, Len(buffer))
         /\ Makes(w, buffer_to_string(w, to, buffer), to, Len(buffer))
<1>1. ASSUME NEW capacity \in Nat
      PROVE Makes(w, assign_string_from_buffer(new_string(w, to, capacity), to, buffer), to, Len(buffer))
  <2> DEFINE u == new_string(w, to, capacity)
  <2>1. NewString(w, u, to, capacity)
    BY NewStringIs
  <2> HIDE DEF u
  <2>2. Has(u, to)
    BY <2>1, OnlyHas DEF NewString
  <2>3. Makes(u, assign_string_from_buffer(u, to, buffer), to, Len(buffer))
    BY <2>2, AssignFromBufferIs
  <2>4. Makes(w, assign_string_from_buffer(u, to, buffer), to, Len(buffer))
    BY <2>1, <2>3, MakesTwice DEF NewString
  <2> QED
    BY <2>4 DEF u
<1>2. Len(buffer) \in Nat /\ Len(buffer) + 1 \in Nat
  OBVIOUS
<1> QED
  BY <1>1, <1>2 DEF copy_string_buffer, buffer_to_string

SliceLength(s, start, end) == IF start >= s.length \/ end < start THEN 0 ELSE end - start

SliceMakes(w, v, to, from, end) ==
    /\ Only(w, v, to) /\ IsString(v.str[to])
    /\ w.stray => v.stray
    /\ end <= w.str[from].length => (v.stray <=> w.stray)

Slices(w, v, to, from, start, end) ==
    SliceMakes(w, v, to, from, end) /\ v.str[to].length = SliceLength(w.str[from], start, end)

\* A slice is a string, and strays when it ends past its source's buffer.
LEMMA CopySliceIs ==
  ASSUME NEW w, NEW to, NEW from, to \in DOMAIN w.str, to # from, Has(w, from), Fit(w.str[from]),
         NEW start \in Nat, NEW end \in Nat
  PROVE  Slices(w, copy_string_slice(w, to, from, start, end), to, from, start, end)
<1> DEFINE v == copy_string_slice(w, to, from, start, end)
<1>1. IsLoose(w) /\ w.str[from].length \in Nat /\ w.str[from].capacity \in Nat
         /\ w.str[from].length <= w.str[from].capacity
  BY DEF Has, Fit, IsBuffer
<1>2. CASE start >= Length(w, from) \/ end < start
  <2>1. v = new_string(w, to, 0)
    BY <1>2 DEF copy_string_slice
  <2>2. 0 \in Nat
    OBVIOUS
  <2>3. NewString(w, v, to, 0)
    BY <1>1, <2>1, <2>2, NewStringIs
  <2> HIDE DEF v
  <2>4. IsString(v.str[to]) /\ v.str[to].length = 0
    BY <2>3 DEF NewString, Only, IsString, IsBuffer
  <2>5. w.stray <=> v.stray
    BY <2>3 DEF NewString
  <2>6. SliceMakes(w, v, to, from, end)
    BY <2>3, <2>4, <2>5 DEF NewString, SliceMakes
  <2> QED
    BY <1>2, <2>4, <2>6 DEF v, Length, SliceLength, Slices
<1>3. CASE ~(start >= Length(w, from) \/ end < start)
  <2> DEFINE u == new_string(w, to, end - start)
  <2> DEFINE n == end - start
  <2>1. v = End(copy_bytes(u, to, 0, from, start, n), to, n)
    BY <1>3 DEF copy_string_slice
  <2>2. n \in Nat /\ 0 \in Nat /\ 0 + n <= n /\ start + n = end
    BY <1>3
  <2>3. NewString(w, u, to, n)
    BY <1>1, <2>2, NewStringIs
  <2> HIDE DEF u, v, n
  <2>4. Has(u, to) /\ Has(u, from) /\ u.str[from] = w.str[from]
    BY <2>3, OnlyHas DEF NewString, Has, Only
  <2>5. n <= u.str[to].capacity
    BY <2>2, <2>3, <2>4 DEF NewString, Has, IsBuffer
  <2>6. CopyMakes(u, v, to, from, start, n, n)
    BY <2>1, <2>2, <2>4, <2>5, CopiedAndEnded
  <2>7. end <= w.str[from].length => Within(u.str[from], start, n)
    BY <1>1, <2>2, <2>4 DEF Within
  <2>8. (w.stray => v.stray) /\ (end <= w.str[from].length => (v.stray <=> w.stray))
    BY <2>3, <2>6, <2>7, Zenon DEF NewString, CopyMakes
  <2>9. SliceMakes(w, v, to, from, end)
    BY <2>3, <2>6, <2>8, OnlyTwice DEF NewString, CopyMakes, SliceMakes
  <2>10. v.str[to].length = end - start
    BY <2>6 DEF CopyMakes, n
  <2> QED
    BY <1>3, <2>9, <2>10 DEF v, Length, SliceLength, Slices
<1> QED
  BY <1>2, <1>3

\* Appending makes a string as long as both together.
LEMMA AppendIs ==
  ASSUME NEW w, NEW to, NEW from, Has(w, to), Has(w, from), Fit(w.str[to]), Fit(w.str[from])
  PROVE  Makes(w, append_string(w, to, from), to, w.str[to].length + w.str[from].length)
         /\ append_string(w, to, from).str[to].capacity >= w.str[to].capacity
<1> DEFINE at == Length(w, to)
<1> DEFINE count == Length(w, from)
<1> DEFINE n == at + count
<1> DEFINE v == append_string(w, to, from)
<1>1. at \in Nat /\ count \in Nat /\ n \in Nat /\ n = w.str[to].length + w.str[from].length
         /\ at + count <= n /\ count <= w.str[from].capacity /\ w.str[from].capacity \in Nat
  BY DEF Fit, IsBuffer, Length
<1>2. v = End(copy_bytes(reserve_string(w, to, n), to, at, from, 0, count), to, n)
  BY DEF append_string
<1> HIDE DEF n, v, at, count
<1>3. GrowMakes(w, v, to, from, 0, count, n)
  <2>1. 0 \in Nat
    OBVIOUS
  <2> QED
    BY <1>1, <1>2, <2>1, CopyAfterReserve
<1>4. Within(w.str[from], 0, count)
  BY <1>1 DEF Within
<1>5. Makes(w, v, to, n) /\ v.str[to].capacity >= w.str[to].capacity
  BY <1>3, <1>4 DEF GrowMakes, Makes
<1> QED
  BY <1>1, <1>5 DEF v

\* So does appending from a buffer.
LEMMA AppendBufferIs ==
  ASSUME NEW w, NEW to, Has(w, to), Fit(w.str[to]), NEW buffer \in Seq(Int)
  PROVE  Makes(w, append_string_buffer(w, to, buffer), to, w.str[to].length + Len(buffer))
<1> DEFINE at == Length(w, to)
<1> DEFINE n == at + Len(buffer)
<1> DEFINE u == reserve_string(w, to, n)
<1> DEFINE v == append_string_buffer(w, to, buffer)
<1>1. at \in Nat /\ n \in Nat /\ at = w.str[to].length
  BY DEF Fit, IsBuffer, Length
<1>2. v = End(FillFrom(u, to, at, buffer), to, n)
  BY DEF append_string_buffer
<1> HIDE DEF v, at
<1>3. Reserves(w, u, to, n)
  BY <1>1, ReserveIs
<1> HIDE DEF u
<1>4. Has(u, to) /\ u.str[to].capacity >= n
  BY <1>3, OnlyHas DEF Reserves, Has
<1>5. at + Len(buffer) <= u.str[to].capacity
  BY <1>1, <1>4 DEF Has, IsBuffer
<1>6. Makes(u, v, to, n)
  BY <1>1, <1>2, <1>4, <1>5, FilledAndEnded
<1>7. Makes(w, v, to, n)
  BY <1>3, <1>6, MakesTwice DEF Reserves
<1> QED
  BY <1>1, <1>7 DEF v

\* Appending a slice keeps the target a string, and strays when it ends past its source's buffer.
LEMMA AppendSliceIs ==
  ASSUME NEW w, NEW to, NEW from, Has(w, to), Has(w, from), IsString(w.str[to]), Fit(w.str[from]),
         NEW start \in Nat, NEW end \in Nat
  PROVE  SliceMakes(w, append_string_slice(w, to, from, start, end), to, from, end)
<1> DEFINE at == Length(w, to)
<1> DEFINE n == at + end - start
<1> DEFINE count == end - start
<1> DEFINE v == append_string_slice(w, to, from, start, end)
<1> DEFINE none == Length(w, from) = 0 \/ start > Length(w, to) \/ start > end
<1>1. at \in Nat /\ w.str[from].capacity \in Nat /\ w.str[from].length <= w.str[from].capacity
         /\ w.str[from].length \in Nat
  BY DEF IsString, Fit, IsBuffer, Length
<1>2. v = IF none THEN w ELSE End(copy_bytes(reserve_string(w, to, n), to, at, from, start, count), to, n)
  BY DEF append_string_slice
<1>3. CASE none
  <2> HIDE DEF v, none
  <2>1. SliceMakes(w, w, to, from, end)
    BY DEF SliceMakes, Only, Has
  <2> QED
    BY <1>2, <1>3, <2>1 DEF v
<1>4. CASE ~none
  <2>1. count \in Nat /\ n \in Nat /\ at + count <= n /\ start + count = end
    BY <1>1, <1>4
  <2> HIDE DEF v, none, n, count, at
  <2>2. GrowMakes(w, v, to, from, start, count, n)
    BY <1>1, <1>2, <1>4, <2>1, CopyAfterReserve
  <2>3. end <= w.str[from].length => Within(w.str[from], start, count)
    BY <1>1, <2>1 DEF Within
  <2>4. SliceMakes(w, v, to, from, end)
    BY <2>2, <2>3 DEF GrowMakes, SliceMakes
  <2> QED
    BY <2>4 DEF v
<1> QED
  BY <1>3, <1>4

\* A character pushed into a string makes it one longer; outside it is not pushed.
LEMMA PushIs ==
  ASSUME NEW w, NEW n, Has(w, n), IsString(w.str[n]), NEW c \in Int, NEW index \in Int
  PROVE  \E length : Makes(w, push_string_char(w, n, c, index), n, length)
<1> DEFINE length == Length(w, n)
<1> DEFINE at == IF index = -1 THEN length ELSE index
<1> DEFINE room == reserve_string(w, n, length + 1)
<1> DEFINE read == Read(room, n, at, length + 1 - at)
<1> DEFINE chars == [i \in 0 .. length - at |-> Seen(room, n, at + i)]
<1> DEFINE moved == Fill(read, n, at + 1, chars)
<1> DEFINE put == Put(moved, n, at, c)
<1> DEFINE v == push_string_char(w, n, c, index)
<1>1. length \in Nat /\ length = w.str[n].length /\ length + 1 \in Nat
  BY DEF IsString, IsBuffer, Length
<1>2. CASE index < -1 \/ index > length
  <2>1. v = w
    BY <1>2 DEF push_string_char
  <2>2. Makes(w, w, n, length)
    BY <1>1 DEF Makes, Only, Has
  <2> QED
    BY <2>1, <2>2
<1>3. CASE ~(index < -1 \/ index > length)
  <2>1. v = End(put, n, length + 1)
    BY <1>3 DEF push_string_char
  <2>2. at \in 0 .. length /\ at \in Int
    BY <1>1, <1>3
  <2>3. Reserves(w, room, n, length + 1)
    BY <1>1, ReserveIs
  <2> SUFFICES Makes(w, v, n, length + 1)
    OBVIOUS
  <2> DEFINE count == length + 1 - at
  <2>4. count \in Nat /\ count - 1 = length - at /\ at + 1 \in Int
    BY <1>1, <2>2
  <2> HIDE DEF v, length, at, room
  <2>5. Has(room, n) /\ room.str[n].capacity \in Nat /\ room.str[n].capacity >= length + 1
    BY <2>3, OnlyHas DEF Reserves, Has, IsBuffer
  <2>6. chars \in [0 .. count - 1 -> Int]
    <3>1. \A i : Seen(room, n, at + i) \in Int
      BY <2>5, SeenIs
    <3> HIDE DEF count
    <3> QED
      BY <2>4, <3>1
  <2>7. Reads(room, read, n, at, count)
    BY <2>2, <2>4, <2>5, ReadIs
  <2> HIDE DEF chars, count, read
  <2>8. Has(read, n) /\ read.str = room.str
    BY <2>5, <2>7 DEF Reads, Only, Has
  <2>9. Fills(read, moved, n, at + 1, chars, count)
    BY <2>4, <2>6, <2>8, FillIs
  <2> HIDE DEF moved
  <2>10. Has(moved, n) /\ moved.str[n].capacity = room.str[n].capacity
    BY <2>8, <2>9, OnlyHas DEF Fills, Has
  <2> DEFINE one == [k \in {0} |-> c]
  <2>11. Fills(moved, put, n, at, one, 1)
    BY <2>2, <2>10, PutIs
  <2> HIDE DEF put, one
  <2>12. Has(put, n) /\ length + 1 \in 0 .. put.str[n].capacity
    BY <1>1, <2>5, <2>10, <2>11, OnlyHas DEF Fills, Has
  <2>13. Makes(put, v, n, length + 1)
    BY <2>1, <2>12, Ended
  <2>14. Only(w, put, n)
    BY <2>3, <2>7, <2>9, <2>11, OnlyTwice DEF Reserves, Reads, Fills
  <2>15. Within(room.str[n], at, count) /\ Within(read.str[n], at + 1, count) /\ Within(moved.str[n], at, 1)
    BY <1>1, <2>2, <2>4, <2>5, <2>8, <2>10 DEF Within
  <2>16. put.stray <=> w.stray
    BY <2>3, <2>7, <2>9, <2>11, <2>15, Zenon DEF Reserves, Reads, Fills
  <2> QED
    BY <2>13, <2>14, <2>16, MakesTwice
<1> QED
  BY <1>2, <1>3

\* A string turned round is as long as before and ends where it ended.
LEMMA ReverseIs ==
  ASSUME NEW w, NEW n, Has(w, n), IsString(w.str[n])
  PROVE  Makes(w, reverse_string(w, n), n, w.str[n].length)
<1> DEFINE length == Length(w, n)
<1> DEFINE chars == [i \in 0 .. length - 1 |-> Seen(w, n, length - 1 - i)]
<1> DEFINE v == reverse_string(w, n)
<1>1. length \in Nat /\ length = w.str[n].length /\ w.str[n].capacity \in Nat /\ length <= w.str[n].capacity
  BY DEF IsString, IsBuffer, Length
<1>2. CASE length <= 1
  <2>1. v = w
    BY <1>2 DEF reverse_string
  <2>2. Makes(w, w, n, w.str[n].length)
    BY DEF Makes, Only, Has
  <2> QED
    BY <2>1, <2>2
<1>3. CASE ~(length <= 1)
  <2>1. v = Fill(w, n, 0, chars)
    BY <1>3 DEF reverse_string
  <2> SUFFICES Makes(w, v, n, w.str[n].length)
    OBVIOUS
  <2> HIDE DEF v, length
  <2>2. chars \in [0 .. length - 1 -> Int]
    <3>1. \A i : Seen(w, n, i) \in Int
      BY SeenIs
    <3> QED
      BY <3>1
  <2>3. 0 \in Int /\ length \in Int
    BY <1>1
  <2> HIDE DEF chars
  <2>4. Fills(w, v, n, 0, chars, length)
    BY <2>1, <2>2, <2>3, FillIs
  <2>5. Within(w.str[n], 0, length)
    BY <1>1 DEF Within
  <2>6. v.str[n].data[length] = w.str[n].data[length]
    BY <1>1, <2>4 DEF Fills
  <2>7. IsString(v.str[n]) /\ v.str[n].length = w.str[n].length
    BY <1>1, <2>4, <2>6 DEF Fills, Only, IsString
  <2>8. v.stray <=> w.stray
    BY <2>4, <2>5, Zenon DEF Fills
  <2> QED
    BY <2>4, <2>7, <2>8 DEF Makes, Fills
<1> QED
  BY <1>2, <1>3

\* With the rest put aside and appended again the string has room for all of it.
LEMMA InsertIs ==
  ASSUME NEW w, NEW to, NEW from, Has(w, to), Has(w, from), IsString(w.str[to]), Fit(w.str[from]),
         Temp \in DOMAIN w.str, w.str[Temp] = NoString, to # Temp, from # Temp,
         NEW index \in Nat, NEW remove \in BOOLEAN
  PROVE  \E length : Makes(w, insert_string(w, to, from, index, remove), to, length)
<1> DEFINE before == Length(w, to)
<1> DEFINE count == Length(w, from)
<1> DEFINE start == IF remove THEN index + 1 ELSE index
<1> DEFINE room == reserve_string(w, to, before + count)
<1> DEFINE aside == copy_string_slice(room, Temp, to, start, before)
<1> DEFINE cut == SetLength(aside, to, index)
<1> DEFINE written == copy_bytes(cut, to, index, from, 0, count)
<1> DEFINE grown == SetLength(written, to, index + count)
<1> DEFINE whole == append_string(grown, to, Temp)
<1> DEFINE freed == delete_string(whole, Temp)
<1> DEFINE v == insert_string(w, to, from, index, remove)
<1>1. before \in Nat /\ count \in Nat /\ start \in Nat /\ before + count \in Nat
         /\ before = w.str[to].length /\ count <= w.str[from].capacity /\ w.str[from].capacity \in Nat
         /\ w.str[to].capacity \in Nat /\ before <= w.str[to].capacity
  BY DEF IsString, Fit, IsBuffer, Length
<1>2. CASE index > before \/ count = 0
  <2>1. v = w
    BY <1>2 DEF insert_string
  <2>2. Makes(w, w, to, before)
    BY <1>1 DEF Makes, Only, Has
  <2> QED
    BY <2>1, <2>2
<1>3. CASE ~(index > before \/ count = 0)
  <2>1. v = End(freed, to, before + count)
    BY <1>3 DEF insert_string
  <2> SUFFICES Makes(w, v, to, before + count)
    OBVIOUS
  <2> HIDE DEF v, before, count, start
  <2>2. Reserves(w, room, to, before + count)
    BY <1>1, ReserveIs
  <2> HIDE DEF room
  <2>3. Has(room, to) /\ Has(room, from) /\ IsLoose(room) /\ DOMAIN room.str = DOMAIN w.str
    BY <2>2, OnlyHas DEF Reserves, Only, Has
  <2>4. room.str[to].capacity >= before + count /\ room.str[from].capacity >= count /\ room.str[to].length = before
           /\ room.str[to].capacity \in Nat /\ room.str[from].capacity \in Nat
    <3>1. room.str[to].capacity \in Nat /\ room.str[from].capacity \in Nat
      BY <2>3 DEF Has, IsBuffer
    <3>2. CASE from = to
      BY <1>1, <2>2, <3>1, <3>2 DEF Reserves
    <3>3. CASE from # to
      BY <1>1, <2>2, <3>1, <3>3 DEF Reserves, Only, Has
    <3> QED
      BY <3>2, <3>3
  <2>5. Fit(room.str[to])
    BY <1>1, <2>3, <2>4 DEF Fit, Has
  <2>6. SliceMakes(room, aside, Temp, to, before) 
           /\ aside.str[Temp].length = SliceLength(room.str[to], start, before)
    <3>1. Temp \in DOMAIN room.str /\ Temp # to
      BY <2>3
    <3> HIDE DEF Temp
    <3>2. Slices(room, aside, Temp, to, start, before)
      BY <1>1, <2>3, <2>5, <3>1, CopySliceIs
    <3> QED
      BY <3>2 DEF Slices
  <2> HIDE DEF aside
  <2>7. Has(aside, to) /\ Has(aside, from) /\ Has(aside, Temp) /\ aside.str[to] = room.str[to] /\ aside.str[from] = room.str[from]
    BY <2>3, <2>6, OnlyHas DEF SliceMakes, Only, Has
  <2>8. aside.str[Temp].length \in Nat /\ index + count + aside.str[Temp].length <= before + count
    BY <1>1, <1>3, <2>4, <2>6 DEF start, SliceLength
  <2>9. SetsLength(aside, cut, to, index)
    BY <2>7, SetLengthIs
  <2> HIDE DEF cut
  <2>10. Has(cut, to) /\ Has(cut, from) /\ Has(cut, Temp) /\ cut.str[Temp] = aside.str[Temp]
           /\ cut.str[to].capacity = room.str[to].capacity /\ cut.str[from].capacity = room.str[from].capacity
    <3>1. Has(cut, to) /\ Has(cut, from) /\ Has(cut, Temp) /\ cut.str[Temp] = aside.str[Temp]
      BY <2>7, <2>9, OnlyHas DEF SetsLength, Only, Has
    <3>2. cut.str[to].capacity = room.str[to].capacity
      BY <2>7, <2>9 DEF SetsLength
    <3>3. from # to => cut.str[from] = aside.str[from]
      BY <2>7, <2>9 DEF SetsLength, Only, Has
    <3> QED
      BY <2>7, <3>1, <3>2, <3>3
  <2>11. Copies(cut, written, to, index, from, 0, count)
    <3>1. 0 \in Int /\ index \in Int /\ count \in Int
      BY <1>1
    <3> QED
      BY <2>10, <3>1, CopyIs
  <2> HIDE DEF written
  <2>12. Has(written, to) /\ Has(written, Temp) /\ written.str[Temp] = aside.str[Temp]
           /\ written.str[to].capacity = room.str[to].capacity
    BY <2>10, <2>11, OnlyHas DEF Copies, Only, Has
  <2>13. index + count \in Int /\ index + count \in Nat /\ index + count <= before + count
    BY <1>1, <1>3
  <2>14. SetsLength(written, grown, to, index + count)
    BY <2>12, <2>13, SetLengthIs
  <2> HIDE DEF grown
  <2>15. Has(grown, to) /\ Has(grown, Temp) /\ grown.str[Temp] = aside.str[Temp]
           /\ grown.str[to].capacity = room.str[to].capacity /\ grown.str[to].length = index + count
    BY <2>12, <2>14, OnlyHas DEF SetsLength, Only, Has
  <2>16. Fit(grown.str[to]) /\ Fit(grown.str[Temp])
    <3>1. Fit(grown.str[to])
      BY <1>1, <2>4, <2>13, <2>15 DEF Fit, Has
    <3>2. IsString(aside.str[Temp])
      BY <2>6 DEF SliceMakes
    <3> QED
      BY <2>15, <3>1, <3>2 DEF Fit, IsString
  <2>17. Makes(grown, whole, to, grown.str[to].length + grown.str[Temp].length)
            /\ whole.str[to].capacity >= grown.str[to].capacity
    BY <2>15, <2>16, AppendIs
  <2> HIDE DEF whole
  <2>18. IsLoose(whole) /\ DOMAIN whole.str = DOMAIN w.str /\ IsBuffer(whole.str[to])
            /\ whole.str[to].capacity >= before + count
    <3>1. IsLoose(whole) /\ DOMAIN whole.str = DOMAIN w.str /\ IsBuffer(whole.str[to])
      BY <2>3, <2>6, <2>9, <2>11, <2>14, <2>17 DEF Makes, Only, SliceMakes, SetsLength, Copies
    <3>2. whole.str[to].capacity \in Nat
      BY <3>1 DEF IsBuffer
    <3> QED
      BY <1>1, <2>4, <2>15, <2>17, <3>1, <3>2
  <2>19. Deletes(whole, freed, Temp)
    BY <2>18, DeleteIs
  <2> HIDE DEF freed
  <2>20. Has(freed, to) /\ before + count \in 0 .. freed.str[to].capacity
    <3>1. Has(freed, to) /\ freed.str[to] = whole.str[to]
      BY <2>18, <2>19 DEF Deletes, Has
    <3>2. freed.str[to].capacity \in Nat
      BY <3>1 DEF Has, IsBuffer
    <3> QED
      BY <1>1, <2>18, <3>1, <3>2
  <2>21. Makes(freed, v, to, before + count)
    BY <2>1, <2>20, Ended
  <2>22. Only(w, freed, to)
    <3>1. freed.ret = w.ret /\ DOMAIN freed.str = DOMAIN w.str /\ IsLoose(freed) /\ IsBuffer(freed.str[to])
      BY <2>2, <2>6, <2>9, <2>11, <2>14, <2>17, <2>18, <2>19, <2>20
         DEF Reserves, SliceMakes, SetsLength, Copies, Makes, Only, Deletes, Has
    <3>2. ASSUME NEW m \in DOMAIN w.str, m # to, m # Temp PROVE freed.str[m] = w.str[m]
      <4>1. room.str[m] = w.str[m] /\ aside.str[m] = room.str[m] /\ m \in DOMAIN aside.str /\ m \in DOMAIN whole.str
        BY <2>2, <2>3, <2>6, <2>18, <3>2 DEF Reserves, SliceMakes, Only
      <4>2. cut.str[m] = aside.str[m] /\ m \in DOMAIN cut.str
        BY <2>9, <3>2, <4>1 DEF SetsLength, Only
      <4>3. written.str[m] = cut.str[m] /\ m \in DOMAIN written.str
        BY <2>11, <3>2, <4>2 DEF Copies, Only
      <4>4. grown.str[m] = written.str[m] /\ m \in DOMAIN grown.str
        BY <2>14, <3>2, <4>3 DEF SetsLength, Only
      <4>5. whole.str[m] = grown.str[m] /\ freed.str[m] = whole.str[m]
        BY <2>17, <2>19, <3>2, <4>1, <4>4 DEF Makes, Only, Deletes
      <4> QED
        BY <4>1, <4>2, <4>3, <4>4, <4>5
    <3>3. freed.str[Temp] = w.str[Temp]
      BY <2>19 DEF Deletes
    <3> QED
      BY <3>1, <3>2, <3>3 DEF Only
  <2>23. Within(cut.str[from], 0, count) /\ Within(cut.str[to], index, count)
    BY <1>1, <1>3, <2>4, <2>10, <2>13 DEF Within
  <2>24. freed.stray <=> w.stray
    <3>1. before <= room.str[to].length
      BY <1>1, <2>4
    <3>2. aside.stray <=> w.stray
      BY <2>2, <2>6, <3>1, Zenon DEF Reserves, SliceMakes
    <3>3. written.stray <=> aside.stray
      BY <2>9, <2>11, <2>23, Zenon DEF SetsLength, Copies
    <3>4. freed.stray <=> written.stray
      BY <2>14, <2>17, <2>19, Zenon DEF SetsLength, Makes, Deletes
    <3> QED
      BY <3>2, <3>3, <3>4, Zenon
  <2> QED
    BY <2>21, <2>22, <2>24, MakesTwice
<1> QED
  BY <1>2, <1>3

-----------------------------------------------------------------------------
(* Formats.                                                                *)

RecursUpTo(f, N, S, a, G) ==
    f \in [0 .. N -> S] /\ f = [k \in 0 .. N |-> IF k = 0 THEN a ELSE G[<<k, f[k - 1]>>]]

\* A recursive function over the first numbers.
LEMMA RecursiveUpTo ==
  ASSUME NEW S, NEW a \in S, NEW N \in Nat, NEW G \in [(1 .. N) \X S -> S]
  PROVE  \E f : RecursUpTo(f, N, S, a, G)
<1> DEFINE H == [p \in Nat \X S |-> IF p[1] < N THEN G[<<p[1] + 1, p[2]>>] ELSE p[2]]
<1>1. H \in [Nat \X S -> S] /\ \A k \in 0 .. N, x \in S : k < N => H[<<k, x>>] = G[<<k + 1, x>>]
  <2>1. ASSUME NEW p \in Nat \X S PROVE (IF p[1] < N THEN G[<<p[1] + 1, p[2]>>] ELSE p[2]) \in S
    <3>1. p[1] \in Nat /\ p[2] \in S /\ (p[1] < N => <<p[1] + 1, p[2]>> \in (1 .. N) \X S)
      OBVIOUS
    <3> QED
      BY <3>1
  <2>2. H \in [Nat \X S -> S]
    BY <2>1
  <2>3. ASSUME NEW k \in 0 .. N, NEW x \in S, k < N PROVE H[<<k, x>>] = G[<<k + 1, x>>]
    <3>1. <<k, x>> \in Nat \X S /\ <<k, x>>[1] = k /\ <<k, x>>[2] = x
      OBVIOUS
    <3> QED
      BY <2>3, <3>1
  <2> QED
    BY <2>2, <2>3
<1> HIDE DEF H
<1>2. PICK h : Iterates(h, S, a, H)
  BY <1>1, Iterated
<1>3. h \in [Nat -> S] /\ h[0] = a /\ \A k \in Nat : h[k + 1] = H[<<k, h[k]>>]
  BY <1>2 DEF Iterates
<1>4. PICK f : f = [k \in 0 .. N |-> h[k]]
  OBVIOUS
<1>5. f \in [0 .. N -> S]
  BY <1>3, <1>4
<1>6. ASSUME NEW k \in 0 .. N PROVE f[k] = IF k = 0 THEN a ELSE G[<<k, f[k - 1]>>]
  <2>1. CASE k = 0
    BY <1>3, <1>4, <2>1
  <2>2. CASE k # 0
    <3>1. k - 1 \in 0 .. N /\ k - 1 \in Nat /\ (k - 1) + 1 = k /\ k - 1 < N
      BY <2>2
    <3>2. h[k] = H[<<k - 1, h[k - 1]>>] /\ h[k - 1] \in S
      BY <1>3, <3>1
    <3>3. H[<<k - 1, h[k - 1]>>] = G[<<k, h[k - 1]>>]
      BY <1>1, <3>1, <3>2
    <3>4. f[k] = h[k] /\ f[k - 1] = h[k - 1]
      BY <1>4, <3>1
    <3> QED
      BY <2>2, <3>2, <3>3, <3>4
  <2> QED
    BY <2>1, <2>2
<1>7. f = [k \in 0 .. N |-> IF k = 0 THEN a ELSE G[<<k, f[k - 1]>>]]
  BY <1>5, <1>6
<1> QED
  BY <1>5, <1>7 DEF RecursUpTo

\* The worlds with strings of the names in D.
Blocks == UNION {[capacity : {c}, length : Int, data : [0 .. c -> Int]] : c \in Nat}
Worlds(D, r) == [str : [D -> Blocks \union {NoString}], ret : {r}, stray : BOOLEAN]

LEMMA InWorlds ==
  ASSUME NEW w, IsLoose(w)
  PROVE  w \in Worlds(DOMAIN w.str, w.ret)
<1>1. ASSUME NEW m \in DOMAIN w.str
      PROVE w.str[m] \in Blocks \union {NoString}
  <2>1. CASE w.str[m] = NoString
    BY <2>1
  <2>2. CASE IsBuffer(w.str[m])
    <3> DEFINE s == w.str[m]
    <3>1. s = [capacity |-> s.capacity, length |-> s.length, data |-> s.data]
             /\ s.capacity \in Nat /\ s.length \in Int /\ s.data \in [0 .. s.capacity -> Int]
      BY <2>2 DEF IsBuffer
    <3> HIDE DEF s
    <3>2. s \in [capacity : {s.capacity}, length : Int, data : [0 .. s.capacity -> Int]]
      BY <3>1
    <3>3. s \in Blocks
      BY <3>1, <3>2 DEF Blocks
    <3> QED
      BY <3>3 DEF s
  <2> QED
    BY <2>1, <2>2 DEF IsLoose
<1> QED
  BY <1>1 DEF IsLoose, Worlds

\* The search for the next place to fill ends inside the string or at its end.
LEMMA NextSpecifierIs ==
  ASSUME NEW w, NEW n, w.str[n].length \in Nat, NEW i \in Nat
  PROVE  NextSpecifier(w, n, i) \in Nat
<1> DEFINE found == {j \in i .. Length(w, n) - 1 : IsSpecifier(w, n, j)}
<1>1. Length(w, n) \in Nat
  BY DEF Length
<1>2. found \in SUBSET Nat
  BY <1>1
<1>3. NextSpecifier(w, n, i) = IF found = {} THEN Length(w, n) ELSE CHOOSE j \in found : \A k \in found : j <= k
  BY DEF NextSpecifier
<1> HIDE DEF found
<1>4. CASE found = {}
  BY <1>1, <1>3, <1>4
<1>5. CASE found # {}
  <2>1. \E j \in found : \A k \in found : j <= k
    BY <1>2, <1>5, LeastOf
  <2>2. (CHOOSE j \in found : \A k \in found : j <= k) \in found
    BY <2>1
  <2> QED
    BY <1>2, <1>3, <1>5, <2>2
<1> QED
  BY <1>4, <1>5

Formats(w, s, to) == s = [w |-> s.w, i |-> s.i] /\ s.i \in Nat /\ \E length : Makes(w, s.w, to, length)

Argument(w, to, n) == Has(w, n) /\ IsString(w.str[n]) /\ n # to /\ n # Temp

\* One argument put into the format leaves it a string.
LEMMA ReplacedIs ==
  ASSUME NEW w, NEW to, Has(w, to), to # Temp, Temp \in DOMAIN w.str, w.str[Temp] = NoString,
         NEW arg, Argument(w, to, arg), NEW s, Formats(w, s, to)
  PROVE  Formats(w, Replaced(to, arg, s), to)
<1> DEFINE at == NextSpecifier(s.w, to, s.i)
<1> DEFINE v == insert_string(s.w, to, arg, at, TRUE)
<1> DEFINE r == Replaced(to, arg, s)
<1>1. r = IF at >= Length(s.w, to) THEN s ELSE [w |-> v, i |-> at + Length(v, arg) + 1]
  BY DEF Replaced
<1>2. PICK length : Makes(w, s.w, to, length)
  BY DEF Formats
<1>3. Has(s.w, to) /\ IsString(s.w.str[to]) /\ Temp \in DOMAIN s.w.str /\ s.w.str[Temp] = NoString
         /\ Has(s.w, arg) /\ s.w.str[arg] = w.str[arg]
  BY <1>2, OnlyHas DEF Makes, Only, Argument, Has
<1>4. s.w.str[to].length \in Nat /\ Fit(s.w.str[arg]) /\ w.str[arg].length \in Nat
  BY <1>3 DEF IsString, IsBuffer, Fit, Argument
<1>5. at \in Nat
  BY <1>4, NextSpecifierIs DEF Formats
<1> HIDE DEF at
<1>6. PICK longer : Makes(s.w, v, to, longer)
  <2>1. TRUE \in BOOLEAN /\ arg # Temp
    BY DEF Argument
  <2> HIDE DEF Temp
  <2> QED
    BY <1>3, <1>4, <1>5, <2>1, InsertIs
<1> HIDE DEF v, r
<1>7. v.str[arg] = w.str[arg]
  BY <1>3, <1>6 DEF Makes, Only, Argument, Has
<1>8. Makes(w, v, to, longer)
  BY <1>2, <1>6, MakesTwice DEF Makes
<1>9. at + Length(v, arg) + 1 \in Nat
  BY <1>4, <1>5, <1>7 DEF Length
<1>10. Formats(w, [w |-> v, i |-> at + Length(v, arg) + 1], to)
  <2> HIDE DEF v
  <2> QED
    BY <1>8, <1>9 DEF Formats
<1>11. Formats(w, r, to)
  BY <1>1, <1>10
<1> QED
  BY <1>11 DEF r

IsFormat(w, to, format, args, f) ==
    f = [k \in 0 .. Len(args) |-> IF k = 0 THEN [w |-> assign_string(w, to, format), i |-> 0]
                                  ELSE Replaced(to, args[k], f[k - 1])]

\* A format with arguments is a string, however long it gets.
LEMMA FormatIs ==
  ASSUME NEW w, NEW to, Has(w, to), to # Temp, Temp \in DOMAIN w.str, w.str[Temp] = NoString,
         NEW format, Has(w, format), Fit(w.str[format]),
         NEW args, Len(args) \in Nat, \A k \in 1 .. Len(args) : Argument(w, to, args[k])
  PROVE  \E length : Makes(w, format_string(w, to, format, args), to, length)
<1> DEFINE N == Len(args)
<1> DEFINE S == {s \in [w : Worlds(DOMAIN w.str, w.ret), i : Nat] : Formats(w, s, to)}
<1> DEFINE first == [w |-> assign_string(w, to, format), i |-> 0]
<1> DEFINE G == [p \in (1 .. N) \X S |-> Replaced(to, args[p[1]], p[2])]
<1>1. ASSUME NEW s, Formats(w, s, to) PROVE s \in S
  <2>1. PICK length : Makes(w, s.w, to, length)
    BY <1>1 DEF Formats
  <2>2. s.w \in Worlds(DOMAIN w.str, w.ret)
    BY <2>1, InWorlds DEF Makes, Only
  <2> QED
    BY <1>1, <2>2 DEF Formats
<1>2. Formats(w, first, to)
  <2> DEFINE v == assign_string(w, to, format)
  <2>1. Makes(w, v, to, w.str[format].length)
    BY AssignIs
  <2> HIDE DEF v
  <2>2. Formats(w, [w |-> v, i |-> 0], to)
    BY <2>1 DEF Formats
  <2> QED
    BY <2>2 DEF v
<1> HIDE DEF first
<1>3. ASSUME NEW k \in 1 .. N, NEW s \in S PROVE Replaced(to, args[k], s) \in S
  <2>1. Formats(w, s, to) /\ Argument(w, to, args[k])
    OBVIOUS
  <2> HIDE DEF S
  <2>2. Formats(w, Replaced(to, args[k], s), to)
    BY <2>1, ReplacedIs
  <2> QED
    BY <1>1, <2>2
<1>4. \A s \in S : Formats(w, s, to)
  OBVIOUS
<1>5. first \in S
  BY <1>1, <1>2
<1> HIDE DEF S
<1>6. G \in [(1 .. N) \X S -> S] /\ \A k \in 1 .. N, s \in S : G[<<k, s>>] = Replaced(to, args[k], s)
  <2>1. ASSUME NEW p \in (1 .. N) \X S PROVE Replaced(to, args[p[1]], p[2]) \in S
    BY <1>3
  <2>2. ASSUME NEW k \in 1 .. N, NEW s \in S PROVE G[<<k, s>>] = Replaced(to, args[k], s)
    <3>1. <<k, s>> \in (1 .. N) \X S /\ <<k, s>>[1] = k /\ <<k, s>>[2] = s
      OBVIOUS
    <3> QED
      BY <3>1
  <2> QED
    BY <2>1, <2>2
<1> HIDE DEF G
<1>7. PICK g : RecursUpTo(g, N, S, first, G)
  BY <1>5, <1>6, RecursiveUpTo
<1>8. IsFormat(w, to, format, args, g)
  <2>1. ASSUME NEW k \in 0 .. N PROVE g[k] = IF k = 0 THEN first ELSE Replaced(to, args[k], g[k - 1])
    <3>1. k = 0 \/ (k \in 1 .. N /\ k - 1 \in 0 .. N)
      OBVIOUS
    <3>2. g[k] = IF k = 0 THEN first ELSE G[<<k, g[k - 1]>>]
      BY <1>7 DEF RecursUpTo
    <3>3. k # 0 => g[k - 1] \in S
      BY <1>7, <3>1 DEF RecursUpTo
    <3> QED
      BY <1>6, <3>1, <3>2, <3>3
  <2>2. g = [k \in 0 .. N |-> IF k = 0 THEN first ELSE Replaced(to, args[k], g[k - 1])]
    BY <1>7, <2>1 DEF RecursUpTo
  <2> QED
    BY <2>2 DEF IsFormat, first
<1>9. PICK f : f = CHOOSE h : IsFormat(w, to, format, args, h)
  OBVIOUS
<1>10. f = [k \in 0 .. N |-> IF k = 0 THEN first ELSE Replaced(to, args[k], f[k - 1])]
  <2>1. IsFormat(w, to, format, args, f)
    BY <1>8, <1>9
  <2> QED
    BY <2>1 DEF IsFormat, first
<1> DEFINE Good == {k \in Nat : k <= N => f[k] \in S}
<1>11. \A k \in Nat : k \in Good
  <2>1. 0 \in Good
    BY <1>5, <1>10
  <2>2. ASSUME NEW k \in Nat, k \in Good PROVE k + 1 \in Good
    <3>1. CASE k + 1 <= N
      <4>1. k + 1 \in 1 .. N /\ k + 1 \in 0 .. N /\ (k + 1) - 1 = k /\ f[k] \in S
        BY <2>2, <3>1
      <4>2. f[k + 1] = Replaced(to, args[k + 1], f[k])
        BY <1>10, <4>1
      <4> QED
        BY <1>3, <4>1, <4>2
    <3>2. CASE ~(k + 1 <= N)
      BY <3>2
    <3> QED
      BY <3>1, <3>2
  <2> HIDE DEF Good
  <2> QED
    BY <2>1, <2>2, AllOf
<1> DEFINE Places == {i \in 0 .. Length(w, format) - 1 : IsSpecifier(w, format, i)}
<1> DEFINE places == Cardinality(Places)
<1> DEFINE last == IF N < places THEN N ELSE places
<1>12. places \in Nat
  <2>1. Length(w, format) - 1 \in Int /\ 0 \in Int
    BY DEF Length, Fit, IsBuffer
  <2>2. IsFiniteSet(0 .. Length(w, format) - 1)
    BY <2>1, FS_Interval
  <2>3. Places \subseteq 0 .. Length(w, format) - 1
    OBVIOUS
  <2> HIDE DEF Places
  <2>4. IsFiniteSet(Places)
    BY <2>2, <2>3, FS_Subset
  <2> QED
    BY <2>4, FS_CardinalityType
<1>13. format_string(w, to, format, args) = f[last].w
  BY <1>9 DEF format_string, IsFormat
<1> HIDE DEF places
<1>14. f[last] \in S
  <2>1. last \in Nat /\ last <= N
    BY <1>12
  <2> HIDE DEF last
  <2> QED
    BY <1>11, <2>1
<1> QED
  BY <1>4, <1>13, <1>14 DEF Formats

-----------------------------------------------------------------------------
(* Worlds after a call.                                                    *)

Safe(w, v) == IsWorld(v) /\ DOMAIN v.str = DOMAIN w.str

\* Either a byte outside the buffers was touched, or all is well.
Risky(w, v) == v.stray \in BOOLEAN /\ DOMAIN v.str = DOMAIN w.str /\ (~v.stray => IsWorld(v))

Gives(w, v) == IsLoose(v) /\ v.str = w.str /\ (v.stray <=> w.stray)

\* Returning a value changes nothing else.
LEMMA GivesIs ==
  ASSUME NEW w, IsLoose(w), NEW x
  PROVE  Gives(w, [w EXCEPT !.ret = x])
<1> DEFINE v == [w EXCEPT !.ret = x]
<1>1. v.str = w.str /\ v.stray = w.stray /\ v = [str |-> v.str, ret |-> v.ret, stray |-> v.stray]
  BY DEF IsLoose
<1> HIDE DEF v
<1>2. Gives(w, v)
  BY <1>1 DEF Gives, IsLoose
<1> QED
  BY <1>2 DEF v

LEMMA SafeRisky ==
  ASSUME NEW w, NEW v, Safe(w, v)
  PROVE  Risky(w, v) /\ ~v.stray
BY DEF Safe, Risky, IsWorld, IsLoose

\* A call that makes a string, or only returns a value, leaves the strings in order.
LEMMA MakesSafe ==
  ASSUME NEW w, IsWorld(w), NEW v, NEW n, n \in DOMAIN w.str, NEW length, Makes(w, v, n, length)
  PROVE  Safe(w, v)
<1>1. IsLoose(v) /\ ~v.stray /\ DOMAIN v.str = DOMAIN w.str
  BY DEF Makes, Only, IsWorld
<1>2. ASSUME NEW m \in DOMAIN v.str PROVE v.str[m] = NoString \/ IsString(v.str[m])
  BY <1>1 DEF Makes, Only, IsWorld
<1> QED
  BY <1>1, <1>2 DEF Safe, IsWorld

LEMMA GivesSafe ==
  ASSUME NEW w, IsWorld(w), NEW v, Gives(w, v)
  PROVE  Safe(w, v)
BY DEF Gives, IsWorld, Safe

LEMMA ReadsGive ==
  ASSUME NEW w, NEW v, NEW n, NEW first, NEW count, Reads(w, v, n, first, count), Within(w.str[n], first, count)
  PROVE  Gives(w, v)
<1>1. v.stray <=> w.stray
  BY Zenon DEF Reads
<1> QED
  BY <1>1 DEF Reads, Gives, Only

LEMMA WorldHas ==
  ASSUME NEW w, IsWorld(w), NEW n \in DOMAIN w.str, w.str[n] # NoString
  PROVE  Has(w, n) /\ IsString(w.str[n]) /\ Fit(w.str[n]) /\ IsLoose(w) /\ ~w.stray /\ Length(w, n) \in Nat
<1>1. IsString(w.str[n]) /\ IsLoose(w) /\ ~w.stray
  BY DEF IsWorld
<1>2. w.str[n].length \in Nat
  BY <1>1 DEF IsString, IsBuffer
<1> QED
  BY <1>1, <1>2 DEF Has, IsString, Fit, Length

\* A character popped leaves a shorter string; the position after the last one is in the buffer too.
LEMMA PopIs ==
  ASSUME NEW w, IsWorld(w), NEW n \in DOMAIN w.str, w.str[n] # NoString, NEW index \in Int
  PROVE  Safe(w, pop_string_char(w, n, index))
<1> DEFINE length == Length(w, n)
<1> DEFINE at == IF index < 0 THEN length - 1 ELSE index
<1> DEFINE read == Read(w, n, at, 1)
<1> DEFINE count == length - 1 - at
<1> DEFINE moved == copy_bytes(read, n, at, n, at + 1, count)
<1> DEFINE ended == End(moved, n, length - 1)
<1> DEFINE v == pop_string_char(w, n, index)
<1>1. Has(w, n) /\ IsString(w.str[n]) /\ IsLoose(w)
  BY WorldHas
<1>2. length \in Nat /\ length = w.str[n].length /\ length <= w.str[n].capacity /\ w.str[n].capacity \in Nat
  BY <1>1 DEF IsString, IsBuffer, Length
<1>3. CASE length = 0 \/ index > length \/ index < -1
  <2>1. v = Return(w, 0)
    BY <1>3 DEF pop_string_char
  <2>2. Gives(w, Return(w, 0))
    BY <1>1, GivesIs DEF Return
  <2> QED
    BY <2>1, <2>2, GivesSafe
<1>4. CASE ~(length = 0 \/ index > length \/ index < -1)
  <2>1. v = Return(ended, Seen(w, n, at))
    BY <1>4 DEF pop_string_char
  <2>2. at \in Nat /\ at <= length /\ at \in Int /\ length - 1 \in Nat
    BY <1>2, <1>4
  <2>3. count \in Int /\ at + 1 \in Int /\ 1 \in Int
    BY <1>2, <2>2
  <2> SUFFICES Safe(w, v)
    OBVIOUS
  <2> HIDE DEF v, length, at
  <2>4. Reads(w, read, n, at, 1)
    BY <1>1, <2>2, <2>3, ReadIs
  <2> HIDE DEF read, count
  <2>5. Has(read, n) /\ read.str = w.str
    BY <1>1, <2>4 DEF Reads, Only, Has
  <2>6. Copies(read, moved, n, at, n, at + 1, count)
    BY <2>2, <2>3, <2>5, CopyIs
  <2> HIDE DEF moved
  <2>7. Has(moved, n) /\ length - 1 \in 0 .. moved.str[n].capacity
    BY <1>2, <2>2, <2>5, <2>6, OnlyHas DEF Copies, Has
  <2>8. Makes(moved, ended, n, length - 1)
    BY <2>7, Ended
  <2> HIDE DEF ended
  <2>9. Within(w.str[n], at, 1) /\ Within(read.str[n], at + 1, count) /\ Within(read.str[n], at, count)
    BY <1>2, <2>2, <2>5 DEF Within, count
  <2>10. Only(w, moved, n)
    BY <2>4, <2>6, OnlyTwice DEF Reads, Copies
  <2>11. moved.stray <=> w.stray
    BY <2>4, <2>6, <2>9, Zenon DEF Reads, Copies
  <2>12. Makes(w, ended, n, length - 1)
    BY <2>8, <2>10, <2>11, MakesTwice
  <2>13. Safe(w, ended)
    BY <2>12, MakesSafe
  <2>14. Gives(ended, v)
    BY <2>1, <2>13, GivesIs DEF Return, Safe, IsWorld
  <2>15. Safe(ended, v)
    BY <2>13, <2>14, GivesSafe DEF Safe
  <2> QED
    BY <2>13, <2>15 DEF Safe
<1> QED
  BY <1>3, <1>4

\* Two strings of the same length are read up to it.
LEMMA CompareIs ==
  ASSUME NEW w, IsWorld(w), NEW a \in DOMAIN w.str, w.str[a] # NoString, NEW b \in DOMAIN w.str, w.str[b] # NoString
  PROVE  Safe(w, compare_string(w, a, b))
<1> DEFINE n == Length(w, a)
<1> DEFINE u == Read(w, a, 0, n)
<1> DEFINE x == Read(u, b, 0, n)
<1> DEFINE v == compare_string(w, a, b)
<1>1. Has(w, a) /\ IsString(w.str[a]) /\ Has(w, b) /\ IsString(w.str[b]) /\ IsLoose(w)
  BY WorldHas
<1>2. n \in Nat /\ n <= w.str[a].capacity /\ w.str[a].capacity \in Nat
        /\ w.str[b].length <= w.str[b].capacity /\ w.str[b].capacity \in Nat
  BY <1>1 DEF IsString, IsBuffer, Length
<1>3. CASE n # Length(w, b)
  <2>1. v = [w EXCEPT !.ret = Truth(FALSE)]
    BY <1>3 DEF compare_string, Tell
  <2> QED
    BY <1>1, <2>1, GivesIs, GivesSafe
<1>4. CASE n = Length(w, b)
  <2>1. v = [x EXCEPT !.ret = Truth(\A i \in 0 .. n - 1 : Seen(w, a, i) = Seen(w, b, i))]
    BY <1>4 DEF compare_string, Tell
  <2>2. 0 \in Int /\ n \in Int /\ n <= w.str[b].capacity
    BY <1>2, <1>4 DEF Length
  <2> SUFFICES Safe(w, v)
    OBVIOUS
  <2> HIDE DEF v, n
  <2>3. Reads(w, u, a, 0, n)
    BY <1>1, <2>2, ReadIs
  <2> HIDE DEF u
  <2>4. Has(u, b) /\ u.str = w.str
    BY <1>1, <2>3 DEF Reads, Only, Has
  <2>5. Reads(u, x, b, 0, n)
    BY <2>2, <2>4, ReadIs
  <2> HIDE DEF x
  <2>6. Within(w.str[a], 0, n) /\ Within(u.str[b], 0, n)
    BY <1>2, <2>2, <2>4 DEF Within
  <2>7. Gives(w, u) /\ Gives(u, x)
    BY <2>3, <2>5, <2>6, ReadsGive
  <2>8. Safe(w, u)
    BY <2>7, GivesSafe
  <2>9. Safe(u, x)
    BY <2>7, <2>8, GivesSafe DEF Safe
  <2>10. Gives(x, v)
    BY <2>1, <2>7, GivesIs DEF Gives
  <2>11. Safe(x, v)
    BY <2>9, <2>10, GivesSafe DEF Safe
  <2> QED
    BY <2>8, <2>9, <2>11 DEF Safe
<1> QED
  BY <1>3, <1>4

\* The searches for a character read inside the string only.
LEMMA FindsAre ==
  ASSUME NEW w, IsWorld(w), NEW n, NEW c, NEW start
  PROVE  /\ Safe(w, find_string_char(w, n, c, start))
         /\ Safe(w, find_last_string_char(w, n, c, start))
         /\ Safe(w, count_string_char(w, n, c, start))
<1>1. ASSUME NEW x PROVE Safe(w, Return(w, x))
  BY GivesIs, GivesSafe DEF Return, IsWorld
<1> QED
  BY <1>1 DEF find_string_char, find_last_string_char, count_string_char

\* From the start of the haystack the search for a substring stays in it.
LEMMA SubstringIs ==
  ASSUME NEW w, IsWorld(w), NEW a \in DOMAIN w.str, w.str[a] # NoString, NEW b, NEW start \in Nat
  PROVE  Risky(w, find_substring(w, a, b, start)) /\ (start = 0 => ~find_substring(w, a, b, start).stray)
<1> DEFINE length == Length(w, a)
<1> DEFINE v == find_substring(w, a, b, start)
<1>1. Has(w, a) /\ IsString(w.str[a]) /\ IsLoose(w) /\ ~w.stray
  BY WorldHas
<1>2. length \in Nat /\ length <= w.str[a].capacity /\ w.str[a].capacity \in Nat
  BY <1>1 DEF IsString, IsBuffer, Length
<1>3. ASSUME NEW x PROVE Safe(w, Return(w, x))
  BY <1>1, GivesIs, GivesSafe DEF Return
<1>4. CASE length = 0 \/ Length(w, b) = 0 \/ start >= length
  <2>1. v = Return(w, -1)
    BY <1>4 DEF find_substring
  <2>2. Safe(w, v)
    BY <1>3, <2>1
  <2> QED
    BY <2>2, SafeRisky
<1>5. CASE ~(length = 0 \/ Length(w, b) = 0 \/ start >= length)
  <2>1. PICK end \in 0 .. length : \E x : v = Return(Read(w, a, start, end), x)
    <3> DEFINE matched == CHOOSE matched : matched = [i \in Nat |->
            IF i = 0 THEN 0
            ELSE IF Seen(w, a, start + i - 1) = Seen(w, b, matched[i - 1])
                 THEN matched[i - 1] + 1 ELSE matched[i - 1]]
    <3> DEFINE ends == {i \in 1 .. length : matched[i] = Length(w, b)}
    <3> DEFINE end == IF ends = {} THEN length ELSE CHOOSE i \in ends : \A j \in ends : i <= j
    <3>1. v = Return(Read(w, a, start, end), IF ends = {} THEN -1 ELSE end - Length(w, b))
      BY <1>5 DEF find_substring
    <3> HIDE DEF v, matched
    <3>2. end \in 0 .. length
      <4>1. ends \in SUBSET Nat /\ ends \subseteq 0 .. length
        BY <1>2
      <4> HIDE DEF ends
      <4>2. CASE ends = {}
        BY <1>2, <4>2
      <4>3. CASE ends # {}
        <5>1. \E i \in ends : \A j \in ends : i <= j
          BY <4>1, <4>3, LeastOf
        <5>2. (CHOOSE i \in ends : \A j \in ends : i <= j) \in ends
          BY <5>1
        <5> QED
          BY <4>1, <4>3, <5>2
      <4> QED
        BY <4>2, <4>3
    <3> QED
      BY <3>1, <3>2
  <2>2. PICK x : v = Return(Read(w, a, start, end), x)
    BY <2>1
  <2> DEFINE u == Read(w, a, start, end)
  <2>3. start \in Int /\ end \in Int
    BY <1>2, <2>1
  <2> SUFFICES Risky(w, v) /\ (start = 0 => ~v.stray)
    OBVIOUS
  <2> HIDE DEF v, length
  <2>4. Reads(w, u, a, start, end)
    BY <1>1, <2>3, ReadIs
  <2> HIDE DEF u
  <2>5. Gives(u, v)
    BY <2>2, <2>4, GivesIs DEF Return, Reads, Only, u
  <2>6. Risky(w, v)
    BY <1>1, <2>4, <2>5 DEF Risky, Gives, Reads, IsWorld, IsLoose
  <2>7. start = 0 => Within(w.str[a], start, end)
    BY <1>2, <2>1 DEF Within
  <2>8. start = 0 => ~v.stray
    BY <1>1, <2>4, <2>5, <2>7, Zenon DEF Gives, Reads
  <2> QED
    BY <2>6, <2>8
<1> QED
  BY <1>4, <1>5

-----------------------------------------------------------------------------
(* Output and input.                                                       *)

IsSum(w, args, f) == f = [k \in 0 .. Len(args) |-> IF k = 0 THEN 0 ELSE f[k - 1] + Length(w, args[k])]

\* The lengths of the arguments add up to a number.
LEMMA SumIs ==
  ASSUME NEW w, NEW args, Len(args) \in Nat, \A k \in 1 .. Len(args) : Length(w, args[k]) \in Nat
  PROVE  SumLengths(w, args) \in Nat
<1> DEFINE N == Len(args)
<1> DEFINE G == [p \in (1 .. N) \X Nat |-> p[2] + Length(w, args[p[1]])]
<1>1. G \in [(1 .. N) \X Nat -> Nat] /\ \A k \in 1 .. N, s \in Nat : G[<<k, s>>] = s + Length(w, args[k])
  <2>1. ASSUME NEW p \in (1 .. N) \X Nat PROVE p[2] + Length(w, args[p[1]]) \in Nat
    <3>1. p[1] \in 1 .. N /\ p[2] \in Nat /\ Length(w, args[p[1]]) \in Nat
      OBVIOUS
    <3> QED
      BY <3>1
  <2>2. ASSUME NEW k \in 1 .. N, NEW s \in Nat PROVE G[<<k, s>>] = s + Length(w, args[k])
    <3>1. <<k, s>> \in (1 .. N) \X Nat /\ <<k, s>>[1] = k /\ <<k, s>>[2] = s
      OBVIOUS
    <3> QED
      BY <3>1
  <2> QED
    BY <2>1, <2>2
<1> HIDE DEF G
<1>2. PICK g : RecursUpTo(g, N, Nat, 0, G)
  <2>1. 0 \in Nat
    OBVIOUS
  <2> QED
    BY <1>1, <2>1, RecursiveUpTo
<1>3. IsSum(w, args, g)
  <2>1. ASSUME NEW k \in 0 .. N PROVE g[k] = IF k = 0 THEN 0 ELSE g[k - 1] + Length(w, args[k])
    <3>1. k = 0 \/ (k \in 1 .. N /\ k - 1 \in 0 .. N)
      OBVIOUS
    <3>2. g[k] = IF k = 0 THEN 0 ELSE G[<<k, g[k - 1]>>]
      BY <1>2 DEF RecursUpTo
    <3>3. k # 0 => g[k - 1] \in Nat
      BY <1>2, <3>1 DEF RecursUpTo
    <3> QED
      BY <1>1, <3>1, <3>2, <3>3
  <2>2. g = [k \in 0 .. N |-> IF k = 0 THEN 0 ELSE g[k - 1] + Length(w, args[k])]
    BY <1>2, <2>1 DEF RecursUpTo
  <2> QED
    BY <2>2 DEF IsSum
<1>4. PICK f : f = CHOOSE h : IsSum(w, args, h)
  OBVIOUS
<1>5. f = [k \in 0 .. N |-> IF k = 0 THEN 0 ELSE f[k - 1] + Length(w, args[k])]
  <2>1. IsSum(w, args, f)
    BY <1>3, <1>4
  <2> QED
    BY <2>1 DEF IsSum
<1> DEFINE Good == {k \in Nat : k <= N => f[k] \in Nat}
<1>6. \A k \in Nat : k \in Good
  <2>1. 0 \in Good
    BY <1>5
  <2>2. ASSUME NEW k \in Nat, k \in Good PROVE k + 1 \in Good
    <3>1. CASE k + 1 <= N
      <4>1. k + 1 \in 1 .. N /\ k + 1 \in 0 .. N /\ (k + 1) - 1 = k /\ f[k] \in Nat /\ k + 1 # 0
        BY <2>2, <3>1
      <4>2. f[k + 1] = f[k] + Length(w, args[k + 1])
        BY <1>5, <4>1
      <4>3. Length(w, args[k + 1]) \in Nat
        BY <4>1
      <4> QED
        BY <4>1, <4>2, <4>3
    <3>2. CASE ~(k + 1 <= N)
      BY <3>2
    <3> QED
      BY <3>1, <3>2
  <2> HIDE DEF Good
  <2> QED
    BY <2>1, <2>2, AllOf
<1>7. SumLengths(w, args) = f[N]
  BY <1>4 DEF SumLengths, IsSum
<1> QED
  BY <1>6, <1>7

\* The page is formatted, printed and deleted.
LEMMA PrintIs ==
  ASSUME NEW w, IsWorld(w), {Temp, Page} \subseteq DOMAIN w.str, w.str[Temp] = NoString, w.str[Page] = NoString,
         NEW format \in DOMAIN w.str, w.str[format] # NoString,
         NEW args, Len(args) \in Nat, \A k \in 1 .. Len(args) : args[k] \in DOMAIN w.str /\ w.str[args[k]] # NoString
  PROVE  Safe(w, print_format(w, format, args))
<1> DEFINE room == Length(w, format) + SumLengths(w, args)
<1> DEFINE page == new_string(w, Page, room)
<1> DEFINE done == format_string(page, Page, format, args)
<1> DEFINE freed == delete_string(done, Page)
<1> DEFINE v == print_format(w, format, args)
<1>1. IsLoose(w) /\ ~w.stray
  BY DEF IsWorld
<1>2. CASE args = <<>>
  <2>1. v = [w EXCEPT !.ret = Contents(w.str[format])]
    BY <1>2 DEF print_format, Printed
  <2> QED
    BY <1>1, <2>1, GivesIs, GivesSafe
<1>3. CASE args # <<>>
  <2>1. v = [freed EXCEPT !.ret = Contents(done.str[Page])]
    BY <1>3 DEF print_format, Printed
  <2>2. \A k \in 1 .. Len(args) : Length(w, args[k]) \in Nat
    BY WorldHas
  <2>3. room \in Nat
    <3>1. Length(w, format) \in Nat
      BY WorldHas
    <3>2. SumLengths(w, args) \in Nat
      BY <2>2, SumIs
    <3> QED
      BY <3>1, <3>2
  <2> SUFFICES Safe(w, v)
    OBVIOUS
  <2> HIDE DEF v, room
  <2>4. NewString(w, page, Page, room)
    BY <1>1, <2>3, NewStringIs
  <2> HIDE DEF page
  <2>5. Page # Temp
    BY DEF Page, Temp
  <2>6. Has(page, Page) /\ Temp \in DOMAIN page.str /\ page.str[Temp] = NoString /\ DOMAIN page.str = DOMAIN w.str
    BY <2>4, <2>5, OnlyHas DEF NewString, Only
  <2>7. ASSUME NEW n \in DOMAIN w.str, w.str[n] # NoString PROVE Argument(page, Page, n) /\ Fit(page.str[n])
    <3>1. n # Page /\ n # Temp /\ Has(w, n) /\ IsString(w.str[n]) /\ Fit(w.str[n])
      BY <2>7, WorldHas
    <3>2. page.str[n] = w.str[n] /\ Has(page, n)
      BY <2>4, <3>1, OnlyHas DEF NewString, Only
    <3> QED
      BY <3>1, <3>2 DEF Argument
  <2>8. Has(page, format) /\ Fit(page.str[format])
    BY <2>7 DEF Argument
  <2>9. \A k \in 1 .. Len(args) : Argument(page, Page, args[k])
    BY <2>7
  <2>10. PICK length : Makes(page, done, Page, length)
    <3> HIDE DEF Page, Temp
    <3> QED
      BY <2>5, <2>6, <2>8, <2>9, FormatIs
  <2> HIDE DEF done
  <2>11. Deletes(done, freed, Page)
    BY <2>6, <2>10, DeleteIs DEF Makes, Only
  <2> HIDE DEF freed
  <2>12. freed.str = w.str
    <3>1. ASSUME NEW m \in DOMAIN w.str PROVE freed.str[m] = w.str[m]
      <4>1. m \in DOMAIN page.str /\ m \in DOMAIN done.str
        BY <2>6, <2>10 DEF Makes, Only
      <4>2. CASE m # Page
        BY <2>4, <2>10, <2>11, <4>1, <4>2 DEF NewString, Makes, Deletes, Only
      <4>3. CASE m = Page
        BY <2>11, <4>3 DEF Deletes
      <4> QED
        BY <4>2, <4>3
    <3>2. DOMAIN freed.str = DOMAIN w.str
      BY <2>6, <2>10, <2>11 DEF Makes, Only, Deletes
    <3>3. freed.str = [m \in DOMAIN freed.str |-> freed.str[m]] /\ w.str = [m \in DOMAIN w.str |-> w.str[m]]
      BY <1>1, <2>11 DEF Deletes, IsLoose
    <3> QED
      BY <3>1, <3>2, <3>3
  <2>13. freed.stray <=> w.stray
    BY <2>4, <2>10, <2>11, Zenon DEF NewString, Makes, Deletes
  <2>14. Gives(w, freed)
    BY <2>11, <2>12, <2>13 DEF Gives, Deletes
  <2>15. Gives(freed, v)
    BY <2>1, <2>14, GivesIs DEF Gives
  <2>16. Safe(w, freed)
    BY <2>14, GivesSafe
  <2>17. Safe(freed, v)
    BY <2>15, <2>16, GivesSafe DEF Safe
  <2> QED
    BY <2>16, <2>17 DEF Safe
<1> QED
  BY <1>2, <1>3

\* A line that fits the buffer is ended inside it, with or without its last character.
LEMMA InputIs ==
  ASSUME NEW w, IsWorld(w), NEW to \in DOMAIN w.str, NEW capacity \in Nat,
         NEW line \in Seq(Int), Len(line) <= capacity, NEW failed \in BOOLEAN, NEW strip \in BOOLEAN
  PROVE  Safe(w, input(w, to, capacity, line, failed, strip))
<1> DEFINE made == new_string(w, to, capacity)
<1> DEFINE count == Len(line)
<1> DEFINE filled == FillFrom(made, to, 0, line)
<1> DEFINE once == Put(filled, to, count - 1, Nul)
<1> DEFINE twice == Put(once, to, count, Nul)
<1> DEFINE v == input(w, to, capacity, line, failed, strip)
<1>1. IsLoose(w) /\ count \in Nat
  BY DEF IsWorld
<1>2. NewString(w, made, to, capacity)
  BY <1>1, NewStringIs
<1>3. v = IF failed THEN made
          ELSE IF strip /\ count > 0 THEN SetLength(twice, to, count - 1)
          ELSE End(filled, to, count)
  BY DEF input, scan
<1> SUFFICES \E length : Makes(w, v, to, length)
  BY MakesSafe
<1> HIDE DEF made, v, count
<1>4. Has(made, to) /\ made.str[to].capacity \in Nat /\ count <= made.str[to].capacity
  <2>1. Has(made, to) /\ made.str[to].capacity \in Nat
    BY <1>2, OnlyHas DEF NewString, Has, IsBuffer
  <2> QED
    BY <1>1, <1>2, <2>1 DEF NewString, count
<1>5. CASE failed
  <2>1. IsString(made.str[to])
    BY <1>2 DEF NewString, IsString, Only, IsBuffer
  <2>2. Makes(w, made, to, 0)
    BY <1>2, <2>1 DEF NewString, Makes
  <2> QED
    BY <1>3, <1>5, <2>2
<1>6. CASE ~failed /\ strip /\ count > 0
  <2>1. PICK chars : Fills(made, filled, to, 0, chars, count)
    <3>1. 0 \in Int
      OBVIOUS
    <3> QED
      BY <1>4, <3>1, FillFromIs DEF count
  <2> HIDE DEF filled
  <2>2. Has(filled, to) /\ count \in Int /\ count - 1 \in Int /\ Nul \in Int
    BY <1>1, <1>4, <2>1, OnlyHas DEF Fills, Has, Nul
  <2> DEFINE nul == [k \in {0} |-> Nul]
  <2>3. Fills(filled, once, to, count - 1, nul, 1)
    BY <2>2, PutIs
  <2> HIDE DEF once
  <2>4. Has(once, to)
    BY <2>2, <2>3, OnlyHas DEF Fills, Has
  <2>5. Fills(once, twice, to, count, nul, 1)
    BY <2>2, <2>4, PutIs
  <2> HIDE DEF twice
  <2>6. Has(twice, to)
    BY <2>4, <2>5, OnlyHas DEF Fills, Has
  <2>7. SetsLength(twice, v, to, count - 1)
    BY <1>3, <1>6, <2>2, <2>6, SetLengthIs
  <2>8. filled.str[to].capacity = made.str[to].capacity /\ once.str[to].capacity = made.str[to].capacity
           /\ twice.str[to].capacity = made.str[to].capacity
    BY <2>1, <2>3, <2>5 DEF Fills
  <2>9. Within(made.str[to], 0, count) /\ Within(filled.str[to], count - 1, 1) /\ Within(once.str[to], count, 1)
    BY <1>1, <1>4, <1>6, <2>8 DEF Within
  <2>10. twice.str[to].data[count - 1] = Nul
    <3>1. count - 1 \in 0 .. made.str[to].capacity /\ count \in Int
      BY <1>1, <1>4, <1>6
    <3>2. twice.str[to].data[count - 1] = once.str[to].data[count - 1]
      BY <2>5, <2>8, <3>1 DEF Fills
    <3>3. once.str[to].data[count - 1] = nul[(count - 1) - (count - 1)]
      BY <2>3, <2>8, <3>1 DEF Fills
    <3>4. (count - 1) - (count - 1) = 0
      BY <3>1
    <3> QED
      BY <3>2, <3>3, <3>4
  <2>11. IsString(v.str[to]) /\ v.str[to].length = count - 1
    BY <1>1, <1>4, <1>6, <2>7, <2>8, <2>10 DEF SetsLength, Only, IsString
  <2>12. Only(w, v, to)
    BY <1>2, <2>1, <2>3, <2>5, <2>7, OnlyTwice DEF NewString, Fills, SetsLength
  <2>13. v.stray <=> w.stray
    BY <1>2, <2>1, <2>3, <2>5, <2>7, <2>9, Zenon DEF NewString, Fills, SetsLength
  <2> QED
    BY <2>11, <2>12, <2>13 DEF Makes
<1>7. CASE ~failed /\ ~(strip /\ count > 0)
  <2>1. 0 \in Nat /\ 0 + count = count /\ 0 + count <= made.str[to].capacity
    BY <1>1, <1>4
  <2>2. Makes(made, End(FillFrom(made, to, 0, line), to, 0 + Len(line)), to, 0 + Len(line))
    BY <1>4, <2>1, FilledAndEnded DEF count
  <2>3. Makes(made, v, to, count)
    BY <1>3, <1>7, <2>1, <2>2 DEF count
  <2> QED
    BY <1>2, <2>3, MakesTwice DEF NewString
<1> QED
  BY <1>5, <1>6, <1>7

-----------------------------------------------------------------------------
(* Numbers.                                                                *)

\* The search for a digit ends at the terminator at the latest.
LEMMA FirstSolidIs ==
  ASSUME NEW w, NEW n, Has(w, n)
  PROVE  /\ FirstSolid(w, n) \in Nat
         /\ \A i \in 0 .. w.str[n].capacity : w.str[n].data[i] = Nul => FirstSolid(w, n) <= i
<1> DEFINE bytes == w.str[n].data
<1> DEFINE solid == {i \in DOMAIN bytes : ~is_whitespace(bytes[i])}
<1>1. DOMAIN bytes = 0 .. w.str[n].capacity /\ w.str[n].capacity \in Nat
  BY DEF Has, IsBuffer
<1>2. FirstSolid(w, n) = IF solid = {} THEN Cardinality(DOMAIN bytes)
                         ELSE CHOOSE i \in solid : \A j \in solid : i <= j
  BY DEF FirstSolid
<1>3. solid \in SUBSET Nat
  BY <1>1
<1>4. \A i \in 0 .. w.str[n].capacity : w.str[n].data[i] = Nul => i \in solid
  BY <1>1 DEF is_whitespace, White, Nul, Space, Newline
<1>5. CASE solid = {}
  <2>1. Cardinality(DOMAIN bytes) \in Nat
    <3>1. 0 \in Int /\ w.str[n].capacity \in Int
      BY <1>1
    <3>2. IsFiniteSet(0 .. w.str[n].capacity)
      BY <3>1, FS_Interval
    <3> QED
      BY <1>1, <3>2, FS_CardinalityType
  <2> HIDE DEF solid, bytes
  <2> QED
    BY <1>2, <1>4, <1>5, <2>1
<1>6. CASE solid # {}
  <2> HIDE DEF solid
  <2>1. \E i \in solid : \A j \in solid : i <= j
    BY <1>3, <1>6, LeastOf
  <2>2. FirstSolid(w, n) \in solid /\ \A j \in solid : FirstSolid(w, n) <= j
    BY <1>2, <1>6, <2>1
  <2> QED
    BY <1>3, <1>4, <2>2
<1> QED
  BY <1>5, <1>6

Searches(w, u, n, i) ==
    /\ IsLoose(u) /\ u.str = w.str
    /\ u.stray <=> w.stray \/ ~Within(w.str[n], 0, i + 1)
                     \/ \A j \in DOMAIN w.str[n].data : j >= i => w.str[n].data[j] = Unknown

\* The search reads up to where it ends, past bytes that were written or not.
LEMMA SearchReadIs ==
  ASSUME NEW w, NEW n, Has(w, n), NEW i \in Nat
  PROVE  Searches(w, SearchRead(w, n, i), n, i)
<1> DEFINE r == Read(w, n, 0, i + 1)
<1> DEFINE unwritten == \A j \in DOMAIN w.str[n].data : j >= i => w.str[n].data[j] = Unknown
<1> DEFINE u == SearchRead(w, n, i)
<1>1. u = [r EXCEPT !.stray = @ \/ unwritten]
  BY DEF SearchRead
<1>2. 0 \in Int /\ i + 1 \in Int
  OBVIOUS
<1> SUFFICES Searches(w, u, n, i)
  OBVIOUS
<1> HIDE DEF u
<1>3. Reads(w, r, n, 0, i + 1)
  BY <1>2, ReadIs
<1> HIDE DEF r
<1>4. IsLoose(r) /\ r.str = w.str /\ (r.stray <=> w.stray \/ ~Within(w.str[n], 0, i + 1))
  BY <1>3 DEF Reads, Only
<1> HIDE DEF unwritten
<1>5. u.str = w.str /\ u.stray = (r.stray \/ unwritten) /\ u.ret = r.ret
        /\ u = [str |-> u.str, ret |-> u.ret, stray |-> u.stray]
  BY <1>1, <1>4 DEF IsLoose
<1>6. u.stray <=> w.stray \/ ~Within(w.str[n], 0, i + 1) \/ unwritten
  BY <1>4, <1>5, Zenon
<1>7. IsLoose(u)
  <2>1. u.stray \in BOOLEAN
    BY <1>5
  <2>2. u.str = [m \in DOMAIN u.str |-> u.str[m]] /\ \A m \in DOMAIN u.str : u.str[m] = NoString \/ IsBuffer(u.str[m])
    BY <1>5 DEF Has, IsLoose
  <2> QED
    BY <1>5, <2>1, <2>2 DEF IsLoose
<1> QED
  BY <1>5, <1>6, <1>7 DEF Searches, unwritten

\* The digits of a hexadecimal number are read up to the end of the string at most.
LEMMA HexIs ==
  ASSUME NEW w, NEW n, Has(w, n), Fit(w.str[n]), NEW first \in Nat, first <= w.str[n].length
  PROVE  \E count \in Int : /\ \E x : hex_prefixed_string_to_int(w, n, first) = Return(Read(w, n, first, count), x)
                            /\ Within(w.str[n], first, count)
<1> DEFINE length == Length(w, n)
<1> DEFINE refused == {j \in first .. length - 1 : Seen(w, n, j) \notin Digits \union Lowers \union Uppers}
<1> DEFINE end == IF refused = {} THEN length ELSE 1 + CHOOSE j \in refused : \A k \in refused : j <= k
<1>1. length \in Nat /\ length = w.str[n].length /\ length <= w.str[n].capacity /\ w.str[n].capacity \in Nat
  BY DEF Fit, IsBuffer, Length
<1> DEFINE value == CHOOSE value : value = [k \in Int |->
        IF k <= 0 THEN 0 ELSE Wrap(value[k - 1] * 16 + (HexDigit(Seen(w, n, first + k - 1)) % 16))]
<1>2. PICK x : hex_prefixed_string_to_int(w, n, first) = Return(Read(w, n, first, end - first), x)
  <2>1. hex_prefixed_string_to_int(w, n, first) =
           Return(Read(w, n, first, end - first), IF refused = {} THEN value[length - first] ELSE -1)
    BY DEF hex_prefixed_string_to_int
  <2> HIDE DEF value, end, refused, length
  <2> QED
    BY <2>1
<1>3. end \in Nat /\ end <= length
  <2>1. refused \in SUBSET Nat /\ \A j \in refused : j + 1 <= length /\ 1 + j = j + 1
    BY <1>1
  <2> HIDE DEF refused
  <2>2. CASE refused = {}
    BY <1>1, <2>2
  <2>3. CASE refused # {}
    <3>1. \E j \in refused : \A k \in refused : j <= k
      BY <2>1, <2>3, LeastOf
    <3>2. PICK j : j = CHOOSE i \in refused : \A k \in refused : i <= k
      OBVIOUS
    <3>3. j \in refused /\ end = 1 + j
      BY <2>3, <3>1, <3>2
    <3> HIDE DEF end
    <3> QED
      BY <2>1, <3>3
  <2> QED
    BY <2>2, <2>3
<1> HIDE DEF end
<1>4. end - first \in Int /\ Within(w.str[n], first, end - first)
  BY <1>1, <1>3 DEF Within
<1> QED
  BY <1>2, <1>4

\* A terminated string is read inside its buffer.
LEMMA StringToIntIs ==
  ASSUME NEW w, IsWorld(w), NEW n \in DOMAIN w.str, w.str[n] # NoString
  PROVE  /\ Risky(w, string_to_int(w, n))
         /\ w.str[n].data[w.str[n].length] = Nul => ~string_to_int(w, n).stray
<1> DEFINE i == FirstSolid(w, n)
<1> DEFINE length == Length(w, n)
<1> DEFINE u == SearchRead(w, n, i)
<1> DEFINE v == string_to_int(w, n)
<1> DEFINE good == w.str[n].data[w.str[n].length] = Nul
<1>1. Has(w, n) /\ Fit(w.str[n]) /\ IsLoose(w) /\ ~w.stray
  BY WorldHas
<1>2. length \in Nat /\ length = w.str[n].length /\ length <= w.str[n].capacity /\ w.str[n].capacity \in Nat
  BY <1>1 DEF Fit, IsBuffer, Length
<1>3. i \in Nat /\ (good => i <= length)
  BY <1>1, <1>2, FirstSolidIs
<1>4. \E first \in Nat, count \in Int :
         /\ \E x : v = Return(u, x) \/ v = Return(Read(u, n, first, count), x)
         /\ good => Within(w.str[n], first, count)
  <2> DEFINE suffix == to_lower(Seen(w, n, length - 1))
  <2> DEFINE base == IF suffix = LowerO THEN 8 ELSE IF suffix = LowerH THEN 16 ELSE 10
  <2> DEFINE first == IF Seen(w, n, i) \in {Plus, Minus} THEN i + 1 ELSE i
  <2> DEFINE last == IF base = 10 THEN length ELSE length - 1
  <2> DEFINE value == DigitsToInt(w, n, first, last, base)
  <2> DEFINE hex == length > i + 1 /\ Seen(w, n, i) = Digit0 /\ to_lower(Seen(w, n, i + 1)) = LowerX
  <2>1. v = IF i = length THEN Return(u, -1)
            ELSE IF hex THEN hex_prefixed_string_to_int(u, n, i + 2)
            ELSE Return(Read(u, n, first, last - first), IF Seen(w, n, i) = Minus THEN Wrap(-value) ELSE value)
    BY DEF string_to_int
  <2>2. first \in Nat /\ last \in Int /\ last <= length /\ last - first \in Int
    BY <1>2, <1>3
  <2>3. good => Within(w.str[n], first, last - first)
    BY <1>2, <2>2 DEF Within
  <2>4. hex => i + 2 \in Nat /\ i + 2 <= length
    BY <1>2, <1>3
  <2>5. Searches(w, u, n, i)
    BY <1>1, <1>3, SearchReadIs
  <2>6. Has(u, n) /\ Fit(u.str[n]) /\ u.str = w.str
    BY <1>1, <2>5 DEF Searches, Has
  <2> HIDE DEF u, i, length, hex, first, last, value, v
  <2>7. CASE i = length
    <3>1. 0 \in Nat /\ 0 \in Int /\ Within(w.str[n], 0, 0)
      BY DEF Within
    <3> QED
      BY <2>1, <2>7, <3>1
  <2>8. CASE i # length /\ hex
    <3>1. i + 2 \in Nat /\ i + 2 <= u.str[n].length
      BY <1>2, <2>4, <2>6, <2>8
    <3>2. PICK count \in Int :
             /\ \E x : hex_prefixed_string_to_int(u, n, i + 2) = Return(Read(u, n, i + 2, count), x)
             /\ Within(u.str[n], i + 2, count)
      BY <2>6, <3>1, HexIs
    <3>3. (\E x : v = Return(Read(u, n, i + 2, count), x)) /\ Within(w.str[n], i + 2, count)
      BY <2>1, <2>6, <2>8, <3>2
    <3> QED
      BY <3>1, <3>3
  <2>9. CASE i # length /\ ~hex
    <3>1. PICK x : x = IF Seen(w, n, i) = Minus THEN Wrap(-value) ELSE value
      OBVIOUS
    <3>2. v = Return(Read(u, n, first, last - first), x)
      BY <2>1, <2>9, <3>1
    <3> QED
      BY <2>2, <2>3, <3>2
  <2> QED
    BY <2>7, <2>8, <2>9
<1>5. PICK first \in Nat, count \in Int :
         /\ \E x : v = Return(u, x) \/ v = Return(Read(u, n, first, count), x)
         /\ good => Within(w.str[n], first, count)
  BY <1>4
<1>11. PICK x : v = Return(u, x) \/ v = Return(Read(u, n, first, count), x)
  BY <1>5
<1>6. Searches(w, u, n, i)
  BY <1>1, <1>3, SearchReadIs
<1>7. good => ~u.stray
  <2>1. good => Within(w.str[n], 0, i + 1)
    BY <1>2, <1>3 DEF Within
  <2>2. ASSUME good PROVE ~(\A j \in DOMAIN w.str[n].data : j >= i => w.str[n].data[j] = Unknown)
    <3>1. length \in DOMAIN w.str[n].data /\ length >= i
      BY <1>1, <1>2, <1>3, <2>2 DEF Has, IsBuffer
    <3>2. w.str[n].data[length] # Unknown
      BY <1>2, <2>2 DEF Nul, Unknown
    <3> QED
      BY <3>1, <3>2
  <2> QED
    BY <1>1, <1>6, <2>1, <2>2, Zenon DEF Searches
<1> SUFFICES Risky(w, v) /\ (good => ~v.stray)
  OBVIOUS
<1> HIDE DEF v, u, good
<1>8. Has(u, n) /\ u.str = w.str /\ IsLoose(u)
  BY <1>1, <1>6 DEF Searches, Has
<1>9. CASE v = Return(u, x)
  <2>1. Gives(u, v)
    BY <1>8, <1>9, GivesIs DEF Return
  <2>2. IsLoose(v) /\ v.str = w.str /\ (good => ~v.stray)
    BY <1>7, <1>8, <2>1 DEF Gives
  <2> QED
    BY <2>2 DEF Risky, IsWorld, IsLoose
<1>10. CASE v = Return(Read(u, n, first, count), x)
  <2> DEFINE r == Read(u, n, first, count)
  <2>1. Reads(u, r, n, first, count)
    <3>1. first \in Int
      OBVIOUS
    <3> QED
      BY <1>8, <3>1, ReadIs
  <2>2. v = [r EXCEPT !.ret = <<x>>]
    BY <1>10 DEF Return
  <2> HIDE DEF r
  <2>3. Gives(r, v)
    BY <2>1, <2>2, GivesIs DEF Reads, Only
  <2>4. IsLoose(v) /\ v.str = w.str
    BY <1>8, <2>1, <2>3 DEF Gives, Reads
  <2>5. good => ~v.stray
    BY <1>5, <1>7, <1>8, <2>1, <2>3, Zenon DEF Gives, Reads
  <2> QED
    BY <2>4, <2>5 DEF Risky, IsWorld, IsLoose
<1> QED
  BY <1>11, <1>9, <1>10

IsLeft(number, base, f) == f = [j \in Nat |-> IF j = 0 THEN number ELSE f[j - 1] \div base]

\* Taking a digit away divides by the base.
LEMMA LeftFacts ==
  ASSUME NEW number \in Nat, NEW base \in Nat \ {0}
  PROVE  /\ Left(number, base, 0) = number
         /\ \A k \in Nat : Left(number, base, k) \in Nat /\ Left(number, base, k + 1) = Left(number, base, k) \div base
<1>0. \A x \in Nat : x \div base \in Nat
  OBVIOUS
<1>1. \E f : IsLeft(number, base, f)
  <2>1. PICK G : G = [p \in Nat \X Nat |-> p[2] \div base]
    OBVIOUS
  <2>2. G \in [Nat \X Nat -> Nat] /\ \A k \in Nat, x \in Nat : G[<<k, x>>] = x \div base
    BY <1>0, <2>1
  <2>3. PICK f : Recurs(f, Nat, number, G)
    BY <2>2, Recursive
  <2>4. ASSUME NEW k \in Nat PROVE f[k] = IF k = 0 THEN number ELSE f[k - 1] \div base
    <3>1. k = 0 \/ (k - 1 \in Nat /\ f[k - 1] \in Nat)
      BY <2>3 DEF Recurs
    <3> QED
      BY <2>2, <2>3, <3>1 DEF Recurs
  <2>5. f = [k \in Nat |-> IF k = 0 THEN number ELSE f[k - 1] \div base]
    BY <2>3, <2>4 DEF Recurs
  <2> QED
    BY <2>5 DEF IsLeft
<1>2. PICK f : f = CHOOSE g : IsLeft(number, base, g)
  OBVIOUS
<1>3. \A k : Left(number, base, k) = f[k]
  BY <1>2 DEF Left, IsLeft
<1>4. f = [k \in Nat |-> IF k = 0 THEN number ELSE f[k - 1] \div base]
  BY <1>1, <1>2 DEF IsLeft
<1>5. f[0] = number /\ \A k \in Nat : f[k + 1] = f[k] \div base
  <2>1. f[0] = number
    BY <1>4
  <2>2. ASSUME NEW k \in Nat PROVE f[k + 1] = f[k] \div base
    <3>1. k + 1 \in Nat /\ k + 1 # 0 /\ (k + 1) - 1 = k
      OBVIOUS
    <3> QED
      BY <1>4, <3>1
  <2> QED
    BY <2>1, <2>2
<1> DEFINE Numbered == {k \in Nat : f[k] \in Nat}
<1>6. \A k \in Nat : k \in Numbered
  <2>1. 0 \in Numbered
    BY <1>5
  <2>2. ASSUME NEW k \in Nat, k \in Numbered PROVE k + 1 \in Numbered
    <3>1. f[k] \in Nat /\ f[k + 1] = f[k] \div base
      BY <1>5, <2>2
    <3> QED
      BY <1>0, <3>1
  <2> HIDE DEF Numbered
  <2> QED
    BY <2>1, <2>2, AllOf
<1> QED
  BY <1>3, <1>5, <1>6

LEMMA Halved ==
  ASSUME NEW x \in Nat, NEW base \in Nat, base >= 2, NEW y \in Nat, x < 2 * y
  PROVE  x \div base < y
OBVIOUS

LEMMA Thirds ==
  ASSUME NEW x \in Nat, NEW base \in Nat, base >= 3, NEW y \in Nat, y >= 1, x <= 2 * y
  PROVE  x \div base < y
<1>1. x \div base \in Nat /\ base * (x \div base) <= x
  OBVIOUS
<1>2. 3 * (x \div base) <= base * (x \div base)
  <2>1. \A q \in Nat : 3 * q <= base * q
    OBVIOUS
  <2> QED
    BY <1>1, <2>1
<1> QED
  BY <1>1, <1>2

\* A number below a power of two has no digits left after as many as the exponent.
LEMMA LeftEnds ==
  ASSUME NEW number \in Nat, NEW base \in Nat \ {0, 1}, NEW a \in Nat, NEW m \in Nat,
         Left(number, base, a) < Power(2, m)
  PROVE  Left(number, base, a + m) = 0
<1>0. /\ base \in Nat \ {0} /\ base \in Nat /\ base >= 2
      /\ \A k \in Nat : Left(number, base, k) \in Nat /\ Left(number, base, k + 1) = Left(number, base, k) \div base
  <2>1. base \in Nat \ {0} /\ base \in Nat /\ base >= 2
    OBVIOUS
  <2> QED
    BY <2>1, LeftFacts
<1> DEFINE Small == {i \in Nat : i <= m => Left(number, base, a + i) < Power(2, m - i)}
<1>1. \A i \in Nat : i \in Small
  <2>1. 0 \in Small
    <3>1. a + 0 = a /\ m - 0 = m
      OBVIOUS
    <3> QED
      BY <3>1
  <2>2. ASSUME NEW i \in Nat, i \in Small PROVE i + 1 \in Small
    <3>1. CASE i + 1 <= m
      <4>1. a + i \in Nat /\ a + (i + 1) = (a + i) + 1 /\ m - (i + 1) \in Nat /\ (m - (i + 1)) + 1 = m - i
        BY <3>1
      <4>2. Left(number, base, a + i) \in Nat
               /\ Left(number, base, a + (i + 1)) = Left(number, base, a + i) \div base
        BY <1>0, <4>1
      <4>3. Power(2, m - i) = 2 * Power(2, m - (i + 1)) /\ Power(2, m - (i + 1)) \in Nat
        BY <4>1, PowerOf2
      <4>4. Left(number, base, a + i) < 2 * Power(2, m - (i + 1))
        BY <2>2, <3>1, <4>3
      <4>5. Left(number, base, a + (i + 1)) < Power(2, m - (i + 1))
        BY <1>0, <4>2, <4>3, <4>4, Halved
      <4> QED
        BY <4>5
    <3>2. CASE ~(i + 1 <= m)
      BY <3>2
    <3> QED
      BY <3>1, <3>2
  <2> HIDE DEF Small
  <2> QED
    BY <2>1, <2>2, AllOf
<1>2. Left(number, base, a + m) < Power(2, m - m)
  BY <1>1
<1>3. m - m = 0 /\ Power(2, 0) = 1
  BY PowerFacts
<1>4. Left(number, base, a + m) \in Nat
  BY <1>0
<1> QED
  BY <1>2, <1>3, <1>4

\* When nothing is left after n digits there are no more than n.
LEMMA FiguresAre ==
  ASSUME NEW number \in Nat, NEW base \in Nat \ {0, 1}, NEW n \in 0 .. Width, Left(number, base, n) = 0
  PROVE  Figures(number, base) \in 0 .. n
<1> DEFINE Gone == {k \in 0 .. Width : Left(number, base, k) = 0}
<1> DEFINE Is(k) == Left(number, base, k) = 0 /\ \A j \in 0 .. k - 1 : Left(number, base, j) # 0
<1>1. Gone \in SUBSET Nat /\ n \in Gone
  OBVIOUS
<1>2. PICK least \in Gone : \A j \in Gone : least <= j
  <2> HIDE DEF Gone
  <2> QED
    BY <1>1, LeastOf
<1>3. least \in 0 .. Width /\ Is(least)
  <2>1. least \in 0 .. Width /\ Left(number, base, least) = 0
    OBVIOUS
  <2>2. ASSUME NEW j \in 0 .. least - 1 PROVE Left(number, base, j) # 0
    <3>1. j \in 0 .. Width /\ ~(least <= j)
      BY <2>1, WidthAssumption
    <3> QED
      BY <1>2, <3>1
  <2> QED
    BY <2>1, <2>2
<1>4. PICK k : k = CHOOSE i \in 0 .. Width : Is(i)
  OBVIOUS
<1>5. Figures(number, base) = k
  BY <1>4 DEF Figures
<1>6. k \in 0 .. Width /\ Is(k)
  <2> HIDE DEF Is
  <2> QED
    BY <1>3, <1>4
<1>7. k <= n
  <2>1. SUFFICES ASSUME n < k PROVE FALSE
    BY <1>6
  <2>2. n \in 0 .. k - 1
    BY <1>6, <2>1
  <2> QED
    BY <1>6, <2>2
<1> QED
  BY <1>5, <1>6, <1>7

LEMMA HalfIs == Half \in Nat \ {0} /\ 2 * Half = Power(2, Width) /\ Width - 1 \in Nat
<1>1. Width - 1 \in Nat /\ (Width - 1) + 1 = Width
  BY WidthAssumption
<1> QED
  BY <1>1, PowerOf2 DEF Half

\* The size of a number is at most half of the range, and less but for the least integer.
LEMMA SizeIs ==
  ASSUME NEW number \in Integers
  PROVE  SizeOf(number) \in 0 .. Half /\ (number # -Half => SizeOf(number) < Half)
<1>1. Half \in Nat /\ Half > 0 /\ number \in Int /\ -Half <= number /\ number < Half
  BY HalfIs DEF Integers
<1>2. \A h \in Nat : h > 0 => \A x \in 0 .. 2 * h - 1 : x % (2 * h) = x
  OBVIOUS
<1>3. CASE number >= 0
  <2>1. SizeOf(number) = number % (2 * Half) /\ number \in 0 .. 2 * Half - 1
    BY <1>1, <1>3 DEF SizeOf
  <2>2. SizeOf(number) = number
    BY <1>1, <1>2, <2>1
  <2> QED
    BY <1>1, <1>3, <2>2
<1>4. CASE number < 0 /\ number # -Half
  <2>1. SizeOf(number) = (((-number + Half) % (2 * Half)) - Half) % (2 * Half)
    BY <1>1, <1>4 DEF SizeOf, Wrap
  <2>2. -number + Half \in 0 .. 2 * Half - 1 /\ -number \in 0 .. 2 * Half - 1 /\ (-number + Half) - Half = -number
    BY <1>1, <1>4
  <2>3. (-number + Half) % (2 * Half) = -number + Half /\ (-number) % (2 * Half) = -number
    BY <1>1, <1>2, <2>2
  <2>4. SizeOf(number) = -number
    BY <2>1, <2>2, <2>3
  <2> QED
    BY <1>1, <1>4, <2>4
<1>5. CASE number = -Half
  <2>1. -number = Half /\ number < 0
    BY <1>1, <1>5
  <2>2. SizeOf(number) = (((Half + Half) % (2 * Half)) - Half) % (2 * Half)
    BY <1>1, <2>1 DEF SizeOf, Wrap
  <2>3. (Half + Half) % (2 * Half) = 0
    <3>1. \A h \in Nat : h > 0 => (h + h) % (2 * h) = 0
      <4>1. \A m \in Nat : m > 0 => m % m = 0
        OBVIOUS
      <4>2. ASSUME NEW h \in Nat, h > 0 PROVE (h + h) % (2 * h) = 0
        <5>1. h + h = 2 * h /\ 2 * h \in Nat /\ 2 * h > 0
          BY <4>2
        <5> QED
          BY <4>1, <5>1
      <4> QED
        BY <4>2
    <3> QED
      BY <1>1, <3>1
  <2>4. (0 - Half) % (2 * Half) = Half
    <3>1. \A h \in Nat : h > 0 => (0 - h) % (2 * h) = h
      OBVIOUS
    <3> QED
      BY <1>1, <3>1
  <2>5. SizeOf(number) = Half
    BY <2>2, <2>3, <2>4
  <2> QED
    BY <1>1, <1>5, <2>5
<1> QED
  BY <1>1, <1>3, <1>4, <1>5

\* An integer has as many digits as it has bits at most, and one less when its
\* sign is written too, but for the least integer in base two.
LEMMA FiguresFit ==
  ASSUME NEW number \in Integers, NEW base \in Nat \ {0, 1}
  PROVE  /\ Figures(SizeOf(number), base) \in 0 .. Width
         /\ ~(base = 2 /\ number = -Half) => Figures(SizeOf(number), base) \in 0 .. Width - 1
<1> DEFINE size == SizeOf(number)
<1>1. size \in Nat /\ size <= Half /\ (number # -Half => size < Half)
  BY SizeIs, HalfIs
<1>2. Width \in Nat /\ Width > 1 /\ Width - 1 \in Nat /\ 0 \in Nat /\ 0 + Width = Width /\ 0 + (Width - 1) = Width - 1
  BY WidthAssumption
<1>3. Half \in Nat \ {0} /\ 2 * Half = Power(2, Width) /\ Half = Power(2, Width - 1)
  BY HalfIs DEF Half
<1> HIDE DEF size
<1>4. Left(size, base, 0) = size
  BY <1>1, LeftFacts
<1>5. Figures(size, base) \in 0 .. Width
  <2>1. Left(size, base, 0) < Power(2, Width)
    BY <1>1, <1>3, <1>4
  <2>2. Left(size, base, Width) = 0
    BY <1>1, <1>2, <2>1, LeftEnds
  <2> QED
    BY <1>1, <1>2, <2>2, FiguresAre
<1>6. CASE number # -Half
  <2>1. Left(size, base, 0) < Power(2, Width - 1)
    BY <1>1, <1>3, <1>4, <1>6
  <2>2. Left(size, base, Width - 1) = 0
    BY <1>1, <1>2, <2>1, LeftEnds
  <2>3. Width - 1 \in 0 .. Width
    BY <1>2
  <2>4. Figures(size, base) \in 0 .. Width - 1
    BY <1>1, <2>2, <2>3, FiguresAre
  <2> QED
    BY <1>5, <2>4 DEF size
<1>7. CASE base # 2
  <2>1. base >= 3 /\ base \in Nat /\ base \in Nat \ {0}
    BY <1>7
  <2>2. Left(size, base, 0 + 1) = size \div base
    <3>1. \A k \in Nat : Left(size, base, k + 1) = Left(size, base, k) \div base
      BY <1>1, <2>1, LeftFacts
    <3> QED
      BY <1>2, <1>4, <3>1
  <2>3. Width - 2 \in Nat /\ (Width - 2) + 1 = Width - 1 /\ 1 + (Width - 2) = Width - 1 /\ 0 + 1 = 1 /\ 1 \in Nat
    BY <1>2
  <2>4. Half = 2 * Power(2, Width - 2) /\ Power(2, Width - 2) \in Nat \ {0}
    BY <1>3, <2>3, PowerOf2
  <2>5. size \div base < Power(2, Width - 2)
    <3>1. Power(2, Width - 2) >= 1 /\ size <= 2 * Power(2, Width - 2)
      BY <1>1, <2>4
    <3> QED
      BY <1>1, <2>1, <2>4, <3>1, Thirds
  <2>6. Left(size, base, 1) < Power(2, Width - 2)
    BY <2>2, <2>3, <2>5
  <2>7. Left(size, base, Width - 1) = 0
    BY <1>1, <2>3, <2>6, LeftEnds
  <2>8. Width - 1 \in 0 .. Width
    BY <1>2
  <2>9. Figures(size, base) \in 0 .. Width - 1
    BY <1>1, <2>7, <2>8, FiguresAre
  <2> QED
    BY <1>5, <2>9 DEF size
<1>8. CASE base = 2 /\ number = -Half
  BY <1>5, <1>8 DEF size
<1> QED
  BY <1>6, <1>7, <1>8

\* A string turned round keeps its size, whatever is in it.
LEMMA ReverseKeeps ==
  ASSUME NEW w, NEW n, Has(w, n)
  PROVE  /\ Only(w, reverse_string(w, n), n)
         /\ reverse_string(w, n).str[n].capacity = w.str[n].capacity
         /\ reverse_string(w, n).str[n].length = w.str[n].length
         /\ w.stray => reverse_string(w, n).stray
<1> DEFINE length == Length(w, n)
<1> DEFINE chars == [i \in 0 .. length - 1 |-> Seen(w, n, length - 1 - i)]
<1>1. length \in Int
  BY DEF Has, IsBuffer, Length
<1>2. CASE length <= 1
  BY <1>2 DEF reverse_string, Has, Only
<1>3. CASE ~(length <= 1)
  <2>1. reverse_string(w, n) = Fill(w, n, 0, chars)
    BY <1>3 DEF reverse_string
  <2>2. chars \in [0 .. length - 1 -> Int] /\ 0 \in Int
    BY SeenIs
  <2> HIDE DEF chars, length
  <2>3. Fills(w, reverse_string(w, n), n, 0, chars, length)
    BY <1>1, <2>1, <2>2, FillIs
  <2> QED
    BY <2>3, Zenon DEF Fills
<1> QED
  BY <1>2, <1>3

NumeralLength(number, base) ==
    IF number = 0 THEN 1 ELSE Figures(SizeOf(number), base) + (IF number < 0 THEN 1 ELSE 0)

\* A numeral has one character per bit at most, but for the least integer in base two.
LEMMA NumeralFits ==
  ASSUME NEW number \in Integers, NEW base \in Nat \ {0, 1}
  PROVE  /\ NumeralLength(number, base) \in Nat
         /\ ~(base = 2 /\ number = -Half) => NumeralLength(number, base) <= Width
<1> DEFINE n == Figures(SizeOf(number), base)
<1>1. Width \in Nat /\ Width > 1 /\ Half \in Nat \ {0}
  BY WidthAssumption, HalfIs
<1>2. number \in Int
  BY <1>1 DEF Integers
<1>3. n \in 0 .. Width /\ (~(base = 2 /\ number = -Half) => n \in 0 .. Width - 1)
  BY FiguresFit
<1> HIDE DEF n
<1>4. NumeralLength(number, base) = IF number = 0 THEN 1 ELSE n + (IF number < 0 THEN 1 ELSE 0)
  BY DEF NumeralLength, n
<1> QED
  BY <1>1, <1>2, <1>3, <1>4

Room == Doubled(STRING_CAPACITY, INT_BUFFER_CAPACITY)

Numerates(w, v, to, length) ==
    /\ Only(w, v, to) /\ v.str[to].capacity = Room
    /\ length <= Room => Makes(w, v, to, length)
    /\ length > Room => v.stray

\* The digits, the sign and the terminator fit into the buffer, or the call strays.
LEMMA IntToStringIs ==
  ASSUME NEW w, NEW to, IsLoose(w), to \in DOMAIN w.str, NEW number \in Integers, NEW base \in Nat \ {0, 1},
         Width <= Room
  PROVE  Numerates(w, int_to_string(w, to, number, base), to, NumeralLength(number, base))
<1> DEFINE made == new_string(w, to, INT_BUFFER_CAPACITY)
<1> DEFINE size == SizeOf(number)
<1> DEFINE n == Figures(size, base)
<1> DEFINE figures == [i \in 0 .. n - 1 |-> Digit0 + (Left(size, base, i) % base)]
<1> DEFINE digits == Fill(made, to, 0, figures)
<1> DEFINE minus == Put(digits, to, n, Minus)
<1> DEFINE signed == IF number < 0 THEN End(minus, to, n + 1) ELSE End(digits, to, n)
<1> DEFINE v == int_to_string(w, to, number, base)
<1> DEFINE length == NumeralLength(number, base)
<1>1. Width \in Nat /\ Width > 1 /\ Half \in Nat \ {0} /\ number \in Int
  BY WidthAssumption, HalfIs DEF Integers
<1>2. size \in Nat
  BY <1>1, SizeIs
<1>3. NewString(w, made, to, INT_BUFFER_CAPACITY)
  BY CapacityAssumption, NewStringIs
<1>4. v = IF number = 0 THEN End(Put(made, to, 0, Digit0), to, 1) ELSE reverse_string(signed, to)
  BY DEF int_to_string
<1> SUFFICES Numerates(w, v, to, length)
  OBVIOUS
<1> HIDE DEF made, v
<1>5. Has(made, to) /\ made.str[to].capacity = Room
  BY <1>3, OnlyHas DEF NewString, Has, Room
<1>6. Room \in Nat
  BY CapacityAssumption, DoubledFacts DEF Room
<1>7. CASE number = 0
  <2> DEFINE zero == Put(made, to, 0, Digit0)
  <2> DEFINE digit == [k \in {0} |-> Digit0]
  <2>1. Fills(made, zero, to, 0, digit, 1)
    <3>1. 0 \in Int /\ Digit0 \in Int
      BY DEF Digit0
    <3> QED
      BY <1>5, <3>1, PutIs
  <2>2. v = End(zero, to, 1) /\ length = 1
    BY <1>4, <1>7 DEF NumeralLength
  <2> HIDE DEF zero, length, digit
  <2>3. Has(zero, to) /\ zero.str[to].capacity = Room /\ 1 \in 0 .. zero.str[to].capacity
    BY <1>1, <1>5, <1>6, <2>1, OnlyHas DEF Fills, Has
  <2>4. Makes(zero, v, to, 1) /\ v.str[to].capacity = Room
    BY <2>2, <2>3, Ended
  <2>5. Within(made.str[to], 0, 1)
    BY <1>5, <1>6 DEF Within
  <2>6. Only(w, zero, to)
    BY <1>3, <2>1, OnlyTwice DEF NewString, Fills
  <2>7. zero.stray <=> w.stray
    BY <1>3, <2>1, <2>5, Zenon DEF NewString, Fills
  <2>8. Makes(w, v, to, 1)
    BY <2>4, <2>6, <2>7, MakesTwice
  <2>9. length <= Room
    BY <1>1, <1>6, <2>2
  <2> QED
    BY <1>6, <2>2, <2>4, <2>8, <2>9 DEF Numerates, Makes
<1>8. CASE number # 0
  <2>1. n \in Nat /\ n <= Width /\ length = n + (IF number < 0 THEN 1 ELSE 0)
    <3>1. n \in 0 .. Width
      BY FiguresFit
    <3> QED
      BY <1>1, <1>8, <3>1 DEF NumeralLength
  <2>2. figures \in [0 .. n - 1 -> Int]
    <3>1. \A k \in Nat : Left(size, base, k) \in Nat
      BY <1>2, LeftFacts
    <3>2. \A x \in Nat : x % base \in Nat
      OBVIOUS
    <3> HIDE DEF size, n
    <3>3. ASSUME NEW i \in 0 .. n - 1 PROVE Digit0 + (Left(size, base, i) % base) \in Int
      BY <2>1, <3>1, <3>2, <3>3 DEF Digit0
    <3> QED
      BY <3>3
  <2>3. v = reverse_string(signed, to)
    BY <1>4, <1>8
  <2> HIDE DEF figures, n, size, length
  <2>4. Fills(made, digits, to, 0, figures, n) /\ n \in Int
    BY <1>5, <2>1, <2>2, FillIs
  <2>5. Within(made.str[to], 0, n)
    BY <1>1, <1>5, <1>6, <2>1 DEF Within
  <2>6. Has(digits, to) /\ digits.str[to].capacity = Room
    BY <1>5, <2>4, OnlyHas DEF Fills, Has
  <2> DEFINE sign == [k \in {0} |-> Minus]
  <2> HIDE DEF digits
  <2>7. Fills(digits, minus, to, n, sign, 1)
    <3>1. Minus \in Int
      BY DEF Minus
    <3> QED
      BY <2>4, <2>6, <3>1, PutIs
  <2>8. Within(digits.str[to], n, 1)
    BY <1>1, <1>6, <2>1, <2>6 DEF Within
  <2> HIDE DEF minus, sign
  <2> DEFINE written == IF number < 0 THEN minus ELSE digits
  <2>9. signed = End(written, to, length)
    BY <2>1
  <2>10. Only(w, written, to) /\ written.str[to].capacity = Room /\ Has(written, to)
    <3>1. Only(w, digits, to)
      BY <1>3, <2>4, OnlyTwice DEF NewString, Fills
    <3>2. Only(w, minus, to) /\ minus.str[to].capacity = Room
      BY <2>6, <2>7, <3>1, OnlyTwice DEF Fills
    <3> QED
      BY <2>6, <3>1, <3>2, OnlyHas
  <2>11. written.stray <=> w.stray
    <3>1. digits.stray <=> w.stray
      BY <1>3, <2>4, <2>5, Zenon DEF NewString, Fills
    <3>2. minus.stray <=> w.stray
      BY <2>7, <2>8, <3>1, Zenon DEF Fills
    <3> QED
      BY <3>1, <3>2
  <2>12. length \in Nat
    BY <1>1, <2>1
  <2> HIDE DEF written, signed
  <2>13. CASE length <= Room
    <3>1. length \in 0 .. written.str[to].capacity
      BY <1>6, <2>10, <2>12, <2>13
    <3>2. Makes(written, signed, to, length) /\ signed.str[to].capacity = Room
      BY <2>9, <2>10, <3>1, Ended
    <3>3. Has(signed, to) /\ IsString(signed.str[to]) /\ signed.str[to].length = length
      BY <2>10, <3>2, OnlyHas DEF Makes, Has
    <3>4. Makes(signed, v, to, length) /\ v.str[to].capacity = Room
      BY <2>3, <3>2, <3>3, ReverseIs, ReverseKeeps
    <3>5. Only(w, signed, to) /\ (signed.stray <=> w.stray)
      BY <2>10, <2>11, <3>2, OnlyTwice DEF Makes
    <3>6. Makes(w, v, to, length)
      BY <3>4, <3>5, MakesTwice
    <3> QED
      BY <1>6, <2>12, <2>13, <3>4, <3>6 DEF Numerates, Makes
  <2>14. CASE length > Room
    <3>1. Ends(written, signed, to, length) /\ length \notin 0 .. written.str[to].capacity
      BY <1>6, <2>9, <2>10, <2>12, <2>14, EndIs
    <3>2. signed.stray
      BY <3>1, Zenon DEF Ends
    <3>3. Has(signed, to) /\ signed.str[to].capacity = Room /\ Only(w, signed, to)
      BY <2>10, <3>1, OnlyHas, OnlyTwice DEF Ends, Has
    <3>4. Only(signed, v, to) /\ v.str[to].capacity = Room /\ v.stray
      BY <2>3, <3>2, <3>3, ReverseKeeps
    <3>5. Only(w, v, to)
      BY <3>3, <3>4, OnlyTwice
    <3> QED
      BY <1>6, <2>12, <2>14, <3>4, <3>5 DEF Numerates
  <2> QED
    BY <1>6, <2>12, <2>13, <2>14
<1> QED
  BY <1>7, <1>8

\* A world whose strings may have a capacity that is not the size of their buffer.
Shaped(w, n) ==
    /\ w = [str |-> w.str, ret |-> w.ret, stray |-> w.stray] /\ w.stray \in BOOLEAN
    /\ w.str = [m \in DOMAIN w.str |-> w.str[m]] /\ n \in DOMAIN w.str
    /\ w.str[n] = [capacity |-> w.str[n].capacity, length |-> w.str[n].length, data |-> w.str[n].data]

\* Writing strays when one of the bytes is outside the buffer, whatever the capacity says.
LEMMA FillStrays ==
  ASSUME NEW w, NEW n, Shaped(w, n), NEW at, NEW chars
  PROVE  /\ Shaped(Fill(w, n, at, chars), n)
         /\ DOMAIN Fill(w, n, at, chars).str = DOMAIN w.str
         /\ DOMAIN Fill(w, n, at, chars).str[n].data = DOMAIN w.str[n].data
         /\ Fill(w, n, at, chars).stray <=> w.stray \/ \E i \in DOMAIN chars : at + i \notin DOMAIN w.str[n].data
<1> DEFINE v == Fill(w, n, at, chars)
<1> DEFINE s == w.str[n]
<1> DEFINE new == [j \in DOMAIN s.data |-> IF j - at \in DOMAIN chars THEN chars[j - at] ELSE s.data[j]]
<1>1. v = [w EXCEPT !.str[n].data = new, !.stray = @ \/ \E i \in DOMAIN chars : at + i \notin DOMAIN s.data]
  BY DEF Fill
<1>2. DOMAIN new = DOMAIN s.data
  OBVIOUS
<1> HIDE DEF v, new
<1>3. v.str = [w.str EXCEPT ![n].data = new]
         /\ v.stray = (w.stray \/ \E i \in DOMAIN chars : at + i \notin DOMAIN s.data)
         /\ v = [str |-> v.str, ret |-> v.ret, stray |-> v.stray]
  BY <1>1 DEF Shaped
<1>4. v.str[n] = [capacity |-> s.capacity, length |-> s.length, data |-> new] /\ DOMAIN v.str = DOMAIN w.str
         /\ v.str = [m \in DOMAIN v.str |-> v.str[m]]
  BY <1>3 DEF Shaped
<1>5. Shaped(v, n)
  BY <1>3, <1>4 DEF Shaped
<1>6. v.stray <=> w.stray \/ \E i \in DOMAIN chars : at + i \notin DOMAIN s.data
  BY <1>3, Zenon
<1> QED
  BY <1>2, <1>4, <1>5, <1>6 DEF v

LEMMA EndStrays ==
  ASSUME NEW w, NEW n, Shaped(w, n), NEW length
  PROVE  Shaped(End(w, n, length), n) /\ DOMAIN End(w, n, length).str = DOMAIN w.str
            /\ (w.stray => End(w, n, length).stray)
<1> DEFINE u == SetLength(w, n, length)
<1>1. u.str = [w.str EXCEPT ![n].length = length] /\ u.stray = w.stray
         /\ u = [str |-> u.str, ret |-> u.ret, stray |-> u.stray]
  BY DEF Shaped, SetLength
<1>2. End(w, n, length) = Fill(u, n, length, [k \in {0} |-> Nul])
  BY DEF End, Put
<1> HIDE DEF u
<1>3. Shaped(u, n) /\ DOMAIN u.str = DOMAIN w.str
  <2>1. u.str[n] = [capacity |-> w.str[n].capacity, length |-> length, data |-> w.str[n].data]
    BY <1>1 DEF Shaped
  <2>2. u.str = [m \in DOMAIN u.str |-> u.str[m]] /\ DOMAIN u.str = DOMAIN w.str
    BY <1>1 DEF Shaped
  <2> QED
    BY <1>1, <2>1, <2>2 DEF Shaped
<1> QED
  BY <1>1, <1>2, <1>3, FillStrays

\* The digits after the point stay in the buffer when there is room for them,
\* and a capacity raised without the buffer is a write outside it.
LEMMA FloatToStringIs ==
  ASSUME NEW w, IsWorld(w), NEW to \in DOMAIN w.str, NEW hundredths \in Int, Toward0(hundredths, 100) \in Integers,
         NEW decimals \in Nat, Width <= Room
  PROVE  /\ Risky(w, float_to_string(w, to, hundredths, decimals))
         /\ decimals = 0 \/ NumeralLength(Toward0(hundredths, 100), 10) + 1 + decimals <= Room
              => ~float_to_string(w, to, hundredths, decimals).stray
<1> DEFINE whole == int_to_string(w, to, Toward0(hundredths, 100), 10)
<1> DEFINE n == Length(whole, to)
<1> DEFINE sized == IF n + decimals > whole.str[to].capacity
                    THEN [whole EXCEPT !.str[to].capacity = n + decimals + 1] ELSE whole
<1> DEFINE part == (IF hundredths < 0 THEN -hundredths ELSE hundredths) % 100
<1> DEFINE point == Put(sized, to, n, Dot)
<1> DEFINE decimal == [i \in 0 .. decimals - 1 |-> Digit0 + (((part * Power(10, i + 1)) \div 100) % 10)]
<1> DEFINE filled == Fill(point, to, n + 1, decimal)
<1> DEFINE v == float_to_string(w, to, hundredths, decimals)
<1> DEFINE length == NumeralLength(Toward0(hundredths, 100), 10)
<1>1. length \in Nat /\ length <= Width /\ Width \in Nat /\ Room \in Nat
  <2>1. 10 \in Nat \ {0, 1} /\ 10 # 2
    OBVIOUS
  <2>2. length \in Nat /\ length <= Width
    BY <2>1, NumeralFits
  <2> QED
    BY <2>2, WidthAssumption, CapacityAssumption, DoubledFacts DEF Room
<1>2. Makes(w, whole, to, length) /\ whole.str[to].capacity = Room
  <2>1. IsLoose(w) /\ 10 \in Nat \ {0, 1}
    BY DEF IsWorld
  <2>2. Numerates(w, whole, to, length)
    BY <2>1, IntToStringIs
  <2> HIDE DEF whole, length
  <2> QED
    BY <1>1, <2>2 DEF Numerates
<1>3. decimal \in [0 .. decimals - 1 -> Int]
  <2>1. part \in Int
    <3>1. \A x \in Int : x % 100 \in Int
      OBVIOUS
    <3> QED
      BY <3>1
  <2>2. \A k \in Nat : Power(10, k) \in Nat
    BY PowerFacts
  <2>3. \A x \in Int, y \in Nat : Digit0 + (((x * y) \div 100) % 10) \in Int
    <3>1. \A x \in Int, y \in Nat : x * y \in Int
      OBVIOUS
    <3>2. \A z \in Int : Digit0 + ((z \div 100) % 10) \in Int
      BY DEF Digit0
    <3> QED
      BY <3>1, <3>2
  <2> HIDE DEF part
  <2>4. ASSUME NEW i \in 0 .. decimals - 1
        PROVE Digit0 + (((part * Power(10, i + 1)) \div 100) % 10) \in Int
    <3>1. i + 1 \in Nat
      OBVIOUS
    <3> QED
      BY <2>1, <2>2, <2>3, <3>1
  <2> QED
    BY <2>4
<1>4. v = IF decimals <= 0 THEN whole ELSE End(filled, to, n + 1 + decimals)
  BY DEF float_to_string
<1> SUFFICES Risky(w, v) /\ (decimals = 0 \/ length + 1 + decimals <= Room => ~v.stray)
  OBVIOUS
<1> HIDE DEF v, whole, decimal, length
<1>5. n = length
  BY <1>2 DEF Makes, Length
<1>6. CASE decimals = 0
  <2>1. v = whole
    BY <1>4, <1>6
  <2> QED
    BY <1>2, <2>1, MakesSafe, SafeRisky
<1>7. CASE decimals # 0 /\ n + decimals > Room
  <2>1. sized = [whole EXCEPT !.str[to].capacity = n + decimals + 1] /\ ~(length + 1 + decimals <= Room)
    BY <1>1, <1>2, <1>5, <1>7
  <2>2. v = End(filled, to, n + 1 + decimals)
    BY <1>4, <1>7
  <2> HIDE DEF sized
  <2>3. Shaped(sized, to) /\ DOMAIN sized.str = DOMAIN w.str /\ DOMAIN sized.str[to].data = 0 .. Room
    <3>1. Shaped(whole, to) /\ DOMAIN whole.str = DOMAIN w.str /\ DOMAIN whole.str[to].data = 0 .. Room
      BY <1>2 DEF Makes, Only, IsLoose, IsBuffer, Shaped
    <3>2. sized.str = [whole.str EXCEPT ![to].capacity = n + decimals + 1] /\ sized.stray = whole.stray
             /\ sized = [str |-> sized.str, ret |-> sized.ret, stray |-> sized.stray]
      BY <2>1, <3>1 DEF Shaped
    <3> HIDE DEF n
    <3>3. sized.str[to] = [capacity |-> n + decimals + 1, length |-> whole.str[to].length, data |-> whole.str[to].data]
             /\ DOMAIN sized.str = DOMAIN whole.str /\ sized.str = [m \in DOMAIN sized.str |-> sized.str[m]]
      BY <3>1, <3>2 DEF Shaped
    <3> QED
      BY <3>1, <3>2, <3>3 DEF Shaped
  <2> HIDE DEF n
  <2>4. Shaped(point, to) /\ DOMAIN point.str = DOMAIN w.str /\ DOMAIN point.str[to].data = 0 .. Room
    BY <2>3, FillStrays DEF Put
  <2> HIDE DEF point
  <2>5. Shaped(filled, to) /\ DOMAIN filled.str = DOMAIN w.str
           /\ (filled.stray <=> point.stray \/ \E i \in DOMAIN decimal : (n + 1) + i \notin 0 .. Room)
    <3>1. Shaped(filled, to) /\ DOMAIN filled.str = DOMAIN point.str
      BY <2>4, FillStrays
    <3>2. filled.stray <=> point.stray \/ \E i \in DOMAIN decimal : (n + 1) + i \notin DOMAIN point.str[to].data
      BY <2>4, FillStrays, Zenon
    <3> QED
      BY <2>4, <3>1, <3>2
  <2>6. filled.stray
    <3>1. decimals - 1 \in 0 .. decimals - 1 /\ (n + 1) + (decimals - 1) \notin 0 .. Room
      BY <1>1, <1>5, <1>7
    <3>2. DOMAIN decimal = 0 .. decimals - 1
      BY <1>3
    <3> QED
      BY <2>5, <3>1, <3>2, Zenon
  <2> HIDE DEF filled
  <2>7. DOMAIN v.str = DOMAIN w.str /\ v.stray \in BOOLEAN /\ v.stray
    <3>1. Shaped(v, to) /\ DOMAIN v.str = DOMAIN filled.str /\ v.stray
      BY <2>2, <2>5, <2>6, EndStrays
    <3> QED
      BY <2>5, <3>1 DEF Shaped
  <2> QED
    BY <1>7, <2>1, <2>7 DEF Risky
<1>8. CASE decimals # 0 /\ ~(n + decimals > Room)
  <2>1. sized = whole
    BY <1>2, <1>8
  <2>2. v = End(filled, to, n + 1 + decimals)
    BY <1>4, <1>8
  <2> DEFINE dot == [k \in {0} |-> Dot]
  <2>3. n \in Int /\ n \in Nat /\ n + 1 \in Int /\ Dot \in Int /\ n + 1 + decimals \in Nat /\ n + 1 + decimals \in Int
    BY <1>1, <1>5 DEF Dot
  <2>4. Has(whole, to)
    BY <1>2, OnlyHas DEF Makes
  <2> HIDE DEF n, sized
  <2>5. Fills(whole, point, to, n, dot, 1)
    BY <2>1, <2>3, <2>4, PutIs
  <2> HIDE DEF point, dot
  <2>6. Has(point, to) /\ point.str[to].capacity = Room
    BY <1>2, <2>4, <2>5, OnlyHas DEF Fills, Has
  <2>7. Fills(point, filled, to, n + 1, decimal, decimals) /\ decimals \in Int
    <3>1. decimals \in Int
      OBVIOUS
    <3>2. \A at \in Int, chars \in [0 .. decimals - 1 -> Int] :
             Fills(point, Fill(point, to, at, chars), to, at, chars, decimals)
      BY <2>6, <3>1, FillIs
    <3> QED
      BY <1>3, <2>3, <3>1, <3>2
  <2> HIDE DEF filled
  <2>8. Within(whole.str[to], n, 1) /\ Within(point.str[to], n + 1, decimals)
    BY <1>1, <1>2, <1>8, <2>3, <2>6 DEF Within
  <2>9. Only(w, filled, to) /\ filled.str[to].capacity = Room /\ Has(filled, to)
    <3>1. Only(w, filled, to)
      BY <1>2, <2>5, <2>7, OnlyTwice DEF Makes, Fills
    <3> QED
      BY <2>6, <2>7, <3>1, OnlyHas DEF Fills
  <2>10. filled.stray <=> w.stray
    BY <1>2, <2>5, <2>7, <2>8, Zenon DEF Makes, Fills
  <2>11. CASE n + 1 + decimals <= Room
    <3>1. n + 1 + decimals \in 0 .. filled.str[to].capacity
      BY <1>1, <2>3, <2>9, <2>11
    <3>2. Makes(filled, v, to, n + 1 + decimals)
      BY <2>2, <2>9, <3>1, Ended
    <3>3. Makes(w, v, to, n + 1 + decimals)
      BY <2>9, <2>10, <3>2, MakesTwice
    <3> QED
      BY <3>3, MakesSafe, SafeRisky
  <2>12. CASE ~(n + 1 + decimals <= Room)
    <3>1. Ends(filled, v, to, n + 1 + decimals) /\ n + 1 + decimals \notin 0 .. filled.str[to].capacity
      BY <1>1, <2>2, <2>3, <2>9, <2>12, EndIs
    <3>2. v.stray
      BY <3>1, Zenon DEF Ends
    <3>3. DOMAIN v.str = DOMAIN w.str /\ v.stray \in BOOLEAN
      BY <2>9, <3>1 DEF Ends, Only, IsLoose
    <3> QED
      BY <1>5, <1>8, <2>12, <3>2, <3>3 DEF Risky
  <2> QED
    BY <2>11, <2>12
<1> QED
  BY <1>6, <1>7, <1>8

-----------------------------------------------------------------------------
(* The calls of a program.                                                 *)

\* As long as no byte outside the buffers was touched every variable has no
\* string, or one whose characters and terminator lie in its buffer.
LibraryInvariant ==
    /\ stray \in BOOLEAN
    /\ ~stray => /\ str = [n \in Names |-> str[n]]
                 /\ \A n \in Names : str[n] = NoString \/ IsString(str[n])

Sound == LibraryInvariant /\ ~stray

Fine(c) == Risky(World, Run(World, c)) /\ (~Overruns(c) => ~Run(World, c).stray)

\* The functions find the strings of the program, and none of their own.
LEMMA WorldIs ==
  ASSUME Sound
  PROVE  /\ IsWorld(World) /\ DOMAIN World.str = Names \union {Temp, Page}
         /\ World.str[Temp] = NoString /\ World.str[Page] = NoString
         /\ Temp \notin Names /\ Page \notin Names
         /\ \A n \in Names : World.str[n] = str[n]
         /\ \A n \in Strings : n \in Names /\ n \in DOMAIN World.str /\ World.str[n] # NoString
<1> DEFINE all == Names \union {Temp, Page}
<1> DEFINE strings == [n \in all |-> IF n \in Names THEN str[n] ELSE NoString]
<1>1. World = [str |-> strings, ret |-> Nothing, stray |-> FALSE]
  BY DEF World
<1>2. Temp \notin Names /\ Page \notin Names
  BY LibraryAssumption
<1>3. Temp \in all /\ Page \in all /\ \A n \in Names : n \in all
  OBVIOUS
<1>4. strings[Temp] = NoString /\ strings[Page] = NoString /\ \A n \in Names : strings[n] = str[n]
  BY <1>2, <1>3
<1>5. DOMAIN strings = all /\ strings = [n \in DOMAIN strings |-> strings[n]]
  OBVIOUS
<1>6. \A n \in all : strings[n] = NoString \/ IsString(strings[n])
  BY <1>4 DEF Sound, LibraryInvariant
<1> HIDE DEF strings, all
<1>7. World.str = strings /\ World.stray = FALSE /\ World = [str |-> World.str, ret |-> World.ret, stray |-> World.stray]
  BY <1>1
<1> HIDE DEF World
<1>8. IsWorld(World)
  BY <1>5, <1>6, <1>7 DEF IsWorld, IsLoose, IsString
<1>9. \A n \in Strings : n \in Names /\ str[n] # NoString
  BY DEF Strings, Held
<1>10. DOMAIN World.str = Names \union {Temp, Page}
  BY <1>5, <1>7 DEF all
<1> QED
  BY <1>2, <1>4, <1>7, <1>8, <1>9, <1>10

LEMMA SafeFine ==
  ASSUME NEW c, Safe(World, Run(World, c))
  PROVE  Fine(c)
BY SafeRisky DEF Fine

LEMMA MakesFine ==
  ASSUME Sound, NEW c, NEW n \in Names, NEW length, Makes(World, Run(World, c), n, length)
  PROVE  Fine(c)
<1>1. IsWorld(World) /\ n \in DOMAIN World.str
  BY WorldIs
<1> QED
  BY <1>1, MakesSafe, SafeFine

\* A string that may have been touched outside its buffer.
LEMMA SliceFine ==
  ASSUME Sound, NEW c, NEW n \in Names, NEW from, NEW end, SliceMakes(World, Run(World, c), n, from, end),
         ~Overruns(c) => end <= World.str[from].length
  PROVE  Fine(c)
<1> DEFINE v == Run(World, c)
<1>1. IsWorld(World)
  BY WorldIs
<1>2. IsLoose(v) /\ DOMAIN v.str = DOMAIN World.str /\ IsString(v.str[n])
         /\ \A m \in DOMAIN World.str : m # n => v.str[m] = World.str[m]
  BY DEF SliceMakes, Only
<1> HIDE DEF v
<1>3. ~v.stray => IsWorld(v)
  BY <1>1, <1>2 DEF IsWorld
<1>4. Risky(World, v)
  BY <1>2, <1>3 DEF Risky, IsLoose
<1>5. end <= World.str[from].length => (v.stray <=> World.stray)
  BY DEF SliceMakes, v
<1>6. ~World.stray
  BY <1>1 DEF IsWorld
<1> QED
  BY <1>4, <1>5, <1>6 DEF Fine, v

\* The characters of the constants are numbers.
LEMMA CharsAre == Chars \subseteq Int /\ \A s \in Literals \union Lines : s \in Seq(Int)
<1>1. ASSUME NEW s \in Literals PROVE ToSet(s) \subseteq Int
  <2>1. s \in Seq(Int)
    BY LibraryAssumption
  <2>2. \A i \in DOMAIN s : s[i] \in Int
    BY <2>1
  <2> QED
    BY <2>2 DEF ToSet
<1>2. Chars \subseteq Int
  BY <1>1 DEF Chars
<1> QED
  BY <1>2, LibraryAssumption

\* Strings are made and deleted.
LEMMA MakingCalls ==
  ASSUME Sound, NEW c,
         \/ c \in [op : {"delete_string", "reverse_string"}, to : Strings]
         \/ c \in [op : {"new_string"}, to : Names, capacity : Capacities]
         \/ c \in [op : {"copy_string_buffer", "buffer_to_string"}, to : Names, buffer : Literals]
  PROVE  Fine(c)
<1>1. IsWorld(World) /\ IsLoose(World) /\ \A n \in Names : n \in DOMAIN World.str
  BY WorldIs DEF IsWorld
<1>2. CASE c \in [op : {"delete_string", "reverse_string"}, to : Strings]
  <2>1. c.to \in Names /\ c.to \in DOMAIN World.str /\ World.str[c.to] # NoString
    BY <1>2, WorldIs
  <2>2. CASE c.op = "delete_string"
    <3>1. Run(World, c) = delete_string(World, c.to)
      BY <2>2 DEF Run
    <3>2. Deletes(World, Run(World, c), c.to)
      BY <1>1, <2>1, <3>1, DeleteIs
    <3>3. Safe(World, Run(World, c))
      BY <1>1, <3>2 DEF Deletes, IsWorld, Safe
    <3> QED
      BY <3>3, SafeFine
  <2>3. CASE c.op = "reverse_string"
    <3>1. Run(World, c) = reverse_string(World, c.to)
      BY <2>3 DEF Run
    <3>2. Makes(World, Run(World, c), c.to, World.str[c.to].length)
      BY <1>1, <2>1, <3>1, WorldHas, ReverseIs
    <3> QED
      BY <2>1, <3>2, MakesFine
  <2> QED
    BY <1>2, <2>2, <2>3
<1>3. CASE c \in [op : {"new_string"}, to : Names, capacity : Capacities]
  <2>1. c.op = "new_string" /\ c.to \in Names /\ c.capacity \in Nat
    BY <1>3, LibraryAssumption
  <2>2. Run(World, c) = new_string(World, c.to, c.capacity)
    BY <2>1 DEF Run
  <2>3. NewString(World, Run(World, c), c.to, c.capacity)
    BY <1>1, <2>1, <2>2, NewStringIs
  <2>4. Makes(World, Run(World, c), c.to, 0)
    <3>1. IsString(Run(World, c).str[c.to])
      BY <2>3 DEF NewString, IsString, Only, IsBuffer
    <3> QED
      BY <2>3, <3>1 DEF NewString, Makes
  <2> QED
    BY <2>1, <2>4, MakesFine
<1>4. CASE c \in [op : {"copy_string_buffer", "buffer_to_string"}, to : Names, buffer : Literals]
  <2>1. c.to \in Names /\ c.to \in DOMAIN World.str /\ c.buffer \in Seq(Int)
    BY <1>1, <1>4, LibraryAssumption
  <2>2. Run(World, c) = copy_string_buffer(World, c.to, c.buffer) \/ Run(World, c) = buffer_to_string(World, c.to, c.buffer)
    <3>1. CASE c.op = "copy_string_buffer"
      BY <3>1 DEF Run
    <3>2. CASE c.op = "buffer_to_string"
      BY <3>2 DEF Run
    <3> QED
      BY <1>4, <3>1, <3>2
  <2>3. Makes(World, Run(World, c), c.to, Len(c.buffer))
    BY <1>1, <2>1, <2>2, CopyBufferIs
  <2> QED
    BY <2>1, <2>3, MakesFine
<1> QED
  BY <1>2, <1>3, <1>4

\* The strings of a call are buffers of their own.
LEMMA StringsAre ==
  ASSUME Sound, NEW n \in Strings
  PROVE  /\ n \in Names /\ n \in DOMAIN World.str /\ World.str[n] # NoString /\ World.str[n] = str[n]
         /\ Has(World, n) /\ IsString(World.str[n]) /\ Fit(World.str[n])
         /\ n # Temp /\ n # Page
<1>1. n \in Names /\ n \in DOMAIN World.str /\ World.str[n] # NoString /\ World.str[n] = str[n] /\ IsWorld(World)
         /\ n # Temp /\ n # Page
  BY WorldIs
<1> QED
  BY <1>1, WorldHas

\* One string is copied or appended to another.
LEMMA CopyingCalls ==
  ASSUME Sound, NEW c,
         \/ c \in Pairs("assign_string") \/ c \in Pairs("append_string")
         \/ c \in Pairs("copy_string") /\ c.to # c.from
         \/ c \in Buffers("assign_string_from_buffer") \/ c \in Buffers("append_string_buffer")
         \/ c \in Spans("copy_string_slice") \/ c \in Spans("append_string_slice")
  PROVE  Fine(c)
<1>1. IsWorld(World) /\ IsLoose(World)
  BY WorldIs DEF IsWorld
<1>2. CASE c \in Pairs("assign_string") \/ c \in Pairs("append_string") \/ (c \in Pairs("copy_string") /\ c.to # c.from)
  <2>1. c.to \in Strings /\ c.from \in Strings
    BY <1>2 DEF Pairs
  <2>2. /\ c.to \in Names /\ c.to \in DOMAIN World.str /\ Has(World, c.to) /\ Fit(World.str[c.to])
        /\ Has(World, c.from) /\ Fit(World.str[c.from])
    BY <2>1, StringsAre
  <2>3. CASE c \in Pairs("assign_string")
    <3>1. Run(World, c) = assign_string(World, c.to, c.from)
      BY <2>3 DEF Pairs, Run
    <3>2. Makes(World, Run(World, c), c.to, World.str[c.from].length)
      BY <2>2, <3>1, AssignIs
    <3> QED
      BY <2>2, <3>2, MakesFine
  <2>4. CASE c \in Pairs("append_string")
    <3>1. Run(World, c) = append_string(World, c.to, c.from)
      BY <2>4 DEF Pairs, Run
    <3>2. Makes(World, Run(World, c), c.to, World.str[c.to].length + World.str[c.from].length)
      BY <2>2, <3>1, AppendIs
    <3> QED
      BY <2>2, <3>2, MakesFine
  <2>5. CASE c \in Pairs("copy_string") /\ c.to # c.from
    <3>1. Run(World, c) = copy_string(World, c.to, c.from)
      BY <2>5 DEF Pairs, Run
    <3>2. Makes(World, Run(World, c), c.to, World.str[c.from].length)
      BY <2>2, <2>5, <3>1, CopyStringIs
    <3> QED
      BY <2>2, <3>2, MakesFine
  <2> QED
    BY <1>2, <2>3, <2>4, <2>5
<1>3. CASE c \in Buffers("assign_string_from_buffer") \/ c \in Buffers("append_string_buffer")
  <2>1. c.to \in Strings /\ c.buffer \in Seq(Int)
    BY <1>3, CharsAre DEF Buffers
  <2>2. c.to \in Names /\ Has(World, c.to) /\ Fit(World.str[c.to])
    BY <2>1, StringsAre
  <2>3. CASE c \in Buffers("assign_string_from_buffer")
    <3>1. Run(World, c) = assign_string_from_buffer(World, c.to, c.buffer)
      BY <2>3 DEF Buffers, Run
    <3>2. Makes(World, Run(World, c), c.to, Len(c.buffer))
      BY <2>1, <2>2, <3>1, AssignFromBufferIs
    <3> QED
      BY <2>2, <3>2, MakesFine
  <2>4. CASE c \in Buffers("append_string_buffer")
    <3>1. Run(World, c) = append_string_buffer(World, c.to, c.buffer)
      BY <2>4 DEF Buffers, Run
    <3>2. Makes(World, Run(World, c), c.to, World.str[c.to].length + Len(c.buffer))
      BY <2>1, <2>2, <3>1, AppendBufferIs
    <3> QED
      BY <2>2, <3>2, MakesFine
  <2> QED
    BY <1>3, <2>3, <2>4
<1>4. CASE c \in Spans("copy_string_slice") \/ c \in Spans("append_string_slice")
  <2>1. c.to \in Strings /\ c.from \in Strings /\ c.start \in Nat /\ c.end \in Nat /\ c.to # c.from
           /\ c.op \in {"copy_string_slice", "append_string_slice"}
    BY <1>4, LibraryAssumption DEF Spans, Indexes
  <2>2. /\ c.to \in Names /\ c.to \in DOMAIN World.str /\ Has(World, c.to) /\ IsString(World.str[c.to])
        /\ Has(World, c.from) /\ Fit(World.str[c.from]) /\ World.str[c.from] = str[c.from]
    BY <2>1, StringsAre
  <2>3. ~Overruns(c) => c.end <= World.str[c.from].length
    <3>1. ~Overruns(c) => ~(c.end > str[c.from].length)
      BY <2>1 DEF Overruns, SliceOutside
    <3>2. World.str[c.from].length \in Int
      BY <2>2 DEF Fit, IsBuffer
    <3> QED
      BY <2>1, <2>2, <3>1, <3>2
  <2>4. CASE c \in Spans("copy_string_slice")
    <3>1. Run(World, c) = copy_string_slice(World, c.to, c.from, c.start, c.end)
      BY <2>4 DEF Spans, Run
    <3>2. Slices(World, Run(World, c), c.to, c.from, c.start, c.end)
      BY <2>1, <2>2, <3>1, CopySliceIs
    <3>3. SliceMakes(World, Run(World, c), c.to, c.from, c.end)
      BY <3>2 DEF Slices
    <3> QED
      BY <2>2, <2>3, <3>3, SliceFine
  <2>5. CASE c \in Spans("append_string_slice")
    <3>1. Run(World, c) = append_string_slice(World, c.to, c.from, c.start, c.end)
      BY <2>5 DEF Spans, Run
    <3>2. SliceMakes(World, Run(World, c), c.to, c.from, c.end)
      BY <2>1, <2>2, <3>1, AppendSliceIs
    <3> QED
      BY <2>2, <2>3, <3>2, SliceFine
  <2> QED
    BY <1>4, <2>4, <2>5
<1> QED
  BY <1>2, <1>3, <1>4

\* One character is pushed or popped, or a string inserted.
LEMMA ChangingCalls ==
  ASSUME Sound, NEW c,
         \/ c \in [op : {"push_string_char"}, to : Strings, char : Chars, index : -1 .. MaxIndex]
         \/ c \in [op : {"pop_string_char"}, to : Strings, index : -1 .. MaxIndex]
         \/ c \in [op : {"insert_string"}, to : Strings, from : Strings, index : Indexes, remove : BOOLEAN]
  PROVE  Fine(c)
<1>1. IsWorld(World)
  BY WorldIs
<1>2. CASE c \in [op : {"push_string_char"}, to : Strings, char : Chars, index : -1 .. MaxIndex]
  <2>1. c.op = "push_string_char" /\ c.to \in Strings /\ c.char \in Int /\ c.index \in Int
    <3>1. Chars \subseteq Int /\ -1 .. MaxIndex \subseteq Int
      BY CharsAre, LibraryAssumption
    <3> QED
      BY <1>2, <3>1
  <2>2. c.to \in Names /\ Has(World, c.to) /\ IsString(World.str[c.to])
    BY <2>1, StringsAre
  <2>3. Run(World, c) = push_string_char(World, c.to, c.char, c.index)
    BY <2>1 DEF Run
  <2>4. \E length : Makes(World, Run(World, c), c.to, length)
    BY <2>1, <2>2, <2>3, PushIs
  <2> QED
    BY <2>2, <2>4, MakesFine
<1>3. CASE c \in [op : {"pop_string_char"}, to : Strings, index : -1 .. MaxIndex]
  <2>1. c.op = "pop_string_char" /\ c.to \in Strings /\ c.index \in Int
    BY <1>3, LibraryAssumption
  <2>2. c.to \in DOMAIN World.str /\ World.str[c.to] # NoString
    BY <2>1, StringsAre
  <2>3. Run(World, c) = pop_string_char(World, c.to, c.index)
    BY <2>1 DEF Run
  <2>4. Safe(World, Run(World, c))
    BY <1>1, <2>1, <2>2, <2>3, PopIs
  <2> QED
    BY <2>4, SafeFine
<1>4. CASE c \in [op : {"insert_string"}, to : Strings, from : Strings, index : Indexes, remove : BOOLEAN]
  <2>1. c.op = "insert_string" /\ c.to \in Strings /\ c.from \in Strings /\ c.index \in Nat /\ c.remove \in BOOLEAN
    BY <1>4, LibraryAssumption DEF Indexes
  <2>2. /\ c.to \in Names /\ Has(World, c.to) /\ IsString(World.str[c.to]) /\ c.to # Temp
        /\ Has(World, c.from) /\ Fit(World.str[c.from]) /\ c.from # Temp
    BY <2>1, StringsAre
  <2>3. Temp \in DOMAIN World.str /\ World.str[Temp] = NoString
    BY WorldIs
  <2>4. Run(World, c) = insert_string(World, c.to, c.from, c.index, c.remove)
    BY <2>1 DEF Run
  <2>5. \E length : Makes(World, Run(World, c), c.to, length)
    BY <2>1, <2>2, <2>3, <2>4, InsertIs
  <2> QED
    BY <2>2, <2>5, MakesFine
<1> QED
  BY <1>2, <1>3, <1>4

\* Strings are put into formats.
LEMMA FormatCalls ==
  ASSUME Sound, NEW c,
         \/ /\ c \in [op : {"format_string"}, to : Strings, from : Strings,
                      args : {<<>>} \union {<<n>> : n \in Strings} \union {<<n, n>> : n \in Strings}]
            /\ c.to # c.from /\ c.to \notin ToSet(c.args)
         \/ c \in [op : {"print_format"}, from : Strings,
                   args : {<<n>> : n \in Strings} \union (Strings \X Strings)]
  PROVE  Fine(c)
<1>0. <<>> \in Seq(Strings) /\ \A n, m \in Strings : <<n>> \in Seq(Strings) /\ <<n, m>> \in Seq(Strings)
  <2>1. ASSUME NEW S PROVE <<>> \in Seq(S) /\ \A n, m \in S : <<n>> \in Seq(S) /\ <<n, m>> \in Seq(S)
    OBVIOUS
  <2> QED
    BY <2>1
<1>1. /\ IsWorld(World) /\ {Temp, Page} \subseteq DOMAIN World.str
      /\ World.str[Temp] = NoString /\ World.str[Page] = NoString
  BY WorldIs
<1>2. CASE /\ c \in [op : {"format_string"}, to : Strings, from : Strings,
                     args : {<<>>} \union {<<n>> : n \in Strings} \union {<<n, n>> : n \in Strings}]
           /\ c.to # c.from /\ c.to \notin ToSet(c.args)
  <2>1. c.op = "format_string" /\ c.to \in Strings /\ c.from \in Strings
           /\ c.args \in {<<>>} \union {<<n>> : n \in Strings} \union {<<n, n>> : n \in Strings}
    BY <1>2
  <2>2. c.args \in Seq(Strings)
    BY <1>0, <2>1
  <2>3. Len(c.args) \in Nat /\ \A k \in 1 .. Len(c.args) : c.args[k] \in Strings /\ c.args[k] # c.to
    <3>1. \A k \in DOMAIN c.args : c.args[k] # c.to
      BY <1>2 DEF ToSet
    <3> QED
      BY <2>2, <3>1
  <2>4. \A k \in 1 .. Len(c.args) : Argument(World, c.to, c.args[k])
    BY <2>3, StringsAre DEF Argument
  <2>5. c.to \in Names /\ Has(World, c.to) /\ c.to # Temp /\ Has(World, c.from) /\ Fit(World.str[c.from])
    BY <2>1, StringsAre
  <2>6. Run(World, c) = format_string(World, c.to, c.from, c.args)
    BY <2>1 DEF Run
  <2>7. \E length : Makes(World, Run(World, c), c.to, length)
    BY <1>1, <2>3, <2>4, <2>5, <2>6, FormatIs
  <2> QED
    BY <2>5, <2>7, MakesFine
<1>3. CASE c \in [op : {"print_format"}, from : Strings,
                  args : {<<n>> : n \in Strings} \union (Strings \X Strings)]
  <2>1. c.op = "print_format" /\ c.from \in Strings
           /\ c.args \in {<<n>> : n \in Strings} \union (Strings \X Strings)
    BY <1>3
  <2>2. c.args \in Seq(Strings)
    <3>1. CASE c.args \in {<<n>> : n \in Strings}
      BY <1>0, <3>1
    <3>2. CASE c.args \in Strings \X Strings
      <4>1. ASSUME NEW S, NEW x \in S \X S PROVE x = <<x[1], x[2]>> /\ x[1] \in S /\ x[2] \in S
        OBVIOUS
      <4>2. c.args = <<c.args[1], c.args[2]>> /\ c.args[1] \in Strings /\ c.args[2] \in Strings
        BY <3>2, <4>1
      <4> QED
        BY <1>0, <4>2
    <3> QED
      BY <2>1, <3>1, <3>2
  <2>3. Len(c.args) \in Nat /\ \A k \in 1 .. Len(c.args) : c.args[k] \in Strings
    BY <2>2
  <2>4. \A k \in 1 .. Len(c.args) : c.args[k] \in DOMAIN World.str /\ World.str[c.args[k]] # NoString
    BY <2>3, StringsAre
  <2>5. c.from \in DOMAIN World.str /\ World.str[c.from] # NoString
    BY <2>1, StringsAre
  <2>6. Run(World, c) = print_format(World, c.from, c.args)
    BY <2>1 DEF Run
  <2>7. Safe(World, Run(World, c))
    BY <1>1, <2>3, <2>4, <2>5, <2>6, PrintIs
  <2> QED
    BY <2>7, SafeFine
<1> QED
  BY <1>2, <1>3

\* Strings are compared and searched.
LEMMA SearchingCalls ==
  ASSUME Sound, NEW c,
         \/ c \in Pairs("compare_string")
         \/ c \in [op : {"find_string_char", "count_string_char"}, to : Strings, char : Chars, start : Indexes]
         \/ c \in [op : {"find_last_string_char"}, to : Strings, char : Chars, index : -1 .. MaxIndex]
         \/ c \in [op : {"find_substring"}, to : Strings, from : Strings, start : Indexes]
  PROVE  Fine(c)
<1>1. IsWorld(World)
  BY WorldIs
<1>2. CASE c \in Pairs("compare_string")
  <2>1. c.op = "compare_string" /\ c.to \in Strings /\ c.from \in Strings
    BY <1>2 DEF Pairs
  <2>2. /\ c.to \in DOMAIN World.str /\ World.str[c.to] # NoString
        /\ c.from \in DOMAIN World.str /\ World.str[c.from] # NoString
    BY <2>1, StringsAre
  <2>3. Run(World, c) = compare_string(World, c.to, c.from)
    BY <2>1 DEF Run
  <2> QED
    BY <1>1, <2>2, <2>3, CompareIs, SafeFine
<1>3. CASE c \in [op : {"find_string_char", "count_string_char"}, to : Strings, char : Chars, start : Indexes]
  <2>1. CASE c.op = "find_string_char"
    <3>1. Run(World, c) = find_string_char(World, c.to, c.char, c.start)
      BY <2>1 DEF Run
    <3> QED
      BY <1>1, <3>1, FindsAre, SafeFine
  <2>2. CASE c.op = "count_string_char"
    <3>1. Run(World, c) = count_string_char(World, c.to, c.char, c.start)
      BY <2>2 DEF Run
    <3> QED
      BY <1>1, <3>1, FindsAre, SafeFine
  <2> QED
    BY <1>3, <2>1, <2>2
<1>4. CASE c \in [op : {"find_last_string_char"}, to : Strings, char : Chars, index : -1 .. MaxIndex]
  <2>1. c.op = "find_last_string_char"
    BY <1>4
  <2>2. Run(World, c) = find_last_string_char(World, c.to, c.char, c.index)
    BY <2>1 DEF Run
  <2> QED
    BY <1>1, <2>2, FindsAre, SafeFine
<1>5. CASE c \in [op : {"find_substring"}, to : Strings, from : Strings, start : Indexes]
  <2>1. c.op = "find_substring" /\ c.to \in Strings /\ c.start \in Nat
    BY <1>5, LibraryAssumption DEF Indexes
  <2>2. c.to \in DOMAIN World.str /\ World.str[c.to] # NoString
    BY <2>1, StringsAre
  <2>3. Run(World, c) = find_substring(World, c.to, c.from, c.start)
    BY <2>1 DEF Run
  <2>4. Risky(World, Run(World, c)) /\ (c.start = 0 => ~Run(World, c).stray)
    BY <1>1, <2>1, <2>2, <2>3, SubstringIs
  <2>5. ~Overruns(c) => c.start = 0
    BY <2>1 DEF Overruns
  <2> QED
    BY <2>4, <2>5 DEF Fine
<1> QED
  BY <1>2, <1>3, <1>4, <1>5

\* Numbers are written and read.
LEMMA NumberCalls ==
  ASSUME Sound, NEW c,
         \/ c \in [op : {"int_to_string"}, to : Names, number : Numbers, base : Bases]
         \/ c \in [op : {"float_to_string"}, to : Names, number : Hundredths, decimals : Decimals]
         \/ c \in [op : {"string_to_int"}, to : Strings]
  PROVE  Fine(c)
<1>1. IsWorld(World) /\ IsLoose(World) /\ (\A n \in Names : n \in DOMAIN World.str) /\ World.stray \in BOOLEAN
  BY WorldIs DEF IsWorld, IsLoose
<1>2. Width \in Nat /\ Room \in Nat /\ Width <= Room
  BY WidthAssumption, LibraryAssumption, CapacityAssumption, DoubledFacts DEF Room
<1>3. CASE c \in [op : {"int_to_string"}, to : Names, number : Numbers, base : Bases]
  <2> DEFINE length == NumeralLength(c.number, c.base)
  <2>1. c.op = "int_to_string" /\ c.to \in Names /\ c.number \in Integers /\ c.base \in Nat \ {0, 1}
    BY <1>3, LibraryAssumption
  <2>2. Run(World, c) = int_to_string(World, c.to, c.number, c.base)
    BY <2>1 DEF Run
  <2>3. Numerates(World, Run(World, c), c.to, length)
    BY <1>1, <1>2, <2>1, <2>2, IntToStringIs
  <2>4. length \in Nat /\ (~(c.base = 2 /\ c.number = -Half) => length <= Width)
    BY <2>1, NumeralFits
  <2>5. ~Overruns(c) => length <= Width
    BY <2>1, <2>4 DEF Overruns, DigitsOutgrow
  <2> HIDE DEF length
  <2>6. CASE length <= Room
    <3>1. Makes(World, Run(World, c), c.to, length)
      BY <2>3, <2>6 DEF Numerates
    <3> QED
      BY <2>1, <3>1, MakesFine
  <2>7. CASE length > Room
    <3>1. Run(World, c).stray /\ DOMAIN Run(World, c).str = DOMAIN World.str /\ Run(World, c).stray \in BOOLEAN
      BY <2>3, <2>7 DEF Numerates, Only, IsLoose
    <3>2. Overruns(c)
      BY <1>2, <2>4, <2>5, <2>7
    <3> QED
      BY <3>1, <3>2 DEF Fine, Risky
  <2> QED
    BY <1>2, <2>4, <2>6, <2>7
<1>4. CASE c \in [op : {"float_to_string"}, to : Names, number : Hundredths, decimals : Decimals]
  <2> DEFINE length == NumeralLength(Toward0(c.number, 100), 10)
  <2>1. c.op = "float_to_string" /\ c.to \in Names /\ c.number \in Int /\ Toward0(c.number, 100) \in Integers
           /\ c.decimals \in Nat
    BY <1>4, LibraryAssumption
  <2>2. Run(World, c) = float_to_string(World, c.to, c.number, c.decimals)
    BY <2>1 DEF Run
  <2>3. Risky(World, Run(World, c)) /\ (c.decimals = 0 \/ length + 1 + c.decimals <= Room => ~Run(World, c).stray)
    BY <1>1, <1>2, <2>1, <2>2, FloatToStringIs
  <2>4. length \in Nat
    <3>1. 10 \in Nat \ {0, 1}
      OBVIOUS
    <3> QED
      BY <2>1, <3>1, NumeralFits
  <2>5. length = NumberLength(Toward0(c.number, 100))
    BY DEF NumberLength, NumeralLength
  <2> HIDE DEF length
  <2>6. ~Overruns(c) => ~(c.decimals > 0 /\ length + 1 + c.decimals > Room)
    BY <2>1, <2>5 DEF Overruns, DigitsOutgrow, Room
  <2>7. ~Overruns(c) => c.decimals = 0 \/ length + 1 + c.decimals <= Room
    BY <1>2, <2>1, <2>4, <2>6
  <2> QED
    BY <2>3, <2>7 DEF Fine
<1>5. CASE c \in [op : {"string_to_int"}, to : Strings]
  <2>1. c.op = "string_to_int" /\ c.to \in Strings
    BY <1>5
  <2>2. c.to \in DOMAIN World.str /\ World.str[c.to] # NoString /\ World.str[c.to] = str[c.to]
    BY <2>1, StringsAre
  <2>3. Run(World, c) = string_to_int(World, c.to)
    BY <2>1 DEF Run
  <2>4. Risky(World, Run(World, c)) /\ (str[c.to].data[str[c.to].length] = Nul => ~Run(World, c).stray)
    BY <1>1, <2>2, <2>3, StringToIntIs
  <2>5. ~Overruns(c) => str[c.to].data[str[c.to].length] = Nul
    BY <2>1 DEF Overruns, NothingWritten
  <2> QED
    BY <2>4, <2>5 DEF Fine
<1> QED
  BY <1>3, <1>4, <1>5

\* A line is read from the user, or nothing is.
LEMMA InputCalls ==
  ASSUME Sound, NEW c,
         \/ c \in [op : {"input"}, to : Names, line : Lines, failed : {FALSE}, strip : BOOLEAN]
         \/ c \in [op : {"input"}, to : Names, line : {<<>>}, failed : {TRUE}, strip : {TRUE}]
  PROVE  Fine(c)
<1>1. IsWorld(World) /\ \A n \in Names : n \in DOMAIN World.str
  BY WorldIs
<1>2. c.op = "input" /\ c.to \in Names /\ c.failed \in BOOLEAN /\ c.strip \in BOOLEAN
  OBVIOUS
<1>3. c.line \in Seq(Int) /\ Len(c.line) <= STRING_CAPACITY /\ STRING_CAPACITY \in Nat
  <2>1. <<>> \in Seq(Int) /\ Len(<<>>) = 0 /\ STRING_CAPACITY \in Nat
    BY CapacityAssumption
  <2>2. \A s \in Lines : s \in Seq(Int) /\ Len(s) <= STRING_CAPACITY
    BY LibraryAssumption
  <2>3. CASE c.line \in Lines
    BY <2>1, <2>2, <2>3
  <2>4. CASE c.line = <<>>
    <3>1. Len(c.line) = 0 /\ c.line \in Seq(Int)
      BY <2>1, <2>4, Zenon
    <3> QED
      BY <2>1, <3>1
  <2> QED
    BY <2>3, <2>4
<1>4. Run(World, c) = input(World, c.to, STRING_CAPACITY, c.line, c.failed, c.strip)
  BY <1>2 DEF Run
<1>5. Safe(World, Run(World, c))
  BY <1>1, <1>2, <1>3, <1>4, InputIs
<1> QED
  BY <1>5, SafeFine

\* Whatever a program calls, a byte outside the buffers is touched, or its
\* strings are in order; and only the calls named in Overruns touch one.
LEMMA CallsAreFine ==
  ASSUME Sound, NEW c \in Calls
  PROVE  Fine(c)
<1>1. CASE \/ c \in [op : {"delete_string", "reverse_string"}, to : Strings]
           \/ c \in [op : {"new_string"}, to : Names, capacity : Capacities]
           \/ c \in [op : {"copy_string_buffer", "buffer_to_string"}, to : Names, buffer : Literals]
  BY <1>1, MakingCalls
<1>2. CASE \/ c \in Pairs("assign_string") \/ c \in Pairs("append_string")
           \/ c \in Pairs("copy_string") /\ c.to # c.from
           \/ c \in Buffers("assign_string_from_buffer") \/ c \in Buffers("append_string_buffer")
           \/ c \in Spans("copy_string_slice") \/ c \in Spans("append_string_slice")
  BY <1>2, CopyingCalls
<1>3. CASE \/ c \in [op : {"push_string_char"}, to : Strings, char : Chars, index : -1 .. MaxIndex]
           \/ c \in [op : {"pop_string_char"}, to : Strings, index : -1 .. MaxIndex]
           \/ c \in [op : {"insert_string"}, to : Strings, from : Strings, index : Indexes, remove : BOOLEAN]
  BY <1>3, ChangingCalls
<1>4. CASE \/ /\ c \in [op : {"format_string"}, to : Strings, from : Strings,
                        args : {<<>>} \union {<<n>> : n \in Strings} \union {<<n, n>> : n \in Strings}]
              /\ c.to # c.from /\ c.to \notin ToSet(c.args)
           \/ c \in [op : {"print_format"}, from : Strings,
                     args : {<<n>> : n \in Strings} \union (Strings \X Strings)]
  BY <1>4, FormatCalls
<1>5. CASE \/ c \in Pairs("compare_string")
           \/ c \in [op : {"find_string_char", "count_string_char"}, to : Strings, char : Chars, start : Indexes]
           \/ c \in [op : {"find_last_string_char"}, to : Strings, char : Chars, index : -1 .. MaxIndex]
           \/ c \in [op : {"find_substring"}, to : Strings, from : Strings, start : Indexes]
  BY <1>5, SearchingCalls
<1>6. CASE \/ c \in [op : {"int_to_string"}, to : Names, number : Numbers, base : Bases]
           \/ c \in [op : {"float_to_string"}, to : Names, number : Hundredths, decimals : Decimals]
           \/ c \in [op : {"string_to_int"}, to : Strings]
  BY <1>6, NumberCalls
<1>7. CASE \/ c \in [op : {"input"}, to : Names, line : Lines, failed : {FALSE}, strip : BOOLEAN]
           \/ c \in [op : {"input"}, to : Names, line : {<<>>}, failed : {TRUE}, strip : {TRUE}]
  BY <1>7, InputCalls
<1> QED
  BY <1>1, <1>2, <1>3, <1>4, <1>5, <1>6, <1>7, Zenon DEF Calls

\* The program starts with strings made from its constants.
LEMMA LibraryStarts == Init => LibraryInvariant
<1> SUFFICES ASSUME Init PROVE LibraryInvariant
  OBVIOUS
<1> DEFINE World1(n) == [str |-> [m \in {n} |-> NoString], ret |-> Nothing, stray |-> FALSE]
<1>1. PICK f \in [Names -> Literals] \union {[n \in Names |-> t] : t \in Numerals} :
         str = [n \in Names |-> copy_string_buffer(World1(n), n, f[n]).str[n]]
  BY DEF Init
<1>2. \A n \in Names : f[n] \in Seq(Int)
  <2>1. Literals \subseteq Seq(Int) /\ Numerals \subseteq Seq(Int)
    BY LibraryAssumption
  <2>2. CASE f \in [Names -> Literals]
    BY <2>1, <2>2
  <2>3. CASE f \in {[n \in Names |-> t] : t \in Numerals}
    BY <2>1, <2>3
  <2> QED
    BY <2>2, <2>3
<1>3. ASSUME NEW n \in Names PROVE IsString(str[n])
  <2> DEFINE w == World1(n)
  <2>1. str[n] = copy_string_buffer(w, n, f[n]).str[n]
    BY <1>1
  <2>2. IsLoose(w) /\ n \in DOMAIN w.str
    BY DEF IsLoose
  <2> HIDE DEF World1
  <2>3. Makes(w, copy_string_buffer(w, n, f[n]), n, Len(f[n]))
    BY <1>2, <2>2, CopyBufferIs
  <2> QED
    BY <2>1, <2>3 DEF Makes
<1>4. str = [n \in Names |-> str[n]]
  <2> DEFINE made == [n \in Names |-> copy_string_buffer(World1(n), n, f[n]).str[n]]
  <2>1. str = made
    BY <1>1
  <2>2. DOMAIN made = Names /\ made = [n \in Names |-> made[n]]
    OBVIOUS
  <2> HIDE DEF made
  <2> QED
    BY <2>1, <2>2
<1>5. stray = FALSE
  BY DEF Init
<1> QED
  BY <1>3, <1>4, <1>5 DEF LibraryInvariant

\* A call leaves the strings in order unless it touched a byte outside them,
\* and then it is one of those named in Overruns.
LEMMA LibrarySteps ==
  ASSUME LibraryInvariant, [Next]_vars
  PROVE  LibraryInvariant' /\ [stray' => Overruns(call')]_vars
<1>1. CASE UNCHANGED vars
  BY <1>1 DEF LibraryInvariant, vars
<1>2. CASE Next
  <2>1. PICK c \in Calls : Make(c)
    BY <1>2 DEF Next
  <2>2. Sound
    BY <1>2 DEF Next, Sound
  <2> DEFINE w == Run(World, c)
  <2>3. Risky(World, w) /\ (~Overruns(c) => ~w.stray)
    BY <2>1, <2>2, CallsAreFine DEF Fine
  <2>4. str' = [n \in Names |-> w.str[n]] /\ stray' = w.stray /\ call' = c
    BY <2>1 DEF Make
  <2> HIDE DEF w
  <2>5. LibraryInvariant'
    <3>1. stray' \in BOOLEAN
      BY <2>3, <2>4 DEF Risky
    <3>2. ASSUME ~stray' PROVE str' = [n \in Names |-> str'[n]] /\ \A n \in Names : str'[n] = NoString \/ IsString(str'[n])
      <4>1. IsWorld(w) /\ \A n \in Names : n \in DOMAIN w.str
        BY <2>2, <2>3, <2>4, <3>2, WorldIs DEF Risky
      <4>2. \A n \in Names : w.str[n] = NoString \/ IsString(w.str[n])
        BY <4>1 DEF IsWorld
      <4>3. \A n \in Names : str'[n] = w.str[n]
        BY <2>4
      <4>4. str' = [n \in Names |-> str'[n]]
        BY <2>4
      <4> QED
        BY <4>2, <4>3, <4>4
    <3> QED
      BY <3>1, <3>2 DEF LibraryInvariant
  <2>6. stray' => Overruns(call')
    BY <2>3, <2>4
  <2> QED
    BY <2>5, <2>6
<1> QED
  BY <1>1, <1>2

\* Terminated is what the invariant says of the strings with characters.
LEMMA InvariantTerminates == LibraryInvariant => Terminated
<1> SUFFICES ASSUME LibraryInvariant, ~stray, NEW n \in Strings, str[n].length > 0
             PROVE  str[n].length \in DOMAIN str[n].data /\ str[n].data[str[n].length] = Nul
  BY DEF Terminated
<1>1. n \in Names /\ str[n] # NoString
  BY DEF Strings, Held
<1>2. IsString(str[n])
  BY <1>1 DEF LibraryInvariant
<1> QED
  BY <1>2 DEF IsString, IsBuffer

\* The strings of a program that made no call outside their promises are well
\* formed: capacity, length and terminator lie in the buffer.
THEOREM LibraryWellFormed == Spec => []LibraryInvariant
BY LibraryStarts, LibrarySteps, PTL DEF Spec

\* A string with characters is followed by a terminator inside its buffer,
\* whatever a program calls, in whatever order.
THEOREM LibraryTerminated == Spec => []Terminated
BY LibraryWellFormed, InvariantTerminates, PTL

\* No other call than those named in Overruns touches a byte outside the buffers.
THEOREM LibraryInBounds == Spec => InBounds
<1>1. LibraryInvariant /\ [Next]_vars => [stray' => Overruns(call')]_vars
  BY LibrarySteps
<1> QED
  BY <1>1, LibraryWellFormed, PTL DEF Spec, InBounds
=============================================================================
