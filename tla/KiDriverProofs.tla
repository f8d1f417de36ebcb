---------------------------- MODULE KiDriverProofs ----------------------------
(***************************************************************************)
(* Proofs about the driver, for all sets of modules and every command      *)
(* line: when a build is complete, what is left after success and after    *)
(* failure, and that an old executable stays until the linker runs.        *)
(***************************************************************************)
EXTENDS KiDriver, SequenceTheorems, FiniteSetTheorems, TLAPS

N == Len(job.table)
Whole == job.command \notin MainOnly

\* The places of the modules to compile among the first k, and these modules.
Turns(k) == {j \in 1..k : job.table[j] \notin job.builtin}
Reached(k) == {job.table[j] : j \in Turns(k)}

ObjectFile(j) == WithExtension(OutputFile(j), "o")
\* What was in a file before.
Before == IF stale THEN {Stale} ELSE {}

Types ==
    /\ job \in Jobs /\ (~job.named => job.out = <<Default, "">>)
    /\ disk \in [Files -> SUBSET (Modules \union {Stale})]
    /\ stale \in BOOLEAN
    /\ phase \in {"compile", "assemble", "link", "clean", "done", "failed"}
    /\ next \in Nat /\ errors \in Nat
    /\ files \in Seq(Files) /\ objects \in Seq(Files)

\* files lists the outputs of the modules among the first k, one for each.
Listed(k) ==
    /\ Len(files) = Cardinality(Reached(k))
    /\ \A i \in 1..Len(files) : \E j \in Turns(k) : files[i] = OutputFile(j)
    /\ \A j \in Turns(k) : \E i \in 1..Len(files) : files[i] = OutputFile(j)
    /\ NameIsFree => \A h, i \in 1..Len(files) : files[h] = files[i] => h = i

\* objects lists the object files of the first k of files.
ObjectsOf(k) ==
    /\ Len(objects) = k
    /\ \A i \in 1..k : objects[i] = WithExtension(files[i], "o")

\* Other modules whose output has the name of the main module's.
Clashes == {c \in Turns(N) : c # 1 /\ OutputFile(c) = OutputFile(1)}

\* No code of the main module is left when its output was overwritten.
MainLost == Clashes # {} => \A f \in Files : Main \notin disk[f]

\* No file is touched but the outputs and the objects.
OthersKept ==
    \A f \in Files : (\A j \in Turns(N) : f # OutputFile(j) /\ f # ObjectFile(j)) => disk[f] = Before

Compiling == phase = "compile" =>
    /\ next \in 1..N /\ (~Whole => next = 1)
    /\ Listed(next - 1) /\ objects = <<>> /\ errors = 0
    /\ NameIsFree => \A j \in Turns(next - 1) : disk[OutputFile(j)] = {job.table[j]}
    /\ \A f \in Files : (\A j \in Turns(next - 1) : f # OutputFile(j)) => disk[f] = Before
    /\ \A c \in Clashes : \A f \in Files : Main \in disk[f] => f = OutputFile(1) /\ next <= c

Assembling == phase = "assemble" =>
    /\ Whole /\ errors = 0
    /\ Listed(N) /\ next \in 1..(Len(files) + 1) /\ ObjectsOf(next - 1)
    /\ NameIsFree => \A j \in Turns(N) :
          /\ disk[OutputFile(j)] = {job.table[j]}
          /\ disk[ObjectFile(j)] = IF \E i \in 1..(next - 1) : files[i] = OutputFile(j)
                                   THEN {job.table[j]} ELSE Before
    /\ OthersKept /\ MainLost

Linking == phase = "link" =>
    /\ job.command = "build" /\ (NameIsFree => errors = 0)
    /\ Listed(N) /\ ObjectsOf(Len(files))
    /\ NameIsFree => \A j \in Turns(N) :
          /\ disk[OutputFile(j)] = IF job.debug THEN {job.table[j]} ELSE {}
          /\ disk[ObjectFile(j)] = {job.table[j]}
    /\ OthersKept /\ MainLost

Cleaning == phase = "clean" =>
    /\ job.command = "build" /\ (NameIsFree => errors = 0)
    /\ Listed(N) /\ ObjectsOf(Len(files))
    /\ NameIsFree =>
          /\ disk[job.out] = Compiled
          /\ \A j \in Turns(N) :
                /\ OutputFile(j) # job.out =>
                      disk[OutputFile(j)] = IF job.debug THEN {job.table[j]} ELSE {}
                /\ disk[ObjectFile(j)] = {job.table[j]}
    /\ MainLost

DriverInv ==
    /\ Types
    /\ Compiling /\ Assembling /\ Linking /\ Cleaning
    /\ BuildComplete /\ NothingLeft /\ FailureLeaves /\ OldOutputKept
-----------------------------------------------------------------------------
\* What is known of the command line and the module table.
LEMMA JobFacts ==
  ASSUME Types
  PROVE  /\ N \in Nat \ {0} /\ DOMAIN job.table = 1..N /\ job.table \in [1..N -> Modules]
         /\ job.table[1] = Main /\ \A j \in 1..N : job.table[j] \in Modules
         /\ \A j, k \in 1..N : job.table[j] = job.table[k] => j = k
         /\ job.builtin \subseteq Modules \ {Main}
         /\ 1 \in Turns(N)
         /\ Compiled = Reached(N) /\ Main \in Compiled
         /\ job.command \in Commands /\ job.debug \in BOOLEAN /\ job.named \in BOOLEAN
         /\ job.out \in Files
         /\ ~job.named => job.out[1] = Default /\ job.out[2] = ""
<1>1. /\ job.command \in Commands /\ job.debug \in BOOLEAN /\ job.named \in BOOLEAN
      /\ job.out \in Files /\ job.table \in Tables /\ job.builtin \in SUBSET (Modules \ {Main})
  BY DEF Types, Jobs
<1>2. Cardinality(Modules) \in Nat
  BY DriverAssumption, FS_CardinalityType
<1>3. PICK n \in 1..Cardinality(Modules) : job.table \in [1..n -> Modules]
  BY <1>1 DEF Tables
<1>4. n \in Nat \ {0}
  BY <1>2
<1>5. N = n
  <2>1. job.table \in Seq(Modules)
    BY <1>3, <1>4, SeqDef
  <2>2. N \in Nat /\ DOMAIN job.table = 1..N /\ DOMAIN job.table = 1..n
    BY <1>3, <2>1, LenProperties DEF N
  <2> QED
    BY <1>4, <2>2
<1>6. job.table[1] = Main /\ \A j, k \in 1..N : job.table[j] = job.table[k] => j = k
  BY <1>1, <1>3, <1>5 DEF Tables
<1>7. 1 \in Turns(N)
  BY <1>1, <1>4, <1>5, <1>6 DEF Turns
<1>8. Compiled = Reached(N)
  BY <1>3, <1>5 DEF Compiled, Reached, Turns
<1>9. ASSUME ~job.named PROVE job.out[1] = Default /\ job.out[2] = ""
  <2>1. PICK out : out = job.out
    OBVIOUS
  <2>2. out = <<Default, "">>
    BY <1>9, <2>1 DEF Types
  <2>3. out[1] = Default /\ out[2] = ""
    BY <2>2
  <2> QED
    BY <2>1, <2>3
<1> QED
  BY <1>1, <1>3, <1>4, <1>5, <1>6, <1>7, <1>8, <1>9 DEF Reached
\* The names of the outputs and the objects.
LEMMA Names ==
  ASSUME Types, NEW j \in 1..N
  PROVE  /\ OutputFile(j) \in Files /\ ObjectFile(j) \in Files
         /\ ObjectFile(j) = <<OutputFile(j)[1], "o">>
         /\ OutputFile(j)[2] # "o"
         /\ Whole => OutputFile(j)[2] = "asm"
<1>1. /\ job.table[j] \in Modules /\ job.out[1] \in Modules \union {Default}
      /\ job.command \in Commands
  BY JobFacts DEF Files
<1>2. PICK e \in {"kir", "md", "asm"} :
        /\ OutputFile(j) = IF j = 1 /\ job.named /\ job.command # "document"
                           THEN <<job.out[1], e>> ELSE <<job.table[j], e>>
        /\ Whole => e = "asm"
  BY DEF OutputFile, WithExtension, Whole, MainOnly
<1>3. PICK stem \in Modules \union {Default} : OutputFile(j) = <<stem, e>>
  BY <1>1, <1>2
<1>4. OutputFile(j)[1] = stem /\ OutputFile(j)[2] = e /\ ObjectFile(j) = <<stem, "o">>
  BY <1>3 DEF ObjectFile, WithExtension
<1>5. OutputFile(j) \in Files /\ ObjectFile(j) \in Files
  <2>1. e \in Extensions /\ "o" \in Extensions
    BY DEF Extensions
  <2> QED
    BY <1>3, <1>4, <2>1 DEF Files
<1> QED
  BY <1>2, <1>4, <1>5

\* If the name of the executable is free no two of these names are the same.
LEMMA NamesApart ==
  ASSUME Types, NameIsFree, NEW j \in Turns(N), NEW k \in Turns(N)
  PROVE  /\ OutputFile(j) = OutputFile(k) => j = k
         /\ ObjectFile(j) = ObjectFile(k) => j = k
         /\ OutputFile(j) # ObjectFile(k)
         /\ ObjectFile(j) # job.out
         /\ OutputFile(j) = job.out /\ Whole => job.out[2] = "asm"
<1>1. j \in 1..N /\ k \in 1..N
  BY DEF Turns
<1>2. /\ OutputFile(j)[1] = IF j = 1 /\ job.named /\ job.command # "document"
                            THEN job.out[1] ELSE job.table[j]
      /\ OutputFile(k)[1] = IF k = 1 /\ job.named /\ job.command # "document"
                            THEN job.out[1] ELSE job.table[k]
  BY DEF OutputFile, WithExtension
<1>3. /\ job.table[j] \in Compiled /\ job.table[k] \in Compiled
      /\ job.table[j] = Main => j = 1
      /\ job.table[k] = Main => k = 1
      /\ job.table[j] = job.table[k] => j = k
  BY <1>1, JobFacts DEF Reached, Turns
<1>4. OutputFile(j)[1] = OutputFile(k)[1] => j = k
  BY <1>2, <1>3 DEF NameIsFree
<1>5. /\ ObjectFile(j) = <<OutputFile(j)[1], "o">> /\ ObjectFile(k) = <<OutputFile(k)[1], "o">>
      /\ OutputFile(j)[2] # "o" /\ (Whole => OutputFile(j)[2] = "asm")
  BY <1>1, Names
<1>6. job.out[2] # "o"
  <2>1. CASE job.named
    BY <2>1 DEF NameIsFree
  <2>2. CASE ~job.named
    <3>1. job.out[2] = ""
      BY <2>2, JobFacts
    <3> QED
      BY <3>1
  <2> QED
    BY <2>1, <2>2
<1> QED
  BY <1>4, <1>5, <1>6

\* Each module that is compiled has one place.
LEMMA PlaceOf ==
  ASSUME Types, NEW m \in Compiled
  PROVE  \E j \in Turns(N) : /\ job.table[j] = m
                             /\ Assembly(m) = OutputFile(j) /\ Object(m) = ObjectFile(j)
<1>1. PICK j \in Turns(N) : job.table[j] = m
  <2>1. m \in Reached(N)
    BY JobFacts
  <2> QED
    BY <2>1 DEF Reached
<1>2. j \in DOMAIN job.table /\ \A k \in DOMAIN job.table : job.table[k] = m => k = j
  BY <1>1, JobFacts DEF Turns
<1>3. (CHOOSE k \in DOMAIN job.table : job.table[k] = m) = j
  BY <1>1, <1>2
<1> QED
  BY <1>1, <1>3 DEF Assembly, Object, ObjectFile

\* One more place adds its module, unless that is left out.
LEMMA NextTurn ==
  ASSUME Types, NEW k \in 1..N
  PROVE  /\ job.table[k] \in job.builtin => Turns(k) = Turns(k - 1)
         /\ job.table[k] \notin job.builtin =>
               /\ Turns(k) = Turns(k - 1) \union {k}
               /\ Cardinality(Reached(k)) = Cardinality(Reached(k - 1)) + 1
         /\ Turns(k) \subseteq Turns(N) /\ Turns(k - 1) \subseteq Turns(N)
         /\ k \notin Turns(k - 1)
<1>1. N \in Nat /\ k \in Nat
  <2>1. N \in Nat
    BY JobFacts
  <2> QED
    BY <2>1
<1>2. /\ 1..k = (1..(k - 1)) \union {k} /\ k \notin 1..(k - 1)
      /\ 1..k \subseteq 1..N /\ 1..(k - 1) \subseteq 1..N
  BY <1>1
<1>3. ASSUME job.table[k] \notin job.builtin
      PROVE  /\ Turns(k) = Turns(k - 1) \union {k}
             /\ Cardinality(Reached(k)) = Cardinality(Reached(k - 1)) + 1
  <2>1. Turns(k) = Turns(k - 1) \union {k}
    BY <1>2, <1>3 DEF Turns
  <2>2. Reached(k) = Reached(k - 1) \union {job.table[k]}
    BY <2>1 DEF Reached
  <2>3. \A j \in Turns(k - 1) : j \in 1..N /\ j # k
    BY <1>2 DEF Turns
  <2>4. job.table[k] \notin Reached(k - 1)
    BY <2>3, JobFacts DEF Reached
  <2>5. Reached(k - 1) \subseteq Modules
    <3>1. \A j \in 1..N : job.table[j] \in Modules
      BY JobFacts
    <3> QED
      BY <2>3, <3>1 DEF Reached
  <2>6. IsFiniteSet(Reached(k - 1))
    BY <2>5, DriverAssumption, FS_Subset
  <2> QED
    BY <2>1, <2>2, <2>4, <2>6, FS_AddElement
<1> QED
  BY <1>2, <1>3 DEF Turns
\* The executable is no output and no object, unless it is named like an assembly file.
LEMMA OutIsOther ==
  ASSUME Types, NameIsFree, Whole, job.out[2] # "asm", NEW j \in Turns(N)
  PROVE  job.out # OutputFile(j) /\ job.out # ObjectFile(j)
BY NamesApart

\* What depends on the command line and the module table stays.
LEMMA SameJob ==
  ASSUME job' = job, stale' = stale
  PROVE  /\ N' = N /\ Whole' = Whole /\ Compiled' = Compiled /\ NameIsFree' = NameIsFree
         /\ \A k : Turns(k)' = Turns(k) /\ Reached(k)' = Reached(k)
         /\ \A k : OutputFile(k)' = OutputFile(k) /\ ObjectFile(k)' = ObjectFile(k)
         /\ \A m : Assembly(m)' = Assembly(m) /\ Object(m)' = Object(m)
         /\ Clashes' = Clashes /\ Before' = Before
<1>1. N' = N /\ Whole' = Whole /\ Compiled' = Compiled /\ Before' = Before
  BY DEF N, Whole, Compiled, Before
<1>2. NameIsFree' = NameIsFree
  BY <1>1 DEF NameIsFree
<1>3. \A k : Turns(k)' = Turns(k)
  BY DEF Turns
<1>4. \A k : Reached(k)' = Reached(k)
  BY <1>3 DEF Reached
<1>5. \A k : OutputFile(k)' = OutputFile(k)
  BY DEF OutputFile
<1>6. \A k : ObjectFile(k)' = ObjectFile(k)
  BY <1>5 DEF ObjectFile, WithExtension
<1>7. \A m : Assembly(m)' = Assembly(m)
  BY <1>5 DEF Assembly
<1>8. \A m : Object(m)' = Object(m)
  BY <1>7 DEF Object, WithExtension
<1>9. Clashes' = Clashes
  BY <1>1, <1>3, <1>5 DEF Clashes
<1> QED
  BY <1>1, <1>2, <1>3, <1>4, <1>5, <1>6, <1>7, <1>8, <1>9

\* Before the linker has run the properties ask for nothing but the old executable.
LEMMA Running ==
  ASSUME Types, job' = job, stale' = stale,
         phase' \in {"compile", "assemble", "link"}, OthersKept'
  PROVE  BuildComplete' /\ NothingLeft' /\ FailureLeaves' /\ OldOutputKept'
<1>1. BuildComplete' /\ NothingLeft' /\ FailureLeaves'
  BY DEF BuildComplete, NothingLeft, FailureLeaves
<1>2. OldOutputKept'
  <2> SUFFICES ASSUME NameIsFree, stale, job.command = "build", job.out[2] # "asm"
               PROVE  disk'[job.out] = {Stale}
    BY SameJob DEF OldOutputKept
  <2>1. Whole
    BY DEF Whole, MainOnly
  <2>2. \A j \in Turns(N) : job.out # OutputFile(j) /\ job.out # ObjectFile(j)
    BY <2>1, OutIsOther
  <2>3. job.out \in Files
    BY JobFacts
  <2> QED
    BY <2>2, <2>3, SameJob DEF OthersKept, Before
<1> QED
  BY <1>1, <1>2

-----------------------------------------------------------------------------
LEMMA DriverInit == ASSUME Init PROVE DriverInv
<1>1. /\ job \in Jobs /\ (~job.named => job.out = <<Default, "">>) /\ stale \in BOOLEAN
      /\ disk = [f \in Files |-> IF stale THEN {Stale} ELSE {}]
      /\ phase = "compile" /\ next = 1 /\ files = <<>> /\ objects = <<>> /\ errors = 0
  BY DEF Init
<1>2. Types
  <2>1. disk \in [Files -> SUBSET (Modules \union {Stale})]
    BY <1>1
  <2>2. files \in Seq(Files) /\ objects \in Seq(Files)
    BY <1>1, EmptySeq
  <2> QED
    BY <1>1, <2>1, <2>2 DEF Types
<1>3. N \in Nat \ {0}
  BY <1>2, JobFacts
<1>4. Turns(0) = {} /\ Reached(0) = {}
  BY DEF Turns, Reached
<1>5. Listed(next - 1)
  <2>0. next = 1 /\ files = <<>>
    BY <1>1
  <2>1. next - 1 = 0 /\ Len(files) = 0 /\ 1..Len(files) = {}
    BY <2>0, EmptySeq
  <2>2. Turns(next - 1) = {} /\ Cardinality(Reached(next - 1)) = 0
    BY <1>4, <2>1, FS_EmptySet
  <2> QED
    BY <2>1, <2>2 DEF Listed
<1>6. \A f \in Files : disk[f] = Before /\ Main \notin disk[f]
  BY <1>1, DriverAssumption DEF Before
<1>7. Compiling
  <2>0. next = 1
    BY <1>1
  <2>1. next - 1 = 0 /\ next \in 1..N
    BY <2>0, <1>3
  <2> QED
    BY <1>1, <1>4, <1>5, <1>6, <2>1 DEF Compiling
<1>8. Assembling /\ Linking /\ Cleaning
  BY <1>1 DEF Assembling, Linking, Cleaning
<1>9. BuildComplete /\ NothingLeft /\ FailureLeaves
  BY <1>1 DEF BuildComplete, NothingLeft, FailureLeaves
<1>10. OldOutputKept
  <2>1. job.out \in Files
    BY <1>2, JobFacts
  <2> QED
    BY <1>6, <2>1 DEF OldOutputKept, Before
<1> QED
  BY <1>2, <1>7, <1>8, <1>9, <1>10 DEF DriverInv

\* The output of one more module is listed.
LEMMA ListedNext ==
  ASSUME Types, NEW k \in 1..N, Listed(k - 1), job.table[k] \notin job.builtin,
         files' = Append(files, OutputFile(k)), job' = job, stale' = stale
  PROVE  files' \in Seq(Files) /\ Listed(k)'
<1>1. OutputFile(k) \in Files /\ files \in Seq(Files) /\ Len(files) \in Nat
  BY Names, LenProperties DEF Types
<1>2. /\ files' \in Seq(Files) /\ Len(files') = Len(files) + 1
      /\ \A i \in 1..Len(files) : files'[i] = files[i]
      /\ files'[Len(files) + 1] = OutputFile(k)
  BY <1>1, AppendProperties
<1>3. /\ Turns(k) = Turns(k - 1) \union {k}
      /\ Cardinality(Reached(k)) = Cardinality(Reached(k - 1)) + 1
      /\ Turns(k) \subseteq Turns(N) /\ k \notin Turns(k - 1)
  BY NextTurn
<1>4. /\ \A i \in 1..Len(files') : i \in 1..Len(files) \/ i = Len(files) + 1
      /\ 1..Len(files) \subseteq 1..Len(files') /\ Len(files) + 1 \in 1..Len(files')
  BY <1>1, <1>2
<1>5. Len(files') = Cardinality(Reached(k))
  BY <1>2, <1>3 DEF Listed
<1>6. \A i \in 1..Len(files') : \E j \in Turns(k) : files'[i] = OutputFile(j)
  BY <1>2, <1>3, <1>4 DEF Listed
<1>7. \A j \in Turns(k) : \E i \in 1..Len(files') : files'[i] = OutputFile(j)
  BY <1>2, <1>3, <1>4 DEF Listed
<1>8. ASSUME NameIsFree, NEW h \in 1..Len(files'), NEW i \in 1..Len(files'), files'[h] = files'[i]
      PROVE  h = i
  <2>1. ASSUME NEW g \in 1..Len(files) PROVE files[g] # OutputFile(k)
    <3>1. PICK j \in Turns(k - 1) : files[g] = OutputFile(j)
      BY DEF Listed
    <3>2. j \in Turns(N) /\ k \in Turns(N) /\ j # k
      BY <1>3
    <3> QED
      BY <1>8, <3>1, <3>2, NamesApart
  <2> QED
    BY <1>2, <1>4, <1>8, <2>1 DEF Listed
<1>9. /\ Turns(k)' = Turns(k) /\ Reached(k)' = Reached(k) /\ NameIsFree' = NameIsFree
      /\ \A j : OutputFile(j)' = OutputFile(j)
  BY SameJob
<1> QED
  BY <1>2, <1>5, <1>6, <1>7, <1>8, <1>9 DEF Listed
\* What is in the files after the output of one more module.
LEMMA DiskNext ==
  ASSUME Types, Compiling, phase = "compile", NEW k \in 1..N, next = k,
         job.table[k] \notin job.builtin, disk' = Written(k)
  PROVE  /\ disk' \in [Files -> SUBSET (Modules \union {Stale})]
         /\ NameIsFree => \A j \in Turns(k) : disk'[OutputFile(j)] = {job.table[j]}
         /\ \A f \in Files : (\A j \in Turns(k) : f # OutputFile(j)) => disk'[f] = Before
         /\ \A c \in Clashes : \A f \in Files : Main \in disk'[f] => f = OutputFile(1) /\ k + 1 <= c
<1>1. /\ k \in Nat /\ OutputFile(k) \in Files /\ job.table[k] \in Modules
      /\ disk \in [Files -> SUBSET (Modules \union {Stale})]
  BY Names, JobFacts DEF Types
<1>2. /\ disk' \in [Files -> SUBSET (Modules \union {Stale})]
      /\ disk'[OutputFile(k)] = {job.table[k]}
      /\ \A f \in Files : f # OutputFile(k) => disk'[f] = disk[f]
  BY <1>1 DEF Written
<1>3. /\ Turns(k) = Turns(k - 1) \union {k} /\ Turns(k) \subseteq Turns(N)
      /\ k \notin Turns(k - 1)
  BY NextTurn
<1>4. ASSUME NameIsFree, NEW j \in Turns(k) PROVE disk'[OutputFile(j)] = {job.table[j]}
  <2>1. CASE j = k
    BY <1>2, <2>1
  <2>2. CASE j # k
    <3>1. j \in Turns(k - 1) /\ j \in Turns(N) /\ k \in Turns(N) /\ j \in 1..N
      BY <1>3, <2>2 DEF Turns
    <3>2. OutputFile(j) # OutputFile(k) /\ OutputFile(j) \in Files
      BY <1>4, <2>2, <3>1, NamesApart, Names
    <3> QED
      BY <1>2, <1>4, <3>1, <3>2 DEF Compiling
  <2> QED
    BY <2>1, <2>2
<1>5. ASSUME NEW f \in Files, \A j \in Turns(k) : f # OutputFile(j) PROVE disk'[f] = Before
  BY <1>2, <1>3, <1>5 DEF Compiling
<1>6. ASSUME NEW c \in Clashes, NEW f \in Files, Main \in disk'[f]
      PROVE  f = OutputFile(1) /\ k + 1 <= c
  <2>1. c \in 1..N /\ c \in Nat /\ c # 1 /\ OutputFile(c) = OutputFile(1)
    BY DEF Clashes, Turns
  <2>2. CASE f = OutputFile(k)
    <3>1. job.table[k] = Main
      BY <1>2, <1>6, <2>2
    <3>2. k = 1
      <4>1. /\ 1 \in Turns(N) /\ job.table[1] = Main
            /\ \A i, j \in 1..N : job.table[i] = job.table[j] => i = j
        BY JobFacts
      <4> QED
        BY <3>1, <4>1 DEF Turns
    <3> QED
      BY <2>1, <2>2, <3>2
  <2>3. CASE f # OutputFile(k)
    <3>1. f = OutputFile(1) /\ k <= c
      BY <1>2, <1>6, <2>3 DEF Compiling
    <3> QED
      BY <1>1, <2>1, <2>3, <3>1
  <2> QED
    BY <2>2, <2>3
<1> QED
  BY <1>2, <1>4, <1>5, <1>6

\* The first k modules are done, and the driver goes on.
LEMMA ModuleDone ==
  ASSUME Types, Types', phase = "compile", NEW k \in 1..N, next = k, AfterModule,
         job' = job, stale' = stale, objects' = <<>>, errors' = 0, Listed(k)',
         NameIsFree => \A j \in Turns(k) : disk'[OutputFile(j)] = {job.table[j]},
         \A f \in Files : (\A j \in Turns(k) : f # OutputFile(j)) => disk'[f] = Before,
         \A c \in Clashes : \A f \in Files : Main \in disk'[f] => f = OutputFile(1) /\ k + 1 <= c
  PROVE  DriverInv'
<1>1. /\ N' = N /\ Whole' = Whole /\ NameIsFree' = NameIsFree
      /\ \A j : Turns(j)' = Turns(j) /\ Reached(j)' = Reached(j)
      /\ \A j : OutputFile(j)' = OutputFile(j) /\ ObjectFile(j)' = ObjectFile(j)
      /\ Clashes' = Clashes /\ Before' = Before
  BY SameJob
<1>2. N \in Nat /\ k \in Nat /\ Turns(k) \subseteq Turns(N)
  <2>1. N \in Nat
    BY JobFacts
  <2>2. Turns(k) \subseteq Turns(N)
    BY NextTurn
  <2> QED
    BY <2>1, <2>2
<1>3. OthersKept'
  BY <1>1, <1>2 DEF OthersKept
<1>4. CASE ~Whole
  <2>1. phase' = "done" /\ job'.command \in MainOnly /\ job'.command # "build"
    BY <1>4 DEF AfterModule, Whole, MainOnly
  <2>2. Compiling' /\ Assembling' /\ Linking' /\ Cleaning'
    BY <2>1 DEF Compiling, Assembling, Linking, Cleaning
  <2>3. BuildComplete' /\ NothingLeft' /\ FailureLeaves' /\ OldOutputKept'
    BY <2>1 DEF BuildComplete, NothingLeft, FailureLeaves, OldOutputKept
  <2> QED
    BY <2>2, <2>3 DEF DriverInv
<1>5. CASE Whole /\ k = N
  <2>1. phase' = "assemble" /\ next' = 1
    BY <1>5 DEF AfterModule, Whole, N
  <2>2. BuildComplete' /\ NothingLeft' /\ FailureLeaves' /\ OldOutputKept'
    BY <1>3, <2>1, Running
  <2>3. Compiling' /\ Linking' /\ Cleaning'
    BY <2>1 DEF Compiling, Linking, Cleaning
  <2>4. Len(files') \in Nat /\ next' - 1 = 0 /\ next' \in 1..(Len(files') + 1)
    <3>1. Len(files') \in Nat
      BY LenProperties DEF Types
    <3> QED
      BY <2>1, <3>1
  <2>5. ObjectsOf(next - 1)'
    <3>1. Len(objects') = 0
      BY EmptySeq
    <3> QED
      BY <2>4, <3>1 DEF ObjectsOf
  <2>6. Listed(N)'
    BY <1>1, <1>5 DEF Listed
  <2>7. ASSUME NameIsFree, NEW j \in Turns(N)
        PROVE  disk'[OutputFile(j)] = {job.table[j]} /\ disk'[ObjectFile(j)] = Before
    <3>1. ObjectFile(j) \in Files /\ \A h \in Turns(N) : ObjectFile(j) # OutputFile(h)
      BY <2>7, NamesApart, Names DEF Turns
    <3> QED
      BY <1>5, <2>7, <3>1
  <2>8. MainLost'
    <3> SUFFICES ASSUME NEW c \in Clashes, NEW f \in Files PROVE Main \notin disk'[f]
      BY <1>1 DEF MainLost
    <3>1. c \in 1..N
      BY DEF Clashes, Turns
    <3> QED
      BY <1>2, <1>5, <3>1
  <2>9. Assembling'
    <3>1. ~ \E i \in 1..(next' - 1) : TRUE
      BY <2>4
    <3> QED
      BY <1>1, <1>3, <1>5, <2>4, <2>5, <2>6, <2>7, <2>8, <3>1 DEF Assembling
  <2> QED
    BY <2>2, <2>3, <2>9 DEF DriverInv
<1>6. CASE Whole /\ k # N
  <2>1. phase' = "compile" /\ next' = k + 1 /\ next' - 1 = k /\ next' \in 1..N
    BY <1>2, <1>6 DEF AfterModule, Whole, N
  <2>2. BuildComplete' /\ NothingLeft' /\ FailureLeaves' /\ OldOutputKept'
    BY <1>3, <2>1, Running
  <2>3. Assembling' /\ Linking' /\ Cleaning'
    BY <2>1 DEF Assembling, Linking, Cleaning
  <2>4. Listed(next - 1)'
    BY <2>1 DEF Listed
  <2>5. Compiling'
    BY <1>1, <1>6, <2>1, <2>4 DEF Compiling
  <2> QED
    BY <2>2, <2>3, <2>5 DEF DriverInv
<1> QED
  BY <1>4, <1>5, <1>6
\* The driver stops after the first k modules: only their outputs are there.
LEMMA StoppedEarly ==
  ASSUME Types, Types', NEW k \in 0..N, Turns(k) \subseteq Turns(N), Whole \/ Turns(k) = {},
         phase' = "failed", job' = job, stale' = stale,
         NameIsFree => \A j \in Turns(k) : disk'[OutputFile(j)] = {job.table[j]},
         \A f \in Files : (\A j \in Turns(k) : f # OutputFile(j)) => disk'[f] = Before
  PROVE  DriverInv'
<1>1. /\ Compiled' = Compiled /\ NameIsFree' = NameIsFree
      /\ \A m : Assembly(m)' = Assembly(m) /\ Object(m)' = Object(m)
  BY SameJob
<1>2. Compiling' /\ Assembling' /\ Linking' /\ Cleaning' /\ BuildComplete' /\ NothingLeft'
  BY DEF Compiling, Assembling, Linking, Cleaning, BuildComplete, NothingLeft
<1>3. ASSUME NameIsFree, job.out[2] # "asm" PROVE disk'[job.out] = Before
  <2>1. job.out \in Files
    BY JobFacts
  <2>2. \A j \in Turns(k) : job.out # OutputFile(j)
    BY <1>3, OutIsOther
  <2> QED
    BY <2>1, <2>2
<1>4. ASSUME NameIsFree, ~stale, NEW m \in Compiled
      PROVE  /\ disk'[Assembly(m)] \in {{}, {m}}
             /\ disk'[Object(m)] = {}
  <2>1. PICK j \in Turns(N) : /\ job.table[j] = m
                              /\ Assembly(m) = OutputFile(j) /\ Object(m) = ObjectFile(j)
    BY PlaceOf
  <2>2. /\ OutputFile(j) \in Files /\ ObjectFile(j) \in Files
        /\ \A h \in Turns(k) : ObjectFile(j) # OutputFile(h)
        /\ \A h \in Turns(k) : OutputFile(j) = OutputFile(h) => j = h
    BY <1>4, NamesApart, Names DEF Turns
  <2>3. CASE j \in Turns(k)
    BY <1>4, <2>1, <2>2, <2>3 DEF Before
  <2>4. CASE j \notin Turns(k)
    BY <1>4, <2>1, <2>2, <2>4 DEF Before
  <2> QED
    BY <2>3, <2>4
<1>5. FailureLeaves'
  <2> SUFFICES ASSUME NameIsFree, ~stale
               PROVE  /\ \A m \in Compiled : disk'[Assembly(m)] \in {{}, {m}}
                      /\ \A m \in Compiled : disk'[Object(m)] = {}
                      /\ job.out[2] # "asm" => disk'[job.out] = {}
    BY <1>1 DEF FailureLeaves, Present
  <2> QED
    BY <1>3, <1>4 DEF Before
<1>6. OldOutputKept'
  BY <1>1, <1>3 DEF OldOutputKept, Before
<1> QED
  BY <1>2, <1>5, <1>6 DEF DriverInv

-----------------------------------------------------------------------------
\* Each action of the driver keeps the invariant.
LEMMA CompileModuleKeeps ==
  ASSUME DriverInv, CompileModule PROVE DriverInv'
<1>1. /\ Types /\ Compiling /\ phase = "compile" /\ disk' = Written(next)
      /\ files' = Append(files, OutputFile(next)) /\ job.table[next] \notin job.builtin
      /\ AfterModule /\ job' = job /\ stale' = stale /\ objects' = objects /\ errors' = errors
  BY DEF DriverInv, CompileModule
<1>2. PICK k \in 1..N : next = k
  BY <1>1 DEF Compiling
<1>3. /\ Listed(k - 1) /\ job.table[k] \notin job.builtin
      /\ objects = <<>> /\ errors = 0 /\ files' = Append(files, OutputFile(k))
  BY <1>1, <1>2 DEF Compiling
<1>4. files' \in Seq(Files) /\ Listed(k)'
  BY <1>1, <1>3, ListedNext
<1>5. disk' = Written(k)
  BY <1>1, <1>2
<1>6. /\ disk' \in [Files -> SUBSET (Modules \union {Stale})]
      /\ NameIsFree => \A j \in Turns(k) : disk'[OutputFile(j)] = {job.table[j]}
      /\ \A f \in Files : (\A j \in Turns(k) : f # OutputFile(j)) => disk'[f] = Before
      /\ \A c \in Clashes : \A f \in Files : Main \in disk'[f] => f = OutputFile(1) /\ k + 1 <= c
  BY <1>1, <1>2, <1>3, <1>5, DiskNext
<1>7. Types'
  <2>0. phase = "compile" /\ next \in Nat /\ AfterModule
    BY <1>1, <1>2
  <2>1. phase' \in {"compile", "assemble", "done"} /\ next' \in Nat
    BY <2>0 DEF AfterModule
  <2> QED
    BY <1>1, <1>4, <1>6, <2>1 DEF Types
<1> QED
  BY <1>1, <1>2, <1>3, <1>4, <1>6, <1>7, ModuleDone

LEMMA SkipModuleKeeps ==
  ASSUME DriverInv, SkipModule PROVE DriverInv'
<1>1. /\ Types /\ Compiling /\ phase = "compile" /\ job.table[next] \in job.builtin
      /\ AfterModule /\ job' = job /\ stale' = stale /\ objects' = objects /\ errors' = errors
      /\ disk' = disk /\ files' = files
  BY DEF DriverInv, SkipModule
<1>2. PICK k \in 1..N : next = k
  BY <1>1 DEF Compiling
<1>3. Turns(k) = Turns(k - 1) /\ k \notin Turns(N)
  <2>1. Turns(k) = Turns(k - 1)
    BY <1>1, <1>2, NextTurn
  <2> QED
    BY <1>1, <1>2, <2>1 DEF Turns
<1>4. Reached(k) = Reached(k - 1)
  BY <1>3 DEF Reached
<1>5. Listed(k) /\ objects = <<>> /\ errors = 0
  BY <1>1, <1>2, <1>3, <1>4 DEF Compiling, Listed
<1>6. Listed(k)'
  <2>1. /\ NameIsFree' = NameIsFree /\ Turns(k)' = Turns(k) /\ Reached(k)' = Reached(k)
        /\ \A j : OutputFile(j)' = OutputFile(j)
    BY <1>1, SameJob
  <2> QED
    BY <1>1, <1>5, <2>1 DEF Listed
<1>7. /\ NameIsFree => \A j \in Turns(k) : disk'[OutputFile(j)] = {job.table[j]}
      /\ \A f \in Files : (\A j \in Turns(k) : f # OutputFile(j)) => disk'[f] = Before
  BY <1>1, <1>2, <1>3 DEF Compiling
<1>8. ASSUME NEW c \in Clashes, NEW f \in Files, Main \in disk'[f]
      PROVE  f = OutputFile(1) /\ k + 1 <= c
  <2>1. f = OutputFile(1) /\ k <= c
    BY <1>1, <1>2, <1>8 DEF Compiling
  <2>2. c # k /\ c \in Nat /\ k \in Nat
    BY <1>2, <1>3 DEF Clashes, Turns
  <2> QED
    BY <2>1, <2>2
<1>9. Types'
  <2>0. phase = "compile" /\ next \in Nat /\ AfterModule
    BY <1>1, <1>2
  <2>1. phase' \in {"compile", "assemble", "done"} /\ next' \in Nat
    BY <2>0 DEF AfterModule
  <2> QED
    BY <1>1, <2>1 DEF Types
<1> QED
  BY <1>1, <1>2, <1>5, <1>6, <1>7, <1>8, <1>9, ModuleDone

LEMMA CompileFailsKeeps ==
  ASSUME DriverInv, CompileFails PROVE DriverInv'
<1>1. /\ Types /\ Compiling /\ phase = "compile" /\ phase' = "failed"
      /\ job' = job /\ stale' = stale /\ disk' = disk /\ next' = next
      /\ files' = files /\ objects' = objects /\ errors' = errors
  BY DEF DriverInv, CompileFails
<1>2. PICK k \in 1..N : next = k
  BY <1>1 DEF Compiling
<1>3. Types'
  BY <1>1 DEF Types
<1>4. Turns(k - 1) \subseteq Turns(N)
  BY <1>1, NextTurn
<1>5. k - 1 \in 0..N /\ (k = 1 => Turns(k - 1) = {})
  <2>1. N \in Nat
    BY <1>1, JobFacts
  <2>2. k - 1 \in 0..N /\ (k = 1 => 1..(k - 1) = {})
    BY <2>1
  <2> QED
    BY <2>2 DEF Turns
<1>6. /\ Whole \/ Turns(k - 1) = {}
      /\ NameIsFree => \A j \in Turns(k - 1) : disk'[OutputFile(j)] = {job.table[j]}
      /\ \A f \in Files : (\A j \in Turns(k - 1) : f # OutputFile(j)) => disk'[f] = Before
  BY <1>1, <1>2, <1>5 DEF Compiling
<1> QED
  BY <1>1, <1>3, <1>4, <1>5, <1>6, StoppedEarly

LEMMA MissingEntrypointKeeps ==
  ASSUME DriverInv, MissingEntrypoint PROVE DriverInv'
<1>1. /\ Types /\ Compiling /\ phase = "compile" /\ next = 1 /\ job.command = "build"
      /\ disk' = Written(next) /\ phase' = "failed"
      /\ job' = job /\ stale' = stale /\ next' = next
      /\ files' = files /\ objects' = objects /\ errors' = errors
  BY DEF DriverInv, MissingEntrypoint
<1>2. 1 \in 1..N /\ 1 \in 0..N /\ job.table[1] \notin job.builtin
  <2>1. N \in Nat \ {0} /\ 1 \in Turns(N)
    BY <1>1, JobFacts
  <2> QED
    BY <2>1 DEF Turns
<1>3. disk' = Written(1)
  BY <1>1
<1>4. /\ disk' \in [Files -> SUBSET (Modules \union {Stale})]
      /\ NameIsFree => \A j \in Turns(1) : disk'[OutputFile(j)] = {job.table[j]}
      /\ \A f \in Files : (\A j \in Turns(1) : f # OutputFile(j)) => disk'[f] = Before
  BY <1>1, <1>2, <1>3, DiskNext
<1>5. Types'
  BY <1>1, <1>4 DEF Types
<1>6. Whole /\ Turns(1) \subseteq Turns(N)
  <2>1. Turns(1) \subseteq Turns(N)
    BY <1>1, <1>2, NextTurn
  <2> QED
    BY <1>1, <2>1 DEF Whole, MainOnly
<1> QED
  BY <1>1, <1>2, <1>4, <1>5, <1>6, StoppedEarly
\* What remove_files does.
LEMMA Removed ==
  ASSUME Types, NEW fs \in Seq(Files)
  PROVE  /\ Without(fs) \in [Files -> SUBSET (Modules \union {Stale})]
         /\ \A f \in Files : Without(fs)[f] = IF \E i \in 1..Len(fs) : fs[i] = f THEN {} ELSE disk[f]
         /\ FailedRemovals(fs) \in Nat
         /\ (/\ \A i \in 1..Len(fs) : disk[fs[i]] # {}
             /\ \A h, i \in 1..Len(fs) : fs[h] = fs[i] => h = i) => FailedRemovals(fs) = 0
<1>1. Len(fs) \in Nat /\ DOMAIN fs = 1..Len(fs)
  BY LenProperties
<1>2. disk \in [Files -> SUBSET (Modules \union {Stale})]
  BY DEF Types
<1> DEFINE Failed == {i \in DOMAIN fs : ~Present(fs[i]) \/ \E j \in 1..(i - 1) : fs[j] = fs[i]}
<1>3. Cardinality(Failed) \in Nat
  <2>1. IsFiniteSet(1..Len(fs)) /\ Failed \subseteq 1..Len(fs)
    BY <1>1, FS_Interval
  <2> QED
    BY <2>1, FS_Subset, FS_CardinalityType
<1>4. ASSUME \A i \in 1..Len(fs) : disk[fs[i]] # {},
             \A h, i \in 1..Len(fs) : fs[h] = fs[i] => h = i
      PROVE  Cardinality(Failed) = 0
  <2>1. ASSUME NEW i \in 1..Len(fs), NEW j \in 1..(i - 1) PROVE fs[j] # fs[i]
    <3>1. j \in 1..Len(fs) /\ j # i
      BY <1>1, <2>1
    <3> QED
      BY <1>4, <3>1
  <2>2. Failed = {}
    BY <1>1, <1>4, <2>1 DEF Present
  <2> QED
    BY <2>2, FS_EmptySet
<1> QED
  BY <1>1, <1>2, <1>3, <1>4 DEF Without, FailedRemovals

\* The files to assemble are the outputs, and their objects those of the outputs.
LEMMA ListedFacts ==
  ASSUME Types, Listed(N)
  PROVE  /\ Len(files) \in Nat /\ Len(files) = Cardinality(Compiled)
         /\ \A i \in 1..Len(files) : \E j \in Turns(N) :
               files[i] = OutputFile(j) /\ WithExtension(files[i], "o") = ObjectFile(j)
         /\ \A j \in Turns(N) : \E i \in 1..Len(files) :
               files[i] = OutputFile(j) /\ WithExtension(files[i], "o") = ObjectFile(j)
         /\ NameIsFree => \A h, i \in 1..Len(files) : files[h] = files[i] => h = i
<1>1. Len(files) \in Nat
  BY LenProperties DEF Types
<1>2. Compiled = Reached(N)
  BY JobFacts
<1> QED
  BY <1>1, <1>2 DEF Listed, ObjectFile

\* What depends on the job and the files only stays.
LEMMA SameFiles ==
  ASSUME job' = job, stale' = stale, files' = files
  PROVE  /\ Listed(N)' <=> Listed(N)
         /\ objects' = objects => \A k : ObjectsOf(k)' <=> ObjectsOf(k)
<1>1. /\ N' = N /\ NameIsFree' = NameIsFree /\ Turns(N)' = Turns(N) /\ Reached(N)' = Reached(N)
      /\ \A j : OutputFile(j)' = OutputFile(j)
  <2>1. N' = N
    BY SameJob
  <2>2. Turns(N)' = Turns(N) 
    BY <2>1 DEF Turns
  <2>3. Reached(N)' = Reached(N)
    BY <2>2 DEF Reached
  <2> QED
    BY <2>1, <2>2, <2>3, SameJob
<1>2. Listed(N)' <=> Listed(N)
  BY <1>1 DEF Listed
<1> QED
  BY <1>2 DEF ObjectsOf, WithExtension

LEMMA AssembleKeeps ==
  ASSUME DriverInv, Assemble PROVE DriverInv'
<1>1. /\ Types /\ Assembling /\ phase = "assemble" /\ next <= Len(files) /\ phase' = "assemble"
      /\ disk' = [disk EXCEPT ![WithExtension(files[next], "o")] = disk[files[next]]]
      /\ objects' = Append(objects, WithExtension(files[next], "o"))
      /\ next' = next + 1 /\ job' = job /\ stale' = stale /\ files' = files /\ errors' = errors
  BY DEF DriverInv, Assemble
<1>2. /\ Whole /\ errors = 0 /\ Listed(N) /\ ObjectsOf(next - 1) /\ OthersKept /\ MainLost
      /\ next \in 1..(Len(files) + 1)
      /\ NameIsFree => \A j \in Turns(N) :
            /\ disk[OutputFile(j)] = {job.table[j]}
            /\ disk[ObjectFile(j)] = IF \E i \in 1..(next - 1) : files[i] = OutputFile(j)
                                     THEN {job.table[j]} ELSE Before
  BY <1>1 DEF Assembling
<1>3. /\ Len(files) \in Nat
      /\ \A i \in 1..Len(files) : \E j \in Turns(N) :
            files[i] = OutputFile(j) /\ WithExtension(files[i], "o") = ObjectFile(j)
  BY <1>1, <1>2, ListedFacts
<1>4. next \in 1..Len(files) /\ next \in Nat /\ next' - 1 = next /\ next' \in 1..(Len(files) + 1)
  BY <1>1, <1>2, <1>3
<1>5. PICK h \in Turns(N) : files[next] = OutputFile(h)
                         /\ WithExtension(files[next], "o") = ObjectFile(h)
  BY <1>3, <1>4
<1>6. OutputFile(h) \in Files /\ ObjectFile(h) \in Files
  BY <1>1, Names DEF Turns
<1>7. /\ disk \in [Files -> SUBSET (Modules \union {Stale})]
      /\ disk' = [disk EXCEPT ![ObjectFile(h)] = disk[OutputFile(h)]]
  BY <1>1, <1>5 DEF Types
<1>8. /\ disk' \in [Files -> SUBSET (Modules \union {Stale})]
      /\ disk'[ObjectFile(h)] = disk[OutputFile(h)]
      /\ \A f \in Files : f # ObjectFile(h) => disk'[f] = disk[f]
  BY <1>6, <1>7
<1>9. /\ objects \in Seq(Files) /\ Len(objects) = next - 1
      /\ objects' = Append(objects, ObjectFile(h))
      /\ \A i \in 1..(next - 1) : objects[i] = WithExtension(files[i], "o")
  BY <1>1, <1>2, <1>5 DEF Types, ObjectsOf
<1>10. /\ objects' \in Seq(Files) /\ Len(objects') = next
       /\ \A i \in 1..next : objects'[i] = WithExtension(files[i], "o")
  <2>1. /\ objects' \in Seq(Files) /\ Len(objects') = next - 1 + 1
        /\ \A i \in 1..(next - 1) : objects'[i] = objects[i]
        /\ objects'[next - 1 + 1] = ObjectFile(h)
    BY <1>6, <1>9, AppendProperties
  <2>2. next - 1 + 1 = next /\ \A i \in 1..next : i \in 1..(next - 1) \/ i = next
    BY <1>4
  <2> QED
    BY <1>5, <1>9, <2>1, <2>2
<1>11. Types'
  <2>1. Types /\ job' = job /\ stale' = stale /\ files' = files /\ errors' = errors /\ phase' = "assemble"
    BY <1>1
  <2>2. next' \in Nat
    BY <1>1, <1>4
  <2> QED
    BY <1>8, <1>10, <2>1, <2>2 DEF Types
<1>12. ObjectsOf(next - 1)' /\ Listed(N)'
  <2>1. ObjectsOf(next - 1)'
    BY <1>1, <1>4, <1>10 DEF ObjectsOf, WithExtension
  <2> QED
    BY <1>1, <1>2, <2>1, SameFiles
<1>13. /\ N' = N /\ Whole' = Whole /\ NameIsFree' = NameIsFree /\ Before' = Before
       /\ \A k : Turns(k)' = Turns(k)
       /\ \A j : OutputFile(j)' = OutputFile(j) /\ ObjectFile(j)' = ObjectFile(j)
       /\ Clashes' = Clashes
  BY <1>1, SameJob
<1>14. OthersKept'
  BY <1>2, <1>8, <1>13 DEF OthersKept
<1>15. MainLost'
  BY <1>2, <1>6, <1>8, <1>13 DEF MainLost
<1>16. ASSUME NameIsFree, NEW j \in Turns(N)
       PROVE  /\ disk'[OutputFile(j)] = {job.table[j]}
              /\ disk'[ObjectFile(j)] = IF \E i \in 1..next : files[i] = OutputFile(j)
                                        THEN {job.table[j]} ELSE Before
  <2>1. /\ OutputFile(j) \in Files /\ ObjectFile(j) \in Files
        /\ OutputFile(j) # ObjectFile(h)
        /\ (ObjectFile(j) = ObjectFile(h) => j = h) /\ (OutputFile(j) = OutputFile(h) => j = h)
    BY <1>1, <1>16, Names, NamesApart DEF Turns
  <2>2. \A i : i \in 1..next <=> i \in 1..(next - 1) \/ i = next
    BY <1>4
  <2>3. CASE j = h
    BY <1>2, <1>5, <1>8, <1>16, <2>1, <2>2, <2>3
  <2>4. CASE j # h
    BY <1>2, <1>5, <1>8, <1>16, <2>1, <2>2, <2>4
  <2> QED
    BY <2>3, <2>4
<1>17. Assembling'
  <2>1. /\ Whole' /\ errors' = 0 /\ next' \in 1..(Len(files') + 1)
        /\ job' = job /\ files' = files /\ next' - 1 = next
    BY <1>1, <1>2, <1>4, <1>13
  <2>2. (NameIsFree => \A j \in Turns(N) :
            /\ disk[OutputFile(j)] = {job.table[j]}
            /\ disk[ObjectFile(j)] = IF \E i \in 1..(next - 1) : files[i] = OutputFile(j)
                                     THEN {job.table[j]} ELSE Before)'
    BY <1>13, <1>16, <2>1
  <2> QED
    BY <1>12, <1>14, <1>15, <2>1, <2>2 DEF Assembling
<1>18. BuildComplete' /\ NothingLeft' /\ FailureLeaves' /\ OldOutputKept'
  BY <1>1, <1>14, Running
<1>19. Compiling' /\ Linking' /\ Cleaning'
  BY <1>1 DEF Compiling, Linking, Cleaning
<1> QED
  BY <1>11, <1>17, <1>18, <1>19 DEF DriverInv
\* The assembly files go, and of the objects at most the one at which it failed.
LEMMA AssembleFailsKeeps ==
  ASSUME DriverInv, AssembleFails PROVE DriverInv'
<1>1. /\ Types /\ Assembling /\ phase = "assemble" /\ phase' = "failed"
      /\ errors' = errors + FailedRemovals(files)
      /\ job' = job /\ stale' = stale /\ next' = next /\ files' = files /\ objects' = objects
  BY DEF DriverInv, AssembleFails
<1>2. /\ Whole /\ Listed(N) /\ OthersKept /\ next \in 1..(Len(files) + 1)
      /\ NameIsFree => \A j \in Turns(N) :
            /\ disk[OutputFile(j)] = {job.table[j]}
            /\ disk[ObjectFile(j)] = IF \E i \in 1..(next - 1) : files[i] = OutputFile(j)
                                     THEN {job.table[j]} ELSE Before
  BY <1>1 DEF Assembling
<1>3. /\ Len(files) \in Nat
      /\ \A i \in 1..Len(files) : \E j \in Turns(N) :
            files[i] = OutputFile(j) /\ WithExtension(files[i], "o") = ObjectFile(j)
      /\ \A j \in Turns(N) : \E i \in 1..Len(files) : files[i] = OutputFile(j)
  BY <1>1, <1>2, ListedFacts
<1>4. next \in 1..Len(files)
  BY <1>2, <1>3 DEF AssembleFails
<1>5. PICK h \in Turns(N) : WithExtension(files[next], "o") = ObjectFile(h)
  BY <1>3, <1>4
<1>6. ObjectFile(h) \in Files
  BY <1>1, Names DEF Turns
<1>7. /\ Without(files) \in [Files -> SUBSET (Modules \union {Stale})]
      /\ \A f \in Files : Without(files)[f] =
            IF \E i \in 1..Len(files) : files[i] = f THEN {} ELSE disk[f]
      /\ FailedRemovals(files) \in Nat
  <2>1. files \in Seq(Files)
    BY <1>1 DEF Types
  <2> QED
    BY <1>1, <2>1, Removed
<1>8. disk' \in {Without(files), [Without(files) EXCEPT ![ObjectFile(h)] = {}]}
  BY <1>5 DEF AssembleFails
<1>9. /\ disk' \in [Files -> SUBSET (Modules \union {Stale})]
      /\ \A f \in Files : f # ObjectFile(h) => disk'[f] = Without(files)[f]
      /\ disk'[ObjectFile(h)] \in {{}, Without(files)[ObjectFile(h)]}
  BY <1>6, <1>7, <1>8
<1>10. Types'
  <2>1. Types /\ job' = job /\ stale' = stale /\ files' = files /\ objects' = objects
        /\ phase' = "failed" /\ next' = next
    BY <1>1
  <2>2. errors' \in Nat
    <3>1. errors \in Nat
      BY <1>1 DEF Types
    <3> QED
      BY <1>1, <1>7, <3>1
  <2> QED
    BY <1>9, <2>1, <2>2 DEF Types
<1>11. ASSUME NameIsFree, NEW j \in Turns(N)
       PROVE  disk'[OutputFile(j)] = {} /\ disk'[ObjectFile(j)] \in {{}, {job.table[j]}, Before}
  <2>1. /\ OutputFile(j) \in Files /\ ObjectFile(j) \in Files
        /\ OutputFile(j) # ObjectFile(h)
        /\ \A k \in Turns(N) : ObjectFile(j) # OutputFile(k)
    BY <1>1, <1>11, Names, NamesApart DEF Turns
  <2>2. disk'[OutputFile(j)] = {}
    BY <1>3, <1>7, <1>9, <2>1
  <2>3. Without(files)[ObjectFile(j)] = disk[ObjectFile(j)]
    BY <1>3, <1>7, <2>1
  <2>4. disk[ObjectFile(j)] \in {{job.table[j]}, Before}
    BY <1>2, <1>11
  <2>5. disk'[ObjectFile(j)] \in {{}, disk[ObjectFile(j)]}
    BY <1>9, <2>1, <2>3
  <2> QED
    BY <2>2, <2>4, <2>5
<1>12. ASSUME NameIsFree, job.out[2] # "asm" PROVE disk'[job.out] = Before
  <2>1. /\ \A j \in Turns(N) : job.out # OutputFile(j) /\ job.out # ObjectFile(j)
        /\ job.out \in Files
    BY <1>1, <1>2, <1>12, OutIsOther, JobFacts
  <2>2. disk'[job.out] = disk[job.out]
    BY <1>3, <1>7, <1>9, <2>1
  <2> QED
    BY <1>2, <2>1, <2>2 DEF OthersKept
<1>13. /\ Compiled' = Compiled /\ NameIsFree' = NameIsFree
       /\ \A m : Assembly(m)' = Assembly(m) /\ Object(m)' = Object(m)
  BY <1>1, SameJob
<1>14. FailureLeaves'
  <2>1. ASSUME NameIsFree, ~stale, NEW m \in Compiled
        PROVE  disk'[Assembly(m)] = {} /\ disk'[Object(m)] \in {{}, {m}}
    <3>1. PICK j \in Turns(N) : /\ job.table[j] = m
                                /\ Assembly(m) = OutputFile(j) /\ Object(m) = ObjectFile(j)
      BY <1>1, PlaceOf
    <3> QED
      BY <1>11, <2>1, <3>1 DEF Before
  <2> SUFFICES ASSUME NameIsFree, ~stale
               PROVE  /\ \A m \in Compiled : disk'[Assembly(m)] = {}
                      /\ \A m \in Compiled : disk'[Object(m)] \in {{}, {m}}
                      /\ job.out[2] # "asm" => disk'[job.out] = {}
    BY <1>1, <1>13 DEF FailureLeaves, Present
  <2> QED
    BY <1>12, <2>1 DEF Before
<1>15. OldOutputKept'
  BY <1>1, <1>12, <1>13 DEF OldOutputKept, Before
<1>16. Compiling' /\ Assembling' /\ Linking' /\ Cleaning' /\ BuildComplete' /\ NothingLeft'
  BY <1>1 DEF Compiling, Assembling, Linking, Cleaning, BuildComplete, NothingLeft
<1> QED
  BY <1>10, <1>14, <1>15, <1>16 DEF DriverInv

LEMMA RemoveAssemblyKeeps ==
  ASSUME DriverInv, RemoveAssembly PROVE DriverInv'
<1>1. /\ Types /\ Assembling /\ phase = "assemble" /\ next > Len(files)
      /\ phase' = IF job.command = "object" THEN "done" ELSE "link"
      /\ job' = job /\ stale' = stale /\ next' = next /\ files' = files /\ objects' = objects
  BY DEF DriverInv, RemoveAssembly
<1>2. /\ Whole /\ errors = 0 /\ Listed(N) /\ ObjectsOf(next - 1) /\ OthersKept /\ MainLost
      /\ next \in 1..(Len(files) + 1)
      /\ NameIsFree => \A j \in Turns(N) :
            /\ disk[OutputFile(j)] = {job.table[j]}
            /\ disk[ObjectFile(j)] = IF \E i \in 1..(next - 1) : files[i] = OutputFile(j)
                                     THEN {job.table[j]} ELSE Before
  BY <1>1 DEF Assembling
<1>3. /\ Len(files) \in Nat
      /\ \A i \in 1..Len(files) : \E j \in Turns(N) : files[i] = OutputFile(j)
      /\ \A j \in Turns(N) : \E i \in 1..Len(files) : files[i] = OutputFile(j)
      /\ NameIsFree => \A h, i \in 1..Len(files) : files[h] = files[i] => h = i
  BY <1>1, <1>2, ListedFacts
<1>4. next - 1 = Len(files)
  <2>1. next > Len(files) /\ next \in 1..(Len(files) + 1) /\ Len(files) \in Nat
    BY <1>1, <1>2, <1>3
  <2> QED
    BY <2>1
<1>5. ObjectsOf(Len(files)) /\ ObjectsOf(Len(files))' /\ Listed(N)'
  <2>1. ObjectsOf(Len(files))
    BY <1>2, <1>4
  <2>2. Listed(N)' /\ ObjectsOf(Len(files))'
    BY <1>1, <1>2, <2>1, SameFiles DEF ObjectsOf, WithExtension
  <2> QED
    BY <2>1, <2>2
<1>6. /\ Without(files) \in [Files -> SUBSET (Modules \union {Stale})]
      /\ \A f \in Files : Without(files)[f] =
            IF \E i \in 1..Len(files) : files[i] = f THEN {} ELSE disk[f]
      /\ FailedRemovals(files) \in Nat
      /\ (/\ \A i \in 1..Len(files) : disk[files[i]] # {}
          /\ \A h, i \in 1..Len(files) : files[h] = files[i] => h = i) => FailedRemovals(files) = 0
  <2>1. files \in Seq(Files)
    BY <1>1 DEF Types
  <2> QED
    BY <1>1, <2>1, Removed
<1>7. ASSUME NameIsFree PROVE FailedRemovals(files) = 0
  <2>1. ASSUME NEW i \in 1..Len(files) PROVE disk[files[i]] # {}
    <3>1. PICK j \in Turns(N) : files[i] = OutputFile(j)
      BY <1>3
    <3> QED
      BY <1>2, <1>7, <3>1
  <2> QED
    BY <1>3, <1>6, <1>7, <2>1
<1>8. /\ job.debug => disk' = disk /\ errors' = 0
      /\ ~job.debug => disk' = Without(files) /\ errors' = FailedRemovals(files)
  BY <1>2, <1>6 DEF RemoveAssembly
<1>9. /\ disk' \in [Files -> SUBSET (Modules \union {Stale})]
      /\ errors' \in Nat /\ (NameIsFree => errors' = 0)
      /\ \A f \in Files : disk'[f] \in {{}, disk[f]}
      /\ \A f \in Files : (\A i \in 1..Len(files) : files[i] # f) => disk'[f] = disk[f]
  <2>1. disk \in [Files -> SUBSET (Modules \union {Stale})]
    BY <1>1 DEF Types
  <2>2. CASE job.debug
    BY <1>8, <2>1, <2>2
  <2>3. CASE ~job.debug
    BY <1>6, <1>7, <1>8, <2>1, <2>3
  <2> QED
    BY <2>2, <2>3
<1>10. Types'
  <2>1. Types /\ job' = job /\ stale' = stale /\ files' = files /\ objects' = objects
        /\ phase' \in {"done", "link"} /\ next' = next
    BY <1>1
  <2> QED
    BY <1>9, <2>1 DEF Types
<1>11. ASSUME NameIsFree, NEW j \in Turns(N)
       PROVE  /\ disk'[OutputFile(j)] = IF job.debug THEN {job.table[j]} ELSE {}
              /\ disk'[ObjectFile(j)] = {job.table[j]}
  <2>1. /\ OutputFile(j) \in Files /\ ObjectFile(j) \in Files
        /\ \A k \in Turns(N) : ObjectFile(j) # OutputFile(k)
    BY <1>1, <1>11, Names, NamesApart DEF Turns
  <2>2. disk[OutputFile(j)] = {job.table[j]} /\ disk[ObjectFile(j)] = {job.table[j]}
    BY <1>2, <1>3, <1>4, <1>11
  <2>3. disk'[ObjectFile(j)] = {job.table[j]}
    <3>1. \A i \in 1..Len(files) : files[i] # ObjectFile(j)
      BY <1>3, <2>1
    <3> QED
      BY <1>9, <2>1, <2>2, <3>1
  <2>4. disk'[OutputFile(j)] = IF job.debug THEN {job.table[j]} ELSE {}
    BY <1>3, <1>6, <1>8, <2>1, <2>2
  <2> QED
    BY <2>3, <2>4
<1>12. /\ N' = N /\ Whole' = Whole /\ NameIsFree' = NameIsFree /\ Before' = Before
       /\ Compiled' = Compiled /\ Clashes' = Clashes
       /\ Turns(N)' = Turns(N)
       /\ \A j : OutputFile(j)' = OutputFile(j) /\ ObjectFile(j)' = ObjectFile(j)
       /\ \A m : Assembly(m)' = Assembly(m) /\ Object(m)' = Object(m)
  <2>1. N' = N
    BY <1>1, SameJob
  <2>2. Turns(N)' = Turns(N)
    BY <1>1, <2>1 DEF Turns
  <2> QED
    BY <1>1, <2>1, <2>2, SameJob
<1>13. CASE job.command = "object"
  <2>1. phase' = "done" /\ job'.command = "object"
    BY <1>1, <1>13
  <2>2. Compiling' /\ Assembling' /\ Linking' /\ Cleaning'
    BY <2>1 DEF Compiling, Assembling, Linking, Cleaning
  <2>3. BuildComplete' /\ FailureLeaves' /\ OldOutputKept'
    BY <2>1 DEF BuildComplete, FailureLeaves, OldOutputKept
  <2>4. ASSUME NameIsFree, NEW m \in Compiled
        PROVE  /\ disk'[Assembly(m)] = IF job.debug THEN {m} ELSE {}
               /\ disk'[Object(m)] = {m}
    <3>1. PICK j \in Turns(N) : /\ job.table[j] = m
                                /\ Assembly(m) = OutputFile(j) /\ Object(m) = ObjectFile(j)
      BY <1>1, PlaceOf
    <3> QED
      BY <1>11, <2>4, <3>1
  <2>5. NothingLeft'
    <3>1. SUFFICES ASSUME NameIsFree
                   PROVE  /\ \A m \in Compiled : disk'[Assembly(m)] = IF job.debug THEN {m} ELSE {}
                          /\ \A m \in Compiled : disk'[Object(m)] = {m}
                          /\ errors' = 0
      BY <1>1, <1>12, <2>1 DEF NothingLeft
    <3> QED
      BY <1>9, <2>4, <3>1
  <2> QED
    BY <1>10, <2>2, <2>3, <2>5 DEF DriverInv
<1>14. CASE job.command # "object"
  <2>1. phase' = "link" /\ job.command = "build"
    <3>1. job.command \in Commands
      BY <1>1, JobFacts
    <3> QED
      BY <1>1, <1>2, <1>14, <3>1 DEF Whole, MainOnly, Commands
  <2>2. OthersKept'
    <3>1. ASSUME NEW f \in Files, \A j \in Turns(N) : f # OutputFile(j) /\ f # ObjectFile(j)
          PROVE  disk'[f] = Before
      <4>1. \A i \in 1..Len(files) : files[i] # f
        BY <1>3, <3>1
      <4> QED
        BY <1>2, <1>9, <3>1, <4>1 DEF OthersKept
    <3> QED
      BY <1>12, <3>1 DEF OthersKept
  <2>3. MainLost'
    BY <1>2, <1>9, <1>12 DEF MainLost
  <2>4. (NameIsFree => \A j \in Turns(N) :
            /\ disk[OutputFile(j)] = IF job.debug THEN {job.table[j]} ELSE {}
            /\ disk[ObjectFile(j)] = {job.table[j]})'
    BY <1>1, <1>11, <1>12
  <2>5. (job.command = "build" /\ (NameIsFree => errors = 0))'
    BY <1>1, <1>9, <1>12, <2>1
  <2>6. Linking'
    BY <1>5, <2>2, <2>3, <2>4, <2>5 DEF Linking
  <2>7. BuildComplete' /\ NothingLeft' /\ FailureLeaves' /\ OldOutputKept'
    BY <1>1, <2>1, <2>2, Running
  <2>8. Compiling' /\ Assembling' /\ Cleaning'
    BY <2>1 DEF Compiling, Assembling, Cleaning
  <2> QED
    BY <1>10, <2>6, <2>7, <2>8 DEF DriverInv
<1> QED
  BY <1>13, <1>14
\* The objects are those of the modules that are compiled.
LEMMA ObjectsFacts ==
  ASSUME Types, Listed(N), ObjectsOf(Len(files))
  PROVE  /\ Len(objects) \in Nat /\ DOMAIN objects = 1..Len(objects)
         /\ Len(objects) = Cardinality(Compiled)
         /\ \A i \in 1..Len(objects) : \E j \in Turns(N) :
               objects[i] = ObjectFile(j) /\ files[i] = OutputFile(j)
         /\ \A j \in Turns(N) : \E i \in 1..Len(objects) : objects[i] = ObjectFile(j)
<1>1. /\ Len(files) \in Nat /\ Len(files) = Cardinality(Compiled)
      /\ \A i \in 1..Len(files) : \E j \in Turns(N) :
            files[i] = OutputFile(j) /\ WithExtension(files[i], "o") = ObjectFile(j)
      /\ \A j \in Turns(N) : \E i \in 1..Len(files) :
            files[i] = OutputFile(j) /\ WithExtension(files[i], "o") = ObjectFile(j)
  BY ListedFacts
<1>2. /\ Len(objects) = Len(files)
      /\ \A i \in 1..Len(files) : objects[i] = WithExtension(files[i], "o")
  BY DEF ObjectsOf
<1>3. DOMAIN objects = 1..Len(objects)
  <2>1. objects \in Seq(Files)
    BY DEF Types
  <2> QED
    BY <2>1, LenProperties
<1> QED
  BY <1>1, <1>2, <1>3

LEMMA LinkKeeps ==
  ASSUME DriverInv, Link PROVE DriverInv'
<1>1. /\ Types /\ Linking /\ phase = "link" /\ phase' = "clean"
      /\ disk' = [disk EXCEPT ![job.out] = UNION {disk[objects[i]] : i \in DOMAIN objects}]
      /\ job' = job /\ stale' = stale /\ next' = next /\ files' = files /\ objects' = objects
      /\ errors' = errors
  BY DEF DriverInv, Link
<1>2. /\ job.command = "build" /\ (NameIsFree => errors = 0)
      /\ Listed(N) /\ ObjectsOf(Len(files)) /\ MainLost
      /\ NameIsFree => \A j \in Turns(N) :
            /\ disk[OutputFile(j)] = IF job.debug THEN {job.table[j]} ELSE {}
            /\ disk[ObjectFile(j)] = {job.table[j]}
  BY <1>1 DEF Linking
<1>3. /\ DOMAIN objects = 1..Len(objects) /\ Len(objects) = Cardinality(Compiled)
      /\ \A i \in 1..Len(objects) : \E j \in Turns(N) : objects[i] = ObjectFile(j)
      /\ \A j \in Turns(N) : \E i \in 1..Len(objects) : objects[i] = ObjectFile(j)
  BY <1>1, <1>2, ObjectsFacts
<1>4. job.out \in Files /\ Compiled = Reached(N)
  BY <1>1, JobFacts
<1> DEFINE linked == UNION {disk[objects[i]] : i \in DOMAIN objects}
<1>5. \A i \in 1..Len(objects) : objects[i] \in Files
  <2>1. ASSUME NEW i \in 1..Len(objects) PROVE objects[i] \in Files
    <3>1. PICK j \in Turns(N) : objects[i] = ObjectFile(j)
      BY <1>3
    <3> QED
      BY <1>1, <3>1, Names DEF Turns
  <2> QED
    BY <2>1
<1>6. /\ disk \in [Files -> SUBSET (Modules \union {Stale})]
      /\ linked \subseteq Modules \union {Stale}
  <2>1. disk \in [Files -> SUBSET (Modules \union {Stale})]
    BY <1>1 DEF Types
  <2> QED
    BY <1>3, <1>5, <2>1
<1>7. /\ disk' \in [Files -> SUBSET (Modules \union {Stale})]
      /\ disk'[job.out] = linked
      /\ \A f \in Files : f # job.out => disk'[f] = disk[f]
  <2>1. disk' = [disk EXCEPT ![job.out] = linked]
    BY <1>1
  <2> HIDE DEF linked
  <2> QED
    BY <1>4, <1>6, <2>1
<1>8. Types'
  <2>1. Types /\ job' = job /\ stale' = stale /\ files' = files /\ objects' = objects
        /\ errors' = errors /\ phase' = "clean" /\ next' = next
    BY <1>1
  <2> QED
    BY <1>7, <2>1 DEF Types
<1>9. ASSUME NameIsFree PROVE linked = Compiled
  <2>1. \A j \in Turns(N) : disk[ObjectFile(j)] = {job.table[j]}
    BY <1>2, <1>9
  <2>2. ASSUME NEW m \in linked PROVE m \in Compiled
    <3>1. PICK i \in 1..Len(objects) : m \in disk[objects[i]]
      BY <1>3
    <3>2. PICK j \in Turns(N) : objects[i] = ObjectFile(j)
      BY <1>3
    <3> QED
      BY <1>4, <2>1, <3>1, <3>2 DEF Reached
  <2>3. ASSUME NEW m \in Compiled PROVE m \in linked
    <3>1. PICK j \in Turns(N) : m = job.table[j]
      BY <1>4 DEF Reached
    <3>2. PICK i \in 1..Len(objects) : objects[i] = ObjectFile(j)
      BY <1>3
    <3>3. i \in DOMAIN objects
      BY <1>3
    <3>4. m \in disk[objects[i]]
      BY <2>1, <3>1, <3>2
    <3> QED
      BY <3>3, <3>4
  <2> QED
    BY <2>2, <2>3
<1>10. /\ NameIsFree' = NameIsFree /\ Compiled' = Compiled /\ Clashes' = Clashes
       /\ Turns(N)' = Turns(N)
       /\ \A j : OutputFile(j)' = OutputFile(j) /\ ObjectFile(j)' = ObjectFile(j)
  <2>1. N' = N
    BY <1>1, SameJob
  <2>2. Turns(N)' = Turns(N)
    BY <1>1, <2>1 DEF Turns
  <2> QED
    BY <1>1, <2>2, SameJob
<1>11. MainLost'
  <2>1. ASSUME Clashes # {}, NEW f \in Files PROVE Main \notin disk'[f]
    <3>1. \A g \in Files : Main \notin disk[g]
      BY <1>2, <2>1 DEF MainLost
    <3>2. Main \notin linked
      BY <1>3, <1>5, <3>1
    <3> HIDE DEF linked
    <3> QED
      BY <1>7, <3>1, <3>2
  <2> QED
    BY <1>10, <2>1 DEF MainLost
<1>12. ASSUME NameIsFree, NEW j \in Turns(N)
       PROVE  /\ OutputFile(j) # job.out =>
                    disk'[OutputFile(j)] = IF job.debug THEN {job.table[j]} ELSE {}
              /\ disk'[ObjectFile(j)] = {job.table[j]}
  <2>1. /\ OutputFile(j) \in Files /\ ObjectFile(j) \in Files /\ ObjectFile(j) # job.out
    BY <1>1, <1>12, Names, NamesApart DEF Turns
  <2> QED
    BY <1>2, <1>7, <1>12, <2>1
<1>13. Cleaning'
  <2>1. Listed(N)' /\ ObjectsOf(Len(files))'
    BY <1>1, <1>2, SameFiles DEF ObjectsOf, WithExtension
  <2>2. (job.command = "build" /\ (NameIsFree => errors = 0))'
    BY <1>1, <1>2, <1>10
  <2>3. NameIsFree => disk'[job.out] = Compiled
    <3> HIDE DEF linked
    <3> QED
      BY <1>7, <1>9
  <2>4. (NameIsFree => \A j \in Turns(N) :
            /\ OutputFile(j) # job.out =>
                  disk[OutputFile(j)] = IF job.debug THEN {job.table[j]} ELSE {}
            /\ disk[ObjectFile(j)] = {job.table[j]})'
    BY <1>1, <1>10, <1>12
  <2>5. (NameIsFree => disk[job.out] = Compiled)'
    BY <1>1, <1>10, <2>3
  <2> QED
    BY <1>11, <2>1, <2>2, <2>4, <2>5 DEF Cleaning
<1>14. Compiling' /\ Assembling' /\ Linking' /\ BuildComplete' /\ NothingLeft' /\ FailureLeaves'
  BY <1>1 DEF Compiling, Assembling, Linking, BuildComplete, NothingLeft, FailureLeaves
<1>15. OldOutputKept'
  BY <1>1, <1>3, <1>10 DEF OldOutputKept
<1> QED
  BY <1>8, <1>13, <1>14, <1>15 DEF DriverInv

LEMMA LinkFailsKeeps ==
  ASSUME DriverInv, LinkFails PROVE DriverInv'
<1>1. /\ Types /\ Linking /\ phase = "link" /\ phase' = "failed"
      /\ disk' \in {disk, [disk EXCEPT ![job.out] = {}]}
      /\ job' = job /\ stale' = stale /\ next' = next /\ files' = files /\ objects' = objects
      /\ errors' = errors
  BY DEF DriverInv, LinkFails
<1>2. /\ job.command = "build"
      /\ Listed(N) /\ ObjectsOf(Len(files)) /\ OthersKept
      /\ NameIsFree => \A j \in Turns(N) :
            /\ disk[OutputFile(j)] = IF job.debug THEN {job.table[j]} ELSE {}
            /\ disk[ObjectFile(j)] = {job.table[j]}
  BY <1>1 DEF Linking
<1>3. Len(objects) = Cardinality(Compiled)
  BY <1>1, <1>2, ObjectsFacts
<1>4. job.out \in Files /\ Whole
  BY <1>1, <1>2, JobFacts DEF Whole, MainOnly
<1>5. /\ disk' \in [Files -> SUBSET (Modules \union {Stale})]
      /\ \A f \in Files : disk'[f] \in {{}, disk[f]}
      /\ \A f \in Files : f # job.out => disk'[f] = disk[f]
  <2>1. disk \in [Files -> SUBSET (Modules \union {Stale})]
    BY <1>1 DEF Types
  <2> QED
    BY <1>1, <1>4, <2>1
<1>6. Types'
  <2>1. Types /\ job' = job /\ stale' = stale /\ files' = files /\ objects' = objects
        /\ errors' = errors /\ phase' = "failed" /\ next' = next
    BY <1>1
  <2> QED
    BY <1>5, <2>1 DEF Types
<1>7. /\ Compiled' = Compiled /\ NameIsFree' = NameIsFree
      /\ \A m : Assembly(m)' = Assembly(m) /\ Object(m)' = Object(m)
  BY <1>1, SameJob
<1>8. ASSUME NameIsFree, NEW m \in Compiled
      PROVE  /\ disk'[Assembly(m)] \in IF job.debug THEN {{}, {m}} ELSE {{}}
             /\ disk'[Object(m)] = {m}
  <2>1. PICK j \in Turns(N) : /\ job.table[j] = m
                              /\ Assembly(m) = OutputFile(j) /\ Object(m) = ObjectFile(j)
    BY <1>1, PlaceOf
  <2>2. /\ OutputFile(j) \in Files /\ ObjectFile(j) \in Files /\ ObjectFile(j) # job.out
    BY <1>1, <1>8, Names, NamesApart DEF Turns
  <2>3. /\ disk[OutputFile(j)] = IF job.debug THEN {m} ELSE {}
        /\ disk[ObjectFile(j)] = {m}
    BY <1>2, <1>8, <2>1
  <2> QED
    BY <1>5, <2>1, <2>2, <2>3
<1>9. ASSUME NameIsFree, job.out[2] # "asm" PROVE disk'[job.out] \in {{}, Before}
  <2>1. \A j \in Turns(N) : job.out # OutputFile(j) /\ job.out # ObjectFile(j)
    BY <1>1, <1>4, <1>9, OutIsOther
  <2> QED
    BY <1>2, <1>4, <1>5, <2>1 DEF OthersKept
<1>10. FailureLeaves'
  <2> SUFFICES ASSUME NameIsFree, ~stale
               PROVE  /\ \A m \in Compiled : /\ disk'[Assembly(m)] \in {{}, {m}}
                                             /\ disk'[Assembly(m)] # {} => job.debug
                                             /\ disk'[Object(m)] = {m}
                      /\ job.out[2] # "asm" => disk'[job.out] = {}
    BY <1>1, <1>7 DEF FailureLeaves, Present
  <2> QED
    BY <1>8, <1>9 DEF Before
<1>11. OldOutputKept'
  BY <1>1, <1>3, <1>7 DEF OldOutputKept
<1>12. Compiling' /\ Assembling' /\ Linking' /\ Cleaning' /\ BuildComplete' /\ NothingLeft'
  BY <1>1 DEF Compiling, Assembling, Linking, Cleaning, BuildComplete, NothingLeft
<1> QED
  BY <1>6, <1>10, <1>11, <1>12 DEF DriverInv
\* If the name given with -o is not free the executable does not hold all modules:
\* either the main module was overwritten, or the executable is one of the objects.
LEMMA NameIsTaken ==
  ASSUME Types, Listed(N), ObjectsOf(Len(files)), MainLost, job.command = "build", ~NameIsFree
  PROVE  Without(objects)[job.out] # Compiled
<1>1. /\ job.named /\ job.out \in Files /\ Main \in Compiled /\ Compiled = Reached(N)
      /\ job.table[1] = Main /\ 1 \in Turns(N)
      /\ (job.out[1] \in Compiled \ {Main} \/ job.out[2] = "o")
  BY JobFacts DEF NameIsFree
<1>2. Without(objects)[job.out] =
         IF \E i \in 1..Len(objects) : objects[i] = job.out THEN {} ELSE disk[job.out]
  <2>1. objects \in Seq(Files)
    BY DEF Types
  <2> QED
    BY <1>1, <2>1, Removed
<1>3. /\ OutputFile(1) = <<job.out[1], "asm">>
      /\ \A c \in Turns(N) : c # 1 => OutputFile(c) = <<job.table[c], "asm">>
  BY <1>1 DEF OutputFile, WithExtension
<1>4. CASE job.out[1] \in Compiled \ {Main}
  <2>1. PICK c \in Turns(N) : job.table[c] = job.out[1] /\ c # 1
    BY <1>1, <1>4 DEF Reached
  <2>2. c \in Clashes
    BY <1>3, <2>1 DEF Clashes
  <2>3. Main \notin disk[job.out]
    BY <1>1, <2>2 DEF MainLost
  <2> QED
    BY <1>1, <1>2, <2>3
<1>5. CASE job.out[2] = "o"
  <2>1. PICK i \in 1..Len(objects) : objects[i] = ObjectFile(1)
    BY <1>1, ObjectsFacts
  <2>2. ObjectFile(1) = <<OutputFile(1)[1], "o">>
    BY <1>1, Names DEF Turns
  <2>3. OutputFile(1)[1] = job.out[1]
    BY <1>3
  <2>4. job.out = <<job.out[1], job.out[2]>>
    BY <1>1 DEF Files
  <2>5. objects[i] = job.out
    BY <1>5, <2>1, <2>2, <2>3, <2>4
  <2> QED
    BY <1>1, <1>2, <2>5
<1> QED
  BY <1>1, <1>4, <1>5

LEMMA RemoveObjectsKeeps ==
  ASSUME DriverInv, RemoveObjects PROVE DriverInv'
<1>1. /\ Types /\ Cleaning /\ phase = "clean" /\ phase' = "done" /\ disk' = Without(objects)
      /\ errors' = errors + FailedRemovals(objects)
      /\ job' = job /\ stale' = stale /\ next' = next /\ files' = files /\ objects' = objects
  BY DEF DriverInv, RemoveObjects
<1>2. /\ job.command = "build" /\ (NameIsFree => errors = 0)
      /\ Listed(N) /\ ObjectsOf(Len(files)) /\ MainLost
      /\ NameIsFree =>
            /\ disk[job.out] = Compiled
            /\ \A j \in Turns(N) :
                  /\ OutputFile(j) # job.out =>
                        disk[OutputFile(j)] = IF job.debug THEN {job.table[j]} ELSE {}
                  /\ disk[ObjectFile(j)] = {job.table[j]}
  BY <1>1 DEF Cleaning
<1>3. /\ Len(objects) = Cardinality(Compiled)
      /\ \A i \in 1..Len(objects) : \E j \in Turns(N) :
            objects[i] = ObjectFile(j) /\ files[i] = OutputFile(j)
      /\ \A j \in Turns(N) : \E i \in 1..Len(objects) : objects[i] = ObjectFile(j)
      /\ Len(objects) = Len(files)
      /\ NameIsFree => \A h, i \in 1..Len(files) : files[h] = files[i] => h = i
  <2>1. Len(objects) = Len(files)
    BY <1>2 DEF ObjectsOf
  <2> QED
    BY <1>1, <1>2, <2>1, ObjectsFacts, ListedFacts
<1>4. job.out \in Files /\ errors \in Nat
  BY <1>1, JobFacts DEF Types
<1>5. /\ Without(objects) \in [Files -> SUBSET (Modules \union {Stale})]
      /\ \A f \in Files : Without(objects)[f] =
            IF \E i \in 1..Len(objects) : objects[i] = f THEN {} ELSE disk[f]
      /\ FailedRemovals(objects) \in Nat
      /\ (/\ \A i \in 1..Len(objects) : disk[objects[i]] # {}
          /\ \A h, i \in 1..Len(objects) : objects[h] = objects[i] => h = i)
                => FailedRemovals(objects) = 0
  <2>1. objects \in Seq(Files)
    BY <1>1 DEF Types
  <2> QED
    BY <1>1, <2>1, Removed
<1>6. Types'
  <2>1. Types /\ job' = job /\ stale' = stale /\ files' = files /\ objects' = objects
        /\ phase' = "done" /\ next' = next /\ disk' = Without(objects)
    BY <1>1
  <2>2. errors' \in Nat
    BY <1>1, <1>4, <1>5
  <2> QED
    BY <1>5, <2>1, <2>2 DEF Types
<1>7. ASSUME NameIsFree PROVE FailedRemovals(objects) = 0
  <2>1. ASSUME NEW i \in 1..Len(objects) PROVE disk[objects[i]] # {}
    <3>1. PICK j \in Turns(N) : objects[i] = ObjectFile(j)
      BY <1>3
    <3> QED
      BY <1>2, <1>7, <3>1
  <2>2. ASSUME NEW h \in 1..Len(objects), NEW i \in 1..Len(objects), objects[h] = objects[i]
        PROVE  h = i
    <3>1. PICK j \in Turns(N) : objects[h] = ObjectFile(j) /\ files[h] = OutputFile(j)
      BY <1>3
    <3>2. PICK k \in Turns(N) : objects[i] = ObjectFile(k) /\ files[i] = OutputFile(k)
      BY <1>3
    <3>3. j = k
      BY <1>1, <1>7, <2>2, <3>1, <3>2, NamesApart
    <3> QED
      BY <1>3, <1>7, <3>1, <3>2, <3>3
  <2> QED
    BY <1>5, <2>1, <2>2
<1>8. /\ Compiled' = Compiled /\ NameIsFree' = NameIsFree
      /\ \A m : Assembly(m)' = Assembly(m) /\ Object(m)' = Object(m)
  BY <1>1, SameJob
<1>9. BuildComplete'
  <2>1. ASSUME NameIsFree PROVE disk'[job.out] = Compiled
    <3>1. ASSUME NEW i \in 1..Len(objects) PROVE objects[i] # job.out
      <4>1. PICK j \in Turns(N) : objects[i] = ObjectFile(j)
        BY <1>3
      <4> QED
        BY <1>1, <2>1, <4>1, NamesApart
    <3> QED
      BY <1>1, <1>2, <1>4, <1>5, <2>1, <3>1
  <2>2. ASSUME ~NameIsFree PROVE disk'[job.out] # Compiled
    BY <1>1, <1>2, <2>2, NameIsTaken
  <2> QED
    BY <1>1, <1>8, <2>1, <2>2 DEF BuildComplete
<1>10. ASSUME NameIsFree, NEW m \in Compiled
       PROVE  /\ \/ disk'[Assembly(m)] = IF job.debug THEN {m} ELSE {}
                 \/ Assembly(m) = job.out
              /\ disk'[Object(m)] = {}
  <2>1. PICK j \in Turns(N) : /\ job.table[j] = m
                              /\ Assembly(m) = OutputFile(j) /\ Object(m) = ObjectFile(j)
    BY <1>1, PlaceOf
  <2>2. /\ OutputFile(j) \in Files /\ ObjectFile(j) \in Files
        /\ \A k \in Turns(N) : OutputFile(j) # ObjectFile(k)
    BY <1>1, <1>10, Names, NamesApart DEF Turns
  <2>3. disk'[ObjectFile(j)] = {}
    BY <1>1, <1>3, <1>5, <2>2
  <2>4. \A i \in 1..Len(objects) : objects[i] # OutputFile(j)
    BY <1>3, <2>2
  <2>5. disk'[OutputFile(j)] = disk[OutputFile(j)]
    BY <1>1, <1>5, <2>2, <2>4
  <2> QED
    BY <1>2, <1>10, <2>1, <2>3, <2>5
<1>11. NothingLeft'
  <2>1. SUFFICES ASSUME NameIsFree
                 PROVE  /\ \A m \in Compiled : \/ disk'[Assembly(m)] = IF job.debug THEN {m} ELSE {}
                                               \/ Assembly(m) = job.out
                        /\ \A m \in Compiled : disk'[Object(m)] = {}
                        /\ errors' = 0
    BY <1>1, <1>2, <1>8 DEF NothingLeft
  <2>2. errors' = 0
    BY <1>1, <1>2, <1>7, <2>1
  <2> QED
    BY <1>10, <2>1, <2>2
<1>12. OldOutputKept'
  BY <1>1, <1>3, <1>8 DEF OldOutputKept
<1>13. Compiling' /\ Assembling' /\ Linking' /\ Cleaning' /\ FailureLeaves'
  BY <1>1 DEF Compiling, Assembling, Linking, Cleaning, FailureLeaves
<1> QED
  BY <1>6, <1>9, <1>11, <1>12, <1>13 DEF DriverInv

LEMMA StutterKeeps ==
  ASSUME DriverInv, UNCHANGED vars PROVE DriverInv'
<1>1. /\ job' = job /\ disk' = disk /\ stale' = stale /\ phase' = phase /\ next' = next
      /\ files' = files /\ objects' = objects /\ errors' = errors
  BY DEF vars
<1>2. /\ N' = N /\ Whole' = Whole /\ NameIsFree' = NameIsFree /\ Before' = Before
      /\ Compiled' = Compiled /\ Clashes' = Clashes
      /\ \A k : Turns(k)' = Turns(k) /\ Reached(k)' = Reached(k)
      /\ \A j : OutputFile(j)' = OutputFile(j) /\ ObjectFile(j)' = ObjectFile(j)
      /\ \A m : Assembly(m)' = Assembly(m) /\ Object(m)' = Object(m)
  BY <1>1, SameJob
<1>3. Types' <=> Types
  BY <1>1 DEF Types
<1>4. /\ \A k : Listed(k)' <=> Listed(k)
      /\ \A k : ObjectsOf(k)' <=> ObjectsOf(k)
  <2>1. \A k : Listed(k)' <=> Listed(k)
    BY <1>1, <1>2 DEF Listed
  <2> QED
    BY <1>1, <2>1 DEF ObjectsOf, WithExtension
<1>5. Turns(N)' = Turns(N) /\ Turns(next - 1)' = Turns(next - 1)
  BY <1>1, <1>2 DEF Turns
<1>6. (OthersKept' <=> OthersKept) /\ (MainLost' <=> MainLost)
  BY <1>1, <1>2, <1>5 DEF OthersKept, MainLost
<1>7. /\ Listed(N)' <=> Listed(N)
      /\ Listed(next - 1)' <=> Listed(next - 1)
      /\ ObjectsOf(next - 1)' <=> ObjectsOf(next - 1)
      /\ ObjectsOf(Len(files))' <=> ObjectsOf(Len(files))
  <2>1. Reached(N)' = Reached(N) /\ Reached(next - 1)' = Reached(next - 1)
    BY <1>5, <1>1 DEF Reached
  <2> QED
    BY <1>1, <1>2, <1>5, <2>1 DEF Listed, ObjectsOf, WithExtension
<1>8. Compiling' /\ Assembling'
  BY <1>1, <1>2, <1>5, <1>6, <1>7 DEF DriverInv, Compiling, Assembling
<1>9. Linking' /\ Cleaning'
  BY <1>1, <1>2, <1>5, <1>6, <1>7 DEF DriverInv, Linking, Cleaning
<1>10. BuildComplete' /\ NothingLeft'
  BY <1>1, <1>2 DEF DriverInv, BuildComplete, NothingLeft
<1>11. FailureLeaves' /\ OldOutputKept'
  BY <1>1, <1>2 DEF DriverInv, FailureLeaves, OldOutputKept, Present
<1> QED
  BY <1>3, <1>8, <1>9, <1>10, <1>11 DEF DriverInv

-----------------------------------------------------------------------------
\* The invariant holds: what has been compiled is in its file, what has been assembled
\* in its object, and nothing else has been touched.
THEOREM DriverInvariant == Spec => []DriverInv
<1>1. Init => DriverInv
  BY DriverInit
<1>2. DriverInv /\ [Next]_vars => DriverInv'
  BY CompileModuleKeeps, SkipModuleKeeps, CompileFailsKeeps, MissingEntrypointKeeps,
     AssembleKeeps, AssembleFailsKeeps, RemoveAssemblyKeeps, LinkKeeps, LinkFailsKeeps,
     RemoveObjectsKeeps, StutterKeeps DEF Next
<1> QED
  BY <1>1, <1>2, PTL DEF Spec

\* A successful build makes an executable with the code of every module that is compiled
\* exactly if its name is free, whatever the program and the command line.
THEOREM DriverBuildComplete == Spec => []BuildComplete
<1>1. DriverInv => BuildComplete
  BY DEF DriverInv
<1> QED
  BY <1>1, DriverInvariant, PTL

\* After success what was made on the way is gone, what was asked for is there, and
\* no removal has failed.
THEOREM DriverNothingLeft == Spec => []NothingLeft
<1>1. DriverInv => NothingLeft
  BY DEF DriverInv
<1> QED
  BY <1>1, DriverInvariant, PTL

\* What a failure leaves behind, at whatever module or file it comes.
THEOREM DriverFailureLeaves == Spec => []FailureLeaves
<1>1. DriverInv => FailureLeaves
  BY DEF DriverInv
<1> QED
  BY <1>1, DriverInvariant, PTL

\* Only the linker replaces an executable of an earlier run.
THEOREM DriverOldOutputKept == Spec => []OldOutputKept
<1>1. DriverInv => OldOutputKept
  BY DEF DriverInv
<1> QED
  BY <1>1, DriverInvariant, PTL
=============================================================================
