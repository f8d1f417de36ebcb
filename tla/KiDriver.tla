------------------------------- MODULE KiDriver -------------------------------
(***************************************************************************)
(* The driver (compile of compiler.c): it writes a file for each module,   *)
(* runs the assembler on each, then the linker, and removes what it made   *)
(* on the way.  Each of these may fail.                                    *)
(*                                                                         *)
(* A file is a pair of a stem and an extension.  What is in it is the set  *)
(* of the modules whose code it holds; Stale is what an earlier run left.  *)
(* The assembler and the linker are external: a run of theirs that fails   *)
(* leaves its output file as it was or removes it.                         *)
(***************************************************************************)
EXTENDS Integers, Sequences, FiniteSets

CONSTANTS
    Modules,    \* names of modules, which are the stems of their files
    Main,       \* the module to compile
    Default,    \* the stem of the default output file, a.out
    Stale       \* the content of a file that an earlier run left

ASSUME DriverAssumption ==
    /\ IsFiniteSet(Modules) /\ Main \in Modules
    /\ Default \notin Modules /\ Stale \notin Modules

VARIABLES
    job,        \* the command line and the module table
    disk,       \* what is in each file; nothing: there is no such file
    stale,      \* the working directory had all the files before
    phase,      \* what the driver is doing
    next,       \* the module, or the file, that is next
    files,      \* output_files: what compile_modules wrote, in order
    objects,    \* object_files
    errors      \* removals that failed

vars == <<job, disk, stale, phase, next, files, objects, errors>>

Commands == {"build", "object", "source", "ir", "document"}
\* What follows the last dot of the whole path, which may be in a directory:
\* a.d/prog has the stem a.
Extensions == {"", "asm", "o", "kir", "md", "d/prog"}
Files == (Modules \union {Default}) \X Extensions

\* Commands that compile the main module only.
MainOnly == {"source", "ir", "document"}

\* The orders in which the modules of a program may have been parsed.
Tables == {t \in UNION {[1..n -> Modules] : n \in 1..Cardinality(Modules)} :
              t[1] = Main /\ \A j, k \in DOMAIN t : t[j] = t[k] => j = k}

Jobs == [command : Commands, debug : BOOLEAN, named : BOOLEAN, out : Files,
         table : Tables, builtin : SUBSET (Modules \ {Main})]

-----------------------------------------------------------------------------
Present(f) == disk[f] # {}

\* change_file_extension: a file of the same stem.
WithExtension(f, e) == <<f[1], e>>

\* The modules that are compiled here; those of the library are linked from it.
Compiled == {job.table[k] : k \in DOMAIN job.table} \ job.builtin

\* The output of the main module takes its name from the one of the executable.
OutputFile(k) ==
    LET e == CASE job.command = "ir" -> "kir" [] job.command = "document" -> "md" [] OTHER -> "asm"
    IN  IF k = 1 /\ job.named /\ job.command # "document"
        THEN WithExtension(job.out, e) ELSE <<job.table[k], e>>

\* What is in the files after remove_files, and how many removals fail.
Without(fs) == [f \in Files |-> IF \E i \in DOMAIN fs : fs[i] = f THEN {} ELSE disk[f]]
FailedRemovals(fs) ==
    Cardinality({i \in DOMAIN fs : ~Present(fs[i]) \/ \E j \in 1..(i - 1) : fs[j] = fs[i]})

Init ==
    /\ job \in Jobs
    /\ ~job.named => job.out = <<Default, "">>
    /\ job.command \in {"source", "ir"} => ~job.debug
    /\ \A m \in job.builtin : \E k \in DOMAIN job.table : job.table[k] = m
    /\ stale \in BOOLEAN
    /\ disk = [f \in Files |-> IF stale THEN {Stale} ELSE {}]
    /\ phase = "compile" /\ next = 1
    /\ files = <<>> /\ objects = <<>> /\ errors = 0

-----------------------------------------------------------------------------
\* The output of one module, and what follows it.
Written(k) == [disk EXCEPT ![OutputFile(k)] = {job.table[k]}]

AfterModule ==
    IF job.command \in MainOnly THEN phase' = "done" /\ UNCHANGED next
    ELSE IF next = Len(job.table) THEN phase' = "assemble" /\ next' = 1
    ELSE next' = next + 1 /\ UNCHANGED phase

\* compile_modules leaves out what is in the library.
SkipModule ==
    /\ phase = "compile" /\ job.table[next] \in job.builtin
    /\ AfterModule
    /\ UNCHANGED <<job, disk, stale, files, objects, errors>>

\* A plausible mistake: what was written replaces the first of the list.
CompileModuleFirst ==
    /\ phase = "compile" /\ job.table[next] \notin job.builtin
    /\ disk' = Written(next)
    /\ files' = <<OutputFile(next)>> \o SubSeq(files, 2, Len(files))
    /\ AfterModule
    /\ UNCHANGED <<job, stale, objects, errors>>

\* compile_from_resolved_root, for the main module and for each other one.
CompileModule ==
    /\ phase = "compile" /\ job.table[next] \notin job.builtin
    /\ disk' = Written(next)
    /\ files' = Append(files, OutputFile(next))
    /\ AfterModule
    /\ UNCHANGED <<job, stale, objects, errors>>

\* The code has errors or the file cannot be written: the files before it stay.
CompileFails ==
    /\ phase = "compile" /\ job.table[next] \notin job.builtin
    /\ phase' = "failed"
    /\ UNCHANGED <<job, disk, stale, next, files, objects, errors>>

\* The main module has no entrypoint function: its file is written all the same.
MissingEntrypoint ==
    /\ phase = "compile" /\ next = 1 /\ job.command = "build"
    /\ disk' = Written(next)
    /\ phase' = "failed"
    /\ UNCHANGED <<job, stale, next, files, objects, errors>>

\* assemble_file.
Assemble ==
    /\ phase = "assemble" /\ next <= Len(files) /\ Present(files[next])
    /\ disk' = [disk EXCEPT ![WithExtension(files[next], "o")] = disk[files[next]]]
    /\ objects' = Append(objects, WithExtension(files[next], "o"))
    /\ next' = next + 1
    /\ UNCHANGED <<job, stale, phase, files, errors>>

\* A plausible mistake: only what the assembler has seen is removed.
AssembleFailsKeepsOne ==
    /\ phase = "assemble" /\ next <= Len(files)
    /\ LET left == Without(SubSeq(files, 1, next))
       IN  disk' \in {left, [left EXCEPT ![WithExtension(files[next], "o")] = {}]}
    /\ errors' = errors + FailedRemovals(files)
    /\ phase' = "failed"
    /\ UNCHANGED <<job, stale, next, files, objects>>

\* The assembler fails: all assembly files go, also with -g, the objects stay.
AssembleFails ==
    /\ phase = "assemble" /\ next <= Len(files)
    /\ LET left == Without(files)
       IN  disk' \in {left, [left EXCEPT ![WithExtension(files[next], "o")] = {}]}
    /\ errors' = errors + FailedRemovals(files)
    /\ phase' = "failed"
    /\ UNCHANGED <<job, stale, next, files, objects>>

\* A plausible mistake: the assembly files are removed with -g too.
RemoveAssemblyAlways ==
    /\ phase = "assemble" /\ next > Len(files)
    /\ disk' = Without(files) /\ errors' = errors + FailedRemovals(files)
    /\ phase' = IF job.command = "object" THEN "done" ELSE "link"
    /\ UNCHANGED <<job, stale, next, files, objects>>

\* The end of assemble_files.
RemoveAssembly ==
    /\ phase = "assemble" /\ next > Len(files)
    /\ IF job.debug THEN UNCHANGED <<disk, errors>>
       ELSE disk' = Without(files) /\ errors' = errors + FailedRemovals(files)
    /\ phase' = IF job.command = "object" THEN "done" ELSE "link"
    /\ UNCHANGED <<job, stale, next, files, objects>>

\* link_files.  An object that is given twice defines its functions twice: whether
\* that is an error depends on what it exports.
Link ==
    /\ phase = "link" /\ \A i \in DOMAIN objects : Present(objects[i])
    /\ disk' = [disk EXCEPT ![job.out] = UNION {disk[objects[i]] : i \in DOMAIN objects}]
    /\ phase' = "clean"
    /\ UNCHANGED <<job, stale, next, files, objects, errors>>

\* The linker fails: the objects stay.
LinkFails ==
    /\ phase = "link"
    /\ disk' \in {disk, [disk EXCEPT ![job.out] = {}]}
    /\ phase' = "failed"
    /\ UNCHANGED <<job, stale, next, files, objects, errors>>

\* The end of compile.
RemoveObjects ==
    /\ phase = "clean"
    /\ disk' = Without(objects) /\ errors' = errors + FailedRemovals(objects)
    /\ phase' = "done"
    /\ UNCHANGED <<job, stale, next, files, objects>>

Next ==
    \/ SkipModule \/ CompileModule \/ CompileFails \/ MissingEntrypoint
    \/ Assemble \/ AssembleFails \/ RemoveAssembly
    \/ Link \/ LinkFails \/ RemoveObjects

Spec == Init /\ [][Next]_vars

-----------------------------------------------------------------------------
(***************************************************************************)
(* Properties.                                                             *)
(***************************************************************************)

\* The name given with -o is not that of another module that is compiled, and does
\* not end like an object file.
NameIsFree ==
    job.named => job.out[1] \notin Compiled \ {Main} /\ job.out[2] # "o"

Assembly(m) == OutputFile(CHOOSE k \in DOMAIN job.table : job.table[k] = m)
Object(m) == WithExtension(Assembly(m), "o")

\* A successful build makes an executable with the code of every module that is
\* compiled, and of no other, exactly if its name is free; else the code of the main
\* module is lost, or the executable is removed as an object file.
BuildComplete ==
    phase = "done" /\ job.command = "build" => (disk[job.out] = Compiled <=> NameIsFree)

\* After a successful build or object command the assembly files are there if
\* debugging information was asked for, the objects if they were, and nothing that
\* was to be removed was missing.
NothingLeft ==
    NameIsFree /\ phase = "done" /\ job.command \notin MainOnly =>
        /\ \A m \in Compiled : \/ disk[Assembly(m)] = IF job.debug THEN {m} ELSE {}
                               \/ Assembly(m) = job.out
        /\ \A m \in Compiled : disk[Object(m)] = IF job.command = "object" THEN {m} ELSE {}
        /\ errors = 0

\* What a failure leaves behind: the assembly files written before the module that
\* did not compile, or the objects made before the file that was not assembled; both
\* only if linking fails after a build with debugging information.
FailureLeaves ==
    NameIsFree /\ phase = "failed" /\ ~stale =>
        LET asm == {m \in Compiled : Present(Assembly(m))}
            obj == {m \in Compiled : Present(Object(m))}
        IN  /\ \A m \in asm : disk[Assembly(m)] = {m}
            /\ \A m \in obj : disk[Object(m)] = {m}
            /\ asm # {} /\ obj # {} => job.debug /\ obj = Compiled
            /\ job.out[2] # "asm" => ~Present(job.out)

\* An executable of an earlier run is there until all modules are compiled and
\* assembled: only the linker replaces it.
OldOutputKept ==
    NameIsFree /\ stale /\ job.command = "build" /\ job.out[2] # "asm" =>
        \/ disk[job.out] = {Stale}
        \/ phase \in {"clean", "done", "failed"} /\ Len(objects) = Cardinality(Compiled)
=============================================================================
