# Verification of the Ki compiler and its library

TLA+ models of `src/` (the Ki compiler, written in C, and the Ki standard
library, written in Ki), the TLC runs that check them and the TLAPS proofs about
them. Paths below are relative to `src/`; `PROJECT.json` maps every definition
to the lines it stands for.

## The system

A Ki program is compiled in one pass through

    main.c > compiler.c > frontend (lexer, parser, resolver)
           > ir (hir, lir, optimizer) > backend (linux_x86_64) > nasm > ld

and linked against the standard library `lib/basic.ki`, `lib/system.ki`, which is
compiled with it. The compiler is one sequential process: there are no threads,
no callbacks and no network. What is hard about it is elsewhere:

* it keeps a *static* idea of *dynamic* state (how far `rsp` is below `rbp`, which
  registers hold which argument), which has to be right along every path of the
  compiled program, though the code is generated in the order of the text;
* tables are filled while modules import each other in any order, cycles included;
* the library manages memory with a free list of its own, under any sequence of
  calls of the program;
* release builds are `-O3 -DNDEBUG` (`Makefile`): an `assert` guards nothing.

| component | state | operations | correct when |
|---|---|---|---|
| library heap (`lib/basic.ki` 838-975) | `_ki_heap`, `_ki_heap_free_list`, `_ki_heap_ptr` | `alloc`, `free`, `realloc` | every block is a private array of bytes |
| stack frames (`backend_utilities.c`, `backend.c`, `lir.c`) | `stack_reserved`, `stack_used`, the stack cache, the locals | local variables, push and pop, blocks, loops, jumps, return | the backend's idea of `rsp` holds along every path |
| calling convention (`lir.c` 185-282, `backend.c`) | what is pushed, which register is loaded | complex arguments, simple arguments, call, release | every parameter has its argument's value; the stack is given back |
| modules (`resolver.c` 965-1230, `context.c`) | module table, symbol table, what each module imports and exports | `import`, `export`, lookup of a name | each module is read once, imports end, a name resolves to what is visible |
| driver (`compiler.c`) | `.asm` and `.o` files in the working directory | compile, assemble, link, clean up | what is left behind is what was asked for |
| lexer (`lexer.c`) | the place in the text | the next token | |
| parser (`parser.c`) | the token, flags that say where it is, the function and block it is in | a statement, a value, a type | every text is read as it is meant or refused, and reading ends |
| scopes (`parser.c`, `context.c`) | unique ids, the stack of scopes | entering, leaving, lookup | a name means what is declared in its function |
| type resolution (`resolver.c`, `ast.c`) | symbols, types, constants, the tree it rewrites | statements, values, types, decorators | what it accepts has a meaning throughout; it survives what it refuses |
| HIR lowering (`hir.c`) | the tree | statements, values | the tree of the IR means the tree of the source |
| LIR lowering (`lir.c`) | the code emitted, labels, targets of `break` and `continue`, the flag `IR_NO_DEREFERENCE` | values, conditions, indexes, assignments, blocks and loops | the code computes what the body means |
| LIR optimizer (`optimizer.c`) | the list of instructions | peephole rewrites | the meaning of the code is kept |
| instruction selection (`backend.c`) | | an instruction | it does what the IR says |
| library strings (`lib/basic.ki` 125-560) | pointer, length, capacity | append, insert, find, replace | no write outside the buffer; the text is what the description says |
| library numbers, files, input (`lib/basic.ki`, `lib/system.ki`) | | conversions, formatted output, a line of input | the text and the number are the same |
| logger, documentor, lists and string builder | | | |

Components meet as follows. The resolver parses a module at the first import of
it and registers its symbols in the context before any other statement of the
importer is resolved. HIR walks each module's tree again. `lir.c` pushes
`START_BLOCK`, `END_BLOCK`, `PUSH`, `POP`, `STORE` and jumps; the backend keeps the
stack's state while it prints them: KiFrame is the composition of the two. A call
leaves the frame as it found it if the number of pushed arguments is what
`emit_call` counts: that is a property of KiCall, and KiFrame leaves calls out. The
strings of the library keep their bytes in heap blocks, grown by `realloc`: a string that is
built piece by piece is the topmost block of a stack, the discipline of KiHeapStack. The parser
gives each node its function and the number of its block, and registers functions, variables and
types in the context; the resolver walks the finished tree and enters the same blocks again by these
numbers.

## The modules

### KiStore, KiHeap, KiHeapStack, KiHeapGap: the library heap

`KiStore` is the abstract specification: each handle (the variable in which the
program keeps a pointer) has a private array; only its owner changes it.

`KiHeap` is the code. `free_list` is `_ki_heap_free_list`, one word per byte: 0 or
the size of the block that the byte belongs to. `heap_ptr` is `_ki_heap_ptr`, where
an allocation goes when no gap before it is large enough. `Gaps` is
`find_empty_space_before_heap_pointer`, `Stamp` is `set_heap_free_list_sizes`,
`CopyBytes` is `copy_bytes` with its upward loop (overlapping ranges read what was
just written). `Alloc`, `Free` and `Realloc` are the functions of the same name.
Accesses past the free list or the heap set `overrun`, after which nothing is
claimed of the bytes: the code has no check there. When that happens is a question of its own, and
`OverrunWhenFull` answers it for `KiHeapStack`: exactly when the blocks held, what the topmost one has outgrown
and the new block do not fit together (`Taken`), however many blocks were allocated and freed before. It is not a matter
of course, as the heap pointer is never lowered and only the search for a gap finds freed bytes again. For
`KiHeapGap` nothing is said of it: there the heap can be fragmented. `block` is what the program knows, its
pointers and the sizes it asked for.

The allocator does *not* keep its promise for every program: `alloc` sets the heap
pointer to the end of the block it has just placed, also when it filled a gap, and
the next allocation then lands on a block that is held (`alloc(1)`, `alloc(1)`, free the
first, allocate into its gap, allocate 2). Two modules say under which conditions it does:

* `KiHeapGap`: any program, up to the first allocation placed below the end of a
  held block. Until then everything holds, so filling a gap is the only cause.
* `KiHeapStack`: a program that holds blocks as a stack and grows only the topmost
  one, past the sum of the places it was moved out of, with nothing allocated above
  a grown block. Building a string is such a program. For it the promise holds for ever,
  gaps or not. `outgrown` is a history variable: the bytes the topmost block was moved
  out of.

### KiFrame: the stack frame

An action is a statement of the source. `hir_to_lir` pushes the instructions of a
statement in order and the backend emits them in order, so the walk over the text is one
behaviour and every function body is one such behaviour. `stack_reserved`,
`stack_used`, `blocks` (the stack cache) and `locals` are the backend's `State`.
`depths` is the truth: the set of distances from `rbp` to `rsp` with which execution
can arrive at the place of the text reached so far (empty after a jump). Jumps add
`depths` to the label's record in the open block (`next`, `done`, `head`), and the label adds
it back. A jump out of nested blocks is taken only if those inside have reserved nothing:
`break` and `continue` release the innermost block alone (`lir.c:931`), so that after a `break` inside
an `if` inside a `for` whose body declares a local `rsp` is lower than the backend believes.
`drift` collects what one iteration of a loop does to `rsp`, `pops` where
`rsp` is when a `return` without `leave` pops the frame pointer.

The end of a block gives the bytes of its locals back and keeps the locals: `pop_stack_cache` restores two numbers,
`locals` is emptied at the end of the function, and a name means its variable until then (`is_in_scope` compares functions).
So a variable of a closed block stays in `locals`, with the number of locals there were when its block was closed (`until`), and
`OpenForOver` is a loop over any variable that exists. `LocalsSafe` says which variables share bytes: only two of which the one was
declared after the block of the other was closed. A program that uses each variable in its block finds there what it wrote. One
that goes on with a variable after its block need not, and the compiler accepts it: `for i: u64 = 0..n {} y: u64 = 7; for i = 0..n {}`
counts in `y`. (`tests/21_argv.ki` goes on with the iterator of a loop, but declares nothing in between.) Without the
last disjunct of `LocalsSafe` TLC finds this program; the assembly that the compiler writes for it has both variables at `[rbp-24]`.

### KiCall: the calling convention

One call, from `push_call` to the release by `emit_call`. Each argument has a class
(integer or float, in 8 bytes) and is simple or complex; the value of an argument is its index.
The loops of `handle_complex_call_arguments` and `push_call` are actions, one per
iteration, because their order is what matters. Evaluating a complex argument clobbers all argument
registers. A simple one is harmless only if it needs one instruction: `is_complex_expression` is false for unaries, whose operand may be
a sum (computed in `rax` and `rcx`, the fourth argument register; a division uses `rdx`, the third) or a call, and for
string literals, which are a call of `copy_string` when they are loaded (with `-unopt`; the optimizer stores the constant
itself). So each argument says which registers its evaluation overwrites (`clobbers`), and `AfterValue` is what is in them then:
none, some of `MathRegisters`, or all.
`Garbage` is a value nobody knows: what was there is overwritten, or a value was moved to a register of the other class and converted.
That a register is not overwritten with the right value by luck is taken for granted. A call inside an argument is taken to release what it
has pushed.
The callee reads a pushed parameter at `[rbp + (index - 6 + 2) * 8]` (`Slot`).

`ArriveWhenSound` is exact: every argument arrives *if and only if* the call is
`Sound`, the conjunction of four conditions on the argument list. So the module says
which calls the compiler compiles right, and that no other does: `f(int simple, float complex)`
pops the float into a general register, because `lir.c:224` reads the type of `parameters->items[i]`
with the index of the wrong list; and in `g(-(x + 1), 2, 3, 4)` the 1 is loaded into `rcx`, where the 4 already is
(`NoneClobbered`), though `lir.c:251` says that the rest of the arguments is loaded "without worrying that they will get
corrupted". The assembly that the compiler itself writes for this call has the same order.

### KiModules: import, export, lookup

Resolving a module is a recursion: the first import of a module parses its file and
resolves all of it before the import statement itself goes on. `stack` is that
recursion, each entry with the import that waits for it; `modules` is the module
table, in the order in which `find_symbol` scans the symbols of the modules; `using` is the flag
`using_all_symbols`, `imported` the list `imported_identifiers`, `exported` the flag
of each function's symbol. `errors` is a summary of the error count.

The program is chosen as it is read: `Init` and `Parse` choose the functions of a
file, which `parse_function` enters in the symbol table at once, and every statement
is chosen when its turn comes. That is every program, since a file is read once and its
statements are resolved once and in order. `AutoImport` is the import of `basic.ki` which
`import_builtin_libraries` puts first in each file, `basic.ki` included.
`Complete` is what an import does after its module is there. A module that is
being resolved is found in the table and not waited for, which is how circular imports
end. Calls change nothing; what a call means is `Lookup`, and `Access` for
`module.function()`. `imports` and `cyclic` are history variables.

The lookup rules are stranger than they look, and the properties say what they do guarantee:
`ImportedIsFound` needs names that are unique in the program and an imported module that
every importer imports the same way; `OwnIsMeant` needs imports as a whole and no
circles. Without one of these conditions TLC finds the counterexamples: a
later import takes visibility back, or a name imported from one module is found in another.

### KiDriver: compile, assemble, link

A state of `KiDriver` is the command line and module table (`job`), the files on disk with the modules
whose code they hold, and where the driver is. `CompileModule` is one round of
`compile_modules`, `Assemble` one of `assemble_files`, `Link` is `link_files`; each has its
failures beside it, with what the code removes then. `Init` chooses every combination of
command, `-g` and `-o`, every module table, which of its modules are the library's, and a working directory
that is empty or full of files of an earlier run. The assembler and the linker are external: if one fails,
its output file is as before or gone. A failure to parse or resolve the program is
`CompileFails` of the main module.

`BuildComplete` is exact: a build that reports success has made the whole program *if and only
if* the name given with `-o` is not that of another module that is compiled and does not
end in `.o` (a dot in a directory of the name, `a.d/prog`, cuts it there). In the first case both modules are written to the same assembly file and main is lost (if the
linker accepts one object twice), in the second the executable is removed as an object file.

### KiSyntax, KiParser, KiResolver, KiFrontend, KiFrontendModel: the front end

`KiSyntax` has the tokens, the nodes of the tree and the parser's state: the token it is
at, its flags, the function and block it is in, the symbols and types it has registered and the number of
its errors. `KiParser` is `parser.c`, an operator per function, each from a parser to a parser whose
`ast` is what was read; `eat`, `skip_until` and `skip_to_next_statement` are what an error does.
`KiResolver` is `resolver.c` with the scopes of `context.c` and the types of `ast.c`, each operator from a resolver
to a resolver. A type is void, a float, another number or a type of the program, with its pointers
and its array size; `Gone` is the type read through a null pointer, and `gone` a compiler that
has died of it. A call whose symbol nobody has set takes the type of any function, or of none: its
`symbol_uid` is memory that was never written (`stray`). `KiFrontend` is the state machine: a step of
`parse_root` reads one statement, a step of the resolver goes over one type or statement.

Left out: aliases, comments, the text of literals, the numbers of an enumeration, what only the
listings of the compiler show (variable numbers, `scope_uid`), and modules, which are KiModules.

The properties say what the language is, as the compiler has it:

* `ReadAsMeant` and `Refusable`: math is not read in the arguments, the index or the elements
  of an operand of math, nor a condition in those of a condition or math. Nor are `*a + 1`,
  `&a + 1` and `*a == 1` what they look like: `*` and `&` take all that follows, `*(a + 1)`; and `-a[1]` is
  `(-a)[1]`. `ReadOtherwise` leaves these trees out.
* `NothingDropped`: a text that is read without an error is in the tree with every word. The end of
  the file is the exception, where `eat` reports nothing: an unfinished last statement is accepted. The
  third token of a decorated type is passed over unseen, so texts with `@` and `#` are left out.
* `ResolvesByFunction`: a name means a constant defined before it, else the first declaration in
  its *function*, else a type. Blocks hide nothing: two `for i := ...` loops in one function are refused as a
  redefinition of `i`, although `lir.c:887` says that the iterator goes out of scope.
  A `return` behind a nested function is a "Return statement outside of a function".
* `CrashesOnly` lists the programs the compiler dies of, a call of a function that is not
  there and a structure's member of an undefined type among them.
* `AcceptedIsResolved`: what is accepted has a meaning for every name, call and member. Not
  promised: that `y := P.n` with the name of a structure is refused (HIR does that), that two types, or two
  members, have different names (the first one wins), and that a message is shown (`y := s.length; s := "abc"` ends
  with 1 and without one).

### KiExpression, KiLir, KiOptimizer, KiRules, KiMeaning, KiStatements: from a body to its code

`KiLir` is the IR of `lir.h` and what each of its instructions makes the machine do, read from
`backend.c`: two registers (`t1` is `rax`, `t2` is `rcx`), the stack, variables, one array and the
place in the code. `Step` is one instruction, jumps and labels included, `Assembles` what `nasm` accepts and the
processor can do with these operands. All words have one width.

`KiOptimizer` has the peephole rules of `optimizer.c`, an operator per group. Which
instructions a rule sees is `peek`: `ThisAt`, `NextAt` and `Next2At`, with its two oddities (over an
omitted instruction, `peek(0)` looks back; `peek(2)` may see what `peek(1)` saw).

`KiExpression` lays out values and statements as the parser and `hir.c` do (`Condition` completes bare
bools, `compound_math_to_hir` puts the left side in the tree twice, `for_to_hir` keeps the start of
a declared iterator only) and lowers them as `lir.c` does. `g` is the generator: the code so far, the
labels in use, the operand at hand, the targets of `break` and `continue`; `leak` is the flag
`IR_NO_DEREFERENCE`. A behaviour is the optimizer at work on the code of one body: `Rewrite(group)` is the next
place in the pass where a group changes the code, `EndPass` the end of a pass, `Crash` a
folded remainder by zero, of which the compiler dies. The code this module arrives at was compared
with the output of the compiler itself for long statements and nested loops: they agree.

`KiMeaning` says what a body means, by a recursion of its own over operators, precedence and
statements (`Value`, `Did`, `Round`), and compares that with what the code does (`Run`). What it takes from
the compiler: the type of a list (unsigned if one item is), signed comparisons and `>>`, one
shared level for `&`, `|`, `^`, `<<` and `>>` below `+`, and chains of conditions read from the
left without precedence: `a && b || c` is `a && (b || c)`. Nothing is promised of a body in which the program
itself divides by zero or overflows a division, compares the order of unsigned words of the upper half, or
goes round a loop more than `MaxRounds` times.

Not every body is lowered right, and the properties name those that are not:
`LoweringRight` holds outside seven classes, each of them a mistake of its own in the code, and
is violated if any of the seven is let in:

* `Complements`: `~x` is emitted as `neg` (`backend.c:1277`);
* `LosesAddress`: in `a[i] = -x` the negation overwrites the address (`lir.c:36`);
* `LeaksAddress`: in `a[a[i]] = x` the inner element is not read (`lir.c:404`, `764`);
* `CallsTwice`: `a[f()] += 1` calls `f` twice, for the value and for the place;
* `DropsBool`: `x < 2 && z` compares nothing with `z` (`parser.c:334`);
* `StartsAt0`: `for x = sum..100` with an `x` declared before, as in `tests/09_for.ki:16`, starts at 0
  (`hir.c:931`);
* `Stray`: `break` and `continue` outside of a loop jump to label 0.

`RewriteKeeps` finds every rule but the shift for a division right whenever it is applied. For the rules on the
stack and on loads and stores it finds more: wherever they are applied, the conditions of `KiRules` hold, which
the optimizer does not check. They say that the two or three instructions a rule looks at have operands it is right for
(`StackSafe`, `MovesSafe`: no assignment to a bool loses its truncation, no address is in a register that is no longer
written), and that the register a rule frees is not read behind it, on any path (`Unread`, what an analysis of live registers finds).
Under these conditions the rules are proved right for all code, all words and all inputs (see *The proofs*).
`FoldKeeps` lists the pairs of instructions that may be folded; `OptimizedRight` says from the
source alone which bodies come out right. Left out by it: `x * 2 * 3` becomes
`x << 8`; `7 % 3` is folded to 2, `x % 3 + 0` ends the compiler with a division by zero
(`optimizer.c:390`); `x / 3` becomes `idiv 3` and `x << y` a shift by a word in memory,
both refused by `nasm`; `x / 2` becomes `sar`, which rounds down.

### KiText, KiCharacters, KiStrings, KiNumbers, KiLibrary, KiLibraryModel: the library's strings

`KiText` is the abstract specification: strings are texts, sequences of characters, and `Do(call)` is what
the description of each function in `basic.ki` says it does to them. `KiStrings` and `KiNumbers` are the code:
a string is a pointer to bytes, a length and a capacity, and every function is translated with its loops, its new
capacities and its terminators; an access outside a buffer sets `stray`, and a byte nobody has written since its block
was allocated is `Unknown`. A loop over bytes is the set of bytes it reads and writes (`Read`, `Fill`), or a recursive function
where one round needs what the last one left (`format_string`, the digits of a number). `KiLibrary` is a program
that makes one call after the other; `CallsMeanText` is the refinement: each call is a step of `KiText` under the
mapping that reads a buffer up to its length, terminators inside it included (`Text`).

One function leaves such terminators. `insert_string` with `remove` sets the length to that of both strings though it has
removed a character, and `format_string` and `print_format` use it for every `%` they replace. Of these calls `CallsMeanText` says
what they do instead, exactly: the promised text, followed by one terminator for each character removed (`CountsRemoved`). What the program does
with such a string afterwards is not excused: an append puts its text behind the terminator, a comparison sees it. It is not what
the description of `format_string` (`basic.ki:378`) promises, and if `CallsMeanText` asks these calls for a step of `KiText` as it does all others, TLC
finds it violated by the first call that replaces a `%`.

Where a function does not do what its description says, a class of calls is named and left out:

* out of the buffer (`Overruns`): a slice that ends past its string or starts past its target; `find_substring`
  with a start; the digits of the most negative number in base 2; many digits after a point (the string is moved to a larger block,
  its buffer is not); `string_to_int` of a string that was made and not written, whose search for a digit no terminator ends;
* other than described (`Amiss`): a string inserted into its own middle is overwritten while it is read; `insert_string`
  of nothing with `remove` removes nothing; `pop_string_char` at the length pops the last; a format skips the character
  behind a replaced `%`, keeps the `%` of an empty argument and the `/` of a `/%`, which by
  `basic.ki:378` inserts a single percent sign (`KeepsSlash`); `find_substring` finds characters with others
  between them; `string_to_int` takes no capitals for a base and refuses no character;
  `float_to_string` loses the sign between -1 and 0; `input` with `strip` cuts the last
  character of a line without a newline.

## The runs

| run | what it asks | bounds | result |
|---|---|---|---|
| `heap_stack` | is the heap a store of private arrays for a program with a stack of blocks, and when is it overrun? | 7 bytes, 3 blocks, sizes 1 to 3, 2 byte values | holds |
| `heap_gap` | does it hold for any program until a gap is filled? | 5 bytes, 3 blocks, sizes 1 and 2 | holds |
| `frame` | is the backend right about `rsp`, along every path, when jumps leave blocks that reserved nothing? | locals of 8 and 16 bytes, 24 bytes used, 2 locals of a function, 3 open blocks, 1 pushed value | holds |
| `call` | which calls pass their arguments and restore the stack? | up to 6 arguments, 2 registers of a class, one of them used by sums | exactly the sound ones |
| `modules` | is each module resolved once, does resolution end, do names mean what was imported? | 3 modules with main and the library, 2 names, 1 function a file, 3 statements | holds |
| `modules_library` | is the library always visible after its import? | same | no: finding |
| `driver` | what is built and left behind, whatever fails? | 3 modules, any of them but main from the library, every command and option that names files | holds |
| `expression` | which bodies are compiled to code that does what they mean, and does every rewrite keep that? | 4-bit words, 3 inputs, lists of up to 3 operands, conditions of up to 3 terms, 2 nested loops, `MaxRounds` 4, `Patience` 9 | holds outside the named classes |
| `expression_fold` | are only operations folded whose order is free? | lists of 4 operands with `+` and `-` | no: finding |
| `library` | does every call do to texts what it says, inside its buffers? | 2 strings, 6 literals with `%`, `/` and white among them, capacities from 2, 8-bit integers, 2 calls | holds outside the named classes |
| `frontend` | what is read, refused, accepted and meant, and what is the compiler lost on? | all sequences of 4 or 5 tokens from 7 alphabets; every pair of terms under `+` and `==`; functions with 2 statements or blocks; types, decorators, groups | holds |
| `frontend_initializer` | is what was resolved in the tree? | the programs with types | no: finding |

Why the bounds are enough. Heap: an overlap needs a gap, a block above it and one
allocation that the gap is too small for, so three blocks of two sizes; 7 bytes
let a block be grown twice, which is when the gap it leaves could first be reused.
Frame: three open blocks nest a loop in a loop in an `if`, and a `for` takes two; 24
bytes make the rounding to 16 matter twice; two variables are what it takes to share a byte. The proofs have no such bounds. Call: six
arguments over two registers of each class fill both classes past their registers
with arguments left, with every pattern of complex ones and of what the simple ones overwrite: nothing, one register of two, all; the code uses six registers,
and the number occurs only in comparisons. Modules: the library and a third module
beside main give import chains, circles and two importers of one module; an
unwanted meaning of a name needs two definitions, an import and an export, and each file besides
has its import of the library, which does not count as a statement. The errors
possible within the bounds are fewer than the 20 at which the compiler gives up.

Driver: three modules give a first, a middle and a last file, a hole in the table, and a name that
collides with another module; steps meet only through the names of their files.

Expressions: three operands put every two operators next to each other, which is all that a
decision on precedence, a peephole rule (three instructions) or a chain of a condition (its
neighbours) looks at; with constants, variables and both, calls and parentheses on either
side, and every kind of index to the left and right. Words of 4 bits have signs, wrap and
overflow in shifts; the three inputs differ in sign and in size, in the value of the bool and in what the array holds.
Two different computations that agree on all three would be missed, but no mistake that changes a register, a
jump or the depth of the stack is one. Loops are left in every way (the condition, `break`, `continue`, both sides of an
`if`) from inside another loop, which is as deep as the two saved labels of `push_for_loop` reach.
A run of 2^9 instructions is longer than any of these bodies takes within its rounds: one that is given up
counts as wrong.

Library: the smallest capacity is 2, so that appending, inserting and formatting grow a string once and twice; two
calls make a string by one function and use it by another; the arguments go one past each end. 8 bits
give the most negative number three digits and a sign.

Front end: whatever decides what a token begins is within two tokens of it, the previous one and the flags, and an error
and what is skipped after it need one or two more. Under one operator two terms meet with
every kind of bracket and prefix on either side. Two statements in a function, with a block around either, and one
function before, behind or inside another are what names and scopes can differ by.

Deadlock is checked in `call`. The heap and the strings stop after an overrun, the walk over a
function and the calls of the library stop at the bounds, resolution is over when main is resolved, the driver and
the front end when they are done or have failed and the optimizer after its passes, so the other runs do not check it.

Fairness. `KiModules` assumes `WF_vars(Next)`, and its run checks `ResolutionEnds` under
it: the resolver is one thread that waits for nothing, so it takes its next step
if it has one. The property is not a matter of course, because a module can import one
that waits for it; and the bound on statements is no help, as the imports of the library are
outside it. The other modules state no liveness and assume no fairness: each
of their loops is a bounded `for`.

### What the runs found

* `modules_library`: main contains `import ki.basic` next to its automatic import of the
  library; `resolver.c:1206` clears the flag, and `print` is undefined.
* `expression_fold`: `x - 1 - 2` is compiled to `x + 1`: `optimizer.c:455` computes the
  constants of any two instructions with the opcode of the first.
* `frontend_initializer`: of `y := {.n = x}: p; z := {.n = x}: p;` the second is compiled to the address of
  `y`, and a node is freed twice: `resolver.c:559` passes the address of a local variable where the comment
  of `resolver.c:588` says why it must be that of the tree.

Other disagreements of the code with its comments and tests are part of properties that say exactly what the code does instead: variables that
share bytes (`LocalsSafe`), simple arguments that are not (`NoneClobbered` in `ArriveWhenSound`), the terminators that a
format leaves and the slash that it keeps (`CountsRemoved` and `KeepsSlash` in `CallsMeanText`). They are described with the modules.

## The proofs

| Module | about | inductive invariant | assumptions on the constants |
|---|---|---|---|
| `KiHeapProofs` | `KiHeapStack`, `KiHeapGap` | `StackInv`; `SafeHeap` while no gap is filled | `HeapAssumption`: sizes are positive, a byte can be 0 |
| `KiFrameProofs` | `KiFrame` | `FrameInv` | `FrameAssumption` |
| `KiModulesProofs`, `KiLookupProofs` | `KiModules` | `ModulesInv`, `LookupInv` | `ModulesAssumption` |
| `KiDriverProofs` | `KiDriver` | `DriverInv` | `DriverAssumption`: finitely many modules |
| `KiCallProofs` | `KiCall` | `CallInv` | `CallAssumption`: at least one argument register; `MathRegisters` are among them |
| `KiOptimizerProofs` | `KiOptimizer`, `KiRules`, `KiLir` | `InStep` | none: any code, width of words and contents of memory |
| `KiLibraryProofs` | `KiLibrary`, `KiStrings`, `KiNumbers` | `LibraryInvariant` | `WidthAssumption`, `CapacityAssumption`, `LibraryAssumption`: sizes are numbers, the widest integer has no more bits than the buffer of `int_to_string` has room for (64 and 64 in the code) |

Each theorem is for all values of the constants that satisfy the assumption: any heap size,
any depth of nesting, any number of modules, names, arguments and registers; any texts, capacities, bases and number of calls.

*Heap.* Each safety invariant of the two disciplines is a consequence of one inductive
invariant per discipline: blocks are disjoint, the free list is exact, the heap pointer
is past every block; for the stack also that blocks lie in the order of the stack and that
nothing but the outgrown places is free below the top. The last part is needed because it is
what makes the search for a gap fail: without it `alloc` may fill a gap. `StackOverrunWhenFull` is the other side of the same fact: `Taken` is the end of the
topmost block (`TakenUnderTop`, by counting the bytes below it), which is where the next one goes, and if it fits there neither does
the search read past the free list (`FitsAtEnd`). Both
refinements (`StackImplementsStore`, `GapImplementsStore`) show that each step
maps to a step of `KiStore` or a stutter; the case of `Realloc` needs that the copied
range does not overlap its target, which follows from disjointness.

*Frame.* The invariant `FrameInv` has four parts: the open blocks reserved and used no more than
what is reserved and used now, in order (`BlocksOK`), the same of the current state (`StackOK`), the locals of
open blocks lie apart and within what was reserved when their block was opened, and apart from every other local declared
before their block was closed (`LocalsOK`),
and everything recorded about execution, in `depths` and in the records of the labels, agrees with what the backend will
believe when it gets there (`GhostOK`). None of the four checked properties is inductive alone:
`RspKnown` at the end of a loop needs what `GhostOK` says about every jump recorded before.

*Modules.* `ModulesInv` adds three facts to `TypeOK`, `EachOnce` and `ImportedIsResolved`:
what is being resolved is in the module table, which is what keeps an import from
entering a module twice; a module that is not in the table has no functions, so that parsing it
cannot take a function away from what is exported; each flag and each imported name
comes from a recorded import, from which `FoundIsImported` follows. The lookup takes the first
symbol accepted; that there is a first one is the lemma `Least`, proved without induction
from the library's well-foundedness of the strict subsets of a finite set.

*Lookup.* `LookupInv` says how the recursion lies in the module table. A module waits only for modules
parsed after it (`StackInOrder`), so the one on top of the stack is the last of those being resolved. A
flag once given stays unless another import of the same module took it (`FlagsLast`), and what is finished was
imported by somebody (`FinishedImported`). `NothingBefore` is the induction behind
`OwnIsMeant`: no module parsed before one that has defined a name offers that name. It must speak of all modules that are
being resolved and not only of the one on top, for it is used when an inner
module has finished and the outer one goes on; the hypothesis `~cyclic` is what closes the step of an import. `OwnIsMeant` follows
because the first symbol that the lookup accepts can then only be the module's own. `ImportedIsFound` follows from
`FlagsLast` and the uniqueness of names without `NothingBefore`.

*Driver.* `DriverInv` says for each phase which files hold which modules: `Listed` relates the list
`files` to the modules compiled so far (one entry for each, found again through the injection of names that `NameIsFree` gives), `ObjectsOf` the
list of objects to the list of files; outside of both nothing is touched (`OthersKept`). The direction of `BuildComplete` that is a
warning, a build that reports success without the main module, is `MainLost`: from the round on in which another module is written
over main's assembly file no file holds main's code, so the linker cannot find it. The case of a name that ends in
`.o` needs none of this: `Clean` removes the executable. What a failure leaves is proved for a failure in each round, with whatever the rounds
before it left. `OldOutputKept`, that only the linker replaces an executable of an earlier run, is a part of the invariant
and has no run of its own.

*Call.* The order of the two loops is a matter of counting: complex arguments are evaluated from the last to the first, so that argument `k` is at place
`Rank(k)`, the number of complex arguments from `k` on; when it is popped, `Above(Rank(k))` arguments before it have been pushed again; and a simple argument
lies `Later(k)` places above all of those. `CallInv` says for each iteration of each loop what is at every place of the stack and in every register
in these terms; what simple arguments have overwritten so far is `Lost`, and the rest is still there (`Kept`). `OnlyHeld` adds that the registers
hold nothing else, which `RegistersKept` needs. The exactness of `ArriveWhenSound` is then a
statement about the three numbers: a complex argument gets into its own register if and only if the argument whose
type the code reads by mistake has its class and no complex argument before it is pushed again, and a pushed argument is
read from its slot if and only if it lies that many places from the top. The lemmas of the module (`CountFrom` and those after it) turn
these into conditions on the list of arguments. `CallOfOneClass` is a consequence that a
user of the compiler can apply: arguments of one class arrive if and only if no simple one after the
registers are full comes after a complex one, and no simple one overwrites a register that was loaded before it.

*Optimizer.* The code before a rule (`Code`) and after it (`Rewritten`) run in lock step on two machines that start alike (`Lockstep`). What is proved is
`RunsAlike`: for as long as the first runs without a trap so does the second, at the same place, and
outside of the places the rule has looked at the two have the same stack, variables, memory, result of the last comparison and answers of calls, and the same
registers but for those that nothing reads from there on (`Loose`). Where the second one divides by zero or pops an empty stack the first
has done so; nothing is said of code that fails. The argument has three layers:

1. One instruction. `Reads` and `Writes` say which registers it uses, and machines that agree on what it reads agree, after it, on what they agreed
   on before and on what it writes (`EffectAgree`, from `PutAgree` and `GetAgree`); they stop both or neither and jump alike.
2. One rule. What its instructions do one after the other is what the instructions written in their place do, on any machine (`PushPopMove`, `LoadRead`,
   `PopMove`, `PushOver` and their like). This is where the conditions of `KiRules` are needed: each excludes a machine on which the rule is wrong.
3. The whole run. `InStep` is the invariant. Inside of the places the machines do not agree, because one has done what the other is still to do: there `Related` says
   that both come from machines that agreed, by running the same number of places, and that between the places is nothing but omitted instructions.
   `RewritesRunAlike` is this layer by itself, for any rewriting of up to three places that simulates what was there.

`StackOperationsKeep` and `LoadsAndStoresKeep` put the layers together for the two groups of rules; the places a rule looks at are those that
`peek` finds, recursive functions whose values are proved from the library's well-foundedness of strict subsets (`ThisAtFacts`, `FirstFromFacts`).
That the hypotheses are not idle is what `RewriteKeeps` checks: every application of these rules in the run satisfies them. One rule
is outside of the theorem: `ref %0, x; store %1, [%0]` stores what is in `x` and is replaced by `ref %1, x`, which stores where `x` is
(`optimizer.c:232`); no code that was lowered in the run has these two instructions (`FollowsAddress`).

*Library.* `LibraryTerminated` and `LibraryInBounds` are the memory safety of the strings. The invariant, `LibraryInvariant`, has to say more
than `Terminated`: that the capacity a string claims is the size of its buffer less one, and that its length lies within it, also
of a string without characters, which needs no terminator. It holds between calls and not inside them: while a function copies, the terminator
is overwritten and the length is not yet what was copied. The lemmas on the functions are therefore stated for any world
whose buffers have the right shape (`IsLoose`, `Has`), and say two things: what becomes of the one string that changes
(`Only`, `Makes`: a string again, of a certain length), and exactly when a byte outside a buffer is touched. They are
built from the primitives upwards: `Read`, `Fill` and `End`; `new_string` and `reserve_string`, whose loop that doubles the
capacity is shown to end with enough; copying into the room made for it (`CopyAfterReserve`, which covers a string appended
to itself while its buffer moves); then one lemma for each function. Three need an argument of their own:

1. `format_string` inserts argument after argument into a string that grows: the set of the worlds in which the format is
   still a string is closed under one insertion (`ReplacedIs`), and so is the recursive function (`RecursiveUpTo`).
2. `int_to_string` divides until nothing is left. `LeftEnds` shows that what is below a power of two is gone after as many
   divisions as the exponent, in every base; so the digits, the sign and the terminator fit (`FiguresFit`), but for the
   least integer in base 2. Bases from 3 on have a digit to spare (`Thirds`).
3. `string_to_int` searches without a bound. It ends at the first byte that is not white, the terminator at the latest
   (`FirstSolidIs`): this is the one function that needs the terminator to be there, and for which `Overruns` has to name the string
   that was never written.

`CallsAreFine` puts them together: each call of `Calls` keeps the strings in order or touches a byte it should not, and in the second
case it is in `Overruns`. `LibraryInBounds` is the half of the exactness that counts: no other call strays. That every call in
`Overruns` does stray is neither claimed nor true.

The recursion of these modules is in recursive functions, each shown to exist and to take its values in a set by `Recursive`; the induction it rests on is
that a set of natural numbers which contains 0 and every successor of its members is all of them (`AllOf`), proved from the well-foundedness
of the strict subsets.

Only model-checked:

- `ResolutionEnds`, because it is liveness under fairness;
- `CallsMeanText`, the refinement of the library's texts with the terminators that are left in them: what a text is after a format, a numeral or a search is defined by recursion over
  sequences (`SelectSeq` and `FoldLeft` among them, of which the prover knows nothing) on both sides, and comparing the two takes an
  induction of its own for each function. The proofs show that bytes are read and written where they may be, not which;
- what is recursive over trees, in modules that reach a `RECURSIVE` operator: the properties of `KiMeaning` and `KiFrontend`.

## The plan

Done, in this order: heap, frame, call, modules, driver, expressions and the optimizer; then
the statements of a body, the library's strings and numbers, the parser, scopes and the resolver.

Next:

1. `KiModules` further: two files of one name (`context.c:385`), the capacity of the module table
   (`context.c:361`) and the import of an `extern` function (`resolver.c:1093`), the three hazards no property
   covers yet.
2. `KiExpression` further: casts, references, dereferences and members of structs, the compatibility of types
   in HIR, and the arguments of calls as values, so that the optimizer is run on the code of `KiCall`.
3. A module for the lexer, on the places where a token's end is not obvious: negative literals behind a value,
   comments that are never closed, numbers with a base.

Proofs to come, in order: the rules of `KiOptimizer` on arithmetic and constant folding, on machines whose values are
words (`RewritesRunAlike` is for any rule; what is missing is what the rules compute); of `CallsMeanText` the calls whose texts are not recursive
(new, delete, assign, append, push, pop, slices and reverse), from the lemmas of `KiLibraryProofs` with the bytes that `Fills` and `Ends` already give.

## Not modelled, and why

The lexer is a scan without state between tokens. Of the expressions, floats, strings, casts, references, members
and the conversions between integer widths are left out, and so is the text of instructions: a translation whose correctness
is a matter of detail and not of state. Type compatibility in HIR refuses programs and changes nothing. The
documentor writes text; the logger counts errors and stops at 20, which is more than the bounded programs can have; lists
and the string builder grow buffers with the C library's `realloc`. The library's files are one system
call a function, its mathematics and random numbers have no state and no contract to check. System calls,
`nasm` and `ld` are outside the repository. The stack cache's capacity (50 nested blocks, checked by an `assert` only) is
a limit of the input that no bounded program reaches.
