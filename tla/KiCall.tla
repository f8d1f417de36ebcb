------------------------------- MODULE KiCall -------------------------------
(***************************************************************************)
(* Passing the arguments of a call: push_call and                          *)
(* handle_complex_call_arguments of lir.c, the stores and the call of      *)
(* backend.c, and the parameters as the called function finds them.        *)
(*                                                                         *)
(* A complex argument (a call, an expression, a member...) may overwrite   *)
(* any argument register while it is evaluated.  So the complex arguments  *)
(* are evaluated first, from the last to the first, each pushed on the     *)
(* stack; then they are popped and stored where they are passed; then the  *)
(* simple ones are stored, from the last to the first.  The first          *)
(* MAX_REGISTER_ARGUMENT_COUNT arguments of each class go to registers,    *)
(* the others are pushed.                                                  *)
(*                                                                         *)
(* What is_complex_expression calls simple need not be harmless: the       *)
(* operand of a unary may be a sum, computed in rax and rcx, or a call,    *)
(* and a string literal that is loaded (with -unopt) is a call of          *)
(* _basic__copy_string.  An argument says which argument registers its     *)
(* evaluation overwrites.                                                  *)
(*                                                                         *)
(* The value of an argument is its index.                                  *)
(***************************************************************************)
EXTENDS Integers, Sequences, FiniteSets

CONSTANTS
    MaxArguments,                   \* bound: arguments of a call
    MAX_REGISTER_ARGUMENT_COUNT,    \* arguments of a class passed in registers
    MathRegisters                   \* those for ints that a sum or a division uses

Registers == 0..MAX_REGISTER_ARGUMENT_COUNT-1

ASSUME CallAssumption ==
    /\ MaxArguments \in Nat /\ MAX_REGISTER_ARGUMENT_COUNT \in Nat \ {0}
    /\ MathRegisters \subseteq Registers

VARIABLES
    args,           \* class of each argument, whether it is complex, what it overwrites
    phase,          \* the part of push_call, or where execution is
    i,              \* its loop variable
    complex_args,   \* the complex arguments, in the order they were pushed
    stack,          \* what was pushed since the call began, last on top
    regs,           \* the argument registers of each class
    params,         \* the parameters in the called function
    released        \* what the call released of the stack

vars == <<args, phase, i, complex_args, stack, regs, params, released>>

Classes == {"int", "float"}
Garbage == 0
Value == 0..MaxArguments

\* What the evaluation of an argument overwrites: nothing, registers that
\* arithmetic uses, or all of them, by a call in it.  Of a complex argument it
\* makes no difference.
Everything == [c \in Classes |-> Registers]
Clobberings ==
    {[c \in Classes |-> IF c = "int" THEN m ELSE {}] : m \in SUBSET MathRegisters}
        \union {Everything}
Argument ==
    [class : Classes, complex : {TRUE}, clobbers : {Everything}]
        \union [class : Classes, complex : {FALSE}, clobbers : Clobberings]
Calls == UNION {[1..n -> Argument] : n \in 0..MaxArguments}
Clobbered == [c \in Classes |-> [r \in Registers |-> Garbage]]

-----------------------------------------------------------------------------
\* ints_passed or floats_passed: the arguments of its class before argument k.
Passed(k) == Cardinality({j \in 1..k-1 : args[j].class = args[k].class})
OnStack(k) == Passed(k) >= MAX_REGISTER_ARGUMENT_COUNT

\* The registers after the value of simple argument k is loaded.
AfterValue(k) ==
    [c \in Classes |-> [r \in Registers |->
        IF r \in args[k].clobbers[c] THEN Garbage ELSE regs[c][r]]]

\* LIR_STORE to argument k of value v, held in a register of class c, with s on
\* the stack and g in the argument registers.  It is pushed as it is, but
\* converted for a register of the other class.
Store(k, v, c, s, g) ==
    IF OnStack(k)
    THEN stack' = Append(s, v) /\ regs' = g
    ELSE /\ stack' = s
         /\ regs' = [g EXCEPT ![args[k].class][Passed(k)] =
                        IF c = args[k].class THEN v ELSE Garbage]

\* Where the called function looks for a parameter that was pushed:
\* [rbp + (index - 6 + 2) * 8], the slots above the return address.
Slot(k) == Len(stack) - (k - 1 - MAX_REGISTER_ARGUMENT_COUNT)
Parameter(k) ==
    IF ~OnStack(k) THEN regs[args[k].class][Passed(k)]
    ELSE IF Slot(k) \in 1..Len(stack) THEN stack[Slot(k)] ELSE Garbage

-----------------------------------------------------------------------------
Init ==
    /\ args = <<>> /\ phase = "idle" /\ i = 0
    /\ complex_args = <<>> /\ stack = <<>> /\ params = <<>> /\ released = 0
    /\ regs = Clobbered

\* push_call; a call without arguments goes straight to LIR_CALL.
Begin ==
    /\ phase = "idle"
    /\ \E a \in Calls :
          /\ args' = a /\ i' = Len(a)
          /\ phase' = IF a = <<>> THEN "call" ELSE "evaluate"
    /\ UNCHANGED <<complex_args, stack, regs, params, released>>

\* A plausible mistake: simple arguments are stored as they are met, before the complex ones
\* that come earlier are evaluated.
EvaluateAll ==
    /\ phase = "evaluate" /\ i > 0
    /\ IF args[i].complex
       THEN /\ regs' = Clobbered
            /\ stack' = Append(stack, i)
            /\ complex_args' = Append(complex_args, i)
       ELSE Store(i, i, args[i].class, stack, regs) /\ UNCHANGED complex_args
    /\ i' = i - 1
    /\ UNCHANGED <<args, phase, params, released>>

\* The first loop of handle_complex_call_arguments.
Evaluate ==
    /\ phase = "evaluate" /\ i > 0
    /\ IF args[i].complex
       THEN /\ regs' = Clobbered
            /\ stack' = Append(stack, i)
            /\ complex_args' = Append(complex_args, i)
       ELSE UNCHANGED <<regs, stack, complex_args>>
    /\ i' = i - 1
    /\ UNCHANGED <<args, phase, params, released>>

Evaluated ==
    /\ phase = "evaluate" /\ i = 0
    /\ phase' = "pop" /\ i' = Len(complex_args)
    /\ UNCHANGED <<args, complex_args, stack, regs, params, released>>

\* Its last loop.  It pops the i-th of the complex arguments into a register of
\* the class of the i-th of all arguments.
PopComplex ==
    /\ phase = "pop" /\ i > 0
    /\ Store(complex_args[i], stack[Len(stack)], args[i].class,
             SubSeq(stack, 1, Len(stack) - 1), regs)
    /\ i' = i - 1
    /\ UNCHANGED <<args, phase, complex_args, params, released>>

Popped ==
    /\ phase = "pop" /\ i = 0
    /\ phase' = "load" /\ i' = Len(args)
    /\ UNCHANGED <<args, complex_args, stack, regs, params, released>>

\* A plausible mistake in push_call: the simple arguments from the first to the last.
LoadSimpleForward ==
    /\ phase = "load" /\ i > 0
    /\ LET k == Len(args) + 1 - i
       IN  IF args[k].complex THEN UNCHANGED <<stack, regs>>
           ELSE Store(k, k, args[k].class, stack, AfterValue(k))
    /\ i' = i - 1
    /\ UNCHANGED <<args, phase, complex_args, params, released>>

\* The loop of push_call over the arguments that are not already done: the value
\* is loaded into a temporary register, and stored from there.
LoadSimple ==
    /\ phase = "load" /\ i > 0
    /\ IF args[i].complex THEN UNCHANGED <<stack, regs>>
       ELSE Store(i, i, args[i].class, stack, AfterValue(i))
    /\ i' = i - 1
    /\ UNCHANGED <<args, phase, complex_args, params, released>>

Loaded ==
    /\ phase = "load" /\ i = 0
    /\ phase' = "call"
    /\ UNCHANGED <<args, i, complex_args, stack, regs, params, released>>

\* LIR_CALL, and the stores of push_function for the parameters.
Call ==
    /\ phase = "call"
    /\ params' = [k \in 1..Len(args) |-> Parameter(k)]
    /\ phase' = "callee"
    /\ UNCHANGED <<args, i, complex_args, stack, regs, released>>

\* A plausible mistake in emit_call: it counts the arguments in registers too.
ReleaseAll ==
    /\ phase = "callee"
    /\ released' = Len(args)
    /\ phase' = "returned"
    /\ UNCHANGED <<args, i, complex_args, stack, regs, params>>

\* The call returns; emit_call releases the stack.
Release ==
    /\ phase = "callee"
    /\ released' = IF Len(args) <= MAX_REGISTER_ARGUMENT_COUNT THEN 0
                   ELSE Len(args) - MAX_REGISTER_ARGUMENT_COUNT
    /\ phase' = "returned"
    /\ UNCHANGED <<args, i, complex_args, stack, regs, params>>

\* The next call begins with nothing pushed.
Finish ==
    /\ phase = "returned"
    /\ args' = <<>> /\ phase' = "idle" /\ i' = 0
    /\ complex_args' = <<>> /\ stack' = <<>> /\ params' = <<>> /\ released' = 0
    /\ regs' = Clobbered

Next ==
    \/ Begin \/ Evaluate \/ Evaluated \/ PopComplex \/ Popped \/ LoadSimple \/ Loaded
    \/ Call \/ Release \/ Finish

Spec == Init /\ [][Next]_vars

-----------------------------------------------------------------------------
(***************************************************************************)
(* Which calls are compiled right.                                         *)
(***************************************************************************)

Complex == {k \in 1..Len(args) : args[k].complex}

\* A complex argument for a register has the class it is popped in: the k-th
\* complex argument from the end is popped in the class of the k-th of all.
PoppedInItsClass ==
    \A k \in Complex : OnStack(k) \/
        args[Cardinality({j \in Complex : j >= k})].class = args[k].class

\* Each argument on the stack has as many before it in registers as fit there:
\* the slot of a parameter is counted from the arguments of both classes.
SlotsMatch ==
    \A k \in 1..Len(args) : OnStack(k) =>
        Cardinality({j \in 1..k-1 : ~OnStack(j)}) = MAX_REGISTER_ARGUMENT_COUNT

\* A complex argument for the stack is popped and pushed again, on top of those
\* that are still to be popped: those must be for the stack too, or they take its
\* value.  The simple ones for the stack come on top, so must be the earlier ones.
PushedInOrder ==
    \A j, k \in 1..Len(args) : j < k /\ args[j].complex /\ OnStack(j) =>
        args[k].complex <=> OnStack(k)

\* As many arguments are pushed as there are beyond the first of all.
PushedAreBeyond ==
    LET pushed == Cardinality({k \in 1..Len(args) : OnStack(k)})
    IN  pushed = IF Len(args) <= MAX_REGISTER_ARGUMENT_COUNT THEN 0
                 ELSE Len(args) - MAX_REGISTER_ARGUMENT_COUNT

\* No simple argument overwrites the register of one that was stored before it:
\* of any complex argument, or of a later simple one.
NoneClobbered ==
    \A j, k \in 1..Len(args) :
        ~args[j].complex /\ ~OnStack(k) /\ (args[k].complex \/ j < k) =>
            Passed(k) \notin args[j].clobbers[args[k].class]

Sound == PoppedInItsClass /\ SlotsMatch /\ PushedInOrder /\ NoneClobbered

-----------------------------------------------------------------------------
(***************************************************************************)
(* Properties.                                                             *)
(***************************************************************************)

Arrived == \A k \in 1..Len(args) : params[k] = k

\* Every parameter holds its argument in the called function, exactly for the
\* calls that are sound: for any other call some parameter holds something else.
ArriveWhenSound == phase = "callee" => (Arrived <=> Sound)

\* After a call the stack is where it was before, exactly when it pushed as
\* many arguments as emit_call counts.
StackRestored ==
    phase = "returned" => (released = Len(stack) <=> PushedAreBeyond)

\* An argument stored in a register is overwritten before the call returns only
\* while a simple argument that uses this register is evaluated, and so only in
\* the calls that NoneClobbered excludes.  What is evaluated, popped or stored
\* otherwise leaves it alone.
RegistersKept ==
    [][phase' # "idle" =>
          \A c \in Classes, r \in Registers :
              \/ regs[c][r] = Garbage
              \/ regs'[c][r] = regs[c][r]
              \/ /\ phase = "load" /\ ~NoneClobbered
                 /\ ~args[i].complex /\ r \in args[i].clobbers[c]]_vars
=============================================================================
