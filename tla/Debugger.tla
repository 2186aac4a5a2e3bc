------------------------------ MODULE Debugger ------------------------------
(***************************************************************************)
(* Run control of the monitor: the main loop of the host                   *)
(* (BOSS9Base::continueExecution), the commands that start, continue and   *)
(* step the program, the breakpoint commands, and the instruction loop     *)
(* Emulator::execute, one action per iteration.                            *)
(*                                                                         *)
(* The program is a fixed function from addresses to instructions.  Only   *)
(* what run control can tell apart is kept of an instruction: where it     *)
(* goes, what it does to the stack, whether it calls, returns, prefixes    *)
(* the next one or calls the system.  A branch goes either way.  The       *)
(* stack is the sequence of words on it; a word below its bottom was never *)
(* written and may hold anything.  The other registers are not modelled.   *)
(*                                                                         *)
(* The user types keys at any time, and a whole command line once the      *)
(* monitor has read every key before it.                                   *)
(***************************************************************************)
EXTENDS Breakpoints, Sequences

CONSTANTS
    Programs,          \* the programs: functions from Addr to Instruction
    SystemAddrStart,   \* first address of the system functions, 0xFC00
    Quantum,           \* InstructionsToExecutePerContinue, 100000 in the code
    DepthModulus,      \* 2^32: _subroutineDepth is a uint32_t
    Commands,          \* the commands the user knows
    UserAddr,          \* the addresses the user types
    UserIndex,         \* the breakpoint numbers the user types
    MaxStack,          \* bound: the program is resumed with at most so many words on the stack
    MaxInput           \* bound: keys typed ahead

putc       == SystemAddrStart           \* a function that returns to its caller
getc       == SystemAddrStart + 6
exit       == SystemAddrStart + 14
mon        == SystemAddrStart + 16
noFunction == SystemAddrStart + 2048    \* any address call() has no case for
Func == {putc, getc, exit, mon, noFunction}

Op == {"NOP", "Page2", "ILL", "Bcc", "BSR", "JMP", "JSR", "RTS", "PULPC"}

(* Only JMP and JSR reach the system functions; branches stay in the program. *)
Instruction ==
    {i \in [op : Op, ea : Addr \union Func] : i.ea \in Func => i.op \in {"JMP", "JSR"}}

ASSUME DebuggerAssumption ==
    /\ Addr \subseteq Nat /\ 0 \in Addr
    /\ SystemAddrStart \in Nat /\ \A a \in Addr : a < SystemAddrStart
    /\ Programs \subseteq [Addr -> Instruction]
    /\ Quantum \in Nat \ {0}
    /\ DepthModulus \in Nat \ {0, 1}
    /\ UserAddr \subseteq Addr /\ UserIndex \subseteq Nat
    /\ MaxStack \in Nat /\ MaxInput \in Nat

VARIABLES
    \* class Emulator
    code,               \* the loaded program
    pc,                 \* _pc
    stack,              \* the words from the bottom of the stack up to _s
    prevOp,             \* _prevOp
    error,              \* _error
    subroutineDepth,    \* _subroutineDepth
    lastRunState,       \* _lastRunState
    slice,              \* the call of execute() in progress, and its locals
    \* class BOSS9Base
    runState,           \* _runState
    startAddr,          \* _startAddr
    startTime,          \* _startTime > 0: a timing test was started
    \* the console
    input,              \* keys typed and not yet read
    said,               \* the last message about the program
    \* history
    session,            \* the last command that left the monitor, and what ran since
    fresh               \* a slice has started and no iteration of it has run

cpu == << pc, stack, prevOp, subroutineDepth, lastRunState >>
vars ==
    << bpVars, code, cpu, error, slice, runState, startAddr, startTime, input, said, session, fresh >>

RunState == {"Cmd", "Running", "Continuing", "StepIn", "StepOut", "StepOver"}
Keys == {"ESC", "char"}
Messages == {"", "hit breakpoint", "step in", "step over", "step out", "ABORT", "exited",
             "timing test"}

(* Addresses wrap around at the end of memory. *)
NextAddr(a) == IF a + 1 \in Addr THEN a + 1 ELSE 0

(* BSR, or JSR to the program's own code (MC6809.cpp:895-896) *)
CallsProgram(i) == i.op = "BSR" \/ (i.op = "JSR" /\ i.ea < SystemAddrStart)
CallsSystem(i) == i.op \in {"JMP", "JSR"} /\ i.ea >= SystemAddrStart

Slice == [on : BOOLEAN, runState : RunState, firstTime : BOOLEAN, left : 1 .. Quantum]
Idle == [on |-> FALSE, runState |-> "Running", firstTime |-> TRUE, left |-> Quantum]

-----------------------------------------------------------------------------
(* History.  Of every command that leaves the monitor: where it resumed    *)
(* the program, and whether 0, 1 or more instructions ran since.  Of the   *)
(* commands that run a subroutine to its end also: the words on the stack  *)
(* at the command, the first instruction, whether it was a call, and       *)
(* whether 0, 1 or more slices were started.                               *)
Session == [cmd : {"start", "r", "time", "c", "s", "n", "o"}, from : Addr, done : 0 .. 2,
            base : Nat, first : Op, into : BOOLEAN, slices : 0 .. 2]

RunsSubroutine(c) == c \in {"n", "o"}

NewSession(c, a, words) ==
    [cmd |-> c, from |-> a, done |-> 0, base |-> IF RunsSubroutine(c) THEN words ELSE 0,
     first |-> "NOP", into |-> FALSE, slices |-> 0]

More(n) == IF n = 2 THEN 2 ELSE n + 1

Count ==
    session' = IF RunsSubroutine(session.cmd) /\ session.done = 0
               THEN [session EXCEPT !.done = 1, !.from = pc, !.first = code[pc].op,
                                    !.into = CallsProgram(code[pc])]
               ELSE [session EXCEPT !.done = More(@)]

CountSlice ==
    session' = IF RunsSubroutine(session.cmd) THEN [session EXCEPT !.slices = More(@)] ELSE session

-----------------------------------------------------------------------------
(* The host loads a program and calls startExecution(). *)
Init ==
    /\ BpInit
    /\ code \in Programs
    /\ startAddr \in UserAddr
    /\ pc = startAddr
    /\ runState \in {"Cmd", "Running"}
    /\ stack = << >>
    /\ prevOp = "NOP"
    /\ error = "None"
    /\ subroutineDepth = 0
    /\ lastRunState = "Running"
    /\ startTime = FALSE
    /\ slice = Idle
    /\ input = << >>
    /\ said = ""
    /\ session = NewSession("start", startAddr, 0)
    /\ fresh = FALSE

-----------------------------------------------------------------------------
(* The user presses a key. *)
Type(k) ==
    /\ Len(input) < MaxInput
    /\ input' = Append(input, k)
    /\ UNCHANGED << bpVars, code, cpu, error, slice, runState, startAddr, startTime, said, session,
                    fresh >>

-----------------------------------------------------------------------------
(* getCommand(), called by continueExecution() in the monitor: a pending  *)
(* error is reported and reset, then keys are read.                       *)
GetCommand == ~slice.on /\ runState = "Cmd" /\ error' = "None"

(* No complete line yet *)
Poll ==
    /\ GetCommand
    /\ input = << >>
    /\ UNCHANGED << bpVars, code, cpu, slice, runState, startAddr, startTime, input, said, session,
                    fresh >>

(* A key typed ahead.  ESC is acknowledged; any other belongs to a line *)
(* that is no command.                                                  *)
ReadKey ==
    /\ GetCommand
    /\ input # << >>
    /\ input' = Tail(input)
    /\ said' = IF Head(input) = "ESC" THEN "ABORT" ELSE said
    /\ UNCHANGED << bpVars, code, cpu, slice, runState, startAddr, startTime, session, fresh >>

(* A command line *)
Command(c) == c \in Commands /\ GetCommand /\ input = << >>

(* The commands that leave the monitor.  Stepping commands only set *)
(* _runState; the next turn of the main loop does the rest.         *)
Resume(c, rs, a) ==
    /\ Command(c)
    /\ Len(stack) <= MaxStack
    /\ runState' = rs
    /\ pc' = a
    /\ said' = ""
    /\ session' = NewSession(c, a, Len(stack))
    /\ UNCHANGED << bpVars, code, stack, prevOp, subroutineDepth, lastRunState, slice, input, fresh >>

(* "r" and "r a" *)
Run(a) ==
    /\ Resume("r", "Running", a)
    /\ startAddr' = a
    /\ UNCHANGED startTime

Time ==
    /\ Resume("time", "Running", startAddr)
    /\ startTime' = TRUE
    /\ UNCHANGED startAddr

Continue == Resume("c", "Continuing", pc) /\ UNCHANGED << startAddr, startTime >>

Step(c, rs) == Resume(c, rs, pc) /\ UNCHANGED << startAddr, startTime >>

(* "a a" shows the instruction at a: what was said of the program is past. *)
SetAddr(a) ==
    /\ Command("a")
    /\ pc' = a
    /\ said' = ""
    /\ UNCHANGED << bpVars, code, stack, prevOp, subroutineDepth, lastRunState, slice, runState,
                    startAddr, startTime, input, session, fresh >>

(* b, bc, bd, be.  The number typed is passed in a uint8_t. *)
BreakpointCommand ==
    /\ \/ Command("b") /\ \E a \in UserAddr : SetBreakpoint(a)
       \/ Command("bc") /\ (ClearAllBreakpoints \/ \E n \in UserIndex : ClearBreakpoint(n % 256))
       \/ Command("bd") /\ (DisableAllBreakpoints \/ \E n \in UserIndex : DisableBreakpoint(n % 256))
       \/ Command("be") /\ (EnableAllBreakpoints \/ \E n \in UserIndex : EnableBreakpoint(n % 256))
    /\ UNCHANGED << code, cpu, slice, runState, startAddr, startTime, input, said, session, fresh >>

UserCommand ==
    \/ \E a \in UserAddr \union {startAddr} : Run(a)
    \/ Time
    \/ Continue
    \/ Step("s", "StepIn") \/ Step("n", "StepOver") \/ Step("o", "StepOut")
    \/ \E a \in UserAddr : SetAddr(a)
    \/ BreakpointCommand

-----------------------------------------------------------------------------
(* continueExecution() while the program runs: a key is read, ESC goes     *)
(* back to the monitor, anything else is dropped and execute() is called.  *)
StartSlice ==
    /\ ~slice.on
    /\ runState # "Cmd"
    /\ input' = IF input = << >> THEN input ELSE Tail(input)
    /\ IF input # << >> /\ Head(input) = "ESC"
       THEN /\ runState' = "Cmd"
            /\ said' = "ABORT"
            /\ UNCHANGED << slice, session, fresh >>
       ELSE /\ slice' = [Idle EXCEPT !.on = TRUE, !.runState = runState]
            /\ CountSlice
            /\ fresh' = TRUE
            /\ UNCHANGED << runState, said >>
    /\ UNCHANGED << bpVars, code, cpu, error, startAddr, startTime >>

(* continueExecution() that leaves Continuing set after execute() *)
LeaveSliceContinuing ==
    /\ slice' = Idle
    /\ UNCHANGED << runState, said >>

(* execute() returns with the program still running. *)
LeaveSlice ==
    /\ slice' = Idle
    /\ runState' = IF runState = "Continuing" THEN "Running" ELSE runState
    /\ UNCHANGED said

(* execute() prints a message, calls Func::mon and returns. *)
StopInMonitor(message) ==
    /\ slice' = Idle
    /\ runState' = "Cmd"
    /\ said' = message

(* A breakpoint stops the program except before the first instruction of *)
(* a slice that continues or steps.                                      *)
HitsBreakpoint ==
    /\ ~slice.firstTime \/ slice.runState = "Running"
    /\ AtBreakpoint(pc)

Break ==
    /\ slice.on
    /\ HitsBreakpoint
    /\ StopInMonitor("hit breakpoint")
    /\ fresh' = FALSE
    /\ UNCHANGED << bpVars, code, cpu, error, startAddr, startTime, input, session >>

-----------------------------------------------------------------------------
(* One iteration of execute() that fetches the instruction at pc. *)

Fetch(ops) == slice.on /\ ~HitsBreakpoint /\ code[pc].op \in ops

(* firstTime is only cleared while there are breakpoints. *)
StillFirst == slice.firstTime /\ ~haveBreakpoints

(* A slice that never ends *)
SpendNothing ==
    /\ slice' = [slice EXCEPT !.firstTime = StillFirst, !.runState = "Running"]
    /\ UNCHANGED << runState, said >>

Spend ==
    IF slice.left = 1
    THEN LeaveSlice
    ELSE /\ slice' = [slice EXCEPT !.firstTime = StillFirst, !.runState = "Running", !.left = @ - 1]
         /\ UNCHANGED << runState, said >>

(* A "s" that steps into nothing: calls run on *)
EndInstructionStepInRuns(depth) ==
    /\ prevOp' = code[pc].op
    /\ lastRunState' = IF slice.runState = "Running" THEN lastRunState ELSE slice.runState
    /\ subroutineDepth' = depth
    /\ IF slice.runState \in {"StepIn", "StepOver"} /\ ~CallsProgram(code[pc])
       THEN StopInMonitor("step in") ELSE Spend
    /\ Count
    /\ UNCHANGED << bpVars, code, error, startAddr, startTime >>

(* The end of the loop body (MC6809.cpp:866-919): the first instruction of *)
(* a stepping slice decides where to stop; depth is what the instruction   *)
(* made of _subroutineDepth.                                               *)
EndInstruction(depth) ==
    LET i == code[pc]
        entry == slice.runState
    IN  /\ prevOp' = i.op
        /\ lastRunState' = IF entry = "Running" THEN lastRunState ELSE entry
        /\ subroutineDepth' = IF entry = "StepOut" \/ (entry = "StepOver" /\ CallsProgram(i))
                              THEN 1 ELSE depth
        /\ CASE entry = "StepIn" -> StopInMonitor("step in")
             [] entry = "StepOver" /\ ~CallsProgram(i) -> StopInMonitor("step over")
             [] OTHER -> Spend
        /\ Count
        /\ UNCHANGED << bpVars, code, error, startAddr, startTime >>

DeeperCall == (subroutineDepth + 1) % DepthModulus
AfterReturnSigned == subroutineDepth - 1
AfterReturn == (subroutineDepth + DepthModulus - 1) % DepthModulus

(* An instruction run control does not care about *)
Plain ==
    /\ Fetch({"NOP"})
    /\ pc' = NextAddr(pc)
    /\ EndInstruction(subroutineDepth)
    /\ UNCHANGED << stack, input >>

(* Page2 and Page3 go straight to the next iteration. *)
Prefix ==
    /\ Fetch({"Page2"})
    /\ pc' = NextAddr(pc)
    /\ prevOp' = "Page2"
    /\ slice' = [slice EXCEPT !.firstTime = StillFirst]
    /\ UNCHANGED << bpVars, code, stack, subroutineDepth, lastRunState, error, runState, startAddr,
                    startTime, input, said, session >>

(* An illegal instruction that is noted and skipped *)
IllegalInstructionSkipped ==
    /\ Fetch({"ILL"})
    /\ pc' = NextAddr(pc)
    /\ error' = "Illegal"
    /\ Spend
    /\ Count
    /\ UNCHANGED << bpVars, code, stack, prevOp, subroutineDepth, lastRunState, startAddr, startTime,
                    input >>

IllegalInstruction ==
    /\ Fetch({"ILL"})
    /\ pc' = NextAddr(pc)
    /\ error' = "Illegal"
    /\ StopInMonitor(said)
    /\ Count
    /\ UNCHANGED << bpVars, code, stack, prevOp, subroutineDepth, lastRunState, startAddr, startTime,
                    input >>

Branch ==
    /\ Fetch({"Bcc"})
    /\ pc' \in {code[pc].ea, NextAddr(pc)}
    /\ EndInstruction(subroutineDepth)
    /\ UNCHANGED << stack, input >>

Jump ==
    /\ Fetch({"JMP"})
    /\ ~CallsSystem(code[pc])
    /\ pc' = code[pc].ea
    /\ EndInstruction(subroutineDepth)
    /\ UNCHANGED << stack, input >>

(* A call of the program's own code that does not count *)
CallUncounted ==
    /\ Fetch({"BSR", "JSR"})
    /\ CallsProgram(code[pc])
    /\ stack' = Append(stack, NextAddr(pc))
    /\ pc' = code[pc].ea
    /\ EndInstruction(subroutineDepth)
    /\ UNCHANGED input

Call ==
    /\ Fetch({"BSR", "JSR"})
    /\ CallsProgram(code[pc])
    /\ stack' = Append(stack, NextAddr(pc))
    /\ pc' = code[pc].ea
    /\ EndInstruction(DeeperCall)
    /\ UNCHANGED input

(* pop16(_s): below the bottom of the stack memory holds anything *)
PopTo(a) ==
    IF stack = << >> THEN a \in Addr /\ stack' = stack
    ELSE a = stack[Len(stack)] /\ stack' = SubSeq(stack, 1, Len(stack) - 1)

(* RTS stops a program that was stepped (MC6809.cpp:789-799). *)
Return ==
    /\ Fetch({"RTS"})
    /\ \E a \in Addr : PopTo(a) /\ pc' = a
    /\ IF lastRunState # "Running" /\ AfterReturn = 0
       THEN /\ subroutineDepth' = AfterReturn
            /\ StopInMonitor(IF lastRunState = "StepOver" THEN "step over" ELSE "step out")
            /\ Count
            /\ UNCHANGED << bpVars, code, prevOp, lastRunState, error, startAddr, startTime >>
       ELSE EndInstruction(AfterReturn)
    /\ UNCHANGED input

(* PULS ...,PC, and RTI: a return that does not count *)
PullPC ==
    /\ Fetch({"PULPC"})
    /\ \E a \in Addr : PopTo(a) /\ pc' = a
    /\ EndInstruction(subroutineDepth)
    /\ UNCHANGED input

(* JSR or JMP to a system function that returns TRUE: the three words *)
(* pushed for it are popped again.  getc reads the keyboard.          *)
SystemCall ==
    /\ Fetch({"JMP", "JSR"})
    /\ code[pc].ea \in {putc, getc}
    /\ pc' = NextAddr(pc)
    /\ input' = IF code[pc].ea = getc /\ input # << >> THEN Tail(input) ELSE input
    /\ EndInstruction(subroutineDepth)
    /\ UNCHANGED stack

(* A system function that returns FALSE: execute() pops two of the three *)
(* words it pushed and returns (MC6809.cpp:674-678).                     *)
FailingSystemCall ==
    /\ Fetch({"JMP", "JSR"})
    /\ CallsSystem(code[pc])
    /\ stack' = Append(stack, 0)
    /\ Count
    /\ UNCHANGED << bpVars, code, prevOp, subroutineDepth, lastRunState, error, startAddr, input >>

(* Func::exit reports and rewinds the program. *)
Exit ==
    /\ FailingSystemCall
    /\ code[pc].ea = exit
    /\ pc' = startAddr
    /\ StopInMonitor(IF startTime THEN "timing test" ELSE "exited")
    /\ startTime' = FALSE

Monitor ==
    /\ FailingSystemCall
    /\ code[pc].ea = mon
    /\ pc' = NextAddr(pc)
    /\ StopInMonitor(said)
    /\ UNCHANGED startTime

(* call() returns FALSE for a function it does not implement. *)
NoFunction ==
    /\ FailingSystemCall
    /\ code[pc].ea = noFunction
    /\ pc' = NextAddr(pc)
    /\ LeaveSlice
    /\ UNCHANGED startTime

Execute ==
    /\ \/ Plain \/ Prefix \/ IllegalInstruction \/ Branch \/ Jump \/ Call \/ Return \/ PullPC
       \/ SystemCall \/ Exit \/ Monitor \/ NoFunction
    /\ fresh' = FALSE

-----------------------------------------------------------------------------
(* while (boss9.continueExecution()) { } of main(), and what it calls *)
MainLoop == Poll \/ ReadKey \/ StartSlice \/ Break \/ Execute

Next ==
    \/ MainLoop
    \/ UserCommand
    \/ \E k \in Keys : Type(k)

Spec == Init /\ [][Next]_vars

(* main() calls continueExecution() for ever; nothing makes the user type. *)
FairSpec == Spec /\ WF_vars(MainLoop)

-----------------------------------------------------------------------------
(* Registers, locals, table and history keep their ranges: _subroutineDepth *)
(* wraps as a uint32_t and a slice never overruns its budget.               *)
TypeOK ==
    /\ BpTypeOK
    /\ code \in Programs
    /\ pc \in Addr
    /\ stack \in Seq(Addr)
    /\ prevOp \in Op
    /\ error \in {"None", "Illegal"}
    /\ subroutineDepth \in 0 .. DepthModulus - 1
    /\ lastRunState \in RunState
    /\ slice \in Slice
    /\ runState \in RunState
    /\ startAddr \in Addr
    /\ startTime \in BOOLEAN
    /\ input \in Seq(Keys)
    /\ said \in Messages
    /\ session \in Session
    /\ fresh \in BOOLEAN

(* An instruction at an enabled breakpoint runs in one case only: it is    *)
(* the first of a slice that resumes with "c" or steps, whatever was set,  *)
(* cleared or disabled before.  With "c" it is the very instruction that   *)
(* the command resumes from.  But "n" and "o" still step when the next     *)
(* slice starts, and each of their slices runs its first instruction with  *)
(* no look at the breakpoints (MC6809.cpp:349-365 and BOSS9.cpp:838-847).  *)
BreakpointEnabledAt(a) ==
    \E i \in Index : breakpoints[i].status = "Enabled" /\ breakpoints[i].addr = a

BreakpointsHonoured ==
    [][ Execute /\ BreakpointEnabledAt(pc) =>
          /\ fresh /\ session.cmd \in {"c", "s", "n", "o"}
          /\ session.cmd = "c" => session.done = 0 /\ pc = session.from ]_vars

(* "s" runs one instruction, prefixes included, and is back in the         *)
(* monitor (MC6809.cpp:871).                                               *)
StepInStops == session.cmd = "s" /\ session.done > 0 => session.done = 1 /\ runState = "Cmd"

(* "n" that reports its end is back where it was: after one instruction,   *)
(* or behind the call it stepped over with the stack as it was, however    *)
(* deep the subroutine called (MC6809.cpp:872-874, 880-885).               *)
StepOverReturns ==
    session.cmd = "n" /\ said = "step over" =>
        IF session.into THEN Len(stack) = session.base /\ pc = NextAddr(session.from)
        ELSE session.done = 1

(* The same as long as the subroutine returns within one slice. *)
StepOverReturnsInSlice == session.slices <= 1 => StepOverReturns

(* "o" that reports its end has left the subroutine it was in, and only    *)
(* that one (MC6809.cpp:875-876, 886).                                     *)
StepOutLeaves ==
    session.cmd = "o" /\ session.base > 0 /\ said = "step out" => Len(stack) = session.base - 1

(* The same if it does not start at a call or return, within one slice. *)
StepOutLeavesInSlice ==
    session.slices <= 1 /\ session.first # "RTS" /\ ~session.into => StepOutLeaves

(* Every ESC the user types brings the monitor back, whatever a program    *)
(* that does not read the keyboard itself does (README.md, Commands).      *)
EscReachesMonitor ==
    (\E i \in DOMAIN input : input[i] = "ESC") ~> (runState = "Cmd")

(* An unreported error belongs to the instruction refused last: since then *)
(* nothing ran, and PC has not moved from behind its opcode.  The report   *)
(* "Illegal Instruction error at addr" (BOSS9.cpp:272) therefore prints    *)
(* the address behind the illegal opcode, never that of the opcode.        *)
ErrorStops ==
    error = "Illegal" => runState = "Cmd" /\ \E a \in Addr : NextAddr(a) = pc /\ code[a].op = "ILL"
=============================================================================
