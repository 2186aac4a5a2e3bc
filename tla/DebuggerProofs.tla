--------------------------- MODULE DebuggerProofs ---------------------------
(***************************************************************************)
(* Proofs about Debugger, for any programs, any slice length and any size  *)
(* of the breakpoint table.                                                *)
(***************************************************************************)
EXTENDS Debugger, BreakpointsProofs

-----------------------------------------------------------------------------
(* Type correctness *)

(* The address behind an instruction is an address. *)
LEMMA NextAddrType == ASSUME NEW a \in Addr PROVE NextAddr(a) \in Addr
  BY DebuggerAssumption DEF NextAddr

(* No slice has the type of one. *)
LEMMA IdleType == Idle \in Slice
  BY DebuggerAssumption DEF Idle, Slice, RunState

(* The instruction at PC has the type of one. *)
LEMMA FetchType ==
    ASSUME TypeOK
    PROVE  code[pc] \in Instruction /\ code[pc].op \in Op /\ code[pc].ea \in Addr \union Func
<1>1. code[pc] \in Instruction
  BY DebuggerAssumption DEF TypeOK
<1>2. QED
  BY <1>1 DEF Instruction

(* The target of a branch, and of a jump or call below the system, is the *)
(* program's own code.                                                    *)
LEMMA BranchTargets ==
    ASSUME TypeOK
    PROVE  /\ code[pc].op \in {"Bcc", "BSR"} => code[pc].ea \in Addr
           /\ code[pc].ea < SystemAddrStart \/ ~(code[pc].ea >= SystemAddrStart) => code[pc].ea \in Addr
<1>1. code[pc] \in Instruction /\ code[pc].ea \in Addr \union Func
  BY FetchType
<1>2. code[pc].op \in {"Bcc", "BSR"} => code[pc].ea \in Addr
  BY <1>1 DEF Instruction
<1>3. ASSUME NEW a \in Func PROVE a >= SystemAddrStart /\ ~(a < SystemAddrStart)
  <2>1. SystemAddrStart \in Nat
    BY DebuggerAssumption
  <2>2. PICK k \in {0, 6, 14, 16, 2048} : a = SystemAddrStart + k
    BY <2>1 DEF Func, putc, getc, exit, mon, noFunction
  <2>3. QED
    BY <2>1, <2>2
<1>4. QED
  BY <1>1, <1>2, <1>3

(* The words on the stack are addresses, before and after a call or return. *)
LEMMA StackType ==
    ASSUME TypeOK
    PROVE  /\ \A a \in Addr : Append(stack, a) \in Seq(Addr)
           /\ stack # << >> => /\ stack[Len(stack)] \in Addr
                               /\ SubSeq(stack, 1, Len(stack) - 1) \in Seq(Addr)
<1>1. stack \in Seq(Addr)
  BY DEF TypeOK
<1>2. ASSUME stack # << >>
      PROVE  stack[Len(stack)] \in Addr /\ SubSeq(stack, 1, Len(stack) - 1) \in Seq(Addr)
  <2>1. Len(stack) \in Nat \ {0}
    BY <1>1, <1>2
  <2>2. QED
    BY <1>1, <2>1
<1>3. QED
  BY <1>1, <1>2

(* Counting an instruction keeps the type of the session. *)
LEMMA CountType == ASSUME TypeOK, Count PROVE session' \in Session
<1>1. code[pc].op \in Op /\ CallsProgram(code[pc]) \in BOOLEAN
  BY FetchType DEF CallsProgram
<1>2. session \in Session /\ pc \in Addr
  BY DEF TypeOK
<1>3. More(session.done) \in 0 .. 2
  BY <1>2 DEF Session, More
<1>4. CASE RunsSubroutine(session.cmd) /\ session.done = 0
  <2>1. session' = [session EXCEPT !.done = 1, !.first = code[pc].op, !.into = CallsProgram(code[pc]),
                                   !.from = pc]
    BY <1>4 DEF Count
  <2>2. PICK c \in {"start", "r", "time", "c", "s", "n", "o"}, b \in Nat, k \in 0 .. 2 :
            c = session.cmd /\ b = session.base /\ k = session.slices
    BY <1>2 DEF Session
  <2>3. session' = [cmd |-> c, from |-> pc, done |-> 1, base |-> b, first |-> code[pc].op,
                    into |-> CallsProgram(code[pc]), slices |-> k]
    BY <1>2, <2>1, <2>2 DEF Session
  <2>4. QED
    BY <1>1, <1>2, <2>3 DEF Session
<1>5. CASE ~(RunsSubroutine(session.cmd) /\ session.done = 0)
  <2>1. session' = [session EXCEPT !.done = More(@)]
    BY <1>5 DEF Count
  <2>2. QED
    BY <1>2, <1>3, <2>1 DEF Session
<1>6. QED
  BY <1>4, <1>5

(* Spending the budget of a slice keeps its type. *)
LEMMA SpendType ==
    ASSUME TypeOK, Spend
    PROVE  slice' \in Slice /\ runState' \in RunState /\ said' \in Messages
<1>1. CASE slice.left = 1
  BY <1>1, IdleType DEF Spend, LeaveSlice, TypeOK, RunState
<1>2. CASE slice.left # 1
  <2>1. slice.left - 1 \in 1 .. Quantum
    BY <1>2, DebuggerAssumption DEF TypeOK, Slice
  <2>2. StillFirst \in BOOLEAN
    BY DEF StillFirst
  <2>3. QED
    BY <1>2, <2>1, <2>2 DEF Spend, TypeOK, Slice, RunState
<1>3. QED
  BY <1>1, <1>2

(* The end of an instruction keeps the types of what it sets. *)
LEMMA EndType ==
    ASSUME TypeOK, NEW depth \in 0 .. DepthModulus - 1, EndInstruction(depth)
    PROVE  /\ prevOp' \in Op
           /\ lastRunState' \in RunState
           /\ subroutineDepth' \in 0 .. DepthModulus - 1
           /\ slice' \in Slice /\ runState' \in RunState /\ said' \in Messages
           /\ session' \in Session
           /\ UNCHANGED << bpVars, code, error, startAddr, startTime >>
<1> USE DebuggerAssumption
<1>1. prevOp' \in Op /\ lastRunState' \in RunState /\ subroutineDepth' \in 0 .. DepthModulus - 1
  <2>1. prevOp' \in Op
    BY FetchType DEF EndInstruction
  <2>2. slice.runState \in RunState /\ lastRunState \in RunState
    BY DEF TypeOK, Slice
  <2>3. lastRunState' \in RunState
    BY <2>2 DEF EndInstruction
  <2>4. subroutineDepth' = 1 \/ subroutineDepth' = depth
    BY DEF EndInstruction
  <2>5. QED
    BY <2>1, <2>3, <2>4
<1>2. slice' \in Slice /\ runState' \in RunState /\ said' \in Messages
  <2>1. CASE Spend
    BY <2>1, SpendType
  <2>2. CASE StopInMonitor("step in") \/ StopInMonitor("step over")
    BY <2>2, IdleType DEF StopInMonitor, RunState, Messages
  <2>3. QED
    BY <2>1, <2>2 DEF EndInstruction
<1>3. session' \in Session
  BY CountType DEF EndInstruction
<1>4. QED
  BY <1>1, <1>2, <1>3 DEF EndInstruction

(* _subroutineDepth wraps around within its range. *)
LEMMA DepthType ==
    ASSUME TypeOK
    PROVE  DeeperCall \in 0 .. DepthModulus - 1 /\ AfterReturn \in 0 .. DepthModulus - 1
<1> USE DebuggerAssumption DEF TypeOK
<1>1. subroutineDepth + 1 \in Nat /\ subroutineDepth + DepthModulus - 1 \in Nat
  OBVIOUS
<1>2. \A n \in Nat : n % DepthModulus \in 0 .. DepthModulus - 1
  OBVIOUS
<1>3. QED
  BY <1>1, <1>2 DEF DeeperCall, AfterReturn

(* A new session has the type of one. *)
LEMMA NewSessionType ==
    ASSUME NEW c \in {"start", "r", "time", "c", "s", "n", "o"}, NEW a \in Addr, NEW w \in Nat
    PROVE  NewSession(c, a, w) \in Session
<1>1. (IF RunsSubroutine(c) THEN w ELSE 0) \in Nat
  OBVIOUS
<1>2. QED
  BY <1>1 DEF NewSession, Session, Op

(* The types hold initially. *)
LEMMA TypeInit == Init => TypeOK
<1> SUFFICES ASSUME Init PROVE TypeOK
  OBVIOUS
<1> USE DebuggerAssumption
<1>1. BpTypeOK
  BY BpInitInv DEF Init, BpInv
<1>2. slice \in Slice
  BY IdleType DEF Init
<1>3. session \in Session
  <2>1. startAddr \in Addr
    BY DEF Init
  <2>2. session = NewSession("start", startAddr, 0)
    BY DEF Init
  <2>3. QED
    BY <2>1, <2>2, NewSessionType
<1>4. /\ pc \in Addr /\ code \in Programs /\ startAddr \in Addr
      /\ stack \in Seq(Addr) /\ input \in Seq(Keys)
  BY EmptySeq DEF Init
<1>5. /\ prevOp \in Op /\ error \in {"None", "Illegal"} /\ lastRunState \in RunState
      /\ runState \in RunState /\ said \in Messages
  BY DEF Init, Op, RunState, Messages
<1>6. subroutineDepth \in 0 .. DepthModulus - 1 /\ startTime \in BOOLEAN
  <2>1. 0 \in 0 .. DepthModulus - 1
    OBVIOUS
  <2>2. subroutineDepth = 0 /\ startTime = FALSE
    BY DEF Init
  <2>3. QED
    BY <2>1, <2>2
<1>7. fresh \in BOOLEAN
  BY DEF Init
<1>8. QED
  BY <1>1, <1>2, <1>3, <1>4, <1>5, <1>6, <1>7 DEF TypeOK

(* The monitor's breakpoint commands are operations of the table: the      *)
(* number typed, cut to 8 bits, is checked by each of them.                *)
LEMMA BreakpointCommandStep == BreakpointCommand => BpNext
<1> SUFFICES ASSUME BreakpointCommand PROVE BpNext
  OBVIOUS
<1> USE DebuggerAssumption
<1>1. CASE \E a \in UserAddr : SetBreakpoint(a)
  BY <1>1 DEF BpNext
<1>2. ASSUME NEW n \in UserIndex, ClearBreakpoint(n % 256) PROVE BpNext
  BY <1>2 DEF BpNext, ClearBreakpoint, InUse
<1>3. ASSUME NEW n \in UserIndex, DisableBreakpoint(n % 256) PROVE BpNext
  BY <1>3 DEF BpNext, DisableBreakpoint, InUse
<1>4. ASSUME NEW n \in UserIndex, EnableBreakpoint(n % 256) PROVE BpNext
  BY <1>4 DEF BpNext, EnableBreakpoint, InUse
<1>5. CASE ClearAllBreakpoints \/ DisableAllBreakpoints \/ EnableAllBreakpoints
  BY <1>5 DEF BpNext
<1>6. QED
  BY <1>1, <1>2, <1>3, <1>4, <1>5 DEF BreakpointCommand

(* What each group of actions does to the types *)

(* Every command of the user keeps the types. *)
LEMMA CommandType ==
    ASSUME TypeOK, BpInv, UserCommand
    PROVE  TypeOK'
<1> USE DebuggerAssumption
<1>1. ASSUME NEW c \in {"r", "time", "c", "s", "n", "o"}, NEW rs \in RunState, NEW a \in Addr,
             Resume(c, rs, a), startAddr' \in Addr, startTime' \in BOOLEAN
      PROVE  TypeOK'
  <2>1. session' \in Session
    <3>1. Len(stack) \in Nat
      BY DEF TypeOK
    <3>2. QED
      BY <1>1, <3>1, NewSessionType DEF Resume
  <2>2. error' \in {"None", "Illegal"} /\ pc' \in Addr /\ runState' \in RunState /\ said' \in Messages
    BY <1>1 DEF Resume, Command, GetCommand, Messages
  <2>3. UNCHANGED << bpVars, code, stack, prevOp, subroutineDepth, lastRunState, slice, input, fresh >>
    BY <1>1 DEF Resume
  <2>4. QED
    BY <1>1, <2>1, <2>2, <2>3 DEF TypeOK, bpVars, BpTypeOK
<1>2. ASSUME NEW a \in UserAddr \union {startAddr}, Run(a) PROVE TypeOK'
  <2>1. a \in Addr /\ startTime' \in BOOLEAN /\ startAddr' = a
    BY <1>2 DEF TypeOK, Run
  <2>2. Resume("r", "Running", a)
    BY <1>2 DEF Run
  <2>3. QED
    BY <1>1, <2>1, <2>2 DEF RunState
<1>3. CASE Time
  <2>1. startAddr \in Addr /\ startTime' \in BOOLEAN /\ startAddr' = startAddr
    BY <1>3 DEF TypeOK, Time
  <2>2. Resume("time", "Running", startAddr)
    BY <1>3 DEF Time
  <2>3. QED
    BY <1>1, <2>1, <2>2 DEF RunState
<1>4. ASSUME NEW c \in {"c", "s", "n", "o"}, NEW rs \in RunState, Resume(c, rs, pc),
             UNCHANGED << startAddr, startTime >>
      PROVE  TypeOK'
  <2>1. pc \in Addr /\ startAddr' \in Addr /\ startTime' \in BOOLEAN
    BY <1>4 DEF TypeOK
  <2>2. QED
    BY <1>1, <1>4, <2>1
<1>5. CASE Continue
  BY <1>4, <1>5 DEF Continue, RunState
<1>6. CASE Step("s", "StepIn") \/ Step("n", "StepOver") \/ Step("o", "StepOut")
  BY <1>4, <1>6 DEF Step, RunState
<1>7. ASSUME NEW a \in UserAddr, SetAddr(a) PROVE TypeOK'
  <2>1. error' \in {"None", "Illegal"} /\ pc' \in Addr /\ said' \in Messages
    BY <1>7 DEF SetAddr, Command, GetCommand, Messages
  <2>2. QED
    BY <1>7, <2>1 DEF SetAddr, TypeOK, bpVars, BpTypeOK
<1>8. CASE BreakpointCommand
  <2>1. error' \in {"None", "Illegal"}
    BY <1>8 DEF BreakpointCommand, Command, GetCommand
  <2>2. BpTypeOK'
    BY <1>8, BreakpointCommandStep, BpStepInv DEF BpInv
  <2>3. QED
    BY <1>8, <2>1, <2>2 DEF BreakpointCommand, cpu, TypeOK
<1>9. QED
  BY <1>2, <1>3, <1>5, <1>6, <1>7, <1>8 DEF UserCommand

(* Every iteration of the loop keeps the types. *)
LEMMA ExecuteType ==
    ASSUME TypeOK, Execute
    PROVE  TypeOK'
<1> USE DebuggerAssumption
<1>0. /\ pc \in Addr /\ NextAddr(pc) \in Addr /\ stack \in Seq(Addr) /\ input \in Seq(Keys)
      /\ code \in Programs /\ subroutineDepth \in 0 .. DepthModulus - 1 /\ startAddr \in Addr
      /\ BpTypeOK /\ fresh' \in BOOLEAN
  BY NextAddrType DEF TypeOK, Execute
<1>1. ASSUME NEW depth \in 0 .. DepthModulus - 1, EndInstruction(depth),
             pc' \in Addr, stack' \in Seq(Addr), input' \in Seq(Keys)
      PROVE  TypeOK'
  BY <1>0, <1>1, EndType DEF TypeOK, bpVars, BpTypeOK
<1>2. CASE Plain
  BY <1>0, <1>1, <1>2 DEF Plain
<1>3. CASE Branch
  <2>1. pc' \in Addr
    BY <1>0, <1>3, BranchTargets DEF Branch, Fetch
  <2>2. QED
    BY <1>0, <1>1, <1>3, <2>1 DEF Branch
<1>4. CASE Jump
  <2>1. pc' \in Addr
    BY <1>4, BranchTargets DEF Jump, Fetch, CallsSystem
  <2>2. QED
    BY <1>0, <1>1, <1>4, <2>1 DEF Jump
<1>5. CASE Call
  <2>1. pc' \in Addr
    BY <1>5, BranchTargets DEF Call, Fetch, CallsProgram
  <2>2. stack' \in Seq(Addr)
    BY <1>0, <1>5, StackType DEF Call
  <2>3. QED
    BY <1>0, <1>1, <1>5, <2>1, <2>2, DepthType DEF Call
<1>6. ASSUME NEW a \in Addr, PopTo(a) PROVE stack' \in Seq(Addr)
  BY <1>0, <1>6, StackType DEF PopTo
<1>7. CASE PullPC
  <2>1. pc' \in Addr /\ stack' \in Seq(Addr)
    BY <1>6, <1>7 DEF PullPC
  <2>2. QED
    BY <1>0, <1>1, <1>7, <2>1 DEF PullPC
<1>8. CASE Return
  <2>1. pc' \in Addr /\ stack' \in Seq(Addr) /\ input' \in Seq(Keys)
    BY <1>0, <1>6, <1>8 DEF Return
  <2>2. CASE EndInstruction(AfterReturn)
    BY <1>1, <2>1, <2>2, DepthType
  <2>3. CASE lastRunState # "Running" /\ AfterReturn = 0
    <3>1. slice' = Idle /\ runState' = "Cmd" /\ said' \in {"step over", "step out"} /\ Count
          /\ subroutineDepth' = AfterReturn
          /\ UNCHANGED << bpVars, code, prevOp, lastRunState, error, startAddr, startTime >>
      BY <1>8, <2>3 DEF Return, StopInMonitor
    <3>2. slice' \in Slice /\ runState' \in RunState /\ said' \in Messages /\ session' \in Session
      BY <3>1, IdleType, CountType DEF RunState, Messages
    <3>3. QED
      BY <1>0, <2>1, <3>1, <3>2, DepthType DEF TypeOK, bpVars, BpTypeOK
  <2>4. QED
    BY <1>8, <2>2, <2>3 DEF Return
<1>9. CASE SystemCall
  <2>1. input' \in Seq(Keys)
    BY <1>0, <1>9, HeadTailProperties DEF SystemCall
  <2>2. QED
    BY <1>0, <1>1, <1>9, <2>1 DEF SystemCall
<1>10. CASE Prefix
  <2>1. slice' \in Slice
    BY <1>10 DEF Prefix, StillFirst, TypeOK, Slice
  <2>2. prevOp' \in Op /\ pc' \in Addr
    BY <1>0, <1>10 DEF Prefix, Op
  <2>3. QED
    BY <1>0, <1>10, <2>1, <2>2 DEF Prefix, TypeOK, bpVars, BpTypeOK
<1>11. CASE IllegalInstruction
  <2>1. slice' \in Slice /\ runState' \in RunState /\ said' \in Messages /\ session' \in Session
    BY <1>11, IdleType, CountType DEF IllegalInstruction, StopInMonitor, TypeOK, RunState
  <2>2. error' \in {"None", "Illegal"} /\ pc' \in Addr
    BY <1>0, <1>11 DEF IllegalInstruction
  <2>3. QED
    BY <1>0, <1>11, <2>1, <2>2 DEF IllegalInstruction, TypeOK, bpVars, BpTypeOK
<1>12. ASSUME FailingSystemCall, slice' = Idle, runState' \in RunState, said' \in Messages,
              pc' \in Addr, startTime' \in BOOLEAN
       PROVE  TypeOK'
  <2>1. stack' \in Seq(Addr) /\ session' \in Session /\ slice' \in Slice
    BY <1>12, StackType, CountType, IdleType DEF FailingSystemCall
  <2>2. QED
    BY <1>0, <1>12, <2>1 DEF FailingSystemCall, TypeOK, bpVars, BpTypeOK
<1>13. CASE Exit
  BY <1>0, <1>12, <1>13 DEF Exit, StopInMonitor, RunState, Messages
<1>14. CASE Monitor
  BY <1>0, <1>12, <1>14 DEF Monitor, StopInMonitor, RunState, TypeOK
<1>15. CASE NoFunction
  BY <1>0, <1>12, <1>15 DEF NoFunction, LeaveSlice, RunState, TypeOK
<1>16. QED
  BY <1>2, <1>3, <1>4, <1>5, <1>7, <1>8, <1>9, <1>10, <1>11, <1>13, <1>14, <1>15 DEF Execute

(* Every step keeps the types. *)
LEMMA TypeStep ==
    ASSUME TypeOK, BpInv, [Next]_vars
    PROVE  TypeOK'
<1> USE DebuggerAssumption
<1>1. CASE UserCommand
  BY <1>1, CommandType
<1>2. CASE Execute
  BY <1>2, ExecuteType
<1>3. ASSUME NEW k \in Keys, Type(k) PROVE TypeOK'
  <2>1. input' \in Seq(Keys)
    BY <1>3 DEF Type, TypeOK
  <2>2. QED
    BY <1>3, <2>1 DEF Type, TypeOK, cpu, bpVars, BpTypeOK
<1>4. CASE Poll
  BY <1>4 DEF Poll, GetCommand, TypeOK, cpu, bpVars, BpTypeOK
<1>5. CASE ReadKey
  <2>1. input' \in Seq(Keys) /\ said' \in Messages /\ error' \in {"None", "Illegal"}
    BY <1>5, HeadTailProperties DEF ReadKey, GetCommand, TypeOK, Messages
  <2>2. QED
    BY <1>5, <2>1 DEF ReadKey, TypeOK, cpu, bpVars, BpTypeOK
<1>6. CASE StartSlice
  <2>1. input' \in Seq(Keys)
    BY <1>6, HeadTailProperties DEF StartSlice, TypeOK
  <2>2. slice' \in Slice /\ runState' \in RunState /\ said' \in Messages /\ session' \in Session
    <3>1. [Idle EXCEPT !.on = TRUE, !.runState = runState] \in Slice
      <4>1. runState \in RunState /\ Quantum \in 1 .. Quantum
        BY DEF TypeOK
      <4>2. QED
        BY <4>1 DEF Slice, Idle
    <3>2. ASSUME CountSlice PROVE session' \in Session
      <4>1. session \in Session
        BY DEF TypeOK
      <4>2. More(session.slices) \in 0 .. 2
        BY <4>1 DEF Session, More
      <4>3. [session EXCEPT !.slices = More(@)] \in Session
        BY <4>1, <4>2 DEF Session
      <4>4. QED
        BY <3>2, <4>1, <4>3 DEF CountSlice
    <3>3. QED
      BY <1>6, <3>1, <3>2 DEF StartSlice, TypeOK, RunState, Messages
  <2>3. fresh' \in BOOLEAN
    BY <1>6 DEF StartSlice, TypeOK
  <2>4. QED
    BY <1>6, <2>1, <2>2, <2>3 DEF StartSlice, TypeOK, cpu, bpVars, BpTypeOK
<1>7. CASE Break
  BY <1>7, IdleType DEF Break, StopInMonitor, TypeOK, cpu, bpVars, BpTypeOK, RunState, Messages
<1>8. CASE UNCHANGED vars
  BY <1>8 DEF vars, TypeOK, cpu, bpVars, BpTypeOK
<1>9. QED
  BY <1>1, <1>2, <1>3, <1>4, <1>5, <1>6, <1>7, <1>8 DEF Next, MainLoop

-----------------------------------------------------------------------------
(* The breakpoint table inside the debugger *)

(* No instruction changes the table. *)
LEMMA ExecuteKeepsTable == Execute => UNCHANGED << bpVars, code >>
<1>1. ASSUME NEW depth, EndInstruction(depth) PROVE UNCHANGED << bpVars, code >>
  BY <1>1 DEF EndInstruction
<1>2. Plain \/ Branch \/ Jump \/ Call \/ PullPC \/ SystemCall => UNCHANGED << bpVars, code >>
  BY <1>1 DEF Plain, Branch, Jump, Call, PullPC, SystemCall
<1>3. Return => UNCHANGED << bpVars, code >>
  BY <1>1 DEF Return
<1>4. Prefix \/ IllegalInstruction => UNCHANGED << bpVars, code >>
  BY DEF Prefix, IllegalInstruction
<1>5. Exit \/ Monitor \/ NoFunction => UNCHANGED << bpVars, code >>
  BY DEF Exit, Monitor, NoFunction, FailingSystemCall
<1>6. QED
  BY <1>2, <1>3, <1>4, <1>5 DEF Execute

(* Every step is one of the table or leaves it alone. *)
LEMMA TableStep == [Next]_vars => [BpNext]_bpVars
<1>1. UserCommand => [BpNext]_bpVars
  BY BreakpointCommandStep DEF UserCommand, Run, Time, Continue, Step, Resume, SetAddr
<1>2. MainLoop => UNCHANGED bpVars
  BY ExecuteKeepsTable DEF MainLoop, Poll, ReadKey, StartSlice, Break
<1>3. ASSUME NEW k \in Keys, Type(k) PROVE UNCHANGED bpVars
  BY <1>3 DEF Type
<1>4. UNCHANGED vars => UNCHANGED bpVars
  BY DEF vars
<1>5. QED
  BY <1>1, <1>2, <1>3, <1>4 DEF Next

(* Seen from the breakpoint table the whole monitor is a sequence of the   *)
(* operations of class Emulator: what is proved of BpSpec holds of it,     *)
(* whatever number the user types (BOSS9.cpp:529-635).                     *)
THEOREM TableInDebugger == Spec => BpSpec
<1>1. Init => BpInit
  BY DEF Init
<1>2. QED
  BY <1>1, TableStep, PTL DEF Spec, BpSpec

(* The flag execute() trusts is exact whenever the program runs. *)
THEOREM FlagIsExactInDebugger == Spec => []FlagExact
  BY TableInDebugger, FlagIsExact, PTL

(* The state of the monitor and the emulator keeps its type. *)
THEOREM TypeCorrect == Spec => []TypeOK
<1>1. Init => TypeOK
  BY TypeInit
<1>2. TypeOK /\ BpInv /\ [Next]_vars => TypeOK'
  BY TypeStep
<1>3. Spec => []BpInv
  BY TableInDebugger, BpInvariance, PTL
<1>4. QED
  BY <1>1, <1>2, <1>3, PTL DEF Spec

-----------------------------------------------------------------------------
(* Breakpoints are honoured.                                               *)
(*                                                                         *)
(* What has to be known of the past: the exception for the first           *)
(* instruction is only open before the first iteration of a slice, only    *)
(* after "c" or a stepping command, and after "c" nothing has run since    *)
(* the command.                                                            *)

NothingRan == session.done = 0 /\ pc = session.from

(* A slice in which the exception is still open *)
ExceptionOpen == slice.firstTime /\ slice.runState # "Running" /\ haveBreakpoints

ResumeInv ==
    /\ ~slice.on => slice.runState = "Running"
    /\ slice.on /\ ExceptionOpen => fresh
    /\ session.cmd \in {"start", "r", "time"} =>
          runState \in {"Cmd", "Running"} /\ slice.runState = "Running"
    /\ session.cmd = "c" =>
          /\ runState \in {"Cmd", "Running", "Continuing"}
          /\ runState = "Continuing" /\ ~slice.on => NothingRan
          /\ slice.on /\ ExceptionOpen => NothingRan

(* How an instruction can leave the slice and the main loop: it returns to *)
(* the monitor, ends the slice, uses some of it up, or was a prefix.       *)
SliceStep ==
    \/ slice' = Idle /\ runState' = "Cmd"
    \/ LeaveSlice
    \/ slice'.on /\ slice'.runState = "Running" /\ runState' = runState
    \/ Prefix

(* Spending the budget keeps or ends the slice. *)
LEMMA SpendStep == ASSUME TypeOK, slice.on, Spend PROVE SliceStep
<1>1. CASE slice.left = 1
  BY <1>1 DEF Spend, SliceStep
<1>2. CASE slice.left # 1
  BY <1>2 DEF Spend, SliceStep, TypeOK, Slice
<1>3. QED
  BY <1>1, <1>2

(* Counting an instruction keeps the session's command. *)
LEMMA CountKeepsCommand == ASSUME TypeOK, Count PROVE session'.cmd = session.cmd
  BY DEF Count, TypeOK, Session

(* Every iteration of the loop keeps or ends the slice. *)
LEMMA ExecuteStep ==
    ASSUME TypeOK, Execute
    PROVE  SliceStep /\ session'.cmd = session.cmd /\ slice.on /\ UNCHANGED haveBreakpoints
<1>1. ASSUME NEW depth, slice.on, EndInstruction(depth) PROVE SliceStep /\ session'.cmd = session.cmd
  <2>1. Count /\ (Spend \/ StopInMonitor("step in") \/ StopInMonitor("step over"))
    BY <1>1 DEF EndInstruction
  <2>2. QED
    BY <1>1, <2>1, SpendStep, CountKeepsCommand DEF StopInMonitor, SliceStep
<1>2. slice.on
  BY DEF Execute, Plain, Prefix, IllegalInstruction, Branch, Jump, Call, Return, PullPC, SystemCall,
         Exit, Monitor, NoFunction, FailingSystemCall, Fetch
<1>3. UNCHANGED haveBreakpoints
  BY ExecuteKeepsTable DEF bpVars
<1>4. CASE Plain \/ Branch \/ Jump \/ Call \/ PullPC \/ SystemCall
  BY <1>1, <1>2, <1>3, <1>4 DEF Plain, Branch, Jump, Call, PullPC, SystemCall
<1>5. CASE Return
  <2>1. ((\E message \in Messages : StopInMonitor(message)) /\ Count) \/ EndInstruction(AfterReturn)
    BY <1>5 DEF Return, Messages
  <2>2. QED
    BY <1>1, <1>2, <1>3, <2>1, CountKeepsCommand DEF StopInMonitor, SliceStep
<1>6. CASE Prefix
  BY <1>2, <1>3, <1>6 DEF SliceStep, Prefix
<1>7. CASE IllegalInstruction
  BY <1>2, <1>3, <1>7, CountKeepsCommand DEF IllegalInstruction, StopInMonitor, SliceStep
<1>8. CASE Exit \/ Monitor \/ NoFunction
  BY <1>2, <1>3, <1>8, CountKeepsCommand
     DEF Exit, Monitor, NoFunction, FailingSystemCall, StopInMonitor, SliceStep
<1>9. QED
  BY <1>2, <1>4, <1>5, <1>6, <1>7, <1>8 DEF Execute

(* ResumeInv holds initially. *)
LEMMA ResumeInit == Init => ResumeInv
<1> SUFFICES ASSUME Init PROVE ResumeInv
  OBVIOUS
<1>1. slice.runState = "Running"
  BY DEF Init, Idle
<1>2. session.cmd = "start" /\ runState \in {"Cmd", "Running"}
  BY DEF Init, NewSession
<1>3. QED
  BY <1>1, <1>2 DEF ResumeInv, ExceptionOpen

(* Every command of the user keeps ResumeInv. *)
LEMMA CommandResume == ASSUME TypeOK, ResumeInv, UserCommand PROVE ResumeInv'
<1>0. ~slice.on /\ slice.runState = "Running" /\ runState = "Cmd"
  <2>1. ~slice.on /\ runState = "Cmd"
    BY DEF UserCommand, Run, Time, Continue, Step, Resume, SetAddr, BreakpointCommand, Command, GetCommand
  <2>2. QED
    BY <2>1 DEF ResumeInv
<1>1. ASSUME NEW c, NEW rs, NEW a, Resume(c, rs, a)
      PROVE  /\ session'.cmd = c /\ session'.done = 0 /\ session'.from = a /\ pc' = a
             /\ runState' = rs /\ slice' = slice
  BY <1>1 DEF Resume, NewSession
<1>2. ASSUME NEW a, Resume("r", "Running", a) \/ Resume("time", "Running", a) PROVE ResumeInv'
  BY <1>0, <1>1, <1>2 DEF ResumeInv
<1>3. CASE Continue
  BY <1>0, <1>1, <1>3 DEF Continue, ResumeInv, NothingRan, ExceptionOpen
<1>4. CASE Step("s", "StepIn") \/ Step("n", "StepOver") \/ Step("o", "StepOut")
  BY <1>0, <1>1, <1>4 DEF Step, ResumeInv
<1>5. ASSUME NEW a, SetAddr(a) PROVE ResumeInv'
  BY <1>0, <1>5 DEF SetAddr, ResumeInv, NothingRan, ExceptionOpen
<1>6. CASE BreakpointCommand
  BY <1>0, <1>6 DEF BreakpointCommand, ResumeInv, NothingRan, ExceptionOpen, cpu
<1>7. QED
  BY <1>2, <1>3, <1>4, <1>5, <1>6 DEF UserCommand, Run, Time

(* Every iteration of the loop keeps ResumeInv. *)
LEMMA ExecuteResume == ASSUME TypeOK, ResumeInv, Execute PROVE ResumeInv'
<1>1. session'.cmd = session.cmd /\ slice.on /\ UNCHANGED haveBreakpoints
  BY ExecuteStep
<1>2. CASE slice' = Idle /\ runState' = "Cmd"
  BY <1>1, <1>2 DEF ResumeInv, Idle
<1>3. CASE LeaveSlice
  BY <1>1, <1>3 DEF ResumeInv, Idle, LeaveSlice
<1>4. CASE slice'.on /\ slice'.runState = "Running" /\ runState' = runState
  BY <1>1, <1>4 DEF ResumeInv, ExceptionOpen
<1>5. CASE Prefix
  <2>1. slice'.on /\ slice'.runState = slice.runState /\ slice'.firstTime = StillFirst
        /\ runState' = runState
    BY <1>1, <1>5 DEF Prefix, TypeOK, Slice
  <2>2. ~ExceptionOpen'
    BY <1>1, <2>1 DEF ExceptionOpen, StillFirst
  <2>3. QED
    BY <1>1, <2>1, <2>2 DEF ResumeInv
<1>6. QED
  BY <1>2, <1>3, <1>4, <1>5, ExecuteStep DEF SliceStep

(* Every step keeps ResumeInv. *)
LEMMA ResumeStep == ASSUME TypeOK, ResumeInv, [Next]_vars PROVE ResumeInv'
<1>1. CASE UserCommand
  BY <1>1, CommandResume
<1>2. CASE Execute
  BY <1>2, ExecuteResume
<1>3. ASSUME NEW k \in Keys, Type(k) PROVE ResumeInv'
  BY <1>3 DEF Type, ResumeInv, NothingRan, ExceptionOpen, cpu, bpVars
<1>4. CASE Poll \/ ReadKey
  BY <1>4 DEF Poll, ReadKey, ResumeInv, NothingRan, ExceptionOpen, cpu, bpVars
<1>5. CASE StartSlice
  <2>0. UNCHANGED << haveBreakpoints, pc >>
    BY <1>5 DEF StartSlice, bpVars, cpu
  <2>1. CASE runState' = "Cmd" /\ UNCHANGED << slice, session >>
    BY <1>5, <2>0, <2>1 DEF StartSlice, ResumeInv
  <2>2. CASE slice' = [Idle EXCEPT !.on = TRUE, !.runState = runState] /\ CountSlice
             /\ runState' = runState /\ fresh' = TRUE
    <3>1. slice'.on /\ slice'.runState = runState
      BY <2>2 DEF Idle
    <3>2. /\ session'.cmd = session.cmd /\ session'.done = session.done
          /\ session'.from = session.from
      BY <2>2 DEF CountSlice, TypeOK, Session
    <3>3. ~slice.on /\ runState # "Cmd"
      BY <1>5 DEF StartSlice
    <3>4. QED
      BY <2>0, <2>2, <3>1, <3>2, <3>3 DEF ResumeInv, NothingRan, ExceptionOpen
  <2>3. QED
    BY <1>5, <2>1, <2>2 DEF StartSlice
<1>6. CASE Break
  BY <1>6 DEF Break, StopInMonitor, ResumeInv, Idle
<1>7. CASE UNCHANGED vars
  BY <1>7 DEF vars, ResumeInv, NothingRan, ExceptionOpen, cpu, bpVars
<1>8. QED
  BY <1>1, <1>2, <1>3, <1>4, <1>5, <1>6, <1>7 DEF Next, MainLoop

(* The exception for the first instruction is only open where ResumeInv says. *)
THEOREM ResumeInvariance == Spec => []ResumeInv
<1>1. Init => ResumeInv
  BY ResumeInit
<1>2. TypeOK /\ ResumeInv /\ [Next]_vars => ResumeInv'
  BY ResumeStep
<1>3. QED
  BY <1>1, <1>2, TypeCorrect, PTL DEF Spec

(* An enabled breakpoint at pc is one execute() would stop at. *)
LEMMA EnabledIsAt ==
    ASSUME TypeOK, FlagExact, NEW a \in Addr, BreakpointEnabledAt(a)
    PROVE  haveBreakpoints /\ AtBreakpoint(a)
<1>1. PICK i \in Index : breakpoints[i].status = "Enabled" /\ breakpoints[i].addr = a
  BY DEF BreakpointEnabledAt
<1>2. breakpoints[i] = [addr |-> a, status |-> "Enabled"]
  BY <1>1 DEF TypeOK, BpTypeOK, BreakpointEntry
<1>3. haveBreakpoints
  BY <1>1 DEF FlagExact, AnyEnabled
<1>4. QED
  BY <1>2, <1>3 DEF AtBreakpoint

(* An instruction at an enabled breakpoint runs only as the first of a     *)
(* slice that resumes with "c" or steps, with "c" only if it is the one    *)
(* resumed from: for every program, every slice length, every size of the  *)
(* table and every sequence of commands, keys and instructions.            *)
THEOREM BreakpointsAreHonoured == Spec => BreakpointsHonoured
<1> DEFINE Excepted == /\ fresh /\ session.cmd \in {"c", "s", "n", "o"}
                       /\ session.cmd = "c" => session.done = 0 /\ pc = session.from
<1>1. ASSUME TypeOK, ResumeInv, FlagExact, Execute, BreakpointEnabledAt(pc)
      PROVE  Excepted
  <2>1. haveBreakpoints /\ AtBreakpoint(pc)
    <3>1. pc \in Addr
      BY <1>1 DEF TypeOK
    <3>2. QED
      BY <1>1, <3>1, EnabledIsAt
  <2>2. slice.on /\ ~HitsBreakpoint
    BY <1>1 DEF Execute, Plain, Prefix, IllegalInstruction, Branch, Jump, Call, Return, PullPC,
                SystemCall, Exit, Monitor, NoFunction, FailingSystemCall, Fetch
  <2>3. slice.on /\ ExceptionOpen
    BY <2>1, <2>2 DEF HitsBreakpoint, ExceptionOpen
  <2>4. fresh /\ session.cmd \in {"c", "s", "n", "o"}
    BY <1>1, <2>3 DEF ResumeInv, ExceptionOpen, TypeOK, Session
  <2>5. QED
    BY <1>1, <2>3, <2>4 DEF ResumeInv, NothingRan
<1>2. TypeOK /\ ResumeInv /\ FlagExact /\ [Next]_vars =>
        [ Execute /\ BreakpointEnabledAt(pc) => Excepted ]_vars
  BY <1>1
<1>3. QED
  BY <1>2, TypeCorrect, ResumeInvariance, FlagIsExactInDebugger, PTL DEF Spec, BreakpointsHonoured

-----------------------------------------------------------------------------
(* An illegal instruction stops the program.  The error is only pending in *)
(* the monitor because no slice is in progress there.                      *)

ErrorInv == (slice.on => runState # "Cmd") /\ ErrorStops

(* Only an illegal instruction raises an error. *)
LEMMA ExecuteError == Execute /\ ~IllegalInstruction => UNCHANGED error
<1>1. ASSUME NEW depth, EndInstruction(depth) PROVE UNCHANGED error
  BY <1>1 DEF EndInstruction
<1>2. Plain \/ Branch \/ Jump \/ Call \/ PullPC \/ SystemCall \/ Return => UNCHANGED error
  BY <1>1 DEF Plain, Branch, Jump, Call, PullPC, SystemCall, Return
<1>3. Prefix \/ Exit \/ Monitor \/ NoFunction => UNCHANGED error
  BY DEF Prefix, Exit, Monitor, NoFunction, FailingSystemCall
<1>4. QED
  BY <1>2, <1>3 DEF Execute

(* Every step keeps ErrorInv. *)
LEMMA ErrorStep == ASSUME TypeOK, ErrorInv, [Next]_vars PROVE ErrorInv'
<1>1. CASE UserCommand
  <2>1. ~slice.on /\ error' = "None"
    BY <1>1 DEF UserCommand, Run, Time, Continue, Step, Resume, SetAddr, BreakpointCommand, Command,
                GetCommand
  <2>2. UNCHANGED slice
    BY <1>1 DEF UserCommand, Run, Time, Continue, Step, Resume, SetAddr, BreakpointCommand
  <2>3. QED
    BY <2>1, <2>2 DEF ErrorInv, ErrorStops
<1>2. CASE IllegalInstruction
  <2>1. ~slice'.on /\ runState' = "Cmd"
    BY <1>2 DEF IllegalInstruction, StopInMonitor, Idle
  <2>2. pc \in Addr /\ NextAddr(pc) = pc' /\ code'[pc].op = "ILL"
    BY <1>2 DEF IllegalInstruction, Fetch, TypeOK
  <2>3. (\E a \in Addr : NextAddr(a) = pc /\ code[a].op = "ILL")'
    BY <2>2 DEF NextAddr
  <2>4. QED
    BY <2>1, <2>3 DEF ErrorInv, ErrorStops
<1>3. CASE Execute /\ ~IllegalInstruction
  <2>1. slice.on /\ error' # "Illegal"
    BY <1>3, ExecuteStep, ExecuteError DEF ErrorInv, ErrorStops
  <2>2. slice'.on => runState' # "Cmd"
    <3>1. SliceStep
      BY <1>3, ExecuteStep
    <3>2. CASE Prefix
      BY <2>1, <3>2 DEF Prefix, ErrorInv
    <3>3. CASE ~Prefix
      BY <2>1, <3>1, <3>3 DEF SliceStep, LeaveSlice, Idle, ErrorInv
    <3>4. QED
      BY <3>2, <3>3
  <2>3. QED
    BY <2>1, <2>2 DEF ErrorInv, ErrorStops
<1>4. ASSUME NEW k \in Keys, Type(k) PROVE ErrorInv'
  BY <1>4 DEF Type, ErrorInv, ErrorStops, NextAddr, cpu
<1>5. CASE Poll \/ ReadKey
  BY <1>5 DEF Poll, ReadKey, GetCommand, ErrorInv, ErrorStops
<1>6. CASE StartSlice
  <2>1. error' # "Illegal"
    BY <1>6 DEF StartSlice, ErrorInv, ErrorStops
  <2>2. slice'.on => runState' # "Cmd"
    BY <1>6 DEF StartSlice
  <2>3. QED
    BY <2>1, <2>2 DEF ErrorInv, ErrorStops
<1>7. CASE Break
  <2>1. error' # "Illegal" /\ ~slice'.on
    BY <1>7 DEF Break, StopInMonitor, Idle, ErrorInv, ErrorStops
  <2>2. QED
    BY <2>1 DEF ErrorInv, ErrorStops
<1>8. CASE UNCHANGED vars
  BY <1>8 DEF vars, cpu, ErrorInv, ErrorStops, NextAddr
<1>9. QED
  BY <1>1, <1>2, <1>3, <1>4, <1>5, <1>6, <1>7, <1>8 DEF Next, MainLoop

(* No slice is in progress in the monitor, and errors are only pending there. *)
LEMMA ErrorInvariance == Spec => []ErrorInv
<1>1. Init => ErrorInv
  <2>1. Init => slice = Idle /\ error = "None"
    BY DEF Init
  <2>2. ~Idle.on
    BY DEF Idle
  <2>3. QED
    BY <2>1, <2>2 DEF ErrorInv, ErrorStops
<1>2. TypeOK /\ ErrorInv /\ [Next]_vars => ErrorInv'
  BY ErrorStep
<1>3. QED
  BY <1>1, <1>2, TypeCorrect, PTL DEF Spec

(* A program never runs on after an illegal instruction, and the report   *)
(* the user gets is about the instruction refused (MC6809.cpp:510-513 and *)
(* BOSS9.cpp:268-274).                                                    *)
THEOREM ErrorsStop == Spec => []ErrorStops
<1>1. ErrorInv => ErrorStops
  BY DEF ErrorInv
<1>2. QED
  BY <1>1, ErrorInvariance, PTL

-----------------------------------------------------------------------------
(* The stepping commands.  What they promise is about programs all of      *)
(* whose returns count and all of whose functions exist, and about slices  *)
(* that are too short for _subroutineDepth to wrap around.                 *)

(* Every return of the program is an RTS, which is the one that counts. *)
ReturnsCount == \A p \in Programs : \A a \in Addr : p[a].op # "PULPC"

(* A slice is too short for the depth of calls to wrap around: 100000      *)
(* instructions and 2^32.                                                  *)
SliceFits == Quantum <= DepthModulus

Mode(c) == CASE c = "s" -> "StepIn" [] c = "n" -> "StepOver" [] c = "o" -> "StepOut"
Report(c) == IF c = "n" THEN "step over" ELSE "step out"

(* A step that runs instructions until a subroutine has returned *)
Follows ==
    IF session.cmd = "n" THEN session.into
    ELSE session.base > 0 /\ ~session.into /\ session.first # "RTS"

(* The words on the stack when that subroutine has returned *)
Floor == IF session.cmd = "n" THEN session.base ELSE session.base - 1

(* While it runs, _subroutineDepth is the number of words above that. *)
Balanced ==
    /\ lastRunState = Mode(session.cmd)
    /\ subroutineDepth \in 1 .. Quantum - slice.left
    /\ Len(stack) = Floor + subroutineDepth
    /\ session.cmd = "n" => stack[Floor + 1] = NextAddr(session.from)

NotStarted ==
    /\ Len(stack) = session.base
    /\ ~session.into
    /\ said # Report(session.cmd)
    /\ slice.on => slice.runState = Mode(session.cmd)
    /\ ~slice.on => runState \in {"Cmd", Mode(session.cmd)}

Underway ==
    /\ slice.runState = "Running"
    /\ said # Report(session.cmd)
    /\ session.cmd = "n" => session.into
    /\ Follows => Balanced

Ended ==
    said = Report(session.cmd) =>
        /\ session.cmd = "n" /\ ~session.into => session.done = 1
        /\ Follows => Len(stack) = Floor
        /\ Follows /\ session.cmd = "n" => pc = NextAddr(session.from)

StepInv ==
    session.cmd \in {"n", "o"} /\ session.slices <= 1 =>
        /\ session.slices = 0 => ~slice.on /\ session.done = 0
        /\ session.done = 0 => NotStarted
        /\ session.done > 0 => IF slice.on THEN Underway ELSE Ended

(* A "s" is either before its instruction or back in the monitor. *)
StepInInv ==
    session.cmd = "s" =>
        IF session.done = 0
        THEN IF slice.on THEN slice.runState = "StepIn" ELSE runState \in {"Cmd", "StepIn"}
        ELSE session.done = 1 /\ ~slice.on /\ runState = "Cmd"

(* call() has a case for every function the program calls. *)
FunctionsExist == \A p \in Programs : \A a \in Addr : p[a].ea # noFunction

(* An instruction that is counted: the first of a session that runs a      *)
(* subroutine is remembered, of the others there are more.                 *)
LEMMA CountIsExact ==
    ASSUME TypeOK, Count
    PROVE  /\ session'.cmd = session.cmd /\ session'.base = session.base
           /\ session'.slices = session.slices
           /\ session'.done = More(session.done) /\ session'.done > 0
           /\ session.cmd \in {"n", "o"} /\ session.done = 0 =>
                session'.from = pc /\ session'.first = code[pc].op /\ session'.into = CallsProgram(code[pc])
           /\ session.done > 0 =>
                session'.from = session.from /\ session'.first = session.first /\ session'.into = session.into
<1>1. session \in Session
  BY DEF TypeOK
<1>2. session.done \in 0 .. 2
  BY <1>1 DEF Session
<1>3. CASE RunsSubroutine(session.cmd) /\ session.done = 0
  <2>1. session' = [session EXCEPT !.done = 1, !.first = code[pc].op, !.into = CallsProgram(code[pc]),
                                   !.from = pc]
    BY <1>3 DEF Count
  <2>2. More(session.done) = 1
    BY <1>3 DEF More
  <2>3. QED
    BY <1>1, <1>3, <2>1, <2>2 DEF Session
<1>4. CASE ~(RunsSubroutine(session.cmd) /\ session.done = 0)
  <2>1. session' = [session EXCEPT !.done = More(@)]
    BY <1>4 DEF Count
  <2>2. More(session.done) > 0
    BY <1>2 DEF More
  <2>3. ~(session.cmd \in {"n", "o"} /\ session.done = 0)
    BY <1>4 DEF RunsSubroutine
  <2>4. QED
    BY <1>1, <2>1, <2>2, <2>3 DEF Session
<1>5. QED
  BY <1>3, <1>4

(* The way an iteration ends that neither stops nor was a prefix: the      *)
(* slice is over, or has one instruction less.                             *)
LEMMA SpendIsExact ==
    ASSUME TypeOK, slice.on, Spend
    PROVE  /\ said' = said
           /\ ~slice'.on \/ (/\ slice'.on /\ slice'.runState = "Running" /\ slice.left > 1
                             /\ slice'.left = slice.left - 1 /\ runState' = runState)
<1>1. CASE slice.left = 1
  BY <1>1 DEF Spend, LeaveSlice, Idle
<1>2. CASE slice.left # 1
  <2>1. slice.left > 1
    BY <1>2, DebuggerAssumption DEF TypeOK, Slice
  <2>2. QED
    BY <1>2, <2>1 DEF Spend, TypeOK, Slice
<1>3. QED
  BY <1>1, <1>2

(* What an iteration does to the stack, unless it fails in the system: only *)
(* calls push, only returns pop.                                           *)
LEMMA StackEffect ==
    ASSUME TypeOK, ReturnsCount, Plain \/ Branch \/ Jump \/ Call \/ Return \/ PullPC \/ SystemCall
    PROVE  /\ CallsProgram(code[pc]) => Call
           /\ code[pc].op = "RTS" => Return
           /\ ~CallsProgram(code[pc]) /\ code[pc].op # "RTS" =>
                stack' = stack /\ EndInstruction(subroutineDepth)
           /\ Call => CallsProgram(code[pc]) /\ stack' = Append(stack, NextAddr(pc))
                      /\ EndInstruction(DeeperCall)
           /\ Return => code[pc].op = "RTS" /\ ~CallsProgram(code[pc])
<1>1. code[pc].op # "PULPC" /\ pc \in Addr
  BY DEF ReturnsCount, TypeOK
<1>2. CASE Plain
  BY <1>2 DEF Plain, Fetch, CallsProgram, Call, Return
<1>3. CASE Branch
  BY <1>3 DEF Branch, Fetch, CallsProgram, Call, Return
<1>4. CASE Jump
  BY <1>4 DEF Jump, Fetch, CallsProgram, Call, Return
<1>5. CASE Call
  BY <1>5 DEF Call, Fetch, CallsProgram, Return
<1>6. CASE Return
  BY <1>6 DEF Return, Fetch, CallsProgram, Call
<1>7. CASE PullPC
  BY <1>1, <1>7 DEF PullPC, Fetch
<1>8. CASE SystemCall
  <2>1. code[pc].ea >= SystemAddrStart /\ ~(code[pc].ea < SystemAddrStart)
    BY <1>8, DebuggerAssumption DEF SystemCall, putc, getc
  <2>2. code[pc].op \in {"JMP", "JSR"}
    BY <1>8 DEF SystemCall, Fetch
  <2>3. ~CallsProgram(code[pc])
    BY <2>1, <2>2 DEF CallsProgram
  <2>4. QED
    BY <1>8, <2>2, <2>3 DEF SystemCall, Call, Return, Fetch
<1>9. QED
  BY <1>2, <1>3, <1>4, <1>5, <1>6, <1>7, <1>8

(* "s": every iteration that is not a prefix, of a slice that steps in,    *)
(* ends in the monitor.                                                    *)
LEMMA StepInEnds ==
    ASSUME TypeOK, FunctionsExist, Execute, ~Prefix, slice.runState = "StepIn"
    PROVE  slice' = Idle /\ runState' = "Cmd" /\ Count
<1>1. ASSUME NEW depth, EndInstruction(depth) PROVE slice' = Idle /\ runState' = "Cmd" /\ Count
  BY <1>1 DEF EndInstruction, StopInMonitor
<1>2. ~NoFunction
  BY DebuggerAssumption DEF NoFunction, FunctionsExist, TypeOK
<1>3. CASE Plain \/ Branch \/ Jump \/ Call \/ PullPC \/ SystemCall
  BY <1>1, <1>3 DEF Plain, Branch, Jump, Call, PullPC, SystemCall
<1>4. CASE Return
  BY <1>1, <1>4 DEF Return, StopInMonitor
<1>5. CASE IllegalInstruction
  BY <1>5 DEF IllegalInstruction, StopInMonitor
<1>6. CASE Exit \/ Monitor
  BY <1>6 DEF Exit, Monitor, FailingSystemCall, StopInMonitor
<1>7. QED
  BY <1>2, <1>3, <1>4, <1>5, <1>6 DEF Execute

(* "s" is either before its instruction, or back in the monitor. *)
LEMMA StepInStep ==
    ASSUME TypeOK, FunctionsExist, ErrorInv, StepInInv, [Next]_vars
    PROVE  StepInInv'
<1>0. ~Idle.on
  BY DEF Idle
<1>1. CASE UserCommand
  <2>1. ~slice.on /\ slice' = slice
    BY <1>1 DEF UserCommand, Run, Time, Continue, Step, Resume, SetAddr, BreakpointCommand, Command,
                GetCommand
  <2>2. ASSUME NEW c, NEW rs, NEW a, Resume(c, rs, a), c = "s" => rs = "StepIn" PROVE StepInInv'
    BY <2>1, <2>2 DEF Resume, NewSession, StepInInv
  <2>3. CASE (\E a \in UserAddr : SetAddr(a)) \/ BreakpointCommand
    BY <2>1, <2>3 DEF SetAddr, BreakpointCommand, StepInInv
  <2>4. QED
    BY <1>1, <2>2, <2>3 DEF UserCommand, Run, Time, Continue, Step
<1>2. CASE Execute
  <2>1. slice.on /\ session'.cmd = session.cmd
    BY <1>2, ExecuteStep
  <2>2. CASE session.cmd = "s" /\ ~Prefix
    <3>1. session.done = 0 /\ slice.runState = "StepIn"
      BY <2>1, <2>2 DEF StepInInv
    <3>2. slice' = Idle /\ runState' = "Cmd" /\ Count
      BY <1>2, <2>2, <3>1, StepInEnds
    <3>3. session'.done = More(session.done) /\ session'.done > 0
      BY <3>2, CountIsExact
    <3>4. QED
      BY <1>0, <3>1, <3>2, <3>3 DEF StepInInv, More
  <2>3. CASE Prefix
    BY <2>1, <2>3 DEF Prefix, StepInInv, TypeOK, Slice
  <2>4. QED
    BY <2>1, <2>2, <2>3 DEF StepInInv
<1>3. ASSUME NEW k \in Keys, Type(k) PROVE StepInInv'
  BY <1>3 DEF Type, StepInInv, cpu
<1>4. CASE Poll \/ ReadKey
  BY <1>4 DEF Poll, ReadKey, StepInInv, cpu
<1>5. CASE StartSlice
  <2>1. ~slice.on /\ runState # "Cmd"
    BY <1>5 DEF StartSlice
  <2>2. CASE runState' = "Cmd" /\ UNCHANGED << slice, session >>
    BY <2>1, <2>2 DEF StepInInv
  <2>3. CASE slice' = [Idle EXCEPT !.on = TRUE, !.runState = runState] /\ CountSlice
    <3>1. slice'.on /\ slice'.runState = runState
      BY <2>3 DEF Idle
    <3>2. session'.cmd = session.cmd /\ session'.done = session.done
      BY <2>3 DEF CountSlice, TypeOK, Session
    <3>3. QED
      BY <2>1, <3>1, <3>2 DEF StepInInv
  <2>4. QED
    BY <1>5, <2>2, <2>3 DEF StartSlice
<1>6. CASE Break
  BY <1>0, <1>6 DEF Break, StopInMonitor, StepInInv
<1>7. CASE UNCHANGED vars
  BY <1>7 DEF vars, cpu, StepInInv
<1>8. QED
  BY <1>1, <1>2, <1>3, <1>4, <1>5, <1>6, <1>7 DEF Next, MainLoop

(* "s" runs one instruction, prefixes included, and is back in the monitor *)
(* (MC6809.cpp:871), whatever was stepped, called or interrupted before.   *)
THEOREM StepInIsOneInstruction ==
    ASSUME FunctionsExist
    PROVE  Spec => []StepInStops
<1>1. Init => StepInInv
  <2>1. ASSUME Init PROVE session.cmd = "start"
    BY <2>1 DEF Init, NewSession
  <2>2. QED
    BY <2>1 DEF StepInInv
<1>2. TypeOK /\ ErrorInv /\ StepInInv /\ [Next]_vars => StepInInv'
  BY StepInStep
<1>3. StepInInv /\ TypeOK => StepInStops
  <2>1. TypeOK => session.done \in 0 .. 2
    BY DEF TypeOK, Session
  <2>2. QED
    BY <2>1 DEF StepInInv, StepInStops
<1>4. QED
  BY <1>1, <1>2, <1>3, TypeCorrect, ErrorInvariance, PTL DEF Spec

(* The first instruction of "n" or "o" ends it, or leaves a program that   *)
(* is one call deep behind it.                                             *)
LEMMA FirstInstruction ==
    ASSUME TypeOK, ReturnsCount, SliceFits, slice.on, slice.runState = Mode(session.cmd),
           session.cmd \in {"n", "o"}, session.slices = 1, session.done = 0, NotStarted,
           Plain \/ Branch \/ Jump \/ Call \/ Return \/ PullPC \/ SystemCall
    PROVE  StepInv'
<1> USE DebuggerAssumption
<1>0. ~Idle.on
  BY DEF Idle
<1>1. Len(stack) \in Nat /\ Len(stack) = session.base /\ stack \in Seq(Addr) /\ NextAddr(pc) \in Addr
  BY NextAddrType DEF TypeOK, NotStarted
<1>2. Count
  BY DEF Plain, Branch, Jump, Call, Return, PullPC, SystemCall, EndInstruction
<1>3. /\ session'.cmd = session.cmd /\ session'.base = session.base /\ session'.slices = 1
      /\ session'.done = 1 /\ session'.from = pc
      /\ session'.first = code[pc].op /\ session'.into = CallsProgram(code[pc])
  BY <1>2, CountIsExact DEF More
<1>4. ASSUME NEW depth, EndInstruction(depth) PROVE StepInv'
  <2>1. CASE session.cmd = "n" /\ ~CallsProgram(code[pc])
    <3>1. slice' = Idle
      BY <1>4, <2>1 DEF EndInstruction, StopInMonitor, Mode
    <3>2. QED
      BY <1>0, <1>3, <2>1, <3>1 DEF StepInv, Ended, Follows
  <2>2. CASE session.cmd = "o" \/ CallsProgram(code[pc])
    <3>1. Spend /\ subroutineDepth' = 1 /\ lastRunState' = Mode(session.cmd)
      BY <1>4, <2>2 DEF EndInstruction, Mode
    <3>2. said' = said /\ said # Report(session.cmd)
      BY <3>1, SpendIsExact DEF NotStarted
    <3>3. CASE ~slice'.on
      BY <1>3, <3>2, <3>3 DEF StepInv, Ended
    <3>4. CASE slice'.on
      <4>1. slice'.runState = "Running" /\ slice'.left \in 1 .. Quantum - 1
        BY <3>1, <3>4, SpendIsExact DEF TypeOK, Slice
      <4>2. ASSUME Follows' PROVE Balanced'
        <5>1. CASE session.cmd = "n"
          <6>1. stack' = Append(stack, NextAddr(pc))
            BY <2>2, <5>1, StackEffect
          <6>2. Len(stack') = session.base + 1 /\ stack'[session.base + 1] = NextAddr(pc)
            BY <1>1, <6>1
          <6>3. (NextAddr(session.from))' = NextAddr(pc) /\ Floor' = session.base
            BY <1>3, <5>1 DEF NextAddr, Floor
          <6>4. QED
            BY <1>3, <3>1, <4>1, <5>1, <6>2, <6>3 DEF Balanced, Mode
        <5>2. CASE session.cmd = "o"
          <6>1. ~CallsProgram(code[pc]) /\ code[pc].op # "RTS" /\ Floor' = session.base - 1
            BY <1>3, <4>2, <5>2 DEF Follows, Floor
          <6>2. Len(stack') = session.base
            BY <1>1, <6>1, StackEffect
          <6>3. QED
            BY <1>1, <1>3, <3>1, <4>1, <5>2, <6>1, <6>2 DEF Balanced, Mode
        <5>3. QED
          BY <5>1, <5>2
      <4>3. (session'.cmd = "n" => session'.into) /\ said' # Report(session'.cmd)
        BY <1>3, <2>2, <3>2
      <4>4. Underway'
        BY <4>1, <4>2, <4>3 DEF Underway
      <4>5. QED
        BY <1>3, <3>4, <4>4 DEF StepInv
    <3>5. QED
      BY <3>3, <3>4
  <2>3. QED
    BY <2>1, <2>2
<1>5. CASE Return
  <2>1. code[pc].op = "RTS" /\ ~CallsProgram(code[pc])
    BY <1>5, StackEffect
  <2>2. CASE ~EndInstruction(AfterReturn)
    <3>1. slice' = Idle
      BY <1>5, <2>2 DEF Return, StopInMonitor
    <3>2. QED
      BY <1>0, <1>3, <2>1, <3>1 DEF StepInv, Ended, Follows
  <2>3. QED
    BY <1>4, <2>2
<1>6. QED
  BY <1>4, <1>5 DEF Plain, Branch, Jump, Call, PullPC, SystemCall

\* What is left of a stack behind a return is one entry shorter.
LEMMA PoppedLength ==
  ASSUME NEW s \in Seq(Addr), s # << >>
  PROVE  Len(SubSeq(s, 1, Len(s) - 1)) = Len(s) - 1
<1>1. Len(s) \in Nat /\ Len(s) \in Nat \ {0}
  BY EmptySeq
<1>2. Len(s) - 1 \in Nat
  <2>1. \A n \in Nat \ {0} : n - 1 \in Nat
    OBVIOUS
  <2>2. QED
    BY <1>1, <2>1, Zenon
<1>3. SubSeq(s, 1, Len(s) - 1) = [i \in 1 .. Len(s) - 1 |-> s[i]]
  BY <1>1, <1>2
<1>4. Len([i \in 1 .. Len(s) - 1 |-> s[i]]) = Len(s) - 1
  BY <1>2
<1>5. QED
  BY <1>3, <1>4, Zenon

(* Every further instruction goes on with that, until the return that     *)
(* makes the depth 0.                                                      *)
LEMMA FurtherInstruction ==
    ASSUME TypeOK, ReturnsCount, SliceFits, slice.on,
           session.cmd \in {"n", "o"}, session.slices = 1, session.done > 0, Underway,
           Plain \/ Branch \/ Jump \/ Call \/ Return \/ PullPC \/ SystemCall
    PROVE  StepInv'
<1> USE DebuggerAssumption
<1>0. ~Idle.on
  BY DEF Idle
<1>1. /\ stack \in Seq(Addr) /\ NextAddr(pc) \in Addr /\ session.base \in Nat
      /\ subroutineDepth \in 0 .. DepthModulus - 1
      /\ slice.left \in 1 .. Quantum
  BY NextAddrType DEF TypeOK, Session, Slice
<1>2. Count
  BY DEF Plain, Branch, Jump, Call, Return, PullPC, SystemCall, EndInstruction
<1>3. /\ session'.cmd = session.cmd /\ session'.base = session.base /\ session'.slices = 1
      /\ session'.done > 0 /\ session'.from = session.from
      /\ session'.first = session.first /\ session'.into = session.into
  BY <1>2, CountIsExact
<1>4. Follows' = Follows /\ Floor' = Floor /\ Report(session'.cmd) = Report(session.cmd)
      /\ Mode(session'.cmd) = Mode(session.cmd)
      /\ (NextAddr(session.from))' = NextAddr(session.from)
  BY <1>3 DEF Follows, Floor, NextAddr
<1>5. Follows => Floor \in Nat
  BY <1>1 DEF Follows, Floor
<1>6. ASSUME NEW depth, EndInstruction(depth),
             Follows /\ slice.left > 1 =>
                /\ depth \in 1 .. Quantum - slice.left + 1
                /\ Len(stack') = Floor + depth
                /\ session.cmd = "n" => stack'[Floor + 1] = NextAddr(session.from)
      PROVE  StepInv'
  <2>1. Spend /\ lastRunState' = lastRunState /\ subroutineDepth' = depth
    BY <1>6 DEF EndInstruction, Underway
  <2>2. said' = said /\ said' # Report(session'.cmd)
    BY <1>4, <2>1, SpendIsExact DEF Underway
  <2>3. CASE ~slice'.on
    BY <1>3, <2>2, <2>3 DEF StepInv, Ended
  <2>4. CASE slice'.on
    <3>1. slice'.runState = "Running" /\ slice.left > 1 /\ slice'.left = slice.left - 1
      BY <2>1, <2>4, SpendIsExact
    <3>2. Quantum - slice'.left = Quantum - slice.left + 1
      BY <1>1, <3>1
    <3>3. Follows' => Balanced'
      BY <1>3, <1>4, <1>6, <2>1, <3>1, <3>2 DEF Underway, Balanced
    <3>4. Underway'
      BY <1>3, <2>2, <3>1, <3>3 DEF Underway
    <3>5. QED
      BY <1>3, <2>4, <3>4 DEF StepInv
  <2>5. QED
    BY <2>3, <2>4
<1>7. CASE Call
  <2>1. stack' = Append(stack, NextAddr(pc)) /\ EndInstruction(DeeperCall)
    BY <1>7, StackEffect
  <2>2. ASSUME Follows, slice.left > 1
        PROVE  /\ DeeperCall \in 1 .. Quantum - slice.left + 1
               /\ Len(stack') = Floor + DeeperCall
               /\ session.cmd = "n" => stack'[Floor + 1] = NextAddr(session.from)
    <3>1. /\ subroutineDepth \in 1 .. Quantum - slice.left
          /\ Len(stack) = Floor + subroutineDepth
          /\ session.cmd = "n" => stack[Floor + 1] = NextAddr(session.from)
      BY <2>2 DEF Underway, Balanced
    <3>2. subroutineDepth + 1 \in 1 .. DepthModulus - 1
      BY <1>1, <2>2, <3>1 DEF SliceFits
    <3>3. DeeperCall = subroutineDepth + 1
      BY <3>2 DEF DeeperCall
    <3>4. Len(stack') = Len(stack) + 1
      BY <1>1, <2>1
    <3>5. Floor + 1 \in 1 .. Len(stack)
      BY <1>1, <1>5, <2>2, <3>1
    <3>6. stack'[Floor + 1] = stack[Floor + 1]
      BY <1>1, <2>1, <3>5
    <3>7. QED
      BY <1>1, <1>5, <2>2, <3>1, <3>3, <3>4, <3>6
  <2>3. QED
    BY <1>6, <2>1, <2>2
<1>8. CASE Return
  <2>1. ASSUME Follows
        PROVE  /\ stack' = SubSeq(stack, 1, Len(stack) - 1) /\ pc' = stack[Len(stack)]
               /\ Len(stack') = Len(stack) - 1
               /\ subroutineDepth \in 1 .. Quantum - slice.left
               /\ Len(stack) = Floor + subroutineDepth
               /\ session.cmd = "n" => stack[Floor + 1] = NextAddr(session.from)
               /\ AfterReturn = subroutineDepth - 1
               /\ lastRunState = Mode(session.cmd)
    <3>1. /\ subroutineDepth \in 1 .. Quantum - slice.left
          /\ Len(stack) = Floor + subroutineDepth
          /\ session.cmd = "n" => stack[Floor + 1] = NextAddr(session.from)
          /\ lastRunState = Mode(session.cmd)
      BY <2>1 DEF Underway, Balanced
    <3>2. Len(stack) \in Nat \ {0} /\ stack # << >>
      BY <1>1, <1>5, <2>1, <3>1
    <3>3. stack' = SubSeq(stack, 1, Len(stack) - 1) /\ pc' = stack[Len(stack)]
      BY <1>8, <3>2 DEF Return, PopTo
    <3>4. Len(stack') = Len(stack) - 1
      <4>1. stack \in Seq(Addr)
        BY <1>1
      <4>2. Len(SubSeq(stack, 1, Len(stack) - 1)) = Len(stack) - 1
        BY <3>2, <4>1, PoppedLength
      <4>3. QED
        BY <3>3, <4>2, Zenon
    <3>5. AfterReturn = subroutineDepth - 1
      BY <1>1, <3>1 DEF AfterReturn
    <3>6. QED
      BY <3>1, <3>3, <3>4, <3>5
  <2>2. CASE EndInstruction(AfterReturn) /\ ~(lastRunState # "Running" /\ AfterReturn = 0)
    <3>1. ASSUME Follows
          PROVE  /\ AfterReturn \in 1 .. Quantum - slice.left + 1
                 /\ Len(stack') = Floor + AfterReturn
                 /\ session.cmd = "n" => stack'[Floor + 1] = NextAddr(session.from)
      <4>1. AfterReturn # 0
        BY <2>1, <2>2, <3>1 DEF Mode
      <4>2. subroutineDepth \in 2 .. Quantum - slice.left
        BY <1>1, <2>1, <3>1, <4>1
      <4>3. Floor + 1 \in 1 .. Len(stack) - 1
        BY <1>1, <1>5, <2>1, <3>1, <4>2
      <4>4. stack'[Floor + 1] = stack[Floor + 1]
        BY <1>1, <2>1, <3>1, <4>3
      <4>5. QED
        BY <1>1, <1>5, <2>1, <3>1, <4>2, <4>4
    <3>2. QED
      BY <1>6, <2>2, <3>1
  <2>3. CASE StopInMonitor(IF lastRunState = "StepOver" THEN "step over" ELSE "step out") /\ AfterReturn = 0
    <3>1. slice' = Idle
      BY <2>3 DEF StopInMonitor
    <3>2. ASSUME Follows PROVE Len(stack') = Floor /\ (session.cmd = "n" => pc' = NextAddr(session.from))
      <4>1. subroutineDepth = 1
        <5>1. AfterReturn = 0 /\ AfterReturn = subroutineDepth - 1
          BY <2>1, <2>3, <3>2
        <5>2. QED
          BY <1>1, <5>1
      <4>2. Len(stack') = Floor /\ Len(stack) = Floor + 1
        BY <1>5, <2>1, <3>2, <4>1
      <4>3. QED
        BY <2>1, <3>2, <4>2
    <3>3. session.cmd = "n" => session.into
      BY DEF Underway
    <3>4. Ended'
      BY <1>3, <1>4, <3>2, <3>3 DEF Ended
    <3>5. QED
      BY <1>0, <1>3, <3>1, <3>4 DEF StepInv
  <2>4. QED
    BY <1>8, <2>2, <2>3 DEF Return
<1>9. CASE ~Call /\ ~Return
  <2>1. stack' = stack /\ EndInstruction(subroutineDepth)
    BY <1>9, StackEffect
  <2>2. QED
    BY <1>1, <1>6, <2>1 DEF Underway, Balanced
<1>10. QED
  BY <1>7, <1>8, <1>9

(* Every iteration keeps StepInv. *)
LEMMA ExecuteStepInv ==
    ASSUME TypeOK, ReturnsCount, SliceFits, StepInv, Execute
    PROVE  StepInv'
<1> SUFFICES ASSUME session'.cmd \in {"n", "o"}, session'.slices <= 1 PROVE StepInv'
  BY DEF StepInv
<1>0. ~Idle.on
  BY DEF Idle
<1>1. slice.on /\ session'.cmd = session.cmd
  BY ExecuteStep
<1>2. session \in Session /\ session.done \in 0 .. 2 /\ session.slices \in 0 .. 2
  BY DEF TypeOK, Session
<1>3. session'.slices = session.slices
  <2>1. Prefix \/ Count
    BY DEF Execute, Plain, IllegalInstruction, Branch, Jump, Call, Return, PullPC, SystemCall, Exit,
           Monitor, NoFunction, FailingSystemCall, EndInstruction
  <2>2. QED
    BY <2>1, CountIsExact DEF Prefix
<1>4. session.cmd \in {"n", "o"} /\ session.slices = 1
  BY <1>1, <1>2, <1>3 DEF StepInv
<1>5. IF session.done = 0 THEN NotStarted /\ slice.runState = Mode(session.cmd) ELSE Underway
  BY <1>1, <1>2, <1>4 DEF StepInv, NotStarted
<1>6. CASE Plain \/ Branch \/ Jump \/ Call \/ Return \/ PullPC \/ SystemCall
  BY <1>1, <1>2, <1>4, <1>5, <1>6, FirstInstruction, FurtherInstruction
<1>7. CASE Prefix
  <2>1. /\ slice'.on /\ slice'.runState = slice.runState /\ slice'.left = slice.left
        /\ UNCHANGED << stack, subroutineDepth, lastRunState, session, said >>
    BY <1>1, <1>7 DEF Prefix, TypeOK, Slice
  <2>2. Follows' = Follows /\ Floor' = Floor /\ (NextAddr(session.from))' = NextAddr(session.from)
    BY <2>1 DEF Follows, Floor, NextAddr
  <2>3. NotStarted => NotStarted'
    BY <1>1, <2>1 DEF NotStarted
  <2>4. Underway => Underway'
    BY <2>1, <2>2 DEF Underway, Balanced
  <2>5. QED
    BY <1>2, <1>4, <1>5, <2>1, <2>3, <2>4 DEF StepInv
<1>8. CASE IllegalInstruction \/ Exit \/ Monitor \/ NoFunction
  <2>1. Count /\ slice' = Idle
        /\ (said' = said \/ said' \in {"timing test", "exited"})
    BY <1>8 DEF IllegalInstruction, Exit, Monitor, NoFunction, FailingSystemCall, StopInMonitor, LeaveSlice
  <2>2. session'.done > 0 /\ session'.slices = 1
    BY <1>4, <2>1, CountIsExact
  <2>3. said' # Report(session.cmd)
    BY <1>5, <2>1 DEF NotStarted, Underway, Report
  <2>4. ~slice'.on /\ Ended'
    BY <1>0, <1>1, <2>1, <2>3 DEF Ended
  <2>5. QED
    BY <1>1, <1>4, <2>2, <2>4 DEF StepInv
<1>9. QED
  BY <1>6, <1>7, <1>8 DEF Execute

(* Every step keeps StepInv. *)
LEMMA StepInvStep ==
    ASSUME TypeOK, ReturnsCount, SliceFits, ErrorInv, StepInv, [Next]_vars
    PROVE  StepInv'
<1>0. ~Idle.on /\ session \in Session
  BY DEF Idle, TypeOK
<1>1. CASE UserCommand
  <2>1. ~slice.on /\ slice' = slice
    BY <1>1 DEF UserCommand, Run, Time, Continue, Step, Resume, SetAddr, BreakpointCommand, Command,
                GetCommand
  <2>2. ASSUME NEW c, NEW rs, NEW a, Resume(c, rs, a), c \in {"n", "o"} => rs = Mode(c)
        PROVE  StepInv'
    <3>1. session' = NewSession(c, a, Len(stack)) /\ stack' = stack /\ said' = "" /\ runState' = rs
      BY <2>2 DEF Resume
    <3>2. /\ session'.cmd = c /\ session'.done = 0 /\ ~session'.into /\ session'.slices = 0
          /\ c \in {"n", "o"} => session'.base = Len(stack)
      BY <3>1 DEF NewSession, RunsSubroutine
    <3>3. said' # Report(c)
      BY <3>1 DEF Report
    <3>4. c \in {"n", "o"} => NotStarted'
      BY <2>1, <2>2, <3>1, <3>2, <3>3 DEF NotStarted
    <3>5. QED
      BY <2>1, <3>2, <3>4 DEF StepInv
  <2>3. ASSUME NEW a \in UserAddr, SetAddr(a) PROVE StepInv'
    <3>1. ~slice'.on /\ said' = "" /\ UNCHANGED << stack, session, runState >>
      BY <2>1, <2>3 DEF SetAddr
    <3>2. said' # Report(session.cmd)
      BY <3>1 DEF Report
    <3>3. NotStarted => NotStarted'
      BY <2>1, <3>1, <3>2 DEF NotStarted
    <3>4. Ended'
      BY <3>1, <3>2 DEF Ended
    <3>5. QED
      BY <1>0, <2>1, <3>1, <3>3, <3>4 DEF StepInv
  <2>4. CASE BreakpointCommand
    <3>1. UNCHANGED << code, cpu, slice, runState, said, session >>
      BY <2>4 DEF BreakpointCommand
    <3>2. QED
      BY <2>1, <3>1 DEF cpu, StepInv, NotStarted, Ended, Follows, Floor, NextAddr
  <2>5. QED
    BY <1>1, <2>2, <2>3, <2>4 DEF UserCommand, Run, Time, Continue, Step, Mode
<1>2. CASE Execute
  BY <1>2, ExecuteStepInv
<1>3. ASSUME NEW k \in Keys, Type(k) PROVE StepInv'
  BY <1>3 DEF Type, cpu, StepInv, NotStarted, Underway, Balanced, Ended, Follows, Floor, NextAddr
<1>4. CASE Poll
  BY <1>4 DEF Poll, cpu, StepInv, NotStarted, Underway, Balanced, Ended, Follows, Floor, NextAddr
<1>5. CASE ReadKey
  <2>1. ~slice.on /\ UNCHANGED << stack, pc, slice, session, runState >>
    BY <1>5 DEF ReadKey, GetCommand, cpu
  <2>2. said' = said \/ said' = "ABORT"
    BY <1>5 DEF ReadKey
  <2>3. "ABORT" # Report(session.cmd)
    BY DEF Report
  <2>4. QED
    BY <2>1, <2>2, <2>3 DEF StepInv, NotStarted, Ended, Follows, Floor, NextAddr
<1>6. CASE StartSlice
  <2>1. ~slice.on /\ runState # "Cmd" /\ UNCHANGED << stack, pc >>
    BY <1>6 DEF StartSlice, cpu
  <2>2. CASE runState' = "Cmd" /\ said' = "ABORT" /\ UNCHANGED << slice, session >>
    <3>1. "ABORT" # Report(session.cmd)
      BY DEF Report
    <3>2. QED
      BY <2>1, <2>2, <3>1 DEF StepInv, NotStarted, Ended
  <2>3. CASE slice' = [Idle EXCEPT !.on = TRUE, !.runState = runState] /\ CountSlice
             /\ UNCHANGED << runState, said >>
    <3>1. slice'.on /\ slice'.runState = runState
      BY <2>3 DEF Idle
    <3>2. ASSUME session.cmd \in {"n", "o"}
          PROVE  session' = [session EXCEPT !.slices = More(@)]
      BY <2>3, <3>2 DEF CountSlice, RunsSubroutine
    <3>3. ASSUME session.cmd \in {"n", "o"}
          PROVE  /\ session'.cmd = session.cmd /\ session'.base = session.base
                 /\ session'.done = session.done /\ session'.into = session.into
                 /\ session'.slices = More(session.slices) /\ session.slices \in 0 .. 2
      BY <1>0, <3>2, <3>3 DEF Session
    <3>4. session'.cmd = session.cmd
      BY <1>0, <2>3 DEF CountSlice, Session
    <3>5. ASSUME session.cmd \in {"n", "o"}, session'.slices <= 1 PROVE StepInv'
      <4>1. session.slices = 0 /\ session'.slices = 1
        BY <3>3, <3>5 DEF More
      <4>2. session.done = 0 /\ NotStarted /\ runState = Mode(session.cmd)
        BY <2>1, <3>5, <4>1 DEF StepInv, NotStarted
      <4>3. NotStarted'
        BY <2>1, <2>3, <3>1, <3>3, <3>5, <4>2 DEF NotStarted
      <4>4. QED
        BY <3>1, <3>3, <3>5, <4>1, <4>2, <4>3 DEF StepInv
    <3>6. QED
      BY <3>4, <3>5 DEF StepInv
  <2>4. QED
    BY <1>6, <2>2, <2>3 DEF StartSlice
<1>7. CASE Break
  <2>1. slice.on /\ slice' = Idle /\ said' = "hit breakpoint" /\ runState' = "Cmd"
        /\ UNCHANGED << stack, session >>
    BY <1>7 DEF Break, StopInMonitor, cpu
  <2>2. said' # Report(session.cmd)
    BY <2>1 DEF Report
  <2>3. NotStarted => NotStarted'
    BY <1>0, <2>1, <2>2 DEF NotStarted
  <2>4. Ended'
    BY <2>1, <2>2 DEF Ended
  <2>5. QED
    BY <1>0, <2>1, <2>3, <2>4 DEF StepInv
<1>8. CASE UNCHANGED vars
  BY <1>8 DEF vars, cpu, StepInv, NotStarted, Underway, Balanced, Ended, Follows, Floor, NextAddr
<1>9. QED
  BY <1>1, <1>2, <1>3, <1>4, <1>5, <1>6, <1>7, <1>8 DEF Next, MainLoop

(* Initially nothing was stepped. *)
LEMMA StepInvariance == ASSUME ReturnsCount, SliceFits PROVE Spec => []StepInv
<1>1. Init => StepInv
  <2>1. ASSUME Init PROVE session.cmd = "start"
    BY <2>1 DEF Init, NewSession
  <2>2. QED
    BY <2>1 DEF StepInv
<1>2. TypeOK /\ ErrorInv /\ StepInv /\ [Next]_vars => StepInv'
  BY StepInvStep
<1>3. QED
  BY <1>1, <1>2, TypeCorrect, ErrorInvariance, PTL DEF Spec

(* "n" that reports its end within a slice is back where it was, after one *)
(* instruction or behind the call it stepped over with the stack as it     *)
(* was, however deep the subroutine called and whatever it jumped to       *)
(* (MC6809.cpp:685, 791-799, 872-874 and 910).                             *)
THEOREM StepOverComesBack ==
    ASSUME ReturnsCount, SliceFits
    PROVE  Spec => []StepOverReturnsInSlice
<1>1. TypeOK /\ StepInv => StepOverReturnsInSlice
  <2>1. SUFFICES ASSUME TypeOK, StepInv, session.cmd = "n", session.slices <= 1, said = "step over"
                 PROVE  IF session.into THEN Len(stack) = session.base /\ pc = NextAddr(session.from)
                        ELSE session.done = 1
    BY DEF StepOverReturnsInSlice, StepOverReturns
  <2>2. session.done \in 0 .. 2
    BY <2>1 DEF TypeOK, Session
  <2>3. said = Report(session.cmd)
    BY <2>1 DEF Report
  <2>4. ~NotStarted /\ ~Underway
    BY <2>3 DEF NotStarted, Underway
  <2>5. session.done > 0 /\ Ended
    <3>1. (session.done = 0 => NotStarted) /\ (session.done > 0 => Underway \/ Ended)
      BY <2>1 DEF StepInv
    <3>2. QED
      BY <2>2, <2>4, <3>1
  <2>6. QED
    BY <2>1, <2>3, <2>5 DEF Ended, Follows, Floor
<1>2. QED
  BY <1>1, TypeCorrect, StepInvariance, PTL

(* "o" that reports its end within a slice has left the subroutine it was  *)
(* in, and only that one, if it did not start at a call or return          *)
(* (MC6809.cpp:791-799, 875-876 and 910).                                  *)
THEOREM StepOutLeavesOne ==
    ASSUME ReturnsCount, SliceFits
    PROVE  Spec => []StepOutLeavesInSlice
<1>1. TypeOK /\ StepInv => StepOutLeavesInSlice
  <2>1. SUFFICES ASSUME TypeOK, StepInv, session.cmd = "o", session.slices <= 1, said = "step out",
                        session.first # "RTS", ~session.into, session.base > 0
                 PROVE  Len(stack) = session.base - 1
    BY DEF StepOutLeavesInSlice, StepOutLeaves
  <2>2. session.done \in 0 .. 2
    BY <2>1 DEF TypeOK, Session
  <2>3. said = Report(session.cmd)
    BY <2>1 DEF Report
  <2>4. ~NotStarted /\ ~Underway
    BY <2>3 DEF NotStarted, Underway
  <2>5. session.done > 0 /\ Ended
    <3>1. (session.done = 0 => NotStarted) /\ (session.done > 0 => Underway \/ Ended)
      BY <2>1 DEF StepInv
    <3>2. QED
      BY <2>2, <2>4, <3>1
  <2>6. QED
    BY <2>1, <2>3, <2>5 DEF Ended, Follows, Floor
<1>2. QED
  BY <1>1, TypeCorrect, StepInvariance, PTL
=============================================================================
