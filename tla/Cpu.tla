--------------------------------- MODULE Cpu ---------------------------------
(***************************************************************************)
(* The processor: programs in memory run by Emulator::execute(), an        *)
(* iteration of its loop a step, with the system functions of              *)
(* BOSS9Base::call().  Run control - breakpoints, slices, stepping, keys - *)
(* is the module Debugger's; here the user, whenever the monitor is        *)
(* entered without an error, continues.                                    *)
(*                                                                         *)
(* frames is history: for every push of registers that was not undone, not *)
(* left behind by its stack pointer and not overwritten by the program,    *)
(* what was pushed.  It never guards a step.                               *)
(***************************************************************************)
EXTENDS SystemCalls, Disassembler, FiniteSets

CONSTANTS Starts,      \* the memories, programs included, and registers they start with
          Code,        \* where programs lie: bound, no program is followed elsewhere
          MaxCycles    \* bound: how long a program is followed

ASSUME CpuAssumption ==
    /\ \A s \in Starts :
          /\ DOMAIN s.ram \subseteq MemAddr /\ \A a \in DOMAIN s.ram : s.ram[a] \in Byte
          /\ s.regs \in [A : Byte, B : Byte, X : Word, Y : Word, U : Word, S : Word, PC : Word,
                         DP : Byte]
    /\ MaxCycles \in Nat

VARIABLES m,       \* registers and memory
          frames   \* registers pushed

vars == <<m, frames>>

Init == \E s \in Starts :
           /\ m = [A |-> s.regs.A, B |-> s.regs.B, X |-> s.regs.X, Y |-> s.regs.Y,
                   U |-> s.regs.U, S |-> s.regs.S, PC |-> s.regs.PC, DP |-> s.regs.DP,
                   cc |-> CcOf(0), ram |-> s.ram, right |-> 0, result |-> 0,
                   prev |-> "other", cycles |-> 0, error |-> "None"]
           /\ frames = {}

-----------------------------------------------------------------------------
Calculations == {"ADC", "ADD8", "ADD16", "AND", "ASL", "ASR", "BIT", "CLR", "CMP8", "SUB8",
                 "CMP16", "SUB16", "COM", "DEC", "EOR", "INC", "LSR", "NEG", "OR", "ROL", "ROR",
                 "SBC", "TST"}
Moves == {"LD8", "LD16", "ST8", "ST16", "LEA", "EXG", "TFR", "ABX", "SEX", "DAA", "MUL", "ANDCC",
          "ORCC", "NOP", "SYNC"}
Branching == {"BRA", "BRN", "BHI", "BLS", "BHS", "BLO", "BNE", "BEQ", "BVC", "BVS", "BPL", "BMI",
              "BGE", "BLT", "BGT", "BLE"}

(* The result and the condition codes of an operation on _left and _right *)
Calculated(op, l, r, cc) ==
    CASE op = "ADC" -> ADC(l, r, cc)
      [] op = "ADD8" -> ADD8(l, r, cc)
      [] op = "ADD16" -> ADD16(l, r, cc)
      [] op = "AND" -> AND(l, r, cc)
      [] op = "ASL" -> ASL(l, cc)
      [] op = "ASR" -> ASR(l, cc)
      [] op = "BIT" -> BIT(l, r, cc)
      [] op = "CLR" -> CLR(cc)
      [] op \in {"CMP8", "SUB8"} -> SUB8(l, r, cc)
      [] op \in {"CMP16", "SUB16"} -> SUB16(l, r, cc)
      [] op = "COM" -> COM(l, cc)
      [] op = "DEC" -> DEC(l, cc)
      [] op = "EOR" -> EOR(l, r, cc)
      [] op = "INC" -> INC(l, cc)
      [] op = "LSR" -> LSR(l, cc)
      [] op = "NEG" -> NEG(l, cc)
      [] op = "OR" -> OR(l, r, cc)
      [] op = "ROL" -> ROL(l, cc)
      [] op = "ROR" -> ROR(l, cc)
      [] op = "SBC" -> SBC(l, r, cc)
      [] op = "TST" -> TST(l, cc)

Leave(n, out) == [n EXCEPT !.result = out.result, !.cc = out.cc]

(* A subtraction that does not look at the prefix *)
CalculateNoPage(f) ==
    LET n == Leave(f.m, Calculated(f.o.op, f.left, f.m.right, f.m.cc))
    IN  IF f.o.op = "SUB16" THEN setReg(n, f.o.reg, n.result) ELSE n
(* SUB16 stores its own result, because behind a prefix it compares. *)
Calculate(f) ==
    LET n == Leave(f.m, Calculated(f.o.op, f.left, f.m.right, f.m.cc))
    IN  IF f.o.op = "SUB16" /\ n.prev \notin Pages THEN setReg(n, f.o.reg, n.result) ELSE n

(* EXG reads both registers before it writes them, the one of the low     *)
(* digit first.                                                            *)
Exchange(n) ==
    LET low == RegOf(n.right % 16)
        high == RegOf(n.right \div 16)
    IN  setReg(setReg(n, low, getReg(n, high)), high, getReg(n, low))

Move(f) ==
    LET n == f.m
        out == DAA(n.A, n.cc)
        product == MUL(n.A, n.B, n.cc)
        lea == [n EXCEPT !.result = f.ea]
    IN  CASE f.o.op = "LD8" -> Leave(n, LD8(n.right, n.cc))
          [] f.o.op = "LD16" -> Leave(n, LD16(n.right, n.cc))
          [] f.o.op = "ST8" -> Leave(n, ST8(n.result, n.cc))
          [] f.o.op = "ST16" -> Leave(n, ST16(n.result, n.cc))
          [] f.o.op = "LEA" ->
                IF f.o.reg \in {"X", "Y"} THEN [lea EXCEPT !.cc.Z = Flag(f.ea = 0)] ELSE lea
          [] f.o.op = "EXG" -> Exchange(n)
          [] f.o.op = "TFR" -> setReg(n, RegOf(n.right % 16), getReg(n, RegOf(n.right \div 16)))
          [] f.o.op = "ABX" -> setReg(n, "X", n.X + n.B)
          [] f.o.op = "SEX" ->
                [n EXCEPT !.A = 255 * Bit(n.B, 128), !.cc = xNZ0x8(n.cc, n.result)]
          [] f.o.op = "DAA" -> [Leave(n, out) EXCEPT !.A = out.result % 256]
          [] f.o.op = "MUL" -> [setReg(n, "D", product.result) EXCEPT !.cc = product.cc]
          [] f.o.op = "ANDCC" -> setReg(n, "CC", BitAnd(CcByte(n.cc), n.right))
          [] f.o.op = "ORCC" -> setReg(n, "CC", BitOr(CcByte(n.cc), n.right))
          [] f.o.op \in {"NOP", "SYNC"} -> n

Taken(op, cc) ==
    CASE op = "BRA" -> TRUE
      [] op = "BRN" -> FALSE
      [] op = "BHI" -> BHI(cc) [] op = "BLS" -> BLS(cc)
      [] op = "BHS" -> BHS(cc) [] op = "BLO" -> BLO(cc)
      [] op = "BNE" -> BNE(cc) [] op = "BEQ" -> BEQ(cc)
      [] op = "BVC" -> BVC(cc) [] op = "BVS" -> BVS(cc)
      [] op = "BPL" -> BPL(cc) [] op = "BMI" -> BMI(cc)
      [] op = "BGE" -> BGE(cc) [] op = "BLT" -> BLT(cc)
      [] op = "BGT" -> BGT(cc) [] op = "BLE" -> BLE(cc)

BranchTo(f) == IF Taken(f.o.op, f.m.cc) THEN Skip(f.m, f.m.right) ELSE f.m

-----------------------------------------------------------------------------
(* History *)
Cells(f) == f.at .. f.sp - 1
RegistersIn(s, mask) == {Registers(s)[i] : i \in {j \in 1 .. 8 : Bit(mask, Bits[j]) = 1}}
Frame(s, mask, n, at) ==
    [s |-> s, mask |-> mask, at |-> at, sp |-> n[s],
     regs |-> [r \in RegistersIn(s, mask) |-> getReg(n, r)]]
NewFrames(s, mask, n, at) == IF at < n[s] THEN {Frame(s, mask, n, at)} ELSE {}

(* A frame is undone or left behind when the stack pointer is above it,   *)
(* and lost when a store, or the other stack, changes a byte of it.  That  *)
(* a push on its own stack from below it does not is the code's business,  *)
(* unless the stack pointer passes 0.                                      *)
Changed(n) == {a \in DOMAIN m.ram \cup DOMAIN n.ram : load8(m, a) # load8(n, a)}
Kept(n) == {f \in frames : f.at >= n[f.s] /\ Cells(f) \cap Changed(n) = {}}
KeptByPush(n, s, from) ==
    Kept(n) \cup {f \in frames : f.s = s /\ n[s] <= from /\ from <= f.at}

-----------------------------------------------------------------------------
Ready == m.error = "None" /\ m.PC \in Code /\ m.cycles < MaxCycles
NextOp == opcode(load8(m, m.PC)).op
Decoded == Loaded(Fetch(m))

Ends(n) == m' = n /\ frames' = Kept(n)

CalculateOp == /\ Ready /\ NextOp \in Calculations
               /\ LET f == Decoded IN Ends(Finished(f, Calculate(f)))
MoveOp == /\ Ready /\ NextOp \in Moves
          /\ LET f == Decoded IN Ends(Finished(f, Move(f)))
BranchOp == /\ Ready /\ NextOp \in Branching
            /\ LET f == Decoded IN Ends(Finished(f, BranchTo(f)))

(* A prefix goes straight to the next iteration. *)
PagePrefix == /\ Ready /\ NextOp \in Pages
              /\ LET f == Decoded IN Ends([AddCy(f.m, 1) EXCEPT !.prev = f.o.op])

(* The loop is left with the prefix in force. *)
Illegal == /\ Ready /\ NextOp = "ILL"
           /\ Ends([Decoded.m EXCEPT !.error = "Illegal"])

CountBits(mask) == Cardinality({w \in {1, 2, 4, 8, 16, 32, 64, 128} : Bit(mask, w) = 1})

(* The instruction f pushes the registers of mask, as they are in n, and  *)
(* leaves the machine after.                                               *)
Pushes(f, s, mask, n, after) ==
    LET pushed == PushAll(n, s, mask)
    IN  /\ m' = Finished(f, after)
        /\ frames' = KeptByPush(pushed, s, n[s]) \cup NewFrames(s, mask, n, pushed[s])

Pushing == /\ Ready /\ NextOp = "PSH"
           /\ LET f == Decoded
                  mask == f.m.right
              IN  Pushes(f, f.o.reg, mask, f.m, AddCy(PushAll(f.m, f.o.reg, mask), CountBits(mask)))
Pulling == /\ Ready /\ NextOp = "PUL"
           /\ LET f == Decoded
              IN  Ends(Finished(f, PopAll(AddCy(f.m, CountBits(f.m.right)), f.o.reg, f.m.right)))

SwiVector(prev) == IF prev = "Page3" THEN 65522 ELSE IF prev = "Page2" THEN 65524 ELSE 65530

Interrupt == /\ Ready /\ NextOp = "SWI"
             /\ LET f == Decoded
                    n == [f.m EXCEPT !.cc.E = 1]
                    pushed == PushAll(n, "S", EntireMask)
                IN  Pushes(f, "S", EntireMask, n,
                           [pushed EXCEPT !.cc.I = 1, !.cc.F = 1,
                                          !.PC = load16(pushed, SwiVector(n.prev))])
(* CWAI goes on with the next instruction.  Its mask is a _right it did   *)
(* not load.                                                               *)
WaitForInterrupt ==
    /\ Ready /\ NextOp = "CWAI"
    /\ LET f == Decoded
           cc == [CcOf(BitXor(CcByte(f.m.cc), f.m.right % 256)) EXCEPT !.E = 1]
           n == [f.m EXCEPT !.cc = cc]
       IN  Pushes(f, "S", EntireMask, n, PushAll(n, "S", EntireMask))
ReturnFromInterrupt ==
    /\ Ready /\ NextOp = "RTI"
    /\ LET f == Decoded
       IN  Ends(Finished(f, PopAll(f.m, "S", IF f.m.cc.E = 1 THEN EntireMask ELSE 128)))

(* A subroutine's frame is the program counter, mask 128. *)
BranchToSubroutine == /\ Ready /\ NextOp = "BSR"
                      /\ LET f == Decoded
                         IN  Pushes(f, "S", 128, f.m, Skip(PushAll(f.m, "S", 128), f.m.right))
JumpToSubroutine == /\ Ready /\ NextOp = "JSR"
                    /\ LET f == Decoded
                       IN  /\ f.ea < SystemAddrStart
                           /\ Pushes(f, "S", 128, f.m, [PushAll(f.m, "S", 128) EXCEPT !.PC = f.ea])
Jump == /\ Ready /\ NextOp = "JMP"
        /\ LET f == Decoded
           IN  f.ea < SystemAddrStart /\ Ends(Finished(f, [f.m EXCEPT !.PC = f.ea]))
ReturnFromSubroutine == /\ Ready /\ NextOp = "RTS"
                        /\ LET f == Decoded IN Ends(Finished(f, Pop16(f.m, "S", "PC")))

(* A system call.  Two words and U are pushed for it; when call() refuses,*)
(* the loop is left with one of the three words still on the stack.        *)
(* SystemReturnKeepsU forgets that U was among them.                       *)
SystemFrame(n) ==
    LET pushed == Push16(Push16(Push16(n, "S", 0), "S", 0), "S", n.U)
    IN  [pushed EXCEPT !.U = pushed.S]
SystemReturnKeepsU(n) == Drop(n, "S", 6)
SystemReturn(n) == Drop(Pop16(n, "S", "U"), "S", 4)

SystemCall ==
    /\ Ready /\ NextOp \in {"JMP", "JSR"}
    /\ LET f == Decoded
       IN  /\ f.ea >= SystemAddrStart
           /\ \E c \in Call(SystemFrame(f.m), f.ea) :
                 IF c.ok THEN Ends(Finished(f, SystemReturn(c.m))) ELSE Ends(Drop(c.m, "S", 4))

Next == \/ CalculateOp \/ MoveOp \/ BranchOp \/ PagePrefix \/ Illegal
        \/ Pushing \/ Pulling
        \/ Interrupt \/ WaitForInterrupt \/ ReturnFromInterrupt
        \/ BranchToSubroutine \/ JumpToSubroutine \/ Jump \/ ReturnFromSubroutine
        \/ SystemCall

Spec == Init /\ [][Next]_vars

-----------------------------------------------------------------------------
(* Type invariant. *)
MachineTypeOK(n) ==
    /\ n.A \in Byte /\ n.B \in Byte /\ n.DP \in Byte
    /\ n.X \in Word /\ n.Y \in Word /\ n.U \in Word /\ n.S \in Word /\ n.PC \in Word
    /\ n.cc \in CC
    /\ n.right \in Word /\ n.result \in Result
    /\ n.prev \in Prev
    /\ n.cycles \in Nat
    /\ n.error \in {"None", "Illegal"}
    /\ DOMAIN n.ram \subseteq MemAddr
    /\ \A a \in DOMAIN n.ram : n.ram[a] \in Byte

FrameTypeOK(f) == /\ f.s \in {"S", "U"}
                  /\ f.at \in Word /\ f.sp \in Word /\ f.at < f.sp
                  /\ m[f.s] <= f.at

CpuTypeOK == MachineTypeOK(m) /\ \A f \in frames : FrameTypeOK(f)

(* The stack and the registers the next instruction pops *)
PopMask == CASE NextOp = "PUL" -> load8(m, Wrap(m.PC + 1))
             [] NextOp = "RTS" -> 128
             [] NextOp = "RTI" -> IF m.cc.E = 1 THEN EntireMask ELSE 128
             [] NextOp \notin {"PUL", "RTS", "RTI"} -> 0
PopStack == IF NextOp = "PUL" THEN Decoded.o.reg ELSE "S"

(* Registers pushed come back: whatever lies between, on either stack and *)
(* nested, a pull, a return or a return from interrupt that takes from the *)
(* stack the registers that a push, a call or an interrupt left there      *)
(* finds their values, and leaves the stack pointer where it was.          *)
RegistersComeBack ==
    [][\A f \in frames :
          f.s = PopStack /\ f.at = m[f.s] /\ f.mask = PopMask =>
             /\ \A r \in DOMAIN f.regs : getReg(m', r) = f.regs[r]
             /\ m'[f.s] = f.sp]_vars

(* What a comparison of the register of a number r with v leaves *)
ComparedAs(cc, r, v) == /\ BEQ(cc) <=> r = v
                        /\ BLO(cc) <=> r < v
                        /\ BLT(cc) <=> Signed16(r) < Signed16(v)

AllRegisters == {"A", "B", "X", "Y", "U", "S", "DP"}
OnlyChanges(n, regs) == \A r \in AllRegisters \ regs : m'[r] = n[r]

Modifying == {"NEG", "COM", "LSR", "ROR", "ASR", "ASL", "ROL", "DEC", "INC", "CLR"}
Pushers == {"PSH", "BSR", "JSR", "SWI", "CWAI"}

(* No instruction writes where it should not: a store, or an operation on *)
(* memory, changes its operand and no other byte, a push the bytes below   *)
(* its stack pointer, every other instruction nothing.  A comparison that  *)
(* shares its row with a subtraction leaves memory alone, and a store to   *)
(* the system area is dropped, a word as a whole; only a word that begins  *)
(* in front of the area reaches its first byte (MC6809.h:406-423).         *)
MemoryKept ==
    [][LET f == Decoded
           operand == IF NextOp = "ST16" THEN {f.ea, f.ea + 1}
                      ELSE IF NextOp \in Modifying \cup {"ST8"} THEN {f.ea} ELSE {}
           s == IF NextOp = "PSH" THEN f.o.reg ELSE "S"
           below == IF NextOp \in Pushers THEN {Wrap(f.m[s] - i) : i \in 1 .. 12} ELSE {}
       IN  NextOp \notin {"JMP", "JSR"} \/ f.ea < SystemAddrStart =>
              Changed(m') \subseteq below \cup (IF f.ea < SystemAddrStart THEN operand ELSE {})]_vars

(* The table in the comment MC6809.h:65-90: what the opcodes of 16 bit     *)
(* instructions are without a prefix and behind each of them.  9C is left  *)
(* out: its row names X and one byte whatever the prefix (MC6809.cpp:193). *)
Documented(byte, prev) ==
    LET Entry(plain, page2, page3) == IF prev = "Page2" THEN page2
                                      ELSE IF prev = "Page3" THEN page3 ELSE plain
        none == <<"none", "">>
    IN  CASE byte \in {131, 147, 163, 179} -> Entry(<<"SUB", "D">>, <<"CMP", "D">>, <<"CMP", "U">>)
          [] byte \in {140, 172, 188} -> Entry(<<"CMP", "X">>, <<"CMP", "Y">>, <<"CMP", "S">>)
          [] byte \in {142, 158, 174, 190} -> Entry(<<"LD", "X">>, <<"LD", "Y">>, none)
          [] byte \in {159, 175, 191} -> Entry(<<"ST", "X">>, <<"ST", "Y">>, none)
          [] byte \in {206, 222, 238, 254} -> Entry(<<"LD", "U">>, <<"LD", "S">>, none)
          [] byte \in {223, 239, 255} -> Entry(<<"ST", "U">>, <<"ST", "S">>, none)
          [] byte \notin {131, 147, 163, 179, 140, 172, 188, 142, 158, 174, 190, 159, 175, 191,
                          206, 222, 238, 254, 223, 239, 255} -> none

(* f's operand of 16 bits *)
Operand(f) == IF f.o.adr = "Immed16" THEN load16(m, Wrap(m.PC + 1)) ELSE load16(m, f.ea)

DoesDocumented(op, reg) ==
    LET f == Decoded
        r == getReg(f.m, reg)
        v == Operand(f)
    IN  CASE op = "CMP" -> ComparedAs(m'.cc, r, v) /\ OnlyChanges(f.m, {})
          [] op = "SUB" -> /\ ComparedAs(m'.cc, r, v)
                           /\ getReg(m', "D") = Wrap(r - v)
                           /\ OnlyChanges(f.m, {"A", "B"})
          [] op = "LD" -> /\ m'[reg] = v
                          /\ BEQ(m'.cc) <=> v = 0
                          /\ OnlyChanges(f.m, {reg})
          [] op = "ST" -> /\ f.ea < SystemAddrStart - 1 => load16(m', f.ea) = r
                          /\ OnlyChanges(f.m, {})

(* The prefixed instructions are the documented ones although they share  *)
(* the table rows of the others: CMPD, CMPU, CMPY and CMPS only compare,   *)
(* with the right register, loads and stores use theirs, and no other      *)
(* register changes.                                                       *)
PagesAsDocumented ==
    [][LET d == Documented(load8(m, m.PC), m.prev)
       IN  d[1] # "none" => DoesDocumented(d[1], d[2])]_vars

(* The instruction under way begins at its prefix. *)
InstAddr == IF m.prev \in Pages THEN Wrap(m.PC - 1) ELSE m.PC
Complete == /\ NextOp \notin Pages \cup {"ILL"}
            /\ m.prev \in Pages => opcode(load8(m, InstAddr)).op = m.prev

(* What the monitor lists is what runs: the listing goes on at the address*)
(* the processor goes on at, branches and jumps go where the listing says, *)
(* a listed SUB stores and a listed CMP does not, and PSH and PUL list the *)
(* registers they move.                                                    *)
ListingFollows ==
    [][Complete =>
          LET d == instToString(m, InstAddr)
              to == IF d.op \in Branching /\ Taken(d.op, m.cc) THEN Wrap(d.next + d.number)
                    ELSE IF d.op = "BSR" THEN Wrap(d.next + d.number)
                    ELSE IF d.op \in {"JMP", "JSR"} /\ d.adr = "Extended" THEN d.number
                    ELSE d.next
              leaves == \/ d.op \in {"SWI", "RTI", "RTS"}
                        \/ d.op \in {"JMP", "JSR"} /\ d.adr # "Extended"
                        \/ d.op \in {"EXG", "TFR"} /\ (d.number % 16 = 5 \/ d.number \div 16 = 5)
                        \/ d.op = "PUL" /\ "PC" \in ShownRegisters(d.reg, d.number)
                        \/ Decoded.ea >= SystemAddrStart
          IN  /\ leaves \/ m'.PC = to
              /\ d.op = "SUB16" => getReg(m', "D") = m'.result % 65536
              /\ d.op = "CMP16" => OnlyChanges(Decoded.m, {})
              /\ d.op \in {"PSH", "PUL"} =>
                    ShownRegisters(d.reg, d.number) = RegistersIn(d.reg, d.number)]_vars

Calls == NextOp \in {"JMP", "JSR"} /\ Decoded.ea >= SystemAddrStart
Called(functions) == Calls /\ Decoded.ea \in functions

Known == {putc, puts, getc, ldStart, ldLine, ldEnd, printf, format, switch1, switch2, idiv8, idiv16,
          udiv8, udiv16}
FrameBytes(n) == {Wrap(n.S - i) : i \in 1 .. 6}

(* The bytes a function may write for the program: format its buffer,      *)
(* ldLine the cells of one record, or none, the others none.               *)
Writable(n, func) ==
    IF func = format
    THEN {{Wrap(Top16(n, "S") + i) : i \in 0 .. Top16(Drop(n, "S", 2), "S") - 1}}
    ELSE IF func = ldLine THEN {{}} \cup {RecordCells(r) : r \in Records}
    ELSE {{}}

(* A system function is a call that returns: the program goes on behind   *)
(* it with its stack pointers, its other registers and its memory, but for *)
(* the answer in A, B or X, what the function writes for it and the six    *)
(* bytes below the stack pointer that the frame took.  Only a buffer or a  *)
(* record over that frame can spoil U.                                     *)
CallsReturn ==
    [][Called(Known) =>
          LET n == Decoded.m
          IN  /\ m'.PC = n.PC /\ m'.S = n.S /\ m'.Y = n.Y /\ m'.DP = n.DP
              /\ \E w \in Writable(n, Decoded.ea) :
                    /\ Changed(m') \subseteq FrameBytes(n) \cup w
                    /\ w \cap FrameBytes(n) = {} => m'.U = n.U]_vars

(* TOS: dividend, divisor. Return quotient on A/D (BOSS9.cpp:242): of what *)
(* the program pushed, whole numbers rounded towards zero.                 *)
QuotientsAreRight ==
    [][LET n == Decoded.m
           byte(a) == load8(n, Wrap(n.S + a))
           word(a) == 256 * byte(a) + byte(a + 1)
           d == getReg(m', "D")
           IsQuotient(q, a, b) == LET r == a - q * b
                                  IN  b # 0 => /\ Magnitude(r) < Magnitude(b)
                                               /\ r = 0 \/ (r < 0 <=> a < 0)
       IN  /\ Called({udiv16}) => IsQuotient(d, word(0), word(2))
           /\ Called({udiv8}) => IsQuotient(m'.A, byte(0), byte(1))
           /\ Called({idiv16}) => \/ IsQuotient(Signed16(d), Signed16(word(0)), Signed16(word(2)))
                                  \/ d = 32768 /\ word(0) = 32768 /\ word(2) = MaxWord
           /\ Called({idiv8}) => \/ IsQuotient(Signed8(m'.A), Signed8(byte(0)), Signed8(byte(1)))
                                 \/ m'.A = 128 /\ byte(0) = 128 /\ byte(1) = 255]_vars
=============================================================================
