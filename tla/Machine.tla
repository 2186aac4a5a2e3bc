------------------------------- MODULE Machine -------------------------------
(***************************************************************************)
(* What an instruction finds and leaves: the registers and the memory of   *)
(* class Emulator, as one record, and the stages of an iteration of        *)
(* execute() as operators on it - the fetch with its address mode, the     *)
(* operands, the calculation, the stacks and the store.                    *)
(*                                                                         *)
(* ram is a function on the addresses ever written; every other address    *)
(* holds 0.  Address 65536, which load16 and next16 reach from 65535, is   *)
(* the byte behind the array: an initial memory may hold anything there.   *)
(* _left is written before each use and is a field of the fetched          *)
(* instruction; _right and _result outlive theirs (CWAI, ST8, SEX).  Of    *)
(* _right no bit above bit 15 is ever seen.  Of _prevOp only the prefixes  *)
(* matter here.                                                            *)
(***************************************************************************)
EXTENDS Alu, Opcodes

CONSTANT SystemAddrStart   \* 0xFC00 in the code

ASSUME SystemAssumption == SystemAddrStart \in Word

MemAddr == 0 .. MaxWord + 1
Pages == {"Page2", "Page3"}
Prev == Pages \cup {"other"}

Wrap(n) == n % 65536

-----------------------------------------------------------------------------
(* Memory *)
load8(m, a) == IF a \in DOMAIN m.ram THEN m.ram[a] ELSE 0
load16(m, a) == 256 * load8(m, a) + load8(m, a + 1)

Poke(m, a, v) ==
    [m EXCEPT !.ram = [x \in DOMAIN m.ram \cup {a} |-> IF x = a THEN v % 256 ELSE m.ram[x]]]

store8(m, a, v) == IF a >= SystemAddrStart THEN m ELSE Poke(m, a, v)
(* A word stored without that test *)
store16Unchecked(m, a, v) == Poke(Poke(m, a, v \div 256), a + 1, v)
store16(m, a, v) ==
    IF a >= SystemAddrStart THEN m ELSE Poke(Poke(m, a, v \div 256), a + 1, v)

-----------------------------------------------------------------------------
(* The registers an instruction's register field stands for: DDU, XYS, XY *)
(* and US depend on the prefix.                                            *)
Paged(reg, prev) ==
    IF reg \notin {"DDU", "XYS", "XY", "US"} THEN reg
    ELSE IF prev = "Page2" THEN [DDU |-> "D", XYS |-> "Y", XY |-> "Y", US |-> "S"][reg]
    ELSE IF prev = "Page3" THEN [DDU |-> "U", XYS |-> "S", XY |-> "None", US |-> "None"][reg]
    ELSE [DDU |-> "D", XYS |-> "X", XY |-> "X", US |-> "U"][reg]

ByteRegs == {"A", "B", "DP"}
WordRegs == {"X", "Y", "U", "S", "PC"}
IsWide(r) == r \in WordRegs

(* Reg as the postbyte of EXG and TFR numbers it *)
RegOf(n) == <<"D", "X", "Y", "U", "S", "PC", "None", "None", "A", "B", "CC", "DP", "None",
              "M8", "M16", "None">>[n + 1]

getReg(m, reg) ==
    LET r == Paged(reg, m.prev)
    IN  IF r \in ByteRegs \cup WordRegs THEN m[r]
        ELSE IF r = "D" THEN 256 * m.A + m.B
        ELSE IF r = "CC" THEN CcByte(m.cc)
        ELSE 0

(* D written without keeping its high byte to 8 bits *)
setRegWide(m, reg, v) ==
    LET r == Paged(reg, m.prev)
    IN  IF r \in ByteRegs THEN [m EXCEPT ![r] = v % 256]
        ELSE IF r \in WordRegs THEN [m EXCEPT ![r] = Wrap(v)]
        ELSE IF r = "D" THEN [m EXCEPT !.A = v \div 256, !.B = v % 256]
        ELSE IF r = "CC" THEN [m EXCEPT !.cc = CcOf(v % 256)]
        ELSE m
setReg(m, reg, v) ==
    LET r == Paged(reg, m.prev)
    IN  IF r \in ByteRegs THEN [m EXCEPT ![r] = v % 256]
        ELSE IF r \in WordRegs THEN [m EXCEPT ![r] = Wrap(v)]
        ELSE IF r = "D" THEN [m EXCEPT !.A = (v \div 256) % 256, !.B = v % 256]
        ELSE IF r = "CC" THEN [m EXCEPT !.cc = CcOf(v % 256)]
        ELSE m

-----------------------------------------------------------------------------
(* The stacks.  s is "S" or "U"; pushing and popping write and read _ram  *)
(* directly, without the test for the read-only area.                      *)
Push8(m, s, v) == LET a == Wrap(m[s] - 1) IN Poke([m EXCEPT ![s] = a], a, v)
Push16(m, s, v) == Push8(Push8(m, s, v), s, v \div 256)

Drop(m, s, n) == [m EXCEPT ![s] = Wrap(@ + n)]
Top16(m, s) == 256 * load8(m, m[s]) + load8(m, Wrap(m[s] + 1))
Pop8(m, s, r) == setReg(Drop(m, s, 1), r, load8(m, m[s]))
Pop16(m, s, r) == setReg(Drop(m, s, 2), r, Top16(m, s))

(* PSH and PUL name the registers by the bits of a mask, bit 7 first when *)
(* pushing and last when popping.                                          *)
Bits == <<128, 64, 32, 16, 8, 4, 2, 1>>
Registers(s) == <<"PC", IF s = "U" THEN "S" ELSE "U", "Y", "X", "DP", "B", "A", "CC">>
PushIf(m, s, mask, i) ==
    LET r == Registers(s)[i]
    IN  IF Bit(mask, Bits[i]) = 0 THEN m
        ELSE IF IsWide(r) THEN Push16(m, s, getReg(m, r))
        ELSE Push8(m, s, getReg(m, r))
PopIf(m, s, mask, i) ==
    LET r == Registers(s)[i]
    IN  IF Bit(mask, Bits[i]) = 0 THEN m
        ELSE IF IsWide(r) THEN Pop16(m, s, r)
        ELSE Pop8(m, s, r)

(* The words lie above the bytes. *)
PushWords(m, s, mask) == LET On(x, i) == PushIf(x, s, mask, i) IN On(On(On(On(m, 1), 2), 3), 4)
PushBytes(m, s, mask) == LET On(x, i) == PushIf(x, s, mask, i) IN On(On(On(On(m, 5), 6), 7), 8)
PushAll(m, s, mask) == PushBytes(PushWords(m, s, mask), s, mask)

(* Popping in the order of pushing *)
PopAllInOrder(m, s, mask) ==
    LET Off(x, i) == PopIf(x, s, mask, i)
    IN  Off(Off(Off(Off(Off(Off(Off(Off(m, 1), 2), 3), 4), 5), 6), 7), 8)
PopBytes(m, s, mask) == LET Off(x, i) == PopIf(x, s, mask, i) IN Off(Off(Off(Off(m, 8), 7), 6), 5)
PopWords(m, s, mask) == LET Off(x, i) == PopIf(x, s, mask, i) IN Off(Off(Off(Off(m, 4), 3), 2), 1)
PopAll(m, s, mask) == PopWords(PopBytes(m, s, mask), s, mask)

(* SWI and CWAI push, and RTI pops, every register but CC. *)
EntireMask == 254

-----------------------------------------------------------------------------
(* The fetch.  A fetched instruction f has the machine behind it, its row *)
(* of the opcode table, its effective address, 0 where there is none, and  *)
(* _left.                                                                  *)
Fetched(m, o, ea) == [m |-> m, o |-> o, ea |-> Wrap(ea), left |-> 0]

Skip(m, n) == [m EXCEPT !.PC = Wrap(@ + n)]
AddCy(m, n) == [m EXCEPT !.cycles = @ + n]
WithRight(m, v) == [m EXCEPT !.right = Wrap(v)]

Signed5(post) == IF post % 32 >= 16 THEN (post % 32) - 32 ELSE post % 32

(* The indexed modes.  m is the machine with PC behind the postbyte; the  *)
(* offsets from PC are added before PC is moved behind them.               *)
IndexedOffset(m, post) ==
    LET mode == IdxMode(post)
    IN  CASE mode = "Const5" -> Signed5(post)
          [] mode \in {"ConstReg8Off", "ConstPC8Off"} -> Signed8(load8(m, m.PC))
          [] mode \in {"ConstReg16Off", "ConstPC16Off", "Extended"} -> load16(m, m.PC)
          [] mode = "AccAOffReg" -> Signed8(m.A)
          [] mode = "AccBOffReg" -> Signed8(m.B)
          [] mode = "AccDOffReg" -> 256 * m.A + m.B
          [] mode = "Dec1Reg" -> -1
          [] mode = "Dec2Reg" -> -2
          [] mode \in {"ConstRegNoOff", "Inc1Reg", "Inc2Reg", "none"} -> 0
IndexedBase(m, post) ==
    LET mode == IdxMode(post)
    IN  IF mode \in {"Extended", "none"} THEN 0
        ELSE IF mode \in {"ConstPC8Off", "ConstPC16Off"} THEN m.PC
        ELSE m[IdxReg(post)]
IndexedStep(mode) ==
    CASE mode = "Inc1Reg" -> 1 [] mode = "Inc2Reg" -> 2
      [] mode = "Dec1Reg" -> -1 [] mode = "Dec2Reg" -> -2
      [] mode \notin {"Inc1Reg", "Inc2Reg", "Dec1Reg", "Dec2Reg"} -> 0
IndexedLength(mode) ==
    IF mode \in {"ConstReg8Off", "ConstPC8Off"} THEN 1
    ELSE IF mode \in {"ConstReg16Off", "ConstPC16Off", "Extended"} THEN 2
    ELSE 0
IndexedCycles(mode) ==
    IF mode \in {"Const5", "ConstReg8Off", "AccAOffReg", "AccBOffReg", "ConstPC8Off"} THEN 1
    ELSE IF mode \in {"Inc1Reg", "Dec1Reg"} THEN 2
    ELSE IF mode \in {"Inc2Reg", "Dec2Reg"} THEN 3
    ELSE IF mode \in {"ConstReg16Off", "AccDOffReg"} THEN 4
    ELSE IF mode \in {"ConstPC16Off", "Extended"} THEN 5
    ELSE 0

Indexed(m, o) ==
    LET post == load8(m, m.PC)
        mode == IdxMode(post)
        behind == Skip(m, 1)
        stepped == [behind EXCEPT ![IdxReg(post)] = Wrap(@ + IndexedStep(mode))]
        ea == Wrap(IndexedBase(behind, post) + IndexedOffset(behind, post))
        n == AddCy(Skip(stepped, IndexedLength(mode)), IndexedCycles(mode))
    IN  Fetched(n, o, IF IsIndirect(post) THEN load16(m, ea) ELSE ea)

(* Conditional branches that do not look at the prefix *)
IsLongNoPrefix(m, o) == o.adr = "RelL"
IsLong(m, o) == o.adr = "RelL" \/ (o.adr = "RelP" /\ m.prev = "Page2")

(* One iteration up to the operands: n is the machine behind the opcode.  *)
FetchRow(n, o) ==
    LET byte == load8(n, n.PC)
        word == load16(n, n.PC)
    IN  CASE o.adr \in {"None", "Inherent"} -> Fetched(n, o, 0)
          [] o.adr = "Direct" -> Fetched(Skip(n, 1), o, 256 * n.DP + byte)
          [] o.adr = "Extended" -> Fetched(Skip(n, 2), o, word)
          [] o.adr = "Immed8" -> Fetched(WithRight(Skip(n, 1), byte), o, 0)
          [] o.adr = "Immed16" -> Fetched(WithRight(Skip(n, 2), word), o, 0)
          [] o.adr \in {"RelL", "Rel", "RelP"} ->
                IF IsLong(n, o) THEN Fetched(AddCy(WithRight(Skip(n, 2), word), 2), o, 0)
                ELSE Fetched(WithRight(Skip(n, 1), Signed8(byte)), o, 0)
          [] o.adr = "Indexed" -> Indexed(n, o)
Fetch(m) ==
    LET o == opcode(load8(m, m.PC)) IN FetchRow(AddCy(Skip(m, 1), o.cycles), o)

(* The operands.  A register is read behind the steps of the address mode. *)
LeftOf(f) == IF f.o.left \notin {"Ld", "LdSt"} THEN 0
             ELSE IF f.o.reg = "M8" THEN load8(f.m, f.ea)
             ELSE getReg(f.m, f.o.reg)
RightOf(f) == CASE f.o.right = "Ld8" -> load8(f.m, f.ea)
                [] f.o.right = "Ld16" -> load16(f.m, f.ea)
                [] f.o.right \notin {"Ld8", "Ld16"} -> f.m.right
Loaded(f) == [f EXCEPT !.m.right = RightOf(f), !.left = LeftOf(f)]

(* The store, and what the next instruction sees of this one *)
Stored(f, m) ==
    IF f.o.right = "St8" THEN store8(m, f.ea, f.left)
    ELSE IF f.o.right = "St16" THEN store16(m, f.ea, f.left)
    ELSE IF f.o.left \notin {"St", "LdSt"} THEN m
    ELSE IF f.o.reg = "M8" THEN store8(m, f.ea, m.result)
    ELSE setReg(m, f.o.reg, m.result)
Finished(f, m) == [Stored(f, m) EXCEPT !.prev = "other"]
=============================================================================
