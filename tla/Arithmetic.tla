------------------------------ MODULE Arithmetic ------------------------------
(***************************************************************************)
(* Sequences of arithmetic instructions of Emulator::execute(), as         *)
(* programs use them: an operation leaves _result and the condition codes, *)
(* which a conditional branch, an operation on the next byte (ADC, SBC,    *)
(* ROL, ROR), DAA or a store then reads.  Every instruction may follow     *)
(* every other.                                                            *)
(*                                                                         *)
(* last and long are history: the operands of the latest operation (a DAA  *)
(* behind an addition keeps those of the addition), and the number of      *)
(* several bytes the instructions since the last ADD, SUB, ASL or LSR have *)
(* computed.  They say what the code should have done and never guard it.  *)
(***************************************************************************)
EXTENDS Alu

CONSTANTS Bytes,     \* operands of 8 bits
          Words,     \* operands of 16 bits
          LongBytes, \* bound: the bytes numbers of several bytes are made of
          MaxWeight  \* bound: the weight at which such a number ends

ASSUME ArithmeticAssumption ==
    Bytes \subseteq Byte /\ Words \subseteq Word /\ LongBytes \subseteq Bytes /\ MaxWeight \in Nat

VARIABLES cc,      \* _cc
          result,  \* _result
          last,    \* operation, operands and carry before the latest instruction
          long     \* the number of several bytes under way

vars == <<cc, result, last, long>>

ByteOps == {"ADD8", "ADC", "SUB8", "SBC", "NEG", "INC", "DEC", "ASL", "ROL"}
WordOps == {"ADD16", "SUB16"}
OtherOps == {"BIT", "ST8", "DAA", "other"}

NoLong == [kind |-> "none", l |-> 0, r |-> 0, value |-> 0, weight |-> 1]

Init == /\ cc = CcOf(0)
        /\ result = 0
        /\ last = [op |-> "other", l |-> 0, r |-> 0, c |-> 0]
        /\ long = NoLong

Do(op, l, r, out) == /\ result' = out.result
                     /\ cc' = out.cc
                     /\ last' = [op |-> op, l |-> l, r |-> r, c |-> cc.C]
Other(out) == /\ result' = out.result
              /\ cc' = out.cc
              /\ last' = [op |-> "other", l |-> 0, r |-> 0, c |-> 0]

(* The first byte of a number, the next higher one, and the next lower one *)
InBounds(weight, l, r) == weight < MaxWeight /\ l \in LongBytes /\ r \in LongBytes
Begins(kind, l, r, n) ==
    long' = IF InBounds(1, l, r)
            THEN [kind |-> kind, l |-> l, r |-> r, value |-> n % 256, weight |-> 256]
            ELSE NoLong
GoesOn(kind, l, r, n) ==
    IF long.kind = kind /\ InBounds(long.weight, l, r)
    THEN long' = [kind |-> kind, l |-> long.l + l * long.weight, r |-> long.r + r * long.weight,
                  value |-> long.value + (n % 256) * long.weight, weight |-> 256 * long.weight]
    ELSE long' = NoLong
GoesDown(l, n) ==
    IF long.kind = "right" /\ InBounds(long.weight, l, 0)
    THEN long' = [kind |-> "right", l |-> 256 * long.l + l, r |-> 0,
                  value |-> 256 * long.value + (n % 256), weight |-> 256 * long.weight]
    ELSE long' = NoLong

-----------------------------------------------------------------------------
Add8 == \E l, r \in Bytes : LET out == ADD8(l, r, cc)
                            IN  Do("ADD8", l, r, out) /\ Begins("sum", l, r, out.result)
Adc == \E l, r \in Bytes : LET out == ADC(l, r, cc)
                           IN  Do("ADC", l, r, out) /\ GoesOn("sum", l, r, out.result)
Sub8 == \E l, r \in Bytes : LET out == SUB8(l, r, cc)
                            IN  Do("SUB8", l, r, out) /\ Begins("difference", l, r, out.result)
Sbc == \E l, r \in Bytes : LET out == SBC(l, r, cc)
                           IN  Do("SBC", l, r, out) /\ GoesOn("difference", l, r, out.result)

(* CMP16 and SUB16 share their code; a number of several bytes may also   *)
(* begin with a word.                                                      *)
Add16 == \E l, r \in Words : Do("ADD16", l, r, ADD16(l, r, cc)) /\ long' = NoLong
Sub16 == \E l, r \in Words : Do("SUB16", l, r, SUB16(l, r, cc)) /\ long' = NoLong

Asl == \E l \in Bytes : LET out == ASL(l, cc)
                        IN  Do("ASL", l, 0, out) /\ Begins("left", l, 0, out.result)
Rol == \E l \in Bytes : LET out == ROL(l, cc)
                        IN  Do("ROL", l, 0, out) /\ GoesOn("left", l, 0, out.result)
Lsr == \E l \in Bytes : LET out == LSR(l, cc)
                        IN  Other(out) /\ Begins("right", l, 0, out.result)
Asr == \E l \in Bytes : Other(ASR(l, cc)) /\ long' = NoLong
Ror == \E l \in Bytes : LET out == ROR(l, cc)
                        IN  Other(out) /\ GoesDown(l, out.result)

Neg == \E l \in Bytes : Do("NEG", l, 0, NEG(l, cc)) /\ long' = NoLong
Com == \E l \in Bytes : Other(COM(l, cc)) /\ long' = NoLong
Clr == Other(CLR(cc)) /\ long' = NoLong
Mul == \E l, r \in Bytes : Other([MUL(l, r, cc) EXCEPT !.result = result]) /\ long' = NoLong

(* What a loop over the bytes of a number does between them leaves the    *)
(* carry alone.                                                            *)
Count == \E l \in Bytes : /\ \/ Do("INC", l, 0, INC(l, cc))
                             \/ Do("DEC", l, 0, DEC(l, cc))
                          /\ UNCHANGED long
Logic == \E l, r \in Bytes : /\ \/ Other(AND(l, r, cc))
                                \/ Other(OR(l, r, cc))
                                \/ Other(EOR(l, r, cc))
                                \/ Do("BIT", l, r, BIT(l, r, cc))
                             /\ UNCHANGED long
Move8 == \E n \in Bytes : /\ \/ Other(LD8(n, cc))
                             \/ Other(TST(n, cc))
                             \/ Do("ST8", n, 0, ST8(result, cc))
                          /\ UNCHANGED long
Move16 == \E n \in Words : /\ \/ Other(LD16(n, cc))
                              \/ Other(ST16(result, cc))
                           /\ UNCHANGED long

(* DAA works on the accumulator, which after an addition holds its result. *)
Daa == \E a \in Bytes \cup {result % 256} :
          LET out == DAA(a, cc)
          IN  /\ result' = out.result
              /\ cc' = out.cc
              /\ last' = IF last.op \in {"ADD8", "ADC"} /\ a = result % 256
                         THEN [last EXCEPT !.op = "DAA", !.c = IF last.op = "ADC" THEN @ ELSE 0]
                         ELSE [op |-> "other", l |-> 0, r |-> 0, c |-> 0]
              /\ long' = NoLong

Next == \/ Add8 \/ Adc \/ Sub8 \/ Sbc \/ Add16 \/ Sub16
        \/ Asl \/ Rol \/ Lsr \/ Asr \/ Ror \/ Neg \/ Com \/ Clr \/ Mul
        \/ Count \/ Logic \/ Move8 \/ Move16 \/ Daa

Spec == Init /\ [][Next]_vars

-----------------------------------------------------------------------------
(* Type invariant. *)
ArTypeOK == /\ cc \in CC
            /\ result \in Result
            /\ last \in [op : ByteOps \cup WordOps \cup OtherOps, l : Word, r : Word, c : 0 .. 1]
            /\ last.op \in ByteOps \cup {"DAA"} => last.l \in Byte /\ last.r \in Byte
            /\ long \in [kind : {"none", "sum", "difference", "left", "right"},
                         l : Nat, r : Nat, value : Nat, weight : Nat \ {0}]

(* The number an operation on these operands stands for. *)
Exact(op, l, r, c) ==
    CASE op \in {"ADD8", "ADD16"} -> l + r
      [] op = "ADC" -> l + r + c
      [] op \in {"SUB8", "SUB16"} -> l - r
      [] op = "SBC" -> l - r - c
      [] op = "NEG" -> 0 - l
      [] op = "INC" -> l + 1
      [] op = "DEC" -> l - 1
      [] op = "ASL" -> 2 * l
      [] op = "ROL" -> 2 * l + c

(* No signed number of the width *)
Out8(n) == n < -128 \/ n > 127
Out16(n) == n < -32768 \/ n > 32767

(* The flags say of the numbers what they are defined to say: carry is a  *)
(* result that is no unsigned number of the width, overflow one that is no *)
(* signed number of it, although the code derives both from single bits of *)
(* a 32 bit register; half carry is one out of the low digit.  INC and DEC *)
(* leave the carry they found.                                             *)
FlagsAreArithmetic ==
    /\ last.op \in ByteOps =>
          LET unsigned == Exact(last.op, last.l, last.r, last.c)
              signed == Exact(last.op, Signed8(last.l), Signed8(last.r), last.c)
          IN  /\ cc.Z = Flag(unsigned % 256 = 0)
              /\ cc.N = Flag(unsigned % 256 >= 128)
              /\ cc.V = Flag(Out8(signed))
              /\ IF last.op \in {"INC", "DEC"} THEN cc.C = last.c
                 ELSE cc.C = Flag(unsigned \notin Byte)
              /\ last.op = "ADD8" => cc.H = Flag((last.l % 16) + (last.r % 16) > 15)
              /\ last.op = "ADC" => cc.H = Flag((last.l % 16) + (last.r % 16) + last.c > 15)
    /\ last.op \in WordOps =>
          LET unsigned == Exact(last.op, last.l, last.r, 0)
              signed == Exact(last.op, Signed16(last.l), Signed16(last.r), 0)
          IN  /\ cc.Z = Flag(unsigned % 65536 = 0)
              /\ cc.N = Flag(unsigned % 65536 >= 32768)
              /\ cc.V = Flag(Out16(signed))
              /\ cc.C = Flag(unsigned \notin Word)

Compares(l, r, sl, sr) ==
    /\ BEQ(cc) <=> l = r
    /\ BNE(cc) <=> l # r
    /\ BHI(cc) <=> l > r
    /\ BHS(cc) <=> l >= r
    /\ BLO(cc) <=> l < r
    /\ BLS(cc) <=> l <= r
    /\ BGT(cc) <=> sl > sr
    /\ BGE(cc) <=> sl >= sr
    /\ BLT(cc) <=> sl < sr
    /\ BLE(cc) <=> sl <= sr

(* The branches taken after a comparison are those of the order of the    *)
(* operands: BHI, BHS, BLO and BLS unsigned, BGT, BGE, BLT and BLE signed, *)
(* at both widths and over the whole range.                                *)
BranchesCompare ==
    /\ last.op = "SUB8" => Compares(last.l, last.r, Signed8(last.l), Signed8(last.r))
    /\ last.op = "SUB16" => Compares(last.l, last.r, Signed16(last.l), Signed16(last.r))

(* Numbers of several bytes come out right, the carry holding the bit that *)
(* is left over, whatever instructions that keep the carry lie between the *)
(* bytes.                                                                  *)
LongArithmetic ==
    /\ long.kind = "sum" => long.value + cc.C * long.weight = long.l + long.r
    /\ long.kind = "difference" => long.value - cc.C * long.weight = long.l - long.r
    /\ long.kind = "left" => long.value + cc.C * long.weight = 2 * long.l
    /\ long.kind = "right" => 2 * long.value + cc.C = long.l

Decimal(b) == 10 * (b \div 16) + (b % 16)
IsDecimal(b) == b % 16 <= 9 /\ b \div 16 <= 9

(* An addition of two numbers of two decimal digits and DAA give the two  *)
(* digits of their sum; its carry is right unless the addition of the      *)
(* bytes had one, which DAA then takes away.                               *)
DecimalSum ==
    last.op = "DAA" /\ IsDecimal(last.l) /\ IsDecimal(last.r) =>
       LET sum == Decimal(last.l) + Decimal(last.r) + last.c
       IN  /\ IsDecimal(result % 256)
           /\ Decimal(result % 256) = sum % 100
           /\ cc.C = Flag(sum >= 100 /\ last.l + last.r + last.c < 256)
=============================================================================
