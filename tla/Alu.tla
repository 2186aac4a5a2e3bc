--------------------------------- MODULE Alu ---------------------------------
(***************************************************************************)
(* The operations of Emulator::execute() on numbers, and the condition     *)
(* codes they leave, as operators from the operands _left and _right and   *)
(* the condition codes to a result and new condition codes.  The names are *)
(* those of enum Op and of the helpers in MC6809.h.                        *)
(*                                                                         *)
(* _left, _right and _result are uint32_t.  No bit of _result above bit 16 *)
(* is ever read, so results are kept modulo 2^17 here.  Bit(n, w) is the   *)
(* bit of weight w; a flag is 0 or 1.                                      *)
(***************************************************************************)
EXTENDS Integers

Byte == 0 .. 255
MaxWord == 65535
Word == 0 .. MaxWord
ResultModulus == 131072
Result == 0 .. ResultModulus - 1

CC == [C : 0 .. 1, V : 0 .. 1, Z : 0 .. 1, N : 0 .. 1, I : 0 .. 1, H : 0 .. 1, F : 0 .. 1,
       E : 0 .. 1]

Bit(n, w) == (n \div w) % 2
Flag(p) == IF p THEN 1 ELSE 0

(* _ccByte and _cc share their storage (MC6809.h:538-541). *)
CcByte(cc) == cc.C + 2 * cc.V + 4 * cc.Z + 8 * cc.N + 16 * cc.I + 32 * cc.H + 64 * cc.F
              + 128 * cc.E
CcOf(b) == [C |-> Bit(b, 1), V |-> Bit(b, 2), Z |-> Bit(b, 4), N |-> Bit(b, 8),
            I |-> Bit(b, 16), H |-> Bit(b, 32), F |-> Bit(b, 64), E |-> Bit(b, 128)]

(* &, | and ^ of two bytes *)
BitAnd(a, b) ==
    LET Both(w) == w * Bit(a, w) * Bit(b, w)
    IN  Both(1) + Both(2) + Both(4) + Both(8) + Both(16) + Both(32) + Both(64) + Both(128)
BitOr(a, b) == a + b - BitAnd(a, b)
BitXor(a, b) == a + b - 2 * BitAnd(a, b)

(* The numbers in two's complement *)
Signed8(n) == IF n >= 128 THEN n - 256 ELSE n
Signed16(n) == IF n >= 32768 THEN n - 65536 ELSE n

-----------------------------------------------------------------------------
(* The helpers of MC6809.h:480-515.  An exclusive or of bits is their     *)
(* parity.                                                                 *)
Parity(n) == n % 2
updateH(cc, l, r, n) == [cc EXCEPT !.H = Parity(Bit(l, 16) + Bit(r, 16) + Bit(n, 16))]
updateNZ8(cc, n) == [cc EXCEPT !.Z = Flag(n % 256 = 0), !.N = Bit(n, 128)]
updateNZ16(cc, n) == [cc EXCEPT !.Z = Flag(n % 65536 = 0), !.N = Bit(n, 32768)]
updateC8(cc, n) == [cc EXCEPT !.C = Bit(n, 256)]
updateC16(cc, n) == [cc EXCEPT !.C = Bit(n, 65536)]
(* Overflow without the carry into the sign *)
updateV8Signs(cc, l, r, n) ==
    [cc EXCEPT !.V = Parity(Bit(l, 128) + Bit(r, 128) + Bit(n, 128))]
updateV8(cc, l, r, n) ==
    [cc EXCEPT !.V = Parity(Bit(l, 128) + Bit(r, 128) + Bit(n, 128) + Bit(n, 256))]
updateV16(cc, l, r, n) ==
    [cc EXCEPT !.V = Parity(Bit(l, 32768) + Bit(r, 32768) + Bit(n, 32768) + Bit(n, 65536))]

xNZVC8(cc, l, r, n) == updateC8(updateV8(updateNZ8(cc, n), l, r, n), n)
HNZVC8(cc, l, r, n) == xNZVC8(updateH(cc, l, r, n), l, r, n)
xNZVC16(cc, l, r, n) == updateC16(updateV16(updateNZ16(cc, n), l, r, n), n)
xNZ018(cc, n) == [updateNZ8(cc, n) EXCEPT !.V = 0, !.C = 1]
x0Zxx8(cc, n) == [updateNZ8(cc, n) EXCEPT !.N = 0]
xNZ0x8(cc, n) == [updateNZ8(cc, n) EXCEPT !.V = 0]
xNZ0x16(cc, n) == [updateNZ16(cc, n) EXCEPT !.V = 0]
xNZ0C8(cc, n) == updateC8(xNZ0x8(cc, n), n)
xNZxC8(cc, n) == updateC8(updateNZ8(cc, n), n)

Out(n, cc) == [result |-> n, cc |-> cc]

-----------------------------------------------------------------------------
(* Sums and differences *)
ADC(l, r, cc) == LET n == l + r + cc.C IN Out(n, HNZVC8(cc, l, r, n))
ADD8(l, r, cc) == LET n == l + r IN Out(n, HNZVC8(cc, l, r, n))
ADD16(l, r, cc) == LET n == l + r IN Out(n, xNZVC16(cc, l, r, n))
(* A difference that is allowed to be negative *)
SUB8Negative(l, r, cc) == LET n == l - r IN Out(n, xNZVC8(cc, l, r, n))
SUB8(l, r, cc) == LET n == (l - r) % ResultModulus IN Out(n, xNZVC8(cc, l, r, n))
SBC(l, r, cc) == LET n == (l - r - cc.C) % ResultModulus IN Out(n, xNZVC8(cc, l, r, n))
SUB16(l, r, cc) == LET n == (l - r) % ResultModulus IN Out(n, xNZVC16(cc, l, r, n))

(* A decrement that reports its borrow *)
DECC(l, cc) == LET n == (l - 1) % ResultModulus IN Out(n, xNZVC8(cc, l, 1, n))

(* One operand *)
NEG(l, cc) ==
    LET n == (0 - l) % ResultModulus IN Out(n, [xNZxC8(cc, n) EXCEPT !.V = Flag(l = 128)])
COM(l, cc) == LET n == (0 - l - 1) % ResultModulus IN Out(n, xNZ018(cc, n))
INC(l, cc) == LET n == l + 1 IN Out(n, [updateNZ8(cc, n) EXCEPT !.V = Flag(l = 127)])
DEC(l, cc) ==
    LET n == (l - 1) % ResultModulus IN Out(n, [updateNZ8(cc, n) EXCEPT !.V = Flag(l = 128)])
CLR(cc) == Out(0, [cc EXCEPT !.N = 0, !.Z = 1, !.V = 0, !.C = 0])
TST(l, cc) == Out(l, xNZ0x8(cc, l))

(* Shifts and rotates *)
ASL(l, cc) ==
    LET n == 2 * l
    IN  Out(n, [updateNZ8(cc, n) EXCEPT !.V = Parity(Bit(l, 64) + Bit(l, 128)), !.C = Bit(l, 128)])
ROL(l, cc) ==
    LET n == 2 * l + cc.C
    IN  Out(n, [updateNZ8(cc, n) EXCEPT !.V = Parity(Bit(l, 64) + Bit(l, 128)), !.C = Bit(l, 128)])
ASR(l, cc) ==
    LET n == l \div 2 + 128 * Bit(l, 128) IN Out(n, [updateNZ8(cc, n) EXCEPT !.C = Bit(l, 1)])
LSR(l, cc) == LET n == l \div 2 IN Out(n, [x0Zxx8(cc, n) EXCEPT !.C = Bit(l, 1)])
ROR(l, cc) ==
    LET n == l \div 2 + 128 * cc.C IN Out(n, [updateNZ8(cc, n) EXCEPT !.C = Bit(l, 1)])

(* Logic and moves.  BIT is an exclusive or in the code.  The flags of the *)
(* stores, and of SEX, come from the _result of an earlier instruction.    *)
AND(l, r, cc) == Out(BitAnd(l, r), xNZ0x8(cc, BitAnd(l, r)))
OR(l, r, cc) == Out(BitOr(l, r), xNZ0x8(cc, BitOr(l, r)))
EOR(l, r, cc) == Out(BitXor(l, r), xNZ0x8(cc, BitXor(l, r)))
BIT(l, r, cc) == Out(BitXor(l, r), xNZ0x8(cc, BitXor(l, r)))
LD8(r, cc) == Out(r, xNZ0x8(cc, r))
LD16(r, cc) == Out(r, xNZ0x16(cc, r))
ST8(earlier, cc) == Out(earlier, xNZ0x8(cc, earlier))
ST16(earlier, cc) == Out(earlier, xNZ0x16(cc, earlier))

(* A decimal adjust that does not look at the half carry *)
DAANoHalf(a, cc) ==
    LET lsn == a % 16
        msn == a \div 16
        n == a + (IF lsn > 9 THEN 6 ELSE 0)
               + (IF cc.C = 1 \/ msn > 9 \/ (msn > 8 /\ lsn > 9) THEN 96 ELSE 0)
    IN  Out(n, xNZ0C8(cc, n))

(* Decimal adjust: LSN and MSN are taken before the first correction. *)
DAA(a, cc) ==
    LET lsn == a % 16
        msn == a \div 16
        low == IF cc.H = 1 \/ lsn > 9 THEN 6 ELSE 0
        high == IF cc.C = 1 \/ msn > 9 \/ (msn > 8 /\ lsn > 9) THEN 96 ELSE 0
        n == a + low + high
    IN  Out(n, xNZ0C8(cc, n))

(* MUL: _d is written before _b is tested, and _b is the low half of _d. *)
MUL(a, b, cc) == LET n == a * b IN Out(n, [cc EXCEPT !.Z = Flag(n = 0), !.C = Bit(n, 128)])

-----------------------------------------------------------------------------
(* The branch conditions (MC6809.cpp:522-539) *)
NxorV(cc) == cc.N # cc.V
BHS(cc) == cc.C = 0
BLO(cc) == cc.C = 1
BEQ(cc) == cc.Z = 1
BNE(cc) == cc.Z = 0
BGE(cc) == ~NxorV(cc)
BLT(cc) == NxorV(cc)
(* Greater or equal instead of greater *)
BGTOrEqual(cc) == ~NxorV(cc)
BGT(cc) == ~(NxorV(cc) \/ cc.Z = 1)
BLE(cc) == NxorV(cc) \/ cc.Z = 1
BHI(cc) == cc.C = 0 /\ cc.Z = 0
BLS(cc) == cc.C = 1 \/ cc.Z = 1
BMI(cc) == cc.N = 1
BPL(cc) == cc.N = 0
BVC(cc) == cc.V = 0
BVS(cc) == cc.V = 1
=============================================================================
