------------------------------- MODULE CpuProofs -------------------------------
(***************************************************************************)
(* Theorems about Cpu: whatever program runs, the registers and memory keep *)
(* their types, registers pushed come back, no instruction writes where it *)
(* should not, system functions return and divide as documented, the       *)
(* prefixed instructions are those of the table, and the listing of an     *)
(* instruction says where the program goes on.                             *)
(***************************************************************************)
EXTENDS Cpu, FiniteSetTheorems, TLAPS

-----------------------------------------------------------------------------
(* Numbers *)

LEMMA WordRange == ASSUME NEW n PROVE n \in Word <=> n \in Int /\ n >= 0 /\ n < 65536
<1>1. n \in Word <=> n \in Int /\ n >= 0 /\ n <= MaxWord
  BY DEF Word
<1>2. QED
  BY <1>1 DEF MaxWord

LEMMA ByteRange == ASSUME NEW n PROVE n \in Byte <=> n \in Int /\ n >= 0 /\ n < 256
BY DEF Byte

LEMMA ResultRange == ASSUME NEW n PROVE n \in Result <=> n \in Int /\ n >= 0 /\ n < 131072
<1>1. n \in Result <=> n \in Int /\ n >= 0 /\ n <= ResultModulus - 1
  BY DEF Result
<1>2. QED
  BY <1>1 DEF ResultModulus

LEMMA MemRange == ASSUME NEW n PROVE n \in MemAddr <=> n \in Int /\ n >= 0 /\ n < 65537
<1>1. n \in MemAddr <=> n \in Int /\ n >= 0 /\ n <= MaxWord + 1
  BY DEF MemAddr
<1>2. QED
  BY <1>1 DEF MaxWord

LEMMA WordsOfBytes ==
    /\ \A n \in Byte : n \in Word
    /\ \A n \in Word : n \in Nat /\ n \in Int /\ n \in Result /\ n \in MemAddr /\ n + 1 \in MemAddr
<1>1. ASSUME NEW n \in Byte PROVE n \in Word
  BY ByteRange, WordRange
<1>2. ASSUME NEW n \in Word
      PROVE  n \in Nat /\ n \in Int /\ n \in Result /\ n \in MemAddr /\ n + 1 \in MemAddr
  <2>1. n \in Int /\ n >= 0 /\ n < 65536
    BY WordRange
  <2>2. n \in MemAddr /\ n + 1 \in MemAddr
    BY <2>1, MemRange
  <2>3. QED
    BY <2>1, <2>2, ResultRange
<1>3. QED
  BY <1>1, <1>2

LEMMA BitType == ASSUME NEW n \in Int, NEW w \in Nat \ {0} PROVE Bit(n, w) \in 0 .. 1
<1>1. n \div w \in Int
  OBVIOUS
<1>2. QED
  BY <1>1 DEF Bit

LEMMA FlagType == ASSUME NEW p PROVE Flag(p) \in 0 .. 1
BY DEF Flag

LEMMA ParityType == ASSUME NEW n \in Int PROVE Parity(n) \in 0 .. 1
BY DEF Parity

(* What is kept of a number *)
LEMMA WrapType == ASSUME NEW n \in Int PROVE Wrap(n) \in Word /\ n % 256 \in Byte
BY WordRange, ByteRange DEF Wrap

LEMMA WrapOfWord == ASSUME NEW n \in Word PROVE Wrap(n) = n
BY WordRange DEF Wrap

(* Wrapping a part of a sum *)
LEMMA WrapOfSum == ASSUME NEW x \in Int, NEW y \in Int PROVE Wrap(Wrap(x) + y) = Wrap(x + y)
<1> DEFINE q == x \div 65536
           r == x % 65536
<1>1. q \in Int /\ r \in Int /\ x = 65536 * q + r
  OBVIOUS
<1> HIDE DEF q, r
<1>2. (65536 * q + (r + y)) % 65536 = (r + y) % 65536
  BY <1>1
<1>3. QED
  BY <1>1, <1>2 DEF Wrap, r

LEMMA WrapBetween == ASSUME NEW x \in Int, 0 <= x, x < 65536 PROVE Wrap(x) = x
BY DEF Wrap

LEMMA HighByte == ASSUME NEW n \in Word PROVE n \div 256 \in Byte
BY WordRange, ByteRange

LEMMA WordOfBytes == ASSUME NEW h \in Byte, NEW l \in Byte PROVE 256 * h + l \in Word
BY WordRange, ByteRange

LEMMA SignedType == ASSUME NEW n \in Word PROVE Signed8(n) \in Int /\ Signed16(n) \in Int
BY WordRange DEF Signed8, Signed16

(* The bits of a byte make it up. *)
LEMMA LowBits == ASSUME NEW n \in Nat
    PROVE  n % 256 = Bit(n, 1) + 2 * Bit(n, 2) + 4 * Bit(n, 4) + 8 * Bit(n, 8) + 16 * Bit(n, 16)
                     + 32 * Bit(n, 32) + 64 * Bit(n, 64) + 128 * Bit(n, 128)
<1> DEFINE q2 == n \div 2
           q4 == n \div 4
           q8 == n \div 8
           q16 == n \div 16
           q32 == n \div 32
           q64 == n \div 64
           q128 == n \div 128
           q256 == n \div 256
<1>1. /\ q2 \in Int /\ q4 \in Int /\ q8 \in Int /\ q16 \in Int
      /\ q32 \in Int /\ q64 \in Int /\ q128 \in Int /\ q256 \in Int
  OBVIOUS
<1>2. /\ n = 2 * q2 + Bit(n, 1) /\ q2 = 2 * q4 + Bit(n, 2)
      /\ q4 = 2 * q8 + Bit(n, 4) /\ q8 = 2 * q16 + Bit(n, 8)
  BY DEF Bit
<1>3. /\ q16 = 2 * q32 + Bit(n, 16) /\ q32 = 2 * q64 + Bit(n, 32)
      /\ q64 = 2 * q128 + Bit(n, 64) /\ q128 = 2 * q256 + Bit(n, 128)
  BY DEF Bit
<1>4. n % 256 = n - 256 * q256
  OBVIOUS
<1>5. \A w \in {1, 2, 4, 8, 16, 32, 64, 128} : Bit(n, w) \in Int
  BY BitType
<1> HIDE DEF q2, q4, q8, q16, q32, q64, q128, q256
<1>6. QED
  BY <1>1, <1>2, <1>3, <1>4, <1>5

(* The bits two numbers share are no more than either. *)
LEMMA SharedBits == ASSUME NEW a \in Nat, NEW b \in Nat
    PROVE  BitAnd(a, b) \in Byte /\ BitAnd(a, b) <= a /\ BitAnd(a, b) <= b
<1> DEFINE Both(w) == w * Bit(a, w) * Bit(b, w)
           W == {1, 2, 4, 8, 16, 32, 64, 128}
<1>1. \A w \in W : Bit(a, w) \in 0 .. 1 /\ Bit(b, w) \in 0 .. 1
  BY BitType
<1>2. \A w \in W : Both(w) \in Int /\ 0 <= Both(w) /\ Both(w) <= w * Bit(a, w) /\ Both(w) <= w * Bit(b, w)
  <2> TAKE w \in W
  <2>1. (Bit(a, w) = 0 \/ Bit(a, w) = 1) /\ (Bit(b, w) = 0 \/ Bit(b, w) = 1)
    BY <1>1
  <2>2. QED
    BY <2>1
<1>3. BitAnd(a, b) = Both(1) + Both(2) + Both(4) + Both(8) + Both(16) + Both(32) + Both(64)
                     + Both(128)
  BY DEF BitAnd
<1>4. BitAnd(a, b) \in Int /\ 0 <= BitAnd(a, b) /\ BitAnd(a, b) <= a % 256 /\ BitAnd(a, b) <= b % 256
  <2> DEFINE A(w) == w * Bit(a, w)
             B(w) == w * Bit(b, w)
  <2>1. \A w \in W : A(w) \in Int /\ B(w) \in Int /\ Both(w) <= A(w) /\ Both(w) <= B(w)
    BY <1>1, <1>2
  <2>2. a % 256 = A(1) + A(2) + A(4) + A(8) + A(16) + A(32) + A(64) + A(128)
    <3>1. Bit(a, 1) \in Int /\ 1 * Bit(a, 1) = Bit(a, 1)
      BY BitType
    <3>2. QED
      BY <3>1, LowBits, Zenon
  <2>3. b % 256 = B(1) + B(2) + B(4) + B(8) + B(16) + B(32) + B(64) + B(128)
    <3>1. Bit(b, 1) \in Int /\ 1 * Bit(b, 1) = Bit(b, 1)
      BY BitType
    <3>2. QED
      BY <3>1, LowBits, Zenon
  <2>4. \A w \in W : Both(w) \in Int /\ 0 <= Both(w)
    BY <1>2
  <2> HIDE DEF Both, A, B
  <2>5. QED
    BY <1>3, <2>1, <2>2, <2>3, <2>4
<1>5. a % 256 \in Byte /\ b % 256 \in Byte /\ a % 256 <= a /\ b % 256 <= b
  BY DEF Byte
<1>6. QED
  BY <1>4, <1>5 DEF Byte

LEMMA BitwiseTypes == ASSUME NEW a \in Word, NEW b \in Word
    PROVE  BitAnd(a, b) \in Byte /\ BitOr(a, b) \in Result /\ BitXor(a, b) \in Result
<1>1. a \in Int /\ a >= 0 /\ a < 65536 /\ b \in Int /\ b >= 0 /\ b < 65536
  BY WordRange
<1>2. BitAnd(a, b) \in Byte /\ BitAnd(a, b) <= a /\ BitAnd(a, b) <= b
  BY <1>1, SharedBits
<1>3. BitAnd(a, b) \in Int /\ BitAnd(a, b) >= 0
  BY <1>2, ByteRange
<1>4. QED
  BY <1>1, <1>2, <1>3, ResultRange DEF BitOr, BitXor

-----------------------------------------------------------------------------
(* Results and condition codes *)

LEMMA CcOfType == ASSUME NEW b \in Int PROVE CcOf(b) \in CC
<1>1. \A w \in {1, 2, 4, 8, 16, 32, 64, 128} : Bit(b, w) \in 0 .. 1
  BY BitType
<1>2. QED
  BY <1>1 DEF CcOf, CC

LEMMA CcByteType == ASSUME NEW x \in CC PROVE CcByte(x) \in Byte
<1> DEFINE c == x.C
           v == x.V
           z == x.Z
           n == x.N
           i == x.I
           h == x.H
           f == x.F
           e == x.E
<1>1. /\ c \in 0 .. 1 /\ v \in 0 .. 1 /\ z \in 0 .. 1 /\ n \in 0 .. 1
      /\ i \in 0 .. 1 /\ h \in 0 .. 1 /\ f \in 0 .. 1 /\ e \in 0 .. 1
  BY DEF CC
<1>2. CcByte(x) = c + 2 * v + 4 * z + 8 * n + 16 * i + 32 * h + 64 * f + 128 * e
  BY DEF CcByte
<1> HIDE DEF c, v, z, n, i, h, f, e
<1>3. QED
  BY <1>1, <1>2, ByteRange

LEMMA UpdateTypes == ASSUME NEW x \in CC, NEW l \in Int, NEW r \in Int, NEW n \in Int
    PROVE  /\ updateH(x, l, r, n) \in CC
           /\ updateNZ8(x, n) \in CC /\ updateNZ16(x, n) \in CC
           /\ updateC8(x, n) \in CC /\ updateC16(x, n) \in CC
           /\ updateV8(x, l, r, n) \in CC /\ updateV16(x, l, r, n) \in CC
<1> DEFINE h == Parity(Bit(l, 16) + Bit(r, 16) + Bit(n, 16))
           v8 == Parity(Bit(l, 128) + Bit(r, 128) + Bit(n, 128) + Bit(n, 256))
           v16 == Parity(Bit(l, 32768) + Bit(r, 32768) + Bit(n, 32768) + Bit(n, 65536))
           z8 == Flag(n % 256 = 0)
           z16 == Flag(n % 65536 = 0)
           n8 == Bit(n, 128)
           n16 == Bit(n, 32768)
           c8 == Bit(n, 256)
           c16 == Bit(n, 65536)
<1>1. \A k \in {l, r, n} : \A w \in {16, 128, 256, 32768, 65536} : Bit(k, w) \in Int /\ Bit(k, w) \in 0 .. 1
  BY BitType
<1>2. h \in 0 .. 1 /\ v8 \in 0 .. 1 /\ v16 \in 0 .. 1
  BY <1>1, ParityType
<1>3. /\ n8 \in 0 .. 1 /\ n16 \in 0 .. 1 /\ c8 \in 0 .. 1 /\ c16 \in 0 .. 1
      /\ z8 \in 0 .. 1 /\ z16 \in 0 .. 1
  BY <1>1, FlagType
<1>4. /\ updateH(x, l, r, n) = [x EXCEPT !.H = h]
      /\ updateV8(x, l, r, n) = [x EXCEPT !.V = v8] /\ updateV16(x, l, r, n) = [x EXCEPT !.V = v16]
      /\ updateNZ8(x, n) = [x EXCEPT !.Z = z8, !.N = n8]
      /\ updateNZ16(x, n) = [x EXCEPT !.Z = z16, !.N = n16]
      /\ updateC8(x, n) = [x EXCEPT !.C = c8] /\ updateC16(x, n) = [x EXCEPT !.C = c16]
  BY DEF updateH, updateV8, updateV16, updateNZ8, updateNZ16, updateC8, updateC16
<1> HIDE DEF h, v8, v16, z8, z16, n8, n16, c8, c16
<1>5. updateH(x, l, r, n) \in CC /\ updateV8(x, l, r, n) \in CC /\ updateV16(x, l, r, n) \in CC
  BY <1>2, <1>4 DEF CC
<1>6. updateC8(x, n) \in CC /\ updateC16(x, n) \in CC
  BY <1>3, <1>4 DEF CC
<1>7. [x EXCEPT !.Z = z8] \in CC /\ [x EXCEPT !.Z = z16] \in CC
  BY <1>3 DEF CC
<1>8. [[x EXCEPT !.Z = z8] EXCEPT !.N = n8] \in CC /\ [[x EXCEPT !.Z = z16] EXCEPT !.N = n16] \in CC
  BY <1>3, <1>7 DEF CC
<1>9. QED
  BY <1>4, <1>5, <1>6, <1>8

LEMMA HelperTypes == ASSUME NEW x \in CC, NEW l \in Int, NEW r \in Int, NEW n \in Int
    PROVE  /\ xNZVC8(x, l, r, n) \in CC /\ HNZVC8(x, l, r, n) \in CC /\ xNZVC16(x, l, r, n) \in CC
           /\ xNZ018(x, n) \in CC /\ x0Zxx8(x, n) \in CC /\ xNZ0x8(x, n) \in CC
           /\ xNZ0x16(x, n) \in CC /\ xNZ0C8(x, n) \in CC /\ xNZxC8(x, n) \in CC
<1>1. xNZVC8(x, l, r, n) \in CC /\ HNZVC8(x, l, r, n) \in CC /\ xNZVC16(x, l, r, n) \in CC
  BY UpdateTypes DEF xNZVC8, HNZVC8, xNZVC16
<1> DEFINE y == updateNZ8(x, n)
           z == updateNZ16(x, n)
<1>2. y \in CC /\ z \in CC
  BY UpdateTypes
<1>3. /\ xNZ0x8(x, n) = [y EXCEPT !.V = 0] /\ xNZ0x16(x, n) = [z EXCEPT !.V = 0]
      /\ x0Zxx8(x, n) = [y EXCEPT !.N = 0] /\ xNZ018(x, n) = [y EXCEPT !.V = 0, !.C = 1]
  BY DEF xNZ0x8, xNZ0x16, x0Zxx8, xNZ018
<1> HIDE DEF y, z
<1>4. /\ xNZ0x8(x, n) \in CC /\ xNZ0x16(x, n) \in CC
      /\ x0Zxx8(x, n) \in CC /\ xNZ018(x, n) \in CC
  <2>1. xNZ0x8(x, n) \in CC /\ xNZ0x16(x, n) \in CC
    BY <1>2, <1>3 DEF CC
  <2>2. x0Zxx8(x, n) \in CC
    BY <1>2, <1>3 DEF CC
  <2>3. xNZ018(x, n) \in CC
    <3> DEFINE w == [y EXCEPT !.V = 0]
    <3>1. w \in CC
      BY <1>2 DEF CC
    <3>2. xNZ018(x, n) = [w EXCEPT !.C = 1]
      BY <1>3
    <3> HIDE DEF w
    <3>3. QED
      BY <3>1, <3>2 DEF CC
  <2>4. QED
    BY <2>1, <2>2, <2>3
<1>5. xNZ0C8(x, n) \in CC /\ xNZxC8(x, n) \in CC
  BY <1>4, UpdateTypes DEF xNZ0C8, xNZxC8
<1>6. QED
  BY <1>1, <1>4, <1>5

IsOut(o) == o.result \in Result /\ o.cc \in CC

LEMMA OutType == ASSUME NEW n \in Result, NEW x \in CC PROVE IsOut(Out(n, x))
BY DEF IsOut, Out
(* Sums and differences of words, with or without a carry *)
LEMMA SumTypes == ASSUME NEW l \in Word, NEW r \in Word, NEW x \in CC
    PROVE  /\ IsOut(ADC(l, r, x)) /\ IsOut(ADD8(l, r, x)) /\ IsOut(ADD16(l, r, x))
           /\ IsOut(SUB8(l, r, x)) /\ IsOut(SBC(l, r, x)) /\ IsOut(SUB16(l, r, x))
<1> DEFINE n1 == l + r + x.C
           n2 == l + r
           n3 == (l - r) % ResultModulus
           n4 == (l - r - x.C) % ResultModulus
<1>1. l \in Int /\ l >= 0 /\ l < 65536 /\ r \in Int /\ r >= 0 /\ r < 65536
  BY WordRange
<1>2. x.C \in 0 .. 1
  BY DEF CC
<1>3. n1 \in Result /\ n2 \in Result
  BY <1>1, <1>2, ResultRange
<1>4. n3 \in Result /\ n4 \in Result
  BY <1>1, <1>2, ResultRange DEF ResultModulus
<1>5. n1 \in Int /\ n2 \in Int /\ n3 \in Int /\ n4 \in Int
  BY <1>3, <1>4, ResultRange
<1>6. /\ ADC(l, r, x) = Out(n1, HNZVC8(x, l, r, n1)) /\ ADD8(l, r, x) = Out(n2, HNZVC8(x, l, r, n2))
      /\ ADD16(l, r, x) = Out(n2, xNZVC16(x, l, r, n2)) /\ SUB8(l, r, x) = Out(n3, xNZVC8(x, l, r, n3))
      /\ SBC(l, r, x) = Out(n4, xNZVC8(x, l, r, n4)) /\ SUB16(l, r, x) = Out(n3, xNZVC16(x, l, r, n3))
  BY DEF ADC, ADD8, ADD16, SUB8, SBC, SUB16
<1> HIDE DEF n1, n2, n3, n4
<1>7. QED
  BY <1>1, <1>3, <1>4, <1>5, <1>6, HelperTypes, OutType

LEMMA LogicTypes == ASSUME NEW l \in Word, NEW r \in Word, NEW x \in CC
    PROVE  /\ IsOut(AND(l, r, x)) /\ IsOut(OR(l, r, x)) /\ IsOut(EOR(l, r, x)) /\ IsOut(BIT(l, r, x))
<1>1. BitAnd(l, r) \in Result /\ BitOr(l, r) \in Result /\ BitXor(l, r) \in Result
  BY BitwiseTypes, WordsOfBytes
<1>2. BitAnd(l, r) \in Int /\ BitOr(l, r) \in Int /\ BitXor(l, r) \in Int
  BY <1>1, ResultRange
<1>3. QED
  BY <1>1, <1>2, HelperTypes, OutType DEF AND, OR, EOR, BIT

(* Operations on one operand *)
LEMMA UnaryTypes == ASSUME NEW l \in Word, NEW x \in CC
    PROVE  /\ IsOut(NEG(l, x)) /\ IsOut(COM(l, x)) /\ IsOut(INC(l, x)) /\ IsOut(DEC(l, x))
           /\ IsOut(CLR(x)) /\ IsOut(TST(l, x))
<1> DEFINE n1 == (0 - l) % ResultModulus
           n2 == (0 - l - 1) % ResultModulus
           n3 == l + 1
           n4 == (l - 1) % ResultModulus
           v1 == Flag(l = 128)
           v2 == Flag(l = 127)
           y1 == xNZxC8(x, n1)
           y3 == updateNZ8(x, n3)
           y4 == updateNZ8(x, n4)
<1>1. l \in Int /\ l >= 0 /\ l < 65536
  BY WordRange
<1>2. n1 \in Result /\ n2 \in Result /\ n3 \in Result /\ n4 \in Result
  BY <1>1, ResultRange DEF ResultModulus
<1>3. n1 \in Int /\ n2 \in Int /\ n3 \in Int /\ n4 \in Int
  BY <1>2, ResultRange
<1>4. y1 \in CC /\ y3 \in CC /\ y4 \in CC /\ v1 \in 0 .. 1 /\ v2 \in 0 .. 1
  BY <1>3, HelperTypes, UpdateTypes, FlagType
<1>5. /\ NEG(l, x) = Out(n1, [y1 EXCEPT !.V = v1]) /\ COM(l, x) = Out(n2, xNZ018(x, n2))
      /\ INC(l, x) = Out(n3, [y3 EXCEPT !.V = v2]) /\ DEC(l, x) = Out(n4, [y4 EXCEPT !.V = v1])
      /\ TST(l, x) = Out(l, xNZ0x8(x, l))
  BY DEF NEG, COM, INC, DEC, TST
<1> HIDE DEF n1, n2, n3, n4, v1, v2, y1, y3, y4
<1>6. [y1 EXCEPT !.V = v1] \in CC
  BY <1>4 DEF CC
<1>7. [y3 EXCEPT !.V = v2] \in CC
  BY <1>4 DEF CC
<1>8. [y4 EXCEPT !.V = v1] \in CC
  BY <1>4 DEF CC
<1>9. [x EXCEPT !.N = 0, !.Z = 1, !.V = 0, !.C = 0] \in CC
  <2> DEFINE w1 == [x EXCEPT !.N = 0]
             w2 == [w1 EXCEPT !.Z = 1]
             w3 == [w2 EXCEPT !.V = 0]
  <2>1. w1 \in CC
    BY DEF CC
  <2> HIDE DEF w1
  <2>2. w2 \in CC
    BY <2>1 DEF CC
  <2> HIDE DEF w2
  <2>3. w3 \in CC
    BY <2>2 DEF CC
  <2> HIDE DEF w3
  <2>4. [w3 EXCEPT !.C = 0] \in CC
    BY <2>3 DEF CC
  <2>5. QED
    BY <2>4, Zenon DEF w1, w2, w3
<1>10. IsOut(NEG(l, x)) /\ IsOut(INC(l, x)) /\ IsOut(DEC(l, x))
  BY <1>2, <1>5, <1>6, <1>7, <1>8, OutType
<1>11. IsOut(COM(l, x)) /\ IsOut(TST(l, x))
  BY <1>1, <1>2, <1>3, <1>5, WordsOfBytes, HelperTypes, OutType
<1>12. IsOut(CLR(x))
  BY <1>9, ResultRange DEF CLR, IsOut, Out
<1>13. QED
  BY <1>10, <1>11, <1>12

(* Shifts and rotates *)
LEMMA ShiftTypes == ASSUME NEW l \in Word, NEW x \in CC
    PROVE  /\ IsOut(ASL(l, x)) /\ IsOut(ROL(l, x))
           /\ IsOut(ASR(l, x)) /\ IsOut(LSR(l, x)) /\ IsOut(ROR(l, x))
<1> DEFINE n1 == 2 * l
           n2 == 2 * l + x.C
           n3 == l \div 2 + 128 * Bit(l, 128)
           n4 == l \div 2
           n5 == l \div 2 + 128 * x.C
           v == Parity(Bit(l, 64) + Bit(l, 128))
           b7 == Bit(l, 128)
           b0 == Bit(l, 1)
           y1 == updateNZ8(x, n1)
           y2 == updateNZ8(x, n2)
           y3 == updateNZ8(x, n3)
           y4 == x0Zxx8(x, n4)
           y5 == updateNZ8(x, n5)
<1>1. l \in Int /\ l >= 0 /\ l < 65536
  BY WordRange
<1>2. b7 \in 0 .. 1 /\ b0 \in 0 .. 1 /\ v \in 0 .. 1 /\ x.C \in 0 .. 1
  BY <1>1, BitType, ParityType DEF CC
<1>3. n1 \in Result /\ n2 \in Result /\ n3 \in Result /\ n4 \in Result /\ n5 \in Result
  BY <1>1, <1>2, ResultRange
<1>4. n1 \in Int /\ n2 \in Int /\ n3 \in Int /\ n4 \in Int /\ n5 \in Int
  BY <1>3, ResultRange
<1> HIDE DEF n1, n2, n3, n4, n5
<1>5. y1 \in CC /\ y2 \in CC /\ y3 \in CC /\ y4 \in CC /\ y5 \in CC
  BY <1>4, HelperTypes, UpdateTypes
<1>6. /\ ASL(l, x) = Out(n1, [y1 EXCEPT !.V = v, !.C = b7])
      /\ ROL(l, x) = Out(n2, [y2 EXCEPT !.V = v, !.C = b7])
      /\ ASR(l, x) = Out(n3, [y3 EXCEPT !.C = b0]) /\ LSR(l, x) = Out(n4, [y4 EXCEPT !.C = b0])
      /\ ROR(l, x) = Out(n5, [y5 EXCEPT !.C = b0])
  BY DEF ASL, ROL, ASR, LSR, ROR, n1, n2, n3, n4, n5
<1> HIDE DEF v, b7, b0, y1, y2, y3, y4, y5
<1>7. ASSUME NEW y \in CC
      PROVE  [y EXCEPT !.C = b0] \in CC /\ [y EXCEPT !.V = v, !.C = b7] \in CC
  <2>1. [y EXCEPT !.C = b0] \in CC
    BY <1>2 DEF CC
  <2>2. [y EXCEPT !.V = v, !.C = b7] \in CC
    BY <1>2 DEF CC
  <2>3. QED
    BY <2>1, <2>2
<1>8. /\ [y1 EXCEPT !.V = v, !.C = b7] \in CC /\ [y2 EXCEPT !.V = v, !.C = b7] \in CC
      /\ [y3 EXCEPT !.C = b0] \in CC /\ [y4 EXCEPT !.C = b0] \in CC /\ [y5 EXCEPT !.C = b0] \in CC
  BY <1>5, <1>7, Zenon
<1>9. QED
  BY <1>3, <1>6, <1>8, OutType

LEMMA CalculatedTypes == ASSUME NEW op \in Calculations, NEW l \in Word, NEW r \in Word, NEW x \in CC
    PROVE  IsOut(Calculated(op, l, r, x))
BY SumTypes, LogicTypes, UnaryTypes, ShiftTypes DEF Calculated, Calculations

(* Loads and stores, decimal adjust and multiplication *)
LEMMA MoveTypes == ASSUME NEW a \in Byte, NEW b \in Byte, NEW r \in Word, NEW n \in Result, NEW x \in CC
    PROVE  /\ IsOut(LD8(r, x)) /\ IsOut(LD16(r, x)) /\ IsOut(ST8(n, x)) /\ IsOut(ST16(n, x))
           /\ IsOut(DAA(a, x)) /\ MUL(a, b, x).result \in Nat /\ MUL(a, b, x).cc \in CC
           /\ xNZ0x8(x, n) \in CC
<1>1. /\ r \in Int /\ r \in Result /\ n \in Int
      /\ a \in Int /\ a >= 0 /\ a < 256 /\ b \in Int /\ b >= 0
  BY WordsOfBytes, ResultRange, ByteRange
<1>2. IsOut(LD8(r, x)) /\ IsOut(LD16(r, x)) /\ IsOut(ST8(n, x)) /\ IsOut(ST16(n, x))
  BY <1>1, HelperTypes, OutType DEF LD8, LD16, ST8, ST16
<1>3. IsOut(DAA(a, x))
  <2> DEFINE low == IF x.H = 1 \/ a % 16 > 9 THEN 6 ELSE 0
             high == IF x.C = 1 \/ a \div 16 > 9 \/ (a \div 16 > 8 /\ a % 16 > 9) THEN 96 ELSE 0
             k == a + low + high
  <2>1. low \in 0 .. 6 /\ high \in 0 .. 96
    OBVIOUS
  <2>2. DAA(a, x) = Out(k, xNZ0C8(x, k))
    BY DEF DAA
  <2> HIDE DEF low, high
  <2>3. k \in Result /\ k \in Int
    BY <1>1, <2>1, ResultRange
  <2> HIDE DEF k
  <2>4. QED
    BY <2>2, <2>3, HelperTypes, OutType
<1>4. MUL(a, b, x).result \in Nat /\ MUL(a, b, x).cc \in CC
  <2> DEFINE k == a * b
             z == Flag(k = 0)
             c == Bit(k, 128)
  <2>1. k \in Nat
    BY <1>1
  <2> HIDE DEF k
  <2>2. z \in 0 .. 1 /\ c \in 0 .. 1
    BY <2>1, FlagType, BitType
  <2>3. MUL(a, b, x) = Out(k, [x EXCEPT !.Z = z, !.C = c])
    BY DEF MUL, k
  <2> HIDE DEF z, c
  <2>4. [x EXCEPT !.Z = z, !.C = c] \in CC
    BY <2>2 DEF CC
  <2>5. QED
    BY <2>1, <2>3, <2>4 DEF Out
<1>5. QED
  BY <1>1, <1>2, <1>3, <1>4, HelperTypes

-----------------------------------------------------------------------------
(* The opcode table *)

Modes == {"None", "Inherent", "Direct", "Extended", "Immed8", "Immed16", "RelL", "Rel", "RelP",
          "Indexed"}
Stackings == {"PSH", "PUL"}
Controls == Stackings \cup {"SWI", "CWAI", "RTI", "BSR", "JSR", "JMP", "RTS"}

Returns == {"RTS", "RTI"}

Relative == {"RelL", "Rel", "RelP"}
Inline == Relative \cup {"Immed8", "Immed16"}
Exchanging == {"EXG", "TFR"}
Comparing == {"SUB16", "CMP16"}
Branchings == Branching \cup {"BSR"}

(* What every row of the table has: where instructions that work on the   *)
(* stacks, branch or jump have their operands, which instructions store,  *)
(* that none but PUL, EXG and TFR name the program counter, and that what  *)
(* lies behind an opcode is not loaded over.                               *)
IsRow(o) == /\ o.adr \in Modes /\ o.cycles \in Nat
            /\ o.op \in Stackings => o.reg \in {"S", "U"} /\ o.adr = "Immed8"
            /\ o.op \in Returns => o.adr = "Inherent"
            /\ o.op \in Controls => o.left = "None" /\ o.right = "None"
            /\ o.right = "St8" => o.op = "ST8"
            /\ o.right = "St16" => o.op = "ST16"
            /\ o.reg = "M8" /\ o.left \in {"St", "LdSt"} => o.op \in Modifying
            /\ o.reg # "PC"
            /\ o.adr \in Inline => o.right \notin {"Ld8", "Ld16"}
            /\ o.op \in Branchings => o.adr \in Relative
            /\ o.op \in Exchanging => o.adr = "Immed8"
            /\ o.op \in Comparing => o.left = "Ld" /\ o.right \notin {"St8", "St16"}
            /\ o.op = "SUB16" => o.reg = "DDU"

LEMMA PlainIsRow ==
    ASSUME NEW op, op \notin Stackings \cup Comparing \cup Exchanging, NEW adr \in Modes,
           op \in Returns => adr = "Inherent", op \in Branchings => adr \in Relative, NEW n \in Nat
    PROVE  IsRow(Plain(op, adr, n))
BY DEF IsRow, Plain, Opcode, Stackings, Comparing

LEMMA IllIsRow == IsRow(Ill)
BY PlainIsRow DEF Ill, Stackings, Modes, Returns, Comparing, Exchanging, Branchings, Branching

LEMMA LoadingIsRow ==
    ASSUME NEW op, op \notin Controls, NEW reg, NEW left, NEW right, NEW adr \in Modes, NEW n \in Nat,
           right = "St8" => op = "ST8", right = "St16" => op = "ST16",
           reg = "M8" /\ left \in {"St", "LdSt"} => op \in Modifying,
           op \notin Branchings \cup Exchanging, reg # "PC",
           adr \in Inline => right \notin {"Ld8", "Ld16"}, op = "SUB16" => reg = "DDU",
           op \in Comparing => left = "Ld" /\ right \notin {"St8", "St16"}
    PROVE  IsRow(Opcode(op, reg, left, right, adr, n))
BY DEF IsRow, Opcode, Stackings, Controls, Returns

LEMMA RowNumbers == ASSUME NEW i \in Byte PROVE Row(i) \in 0 .. 15 /\ Col(i) \in 0 .. 15
BY ByteRange DEF Row, Col

LEMMA UnaryIsRow == ASSUME NEW i \in Byte PROVE IsRow(Unary(i))
<1> DEFINE op == UnaryOps[Col(i) + 1]
           adr == CASE Row(i) = 0 -> "Direct" [] Row(i) = 6 -> "Indexed" [] Row(i) = 7 -> "Extended"
                    [] OTHER -> "Inherent"
           reg == CASE Row(i) = 4 -> "A" [] Row(i) = 5 -> "B" [] OTHER -> "M8"
           left == CASE op = "TST" -> "Ld" [] op = "CLR" -> "St" [] OTHER -> "LdSt"
           cycles == CASE adr = "Inherent" -> 2 [] adr = "Extended" -> 7 [] OTHER -> 6
<1>1. op \in {"NEG", "ILL", "COM", "LSR", "ROR", "ASR", "ASL", "ROL", "DEC", "INC", "TST", "JMP", "CLR"}
  <2> DEFINE c == Col(i) + 1
  <2>1. c \in 1 .. 16
    BY RowNumbers
  <2> HIDE DEF c
  <2>2. UnaryOps[c] \in {"NEG", "ILL", "COM", "LSR", "ROR", "ASR", "ASL", "ROL", "DEC", "INC", "TST",
                         "JMP", "CLR"}
    BY <2>1 DEF UnaryOps
  <2>3. QED
    BY <2>2 DEF c
<1>2. adr \in Modes /\ cycles \in Nat
  BY RowNumbers DEF Modes
<1>21. (left \in {"St", "LdSt"} => op # "TST") /\ reg # "PC"
  OBVIOUS
<1>3. Unary(i) = IF op = "ILL" \/ (op = "JMP" /\ adr = "Inherent") THEN Ill
                 ELSE IF op = "JMP" THEN Plain("JMP", adr, IF adr = "Extended" THEN 4 ELSE 3)
                 ELSE Opcode(op, reg, left, "None", adr, cycles)
  BY DEF Unary
<1> HIDE DEF op, adr, reg, left, cycles
<1>4. CASE op = "ILL" \/ (op = "JMP" /\ adr = "Inherent")
  BY <1>3, <1>4, IllIsRow
<1>5. CASE op = "JMP" /\ adr # "Inherent"
  <2> DEFINE n == IF adr = "Extended" THEN 4 ELSE 3
  <2>1. /\ n \in Nat /\ "JMP" \notin Stackings \cup Comparing \cup Exchanging
        /\ "JMP" \notin Returns /\ "JMP" \notin Branchings
    BY DEF Stackings, Returns, Comparing, Exchanging, Branchings, Branching
  <2>2. Unary(i) = Plain("JMP", adr, n)
    BY <1>3, <1>5
  <2> HIDE DEF n
  <2>3. QED
    BY <1>2, <2>1, <2>2, PlainIsRow
<1>6. CASE op # "ILL" /\ op # "JMP"
  <2>1. op \notin Controls /\ op \notin Branchings \cup Exchanging /\ op \notin Comparing
    BY <1>1, <1>6 DEF Controls, Stackings, Branchings, Branching, Exchanging, Comparing
  <2>2. Unary(i) = Opcode(op, reg, left, "None", adr, cycles)
    BY <1>3, <1>6
  <2>3. left \in {"St", "LdSt"} => op \in Modifying
    BY <1>1, <1>21, <1>6 DEF Modifying
  <2>4. QED
    BY <1>2, <1>21, <2>1, <2>2, <2>3, LoadingIsRow DEF Comparing
<1>7. QED
  BY <1>4, <1>5, <1>6

LEMMA Row1IsRow == ASSUME NEW c \in 1 .. 16 PROVE IsRow(Row1[c])
BY DEF Row1, Plain, Ill, Opcode, IsRow, Modes, Stackings, Controls, Returns, Relative, Inline, Exchanging,
       Comparing, Branchings, Branching

LEMMA Row3IsRow == ASSUME NEW c \in 1 .. 16 PROVE IsRow(Row3[c])
BY DEF Row3, Lea, Stacking, Plain, Ill, Opcode, IsRow, Modes, Stackings, Controls, Returns, Relative, Inline, Exchanging,
       Comparing, Branchings, Branching

LEMMA BranchIsRow == ASSUME NEW i \in Byte PROVE IsRow(Branch(i))
<1> DEFINE c == Col(i) + 1
<1>1. c \in 1 .. 16
  BY RowNumbers
<1> HIDE DEF c
<1>2. Branches[c] \notin Stackings \cup Returns /\ Branches[c] \notin Comparing \cup Exchanging
  BY <1>1 DEF Branches, Stackings, Returns, Comparing, Exchanging
<1>3. Branch(i) = Plain(Branches[c], IF Col(i) = 0 THEN "Rel" ELSE "RelP", 3)
  BY DEF Branch, c
<1>4. (IF Col(i) = 0 THEN "Rel" ELSE "RelP") \in Modes \cap Relative
  BY DEF Modes, Relative
<1>5. QED
  BY <1>2, <1>3, <1>4, PlainIsRow

LEMMA BinaryIsRow == ASSUME NEW i \in Byte PROVE IsRow(Binary(i))
<1> DEFINE onA == Row(i) < 12
           op == IF onA THEN OpsOnA[Col(i) + 1] ELSE OpsOnB[Col(i) + 1]
           wide == op \in {"SUB16", "ADD16", "CMP16", "LD16", "ST16"}
           immediate == Row(i) % 4 = 0
           adr == CASE immediate -> IF wide THEN "Immed16" ELSE "Immed8"
                    [] Row(i) % 4 = 1 -> "Direct" [] Row(i) % 4 = 2 -> "Indexed"
                    [] Row(i) % 4 = 3 -> "Extended"
           reg == IF op = "SUB16" THEN "DDU"
                  ELSE IF op = "CMP16" THEN IF i = 156 THEN "X" ELSE "XYS"
                  ELSE IF wide THEN IF onA THEN "XY" ELSE IF Col(i) < 14 THEN "D" ELSE "US"
                  ELSE IF onA THEN "A" ELSE "B"
           left == CASE op \in {"CMP8", "BIT", "ST8", "SUB16", "CMP16", "ST16"} -> "Ld"
                     [] op \in {"LD8", "LD16"} -> "St"
                     [] OTHER -> "LdSt"
           right == IF op = "ST8" THEN "St8" ELSE IF op = "ST16" THEN "St16"
                    ELSE IF immediate THEN "None"
                    ELSE IF wide /\ i # 156 THEN "Ld16" ELSE "Ld8"
           base == CASE immediate -> 2 [] Row(i) % 4 = 3 -> 5 [] OTHER -> 4
           cycles == CASE op \in {"SUB16", "ADD16", "CMP16"} -> base + 2
                       [] op \in {"LD16", "ST16"} -> base + 1
                       [] OTHER -> base
<1>1. op \in {"SUB8", "CMP8", "SBC", "SUB16", "AND", "BIT", "LD8", "ST8", "EOR", "ADC", "OR", "ADD8",
              "CMP16", "JSR", "LD16", "ST16", "ADD16"}
  <2> DEFINE c == Col(i) + 1
  <2>1. c \in 1 .. 16
    BY RowNumbers
  <2> HIDE DEF c
  <2>2. OpsOnA[c] \in {"SUB8", "CMP8", "SBC", "SUB16", "AND", "BIT", "LD8", "ST8", "EOR", "ADC", "OR",
                       "ADD8", "CMP16", "JSR", "LD16", "ST16", "ADD16"}
    BY <2>1 DEF OpsOnA
  <2>3. OpsOnB[c] = IF c = 4 THEN "ADD16" ELSE IF c = 13 THEN "LD16" ELSE IF c = 14 THEN "ST16"
                    ELSE OpsOnA[c]
    BY <2>1 DEF OpsOnA, OpsOnB
  <2>4. QED
    BY <2>2, <2>3 DEF c
<1>2. base \in Nat
  OBVIOUS
<1>3. adr \in Modes
  <2>1. Row(i) % 4 \in 0 .. 3
    BY RowNumbers
  <2>2. QED
    BY <2>1 DEF Modes
<1>31. /\ right = "St8" => op = "ST8"
       /\ right = "St16" => op = "ST16"
       /\ reg # "M8" /\ reg # "PC"
       /\ op = "SUB16" => reg = "DDU"
  OBVIOUS
<1>32. op \in Comparing => left = "Ld" /\ right \notin {"St8", "St16"}
  BY DEF Comparing
<1>33. adr \in Inline => right \notin {"Ld8", "Ld16"}
  <2>1. adr \in Inline => immediate
    <3>1. Row(i) % 4 \in 0 .. 3
      BY RowNumbers
    <3>2. QED
      BY <3>1 DEF Inline, Relative
  <2>2. immediate => right \notin {"Ld8", "Ld16"}
    OBVIOUS
  <2>3. QED
    BY <2>1, <2>2
<1>4. Binary(i) = IF i = 141 THEN Plain("BSR", "Rel", 7)
                  ELSE IF immediate /\ op \in {"ST8", "ST16"} THEN Ill
                  ELSE IF op = "JSR" THEN Plain("JSR", adr, base + 3)
                  ELSE Opcode(op, reg, left, right, adr, cycles)
  BY Zenon DEF Binary
<1> HIDE DEF base, op
<1>5. base + 3 \in Nat /\ cycles \in Nat
  BY <1>2
<1> HIDE DEF onA, wide, immediate, adr, reg, left, right, cycles
<1>6. CASE i = 141
  BY <1>4, <1>6, PlainIsRow DEF Stackings, Modes, Returns, Comparing, Exchanging, Relative
<1>7. CASE i # 141 /\ immediate /\ op \in {"ST8", "ST16"}
  BY <1>4, <1>7, IllIsRow
<1>8. CASE i # 141 /\ ~(immediate /\ op \in {"ST8", "ST16"}) /\ op = "JSR"
  <2>1. /\ "JSR" \notin Stackings \cup Comparing \cup Exchanging
        /\ "JSR" \notin Returns /\ "JSR" \notin Branchings
    BY DEF Stackings, Returns, Comparing, Exchanging, Branchings, Branching
  <2>2. QED
    BY <1>3, <1>4, <1>5, <1>8, <2>1, PlainIsRow
<1>9. CASE i # 141 /\ ~(immediate /\ op \in {"ST8", "ST16"}) /\ op # "JSR"
  <2>1. op \notin Controls /\ op \notin Branchings \cup Exchanging
    BY <1>1, <1>9 DEF Controls, Stackings, Branchings, Branching, Exchanging
  <2>2. QED
    BY <1>3, <1>4, <1>5, <1>9, <1>31, <1>32, <1>33, <2>1, LoadingIsRow
<1>10. QED
  BY <1>6, <1>7, <1>8, <1>9

LEMMA OpcodeIsRow == ASSUME NEW i \in Byte PROVE IsRow(opcode(i))
<1> DEFINE c == Col(i) + 1
<1>1. Row(i) \in 0 .. 15 /\ c \in 1 .. 16
  <2>1. Row(i) \in 0 .. 15 /\ Col(i) \in 0 .. 15
    BY RowNumbers
  <2> DEFINE d == Col(i)
  <2> HIDE DEF d
  <2>2. d \in 0 .. 15 => d + 1 \in 1 .. 16
    OBVIOUS
  <2>3. QED
    BY <2>1, <2>2 DEF d
<1>2. opcode(i) = CASE Row(i) \in {0, 4, 5, 6, 7} -> Unary(i)
                    [] Row(i) = 1 -> Row1[c]
                    [] Row(i) = 2 -> Branch(i)
                    [] Row(i) = 3 -> Row3[c]
                    [] Row(i) > 7 -> Binary(i)
  BY DEF opcode, opcodeTable, Byte
<1> HIDE DEF c
<1>3. QED
  BY <1>1, <1>2, UnaryIsRow, Row1IsRow, BranchIsRow, Row3IsRow, BinaryIsRow

-----------------------------------------------------------------------------
(* The machine: its fields, and what may be put in each *)

Fields == {"A", "B", "DP", "X", "Y", "U", "S", "PC", "cc", "ram", "right", "result", "prev",
           "cycles", "error"}

IsMemory(ram) == DOMAIN ram \subseteq MemAddr /\ \A a \in DOMAIN ram : ram[a] \in Byte

HasType(x, v) == /\ x \in ByteRegs => v \in Byte
                 /\ x \in WordRegs \cup {"right"} => v \in Word
                 /\ x = "cc" => v \in CC
                 /\ x = "ram" => IsMemory(v)
                 /\ x = "result" => v \in Result
                 /\ x = "prev" => v \in Prev
                 /\ x = "cycles" => v \in Nat
                 /\ x = "error" => v \in {"None", "Illegal"}

IsMachine(n) == DOMAIN n = Fields /\ \A x \in Fields : HasType(x, n[x])

LEMMA MachineIs == ASSUME NEW n PROVE IsMachine(n) <=> DOMAIN n = Fields /\ MachineTypeOK(n)
<1>1. IsMachine(n) => MachineTypeOK(n)
  BY DEF IsMachine, HasType, MachineTypeOK, Fields, ByteRegs, WordRegs, IsMemory
<1>2. DOMAIN n = Fields /\ MachineTypeOK(n) => IsMachine(n)
  BY DEF IsMachine, HasType, MachineTypeOK, Fields, ByteRegs, WordRegs, IsMemory
<1>3. QED
  BY <1>1, <1>2 DEF IsMachine

With(n, x, v) == [n EXCEPT ![x] = v]

LEMMA FieldSet == ASSUME NEW n, IsMachine(n), NEW x \in Fields, NEW v, HasType(x, v)
    PROVE  /\ IsMachine(With(n, x, v))
           /\ With(n, x, v)[x] = v
           /\ \A y \in Fields \ {x} : With(n, x, v)[y] = n[y]
BY DEF IsMachine, With

LEMMA RegisterTypes == ASSUME NEW n, IsMachine(n)
    PROVE  /\ \A r \in ByteRegs : n[r] \in Byte
           /\ \A r \in WordRegs : n[r] \in Word
           /\ n.A \in Byte /\ n.B \in Byte /\ n.DP \in Byte
           /\ n.X \in Word /\ n.Y \in Word /\ n.U \in Word /\ n.S \in Word /\ n.PC \in Word
           /\ n.cc \in CC /\ n.right \in Word /\ n.result \in Result /\ n.prev \in Prev
           /\ n.cycles \in Nat /\ IsMemory(n.ram)
BY DEF IsMachine, HasType, Fields, ByteRegs, WordRegs

-----------------------------------------------------------------------------
(* Memory *)

LEMMA LoadType == ASSUME NEW n, IsMachine(n), NEW a PROVE load8(n, a) \in Byte /\ load16(n, a) \in Word
<1>1. \A b : load8(n, b) \in Byte
  BY RegisterTypes, ByteRange DEF load8, IsMemory
<1>2. QED
  BY <1>1, WordOfBytes DEF load16

LEMMA PokeType == ASSUME NEW n, IsMachine(n), NEW a \in MemAddr, NEW v \in Int
    PROVE  /\ IsMachine(Poke(n, a, v))
           /\ \A x \in Fields \ {"ram"} : Poke(n, a, v)[x] = n[x]
<1> DEFINE ram == [x \in DOMAIN n.ram \cup {a} |-> IF x = a THEN v % 256 ELSE n.ram[x]]
<1>1. IsMemory(ram)
  BY RegisterTypes, WrapType DEF IsMemory
<1>2. "ram" \in Fields /\ HasType("ram", ram)
  BY <1>1 DEF Fields, HasType, ByteRegs, WordRegs
<1>3. Poke(n, a, v) = With(n, "ram", ram)
  BY DEF Poke, With
<1> HIDE DEF ram
<1>4. QED
  BY <1>2, <1>3, FieldSet

LEMMA StoreType == ASSUME NEW n, IsMachine(n), NEW a \in Word, NEW v \in Int
    PROVE  /\ IsMachine(store8(n, a, v)) /\ IsMachine(store16(n, a, v))
           /\ \A x \in Fields \ {"ram"} : store8(n, a, v)[x] = n[x] /\ store16(n, a, v)[x] = n[x]
<1> DEFINE h == v \div 256
           k == Poke(n, a, h)
<1>1. h \in Int /\ a \in MemAddr /\ a + 1 \in MemAddr
  BY WordsOfBytes
<1> HIDE DEF h
<1>2. IsMachine(k) /\ \A x \in Fields \ {"ram"} : k[x] = n[x]
  BY <1>1, PokeType
<1>3. IsMachine(Poke(n, a, v)) /\ \A x \in Fields \ {"ram"} : Poke(n, a, v)[x] = n[x]
  BY <1>1, PokeType
<1> HIDE DEF k
<1>4. IsMachine(Poke(k, a + 1, v)) /\ \A x \in Fields \ {"ram"} : Poke(k, a + 1, v)[x] = k[x]
  BY <1>1, <1>2, PokeType
<1>5. store8(n, a, v) = n \/ store8(n, a, v) = Poke(n, a, v)
  BY DEF store8
<1>6. store16(n, a, v) = n \/ store16(n, a, v) = Poke(k, a + 1, v)
  BY DEF store16, k, h
<1>7. QED
  BY <1>2, <1>3, <1>4, <1>5, <1>6, Zenon

-----------------------------------------------------------------------------
(* Registers *)

LEMMA getRegType == ASSUME NEW n, IsMachine(n), NEW reg PROVE getReg(n, reg) \in Word
<1> DEFINE r == Paged(reg, n.prev)
<1> HIDE DEF r
<1>1. 256 * n.A + n.B \in Word
  BY RegisterTypes, WordOfBytes
<1>2. CcByte(n.cc) \in Word
  BY RegisterTypes, CcByteType, WordsOfBytes
<1>3. 0 \in Word
  BY WordRange
<1>4. r \in ByteRegs \cup WordRegs => n[r] \in Word
  BY RegisterTypes, WordsOfBytes
<1>5. QED
  BY <1>1, <1>2, <1>3, <1>4, Zenon DEF getReg, r

(* setReg writes the registers and the condition codes only. *)
Written == ByteRegs \cup WordRegs \cup {"cc"}

(* A prefix turns no register into PC. *)
LEMMA PagedElsewhere == ASSUME NEW reg, reg # "PC", NEW prev PROVE Paged(reg, prev) # "PC"
BY DEF Paged

LEMMA setRegType == ASSUME NEW n, IsMachine(n), NEW reg, NEW v \in Int
    PROVE  /\ IsMachine(setReg(n, reg, v))
           /\ \A x \in Fields \ Written : setReg(n, reg, v)[x] = n[x]
           /\ Paged(reg, n.prev) # "PC" => setReg(n, reg, v)["PC"] = n["PC"]
<1> DEFINE r == Paged(reg, n.prev)
           h == (v \div 256) % 256
           l == v % 256
           w == Wrap(v)
           c == CcOf(l)
<1>1. h \in Byte /\ l \in Byte /\ w \in Word
  BY WrapType
<1>2. c \in CC
  BY <1>1, CcOfType, ByteRange
<1>3. setReg(n, reg, v) = IF r \in ByteRegs THEN With(n, r, l)
                          ELSE IF r \in WordRegs THEN With(n, r, w)
                          ELSE IF r = "D" THEN With(With(n, "A", h), "B", l)
                          ELSE IF r = "CC" THEN With(n, "cc", c)
                          ELSE n
  BY DEF setReg, With
<1>9. "PC" \in Fields /\ "PC" \notin {"A", "B", "cc"}
  BY DEF Fields
<1> HIDE DEF r, h, l, w, c
<1>4. CASE r \in ByteRegs
  <2>1. r \in Fields /\ HasType(r, l)
    BY <1>1, <1>4 DEF ByteRegs, Fields, HasType, WordRegs
  <2>2. QED
    BY <1>3, <1>4, <1>9, <2>1, FieldSet DEF Written, r
<1>5. CASE r \in WordRegs
  <2>1. r \in Fields /\ HasType(r, w) /\ r \notin ByteRegs
    BY <1>1, <1>5 DEF ByteRegs, Fields, HasType, WordRegs
  <2>2. QED
    BY <1>3, <1>5, <1>9, <2>1, FieldSet DEF Written, r
<1>6. CASE r = "D"
  <2> DEFINE k == With(n, "A", h)
  <2>1. /\ "A" \in Fields /\ "B" \in Fields /\ HasType("A", h) /\ HasType("B", l)
        /\ "A" \in Written /\ "B" \in Written /\ "D" \notin ByteRegs /\ "D" \notin WordRegs
    BY <1>1 DEF ByteRegs, Fields, HasType, WordRegs, Written
  <2>2. IsMachine(k) /\ k["PC"] = n["PC"] /\ \A x \in Fields \ Written : k[x] = n[x]
    BY <1>9, <2>1, FieldSet
  <2>3. setReg(n, reg, v) = With(k, "B", l)
    BY <1>3, <1>6, <2>1
  <2> HIDE DEF k
  <2>4. QED
    BY <1>9, <2>1, <2>2, <2>3, FieldSet
<1>7. CASE r = "CC"
  <2>1. /\ "cc" \in Fields /\ HasType("cc", c) /\ "cc" \in Written
        /\ "CC" \notin ByteRegs /\ "CC" \notin WordRegs
    BY <1>2 DEF ByteRegs, Fields, HasType, WordRegs, Written
  <2>2. QED
    BY <1>3, <1>7, <1>9, <2>1, FieldSet
<1>8. CASE r \notin ByteRegs \cup WordRegs \cup {"D", "CC"}
  BY <1>3, <1>8
<1>10. QED
  BY <1>4, <1>5, <1>6, <1>7, <1>8

-----------------------------------------------------------------------------
(* The stacks *)

Stacks == {"S", "U"}

(* k is a machine that differs from n in the fields R at most. *)
Leads(n, k, R) == IsMachine(k) /\ \A x \in Fields \ R : k[x] = n[x]

LEMMA LeadsOn == ASSUME NEW n, NEW k, NEW j, NEW R, Leads(n, k, R), Leads(k, j, R) PROVE Leads(n, j, R)
BY DEF Leads

LEMMA LeadsTo == ASSUME NEW n, NEW x \in Fields, NEW v, HasType(x, v), IsMachine(n), NEW R, x \in R
    PROVE  Leads(n, With(n, x, v), R)
BY FieldSet DEF Leads

LEMMA PushType == ASSUME NEW n, IsMachine(n), NEW s \in Stacks, NEW v \in Int
    PROVE  /\ Leads(n, Push8(n, s, v), {"ram", s}) /\ Push8(n, s, v)[s] = Wrap(n[s] - 1)
           /\ Leads(n, Push16(n, s, v), {"ram", s}) /\ Push16(n, s, v)[s] = Wrap(n[s] - 2)
<1>1. s \in Fields /\ s \in WordRegs /\ s # "ram"
  BY DEF Fields, Stacks, WordRegs
<1>2. ASSUME NEW k, IsMachine(k), NEW w \in Int
      PROVE  Leads(k, Push8(k, s, w), {"ram", s}) /\ Push8(k, s, w)[s] = Wrap(k[s] - 1)
  <2> DEFINE a == Wrap(k[s] - 1)
             j == With(k, s, a)
  <2>1. k[s] \in Int
    BY <1>1, <1>2, RegisterTypes, WordRange
  <2>2. a \in Word /\ a \in MemAddr
    BY <2>1, WrapType, WordsOfBytes
  <2>3. HasType(s, a)
    BY <1>1, <2>2 DEF HasType, Stacks, ByteRegs, WordRegs
  <2>4. Push8(k, s, w) = Poke(j, a, w)
    BY DEF Push8, With
  <2> HIDE DEF a
  <2>5. IsMachine(j) /\ j[s] = a /\ \A y \in Fields \ {s} : j[y] = k[y]
    BY <1>1, <1>2, <2>3, FieldSet
  <2> HIDE DEF j
  <2>6. IsMachine(Poke(j, a, w)) /\ \A x \in Fields \ {"ram"} : Poke(j, a, w)[x] = j[x]
    BY <1>2, <2>2, <2>5, PokeType
  <2>7. QED
    BY <1>1, <2>4, <2>5, <2>6 DEF Leads, a
<1>3. v \div 256 \in Int
  OBVIOUS
<1> DEFINE k == Push8(n, s, v)
<1>4. Leads(n, k, {"ram", s}) /\ k[s] = Wrap(n[s] - 1)
  BY <1>2
<1>5. Leads(k, Push8(k, s, v \div 256), {"ram", s}) /\ Push8(k, s, v \div 256)[s] = Wrap(k[s] - 1)
  BY <1>2, <1>3, <1>4 DEF Leads
<1>6. Push16(n, s, v) = Push8(k, s, v \div 256)
  BY DEF Push16
<1> HIDE DEF k
<1>7. Wrap(k[s] - 1) = Wrap(n[s] - 2)
  <2>1. n[s] \in Word
    BY <1>1, RegisterTypes
  <2>2. n[s] \in Int /\ n[s] >= 0 /\ n[s] < 65536
    BY <2>1, WordRange
  <2>3. QED
    BY <1>4, <2>2 DEF Wrap
<1>8. Leads(n, Push16(n, s, v), {"ram", s})
  BY <1>4, <1>5, <1>6, LeadsOn
<1>9. QED
  BY <1>4, <1>5, <1>6, <1>7, <1>8 DEF k

LEMMA RegistersAre == ASSUME NEW s \in Stacks, NEW i \in 1 .. 8
    PROVE  Registers(s)[i] \in {"PC", "S", "U", "Y", "X", "DP", "B", "A", "CC"} \ {s}
BY DEF Registers, Stacks

LEMMA PushIfType == ASSUME NEW n, IsMachine(n), NEW s \in Stacks, NEW mask, NEW i \in 1 .. 8
    PROVE  Leads(n, PushIf(n, s, mask, i), {"ram", s})
<1>1. \A v \in Word : Leads(n, Push16(n, s, v), {"ram", s}) /\ Leads(n, Push8(n, s, v), {"ram", s})
  BY PushType, WordsOfBytes
<1>2. Leads(n, n, {"ram", s})
  BY DEF Leads
<1>3. PushIf(n, s, mask, i) \in {n, Push16(n, s, getReg(n, Registers(s)[i])),
                                 Push8(n, s, getReg(n, Registers(s)[i]))}
  BY DEF PushIf
<1>4. getReg(n, Registers(s)[i]) \in Word
  BY getRegType
<1>5. QED
  BY <1>1, <1>2, <1>3, <1>4

LEMMA PushAllType == ASSUME NEW n, IsMachine(n), NEW s \in Stacks, NEW mask
    PROVE  Leads(n, PushAll(n, s, mask), {"ram", s})
<1> DEFINE R == {"ram", s}
           On(x, i) == PushIf(x, s, mask, i)
           w == PushWords(n, s, mask)
           b == PushBytes(w, s, mask)
<1>1. ASSUME NEW k, Leads(n, k, R), NEW i \in 1 .. 8
      PROVE  Leads(n, On(k, i), R)
  <2>1. IsMachine(k)
    BY <1>1 DEF Leads
  <2>2. Leads(k, On(k, i), R)
    BY <2>1, PushIfType
  <2>3. QED
    BY <1>1, <2>2, LeadsOn
<1>2. Leads(n, n, R)
  BY DEF Leads
<1>3. w = On(On(On(On(n, 1), 2), 3), 4) /\ b = On(On(On(On(w, 5), 6), 7), 8)
  BY DEF PushWords, PushBytes
<1> HIDE DEF On, R, w, b
<1>4. Leads(n, w, R)
  BY <1>1, <1>2, <1>3
<1>5. Leads(n, b, R)
  BY <1>1, <1>3, <1>4
<1>6. QED
  BY <1>5 DEF R, b, w, PushAll

LEMMA DropType == ASSUME NEW n, IsMachine(n), NEW s \in Stacks, NEW c \in Int
    PROVE  Leads(n, Drop(n, s, c), {s}) /\ Drop(n, s, c)[s] = Wrap(n[s] + c)
<1> DEFINE a == Wrap(n[s] + c)
<1>1. s \in Fields /\ s \in WordRegs
  BY DEF Fields, Stacks, WordRegs
<1>2. n[s] \in Int
  BY <1>1, RegisterTypes, WordRange
<1>3. a \in Word
  BY <1>2, WrapType
<1>4. HasType(s, a)
  BY <1>1, <1>3 DEF HasType, Stacks, ByteRegs, WordRegs
<1>5. Drop(n, s, c) = With(n, s, a)
  BY DEF Drop, With
<1> HIDE DEF a
<1>6. QED
  BY <1>1, <1>4, <1>5, FieldSet, LeadsTo DEF a

LEMMA PopType == ASSUME NEW n, IsMachine(n), NEW s \in Stacks, NEW r
    PROVE  Leads(n, Pop8(n, s, r), Written) /\ Leads(n, Pop16(n, s, r), Written)
<1> DEFINE v == load8(n, n[s])
           w == Top16(n, s)
           j == Drop(n, s, 1)
           k == Drop(n, s, 2)
<1>1. s \in Written
  BY DEF Stacks, Written, WordRegs
<1>2. Leads(n, j, Written) /\ Leads(n, k, Written)
  BY <1>1, DropType DEF Leads
<1>3. v \in Int /\ w \in Int
  BY LoadType, WordOfBytes, WordRange, ByteRange DEF Top16
<1>4. Pop8(n, s, r) = setReg(j, r, v) /\ Pop16(n, s, r) = setReg(k, r, w)
  BY DEF Pop8, Pop16
<1> HIDE DEF v, w, j, k
<1>5. Leads(j, setReg(j, r, v), Written) /\ Leads(k, setReg(k, r, w), Written)
  BY <1>2, <1>3, setRegType DEF Leads
<1>6. QED
  BY <1>2, <1>4, <1>5, LeadsOn

LEMMA PopAllType == ASSUME NEW n, IsMachine(n), NEW s \in Stacks, NEW mask
    PROVE  Leads(n, PopAll(n, s, mask), Written)
<1> DEFINE R == Written
           Off(x, i) == PopIf(x, s, mask, i)
           b == PopBytes(n, s, mask)
           w == PopWords(b, s, mask)
<1>1. ASSUME NEW k, Leads(n, k, R), NEW i \in 1 .. 8
      PROVE  Leads(n, Off(k, i), R)
  <2>1. IsMachine(k) /\ Leads(k, k, R)
    BY <1>1 DEF Leads
  <2>2. Off(k, i) \in {k, Pop8(k, s, Registers(s)[i]), Pop16(k, s, Registers(s)[i])}
    BY DEF PopIf
  <2>3. Leads(k, Off(k, i), R)
    BY <2>1, <2>2, PopType
  <2>4. QED
    BY <1>1, <2>3, LeadsOn
<1>2. Leads(n, n, R)
  BY DEF Leads
<1>3. b = Off(Off(Off(Off(n, 8), 7), 6), 5) /\ w = Off(Off(Off(Off(b, 4), 3), 2), 1)
  BY DEF PopWords, PopBytes
<1> HIDE DEF Off, R, w, b
<1>4. Leads(n, b, R)
  BY <1>1, <1>2, <1>3
<1>5. Leads(n, w, R)
  BY <1>1, <1>3, <1>4
<1>6. QED
  BY <1>5 DEF R, b, w, PopAll

-----------------------------------------------------------------------------
(* The fetch *)

LEMMA SkipType == ASSUME NEW n, IsMachine(n), NEW c \in Int
    PROVE  IsMachine(Skip(n, c)) /\ \A x \in Fields \ {"PC"} : Skip(n, c)[x] = n[x]
<1> DEFINE a == Wrap(n.PC + c)
<1>1. a \in Word
  BY RegisterTypes, WordRange, WrapType
<1>2. "PC" \in Fields /\ HasType("PC", a)
  BY <1>1 DEF Fields, HasType, ByteRegs, WordRegs
<1>3. Skip(n, c) = With(n, "PC", a)
  BY DEF Skip, With
<1> HIDE DEF a
<1>4. QED
  BY <1>2, <1>3, FieldSet

LEMMA AddCyType == ASSUME NEW n, IsMachine(n), NEW c \in Nat
    PROVE  IsMachine(AddCy(n, c)) /\ \A x \in Fields \ {"cycles"} : AddCy(n, c)[x] = n[x]
<1> DEFINE a == n.cycles + c
<1>1. a \in Nat
  BY RegisterTypes
<1>2. "cycles" \in Fields /\ HasType("cycles", a)
  BY <1>1 DEF Fields, HasType, ByteRegs, WordRegs
<1>3. AddCy(n, c) = With(n, "cycles", a)
  BY DEF AddCy, With
<1> HIDE DEF a
<1>4. QED
  BY <1>2, <1>3, FieldSet

LEMMA WithRightType == ASSUME NEW n, IsMachine(n), NEW v \in Int
    PROVE  IsMachine(WithRight(n, v)) /\ \A x \in Fields \ {"right"} : WithRight(n, v)[x] = n[x]
<1> DEFINE a == Wrap(v)
<1>1. a \in Word
  BY WrapType
<1>2. "right" \in Fields /\ HasType("right", a)
  BY <1>1 DEF Fields, HasType, ByteRegs, WordRegs
<1>3. WithRight(n, v) = With(n, "right", a)
  BY DEF WithRight, With
<1> HIDE DEF a
<1>4. QED
  BY <1>2, <1>3, FieldSet

Postmodes == {"Const5", "ConstRegNoOff", "ConstReg8Off", "ConstReg16Off", "AccAOffReg", "AccBOffReg",
              "AccDOffReg", "Inc1Reg", "Inc2Reg", "Dec1Reg", "Dec2Reg", "ConstPC8Off", "ConstPC16Off",
              "Extended", "none"}

LEMMA PostType == ASSUME NEW post \in Byte
    PROVE  IdxMode(post) \in Postmodes /\ IdxReg(post) \in {"X", "Y", "U", "S"}
<1>1. IdxMode(post) \in Postmodes
  BY DEF IdxMode, Postmodes
<1>2. ((post \div 32) % 4) + 1 \in 1 .. 4
  BY ByteRange
<1> DEFINE i == ((post \div 32) % 4) + 1
<1> HIDE DEF i
<1>3. i \in 1 .. 4
  BY <1>2 DEF i
<1>4. <<"X", "Y", "U", "S">>[i] \in {"X", "Y", "U", "S"}
  BY <1>3
<1>5. QED
  BY <1>1, <1>4 DEF IdxReg, i

LEMMA IndexedNumbers == ASSUME NEW n, IsMachine(n), NEW post \in Byte
    PROVE  /\ IndexedOffset(n, post) \in Int /\ IndexedBase(n, post) \in Int
           /\ IndexedStep(IdxMode(post)) \in Int
           /\ IndexedLength(IdxMode(post)) \in Nat /\ IndexedCycles(IdxMode(post)) \in Nat
<1>1. IdxMode(post) \in Postmodes /\ IdxReg(post) \in {"X", "Y", "U", "S"}
  BY PostType
<1>2. IndexedOffset(n, post) \in Int
  <2> DEFINE o8 == Signed8(load8(n, n.PC))
             o16 == load16(n, n.PC)
             oa == Signed8(n.A)
             ob == Signed8(n.B)
             od == 256 * n.A + n.B
             o5 == Signed5(post)
             mode == IdxMode(post)
  <2>1. o8 \in Int /\ oa \in Int /\ ob \in Int
    BY LoadType, RegisterTypes, WordsOfBytes, SignedType
  <2>2. o16 \in Int /\ od \in Int
    BY LoadType, RegisterTypes, ByteRange, WordRange
  <2>3. o5 \in Int
    BY ByteRange DEF Signed5
  <2>4. mode \in Postmodes
    BY <1>1
  <2>5. IndexedOffset(n, post) =
          CASE mode = "Const5" -> o5
            [] mode \in {"ConstReg8Off", "ConstPC8Off"} -> o8
            [] mode \in {"ConstReg16Off", "ConstPC16Off", "Extended"} -> o16
            [] mode = "AccAOffReg" -> oa
            [] mode = "AccBOffReg" -> ob
            [] mode = "AccDOffReg" -> od
            [] mode = "Dec1Reg" -> -1
            [] mode = "Dec2Reg" -> -2
            [] mode \in {"ConstRegNoOff", "Inc1Reg", "Inc2Reg", "none"} -> 0
    BY DEF IndexedOffset
  <2> HIDE DEF o5, o8, o16, oa, ob, od, mode
  <2>6. QED
    BY <2>1, <2>2, <2>3, <2>4, <2>5 DEF Postmodes
<1>3. IndexedBase(n, post) \in Int
  <2>1. n[IdxReg(post)] \in Int /\ n.PC \in Int
    BY <1>1, RegisterTypes, WordsOfBytes DEF WordRegs
  <2>2. QED
    BY <2>1 DEF IndexedBase
<1>4. IndexedStep(IdxMode(post)) \in Int
  BY DEF IndexedStep
<1>5. IndexedLength(IdxMode(post)) \in Nat /\ IndexedCycles(IdxMode(post)) \in Nat
  BY DEF IndexedLength, IndexedCycles
<1>6. QED
  BY <1>2, <1>3, <1>4, <1>5

(* f is an instruction of row o, fetched: the machine behind it differs    *)
(* from n in the registers, _right and the cycles at most.                 *)
FetchFields == {"X", "Y", "U", "S", "PC", "right", "cycles"}
IsFetched(n, f, o) ==
    \E k, e : Leads(n, k, FetchFields) /\ e \in Int /\ f = Fetched(k, o, e)

LEMMA IndexedType == ASSUME NEW n, IsMachine(n), NEW o PROVE IsFetched(n, Indexed(n, o), o)
<1> DEFINE post == load8(n, n.PC)
           mode == IdxMode(post)
           reg == IdxReg(post)
           behind == Skip(n, 1)
           to == Wrap(behind[reg] + IndexedStep(mode))
           stepped == With(behind, reg, to)
           ea == Wrap(IndexedBase(behind, post) + IndexedOffset(behind, post))
           length == IndexedLength(mode)
           cycles == IndexedCycles(mode)
           skipped == Skip(stepped, length)
           k == AddCy(skipped, cycles)
           e == IF IsIndirect(post) THEN load16(n, ea) ELSE ea
<1>1. Indexed(n, o) = Fetched(k, o, e)
  BY DEF Indexed, With
<1>2. post \in Byte
  BY LoadType
<1>3. IsMachine(behind) /\ \A x \in Fields \ {"PC"} : behind[x] = n[x]
  BY SkipType
<1> HIDE DEF post, behind
<1>4. reg \in {"X", "Y", "U", "S"} /\ reg \in WordRegs /\ reg \in Fields /\ reg \in FetchFields
  BY <1>2, PostType DEF WordRegs, Fields, FetchFields
<1>5. IndexedStep(mode) \in Int /\ length \in Nat /\ cycles \in Nat
      /\ IndexedBase(behind, post) + IndexedOffset(behind, post) \in Int
  BY <1>2, <1>3, IndexedNumbers
<1>6. behind[reg] \in Int
  BY <1>3, <1>4, RegisterTypes, WordsOfBytes
<1>7. to \in Word /\ ea \in Word
  BY <1>5, <1>6, WrapType
<1>8. HasType(reg, to)
  BY <1>4, <1>7 DEF HasType, WordRegs, ByteRegs
<1> HIDE DEF to, ea, reg, length, cycles, mode
<1>9. Leads(n, stepped, FetchFields)
  <2>1. Leads(behind, stepped, FetchFields)
    BY <1>3, <1>4, <1>8, LeadsTo
  <2>2. Leads(n, behind, FetchFields)
    BY <1>3 DEF Leads, FetchFields
  <2>3. QED
    BY <2>1, <2>2, LeadsOn
<1> HIDE DEF stepped
<1>10. Leads(n, skipped, FetchFields)
  BY <1>5, <1>9, SkipType DEF Leads, FetchFields
<1> HIDE DEF skipped
<1>11. Leads(n, k, FetchFields)
  BY <1>5, <1>10, AddCyType DEF Leads, FetchFields
<1>12. e \in Int
  BY <1>7, LoadType, WordsOfBytes
<1> HIDE DEF k, e
<1>13. QED
  BY <1>1, <1>11, <1>12 DEF IsFetched

LEMMA FetchRowType == ASSUME NEW n, IsMachine(n), NEW o, o.adr \in Modes
    PROVE  IsFetched(n, FetchRow(n, o), o)
<1> DEFINE byte == load8(n, n.PC)
           word == load16(n, n.PC)
           one == Skip(n, 1)
           two == Skip(n, 2)
           off == Signed8(byte)
           direct == 256 * n.DP + byte
<1>1. byte \in Int /\ word \in Int /\ off \in Int
  BY LoadType, WordsOfBytes, SignedType
<1>2. direct \in Int
  BY <1>1, RegisterTypes, ByteRange
<1>3. FetchRow(n, o) =
        CASE o.adr \in {"None", "Inherent"} -> Fetched(n, o, 0)
          [] o.adr = "Direct" -> Fetched(one, o, direct)
          [] o.adr = "Extended" -> Fetched(two, o, word)
          [] o.adr = "Immed8" -> Fetched(WithRight(one, byte), o, 0)
          [] o.adr = "Immed16" -> Fetched(WithRight(two, word), o, 0)
          [] o.adr \in {"RelL", "Rel", "RelP"} ->
                IF IsLong(n, o) THEN Fetched(AddCy(WithRight(two, word), 2), o, 0)
                ELSE Fetched(WithRight(one, off), o, 0)
          [] o.adr = "Indexed" -> Indexed(n, o)
  BY DEF FetchRow
<1>4. Leads(n, one, FetchFields) /\ Leads(n, two, FetchFields) /\ Leads(n, n, FetchFields)
  BY SkipType DEF Leads, FetchFields
<1> HIDE DEF byte, word, one, two, off, direct
<1>5. ASSUME NEW k, Leads(n, k, FetchFields), NEW v \in Int
      PROVE  Leads(n, WithRight(k, v), FetchFields)
  BY <1>5, WithRightType DEF Leads, FetchFields
<1>6. Leads(n, WithRight(two, word), FetchFields)
  BY <1>1, <1>4, <1>5
<1>7. Leads(n, AddCy(WithRight(two, word), 2), FetchFields)
  BY <1>6, AddCyType DEF Leads, FetchFields
<1>8. ASSUME NEW k, Leads(n, k, FetchFields), NEW e \in Int
      PROVE  IsFetched(n, Fetched(k, o, e), o)
  BY <1>8 DEF IsFetched
<1>9. CASE o.adr \in {"None", "Inherent"}
  BY <1>3, <1>4, <1>8, <1>9
<1>10. CASE o.adr = "Direct"
  BY <1>2, <1>3, <1>4, <1>8, <1>10
<1>11. CASE o.adr = "Extended"
  BY <1>1, <1>3, <1>4, <1>8, <1>11
<1>12. CASE o.adr = "Immed8"
  BY <1>1, <1>3, <1>4, <1>5, <1>8, <1>12
<1>13. CASE o.adr = "Immed16"
  BY <1>3, <1>6, <1>8, <1>13
<1>14. CASE o.adr \in {"RelL", "Rel", "RelP"}
  BY <1>1, <1>3, <1>4, <1>5, <1>7, <1>8, <1>14
<1>15. CASE o.adr = "Indexed"
  BY <1>3, <1>15, IndexedType
<1>16. QED
  BY <1>9, <1>10, <1>11, <1>12, <1>13, <1>14, <1>15 DEF Modes

LEMMA FetchType == ASSUME NEW n, IsMachine(n)
    PROVE  LET o == opcode(load8(n, n.PC)) IN IsRow(o) /\ IsFetched(n, Fetch(n), o)
<1> DEFINE o == opcode(load8(n, n.PC))
           one == Skip(n, 1)
           k == AddCy(one, o.cycles)
<1>1. IsRow(o)
  BY LoadType, OpcodeIsRow
<1>2. Fetch(n) = FetchRow(k, o)
  BY DEF Fetch
<1>3. Leads(n, one, FetchFields)
  BY SkipType DEF Leads, FetchFields
<1> HIDE DEF one, o
<1>4. Leads(n, k, FetchFields)
  BY <1>1, <1>3, AddCyType DEF Leads, FetchFields, IsRow
<1> HIDE DEF k
<1>5. IsFetched(k, FetchRow(k, o), o)
  BY <1>1, <1>4, FetchRowType DEF IsRow, Leads
<1>6. PICK j, e : Leads(k, j, FetchFields) /\ e \in Int /\ FetchRow(k, o) = Fetched(j, o, e)
  BY <1>5 DEF IsFetched
<1>7. Leads(n, j, FetchFields)
  BY <1>4, <1>6, LeadsOn
<1>8. IsFetched(n, Fetch(n), o)
  BY <1>2, <1>6, <1>7 DEF IsFetched
<1>9. QED
  BY <1>1, <1>8 DEF o

-----------------------------------------------------------------------------
(* The operands and the store *)

(* What the decoding of an instruction leaves *)
IsDecoded(n, f) == /\ f.o = opcode(load8(n, n.PC)) /\ IsRow(f.o)
                   /\ Leads(n, f.m, FetchFields)
                   /\ f.ea \in Word /\ f.left \in Word

LEMMA LoadedType == ASSUME NEW n, IsMachine(n) PROVE IsDecoded(n, Loaded(Fetch(n)))
<1> DEFINE o == opcode(load8(n, n.PC))
<1>1. IsRow(o) /\ IsFetched(n, Fetch(n), o)
  BY FetchType
<1> HIDE DEF o
<1>2. PICK k, e : Leads(n, k, FetchFields) /\ e \in Int /\ Fetch(n) = Fetched(k, o, e)
  BY <1>1 DEF IsFetched
<1> DEFINE f == Fetched(k, o, e)
           r == RightOf(f)
           l == LeftOf(f)
<1>3. f.m = k /\ f.o = o /\ f.ea = Wrap(e)
  BY DEF Fetched
<1>4. IsMachine(k)
  BY <1>2 DEF Leads
<1>5. l \in Word
  <2>1. \A a : load8(k, a) \in Word
    BY <1>4, LoadType, WordsOfBytes
  <2>2. getReg(k, o.reg) \in Word /\ 0 \in Word
    BY <1>4, getRegType, WordRange
  <2>3. l = IF o.left \notin {"Ld", "LdSt"} THEN 0
            ELSE IF o.reg = "M8" THEN load8(k, f.ea) ELSE getReg(k, o.reg)
    BY <1>3 DEF LeftOf
  <2> HIDE DEF l, f
  <2>4. QED
    BY <2>1, <2>2, <2>3
<1>6. r \in Word
  <2>1. \A a : load8(k, a) \in Word /\ load16(k, a) \in Word
    BY <1>4, LoadType, WordsOfBytes
  <2>2. k.right \in Word
    BY <1>4, RegisterTypes
  <2>3. r = CASE o.right = "Ld8" -> load8(k, f.ea)
              [] o.right = "Ld16" -> load16(k, f.ea)
              [] o.right \notin {"Ld8", "Ld16"} -> k.right
    BY <1>3 DEF RightOf
  <2> HIDE DEF r, f
  <2>4. QED
    BY <2>1, <2>2, <2>3
<1>7. /\ Loaded(f).m = With(k, "right", r) /\ Loaded(f).o = o /\ Loaded(f).ea = Wrap(e)
      /\ Loaded(f).left = l
  BY DEF Loaded, Fetched, With
<1> HIDE DEF f, r, l
<1>8. HasType("right", r) /\ "right" \in Fields /\ "right" \in FetchFields
  BY <1>6 DEF HasType, Fields, FetchFields, ByteRegs, WordRegs
<1>9. Leads(n, With(k, "right", r), FetchFields)
  BY <1>2, <1>4, <1>8, LeadsTo, LeadsOn
<1>10. Wrap(e) \in Word
  BY <1>2, WrapType
<1>11. QED
  BY <1>1, <1>2, <1>5, <1>7, <1>9, <1>10 DEF IsDecoded, o, f

(* The fields an instruction that calculates or moves may change *)
Storing == (Written \ {"PC"}) \cup {"ram"}

LEMMA StoredType == ASSUME NEW n, NEW f, IsDecoded(n, f), NEW k, IsMachine(k)
    PROVE  Leads(k, Stored(f, k), Storing)
<1>1. f.ea \in Word /\ f.left \in Int /\ k.result \in Int
  BY RegisterTypes, WordsOfBytes, ResultRange DEF IsDecoded
<1>2. /\ Leads(k, store8(k, f.ea, f.left), Storing) /\ Leads(k, store16(k, f.ea, f.left), Storing)
      /\ Leads(k, store8(k, f.ea, k.result), Storing)
  <2>1. \A a \in Word, v \in Int :
           Leads(k, store8(k, a, v), {"ram"}) /\ Leads(k, store16(k, a, v), {"ram"})
    BY StoreType DEF Leads
  <2>2. \A j : Leads(k, j, {"ram"}) => Leads(k, j, Storing)
    BY DEF Leads, Storing
  <2>3. QED
    BY <1>1, <2>1, <2>2
<1>3. Leads(k, setReg(k, f.o.reg, k.result), Storing)
  <2>1. f.o.reg # "PC"
    BY DEF IsDecoded, IsRow
  <2>2. Paged(f.o.reg, k.prev) # "PC"
    BY <2>1, PagedElsewhere
  <2>3. QED
    BY <1>1, <2>2, setRegType DEF Leads, Storing
<1>4. Leads(k, k, Storing)
  BY DEF Leads
<1>5. QED
  BY <1>2, <1>3, <1>4 DEF Stored

LEMMA FinishedType == ASSUME NEW n, NEW f, IsDecoded(n, f), NEW k, IsMachine(k)
    PROVE  /\ IsMachine(Finished(f, k))
           /\ Finished(f, k) = With(Stored(f, k), "prev", "other")
           /\ Leads(k, Finished(f, k), Storing \cup {"prev"})
           /\ f.o.op \in Controls =>
                 Stored(f, k) = k /\ \A x \in Fields \ {"prev"} : Finished(f, k)[x] = k[x]
<1> DEFINE s == Stored(f, k)
<1>1. Leads(k, s, Storing)
  BY StoredType
<1>2. Finished(f, k) = With(s, "prev", "other")
  BY DEF Finished, With
<1>3. f.o.op \in Controls => s = k
  BY DEF IsDecoded, IsRow, Stored
<1> HIDE DEF s
<1>4. "prev" \in Fields /\ HasType("prev", "other")
  BY DEF Fields, HasType, Prev, ByteRegs, WordRegs
<1>5. /\ IsMachine(With(s, "prev", "other"))
      /\ \A x \in Fields \ {"prev"} : With(s, "prev", "other")[x] = s[x]
  BY <1>1, <1>4, FieldSet DEF Leads
<1>6. Leads(k, Finished(f, k), Storing \cup {"prev"})
  BY <1>1, <1>2, <1>5 DEF Leads
<1>7. QED
  BY <1>2, <1>3, <1>5, <1>6 DEF s

-----------------------------------------------------------------------------
(* The instructions that calculate and move *)

LEMMA LeaveType == ASSUME NEW n, IsMachine(n), NEW out, IsOut(out)
    PROVE  Leads(n, Leave(n, out), {"result", "cc"})
<1>1. /\ "result" \in Fields /\ "cc" \in Fields
      /\ HasType("result", out.result) /\ HasType("cc", out.cc)
  BY DEF Fields, HasType, IsOut, ByteRegs, WordRegs
<1> DEFINE k == With(n, "result", out.result)
<1>2. Leave(n, out) = With(k, "cc", out.cc)
  BY DEF Leave, With
<1>3. Leads(n, k, {"result", "cc"})
  BY <1>1, LeadsTo
<1> HIDE DEF k
<1>4. IsMachine(k)
  BY <1>3 DEF Leads
<1>5. Leads(k, With(k, "cc", out.cc), {"result", "cc"})
  BY <1>1, <1>4, LeadsTo
<1>6. QED
  BY <1>2, <1>3, <1>5, LeadsOn

(* The fields an operation may change before its store.  Only EXG and TFR  *)
(* can be told to write PC.                                                *)
Operating == Written \cup {"result"}
Calm == Operating \ {"PC"}

LEMMA CalculateType ==
    ASSUME NEW n, NEW f, IsDecoded(n, f), f.o.op \in Calculations
    PROVE  Leads(f.m, Calculate(f), Calm)
<1> DEFINE out == Calculated(f.o.op, f.left, f.m.right, f.m.cc)
           k == Leave(f.m, out)
<1>1. IsMachine(f.m) /\ f.left \in Word
  BY DEF IsDecoded, Leads
<1>2. IsOut(out)
  BY <1>1, RegisterTypes, CalculatedTypes
<1> HIDE DEF out
<1>3. Leads(f.m, k, Calm)
  BY <1>1, <1>2, LeaveType DEF Leads, Calm, Operating, Written
<1>4. Calculate(f) = IF f.o.op = "SUB16" /\ k.prev \notin Pages THEN setReg(k, f.o.reg, k.result) ELSE k
  BY DEF Calculate, out
<1> HIDE DEF k
<1>5. k.result \in Int /\ IsMachine(k)
  BY <1>3, RegisterTypes, ResultRange DEF Leads
<1>6. Leads(k, setReg(k, f.o.reg, k.result), Calm)
  <2>1. f.o.reg # "PC"
    BY DEF IsDecoded, IsRow
  <2>2. Paged(f.o.reg, k.prev) # "PC"
    BY <2>1, PagedElsewhere
  <2>3. QED
    BY <1>5, <2>2, setRegType DEF Leads, Calm, Operating
<1>7. QED
  BY <1>3, <1>4, <1>6, LeadsOn

LEMMA ExchangeType == ASSUME NEW n, IsMachine(n) PROVE Leads(n, Exchange(n), Operating)
<1> DEFINE low == RegOf(n.right % 16)
           high == RegOf(n.right \div 16)
           v == getReg(n, high)
           w == getReg(n, low)
           k == setReg(n, low, v)
<1>1. v \in Int /\ w \in Int
  BY getRegType, WordsOfBytes
<1>2. Exchange(n) = setReg(k, high, w)
  BY DEF Exchange
<1> HIDE DEF low, high, v, w
<1>3. Leads(n, k, Operating)
  BY <1>1, setRegType DEF Leads, Operating
<1> HIDE DEF k
<1>4. Leads(k, setReg(k, high, w), Operating)
  BY <1>1, <1>3, setRegType DEF Leads, Operating
<1>5. QED
  BY <1>2, <1>3, <1>4, LeadsOn

LEMMA CalmMoveType == ASSUME NEW n, NEW f, IsDecoded(n, f), f.o.op \in Moves \ Exchanging
    PROVE  Leads(f.m, Move(f), Calm)
<1> DEFINE k == f.m
           op == f.o.op
           a == k.A
           b == k.B
           out == DAA(a, k.cc)
           product == MUL(a, b, k.cc)
<1>1. IsMachine(k) /\ f.ea \in Word
  BY DEF IsDecoded, Leads
<1>2. a \in Byte /\ b \in Byte /\ k.cc \in CC /\ k.right \in Word /\ k.result \in Result
  BY <1>1, RegisterTypes
<1>3. /\ IsOut(LD8(k.right, k.cc)) /\ IsOut(LD16(k.right, k.cc))
      /\ IsOut(ST8(k.result, k.cc)) /\ IsOut(ST16(k.result, k.cc))
      /\ IsOut(out) /\ product.result \in Nat /\ product.cc \in CC /\ xNZ0x8(k.cc, k.result) \in CC
  BY <1>2, MoveTypes
<1>4. "result" \in Fields /\ "cc" \in Fields /\ "A" \in Fields
  BY DEF Fields
<1>5. "result" \in Calm /\ "cc" \in Calm /\ "A" \in Calm
  BY DEF Calm, Operating, Written, ByteRegs
<1>6. ASSUME NEW o, IsOut(o)
      PROVE  Leads(k, Leave(k, o), Calm)
  BY <1>1, <1>6, LeaveType DEF Leads, Calm, Operating, Written
<1>7. ASSUME NEW reg, reg # "PC", NEW v \in Int
      PROVE  Leads(k, setReg(k, reg, v), Calm)
  <2>1. Paged(reg, k.prev) # "PC"
    BY <1>7, PagedElsewhere
  <2>2. QED
    BY <1>1, <1>7, <2>1, setRegType DEF Leads, Calm, Operating
<1>8. \A x \in Byte : HasType("A", x)
  BY DEF HasType, WordRegs
<1>9. \A x \in CC : HasType("cc", x)
  BY DEF HasType, WordRegs, ByteRegs
<1>10. CASE op = "LD8"
  <2>1. Move(f) = Leave(k, LD8(k.right, k.cc))
    BY <1>10 DEF Move
  <2>2. QED
    BY <1>3, <1>6, <2>1
<1>11. CASE op = "LD16"
  <2>1. Move(f) = Leave(k, LD16(k.right, k.cc))
    BY <1>11 DEF Move
  <2>2. QED
    BY <1>3, <1>6, <2>1
<1>12. CASE op = "ST8"
  <2>1. Move(f) = Leave(k, ST8(k.result, k.cc))
    BY <1>12 DEF Move
  <2>2. QED
    BY <1>3, <1>6, <2>1
<1>13. CASE op = "ST16"
  <2>1. Move(f) = Leave(k, ST16(k.result, k.cc))
    BY <1>13 DEF Move
  <2>2. QED
    BY <1>3, <1>6, <2>1
<1>14. CASE op = "LEA"
  <2> DEFINE lea == With(k, "result", f.ea)
             cc == [lea.cc EXCEPT !.Z = Flag(f.ea = 0)]
  <2>1. HasType("result", f.ea)
    BY <1>1, WordsOfBytes DEF HasType, ByteRegs, WordRegs
  <2>2. Leads(k, lea, Calm)
    BY <1>1, <1>4, <1>5, <2>1, LeadsTo
  <2>3. Move(f) = lea \/ Move(f) = With(lea, "cc", cc)
    BY <1>14 DEF Move, With
  <2> HIDE DEF lea
  <2>4. cc \in CC
    <3>1. lea.cc \in CC /\ Flag(f.ea = 0) \in 0 .. 1
      BY <2>2, RegisterTypes, FlagType DEF Leads
    <3>2. QED
      BY <3>1 DEF CC
  <2> HIDE DEF cc
  <2>5. Leads(lea, With(lea, "cc", cc), Calm)
    BY <1>4, <1>5, <1>9, <2>2, <2>4, LeadsTo DEF Leads
  <2>6. QED
    BY <2>2, <2>3, <2>5, LeadsOn
<1>15. CASE op = "ABX"
  <2> DEFINE v == k.X + k.B
  <2>1. Move(f) = setReg(k, "X", v)
    BY <1>15 DEF Move
  <2>2. v \in Int
    BY <1>1, RegisterTypes, ByteRange, WordRange
  <2> HIDE DEF v
  <2>3. QED
    BY <1>7, <2>1, <2>2
<1>16. CASE op = "SEX"
  <2> DEFINE h == 255 * Bit(b, 128)
             cc == xNZ0x8(k.cc, k.result)
             j == With(k, "A", h)
  <2>1. Move(f) = With(j, "cc", cc)
    BY <1>16 DEF Move, With
  <2>2. h \in Byte
    <3>1. Bit(b, 128) \in 0 .. 1
      BY <1>2, BitType, ByteRange
    <3>2. QED
      BY <3>1, ByteRange
  <2>3. cc \in CC
    BY <1>3
  <2> HIDE DEF h, cc
  <2>4. Leads(k, j, Calm)
    BY <1>1, <1>4, <1>5, <1>8, <2>2, LeadsTo
  <2> HIDE DEF j
  <2>5. Leads(j, With(j, "cc", cc), Calm)
    BY <1>4, <1>5, <1>9, <2>3, <2>4, LeadsTo DEF Leads
  <2>6. QED
    BY <2>1, <2>4, <2>5, LeadsOn
<1>17. CASE op = "DAA"
  <2> DEFINE j == Leave(k, out)
             v == out.result % 256
  <2>1. Move(f) = With(j, "A", v)
    BY <1>17 DEF Move, With
  <2>2. v \in Byte
    BY <1>3, ResultRange, WrapType DEF IsOut
  <2>3. Leads(k, j, Calm)
    BY <1>3, <1>6
  <2> HIDE DEF j, v
  <2>4. Leads(j, With(j, "A", v), Calm)
    BY <1>4, <1>5, <1>8, <2>2, <2>3, LeadsTo DEF Leads
  <2>5. QED
    BY <2>1, <2>3, <2>4, LeadsOn
<1>18. CASE op = "MUL"
  <2> DEFINE v == product.result
             cc == product.cc
             j == setReg(k, "D", v)
  <2>1. Move(f) = With(j, "cc", cc)
    BY <1>18 DEF Move, With
  <2>2. v \in Int /\ cc \in CC
    BY <1>3
  <2> HIDE DEF v, cc
  <2>3. Leads(k, j, Calm)
    BY <1>7, <2>2
  <2> HIDE DEF j
  <2>4. Leads(j, With(j, "cc", cc), Calm)
    BY <1>4, <1>5, <1>9, <2>2, <2>3, LeadsTo DEF Leads
  <2>5. QED
    BY <2>1, <2>3, <2>4, LeadsOn
<1>19. CASE op = "ANDCC" \/ op = "ORCC"
  <2> DEFINE v == BitAnd(CcByte(k.cc), k.right)
             w == BitOr(CcByte(k.cc), k.right)
  <2>1. Move(f) = setReg(k, "CC", v) \/ Move(f) = setReg(k, "CC", w)
    BY <1>19 DEF Move
  <2>2. v \in Int /\ w \in Int
    <3>1. CcByte(k.cc) \in Word
      BY <1>2, CcByteType, WordsOfBytes
    <3> DEFINE c == CcByte(k.cc)
    <3> HIDE DEF c
    <3>2. c \in Word
      BY <3>1 DEF c
    <3>3. BitAnd(c, k.right) \in Byte /\ BitOr(c, k.right) \in Result
      BY <1>2, <3>2, BitwiseTypes
    <3>4. QED
      BY <3>3, ByteRange, ResultRange DEF c
  <2> HIDE DEF v, w
  <2>3. Leads(k, setReg(k, "CC", v), Calm) /\ Leads(k, setReg(k, "CC", w), Calm)
    BY <1>7, <2>2
  <2>4. QED
    BY <2>1, <2>3
<1>20. CASE op \in {"NOP", "SYNC"}
  <2>1. Move(f) = k
    BY <1>20 DEF Move
  <2>2. QED
    BY <1>1, <2>1 DEF Leads
<1>21. QED
  BY <1>10, <1>11, <1>12, <1>13, <1>14, <1>15, <1>16, <1>17, <1>18, <1>19, <1>20
  DEF Moves, Exchanging

LEMMA MoveType == ASSUME NEW n, NEW f, IsDecoded(n, f), f.o.op \in Moves
    PROVE  Leads(f.m, Move(f), Operating)
<1> DEFINE k == f.m
           op == f.o.op
<1>1. IsMachine(k)
  BY DEF IsDecoded, Leads
<1>2. CASE op \notin Exchanging
  BY <1>2, CalmMoveType DEF Leads, Calm
<1>3. CASE op = "EXG"
  <2>1. Move(f) = Exchange(k)
    BY <1>3 DEF Move
  <2>2. QED
    BY <1>1, <2>1, ExchangeType
<1>4. CASE op = "TFR"
  <2> DEFINE v == getReg(k, RegOf(k.right \div 16))
             reg == RegOf(k.right % 16)
  <2>1. Move(f) = setReg(k, reg, v)
    BY <1>4 DEF Move
  <2>2. v \in Int
    BY <1>1, getRegType, WordsOfBytes
  <2> HIDE DEF v, reg
  <2>3. QED
    BY <1>1, <2>1, <2>2, setRegType DEF Leads, Operating
<1>5. QED
  BY <1>2, <1>3, <1>4 DEF Exchanging

LEMMA BranchType == ASSUME NEW n, NEW f, IsDecoded(n, f)
    PROVE  Leads(f.m, BranchTo(f), {"PC"})
<1>1. IsMachine(f.m) /\ f.m.right \in Int
  BY RegisterTypes, WordsOfBytes DEF IsDecoded, Leads
<1>2. BranchTo(f) = f.m \/ BranchTo(f) = Skip(f.m, f.m.right)
  BY DEF BranchTo
<1>3. QED
  BY <1>1, <1>2, SkipType DEF Leads


-----------------------------------------------------------------------------
(* System calls *)

LEMMA SystemFrameType == ASSUME NEW n, IsMachine(n) PROVE Leads(n, SystemFrame(n), {"ram", "S", "U"})
<1> DEFINE R == {"ram", "S", "U"}
           k1 == Push16(n, "S", 0)
           k2 == Push16(k1, "S", 0)
           k3 == Push16(k2, "S", n.U)
<1>1. ASSUME NEW k, Leads(n, k, R), NEW v \in Int
      PROVE  Leads(n, Push16(k, "S", v), R)
  <2>1. Leads(k, Push16(k, "S", v), {"ram", "S"})
    BY <1>1, PushType DEF Leads, Stacks
  <2>2. Leads(k, Push16(k, "S", v), R)
    BY <2>1 DEF Leads
  <2>3. QED
    BY <1>1, <2>2, LeadsOn
<1>2. n.U \in Int /\ 0 \in Int
  BY RegisterTypes, WordsOfBytes
<1>3. Leads(n, n, R)
  BY DEF Leads
<1>4. Leads(n, k1, R)
  BY <1>1, <1>2, <1>3
<1>5. Leads(n, k2, R)
  BY <1>1, <1>2, <1>4
<1>6. Leads(n, k3, R)
  BY <1>1, <1>2, <1>5
<1>7. SystemFrame(n) = With(k3, "U", k3.S)
  BY DEF SystemFrame, With
<1> HIDE DEF k1, k2, k3
<1>8. "U" \in Fields /\ HasType("U", k3.S)
  BY <1>6, RegisterTypes DEF Leads, Fields, HasType, ByteRegs, WordRegs
<1>9. IsMachine(k3)
  BY <1>6 DEF Leads
<1>10. Leads(k3, With(k3, "U", k3.S), R)
  BY <1>8, <1>9, LeadsTo
<1>11. QED
  BY <1>6, <1>7, <1>10, LeadsOn

LEMMA SystemReturnType == ASSUME NEW n, IsMachine(n)
    PROVE  /\ Leads(n, SystemReturn(n), Written)
           /\ Leads(n, Drop(n, "S", 4), Written)
<1> DEFINE k == Pop16(n, "S", "U")
<1>1. Leads(n, k, Written)
  BY PopType DEF Stacks
<1>2. ASSUME NEW j, IsMachine(j) PROVE Leads(j, Drop(j, "S", 4), Written)
  BY <1>2, DropType DEF Leads, Stacks, Written, WordRegs
<1>3. SystemReturn(n) = Drop(k, "S", 4)
  BY DEF SystemReturn
<1> HIDE DEF k
<1>4. Leads(k, Drop(k, "S", 4), Written)
  BY <1>1, <1>2 DEF Leads
<1>5. QED
  BY <1>1, <1>2, <1>3, <1>4, LeadsOn

LEMMA getArgType == ASSUME NEW n, IsMachine(n), NEW o
    PROVE  /\ getArg(n, o, 1) \in Byte
           /\ getArg(n, o, 2) \in Word
BY LoadType, WordOfBytes DEF getArg

LEMMA QuotientType ==
    ASSUME NEW a \in Word, NEW b \in Word, b # 0, NEW func, func = idiv8 => b \in Byte
    PROVE  Quotient(func, a, b) \in Int
<1>1. ASSUME NEW x \in Int, NEW y \in Int, y # 0
      PROVE  Divided(x, y) \in Int
  <2>1. Magnitude(x) \in Nat /\ Magnitude(y) \in Nat /\ Magnitude(y) > 0
    BY <1>1 DEF Magnitude
  <2>2. Magnitude(x) \div Magnitude(y) \in Int
    BY <2>1
  <2>3. QED
    BY <2>2 DEF Divided
<1>2. a \in Int /\ b \in Int /\ b > 0 /\ b < 65536
  BY WordRange
<1>3. func = idiv8 => b < 256
  BY ByteRange
<1>4. Signed8(a) \in Int /\ Signed16(a) \in Int /\ Signed8(b) \in Int /\ Signed16(b) \in Int
      /\ Signed16(b) # 0 /\ (func = idiv8 => Signed8(b) # 0)
  BY <1>2, <1>3 DEF Signed8, Signed16
<1>5. a \div b \in Int
  BY <1>2
<1>6. func = idiv8 => Quotient(func, a, b) \in Int
  BY <1>1, <1>4 DEF Quotient
<1>7. func # idiv8 /\ func = idiv16 => Quotient(func, a, b) \in Int
  BY <1>1, <1>4 DEF Quotient
<1>8. func # idiv8 /\ func # idiv16 => Quotient(func, a, b) \in Int
  BY <1>5 DEF Quotient
<1>9. QED
  BY <1>6, <1>7, <1>8

LEMMA FunctionNumbers == SystemAddrStart \in Int /\ idiv8 # idiv16 /\ idiv8 # udiv16
<1>1. SystemAddrStart \in Int
  BY SystemAssumption, WordRange
<1>2. QED
  BY <1>1 DEF idiv8, idiv16, udiv16, Function

LEMMA DivideType == ASSUME NEW n, IsMachine(n), NEW func, NEW c \in Divide(n, func)
    PROVE  Leads(n, c.m, Written)
<1> DEFINE bytes == IF func \in {idiv16, udiv16} THEN 2 ELSE 1
           a == getArg(n, 0, bytes)
           b == getArg(n, bytes, bytes)
           reg == IF bytes = 2 THEN "D" ELSE "A"
           quotients == IF b = 0 THEN DivisionByZero ELSE {Wrap(Quotient(func, a, b))}
<1>1. bytes = 1 \/ bytes = 2
  OBVIOUS
<1>2. func = idiv8 => bytes = 1
  BY FunctionNumbers
<1>3. PICK q \in quotients : c = Outcome(setReg(n, reg, q), TRUE)
  BY DEF Divide
<1> HIDE DEF bytes
<1>4. a \in Word /\ b \in Word /\ (func = idiv8 => b \in Byte)
  BY <1>1, <1>2, getArgType, WordsOfBytes
<1> HIDE DEF a, b
<1>5. b # 0 => Wrap(Quotient(func, a, b)) \in Int
  <2>1. b # 0 => Quotient(func, a, b) \in Int
    BY <1>4, QuotientType
  <2>2. QED
    BY <2>1, WrapType, WordsOfBytes
<1>6. q \in Int
  <2>1. \A w \in DivisionByZero : w \in Int
    BY DEF DivisionByZero, MaxWord
  <2>2. QED
    BY <1>3, <1>5, <2>1
<1>7. c.m = setReg(n, reg, q)
  BY <1>3 DEF Outcome
<1> HIDE DEF quotients, reg
<1>8. QED
  BY <1>6, <1>7, setRegType DEF Leads

LEMMA CharRange == ASSUME NEW v, v = 0 \/ v \in 1 .. 255 PROVE v \in Int /\ v >= 0 /\ v < 256
OBVIOUS

LEMMA ElementsOf == ASSUME NEW T, NEW t \in Seq(T) PROVE \A j \in 1 .. Len(t) : t[j] \in T
OBVIOUS

(* The formatter writes its buffer and nothing else. *)
LEMMA FormatIntoType ==
    ASSUME NEW n, IsMachine(n), NEW s \in Word, NEW c \in Word, NEW text \in Texts
    PROVE  /\ Leads(n, FormatInto(n, s, c, text), {"ram"})
           /\ \A a : a \notin {Wrap(s + i) : i \in 0 .. c - 1} =>
                 load8(FormatInto(n, s, c, text), a) = load8(n, a)
<1> DEFINE all == Append(text, 0)
           count == IF Len(all) < c THEN Len(all) ELSE IF c = 0 THEN 0 ELSE c - 1
           At(a) == Wrap(a - s) + 1
           written == {a \in {Wrap(s + i - 1) : i \in 1 .. count} : a < SystemAddrStart}
           ram == [a \in DOMAIN n.ram \cup written |-> IF a \in written THEN all[At(a)] ELSE n.ram[a]]
           k == FormatInto(n, s, c, text)
<1>1. k = With(n, "ram", ram)
  BY DEF FormatInto, With
<1>2. s \in Int /\ c \in Int /\ c >= 0 /\ c < 65536 /\ s >= 0 /\ s < 65536
  BY WordRange
<1>3. text \in Seq(1 .. 255)
  BY CallAssumption
<1>4. Len(all) \in Nat /\ \A j \in 1 .. Len(all) : all[j] \in Int /\ all[j] >= 0 /\ all[j] < 256
  <2>1. \A j \in 1 .. Len(text) : text[j] \in 1 .. 255
    BY <1>3, ElementsOf
  <2>2. Len(all) = Len(text) + 1 /\ Len(text) \in Nat
    BY <1>3
  <2>3. \A j \in 1 .. Len(all) : all[j] = IF j = Len(text) + 1 THEN 0 ELSE text[j]
    BY <1>3, <2>2
  <2> HIDE DEF all
  <2>4. ASSUME NEW j \in 1 .. Len(all)
        PROVE  all[j] \in Int /\ all[j] >= 0 /\ all[j] < 256
    <3>1. j \in Int /\ (j = Len(text) + 1 \/ j \in 1 .. Len(text))
      BY <2>2
    <3>2. j # Len(text) + 1 => text[j] \in 1 .. 255
      BY <2>1, <3>1
    <3>3. all[j] = 0 \/ all[j] \in 1 .. 255
      BY <2>3, <3>2
    <3> DEFINE v == all[j]
    <3> HIDE DEF v
    <3>4. v = 0 \/ v \in 1 .. 255
      BY <3>3 DEF v
    <3>5. v \in Int /\ v >= 0 /\ v < 256
      BY <3>4, CharRange
    <3>6. QED
      BY <3>5 DEF v
  <2>5. QED
    BY <2>2, <2>4
<1> HIDE DEF all
<1>5. count \in Nat /\ count <= Len(all) /\ count <= c
  BY <1>2, <1>4
<1> HIDE DEF count
<1>6. ASSUME NEW a \in written
      PROVE  /\ a \in MemAddr /\ all[At(a)] \in Byte
             /\ a \in {Wrap(s + i) : i \in 0 .. c - 1}
  <2>1. PICK i \in 1 .. count : a = Wrap(s + i - 1)
    OBVIOUS
  <2>2. i \in Int /\ 1 <= i /\ i <= count /\ i <= Len(all) /\ i < 65536
    BY <1>2, <1>5
  <2>3. a \in Word
    <3> DEFINE x == s + i - 1
    <3>1. x \in Int
      BY <1>2, <2>2
    <3> HIDE DEF x, written, ram, k
    <3>2. Wrap(x) \in Word
      BY <3>1, WrapType
    <3>3. QED
      BY <2>1, <3>2 DEF x
  <2>4. At(a) = i
    <3> DEFINE x == s + i - 1
               y == 0 - s
    <3> HIDE DEF written, ram, k
    <3>1. x \in Int /\ y \in Int /\ a = Wrap(x) /\ x + y = i - 1 /\ a - s = a + y
      BY <1>2, <2>1, <2>2, <2>3, WordRange
    <3> HIDE DEF x, y
    <3>2. Wrap(a + y) = Wrap(i - 1)
      BY <3>1, WrapOfSum
    <3>3. Wrap(i - 1) = i - 1
      BY <2>2, WrapBetween
    <3>4. QED
      BY <2>2, <3>1, <3>2, <3>3
  <2>5. all[i] \in Byte
    BY <1>4, <2>2, ByteRange
  <2>6. i - 1 \in 0 .. c - 1 /\ s + (i - 1) = s + i - 1
    BY <1>2, <1>5, <2>2
  <2>7. QED
    BY <2>1, <2>3, <2>4, <2>5, <2>6, WordsOfBytes
<1>7. IsMemory(n.ram)
  BY RegisterTypes
<1>8. DOMAIN ram = DOMAIN n.ram \cup written
  OBVIOUS
<1> DEFINE buffer == {Wrap(s + i) : i \in 0 .. c - 1}
<1>9. \A a \in written : a \in MemAddr /\ all[At(a)] \in Byte /\ a \in buffer
  BY <1>6
<1> HIDE DEF written, At, buffer
<1>10. IsMemory(ram)
  BY <1>7, <1>9 DEF IsMemory
<1>11. \A a : a \notin buffer => (IF a \in DOMAIN ram THEN ram[a] ELSE 0) = load8(n, a)
  BY <1>9 DEF load8
<1> HIDE DEF ram
<1>12. "ram" \in Fields /\ HasType("ram", ram)
  BY <1>10 DEF Fields, HasType, ByteRegs, WordRegs
<1>13. Leads(n, With(n, "ram", ram), {"ram"}) /\ With(n, "ram", ram).ram = ram
  BY <1>12, FieldSet, LeadsTo
<1>14. \A a : load8(With(n, "ram", ram), a) = IF a \in DOMAIN ram THEN ram[a] ELSE 0
  BY <1>13 DEF load8
<1> HIDE DEF k
<1>15. QED
  BY <1>1, <1>11, <1>13, <1>14, Zenon DEF k, buffer

(* A record that is stored writes its cells and nothing else. *)
LEMMA StoreRecordType ==
    ASSUME NEW n, IsMachine(n), NEW r \in Records
    PROVE  /\ Leads(n, StoreRecord(n, r), {"ram"})
           /\ \A a : a \notin RecordCells(r) => load8(StoreRecord(n, r), a) = load8(n, a)
<1> DEFINE cells == RecordCells(r)
           ram == [a \in DOMAIN n.ram \cup cells |->
                      IF a \in cells THEN r.data[a - r.addr + 1] ELSE n.ram[a]]
           k == StoreRecord(n, r)
<1>1. k = With(n, "ram", ram)
  BY DEF StoreRecord, With
<1>2. r.addr \in Word /\ r.data \in Seq(Byte) /\ cells \subseteq MemAddr
  BY CallAssumption
<1>3. ASSUME NEW a \in cells PROVE r.data[a - r.addr + 1] \in Byte
  <2> DEFINE i == a - r.addr + 1
  <2>1. r.addr \in Int /\ Len(r.data) \in Nat
    BY <1>2, WordRange
  <2>2. a \in r.addr .. r.addr + Len(r.data) - 1
    BY DEF RecordCells
  <2>3. i \in 1 .. Len(r.data)
    BY <2>1, <2>2
  <2>4. QED
    BY <1>2, <2>3, ElementsOf
<1>4. IsMemory(n.ram)
  BY RegisterTypes
<1> HIDE DEF cells
<1>5. IsMemory(ram)
  BY <1>2, <1>3, <1>4 DEF IsMemory
<1>6. \A a : a \notin cells => (IF a \in DOMAIN ram THEN ram[a] ELSE 0) = load8(n, a)
  BY DEF load8
<1> HIDE DEF ram
<1>7. "ram" \in Fields /\ HasType("ram", ram)
  BY <1>5 DEF Fields, HasType, ByteRegs, WordRegs
<1>8. Leads(n, With(n, "ram", ram), {"ram"}) /\ With(n, "ram", ram).ram = ram
  BY <1>7, FieldSet, LeadsTo
<1>9. \A a : load8(With(n, "ram", ram), a) = IF a \in DOMAIN ram THEN ram[a] ELSE 0
  BY <1>8 DEF load8
<1> HIDE DEF k
<1>10. QED
  BY <1>1, <1>6, <1>8, <1>9, Zenon DEF k, cells

(* ldLine answers in A and B, and has stored one record or none. *)
LEMMA LineOutcome ==
    ASSUME NEW n, IsMachine(n), NEW c \in LineOutcomes(n)
    PROVE  /\ c.ok /\ Leads(n, c.m, {"A", "B", "ram"})
           /\ \E w \in {{}} \cup {RecordCells(r) : r \in Records} :
                 \A a : a \notin w => load8(c.m, a) = load8(n, a)
<1>1. ASSUME NEW k, Leads(n, k, {"ram"}), NEW good \in 0 .. 1, NEW finished \in 0 .. 1,
             c = Answered(k, good, finished)
      PROVE  c.ok /\ Leads(n, c.m, {"A", "B", "ram"}) /\ \A a : load8(c.m, a) = load8(k, a)
  <2> DEFINE j == With(k, "A", good)
  <2>1. c.ok /\ c.m = With(j, "B", finished)
    BY <1>1 DEF Answered, Outcome, With
  <2>2. good \in Byte /\ finished \in Byte
    BY <1>1, ByteRange
  <2>3. "A" \in Fields /\ "B" \in Fields /\ "ram" \in Fields \ {"A", "B"}
        /\ HasType("A", good) /\ HasType("B", finished)
    BY <2>2 DEF Fields, HasType, ByteRegs, WordRegs
  <2>4. IsMachine(k) /\ Leads(n, k, {"A", "B", "ram"})
    BY <1>1 DEF Leads
  <2>5. Leads(k, j, {"A", "B", "ram"}) /\ j.ram = k.ram
    BY <2>3, <2>4, LeadsTo, FieldSet
  <2> HIDE DEF j
  <2>6. IsMachine(j)
    BY <2>5 DEF Leads
  <2>7. Leads(j, c.m, {"A", "B", "ram"}) /\ c.m.ram = j.ram
    BY <2>1, <2>3, <2>6, LeadsTo, FieldSet
  <2>8. Leads(n, c.m, {"A", "B", "ram"})
    BY <2>4, <2>5, <2>7, LeadsOn
  <2>9. \A a : load8(c.m, a) = load8(k, a)
    BY <2>5, <2>7 DEF load8
  <2>10. QED
    BY <2>1, <2>8, <2>9
<1>2. CASE \E good \in 0 .. 1, finished \in 0 .. 1 : c = Answered(n, good, finished)
  <2>1. Leads(n, n, {"ram"})
    BY DEF Leads
  <2>2. QED
    BY <1>1, <1>2, <2>1
<1>3. CASE \E r \in Records, finished \in 0 .. 1 : c = Answered(StoreRecord(n, r), 1, finished)
  <2>1. PICK r \in Records, finished \in 0 .. 1 : c = Answered(StoreRecord(n, r), 1, finished)
    BY <1>3
  <2> DEFINE k == StoreRecord(n, r)
  <2>2. Leads(n, k, {"ram"}) /\ \A a : a \notin RecordCells(r) => load8(k, a) = load8(n, a)
    BY StoreRecordType
  <2>3. 1 \in 0 .. 1 /\ c = Answered(k, 1, finished)
    BY <2>1
  <2> HIDE DEF k
  <2>4. c.ok /\ Leads(n, c.m, {"A", "B", "ram"}) /\ \A a : load8(c.m, a) = load8(k, a)
    BY <1>1, <2>2, <2>3
  <2>5. QED
    BY <2>2, <2>4
<1>4. \/ \E good \in 0 .. 1, finished \in 0 .. 1 : c = Answered(n, good, finished)
      \/ \E r \in Records, finished \in 0 .. 1 : c = Answered(StoreRecord(n, r), 1, finished)
  BY DEF LineOutcomes
<1>5. QED
  BY <1>2, <1>3, <1>4

LEMMA ExitType == exit \in Word
<1>1. SystemAddrStart \in Int /\ 0 <= SystemAddrStart /\ SystemAddrStart + 74 < 65536
  BY SystemAssumption, CallAssumption, WordRange
<1>2. QED
  BY <1>1, WordRange DEF exit, Function

(* A system function changes the registers and memory. *)
Serving == Written \cup {"ram"}

LEMMA CallType == ASSUME NEW n, IsMachine(n), NEW func, NEW c \in Call(n, func)
    PROVE  Leads(n, c.m, Serving)
<1> DEFINE Read == {Outcome([n EXCEPT !.A = v], TRUE) : v \in Inputs}
           Lines == LineOutcomes(n)
           Formats == {Outcome(FormatInto(n, getArg(n, 0, 2), getArg(n, 2, 2), text), TRUE) :
                          text \in Texts}
           switched == Outcome([n EXCEPT !.X = exit], TRUE)
           exited == Outcome([n EXCEPT !.PC = StartAddr], FALSE)
<1>1. Leads(n, n, Serving)
  BY DEF Leads
<1>3. "A" \in Fields /\ "B" \in Fields /\ "X" \in Fields /\ "PC" \in Fields
  BY DEF Fields
<1>5. CASE c.m = n
  BY <1>1, <1>5
<1>6. CASE c \in Read
  <2>1. PICK v \in Inputs : c.m = With(n, "A", v)
    BY <1>6 DEF Outcome, With
  <2>2. HasType("A", v) /\ "A" \in Serving
    BY CallAssumption DEF HasType, WordRegs, Serving, Written, ByteRegs
  <2>3. QED
    BY <1>3, <2>1, <2>2, LeadsTo
<1>7. CASE c \in Lines
  <2>1. Leads(n, c.m, {"A", "B", "ram"})
    BY <1>7, LineOutcome
  <2>2. QED
    BY <2>1 DEF Leads, Serving, Written, ByteRegs
<1>8. CASE c \in Formats
  <2>1. PICK text \in Texts : c.m = FormatInto(n, getArg(n, 0, 2), getArg(n, 2, 2), text)
    BY <1>8 DEF Outcome
  <2>2. getArg(n, 0, 2) \in Word /\ getArg(n, 2, 2) \in Word
    BY getArgType
  <2>3. Leads(n, c.m, {"ram"})
    BY <2>1, <2>2, FormatIntoType
  <2>4. QED
    BY <2>3 DEF Leads, Serving
<1>9. CASE c = switched
  <2>1. c.m = With(n, "X", exit)
    BY <1>9 DEF Outcome, With
  <2>2. HasType("X", exit) /\ "X" \in Serving
    BY ExitType DEF HasType, WordRegs, Serving, Written, ByteRegs
  <2>3. QED
    BY <1>3, <2>1, <2>2, LeadsTo
<1>10. CASE c \in Divide(n, func)
  <2>1. Leads(n, c.m, Written)
    BY <1>10, DivideType
  <2>2. QED
    BY <2>1 DEF Leads, Serving
<1>11. CASE c = exited
  <2>1. c.m = With(n, "PC", StartAddr)
    BY <1>11 DEF Outcome, With
  <2>2. HasType("PC", StartAddr) /\ "PC" \in Serving
    BY CallAssumption DEF HasType, WordRegs, Serving, Written, ByteRegs
  <2>3. QED
    BY <1>3, <2>1, <2>2, LeadsTo
<1>12. c \in {Outcome(n, TRUE), Outcome(n, FALSE), switched, exited} \cup Read \cup Lines
            \cup Formats \cup Divide(n, func)
  <2>1. c \in IF func \in {putc, puts, ldStart, ldEnd, printf} THEN {Outcome(n, TRUE)}
              ELSE IF func = getc THEN Read
              ELSE IF func = ldLine THEN Lines
              ELSE IF func = format THEN Formats
              ELSE IF func \in {switch1, switch2} THEN {switched}
              ELSE IF func \in {idiv8, idiv16, udiv8, udiv16} THEN Divide(n, func)
              ELSE IF func = exit THEN {exited}
              ELSE {Outcome(n, FALSE)}
    BY DEF Call
  <2> HIDE DEF Read, Lines, Formats, switched, exited
  <2>2. QED
    BY <2>1
<1>13. Outcome(n, TRUE).m = n /\ Outcome(n, FALSE).m = n
  BY DEF Outcome
<1> HIDE DEF Read, Lines, Formats, switched, exited
<1>14. QED
  BY <1>5, <1>6, <1>7, <1>8, <1>9, <1>10, <1>11, <1>12, <1>13

-----------------------------------------------------------------------------
(* What the stacks hold *)

LEMMA PokeReads == ASSUME NEW n, IsMachine(n), NEW a, NEW v
    PROVE  \A x : load8(Poke(n, a, v), x) = IF x = a THEN v % 256 ELSE load8(n, x)
<1> DEFINE ram == [x \in DOMAIN n.ram \cup {a} |-> IF x = a THEN v % 256 ELSE n.ram[x]]
<1>1. Poke(n, a, v).ram = ram
  BY DEF Poke, IsMachine, Fields
<1> HIDE DEF ram
<1>2. \A x : load8(Poke(n, a, v), x) = IF x \in DOMAIN ram THEN ram[x] ELSE 0
  BY <1>1 DEF load8
<1>3. \A x : (IF x \in DOMAIN ram THEN ram[x] ELSE 0) = IF x = a THEN v % 256 ELSE load8(n, x)
  BY DEF ram, load8
<1>4. QED
  BY <1>2, <1>3

LEMMA LoadsAlike == ASSUME NEW n, NEW k, n.ram = k.ram PROVE \A x : load8(n, x) = load8(k, x)
BY DEF load8

(* The registers a stack instruction names are themselves behind any prefix. *)
StackRegs == {"PC", "S", "U", "Y", "X", "DP", "B", "A", "CC"}

LEMMA getRegIs == ASSUME NEW n, NEW r \in StackRegs
    PROVE  getReg(n, r) = IF r = "CC" THEN CcByte(n.cc) ELSE n[r]
<1>1. Paged(r, n.prev) = r
  BY DEF Paged, StackRegs
<1>2. QED
  BY <1>1 DEF getReg, StackRegs, ByteRegs, WordRegs

LEMMA getRegAlike == ASSUME NEW n, NEW k, NEW R, Leads(n, k, R)
    PROVE  \A r \in StackRegs : r \notin R /\ "cc" \notin R => getReg(k, r) = getReg(n, r)
<1>1. \A r \in StackRegs : r = "CC" \/ r \in Fields
  BY DEF StackRegs, Fields
<1>2. "cc" \in Fields
  BY DEF Fields
<1>3. QED
  BY <1>1, <1>2, getRegIs DEF Leads

LEMMA CcOfByte == ASSUME NEW b \in Byte PROVE CcByte(CcOf(b)) = b
<1> DEFINE x == CcOf(b)
<1>1. b \in Nat /\ b % 256 = b
  BY ByteRange
<1>2. /\ x.C = Bit(b, 1) /\ x.V = Bit(b, 2) /\ x.Z = Bit(b, 4) /\ x.N = Bit(b, 8)
      /\ x.I = Bit(b, 16) /\ x.H = Bit(b, 32) /\ x.F = Bit(b, 64) /\ x.E = Bit(b, 128)
  BY DEF CcOf
<1> HIDE DEF x
<1>3. CcByte(x) = Bit(b, 1) + 2 * Bit(b, 2) + 4 * Bit(b, 4) + 8 * Bit(b, 8) + 16 * Bit(b, 16)
                  + 32 * Bit(b, 32) + 64 * Bit(b, 64) + 128 * Bit(b, 128)
  BY <1>2 DEF CcByte
<1>4. QED
  BY <1>1, <1>3, LowBits DEF x

(* A value popped into a register is what the register then holds, and no *)
(* other register changes.                                                 *)
LEMMA setRegIs ==
    ASSUME NEW n, IsMachine(n), NEW r \in StackRegs, NEW v \in Word, r \notin WordRegs => v \in Byte
    PROVE  /\ getReg(setReg(n, r, v), r) = v
           /\ \A q \in StackRegs \ {r} : getReg(setReg(n, r, v), q) = getReg(n, q)
<1> DEFINE b == v % 256
           w == Wrap(v)
           c == CcOf(b)
           k == setReg(n, r, v)
<1>1. Paged(r, n.prev) = r
  BY DEF Paged, StackRegs
<1>2. setReg(n, r, v) = IF r \in ByteRegs THEN With(n, r, b)
                        ELSE IF r \in WordRegs THEN With(n, r, w)
                        ELSE IF r = "CC" THEN With(n, "cc", c) ELSE n
  BY <1>1 DEF setReg, With, StackRegs
<1>3. r \in WordRegs => w = v /\ HasType(r, w)
  BY WrapOfWord DEF HasType, WordRegs, ByteRegs
<1>4. r \notin WordRegs => b = v /\ b \in Byte
  BY ByteRange
<1>5. r \in ByteRegs => HasType(r, b) /\ r \notin WordRegs
  BY <1>4 DEF HasType, WordRegs, ByteRegs
<1>6. r \notin WordRegs => c \in CC /\ CcByte(c) = v
  BY <1>4, CcOfByte, CcOfType, ByteRange
<1> HIDE DEF b, w, c
<1>7. r \in WordRegs \cup ByteRegs => r \in Fields /\ r # "cc" /\ r # "CC"
  BY DEF Fields, WordRegs, ByteRegs
<1>8. CASE r \in WordRegs \cup ByteRegs
  <2>1. k = With(n, r, v) /\ HasType(r, v)
    BY <1>2, <1>3, <1>4, <1>5, <1>8
  <2> HIDE DEF k
  <2>2. k[r] = v /\ \A y \in Fields \ {r} : k[y] = n[y]
    BY <1>7, <1>8, <2>1, FieldSet
  <2>3. getReg(k, r) = v
    BY <1>7, <1>8, <2>2, getRegIs
  <2>4. \A q \in StackRegs \ {r} : getReg(k, q) = getReg(n, q)
    <3>1. \A q \in StackRegs : q = "CC" \/ q \in Fields
      BY DEF StackRegs, Fields
    <3>2. "cc" \in Fields
      BY DEF Fields
    <3>3. QED
      BY <1>7, <1>8, <2>2, <3>1, <3>2, getRegIs
  <2>5. QED
    BY <2>3, <2>4 DEF k
<1>9. CASE r \notin WordRegs \cup ByteRegs
  <2>1. r = "CC" /\ "cc" \in Fields /\ HasType("cc", c)
    BY <1>6, <1>9 DEF StackRegs, WordRegs, ByteRegs, Fields, HasType
  <2>2. k = With(n, "cc", c)
    BY <1>2, <1>9, <2>1
  <2> HIDE DEF k
  <2>3. k.cc = c /\ \A y \in Fields \ {"cc"} : k[y] = n[y]
    BY <2>1, <2>2, FieldSet
  <2>4. getReg(k, r) = v
    BY <1>6, <1>9, <2>1, <2>3, getRegIs
  <2>5. \A q \in StackRegs \ {r} : q \in Fields /\ q # "cc"
    BY <2>1 DEF StackRegs, Fields
  <2>6. \A q \in StackRegs \ {r} : getReg(k, q) = getReg(n, q)
    BY <2>1, <2>3, <2>5, getRegIs
  <2>7. QED
    BY <2>4, <2>6 DEF k
<1>10. QED
  BY <1>8, <1>9

(* Where the i-th register of a mask lies in its frame: so many bytes      *)
(* below the top.                                                          *)
Pushed(mask, i) == Bit(mask, Bits[i]) # 0
Size(mask, i) == IF ~Pushed(mask, i) THEN 0 ELSE IF i <= 4 THEN 2 ELSE 1
Depth(mask, i) == (IF i >= 1 THEN Size(mask, 1) ELSE 0) + (IF i >= 2 THEN Size(mask, 2) ELSE 0)
                  + (IF i >= 3 THEN Size(mask, 3) ELSE 0) + (IF i >= 4 THEN Size(mask, 4) ELSE 0)
                  + (IF i >= 5 THEN Size(mask, 5) ELSE 0) + (IF i >= 6 THEN Size(mask, 6) ELSE 0)
                  + (IF i >= 7 THEN Size(mask, 7) ELSE 0) + (IF i >= 8 THEN Size(mask, 8) ELSE 0)

LEMMA DepthSteps == ASSUME NEW mask
    PROVE  /\ Depth(mask, 0) = 0
           /\ \A i \in 1 .. 8 : /\ Depth(mask, i) = Depth(mask, i - 1) + Size(mask, i)
                                /\ Size(mask, i) \in 0 .. 2
           /\ \A i \in 0 .. 8 : /\ Depth(mask, i) \in Int /\ 0 <= Depth(mask, i)
                                /\ Depth(mask, i) <= Depth(mask, 8)
           /\ \A i \in 0 .. 8, j \in 0 .. 8 : i <= j => Depth(mask, i) <= Depth(mask, j)
           /\ Depth(mask, 8) <= 12
<1>1. \A i \in 1 .. 8 : /\ Size(mask, i) \in Int /\ 0 <= Size(mask, i) /\ Size(mask, i) <= 2
                        /\ i > 4 => Size(mask, i) <= 1
  BY DEF Size
<1> DEFINE a == Size(mask, 1)
           b == Size(mask, 2)
           c == Size(mask, 3)
           d == Size(mask, 4)
           e == Size(mask, 5)
           f == Size(mask, 6)
           g == Size(mask, 7)
           h == Size(mask, 8)
<1>2. /\ a \in Int /\ b \in Int /\ c \in Int /\ d \in Int /\ e \in Int /\ f \in Int /\ g \in Int
      /\ h \in Int /\ 0 <= a /\ 0 <= b /\ 0 <= c /\ 0 <= d /\ 0 <= e /\ 0 <= f /\ 0 <= g /\ 0 <= h
      /\ a <= 2 /\ b <= 2 /\ c <= 2 /\ d <= 2 /\ e <= 1 /\ f <= 1 /\ g <= 1 /\ h <= 1
  BY <1>1
<1>3. /\ Depth(mask, 0) = 0 /\ Depth(mask, 1) = a /\ Depth(mask, 2) = a + b
      /\ Depth(mask, 3) = a + b + c /\ Depth(mask, 4) = a + b + c + d
      /\ Depth(mask, 5) = a + b + c + d + e /\ Depth(mask, 6) = a + b + c + d + e + f
      /\ Depth(mask, 7) = a + b + c + d + e + f + g
      /\ Depth(mask, 8) = a + b + c + d + e + f + g + h
  BY <1>2 DEF Depth
<1>4. \A i \in 1 .. 8 : Depth(mask, i) = Depth(mask, i - 1) + Size(mask, i)
  BY <1>2, <1>3
<1>5. \A i \in 0 .. 8, j \in 0 .. 8 : i <= j => Depth(mask, i) <= Depth(mask, j)
  <2> HIDE DEF a, b, c, d, e, f, g, h
  <2>1. \A i \in 0 .. 8 : i = 0 \/ i = 1 \/ i = 2 \/ i = 3 \/ i = 4 \/ i = 5 \/ i = 6 \/ i = 7 \/ i = 8
    OBVIOUS
  <2>2. QED
    BY <1>2, <1>3, <2>1
<1>6. \A i \in 0 .. 8 : Depth(mask, i) \in Int
  BY <1>2, <1>3
<1>7. Depth(mask, 8) <= 12
  BY <1>2, <1>3
<1> HIDE DEF a, b, c, d, e, f, g, h
<1>8. \A i \in 0 .. 8 : 0 <= Depth(mask, i) /\ Depth(mask, i) <= Depth(mask, 8)
  <2>1. ASSUME NEW i \in 0 .. 8
        PROVE  0 <= Depth(mask, i) /\ Depth(mask, i) <= Depth(mask, 8)
    <3>1. 0 \in 0 .. 8 /\ 8 \in 0 .. 8 /\ 0 <= i /\ i <= 8
      OBVIOUS
    <3>2. QED
      BY <1>3, <1>5, <3>1
  <2>2. QED
    BY <2>1
<1>9. \A i \in 1 .. 8 : Depth(mask, i) = Depth(mask, i - 1) + Size(mask, i) /\ Size(mask, i) \in 0 .. 2
  BY <1>1, <1>4
<1>10. Depth(mask, 0) = 0
  BY <1>3
<1>11. \A i \in 0 .. 8 : /\ Depth(mask, i) \in Int /\ 0 <= Depth(mask, i)
                         /\ Depth(mask, i) <= Depth(mask, 8)
  BY <1>6, <1>8
<1>12. QED
  BY <1>5, <1>7, <1>9, <1>10, <1>11, Zenon

(* The value at a *)
Cell(n, a, i) == IF i <= 4 THEN 256 * load8(n, a) + load8(n, a + 1) ELSE load8(n, a)

(* k is what is left of n when i registers of the mask have been pushed on *)
(* s, without passing 0.                                                   *)
IsPushed(n, k, s, mask, i) ==
    /\ Leads(n, k, {"ram", s})
    /\ k[s] = n[s] - Depth(mask, i)
    /\ \A j \in 1 .. i : Pushed(mask, j) =>
          Cell(k, n[s] - Depth(mask, j), j) = getReg(n, Registers(s)[j])
    /\ \A a \in Int : a < n[s] - Depth(mask, i) \/ a >= n[s] => load8(k, a) = load8(n, a)

LEMMA Push8Reads == ASSUME NEW n, IsMachine(n), NEW s \in Stacks, NEW v
    PROVE  \A x : load8(Push8(n, s, v), x) = IF x = Wrap(n[s] - 1) THEN v % 256 ELSE load8(n, x)
<1> DEFINE a == Wrap(n[s] - 1)
           j == With(n, s, a)
<1>1. s \in Fields /\ s # "ram" /\ s \in WordRegs
  BY DEF Stacks, Fields, WordRegs
<1>2. n[s] \in Int
  BY <1>1, RegisterTypes, WordsOfBytes
<1>3. HasType(s, a)
  <2>1. a \in Word
    BY <1>2, WrapType
  <2>2. QED
    BY <1>1, <2>1 DEF HasType, Stacks, ByteRegs, WordRegs
<1>4. Push8(n, s, v) = Poke(j, a, v)
  BY DEF Push8, With
<1> HIDE DEF a
<1>5. IsMachine(j) /\ j.ram = n.ram
  <2>1. "ram" \in Fields
    BY DEF Fields
  <2>2. QED
    BY <1>1, <1>3, <2>1, FieldSet
<1> HIDE DEF j
<1>6. \A x : load8(Poke(j, a, v), x) = IF x = a THEN v % 256 ELSE load8(j, x)
  BY <1>5, PokeReads
<1>7. \A x : load8(j, x) = load8(n, x)
  BY <1>5, LoadsAlike
<1>8. QED
  BY <1>4, <1>6, <1>7 DEF a

LEMMA Push16Reads == ASSUME NEW n, IsMachine(n), NEW s \in Stacks, NEW v \in Word
    PROVE  \A x : load8(Push16(n, s, v), x) = IF x = Wrap(n[s] - 1) /\ x # Wrap(n[s] - 2) THEN v % 256
                                              ELSE IF x = Wrap(n[s] - 2) THEN v \div 256
                                              ELSE load8(n, x)
<1> DEFINE h == v \div 256
           k == Push8(n, s, v)
<1>1. h % 256 = h /\ v \in Int
  BY HighByte, WordsOfBytes, ByteRange
<1>2. Push16(n, s, v) = Push8(k, s, h)
  BY DEF Push16
<1>3. IsMachine(k) /\ k[s] = Wrap(n[s] - 1)
  BY <1>1, PushType DEF Leads
<1>4. \A x : load8(k, x) = IF x = Wrap(n[s] - 1) THEN v % 256 ELSE load8(n, x)
  BY Push8Reads
<1>5. Wrap(k[s] - 1) = Wrap(n[s] - 2)
  <2>1. Push16(n, s, v)[s] = Wrap(n[s] - 2)
    BY <1>1, PushType
  <2>2. h \in Int
    BY HighByte, ByteRange
  <2> HIDE DEF k, h
  <2>3. Push8(k, s, h)[s] = Wrap(k[s] - 1)
    BY <1>3, <2>2, PushType
  <2>4. QED
    BY <1>2, <2>1, <2>3
<1> HIDE DEF k, h
<1>6. \A x : load8(Push8(k, s, h), x) = IF x = Wrap(k[s] - 1) THEN h % 256 ELSE load8(k, x)
  BY <1>3, Push8Reads
<1>7. QED
  BY <1>1, <1>2, <1>4, <1>5, <1>6 DEF h

LEMMA RegistersApart == ASSUME NEW s \in Stacks, NEW i \in 1 .. 8
    PROVE  /\ Registers(s)[i] \in StackRegs \ {s, "ram"}
           /\ i <= 4 <=> IsWide(Registers(s)[i])
           /\ \A j \in 1 .. 8 : j # i => Registers(s)[j] # Registers(s)[i]
<1>1. s = "S" \/ s = "U"
  BY DEF Stacks
<1>2. \A j \in 1 .. 8 : j = 1 \/ j = 2 \/ j = 3 \/ j = 4 \/ j = 5 \/ j = 6 \/ j = 7 \/ j = 8
  OBVIOUS
<1> DEFINE r == Registers(s)
<1>3. /\ r[1] = "PC" /\ r[2] = (IF s = "U" THEN "S" ELSE "U") /\ r[3] = "Y" /\ r[4] = "X"
      /\ r[5] = "DP" /\ r[6] = "B" /\ r[7] = "A" /\ r[8] = "CC"
  BY DEF Registers
<1> HIDE DEF r
<1>4. r[i] \in StackRegs \ {s, "ram"} /\ (i <= 4 <=> IsWide(r[i]))
  BY <1>1, <1>2, <1>3 DEF StackRegs, IsWide, WordRegs
<1>5. \A j \in 1 .. 8 : j # i => r[j] # r[i]
  BY <1>1, <1>2, <1>3
<1>6. QED
  BY <1>4, <1>5 DEF r

(* The values of byte registers are bytes. *)
LEMMA getRegByte == ASSUME NEW n, IsMachine(n), NEW r \in StackRegs, ~IsWide(r) PROVE getReg(n, r) \in Byte
<1>1. r = "CC" \/ r \in ByteRegs
  BY DEF StackRegs, IsWide, WordRegs, ByteRegs
<1>2. QED
  BY <1>1, getRegIs, RegisterTypes, CcByteType

LEMMA StackPointer == ASSUME NEW n, IsMachine(n), NEW s \in Stacks
    PROVE  n[s] \in Int /\ 0 <= n[s] /\ n[s] < 65536
<1>1. s \in WordRegs
  BY DEF Stacks, WordRegs
<1>2. QED
  BY <1>1, RegisterTypes, WordRange

(* Pushing the next register *)
LEMMA PushIfHolds ==
    ASSUME NEW n, IsMachine(n), NEW s \in Stacks, NEW mask, n[s] >= Depth(mask, 8),
           NEW i \in 1 .. 8, NEW k, IsPushed(n, k, s, mask, i - 1)
    PROVE  IsPushed(n, PushIf(k, s, mask, i), s, mask, i)
<1> DEFINE r == Registers(s)[i]
           v == getReg(k, r)
           sp == n[s]
           d == Depth(mask, i - 1)
           e == Depth(mask, i)
           j == PushIf(k, s, mask, i)
           t == k[s]
<1>1. /\ d \in Int /\ 0 <= d /\ e \in Int /\ e <= sp /\ e = d + Size(mask, i)
      /\ sp \in Int /\ sp < 65536
  <2>1. i - 1 \in 0 .. 8 /\ i \in 0 .. 8
    OBVIOUS
  <2>2. Depth(mask, i) <= Depth(mask, 8) /\ Depth(mask, 8) \in Int
    BY <2>1, DepthSteps
  <2>3. d \in Int /\ 0 <= d /\ e \in Int /\ e = d + Size(mask, i)
    BY <2>1, DepthSteps
  <2> HIDE DEF d, e
  <2>4. e <= Depth(mask, 8)
    BY <2>2 DEF e
  <2>5. sp \in Int /\ sp < 65536
    BY StackPointer
  <2>6. QED
    BY <2>2, <2>3, <2>4, <2>5
<1>2. IsMachine(k) /\ t = sp - d
  BY DEF IsPushed, Leads
<1>3. r \in StackRegs /\ r # s /\ r # "ram" /\ (i <= 4 <=> IsWide(r))
  BY RegistersApart
<1>4. v = getReg(n, r) /\ v \in Word /\ (~IsWide(r) => v \in Byte)
  <2>1. Leads(n, k, {"ram", s}) /\ r \notin {"ram", s} /\ "cc" \notin {"ram", s}
    BY <1>3 DEF IsPushed, Stacks
  <2>2. getReg(k, r) = getReg(n, r)
    BY <1>3, <2>1, getRegAlike
  <2>3. QED
    BY <1>2, <1>3, <2>2, getRegType, getRegByte
<1>5. Leads(n, j, {"ram", s})
  <2>1. Leads(k, j, {"ram", s})
    BY <1>2, PushIfType
  <2>2. Leads(n, k, {"ram", s})
    BY DEF IsPushed
  <2>3. QED
    BY <2>1, <2>2, LeadsOn
<1>6. \A x \in 1 .. i - 1 : Pushed(mask, x) => Cell(k, sp - Depth(mask, x), x) = getReg(n, Registers(s)[x])
  BY DEF IsPushed
<1>7. \A a \in Int : a < sp - d \/ a >= sp => load8(k, a) = load8(n, a)
  BY DEF IsPushed
<1>8. CASE ~Pushed(mask, i)
  <2>1. j = k /\ e = d
    BY <1>1, <1>8 DEF PushIf, Pushed, Size
  <2>2. \A x \in 1 .. i : Pushed(mask, x) => x \in 1 .. i - 1
    BY <1>8
  <2> HIDE DEF j, d, e, sp
  <2>3. j[s] = sp - e
    BY <1>2, <2>1
  <2>4. QED
    BY <1>5, <1>6, <1>7, <2>1, <2>2, <2>3 DEF IsPushed, j, d, e, sp
<1>9. CASE Pushed(mask, i)
  <2>1. j = IF IsWide(r) THEN Push16(k, s, v) ELSE Push8(k, s, v)
    BY <1>9 DEF PushIf, Pushed
  <2>2. Size(mask, i) = IF i <= 4 THEN 2 ELSE 1
    BY <1>9 DEF Size
  <2>3. v \in Int
    BY <1>4, WordsOfBytes
  <2>4. j[s] = IF IsWide(r) THEN Wrap(t - 2) ELSE Wrap(t - 1)
    BY <1>2, <2>1, <2>3, PushType
  <2>5. \A x : load8(j, x) = IF IsWide(r)
                             THEN IF x = Wrap(t - 1) /\ x # Wrap(t - 2) THEN v % 256
                                  ELSE IF x = Wrap(t - 2) THEN v \div 256 ELSE load8(k, x)
                             ELSE IF x = Wrap(t - 1) THEN v % 256 ELSE load8(k, x)
    <3>1. \A x : load8(Push8(k, s, v), x) = IF x = Wrap(t - 1) THEN v % 256 ELSE load8(k, x)
      BY <1>2, Push8Reads
    <3>2. \A x : load8(Push16(k, s, v), x) = IF x = Wrap(t - 1) /\ x # Wrap(t - 2) THEN v % 256
                                              ELSE IF x = Wrap(t - 2) THEN v \div 256
                                              ELSE load8(k, x)
      BY <1>2, <1>4, Push16Reads
    <3> HIDE DEF j, v, t
    <3>3. QED
      BY <2>1, <3>1, <3>2
  <2> HIDE DEF j, v, d, e, sp, t, r
  <2>6. e = (IF IsWide(r) THEN d + 2 ELSE d + 1) /\ t \in Int /\ t - 1 >= 0 /\ t < 65536
        /\ (IsWide(r) => t - 2 >= 0)
    BY <1>1, <1>2, <1>3, <2>2
  <2>7. Wrap(t - 1) = t - 1 /\ (IsWide(r) => Wrap(t - 2) = t - 2)
    BY <2>6, WrapBetween
  <2>8. j[s] = sp - e
    BY <1>1, <1>2, <2>4, <2>6, <2>7
  <2>9. \A x : load8(j, x) = IF IsWide(r)
                             THEN IF x = t - 1 THEN v % 256
                                  ELSE IF x = t - 2 THEN v \div 256 ELSE load8(k, x)
                             ELSE IF x = t - 1 THEN v % 256 ELSE load8(k, x)
    BY <2>5, <2>6, <2>7
  <2>10. Cell(j, sp - e, i) = v
    <3>1. IsWide(r) => Cell(j, sp - e, i) = 256 * (v \div 256) + (v % 256)
      <4>1. IsWide(r) => sp - e = t - 2 /\ sp - e + 1 = t - 1
        BY <1>1, <1>2, <2>6
      <4>2. IsWide(r) => load8(j, t - 2) = v \div 256 /\ load8(j, t - 1) = v % 256
        BY <2>6, <2>9
      <4>3. QED
        BY <1>3, <4>1, <4>2 DEF Cell
    <3>2. ~IsWide(r) => Cell(j, sp - e, i) = v % 256
      <4>1. ~IsWide(r) => sp - e = t - 1
        BY <1>1, <1>2, <2>6
      <4>2. QED
        BY <1>3, <2>9, <4>1 DEF Cell
    <3>3. 256 * (v \div 256) + (v % 256) = v /\ (~IsWide(r) => v % 256 = v)
      BY <1>4, <2>3, ByteRange
    <3>4. QED
      BY <3>1, <3>2, <3>3
  <2>11. \A a \in Int : a >= sp - d => load8(j, a) = load8(k, a)
    BY <1>1, <1>2, <2>6, <2>9
  <2>12. \A a \in Int : a < sp - e => load8(j, a) = load8(k, a)
    BY <1>1, <1>2, <2>6, <2>9
  <2>13. ASSUME NEW x \in 1 .. i, Pushed(mask, x)
         PROVE  Cell(j, sp - Depth(mask, x), x) = getReg(n, Registers(s)[x])
    <3>1. CASE x = i
      BY <1>4, <2>10, <3>1 DEF e, r
    <3>2. CASE x # i
      <4>1. x \in 1 .. i - 1 /\ x \in 0 .. 8 /\ i - 1 \in 0 .. 8 /\ x <= i - 1
        BY <3>2
      <4>2. Depth(mask, x) <= d /\ Depth(mask, x) \in Int
        BY <4>1, DepthSteps DEF d
      <4> DEFINE a == sp - Depth(mask, x)
      <4>3. a \in Int /\ a + 1 \in Int /\ a >= sp - d /\ a + 1 >= sp - d
        BY <1>1, <4>2
      <4> HIDE DEF a
      <4>4. load8(j, a) = load8(k, a) /\ load8(j, a + 1) = load8(k, a + 1)
        BY <2>11, <4>3
      <4>5. Cell(j, a, x) = Cell(k, a, x)
        BY <4>4 DEF Cell
      <4>6. QED
        BY <1>6, <2>13, <4>1, <4>5 DEF a
    <3>3. QED
      BY <3>1, <3>2
  <2>14. \A a \in Int : a < sp - e \/ a >= sp => load8(j, a) = load8(n, a)
    <3>1. \A a \in Int : a < sp - e => a < sp - d
      BY <1>1, <2>6
    <3>2. \A a \in Int : a >= sp => a >= sp - d
      BY <1>1
    <3>3. QED
      BY <1>7, <2>11, <2>12, <3>1, <3>2
  <2>15. \A x \in 1 .. i : Pushed(mask, x) =>
              Cell(j, sp - Depth(mask, x), x) = getReg(n, Registers(s)[x])
    BY <2>13
  <2>16. IsPushed(n, j, s, mask, i)
    BY <1>5, <2>8, <2>14, <2>15 DEF IsPushed, sp, e
  <2>17. QED
    BY <2>16 DEF j
<1>10. QED
  BY <1>8, <1>9 DEF j

(* Pushing all of them *)
LEMMA PushAllHolds ==
    ASSUME NEW n, IsMachine(n), NEW s \in Stacks, NEW mask, n[s] >= Depth(mask, 8)
    PROVE  IsPushed(n, PushAll(n, s, mask), s, mask, 8)
<1> DEFINE On(x, i) == PushIf(x, s, mask, i)
           Done(k, i) == IsPushed(n, k, s, mask, i)
           w == PushWords(n, s, mask)
           b == PushBytes(w, s, mask)
<1>1. \A k : \A i \in 1 .. 8 : Done(k, i - 1) => Done(On(k, i), i)
  BY PushIfHolds
<1>2. Done(n, 0)
  <2>1. Depth(mask, 0) = 0 /\ n[s] \in Int
    BY DepthSteps, StackPointer
  <2>2. n[s] - 0 = n[s]
    BY <2>1
  <2>3. \A j \in 1 .. 0 : FALSE
    OBVIOUS
  <2>4. Leads(n, n, {"ram", s})
    BY DEF Leads
  <2>5. QED
    BY <2>1, <2>2, <2>3, <2>4 DEF IsPushed
<1>3. w = On(On(On(On(n, 1), 2), 3), 4) /\ b = On(On(On(On(w, 5), 6), 7), 8)
  BY DEF PushWords, PushBytes
<1> HIDE DEF On, Done, w, b
<1>4. Done(On(n, 1), 1)
  BY <1>1, <1>2
<1>5. Done(On(On(n, 1), 2), 2)
  BY <1>1, <1>4
<1>6. Done(On(On(On(n, 1), 2), 3), 3)
  BY <1>1, <1>5
<1>7. Done(w, 4)
  BY <1>1, <1>3, <1>6
<1>8. Done(On(w, 5), 5)
  BY <1>1, <1>7
<1>9. Done(On(On(w, 5), 6), 6)
  BY <1>1, <1>8
<1>10. Done(On(On(On(w, 5), 6), 7), 7)
  BY <1>1, <1>9
<1>11. Done(b, 8)
  BY <1>1, <1>3, <1>10
<1>12. QED
  BY <1>11 DEF Done, b, w, PushAll

(* k differs from n in the bytes A at most. *)
Alters(n, k, A) == \A a : load8(k, a) # load8(n, a) => a \in A

LEMMA AltersOn == ASSUME NEW n, NEW k, NEW j, NEW A, NEW B, Alters(n, k, A), Alters(k, j, B), A \subseteq B
    PROVE  Alters(n, j, B)
BY DEF Alters

LEMMA AltersNothing == ASSUME NEW n, NEW k, n.ram = k.ram, NEW A PROVE Alters(n, k, A)
BY LoadsAlike DEF Alters

(* The c bytes below an address, round the end of memory *)
Under(a, c) == {Wrap(a - i) : i \in 1 .. c}

LEMMA UnderGrows == ASSUME NEW a \in Int, NEW c \in Int, NEW e \in Int, c <= e
    PROVE  Under(a, c) \subseteq Under(a, e)
<1>1. \A i \in 1 .. c : i \in 1 .. e
  OBVIOUS
<1>2. QED
  BY <1>1 DEF Under

(* k is what is left of n when i registers of the mask have been pushed on *)
(* s, whether or not the stack passed 0.                                   *)
IsPushedUnder(n, k, s, mask, i) ==
    /\ IsMachine(k) /\ k[s] = Wrap(n[s] - Depth(mask, i))
    /\ Alters(n, k, Under(n[s], Depth(mask, i)))

LEMMA WrapTwice == ASSUME NEW a \in Int, NEW b \in Int, NEW c \in Int PROVE Wrap(Wrap(a - b) - c) = Wrap(a - (b + c))
<1> DEFINE x == a - b
           y == 0 - c
           z == Wrap(x)
<1>1. x \in Int /\ y \in Int /\ x + y = a - (b + c)
  OBVIOUS
<1>2. z \in Int
  BY <1>1, WrapType, WordsOfBytes
<1> HIDE DEF z
<1>3. z + y = z - c
  BY <1>2
<1> HIDE DEF x, y
<1>4. Wrap(Wrap(x) + y) = Wrap(x + y)
  BY <1>1, WrapOfSum
<1>5. QED
  BY <1>1, <1>3, <1>4 DEF z, x

LEMMA PushIfUnder ==
    ASSUME NEW n, IsMachine(n), NEW s \in Stacks, NEW mask, NEW i \in 1 .. 8, NEW k,
           IsPushedUnder(n, k, s, mask, i - 1)
    PROVE  IsPushedUnder(n, PushIf(k, s, mask, i), s, mask, i)
<1> DEFINE r == Registers(s)[i]
           v == getReg(k, r)
           c == Size(mask, i)
           d == Depth(mask, i - 1)
           sp == n[s]
           t == k[s]
           j == PushIf(k, s, mask, i)
<1>1. IsMachine(k) /\ t = Wrap(sp - d) /\ Alters(n, k, Under(sp, d))
  BY DEF IsPushedUnder
<1>2. v \in Word /\ v \in Int /\ (i <= 4 <=> IsWide(r))
  BY <1>1, getRegType, WordsOfBytes, RegistersApart
<1>3. IsMachine(j)
  BY <1>1, PushIfType DEF Leads
<1>4. d \in Int /\ 0 <= d /\ c \in Int /\ 0 <= c /\ Depth(mask, i) = d + c
  <2>1. i - 1 \in 0 .. 8
    OBVIOUS
  <2>2. QED
    BY <2>1, DepthSteps
<1>5. sp \in Int /\ t \in Int /\ Wrap(t) = t
  <2> HIDE DEF sp, t, v, r, c, d, j
  <2>1. sp \in Int /\ t \in Int /\ 0 <= t /\ t < 65536
    BY <1>1, StackPointer DEF sp, t
  <2>2. QED
    BY <2>1, WrapBetween
<1>6. j = IF ~Pushed(mask, i) THEN k ELSE IF IsWide(r) THEN Push16(k, s, v) ELSE Push8(k, s, v)
  BY DEF PushIf, Pushed
<1>7. c = IF ~Pushed(mask, i) THEN 0 ELSE IF i <= 4 THEN 2 ELSE 1
  BY DEF Size
<1>8. /\ Push8(k, s, v)[s] = Wrap(t - 1) /\ Push16(k, s, v)[s] = Wrap(t - 2)
      /\ Alters(k, Push8(k, s, v), {Wrap(t - 1)})
      /\ Alters(k, Push16(k, s, v), {Wrap(t - 1), Wrap(t - 2)})
  <2>1. Push8(k, s, v)[s] = Wrap(t - 1) /\ Push16(k, s, v)[s] = Wrap(t - 2)
    BY <1>1, <1>2, PushType
  <2>2. Alters(k, Push8(k, s, v), {Wrap(t - 1)})
    BY <1>1, Push8Reads DEF Alters
  <2>3. Alters(k, Push16(k, s, v), {Wrap(t - 1), Wrap(t - 2)})
    BY <1>1, <1>2, Push16Reads DEF Alters
  <2>4. QED
    BY <2>1, <2>2, <2>3
<1> HIDE DEF r, v, c, d, sp, t, j
<1>9. j[s] = Wrap(t - c)
  BY <1>2, <1>5, <1>6, <1>7, <1>8 DEF t
<1>10. Wrap(t - 1) = Wrap(sp - (d + 1)) /\ Wrap(t - 2) = Wrap(sp - (d + 2)) /\ Wrap(t - c) = Wrap(sp - (d + c))
  <2>1. \A x \in Int : Wrap(Wrap(sp - d) - x) = Wrap(sp - (d + x))
    BY <1>4, <1>5, WrapTwice
  <2>2. 1 \in Int /\ 2 \in Int
    OBVIOUS
  <2>3. QED
    BY <1>1, <1>4, <2>1, <2>2
<1>11. Under(sp, d) \subseteq Under(sp, d + c)
  BY <1>4, <1>5, UnderGrows
<1>12. Alters(k, j, Under(sp, d + c))
  <2>1. CASE ~Pushed(mask, i)
    BY <1>6, <2>1, AltersNothing
  <2>2. CASE Pushed(mask, i) /\ IsWide(r)
    <3>1. c = 2 /\ d + 1 \in 1 .. d + c /\ d + 2 \in 1 .. d + c
      BY <1>2, <1>4, <1>7, <2>2
    <3>2. {Wrap(t - 1), Wrap(t - 2)} \subseteq Under(sp, d + c)
      BY <1>10, <3>1 DEF Under
    <3>3. QED
      BY <1>6, <1>8, <2>2, <3>2 DEF Alters
  <2>3. CASE Pushed(mask, i) /\ ~IsWide(r)
    <3>1. c = 1 /\ d + 1 \in 1 .. d + c
      BY <1>2, <1>4, <1>7, <2>3
    <3>2. {Wrap(t - 1)} \subseteq Under(sp, d + c)
      BY <1>10, <3>1 DEF Under
    <3>3. QED
      BY <1>6, <1>8, <2>3, <3>2 DEF Alters
  <2>4. QED
    BY <2>1, <2>2, <2>3
<1>13. Alters(n, j, Under(sp, d + c))
  BY <1>1, <1>11, <1>12, AltersOn
<1>14. QED
  BY <1>3, <1>4, <1>9, <1>10, <1>13 DEF IsPushedUnder, j, sp

LEMMA PushAllUnder == ASSUME NEW n, IsMachine(n), NEW s \in Stacks, NEW mask
    PROVE  IsPushedUnder(n, PushAll(n, s, mask), s, mask, 8)
<1> DEFINE On(x, i) == PushIf(x, s, mask, i)
           Done(k, i) == IsPushedUnder(n, k, s, mask, i)
           w == PushWords(n, s, mask)
           b == PushBytes(w, s, mask)
<1>1. \A k : \A i \in 1 .. 8 : Done(k, i - 1) => Done(On(k, i), i)
  BY PushIfUnder
<1>2. Done(n, 0)
  <2> DEFINE sp == n[s]
  <2>1. sp \in Int /\ 0 <= sp /\ sp < 65536
    BY StackPointer
  <2>2. Depth(mask, 0) = 0
    BY DepthSteps
  <2>3. Alters(n, n, Under(sp, 0))
    BY AltersNothing
  <2> HIDE DEF sp
  <2>4. sp - 0 = sp /\ Wrap(sp) = sp
    BY <2>1, WrapBetween
  <2>5. QED
    BY <2>2, <2>3, <2>4 DEF IsPushedUnder, sp
<1>3. w = On(On(On(On(n, 1), 2), 3), 4) /\ b = On(On(On(On(w, 5), 6), 7), 8)
  BY DEF PushWords, PushBytes
<1> HIDE DEF On, Done, w, b
<1>4. Done(w, 4)
  <2>1. Done(On(n, 1), 1)
    BY <1>1, <1>2
  <2>2. Done(On(On(n, 1), 2), 2)
    BY <1>1, <2>1
  <2>3. Done(On(On(On(n, 1), 2), 3), 3)
    BY <1>1, <2>2
  <2>4. QED
    BY <1>1, <1>3, <2>3
<1>5. Done(b, 8)
  <2>1. Done(On(w, 5), 5)
    BY <1>1, <1>4
  <2>2. Done(On(On(w, 5), 6), 6)
    BY <1>1, <2>1
  <2>3. Done(On(On(On(w, 5), 6), 7), 7)
    BY <1>1, <2>2
  <2>4. QED
    BY <1>1, <1>3, <2>3
<1>6. QED
  BY <1>5 DEF Done, b, w, PushAll

(* A push that leaves the stack pointer below has not passed 0. *)
LEMMA PushAllWraps ==
    ASSUME NEW n, IsMachine(n), NEW s \in Stacks, NEW mask, PushAll(n, s, mask)[s] <= n[s]
    PROVE  n[s] >= Depth(mask, 8)
<1> DEFINE e == Depth(mask, 8)
           sp == n[s]
<1>1. 8 \in 0 .. 8
  OBVIOUS
<1>2. PushAll(n, s, mask)[s] = Wrap(sp - e)
  BY PushAllUnder DEF IsPushedUnder
<1>3. sp \in Int /\ 0 <= sp /\ sp < 65536
  BY StackPointer
<1>4. e \in Int /\ 0 <= e /\ e <= 12
  BY <1>1, DepthSteps
<1>5. Wrap(sp - e) <= sp
  BY <1>2
<1> HIDE DEF e, sp
<1>6. sp >= e
  BY <1>3, <1>4, <1>5 DEF Wrap
<1>7. QED
  BY <1>6 DEF sp, e
-----------------------------------------------------------------------------
(* What comes off the stacks *)

(* k is n with r popped off s. *)
PoppedInto(n, k, s, r) ==
    /\ IsMachine(k) /\ k.ram = n.ram
    /\ k[s] = Wrap(n[s] + (IF IsWide(r) THEN 2 ELSE 1))
    /\ getReg(k, r) = IF IsWide(r) THEN Top16(n, s) ELSE load8(n, n[s])
    /\ \A q \in StackRegs \ {r, s} : getReg(k, q) = getReg(n, q)
PopOne(n, s, r) == IF IsWide(r) THEN Pop16(n, s, r) ELSE Pop8(n, s, r)

LEMMA PopGives ==
    ASSUME NEW n, IsMachine(n), NEW s \in Stacks, NEW i \in 1 .. 8
    PROVE  PoppedInto(n, PopOne(n, s, Registers(s)[i]), s, Registers(s)[i])
<1> DEFINE r == Registers(s)[i]
           c == IF IsWide(r) THEN 2 ELSE 1
           v == IF IsWide(r) THEN Top16(n, s) ELSE load8(n, n[s])
           j == Drop(n, s, c)
           k == PopOne(n, s, r)
<1>1. r \in StackRegs /\ r # s /\ s \in StackRegs /\ s # "CC" /\ "cc" # s
  BY RegistersApart DEF Stacks, StackRegs
<1>2. k = setReg(j, r, v)
  BY DEF PopOne, Pop16, Pop8
<1>3. v \in Word /\ (r \notin WordRegs => v \in Byte)
  BY LoadType, WordOfBytes, WordsOfBytes DEF Top16, IsWide
<1>4. c \in Int
  OBVIOUS
<1> HIDE DEF r, v, k
<1>5. Leads(n, j, {s}) /\ j[s] = Wrap(n[s] + c)
  BY <1>4, DropType
<1> HIDE DEF c, j
<1>6. IsMachine(j)
  BY <1>5 DEF Leads
<1>7. getReg(k, r) = v /\ \A q \in StackRegs \ {r} : getReg(k, q) = getReg(j, q)
  BY <1>1, <1>2, <1>3, <1>6, setRegIs
<1>8. \A q \in StackRegs \ {r, s} : getReg(k, q) = getReg(n, q)
  <2>1. \A q \in StackRegs : q \notin {s} /\ "cc" \notin {s} => getReg(j, q) = getReg(n, q)
    BY <1>5, getRegAlike
  <2>2. QED
    BY <1>1, <1>7, <2>1
<1>9. k[s] = j[s]
  BY <1>1, <1>7, getRegIs
<1>10. IsMachine(k) /\ \A x \in Fields \ Written : k[x] = j[x]
  BY <1>2, <1>3, <1>6, setRegType, WordsOfBytes
<1>11. "ram" \in Fields \ Written /\ "ram" # s
  BY DEF Fields, Written, ByteRegs, WordRegs, Stacks
<1>12. k.ram = n.ram
  BY <1>5, <1>10, <1>11 DEF Leads
<1>13. IsMachine(k) /\ k.ram = n.ram /\ k[s] = Wrap(n[s] + c) /\ getReg(k, r) = v
       /\ \A q \in StackRegs \ {r, s} : getReg(k, q) = getReg(n, q)
  BY <1>5, <1>7, <1>8, <1>9, <1>10, <1>12
<1>14. QED
  BY <1>13 DEF PoppedInto, k, r, v, c

(* k is what is left of n when all but i registers of the mask have been   *)
(* popped off s, whose top is sp when all are.                             *)
IsPopped(n, k, s, mask, sp, i) ==
    /\ IsMachine(k) /\ k.ram = n.ram
    /\ k[s] = sp - Depth(mask, i)
    /\ \A j \in i + 1 .. 8 : Pushed(mask, j) =>
          getReg(k, Registers(s)[j]) = Cell(n, sp - Depth(mask, j), j)

(* Popping the next register *)
LEMMA PopIfHolds ==
    ASSUME NEW n, NEW s \in Stacks, NEW mask, NEW sp \in Int, sp < 65536, NEW i \in 1 .. 8,
           Depth(mask, 8) <= sp, NEW k, IsPopped(n, k, s, mask, sp, i)
    PROVE  IsPopped(n, PopIf(k, s, mask, i), s, mask, sp, i - 1)
<1> DEFINE r == Registers(s)[i]
           d == Depth(mask, i - 1)
           e == Depth(mask, i)
           j == PopIf(k, s, mask, i)
           t == k[s]
<1>1. /\ d \in Int /\ 0 <= d /\ e \in Int /\ e = d + Size(mask, i) /\ e <= sp
  <2>1. i - 1 \in 0 .. 8 /\ i \in 0 .. 8 /\ 8 \in 0 .. 8
    OBVIOUS
  <2>2. Depth(mask, i) <= Depth(mask, 8) /\ Depth(mask, 8) \in Int
    BY <2>1, DepthSteps
  <2>3. d \in Int /\ 0 <= d /\ e \in Int /\ e = d + Size(mask, i)
    BY <2>1, DepthSteps
  <2> HIDE DEF d, e
  <2>4. e <= Depth(mask, 8)
    BY <2>2 DEF e
  <2>5. QED
    BY <2>2, <2>3, <2>4
<1>2. IsMachine(k) /\ k.ram = n.ram /\ t = sp - e
  BY DEF IsPopped
<1>3. r \in StackRegs /\ r # s /\ (i <= 4 <=> IsWide(r))
      /\ \A x \in 1 .. 8 : x # i => Registers(s)[x] \in StackRegs \ {s, r}
  BY RegistersApart
<1>4. \A x \in i + 1 .. 8 : Pushed(mask, x) => getReg(k, Registers(s)[x]) = Cell(n, sp - Depth(mask, x), x)
  BY DEF IsPopped
<1>5. CASE ~Pushed(mask, i)
  <2>1. j = k /\ e = d
    BY <1>1, <1>5 DEF PopIf, Pushed, Size
  <2>2. \A x \in (i - 1) + 1 .. 8 : Pushed(mask, x) => x \in i + 1 .. 8
    BY <1>5
  <2> HIDE DEF j, d, e
  <2>3. j[s] = sp - d
    BY <1>2, <2>1
  <2>4. \A x \in (i - 1) + 1 .. 8 : Pushed(mask, x) => getReg(j, Registers(s)[x]) = Cell(n, sp - Depth(mask, x), x)
    BY <1>4, <2>1, <2>2
  <2>5. QED
    BY <1>2, <2>1, <2>3, <2>4 DEF IsPopped, j, d
<1>6. CASE Pushed(mask, i)
  <2>1. j = IF IsWide(r) THEN Pop16(k, s, r) ELSE Pop8(k, s, r)
    BY <1>6 DEF PopIf, Pushed
  <2>2. Size(mask, i) = IF i <= 4 THEN 2 ELSE 1
    BY <1>6 DEF Size
  <2>3. /\ IsMachine(j) /\ j.ram = k.ram
        /\ j[s] = Wrap(t + (IF IsWide(r) THEN 2 ELSE 1))
        /\ getReg(j, r) = IF IsWide(r) THEN Top16(k, s) ELSE load8(k, t)
        /\ \A q \in StackRegs \ {r, s} : getReg(j, q) = getReg(k, q)
    <3>1. PoppedInto(k, PopOne(k, s, r), s, r)
      BY <1>2, PopGives
    <3>2. j = PopOne(k, s, r)
      BY <2>1 DEF PopOne
    <3> HIDE DEF j, d, e, r
    <3>3. QED
      BY <3>1, <3>2 DEF PoppedInto
  <2>4. \A x : load8(k, x) = load8(n, x)
    BY <1>2, LoadsAlike
  <2>5. Top16(k, s) = 256 * load8(k, t) + load8(k, Wrap(t + 1))
    BY DEF Top16
  <2> HIDE DEF j, d, e, t, r
  <2>6. t \in Int /\ 0 <= t /\ (IF IsWide(r) THEN t + 2 ELSE t + 1) = sp - d /\ sp - d < 65536
    BY <1>1, <1>2, <1>3, <2>2
  <2>7. Wrap(t + 1) = t + 1 /\ (IsWide(r) => Wrap(t + 2) = t + 2)
    BY <2>6, WrapBetween
  <2>8. j[s] = sp - d
    BY <2>3, <2>6, <2>7
  <2>9. getReg(j, r) = Cell(n, sp - e, i)
    BY <1>2, <1>3, <2>3, <2>4, <2>5, <2>7 DEF Cell
  <2>10. ASSUME NEW x \in (i - 1) + 1 .. 8, Pushed(mask, x)
         PROVE  getReg(j, Registers(s)[x]) = Cell(n, sp - Depth(mask, x), x)
    <3>1. CASE x = i
      BY <2>9, <3>1 DEF e, r
    <3>2. CASE x # i
      <4>1. x \in i + 1 .. 8 /\ x \in 1 .. 8
        BY <3>2
      <4>2. Registers(s)[x] \in StackRegs \ {s, r}
        BY <1>3, <3>2, <4>1
      <4>3. QED
        BY <1>4, <2>3, <2>10, <4>1, <4>2
    <3>3. QED
      BY <3>1, <3>2
  <2>11. QED
    BY <1>2, <2>3, <2>8, <2>10 DEF IsPopped, j, d
<1>7. QED
  BY <1>5, <1>6

(* Popping all of them *)
LEMMA PopAllGives ==
    ASSUME NEW n, IsMachine(n), NEW s \in Stacks, NEW mask, NEW sp \in Int, sp < 65536,
           Depth(mask, 8) <= sp, n[s] = sp - Depth(mask, 8)
    PROVE  /\ PopAll(n, s, mask)[s] = sp
           /\ \A j \in 1 .. 8 : Pushed(mask, j) =>
                 getReg(PopAll(n, s, mask), Registers(s)[j]) = Cell(n, sp - Depth(mask, j), j)
<1> DEFINE Off(x, i) == PopIf(x, s, mask, i)
           Done(k, i) == IsPopped(n, k, s, mask, sp, i)
           b == PopBytes(n, s, mask)
           w == PopWords(b, s, mask)
<1>1. \A k : \A i \in 1 .. 8 : Done(k, i) => Done(Off(k, i), i - 1)
  BY PopIfHolds
<1>2. Done(n, 8)
  <2>1. \A j \in 8 + 1 .. 8 : FALSE
    OBVIOUS
  <2>2. QED
    BY <2>1 DEF IsPopped
<1>3. b = Off(Off(Off(Off(n, 8), 7), 6), 5) /\ w = Off(Off(Off(Off(b, 4), 3), 2), 1)
  BY DEF PopWords, PopBytes
<1> HIDE DEF Off, Done, w, b
<1>4. Done(Off(n, 8), 7)
  BY <1>1, <1>2
<1>5. Done(Off(Off(n, 8), 7), 6)
  BY <1>1, <1>4
<1>6. Done(Off(Off(Off(n, 8), 7), 6), 5)
  BY <1>1, <1>5
<1>7. Done(b, 4)
  BY <1>1, <1>3, <1>6
<1>8. Done(Off(b, 4), 3)
  BY <1>1, <1>7
<1>9. Done(Off(Off(b, 4), 3), 2)
  BY <1>1, <1>8
<1>10. Done(Off(Off(Off(b, 4), 3), 2), 1)
  BY <1>1, <1>9
<1>11. Done(w, 0)
  BY <1>1, <1>3, <1>10
<1>12. Depth(mask, 0) = 0 /\ sp - 0 = sp /\ 0 + 1 = 1
  BY DepthSteps
<1>13. QED
  BY <1>11, <1>12 DEF Done, b, w, PopAll, IsPopped
-----------------------------------------------------------------------------
(* The steps *)

(* What was pushed still lies where it was pushed. *)
FrameHolds(f) ==
    /\ f.mask \in Nat /\ f.sp - f.at = Depth(f.mask, 8)
    /\ DOMAIN f.regs = RegistersIn(f.s, f.mask)
    /\ \A i \in 1 .. 8 : Pushed(f.mask, i) =>
          Cell(m, f.sp - Depth(f.mask, i), i) = f.regs[Registers(f.s)[i]]

(* The inductive invariant: every field of the machine is there and of its *)
(* type, so are the frames, and memory holds what was pushed.              *)
CpuInv == IsMachine(m) /\ \A f \in frames : FrameTypeOK(f) /\ FrameHolds(f)

LEMMA CountBitsType == ASSUME NEW mask PROVE CountBits(mask) \in Nat
<1> DEFINE W == {w \in {1, 2, 4, 8, 16, 32, 64, 128} : Bit(mask, w) = 1}
<1>1. PICK top \in Int : top = 128
  OBVIOUS
<1>2. W \subseteq 1 .. top
  BY <1>1
<1>3. IsFiniteSet(1 .. top)
  BY FS_Interval
<1> HIDE DEF W
<1>4. IsFiniteSet(W)
  BY <1>2, <1>3, FS_Subset
<1>5. QED
  BY <1>4, FS_CardinalityType DEF CountBits, W

LEMMA DecodedType == ASSUME CpuInv PROVE IsDecoded(m, Decoded) /\ Decoded.o.op = NextOp
<1>1. IsDecoded(m, Decoded)
  BY LoadedType DEF CpuInv, Decoded
<1>2. QED
  BY <1>1 DEF IsDecoded, NextOp

LEMMA BitsAre == ASSUME NEW mask \in Nat, NEW i \in 1 .. 8
    PROVE  Bit(mask, Bits[i]) \in 0 .. 1
<1>1. i = 1 \/ i = 2 \/ i = 3 \/ i = 4 \/ i = 5 \/ i = 6 \/ i = 7 \/ i = 8
  OBVIOUS
<1>2. Bits[i] \in Nat \ {0}
  BY <1>1 DEF Bits
<1>3. mask \in Int
  OBVIOUS
<1>4. QED
  BY <1>2, <1>3, BitType

(* The registers pushed are those a frame has. *)
LEMMA PushedIn == ASSUME NEW mask \in Nat, NEW s \in Stacks
    PROVE  /\ \A i \in 1 .. 8 : Pushed(mask, i) => Registers(s)[i] \in RegistersIn(s, mask)
           /\ \A r \in RegistersIn(s, mask) : \E i \in 1 .. 8 : Pushed(mask, i) /\ r = Registers(s)[i]
<1>1. \A i \in 1 .. 8 : Pushed(mask, i) <=> Bit(mask, Bits[i]) = 1
  BY BitsAre DEF Pushed
<1>2. QED
  BY <1>1 DEF RegistersIn

(* A frame whose bytes did not change holds what was pushed. *)
LEMMA FrameStays ==
    ASSUME CpuInv, NEW g \in frames, NEW n,
           \A a \in Int : g.at <= a /\ a < g.sp => load8(n, a) = load8(m, a)
    PROVE  \A i \in 1 .. 8 : Pushed(g.mask, i) =>
              Cell(n, g.sp - Depth(g.mask, i), i) = g.regs[Registers(g.s)[i]]
<1> SUFFICES ASSUME NEW i \in 1 .. 8, Pushed(g.mask, i)
             PROVE  Cell(n, g.sp - Depth(g.mask, i), i) = g.regs[Registers(g.s)[i]]
  OBVIOUS
<1> DEFINE sp == g.sp
           at == g.at
           d == Depth(g.mask, i)
           e == Depth(g.mask, i - 1)
           a == sp - d
<1>1. Cell(m, a, i) = g.regs[Registers(g.s)[i]] /\ sp - at = Depth(g.mask, 8)
      /\ sp \in Int /\ at \in Int
  BY WordsOfBytes DEF CpuInv, FrameHolds, FrameTypeOK
<1>2. /\ d \in Int /\ e \in Int /\ 0 <= e /\ d = e + Size(g.mask, i) /\ d <= Depth(g.mask, 8)
      /\ Depth(g.mask, 8) \in Int
  <2>1. i - 1 \in 0 .. 8 /\ i \in 0 .. 8 /\ 8 \in 0 .. 8
    OBVIOUS
  <2>2. QED
    BY <2>1, DepthSteps
<1>3. Size(g.mask, i) = IF i <= 4 THEN 2 ELSE 1
  BY DEF Size
<1> HIDE DEF d, e, sp, at
<1>4. a \in Int /\ at <= a /\ a < sp /\ (i <= 4 => a + 1 \in Int /\ at <= a + 1 /\ a + 1 < sp)
  BY <1>1, <1>2, <1>3
<1> HIDE DEF a
<1>5. load8(n, a) = load8(m, a) /\ (i <= 4 => load8(n, a + 1) = load8(m, a + 1))
  BY <1>4 DEF at, sp
<1>6. Cell(n, a, i) = Cell(m, a, i)
  BY <1>5 DEF Cell
<1>7. QED
  BY <1>1, <1>6 DEF a, sp, d

LEMMA Unchanged ==
    ASSUME NEW n, NEW g, g.at \in Int, g.sp \in Int, Cells(g) \cap Changed(n) = {}
    PROVE  \A a \in Int : g.at <= a /\ a < g.sp => load8(n, a) = load8(m, a)
<1> SUFFICES ASSUME NEW a \in Int, g.at <= a, a < g.sp PROVE load8(n, a) = load8(m, a)
  OBVIOUS
<1>1. a \in Cells(g)
  BY DEF Cells
<1>2. a \notin Changed(n)
  BY <1>1
<1>3. QED
  BY <1>2 DEF Changed, load8

LEMMA EndsType == ASSUME CpuInv, NEW n, IsMachine(n), Ends(n) PROVE CpuInv'
<1>1. m' = n /\ \A f \in frames' : f \in frames /\ f.at >= n[f.s] /\ Cells(f) \cap Changed(n) = {}
  BY DEF Ends, Kept
<1>2. \A f \in frames' : f.s \in Stacks /\ f.at \in Word /\ f.sp \in Word /\ f.at < f.sp
  BY <1>1 DEF CpuInv, FrameTypeOK, Stacks
<1>3. \A f \in frames' : n[f.s] \in Int /\ f.at \in Int /\ f.sp \in Int
  BY <1>2, RegisterTypes, WordsOfBytes DEF Stacks, WordRegs
<1>4. \A f \in frames' : m'[f.s] <= f.at
  BY <1>1, <1>3
<1>5. ASSUME NEW f \in frames' PROVE FrameHolds(f)'
  <2>1. \A a \in Int : f.at <= a /\ a < f.sp => load8(n, a) = load8(m, a)
    BY <1>1, <1>3, Unchanged
  <2>2. \A i \in 1 .. 8 : Pushed(f.mask, i) =>
            Cell(n, f.sp - Depth(f.mask, i), i) = f.regs[Registers(f.s)[i]]
    BY <1>1, <2>1, FrameStays
  <2>3. QED
    BY <1>1, <2>2 DEF FrameHolds, CpuInv
<1>6. QED
  BY <1>1, <1>2, <1>4, <1>5 DEF CpuInv, FrameTypeOK, Stacks

(* What a push concerns *)
StackFields == Stacks \cup {"ram"}

(* A step that pushes leaves the stack pointers where the push did. *)
LEMMA PushesType ==
    ASSUME CpuInv, NEW f, IsDecoded(m, f), f.o.op \in Controls, NEW s \in Stacks, NEW mask \in Nat,
           NEW n, IsMachine(n), n.ram = m.ram, NEW after, IsMachine(after),
           \A x \in StackFields : after[x] = PushAll(n, s, mask)[x], Pushes(f, s, mask, n, after)
    PROVE  CpuInv'
<1> DEFINE pushed == PushAll(n, s, mask)
           new == NewFrames(s, mask, n, pushed[s])
<1>1. IsMachine(pushed)
  BY PushAllType DEF Leads
<1>2. m' = Finished(f, after) /\ frames' = KeptByPush(pushed, s, n[s]) \cup new
  BY DEF Pushes
<1>3. IsMachine(m') /\ m'.ram = pushed.ram /\ \A x \in Stacks : m'[x] = pushed[x]
  <2>1. IsMachine(m') /\ \A x \in Fields \ {"prev"} : m'[x] = after[x]
    BY <1>2, FinishedType
  <2>2. StackFields \subseteq Fields \ {"prev"} /\ Stacks \subseteq StackFields /\ "ram" \in StackFields
    BY DEF Stacks, Fields, StackFields
  <2>3. QED
    BY <2>1, <2>2
<1>4. \A x \in Stacks : pushed[x] \in Word /\ n[x] \in Word
  BY <1>1, RegisterTypes DEF Stacks, WordRegs
<1>5. pushed[s] <= n[s] =>
         /\ pushed[s] = n[s] - Depth(mask, 8)
         /\ \A j \in 1 .. 8 : Pushed(mask, j) =>
               Cell(pushed, n[s] - Depth(mask, j), j) = getReg(n, Registers(s)[j])
         /\ \A a \in Int : a >= n[s] => load8(pushed, a) = load8(m, a)
  <2> SUFFICES ASSUME pushed[s] <= n[s]
               PROVE  /\ pushed[s] = n[s] - Depth(mask, 8)
                      /\ \A j \in 1 .. 8 : Pushed(mask, j) =>
                            Cell(pushed, n[s] - Depth(mask, j), j) = getReg(n, Registers(s)[j])
                      /\ \A a \in Int : a >= n[s] => load8(pushed, a) = load8(m, a)
    OBVIOUS
  <2>1. n[s] >= Depth(mask, 8)
    BY PushAllWraps
  <2>2. IsPushed(n, pushed, s, mask, 8)
    BY <2>1, PushAllHolds
  <2>3. \A a : load8(n, a) = load8(m, a)
    BY LoadsAlike
  <2> HIDE DEF pushed
  <2>4. QED
    BY <2>2, <2>3 DEF IsPushed
<1> HIDE DEF pushed
<1>6. \A a : load8(m', a) = load8(pushed, a)
  BY <1>3, LoadsAlike
<1>7. \A a, i : Cell(m', a, i) = Cell(pushed, a, i)
  BY <1>6 DEF Cell
<1>8. ASSUME NEW g \in new PROVE FrameTypeOK(g)' /\ FrameHolds(g)'
  <2>1. g = Frame(s, mask, n, pushed[s]) /\ pushed[s] < n[s]
    BY <1>8 DEF NewFrames
  <2>2. /\ g.s = s /\ g.at = pushed[s] /\ g.sp = n[s] /\ g.mask = mask
        /\ g.regs = [r \in RegistersIn(s, mask) |-> getReg(n, r)]
    BY <2>1 DEF Frame
  <2>3. pushed[s] <= pushed[s] /\ pushed[s] <= n[s] /\ n[s] \in Int /\ pushed[s] \in Int
    BY <1>4, <2>1, WordsOfBytes
  <2>4. FrameTypeOK(g)'
    BY <1>3, <1>4, <2>1, <2>2, <2>3 DEF FrameTypeOK, Stacks
  <2>5. \A j \in 1 .. 8 : Pushed(mask, j) =>
            Cell(m', n[s] - Depth(mask, j), j) = g.regs[Registers(s)[j]]
    BY <1>5, <1>7, <2>2, <2>3, PushedIn
  <2>6. n[s] - pushed[s] = Depth(mask, 8)
    <3>1. Depth(mask, 8) \in Int
      BY DepthSteps
    <3>2. pushed[s] = n[s] - Depth(mask, 8)
      BY <1>5, <2>3
    <3> DEFINE x == pushed[s]
               y == n[s]
               d == Depth(mask, 8)
    <3> HIDE DEF x, y, d
    <3>3. x \in Int /\ y \in Int /\ d \in Int /\ x = y - d => y - x = d
      OBVIOUS
    <3>4. QED
      BY <2>3, <3>1, <3>2, <3>3 DEF x, y, d
  <2>7. QED
    BY <2>2, <2>4, <2>5, <2>6 DEF FrameHolds
<1>9. ASSUME NEW g \in KeptByPush(pushed, s, n[s])
      PROVE  FrameTypeOK(g)' /\ FrameHolds(g)'
  <2>1. g \in frames /\ \/ g.at >= pushed[g.s] /\ Cells(g) \cap Changed(pushed) = {}
                        \/ g.s = s /\ pushed[s] <= n[s] /\ n[s] <= g.at
    BY <1>9 DEF KeptByPush, Kept
  <2>2. g.s \in Stacks /\ g.at \in Int /\ g.sp \in Int /\ pushed[g.s] \in Int /\ n[s] \in Int
    BY <1>4, <2>1, WordsOfBytes DEF CpuInv, FrameTypeOK, Stacks
  <2>3. pushed[g.s] <= g.at
    BY <2>1, <2>2
  <2>4. \A a \in Int : g.at <= a /\ a < g.sp => load8(m', a) = load8(m, a)
    <3>1. CASE Cells(g) \cap Changed(pushed) = {}
      BY <1>6, <2>2, <3>1, Unchanged
    <3>2. CASE g.s = s /\ pushed[s] <= n[s] /\ n[s] <= g.at
      <4>1. \A a \in Int : g.at <= a => a >= n[s]
        BY <2>2, <3>2
      <4>2. QED
        BY <1>5, <1>6, <3>2, <4>1
    <3>3. QED
      BY <2>1, <3>1, <3>2
  <2>5. \A i \in 1 .. 8 : Pushed(g.mask, i) =>
            Cell(m', g.sp - Depth(g.mask, i), i) = g.regs[Registers(g.s)[i]]
    BY <2>1, <2>4, FrameStays
  <2>6. FrameTypeOK(g)'
    BY <1>3, <2>1, <2>2, <2>3 DEF FrameTypeOK, CpuInv, Stacks
  <2>7. QED
    BY <2>1, <2>5, <2>6 DEF FrameHolds, CpuInv
<1>10. QED
  BY <1>2, <1>3, <1>8, <1>9 DEF CpuInv

(* The instruction pushes registers, on PushStack. *)
PushStack == IF NextOp = "PSH" THEN Decoded.o.reg ELSE "S"
IsPush ==
    /\ NextOp \in Pushers /\ PushStack \in Stacks
    /\ \E mask, n, after :
          /\ mask \in Nat /\ IsMachine(n) /\ n.ram = m.ram /\ n[PushStack] = Decoded.m[PushStack]
          /\ IsMachine(after)
          /\ \A x \in StackFields : after[x] = PushAll(n, PushStack, mask)[x]
          /\ Pushes(Decoded, PushStack, mask, n, after)

LEMMA PushIs ==
    ASSUME NextOp \in Pushers, NEW s \in Stacks, s = PushStack, NEW mask \in Nat,
           NEW n, IsMachine(n), n.ram = m.ram, n[s] = Decoded.m[s], NEW after, IsMachine(after),
           \A x \in StackFields : after[x] = PushAll(n, s, mask)[x], Pushes(Decoded, s, mask, n, after)
    PROVE  IsPush
BY DEF IsPush

(* The instruction works on registers, and leaves memory to its store. *)
IsOperation == \E k : IsMachine(k) /\ k.ram = m.ram /\ Ends(Finished(Decoded, k))

(* Changing a field that does not matter to the stacks *)
LEMMA FieldKeeps == ASSUME NEW n, IsMachine(n), NEW x \in Fields \ StackFields, NEW v, HasType(x, v)
    PROVE  IsMachine(With(n, x, v)) /\ \A s \in StackFields : With(n, x, v)[s] = n[s]
BY FieldSet DEF Stacks, StackFields, Fields

LEMMA DecodedKeeps == ASSUME CpuInv PROVE Decoded.m.ram = m.ram /\ "ram" \in StackFields
BY DecodedType DEF IsDecoded, Leads, FetchFields, Fields, StackFields

LEMMA InterruptPushes == ASSUME CpuInv, Interrupt PROVE IsPush
<1> DEFINE f == Decoded
           n == [f.m EXCEPT !.cc.E = 1]
           pushed == PushAll(n, "S", EntireMask)
           vector == load16(pushed, SwiVector(n.prev))
           after == [pushed EXCEPT !.cc.I = 1, !.cc.F = 1, !.PC = vector]
           cc == [f.m.cc EXCEPT !.E = 1]
           both == [pushed.cc EXCEPT !.I = 1, !.F = 1]
<1>1. IsDecoded(m, f) /\ f.o.op = "SWI" /\ IsMachine(f.m) /\ f.m.ram = m.ram /\ "ram" \in StackFields
  BY DecodedType, DecodedKeeps DEF Interrupt, IsDecoded, Leads
<1>2. Pushes(f, "S", EntireMask, n, after)
  BY DEF Interrupt
<1> HIDE DEF f
<1>3. n = With(f.m, "cc", cc)
  BY DEF With
<1>4. cc \in CC
  BY <1>1, RegisterTypes DEF CC
<1>5. "cc" \in Fields \ StackFields /\ "PC" \in Fields \ StackFields /\ "S" \in Stacks /\ "S" \in StackFields
  BY DEF Fields, Stacks, StackFields
<1>6. \A x \in CC : HasType("cc", x)
  BY DEF HasType, WordRegs, ByteRegs
<1>7. IsMachine(n) /\ n.ram = m.ram /\ n["S"] = f.m["S"]
  BY <1>1, <1>3, <1>4, <1>5, <1>6, FieldKeeps
<1> HIDE DEF n
<1>8. IsMachine(pushed)
  BY <1>5, <1>7, PushAllType DEF Leads
<1>9. vector \in Word
  BY <1>8, LoadType
<1>10. after = With(With(pushed, "cc", both), "PC", vector)
  BY DEF With
<1>11. both \in CC
  <2>1. pushed.cc \in CC
    BY <1>8, RegisterTypes
  <2>2. [pushed.cc EXCEPT !.I = 1] \in CC
    BY <2>1 DEF CC
  <2>3. QED
    BY <2>2 DEF CC
<1>12. HasType("PC", vector)
  BY <1>9 DEF HasType, WordRegs, ByteRegs
<1> HIDE DEF pushed, vector, both, after
<1> DEFINE k == With(pushed, "cc", both)
<1>13. IsMachine(k) /\ \A s \in StackFields : k[s] = pushed[s]
  BY <1>5, <1>6, <1>8, <1>11, FieldKeeps
<1> HIDE DEF k
<1>14. IsMachine(after) /\ \A s \in StackFields : after[s] = k[s]
  BY <1>5, <1>10, <1>12, <1>13, FieldKeeps DEF k
<1>15. NextOp \in Pushers /\ PushStack = "S" /\ EntireMask \in Nat
  BY <1>1, DecodedType DEF Pushers, PushStack, EntireMask, f
<1>16. QED
  BY <1>2, <1>5, <1>7, <1>13, <1>14, <1>15, PushIs DEF pushed, f

(* What CWAI makes of the flags of a machine k *)
WaitFlags(k) == [CcOf(BitXor(CcByte(k.cc), k.right % 256)) EXCEPT !.E = 1]

LEMMA WaitFlagsType == ASSUME NEW k, IsMachine(k) PROVE WaitFlags(k) \in CC
<1> DEFINE a == CcByte(k.cc)
           b == k.right % 256
           x == BitXor(a, b)
<1>1. a \in Word /\ k.right \in Int
  BY RegisterTypes, CcByteType, WordsOfBytes
<1>2. b \in Word
  BY <1>1, WrapType, WordsOfBytes
<1> HIDE DEF a, b
<1>3. x \in Int
  BY <1>1, <1>2, BitwiseTypes, ResultRange
<1> HIDE DEF x
<1>4. CcOf(x) \in CC
  BY <1>3, CcOfType
<1>5. WaitFlags(k) = [CcOf(x) EXCEPT !.E = 1]
  BY DEF WaitFlags, x, a, b
<1>6. QED
  BY <1>4, <1>5 DEF CC

LEMMA WaitPushes == ASSUME CpuInv, WaitForInterrupt PROVE IsPush
<1> DEFINE f == Decoded
           cc == WaitFlags(f.m)
           n == [f.m EXCEPT !.cc = cc]
           pushed == PushAll(n, "S", EntireMask)
<1>1. IsDecoded(m, f) /\ f.o.op = "CWAI" /\ IsMachine(f.m) /\ f.m.ram = m.ram /\ "ram" \in StackFields
  BY DecodedType, DecodedKeeps DEF WaitForInterrupt, IsDecoded, Leads
<1>2. Pushes(f, "S", EntireMask, n, pushed)
  BY DEF WaitForInterrupt, WaitFlags
<1> HIDE DEF f
<1>3. cc \in CC
  BY <1>1, WaitFlagsType
<1>4. n = With(f.m, "cc", cc)
  BY DEF With
<1> HIDE DEF cc
<1>5. "cc" \in Fields \ StackFields /\ "S" \in Stacks /\ "S" \in StackFields /\ HasType("cc", cc)
  BY <1>3 DEF Fields, Stacks, StackFields, HasType, WordRegs, ByteRegs
<1>6. IsMachine(n) /\ n.ram = m.ram /\ n["S"] = f.m["S"]
  BY <1>1, <1>4, <1>5, FieldKeeps
<1> HIDE DEF n
<1>7. IsMachine(pushed)
  BY <1>5, <1>6, PushAllType DEF Leads
<1>8. NextOp \in Pushers /\ PushStack = "S" /\ EntireMask \in Nat
  BY <1>1, DecodedType DEF Pushers, PushStack, EntireMask, f
<1>9. QED
  BY <1>2, <1>5, <1>6, <1>7, <1>8, PushIs DEF f

LEMMA PushingPushes == ASSUME CpuInv, Pushing PROVE IsPush
<1> DEFINE f == Decoded
           s == f.o.reg
           mask == f.m.right
           pushed == PushAll(f.m, s, mask)
           after == AddCy(pushed, CountBits(mask))
<1>1. IsDecoded(m, f) /\ f.o.op = "PSH" /\ IsMachine(f.m) /\ f.m.ram = m.ram
  BY DecodedType, DecodedKeeps DEF Pushing, IsDecoded, Leads
<1>2. Pushes(f, s, mask, f.m, after)
  BY DEF Pushing
<1>3. s \in Stacks /\ mask \in Nat
  BY <1>1, RegisterTypes, WordsOfBytes DEF IsDecoded, IsRow, Stackings, Stacks
<1> HIDE DEF f
<1>4. IsMachine(pushed)
  BY <1>1, <1>3, PushAllType DEF Leads
<1>5. CountBits(mask) \in Nat
  BY CountBitsType
<1> DEFINE c == CountBits(mask)
<1> HIDE DEF c, s, mask
<1>6. IsMachine(after) /\ \A x \in StackFields : after[x] = pushed[x]
  <2> HIDE DEF pushed
  <2>1. c \in Nat
    BY <1>5 DEF c
  <2>2. IsMachine(AddCy(pushed, c)) /\ \A x \in Fields \ {"cycles"} : AddCy(pushed, c)[x] = pushed[x]
    BY <1>4, <2>1, AddCyType
  <2>3. QED
    BY <2>2 DEF c, Stacks, StackFields, Fields
<1>7. NextOp \in Pushers /\ PushStack = s
  BY <1>1, DecodedType DEF Pushers, PushStack, s, f
<1>8. QED
  BY <1>1, <1>2, <1>3, <1>6, <1>7, PushIs DEF f

LEMMA CallingPushes == ASSUME CpuInv, BranchToSubroutine \/ JumpToSubroutine PROVE IsPush
<1> DEFINE f == Decoded
           pushed == PushAll(f.m, "S", 128)
           branched == Skip(pushed, f.m.right)
           jumped == [pushed EXCEPT !.PC = f.ea]
<1>1. IsDecoded(m, f) /\ f.o.op \in {"BSR", "JSR"} /\ IsMachine(f.m) /\ f.m.ram = m.ram
  BY DecodedType, DecodedKeeps DEF BranchToSubroutine, JumpToSubroutine, IsDecoded, Leads
<1>2. Pushes(f, "S", 128, f.m, branched) \/ Pushes(f, "S", 128, f.m, jumped)
  BY DEF BranchToSubroutine, JumpToSubroutine
<1>3. "S" \in Stacks /\ 128 \in Nat /\ f.m.right \in Int /\ f.ea \in Word
  BY <1>1, RegisterTypes, WordsOfBytes DEF IsDecoded, Stacks
<1> HIDE DEF f
<1>4. IsMachine(pushed)
  BY <1>1, <1>3, PushAllType DEF Leads
<1>5. jumped = With(pushed, "PC", f.ea)
  BY DEF With
<1> HIDE DEF pushed
<1>6. IsMachine(branched) /\ \A x \in StackFields : branched[x] = pushed[x]
  BY <1>3, <1>4, SkipType DEF Stacks, StackFields, Fields
<1>7. "PC" \in Fields \ StackFields /\ HasType("PC", f.ea)
  BY <1>3 DEF Fields, Stacks, StackFields, HasType, WordRegs, ByteRegs
<1>8. IsMachine(jumped) /\ \A x \in StackFields : jumped[x] = pushed[x]
  BY <1>4, <1>5, <1>7, FieldKeeps
<1> HIDE DEF branched, jumped
<1>9. NextOp \in Pushers /\ PushStack = "S"
  BY <1>1, DecodedType DEF Pushers, PushStack, f
<1>10. QED
  BY <1>1, <1>2, <1>3, <1>6, <1>8, <1>9, PushIs DEF pushed, f

LEMMA OperatingOperates == ASSUME CpuInv, CalculateOp \/ MoveOp \/ BranchOp PROVE IsOperation
<1> DEFINE f == Decoded
<1>1. IsDecoded(m, f) /\ f.o.op = NextOp /\ f.m.ram = m.ram
  BY DecodedType, DecodedKeeps
<1>2. "ram" \in Fields \ Operating /\ "ram" \in Fields \ {"PC"}
  BY DEF Fields, Operating, Written, ByteRegs, WordRegs
<1>3. PICK k : (Leads(f.m, k, Operating) \/ Leads(f.m, k, {"PC"})) /\ Ends(Finished(f, k))
  <2>1. CASE CalculateOp
    <3>1. Ends(Finished(f, Calculate(f))) /\ f.o.op \in Calculations
      BY <1>1, <2>1 DEF CalculateOp
    <3> HIDE DEF f
    <3>2. Leads(f.m, Calculate(f), Operating)
      BY <1>1, <3>1, CalculateType DEF Leads, Calm
    <3>3. QED
      BY <3>1, <3>2
  <2>2. CASE MoveOp
    <3>1. Ends(Finished(f, Move(f))) /\ f.o.op \in Moves
      BY <1>1, <2>2 DEF MoveOp
    <3> HIDE DEF f
    <3>2. QED
      BY <1>1, <3>1, MoveType
  <2>3. CASE BranchOp
    <3>1. Ends(Finished(f, BranchTo(f)))
      BY <2>3 DEF BranchOp
    <3> HIDE DEF f
    <3>2. QED
      BY <1>1, <3>1, BranchType
  <2>4. QED
    BY <2>1, <2>2, <2>3
<1> HIDE DEF f
<1>4. IsMachine(k) /\ k.ram = m.ram
  BY <1>1, <1>2, <1>3 DEF Leads
<1>5. QED
  BY <1>3, <1>4 DEF IsOperation, f

LEMMA PrefixEnds ==
    ASSUME CpuInv, PagePrefix \/ Illegal
    PROVE  \E n : IsMachine(n) /\ n.ram = m.ram /\ Ends(n)
<1> DEFINE f == Decoded
           k == AddCy(f.m, 1)
<1>1. IsDecoded(m, f) /\ f.o.op = NextOp /\ IsMachine(f.m) /\ f.m.ram = m.ram
  BY DecodedType, DecodedKeeps DEF IsDecoded, Leads
<1>2. IsMachine(k) /\ k.ram = m.ram
  BY <1>1, AddCyType DEF Fields
<1>3. "prev" \in Fields /\ "error" \in Fields /\ "ram" \in Fields /\ HasType("error", "Illegal")
  BY DEF Fields, HasType, WordRegs, ByteRegs
<1>4. CASE PagePrefix
  <2>1. Ends([k EXCEPT !.prev = f.o.op]) /\ f.o.op \in Pages
    BY <1>1, <1>4 DEF PagePrefix
  <2>2. [k EXCEPT !.prev = f.o.op] = With(k, "prev", f.o.op)
    BY DEF With
  <2> HIDE DEF f, k
  <2>3. HasType("prev", f.o.op)
    BY <2>1 DEF HasType, WordRegs, ByteRegs, Prev
  <2> DEFINE n == With(k, "prev", f.o.op)
  <2>4. IsMachine(n) /\ n.ram = m.ram
    BY <1>2, <1>3, <2>3, FieldSet
  <2>5. Ends(n)
    BY <2>1, <2>2
  <2> HIDE DEF n
  <2>6. QED
    BY <2>4, <2>5
<1>5. CASE Illegal
  <2>1. Ends([f.m EXCEPT !.error = "Illegal"])
    BY <1>5 DEF Illegal
  <2>2. [f.m EXCEPT !.error = "Illegal"] = With(f.m, "error", "Illegal")
    BY DEF With
  <2> HIDE DEF f
  <2> DEFINE n == With(f.m, "error", "Illegal")
  <2>3. IsMachine(n) /\ n.ram = m.ram
    BY <1>1, <1>3, FieldSet
  <2>4. Ends(n)
    BY <2>1, <2>2
  <2> HIDE DEF n
  <2>5. QED
    BY <2>3, <2>4
<1>6. QED
  BY <1>4, <1>5

LEMMA PullingOperates ==
    ASSUME CpuInv, Pulling \/ ReturnFromInterrupt \/ ReturnFromSubroutine
    PROVE  IsOperation
<1> DEFINE f == Decoded
           s == f.o.reg
           counted == AddCy(f.m, CountBits(f.m.right))
           all == IF f.m.cc.E = 1 THEN EntireMask ELSE 128
<1>1. IsDecoded(m, f) /\ f.o.op = NextOp /\ IsMachine(f.m) /\ f.m.ram = m.ram
  BY DecodedType, DecodedKeeps DEF IsDecoded, Leads
<1>2. \/ f.o.op = "PUL" /\ Ends(Finished(f, PopAll(counted, s, f.m.right)))
      \/ Ends(Finished(f, PopAll(f.m, "S", all)))
      \/ Ends(Finished(f, Pop16(f.m, "S", "PC")))
  BY <1>1 DEF Pulling, ReturnFromInterrupt, ReturnFromSubroutine
<1> HIDE DEF f
<1>3. "ram" \in Fields \ Written /\ "ram" # "cycles" /\ "S" \in Stacks
  BY DEF Fields, Written, ByteRegs, WordRegs, Stacks
<1>4. IsMachine(counted) /\ counted.ram = m.ram
  BY <1>1, <1>3, CountBitsType, AddCyType
<1> HIDE DEF counted, all
<1>5. f.o.op = "PUL" => s \in Stacks
  BY <1>1 DEF IsDecoded, IsRow, Stackings, Stacks
<1>6. /\ f.o.op = "PUL" => Leads(counted, PopAll(counted, s, f.m.right), Written)
      /\ Leads(f.m, PopAll(f.m, "S", all), Written)
      /\ Leads(f.m, Pop16(f.m, "S", "PC"), Written)
  BY <1>1, <1>3, <1>4, <1>5, PopAllType, PopType
<1>7. PICK k : (Leads(counted, k, Written) \/ Leads(f.m, k, Written)) /\ Ends(Finished(f, k))
  BY <1>2, <1>6
<1>8. IsMachine(k) /\ k.ram = m.ram
  BY <1>1, <1>3, <1>4, <1>7 DEF Leads
<1>9. QED
  BY <1>7, <1>8 DEF IsOperation, f

LEMMA JumpOperates == ASSUME CpuInv, Jump PROVE IsOperation
<1> DEFINE f == Decoded
           k == With(f.m, "PC", f.ea)
<1>1. IsDecoded(m, f) /\ IsMachine(f.m) /\ f.ea \in Word /\ f.m.ram = m.ram
  BY DecodedType, DecodedKeeps DEF IsDecoded, Leads
<1>2. Ends(Finished(f, [f.m EXCEPT !.PC = f.ea])) /\ k = [f.m EXCEPT !.PC = f.ea]
  BY DEF Jump, With
<1> HIDE DEF f
<1>3. "PC" \in Fields /\ "ram" \in Fields /\ HasType("PC", f.ea)
  BY <1>1 DEF Fields, HasType, ByteRegs, WordRegs
<1>4. IsMachine(k) /\ k.ram = m.ram
  BY <1>1, <1>3, FieldSet
<1>5. Ends(Finished(f, k))
  BY <1>2
<1> HIDE DEF k
<1>6. QED
  BY <1>4, <1>5 DEF IsOperation, f

LEMMA SystemCallEnds == ASSUME CpuInv, SystemCall PROVE \E n : IsMachine(n) /\ Ends(n)
<1> DEFINE f == Decoded
           k == SystemFrame(f.m)
<1>1. IsDecoded(m, f) /\ IsMachine(f.m)
  BY DecodedType DEF IsDecoded, Leads
<1>2. PICK c \in Call(k, f.ea) :
         Ends(Finished(f, SystemReturn(c.m))) \/ Ends(Drop(c.m, "S", 4))
  BY DEF SystemCall
<1> HIDE DEF f
<1>3. IsMachine(k)
  BY <1>1, SystemFrameType DEF Leads
<1> HIDE DEF k
<1>4. IsMachine(c.m)
  BY <1>3, CallType DEF Leads
<1>5. IsMachine(SystemReturn(c.m)) /\ IsMachine(Drop(c.m, "S", 4))
  BY <1>4, SystemReturnType DEF Leads
<1>6. QED
  BY <1>1, <1>2, <1>5, FinishedType

LEMMA InitType == Init => CpuInv
<1> SUFFICES ASSUME Init PROVE CpuInv
  OBVIOUS
<1>1. PICK s \in Starts :
         m = [A |-> s.regs.A, B |-> s.regs.B, X |-> s.regs.X, Y |-> s.regs.Y,
              U |-> s.regs.U, S |-> s.regs.S, PC |-> s.regs.PC, DP |-> s.regs.DP,
              cc |-> CcOf(0), ram |-> s.ram, right |-> 0, result |-> 0,
              prev |-> "other", cycles |-> 0, error |-> "None"]
  BY DEF Init
<1>2. DOMAIN s.ram \subseteq MemAddr /\ \A a \in DOMAIN s.ram : s.ram[a] \in Byte
  BY CpuAssumption
<1>3. s.regs \in [A : Byte, B : Byte, X : Word, Y : Word, U : Word, S : Word, PC : Word, DP : Byte]
  BY CpuAssumption
<1> DEFINE r == s.regs
<1>4. /\ r.A \in Byte /\ r.B \in Byte /\ r.DP \in Byte
      /\ r.X \in Word /\ r.Y \in Word /\ r.U \in Word /\ r.S \in Word /\ r.PC \in Word
  BY <1>3
<1>5. CcOf(0) \in CC /\ 0 \in Word /\ 0 \in Result
  BY CcOfType, WordRange, ResultRange
<1> DEFINE cc == CcOf(0)
<1> HIDE DEF r, cc
<1>6. MachineTypeOK(m)
  BY <1>1, <1>2, <1>4, <1>5 DEF MachineTypeOK, Prev, r, cc
<1>7. DOMAIN m = Fields
  BY <1>1 DEF Fields
<1>8. QED
  BY <1>6, <1>7, MachineIs DEF CpuInv, Init

(* The four kinds of steps *)
LEMMA NextIs ==
    ASSUME CpuInv, Next
    PROVE  \/ IsPush
           \/ IsOperation
           \/ \E n : IsMachine(n) /\ n.ram = m.ram /\ Ends(n)
           \/ SystemCall
BY OperatingOperates, PrefixEnds, PushingPushes, PullingOperates, InterruptPushes, WaitPushes,
   CallingPushes, JumpOperates
DEF Next

LEMMA PushKeeps == ASSUME CpuInv, IsPush PROVE CpuInv'
<1>1. PICK mask, n, after :
         /\ mask \in Nat /\ IsMachine(n) /\ n.ram = m.ram
         /\ IsMachine(after)
         /\ \A x \in StackFields : after[x] = PushAll(n, PushStack, mask)[x]
         /\ Pushes(Decoded, PushStack, mask, n, after)
  BY DEF IsPush
<1>2. PushStack \in Stacks /\ IsDecoded(m, Decoded) /\ Decoded.o.op \in Controls
  BY DecodedType DEF IsPush, Pushers, Controls, Stackings
<1>3. QED
  BY <1>1, <1>2, PushesType

LEMMA InvStep == CpuInv /\ [Next]_vars => CpuInv'
<1> SUFFICES ASSUME CpuInv, [Next]_vars PROVE CpuInv'
  OBVIOUS
<1>1. CASE UNCHANGED vars
  BY <1>1 DEF vars, CpuInv, FrameTypeOK, FrameHolds
<1>2. CASE IsPush
  BY <1>2, PushKeeps
<1>3. ASSUME NEW n, IsMachine(n), Ends(n) PROVE CpuInv'
  BY <1>3, EndsType
<1>4. CASE IsOperation
  <2>1. PICK k : IsMachine(k) /\ Ends(Finished(Decoded, k))
    BY <1>4 DEF IsOperation
  <2>2. QED
    BY <1>3, <2>1, DecodedType, FinishedType
<1>5. QED
  BY <1>1, <1>2, <1>3, <1>4, NextIs, SystemCallEnds

(* Whatever program runs, and from whatever registers and memory: every    *)
(* register, flag and byte of memory keeps its width, _result its 17 bits, *)
(* and the stack pointers never pass a pushed frame that is still there    *)
(* (the members of class Emulator are fixed-width integers; D, 16 bits     *)
(* wide, is kept in two of 8).                                             *)
THEOREM CpuTypeCorrect == Spec => []CpuTypeOK
<1>1. CpuInv => CpuTypeOK
  BY MachineIs DEF CpuInv, CpuTypeOK, IsMachine
<1>2. QED
  BY <1>1, InitType, InvStep, PTL DEF Spec

-----------------------------------------------------------------------------
(* Registers come back *)

LEMMA NoDepth == Depth(0, 8) = 0
<1>1. \A i \in 1 .. 8 : i = 1 \/ i = 2 \/ i = 3 \/ i = 4 \/ i = 5 \/ i = 6 \/ i = 7 \/ i = 8
  OBVIOUS
<1>2. \A i \in 1 .. 8 : Bit(0, Bits[i]) = 0
  BY <1>1 DEF Bits, Bit
<1>3. \A i \in 1 .. 8 : Size(0, i) = 0
  BY <1>2 DEF Size, Pushed
<1>4. QED
  BY <1>3 DEF Depth

(* Returning from a subroutine pops the program counter. *)
LEMMA PopCounter == ASSUME NEW n PROVE PopAll(n, "S", 128) = Pop16(n, "S", "PC")
<1> DEFINE Off(x, i) == PopIf(x, "S", 128, i)
<1>1. \A x : Off(x, 1) = Pop16(x, "S", "PC")
  BY DEF PopIf, Bits, Bit, Registers, IsWide, WordRegs
<1>2. Bit(128, 64) = 0 /\ Bit(128, 32) = 0 /\ Bit(128, 16) = 0 /\ Bit(128, 8) = 0
      /\ Bit(128, 4) = 0 /\ Bit(128, 2) = 0 /\ Bit(128, 1) = 0
  BY DEF Bit
<1>3. /\ Bits[2] = 64 /\ Bits[3] = 32 /\ Bits[4] = 16 /\ Bits[5] = 8
      /\ Bits[6] = 4 /\ Bits[7] = 2 /\ Bits[8] = 1
  BY DEF Bits
<1>4. \A x : /\ Off(x, 2) = x /\ Off(x, 3) = x /\ Off(x, 4) = x /\ Off(x, 5) = x
             /\ Off(x, 6) = x /\ Off(x, 7) = x /\ Off(x, 8) = x
  BY <1>2, <1>3 DEF PopIf
<1>5. PopBytes(n, "S", 128) = Off(Off(Off(Off(n, 8), 7), 6), 5)
      /\ \A x : PopWords(x, "S", 128) = Off(Off(Off(Off(x, 4), 3), 2), 1)
  BY DEF PopBytes, PopWords
<1> HIDE DEF Off
<1>6. PopBytes(n, "S", 128) = n /\ PopWords(n, "S", 128) = Off(n, 1)
  BY <1>4, <1>5
<1>7. QED
  BY <1>1, <1>6 DEF PopAll

(* Fetching an instruction that pops reads its mask and moves the program *)
(* counter.                                                                *)
LEMMA PopperDecoded ==
    ASSUME CpuInv, NextOp \in {"PUL", "RTS", "RTI"}
    PROVE  /\ Leads(m, Decoded.m, {"PC", "right", "cycles"})
           /\ NextOp = "PUL" => Decoded.m.right = load8(m, Wrap(m.PC + 1)) /\ Decoded.o.reg \in Stacks
<1> DEFINE R == {"PC", "right", "cycles"}
           o == opcode(load8(m, m.PC))
           one == Skip(m, 1)
           n == AddCy(one, o.cycles)
           byte == load8(n, n.PC)
           two == Skip(n, 1)
           k == WithRight(two, byte)
<1>1. IsRow(o) /\ o.op = NextOp /\ IsMachine(m)
  BY LoadType, OpcodeIsRow DEF NextOp, CpuInv
<1>2. /\ o.right = "None" /\ (o.adr = "Immed8" \/ o.adr = "Inherent")
      /\ o.op = "PUL" => o.adr = "Immed8" /\ o.reg \in Stacks
  BY <1>1 DEF IsRow, Controls, Stackings, Returns, Stacks
<1>3. Fetch(m) = FetchRow(n, o)
  BY DEF Fetch
<1>4. IsMachine(one) /\ (\A x \in Fields \ {"PC"} : one[x] = m[x]) /\ one.PC = Wrap(m.PC + 1)
  <2>1. 1 \in Int
    OBVIOUS
  <2>2. one.PC = Wrap(m.PC + 1)
    BY <1>1 DEF Skip, IsMachine, Fields
  <2>3. QED
    BY <1>1, <2>1, <2>2, SkipType
<1> HIDE DEF one, o
<1>5. IsMachine(n) /\ (\A x \in Fields \ {"cycles"} : n[x] = one[x])
  BY <1>1, <1>4, AddCyType DEF IsRow
<1> HIDE DEF n
<1>6. IsMachine(two) /\ (\A x \in Fields \ {"PC"} : two[x] = n[x])
  BY <1>5, SkipType
<1>7. byte \in Byte /\ byte \in Int
  BY <1>5, LoadType, ByteRange
<1>8. k = With(two, "right", byte) /\ HasType("right", byte) /\ "right" \in Fields
  <2>1. Wrap(byte) = byte /\ byte \in Word
    BY <1>7, WordsOfBytes, WrapOfWord
  <2>2. k = With(two, "right", byte)
    BY <2>1 DEF WithRight, With
  <2>3. QED
    BY <2>1, <2>2 DEF HasType, Fields, ByteRegs, WordRegs
<1>9. byte = load8(m, Wrap(m.PC + 1))
  <2>1. n.PC = one.PC /\ n.ram = m.ram
    BY <1>4, <1>5 DEF Fields
  <2>2. QED
    BY <1>4, <2>1, LoadsAlike
<1> HIDE DEF byte, two, k
<1>10. IsMachine(k) /\ k.right = byte /\ \A x \in Fields \ {"right"} : k[x] = two[x]
  BY <1>6, <1>8, FieldSet
<1>11. Leads(m, n, R) /\ Leads(m, k, R)
  BY <1>4, <1>5, <1>6, <1>10 DEF Leads
<1>12. FetchRow(n, o) = IF o.adr = "Immed8" THEN Fetched(k, o, 0) ELSE Fetched(n, o, 0)
  BY <1>2 DEF FetchRow, k, two, byte
<1>13. PICK j : /\ Fetch(m) = Fetched(j, o, 0) /\ Leads(m, j, R)
                /\ o.adr = "Immed8" => j.right = byte
  BY <1>3, <1>10, <1>11, <1>12
<1> DEFINE f == Fetched(j, o, 0)
           r == j.right
<1>14. f.m = j /\ f.o = o
  BY DEF Fetched
<1>15. RightOf(f) = r
  BY <1>2, <1>14 DEF RightOf
<1>16. Decoded.m = With(j, "right", r) /\ Decoded.o = o
  BY <1>13, <1>14, <1>15 DEF Decoded, Loaded, With
<1> HIDE DEF f
<1>17. IsMachine(j)
  BY <1>13 DEF Leads
<1>18. HasType("right", r)
  BY <1>8, <1>17 DEF IsMachine
<1> HIDE DEF r
<1>19. Leads(j, With(j, "right", r), R) /\ With(j, "right", r).right = r
  BY <1>8, <1>17, <1>18, LeadsTo, FieldSet
<1>20. Leads(m, Decoded.m, R) /\ Decoded.m.right = r
  BY <1>13, <1>16, <1>19, LeadsOn
<1>21. QED
  BY <1>1, <1>2, <1>9, <1>13, <1>16, <1>20 DEF r

(* Popping a frame that lies on top of its stack *)
LEMMA FramePopped ==
    ASSUME CpuInv, NEW g \in frames, g.at = m[g.s], NEW n, IsMachine(n), n.ram = m.ram,
           n[g.s] = m[g.s], NEW f, IsDecoded(m, f), f.o.op \in Controls,
           m' = Finished(f, PopAll(n, g.s, g.mask))
    PROVE  /\ \A r \in DOMAIN g.regs : getReg(m', r) = g.regs[r]
           /\ m'[g.s] = g.sp
<1> DEFINE s == g.s
           sp == g.sp
           d == Depth(g.mask, 8)
           k == PopAll(n, s, g.mask)
<1>1. s \in Stacks /\ sp \in Word /\ g.at \in Word /\ g.mask \in Nat /\ sp - g.at = d
  BY DEF CpuInv, FrameTypeOK, FrameHolds, Stacks
<1>2. d \in Int /\ 0 <= d
  <2>1. 8 \in 0 .. 8
    OBVIOUS
  <2>2. QED
    BY <2>1, DepthSteps
<1>3. sp \in Int /\ sp < 65536 /\ g.at \in Int /\ 0 <= g.at
  BY <1>1, WordRange
<1>4. d <= sp /\ n[s] = sp - d
  <2> DEFINE a == g.at
  <2>1. n[s] = a
    OBVIOUS
  <2> HIDE DEF a, sp, d, s
  <2>2. a \in Int /\ 0 <= a /\ sp \in Int /\ sp - a = d /\ d \in Int
    BY <1>1, <1>2, <1>3 DEF a
  <2>3. d <= sp /\ a = sp - d
    BY <2>2
  <2>4. QED
    BY <2>1, <2>3
<1>5. /\ k[s] = sp
      /\ \A j \in 1 .. 8 : Pushed(g.mask, j) =>
            getReg(k, Registers(s)[j]) = Cell(n, sp - Depth(g.mask, j), j)
  BY <1>1, <1>3, <1>4, PopAllGives
<1>6. IsMachine(k)
  BY <1>1, PopAllType DEF Leads
<1> HIDE DEF k
<1>7. IsMachine(m') /\ \A x \in Fields \ {"prev"} : m'[x] = k[x]
  BY <1>6, FinishedType DEF k
<1>8. Leads(k, m', {"prev"})
  BY <1>7 DEF Leads
<1>9. \A r \in StackRegs : getReg(m', r) = getReg(k, r)
  <2>1. \A r \in StackRegs : r \notin {"prev"} /\ "cc" \notin {"prev"}
    BY DEF StackRegs
  <2>2. QED
    BY <1>8, <2>1, getRegAlike
<1>10. \A a, i : Cell(n, a, i) = Cell(m, a, i)
  BY LoadsAlike DEF Cell
<1>11. \A j \in 1 .. 8 : Pushed(g.mask, j) => getReg(m', Registers(s)[j]) = g.regs[Registers(s)[j]]
  <2>1. \A j \in 1 .. 8 : Registers(s)[j] \in StackRegs
    BY <1>1, RegistersApart
  <2>2. \A j \in 1 .. 8 : Pushed(g.mask, j) =>
            Cell(m, sp - Depth(g.mask, j), j) = g.regs[Registers(s)[j]]
    BY DEF CpuInv, FrameHolds
  <2>3. QED
    BY <1>5, <1>9, <1>10, <2>1, <2>2
<1>12. DOMAIN g.regs = RegistersIn(s, g.mask)
  BY DEF CpuInv, FrameHolds
<1>13. \A r \in DOMAIN g.regs : getReg(m', r) = g.regs[r]
  BY <1>1, <1>11, <1>12, PushedIn
<1>14. s \in Fields \ {"prev"}
  BY <1>1 DEF Stacks, Fields
<1>15. QED
  BY <1>5, <1>7, <1>13, <1>14

LEMMA FrameComesBack ==
    ASSUME CpuInv, Next, NEW g \in frames, g.s = PopStack, g.at = m[g.s], g.mask = PopMask
    PROVE  /\ \A r \in DOMAIN g.regs : getReg(m', r) = g.regs[r]
           /\ m'[g.s] = g.sp
<1> DEFINE f == Decoded
           counted == AddCy(f.m, CountBits(f.m.right))
<1>1. NextOp \in {"PUL", "RTS", "RTI"}
  <2> SUFFICES ASSUME NextOp \notin {"PUL", "RTS", "RTI"} PROVE FALSE
    OBVIOUS
  <2>1. g.mask = 0
    BY DEF PopMask
  <2>2. g.at \in Int /\ g.sp \in Int /\ g.at < g.sp /\ g.sp - g.at = 0
    BY <2>1, NoDepth, WordsOfBytes DEF CpuInv, FrameTypeOK, FrameHolds
  <2>3. QED
    BY <2>2
<1>2. Pulling \/ ReturnFromInterrupt \/ ReturnFromSubroutine
  BY <1>1 DEF Next, CalculateOp, MoveOp, BranchOp, PagePrefix, Illegal, Pushing, Interrupt,
     WaitForInterrupt, BranchToSubroutine, JumpToSubroutine, Jump, SystemCall, Calculations, Moves,
     Branching, Pages
<1>3. /\ Leads(m, f.m, {"PC", "right", "cycles"})
      /\ NextOp = "PUL" => f.m.right = load8(m, Wrap(m.PC + 1)) /\ f.o.reg \in Stacks
  BY <1>1, PopperDecoded
<1>4. IsDecoded(m, f) /\ f.o.op = NextOp /\ f.o.op \in Controls
  BY <1>1, DecodedType DEF Controls, Stackings
<1>5. g.s \in Stacks
  BY DEF CpuInv, FrameTypeOK, Stacks
<1>6. IsMachine(f.m) /\ f.m.ram = m.ram /\ f.m.cc = m.cc /\ f.m[g.s] = m[g.s]
  BY <1>3, <1>5 DEF Leads, Fields, Stacks
<1>7. CASE Pulling
  <2>1. NextOp = "PUL" /\ m' = Finished(f, PopAll(counted, f.o.reg, f.m.right))
    BY <1>7 DEF Pulling, Ends
  <2>2. g.s = f.o.reg /\ g.mask = f.m.right
    BY <1>3, <2>1 DEF PopStack, PopMask
  <2> HIDE DEF f
  <2>3. IsMachine(counted) /\ \A x \in Fields \ {"cycles"} : counted[x] = f.m[x]
    BY <1>6, CountBitsType, AddCyType
  <2> HIDE DEF counted
  <2>4. counted.ram = m.ram /\ counted[g.s] = m[g.s]
    BY <1>5, <1>6, <2>3 DEF Fields, Stacks
  <2>5. QED
    BY <1>4, <2>1, <2>2, <2>3, <2>4, FramePopped
<1>8. CASE ReturnFromInterrupt
  <2>1. NextOp = "RTI" /\ m' = Finished(f, PopAll(f.m, "S", IF f.m.cc.E = 1 THEN EntireMask ELSE 128))
    BY <1>8 DEF ReturnFromInterrupt, Ends
  <2>2. g.s = "S" /\ g.mask = IF f.m.cc.E = 1 THEN EntireMask ELSE 128
    BY <1>6, <2>1 DEF PopStack, PopMask
  <2> HIDE DEF f
  <2>3. QED
    BY <1>4, <1>6, <2>1, <2>2, FramePopped
<1>9. CASE ReturnFromSubroutine
  <2>1. NextOp = "RTS" /\ m' = Finished(f, Pop16(f.m, "S", "PC"))
    BY <1>9 DEF ReturnFromSubroutine, Ends
  <2>2. g.s = "S" /\ g.mask = 128
    BY <2>1 DEF PopStack, PopMask
  <2> HIDE DEF f
  <2>3. m' = Finished(f, PopAll(f.m, g.s, g.mask))
    BY <2>1, <2>2, PopCounter
  <2>4. QED
    BY <1>4, <1>6, <2>3, FramePopped
<1>10. QED
  BY <1>2, <1>7, <1>8, <1>9

(* Whatever program runs: an instruction that takes from the top of a      *)
(* stack the registers that a push, a call or an interrupt left there, and *)
(* that are still there, gets their values back, each into its register,   *)
(* and the stack pointer as it was (the pushes and pops of MC6809.h and    *)
(* the bit orders of PSH and PUL).                                         *)
THEOREM RegistersReturn == Spec => RegistersComeBack
<1>1. ASSUME CpuInv, [Next]_vars
      PROVE  [\A f \in frames :
                 f.s = PopStack /\ f.at = m[f.s] /\ f.mask = PopMask =>
                    /\ \A r \in DOMAIN f.regs : getReg(m', r) = f.regs[r]
                    /\ m'[f.s] = f.sp]_vars
  <2>1. CASE UNCHANGED vars
    BY <2>1
  <2>2. CASE Next
    <3>1. ASSUME NEW f \in frames, f.s = PopStack, f.at = m[f.s], f.mask = PopMask
          PROVE  (\A r \in DOMAIN f.regs : getReg(m', r) = f.regs[r]) /\ m'[f.s] = f.sp
      BY <1>1, <2>2, <3>1, FrameComesBack
    <3>2. QED
      BY <3>1
  <2>3. QED
    BY <1>1, <2>1, <2>2
<1>2. QED
  BY <1>1, InitType, InvStep, PTL DEF Spec, RegistersComeBack

-----------------------------------------------------------------------------
(* Memory *)

(* What the instruction f may store to, and the bytes a push may take *)
MayStore(f) == IF f.o.op = "ST16" THEN {f.ea, f.ea + 1}
               ELSE IF f.o.op \in Modifying \cup {"ST8"} THEN {f.ea} ELSE {}
Target(f) == IF f.ea < SystemAddrStart THEN MayStore(f) ELSE {}

LEMMA StoreAlters == ASSUME NEW k, IsMachine(k), NEW a \in Word, NEW v \in Int
    PROVE  /\ Alters(k, store8(k, a, v), IF a < SystemAddrStart THEN {a} ELSE {})
           /\ Alters(k, store16(k, a, v), IF a < SystemAddrStart THEN {a, a + 1} ELSE {})
<1> DEFINE h == v \div 256
           j == Poke(k, a, h)
<1>1. a \in Int /\ SystemAddrStart \in Int /\ a \in MemAddr /\ h \in Int
  BY WordsOfBytes, SystemAssumption
<1> HIDE DEF h
<1>2. Alters(k, Poke(k, a, v), {a}) /\ Alters(k, j, {a}) /\ IsMachine(j)
  BY <1>1, PokeReads, PokeType DEF Alters
<1> HIDE DEF j
<1>3. Alters(j, Poke(j, a + 1, v), {a + 1})
  BY <1>2, PokeReads DEF Alters
<1>4. Alters(k, Poke(j, a + 1, v), {a, a + 1})
  BY <1>2, <1>3 DEF Alters
<1>5. Alters(k, k, {})
  BY AltersNothing
<1>6. store8(k, a, v) = IF a >= SystemAddrStart THEN k ELSE Poke(k, a, v)
  BY DEF store8
<1>7. store16(k, a, v) = IF a >= SystemAddrStart THEN k ELSE Poke(j, a + 1, v)
  BY DEF store16, j, h
<1>8. CASE a >= SystemAddrStart
  BY <1>1, <1>5, <1>6, <1>7, <1>8
<1>9. CASE a < SystemAddrStart
  BY <1>1, <1>2, <1>4, <1>6, <1>7, <1>9
<1>10. QED
  BY <1>1, <1>8, <1>9

LEMMA FinishedAlters == ASSUME NEW n, NEW f, IsDecoded(n, f), NEW k, IsMachine(k)
    PROVE  Alters(k, Finished(f, k), Target(f))
<1>1. f.ea \in Word /\ f.left \in Int /\ k.result \in Int
  BY RegisterTypes, WordsOfBytes, ResultRange DEF IsDecoded
<1>2. /\ f.o.right = "St8" => f.o.op = "ST8"
      /\ f.o.right = "St16" => f.o.op = "ST16"
      /\ f.o.reg = "M8" /\ f.o.left \in {"St", "LdSt"} => f.o.op \in Modifying
  BY DEF IsDecoded, IsRow
<1>3. "ST16" \notin Modifying \cup {"ST8"}
  BY DEF Modifying
<1>4. setReg(k, f.o.reg, k.result).ram = k.ram
  BY <1>1, setRegType DEF Fields, Written, ByteRegs, WordRegs
<1>5. Alters(k, k, Target(f)) /\ Alters(k, setReg(k, f.o.reg, k.result), Target(f))
  BY <1>4, AltersNothing
<1>6. f.o.right = "St8" => Alters(k, store8(k, f.ea, f.left), Target(f))
  BY <1>1, <1>2, <1>3, StoreAlters DEF Target, MayStore
<1>7. f.o.right = "St16" => Alters(k, store16(k, f.ea, f.left), Target(f))
  BY <1>1, <1>2, StoreAlters DEF Target, MayStore
<1>8. f.o.left \in {"St", "LdSt"} /\ f.o.reg = "M8" => Alters(k, store8(k, f.ea, k.result), Target(f))
  BY <1>1, <1>2, <1>3, StoreAlters DEF Target, MayStore
<1>9. Alters(k, Stored(f, k), Target(f))
  BY <1>5, <1>6, <1>7, <1>8 DEF Stored
<1>10. Finished(f, k) = With(Stored(f, k), "prev", "other")
  BY FinishedType
<1>11. IsMachine(Stored(f, k)) /\ "prev" \in Fields /\ "ram" \in Fields /\ HasType("prev", "other")
  BY StoredType DEF Leads, Fields, HasType, Prev, ByteRegs, WordRegs
<1>12. Finished(f, k).ram = Stored(f, k).ram
  BY <1>10, <1>11, FieldSet
<1>13. QED
  BY <1>9, <1>12, LoadsAlike DEF Alters

LEMMA AltersChanged == ASSUME NEW n, NEW A, Alters(m, n, A) PROVE Changed(n) \subseteq A
BY DEF Alters, Changed

(* An operation that leaves memory to the store of its row *)
LEMMA OperationAlters ==
    ASSUME CpuInv, NEW f, IsDecoded(m, f), NEW k, IsMachine(k), k.ram = m.ram, Ends(Finished(f, k))
    PROVE  Changed(m') \subseteq Target(f)
<1>1. Alters(m, k, {}) /\ Alters(k, m', Target(f))
  BY AltersNothing, FinishedAlters DEF Ends
<1>2. QED
  BY <1>1, AltersOn, AltersChanged

LEMMA PushAlters ==
    ASSUME CpuInv, NEW f, IsDecoded(m, f), f.o.op \in Controls, NEW s \in Stacks, NEW mask,
           NEW n, IsMachine(n), n.ram = m.ram, NEW after, IsMachine(after),
           after.ram = PushAll(n, s, mask).ram, Pushes(f, s, mask, n, after)
    PROVE  Changed(m') \subseteq Under(n[s], 12)
<1> DEFINE pushed == PushAll(n, s, mask)
           d == Depth(mask, 8)
           U == Under(n[s], 12)
<1>1. m' = Finished(f, after)
  BY DEF Pushes
<1>2. Alters(n, pushed, Under(n[s], d))
  BY PushAllUnder DEF IsPushedUnder
<1>3. d \in Int /\ d <= 12 /\ n[s] \in Int
  <2>1. 8 \in 0 .. 8
    OBVIOUS
  <2>2. QED
    BY <2>1, DepthSteps, StackPointer
<1>4. Under(n[s], d) \subseteq U
  BY <1>3, UnderGrows
<1>5. m'.ram = after.ram
  BY <1>1, FinishedType DEF Fields
<1> HIDE DEF U, d, pushed
<1>6. Alters(n, pushed, U)
  BY <1>2, <1>4 DEF Alters
<1>7. Alters(m, n, {}) /\ Alters(pushed, m', U)
  BY <1>5, AltersNothing DEF pushed
<1>8. Alters(m, m', U)
  BY <1>6, <1>7, AltersOn
<1>9. QED
  BY <1>8, AltersChanged DEF U

(* What a push may take *)
Below(f) == IF NextOp \in Pushers THEN Under(f.m[PushStack], 12) ELSE {}

LEMMA StepAlters ==
    ASSUME CpuInv, Next, NextOp \notin {"JMP", "JSR"} \/ Decoded.ea < SystemAddrStart
    PROVE  Changed(m') \subseteq Below(Decoded) \cup Target(Decoded)
<1> DEFINE f == Decoded
<1>1. IsDecoded(m, f) /\ f.o.op = NextOp /\ f.ea \in Int
  BY DecodedType, WordsOfBytes DEF IsDecoded
<1>2. ~SystemCall
  <2>1. SystemAddrStart \in Int
    BY SystemAssumption, WordsOfBytes
  <2> HIDE DEF f
  <2>2. ~(f.ea < SystemAddrStart /\ f.ea >= SystemAddrStart)
    BY <1>1, <2>1
  <2>3. QED
    BY <2>2 DEF SystemCall, f
<1>3. CASE IsPush
  <2>1. PICK mask, n, after :
           /\ mask \in Nat /\ IsMachine(n) /\ n.ram = m.ram /\ n[PushStack] = f.m[PushStack]
           /\ IsMachine(after)
           /\ \A x \in StackFields : after[x] = PushAll(n, PushStack, mask)[x]
           /\ Pushes(f, PushStack, mask, n, after)
    BY <1>3 DEF IsPush
  <2>2. PushStack \in Stacks /\ NextOp \in Pushers /\ "ram" \in StackFields
    BY <1>3 DEF IsPush, StackFields
  <2>3. f.o.op \in Controls
    BY <1>1, <2>2 DEF Pushers, Controls, Stackings
  <2> HIDE DEF f
  <2>4. Changed(m') \subseteq Under(f.m[PushStack], 12)
    BY <1>1, <2>1, <2>2, <2>3, PushAlters
  <2>5. QED
    BY <2>2, <2>4 DEF Below, f
<1>4. CASE IsOperation
  <2>1. PICK k : IsMachine(k) /\ k.ram = m.ram /\ Ends(Finished(f, k))
    BY <1>4 DEF IsOperation
  <2>2. QED
    BY <1>1, <2>1, OperationAlters
<1>5. CASE \E n : IsMachine(n) /\ n.ram = m.ram /\ Ends(n)
  BY <1>5, AltersNothing, AltersChanged DEF Ends
<1>6. QED
  BY <1>2, <1>3, <1>4, <1>5, NextIs

(* Whatever program runs: a store, or an operation on memory, changes its  *)
(* operand and no other byte, a push at most the twelve bytes below its    *)
(* stack pointer, every other instruction but a system call nothing; and   *)
(* a store that begins in the system area nothing (MC6809.h:406-423).      *)
THEOREM MemoryIsKept == Spec => MemoryKept
<1> DEFINE f == Decoded
           operand == IF NextOp = "ST16" THEN {f.ea, f.ea + 1}
                      ELSE IF NextOp \in Modifying \cup {"ST8"} THEN {f.ea} ELSE {}
           s == IF NextOp = "PSH" THEN f.o.reg ELSE "S"
           below == IF NextOp \in Pushers THEN {Wrap(f.m[s] - i) : i \in 1 .. 12} ELSE {}
           Kept1 == NextOp \notin {"JMP", "JSR"} \/ f.ea < SystemAddrStart =>
                       Changed(m') \subseteq below \cup (IF f.ea < SystemAddrStart THEN operand ELSE {})
<1>1. ASSUME CpuInv, Next PROVE Kept1
  <2> SUFFICES ASSUME NextOp \notin {"JMP", "JSR"} \/ f.ea < SystemAddrStart
               PROVE  Changed(m') \subseteq below \cup (IF f.ea < SystemAddrStart THEN operand ELSE {})
    OBVIOUS
  <2>1. below = Below(f)
    BY DEF Below, Under, PushStack
  <2>2. f.o.op = NextOp
    BY <1>1, DecodedType
  <2>3. (IF f.ea < SystemAddrStart THEN operand ELSE {}) = Target(f)
    BY <2>2 DEF Target, MayStore
  <2>4. QED
    BY <1>1, <2>1, <2>3, StepAlters
<1>2. CpuInv /\ [Next]_vars => [Kept1]_vars
  BY <1>1
<1>3. QED
  BY <1>2, InitType, InvStep, PTL DEF Spec, MemoryKept

-----------------------------------------------------------------------------
(* System functions return *)

LEMMA Push16Under == ASSUME NEW n, IsMachine(n), NEW v \in Word
    PROVE  /\ IsMachine(Push16(n, "S", v)) /\ Leads(n, Push16(n, "S", v), {"ram", "S", "U"})
           /\ Push16(n, "S", v).S = Wrap(n.S - 2)
           /\ Alters(n, Push16(n, "S", v), {Wrap(n.S - 1), Wrap(n.S - 2)})
<1>1. v \in Int /\ "S" \in Stacks
  BY WordsOfBytes DEF Stacks
<1>2. Leads(n, Push16(n, "S", v), {"ram", "S"}) /\ Push16(n, "S", v)["S"] = Wrap(n["S"] - 2)
  BY <1>1, PushType
<1>3. \A x : load8(Push16(n, "S", v), x) = IF x = Wrap(n["S"] - 1) /\ x # Wrap(n["S"] - 2) THEN v % 256
                                           ELSE IF x = Wrap(n["S"] - 2) THEN v \div 256
                                           ELSE load8(n, x)
  BY <1>1, Push16Reads
<1>4. QED
  BY <1>2, <1>3 DEF Alters, Leads

(* A word pushed is on top. *)
LEMMA Push16Tops == ASSUME NEW n, IsMachine(n), NEW v \in Word PROVE Top16(Push16(n, "S", v), "S") = v
<1> DEFINE k == Push16(n, "S", v)
           sp == n["S"]
           lo == Wrap(sp - 2)
           hi == Wrap(sp - 1)
<1>1. "S" \in Stacks /\ v \in Int
  BY WordsOfBytes DEF Stacks
<1>2. sp \in Int /\ 0 <= sp /\ sp < 65536
  BY <1>1, StackPointer
<1>3. k["S"] = lo
  BY <1>1, PushType
<1>4. \A x : load8(k, x) = IF x = hi /\ x # lo THEN v % 256 ELSE IF x = lo THEN v \div 256 ELSE load8(n, x)
  BY <1>1, Push16Reads
<1> HIDE DEF sp, k
<1>5. Wrap(lo + 1) = hi /\ hi # lo
  <2>1. sp - 2 \in Int /\ 1 \in Int /\ (sp - 2) + 1 = sp - 1
    BY <1>2
  <2>2. Wrap(lo + 1) = hi
    BY <2>1, WrapOfSum
  <2>3. hi # lo
    BY <1>2 DEF Wrap
  <2>4. QED
    BY <2>2, <2>3
<1> HIDE DEF lo, hi
<1>6. 256 * (v \div 256) + (v % 256) = v
  BY <1>1
<1>7. load8(k, k["S"]) = v \div 256 /\ load8(k, Wrap(k["S"] + 1)) = v % 256
  BY <1>3, <1>4, <1>5
<1>8. QED
  BY <1>6, <1>7 DEF Top16, k

(* k is n with the frame of a system call: S and U point to the three      *)
(* words, of which the last is U.                                          *)
IsFramed(n, k) == /\ Leads(n, k, {"ram", "S", "U"})
                  /\ k.S = Wrap(n.S - 6) /\ k.U = k.S
                  /\ Top16(k, "S") = n.U
                  /\ Alters(n, k, FrameBytes(n))

LEMMA FrameIs == ASSUME NEW n, IsMachine(n) PROVE IsFramed(n, SystemFrame(n))
<1> DEFINE R == {"ram", "S", "U"}
           a == Push16(n, "S", 0)
           b == Push16(a, "S", 0)
           e == Push16(b, "S", n.U)
           k == With(e, "U", e.S)
           sp == n.S
<1>1. SystemFrame(n) = k
  BY DEF SystemFrame, With
<1>2. 0 \in Word /\ n.U \in Word /\ sp \in Int
  BY WordRange, RegisterTypes
<1>3. IsMachine(a) /\ Leads(n, a, R) /\ a.S = Wrap(sp - 2) /\ Alters(n, a, {Wrap(sp - 1), Wrap(sp - 2)})
  BY <1>2, Push16Under
<1> HIDE DEF a
<1>4. IsMachine(b) /\ Leads(a, b, R) /\ b.S = Wrap(a.S - 2) /\ Alters(a, b, {Wrap(a.S - 1), Wrap(a.S - 2)})
  BY <1>2, <1>3, Push16Under
<1> HIDE DEF b
<1>5. /\ IsMachine(e) /\ Leads(b, e, R) /\ e.S = Wrap(b.S - 2)
      /\ Alters(b, e, {Wrap(b.S - 1), Wrap(b.S - 2)})
  BY <1>2, <1>4, Push16Under
<1>6. Top16(e, "S") = n.U
  BY <1>2, <1>4, Push16Tops
<1> HIDE DEF e
<1>7. e.S \in Word
  BY <1>5, RegisterTypes
<1>8. "U" \in Fields /\ HasType("U", e.S) /\ "U" \in R /\ "S" \in Fields /\ "ram" \in Fields
  BY <1>7 DEF Fields, HasType, ByteRegs, WordRegs
<1>9. Leads(e, k, R) /\ k.U = e.S /\ k.S = e.S /\ k.ram = e.ram
  BY <1>5, <1>8, LeadsTo, FieldSet
<1> HIDE DEF k
<1>10. Leads(n, k, R)
  BY <1>3, <1>4, <1>5, <1>9, LeadsOn
<1> HIDE DEF sp
<1>11. /\ Wrap(a.S - 1) = Wrap(sp - 3) /\ Wrap(a.S - 2) = Wrap(sp - 4)
       /\ Wrap(b.S - 1) = Wrap(sp - 5) /\ Wrap(b.S - 2) = Wrap(sp - 6)
  <2>1. \A y \in Int, x \in Int : Wrap(Wrap(sp - y) - x) = Wrap(sp - (y + x))
    BY <1>2, WrapTwice
  <2>2. 1 \in Int /\ 2 \in Int /\ 4 \in Int /\ 2 + 1 = 3 /\ 2 + 2 = 4 /\ 4 + 1 = 5 /\ 4 + 2 = 6
    OBVIOUS
  <2>3. Wrap(Wrap(sp - 2) - 1) = Wrap(sp - 3) /\ Wrap(Wrap(sp - 2) - 2) = Wrap(sp - 4)
    BY <2>1, <2>2
  <2>4. Wrap(Wrap(sp - 4) - 1) = Wrap(sp - 5) /\ Wrap(Wrap(sp - 4) - 2) = Wrap(sp - 6)
    BY <2>1, <2>2
  <2>5. QED
    BY <1>3, <1>4, <2>3, <2>4
<1>12. FrameBytes(n) = {Wrap(sp - i) : i \in 1 .. 6}
  BY DEF FrameBytes, sp
<1>13. \A i \in 1 .. 6 : Wrap(sp - i) \in FrameBytes(n)
  BY <1>12
<1>14. Alters(n, a, FrameBytes(n)) /\ Alters(a, b, FrameBytes(n)) /\ Alters(b, e, FrameBytes(n))
  <2>1. /\ Wrap(sp - 1) \in FrameBytes(n) /\ Wrap(sp - 2) \in FrameBytes(n)
        /\ Wrap(sp - 3) \in FrameBytes(n) /\ Wrap(sp - 4) \in FrameBytes(n)
        /\ Wrap(sp - 5) \in FrameBytes(n) /\ Wrap(sp - 6) \in FrameBytes(n)
    BY <1>13
  <2>2. QED
    BY <1>3, <1>4, <1>5, <1>11, <2>1 DEF Alters
<1>15. Alters(n, k, FrameBytes(n))
  BY <1>9, <1>14, LoadsAlike DEF Alters
<1>16. Top16(k, "S") = n.U
  <2>1. \A x : load8(k, x) = load8(e, x)
    BY <1>9, LoadsAlike
  <2>2. QED
    BY <1>6, <1>9, <2>1 DEF Top16
<1>17. k.S = Wrap(sp - 6)
  BY <1>5, <1>9, <1>11
<1>18. QED
  BY <1>1, <1>9, <1>10, <1>15, <1>16, <1>17 DEF IsFramed, sp

(* The frame lies below the arguments, round the end of memory. *)
LEMMA ArgumentsApart == ASSUME NEW n, IsMachine(n), NEW i \in 0 .. 3
    PROVE  Wrap(n.S + i) \notin FrameBytes(n)
<1> DEFINE sp == n.S
<1>1. sp \in Int
  BY RegisterTypes, WordsOfBytes
<1> SUFFICES ASSUME NEW j \in 1 .. 6, Wrap(n.S + i) = Wrap(n.S - j) PROVE FALSE
  BY DEF FrameBytes
<1>2. Wrap(sp + i) = Wrap(sp - j)
  OBVIOUS
<1> HIDE DEF sp
<1>3. i \in Int /\ j \in Int /\ 1 <= i + j /\ i + j <= 9
  OBVIOUS
<1> DEFINE x == sp - j
           y == i + j
<1>4. x \in Int /\ y \in Int /\ 1 <= y /\ y <= 9 /\ Wrap(x + y) = Wrap(x)
  <2>1. x + y = sp + i
    BY <1>1, <1>3
  <2>2. QED
    BY <1>1, <1>2, <1>3, <2>1
<1> HIDE DEF x, y
<1>5. QED
  BY <1>4 DEF Wrap

(* An argument is what the program pushed. *)
LEMMA ArgumentIs == ASSUME NEW n, IsMachine(n), NEW k, IsFramed(n, k)
    PROVE  /\ \A o \in 0 .. 3 : getArg(k, o, 1) = load8(n, Wrap(n.S + o))
           /\ \A o \in 0 .. 2 :
                 getArg(k, o, 2) = 256 * load8(n, Wrap(n.S + o)) + load8(n, Wrap(n.S + (o + 1)))
<1> DEFINE sp == n.S
           At(o) == Wrap(k.U + 6 + o)
<1>1. sp \in Int
  BY RegisterTypes, WordsOfBytes
<1>2. \A o \in Int : At(o) = Wrap(sp + o)
  <2> TAKE o \in Int
  <2>1. k.U = Wrap(sp - 6)
    BY DEF IsFramed
  <2> HIDE DEF sp
  <2> DEFINE x == sp - 6
             y == 6 + o
  <2>2. x \in Int /\ y \in Int /\ x + y = sp + o
    BY <1>1
  <2>3. Wrap(x) \in Int
    BY <2>2, WrapType, WordsOfBytes
  <2>4. k.U + 6 + o = Wrap(x) + y
    BY <2>1, <2>3
  <2> HIDE DEF x, y
  <2>5. Wrap(Wrap(x) + y) = Wrap(x + y)
    BY <2>2, WrapOfSum
  <2>6. QED
    BY <2>2, <2>4, <2>5
<1>3. \A o \in 0 .. 3 : load8(k, Wrap(sp + o)) = load8(n, Wrap(sp + o))
  BY ArgumentsApart DEF IsFramed, Alters
<1>4. \A o \in Int : Wrap(At(o) + 1) = Wrap(sp + (o + 1))
  <2> TAKE o \in Int
  <2> HIDE DEF sp, At
  <2> DEFINE x == sp + o
  <2>1. x \in Int /\ 1 \in Int /\ x + 1 = sp + (o + 1)
    BY <1>1
  <2> HIDE DEF x
  <2>2. Wrap(Wrap(x) + 1) = Wrap(x + 1)
    BY <2>1, WrapOfSum
  <2>3. QED
    BY <1>2, <2>1, <2>2 DEF x
<1>5. \A o : /\ getArg(k, o, 1) = load8(k, At(o))
             /\ getArg(k, o, 2) = 256 * load8(k, At(o)) + load8(k, Wrap(At(o) + 1))
  BY DEF getArg
<1> HIDE DEF At
<1>6. \A o \in 0 .. 3 : getArg(k, o, 1) = load8(n, Wrap(sp + o))
  BY <1>2, <1>3, <1>5
<1>7. ASSUME NEW o \in 0 .. 2
      PROVE  getArg(k, o, 2) = 256 * load8(n, Wrap(sp + o)) + load8(n, Wrap(sp + (o + 1)))
  <2>1. o \in Int /\ o \in 0 .. 3 /\ o + 1 \in 0 .. 3
    OBVIOUS
  <2>2. At(o) = Wrap(sp + o) /\ Wrap(At(o) + 1) = Wrap(sp + (o + 1))
    BY <1>2, <1>4, <2>1
  <2>3. load8(k, Wrap(sp + o)) = load8(n, Wrap(sp + o))
        /\ load8(k, Wrap(sp + (o + 1))) = load8(n, Wrap(sp + (o + 1)))
    BY <1>3, <2>1
  <2>4. QED
    BY <1>5, <2>2, <2>3
<1>8. QED
  BY <1>6, <1>7

(* What a system function may leave *)
Answers == {"A", "B", "X", "ram"}
Buffer(k) == {Wrap(getArg(k, 0, 2) + i) : i \in 0 .. getArg(k, 2, 2) - 1}
Writes(n, func) ==
    IF func = format THEN {Buffer(n)}
    ELSE IF func = ldLine THEN {{}} \cup {RecordCells(r) : r \in Records}
    ELSE {{}}
IsServed(n, func, c) == /\ c.ok /\ Leads(n, c.m, Answers)
                        /\ \E w \in Writes(n, func) : Alters(n, c.m, w)

(* The registers a division writes *)
LEMMA QuotientSet == ASSUME NEW n, IsMachine(n), NEW q \in Int
    PROVE  /\ Leads(n, setReg(n, "A", q), Answers) /\ setReg(n, "A", q).A = q % 256
           /\ Leads(n, setReg(n, "D", q), Answers) /\ getReg(setReg(n, "D", q), "D") = Wrap(q)
           /\ Leads(n, setReg(n, "D", q), {"A", "B"})
           /\ setReg(n, "A", q).ram = n.ram /\ setReg(n, "D", q).ram = n.ram
<1> DEFINE l == q % 256
           h == (q \div 256) % 256
           a == With(n, "A", l)
           b == With(n, "A", h)
           d == With(b, "B", l)
<1>1. \A p : Paged("A", p) = "A" /\ Paged("D", p) = "D"
  BY DEF Paged
<1>2. setReg(n, "A", q) = a
  BY <1>1 DEF setReg, ByteRegs, With
<1>3. setReg(n, "D", q) = d
  BY <1>1 DEF setReg, ByteRegs, WordRegs, With
<1>4. l \in Byte /\ h \in Byte /\ 256 * h + l = Wrap(q)
  <2>1. l \in Byte /\ h \in Byte
    BY ByteRange
  <2>2. 256 * h + l = q % 65536
    OBVIOUS
  <2>3. QED
    BY <2>1, <2>2 DEF Wrap
<1> HIDE DEF l, h
<1>5. /\ "A" \in Fields /\ "B" \in Fields /\ "ram" \in Fields
      /\ \A v \in Byte : HasType("A", v) /\ HasType("B", v)
  BY DEF Fields, HasType, ByteRegs, WordRegs
<1>6. Leads(n, a, {"A", "B"}) /\ a.A = l /\ a.ram = n.ram
  BY <1>4, <1>5, LeadsTo, FieldSet
<1>7. Leads(n, b, {"A", "B"}) /\ b.A = h /\ b.ram = n.ram /\ IsMachine(b)
  BY <1>4, <1>5, LeadsTo, FieldSet DEF Leads
<1> HIDE DEF a, b
<1>8. Leads(b, d, {"A", "B"}) /\ d.A = h /\ d.B = l /\ d.ram = n.ram
  BY <1>4, <1>5, <1>7, LeadsTo, FieldSet
<1> HIDE DEF d
<1>9. Leads(n, d, {"A", "B"})
  BY <1>7, <1>8, LeadsOn
<1>10. getReg(d, "D") = 256 * h + l
  BY <1>1, <1>8 DEF getReg, ByteRegs, WordRegs
<1>11. \A j : Leads(n, j, {"A", "B"}) => Leads(n, j, Answers)
  BY DEF Leads, Answers
<1>12. QED
  BY <1>2, <1>3, <1>4, <1>6, <1>8, <1>9, <1>10, <1>11 DEF l

(* What a division answers, but for division by zero *)
Wide(func) == func \in {idiv16, udiv16}
LEMMA DivideServes == ASSUME NEW n, IsMachine(n), NEW func, NEW c \in Divide(n, func)
    PROVE  /\ c.ok /\ Leads(n, c.m, Answers) /\ c.m.ram = n.ram
           /\ Wide(func) /\ getArg(n, 2, 2) # 0 =>
                 getReg(c.m, "D") = Wrap(Wrap(Quotient(func, getArg(n, 0, 2), getArg(n, 2, 2))))
           /\ ~Wide(func) /\ getArg(n, 1, 1) # 0 =>
                 c.m.A = Wrap(Quotient(func, getArg(n, 0, 1), getArg(n, 1, 1))) % 256
<1> DEFINE bytes == IF Wide(func) THEN 2 ELSE 1
           a == getArg(n, 0, bytes)
           b == getArg(n, bytes, bytes)
           reg == IF bytes = 2 THEN "D" ELSE "A"
           quotients == IF b = 0 THEN DivisionByZero ELSE {Wrap(Quotient(func, a, b))}
<1>1. PICK q \in quotients : c = Outcome(setReg(n, reg, q), TRUE)
  BY DEF Divide, Wide
<1>2. bytes = (IF Wide(func) THEN 2 ELSE 1) /\ reg = (IF bytes = 2 THEN "D" ELSE "A")
  OBVIOUS
<1>3. func = idiv8 => bytes = 1
  BY FunctionNumbers DEF Wide
<1> HIDE DEF bytes
<1>4. a \in Word /\ b \in Word /\ (func = idiv8 => b \in Byte)
  BY <1>2, <1>3, getArgType, WordsOfBytes
<1>5. q = Wrap(Quotient(func, a, b)) \/ b = 0
  BY <1>1
<1>6. q \in Int
  <2>1. \A w \in DivisionByZero : w \in Int
    BY DEF DivisionByZero, MaxWord
  <2> HIDE DEF a, b
  <2>2. b # 0 => Wrap(Quotient(func, a, b)) \in Int
    BY <1>4, QuotientType, WrapType, WordsOfBytes
  <2>3. QED
    BY <1>1, <2>1, <2>2
<1>7. c.ok /\ c.m = setReg(n, reg, q)
  BY <1>1 DEF Outcome
<1> HIDE DEF quotients, reg
<1>8. CASE Wide(func)
  BY <1>2, <1>5, <1>6, <1>7, <1>8, QuotientSet
<1>9. CASE ~Wide(func)
  BY <1>2, <1>5, <1>6, <1>7, <1>9, QuotientSet
<1>10. QED
  BY <1>8, <1>9

LEMMA LineIsNoFormat == ldLine # format
<1>1. SystemAddrStart \in Int
  BY FunctionNumbers
<1>2. QED
  BY <1>1 DEF ldLine, format, Function

LEMMA KnownServes == ASSUME NEW n, IsMachine(n), NEW func \in Known, NEW c \in Call(n, func)
    PROVE  IsServed(n, func, c)
<1> DEFINE Read == {Outcome([n EXCEPT !.A = v], TRUE) : v \in Inputs}
           Lines == LineOutcomes(n)
           Formats == {Outcome(FormatInto(n, getArg(n, 0, 2), getArg(n, 2, 2), text), TRUE) :
                          text \in Texts}
           switched == Outcome([n EXCEPT !.X = exit], TRUE)
<1>1. \/ c = Outcome(n, TRUE) \/ c \in Read \/ (func = ldLine /\ c \in Lines)
      \/ (func = format /\ c \in Formats)
      \/ c = switched \/ c \in Divide(n, func)
  <2>1. c \in IF func \in {putc, puts, ldStart, ldEnd, printf} THEN {Outcome(n, TRUE)}
              ELSE IF func = getc THEN Read
              ELSE IF func = ldLine THEN Lines
              ELSE IF func = format THEN Formats
              ELSE IF func \in {switch1, switch2} THEN {switched}
              ELSE Divide(n, func)
    BY DEF Call, Known
  <2> HIDE DEF Read, Lines, Formats, switched
  <2>2. QED
    BY <2>1
<1>2. /\ "A" \in Fields /\ "B" \in Fields /\ "X" \in Fields /\ "ram" \in Fields
      /\ "A" \in Answers /\ "B" \in Answers /\ "X" \in Answers
      /\ \A v \in Byte : HasType("A", v) /\ HasType("B", v)
      /\ \A v \in Word : HasType("X", v)
  BY DEF Fields, Answers, HasType, ByteRegs, WordRegs
<1>3. ASSUME c.ok, Leads(n, c.m, Answers), c.m.ram = n.ram PROVE IsServed(n, func, c)
  <2>1. \A w : Alters(n, c.m, w)
    BY <1>3, AltersNothing
  <2>2. \E w : w \in Writes(n, func)
    BY DEF Writes
  <2>3. QED
    BY <1>3, <2>1, <2>2 DEF IsServed
<1>4. CASE c = Outcome(n, TRUE)
  <2>1. Leads(n, n, Answers) /\ c.m = n /\ c.ok
    BY <1>4 DEF Leads, Outcome
  <2>2. QED
    BY <1>3, <2>1
<1>5. CASE c \in Read
  <2>1. PICK v \in Inputs : c.m = With(n, "A", v) /\ c.ok
    BY <1>5 DEF Outcome, With
  <2>2. v \in Byte
    BY CallAssumption
  <2>3. QED
    BY <1>2, <1>3, <2>1, <2>2, LeadsTo, FieldSet
<1>6. CASE func = ldLine /\ c \in Lines
  <2>1. /\ c.ok /\ Leads(n, c.m, {"A", "B", "ram"})
        /\ \E w \in {{}} \cup {RecordCells(r) : r \in Records} :
              \A a : a \notin w => load8(c.m, a) = load8(n, a)
    BY <1>6, LineOutcome
  <2>2. Leads(n, c.m, Answers)
    BY <2>1 DEF Leads, Answers
  <2>3. Writes(n, func) = {{}} \cup {RecordCells(r) : r \in Records}
    BY <1>6, LineIsNoFormat DEF Writes
  <2>4. QED
    BY <2>1, <2>2, <2>3 DEF IsServed, Alters
<1>7. CASE func = format /\ c \in Formats
  <2>1. PICK text \in Texts : c.ok /\ c.m = FormatInto(n, getArg(n, 0, 2), getArg(n, 2, 2), text)
    BY <1>7 DEF Outcome
  <2> DEFINE s == getArg(n, 0, 2)
             e == getArg(n, 2, 2)
  <2>2. s \in Word /\ e \in Word
    BY getArgType
  <2>3. Buffer(n) = {Wrap(s + i) : i \in 0 .. e - 1} /\ c.m = FormatInto(n, s, e, text)
    BY <2>1 DEF Buffer
  <2> HIDE DEF s, e
  <2>4. /\ Leads(n, c.m, {"ram"})
        /\ \A a : a \notin {Wrap(s + i) : i \in 0 .. e - 1} => load8(c.m, a) = load8(n, a)
    BY <2>2, <2>3, FormatIntoType
  <2>5. Alters(n, c.m, Buffer(n))
    BY <2>3, <2>4 DEF Alters
  <2>6. Leads(n, c.m, Answers)
    BY <2>4 DEF Leads, Answers
  <2>7. QED
    BY <1>7, <2>1, <2>5, <2>6 DEF IsServed, Writes
<1>8. CASE c = switched
  <2>1. c.m = With(n, "X", exit) /\ c.ok
    BY <1>8 DEF Outcome, With
  <2>2. QED
    BY <1>2, <1>3, <2>1, ExitType, LeadsTo, FieldSet
<1>9. CASE c \in Divide(n, func)
  BY <1>3, <1>9, DivideServes
<1> HIDE DEF Read, Lines, Formats, switched
<1>10. QED
  BY <1>1, <1>4, <1>5, <1>6, <1>7, <1>8, <1>9

(* Behind the call *)
LEMMA ReturnIs == ASSUME NEW k, IsMachine(k)
    PROVE  /\ Leads(k, SystemReturn(k), Written)
           /\ SystemReturn(k).S = Wrap(k.S + 6) /\ SystemReturn(k).U = Top16(k, "S")
           /\ SystemReturn(k).ram = k.ram
           /\ \A r \in {"PC", "Y", "X", "DP", "B", "A"} : SystemReturn(k)[r] = k[r]
<1> DEFINE j == Pop16(k, "S", "U")
           e == Drop(j, "S", 4)
           sp == k.S
<1>1. "S" \in Stacks /\ 2 \in 1 .. 8 /\ Registers("S")[2] = "U" /\ IsWide("U")
  BY DEF Stacks, Registers, IsWide, WordRegs
<1>2. PopOne(k, "S", Registers("S")[2]) = j
  BY <1>1 DEF PopOne
<1>3. PoppedInto(k, j, "S", "U")
  BY <1>1, <1>2, PopGives
<1>4. /\ IsMachine(j) /\ j.ram = k.ram /\ j["S"] = Wrap(k["S"] + 2) /\ getReg(j, "U") = Top16(k, "S")
      /\ \A q \in StackRegs \ {"U", "S"} : getReg(j, q) = getReg(k, q)
  BY <1>1, <1>3 DEF PoppedInto
<1> HIDE DEF j
<1>5. Leads(j, e, {"S"}) /\ e["S"] = Wrap(j["S"] + 4)
  <2>1. 4 \in Int
    OBVIOUS
  <2>2. QED
    BY <1>1, <1>4, <2>1, DropType
<1>6. SystemReturn(k) = e
  BY DEF SystemReturn, j
<1> HIDE DEF e
<1>7. \A r \in {"PC", "Y", "X", "DP", "B", "A"} :
         r \in StackRegs \ {"U", "S", "CC"} /\ r \in Fields \ {"S"}
  BY DEF StackRegs, Fields
<1>8. \A r \in {"PC", "Y", "X", "DP", "B", "A"} : e[r] = k[r]
  BY <1>4, <1>5, <1>7, getRegIs DEF Leads
<1>9. e.U = Top16(k, "S") /\ e.ram = k.ram
  <2>1. "U" \in StackRegs /\ "U" \in Fields \ {"S"} /\ "ram" \in Fields \ {"S"} /\ "U" # "CC"
    BY DEF StackRegs, Fields
  <2>2. j.U = getReg(j, "U")
    BY <2>1, getRegIs
  <2>3. QED
    BY <1>4, <1>5, <2>1, <2>2 DEF Leads
<1>10. sp \in Int
  BY RegisterTypes, WordsOfBytes
<1>11. e.S = Wrap(Wrap(sp + 2) + 4)
  BY <1>4, <1>5
<1> HIDE DEF sp
<1>12. Wrap(Wrap(sp + 2) + 4) = Wrap(sp + 6)
  <2> DEFINE x == sp + 2
  <2>1. x \in Int /\ 4 \in Int /\ x + 4 = sp + 6
    BY <1>10
  <2> HIDE DEF x
  <2>2. Wrap(Wrap(x) + 4) = Wrap(x + 4)
    BY <2>1, WrapOfSum
  <2>3. QED
    BY <2>1, <2>2 DEF x
<1>13. QED
  BY <1>6, <1>8, <1>9, <1>11, <1>12, SystemReturnType DEF sp

(* The step is a call that k was the frame and c the outcome of. *)
IsAnswered(k, c) ==
    /\ IsFramed(Decoded.m, k) /\ IsServed(k, Decoded.ea, c) /\ c \in Call(k, Decoded.ea)
    /\ \A x \in Fields \ {"prev"} : m'[x] = SystemReturn(c.m)[x]

LEMMA FunctionReturns ==
    ASSUME CpuInv, Next, Called(Known)
    PROVE  \E k : \E c : IsAnswered(k, c)
<1> DEFINE f == Decoded
           k == SystemFrame(f.m)
<1>1. NextOp \in {"JMP", "JSR"} /\ f.ea >= SystemAddrStart /\ f.ea \in Known
  BY DEF Called, Calls
<1>2. IsDecoded(m, f) /\ IsMachine(f.m) /\ f.o.op = NextOp /\ f.ea \in Int
  BY DecodedType, WordsOfBytes DEF IsDecoded, Leads
<1>3. f.o.op \in Controls
  BY <1>1, <1>2 DEF Controls
<1>4. ~(f.ea < SystemAddrStart)
  <2>1. SystemAddrStart \in Int
    BY SystemAssumption, WordsOfBytes
  <2> HIDE DEF f
  <2>2. QED
    BY <1>1, <1>2, <2>1
<1>5. SystemCall
  BY <1>1, <1>4 DEF Next, CalculateOp, MoveOp, BranchOp, PagePrefix, Illegal, Pushing, Pulling, Interrupt,
     WaitForInterrupt, ReturnFromInterrupt, BranchToSubroutine, JumpToSubroutine, Jump,
     ReturnFromSubroutine, Calculations, Moves, Branching, Pages
<1>6. PICK c \in Call(k, f.ea) : IF c.ok THEN Ends(Finished(f, SystemReturn(c.m))) ELSE Ends(Drop(c.m, "S", 4))
  BY <1>5 DEF SystemCall
<1> HIDE DEF f
<1>7. IsFramed(f.m, k)
  BY <1>2, FrameIs
<1> HIDE DEF k
<1>8. IsMachine(k)
  BY <1>7 DEF IsFramed, Leads
<1>9. IsServed(k, f.ea, c)
  BY <1>1, <1>8, KnownServes
<1>10. m' = Finished(f, SystemReturn(c.m))
  BY <1>6, <1>9 DEF IsServed, Ends
<1>11. IsMachine(SystemReturn(c.m))
  BY <1>9, SystemReturnType DEF IsServed, Leads
<1>12. \A x \in Fields \ {"prev"} : m'[x] = SystemReturn(c.m)[x]
  BY <1>2, <1>3, <1>10, <1>11, FinishedType
<1>13. IsAnswered(k, c)
  BY <1>7, <1>9, <1>12 DEF IsAnswered, f
<1>14. QED
  BY <1>13

LEMMA FunctionKeeps ==
    ASSUME CpuInv, NEW k, NEW c, IsAnswered(k, c),
           NEW w, Alters(k, c.m, w)
    PROVE  /\ m'.PC = Decoded.m.PC /\ m'.S = Decoded.m.S /\ m'.Y = Decoded.m.Y /\ m'.DP = Decoded.m.DP
           /\ w \cap FrameBytes(Decoded.m) = {} => m'.U = Decoded.m.U
           /\ Changed(m') \subseteq FrameBytes(Decoded.m) \cup w
<1> DEFINE f == Decoded
           n == Decoded.m
           r == SystemReturn(c.m)
           sp == n.S
<1>1. IsMachine(n) /\ n.ram = m.ram
  BY DecodedType DEF IsDecoded, Leads, FetchFields, Fields
<1>2. IsFramed(n, k) /\ IsServed(k, f.ea, c) /\ \A x \in Fields \ {"prev"} : m'[x] = r[x]
  BY DEF IsAnswered
<1> HIDE DEF n
<1>3. IsMachine(c.m)
  BY <1>2 DEF IsServed, Leads
<1>4. /\ r.S = Wrap(c.m.S + 6) /\ r.U = Top16(c.m, "S") /\ r.ram = c.m.ram
      /\ r.PC = c.m.PC /\ r.Y = c.m.Y /\ r.DP = c.m.DP
  BY <1>3, ReturnIs
<1> HIDE DEF r
<1>5. c.m.PC = k.PC /\ c.m.Y = k.Y /\ c.m.DP = k.DP /\ c.m.S = k.S
  BY <1>2 DEF IsServed, Leads, Answers, Fields
<1>6. k.PC = n.PC /\ k.Y = n.Y /\ k.DP = n.DP /\ k.S = Wrap(sp - 6) /\ Top16(k, "S") = n.U
  BY <1>2 DEF IsFramed, Leads, Fields
<1>7. /\ m'.PC = r.PC /\ m'.Y = r.Y /\ m'.DP = r.DP /\ m'.S = r.S /\ m'.U = r.U /\ m'.ram = r.ram
  BY <1>2 DEF Fields
<1>8. sp \in Int /\ Wrap(sp) = sp
  <2>1. sp \in Word
    BY <1>1, RegisterTypes
  <2>2. QED
    BY <2>1, WordsOfBytes, WrapOfWord
<1> HIDE DEF sp
<1>9. Wrap(Wrap(sp - 6) + 6) = sp /\ Wrap(Wrap(sp - 6) + 1) = Wrap(sp - 5)
  <2> DEFINE x == sp - 6
  <2>1. x \in Int /\ x + 6 = sp /\ x + 1 = sp - 5
    BY <1>8
  <2> HIDE DEF x
  <2>2. \A y \in Int : Wrap(Wrap(x) + y) = Wrap(x + y)
    BY <2>1, WrapOfSum
  <2>3. 6 \in Int /\ 1 \in Int
    OBVIOUS
  <2>4. QED
    BY <1>8, <2>1, <2>2, <2>3 DEF x
<1>10. m'.S = sp
  BY <1>4, <1>5, <1>6, <1>7, <1>9
<1>11. Alters(k, c.m, w)
  OBVIOUS
<1>12. ASSUME w \cap FrameBytes(n) = {} PROVE m'.U = n.U
  <2>1. Wrap(sp - 6) \in FrameBytes(n) /\ Wrap(sp - 5) \in FrameBytes(n)
    <3>1. 6 \in 1 .. 6 /\ 5 \in 1 .. 6
      OBVIOUS
    <3>2. QED
      BY <3>1 DEF FrameBytes, sp
  <2>2. /\ load8(c.m, Wrap(sp - 6)) = load8(k, Wrap(sp - 6))
        /\ load8(c.m, Wrap(sp - 5)) = load8(k, Wrap(sp - 5))
    BY <1>11, <1>12, <2>1 DEF Alters
  <2>3. Top16(c.m, "S") = Top16(k, "S")
    BY <1>5, <1>6, <1>9, <2>2 DEF Top16
  <2>4. QED
    BY <1>4, <1>6, <1>7, <2>3
<1>13. Alters(m, m', FrameBytes(n) \cup w)
  <2>1. Alters(m, n, {}) /\ Alters(c.m, m', {})
    BY <1>1, <1>4, <1>7, AltersNothing
  <2>2. Alters(n, k, FrameBytes(n))
    BY <1>2 DEF IsFramed
  <2>3. QED
    BY <1>11, <2>1, <2>2 DEF Alters
<1>14. Changed(m') \subseteq FrameBytes(n) \cup w
  BY <1>13, AltersChanged
<1>15. QED
  BY <1>4, <1>5, <1>6, <1>7, <1>10, <1>12, <1>14 DEF n, sp

(* The buffer as the program pushed it *)
LEMMA BufferIs ==
    ASSUME NEW n, IsMachine(n), NEW k, IsFramed(n, k)
    PROVE  Buffer(k) = {Wrap(Top16(n, "S") + i) : i \in 0 .. Top16(Drop(n, "S", 2), "S") - 1}
<1> DEFINE sp == n.S
           j == Drop(n, "S", 2)
<1>1. sp \in Int /\ Wrap(sp) = sp
  <2>1. sp \in Word
    BY RegisterTypes
  <2>2. QED
    BY <2>1, WordsOfBytes, WrapOfWord
<1>2. 0 \in 0 .. 2 /\ 2 \in 0 .. 2 /\ 0 + 1 = 1 /\ 2 + 1 = 3
  OBVIOUS
<1>3. /\ getArg(k, 0, 2) = 256 * load8(n, Wrap(sp + 0)) + load8(n, Wrap(sp + 1))
      /\ getArg(k, 2, 2) = 256 * load8(n, Wrap(sp + 2)) + load8(n, Wrap(sp + 3))
  BY <1>2, ArgumentIs
<1>4. "S" \in Stacks /\ 2 \in Int /\ "S" \in Fields /\ "ram" \in Fields \ {"S"}
  BY DEF Stacks, Fields
<1>5. j.S = Wrap(sp + 2) /\ j.ram = n.ram
  BY <1>4, DropType DEF Leads
<1> HIDE DEF sp, j
<1>6. Wrap(Wrap(sp + 2) + 1) = Wrap(sp + 3) /\ sp + 0 = sp
  <2> DEFINE x == sp + 2
  <2>1. x \in Int /\ 1 \in Int /\ x + 1 = sp + 3 /\ sp + 0 = sp
    BY <1>1
  <2> HIDE DEF x
  <2>2. Wrap(Wrap(x) + 1) = Wrap(x + 1)
    BY <2>1, WrapOfSum
  <2>3. QED
    BY <2>1, <2>2 DEF x
<1>7. Top16(n, "S") = getArg(k, 0, 2)
  BY <1>1, <1>3, <1>6 DEF Top16, sp
<1>8. \A x : load8(j, x) = load8(n, x)
  BY <1>5, LoadsAlike
<1>9. Top16(j, "S") = getArg(k, 2, 2)
  BY <1>3, <1>5, <1>6, <1>8 DEF Top16
<1>10. QED
  BY <1>7, <1>9 DEF Buffer, j

(* Whatever program runs: a system function comes back behind its call,    *)
(* with both stack pointers, Y and DP as they were, and has written        *)
(* nothing but its answer, the six bytes of its frame and, if it is        *)
(* format, the buffer, if it is ldLine, at most one record; U is lost only *)
(* to a buffer or record that lies over the frame (BOSS9.cpp, call(), and  *)
(* what execute() pushes and pops around it).                              *)
THEOREM FunctionsReturn == Spec => CallsReturn
<1> DEFINE n == Decoded.m
           Returned == /\ m'.PC = n.PC /\ m'.S = n.S /\ m'.Y = n.Y /\ m'.DP = n.DP
                       /\ \E w \in Writable(n, Decoded.ea) :
                             /\ Changed(m') \subseteq FrameBytes(n) \cup w
                             /\ w \cap FrameBytes(n) = {} => m'.U = n.U
<1>1. ASSUME CpuInv, Next, Called(Known) PROVE Returned
  <2>1. PICK k : \E c : IsAnswered(k, c)
    BY <1>1, FunctionReturns
  <2>2. PICK c : IsAnswered(k, c)
    BY <2>1
  <2>3. IsMachine(n) /\ IsFramed(n, k)
    BY <1>1, <2>2, DecodedType DEF IsAnswered, IsDecoded, Leads
  <2>4. Writable(n, Decoded.ea) = Writes(k, Decoded.ea)
    <3>1. Buffer(k) = {Wrap(Top16(n, "S") + i) : i \in 0 .. Top16(Drop(n, "S", 2), "S") - 1}
      BY <2>3, BufferIs
    <3>2. QED
      BY <3>1, Zenon DEF Writable, Writes
  <2>5. PICK w \in Writable(n, Decoded.ea) : Alters(k, c.m, w)
    BY <2>2, <2>4 DEF IsAnswered, IsServed
  <2>6. QED
    BY <1>1, <2>2, <2>5, FunctionKeeps
<1>2. CpuInv /\ [Next]_vars => [Called(Known) => Returned]_vars
  BY <1>1
<1>3. QED
  BY <1>2, InitType, InvStep, PTL DEF Spec, CallsReturn

-----------------------------------------------------------------------------
(* Quotients *)

LEMMA DivisionIs == ASSUME NEW x \in Nat, NEW y \in Nat, y # 0
    PROVE  /\ x \div y \in Nat /\ x \div y <= x
           /\ x - (x \div y) * y \in Int /\ 0 <= x - (x \div y) * y /\ x - (x \div y) * y < y
           /\ y # 1 /\ x # 0 => x \div y < x
<1> DEFINE q == x \div y
           r == x % y
<1>1. q \in Int /\ r \in Int /\ x = y * q + r /\ 0 <= r /\ r < y
  OBVIOUS
<1> HIDE DEF q, r
<1>2. q >= 0
  <2> SUFFICES ASSUME q < 0 PROVE FALSE
    BY <1>1
  <2>1. y * q <= y * (-1)
    BY <1>1
  <2>2. QED
    BY <1>1, <2>1
<1>3. y * q >= q /\ (y # 1 /\ q # 0 => y * q > q)
  BY <1>1, <1>2
<1>4. q <= x /\ (y # 1 /\ x # 0 => q < x)
  BY <1>1, <1>2, <1>3
<1>5. x - q * y = r
  BY <1>1
<1>6. QED
  BY <1>1, <1>2, <1>4, <1>5 DEF q

(* A quotient rounded towards 0 *)
RoundsToZero(q, a, b) == /\ Magnitude(a - q * b) < Magnitude(b)
                         /\ a - q * b = 0 \/ (a - q * b < 0 <=> a < 0)

LEMMA DividedRounds == ASSUME NEW a \in Int, NEW b \in Int, b # 0
    PROVE  /\ Divided(a, b) \in Int /\ RoundsToZero(Divided(a, b), a, b)
           /\ Magnitude(Divided(a, b)) <= Magnitude(a)
           /\ Divided(a, b) > 0 => (a < 0 <=> b < 0)
           /\ b # 1 /\ b # -1 /\ a # 0 => Magnitude(Divided(a, b)) < Magnitude(a)
<1> DEFINE x == Magnitude(a)
           y == Magnitude(b)
           p == x \div y
           q == Divided(a, b)
           s == x - p * y
<1>1. x \in Nat /\ y \in Nat /\ y # 0 /\ (b # 1 /\ b # -1 => y # 1) /\ (a # 0 => x # 0)
  BY DEF Magnitude
<1>2. x = (IF a < 0 THEN -a ELSE a) /\ y = (IF b < 0 THEN -b ELSE b)
  BY DEF Magnitude
<1>3. q = IF (a < 0) # (b < 0) THEN -p ELSE p
  BY DEF Divided
<1> HIDE DEF x, y, q
<1>4. p \in Nat /\ p <= x /\ s \in Int /\ 0 <= s /\ s < y /\ (y # 1 /\ x # 0 => p < x)
  BY <1>1, DivisionIs
<1>5. s = x - p * y
  OBVIOUS
<1> HIDE DEF p, s
<1>6. a - q * b = IF a < 0 THEN -s ELSE s
  <2>1. CASE a < 0 /\ b < 0
    <3>1. q = p /\ b = -y /\ a = -x
      BY <1>2, <1>3, <2>1
    <3>2. p * (-y) = -(p * y)
      BY <1>1, <1>4
    <3>3. QED
      BY <1>1, <1>4, <1>5, <2>1, <3>1, <3>2
  <2>2. CASE a < 0 /\ ~(b < 0)
    <3>1. q = -p /\ b = y /\ a = -x
      BY <1>2, <1>3, <2>2
    <3>2. (-p) * y = -(p * y)
      BY <1>1, <1>4
    <3>3. QED
      BY <1>1, <1>4, <1>5, <2>2, <3>1, <3>2
  <2>3. CASE ~(a < 0) /\ b < 0
    <3>1. q = -p /\ b = -y /\ a = x
      BY <1>2, <1>3, <2>3
    <3>2. (-p) * (-y) = p * y
      BY <1>1, <1>4
    <3>3. QED
      BY <1>1, <1>4, <1>5, <2>3, <3>1, <3>2
  <2>4. CASE ~(a < 0) /\ ~(b < 0)
    BY <1>2, <1>3, <1>5, <2>4
  <2>5. QED
    BY <2>1, <2>2, <2>3, <2>4
<1>7. RoundsToZero(q, a, b)
  <2> DEFINE r == a - q * b
  <2>1. r = IF a < 0 THEN -s ELSE s
    BY <1>6
  <2> HIDE DEF r
  <2>2. Magnitude(r) = s /\ (r = 0 \/ (r < 0 <=> a < 0))
    BY <1>4, <2>1 DEF Magnitude
  <2>3. Magnitude(b) = y
    BY DEF y
  <2>4. QED
    BY <1>4, <2>2, <2>3 DEF RoundsToZero, r
<1>8. q \in Int /\ Magnitude(q) = p /\ (q > 0 => (a < 0 <=> b < 0))
  BY <1>3, <1>4 DEF Magnitude
<1>9. QED
  BY <1>1, <1>4, <1>7, <1>8 DEF q, x

(* The quotient of two numbers of 8 or 16 bits is one, but for the least   *)
(* number by -1.                                                           *)
LEMMA SignedQuotient ==
    ASSUME NEW half \in {128, 32768}, NEW a \in Int, -half <= a, a < half,
           NEW b \in Int, b # 0, ~(a = -half /\ b = -1)
    PROVE  -half <= Divided(a, b) /\ Divided(a, b) < half
<1> DEFINE q == Divided(a, b)
<1>1. /\ q \in Int /\ Magnitude(q) <= Magnitude(a) /\ (q > 0 => (a < 0 <=> b < 0))
      /\ b # 1 /\ b # -1 /\ a # 0 => Magnitude(q) < Magnitude(a)
  BY DividedRounds
<1> HIDE DEF q
<1>2. half \in Int /\ half > 0
  OBVIOUS
<1>3. Magnitude(q) <= half /\ (a # -half => Magnitude(q) < half)
  BY <1>1, <1>2 DEF Magnitude
<1>4. a = -half /\ b # 1 => Magnitude(q) < half
  BY <1>1, <1>2 DEF Magnitude
<1>5. b = 1 => q <= 0 \/ a >= 0
  BY <1>1
<1>6. QED
  BY <1>1, <1>2, <1>3, <1>4, <1>5 DEF q, Magnitude

LEMMA SignedBack ==
    /\ \A q \in Int : -32768 <= q /\ q < 32768 => Signed16(Wrap(Wrap(q))) = q
    /\ \A q \in Int : -128 <= q /\ q < 128 => Signed8(Wrap(q) % 256) = q
<1>1. ASSUME NEW q \in Int, -32768 <= q, q < 32768 PROVE Signed16(Wrap(Wrap(q))) = q
  BY <1>1 DEF Signed16, Wrap
<1>2. ASSUME NEW q \in Int, -128 <= q, q < 128 PROVE Signed8(Wrap(q) % 256) = q
  BY <1>2 DEF Signed8, Wrap
<1>3. QED
  BY <1>1, <1>2

(* What a division of the bits of its operands leaves in the register *)
LEMMA WideQuotient ==
    ASSUME NEW a \in Word, NEW b \in Word, b # 0
    PROVE  /\ RoundsToZero(Wrap(Wrap(a \div b)), a, b)
           /\ LET q == Wrap(Wrap(Divided(Signed16(a), Signed16(b))))
              IN  \/ RoundsToZero(Signed16(q), Signed16(a), Signed16(b))
                  \/ q = 32768 /\ a = 32768 /\ b = 65535
<1> DEFINE x == Signed16(a)
           y == Signed16(b)
           p == a \div b
           s == Divided(x, y)
<1>1. a \in Nat /\ b \in Nat /\ a < 65536 /\ b < 65536
  BY WordRange
<1>2. /\ x \in Int /\ y \in Int /\ -32768 <= x /\ x < 32768 /\ y # 0
      /\ x = -32768 => a = 32768
      /\ y = -1 => b = 65535
  BY <1>1 DEF Signed16
<1>3. p \in Int /\ 0 <= p /\ p < 65536 /\ 0 <= a - p * b /\ a - p * b < b /\ a - p * b \in Int
  BY <1>1, DivisionIs
<1> HIDE DEF x, y, p
<1>4. Wrap(Wrap(p)) = p
  BY <1>3, WrapBetween
<1>5. RoundsToZero(p, a, b)
  <2> DEFINE r == a - p * b
  <2>1. r \in Int /\ 0 <= r /\ r < b
    BY <1>3
  <2> HIDE DEF r
  <2>2. Magnitude(r) < Magnitude(b) /\ ~(r < 0) /\ ~(a < 0)
    BY <1>1, <2>1 DEF Magnitude
  <2>3. QED
    BY <2>2 DEF RoundsToZero, r
<1>6. CASE x = -32768 /\ y = -1
  <2>1. s = 32768
    BY <1>6 DEF Divided, Magnitude
  <2>2. Wrap(Wrap(s)) = 32768
    BY <2>1 DEF Wrap
  <2>3. QED
    BY <1>2, <1>4, <1>5, <1>6, <2>2 DEF p, x, y
<1>7. CASE ~(x = -32768 /\ y = -1)
  <2>1. s \in Int /\ RoundsToZero(s, x, y)
    BY <1>2, DividedRounds
  <2>2. -32768 <= s /\ s < 32768
    BY <1>2, <1>7, SignedQuotient
  <2> HIDE DEF s
  <2>3. Signed16(Wrap(Wrap(s))) = s
    BY <2>1, <2>2, SignedBack
  <2>4. QED
    BY <1>4, <1>5, <2>1, <2>3 DEF p, s, x, y
<1>8. QED
  BY <1>6, <1>7

LEMMA NarrowQuotient ==
    ASSUME NEW a \in Byte, NEW b \in Byte, b # 0
    PROVE  /\ RoundsToZero(Wrap(a \div b) % 256, a, b)
           /\ LET q == Wrap(Divided(Signed8(a), Signed8(b))) % 256
              IN  \/ RoundsToZero(Signed8(q), Signed8(a), Signed8(b))
                  \/ q = 128 /\ a = 128 /\ b = 255
<1> DEFINE x == Signed8(a)
           y == Signed8(b)
           p == a \div b
           s == Divided(x, y)
<1>1. a \in Nat /\ b \in Nat /\ a < 256 /\ b < 256
  BY ByteRange
<1>2. /\ x \in Int /\ y \in Int /\ -128 <= x /\ x < 128 /\ y # 0
      /\ x = -128 => a = 128
      /\ y = -1 => b = 255
  BY <1>1 DEF Signed8
<1>3. p \in Int /\ 0 <= p /\ p < 256 /\ 0 <= a - p * b /\ a - p * b < b /\ a - p * b \in Int
  BY <1>1, DivisionIs
<1> HIDE DEF x, y, p
<1>4. Wrap(p) % 256 = p
  BY <1>3 DEF Wrap
<1>5. RoundsToZero(p, a, b)
  <2> DEFINE r == a - p * b
  <2>1. r \in Int /\ 0 <= r /\ r < b
    BY <1>3
  <2> HIDE DEF r
  <2>2. Magnitude(r) < Magnitude(b) /\ ~(r < 0) /\ ~(a < 0)
    BY <1>1, <2>1 DEF Magnitude
  <2>3. QED
    BY <2>2 DEF RoundsToZero, r
<1>6. CASE x = -128 /\ y = -1
  <2>1. s = 128
    BY <1>6 DEF Divided, Magnitude
  <2>2. Wrap(s) % 256 = 128
    BY <2>1 DEF Wrap
  <2>3. QED
    BY <1>2, <1>4, <1>5, <1>6, <2>2 DEF p, x, y
<1>7. CASE ~(x = -128 /\ y = -1)
  <2>1. s \in Int /\ RoundsToZero(s, x, y)
    BY <1>2, DividedRounds
  <2>2. -128 <= s /\ s < 128
    BY <1>2, <1>7, SignedQuotient
  <2> HIDE DEF s
  <2>3. Signed8(Wrap(s) % 256) = s
    BY <2>1, <2>2, SignedBack
  <2>4. QED
    BY <1>4, <1>5, <2>1, <2>3 DEF p, s, x, y
<1>8. QED
  BY <1>6, <1>7

(* The operands as the program pushed them *)
ByteAt(n, a) == load8(n, Wrap(n.S + a))
WordAt(n, a) == 256 * ByteAt(n, a) + ByteAt(n, a + 1)
Divisions == {idiv8, idiv16, udiv8, udiv16}

LEMMA DivisionNumbers ==
    /\ Divisions \subseteq Known
    /\ \A func \in Divisions : \A n : Call(n, func) = Divide(n, func)
    /\ udiv16 \notin {idiv8, idiv16, udiv8} /\ idiv16 \notin {idiv8, udiv8} /\ udiv8 # idiv8
<1>1. SystemAddrStart \in Int
  BY FunctionNumbers
<1>2. \A i \in Int, j \in Int : Function(i) = Function(j) => i = j
  BY <1>1 DEF Function
<1>3. \A func \in Divisions :
         func \notin {putc, puts, ldStart, ldEnd, printf, getc, ldLine, format, switch1, switch2}
  BY <1>2 DEF Divisions, idiv8, idiv16, udiv8, udiv16, putc, puts, ldStart, ldEnd, printf, getc, ldLine,
     format, switch1, switch2
<1>4. \A func \in Divisions : \A n : Call(n, func) = Divide(n, func)
  BY <1>3, Zenon DEF Call, Divisions
<1>5. udiv16 \notin {idiv8, idiv16, udiv8} /\ idiv16 \notin {idiv8, udiv8} /\ udiv8 # idiv8
  BY <1>2 DEF idiv8, idiv16, udiv8, udiv16
<1>6. QED
  BY <1>4, <1>5 DEF Divisions, Known

LEMMA DivisionAnswers ==
    ASSUME CpuInv, Next, NEW func \in Divisions, Called({func})
    PROVE  /\ Wide(func) /\ WordAt(Decoded.m, 2) # 0 =>
                 getReg(m', "D") = Wrap(Wrap(Quotient(func, WordAt(Decoded.m, 0), WordAt(Decoded.m, 2))))
           /\ ~Wide(func) /\ ByteAt(Decoded.m, 1) # 0 =>
                 m'.A = Wrap(Quotient(func, ByteAt(Decoded.m, 0), ByteAt(Decoded.m, 1))) % 256
<1> DEFINE n == Decoded.m
<1>1. Called(Known) /\ Decoded.ea = func
  BY DivisionNumbers DEF Called
<1>2. PICK k : \E c : IsAnswered(k, c)
  BY <1>1, FunctionReturns
<1>3. PICK c : IsAnswered(k, c)
  BY <1>2
<1>4. IsMachine(n) /\ IsFramed(n, k) /\ c \in Divide(k, func) /\ IsServed(k, func, c)
  BY <1>1, <1>3, DecodedType, DivisionNumbers DEF IsAnswered, IsDecoded, Leads
<1>5. m'.A = SystemReturn(c.m).A /\ m'.B = SystemReturn(c.m).B
  BY <1>3 DEF IsAnswered, Fields
<1> HIDE DEF n
<1>6. IsMachine(k) /\ IsMachine(c.m)
  BY <1>4 DEF IsFramed, IsServed, Leads
<1>7. m'.A = c.m.A /\ m'.B = c.m.B
  BY <1>5, <1>6, ReturnIs
<1>8. \A j : getReg(j, "D") = 256 * j.A + j.B
  BY DEF getReg, Paged, ByteRegs, WordRegs
<1>9. getReg(m', "D") = getReg(c.m, "D")
  BY <1>7, <1>8
<1>10. 0 \in 0 .. 2 /\ 2 \in 0 .. 2 /\ 0 \in 0 .. 3 /\ 1 \in 0 .. 3
  OBVIOUS
<1>11. /\ getArg(k, 0, 2) = WordAt(n, 0) /\ getArg(k, 2, 2) = WordAt(n, 2)
       /\ getArg(k, 0, 1) = ByteAt(n, 0) /\ getArg(k, 1, 1) = ByteAt(n, 1)
  BY <1>4, <1>10, ArgumentIs DEF WordAt, ByteAt
<1>12. QED
  BY <1>4, <1>6, <1>7, <1>9, <1>11, DivideServes DEF n

LEMMA OperandTypes == ASSUME NEW n, IsMachine(n)
    PROVE  \A a : ByteAt(n, a) \in Byte /\ WordAt(n, a) \in Word
BY LoadType, WordOfBytes DEF ByteAt, WordAt

(* Whatever program runs: the four division functions leave in A or D the  *)
(* quotient of what was pushed, rounded towards zero, of the remainder     *)
(* smaller than the divisor; the least number by -1 gives itself           *)
(* (BOSS9.cpp:242-258).                                                    *)
THEOREM QuotientsHold == Spec => QuotientsAreRight
<1> DEFINE n == Decoded.m
           byte(a) == load8(n, Wrap(n.S + a))
           word(a) == 256 * byte(a) + byte(a + 1)
           d == getReg(m', "D")
           IsQuotient(q, a, b) == LET r == a - q * b
                                  IN  b # 0 => /\ Magnitude(r) < Magnitude(b)
                                               /\ r = 0 \/ (r < 0 <=> a < 0)
           U16 == Called({udiv16}) => IsQuotient(d, word(0), word(2))
           U8 == Called({udiv8}) => IsQuotient(m'.A, byte(0), byte(1))
           S16 == Called({idiv16}) => \/ IsQuotient(Signed16(d), Signed16(word(0)), Signed16(word(2)))
                                      \/ d = 32768 /\ word(0) = 32768 /\ word(2) = MaxWord
           S8 == Called({idiv8}) => \/ IsQuotient(Signed8(m'.A), Signed8(byte(0)), Signed8(byte(1)))
                                    \/ m'.A = 128 /\ byte(0) = 128 /\ byte(1) = 255
<1>1. ASSUME CpuInv, Next PROVE U16 /\ U8 /\ S16 /\ S8
  <2>1. IsMachine(n)
    BY <1>1, DecodedType DEF IsDecoded, Leads
  <2>2. \A a : byte(a) = ByteAt(n, a) /\ word(a) = WordAt(n, a)
    BY DEF ByteAt, WordAt
  <2>3. \A a : byte(a) \in Byte /\ word(a) \in Word
    BY <2>1, <2>2, OperandTypes
  <2>4. \A q, a, b : b = 0 \/ RoundsToZero(q, a, b) => IsQuotient(q, a, b)
    BY DEF RoundsToZero
  <2>5. Signed16(0) = 0 /\ Signed8(0) = 0
    BY DEF Signed16, Signed8
  <2>6. /\ udiv16 \in Divisions /\ idiv16 \in Divisions /\ udiv8 \in Divisions /\ idiv8 \in Divisions
        /\ Wide(udiv16) /\ Wide(idiv16) /\ ~Wide(udiv8) /\ ~Wide(idiv8)
    BY DivisionNumbers DEF Divisions, Wide
  <2>7. \A a, b : /\ Quotient(udiv16, a, b) = a \div b /\ Quotient(udiv8, a, b) = a \div b
                  /\ Quotient(idiv16, a, b) = Divided(Signed16(a), Signed16(b))
                  /\ Quotient(idiv8, a, b) = Divided(Signed8(a), Signed8(b))
    BY DivisionNumbers DEF Quotient
  <2>8. ASSUME NEW func \in Divisions, Called({func})
        PROVE  /\ Wide(func) /\ word(2) # 0 => d = Wrap(Wrap(Quotient(func, word(0), word(2))))
               /\ ~Wide(func) /\ byte(1) # 0 => m'.A = Wrap(Quotient(func, byte(0), byte(1))) % 256
    BY <1>1, <2>2, <2>8, DivisionAnswers
  <2> HIDE DEF n, byte, word, IsQuotient, d
  <2>9. U16
    BY <2>3, <2>4, <2>6, <2>7, <2>8, WideQuotient
  <2>10. U8
    BY <2>3, <2>4, <2>6, <2>7, <2>8, NarrowQuotient
  <2>11. S16
    BY <2>3, <2>4, <2>5, <2>6, <2>7, <2>8, WideQuotient DEF MaxWord
  <2>12. S8
    BY <2>3, <2>4, <2>5, <2>6, <2>7, <2>8, NarrowQuotient
  <2>13. QED
    BY <2>9, <2>10, <2>11, <2>12
<1>2. CpuInv /\ [Next]_vars => [U16 /\ U8 /\ S16 /\ S8]_vars
  BY <1>1
<1>3. QED
  BY <1>2, InitType, InvStep, PTL DEF Spec, QuotientsAreRight

-----------------------------------------------------------------------------
(* The instructions behind prefixes *)

(* The bits that the flags of a difference d of two words are made of *)
LEMMA BorrowBits == ASSUME NEW d \in Int, -65536 < d, d < 65536, NEW n, n = d % 131072
    PROVE  /\ Bit(n, 65536) = IF d < 0 THEN 1 ELSE 0
           /\ Bit(n, 32768) = IF (d < 0 /\ d >= -32768) \/ d >= 32768 THEN 1 ELSE 0
           /\ n % 65536 = 0 <=> d = 0
<1>1. n = IF d < 0 THEN d + 131072 ELSE d
  OBVIOUS
<1>2. CASE d < -32768
  <2>1. n \div 65536 = 1 /\ n \div 32768 = 2
    BY <1>1, <1>2
  <2>2. QED
    BY <1>1, <1>2, <2>1 DEF Bit
<1>3. CASE -32768 <= d /\ d < 0
  <2>1. n \div 65536 = 1 /\ n \div 32768 = 3
    BY <1>1, <1>3
  <2>2. QED
    BY <1>1, <1>3, <2>1 DEF Bit
<1>4. CASE 0 <= d /\ d < 32768
  <2>1. n \div 65536 = 0 /\ n \div 32768 = 0
    BY <1>1, <1>4
  <2>2. QED
    BY <1>1, <1>4, <2>1 DEF Bit
<1>5. CASE 32768 <= d
  <2>1. n \div 65536 = 0 /\ n \div 32768 = 1
    BY <1>1, <1>5
  <2>2. QED
    BY <1>1, <1>5, <2>1 DEF Bit
<1>6. QED
  BY <1>2, <1>3, <1>4, <1>5

LEMMA WordSign == ASSUME NEW n \in Word PROVE Bit(n, 32768) = IF n >= 32768 THEN 1 ELSE 0
<1>1. n \in Int /\ 0 <= n /\ n < 65536
  BY WordRange
<1>2. n \div 32768 = IF n >= 32768 THEN 1 ELSE 0
  BY <1>1
<1>3. QED
  BY <1>2 DEF Bit

(* A comparison leaves the order of its operands in the flags. *)
LEMMA DifferenceCompares == ASSUME NEW l \in Word, NEW r \in Word, NEW x \in CC
    PROVE  /\ IsOut(SUB16(l, r, x)) /\ ComparedAs(SUB16(l, r, x).cc, l, r)
           /\ Wrap(SUB16(l, r, x).result) = Wrap(l - r)
<1> DEFINE d == l - r
           n == d % 131072
           z == Flag(n % 65536 = 0)
           s == Bit(n, 32768)
           b == Bit(n, 65536)
           v == Parity(Bit(l, 32768) + Bit(r, 32768) + s + b)
           y == [[[x EXCEPT !.Z = z, !.N = s] EXCEPT !.V = v] EXCEPT !.C = b]
<1>1. l \in Int /\ r \in Int /\ 0 <= l /\ l < 65536 /\ 0 <= r /\ r < 65536
  BY WordRange
<1>2. SUB16(l, r, x) = Out(n, xNZVC16(x, l, r, n))
  BY DEF SUB16, ResultModulus
<1>3. xNZVC16(x, l, r, n) = y
  BY DEF xNZVC16, updateC16, updateV16, updateNZ16
<1>4. y.Z = z /\ y.N = s /\ y.V = v /\ y.C = b
  BY DEF CC
<1>5. d \in Int /\ -65536 < d /\ d < 65536 /\ d = l - r
  BY <1>1
<1> HIDE DEF d, y
<1>6. /\ b = IF d < 0 THEN 1 ELSE 0
      /\ s = IF (d < 0 /\ d >= -32768) \/ d >= 32768 THEN 1 ELSE 0
      /\ n % 65536 = 0 <=> d = 0
  BY <1>5, BorrowBits
<1>7. /\ Bit(l, 32768) = IF l >= 32768 THEN 1 ELSE 0
      /\ Bit(r, 32768) = IF r >= 32768 THEN 1 ELSE 0
  BY WordSign
<1>8. n % 65536 = d % 65536
  BY <1>5
<1> HIDE DEF n, s, b
<1>9. s # v <=> Signed16(l) < Signed16(r)
  <2>1. v = Parity((IF l >= 32768 THEN 1 ELSE 0) + (IF r >= 32768 THEN 1 ELSE 0) + s + b)
    BY <1>7
  <2> HIDE DEF v
  <2>2. CASE d < 0
    BY <1>1, <1>5, <1>6, <2>1, <2>2 DEF Parity, Signed16
  <2>3. CASE d >= 0
    BY <1>1, <1>5, <1>6, <2>1, <2>3 DEF Parity, Signed16
  <2>4. QED
    BY <1>5, <2>2, <2>3
<1>10. z = 1 <=> l = r
  BY <1>1, <1>5, <1>6 DEF Flag
<1>11. b = 1 <=> l < r
  BY <1>1, <1>5, <1>6
<1> HIDE DEF z, v
<1>12. ComparedAs(y, l, r)
  BY <1>4, <1>9, <1>10, <1>11 DEF ComparedAs, BEQ, BLO, BLT, NxorV
<1>13. QED
  BY <1>2, <1>3, <1>8, <1>12, SumTypes DEF Out, Wrap, d

(* The rows of the 16 bit instructions a prefix may stand before *)
WideOps == {"SUB16", "CMP16", "LD16", "ST16"}
IsWideRow(o, op, reg, left) ==
    /\ o.op = op /\ o.reg = reg /\ o.left = left
    /\ \/ op # "ST16" /\ o.adr = "Immed16" /\ o.right = "None"
       \/ o.adr \in {"Direct", "Indexed", "Extended"} /\ o.right = IF op = "ST16" THEN "St16" ELSE "Ld16"

LEMMA WideRowIs ==
    ASSUME NEW i \in Byte, Row(i) > 7, i # 141, i # 156,
           NEW op, op = IF Row(i) < 12 THEN OpsOnA[Col(i) + 1] ELSE OpsOnB[Col(i) + 1],
           op \in WideOps, op = "ST16" => Row(i) % 4 # 0, Row(i) < 12 \/ Col(i) >= 14
    PROVE  IsWideRow(opcode(i), op, IF op = "SUB16" THEN "DDU" ELSE IF op = "CMP16" THEN "XYS"
                                    ELSE IF Row(i) < 12 THEN "XY" ELSE "US",
                     IF op = "LD16" THEN "St" ELSE "Ld")
<1> DEFINE onA == Row(i) < 12
           x == IF onA THEN OpsOnA[Col(i) + 1] ELSE OpsOnB[Col(i) + 1]
           wide == x \in {"SUB16", "ADD16", "CMP16", "LD16", "ST16"}
           immediate == Row(i) % 4 = 0
           adr == CASE immediate -> IF wide THEN "Immed16" ELSE "Immed8"
                    [] Row(i) % 4 = 1 -> "Direct" [] Row(i) % 4 = 2 -> "Indexed"
                    [] Row(i) % 4 = 3 -> "Extended"
           reg == IF x = "SUB16" THEN "DDU"
                  ELSE IF x = "CMP16" THEN IF i = 156 THEN "X" ELSE "XYS"
                  ELSE IF wide THEN IF onA THEN "XY" ELSE IF Col(i) < 14 THEN "D" ELSE "US"
                  ELSE IF onA THEN "A" ELSE "B"
           left == CASE x \in {"CMP8", "BIT", "ST8", "SUB16", "CMP16", "ST16"} -> "Ld"
                     [] x \in {"LD8", "LD16"} -> "St"
                     [] OTHER -> "LdSt"
           right == IF x = "ST8" THEN "St8" ELSE IF x = "ST16" THEN "St16"
                    ELSE IF immediate THEN "None"
                    ELSE IF wide /\ i # 156 THEN "Ld16" ELSE "Ld8"
           base == CASE immediate -> 2 [] Row(i) % 4 = 3 -> 5 [] OTHER -> 4
           cycles == CASE x \in {"SUB16", "ADD16", "CMP16"} -> base + 2
                       [] x \in {"LD16", "ST16"} -> base + 1
                       [] OTHER -> base
<1>1. Row(i) \in Int /\ Col(i) \in Int
  BY RowNumbers
<1>2. opcode(i) = Binary(i)
  <2>1. Row(i) \notin {0, 4, 5, 6, 7} /\ Row(i) # 1 /\ Row(i) # 2 /\ Row(i) # 3
    BY <1>1
  <2>2. QED
    BY <2>1 DEF opcode, opcodeTable, Byte
<1>3. Binary(i) = IF i = 141 THEN Plain("BSR", "Rel", 7)
                  ELSE IF immediate /\ x \in {"ST8", "ST16"} THEN Ill
                  ELSE IF x = "JSR" THEN Plain("JSR", adr, base + 3)
                  ELSE Opcode(x, reg, left, right, adr, cycles)
  BY Zenon DEF Binary
<1>41. x = op
  OBVIOUS
<1> HIDE DEF x
<1>4. x = "SUB16" \/ x = "CMP16" \/ x = "LD16" \/ x = "ST16"
  BY <1>41 DEF WideOps
<1>50. x # "JSR" /\ x # "ST8" /\ ~(immediate /\ x \in {"ST8", "ST16"})
  BY <1>4, <1>41
<1>5. Binary(i) = Opcode(x, reg, left, right, adr, cycles)
  <2> HIDE DEF adr, reg, left, right, base, cycles, immediate
  <2>1. QED
    BY <1>3, <1>50
<1>6. /\ adr = IF immediate THEN "Immed16" ELSE adr
      /\ immediate \/ adr \in {"Direct", "Indexed", "Extended"}
  <2>1. Row(i) % 4 = 0 \/ Row(i) % 4 = 1 \/ Row(i) % 4 = 2 \/ Row(i) % 4 = 3
    BY <1>1
  <2>2. wide
    BY <1>4
  <2> HIDE DEF wide
  <2>3. QED
    BY <2>1, <2>2
<1>7. right = IF x = "ST16" THEN "St16" ELSE IF immediate THEN "None" ELSE "Ld16"
  <2>1. wide /\ i # 156 /\ x # "ST8"
    BY <1>4
  <2> HIDE DEF wide, immediate
  <2>2. QED
    BY <2>1
<1>8. left = IF x = "LD16" THEN "St" ELSE "Ld"
  BY <1>4, Zenon
<1>9. reg = IF x = "SUB16" THEN "DDU" ELSE IF x = "CMP16" THEN "XYS" ELSE IF onA THEN "XY" ELSE "US"
  <2>1. onA \/ ~(Col(i) < 14)
    BY <1>1
  <2>2. wide
    BY <1>4
  <2> HIDE DEF wide, onA
  <2>3. QED
    BY <2>1, <2>2
<1> HIDE DEF adr, reg, left, right, cycles
<1>10. QED
  BY <1>2, <1>41, <1>5, <1>6, <1>7, <1>8, <1>9 DEF IsWideRow, Opcode

OpcodesOfSub == {131, 147, 163, 179}
OpcodesOfCmp == {140, 172, 188}
OpcodesOfLdX == {142, 158, 174, 190}
OpcodesOfStX == {159, 175, 191}
OpcodesOfLdU == {206, 222, 238, 254}
OpcodesOfStU == {223, 239, 255}

LEMMA WideRows == ASSUME NEW i \in Byte
    PROVE  /\ i \in OpcodesOfSub => IsWideRow(opcode(i), "SUB16", "DDU", "Ld")
           /\ i \in OpcodesOfCmp => IsWideRow(opcode(i), "CMP16", "XYS", "Ld")
           /\ i \in OpcodesOfLdX => IsWideRow(opcode(i), "LD16", "XY", "St")
           /\ i \in OpcodesOfStX => IsWideRow(opcode(i), "ST16", "XY", "Ld")
           /\ i \in OpcodesOfLdU => IsWideRow(opcode(i), "LD16", "US", "St")
           /\ i \in OpcodesOfStU => IsWideRow(opcode(i), "ST16", "US", "Ld")
<1>1. /\ OpsOnA[3 + 1] = "SUB16" /\ OpsOnA[12 + 1] = "CMP16" /\ OpsOnA[14 + 1] = "LD16"
      /\ OpsOnA[15 + 1] = "ST16" /\ OpsOnB[14 + 1] = "LD16" /\ OpsOnB[15 + 1] = "ST16"
  BY DEF OpsOnA, OpsOnB
<1>2. "SUB16" \in WideOps /\ "CMP16" \in WideOps /\ "LD16" \in WideOps /\ "ST16" \in WideOps
  BY DEF WideOps
<1>3. ASSUME i \in OpcodesOfSub PROVE Row(i) > 7 /\ Row(i) < 12 /\ Col(i) = 3 /\ i # 141 /\ i # 156
  BY <1>3 DEF OpcodesOfSub, Row, Col
<1>4. ASSUME i \in OpcodesOfCmp PROVE Row(i) > 7 /\ Row(i) < 12 /\ Col(i) = 12 /\ i # 141 /\ i # 156
  BY <1>4 DEF OpcodesOfCmp, Row, Col
<1>5. ASSUME i \in OpcodesOfLdX PROVE Row(i) > 7 /\ Row(i) < 12 /\ Col(i) = 14 /\ i # 141 /\ i # 156
  BY <1>5 DEF OpcodesOfLdX, Row, Col
<1>6. ASSUME i \in OpcodesOfStX
      PROVE  Row(i) > 7 /\ Row(i) < 12 /\ Row(i) % 4 # 0 /\ Col(i) = 15 /\ i # 141 /\ i # 156
  BY <1>6 DEF OpcodesOfStX, Row, Col
<1>7. ASSUME i \in OpcodesOfLdU PROVE Row(i) > 7 /\ ~(Row(i) < 12) /\ Col(i) = 14 /\ i # 141 /\ i # 156
  BY <1>7 DEF OpcodesOfLdU, Row, Col
<1>8. ASSUME i \in OpcodesOfStU
      PROVE  Row(i) > 7 /\ ~(Row(i) < 12) /\ Row(i) % 4 # 0 /\ Col(i) = 15 /\ i # 141 /\ i # 156
  BY <1>8 DEF OpcodesOfStU, Row, Col
<1>9. i \in OpcodesOfSub => IsWideRow(opcode(i), "SUB16", "DDU", "Ld")
  BY <1>1, <1>2, <1>3, WideRowIs
<1>10. i \in OpcodesOfCmp => IsWideRow(opcode(i), "CMP16", "XYS", "Ld")
  BY <1>1, <1>2, <1>4, WideRowIs
<1>11. i \in OpcodesOfLdX => IsWideRow(opcode(i), "LD16", "XY", "St")
  BY <1>1, <1>2, <1>5, WideRowIs
<1>12. i \in OpcodesOfStX => IsWideRow(opcode(i), "ST16", "XY", "Ld")
  BY <1>1, <1>2, <1>6, WideRowIs
<1>13. i \in OpcodesOfLdU => IsWideRow(opcode(i), "LD16", "US", "St")
  BY <1>1, <1>2, <1>7, WideRowIs
<1>14. i \in OpcodesOfStU => IsWideRow(opcode(i), "ST16", "US", "Ld")
  BY <1>1, <1>2, <1>8, WideRowIs
<1>15. QED
  BY <1>9, <1>10, <1>11, <1>12, <1>13, <1>14

(* A register read does not see _right. *)
LEMMA getRegKeeps == ASSUME NEW n, NEW k, NEW R, Leads(n, k, R), NEW reg,
                            \A x \in R : x \notin ByteRegs \cup WordRegs \cup {"cc", "prev"}
    PROVE  getReg(k, reg) = getReg(n, reg)
<1> DEFINE r == Paged(reg, n.prev)
<1>1. \A x \in ByteRegs \cup WordRegs \cup {"cc", "prev", "A", "B"} : k[x] = n[x]
  BY DEF Leads, Fields, ByteRegs, WordRegs
<1>2. k.prev = n.prev /\ k.cc = n.cc /\ k.A = n.A /\ k.B = n.B
  BY <1>1
<1>3. r \in ByteRegs \cup WordRegs => k[r] = n[r]
  BY <1>1
<1>4. \A j : j.prev = n.prev =>
         getReg(j, reg) = IF r \in ByteRegs \cup WordRegs THEN j[r]
                          ELSE IF r = "D" THEN 256 * j.A + j.B
                          ELSE IF r = "CC" THEN CcByte(j.cc) ELSE 0
  BY DEF getReg
<1> HIDE DEF r
<1>5. QED
  BY <1>2, <1>3, <1>4

(* The word behind an opcode is what an immediate operand is read from. *)
LEMMA ImmediateWord == ASSUME NEW n, IsMachine(n), NEW o, o = opcode(load8(n, n.PC)), o.adr = "Immed16"
    PROVE  \E k : /\ Fetch(n) = Fetched(k, o, 0) /\ Leads(n, k, FetchFields)
                  /\ k.right = load16(n, Wrap(n.PC + 1))
<1> DEFINE one == Skip(n, 1)
           k == AddCy(one, o.cycles)
           word == load16(k, k.PC)
           two == Skip(k, 2)
           j == WithRight(two, word)
<1>1. IsRow(o)
  BY LoadType, OpcodeIsRow
<1>2. Fetch(n) = FetchRow(k, o)
  BY DEF Fetch
<1>3. FetchRow(k, o) = Fetched(j, o, 0)
  BY DEF FetchRow
<1>4. 1 \in Int /\ 2 \in Int
  OBVIOUS
<1>5. IsMachine(one) /\ (\A x \in Fields \ {"PC"} : one[x] = n[x]) /\ one.PC = Wrap(n.PC + 1)
  <2>1. one.PC = Wrap(n.PC + 1)
    BY DEF Skip, IsMachine, Fields
  <2>2. QED
    BY <1>4, <2>1, SkipType
<1> HIDE DEF one
<1>6. IsMachine(k) /\ (\A x \in Fields \ {"cycles"} : k[x] = one[x])
  BY <1>1, <1>5, AddCyType DEF IsRow
<1> HIDE DEF k
<1>7. IsMachine(two) /\ (\A x \in Fields \ {"PC"} : two[x] = k[x])
  BY <1>4, <1>6, SkipType
<1>8. word \in Word /\ word = load16(n, Wrap(n.PC + 1))
  <2>1. k.PC = one.PC /\ k.ram = n.ram
    BY <1>5, <1>6 DEF Fields
  <2>2. \A a : load8(k, a) = load8(n, a)
    BY <2>1, LoadsAlike
  <2>3. k.PC = Wrap(n.PC + 1)
    BY <1>5, <2>1
  <2>4. QED
    BY <1>6, <2>2, <2>3, LoadType DEF load16
<1>9. j = With(two, "right", word) /\ HasType("right", word) /\ "right" \in Fields
  <2> HIDE DEF word, two
  <2>1. Wrap(word) = word
    BY <1>8, WrapOfWord
  <2>2. j = With(two, "right", word)
    BY <2>1 DEF WithRight, With
  <2>3. QED
    BY <1>8, <2>2 DEF HasType, Fields, ByteRegs, WordRegs
<1> HIDE DEF word, two, j
<1>10. IsMachine(j) /\ j.right = word /\ \A x \in Fields \ {"right"} : j[x] = two[x]
  BY <1>7, <1>9, FieldSet
<1>11. Leads(n, j, FetchFields)
  BY <1>5, <1>6, <1>7, <1>10 DEF Leads, FetchFields
<1>12. QED
  BY <1>2, <1>3, <1>8, <1>10, <1>11

(* The operands of such an instruction *)
WordOperand(n, f) == IF f.o.adr = "Immed16" THEN load16(n, Wrap(n.PC + 1)) ELSE load16(n, f.ea)

LEMMA WideDecoded ==
    ASSUME NEW n, IsMachine(n), NEW op, NEW reg, reg # "M8", NEW left,
           IsWideRow(opcode(load8(n, n.PC)), op, reg, left)
    PROVE  LET f == Loaded(Fetch(n))
           IN  /\ f.m.prev = n.prev /\ f.m.ram = n.ram
               /\ left = "Ld" => f.left = getReg(f.m, reg)
               /\ op # "ST16" => f.m.right = WordOperand(n, f)
<1> DEFINE o == opcode(load8(n, n.PC))
<1>1. IsRow(o) /\ IsFetched(n, Fetch(n), o) /\ IsWideRow(o, op, reg, left)
  BY FetchType
<1>2. o.adr = "Immed16" =>
         \E k : /\ Fetch(n) = Fetched(k, o, 0) /\ Leads(n, k, FetchFields)
                /\ k.right = load16(n, Wrap(n.PC + 1))
  BY ImmediateWord
<1> HIDE DEF o
<1>3. PICK k, e : /\ Leads(n, k, FetchFields) /\ e \in Int /\ Fetch(n) = Fetched(k, o, e)
                  /\ o.adr = "Immed16" => k.right = load16(n, Wrap(n.PC + 1))
  <2>1. CASE o.adr = "Immed16"
    BY <1>2, <2>1
  <2>2. CASE o.adr # "Immed16"
    BY <1>1, <2>2 DEF IsFetched
  <2>3. QED
    BY <2>1, <2>2
<1> DEFINE f0 == Fetched(k, o, e)
           r == RightOf(f0)
           f == Loaded(f0)
<1>4. f0.m = k /\ f0.o = o /\ f0.ea = Wrap(e)
  BY DEF Fetched
<1>5. f.m = With(k, "right", r) /\ f.o = o /\ f.ea = Wrap(e) /\ f.left = LeftOf(f0)
  BY DEF Loaded, Fetched, With
<1> HIDE DEF f0, f
<1>6. left = "Ld" => f.left = getReg(k, reg)
  BY <1>1, <1>4, <1>5 DEF LeftOf, IsWideRow
<1>7. IsMachine(k) /\ k.ram = n.ram /\ k.prev = n.prev
  BY <1>3 DEF Leads, Fields, FetchFields
<1>8. op # "ST16" => r = WordOperand(n, f)
  <2>1. \A a : load16(k, a) = load16(n, a)
    BY <1>7, LoadsAlike DEF load16
  <2>2. r = IF o.right = "Ld16" THEN load16(k, Wrap(e)) ELSE IF o.right = "Ld8" THEN load8(k, Wrap(e)) ELSE k.right
    BY <1>4 DEF RightOf
  <2> HIDE DEF r
  <2>3. ASSUME op # "ST16" PROVE r = WordOperand(n, f)
    <3>1. CASE o.adr = "Immed16"
      BY <1>1, <1>3, <1>5, <2>2, <2>3, <3>1 DEF WordOperand, IsWideRow
    <3>2. CASE o.adr # "Immed16"
      BY <1>1, <1>5, <2>1, <2>2, <2>3, <3>2 DEF WordOperand, IsWideRow
    <3>3. QED
      BY <3>1, <3>2
  <2>4. QED
    BY <2>3
<1>9. r \in Word
  <2>1. r = IF o.right = "Ld16" THEN load16(k, Wrap(e)) ELSE IF o.right = "Ld8" THEN load8(k, Wrap(e)) ELSE k.right
    BY <1>4 DEF RightOf
  <2>2. \A a : load8(k, a) \in Word /\ load16(k, a) \in Word
    BY <1>7, LoadType, WordsOfBytes
  <2>3. k.right \in Word
    BY <1>7, RegisterTypes
  <2> HIDE DEF r
  <2>4. QED
    BY <2>1, <2>2, <2>3
<1> HIDE DEF r
<1>10. "right" \in Fields /\ HasType("right", r)
  BY <1>9 DEF Fields, HasType, ByteRegs, WordRegs
<1>11. f.m.right = r /\ \A x \in Fields \ {"right"} : f.m[x] = k[x]
  BY <1>5, <1>7, <1>10, FieldSet
<1>12. Leads(k, f.m, {"right"})
  BY <1>5, <1>7, <1>10, LeadsTo
<1>13. getReg(f.m, reg) = getReg(k, reg)
  <2>1. \A x \in {"right"} : x \notin ByteRegs \cup WordRegs \cup {"cc", "prev"}
    BY DEF ByteRegs, WordRegs
  <2>2. QED
    BY <1>12, <2>1, getRegKeeps
<1>14. f.m.prev = n.prev /\ f.m.ram = n.ram
  BY <1>7, <1>11 DEF Fields
<1>15. f = Loaded(Fetch(n))
  BY <1>3 DEF f, f0
<1>16. QED
  BY <1>6, <1>8, <1>11, <1>13, <1>14, <1>15

(* A row's register is the one the prefix makes it. *)
LEMMA PagedAs == ASSUME NEW n, NEW reg, NEW r, Paged(reg, n.prev) = r, Paged(r, n.prev) = r, NEW v
    PROVE  getReg(n, reg) = getReg(n, r) /\ setReg(n, reg, v) = setReg(n, r, v)
BY DEF getReg, setReg

(* What an instruction on words has done when it ends, in terms of the     *)
(* machine n behind its fetch, the register r and the operand v            *)
Named == {"D", "X", "Y", "U", "S"}
Keeps(n, k, regs) == \A r \in AllRegisters \ regs : k[r] = n[r]

LEMMA LeadsKeeps == ASSUME NEW n, NEW k, NEW R, Leads(n, k, R) PROVE Keeps(n, k, R)
BY DEF Keeps, Leads, AllRegisters, Fields

LEMMA EndKeeps == ASSUME NEW n, NEW f, IsDecoded(n, f), NEW k, IsMachine(k)
    PROVE  \A x \in Fields \ {"prev"} : Finished(f, k)[x] = Stored(f, k)[x]
<1> DEFINE s == Stored(f, k)
<1>1. IsMachine(s)
  BY StoredType DEF Leads
<1>2. Finished(f, k) = With(s, "prev", "other")
  BY FinishedType
<1> HIDE DEF s
<1>3. "prev" \in Fields /\ HasType("prev", "other")
  BY DEF Fields, HasType, Prev, ByteRegs, WordRegs
<1>4. QED
  BY <1>1, <1>2, <1>3, FieldSet DEF s

LEMMA LeaveIs == ASSUME NEW n, IsMachine(n), NEW out, IsOut(out)
    PROVE  /\ Leads(n, Leave(n, out), {"result", "cc"})
           /\ Leave(n, out).result = out.result /\ Leave(n, out).cc = out.cc
           /\ Leave(n, out).prev = n.prev /\ Leave(n, out).ram = n.ram
<1> DEFINE k == Leave(n, out)
<1>1. Leads(n, k, {"result", "cc"})
  BY LeaveType
<1>2. k.result = out.result /\ k.cc = out.cc
  BY DEF Leave, IsMachine, Fields
<1> HIDE DEF k
<1>3. k.prev = n.prev /\ k.ram = n.ram
  BY <1>1 DEF Leads, Fields
<1>4. QED
  BY <1>1, <1>2, <1>3 DEF k

(* A comparison, and a subtraction where no prefix stands before it *)
LEMMA Compares ==
    ASSUME NEW n, NEW f, IsDecoded(n, f), f.o.op \in {"SUB16", "CMP16"},
           f.o.left = "Ld", f.o.right \notin {"St8", "St16"},
           f.o.op = "SUB16" => Paged(f.o.reg, f.m.prev) = "D" \/ f.m.prev \in Pages
    PROVE  LET e == Finished(f, Calculate(f))
           IN  /\ ComparedAs(e.cc, f.left, f.m.right)
               /\ Keeps(f.m, e, {"A", "B"})
               /\ f.o.op = "CMP16" \/ f.m.prev \in Pages => Keeps(f.m, e, {})
               /\ f.o.op = "SUB16" /\ f.m.prev \notin Pages =>
                     getReg(e, "D") = Wrap(f.left - f.m.right)
<1> DEFINE l == f.left
           r == f.m.right
           out == SUB16(l, r, f.m.cc)
           k == Leave(f.m, out)
           j == setReg(k, "D", k.result)
           c == Calculate(f)
           e == Finished(f, c)
           sub == f.o.op = "SUB16" /\ f.m.prev \notin Pages
<1>1. IsMachine(f.m) /\ l \in Word
  BY DEF IsDecoded, Leads
<1>2. IsOut(out) /\ ComparedAs(out.cc, l, r) /\ Wrap(out.result) = Wrap(l - r)
  BY <1>1, RegisterTypes, DifferenceCompares
<1>3. Calculated(f.o.op, l, r, f.m.cc) = out
  BY DEF Calculated
<1> HIDE DEF out, l, r
<1>4. /\ Leads(f.m, k, {"result", "cc"}) /\ k.result = out.result /\ k.cc = out.cc
      /\ k.prev = f.m.prev
  BY <1>1, <1>2, LeaveIs
<1>5. c = IF f.o.op = "SUB16" /\ k.prev \notin Pages THEN setReg(k, f.o.reg, k.result) ELSE k
  BY <1>3 DEF Calculate, l, r
<1> HIDE DEF k, c
<1>6. \A p : Paged("D", p) = "D"
  BY DEF Paged
<1>7. c = IF sub THEN j ELSE k
  BY <1>4, <1>5, <1>6, PagedAs
<1>8. IsMachine(k) /\ k.result \in Int
  BY <1>2, <1>4, ResultRange DEF Leads, IsOut
<1>9. Leads(k, j, {"A", "B"}) /\ getReg(j, "D") = Wrap(k.result)
  BY <1>8, QuotientSet
<1> HIDE DEF j, sub
<1>10. Leads(f.m, c, {"result", "cc", "A", "B"}) /\ (~sub => Leads(f.m, c, {"result", "cc"}))
  BY <1>4, <1>7, <1>9 DEF Leads
<1>11. c.cc = out.cc
  BY <1>4, <1>7, <1>9 DEF Leads, Fields
<1>12. Stored(f, c) = c
  BY DEF Stored
<1>13. IsMachine(c)
  BY <1>10 DEF Leads
<1>14. \A x \in Fields \ {"prev"} : e[x] = c[x]
  BY <1>12, <1>13, EndKeeps
<1> HIDE DEF e
<1>15. e.cc = out.cc /\ e.A = c.A /\ e.B = c.B
  BY <1>11, <1>14 DEF Fields
<1>16. Keeps(f.m, e, {"A", "B"}) /\ (~sub => Keeps(f.m, e, {}))
  BY <1>10, <1>14 DEF Keeps, Leads, AllRegisters, Fields
<1>17. sub => getReg(e, "D") = Wrap(l - r)
  <2>1. \A x : getReg(x, "D") = 256 * x.A + x.B
    BY <1>6 DEF getReg, ByteRegs, WordRegs
  <2>2. QED
    BY <1>2, <1>4, <1>7, <1>9, <1>15, <2>1
<1>18. f.o.op = "CMP16" \/ f.m.prev \in Pages => ~sub
  BY DEF sub
<1>19. QED
  BY <1>2, <1>15, <1>16, <1>17, <1>18 DEF e, c, l, r, sub

(* A load of a register *)
LEMMA WordLoads ==
    ASSUME NEW n, NEW f, IsDecoded(n, f), f.o.op = "LD16", f.o.left = "St",
           f.o.right \in {"None", "Ld16"}, f.o.reg # "M8",
           NEW reg \in WordRegs, Paged(f.o.reg, f.m.prev) = reg
    PROVE  LET e == Finished(f, Move(f))
           IN  /\ e[reg] = f.m.right /\ (BEQ(e.cc) <=> f.m.right = 0)
               /\ Keeps(f.m, e, {reg})
<1> DEFINE v == f.m.right
           out == LD16(v, f.m.cc)
           k == Leave(f.m, out)
           j == With(k, reg, v)
           e == Finished(f, k)
<1>1. IsMachine(f.m)
  BY DEF IsDecoded, Leads
<1>2. v \in Word /\ f.m.cc \in CC
  BY <1>1, RegisterTypes
<1>3. IsOut(out)
  <2>1. 0 \in Byte /\ 0 \in Result
    BY ByteRange, ResultRange
  <2>2. QED
    BY <1>2, <2>1, MoveTypes
<1>4. out.result = v /\ (BEQ(out.cc) <=> v = 0)
  <2> DEFINE z == Flag(v % 65536 = 0)
             s == Bit(v, 32768)
             x == [[f.m.cc EXCEPT !.Z = z, !.N = s] EXCEPT !.V = 0]
  <2>1. out = Out(v, x)
    BY DEF LD16, xNZ0x16, updateNZ16
  <2>2. v % 65536 = v
    BY <1>2, WrapOfWord DEF Wrap
  <2>3. z = 1 <=> v = 0
    BY <2>2 DEF Flag
  <2> HIDE DEF z, s, out, v
  <2>4. x.Z = z
    BY <1>2 DEF CC
  <2> HIDE DEF x
  <2>5. QED
    BY <2>1, <2>3, <2>4 DEF BEQ, Out
<1>5. Move(f) = k
  BY DEF Move
<1> HIDE DEF v, out
<1>6. /\ Leads(f.m, k, {"result", "cc"}) /\ k.result = v /\ k.cc = out.cc
      /\ k.prev = f.m.prev
  BY <1>1, <1>3, <1>4, LeaveIs
<1> HIDE DEF k
<1>7. IsMachine(k) /\ reg \in Fields /\ reg \notin {"result", "cc", "prev"} /\ HasType(reg, v)
  BY <1>2, <1>6 DEF Leads, Fields, WordRegs, ByteRegs, HasType
<1>8. Stored(f, k) = j
  <2>1. Stored(f, k) = setReg(k, f.o.reg, k.result)
    BY DEF Stored
  <2>2. setReg(k, f.o.reg, k.result) = With(k, reg, Wrap(v))
    BY <1>6 DEF setReg, With, WordRegs, ByteRegs
  <2>3. QED
    BY <1>2, <2>1, <2>2, WrapOfWord
<1>9. j[reg] = v /\ \A x \in Fields \ {reg} : j[x] = k[x]
  BY <1>7, FieldSet
<1> HIDE DEF j
<1>10. \A x \in Fields \ {"prev"} : e[x] = j[x]
  BY <1>7, <1>8, EndKeeps
<1> HIDE DEF e
<1>11. e[reg] = v
  BY <1>7, <1>9, <1>10
<1>12. e.cc = out.cc
  BY <1>6, <1>7, <1>9, <1>10 DEF Fields
<1>13. Keeps(f.m, e, {reg})
  BY <1>6, <1>9, <1>10 DEF Keeps, Leads, AllRegisters, Fields
<1>14. QED
  BY <1>4, <1>5, <1>11, <1>12, <1>13 DEF e, v

(* A store of a register *)
LEMMA WordStores ==
    ASSUME NEW n, NEW f, IsDecoded(n, f), f.o.op = "ST16", f.o.right = "St16"
    PROVE  LET e == Finished(f, Move(f))
           IN  /\ f.ea < SystemAddrStart => load16(e, f.ea) = f.left
               /\ Keeps(f.m, e, {})
<1> DEFINE k == Move(f)
           h == f.left \div 256
           b == Poke(k, f.ea, h)
           s == store16(k, f.ea, f.left)
           e == Finished(f, k)
<1>1. f.ea \in Word /\ f.left \in Word /\ IsMachine(f.m)
  BY DEF IsDecoded, Leads
<1>2. Leads(f.m, k, {"result", "cc"})
  <2>1. k = Leave(f.m, ST16(f.m.result, f.m.cc))
    BY DEF Move
  <2>2. IsOut(ST16(f.m.result, f.m.cc))
    <3>1. 0 \in Byte /\ 0 \in Word
      BY ByteRange, WordRange
    <3>2. QED
      BY <1>1, <3>1, RegisterTypes, MoveTypes
  <2>3. QED
    BY <1>1, <2>1, <2>2, LeaveType
<1> HIDE DEF k
<1>3. IsMachine(k)
  BY <1>2 DEF Leads
<1>4. Stored(f, k) = s
  BY DEF Stored
<1>5. f.ea \in Int /\ f.left \in Int /\ f.ea \in MemAddr /\ SystemAddrStart \in Int
  BY <1>1, WordsOfBytes, SystemAssumption
<1>6. Leads(k, s, {"ram"})
  BY <1>1, <1>3, <1>5, StoreType DEF Leads
<1>7. ASSUME f.ea < SystemAddrStart
      PROVE  load8(s, f.ea) = h % 256 /\ load8(s, f.ea + 1) = f.left % 256
  <2>1. s = Poke(b, f.ea + 1, f.left)
    BY <1>5, <1>7 DEF store16
  <2>2. h \in Int
    BY <1>5
  <2> HIDE DEF h
  <2>3. IsMachine(b) /\ load8(b, f.ea) = h % 256
    BY <1>3, <1>5, <2>2, PokeType, PokeReads
  <2> HIDE DEF b
  <2>4. f.ea # f.ea + 1
    BY <1>5
  <2>5. QED
    BY <2>1, <2>3, <2>4, PokeReads
<1>8. 256 * (h % 256) + (f.left % 256) = f.left
  <2>1. h \in Byte
    BY <1>1, HighByte
  <2>2. h % 256 = h
    BY <2>1, ByteRange
  <2>3. f.left = 256 * h + (f.left % 256)
    BY <1>5
  <2> HIDE DEF h
  <2>4. QED
    BY <2>2, <2>3
<1> HIDE DEF s, h
<1>9. \A x \in Fields \ {"prev"} : e[x] = s[x]
  BY <1>3, <1>4, EndKeeps
<1> HIDE DEF e
<1>10. \A a : load8(e, a) = load8(s, a)
  <2>1. e.ram = s.ram
    BY <1>9 DEF Fields
  <2>2. QED
    BY <2>1, LoadsAlike
<1>11. f.ea < SystemAddrStart => load16(e, f.ea) = f.left
  BY <1>7, <1>8, <1>10 DEF load16
<1>12. Keeps(f.m, e, {})
  BY <1>2, <1>6, <1>9 DEF Keeps, Leads, AllRegisters, Fields
<1>13. QED
  BY <1>11, <1>12 DEF e, k

(* The registers of the comment's table *)
LEMMA PagedIs ==
    /\ Paged("DDU", "other") = "D" /\ Paged("DDU", "Page2") = "D" /\ Paged("DDU", "Page3") = "U"
    /\ Paged("XYS", "other") = "X" /\ Paged("XYS", "Page2") = "Y" /\ Paged("XYS", "Page3") = "S"
    /\ Paged("XY", "other") = "X" /\ Paged("XY", "Page2") = "Y"
    /\ Paged("US", "other") = "U" /\ Paged("US", "Page2") = "S"
    /\ \A r \in Named, p \in Prev : Paged(r, p) = r
BY DEF Paged, Named, Prev, Pages

(* The entry d of that table for the row o behind prev *)
IsEntry(o, prev, d) ==
    \/ /\ d[1] = "SUB" /\ d[2] = "D" /\ prev = "other"
       /\ IsWideRow(o, "SUB16", "DDU", "Ld") /\ Paged("DDU", prev) = d[2]
    \/ /\ d[1] = "CMP" /\ d[2] \in Named /\ prev \in Pages
       /\ IsWideRow(o, "SUB16", "DDU", "Ld") /\ Paged("DDU", prev) = d[2]
    \/ /\ d[1] = "CMP" /\ d[2] \in Named
       /\ IsWideRow(o, "CMP16", "XYS", "Ld") /\ Paged("XYS", prev) = d[2]
    \/ /\ d[1] = "LD" /\ d[2] \in Named \ {"D"}
       /\ \E reg \in {"XY", "US"} : IsWideRow(o, "LD16", reg, "St") /\ Paged(reg, prev) = d[2]
    \/ /\ d[1] = "ST" /\ d[2] \in Named \ {"D"}
       /\ \E reg \in {"XY", "US"} : IsWideRow(o, "ST16", reg, "Ld") /\ Paged(reg, prev) = d[2]

(* Every entry of the comment's table is one of the code's. *)
LEMMA EntriesAre == ASSUME NEW i \in Byte, NEW prev \in Prev, Documented(i, prev)[1] # "none"
    PROVE  IsEntry(opcode(i), prev, Documented(i, prev))
<1> DEFINE d == Documented(i, prev)
           Entry(plain, page2, page3) == IF prev = "Page2" THEN page2
                                         ELSE IF prev = "Page3" THEN page3 ELSE plain
           none == <<"none", "">>
           sub == Entry(<<"SUB", "D">>, <<"CMP", "D">>, <<"CMP", "U">>)
           cmp == Entry(<<"CMP", "X">>, <<"CMP", "Y">>, <<"CMP", "S">>)
           ldx == Entry(<<"LD", "X">>, <<"LD", "Y">>, none)
           stx == Entry(<<"ST", "X">>, <<"ST", "Y">>, none)
           ldu == Entry(<<"LD", "U">>, <<"LD", "S">>, none)
           stu == Entry(<<"ST", "U">>, <<"ST", "S">>, none)
           known == OpcodesOfSub \cup OpcodesOfCmp \cup OpcodesOfLdX \cup OpcodesOfStX \cup OpcodesOfLdU
                    \cup OpcodesOfStU
<1>1. prev = "other" \/ prev = "Page2" \/ prev = "Page3"
  BY DEF Prev, Pages
<1>2. "Page2" \in Pages /\ "Page3" \in Pages
  BY DEF Pages
<1>3. d = CASE i \in {131, 147, 163, 179} -> sub [] i \in {140, 172, 188} -> cmp
            [] i \in {142, 158, 174, 190} -> ldx [] i \in {159, 175, 191} -> stx
            [] i \in {206, 222, 238, 254} -> ldu [] i \in {223, 239, 255} -> stu
            [] i \notin {131, 147, 163, 179, 140, 172, 188, 142, 158, 174, 190, 159, 175, 191,
                         206, 222, 238, 254, 223, 239, 255} -> none
  BY Zenon DEF Documented
<1>4. none[1] = "none"
  OBVIOUS
<1> HIDE DEF d, none, sub, cmp, ldx, stx, ldu, stu
<1>5. /\ i \in OpcodesOfSub => d = sub
      /\ i \in OpcodesOfCmp => d = cmp
      /\ i \in OpcodesOfLdX => d = ldx
      /\ i \in OpcodesOfStX => d = stx
      /\ i \in OpcodesOfLdU => d = ldu
      /\ i \in OpcodesOfStU => d = stu
      /\ i \notin known => d = none
  BY <1>3 DEF OpcodesOfSub, OpcodesOfCmp, OpcodesOfLdX, OpcodesOfStX, OpcodesOfLdU, OpcodesOfStU
<1>6. d # none
  BY <1>4 DEF d
<1>7. /\ sub[1] = IF prev = "other" THEN "SUB" ELSE "CMP"
      /\ sub[2] = IF prev = "Page3" THEN "U" ELSE "D"
  BY <1>1 DEF sub
<1>8. /\ cmp[1] = "CMP"
      /\ cmp[2] = IF prev = "Page2" THEN "Y" ELSE IF prev = "Page3" THEN "S" ELSE "X"
  BY <1>1 DEF cmp
<1>9. prev # "Page3" => /\ ldx[1] = "LD" /\ stx[1] = "ST" /\ ldu[1] = "LD" /\ stu[1] = "ST"
                        /\ ldx[2] = IF prev = "Page2" THEN "Y" ELSE "X"
                        /\ stx[2] = IF prev = "Page2" THEN "Y" ELSE "X"
                        /\ ldu[2] = IF prev = "Page2" THEN "S" ELSE "U"
                        /\ stu[2] = IF prev = "Page2" THEN "S" ELSE "U"
  BY <1>1 DEF ldx, stx, ldu, stu
<1>10. prev = "Page3" => ldx = none /\ stx = none /\ ldu = none /\ stu = none
  BY DEF ldx, stx, ldu, stu
<1> HIDE DEF known
<1>11. CASE i \in OpcodesOfSub
  <2>1. IsWideRow(opcode(i), "SUB16", "DDU", "Ld") /\ d = sub
    BY <1>5, <1>11, WideRows
  <2>2. QED
    BY <1>1, <1>2, <1>7, <2>1, PagedIs DEF IsEntry, Named, d
<1>12. CASE i \in OpcodesOfCmp
  <2>1. IsWideRow(opcode(i), "CMP16", "XYS", "Ld") /\ d = cmp
    BY <1>5, <1>12, WideRows
  <2>2. QED
    BY <1>1, <1>8, <2>1, PagedIs DEF IsEntry, Named, d
<1>13. CASE i \in OpcodesOfLdX
  <2>1. IsWideRow(opcode(i), "LD16", "XY", "St") /\ d = ldx
    BY <1>5, <1>13, WideRows
  <2>2. d[1] = "LD" /\ d[2] = Paged("XY", prev) /\ d[2] \in Named \ {"D"}
    BY <1>1, <1>6, <1>9, <1>10, <2>1, PagedIs DEF Named
  <2>3. QED
    BY <2>1, <2>2 DEF IsEntry, d
<1>14. CASE i \in OpcodesOfStX
  <2>1. IsWideRow(opcode(i), "ST16", "XY", "Ld") /\ d = stx
    BY <1>5, <1>14, WideRows
  <2>2. d[1] = "ST" /\ d[2] = Paged("XY", prev) /\ d[2] \in Named \ {"D"}
    BY <1>1, <1>6, <1>9, <1>10, <2>1, PagedIs DEF Named
  <2>3. QED
    BY <2>1, <2>2 DEF IsEntry, d
<1>15. CASE i \in OpcodesOfLdU
  <2>1. IsWideRow(opcode(i), "LD16", "US", "St") /\ d = ldu
    BY <1>5, <1>15, WideRows
  <2>2. d[1] = "LD" /\ d[2] = Paged("US", prev) /\ d[2] \in Named \ {"D"}
    BY <1>1, <1>6, <1>9, <1>10, <2>1, PagedIs DEF Named
  <2>3. QED
    BY <2>1, <2>2 DEF IsEntry, d
<1>16. CASE i \in OpcodesOfStU
  <2>1. IsWideRow(opcode(i), "ST16", "US", "Ld") /\ d = stu
    BY <1>5, <1>16, WideRows
  <2>2. d[1] = "ST" /\ d[2] = Paged("US", prev) /\ d[2] \in Named \ {"D"}
    BY <1>1, <1>6, <1>9, <1>10, <2>1, PagedIs DEF Named
  <2>3. QED
    BY <2>1, <2>2 DEF IsEntry, d
<1>17. QED
  BY <1>5, <1>6, <1>11, <1>12, <1>13, <1>14, <1>15, <1>16 DEF known

(* The actions behind those rows *)
LEMMA WideSteps == ASSUME CpuInv, Next
    PROVE  /\ NextOp \in {"SUB16", "CMP16"} => m' = Finished(Decoded, Calculate(Decoded))
           /\ NextOp \in {"LD16", "ST16"} => m' = Finished(Decoded, Move(Decoded))
<1> DEFINE Wide16 == {"SUB16", "CMP16", "LD16", "ST16"}
<1>1. /\ "LD16" \notin Calculations /\ "ST16" \notin Calculations
      /\ "SUB16" \notin Moves /\ "CMP16" \notin Moves
  BY DEF Calculations, Moves
<1>2. NextOp \in Wide16 => CalculateOp \/ MoveOp
  <2>1. BranchOp => NextOp \in Branching
    BY DEF BranchOp
  <2>2. PagePrefix => NextOp \in Pages
    BY DEF PagePrefix
  <2>3. Illegal \/ Pushing \/ Pulling => NextOp \in {"ILL", "PSH", "PUL"}
    BY DEF Illegal, Pushing, Pulling
  <2>4. Interrupt \/ WaitForInterrupt \/ ReturnFromInterrupt => NextOp \in {"SWI", "CWAI", "RTI"}
    BY DEF Interrupt, WaitForInterrupt, ReturnFromInterrupt
  <2>5. BranchToSubroutine \/ JumpToSubroutine \/ Jump \/ ReturnFromSubroutine
           => NextOp \in {"BSR", "JSR", "JMP", "RTS"}
    BY DEF BranchToSubroutine, JumpToSubroutine, Jump, ReturnFromSubroutine
  <2>6. SystemCall => NextOp \in {"JMP", "JSR"}
    BY DEF SystemCall
  <2>7. \A x \in Wide16 : /\ x \notin Branching /\ x \notin Pages
                           /\ x \notin {"ILL", "PSH", "PUL"} /\ x \notin {"SWI", "CWAI", "RTI"}
                           /\ x \notin {"BSR", "JSR", "JMP", "RTS"}
    BY DEF Branching, Pages
  <2> HIDE DEF Wide16
  <2>8. QED
    BY <2>1, <2>2, <2>3, <2>4, <2>5, <2>6, <2>7 DEF Next
<1>3. CalculateOp => NextOp \in Calculations /\ m' = Finished(Decoded, Calculate(Decoded))
  BY DEF CalculateOp, Ends
<1>4. MoveOp => NextOp \in Moves /\ m' = Finished(Decoded, Move(Decoded))
  BY DEF MoveOp, Ends
<1>5. QED
  BY <1>1, <1>2, <1>3, <1>4

LEMMA DoesIs == ASSUME NEW reg
    PROVE  LET f == Decoded
               r == getReg(f.m, reg)
               v == WordOperand(m, f)
           IN  /\ ComparedAs(m'.cc, r, v) /\ Keeps(f.m, m', {}) => DoesDocumented("CMP", reg)
               /\ /\ ComparedAs(m'.cc, r, v) /\ getReg(m', "D") = Wrap(r - v)
                  /\ Keeps(f.m, m', {"A", "B"})
                  => DoesDocumented("SUB", reg)
               /\ m'[reg] = v /\ (BEQ(m'.cc) <=> v = 0) /\ Keeps(f.m, m', {reg})
                  => DoesDocumented("LD", reg)
               /\ (f.ea < SystemAddrStart - 1 => load16(m', f.ea) = r) /\ Keeps(f.m, m', {})
                  => DoesDocumented("ST", reg)
<1> DEFINE f == Decoded
           r == getReg(f.m, reg)
           v == WordOperand(m, f)
<1>1. Operand(f) = v
  BY DEF Operand, WordOperand
<1>2. \A R : Keeps(f.m, m', R) <=> OnlyChanges(f.m, R)
  BY DEF Keeps, OnlyChanges
<1>3. \A op : DoesDocumented(op, reg) =
         CASE op = "CMP" -> ComparedAs(m'.cc, r, v) /\ OnlyChanges(f.m, {})
           [] op = "SUB" -> /\ ComparedAs(m'.cc, r, v)
                            /\ getReg(m', "D") = Wrap(r - v)
                            /\ OnlyChanges(f.m, {"A", "B"})
           [] op = "LD" -> /\ m'[reg] = v
                           /\ BEQ(m'.cc) <=> v = 0
                           /\ OnlyChanges(f.m, {reg})
           [] op = "ST" -> /\ f.ea < SystemAddrStart - 1 => load16(m', f.ea) = r
                           /\ OnlyChanges(f.m, {})
  BY <1>1 DEF DoesDocumented
<1> HIDE DEF r, v, f
<1>4. QED
  BY <1>2, <1>3 DEF r, v, f

LEMMA PagesStep == ASSUME CpuInv, Next, Documented(load8(m, m.PC), m.prev)[1] # "none"
    PROVE  DoesDocumented(Documented(load8(m, m.PC), m.prev)[1], Documented(load8(m, m.PC), m.prev)[2])
<1> DEFINE i == load8(m, m.PC)
           d == Documented(i, m.prev)
           f == Decoded
           reg == d[2]
           r == getReg(f.m, reg)
           v == WordOperand(m, f)
<1>1. IsMachine(m) /\ IsDecoded(m, f) /\ f.o = opcode(i) /\ f.o.op = NextOp
  BY DecodedType DEF CpuInv, IsDecoded
<1>2. i \in Byte /\ m.prev \in Prev
  BY <1>1, LoadType, RegisterTypes
<1>3. IsEntry(opcode(i), m.prev, d)
  BY <1>2, EntriesAre
<1>4. \A op, row, left : row # "M8" /\ IsWideRow(f.o, op, row, left) =>
         /\ f.m.prev = m.prev
         /\ left = "Ld" => f.left = getReg(f.m, row)
         /\ op # "ST16" => f.m.right = v
  <2>1. f = Loaded(Fetch(m))
    BY DEF Decoded
  <2> HIDE DEF f
  <2>2. ASSUME NEW op, NEW row, row # "M8", NEW left, IsWideRow(f.o, op, row, left)
        PROVE  /\ f.m.prev = m.prev
               /\ left = "Ld" => f.left = getReg(f.m, row)
               /\ op # "ST16" => f.m.right = v
    BY <1>1, <2>1, <2>2, WideDecoded
  <2>3. QED
    BY <2>2
<1>5. /\ NextOp \in {"SUB16", "CMP16"} => m' = Finished(f, Calculate(f))
      /\ NextOp \in {"LD16", "ST16"} => m' = Finished(f, Move(f))
  BY WideSteps
<1>6. /\ ComparedAs(m'.cc, r, v) /\ Keeps(f.m, m', {}) => DoesDocumented("CMP", reg)
      /\ /\ ComparedAs(m'.cc, r, v) /\ getReg(m', "D") = Wrap(r - v)
         /\ Keeps(f.m, m', {"A", "B"})
         => DoesDocumented("SUB", reg)
      /\ m'[reg] = v /\ (BEQ(m'.cc) <=> v = 0) /\ Keeps(f.m, m', {reg})
         => DoesDocumented("LD", reg)
      /\ (f.ea < SystemAddrStart - 1 => load16(m', f.ea) = r) /\ Keeps(f.m, m', {})
         => DoesDocumented("ST", reg)
  BY DoesIs
<1>7. f.ea \in Int /\ SystemAddrStart \in Int
  BY <1>1, WordsOfBytes, SystemAssumption DEF IsDecoded
<1>8. \A row : f.m.prev = m.prev /\ Paged(row, m.prev) = reg /\ reg \in Named => getReg(f.m, row) = r
  BY <1>2, PagedIs, PagedAs
<1>9. reg \in Named \ {"D"} => reg \in WordRegs
  BY DEF Named, WordRegs
<1> HIDE DEF i, d, f, reg, r, v
<1>10. ASSUME NEW op \in {"SUB16", "CMP16"}, NEW row \in {"DDU", "XYS"}, IsWideRow(f.o, op, row, "Ld"),
              Paged(row, m.prev) = reg, reg \in Named, op = "SUB16" => reg = "D" \/ m.prev \in Pages
       PROVE  /\ ComparedAs(m'.cc, r, v) /\ Keeps(f.m, m', {"A", "B"})
              /\ op = "CMP16" \/ m.prev \in Pages => Keeps(f.m, m', {})
              /\ op = "SUB16" /\ m.prev \notin Pages => getReg(m', "D") = Wrap(r - v)
  <2>1. /\ f.o.op = op /\ f.o.reg = row /\ f.o.left = "Ld" /\ f.o.right \in {"None", "Ld16"}
    BY <1>10 DEF IsWideRow
  <2>2. f.m.prev = m.prev /\ f.left = getReg(f.m, row) /\ f.m.right = v
    BY <1>4, <1>10
  <2>3. f.left = r
    BY <1>8, <1>10, <2>2
  <2>4. m' = Finished(f, Calculate(f))
    BY <1>1, <1>5, <2>1
  <2>5. op = "SUB16" => Paged(f.o.reg, f.m.prev) = "D" \/ f.m.prev \in Pages
    BY <1>10, <2>1, <2>2
  <2>6. QED
    BY <1>1, <2>1, <2>2, <2>3, <2>4, <2>5, Compares
<1>11. CASE d[1] = "SUB"
  <2>1. IsWideRow(f.o, "SUB16", "DDU", "Ld") /\ Paged("DDU", m.prev) = reg /\ reg = "D" /\ m.prev = "other"
    BY <1>1, <1>3, <1>11 DEF IsEntry, reg
  <2>2. reg \in Named /\ m.prev \notin Pages
    BY <2>1 DEF Named, Pages
  <2>3. DoesDocumented("SUB", reg)
    BY <1>6, <1>10, <2>1, <2>2
  <2>4. QED
    BY <1>11, <2>3 DEF reg, d, i
<1>12. CASE d[1] = "CMP"
  <2>1. /\ reg \in Named
        /\ \/ m.prev \in Pages /\ IsWideRow(f.o, "SUB16", "DDU", "Ld") /\ Paged("DDU", m.prev) = reg
           \/ IsWideRow(f.o, "CMP16", "XYS", "Ld") /\ Paged("XYS", m.prev) = reg
    BY <1>1, <1>3, <1>12 DEF IsEntry, reg
  <2>2. ComparedAs(m'.cc, r, v) /\ Keeps(f.m, m', {})
    BY <1>10, <2>1
  <2>3. DoesDocumented("CMP", reg)
    BY <1>6, <2>2
  <2>4. QED
    BY <1>12, <2>3 DEF reg, d, i
<1>13. CASE d[1] = "LD"
  <2>1. PICK row \in {"XY", "US"} : IsWideRow(f.o, "LD16", row, "St") /\ Paged(row, m.prev) = reg
    BY <1>1, <1>3, <1>13 DEF IsEntry, reg
  <2>2. reg \in WordRegs
    BY <1>3, <1>9, <1>13 DEF IsEntry, reg
  <2>3. /\ f.o.op = "LD16" /\ f.o.reg = row /\ f.o.left = "St" /\ f.o.right \in {"None", "Ld16"}
        /\ f.o.reg # "M8"
    BY <2>1 DEF IsWideRow
  <2>4. f.m.prev = m.prev /\ f.m.right = v
    BY <1>4, <2>1
  <2>5. m' = Finished(f, Move(f))
    BY <1>1, <1>5, <2>3
  <2>6. m'[reg] = v /\ (BEQ(m'.cc) <=> v = 0) /\ Keeps(f.m, m', {reg})
    BY <1>1, <2>1, <2>2, <2>3, <2>4, <2>5, WordLoads
  <2>7. DoesDocumented("LD", reg)
    BY <1>6, <2>6
  <2>8. QED
    BY <1>13, <2>7 DEF reg, d, i
<1>14. CASE d[1] = "ST"
  <2>1. PICK row \in {"XY", "US"} : IsWideRow(f.o, "ST16", row, "Ld") /\ Paged(row, m.prev) = reg
    BY <1>1, <1>3, <1>14 DEF IsEntry, reg
  <2>2. reg \in Named
    BY <1>3, <1>14 DEF IsEntry, reg
  <2>3. f.m.prev = m.prev /\ f.left = getReg(f.m, row)
    BY <1>4, <2>1
  <2>4. f.left = r
    BY <1>8, <2>1, <2>2, <2>3
  <2>5. f.o.op = "ST16" /\ f.o.right = "St16"
    BY <2>1 DEF IsWideRow
  <2>6. m' = Finished(f, Move(f))
    BY <1>1, <1>5, <2>5
  <2>7. (f.ea < SystemAddrStart => load16(m', f.ea) = r) /\ Keeps(f.m, m', {})
    BY <1>1, <2>4, <2>5, <2>6, WordStores
  <2>8. f.ea < SystemAddrStart - 1 => f.ea < SystemAddrStart
    BY <1>7
  <2>9. DoesDocumented("ST", reg)
    BY <1>6, <2>7, <2>8
  <2>10. QED
    BY <1>14, <2>9 DEF reg, d, i
<1>15. QED
  BY <1>3, <1>11, <1>12, <1>13, <1>14 DEF IsEntry, d, i

(* The instructions behind prefixes are those the comment MC6809.h:65-90   *)
(* names: a 16 bit subtraction, comparison, load or store reads and writes *)
(* the register the table gives it there, leaves the order of its operands *)
(* in the flags, and changes no other register, whatever the operands, the *)
(* addresses and the memory are.                                           *)
THEOREM PagesDocumented == Spec => PagesAsDocumented
<1> DEFINE Holds == LET d == Documented(load8(m, m.PC), m.prev)
                    IN  d[1] # "none" => DoesDocumented(d[1], d[2])
<1>1. ASSUME CpuInv, Next PROVE Holds
  BY <1>1, PagesStep
<1>2. CpuInv /\ [Next]_vars => [Holds]_vars
  BY <1>1
<1>3. QED
  BY <1>2, InitType, InvStep, PTL DEF Spec, PagesAsDocumented

-----------------------------------------------------------------------------
(* The listing of an instruction *)

(* What the listing d of a fetched instruction f says of it *)
Lists(f, d) == /\ f.m.PC = d.next
               /\ f.o.adr \in Relative => f.m.right = Wrap(d.number) /\ d.number \in Int
               /\ f.o.adr = "Immed8" => f.m.right = d.number /\ d.number \in Byte
               /\ f.o.adr = "Extended" => f.ea = d.number
               /\ d.adr = "Extended" <=> f.o.adr = "Extended"

LEMMA SkippedIs == ASSUME NEW n, IsMachine(n), NEW c \in Int, NEW v \in Int
    PROVE  /\ Skip(n, c).PC = Wrap(n.PC + c) /\ AddCy(n, c).PC = n.PC /\ AddCy(n, c).right = n.right
           /\ WithRight(n, v).right = Wrap(v) /\ WithRight(n, v).PC = n.PC
BY DEF Skip, AddCy, WithRight, IsMachine, Fields

LEMMA WordBack == ASSUME NEW w \in Word PROVE Wrap(Signed16(w)) = w
<1>1. w \in Int /\ w >= 0 /\ w < 65536
  BY WordRange
<1>2. Signed16(w) = w \/ Signed16(w) = w - 65536
  BY DEF Signed16
<1>3. QED
  BY <1>1, <1>2 DEF Wrap

(* The indexed modes: the listing is as long as the instruction. *)
LEMMA IndexedLists ==
    ASSUME NEW n, IsMachine(n), NEW k, IsMachine(k), k.PC = Wrap(n.PC + 1), k.ram = n.ram,
           NEW o, NEW op, NEW reg
    PROVE  /\ Indexed(k, o).m.PC = ListIndexed(n, k.PC, op, reg).next /\ Indexed(k, o).o = o
           /\ ListIndexed(n, k.PC, op, reg).adr = "Indexed"
<1> DEFINE b == k.PC
           post == load8(k, b)
           mode == IdxMode(post)
           r == IdxReg(post)
           behind == Skip(k, 1)
           to == Wrap(behind[r] + IndexedStep(mode))
           stepped == With(behind, r, to)
           length == IndexedLength(mode)
           cycles == IndexedCycles(mode)
           skipped == Skip(stepped, length)
           j == AddCy(skipped, cycles)
<1>1. Indexed(k, o).m = j /\ Indexed(k, o).o = o
  BY DEF Indexed, With, Fetched
<1>2. load8(n, b) = post
  BY LoadsAlike
<1>3. ListIndexed(n, b, op, reg).next = Wrap(b + 1 + length) /\ ListIndexed(n, b, op, reg).adr = "Indexed"
  BY <1>2 DEF ListIndexed, Listing
<1>4. post \in Byte /\ b \in Int /\ 1 \in Int
  BY LoadType, RegisterTypes, WordsOfBytes
<1>5. IsMachine(behind) /\ behind.PC = Wrap(b + 1)
  BY <1>4, SkipType, SkippedIs
<1> HIDE DEF post, behind, b
<1>6. r \in {"X", "Y", "U", "S"} /\ r \in WordRegs /\ r \in Fields /\ "PC" \in Fields \ {r}
  BY <1>4, PostType DEF WordRegs, Fields
<1>7. IndexedStep(mode) \in Int /\ length \in Int /\ cycles \in Nat /\ cycles \in Int
  BY <1>4, <1>5, IndexedNumbers
<1>8. to \in Word
  <2>1. behind[r] \in Int
    BY <1>5, <1>6, RegisterTypes, WordsOfBytes
  <2>2. QED
    BY <1>7, <2>1, WrapType
<1>9. HasType(r, to)
  BY <1>6, <1>8 DEF HasType, WordRegs, ByteRegs
<1> HIDE DEF to, r, length, cycles, mode
<1>10. IsMachine(stepped) /\ stepped.PC = Wrap(b + 1)
  BY <1>5, <1>6, <1>9, FieldSet
<1> HIDE DEF stepped
<1>11. IsMachine(skipped) /\ skipped.PC = Wrap(Wrap(b + 1) + length)
  <2>1. IsMachine(stepped) /\ length \in Int
    BY <1>7, <1>10
  <2>2. Skip(stepped, length).PC = Wrap(stepped.PC + length)
    BY <1>4, <2>1, SkippedIs
  <2>3. IsMachine(Skip(stepped, length))
    BY <2>1, SkipType
  <2>4. QED
    BY <1>10, <2>2, <2>3
<1> HIDE DEF skipped
<1>12. j.PC = skipped.PC
  BY <1>4, <1>7, <1>11, SkippedIs
<1> HIDE DEF j
<1>13. Wrap(Wrap(b + 1) + length) = Wrap(b + 1 + length)
  <2>1. b + 1 \in Int
    BY <1>4
  <2>2. QED
    BY <1>7, <2>1, WrapOfSum
<1>14. QED
  BY <1>1, <1>3, <1>11, <1>12, <1>13 DEF b

(* Whatever the address mode, the listing is of the bytes that are fetched. *)
LEMMA RowLists ==
    ASSUME NEW n, IsMachine(n), NEW k, IsMachine(k), k.PC = Wrap(n.PC + 1), k.ram = n.ram,
           k.prev = n.prev, NEW o, o.adr \in Modes
    PROVE  Lists(FetchRow(k, o), ListRow(n, n.PC, n.prev, o))
<1> DEFINE b == k.PC
           byte == load8(k, b)
           word == load16(k, b)
           one == Skip(k, 1)
           two == Skip(k, 2)
           off == Signed8(byte)
           offset == Signed16(word)
           direct == 256 * k.DP + byte
           op == IF n.prev \in Pages /\ o.op = "SUB16" THEN "CMP16" ELSE o.op
           reg == regToString(o.reg, n.prev)
           d == ListRow(n, n.PC, n.prev, o)
           f == FetchRow(k, o)
<1>1. load8(n, b) = byte /\ load16(n, b) = word
  BY LoadsAlike DEF load16
<1>2. d = CASE o.adr \in {"None", "Inherent"} -> Listing(b, op, reg, o.adr, 0)
            [] o.adr \in {"Direct", "Immed8"} -> Listing(b + 1, op, reg, o.adr, byte)
            [] o.adr \in {"Extended", "Immed16"} -> Listing(b + 2, op, reg, o.adr, word)
            [] o.adr = "RelL" \/ (o.adr = "RelP" /\ n.prev = "Page2") ->
                  Listing(b + 2, op, reg, "RelL", offset)
            [] o.adr = "Rel" \/ (o.adr = "RelP" /\ n.prev # "Page2") ->
                  Listing(b + 1, op, reg, "Rel", off)
            [] o.adr = "Indexed" -> ListIndexed(n, b, op, reg)
  BY <1>1 DEF ListRow
<1>3. f = CASE o.adr \in {"None", "Inherent"} -> Fetched(k, o, 0)
            [] o.adr = "Direct" -> Fetched(one, o, direct)
            [] o.adr = "Extended" -> Fetched(two, o, word)
            [] o.adr = "Immed8" -> Fetched(WithRight(one, byte), o, 0)
            [] o.adr = "Immed16" -> Fetched(WithRight(two, word), o, 0)
            [] o.adr \in {"RelL", "Rel", "RelP"} ->
                  IF IsLong(k, o) THEN Fetched(AddCy(WithRight(two, word), 2), o, 0)
                  ELSE Fetched(WithRight(one, off), o, 0)
            [] o.adr = "Indexed" -> Indexed(k, o)
  BY DEF FetchRow
<1>4. b \in Word /\ b \in Int /\ byte \in Word /\ word \in Word /\ 0 \in Int /\ 1 \in Int /\ 2 \in Int
  BY RegisterTypes, LoadType, WordsOfBytes
<1>5. byte \in Int /\ word \in Int /\ off \in Int /\ Wrap(b) = b /\ Wrap(byte) = byte /\ Wrap(word) = word
      /\ Wrap(offset) = word
  BY <1>4, WordsOfBytes, SignedType, WrapOfWord, WordBack
<1>6. byte \in Byte /\ offset \in Int
  BY <1>4, LoadType, SignedType
<1>7. /\ IsMachine(one) /\ IsMachine(two) /\ one.PC = Wrap(b + 1) /\ two.PC = Wrap(b + 2)
  BY <1>4, SkipType, SkippedIs
<1>8. /\ \A a, p, r, x, v : /\ Listing(a, p, r, x, v).next = Wrap(a) /\ Listing(a, p, r, x, v).adr = x
                            /\ Listing(a, p, r, x, v).number = v
      /\ \A j, e : Fetched(j, o, e).m = j /\ Fetched(j, o, e).o = o /\ Fetched(j, o, e).ea = Wrap(e)
  BY DEF Listing, Fetched
<1> HIDE DEF byte, word, one, two, off, offset, direct, op, reg
<1>9. /\ WithRight(one, byte).right = byte /\ WithRight(one, byte).PC = one.PC
      /\ WithRight(two, word).right = word /\ WithRight(two, word).PC = two.PC
      /\ WithRight(one, off).right = Wrap(off) /\ WithRight(one, off).PC = one.PC
  BY <1>4, <1>5, <1>7, SkippedIs
<1>10. /\ AddCy(WithRight(two, word), 2).right = word /\ AddCy(WithRight(two, word), 2).PC = two.PC
  <2>1. IsMachine(WithRight(two, word))
    BY <1>5, <1>7, WithRightType
  <2>2. QED
    BY <1>4, <1>9, <2>1, SkippedIs
<1>11. IsLong(k, o) <=> o.adr = "RelL" \/ (o.adr = "RelP" /\ n.prev = "Page2")
  BY DEF IsLong
<1>12. CASE o.adr = "Indexed"
  <2>1. f = Indexed(k, o) /\ d = ListIndexed(n, b, op, reg)
    BY <1>2, <1>3, <1>12
  <2>2. f.m.PC = d.next /\ f.o = o /\ d.adr = "Indexed"
    BY <2>1, IndexedLists
  <2> HIDE DEF f, d
  <2>3. Lists(f, d)
    BY <1>12, <2>2 DEF Lists, Relative
  <2>4. QED
    BY <2>3 DEF f, d
<1> HIDE DEF f, d, b
<1>13. CASE o.adr \in {"None", "Inherent"}
  <2>1. f = Fetched(k, o, 0) /\ d = Listing(b, op, reg, o.adr, 0)
    BY <1>2, <1>3, <1>13
  <2>2. k.PC = b
    BY DEF b
  <2>3. Lists(f, d)
    BY <1>5, <1>8, <1>13, <2>1, <2>2 DEF Lists, Relative
  <2>4. QED
    BY <2>3 DEF f, d
<1>14. CASE o.adr = "Direct"
  <2>1. f = Fetched(one, o, direct) /\ d = Listing(b + 1, op, reg, o.adr, byte)
    BY <1>2, <1>3, <1>14
  <2>2. Lists(f, d)
    BY <1>7, <1>8, <1>14, <2>1 DEF Lists, Relative
  <2>3. QED
    BY <2>2 DEF f, d
<1>15. CASE o.adr = "Immed8"
  <2>1. f = Fetched(WithRight(one, byte), o, 0) /\ d = Listing(b + 1, op, reg, o.adr, byte)
    BY <1>2, <1>3, <1>15
  <2>2. Lists(f, d)
    BY <1>7, <1>8, <1>9, <1>15, <1>6, <2>1 DEF Lists, Relative
  <2>3. QED
    BY <2>2 DEF f, d
<1>16. CASE o.adr = "Extended"
  <2>1. f = Fetched(two, o, word) /\ d = Listing(b + 2, op, reg, o.adr, word)
    BY <1>2, <1>3, <1>16
  <2>2. Lists(f, d)
    BY <1>5, <1>7, <1>8, <1>16, <2>1 DEF Lists, Relative
  <2>3. QED
    BY <2>2 DEF f, d
<1>17. CASE o.adr = "Immed16"
  <2>1. f = Fetched(WithRight(two, word), o, 0) /\ d = Listing(b + 2, op, reg, o.adr, word)
    BY <1>2, <1>3, <1>17
  <2>2. Lists(f, d)
    BY <1>7, <1>8, <1>9, <1>17, <2>1 DEF Lists, Relative
  <2>3. QED
    BY <2>2 DEF f, d
<1>18. CASE o.adr \in Relative /\ IsLong(k, o)
  <2>1. f = Fetched(AddCy(WithRight(two, word), 2), o, 0) /\ d = Listing(b + 2, op, reg, "RelL", offset)
    BY <1>2, <1>3, <1>11, <1>18 DEF Relative
  <2>2. o.adr \notin {"Immed8", "Extended"}
    BY <1>18 DEF Relative
  <2>3. Lists(f, d)
    BY <1>5, <1>7, <1>8, <1>10, <1>6, <2>1, <2>2 DEF Lists
  <2>4. QED
    BY <2>3 DEF f, d
<1>19. CASE o.adr \in Relative /\ ~IsLong(k, o)
  <2>1. f = Fetched(WithRight(one, off), o, 0) /\ d = Listing(b + 1, op, reg, "Rel", off)
    BY <1>2, <1>3, <1>11, <1>19 DEF Relative
  <2>2. o.adr \notin {"Immed8", "Extended"}
    BY <1>19 DEF Relative
  <2>3. Lists(f, d)
    BY <1>5, <1>7, <1>8, <1>9, <2>1, <2>2 DEF Lists
  <2>4. QED
    BY <2>3 DEF f, d
<1>20. QED
  BY <1>12, <1>13, <1>14, <1>15, <1>16, <1>17, <1>18, <1>19 DEF Modes, Relative

LEMMA DecodedLists == ASSUME NEW n, IsMachine(n)
    PROVE  LET f == Loaded(Fetch(n)) IN Lists(f, ListRow(n, n.PC, n.prev, f.o))
<1> DEFINE o == opcode(load8(n, n.PC))
           one == Skip(n, 1)
           k == AddCy(one, o.cycles)
           d == ListRow(n, n.PC, n.prev, o)
           g == FetchRow(k, o)
           r == RightOf(g)
           f == Loaded(g)
<1>1. IsRow(o) /\ 1 \in Int
  BY LoadType, OpcodeIsRow
<1>2. Fetch(n) = g
  BY DEF Fetch
<1>3. IsMachine(one) /\ one.PC = Wrap(n.PC + 1) /\ one.ram = n.ram /\ one.prev = n.prev
  BY <1>1, SkipType, SkippedIs DEF Fields
<1> HIDE DEF o, one
<1>4. IsMachine(k) /\ k.PC = one.PC /\ k.ram = one.ram /\ k.prev = one.prev
  BY <1>1, <1>3, AddCyType DEF Fields, IsRow
<1> HIDE DEF k
<1>5. Lists(g, d) /\ IsFetched(k, g, o)
  <2>1. o.adr \in Modes
    BY <1>1 DEF IsRow
  <2>2. IsFetched(k, g, o)
    BY <1>4, <2>1, FetchRowType
  <2>3. QED
    BY <1>3, <1>4, <2>1, <2>2, RowLists
<1> HIDE DEF g, d
<1>6. PICK j, e : Leads(k, j, FetchFields) /\ e \in Int /\ g = Fetched(j, o, e)
  BY <1>5 DEF IsFetched
<1>7. g.m = j /\ g.o = o /\ g.ea = Wrap(e) /\ IsMachine(j)
  BY <1>6 DEF Fetched, Leads
<1>8. f.m = With(j, "right", r) /\ f.o = o /\ f.ea = Wrap(e)
  BY <1>6 DEF Loaded, Fetched, With
<1>9. o.adr \in Inline => r = j.right
  BY <1>1, <1>7 DEF RightOf, IsRow
<1> HIDE DEF f, r
<1>10. f.m.PC = j.PC /\ f.m.right = r
  BY <1>7, <1>8 DEF With, IsMachine, Fields
<1>11. Lists(f, d)
  BY <1>5, <1>7, <1>8, <1>9, <1>10 DEF Lists, Inline
<1>12. f = Loaded(Fetch(n)) /\ f.o = o
  BY <1>2, <1>8 DEF f
<1>13. QED
  BY <1>11, <1>12 DEF d

(* The listing's operation and register are the row's. *)
LEMMA RowNames ==
    ASSUME NEW n, NEW a, NEW prev, NEW o, o.adr \in Modes
    PROVE  LET d == ListRow(n, a, prev, o)
           IN  /\ d.op = IF prev \in Pages /\ o.op = "SUB16" THEN "CMP16" ELSE o.op
               /\ d.reg = regToString(o.reg, prev)
<1> DEFINE op == IF prev \in Pages /\ o.op = "SUB16" THEN "CMP16" ELSE o.op
           reg == regToString(o.reg, prev)
           b == Wrap(a + 1)
           d == ListRow(n, a, prev, o)
           Says(x) == x.op = op /\ x.reg = reg
<1>1. d = CASE o.adr \in {"None", "Inherent"} -> Listing(b, op, reg, o.adr, 0)
            [] o.adr \in {"Direct", "Immed8"} -> Listing(b + 1, op, reg, o.adr, load8(n, b))
            [] o.adr \in {"Extended", "Immed16"} -> Listing(b + 2, op, reg, o.adr, load16(n, b))
            [] o.adr = "RelL" \/ (o.adr = "RelP" /\ prev = "Page2") ->
                  Listing(b + 2, op, reg, "RelL", Signed16(load16(n, b)))
            [] o.adr = "Rel" \/ (o.adr = "RelP" /\ prev # "Page2") ->
                  Listing(b + 1, op, reg, "Rel", Signed8(load8(n, b)))
            [] o.adr = "Indexed" -> ListIndexed(n, b, op, reg)
  BY DEF ListRow
<1>2. \A y, x, v : Says(Listing(y, op, reg, x, v))
  BY DEF Listing
<1>3. Says(ListIndexed(n, b, op, reg))
  BY DEF ListIndexed, Listing
<1> HIDE DEF op, reg, b, Says, d
<1>4. Says(d)
  BY <1>1, <1>2, <1>3 DEF Modes
<1>5. QED
  BY <1>4 DEF Says, op, reg, d

(* A complete instruction is listed from its prefix on. *)
LEMMA ListedFrom == ASSUME CpuInv, Complete
    PROVE  instToString(m, InstAddr) = ListRow(m, m.PC, m.prev, opcode(load8(m, m.PC)))
<1>1. IsMachine(m)
  BY DEF CpuInv
<1>2. m.PC \in Word /\ m.PC \in Int /\ m.prev \in Prev
  BY <1>1, RegisterTypes, WordsOfBytes
<1>3. CASE m.prev \in Pages
  <2>1. InstAddr = Wrap(m.PC - 1)
    BY <1>3 DEF InstAddr
  <2>2. Wrap(Wrap(m.PC - 1) + 1) = m.PC
    <3> DEFINE x == m.PC - 1
    <3>1. x \in Int /\ 1 \in Int /\ x + 1 = m.PC
      BY <1>2
    <3> HIDE DEF x
    <3>2. Wrap(Wrap(x) + 1) = Wrap(m.PC)
      BY <3>1, WrapOfSum
    <3>3. QED
      BY <1>2, <3>2, WrapOfWord DEF x
  <2>3. opcode(load8(m, InstAddr)).op = m.prev
    BY <1>3 DEF Complete
  <2>4. QED
    BY <1>3, <2>1, <2>2, <2>3 DEF instToString, ListAt
<1>4. CASE m.prev = "other"
  <2>1. InstAddr = m.PC
    BY <1>4 DEF InstAddr, Pages
  <2>2. opcode(load8(m, m.PC)).op \notin Pages
    BY DEF Complete, NextOp
  <2>3. QED
    BY <1>4, <2>1, <2>2 DEF instToString, ListAt
<1>5. QED
  BY <1>2, <1>3, <1>4 DEF Prev

(* The registers PSH and PUL list are those they move. *)
LEMMA ShownAre == ASSUME NEW s \in Stacks, NEW mask PROVE ShownRegisters(s, mask) = RegistersIn(s, mask)
<1> DEFINE regs == <<"CC", "A", "B", "DP", "X", "Y", "S", "PC">>
           Shown(r) == IF r = "S" /\ s = "S" THEN "U" ELSE r
           On == {j \in 1 .. 8 : Bit(mask, Bits[j]) = 1}
           Listed == {j \in 1 .. 8 : Bit(mask, Bits[9 - j]) = 1}
<1>1. \A i \in 1 .. 8 : 9 - i \in 1 .. 8 /\ 9 - (9 - i) = i
  OBVIOUS
<1>2. \A i \in 1 .. 8 : Shown(regs[i]) = Registers(s)[9 - i]
  BY DEF Registers, Stacks
<1>3. ShownRegisters(s, mask) = {Shown(regs[i]) : i \in Listed}
  BY DEF ShownRegisters
<1>4. RegistersIn(s, mask) = {Registers(s)[i] : i \in On}
  BY DEF RegistersIn
<1>5. \A i \in 1 .. 8 : i \in Listed <=> 9 - i \in On
  BY <1>1
<1>6. Listed \subseteq 1 .. 8 /\ On \subseteq 1 .. 8
  OBVIOUS
<1> HIDE DEF regs, Shown, Listed, On
<1>7. ASSUME NEW r \in ShownRegisters(s, mask) PROVE r \in RegistersIn(s, mask)
  <2>1. PICK i \in Listed : r = Shown(regs[i])
    BY <1>3
  <2>2. 9 - i \in On /\ r = Registers(s)[9 - i]
    BY <1>2, <1>5, <1>6, <2>1
  <2>3. QED
    BY <1>4, <2>2
<1>8. ASSUME NEW r \in RegistersIn(s, mask) PROVE r \in ShownRegisters(s, mask)
  <2>1. PICK i \in On : r = Registers(s)[i]
    BY <1>4
  <2>2. 9 - i \in 1 .. 8 /\ 9 - (9 - i) = i
    BY <1>1, <1>6
  <2>3. 9 - i \in Listed /\ r = Shown(regs[9 - i])
    BY <1>2, <1>5, <2>1, <2>2
  <2>4. QED
    BY <1>3, <2>3
<1>9. QED
  BY <1>7, <1>8

-----------------------------------------------------------------------------
(* Where the program counter goes *)

LEMMA PopAllCalm == ASSUME NEW n, IsMachine(n), NEW s \in Stacks, NEW mask, Bit(mask, 128) = 0
    PROVE  PopAll(n, s, mask).PC = n.PC
<1> DEFINE Off(x, i) == PopIf(x, s, mask, i)
           Calmly(k) == IsMachine(k) /\ k["PC"] = n["PC"]
           b == PopBytes(n, s, mask)
           w == PopWords(b, s, mask)
<1>1. ASSUME NEW k, Calmly(k), NEW i \in 2 .. 8
      PROVE  Calmly(Off(k, i))
  <2> DEFINE r == Registers(s)[i]
             j1 == Drop(k, s, 1)
             j2 == Drop(k, s, 2)
             v1 == load8(k, k[s])
             v2 == Top16(k, s)
  <2>1. IsMachine(k) /\ 1 \in Int /\ 2 \in Int
    BY <1>1
  <2>2. r # "PC"
    BY DEF Registers
  <2>3. Leads(k, j1, {s}) /\ Leads(k, j2, {s})
    BY <2>1, DropType
  <2>4. Calmly(j1) /\ Calmly(j2)
    BY <1>1, <2>3 DEF Leads, Fields, Stacks
  <2>5. v1 \in Int /\ v2 \in Int
    BY <2>1, LoadType, WordOfBytes, WordRange, ByteRange DEF Top16
  <2>6. Off(k, i) \in {k, setReg(j1, r, v1), setReg(j2, r, v2)}
    <3>1. Off(k, i) \in {k, Pop8(k, s, r), Pop16(k, s, r)}
      BY DEF PopIf
    <3>2. Pop8(k, s, r) = setReg(j1, r, v1) /\ Pop16(k, s, r) = setReg(j2, r, v2)
      BY DEF Pop8, Pop16
    <3>3. QED
      BY <3>1, <3>2
  <2> HIDE DEF j1, j2, v1, v2, r, Off
  <2>7. \A p : Paged(r, p) # "PC"
    BY <2>2, PagedElsewhere
  <2>8. Calmly(setReg(j1, r, v1)) /\ Calmly(setReg(j2, r, v2))
    BY <2>4, <2>5, <2>7, setRegType
  <2> HIDE DEF Calmly
  <2>9. QED
    BY <1>1, <2>6, <2>8
<1>2. \A k : Off(k, 1) = k
  BY DEF PopIf, Bits
<1>3. b = Off(Off(Off(Off(n, 8), 7), 6), 5) /\ w = Off(Off(Off(Off(b, 4), 3), 2), 1)
  BY DEF PopWords, PopBytes
<1>4. Calmly(n)
  OBVIOUS
<1> HIDE DEF Off, Calmly, w, b
<1>5. Calmly(b)
  BY <1>1, <1>3, <1>4
<1>6. Calmly(w)
  BY <1>1, <1>2, <1>3, <1>5
<1>7. QED
  BY <1>6 DEF Calmly, b, w, PopAll

(* Only register 5 of a postbyte is PC. *)
LEMMA OnlyFive == ASSUME NEW i \in 0 .. 15, i # 5 PROVE RegOf(i) # "PC"
BY DEF RegOf

LEMMA ExchangeCalm ==
    ASSUME NEW n, NEW f, IsDecoded(n, f), f.o.op \in Exchanging, f.m.right \in Byte,
           f.m.right % 16 # 5, f.m.right \div 16 # 5
    PROVE  Move(f).PC = f.m.PC
<1> DEFINE k == f.m
           low == RegOf(k.right % 16)
           high == RegOf(k.right \div 16)
           v == getReg(k, high)
           w == getReg(k, low)
           j == setReg(k, low, v)
<1>1. IsMachine(k)
  BY DEF IsDecoded, Leads
<1>2. v \in Int /\ w \in Int
  BY <1>1, getRegType, WordsOfBytes
<1>3. low # "PC" /\ high # "PC"
  <2> DEFINE a == k.right % 16
             b == k.right \div 16
  <2>1. a \in 0 .. 15 /\ b \in 0 .. 15 /\ a # 5 /\ b # 5
    BY ByteRange
  <2> HIDE DEF a, b
  <2>2. RegOf(a) # "PC" /\ RegOf(b) # "PC"
    BY <2>1, OnlyFive
  <2>3. QED
    BY <2>2 DEF a, b
<1>4. Move(f) \in {setReg(j, high, w), j}
  BY DEF Move, Exchange, Exchanging
<1> HIDE DEF low, high, v, w
<1>5. \A p : Paged(low, p) # "PC" /\ Paged(high, p) # "PC"
  BY <1>3, PagedElsewhere
<1>6. IsMachine(j) /\ j["PC"] = k["PC"]
  BY <1>1, <1>2, <1>5, setRegType
<1> HIDE DEF j
<1>7. setReg(j, high, w)["PC"] = j["PC"]
  BY <1>2, <1>5, <1>6, setRegType
<1>8. QED
  BY <1>4, <1>6, <1>7

(* The address the listing d says the program goes on at, and the          *)
(* instructions of which it does not say                                   *)
Destination(d) ==
    IF d.op \in Branching /\ Taken(d.op, m.cc) THEN Wrap(d.next + d.number)
    ELSE IF d.op = "BSR" THEN Wrap(d.next + d.number)
    ELSE IF d.op \in {"JMP", "JSR"} /\ d.adr = "Extended" THEN d.number
    ELSE d.next
Unlisted(d) == \/ d.op \in {"SWI", "RTI", "RTS"}
               \/ d.op \in {"JMP", "JSR"} /\ d.adr # "Extended"
               \/ d.op \in Exchanging /\ (d.number % 16 = 5 \/ d.number \div 16 = 5)
               \/ d.op = "PUL" /\ "PC" \in ShownRegisters(d.reg, d.number)
               \/ Decoded.ea >= SystemAddrStart

(* The listing d of the next instruction *)
IsListing(d) == /\ Lists(Decoded, d)
                /\ d.op = IF m.prev \in Pages /\ NextOp = "SUB16" THEN "CMP16" ELSE NextOp
                /\ d.reg = regToString(Decoded.o.reg, m.prev)

LEMMA ListingIs == ASSUME CpuInv, Complete PROVE IsListing(instToString(m, InstAddr))
<1> DEFINE o == opcode(load8(m, m.PC))
           d == ListRow(m, m.PC, m.prev, o)
           f == Loaded(Fetch(m))
<1>1. IsMachine(m)
  BY DEF CpuInv
<1>2. f.o = o /\ IsRow(o) /\ o.op = NextOp
  BY <1>1, LoadedType DEF IsDecoded, NextOp
<1>3. Lists(f, d)
  <2>1. Lists(f, ListRow(m, m.PC, m.prev, f.o))
    BY <1>1, DecodedLists
  <2> HIDE DEF f
  <2>2. QED
    BY <1>2, <2>1
<1>4. Decoded = f
  BY DEF Decoded
<1> HIDE DEF f, o
<1>5. /\ d.op = IF m.prev \in Pages /\ o.op = "SUB16" THEN "CMP16" ELSE o.op
      /\ d.reg = regToString(o.reg, m.prev)
  BY <1>2, RowNames DEF IsRow
<1>6. instToString(m, InstAddr) = d
  BY ListedFrom DEF o
<1> HIDE DEF d
<1>7. IsListing(d)
  BY <1>2, <1>3, <1>4, <1>5 DEF IsListing
<1>8. QED
  BY <1>6, <1>7

(* An instruction that lists no address goes on behind itself. *)
Addressing == Branching \cup {"BSR", "JMP", "JSR"}
LEMMA GoesOn ==
    ASSUME NEW d, IsListing(d), NextOp \notin Addressing, m'.PC = Decoded.m.PC
    PROVE  m'.PC = Destination(d)
<1>1. d.op \notin Addressing
  BY DEF IsListing, Addressing, Branching
<1>2. QED
  BY <1>1 DEF IsListing, Lists, Destination, Addressing

LEMMA EndPC == ASSUME NEW n, NEW f, IsDecoded(n, f), NEW k, IsMachine(k) PROVE Finished(f, k).PC = k.PC
BY FinishedType DEF Leads, Fields, Storing

(* A relative address is shown with its sign and kept in 16 bits. *)
LEMMA RelativeTarget ==
    ASSUME NEW d, IsListing(d), IsMachine(Decoded.m), Decoded.o.adr \in Relative
    PROVE  Wrap(Decoded.m.PC + Decoded.m.right) = Wrap(d.next + d.number)
<1> DEFINE x == Decoded.m.PC
           y == d.number
<1>1. d.next = x /\ Decoded.m.right = Wrap(y) /\ y \in Int
  BY DEF IsListing, Lists
<1>2. x \in Int
  BY RegisterTypes, WordsOfBytes
<1> HIDE DEF x, y
<1>3. Wrap(y) \in Int
  BY <1>1, WrapType, WordsOfBytes
<1>4. Wrap(Wrap(y) + x) = Wrap(y + x)
  BY <1>1, <1>2, WrapOfSum
<1>5. Wrap(y) + x = x + Wrap(y) /\ y + x = x + y
  BY <1>1, <1>2, <1>3
<1>6. QED
  BY <1>1, <1>4, <1>5 DEF x, y

(* The instructions that calculate, move and branch *)
LEMMA OperatingFollows ==
    ASSUME CpuInv, NEW d, IsListing(d), CalculateOp \/ MoveOp \/ BranchOp
    PROVE  Unlisted(d) \/ m'.PC = Destination(d)
<1> DEFINE f == Decoded
<1>1. IsDecoded(m, f) /\ IsRow(f.o) /\ f.o.op = NextOp
  BY DecodedType DEF IsDecoded
<1>2. IsMachine(f.m) /\ f.m.cc = m.cc /\ f.m.right \in Word
  <2>1. IsMachine(f.m) /\ f.m.cc = m.cc
    BY <1>1 DEF IsDecoded, Leads, Fields, FetchFields
  <2>2. QED
    BY <2>1, RegisterTypes
<1>3. CASE CalculateOp
  <2> DEFINE k == Calculate(f)
  <2>1. m' = Finished(f, k) /\ NextOp \in Calculations
    BY <1>3 DEF CalculateOp, Ends
  <2>2. Leads(f.m, k, Calm)
    BY <1>1, <2>1, CalculateType
  <2> HIDE DEF k
  <2>3. k.PC = f.m.PC /\ IsMachine(k)
    BY <2>2 DEF Leads, Fields, Calm
  <2>4. m'.PC = f.m.PC
    BY <1>1, <2>1, <2>3, EndPC
  <2>5. NextOp \notin Addressing
    BY <2>1 DEF Calculations, Addressing, Branching
  <2>6. QED
    BY <2>4, <2>5, GoesOn
<1>4. CASE MoveOp
  <2> DEFINE k == Move(f)
  <2>1. m' = Finished(f, k) /\ NextOp \in Moves
    BY <1>4 DEF MoveOp, Ends
  <2>2. IsMachine(k)
    BY <1>1, <2>1, MoveType DEF Leads
  <2>3. NextOp \notin Addressing
    BY <2>1 DEF Moves, Addressing, Branching
  <2>4. NextOp \notin Exchanging => k.PC = f.m.PC
    <3>1. NextOp \notin Exchanging => Leads(f.m, k, Calm)
      BY <1>1, <2>1, CalmMoveType
    <3> HIDE DEF k
    <3>2. QED
      BY <3>1 DEF Leads, Fields, Calm
  <2>5. NextOp \in Exchanging => Unlisted(d) \/ k.PC = f.m.PC
    <3> SUFFICES ASSUME NextOp \in Exchanging, ~Unlisted(d) PROVE k.PC = f.m.PC
      OBVIOUS
    <3>1. f.o.adr = "Immed8" /\ d.op \in Exchanging
      BY <1>1 DEF IsRow, IsListing, Exchanging
    <3>2. d.number = f.m.right
      BY <3>1 DEF IsListing, Lists
    <3>3. f.m.right % 16 # 5 /\ f.m.right \div 16 # 5
      BY <3>1, <3>2 DEF Unlisted
    <3>4. f.m.right \in Byte
      BY <3>1 DEF IsListing, Lists
    <3>5. QED
      BY <1>1, <3>3, <3>4, ExchangeCalm
  <2> HIDE DEF k
  <2>6. m'.PC = k.PC
    BY <1>1, <2>1, <2>2, EndPC
  <2>7. QED
    BY <2>3, <2>4, <2>5, <2>6, GoesOn
<1>5. CASE BranchOp
  <2> DEFINE k == BranchTo(f)
  <2>1. m' = Finished(f, k) /\ NextOp \in Branching
    BY <1>5 DEF BranchOp, Ends
  <2>2. IsMachine(k)
    BY <1>1, BranchType DEF Leads
  <2>3. f.m.right \in Int
    BY <1>2, WordsOfBytes
  <2>4. k.PC = IF Taken(NextOp, m.cc) THEN Wrap(f.m.PC + f.m.right) ELSE f.m.PC
    <3>1. k = IF Taken(NextOp, m.cc) THEN Skip(f.m, f.m.right) ELSE f.m
      BY <1>1, <1>2 DEF BranchTo
    <3>2. Skip(f.m, f.m.right).PC = Wrap(f.m.PC + f.m.right)
      BY <1>2, <2>3, SkippedIs
    <3>3. QED
      BY <3>1, <3>2
  <2> HIDE DEF k
  <2>5. m'.PC = k.PC
    BY <1>1, <2>1, <2>2, EndPC
  <2>6. d.op = NextOp
    BY <2>1 DEF IsListing, Branching
  <2>7. f.o.adr \in Relative
    BY <1>1, <2>1 DEF IsRow, Branchings
  <2>8. f.m.PC = d.next
    BY DEF IsListing, Lists
  <2>9. Wrap(f.m.PC + f.m.right) = Wrap(d.next + d.number)
    BY <1>2, <2>7, RelativeTarget
  <2>10. d.op \notin {"BSR", "JMP", "JSR"}
    BY <2>1, <2>6 DEF Branching
  <2>11. QED
    BY <2>1, <2>4, <2>5, <2>6, <2>8, <2>9, <2>10 DEF Destination
<1>6. QED
  BY <1>3, <1>4, <1>5

(* The instructions that push and pull *)
LEMMA StackingFollows ==
    ASSUME CpuInv, NEW d, IsListing(d), Pushing \/ Pulling
    PROVE  Unlisted(d) \/ m'.PC = Destination(d)
<1> DEFINE f == Decoded
           s == f.o.reg
           mask == f.m.right
<1>1. IsDecoded(m, f) /\ IsMachine(f.m) /\ f.o.op = NextOp /\ NextOp \in Stackings
  <2>1. NextOp \in Stackings
    BY DEF Pushing, Pulling, Stackings
  <2>2. QED
    BY <2>1, DecodedType DEF IsDecoded, Leads
<1>2. s \in Stacks /\ f.o.adr = "Immed8" /\ d.op = NextOp
  BY <1>1 DEF IsDecoded, IsRow, IsListing, Stacks, Stackings
<1>3. NextOp \notin Addressing
  BY <1>1 DEF Stackings, Addressing, Branching
<1>4. mask \in Nat /\ d.number = mask /\ d.reg = s
  <2>1. f.m.right \in Word
    BY <1>1, RegisterTypes
  <2>2. d.reg = regToString(s, m.prev)
    BY DEF IsListing
  <2>3. QED
    BY <1>2, <2>1, <2>2, WordsOfBytes DEF IsListing, Lists, regToString, Paged, Stacks
<1>5. CountBits(mask) \in Nat
  BY CountBitsType
<1>6. CASE Pushing
  <2> DEFINE pushed == PushAll(f.m, s, mask)
             k == AddCy(pushed, CountBits(mask))
  <2>1. m' = Finished(f, k)
    BY <1>6 DEF Pushing, Pushes
  <2>2. IsMachine(pushed) /\ pushed.PC = f.m.PC
    BY <1>1, <1>2, PushAllType DEF Leads, Fields, Stacks
  <2> HIDE DEF pushed
  <2>3. IsMachine(k) /\ k.PC = pushed.PC
    BY <1>5, <2>2, AddCyType DEF Fields
  <2> HIDE DEF k
  <2>4. m'.PC = f.m.PC
    BY <1>1, <2>1, <2>2, <2>3, EndPC
  <2>5. QED
    BY <1>3, <2>4, GoesOn
<1>7. CASE Pulling
  <2> DEFINE more == AddCy(f.m, CountBits(mask))
             k == PopAll(more, s, mask)
  <2>1. m' = Finished(f, k)
    BY <1>7 DEF Pulling, Ends
  <2>2. IsMachine(more) /\ more.PC = f.m.PC
    BY <1>1, <1>5, AddCyType DEF Fields
  <2> HIDE DEF more
  <2>3. IsMachine(k)
    BY <1>2, <2>2, PopAllType DEF Leads
  <2>4. Bit(mask, 128) = 0 => k.PC = f.m.PC
    BY <1>2, <2>2, PopAllCalm
  <2> HIDE DEF k
  <2>5. m'.PC = k.PC
    BY <1>1, <2>1, <2>3, EndPC
  <2>6. Bit(mask, 128) # 0 => Unlisted(d)
    <3> SUFFICES ASSUME Bit(mask, 128) # 0 PROVE Unlisted(d)
      OBVIOUS
    <3>1. 128 \in Nat \ {0} /\ mask \in Int
      BY <1>4
    <3>2. Bit(mask, 128) = 1
      BY <3>1, BitType
    <3>3. 1 \in 1 .. 8 /\ Bits[1] = 128 /\ Registers(s)[1] = "PC"
      BY DEF Bits, Registers
    <3> HIDE DEF mask, s
    <3>4. "PC" \in RegistersIn(s, mask)
      BY <3>2, <3>3 DEF RegistersIn
    <3>5. "PC" \in ShownRegisters(s, mask)
      BY <1>2, <3>4, ShownAre
    <3>6. d.op = "PUL"
      BY <1>2, <1>7 DEF Pulling
    <3>7. QED
      BY <1>4, <3>5, <3>6 DEF Unlisted
  <2>7. QED
    BY <1>3, <2>4, <2>5, <2>6, GoesOn
<1>8. QED
  BY <1>6, <1>7

(* The calls, jumps, interrupts and returns *)
LEMMA ControlFollows ==
    ASSUME CpuInv, NEW d, IsListing(d),
           \/ Interrupt \/ WaitForInterrupt \/ ReturnFromInterrupt \/ ReturnFromSubroutine
           \/ BranchToSubroutine \/ JumpToSubroutine \/ Jump \/ SystemCall
    PROVE  Unlisted(d) \/ m'.PC = Destination(d)
<1> DEFINE f == Decoded
           pushed == PushAll(f.m, "S", 128)
<1>1. IsDecoded(m, f) /\ IsRow(f.o) /\ IsMachine(f.m) /\ f.o.op = NextOp
  BY DecodedType DEF IsDecoded, Leads
<1>2. NextOp # "SUB16" /\ NextOp \notin Branching
  BY DEF Interrupt, WaitForInterrupt, ReturnFromInterrupt, ReturnFromSubroutine, BranchToSubroutine,
         JumpToSubroutine, Jump, SystemCall, Branching
<1>3. d.op = NextOp
  BY <1>2 DEF IsListing
<1>4. IsMachine(pushed) /\ pushed.PC = f.m.PC
  <2>1. "S" \in Stacks
    BY DEF Stacks
  <2>2. QED
    BY <1>1, <2>1, PushAllType DEF Leads, Fields
<1>5. CASE Interrupt \/ ReturnFromInterrupt \/ ReturnFromSubroutine
  <2>1. d.op \in {"SWI", "RTI", "RTS"}
    BY <1>3, <1>5 DEF Interrupt, ReturnFromInterrupt, ReturnFromSubroutine
  <2>2. QED
    BY <2>1 DEF Unlisted
<1>6. CASE SystemCall
  BY <1>6 DEF SystemCall, Unlisted
<1>7. CASE WaitForInterrupt
  <2> DEFINE x == WaitFlags(f.m)
             n == With(f.m, "cc", x)
             k == PushAll(n, "S", EntireMask)
  <2>1. m' = Finished(f, k) /\ NextOp = "CWAI"
    BY <1>7 DEF WaitForInterrupt, Pushes, With, WaitFlags
  <2>2. IsMachine(n) /\ n.PC = f.m.PC
    <3>1. x \in CC
      BY <1>1, WaitFlagsType
    <3> HIDE DEF x
    <3>2. "cc" \in Fields /\ HasType("cc", x)
      BY <3>1 DEF Fields, HasType, ByteRegs, WordRegs
    <3>3. "PC" \in Fields \ {"cc"}
      BY DEF Fields
    <3>4. QED
      BY <1>1, <3>2, <3>3, FieldSet
  <2> HIDE DEF n
  <2>3. IsMachine(k) /\ k.PC = n.PC
    <3>1. "S" \in Stacks
      BY DEF Stacks
    <3>2. QED
      BY <2>2, <3>1, PushAllType DEF Leads, Fields
  <2> HIDE DEF k
  <2>4. m'.PC = f.m.PC
    BY <1>1, <2>1, <2>2, <2>3, EndPC
  <2>5. NextOp \notin Addressing
    BY <2>1 DEF Addressing, Branching
  <2>6. QED
    BY <2>4, <2>5, GoesOn
<1>8. CASE BranchToSubroutine
  <2> DEFINE k == Skip(pushed, f.m.right)
  <2>1. m' = Finished(f, k) /\ NextOp = "BSR"
    BY <1>8 DEF BranchToSubroutine, Pushes
  <2>2. f.m.right \in Int
    BY <1>1, RegisterTypes, WordsOfBytes
  <2> HIDE DEF pushed
  <2>3. IsMachine(k)
    BY <1>4, <2>2, SkipType
  <2>4. k.PC = Wrap(f.m.PC + f.m.right)
    <3>1. Skip(pushed, f.m.right).PC = Wrap(pushed.PC + f.m.right)
      BY <1>4, <2>2, SkippedIs
    <3>2. QED
      BY <1>4, <3>1
  <2> HIDE DEF k
  <2>5. m'.PC = k.PC
    BY <1>1, <2>1, <2>3, EndPC
  <2>6. f.o.adr \in Relative
    BY <1>1, <2>1 DEF IsRow, Branchings
  <2>7. Wrap(f.m.PC + f.m.right) = Wrap(d.next + d.number)
    BY <1>1, <2>6, RelativeTarget
  <2>8. QED
    BY <1>2, <1>3, <2>1, <2>4, <2>5, <2>7 DEF Destination
<1>9. CASE JumpToSubroutine \/ Jump
  <2>1. PICK n : IsMachine(n) /\ m' = Finished(f, With(n, "PC", f.ea))
    <3>1. CASE JumpToSubroutine
      BY <1>4, <3>1 DEF JumpToSubroutine, Pushes, With
    <3>2. CASE Jump
      BY <1>1, <3>2 DEF Jump, Ends, With
    <3>3. QED
      BY <1>9, <3>1, <3>2
  <2>2. NextOp \in {"JMP", "JSR"}
    BY <1>9 DEF JumpToSubroutine, Jump
  <2>3. "PC" \in Fields /\ HasType("PC", f.ea)
    BY <1>1 DEF Fields, HasType, ByteRegs, WordRegs, IsDecoded
  <2>4. IsMachine(With(n, "PC", f.ea)) /\ With(n, "PC", f.ea).PC = f.ea
    BY <2>1, <2>3, FieldSet
  <2>5. m'.PC = f.ea
    BY <1>1, <2>1, <2>4, EndPC
  <2>6. CASE d.adr = "Extended"
    <3>1. d.number = f.ea
      BY <2>6 DEF IsListing, Lists
    <3>2. QED
      BY <1>2, <1>3, <2>2, <2>5, <2>6, <3>1 DEF Destination
  <2>7. CASE d.adr # "Extended"
    BY <1>3, <2>2, <2>7 DEF Unlisted
  <2>8. QED
    BY <2>6, <2>7
<1>10. QED
  BY <1>5, <1>6, <1>7, <1>8, <1>9

(* A subtraction that is listed as one stores, one that is listed as a     *)
(* comparison does not.                                                    *)
LEMMA ComparingFollows ==
    ASSUME CpuInv, Next, NEW d, IsListing(d)
    PROVE  /\ d.op = "SUB16" => getReg(m', "D") = m'.result % 65536
           /\ d.op = "CMP16" => OnlyChanges(Decoded.m, {})
<1> DEFINE f == Decoded
           c == Calculate(f)
           e == Finished(f, c)
<1> SUFFICES ASSUME d.op \in Comparing
             PROVE  /\ d.op = "SUB16" => getReg(m', "D") = m'.result % 65536
                    /\ d.op = "CMP16" => OnlyChanges(f.m, {})
  BY DEF Comparing
<1>1. IsDecoded(m, f) /\ IsRow(f.o) /\ f.o.op = NextOp /\ IsMachine(f.m)
  BY DecodedType DEF IsDecoded, Leads
<1>2. f.m.prev = m.prev /\ m.prev \in Prev
  BY <1>1, RegisterTypes DEF IsDecoded, Leads, Fields, FetchFields, CpuInv
<1>3. NextOp \in Comparing /\ (d.op = "SUB16" <=> NextOp = "SUB16" /\ m.prev \notin Pages)
  BY DEF IsListing, Comparing
<1>4. m' = e
  BY <1>3, WideSteps DEF Comparing
<1>5. f.o.left = "Ld" /\ f.o.right \notin {"St8", "St16"} /\ (NextOp = "SUB16" => f.o.reg = "DDU")
  BY <1>1, <1>3 DEF IsRow
<1>6. f.o.op = "SUB16" => Paged(f.o.reg, f.m.prev) = "D" \/ f.m.prev \in Pages
  BY <1>1, <1>2, <1>5, PagedIs DEF Prev
<1>7. f.o.op \in {"SUB16", "CMP16"}
  BY <1>1, <1>3 DEF Comparing
<1>8. /\ f.o.op = "CMP16" \/ f.m.prev \in Pages => Keeps(f.m, e, {})
      /\ f.o.op = "SUB16" /\ f.m.prev \notin Pages => getReg(e, "D") = Wrap(f.left - f.m.right)
  BY <1>1, <1>5, <1>6, <1>7, Compares
<1>9. Wrap(e.result) = Wrap(f.left - f.m.right)
  <2> DEFINE out == SUB16(f.left, f.m.right, f.m.cc)
             k == Leave(f.m, out)
  <2>1. f.left \in Word /\ f.m.right \in Word /\ f.m.cc \in CC
    BY <1>1, RegisterTypes DEF IsDecoded
  <2>2. IsOut(out) /\ Wrap(out.result) = Wrap(f.left - f.m.right)
    BY <2>1, DifferenceCompares
  <2>3. c = k \/ c = setReg(k, f.o.reg, k.result)
    <3>1. Calculated(f.o.op, f.left, f.m.right, f.m.cc) = out
      BY <1>7 DEF Calculated
    <3>2. QED
      BY <3>1 DEF Calculate
  <2> HIDE DEF out
  <2>4. IsMachine(k) /\ k.result = out.result
    BY <1>1, <2>2, LeaveIs DEF Leads
  <2>5. k.result \in Int
    BY <2>2, <2>4, ResultRange DEF IsOut
  <2> HIDE DEF k, c
  <2>6. "result" \in Fields \ Written /\ "result" \in Fields \ {"prev"}
    BY DEF Fields, Written, ByteRegs, WordRegs
  <2>7. IsMachine(c) /\ c.result = out.result
    BY <2>3, <2>4, <2>5, <2>6, setRegType
  <2>8. Stored(f, c) = c
    BY <1>5 DEF Stored
  <2>9. e.result = out.result
    BY <1>1, <2>6, <2>7, <2>8, EndKeeps
  <2>10. QED
    BY <2>2, <2>9
<1> HIDE DEF e, c
<1>10. d.op = "SUB16" => getReg(m', "D") = m'.result % 65536
  BY <1>1, <1>2, <1>3, <1>4, <1>8, <1>9 DEF Wrap
<1>11. d.op = "CMP16" => OnlyChanges(f.m, {})
  <2>1. d.op = "CMP16" => f.o.op = "CMP16" \/ f.m.prev \in Pages
    BY <1>1, <1>2, <1>3 DEF Comparing
  <2>2. Keeps(f.m, m', {}) => OnlyChanges(f.m, {})
    BY DEF Keeps, OnlyChanges
  <2>3. QED
    BY <1>4, <1>8, <2>1, <2>2
<1>12. QED
  BY <1>10, <1>11

LEMMA ListingStep ==
    ASSUME CpuInv, Next, Complete, NEW d, d = instToString(m, InstAddr)
    PROVE  /\ Unlisted(d) \/ m'.PC = Destination(d)
           /\ d.op = "SUB16" => getReg(m', "D") = m'.result % 65536
           /\ d.op = "CMP16" => OnlyChanges(Decoded.m, {})
           /\ d.op \in {"PSH", "PUL"} =>
                 ShownRegisters(d.reg, d.number) = RegistersIn(d.reg, d.number)
<1>1. IsListing(d)
  BY ListingIs
<1>2. ~PagePrefix /\ ~Illegal
  BY DEF PagePrefix, Illegal, Complete
<1>3. Unlisted(d) \/ m'.PC = Destination(d)
  BY <1>1, <1>2, OperatingFollows, StackingFollows, ControlFollows DEF Next
<1>4. ASSUME d.op \in {"PSH", "PUL"}
      PROVE  ShownRegisters(d.reg, d.number) = RegistersIn(d.reg, d.number)
  <2>1. NextOp \in Stackings
    BY <1>1, <1>4 DEF IsListing, Stackings
  <2>2. Decoded.o.reg \in Stacks
    BY <2>1, DecodedType DEF IsDecoded, IsRow, Stacks
  <2>3. d.reg \in Stacks
    BY <1>1, <2>2 DEF IsListing, regToString, Paged, Stacks
  <2>4. QED
    BY <2>3, ShownAre
<1>5. QED
  BY <1>1, <1>3, <1>4, ComparingFollows

(* What the monitor lists is what runs (DisplayInst::instToString() and    *)
(* Emulator::execute() decode the same bytes apart from each other): from  *)
(* whatever state a complete instruction runs, prefix included, the        *)
(* processor goes on at the address the listing gives, but for the returns,*)
(* computed jumps and system calls of which it does not say; a listed SUB  *)
(* stores and a listed CMP does not; and PSH and PUL list their registers. *)
THEOREM ListingIsFollowed == Spec => ListingFollows
<1> DEFINE Follows ==
      Complete =>
          LET d == instToString(m, InstAddr)
              to == IF d.op \in Branching /\ Taken(d.op, m.cc) THEN Wrap(d.next + d.number)
                    ELSE IF d.op = "BSR" THEN Wrap(d.next + d.number)
                    ELSE IF d.op \in {"JMP", "JSR"} /\ d.adr = "Extended" THEN d.number
                    ELSE d.next
              leaves == \/ d.op \in {"SWI", "RTI", "RTS"}
                        \/ d.op \in {"JMP", "JSR"} /\ d.adr # "Extended"
                        \/ d.op \in {"EXG", "TFR"} /\ (d.number % 16 = 5 \/ d.number \div 16 = 5)
                        \/ d.op = "PUL" /\ "PC" \in ShownRegisters(d.reg, d.number)
                        \/ Decoded.ea >= SystemAddrStart
          IN  /\ leaves \/ m'.PC = to
              /\ d.op = "SUB16" => getReg(m', "D") = m'.result % 65536
              /\ d.op = "CMP16" => OnlyChanges(Decoded.m, {})
              /\ d.op \in {"PSH", "PUL"} =>
                    ShownRegisters(d.reg, d.number) = RegistersIn(d.reg, d.number)
<1>1. ASSUME CpuInv, Next PROVE Follows
  BY <1>1, ListingStep DEF Unlisted, Destination, Exchanging
<1>2. CpuInv /\ [Next]_vars => [Follows]_vars
  BY <1>1
<1>3. QED
  BY <1>2, InitType, InvStep, PTL DEF Spec, ListingFollows
=============================================================================
