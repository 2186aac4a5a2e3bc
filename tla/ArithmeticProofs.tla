--------------------------- MODULE ArithmeticProofs ---------------------------
(***************************************************************************)
(* Theorems about Arithmetic, for all operands of 8 and 16 bits and for    *)
(* numbers of any length.                                                  *)
(*                                                                         *)
(* First the bits of a sum and of a difference are what comparing it with  *)
(* 128, 256, 32768 and 65536 says; from that follows, operation by         *)
(* operation, what the helpers that update the condition codes leave       *)
(* (SumIs, DiffIs, ...).  ArInv is inductive with one lemma per action,    *)
(* and the theorems on branches, on numbers of several bytes and on        *)
(* decimal sums rest on it.                                                *)
(***************************************************************************)
EXTENDS Arithmetic, TLAPS

(* The numbers of 16 bits, by their bounds *)
LEMMA WordRange == ASSUME NEW n PROVE n \in Word <=> n \in Int /\ n >= 0 /\ n < 65536
<1>1. n \in Word <=> n \in Int /\ n >= 0 /\ n <= MaxWord BY DEF Word
<1> QED BY <1>1 DEF MaxWord

(* The values of the latch, by their bounds *)
LEMMA ResultRange == ASSUME NEW n PROVE n \in Result <=> n \in Int /\ n >= 0 /\ n < 131072
<1>1. n \in Result <=> n \in Int /\ n >= 0 /\ n <= ResultModulus - 1 BY DEF Result
<1> QED BY <1>1 DEF ResultModulus

(* Of a sum of 16 bits, bit 16 is the carry and bit 15 the sign. *)
LEMMA SumBits16 == ASSUME NEW n \in Int, n >= 0, n < 131072
  PROVE /\ Bit(n, 32768) = IF (n >= 32768 /\ n < 65536) \/ n >= 98304 THEN 1 ELSE 0
        /\ Bit(n, 65536) = IF n >= 65536 THEN 1 ELSE 0
<1>1. CASE n < 32768
  <2>1. n \div 32768 = 0 /\ n \div 65536 = 0 BY <1>1
  <2> QED BY <1>1, <2>1 DEF Bit
<1>2. CASE n >= 32768 /\ n < 65536
  <2>1. n \div 32768 = 1 /\ n \div 65536 = 0 BY <1>2
  <2> QED BY <1>2, <2>1 DEF Bit
<1>3. CASE n >= 65536 /\ n < 98304
  <2>1. n \div 32768 = 2 /\ n \div 65536 = 1 BY <1>3
  <2> QED BY <1>3, <2>1 DEF Bit
<1>4. CASE n >= 98304
  <2>1. n \div 32768 = 3 /\ n \div 65536 = 1 BY <1>4
  <2> QED BY <1>4, <2>1 DEF Bit
<1> QED BY <1>1, <1>2, <1>3, <1>4

(* Bit 7 of a byte is its sign. *)
LEMMA SignBit == ASSUME NEW n \in Byte PROVE Bit(n, 128) = IF n >= 128 THEN 1 ELSE 0
BY DEF Bit, Byte

(* Of a sum of 8 bits, bit 8 is the carry and bit 7 the sign. *)
LEMMA SumBits8 == ASSUME NEW n \in Int, n >= 0, n < 512
  PROVE /\ Bit(n, 128) = IF (n >= 128 /\ n < 256) \/ n >= 384 THEN 1 ELSE 0
        /\ Bit(n, 256) = IF n >= 256 THEN 1 ELSE 0
BY DEF Bit

(* A difference below 0 wraps, and its bit 8 is the borrow. *)
LEMMA DiffBits8 == ASSUME NEW d \in Int, d >= -256, d < 256
  PROVE /\ d % 131072 = IF d < 0 THEN d + 131072 ELSE d
        /\ Bit(d % 131072, 128) = IF (d >= -128 /\ d < 0) \/ d >= 128 THEN 1 ELSE 0
        /\ Bit(d % 131072, 256) = IF d < 0 THEN 1 ELSE 0
<1>1. d % 131072 = IF d < 0 THEN d + 131072 ELSE d
  OBVIOUS
<1>2. CASE d < 0
  <2>1. Bit(d + 131072, 256) = 1 BY <1>2 DEF Bit
  <2>2. Bit(d + 131072, 128) = IF d >= -128 THEN 1 ELSE 0 BY <1>2 DEF Bit
  <2> QED BY <1>1, <1>2, <2>1, <2>2
<1>3. CASE d >= 0
  <2>1. Bit(d, 256) = 0 BY <1>3 DEF Bit
  <2>2. Bit(d, 128) = IF d >= 128 THEN 1 ELSE 0 BY <1>3 DEF Bit
  <2> QED BY <1>1, <1>3, <2>1, <2>2
<1> QED BY <1>2, <1>3

(* A parity of four bits is an exclusive or of two inequalities. *)
LEMMA ParityOf == ASSUME NEW a \in 0 .. 1, NEW b \in 0 .. 1, NEW c \in 0 .. 1, NEW d \in 0 .. 1
  PROVE Parity(a + b + c + d) = IF (a = b) <=> (c = d) THEN 0 ELSE 1
BY DEF Parity

(* The parity of updateV8 is the overflow of a sum. *)
LEMMA SumV == ASSUME NEW l \in Byte, NEW r \in Byte, NEW c \in 0 .. 1
  PROVE Parity(Bit(l, 128) + Bit(r, 128) + Bit(l + r + c, 128) + Bit(l + r + c, 256))
         = Flag(Out8(Signed8(l) + Signed8(r) + c))
<1> DEFINE n == l + r + c
<1>1. n \in Int /\ n >= 0 /\ n < 512 BY DEF Byte
<1>2. /\ Bit(n, 128) = IF (n >= 128 /\ n < 256) \/ n >= 384 THEN 1 ELSE 0
      /\ Bit(n, 256) = IF n >= 256 THEN 1 ELSE 0
   BY <1>1, SumBits8
<1>3. /\ Bit(l, 128) = IF l >= 128 THEN 1 ELSE 0
      /\ Bit(r, 128) = IF r >= 128 THEN 1 ELSE 0
   BY SignBit
<1>4. Parity(Bit(l, 128) + Bit(r, 128) + Bit(n, 128) + Bit(n, 256)) = 
       IF (Bit(l, 128) = Bit(r, 128)) <=> (Bit(n, 128) = Bit(n, 256)) THEN 0 ELSE 1
   BY <1>2, <1>3, ParityOf
<1>5. n = l + r + c OBVIOUS
<1> HIDE DEF n
<1>6. Parity(Bit(l, 128) + Bit(r, 128) + Bit(n, 128) + Bit(n, 256)) = 
      Flag(Out8(Signed8(l) + Signed8(r) + c))
   BY <1>1, <1>2, <1>3, <1>4, <1>5 DEF Flag, Out8, Signed8, Byte
<1> QED BY <1>5, <1>6

(* The parity of updateV8 is the overflow of a difference. *)
LEMMA DiffV == ASSUME NEW l \in Byte, NEW r \in Byte, NEW c \in 0 .. 1,
                      NEW n, n = (l - r - c) % 131072
  PROVE Parity(Bit(l, 128) + Bit(r, 128) + Bit(n, 128) + Bit(n, 256))
         = Flag(Out8(Signed8(l) - Signed8(r) - c))
<1> DEFINE d == l - r - c
<1>1. d \in Int /\ d >= -256 /\ d < 256 BY DEF Byte
<1>2. /\ Bit(n, 128) = IF (d >= -128 /\ d < 0) \/ d >= 128 THEN 1 ELSE 0
      /\ Bit(n, 256) = IF d < 0 THEN 1 ELSE 0
   BY <1>1, DiffBits8
<1>3. /\ Bit(l, 128) = IF l >= 128 THEN 1 ELSE 0
      /\ Bit(r, 128) = IF r >= 128 THEN 1 ELSE 0
   BY SignBit
<1>4. Parity(Bit(l, 128) + Bit(r, 128) + Bit(n, 128) + Bit(n, 256)) = 
       IF (Bit(l, 128) = Bit(r, 128)) <=> (Bit(n, 128) = Bit(n, 256)) THEN 0 ELSE 1
   BY <1>2, <1>3, ParityOf
<1>5. d = l - r - c OBVIOUS
<1> HIDE DEF d
<1> QED
   BY <1>1, <1>2, <1>3, <1>4, <1>5 DEF Flag, Out8, Signed8, Byte

(* Each bit the flags are taken from is 0 or 1. *)
LEMMA BitsOfResult == ASSUME NEW n \in Int
  PROVE /\ Bit(n, 16) \in 0 .. 1 /\ Bit(n, 128) \in 0 .. 1 /\ Bit(n, 256) \in 0 .. 1
        /\ Bit(n, 64) \in 0 .. 1 /\ Bit(n, 1) \in 0 .. 1
        /\ Bit(n, 32768) \in 0 .. 1 /\ Bit(n, 65536) \in 0 .. 1
        /\ n % 256 \in Byte
BY DEF Bit, Byte

(* A flag made from a condition is 0 or 1. *)
LEMMA FlagType == ASSUME NEW p PROVE Flag(p) \in 0 .. 1
BY DEF Flag

(* A parity is 0 or 1. *)
LEMMA ParityType == ASSUME NEW n \in Int PROVE Parity(n) \in 0 .. 1
BY DEF Parity

(* A parity of three bits is the third or its opposite. *)
LEMMA ParityOfThree == ASSUME NEW a \in 0 .. 1, NEW b \in 0 .. 1, NEW c \in 0 .. 1
  PROVE Parity(a + b + c) = IF a = b THEN c ELSE 1 - c
BY DEF Parity

(* The parity of updateH is the carry out of the low digit. *)
LEMMA SumH == ASSUME NEW l \in Byte, NEW r \in Byte, NEW c \in 0 .. 1
  PROVE Parity(Bit(l, 16) + Bit(r, 16) + Bit(l + r + c, 16)) = Flag((l % 16) + (r % 16) + c > 15)
<1> DEFINE p == l \div 16
           a == l % 16
           q == r \div 16
           b == r % 16
           n == l + r + c
<1>1. p \in 0 .. 15 /\ q \in 0 .. 15 /\ a \in 0 .. 15 /\ b \in 0 .. 15 BY DEF Byte
<1>2. l = 16 * p + a /\ r = 16 * q + b BY DEF Byte
<1>3. Bit(l, 16) = p % 2 /\ Bit(r, 16) = q % 2 BY DEF Bit
<1>4. l % 16 = a /\ r % 16 = b /\ n = l + r + c OBVIOUS
<1> HIDE DEF p, q, a, b, n
<1>5. n = 16 * (p + q) + (a + b + c) BY <1>1, <1>2, <1>4
<1>6. Bit(l, 16) \in 0 .. 1 /\ Bit(r, 16) \in 0 .. 1 /\ Bit(n, 16) \in 0 .. 1
  BY <1>1, <1>5, BitsOfResult DEF Byte
<1>7. CASE a + b + c > 15
  <2>1. n \div 16 = p + q + 1 BY <1>1, <1>5, <1>7
  <2>2. (p + q + 1) % 2 = IF p % 2 = q % 2 THEN 1 ELSE 0 BY <1>1
  <2>3. Bit(n, 16) = (p + q + 1) % 2 BY <2>1 DEF Bit
  <2>4. Parity(Bit(l, 16) + Bit(r, 16) + Bit(n, 16)) = 1 BY <1>3, <1>6, <2>2, <2>3, ParityOfThree
  <2>5. Flag((l % 16) + (r % 16) + c > 15) = 1 BY <1>4, <1>7 DEF Flag
  <2> QED BY <1>4, <2>4, <2>5
<1>8. CASE ~(a + b + c > 15)
  <2>1. n \div 16 = p + q BY <1>1, <1>5, <1>8
  <2>2. (p + q) % 2 = IF p % 2 = q % 2 THEN 0 ELSE 1 BY <1>1
  <2>3. Bit(n, 16) = (p + q) % 2 BY <2>1 DEF Bit
  <2>4. Parity(Bit(l, 16) + Bit(r, 16) + Bit(n, 16)) = 0 BY <1>3, <1>6, <2>2, <2>3, ParityOfThree
  <2>5. Flag((l % 16) + (r % 16) + c > 15) = 0 BY <1>4, <1>8 DEF Flag
  <2> QED BY <1>4, <2>4, <2>5
<1> QED BY <1>7, <1>8

(* What HNZVC8 makes of every flag *)
LEMMA HNZVC8Is == ASSUME NEW x \in CC, NEW l \in Int, NEW r \in Int, NEW n \in Int
  PROVE /\ HNZVC8(x, l, r, n) \in CC
        /\ HNZVC8(x, l, r, n).H = Parity(Bit(l, 16) + Bit(r, 16) + Bit(n, 16))
        /\ HNZVC8(x, l, r, n).Z = Flag(n % 256 = 0)
        /\ HNZVC8(x, l, r, n).N = Bit(n, 128)
        /\ HNZVC8(x, l, r, n).V = Parity(Bit(l, 128) + Bit(r, 128) + Bit(n, 128) + Bit(n, 256))
        /\ HNZVC8(x, l, r, n).C = Bit(n, 256)
<1> DEFINE h == Parity(Bit(l, 16) + Bit(r, 16) + Bit(n, 16))
           z == Flag(n % 256 = 0)
           s == Bit(n, 128)
           v == Parity(Bit(l, 128) + Bit(r, 128) + Bit(n, 128) + Bit(n, 256))
           c == Bit(n, 256)
           y == HNZVC8(x, l, r, n)
<1>1. h \in 0 .. 1 /\ z \in 0 .. 1 /\ s \in 0 .. 1 /\ v \in 0 .. 1 /\ c \in 0 .. 1
   BY BitsOfResult, ParityType, FlagType
<1>2. y = [[[[x EXCEPT !.H = h] EXCEPT !.Z = z, !.N = s] EXCEPT !.V = v] EXCEPT !.C = c]
   BY DEF HNZVC8, xNZVC8, updateC8, updateV8, updateNZ8, updateH
<1> HIDE DEF h, z, s, v, c, y
<1>3. y \in CC BY <1>1, <1>2 DEF CC
<1>4. y.H = h /\ y.Z = z /\ y.N = s /\ y.V = v /\ y.C = c BY <1>2 DEF CC
<1> QED BY <1>3, <1>4 DEF h, z, s, v, c, y

(* ... and its carry by itself *)
LEMMA HNZVC8Carry == ASSUME NEW x \in CC, NEW l \in Int, NEW r \in Int, NEW n \in Int
  PROVE HNZVC8(x, l, r, n).C = Bit(n, 256)
BY HNZVC8Is

(* What xNZVC8 makes of every flag *)
LEMMA NZVC8Is == ASSUME NEW x \in CC, NEW l \in Int, NEW r \in Int, NEW n \in Int
  PROVE /\ xNZVC8(x, l, r, n) \in CC
        /\ xNZVC8(x, l, r, n).Z = Flag(n % 256 = 0)
        /\ xNZVC8(x, l, r, n).N = Bit(n, 128)
        /\ xNZVC8(x, l, r, n).V = Parity(Bit(l, 128) + Bit(r, 128) + Bit(n, 128) + Bit(n, 256))
        /\ xNZVC8(x, l, r, n).C = Bit(n, 256)
<1> DEFINE z == Flag(n % 256 = 0)
           s == Bit(n, 128)
           v == Parity(Bit(l, 128) + Bit(r, 128) + Bit(n, 128) + Bit(n, 256))
           c == Bit(n, 256)
           y == xNZVC8(x, l, r, n)
<1>1. z \in 0 .. 1 /\ s \in 0 .. 1 /\ v \in 0 .. 1 /\ c \in 0 .. 1
   BY BitsOfResult, ParityType, FlagType
<1>2. y = [[[x EXCEPT !.Z = z, !.N = s] EXCEPT !.V = v] EXCEPT !.C = c]
   BY DEF xNZVC8, updateC8, updateV8, updateNZ8
<1> HIDE DEF z, s, v, c, y
<1>3. y \in CC BY <1>1, <1>2 DEF CC
<1>4. y.Z = z /\ y.N = s /\ y.V = v /\ y.C = c BY <1>2 DEF CC
<1> QED BY <1>3, <1>4 DEF z, s, v, c, y

(* What xNZVC16 makes of every flag *)
LEMMA NZVC16Is == ASSUME NEW x \in CC, NEW l \in Int, NEW r \in Int, NEW n \in Int
  PROVE /\ xNZVC16(x, l, r, n) \in CC
        /\ xNZVC16(x, l, r, n).Z = Flag(n % 65536 = 0)
        /\ xNZVC16(x, l, r, n).N = Bit(n, 32768)
        /\ xNZVC16(x, l, r, n).V
             = Parity(Bit(l, 32768) + Bit(r, 32768) + Bit(n, 32768) + Bit(n, 65536))
        /\ xNZVC16(x, l, r, n).C = Bit(n, 65536)
<1> DEFINE z == Flag(n % 65536 = 0)
           s == Bit(n, 32768)
           v == Parity(Bit(l, 32768) + Bit(r, 32768) + Bit(n, 32768) + Bit(n, 65536))
           c == Bit(n, 65536)
           y == xNZVC16(x, l, r, n)
<1>1. z \in 0 .. 1 /\ s \in 0 .. 1 /\ v \in 0 .. 1 /\ c \in 0 .. 1
   BY BitsOfResult, ParityType, FlagType
<1>2. y = [[[x EXCEPT !.Z = z, !.N = s] EXCEPT !.V = v] EXCEPT !.C = c]
   BY DEF xNZVC16, updateC16, updateV16, updateNZ16
<1> HIDE DEF z, s, v, c, y
<1>3. y \in CC BY <1>1, <1>2 DEF CC
<1>4. y.Z = z /\ y.N = s /\ y.V = v /\ y.C = c BY <1>2 DEF CC
<1> QED BY <1>3, <1>4 DEF z, s, v, c, y

(* What xNZ0x8 makes of every flag *)
LEMMA NZ0x8Is == ASSUME NEW x \in CC, NEW n \in Int
  PROVE /\ xNZ0x8(x, n) \in CC
        /\ xNZ0x8(x, n).Z = Flag(n % 256 = 0)
        /\ xNZ0x8(x, n).N = Bit(n, 128)
        /\ xNZ0x8(x, n).C = x.C
<1> DEFINE z == Flag(n % 256 = 0)
           s == Bit(n, 128)
           o == 0
           y == xNZ0x8(x, n)
<1>1. z \in 0 .. 1 /\ s \in 0 .. 1 /\ o \in 0 .. 1
   BY BitsOfResult, ParityType, FlagType
<1>2. y = [[x EXCEPT !.Z = z, !.N = s] EXCEPT !.V = o]
   BY DEF xNZ0x8, updateNZ8
<1> HIDE DEF z, s, o, y
<1>3. y \in CC BY <1>1, <1>2 DEF CC
<1>4. y.Z = z /\ y.N = s /\ y.C = x.C BY <1>2 DEF CC
<1> QED BY <1>3, <1>4 DEF z, s, o, y

(* What xNZ0x16 makes of every flag *)
LEMMA NZ0x16Is == ASSUME NEW x \in CC, NEW n \in Int
  PROVE /\ xNZ0x16(x, n) \in CC
        /\ xNZ0x16(x, n).Z = Flag(n % 65536 = 0)
        /\ xNZ0x16(x, n).N = Bit(n, 32768)
        /\ xNZ0x16(x, n).C = x.C
<1> DEFINE z == Flag(n % 65536 = 0)
           s == Bit(n, 32768)
           o == 0
           y == xNZ0x16(x, n)
<1>1. z \in 0 .. 1 /\ s \in 0 .. 1 /\ o \in 0 .. 1
   BY BitsOfResult, ParityType, FlagType
<1>2. y = [[x EXCEPT !.Z = z, !.N = s] EXCEPT !.V = o]
   BY DEF xNZ0x16, updateNZ16
<1> HIDE DEF z, s, o, y
<1>3. y \in CC BY <1>1, <1>2 DEF CC
<1>4. y.Z = z /\ y.N = s /\ y.C = x.C BY <1>2 DEF CC
<1> QED BY <1>3, <1>4 DEF z, s, o, y

(* What xNZ0C8 makes of every flag *)
LEMMA NZ0C8Is == ASSUME NEW x \in CC, NEW n \in Int
  PROVE /\ xNZ0C8(x, n) \in CC
        /\ xNZ0C8(x, n).Z = Flag(n % 256 = 0)
        /\ xNZ0C8(x, n).N = Bit(n, 128)
        /\ xNZ0C8(x, n).C = Bit(n, 256)
<1> DEFINE z == Flag(n % 256 = 0)
           s == Bit(n, 128)
           o == 0
           c == Bit(n, 256)
           y == xNZ0C8(x, n)
<1>1. z \in 0 .. 1 /\ s \in 0 .. 1 /\ o \in 0 .. 1 /\ c \in 0 .. 1
   BY BitsOfResult, ParityType, FlagType
<1>2. y = [[[x EXCEPT !.Z = z, !.N = s] EXCEPT !.V = o] EXCEPT !.C = c]
   BY DEF xNZ0C8, xNZ0x8, updateC8, updateNZ8
<1> HIDE DEF z, s, o, c, y
<1>3. y \in CC BY <1>1, <1>2 DEF CC
<1>4. y.Z = z /\ y.N = s /\ y.C = c BY <1>2 DEF CC
<1> QED BY <1>3, <1>4 DEF z, s, o, c, y

(* What the flags of an operation of 8 bits, and of 16, say of the numbers: *)
(* u is its result as an unsigned number, v as a signed one.              *)
Flags8(f, u, v) == /\ f \in CC
                   /\ f.Z = Flag(u % 256 = 0)
                   /\ f.N = Flag(u % 256 >= 128)
                   /\ f.V = Flag(Out8(v))
Flags16(f, u, v) == /\ f \in CC
                    /\ f.Z = Flag(u % 65536 = 0)
                    /\ f.N = Flag(u % 65536 >= 32768)
                    /\ f.V = Flag(Out16(v))

(* ADD8 and ADC: the flags are those of the numbers. *)
LEMMA SumIs == ASSUME NEW l \in Byte, NEW r \in Byte, NEW c \in 0 .. 1, NEW x \in CC
  PROVE LET f == HNZVC8(x, l, r, l + r + c)
        IN  /\ l + r + c \in Result
            /\ Flags8(f, l + r + c, Signed8(l) + Signed8(r) + c)
            /\ f.C = Flag(l + r + c \notin Byte)
            /\ f.H = Flag((l % 16) + (r % 16) + c > 15)
<1> DEFINE n == l + r + c
<1>1. l \in Int /\ r \in Int /\ n \in Int /\ n >= 0 /\ n < 512 BY DEF Byte
<1>2. n \in Result BY <1>1, ResultRange
<1>3. Bit(n, 128) = Flag(n % 256 >= 128) BY <1>1 DEF Bit, Flag
<1>4. Bit(n, 256) = Flag(n \notin Byte) BY <1>1, SumBits8 DEF Flag, Byte
<1>5. Parity(Bit(l, 16) + Bit(r, 16) + Bit(n, 16)) = Flag((l % 16) + (r % 16) + c > 15) BY SumH
<1>6. Parity(Bit(l, 128) + Bit(r, 128) + Bit(n, 128) + Bit(n, 256))
       = Flag(Out8(Signed8(l) + Signed8(r) + c))
  BY SumV
<1>7. n = l + r + c OBVIOUS
<1> HIDE DEF n
<1>8. /\ HNZVC8(x, l, r, n) \in CC
      /\ HNZVC8(x, l, r, n).Z = Flag(n % 256 = 0)
      /\ HNZVC8(x, l, r, n).N = Bit(n, 128)
      /\ HNZVC8(x, l, r, n).V = Parity(Bit(l, 128) + Bit(r, 128) + Bit(n, 128) + Bit(n, 256))
      /\ HNZVC8(x, l, r, n).C = Bit(n, 256)
      /\ HNZVC8(x, l, r, n).H = Parity(Bit(l, 16) + Bit(r, 16) + Bit(n, 16))
   BY <1>1, HNZVC8Is
<1> QED BY <1>2, <1>3, <1>4, <1>5, <1>6, <1>7, <1>8 DEF Flags8

(* SUB8 and SBC: the flags are those of the numbers. *)
LEMMA DiffIs == ASSUME NEW l \in Byte, NEW r \in Byte, NEW c \in 0 .. 1, NEW x \in CC
  PROVE LET n == (l - r - c) % ResultModulus
            f == xNZVC8(x, l, r, n)
        IN  /\ n \in Result
            /\ Flags8(f, l - r - c, Signed8(l) - Signed8(r) - c)
            /\ f.C = Flag(l - r - c \notin Byte)
<1> DEFINE d == l - r - c
           n == (l - r - c) % 131072
<1>1. l \in Int /\ r \in Int /\ d \in Int /\ d >= -256 /\ d < 256 BY DEF Byte
<1>2. /\ n = IF d < 0 THEN d + 131072 ELSE d
      /\ Bit(n, 128) = IF (d >= -128 /\ d < 0) \/ d >= 128 THEN 1 ELSE 0
      /\ Bit(n, 256) = IF d < 0 THEN 1 ELSE 0
   BY <1>1, DiffBits8
<1>3. n \in Result BY <1>1, <1>2, ResultRange
<1>4. Parity(Bit(l, 128) + Bit(r, 128) + Bit(n, 128) + Bit(n, 256))
       = Flag(Out8(Signed8(l) - Signed8(r) - c))
   BY DiffV
<1>5. n = d % ResultModulus BY DEF ResultModulus
<1>6. d = l - r - c OBVIOUS
<1> HIDE DEF n, d
<1>7. Bit(n, 128) = Flag(d % 256 >= 128) BY <1>1, <1>2 DEF Flag
<1>8. Bit(n, 256) = Flag(d \notin Byte) BY <1>1, <1>2 DEF Flag, Byte
<1>9. Flag(n % 256 = 0) = Flag(d % 256 = 0) BY <1>1, <1>2 DEF Flag
<1>10. n \in Int BY <1>3, ResultRange
<1> QED BY <1>1, <1>3, <1>4, <1>5, <1>6, <1>7, <1>8, <1>9, <1>10, NZVC8Is DEF Flags8

(* Bit 15 of a word is its sign. *)
LEMMA SignBit16 == ASSUME NEW n \in Word PROVE Bit(n, 32768) = IF n >= 32768 THEN 1 ELSE 0
BY WordRange, SumBits16

(* ADD16: the flags are those of the numbers. *)
LEMMA Sum16Is == ASSUME NEW l \in Word, NEW r \in Word, NEW x \in CC
  PROVE LET f == xNZVC16(x, l, r, l + r)
        IN  /\ l + r \in Result
            /\ Flags16(f, l + r, Signed16(l) + Signed16(r))
            /\ f.C = Flag(l + r \notin Word)
<1> DEFINE n == l + r
<1>1. /\ l \in Int /\ r \in Int /\ n \in Int /\ n >= 0 /\ n < 131072
      /\ l >= 0 /\ l < 65536 /\ r >= 0 /\ r < 65536
   BY WordRange
<1>2. n \in Result BY <1>1, ResultRange
<1>3. n = l + r OBVIOUS
<1> HIDE DEF n
<1>4. /\ Bit(n, 32768) = IF (n >= 32768 /\ n < 65536) \/ n >= 98304 THEN 1 ELSE 0
      /\ Bit(n, 65536) = IF n >= 65536 THEN 1 ELSE 0
   BY <1>1, SumBits16
<1>5. Bit(l, 32768) = (IF l >= 32768 THEN 1 ELSE 0) /\ Bit(r, 32768) = (IF r >= 32768 THEN 1 ELSE 0)
   BY SignBit16
<1>6. Bit(n, 32768) = Flag(n % 65536 >= 32768) BY <1>1, <1>4 DEF Flag
<1>7. Bit(n, 65536) = Flag(n \notin Word) BY <1>1, <1>4, WordRange DEF Flag
<1>8. Parity(Bit(l, 32768) + Bit(r, 32768) + Bit(n, 32768) + Bit(n, 65536)) =
       IF (Bit(l, 32768) = Bit(r, 32768)) <=> (Bit(n, 32768) = Bit(n, 65536)) THEN 0 ELSE 1
   BY <1>4, <1>5, ParityOf
<1>9. Parity(Bit(l, 32768) + Bit(r, 32768) + Bit(n, 32768) + Bit(n, 65536))
       = Flag(Out16(Signed16(l) + Signed16(r)))
   BY <1>1, <1>3, <1>4, <1>5, <1>8 DEF Flag, Out16, Signed16
<1> QED BY <1>1, <1>2, <1>3, <1>6, <1>7, <1>9, NZVC16Is DEF Flags16

(* SUB16 and CMP16: the flags are those of the numbers. *)
LEMMA Diff16Is == ASSUME NEW l \in Word, NEW r \in Word, NEW x \in CC
  PROVE LET n == (l - r) % ResultModulus
            f == xNZVC16(x, l, r, n)
        IN  /\ n \in Result
            /\ Flags16(f, l - r, Signed16(l) - Signed16(r))
            /\ f.C = Flag(l - r \notin Word)
<1> DEFINE d == l - r
           n == (l - r) % 131072
<1>1. /\ l \in Int /\ r \in Int /\ d \in Int /\ d > -65536 /\ d < 65536
      /\ l >= 0 /\ l < 65536 /\ r >= 0 /\ r < 65536
   BY WordRange
<1>2. n = d % ResultModulus BY DEF ResultModulus
<1>3. d = l - r /\ n = d % 131072 OBVIOUS
<1> HIDE DEF n, d
<1>4. n = IF d < 0 THEN d + 131072 ELSE d BY <1>1, <1>3
<1>5. n \in Int /\ n >= 0 /\ n < 131072 BY <1>1, <1>4
<1>6. /\ Bit(n, 32768) = IF (n >= 32768 /\ n < 65536) \/ n >= 98304 THEN 1 ELSE 0
      /\ Bit(n, 65536) = IF n >= 65536 THEN 1 ELSE 0
   BY <1>5, SumBits16
<1>7. Bit(l, 32768) = (IF l >= 32768 THEN 1 ELSE 0) /\ Bit(r, 32768) = (IF r >= 32768 THEN 1 ELSE 0)
   BY SignBit16
<1>8. Bit(n, 32768) = Flag(d % 65536 >= 32768) BY <1>1, <1>4, <1>6 DEF Flag
<1>9. Bit(n, 65536) = Flag(d \notin Word) BY <1>1, <1>4, <1>6, WordRange DEF Flag
<1>10. Flag(n % 65536 = 0) = Flag(d % 65536 = 0) BY <1>1, <1>4 DEF Flag
<1>11. Parity(Bit(l, 32768) + Bit(r, 32768) + Bit(n, 32768) + Bit(n, 65536)) =
       IF (Bit(l, 32768) = Bit(r, 32768)) <=> (Bit(n, 32768) = Bit(n, 65536)) THEN 0 ELSE 1
   BY <1>6, <1>7, ParityOf
<1>12. Parity(Bit(l, 32768) + Bit(r, 32768) + Bit(n, 32768) + Bit(n, 65536))
       = Flag(Out16(Signed16(l) - Signed16(r)))
   BY <1>1, <1>3, <1>4, <1>6, <1>7, <1>11 DEF Flag, Out16, Signed16
<1>13. n \in Result BY <1>5, ResultRange
<1> QED BY <1>1, <1>2, <1>3, <1>5, <1>8, <1>9, <1>10, <1>12, <1>13, NZVC16Is DEF Flags16

(* The operations with one operand.  z, n, v and c are the flags as the     *)
(* record updates of the code set them.                                    *)
LEMMA NegIs == ASSUME NEW l \in Byte, NEW x \in CC
  PROVE /\ NEG(l, x).result \in Result
        /\ Flags8(NEG(l, x).cc, 0 - l, 0 - Signed8(l))
        /\ NEG(l, x).cc.C = Flag(0 - l \notin Byte)
<1> DEFINE d == 0 - l
           n == d % ResultModulus
           z == Flag(n % 256 = 0)
           s == Bit(n, 128)
           c == Bit(n, 256)
           v == Flag(l = 128)
<1>1. l \in Int /\ d \in Int /\ d >= -256 /\ d < 256 BY DEF Byte
<1>2. n = d % 131072 BY DEF ResultModulus
<1>3. NEG(l, x).result = n
      /\ NEG(l, x).cc = [[[x EXCEPT !.Z = z, !.N = s] EXCEPT !.C = c] EXCEPT !.V = v]
  BY DEF NEG, Out, xNZxC8, updateC8, updateNZ8
<1>4. d = 0 - l OBVIOUS
<1> HIDE DEF d, n
<1>5. /\ n = IF d < 0 THEN d + 131072 ELSE d
      /\ s = IF (d >= -128 /\ d < 0) \/ d >= 128 THEN 1 ELSE 0
      /\ c = IF d < 0 THEN 1 ELSE 0
   BY <1>1, <1>2, DiffBits8
<1>6. n \in Result BY <1>1, <1>5, ResultRange
<1>7. z = Flag(d % 256 = 0) BY <1>1, <1>5 DEF Flag
<1>8. s = Flag(d % 256 >= 128) BY <1>1, <1>5 DEF Flag
<1>9. v = Flag(Out8(0 - Signed8(l))) BY <1>1 DEF Flag, Out8, Signed8, Byte
<1>10. c = Flag(d \notin Byte) BY <1>1, <1>5 DEF Flag, Byte
<1>11. z \in 0 .. 1 /\ s \in 0 .. 1 /\ c \in 0 .. 1 /\ v \in 0 .. 1 BY <1>5, FlagType
<1> HIDE DEF z, s, c, v
<1> DEFINE y == NEG(l, x).cc
<1>12. y = [[[x EXCEPT !.Z = z, !.N = s] EXCEPT !.C = c] EXCEPT !.V = v] BY <1>3
<1> HIDE DEF y
<1>13. y \in CC BY <1>11, <1>12 DEF CC
<1>14. y.Z = z /\ y.N = s /\ y.C = c /\ y.V = v BY <1>12 DEF CC
<1> QED BY <1>3, <1>4, <1>6, <1>7, <1>8, <1>9, <1>10, <1>13, <1>14 DEF Flags8, y

(* INC: the flags are those of the numbers, and the carry stays. *)
LEMMA IncIs == ASSUME NEW l \in Byte, NEW x \in CC
  PROVE /\ INC(l, x).result \in Result
        /\ Flags8(INC(l, x).cc, l + 1, Signed8(l) + 1)
        /\ INC(l, x).cc.C = x.C
<1> DEFINE n == l + 1
           z == Flag(n % 256 = 0)
           s == Bit(n, 128)
           v == Flag(l = 127)
<1>1. l \in Int /\ n \in Int /\ n > 0 /\ n <= 256 BY DEF Byte
<1>2. INC(l, x).result = n /\ INC(l, x).cc = [[x EXCEPT !.Z = z, !.N = s] EXCEPT !.V = v]
  BY DEF INC, Out, updateNZ8
<1>3. n = l + 1 OBVIOUS
<1> HIDE DEF n
<1>4. n \in Result BY <1>1, ResultRange
<1>5. s = Flag(n % 256 >= 128) BY <1>1 DEF Flag, Bit
<1>6. v = Flag(Out8(Signed8(l) + 1)) BY <1>1 DEF Flag, Out8, Signed8, Byte
<1>7. z \in 0 .. 1 /\ s \in 0 .. 1 /\ v \in 0 .. 1 BY <1>5, FlagType
<1> DEFINE y == INC(l, x).cc
<1>8. y = [[x EXCEPT !.Z = z, !.N = s] EXCEPT !.V = v] BY <1>2
<1>9. z = Flag(n % 256 = 0) OBVIOUS
<1> HIDE DEF z, s, v, y
<1>10. y \in CC BY <1>7, <1>8 DEF CC
<1>11. y.Z = z /\ y.N = s /\ y.V = v /\ y.C = x.C BY <1>8 DEF CC
<1> QED BY <1>2, <1>3, <1>4, <1>5, <1>6, <1>9, <1>10, <1>11 DEF Flags8, y

(* DEC: the flags are those of the numbers, and the carry stays. *)
LEMMA DecIs == ASSUME NEW l \in Byte, NEW x \in CC
  PROVE /\ DEC(l, x).result \in Result
        /\ Flags8(DEC(l, x).cc, l - 1, Signed8(l) - 1)
        /\ DEC(l, x).cc.C = x.C
<1> DEFINE d == l - 1
           n == d % ResultModulus
           z == Flag(n % 256 = 0)
           s == Bit(n, 128)
           v == Flag(l = 128)
<1>1. l \in Int /\ d \in Int /\ d >= -256 /\ d < 256 BY DEF Byte
<1>2. n = d % 131072 BY DEF ResultModulus
<1>3. DEC(l, x).result = n /\ DEC(l, x).cc = [[x EXCEPT !.Z = z, !.N = s] EXCEPT !.V = v]
  BY DEF DEC, Out, updateNZ8
<1>4. d = l - 1 OBVIOUS
<1> HIDE DEF d, n
<1>5. /\ n = IF d < 0 THEN d + 131072 ELSE d
      /\ s = IF (d >= -128 /\ d < 0) \/ d >= 128 THEN 1 ELSE 0
   BY <1>1, <1>2, DiffBits8
<1>6. n \in Result BY <1>1, <1>5, ResultRange
<1>7. z = Flag(d % 256 = 0) BY <1>1, <1>5 DEF Flag
<1>8. s = Flag(d % 256 >= 128) BY <1>1, <1>5 DEF Flag
<1>9. v = Flag(Out8(Signed8(l) - 1)) BY <1>1 DEF Flag, Out8, Signed8, Byte
<1>10. z \in 0 .. 1 /\ s \in 0 .. 1 /\ v \in 0 .. 1 BY <1>5, FlagType
<1> DEFINE y == DEC(l, x).cc
<1>11. y = [[x EXCEPT !.Z = z, !.N = s] EXCEPT !.V = v] BY <1>3
<1> HIDE DEF z, s, v, y
<1>12. y \in CC BY <1>10, <1>11 DEF CC
<1>13. y.Z = z /\ y.N = s /\ y.V = v /\ y.C = x.C BY <1>11 DEF CC
<1> QED BY <1>3, <1>4, <1>6, <1>7, <1>8, <1>9, <1>12, <1>13 DEF Flags8, y

LeftFlags(x, l, b) == [updateNZ8(x, 2 * l + b) EXCEPT !.V = Parity(Bit(l, 64) + Bit(l, 128)),
                                                      !.C = Bit(l, 128)]

(* ASL and ROL: the flags are those of the doubled number. *)
LEMMA RolIs == ASSUME NEW l \in Byte, NEW x \in CC, NEW b \in 0 .. 1
  PROVE /\ 2 * l + b \in Result
        /\ Flags8(LeftFlags(x, l, b), 2 * l + b, 2 * Signed8(l) + b)
        /\ LeftFlags(x, l, b).C = Flag(2 * l + b \notin Byte)
<1> DEFINE n == 2 * l + b
           y == LeftFlags(x, l, b)
           z == Flag(n % 256 = 0)
           s == Bit(n, 128)
           v == Parity(Bit(l, 64) + Bit(l, 128))
           c == Bit(l, 128)
<1>1. l \in Int /\ l >= 0 /\ l < 256 /\ n \in Int /\ n >= 0 /\ n < 512 BY DEF Byte
<1>2. y = [[x EXCEPT !.Z = z, !.N = s] EXCEPT !.V = v, !.C = c] BY DEF LeftFlags, updateNZ8
<1>3. n = 2 * l + b OBVIOUS
<1> HIDE DEF n
<1>4. n \in Result BY <1>1, ResultRange
<1>5. s = Flag(n % 256 >= 128) BY <1>1, SumBits8 DEF Flag
<1>6. c = Flag(n \notin Byte) BY <1>1, <1>3, SignBit DEF Flag, Byte
<1>7. v = Flag(Out8(2 * Signed8(l) + b))
  <2>1. Bit(l, 64) = IF (l >= 64 /\ l < 128) \/ l >= 192 THEN 1 ELSE 0 BY <1>1 DEF Bit
  <2>2. v = IF Bit(l, 64) = Bit(l, 128) THEN 0 ELSE 1 BY <2>1, SignBit DEF Parity
  <2> QED BY <1>1, <2>1, <2>2, SignBit DEF Flag, Out8, Signed8
<1>8. z \in 0 .. 1 /\ s \in 0 .. 1 /\ v \in 0 .. 1 /\ c \in 0 .. 1 BY <1>5, <1>6, <1>7, FlagType
<1>9. z = Flag(n % 256 = 0) OBVIOUS
<1> HIDE DEF z, s, v, c, y
<1>10. y \in CC BY <1>2, <1>8 DEF CC
<1>11. y.Z = z /\ y.N = s /\ y.V = v /\ y.C = c BY <1>2 DEF CC
<1> QED BY <1>3, <1>4, <1>5, <1>6, <1>7, <1>9, <1>10, <1>11 DEF Flags8, y

(* The operations whose flags no property reads beyond the carry *)
LEMMA ByteIsBits == ASSUME NEW n \in Byte
  PROVE n = Bit(n, 1) + 2 * Bit(n, 2) + 4 * Bit(n, 4) + 8 * Bit(n, 8) + 16 * Bit(n, 16)
            + 32 * Bit(n, 32) + 64 * Bit(n, 64) + 128 * Bit(n, 128)
<1>1. n \in Int /\ n >= 0 /\ n < 256 BY DEF Byte
<1>2. /\ n = 2 * (n \div 2) + Bit(n, 1)
      /\ n \div 2 = 2 * (n \div 4) + Bit(n, 2)
      /\ n \div 4 = 2 * (n \div 8) + Bit(n, 4)
      /\ n \div 8 = 2 * (n \div 16) + Bit(n, 8)
  BY <1>1 DEF Bit
<1>3. /\ n \div 16 = 2 * (n \div 32) + Bit(n, 16)
      /\ n \div 32 = 2 * (n \div 64) + Bit(n, 32)
      /\ n \div 64 = 2 * (n \div 128) + Bit(n, 64)
      /\ n \div 128 = Bit(n, 128)
  BY <1>1 DEF Bit
<1> DEFINE b1 == Bit(n, 1)
           b2 == Bit(n, 2)
           b4 == Bit(n, 4)
           b8 == Bit(n, 8)
           b16 == Bit(n, 16)
           b32 == Bit(n, 32)
           b64 == Bit(n, 64)
           b128 == Bit(n, 128)
           q2 == n \div 2
           q4 == n \div 4
           q8 == n \div 8
           q16 == n \div 16
           q32 == n \div 32
           q64 == n \div 64
<1>4. /\ b1 \in Int /\ b2 \in Int /\ b4 \in Int /\ b8 \in Int
      /\ b16 \in Int /\ b32 \in Int /\ b64 \in Int /\ b128 \in Int
  BY <1>1 DEF Bit
<1>5. q2 \in Int /\ q4 \in Int /\ q8 \in Int /\ q16 \in Int /\ q32 \in Int /\ q64 \in Int
  BY <1>1
<1>6. n = 2 * q2 + b1 /\ q2 = 2 * q4 + b2 /\ q4 = 2 * q8 + b4 /\ q8 = 2 * q16 + b8
  BY <1>2
<1>7. q16 = 2 * q32 + b16 /\ q32 = 2 * q64 + b32 /\ q64 = 2 * b128 + b64
  BY <1>3
<1> HIDE DEF b1, b2, b4, b8, b16, b32, b64, b128, q2, q4, q8, q16, q32, q64
<1>8. n = b1 + 2 * b2 + 4 * b4 + 8 * b8 + 16 * b16 + 32 * b32 + 64 * b64 + 128 * b128
  BY <1>1, <1>4, <1>5, <1>6, <1>7
<1> QED BY <1>8 DEF b1, b2, b4, b8, b16, b32, b64, b128

(* The bitwise operations of bytes give bytes. *)
LEMMA BitwiseType == ASSUME NEW l \in Byte, NEW r \in Byte
  PROVE BitAnd(l, r) \in Result /\ BitOr(l, r) \in Result /\ BitXor(l, r) \in Result
<1> DEFINE Both(w) == w * Bit(l, w) * Bit(r, w)
<1>1. \A w \in {1, 2, 4, 8, 16, 32, 64, 128} :
        Both(w) \in Int /\ 0 <= Both(w) /\ Both(w) <= w * Bit(l, w) /\ Both(w) <= w * Bit(r, w)
  <2> TAKE w \in {1, 2, 4, 8, 16, 32, 64, 128}
  <2>1. (Bit(l, w) = 0 \/ Bit(l, w) = 1) /\ (Bit(r, w) = 0 \/ Bit(r, w) = 1)
    BY DEF Bit, Byte
  <2> QED BY <2>1
<1>2. BitAnd(l, r) = Both(1) + Both(2) + Both(4) + Both(8) + Both(16) + Both(32) + Both(64)
                     + Both(128)
  BY DEF BitAnd
<1>3. l \in Int /\ l >= 0 /\ l < 256 /\ r \in Int /\ r >= 0 /\ r < 256 BY DEF Byte
<1>4. \A w \in {1, 2, 4, 8, 16, 32, 64, 128} : Bit(l, w) \in Int /\ Bit(r, w) \in Int
  BY DEF Bit, Byte
<1> HIDE DEF Both
<1>5. BitAnd(l, r) \in Int /\ 0 <= BitAnd(l, r) /\ BitAnd(l, r) <= l
  BY <1>1, <1>2, <1>3, <1>4, ByteIsBits
<1>6. BitAnd(l, r) <= r
  BY <1>1, <1>2, <1>3, <1>4, ByteIsBits
<1>7. BitAnd(l, r) \in Result BY <1>3, <1>5, ResultRange
<1>8. BitOr(l, r) \in Result BY <1>3, <1>5, <1>6, ResultRange DEF BitOr
<1>9. BitXor(l, r) \in Result BY <1>3, <1>5, <1>6, ResultRange DEF BitXor
<1> QED BY <1>7, <1>8, <1>9

(* Loads, stores and TST keep the carry. *)
LEMMA MoveIs == ASSUME NEW n \in Int, NEW x \in CC
  PROVE /\ xNZ0x8(x, n) \in CC /\ xNZ0x8(x, n).C = x.C
        /\ xNZ0x16(x, n) \in CC /\ xNZ0x16(x, n).C = x.C
BY NZ0x8Is, NZ0x16Is

RightFlags(x, l, b) == [updateNZ8(x, l \div 2 + 128 * b) EXCEPT !.C = Bit(l, 1)]
LsrFlags(x, l, b) == [x0Zxx8(x, l \div 2 + 128 * b) EXCEPT !.C = Bit(l, 1)]

(* LSR, ASR and ROR: the bit shifted out is the carry. *)
LEMMA RightIs == ASSUME NEW l \in Byte, NEW b \in 0 .. 1, NEW x \in CC
  PROVE /\ l \div 2 + 128 * b \in Result
        /\ l \div 2 + 128 * b \in Byte
        /\ RightFlags(x, l, b) \in CC /\ LsrFlags(x, l, b) \in CC
        /\ 2 * (l \div 2 + 128 * b) + RightFlags(x, l, b).C = 256 * b + l
        /\ 2 * (l \div 2 + 128 * b) + LsrFlags(x, l, b).C = 256 * b + l
<1> DEFINE n == l \div 2 + 128 * b
           z == Flag(n % 256 = 0)
           s == Bit(n, 128)
           c == Bit(l, 1)
           o == 0
           y == RightFlags(x, l, b)
           u == LsrFlags(x, l, b)
<1>1. l \in Int /\ l >= 0 /\ l < 256 BY DEF Byte
<1>2. n \in Int /\ n >= 0 /\ n < 256 BY <1>1
<1>3. n \in Result /\ n \in Byte BY <1>2, ResultRange DEF Byte
<1>4. 2 * n + c = 256 * b + l BY <1>1 DEF Bit
<1>5. /\ y = [[x EXCEPT !.Z = z, !.N = s] EXCEPT !.C = c]
      /\ u = [[[x EXCEPT !.Z = z, !.N = s] EXCEPT !.N = o] EXCEPT !.C = c]
  BY DEF updateNZ8, x0Zxx8, RightFlags, LsrFlags
<1>6. z \in 0 .. 1 /\ s \in 0 .. 1 /\ c \in 0 .. 1 /\ o \in 0 .. 1
  BY <1>1, <1>2, FlagType, BitsOfResult
<1>7. n = l \div 2 + 128 * b OBVIOUS
<1> HIDE DEF n, z, s, c, o, y, u
<1>8. y \in CC /\ u \in CC
  <2>1. [[x EXCEPT !.Z = z, !.N = s] EXCEPT !.C = c] \in CC BY <1>6 DEF CC
  <2>2. [[[x EXCEPT !.Z = z, !.N = s] EXCEPT !.N = o] EXCEPT !.C = c] \in CC BY <1>6 DEF CC
  <2> QED BY <1>5, <2>1, <2>2
<1>9. y.C = c /\ u.C = c BY <1>5 DEF CC
<1> QED BY <1>3, <1>4, <1>7, <1>8, <1>9 DEF y, u

(* COM leaves flags and a result of the latch's width. *)
LEMMA ComIs == ASSUME NEW l \in Byte, NEW x \in CC
  PROVE COM(l, x).result \in Result /\ COM(l, x).cc \in CC
<1> DEFINE n == (0 - l - 1) % ResultModulus
           z == Flag(n % 256 = 0)
           s == Bit(n, 128)
           o == 0
           i == 1
<1>1. n \in Int /\ n >= 0 /\ n < 131072 BY DEF Byte, ResultModulus
<1>2. n \in Result BY <1>1, ResultRange
<1>3. COM(l, x).result = n /\ COM(l, x).cc = [[x EXCEPT !.Z = z, !.N = s] EXCEPT !.V = o, !.C = i]
  BY DEF COM, Out, xNZ018, updateNZ8
<1>4. z \in 0 .. 1 /\ s \in 0 .. 1 /\ o \in 0 .. 1 /\ i \in 0 .. 1 BY <1>1, FlagType, BitsOfResult
<1> HIDE DEF n, z, s, o, i
<1>5. [[x EXCEPT !.Z = z, !.N = s] EXCEPT !.V = o, !.C = i] \in CC BY <1>4 DEF CC
<1> QED BY <1>2, <1>3, <1>5

(* CLR leaves flags and a result of the latch's width. *)
LEMMA ClrIs == ASSUME NEW x \in CC PROVE CLR(x).result \in Result /\ CLR(x).cc \in CC
<1> DEFINE o == 0
           i == 1
<1>1. 0 \in Result BY ResultRange
<1>2. CLR(x).result = 0 /\ CLR(x).cc = [x EXCEPT !.N = o, !.Z = i, !.V = o, !.C = o]
  BY DEF CLR, Out
<1>3. o \in 0 .. 1 /\ i \in 0 .. 1 OBVIOUS
<1> HIDE DEF o, i
<1>4. [x EXCEPT !.N = o, !.Z = i, !.V = o, !.C = o] \in CC BY <1>3 DEF CC
<1> QED BY <1>1, <1>2, <1>4

(* MUL leaves flags. *)
LEMMA MulIs == ASSUME NEW l \in Byte, NEW r \in Byte, NEW x \in CC PROVE MUL(l, r, x).cc \in CC
<1> DEFINE z == Flag(l * r = 0)
           c == Bit(l * r, 128)
<1>1. l * r \in Int BY DEF Byte
<1>2. MUL(l, r, x).cc = [x EXCEPT !.Z = z, !.C = c] BY DEF MUL, Out
<1>3. z \in 0 .. 1 /\ c \in 0 .. 1 BY <1>1, FlagType, BitsOfResult
<1> HIDE DEF z, c
<1>4. [x EXCEPT !.Z = z, !.C = c] \in CC BY <1>3 DEF CC
<1> QED BY <1>2, <1>4

(* DAA leaves flags and a result of the latch's width. *)
LEMMA DaaIs == ASSUME NEW a \in Byte, NEW x \in CC
  PROVE /\ DAA(a, x).result \in Result /\ DAA(a, x).cc \in CC
        /\ DAA(a, x).result = a + (IF x.H = 1 \/ a % 16 > 9 THEN 6 ELSE 0)
                                + (IF x.C = 1 \/ a \div 16 > 9 \/ (a \div 16 > 8 /\ a % 16 > 9)
                                   THEN 96 ELSE 0)
        /\ DAA(a, x).cc.C = Bit(DAA(a, x).result, 256)
<1> DEFINE n == a + (IF x.H = 1 \/ a % 16 > 9 THEN 6 ELSE 0)
                  + (IF x.C = 1 \/ a \div 16 > 9 \/ (a \div 16 > 8 /\ a % 16 > 9) THEN 96 ELSE 0)
<1>1. n \in Int /\ n >= 0 /\ n < 512 BY DEF Byte
<1>2. DAA(a, x).result = n /\ DAA(a, x).cc = xNZ0C8(x, n) BY DEF DAA, Out
<1>3. n \in Result BY <1>1, ResultRange
<1> HIDE DEF n
<1>4. xNZ0C8(x, n) \in CC /\ xNZ0C8(x, n).C = Bit(n, 256) BY <1>1, NZ0C8Is
<1> QED BY <1>2, <1>3, <1>4 DEF n

-----------------------------------------------------------------------------
(* The inductive invariant.  FlagsAreArithmetic and DecimalSum rest on one *)
(* fact more: the latch holds the sum of an addition.                      *)
SumInLatch == /\ last.op = "ADD8" => result = last.l + last.r
              /\ last.op = "ADC" => result = last.l + last.r + last.c
ArInv == ArTypeOK /\ FlagsAreArithmetic /\ SumInLatch

LastType == [op : ByteOps \cup WordOps \cup OtherOps, l : Word, r : Word, c : 0 .. 1]
LongType == [kind : {"none", "sum", "difference", "left", "right"},
             l : Nat, r : Nat, value : Nat, weight : Nat \ {0}]

(* What the provers need to know of a byte *)
LEMMA ByteFacts == ASSUME NEW l \in Byte PROVE l \in Word /\ l \in Int /\ l >= 0 /\ l < 256
<1>1. l \in Int /\ l >= 0 /\ l < 256 BY DEF Byte
<1> QED BY <1>1, WordRange

(* Operands of 8 bits are bytes. *)
LEMMA OperandType == ASSUME NEW l \in Bytes PROVE l \in Byte
BY ArithmeticAssumption

(* Operands of 16 bits are words. *)
LEMMA WordOperand == ASSUME NEW l \in Words PROVE l \in Word
BY ArithmeticAssumption

(* The second operand of an operation on one is a byte. *)
LEMMA ZeroByte == 0 \in Byte
BY DEF Byte

(* The parts of the type invariant a step uses *)
LEMMA TypeParts ==
  ArTypeOK => cc \in CC /\ cc.C \in 0 .. 1 /\ result \in Result /\ long \in LongType
BY DEF ArTypeOK, CC, LongType

(* A number begun or continued has the type of one. *)
LEMMA LongTypes == ASSUME long \in LongType, NEW kind \in {"sum", "difference", "left", "right"},
                          NEW l \in Byte, NEW r \in Byte, NEW n \in Int
  PROVE /\ NoLong \in LongType
        /\ Begins(kind, l, r, n) => long' \in LongType
        /\ GoesOn(kind, l, r, n) => long' \in LongType
        /\ GoesDown(l, n) => long' \in LongType
<1>1. l \in Nat /\ r \in Nat /\ n % 256 \in Nat BY DEF Byte
<1>2. /\ long.l \in Nat /\ long.r \in Nat /\ long.value \in Nat
      /\ long.weight \in Nat /\ long.weight # 0
  BY DEF LongType
<1>3. NoLong \in LongType BY DEF NoLong, LongType
<1>4. Begins(kind, l, r, n) => long' \in LongType
  BY <1>1, <1>3 DEF Begins, LongType
<1>5. \A a \in Nat : a * long.weight \in Nat BY <1>2
<1>6. 256 * long.weight \in Nat \ {0} BY <1>2
<1>7. /\ long.l + l * long.weight \in Nat
      /\ long.r + r * long.weight \in Nat
      /\ long.value + (n % 256) * long.weight \in Nat
  BY <1>1, <1>2, <1>5
<1>8. GoesOn(kind, l, r, n) => long' \in LongType
  BY <1>3, <1>6, <1>7 DEF GoesOn, LongType
<1>9. 256 * long.l + l \in Nat /\ 256 * long.value + (n % 256) \in Nat BY <1>1, <1>2
<1>10. GoesDown(l, n) => long' \in LongType
  BY <1>3, <1>6, <1>9 DEF GoesDown, LongType
<1> QED BY <1>3, <1>4, <1>8, <1>10

(* A step of an operation on bytes, on words and without numbers *)
LEMMA ByteStep ==
  ASSUME ArTypeOK, NEW op \in ByteOps, NEW l \in Byte, NEW r \in Byte, NEW out,
         Do(op, l, r, out), out.result \in Result,
         Flags8(out.cc, Exact(op, l, r, cc.C), Exact(op, Signed8(l), Signed8(r), cc.C)),
         IF op \in {"INC", "DEC"} THEN out.cc.C = cc.C
         ELSE out.cc.C = Flag(Exact(op, l, r, cc.C) \notin Byte),
         op = "ADD8" => out.cc.H = Flag((l % 16) + (r % 16) > 15) /\ out.result = l + r,
         op = "ADC" => /\ out.cc.H = Flag((l % 16) + (r % 16) + cc.C > 15)
                       /\ out.result = l + r + cc.C,
         long' \in LongType
  PROVE ArInv'
<1>1. cc' = out.cc /\ result' = out.result /\ last' = [op |-> op, l |-> l, r |-> r, c |-> cc.C]
  BY DEF Do
<1>2. last'.op = op /\ last'.l = l /\ last'.r = r /\ last'.c = cc.C BY <1>1
<1>3. op \notin WordOps /\ op \notin OtherOps BY DEF ByteOps, WordOps, OtherOps
<1>4. l \in Word /\ r \in Word /\ cc.C \in 0 .. 1 BY ByteFacts, TypeParts
<1>5. last' \in LastType BY <1>1, <1>4 DEF LastType
<1>6. ArTypeOK'
  BY <1>1, <1>2, <1>5 DEF ArTypeOK, LastType, LongType, Flags8
<1>7. FlagsAreArithmetic'
  BY <1>1, <1>2, <1>3 DEF FlagsAreArithmetic, Flags8
<1>8. SumInLatch' BY <1>1, <1>2 DEF SumInLatch
<1> QED BY <1>6, <1>7, <1>8 DEF ArInv

(* An operation on words keeps ArInv if its flags are right. *)
LEMMA WordStep ==
  ASSUME ArTypeOK, NEW op \in WordOps, NEW l \in Word, NEW r \in Word, NEW out,
         Do(op, l, r, out), out.result \in Result,
         Flags16(out.cc, Exact(op, l, r, 0), Exact(op, Signed16(l), Signed16(r), 0)),
         out.cc.C = Flag(Exact(op, l, r, 0) \notin Word),
         long' \in LongType
  PROVE ArInv'
<1>1. cc' = out.cc /\ result' = out.result /\ last' = [op |-> op, l |-> l, r |-> r, c |-> cc.C]
  BY DEF Do
<1>2. last'.op = op /\ last'.l = l /\ last'.r = r BY <1>1
<1>3. op \notin ByteOps /\ op # "ADD8" /\ op # "ADC" /\ op # "DAA" BY DEF ByteOps, WordOps
<1>4. cc.C \in 0 .. 1 BY TypeParts
<1>5. last' \in LastType BY <1>1, <1>4 DEF LastType
<1>6. ArTypeOK'
  BY <1>1, <1>2, <1>3, <1>5 DEF ArTypeOK, LastType, LongType, Flags16
<1>7. FlagsAreArithmetic'
  BY <1>1, <1>2, <1>3 DEF FlagsAreArithmetic, Flags16
<1>8. SumInLatch' BY <1>2, <1>3 DEF SumInLatch
<1> QED BY <1>6, <1>7, <1>8 DEF ArInv

(* An operation nothing is said of keeps ArInv if it keeps the types. *)
LEMMA PlainStep ==
  ASSUME cc' \in CC, result' \in Result, last' \in LastType, last'.op \in OtherOps,
         last'.op = "DAA" => last'.l \in Byte /\ last'.r \in Byte,
         long' \in LongType
  PROVE ArInv'
<1>1. last'.op \notin ByteOps /\ last'.op \notin WordOps /\ last'.op # "ADD8" /\ last'.op # "ADC"
  BY DEF ByteOps, WordOps, OtherOps
<1>2. ArTypeOK' BY <1>1 DEF ArTypeOK, LastType, LongType
<1>3. FlagsAreArithmetic' BY <1>1 DEF FlagsAreArithmetic
<1>4. SumInLatch' BY <1>1 DEF SumInLatch
<1> QED BY <1>2, <1>3, <1>4 DEF ArInv

(* The same of one that leaves the number of several bytes alone. *)
LEMMA OtherStep ==
  ASSUME NEW out, Other(out), out.cc \in CC, out.result \in Result, long' \in LongType
  PROVE ArInv'
<1>1. cc' = out.cc /\ result' = out.result
      /\ last' = [op |-> "other", l |-> 0, r |-> 0, c |-> 0]
  BY DEF Other
<1>2. 0 \in Word BY ZeroByte, ByteFacts
<1>3. last' \in LastType /\ last'.op = "other" BY <1>1, <1>2 DEF LastType, OtherOps
<1>4. last'.op \in OtherOps BY <1>3 DEF OtherOps
<1> QED BY <1>1, <1>3, <1>4, PlainStep

(* ADD8 keeps ArInv. *)
LEMMA Add8Step == ArTypeOK /\ Add8 => ArInv'
<1> SUFFICES ASSUME ArTypeOK, Add8 PROVE ArInv'
  OBVIOUS
<1>1. PICK l \in Bytes, r \in Bytes :
         Do("ADD8", l, r, ADD8(l, r, cc)) /\ Begins("sum", l, r, ADD8(l, r, cc).result)
  BY DEF Add8
<1>2. cc \in CC /\ cc.C \in 0 .. 1 /\ long \in LongType BY TypeParts
<1>3. l \in Byte /\ r \in Byte /\ l \in Int /\ r \in Int BY OperandType, ByteFacts
<1>4. /\ ADD8(l, r, cc).result = l + r + 0
      /\ ADD8(l, r, cc).cc = HNZVC8(cc, l, r, l + r + 0)
  BY <1>2, <1>3 DEF ADD8, Out
<1>5. l + r + 0 = l + r /\ Signed8(l) + Signed8(r) + 0 = Signed8(l) + Signed8(r)
  BY <1>2, <1>3 DEF Signed8
<1>6. (l % 16) + (r % 16) + 0 = (l % 16) + (r % 16)
  BY <1>2, <1>3
<1>7. LET f == HNZVC8(cc, l, r, l + r + 0)
      IN  /\ l + r + 0 \in Result
          /\ Flags8(f, l + r + 0, Signed8(l) + Signed8(r) + 0)
          /\ f.C = Flag(l + r + 0 \notin Byte)
          /\ f.H = Flag((l % 16) + (r % 16) + 0 > 15)
  BY <1>2, <1>3, SumIs
<1>8. /\ Exact("ADD8", l, r, cc.C) = l + r
      /\ Exact("ADD8", Signed8(l), Signed8(r), cc.C) = Signed8(l) + Signed8(r)
  BY DEF Exact
<1>9. ADD8(l, r, cc).result \in Int BY <1>4, <1>7, ResultRange
<1>10. long' \in LongType BY <1>1, <1>2, <1>3, <1>9, LongTypes
<1>11. "ADD8" \in ByteOps /\ "ADD8" \notin {"INC", "DEC"} BY DEF ByteOps
<1> DEFINE out == ADD8(l, r, cc)
<1>12. /\ out.result \in Result /\ out.result = l + r
       /\ Flags8(out.cc, Exact("ADD8", l, r, cc.C), Exact("ADD8", Signed8(l), Signed8(r), cc.C))
       /\ out.cc.C = Flag(Exact("ADD8", l, r, cc.C) \notin Byte)
       /\ out.cc.H = Flag((l % 16) + (r % 16) > 15)
  BY <1>4, <1>5, <1>6, <1>7, <1>8
<1> HIDE DEF out
<1> QED BY <1>1, <1>3, <1>10, <1>11, <1>12, ByteStep DEF out

(* ADC keeps ArInv. *)
LEMMA AdcStep == ArTypeOK /\ Adc => ArInv'
<1> SUFFICES ASSUME ArTypeOK, Adc PROVE ArInv'
  OBVIOUS
<1>1. PICK l \in Bytes, r \in Bytes :
         Do("ADC", l, r, ADC(l, r, cc)) /\ GoesOn("sum", l, r, ADC(l, r, cc).result)
  BY DEF Adc
<1>2. cc \in CC /\ cc.C \in 0 .. 1 /\ long \in LongType BY TypeParts
<1>3. l \in Byte /\ r \in Byte /\ l \in Int /\ r \in Int BY OperandType, ByteFacts
<1>4. /\ ADC(l, r, cc).result = l + r + cc.C
      /\ ADC(l, r, cc).cc = HNZVC8(cc, l, r, l + r + cc.C)
  BY <1>2, <1>3 DEF ADC, Out
<1>5. l + r + cc.C = l + r + cc.C /\ Signed8(l) + Signed8(r) + cc.C = Signed8(l) + Signed8(r) + cc.C
  BY <1>2, <1>3 DEF Signed8
<1>6. (l % 16) + (r % 16) + cc.C = (l % 16) + (r % 16) + cc.C
  BY <1>2, <1>3
<1>7. LET f == HNZVC8(cc, l, r, l + r + cc.C)
      IN  /\ l + r + cc.C \in Result
          /\ Flags8(f, l + r + cc.C, Signed8(l) + Signed8(r) + cc.C)
          /\ f.C = Flag(l + r + cc.C \notin Byte)
          /\ f.H = Flag((l % 16) + (r % 16) + cc.C > 15)
  BY <1>2, <1>3, SumIs
<1>8. /\ Exact("ADC", l, r, cc.C) = l + r + cc.C
      /\ Exact("ADC", Signed8(l), Signed8(r), cc.C) = Signed8(l) + Signed8(r) + cc.C
  BY DEF Exact
<1>9. ADC(l, r, cc).result \in Int BY <1>4, <1>7, ResultRange
<1>10. long' \in LongType BY <1>1, <1>2, <1>3, <1>9, LongTypes
<1>11. "ADC" \in ByteOps /\ "ADC" \notin {"INC", "DEC"} BY DEF ByteOps
<1> DEFINE out == ADC(l, r, cc)
<1>12. /\ out.result \in Result /\ out.result = l + r + cc.C
       /\ Flags8(out.cc, Exact("ADC", l, r, cc.C), Exact("ADC", Signed8(l), Signed8(r), cc.C))
       /\ out.cc.C = Flag(Exact("ADC", l, r, cc.C) \notin Byte)
       /\ out.cc.H = Flag((l % 16) + (r % 16) + cc.C > 15)
  BY <1>4, <1>5, <1>6, <1>7, <1>8
<1> HIDE DEF out
<1> QED BY <1>1, <1>3, <1>10, <1>11, <1>12, ByteStep DEF out

(* SUB8 keeps ArInv. *)
LEMMA Sub8Step == ArTypeOK /\ Sub8 => ArInv'
<1> SUFFICES ASSUME ArTypeOK, Sub8 PROVE ArInv'
  OBVIOUS
<1>1. PICK l \in Bytes, r \in Bytes :
         Do("SUB8", l, r, SUB8(l, r, cc)) /\ Begins("difference", l, r, SUB8(l, r, cc).result)
  BY DEF Sub8
<1>2. cc \in CC /\ cc.C \in 0 .. 1 /\ long \in LongType BY TypeParts
<1>3. l \in Byte /\ r \in Byte /\ l \in Int /\ r \in Int BY OperandType, ByteFacts
<1>4. /\ SUB8(l, r, cc).result = (l - r - 0) % ResultModulus
      /\ SUB8(l, r, cc).cc = xNZVC8(cc, l, r, (l - r - 0) % ResultModulus)
  BY <1>2, <1>3 DEF SUB8, Out
<1>5. l - r - 0 = l - r /\ Signed8(l) - Signed8(r) - 0 = Signed8(l) - Signed8(r)
  BY <1>2, <1>3 DEF Signed8
<1>7. LET n == (l - r - 0) % ResultModulus
          f == xNZVC8(cc, l, r, n)
      IN  /\ n \in Result
          /\ Flags8(f, l - r - 0, Signed8(l) - Signed8(r) - 0)
          /\ f.C = Flag(l - r - 0 \notin Byte)
  BY <1>2, <1>3, DiffIs
<1>8. /\ Exact("SUB8", l, r, cc.C) = l - r
      /\ Exact("SUB8", Signed8(l), Signed8(r), cc.C) = Signed8(l) - Signed8(r)
  BY DEF Exact
<1>9. SUB8(l, r, cc).result \in Int BY <1>4, <1>7, ResultRange
<1>10. long' \in LongType BY <1>1, <1>2, <1>3, <1>9, LongTypes
<1>11. "SUB8" \in ByteOps /\ "SUB8" \notin {"INC", "DEC", "ADD8", "ADC"} BY DEF ByteOps
<1> DEFINE out == SUB8(l, r, cc)
<1>12. /\ out.result \in Result
       /\ Flags8(out.cc, Exact("SUB8", l, r, cc.C), Exact("SUB8", Signed8(l), Signed8(r), cc.C))
       /\ out.cc.C = Flag(Exact("SUB8", l, r, cc.C) \notin Byte)
  BY <1>4, <1>5, <1>7, <1>8
<1> HIDE DEF out
<1> QED BY <1>1, <1>3, <1>10, <1>11, <1>12, ByteStep DEF out

(* SBC keeps ArInv. *)
LEMMA SbcStep == ArTypeOK /\ Sbc => ArInv'
<1> SUFFICES ASSUME ArTypeOK, Sbc PROVE ArInv'
  OBVIOUS
<1>1. PICK l \in Bytes, r \in Bytes :
         Do("SBC", l, r, SBC(l, r, cc)) /\ GoesOn("difference", l, r, SBC(l, r, cc).result)
  BY DEF Sbc
<1>2. cc \in CC /\ cc.C \in 0 .. 1 /\ long \in LongType BY TypeParts
<1>3. l \in Byte /\ r \in Byte /\ l \in Int /\ r \in Int BY OperandType, ByteFacts
<1>4. /\ SBC(l, r, cc).result = (l - r - cc.C) % ResultModulus
      /\ SBC(l, r, cc).cc = xNZVC8(cc, l, r, (l - r - cc.C) % ResultModulus)
  BY <1>2, <1>3 DEF SBC, Out
<1>5. l - r - cc.C = l - r - cc.C /\ Signed8(l) - Signed8(r) - cc.C = Signed8(l) - Signed8(r) - cc.C
  BY <1>2, <1>3 DEF Signed8
<1>7. LET n == (l - r - cc.C) % ResultModulus
          f == xNZVC8(cc, l, r, n)
      IN  /\ n \in Result
          /\ Flags8(f, l - r - cc.C, Signed8(l) - Signed8(r) - cc.C)
          /\ f.C = Flag(l - r - cc.C \notin Byte)
  BY <1>2, <1>3, DiffIs
<1>8. /\ Exact("SBC", l, r, cc.C) = l - r - cc.C
      /\ Exact("SBC", Signed8(l), Signed8(r), cc.C) = Signed8(l) - Signed8(r) - cc.C
  BY DEF Exact
<1>9. SBC(l, r, cc).result \in Int BY <1>4, <1>7, ResultRange
<1>10. long' \in LongType BY <1>1, <1>2, <1>3, <1>9, LongTypes
<1>11. "SBC" \in ByteOps /\ "SBC" \notin {"INC", "DEC", "ADD8", "ADC"} BY DEF ByteOps
<1> DEFINE out == SBC(l, r, cc)
<1>12. /\ out.result \in Result
       /\ Flags8(out.cc, Exact("SBC", l, r, cc.C), Exact("SBC", Signed8(l), Signed8(r), cc.C))
       /\ out.cc.C = Flag(Exact("SBC", l, r, cc.C) \notin Byte)
  BY <1>4, <1>5, <1>7, <1>8
<1> HIDE DEF out
<1> QED BY <1>1, <1>3, <1>10, <1>11, <1>12, ByteStep DEF out

(* ADD16 keeps ArInv. *)
LEMMA Add16Step == ArTypeOK /\ Add16 => ArInv'
<1> SUFFICES ASSUME ArTypeOK, Add16 PROVE ArInv'
  OBVIOUS
<1>1. PICK l \in Words, r \in Words : Do("ADD16", l, r, ADD16(l, r, cc)) /\ long' = NoLong
  BY DEF Add16
<1>2. cc \in CC /\ long \in LongType BY TypeParts
<1>3. l \in Word /\ r \in Word BY WordOperand
<1>4. /\ ADD16(l, r, cc).result = l + r
      /\ ADD16(l, r, cc).cc = xNZVC16(cc, l, r, l + r)
  BY DEF ADD16, Out
<1>5. /\ l + r \in Result
      /\ Flags16(xNZVC16(cc, l, r, l + r), l + r, Signed16(l) + Signed16(r))
      /\ xNZVC16(cc, l, r, l + r).C = Flag(l + r \notin Word)
  BY <1>2, <1>3, Sum16Is
<1>6. /\ Exact("ADD16", l, r, 0) = l + r
      /\ Exact("ADD16", Signed16(l), Signed16(r), 0) = Signed16(l) + Signed16(r)
  BY DEF Exact
<1>7. long' \in LongType BY <1>1 DEF NoLong, LongType
<1>8. "ADD16" \in WordOps BY DEF WordOps
<1> DEFINE out == ADD16(l, r, cc)
<1>9. /\ out.result \in Result
      /\ Flags16(out.cc, Exact("ADD16", l, r, 0), Exact("ADD16", Signed16(l), Signed16(r), 0))
      /\ out.cc.C = Flag(Exact("ADD16", l, r, 0) \notin Word)
  BY <1>4, <1>5, <1>6
<1> HIDE DEF out
<1> QED BY <1>1, <1>3, <1>7, <1>8, <1>9, WordStep DEF out

(* SUB16 keeps ArInv. *)
LEMMA Sub16Step == ArTypeOK /\ Sub16 => ArInv'
<1> SUFFICES ASSUME ArTypeOK, Sub16 PROVE ArInv'
  OBVIOUS
<1>1. PICK l \in Words, r \in Words : Do("SUB16", l, r, SUB16(l, r, cc)) /\ long' = NoLong
  BY DEF Sub16
<1>2. cc \in CC /\ long \in LongType BY TypeParts
<1>3. l \in Word /\ r \in Word BY WordOperand
<1>4. /\ SUB16(l, r, cc).result = (l - r) % ResultModulus
      /\ SUB16(l, r, cc).cc = xNZVC16(cc, l, r, (l - r) % ResultModulus)
  BY DEF SUB16, Out
<1>5. /\ (l - r) % ResultModulus \in Result
      /\ Flags16(xNZVC16(cc, l, r, (l - r) % ResultModulus), l - r, Signed16(l) - Signed16(r))
      /\ xNZVC16(cc, l, r, (l - r) % ResultModulus).C = Flag(l - r \notin Word)
  BY <1>2, <1>3, Diff16Is
<1>6. /\ Exact("SUB16", l, r, 0) = l - r
      /\ Exact("SUB16", Signed16(l), Signed16(r), 0) = Signed16(l) - Signed16(r)
  BY DEF Exact
<1>7. long' \in LongType BY <1>1 DEF NoLong, LongType
<1>8. "SUB16" \in WordOps BY DEF WordOps
<1> DEFINE out == SUB16(l, r, cc)
<1>9. /\ out.result \in Result
      /\ Flags16(out.cc, Exact("SUB16", l, r, 0), Exact("SUB16", Signed16(l), Signed16(r), 0))
      /\ out.cc.C = Flag(Exact("SUB16", l, r, 0) \notin Word)
  BY <1>4, <1>5, <1>6
<1> HIDE DEF out
<1> QED BY <1>1, <1>3, <1>7, <1>8, <1>9, WordStep DEF out

(* NEG keeps ArInv. *)
LEMMA NegStep == ArTypeOK /\ Neg => ArInv'
<1> SUFFICES ASSUME ArTypeOK, Neg PROVE ArInv'
  OBVIOUS
<1>1. PICK l \in Bytes : Do("NEG", l, 0, NEG(l, cc)) /\ long' = NoLong
  BY DEF Neg
<1>2. cc \in CC /\ cc.C \in 0 .. 1 /\ long \in LongType BY TypeParts
<1>3. l \in Byte /\ 0 \in Byte /\ l \in Int BY OperandType, ZeroByte, ByteFacts
<1>4. /\ NEG(l, cc).result \in Result
      /\ Flags8(NEG(l, cc).cc, 0 - l, 0 - Signed8(l))
      /\ NEG(l, cc).cc.C = Flag(0 - l \notin Byte)
  BY <1>2, <1>3, NegIs
<1>5. /\ Exact("NEG", l, 0, cc.C) = 0 - l
      /\ Exact("NEG", Signed8(l), Signed8(0), cc.C) = 0 - Signed8(l)
  BY DEF Exact
<1>6. NEG(l, cc).result \in Int BY <1>4, ResultRange
<1>7. long' \in LongType BY <1>1 DEF NoLong, LongType
<1>8. "NEG" \in ByteOps /\ "NEG" \notin {"ADD8", "ADC"} BY DEF ByteOps
<1> DEFINE out == NEG(l, cc)
<1>9. /\ out.result \in Result
      /\ Flags8(out.cc, Exact("NEG", l, 0, cc.C), Exact("NEG", Signed8(l), Signed8(0), cc.C))
      /\ out.cc.C = Flag(Exact("NEG", l, 0, cc.C) \notin Byte) /\ "NEG" \notin {"INC", "DEC"}
  BY <1>4, <1>5
<1> HIDE DEF out
<1> QED BY <1>1, <1>3, <1>7, <1>8, <1>9, ByteStep DEF out

(* ASL keeps ArInv. *)
LEMMA AslStep == ArTypeOK /\ Asl => ArInv'
<1> SUFFICES ASSUME ArTypeOK, Asl PROVE ArInv'
  OBVIOUS
<1>1. PICK l \in Bytes : Do("ASL", l, 0, ASL(l, cc)) /\ Begins("left", l, 0, ASL(l, cc).result)
  BY DEF Asl
<1>2. cc \in CC /\ cc.C \in 0 .. 1 /\ long \in LongType BY TypeParts
<1>3. l \in Byte /\ 0 \in Byte /\ l \in Int BY OperandType, ZeroByte, ByteFacts
<1>4. /\ ASL(l, cc).result \in Result
      /\ Flags8(ASL(l, cc).cc, 2 * l, 2 * Signed8(l))
      /\ ASL(l, cc).cc.C = Flag(2 * l \notin Byte)
  <2>1. 2 * l + 0 = 2 * l /\ 2 * Signed8(l) + 0 = 2 * Signed8(l) BY <1>3 DEF Signed8
  <2>2. /\ ASL(l, cc).result = 2 * l
        /\ ASL(l, cc).cc = LeftFlags(cc, l, 0)
    BY <2>1 DEF ASL, Out, LeftFlags
  <2>3. /\ 2 * l + 0 \in Result
        /\ Flags8(LeftFlags(cc, l, 0), 2 * l + 0, 2 * Signed8(l) + 0)
        /\ LeftFlags(cc, l, 0).C = Flag(2 * l + 0 \notin Byte)
    BY <1>2, <1>3, RolIs
  <2> QED BY <2>1, <2>2, <2>3
<1>5. /\ Exact("ASL", l, 0, cc.C) = 2 * l
      /\ Exact("ASL", Signed8(l), Signed8(0), cc.C) = 2 * Signed8(l)
  BY DEF Exact
<1>6. ASL(l, cc).result \in Int BY <1>4, ResultRange
<1>7. long' \in LongType BY <1>1, <1>2, <1>3, <1>6, LongTypes
<1>8. "ASL" \in ByteOps /\ "ASL" \notin {"ADD8", "ADC"} BY DEF ByteOps
<1> DEFINE out == ASL(l, cc)
<1>9. /\ out.result \in Result
      /\ Flags8(out.cc, Exact("ASL", l, 0, cc.C), Exact("ASL", Signed8(l), Signed8(0), cc.C))
      /\ out.cc.C = Flag(Exact("ASL", l, 0, cc.C) \notin Byte) /\ "ASL" \notin {"INC", "DEC"}
  BY <1>4, <1>5
<1> HIDE DEF out
<1> QED BY <1>1, <1>3, <1>7, <1>8, <1>9, ByteStep DEF out

(* ROL keeps ArInv. *)
LEMMA RolStep == ArTypeOK /\ Rol => ArInv'
<1> SUFFICES ASSUME ArTypeOK, Rol PROVE ArInv'
  OBVIOUS
<1>1. PICK l \in Bytes : Do("ROL", l, 0, ROL(l, cc)) /\ GoesOn("left", l, 0, ROL(l, cc).result)
  BY DEF Rol
<1>2. cc \in CC /\ cc.C \in 0 .. 1 /\ long \in LongType BY TypeParts
<1>3. l \in Byte /\ 0 \in Byte /\ l \in Int BY OperandType, ZeroByte, ByteFacts
<1>4. /\ ROL(l, cc).result \in Result
      /\ Flags8(ROL(l, cc).cc, 2 * l + cc.C, 2 * Signed8(l) + cc.C)
      /\ ROL(l, cc).cc.C = Flag(2 * l + cc.C \notin Byte)
  <2>1. /\ ROL(l, cc).result = 2 * l + cc.C
        /\ ROL(l, cc).cc = LeftFlags(cc, l, cc.C)
    BY DEF ROL, Out, LeftFlags
  <2>2. /\ 2 * l + cc.C \in Result
        /\ Flags8(LeftFlags(cc, l, cc.C), 2 * l + cc.C, 2 * Signed8(l) + cc.C)
        /\ LeftFlags(cc, l, cc.C).C = Flag(2 * l + cc.C \notin Byte)
    BY <1>2, <1>3, RolIs
  <2> QED BY <2>1, <2>2
<1>5. /\ Exact("ROL", l, 0, cc.C) = 2 * l + cc.C
      /\ Exact("ROL", Signed8(l), Signed8(0), cc.C) = 2 * Signed8(l) + cc.C
  BY DEF Exact
<1>6. ROL(l, cc).result \in Int BY <1>4, ResultRange
<1>7. long' \in LongType BY <1>1, <1>2, <1>3, <1>6, LongTypes
<1>8. "ROL" \in ByteOps /\ "ROL" \notin {"ADD8", "ADC"} BY DEF ByteOps
<1> DEFINE out == ROL(l, cc)
<1>9. /\ out.result \in Result
      /\ Flags8(out.cc, Exact("ROL", l, 0, cc.C), Exact("ROL", Signed8(l), Signed8(0), cc.C))
      /\ out.cc.C = Flag(Exact("ROL", l, 0, cc.C) \notin Byte) /\ "ROL" \notin {"INC", "DEC"}
  BY <1>4, <1>5
<1> HIDE DEF out
<1> QED BY <1>1, <1>3, <1>7, <1>8, <1>9, ByteStep DEF out

(* An INC or DEC keeps ArInv. *)
LEMMA CountStep == ArTypeOK /\ Count => ArInv'
<1> SUFFICES ASSUME ArTypeOK, NEW l \in Bytes, UNCHANGED long,
                    Do("INC", l, 0, INC(l, cc)) \/ Do("DEC", l, 0, DEC(l, cc))
             PROVE  ArInv'
  BY DEF Count
<1>1. cc \in CC /\ long' \in LongType BY TypeParts
<1>2. l \in Byte /\ 0 \in Byte BY OperandType, ZeroByte
<1>3. CASE Do("INC", l, 0, INC(l, cc))
  <2>1. /\ Exact("INC", l, 0, cc.C) = l + 1
        /\ Exact("INC", Signed8(l), Signed8(0), cc.C) = Signed8(l) + 1
    BY DEF Exact
  <2>2. "INC" \in ByteOps /\ "INC" \notin {"ADD8", "ADC"} /\ "INC" \in {"INC", "DEC"} BY DEF ByteOps
  <2> DEFINE out == INC(l, cc)
  <2>3. /\ out.result \in Result
        /\ Flags8(out.cc, Exact("INC", l, 0, cc.C), Exact("INC", Signed8(l), Signed8(0), cc.C))
        /\ out.cc.C = cc.C
    BY <1>1, <1>2, <2>1, IncIs
  <2> HIDE DEF out
  <2> QED BY <1>1, <1>2, <1>3, <2>2, <2>3, ByteStep DEF out
<1>4. CASE Do("DEC", l, 0, DEC(l, cc))
  <2>1. /\ Exact("DEC", l, 0, cc.C) = l - 1
        /\ Exact("DEC", Signed8(l), Signed8(0), cc.C) = Signed8(l) - 1
    BY DEF Exact
  <2>2. "DEC" \in ByteOps /\ "DEC" \notin {"ADD8", "ADC"} /\ "DEC" \in {"INC", "DEC"} BY DEF ByteOps
  <2> DEFINE out == DEC(l, cc)
  <2>3. /\ out.result \in Result
        /\ Flags8(out.cc, Exact("DEC", l, 0, cc.C), Exact("DEC", Signed8(l), Signed8(0), cc.C))
        /\ out.cc.C = cc.C
    BY <1>1, <1>2, <2>1, DecIs
  <2> HIDE DEF out
  <2> QED BY <1>1, <1>2, <1>4, <2>2, <2>3, ByteStep DEF out
<1> QED BY <1>3, <1>4

(* LSR keeps ArInv. *)
LEMMA LsrStep == ArTypeOK /\ Lsr => ArInv'
<1> SUFFICES ASSUME ArTypeOK, Lsr PROVE ArInv'
  OBVIOUS
<1>1. PICK l \in Bytes : Other(LSR(l, cc)) /\ Begins("right", l, 0, LSR(l, cc).result)
  BY DEF Lsr
<1>2. cc \in CC /\ cc.C \in 0 .. 1 /\ long \in LongType BY TypeParts
<1>3. l \in Byte /\ 0 \in Byte /\ l \in Int /\ 0 \in 0 .. 1
  BY <1>2, OperandType, ZeroByte, ByteFacts, BitsOfResult
<1>4. /\ LSR(l, cc).result = l \div 2 + 128 * 0
      /\ LSR(l, cc).cc = LsrFlags(cc, l, 0)
  <2>1. l \div 2 + 128 * 0 = l \div 2 BY <1>3
  <2> QED BY <2>1 DEF LSR, Out, LsrFlags
<1>5. LSR(l, cc).cc \in CC /\ LSR(l, cc).result \in Result BY <1>2, <1>3, <1>4, RightIs
<1>6. LSR(l, cc).result \in Int BY <1>5, ResultRange
<1>7. long' \in LongType BY <1>1, <1>2, <1>3, <1>6, LongTypes
<1> QED BY <1>1, <1>5, <1>7, OtherStep

(* ASR keeps ArInv. *)
LEMMA AsrStep == ArTypeOK /\ Asr => ArInv'
<1> SUFFICES ASSUME ArTypeOK, Asr PROVE ArInv'
  OBVIOUS
<1>1. PICK l \in Bytes : Other(ASR(l, cc)) /\ long' = NoLong
  BY DEF Asr
<1>2. cc \in CC /\ cc.C \in 0 .. 1 /\ long \in LongType BY TypeParts
<1>3. l \in Byte /\ 0 \in Byte /\ l \in Int /\ Bit(l, 128) \in 0 .. 1
  BY <1>2, OperandType, ZeroByte, ByteFacts, BitsOfResult
<1>4. /\ ASR(l, cc).result = l \div 2 + 128 * Bit(l, 128)
      /\ ASR(l, cc).cc = RightFlags(cc, l, Bit(l, 128))
  BY DEF ASR, Out, RightFlags
<1>5. ASR(l, cc).cc \in CC /\ ASR(l, cc).result \in Result BY <1>2, <1>3, <1>4, RightIs
<1>6. ASR(l, cc).result \in Int BY <1>5, ResultRange
<1>7. long' \in LongType BY <1>1 DEF NoLong, LongType
<1> QED BY <1>1, <1>5, <1>7, OtherStep

(* ROR keeps ArInv. *)
LEMMA RorStep == ArTypeOK /\ Ror => ArInv'
<1> SUFFICES ASSUME ArTypeOK, Ror PROVE ArInv'
  OBVIOUS
<1>1. PICK l \in Bytes : Other(ROR(l, cc)) /\ GoesDown(l, ROR(l, cc).result)
  BY DEF Ror
<1>2. cc \in CC /\ cc.C \in 0 .. 1 /\ long \in LongType BY TypeParts
<1>3. l \in Byte /\ 0 \in Byte /\ l \in Int /\ cc.C \in 0 .. 1
  BY <1>2, OperandType, ZeroByte, ByteFacts, BitsOfResult
<1>4. /\ ROR(l, cc).result = l \div 2 + 128 * cc.C
      /\ ROR(l, cc).cc = RightFlags(cc, l, cc.C)
  BY DEF ROR, Out, RightFlags
<1>5. ROR(l, cc).cc \in CC /\ ROR(l, cc).result \in Result BY <1>2, <1>3, <1>4, RightIs
<1>6. ROR(l, cc).result \in Int BY <1>5, ResultRange
<1>7. long' \in LongType BY <1>1, <1>2, <1>3, <1>6, LongTypes
<1> QED BY <1>1, <1>5, <1>7, OtherStep

(* COM, CLR and MUL keep ArInv. *)
LEMMA PlainSteps == ArTypeOK /\ (Com \/ Clr \/ Mul) => ArInv'
<1> SUFFICES ASSUME ArTypeOK, Com \/ Clr \/ Mul PROVE ArInv'
  OBVIOUS
<1>1. cc \in CC /\ result \in Result BY TypeParts
<1>2. NoLong \in LongType BY DEF NoLong, LongType
<1>3. CASE Com BY <1>1, <1>2, <1>3, OperandType, ComIs, OtherStep DEF Com
<1>4. CASE Clr BY <1>1, <1>2, <1>4, ClrIs, OtherStep DEF Clr
<1>5. CASE Mul
  <2>1. PICK l \in Bytes, r \in Bytes :
           Other([MUL(l, r, cc) EXCEPT !.result = result]) /\ long' = NoLong
    BY <1>5 DEF Mul
  <2>2. MUL(l, r, cc).cc \in CC BY <1>1, OperandType, MulIs
  <2>3. /\ [MUL(l, r, cc) EXCEPT !.result = result].cc = MUL(l, r, cc).cc
        /\ [MUL(l, r, cc) EXCEPT !.result = result].result = result
    BY DEF MUL, Out
  <2> QED BY <1>1, <1>2, <2>1, <2>2, <2>3, OtherStep
<1> QED BY <1>3, <1>4, <1>5

(* AND, OR, EOR or BIT keeps ArInv. *)
LEMMA LogicStep == ArTypeOK /\ Logic => ArInv'
<1> SUFFICES ASSUME ArTypeOK, NEW l \in Bytes, NEW r \in Bytes, UNCHANGED long,
                    \/ Do("BIT", l, r, BIT(l, r, cc))
                    \/ Other(AND(l, r, cc)) \/ Other(OR(l, r, cc)) \/ Other(EOR(l, r, cc))
             PROVE  ArInv'
  BY DEF Logic
<1>1. cc \in CC /\ cc.C \in 0 .. 1 /\ long' \in LongType BY TypeParts
<1>2. l \in Byte /\ r \in Byte /\ l \in Word /\ r \in Word BY OperandType, ByteFacts
<1>3. \A n \in Result : n \in Int BY ResultRange
<1>4. BitAnd(l, r) \in Result /\ BitOr(l, r) \in Result /\ BitXor(l, r) \in Result
  BY <1>2, BitwiseType
<1>5. /\ AND(l, r, cc).cc \in CC /\ AND(l, r, cc).result \in Result
      /\ OR(l, r, cc).cc \in CC /\ OR(l, r, cc).result \in Result
      /\ EOR(l, r, cc).cc \in CC /\ EOR(l, r, cc).result \in Result
      /\ BIT(l, r, cc).cc \in CC /\ BIT(l, r, cc).result \in Result
  BY <1>1, <1>3, <1>4, MoveIs DEF AND, OR, EOR, BIT, Out
<1>6. CASE Do("BIT", l, r, BIT(l, r, cc))
  <2>1. /\ cc' = BIT(l, r, cc).cc /\ result' = BIT(l, r, cc).result
        /\ last' = [op |-> "BIT", l |-> l, r |-> r, c |-> cc.C]
    BY <1>6 DEF Do
  <2>2. last' \in LastType /\ last'.op = "BIT" /\ last'.op \in OtherOps
    BY <1>1, <1>2, <2>1 DEF LastType, OtherOps
  <2> QED BY <1>1, <1>5, <2>1, <2>2, PlainStep
<1>7. CASE Other(AND(l, r, cc)) \/ Other(OR(l, r, cc)) \/ Other(EOR(l, r, cc))
  BY <1>1, <1>5, <1>7, OtherStep
<1> QED BY <1>6, <1>7

(* A load, store or test of a byte keeps ArInv. *)
LEMMA Move8Step == ArTypeOK /\ Move8 => ArInv'
<1> SUFFICES ASSUME ArTypeOK, NEW n \in Bytes, UNCHANGED long,
                    \/ Do("ST8", n, 0, ST8(result, cc))
                    \/ Other(LD8(n, cc)) \/ Other(TST(n, cc))
             PROVE  ArInv'
  BY DEF Move8
<1>1. cc \in CC /\ cc.C \in 0 .. 1 /\ result \in Result /\ long' \in LongType BY TypeParts
<1>2. n \in Word /\ n \in Int /\ n >= 0 /\ n < 256 /\ 0 \in Word
  BY OperandType, ByteFacts, ZeroByte
<1>3. result \in Int /\ n \in Result BY <1>1, <1>2, ResultRange
<1>4. /\ LD8(n, cc).cc \in CC /\ LD8(n, cc).result \in Result
      /\ TST(n, cc).cc \in CC /\ TST(n, cc).result \in Result
      /\ ST8(result, cc).cc \in CC /\ ST8(result, cc).result \in Result
  BY <1>1, <1>2, <1>3, MoveIs DEF LD8, TST, ST8, Out
<1>5. CASE Do("ST8", n, 0, ST8(result, cc))
  <2>1. /\ cc' = ST8(result, cc).cc /\ result' = ST8(result, cc).result
        /\ last' = [op |-> "ST8", l |-> n, r |-> 0, c |-> cc.C]
    BY <1>5 DEF Do
  <2>2. last' \in LastType /\ last'.op = "ST8" /\ last'.op \in OtherOps
    BY <1>1, <1>2, <2>1 DEF LastType, OtherOps
  <2> QED BY <1>1, <1>4, <2>1, <2>2, PlainStep
<1>6. CASE Other(LD8(n, cc)) \/ Other(TST(n, cc)) BY <1>1, <1>4, <1>6, OtherStep
<1> QED BY <1>5, <1>6

(* A load or store of a word keeps ArInv. *)
LEMMA Move16Step == ArTypeOK /\ Move16 => ArInv'
<1> SUFFICES ASSUME ArTypeOK, NEW n \in Words, UNCHANGED long,
                    Other(LD16(n, cc)) \/ Other(ST16(result, cc))
             PROVE  ArInv'
  BY DEF Move16
<1>1. cc \in CC /\ result \in Result /\ long' \in LongType BY TypeParts
<1>2. n \in Int /\ n >= 0 /\ n < 65536 BY WordOperand, WordRange
<1>3. result \in Int /\ n \in Result BY <1>1, <1>2, ResultRange
<1>4. /\ LD16(n, cc).cc \in CC /\ LD16(n, cc).result \in Result
      /\ ST16(result, cc).cc \in CC /\ ST16(result, cc).result \in Result
  BY <1>1, <1>2, <1>3, MoveIs DEF LD16, ST16, Out
<1> QED BY <1>1, <1>4, OtherStep

(* DAA keeps ArInv. *)
LEMMA DaaStep == ArTypeOK /\ Daa => ArInv'
<1> SUFFICES ASSUME ArTypeOK, Daa PROVE ArInv'
  OBVIOUS
<1>0. PICK a \in Bytes \cup {result % 256} :
        /\ result' = DAA(a, cc).result
        /\ cc' = DAA(a, cc).cc
        /\ last' = IF last.op \in {"ADD8", "ADC"} /\ a = result % 256
                   THEN [last EXCEPT !.op = "DAA", !.c = IF last.op = "ADC" THEN @ ELSE 0]
                   ELSE [op |-> "other", l |-> 0, r |-> 0, c |-> 0]
        /\ long' = NoLong
  BY DEF Daa
<1>1. cc \in CC /\ result \in Result BY TypeParts
<1>2. result \in Int BY <1>1, ResultRange
<1>3. a \in Byte BY <1>2, OperandType, BitsOfResult
<1>4. cc' \in CC /\ result' \in Result BY <1>0, <1>1, <1>3, DaaIs
<1>5. long' \in LongType BY <1>0 DEF NoLong, LongType
<1>6. last \in LastType /\ (last.op \in ByteOps => last.l \in Byte /\ last.r \in Byte)
  BY DEF ArTypeOK, LastType
<1>7. last' \in LastType /\ last'.op \in OtherOps
      /\ (last'.op = "DAA" => last'.l \in Byte /\ last'.r \in Byte)
  <2>1. CASE last.op \in {"ADD8", "ADC"} /\ a = result % 256
    <3>1. last.op \in ByteOps BY <2>1 DEF ByteOps
    <3> DEFINE c == IF last.op = "ADC" THEN last.c ELSE 0
    <3>2. last' = [last EXCEPT !.op = "DAA", !.c = c] BY <1>0, <2>1
    <3>3. c \in 0 .. 1 /\ "DAA" \in ByteOps \cup WordOps \cup OtherOps
      BY <1>6 DEF LastType, OtherOps
    <3> HIDE DEF c
    <3>4. last' \in LastType /\ last'.op = "DAA" /\ last'.l = last.l /\ last'.r = last.r
      BY <1>6, <3>2, <3>3 DEF LastType
    <3> QED BY <1>6, <3>1, <3>4 DEF OtherOps
  <2>2. CASE ~(last.op \in {"ADD8", "ADC"} /\ a = result % 256)
    <3>1. 0 \in Word BY ZeroByte, ByteFacts
    <3>2. last' = [op |-> "other", l |-> 0, r |-> 0, c |-> 0] BY <1>0, <2>2
    <3>3. last' \in LastType BY <3>1, <3>2 DEF LastType, OtherOps
    <3> QED BY <3>2, <3>3 DEF OtherOps
  <2> QED BY <2>1, <2>2
<1> QED BY <1>4, <1>5, <1>7, PlainStep

-----------------------------------------------------------------------------
(* ArInv holds initially. *)
LEMMA ArInitial == Init => ArInv
<1> SUFFICES ASSUME Init PROVE ArInv
  OBVIOUS
<1>1. cc = CcOf(0) /\ result = 0 /\ long = NoLong
      /\ last = [op |-> "other", l |-> 0, r |-> 0, c |-> 0]
  BY DEF Init
<1>2. CcOf(0) \in CC
  <2>1. \A w \in {1, 2, 4, 8, 16, 32, 64, 128} : Bit(0, w) \in 0 .. 1 BY DEF Bit
  <2> QED BY <2>1 DEF CcOf, CC
<1>3. 0 \in Result /\ 0 \in Word BY ResultRange, ZeroByte, ByteFacts
<1>4. last \in LastType /\ last.op = "other" BY <1>1, <1>3 DEF LastType, OtherOps
<1>5. long \in LongType BY <1>1 DEF NoLong, LongType
<1>6. "other" \notin ByteOps /\ "other" \notin WordOps BY DEF ByteOps, WordOps
<1>7. ArTypeOK BY <1>1, <1>2, <1>3, <1>4, <1>5, <1>6 DEF ArTypeOK, LastType, LongType
<1> QED BY <1>4, <1>6, <1>7 DEF ArInv, FlagsAreArithmetic, SumInLatch

(* Every step keeps ArInv. *)
LEMMA ArInductive == ArInv /\ [Next]_vars => ArInv'
<1> SUFFICES ASSUME ArInv, [Next]_vars PROVE ArInv'
  OBVIOUS
<1>1. ArTypeOK BY DEF ArInv
<1>2. CASE UNCHANGED vars
  BY <1>2 DEF vars, ArInv, ArTypeOK, FlagsAreArithmetic, SumInLatch
<1>3. CASE Next
  BY <1>1, <1>3, Add8Step, AdcStep, Sub8Step, SbcStep, Add16Step, Sub16Step, AslStep, RolStep,
     LsrStep, AsrStep, RorStep, NegStep, PlainSteps, CountStep, LogicStep, Move8Step,
     Move16Step, DaaStep DEF Next
<1> QED BY <1>2, <1>3

(* ArInv is an invariant of every program. *)
LEMMA ArInvariant == Spec => []ArInv
BY ArInitial, ArInductive, PTL DEF Spec

(* Type correctness: every result of every operation on any operands lies *)
(* in the latch and every flag is a bit.                                   *)
THEOREM ArithmeticTypeCorrect == Spec => []ArTypeOK
<1>1. ArInv => ArTypeOK BY DEF ArInv
<1> QED BY <1>1, ArInvariant, PTL

(* Zero, sign, overflow, carry and half carry are those of the numbers,   *)
(* for every operation, all operands and any flags before.                 *)
THEOREM FlagsAreRight == Spec => []FlagsAreArithmetic
<1>1. ArInv => FlagsAreArithmetic BY DEF ArInv
<1> QED BY <1>1, ArInvariant, PTL

(* After a comparison of any two numbers the branches follow their order. *)
THEOREM BranchesFollowOrder == Spec => []BranchesCompare
<1>1. ArInv => BranchesCompare
  <2> SUFFICES ASSUME ArInv PROVE BranchesCompare
    OBVIOUS
  <2>1. FlagsAreArithmetic /\ ArTypeOK BY DEF ArInv
  <2>2. ASSUME last.op = "SUB8"
        PROVE  Compares(last.l, last.r, Signed8(last.l), Signed8(last.r))
    <3> DEFINE l == last.l
               r == last.r
               d == l - r
    <3>1. l \in Byte /\ r \in Byte BY <2>1, <2>2 DEF ArTypeOK, ByteOps
    <3>2. l \in Int /\ l >= 0 /\ l < 256 /\ r \in Int /\ r >= 0 /\ r < 256 BY <3>1, ByteFacts
    <3>3. /\ cc.Z = Flag(d % 256 = 0)
          /\ cc.N = Flag(d % 256 >= 128)
          /\ cc.V = Flag(Out8(Signed8(l) - Signed8(r)))
          /\ cc.C = Flag(d \notin Byte)
      BY <2>1, <2>2 DEF FlagsAreArithmetic, ByteOps, Exact
    <3> HIDE DEF l, r
    <3>4. d \in Int /\ d % 256 = IF d < 0 THEN d + 256 ELSE d BY <3>2
    <3>5. cc.Z = Flag(l = r) BY <3>2, <3>3, <3>4 DEF Flag
    <3>6. cc.C = Flag(l < r) BY <3>2, <3>3 DEF Flag, Byte
    <3>7. cc.N # cc.V <=> Signed8(l) < Signed8(r)
      BY <3>2, <3>3, <3>4 DEF Flag, Out8, Signed8
    <3>8. l = r <=> Signed8(l) = Signed8(r) BY <3>2 DEF Signed8
    <3>9. Signed8(l) \in Int /\ Signed8(r) \in Int BY <3>2 DEF Signed8
    <3>10. Compares(l, r, Signed8(l), Signed8(r))
      BY <3>2, <3>5, <3>6, <3>7, <3>8, <3>9
         DEF Compares, BEQ, BNE, BHI, BHS, BLO, BLS, BGT, BGE, BLT, BLE, NxorV, Flag
    <3> QED BY <3>10 DEF l, r
  <2>3. ASSUME last.op = "SUB16"
        PROVE  Compares(last.l, last.r, Signed16(last.l), Signed16(last.r))
    <3> DEFINE l == last.l
               r == last.r
               d == l - r
    <3>1. l \in Word /\ r \in Word BY <2>1 DEF ArTypeOK
    <3>2. l \in Int /\ l >= 0 /\ l < 65536 /\ r \in Int /\ r >= 0 /\ r < 65536 BY <3>1, WordRange
    <3>3. /\ cc.Z = Flag(d % 65536 = 0)
          /\ cc.N = Flag(d % 65536 >= 32768)
          /\ cc.V = Flag(Out16(Signed16(l) - Signed16(r)))
          /\ cc.C = Flag(d \notin Word)
      BY <2>1, <2>3 DEF FlagsAreArithmetic, WordOps, Exact
    <3> HIDE DEF l, r
    <3>4. d \in Int /\ d % 65536 = IF d < 0 THEN d + 65536 ELSE d BY <3>2
    <3>5. cc.Z = Flag(l = r) BY <3>2, <3>3, <3>4 DEF Flag
    <3>6. d \in Word <=> d >= 0 BY <3>2, <3>4, WordRange
    <3>7. cc.C = Flag(l < r) BY <3>2, <3>3, <3>6 DEF Flag
    <3>8. cc.N # cc.V <=> Signed16(l) < Signed16(r)
      BY <3>2, <3>3, <3>4 DEF Flag, Out16, Signed16
    <3>9. l = r <=> Signed16(l) = Signed16(r) BY <3>2 DEF Signed16
    <3>10. Signed16(l) \in Int /\ Signed16(r) \in Int BY <3>2 DEF Signed16
    <3>11. Compares(l, r, Signed16(l), Signed16(r))
      BY <3>2, <3>5, <3>7, <3>8, <3>9, <3>10
         DEF Compares, BEQ, BNE, BHI, BHS, BLO, BLS, BGT, BGE, BLT, BLE, NxorV, Flag
    <3> QED BY <3>11 DEF l, r
  <2> QED BY <2>2, <2>3 DEF BranchesCompare
<1> QED BY <1>1, ArInvariant, PTL

-----------------------------------------------------------------------------
(* Numbers of several bytes.  One byte: what an operation leaves in the    *)
(* carry and in the low byte of the latch.                                 *)
LEMMA SumByte == ASSUME NEW l \in Byte, NEW r \in Byte, NEW b \in 0 .. 1, NEW x \in CC
  PROVE LET n == l + r + b
        IN n \in Int /\ (n % 256) + 256 * HNZVC8(x, l, r, n).C = n
<1> DEFINE n == l + r + b
<1>1. HNZVC8(x, l, r, n).C = Flag(n \notin Byte) BY SumIs
<1>2. n \in Int /\ n >= 0 /\ n < 512 BY DEF Byte
<1> HIDE DEF n
<1>3. (n % 256) + 256 * Flag(n \notin Byte) = n BY <1>2 DEF Flag, Byte
<1> QED BY <1>1, <1>2, <1>3 DEF n

(* A byte of a difference with its borrow is the exact difference. *)
LEMMA DiffByte == ASSUME NEW l \in Byte, NEW r \in Byte, NEW b \in 0 .. 1, NEW x \in CC
  PROVE LET n == (l - r - b) % ResultModulus
        IN n \in Int /\ (n % 256) - 256 * xNZVC8(x, l, r, n).C = l - r - b
<1> DEFINE d == l - r - b
           n == d % ResultModulus
<1>1. xNZVC8(x, l, r, n).C = Flag(d \notin Byte) BY DiffIs
<1>2. d \in Int /\ d >= -256 /\ d < 256 BY DEF Byte
<1>3. n = IF d < 0 THEN d + 131072 ELSE d BY <1>2, DiffBits8 DEF ResultModulus
<1>4. n \in Int BY <1>2, <1>3
<1>5. d = l - r - b OBVIOUS
<1> HIDE DEF n, d
<1>6. (n % 256) - 256 * Flag(d \notin Byte) = d BY <1>2, <1>3 DEF Flag, Byte
<1> QED BY <1>1, <1>4, <1>5, <1>6 DEF n

(* A byte shifted left with its carry is the exact double. *)
LEMMA LeftByte == ASSUME NEW l \in Byte, NEW b \in 0 .. 1, NEW x \in CC
  PROVE /\ 2 * l + b \in Int
        /\ ((2 * l + b) % 256) + 256 * LeftFlags(x, l, b).C = 2 * l + b
<1> DEFINE n == 2 * l + b
<1>1. LeftFlags(x, l, b).C = Flag(n \notin Byte) BY RolIs
<1>2. n \in Int /\ n >= 0 /\ n < 512 BY DEF Byte
<1> HIDE DEF n
<1>3. (n % 256) + 256 * Flag(n \notin Byte) = n BY <1>2 DEF Flag, Byte
<1> QED BY <1>1, <1>2, <1>3 DEF n

(* The next byte of a number: w is its weight, q and k the byte and carry *)
(* it leaves.                                                              *)
LEMMA Carries == ASSUME NEW w \in Int, NEW k \in Int, NEW q \in Int, NEW c \in Int,
                        NEW e \in Int, q + 256 * k = e + c
  PROVE q * w + k * (256 * w) = e * w + c * w
<1>1. (q + 256 * k) * w = q * w + k * (256 * w) OBVIOUS
<1>2. (e + c) * w = e * w + c * w OBVIOUS
<1> QED BY <1>1, <1>2

(* A byte more of a difference, its borrow carried to the next weight *)
LEMMA Borrows == ASSUME NEW w \in Int, NEW k \in Int, NEW q \in Int, NEW c \in Int,
                        NEW e \in Int, q - 256 * k = e - c
  PROVE q * w - k * (256 * w) = e * w - c * w
<1>1. (q - 256 * k) * w = q * w - k * (256 * w) OBVIOUS
<1>2. (e - c) * w = e * w - c * w OBVIOUS
<1> QED BY <1>1, <1>2

LongNumber == LongArithmetic /\ ArInv

(* Only a number of the kind under way is claimed about. *)
LEMMA OneKind ==
  /\ long'.kind = "none" => LongArithmetic'
  /\ long'.kind = "sum" /\ long'.value + cc'.C * long'.weight = long'.l + long'.r => LongArithmetic'
  /\ long'.kind = "difference" /\ long'.value - cc'.C * long'.weight = long'.l - long'.r
        => LongArithmetic'
  /\ long'.kind = "left" /\ long'.value + cc'.C * long'.weight = 2 * long'.l => LongArithmetic'
  /\ long'.kind = "right" /\ 2 * long'.value + cc'.C = long'.l => LongArithmetic'
BY DEF LongArithmetic

(* A step that gives up the number keeps LongArithmetic. *)
LEMMA NoLongStep == long' = NoLong => LongArithmetic'
BY OneKind DEF NoLong

(* So does one that keeps the number and the carry. *)
LEMMA KeptStep == ASSUME LongArithmetic, cc'.C = cc.C, UNCHANGED long PROVE LongArithmetic'
BY DEF LongArithmetic

(* The parts of a number are integers. *)
LEMMA LongParts == ArTypeOK => /\ long.l \in Int /\ long.r \in Int /\ long.value \in Int
                               /\ long.weight \in Int
BY DEF ArTypeOK

(* The bytes of a sum keep the equation of sums. *)
LEMMA SumSteps == LongNumber /\ (Add8 \/ Adc) => LongArithmetic'
<1> SUFFICES ASSUME LongNumber, Add8 \/ Adc PROVE LongArithmetic'
  OBVIOUS
<1>1. LongArithmetic /\ ArTypeOK BY DEF LongNumber, ArInv
<1>2. cc \in CC /\ cc.C \in 0 .. 1 BY <1>1, TypeParts
<1>3. CASE Add8
  <2>1. PICK l \in Bytes, r \in Bytes :
           Do("ADD8", l, r, ADD8(l, r, cc)) /\ Begins("sum", l, r, ADD8(l, r, cc).result)
    BY <1>3 DEF Add8
  <2>2. l \in Byte /\ r \in Byte /\ l \in Int /\ r \in Int BY OperandType, ByteFacts
  <2> DEFINE n == l + r + 0
  <2>3. n = l + r /\ ADD8(l, r, cc).result = n /\ cc' = HNZVC8(cc, l, r, n)
    BY <2>1, <2>2 DEF ADD8, Out, Do
  <2>4. n \in Int /\ (n % 256) + 256 * cc'.C = n BY <1>2, <2>2, <2>3, SumByte
  <2> HIDE DEF n
  <2>5. CASE InBounds(1, l, r)
    <3>1. long' = [kind |-> "sum", l |-> l, r |-> r, value |-> n % 256, weight |-> 256]
      BY <2>1, <2>3, <2>5 DEF Begins
    <3>2. long'.kind = "sum" /\ long'.value = n % 256 /\ long'.weight = 256
          /\ long'.l = l /\ long'.r = r
      BY <3>1
    <3>3. cc'.C * 256 = 256 * cc'.C
      <4>1. HNZVC8(cc, l, r, n).C = Bit(n, 256) BY <1>2, <2>2, <2>4, HNZVC8Carry
      <4> QED BY <2>3, <2>4, <4>1, BitsOfResult
    <3> QED BY <2>3, <2>4, <3>2, <3>3, OneKind
  <2>6. CASE ~InBounds(1, l, r) BY <2>1, <2>6, NoLongStep DEF Begins
  <2> QED BY <2>5, <2>6
<1>4. CASE Adc
  <2>1. PICK l \in Bytes, r \in Bytes :
           Do("ADC", l, r, ADC(l, r, cc)) /\ GoesOn("sum", l, r, ADC(l, r, cc).result)
    BY <1>4 DEF Adc
  <2>2. l \in Byte /\ r \in Byte /\ l \in Int /\ r \in Int BY OperandType, ByteFacts
  <2> DEFINE n == l + r + cc.C
             q == n % 256
             k == cc'.C
             w == long.weight
  <2>3. ADC(l, r, cc).result = n /\ cc' = HNZVC8(cc, l, r, n) BY <2>1 DEF ADC, Out, Do
  <2>4. n \in Int /\ q + 256 * k = n BY <1>2, <2>2, <2>3, SumByte
  <2>5. k \in Int /\ q \in Int /\ cc.C \in Int
    <3>1. HNZVC8(cc, l, r, n).C = Bit(n, 256) BY <1>2, <2>2, <2>4, HNZVC8Carry
    <3> QED BY <1>2, <2>3, <2>4, <3>1, BitsOfResult
  <2>6. CASE long.kind = "sum" /\ InBounds(long.weight, l, r)
    <3>1. long' = [kind |-> "sum", l |-> long.l + l * w, r |-> long.r + r * w,
                   value |-> long.value + q * w, weight |-> 256 * w]
      BY <2>1, <2>3, <2>6 DEF GoesOn
    <3>2. long.l \in Int /\ long.r \in Int /\ long.value \in Int /\ w \in Int BY <1>1, LongParts
    <3>3. long.value + cc.C * w = long.l + long.r BY <1>1, <2>6 DEF LongArithmetic
    <3>4. q + 256 * k = (l + r) + cc.C BY <2>2, <2>4, <2>5
    <3> HIDE DEF n, q, k, w
    <3>5. q * w + k * (256 * w) = (l + r) * w + cc.C * w BY <2>2, <2>5, <3>2, <3>4, Carries
    <3>6. (l + r) * w = l * w + r * w BY <2>2, <3>2
    <3>7. (long.value + q * w) + k * (256 * w) = (long.l + l * w) + (long.r + r * w)
      <4>1. /\ q * w \in Int /\ k * (256 * w) \in Int /\ cc.C * w \in Int
            /\ l * w \in Int /\ r * w \in Int
        BY <2>2, <2>5, <3>2
      <4> HIDE <2>2
      <4> QED BY <3>2, <3>3, <3>5, <3>6, <4>1
    <3>8. /\ long'.kind = "sum" /\ long'.value = long.value + q * w /\ long'.weight = 256 * w
          /\ long'.l = long.l + l * w /\ long'.r = long.r + r * w
      BY <3>1
    <3> QED BY <3>7, <3>8, OneKind DEF k
  <2>7. CASE ~(long.kind = "sum" /\ InBounds(long.weight, l, r))
    BY <2>1, <2>7, NoLongStep DEF GoesOn
  <2> QED BY <2>6, <2>7
<1> QED BY <1>3, <1>4

(* The bytes of a difference keep the equation of differences. *)
LEMMA DifferenceSteps == LongNumber /\ (Sub8 \/ Sbc) => LongArithmetic'
<1> SUFFICES ASSUME LongNumber, Sub8 \/ Sbc PROVE LongArithmetic'
  OBVIOUS
<1>1. LongArithmetic /\ ArTypeOK BY DEF LongNumber, ArInv
<1>2. cc \in CC /\ cc.C \in 0 .. 1 BY <1>1, TypeParts
<1>3. CASE Sub8
  <2>1. PICK l \in Bytes, r \in Bytes :
           Do("SUB8", l, r, SUB8(l, r, cc)) /\ Begins("difference", l, r, SUB8(l, r, cc).result)
    BY <1>3 DEF Sub8
  <2>2. l \in Byte /\ r \in Byte /\ l \in Int /\ r \in Int BY OperandType, ByteFacts
  <2> DEFINE n == (l - r - 0) % ResultModulus
             q == n % 256
             k == cc'.C
  <2>3. SUB8(l, r, cc).result = n /\ cc' = xNZVC8(cc, l, r, n)
    <3>1. l - r - 0 = l - r BY <2>2
    <3> QED BY <2>1, <3>1 DEF SUB8, Out, Do
  <2>4. n \in Int /\ q - 256 * k = l - r - 0 BY <1>2, <2>2, <2>3, DiffByte
  <2>5. k \in Int
    <3>1. xNZVC8(cc, l, r, n).C = Bit(n, 256) BY <1>2, <2>2, <2>4, NZVC8Is
    <3> QED BY <2>3, <2>4, <3>1, BitsOfResult
  <2> HIDE DEF n, q, k
  <2>6. CASE InBounds(1, l, r)
    <3>1. long' = [kind |-> "difference", l |-> l, r |-> r, value |-> q, weight |-> 256]
      BY <2>1, <2>3, <2>6 DEF Begins, q
    <3>2. long'.kind = "difference" /\ long'.value = q /\ long'.weight = 256
          /\ long'.l = l /\ long'.r = r
      BY <3>1
    <3>3. q \in Int BY <2>4 DEF q
    <3>4. q - k * 256 = l - r BY <2>2, <2>4, <2>5, <3>3
    <3> QED BY <3>2, <3>4, OneKind DEF k
  <2>7. CASE ~InBounds(1, l, r) BY <2>1, <2>7, NoLongStep DEF Begins
  <2> QED BY <2>6, <2>7
<1>4. CASE Sbc
  <2>1. PICK l \in Bytes, r \in Bytes :
           Do("SBC", l, r, SBC(l, r, cc)) /\ GoesOn("difference", l, r, SBC(l, r, cc).result)
    BY <1>4 DEF Sbc
  <2>2. l \in Byte /\ r \in Byte /\ l \in Int /\ r \in Int BY OperandType, ByteFacts
  <2> DEFINE n == (l - r - cc.C) % ResultModulus
             q == n % 256
             k == cc'.C
             w == long.weight
  <2>3. SBC(l, r, cc).result = n /\ cc' = xNZVC8(cc, l, r, n) BY <2>1 DEF SBC, Out, Do
  <2>4. n \in Int /\ q - 256 * k = l - r - cc.C BY <1>2, <2>2, <2>3, DiffByte
  <2>5. k \in Int /\ q \in Int /\ cc.C \in Int
    <3>1. xNZVC8(cc, l, r, n).C = Bit(n, 256) BY <1>2, <2>2, <2>4, NZVC8Is
    <3> QED BY <1>2, <2>3, <2>4, <3>1, BitsOfResult
  <2>6. CASE long.kind = "difference" /\ InBounds(long.weight, l, r)
    <3>1. long' = [kind |-> "difference", l |-> long.l + l * w, r |-> long.r + r * w,
                   value |-> long.value + q * w, weight |-> 256 * w]
      BY <2>1, <2>3, <2>6 DEF GoesOn
    <3>2. long.l \in Int /\ long.r \in Int /\ long.value \in Int /\ w \in Int BY <1>1, LongParts
    <3>3. long.value - cc.C * w = long.l - long.r BY <1>1, <2>6 DEF LongArithmetic
    <3>4. q - 256 * k = (l - r) - cc.C BY <2>2, <2>4, <2>5
    <3> HIDE DEF n, q, k, w
    <3>5. q * w - k * (256 * w) = (l - r) * w - cc.C * w BY <2>2, <2>5, <3>2, <3>4, Borrows
    <3>6. (l - r) * w = l * w - r * w BY <2>2, <3>2
    <3>7. (long.value + q * w) - k * (256 * w) = (long.l + l * w) - (long.r + r * w)
      <4>1. /\ q * w \in Int /\ k * (256 * w) \in Int /\ cc.C * w \in Int
            /\ l * w \in Int /\ r * w \in Int
        BY <2>2, <2>5, <3>2
      <4> QED BY <3>2, <3>3, <3>5, <3>6, <4>1
    <3>8. /\ long'.kind = "difference" /\ long'.value = long.value + q * w
          /\ long'.weight = 256 * w
          /\ long'.l = long.l + l * w /\ long'.r = long.r + r * w
      BY <3>1
    <3> QED BY <3>7, <3>8, OneKind DEF k
  <2>7. CASE ~(long.kind = "difference" /\ InBounds(long.weight, l, r))
    BY <2>1, <2>7, NoLongStep DEF GoesOn
  <2> QED BY <2>6, <2>7
<1> QED BY <1>3, <1>4

(* The bytes of a shift to the left keep its equation. *)
LEMMA LeftSteps == LongNumber /\ (Asl \/ Rol) => LongArithmetic'
<1> SUFFICES ASSUME LongNumber, Asl \/ Rol PROVE LongArithmetic'
  OBVIOUS
<1>1. LongArithmetic /\ ArTypeOK BY DEF LongNumber, ArInv
<1>2. cc \in CC /\ cc.C \in 0 .. 1 BY <1>1, TypeParts
<1>3. CASE Asl
  <2>1. PICK l \in Bytes :
           Do("ASL", l, 0, ASL(l, cc)) /\ Begins("left", l, 0, ASL(l, cc).result)
    BY <1>3 DEF Asl
  <2>2. l \in Byte /\ l \in Int BY OperandType, ByteFacts
  <2> DEFINE n == 2 * l + 0
             q == n % 256
             k == cc'.C
  <2>3. n = 2 * l /\ ASL(l, cc).result = n /\ cc' = LeftFlags(cc, l, 0)
    <3>1. 2 * l + 0 = 2 * l BY <2>2
    <3> QED BY <2>1, <3>1 DEF ASL, Out, Do, LeftFlags
  <2>4. n \in Int /\ q + 256 * k = n BY <1>2, <2>2, <2>3, LeftByte
  <2>5. k \in Int
    <3>1. LeftFlags(cc, l, 0).C = Flag(2 * l + 0 \notin Byte) BY <1>2, <2>2, RolIs
    <3> QED BY <2>3, <3>1, FlagType
  <2> HIDE DEF n, q, k
  <2>6. CASE InBounds(1, l, 0)
    <3>1. long' = [kind |-> "left", l |-> l, r |-> 0, value |-> q, weight |-> 256]
      BY <2>1, <2>3, <2>6 DEF Begins, q
    <3>2. long'.kind = "left" /\ long'.value = q /\ long'.weight = 256 /\ long'.l = l
      BY <3>1
    <3>3. q \in Int BY <2>4 DEF q
    <3>4. q + k * 256 = 2 * l BY <2>2, <2>3, <2>4, <2>5, <3>3
    <3> QED BY <3>2, <3>4, OneKind DEF k
  <2>7. CASE ~InBounds(1, l, 0) BY <2>1, <2>7, NoLongStep DEF Begins
  <2> QED BY <2>6, <2>7
<1>4. CASE Rol
  <2>1. PICK l \in Bytes :
           Do("ROL", l, 0, ROL(l, cc)) /\ GoesOn("left", l, 0, ROL(l, cc).result)
    BY <1>4 DEF Rol
  <2>2. l \in Byte /\ l \in Int BY OperandType, ByteFacts
  <2> DEFINE n == 2 * l + cc.C
             q == n % 256
             k == cc'.C
             w == long.weight
  <2>3. ROL(l, cc).result = n /\ cc' = LeftFlags(cc, l, cc.C)
    BY <2>1 DEF ROL, Out, Do, LeftFlags
  <2>4. n \in Int /\ q + 256 * k = n BY <1>2, <2>2, <2>3, LeftByte
  <2>5. k \in Int /\ q \in Int /\ cc.C \in Int
    <3>1. LeftFlags(cc, l, cc.C).C = Flag(2 * l + cc.C \notin Byte) BY <1>2, <2>2, RolIs
    <3> QED BY <1>2, <2>3, <2>4, <3>1, FlagType
  <2>6. CASE long.kind = "left" /\ InBounds(long.weight, l, 0)
    <3>1. long' = [kind |-> "left", l |-> long.l + l * w, r |-> long.r + 0 * w,
                   value |-> long.value + q * w, weight |-> 256 * w]
      BY <2>1, <2>3, <2>6 DEF GoesOn
    <3>2. long.l \in Int /\ long.value \in Int /\ w \in Int BY <1>1, LongParts
    <3>3. long.value + cc.C * w = 2 * long.l BY <1>1, <2>6 DEF LongArithmetic
    <3>4. q + 256 * k = (2 * l) + cc.C BY <2>2, <2>4, <2>5
    <3> HIDE DEF n, q, k, w
    <3> DEFINE e == 2 * l
    <3>9. e \in Int /\ q + 256 * k = e + cc.C BY <2>2, <3>4
    <3>6. e * w = 2 * (l * w) BY <2>2, <3>2
    <3> HIDE DEF e
    <3>5. q * w + k * (256 * w) = e * w + cc.C * w
      <4> DEFINE c == cc.C
      <4>1. c \in Int /\ q + 256 * k = e + c BY <2>5, <3>9
      <4> HIDE DEF c
      <4>2. q * w + k * (256 * w) = e * w + c * w BY <2>5, <3>2, <3>9, <4>1, Carries
      <4> QED BY <4>2 DEF c
    <3>7. (long.value + q * w) + k * (256 * w) = 2 * (long.l + l * w)
      <4> DEFINE a == q * w
                 b == k * (256 * w)
                 c == cc.C * w
                 d == l * w
      <4>1. a \in Int /\ b \in Int /\ c \in Int /\ d \in Int BY <2>2, <2>5, <3>2
      <4>2. a + b = 2 * d + c /\ long.value + c = 2 * long.l BY <3>3, <3>5, <3>6
      <4> HIDE DEF a, b, c, d
      <4>3. (long.value + a) + b = 2 * (long.l + d) BY <3>2, <4>1, <4>2
      <4> QED BY <4>3 DEF a, b, d
    <3>8. /\ long'.kind = "left" /\ long'.value = long.value + q * w /\ long'.weight = 256 * w
          /\ long'.l = long.l + l * w
      BY <3>1
    <3> QED BY <3>7, <3>8, OneKind DEF k
  <2>7. CASE ~(long.kind = "left" /\ InBounds(long.weight, l, 0))
    BY <2>1, <2>7, NoLongStep DEF GoesOn
  <2> QED BY <2>6, <2>7
<1> QED BY <1>3, <1>4

(* The bytes of a shift to the right keep its equation. *)
LEMMA RightSteps == LongNumber /\ (Lsr \/ Ror) => LongArithmetic'
<1> SUFFICES ASSUME LongNumber, Lsr \/ Ror PROVE LongArithmetic'
  OBVIOUS
<1>1. LongArithmetic /\ ArTypeOK BY DEF LongNumber, ArInv
<1>2. cc \in CC /\ cc.C \in 0 .. 1 BY <1>1, TypeParts
<1>3. CASE Lsr
  <2>1. PICK l \in Bytes : Other(LSR(l, cc)) /\ Begins("right", l, 0, LSR(l, cc).result)
    BY <1>3 DEF Lsr
  <2>2. l \in Byte /\ l \in Int BY OperandType, ByteFacts
  <2> DEFINE n == l \div 2 + 128 * 0
             k == cc'.C
  <2>3. LSR(l, cc).result = n /\ cc' = LsrFlags(cc, l, 0)
    <3>1. n = l \div 2 BY <2>2
    <3> QED BY <2>1, <3>1 DEF LSR, Out, Other, LsrFlags
  <2>4. n \in Byte /\ cc' \in CC /\ 2 * n + k = 256 * 0 + l
    <3>1. 0 \in 0 .. 1 OBVIOUS
    <3> QED BY <1>2, <2>2, <2>3, <3>1, RightIs
  <2>5. n % 256 = n /\ n \in Int BY <2>4 DEF Byte
  <2> HIDE DEF n
  <2>6. CASE InBounds(1, l, 0)
    <3>1. long' = [kind |-> "right", l |-> l, r |-> 0, value |-> n, weight |-> 256]
      BY <2>1, <2>3, <2>5, <2>6 DEF Begins
    <3>2. long'.kind = "right" /\ long'.value = n /\ long'.l = l BY <3>1
    <3>3. 2 * n + k = l BY <2>2, <2>4
    <3> QED BY <3>2, <3>3, OneKind
  <2>7. CASE ~InBounds(1, l, 0) BY <2>1, <2>7, NoLongStep DEF Begins
  <2> QED BY <2>6, <2>7
<1>4. CASE Ror
  <2>1. PICK l \in Bytes : Other(ROR(l, cc)) /\ GoesDown(l, ROR(l, cc).result)
    BY <1>4 DEF Ror
  <2>2. l \in Byte /\ l \in Int BY OperandType, ByteFacts
  <2> DEFINE n == l \div 2 + 128 * cc.C
             k == cc'.C
  <2>3. ROR(l, cc).result = n /\ cc' = RightFlags(cc, l, cc.C)
    BY <2>1 DEF ROR, Out, Other, RightFlags
  <2>4. n \in Byte /\ cc' \in CC /\ 2 * n + k = 256 * cc.C + l BY <1>2, <2>2, <2>3, RightIs
  <2>5. n % 256 = n /\ n \in Int BY <2>4 DEF Byte
  <2>6. k \in Int /\ cc.C \in Int BY <1>2, <2>4 DEF CC
  <2> HIDE DEF n, k
  <2>7. CASE long.kind = "right" /\ InBounds(long.weight, l, 0)
    <3>1. long' = [kind |-> "right", l |-> 256 * long.l + l, r |-> 0,
                   value |-> 256 * long.value + n, weight |-> 256 * long.weight]
      BY <2>1, <2>3, <2>5, <2>7 DEF GoesDown
    <3>2. long'.kind = "right" /\ long'.value = 256 * long.value + n
          /\ long'.l = 256 * long.l + l
      BY <3>1
    <3>3. 2 * long.value + cc.C = long.l BY <1>1, <2>7 DEF LongArithmetic
    <3>4. long.l \in Int /\ long.value \in Int BY <1>1, LongParts
    <3>5. 2 * (256 * long.value + n) + k = 256 * long.l + l
      <4> DEFINE v == long.value
                 u == long.l
                 c == cc.C
      <4>1. /\ v \in Int /\ u \in Int /\ c \in Int /\ 2 * v + c = u
            /\ 2 * n + k = 256 * c + l
        BY <2>4, <2>6, <3>3, <3>4
      <4> HIDE DEF v, u, c
      <4>2. 2 * (256 * v + n) + k = 256 * u + l BY <2>2, <2>5, <2>6, <4>1
      <4> QED BY <4>2 DEF v, u
    <3> QED BY <3>2, <3>5, OneKind DEF k
  <2>8. CASE ~(long.kind = "right" /\ InBounds(long.weight, l, 0))
    BY <2>1, <2>8, NoLongStep DEF GoesDown
  <2> QED BY <2>7, <2>8
<1> QED BY <1>3, <1>4

(* What lies between the bytes keeps the carry. *)
LEMMA KeepingSteps == LongNumber /\ (Count \/ Logic \/ Move8 \/ Move16) => LongArithmetic'
<1> SUFFICES ASSUME LongNumber, Count \/ Logic \/ Move8 \/ Move16 PROVE LongArithmetic'
  OBVIOUS
<1>1. LongArithmetic /\ ArTypeOK BY DEF LongNumber, ArInv
<1>2. cc \in CC /\ result \in Int BY <1>1, TypeParts, ResultRange
<1>3. \A n \in Result : n \in Int BY ResultRange
<1>4. CASE Count
  <2>1. PICK l \in Bytes : Do("INC", l, 0, INC(l, cc)) \/ Do("DEC", l, 0, DEC(l, cc))
    BY <1>4 DEF Count
  <2>2. INC(l, cc).cc.C = cc.C /\ DEC(l, cc).cc.C = cc.C
    BY <1>2, OperandType, IncIs, DecIs
  <2>3. cc'.C = cc.C /\ UNCHANGED long BY <1>4, <2>1, <2>2 DEF Do, Count
  <2> QED BY <1>1, <2>3, KeptStep
<1>5. CASE Logic
  <2>1. PICK l \in Bytes, r \in Bytes :
           \/ Do("BIT", l, r, BIT(l, r, cc))
           \/ Other(AND(l, r, cc)) \/ Other(OR(l, r, cc)) \/ Other(EOR(l, r, cc))
    BY <1>5 DEF Logic
  <2>2. BitAnd(l, r) \in Int /\ BitOr(l, r) \in Int /\ BitXor(l, r) \in Int
    BY <1>3, OperandType, BitwiseType
  <2>3. /\ AND(l, r, cc).cc.C = cc.C /\ OR(l, r, cc).cc.C = cc.C
        /\ EOR(l, r, cc).cc.C = cc.C /\ BIT(l, r, cc).cc.C = cc.C
    BY <1>2, <2>2, MoveIs DEF AND, OR, EOR, BIT, Out
  <2>4. cc'.C = cc.C /\ UNCHANGED long BY <1>5, <2>1, <2>3 DEF Do, Other, Logic
  <2> QED BY <1>1, <2>4, KeptStep
<1>6. CASE Move8
  <2>1. PICK n \in Bytes :
          Do("ST8", n, 0, ST8(result, cc)) \/ Other(LD8(n, cc)) \/ Other(TST(n, cc))
    BY <1>6 DEF Move8
  <2>2. n \in Int BY OperandType, ByteFacts
  <2>3. ST8(result, cc).cc.C = cc.C /\ LD8(n, cc).cc.C = cc.C /\ TST(n, cc).cc.C = cc.C
    BY <1>2, <2>2, MoveIs DEF ST8, LD8, TST, Out
  <2>4. cc'.C = cc.C /\ UNCHANGED long BY <1>6, <2>1, <2>3 DEF Do, Other, Move8
  <2> QED BY <1>1, <2>4, KeptStep
<1>7. CASE Move16
  <2>1. PICK n \in Words : Other(LD16(n, cc)) \/ Other(ST16(result, cc))
    BY <1>7 DEF Move16
  <2>2. n \in Int BY WordOperand, WordRange
  <2>3. ST16(result, cc).cc.C = cc.C /\ LD16(n, cc).cc.C = cc.C
    BY <1>2, <2>2, MoveIs DEF ST16, LD16, Out
  <2>4. cc'.C = cc.C /\ UNCHANGED long BY <1>7, <2>1, <2>3 DEF Other, Move16
  <2> QED BY <1>1, <2>4, KeptStep
<1> QED BY <1>4, <1>5, <1>6, <1>7

(* Sums, differences and shifts of numbers of any length are exact, for   *)
(* any bytes and with any instructions that keep the carry in between.     *)
THEOREM LongNumbersAreExact == Spec => []LongArithmetic
<1>1. Init => LongArithmetic
  BY DEF Init, LongArithmetic, NoLong
<1>2. LongNumber /\ [Next]_vars => LongArithmetic'
  <2> SUFFICES ASSUME LongNumber, [Next]_vars PROVE LongArithmetic'
    OBVIOUS
  <2>1. CASE UNCHANGED vars BY <2>1 DEF vars, LongNumber, LongArithmetic
  <2>2. CASE Add8 \/ Adc BY <2>2, SumSteps
  <2>3. CASE Sub8 \/ Sbc BY <2>3, DifferenceSteps
  <2>4. CASE Asl \/ Rol BY <2>4, LeftSteps
  <2>5. CASE Lsr \/ Ror BY <2>5, RightSteps
  <2>6. CASE Count \/ Logic \/ Move8 \/ Move16 BY <2>6, KeepingSteps
  <2>7. CASE Add16 \/ Sub16 \/ Asr \/ Neg \/ Com \/ Clr \/ Mul \/ Daa
    BY <2>7, NoLongStep DEF Add16, Sub16, Asr, Neg, Com, Clr, Mul, Daa
  <2> QED BY <2>1, <2>2, <2>3, <2>4, <2>5, <2>6, <2>7 DEF Next
<1>3. LongNumber <=> LongArithmetic /\ ArInv BY DEF LongNumber
<1> QED BY <1>1, <1>2, <1>3, ArInvariant, PTL DEF Spec

-----------------------------------------------------------------------------
(* Decimal addition.  The digits of the operands are l1 l0 and r1 r0; d is *)
(* the low digit of the sum, t what its high digit and its carry stand for. *)
Low(a, h) == IF h = 1 \/ a % 16 > 9 THEN 6 ELSE 0
High(a, k) == IF k = 1 \/ a \div 16 > 9 \/ (a \div 16 > 8 /\ a % 16 > 9) THEN 96 ELSE 0

Adjusts(a, h, k, e) ==
    \E t \in 0 .. 19, d \in 0 .. 9 :
       /\ 10 * t + d = e
       /\ a + Low(a, h) + High(a, k)
            = IF t <= 9 THEN 16 * t + d
              ELSE IF k = 0 THEN 16 * (t - 10) + d + 256 ELSE 16 * (t - 10) + d

(* What DAA makes of the sum of two numbers of two digits *)
LEMMA AdjustedSum ==
  ASSUME NEW p \in 0 .. 18, NEW q \in 0 .. 19, NEW a \in Int, NEW h, NEW k,
         a = (16 * p + q) % 256, h = Flag(q > 15), k = Flag(16 * p + q > 255)
  PROVE Adjusts(a, h, k, 10 * p + q)
<1>1. p \in Int /\ p >= 0 /\ p <= 18 /\ q \in Int /\ q >= 0 /\ q <= 19 OBVIOUS
<1>2. a = (16 * p + q) % 256 /\ h = Flag(q > 15) /\ k = Flag(16 * p + q > 255) OBVIOUS
<1>3. SUFFICES \E t \in 0 .. 19, d \in 0 .. 9 :
                  /\ 10 * t + d = 10 * p + q
                  /\ a + Low(a, h) + High(a, k)
                       = IF t <= 9 THEN 16 * t + d
                         ELSE IF k = 0 THEN 16 * (t - 10) + d + 256 ELSE 16 * (t - 10) + d
  BY DEF Adjusts
<1>4. CASE 16 * p + q <= 255
  <2>1. a = 16 * p + q /\ k = 0 BY <1>1, <1>2, <1>4 DEF Flag
  <2>2. CASE q <= 9
    <3>1. a % 16 = q /\ a \div 16 = p /\ h = 0 BY <1>1, <1>2, <2>1, <2>2 DEF Flag
    <3>2. Low(a, h) = 0 /\ High(a, k) = (IF p > 9 THEN 96 ELSE 0)
      BY <1>1, <2>1, <2>2, <3>1 DEF Low, High
    <3>3. p \in 0 .. 19 /\ q \in 0 .. 9 BY <1>1, <2>2
    <3>4. a + Low(a, h) + High(a, k) = IF p <= 9 THEN 16 * p + q ELSE 16 * (p - 10) + q + 256
      BY <1>1, <2>1, <3>2
    <3> QED BY <2>1, <3>3, <3>4
  <2>3. CASE q > 9 /\ q <= 15
    <3>1. a % 16 = q /\ a \div 16 = p /\ h = 0 BY <1>1, <1>2, <2>1, <2>3 DEF Flag
    <3>2. Low(a, h) = 6 /\ High(a, k) = (IF p > 8 THEN 96 ELSE 0)
      BY <1>1, <2>1, <2>3, <3>1 DEF Low, High
    <3>3. p + 1 \in 0 .. 19 /\ q - 10 \in 0 .. 9 BY <1>1, <2>3
    <3>4. a + Low(a, h) + High(a, k)
           = IF p + 1 <= 9 THEN 16 * (p + 1) + (q - 10) ELSE 16 * ((p + 1) - 10) + (q - 10) + 256
      BY <1>1, <2>1, <3>2
    <3>5. 10 * (p + 1) + (q - 10) = 10 * p + q BY <1>1
    <3> QED BY <2>1, <3>3, <3>4, <3>5
  <2>4. CASE q > 15
    <3>1. a % 16 = q - 16 /\ a \div 16 = p + 1 /\ h = 1 BY <1>1, <1>2, <2>1, <2>4 DEF Flag
    <3>2. Low(a, h) = 6 /\ High(a, k) = (IF p + 1 > 9 THEN 96 ELSE 0)
      BY <1>1, <2>1, <2>4, <3>1 DEF Low, High
    <3>3. p + 1 \in 0 .. 19 /\ q - 10 \in 0 .. 9 BY <1>1, <2>4
    <3>4. a + Low(a, h) + High(a, k)
           = IF p + 1 <= 9 THEN 16 * (p + 1) + (q - 10) ELSE 16 * ((p + 1) - 10) + (q - 10) + 256
      BY <1>1, <2>1, <3>2
    <3>5. 10 * (p + 1) + (q - 10) = 10 * p + q BY <1>1
    <3> QED BY <2>1, <3>3, <3>4, <3>5
  <2> QED BY <1>1, <2>2, <2>3, <2>4
<1>5. CASE 16 * p + q > 255
  <2>1. a = 16 * p + q - 256 /\ k = 1 /\ p >= 15 BY <1>1, <1>2, <1>5 DEF Flag
  <2>2. High(a, k) = 96 BY <2>1 DEF High
  <2>3. CASE q <= 9
    <3>1. a % 16 = q /\ h = 0 BY <1>1, <1>2, <2>1, <2>3 DEF Flag
    <3>2. Low(a, h) = 0 BY <1>1, <2>3, <3>1 DEF Low
    <3>3. p \in 0 .. 19 /\ q \in 0 .. 9 /\ ~(p <= 9) BY <1>1, <2>1, <2>3
    <3>4. a + Low(a, h) + High(a, k) = 16 * (p - 10) + q BY <1>1, <2>1, <2>2, <3>2
    <3> QED BY <2>1, <3>3, <3>4
  <2>4. CASE q > 9
    <3>1. Low(a, h) = 6
      <4>1. CASE q <= 15
        <5>1. a % 16 = q BY <1>1, <2>1, <2>4, <4>1
        <5> QED BY <2>4, <5>1 DEF Low
      <4>2. CASE q > 15 BY <1>2, <4>2 DEF Low, Flag
      <4> QED BY <1>1, <4>1, <4>2
    <3>2. p + 1 \in 0 .. 19 /\ q - 10 \in 0 .. 9 /\ ~(p + 1 <= 9) BY <1>1, <2>1, <2>4
    <3>3. a + Low(a, h) + High(a, k) = 16 * ((p + 1) - 10) + (q - 10)
      BY <1>1, <2>1, <2>2, <3>1
    <3>4. 10 * (p + 1) + (q - 10) = 10 * p + q BY <1>1
    <3> QED BY <2>1, <3>2, <3>3, <3>4
  <2> QED BY <1>1, <2>3, <2>4
<1> QED BY <1>1, <1>4, <1>5

(* A byte of two decimal digits, and the number they are *)
LEMMA DigitsOf == ASSUME NEW b \in Byte, IsDecimal(b)
  PROVE /\ b \div 16 \in 0 .. 9 /\ b % 16 \in 0 .. 9
        /\ b = 16 * (b \div 16) + (b % 16)
        /\ Decimal(b) = 10 * (b \div 16) + (b % 16)
BY DEF Byte, IsDecimal, Decimal

(* The two digits and the carry of an adjusted sum *)
LEMMA DigitsAre == ASSUME NEW t \in 0 .. 19, NEW d \in 0 .. 9, NEW k \in 0 .. 1, NEW n \in Int,
                          n = IF t <= 9 THEN 16 * t + d
                              ELSE IF k = 0 THEN 16 * (t - 10) + d + 256 ELSE 16 * (t - 10) + d
  PROVE /\ IsDecimal(n % 256)
        /\ Decimal(n % 256) = (10 * t + d) % 100
        /\ Bit(n, 256) = Flag(t > 9 /\ k = 0)
<1> DEFINE u == IF t <= 9 THEN t ELSE t - 10
<1>1. u \in Int /\ u >= 0 /\ u <= 9 OBVIOUS
<1>2. n = IF t > 9 /\ k = 0 THEN 16 * u + d + 256 ELSE 16 * u + d OBVIOUS
<1>3. (10 * t + d) % 100 = 10 * u + d OBVIOUS
<1> HIDE DEF u
<1>4. n % 256 = 16 * u + d BY <1>1, <1>2
<1>5. (n % 256) % 16 = d /\ (n % 256) \div 16 = u BY <1>1, <1>4
<1>6. Bit(n, 256) = Flag(t > 9 /\ k = 0) BY <1>1, <1>2 DEF Bit, Flag
<1> QED BY <1>1, <1>3, <1>5, <1>6 DEF IsDecimal, Decimal

(* An addition of decimal digits and DAA give the digits of the sum. *)
LEMMA DecimalAdjust ==
  ASSUME NEW l \in Byte, NEW r \in Byte, NEW c \in 0 .. 1, NEW x \in CC,
         IsDecimal(l), IsDecimal(r),
         x.H = Flag((l % 16) + (r % 16) + c > 15),
         x.C = Flag(l + r + c \notin Byte)
  PROVE LET out == DAA((l + r + c) % 256, x)
            sum == Decimal(l) + Decimal(r) + c
        IN  /\ IsDecimal(out.result % 256)
            /\ Decimal(out.result % 256) = sum % 100
            /\ out.cc.C = Flag(sum >= 100 /\ l + r + c < 256)
<1> DEFINE l1 == l \div 16
           l0 == l % 16
           r1 == r \div 16
           r0 == r % 16
           a == (l + r + c) % 256
           k == x.C
           n == DAA(a, x).result
           sum == Decimal(l) + Decimal(r) + c
<1>1. /\ l1 \in 0 .. 9 /\ l0 \in 0 .. 9 /\ r1 \in 0 .. 9 /\ r0 \in 0 .. 9
      /\ l = 16 * l1 + l0 /\ r = 16 * r1 + r0
      /\ Decimal(l) = 10 * l1 + l0 /\ Decimal(r) = 10 * r1 + r0
  BY DigitsOf
<1>2. l \in Int /\ r \in Int /\ l + r + c \in Int /\ l + r + c >= 0 BY ByteFacts
<1>3. a \in Byte /\ a \in Int BY <1>2, BitsOfResult DEF Byte
<1>4. n = a + Low(a, x.H) + High(a, k) /\ n \in Int /\ DAA(a, x).cc.C = Bit(n, 256)
  <2>1. n = a + Low(a, x.H) + High(a, k) /\ n \in Result /\ DAA(a, x).cc.C = Bit(n, 256)
    BY <1>3, DaaIs DEF Low, High
  <2> QED BY <2>1, ResultRange
<1>5. x.H = Flag(l0 + r0 + c > 15) OBVIOUS
<1>6. k \in 0 .. 1 /\ k = Flag(l + r + c > 255) BY <1>2, FlagType DEF Byte, Flag
<1> HIDE DEF l1, l0, r1, r0, k, n
<1>7. l + r + c = 16 * (l1 + r1) + (l0 + r0 + c) BY <1>1
<1>8. sum = 10 * (l1 + r1) + (l0 + r0 + c) BY <1>1
<1>9. PICK t \in 0 .. 19, d \in 0 .. 9 :
        /\ 10 * t + d = 10 * (l1 + r1) + (l0 + r0 + c)
        /\ a + Low(a, x.H) + High(a, k)
             = IF t <= 9 THEN 16 * t + d
               ELSE IF k = 0 THEN 16 * (t - 10) + d + 256 ELSE 16 * (t - 10) + d
  <2> DEFINE h == x.H
             p == l1 + r1
             q == l0 + r0 + c
  <2>1. p \in 0 .. 18 /\ q \in 0 .. 19 BY <1>1
  <2>2. h = Flag(q > 15) BY <1>5
  <2>3. a = (16 * p + q) % 256 BY <1>7
  <2>4. k = Flag(16 * p + q > 255) BY <1>6, <1>7
  <2> HIDE DEF h, a, p, q
  <2>5. Adjusts(a, h, k, 10 * p + q) BY <1>3, <2>1, <2>2, <2>3, <2>4, AdjustedSum
  <2> QED BY <2>5 DEF Adjusts, h, p, q
<1>10. /\ IsDecimal(n % 256)
       /\ Decimal(n % 256) = (10 * t + d) % 100
       /\ Bit(n, 256) = Flag(t > 9 /\ k = 0)
  <2> HIDE DEF a
  <2> QED BY <1>4, <1>6, <1>9, DigitsAre
<1>11. Flag(t > 9 /\ k = 0) = Flag(sum >= 100 /\ l + r + c < 256)
  <2>1. t > 9 <=> sum >= 100 BY <1>8, <1>9
  <2>2. k = 0 <=> l + r + c < 256 BY <1>2, <1>6 DEF Flag
  <2> QED BY <2>1, <2>2
<1>12. (10 * t + d) % 100 = sum % 100 BY <1>8, <1>9
<1> QED BY <1>4, <1>10, <1>11, <1>12 DEF n

(* Only DAA leaves a DAA behind. *)
LEMMA NoDaa == Next /\ ~Daa => last'.op # "DAA"
BY DEF Next, Do, Other, Add8, Adc, Sub8, Sbc, Add16, Sub16, Asl, Rol, Lsr, Asr, Ror, Neg, Com, Clr,
       Mul, Count, Logic, Move8, Move16

(* DAA gives the decimal sum of any two numbers of two digits, added with *)
(* ADD or ADC, and its carry unless the addition of the bytes had one.     *)
THEOREM DecimalSumsAreRight == Spec => []DecimalSum
<1>1. Init => DecimalSum
  BY DEF Init, DecimalSum
<1>2. ArInv /\ DecimalSum /\ [Next]_vars => DecimalSum'
  <2> SUFFICES ASSUME ArInv, DecimalSum, [Next]_vars PROVE DecimalSum'
    OBVIOUS
  <2>1. CASE UNCHANGED vars BY <2>1 DEF vars, DecimalSum
  <2>2. CASE Next /\ ~Daa BY <2>2, NoDaa DEF DecimalSum
  <2>3. CASE Daa
    <3>1. PICK a \in Bytes \cup {result % 256} :
            /\ result' = DAA(a, cc).result /\ cc' = DAA(a, cc).cc
            /\ last' = IF last.op \in {"ADD8", "ADC"} /\ a = result % 256
                       THEN [last EXCEPT !.op = "DAA", !.c = IF last.op = "ADC" THEN @ ELSE 0]
                       ELSE [op |-> "other", l |-> 0, r |-> 0, c |-> 0]
      BY <2>3 DEF Daa
    <3>2. CASE ~(last.op \in {"ADD8", "ADC"} /\ a = result % 256)
      <4>1. last'.op = "other" BY <3>1, <3>2
      <4> QED BY <4>1 DEF DecimalSum
    <3>3. CASE last.op \in {"ADD8", "ADC"} /\ a = result % 256
      <4> DEFINE l == last.l
                 r == last.r
                 c == IF last.op = "ADC" THEN last.c ELSE 0
      <4>1. last \in LastType /\ cc \in CC /\ ArTypeOK /\ FlagsAreArithmetic /\ SumInLatch
        BY DEF ArInv, ArTypeOK, LastType
      <4>2. last.op \in ByteOps BY <3>3 DEF ByteOps
      <4>3. l \in Byte /\ r \in Byte /\ c \in 0 .. 1
        BY <4>1, <4>2 DEF ArTypeOK, LastType
      <4>4. l \in Int /\ r \in Int BY <4>3, ByteFacts
      <4>5. last'.l = l /\ last'.r = r /\ last'.c = c
        <5>1. last' = [last EXCEPT !.op = "DAA", !.c = c] BY <3>1, <3>3
        <5> HIDE DEF c
        <5> QED BY <4>1, <5>1 DEF LastType
      <4>6. result = l + r + c
        <5>1. CASE last.op = "ADC" BY <4>1, <5>1 DEF SumInLatch
        <5>2. CASE last.op = "ADD8" BY <4>1, <4>4, <5>2 DEF SumInLatch
        <5> QED BY <3>3, <5>1, <5>2
      <4>7. cc.H = Flag((l % 16) + (r % 16) + c > 15) /\ cc.C = Flag(l + r + c \notin Byte)
        <5>1. CASE last.op = "ADC"
          <6>1. Exact(last.op, last.l, last.r, last.c) = last.l + last.r + last.c
            BY <5>1 DEF Exact
          <6> QED BY <4>1, <4>2, <5>1, <6>1 DEF FlagsAreArithmetic
        <5>2. CASE last.op = "ADD8"
          <6>1. Exact(last.op, last.l, last.r, last.c) = last.l + last.r
            BY <5>2 DEF Exact
          <6>2. l + r + c = l + r /\ (l % 16) + (r % 16) + c = (l % 16) + (r % 16)
            BY <4>4, <5>2
          <6>3. cc.H = Flag((last.l % 16) + (last.r % 16) > 15)
            BY <4>1, <4>2, <5>2 DEF FlagsAreArithmetic
          <6>4. cc.C = Flag(last.l + last.r \notin Byte)
            BY <4>1, <4>2, <5>2, <6>1 DEF FlagsAreArithmetic
          <6> QED BY <6>2, <6>3, <6>4
        <5> QED BY <3>3, <5>1, <5>2
      <4> SUFFICES ASSUME IsDecimal(l), IsDecimal(r)
                   PROVE LET sum == Decimal(l) + Decimal(r) + c
                         IN  /\ IsDecimal(result' % 256)
                             /\ Decimal(result' % 256) = sum % 100
                             /\ cc'.C = Flag(sum >= 100 /\ l + r + c < 256)
        BY <4>5 DEF DecimalSum
      <4>8. result' = DAA((l + r + c) % 256, cc).result /\ cc' = DAA((l + r + c) % 256, cc).cc
        BY <3>1, <3>3, <4>6
      <4> HIDE DEF l, r, c
      <4> QED BY <4>1, <4>3, <4>7, <4>8, DecimalAdjust
    <3> QED BY <3>2, <3>3
  <2> QED BY <2>1, <2>2, <2>3
<1> QED BY <1>1, <1>2, ArInvariant, PTL DEF Spec

=============================================================================
