-------------------------- MODULE ProgramFileProofs --------------------------
(***************************************************************************)
(* Theorems about ProgramFile, for every program, every start address and  *)
(* every header: what the loader makes of a line the assembler writes, and *)
(* of one that was damaged on the way.                                     *)
(***************************************************************************)
EXTENDS ProgramFile, SequenceLemmas

Octet == 0 .. 255

-----------------------------------------------------------------------------
(* What the proofs need of the assumption *)
LEMMA FileFacts ==
    /\ RamAddr \subseteq Address /\ Byte = Octet
    /\ Sources \subseteq Seq(SourceLine)
    /\ Starts \subseteq Address
    /\ HeaderText \in Seq(Octet) /\ Len(HeaderText) <= 50
    /\ Typo \subseteq Char
  BY FileAssumption DEF HeaderLength, Octet

(* The digits of some bytes *)
LEMMA HexOfAppend ==
    ASSUME NEW s \in Seq(Octet), NEW b \in Octet
    PROVE  /\ Hex(<< >>) = << >>
           /\ Hex(s) \in Seq(Digit)
           /\ Hex(Append(s, b)) = Hex(s) \o << b \div 16, b % 16 >>
<1> DEFINE Pair(c) == << c \div 16, c % 16 >>
           Pairs(t) == [i \in DOMAIN t |-> Pair(t[i])]
<1>1. \A c \in Octet : Pair(c) \in Seq(Digit)
  <2>1. \A c \in Octet : c \div 16 \in Digit /\ c % 16 \in Digit
    BY DEF Octet, Digit
  <2>2. QED
    BY <2>1
<1>2. \A t : Hex(t) = FlattenSeq(Pairs(t))
  BY DEF Hex
<1> HIDE DEF Pair
<1>3. Pairs(s) \in Seq(Seq(Digit))
  <2>1. DOMAIN s = 1 .. Len(s) /\ Len(s) \in Nat /\ \A i \in 1 .. Len(s) : s[i] \in Octet
    OBVIOUS
  <2>2. Pairs(s) \in [1 .. Len(s) -> Seq(Digit)]
    BY <1>1, <2>1
  <2>3. QED
    BY <2>1, <2>2, SeqDef
<1>4. Pairs(Append(s, b)) = Append(Pairs(s), Pair(b))
  OBVIOUS
<1>5. Pairs(<< >>) = << >>
  OBVIOUS
<1> HIDE DEF Pairs
<1>6. QED
  BY <1>1, <1>2, <1>3, <1>4, <1>5, FlattenProperties DEF Pair

LEMMA HexProperties ==
    ASSUME NEW s \in Seq(Octet)
    PROVE  /\ Hex(s) \in Seq(Digit)
           /\ Len(Hex(s)) = 2 * Len(s)
           /\ \A k \in 1 .. Len(s) : /\ Hex(s)[2 * k - 1] = s[k] \div 16
                                     /\ Hex(s)[2 * k] = s[k] % 16
<1> DEFINE Good(t) == /\ Len(Hex(t)) = 2 * Len(t)
                      /\ \A k \in 1 .. Len(t) : /\ Hex(t)[2 * k - 1] = t[k] \div 16
                                                /\ Hex(t)[2 * k] = t[k] % 16
           T == {t \in Seq(Octet) : Good(t)}
<1>1. Hex(<< >>) = << >> /\ << >> \in Seq(Octet) /\ \A t \in Seq(Octet) : Hex(t) \in Seq(Digit)
  <2>1. 0 \in Octet /\ << >> \in Seq(Octet)
    BY DEF Octet
  <2>2. QED
    BY <2>1, HexOfAppend
<1>2. Good(<< >>)
  BY <1>1
<1>3. ASSUME NEW t \in Seq(Octet), NEW b \in Octet, Good(t)
      PROVE  Good(Append(t, b))
  <2> DEFINE a == Append(t, b)
             h == Hex(t)
             p == << b \div 16, b % 16 >>
             n == Len(t)
  <2>1. /\ Len(a) = n + 1 /\ n \in Nat /\ a[n + 1] = b
        /\ \A k \in 1 .. n : a[k] = t[k]
    OBVIOUS
  <2>2. h \in Seq(Digit) /\ p \in Seq(Digit) /\ Len(p) = 2 /\ p[1] = b \div 16 /\ p[2] = b % 16
    <3>1. b \div 16 \in Digit /\ b % 16 \in Digit
      BY DEF Octet, Digit
    <3>2. QED
      BY <1>1, <3>1
  <2>3. Len(h) = 2 * n /\ \A k \in 1 .. n : h[2 * k - 1] = t[k] \div 16 /\ h[2 * k] = t[k] % 16
    BY <1>3
  <2>4. Hex(a) = h \o p
    BY HexOfAppend
  <2> HIDE DEF a, h, p, n
  <2>10. /\ Len(h \o p) = Len(h) + Len(p)
         /\ \A i \in 1 .. Len(h) + Len(p) : (h \o p)[i] = IF i <= Len(h) THEN h[i] ELSE p[i - Len(h)]
    BY <2>2, ConcatProperties, Zenon
  <2>11. Len(h) = 2 * n /\ Len(h) + Len(p) = 2 * n + 2
    BY <2>1, <2>2, <2>3
  <2>5. /\ Len(h \o p) = 2 * n + 2
        /\ \A i \in 1 .. 2 * n + 2 : (h \o p)[i] = IF i <= 2 * n THEN h[i] ELSE p[i - 2 * n]
    BY <2>10, <2>11, Zenon
  <2>6. ASSUME NEW k \in 1 .. n + 1
        PROVE  (h \o p)[2 * k - 1] = a[k] \div 16 /\ (h \o p)[2 * k] = a[k] % 16
    <3>1. CASE k = n + 1
      <4>1. 2 * k - 1 \in 1 .. 2 * n + 2 /\ 2 * k \in 1 .. 2 * n + 2
            /\ ~(2 * k - 1 <= 2 * n) /\ ~(2 * k <= 2 * n) /\ 2 * k - 1 - 2 * n = 1 /\ 2 * k - 2 * n = 2
        BY <2>1, <3>1
      <4>2. (h \o p)[2 * k - 1] = p[2 * k - 1 - 2 * n] /\ (h \o p)[2 * k] = p[2 * k - 2 * n]
        BY <2>5, <4>1, Zenon
      <4>3. QED
        BY <2>1, <2>2, <3>1, <4>1, <4>2
    <3>2. CASE k # n + 1
      <4>1. k \in 1 .. n /\ 2 * k - 1 \in 1 .. 2 * n + 2 /\ 2 * k \in 1 .. 2 * n + 2
            /\ 2 * k - 1 <= 2 * n /\ 2 * k <= 2 * n
        BY <2>1, <3>2
      <4>2. (h \o p)[2 * k - 1] = h[2 * k - 1] /\ (h \o p)[2 * k] = h[2 * k]
        BY <2>5, <4>1, Zenon
      <4>3. QED
        BY <2>1, <2>3, <4>1, <4>2
    <3>3. QED
      BY <3>1, <3>2
  <2>7. Len(Hex(a)) = 2 * Len(a)
    BY <2>1, <2>4, <2>5
  <2>8. \A k \in 1 .. Len(a) : Hex(a)[2 * k - 1] = a[k] \div 16 /\ Hex(a)[2 * k] = a[k] % 16
    BY <2>1, <2>4, <2>6
  <2>9. QED
    BY <2>7, <2>8 DEF a
<1>4. Seq(Octet) \subseteq T
  <2> HIDE DEF Good
  <2>1. << >> \in T
    BY <1>1, <1>2
  <2>2. \A t \in Seq(Octet) : \A b \in Octet : t \in T => Append(t, b) \in T
    BY <1>3
  <2>3. QED
    <3> HIDE DEF T
    <3>1. QED
      BY <2>1, <2>2, SequenceInduction
<1>5. QED
  BY <1>1, <1>4

-----------------------------------------------------------------------------
(* Lines the assembler writes *)
LEMMA ChecksumIsByte ==
    ASSUME NEW bytes \in Seq(Octet)
    PROVE  /\ Total(bytes) \in Int
           /\ Checksum(bytes) = 255 - ((Len(bytes) + 1 + Total(bytes)) % 256)
           /\ Checksum(bytes) \in Octet
<1>1. bytes \in Seq(Int) /\ Len(bytes) \in Nat
  <2>1. Octet \subseteq Int
    BY DEF Octet
  <2>2. bytes \in Seq(Int)
    BY <2>1, SeqMonotonic, Zenon
  <2>3. Len(bytes) \in Nat
    OBVIOUS
  <2>4. QED
    BY <2>2, <2>3
<1>2. Total(bytes) \in Int
  BY <1>1, TotalProperties
<1>3. Checksum(bytes) = 255 - ((Len(bytes) + 1 + Total(bytes)) % 256)
  BY DEF Checksum, Total
<1> DEFINE t == Total(bytes)
           n == Len(bytes)
<1>4. 255 - ((n + 1 + t) % 256) \in 0 .. 255
  <2> HIDE DEF t, n
  <2>1. t \in Int /\ n \in Nat
    BY <1>1, <1>2 DEF t, n
  <2>2. QED
    BY <2>1
<1>5. QED
  BY <1>2, <1>3, <1>4 DEF Octet

(* The bytes of a line: the count, what it counts, the checksum *)
AllBytes(bytes) == << Len(bytes) + 1 >> \o bytes \o << Checksum(bytes) >>

LEMMA AllBytesProperties ==
    ASSUME NEW bytes \in Seq(Octet), Len(bytes) <= 254
    PROVE  /\ AllBytes(bytes) \in Seq(Octet)
           /\ Len(AllBytes(bytes)) = Len(bytes) + 2
           /\ AllBytes(bytes)[1] = Len(bytes) + 1
           /\ \A k \in 1 .. Len(bytes) : AllBytes(bytes)[k + 1] = bytes[k]
           /\ AllBytes(bytes)[Len(bytes) + 2] = Checksum(bytes)
<1> DEFINE n == Len(bytes)
           a == << n + 1 >>
           c == << Checksum(bytes) >>
           ab == a \o bytes
<1>1. n \in Nat /\ n + 1 \in Octet /\ Checksum(bytes) \in Octet
  <2>1. n \in Nat /\ Checksum(bytes) \in Octet
    BY ChecksumIsByte
  <2>2. n + 1 \in 0 .. 255
    <3>1. n <= 254
      OBVIOUS
    <3> HIDE DEF n
    <3>2. QED
      BY <2>1, <3>1
  <2>3. QED
    BY <2>1, <2>2 DEF Octet
<1>2. a \in Seq(Octet) /\ Len(a) = 1 /\ a[1] = n + 1 /\ c \in Seq(Octet) /\ Len(c) = 1 /\ c[1] = Checksum(bytes)
  BY <1>1
<1>3. AllBytes(bytes) = ab \o c
  BY DEF AllBytes
<1> HIDE DEF n, a, c
<1>4. /\ ab \in Seq(Octet) /\ Len(ab) = 1 + n
      /\ \A i \in 1 .. 1 + n : ab[i] = IF i <= 1 THEN a[i] ELSE bytes[i - 1]
  BY <1>1, <1>2, ConcatProperties DEF n
<1> HIDE DEF ab
<1>12. ab \o c \in Seq(Octet)
  BY <1>2, <1>4, ConcatProperties, Zenon
<1>13. Len(ab \o c) = Len(ab) + Len(c)
  <2>1. ab \in Seq(Octet) /\ c \in Seq(Octet)
    BY <1>2, <1>4
  <2>2. QED
    BY <2>1, ConcatProperties, Zenon
<1>5. \A i \in 1 .. Len(ab) + Len(c) : (ab \o c)[i] = IF i <= Len(ab) THEN ab[i] ELSE c[i - Len(ab)]
  <2>1. ab \in Seq(Octet) /\ c \in Seq(Octet)
    BY <1>2, <1>4
  <2>2. QED
    BY <2>1, ConcatProperties, Zenon
<1>6. Len(ab) + Len(c) = n + 2 /\ Len(ab) = n + 1
  BY <1>1, <1>2, <1>4
<1> DEFINE w == ab \o c
<1> HIDE DEF w
<1>7. w \in Seq(Octet) /\ Len(w) = n + 2 /\ \A i \in 1 .. n + 2 : w[i] = IF i <= n + 1 THEN ab[i] ELSE c[i - (n + 1)]
  BY <1>5, <1>6, <1>12, <1>13, Zenon DEF w
<1>8. w[1] = n + 1
  BY <1>1, <1>2, <1>4, <1>7
<1>9. \A k \in 1 .. n : w[k + 1] = bytes[k]
  <2>1. SUFFICES ASSUME NEW k \in 1 .. n
                 PROVE  w[k + 1] = bytes[k]
    OBVIOUS
  <2>2. k + 1 \in 1 .. n + 2 /\ k + 1 <= n + 1 /\ k + 1 \in 1 .. 1 + n /\ ~(k + 1 <= 1) /\ k + 1 - 1 = k
    BY <1>1
  <2>3. w[k + 1] = ab[k + 1]
    BY <1>7, <2>2
  <2>4. ab[k + 1] = bytes[(k + 1) - 1]
    BY <1>4, <2>2
  <2>5. QED
    BY <2>2, <2>3, <2>4
<1>10. w[n + 2] = Checksum(bytes)
  <2>1. n + 2 \in 1 .. n + 2 /\ ~(n + 2 <= n + 1) /\ n + 2 - (n + 1) = 1
    BY <1>1
  <2>2. w[n + 2] = c[(n + 2) - (n + 1)]
    BY <1>7, <2>1
  <2>3. c[(n + 2) - (n + 1)] = c[1]
    <3>1. (n + 2) - (n + 1) = 1
      BY <1>1
    <3>2. QED
      BY <3>1
  <2>4. QED
    BY <1>2, <2>2, <2>3
<1>11. QED
  BY <1>3, <1>7, <1>8, <1>9, <1>10, Zenon DEF w, n

(* The line holds their digits behind its type. *)
IsShaped(line, type, bytes) ==
    /\ line \in Seq(Char)
    /\ Len(line) = 2 * Len(bytes) + 6
    /\ line[1] = S /\ line[2] = type
    /\ \A k \in 0 .. Len(bytes) + 1 :
          /\ line[2 * k + 3] \in Digit /\ line[2 * k + 4] \in Digit
          /\ ByteAt(line, k) = AllBytes(bytes)[k + 1]

LEMMA LineShape ==
    ASSUME NEW type \in 0 .. 9, NEW bytes \in Seq(Octet), Len(bytes) <= 254
    PROVE  IsShaped(LineOf(type, bytes), type, bytes)
<1> DEFINE line == LineOf(type, bytes)
           n == Len(bytes)
           w == AllBytes(bytes)
           h == Hex(w)
           p == << S, type >>
<1>1. n \in Nat /\ w \in Seq(Octet) /\ Len(w) = n + 2
  BY AllBytesProperties
<1>2. /\ h \in Seq(Digit) /\ Len(h) = 2 * (n + 2)
      /\ \A k \in 1 .. n + 2 : h[2 * k - 1] = w[k] \div 16 /\ h[2 * k] = w[k] % 16
  <2> HIDE DEF w, n
  <2>1. QED
    BY <1>1, HexProperties
<1>3. p \in Seq(Char) /\ Len(p) = 2 /\ p[1] = S /\ p[2] = type
  BY DEF S, Char
<1>4. line = p \o h
  BY DEF LineOf, AllBytes
<1> HIDE DEF line, n, w, h, p
<1>5. h \in Seq(Char)
  BY <1>2 DEF Char, Digit
<1>6. /\ p \o h \in Seq(Char) /\ Len(p \o h) = Len(p) + Len(h)
      /\ \A i \in 1 .. Len(p) + Len(h) : (p \o h)[i] = IF i <= Len(p) THEN p[i] ELSE h[i - Len(p)]
  BY <1>3, <1>5, ConcatProperties
<1>7. Len(p) = 2 /\ Len(p) + Len(h) = 2 * n + 6
  BY <1>1, <1>2, <1>3
<1>8. /\ line \in Seq(Char) /\ Len(line) = 2 * n + 6
      /\ \A i \in 1 .. 2 * n + 6 : line[i] = IF i <= 2 THEN p[i] ELSE h[i - 2]
  BY <1>4, <1>6, <1>7, Zenon
<1>9. line[1] = S /\ line[2] = type
  BY <1>1, <1>3, <1>8
<1>10. ASSUME NEW k \in 0 .. n + 1
       PROVE  /\ line[2 * k + 3] \in Digit /\ line[2 * k + 4] \in Digit
              /\ ByteAt(line, k) = w[k + 1]
  <2>1. /\ 2 * k + 3 \in 1 .. 2 * n + 6 /\ 2 * k + 4 \in 1 .. 2 * n + 6
        /\ ~(2 * k + 3 <= 2) /\ ~(2 * k + 4 <= 2)
        /\ 2 * k + 3 - 2 = 2 * (k + 1) - 1 /\ 2 * k + 4 - 2 = 2 * (k + 1)
        /\ k + 1 \in 1 .. n + 2
    BY <1>1
  <2>2. line[2 * k + 3] = h[2 * (k + 1) - 1] /\ line[2 * k + 4] = h[2 * (k + 1)]
    BY <1>8, <2>1
  <2>3. line[2 * k + 3] = w[k + 1] \div 16 /\ line[2 * k + 4] = w[k + 1] % 16
    BY <1>2, <2>1, <2>2
  <2>4. w[k + 1] \in Octet
    BY <1>1, <2>1
  <2>5. ByteAt(line, k) = 16 * (w[k + 1] \div 16) + (w[k + 1] % 16)
    BY <2>3 DEF ByteAt
  <2>6. \A b \in 0 .. 255 : b \div 16 \in 0 .. 15 /\ b % 16 \in 0 .. 15 /\ 16 * (b \div 16) + (b % 16) = b
    OBVIOUS
  <2>7. /\ w[k + 1] \div 16 \in 0 .. 15 /\ w[k + 1] % 16 \in 0 .. 15
        /\ 16 * (w[k + 1] \div 16) + (w[k + 1] % 16) = w[k + 1]
    BY <2>4, <2>6, Zenon DEF Octet
  <2>8. QED
    BY <2>3, <2>5, <2>7, Zenon DEF Digit
<1>11. QED
  BY <1>8, <1>9, <1>10, Zenon DEF IsShaped, line, n, w

(* What the loader sees of such a line *)
IsLine(line, type, bytes) ==
    /\ line \in Seq(Char)
    /\ Len(line) = 2 * Len(bytes) + 6
    /\ CharAt(line, 1) = S /\ CharAt(line, 2) = type /\ line[2] = type
    /\ \A k \in 0 .. Len(bytes) + 1 : HasByte(line, k) /\ ByteAt(line, k) \in Octet
    /\ Count(line) = Len(bytes) + 1
    /\ Payload(line) = bytes
    /\ ByteAt(line, Len(bytes) + 1) = Checksum(bytes)
    /\ IsIntact(line)

LEMMA LineProperties ==
    ASSUME NEW type \in 0 .. 9, NEW bytes \in Seq(Octet), Len(bytes) <= 254
    PROVE  IsLine(LineOf(type, bytes), type, bytes)
<1> DEFINE line == LineOf(type, bytes)
           n == Len(bytes)
           w == AllBytes(bytes)
<1>1. n \in Nat /\ DOMAIN bytes = 1 .. n
  OBVIOUS
<1>2. /\ line \in Seq(Char) /\ Len(line) = 2 * n + 6 /\ line[1] = S /\ line[2] = type
      /\ \A k \in 0 .. n + 1 : /\ line[2 * k + 3] \in Digit /\ line[2 * k + 4] \in Digit
                               /\ ByteAt(line, k) = w[k + 1]
  BY LineShape, Zenon DEF IsShaped
<1>3. /\ w \in Seq(Octet) /\ Len(w) = n + 2 /\ w[1] = n + 1
      /\ \A k \in 1 .. n : w[k + 1] = bytes[k]
      /\ w[n + 2] = Checksum(bytes)
  BY AllBytesProperties
<1> HIDE DEF line, n, w
<1>4. DOMAIN line = 1 .. 2 * n + 6
  BY <1>2
<1>5. \A i \in 1 .. 2 * n + 6 : CharAt(line, i) = line[i]
  BY <1>4 DEF CharAt
<1>6. CharAt(line, 1) = S /\ CharAt(line, 2) = type
  BY <1>1, <1>2, <1>5
<1>7. ASSUME NEW k \in 0 .. n + 1
      PROVE  HasByte(line, k) /\ ByteAt(line, k) \in Octet
  <2>1. 2 * k + 3 \in 1 .. 2 * n + 6 /\ 2 * k + 4 \in 1 .. 2 * n + 6 /\ k + 1 \in 1 .. n + 2
    BY <1>1
  <2>2. HasByte(line, k)
    BY <1>2, <1>5, <2>1 DEF HasByte
  <2>3. QED
    BY <1>2, <1>3, <2>1, <2>2
<1>8. Count(line) = n + 1
  BY <1>1, <1>2, <1>3 DEF Count
<1>9. Payload(line) = bytes
  <2>1. n + 1 - 1 = n /\ \A k \in 1 .. n : k \in 0 .. n + 1
    BY <1>1
  <2>2. Payload(line) = [k \in 1 .. n |-> bytes[k]]
    <3>1. Count(line) - 1 = n /\ \A k \in 1 .. n : ByteAt(line, k) = bytes[k]
      <4>1. Count(line) - 1 = n
        BY <1>1, <1>8
      <4>2. \A k \in 1 .. n : ByteAt(line, k) = bytes[k]
        BY <1>2, <1>3, <2>1, Zenon
      <4>3. QED
        BY <4>1, <4>2
    <3>2. QED
      BY <3>1 DEF Payload
  <2>3. QED
    BY <1>1, <2>2
<1>10. ByteAt(line, n + 1) = Checksum(bytes)
  <2>1. n + 1 \in 0 .. n + 1 /\ n + 1 + 1 = n + 2
    BY <1>1
  <2>2. QED
    BY <1>2, <1>3, <2>1
<1>11. IsIntact(line)
  <2>1. n + 1 # 0 /\ 0 \in 0 .. n + 1 /\ \A k \in 1 .. n + 1 : k \in 0 .. n + 1
    BY <1>1
  <2>2. QED
    BY <1>6, <1>7, <1>8, <1>9, <1>10, <2>1 DEF IsIntact
<1>12. QED
  BY <1>2, <1>6, <1>7, <1>8, <1>9, <1>10, <1>11, Zenon DEF IsLine, line, n

-----------------------------------------------------------------------------
(* The sum the loader makes of a line *)
ByteList(line, m) == [k \in 1 .. m |-> ByteAt(line, k)]

LEMMA IntactSum ==
    ASSUME NEW line, NEW n \in Nat, Count(line) = n + 1,
           \A k \in 1 .. n + 1 : ByteAt(line, k) \in Octet,
           IsIntact(line)
    PROVE  /\ Total(ByteList(line, n + 1)) \in Int
           /\ (n + 1 + Total(ByteList(line, n + 1))) % 256 = 255
<1> DEFINE p == [k \in 1 .. n |-> ByteAt(line, k)]
           e == ByteAt(line, n + 1)
           t == Total(p)
<1>1. e \in Octet /\ \A k \in 1 .. n : ByteAt(line, k) \in Octet
  OBVIOUS
<1>2. p \in Seq(Octet) /\ Len(p) = n
  BY <1>1
<1>3. ByteList(line, n + 1) = Append(p, e)
  <2>1. \A k \in 1 .. n + 1 : k = n + 1 \/ k \in 1 .. n
    OBVIOUS
  <2>2. Append(p, e) = [k \in 1 .. n + 1 |-> IF k = n + 1 THEN e ELSE p[k]]
    BY <1>2
  <2>3. \A k \in 1 .. n + 1 : ByteAt(line, k) = IF k = n + 1 THEN e ELSE p[k]
    BY <2>1
  <2>4. QED
    <3> HIDE DEF p, e
    <3>1. QED
      BY <2>2, <2>3 DEF ByteList
<1>4. Payload(line) = p
  <2>1. Count(line) - 1 = n
    OBVIOUS
  <2>2. QED
    BY <2>1, Zenon DEF Payload
<1>5. e = Checksum(p)
  <2>1. Count(line) # 0
    OBVIOUS
  <2>2. ByteAt(line, Count(line)) = Checksum(Payload(line))
    BY <2>1 DEF IsIntact
  <2>3. QED
    <3> HIDE DEF p
    <3>1. QED
      BY <1>4, <2>2, Zenon
<1> HIDE DEF p
<1>6. t \in Int /\ Checksum(p) = 255 - ((n + 1 + t) % 256)
  BY <1>2, ChecksumIsByte
<1>7. Total(Append(p, e)) = t + e
  <2>1. p \in Seq(Int) /\ e \in Int
    <3>1. Octet \subseteq Int
      BY DEF Octet
    <3>2. p \in Seq(Int)
      BY <1>2, <3>1, SeqMonotonic, Zenon
    <3>3. QED
      BY <1>1, <3>1, <3>2
  <2>2. QED
    BY <2>1, TotalProperties
<1> HIDE DEF t, e
<1>8. Total(ByteList(line, n + 1)) = t + (255 - ((n + 1 + t) % 256))
  BY <1>3, <1>5, <1>6, <1>7, Zenon
<1>9. QED
  BY <1>6, <1>8

(* A sum that differs by less than a byte *)
LEMMA SumDiffers ==
    ASSUME NEW line, NEW n \in Nat, Count(line) = n + 1,
           \A k \in 1 .. n + 1 : ByteAt(line, k) \in Octet, IsIntact(line),
           NEW d, Count(d) = n + 1, \A k \in 1 .. n + 1 : ByteAt(d, k) \in Octet,
           NEW z \in -240 .. 240, z # 0,
           Total(ByteList(d, n + 1)) = Total(ByteList(line, n + 1)) + z
    PROVE  ~IsIntact(d)
<1> DEFINE x == Total(ByteList(line, n + 1))
           y == Total(ByteList(d, n + 1))
<1>1. x \in Int /\ (n + 1 + x) % 256 = 255
  BY IntactSum, Zenon
<1>2. SUFFICES ASSUME IsIntact(d) PROVE FALSE
  OBVIOUS
<1>3. y \in Int /\ (n + 1 + y) % 256 = 255
  BY <1>2, IntactSum, Zenon
<1>4. y = x + z
  OBVIOUS
<1> HIDE DEF x, y
<1>5. QED
  BY <1>1, <1>3, <1>4

(* Sequences that differ in one place, or in two neighbouring ones *)
LEMMA TotalOfChange ==
    ASSUME NEW s \in Seq(Int), NEW t \in Seq(Int), Len(t) = Len(s), NEW k \in 1 .. Len(s),
           \A j \in 1 .. Len(s) : j # k => t[j] = s[j]
    PROVE  Total(t) = Total(s) - s[k] + t[k]
<1> DEFINE u == [s EXCEPT ![k] = t[k]]
<1>1. t[k] \in Int
  OBVIOUS
<1>2. u \in Seq(Int) /\ Len(u) = Len(s) /\ \A j \in 1 .. Len(s) : u[j] = IF j = k THEN t[k] ELSE s[j]
  BY <1>1, ExceptSeq
<1>3. u = t
  <2> HIDE DEF u
  <2>1. \A j \in 1 .. Len(u) : u[j] = t[j]
    BY <1>2
  <2>2. QED
    BY <1>2, <2>1, SeqEqual
<1>4. Total(u) = Total(s) - s[k] + t[k]
  BY <1>1, TotalOfExcept, Zenon
<1>5. QED
  <2> HIDE DEF u
  <2>1. QED
    BY <1>3, <1>4

LEMMA TotalOfTwoChanges ==
    ASSUME NEW s \in Seq(Int), NEW t \in Seq(Int), Len(t) = Len(s), NEW k \in 1 .. Len(s) - 1,
           \A j \in 1 .. Len(s) : j \notin {k, k + 1} => t[j] = s[j]
    PROVE  Total(t) = Total(s) - s[k] + t[k] - s[k + 1] + t[k + 1]
<1> DEFINE u == [s EXCEPT ![k] = t[k]]
<1>1. t[k] \in Int /\ s[k] \in Int /\ s[k + 1] \in Int /\ t[k + 1] \in Int
      /\ k \in 1 .. Len(s) /\ k + 1 \in 1 .. Len(s) /\ k + 1 # k
  OBVIOUS
<1>2. u \in Seq(Int) /\ Len(u) = Len(s) /\ \A j \in 1 .. Len(s) : u[j] = IF j = k THEN t[k] ELSE s[j]
  BY <1>1, ExceptSeq
<1> HIDE DEF u
<1>3. Total(u) = Total(s) - s[k] + t[k]
  <2>1. \A j \in 1 .. Len(s) : j # k => u[j] = s[j]
    BY <1>2
  <2>2. u[k] = t[k]
    BY <1>1, <1>2
  <2>3. QED
    BY <1>1, <1>2, <2>1, <2>2, TotalOfChange
<1>4. Total(t) = Total(u) - u[k + 1] + t[k + 1]
  <2>1. \A j \in 1 .. Len(u) : j # k + 1 => t[j] = u[j]
    BY <1>2
  <2>2. QED
    BY <1>1, <1>2, <2>1, TotalOfChange
<1>5. u[k + 1] = s[k + 1]
  BY <1>1, <1>2
<1>6. Total(s) \in Int
  BY TotalProperties
<1> DEFINE v == Total(s)
           w == Total(u)
           x == Total(t)
           a == s[k]
           b == t[k]
           c == s[k + 1]
           e == t[k + 1]
<1>7. /\ v \in Int /\ a \in Int /\ b \in Int /\ c \in Int /\ e \in Int
      /\ w = v - a + b /\ x = w - c + e
  BY <1>1, <1>3, <1>4, <1>5, <1>6, Zenon
<1> HIDE DEF v, w, x, a, b, c, e
<1>8. x = v - a + b - c + e
  BY <1>7
<1>9. QED
  BY <1>8 DEF v, x, a, b, c, e

-----------------------------------------------------------------------------
(* What the proofs about damaged lines use of a line of n bytes *)
IsSound(line, n) ==
    /\ line \in Seq(Char) /\ Len(line) = 2 * n + 6
    /\ \A k \in 0 .. n + 1 : /\ line[2 * k + 3] \in Digit /\ line[2 * k + 4] \in Digit
                             /\ ByteAt(line, k) \in Octet
    /\ Count(line) = n + 1
    /\ IsIntact(line)

LEMMA LineIsSound ==
    ASSUME NEW type \in 0 .. 9, NEW bytes \in Seq(Octet), Len(bytes) <= 254
    PROVE  IsSound(LineOf(type, bytes), Len(bytes))
<1> DEFINE line == LineOf(type, bytes)
           n == Len(bytes)
<1>1. IsLine(line, type, bytes) /\ IsShaped(line, type, bytes)
  BY LineProperties, LineShape, Zenon
<1> HIDE DEF line
<1>2. QED
  BY <1>1, Zenon DEF IsSound, IsLine, IsShaped, line

(* A line as long, with the same count and digits behind it *)
LEMMA SameCount ==
    ASSUME NEW line, NEW n \in Nat, IsSound(line, n),
           NEW d \in Seq(Char), Len(d) = Len(line), d[3] = line[3], d[4] = line[4]
    PROVE  Count(d) = n + 1 /\ \A i \in 1 .. 2 * n + 6 : CharAt(d, i) = d[i]
<1>1. Count(d) = 16 * d[3] + d[4] /\ Count(line) = 16 * line[3] + line[4]
  <2>1. 2 * 0 + 3 = 3 /\ 2 * 0 + 4 = 4
    OBVIOUS
  <2>2. QED
    BY <2>1, Zenon DEF Count, ByteAt
<1>2. Count(d) = n + 1
  BY <1>1, Zenon DEF IsSound
<1>3. DOMAIN d = 1 .. 2 * n + 6
  <2>1. Len(line) = 2 * n + 6
    BY DEF IsSound
  <2>2. QED
    BY <2>1
<1>4. QED
  BY <1>2, <1>3, Zenon DEF CharAt

(* A byte that lost a digit *)
LEMMA NoByteRefused ==
    ASSUME NEW line, NEW n \in Nat, Count(line) = n + 1,
           NEW k \in 1 .. n + 1, CharAt(line, 2 * k + 3) \notin Digit \/ CharAt(line, 2 * k + 4) \notin Digit
    PROVE  ~IsIntact(line)
<1>1. ~HasByte(line, k)
  BY DEF HasByte
<1>2. k \in 1 .. Count(line)
  OBVIOUS
<1>3. QED
  BY <1>1, <1>2, Zenon DEF IsIntact

(* Two digits make a byte. *)
LEMMA ByteOfDigits ==
    ASSUME NEW line, NEW k, line[2 * k + 3] \in Digit, line[2 * k + 4] \in Digit
    PROVE  ByteAt(line, k) \in Octet
<1> DEFINE a == line[2 * k + 3]
           b == line[2 * k + 4]
<1>1. a \in 0 .. 15 /\ b \in 0 .. 15
  BY DEF Digit
<1> HIDE DEF a, b
<1>2. 16 * a + b \in 0 .. 255
  BY <1>1
<1>3. QED
  BY <1>2 DEF a, b, ByteAt, Octet

LEMMA RetypedRefused ==
    ASSUME NEW line, NEW n \in Nat, IsSound(line, n), NEW i \in 5 .. Len(line), NEW c \in Char,
           Retyped(line, i, c) # line
    PROVE  ~IsIntact(Retyped(line, i, c))
<1> DEFINE d == Retyped(line, i, c)
<1>1. /\ line \in Seq(Char) /\ Len(line) = 2 * n + 6 /\ Count(line) = n + 1
      /\ \A k \in 0 .. n + 1 : line[2 * k + 3] \in Digit /\ line[2 * k + 4] \in Digit
      /\ \A k \in 0 .. n + 1 : ByteAt(line, k) \in Octet
  BY DEF IsSound
<1>2. /\ d \in Seq(Char) /\ Len(d) = Len(line)
      /\ \A j \in 1 .. 2 * n + 6 : d[j] = IF j = i THEN c ELSE line[j]
  <2>1. i \in 1 .. Len(line)
    BY <1>1
  <2>2. QED
    BY <1>1, <2>1, ExceptSeq DEF Retyped
<1>0. d # line
  OBVIOUS
<1> HIDE DEF d
<1>3. c # line[i]
  <2>1. SUFFICES ASSUME c = line[i]
                 PROVE  FALSE
    OBVIOUS
  <2>2. \A j \in 1 .. Len(d) : d[j] = line[j]
    BY <1>1, <1>2, <2>1
  <2>3. QED
    BY <1>0, <1>1, <1>2, <2>2, SeqEqual
<1>4. /\ Count(d) = n + 1 /\ \A j \in 1 .. 2 * n + 6 : CharAt(d, j) = d[j]
  <2>1. d[3] = line[3] /\ d[4] = line[4]
    BY <1>1, <1>2
  <2>2. QED
    BY <1>2, <2>1, SameCount, Zenon
<1>5. PICK k \in 1 .. n + 1 : i = 2 * k + 3 \/ i = 2 * k + 4
  <2>1. (i - 3) \div 2 \in 1 .. n + 1 /\ (i = 2 * ((i - 3) \div 2) + 3 \/ i = 2 * ((i - 3) \div 2) + 4)
    BY <1>1
  <2>2. QED
    BY <2>1
<1>6. /\ 2 * k + 3 \in 1 .. 2 * n + 6 /\ 2 * k + 4 \in 1 .. 2 * n + 6 /\ 2 * k + 3 # 2 * k + 4
      /\ i \in 1 .. 2 * n + 6 /\ k \in 0 .. n + 1
  BY <1>1
<1>7. CASE c \notin Digit
  <2>1. d[i] = c /\ CharAt(d, i) = c
    BY <1>2, <1>4, <1>6
  <2>2. CharAt(d, 2 * k + 3) \notin Digit \/ CharAt(d, 2 * k + 4) \notin Digit
    BY <1>5, <1>7, <2>1, Zenon
  <2>3. QED
    BY <1>4, <2>2, NoByteRefused DEF d
<1>8. CASE c \in Digit
  <2> DEFINE z == IF i = 2 * k + 3 THEN 16 * (c - line[i]) ELSE c - line[i]
             s == ByteList(line, n + 1)
             t == ByteList(d, n + 1)
  <2>1. c \in 0 .. 15 /\ line[i] \in 0 .. 15 /\ line[2 * k + 3] \in 0 .. 15 /\ line[2 * k + 4] \in 0 .. 15
    BY <1>1, <1>5, <1>6, <1>8 DEF Digit
  <2>2. z \in -240 .. 240 /\ z # 0
    <3> DEFINE x == line[i]
    <3>1. x \in 0 .. 15 /\ c # x
      BY <1>3, <2>1
    <3> HIDE DEF x
    <3>2. 16 * (c - x) \in -240 .. 240 /\ c - x \in -240 .. 240 /\ 16 * (c - x) # 0 /\ c - x # 0
      BY <2>1, <3>1
    <3>3. QED
      BY <3>2 DEF x
  <2>3. ByteAt(d, k) = ByteAt(line, k) + z
    <3>1. CASE i = 2 * k + 3
      <4>1. d[2 * k + 3] = c /\ d[2 * k + 4] = line[2 * k + 4] /\ line[i] = line[2 * k + 3]
        BY <1>2, <1>6, <3>1
      <4>2. ByteAt(d, k) = 16 * c + line[2 * k + 4] /\ ByteAt(line, k) = 16 * line[2 * k + 3] + line[2 * k + 4]
            /\ z = 16 * (c - line[2 * k + 3])
        BY <3>1, <4>1, Zenon DEF ByteAt
      <4> DEFINE p == ByteAt(d, k)
                 q == ByteAt(line, k)
                 x == line[2 * k + 3]
                 y == line[2 * k + 4]
      <4>3. p = 16 * c + y /\ q = 16 * x + y /\ z = 16 * (c - x)
            /\ x \in 0 .. 15 /\ y \in 0 .. 15 /\ c \in 0 .. 15
        BY <2>1, <4>2, Zenon
      <4> HIDE DEF p, q, x, y, z
      <4>4. p = q + z
        BY <4>3
      <4>5. QED
        BY <4>4 DEF p, q
    <3>2. CASE i = 2 * k + 4
      <4>1. d[2 * k + 4] = c /\ d[2 * k + 3] = line[2 * k + 3] /\ line[i] = line[2 * k + 4]
        BY <1>2, <1>6, <3>2
      <4>2. ByteAt(d, k) = 16 * line[2 * k + 3] + c /\ ByteAt(line, k) = 16 * line[2 * k + 3] + line[2 * k + 4]
            /\ z = c - line[2 * k + 4]
        BY <1>6, <3>2, <4>1, Zenon DEF ByteAt
      <4> DEFINE p == ByteAt(d, k)
                 q == ByteAt(line, k)
                 x == line[2 * k + 3]
                 y == line[2 * k + 4]
      <4>3. p = 16 * x + c /\ q = 16 * x + y /\ z = c - y
            /\ x \in 0 .. 15 /\ y \in 0 .. 15 /\ c \in 0 .. 15
        BY <2>1, <4>2, Zenon
      <4> HIDE DEF p, q, x, y, z
      <4>4. p = q + z
        BY <4>3
      <4>5. QED
        BY <4>4 DEF p, q
    <3>3. QED
      BY <1>5, <3>1, <3>2
  <2> HIDE DEF z
  <2>4. ASSUME NEW j \in 1 .. n + 1, j # k
        PROVE  ByteAt(d, j) = ByteAt(line, j)
    <3>1. 2 * j + 3 \in 1 .. 2 * n + 6 /\ 2 * j + 4 \in 1 .. 2 * n + 6 /\ 2 * j + 3 # i /\ 2 * j + 4 # i
      BY <1>5, <2>4
    <3>2. d[2 * j + 3] = line[2 * j + 3] /\ d[2 * j + 4] = line[2 * j + 4]
      BY <1>2, <3>1
    <3>3. QED
      BY <3>2, Zenon DEF ByteAt
  <2>5. \A j \in 1 .. n + 1 : ByteAt(line, j) \in Octet /\ ByteAt(d, j) \in Octet
    <3>1. ByteAt(d, k) \in Octet
      <4>1. d[2 * k + 3] \in Digit /\ d[2 * k + 4] \in Digit
        BY <1>1, <1>2, <1>6, <1>8
      <4>2. QED
        BY <4>1, ByteOfDigits
    <3>2. \A j \in 1 .. n + 1 : j \in 0 .. n + 1
      OBVIOUS
    <3>3. QED
      BY <1>1, <2>4, <3>1, <3>2
  <2>6. /\ s \in Seq(Int) /\ t \in Seq(Int) /\ Len(s) = n + 1 /\ Len(t) = n + 1
        /\ \A j \in 1 .. n + 1 : s[j] = ByteAt(line, j) /\ t[j] = ByteAt(d, j)
    <3>1. \A j \in 1 .. n + 1 : ByteAt(line, j) \in Int /\ ByteAt(d, j) \in Int
      <4>1. Octet \subseteq Int
        BY DEF Octet
      <4>2. QED
        BY <2>5, <4>1, Zenon
    <3>2. QED
      BY <3>1 DEF ByteList
  <2> HIDE DEF s, t
  <2>7. Total(t) = Total(s) - s[k] + t[k]
    <3>1. k \in 1 .. Len(s) /\ Len(t) = Len(s) /\ \A j \in 1 .. Len(s) : j # k => t[j] = s[j]
      BY <2>4, <2>6
    <3>2. QED
      BY <2>6, <3>1, TotalOfChange
  <2>8. Total(t) = Total(s) + z
    <3>1. s[k] = ByteAt(line, k) /\ t[k] = ByteAt(line, k) + z /\ ByteAt(line, k) \in Int
      BY <2>3, <2>5, <2>6 DEF Octet
    <3>2. Total(s) \in Int
      BY <2>6, TotalProperties
    <3>3. QED
      BY <2>2, <2>7, <3>1, <3>2
  <2>9. IsIntact(line)
    BY DEF IsSound
  <2>10. Total(ByteList(d, n + 1)) = Total(ByteList(line, n + 1)) + z
    BY <2>8 DEF s, t
  <2>11. ~IsIntact(d)
    BY <1>1, <1>4, <2>2, <2>5, <2>9, <2>10, SumDiffers, Zenon
  <2>12. QED
    BY <2>11 DEF d
<1>9. QED
  BY <1>7, <1>8

LEMMA SwappedRefused ==
    ASSUME NEW line, NEW n \in Nat, IsSound(line, n), NEW i \in 5 .. Len(line) - 1,
           Swapped(line, i) # line
    PROVE  ~IsIntact(Swapped(line, i))
<1> DEFINE d == Swapped(line, i)
           s == ByteList(line, n + 1)
           t == ByteList(d, n + 1)
<1>1. /\ line \in Seq(Char) /\ Len(line) = 2 * n + 6 /\ Count(line) = n + 1
      /\ \A k \in 0 .. n + 1 : line[2 * k + 3] \in Digit /\ line[2 * k + 4] \in Digit
      /\ \A k \in 0 .. n + 1 : ByteAt(line, k) \in Octet
  BY DEF IsSound
<1>2. /\ d \in Seq(Char) /\ Len(d) = Len(line)
      /\ \A j \in 1 .. 2 * n + 6 : d[j] = IF j = i THEN line[i + 1] ELSE IF j = i + 1 THEN line[i] ELSE line[j]
  <2> DEFINE e == [line EXCEPT ![i] = line[i + 1]]
  <2>1. i \in 1 .. Len(line) /\ i + 1 \in 1 .. Len(line) /\ line[i] \in Char /\ line[i + 1] \in Char
    BY <1>1
  <2>2. e \in Seq(Char) /\ Len(e) = Len(line) /\ \A j \in 1 .. Len(line) : e[j] = IF j = i THEN line[i + 1] ELSE line[j]
    BY <1>1, <2>1, ExceptSeq
  <2>3. d = [e EXCEPT ![i + 1] = line[i]]
    BY DEF Swapped
  <2> HIDE DEF d, e
  <2>4. i + 1 \in 1 .. Len(e)
    BY <2>1, <2>2
  <2>5. d \in Seq(Char) /\ Len(d) = Len(e) /\ \A j \in 1 .. Len(e) : d[j] = IF j = i + 1 THEN line[i] ELSE e[j]
    BY <2>1, <2>2, <2>3, <2>4, ExceptSeq
  <2>6. QED
    BY <1>1, <2>2, <2>5
<1>0. d # line
  OBVIOUS
<1> HIDE DEF d
<1>3. line[i + 1] # line[i]
  <2>1. SUFFICES ASSUME line[i + 1] = line[i]
                 PROVE  FALSE
    OBVIOUS
  <2>2. \A j \in 1 .. Len(d) : d[j] = line[j]
    BY <1>1, <1>2, <2>1
  <2>3. QED
    BY <1>0, <1>1, <1>2, <2>2, SeqEqual
<1>4. Count(d) = n + 1
  <2>1. d[3] = line[3] /\ d[4] = line[4]
    BY <1>1, <1>2
  <2>2. QED
    BY <1>2, <2>1, SameCount, Zenon
<1>5. \A j \in 3 .. 2 * n + 6 : line[j] \in 0 .. 15 /\ d[j] \in 0 .. 15
  <2>1. ASSUME NEW j \in 3 .. 2 * n + 6
        PROVE  line[j] \in Digit
    <3>1. /\ (j - 3) \div 2 \in 0 .. n + 1
          /\ (j = 2 * ((j - 3) \div 2) + 3 \/ j = 2 * ((j - 3) \div 2) + 4)
      OBVIOUS
    <3>2. QED
      BY <1>1, <3>1, Zenon
  <2>2. i \in 3 .. 2 * n + 6 /\ i + 1 \in 3 .. 2 * n + 6 /\ 3 .. 2 * n + 6 \subseteq 1 .. 2 * n + 6
    BY <1>1
  <2>3. \A j \in 3 .. 2 * n + 6 : d[j] \in Digit
    BY <1>2, <2>1, <2>2
  <2>4. QED
    BY <2>1, <2>3 DEF Digit
<1>6. \A j \in 1 .. n + 1 : ByteAt(line, j) \in Octet /\ ByteAt(d, j) \in Octet
  <2>1. SUFFICES ASSUME NEW j \in 1 .. n + 1
                 PROVE  ByteAt(line, j) \in Octet /\ ByteAt(d, j) \in Octet
    OBVIOUS
  <2>2. 2 * j + 3 \in 3 .. 2 * n + 6 /\ 2 * j + 4 \in 3 .. 2 * n + 6
    OBVIOUS
  <2>3. /\ line[2 * j + 3] \in Digit /\ line[2 * j + 4] \in Digit
        /\ d[2 * j + 3] \in Digit /\ d[2 * j + 4] \in Digit
    BY <1>5, <2>2, Zenon DEF Digit
  <2>4. QED
    BY <2>3, ByteOfDigits
<1>7. /\ s \in Seq(Int) /\ t \in Seq(Int) /\ Len(s) = n + 1 /\ Len(t) = n + 1
      /\ \A j \in 1 .. n + 1 : s[j] = ByteAt(line, j) /\ t[j] = ByteAt(d, j)
  <2>1. \A j \in 1 .. n + 1 : ByteAt(line, j) \in Int /\ ByteAt(d, j) \in Int
    <3>1. Octet \subseteq Int
      BY DEF Octet
    <3>2. QED
      BY <1>6, <3>1, Zenon
  <2>2. QED
    BY <2>1 DEF ByteList
<1>8. \A j \in 1 .. n + 1 : {2 * j + 3, 2 * j + 4} \cap {i, i + 1} = {} => t[j] = s[j]
  <2>1. SUFFICES ASSUME NEW j \in 1 .. n + 1, {2 * j + 3, 2 * j + 4} \cap {i, i + 1} = {}
                 PROVE  t[j] = s[j]
    OBVIOUS
  <2>6. 2 * j + 3 \in 1 .. 2 * n + 6 /\ 2 * j + 4 \in 1 .. 2 * n + 6
    OBVIOUS
  <2>7. 2 * j + 3 # i /\ 2 * j + 3 # i + 1 /\ 2 * j + 4 # i /\ 2 * j + 4 # i + 1
    BY <2>1, Zenon
  <2>2. /\ 2 * j + 3 \in 1 .. 2 * n + 6 /\ 2 * j + 4 \in 1 .. 2 * n + 6
        /\ 2 * j + 3 # i /\ 2 * j + 3 # i + 1 /\ 2 * j + 4 # i /\ 2 * j + 4 # i + 1
    BY <2>6, <2>7, Zenon
  <2>3. d[2 * j + 3] = line[2 * j + 3] /\ d[2 * j + 4] = line[2 * j + 4]
    BY <1>2, <2>2
  <2>4. ByteAt(d, j) = ByteAt(line, j)
    BY <2>3, Zenon DEF ByteAt
  <2>5. QED
    BY <1>7, <2>4, Zenon
<1> HIDE DEF s, t
<1>9. \E z \in -240 .. 240 : z # 0 /\ Total(t) = Total(s) + z
  <2> DEFINE a == line[i]
             b == line[i + 1]
  <2>1. a \in 0 .. 15 /\ b \in 0 .. 15 /\ a # b
    BY <1>1, <1>3, <1>5
  <2>2. d[i] = b /\ d[i + 1] = a
    BY <1>1, <1>2
  <2> HIDE DEF a, b
  <2>3. Total(s) \in Int
    BY <1>7, TotalProperties
  <2>4. CASE i % 2 = 1
    <3> DEFINE k == (i - 3) \div 2
    <3>1. k \in 1 .. n + 1 /\ i = 2 * k + 3 /\ i + 1 = 2 * k + 4
      BY <1>1, <2>4
    <3> HIDE DEF k
    <3>2. s[k] = 16 * a + b /\ t[k] = 16 * b + a
      BY <1>7, <2>2, <3>1, Zenon DEF ByteAt, a, b
    <3>3. Total(t) = Total(s) - s[k] + t[k]
      <4>1. \A j \in 1 .. Len(s) : j # k => t[j] = s[j]
        <5>1. SUFFICES ASSUME NEW j \in 1 .. n + 1, j # k
                       PROVE  {2 * j + 3, 2 * j + 4} \cap {i, i + 1} = {}
          BY <1>7, <1>8
        <5>2. QED
          BY <3>1, <5>1
      <4>2. k \in 1 .. Len(s) /\ Len(t) = Len(s)
        BY <1>7, <3>1
      <4>3. QED
        BY <1>7, <4>1, <4>2, TotalOfChange
    <3>4. 15 * (b - a) \in -240 .. 240 /\ 15 * (b - a) # 0
      BY <2>1
    <3>5. \A x \in Int : x - (16 * a + b) + (16 * b + a) = x + 15 * (b - a)
      BY <2>1
    <3>6. Total(t) = Total(s) + 15 * (b - a)
      BY <2>3, <3>2, <3>3, <3>5, Zenon
    <3>7. QED
      BY <3>4, <3>6, Zenon
  <2>5. CASE i % 2 = 0
    <3> DEFINE k == (i - 4) \div 2
               x == line[2 * k + 3]
               y == line[2 * (k + 1) + 4]
    <3>1. k \in 1 .. n /\ i = 2 * k + 4 /\ i + 1 = 2 * (k + 1) + 3 /\ k \in 1 .. n + 1 /\ k + 1 \in 1 .. n + 1
      BY <1>1, <2>5
    <3> HIDE DEF k
    <3>2. /\ 2 * k + 3 \in 1 .. 2 * n + 6 /\ 2 * k + 3 \notin {i, i + 1}
          /\ 2 * (k + 1) + 4 \in 1 .. 2 * n + 6 /\ 2 * (k + 1) + 4 \notin {i, i + 1}
          /\ 2 * k + 3 \in 3 .. 2 * n + 6 /\ 2 * (k + 1) + 4 \in 3 .. 2 * n + 6
      BY <3>1
    <3>3. d[2 * k + 3] = x /\ d[2 * (k + 1) + 4] = y /\ x \in 0 .. 15 /\ y \in 0 .. 15
      BY <1>2, <1>5, <3>2
    <3> HIDE DEF x, y
    <3>4. s[k] = 16 * x + a /\ t[k] = 16 * x + b /\ s[k + 1] = 16 * b + y /\ t[k + 1] = 16 * a + y
      BY <1>7, <2>2, <3>1, <3>3, Zenon DEF ByteAt, a, b, x, y
    <3>5. Total(t) = Total(s) - s[k] + t[k] - s[k + 1] + t[k + 1]
      <4>1. \A j \in 1 .. Len(s) : j \notin {k, k + 1} => t[j] = s[j]
        <5>1. SUFFICES ASSUME NEW j \in 1 .. n + 1, j \notin {k, k + 1}
                       PROVE  {2 * j + 3, 2 * j + 4} \cap {i, i + 1} = {}
          BY <1>7, <1>8
        <5>2. QED
          BY <3>1, <5>1
      <4>2. k \in 1 .. Len(s) - 1 /\ Len(t) = Len(s)
        BY <1>7, <3>1
      <4>3. QED
        BY <1>7, <4>1, <4>2, TotalOfTwoChanges
    <3>6. 15 * (a - b) \in -240 .. 240 /\ 15 * (a - b) # 0
      BY <2>1
    <3>7. \A v \in Int : v - (16 * x + a) + (16 * x + b) - (16 * b + y) + (16 * a + y) = v + 15 * (a - b)
      BY <2>1, <3>3
    <3>8. Total(t) = Total(s) + 15 * (a - b)
      BY <2>3, <3>4, <3>5, <3>7, Zenon
    <3>9. QED
      BY <3>6, <3>8, Zenon
  <2>6. i % 2 \in {0, 1}
    BY <1>1
  <2>7. QED
    BY <2>4, <2>5, <2>6
<1>10. IsIntact(line) /\ \A k \in 1 .. n + 1 : ByteAt(line, k) \in Octet
  BY <1>6 DEF IsSound
<1>11. PICK z \in -240 .. 240 : z # 0 /\ Total(ByteList(d, n + 1)) = Total(ByteList(line, n + 1)) + z
  BY <1>9 DEF s, t
<1>12. ~IsIntact(d)
  BY <1>1, <1>4, <1>6, <1>10, <1>11, SumDiffers, Zenon
<1>13. QED
  BY <1>12 DEF d

LEMMA CutRefused ==
    ASSUME NEW line, NEW n \in Nat, IsSound(line, n), NEW i \in 0 .. Len(line) - 1
    PROVE  ~IsIntact(SubSeq(line, 1, i))
<1> DEFINE d == SubSeq(line, 1, i)
<1>1. line \in Seq(Char) /\ Len(line) = 2 * n + 6 /\ Count(line) = n + 1
  BY DEF IsSound
<1>2. d \in Seq(Char) /\ Len(d) = i /\ \A j \in 1 .. i : d[j] = line[j]
  <2>1. \A j \in 1 .. i : line[j] \in Char
    BY <1>1
  <2>2. 1 \in Int /\ i \in Int /\ i - 1 + 1 = i /\ (IF 1 <= i THEN i - 1 + 1 ELSE 0) = i
    BY <1>1
  <2>3. /\ d \in Seq(Char) /\ Len(d) = (IF 1 <= i THEN i - 1 + 1 ELSE 0)
        /\ \A j \in 1 .. i - 1 + 1 : d[j] = line[1 + j - 1]
    BY <2>1, <2>2, SubSeqProperties
  <2>4. \A j \in 1 .. i : 1 + j - 1 = j
    BY <2>2
  <2>5. QED
    <3> HIDE DEF d
    <3>1. QED
      BY <2>2, <2>3, <2>4
<1> HIDE DEF d
<1>3. DOMAIN d = 1 .. i
  BY <1>2
<1>4. \A j \in 1 .. 2 * n + 6 : j > i => CharAt(d, j) \notin Digit
  BY <1>1, <1>3 DEF CharAt, Other, Digit
<1>5. CASE i < 4
  <2>1. CharAt(d, 4) \notin Digit /\ 2 * 0 + 4 = 4
    BY <1>1, <1>4, <1>5
  <2>2. CharAt(d, 2 * 0 + 4) \notin Digit
    BY <2>1
  <2>3. ~HasByte(d, 0)
    BY <2>2 DEF HasByte
  <2>4. QED
    BY <2>3 DEF IsIntact, d
<1>6. CASE i >= 4
  <2>1. d[3] = line[3] /\ d[4] = line[4]
    BY <1>1, <1>2, <1>6
  <2>2. 2 * 0 + 3 = 3 /\ 2 * 0 + 4 = 4
    OBVIOUS
  <2>3. Count(d) = n + 1
    BY <1>1, <2>1, <2>2, Zenon DEF Count, ByteAt
  <2>4. CharAt(d, 2 * (n + 1) + 4) \notin Digit
    <3>1. 2 * (n + 1) + 4 \in 1 .. 2 * n + 6 /\ 2 * (n + 1) + 4 > i
      BY <1>1
    <3>2. QED
      BY <1>4, <3>1, Zenon
  <2>5. n + 1 \in 1 .. n + 1
    OBVIOUS
  <2>6. ~IsIntact(d)
    BY <2>3, <2>4, <2>5, NoByteRefused
  <2>7. QED
    BY <2>6 DEF d
<1>7. QED
  BY <1>1, <1>5, <1>6

(* A line damaged behind its count is refused, whatever it held. *)
LEMMA DamagedRefused ==
    ASSUME NEW type \in 0 .. 9, NEW bytes \in Seq(Octet), Len(bytes) <= 254,
           NEW d \in Damages(LineOf(type, bytes)), d # LineOf(type, bytes)
    PROVE  ParseLine(d) = [type |-> Refused]
<1> DEFINE line == LineOf(type, bytes)
           n == Len(bytes)
<1>1. IsSound(line, n) /\ n \in Nat
  BY LineIsSound
<1>2. d \in Damages(line) /\ d # line
  OBVIOUS
<1> HIDE DEF line, n
<1>3. ~IsIntact(d)
  <2>1. CASE \E i \in 5 .. Len(line), c \in Typo : d = Retyped(line, i, c)
    <3>1. PICK i \in 5 .. Len(line), c \in Typo : d = Retyped(line, i, c)
      BY <2>1
    <3>2. c \in Char
      BY FileFacts
    <3>3. QED
      BY <1>1, <1>2, <3>1, <3>2, RetypedRefused
  <2>2. CASE \E i \in 5 .. Len(line) - 1 : d = Swapped(line, i)
    BY <1>1, <1>2, <2>2, SwappedRefused
  <2>3. CASE \E i \in 0 .. Len(line) - 1 : d = SubSeq(line, 1, i)
    <3>1. PICK i \in 0 .. Len(line) - 1 : d = SubSeq(line, 1, i)
      BY <2>3
    <3>2. ~IsIntact(SubSeq(line, 1, i))
      BY <1>1, CutRefused, Zenon
    <3>3. QED
      BY <3>1, <3>2, Zenon
  <2>4. QED
    BY <1>2, <2>1, <2>2, <2>3 DEF Damages
<1>4. QED
  BY <1>3 DEF ParseLine

-----------------------------------------------------------------------------
(* The number some bytes are *)
Shifting == [p \in Int \X Int |-> 256 * p[1] + p[2]]

LEMMA NumberRuns ==
    ASSUME NEW s \in Seq(Int)
    PROVE  RunsTo(Int, 0, Shifting, s, Number(s))
<1> DEFINE E(f) == f = [t \in SUBSET DOMAIN s |->
                           IF t = {} THEN 0 ELSE 256 * f[t \ {Max(t)}] + s[Max(t)]]
           g == CHOOSE f : E(f)
<1>1. Len(s) \in Nat /\ DOMAIN s = 1 .. Len(s) /\ \A k \in 1 .. Len(s) : s[k] \in Int
  OBVIOUS
<1>2. 0 \in Int /\ Shifting \in [Int \X Int -> Int] /\ \A a, b \in Int : Shifting[<<a, b>>] = 256 * a + b
  BY DEF Shifting
<1>3. \A t \in SUBSET (1 .. Len(s)) : t # {} => s[Max(t)] \in Int
  BY <1>1, MaxExists
<1>4. PICK f \in [SUBSET (1 .. Len(s)) -> Int] : FoldsTo(0, Shifting, s, f)
  BY <1>2, FoldExists, Zenon
<1>5. E(f)
  <2>1. \A t \in SUBSET (1 .. Len(s)) :
           f[t] = IF t = {} THEN 0 ELSE 256 * f[t \ {Max(t)}] + s[Max(t)]
    <3>1. ASSUME NEW t \in SUBSET (1 .. Len(s)), t # {}
          PROVE  f[t] = 256 * f[t \ {Max(t)}] + s[Max(t)]
      <4> DEFINE x == f[t \ {Max(t)}]
                 y == s[Max(t)]
      <4>1. x \in Int /\ y \in Int /\ f[t] = Shifting[<<x, y>>]
        BY <1>3, <1>4, <3>1 DEF FoldsTo
      <4> HIDE DEF x, y
      <4>2. f[t] = 256 * x + y
        BY <1>2, <4>1, Zenon
      <4>3. QED
        BY <4>2 DEF x, y
    <3>2. f[{}] = 0
      BY <1>4 DEF FoldsTo
    <3>3. QED
      BY <3>1, <3>2, Zenon
  <2>2. QED
    BY <1>1, <2>1
<1>6. E(g)
  <2> HIDE DEF E
  <2>1. QED
    BY <1>5
<1>7. Number(s) = g[1 .. Len(s)]
  BY <1>1 DEF Number, FoldLeft, MapThenFoldSet
<1>8. g[{}] = 0
  <2> HIDE DEF g
  <2>1. QED
    BY <1>6
<1>9. \A t \in SUBSET (1 .. Len(s)) :
         t # {} /\ g[t \ {Max(t)}] \in Int => g[t] = Shifting[<<g[t \ {Max(t)}], s[Max(t)]>>]
  <2>1. SUFFICES ASSUME NEW t \in SUBSET (1 .. Len(s)), t # {}, g[t \ {Max(t)}] \in Int
                 PROVE  g[t] = Shifting[<<g[t \ {Max(t)}], s[Max(t)]>>]
    OBVIOUS
  <2> HIDE DEF g
  <2> DEFINE x == g[t \ {Max(t)}]
             y == s[Max(t)]
  <2>2. g[t] = 256 * x + y
    BY <1>1, <1>6, <2>1
  <2>3. x \in Int /\ y \in Int
    BY <1>3, <2>1
  <2> HIDE DEF x, y
  <2>4. g[t] = Shifting[<<x, y>>]
    BY <1>2, <2>2, <2>3, Zenon
  <2>5. QED
    BY <2>4 DEF x, y
<1>10. RunsTo(Int, 0, Shifting, s, g[1 .. Len(s)])
  <2> HIDE DEF g
  <2>1. QED
    BY <1>2, <1>8, <1>9, FoldRuns
<1>11. QED
  BY <1>7, <1>10, Zenon

LEMMA NumberOfAppend ==
    ASSUME NEW s \in Seq(Int), NEW b \in Int
    PROVE  Number(s) \in Int /\ Number(Append(s, b)) = 256 * Number(s) + b
<1>1. Append(s, b) \in Seq(Int)
  OBVIOUS
<1>2. RunsTo(Int, 0, Shifting, s, Number(s)) /\ RunsTo(Int, 0, Shifting, Append(s, b), Number(Append(s, b)))
  BY <1>1, NumberRuns
<1>3. Number(Append(s, b)) = Shifting[<<Number(s), b>>]
  BY <1>2, RunOfAppend
<1>4. Number(s) \in Int
  BY <1>2, RunInDomain, Zenon
<1>5. QED
  BY <1>3, <1>4 DEF Shifting

LEMMA NumberOfTwo ==
    ASSUME NEW a \in Int, NEW b \in Int
    PROVE  Number(<< a, b >>) = 256 * a + b
<1>1. << >> \in Seq(Int) /\ << a >> \in Seq(Int) /\ << a >> = Append(<< >>, a) /\ << a, b >> = Append(<< a >>, b)
  OBVIOUS
<1>2. Number(<< >>) = 0
  BY <1>1, NumberRuns, RunOfNothing, Zenon
<1>3. Number(Append(<< >>, a)) = 256 * Number(<< >>) + a
  BY <1>1, NumberOfAppend, Zenon
<1>4. Number(<< a >>) = a
  <2>1. 256 * 0 + a = a
    OBVIOUS
  <2>2. QED
    BY <1>1, <1>2, <1>3, <2>1, Zenon
<1>5. Number(Append(<< a >>, b)) = 256 * Number(<< a >>) + b
  BY <1>1, NumberOfAppend, Zenon
<1>6. QED
  BY <1>1, <1>4, <1>5, Zenon

LEMMA AddressRange ==
    ASSUME NEW a
    PROVE  a \in Address <=> a \in Nat /\ a < 65536
<1>1. a \in Address <=> a \in Nat /\ a <= LastAddress
  BY DEF Address
<1>2. QED
  BY <1>1 DEF LastAddress

LEMMA HighLowProperties ==
    ASSUME NEW n \in Nat
    PROVE  /\ HighLow(n) \in Seq(Octet) /\ Len(HighLow(n)) = 2
           /\ n \in Address => Number(HighLow(n)) = n
<1> DEFINE h == (n \div 256) % 256
           l == n % 256
<1>0. n < 65536 => 256 * h + l = n
  OBVIOUS
<1>1. h \in 0 .. 255 /\ l \in 0 .. 255 /\ (n \in Address => 256 * h + l = n)
  <2>1. h \in 0 .. 255 /\ l \in 0 .. 255
    OBVIOUS
  <2> HIDE DEF h, l
  <2>2. n \in Address => 256 * h + l = n
    BY <1>0, AddressRange
  <2>3. QED
    BY <2>1, <2>2
<1>2. HighLow(n) = << h, l >>
  BY DEF HighLow
<1> HIDE DEF h, l
<1>3. << h, l >> \in Seq(Octet) /\ Len(<< h, l >>) = 2
  <2>1. h \in Octet /\ l \in Octet
    BY <1>1 DEF Octet
  <2>2. QED
    BY <2>1
<1>4. h \in Int /\ l \in Int
  BY <1>1
<1>5. Number(<< h, l >>) = 256 * h + l
  BY <1>4, NumberOfTwo, Zenon
<1>6. QED
  BY <1>1, <1>2, <1>3, <1>5, Zenon

-----------------------------------------------------------------------------
(* The records of the lines the assembler writes *)
WrittenRecord == [type : RecType, addr : Address, data : Seq(Octet)]

Header == [type |-> "S0", addr |-> 0, data |-> << >>]
Data(a, d) == [type |-> "S1", addr |-> a, data |-> d]
Counted == [type |-> "S5", addr |-> 0, data |-> << >>]
StartAt(a) == [type |-> "S9", addr |-> a, data |-> << >>]

(* A line of a type without an address, and one with an address of two *)
LEMMA ParsePlain ==
    ASSUME NEW type \in {0, 5}, NEW bytes \in Seq(Octet), Len(bytes) <= 254
    PROVE  ParseLine(LineOf(type, bytes)) = IF type = 0 THEN Header ELSE Counted
<1> DEFINE line == LineOf(type, bytes)
<1>1. IsIntact(line) /\ line[2] = type
  <2>1. type \in 0 .. 9
    OBVIOUS
  <2>2. IsLine(line, type, bytes)
    BY <2>1, LineProperties, Zenon
  <2>3. QED
    <3> HIDE DEF line
    <3>1. QED
      BY <2>2, Zenon DEF IsLine
<1> HIDE DEF line
<1>2. ParseLine(line) = IF type = 0 THEN Header ELSE Counted
  BY <1>1 DEF ParseLine, Header, Counted
<1>3. QED
  BY <1>2 DEF line

LEMMA ParseAddressed ==
    ASSUME NEW type \in {1, 9}, NEW a \in Address, NEW d \in Seq(Octet), Len(d) <= 16
    PROVE  ParseLine(LineOf(type, HighLow(a) \o d)) = IF type = 1 THEN Data(a, d) ELSE StartAt(a)
<1> DEFINE h == HighLow(a)
           bytes == h \o d
           line == LineOf(type, bytes)
           n == Len(d)
<1>0. a \in Nat /\ n \in Nat /\ n <= 16
  BY AddressRange
<1>1. h \in Seq(Octet) /\ Len(h) = 2 /\ Number(h) = a
  BY <1>0, HighLowProperties, Zenon
<1> HIDE DEF h
<1>2. bytes \in Seq(Octet) /\ Len(bytes) = Len(h) + Len(d)
      /\ \A i \in 1 .. Len(h) + Len(d) : bytes[i] = IF i <= Len(h) THEN h[i] ELSE d[i - Len(h)]
  BY <1>1, ConcatProperties
<1> HIDE DEF bytes
<1>3. bytes \in Seq(Octet) /\ Len(bytes) = n + 2 /\ \A i \in 1 .. n + 2 : bytes[i] = IF i <= 2 THEN h[i] ELSE d[i - 2]
  <2>1. Len(h) + Len(d) = n + 2
    BY <1>0, <1>1
  <2>2. QED
    BY <1>1, <1>2, <2>1, Zenon
<1>4. SubSeq(bytes, 1, 2) = h
  <2> DEFINE p == SubSeq(bytes, 1, 2)
  <2>1. \A i \in 1 .. 2 : bytes[i] \in Octet
    BY <1>0, <1>3
  <2>2. /\ p \in Seq(Octet) /\ Len(p) = (IF 1 <= 2 THEN 2 - 1 + 1 ELSE 0)
        /\ \A i \in 1 .. 2 - 1 + 1 : p[i] = bytes[1 + i - 1]
    BY <2>1, SubSeqProperties
  <2> HIDE DEF p
  <2>3. Len(p) = 2 /\ p[1] = bytes[1] /\ p[2] = bytes[2]
    BY <2>2
  <2>4. \A i \in 1 .. Len(p) : p[i] = h[i]
    BY <1>0, <1>3, <2>3
  <2>5. p = h
    BY <1>1, <2>2, <2>3, <2>4, SeqEqual
  <2>6. QED
    BY <2>5 DEF p
<1>5. SubSeq(bytes, 3, n + 2) = d
  <2> DEFINE p == SubSeq(bytes, 3, n + 2)
  <2>1. \A i \in 3 .. n + 2 : bytes[i] \in Octet
    BY <1>0, <1>3
  <2>2. n + 2 \in Int /\ 3 \in Int
    BY <1>0
  <2>3. /\ p \in Seq(Octet) /\ Len(p) = (IF 3 <= n + 2 THEN n + 2 - 3 + 1 ELSE 0)
        /\ \A i \in 1 .. n + 2 - 3 + 1 : p[i] = bytes[3 + i - 1]
    BY <2>1, <2>2, SubSeqProperties
  <2> HIDE DEF p
  <2>4. Len(p) = n
    BY <1>0, <2>3
  <2>5. ASSUME NEW i \in 1 .. n
        PROVE  p[i] = d[i]
    <3>1. i \in 1 .. n + 2 - 3 + 1 /\ 3 + i - 1 = i + 2 /\ i + 2 \in 1 .. n + 2 /\ ~(i + 2 <= 2) /\ i + 2 - 2 = i
      BY <1>0
    <3>2. p[i] = bytes[3 + i - 1]
      BY <2>3, <3>1
    <3>3. bytes[i + 2] = d[(i + 2) - 2]
      BY <1>3, <3>1
    <3>4. QED
      BY <3>1, <3>2, <3>3
  <2>6. p = d
    <3>1. \A i \in 1 .. Len(p) : p[i] = d[i]
      BY <2>4, <2>5
    <3>2. Len(p) = Len(d)
      BY <2>4 DEF n
    <3>3. QED
      BY <2>3, <3>1, <3>2, SeqEqual
  <2>7. QED
    BY <2>6 DEF p
<1>6. IsIntact(line) /\ line[2] = type /\ Payload(line) = bytes /\ Count(line) = n + 3
  <2>1. type \in 0 .. 9 /\ Len(bytes) <= 254
    <3> HIDE DEF n
    <3>1. QED
      BY <1>0, <1>3
  <2>2. IsLine(line, type, bytes)
    BY <1>3, <2>1, LineProperties, Zenon
  <2>3. Len(bytes) + 1 = n + 3
    <3> HIDE DEF n
    <3>1. QED
      BY <1>0, <1>3
  <2>4. QED
    <3> HIDE DEF line
    <3>1. QED
      BY <2>2, <2>3, Zenon DEF IsLine
<1> HIDE DEF line, n
<1>7. AddrLen(type) = 2 /\ 2 + 1 = 3 /\ n + 3 - 1 = n + 2
  BY <1>0 DEF AddrLen
<1> DEFINE addr == Number(SubSeq(Payload(line), 1, AddrLen(line[2])))
           data == SubSeq(Payload(line), AddrLen(line[2]) + 1, Count(line) - 1)
<1>8. addr = a /\ data = d
  <2>1. AddrLen(line[2]) = 2 /\ AddrLen(line[2]) + 1 = 3
    BY <1>6, <1>7
  <2>2. Payload(line) = bytes /\ Count(line) - 1 = n + 2
    BY <1>0, <1>6
  <2>3. SubSeq(Payload(line), 1, AddrLen(line[2])) = SubSeq(bytes, 1, 2)
    BY <2>1, <2>2, Zenon
  <2>4. data = SubSeq(bytes, 3, n + 2)
    BY <2>1, <2>2, Zenon
  <2>5. QED
    BY <1>1, <1>4, <1>5, <2>3, <2>4, Zenon
<1>9. ParseLine(line) = IF type = 1 THEN Data(a, d) ELSE StartAt(a)
  <2>1. IsIntact(line) /\ line[2] = type
    BY <1>6
  <2>2. ParseLine(line) =
           IF ~IsIntact(line) \/ line[2] \in {4, 6} THEN [type |-> Refused]
           ELSE CASE line[2] = 0 -> [type |-> "S0", addr |-> 0, data |-> << >>]
                  [] line[2] \in 1 .. 3 -> [type |-> "S1", addr |-> addr, data |-> data]
                  [] line[2] = 5 -> [type |-> "S5", addr |-> 0, data |-> << >>]
                  [] line[2] \in 7 .. 9 -> [type |-> "S9", addr |-> addr, data |-> << >>]
    BY Zenon DEF ParseLine
  <2> HIDE DEF addr, data
  <2>3. QED
    BY <1>8, <2>1, <2>2 DEF Data, StartAt
<1>10. QED
  BY <1>9 DEF line, bytes, h

-----------------------------------------------------------------------------
(* The bytes of records, lines and files, each with its address *)
Located == Int \X Octet

Piece(addr, data) == [k \in 1 .. Len(data) |-> << addr + k - 1, data[k] >>]
RecordBytes(r) == IF r.type = "S1" THEN Piece(r.addr, r.data) ELSE << >>
LineBytes(line) == RecordBytes(ParseLine(line))
LineOfBytes(f) == [i \in DOMAIN f |-> LineBytes(f[i])]
FileBytes(f) == FlattenSeq(LineOfBytes(f))

(* The lines of a file that was not damaged *)
Written == {line \in Seq(Char) :
              /\ \E type \in 0 .. 9, bytes \in Seq(Octet) : Len(bytes) <= 254 /\ line = LineOf(type, bytes)
              /\ ParseLine(line) \in WrittenRecord}

LEMMA PieceProperties ==
    ASSUME NEW addr \in Int, NEW data \in Seq(Octet), NEW b \in Octet
    PROVE  /\ Piece(addr, << >>) = << >>
           /\ Piece(addr, << b >>) = << << addr, b >> >>
           /\ Piece(addr, data) \in Seq(Located)
           /\ Len(Piece(addr, data)) = Len(data)
           /\ Piece(addr, Append(data, b)) = Append(Piece(addr, data), << addr + Len(data), b >>)
<1> DEFINE n == Len(data)
           p == Piece(addr, data)
           a == Append(data, b)
<1>1. n \in Nat /\ Len(a) = n + 1 /\ a[n + 1] = b /\ \A k \in 1 .. n : a[k] = data[k] /\ data[k] \in Octet
  OBVIOUS
<1>2. p \in Seq(Located) /\ Len(p) = n
  <2>1. \A k \in 1 .. n : << addr + k - 1, data[k] >> \in Located
    BY <1>1 DEF Located
  <2>2. QED
    BY <1>1, <2>1 DEF Piece
<1>3. Piece(addr, << >>) = << >>
  BY DEF Piece
<1>4. Piece(addr, << b >>) = << << addr, b >> >>
  <2>1. addr + 1 - 1 = addr
    OBVIOUS
  <2>2. Piece(addr, << b >>) = [k \in 1 .. 1 |-> << addr + k - 1, << b >>[k] >>]
    BY DEF Piece
  <2>3. \A k \in 1 .. 1 : << addr + k - 1, << b >>[k] >> = << addr, b >>
    BY <2>1
  <2>4. QED
    BY <2>2, <2>3
<1>5. Piece(addr, a) = Append(p, << addr + n, b >>)
  <2> HIDE DEF a
  <2> DEFINE e == << addr + n, b >>
             q == Append(p, e)
  <2>1. e \in Located
    BY <1>1 DEF Located
  <2>2. q \in Seq(Located) /\ Len(q) = n + 1 /\ q[n + 1] = e /\ \A k \in 1 .. n : q[k] = p[k]
    <3> HIDE DEF p, e
    <3>1. QED
      BY <1>1, <1>2, <2>1
  <2>3. Piece(addr, a) = [k \in 1 .. n + 1 |-> << addr + k - 1, a[k] >>]
    BY <1>1 DEF Piece
  <2> HIDE DEF q
  <2>4. \A k \in 1 .. n + 1 : q[k] = << addr + k - 1, a[k] >>
    <3>1. SUFFICES ASSUME NEW k \in 1 .. n + 1
                   PROVE  q[k] = << addr + k - 1, a[k] >>
      OBVIOUS
    <3>2. CASE k = n + 1
      <4>1. addr + (n + 1) - 1 = addr + n
        BY <1>1
      <4>2. QED
        BY <1>1, <2>2, <3>2, <4>1
    <3>3. CASE k # n + 1
      <4>1. k \in 1 .. n
        BY <1>1, <3>3
      <4>2. QED
        BY <1>1, <2>2, <4>1 DEF Piece
    <3>4. QED
      BY <3>2, <3>3
  <2>5. q = [k \in 1 .. n + 1 |-> q[k]]
    BY <1>1, <2>2
  <2>6. QED
    <3>1. Piece(addr, a) = q
      BY <2>3, <2>4, <2>5
    <3>2. QED
      BY <3>1 DEF q
<1>6. QED
  BY <1>2, <1>3, <1>4, <1>5, Zenon

LEMMA LineBytesType ==
    ASSUME NEW line \in Written
    PROVE  LineBytes(line) \in Seq(Located)
<1> DEFINE r == ParseLine(line)
<1>1. r \in WrittenRecord
  BY DEF Written
<1> HIDE DEF r
<1>2. r.addr \in Int /\ r.data \in Seq(Octet)
  <2>1. r.addr \in Address /\ r.data \in Seq(Octet)
    BY <1>1 DEF WrittenRecord
  <2>2. QED
    BY <2>1, AddressRange
<1>3. Piece(r.addr, r.data) \in Seq(Located)
  <2>1. 0 \in Octet
    BY DEF Octet
  <2>2. QED
    BY <1>2, <2>1, PieceProperties, Zenon
<1>4. << >> \in Seq(Located)
  OBVIOUS
<1>5. RecordBytes(r) \in Seq(Located)
  BY <1>3, <1>4, Zenon DEF RecordBytes
<1>6. QED
  BY <1>5 DEF LineBytes, r

(* One more line *)
LEMMA FileBytesProperties ==
    /\ FileBytes(<< >>) = << >>
    /\ \A f \in Seq(Written) : FileBytes(f) \in Seq(Located)
    /\ \A f \in Seq(Written), line \in Written :
          FileBytes(Append(f, line)) = FileBytes(f) \o LineBytes(line)
<1>1. \A f \in Seq(Written) : LineOfBytes(f) \in Seq(Seq(Located))
  <2>1. SUFFICES ASSUME NEW f \in Seq(Written)
                 PROVE  LineOfBytes(f) \in Seq(Seq(Located))
    OBVIOUS
  <2>2. DOMAIN f = 1 .. Len(f) /\ Len(f) \in Nat /\ \A i \in 1 .. Len(f) : f[i] \in Written
    OBVIOUS
  <2>3. \A i \in 1 .. Len(f) : LineBytes(f[i]) \in Seq(Located)
    BY <2>2, LineBytesType
  <2>4. LineOfBytes(f) \in [1 .. Len(f) -> Seq(Located)]
    BY <2>2, <2>3 DEF LineOfBytes
  <2>5. QED
    BY <2>2, <2>4, SeqDef
<1>2. \A f \in Seq(Written), line \in Written : LineOfBytes(Append(f, line)) = Append(LineOfBytes(f), LineBytes(line))
  BY DEF LineOfBytes
<1>3. LineOfBytes(<< >>) = << >>
  BY DEF LineOfBytes
<1>4. \A line \in Written : LineBytes(line) \in Seq(Located)
  BY LineBytesType
<1>5. FileBytes(<< >>) = << >>
  BY <1>3, FlattenProperties, Zenon DEF FileBytes
<1>6. \A f \in Seq(Written) : FileBytes(f) \in Seq(Located)
  BY <1>1, FlattenProperties DEF FileBytes
<1>7. ASSUME NEW f \in Seq(Written), NEW line \in Written
      PROVE  FileBytes(Append(f, line)) = FileBytes(f) \o LineBytes(line)
  <2> DEFINE ss == LineOfBytes(f)
             s == LineBytes(line)
  <2>1. ss \in Seq(Seq(Located)) /\ s \in Seq(Located) /\ LineOfBytes(Append(f, line)) = Append(ss, s)
    BY <1>1, <1>2, <1>4
  <2> HIDE DEF ss, s
  <2>2. FlattenSeq(Append(ss, s)) = FlattenSeq(ss) \o s
    BY <2>1, FlattenProperties
  <2>3. QED
    BY <2>1, <2>2, Zenon DEF FileBytes, ss, s
<1>8. QED
  BY <1>5, <1>6, <1>7

(* The lines of the assembler: the record of each, and its bytes *)
IsWritten(line, r) == line \in Written /\ ParseLine(line) = r /\ LineBytes(line) = RecordBytes(r)

LEMMA LineIsWritten ==
    ASSUME NEW type \in 0 .. 9, NEW bytes \in Seq(Octet), Len(bytes) <= 254,
           NEW r \in WrittenRecord, ParseLine(LineOf(type, bytes)) = r
    PROVE  IsWritten(LineOf(type, bytes), r)
<1>1. LineOf(type, bytes) \in Seq(Char)
  BY LineShape, Zenon DEF IsShaped
<1>2. QED
  BY <1>1, Zenon DEF IsWritten, Written, LineBytes

LEMMA RecordsAreWritten ==
    ASSUME NEW a \in Address, NEW d \in Seq(Octet)
    PROVE  Header \in WrittenRecord /\ Data(a, d) \in WrittenRecord /\ Counted \in WrittenRecord
           /\ StartAt(a) \in WrittenRecord
<1>1. 0 \in Address
  BY AddressRange
<1>2. << >> \in Seq(Octet)
  OBVIOUS
<1>3. QED
  BY <1>1, <1>2 DEF Header, Data, Counted, StartAt, WrittenRecord, RecType

LEMMA HeaderWritten == IsWritten(LineOf(0, << 0, 0 >> \o HeaderText), Header)
<1> DEFINE z == << 0, 0 >>
           bytes == z \o HeaderText
<1>1. z \in Seq(Octet) /\ Len(z) = 2
  BY DEF Octet
<1> HIDE DEF z
<1>2. HeaderText \in Seq(Octet) /\ Len(HeaderText) <= 50
  BY FileFacts
<1>3. bytes \in Seq(Octet) /\ Len(bytes) = Len(z) + Len(HeaderText)
  BY <1>1, <1>2, ConcatProperties
<1>4. Len(bytes) <= 254
  <2> DEFINE n == Len(HeaderText)
             m == Len(bytes)
  <2>1. n \in Nat /\ n <= 50 /\ m = 2 + n
    BY <1>1, <1>2, <1>3
  <2> HIDE DEF n, m
  <2>2. m <= 254
    BY <2>1
  <2>3. QED
    BY <2>2 DEF m
<1> HIDE DEF bytes
<1>5. ParseLine(LineOf(0, bytes)) = Header
  BY <1>3, <1>4, ParsePlain
<1>6. Header \in WrittenRecord
  <2>1. 0 \in Address /\ << >> \in Seq(Octet)
    BY AddressRange
  <2>2. QED
    BY <2>1, RecordsAreWritten, Zenon
<1>7. IsWritten(LineOf(0, bytes), Header)
  <2>1. 0 \in 0 .. 9
    OBVIOUS
  <2>2. QED
    BY <1>3, <1>4, <1>5, <1>6, <2>1, LineIsWritten, Zenon
<1>8. QED
  BY <1>7 DEF bytes, z

LEMMA DataWritten ==
    ASSUME NEW a \in Address, NEW d \in Seq(Octet), Len(d) <= 16
    PROVE  IsWritten(LineOf(1, HighLow(a) \o d), Data(a, d)) /\ IsWritten(LineOf(9, HighLow(a)), StartAt(a))
<1> DEFINE bytes == HighLow(a) \o d
           e == << >>
<1>1. a \in Nat
  BY AddressRange
<1>2. HighLow(a) \in Seq(Octet) /\ Len(HighLow(a)) = 2
  BY <1>1, HighLowProperties
<1>3. bytes \in Seq(Octet) /\ Len(bytes) = Len(HighLow(a)) + Len(d)
  BY <1>2, ConcatProperties
<1>4. Len(bytes) <= 254
  <2> DEFINE n == Len(d)
             m == Len(bytes)
  <2>1. n \in Nat /\ n <= 16 /\ m = 2 + n
    BY <1>2, <1>3
  <2> HIDE DEF n, m
  <2>2. m <= 254
    BY <2>1
  <2>3. QED
    BY <2>2 DEF m
<1>5. ParseLine(LineOf(1, bytes)) = Data(a, d)
  BY ParseAddressed
<1>6. e \in Seq(Octet) /\ Len(e) <= 16 /\ HighLow(a) \o e = HighLow(a)
  BY <1>2
<1>7. ParseLine(LineOf(9, HighLow(a) \o e)) = StartAt(a)
  <2> HIDE DEF e
  <2>1. 9 \in {1, 9} /\ 9 # 1
    OBVIOUS
  <2>2. QED
    BY <1>6, <2>1, ParseAddressed, Zenon
<1> HIDE DEF bytes, e
<1>8. Data(a, d) \in WrittenRecord /\ StartAt(a) \in WrittenRecord
  BY RecordsAreWritten
<1>9. 1 \in 0 .. 9 /\ 9 \in 0 .. 9 /\ Len(HighLow(a)) <= 254
  BY <1>2
<1>10. IsWritten(LineOf(1, bytes), Data(a, d))
  BY <1>3, <1>4, <1>5, <1>8, <1>9, LineIsWritten, Zenon
<1>11. IsWritten(LineOf(9, HighLow(a)), StartAt(a))
  <2>1. ParseLine(LineOf(9, HighLow(a))) = StartAt(a)
    BY <1>6, <1>7, Zenon
  <2>2. QED
    BY <1>2, <1>8, <1>9, <2>1, LineIsWritten, Zenon
<1>12. QED
  BY <1>10, <1>11 DEF bytes

LEMMA CountWritten ==
    ASSUME NEW n \in Nat
    PROVE  IsWritten(LineOf(5, HighLow(n)), Counted)
<1>1. HighLow(n) \in Seq(Octet) /\ Len(HighLow(n)) <= 254
  <2>1. HighLow(n) \in Seq(Octet) /\ Len(HighLow(n)) = 2
    BY HighLowProperties
  <2>2. QED
    BY <2>1
<1>2. ParseLine(LineOf(5, HighLow(n))) = Counted
  <2>1. 5 \in {0, 5} /\ 5 # 0
    OBVIOUS
  <2>2. QED
    BY <1>1, <2>1, ParsePlain, Zenon
<1>3. Counted \in WrittenRecord /\ 5 \in 0 .. 9
  <2>1. 0 \in Address /\ << >> \in Seq(Octet) /\ 5 \in 0 .. 9
    BY AddressRange
  <2>2. QED
    BY <2>1, RecordsAreWritten, Zenon
<1>4. QED
  BY <1>1, <1>2, <1>3, LineIsWritten, Zenon

-----------------------------------------------------------------------------
(* What the writer has fetched so far *)
LinePiece(l) == Piece(l.addr, l.output)
DonePieces == [i \in 1 .. cl - 1 |-> LinePiece(source[i])]
OpenPiece == IF cl <= Len(source) THEN Piece(source[cl].addr, SubSeq(source[cl].output, 1, outidx)) ELSE << >>
Fetched == FlattenSeq(DonePieces) \o OpenPiece

(* The writer's variables, whatever the host does *)
WriterInv ==
    /\ source \in Sources /\ start \in Starts
    /\ failed \in BOOLEAN
    /\ cl \in 1 .. Len(source) + 1 /\ outidx \in Nat
    /\ cl <= Len(source) => outidx <= Len(source[cl].output)
    /\ lastaddr \in Int /\ reccnt \in Int /\ reccnt >= -1
    /\ recaddr \in Address /\ recdata \in Seq(Octet)
    /\ recdata = << >> <=> lastaddr = -2
    /\ recdata = << >> <=> reccnt = -1

(* The bytes fetched are those of the records printed and the one being  *)
(* filled.                                                               *)
AssembleInv ==
    /\ ~failed /\ damaged = 0 /\ next = 1
    /\ file \in Seq(Written)
    /\ recdata = << >> => file = << >>
    /\ FileBytes(file) \o Piece(recaddr, recdata) = Fetched

LEMMA SourceFacts ==
    ASSUME NEW s \in Sources
    PROVE  /\ s \in Seq(SourceLine) /\ Len(s) \in Nat /\ DOMAIN s = 1 .. Len(s)
           /\ \A i \in 1 .. Len(s) :
                 /\ s[i].addr \in Int /\ s[i].output \in Seq(Octet) /\ Len(s[i].output) \in Nat
                 /\ \A k \in 1 .. Len(s[i].output) : s[i].addr + k - 1 \in Address
<1>1. s \in Seq(SourceLine) /\ RamAddr \subseteq Address /\ Byte = Octet
  BY FileFacts
<1>2. Len(s) \in Nat /\ DOMAIN s = 1 .. Len(s)
  BY <1>1
<1>3. ASSUME NEW i \in 1 .. Len(s)
      PROVE  s[i].addr \in Address /\ s[i].output \in Seq(Octet)
  <2>1. s[i] \in SourceLine
    BY <1>1, <1>3
  <2>2. QED
    BY <1>1, <2>1 DEF SourceLine
<1>4. \A a \in Address : a \in Int
  BY AddressRange
<1>5. \A i \in DOMAIN s : \A k \in 1 .. Len(s[i].output) : s[i].addr + k - 1 \in RamAddr
  BY FileAssumption
<1>6. \A t \in Seq(Octet) : Len(t) \in Nat
  OBVIOUS
<1>7. QED
  BY <1>1, <1>2, <1>3, <1>4, <1>5, <1>6, Zenon

(* The pieces of the lines fetched *)
LEMMA PiecesType ==
    ASSUME WriterInv
    PROVE  DonePieces \in Seq(Seq(Located)) /\ OpenPiece \in Seq(Located)
<1>0. 0 \in Octet
  BY DEF Octet
<1>1. /\ source \in Sources /\ cl \in Nat /\ cl >= 1 /\ cl <= Len(source) + 1 /\ outidx \in Nat
      /\ cl <= Len(source) => outidx <= Len(source[cl].output)
      /\ Len(source) \in Nat
      /\ \A i \in 1 .. Len(source) : source[i].addr \in Int /\ source[i].output \in Seq(Octet)
  <2>1. source \in Sources
    BY DEF WriterInv
  <2>2. QED
    BY <2>1, SourceFacts DEF WriterInv
<1>2. \A i \in 1 .. cl - 1 : LinePiece(source[i]) \in Seq(Located)
  <2>1. SUFFICES ASSUME NEW i \in 1 .. cl - 1
                 PROVE  Piece(source[i].addr, source[i].output) \in Seq(Located)
    BY DEF LinePiece
  <2>2. i \in 1 .. Len(source)
    BY <1>1
  <2>3. source[i].addr \in Int /\ source[i].output \in Seq(Octet)
    BY <1>1, <2>2
  <2>4. QED
    BY <1>0, <2>3, PieceProperties, Zenon
<1>3. DonePieces \in Seq(Seq(Located))
  <2>1. cl - 1 \in Nat
    BY <1>1
  <2> DEFINE m == cl - 1
  <2> HIDE DEF m
  <2>2. [i \in 1 .. m |-> LinePiece(source[i])] \in Seq(Seq(Located))
    BY <1>2, <2>1 DEF m
  <2>3. QED
    BY <2>2 DEF DonePieces, m
<1>4. OpenPiece \in Seq(Located)
  <2>1. CASE cl <= Len(source)
    <3> DEFINE a == source[cl].addr
               o == source[cl].output
               p == SubSeq(o, 1, outidx)
    <3>1. cl \in 1 .. Len(source)
      BY <1>1, <2>1
    <3>2. a \in Int /\ o \in Seq(Octet) /\ outidx <= Len(o)
      BY <1>1, <2>1, <3>1
    <3>3. OpenPiece = Piece(a, p)
      BY <2>1, Zenon DEF OpenPiece
    <3> HIDE DEF a, o
    <3>4. p \in Seq(Octet)
      BY <1>1, <3>2
    <3> HIDE DEF p
    <3>5. QED
      BY <1>0, <3>2, <3>3, <3>4, PieceProperties, Zenon
  <2>2. CASE ~(cl <= Len(source))
    BY <2>2 DEF OpenPiece
  <2>3. QED
    BY <2>1, <2>2
<1>5. QED
  BY <1>3, <1>4

(* One more byte fetched *)
LEMMA FetchByte ==
    ASSUME WriterInv, cl <= Len(source), outidx < Len(source[cl].output),
           outidx' = outidx + 1, UNCHANGED << source, cl >>
    PROVE  /\ Outaddr \in Address /\ Outaddr \in Nat
           /\ source[cl].output[outidx + 1] \in Octet
           /\ Fetched' = Append(Fetched, << Outaddr, source[cl].output[outidx + 1] >>)
<1> DEFINE a == source[cl].addr
           o == source[cl].output
           p == SubSeq(o, 1, outidx)
           q == SubSeq(o, 1, outidx + 1)
           b == o[outidx + 1]
<1>1. /\ source \in Sources /\ cl \in 1 .. Len(source) /\ outidx \in Nat
      /\ a \in Int /\ o \in Seq(Octet) /\ Len(o) \in Nat /\ outidx < Len(o)
      /\ \A k \in 1 .. Len(o) : a + k - 1 \in Address
  <2>1. source \in Sources /\ cl \in 1 .. Len(source) + 1 /\ outidx \in Nat
    BY DEF WriterInv
  <2>2. Len(source) \in Nat
    BY <2>1, SourceFacts
  <2>3. cl \in 1 .. Len(source)
    BY <2>1, <2>2
  <2>4. QED
    BY <2>1, <2>3, SourceFacts
<1>2. OpenPiece = Piece(a, p) /\ OpenPiece' = Piece(a, q)
  BY DEF OpenPiece
<1>3. DonePieces' = DonePieces
  BY DEF DonePieces
<1>4. Outaddr = a + outidx
  BY DEF Outaddr
<1> HIDE DEF a, o
<1>5. outidx + 1 \in 1 .. Len(o) /\ a + (outidx + 1) - 1 = a + outidx
  BY <1>1
<1>6. a + outidx \in Address /\ a + outidx \in Nat /\ b \in Octet
  <2>1. a + (outidx + 1) - 1 \in Address
    BY <1>1, <1>5, Zenon
  <2>2. a + outidx \in Address
    BY <1>5, <2>1, Zenon
  <2>3. b \in Octet
    BY <1>1, <1>5
  <2>4. QED
    BY <2>2, <2>3, AddressRange
<1>7. p \in Seq(Octet) /\ Len(p) = outidx /\ q = Append(p, b)
  <2>1. p \in Seq(Octet) /\ Len(p) = outidx
    <3>1. \A i \in 1 .. outidx : o[i] \in Octet
      BY <1>1
    <3>2. 1 \in Int /\ outidx \in Int
      BY <1>1
    <3>3. p \in Seq(Octet) /\ Len(p) = (IF 1 <= outidx THEN outidx - 1 + 1 ELSE 0)
      BY <3>1, <3>2, SubSeqProperties
    <3> HIDE DEF p
    <3>4. QED
      BY <1>1, <3>3
  <2>2. q = Append(p, b)
    BY <1>1
  <2>3. QED
    BY <2>1, <2>2
<1> HIDE DEF p, q, b
<1>8. Piece(a, q) = Append(Piece(a, p), << a + outidx, b >>)
  BY <1>1, <1>6, <1>7, PieceProperties
<1>9. Fetched' = Append(Fetched, << a + outidx, b >>)
  <2> DEFINE f == FlattenSeq(DonePieces)
             g == Piece(a, p)
             e == << a + outidx, b >>
  <2>1. f \in Seq(Located) /\ g \in Seq(Located) /\ e \in Located
    <3>1. f \in Seq(Located)
      BY PiecesType, FlattenProperties
    <3>2. g \in Seq(Located)
      BY <1>2, PiecesType
    <3>3. e \in Located
      BY <1>6 DEF Located
    <3>4. QED
      BY <3>1, <3>2, <3>3
  <2>2. Fetched = f \o g /\ Fetched' = f \o Append(g, e)
    BY <1>2, <1>3, <1>8 DEF Fetched
  <2> HIDE DEF f, g, e
  <2>3. f \o Append(g, e) = Append(f \o g, e)
    BY <2>1
  <2>4. QED
    BY <2>2, <2>3 DEF e
<1>10. QED
  BY <1>4, <1>6, <1>9 DEF b, o

(* A line that is through *)
LEMMA FetchLine ==
    ASSUME WriterInv, cl <= Len(source), outidx >= Len(source[cl].output),
           cl' = cl + 1, outidx' = 0, UNCHANGED source
    PROVE  Fetched' = Fetched
<1> DEFINE a == source[cl].addr
           o == source[cl].output
           m == cl - 1
<1>1. /\ source \in Sources /\ cl \in 1 .. Len(source) /\ outidx \in Nat /\ Len(source) \in Nat
      /\ a \in Int /\ o \in Seq(Octet) /\ Len(o) \in Nat /\ outidx = Len(o)
      /\ \A i \in 1 .. Len(source) : source[i].addr \in Int /\ source[i].output \in Seq(Octet)
  <2>1. source \in Sources /\ cl \in 1 .. Len(source) + 1 /\ outidx \in Nat /\ outidx <= Len(o)
    BY DEF WriterInv
  <2>2. Len(source) \in Nat
    BY <2>1, SourceFacts
  <2>3. cl \in 1 .. Len(source)
    BY <2>1, <2>2
  <2>4. a \in Int /\ o \in Seq(Octet) /\ Len(o) \in Nat
    BY <2>1, <2>3, SourceFacts
  <2>5. outidx = Len(o)
    <3> DEFINE n == Len(o)
    <3>1. n \in Nat /\ outidx >= n /\ outidx <= n
      BY <2>1, <2>4
    <3> HIDE DEF n
    <3>2. outidx = n
      BY <2>1, <3>1
    <3>3. QED
      BY <3>2 DEF n
  <2>6. QED
    BY <2>1, <2>2, <2>3, <2>4, <2>5, SourceFacts
<1>2. OpenPiece = Piece(a, SubSeq(o, 1, outidx))
  BY DEF OpenPiece
<1>3. SubSeq(o, 1, outidx) = o
  <2>1. SubSeq(o, 1, Len(o)) = o
    BY <1>1, SubSeqFull
  <2>2. QED
    BY <1>1, <2>1, Zenon
<1>4. OpenPiece = Piece(a, o)
  BY <1>2, <1>3, Zenon
<1>5. DonePieces \in Seq(Seq(Located)) /\ OpenPiece \in Seq(Located)
  BY PiecesType
<1>6. DonePieces' = Append(DonePieces, LinePiece(source[cl]))
  <2>1. m \in Nat /\ cl' - 1 = m + 1 /\ m + 1 = cl
    BY <1>1
  <2>2. DonePieces' = [i \in 1 .. m + 1 |-> LinePiece(source[i])]
    BY <2>1, Zenon DEF DonePieces
  <2>3. DonePieces = [i \in 1 .. m |-> LinePiece(source[i])]
    BY DEF DonePieces
  <2> HIDE DEF m
  <2> DEFINE D == DonePieces
             e == LinePiece(source[m + 1])
  <2>4. Append(D, e) = [i \in 1 .. m + 1 |-> IF i = m + 1 THEN e ELSE D[i]]
    <3>1. Len(D) = m
      BY <2>1, <2>3
    <3> HIDE DEF D, e
    <3>2. D \in Seq(Seq(Located))
      BY <1>5 DEF D
    <3>3. e \in Seq(Located)
      <4>1. e = LinePiece(source[cl])
        BY <2>1, Zenon DEF e
      <4>2. LinePiece(source[cl]) = OpenPiece
        BY <1>4 DEF LinePiece
      <4>3. QED
        BY <1>5, <4>1, <4>2, Zenon
    <3> DEFINE X == Seq(Located)
               A == Append(D, e)
    <3> HIDE DEF X
    <3>4. D \in Seq(X) /\ e \in X
      BY <3>2, <3>3 DEF X
    <3>5. A \in Seq(X) /\ Len(A) = Len(D) + 1 /\ A[Len(D) + 1] = e /\ \A i \in 1 .. Len(D) : A[i] = D[i]
      BY <3>4
    <3>6. Len(A) = m + 1 /\ A[m + 1] = e /\ \A i \in 1 .. m : A[i] = D[i]
      BY <3>1, <3>5, Zenon
    <3> HIDE DEF A
    <3>7. A = [i \in 1 .. m + 1 |-> A[i]]
      BY <3>5, <3>6
    <3>8. \A i \in 1 .. m + 1 : i = m + 1 \/ i \in 1 .. m
      BY <2>1
    <3>9. A = [i \in 1 .. m + 1 |-> IF i = m + 1 THEN e ELSE D[i]]
      BY <3>6, <3>7, <3>8
    <3>10. QED
      BY <3>9 DEF A
  <2>5. \A i \in 1 .. m + 1 : LinePiece(source[i]) = IF i = m + 1 THEN e ELSE D[i]
    <3>1. SUFFICES ASSUME NEW i \in 1 .. m + 1
                   PROVE  LinePiece(source[i]) = IF i = m + 1 THEN e ELSE D[i]
      OBVIOUS
    <3>2. i = m + 1 \/ i \in 1 .. m
      BY <2>1
    <3>3. QED
      BY <2>3, <3>2, Zenon
  <2>6. Append(D, e) = DonePieces'
    <3> HIDE DEF D, e
    <3>1. QED
      BY <2>2, <2>4, <2>5
  <2>7. QED
    BY <2>1, <2>6, Zenon
<1>7. FlattenSeq(DonePieces') = FlattenSeq(DonePieces) \o OpenPiece
  <2>1. LinePiece(source[cl]) = OpenPiece
    BY <1>4 DEF LinePiece
  <2>2. QED
    BY <1>5, <1>6, <2>1, FlattenProperties
<1>8. OpenPiece' = << >>
  <2>1. CASE cl' <= Len(source)
    <3>1. OpenPiece' = Piece(source[cl'].addr, SubSeq(source[cl'].output, 1, 0))
      BY <2>1 DEF OpenPiece
    <3>2. cl' \in 1 .. Len(source)
      BY <1>1, <2>1
    <3> DEFINE aa == source[cl'].addr
               oo == source[cl'].output
    <3>3. aa \in Int /\ oo \in Seq(Octet)
      BY <1>1, <3>2
    <3> HIDE DEF aa, oo
    <3>4. SubSeq(oo, 1, 0) = << >>
      BY SubSeqEmpty
    <3>5. Piece(aa, << >>) = << >>
      BY DEF Piece
    <3>6. QED
      BY <3>1, <3>4, <3>5, Zenon DEF aa, oo
  <2>2. CASE ~(cl' <= Len(source))
    BY <2>2 DEF OpenPiece
  <2>3. QED
    BY <2>1, <2>2
<1>9. FlattenSeq(DonePieces) \in Seq(Located)
  BY <1>5, FlattenProperties
<1>10. QED
  <2> DEFINE f == FlattenSeq(DonePieces) \o OpenPiece
  <2>1. f \in Seq(Located)
    BY <1>5, <1>9
  <2>2. Fetched' = FlattenSeq(DonePieces') \o OpenPiece'
    BY DEF Fetched
  <2>3. Fetched' = f \o << >>
    BY <1>7, <1>8, <2>2, Zenon
  <2> HIDE DEF f
  <2>4. f \o << >> = f
    BY <2>1
  <2>5. QED
    BY <2>3, <2>4 DEF f, Fetched

-----------------------------------------------------------------------------
(* Memory m is m0 with the bytes bs in it, later ones over earlier ones. *)
Holds(m, m0, bs) ==
    \A a \in RamAddr :
       \/ \E i \in DOMAIN bs :
             /\ bs[i][1] = a
             /\ \A j \in DOMAIN bs : bs[j][1] = a => j <= i
             /\ m[a] = bs[i][2]
       \/ /\ \A i \in DOMAIN bs : bs[i][1] # a
          /\ m[a] = m0[a]

(* Data stored behind them *)
LEMMA StorePiece ==
    ASSUME NEW m, NEW m0, NEW m2, NEW bs \in Seq(Located), Holds(m, m0, bs),
           NEW r \in WrittenRecord, r.type = "S1",
           \A a \in RamAddr : m2[a] = IF a \in Cells(r) THEN r.data[a - r.addr + 1] ELSE m[a]
    PROVE  Holds(m2, m0, bs \o RecordBytes(r))
<1> DEFINE addr == r.addr
           d == r.data
           p == Piece(addr, d)
           n == Len(d)
           k == Len(bs)
           u == bs \o p
<1>1. addr \in Int /\ d \in Seq(Octet) /\ n \in Nat /\ k \in Nat
  <2>1. addr \in Address /\ d \in Seq(Octet)
    BY DEF WrittenRecord
  <2>2. QED
    BY <2>1, AddressRange
<1>2. Cells(r) = addr .. addr + n - 1 /\ RecordBytes(r) = p
  BY DEF Cells, RecordBytes
<1> HIDE DEF addr, d
<1>3. p \in Seq(Located) /\ Len(p) = n
  <2>1. 0 \in Octet
    BY DEF Octet
  <2>2. QED
    BY <1>1, <2>1, PieceProperties
<1>4. \A i \in 1 .. n : p[i] = << addr + i - 1, d[i] >>
  BY DEF Piece
<1>5. DOMAIN bs = 1 .. k
  OBVIOUS
<1> HIDE DEF p
<1>6. /\ u \in Seq(Located) /\ Len(u) = k + Len(p)
      /\ \A i \in 1 .. k + Len(p) : u[i] = IF i <= k THEN bs[i] ELSE p[i - k]
  BY <1>3, ConcatProperties
<1> HIDE DEF u, k, n
<1>7. DOMAIN u = 1 .. k + n /\ \A i \in 1 .. k + n : u[i] = IF i <= k THEN bs[i] ELSE p[i - k]
  <2>1. Len(u) = k + n
    BY <1>3, <1>6, Zenon
  <2>2. DOMAIN u = 1 .. k + n
    BY <1>6, <2>1
  <2>3. QED
    BY <1>3, <1>6, <2>2, Zenon
<1>8. \A i \in 1 .. k : i \in 1 .. k + n /\ u[i] = bs[i]
  BY <1>1, <1>7
<1>9. ASSUME NEW i \in 1 .. k + n, ~(i <= k)
      PROVE  i - k \in 1 .. n /\ u[i] = << addr + (i - k) - 1, d[i - k] >>
  <2>1. i - k \in 1 .. n
    BY <1>1, <1>9
  <2>2. QED
    BY <1>4, <1>7, <1>9, <2>1, Zenon
<1>10. SUFFICES ASSUME NEW a \in RamAddr
                PROVE  \/ \E i \in DOMAIN u :
                             /\ u[i][1] = a
                             /\ \A j \in DOMAIN u : u[j][1] = a => j <= i
                             /\ m2[a] = u[i][2]
                       \/ /\ \A i \in DOMAIN u : u[i][1] # a
                          /\ m2[a] = m0[a]
  BY <1>2, Zenon DEF Holds, u
<1>11. m2[a] = IF a \in Cells(r) THEN d[a - addr + 1] ELSE m[a]
  BY DEF d, addr
<1>12. a \in Int
  BY FileFacts, AddressRange
<1>13. CASE a \in Cells(r)
  <2> DEFINE q == a - addr + 1
             i == k + q
  <2>1. q \in 1 .. n /\ i \in 1 .. k + n /\ ~(i <= k) /\ i - k = q /\ addr + q - 1 = a
    BY <1>1, <1>2, <1>12, <1>13
  <2>2. u[i] = << addr + (i - k) - 1, d[i - k] >>
    BY <1>9, <2>1
  <2>3. u[i] = << a, d[q] >>
    BY <2>1, <2>2
  <2>4. ASSUME NEW j \in 1 .. k + n, u[j][1] = a
        PROVE  j <= i
    <3>1. CASE j <= k
      BY <1>1, <2>1, <3>1
    <3>2. CASE ~(j <= k)
      <4>1. u[j] = << addr + (j - k) - 1, d[j - k] >>
        BY <1>9, <3>2
      <4>2. addr + (j - k) - 1 = a
        BY <2>4, <4>1
      <4>3. QED
        BY <1>1, <1>12, <4>2
    <3>3. QED
      BY <3>1, <3>2
  <2>5. m2[a] = d[q]
    BY <1>11, <1>13
  <2> HIDE DEF i, q
  <2>6. i \in DOMAIN u /\ u[i][1] = a /\ u[i][2] = d[q] /\ \A j \in DOMAIN u : u[j][1] = a => j <= i
    BY <1>7, <2>1, <2>3, <2>4
  <2>7. QED
    BY <2>5, <2>6
<1>14. CASE a \notin Cells(r)
  <2>1. m2[a] = m[a]
    BY <1>11, <1>14
  <2>2. ASSUME NEW j \in 1 .. k + n, u[j][1] = a
        PROVE  j \in 1 .. k /\ bs[j][1] = a
    <3>1. CASE j <= k
      BY <1>1, <1>8, <2>2, <3>1
    <3>2. CASE ~(j <= k)
      <4>1. u[j] = << addr + (j - k) - 1, d[j - k] >> /\ j - k \in 1 .. n
        BY <1>9, <3>2
      <4>2. addr + (j - k) - 1 = a
        BY <2>2, <4>1
      <4>3. a \in Cells(r)
        BY <1>1, <1>2, <4>1, <4>2
      <4>4. QED
        BY <1>14, <4>3
    <3>3. QED
      BY <3>1, <3>2
  <2>3. CASE \E i \in DOMAIN bs :
               /\ bs[i][1] = a
               /\ \A j \in DOMAIN bs : bs[j][1] = a => j <= i
               /\ m[a] = bs[i][2]
    <3>1. PICK i \in 1 .. k : /\ bs[i][1] = a
                              /\ \A j \in 1 .. k : bs[j][1] = a => j <= i
                              /\ m[a] = bs[i][2]
      BY <1>5, <2>3
    <3>2. i \in DOMAIN u /\ u[i] = bs[i]
      BY <1>7, <1>8
    <3>3. \A j \in DOMAIN u : u[j][1] = a => j <= i
      BY <1>7, <2>2, <3>1
    <3>4. QED
      BY <2>1, <3>1, <3>2, <3>3
  <2>4. CASE (\A i \in DOMAIN bs : bs[i][1] # a) /\ m[a] = m0[a]
    <3>1. \A i \in DOMAIN u : u[i][1] # a
      BY <1>5, <1>7, <2>2, <2>4
    <3>2. QED
      BY <2>1, <2>4, <3>1
  <2>5. QED
    BY <2>3, <2>4 DEF Holds
<1>15. QED
  BY <1>13, <1>14

-----------------------------------------------------------------------------
(* What the loader and the host are at *)
Loaded == FileBytes(SubSeq(file, 1, next - 1))

(* A file that is as it was written *)
WholeInv ==
    /\ file \in Seq(Written)
    /\ FileBytes(file) = ProgramBytes
    /\ file # << >> => ParseLine(file[Len(file)]) = StartAt(start)
    /\ phase \in {"load", "run"} => Holds(ram, before, Loaded)
    /\ phase \in {"load", "run"} /\ file # << >> /\ next > Len(file) => recStart = start /\ startAddrSet
    /\ phase = "run" => file # << >> /\ next > Len(file)

(* One with a damaged line *)
DamagedInv ==
    /\ damaged \in 1 .. Len(file)
    /\ ParseLine(file[damaged]) = [type |-> Refused]
    /\ \A i \in 1 .. Len(file) : i # damaged => ParseLine(file[i]) \in WrittenRecord
    /\ next <= damaged
    /\ phase \in {"load", "given up"}
    /\ phase = "given up" => next = damaged

LoadInv ==
    /\ Len(file) \in Nat /\ DOMAIN file = 1 .. Len(file)
    /\ next \in 1 .. Len(file) + 1
    /\ accepted \in Seq(WrittenRecord) /\ Len(accepted) = next - 1
    /\ damaged = 0 => WholeInv
    /\ damaged # 0 => DamagedInv

FileInv ==
    /\ WriterInv
    /\ RecordFits
    /\ failed => damaged = 0
    /\ phase = "assemble" => AssembleInv
    /\ phase # "assemble" /\ ~failed => LoadInv

-----------------------------------------------------------------------------
(* A line printed behind others *)
LEMMA PrintLine ==
    ASSUME NEW f \in Seq(Written), NEW line, NEW r, IsWritten(line, r)
    PROVE  /\ f \o << line >> = Append(f, line)
           /\ f \o << line >> \in Seq(Written)
           /\ FileBytes(f \o << line >>) = FileBytes(f) \o RecordBytes(r)
<1>1. line \in Written /\ LineBytes(line) = RecordBytes(r)
  BY DEF IsWritten
<1>2. f \o << line >> = Append(f, line)
  BY <1>1
<1>3. Append(f, line) \in Seq(Written)
  BY <1>1
<1>4. FileBytes(Append(f, line)) = FileBytes(f) \o LineBytes(line)
  BY <1>1, FileBytesProperties, Zenon
<1>5. QED
  BY <1>1, <1>2, <1>3, <1>4, Zenon

(* One that holds no bytes *)
LEMMA PrintNoBytes ==
    ASSUME NEW f \in Seq(Written), NEW line, NEW r, IsWritten(line, r), r.type # "S1"
    PROVE  /\ f \o << line >> = Append(f, line)
           /\ f \o << line >> \in Seq(Written)
           /\ FileBytes(f \o << line >>) = FileBytes(f)
<1>1. /\ f \o << line >> = Append(f, line) /\ f \o << line >> \in Seq(Written)
      /\ FileBytes(f \o << line >>) = FileBytes(f) \o RecordBytes(r)
  BY PrintLine, Zenon
<1>2. RecordBytes(r) = << >>
  BY DEF RecordBytes
<1>3. FileBytes(f) \o << >> = FileBytes(f)
  <2>1. FileBytes(f) \in Seq(Located)
    BY FileBytesProperties
  <2>2. QED
    BY <2>1
<1>4. QED
  BY <1>1, <1>2, <1>3, Zenon

LEMMA PrintHeader ==
    ASSUME NEW f \in Seq(Written)
    PROVE  f \o HeaderLines \in Seq(Written) /\ FileBytes(f \o HeaderLines) = FileBytes(f)
<1>1. CASE reccnt < 0
  <2>1. HeaderLines = << LineOf(0, << 0, 0 >> \o HeaderText) >>
    BY <1>1 DEF HeaderLines
  <2>2. Header.type # "S1"
    BY DEF Header
  <2>3. QED
    BY <2>1, <2>2, HeaderWritten, PrintNoBytes, Zenon
<1>2. CASE ~(reccnt < 0)
  <2>1. HeaderLines = << >>
    BY <1>2 DEF HeaderLines
  <2>2. f \o << >> = f
    OBVIOUS
  <2>3. QED
    BY <2>1, <2>2, Zenon
<1>3. QED
  BY <1>1, <1>2

LEMMA PrintData ==
    ASSUME NEW f \in Seq(Written), recaddr \in Address, recdata \in Seq(Octet), Len(recdata) <= 16
    PROVE  /\ f \o DataLines \in Seq(Written)
           /\ FileBytes(f \o DataLines) = FileBytes(f) \o Piece(recaddr, recdata)
           /\ Len(DataLines) = IF recdata = << >> THEN 0 ELSE 1
<1>0. FileBytes(f) \in Seq(Located)
  BY FileBytesProperties
<1>1. CASE recdata = << >>
  <2>1. DataLines = << >> /\ Piece(recaddr, recdata) = << >>
    BY <1>1 DEF DataLines, Piece
  <2>2. f \o << >> = f /\ FileBytes(f) \o << >> = FileBytes(f) /\ Len(<< >>) = 0
    BY <1>0
  <2>3. f \o DataLines = f /\ Piece(recaddr, recdata) = << >> /\ Len(DataLines) = 0
    BY <2>1, <2>2, Zenon
  <2>4. QED
    BY <1>1, <2>2, <2>3, Zenon
<1>2. CASE recdata # << >>
  <2>1. DataLines = << DataLine >> /\ Len(DataLines) = 1
    BY <1>2 DEF DataLines
  <2>2. IsWritten(DataLine, Data(recaddr, recdata))
    BY DataWritten, Zenon DEF DataLine
  <2>3. RecordBytes(Data(recaddr, recdata)) = Piece(recaddr, recdata)
    BY DEF RecordBytes, Data
  <2>4. f \o << DataLine >> \in Seq(Written)
        /\ FileBytes(f \o << DataLine >>) = FileBytes(f) \o RecordBytes(Data(recaddr, recdata))
    BY <2>2, PrintLine, Zenon
  <2>5. QED
    BY <1>2, <2>1, <2>3, <2>4, Zenon
<1>3. QED
  BY <1>1, <1>2

-----------------------------------------------------------------------------
(* The arithmetic of a record that grows by the byte behind it *)
LEMMA RecordGrows ==
    ASSUME NEW a \in Nat, NEW n \in Nat, n # 0, n <= 16, NEW last \in Int,
           last = a + n - 1, a \div 16 = last \div 16, (last + 1) % 16 # 0
    PROVE  n + 1 <= 16 /\ a \div 16 = (last + 1) \div 16 /\ last + 1 = a + (n + 1) - 1
  OBVIOUS

(* A byte fetched keeps the record within its 16 bytes. *)
LEMMA WriteByteFits ==
    ASSUME WriterInv, RecordFits, WriteByte
    PROVE  WriterInv' /\ RecordFits'
<1> DEFINE b == source[cl].output[outidx + 1]
           n == Len(recdata)
<1>1. /\ cl <= Len(source) /\ outidx < Len(source[cl].output)
      /\ lastaddr' = Outaddr /\ outidx' = outidx + 1
      /\ UNCHANGED << source, start, cl, failed >>
  BY DEF WriteByte
<1>2. Outaddr \in Address /\ Outaddr \in Nat /\ b \in Octet
  BY <1>1, FetchByte
<1>3. /\ reccnt \in Int /\ reccnt >= -1 /\ recaddr \in Address /\ recdata \in Seq(Octet) /\ lastaddr \in Int
      /\ recdata = << >> <=> lastaddr = -2
      /\ recdata = << >> <=> reccnt = -1
  BY DEF WriterInv
<1>4. n \in Nat /\ recaddr \in Nat
  BY <1>3, AddressRange
<1>5. recdata' \in Seq(Octet) /\ recdata' # << >> /\ recaddr' \in Address /\ reccnt' \in Int /\ reccnt' >= 0
      /\ RecordFits'
  <2>1. CASE StartsRecord
    <3>1. recaddr' = Outaddr /\ recdata' = << b >> /\ reccnt' = (IF reccnt < 0 THEN 0 ELSE reccnt) + Len(DataLines)
      BY <2>1 DEF WriteByte
    <3>2. Len(DataLines) \in Nat
      BY DEF DataLines
    <3> HIDE DEF b
    <3>3. Len(recdata') = 1 /\ recdata' \in Seq(Octet) /\ recdata' # << >>
      BY <1>2, <3>1
    <3> DEFINE k == Len(DataLines)
    <3> HIDE DEF k
    <3>4. reccnt' \in Int /\ reccnt' >= 0
      BY <1>3, <3>1, <3>2 DEF k
    <3>5. RecordFits'
      BY <1>1, <1>2, <3>1, <3>3 DEF RecordFits, RecordLength
    <3>6. QED
      BY <1>2, <3>1, <3>3, <3>4, <3>5
  <2>2. CASE ~StartsRecord
    <3>1. recdata' = Append(recdata, b) /\ UNCHANGED << reccnt, recaddr >>
      BY <2>2 DEF WriteByte
    <3>2. Outaddr = lastaddr + 1 /\ Outaddr % 16 # 0
      BY <2>2 DEF StartsRecord, RecordLength
    <3>3. recdata # << >>
      BY <1>2, <1>3, <3>2
    <3>4. n # 0
      BY <1>3, <3>3
    <3>5. n <= 16 /\ lastaddr = recaddr + n - 1 /\ recaddr \div 16 = lastaddr \div 16
      BY <3>3 DEF RecordFits, RecordLength
    <3> HIDE DEF b
    <3>6. Len(recdata') = n + 1 /\ recdata' \in Seq(Octet) /\ recdata' # << >>
      BY <1>2, <1>3, <3>1
    <3> HIDE DEF n
    <3>7. n + 1 <= 16 /\ recaddr \div 16 = (lastaddr + 1) \div 16 /\ lastaddr + 1 = recaddr + (n + 1) - 1
      BY <1>3, <1>4, <3>2, <3>4, <3>5, RecordGrows
    <3>8. RecordFits'
      BY <1>1, <3>1, <3>2, <3>6, <3>7 DEF RecordFits, RecordLength
    <3>9. reccnt' \in Int /\ reccnt' >= 0
      BY <1>3, <3>1, <3>3
    <3>10. QED
      BY <1>3, <3>1, <3>6, <3>8, <3>9
  <2>3. QED
    BY <2>1, <2>2
<1>6. WriterInv'
  <2>1. source' = source /\ start' = start /\ cl' = cl /\ failed' = failed
    BY <1>1
  <2>2. outidx' \in Nat /\ (cl <= Len(source) => outidx' <= Len(source[cl].output))
    <3> DEFINE m == Len(source[cl].output)
    <3>1. source \in Sources /\ cl \in 1 .. Len(source) + 1 /\ outidx \in Nat
      BY DEF WriterInv
    <3>2. cl \in 1 .. Len(source)
      <4>1. Len(source) \in Nat
        BY <3>1, SourceFacts
      <4>2. QED
        BY <1>1, <3>1, <4>1
    <3>3. m \in Nat
      BY <3>1, <3>2, SourceFacts
    <3>4. outidx < m
      BY <1>1
    <3> HIDE DEF m
    <3>5. outidx' \in Nat /\ outidx' <= m
      BY <1>1, <3>1, <3>3, <3>4
    <3>6. QED
      BY <3>5 DEF m
  <2>3. lastaddr' \in Int /\ lastaddr' # -2 /\ reccnt' # -1 /\ reccnt' >= -1
    BY <1>1, <1>2, <1>5
  <2>4. QED
    BY <1>5, <2>1, <2>2, <2>3 DEF WriterInv
<1>7. QED
  BY <1>5, <1>6

(* What a byte fetched does to the records *)
LEMMA WriteByteFetches ==
    ASSUME WriterInv, RecordFits, AssembleInv, WriteByte
    PROVE  AssembleInv'
<1> DEFINE b == source[cl].output[outidx + 1]
           e == << Outaddr, b >>
<1>1. /\ cl <= Len(source) /\ outidx < Len(source[cl].output)
      /\ outidx' = outidx + 1 /\ UNCHANGED << source, cl, failed, damaged, next >>
  BY DEF WriteByte
<1>2. Outaddr \in Nat /\ b \in Octet /\ Fetched' = Append(Fetched, e)
  BY <1>1, FetchByte
<1>3. /\ reccnt \in Int /\ reccnt >= -1 /\ recaddr \in Address /\ recdata \in Seq(Octet) /\ lastaddr \in Int
      /\ recdata = << >> <=> lastaddr = -2
  BY DEF WriterInv
<1>4. /\ ~failed /\ damaged = 0 /\ next = 1 /\ file \in Seq(Written)
      /\ recdata = << >> => file = << >>
      /\ FileBytes(file) \o Piece(recaddr, recdata) = Fetched
  BY DEF AssembleInv
<1>5. recaddr \in Int /\ Len(recdata) <= 16 /\ 0 \in Octet
  BY <1>3, AddressRange DEF RecordFits, RecordLength, Octet
<1>6. FileBytes(file) \in Seq(Located) /\ Piece(recaddr, recdata) \in Seq(Located)
  BY <1>3, <1>4, <1>5, FileBytesProperties, PieceProperties
<1> HIDE DEF b
<1>7. CASE StartsRecord
  <2>1. file' = (file \o HeaderLines) \o DataLines /\ recaddr' = Outaddr /\ recdata' = << b >>
    BY <1>7, Zenon DEF WriteByte, b
  <2>2. file \o HeaderLines \in Seq(Written) /\ FileBytes(file \o HeaderLines) = FileBytes(file)
    BY <1>4, PrintHeader
  <2>3. file' \in Seq(Written) /\ FileBytes(file') = FileBytes(file) \o Piece(recaddr, recdata)
    BY <1>3, <1>5, <2>1, <2>2, PrintData, Zenon
  <2>4. Piece(recaddr', recdata') = << e >>
    <3>1. Outaddr \in Int
      BY <1>2
    <3>2. Piece(Outaddr, << b >>) = << << Outaddr, b >> >>
      BY <1>2, <1>3, <3>1, PieceProperties
    <3>3. QED
      BY <2>1, <3>2, Zenon DEF e
  <2>5. recdata' # << >>
    BY <2>1
  <2>6. FileBytes(file') = Fetched
    BY <1>4, <2>3, Zenon
  <2>7. FileBytes(file') \o Piece(recaddr', recdata') = Fetched'
    <3>1. Fetched \in Seq(Located) /\ e \in Located
      <4>1. FileBytes(file) \o Piece(recaddr, recdata) \in Seq(Located)
        BY <1>6, ConcatProperties
      <4>2. e \in Located
        BY <1>2 DEF Located
      <4>3. QED
        BY <1>4, <4>1, <4>2, Zenon
    <3> HIDE DEF e
    <3>2. Fetched \o << e >> = Append(Fetched, e)
      BY <3>1
    <3>3. QED
      BY <1>2, <2>4, <2>6, <3>2, Zenon
  <2>8. QED
    BY <1>1, <1>4, <2>3, <2>5, <2>7 DEF AssembleInv
<1>8. CASE ~StartsRecord
  <2>1. recdata' = Append(recdata, b) /\ file' = file /\ recaddr' = recaddr
    BY <1>8 DEF WriteByte, b
  <2>2. Outaddr = lastaddr + 1
    BY <1>8 DEF StartsRecord
  <2>3. recdata # << >>
    BY <1>2, <1>3, <2>2
  <2>4. lastaddr = recaddr + Len(recdata) - 1
    BY <2>3 DEF RecordFits
  <2> DEFINE n == Len(recdata)
  <2>5. recaddr + n = Outaddr
    <3>1. n \in Nat
      BY <1>3
    <3> HIDE DEF n
    <3>2. QED
      BY <1>3, <1>5, <2>2, <2>4, <3>1 DEF n
  <2>6. Piece(recaddr, Append(recdata, b)) = Append(Piece(recaddr, recdata), << recaddr + Len(recdata), b >>)
    BY <1>2, <1>3, <1>5, PieceProperties
  <2>7. Piece(recaddr', recdata') = Append(Piece(recaddr, recdata), e)
    BY <2>1, <2>5, <2>6, Zenon DEF n, e
  <2> DEFINE f == FileBytes(file)
             p == Piece(recaddr, recdata)
  <2>8. f \in Seq(Located) /\ p \in Seq(Located) /\ e \in Located
    BY <1>2, <1>6 DEF Located
  <2>9. f \o p = Fetched /\ FileBytes(file') \o Piece(recaddr', recdata') = f \o Append(p, e)
    BY <1>4, <2>1, <2>7, Zenon
  <2> HIDE DEF f, p, e
  <2>10. f \o Append(p, e) = Append(f \o p, e)
    BY <2>8
  <2>11. FileBytes(file') \o Piece(recaddr', recdata') = Fetched'
    BY <1>2, <2>9, <2>10, Zenon
  <2>12. recdata' # << >>
    BY <1>2, <1>3, <2>1
  <2>13. QED
    BY <1>1, <1>4, <2>1, <2>11, <2>12 DEF AssembleInv
<1>9. QED
  BY <1>7, <1>8

-----------------------------------------------------------------------------
(* With the lines through, what was fetched is the program. *)
LEMMA FetchedIsProgram ==
    ASSUME WriterInv, cl > Len(source)
    PROVE  Fetched = ProgramBytes
<1>1. Len(source) \in Nat /\ cl \in 1 .. Len(source) + 1 /\ DOMAIN source = 1 .. Len(source)
  BY SourceFacts DEF WriterInv
<1>2. cl - 1 = Len(source) /\ ~(cl <= Len(source))
  BY <1>1
<1>3. OpenPiece = << >>
  BY <1>2 DEF OpenPiece
<1>4. DonePieces = [i \in DOMAIN source |-> LinePiece(source[i])]
  BY <1>1, <1>2 DEF DonePieces
<1>5. ProgramBytes = FlattenSeq([i \in DOMAIN source |-> LinePiece(source[i])])
  BY Zenon DEF ProgramBytes, LinePiece, Piece
<1>6. FlattenSeq(DonePieces) \in Seq(Located)
  BY PiecesType, FlattenProperties
<1>7. FlattenSeq(DonePieces) \o << >> = FlattenSeq(DonePieces)
  BY <1>6
<1>8. QED
  BY <1>3, <1>4, <1>5, <1>7, Zenon DEF Fetched

(* Two lines are one and then another. *)
LEMMA JoinTwo ==
    ASSUME NEW f \in Seq(Written), NEW c \in Written, NEW s \in Written
    PROVE  f \o << c, s >> = (f \o << c >>) \o << s >>
<1> DEFINE x == << c >>
           y == << s >>
           z == << c, s >>
           X == Written
<1> HIDE DEF X
<1>1. c \in X /\ s \in X /\ f \in Seq(X)
  BY DEF X
<1>2. x \in Seq(X) /\ y \in Seq(X) /\ z \in Seq(X)
  BY <1>1
<1>3. z = x \o y
  <2>1. Len(z) = 2 /\ z[1] = c /\ z[2] = s
    OBVIOUS
  <2>2. x \o y \in Seq(X) /\ Len(x \o y) = 2 /\ (x \o y)[1] = c /\ (x \o y)[2] = s
    BY <1>1
  <2> DEFINE j == x \o y
  <2> HIDE DEF x, y, z
  <2>3. j \in Seq(X) /\ Len(j) = 2 /\ j[1] = c /\ j[2] = s
    BY <2>2 DEF x, y
  <2> HIDE DEF j
  <2>4. Len(z) = 2 /\ z[1] = c /\ z[2] = s
    BY <2>1 DEF z
  <2>5. \A i \in 1 .. Len(z) : z[i] = j[i]
    BY <2>3, <2>4
  <2>6. z = j
    BY <1>2, <2>3, <2>4, <2>5, SeqEqual
  <2>7. QED
    BY <2>6 DEF j
<1> DEFINE g == f \o x
<1>4. g = f \o x
  OBVIOUS
<1> HIDE DEF x, y, z, g
<1>5. g \o y = f \o z
  BY <1>1, <1>2, <1>3, <1>4, JoinThree
<1>6. QED
  BY <1>5 DEF g, x, y, z

(* The lines that close the file *)
LEMMA PrintTrailer ==
    ASSUME NEW f \in Seq(Written), NEW n \in Nat \ {0}, start \in Address
    PROVE  /\ f \o Trailer(n) \in Seq(Written)
           /\ FileBytes(f \o Trailer(n)) = FileBytes(f)
           /\ f \o Trailer(n) # << >>
           /\ ParseLine((f \o Trailer(n))[Len(f \o Trailer(n))]) = StartAt(start)
<1> DEFINE c == LineOf(5, HighLow(n))
           s == LineOf(9, HighLow(start))
           g == f \o << c >>
           h == g \o << s >>
<1>1. IsWritten(c, Counted)
  BY CountWritten
<1>2. IsWritten(s, StartAt(start))
  <2>1. << >> \in Seq(Octet) /\ Len(<< >>) <= 16
    OBVIOUS
  <2>2. QED
    BY <2>1, DataWritten, Zenon
<1>3. Trailer(n) = << c, s >>
  BY DEF Trailer
<1>4. Counted.type # "S1" /\ StartAt(start).type # "S1"
  BY DEF Counted, StartAt
<1> HIDE DEF c, s
<1>5. g = Append(f, c) /\ g \in Seq(Written) /\ FileBytes(g) = FileBytes(f)
  BY <1>1, <1>4, PrintNoBytes, Zenon
<1> HIDE DEF g
<1>6. h = Append(g, s) /\ h \in Seq(Written) /\ FileBytes(h) = FileBytes(g)
  BY <1>2, <1>4, <1>5, PrintNoBytes, Zenon
<1>7. c \in Written /\ s \in Written /\ ParseLine(s) = StartAt(start)
  BY <1>1, <1>2 DEF IsWritten
<1>8. f \o << c, s >> = h
  BY <1>7, JoinTwo, Zenon DEF g
<1> HIDE DEF h
<1>9. h # << >> /\ h[Len(h)] = s
  BY <1>5, <1>6, <1>7
<1>10. QED
  BY <1>3, <1>5, <1>6, <1>7, <1>8, <1>9, Zenon

(* The file that is written holds the program. *)
LEMMA WriteEndWrites ==
    ASSUME WriterInv, RecordFits, AssembleInv, WriteEnd
    PROVE  /\ file' \in Seq(Written)
           /\ FileBytes(file') = ProgramBytes
           /\ file' # << >> => ParseLine(file'[Len(file')]) = StartAt(start)
           /\ reccnt' \in Int /\ reccnt' >= -1 /\ (recdata = << >> <=> reccnt' = -1)
<1>1. cl > Len(source) /\ reccnt' = reccnt + Len(DataLines) /\ file' = (file \o DataLines) \o Trailer(reccnt')
  BY Zenon DEF WriteEnd
<1>2. /\ reccnt \in Int /\ reccnt >= -1 /\ recaddr \in Address /\ recdata \in Seq(Octet)
      /\ recdata = << >> <=> reccnt = -1
      /\ start \in Address
  BY FileFacts DEF WriterInv
<1>3. Len(recdata) <= 16
  BY DEF RecordFits, RecordLength
<1>4. file \in Seq(Written) /\ FileBytes(file) \o Piece(recaddr, recdata) = Fetched
      /\ (recdata = << >> => file = << >>)
  BY DEF AssembleInv
<1> DEFINE g == file \o DataLines
<1>5. g \in Seq(Written) /\ FileBytes(g) = ProgramBytes /\ Len(DataLines) = IF recdata = << >> THEN 0 ELSE 1
  BY <1>1, <1>2, <1>3, <1>4, PrintData, FetchedIsProgram, Zenon
<1> DEFINE k == Len(DataLines)
           n == reccnt'
<1>6. CASE recdata = << >>
  <2>1. k = 0
    BY <1>5, <1>6
  <2> HIDE DEF k
  <2>2. n = -1
    BY <1>1, <1>2, <1>6, <2>1 DEF k
  <2>3. Trailer(n) = << >>
    BY <2>2 DEF Trailer
  <2>4. g = << >>
    <3>1. DataLines = << >> /\ << >> \o << >> = << >>
      BY <1>6 DEF DataLines
    <3>2. QED
      BY <1>4, <1>6, <3>1, Zenon
  <2>5. file' = << >>
    <3>1. << >> \o << >> = << >>
      OBVIOUS
    <3>2. QED
      BY <1>1, <2>3, <2>4, <3>1, Zenon
  <2>6. file' = g
    BY <2>4, <2>5
  <2>7. file' \in Seq(Written) /\ FileBytes(file') = ProgramBytes
    BY <1>5, <2>6, Zenon
  <2>8. QED
    BY <1>6, <2>2, <2>5, <2>7
<1>7. CASE recdata # << >>
  <2>1. k = 1
    BY <1>5, <1>7
  <2> HIDE DEF k
  <2>2. n \in Nat \ {0} /\ n \in Int /\ n >= -1 /\ n # -1
    BY <1>1, <1>2, <1>7, <2>1 DEF k
  <2> HIDE DEF g, n
  <2>3. file' = g \o Trailer(n)
    BY <1>1, Zenon DEF g, n
  <2>4. /\ g \o Trailer(n) \in Seq(Written)
        /\ FileBytes(g \o Trailer(n)) = FileBytes(g)
        /\ ParseLine((g \o Trailer(n))[Len(g \o Trailer(n))]) = StartAt(start)
    BY <1>2, <1>5, <2>2, PrintTrailer
  <2>5. /\ file' \in Seq(Written) /\ FileBytes(file') = ProgramBytes
        /\ ParseLine(file'[Len(file')]) = StartAt(start)
    BY <1>5, <2>3, <2>4, Zenon
  <2>6. QED
    BY <1>7, <2>2, <2>5, Zenon DEF n
<1>8. QED
  BY <1>6, <1>7

LEMMA AssembleStep ==
    ASSUME FileInv, phase = "assemble"
    PROVE  WriterInv /\ RecordFits /\ AssembleInv /\ ~failed /\ damaged = 0 /\ next = 1
  BY DEF FileInv, AssembleInv

LEMMA WriteByteKeeps ==
    ASSUME FileInv, WriteByte
    PROVE  FileInv'
<1>1. phase = "assemble" /\ phase' = phase /\ failed' = failed /\ damaged' = damaged
  BY DEF WriteByte
<1>2. WriterInv /\ RecordFits /\ AssembleInv /\ ~failed
  BY <1>1, AssembleStep
<1>3. WriterInv' /\ RecordFits' /\ AssembleInv'
  BY <1>2, WriteByteFits, WriteByteFetches
<1>4. QED
  BY <1>1, <1>2, <1>3 DEF FileInv

LEMMA WriteNextLineKeeps ==
    ASSUME FileInv, WriteNextLine
    PROVE  FileInv'
<1>1. /\ phase = "assemble" /\ cl <= Len(source) /\ outidx >= Len(source[cl].output)
      /\ cl' = cl + 1 /\ outidx' = 0
      /\ UNCHANGED << source, start, lastaddr, recaddr, recdata, reccnt, file, damaged, phase, next, failed >>
  BY DEF WriteNextLine
<1>2. WriterInv /\ RecordFits /\ AssembleInv /\ ~failed
  BY <1>1, AssembleStep
<1>3. Fetched' = Fetched
  BY <1>1, <1>2, FetchLine
<1>4. WriterInv'
  <2>1. source \in Sources /\ cl \in 1 .. Len(source) + 1
    BY <1>2 DEF WriterInv
  <2>2. Len(source) \in Nat
    BY <2>1, SourceFacts
  <2> DEFINE n == Len(source)
  <2> HIDE DEF n
  <2>3. cl + 1 \in 1 .. n + 1
    BY <1>1, <2>1, <2>2 DEF n
  <2>4. cl' <= Len(source) => outidx' <= Len(source[cl'].output)
    <3>1. SUFFICES ASSUME cl + 1 <= n
                   PROVE  0 <= Len(source[cl + 1].output)
      BY <1>1 DEF n
    <3>2. cl + 1 \in 1 .. Len(source)
      BY <2>1, <2>2, <3>1 DEF n
    <3>3. Len(source[cl + 1].output) \in Nat
      BY <2>1, <3>2, SourceFacts
    <3> DEFINE m == Len(source[cl + 1].output)
    <3> HIDE DEF m
    <3>4. 0 <= m
      BY <3>3 DEF m
    <3>5. QED
      BY <3>4 DEF m
  <2>5. QED
    BY <1>1, <1>2, <2>3, <2>4 DEF WriterInv, n
<1>5. RecordFits'
  BY <1>1, <1>2 DEF RecordFits
<1>6. AssembleInv'
  BY <1>1, <1>2, <1>3 DEF AssembleInv
<1>7. QED
  BY <1>1, <1>2, <1>4, <1>5, <1>6 DEF FileInv

(* Nothing loaded yet *)
LEMMA HoldsNothing ==
    ASSUME NEW m
    PROVE  Holds(m, m, << >>)
  BY DEF Holds

LEMMA WriteEndKeeps ==
    ASSUME FileInv, WriteEnd
    PROVE  FileInv'
<1>1. /\ phase = "assemble" /\ phase' = "load"
      /\ UNCHANGED << source, start, cl, outidx, lastaddr, recaddr, recdata, damaged, next, failed >>
      /\ ram' = ram /\ before' = ram /\ accepted' = << >>
  BY DEF WriteEnd, LoadStart
<1>2. WriterInv /\ RecordFits /\ AssembleInv /\ ~failed /\ damaged = 0 /\ next = 1
  BY <1>1, AssembleStep
<1>3. /\ file' \in Seq(Written)
      /\ FileBytes(file') = ProgramBytes
      /\ file' # << >> => ParseLine(file'[Len(file')]) = StartAt(start)
      /\ reccnt' \in Int /\ reccnt' >= -1 /\ (recdata = << >> <=> reccnt' = -1)
  BY <1>2, WriteEndWrites
<1>4. WriterInv'
  BY <1>1, <1>2, <1>3 DEF WriterInv
<1>5. RecordFits'
  BY <1>1, <1>2 DEF RecordFits
<1>6. ProgramBytes' = ProgramBytes
  BY <1>1 DEF ProgramBytes
<1>7. Loaded' = << >>
  <2>1. SubSeq(file', 1, 0) = << >>
    BY SubSeqEmpty
  <2>2. next' - 1 = 0
    BY <1>1, <1>2
  <2>3. QED
    BY <2>1, <2>2, FileBytesProperties, Zenon DEF Loaded
<1>8. Holds(ram', before', Loaded')
  BY <1>1, <1>7, HoldsNothing, Zenon
<1>9. Len(file') \in Nat /\ (file' # << >> => Len(file') >= 1)
  BY <1>3
<1>10. WholeInv'
  <2>1. file' # << >> => ~(next' > Len(file'))
    <3> DEFINE n == Len(file')
    <3> HIDE DEF n
    <3>1. file' # << >> => ~(next' > n)
      BY <1>1, <1>2, <1>9 DEF n
    <3>2. QED
      BY <3>1 DEF n
  <2>2. QED
    BY <1>1, <1>3, <1>6, <1>8, <2>1, Zenon DEF WholeInv
<1>11. LoadInv'
  <2>1. Len(file') \in Nat /\ DOMAIN file' = 1 .. Len(file')
    BY <1>3
  <2>2. next' \in 1 .. Len(file') + 1
    BY <1>1, <1>2, <1>9
  <2>3. accepted' \in Seq(WrittenRecord) /\ Len(accepted') = next' - 1
    BY <1>1, <1>2
  <2>4. damaged' = 0
    BY <1>1, <1>2
  <2>5. QED
    BY <1>10, <2>1, <2>2, <2>3, <2>4, Zenon DEF LoadInv
<1>12. QED
  BY <1>1, <1>2, <1>4, <1>5, <1>11 DEF FileInv

LEMMA AssemblyFailsKeeps ==
    ASSUME FileInv, AssemblyFails
    PROVE  FileInv'
<1>1. /\ phase = "assemble" /\ phase' = "load" /\ failed' = TRUE
      /\ UNCHANGED << source, start, cl, outidx, lastaddr, recaddr, recdata, reccnt, damaged >>
  BY DEF AssemblyFails, writer
<1>2. WriterInv /\ RecordFits /\ damaged = 0
  BY <1>1, AssembleStep
<1>3. WriterInv'
  BY <1>1, <1>2 DEF WriterInv
<1>4. RecordFits'
  BY <1>1, <1>2 DEF RecordFits
<1>5. QED
  BY <1>1, <1>2, <1>3, <1>4 DEF FileInv

-----------------------------------------------------------------------------
LEMMA LoadStep ==
    ASSUME FileInv, phase = "load"
    PROVE  /\ WriterInv /\ RecordFits /\ (failed => damaged = 0)
           /\ ~failed => LoadInv
  BY DEF FileInv

(* A line damaged is one that is refused; the others are as they were. *)
LEMMA DamageKeeps ==
    ASSUME FileInv, Damage
    PROVE  FileInv'
<1>1. /\ phase = "load" /\ damaged = 0 /\ ~failed /\ next = 1
      /\ UNCHANGED << source, start, cl, outidx, lastaddr, recaddr, recdata, reccnt, phase, next, failed, accepted >>
  BY DEF Damage, writer, loaderVars
<1>2. PICK i \in DOMAIN file :
         \E line \in Damages(file[i]) \ {file[i]} : file' = [file EXCEPT ![i] = line] /\ damaged' = i
  BY Zenon DEF Damage
<1>3. PICK line \in Damages(file[i]) \ {file[i]} : file' = [file EXCEPT ![i] = line] /\ damaged' = i
  BY <1>2
<1>4. WriterInv /\ RecordFits /\ LoadInv
  BY <1>1, LoadStep
<1>5. file \in Seq(Written) /\ Len(file) \in Nat /\ DOMAIN file = 1 .. Len(file)
      /\ accepted \in Seq(WrittenRecord) /\ Len(accepted) = next - 1
  BY <1>1, <1>4 DEF LoadInv, WholeInv
<1>6. WriterInv'
  BY <1>1, <1>4 DEF WriterInv
<1>7. RecordFits'
  BY <1>1, <1>4 DEF RecordFits
<1> DEFINE n == Len(file)
<1>8. i \in 1 .. n
  BY <1>3, <1>5
<1>9. /\ Len(file') = n /\ DOMAIN file' = 1 .. n /\ file'[i] = line
      /\ \A j \in 1 .. n : j # i => file'[j] = file[j]
  <2> DEFINE X == Written \cup {line}
  <2>1. Written \subseteq X /\ line \in X
    OBVIOUS
  <2> HIDE DEF X
  <2>2. file \in Seq(X)
    BY <1>5, <2>1, SeqMonotonic
  <2>3. file' \in Seq(X) /\ Len(file') = n
    BY <1>3, <1>8, <2>1, <2>2, ExceptSeq
  <2>4. DOMAIN file' = 1 .. n
    BY <2>3
  <2>5. QED
    BY <1>3, <1>5, <2>3, <2>4
<1>10. ParseLine(line) = [type |-> Refused]
  <2>1. file[i] \in Written
    BY <1>5, <1>8
  <2>2. PICK type \in 0 .. 9, bytes \in Seq(Octet) : Len(bytes) <= 254 /\ file[i] = LineOf(type, bytes)
    BY <2>1 DEF Written
  <2>3. line \in Damages(LineOf(type, bytes)) /\ line # LineOf(type, bytes)
    BY <1>3, <2>2
  <2>4. QED
    BY <2>2, <2>3, DamagedRefused
<1>11. \A j \in 1 .. n : ParseLine(file[j]) \in WrittenRecord
  <2>1. \A j \in 1 .. n : file[j] \in Written
    BY <1>5
  <2>2. QED
    BY <2>1 DEF Written
<1>12. damaged' \in 1 .. n /\ damaged' # 0 /\ next' <= damaged' /\ n \in Nat
  BY <1>1, <1>3, <1>5, <1>8
<1> HIDE DEF n
<1>13. DamagedInv'
  <2>1. ParseLine(file'[damaged']) = [type |-> Refused]
    BY <1>3, <1>9, <1>10, Zenon
  <2>2. \A j \in 1 .. n : j # damaged' => ParseLine(file'[j]) \in WrittenRecord
    BY <1>3, <1>9, <1>11, Zenon
  <2>3. phase' \in {"load", "given up"} /\ phase' # "given up"
    BY <1>1
  <2>4. QED
    BY <1>9, <1>12, <2>1, <2>2, <2>3, Zenon DEF DamagedInv
<1>14. LoadInv'
  <2>1. next' \in 1 .. Len(file') + 1
    BY <1>1, <1>9, <1>12
  <2>2. accepted' \in Seq(WrittenRecord) /\ Len(accepted') = next' - 1
    BY <1>1, <1>5
  <2>3. QED
    BY <1>9, <1>12, <1>13, <2>1, <2>2, Zenon DEF LoadInv
<1>15. QED
  BY <1>1, <1>6, <1>7, <1>14 DEF FileInv

-----------------------------------------------------------------------------
LEMMA NothingRefused == ParseLine(<< >>) = [type |-> Refused]
<1>1. ~IsIntact(<< >>)
  BY DEF IsIntact, CharAt, S, Other
<1>2. QED
  BY <1>1 DEF ParseLine

LEMMA WrittenAccepted ==
    ASSUME NEW r \in WrittenRecord
    PROVE  r.type # Refused /\ r.type \in RecType
  BY DEF WrittenRecord, RecType, Refused

(* A record accepted: its bytes are in memory behind the others. *)
LEMMA LoadLineHolds ==
    ASSUME NEW r \in WrittenRecord, LoadLine(r), NEW bs \in Seq(Located), Holds(ram, before, bs)
    PROVE  Holds(ram', before', bs \o RecordBytes(r))
<1>1. before' = before
  BY DEF LoadLine
<1>2. CASE r.type = "S1"
  <2>1. ram' = [a \in RamAddr |-> IF a \in Cells(r) THEN r.data[a - r.addr + 1] ELSE ram[a]]
    BY <1>2 DEF LoadLine, Store
  <2>2. \A a \in RamAddr : ram'[a] = IF a \in Cells(r) THEN r.data[a - r.addr + 1] ELSE ram[a]
    BY <2>1, Zenon
  <2>3. QED
    BY <1>1, <1>2, <2>2, StorePiece, Zenon
<1>3. CASE r.type # "S1"
  <2>1. ram' = ram
    BY <1>3 DEF LoadLine
  <2>2. RecordBytes(r) = << >>
    BY <1>3 DEF RecordBytes
  <2>3. bs \o << >> = bs
    OBVIOUS
  <2>4. QED
    BY <1>1, <2>1, <2>2, <2>3, Zenon
<1>4. QED
  BY <1>2, <1>3

(* What is loaded grows by the line. *)
LEMMA LoadedGrows ==
    ASSUME file \in Seq(Written), next \in 1 .. Len(file), next' = next + 1, file' = file
    PROVE  /\ Loaded \in Seq(Located)
           /\ Loaded' = Loaded \o LineBytes(file[next])
<1> DEFINE f == SubSeq(file, 1, next - 1)
           g == SubSeq(file, 1, next)
           m == next - 1
<1>1. m \in Nat /\ m + 1 = next /\ next \in Nat /\ next <= Len(file) /\ file[next] \in Written
  OBVIOUS
<1>2. g = Append(f, file[next])
  <2> HIDE DEF m
  <2>1. m + 1 \in 1 .. Len(file)
    BY <1>1
  <2>2. SubSeq(file, 1, m + 1) = Append(SubSeq(file, 1, m), file[m + 1])
    BY <1>1, <2>1
  <2>3. QED
    BY <1>1, <2>2, Zenon DEF m
<1>3. f \in Seq(Written)
  <2>1. \A i \in 1 .. m : file[i] \in Written
    BY <1>1
  <2>2. QED
    BY <1>1, <2>1, SubSeqProperties
<1>4. Loaded = FileBytes(f)
  BY DEF Loaded
<1>5. Loaded' = FileBytes(g)
  <2>1. next' - 1 = next
    BY <1>1
  <2>2. QED
    BY <2>1, Zenon DEF Loaded
<1> HIDE DEF f, g
<1>6. QED
  BY <1>1, <1>2, <1>3, <1>4, <1>5, FileBytesProperties, Zenon

(* A line of a whole file *)
LEMMA ReadWhole ==
    ASSUME LoadInv, damaged = 0, phase = "load", next <= Len(file),
           NEW r, r = ParseLine(file[next]), LoadLine(r), next' = next + 1,
           UNCHANGED << source, start, file, damaged, phase >>
    PROVE  LoadInv'
<1>1. WholeInv /\ next \in 1 .. Len(file) /\ Len(file) \in Nat /\ DOMAIN file = 1 .. Len(file)
      /\ accepted \in Seq(WrittenRecord) /\ Len(accepted) = next - 1
  BY DEF LoadInv
<1>2. file \in Seq(Written) /\ Holds(ram, before, Loaded) /\ FileBytes(file) = ProgramBytes
      /\ (file # << >> => ParseLine(file[Len(file)]) = StartAt(start))
  BY <1>1 DEF WholeInv
<1>3. file[next] \in Written /\ file # << >>
  BY <1>1, <1>2
<1>4. r \in WrittenRecord
  BY <1>3 DEF Written
<1>5. accepted' = Append(accepted, r)
  BY DEF LoadLine
<1>6. Loaded \in Seq(Located) /\ Loaded' = Loaded \o RecordBytes(r)
  BY <1>1, <1>2, LoadedGrows DEF LineBytes
<1>7. Holds(ram', before', Loaded')
  BY <1>2, <1>4, <1>6, LoadLineHolds, Zenon
<1>8. next' > Len(file) => recStart' = start /\ startAddrSet'
  <2>1. SUFFICES ASSUME next' > Len(file)
                 PROVE  recStart' = start /\ startAddrSet'
    OBVIOUS
  <2>2. next = Len(file)
    <3> DEFINE n == Len(file)
    <3>1. n \in Nat /\ next \in 1 .. n /\ next + 1 > n
      BY <1>1, <2>1
    <3> HIDE DEF n
    <3>2. next = n
      BY <3>1
    <3>3. QED
      BY <3>2 DEF n
  <2>3. r = StartAt(start)
    BY <1>2, <1>3, <2>2, Zenon
  <2>4. r.type = "S9" /\ r.addr = start
    BY <2>3 DEF StartAt
  <2>5. QED
    BY <2>4 DEF LoadLine
<1>9. ProgramBytes' = ProgramBytes
  BY DEF ProgramBytes
<1>10. WholeInv'
  BY <1>2, <1>3, <1>7, <1>8, <1>9 DEF WholeInv
<1>11. next' \in 1 .. Len(file') + 1
  <2> DEFINE n == Len(file)
  <2>1. n \in Nat /\ next \in 1 .. n
    BY <1>1
  <2> HIDE DEF n
  <2>2. next + 1 \in 1 .. n + 1
    BY <2>1
  <2>3. QED
    BY <2>2 DEF n
<1>12. accepted' \in Seq(WrittenRecord) /\ Len(accepted') = next' - 1
  <2>1. accepted' \in Seq(WrittenRecord) /\ Len(accepted') = Len(accepted) + 1
    BY <1>1, <1>4, <1>5
  <2>2. QED
    BY <1>1, <2>1
<1>13. QED
  BY <1>1, <1>10, <1>11, <1>12 DEF LoadInv

(* A line before the damaged one *)
LEMMA ReadDamaged ==
    ASSUME LoadInv, damaged # 0, phase = "load", next # damaged,
           NEW r, r = ParseLine(file[next]), LoadLine(r), next' = next + 1,
           UNCHANGED << file, damaged, phase >>
    PROVE  LoadInv'
<1> DEFINE n == Len(file)
<1>1. DamagedInv /\ next \in 1 .. n + 1 /\ n \in Nat /\ DOMAIN file = 1 .. n
      /\ accepted \in Seq(WrittenRecord) /\ Len(accepted) = next - 1
  BY DEF LoadInv
<1>2. damaged \in 1 .. n /\ next <= damaged
      /\ \A i \in 1 .. n : i # damaged => ParseLine(file[i]) \in WrittenRecord
  BY <1>1 DEF DamagedInv
<1>3. accepted' = Append(accepted, r)
  BY DEF LoadLine
<1>4. n' = n
  OBVIOUS
<1> HIDE DEF n
<1>5. next \in 1 .. n /\ next + 1 <= damaged /\ next + 1 \in 1 .. n + 1
  BY <1>1, <1>2
<1>6. r \in WrittenRecord
  BY <1>2, <1>5
<1>7. DamagedInv'
  BY <1>1, <1>4, <1>5 DEF DamagedInv, n
<1>8. accepted' \in Seq(WrittenRecord) /\ Len(accepted') = next' - 1
  <2>1. accepted' \in Seq(WrittenRecord) /\ Len(accepted') = Len(accepted) + 1
    BY <1>1, <1>3, <1>6
  <2>2. QED
    BY <1>1, <2>1
<1>9. QED
  BY <1>1, <1>4, <1>5, <1>7, <1>8 DEF LoadInv, n

(* A line that is refused: the damaged one, or the only one there is *)
LEMMA ReadRefused ==
    ASSUME LoadInv, phase = "load", phase' = "given up", UNCHANGED << source, start, file, damaged, next, loaderVars >>,
           damaged # 0 => next = damaged
    PROVE  LoadInv'
<1>1. /\ Len(file) \in Nat /\ DOMAIN file = 1 .. Len(file) /\ next \in 1 .. Len(file) + 1
      /\ accepted \in Seq(WrittenRecord) /\ Len(accepted) = next - 1
      /\ (damaged = 0 => WholeInv) /\ (damaged # 0 => DamagedInv)
  BY DEF LoadInv
<1>2. accepted' = accepted
  BY DEF loaderVars
<1>3. damaged = 0 => WholeInv'
  BY <1>1 DEF WholeInv, ProgramBytes
<1>4. damaged # 0 => DamagedInv'
  BY <1>1 DEF DamagedInv
<1>5. QED
  BY <1>1, <1>2, <1>3, <1>4 DEF LoadInv

LEMMA ReadLineKeeps ==
    ASSUME FileInv, ReadLine
    PROVE  FileInv'
<1> DEFINE r == ParseLine(IF file = << >> THEN << >> ELSE file[next])
<1>1. /\ phase = "load" /\ (next <= Len(file) \/ file = << >>)
      /\ UNCHANGED << source, start, cl, outidx, lastaddr, recaddr, recdata, reccnt, file, damaged, failed >>
      /\ IF r.type = Refused
         THEN phase' = "given up" /\ UNCHANGED << next, loaderVars >>
         ELSE next' = next + 1 /\ LoadLine(r) /\ UNCHANGED phase
  BY DEF ReadLine, writer
<1>2. WriterInv /\ RecordFits /\ (failed => damaged = 0) /\ (~failed => LoadInv)
  BY <1>1, LoadStep
<1>3. WriterInv'
  BY <1>1, <1>2 DEF WriterInv
<1>4. RecordFits'
  BY <1>1, <1>2 DEF RecordFits
<1>5. phase' # "assemble"
  BY <1>1
<1> HIDE DEF r
<1>6. ASSUME ~failed
      PROVE  LoadInv'
  <2>1. LoadInv
    BY <1>2, <1>6
  <2>2. CASE file = << >>
    <3>1. r = [type |-> Refused]
      BY <2>2, NothingRefused, Zenon DEF r
    <3>2. r.type = Refused
      BY <3>1
    <3>3. damaged = 0
      <4>1. Len(file) = 0
        BY <2>2
      <4>2. damaged # 0 => damaged \in 1 .. Len(file)
        BY <2>1 DEF LoadInv, DamagedInv
      <4>3. QED
        BY <4>1, <4>2
    <3>4. QED
      BY <1>1, <2>1, <3>2, <3>3, ReadRefused
  <2>3. CASE file # << >>
    <3>1. r = ParseLine(file[next]) /\ next <= Len(file)
      BY <1>1, <2>3, Zenon DEF r
    <3>2. CASE damaged = 0
      <4>1. file[next] \in Written
        <5>1. file \in Seq(Written) /\ next \in 1 .. Len(file) + 1 /\ Len(file) \in Nat
          BY <2>1, <3>2 DEF LoadInv, WholeInv
        <5>2. QED
          BY <3>1, <5>1
      <4>2. r.type # Refused
        BY <3>1, <4>1, WrittenAccepted DEF Written
      <4>3. LoadLine(r) /\ next' = next + 1 /\ phase' = phase
        BY <1>1, <4>2
      <4>4. QED
        BY <1>1, <2>1, <3>1, <3>2, <4>3, ReadWhole
    <3>3. CASE damaged # 0 /\ next = damaged
      <4>1. r = [type |-> Refused]
        BY <2>1, <3>1, <3>3 DEF LoadInv, DamagedInv
      <4>2. r.type = Refused
        BY <4>1
      <4>3. QED
        BY <1>1, <2>1, <3>3, <4>2, ReadRefused
    <3>4. CASE damaged # 0 /\ next # damaged
      <4>1. r \in WrittenRecord
        <5>1. /\ \A i \in 1 .. Len(file) : i # damaged => ParseLine(file[i]) \in WrittenRecord
              /\ next \in 1 .. Len(file) + 1 /\ Len(file) \in Nat
          BY <2>1, <3>4 DEF LoadInv, DamagedInv
        <5>2. next \in 1 .. Len(file)
          BY <3>1, <5>1
        <5>3. QED
          BY <3>1, <3>4, <5>1, <5>2
      <4>2. r.type # Refused
        BY <4>1, WrittenAccepted
      <4>3. LoadLine(r) /\ next' = next + 1 /\ phase' = phase
        BY <1>1, <4>2
      <4>4. QED
        BY <1>1, <2>1, <3>1, <3>4, <4>3, ReadDamaged
    <3>5. QED
      BY <3>2, <3>3, <3>4
  <2>4. QED
    BY <2>2, <2>3
<1>7. QED
  BY <1>1, <1>2, <1>3, <1>4, <1>5, <1>6 DEF FileInv

LEMMA StartProgramKeeps ==
    ASSUME FileInv, StartProgram
    PROVE  FileInv'
<1>1. /\ phase = "load" /\ file # << >> /\ next > Len(file) /\ phase' = "run"
      /\ UNCHANGED << source, start, cl, outidx, lastaddr, recaddr, recdata, reccnt, file, damaged, next, failed,
                      ram, recStart, startAddrSet, accepted, before >>
  BY DEF StartProgram, LoadEnd, writer
<1>2. WriterInv /\ RecordFits /\ (failed => damaged = 0) /\ (~failed => LoadInv)
  BY <1>1, LoadStep
<1>3. WriterInv'
  BY <1>1, <1>2 DEF WriterInv
<1>4. RecordFits'
  BY <1>1, <1>2 DEF RecordFits
<1>5. ASSUME ~failed
      PROVE  LoadInv'
  <2>1. LoadInv
    BY <1>2, <1>5
  <2>2. damaged = 0
    <3>1. damaged # 0 => damaged \in 1 .. Len(file) /\ next <= damaged
      BY <2>1 DEF LoadInv, DamagedInv
    <3>2. Len(file) \in Nat /\ next \in 1 .. Len(file) + 1
      BY <2>1 DEF LoadInv
    <3> DEFINE n == Len(file)
    <3>3. n \in Nat /\ next \in 1 .. n + 1 /\ next > n /\ (damaged # 0 => damaged \in 1 .. n /\ next <= damaged)
      BY <1>1, <3>1, <3>2
    <3> HIDE DEF n
    <3>4. QED
      BY <3>3
  <2>3. WholeInv'
    <3>1. ProgramBytes' = ProgramBytes /\ Loaded' = Loaded
      BY <1>1 DEF ProgramBytes, Loaded
    <3>2. QED
      BY <1>1, <2>1, <2>2, <3>1 DEF LoadInv, WholeInv
  <2>4. QED
    BY <1>1, <2>1, <2>2, <2>3 DEF LoadInv
<1>6. QED
  BY <1>1, <1>2, <1>3, <1>4, <1>5 DEF FileInv

-----------------------------------------------------------------------------
LEMMA FileInvInit == FileInit => FileInv
<1>1. SUFFICES ASSUME FileInit
               PROVE  FileInv
  OBVIOUS
<1>2. /\ source \in Sources /\ start \in Starts
      /\ cl = 1 /\ outidx = 0 /\ lastaddr = -2
      /\ recaddr = 0 /\ recdata = << >> /\ reccnt = -1
      /\ file = << >> /\ damaged = 0 /\ phase = "assemble" /\ next = 1 /\ failed = FALSE
  BY <1>1 DEF FileInit
<1> DEFINE n == Len(source)
<1>3. n \in Nat /\ \A i \in 1 .. n : Len(source[i].output) \in Nat
  BY <1>2, SourceFacts
<1>4. WriterInv
  <2>1. recaddr \in Address /\ recdata \in Seq(Octet)
    BY <1>2, AddressRange
  <2> HIDE DEF n
  <2>2. 1 \in 1 .. n + 1 /\ (1 <= n => 0 <= Len(source[1].output))
    BY <1>3
  <2>3. cl \in 1 .. n + 1 /\ (cl <= n => outidx <= Len(source[cl].output))
    BY <1>2, <2>2, Zenon
  <2>4. failed \in BOOLEAN
    BY <1>2
  <2>5. outidx \in Nat /\ lastaddr \in Int /\ reccnt \in Int /\ reccnt >= -1
    <3>1. outidx = 0 /\ lastaddr = -2 /\ reccnt = -1
      BY <1>2
    <3>2. QED
      BY <3>1
  <2>6. QED
    BY <1>2, <2>1, <2>3, <2>4, <2>5 DEF WriterInv, n
<1>5. RecordFits
  BY <1>2 DEF RecordFits, RecordLength
<1>6. \A a : Piece(a, << >>) = << >>
  BY DEF Piece
<1>7. DonePieces = << >>
  <2>1. cl - 1 = 0
    BY <1>2
  <2>2. DonePieces = [i \in 1 .. 0 |-> LinePiece(source[i])]
    BY <2>1, Zenon DEF DonePieces
  <2>3. QED
    BY <2>2
<1>8. OpenPiece = << >>
  <2>1. CASE cl <= n
    <3>1. source[1].output \in Seq(Octet)
      <4>1. 1 \in 1 .. n
        <5> HIDE DEF n
        <5>1. QED
          BY <1>2, <1>3, <2>1
      <4>2. QED
        BY <1>2, <4>1, SourceFacts
    <3>2. OpenPiece = Piece(source[1].addr, SubSeq(source[1].output, 1, 0))
      BY <1>2, <2>1, Zenon DEF OpenPiece
    <3>3. SubSeq(source[1].output, 1, 0) = << >>
      BY SubSeqEmpty
    <3>4. QED
      BY <1>6, <3>2, <3>3, Zenon
  <2>2. CASE ~(cl <= n)
    BY <2>2 DEF OpenPiece
  <2>3. QED
    BY <2>1, <2>2
<1>9. Fetched = << >> \o << >>
  BY <1>7, <1>8, FlattenProperties, Zenon DEF Fetched
<1>10. FileBytes(file) \o Piece(recaddr, recdata) = << >> \o << >>
  BY <1>2, <1>6, FileBytesProperties, Zenon
<1>11. AssembleInv
  <2>1. << >> \in Seq(Written)
    OBVIOUS
  <2>2. QED
    BY <1>2, <1>9, <1>10, <2>1 DEF AssembleInv
<1>12. QED
  BY <1>2, <1>4, <1>5, <1>11 DEF FileInv

LEMMA FileInvStep == FileInv /\ [FileNext]_fileVars => FileInv'
<1>1. SUFFICES ASSUME FileInv, [FileNext]_fileVars
               PROVE  FileInv'
  OBVIOUS
<1>2. CASE WriteByte
  BY <1>1, <1>2, WriteByteKeeps
<1>3. CASE WriteNextLine
  BY <1>1, <1>3, WriteNextLineKeeps
<1>4. CASE WriteEnd
  BY <1>1, <1>4, WriteEndKeeps
<1>5. CASE AssemblyFails
  BY <1>1, <1>5, AssemblyFailsKeeps
<1>6. CASE Damage
  BY <1>1, <1>6, DamageKeeps
<1>7. CASE ReadLine
  BY <1>1, <1>7, ReadLineKeeps
<1>8. CASE StartProgram
  BY <1>1, <1>8, StartProgramKeeps
<1>9. CASE UNCHANGED fileVars
  <2>1. UNCHANGED << source, start, cl, outidx, lastaddr, recaddr, recdata, reccnt, file, damaged, phase,
                     next, failed, ram, recStart, startAddrSet, accepted, before >>
    BY <1>9 DEF fileVars, writer, loaderVars, parser
  <2>2. WriterInv' <=> WriterInv
    BY <2>1 DEF WriterInv
  <2>3. RecordFits' <=> RecordFits
    BY <2>1 DEF RecordFits
  <2>4. Fetched' = Fetched /\ ProgramBytes' = ProgramBytes /\ Loaded' = Loaded
    BY <2>1 DEF Fetched, DonePieces, OpenPiece, ProgramBytes, Loaded
  <2>5. AssembleInv' <=> AssembleInv
    BY <2>1, <2>4 DEF AssembleInv
  <2>6. WholeInv' <=> WholeInv
    BY <2>1, <2>4 DEF WholeInv
  <2>7. DamagedInv' <=> DamagedInv
    BY <2>1 DEF DamagedInv
  <2>8. LoadInv' <=> LoadInv
    BY <2>1, <2>6, <2>7 DEF LoadInv
  <2>9. QED
    BY <1>1, <2>1, <2>2, <2>3, <2>5, <2>8 DEF FileInv
<1>10. QED
  BY <1>1, <1>2, <1>3, <1>4, <1>5, <1>6, <1>7, <1>8, <1>9 DEF FileNext

LEMMA FileInvariant == FileSpec => []FileInv
  BY FileInvInit, FileInvStep, PTL DEF FileSpec

(* What is left at an address is the last of the bytes there. *)
LEMMA HeldIsLeft ==
    ASSUME Holds(ram, before, ProgramBytes), NEW a \in RamAddr, ProgramBytes \in Seq(Located)
    PROVE  IF LeftAt(a) = {} THEN ram[a] = before[a] ELSE ram[a] \in LeftAt(a)
<1> DEFINE bs == ProgramBytes
           last == {i \in DOMAIN bs : bs[i][1] = a /\ \A j \in DOMAIN bs : bs[j][1] = a => j <= i}
<1>1. LeftAt(a) = {b[2] : b \in {bs[i] : i \in last}}
  BY Zenon DEF LeftAt
<1> HIDE DEF bs
<1>2. CASE \E i \in DOMAIN bs :
             /\ bs[i][1] = a
             /\ \A j \in DOMAIN bs : bs[j][1] = a => j <= i
             /\ ram[a] = bs[i][2]
  <2>1. PICK i \in last : ram[a] = bs[i][2]
    BY <1>2
  <2> HIDE DEF last
  <2>2. ram[a] \in {b[2] : b \in {bs[k] : k \in last}}
    BY <2>1
  <2>3. ram[a] \in LeftAt(a)
    BY <1>1, <2>2, Zenon
  <2>4. QED
    BY <2>3
<1>3. CASE (\A i \in DOMAIN bs : bs[i][1] # a) /\ ram[a] = before[a]
  <2>1. last = {}
    BY <1>3
  <2> HIDE DEF last
  <2>2. {b[2] : b \in {bs[k] : k \in last}} = {}
    BY <2>1
  <2>3. LeftAt(a) = {}
    BY <1>1, <2>2, Zenon
  <2>4. QED
    BY <1>3, <2>3
<1>4. QED
  BY <1>2, <1>3, Zenon DEF Holds, bs

(* The records never outgrow the buffer of the assembler and hold the last *)
(* bytes fetched (RecordFits), for every program of every length.          *)
THEOREM RecordsFitTheirBuffer == FileSpec => []RecordFits
<1>1. FileInv => RecordFits
  BY DEF FileInv
<1>2. QED
  BY <1>1, FileInvariant, PTL

(* A damaged line stops the load where it stands (DamageStopsLoad), for    *)
(* every program, every header and every digit that was lost.              *)
THEOREM DamagedFilesAreRefused == FileSpec => []DamageStopsLoad
<1>1. FileInv => DamageStopsLoad
  <2>1. SUFFICES ASSUME FileInv, damaged # 0
                 PROVE  /\ phase # "run"
                        /\ next <= damaged
                        /\ phase = "given up" => next = damaged /\ Len(accepted) = damaged - 1
    BY DEF DamageStopsLoad
  <2>2. ~failed /\ phase # "assemble"
    BY <2>1 DEF FileInv, AssembleInv
  <2>3. LoadInv
    BY <2>1, <2>2 DEF FileInv
  <2>4. DamagedInv /\ Len(accepted) = next - 1
    BY <2>1, <2>3 DEF LoadInv
  <2>5. QED
    BY <2>4 DEF DamagedInv
<1>2. QED
  BY <1>1, FileInvariant, PTL

(* A program that runs is the one assembled (ProgramArrives): whatever its *)
(* lines are and wherever they jump, cross records of 16 or overwrite each *)
(* other, every address of memory holds the byte the source put there      *)
(* last, or what it held before, and the program starts where it says.     *)
THEOREM ProgramsArrive == FileSpec => []ProgramArrives
<1>1. FileInv => ProgramArrives
  <2>1. SUFFICES ASSUME FileInv, phase = "run", ~failed
                 PROVE  /\ \A a \in RamAddr :
                              IF LeftAt(a) = {} THEN ram[a] = before[a] ELSE ram[a] \in LeftAt(a)
                        /\ recStart = start
                        /\ startAddrSet
    BY Zenon DEF ProgramArrives
  <2>2. LoadInv
    BY <2>1 DEF FileInv
  <2>3. damaged = 0
    BY <2>1, <2>2 DEF LoadInv, DamagedInv
  <2>4. WholeInv /\ next \in 1 .. Len(file) + 1 /\ Len(file) \in Nat
    BY <2>2, <2>3 DEF LoadInv
  <2>5. /\ file \in Seq(Written) /\ FileBytes(file) = ProgramBytes
        /\ Holds(ram, before, Loaded)
        /\ file # << >> /\ next > Len(file) /\ recStart = start /\ startAddrSet
    BY <2>1, <2>4 DEF WholeInv
  <2>6. Loaded = ProgramBytes
    <3>1. next - 1 = Len(file)
      <4> DEFINE n == Len(file)
      <4>1. n \in Nat /\ next \in 1 .. n + 1 /\ next > n
        BY <2>4, <2>5
      <4> HIDE DEF n
      <4>2. next - 1 = n
        BY <4>1
      <4>3. QED
        BY <4>2 DEF n
    <3>2. SubSeq(file, 1, Len(file)) = file
      BY <2>5, SubSeqFull
    <3>3. QED
      BY <2>5, <3>1, <3>2, Zenon DEF Loaded
  <2>7. ProgramBytes \in Seq(Located)
    BY <2>5, FileBytesProperties
  <2>8. Holds(ram, before, ProgramBytes)
    BY <2>5, <2>6, Zenon
  <2>9. QED
    BY <2>5, <2>7, <2>8, HeldIsLeft, Zenon
<1>2. QED
  BY <1>1, FileInvariant, PTL
=============================================================================
