-------------------------- MODULE CommandLineProofs --------------------------
(***************************************************************************)
(* Theorems about CommandLine, for every line a user may type, every       *)
(* number in it and every table of breakpoints.                            *)
(***************************************************************************)
EXTENDS CommandLine, BreakpointsProofs, SequenceLemmas, FiniteSetTheorems

Text3 == [1 .. 3 -> Seq(STRING)]
ScanState == [words : Text3, at : 1 .. 4, open : BOOLEAN]

NoWords == << << >>, << >>, << >> >>
ScanStart == [words |-> NoWords, at |-> 1, open |-> FALSE]
ScanOn(s, c) == IF s.at > 3 THEN s ELSE Scan(s, c)
Scanning == [p \in ScanState \X STRING |-> ScanOn(p[1], p[2])]

-----------------------------------------------------------------------------
(* A character more in a word *)
LEMMA ScanIs ==
    ASSUME NEW s \in ScanState, NEW c \in STRING, s.at <= 3
    PROVE  /\ Scan(s, c) \in ScanState
           /\ c # Space => Scan(s, c) = [words |-> [s.words EXCEPT ![s.at] = Append(s.words[s.at], c)],
                                         at |-> s.at, open |-> TRUE]
           /\ c = Space /\ s.open => Scan(s, c) = [words |-> s.words, at |-> s.at + 1, open |-> FALSE]
           /\ c = Space /\ ~s.open => Scan(s, c) = s
<1>1. s.words \in Text3 /\ s.at \in 1 .. 3 /\ s.open \in BOOLEAN
      /\ s = [words |-> s.words, at |-> s.at, open |-> s.open]
  BY DEF ScanState
<1> DEFINE w == [s.words EXCEPT ![s.at] = Append(s.words[s.at], c)]
<1>2. w \in Text3
  <2>1. s.words[s.at] \in Seq(STRING)
    BY <1>1 DEF Text3
  <2>2. Append(s.words[s.at], c) \in Seq(STRING)
    BY <2>1
  <2>3. QED
    BY <1>1, <2>2 DEF Text3
<1>3. ASSUME c # Space
      PROVE  Scan(s, c) = [words |-> w, at |-> s.at, open |-> TRUE]
  <2>1. Scan(s, c) = [s EXCEPT !.words[s.at] = Append(@, c), !.open = TRUE]
    BY <1>3, Zenon DEF Scan
  <2>2. QED
    BY <1>1, <2>1
<1>4. ASSUME c = Space, s.open
      PROVE  Scan(s, c) = [words |-> s.words, at |-> s.at + 1, open |-> FALSE]
  <2>1. Scan(s, c) = [s EXCEPT !.open = FALSE, !.at = @ + 1]
    BY <1>4, Zenon DEF Scan
  <2>2. QED
    BY <1>1, <2>1
<1>5. ASSUME c = Space, ~s.open
      PROVE  Scan(s, c) = s
  BY <1>5 DEF Scan
<1> HIDE DEF w
<1>6. Scan(s, c) \in ScanState
  <2>1. /\ [words |-> w, at |-> s.at, open |-> TRUE] \in ScanState
        /\ [words |-> s.words, at |-> s.at + 1, open |-> FALSE] \in ScanState
    BY <1>1, <1>2 DEF ScanState
  <2>2. QED
    BY <1>3, <1>4, <1>5, <2>1, Zenon
<1>7. QED
  BY <1>3, <1>4, <1>5, <1>6 DEF w

LEMMA ScanStartType == ScanStart \in ScanState
<1>1. NoWords \in Text3
  <2>1. << >> \in Seq(STRING)
    OBVIOUS
  <2> DEFINE e == << >>
  <2> HIDE DEF e
  <2> DEFINE X == Seq(STRING)
  <2> HIDE DEF X
  <2>2. << e, e, e >> \in [1 .. 3 -> X]
    <3>1. e \in X
      BY <2>1 DEF e, X
    <3>2. QED
      BY <3>1
  <2>3. QED
    BY <2>2 DEF NoWords, Text3, e, X
<1>2. QED
  BY <1>1 DEF ScanStart, ScanState

LEMMA ScanningType ==
    /\ Scanning \in [ScanState \X STRING -> ScanState]
    /\ \A s \in ScanState, c \in STRING : Scanning[<<s, c>>] = ScanOn(s, c)
<1>1. \A s \in ScanState, c \in STRING : ScanOn(s, c) \in ScanState
  <2>1. SUFFICES ASSUME NEW s \in ScanState, NEW c \in STRING
                 PROVE  ScanOn(s, c) \in ScanState
    OBVIOUS
  <2>2. s.at \in 1 .. 4
    BY DEF ScanState
  <2>3. QED
    BY <2>2, ScanIs DEF ScanOn
<1>2. QED
  BY <1>1 DEF Scanning

LEMMA ScannedRuns ==
    ASSUME NEW l \in Seq(STRING)
    PROVE  RunsTo(ScanState, ScanStart, Scanning, l, Scanned(l))
<1> DEFINE E(f) == f = [t \in SUBSET DOMAIN l |->
                           IF t = {} THEN ScanStart ELSE ScanOn(f[t \ {Max(t)}], l[Max(t)])]
           g == CHOOSE f : E(f)
<1>1. Len(l) \in Nat /\ DOMAIN l = 1 .. Len(l) /\ \A k \in 1 .. Len(l) : l[k] \in STRING
  OBVIOUS
<1>2. ScanStart \in ScanState /\ Scanning \in [ScanState \X STRING -> ScanState]
      /\ \A s \in ScanState, c \in STRING : Scanning[<<s, c>>] = ScanOn(s, c)
  BY ScanStartType, ScanningType
<1>3. \A t \in SUBSET (1 .. Len(l)) : t # {} => l[Max(t)] \in STRING
  BY <1>1, MaxExists
<1>4. PICK f \in [SUBSET (1 .. Len(l)) -> ScanState] : FoldsTo(ScanStart, Scanning, l, f)
  BY <1>2, FoldExists, Zenon
<1>5. E(f)
  <2>1. \A t \in SUBSET (1 .. Len(l)) :
           f[t] = IF t = {} THEN ScanStart ELSE ScanOn(f[t \ {Max(t)}], l[Max(t)])
    <3>1. ASSUME NEW t \in SUBSET (1 .. Len(l)), t # {}
          PROVE  f[t] = ScanOn(f[t \ {Max(t)}], l[Max(t)])
      <4> DEFINE x == f[t \ {Max(t)}]
                 y == l[Max(t)]
      <4>1. x \in ScanState /\ y \in STRING /\ f[t] = Scanning[<<x, y>>]
        BY <1>3, <1>4, <3>1 DEF FoldsTo
      <4> HIDE DEF x, y
      <4>2. f[t] = ScanOn(x, y)
        BY <1>2, <4>1, Zenon
      <4>3. QED
        BY <4>2 DEF x, y
    <3>2. f[{}] = ScanStart
      BY <1>4 DEF FoldsTo
    <3>3. QED
      BY <3>1, <3>2, Zenon
  <2>2. QED
    BY <1>1, <2>1
<1>6. E(g)
  <2> HIDE DEF E
  <2>1. QED
    BY <1>5
<1>7. Scanned(l) = g[1 .. Len(l)]
  BY <1>1 DEF Scanned, FoldLeft, MapThenFoldSet, ScanOn, ScanStart, NoWords
<1>8. g[{}] = ScanStart
  <2> HIDE DEF g
  <2>1. QED
    BY <1>6
<1>9. \A t \in SUBSET (1 .. Len(l)) :
         t # {} /\ g[t \ {Max(t)}] \in ScanState => g[t] = Scanning[<<g[t \ {Max(t)}], l[Max(t)]>>]
  <2> HIDE DEF g
  <2>1. SUFFICES ASSUME NEW t \in SUBSET (1 .. Len(l)), t # {}, g[t \ {Max(t)}] \in ScanState
                 PROVE  g[t] = Scanning[<<g[t \ {Max(t)}], l[Max(t)]>>]
    OBVIOUS
  <2>2. g[t] = ScanOn(g[t \ {Max(t)}], l[Max(t)])
    BY <1>1, <1>6, <2>1
  <2>3. l[Max(t)] \in STRING
    BY <1>3, <2>1
  <2>4. QED
    BY <1>2, <2>1, <2>2, <2>3, Zenon
<1>10. RunsTo(ScanState, ScanStart, Scanning, l, g[1 .. Len(l)])
  <2> HIDE DEF g
  <2>1. QED
    BY <1>2, <1>8, <1>9, FoldRuns, Zenon
<1>11. QED
  BY <1>7, <1>10, Zenon

-----------------------------------------------------------------------------
(* The characters that are digits in some base *)
Figure == DOMAIN DigitValue

LEMMA FigureValues ==
    /\ \A c \in Figure : DigitValue[c] \in Nat /\ DigitValue[c] < 16
    /\ \A c \in Figure : c # "f" => DigitValue[c] < 10
<1>1. Figure = {"0", "1", "2", "5", "6", "9", "f"}
  BY DEF Figure, DigitValue
<1>2. /\ DigitValue["0"] = 0 /\ DigitValue["1"] = 1 /\ DigitValue["2"] = 2 /\ DigitValue["5"] = 5
      /\ DigitValue["6"] = 6 /\ DigitValue["9"] = 9 /\ DigitValue["f"] = 15
  BY DEF DigitValue
<1>3. ASSUME NEW c \in Figure
      PROVE  DigitValue[c] \in {0, 1, 2, 5, 6, 9} \/ (c = "f" /\ DigitValue[c] = 15)
  BY <1>1, <1>2, <1>3, Zenon
<1>4. ASSUME NEW c \in Figure
      PROVE  /\ DigitValue[c] \in Nat /\ DigitValue[c] < 16
             /\ c # "f" => DigitValue[c] < 10
  <2> DEFINE v == DigitValue[c]
  <2>1. v \in {0, 1, 2, 5, 6, 9} \/ (c = "f" /\ v = 15)
    BY <1>3
  <2> HIDE DEF v
  <2>2. CASE v \in {0, 1, 2, 5, 6, 9}
    <3>1. v \in Nat /\ v < 16 /\ v < 10
      BY <2>2
    <3>2. QED
      BY <3>1 DEF v
  <2>3. CASE c = "f" /\ v = 15
    <3>1. v \in Nat /\ v < 16
      BY <2>3
    <3>2. QED
      BY <2>3, <3>1 DEF v
  <2>4. QED
    BY <2>1, <2>2, <2>3
<1>5. QED
  BY <1>4, Zenon

LEMMA BaseIs ==
    ASSUME NEW n
    PROVE  Base(n) \in Nat /\ Base(n) >= 10 /\ Base(n) <= 16 /\ (IsHex(n) => Base(n) = 16) /\ (~IsHex(n) => Base(n) = 10)
  BY DEF Base

LEMMA NumeralType ==
    ASSUME NEW n \in Seq(STRING)
    PROVE  Text(n) \in Seq(STRING) /\ Numeral(n) \in Seq(STRING)
<1>1. Text(n) \in Seq(STRING)
  <2>1. n # << >> => Tail(n) \in Seq(STRING)
    OBVIOUS
  <2>2. QED
    BY <2>1, Zenon DEF Text, IsHex
<1> DEFINE t == Text(n)
<1> HIDE DEF t
<1>2. t \in Seq(STRING) /\ (t # << >> => Tail(t) \in Seq(STRING))
  BY <1>1 DEF t
<1>3. Numeral(n) = IF IsSigned(n) THEN Tail(t) ELSE t
  BY DEF Numeral, t
<1>4. IsSigned(n) => t # << >>
  BY DEF IsSigned, t
<1>5. QED
  BY <1>1, <1>2, <1>3, <1>4

(* The first character that is no digit, if there is one *)
LEMMA FirstOtherIs ==
    ASSUME NEW n \in Seq(STRING)
    PROVE  /\ FirstOther(n) \in 0 .. Len(Numeral(n))
           /\ FirstOther(n) # 0 => ~IsDigit(Numeral(n)[FirstOther(n)], Base(n))
           /\ \A i \in 1 .. Len(Numeral(n)) :
                 FirstOther(n) = 0 \/ i < FirstOther(n) => IsDigit(Numeral(n)[i], Base(n))
<1> DEFINE s == Numeral(n)
           others == {i \in 1 .. Len(s) : ~IsDigit(s[i], Base(n))}
           k == FirstOther(n)
<1>1. k = IF others # {} THEN Min(others) ELSE 0
  BY Zenon DEF FirstOther, SelectInSeq
<1>2. s \in Seq(STRING) /\ Len(s) \in Nat
  BY NumeralType
<1>3. CASE others = {}
  <2>1. k = 0
    BY <1>1, <1>3
  <2>2. \A i \in 1 .. Len(s) : IsDigit(s[i], Base(n))
    BY <1>3
  <2> HIDE DEF s, k
  <2>3. QED
    BY <1>2, <2>1, <2>2 DEF s, k
<1>4. CASE others # {}
  <2> HIDE DEF s
  <2> DEFINE w == Len(s)
  <2>1. others \in SUBSET (1 .. w)
    OBVIOUS
  <2> HIDE DEF others, k, w
  <2>3. Min(others) \in others /\ \A j \in others : Min(others) <= j
    BY <1>2, <1>4, <2>1, MinExists DEF w
  <2>4. k \in others /\ \A j \in others : k <= j
    BY <1>1, <1>4, <2>3, Zenon
  <2>5. k \in 1 .. Len(s) /\ ~IsDigit(s[k], Base(n))
    BY <2>4 DEF others
  <2>6. \A i \in 1 .. Len(s) : i < k => i \notin others
    BY <1>2, <2>4, <2>5
  <2>7. \A i \in 1 .. Len(s) : i < k => IsDigit(s[i], Base(n))
    BY <2>6 DEF others
  <2>8. k # 0
    BY <1>2, <2>5
  <2>9. QED
    BY <1>2, <2>5, <2>7, <2>8 DEF s, k
<1>5. QED
  BY <1>3, <1>4

(* Only digits of the base are read. *)
LEMMA DigitsType ==
    ASSUME NEW n \in Seq(STRING)
    PROVE  /\ Digits(n) \in Seq(Figure)
           /\ \A i \in 1 .. Len(Digits(n)) : Digits(n)[i] = Numeral(n)[i] /\ i <= Len(Numeral(n))
<1> DEFINE s == Numeral(n)
           k == FirstOther(n)
<1>1. s \in Seq(STRING) /\ Len(s) \in Nat
  BY NumeralType
<1>2. /\ k \in 0 .. Len(s)
      /\ \A i \in 1 .. Len(s) : k = 0 \/ i < k => s[i] \in Figure
  BY FirstOtherIs DEF IsDigit, Figure
<1>3. Digits(n) = IF k = 0 THEN s ELSE SubSeq(s, 1, k - 1)
  BY DEF Digits
<1> HIDE DEF s, k
<1>4. CASE k = 0
  <2>1. \A i \in 1 .. Len(s) : s[i] \in Figure
    BY <1>2, <1>4
  <2>2. s \in Seq(Figure)
    BY <1>1, <2>1
  <2>3. Digits(n) = s
    BY <1>3, <1>4
  <2>4. \A i \in 1 .. Len(s) : i <= Len(s)
    BY <1>1
  <2>5. QED
    BY <2>2, <2>3, <2>4, Zenon DEF s
<1>5. CASE k # 0
  <2> DEFINE p == SubSeq(s, 1, k - 1)
             m == k - 1
  <2>1. m \in Nat /\ m < Len(s) /\ k = m + 1
    BY <1>1, <1>2, <1>5
  <2>2. \A i \in 1 .. m : s[i] \in Figure /\ i <= Len(s)
    BY <1>1, <1>2, <1>5, <2>1
  <2> HIDE DEF m
  <2>3. p = SubSeq(s, 1, m)
    BY <2>1 DEF m
  <2>4. 1 \in Int /\ m \in Int
    BY <2>1
  <2>5. /\ SubSeq(s, 1, m) \in Seq(Figure)
        /\ Len(SubSeq(s, 1, m)) = (IF 1 <= m THEN m - 1 + 1 ELSE 0)
        /\ \A i \in 1 .. m - 1 + 1 : SubSeq(s, 1, m)[i] = s[1 + i - 1]
    BY <2>2, <2>4, SubSeqProperties
  <2> HIDE DEF p
  <2>6. p \in Seq(Figure) /\ Len(p) = m /\ \A i \in 1 .. m : p[i] = s[i]
    BY <2>1, <2>3, <2>5
  <2>7. Digits(n) = p
    BY <1>3, <1>5, Zenon DEF p
  <2>8. QED
    BY <2>2, <2>6, <2>7, Zenon DEF s
<1>6. QED
  BY <1>4, <1>5

-----------------------------------------------------------------------------
(* The number that is read of the digits d in base b *)
ReadOf(b, d) == FoldLeft(LAMBDA k, c : b * k + DigitValue[c], 0, d)
Reading(b) == [p \in Nat \X Figure |-> b * p[1] + DigitValue[p[2]]]

LEMMA ReadingType ==
    ASSUME NEW b \in Nat
    PROVE  /\ Reading(b) \in [Nat \X Figure -> Nat]
           /\ \A k \in Nat, c \in Figure : Reading(b)[<<k, c>>] = b * k + DigitValue[c]
<1>1. ASSUME NEW k \in Nat, NEW c \in Figure
      PROVE  b * k + DigitValue[c] \in Nat
  <2> DEFINE v == DigitValue[c]
  <2>1. v \in Nat
    BY FigureValues
  <2> HIDE DEF v
  <2>2. b * k + v \in Nat
    BY <2>1
  <2>3. QED
    BY <2>2 DEF v
<1>2. QED
  BY <1>1 DEF Reading

LEMMA ReadRuns ==
    ASSUME NEW b \in Nat, NEW s \in Seq(Figure)
    PROVE  RunsTo(Nat, 0, Reading(b), s, ReadOf(b, s))
<1> DEFINE R == Reading(b)
           E(f) == f = [t \in SUBSET DOMAIN s |->
                           IF t = {} THEN 0 ELSE b * f[t \ {Max(t)}] + DigitValue[s[Max(t)]]]
           g == CHOOSE f : E(f)
<1>1. Len(s) \in Nat /\ DOMAIN s = 1 .. Len(s) /\ \A k \in 1 .. Len(s) : s[k] \in Figure
  OBVIOUS
<1>2. 0 \in Nat /\ R \in [Nat \X Figure -> Nat] /\ \A k \in Nat, c \in Figure : R[<<k, c>>] = b * k + DigitValue[c]
  BY ReadingType
<1> HIDE DEF R
<1>3. \A t \in SUBSET (1 .. Len(s)) : t # {} => s[Max(t)] \in Figure
  BY <1>1, MaxExists
<1>4. PICK f \in [SUBSET (1 .. Len(s)) -> Nat] : FoldsTo(0, R, s, f)
  BY <1>2, FoldExists, Zenon
<1>5. E(f)
  <2>1. \A t \in SUBSET (1 .. Len(s)) :
           f[t] = IF t = {} THEN 0 ELSE b * f[t \ {Max(t)}] + DigitValue[s[Max(t)]]
    <3>1. ASSUME NEW t \in SUBSET (1 .. Len(s)), t # {}
          PROVE  f[t] = b * f[t \ {Max(t)}] + DigitValue[s[Max(t)]]
      <4> DEFINE x == f[t \ {Max(t)}]
                 y == s[Max(t)]
      <4>1. x \in Nat /\ y \in Figure /\ f[t] = R[<<x, y>>]
        BY <1>3, <1>4, <3>1 DEF FoldsTo
      <4> HIDE DEF x, y
      <4>2. f[t] = b * x + DigitValue[y]
        BY <1>2, <4>1, Zenon
      <4>3. QED
        BY <4>2 DEF x, y
    <3>2. f[{}] = 0
      BY <1>4 DEF FoldsTo
    <3>3. QED
      BY <3>1, <3>2, Zenon
  <2>2. QED
    BY <1>1, <2>1
<1>6. E(g)
  <2> HIDE DEF E
  <2>1. QED
    BY <1>5
<1>7. ReadOf(b, s) = g[1 .. Len(s)]
  BY <1>1 DEF ReadOf, FoldLeft, MapThenFoldSet
<1>8. g[{}] = 0
  <2> HIDE DEF g
  <2>1. QED
    BY <1>6
<1>9. \A t \in SUBSET (1 .. Len(s)) :
         t # {} /\ g[t \ {Max(t)}] \in Nat => g[t] = R[<<g[t \ {Max(t)}], s[Max(t)]>>]
  <2>1. SUFFICES ASSUME NEW t \in SUBSET (1 .. Len(s)), t # {}, g[t \ {Max(t)}] \in Nat
                 PROVE  g[t] = R[<<g[t \ {Max(t)}], s[Max(t)]>>]
    OBVIOUS
  <2> HIDE DEF g
  <2> DEFINE x == g[t \ {Max(t)}]
             y == s[Max(t)]
  <2>2. g[t] = b * x + DigitValue[y]
    BY <1>1, <1>6, <2>1
  <2>3. x \in Nat /\ y \in Figure
    BY <1>3, <2>1
  <2> HIDE DEF x, y
  <2>4. g[t] = R[<<x, y>>]
    BY <1>2, <2>2, <2>3, Zenon
  <2>5. QED
    BY <2>4 DEF x, y
<1>10. RunsTo(Nat, 0, R, s, g[1 .. Len(s)])
  <2> HIDE DEF g
  <2>1. QED
    BY <1>2, <1>8, <1>9, FoldRuns, Zenon
<1>11. QED
  BY <1>7, <1>10, Zenon DEF R

(* What a digit more does to the number *)
LEMMA ReadOfProperties ==
    ASSUME NEW b \in Nat
    PROVE  /\ ReadOf(b, << >>) = 0
           /\ \A d \in Seq(Figure) : ReadOf(b, d) \in Nat
           /\ \A d \in Seq(Figure) : \A c \in Figure : ReadOf(b, Append(d, c)) = b * ReadOf(b, d) + DigitValue[c]
<1>1. ReadOf(b, << >>) = 0
  <2>1. << >> \in Seq(Figure)
    OBVIOUS
  <2>2. QED
    BY <2>1, ReadRuns, RunOfNothing, Zenon
<1>2. ASSUME NEW d \in Seq(Figure)
      PROVE  ReadOf(b, d) \in Nat
  BY ReadRuns, RunInDomain, Zenon
<1>3. ASSUME NEW d \in Seq(Figure), NEW c \in Figure
      PROVE  ReadOf(b, Append(d, c)) = b * ReadOf(b, d) + DigitValue[c]
  <2>1. Append(d, c) \in Seq(Figure)
    OBVIOUS
  <2>2. RunsTo(Nat, 0, Reading(b), d, ReadOf(b, d))
        /\ RunsTo(Nat, 0, Reading(b), Append(d, c), ReadOf(b, Append(d, c)))
    BY <2>1, ReadRuns, Zenon
  <2>3. ReadOf(b, Append(d, c)) = Reading(b)[<<ReadOf(b, d), c>>]
    BY <2>2, RunOfAppend
  <2>4. QED
    BY <1>2, <2>3, ReadingType, Zenon
<1>4. QED
  BY <1>1, <1>2, <1>3, Zenon

(* toNum() gives a number of 32 bits whatever the word is. *)
LEMMA NumType ==
    ASSUME NEW n \in Seq(STRING)
    PROVE  Read(n) \in Nat /\ Num(n) \in Nat /\ Num(n) < NumModulus
<1>1. Base(n) \in Nat /\ Digits(n) \in Seq(Figure)
  BY BaseIs, DigitsType
<1>2. Read(n) = ReadOf(Base(n), Digits(n))
  BY DEF Read, ReadOf
<1>3. Read(n) \in Nat
  BY <1>1, <1>2, ReadOfProperties, Zenon
<1> DEFINE r == Read(n)
           m == NumModulus
<1>4. r \in Nat /\ m \in Nat \ {0} /\ Num(n) = (IF IsNegative(n) THEN -r ELSE r) % m
  BY <1>3, CommandAssumption DEF Num
<1> HIDE DEF r, m
<1>5. (-r) % m \in 0 .. m - 1 /\ r % m \in 0 .. m - 1
  BY <1>4
<1>6. (-r) % m \in Nat /\ (-r) % m < m /\ r % m \in Nat /\ r % m < m
  BY <1>4, <1>5
<1>7. Num(n) \in Nat /\ Num(n) < m
  BY <1>4, <1>6, Zenon
<1>8. QED
  BY <1>3, <1>7 DEF m

(* The three words of a line *)
LEMMA WordsType ==
    ASSUME NEW l \in Seq(STRING)
    PROVE  /\ Scanned(l) \in ScanState
           /\ \A k \in 1 .. 3 : Words(l)[k] \in Seq(STRING)
<1>1. Scanned(l) \in ScanState
  BY ScannedRuns, RunInDomain, Zenon
<1>2. Scanned(l).words \in Text3
  BY <1>1 DEF ScanState
<1>3. QED
  BY <1>1, <1>2 DEF Words, Text3

-----------------------------------------------------------------------------
(* What is in the three words the monitor looks at *)
WordsOf(l) == IF IsParsed(l) THEN Words(l) ELSE NoWords

CommandInv ==
    /\ CommandTypeOK
    /\ BpInv
    /\ user \in Users
    /\ typed \in Seq(STRING)

LEMMA WordsOfType ==
    ASSUME NEW l \in Seq(STRING)
    PROVE  \A k \in 1 .. 3 : WordsOf(l)[k] \in Seq(STRING)
<1>1. \A k \in 1 .. 3 : NoWords[k] \in Seq(STRING)
  BY ScanStartType DEF ScanStart, ScanState, Text3
<1>2. QED
  BY <1>1, WordsType, Zenon DEF WordsOf

LEMMA AddressesAre ==
    ASSUME NEW n \in Nat
    PROVE  /\ n \in Addr <=> n < AddrModulus
           /\ n % AddrModulus \in Addr
           /\ 0 \in Addr
           /\ \A r \in DOMAIN Registers : n % Registers[r] \in 0 .. Registers[r] - 1 /\ 0 \in 0 .. Registers[r] - 1
<1>1. /\ AddrModulus \in Nat \ {0} /\ IndexModulus \in Nat \ {0}
      /\ Addr = 0 .. AddrModulus - 1
      /\ \A r \in DOMAIN Registers : Registers[r] \in {IndexModulus, AddrModulus}
  BY CommandAssumption
<1>2. ASSUME NEW m \in Nat \ {0}
      PROVE  n % m \in 0 .. m - 1 /\ 0 \in 0 .. m - 1
  OBVIOUS
<1>3. n \in Addr <=> n < AddrModulus
  BY <1>1
<1>4. n % AddrModulus \in Addr /\ 0 \in Addr
  BY <1>1, <1>2, Zenon
<1>5. ASSUME NEW r \in DOMAIN Registers
      PROVE  n % Registers[r] \in 0 .. Registers[r] - 1 /\ 0 \in 0 .. Registers[r] - 1
  <2>1. Registers[r] \in Nat \ {0}
    BY <1>1
  <2>2. QED
    BY <1>2, <2>1, Zenon
<1>6. QED
  BY <1>3, <1>4, <1>5, Zenon

LEMMA CommandInitInv == CommandInit => CommandInv
<1> SUFFICES ASSUME CommandInit PROVE CommandInv
  OBVIOUS
<1>1. BpInv /\ BpTypeOK
  BY BpInitInv DEF CommandInit, BpInv
<1>2. pc \in Addr /\ startAddr \in Addr /\ listed \in Addr
  BY AddressesAre DEF CommandInit
<1>3. DOMAIN regs = DOMAIN Registers /\ \A r \in DOMAIN regs : regs[r] \in 0 .. Registers[r] - 1
  <2>1. regs = [r \in DOMAIN Registers |-> 0]
    BY DEF CommandInit
  <2>2. \A r \in DOMAIN Registers : 0 \in 0 .. Registers[r] - 1
    BY AddressesAre
  <2>3. QED
    BY <2>1, <2>2
<1>4. mode = "Cmd" /\ outOfRange = FALSE /\ typed \in Seq(STRING) /\ user \in Users
  BY DEF CommandInit
<1>5. QED
  BY <1>1, <1>2, <1>3, <1>4 DEF CommandInv, CommandTypeOK

(* The table changes only by its own operations. *)
LEMMA OnTableSteps ==
    ASSUME NEW w, NEW a \in Addr, Num(w[2]) % AddrModulus = a, OnTable(w)
    PROVE  [BpNext]_bpVars /\ UNCHANGED << pc, startAddr, regs, mode, listed >>
<1>1. CASE UNCHANGED bpVars
  BY <1>1 DEF OnTable
<1>2. CASE SetBreakpoint(a)
  BY <1>2, Zenon DEF OnTable, BpNext
<1>3. CASE ClearAllBreakpoints \/ DisableAllBreakpoints \/ EnableAllBreakpoints
  BY <1>3, Zenon DEF OnTable, BpNext
<1>4. CASE \/ ClearBreakpoint(Chosen(w)) \/ DisableBreakpoint(Chosen(w)) \/ EnableBreakpoint(Chosen(w))
  <2>1. Chosen(w) \in Index
    BY <1>4, Zenon DEF ClearBreakpoint, DisableBreakpoint, EnableBreakpoint, InUse
  <2>2. QED
    BY <1>4, <2>1, Zenon DEF OnTable, BpNext
<1>5. QED
  BY <1>1, <1>2, <1>3, <1>4, Zenon DEF OnTable

Modes == {"Cmd", "Loading", "Running", "Continuing", "StepIn", "StepOver", "StepOut"}
RegsFit(r) == DOMAIN r = DOMAIN Registers /\ \A i \in DOMAIN r : r[i] \in 0 .. Registers[i] - 1

(* What a step has to keep of the machine *)
Fitting == /\ pc' \in Addr /\ startAddr' \in Addr /\ listed' \in Addr
           /\ RegsFit(regs') /\ mode' \in Modes

LEMMA ResumeFits ==
    ASSUME CommandInv, NEW w, Num(w[2]) % AddrModulus \in Addr, Resume(w)
    PROVE  UNCHANGED bpVars /\ Fitting
<1>1. pc \in Addr /\ startAddr \in Addr /\ listed \in Addr /\ RegsFit(regs)
  BY DEF CommandInv, CommandTypeOK, RegsFit
<1>2. ASSUME NEW m \in Modes, NEW a \in Addr, Leave(m, a), startAddr' \in Addr
      PROVE  UNCHANGED bpVars /\ Fitting
  BY <1>1, <1>2, Zenon DEF Leave, Fitting
<1>3. /\ "Loading" \in Modes /\ "Continuing" \in Modes /\ "Running" \in Modes
      /\ Name(w) \in {"s", "n", "o"} => StepMode(Name(w)) \in Modes
  BY DEF Modes, StepMode
<1>4. CASE With(w, "r") /\ startAddr' = Num(w[2]) % AddrModulus /\ Leave("Running", startAddr')
  <2>1. startAddr' \in Addr
    BY <1>4, Zenon
  <2>2. QED
    BY <1>2, <1>3, <1>4, <2>1, Zenon
<1>5. CASE UNCHANGED startAddr
  BY <1>1, <1>2, <1>3, <1>5, Zenon DEF Resume
<1>6. QED
  BY <1>4, <1>5, Zenon DEF Resume

(* A register keeps what fits it, of a number of 16 bits. *)
LEMMA RegisterFits ==
    ASSUME NEW r \in DOMAIN Registers, NEW name, NEW v \in Nat, regs[r] \in 0 .. Registers[r] - 1
    PROVE  RegisterAfter(r, name, v) \in 0 .. Registers[r] - 1
<1>1. v % Registers[r] \in 0 .. Registers[r] - 1
  BY AddressesAre
<1>2. v \div IndexModulus \in Nat
  <2>1. IndexModulus \in Nat \ {0}
    BY CommandAssumption
  <2>2. QED
    BY <2>1
<1>3. (v \div IndexModulus) % Registers[r] \in 0 .. Registers[r] - 1
  BY <1>2, AddressesAre
<1>4. QED
  BY <1>1, <1>3, Zenon DEF RegisterAfter

LEMMA OnMachineFits ==
    ASSUME CommandInv, NEW w, w[3] # << >> => Num(w[3]) \in Nat,
           Num(w[2]) % AddrModulus \in Addr, OnMachine(w)
    PROVE  UNCHANGED bpVars /\ Fitting
<1>1. pc \in Addr /\ startAddr \in Addr /\ listed \in Addr /\ RegsFit(regs) /\ mode \in Modes
  BY DEF CommandInv, CommandTypeOK, RegsFit, Modes
<1>2. UNCHANGED bpVars /\ startAddr' = startAddr /\ mode' = mode
  BY DEF OnMachine
<1>3. CASE listed' = pc /\ pc' = pc /\ regs' = regs
  BY <1>1, <1>2, <1>3, Zenon DEF Fitting
<1>4. CASE With(w, "a") /\ pc' = Num(w[2]) % AddrModulus /\ listed' = pc' /\ regs' = regs
  <2>1. pc' \in Addr
    BY <1>4, Zenon
  <2>2. QED
    BY <1>1, <1>2, <1>4, <2>1, Zenon DEF Fitting
<1>5. CASE listed' = listed /\ pc' = pc /\ regs' = regs
  BY <1>1, <1>2, <1>5, Zenon DEF Fitting
<1> DEFINE v == Num(w[3]) % AddrModulus
<1>6. CASE /\ w[3] # << >> /\ listed' = listed
           /\ pc' = IF w[2] = << "PC" >> THEN v ELSE pc
           /\ regs' = [r \in DOMAIN regs |-> RegisterAfter(r, w[2], v)]
  <2>1. v \in Addr /\ v \in Nat
    <3>1. Num(w[3]) % AddrModulus \in Addr
      BY <1>6, AddressesAre
    <3> HIDE DEF v
    <3>2. QED
      BY <3>1, CommandAssumption DEF v
  <2> HIDE DEF v
  <2>2. pc' \in Addr
    BY <1>1, <1>6, <2>1, Zenon
  <2>3. DOMAIN regs' = DOMAIN Registers
    BY <1>1, <1>6 DEF RegsFit
  <2>4. ASSUME NEW r \in DOMAIN Registers
        PROVE  regs'[r] \in 0 .. Registers[r] - 1
    <3>1. r \in DOMAIN regs /\ regs[r] \in 0 .. Registers[r] - 1
      BY <1>1, <2>4 DEF RegsFit
    <3>2. regs'[r] = RegisterAfter(r, w[2], v)
      BY <1>6, <3>1, Zenon
    <3>3. QED
      BY <2>1, <3>1, <3>2, RegisterFits, Zenon
  <2>5. QED
    BY <1>1, <1>2, <1>6, <2>2, <2>3, <2>4, Zenon DEF Fitting, RegsFit
<1>7. QED
  BY <1>3, <1>4, <1>5, <1>6, Zenon DEF OnMachine

LEMMA RefuseFits ==
    ASSUME CommandInv, NEW w, Refuse(w)
    PROVE  UNCHANGED bpVars /\ Fitting
<1>1. pc \in Addr /\ startAddr \in Addr /\ listed \in Addr /\ RegsFit(regs) /\ mode \in Modes
  BY DEF CommandInv, CommandTypeOK, RegsFit, Modes
<1>2. Name(w) \in {"s", "n", "o"} => StepMode(Name(w)) \in Modes
  BY DEF Modes, StepMode
<1>3. QED
  BY <1>1, <1>2, Zenon DEF Refuse, Fitting

(* A line that is entered *)
LEMMA EnterFits ==
    ASSUME CommandInv, NEW l \in Seq(STRING), Enter(l)
    PROVE  [BpNext]_bpVars /\ Fitting /\ outOfRange' \in BOOLEAN /\ typed' \in Seq(STRING)
<1> DEFINE w == WordsOf(l)
<1>1. \A k \in 1 .. 3 : w[k] \in Seq(STRING)
  BY WordsOfType
<1>2. /\ typed' = << >>
      /\ outOfRange' = (outOfRange \/ \E n \in Numbers(w) : IsTooLong(n))
      /\ IF IsAccepted(w) THEN Resume(w) \/ OnTable(w) \/ OnMachine(w) ELSE Refuse(w)
  BY Zenon DEF Enter, WordsOf, NoWords
<1> HIDE DEF w
<1>3. Num(w[2]) \in Nat /\ Num(w[3]) \in Nat
  <2>1. w[2] \in Seq(STRING) /\ w[3] \in Seq(STRING)
    BY <1>1
  <2>2. QED
    BY <2>1, NumType
<1>4. Num(w[2]) % AddrModulus \in Addr
  BY <1>3, AddressesAre
<1>5. typed' \in Seq(STRING)
  BY <1>2
<1>6. outOfRange' \in BOOLEAN
  BY <1>2, Zenon
<1>7. CASE IsAccepted(w) /\ Resume(w)
  <2>1. UNCHANGED bpVars /\ Fitting
    BY <1>4, <1>7, ResumeFits
  <2>2. QED
    BY <1>5, <1>6, <2>1
<1>8. CASE IsAccepted(w) /\ OnTable(w)
  <2>1. [BpNext]_bpVars /\ UNCHANGED << pc, startAddr, regs, mode, listed >>
    BY <1>4, <1>8, OnTableSteps
  <2>2. Fitting
    BY <2>1 DEF Fitting, CommandInv, CommandTypeOK, RegsFit, Modes
  <2>3. QED
    BY <1>5, <1>6, <2>1, <2>2
<1>9. CASE IsAccepted(w) /\ OnMachine(w)
  <2>1. UNCHANGED bpVars /\ Fitting
    BY <1>3, <1>4, <1>9, OnMachineFits
  <2>2. QED
    BY <1>5, <1>6, <2>1
<1>10. CASE ~IsAccepted(w)
  <2>1. UNCHANGED bpVars /\ Fitting
    BY <1>2, <1>10, RefuseFits
  <2>2. QED
    BY <1>5, <1>6, <2>1
<1>11. QED
  BY <1>2, <1>7, <1>8, <1>9, <1>10

(* Every step of the monitor keeps the invariant, and is one of the table *)
(* of breakpoints or leaves it alone.                                     *)
LEMMA CommandStepInv == CommandInv /\ [CommandNext]_commandVars => CommandInv' /\ [BpNext]_bpVars
<1> SUFFICES ASSUME CommandInv, [CommandNext]_commandVars
             PROVE  CommandInv' /\ [BpNext]_bpVars
  OBVIOUS
<1>1. ASSUME [BpNext]_bpVars, Fitting, outOfRange' \in BOOLEAN, typed' \in Seq(STRING), user' = user
      PROVE  CommandInv' /\ [BpNext]_bpVars
  <2>1. BpInv'
    BY <1>1, BpStepInv DEF CommandInv
  <2>2. CommandTypeOK'
    BY <1>1, <2>1 DEF Fitting, CommandTypeOK, BpInv, RegsFit, Modes
  <2>3. QED
    BY <1>1, <2>1, <2>2 DEF CommandInv
<1>2. pc \in Addr /\ startAddr \in Addr /\ listed \in Addr /\ RegsFit(regs) /\ mode \in Modes
      /\ outOfRange \in BOOLEAN /\ typed \in Seq(STRING)
  BY DEF CommandInv, CommandTypeOK, RegsFit, Modes
<1>3. user.lines \subseteq Seq(STRING) /\ user.alphabet \subseteq STRING
  BY CommandAssumption DEF CommandInv
<1>4. ASSUME NEW l \in user.lines \cup {typed}, Enter(l), user' = user
      PROVE  CommandInv' /\ [BpNext]_bpVars
  <2>1. l \in Seq(STRING)
    BY <1>2, <1>3
  <2>2. QED
    BY <1>1, <1>4, <2>1, EnterFits
<1>5. ASSUME NEW c \in user.alphabet, Type(c), user' = user
      PROVE  CommandInv' /\ [BpNext]_bpVars
  <2>1. typed' \in Seq(STRING)
    BY <1>2, <1>3, <1>5 DEF Type
  <2>2. UNCHANGED bpVars /\ Fitting /\ outOfRange' = outOfRange
    BY <1>2, <1>5 DEF Type, monitor, Fitting
  <2>3. QED
    BY <1>1, <1>2, <1>5, <2>1, <2>2
<1>6. CASE Return /\ user' = user
  <2>1. /\ UNCHANGED bpVars /\ Fitting
        /\ outOfRange' \in BOOLEAN /\ typed' = typed
    BY <1>2, <1>6 DEF Return, Fitting, Modes
  <2>2. QED
    BY <1>1, <1>2, <1>6, <2>1
<1>7. CASE UNCHANGED commandVars
  <2>1. /\ UNCHANGED bpVars /\ Fitting
        /\ outOfRange' = outOfRange /\ typed' = typed /\ user' = user
    BY <1>2, <1>7 DEF commandVars, monitor, Fitting
  <2>2. QED
    BY <1>1, <1>2, <2>1
<1>8. QED
  BY <1>4, <1>5, <1>6, <1>7 DEF CommandNext

LEMMA CommandInvariant == CommandSpec => []CommandInv
  BY CommandInitInv, CommandStepInv, PTL DEF CommandSpec

(* Whatever is typed, each place keeps what fits it: addresses 16 bits,    *)
(* byte registers 8, and the table of breakpoints its entries.             *)
THEOREM CommandsKeepTypes == CommandSpec => []CommandTypeOK
<1>1. CommandInv => CommandTypeOK
  BY DEF CommandInv
<1>2. QED
  BY <1>1, CommandInvariant, PTL

(* Every line the monitor obeys does to the table of breakpoints what one *)
(* of its operations does, or nothing: what is proved of Breakpoints holds *)
(* of the monitor as well.                                                 *)
THEOREM CommandsImplementTable == CommandSpec => BpSpec
<1>1. CommandInit => BpInit
  BY DEF CommandInit
<1>2. QED
  BY <1>1, CommandInvariant, CommandStepInv, PTL DEF CommandSpec, BpSpec

-----------------------------------------------------------------------------
(* Word i of the line l ends at j. *)
EndsAt(l, i, j) ==
    /\ j \in i .. Len(l)
    /\ \A k \in i .. j : l[k] # Space
    /\ j = Len(l) \/ l[j + 1] = Space

(* What parseCmd has kept, in s, of the word that begins at i: all of it, *)
(* in the word that is open if nothing is behind it yet                   *)
WordKept(l, s, i) ==
    \E j \in i .. Len(l) :
        /\ EndsAt(l, i, j)
        /\ Ordinal(l, i) \in 1 .. 3
        /\ s.words[Ordinal(l, i)] = SubSeq(l, i, j)
        /\ IF j = Len(l) THEN s.open /\ Ordinal(l, i) = s.at ELSE Ordinal(l, i) < s.at

InWord(l) == l # << >> /\ l[Len(l)] # Space

SplitInv(l, s) ==
    /\ Cardinality(Begins(l)) = IF s.open THEN s.at ELSE s.at - 1
    /\ s.open <=> InWord(l)
    /\ \A i \in Begins(l) : WordKept(l, s, i)
    /\ \A k \in 1 .. 3 : k > Cardinality(Begins(l)) => s.words[k] = << >>

(* The words that begin in a line, and those after one more character *)
LEMMA BeginsAre ==
    ASSUME NEW X, NEW l \in Seq(X)
    PROVE  /\ Begins(l) \subseteq 1 .. Len(l) /\ Len(l) \in Nat
           /\ IsFiniteSet(Begins(l)) /\ Cardinality(Begins(l)) \in Nat
           /\ \A i \in Begins(l) : l[i] # Space
<1>1. Begins(l) \subseteq 1 .. Len(l) /\ Len(l) \in Nat
  BY DEF Begins
<1>2. IsFiniteSet(1 .. Len(l))
  BY <1>1, FS_Interval
<1>3. IsFiniteSet(Begins(l)) /\ Cardinality(Begins(l)) \in Nat
  BY <1>1, <1>2, FS_Subset, FS_CardinalityType
<1>4. \A i \in Begins(l) : l[i] # Space
  BY DEF Begins
<1>5. QED
  BY <1>1, <1>3, <1>4

LEMMA BeginsOfAppend ==
    ASSUME NEW X, NEW l \in Seq(X), NEW c \in X
    PROVE  Begins(Append(l, c)) = IF c # Space /\ ~InWord(l) THEN Begins(l) \cup {Len(l) + 1} ELSE Begins(l)
<1> DEFINE n == Len(l)
           m == Append(l, c)
<1>1. n \in Nat /\ Len(m) = n + 1 /\ m[n + 1] = c /\ (\A i \in 1 .. n : m[i] = l[i])
      /\ DOMAIN l = 1 .. n /\ DOMAIN m = 1 .. n + 1
  BY AppendIs
<1>2. Begins(l) = {i \in 1 .. n : l[i] # Space /\ (i = 1 \/ l[i - 1] = Space)}
  BY <1>1 DEF Begins
<1>3. Begins(m) = {i \in 1 .. n + 1 : m[i] # Space /\ (i = 1 \/ m[i - 1] = Space)}
  BY <1>1, Zenon DEF Begins
<1>4. ~InWord(l) <=> n + 1 = 1 \/ l[n] = Space
  BY <1>1 DEF InWord
<1> HIDE DEF n, m
<1>5. ASSUME NEW i \in 1 .. n
      PROVE  i \in Begins(m) <=> i \in Begins(l)
  <2>1. i = 1 \/ (i - 1 \in 1 .. n)
    BY <1>1
  <2>2. QED
    BY <1>1, <1>2, <1>3, <2>1
<1>6. n + 1 \in Begins(m) <=> c # Space /\ ~InWord(l)
  <2>1. (n + 1) - 1 = n /\ n + 1 \in 1 .. n + 1 /\ (n + 1 # 1 => n \in 1 .. n)
    BY <1>1
  <2>2. n + 1 \in Begins(m) <=> m[n + 1] # Space /\ (n + 1 = 1 \/ m[n] = Space)
    BY <1>3, <2>1, Zenon
  <2>3. n + 1 # 1 => m[n] = l[n]
    BY <1>1, <2>1
  <2>4. QED
    BY <1>1, <1>4, <2>2, <2>3, Zenon
<1>7. n + 1 \notin Begins(l) /\ \A i \in Begins(l) \cup Begins(m) : i \in 1 .. n \/ i = n + 1
  BY <1>1, <1>2, <1>3
<1>8. Begins(m) = IF c # Space /\ ~InWord(l) THEN Begins(l) \cup {n + 1} ELSE Begins(l)
  <2>1. \A i \in Begins(l) : i \in 1 .. n
    BY <1>7, Zenon
  <2>2. \A i \in Begins(l) : i \in Begins(m)
    BY <1>5, <2>1, Zenon
  <2>3. \A i \in Begins(m) : i \in Begins(l) \/ i = n + 1
    BY <1>5, <1>7, Zenon
  <2>4. QED
    BY <1>6, <2>2, <2>3
<1>9. QED
  BY <1>8 DEF n, m

LEMMA OrdinalOfAppend ==
    ASSUME NEW X, NEW l \in Seq(X), NEW c \in X
    PROVE  /\ \A i \in Begins(l) : Ordinal(Append(l, c), i) = Ordinal(l, i)
           /\ c = Space \/ InWord(l) => Cardinality(Begins(Append(l, c))) = Cardinality(Begins(l))
           /\ c # Space /\ ~InWord(l) =>
                 /\ Cardinality(Begins(Append(l, c))) = Cardinality(Begins(l)) + 1
                 /\ Ordinal(Append(l, c), Len(l) + 1) = Cardinality(Begins(l)) + 1
<1> DEFINE n == Len(l)
           b == Begins(l)
           e == Begins(Append(l, c))
<1>1. e = IF c # Space /\ ~InWord(l) THEN b \cup {n + 1} ELSE b
  BY BeginsOfAppend
<1>2. b \subseteq 1 .. n /\ n \in Nat /\ IsFiniteSet(b) /\ Cardinality(b) \in Nat
  BY BeginsAre
<1>3. \A i : Ordinal(l, i) = Cardinality({j \in b : j <= i})
             /\ Ordinal(Append(l, c), i) = Cardinality({j \in e : j <= i})
  BY DEF Ordinal
<1> HIDE DEF n, b, e
<1>4. ASSUME NEW i \in b
      PROVE  Ordinal(Append(l, c), i) = Ordinal(l, i)
  <2>1. {j \in e : j <= i} = {j \in b : j <= i}
    <3>1. ~(n + 1 <= i)
      BY <1>2
    <3>2. QED
      BY <1>1, <3>1
  <2>2. QED
    BY <1>3, <2>1
<1>5. CASE c # Space /\ ~InWord(l)
  <2>1. e = b \cup {n + 1} /\ n + 1 \notin b
    BY <1>1, <1>2, <1>5
  <2>2. Cardinality(e) = Cardinality(b) + 1
    BY <1>2, <2>1, FS_AddElement
  <2>3. {j \in e : j <= n + 1} = e
    <3>1. \A j \in e : j <= n + 1
      BY <1>2, <2>1
    <3>2. QED
      BY <3>1
  <2>4. QED
    BY <1>3, <1>4, <1>5, <2>2, <2>3 DEF n, b, e
<1>6. CASE ~(c # Space /\ ~InWord(l))
  BY <1>1, <1>4, <1>6 DEF n, b, e
<1>7. QED
  BY <1>5, <1>6

Grows(l, c) ==
    /\ Len(l) \in Nat /\ Len(Append(l, c)) = Len(l) + 1 /\ Append(l, c)[Len(l) + 1] = c
    /\ \A i \in 1 .. Len(l) : Append(l, c)[i] = l[i]

LEMMA LineGrows ==
    ASSUME NEW X, NEW l \in Seq(X), NEW c \in X
    PROVE  Grows(l, c) /\ Append(l, c) # << >>
<1>1. Append(l, c) # << >>
  <2>1. Len(Append(l, c)) # 0 /\ Len(<< >>) = 0
    BY AppendIs
  <2>2. QED
    BY <2>1, Zenon
<1>2. QED
  BY <1>1, AppendIs DEF Grows

(* What is kept of a word when one more character is behind the line *)
LEMMA KeptOn ==
    ASSUME NEW l \in Seq(STRING), NEW c \in STRING, NEW s, NEW t, NEW i \in Begins(l),
           WordKept(l, s, i), SplitInv(l, s),
           \A o \in 1 .. 3 : o < s.at \/ c = Space => t.words[o] = s.words[o],
           s.at \in 1 .. 3, t.at \in 1 .. 3,
           IF c = Space
           THEN IF s.open THEN t.at = s.at + 1 ELSE t.at = s.at
           ELSE t.at = s.at /\ t.open /\ t.words[s.at] = Append(s.words[s.at], c)
    PROVE  WordKept(Append(l, c), t, i)
<1> DEFINE n == Len(l)
           m == Append(l, c)
<1>1. Grows(l, c)
  BY LineGrows, Zenon
<1>2. n \in Nat /\ Len(m) = n + 1 /\ m[n + 1] = c /\ \A k \in 1 .. n : m[k] = l[k]
  BY <1>1, Zenon DEF Grows
<1>3. i \in 1 .. n
  BY BeginsAre DEF n
<1>4. Ordinal(m, i) = Ordinal(l, i)
  BY OrdinalOfAppend, Zenon
<1>5. /\ \A j \in i .. n : SubSeq(m, i, j) = SubSeq(l, i, j)
      /\ SubSeq(m, i, n + 1) = Append(SubSeq(l, i, n), c)
  <2>1. i \in 1 .. Len(l)
    BY <1>3 DEF n
  <2>2. /\ \A j \in i .. Len(l) : SubSeq(Append(l, c), i, j) = SubSeq(l, i, j)
        /\ SubSeq(Append(l, c), i, Len(l) + 1) = Append(SubSeq(l, i, Len(l)), c)
    BY <2>1, PieceOfAppend, Zenon
  <2>3. QED
    BY <2>2, Zenon
<1> DEFINE o == Ordinal(l, i)
<1>6. PICK j \in i .. n :
         /\ EndsAt(l, i, j)
         /\ o \in 1 .. 3
         /\ s.words[o] = SubSeq(l, i, j)
         /\ IF j = n THEN s.open /\ o = s.at ELSE o < s.at
  BY Zenon DEF WordKept
<1>7. /\ \A k \in i .. j : l[k] # Space
      /\ j = n \/ l[j + 1] = Space
  BY <1>6, Zenon DEF EndsAt
<1> HIDE DEF n, m, o
<1>8. j \in i .. n + 1 /\ j # n + 1 /\ i .. j \subseteq 1 .. n /\ j \in Int
  BY <1>2, <1>3, <1>6
<1>9. \A k \in i .. j : m[k] # Space
  BY <1>2, <1>7, <1>8
<1>10. CASE j # n \/ c = Space
  <2>1. m[j + 1] = Space
    <3>1. CASE j # n
      <4>1. j + 1 \in 1 .. n
        BY <1>2, <1>3, <1>6, <3>1
      <4>2. QED
        BY <1>2, <1>7, <3>1, <4>1
    <3>2. CASE j = n
      BY <1>2, <1>10, <3>2
    <3>3. QED
      BY <3>1, <3>2
  <2>2. EndsAt(m, i, j)
    BY <1>2, <1>8, <1>9, <2>1, Zenon DEF EndsAt
  <2>3. o < t.at
    <3>1. s.at \in Int /\ t.at \in Int /\ o \in Int
      BY <1>6
    <3> DEFINE sa == s.at
               ta == t.at
    <3>2. (j # n => o < sa) /\ (j = n => o = sa /\ s.open)
      BY <1>6
    <3>3. ta = sa \/ ta = sa + 1
      OBVIOUS
    <3>4. j = n => ta = sa + 1
      BY <1>10, <3>2
    <3> HIDE DEF sa, ta
    <3>5. o < ta
      BY <3>1, <3>2, <3>3, <3>4 DEF sa, ta
    <3>6. QED
      BY <3>5 DEF ta
  <2>4. t.words[o] = SubSeq(m, i, j)
    <3>1. o < s.at \/ c = Space
      BY <1>6, <1>10
    <3>2. QED
      BY <1>5, <1>6, <3>1, Zenon
  <2>5. QED
    BY <1>2, <1>4, <1>6, <1>8, <2>2, <2>3, <2>4, Zenon DEF WordKept, m, o
<1>11. CASE j = n /\ c # Space
  <2>1. \A k \in i .. n + 1 : k \in i .. j \/ k = n + 1
    BY <1>2, <1>3, <1>11
  <2>2. \A k \in i .. n + 1 : m[k] # Space
    BY <1>2, <1>9, <1>11, <2>1
  <2>3. n + 1 \in i .. n + 1
    BY <1>2, <1>3
  <2>4. EndsAt(m, i, n + 1)
    BY <1>2, <2>2, <2>3, Zenon DEF EndsAt
  <2>5. o = s.at /\ t.at = s.at /\ t.open /\ t.words[s.at] = Append(s.words[s.at], c)
    BY <1>6, <1>11
  <2>6. t.words[o] = SubSeq(m, i, n + 1)
    BY <1>5, <1>6, <1>11, <2>5, Zenon
  <2>7. QED
    BY <1>2, <1>4, <1>6, <2>3, <2>4, <2>5, <2>6, Zenon DEF WordKept, m, o
<1>12. QED
  BY <1>10, <1>11

(* One more character keeps what is known of the words. *)
LEMMA SplitStep ==
    ASSUME NEW l \in Seq(STRING), NEW c \in STRING, NEW s \in ScanState, s.at <= 3,
           SplitInv(l, s), Scan(s, c).at <= 3
    PROVE  SplitInv(Append(l, c), Scan(s, c))
<1> DEFINE n == Len(l)
           m == Append(l, c)
           b == Cardinality(Begins(l))
           d == Cardinality(Begins(m))
           t == Scan(s, c)
<1>1. Grows(l, c) /\ m # << >>
  BY LineGrows, Zenon
<1>2. n \in Nat /\ Len(m) = n + 1 /\ m[n + 1] = c /\ \A k \in 1 .. n : m[k] = l[k]
  BY <1>1, Zenon DEF Grows
<1>3. /\ s.words \in Text3 /\ s.at \in 1 .. 3 /\ s.open \in BOOLEAN
      /\ t \in ScanState
      /\ c # Space => t = [words |-> [s.words EXCEPT ![s.at] = Append(s.words[s.at], c)],
                           at |-> s.at, open |-> TRUE]
      /\ c = Space /\ s.open => t = [words |-> s.words, at |-> s.at + 1, open |-> FALSE]
      /\ c = Space /\ ~s.open => t = s
  <2>1. s.words \in Text3 /\ s.at \in 1 .. 4 /\ s.open \in BOOLEAN
    BY DEF ScanState
  <2>2. s.at \in 1 .. 3
    BY <2>1
  <2>3. QED
    BY <2>1, <2>2, ScanIs, Zenon
<1>4. /\ b = IF s.open THEN s.at ELSE s.at - 1
      /\ s.open <=> InWord(l)
      /\ \A i \in Begins(l) : WordKept(l, s, i)
      /\ \A k \in 1 .. 3 : k > b => s.words[k] = << >>
  BY Zenon DEF SplitInv
<1>5. /\ \A i \in Begins(l) : Ordinal(m, i) = Ordinal(l, i)
      /\ c = Space \/ InWord(l) => d = b
      /\ c # Space /\ ~InWord(l) => d = b + 1 /\ Ordinal(m, n + 1) = b + 1
      /\ Begins(m) = IF c # Space /\ ~InWord(l) THEN Begins(l) \cup {n + 1} ELSE Begins(l)
  BY OrdinalOfAppend, BeginsOfAppend, Zenon
<1>6. InWord(m) <=> c # Space
  BY <1>1, <1>2, Zenon DEF InWord
<1>7. t.at \in 1 .. 3
  <2>1. t.at \in 1 .. 4
    BY <1>3 DEF ScanState
  <2> DEFINE x == t.at
  <2>2. x \in 1 .. 4 /\ x <= 3
    BY <2>1
  <2> HIDE DEF x
  <2>3. x \in 1 .. 3
    BY <2>2
  <2>4. QED
    BY <2>3 DEF x
<1> HIDE DEF n, m, b, d, t
<1>8. /\ c # Space => /\ t.at = s.at /\ t.open = TRUE
                      /\ t.words = [s.words EXCEPT ![s.at] = Append(s.words[s.at], c)]
      /\ c = Space /\ s.open => t.words = s.words /\ t.at = s.at + 1 /\ t.open = FALSE
      /\ c = Space /\ ~s.open => t.words = s.words /\ t.at = s.at /\ t.open = FALSE
  <2> DEFINE w == [s.words EXCEPT ![s.at] = Append(s.words[s.at], c)]
  <2>1. c # Space => t = [words |-> w, at |-> s.at, open |-> TRUE]
    BY <1>3, Zenon
  <2> HIDE DEF w
  <2>2. c # Space => t.at = s.at /\ t.open = TRUE /\ t.words = w
    BY <2>1
  <2>3. c = Space /\ s.open => t.words = s.words /\ t.at = s.at + 1 /\ t.open = FALSE
    <3>1. c = Space /\ s.open => t = [words |-> s.words, at |-> s.at + 1, open |-> FALSE]
      BY <1>3, Zenon
    <3>2. QED
      BY <3>1
  <2>4. c = Space /\ ~s.open => t.words = s.words /\ t.at = s.at /\ t.open = FALSE
    BY <1>3, Zenon
  <2>5. QED
    BY <2>2, <2>3, <2>4, Zenon DEF w
<1>9. DOMAIN s.words = 1 .. 3
  BY <1>3 DEF Text3
<1>10. c # Space => t.words[s.at] = Append(s.words[s.at], c)
  BY <1>3, <1>8, <1>9, Zenon
<1>11. ASSUME NEW o \in 1 .. 3, o # s.at \/ c = Space
       PROVE  t.words[o] = s.words[o]
  BY <1>3, <1>8, <1>9, <1>11, Zenon
<1>12. d = IF t.open THEN t.at ELSE t.at - 1
  <2> DEFINE sa == s.at
             ta == t.at
  <2>0. sa \in 1 .. 3 /\ ta \in 1 .. 3
    BY <1>3, <1>7
  <2>1. CASE c # Space /\ s.open
    BY <1>4, <1>5, <1>8, <2>1, Zenon
  <2>2. CASE c # Space /\ ~s.open
    <3>1. d = b + 1 /\ b = sa - 1 /\ ta = sa /\ t.open = TRUE
      BY <1>4, <1>5, <1>8, <2>2, Zenon
    <3> HIDE DEF sa, ta
    <3>2. d = ta
      BY <2>0, <3>1
    <3>3. QED
      BY <3>1, <3>2, Zenon DEF ta
  <2>3. CASE c = Space /\ s.open
    <3>1. d = b /\ b = sa /\ ta = sa + 1 /\ t.open = FALSE
      BY <1>4, <1>5, <1>8, <2>3, Zenon
    <3> HIDE DEF sa, ta
    <3>2. d = ta - 1
      BY <2>0, <3>1
    <3>3. QED
      BY <3>1, <3>2, Zenon DEF ta
  <2>4. CASE c = Space /\ ~s.open
    BY <1>4, <1>5, <1>8, <2>4, Zenon
  <2>5. QED
    BY <2>1, <2>2, <2>3, <2>4, Zenon
<1>13. t.open <=> InWord(m)
  BY <1>6, <1>8, Zenon
<1>14. ASSUME NEW i \in Begins(l)
       PROVE  WordKept(m, t, i)
  <2>1. WordKept(l, s, i)
    BY <1>4
  <2>2. \A o \in 1 .. 3 : o < s.at \/ c = Space => t.words[o] = s.words[o]
    <3>1. \A o \in 1 .. 3 : o < s.at => o # s.at
      BY <1>3
    <3>2. QED
      BY <1>11, <3>1, Zenon
  <2>3. IF c = Space
        THEN IF s.open THEN t.at = s.at + 1 ELSE t.at = s.at
        ELSE t.at = s.at /\ t.open /\ t.words[s.at] = Append(s.words[s.at], c)
    BY <1>8, <1>10, Zenon
  <2>4. WordKept(Append(l, c), t, i)
    BY <1>3, <1>7, <2>1, <2>2, <2>3, KeptOn
  <2>5. QED
    BY <2>4 DEF m
<1>15. ASSUME c # Space, ~InWord(l)
       PROVE  WordKept(m, t, n + 1)
  <2>1. b = s.at - 1 /\ Ordinal(m, n + 1) = b + 1
    BY <1>4, <1>5, <1>15, Zenon
  <2> DEFINE sa == s.at
             o == Ordinal(m, n + 1)
  <2>2. o = sa /\ sa \in 1 .. 3 /\ sa > b
    <3>1. sa \in 1 .. 3 /\ b = sa - 1 /\ o = b + 1
      BY <1>3, <2>1
    <3> HIDE DEF sa, o
    <3>2. QED
      BY <3>1
  <2>3. s.words[sa] = << >>
    BY <1>4, <2>2
  <2>4. t.words[sa] = Append(<< >>, c)
    BY <1>10, <1>15, <2>3
  <2>5. SubSeq(m, n + 1, n + 1) = Append(<< >>, c)
    BY PieceOfOne, Zenon DEF m, n
  <2>6. n + 1 \in n + 1 .. n + 1 /\ \A k \in n + 1 .. n + 1 : k = n + 1
    BY <1>2
  <2>7. EndsAt(m, n + 1, n + 1)
    BY <1>2, <1>15, <2>6, Zenon DEF EndsAt
  <2>8. t.at = sa /\ t.open
    BY <1>8, <1>15, Zenon
  <2> HIDE DEF sa
  <2>9. QED
    BY <1>2, <2>2, <2>4, <2>5, <2>6, <2>7, <2>8, Zenon DEF WordKept
<1>16. \A i \in Begins(m) : WordKept(m, t, i)
  <2>1. \A i \in Begins(m) : i \in Begins(l) \/ (c # Space /\ ~InWord(l) /\ i = n + 1)
    BY <1>5
  <2>2. QED
    BY <1>14, <1>15, <2>1, Zenon
<1>17. ASSUME NEW k \in 1 .. 3, k > d
       PROVE  t.words[k] = << >>
  <2> DEFINE sa == s.at
  <2>1. sa \in 1 .. 3 /\ (s.open => b = sa) /\ (~s.open => b = sa - 1)
    BY <1>3, <1>4, Zenon
  <2>2. d = b \/ d = b + 1
    BY <1>5, Zenon
  <2>3. c # Space /\ ~s.open => d = b + 1
    BY <1>4, <1>5, Zenon
  <2> HIDE DEF sa
  <2>4. b \in Int
    BY <2>1
  <2>5. k > b
    BY <1>17, <2>2, <2>4
  <2>6. c # Space => k # sa
    BY <1>17, <2>1, <2>2, <2>3, <2>4
  <2>7. QED
    BY <1>4, <1>11, <2>5, <2>6, Zenon DEF sa
<1>18. QED
  BY <1>12, <1>13, <1>16, <1>17, Zenon DEF SplitInv, m, t, d

LEMMA ScanOfAppend ==
    ASSUME NEW X, NEW k \in Seq(X), NEW c \in X, NEW s, NEW t,
           RunsTo(ScanState, ScanStart, Scanning, k, s)
           /\ RunsTo(ScanState, ScanStart, Scanning, Append(k, c), t)
    PROVE  t = Scanning[<<s, c>>]
  BY RunOfAppend

(* What parseCmd has of any line *)
LEMMA SplitAll ==
    ASSUME NEW l \in Seq(STRING), IsParsed(l)
    PROVE  SplitInv(l, Scanned(l))
<1> DEFINE T == {k \in Seq(STRING) : Scanned(k).at <= 3 => SplitInv(k, Scanned(k))}
<1>1. << >> \in T
  <2>0. << >> \in Seq(STRING)
    OBVIOUS
  <2>1. Scanned(<< >>) = ScanStart
    BY <2>0, ScannedRuns, RunOfNothing, Zenon
  <2>2. Begins(<< >>) = {}
    BY DEF Begins
  <2>3. Cardinality(Begins(<< >>)) = 0
    BY <2>2, FS_EmptySet
  <2>4. ~InWord(<< >>)
    BY DEF InWord
  <2>5. /\ ScanStart.at = 1 /\ ScanStart.open = FALSE
        /\ \A k \in 1 .. 3 : ScanStart.words[k] = << >>
    BY DEF ScanStart, NoWords
  <2>6. 0 = 1 - 1
    OBVIOUS
  <2>7. SplitInv(<< >>, ScanStart)
    BY <2>2, <2>3, <2>4, <2>5, <2>6, Zenon DEF SplitInv
  <2>8. QED
    BY <2>0, <2>1, <2>7, Zenon
<1>2. ASSUME NEW k \in Seq(STRING), NEW c \in STRING, k \in T
      PROVE  Append(k, c) \in T
  <2> DEFINE s == Scanned(k)
             t == Scanned(Append(k, c))
  <2>1. Append(k, c) \in Seq(STRING)
    BY AppendIs, Zenon
  <2>2. RunsTo(ScanState, ScanStart, Scanning, k, s) /\ RunsTo(ScanState, ScanStart, Scanning, Append(k, c), t)
    BY <2>1, ScannedRuns, Zenon
  <2>3. s \in ScanState
    BY <2>2, RunInDomain, Zenon
  <2>4. t = Scanning[<<s, c>>]
    BY <2>2, ScanOfAppend, Zenon
  <2>5. t = ScanOn(s, c)
    BY <2>3, <2>4, ScanningType, Zenon
  <2>6. s.at <= 3 => SplitInv(k, s)
    BY <1>2
  <2> HIDE DEF s, t
  <2>7. ASSUME t.at <= 3
        PROVE  SplitInv(Append(k, c), t)
    <3>1. s.at <= 3 /\ t = Scan(s, c)
      BY <2>3, <2>5, <2>7 DEF ScanOn, ScanState
    <3>2. QED
      BY <2>3, <2>6, <2>7, <3>1, SplitStep, Zenon
  <2>8. QED
    BY <2>1, <2>7, Zenon DEF s, t
<1> HIDE DEF T
<1>3. Seq(STRING) \subseteq T
  BY <1>1, <1>2, SequenceInduction
<1>4. l \in T
  BY <1>3
<1>5. QED
  BY <1>4, Zenon DEF T, IsParsed

(* There is one end of a word. *)
LEMMA WordIs ==
    ASSUME NEW l \in Seq(STRING), NEW i \in Begins(l), NEW j \in i .. Len(l), EndsAt(l, i, j)
    PROVE  Word(l, i) = SubSeq(l, i, j)
<1> DEFINE n == Len(l)
           Q(e) == (\A k \in i .. e : l[k] # Space) /\ (e = n \/ l[e + 1] = Space)
           e == CHOOSE e \in i .. n : Q(e)
<1>1. n \in Nat /\ i \in 1 .. n /\ j \in i .. n
  BY BeginsAre
<1>2. Q(j)
  BY Zenon DEF EndsAt
<1>3. e \in i .. n /\ Q(e)
  <2> HIDE DEF Q
  <2>1. QED
    BY <1>1, <1>2, Zenon
<1>4. Word(l, i) = SubSeq(l, i, e)
  BY DEF Word
<1> HIDE DEF e, n
<1>5. ~(j < e)
  <2>1. SUFFICES ASSUME j < e PROVE FALSE
    OBVIOUS
  <2>2. j # n /\ j + 1 \in i .. e
    BY <1>1, <1>3, <2>1
  <2>3. QED
    BY <1>2, <1>3, <2>2, Zenon
<1>6. ~(e < j)
  <2>1. SUFFICES ASSUME e < j PROVE FALSE
    OBVIOUS
  <2>2. e # n /\ e + 1 \in i .. j
    BY <1>1, <1>3, <2>1
  <2>3. QED
    BY <1>2, <1>3, <2>2, Zenon
<1>7. e = j
  BY <1>1, <1>3, <1>5, <1>6
<1>8. QED
  BY <1>4, <1>7, Zenon

(* parseCmd finds the words of every line it does not refuse. *)
LEMMA SplitOf ==
    ASSUME NEW l \in Seq(STRING), IsParsed(l)
    PROVE  /\ \A i \in Begins(l) : Ordinal(l, i) <= 3 /\ Words(l)[Ordinal(l, i)] = Word(l, i)
           /\ \A k \in 1 .. 3 : k > Cardinality(Begins(l)) => Words(l)[k] = << >>
<1>1. SplitInv(l, Scanned(l))
  BY SplitAll
<1>2. ASSUME NEW i \in Begins(l)
      PROVE  Ordinal(l, i) \in 1 .. 3 /\ Words(l)[Ordinal(l, i)] = Word(l, i)
  <2>1. WordKept(l, Scanned(l), i)
    BY <1>1, Zenon DEF SplitInv
  <2>2. PICK j \in i .. Len(l) : /\ EndsAt(l, i, j) /\ Ordinal(l, i) \in 1 .. 3
                                 /\ Scanned(l).words[Ordinal(l, i)] = SubSeq(l, i, j)
    BY <2>1, Zenon DEF WordKept
  <2>3. Word(l, i) = SubSeq(l, i, j)
    BY <2>2, WordIs, Zenon
  <2>4. QED
    BY <2>2, <2>3, Zenon DEF Words
<1>3. ASSUME NEW i \in Begins(l)
      PROVE  Ordinal(l, i) <= 3
  <2> DEFINE o == Ordinal(l, i)
  <2>1. o \in 1 .. 3
    BY <1>2
  <2> HIDE DEF o
  <2>2. o <= 3
    BY <2>1
  <2>3. QED
    BY <2>2 DEF o
<1>4. \A k \in 1 .. 3 : k > Cardinality(Begins(l)) => Words(l)[k] = << >>
  BY <1>1, Zenon DEF SplitInv, Words
<1>5. QED
  BY <1>2, <1>3, <1>4, Zenon

(* The words the monitor obeys are those that stand in the line, in their *)
(* order, however many spaces are between them.                           *)
THEOREM WordsAreTheLines == CommandSpec => []SplitsBySpace
<1>1. CommandInv => SplitsBySpace
  BY SplitOf, Zenon DEF CommandInv, SplitsBySpace
<1>2. QED
  BY <1>1, CommandInvariant, PTL

-----------------------------------------------------------------------------
(* The powers of a base *)
IsPower(b, k, g) == g[0] = 1 /\ \A i \in 1 .. k : g[i] = b * g[i - 1]

LEMMA PowersUpTo ==
    ASSUME NEW b \in Nat
    PROVE  \A k \in Nat : \E g \in [Nat -> Nat] : IsPower(b, k, g)
<1> DEFINE T == {k \in Nat : \E g \in [Nat -> Nat] : IsPower(b, k, g)}
<1>1. 0 \in T
  <2> DEFINE g == [i \in Nat |-> 1]
  <2>1. g \in [Nat -> Nat] /\ IsPower(b, 0, g)
    BY DEF IsPower
  <2> HIDE DEF g
  <2>2. QED
    BY <2>1
<1>2. ASSUME NEW k \in Nat, k \in T
      PROVE  k + 1 \in T
  <2>1. PICK g \in [Nat -> Nat] : IsPower(b, k, g)
    BY <1>2
  <2> DEFINE h == [i \in Nat |-> IF i = k + 1 THEN b * g[k] ELSE g[i]]
  <2>2. h \in [Nat -> Nat]
    <3>1. b * g[k] \in Nat
      BY <2>1
    <3>2. QED
      BY <2>1, <3>1
  <2>3. h[0] = 1
    BY <2>1 DEF IsPower
  <2>4. ASSUME NEW i \in 1 .. k + 1
        PROVE  h[i] = b * h[i - 1]
    <3>1. CASE i = k + 1
      <4>1. k + 1 \in Nat /\ (k + 1) - 1 = k /\ k \in Nat /\ k # k + 1
        OBVIOUS
      <4>2. h[k + 1] = b * g[k] /\ h[k] = g[k]
        BY <4>1, Zenon
      <4>3. QED
        BY <3>1, <4>1, <4>2, Zenon
    <3>2. CASE i # k + 1
      <4>1. i \in 1 .. k /\ i \in Nat /\ i - 1 \in Nat /\ i - 1 # k + 1
        BY <3>2
      <4>2. h[i] = g[i] /\ h[i - 1] = g[i - 1]
        BY <3>2, <4>1, Zenon
      <4>3. QED
        BY <2>1, <4>1, <4>2, Zenon DEF IsPower
    <3>3. QED
      BY <3>1, <3>2
  <2> HIDE DEF h
  <2>5. IsPower(b, k + 1, h)
    BY <2>3, <2>4, Zenon DEF IsPower
  <2>6. k + 1 \in Nat
    OBVIOUS
  <2>7. QED
    BY <2>2, <2>5, <2>6, Zenon
<1> HIDE DEF T
<1>3. Nat \subseteq T
  BY <1>1, <1>2, SetInduction
<1>4. QED
  BY <1>3 DEF T

LEMMA PowersAgree ==
    ASSUME NEW b \in Nat, NEW k \in Nat, NEW m \in Nat, k <= m, NEW g, NEW h,
           IsPower(b, k, g), IsPower(b, m, h)
    PROVE  g[k] = h[k]
<1> DEFINE T == {i \in Nat : i <= k => g[i] = h[i]}
<1>1. 0 \in T
  BY DEF IsPower
<1>2. ASSUME NEW i \in Nat, i \in T
      PROVE  i + 1 \in T
  <2>1. ASSUME i + 1 <= k
        PROVE  g[i + 1] = h[i + 1]
    <3>1. i + 1 \in 1 .. k /\ i + 1 \in 1 .. m /\ (i + 1) - 1 = i /\ i <= k
      BY <2>1
    <3>2. g[i + 1] = b * g[(i + 1) - 1] /\ h[i + 1] = b * h[(i + 1) - 1]
      BY <3>1, Zenon DEF IsPower
    <3>3. g[i] = h[i]
      BY <1>2, <3>1
    <3>4. QED
      BY <3>1, <3>2, <3>3, Zenon
  <2>2. i + 1 \in Nat
    OBVIOUS
  <2>3. QED
    BY <2>1, <2>2
<1> HIDE DEF T
<1>3. Nat \subseteq T
  BY <1>1, <1>2, SetInduction
<1>4. k <= k
  OBVIOUS
<1>5. QED
  BY <1>3, <1>4, Zenon DEF T

LEMMA PowerIs ==
    ASSUME NEW b \in Nat
    PROVE  /\ Power(b)[0] = 1
           /\ \A k \in Nat : Power(b)[k] \in Nat /\ Power(b)[k + 1] = b * Power(b)[k]
<1> DEFINE E(p) == p = [k \in Nat |-> IF k = 0 THEN 1 ELSE b * p[k - 1]]
           G == [k \in Nat |-> CHOOSE g \in [Nat -> Nat] : IsPower(b, k, g)]
           f == [k \in Nat |-> G[k][k]]
           p == CHOOSE p : E(p)
<1>1. ASSUME NEW k \in Nat
      PROVE  G[k] \in [Nat -> Nat] /\ IsPower(b, k, G[k])
  <2>1. \E g \in [Nat -> Nat] : IsPower(b, k, g)
    BY PowersUpTo
  <2>2. QED
    BY <2>1, Zenon
<1> HIDE DEF G
<1>2. \A k \in Nat : f[k] \in Nat
  BY <1>1
<1>3. f[0] = 1
  <2>1. 0 \in Nat
    OBVIOUS
  <2>2. QED
    BY <1>1, <2>1, Zenon DEF IsPower
<1>4. ASSUME NEW k \in Nat, k # 0
      PROVE  f[k] = b * f[k - 1]
  <2> DEFINE j == k - 1
  <2>1. j \in Nat /\ j <= k /\ k \in 1 .. k
    BY <1>4
  <2>2. G[k][k] = b * G[k][k - 1]
    BY <1>1, <2>1, Zenon DEF IsPower
  <2> HIDE DEF j
  <2>3. G[j][j] = G[k][j]
    BY <1>1, <2>1, PowersAgree
  <2>4. QED
    BY <2>1, <2>2, <2>3, Zenon DEF j
<1> HIDE DEF f
<1>5. E(f)
  <2>1. \A k \in Nat : f[k] = IF k = 0 THEN 1 ELSE b * f[k - 1]
    BY <1>3, <1>4, Zenon
  <2>2. f = [k \in Nat |-> f[k]]
    BY DEF f
  <2>3. QED
    BY <2>1, <2>2, Zenon
<1>6. E(p)
  <2> HIDE DEF E
  <2>1. QED
    BY <1>5, Zenon
<1>7. Power(b) = p
  BY DEF Power
<1> HIDE DEF p
<1>8. \A k \in Nat : p[k] = IF k = 0 THEN 1 ELSE b * p[k - 1]
  BY <1>6, Zenon
<1>9. p[0] = 1
  BY <1>8
<1>10. \A k \in Nat : p[k + 1] = b * p[k]
  <2>1. \A k \in Nat : k + 1 \in Nat /\ k + 1 # 0 /\ (k + 1) - 1 = k
    OBVIOUS
  <2>2. \A k \in Nat : p[k + 1] = b * p[(k + 1) - 1]
    BY <1>8, <2>1, Zenon
  <2>3. QED
    BY <2>1, <2>2, Zenon
<1> DEFINE T == {k \in Nat : p[k] \in Nat}
<1>11. 0 \in T /\ \A k \in Nat : k \in T => k + 1 \in T
  BY <1>9, <1>10
<1> HIDE DEF T
<1>12. Nat \subseteq T
  BY <1>11, SetInduction
<1>13. \A k \in Nat : p[k] \in Nat
  BY <1>12 DEF T
<1>14. QED
  BY <1>7, <1>9, <1>10, <1>13, Zenon

(* A numeral denotes the number that is read of its digits. *)
Terms(b, d) == [i \in DOMAIN d |-> DigitValue[d[i]] * Power(b)[Len(d) - i]]

LEMMA TermsType ==
    ASSUME NEW b \in Nat, NEW d \in Seq(Figure)
    PROVE  /\ Terms(b, d) \in Seq(Int) /\ Len(Terms(b, d)) = Len(d)
           /\ \A i \in 1 .. Len(d) : Terms(b, d)[i] = DigitValue[d[i]] * Power(b)[Len(d) - i]
<1> DEFINE n == Len(d)
           F(i) == DigitValue[d[i]] * Power(b)[n - i]
<1>1. n \in Nat /\ DOMAIN d = 1 .. n /\ \A i \in 1 .. n : d[i] \in Figure
  OBVIOUS
<1>2. Terms(b, d) = [i \in 1 .. n |-> F(i)]
  BY <1>1 DEF Terms
<1> HIDE DEF n
<1>3. ASSUME NEW i \in 1 .. n
      PROVE  F(i) \in Int
  <2> DEFINE x == DigitValue[d[i]]
             y == Power(b)[n - i]
  <2>1. x \in Nat
    BY <1>1, FigureValues, Zenon
  <2>2. n - i \in Nat
    BY <1>1
  <2>3. y \in Nat
    BY <2>2, PowerIs, Zenon
  <2> HIDE DEF x, y
  <2>4. x * y \in Int
    BY <2>1, <2>3
  <2>5. QED
    BY <2>4 DEF x, y
<1> HIDE DEF F
<1>4. [i \in 1 .. n |-> F(i)] \in [1 .. n -> Int]
  BY <1>3
<1>5. Terms(b, d) \in Seq(Int) /\ Len(Terms(b, d)) = n
  BY <1>1, <1>2, <1>4
<1>6. \A i \in 1 .. n : Terms(b, d)[i] = F(i)
  BY <1>2
<1>7. QED
  BY <1>5, <1>6, Zenon DEF n, F

LEMMA TermsOfAppend ==
    ASSUME NEW b \in Nat, NEW d \in Seq(Figure), NEW c \in Figure
    PROVE  Terms(b, Append(d, c)) = Append(Times(b, Terms(b, d)), DigitValue[c])
<1> DEFINE n == Len(d)
           a == Append(d, c)
           t == Terms(b, d)
           s == Times(b, t)
           u == Terms(b, a)
           v == Append(s, DigitValue[c])
           P(k) == Power(b)[k]
           V(x) == DigitValue[x]
<1>1. n \in Nat /\ a \in Seq(Figure) /\ Len(a) = n + 1 /\ a[n + 1] = c /\ \A i \in 1 .. n : a[i] = d[i] /\ d[i] \in Figure
  BY AppendIs
<1>2. t \in Seq(Int) /\ Len(t) = n /\ \A i \in 1 .. n : t[i] = V(d[i]) * P(n - i)
  BY TermsType
<1>3. u \in Seq(Int) /\ Len(u) = Len(a) /\ \A i \in 1 .. Len(a) : u[i] = V(a[i]) * P(Len(a) - i)
  BY <1>1, TermsType, Zenon
<1>4. b \in Int
  OBVIOUS
<1>5. s \in Seq(Int) /\ Len(s) = Len(t) /\ \A i \in 1 .. Len(t) : s[i] = b * t[i]
  BY <1>2, <1>4, TimesType, Zenon
<1>6. V(c) \in Int /\ \A x \in Figure : V(x) \in Int
  BY FigureValues
<1>7. P(0) = 1 /\ \A k \in Nat : P(k) \in Nat /\ P(k + 1) = b * P(k)
  BY PowerIs
<1> HIDE DEF a, t, s, u, P, V
<1>8. v \in Seq(Int) /\ Len(v) = Len(s) + 1 /\ v[Len(s) + 1] = V(c) /\ \A i \in 1 .. Len(s) : v[i] = s[i]
  BY <1>5, <1>6, AppendIs DEF V
<1> HIDE DEF n, v
<1>9. ASSUME NEW i \in 1 .. n
      PROVE  u[i] = v[i]
  <2> DEFINE k == n - i
             x == V(d[i])
             y == P(k)
             z == P(k + 1)
  <2>1. k \in Nat /\ (n + 1) - i = k + 1 /\ i \in 1 .. n + 1
    BY <1>1
  <2>2. x \in Int /\ y \in Int /\ z = b * y
    <3>1. x \in Int
      BY <1>1, <1>6, Zenon
    <3>2. y \in Nat /\ z = b * y
      BY <1>7, <2>1, Zenon
    <3>3. QED
      BY <3>1, <3>2
  <2>3. u[i] = x * z
    BY <1>1, <1>3, <2>1, Zenon
  <2>4. v[i] = b * (x * y)
    BY <1>2, <1>5, <1>8, Zenon
  <2> HIDE DEF x, y, z
  <2>5. x * (b * y) = b * (x * y)
    BY <2>2
  <2>6. QED
    BY <2>2, <2>3, <2>4, <2>5, Zenon
<1>10. u[n + 1] = v[n + 1]
  <2> DEFINE x == V(c)
  <2>1. (n + 1) - (n + 1) = 0 /\ n + 1 \in 1 .. n + 1
    BY <1>1
  <2>2. u[n + 1] = x * 1
    <3>1. u[n + 1] = V(a[n + 1]) * P((n + 1) - (n + 1))
      BY <1>1, <1>3, <2>1, Zenon
    <3>2. a[n + 1] = c /\ P((n + 1) - (n + 1)) = 1
      BY <1>1, <1>7, <2>1, Zenon
    <3>3. QED
      BY <3>1, <3>2, Zenon
  <2>3. v[n + 1] = x
    BY <1>2, <1>5, <1>8, Zenon
  <2>4. x \in Int
    BY <1>6
  <2> HIDE DEF x
  <2>5. x * 1 = x
    BY <2>4
  <2>6. QED
    BY <2>2, <2>3, <2>5, Zenon
<1>11. \A i \in 1 .. n + 1 : u[i] = v[i]
  <2>1. \A i \in 1 .. n + 1 : i \in 1 .. n \/ i = n + 1
    BY <1>1
  <2>2. QED
    BY <1>9, <1>10, <2>1, Zenon
<1>12. u = v
  BY <1>1, <1>2, <1>3, <1>5, <1>8, <1>11, SeqEqual
<1>13. QED
  BY <1>12 DEF u, v, a, s, t

LEMMA TermsAdd ==
    ASSUME NEW b \in Nat, NEW d \in Seq(Figure)
    PROVE  Total(Terms(b, d)) = ReadOf(b, d)
<1> DEFINE T == {k \in Seq(Figure) : Total(Terms(b, k)) = ReadOf(b, k)}
<1>1. << >> \in T
  <2>1. Terms(b, << >>) = << >>
    BY DEF Terms
  <2>2. << >> \in Seq(Figure)
    OBVIOUS
  <2>3. QED
    BY <2>1, <2>2, TotalProperties, ReadOfProperties, Zenon
<1>2. ASSUME NEW k \in Seq(Figure), NEW c \in Figure, k \in T
      PROVE  Append(k, c) \in T
  <2> DEFINE t == Terms(b, k)
             s == Times(b, t)
             x == ReadOf(b, k)
             y == DigitValue[c]
  <2>1. t \in Seq(Int) /\ b \in Int /\ Append(k, c) \in Seq(Figure)
    BY TermsType, AppendIs
  <2>2. s \in Seq(Int)
    BY <2>1, TimesType
  <2>3. y \in Int
    BY FigureValues
  <2>4. Terms(b, Append(k, c)) = Append(s, y)
    BY TermsOfAppend
  <2>5. Total(Append(s, y)) = Total(s) + y
    BY <2>2, <2>3, TotalProperties
  <2>6. Total(s) = b * Total(t)
    BY <2>1, TotalOfTimes
  <2>7. Total(t) = x
    BY <1>2
  <2>8. ReadOf(b, Append(k, c)) = b * x + y
    BY ReadOfProperties
  <2>9. QED
    BY <2>1, <2>4, <2>5, <2>6, <2>7, <2>8, Zenon
<1> HIDE DEF T
<1>3. Seq(Figure) \subseteq T
  BY <1>1, <1>2, SequenceInduction
<1>4. QED
  BY <1>3 DEF T

(* All of a numeral is read. *)
LEMMA NumeralIsRead ==
    ASSUME NEW n \in Seq(STRING), IsNumeral(n)
    PROVE  Digits(n) = Numeral(n) /\ Numeral(n) # << >> /\ Denotes(n) = Read(n)
<1> DEFINE s == Numeral(n)
           b == Base(n)
           z == Len(s)
<1>1. s # << >> /\ z \in Nat /\ DOMAIN s = 1 .. z
  BY NumeralType DEF IsNumeral
<1>2. \A i \in 1 .. z : s[i] \in Figure /\ (~IsHex(n) => s[i] # "f")
  <2>1. Range(s) \subseteq Figure \ (IF IsHex(n) THEN {} ELSE {"f"})
    BY Zenon DEF IsNumeral, Figure
  <2>2. \A i \in 1 .. z : s[i] \in Range(s)
    BY <1>1, Zenon DEF Range
  <2>3. QED
    BY <2>1, <2>2
<1>3. \A i \in 1 .. z : IsDigit(s[i], b)
  <2>1. SUFFICES ASSUME NEW i \in 1 .. z PROVE IsDigit(s[i], b)
    OBVIOUS
  <2> DEFINE x == s[i]
             y == DigitValue[x]
  <2>2. x \in Figure /\ (~IsHex(n) => x # "f")
    BY <1>2
  <2>3. y \in Nat /\ y < 16 /\ (~IsHex(n) => y < 10)
    BY <2>2, FigureValues, Zenon
  <2>4. (IsHex(n) => b = 16) /\ (~IsHex(n) => b = 10)
    BY BaseIs
  <2> HIDE DEF y, b
  <2>5. y < b
    BY <2>3, <2>4
  <2>6. QED
    BY <2>2, <2>5 DEF IsDigit, y, Figure
<1>4. FirstOther(n) = 0
  <2> DEFINE k == FirstOther(n)
  <2>1. k \in 0 .. z /\ (k # 0 => ~IsDigit(s[k], b))
    BY FirstOtherIs
  <2> HIDE DEF k, s, b, z
  <2>2. k # 0 => k \in 1 .. z
    BY <1>1, <2>1
  <2>3. k = 0
    BY <1>3, <2>1, <2>2
  <2>4. QED
    BY <2>3 DEF k
<1>5. Digits(n) = s
  BY <1>4 DEF Digits
<1>6. b \in Nat /\ s \in Seq(Figure)
  BY <1>5, BaseIs, DigitsType
<1>7. Read(n) = ReadOf(b, s)
  BY <1>5 DEF Read, ReadOf
<1>8. Denotes(n) = Total(Terms(b, s))
  BY DEF Denotes, Total, Terms
<1> HIDE DEF s, b
<1>9. Denotes(n) = Read(n)
  BY <1>6, <1>7, <1>8, TermsAdd, Zenon
<1>10. QED
  BY <1>1, <1>5, <1>9 DEF s

(* Every character of the numeral is one of the word. *)
LEMMA NumeralIn ==
    ASSUME NEW X, NEW n \in Seq(X), NEW i \in 1 .. Len(Numeral(n))
    PROVE  \E j \in DOMAIN n : n[j] = Numeral(n)[i]
<1>1. ASSUME NEW s \in Seq(X), s # << >>
      PROVE  \A j \in 1 .. Len(Tail(s)) : j + 1 \in DOMAIN s /\ s[j + 1] = Tail(s)[j]
  OBVIOUS
<1>2. ASSUME NEW s \in Seq(X)
      PROVE  DOMAIN s = 1 .. Len(s) /\ (s # << >> => Tail(s) \in Seq(X))
  OBVIOUS
<1> DEFINE t == Text(n)
<1>3. t \in Seq(X) /\ \A j \in DOMAIN t : \E k \in DOMAIN n : n[k] = t[j]
  <2>1. CASE IsHex(n)
    <3>1. n # << >> /\ t = Tail(n)
      BY <2>1 DEF IsHex, Text
    <3>2. Tail(n) \in Seq(X)
      BY <1>2, <3>1
    <3>3. DOMAIN Tail(n) = 1 .. Len(Tail(n))
      BY <1>2, <3>2, Zenon
    <3>4. \A j \in 1 .. Len(Tail(n)) : j + 1 \in DOMAIN n /\ n[j + 1] = Tail(n)[j]
      BY <1>1, <3>1, Zenon
    <3>5. QED
      BY <3>1, <3>2, <3>3, <3>4, Zenon
  <2>2. CASE ~IsHex(n)
    <3>1. t = n
      BY <2>2 DEF Text
    <3>2. QED
      BY <3>1, Zenon
  <2>3. QED
    BY <2>1, <2>2
<1>4. \A j \in 1 .. Len(Numeral(n)) : \E k \in DOMAIN t : t[k] = Numeral(n)[j]
  <2>1. CASE IsSigned(n)
    <3>1. t # << >> /\ Numeral(n) = Tail(t)
      BY <2>1, Zenon DEF IsSigned, Numeral
    <3>2. \A j \in 1 .. Len(Tail(t)) : j + 1 \in DOMAIN t /\ t[j + 1] = Tail(t)[j]
      BY <1>1, <1>3, <3>1, Zenon
    <3>3. QED
      BY <3>1, <3>2, Zenon
  <2>2. CASE ~IsSigned(n)
    <3>1. Numeral(n) = t
      BY <2>2, Zenon DEF Numeral
    <3>2. DOMAIN t = 1 .. Len(t)
      BY <1>2, <1>3, Zenon
    <3>3. QED
      BY <3>1, <3>2, Zenon
  <2>3. QED
    BY <2>1, <2>2
<1>5. QED
  BY <1>3, <1>4, Zenon

(* What is left of a number in m places differs from it by a multiple. *)
LEMMA RestIsMultiple ==
    ASSUME NEW x \in Int, NEW m \in Nat \ {0}
    PROVE  ((x % m) - x) % m = 0
<1> DEFINE q == x \div m
<1>1. q \in Int
  OBVIOUS
<1>2. x % m = x - q * m
  OBVIOUS
<1> HIDE DEF q
<1>3. (x - q * m) - x = (-q) * m
  BY <1>1
<1>4. ((-q) * m) % m = 0
  <2> DEFINE k == -q
  <2>1. k \in Int
    BY <1>1
  <2> HIDE DEF k
  <2>2. (k * m) % m = 0
    BY <2>1
  <2>3. QED
    BY <2>2 DEF k
<1>5. QED
  BY <1>2, <1>3, <1>4, Zenon

LEMMA NumbersOf ==
    ASSUME NEW n \in Seq(STRING)
    PROVE  /\ IsNumeral(n) /\ Value(n) \in -LongMax - 1 .. LongMax /\ ~outOfRange =>
                 IsNumber(n) /\ (Num(n) - Value(n)) % NumModulus = 0
           /\ IsNumber(n) => Num(n) \in 0 .. NumModulus - 1 /\ \E i \in DOMAIN n : n[i] \in DOMAIN DigitValue
<1> DEFINE r == Read(n)
           m == NumModulus
           M == LongMax
<1>1. r \in Nat /\ Num(n) \in Nat /\ Num(n) < m
  BY NumType
<1>2. m \in Nat \ {0} /\ M \in Nat
  BY CommandAssumption
<1>3. Num(n) = (IF IsNegative(n) THEN -r ELSE r) % m
  BY DEF Num
<1>4. ASSUME IsNumeral(n), Value(n) \in -M - 1 .. M, ~outOfRange
      PROVE  IsNumber(n) /\ (Num(n) - Value(n)) % m = 0
  <2>1. Digits(n) # << >> /\ Denotes(n) = r
    BY <1>4, NumeralIsRead
  <2> DEFINE x == IF IsNegative(n) THEN -r ELSE r
  <2>2. Value(n) = x /\ Num(n) = x % m
    BY <1>3, <2>1, Zenon DEF Value
  <2>3. x \in -M - 1 .. M
    BY <1>4, <2>2, Zenon
  <2> HIDE DEF r, m, M
  <2>4. ~(r > IF IsNegative(n) THEN M + 1 ELSE M) /\ x \in Int
    BY <1>1, <1>2, <2>3
  <2>5. IsNumber(n)
    BY <1>4, <2>1, <2>4, Zenon DEF IsNumber, IsTooLong, r, M
  <2> HIDE DEF x
  <2>6. ((x % m) - x) % m = 0
    BY <1>2, <2>4, RestIsMultiple
  <2>7. QED
    BY <2>2, <2>5, <2>6, Zenon
<1>5. ASSUME IsNumber(n)
      PROVE  Num(n) \in 0 .. m - 1 /\ \E i \in DOMAIN n : n[i] \in DOMAIN DigitValue
  <2> DEFINE a == Num(n)
             d == Digits(n)
             s == Numeral(n)
  <2>1. a \in 0 .. m - 1
    <3>1. a \in Nat /\ a < m
      BY <1>1
    <3> HIDE DEF a, m
    <3>2. QED
      BY <1>2, <3>1
  <2>2. d # << >>
    BY <1>5 DEF IsNumber
  <2>3. d \in Seq(Figure) /\ \A i \in 1 .. Len(d) : d[i] = s[i] /\ i <= Len(s)
    BY DigitsType
  <2>4. s \in Seq(STRING)
    BY NumeralType
  <2> HIDE DEF a, d, s
  <2>5. 1 \in 1 .. Len(d) /\ d[1] \in Figure
    BY <2>2, <2>3
  <2>6. s[1] \in Figure /\ 1 <= Len(s)
    BY <2>3, <2>5
  <2>7. 1 \in 1 .. Len(s)
    BY <2>4, <2>6
  <2>8. \E j \in DOMAIN n : n[j] = s[1]
    BY <2>7, NumeralIn DEF s
  <2>9. QED
    BY <2>1, <2>6, <2>8, Zenon DEF a, Figure
<1>6. QED
  BY <1>4, <1>5, Zenon

(* A word that is a numeral is read as the number it denotes, in 32 bits, *)
(* and what is read as a number has a digit.                              *)
THEOREM NumbersAreExact == CommandSpec => []NumbersExact
<1>1. CommandInv => NumbersExact
  <2>1. SUFFICES ASSUME CommandInv, NEW k \in 1 .. 3
                 PROVE  LET n == Words(typed)[k]
                        IN  /\ IsNumeral(n) /\ Value(n) \in -LongMax - 1 .. LongMax /\ ~outOfRange =>
                                  IsNumber(n) /\ (Num(n) - Value(n)) % NumModulus = 0
                            /\ IsNumber(n) => Num(n) \in 0 .. NumModulus - 1 /\ \E i \in DOMAIN n : n[i] \in DOMAIN DigitValue
    BY Zenon DEF NumbersExact
  <2>2. Words(typed)[k] \in Seq(STRING)
    BY <2>1, WordsType DEF CommandInv
  <2>3. QED
    BY <2>2, NumbersOf, Zenon
<1>2. QED
  BY <1>1, CommandInvariant, PTL

(* The table of breakpoints behind the monitor is the user's list, and    *)
(* execute() stops where the list says.                                   *)
THEOREM CommandsKeepTable == CommandSpec => ListSpec /\ [](FlagExact /\ Compact /\ StopsExact)
  BY CommandsImplementTable, TableIsTheList, FlagIsExact, EntriesAreCompact, StopsAreExact, PTL
=============================================================================
