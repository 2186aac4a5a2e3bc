--------------------------- MODULE SequenceLemmas ---------------------------
(***************************************************************************)
(* What the proofs about the loader, the program file and the command line *)
(* need to know of the operators of SequencesExt: what FoldLeft and        *)
(* FlattenSeq do with one more element.  Induction has the set of the      *)
(* values a fact holds for in place of the fact.                           *)
(***************************************************************************)
EXTENDS Integers, SequencesExt, SequenceTheorems, WellFoundedInduction, TLAPS

(* Induction over the naturals, with a set for the property *)
LEMMA SetInduction ==
    ASSUME NEW T, 0 \in T, \A n \in Nat : n \in T => n + 1 \in T
    PROVE  Nat \subseteq T
<1> DEFINE U == {n \in Nat : n \notin T}
<1>1. ASSUME U # {} PROVE FALSE
  <2>1. U \subseteq Nat
    OBVIOUS
  <2>2. PICK x \in U : \A y \in U : ~ (<<y, x>> \in OpToRel(<, Nat))
    <3> HIDE DEF U
    <3>1. QED BY <1>1, <2>1, NatLessThanWellFounded, WFMin, Zenon
  <2>3. \A y \in U : ~(y < x)
    BY <2>1, <2>2 DEF OpToRel
  <2>4. x \in Nat /\ x \notin T /\ x # 0
    OBVIOUS
  <2>5. x - 1 \in Nat /\ x - 1 < x /\ x - 1 + 1 = x
    BY <2>4
  <2>6. x - 1 \in T
    BY <2>3, <2>5
  <2>7. QED
    BY <2>4, <2>5, <2>6
<1>2. QED
  BY <1>1

(* Induction over the sequences on S, one more element at a time *)
LEMMA SequenceInduction ==
    ASSUME NEW S, NEW T, << >> \in T, \A s \in Seq(S) : \A e \in S : s \in T => Append(s, e) \in T
    PROVE  Seq(S) \subseteq T
<1> DEFINE U == {n \in Nat : \A s \in Seq(S) : Len(s) = n => s \in T}
<1>1. 0 \in U
  <2>1. \A s \in Seq(S) : Len(s) = 0 => s = << >>
    OBVIOUS
  <2>2. QED
    BY <2>1
<1>2. ASSUME NEW n \in Nat, n \in U
      PROVE  n + 1 \in U
  <2>1. SUFFICES ASSUME NEW s \in Seq(S), Len(s) = n + 1
                 PROVE  s \in T
    OBVIOUS
  <2>2. s # << >>
    BY <2>1
  <2>3. PICK r \in Seq(S), e \in S : s = Append(r, e)
    BY <2>2, SequenceEmptyOrAppend
  <2>4. Len(r) = n
    BY <2>1, <2>3
  <2>5. r \in T
    BY <1>2, <2>4
  <2>6. QED
    BY <2>3, <2>5
<1>3. Nat \subseteq U
  <2> HIDE DEF U
  <2>1. QED
    BY <1>1, <1>2, SetInduction
<1>4. \A s \in Seq(S) : Len(s) \in Nat
  OBVIOUS
<1>5. QED
  BY <1>3, <1>4

(* The largest of a set of naturals below k + 1 that holds k + 1 *)
LEMMA MaxIsTop ==
    ASSUME NEW k \in Nat, NEW s \in SUBSET (1 .. k + 1), k + 1 \in s
    PROVE  Max(s) = k + 1
<1>1. \A y \in s : k + 1 >= y
  OBVIOUS
<1>2. \A x \in s : (\A y \in s : x >= y) => x = k + 1
  OBVIOUS
<1>3. QED
  BY <1>1, <1>2 DEF Max

LEMMA MaxOfInterval ==
    ASSUME NEW k \in Nat \ {0}
    PROVE  Max(1 .. k) = k /\ (1 .. k) \ {k} = 1 .. k - 1 /\ 1 .. k # {}
<1>1. k - 1 \in Nat /\ (k - 1) + 1 = k /\ k \in 1 .. k
  OBVIOUS
<1>2. 1 .. k \in SUBSET (1 .. (k - 1) + 1)
  OBVIOUS
<1>3. Max(1 .. k) = k
  BY <1>1, <1>2, MaxIsTop, Zenon
<1>4. (1 .. k) \ {k} = 1 .. k - 1
  OBVIOUS
<1>5. QED
  BY <1>1, <1>3, <1>4

(* A set of naturals up to n has a largest one. *)
LEMMA MaxExists ==
    ASSUME NEW n \in Nat, NEW s \in SUBSET (1 .. n), s # {}
    PROVE  Max(s) \in s
<1> DEFINE T == {k \in Nat : \A t \in SUBSET (1 .. k) : t # {} => Max(t) \in t}
<1>1. 0 \in T
  <2>1. 1 .. 0 = {}
    OBVIOUS
  <2>2. QED
    BY <2>1
<1>2. ASSUME NEW k \in Nat, k \in T
      PROVE  k + 1 \in T
  <2>1. SUFFICES ASSUME NEW t \in SUBSET (1 .. k + 1), t # {}
                 PROVE  Max(t) \in t
    OBVIOUS
  <2>2. CASE k + 1 \in t
    BY <2>2, MaxIsTop
  <2>3. CASE k + 1 \notin t
    <3>1. t \in SUBSET (1 .. k)
      BY <2>3
    <3>2. QED
      BY <1>2, <2>1, <3>1
  <2>4. QED
    BY <2>2, <2>3
<1>3. Nat \subseteq T
  <2> HIDE DEF T
  <2>1. QED
    BY <1>1, <1>2, SetInduction
<1>4. QED
  BY <1>3

(* ... and a smallest one. *)
LEMMA MinExists ==
    ASSUME NEW n \in Nat, NEW s \in SUBSET (1 .. n), s # {}
    PROVE  Min(s) \in s /\ \A j \in s : Min(s) <= j
<1> DEFINE Least(t, m) == m \in t /\ \A j \in t : m <= j
           T == {k \in Nat : \A t \in SUBSET (1 .. k) : t # {} => \E m \in t : Least(t, m)}
<1>1. 0 \in T
  <2>1. 1 .. 0 = {}
    OBVIOUS
  <2>2. QED
    BY <2>1
<1>2. ASSUME NEW k \in Nat, k \in T
      PROVE  k + 1 \in T
  <2>1. SUFFICES ASSUME NEW t \in SUBSET (1 .. k + 1), t # {}
                 PROVE  \E m \in t : Least(t, m)
    OBVIOUS
  <2> DEFINE u == t \ {k + 1}
  <2>2. u \in SUBSET (1 .. k)
    OBVIOUS
  <2>3. CASE u = {}
    <3>1. t = {k + 1}
      BY <2>1, <2>3
    <3>2. QED
      BY <3>1
  <2>4. CASE u # {}
    <3>1. PICK m \in u : Least(u, m)
      BY <1>2, <2>2, <2>4
    <3>2. \A j \in t : j \in u \/ j = k + 1
      OBVIOUS
    <3>3. m <= k + 1
      BY <2>2
    <3>4. QED
      BY <3>1, <3>2, <3>3
  <2>5. QED
    BY <2>3, <2>4
<1>3. Nat \subseteq T
  <2> HIDE DEF T
  <2>1. QED
    BY <1>1, <1>2, SetInduction
<1>4. QED
  BY <1>3 DEF Min

-----------------------------------------------------------------------------
(* Folds.  g folds the elements of the sequence s in the places t, the     *)
(* largest place last; step is the operation, base the first value.        *)
FoldsTo(base, step, s, g) ==
    \A t \in SUBSET (1 .. Len(s)) :
       g[t] = IF t = {} THEN base ELSE step[<<g[t \ {Max(t)}], s[Max(t)]>>]

(* There is one. *)
LEMMA FoldExists ==
    ASSUME NEW X, NEW s \in Seq(X), NEW D, NEW base \in D, NEW step \in [D \X X -> D]
    PROVE  \E g \in [SUBSET (1 .. Len(s)) -> D] : FoldsTo(base, step, s, g)
<1> DEFINE n == Len(s)
           Folds(k, g) == \A t \in SUBSET (1 .. k) :
              g[t] = IF t = {} THEN base ELSE step[<<g[t \ {Max(t)}], s[Max(t)]>>]
           Good(k) == \E g \in [SUBSET (1 .. k) -> D] : Folds(k, g)
           T == {k \in Nat : k <= n => Good(k)}
<1>0. n \in Nat /\ \A k \in 1 .. n : s[k] \in X
  OBVIOUS
<1> HIDE DEF n
<1>1. Good(0)
  <2> DEFINE g == [t \in SUBSET (1 .. 0) |-> base]
  <2>1. g \in [SUBSET (1 .. 0) -> D] /\ Folds(0, g)
    OBVIOUS
  <2>2. QED
    BY <2>1
<1>2. ASSUME NEW k \in Nat, Good(k), k + 1 <= n
      PROVE  Good(k + 1)
  <2>1. PICK g \in [SUBSET (1 .. k) -> D] : Folds(k, g)
    BY <1>2
  <2> DEFINE h == [t \in SUBSET (1 .. k + 1) |->
                     IF k + 1 \in t THEN step[<<g[t \ {k + 1}], s[k + 1]>>] ELSE g[t]]
  <2>2. \A t \in SUBSET (1 .. k + 1) : t \ {k + 1} \in SUBSET (1 .. k)
    OBVIOUS
  <2>3. \A t \in SUBSET (1 .. k) : t \in SUBSET (1 .. k + 1) /\ k + 1 \notin t /\ h[t] = g[t]
    OBVIOUS
  <2>4. s[k + 1] \in X
    BY <1>0, <1>2
  <2>5. h \in [SUBSET (1 .. k + 1) -> D]
    <3>1. ASSUME NEW t \in SUBSET (1 .. k + 1)
          PROVE  (IF k + 1 \in t THEN step[<<g[t \ {k + 1}], s[k + 1]>>] ELSE g[t]) \in D
      <4>1. CASE k + 1 \in t
        <5>1. g[t \ {k + 1}] \in D
          BY <2>1, <2>2
        <5>2. <<g[t \ {k + 1}], s[k + 1]>> \in D \X X
          BY <2>4, <5>1
        <5>3. QED
          BY <4>1, <5>2
      <4>2. CASE k + 1 \notin t
        <5>1. t = t \ {k + 1}
          BY <4>2
        <5>2. g[t] \in D
          BY <2>1, <2>2, <5>1
        <5>3. QED
          BY <4>2, <5>2
      <4>3. QED
        BY <4>1, <4>2
    <3>2. QED
      BY <3>1
  <2>6. Folds(k + 1, h)
    <3>1. SUFFICES ASSUME NEW t \in SUBSET (1 .. k + 1)
                   PROVE  h[t] = IF t = {} THEN base ELSE step[<<h[t \ {Max(t)}], s[Max(t)]>>]
      OBVIOUS
    <3>2. CASE k + 1 \in t
      <4>1. Max(t) = k + 1
        BY <3>2, MaxIsTop
      <4>2. h[t \ {k + 1}] = g[t \ {k + 1}]
        BY <2>2, <2>3
      <4>3. h[t] = step[<<g[t \ {k + 1}], s[k + 1]>>]
        BY <3>2
      <4>4. QED
        <5> HIDE DEF h
        <5>1. QED
          BY <3>2, <4>1, <4>2, <4>3
    <3>3. CASE k + 1 \notin t
      <4>1. t \in SUBSET (1 .. k)
        BY <3>3
      <4>2. t \ {Max(t)} \in SUBSET (1 .. k)
        BY <4>1
      <4>3. h[t] = g[t] /\ h[t \ {Max(t)}] = g[t \ {Max(t)}]
        BY <2>3, <4>1, <4>2
      <4>4. QED
        <5> HIDE DEF h
        <5>1. QED
          BY <2>1, <4>1, <4>3
    <3>4. QED
      BY <3>2, <3>3
  <2>7. QED
    <3> HIDE DEF h, Folds
    <3>1. QED
      BY <2>5, <2>6
<1>3. Nat \subseteq T
  <2> HIDE DEF Good
  <2>1. 0 \in T
    BY <1>1
  <2>2. \A k \in Nat : k \in T => k + 1 \in T
    BY <1>0, <1>2
  <2>3. QED
    <3> HIDE DEF T
    <3>1. QED
      BY <2>1, <2>2, SetInduction
<1>4. Good(n)
  <2> HIDE DEF Good
  <2>1. QED
    BY <1>0, <1>3
<1>5. QED
  BY <1>4 DEF FoldsTo, n

(* The same, element by element: v is what remains of s. *)
RunsTo(D, base, step, s, v) ==
    \E h \in [0 .. Len(s) -> D] :
       /\ h[0] = base
       /\ \A k \in 1 .. Len(s) : h[k] = step[<<h[k - 1], s[k]>>]
       /\ v = h[Len(s)]

(* A fold as FoldLeft defines it is one. *)
LEMMA FoldRuns ==
    ASSUME NEW X, NEW s \in Seq(X), NEW D, NEW base \in D, NEW step \in [D \X X -> D], NEW g,
           g[{}] = base,
           \A t \in SUBSET (1 .. Len(s)) :
              t # {} /\ g[t \ {Max(t)}] \in D => g[t] = step[<<g[t \ {Max(t)}], s[Max(t)]>>]
    PROVE  RunsTo(D, base, step, s, g[1 .. Len(s)])
<1> DEFINE n == Len(s)
           h == [k \in 0 .. n |-> g[1 .. k]]
<1>0. n \in Nat /\ \A k \in 1 .. n : s[k] \in X
  OBVIOUS
<1>1. h[0] = base
  <2>1. 1 .. 0 = {}
    OBVIOUS
  <2>2. QED
    BY <1>0, <2>1
<1>2. ASSUME NEW k \in 1 .. n, h[k - 1] \in D
      PROVE  h[k] \in D /\ h[k] = step[<<h[k - 1], s[k]>>]
  <2>1. h[k] = g[1 .. k] /\ h[k - 1] = g[1 .. k - 1]
    BY <1>0
  <2>2. k \in Nat \ {0} /\ k <= n
    BY <1>0
  <2>3. Max(1 .. k) = k /\ (1 .. k) \ {k} = 1 .. k - 1 /\ 1 .. k # {}
    BY <2>2, MaxOfInterval
  <2>4. 1 .. k \in SUBSET (1 .. n)
    BY <1>0, <2>2
  <2> HIDE DEF h
  <2>5. h[k] = step[<<h[k - 1], s[k]>>]
    BY <1>2, <2>1, <2>3, <2>4
  <2>6. <<h[k - 1], s[k]>> \in D \X X
    BY <1>0, <1>2
  <2>7. QED
    BY <2>5, <2>6
<1>3. \A k \in 0 .. n : h[k] \in D
  <2> HIDE DEF h, n
  <2> DEFINE T == {k \in Nat : k <= n => h[k] \in D}
  <2>1. 0 \in T
    BY <1>1
  <2>2. ASSUME NEW k \in Nat, k \in T
        PROVE  k + 1 \in T
    <3>1. SUFFICES ASSUME k + 1 <= n
                   PROVE  h[k + 1] \in D
      OBVIOUS
    <3>2. k + 1 \in 1 .. n /\ k + 1 - 1 = k /\ h[k] \in D
      BY <1>0, <2>2, <3>1
    <3>3. h[(k + 1) - 1] \in D
      BY <3>2
    <3>4. QED
      BY <1>2, <3>2, <3>3, Zenon
  <2>3. Nat \subseteq T
    <3> HIDE DEF T
    <3>1. QED
      BY <2>1, <2>2, SetInduction
  <2>4. QED
    BY <1>0, <2>3
<1>4. \A k \in 1 .. n : h[k] = step[<<h[k - 1], s[k]>>]
  <2> HIDE DEF h, n
  <2>1. QED
    BY <1>0, <1>2, <1>3
<1>5. h \in [0 .. n -> D] /\ g[1 .. n] = h[n]
  BY <1>0, <1>3
<1>6. QED
  <2> HIDE DEF h
  <2>1. QED
    BY <1>1, <1>4, <1>5 DEF RunsTo

(* Nothing is folded to the first value, and one more element makes one *)
(* more step.                                                           *)
LEMMA RunOfNothing ==
    ASSUME NEW D, NEW base, NEW step, NEW v, RunsTo(D, base, step, << >>, v)
    PROVE  v = base
  BY DEF RunsTo

LEMMA RunInDomain ==
    ASSUME NEW X, NEW s \in Seq(X), NEW D, NEW base, NEW step, NEW v, RunsTo(D, base, step, s, v)
    PROVE  v \in D
<1>1. Len(s) \in Nat
  OBVIOUS
<1>2. QED
  BY <1>1 DEF RunsTo

LEMMA RunOfAppend ==
    ASSUME NEW X, NEW s \in Seq(X), NEW e \in X, NEW D, NEW base, NEW step, NEW v, NEW w,
           RunsTo(D, base, step, s, v), RunsTo(D, base, step, Append(s, e), w)
    PROVE  w = step[<<v, e>>]
<1> DEFINE n == Len(s)
           a == Append(s, e)
<1>1. n \in Nat /\ Len(a) = n + 1 /\ a[n + 1] = e /\ \A k \in 1 .. n : a[k] = s[k]
  OBVIOUS
<1>2. PICK h \in [0 .. n -> D] :
         h[0] = base /\ (\A k \in 1 .. n : h[k] = step[<<h[k - 1], s[k]>>]) /\ v = h[n]
  BY DEF RunsTo
<1>3. PICK j \in [0 .. n + 1 -> D] :
         j[0] = base /\ (\A k \in 1 .. n + 1 : j[k] = step[<<j[k - 1], a[k]>>]) /\ w = j[n + 1]
  <2> HIDE DEF a, n
  <2>1. QED
    BY <1>1 DEF RunsTo, a
<1> HIDE DEF a, n
<1> DEFINE T == {k \in Nat : k <= n => h[k] = j[k]}
<1>4. 0 \in T
  BY <1>2, <1>3
<1>5. ASSUME NEW k \in Nat, k \in T
      PROVE  k + 1 \in T
  <2>1. SUFFICES ASSUME k + 1 <= n
                 PROVE  h[k + 1] = j[k + 1]
    OBVIOUS
  <2>2. k + 1 \in 1 .. n /\ k + 1 \in 1 .. n + 1 /\ k + 1 - 1 = k /\ h[k] = j[k]
    BY <1>1, <1>5, <2>1
  <2>3. h[k + 1] = step[<<h[(k + 1) - 1], s[k + 1]>>] /\ j[k + 1] = step[<<j[(k + 1) - 1], a[k + 1]>>]
    BY <1>2, <1>3, <2>2, Zenon
  <2>4. a[k + 1] = s[k + 1]
    BY <1>1, <2>2, Zenon
  <2>5. h[(k + 1) - 1] = j[(k + 1) - 1]
    BY <2>2
  <2>6. QED
    BY <2>3, <2>4, <2>5, Zenon
<1>6. Nat \subseteq T
  <2> HIDE DEF T
  <2>1. QED
    BY <1>4, <1>5, SetInduction
<1>7. h[n] = j[n]
  BY <1>1, <1>6
<1>8. n + 1 \in 1 .. n + 1 /\ n + 1 - 1 = n
  BY <1>1
<1>9. QED
  BY <1>1, <1>2, <1>3, <1>7, <1>8

-----------------------------------------------------------------------------
(* The sum of a sequence *)
Total(s) == FoldLeft(+, 0, s)
Adding == [p \in Int \X Int |-> p[1] + p[2]]

LEMMA TotalRuns ==
    ASSUME NEW s \in Seq(Int)
    PROVE  RunsTo(Int, 0, Adding, s, Total(s))
<1> DEFINE E(f) == f = [t \in SUBSET DOMAIN s |->
                           IF t = {} THEN 0 ELSE f[t \ {Max(t)}] + s[Max(t)]]
           g == CHOOSE f : E(f)
<1>1. Len(s) \in Nat /\ DOMAIN s = 1 .. Len(s) /\ \A k \in 1 .. Len(s) : s[k] \in Int
  OBVIOUS
<1>2. 0 \in Int /\ Adding \in [Int \X Int -> Int] /\ \A a, b \in Int : Adding[<<a, b>>] = a + b
  BY DEF Adding
<1>3. \A t \in SUBSET (1 .. Len(s)) : t # {} => s[Max(t)] \in Int
  BY <1>1, MaxExists
<1>4. PICK f \in [SUBSET (1 .. Len(s)) -> Int] : FoldsTo(0, Adding, s, f)
  BY <1>2, FoldExists, Zenon
<1>5. E(f)
  <2>1. \A t \in SUBSET (1 .. Len(s)) :
           f[t] = IF t = {} THEN 0 ELSE f[t \ {Max(t)}] + s[Max(t)]
    BY <1>2, <1>3, <1>4 DEF FoldsTo
  <2>2. QED
    BY <1>1, <2>1
<1>6. E(g)
  <2> HIDE DEF E
  <2>1. QED
    BY <1>5
<1>7. Total(s) = g[1 .. Len(s)]
  BY <1>1 DEF Total, FoldLeft, MapThenFoldSet
<1>8. g[{}] = 0
  <2> HIDE DEF g
  <2>1. QED
    BY <1>6
<1>9. \A t \in SUBSET (1 .. Len(s)) :
         t # {} /\ g[t \ {Max(t)}] \in Int => g[t] = Adding[<<g[t \ {Max(t)}], s[Max(t)]>>]
  <2> HIDE DEF g
  <2>1. QED
    BY <1>1, <1>2, <1>3, <1>6
<1>10. RunsTo(Int, 0, Adding, s, g[1 .. Len(s)])
  <2> HIDE DEF g
  <2>1. QED
    BY <1>2, <1>8, <1>9, FoldRuns
<1>11. QED
  BY <1>7, <1>10, Zenon

LEMMA TotalProperties ==
    /\ Total(<< >>) = 0
    /\ \A s \in Seq(Int) : Total(s) \in Int
    /\ \A s \in Seq(Int) : \A e \in Int : Total(Append(s, e)) = Total(s) + e
<1>1. Total(<< >>) = 0
  <2>1. << >> \in Seq(Int)
    OBVIOUS
  <2>2. QED
    BY <2>1, TotalRuns, RunOfNothing, Zenon
<1>2. ASSUME NEW s \in Seq(Int)
      PROVE  Total(s) \in Int
  BY TotalRuns, RunInDomain, Zenon
<1>3. ASSUME NEW s \in Seq(Int), NEW e \in Int
      PROVE  Total(Append(s, e)) = Total(s) + e
  <2>1. Append(s, e) \in Seq(Int)
    OBVIOUS
  <2>2. RunsTo(Int, 0, Adding, s, Total(s)) /\ RunsTo(Int, 0, Adding, Append(s, e), Total(Append(s, e)))
    BY <2>1, TotalRuns
  <2>3. Total(Append(s, e)) = Adding[<<Total(s), e>>]
    BY <2>2, RunOfAppend
  <2>4. QED
    BY <1>2, <2>3 DEF Adding
<1>4. QED
  BY <1>1, <1>2, <1>3

(* The sum of two sequences, one behind the other *)
LEMMA TotalOfConcat ==
    ASSUME NEW s \in Seq(Int), NEW t \in Seq(Int)
    PROVE  Total(s \o t) = Total(s) + Total(t)
<1> DEFINE T == {u \in Seq(Int) : Total(s \o u) = Total(s) + Total(u)}
<1>1. << >> \in T
  <2>1. s \o << >> = s /\ << >> \in Seq(Int)
    OBVIOUS
  <2>2. QED
    BY <2>1, TotalProperties
<1>2. ASSUME NEW u \in Seq(Int), NEW e \in Int, u \in T
      PROVE  Append(u, e) \in T
  <2>1. s \o Append(u, e) = Append(s \o u, e) /\ s \o u \in Seq(Int) /\ Append(u, e) \in Seq(Int)
    OBVIOUS
  <2>2. Total(s \o Append(u, e)) = Total(s \o u) + e
    BY <2>1, TotalProperties
  <2>3. Total(Append(u, e)) = Total(u) + e /\ Total(u) \in Int /\ Total(s) \in Int
    BY TotalProperties
  <2>4. Total(s \o u) = Total(s) + Total(u)
    BY <1>2
  <2>5. Total(s \o u) + e = Total(s) + (Total(u) + e)
    BY <2>3, <2>4
  <2>6. Total(s \o Append(u, e)) = Total(s) + Total(Append(u, e))
    BY <2>2, <2>3, <2>5, Zenon
  <2>7. QED
    BY <2>1, <2>6, Zenon
<1>3. Seq(Int) \subseteq T
  <2> HIDE DEF T
  <2>1. QED
    BY <1>1, <1>2, SequenceInduction
<1>4. QED
  BY <1>3

(* The last element changed, and another one *)
LEMMA ExceptOfAppend ==
    ASSUME NEW X, NEW s \in Seq(X), NEW x \in X, NEW e \in X
    PROVE  /\ [Append(s, x) EXCEPT ![Len(s) + 1] = e] = Append(s, e)
           /\ \A j \in 1 .. Len(s) : [Append(s, x) EXCEPT ![j] = e] = Append([s EXCEPT ![j] = e], x)
<1> DEFINE a == Append(s, x)
<1>1. a \in Seq(X) /\ Len(a) = Len(s) + 1 /\ Len(s) \in Nat /\ a[Len(s) + 1] = x
      /\ \A k \in 1 .. Len(s) : a[k] = s[k]
  OBVIOUS
<1>2. Append(s, e) \in Seq(X) /\ Len(Append(s, e)) = Len(s) + 1 /\ Append(s, e)[Len(s) + 1] = e
      /\ \A k \in 1 .. Len(s) : Append(s, e)[k] = s[k]
  OBVIOUS
<1>3. [a EXCEPT ![Len(s) + 1] = e] = Append(s, e)
  <2> HIDE DEF a
  <2> DEFINE c == [a EXCEPT ![Len(s) + 1] = e]
  <2>1. Len(s) + 1 \in 1 .. Len(a)
    BY <1>1
  <2>2. c \in Seq(X) /\ Len(c) = Len(a) /\ \A k \in 1 .. Len(a) : c[k] = IF k = Len(s) + 1 THEN e ELSE a[k]
    BY <1>1, <2>1, ExceptSeq
  <2>3. \A k \in 1 .. Len(c) : c[k] = Append(s, e)[k]
    BY <1>1, <1>2, <2>2
  <2>4. QED
    <3> HIDE DEF c
    <3>1. Len(c) = Len(Append(s, e))
      BY <1>1, <1>2, <2>2
    <3>2. c = Append(s, e)
      BY <1>2, <2>2, <2>3, <3>1, SeqEqual
    <3>3. QED
      BY <3>2 DEF c
<1>4. ASSUME NEW j \in 1 .. Len(s)
      PROVE  [a EXCEPT ![j] = e] = Append([s EXCEPT ![j] = e], x)
  <2> HIDE DEF a
  <2> DEFINE c == [a EXCEPT ![j] = e]
             d == [s EXCEPT ![j] = e]
  <2>1. j \in 1 .. Len(a)
    BY <1>1
  <2>2. c \in Seq(X) /\ Len(c) = Len(a) /\ \A k \in 1 .. Len(a) : c[k] = IF k = j THEN e ELSE a[k]
    BY <1>1, <2>1, ExceptSeq
  <2>3. d \in Seq(X) /\ Len(d) = Len(s) /\ \A k \in 1 .. Len(s) : d[k] = IF k = j THEN e ELSE s[k]
    BY ExceptSeq
  <2> HIDE DEF c, d
  <2>4. /\ Append(d, x) \in Seq(X) /\ Len(Append(d, x)) = Len(s) + 1 /\ Append(d, x)[Len(s) + 1] = x
        /\ \A k \in 1 .. Len(s) : Append(d, x)[k] = d[k]
    BY <2>3
  <2>5. \A k \in 1 .. Len(c) : c[k] = Append(d, x)[k]
    BY <1>1, <2>2, <2>3, <2>4
  <2>6. Len(c) = Len(Append(d, x))
    BY <1>1, <2>2, <2>4
  <2>7. c = Append(d, x)
    BY <2>2, <2>4, <2>5, <2>6, SeqEqual
  <2>8. QED
    BY <2>7 DEF c, d
<1>5. QED
  BY <1>3, <1>4

(* Another element in one place changes the sum by the difference. *)
LEMMA TotalOfExcept ==
    ASSUME NEW s \in Seq(Int), NEW i \in 1 .. Len(s), NEW e \in Int
    PROVE  Total([s EXCEPT ![i] = e]) = Total(s) - s[i] + e
<1> DEFINE T == {u \in Seq(Int) : \A j \in 1 .. Len(u) : Total([u EXCEPT ![j] = e]) = Total(u) - u[j] + e}
<1>1. << >> \in T
  OBVIOUS
<1>2. ASSUME NEW u \in Seq(Int), NEW x \in Int, u \in T
      PROVE  Append(u, x) \in T
  <2> DEFINE a == Append(u, x)
  <2>1. a \in Seq(Int) /\ Len(a) = Len(u) + 1 /\ Len(u) \in Nat
        /\ a[Len(u) + 1] = x /\ \A k \in 1 .. Len(u) : a[k] = u[k] /\ u[k] \in Int
    OBVIOUS
  <2>2. Total(a) = Total(u) + x /\ Total(u) \in Int
    BY TotalProperties
  <2>3. ASSUME NEW j \in 1 .. Len(a)
        PROVE  Total([a EXCEPT ![j] = e]) = Total(a) - a[j] + e
    <3>1. CASE j = Len(u) + 1
      <4>0. [a EXCEPT ![Len(u) + 1] = e] = Append(u, e)
        BY ExceptOfAppend
      <4>1. [a EXCEPT ![j] = e] = Append(u, e)
        BY <3>1, <4>0, Zenon
      <4>2. Total(Append(u, e)) = Total(u) + e
        BY TotalProperties
      <4>3. a[j] = x
        BY <2>1, <3>1
      <4>4. Total(a) - a[j] + e = Total(u) + e
        <5> HIDE DEF a
        <5>1. QED
          BY <2>2, <4>3
      <4>5. QED
        <5> HIDE DEF a
        <5>1. QED
          BY <4>1, <4>2, <4>4, Zenon
    <3>2. CASE j # Len(u) + 1
      <4>1. j \in 1 .. Len(u)
        BY <2>1, <3>2
      <4>2. [a EXCEPT ![j] = e] = Append([u EXCEPT ![j] = e], x)
        BY <4>1, ExceptOfAppend
      <4>3. [u EXCEPT ![j] = e] \in Seq(Int)
        BY <4>1, ExceptSeq
      <4>4. Total([u EXCEPT ![j] = e]) = Total(u) - u[j] + e
        BY <1>2, <4>1
      <4>5. Total(Append([u EXCEPT ![j] = e], x)) = Total([u EXCEPT ![j] = e]) + x
        BY <4>3, TotalProperties
      <4>6. a[j] = u[j] /\ u[j] \in Int
        BY <2>1, <4>1
      <4>7. (Total(u) - u[j] + e) + x = (Total(u) + x) - u[j] + e
        BY <2>2, <4>6
      <4>8. QED
        <5> HIDE DEF a
        <5>1. QED
          BY <2>2, <4>2, <4>4, <4>5, <4>6, <4>7, Zenon
    <3>3. QED
      BY <3>1, <3>2
  <2>4. QED
    <3> HIDE DEF a
    <3>1. QED
      BY <2>1, <2>3 DEF a
<1>3. Seq(Int) \subseteq T
  <2> HIDE DEF T
  <2>1. QED
    BY <1>1, <1>2, SequenceInduction
<1>4. QED
  BY <1>3

-----------------------------------------------------------------------------
(* Three sequences one behind the other *)
LEMMA JoinThree ==
    ASSUME NEW X, NEW a \in Seq(X), NEW b \in Seq(X), NEW c \in Seq(X),
           NEW ab, ab = a \o b, NEW bc, bc = b \o c
    PROVE  ab \o c = a \o bc
<1>1. (a \o b) \o c = a \o (b \o c)
  OBVIOUS
<1>2. QED
  BY <1>1, Zenon

(* A sequence of sequences written out *)
Joining(X) == [p \in Seq(X) \X Seq(X) |-> p[1] \o p[2]]

LEMMA FlattenRuns ==
    ASSUME NEW X, NEW ss \in Seq(Seq(X))
    PROVE  RunsTo(Seq(X), << >>, Joining(X), ss, FlattenSeq(ss))
<1> DEFINE D == Seq(X)
           n == Len(ss)
           E(f) == f = [i \in 1 .. Len(ss) |-> IF i = 1 THEN ss[i] ELSE f[i - 1] \o ss[i]]
           f == CHOOSE f : E(f)
<1>1. n \in Nat /\ DOMAIN ss = 1 .. n /\ \A k \in 1 .. n : ss[k] \in D
  OBVIOUS
<1>2. /\ << >> \in D /\ Joining(X) \in [D \X D -> D]
      /\ \A a, b \in D : Joining(X)[<<a, b>>] = a \o b
      /\ \A a \in D : << >> \o a = a
  <2>1. \A a, b \in D : a \o b \in D
    OBVIOUS
  <2>2. << >> \in D /\ \A a \in D : << >> \o a = a
    OBVIOUS
  <2>3. Joining(X) \in [D \X D -> D] /\ \A a, b \in D : Joining(X)[<<a, b>>] = a \o b
    <3> HIDE DEF D
    <3>1. QED
      BY <2>1 DEF Joining, D
  <2>4. QED
    BY <2>2, <2>3
<1>3. PICK g \in [SUBSET (1 .. n) -> D] : FoldsTo(<< >>, Joining(X), ss, g)
  BY <1>2, FoldExists, Zenon
<1>4. RunsTo(D, << >>, Joining(X), ss, g[1 .. n])
  <2>1. 1 .. n # {} \/ 1 .. n = {}
    OBVIOUS
  <2>2. g[{}] = << >> /\ \A t \in SUBSET (1 .. n) : t # {} =>
            g[t] = Joining(X)[<<g[t \ {Max(t)}], ss[Max(t)]>>]
    BY <1>3 DEF FoldsTo
  <2>3. QED
    <3> HIDE DEF D
    <3>1. QED
      BY <1>2, <2>2, FoldRuns DEF D
<1>5. PICK h \in [0 .. n -> D] :
         /\ h[0] = << >>
         /\ \A k \in 1 .. n : h[k] = Joining(X)[<<h[k - 1], ss[k]>>]
         /\ g[1 .. n] = h[n]
  BY <1>4 DEF RunsTo
<1>6. ASSUME NEW k \in 1 .. n
      PROVE  h[k] = h[k - 1] \o ss[k] /\ (k = 1 => h[k] = ss[k])
  <2>1. k - 1 \in 0 .. n
    BY <1>1
  <2>2. h[k - 1] \in D /\ ss[k] \in D
    BY <1>1, <2>1
  <2>3. h[k] = Joining(X)[<<h[k - 1], ss[k]>>]
    BY <1>5
  <2>4. h[k] = h[k - 1] \o ss[k]
    BY <1>2, <2>2, <2>3, Zenon
  <2>5. k = 1 => h[k - 1] = << >>
    BY <1>5
  <2>6. QED
    BY <1>2, <2>2, <2>4, <2>5, Zenon
<1>7. \E e : E(e)
  <2> DEFINE e == [i \in 1 .. n |-> h[i]]
  <2>1. \A i \in 1 .. n : e[i] = IF i = 1 THEN ss[i] ELSE e[i - 1] \o ss[i]
    <3>1. SUFFICES ASSUME NEW i \in 1 .. n
                   PROVE  h[i] = IF i = 1 THEN ss[i] ELSE e[i - 1] \o ss[i]
      OBVIOUS
    <3>2. i # 1 => e[i - 1] = h[i - 1]
      BY <1>1
    <3>3. QED
      <4> HIDE DEF e
      <4>1. QED
        BY <1>6, <3>2
  <2>2. E(e)
    BY <2>1
  <2>3. QED
    BY <2>2
<1>8. E(f)
  <2> HIDE DEF E
  <2>1. QED
    BY <1>7
<1>9. n # 0 => f[n] = h[n]
  <2> HIDE DEF f
  <2>1. \A i \in 1 .. n : f[i] = IF i = 1 THEN ss[i] ELSE f[i - 1] \o ss[i]
    BY <1>8
  <2> HIDE DEF n, E, D
  <2> DEFINE T == {k \in Nat : k \in 1 .. n => f[k] = h[k]}
  <2>2. 0 \in T
    OBVIOUS
  <2>3. ASSUME NEW k \in Nat, k \in T
        PROVE  k + 1 \in T
    <3>1. SUFFICES ASSUME k + 1 \in 1 .. n
                   PROVE  f[k + 1] = h[k + 1]
      OBVIOUS
    <3>2. f[k + 1] = IF k + 1 = 1 THEN ss[k + 1] ELSE f[(k + 1) - 1] \o ss[k + 1]
      BY <2>1, <3>1, Zenon
    <3>3. h[k + 1] = h[(k + 1) - 1] \o ss[k + 1] /\ (k + 1 = 1 => h[k + 1] = ss[k + 1])
      BY <1>6, <3>1, Zenon
    <3>4. k + 1 # 1 => f[(k + 1) - 1] = h[(k + 1) - 1]
      BY <1>1, <2>3, <3>1
    <3>5. QED
      BY <3>2, <3>3, <3>4, Zenon
  <2>4. Nat \subseteq T
    <3> HIDE DEF T
    <3>1. QED
      BY <2>2, <2>3, SetInduction
  <2>5. QED
    BY <1>1, <2>4
<1>10. FlattenSeq(ss) = h[n]
  <2>1. CASE n = 0
    <3>1. ss = << >>
      BY <2>1
    <3>2. QED
      BY <1>5, <2>1, <3>1 DEF FlattenSeq
  <2>2. CASE n # 0
    <3>1. FlattenSeq(ss) = f[n]
      BY <2>2 DEF FlattenSeq
    <3>2. QED
      BY <1>9, <2>2, <3>1, Zenon
  <2>3. QED
    BY <2>1, <2>2
<1>11. QED
  BY <1>4, <1>5, <1>10, Zenon

LEMMA FlattenProperties ==
    ASSUME NEW X
    PROVE  /\ FlattenSeq(<< >>) = << >>
           /\ \A ss \in Seq(Seq(X)) : FlattenSeq(ss) \in Seq(X)
           /\ \A ss \in Seq(Seq(X)) : \A s \in Seq(X) :
                 FlattenSeq(Append(ss, s)) = FlattenSeq(ss) \o s
<1>1. FlattenSeq(<< >>) = << >>
  BY DEF FlattenSeq
<1>2. ASSUME NEW ss \in Seq(Seq(X))
      PROVE  FlattenSeq(ss) \in Seq(X)
  BY FlattenRuns, RunInDomain, Zenon
<1>3. ASSUME NEW ss \in Seq(Seq(X)), NEW s \in Seq(X)
      PROVE  FlattenSeq(Append(ss, s)) = FlattenSeq(ss) \o s
  <2>1. Append(ss, s) \in Seq(Seq(X))
    OBVIOUS
  <2>2. FlattenSeq(Append(ss, s)) = Joining(X)[<<FlattenSeq(ss), s>>]
    BY <2>1, FlattenRuns, RunOfAppend, Zenon
  <2>3. QED
    BY <1>2, <2>2 DEF Joining
<1>4. QED
  BY <1>1, <1>2, <1>3

-----------------------------------------------------------------------------
(* Pieces of a sequence that gets one more element *)
LEMMA AppendIs ==
    ASSUME NEW X, NEW l \in Seq(X), NEW c \in X
    PROVE  /\ Len(l) \in Nat /\ Append(l, c) \in Seq(X) /\ Len(Append(l, c)) = Len(l) + 1
           /\ Append(l, c)[Len(l) + 1] = c
           /\ \A i \in 1 .. Len(l) : Append(l, c)[i] = l[i] /\ l[i] \in X
           /\ DOMAIN l = 1 .. Len(l) /\ DOMAIN Append(l, c) = 1 .. Len(l) + 1
  OBVIOUS

LEMMA PieceOfAppend ==
    ASSUME NEW X, NEW l \in Seq(X), NEW c \in X, NEW i \in 1 .. Len(l)
    PROVE  /\ \A j \in i .. Len(l) : SubSeq(Append(l, c), i, j) = SubSeq(l, i, j)
           /\ SubSeq(Append(l, c), i, Len(l) + 1) = Append(SubSeq(l, i, Len(l)), c)
<1> DEFINE n == Len(l)
           m == Append(l, c)
<1>1. n \in Nat /\ Len(m) = n + 1 /\ m[n + 1] = c /\ (\A k \in 1 .. n : m[k] = l[k] /\ l[k] \in X)
      /\ m \in Seq(X)
  OBVIOUS
<1> HIDE DEF n, m
<1>2. i \in Int /\ 1 <= i /\ i <= n
  BY <1>1 DEF n
<1>3. ASSUME NEW j \in i .. n
      PROVE  SubSeq(m, i, j) = SubSeq(l, i, j)
  <2> DEFINE p == SubSeq(m, i, j)
             q == SubSeq(l, i, j)
             z == j - i + 1
  <2>1. \A k \in i .. j : l[k] \in X /\ m[k] \in X
    BY <1>1, <1>2
  <2>2. /\ p \in Seq(X) /\ Len(p) = IF i <= j THEN z ELSE 0
        /\ \A k \in 1 .. z : p[k] = m[i + k - 1]
    BY <1>2, <2>1, SubSeqProperties
  <2>3. /\ q \in Seq(X) /\ Len(q) = IF i <= j THEN z ELSE 0
        /\ \A k \in 1 .. z : q[k] = l[i + k - 1]
    BY <1>2, <2>1, SubSeqProperties
  <2> HIDE DEF p, q
  <2>4. \A k \in 1 .. z : i + k - 1 \in 1 .. n
    BY <1>1, <1>2
  <2>5. Len(p) = z /\ Len(q) = z
    BY <1>2, <2>2, <2>3
  <2> HIDE DEF z
  <2>6. \A k \in 1 .. z : p[k] = q[k]
    BY <1>1, <2>2, <2>3, <2>4
  <2>7. p = q
    BY <2>2, <2>3, <2>5, <2>6, SeqEqual
  <2>8. QED
    BY <2>7 DEF p, q
<1>4. SubSeq(m, i, n + 1) = Append(SubSeq(l, i, n), c)
  <2> DEFINE p == SubSeq(m, i, n + 1)
             q == SubSeq(l, i, n)
             r == Append(q, c)
             z == n - i + 1
  <2>1. \A k \in i .. n + 1 : m[k] \in X
    BY <1>1, <1>2
  <2>2. \A k \in i .. n : l[k] \in X
    BY <1>1, <1>2
  <2>3. n + 1 \in Int /\ n \in Int /\ i <= n + 1 /\ n + 1 - i + 1 = z + 1 /\ i <= n /\ z \in Nat
    BY <1>1, <1>2
  <2>4. /\ p \in Seq(X) /\ Len(p) = IF i <= n + 1 THEN n + 1 - i + 1 ELSE 0
        /\ \A k \in 1 .. n + 1 - i + 1 : p[k] = m[i + k - 1]
    BY <1>2, <2>1, <2>3, SubSeqProperties
  <2>5. /\ q \in Seq(X) /\ Len(q) = IF i <= n THEN z ELSE 0
        /\ \A k \in 1 .. z : q[k] = l[i + k - 1]
    BY <1>2, <2>2, <2>3, SubSeqProperties
  <2> HIDE DEF p, q
  <2>6. r \in Seq(X) /\ Len(r) = Len(q) + 1 /\ r[Len(q) + 1] = c /\ \A k \in 1 .. Len(q) : r[k] = q[k]
    BY <2>5, AppendIs
  <2>7. i + (z + 1) - 1 = n + 1 /\ \A k \in 1 .. z : i + k - 1 \in 1 .. n
    BY <1>1, <1>2
  <2>8. Len(p) = z + 1 /\ Len(q) = z /\ \A k \in 1 .. z + 1 : p[k] = m[i + k - 1]
    BY <2>3, <2>4, <2>5
  <2> HIDE DEF z, r
  <2>9. \A k \in 1 .. z + 1 : k \in 1 .. z \/ k = z + 1
    BY <2>3
  <2>10. p[z + 1] = c
    <3>1. z + 1 \in 1 .. z + 1
      BY <2>3
    <3>2. QED
      BY <1>1, <2>7, <2>8, <3>1, Zenon
  <2>11. \A k \in 1 .. z : p[k] = r[k]
    <3>1. \A k \in 1 .. z : k \in 1 .. z + 1
      BY <2>3
    <3>2. QED
      BY <1>1, <2>5, <2>6, <2>7, <2>8, <3>1, Zenon
  <2>12. r[z + 1] = c /\ Len(r) = z + 1
    BY <2>6, <2>8
  <2>13. \A k \in 1 .. Len(p) : p[k] = r[k]
    BY <2>8, <2>9, <2>10, <2>11, <2>12
  <2>14. p = r
    BY <2>4, <2>6, <2>8, <2>12, <2>13, SeqEqual
  <2>15. QED
    BY <2>14 DEF p, q, r
<1>5. QED
  BY <1>3, <1>4 DEF n, m

LEMMA PieceOfOne ==
    ASSUME NEW X, NEW l \in Seq(X), NEW c \in X
    PROVE  SubSeq(Append(l, c), Len(l) + 1, Len(l) + 1) = Append(<< >>, c)
<1> DEFINE n == Len(l)
           m == Append(l, c)
<1>1. n \in Nat /\ m[n + 1] = c
  OBVIOUS
<1> DEFINE o == n + 1
           q == SubSeq(m, o, o)
<1>2. o \in Int /\ (\A k \in o .. o : m[k] \in X) /\ m[o] = c
  BY <1>1
<1> HIDE DEF n, m, o
<1>3. /\ q \in Seq(X) /\ Len(q) = IF o <= o THEN o - o + 1 ELSE 0
      /\ \A k \in 1 .. o - o + 1 : q[k] = m[o + k - 1]
  BY <1>2, SubSeqProperties
<1> HIDE DEF q
<1>4. Len(q) = 1 /\ q[1] = c
  <2>1. o <= o /\ o - o + 1 = 1 /\ o + 1 - 1 = o /\ 1 \in 1 .. 1
    BY <1>2
  <2>2. QED
    BY <1>2, <1>3, <2>1, Zenon
<1>5. q = << c >>
  BY <1>3, <1>4
<1>6. QED
  BY <1>5 DEF q, n, m, o

(* A sum of which every part is taken k times *)
Times(k, s) == [i \in DOMAIN s |-> k * s[i]]

LEMMA TimesType ==
    ASSUME NEW s \in Seq(Int), NEW k \in Int
    PROVE  Times(k, s) \in Seq(Int) /\ Len(Times(k, s)) = Len(s) /\ \A i \in 1 .. Len(s) : Times(k, s)[i] = k * s[i]
<1> DEFINE n == Len(s)
<1>1. n \in Nat /\ DOMAIN s = 1 .. n /\ \A i \in 1 .. n : s[i] \in Int
  OBVIOUS
<1> HIDE DEF n
<1>2. Times(k, s) = [i \in 1 .. n |-> k * s[i]]
  BY <1>1 DEF Times
<1>3. \A i \in 1 .. n : k * s[i] \in Int
  BY <1>1
<1>4. [i \in 1 .. n |-> k * s[i]] \in [1 .. n -> Int]
  BY <1>3
<1>5. Times(k, s) \in Seq(Int) /\ Len(Times(k, s)) = n
  BY <1>1, <1>2, <1>4
<1>6. \A i \in 1 .. n : Times(k, s)[i] = k * s[i]
  BY <1>2
<1>7. QED
  BY <1>5, <1>6 DEF n

LEMMA TimesOfAppend ==
    ASSUME NEW s \in Seq(Int), NEW e \in Int, NEW k \in Int
    PROVE  Times(k, Append(s, e)) = Append(Times(k, s), k * e)
<1> DEFINE n == Len(s)
           a == Append(s, e)
           t == Times(k, s)
           u == Times(k, a)
           v == Append(t, k * e)
<1>1. n \in Nat /\ a \in Seq(Int) /\ Len(a) = n + 1 /\ a[n + 1] = e /\ \A i \in 1 .. n : a[i] = s[i]
  OBVIOUS
<1>2. t \in Seq(Int) /\ Len(t) = n /\ \A i \in 1 .. n : t[i] = k * s[i]
  BY TimesType
<1>3. u \in Seq(Int) /\ Len(u) = Len(a) /\ \A i \in 1 .. Len(a) : u[i] = k * a[i]
  BY <1>1, TimesType, Zenon
<1>4. k * e \in Int
  OBVIOUS
<1> HIDE DEF a, t, u
<1>5. v \in Seq(Int) /\ Len(v) = Len(t) + 1 /\ v[Len(t) + 1] = k * e /\ \A i \in 1 .. Len(t) : v[i] = t[i]
  BY <1>2, <1>4, AppendIs
<1> HIDE DEF n, v
<1>6. \A i \in 1 .. n + 1 : i \in 1 .. n \/ i = n + 1
  BY <1>1
<1>7. \A i \in 1 .. n : i \in 1 .. n + 1
  BY <1>1
<1>8. n + 1 \in 1 .. n + 1
  BY <1>1
<1>9. ASSUME NEW i \in 1 .. n + 1
      PROVE  u[i] = v[i]
  BY <1>1, <1>2, <1>3, <1>5, <1>6, <1>7, <1>8, Zenon
<1>10. u = v
  BY <1>1, <1>2, <1>3, <1>5, <1>9, SeqEqual
<1>11. QED
  BY <1>10 DEF u, v, a, t

LEMMA TotalOfTimes ==
    ASSUME NEW s \in Seq(Int), NEW k \in Int
    PROVE  Total(Times(k, s)) = k * Total(s)
<1> DEFINE T == {u \in Seq(Int) : Total(Times(k, u)) = k * Total(u)}
<1>1. << >> \in T
  <2>1. Times(k, << >>) = << >>
    BY DEF Times
  <2>2. k * 0 = 0 /\ << >> \in Seq(Int)
    OBVIOUS
  <2>3. QED
    BY <2>1, <2>2, TotalProperties, Zenon
<1>2. ASSUME NEW u \in Seq(Int), NEW e \in Int, u \in T
      PROVE  Append(u, e) \in T
  <2> DEFINE x == Total(u)
             y == Total(Times(k, u))
  <2>1. Times(k, u) \in Seq(Int) /\ k * e \in Int /\ Append(u, e) \in Seq(Int)
    BY TimesType
  <2>2. x \in Int /\ Total(Append(u, e)) = x + e
    BY TotalProperties
  <2>3. Total(Times(k, Append(u, e))) = y + k * e
    BY <2>1, TimesOfAppend, TotalProperties, Zenon
  <2>4. y = k * x
    BY <1>2
  <2> HIDE DEF x, y
  <2>5. y + k * e = k * (x + e)
    BY <2>2, <2>4
  <2>6. QED
    BY <2>1, <2>2, <2>3, <2>5, Zenon
<1> HIDE DEF T
<1>3. Seq(Int) \subseteq T
  BY <1>1, <1>2, SequenceInduction
<1>4. QED
  BY <1>3 DEF T
=============================================================================
