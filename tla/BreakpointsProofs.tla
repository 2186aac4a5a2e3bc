-------------------------- MODULE BreakpointsProofs -------------------------
(***************************************************************************)
(* Proofs about Breakpoints, for a table of any size and any addresses.    *)
(*                                                                         *)
(* Compact is not inductive for the prover's purposes: what every          *)
(* operation needs to know is how many entries are in use.  BpInv says     *)
(* that some n is that number.                                             *)
(***************************************************************************)
EXTENDS Breakpoints, Sequences, SequenceTheorems, TLAPS

BpInv ==
    /\ BpTypeOK
    /\ FlagExact
    /\ \E n \in 0 .. NumBreakpoints : Used(breakpoints, n)

(* The initial table is empty, typed and has no flag set. *)
LEMMA BpInitInv == BpInit => BpInv
<1> SUFFICES ASSUME BpInit PROVE BpInv
  OBVIOUS
<1> USE BreakpointsAssumption
<1>0. PICK a \in [Index -> Garbage] : breakpoints = [i \in Index |-> [addr |-> a[i], status |-> "Empty"]]
  BY DEF BpInit
<1>1. \A i \in Index : breakpoints[i] = [addr |-> a[i], status |-> "Empty"] /\ a[i] \in Addr
  BY <1>0
<1>2. haveBreakpoints = FALSE /\ \A i \in Index : breakpoints[i].status = "Empty"
  BY <1>0 DEF BpInit
<1>3. BpTypeOK
  BY <1>0, <1>1, <1>2 DEF BpTypeOK, BreakpointEntry
<1>4. FlagExact
  <2>1. ~AnyEnabled(breakpoints)
    BY <1>2 DEF AnyEnabled
  <2>2. QED
    BY <1>2, <2>1 DEF FlagExact
<1>5. Used(breakpoints, 0)
  BY <1>2 DEF Used, Index
<1>6. QED
  BY <1>3, <1>4, <1>5 DEF BpInv

(* What each operation does to the number of entries in use. *)
LEMMA SetUses ==
    ASSUME BpTypeOK, NEW n \in 0 .. NumBreakpoints, Used(breakpoints, n), NEW a \in Addr, SetBreakpoint(a)
    PROVE  n + 1 \in 0 .. NumBreakpoints /\ Used(breakpoints', n + 1) /\ breakpoints' =
               [breakpoints EXCEPT ![n] = [addr |-> a, status |-> "Enabled"]] /\ n \in Index
<1> USE BreakpointsAssumption
<1>1. PICK i \in Index :
          /\ breakpoints[i].status = "Empty"
          /\ \A j \in 0 .. i - 1 : breakpoints[j].status # "Empty"
          /\ breakpoints' = [breakpoints EXCEPT ![i] = [addr |-> a, status |-> "Enabled"]]
  BY DEF SetBreakpoint
<1>2. i = n
  <2>1. ~(i < n)
    BY <1>1 DEF Used
  <2>2. ~(n < i)
    <3>1. SUFFICES ASSUME n < i PROVE FALSE
      OBVIOUS
    <3>2. n \in 0 .. i - 1 /\ n \in Index
      BY <3>1 DEF Index
    <3>3. QED
      BY <1>1, <3>2 DEF Used
  <2>3. QED
    BY <2>1, <2>2 DEF Index
<1>3. \A j \in Index : breakpoints'[j].status # "Empty" <=> j < n + 1
  BY <1>1, <1>2 DEF Used, BpTypeOK, BreakpointEntry, Index
<1>4. QED
  BY <1>1, <1>2, <1>3 DEF Used, Index

(* Clearing an entry leaves one entry less in use. *)
LEMMA ClearUses ==
    ASSUME BpTypeOK, NEW n \in 0 .. NumBreakpoints, Used(breakpoints, n), NEW i \in Index, ClearBreakpoint(i)
    PROVE  n - 1 \in 0 .. NumBreakpoints /\ Used(breakpoints', n - 1) /\ i < n
<1> USE BreakpointsAssumption
<1>1. i < n
  BY DEF ClearBreakpoint, InUse, Used
<1>2. ASSUME NEW j \in Index PROVE breakpoints'[j].status # "Empty" <=> j < n - 1
  <2>1. CASE j < i
    BY <1>1, <2>1 DEF ClearBreakpoint, Used, BpTypeOK, Index
  <2>2. CASE ~(j < i) /\ j = NumBreakpoints - 1
    <3>1. breakpoints'[j].status = "Empty"
      BY <2>2 DEF ClearBreakpoint, BpTypeOK, BreakpointEntry, Index
    <3>2. QED
      BY <3>1, <2>2
  <2>3. CASE ~(j < i) /\ j # NumBreakpoints - 1
    <3>1. breakpoints'[j] = breakpoints[j + 1] /\ j + 1 \in Index
      BY <2>3 DEF ClearBreakpoint, Index
    <3>2. QED
      BY <3>1 DEF Used, Index
  <2>4. QED
    BY <2>1, <2>2, <2>3
<1>3. QED
  BY <1>1, <1>2 DEF Used, Index

(* Every step keeps the invariant. *)
LEMMA BpStepInv == BpInv /\ [BpNext]_bpVars => BpInv'
<1> USE BreakpointsAssumption
<1> SUFFICES ASSUME BpInv, [BpNext]_bpVars PROVE BpInv'
  OBVIOUS
<1>0. PICK n \in 0 .. NumBreakpoints : Used(breakpoints, n)
  BY DEF BpInv
<1>1. ASSUME NEW a \in Addr, SetBreakpoint(a) PROVE BpInv'
  <2>1. n \in Index /\ n + 1 \in 0 .. NumBreakpoints /\ Used(breakpoints', n + 1)
        /\ breakpoints' = [breakpoints EXCEPT ![n] = [addr |-> a, status |-> "Enabled"]]
    BY <1>0, <1>1, SetUses DEF BpInv
  <2>2. haveBreakpoints' = TRUE
    BY <1>1 DEF SetBreakpoint
  <2>3. BpTypeOK'
    BY <2>1, <2>2 DEF BpInv, BpTypeOK, BreakpointEntry
  <2>4. breakpoints'[n].status = "Enabled"
    BY <2>1 DEF BpInv, BpTypeOK
  <2>5. FlagExact'
    BY <2>1, <2>2, <2>4 DEF FlagExact, AnyEnabled
  <2>6. QED
    BY <2>1, <2>3, <2>5 DEF BpInv
<1>2. ASSUME NEW i \in Index, ClearBreakpoint(i) PROVE BpInv'
  <2>1. n - 1 \in 0 .. NumBreakpoints /\ Used(breakpoints', n - 1)
    BY <1>0, <1>2, ClearUses DEF BpInv
  <2>2. BpTypeOK'
    BY <1>2 DEF ClearBreakpoint, AnyEnabled, BpInv, BpTypeOK, BreakpointEntry, Index
  <2>3. FlagExact'
    BY <1>2 DEF ClearBreakpoint, FlagExact
  <2>4. QED
    BY <2>1, <2>2, <2>3 DEF BpInv
<1>3. ASSUME NEW i \in Index, DisableBreakpoint(i) \/ EnableBreakpoint(i) PROVE BpInv'
  <2>1. BpTypeOK'
    BY <1>3 DEF DisableBreakpoint, EnableBreakpoint, AnyEnabled, BpInv, BpTypeOK, BreakpointEntry
  <2>2. FlagExact'
    BY <1>3 DEF DisableBreakpoint, EnableBreakpoint, FlagExact
  <2>3. Used(breakpoints', n)
    BY <1>0, <1>3 DEF DisableBreakpoint, EnableBreakpoint, InUse, Used, BpInv, BpTypeOK, BreakpointEntry
  <2>4. QED
    BY <2>1, <2>2, <2>3 DEF BpInv
<1>4. CASE ClearAllBreakpoints
  <2>1. BpTypeOK'
    BY <1>4 DEF ClearAllBreakpoints, AnyEnabled, BpInv, BpTypeOK, BreakpointEntry
  <2>2. FlagExact'
    BY <1>4 DEF ClearAllBreakpoints, FlagExact
  <2>3. Used(breakpoints', 0)
    BY <1>4 DEF ClearAllBreakpoints, Used, BpInv, BpTypeOK, BreakpointEntry, Index
  <2>4. QED
    BY <2>1, <2>2, <2>3 DEF BpInv
<1>5. CASE DisableAllBreakpoints \/ EnableAllBreakpoints
  <2>0. ASSUME NEW i \in Index PROVE breakpoints'[i] \in BreakpointEntry
    <3>1. breakpoints[i] \in BreakpointEntry
      BY DEF BpInv, BpTypeOK
    <3>2. QED
      BY <1>5, <3>1 DEF DisableAllBreakpoints, EnableAllBreakpoints, BreakpointEntry
  <2>1. BpTypeOK'
    <3>1. breakpoints' \in [Index -> BreakpointEntry]
      BY <1>5, <2>0 DEF DisableAllBreakpoints, EnableAllBreakpoints
    <3>2. haveBreakpoints' \in BOOLEAN
      BY <1>5 DEF DisableAllBreakpoints, EnableAllBreakpoints, AnyEnabled
    <3>3. QED
      BY <3>1, <3>2 DEF BpTypeOK
  <2>2. FlagExact'
    BY <1>5 DEF DisableAllBreakpoints, EnableAllBreakpoints, FlagExact
  <2>3. Used(breakpoints', n)
    BY <1>0, <1>5 DEF DisableAllBreakpoints, EnableAllBreakpoints, Used, BpInv, BpTypeOK, BreakpointEntry
  <2>4. QED
    BY <2>1, <2>2, <2>3 DEF BpInv
<1>6. CASE UNCHANGED bpVars
  BY <1>6 DEF bpVars, BpInv, BpTypeOK, FlagExact, AnyEnabled, Used
<1>7. QED
  BY <1>1, <1>2, <1>3, <1>4, <1>5, <1>6 DEF BpNext

(* The strengthened invariant of the table: typed, its flag exact, and the *)
(* entries in use the first n for some n (MC6809.cpp:928-1030).            *)
THEOREM BpInvariance == BpSpec => []BpInv
  BY BpInitInv, BpStepInv, PTL DEF BpSpec

(* The cached flag _haveBreakpoints is never stale. *)
THEOREM FlagIsExact == BpSpec => []FlagExact
<1>1. BpInv => FlagExact
  BY DEF BpInv
<1>2. QED
  BY <1>1, BpInvariance, PTL

(* The table keeps its type. *)
THEOREM BpTypeCorrect == BpSpec => []BpTypeOK
<1>1. BpInv => BpTypeOK
  BY DEF BpInv
<1>2. QED
  BY <1>1, BpInvariance, PTL

(* The entries in use come first. *)
THEOREM EntriesAreCompact == BpSpec => []Compact
<1>1. BpInv => Compact
  BY BreakpointsAssumption DEF BpInv, Used, Compact, Index
<1>2. QED
  BY <1>1, BpInvariance, PTL

-----------------------------------------------------------------------------
(* The number of entries in use is well defined. *)
LEMMA CountIs ==
    ASSUME NEW b, NEW n \in 0 .. NumBreakpoints, Used(b, n)
    PROVE  InUseCount(b) = n
<1> USE BreakpointsAssumption
<1>1. ASSUME NEW m \in 0 .. NumBreakpoints, Used(b, m) PROVE m = n
  <2>1. ~(m < n)
    <3>1. m < n => m \in Index
      BY DEF Index
    <3>2. QED
      BY <1>1, <3>1 DEF Used
  <2>2. ~(n < m)
    <3>1. n < m => n \in Index
      BY DEF Index
    <3>2. QED
      BY <1>1, <3>1 DEF Used
  <2>3. QED
    BY <2>1, <2>2
<1>2. QED
  BY <1>1 DEF InUseCount

(* What the user is shown is a sequence of the list's breakpoints. *)
LEMMA ShownType ==
    ASSUME NEW b \in [Index -> BreakpointEntry], NEW n \in 0 .. NumBreakpoints
    PROVE  /\ Shown(b, n) \in Seq(L!Breakpoint)
           /\ Len(Shown(b, n)) = n
           /\ DOMAIN Shown(b, n) = 1 .. n
<1> USE BreakpointsAssumption
<1>1. ASSUME NEW k \in 1 .. n
      PROVE  [addr |-> b[k - 1].addr, enabled |-> b[k - 1].status = "Enabled"] \in L!Breakpoint
  <2>1. k - 1 \in Index
    BY DEF Index
  <2>2. b[k - 1].addr \in Addr
    BY <2>1 DEF BreakpointEntry
  <2>3. QED
    BY <2>2 DEF L!Breakpoint
<1>2. QED
  BY <1>1 DEF Shown

(* The empty table shows the empty list. *)
LEMMA ListInit == BpInit => L!Init
<1> USE BreakpointsAssumption
<1> SUFFICES ASSUME BpInit PROVE UserList = << >>
  BY DEF L!Init
<1>1. BpInv
  BY BpInitInv
<1>2. Used(breakpoints, 0)
  BY DEF BpInit, Used, Index
<1>3. UserList = Shown(breakpoints, 0)
  BY <1>2, CountIs DEF UserList
<1>4. QED
  BY <1>1, <1>3, ShownType DEF BpInv, BpTypeOK

(* Every operation is the operation of the list. *)
LEMMA ListStep == BpInv /\ BpInv' /\ [BpNext]_bpVars => [L!Next]_UserList
<1> USE BreakpointsAssumption
<1> SUFFICES ASSUME BpInv, BpInv', [BpNext]_bpVars PROVE L!Next \/ UserList' = UserList
  OBVIOUS
<1>0. PICK n \in 0 .. NumBreakpoints : Used(breakpoints, n)
  BY DEF BpInv
<1>a. breakpoints \in [Index -> BreakpointEntry] /\ breakpoints' \in [Index -> BreakpointEntry]
  BY DEF BpInv, BpTypeOK
<1>b. /\ UserList = Shown(breakpoints, n)
      /\ UserList \in Seq(L!Breakpoint) /\ Len(UserList) = n /\ DOMAIN UserList = 1 .. n
  BY <1>0, <1>a, CountIs, ShownType DEF UserList
<1>c. ASSUME NEW m \in 0 .. NumBreakpoints, Used(breakpoints', m)
      PROVE  /\ UserList' = Shown(breakpoints', m)
             /\ UserList' \in Seq(L!Breakpoint) /\ Len(UserList') = m /\ DOMAIN UserList' = 1 .. m
  BY <1>a, <1>c, CountIs, ShownType DEF UserList
<1>1. ASSUME NEW a \in Addr, SetBreakpoint(a) PROVE L!Next
  <2>1. n \in Index /\ n + 1 \in 0 .. NumBreakpoints /\ Used(breakpoints', n + 1)
        /\ breakpoints' = [breakpoints EXCEPT ![n] = [addr |-> a, status |-> "Enabled"]]
    BY <1>0, <1>1, SetUses DEF BpInv
  <2>2. UserList' = Shown(breakpoints', n + 1)
    BY <1>c, <2>1
  <2>3. UserList' = Append(UserList, [addr |-> a, enabled |-> TRUE])
    <3>1. ASSUME NEW k \in 1 .. n PROVE Shown(breakpoints', n + 1)[k] = Shown(breakpoints, n)[k]
      BY <2>1, <1>a DEF Shown, Index
    <3>2. Shown(breakpoints', n + 1)[n + 1] = [addr |-> a, enabled |-> TRUE]
      <4>1. Shown(breakpoints', n + 1)[n + 1] =
                [addr |-> breakpoints'[n].addr, enabled |-> breakpoints'[n].status = "Enabled"]
        BY DEF Shown
      <4>2. breakpoints'[n] = [addr |-> a, status |-> "Enabled"]
        BY <2>1, <1>a
      <4>3. breakpoints'[n].addr = a /\ (breakpoints'[n].status = "Enabled") = TRUE
        BY <4>2
      <4>4. QED
        BY <4>1, <4>3
    <3>3. QED
      <4> DEFINE e == [addr |-> a, enabled |-> TRUE]
      <4>1. e \in L!Breakpoint
        BY DEF L!Breakpoint
      <4>2. /\ Append(UserList, e) \in Seq(L!Breakpoint) /\ Len(Append(UserList, e)) = n + 1
            /\ \A k \in 1 .. n : Append(UserList, e)[k] = UserList[k]
            /\ Append(UserList, e)[n + 1] = e
        BY <4>1, <1>b
      <4>3. UserList' \in Seq(L!Breakpoint) /\ Len(UserList') = n + 1
        BY <1>c, <2>1
      <4>4. \A k \in 1 .. n + 1 : UserList'[k] = Append(UserList, e)[k]
        BY <4>2, <1>b, <2>2, <3>1, <3>2
      <4>5. QED
        BY <4>2, <4>3, <4>4, SeqEqual
  <2>4. n < NumBreakpoints
    BY <2>1 DEF Index
  <2>5. QED
    BY <1>b, <2>3, <2>4 DEF L!Next, L!Add
<1>2. ASSUME NEW i \in Index, ClearBreakpoint(i) PROVE L!Next
  <2>1. n - 1 \in 0 .. NumBreakpoints /\ Used(breakpoints', n - 1) /\ i < n
    BY <1>0, <1>2, ClearUses DEF BpInv
  <2>2. UserList' = Shown(breakpoints', n - 1)
    BY <1>c, <2>1
  <2>3. i + 1 \in DOMAIN UserList
    BY <1>b, <2>1 DEF Index
  <2>4. ASSUME NEW k \in 1 .. n - 1
        PROVE  Shown(breakpoints', n - 1)[k] =
                   IF k < i + 1 THEN Shown(breakpoints, n)[k] ELSE Shown(breakpoints, n)[k + 1]
    <3>1. k - 1 \in Index /\ k \in Index /\ k - 1 # NumBreakpoints - 1
      BY DEF Index
    <3>2. breakpoints'[k - 1] = IF k - 1 < i THEN breakpoints[k - 1] ELSE breakpoints[k]
      BY <1>2, <3>1 DEF ClearBreakpoint, Index
    <3>3. QED
      BY <3>1, <3>2 DEF Shown, Index
  <2>5. UserList' = [k \in 1 .. n - 1 |-> IF k < i + 1 THEN UserList[k] ELSE UserList[k + 1]]
    BY <1>b, <2>2, <2>4 DEF Shown
  <2>6. L!Delete(i + 1)
    BY <1>b, <2>5 DEF L!Delete
  <2>7. QED
    BY <2>3, <2>6 DEF L!Next
<1>3. ASSUME NEW i \in Index, NEW on \in BOOLEAN, InUse(i),
             breakpoints' = [breakpoints EXCEPT ![i].status = IF on THEN "Enabled" ELSE "Disabled"]
      PROVE  L!Next
  <2>1. Used(breakpoints', n)
    BY <1>0, <1>3, <1>a DEF InUse, Used, BreakpointEntry
  <2>2. UserList' = Shown(breakpoints', n)
    BY <1>c, <2>1
  <2>3. i + 1 \in 1 .. n
    BY <1>0, <1>3 DEF InUse, Used, Index
  <2>4. ASSUME NEW k \in 1 .. n
        PROVE  Shown(breakpoints', n)[k] = IF k = i + 1 THEN [Shown(breakpoints, n)[k] EXCEPT !.enabled = on]
                                           ELSE Shown(breakpoints, n)[k]
    <3>1. k - 1 \in Index
      BY DEF Index
    <3>2. breakpoints'[k - 1] = IF k - 1 = i
                               THEN [breakpoints[i] EXCEPT !.status = IF on THEN "Enabled" ELSE "Disabled"]
                               ELSE breakpoints[k - 1]
      BY <1>3, <1>a, <3>1
    <3>3. QED
      BY <1>a, <3>1, <3>2 DEF Shown, BreakpointEntry, Index
  <2>5. UserList' = [UserList EXCEPT ![i + 1].enabled = on]
    BY <1>b, <2>2, <2>3, <2>4 DEF Shown
  <2>6. QED
    BY <1>b, <2>3, <2>5 DEF L!Next, L!Switch
<1>4. CASE ClearAllBreakpoints
  <2>1. Used(breakpoints', 0)
    BY <1>4, <1>a DEF ClearAllBreakpoints, Used, BreakpointEntry, Index
  <2>2. UserList' = << >>
    BY <1>c, <2>1
  <2>3. QED
    BY <2>2 DEF L!Next, L!DeleteAll
<1>5. ASSUME NEW on \in BOOLEAN, Used(breakpoints', n),
             \A i \in Index : i < n =>
                 breakpoints'[i] = [breakpoints[i] EXCEPT !.status = IF on THEN "Enabled" ELSE "Disabled"]
      PROVE  L!Next
  <2>1. UserList' = Shown(breakpoints', n)
    BY <1>c, <1>5
  <2>2. ASSUME NEW k \in 1 .. n
        PROVE  Shown(breakpoints', n)[k] = [Shown(breakpoints, n)[k] EXCEPT !.enabled = on]
    <3>1. k - 1 \in Index /\ k - 1 < n
      BY DEF Index
    <3>2. QED
      BY <1>a, <1>5, <3>1 DEF Shown, BreakpointEntry
  <2>3. UserList' = [k \in DOMAIN UserList |-> [UserList[k] EXCEPT !.enabled = on]]
    BY <1>b, <2>1, <2>2 DEF Shown
  <2>4. QED
    BY <2>3 DEF L!Next, L!SwitchAll
<1>6. CASE UNCHANGED bpVars
  BY <1>6 DEF bpVars, UserList
<1>7. ASSUME NEW i \in Index, DisableBreakpoint(i) PROVE L!Next
  BY <1>3, <1>7 DEF DisableBreakpoint
<1>8. ASSUME NEW i \in Index, EnableBreakpoint(i) PROVE L!Next
  BY <1>3, <1>8 DEF EnableBreakpoint
<1>9. CASE DisableAllBreakpoints
  <2>1. Used(breakpoints', n)
    BY <1>0, <1>9, <1>a DEF DisableAllBreakpoints, Used, BreakpointEntry
  <2>2. ASSUME NEW i \in Index, i < n
        PROVE  breakpoints'[i] = [breakpoints[i] EXCEPT !.status = "Disabled"]
    BY <1>0, <1>9, <1>a, <2>2 DEF DisableAllBreakpoints, Used, BreakpointEntry
  <2>3. QED
    BY <1>5, <2>1, <2>2
<1>10. CASE EnableAllBreakpoints
  <2>1. Used(breakpoints', n)
    BY <1>0, <1>10, <1>a DEF EnableAllBreakpoints, Used, BreakpointEntry
  <2>2. ASSUME NEW i \in Index, i < n
        PROVE  breakpoints'[i] = [breakpoints[i] EXCEPT !.status = "Enabled"]
    BY <1>0, <1>10, <1>a, <2>2 DEF EnableAllBreakpoints, Used, BreakpointEntry
  <2>3. QED
    BY <1>5, <2>1, <2>2
<1>11. QED
  BY <1>1, <1>2, <1>4, <1>6, <1>7, <1>8, <1>9, <1>10 DEF BpNext

(* The table implements the list of README.md, whatever its size. *)
THEOREM TableIsTheList == BpSpec => ListSpec
  BY BpInvariance, ListInit, ListStep, PTL DEF BpSpec, ListSpec, L!Spec

(* execute() stops exactly where the list has an enabled breakpoint. *)
THEOREM StopsAreExact == BpSpec => []StopsExact
<1>1. BpInv => StopsExact
  <2> SUFFICES ASSUME BpInv, NEW a \in Addr PROVE AtBreakpoint(a) <=> L!StopsAt(a)
    BY DEF StopsExact
  <2> USE BreakpointsAssumption
  <2>1. PICK n \in 0 .. NumBreakpoints : Used(breakpoints, n)
    BY DEF BpInv
  <2>2. UserList = Shown(breakpoints, n) /\ DOMAIN UserList = 1 .. n
    BY <2>1, CountIs, ShownType DEF UserList, BpInv, BpTypeOK
  <2>3. AtBreakpoint(a) => L!StopsAt(a)
    <3>1. SUFFICES ASSUME NEW i \in Index, breakpoints[i] = [addr |-> a, status |-> "Enabled"]
                   PROVE  L!StopsAt(a)
      BY DEF AtBreakpoint
    <3>2. i + 1 \in 1 .. n
      BY <2>1, <3>1 DEF Used, Index
    <3>3. UserList[i + 1].enabled /\ UserList[i + 1].addr = a
      <4>1. UserList[i + 1] = [addr |-> breakpoints[i].addr, enabled |-> breakpoints[i].status = "Enabled"]
        BY <2>2, <3>2 DEF Shown, Index
      <4>2. breakpoints[i].addr = a /\ breakpoints[i].status = "Enabled"
        BY <3>1
      <4>3. UserList[i + 1].addr = a
        BY <4>1, <4>2
      <4>4. UserList[i + 1].enabled = (breakpoints[i].status = "Enabled")
        BY <4>1
      <4>5. QED
        BY <4>2, <4>3, <4>4, Zenon
    <3>4. QED
      BY <2>2, <3>2, <3>3 DEF L!StopsAt
  <2>4. L!StopsAt(a) => AtBreakpoint(a)
    <3>1. SUFFICES ASSUME NEW k \in 1 .. n, UserList[k].enabled, UserList[k].addr = a
                   PROVE  AtBreakpoint(a)
      BY <2>2 DEF L!StopsAt
    <3>2. k - 1 \in Index
      BY DEF Index
    <3>3. breakpoints[k - 1].status = "Enabled" /\ breakpoints[k - 1].addr = a
      BY <2>2, <3>1 DEF Shown
    <3>4. breakpoints[k - 1] = [addr |-> a, status |-> "Enabled"]
      BY <3>2, <3>3 DEF BpInv, BpTypeOK, BreakpointEntry
    <3>5. haveBreakpoints
      BY <3>2, <3>3 DEF BpInv, FlagExact, AnyEnabled
    <3>6. QED
      BY <3>2, <3>4, <3>5 DEF AtBreakpoint
  <2>5. QED
    BY <2>3, <2>4
<1>2. QED
  BY <1>1, BpInvariance, PTL
=============================================================================
