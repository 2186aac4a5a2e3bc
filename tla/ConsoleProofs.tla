---------------------------- MODULE ConsoleProofs ---------------------------
(***************************************************************************)
(* Theorems about Loader, for every memory, every set of records and every *)
(* number of them; and about Console, which uses it, for every size of the *)
(* command buffer, every choice of characters, commands and records.       *)
(***************************************************************************)
EXTENDS Console, SequenceLemmas, FiniteSetTheorems

(* The variables the theorems are about have the types of the code. *)
LoadedInv ==
    /\ accepted \in Seq(Records)
    /\ startAddrSet \in BOOLEAN
    /\ recStart \in RamAddr

LoaderInv == LoadedInv /\ ImageIsRecords /\ StartRecordWins

-----------------------------------------------------------------------------
(* A record appended comes behind all others. *)
LEMMA AppendRecord ==
    ASSUME NEW s \in Seq(Records), NEW r \in Records
    PROVE  /\ Append(s, r) \in Seq(Records)
           /\ DOMAIN s = 1 .. Len(s)
           /\ Len(s) \in Nat
           /\ DOMAIN Append(s, r) = 1 .. Len(s) + 1
           /\ \A i \in 1 .. Len(s) : Append(s, r)[i] = s[i]
           /\ Append(s, r)[Len(s) + 1] = r
  OBVIOUS

(* LoadStart forgets the records and takes memory as it is. *)
LEMMA StartsEmpty ==
    ASSUME accepted' = << >>, before' = ram', recStart' = 0, startAddrSet' = FALSE
    PROVE  LoaderInv'
<1>1. accepted' \in Seq(Records) /\ DOMAIN accepted' = {}
  OBVIOUS
<1>2. LoadedInv'
  BY <1>1, LoaderAssumption DEF LoadedInv
<1>3. ImageIsRecords'
  BY <1>1 DEF ImageIsRecords
<1>4. StartRecordWins'
  BY <1>1 DEF StartRecordWins
<1> QED  BY <1>2, <1>3, <1>4 DEF LoaderInv

(* One more record keeps memory the image of all of them. *)
LEMMA ImageStep ==
    ASSUME LoaderInv, NEW r \in Records, LoadLine(r)
    PROVE  ImageIsRecords'
<1> DEFINE n == Len(accepted)
<1>1. accepted \in Seq(Records) /\ accepted' = Append(accepted, r) /\ before' = before
  BY DEF LoaderInv, LoadedInv, LoadLine
<1>2. /\ DOMAIN accepted = 1 .. n /\ DOMAIN accepted' = 1 .. n + 1 /\ n \in Nat
      /\ \A i \in 1 .. n : accepted'[i] = accepted[i]
      /\ accepted'[n + 1] = r
  BY <1>1, AppendRecord
<1>3. \A a \in RamAddr : ram'[a] = IF a \in Cells(r) THEN r.data[a - r.addr + 1] ELSE ram[a]
  <2>1. CASE r.type = "S1"
    BY <2>1 DEF LoadLine, Store
  <2>2. CASE r.type # "S1"
    <3>1. Cells(r) = {}
      BY <2>2 DEF Cells
    <3>2. ram' = ram
      BY <2>2 DEF LoadLine
    <3> QED  BY <3>1, <3>2
  <2> QED  BY <2>1, <2>2
<1>4. SUFFICES ASSUME NEW a \in RamAddr
               PROVE \/ \E i \in DOMAIN accepted' :
                           /\ a \in Cells(accepted'[i])
                           /\ \A j \in DOMAIN accepted' : a \in Cells(accepted'[j]) => j <= i
                           /\ ram'[a] = accepted'[i].data[a - accepted'[i].addr + 1]
                     \/ /\ \A i \in DOMAIN accepted' : a \notin Cells(accepted'[i])
                        /\ ram'[a] = before'[a]
  BY DEF ImageIsRecords
<1>5. CASE a \in Cells(r)
  <2>1. \A j \in DOMAIN accepted' : j <= n + 1
    BY <1>2
  <2> QED  BY <1>2, <1>3, <1>5, <2>1
<1>6. CASE a \notin Cells(r)
  <2>1. ram'[a] = ram[a]
    BY <1>3, <1>6
  <2>2. \A j \in DOMAIN accepted' :
           a \in Cells(accepted'[j]) => j \in DOMAIN accepted /\ a \in Cells(accepted[j])
    BY <1>2, <1>6
  <2>3. CASE \E i \in DOMAIN accepted :
                /\ a \in Cells(accepted[i])
                /\ \A j \in DOMAIN accepted : a \in Cells(accepted[j]) => j <= i
                /\ ram[a] = accepted[i].data[a - accepted[i].addr + 1]
    <3>1. PICK i \in DOMAIN accepted :
                /\ a \in Cells(accepted[i])
                /\ \A j \in DOMAIN accepted : a \in Cells(accepted[j]) => j <= i
                /\ ram[a] = accepted[i].data[a - accepted[i].addr + 1]
      BY <2>3
    <3>2. i \in DOMAIN accepted' /\ accepted'[i] = accepted[i]
      BY <1>2
    <3> QED  BY <2>1, <2>2, <3>1, <3>2
  <2>4. CASE /\ \A i \in DOMAIN accepted : a \notin Cells(accepted[i])
             /\ ram[a] = before[a]
    BY <1>1, <2>1, <2>2, <2>4
  <2> QED  BY <2>3, <2>4 DEF LoaderInv, ImageIsRecords
<1> QED  BY <1>5, <1>6

(* One more record keeps the start address that of the last start record. *)
LEMMA StartStep ==
    ASSUME LoaderInv, NEW r \in Records, LoadLine(r)
    PROVE  LoadedInv' /\ StartRecordWins'
<1> DEFINE n == Len(accepted)
           starts == {i \in DOMAIN accepted : accepted[i].type = "S9"}
<1>1. /\ accepted \in Seq(Records) /\ accepted' = Append(accepted, r)
      /\ startAddrSet \in BOOLEAN /\ recStart \in RamAddr
  BY DEF LoaderInv, LoadedInv, LoadLine
<1>2. /\ DOMAIN accepted = 1 .. n /\ DOMAIN accepted' = 1 .. n + 1 /\ n \in Nat
      /\ \A i \in 1 .. n : accepted'[i] = accepted[i]
      /\ accepted'[n + 1] = r
      /\ accepted' \in Seq(Records)
  BY <1>1, AppendRecord
<1>3. r.addr \in RamAddr
  BY LoaderAssumption DEF Record
<1>4. CASE r.type = "S9"
  <2>1. recStart' = r.addr /\ startAddrSet' = TRUE
    BY <1>4 DEF LoadLine
  <2>2. LoadedInv'
    BY <1>2, <1>3, <2>1 DEF LoadedInv
  <2>3. \A j \in DOMAIN accepted' : j <= n + 1
    BY <1>2
  <2> QED  BY <1>2, <1>4, <2>1, <2>2, <2>3 DEF StartRecordWins
<1>5. CASE r.type # "S9"
  <2>1. startAddrSet' = startAddrSet
    BY <1>5 DEF LoadLine, Store
  <2>2. /\ recStart' \in RamAddr
        /\ startAddrSet => recStart' = recStart
    BY <1>1, <1>3, <1>5 DEF LoadLine, Store
  <2>3. LoadedInv'
    BY <1>1, <1>2, <2>1, <2>2 DEF LoadedInv
  <2>4. {i \in DOMAIN accepted' : accepted'[i].type = "S9"} = starts
    BY <1>2, <1>5
  <2>5. \A i \in starts : accepted'[i] = accepted[i]
    BY <1>2
  <2>6. StartRecordWins
    BY DEF LoaderInv
  <2> QED  BY <2>1, <2>2, <2>3, <2>4, <2>5, <2>6 DEF StartRecordWins
<1> QED  BY <1>4, <1>5

-----------------------------------------------------------------------------
(* Every operation of the loader keeps memory and start address right; the *)
(* console uses it as well.                                                *)
LEMMA LoaderStep ==
    ASSUME LoaderInv, [LoaderNext]_loaderVars
    PROVE  LoaderInv'
<1>1. CASE LoadStart
  BY <1>1, StartsEmpty DEF LoadStart
<1>2. ASSUME NEW r \in Records, LoadLine(r)
      PROVE  LoaderInv'
  BY <1>2, ImageStep, StartStep DEF LoaderInv
<1>3. ASSUME UNCHANGED << ram, recStart, startAddrSet, accepted, before >>
      PROVE  LoaderInv'
  BY <1>3 DEF LoaderInv, LoadedInv, ImageIsRecords, StartRecordWins
<1>4. CASE LoadEnd
  BY <1>3, <1>4 DEF LoadEnd
<1>5. CASE UNCHANGED loaderVars
  BY <1>3, <1>5 DEF loaderVars, parser
<1> QED  BY <1>1, <1>2, <1>4, <1>5 DEF LoaderNext

(* Before anything is loaded *)
LEMMA LoaderStarts == LoaderInit => LoaderInv
<1> SUFFICES ASSUME LoaderInit PROVE LoaderInv
  OBVIOUS
<1>1. accepted \in Seq(Records) /\ DOMAIN accepted = {}
  BY DEF LoaderInit
<1> QED  BY <1>1, LoaderAssumption
         DEF LoaderInit, LoaderInv, LoadedInv, ImageIsRecords, StartRecordWins

(* The invariant of all behaviours of the loader *)
THEOREM LoaderInvariance == LoaderSpec => []LoaderInv
<1>1. LoaderInv /\ [LoaderNext]_loaderVars => LoaderInv'
  BY LoaderStep
<1> QED  BY <1>1, LoaderStarts, PTL DEF LoaderSpec

(* Memory is the image of the records accepted, in whatever order they     *)
(* come and wherever the load is given up (MC6809.h:253-264).              *)
THEOREM MemoryIsTheImage == LoaderSpec => []ImageIsRecords
  BY LoaderInvariance, PTL DEF LoaderInv

(* The last start record decides, and only a start record finishes a load  *)
(* (MC6809.h:237-263).                                                     *)
THEOREM LastStartRecordWins == LoaderSpec => []StartRecordWins
  BY LoaderInvariance, PTL DEF LoaderInv

-----------------------------------------------------------------------------
(* What is flattened in DataTrace and in SegmentTrace *)
DataPieces(s) == [i \in DOMAIN s |-> Trace(s[i].addr, Cardinality(Cells(s[i])))]
SegmentPieces(s) == [i \in DOMAIN s |-> Trace(s[i].addr, s[i].len)]

SegmentInv ==
    /\ accepted \in Seq(Records)
    /\ inSeg \in BOOLEAN /\ segAddr \in RamAddr /\ segLen \in Nat
    /\ segments \in Seq(Segment)
    /\ SegmentsCoverData

(* The addresses of two pieces that follow one another are those of one. *)
LEMMA TraceProperties ==
    /\ \A a \in Nat : \A n \in Nat : Trace(a, n) \in Seq(Nat)
    /\ \A a \in Nat : Trace(a, 0) = << >>
    /\ \A a \in Nat : \A n, k \in Nat : Trace(a, n) \o Trace(a + n, k) = Trace(a, n + k)
<1>1. ASSUME NEW a \in Nat, NEW n \in Nat
      PROVE  /\ Trace(a, n) \in Seq(Nat) /\ Len(Trace(a, n)) = n
             /\ \A i \in 1 .. n : Trace(a, n)[i] = a + i - 1
  <2>1. \A i \in 1 .. n : a + i - 1 \in Nat
    OBVIOUS
  <2>2. QED
    BY <2>1 DEF Trace
<1>2. ASSUME NEW a \in Nat
      PROVE  Trace(a, 0) = << >>
  <2>1. Trace(a, 0) \in Seq(Nat) /\ Len(Trace(a, 0)) = 0
    BY <1>1
  <2>2. QED
    BY <2>1
<1>3. ASSUME NEW a \in Nat, NEW n \in Nat, NEW k \in Nat
      PROVE  Trace(a, n) \o Trace(a + n, k) = Trace(a, n + k)
  <2> DEFINE s == Trace(a, n)
             t == Trace(a + n, k)
             u == Trace(a, n + k)
  <2>1. s \in Seq(Nat) /\ Len(s) = n /\ \A i \in 1 .. n : s[i] = a + i - 1
    BY <1>1
  <2>2. t \in Seq(Nat) /\ Len(t) = k /\ \A i \in 1 .. k : t[i] = (a + n) + i - 1
    <3>1. a + n \in Nat
      OBVIOUS
    <3>2. QED
      BY <1>1, <3>1, Zenon
  <2>3. u \in Seq(Nat) /\ Len(u) = n + k /\ \A i \in 1 .. n + k : u[i] = a + i - 1
    BY <1>1
  <2> HIDE DEF s, t, u
  <2>4. /\ s \o t \in Seq(Nat) /\ Len(s \o t) = n + k
        /\ \A i \in 1 .. n + k : (s \o t)[i] = IF i <= n THEN s[i] ELSE t[i - n]
    BY <2>1, <2>2, ConcatProperties
  <2>5. \A i \in 1 .. Len(s \o t) : (s \o t)[i] = u[i]
    BY <2>1, <2>2, <2>3, <2>4
  <2>6. s \o t = u
    BY <2>3, <2>4, <2>5, SeqEqual
  <2>7. QED
    BY <2>6 DEF s, t, u
<1>4. QED
  BY <1>1, <1>2, <1>3

LEMMA RecordType ==
    ASSUME NEW r \in Records
    PROVE  r.addr \in RamAddr /\ r.addr \in Nat /\ r.data \in Seq(Byte) /\ Len(r.data) \in Nat
<1>1. r \in Record /\ RamAddr \subseteq Nat
  BY LoaderAssumption
<1>2. r.addr \in RamAddr /\ r.data \in Seq(Byte)
  BY <1>1 DEF Record
<1>3. Len(r.data) \in Nat
  BY <1>2, LenProperties
<1>4. r.addr \in Nat
  BY <1>1, <1>2
<1>5. QED
  BY <1>2, <1>3, <1>4

(* A record of data is as many addresses as bytes, any other none. *)
LEMMA RecordTrace ==
    ASSUME NEW r \in Records
    PROVE  Cardinality(Cells(r)) = IF r.type = "S1" THEN Len(r.data) ELSE 0
<1>1. r.addr \in Nat /\ Len(r.data) \in Nat
  BY RecordType
<1>2. CASE r.type = "S1"
  <2>1. Cells(r) = r.addr .. r.addr + Len(r.data) - 1
    BY <1>2 DEF Cells
  <2>2. Cardinality(r.addr .. r.addr + Len(r.data) - 1) =
           IF r.addr > r.addr + Len(r.data) - 1 THEN 0 ELSE (r.addr + Len(r.data) - 1) - r.addr + 1
    <3>1. r.addr \in Int /\ r.addr + Len(r.data) - 1 \in Int
      BY <1>1
    <3>2. QED
      BY <3>1, FS_Interval, Zenon
  <2>3. QED
    BY <1>1, <1>2, <2>1, <2>2
<1>3. CASE r.type # "S1"
  BY <1>3, FS_EmptySet DEF Cells
<1>4. QED
  BY <1>2, <1>3

(* One record more is one piece more, and one segment more as well. *)
LEMMA PiecesOfData ==
    ASSUME NEW s \in Seq(Records), NEW r \in Records
    PROVE  /\ DataPieces(s) \in Seq(Seq(Nat))
           /\ DataPieces(Append(s, r)) =
                 Append(DataPieces(s), Trace(r.addr, Cardinality(Cells(r))))
           /\ Trace(r.addr, Cardinality(Cells(r))) \in Seq(Nat)
<1>1. \A x \in Records : Trace(x.addr, Cardinality(Cells(x))) \in Seq(Nat)
  <2>1. \A x \in Records : x.addr \in Nat /\ Len(x.data) \in Nat
    BY RecordType
  <2>2. \A x \in Records : Cardinality(Cells(x)) \in Nat
    BY <2>1, RecordTrace
  <2>3. QED
    BY <2>1, <2>2, TraceProperties
<1>2. DataPieces(s) \in Seq(Seq(Nat))
  <2>1. DOMAIN s = 1 .. Len(s) /\ Len(s) \in Nat
        /\ \A i \in 1 .. Len(s) : s[i] \in Records
    OBVIOUS
  <2>2. DataPieces(s) \in [1 .. Len(s) -> Seq(Nat)]
    BY <1>1, <2>1 DEF DataPieces
  <2>3. QED
    BY <2>1, <2>2, SeqDef
<1>3. DataPieces(Append(s, r)) = Append(DataPieces(s), Trace(r.addr, Cardinality(Cells(r))))
  BY DEF DataPieces
<1>4. QED
  BY <1>1, <1>2, <1>3

LEMMA PiecesOfSegments ==
    ASSUME NEW s \in Seq(Segment), NEW g \in Segment
    PROVE  /\ SegmentPieces(s) \in Seq(Seq(Nat))
           /\ SegmentPieces(Append(s, g)) = Append(SegmentPieces(s), Trace(g.addr, g.len))
           /\ Trace(g.addr, g.len) \in Seq(Nat)
<1>1. \A x \in Segment : Trace(x.addr, x.len) \in Seq(Nat)
  <2>1. \A x \in Segment : x.addr \in Nat /\ x.len \in Nat
    BY LoaderAssumption DEF Segment
  <2>2. QED
    BY <2>1, TraceProperties
<1>2. SegmentPieces(s) \in Seq(Seq(Nat))
  <2>1. DOMAIN s = 1 .. Len(s) /\ Len(s) \in Nat
        /\ \A i \in 1 .. Len(s) : s[i] \in Segment
    OBVIOUS
  <2>2. SegmentPieces(s) \in [1 .. Len(s) -> Seq(Nat)]
    BY <1>1, <2>1 DEF SegmentPieces
  <2>3. QED
    BY <2>1, <2>2, SeqDef
<1>3. SegmentPieces(Append(s, g)) = Append(SegmentPieces(s), Trace(g.addr, g.len))
  BY DEF SegmentPieces
<1>4. QED
  BY <1>1, <1>2, <1>3

LEMMA DataOfAppend ==
    ASSUME NEW s \in Seq(Records), NEW r \in Records
    PROVE  /\ FlattenSeq(DataPieces(s)) \in Seq(Nat)
           /\ FlattenSeq(DataPieces(Append(s, r))) =
                 FlattenSeq(DataPieces(s)) \o Trace(r.addr, IF r.type = "S1" THEN Len(r.data) ELSE 0)
  BY PiecesOfData, RecordTrace, FlattenProperties

LEMMA SegmentsOfAppend ==
    ASSUME NEW s \in Seq(Segment), NEW g \in Segment
    PROVE  /\ FlattenSeq(SegmentPieces(s)) \in Seq(Nat)
           /\ FlattenSeq(SegmentPieces(Append(s, g))) =
                 FlattenSeq(SegmentPieces(s)) \o Trace(g.addr, g.len)
  BY PiecesOfSegments, FlattenProperties

(* Finishing the open segment does not change what the segments cover. *)
LEMMA FlushKeeps ==
    ASSUME SegmentInv, Flush
    PROVE  /\ Flushed' = Flushed
           /\ inSeg' \in BOOLEAN /\ segAddr' \in RamAddr /\ segLen' \in Nat
           /\ segments' \in Seq(Segment)
<1>1. [addr |-> segAddr, len |-> segLen] \in Segment
  BY DEF SegmentInv, Segment
<1>2. Flushed \in Seq(Segment)
  BY <1>1 DEF Flushed, SegmentInv
<1>3. Flushed' = segments'
  BY DEF Flush, Flushed
<1>4. QED
  BY <1>2, <1>3 DEF Flush, SegmentInv

(* One record more of data, in the segment or in one of its own *)
LEMMA ExtendCovers ==
    ASSUME SegmentInv, NEW r \in Records, r.type = "S1", ExtendSegment(r)
    PROVE  /\ SegmentTrace' = SegmentTrace \o Trace(r.addr, Len(r.data))
           /\ inSeg' \in BOOLEAN /\ segAddr' \in RamAddr /\ segLen' \in Nat
           /\ segments' \in Seq(Segment)
<1> DEFINE n == Len(r.data)
<1>1. r.addr \in RamAddr /\ r.addr \in Nat /\ n \in Nat
  BY RecordType
<1>2. /\ segAddr \in RamAddr /\ segAddr \in Nat /\ segLen \in Nat /\ segments \in Seq(Segment)
      /\ inSeg \in BOOLEAN
  BY LoaderAssumption DEF SegmentInv
<1>3. SegmentTrace = FlattenSeq(SegmentPieces(Flushed))
  BY DEF SegmentTrace, SegmentPieces
<1>4. SegmentTrace' = FlattenSeq(SegmentPieces(Flushed'))
  BY DEF SegmentTrace, SegmentPieces
<1>5. [addr |-> segAddr, len |-> segLen] \in Segment
  BY <1>2 DEF Segment
<1>6. Flushed \in Seq(Segment)
  BY <1>2, <1>5 DEF Flushed
<1> HIDE DEF n
<1>7. CASE inSeg /\ r.addr = segAddr + segLen
  <2>1. segLen' = segLen + n /\ inSeg' /\ segAddr' = segAddr /\ segments' = segments
    BY <1>7 DEF ExtendSegment, n
  <2>2. [addr |-> segAddr, len |-> segLen + n] \in Segment
    BY <1>1, <1>2 DEF Segment
  <2>3. /\ Flushed = Append(segments, [addr |-> segAddr, len |-> segLen])
        /\ Flushed' = Append(segments, [addr |-> segAddr, len |-> segLen + n])
    BY <1>7, <2>1 DEF Flushed
  <2>4. /\ FlattenSeq(SegmentPieces(segments)) \in Seq(Nat)
        /\ SegmentTrace = FlattenSeq(SegmentPieces(segments)) \o Trace(segAddr, segLen)
        /\ SegmentTrace' = FlattenSeq(SegmentPieces(segments)) \o Trace(segAddr, segLen + n)
    BY <1>2, <1>3, <1>4, <1>5, <2>2, <2>3, SegmentsOfAppend
  <2>5. /\ Trace(segAddr, segLen) \in Seq(Nat) /\ Trace(r.addr, n) \in Seq(Nat)
        /\ Trace(segAddr, segLen) \o Trace(r.addr, n) = Trace(segAddr, segLen + n)
    <3>1. Trace(segAddr, segLen) \o Trace(segAddr + segLen, n) = Trace(segAddr, segLen + n)
      BY <1>1, <1>2, TraceProperties, Zenon
    <3>2. Trace(segAddr, segLen) \in Seq(Nat) /\ Trace(r.addr, n) \in Seq(Nat)
      BY <1>1, <1>2, TraceProperties, Zenon
    <3>3. QED
      BY <1>7, <3>1, <3>2, Zenon
  <2>6. SegmentTrace' = SegmentTrace \o Trace(r.addr, n)
    <3> DEFINE a == FlattenSeq(SegmentPieces(segments))
               b == Trace(segAddr, segLen)
               c == Trace(r.addr, n)
               e == Trace(segAddr, segLen + n)
    <3>1. a \in Seq(Nat) /\ b \in Seq(Nat) /\ c \in Seq(Nat)
      BY <2>4, <2>5
    <3>2. SegmentTrace = a \o b /\ SegmentTrace' = a \o e /\ e = b \o c
      BY <2>4, <2>5, Zenon
    <3> HIDE DEF a, b, c, e
    <3>3. SegmentTrace \o c = a \o e
      BY <3>1, <3>2, JoinThree
    <3>4. QED
      BY <3>2, <3>3, Zenon DEF c
  <2>7. QED
    BY <1>1, <1>2, <2>1, <2>6 DEF n
<1>8. CASE ~(inSeg /\ r.addr = segAddr + segLen)
  <2>1. segLen' = n /\ inSeg' /\ segAddr' = r.addr /\ segments' = Flushed
    BY <1>8 DEF ExtendSegment, n
  <2>2. [addr |-> r.addr, len |-> n] \in Segment
    BY <1>1 DEF Segment
  <2>3. Flushed' = Append(Flushed, [addr |-> r.addr, len |-> n])
    BY <2>1 DEF Flushed
  <2>4. SegmentTrace' = SegmentTrace \o Trace(r.addr, n)
    BY <1>3, <1>4, <1>6, <2>2, <2>3, SegmentsOfAppend
  <2>5. QED
    BY <1>1, <1>6, <2>1, <2>4 DEF n
<1>9. QED
  BY <1>7, <1>8

(* Every operation keeps the segments what the data are. *)
LEMMA SegmentStep ==
    ASSUME SegmentInv, [LoaderNext]_loaderVars
    PROVE  SegmentInv'
<1>0. /\ DataTrace = FlattenSeq(DataPieces(accepted)) /\ DataTrace = SegmentTrace
      /\ accepted \in Seq(Records)
  BY DEF DataTrace, DataPieces, SegmentInv, SegmentsCoverData
<1>1. CASE LoadStart
  <2>1. accepted' = << >> /\ Flushed' = << >>
    BY <1>1 DEF LoadStart, Flushed
  <2>2. DataTrace' = SegmentTrace'
    BY <2>1 DEF DataTrace, SegmentTrace
  <2>3. accepted' \in Seq(Records) /\ segments' \in Seq(Segment)
    BY <1>1 DEF LoadStart
  <2>4. inSeg' \in BOOLEAN /\ segAddr' \in RamAddr /\ segLen' \in Nat
    BY <1>1, LoaderAssumption DEF LoadStart
  <2>5. QED
    BY <2>2, <2>3, <2>4 DEF SegmentInv, SegmentsCoverData
<1>2. ASSUME NEW r \in Records, LoadLine(r)
      PROVE  SegmentInv'
  <2> DEFINE n == IF r.type = "S1" THEN Len(r.data) ELSE 0
  <2>1. accepted' = Append(accepted, r)
    BY <1>2 DEF LoadLine
  <2>2. accepted' \in Seq(Records)
    BY <1>0, <2>1
  <2>3. DataTrace' = DataTrace \o Trace(r.addr, n) /\ DataTrace \in Seq(Nat)
    <3>1. DataTrace' = FlattenSeq(DataPieces(accepted'))
      BY DEF DataTrace, DataPieces
    <3>2. QED
      BY <1>0, <2>1, <3>1, DataOfAppend
  <2>4. CASE r.type = "S1"
    <3>1. ExtendSegment(r)
      BY <1>2, <2>4 DEF LoadLine
    <3>2. QED
      BY <1>0, <2>2, <2>3, <2>4, <3>1, ExtendCovers DEF SegmentInv, SegmentsCoverData
  <2>5. CASE r.type # "S1"
    <3>1. Flush
      BY <1>2, <2>5 DEF LoadLine
    <3>2. SegmentTrace' = SegmentTrace
      BY <3>1, FlushKeeps DEF SegmentTrace
    <3>3. Trace(r.addr, n) = << >>
      BY <2>5, RecordType, TraceProperties
    <3>4. DataTrace' = DataTrace
      BY <2>3, <3>3, ConcatEmptySeq
    <3>5. QED
      BY <1>0, <2>2, <3>1, <3>2, <3>4, FlushKeeps DEF SegmentInv, SegmentsCoverData
  <2>6. QED
    BY <2>4, <2>5
<1>3. CASE LoadEnd
  <2>1. Flush /\ accepted' = accepted
    BY <1>3 DEF LoadEnd
  <2>2. SegmentTrace' = SegmentTrace /\ DataTrace' = DataTrace
    BY <2>1, FlushKeeps DEF SegmentTrace, DataTrace
  <2>3. QED
    BY <1>0, <2>1, <2>2, FlushKeeps DEF SegmentInv, SegmentsCoverData
<1>4. CASE UNCHANGED loaderVars
  <2>1. UNCHANGED << inSeg, segAddr, segLen, segments, accepted >>
    BY <1>4 DEF loaderVars, parser
  <2>2. UNCHANGED << DataTrace, SegmentTrace >>
    BY <2>1 DEF DataTrace, SegmentTrace, Flushed
  <2>3. QED
    BY <1>0, <2>1, <2>2 DEF SegmentInv, SegmentsCoverData
<1>5. QED
  BY <1>1, <1>2, <1>3, <1>4 DEF LoaderNext

LEMMA SegmentStarts == LoaderInit => SegmentInv
<1> SUFFICES ASSUME LoaderInit PROVE SegmentInv
  OBVIOUS
<1>1. accepted = << >> /\ Flushed = << >>
  BY DEF LoaderInit, Flushed
<1>2. DataTrace = SegmentTrace
  BY <1>1 DEF DataTrace, SegmentTrace
<1>3. accepted \in Seq(Records) /\ segments \in Seq(Segment)
  BY DEF LoaderInit
<1>4. QED
  BY <1>2, <1>3, LoaderAssumption DEF LoaderInit, SegmentInv, SegmentsCoverData

(* No byte is left out of the segments, counted twice or given to another *)
(* one, however the records follow one another (srec.cpp:164-192).         *)
THEOREM SegmentsAreTheData == LoaderSpec => []SegmentsCoverData
<1>1. SegmentInv /\ [LoaderNext]_loaderVars => SegmentInv'
  BY SegmentStep
<1>2. SegmentInv => SegmentsCoverData
  BY DEF SegmentInv
<1>3. QED
  BY <1>1, <1>2, SegmentStarts, PTL DEF LoaderSpec

-----------------------------------------------------------------------------
(* The console *)

(* The lines given to the loader, and the types of what the user typed *)
ConsoleInv == ConsoleTypeOK /\ sent \in Seq(Seq(Char))

(* Outside the monitor no line is begun, and before it nothing is in the buffer. *)
LineInv ==
    /\ LineIsTyped
    /\ runState \in {"Boot", "Running"} => line = << >>
    /\ runState = "Boot" => cmdBuf = << >>

(* A load in progress has stored every line, and none of them was a start *)
(* record; nothing is reported complete while a load or the program runs. *)
AllStored ==
    /\ Len(accepted) = Len(sent)
    /\ \A i \in DOMAIN sent :
          sent[i] \in DOMAIN RecordLines /\ accepted[i] = RecordLines[sent[i]]

LoadInv ==
    /\ runState \in {"Boot", "Loading", "Running"} => said # "load complete"
    /\ runState = "Loading" => AllStored /\ ~startAddrSet
    /\ LoadIsComplete

-----------------------------------------------------------------------------
(* The buffer is typed, and is empty when a prompt is wanted. *)
LEMMA BufferType ==
    ASSUME ConsoleTypeOK
    PROVE  Buffer \in Seq(Char) /\ Len(Buffer) <= MaxChars /\ MaxChars \in Nat
<1>1. MaxChars \in Nat
  BY ConsoleAssumption DEF MaxChars
<1>2. CASE needPrompt
  BY <1>1, <1>2, EmptySeq DEF Buffer
<1>3. CASE ~needPrompt
  BY <1>1, <1>3 DEF Buffer, ConsoleTypeOK
<1> QED  BY <1>2, <1>3

(* Deleting a character leaves a line, and no longer one. *)
LEMMA ShorterType ==
    ASSUME NEW S, NEW s \in Seq(S)
    PROVE  Shorter(s) \in Seq(S) /\ Len(Shorter(s)) <= Len(s)
<1>1. CASE s = << >>
  BY <1>1 DEF Shorter
<1>2. CASE s # << >>
  <2>1. Len(s) \in Nat /\ Len(s) # 0
    BY <1>2, EmptySeq
  <2>2. /\ SubSeq(s, 1, Len(s) - 1) \in Seq(S)
        /\ Len(SubSeq(s, 1, Len(s) - 1)) = Len(s) - 1
    <3>1. Len(s) - 1 \in 0 .. Len(s) /\ Len(s) - 1 <= Len(s)
      BY <2>1
    <3>2. \A i \in 1 .. Len(s) - 1 : i \in 1 .. Len(s) /\ s[i] \in S
      BY <2>1
    <3>3. Len(s) - 1 \in Int /\ 1 \in Int
      BY <2>1
    <3> DEFINE t == SubSeq(s, 1, Len(s) - 1)
               n == Len(s) - 1
    <3>4. t \in Seq(S) /\ Len(t) = IF 1 <= n THEN n - 1 + 1 ELSE 0
      BY <3>2, <3>3, SubSeqProperties
    <3>5. n \in Nat
      BY <2>1
    <3> HIDE DEF t, n
    <3>6. Len(t) = n
      BY <3>4, <3>5
    <3> QED  BY <3>4, <3>6 DEF t, n
  <2> QED  BY <1>2, <2>1, <2>2 DEF Shorter
<1> QED  BY <1>1, <1>2

(* Reading a key leaves a sequence of keys. *)
LEMMA ReadType ==
    ASSUME ConsoleTypeOK, NEW k, Read(k)
    PROVE  input' \in Seq(Keys)
  BY HeadTailProperties DEF ConsoleTypeOK, Read

-----------------------------------------------------------------------------
(* The steps of the loader within the console keep what is proved of it. *)
LEMMA LoaderInConsole == [ConsoleNext]_consoleVars => [LoaderNext]_loaderVars
<1> SUFFICES ASSUME [ConsoleNext]_consoleVars PROVE [LoaderNext]_loaderVars
  OBVIOUS
<1>1. CASE GetCommand
  <2>1. CASE Load
    BY <2>1 DEF Load, LoaderNext
  <2>2. CASE GoodRecord
    BY <2>2, ConsoleAssumption DEF GoodRecord, LoaderNext
  <2>3. CASE BadRecord
    BY <2>3 DEF BadRecord, LoaderNext
  <2>4. CASE Poll \/ Full \/ Character \/ Backspace \/ ControlCharacter \/ Escape
    BY <2>4 DEF Poll, Full, Character, Backspace, ControlCharacter, Escape
  <2>5. CASE EmptyLine \/ Run \/ Step \/ Other
    BY <2>5 DEF EmptyLine, Run, Step, Other
  <2> QED  BY <1>1, <2>1, <2>2, <2>3, <2>4, <2>5 DEF GetCommand
<1>2. CASE Program
  BY <1>2 DEF Program, RunSlice, EnterMonitor, ProgramLoads
<1>3. ASSUME NEW k \in Keys, Type(k) PROVE UNCHANGED loaderVars
  BY <1>3 DEF Type
<1>4. CASE UNCHANGED consoleVars
  BY <1>4 DEF consoleVars
<1>5. CASE Host
  BY <1>5 DEF Host, HostLoads, StartExecution, LoaderNext
<1> QED  BY <1>1, <1>2, <1>3, <1>4, <1>5 DEF ConsoleNext

(* Every behaviour of the console is one of the loader. *)
THEOREM LoaderInTheConsole == ConsoleSpec => LoaderSpec
<1>1. ConsoleInit => LoaderInit
  BY DEF ConsoleInit
<1> QED  BY <1>1, LoaderInConsole, PTL DEF ConsoleSpec, LoaderSpec

-----------------------------------------------------------------------------
(* Each step keeps the console typed: only Character makes the buffer    *)
(* longer, and it does not when the buffer is full.                       *)
LEMMA TypeStep ==
    ASSUME ConsoleInv, LoaderInv, [ConsoleNext]_consoleVars
    PROVE  ConsoleInv'
<1> USE DEF ConsoleInv, Messages
<1>1. Buffer \in Seq(Char) /\ Len(Buffer) <= MaxChars /\ MaxChars \in Nat
  BY BufferType
<1>2. /\ << >> \in Seq(Char) /\ Len(<< >>) <= MaxChars
      /\ << >> \in Seq(Seq(Char))
  BY <1>1, EmptySeq
<1>3. \A k : Read(k) => input' \in Seq(Keys)
  BY ReadType
<1>4. \A k : Accept(k) => input' \in Seq(Keys)
  BY <1>3 DEF Accept
<1>5. CASE Poll
  BY <1>1, <1>5 DEF Poll, ConsoleTypeOK
<1>6. CASE Full
  BY <1>2, <1>3, <1>6 DEF Full, ConsoleTypeOK
<1>7. CASE Character
  <2>1. PICK k \in Char : /\ Accept(k)
                          /\ cmdBuf' = Append(Buffer, k)
                          /\ line' = Append(line, k)
    BY <1>7 DEF Character
  <2>2. cmdBuf' \in Seq(Char) /\ Len(cmdBuf') <= MaxChars
    <3>1. Len(Buffer) < MaxChars
      BY <1>1, <2>1 DEF Accept, IsFull
    <3> QED  BY <1>1, <2>1, <3>1
  <2>3. line' \in Seq(Char)
    <3>1. line \in Seq(Char)
      BY DEF ConsoleTypeOK
    <3> QED  BY <2>1, <3>1
  <2> QED  BY <1>4, <1>7, <2>1, <2>2, <2>3 DEF Character, ConsoleTypeOK
<1>8. CASE Backspace
  <2>1. cmdBuf' \in Seq(Char) /\ Len(cmdBuf') <= MaxChars
    <3>1. Shorter(Buffer) \in Seq(Char) /\ Len(Shorter(Buffer)) <= Len(Buffer)
      BY <1>1, ShorterType
    <3>2. Len(Shorter(Buffer)) \in Nat /\ Len(Buffer) \in Nat
      BY <1>1, <3>1
    <3> QED  BY <1>1, <1>8, <3>1, <3>2 DEF Backspace
  <2>2. line' \in Seq(Char)
    <3>1. line \in Seq(Char)
      BY DEF ConsoleTypeOK
    <3>2. Shorter(line) \in Seq(Char)
      BY <3>1, ShorterType
    <3> QED  BY <1>8, <3>2 DEF Backspace
  <2> QED  BY <1>4, <1>8, <2>1, <2>2 DEF Backspace, ConsoleTypeOK
<1>9. CASE ControlCharacter
  BY <1>2, <1>4, <1>9 DEF ControlCharacter, ConsoleTypeOK
<1>10. CASE Escape
  BY <1>1, <1>2, <1>4, <1>10 DEF Escape, ConsoleTypeOK
<1>11. CASE EmptyLine
  BY <1>2, <1>4, <1>11 DEF EmptyLine, EndOfLine, ConsoleTypeOK
<1>12. CASE Load
  BY <1>1, <1>2, <1>4, <1>12 DEF Load, CommandLine, EndOfLine, ConsoleTypeOK
<1>13. CASE Run
  BY <1>1, <1>2, <1>4, <1>13, ConsoleAssumption
     DEF Run, CommandLine, EndOfLine, ConsoleTypeOK
<1>14. CASE Step
  BY <1>1, <1>2, <1>4, <1>14 DEF Step, CommandLine, EndOfLine, ConsoleTypeOK
<1>15. CASE Other
  BY <1>1, <1>2, <1>4, <1>15 DEF Other, CommandLine, EndOfLine, ConsoleTypeOK
<1>16. CASE RecordLine /\ (GoodRecord \/ BadRecord)
  <2>1. sent' \in Seq(Seq(Char))
    BY <1>1, <1>16 DEF RecordLine
  <2>2. /\ cmdBuf' = << >> /\ line' = << >> /\ needPrompt' = TRUE
        /\ input' \in Seq(Keys) /\ runState = "Loading"
    BY <1>4, <1>16 DEF RecordLine, EndOfLine
  <2>3. recStart \in RamAddr /\ recStart' \in RamAddr
    BY LoaderStep, LoaderInConsole DEF LoaderInv, LoadedInv
  <2>4. /\ runState' \in {"Boot", "Cmd", "Loading", "Running"}
        /\ startAddr' \in RamAddr
        /\ said' \in Messages
    BY <1>16, <2>2, <2>3 DEF GoodRecord, BadRecord, ConsoleTypeOK
  <2> QED  BY <1>2, <2>1, <2>2, <2>4 DEF ConsoleTypeOK
<1>17. CASE Program
  <2>1. CASE RunSlice
    <3>1. input' \in Seq(Keys)
      BY <2>1, HeadTailProperties DEF RunSlice, ConsoleTypeOK
    <3> QED  BY <2>1, <3>1 DEF RunSlice, ConsoleTypeOK
  <2>2. CASE EnterMonitor
    BY <2>2 DEF EnterMonitor, ConsoleTypeOK
  <2>3. CASE ProgramLoads
    BY <2>3 DEF ProgramLoads, ConsoleTypeOK
  <2> QED  BY <1>17, <2>1, <2>2, <2>3 DEF Program
<1>18. ASSUME NEW k \in Keys, Type(k) PROVE ConsoleInv'
  <2>1. input' \in Seq(Keys)
    <3>1. input \in Seq(Keys)
      BY DEF ConsoleTypeOK
    <3>2. Append(input, k) \in Seq(Keys)
      BY <1>18, <3>1
    <3> QED  BY <1>18, <3>2 DEF Type
  <2> QED  BY <1>18, <2>1 DEF Type, ConsoleTypeOK
<1>19. CASE UNCHANGED consoleVars
  BY <1>19 DEF consoleVars, ConsoleTypeOK
<1>20. CASE GoodRecord \/ BadRecord
  BY <1>16, <1>20 DEF GoodRecord, BadRecord
<1>21. CASE Host
  BY <1>21 DEF Host, HostLoads, StartExecution, ConsoleTypeOK, LoaderInv, LoadedInv
<1> QED  BY <1>5, <1>6, <1>7, <1>8, <1>9, <1>10, <1>11, <1>12, <1>13, <1>14, <1>15,
            <1>17, <1>18, <1>19, <1>20, <1>21 DEF ConsoleNext, GetCommand

-----------------------------------------------------------------------------
(* Each step leaves in the buffer what the user typed, or wants a prompt. *)
LEMMA LineStep ==
    ASSUME ConsoleTypeOK, LineInv, [ConsoleNext]_consoleVars
    PROVE  LineInv'
<1>1. InMonitor => Buffer = line
  BY DEF LineInv, LineIsTyped
<1>2. needPrompt' = TRUE => Buffer' = << >>
  BY DEF Buffer
<1>3. needPrompt' = FALSE => Buffer' = cmdBuf'
  BY DEF Buffer
<1>4. CASE Poll \/ Character \/ Backspace
  <2>1. /\ needPrompt' = FALSE /\ cmdBuf' = line'
        /\ InMonitor /\ runState' = runState
    BY <1>1, <1>4 DEF Poll, Character, Backspace, Accept, Read
  <2> QED  BY <1>3, <2>1 DEF LineInv, LineIsTyped, InMonitor
<1>5. CASE Full \/ ControlCharacter \/ Escape \/ EmptyLine \/ Load \/ Step \/ Other
  <2>1. needPrompt' = TRUE /\ line' = << >>
    BY <1>5 DEF Full, ControlCharacter, Escape, EmptyLine, Load, Step, Other,
                CommandLine, EndOfLine
  <2>2. InMonitor
    BY <1>5 DEF Full, ControlCharacter, Escape, EmptyLine, Load, Step, Other,
                CommandLine, EndOfLine, Accept, Read
  <2>3. runState' # "Boot"
    BY <1>5, <2>2 DEF Full, ControlCharacter, Escape, EmptyLine, Load, Step, Other, InMonitor
  <2> QED  BY <1>2, <2>1, <2>3 DEF LineInv, LineIsTyped
<1>6. CASE GoodRecord \/ BadRecord
  <2>1. needPrompt' = TRUE /\ line' = << >> /\ runState = "Loading"
    BY <1>6 DEF GoodRecord, BadRecord, RecordLine, EndOfLine
  <2>2. runState' # "Boot"
    BY <1>6, <2>1 DEF GoodRecord, BadRecord
  <2> QED  BY <1>2, <2>1, <2>2 DEF LineInv, LineIsTyped
<1>7. CASE Run
  BY <1>7 DEF Run, CommandLine, EndOfLine, LineInv, LineIsTyped, InMonitor
<1>8. CASE Program
  <2>1. line' = << >> /\ runState = "Running"
    BY <1>8 DEF Program, RunSlice, EnterMonitor, ProgramLoads, LineInv
  <2>2. /\ needPrompt' = TRUE \/ runState' = "Running"
        /\ runState' # "Boot"
    BY <1>8, <2>1 DEF Program, RunSlice, EnterMonitor, ProgramLoads
  <2> QED  BY <1>2, <2>1, <2>2 DEF LineInv, LineIsTyped, InMonitor
<1>9. ASSUME NEW k \in Keys, Type(k) PROVE LineInv'
  BY <1>9 DEF Type, LineInv, LineIsTyped, InMonitor, Buffer
<1>10. CASE UNCHANGED consoleVars
  BY <1>10 DEF consoleVars, LineInv, LineIsTyped, InMonitor, Buffer
<1>11. CASE Host
  <2>1. /\ cmdBuf' = << >> /\ line' = << >>
        /\ runState' \in {"Boot", "Cmd", "Running"}
    BY <1>11 DEF Host, HostLoads, StartExecution, LineInv
  <2> QED  BY <2>1 DEF LineInv, LineIsTyped, Buffer
<1> QED  BY <1>4, <1>5, <1>6, <1>7, <1>8, <1>9, <1>10, <1>11 DEF ConsoleNext, GetCommand
-----------------------------------------------------------------------------
(* An accepted line is stored behind those before it. *)
LEMMA OneMoreStored ==
    ASSUME ConsoleInv, LoaderInv, AllStored, GoodRecord
    PROVE  /\ AllStored'
           /\ DOMAIN sent' = 1 .. Len(sent) + 1
           /\ Len(sent') = Len(sent) + 1
           /\ Len(sent) \in Nat
           /\ \A i \in 1 .. Len(sent) : accepted'[i] = accepted[i]
           /\ accepted'[Len(sent) + 1] = RecordLines[Buffer]
           /\ DOMAIN accepted = 1 .. Len(sent)
<1>1. /\ Buffer \in DOMAIN RecordLines /\ RecordLines[Buffer] \in Records
      /\ accepted' = Append(accepted, RecordLines[Buffer])
      /\ sent' = Append(sent, Buffer)
  BY ConsoleAssumption DEF GoodRecord, RecordLine, LoadLine
<1>2. accepted \in Seq(Records) /\ sent \in Seq(Seq(Char)) /\ Buffer \in Seq(Char)
  BY BufferType DEF LoaderInv, LoadedInv, ConsoleInv
<1>3. Len(accepted) = Len(sent) /\ Len(sent) \in Nat
  BY <1>2 DEF AllStored
<1>4. /\ DOMAIN accepted = 1 .. Len(sent)
      /\ Len(accepted') = Len(sent) + 1
      /\ \A i \in 1 .. Len(sent) : accepted'[i] = accepted[i]
      /\ accepted'[Len(sent) + 1] = RecordLines[Buffer]
  BY <1>1, <1>2, <1>3, AppendRecord
<1>5. /\ DOMAIN sent = 1 .. Len(sent)
      /\ Len(sent') = Len(sent) + 1
      /\ DOMAIN sent' = 1 .. Len(sent) + 1
      /\ \A i \in 1 .. Len(sent) : sent'[i] = sent[i]
      /\ sent'[Len(sent) + 1] = Buffer
  BY <1>1, <1>2
<1>6. \A i \in DOMAIN sent' :
         sent'[i] \in DOMAIN RecordLines /\ accepted'[i] = RecordLines[sent'[i]]
  <2>1. SUFFICES ASSUME NEW i \in 1 .. Len(sent) + 1
                 PROVE  sent'[i] \in DOMAIN RecordLines /\ accepted'[i] = RecordLines[sent'[i]]
    BY <1>5
  <2>2. CASE i = Len(sent) + 1
    BY <1>1, <1>4, <1>5, <2>2
  <2>3. CASE i \in 1 .. Len(sent)
    BY <1>4, <1>5, <2>3 DEF AllStored
  <2> QED  BY <1>3, <2>2, <2>3
<1>7. AllStored'
  BY <1>4, <1>5, <1>6 DEF AllStored
<1> QED  BY <1>3, <1>4, <1>5, <1>7

(* A line accepted while loading either ends the load, complete, or goes on. *)
LEMMA GoodRecordStep ==
    ASSUME ConsoleInv, LoaderInv, LoadInv, GoodRecord
    PROVE  LoadInv'
<1> DEFINE r == RecordLines[Buffer]
           n == Len(sent)
<1>1. runState = "Loading" /\ LoadLine(r) /\ r \in Records
  BY ConsoleAssumption DEF GoodRecord, RecordLine
<1>2. AllStored /\ ~startAddrSet /\ said # "load complete"
  BY <1>1 DEF LoadInv
<1>3. /\ AllStored'
      /\ DOMAIN sent' = 1 .. n + 1 /\ Len(sent') = n + 1 /\ n \in Nat
      /\ \A i \in 1 .. n : accepted'[i] = accepted[i]
      /\ accepted'[n + 1] = r
      /\ DOMAIN accepted = 1 .. n
  BY <1>2, OneMoreStored
<1>4. \A i \in 1 .. n : accepted'[i].type # "S9"
  BY <1>2, <1>3 DEF LoaderInv, StartRecordWins
<1>5. CASE startAddrSet'
  <2>1. r.type = "S9" /\ recStart' = r.addr
    BY <1>1, <1>2, <1>5 DEF LoadLine, Store
  <2>2. runState' = "Cmd" /\ startAddr' = r.addr
    BY <1>5, <2>1 DEF GoodRecord
  <2>3. \A i \in DOMAIN sent' : accepted'[i].type = "S9" <=> i = Len(sent')
    BY <1>3, <1>4, <2>1
  <2>4. sent' # << >> /\ startAddr' = accepted'[Len(sent')].addr
    BY <1>3, <2>2
  <2>5. LoadIsComplete'
    BY <1>3, <2>3, <2>4 DEF LoadIsComplete, AllStored
  <2> QED  BY <2>2, <2>5 DEF LoadInv
<1>6. CASE ~startAddrSet'
  <2>1. runState' = runState /\ said' = said
    BY <1>6 DEF GoodRecord
  <2> QED  BY <1>2, <1>3, <1>6, <2>1 DEF LoadInv, LoadIsComplete
<1> QED  BY <1>5, <1>6

(* Nothing else makes a load complete, or touches one in progress. *)
LEMMA LoadStep ==
    ASSUME ConsoleInv, LoaderInv, LoadInv, [ConsoleNext]_consoleVars
    PROVE  LoadInv'
<1>1. CASE GoodRecord
  BY <1>1, GoodRecordStep
<1>2. CASE BadRecord
  BY <1>2 DEF BadRecord, LoadInv, LoadIsComplete
<1>3. CASE Load
  <2>1. accepted' = << >> /\ sent' = << >> /\ said' = "" /\ startAddrSet' = FALSE
    BY <1>3 DEF Load, LoadStart
  <2>2. AllStored'
    <3>1. Len(accepted') = Len(sent') /\ DOMAIN sent' = {}
      <4>1. accepted' = << >> /\ sent' = << >>
        BY <2>1
      <4>2. DOMAIN << >> = {}
        OBVIOUS
      <4> QED  BY <4>1, <4>2
    <3> QED  BY <3>1 DEF AllStored
  <2> QED  BY <2>1, <2>2 DEF LoadInv, LoadIsComplete
<1>4. CASE Run \/ Step
  BY <1>4 DEF Run, Step, LoadInv, LoadIsComplete
<1>5. ASSUME UNCHANGED << startAddrSet, accepted, startAddr, sent >>,
             said' = said \/ said' # "load complete",
             runState' = runState \/ (runState' = "Cmd" /\ runState # "Cmd")
      PROVE  LoadInv'
  BY <1>5 DEF LoadInv, LoadIsComplete, AllStored
<1>6. CASE Poll \/ Full \/ Character \/ Backspace
  BY <1>5, <1>6 DEF Poll, Full, Character, Backspace, loaderVars, parser
<1>7. CASE ControlCharacter \/ EmptyLine \/ Other
  BY <1>5, <1>7 DEF ControlCharacter, EmptyLine, Other, loaderVars, parser
<1>8. CASE Escape
  BY <1>5, <1>8 DEF Escape, loaderVars, parser
<1>9. CASE RunSlice \/ EnterMonitor
  BY <1>5, <1>9 DEF RunSlice, EnterMonitor, loaderVars, parser
<1>10. CASE ProgramLoads
  BY <1>10 DEF ProgramLoads, LoadInv, LoadIsComplete
<1>11. ASSUME NEW k \in Keys, Type(k) PROVE LoadInv'
  BY <1>5, <1>11 DEF Type, loaderVars, parser
<1>12. CASE UNCHANGED consoleVars
  BY <1>5, <1>12 DEF consoleVars, loaderVars, parser
<1>13. CASE Host
  BY <1>13 DEF Host, HostLoads, StartExecution, LoadInv, LoadIsComplete
<1> QED  BY <1>1, <1>2, <1>3, <1>4, <1>6, <1>7, <1>8, <1>9, <1>10, <1>11, <1>12, <1>13
         DEF ConsoleNext, GetCommand, Program

-----------------------------------------------------------------------------
(* The first state *)
LEMMA ConsoleStarts == ConsoleInit => LoaderInv /\ ConsoleInv /\ LineInv /\ LoadInv
<1> SUFFICES ASSUME ConsoleInit PROVE LoaderInv /\ ConsoleInv /\ LineInv /\ LoadInv
  OBVIOUS
<1>1. LoaderInv
  BY LoaderStarts DEF ConsoleInit
<1>2. MaxChars \in Nat /\ startAddr \in RamAddr
  <2>1. MaxChars \in Nat
    BY ConsoleAssumption DEF MaxChars
  <2>2. startAddr \in RamAddr
    BY LoaderAssumption DEF ConsoleInit
  <2> QED  BY <2>1, <2>2
<1>3. ConsoleInv
  <2>1. /\ << >> \in Seq(Char) /\ << >> \in Seq(Keys) /\ << >> \in Seq(Seq(Char))
        /\ Len(<< >>) <= MaxChars
    BY <1>2, EmptySeq
  <2>2. /\ cmdBuf = << >> /\ input = << >> /\ line = << >> /\ sent = << >>
        /\ needPrompt = FALSE /\ runState = "Boot" /\ said = ""
    BY DEF ConsoleInit
  <2> QED  BY <1>2, <2>1, <2>2 DEF ConsoleInv, ConsoleTypeOK, Messages
<1>4. LineInv
  BY DEF ConsoleInit, LineInv, LineIsTyped, Buffer
<1>5. LoadInv
  BY DEF ConsoleInit, LoadInv, LoadIsComplete
<1> QED  BY <1>1, <1>3, <1>4, <1>5

(* The invariant of all behaviours of the console *)
THEOREM ConsoleInvariance == ConsoleSpec => [](LoaderInv /\ ConsoleInv /\ LineInv /\ LoadInv)
<1>1. ASSUME LoaderInv /\ ConsoleInv /\ LineInv /\ LoadInv, [ConsoleNext]_consoleVars
      PROVE  (LoaderInv /\ ConsoleInv /\ LineInv /\ LoadInv)'
  <2>1. LoaderInv'
    BY <1>1, LoaderInConsole, LoaderStep
  <2>2. ConsoleInv' /\ LineInv' /\ LoadInv'
    BY <1>1, TypeStep, LineStep, LoadStep DEF ConsoleInv
  <2> QED  BY <2>1, <2>2
<1> QED  BY <1>1, ConsoleStarts, PTL DEF ConsoleSpec

(* The command buffer is never written past its end, whatever its size     *)
(* (BOSS9.cpp:284-289, 321).                                               *)
THEOREM BufferInBounds == ConsoleSpec => []ConsoleTypeOK
  BY ConsoleInvariance, PTL DEF ConsoleInv

(* The line executed is the line typed, across prompts, ESC, programs that *)
(* run in between and lines given up (BOSS9.cpp:386-395, BOSS9.h:117-140). *)
THEOREM ExecutedLineIsTyped == ConsoleSpec => []LineIsTyped
  BY ConsoleInvariance, PTL DEF LineInv

(* A load reported complete stored every line (BOSS9.cpp:397-411).         *)
THEOREM CompleteLoads == ConsoleSpec => []LoadIsComplete
  BY ConsoleInvariance, PTL DEF LoadInv
=============================================================================
