------------------------------- MODULE Loader -------------------------------
(***************************************************************************)
(* The S-record loader: SRecordParser (srec.cpp) and SRecordInfo           *)
(* (MC6809.h), which writes the data into the emulator's memory and keeps  *)
(* the start address.  The hosts, the monitor and the running program all  *)
(* use the same one, through loadStart(), loadLine() and loadEnd().        *)
(*                                                                         *)
(* A line is the record ParseLine makes of it.  A line it refuses (no S,   *)
(* a character that is no digit, a wrong checksum, an unknown type)        *)
(* changes nothing.  The types S2 and S3 are S1 with longer addresses, S7  *)
(* and S8 are S9.                                                          *)
(***************************************************************************)
EXTENDS Integers, SequencesExt

CONSTANTS
    RamAddr,       \* addresses of the memory
    Byte,          \* what a memory cell holds
    Blank,         \* what a cell may hold before anything is loaded: any of Byte
    Records,       \* the records lines are made of
    MaxRecords     \* bound: records accepted by one load

RecType == {"S0", "S1", "S5", "S9"}
Record == [type : RecType, addr : RamAddr, data : Seq(Byte)]

(* The addresses a record writes to.  Those of all records are in memory: *)
(* the code does not check it (MC6809.h:255).                             *)
Cells(r) == IF r.type = "S1" THEN r.addr .. r.addr + Len(r.data) - 1 ELSE {}

ASSUME LoaderAssumption ==
    /\ RamAddr \subseteq Nat /\ 0 \in RamAddr
    /\ Blank \subseteq Byte
    /\ Records \subseteq Record
    /\ \A r \in Records : Cells(r) \subseteq RamAddr
    /\ MaxRecords \in Nat

VARIABLES
    ram,             \* _ram
    inSeg,           \* m_inSeg
    segAddr,         \* m_segAddr
    segLen,          \* m_segLen
    recStart,        \* _startAddr of SRecordInfo
    startAddrSet,    \* _startAddrSet
    \* history
    accepted,        \* the records accepted since loadStart()
    segments,        \* the calls of FinishSegment since loadStart()
    before           \* the memory at loadStart()

parser == << ram, inSeg, segAddr, segLen, recStart, startAddrSet >>
loaderVars == << parser, accepted, segments, before >>

Segment == [addr : RamAddr, len : Nat]

-----------------------------------------------------------------------------
LoaderInit ==
    /\ ram \in [RamAddr -> Blank]
    /\ inSeg = FALSE /\ segAddr = 0 /\ segLen = 0
    /\ recStart = 0 /\ startAddrSet = FALSE
    /\ accepted = << >> /\ segments = << >> /\ before = ram

(* A loadStart that only resets the parser *)
LoadStartKeepsFlag ==
    /\ inSeg' = FALSE /\ segAddr' = 0 /\ segLen' = 0
    /\ recStart' = 0
    /\ accepted' = << >> /\ segments' = << >> /\ before' = ram
    /\ UNCHANGED << ram, startAddrSet >>

LoadStart ==
    /\ inSeg' = FALSE /\ segAddr' = 0 /\ segLen' = 0
    /\ recStart' = 0 /\ startAddrSet' = FALSE
    /\ accepted' = << >> /\ segments' = << >> /\ before' = ram
    /\ UNCHANGED ram

(* The segments finished when an open one, if any, is *)
Flushed == IF inSeg THEN Append(segments, [addr |-> segAddr, len |-> segLen]) ELSE segments

(* Flush *)
Flush ==
    /\ inSeg' = FALSE
    /\ segments' = Flushed
    /\ UNCHANGED << segAddr, segLen >>

(* A start record that loses against data behind it *)
StoreMovesStart(r) ==
    /\ ram' = [a \in RamAddr |-> IF a \in Cells(r) THEN r.data[a - r.addr + 1] ELSE ram[a]]
    /\ recStart' = r.addr
    /\ UNCHANGED startAddrSet

(* Data that is written where the segment begins *)
StoreAtSegment(r) ==
    /\ ram' = [a \in RamAddr |->
          IF a - segAddr \in 0 .. Len(r.data) - 1 THEN r.data[a - segAddr + 1] ELSE ram[a]]
    /\ recStart' = IF startAddrSet THEN recStart ELSE r.addr
    /\ UNCHANGED startAddrSet

(* SRecordInfo::Data *)
Store(r) ==
    /\ ram' = [a \in RamAddr |-> IF a \in Cells(r) THEN r.data[a - r.addr + 1] ELSE ram[a]]
    /\ recStart' = IF startAddrSet THEN recStart ELSE r.addr
    /\ UNCHANGED startAddrSet

(* A new segment that goes on counting the last one *)
ExtendSegmentKeepsLength(r) ==
    IF inSeg /\ r.addr = segAddr + segLen
    THEN /\ segLen' = segLen + Len(r.data)
         /\ UNCHANGED << inSeg, segAddr, segments >>
    ELSE /\ inSeg' = TRUE
         /\ segAddr' = r.addr
         /\ segLen' = segLen + Len(r.data)
         /\ segments' = Flushed

(* ParsedData: data that does not follow the segment finishes it and *)
(* starts another.                                                   *)
ExtendSegment(r) ==
    IF inSeg /\ r.addr = segAddr + segLen
    THEN /\ segLen' = segLen + Len(r.data)
         /\ UNCHANGED << inSeg, segAddr, segments >>
    ELSE /\ inSeg' = TRUE
         /\ segAddr' = r.addr
         /\ segLen' = Len(r.data)
         /\ segments' = Flushed

(* loadLine() with a line that is the record r *)
LoadLine(r) ==
    /\ Len(accepted) < MaxRecords
    /\ accepted' = Append(accepted, r)
    /\ \/ r.type = "S1" /\ ExtendSegment(r) /\ Store(r)
       \/ r.type = "S9" /\ Flush /\ recStart' = r.addr /\ startAddrSet' = TRUE /\ UNCHANGED ram
       \/ r.type \in {"S0", "S5"} /\ Flush /\ UNCHANGED << ram, recStart, startAddrSet >>
    /\ UNCHANGED before

(* loadEnd(); its result is recStart. *)
LoadEnd ==
    /\ Flush
    /\ UNCHANGED << ram, recStart, startAddrSet, accepted, before >>

LoaderNext == LoadStart \/ (\E r \in Records : LoadLine(r)) \/ LoadEnd

LoaderSpec == LoaderInit /\ [][LoaderNext]_loaderVars

-----------------------------------------------------------------------------
(* Memory holds, at every address, the byte of the last record accepted   *)
(* that covers it, and what it held before the load where none does:      *)
(* overlapping, repeated and unordered records, and loads that are given  *)
(* up half way (srec.cpp:249-284, MC6809.h:253-264).                      *)
ImageIsRecords ==
    \A a \in RamAddr :
       \/ \E i \in DOMAIN accepted :
             /\ a \in Cells(accepted[i])
             /\ \A j \in DOMAIN accepted : a \in Cells(accepted[j]) => j <= i
             /\ ram[a] = accepted[i].data[a - accepted[i].addr + 1]
       \/ /\ \A i \in DOMAIN accepted : a \notin Cells(accepted[i])
          /\ ram[a] = before[a]

(* The start address is that of the last start record, whatever data      *)
(* comes behind it, and the load is finished exactly when there was one   *)
(* (MC6809.h:241-263).                                                    *)
StartRecordWins ==
    LET starts == {i \in DOMAIN accepted : accepted[i].type = "S9"}
    IN  /\ startAddrSet <=> starts # {}
        /\ startAddrSet => \E i \in starts :
                             /\ \A j \in starts : j <= i
                             /\ recStart = accepted[i].addr

(* The addresses of the bytes of a record, in order *)
Trace(addr, len) == [k \in 1 .. len |-> addr + k - 1]

(* The addresses of all data accepted, and of all segments, in order *)
DataTrace == FlattenSeq([i \in DOMAIN accepted |->
                Trace(accepted[i].addr, Cardinality(Cells(accepted[i])))])
SegmentTrace == FlattenSeq([i \in DOMAIN Flushed |-> Trace(Flushed[i].addr, Flushed[i].len)])

(* The segments finished, and the open one, are the data accepted: no     *)
(* byte is left out, counted twice or given to another segment, wherever  *)
(* headers, counts, gaps and start records fall between (srec.h, and      *)
(* srec.cpp:164-192).                                                     *)
SegmentsCoverData == DataTrace = SegmentTrace
=============================================================================
