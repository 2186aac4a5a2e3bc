----------------------------- MODULE ProgramFile -----------------------------
(***************************************************************************)
(* The way of a program into the emulator: the assembler writes it as an   *)
(* S-record file (write_code_srec and fetch_output_byte of lwasm's         *)
(* output.c), and the host reads the file line by line into the loader     *)
(* (main.cpp).  On the way one line may be damaged.                        *)
(*                                                                         *)
(* When the assembly fails the assembler writes nothing, and the file of   *)
(* an earlier assembly stays (lwasm's main.c:385-397).                     *)
(***************************************************************************)
EXTENDS Loader, SRecordLine

CONSTANTS
    Sources,       \* the programs: sequences of lines, an address and the bytes there
    Starts,        \* the start addresses they name
    HeaderText,    \* bytes of the header
    StaleFile,     \* the file of an earlier assembly
    Damageable,    \* bound: the programs whose files are damaged on the way
    Typo           \* the characters a damaged one may turn into

RecordLength == 16      \* SRECLEN
HeaderLength == 50      \* HDRLEN without the terminator

LastAddress == 65535
Address == 0 .. LastAddress
SourceLine == [addr : Address, output : Seq(Byte)]

ASSUME FileAssumption ==
    /\ RamAddr \subseteq Address /\ Byte = 0 .. 255
    /\ Sources \subseteq Seq(SourceLine)
    /\ \A s \in Sources : \A i \in DOMAIN s :
          \A k \in 1 .. Len(s[i].output) : s[i].addr + k - 1 \in RamAddr
    /\ Starts \subseteq Address
    /\ HeaderText \in Seq(Byte) /\ Len(HeaderText) <= HeaderLength
    /\ Damageable \subseteq Sources
    /\ Typo \subseteq Char

VARIABLES
    source, start,   \* the program and its start address
    cl, outidx,      \* the line and the byte of it that is next
    lastaddr,        \* the address of the last byte fetched
    recaddr, recdata,  \* the record being filled
    reccnt,          \* records of data written; -1: no header either
    file,            \* the lines on disk
    damaged,         \* the line that was damaged, or 0
    phase,           \* what the host does: it assembles, loads, runs or has given up
    next,            \* the line it loads next
    failed           \* history: the assembly failed

writer == << cl, outidx, lastaddr, recaddr, recdata, reccnt >>
fileVars == << source, start, writer, file, damaged, phase, next, failed, loaderVars >>

-----------------------------------------------------------------------------
FileInit ==
    /\ LoaderInit
    /\ source \in Sources /\ start \in Starts
    /\ cl = 1 /\ outidx = 0 /\ lastaddr = -2
    /\ recaddr = 0 /\ recdata = << >> /\ reccnt = -1
    /\ file = << >> /\ damaged = 0 /\ phase = "assemble" /\ next = 1 /\ failed = FALSE

DataLine == LineOf(1, HighLow(recaddr) \o recdata)

(* What is printed when a record is finished, and how many that makes *)
HeaderLines == IF reccnt < 0 THEN << LineOf(0, << 0, 0 >> \o HeaderText) >> ELSE << >>
DataLines == IF recdata = << >> THEN << >> ELSE << DataLine >>

Outaddr == source[cl].addr + outidx

(* A record that goes on at the next byte wherever that is *)
StartsAtBoundary == lastaddr = -2 \/ Outaddr % RecordLength = 0

(* A record that is as long as the bytes follow one another *)
StartsAtJump == Outaddr # lastaddr + 1

(* A byte that does not follow the one before starts a record, and so does *)
(* one at a multiple of 16.                                                *)
StartsRecord == Outaddr # lastaddr + 1 \/ Outaddr % RecordLength = 0

(* fetch_output_byte finds a byte. *)
WriteByte ==
    /\ phase = "assemble" /\ cl <= Len(source) /\ outidx < Len(source[cl].output)
    /\ lastaddr' = Outaddr /\ outidx' = outidx + 1
    /\ LET byte == source[cl].output[outidx + 1]
       IN  IF StartsRecord
           THEN /\ file' = file \o HeaderLines \o DataLines
                /\ reccnt' = (IF reccnt < 0 THEN 0 ELSE reccnt) + Len(DataLines)
                /\ recaddr' = Outaddr /\ recdata' = << byte >>
           ELSE recdata' = Append(recdata, byte) /\ UNCHANGED << file, reccnt, recaddr >>
    /\ UNCHANGED << source, start, cl, damaged, phase, next, failed, loaderVars >>

(* fetch_output_byte finds no more on this line. *)
WriteNextLine ==
    /\ phase = "assemble" /\ cl <= Len(source) /\ outidx >= Len(source[cl].output)
    /\ cl' = cl + 1 /\ outidx' = 0
    /\ UNCHANGED << source, start, lastaddr, recaddr, recdata, reccnt, file, damaged, phase,
                    next, failed, loaderVars >>

(* The records that close a file of n records of data *)
Trailer(n) == IF n > 0 THEN << LineOf(5, HighLow(n)), LineOf(9, HighLow(start)) >> ELSE << >>

WriteEnd ==
    /\ phase = "assemble" /\ cl > Len(source)
    /\ reccnt' = reccnt + Len(DataLines)
    /\ file' = file \o DataLines \o Trailer(reccnt')
    /\ phase' = "load"
    /\ LoadStart
    /\ UNCHANGED << source, start, cl, outidx, lastaddr, recaddr, recdata, damaged, next, failed >>

(* The assembly fails: main() says so and goes on. *)
AssemblyFails ==
    /\ phase = "assemble" /\ cl = 1 /\ outidx = 0
    /\ file' = StaleFile /\ failed' = TRUE
    /\ phase' = "load"
    /\ LoadStart
    /\ UNCHANGED << source, start, writer, damaged, next >>

-----------------------------------------------------------------------------
(* External: on its way a line loses a character it should have, gets two  *)
(* neighbours swapped, or is cut off.  Only characters behind the count:   *)
(* nothing protects the type, and a smaller count may fit by chance.       *)
Retyped(line, i, c) == [line EXCEPT ![i] = c]
Swapped(line, i) == [line EXCEPT ![i] = line[i + 1], ![i + 1] = line[i]]
Damages(line) ==
    {Retyped(line, i, c) : i \in 5 .. Len(line), c \in Typo}
      \cup {Swapped(line, i) : i \in 5 .. Len(line) - 1}
      \cup {SubSeq(line, 1, i) : i \in 0 .. Len(line) - 1}

Damage ==
    /\ phase = "load" /\ damaged = 0 /\ ~failed /\ next = 1
    /\ source \in Damageable
    /\ \E i \in DOMAIN file : \E line \in Damages(file[i]) \ {file[i]} :
          /\ file' = [file EXCEPT ![i] = line]
          /\ damaged' = i
    /\ UNCHANGED << source, start, writer, phase, next, failed, loaderVars >>

-----------------------------------------------------------------------------
(* main() hands the loader a line.  An empty file is a line it refuses. *)
ReadLine ==
    /\ phase = "load" /\ (next <= Len(file) \/ file = << >>)
    /\ LET r == ParseLine(IF file = << >> THEN << >> ELSE file[next])
       IN  IF r.type = Refused
           THEN phase' = "given up" /\ UNCHANGED << next, loaderVars >>
           ELSE next' = next + 1 /\ LoadLine(r) /\ UNCHANGED phase
    /\ UNCHANGED << source, start, writer, file, damaged, failed >>

(* Behind the last line the program starts. *)
StartProgram ==
    /\ phase = "load" /\ file # << >> /\ next > Len(file)
    /\ phase' = "run"
    /\ LoadEnd
    /\ UNCHANGED << source, start, writer, file, damaged, next, failed >>

FileNext ==
    \/ WriteByte \/ WriteNextLine \/ WriteEnd \/ AssemblyFails
    \/ Damage
    \/ ReadLine \/ StartProgram

FileSpec == FileInit /\ [][FileNext]_fileVars

-----------------------------------------------------------------------------
(* The bytes of the program, in order, with their addresses *)
ProgramBytes == FlattenSeq([i \in DOMAIN source |->
                   [k \in 1 .. Len(source[i].output) |->
                      << source[i].addr + k - 1, source[i].output[k] >>]])

(* What the program leaves at an address, if anything *)
LeftAt(a) == {b[2] : b \in {ProgramBytes[i] : i \in
                {i \in DOMAIN ProgramBytes :
                   /\ ProgramBytes[i][1] = a
                   /\ \A j \in DOMAIN ProgramBytes : ProgramBytes[j][1] = a => j <= i}}}

(* A program that runs is the one assembled: every byte is where the      *)
(* source put it, later lines over earlier ones, nothing else in memory   *)
(* changed, and it starts where the source says; however the lines jump,  *)
(* overlap or cross the records of 16 (output.c:376-550, main.cpp:184-198). *)
ProgramArrives ==
    phase = "run" /\ ~failed =>
        /\ \A a \in RamAddr : IF LeftAt(a) = {} THEN ram[a] = before[a] ELSE ram[a] \in LeftAt(a)
        /\ recStart = start
        /\ startAddrSet

(* A line that was damaged behind its count, one digit wrong, two swapped *)
(* or the end missing, is refused where it stands: what was loaded are    *)
(* the lines before it, and nothing of it reached memory.                 *)
DamageStopsLoad ==
    damaged # 0 =>
        /\ phase # "run"
        /\ next <= damaged
        /\ phase = "given up" => next = damaged /\ Len(accepted) = damaged - 1

(* A record never outgrows the 16 bytes of recdata, whatever lines it is  *)
(* filled from (output.c:455,513), and it holds the last bytes fetched,   *)
(* at consecutive addresses behind recaddr.                               *)
RecordFits ==
    /\ Len(recdata) <= RecordLength
    /\ recdata # << >> => lastaddr = recaddr + Len(recdata) - 1
                          /\ recaddr \div RecordLength = lastaddr \div RecordLength
=============================================================================
