----------------------------- MODULE SRecordLine -----------------------------
(***************************************************************************)
(* One line of an S-record file: what SRecordParser::ParseLine (srec.cpp)  *)
(* makes of its characters, and the lines the assembler writes             *)
(* (write_code_srec, lwasm's output.c).                                    *)
(*                                                                         *)
(* A line is a sequence of characters: 0 to 15 are the hexadecimal digits, *)
(* of either case, S is the letter, Other any other character: the end of  *)
(* the line and the NUL behind it among them.                              *)
(*                                                                         *)
(* A count above 71 (data[70], srec.cpp:213) or an S1 line whose count has *)
(* no room for the address (srec.cpp:286) is outside the model: the lines  *)
(* of the assembler have none.                                             *)
(***************************************************************************)
EXTENDS Integers, SequencesExt

S == 16
Other == 17
Digit == 0 .. 15
Char == 0 .. 17

-----------------------------------------------------------------------------
CharAt(line, i) == IF i \in DOMAIN line THEN line[i] ELSE Other

(* GetByte and GetNibble: byte k of a line, its count being byte 0 *)
HasByte(line, k) == {CharAt(line, 2 * k + 3), CharAt(line, 2 * k + 4)} \subseteq Digit
ByteAt(line, k) == 16 * line[2 * k + 3] + line[2 * k + 4]

Count(line) == ByteAt(line, 0)
Payload(line) == [k \in 1 .. Count(line) - 1 |-> ByteAt(line, k)]

(* The complement of the sum of the count and the bytes behind it *)
Checksum(bytes) == 255 - ((Len(bytes) + 1 + FoldLeft(+, 0, bytes)) % 256)

(* A line that is not compared with its checksum *)
IsReadable(line) ==
    /\ CharAt(line, 1) = S /\ CharAt(line, 2) \in 0 .. 9
    /\ HasByte(line, 0)
    /\ \A k \in 1 .. Count(line) : HasByte(line, k)

(* A count of 0 is read like 1, but goes into the sum as it is. *)
IsIntact(line) ==
    /\ CharAt(line, 1) = S /\ CharAt(line, 2) \in 0 .. 9
    /\ HasByte(line, 0)
    /\ \A k \in 1 .. Count(line) : HasByte(line, k)
    /\ IF Count(line) = 0
       THEN HasByte(line, 1) /\ ByteAt(line, 1) = 255
       ELSE ByteAt(line, Count(line)) = Checksum(Payload(line))

AddrLen(type) == IF type \in 1 .. 3 THEN type + 1 ELSE 11 - type

Number(bytes) == FoldLeft(LAMBDA n, b : 256 * n + b, 0, bytes)

Refused == "refused"

(* The record of a line; its data is << >> unless it is one of data. *)
ParseLine(line) ==
    IF ~IsIntact(line) \/ line[2] \in {4, 6} THEN [type |-> Refused]
    ELSE LET n == AddrLen(line[2])
             addr == Number(SubSeq(Payload(line), 1, n))
         IN  CASE line[2] = 0       -> [type |-> "S0", addr |-> 0, data |-> << >>]
               [] line[2] \in 1 .. 3 -> [type |-> "S1", addr |-> addr,
                                         data |-> SubSeq(Payload(line), n + 1, Count(line) - 1)]
               [] line[2] = 5       -> [type |-> "S5", addr |-> 0, data |-> << >>]
               [] line[2] \in 7 .. 9 -> [type |-> "S9", addr |-> addr, data |-> << >>]

-----------------------------------------------------------------------------
(* The line the assembler prints for a type and the bytes behind the count *)
Hex(bytes) == FlattenSeq([i \in DOMAIN bytes |-> << bytes[i] \div 16, bytes[i] % 16 >>])

LineOf(type, bytes) ==
    << S, type >> \o Hex(<< Len(bytes) + 1 >> \o bytes \o << Checksum(bytes) >>)

HighLow(word) == << (word \div 256) % 256, word % 256 >>
=============================================================================
