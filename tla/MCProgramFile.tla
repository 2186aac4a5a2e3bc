---------------------------- MODULE MCProgramFile ----------------------------
(***************************************************************************)
(* Programs whose lines jump back and forth, overlap, leave room, cross a  *)
(* record boundary and fill a record.                                      *)
(***************************************************************************)
EXTENDS ProgramFile

MCRamAddr == 0 .. 40
MCByte == 0 .. 255

Out(addr, output) == [addr |-> addr, output |-> output]
Bytes(n) == [k \in 1 .. n |-> (16 * k + 3) % 256]

MCLines == {Out(0, << 18 >>), Out(1, << 134, 10 >>), Out(14, << 57, 0, 255 >>), Out(17, << 240 >>),
            Out(15, << >>), Out(15, Bytes(18)), Out(32, << 7, 8 >>)}
(* Short programs, every damage of which is tried *)
MCShort == {<< Out(0, << 18 >>), Out(1, << 134, 10 >>) >>,
            << Out(14, << 57, 0, 255 >>), Out(15, << 240 >>) >>,
            << Out(32, << 7, 8 >>), Out(1, << 170, 171 >>) >>}

MCSources == {<< a, b, c >> : a, b, c \in MCLines} \cup MCShort \cup {<< >>, << Out(3, << >>) >>}

MCHeaderText == << 91, 93, 32 >>
MCStaleFile == << LineOf(0, << 0, 0 >> \o MCHeaderText), LineOf(1, << 0, 3, 1, 2 >>),
                  LineOf(5, HighLow(1)), LineOf(9, HighLow(3)) >>

MCDigits == 0 .. 17
=============================================================================
