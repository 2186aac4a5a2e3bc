----------------------------- MODULE MCConsole ------------------------------
(***************************************************************************)
(* Two characters; the words are the commands and the records at once, as  *)
(* a line means what the state of the monitor makes of it.  "ba" is a      *)
(* command and no record, "bb" a record and no command, a third character  *)
(* fills the buffer, and the key behind it gives up the line.              *)
(***************************************************************************)
EXTENDS Console

MCRamAddr == 0 .. 1

Rec(type, addr, data) == [type |-> type, addr |-> addr, data |-> data]

Data  == Rec("S1", 1, << 1 >>)
Start == Rec("S9", 0, << >>)
MCRecords == {Data, Start}

a == "a"
b == "b"
MCChar == {a, b}

MCCommandLines ==
    [l \in {<< a >>, << b >>, << b, a >>} |->
        CASE l = << a >> -> "ld" [] l = << b >> -> "r" [] OTHER -> "s"]
MCRecordLines ==
    [l \in {<< a >>, << b, b >>} |-> IF l = << a >> THEN Data ELSE Start]
=============================================================================
