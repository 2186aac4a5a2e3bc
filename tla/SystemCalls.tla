----------------------------- MODULE SystemCalls -----------------------------
(***************************************************************************)
(* BOSS9Base::call(): the system functions a program reaches by a JSR or a *)
(* JMP to an address of the read-only area, as operators from the machine  *)
(* with the frame execute() pushed (the words self, return address and U,  *)
(* with U pointing at them) to the set of outcomes.  ok is what call()     *)
(* returns.                                                                *)
(*                                                                         *)
(* What is printed is left out.  What ldLine makes of a line, and the      *)
(* loader's own state, are the modules SRecordLine, Loader and Console;    *)
(* here it answers, and stores the record if the line has one.             *)
(***************************************************************************)
EXTENDS Machine, Sequences

CONSTANTS Inputs,     \* what getc reads
          Texts,      \* what the formatter (an external library) makes of a format string
          Records,    \* the records of the lines at X; bound: within memory
          StartAddr   \* _startAddr, of the host's last load: ldEnd drops the loader's

(* The bytes of memory a record is for *)
RecordCells(r) == r.addr .. r.addr + Len(r.data) - 1

ASSUME CallAssumption ==
    /\ Inputs \subseteq Byte /\ Texts \subseteq Seq(1 .. 255) /\ StartAddr \in Word
    /\ \A r \in Records : r.addr \in Word /\ r.data \in Seq(Byte) /\ RecordCells(r) \subseteq MemAddr
    /\ SystemAddrStart + 74 \in Word   \* the last function's address

Function(a) == SystemAddrStart + a
putc    == Function(0)
puts    == Function(2)
getc    == Function(6)
exit    == Function(14)
mon     == Function(16)
ldStart == Function(18)
ldLine  == Function(20)
ldEnd   == Function(22)
printf  == Function(32)
format  == Function(34)
switch1 == Function(64)
switch2 == Function(66)
idiv8   == Function(68)
idiv16  == Function(70)
udiv8   == Function(72)
udiv16  == Function(74)

Outcome(m, ok) == [m |-> m, ok |-> ok]

(* An argument lies behind the three words of the frame; behind two, by   *)
(* mistake, in the first definition.                                       *)
getArgTwoWords(m, offset, bytes) ==
    LET a == Wrap(m.U + 4 + offset)
    IN  IF bytes = 2 THEN 256 * load8(m, a) + load8(m, Wrap(a + 1)) ELSE load8(m, a)
getArg(m, offset, bytes) ==
    LET a == Wrap(m.U + 6 + offset)
    IN  IF bytes = 2 THEN 256 * load8(m, a) + load8(m, Wrap(a + 1)) ELSE load8(m, a)

(* InterpFormatArgs::putChar for each character and then for the zero at  *)
(* the end: none is written from the last byte of the buffer on.           *)
FormatInto(m, s, n, text) ==
    LET all == Append(text, 0)
        count == IF Len(all) < n THEN Len(all) ELSE IF n = 0 THEN 0 ELSE n - 1
        At(a) == Wrap(a - s) + 1
        written == {a \in {Wrap(s + i - 1) : i \in 1 .. count} : a < SystemAddrStart}
    IN  [m EXCEPT !.ram = [a \in DOMAIN m.ram \cup written |->
                              IF a \in written THEN all[At(a)] ELSE m.ram[a]]]

(* Division of the host, which rounds towards 0 *)
Magnitude(n) == IF n < 0 THEN -n ELSE n
Divided(a, b) ==
    LET q == Magnitude(a) \div Magnitude(b) IN IF (a < 0) # (b < 0) THEN -q ELSE q

Quotient(func, a, b) ==
    IF func = idiv8 THEN Divided(Signed8(a), Signed8(b))
    ELSE IF func = idiv16 THEN Divided(Signed16(a), Signed16(b))
    ELSE a \div b

(* The result of a division by zero is whatever the host's is, if the     *)
(* emulator survives it at all.                                            *)
DivisionByZero == {0, MaxWord}

Divide(m, func) ==
    LET bytes == IF func \in {idiv16, udiv16} THEN 2 ELSE 1
        dividend == getArg(m, 0, bytes)
        divisor == getArg(m, bytes, bytes)
        quotients == IF divisor = 0 THEN DivisionByZero
                     ELSE {Wrap(Quotient(func, dividend, divisor))}
    IN  {Outcome(setReg(m, IF bytes = 2 THEN "D" ELSE "A", q), TRUE) : q \in quotients}

(* loadLine() copies a record of data into memory, wherever that is: over  *)
(* the call's own frame, and into the area no instruction writes.          *)
StoreRecord(m, r) ==
    [m EXCEPT !.ram = [a \in DOMAIN m.ram \cup RecordCells(r) |->
                          IF a \in RecordCells(r) THEN r.data[a - r.addr + 1] ELSE m.ram[a]]]

(* A line that is refused, or has no data, leaves memory alone.  finished, *)
(* a local of call(), stays uninitialised when the line is refused, and    *)
(* else says whether the loader has seen a start address.                  *)
Answered(m, good, finished) == Outcome([m EXCEPT !.A = good, !.B = finished], TRUE)
LineOutcomes(m) ==
    {Answered(m, good, finished) : good \in 0 .. 1, finished \in 0 .. 1}
    \cup {Answered(StoreRecord(m, r), 1, finished) : r \in Records, finished \in 0 .. 1}

Call(m, func) ==
    IF func \in {putc, puts, ldStart, ldEnd, printf} THEN {Outcome(m, TRUE)}
    ELSE IF func = getc THEN {Outcome([m EXCEPT !.A = c], TRUE) : c \in Inputs}
    ELSE IF func = ldLine THEN LineOutcomes(m)
    ELSE IF func = format
         THEN {Outcome(FormatInto(m, getArg(m, 0, 2), getArg(m, 2, 2), text), TRUE) :
                  text \in Texts}
    ELSE IF func \in {switch1, switch2} THEN {Outcome([m EXCEPT !.X = exit], TRUE)}
    ELSE IF func \in {idiv8, idiv16, udiv8, udiv16} THEN Divide(m, func)
    ELSE IF func = exit THEN {Outcome([m EXCEPT !.PC = StartAddr], FALSE)}
    ELSE {Outcome(m, FALSE)}
=============================================================================
