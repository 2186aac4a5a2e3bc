---------------------------- MODULE Disassembler ----------------------------
(***************************************************************************)
(* DisplayInst::instToString(): what the monitor shows of the instruction  *)
(* at an address, and the address it says the next one has.  Of the text   *)
(* the parts are kept, not the layout: operation, register, the number     *)
(* shown, and of an indexed instruction index, offset register, automatic  *)
(* step and brackets.                                                      *)
(***************************************************************************)
EXTENDS Machine

(* A register that has no name shows as nothing. *)
regToString(reg, prev) ==
    LET r == Paged(reg, prev) IN IF r \in {"None", "M8", "M16"} THEN "" ELSE r

Listing(next, op, reg, adr, number) ==
    [next |-> Wrap(next), op |-> op, reg |-> reg, adr |-> adr, number |-> number, index |-> "",
     offsetReg |-> "", step |-> 0, indirect |-> FALSE]

(* The 5 bit offset is extended to 8 bits in a variable of 16. *)
ShownOffset5(post) == IF (post % 32) >= 16 THEN 224 + (post % 32) ELSE post % 32

ShownOffset(m, post, a) ==
    LET mode == IdxMode(post)
    IN  CASE mode = "Const5" -> ShownOffset5(post)
          [] mode \in {"ConstReg8Off", "ConstPC8Off"} -> Signed8(load8(m, a))
          [] mode \in {"ConstReg16Off", "Extended"} -> Signed16(load16(m, a))
          [] mode = "ConstPC16Off" -> Signed16(Wrap(m.PC + load16(m, a)))
          [] mode \notin {"Const5", "ConstReg8Off", "ConstPC8Off", "ConstReg16Off",
                          "ConstPC16Off", "Extended"} -> 0

(* The postbyte is at a. *)
ListIndexed(m, a, op, reg) ==
    LET post == load8(m, a)
        mode == IdxMode(post)
        index == IF mode = "Extended" THEN ""
                 ELSE IF mode \in {"ConstPC8Off", "ConstPC16Off"} THEN "PC"
                 ELSE IdxReg(post)
        offsetReg == IF mode = "AccAOffReg" THEN "A" ELSE IF mode = "AccBOffReg" THEN "B"
                     ELSE IF mode = "AccDOffReg" THEN "D" ELSE ""
        line == Listing(a + 1 + IndexedLength(mode), op, reg, "Indexed",
                        ShownOffset(m, post, Wrap(a + 1)))
    IN  [line EXCEPT !.index = index, !.offsetReg = offsetReg, !.step = IndexedStep(mode),
                     !.indirect = IsIndirect(post)]

(* The instruction of row o whose opcode is at a, behind the prefix prev  *)
ListRow(m, a, prev, o) ==
    LET op == IF prev \in Pages /\ o.op = "SUB16" THEN "CMP16" ELSE o.op
        reg == regToString(o.reg, prev)
        b == Wrap(a + 1)
    IN  CASE o.adr \in {"None", "Inherent"} -> Listing(b, op, reg, o.adr, 0)
          [] o.adr \in {"Direct", "Immed8"} -> Listing(b + 1, op, reg, o.adr, load8(m, b))
          [] o.adr \in {"Extended", "Immed16"} -> Listing(b + 2, op, reg, o.adr, load16(m, b))
          [] o.adr = "RelL" \/ (o.adr = "RelP" /\ prev = "Page2") ->
                Listing(b + 2, op, reg, "RelL", Signed16(load16(m, b)))
          [] o.adr = "Rel" \/ (o.adr = "RelP" /\ prev # "Page2") ->
                Listing(b + 1, op, reg, "Rel", Signed8(load8(m, b)))
          [] o.adr = "Indexed" -> ListIndexed(m, b, op, reg)
ListAt(m, a, prev) == ListRow(m, a, prev, opcode(load8(m, a)))

(* One prefix is looked behind, not two. *)
instToString(m, a) ==
    LET first == opcode(load8(m, a)).op
    IN  IF first \in Pages THEN ListAt(m, Wrap(a + 1), first) ELSE ListAt(m, a, "other")

(* The registers PSH and PUL list for a mask *)
ShownRegisters(s, mask) ==
    LET pushRegs == <<"CC", "A", "B", "DP", "X", "Y", "S", "PC">>
        Shown(r) == IF r = "S" /\ s = "S" THEN "U" ELSE r
    IN  {Shown(pushRegs[i]) : i \in {j \in 1 .. 8 : Bit(mask, Bits[9 - j]) = 1}}
=============================================================================
