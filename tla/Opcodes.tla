------------------------------- MODULE Opcodes -------------------------------
(***************************************************************************)
(* opcodeTable[] of MC6809.cpp: for each first byte of an instruction the  *)
(* operation, its register, what is loaded and stored around it, its       *)
(* address mode and its cycles.  The table is regular: rows 0 and 4 to 7   *)
(* hold the operations on one byte, rows 8 to F those on an accumulator or *)
(* a 16 bit register and an operand.                                       *)
(***************************************************************************)
EXTENDS Integers, Sequences

Opcode(op, reg, left, right, adr, cycles) ==
    [op |-> op, reg |-> reg, left |-> left, right |-> right, adr |-> adr, cycles |-> cycles]
Plain(op, adr, cycles) == Opcode(op, "None", "None", "None", adr, cycles)
Ill == Plain("ILL", "None", 0)

Row(i) == i \div 16
Col(i) == i % 16

(* Rows 0, 4, 5, 6, 7 *)
UnaryOps == <<"NEG", "ILL", "ILL", "COM", "LSR", "ILL", "ROR", "ASR", "ASL", "ROL", "DEC", "ILL",
              "INC", "TST", "JMP", "CLR">>
Unary(i) ==
    LET op == UnaryOps[Col(i) + 1]
        adr == CASE Row(i) = 0 -> "Direct" [] Row(i) = 6 -> "Indexed" [] Row(i) = 7 -> "Extended"
                 [] OTHER -> "Inherent"
        reg == CASE Row(i) = 4 -> "A" [] Row(i) = 5 -> "B" [] OTHER -> "M8"
        left == CASE op = "TST" -> "Ld" [] op = "CLR" -> "St" [] OTHER -> "LdSt"
        cycles == CASE adr = "Inherent" -> 2 [] adr = "Extended" -> 7 [] OTHER -> 6
    IN  IF op = "ILL" \/ (op = "JMP" /\ adr = "Inherent") THEN Ill
        ELSE IF op = "JMP" THEN Plain("JMP", adr, IF adr = "Extended" THEN 4 ELSE 3)
        ELSE Opcode(op, reg, left, "None", adr, cycles)

Row1 == <<Plain("Page2", "None", 0), Plain("Page3", "None", 0), Plain("NOP", "Inherent", 2),
          Plain("SYNC", "Inherent", 4), Ill, Ill, Plain("BRA", "RelL", 5), Plain("BSR", "RelL", 9),
          Ill, Plain("DAA", "Inherent", 2), Plain("ORCC", "Immed8", 3), Ill,
          Plain("ANDCC", "Immed8", 3), Plain("SEX", "Inherent", 2), Plain("EXG", "Immed8", 8),
          Plain("TFR", "Immed8", 6)>>

Branches == <<"BRA", "BRN", "BHI", "BLS", "BHS", "BLO", "BNE", "BEQ", "BVC", "BVS", "BPL", "BMI",
              "BGE", "BLT", "BGT", "BLE">>
Branch(i) == Plain(Branches[Col(i) + 1], IF Col(i) = 0 THEN "Rel" ELSE "RelP", 3)

Lea(r) == Opcode("LEA", r, "St", "None", "Indexed", 4)
Stacking(op, r) == Opcode(op, r, "None", "None", "Immed8", 5)
Row3 == <<Lea("X"), Lea("Y"), Lea("S"), Lea("U"),
          Stacking("PSH", "S"), Stacking("PUL", "S"), Stacking("PSH", "U"), Stacking("PUL", "U"),
          Ill, Plain("RTS", "Inherent", 5), Plain("ABX", "Inherent", 3), Plain("RTI", "Inherent", 6),
          Plain("CWAI", "Inherent", 20), Plain("MUL", "Inherent", 11), Ill,
          Plain("SWI", "Inherent", 19)>>

(* Rows 8 to B, and C to F *)
OpsOnA == <<"SUB8", "CMP8", "SBC", "SUB16", "AND", "BIT", "LD8", "ST8", "EOR", "ADC", "OR", "ADD8",
            "CMP16", "JSR", "LD16", "ST16">>
OpsOnB == [OpsOnA EXCEPT ![4] = "ADD16", ![13] = "LD16", ![14] = "ST16"]

Binary(i) ==
    LET onA == Row(i) < 12
        op == IF onA THEN OpsOnA[Col(i) + 1] ELSE OpsOnB[Col(i) + 1]
        wide == op \in {"SUB16", "ADD16", "CMP16", "LD16", "ST16"}
        immediate == Row(i) % 4 = 0
        adr == CASE immediate -> IF wide THEN "Immed16" ELSE "Immed8"
                 [] Row(i) % 4 = 1 -> "Direct" [] Row(i) % 4 = 2 -> "Indexed"
                 [] Row(i) % 4 = 3 -> "Extended"
        reg == IF op = "SUB16" THEN "DDU"
               ELSE IF op = "CMP16" THEN IF i = 156 THEN "X" ELSE "XYS"
               ELSE IF wide THEN IF onA THEN "XY" ELSE IF Col(i) < 14 THEN "D" ELSE "US"
               ELSE IF onA THEN "A" ELSE "B"
        left == CASE op \in {"CMP8", "BIT", "ST8", "SUB16", "CMP16", "ST16"} -> "Ld"
                  [] op \in {"LD8", "LD16"} -> "St"
                  [] OTHER -> "LdSt"
        right == IF op = "ST8" THEN "St8" ELSE IF op = "ST16" THEN "St16"
                 ELSE IF immediate THEN "None"
                 ELSE IF wide /\ i # 156 THEN "Ld16" ELSE "Ld8"
        base == CASE immediate -> 2 [] Row(i) % 4 = 3 -> 5 [] OTHER -> 4
        cycles == CASE op \in {"SUB16", "ADD16", "CMP16"} -> base + 2
                    [] op \in {"LD16", "ST16"} -> base + 1
                    [] OTHER -> base
    IN  IF i = 141 THEN Plain("BSR", "Rel", 7)
        ELSE IF immediate /\ op \in {"ST8", "ST16"} THEN Ill
        ELSE IF op = "JSR" THEN Plain("JSR", adr, base + 3)
        ELSE Opcode(op, reg, left, right, adr, cycles)

opcodeTable == [i \in 0 .. 255 |->
    CASE Row(i) \in {0, 4, 5, 6, 7} -> Unary(i)
      [] Row(i) = 1 -> Row1[Col(i) + 1]
      [] Row(i) = 2 -> Branch(i)
      [] Row(i) = 3 -> Row3[Col(i) + 1]
      [] Row(i) > 7 -> Binary(i)]
opcode(i) == opcodeTable[i]

(* IdxMode: the addressing an indexed instruction's postbyte asks for *)
IdxMode(post) ==
    LET k == post % 16
    IN  IF post < 128 THEN "Const5"
        ELSE CASE k = 4 -> "ConstRegNoOff" [] k = 8 -> "ConstReg8Off" [] k = 9 -> "ConstReg16Off"
               [] k = 6 -> "AccAOffReg" [] k = 5 -> "AccBOffReg" [] k = 11 -> "AccDOffReg"
               [] k = 0 -> "Inc1Reg" [] k = 1 -> "Inc2Reg" [] k = 2 -> "Dec1Reg"
               [] k = 3 -> "Dec2Reg" [] k = 12 -> "ConstPC8Off" [] k = 13 -> "ConstPC16Off"
               [] k = 15 -> "Extended" [] OTHER -> "none"
IdxReg(post) == <<"X", "Y", "U", "S">>[((post \div 32) % 4) + 1]
IsIndirect(post) == post >= 128 /\ (post \div 16) % 2 = 1
=============================================================================
