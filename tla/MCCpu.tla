-------------------------------- MODULE MCCpu --------------------------------
(***************************************************************************)
(* Instances of Cpu.  A program lies at address Base and ends with an      *)
(* illegal opcode; the stacks lie below it, the data above.                *)
(***************************************************************************)
EXTENDS Cpu, SequencesExt

Base == 512
Data == 1024
End == <<1>>

At(a, bytes) == [x \in a .. a + Len(bytes) - 1 |-> bytes[x - a + 1]]
Both(f, g) == [x \in DOMAIN f \cup DOMAIN g |-> IF x \in DOMAIN f THEN f[x] ELSE g[x]]
Program(bytes) == At(Base, bytes \o End)
CodeAddresses == Base .. Base + 40

Registers0(a, b, x, y, u, s) ==
    [A |-> a, B |-> b, X |-> x, Y |-> y, U |-> u, S |-> s, PC |-> Base, DP |-> Data \div 256]

-----------------------------------------------------------------------------
(* Every instruction: every opcode behind no prefix and each of them, with *)
(* several operands, and every postbyte.                                   *)
PrefixBytes == {<<>>, <<16>>, <<17>>}
Operands == {<<0, 8, 2>>, <<4, 0, 255>>, <<255, 254, 7>>, <<18, 133, 129>>, <<251, 255, 0>>}
SomePosts == {<<31, 1, 2>>, <<129, 1, 2>>, <<148, 1, 2>>, <<141, 255, 250>>, <<237, 0, 4>>}
PostOpcodes == {48, 51, 163, 227}
DataBytes == At(Data, <<128, 1, 0, 0, 127, 255, 2, 3, 255, 255>>)

EveryInstruction ==
    {Both(Program(p \o <<i>> \o t), DataBytes) : p \in PrefixBytes, i \in 0 .. 255, t \in Operands}
    \cup {Both(Program(p \o <<i>> \o t), DataBytes) :
             p \in PrefixBytes, i \in {i \in 0 .. 255 : opcode(i).adr = "Indexed"}, t \in SomePosts}
    \cup {Both(Program(p \o <<i, post>> \o <<254, 3>>), DataBytes) :
             p \in PrefixBytes, i \in PostOpcodes, post \in 0 .. 255}
SomeRegisters == {Registers0(128, 255, Data, Data + 4, 200, 300),
                  Registers0(0, 3, Data + 8, 32769, Data + 2, 32768)}

-----------------------------------------------------------------------------
(* Stacks: every program of a few instructions that push, pull, call,      *)
(* return, interrupt and change registers, in a loop.                      *)
StackInstructions ==
    {<<52, 7>>,          \* PSHS CC,A,B
     <<53, 7>>,          \* PULS CC,A,B
     <<52, 80>>,         \* PSHS X,U
     <<53, 80>>,         \* PULS X,U
     <<54, 66>>,         \* PSHU S,A
     <<55, 66>>,         \* PULU S,A
     <<141, 0>>,         \* BSR to the next instruction
     <<57>>,             \* RTS
     <<63>>,             \* SWI
     <<59>>,             \* RTI
     <<139, 57>>}        \* ADDA #57

Loop(bytes) == bytes \o <<32, 254 - Len(bytes)>>
Flat(instructions) == FoldLeft(LAMBDA x, i : x \o i, <<>>, instructions)
Vectors == At(65522, <<2, 30, 2, 30, 0, 0, 0, 0, 2, 30>>)
Handler == At(Base + 30, <<139, 1, 52, 2, 53, 2, 59>>)
StackPrograms ==
    {Both(Both(Program(Loop(Flat(is))), Vectors), Handler) : is \in [1 .. 4 -> StackInstructions]}
StackRegisters == {Registers0(1, 2, 772, 1286, 200, 300)}

-----------------------------------------------------------------------------
(* System functions: a program that pushes its arguments and calls each of *)
(* them.                                                                   *)
High(n) == n \div 256
Low(n) == n % 256
CallOf(func) == <<189, High(func), Low(func)>>
PushX(n) == <<142, High(n), Low(n), 52, 16>>
AllFunctions == Known \cup {exit, mon, Function(4)}
Arguments == {0, 1, 3, 32767, 32768, 65535, 510, 65023, 32769, 255}
CallPrograms ==
    {Program(PushX(c) \o PushX(b) \o PushX(a) \o CallOf(func)) :
        a \in {Data} , b \in 0 .. 4, c \in {0}, func \in AllFunctions}
    \cup {Program(PushX(b) \o PushX(a) \o CallOf(func)) :
             a \in Arguments, b \in Arguments, func \in {idiv8, idiv16, udiv8, udiv16}}
CallRegisters == {Registers0(65, 66, 0, 772, 200, 300)}

From(memories, registers) == [ram : memories, regs : registers]
MCStarts == From(EveryInstruction, SomeRegisters) \cup From(StackPrograms, StackRegisters)
            \cup From(CallPrograms, CallRegisters)

MCInputs == {65, 255}
MCTexts == {<<>>, <<65>>, <<65, 66>>, <<65, 66, 67>>}

(* Records over the data, over the frame of a call in CallPrograms, which *)
(* is at 288 to 293, over one byte of the U in it, and in the system area *)
MCRecords ==
    {[addr |-> Data, data |-> <<1, 2, 3>>], [addr |-> 286, data |-> <<1, 2, 3, 4, 5, 6, 7, 8>>],
     [addr |-> 289, data |-> <<9>>], [addr |-> 65530, data |-> <<7, 7>>]}
=============================================================================
