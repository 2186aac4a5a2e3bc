----------------------------- MODULE CommandLine -----------------------------
(***************************************************************************)
(* What a complete line does in the monitor: parseCmd() splits it into     *)
(* words, toNum() reads its numbers, and executeCommand() obeys or refuses *)
(* it (BOSS9.cpp).  Console has the keys that make the line, Debugger what *)
(* the program does that a command starts.                                 *)
(*                                                                         *)
(* A line is a sequence of characters, in lower case as parseCmd leaves    *)
(* them; the name of a command or register is one of them.  A hexadecimal  *)
(* number has no 0x behind its $.  help, regs and cycles only print, and   *)
(* are left out.                                                           *)
(***************************************************************************)
EXTENDS Breakpoints, Integers, SequencesExt

CONSTANTS
    Users,          \* the users: the lines they enter, the characters they type otherwise
    MaxLine,        \* bound: characters typed
    Registers,      \* the registers "reg" knows besides PC and D: from names to their size
    LongMax,        \* the largest number strtol reads
    NumModulus,     \* 2^32, of a uint32_t
    AddrModulus,    \* 2^16, of an address
    IndexModulus    \* 2^8, of the index of a breakpoint

Space == " "
DigitValue == [c \in {"0", "1", "2", "5", "6", "9", "f"} |->
    CASE c = "0" -> 0 [] c = "1" -> 1 [] c = "2" -> 2 [] c = "5" -> 5 [] c = "6" -> 6
      [] c = "9" -> 9 [] c = "f" -> 15]

ASSUME CommandAssumption ==
    /\ \A u \in Users : u.lines \subseteq Seq(STRING) /\ u.alphabet \subseteq STRING
    /\ Addr = 0 .. AddrModulus - 1
    /\ \A r \in DOMAIN Registers : Registers[r] \in {IndexModulus, AddrModulus}
    /\ {LongMax, NumModulus, AddrModulus, IndexModulus, MaxLine} \subseteq Nat \ {0}

VARIABLES
    user,            \* who sits there
    pc, startAddr,   \* PC and _startAddr
    regs,            \* the other registers
    mode,            \* _runState
    outOfRange,      \* errno is ERANGE
    listed,          \* where the last listing began
    typed            \* the line being typed

monitor == << bpVars, pc, startAddr, regs, mode, listed >>
commandVars == << user, monitor, outOfRange, typed >>

-----------------------------------------------------------------------------
(* A space ends a word even if there is none. *)
ScanEverySpace(s, c) ==
    IF c # Space THEN [s EXCEPT !.words[s.at] = Append(@, c), !.open = TRUE]
    ELSE [s EXCEPT !.open = FALSE, !.at = @ + 1]

(* parseCmd: a space behind a word ends it, others are skipped. *)
Scan(s, c) ==
    IF c # Space THEN [s EXCEPT !.words[s.at] = Append(@, c), !.open = TRUE]
    ELSE IF s.open THEN [s EXCEPT !.open = FALSE, !.at = @ + 1]
    ELSE s

Scanned(l) == FoldLeft(LAMBDA s, c : IF s.at > 3 THEN s ELSE Scan(s, c),
                       [words |-> << << >>, << >>, << >> >>, at |-> 1, open |-> FALSE], l)

(* The space that ends the third word refuses the line. *)
IsParsed(l) == Scanned(l).at <= 3
Words(l) == Scanned(l).words

-----------------------------------------------------------------------------
(* toNum: strtol of what is behind a $, or of all of it; characters behind *)
(* the digits are ignored.                                                 *)
IsHex(n) == n # << >> /\ n[1] = "$"
Base(n) == IF IsHex(n) THEN 16 ELSE 10
Text(n) == IF IsHex(n) THEN Tail(n) ELSE n
IsNegative(n) == Text(n) # << >> /\ Text(n)[1] = "-"
IsSigned(n) == Text(n) # << >> /\ Text(n)[1] \in {"-", "+"}
Numeral(n) == IF IsSigned(n) THEN Tail(Text(n)) ELSE Text(n)

IsDigit(c, base) == c \in DOMAIN DigitValue /\ DigitValue[c] < base
FirstOther(n) == SelectInSeq(Numeral(n), LAMBDA c : ~IsDigit(c, Base(n)))
Digits(n) == IF FirstOther(n) = 0 THEN Numeral(n) ELSE SubSeq(Numeral(n), 1, FirstOther(n) - 1)

Read(n) == FoldLeft(LAMBDA k, c : Base(n) * k + DigitValue[c], 0, Digits(n))
IsTooLong(n) == Read(n) > IF IsNegative(n) THEN LongMax + 1 ELSE LongMax
Num(n) == (IF IsNegative(n) THEN -Read(n) ELSE Read(n)) % NumModulus

(* A number that is not looked for *)
IsNumberUnchecked(n) == ~outOfRange /\ ~IsTooLong(n)

(* errno must not be ERANGE, whatever number made it so. *)
IsNumber(n) == ~outOfRange /\ ~IsTooLong(n) /\ Digits(n) # << >>

-----------------------------------------------------------------------------
(* executeCommand: how many arguments a command may have ... *)
Arity == [c \in {"ld", "r", "c", "b", "bc", "bd", "be", "s", "n", "o", "l", "la", "a", "reg", "time"} |->
    CASE c \in {"ld", "c", "s", "n", "o"}            -> {0}
      [] c \in {"r", "b", "bc", "bd", "be", "l"}     -> {0, 1}
      [] c \in {"la", "reg"}                         -> {1, 2}
      [] c \in {"a", "time"}                         -> {0, 1, 2}]

Name(w) == IF Len(w[1]) = 1 THEN w[1][1] ELSE ""
Arguments(w) == Cardinality({i \in {2, 3} : w[i] # << >>})
Fits(w) == Name(w) \in DOMAIN Arity /\ Arguments(w) \in Arity[Name(w)]

(* An address that is compared with 65535, not cut *)
IsAddr(n) == IsNumber(n) /\ Num(n) < AddrModulus

(* ... which of them are read as numbers ... *)
Numbers(w) ==
    IF ~Fits(w) THEN {}
    ELSE CASE Name(w) = "reg" -> {w[3]} \ {<< >>}
           [] Name(w) = "la" -> IF IsAddr(w[2]) THEN {w[2], w[3]} \ {<< >>} ELSE {w[2]}
           [] Name(w) = "time" -> {}
           [] OTHER -> {w[2]} \ {<< >>}

(* ... and which it refuses. *)
Chosen(w) == Num(w[2]) % IndexModulus
IsAccepted(w) ==
    /\ Fits(w)
    /\ \A n \in Numbers(w) : IsNumber(n)
    /\ Arguments(w) > 0 =>
        /\ Name(w) \in {"a", "la"} => IsAddr(w[2])
        /\ Name(w) = "b" => \E i \in Index : breakpoints[i].status = "Empty"
        /\ Name(w) \in {"bc", "bd", "be"} => InUse(Chosen(w))

-----------------------------------------------------------------------------
CommandInit ==
    /\ user \in Users
    /\ BpInit
    /\ pc = 0 /\ startAddr = 0
    /\ regs = [r \in DOMAIN Registers |-> 0]
    /\ mode = "Cmd"
    /\ outOfRange = FALSE /\ listed = 0
    /\ typed = << >>

(* A command that is the name c, without or with an argument *)
Bare(w, c) == Name(w) = c /\ w[2] = << >>
With(w, c) == Name(w) = c /\ w[2] # << >>

(* Commands that leave the monitor *)
Leave(m, a) == mode' = m /\ pc' = a /\ UNCHANGED << bpVars, regs, listed >>

StepMode(c) == CASE c = "s" -> "StepIn" [] c = "n" -> "StepOver" [] c = "o" -> "StepOut"

Resume(w) ==
    \/ Name(w) = "ld" /\ Leave("Loading", pc) /\ UNCHANGED startAddr
    \/ Name(w) = "c" /\ Leave("Continuing", pc) /\ UNCHANGED startAddr
    \/ (Bare(w, "r") \/ Name(w) = "time") /\ Leave("Running", startAddr) /\ UNCHANGED startAddr
    \/ With(w, "r") /\ startAddr' = Num(w[2]) % AddrModulus /\ Leave("Running", startAddr')
    \/ Name(w) \in {"s", "n", "o"} /\ Leave(StepMode(Name(w)), pc) /\ UNCHANGED startAddr

(* Commands on the table of breakpoints *)
OnTable(w) ==
    /\ \/ Bare(w, "b") /\ UNCHANGED bpVars
       \/ With(w, "b") /\ SetBreakpoint(Num(w[2]) % AddrModulus)
       \/ (Bare(w, "bc") /\ ClearAllBreakpoints) \/ (With(w, "bc") /\ ClearBreakpoint(Chosen(w)))
       \/ (Bare(w, "bd") /\ DisableAllBreakpoints) \/ (With(w, "bd") /\ DisableBreakpoint(Chosen(w)))
       \/ (Bare(w, "be") /\ EnableAllBreakpoints) \/ (With(w, "be") /\ EnableBreakpoint(Chosen(w)))
    /\ UNCHANGED << pc, startAddr, regs, mode, listed >>

(* What a register holds when v has been set in the one named *)
RegisterAfter(r, name, v) ==
    IF name = << r >> THEN v % Registers[r]
    ELSE IF name = << "D" >> /\ r = "A" THEN (v \div IndexModulus) % Registers[r]
    ELSE IF name = << "D" >> /\ r = "B" THEN v % Registers[r]
    ELSE regs[r]

(* Commands that list, from PC all of them, and those that set.  setReg() *)
(* takes 16 bits.                                                         *)
OnMachine(w) ==
    /\ \/ (Name(w) \in {"l", "la"} \/ Bare(w, "a")) /\ listed' = pc /\ UNCHANGED << pc, regs >>
       \/ With(w, "a") /\ pc' = Num(w[2]) % AddrModulus /\ listed' = pc' /\ UNCHANGED regs
       \/ Name(w) = "reg" /\ w[3] = << >> /\ UNCHANGED << pc, regs, listed >>
       \/ /\ Name(w) = "reg" /\ w[3] # << >> /\ UNCHANGED listed
          /\ pc' = IF w[2] = << "PC" >> THEN Num(w[3]) % AddrModulus ELSE pc
          /\ regs' = [r \in DOMAIN regs |-> RegisterAfter(r, w[2], Num(w[3]) % AddrModulus)]
    /\ UNCHANGED << bpVars, startAddr, mode >>

(* A refused command does nothing, but s, n and o set _runState before *)
(* what is behind them is looked at.                                   *)
Refuse(w) ==
    /\ mode' = IF Name(w) \in {"s", "n", "o"} THEN StepMode(Name(w)) ELSE mode
    /\ UNCHANGED << bpVars, pc, startAddr, regs, listed >>

(* processCommand() with the line l *)
Enter(l) ==
    LET w == IF IsParsed(l) THEN Words(l) ELSE << << >>, << >>, << >> >>
    IN  /\ mode = "Cmd" /\ l # << >>
        /\ typed' = << >>
        /\ outOfRange' = (outOfRange \/ \E n \in Numbers(w) : IsTooLong(n))
        /\ IF IsAccepted(w) THEN Resume(w) \/ OnTable(w) \/ OnMachine(w) ELSE Refuse(w)

Type(c) ==
    /\ mode = "Cmd" /\ Len(typed) < MaxLine
    /\ typed' = Append(typed, c)
    /\ UNCHANGED << monitor, outOfRange >>

(* The program or the loader comes back to the monitor.  What it called *)
(* may have left another error in errno.                                *)
Return ==
    /\ mode # "Cmd"
    /\ mode' = "Cmd"
    /\ outOfRange' \in {FALSE, outOfRange}
    /\ UNCHANGED << bpVars, pc, startAddr, regs, listed, typed >>

CommandNext ==
    /\ \/ \E l \in user.lines \cup {typed} : Enter(l)
       \/ \E c \in user.alphabet : Type(c)
       \/ Return
    /\ UNCHANGED user

CommandSpec == CommandInit /\ [][CommandNext]_commandVars

-----------------------------------------------------------------------------
(* Whatever number is typed, each place keeps what fits it: addresses 16  *)
(* bits, byte registers 8; and no entry of the table is touched that is   *)
(* not there.                                                             *)
CommandTypeOK ==
    /\ BpTypeOK
    /\ pc \in Addr /\ startAddr \in Addr /\ listed \in Addr
    /\ DOMAIN regs = DOMAIN Registers
    /\ \A r \in DOMAIN regs : regs[r] \in 0 .. Registers[r] - 1
    /\ mode \in {"Cmd", "Loading", "Running", "Continuing", "StepIn", "StepOver", "StepOut"}
    /\ outOfRange \in BOOLEAN

(* "splitting words by space.  Space before first non-space char is       *)
(* ignored" (BOSS9.cpp:345): the k-th word of a line that is obeyed is    *)
(* what stands between the k-th place where a word begins and the next    *)
(* space, however many spaces there are before, between and behind.       *)
Begins(l) == {i \in DOMAIN l : l[i] # Space /\ (i = 1 \/ l[i - 1] = Space)}
Word(l, i) == SubSeq(l, i, CHOOSE j \in i .. Len(l) :
                 /\ \A k \in i .. j : l[k] # Space
                 /\ j = Len(l) \/ l[j + 1] = Space)

(* Which of the words of l the one that begins at i is *)
Ordinal(l, i) == Cardinality({j \in Begins(l) : j <= i})

SplitsBySpace ==
    IsParsed(typed) =>
        /\ \A i \in Begins(typed) : /\ Ordinal(typed, i) <= 3
                                    /\ Words(typed)[Ordinal(typed, i)] = Word(typed, i)
        /\ \A k \in 1 .. 3 : k > Cardinality(Begins(typed)) => Words(typed)[k] = << >>

(* A word that is all of it a numeral is a number, the one it denotes in  *)
(* its base: the sum of its digits times their powers, negative ones      *)
(* counted back from 2^32 (BOSS9.cpp:413-428).                            *)
Power(b) == LET p[k \in Nat] == IF k = 0 THEN 1 ELSE b * p[k - 1] IN p
Denotes(n) == LET d == Numeral(n)
              IN  FoldLeft(+, 0, [i \in DOMAIN d |-> DigitValue[d[i]] * Power(Base(n))[Len(d) - i]])

IsNumeral(n) == /\ Numeral(n) # << >>
                /\ Range(Numeral(n)) \subseteq DOMAIN DigitValue \ (IF IsHex(n) THEN {} ELSE {"f"})

Value(n) == IF IsNegative(n) THEN -Denotes(n) ELSE Denotes(n)

NumbersExact ==
    \A k \in 1 .. 3 :
       LET n == Words(typed)[k]
       IN  /\ IsNumeral(n) /\ Value(n) \in -LongMax - 1 .. LongMax /\ ~outOfRange =>
                 IsNumber(n) /\ (Num(n) - Value(n)) % NumModulus = 0
           /\ IsNumber(n) => Num(n) \in 0 .. NumModulus - 1 /\ \E i \in DOMAIN n : n[i] \in DOMAIN DigitValue
=============================================================================
