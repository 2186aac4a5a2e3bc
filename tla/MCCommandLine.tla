---------------------------- MODULE MCCommandLine ----------------------------
(***************************************************************************)
(* Three users: one enters the commands on the machine and one those on    *)
(* the breakpoints, each with numbers that fit, that are cut and that are  *)
(* none; the third types any line of up to MaxLine characters.  Sizes are  *)
(* scaled down: 4 bits for 8, 6 for 16, 8 for 32 and 10 for a long, so     *)
(* that numbers of three digits pass all of them.                          *)
(***************************************************************************)
EXTENDS CommandLine

MCAddrModulus == 64
MCAddr == 0 .. 63
MCRegisters == [r \in {"A", "B"} |-> 16]

Only(names) == {<< c >> : c \in names}
Given(c, words) == {<< c >> \o << Space >> \o w : w \in words}
Fitting == {<< "1" >>, << "1", "6", "1" >>}

MachineLines ==
    Only({"ld", "r", "c", "s", "n", "o", "l", "la", "a", "reg", "time", "x"})
      \cup UNION {Given(c, Fitting) : c \in {"r", "a", "la"}}
      \cup Given("reg", {<< "A", Space, "1", "9" >>, << "X", Space, "1" >>, << "A" >>,
                         << "D", Space, "6", "5" >>, << "D", Space, "$", "1", "2" >>,
                         << "PC", Space, "6", "5" >>})
      \cup Given("c", {<< "5" >>}) \cup Given("s", {<< "2" >>})
      \cup Given("la", {<< "1", Space, "2" >>, << "1", Space, "2", Space >>})
TableLines ==
    Only({"b", "bc", "bd", "be", "c"})
      \cup Given("b", Fitting \cup {<< "2" >>})
      \cup Given("bc", {<< "0" >>, << "1" >>, << "1", "6" >>, << "-", "1" >>, << "+", "1" >>, << "2", "5", "6" >>,
                        << "9", "9", "9", "9" >>, << "x" >>, << "1", "x" >>})
      \cup Given("bd", {<< "0" >>, << "1" >>, << "2" >>})
      \cup Given("be", {<< "0" >>, << "1" >>, << "5" >>})

MCUsers == {[lines |-> MachineLines, alphabet |-> {}],
            [lines |-> TableLines, alphabet |-> {}],
            [lines |-> {}, alphabet |-> {Space, "1", "f", "$", "-", "+"}]}
=============================================================================
