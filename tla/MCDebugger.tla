----------------------------- MODULE MCDebugger -----------------------------
(***************************************************************************)
(* Programs for the runs of Debugger.  Each is a memory of MemorySize      *)
(* instructions; address 0 follows the last one.                           *)
(***************************************************************************)
EXTENDS Debugger

MemorySize == 8
MCAddr == 0 .. MemorySize - 1

I(op) == [op |-> op, ea |-> 0]
To(op, ea) == [op |-> op, ea |-> ea]

(* A memory that holds the instructions of s from address 0 on *)
Memory(s) == [a \in MCAddr |-> IF a < Len(s) THEN s[a + 1] ELSE I("ILL")]

(* 0 calls 3, which calls 6 or not; then the program loops or exits. *)
Nested == Memory(<< To("JSR", 3), To("Bcc", 0), To("JMP", exit),
                    To("Bcc", 5), To("BSR", 6), I("RTS"),
                    I("Page2"), I("RTS") >>)

(* An endless loop that prints, with a prefixed instruction in it *)
Printer == Memory(<< I("Page2"), I("NOP"), To("JSR", putc), To("JMP", 0) >>)

(* A subroutine that stops in the monitor *)
Stopper == Memory(<< To("BSR", 2), To("JMP", 0), To("Bcc", 4), To("JSR", mon), I("RTS") >>)

(* A program that polls the keyboard *)
Poller == Memory(<< To("JSR", getc), To("JMP", 0) >>)

(* Calls a function the system does not have *)
Caller == Memory(<< To("JSR", noFunction), I("NOP"), To("JMP", exit) >>)

(* A prefix in front of an illegal opcode *)
Illegal == Memory(<< I("NOP"), I("Page2"), I("ILL"), To("JMP", exit) >>)

(* A subroutine that returns with PULS PC *)
Puller == Memory(<< To("BSR", 4), To("JMP", exit), I("NOP"), I("ILL"),
                    To("BSR", 6), I("RTS"), I("NOP"), I("PULPC") >>)

(* Which programs the runs use.  Under fairness the program does not poll *)
(* the keyboard itself: it could take every ESC.                          *)
SafePrograms == {Nested, Stopper, Illegal, Poller, Printer}
FairPrograms == {Nested, Printer, Puller, Caller}
NestedOnly == {Nested}
IllegalOnly == {Illegal}
=============================================================================
