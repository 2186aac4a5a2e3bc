--------------------------- MODULE DebuggerClaims ---------------------------
(***************************************************************************)
(* What comments, help texts and the README say of run control and the     *)
(* code does not do.  Each is checked by a run that shows how it fails.    *)
(***************************************************************************)
EXTENDS MCDebugger

(* "c" runs normally after its first slice (BOSS9.cpp:840-845): only the  *)
(* stepping commands end with a step message.  _lastRunState keeps        *)
(* Continuing and the RTS that makes the depth 0 stops the program.       *)
ContinueRunsNormally ==
    said \in {"step over", "step out"} => session.cmd \in {"n", "o"}

(* Page2 changes the opcode in the following byte (MC6809.h:38-39), and   *)
(* no other: an instruction that runs prefixed has the prefix before it.  *)
PrefixAppliesToNext ==
    slice.on /\ ~HitsBreakpoint /\ prevOp = "Page2" /\ code[pc].op # "Page2" =>
        \E a \in Addr : NextAddr(a) = pc /\ code[a].op = "Page2"
=============================================================================
