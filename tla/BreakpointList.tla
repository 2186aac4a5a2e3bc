--------------------------- MODULE BreakpointList ---------------------------
(***************************************************************************)
(* What the monitor promises its user about breakpoints (README.md,        *)
(* "Commands"): a list of at most Capacity breakpoints, numbered from 0;   *)
(* B appends one, BC <n> deletes one and moves the others up, BD and BE    *)
(* switch one or all of them.                                              *)
(*                                                                         *)
(* This is the abstract specification; Breakpoints implements it with a    *)
(* fixed array of entries and a cached flag.                               *)
(***************************************************************************)
EXTENDS Naturals, Sequences

CONSTANTS
    Addr,       \* the addresses a breakpoint may be set at
    Capacity    \* how many breakpoints the list holds

VARIABLE list   \* the breakpoints in the order "b" shows them

Breakpoint == [addr : Addr, enabled : BOOLEAN]

(* The program must stop before the instruction at address a. *)
StopsAt(a) == \E n \in DOMAIN list : list[n].enabled /\ list[n].addr = a

-----------------------------------------------------------------------------
Init == list = << >>

Add(a) ==
    /\ Len(list) < Capacity
    /\ list' = Append(list, [addr |-> a, enabled |-> TRUE])

(* Breakpoint n-1 of the user goes; the later ones move up. *)
Delete(n) ==
    list' = [i \in 1 .. Len(list) - 1 |-> IF i < n THEN list[i] ELSE list[i + 1]]

DeleteAll == list' = << >>

Switch(n, on) == list' = [list EXCEPT ![n].enabled = on]

SwitchAll(on) == list' = [n \in DOMAIN list |-> [list[n] EXCEPT !.enabled = on]]

Next ==
    \/ \E a \in Addr : Add(a)
    \/ \E n \in DOMAIN list : Delete(n) \/ \E on \in BOOLEAN : Switch(n, on)
    \/ DeleteAll
    \/ \E on \in BOOLEAN : SwitchAll(on)

Spec == Init /\ [][Next]_list
=============================================================================
