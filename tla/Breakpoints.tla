---------------------------- MODULE Breakpoints ----------------------------
(***************************************************************************)
(* The breakpoint table of the emulator (class Emulator, MC6809.h and      *)
(* MC6809.cpp): a fixed array of entries and _haveBreakpoints, the cached  *)
(* answer to "is any entry enabled", which execute() consults before every *)
(* instruction.                                                            *)
(*                                                                         *)
(* The array is never sorted or compacted as such: that entry n is the     *)
(* n-th breakpoint of the user, and that the cached flag is right, depends *)
(* on every operation.  A rejected request (a full table, an index past    *)
(* the end or of an empty entry) changes nothing: it is a stuttering step. *)
(***************************************************************************)
EXTENDS Naturals

CONSTANTS
    Addr,            \* 16-bit addresses a breakpoint can be set at
    Garbage,         \* what an address never written may hold: any of Addr
    NumBreakpoints   \* size of the table (4 in the code)

ASSUME BreakpointsAssumption == NumBreakpoints \in Nat \ {0} /\ Garbage \subseteq Addr

VARIABLES
    breakpoints,       \* _breakpoints[NumBreakpoints]
    haveBreakpoints    \* _haveBreakpoints

bpVars == << breakpoints, haveBreakpoints >>

Index == 0 .. NumBreakpoints - 1

BreakpointEntry == [addr : Addr, status : {"Empty", "Enabled", "Disabled"}]

-----------------------------------------------------------------------------
(* checkActiveBreakpoints() over the table b *)
AnyEnabled(b) == \E i \in Index : b[i].status = "Enabled"

(* A request for entry i is rejected unless it is in use. *)
InUse(i) == i \in Index /\ breakpoints[i].status # "Empty"

(* atBreakpoint(addr) *)
AtBreakpoint(a) ==
    /\ haveBreakpoints
    /\ \E i \in Index : breakpoints[i] = [addr |-> a, status |-> "Enabled"]

-----------------------------------------------------------------------------
(* The addr member of an entry has no initializer and the object lives on *)
(* main()'s stack: it starts with any value.                              *)
BpInit ==
    /\ \E a \in [Index -> Garbage] :
          breakpoints = [i \in Index |-> [addr |-> a[i], status |-> "Empty"]]
    /\ haveBreakpoints = FALSE

(* The first empty entry takes the new breakpoint, enabled. *)
SetBreakpoint(a) ==
    /\ \E i \in Index :
          /\ breakpoints[i].status = "Empty"
          /\ \A j \in 0 .. i - 1 : breakpoints[j].status # "Empty"
          /\ breakpoints' = [breakpoints EXCEPT ![i] = [addr |-> a, status |-> "Enabled"]]
    /\ haveBreakpoints' = TRUE

(* clearBreakpoint that empties the entry in place *)
ClearBreakpointInPlace(i) ==
    /\ InUse(i)
    /\ breakpoints' = [breakpoints EXCEPT ![i].status = "Empty"]
    /\ haveBreakpoints' = AnyEnabled(breakpoints')

(* clearBreakpoint that forgets to empty the entry the others moved from *)
ClearBreakpointKeepLast(i) ==
    /\ InUse(i)
    /\ breakpoints' = [j \in Index |->
          IF j < i \/ j = NumBreakpoints - 1 THEN breakpoints[j] ELSE breakpoints[j + 1]]
    /\ haveBreakpoints' = AnyEnabled(breakpoints')

(* clearBreakpoint that empties the entry behind the last one *)
ClearBreakpointPastEnd(i) ==
    /\ InUse(i)
    /\ breakpoints' = [j \in 0 .. NumBreakpoints |->
          CASE j = NumBreakpoints                    -> [breakpoints[j - 1] EXCEPT !.status = "Empty"]
            [] j < i \/ j = NumBreakpoints - 1       -> breakpoints[j]
            [] OTHER                                 -> breakpoints[j + 1]]
    /\ haveBreakpoints' = AnyEnabled(breakpoints')

(* The later entries move down over entry i.  The last one keeps the *)
(* address it had and only becomes empty.                            *)
ClearBreakpoint(i) ==
    /\ InUse(i)
    /\ breakpoints' = [j \in Index |->
          CASE j < i                  -> breakpoints[j]
            [] j = NumBreakpoints - 1 -> [breakpoints[j] EXCEPT !.status = "Empty"]
            [] OTHER                  -> breakpoints[j + 1]]
    /\ haveBreakpoints' = AnyEnabled(breakpoints')

ClearAllBreakpoints ==
    /\ breakpoints' = [i \in Index |-> [breakpoints[i] EXCEPT !.status = "Empty"]]
    /\ haveBreakpoints' = AnyEnabled(breakpoints')

(* disableBreakpoint that leaves the cached flag alone *)
DisableBreakpointStale(i) ==
    /\ InUse(i)
    /\ breakpoints' = [breakpoints EXCEPT ![i].status = "Disabled"]
    /\ UNCHANGED haveBreakpoints

DisableBreakpoint(i) ==
    /\ InUse(i)
    /\ breakpoints' = [breakpoints EXCEPT ![i].status = "Disabled"]
    /\ haveBreakpoints' = AnyEnabled(breakpoints')

(* enableBreakpoint that leaves the cached flag alone *)
EnableBreakpointStale(i) ==
    /\ InUse(i)
    /\ breakpoints' = [breakpoints EXCEPT ![i].status = "Enabled"]
    /\ UNCHANGED haveBreakpoints

EnableBreakpoint(i) ==
    /\ InUse(i)
    /\ breakpoints' = [breakpoints EXCEPT ![i].status = "Enabled"]
    /\ haveBreakpoints' = AnyEnabled(breakpoints')

DisableAllBreakpoints ==
    /\ breakpoints' = [i \in Index |->
          IF breakpoints[i].status = "Enabled"
          THEN [breakpoints[i] EXCEPT !.status = "Disabled"] ELSE breakpoints[i]]
    /\ haveBreakpoints' = AnyEnabled(breakpoints')

EnableAllBreakpoints ==
    /\ breakpoints' = [i \in Index |->
          IF breakpoints[i].status = "Disabled"
          THEN [breakpoints[i] EXCEPT !.status = "Enabled"] ELSE breakpoints[i]]
    /\ haveBreakpoints' = AnyEnabled(breakpoints')

BpNext ==
    \/ \E a \in Addr : SetBreakpoint(a)
    \/ \E i \in Index : ClearBreakpoint(i)
    \/ \E i \in Index : DisableBreakpoint(i)
    \/ \E i \in Index : EnableBreakpoint(i)
    \/ ClearAllBreakpoints
    \/ DisableAllBreakpoints
    \/ EnableAllBreakpoints

BpSpec == BpInit /\ [][BpNext]_bpVars

-----------------------------------------------------------------------------
(* The table keeps its four entries and the flag stays a flag: no *)
(* operation of MC6809.cpp:948-1030 writes past the array.        *)
BpTypeOK ==
    /\ breakpoints \in [Index -> BreakpointEntry]
    /\ haveBreakpoints \in BOOLEAN

(* The entries in use come first, so an index the user reads from "b"     *)
(* stays the number of that breakpoint until one before it is deleted:    *)
(* setBreakpoint takes the first empty entry, clearBreakpoint closes gaps *)
(* (MC6809.cpp:948-977).                                                  *)
Compact ==
    \A i, j \in Index : i < j /\ breakpoints[j].status # "Empty" => breakpoints[i].status # "Empty"

(* The cached flag execute() trusts is never stale, after any sequence of *)
(* set, clear, disable and enable (MC6809.cpp:928-937 and its callers).   *)
FlagExact == haveBreakpoints <=> AnyEnabled(breakpoints)

-----------------------------------------------------------------------------
(* Exactly the first n entries of the table b are in use. *)
Used(b, n) == \A i \in Index : b[i].status # "Empty" <=> i < n

InUseCount(b) == CHOOSE n \in 0 .. NumBreakpoints : Used(b, n)

(* The first n entries, as "b" shows them (BOSS9.cpp:430-436, 535-550) *)
Shown(b, n) == [k \in 1 .. n |-> [addr    |-> b[k - 1].addr,
                                  enabled |-> b[k - 1].status = "Enabled"]]

(* The list the user sees *)
UserList == Shown(breakpoints, InUseCount(breakpoints))

L == INSTANCE BreakpointList WITH list <- UserList, Capacity <- NumBreakpoints

(* Every operation on the table is the operation of the same name on the   *)
(* list that README.md describes: nothing is lost, reordered or switched   *)
(* besides what the user asked for.                                        *)
ListSpec == L!Spec

(* execute() stops at an address exactly when the list has an enabled     *)
(* breakpoint there: the shortcut through _haveBreakpoints never hides    *)
(* one (MC6809.h:318-329).                                                *)
StopsExact == \A a \in Addr : AtBreakpoint(a) <=> L!StopsAt(a)
=============================================================================
