# A TLA+ verification of the MC6809 emulator and its BOSS9 monitor

The program under `src/emulator` emulates a single board computer with an
MC6809 processor.  A ROM monitor, BOSS9, loads programs, runs, stops and steps
them and offers them system functions.  This directory models the parts of it
that have state and order to get wrong, checks the models with TLC on small
instances and proves the most important properties for every instance with
TLAPS.

## Inventory

| Component | Source | State | Operations | What is hard | What makes it correct |
|---|---|---|---|---|---|
| Breakpoint table | `MC6809.cpp` 928-1030, `MC6809.h` | `_breakpoints[4]`, the cached `_haveBreakpoints` | set, clear, clear all, enable, disable, enable all, disable all, `atBreakpoint` | array indices are the user's names; a cached flag; a full table; stale addresses in empty entries | it behaves as the list of breakpoints the README describes; the flag is exact |
| Run control | `execute` in `MC6809.cpp`, `continueExecution` and the run commands in `BOSS9.cpp` | `_pc`, `_s`, `_prevOp`, `_error`, `_subroutineDepth`, `_lastRunState`, the locals of `execute`; `_runState`, `_startAddr`, `_startTime` | one instruction; break; step in, over, out; continue, run, time; ESC | the host calls `execute` for slices of 100000 instructions, so every stop condition has to survive the end of a slice; state is left over from one command to the next; six ways out of `execute` | breakpoints are honoured; each step stops where it says; errors stop; ESC always gets back |
| Console and command line | `getCommand`, `parseCmd`, `processCommand`, `toNum`, `executeCommand` in `BOSS9.cpp` | `_cmdBuf`, `_cursor`, `_needPrompt`, `_needInstPrint`, `errno` | read a key, complete a line, split it, read its numbers, obey or refuse it | the buffer's limit; who resets the cursor; numbers of 32 bits kept in 16 and 8; `errno` | the command executed is the line typed; words and numbers are those typed |
| S-record loader | `srec.cpp`, `SRecordInfo` in `MC6809.h`, `loadStart`, `loadLine`, `loadEnd` | segment, start address, memory | parse a line; segments; start record | bad lines in the middle of a load; lengths; which address is the start | memory holds what the records say; a damaged line is refused whole; a program arrives as it was assembled |
| CPU | `execute`, `getReg`, `setReg`, `MC6809.h` | registers, condition codes, memory | 59 operations, 10 addressing modes | widths, signs, carries, the read-only area | results and flags are those of the MC6809 |
| System calls | `call` in `BOSS9.cpp` | the frame on S, U | console, load, format, divide, exit, monitor | pushing and popping on every way out; arguments of 1 and 2 bytes; division | the frame is balanced; arguments are the caller's |
| Disassembler | `DisplayInst.cpp` | none | decode one instruction | it must agree with `execute` on lengths | the next address is the one `execute` reaches |
| Hosts | `mac/main.cpp`, `emulator.ino` | none of their own | assemble, load, then call `continueExecution` for ever | the object is a local: members without an initialiser hold anything; a step that fails and is not the last | the program that runs is the one asked for |
| Writer of S-records | `write_code_srec`, `fetch_output_byte` in `lwtools/lwasm/output.c` | the record being filled | start, fill and flush records | lines that jump, overlap and cross records | no record outgrows its buffer |
| Strings, containers | `string.cpp`, `containers.h` | - | - | - | not modelled |
| Not part of the emulator | the rest of `lwtools`, `as9`, `sbc09`, `mac/tigr.c`, `mac/Emu`, `test`, `Clover` | - | - | vendored tools, an empty application, programs run by hand | not modelled |

Everything runs in one thread.  What makes the order of events matter is that
the user types at any time, that the program and the monitor read the same
keyboard, and that `execute` gives up after a slice in any state.

## Modules

| Module | Models | Kind |
|---|---|---|
| `BreakpointList` | what the README of the program says of breakpoints: a bounded list of addresses, each enabled or not | abstract specification |
| `Breakpoints` | the table and its operations, line by line | component |
| `BreakpointsProofs` | theorems about it | proofs |
| `CommandLine` | what a complete line does: words, numbers, commands, with `Breakpoints` as the table (EXTENDS) | composition |
| `CommandLineProofs` | theorems about it, using those about `Breakpoints` | proofs |
| `MCCommandLine` | three users: commands on the machine, commands on the table, any line | TLC |
| `Debugger` | run control, with `Breakpoints` as its table (EXTENDS) | composition |
| `MCDebugger` | programs for the runs | TLC |
| `DebuggerClaims` | what comments say of run control and the code does not do | TLC |
| `DebuggerProofs` | theorems about `Debugger`, using those about `Breakpoints` | proofs |
| `Loader` | segments, start address, memory of a load | component |
| `MCLoader` | nine records for five memory cells | TLC |
| `SequenceLemmas` | induction, folds, sums and pieces of sequences, for the proofs | proofs |
| `Console` | keys, the command buffer and who gets a line, with `Loader` (EXTENDS) as the loader of host, monitor and program | composition |
| `ConsoleProofs` | theorems about `Loader`, and about `Console`, which use them | proofs |
| `MCConsole` | two characters, three commands, two records | TLC |
| `ConsoleClaims` | what the README of the program says and the code does not do | TLC |
| `SRecordLine` | the characters of a line and the record they are, in both directions | operators |
| `ProgramFile` | assembler, file and host, with `Loader` and `SRecordLine` (EXTENDS) | composition |
| `ProgramFileProofs` | theorems about it | proofs |
| `MCProgramFile` | programs of three lines, and the damages of their files | TLC |
| `Alu` | operations on numbers, condition codes, branch conditions | operators |
| `Arithmetic` | sequences of arithmetic instructions | component |
| `ArithmeticProofs` | theorems about it | proofs |
| `MCArithmetic` | operands at the edges of both widths | TLC |
| `Opcodes` | `opcodeTable` and the postbyte of indexed instructions | operators |
| `Machine` | registers and memory, and the stages of an instruction | operators |
| `SystemCalls` | `BOSS9Base::call` | operators |
| `Disassembler` | `DisplayInst::instToString` | operators |
| `Cpu` | programs running, with all of the five above | composition |
| `CpuProofs` | theorems about `Cpu`, and about the operators of the modules it is made of | proofs |
| `MCCpu` | every instruction, stack programs, calls of every function | TLC |

Run control and the processor are two models of one function, `execute`: in
`Debugger` an instruction is what run control tells apart and the loop's exits,
breakpoints and slices are complete; in `Cpu` the instruction is complete and
the program runs without a user.  In the same way `CommandLine` begins where
`Console` ends, at a complete line, and `Debugger` takes the commands that leave
the monitor as given.

### Breakpoints

`breakpoints` is the array, `haveBreakpoints` the flag; an action per operation
of class `Emulator`.  An operation the code refuses (full table, index past the
end, empty entry) changes nothing, which is a stuttering step.  The addresses
of entries never written are any of `Garbage`, because the object is a local of
`main()` and the member has no initialiser.  The refinement mapping `UserList`
is what the command `b` shows: the first `InUseCount` entries.

### CommandLine

| State or action | Code |
|---|---|
| `typed` | `_cmdBuf` up to `_cursor`, in lower case |
| `Scanned`, `Words`, `IsParsed` | `parseCmd`: its loop, `cmdElements` and its result |
| `Num`, `IsNumber`, `outOfRange` | `toNum`: `num`, its result, and `errno` being `ERANGE`, which it tests and nothing resets |
| `Fits`, `IsAccepted`, `Numbers` | the branches of `executeCommand`: how many arguments, which of them are numbers, what is refused |
| `Resume`, `OnTable`, `OnMachine`, `Refuse` | what an accepted command changes, and what a refused one has changed before it was refused |
| `mode`, `pc`, `startAddr`, `regs`, `listed` | `_runState`, the registers, `_startAddr`, and where a listing begins |
| `Enter`, `Type`, `Return` | a complete line, a key, the way back to the monitor |

`SplitsBySpace` and `NumbersExact` are stated without the loops of the code: the
words as places in the line and their order (`Ordinal`), a numeral as the sum of
its digits times `Power`.  The widths of the code, 8, 16 and 32 bits and a long, are the constants
`IndexModulus`, `AddrModulus`, `NumModulus` and `LongMax`; `strtol` takes a sign
of either kind, and one more below zero than above.  `RegisterAfter` is what
`setReg`, which takes 16 bits, puts into a register: D is A and B.

### Debugger

| State or action | Code |
|---|---|
| `slice` | the locals of the call of `execute` in progress: `runState`, `firstTime`, `instructionsToExecute`; `Idle` outside |
| `runState`, `lastRunState`, `subroutineDepth`, `prevOp`, `error`, `startAddr`, `startTime` | the members of those names |
| `stack` | the words from the bottom of the program's stack to `_s` |
| `input` | keys typed and not yet read by anybody |
| `session` | history: the last command that left the monitor, where, and what ran since |
| `fresh` | history: a slice has started and has not run an instruction |
| `Type` | the user |
| `Poll`, `ReadKey`, `Command` | `getCommand` without input, with a key, with a complete line |
| `Run` ... `BreakpointCommand` | the branches of `executeCommand` |
| `StartSlice` | `continueExecution` up to the call of `execute`: one key is read, ESC returns to the monitor |
| `Break` | the breakpoint test at the head of the loop |
| `Plain` ... `NoFunction` | one iteration of the loop; `EndInstruction` is the step handling at its end, `Spend` the slice's budget, `LeaveSlice` the return to `continueExecution` and what that does with Continuing |

An instruction is what run control tells apart: an operation class and a
target.  `Bcc` is every conditional branch and goes either way; `PULPC` is every
return that is not an RTS (PULS with PC, RTI); LEA, TFR and EXG to PC are jumps.
SWI and CWAI are not in the instruction set of this model.  A program does not
modify itself, and is a total function of the addresses, so that every address
holds some instruction.

### Loader

`LoadStart`, `LoadLine`, `LoadEnd` are the functions of `Emulator`; a line is
the record `ParseLine` makes of it, and a line it refuses changes nothing, which
is a stuttering step.  `ExtendSegment` is `ParsedData` with the flush in front,
`Store` is `SRecordInfo::Data`.  History variables keep the records accepted, the
calls of `FinishSegment` and the memory before the load; the properties compare
the loader's state with them.  The code does not check that data stays inside
the memory (there is a FIXME), and the model assumes records that do.

### Console

| State or action | Code |
|---|---|
| `cmdBuf` | the first `_cursor` characters of `_cmdBuf` |
| `needPrompt`, `runState`, `startAddr` | the members of those names; `Running` is every state in which the program runs, `Boot` the host's load before `startExecution` |
| `said` | the last message, among those a property tells apart |
| `line`, `sent` | history: what was typed since the last prompt, and the lines given to the loader since `ld` |
| `Buffer` | the buffer `getCommand` starts with: `promptIfNeeded` resets `_cursor` |
| `Poll` ... `Escape`, `EmptyLine` | one key in `getCommand` |
| `Load`, `Run`, `Step`, `Other` | `processCommand` with a command |
| `GoodRecord`, `BadRecord` | `processCommand` while loading |
| `HostLoads`, `StartExecution` | `main` of the Mac host, `setup` of the ESP |
| `RunSlice`, `EnterMonitor`, `ProgramLoads` | the program: an ESC, a stop, a call of `ldStart`, `ldLine` or `ldEnd` |

`getCommand` reads keys until there are none or a line is complete; each key is
an action of its own, and a key that ends the loop makes the next one start
behind the next prompt, which is what `Buffer` says.  What words are commands and
what lines are records is a pair of constants, so that the theorems hold for any
syntax.  `BadRecord` is nondeterministic because the code reads an uninitialised
local there.

### SRecordLine and ProgramFile

A line is a sequence of characters, and of those only what `ParseLine` tells
apart: sixteen digits, `S`, anything else.  `ParseLine` refuses or gives a record
for `Loader`; `LineOf` is what `write_code_srec` prints.

| State or action | Code |
|---|---|
| `source`, `start` | the lines of the program the assembler holds, with addresses and bytes, and its `END` address |
| `cl`, `outidx`, `lastaddr`, `recaddr`, `recdata`, `reccnt` | the variables of those names |
| `WriteByte`, `WriteNextLine`, `WriteEnd` | a call of `fetch_output_byte` and what the loop of `write_code_srec` does with it; the end of the loop and the trailer |
| `AssemblyFails` | `lwasm` leaves the file of an earlier assembly, and `main` goes on |
| `Damage` | external: one character of the file changed, two neighbours swapped, or a line cut off |
| `ReadLine`, `StartProgram` | the load loop of `main`, and `loadEnd` |

Only the characters behind a line's count are damaged: nothing protects its
type, and a smaller count may fit the checksum by chance.

### Alu and Arithmetic

An operator per operation, with the names of `enum Op` and of the helpers in
`MC6809.h`; `cc` is the bit field and `CcByte`, `CcOf` its other view `_ccByte`.
`_result` is a `uint32_t` of which no bit above bit 16 is read: it is kept modulo
2^17.  `Arithmetic` lets any instruction follow any other, because what an
instruction leaves in `_result` and the flags is an operand of the next.  Its
history is the latest operation with its operands (`last`) and the number of
several bytes under way (`long`).

### Machine, Opcodes, SystemCalls, Disassembler and Cpu

`m` is the emulator: the registers, `ram` as a function on the addresses ever
written, and `right`, `result`, `prev`, `cycles`, `error` for `_right`, `_result`,
`_prevOp`, `_cycles`, `_error`.  A step of `Cpu` is an iteration of the loop of
`execute`: `Fetch` (address mode), `Loaded` (operands), the operation, and
`Finished` (store and `_prevOp`), with an action for each kind of operation.

`opcodeTable` is written by its rows and columns, and the code's exceptions by
name; it is not a copy of the 256 lines.  `SystemCall` pushes the frame, takes
one of the outcomes of `Call`, and pops what `execute` pops.  `ldLine`
answers what the loader answers and may store any one of `Records` in memory,
as `SRecordInfo::Data` does.  `StartAddr`, where the function `exit` goes, is a
constant: it is the host's or the monitor's last load that sets it, and `call`
drops what `loadEnd` returns to a program.  `frames` is history:
which registers were pushed where, as long as nothing has overwritten them.

## Runs

| Run | Properties | Bounds, and why they are enough |
|---|---|---|
| `command_line` | `CommandTypeOK`, `SplitsBySpace`, `NumbersExact`, `Compact`, `FlagExact`, `StopsExact`, `ListSpec` | the code's table of 4, three addresses to set; lines of 6 characters: three words with a space between and one behind; widths of 4, 6 and 8 bits and a long of 10, so that numbers of up to four digits fit, are cut at each width, and are out of range |
| `debugger` | `TypeOK`, `ErrorStops`, `StepInStops`, `StepOverReturnsInSlice`, `StepOutLeavesInSlice`, `BreakpointsHonoured` | slices of 5 instructions: longer than a call of `Nested`'s inner subroutine, shorter than its loop; a table of 1, as what the flag says of several is `command_line`'s; five programs: subroutines two deep, a function that enters the monitor, a prefixed illegal opcode, one that reads keys, one that prints |
| `debugger_live` | `EscReachesMonitor` | two keys typed ahead, so that ESC comes behind another key; slices of 2 |
| `console` | `ConsoleTypeOK`, `LineIsTyped`, `LoadIsComplete` | a buffer of 4, so that the limit is met by a line of three characters and the key behind it; one key typed ahead, as keys are handled one at a time; the same word is a command and a record |
| `loader` | `ImageIsRecords`, `StartRecordWins`, `SegmentsCoverData` | four records a load, out of nine for five cells: data that follows, overlaps, repeats, is empty or leaves a gap; headers, counts and two start records anywhere between.  Two records are enough for each kind of step, four put one of them between others |
| `program_file` | `ProgramArrives`, `RecordFits`, `DamageStopsLoad` | programs of three of seven lines that jump back and forth, overlap, leave room, cross a record and fill one of the real size of 16; every damage of one line of three programs |
| `arithmetic` | `ArTypeOK`, `FlagsAreArithmetic`, `BranchesCompare`, `DecimalSum`, `LongArithmetic` | the bytes and words around which signs, carries and half carries change, and decimal digits on both sides of every case of DAA; numbers of two bytes (`MaxWeight`), made of the bytes that make and pass on a carry (`LongBytes`) |
| `cpu` | `CpuTypeOK`, `PagesAsDocumented`, `ListingFollows`, `RegistersComeBack`, `MemoryKept`, `CallsReturn`, `QuotientsAreRight` | all 256 opcodes behind no prefix and both, with five operands and two sets of registers; all 256 postbytes; every program of four out of eleven stack instructions, in a loop (`MaxCycles` 100, `Code` the 40 bytes a program may take); every system function, the divisions over ten edge operands, `format` with sizes 0 to 4, `ldLine` over records in data, in the frame of its own call and in the system area |
| `load_after_error` | `LoadErrorKeepsStart` | the bounds of `console` |
| `step_over_slice`, `continue_stops`, `stale_prefix` | one claim each | the smallest program that shows the disagreement |

`MaxStack` bounds the stack when a program is resumed, `MaxInput` the keys
typed ahead and `MaxRecords` the records accepted by one load; `DepthModulus`
stands for 2^32 and `Quantum` for 100000.  Deadlock is checked in every run but
two: in `cpu` and `program_file` a program is followed to its end and stops.

`FairSpec` assumes weak fairness of `MainLoop` only: the hosts call
`continueExecution` for ever (`mac/main.cpp`, `loop()` in `emulator.ino`)
and each call is a sequence of steps of `MainLoop`.  Nothing makes the user type.
`EscReachesMonitor` is checked for programs that do not read the keyboard; one
that polls `getc` can take every ESC, and then nothing stops it.

### Disagreements the runs show

- `step_over_slice`: a step over a subroutine longer than a slice ends inside
  the subroutine.  `StepOverReturnsInSlice` is what is left of the promise.
- `continue_stops`: after `c` an ordinary RTS stops with "step out".
- `stale_prefix`: a prefix before an illegal opcode is still in force at the
  next run.
- `load_after_error`: a line the loader refuses leaves `finished`
  uninitialised; if it happens to be true, "Error loading" is followed by "Load
  complete" and the start address changes.  `LoadIsComplete` is about the loads
  that are reported complete without an error.

### Deviations

Other places where the code does not do what a comment, a message or a program
of the repository expects.  The models follow the code; where a property would
fail because of one of them, its comment says which case it leaves out.  Paths
are those of `src/emulator` unless they say more.

Arithmetic and processor:

- BIT computes an exclusive or (`MC6809.cpp:583`); `test/exbasic.asm:5277-5278`
  tests a bit with it.
- A byte store sets the flags from the `_result` of an earlier instruction
  (`MC6809.cpp:808`); `test/exbasic.asm:439-440` branches on the byte stored.
- DAA takes away the carry of the addition before it (`MC6809.cpp:640`);
  `sbc09/bin2dec.asm:58-60` chains it.  `DecimalSum` says exactly when.
- The row of opcode 9C names X and one byte (`MC6809.cpp:193`); `MC6809.h:73`
  has CMPX, CMPY and CMPS of a word there.  `PagesAsDocumented` leaves 9C out.
- Offsets from PC are counted from the offset and not from behind it
  (`MC6809.cpp:473-475`), as the assembler of the repository does.
- The frame of SWI and CWAI has no CC (`MC6809.cpp:815`); the handler in
  `test/assist09.asm:296` looks for PC at 10,S.
- PSH and PUL add a cycle a register and not a byte, indirect modes add none,
  and the cycles of LBRA and LBSR are in the table and added again; `MC6809.h:154-165`.
- `store16` tests its first byte only: a word stored in front of the read-only
  area reaches its first byte (`MC6809.h:415-423`).  `MemoryKept` names the case.
- The listing shows negative offsets of 5 bits as 240 to 255
  (`DisplayInst.cpp:200-203`).

Monitor, system calls and host:

- `mon` and a missing function leave a word on the stack, and U moved
  (`MC6809.cpp:674-677`), against the comment in front (`:668-669`).
- At a missing function `s` runs on (`BOSS9.cpp:260`): `execute` returns before
  it looks at the step, which is to stop "after each instruction executed"
  (`MC6809.cpp:871`).  `StepInStops` is checked with functions that exist.
- "Illegal Instruction error at addr" prints the address behind the opcode it is
  about (`BOSS9.cpp:272`): `_pc` has moved when the opcode is looked up.
  `ErrorStops` says so.
- Every slice of `n` or `o` runs its first instruction without looking at the
  breakpoints: the state is still a stepping one when `execute` is called again
  (`BOSS9.cpp:838-847`, `MC6809.cpp:349-356`).  An enabled breakpoint that a slice
  happens to begin at is passed over, although no step began there; a plain run
  stops at it.  `BreakpointsHonoured` allows this besides the instruction that a
  command resumes from, and nothing else.
- `ldLine` stores a record wherever its address says (`BOSS9.cpp:207-216`,
  `MC6809.h:262`), in the system area, which the instructions cannot write, and in
  the frame of its own call, from where `execute` then takes U.  `CallsReturn`
  names both.
- A step out that starts at a call counts one too few (`MC6809.cpp:910`), and
  returns by PULS are not counted.
- A program that reads keys takes the ESC meant for the monitor
  (`BOSS9.cpp:174`; "Abort loading or running", the program's `README.md:43`).
- `_startTime` survives a timing test that was aborted, and the next exit
  reports a time (`BOSS9.cpp:178`).
- A line of three words with a space behind it is refused (`BOSS9.cpp:371`, "If
  there are more than 3 words", `:346`).
- The number of a breakpoint is cut to 8 bits: `bc 256` clears breakpoint 0
  (`BOSS9.cpp:584`; "(0-3)", `README.md:53`).
- `c a` and a listing at an address: the first is refused (`BOSS9.cpp:450,518`),
  the second begins at PC (`:464,690`).
- After one number out of range every number is refused (`BOSS9.cpp:423`).
- `s 5` is refused and steps all the same (`BOSS9.cpp:637-644`).
- After a failed assembly the host runs whatever file is there
  (`mac/main.cpp:165`, "failed, exiting").  `ProgramArrives` is about
  assemblies that succeed.
- Without a start record a program starts at its last record and not "the start
  of the first record" (`MC6809.h:257`).

## Proofs

`BreakpointsProofs` holds for a table of any size and any set of addresses.
`Compact` and `FlagExact` are not enough to step from: what each operation has to
know is how many entries are in use.  `BpInv` adds that some `n` is that number,
`BpInvariance` proves it inductive, and `FlagIsExact`, `BpTypeCorrect` and
`EntriesAreCompact` follow.  `TableIsTheList` proves the refinement
`BpSpec => ListSpec`: `CountIs` shows that the number is unique, so that the
mapping is the first `n` entries, and each operation is then the operation on the
list, by equality of sequences.  `StopsAreExact` follows from both.

`DebuggerProofs` holds for all programs, slice lengths, depth counters and sizes
of the table, from the assumptions named `BreakpointsAssumption` and
`DebuggerAssumption`.

- `TableInDebugger`: `Spec => BpSpec`.  Every step of the debugger is an operation
  of the table or leaves it alone; the theorems about the table carry over.
- `TypeCorrect`: inductive together with `BpInv`.
- `BreakpointsAreHonoured`: the property is about steps, and rests on `ResumeInv`:
  the exception for the first instruction of a slice is open only before the
  slice has run one (`fresh`), and only in a session of `c` or of a stepping
  command; in one of `c` nothing has run since the command.  The argument needs
  that commands are only given between slices, so that `haveBreakpoints` does not
  change during one, and `FlagExact`, so that an enabled breakpoint is one that
  is looked at.
- `ErrorsStop`: by `ErrorInv`, which adds that no slice is in progress while the
  monitor has control.
- `StepInIsOneInstruction`: `StepInInv` says that a session of `s` is either before
  its instruction, in a slice with the state `StepIn` or on the way there, or done
  and back in the monitor.  It assumes that the functions the programs call
  exist (`FunctionsExist`): at a missing one `s` runs on, see above.
- `StepOverComesBack`, `StepOutLeavesOne`: `StepInv` follows a session of `n` or `o`
  through its slice.  What has to be carried along is `Balanced`: while the
  subroutine runs, `_subroutineDepth` is the number of words on the stack above
  those that will be left at its end, and for `n` the lowest of them is the
  address behind the call; so the depth can only come to zero at the RTS that
  returns from it.  Two assumptions, both of which the code needs: every return
  is an RTS (`ReturnsCount`; returns by PULS and RTI are not counted), and a slice
  cannot make the depth wrap around (`SliceFits`; 100000 instructions, 32 bits).

The first part of `ConsoleProofs` is about `Loader` and holds for every memory,
record set and length of a load, from `LoaderAssumption`.  `ImageIsRecords` and `StartRecordWins` are stated with the
index of the last record that covers an address, or starts the program, so that
both are inductive with the types of the variables; `ImageStep` and `StartStep`
append one record.

- `SegmentsAreTheData`: `SegmentInv` is `SegmentsCoverData` with what is known of the
  open segment; a record of data either makes it longer or ends it and opens
  another, and both sides of the equation get the same bytes at their ends
  (`FlattenProperties`).

`ProgramFileProofs` holds for every program of bytes at 16-bit addresses, every
memory, header and stale file, from `FileAssumption`.  One invariant, `FileInv`,
carries all three theorems:

- while the assembler writes, the records in the file and the one being filled
  are the bytes fetched so far, piece by piece (`WriterInv`, `OpenPiece`), and the
  open one has at most 16 of them, in one block of 16 addresses (`RecordFits`,
  which is `RecordsFitTheirBuffer`);
- a line that `LineOf` printed is read back by `ParseLine` as its record
  (digit by digit: `HighLowProperties` and the checksum), and is not if a digit
  behind its count is wrong, two are swapped, or its end is missing: each of these
  changes the sum of its bytes by something that is not a multiple of 256, or
  leaves it too short (`DamagedFilesAreRefused`);
- while the host loads, memory is what the lines read so far make of it
  (`LoadInv`), and at the end these are all bytes of the program, later ones over
  earlier ones (`ProgramsArrive`).

`CommandLineProofs` holds for every set of users, lines and keys, every table and
every width, from `CommandAssumption`.

- `CommandsImplementTable`: `CommandSpec => BpSpec`, step by step
  (`CommandStepInv`), so that `CommandsKeepTable` has the theorems about the table.
- `CommandsKeepTypes`: with the same `CommandInv`.  Every width is due to a cast
  (`RegisterFits`); `a` and `la` refuse a number above 65535 besides.
- `WordsAreTheLines`: `SplitInv` says what `parseCmd` has of the line it has read
  so far: as many words as begin in it, each of them whole or, if it is the last
  and no space is behind it, open.  `SplitStep` adds a character.
- `NumbersAreExact`: what `toNum` reads is a fold that multiplies by the base at
  every digit, what a numeral denotes is a sum of digits times powers; `TermsAdd`
  shows them equal by adding a digit behind.  `RestIsMultiple` is the cast to 32
  bits.

`ConsoleProofs` holds for every buffer size and syntax, from `ConsoleAssumption`.

- `LoaderInTheConsole`: `ConsoleSpec => LoaderSpec`, step by step
  (`LoaderInConsole`), so that the theorems about the loader carry over.
- `BufferInBounds`: by `TypeStep`; only `Character` makes the buffer longer.
- `ExecutedLineIsTyped`: `LineIsTyped` alone does not survive leaving the
  monitor; `LineInv` adds that nothing is typed at the monitor while the program
  runs, and the prompt that every way back wants does the rest.
- `CompleteLoads`: `LoadInv` adds that a load in progress has stored every line
  and has met no start record, which is what `startAddrSet` tells by
  `StartRecordWins`.

`ArithmeticProofs` holds for all operands of 8 and 16 bits, numbers of any
length and any sequence of instructions, from `ArithmeticAssumption`.

- `FlagsAreRight`, `BranchesFollowOrder`: each operator of `Alu` has a lemma
  (`SumIs`, `Diff16Is`, `NegIs` and their like) that replaces the parity of single
  bits by the comparison of numbers it stands for, by cases of the operands'
  signs.
- `DecimalSumsAreRight`: DAA reads what an addition left.  `ArInv` adds
  `SumInLatch`, that the result of the addition is still there, to the types and
  the flags; it is inductive (`ArithmeticTypeCorrect` comes with it).
- `LongNumbersAreExact`: `LongNumber` is `ArInv` with the equation between value,
  carry and operands at the weight reached; every further byte adds a multiple of
  the weight to both sides.

`SequenceLemmas` has what these proofs share.  Induction over numbers and
sequences is stated there about sets (`SetInduction`, `SequenceInduction`), because
the provers cannot instantiate a predicate, and a fold is shown to be a run from
left to right (`RunsTo`, `FoldRuns`, `RunOfAppend`), so that a proof can add an
element at the end.

`CpuProofs` holds for every program, every memory and all registers it may start
with, every system area and every set of answers of `getc`, the formatter and the
loader's records, from
`SystemAssumption`, `CallAssumption` and `CpuAssumption`.

- `CpuTypeCorrect`: `CpuInv` says of the machine, field by field (`HasType`), what
  `CpuTypeOK` says, and that it has no other fields.  Each stage of an instruction
  has a lemma that names the fields it may change (`Leads`): the fetch
  (`FetchType`, over all ten modes and the postbyte), the operands (`LoadedType`),
  the calculation (`CalculatedTypes`, one line for each operation of `Alu`), the
  stacks (`PushAllType`, `PopAllType`), the store (`FinishedType`) and the system
  calls (`CallType`).  `OpcodeIsRow` is the only fact about the opcode table they
  need: what every one of its 256 rows has.
- `RegistersReturn`: the types do not say what is in memory.  `FrameHolds`, the
  other half of `CpuInv`, says of every frame that its length is that of its
  mask (`Depth`) and that the bytes at each register's place are what was pushed.
  `PushAllHolds` and `PopAllGives` follow the eight steps of a push and a pull; a
  push that leaves its stack pointer below has not passed 0 (`PushAllWraps`), so
  the frames above it are not touched.  What is between a push and its pull is any
  number of steps, of which `EndsType` and `PushesType` say that they keep the
  frames they do not drop.

- `MemoryIsKept`: every step is a push, an operation with one operand, a step that
  leaves memory alone, or a system call (`NextIs`).  A push alters no byte but the
  `Depth` ones below its stack pointer, around 0 where the pointer is low
  (`PushAllUnder`), and an operation none but those its row of the table stores
  (`FinishedAlters`), none at all if they are in the system area.

- `FunctionsReturn`: every function leaves the frame pointer U where the call put
  it and S too (`KnownServes`: what each of them may write, argument by argument
  from the comments and the code), so that the return finds the frame; `IsFramed`
  says what the six bytes below the caller's stack pointer are for the function,
  `ReturnIs` what taking them away makes of it.  The only memory a function writes
  is the buffer of `format` (`BufferIs`) and the record `ldLine` stores
  (`StoreRecordType`, `LineOutcome`); where either lies over the frame, U comes
  back as what was written.
- `QuotientsHold`: `ArgumentIs` finds the operands above the frame where the
  program pushed them.  That the quotient of magnitudes with its sign put back
  is rounded towards zero is `DividedRounds`; that it fits into the answer, except
  for the least number by -1, is `SignedQuotient`.
- `PagesDocumented`: `EntriesAre` compares the rows of `Opcodes` with the table in
  the comment (MC6809.h:65-90), `WideDecoded` says what the decoding of such a row
  puts into `_left`, `_right` and the effective address, and `Compares`,
  `WordLoads` and `WordStores` what comes of it.  `DifferenceCompares` turns the
  flags of a 16 bit subtraction into the order of its operands.

- `ListingIsFollowed`: the listing decodes the bytes of an instruction apart from
  the processor.  `RowLists` compares the two for every address mode: they have
  the same length, and the number shown is the operand, up to the sign of a
  relative address.  The rest is that PC moves no further (`StoredType`,
  `CalmMoveType`, `PopAllCalm`: only EXG and TFR with register 5 and a pull of bit 7
  write it) unless the listing says where to (`OperatingFollows`,
  `ControlFollows`).

The proof of `PagesDocumented` showed that the operator `Binary` of `Opcodes` chose
the register of an arithmetic row by two CASEs whose guards overlapped: TLA+
leaves the choice open where TLC takes the first.  They are IFs now, in the order
of the code.

Every safety property of the passing runs is a theorem.  Only model-checked:
`EscReachesMonitor`, which is a liveness property and out of the prover's reach.

## Not modelled

- The 47599 lines under `src` are for the most part other programs: `lwtools`
  (an assembler, linker and C compiler), `as9`, `sbc09` and the window library
  `tigr.c`.  They run before the emulator or not at all, and share no state with
  it.  What they hand to it is a file, and the part of them that writes the file
  is modelled.  The emulator itself has some 2900 lines, of which the map covers
  most that keep or change state.
- `string.cpp`, `containers.h`: general containers without an order of calls of
  their own; their contents are sequences in the models.
- The formatter behind `printF` is a submodule that is not in the repository.
- Options, the console's modes and opening files in the hosts: I/O.
- Interrupts from outside and the idle states of SYNC and CWAI: the code has
  none.
- Division by zero (the result of the host's instruction, any value in
  `SystemCalls`), records beyond the memory and lines whose count is larger than
  the buffer of `ParseLine`: undefined in the code, excluded by assumptions or
  named in the modules.
