------------------------------ MODULE Console -------------------------------
(***************************************************************************)
(* The monitor's console (BOSS9Base): getCommand() reads keys into         *)
(* _cmdBuf, one action per key, and processCommand() gives a complete line *)
(* to the command interpreter or, while loading, to the S-record loader.   *)
(*                                                                         *)
(* A line is a sequence of characters.  What a command or a record looks   *)
(* like is given by the constants CommandLines and RecordLines; any other  *)
(* line is an invalid command, or one the loader refuses.  Here a program  *)
(* runs until ESC or until it stops by itself, and may use the loader      *)
(* through the system functions; Debugger has the details.                 *)
(***************************************************************************)
EXTENDS Loader

CONSTANTS
    Char,            \* printable characters
    CmdBufSize,      \* size of _cmdBuf, 100 in the code
    CommandLines,    \* function from the lines that are commands to "ld", "r" or "s"
    RecordLines,     \* function from the lines that are records to Records
    Extra,           \* the addresses the user can give to "r"
    MaxInput         \* bound: keys typed ahead

NL   == "newline"
ESC  == "escape"
BS   == "backspace"
CTRL == "control"    \* any other control character

ASSUME ConsoleAssumption ==
    /\ CmdBufSize \in Nat \ {0, 1}
    /\ {NL, ESC, BS, CTRL} \cap Char = {}
    /\ \A l \in DOMAIN CommandLines \union DOMAIN RecordLines : l \in Seq(Char)
    /\ \A l \in DOMAIN CommandLines : CommandLines[l] \in {"ld", "r", "s"}
    /\ \A l \in DOMAIN RecordLines : RecordLines[l] \in Records
    /\ Extra \subseteq RamAddr
    /\ MaxInput \in Nat

VARIABLES
    cmdBuf,        \* the first _cursor characters of _cmdBuf
    needPrompt,    \* _needPrompt
    runState,      \* _runState; "Running" stands for all states in which the program runs,
                   \* "Boot" for the host's load before it starts the monitor
    startAddr,     \* _startAddr of the monitor
    input,         \* keys typed and not yet read
    said,          \* the last message
    \* history
    line,          \* what the user typed since the last line, prompt or ESC, edited
    sent           \* the lines given to the loader since "ld"

consoleVars == << loaderVars, cmdBuf, needPrompt, runState, startAddr, input, said, line, sent >>

Keys == Char \union {NL, ESC, BS, CTRL}
Messages == {"", "abort", "too many chars", "control char", "error loading",
             "load complete", "error and complete"}
MaxChars == CmdBufSize - 1

-----------------------------------------------------------------------------
ConsoleInit ==
    /\ LoaderInit
    /\ cmdBuf = << >>
    /\ needPrompt = FALSE
    /\ runState = "Boot"
    /\ startAddr = 0
    /\ input = << >>
    /\ said = ""
    /\ line = << >>
    /\ sent = << >>

(* The host loads a program ... *)
HostLoads ==
    /\ runState = "Boot"
    /\ LoadStart \/ \E r \in Records : LoadLine(r)
    /\ UNCHANGED << cmdBuf, needPrompt, runState, startAddr, input, said, line, sent >>

(* ... and starts it, or the monitor, with loadEnd() and startExecution(). *)
StartExecution ==
    /\ runState = "Boot"
    /\ LoadEnd
    /\ runState' \in {"Cmd", "Running"}
    /\ startAddr' = recStart
    /\ UNCHANGED << cmdBuf, needPrompt, input, said, line, sent >>

Host == HostLoads \/ StartExecution

(* The user types no more lines than the loader may accept. *)
Type(k) ==
    /\ Len(input) < MaxInput
    /\ k = NL /\ runState = "Loading" => Len(accepted) + Len(input) < MaxRecords
    /\ input' = Append(input, k)
    /\ UNCHANGED << loaderVars, cmdBuf, needPrompt, runState, startAddr, said, line, sent >>

-----------------------------------------------------------------------------
(* The buffer promptIfNeeded() leaves if it forgets _cursor *)
BufferKept == cmdBuf

(* The buffer getCommand() starts with: a prompt resets _cursor. *)
Buffer == IF needPrompt THEN << >> ELSE cmdBuf

InMonitor == runState \in {"Cmd", "Loading"}

(* getCommand() without a key: only the prompt *)
Poll ==
    /\ InMonitor
    /\ input = << >>
    /\ cmdBuf' = Buffer
    /\ needPrompt' = FALSE
    /\ UNCHANGED << loaderVars, runState, startAddr, input, said, line, sent >>

(* getCommand() reads the key k. *)
Read(k) ==
    /\ InMonitor
    /\ input # << >>
    /\ k = Head(input)
    /\ input' = Tail(input)

(* A test that leaves no room for the final zero *)
IsFullTooLate == Len(Buffer) > MaxChars

IsFull == Len(Buffer) >= MaxChars

(* A full buffer gives up the line, whatever the key is. *)
Full ==
    /\ \E k \in Keys : Read(k)
    /\ IsFull
    /\ cmdBuf' = << >>
    /\ needPrompt' = TRUE
    /\ said' = "too many chars"
    /\ line' = << >>
    /\ UNCHANGED << loaderVars, runState, startAddr, sent >>

Accept(k) == Read(k) /\ ~IsFull

Character ==
    /\ \E k \in Char :
          /\ Accept(k)
          /\ cmdBuf' = Append(Buffer, k)
          /\ line' = Append(line, k)
    /\ needPrompt' = FALSE
    /\ UNCHANGED << loaderVars, runState, startAddr, said, sent >>

Shorter(s) == IF s = << >> THEN s ELSE SubSeq(s, 1, Len(s) - 1)

Backspace ==
    /\ Accept(BS)
    /\ cmdBuf' = Shorter(Buffer)
    /\ needPrompt' = FALSE
    /\ line' = Shorter(line)
    /\ UNCHANGED << loaderVars, runState, startAddr, said, sent >>

ControlCharacter ==
    /\ Accept(CTRL)
    /\ cmdBuf' = << >>
    /\ needPrompt' = TRUE
    /\ said' = "control char"
    /\ line' = << >>
    /\ UNCHANGED << loaderVars, runState, startAddr, sent >>

(* checkEscape(): back to the commands, a load is given up. *)
Escape ==
    /\ Accept(ESC)
    /\ runState' = "Cmd"
    /\ cmdBuf' = Buffer
    /\ needPrompt' = TRUE
    /\ said' = "abort"
    /\ line' = << >>
    /\ UNCHANGED << loaderVars, startAddr, sent >>

(* The end of a line, with something in the buffer or not *)
EndOfLine == Accept(NL) /\ line' = << >>

EmptyLine ==
    /\ EndOfLine
    /\ Buffer = << >>
    /\ cmdBuf' = << >>
    /\ needPrompt' = TRUE
    /\ UNCHANGED << loaderVars, runState, startAddr, said, sent >>

-----------------------------------------------------------------------------
(* processCommand() with a command.  _cursor is left as it is. *)
CommandLine(c) ==
    /\ EndOfLine
    /\ runState = "Cmd"
    /\ Buffer # << >>
    /\ IF Buffer \in DOMAIN CommandLines THEN c = CommandLines[Buffer] ELSE c = "other"
    /\ cmdBuf' = Buffer

(* "ld" *)
Load ==
    /\ CommandLine("ld")
    /\ runState' = "Loading"
    /\ needPrompt' = TRUE
    /\ said' = ""
    /\ sent' = << >>
    /\ LoadStart
    /\ UNCHANGED startAddr

(* "r", "r a", "c" and "time": leaveMonitor() wants no prompt. *)
Run ==
    /\ CommandLine("r")
    /\ runState' = "Running"
    /\ needPrompt' = FALSE
    /\ startAddr' \in Extra \union {startAddr}
    /\ said' = ""
    /\ UNCHANGED << loaderVars, sent >>

(* "s", "n" and "o" leave the prompt wanted. *)
Step ==
    /\ CommandLine("s")
    /\ runState' = "Running"
    /\ needPrompt' = TRUE
    /\ said' = ""
    /\ UNCHANGED << loaderVars, startAddr, sent >>

(* Any other command, and any line that is none *)
Other ==
    /\ CommandLine("other")
    /\ needPrompt' = TRUE
    /\ UNCHANGED << loaderVars, runState, startAddr, said, sent >>

(* processCommand() while loading *)
RecordLine ==
    /\ EndOfLine
    /\ runState = "Loading"
    /\ Buffer # << >>
    /\ sent' = Append(sent, Buffer)
    /\ cmdBuf' = << >>
    /\ needPrompt' = TRUE

(* loadLine() accepts the line.  A finished load ends with the loader's *)
(* start address as the monitor's.                                      *)
GoodRecord ==
    /\ RecordLine
    /\ Buffer \in DOMAIN RecordLines
    /\ LoadLine(RecordLines[Buffer])
    /\ IF startAddrSet'
       THEN runState' = "Cmd" /\ startAddr' = recStart' /\ said' = "load complete"
       ELSE UNCHANGED << runState, startAddr, said >>

(* loadLine() refuses the line: the monitor gives up.  finished is an     *)
(* uninitialised local that loadLine() did not set: it may hold true, and *)
(* then the load is ended and reported complete as well.                  *)
BadRecord ==
    /\ RecordLine
    /\ Buffer \notin DOMAIN RecordLines
    /\ runState' = "Cmd"
    /\ \/ said' = "error loading" /\ UNCHANGED << loaderVars, startAddr >>
       \/ said' = "error and complete" /\ LoadEnd /\ startAddr' = recStart

-----------------------------------------------------------------------------
(* The program runs: a key is read and dropped unless it is ESC. *)
RunSlice ==
    /\ runState = "Running"
    /\ IF input # << >> /\ Head(input) = ESC
       THEN runState' = "Cmd" /\ needPrompt' = TRUE /\ said' = "abort"
       ELSE UNCHANGED << runState, needPrompt, said >>
    /\ input' = IF input = << >> THEN input ELSE Tail(input)
    /\ UNCHANGED << loaderVars, cmdBuf, startAddr, line, sent >>

(* It stops: a breakpoint, a step, an error, exit or mon. *)
EnterMonitor ==
    /\ runState = "Running"
    /\ runState' = "Cmd"
    /\ needPrompt' = TRUE
    /\ UNCHANGED << loaderVars, cmdBuf, startAddr, input, said, line, sent >>

(* Func::ldStart, ldLine and ldEnd *)
ProgramLoads ==
    /\ runState = "Running"
    /\ LoaderNext
    /\ UNCHANGED << cmdBuf, needPrompt, runState, startAddr, input, said, line, sent >>

Program == RunSlice \/ EnterMonitor \/ ProgramLoads

GetCommand ==
    \/ Poll \/ Full \/ Character \/ Backspace \/ ControlCharacter \/ Escape \/ EmptyLine
    \/ Load \/ Run \/ Step \/ Other \/ GoodRecord \/ BadRecord

ConsoleNext == Host \/ GetCommand \/ Program \/ \E k \in Keys : Type(k)

ConsoleSpec == ConsoleInit /\ [][ConsoleNext]_consoleVars

-----------------------------------------------------------------------------
(* The buffer never holds more than fits in front of the final zero. *)
ConsoleTypeOK ==
    /\ cmdBuf \in Seq(Char) /\ Len(cmdBuf) <= MaxChars
    /\ needPrompt \in BOOLEAN
    /\ runState \in {"Boot", "Cmd", "Loading", "Running"}
    /\ startAddr \in RamAddr
    /\ input \in Seq(Keys)
    /\ said \in Messages
    /\ line \in Seq(Char)

(* The line the monitor is about to execute is what the user typed since   *)
(* the last prompt: nothing of an earlier command, of a line given up with *)
(* ESC or of one that left the monitor is in front of it.  processCommand  *)
(* does not reset _cursor after a command, only the next prompt does, and  *)
(* leaveMonitor cancels that prompt (BOSS9.cpp:386-395, BOSS9.h:117-140).  *)
LineIsTyped == InMonitor => Buffer = line

(* A load that is reported complete without an error stored every line    *)
(* given to the loader since "ld", ended with its only start record and   *)
(* left that address with the monitor; what an earlier load, one that was *)
(* given up or one the program did left behind does not end it            *)
(* (BOSS9.cpp:397-411).                                                   *)
LoadIsComplete ==
    said = "load complete" =>
        /\ Len(accepted) = Len(sent)
        /\ \A i \in DOMAIN sent :
              /\ sent[i] \in DOMAIN RecordLines /\ accepted[i] = RecordLines[sent[i]]
              /\ accepted[i].type = "S9" <=> i = Len(sent)
        /\ sent # << >> /\ startAddr = accepted[Len(sent)].addr
=============================================================================
