---------------------------- MODULE ConsoleClaims ----------------------------
(***************************************************************************)
(* What the program says of the console that the code does not do          *)
(***************************************************************************)
EXTENDS MCConsole

(* "L - Load s19 file. Set _startAddress if successful" (README.md): a line *)
(* given to the loader changes the monitor's start address only if it ends  *)
(* the load without an error (BOSS9.cpp:397-411).                           *)
LoadErrorKeepsStart ==
    [][runState = "Loading" /\ startAddr' # startAddr => said' = "load complete"]_consoleVars
=============================================================================
