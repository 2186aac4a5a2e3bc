------------------------------ MODULE MCLoader ------------------------------
(***************************************************************************)
(* A memory of five cells and records that follow one another, leave gaps,  *)
(* overlap and repeat.                                                     *)
(***************************************************************************)
EXTENDS Loader

MCRamAddr == 0 .. 4

Rec(type, addr, data) == [type |-> type, addr |-> addr, data |-> data]

MCRecords == {Rec("S0", 0, << >>), Rec("S5", 0, << >>),
              Rec("S1", 0, << 1, 2 >>), Rec("S1", 2, << 2 >>), Rec("S1", 1, << 1, 2 >>),
              Rec("S1", 3, << >>), Rec("S1", 4, << 1 >>),
              Rec("S9", 0, << >>), Rec("S9", 2, << >>)}
=============================================================================
