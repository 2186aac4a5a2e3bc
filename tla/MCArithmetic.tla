---------------------------- MODULE MCArithmetic ----------------------------
(***************************************************************************)
(* An instance of Arithmetic.  EdgeBytes holds the bytes around which      *)
(* signs, carries and half carries change, and pairs of decimal digits on  *)
(* both sides of every case of DAA; FewBytes those that make and pass on a *)
(* carry, for numbers of two bytes.                                        *)
(***************************************************************************)
EXTENDS Arithmetic

EdgeBytes == {0, 9, 128, 153, 255}
EdgeWords == {0, 32767, 32768, 65535}
FewBytes == {0, 255}
=============================================================================
