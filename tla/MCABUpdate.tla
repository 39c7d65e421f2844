----------------------------- MODULE MCABUpdate -----------------------------
(***************************************************************************)
(* TLC instances of ABUpdate.                                              *)
(***************************************************************************)
EXTENDS ABUpdate

CONSTANTS o1, o2
TwoOps == {o1, o2}
OneOp  == {o1}
=============================================================================
