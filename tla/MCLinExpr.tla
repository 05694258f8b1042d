------------------------------ MODULE MCLinExpr ------------------------------
(* Instantiation of LinExpr for TLC: identifiers 1 and 2, values 1 and -1  *)
(* (so that divLinExpr's factors are exact), and the operation mixes the   *)
(* runs give the client.                                                   *)
EXTENDS LinExpr, TLC

MCIds       == {1, 2}
MCVals      == {1, -1}
AllOps      == {"add", "sub", "mul", "div", "normalize"}
AlgebraOps  == {"add", "sub", "mul"}
DivOps      == {"div"}
NormOps     == {"add", "normalize"}
AddOps      == {"add"}
=============================================================================
