--------------------------- MODULE DerivativeRules ---------------------------
(***************************************************************************)
(* Derivative rules of the elementary operations on floating-point values, *)
(* with integers standing for the values.                                  *)
(*                                                                         *)
(* Dot rules: the forward-mode rules of differentiate_expr (none/nl_main.c *)
(* and derivgrind/dg_bar.c), giving the dot value of the result from the   *)
(* values and dot values of the operands.                                  *)
(*                                                                         *)
(* Partials: the pairs of partial derivatives that recording mode passes   *)
(* to tapeAddStatement.  They are produced by generated code               *)
(* (dg_bar_operations.c) that is not part of the sources at hand and are   *)
(* taken from the spec, section 4.1.                                       *)
(***************************************************************************)
EXTENDS Integers

(* Iop_CmpF64 yields an IRCmpFResult: Ircr_LT = 0x01, Ircr_GT = 0x00,      *)
(* Ircr_EQ = 0x40 (Ircr_UN = 0x45 cannot arise from integers).             *)
CmpF64(a, b) ==
    IF a < b THEN 1 ELSE IF a > b THEN 0 ELSE 64

(* Iop_32to1 keeps the lowest bit.                                         *)
To1(c) == c % 2 = 1

DotAdd(dx, dy) == dx + dy
DotSub(dx, dy) == dx - dy
(* d(x*y) = d2*arg3 + d3*arg2.                                             *)
DotMul(x, y, dx, dy) == dx * y + dy * x
DotNeg(dx) == -dx
(* AbsF64: ITE(32to1(CmpF64(arg, 0.)), -d, d).                             *)
DotAbs(x, dx) == IF To1(CmpF64(x, 0)) THEN -dx ELSE dx

PartialsAdd == <<1, 1>>
PartialsSub == <<1, -1>>
PartialsMul(x, y) == <<y, x>>
PartialsNeg == <<-1, 0>>
PartialsAbs(x) == <<IF x < 0 THEN -1 ELSE 1, 0>>

=============================================================================
