------------------------------ MODULE BarShadow ------------------------------
(***************************************************************************)
(* The index shadow of recording mode (bar/dg_bar.c).  A tape index is 8   *)
(* bytes; it is kept in two shadow layers, sm_barLo for its lower and      *)
(* sm_barHi for its upper half, in shadow temporaries at t+tmp_offset and  *)
(* t+2*tmp_offset, and in shadow registers at r+gs_offset and              *)
(* r+2*gs_offset.  W is the width of one half in bits (32 in the code).    *)
(***************************************************************************)
EXTENDS Integers

CONSTANT W
ASSUME W \in Nat \ {0}

Half == 0..(2^W - 1)

(* Variants of the split as a faulty conversion would do it: the lower     *)
(* half written without truncation to 32 bits, the upper half never        *)
(* written.                                                                *)
IndexLoUnmasked(i) == i
IndexHiDropped(i) == 0

(* dg_bar_writeToTape splits the returned index with Iop_64to32 and        *)
(* Iop_64HIto32 into the values written to the two layers.                 *)
IndexLo(i) == i % 2^W
IndexHi(i) == (i \div 2^W) % 2^W

(* dg_bar_writeToTape_call reassembles an operand index from the first 4   *)
(* bytes of the lower-layer and of the upper-layer argument.               *)
Assemble(lo, hi) == hi * 2^W + lo

(* In --typegrind=yes mode dg_bar_operation gives the result of an         *)
(* operation without derivative rule the index ff..f in both layers        *)
(* (mkIRConst_ones).                                                       *)
Ones == 2^W - 1

=============================================================================
