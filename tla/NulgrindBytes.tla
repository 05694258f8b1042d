--------------------------- MODULE NulgrindBytes ---------------------------
(***************************************************************************)
(* The sub-word path of Nulgrind's memory instrumentation (none/nl_main.c) *)
(* at the level of shadow bytes.  A load or store of type ty moves         *)
(* sizeofIRType(ty) bytes; its shadow travels as an 8-byte integer: the    *)
(* tangent is widened with convertToInteger before the dirty call          *)
(* nl_Store_diffN, and the result of nl_Load_diffN is narrowed back with   *)
(* convertFromInteger.  The IR built this way is checked by VEX after      *)
(* instrumentation; an ill-typed block makes the tool panic.               *)
(*                                                                         *)
(* Bytes are little-endian; a shadow byte is a member of Bytes.            *)
(***************************************************************************)
EXTENDS Integers, Sequences

CONSTANTS
    NA,         \* client bytes 0..NA-1
    Bytes,      \* shadow byte values; 0 is the default of my_sm
    StoreTypes, \* types of the stores of computed tangents
    CopyTypes   \* types of the loads whose result is stored again

Addr == 0..NA-1

(* sizeofIRType for the types nl_instrument meets here.                    *)
Size == [t \in {"I8", "I16", "I32", "I64", "F32", "F64"} |->
            CASE t = "I8" -> 1 [] t = "I16" -> 2 [] t \in {"I32", "F32"} -> 4
              [] OTHER -> 8]

(* canConvertToI64: the integer types and the two binary float types.      *)
canConvertToI64(ty) == ty \in {"I8", "I16", "I32", "I64", "F32", "F64"}

(* The unary IROps of the conversions: argument and result type, and what  *)
(* they do to the little-endian bytes.                                     *)
OpSig == [ReinterpF32asI32 |-> <<"F32", "I32">>, ReinterpI32asF32 |-> <<"I32", "F32">>,
          ReinterpF64asI64 |-> <<"F64", "I64">>, ReinterpI64asF64 |-> <<"I64", "F64">>,
          Uto64_8 |-> <<"I8", "I64">>, Uto64_16 |-> <<"I16", "I64">>,
          Uto64_32 |-> <<"I32", "I64">>,
          to8_64 |-> <<"I64", "I8">>, to16_64 |-> <<"I64", "I16">>,
          to32_64 |-> <<"I64", "I32">>]

Widen(w) == w \o [i \in 1..(8 - Len(w)) |-> 0]
OpBytes(op, w) ==
    CASE op \in {"Uto64_8", "Uto64_16", "Uto64_32"} -> Widen(w)
      [] op \in {"to8_64", "to16_64", "to32_64"}    -> SubSeq(w, 1, Size[OpSig[op][2]])
      [] OTHER                                       -> w          \* a reinterpretation

(* IR expressions: an atom of a type holding bytes, or a unary operation.  *)
Atom(ty, w) == [tag |-> "atom", ty |-> ty, w |-> w]
Unop(op, e) == [tag |-> "unop", op |-> op, arg |-> e]

RECURSIVE TypeOfIR(_)
TypeOfIR(e) ==
    IF e.tag = "atom" THEN e.ty
    ELSE IF TypeOfIR(e.arg) = OpSig[e.op][1] THEN OpSig[e.op][2] ELSE "ill"

RECURSIVE EvalIR(_)
EvalIR(e) == IF e.tag = "atom" THEN e.w ELSE OpBytes(e.op, EvalIR(e.arg))

convertToInteger(e, ty) ==
    CASE ty = "F32" -> Unop("Uto64_32", Unop("ReinterpF32asI32", e))
      [] ty = "F64" -> Unop("ReinterpF64asI64", e)
      [] ty = "I8"  -> Unop("Uto64_8", e)
      [] ty = "I16" -> Unop("Uto64_16", e)
      [] ty = "I32" -> Unop("Uto64_32", e)
      [] ty = "I64" -> e

convertFromInteger(e, ty) ==
    CASE ty = "F32" -> Unop("ReinterpI32asF32", e)
      [] ty = "F64" -> Unop("ReinterpI64asF64", e)
      [] ty = "I8"  -> Unop("to8_64", e)
      [] ty = "I16" -> Unop("to16_64", e)
      [] ty = "I32" -> Unop("to32_64", e)
      [] ty = "I64" -> e

(* nl_Store_diff(addr, derivative, size): the low size bytes of the word.  *)
nl_Store_diff(m, a, w, size) ==
    [x \in Addr |-> IF a <= x /\ x < a + size THEN w[x - a + 1] ELSE m[x]]

(* nl_Load_diff(addr, size): size shadow bytes, the rest of the word 0.    *)
nl_Load_diff(m, a, size) ==
    [i \in 1..8 |-> IF i <= size THEN m[a + i - 1] ELSE 0]

VARIABLES
    sm,        \* shadow memory my_sm at the client bytes
    panicked   \* VEX rejected an instrumented block

vars == <<sm, panicked>>

(* nl_pre_clo_init: every shadow byte of a fresh map reads 0 (the spam    *)
(* byte at 0xffff1111 lies outside the client bytes modelled here).       *)
Init ==
    /\ sm = [x \in Addr |-> 0]
    /\ panicked = FALSE

Fits(ty, a) == a + Size[ty] <= NA

(* Ist_Store of a temporary of type ty whose tangent has the bytes w: the  *)
(* dirty call nl_Store_diffN(a, convertToInteger(tangent)).                *)
Store(ty, a, w) ==
    LET e == convertToInteger(Atom(ty, w), ty)
    IN  /\ ~panicked /\ canConvertToI64(ty) /\ Fits(ty, a)
        /\ IF TypeOfIR(e) # "I64"
           THEN panicked' = TRUE /\ UNCHANGED sm
           ELSE /\ sm' = nl_Store_diff(sm, a, EvalIR(e), Size[ty])
                /\ UNCHANGED panicked

(* t = LDle:ty(src); STle(dst) = t.  The Iex_Load case of                  *)
(* differentiate_expr gives t's shadow convertFromInteger(nl_Load_diffN    *)
(* (src)), the Ist_Store case widens it again.  VEX checks the block as a  *)
(* whole, so one ill-typed conversion rejects it before it runs.           *)
LoadStore(ty, src, dst) ==
    LET ld == convertFromInteger(Atom("I64", nl_Load_diff(sm, src, Size[ty])), ty)
        st == convertToInteger(ld, ty)
    IN  /\ ~panicked /\ canConvertToI64(ty) /\ Fits(ty, src) /\ Fits(ty, dst)
        /\ IF TypeOfIR(ld) # ty \/ TypeOfIR(st) # "I64"
           THEN panicked' = TRUE /\ UNCHANGED sm
           ELSE /\ sm' = nl_Store_diff(sm, dst, EvalIR(st), Size[ty])
                /\ UNCHANGED panicked

Next ==
    \/ \E ty \in StoreTypes, a \in Addr, b \in Bytes :
          Store(ty, a, [i \in 1..Size[ty] |-> b])
    \/ \E ty \in CopyTypes, src, dst \in Addr : LoadStore(ty, src, dst)

Spec == Init /\ [][Next]_vars

-----------------------------------------------------------------------------
(* VEX accepts every block nl_instrument builds: each conversion takes an  *)
(* argument of the type its IROp expects, so loads and stores of every     *)
(* type canConvertToI64 admits can be instrumented.                        *)
NoIRRejected == ~panicked

=============================================================================
