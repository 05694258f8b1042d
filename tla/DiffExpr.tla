------------------------------ MODULE DiffExpr ------------------------------
(***************************************************************************)
(* Forward-mode differentiation of VEX IR expressions as done by           *)
(* differentiate_expr (none/nl_main.c), the expression evaluation the      *)
(* generated code performs, and a dual-number reference for the dot value  *)
(* of an expression.                                                       *)
(*                                                                         *)
(* Floating-point values are integers, so DivF64 and SqrtF64 (whose rules  *)
(* need reals) are not among the operators; every Binop is therefore one   *)
(* differentiate_expr has no rule for.  The rounding-mode argument of a    *)
(* Triop is left out.                                                      *)
(***************************************************************************)
EXTENDS Integers, Sequences, DerivativeRules

CONSTANTS
    Null,     \* differentiate_expr returns NULL
    Junk,     \* bits that encode no number: a mix of bytes of different
              \* values, or a shadow temporary that was never written
    Unknown   \* the reference has no derivative (an operation without rule)

(* An IR expression: a tag, an operator or type, sub-expressions and a     *)
(* constant, temporary number or address.                                  *)
Ex(tag, op, args, c) == [tag |-> tag, op |-> op, args |-> args, c |-> c]

Cst(c)           == Ex("Const", "F64", <<>>, c)
CondCst(b)       == Ex("Const", "I1", <<>>, b)
Tmp(t)           == Ex("RdTmp", "", <<>>, t)
GetE(ty)         == Ex("Get", ty, <<>>, 0)
LoadE(ty, a)     == Ex("Load", ty, <<>>, a)
Unop(op, x)      == Ex("Unop", op, <<x>>, 0)
Binop(op, x, y)  == Ex("Binop", op, <<x, y>>, 0)
Triop(op, x, y)  == Ex("Triop", op, <<x, y>>, 0)
ITE(c, x, y)     == Ex("ITE", "", <<c, x, y>>, 0)

(* The shadow counterparts the derivative expressions read: the shadow    *)
(* temporary t + t_offset, the shadow register at offset + total_sizeB,   *)
(* and the dirty call nl_Load_diff<size> with convertFromInteger.          *)
ShTmp(t)         == Ex("ShTmp", "", <<>>, t)
ShGet            == Ex("ShGet", "", <<>>, 0)
ShLoad(ty, a)    == Ex("ShLoad", ty, <<>>, a)

(* canConvertToI64: the load and store types whose shadow fits the 8-byte *)
(* integer the dirty helpers pass.                                         *)
ConvertibleTypes == {"I8", "I16", "I32", "I64", "F32", "F64"}
CanConvertToI64(ty) == ty \in ConvertibleTypes

(* differentiate_expr.  A Triop differentiates both operands first and     *)
(* fails if either fails; a Unop its operand; an ITE both branches but not *)
(* the condition.                                                          *)
RECURSIVE differentiate_expr(_)
differentiate_expr(e) ==
    CASE e.tag = "Triop" ->
            LET d2 == differentiate_expr(e.args[1])
                d3 == differentiate_expr(e.args[2])
            IN  IF d2 = Null \/ d3 = Null THEN Null
                ELSE CASE e.op = "AddF64" -> Triop("AddF64", d2, d3)
                       [] e.op = "SubF64" -> Triop("SubF64", d2, d3)
                       [] e.op = "MulF64" ->
                             Triop("AddF64", Triop("MulF64", d2, e.args[2]),
                                             Triop("MulF64", d3, e.args[1]))
                       [] OTHER -> Null
      [] e.tag = "Binop" ->
            Null
      [] e.tag = "Unop" ->
            LET d == differentiate_expr(e.args[1])
            IN  IF d = Null THEN Null
                ELSE CASE e.op = "NegF64" -> Unop("NegF64", d)
                       [] e.op = "AbsF64" ->
                             ITE(Unop("32to1", Binop("CmpF64", e.args[1], Cst(0))),
                                 Unop("NegF64", d), d)
                       [] OTHER -> Null
      [] e.tag = "Const" -> Ex("Const", e.op, <<>>, IF e.op = "I1" THEN FALSE ELSE 0)
      [] e.tag = "ITE" ->
            LET dt == differentiate_expr(e.args[2])
                df == differentiate_expr(e.args[3])
            IN  IF dt = Null \/ df = Null THEN Null ELSE ITE(e.args[1], dt, df)
      [] e.tag = "RdTmp" -> ShTmp(e.c)
      [] e.tag = "Get"   -> ShGet
      [] e.tag = "Load"  -> IF CanConvertToI64(e.op) THEN ShLoad(e.op, e.c) ELSE Null
      [] OTHER -> Null

-----------------------------------------------------------------------------
(* Evaluation of an expression in an environment env with fields tmp, sh   *)
(* (values and shadows of the temporaries), reg (the register read as a    *)
(* type), shreg, and the functions load and shload of a type and an        *)
(* address.  Junk in an operand gives Junk.                                *)
RECURSIVE Eval(_, _)
Eval(e, env) ==
    LET arg(k) == Eval(e.args[k], env)
        junk   == \E k \in DOMAIN e.args : e.tag # "ITE" /\ arg(k) = Junk
    IN
    CASE e.tag = "Const"  -> e.c
      [] e.tag = "RdTmp"  -> env.tmp[e.c]
      [] e.tag = "ShTmp"  -> env.sh[e.c]
      [] e.tag = "Get"    -> env.reg[e.op]
      [] e.tag = "ShGet"  -> env.shreg
      [] e.tag = "Load"   -> env.load[e.op, e.c]
      [] e.tag = "ShLoad" -> env.shload[e.op, e.c]
      [] junk -> Junk
      [] e.tag = "ITE"    -> IF arg(1) = Junk THEN Junk ELSE IF arg(1) THEN arg(2) ELSE arg(3)
      [] e.op = "AddF64"  -> arg(1) + arg(2)
      [] e.op = "SubF64"  -> arg(1) - arg(2)
      [] e.op = "MulF64"  -> arg(1) * arg(2)
      [] e.op = "NegF64"  -> -arg(1)
      [] e.op = "AbsF64"  -> IF arg(1) < 0 THEN -arg(1) ELSE arg(1)
      [] e.op = "CmpF64"  -> CmpF64(arg(1), arg(2))
      [] e.op = "32to1"   -> To1(arg(1))
      [] e.op = "F32toF64" -> arg(1)
      [] e.op = "MinNumF64" -> IF arg(1) <= arg(2) THEN arg(1) ELSE arg(2)
      [] OTHER -> Junk

(* Dual-number reference for the dot value of an expression: the chain    *)
(* rule applied to values, with "no derivative available" (Unknown) for    *)
(* an operation without rule, as the spec (4.1) allows.  denv has the      *)
(* fields of env and, in place of the shadows, the dot values ghost,       *)
(* ghostreg and ghostload.                                                 *)
RECURSIVE RefDot(_, _)
RefDot(e, denv) ==
    LET v(k) == Eval(e.args[k], denv)
        d(k) == RefDot(e.args[k], denv)
    IN
    CASE e.tag = "Const" -> 0
      [] e.tag = "RdTmp" -> denv.ghost[e.c]
      [] e.tag = "Get"   -> IF CanConvertToI64(e.op) THEN denv.ghostreg ELSE Unknown
      [] e.tag = "Load"  -> IF CanConvertToI64(e.op) THEN denv.ghostload[e.op, e.c]
                            ELSE Unknown
      [] e.tag = "ITE"   -> IF d(2) = Unknown \/ d(3) = Unknown THEN Unknown
                            ELSE IF v(1) THEN d(2) ELSE d(3)
      [] \E k \in DOMAIN e.args : d(k) = Unknown \/ v(k) = Junk -> Unknown
      [] e.op = "AddF64" -> d(1) + d(2)
      [] e.op = "SubF64" -> d(1) - d(2)
      [] e.op = "MulF64" -> d(1) * v(2) + v(1) * d(2)
      [] e.op = "NegF64" -> -d(1)
      [] e.op = "AbsF64" -> IF v(1) < 0 THEN -d(1) ELSE d(1)
      [] OTHER -> Unknown

=============================================================================
