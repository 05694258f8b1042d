------------------------------ MODULE Nulgrind ------------------------------
(***************************************************************************)
(* Forward-mode instrumentation of the Nulgrind prototype (none/nl_main.c) *)
(* executing superblocks of a client.  A superblock has the temporaries    *)
(* 1..NT, each written at most once (SSA); a guest register and the memory *)
(* cells at Addrs persist across superblocks.  nl_instrument puts in front *)
(* of every statement the instrumentation that writes the shadow of the    *)
(* location the statement writes; executing the pair is one step.  One     *)
(* guest thread runs at a time, so the steps do not interleave.            *)
(*                                                                         *)
(* Every cell and value is 8 bytes wide: F64, or D64, a type that          *)
(* canConvertToI64 refuses.  A D64 value is the raw cell it was read from. *)
(* A shadow is the derivative the 8 shadow bytes encode, or Junk.          *)
(*                                                                         *)
(* Beside the shadows the module keeps, as history, the dot value a dual-  *)
(* number execution of the same statements gives every location (the      *)
(* ghost), Unknown after an operation without derivative rule.             *)
(***************************************************************************)
EXTENDS Integers, Sequences, FiniteSets, DiffExpr

CONSTANTS
    NT,        \* temporaries per superblock
    Addrs,     \* client addresses of 8-byte memory cells
    Vals,      \* values of constants and of the initial memory and register
    Seeds,     \* derivatives the user sets with the monitor command "set"
    ValBound,  \* bound on the magnitude of computed values and dot values
    SpamAddr,  \* the address 0xffff1111 nl_pre_clo_init writes 0xab to
    Unset      \* *ret of a request that the handler leaves unwritten

Types == {"F64", "D64"}
Cells == [ty : Types, v : Vals]

VARIABLES
    tv, tt,    \* value and type of every temporary of the current superblock
    ts,        \* shadow temporaries (t + t_offset)
    nextT,     \* the next temporary to be written
    rv, rs,    \* guest register (a cell) and its shadow (offset + total_sizeB)
    mv,        \* memory: the cell at every address
    ms,        \* shadow memory my_sm: the shadow of every cell
    gt, gr, gm,\* history: reference dot values of temporaries, register and
               \* memory
    reply      \* handled flag and *ret of the last client request

vars == <<tv, tt, ts, nextT, rv, rs, mv, ms, gt, gr, gm, reply>>

-----------------------------------------------------------------------------
(* The value a read of type ty takes from a cell: the bytes themselves for *)
(* D64, the number for F64 if an F64 was stored there, else bits no number *)
(* of the model stands for.                                                *)
LoadCell(ty, cell) ==
    IF ty = "D64" THEN cell ELSE IF cell.ty = "F64" THEN cell.v ELSE Junk

(* The cell a write of a value of type ty leaves.                          *)
StoreCell(ty, v) == IF ty = "D64" THEN v ELSE [ty |-> "F64", v |-> v]

(* The dirty helpers nl_Load_diff8 and nl_Store_diff8: the derivative in   *)
(* the 8 shadow bytes of address a, and shadow memory with it replaced.    *)
nl_Load_diff(a) == ms[a]
nl_Store_diff(a, d) == [ms EXCEPT ![a] = d]

(* The environment the generated code is evaluated in.                     *)
Env == [tmp |-> tv, sh |-> ts,
        reg |-> [ty \in Types |-> LoadCell(ty, rv)], shreg |-> rs,
        load |-> [p \in Types \X Addrs |-> LoadCell(p[1], mv[p[2]])],
        shload |-> [p \in Types \X Addrs |-> nl_Load_diff(p[2])],
        ghost |-> gt, ghostreg |-> gr,
        ghostload |-> [p \in Types \X Addrs |-> gm[p[2]]]]

(* The shadow expression differentiate_or_warn gives for e, Null if none.  *)
differentiate_or_warn(e) == differentiate_expr(e)

(* A number of magnitude at most ValBound, or a sentinel.                   *)
InRange(x) == x \in {Junk, Unknown} \/ x \in -ValBound..ValBound

(* Operands: the temporaries written so far and constants.                 *)
AnyAtoms == {Tmp(u) : u \in 1..(nextT - 1)} \cup {Cst(c) : c \in Vals}
F64Atoms == {x \in AnyAtoms : x.tag = "Const" \/ tt[x.c] = "F64"}
TypeOfAtom(x) == IF x.tag = "Const" THEN "F64" ELSE tt[x.c]

(* The right-hand sides of WrTmp statements: flat IR, so operations take   *)
(* atoms.  MinNumF64 stands for the Binops without rule.                   *)
Exprs ==
    AnyAtoms \cup {GetE(ty) : ty \in Types} \cup {LoadE(ty, a) : ty \in Types, a \in Addrs}
    \cup {Unop(op, x) : op \in {"NegF64", "AbsF64"}, x \in F64Atoms}
    \cup {Triop(op, x, y) : op \in {"AddF64", "SubF64", "MulF64"}, x, y \in F64Atoms}
    \cup {Binop("MinNumF64", x, y) : x, y \in F64Atoms}
    \cup {ITE(CondCst(b), x, y) : b \in BOOLEAN, x, y \in F64Atoms}

TypeOfExpr(e) ==
    CASE e.tag \in {"Get", "Load"} -> e.op
      [] e.tag = "RdTmp"           -> tt[e.c]
      [] OTHER                     -> "F64"

-----------------------------------------------------------------------------
(* The superblock's temporaries before its first statement: not written.   *)
FreshTemps ==
    /\ tv' = [t \in 1..NT |-> Junk]
    /\ tt' = [t \in 1..NT |-> "none"]
    /\ ts' = [t \in 1..NT |-> Junk]
    /\ gt' = [t \in 1..NT |-> Unknown]
    /\ nextT' = 1

(* Tool start (nl_pre_clo_init): the shadow map reads zero everywhere but  *)
(* at 0xffff1111, where one byte 0xab is set; the guest state's shadow is  *)
(* zero.  The client's memory and register hold arbitrary F64 or D64 data. *)
Init ==
    /\ tv = [t \in 1..NT |-> Junk]
    /\ tt = [t \in 1..NT |-> "none"]
    /\ ts = [t \in 1..NT |-> Junk]
    /\ gt = [t \in 1..NT |-> Unknown]
    /\ nextT = 1
    /\ rv \in Cells /\ rs = 0 /\ gr = 0
    /\ mv \in [Addrs -> Cells]
    /\ ms = [a \in Addrs |-> IF a = SpamAddr THEN Junk ELSE 0]
    /\ gm = [a \in Addrs |-> 0]
    /\ reply = [handled |-> TRUE, ret |-> Unset]

(* Ist_WrTmp t = e: the shadow temporary is written only when             *)
(* differentiate_or_warn gives an expression.                              *)
WrTmp(e) ==
    LET t  == nextT
        d  == differentiate_or_warn(e)
        v  == Eval(e, Env)
        sh == IF d = Null THEN ts[t] ELSE Eval(d, Env)
        g  == RefDot(e, Env)
    IN  /\ t <= NT
        /\ TypeOfExpr(e) = "F64" => InRange(v)
        /\ InRange(sh) /\ InRange(g)
        /\ tv' = [tv EXCEPT ![t] = v]
        /\ tt' = [tt EXCEPT ![t] = TypeOfExpr(e)]
        /\ ts' = [ts EXCEPT ![t] = sh]
        /\ gt' = [gt EXCEPT ![t] = g]
        /\ nextT' = t + 1
        /\ UNCHANGED <<rv, rs, mv, ms, gr, gm, reply>>

(* Ist_Put of an atom to the register; the shadow register at offset +     *)
(* total_sizeB is written only when there is a derivative expression.     *)
Put(x) ==
    LET d == differentiate_or_warn(x)
    IN  /\ rv' = StoreCell(TypeOfAtom(x), Eval(x, Env))
        /\ rs' = IF d = Null THEN rs ELSE Eval(d, Env)
        /\ gr' = RefDot(x, Env)
        /\ UNCHANGED <<tv, tt, ts, nextT, mv, ms, gt, gm, reply>>

(* A store whose shadow write ignores the guard of an Ist_StoreG.          *)
StoreUnguarded(a, x, g) ==
    LET ty    == TypeOfAtom(x)
        d     == differentiate_or_warn(x)
        write == CanConvertToI64(ty) /\ d # Null
    IN  /\ mv' = IF g THEN [mv EXCEPT ![a] = StoreCell(ty, Eval(x, Env))] ELSE mv
        /\ ms' = IF write THEN nl_Store_diff(a, Eval(d, Env)) ELSE ms
        /\ gm' = IF g THEN [gm EXCEPT ![a] = RefDot(x, Env)] ELSE gm
        /\ UNCHANGED <<tv, tt, ts, nextT, rv, rs, gt, gr, reply>>

(* Ist_Store (g = TRUE) and Ist_StoreG of atom x to address a.  For a type *)
(* canConvertToI64 accepts, a dirty call to nl_Store_diff8 with the        *)
(* store's guard writes the shadow; for any other type the shadow is left  *)
(* as it was.                                                              *)
Store(a, x, g) ==
    LET ty    == TypeOfAtom(x)
        d     == differentiate_or_warn(x)
        write == g /\ CanConvertToI64(ty) /\ d # Null
    IN  /\ mv' = IF g THEN [mv EXCEPT ![a] = StoreCell(ty, Eval(x, Env))] ELSE mv
        /\ ms' = IF write THEN nl_Store_diff(a, Eval(d, Env)) ELSE ms
        /\ gm' = IF g THEN [gm EXCEPT ![a] = RefDot(x, Env)] ELSE gm
        /\ UNCHANGED <<tv, tt, ts, nextT, rv, rs, gt, gr, reply>>

(* Ist_LoadG t = g ? load(ty, a) : alt.  For a convertible type the shadow *)
(* temporary gets ITE(g, nl_Load_diff8(a), d(alt)) if alt has a           *)
(* derivative; otherwise it is not written.                                *)
LoadG(ty, a, alt, g) ==
    LET t    == nextT
        dalt == differentiate_or_warn(alt)
        v    == IF g THEN LoadCell(ty, mv[a]) ELSE Eval(alt, Env)
        sh   == IF ~CanConvertToI64(ty) \/ dalt = Null THEN ts[t]
                ELSE IF g THEN nl_Load_diff(a) ELSE Eval(dalt, Env)
        gh   == IF g THEN RefDot(LoadE(ty, a), Env) ELSE RefDot(alt, Env)
    IN  /\ t <= NT
        /\ tv' = [tv EXCEPT ![t] = v]
        /\ tt' = [tt EXCEPT ![t] = ty]
        /\ ts' = [ts EXCEPT ![t] = sh]
        /\ gt' = [gt EXCEPT ![t] = gh]
        /\ nextT' = t + 1
        /\ UNCHANGED <<rv, rs, mv, ms, gr, gm, reply>>

(* Ist_CAS: oldLo := mem[a]; if oldLo = expd then mem[a] := new.  It is    *)
(* not instrumented: the shadow of oldLo is set to the F64 constant 0 and  *)
(* shadow memory is left as it was.  The reference has no derivative for a *)
(* statement without rule.                                                 *)
CAS(a, expd, new) ==
    LET t   == nextT
        old == LoadCell("F64", mv[a])
        hit == old = Eval(expd, Env)
    IN  /\ t <= NT
        /\ tv' = [tv EXCEPT ![t] = old]
        /\ tt' = [tt EXCEPT ![t] = "F64"]
        /\ ts' = [ts EXCEPT ![t] = 0]
        /\ gt' = [gt EXCEPT ![t] = Unknown]
        /\ nextT' = t + 1
        /\ mv' = IF hit THEN [mv EXCEPT ![a] = StoreCell("F64", Eval(new, Env))] ELSE mv
        /\ gm' = IF hit THEN [gm EXCEPT ![a] = Unknown] ELSE gm
        /\ UNCHANGED <<rv, rs, ms, gr, reply>>

(* Monitor commands: nl_handle_gdb_monitor_command looks up the first     *)
(* word among "help get set".  An ambiguous word and help are handled, an  *)
(* unknown one is not; get and set are handled when their address parses. *)
(* get only prints the 8 shadow bytes at the address.                      *)
MonitorCommands == {"ambiguous", "unknown", "help", "get", "set"}

MonitorHandled(c, addrOK) ==
    CASE c \in {"ambiguous", "help"} -> TRUE
      [] c = "unknown"               -> FALSE
      [] OTHER                       -> addrOK

(* "set <addr> <derivative>" writes the 8 bytes of the double to shadow    *)
(* memory; it seeds the derivative of the cell.                            *)
GdbSet(a, d) ==
    /\ ms' = [ms EXCEPT ![a] = d]
    /\ gm' = [gm EXCEPT ![a] = d]

(* nl_handle_client_request with VG_USERREQ__GDB_MONITOR_COMMAND: the      *)
(* command runs, then *ret is 1 if it was handled, else 0.                  *)
MonitorRequest(c, a, d, addrOK) ==
    LET handled == MonitorHandled(c, addrOK)
    IN  /\ IF c = "set" /\ addrOK THEN GdbSet(a, d) ELSE UNCHANGED <<ms, gm>>
        /\ reply' = [handled |-> handled, ret |-> IF handled THEN 1 ELSE 0]
        /\ UNCHANGED <<tv, tt, ts, nextT, rv, rs, mv, gt, gr>>

(* Any other request: "Unhandled user request." is printed and the request *)
(* is reported handled, with *ret not written.                             *)
OtherRequest ==
    /\ reply' = [handled |-> TRUE, ret |-> Unset]
    /\ UNCHANGED <<tv, tt, ts, nextT, rv, rs, mv, ms, gt, gr, gm>>

(* The superblock ends (Ist_Exit or its end); the next one starts with     *)
(* fresh temporaries.                                                      *)
EndBlock ==
    /\ nextT > 1
    /\ FreshTemps
    /\ UNCHANGED <<rv, rs, mv, ms, gr, gm, reply>>

Next ==
    \/ \E e \in Exprs : WrTmp(e)
    \/ \E x \in AnyAtoms : Put(x)
    \/ \E a \in Addrs, x \in AnyAtoms, g \in BOOLEAN : Store(a, x, g)
    \/ \E ty \in Types, a \in Addrs, alt \in AnyAtoms :
          \E g \in BOOLEAN : TypeOfAtom(alt) = ty /\ LoadG(ty, a, alt, g)
    \/ \E a \in Addrs, expd, new \in F64Atoms : CAS(a, expd, new)
    \/ \E c \in MonitorCommands, a \in Addrs, d \in Seeds :
          \E addrOK \in IF c \in {"get", "set"} THEN BOOLEAN ELSE {TRUE} :
              MonitorRequest(c, a, d, addrOK)
    \/ OtherRequest
    \/ EndBlock

Spec == Init /\ [][Next]_vars

(* No guard reads reply: two states that differ only in it have the same   *)
(* futures, so TLC may compare states without it.                          *)
NoReplyView == <<tv, tt, ts, nextT, rv, rs, mv, ms, gt, gr, gm>>

-----------------------------------------------------------------------------
(* Forward mode is exact wherever a derivative is defined: every           *)
(* temporary written in this superblock, the register and every memory     *)
(* cell whose dual-number dot value is known hold that value in their      *)
(* shadow, whatever path of WrTmp/Put/Store(G)/LoadG/CAS statements, shadow *)
(* loads and stores, monitor "set" commands and superblock ends led there.  *)
(* Unsupported operations, D64 copies and CAS only make the dot unknown.   *)
DotExact ==
    /\ \A t \in 1..(nextT - 1) : gt[t] # Unknown => ts[t] = gt[t]
    /\ gr # Unknown => rs = gr
    /\ \A a \in Addrs : gm[a] # Unknown => ms[a] = gm[a]

=============================================================================
