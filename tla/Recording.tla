------------------------------ MODULE Recording ------------------------------
(***************************************************************************)
(* Recording mode of Derivgrind (--record=<dir>) running a client program  *)
(* whose floating-point variables live at the addresses Vars.  Every step  *)
(* is one instrumented statement or one client request: dg_instrument      *)
(* emits the instrumentation of a statement in front of the statement      *)
(* itself, so the instrumentation reads the operands before the original   *)
(* statement overwrites them; a client request runs atomically inside      *)
(* dg_handle_client_request.                                               *)
(*                                                                         *)
(* Beside the recording state (values, the two index layers, the tape and  *)
(* the index files) the module keeps, as history variables, what a         *)
(* forward-mode run (mode 'd') of the same client would compute: the dot   *)
(* value of every variable, seeded with Seeds[k] when the k-th input is    *)
(* declared, and the dot value of every declared output.  The properties   *)
(* compare the evaluated tape with them.                                   *)
(***************************************************************************)
EXTENDS Integers, Sequences, SequencesExt, TapeRecorder, TapeEvaluation,
        DerivativeRules

CONSTANTS
    Vars,        \* addresses of the client's floating-point variables
    Vals,        \* values the client assigns from constants
    ValBound,    \* bound on the magnitude of computed values
    W,           \* bits per index half (32 in the code)
    MaxTape,     \* bound on the tape length
    Seeds,       \* dot seeds of the inputs, in declaration order
    MaxOutputs,  \* bound on the number of declared outputs
    StopOption,  \* tokens of --record-stop, as strtoull10 reads them
    TypeGrind    \* --typegrind=yes

ASSUME TypeGrind => MaxTape < 2^(2 * W) - 1   \* ff..f is never a real index

VARIABLES
    val,      \* value of every variable
    lo, hi,   \* the shadow layers sm_barLo, sm_barHi
    tape,     \* the tape
    inIdx,    \* dg-input-indices
    outIdx,   \* dg-output-indices
    stopAt,   \* index at which recording stopped in the debugger, or 0
    trapped,  \* history: indices at which recording has stopped
    dot,      \* history: dot value of every variable in forward mode
    outDot    \* history: forward-mode dot value of every declared output

vars == <<val, lo, hi, tape, inIdx, outIdx, stopAt, trapped, dot, outDot>>

Shadow == INSTANCE BarShadow

StopList == StopIndices(StopOption)

-----------------------------------------------------------------------------
(* Index shadow access.                                                    *)

(* The operand index dg_bar_writeToTape_call assembles from the two layers *)
(* (loaded by dg_bar_load).                                                *)
IndexOf(v) == Shadow!Assemble(lo[v], hi[v])

(* dg_bar_store of the two halves of index i to the shadow of v.           *)
StoreIndex(v, i) ==
    /\ lo' = [lo EXCEPT ![v] = Shadow!IndexLo(i)]
    /\ hi' = [hi EXCEPT ![v] = Shadow!IndexHi(i)]

(* Reaching an index given in --record-stop stops recording in the         *)
(* debugger.                                                               *)
StopCheck(i) ==
    IF i \in StopList
    THEN stopAt' = i /\ trapped' = trapped \cup {i}
    ELSE UNCHANGED <<stopAt, trapped>>

Running == stopAt = 0

InRange(x) == -ValBound <= x /\ x <= ValBound

-----------------------------------------------------------------------------
(* Instrumented statements.                                                *)


(* One instrumented statement z := f(x, y) whose generated rule passes the *)
(* operand indices i1, i2 and partials d to dg_bar_writeToTape.  The dirty *)
(* call dg_bar_writeToTape_call assembles the indices and calls            *)
(* tapeAddStatement, which asserts that an operand index is smaller than   *)
(* the new index (a violation ends the process, so no step follows); the   *)
(* result is split into the two layers and stored as shadow of z.  The     *)
(* instrumentation is placed in front of the original statement, so it     *)
(* reads the operands' shadows before the original statement writes the   *)
(* value of z.  The forward-mode run writes the dot value newDot instead.  *)
WriteToTape(z, i1, i2, d, newVal, newDot) ==
    LET e == Entry(i1, i2, d[1], d[2])
        i == AddedIndex(tape, e)
    IN  /\ Running
        /\ InRange(newVal)
        /\ i1 <= Len(tape) /\ i2 <= Len(tape)
        /\ Inactive(e) \/ Len(tape) < MaxTape
        /\ tape' = TapeAfterAdd(tape, e)
        /\ StoreIndex(z, i)
        /\ StopCheck(i)
        /\ val' = [val EXCEPT ![z] = newVal]
        /\ dot' = [dot EXCEPT ![z] = newDot]
        /\ UNCHANGED <<inIdx, outIdx, outDot>>

Add(z, x, y) ==
    WriteToTape(z, IndexOf(x), IndexOf(y), PartialsAdd,
                val[x] + val[y], DotAdd(dot[x], dot[y]))

Mul(z, x, y) ==
    WriteToTape(z, IndexOf(x), IndexOf(y), PartialsMul(val[x], val[y]),
                val[x] * val[y], DotMul(val[x], val[y], dot[x], dot[y]))

(* Unary operations pass index 0 and partial 0 for the second operand.     *)
Neg(z, x) ==
    WriteToTape(z, IndexOf(x), 0, PartialsNeg, -val[x], DotNeg(dot[x]))

Abs(z, x) ==
    WriteToTape(z, IndexOf(x), 0, PartialsAbs(val[x]),
                IF val[x] < 0 THEN -val[x] ELSE val[x], DotAbs(val[x], dot[x]))

(* z := c for a constant c: dg_bar_constant gives index 0 in both layers   *)
(* and no tape entry; the dot value is zero.                               *)
Const(z, c) ==
    /\ Running
    /\ val' = [val EXCEPT ![z] = c]
    /\ StoreIndex(z, 0)
    /\ dot' = [dot EXCEPT ![z] = 0]
    /\ UNCHANGED <<tape, inIdx, outIdx, stopAt, trapped, outDot>>

(* z := x through a temporary, register or memory: the shadow read         *)
(* (rdtmp, geti, load) is written to the shadow of z (wrtmp, puti, store)  *)
(* in both layers.                                                         *)
Copy(z, x) ==
    /\ Running
    /\ val' = [val EXCEPT ![z] = val[x]]
    /\ lo' = [lo EXCEPT ![z] = lo[x]]
    /\ hi' = [hi EXCEPT ![z] = hi[x]]
    /\ dot' = [dot EXCEPT ![z] = dot[x]]
    /\ UNCHANGED <<tape, inIdx, outIdx, stopAt, trapped, outDot>>

(* A variant of Unsupported below that ignores --typegrind and always     *)
(* writes ff..f.                                                           *)
UnsupportedAlwaysOnes(z, v) ==
    /\ Running
    /\ val' = [val EXCEPT ![z] = v]
    /\ lo' = [lo EXCEPT ![z] = Shadow!Ones]
    /\ hi' = [hi EXCEPT ![z] = Shadow!Ones]
    /\ UNCHANGED <<tape, inIdx, outIdx, stopAt, trapped, dot, outDot>>

(* z := f(..) for an operation without derivative rule: dg_bar_operation   *)
(* falls to its default case.  With --typegrind=yes the result gets the    *)
(* index ff..f in both layers; otherwise it returns NULL and the           *)
(* statement gets no instrumentation, so the shadow of z keeps its old     *)
(* index, as the dot value keeps its old value in forward mode.            *)
Unsupported(z, v) ==
    /\ Running
    /\ val' = [val EXCEPT ![z] = v]
    /\ IF TypeGrind
       THEN /\ lo' = [lo EXCEPT ![z] = Shadow!Ones]
            /\ hi' = [hi EXCEPT ![z] = Shadow!Ones]
       ELSE UNCHANGED <<lo, hi>>
    /\ UNCHANGED <<tape, inIdx, outIdx, stopAt, trapped, dot, outDot>>

-----------------------------------------------------------------------------
(* Client requests and debugger commands.                                  *)

(* DG_INPUTF(x): the client requests NEW_INDEX_NOACTIVITYANALYSIS for the  *)
(* statement (0, 0, 0, 0), SET_INDEX of x to the returned index, and       *)
(* INDEX_TO_FILE of that index to the input file.  The forward-mode run    *)
(* seeds x with the next seed.                                             *)
MarkInput(x) ==
    LET i == Len(tape) + 1
    IN  /\ Running
        /\ Len(tape) < MaxTape
        /\ Len(inIdx) < Len(Seeds)
        /\ tape' = TapeAfterAddNoAA(tape, Entry(0, 0, 0, 0))
        /\ StoreIndex(x, i)
        /\ StopCheck(i)
        /\ inIdx' = Append(inIdx, i)
        /\ dot' = [dot EXCEPT ![x] = Seeds[Len(inIdx) + 1]]
        /\ UNCHANGED <<val, outIdx, outDot>>

(* DG_OUTPUTF(x): GET_INDEX of x and INDEX_TO_FILE of it to the output     *)
(* file.  The forward-mode run reports the dot value of x.                 *)
MarkOutput(x) ==
    /\ Running
    /\ Len(outIdx) < MaxOutputs
    /\ outIdx' = Append(outIdx, IndexOf(x))
    /\ outDot' = Append(outDot, dot[x])
    /\ UNCHANGED <<val, lo, hi, tape, inIdx, stopAt, trapped, dot>>

(* The monitor command "mark <addr>", possible whenever the client is      *)
(* halted in the debugger: a new leaf from                                 *)
(* tapeAddStatement_noActivityAnalysis(0,0,0,0) becomes the index of x     *)
(* (with a warning if x had a nonzero index).  It is not written to the    *)
(* input file, so x becomes independent of everything and no forward-mode *)
(* seed reaches it.                                                        *)
GdbMark(x) ==
    LET i == Len(tape) + 1
    IN  /\ Len(tape) < MaxTape
        /\ tape' = TapeAfterAddNoAA(tape, Entry(0, 0, 0, 0))
        /\ StoreIndex(x, i)
        /\ StopCheck(i)
        /\ dot' = [dot EXCEPT ![x] = 0]
        /\ UNCHANGED <<val, inIdx, outIdx, outDot>>

(* The user continues the client after a stop.                             *)
Resume ==
    /\ ~Running
    /\ stopAt' = 0
    /\ UNCHANGED <<val, lo, hi, tape, inIdx, outIdx, trapped, dot, outDot>>

-----------------------------------------------------------------------------
(* dg_bar_initialize: fresh shadow maps read as index 0 everywhere; the    *)
(* tape and the index files are empty.                                     *)
Init ==
    /\ val \in [Vars -> Vals]
    /\ lo = [v \in Vars |-> 0]
    /\ hi = [v \in Vars |-> 0]
    /\ tape = <<>>
    /\ inIdx = <<>>
    /\ outIdx = <<>>
    /\ stopAt = 0
    /\ trapped = {}
    /\ dot = [v \in Vars |-> 0]
    /\ outDot = <<>>

Next ==
    \/ \E z, x, y \in Vars : Add(z, x, y) \/ Mul(z, x, y)
    \/ \E z, x \in Vars : Neg(z, x) \/ Abs(z, x) \/ Copy(z, x)
    \/ \E z \in Vars, v \in Vals : Unsupported(z, v)
    \/ \E z \in Vars, c \in Vals : Const(z, c)
    \/ \E x \in Vars : MarkInput(x) \/ MarkOutput(x) \/ GdbMark(x)
    \/ Resume

Spec == Init /\ [][Next]_vars

-----------------------------------------------------------------------------
(* Properties.                                                             *)

TypeOK ==
    /\ val \in [Vars -> Int]
    /\ lo \in [Vars -> Shadow!Half]
    /\ hi \in [Vars -> Shadow!Half]
    /\ tape \in Seq([index1 : Nat, index2 : Nat, diff1 : Int, diff2 : Int])
    /\ inIdx \in Seq(Nat) /\ outIdx \in Seq(Nat)
    /\ Len(outDot) = Len(outIdx)
    /\ stopAt \in Nat /\ trapped \subseteq Nat

(* The index in the two shadow layers of every variable names a record     *)
(* that is already on the tape (or is 0): the split of the index returned  *)
(* by tapeAddStatement into sm_barLo/sm_barHi and its reassembly in        *)
(* dg_bar_writeToTape_call, the pruning of inactive statements and the     *)
(* index kept by an uninstrumented statement never yield an index the      *)
(* tape evaluator cannot resolve.                                          *)
ShadowIndexValid ==
    \A v \in Vars : IndexOf(v) <= Len(tape)

(* Replaying the tape forward, seeded with the inputs' seeds, gives at     *)
(* every declared output the dot value forward mode computes for the same  *)
(* client: recording and forward mode agree through pruning, copies,       *)
(* constants, operations without derivative rule and debugger marks.      *)
FwdConsistent ==
    OutputDots(tape, inIdx, outIdx, Seeds) = outDot

(* Reverse replay is the adjoint of forward mode: for every choice of      *)
(* output bar values, the bars it returns at the inputs, weighted with the *)
(* inputs' seeds, sum to the forward-mode output dots weighted with the    *)
(* bars (the dot-product test).                                            *)
AdjointConsistent ==
    LET n == Len(inIdx)
        SumOf(f) == FoldFunctionOnSet(+, 0, f, DOMAIN f)
    IN  \A bars \in [DOMAIN outIdx -> {0, 1}] :
            SumOf([k \in DOMAIN outIdx |-> bars[k] * outDot[k]])
          = SumOf([k \in 1..n |-> InputBars(tape, inIdx, outIdx, bars)[k] * Seeds[k]])

(* Every index given in --record-stop that has been assigned on the tape   *)
(* has stopped the client in the debugger.                                 *)
StopTrap ==
    \A k \in DOMAIN StopOption :
        StopOption[k] \in 1..Len(tape) => StopOption[k] \in trapped

=============================================================================
