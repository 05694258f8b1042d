--------------------------- MODULE TapeEvaluation ---------------------------
(***************************************************************************)
(* The tape evaluator (tape-evaluation): a stateless consumer of a tape    *)
(* and of the input and output index lists.  Its source is not part of the *)
(* sources at hand; both passes follow the spec, section 4.5.              *)
(*                                                                         *)
(* Accumulators are functions from 0..Len(tape) to the integers.  An       *)
(* operand index 0 contributes nothing and is never accumulated into.      *)
(***************************************************************************)
EXTENDS Integers, Sequences, SequencesExt

LOCAL Zeros(tape) == [j \in 0..Len(tape) |-> 0]

(* Forward replay: seed the input indices with the dot values, then visit  *)
(* the records from index 1 upwards, adding to each the dot values of its  *)
(* operands times the partials (spec scenario C: a seeded leaf keeps its   *)
(* seed).                                                                  *)
ForwardReplay(tape, ins, dots) ==
    LET Seed(acc, k)  == [acc EXCEPT ![ins[k]] = dots[k]]
        Term(acc, j, d) == IF j = 0 THEN 0 ELSE acc[j] * d
        Visit(acc, i) ==
            [acc EXCEPT ![i] = @ + Term(acc, tape[i].index1, tape[i].diff1)
                                 + Term(acc, tape[i].index2, tape[i].diff2)]
    IN  FoldLeftDomain(Visit, FoldLeftDomain(Seed, Zeros(tape), ins), tape)

(* A variant of the reverse replay below that visits the records in        *)
(* ascending order, as a forward loop copied from the forward replay would.*)
ReverseReplayAscending(tape, outs, bars) ==
    LET Seed(acc, k) == [acc EXCEPT ![outs[k]] = @ + bars[k]]
        Pull(acc, i) ==
            [j \in DOMAIN acc |->
                acc[j] + (IF j # 0 /\ j = tape[i].index1 THEN acc[i] * tape[i].diff1 ELSE 0)
                       + (IF j # 0 /\ j = tape[i].index2 THEN acc[i] * tape[i].diff2 ELSE 0)]
    IN  FoldLeftDomain(Pull, FoldLeftDomain(Seed, Zeros(tape), outs), tape)

(* Reverse replay: seed the output indices with the bar values, then visit *)
(* the records from the highest index down, pushing the adjoint of record  *)
(* i to its operands.  Two outputs with the same index add their seeds.    *)
ReverseReplay(tape, outs, bars) ==
    LET Seed(acc, k)  == [acc EXCEPT ![outs[k]] = @ + bars[k]]
        Push(i, acc)  ==
            [j \in DOMAIN acc |->
                acc[j] + (IF j # 0 /\ j = tape[i].index1 THEN acc[i] * tape[i].diff1 ELSE 0)
                       + (IF j # 0 /\ j = tape[i].index2 THEN acc[i] * tape[i].diff2 ELSE 0)]
    IN  FoldRightDomain(Push, tape, FoldLeftDomain(Seed, Zeros(tape), outs))

(* The results: dot values at the output indices, bar values at the input  *)
(* indices, each in declaration order.                                     *)
OutputDots(tape, ins, outs, dots) ==
    LET acc == ForwardReplay(tape, ins, dots) IN [k \in DOMAIN outs |-> acc[outs[k]]]

InputBars(tape, ins, outs, bars) ==
    LET acc == ReverseReplay(tape, outs, bars) IN [k \in DOMAIN ins |-> acc[ins[k]]]

=============================================================================
