---------------------------- MODULE TapeRecorder ----------------------------
(***************************************************************************)
(* The append-only tape of recording mode (bar/dg_bar_tape.c).  That file *)
(* is not part of the sources at hand, so tapeAddStatement and its         *)
(* non-pruning variant are taken from the spec (section 4.4); the parser   *)
(* of the --record-stop option is translated from dg_post_clo_init.        *)
(*                                                                         *)
(* The operators are pure: the caller passes the tape and uses the         *)
(* returned index and tape in the same step, as the dirty helper and the   *)
(* client-request handler do.                                              *)
(***************************************************************************)
EXTENDS Integers, Sequences, FiniteSets

(* A tape record: two operand indices and two partial derivatives.  The    *)
(* record at position i of the tape has the implicit index i; index 0      *)
(* means "no dependency".                                                  *)
Entry(i1, i2, d1, d2) ==
    [index1 |-> i1, index2 |-> i2, diff1 |-> d1, diff2 |-> d2]

(* Activity pruning of tapeAddStatement: a statement with no operand       *)
(* index and no partial derivative is not recorded.                        *)
Inactive(e) ==
    e.index1 = 0 /\ e.index2 = 0 /\ e.diff1 = 0 /\ e.diff2 = 0

(* A variant that hands out a new index even for a pruned statement.      *)
AddedIndexUnpruned(tape, e) == Len(tape) + 1

(* The index tapeAddStatement returns for statement e.                     *)
AddedIndex(tape, e) ==
    IF Inactive(e) THEN 0 ELSE Len(tape) + 1

(* The tape after tapeAddStatement(e).                                     *)
TapeAfterAdd(tape, e) ==
    IF Inactive(e) THEN tape ELSE Append(tape, e)

(* tapeAddStatement_noActivityAnalysis always appends; it returns          *)
(* Len(tape) + 1.                                                          *)
TapeAfterAddNoAA(tape, e) == Append(tape, e)

(* A variant of the parser below that loses the last token (the           *)
(* terminating 0 written over it).                                         *)
StopIndicesDropLast(tokens) ==
    {tokens[k] : k \in 1..(Len(tokens) - 1)} \ {0}

(* dg_post_clo_init splits --record-stop=<i1>,..,<ik> at commas, converts  *)
(* every token with strtoull10 (a token that is not a number gives 0) and  *)
(* writes a 0 behind the last one.  The array is 0-terminated, so whoever  *)
(* reads it stops at the first 0: tokens behind it are never seen.         *)
StopIndices(tokens) ==
    LET zeros == {k \in 1..Len(tokens) : tokens[k] = 0}
        end   == IF zeros = {} THEN Len(tokens) + 1
                 ELSE CHOOSE k \in zeros : \A j \in zeros : k <= j
    IN  {tokens[k] : k \in 1..(end - 1)}

=============================================================================
