------------------------- MODULE MCInstrumentation -------------------------
(* Instantiation of Instrumentation for TLC.                               *)
EXTENDS Instrumentation, TLC

CONSTANTS t1, t2, t3

MCTids == {t1, t2, t3}
=============================================================================
