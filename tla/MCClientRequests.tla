-------------------------- MODULE MCClientRequests --------------------------
(* Instantiation of ClientRequests for TLC.                                *)
EXTENDS ClientRequests, TLC

CONSTANTS t1, t2, x1

MCTids     == {t1, t2}
MCAddrs    == {x1}
MCSymmetry == Permutations(MCTids)
=============================================================================
