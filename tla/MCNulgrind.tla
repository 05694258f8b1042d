----------------------------- MODULE MCNulgrind -----------------------------
(* Instantiation of Nulgrind for TLC.                                      *)
EXTENDS Nulgrind, TLC

CONSTANTS a1, spam

MCAddrs     == {a1}
MCVals      == {1}
MCSeeds     == {1}
=============================================================================
