---------------------------- MODULE MCRecording ----------------------------
(***************************************************************************)
(* Recording mode with two client variables, values from {0, 1}, two   *)
(* inputs, one output and a tape of three records.  W = 1 makes index 2    *)
(* the first one that needs the upper shadow layer.                        *)
(***************************************************************************)
EXTENDS Recording, TLC

CONSTANTS a, b

MCVars == {a, b}
MCVals == {0, 1}
MCSeeds == <<1, 2>>

(* no --record-stop *)
MCNoStop == <<>>

(* --record-stop=2,3 *)
MCStopOption == <<2, 3>>

(* --record-stop=2,x,3: the middle token is not a number. *)
MCStopOptionBadToken == <<2, 0, 3>>

MCSymmetry == Permutations(MCVars)

=============================================================================
