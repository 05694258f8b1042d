--------------------------- MODULE MCNulgrindBytes ---------------------------
(* Instantiation of NulgrindBytes for TLC: eight client bytes, so that an  *)
(* 8-byte access fits and narrower ones overlap it at every offset.        *)
EXTENDS NulgrindBytes, TLC

MCBytes      == {0, 1, 2}
AllTypes     == {"I8", "I16", "I32", "I64", "F32", "F64"}
=============================================================================
