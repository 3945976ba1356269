------------------------------ MODULE MCQueue ------------------------------
(***************************************************************************)
(* Small instances of Queue for TLC.                                       *)
(***************************************************************************)
EXTENDS Queue

\* An int of four bits: 0..7 fit it, 8..15 come back negative, 16 and up wrap.
SizeIndexes == 0..17

NodeSymmetry == Permutations(Node)
=============================================================================
