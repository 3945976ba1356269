------------------------------ MODULE MCCList ------------------------------
(***************************************************************************)
(* Small instances of CList for TLC.                                       *)
(***************************************************************************)
EXTENDS CList

\* The ends, the middle, and one too far, of a list of up to three items.
RingIndexes == {-2, 0, 1, 3}

NodeSymmetry == Permutations(Node)
=============================================================================
