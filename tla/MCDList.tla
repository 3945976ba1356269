------------------------------ MODULE MCDList ------------------------------
(***************************************************************************)
(* Small instances of DList for TLC.                                       *)
(***************************************************************************)
EXTENDS DList

\* Every index into a list of at most three nodes, and one too far on each side.
AllIndexes == -4..3

\* The index of the head, and no other.
HeadIndex == {0}

\* Addresses are interchangeable: neither the code nor a property orders them.
NodeSymmetry == Permutations(Node)
Symmetry == NodeSymmetry \cup Permutations(Iter)
=============================================================================
