------------------------------- MODULE MCTree -------------------------------
(***************************************************************************)
(* Instances of TreeMap for TLC.                                           *)
(***************************************************************************)
EXTENDS TreeMap

CONSTANTS p1, p2, p3, p4, p5, again

NoNode == <<>>

\* again has the key of p3: one of them can find the other in the tree.
FiveKeys ==
  [p \in Payload |->
     CASE p = p1 -> 1 [] p = p2 -> 2 [] p \in {p3, again} -> 3
       [] p = p4 -> 4 [] p = p5 -> 5]
=============================================================================
