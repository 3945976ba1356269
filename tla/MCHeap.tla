------------------------------- MODULE MCHeap -------------------------------
(***************************************************************************)
(* Small instances of HeapSort, and so of Heap, for TLC.                   *)
(***************************************************************************)
EXTENDS HeapSort

CONSTANTS low, mid, twin, high

\* mid and twin are different payloads of equal rank.
FourRanks == [p \in Payload |-> IF p = low THEN 0 ELSE IF p = high THEN 2 ELSE 1]
=============================================================================
