---------------------------- MODULE MCDListSort -----------------------------
(***************************************************************************)
(* A small instance of DListSort for TLC.                                  *)
(***************************************************************************)
EXTENDS DListSort

CONSTANTS low, mid, twin, high

\* mid and twin are different payloads of equal rank.
FourRanks == [p \in Payload |-> IF p = low THEN 0 ELSE IF p = high THEN 2 ELSE 1]
=============================================================================
