------------------------------ MODULE MCStack ------------------------------
(***************************************************************************)
(* Small instances of Stack for TLC.                                       *)
(***************************************************************************)
EXTENDS Stack

\* Every position of a stack of up to five payloads, and one too far.
Positions == 0..6

=============================================================================
