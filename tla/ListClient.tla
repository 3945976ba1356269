----------------------------- MODULE ListClient -----------------------------
(***************************************************************************)
(* What the queue and the circular list have in common: each call of theirs*)
(* runs calls of a dlist and turns what those return into its own result.  *)
(***************************************************************************)
EXTENDS DList

VARIABLE result           \* what the last call of the client returned

\* A call returns, unless the process died in it.
Returns(r) == result' = IF status' \in Crashes THEN result ELSE r
=============================================================================
