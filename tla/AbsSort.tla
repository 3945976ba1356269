------------------------------ MODULE AbsSort -------------------------------
(***************************************************************************)
(* What a sort in place promises its caller: in one step, if it ends at    *)
(* all, the payloads it was given, each as often as before, in the order   *)
(* asked for.  The order says what comes first.                            *)
(***************************************************************************)
EXTENDS Integers, Sequences, Functions

CONSTANTS Payload, Rank

VARIABLES array, order, ended

vars == <<array, order, ended>>

InOrder(p, q) == IF order = "LOWEST_FIRST" THEN Rank[p] <= Rank[q] ELSE Rank[p] >= Rank[q]

Sorted(a) == \A i, j \in DOMAIN a : i < j => InOrder(a[i], a[j])

Init ==
  /\ array \in Seq(Payload)
  /\ order \in {"LOWEST_FIRST", "HIGHEST_FIRST"} /\ ended = FALSE

Sort ==
  /\ ~ended /\ ended' = TRUE
  /\ \E p \in Bijection(DOMAIN array, DOMAIN array) :
       array' = [k \in DOMAIN array |-> array[p[k]]]
  /\ Sorted(array')
  /\ UNCHANGED order

Spec == Init /\ [][Sort]_vars
=============================================================================
