------------------------------ MODULE AbsHeap ------------------------------
(***************************************************************************)
(* The heap_adt as its caller sees it: a bag of payloads that hands them   *)
(* back best first, and destroys once each those it owns and discards.     *)
(*                                                                         *)
(* It is weaker than heap.c's comments where the code is, and says when:   *)
(* a heap of wide copies dies at its first pop; heap_dump of a heap that   *)
(* holds something dies without a destroy callback, and may die, or hand   *)
(* the callback words that are no payloads, when it holds copies; the      *)
(* answer of heap_in_heap is one to rely on only when it holds copies and  *)
(* one of them compares equal.  In every other call it neither dies nor    *)
(* departs from the bag.                                                   *)
(***************************************************************************)
EXTENDS Integers

CONSTANTS Payload, Rank, NULL

VARIABLES
  bag,                    \* how many times each payload is in the heap
  heap_type,              \* which payloads are best
  owner,                  \* whether there is a destroy callback
  copies,                 \* whether it holds copies of the caller's payloads
  wide,                   \* whether they are wider than a pointer
  destroyed, ret, dead

vars == <<bag, heap_type, owner, copies, wide, destroyed, ret, dead>>

Held == {p \in Payload : bag[p] > 0}

\* What it discards it destroys, unless it is copies.
owns == owner /\ ~copies

Better(p, q) == IF heap_type = "MAX_HEAP" THEN Rank[p] > Rank[q] ELSE Rank[p] < Rank[q]

Init ==
  /\ bag = [p \in Payload |-> 0]
  /\ heap_type \in {"MAX_HEAP", "MIN_HEAP"}
  /\ owner \in BOOLEAN /\ copies \in BOOLEAN /\ wide \in BOOLEAN
  /\ destroyed = {} /\ ret = NULL /\ dead = FALSE

Dies == dead' = TRUE /\ UNCHANGED <<bag, destroyed, ret>>

Insert(p) ==
  /\ bag' = [bag EXCEPT ![p] = @ + 1]
  /\ destroyed' = destroyed \ {p} /\ ret' = NULL /\ UNCHANGED dead

Take(p) ==
  /\ \A q \in Held : ~Better(q, p)
  /\ bag' = [bag EXCEPT ![p] = @ - 1] /\ ret' = p
  /\ UNCHANGED <<destroyed, dead>>

Pop ==
  \/ Held = {} /\ ret' = NULL /\ UNCHANGED <<bag, destroyed, dead>>
  \/ Held # {} /\ copies /\ wide /\ Dies
  \/ ~(copies /\ wide) /\ \E p \in Held : Take(p)

Discard ==
  /\ owns => Held \cap destroyed = {}
  /\ destroyed' = IF owns THEN destroyed \cup Held ELSE destroyed
  /\ bag' = [p \in Payload |-> 0] /\ ret' = NULL /\ UNCHANGED dead

Dump ==
  \/ Held # {} /\ (~owner \/ copies) /\ Dies
  \/ (Held # {} => owner) /\ Discard

InHeap(d) ==
  \/ /\ copies => \A p \in Held : Rank[p] # Rank[d]
     /\ Dies \/ (ret' \in BOOLEAN /\ UNCHANGED <<bag, destroyed, dead>>)
  \/ /\ copies /\ \E p \in Held : Rank[p] = Rank[d]
     /\ ret' = TRUE /\ UNCHANGED <<bag, destroyed, dead>>

\* Discard is heap_destroy, and what heap_dump does to a heap it can dump.
Next ==
  /\ ~dead
  /\ (\E p \in Payload : Insert(p) \/ InHeap(p)) \/ Pop \/ Dump \/ Discard
  /\ UNCHANGED <<heap_type, owner, copies, wide>>

Spec == Init /\ [][Next]_vars
=============================================================================
