------------------------------ MODULE AbsStack ------------------------------
(***************************************************************************)
(* What stack_adt promises its caller: payloads come back last in, first   *)
(* out, and those the stack discards are destroyed once each.              *)
(***************************************************************************)
EXTENDS Integers, SequencesExt

CONSTANTS Payload, Index, NULL

VARIABLES
  items,                  \* bottom of the stack first
  destroyed,              \* payloads handed to the destroy callback
  ret

vars == <<items, destroyed, ret>>

Init == items = <<>> /\ destroyed = {} /\ ret = NULL

Held == {items[k] : k \in 1..Len(items)}

\* The caller pushes a payload of its own, which may be a new one at the address
\* of one destroyed before.
Push(p) ==
  /\ p \notin Held
  /\ items' = Append(items, p)
  /\ destroyed' = destroyed \ {p} /\ ret' = NULL

Pop ==
  /\ UNCHANGED destroyed
  /\ \/ items = <<>> /\ UNCHANGED items /\ ret' = NULL
     \/ /\ items # <<>>
        /\ items' = SubSeq(items, 1, Len(items) - 1) /\ ret' = items[Len(items)]

\* Position i counts from the bottom, from zero.
NthPeek(i) ==
  /\ UNCHANGED <<items, destroyed>>
  /\ ret' = IF i < Len(items) THEN items[i + 1] ELSE NULL

Peek ==
  /\ UNCHANGED <<items, destroyed>>
  /\ ret' = IF items = <<>> THEN NULL ELSE items[Len(items)]

\* One round of the loop of stack_dump.
Discard ==
  /\ items # <<>> /\ items[Len(items)] \notin destroyed
  /\ items' = SubSeq(items, 1, Len(items) - 1)
  /\ destroyed' = destroyed \cup {items[Len(items)]} /\ ret' = NULL

Destroy ==
  /\ Held \cap destroyed = {}
  /\ items' = <<>> /\ destroyed' = destroyed \cup Held /\ ret' = NULL

Next ==
  \/ \E p \in Payload : Push(p)
  \/ \E i \in Index : NthPeek(i)
  \/ Pop \/ Peek \/ Discard \/ Destroy

Spec == Init /\ [][Next]_vars
=============================================================================
