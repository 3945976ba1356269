------------------------------ MODULE AbsQueue ------------------------------
(***************************************************************************)
(* What queue_dlist promises its caller: a bounded first-in first-out      *)
(* queue that also lets the caller look at an item or take one out of turn.*)
(***************************************************************************)
EXTENDS Integers, SequencesExt

CONSTANTS
  Data, Index,              \* the items, and the positions asked for
  IntHalf,                  \* positions from here on do not fit an int
  NULL, Q_SUCCESS, Q_FAILURE

VARIABLES items, queue_size, result

vars == <<items, queue_size, result>>

Init == items = <<>> /\ queue_size \in Nat /\ result = NULL

FirstAt(v, k) == /\ k \in 1..Len(items)
                 /\ items[k] = v
                 /\ \A j \in 1..(k-1) : items[j] # v

Enqueue(v) ==
  \/ /\ Len(items) < queue_size
     /\ items' = Append(items, v) /\ result' = Q_SUCCESS
  \/ /\ Len(items) = queue_size
     /\ UNCHANGED items /\ result' = Q_FAILURE

Dequeue ==
  \/ items # <<>> /\ items' = Tail(items) /\ result' = Head(items)
  \/ items = <<>> /\ UNCHANGED items /\ result' = NULL

TakeOut(v) ==
  \/ \E k \in 1..Len(items) :
       FirstAt(v, k) /\ items' = RemoveAt(items, k) /\ result' = v
  \/ /\ \A k \in 1..Len(items) : items[k] # v
     /\ UNCHANGED items /\ result' = NULL

GetByValue(v) ==
  /\ UNCHANGED items
  /\ result' = IF \E k \in 1..Len(items) : items[k] = v THEN v ELSE NULL

\* A position that does not fit an int finds some item, or none.
GetByIndex(i) ==
  /\ UNCHANGED items
  /\ \/ i < IntHalf /\ i < Len(items) /\ result' = items[i + 1]
     \/ i < IntHalf /\ i >= Len(items) /\ result' = NULL
     \/ i >= IntHalf /\ result' \in {NULL} \cup {items[k] : k \in 1..Len(items)}

Destroy == items' = <<>> /\ result' = NULL

Next ==
  /\ \/ \E v \in Data : Enqueue(v) \/ TakeOut(v) \/ GetByValue(v)
     \/ \E i \in Index : GetByIndex(i)
     \/ Dequeue \/ Destroy
  /\ UNCHANGED queue_size

Spec == Init /\ [][Next]_vars
=============================================================================
