------------------------------ MODULE AbsRing ------------------------------
(***************************************************************************)
(* What circular_list_dlist is to its caller: a sequence of items, a       *)
(* current position that clist_get_next rotates through, and the calls in  *)
(* which the process dies.  CList.tla is shown to implement it.            *)
(*                                                                         *)
(* pos is the position of the current item, 0 when there is none, and Lost *)
(* when the current item was removed.  index is what the list believes the *)
(* position to be, counted from 0: rotation, sorting and the first item    *)
(* set it right, insertions and removals in front of the current item do   *)
(* not, and a removal at an end of the list acts on it.  stale says that   *)
(* an index has been inserted at in a ring that had items.                 *)
(*                                                                         *)
(* It departs from the comment of clist_insert (circular_list.c:97-103)    *)
(* where the code does: an empty ring takes an item at any index, where    *)
(* the comment has C_FAIL for one out of range, and an insertion at the    *)
(* index of the head ends the process.                                     *)
(***************************************************************************)
EXTENDS Integers, SequencesExt

CONSTANTS Data, Index, NULL, C_SUCCESS, C_FAIL

Lost == -1

VARIABLES items, pos, index, stale, result, dead

vars == <<items, pos, index, stale, result, dead>>

Init ==
  /\ items = <<>> /\ pos = 0 /\ index = 0
  /\ stale = FALSE /\ result = NULL /\ dead = FALSE

Dies == dead' = TRUE /\ UNCHANGED <<items, pos, index, stale, result>>

Returns(r) == result' = r /\ UNCHANGED dead

InRange(i) == IF i >= 0 THEN i < Len(items) ELSE -i <= Len(items)
Position(i) == IF i >= 0 THEN i + 1 ELSE Len(items) + i + 1

\* The first item becomes the current one.
First(v) ==
  /\ items = <<>>
  /\ \/ stale /\ Dies
     \/ /\ ~stale
        /\ items' = <<v>> /\ pos' = 1 /\ index' = 0
        /\ Returns(C_SUCCESS) /\ UNCHANGED stale

\* The current item stays current, whatever is put in front of it.
PutAt(k, v) ==
  /\ items' = InsertAt(items, k, v)
  /\ pos' = IF pos >= k THEN pos + 1 ELSE pos
  /\ Returns(C_SUCCESS) /\ UNCHANGED index

PutAtIndex(v, i) ==
  \/ InRange(i) /\ Position(i) = 1 /\ Dies
  \/ InRange(i) /\ Position(i) # 1 /\ PutAt(Position(i), v) /\ stale' = TRUE
  \/ ~InRange(i) /\ Returns(C_FAIL) /\ stale' = TRUE /\ UNCHANGED <<items, pos, index>>

Insert(v, i, at) ==
  \/ First(v)
  \/ /\ items # <<>>
     /\ \/ at = "HEAD" /\ PutAt(1, v) /\ UNCHANGED stale
        \/ at = "TAIL" /\ PutAt(Len(items) + 1, v) /\ UNCHANGED stale
        \/ at = "INDEX" /\ PutAtIndex(v, i)

Value ==
  \/ pos = Lost /\ Dies
  \/ /\ pos # Lost
     /\ Returns(IF pos = 0 THEN NULL ELSE items[pos])
     /\ UNCHANGED <<items, pos, index, stale>>

\* The item behind the last is the first.
Rotate ==
  \/ (pos = Lost \/ items = <<>>) /\ Dies
  \/ /\ pos # Lost /\ items # <<>>
     /\ pos' = (pos % Len(items)) + 1
     /\ index' = IF pos' = 1 THEN 0 ELSE index + 1
     /\ Returns(items[pos'])
     /\ UNCHANGED <<items, stale>>

Find(v) ==
  /\ Returns(IF \E k \in 1..Len(items) : items[k] = v THEN v ELSE NULL)
  /\ UNCHANGED <<items, pos, index, stale>>

FirstAt(v, k) == /\ k \in 1..Len(items)
                 /\ items[k] = v
                 /\ \A j \in 1..(k-1) : items[j] # v

\* Where the current position goes when the item that is removed is taken for the
\* current one: on by one for the value of the head, back by one for that of the tail.
Beside(ofHead, ofTail) ==
  CASE pos = 0 -> 0
    [] pos # 0 /\ ofHead /\ pos = Len(items) -> 0
    [] pos # 0 /\ ofHead /\ pos # Len(items) -> IF ofTail THEN pos ELSE pos + 1
    [] pos # 0 /\ ~ofHead -> IF ofTail THEN pos - 1 ELSE pos

TakeOutAt(k) ==
  LET ofHead == items[k] = items[1]
      ofTail == items[k] = items[Len(items)]
      taken == (ofHead \/ ofTail) /\ index = k - 1
      p == IF taken THEN Beside(ofHead, ofTail) ELSE pos
  IN  \/ (ofHead \/ ofTail) /\ (stale \/ (taken /\ pos = Lost)) /\ Dies
      \/ /\ ~((ofHead \/ ofTail) /\ (stale \/ (taken /\ pos = Lost)))
         /\ items' = RemoveAt(items, k)
         /\ pos' = IF p = k THEN Lost ELSE IF p > k THEN p - 1 ELSE p
         /\ index' = IF pos' = 0 THEN 0 ELSE IF taken /\ ofTail THEN index - 2 ELSE index
         /\ Returns(items[k]) /\ UNCHANGED stale

TakeOut(v) ==
  \/ \E k \in 1..Len(items) : FirstAt(v, k) /\ TakeOutAt(k)
  \/ /\ \A k \in 1..Len(items) : items[k] # v
     /\ Returns(NULL) /\ UNCHANGED <<items, pos, index, stale>>

SortedBy(s, order) ==
  \A a, b \in 1..Len(s) :
    a < b => IF order = "C_ASCENDING" THEN s[a] <= s[b] ELSE s[a] >= s[b]

\* The position stays, not the item.
Sort(order) ==
  /\ \E p \in Bijection(1..Len(items), 1..Len(items)) :
       items' = [k \in 1..Len(items) |-> items[p[k]]]
  /\ SortedBy(items', order)
  /\ Returns(NULL) /\ UNCHANGED <<pos, index, stale>>

Destroy ==
  /\ items' = <<>> /\ pos' = 0 /\ index' = 0 /\ stale' = FALSE
  /\ Returns(NULL)

Next ==
  /\ ~dead
  /\ \/ \E v \in Data, i \in Index, at \in {"HEAD", "TAIL", "INDEX"} : Insert(v, i, at)
     \/ \E v \in Data : Find(v) \/ TakeOut(v)
     \/ \E order \in {"C_ASCENDING", "C_DESCENDING"} : Sort(order)
     \/ Value \/ Rotate \/ Destroy

Spec == Init /\ [][Next]_vars
=============================================================================
