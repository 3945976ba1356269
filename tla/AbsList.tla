------------------------------ MODULE AbsList ------------------------------
(***************************************************************************)
(* What the dlist API is to its caller, with no pointer in sight: a        *)
(* sequence of values, changed and read by position or by value, and the   *)
(* calls in which the process dies.  DList.tla is shown to implement it.   *)
(*                                                                         *)
(* ret is what the last call returned.  A call that hands back no data     *)
(* (void functions, iterator handles) returns NULL here.  stale says that  *)
(* an index has been looked up or inserted at in a list that had items:    *)
(* iter_list then holds an iterator that was freed.                        *)
(*                                                                         *)
(* It departs from the comment of dlist_insert (dl_list.c:168-179) where   *)
(* the code does: an empty list takes an item at any index, where the      *)
(* comment has an error for one out of range, and an insertion at the      *)
(* index of the head, which the comment allows, ends the process.          *)
(***************************************************************************)
EXTENDS Integers, SequencesExt

CONSTANTS
  Data,                     \* the values a caller stores, ordered as integers
  Index,                    \* the indexes a caller passes
  NULL, DLIST_SUCC, DLIST_FAIL

VARIABLES items, ret, stale, status

vars == <<items, ret, stale, status>>

\* The call returns, or the process dies in it.
Returns(r) == ret' = r /\ UNCHANGED status

Dies(how) == status' = how /\ UNCHANGED <<items, ret, stale>>

\* A non-negative index counts from the head, a negative one from the tail.
InRange(s, i) == IF i >= 0 THEN i < Len(s) ELSE -i <= Len(s)
Position(s, i) == IF i >= 0 THEN i + 1 ELSE Len(s) + i + 1

\* The positions of v in s before which v does not occur.
FirstAt(s, v, k) == /\ k \in 1..Len(s)
                    /\ s[k] = v
                    /\ \A j \in 1..(k-1) : s[j] # v

SortedBy(s, dir) ==
  \A a, b \in 1..Len(s) :
    a < b => IF dir = "ASCENDING" THEN s[a] <= s[b] ELSE s[a] >= s[b]

Init == items = <<>> /\ ret = NULL /\ stale = FALSE /\ status = "running"

\* The first item of an empty list: every iterator of iter_list is sent to it.
First(v, r) ==
  /\ items = <<>>
  /\ \/ stale /\ Dies("use_after_free")
     \/ ~stale /\ items' = <<v>> /\ Returns(r) /\ UNCHANGED stale

Prepend(v) ==
  \/ First(v, NULL)
  \/ items # <<>> /\ items' = InsertAt(items, 1, v) /\ Returns(NULL) /\ UNCHANGED stale

Push(v) ==
  \/ First(v, NULL)
  \/ /\ items # <<>>
     /\ items' = InsertAt(items, Len(items) + 1, v) /\ Returns(NULL) /\ UNCHANGED stale

\* The new value takes the position the index names, so that a negative index
\* names the value behind it afterwards.
Insert(v, i) ==
  \/ First(v, DLIST_SUCC)
  \/ items # <<>> /\ InRange(items, i) /\ Position(items, i) = 1 /\ Dies("null_dereference")
  \/ /\ items # <<>> /\ InRange(items, i) /\ Position(items, i) # 1
     /\ items' = InsertAt(items, Position(items, i), v)
     /\ Returns(DLIST_SUCC) /\ stale' = TRUE
  \/ /\ items # <<>> /\ ~InRange(items, i)
     /\ UNCHANGED items /\ Returns(DLIST_FAIL) /\ stale' = TRUE

PopAt(k) == items' = RemoveAt(items, k) /\ Returns(items[k]) /\ UNCHANGED stale

Unchanged(r) == Returns(r) /\ UNCHANGED <<items, stale>>

PopHead == IF items = <<>> THEN Unchanged(NULL) ELSE PopAt(1)

PopTail == IF items = <<>> THEN Unchanged(NULL) ELSE PopAt(Len(items))

\* Removal by value takes the occurrence nearest the head.  A value an end carries
\* sends it through iter_list, over a freed entry if there is one, and to the
\* iterators there, one of which may stand on a value that was removed before.
RemoveValue(v) ==
  \/ \E k \in 1..Len(items) :
       /\ FirstAt(items, v, k)
       /\ \/ ~(stale /\ v \in {items[1], items[Len(items)]}) /\ PopAt(k)
          \/ v \in {items[1], items[Len(items)]} /\ Dies("use_after_free")
  \/ /\ \A k \in 1..Len(items) : items[k] # v
     /\ Unchanged(NULL)

GetByValue(v) ==
  Unchanged(IF \E k \in 1..Len(items) : items[k] = v THEN v ELSE NULL)

GetByIndex(i) ==
  /\ UNCHANGED items /\ stale' = TRUE
  /\ Returns(IF InRange(items, i) THEN items[Position(items, i)] ELSE NULL)

Sort(dir) ==
  /\ Returns(NULL) /\ UNCHANGED stale
  /\ \E p \in Bijection(1..Len(items), 1..Len(items)) :
       items' = [k \in 1..Len(items) |-> items[p[k]]]
  /\ SortedBy(items', dir)

\* An iterator never makes up a value: it reads one that is in the list now.
ReadIter ==
  /\ UNCHANGED <<items, stale, status>>
  /\ \/ ret' = NULL
     \/ \E k \in 1..Len(items) : ret' = items[k]

\* It may stand on a value that was removed, and has nowhere to go in an empty list.
IterDies == Dies("use_after_free") \/ (items = <<>> /\ Dies("assert_failed"))

Clear == items' = <<>> /\ ret' = NULL /\ stale' = FALSE /\ status' = "destroyed"

Next ==
  /\ status = "running"
  /\ \/ \E v \in Data : Prepend(v) \/ Push(v) \/ RemoveValue(v) \/ GetByValue(v)
     \/ \E v \in Data, i \in Index : Insert(v, i)
     \/ \E i \in Index : GetByIndex(i)
     \/ \E dir \in {"ASCENDING", "DESCENDING"} : Sort(dir)
     \/ PopHead \/ PopTail \/ ReadIter \/ IterDies \/ Clear

Spec == Init /\ [][Next]_vars
=============================================================================
