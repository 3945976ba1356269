------------------------------ MODULE HeapSort ------------------------------
(***************************************************************************)
(* heap_sort and heap_find_nth_item of heap_adt (heap.c): loops of the     *)
(* calls of Heap, on a heap of their own, over an array of the caller's.   *)
(* A heap is either driven by a client, as in Heap, or by one of the two.  *)
(***************************************************************************)
EXTENDS Heap

CONSTANT MaxItems         \* bound: items in the caller's array

ASSUME HeapSortAssumption == MaxItems \in Nat /\ MaxItems <= MaxLength

VARIABLES
  api,                    \* who drives the heap: "client", "heap_sort", "heap_find_nth_item"
  array, item_count,      \* the caller's array, slots from 0
  nth_item,               \* argument of heap_find_nth_item
  item,                   \* index of the loop in progress
  stage,                  \* "insert", "pop", "returned"
  target_item,            \* what heap_find_nth_item returns
  input                   \* history: array as the caller handed it over

arguments == <<api, item_count, nth_item, input>>
progress == <<array, item, stage, target_item>>
allVars == <<vars, arguments, progress>>

\* Neither function is given a destroy callback.  Pointers differ from each other.
SortInit ==
  /\ Init
  /\ \/ api = "client" /\ item_count = 0 /\ nth_item = 0
     \/ api = "heap_sort" /\ ~owner /\ item_count \in 0..MaxItems /\ nth_item = 0
     \/ /\ api = "heap_find_nth_item" /\ ~owner
        /\ item_count \in 0..MaxItems /\ nth_item \in 0..(item_count + 1)
  /\ array \in [0..(item_count - 1) -> Payload]
  /\ data_mode = "HEAP_PTR" =>
       \A i, j \in 0..(item_count - 1) : array[i] = array[j] => i = j
  /\ input = array
  /\ item = 0 /\ stage = "insert" /\ target_item = NULL

client == api = "client" /\ Next /\ UNCHANGED <<arguments, progress>>

\* The first loop of either function.
insert_item ==
  /\ api # "client" /\ stage = "insert" /\ item < item_count
  /\ heap_insert(array[item])
  /\ item' = item + 1
  /\ UNCHANGED <<arguments, array, stage, target_item>>

rounds == api # "client" /\ (bubble_up \/ bubble_down) /\ UNCHANGED <<arguments, progress>>

in_range == 1 <= nth_item /\ nth_item <= array_length

\* All items are in the heap: heap_find_nth_item looks at its argument.
inserted ==
  /\ api # "client" /\ pc = "idle" /\ stage = "insert" /\ item = item_count
  /\ \/ /\ api = "heap_find_nth_item" /\ ~in_range
        /\ heap_destroy /\ stage' = "returned"
     \/ /\ api = "heap_sort" \/ in_range
        /\ stage' = "pop" /\ UNCHANGED vars
  /\ item' = 0
  /\ UNCHANGED <<arguments, array, target_item>>

\* A plausible slip: nth_item is counted from zero.
popsOneMore == IF api = "heap_sort" THEN item_count ELSE nth_item + 1

pops == IF api = "heap_sort" THEN item_count ELSE nth_item

pop_item ==
  /\ api # "client" /\ stage = "pop" /\ item < pops
  /\ heap_pop
  /\ UNCHANGED <<arguments, progress>>

\* heap_find_nth_item copies the items it pops on its way over the array of
\* contents it was given; pointers it leaves alone.
writes_back == api = "heap_sort" \/ (data_mode = "HEAP_MEM" /\ item < nth_item - 1)

\* A plausible slip: heap_sort fills the array from its end.
write_index_last == item_count - 1 - item

write_index == item

pop_item_end ==
  /\ api # "client" /\ PopEnd
  /\ \/ /\ writes_back
        /\ array' = [array EXCEPT ![write_index] = payload]
        /\ UNCHANGED target_item
     \/ /\ ~writes_back
        /\ target_item' = payload
        /\ UNCHANGED array
  /\ item' = item + 1
  /\ UNCHANGED <<arguments, stage>>

\* The heap has no destroy callback, so no payload of the caller's goes with it.
popped ==
  /\ api # "client" /\ stage = "pop" /\ item = pops
  /\ heap_destroy
  /\ stage' = "returned"
  /\ UNCHANGED <<arguments, array, item, target_item>>

of_array == insert_item \/ rounds \/ inserted \/ pop_item \/ pop_item_end \/ popped

SortNext == client \/ of_array

SortSpec == SortInit /\ [][SortNext]_allVars

\* A call that has begun runs to its end, unless the process dies.
FairSortSpec ==
  /\ SortSpec
  /\ WF_allVars((pc \in {"bubble_up", "bubble_down"} /\ client) \/ of_array)

-----------------------------------------------------------------------------
\* heap_sort leaves the caller its own payloads, each as often as before, in the
\* order asked for, whatever the array held (heap.c:198-264).
sorted == api = "heap_sort" /\ stage = "returned"
Sorting == INSTANCE AbsSort WITH
             array <- [k \in 1..item_count |-> IF sorted THEN array[k - 1] ELSE input[k - 1]],
             order <- IF heap_type = "MAX_HEAP" THEN "HIGHEST_FIRST" ELSE "LOWEST_FIRST",
             ended <- sorted
SortsInPlace == Sorting!Spec

\* p may stand n-th in an order of the items, best first.
IsNth(n, p) ==
  LET given == 0..(item_count - 1) IN
  /\ \E k \in given : input[k] = p
  /\ Cardinality({k \in given : Better(input[k], p)}) < n
  /\ n <= Cardinality({k \in given : ~Better(p, input[k])})

\* heap_find_nth_item returns an item that may stand n-th, and NULL if there is none.
\* An array of pointers is as it was; one of contents has the n - 1 better ones over
\* its first slots, best first, and the items that were there are lost from it
\* unless they are among those (heap.c:267-332).
FindsNth ==
  api = "heap_find_nth_item" /\ stage = "returned" =>
    /\ IF nth_item \in 1..item_count THEN IsNth(nth_item, target_item)
                                      ELSE target_item = NULL
    /\ \A k \in 0..(item_count - 1) :
         IF data_mode = "HEAP_MEM" /\ k < nth_item - 1 /\ target_item # NULL
         THEN IsNth(k + 1, array[k]) ELSE array[k] = input[k]

\* Every call ends, equal ranks included: the insertions and removals of a client, and
\* the loops of the other two, which die in their first heap_pop if payloads are wide.
CallsEnd ==
  /\ pc \in {"bubble_up", "bubble_down"} ~> pc = "idle"
  /\ api # "client" /\ ~wide ~> stage = "returned"
=============================================================================
