-------------------------------- MODULE Heap --------------------------------
(***************************************************************************)
(* The heap of heap_adt (heap.c): a binary tree in an array, of pointers   *)
(* (HEAP_PTR) or of copies of the payloads (HEAP_MEM).  Each round of the  *)
(* loops of bubble_up and bubble_down is a step.                           *)
(*                                                                         *)
(* A payload is known by its identity and its rank, which the compare      *)
(* callback looks at.  The process runs under AddressSanitizer: reading    *)
(* past the array or calling through a wild pointer ends it.               *)
(***************************************************************************)
EXTENDS Integers, FiniteSets

CONSTANTS
  Payload,                \* addresses (HEAP_PTR) or contents (HEAP_MEM) of payloads
  Rank,                   \* what compare sees of a payload; zeroed bytes rank 0
  BASE_SIZE,              \* 5 in the code
  NULL,
  Zeroed,                 \* a slot calloc or memset cleared
  Garbage,                \* what realloc leaves in the slots it adds
  MaxLength               \* bound: payloads in the heap

ASSUME HeapAssumption ==
  /\ BASE_SIZE \in Nat \ {0} /\ MaxLength \in Nat
  /\ Rank \in [Payload -> Int]
  /\ {NULL, Zeroed, Garbage} \cap Payload = {} /\ Zeroed # Garbage

VARIABLES
  data_mode, heap_type,   \* heap_t, set by heap_init
  owner,                  \* heap_t: a destroy callback was given
  wide,                   \* heap_t: node_size is above sizeof(size_t)
  heap_array,             \* heap_t, slots from 0
  array_length, array_size,
  pc,                     \* where the call in progress stands, or how the process died
  at,                     \* index of bubble_up, parent_index of bubble_down
  payload,                \* of heap_pop: what it will return
  destroyed,              \* payloads handed to the destroy callback
  dumped,                 \* history: heap_dump has been called
  ret                     \* what the last call returned

settings == <<data_mode, heap_type, owner, wide>>
slots == <<heap_array, array_length, array_size>>
loop == <<pc, at, payload>>
vars == <<settings, slots, loop, destroyed, dumped, ret>>

Crashes == {"heap_overflow", "wild_pointer", "null_call"}
Held == {heap_array[k] : k \in 0..(array_length - 1)}

\* heap_init
Init ==
  /\ data_mode \in {"HEAP_PTR", "HEAP_MEM"} /\ heap_type \in {"MAX_HEAP", "MIN_HEAP"}
  /\ owner \in BOOLEAN /\ wide \in BOOLEAN
  /\ data_mode = "HEAP_PTR" => ~wide         \* payload_size counts for HEAP_MEM only
  /\ heap_array = [k \in 0..(BASE_SIZE - 1) |-> Zeroed]
  /\ array_length = 0 /\ array_size = BASE_SIZE
  /\ pc = "idle" /\ at = 0 /\ payload = NULL
  /\ destroyed = {} /\ dumped = FALSE /\ ret = NULL

Crash(how) ==
  /\ pc' = how
  /\ UNCHANGED <<settings, slots, at, payload, destroyed, dumped, ret>>

-----------------------------------------------------------------------------
(***************************************************************************)
(* Comparisons and the shape of the tree.                                  *)
(***************************************************************************)
compare(p, q) == IF Rank[p] > Rank[q] THEN "HEAP_GT"
                 ELSE IF Rank[p] < Rank[q] THEN "HEAP_LT" ELSE "HEAP_EQ"

get_comparison(i, j) == compare(heap_array[i], heap_array[j])

\* heap_t.heap_type, as a result of compare
type == IF heap_type = "MAX_HEAP" THEN "HEAP_GT" ELSE "HEAP_LT"

Better(p, q) == compare(p, q) = type

get_parent_index(i) == (i - 1) \div 2

left(i) == 2 * i + 1
right(i) == 2 * i + 2
has_child(i) == i < array_length

\* Each comparison must be both heap_type and HEAP_EQ, which none is: the test
\* only ever accepts a parent without children.
accepted(eval) == ~(eval # type \/ eval # "HEAP_EQ")

is_valid_parent(i) ==
  has_child(left(i)) =>
    /\ accepted(get_comparison(i, left(i)))
    /\ has_child(right(i)) => accepted(get_comparison(i, right(i)))

get_target_indexLeft(i) ==
  IF has_child(left(i)) /\ get_comparison(i, left(i)) # type THEN left(i) ELSE i

get_target_index(i) ==
  LET t == IF has_child(left(i)) /\ get_comparison(i, left(i)) # type THEN left(i) ELSE i
  IN  IF has_child(right(i)) /\ get_comparison(t, right(i)) # type THEN right(i) ELSE t

swap(i, j) ==
  heap_array' = [heap_array EXCEPT ![i] = heap_array[j], ![j] = heap_array[i]]

-----------------------------------------------------------------------------
(***************************************************************************)
(* The array.                                                              *)
(***************************************************************************)
resize_heapShort(a, s) ==
  [k \in 0..(s - 1) |-> IF k + 1 \in DOMAIN a THEN a[k] ELSE Garbage]

resize_heap(a, s) ==
  [k \in 0..(s - 1) |-> IF k \in DOMAIN a THEN a[k] ELSE Garbage]

ensure_space == IF array_length = array_size THEN array_size * 2 ELSE array_size

ensure_downgrade_sizeLate(len) ==
  IF len = array_size \div 4 /\ array_size > BASE_SIZE THEN array_size \div 2
                                                      ELSE array_size

ensure_downgrade_size(len) ==
  IF len = array_size \div 2 /\ array_size > BASE_SIZE THEN array_size \div 2
                                                      ELSE array_size

Downgrade(len) ==
  /\ array_size' = ensure_downgrade_size(len)
  /\ heap_array' = resize_heap(heap_array, array_size')

-----------------------------------------------------------------------------
(***************************************************************************)
(* Insertion.                                                              *)
(***************************************************************************)
\* A pointer is given to the heap once; contents may be given again.
heap_insert(p) ==
  /\ pc = "idle" /\ array_length < MaxLength
  /\ data_mode = "HEAP_PTR" => p \notin Held
  /\ array_size' = ensure_space
  /\ heap_array' = [resize_heap(heap_array, array_size') EXCEPT ![array_length] = p]
  /\ array_length' = array_length + 1
  /\ pc' = "bubble_up" /\ at' = array_length
  /\ destroyed' = destroyed \ {p}     \* a new payload may reuse its address
  /\ ret' = NULL
  /\ UNCHANGED <<settings, payload, dumped>>

rises == at > 0 /\ get_comparison(at, get_parent_index(at)) = type

bubble_up ==
  /\ pc = "bubble_up"
  /\ \/ /\ rises
        /\ swap(at, get_parent_index(at))
        /\ at' = get_parent_index(at)
        /\ UNCHANGED <<pc, array_length, array_size>>
     \/ /\ ~rises
        /\ pc' = "idle" /\ at' = 0
        /\ UNCHANGED slots
  /\ UNCHANGED <<settings, payload, destroyed, dumped, ret>>

-----------------------------------------------------------------------------
(***************************************************************************)
(* Removal.                                                                *)
(***************************************************************************)
\* The last payload takes the place of the root; a copied one is wiped behind it.
TakeRoot ==
  LET moved == [heap_array EXCEPT ![0] = heap_array[array_length - 1]] IN
  /\ payload' = heap_array[0]
  /\ array_length' = array_length - 1
  /\ heap_array' = IF data_mode = "HEAP_PTR" THEN moved
                   ELSE [moved EXCEPT ![array_length'] = Zeroed]

\* HEAP_MEM copies the root into a block of sizeof(size_t) bytes.
heap_pop ==
  /\ pc = "idle"
  /\ \/ /\ array_length = 0
        /\ ret' = NULL
        /\ UNCHANGED <<settings, slots, loop, destroyed, dumped>>
     \/ /\ array_length > 0 /\ data_mode = "HEAP_MEM" /\ wide
        /\ Crash("heap_overflow")
     \/ /\ array_length > 0 /\ (data_mode = "HEAP_PTR" \/ ~wide)
        /\ TakeRoot
        /\ pc' = "bubble_down" /\ at' = 0
        /\ UNCHANGED <<settings, array_size, destroyed, dumped, ret>>

sinks == /\ at < array_length /\ ~is_valid_parent(at)
         /\ get_target_index(at) # at

bubble_downStays ==
  /\ pc = "bubble_down" /\ sinks
  /\ swap(at, get_target_index(at))
  /\ UNCHANGED <<settings, array_length, array_size, loop, destroyed, dumped, ret>>

bubble_down ==
  /\ pc = "bubble_down" /\ sinks
  /\ swap(at, get_target_index(at))
  /\ at' = get_target_index(at)
  /\ UNCHANGED <<settings, array_length, array_size, pc, payload, destroyed, dumped, ret>>

\* The end of heap_pop, once the loop is over.
PopEnd ==
  /\ pc = "bubble_down" /\ ~sinks
  /\ Downgrade(array_length)
  /\ pc' = "idle" /\ at' = 0 /\ payload' = NULL
  /\ ret' = payload
  /\ UNCHANGED <<settings, array_length, destroyed, dumped>>

-----------------------------------------------------------------------------
(***************************************************************************)
(* The other calls.                                                        *)
(***************************************************************************)
heap_dumpKeepsLength ==
  /\ pc = "idle"
  /\ \/ array_length > 0 /\ ~owner /\ Crash("null_call")
     \/ array_length > 0 /\ owner /\ data_mode = "HEAP_MEM" /\ Crash("wild_pointer")
     \/ /\ array_length > 0 => owner
        /\ destroyed' = IF data_mode = "HEAP_PTR" THEN destroyed \cup Held ELSE destroyed
        /\ dumped' = TRUE /\ ret' = NULL
        /\ UNCHANGED <<settings, slots, loop>>

\* heap_dump calls destroy without asking whether there is one, with words of the
\* array as pointers: in HEAP_MEM the callback gets wild ones and may survive them.
heap_dump ==
  /\ pc = "idle"
  /\ \/ array_length > 0 /\ ~owner /\ Crash("null_call")
     \/ array_length > 0 /\ owner /\ data_mode = "HEAP_MEM" /\ Crash("wild_pointer")
     \/ /\ array_length > 0 => owner
        /\ destroyed' = IF data_mode = "HEAP_PTR" THEN destroyed \cup Held ELSE destroyed
        /\ array_length' = 0
        /\ Downgrade(0)
        /\ dumped' = TRUE /\ ret' = NULL
        /\ UNCHANGED <<settings, loop>>

\* Whether a slot compares equal to d: left to chance where it was not written.
Matches(slot, d) ==
  IF slot \in Payload THEN {Rank[slot] = Rank[d]}
  ELSE IF slot = Zeroed THEN {Rank[d] = 0} ELSE BOOLEAN

\* The loop goes on to the slot behind the last one in use.  In HEAP_PTR compare is
\* given addresses within the array, not the pointers in it.
heap_in_heap(d) ==
  LET found == \E p \in Held : Rank[p] = Rank[d] IN
  /\ pc = "idle"
  /\ \/ /\ data_mode = "HEAP_MEM" /\ found
        /\ ret' = TRUE /\ UNCHANGED <<settings, slots, loop, destroyed, dumped>>
     \/ /\ data_mode = "HEAP_MEM" /\ ~found /\ array_length < array_size
        /\ ret' \in Matches(heap_array[array_length], d)
        /\ UNCHANGED <<settings, slots, loop, destroyed, dumped>>
     \/ /\ data_mode = "HEAP_MEM" /\ ~found /\ array_length = array_size
        /\ Crash("heap_overflow")
     \/ /\ data_mode = "HEAP_PTR"
        /\ \/ ret' \in BOOLEAN /\ UNCHANGED <<settings, slots, loop, destroyed, dumped>>
           \/ Crash("heap_overflow")

heap_destroy ==
  /\ pc = "idle" /\ pc' = "destroyed"
  /\ destroyed' = IF data_mode = "HEAP_PTR" /\ owner THEN destroyed \cup Held ELSE destroyed
  /\ array_length' = 0 /\ array_size' = 0 /\ heap_array' = [k \in {} |-> NULL]
  /\ ret' = NULL
  /\ UNCHANGED <<settings, at, payload, dumped>>

Next ==
  \/ \E p \in Payload : heap_insert(p) \/ heap_in_heap(p)
  \/ bubble_up \/ heap_pop \/ bubble_down \/ PopEnd \/ heap_dump \/ heap_destroy

Spec == Init /\ [][Next]_vars

-----------------------------------------------------------------------------
\* Every slot in use exists and holds a payload.
HeapTypeOK ==
  /\ data_mode \in {"HEAP_PTR", "HEAP_MEM"} /\ heap_type \in {"MAX_HEAP", "MIN_HEAP"}
  /\ owner \in BOOLEAN /\ wide \in BOOLEAN
  /\ array_length \in Nat /\ array_size \in Nat
  /\ heap_array \in [0..(array_size - 1) -> Payload \cup {Zeroed, Garbage}]
  /\ \A k \in 0..(array_length - 1) : k \in DOMAIN heap_array /\ heap_array[k] \in Payload
  /\ pc \in {"idle", "bubble_up", "bubble_down", "destroyed"} \cup Crashes
  /\ at \in Nat /\ payload \in Payload \cup {NULL}
  /\ destroyed \in SUBSET Payload /\ dumped \in BOOLEAN
  /\ ret \in Payload \cup {NULL} \cup BOOLEAN

\* No payload is better than its parent, except the one that is on its way up, or
\* than the one on its way down; and neither upsets the order around it.
InOrder(k, j) == ~Better(heap_array[k], heap_array[j])

HeapOrder ==
  /\ \A k \in 1..(array_length - 1) :
       \/ pc = "bubble_up" /\ k = at
       \/ pc = "bubble_down" /\ get_parent_index(k) = at
       \/ InOrder(k, get_parent_index(k))
  /\ pc \in {"bubble_up", "bubble_down"} /\ at > 0 =>
       \A k \in 1..(array_length - 1) :
         get_parent_index(k) = at => InOrder(k, get_parent_index(at))

\* The array has room for what it holds and, until heap_dump empties it without
\* giving space back, is more than half full once it has grown (heap.c:447-470).
CapacityFits ==
  /\ array_length <= array_size
  /\ array_size > BASE_SIZE /\ ~dumped /\ pc \in {"idle", "bubble_up"}
       => 2 * array_length > array_size

\* heap_pop takes a payload that none in the heap beats (heap.c:391-441).
PopsBest ==
  [][pc = "idle" /\ pc' = "bubble_down"
       => payload' \in Held /\ \A p \in Held : ~Better(p, payload')]_vars

\* How often each payload is in the heap, whether it is a copy, what the last call
\* returned or the one in progress will, and whether a call ended the process.
Copies(a, n, p) == Cardinality({k \in 0..(n - 1) : a[k] = p})
bag == [p \in Payload |-> Copies(heap_array, array_length, p)]
copies == data_mode = "HEAP_MEM"
returned == IF pc = "bubble_down" THEN payload ELSE ret
crashed == pc \in Crashes

\* Whatever was inserted, popped or dumped before, heap_pop returns a payload no
\* other beats, every payload comes back as often as it was given, those the heap
\* owns and discards are destroyed once, and a call ends the process in no other
\* case than those AbsHeap names (heap.c:334-445).
Abs == INSTANCE AbsHeap WITH ret <- returned, dead <- crashed
ImplementsAbsHeap == Abs!Spec

\* heap.c:334-337: heap_in_heap tells "if the data provided is already in the
\* heap_adt", at least where it compares payloads.
InHeapAnswers ==
  [][\A d \in Payload :
       heap_in_heap(d) /\ data_mode = "HEAP_MEM" /\ pc' = "idle"
         => ret' = (\E p \in Held : Rank[p] = Rank[d])]_vars
=============================================================================
