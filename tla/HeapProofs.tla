----------------------------- MODULE HeapProofs -----------------------------
(***************************************************************************)
(* Theorems about Heap, for any payloads and ranks and every BASE_SIZE.    *)
(*                                                                         *)
(* HeapOrder is inductive because it says of the steps in between what it  *)
(* allows them: on its way up or down a payload may be out of order with   *)
(* its parent or its children, and its children are in order with its      *)
(* parent.  That the root is best follows from HeapOrder by taking the     *)
(* least index whose payload would beat it.                                *)
(*                                                                         *)
(* The refinement of AbsHeap counts in how many slots each payload is: a   *)
(* swap of two slots leaves the count alone, and taking the root is such a *)
(* swap of the root and the last slot, which is then given up.             *)
(***************************************************************************)
EXTENDS HeapSort, Lemmas, FiniteSetTheorems

-----------------------------------------------------------------------------
(***************************************************************************)
(* The order of the payloads.                                              *)
(***************************************************************************)

\* Better is a strict weak order.
LEMMA BetterOrder ==
  ASSUME HeapTypeOK, NEW p \in Payload, NEW q \in Payload, NEW r \in Payload
  PROVE  /\ ~Better(p, p)
         /\ Better(p, q) => ~Better(q, p)
         /\ ~Better(p, q) /\ ~Better(q, r) => ~Better(p, r)
<1>1. Rank[p] \in Int /\ Rank[q] \in Int /\ Rank[r] \in Int
  BY HeapAssumption
<1>2. /\ Better(p, p) <=> IF heap_type = "MAX_HEAP" THEN Rank[p] > Rank[p] ELSE Rank[p] < Rank[p]
      /\ Better(p, q) <=> IF heap_type = "MAX_HEAP" THEN Rank[p] > Rank[q] ELSE Rank[p] < Rank[q]
      /\ Better(q, p) <=> IF heap_type = "MAX_HEAP" THEN Rank[q] > Rank[p] ELSE Rank[q] < Rank[p]
      /\ Better(q, r) <=> IF heap_type = "MAX_HEAP" THEN Rank[q] > Rank[r] ELSE Rank[q] < Rank[r]
      /\ Better(p, r) <=> IF heap_type = "MAX_HEAP" THEN Rank[p] > Rank[r] ELSE Rank[p] < Rank[r]
  BY <1>1 DEF Better, compare, type
<1> QED  BY <1>1, <1>2

\* Where parents and children are in the array.
LEMMA ParentIndex ==
  ASSUME NEW k \in Nat, k > 0
  PROVE  /\ get_parent_index(k) \in Nat /\ get_parent_index(k) < k
         /\ \A i \in Nat : get_parent_index(k) = i <=> k = left(i) \/ k = right(i)
BY DEF get_parent_index, left, right

\* A child of a node is behind it and has it for parent.
LEMMA ChildIndex ==
  ASSUME NEW i \in Nat
  PROVE  /\ left(i) \in Nat /\ left(i) > i /\ get_parent_index(left(i)) = i
         /\ right(i) \in Nat /\ right(i) > i /\ get_parent_index(right(i)) = i
BY DEF get_parent_index, left, right

\* The slots in use hold payloads.
LEMMA SlotsHold ==
  ASSUME HeapTypeOK
  PROVE  /\ array_length \in Nat /\ array_size \in Nat /\ at \in Nat
         /\ \A k \in 0..(array_length - 1) :
              k \in 0..(array_size - 1) /\ heap_array[k] \in Payload
         /\ heap_array \in [0..(array_size - 1) -> Payload \cup {Zeroed, Garbage}]
BY DEF HeapTypeOK

\* is_valid_parent accepts nothing but a node without children.
LEMMA ValidParentIsLeaf ==
  ASSUME NEW i, is_valid_parent(i)
  PROVE  ~has_child(left(i))
<1>1. \A eval : ~accepted(eval)
  BY DEF accepted, type
<1> QED  BY <1>1 DEF is_valid_parent

\* get_target_index picks a child that its parent and its sibling do not beat, or
\* the parent when it beats its children.
LEMMA TargetIsBest ==
  ASSUME HeapTypeOK, NEW i \in 0..(array_length - 1)
  PROVE  LET t == get_target_index(i) IN
         /\ t \in 0..(array_length - 1) /\ t \in {i, left(i), right(i)}
         /\ t # i => ~Better(heap_array[i], heap_array[t])
         /\ \A k \in 1..(array_length - 1) :
              get_parent_index(k) = i => ~Better(heap_array[k], heap_array[t])
<1> DEFINE A(k) == heap_array[k]
           l == left(i)
           r == right(i)
           first == IF has_child(l) /\ get_comparison(i, l) # type THEN l ELSE i
           t == get_target_index(i)
<1>1. /\ array_length \in Nat /\ i \in Nat
      /\ \A k \in 0..(array_length - 1) : A(k) \in Payload
  BY SlotsHold
<1>2. /\ l \in Nat /\ r \in Nat /\ l # i /\ r # i /\ l < r
      /\ has_child(l) <=> l < array_length
      /\ has_child(r) <=> r < array_length
  BY <1>1, ChildIndex DEF has_child, left, right
<1>3. \A j, k \in Nat : get_comparison(j, k) = type <=> Better(A(j), A(k))
  BY DEF get_comparison, Better
<1>4. /\ t = IF has_child(r) /\ get_comparison(first, r) # type THEN r ELSE first
      /\ first = IF has_child(l) /\ get_comparison(i, l) # type THEN l ELSE i
  BY DEF get_target_index
<1>5. /\ l < array_length => l \in 0..(array_length - 1) /\ A(l) \in Payload
      /\ r < array_length => r \in 0..(array_length - 1) /\ A(r) \in Payload
      /\ A(i) \in Payload
  BY <1>1, <1>2
<1>6. ASSUME NEW k \in 1..(array_length - 1), get_parent_index(k) = i
      PROVE  k = l \/ (k = r /\ r < array_length)
  <2>1. k \in Nat /\ k > 0 /\ k < array_length
    BY <1>1
  <2> QED  BY <1>1, <1>6, <2>1, ParentIndex
<1>7. /\ first \in 0..(array_length - 1) /\ first \in {i, l} /\ A(first) \in Payload
      /\ first # i => ~Better(A(i), A(first))
      /\ l < array_length => ~Better(A(l), A(first))
  <2> HIDE DEF l, r, t, first, A
  <2>1. CASE has_child(l) /\ get_comparison(i, l) # type
    BY <2>1, <1>1, <1>2, <1>3, <1>4, <1>5, BetterOrder
  <2>2. CASE ~(has_child(l) /\ get_comparison(i, l) # type)
    BY <2>2, <1>1, <1>2, <1>3, <1>4, <1>5, BetterOrder
  <2> QED  BY <2>1, <2>2
<1>8. /\ t \in 0..(array_length - 1) /\ t \in {i, l, r}
      /\ t # i => ~Better(A(i), A(t))
      /\ l < array_length => ~Better(A(l), A(t))
      /\ r < array_length => ~Better(A(r), A(t))
  <2> HIDE DEF l, r, t, first, A
  <2>1. CASE has_child(r) /\ get_comparison(first, r) # type
    <3>1. t = r /\ r < array_length /\ ~Better(A(first), A(r)) /\ A(r) \in Payload
      BY <2>1, <1>1, <1>2, <1>3, <1>4, <1>5, <1>7
    <3>2. ~Better(A(r), A(r))
      BY <3>1, BetterOrder
    <3>3. ~Better(A(i), A(first))
      BY <1>5, <1>7, BetterOrder
    <3>4. ~Better(A(i), A(r))
      BY <3>1, <3>3, <1>5, <1>7, BetterOrder
    <3>5. l < array_length => ~Better(A(l), A(r))
      BY <3>1, <1>5, <1>7, BetterOrder
    <3> QED  BY <3>1, <3>2, <3>4, <3>5, <1>5
  <2>2. CASE ~(has_child(r) /\ get_comparison(first, r) # type)
    <3>1. t = first
      BY <2>2, <1>4
    <3>2. r < array_length => Better(A(first), A(r))
      BY <2>2, <1>1, <1>2, <1>3, <1>7
    <3>3. r < array_length => ~Better(A(r), A(first))
      BY <3>2, <1>5, <1>7, BetterOrder
    <3> QED  BY <3>1, <3>3, <1>7
  <2> QED  BY <2>1, <2>2
<1>9. \A k \in 1..(array_length - 1) :
        get_parent_index(k) = i => ~Better(A(k), A(t))
  <2> HIDE DEF l, r, t, first, A
  <2>1. l \in 1..(array_length - 1) => l < array_length
    BY <1>1
  <2> QED  BY <1>6, <1>8, <2>1
<1> QED  BY <1>8, <1>9

-----------------------------------------------------------------------------
(***************************************************************************)
(* The invariant.                                                          *)
(***************************************************************************)

\* Room: what CapacityFits says between calls, and one slot less in a removal.
Room ==
  /\ array_length <= array_size
  /\ array_size > BASE_SIZE /\ ~dumped
       => 2 * (IF pc = "bubble_down" THEN array_length + 1 ELSE array_length) > array_size

HeapInv ==
  /\ HeapTypeOK
  /\ HeapOrder
  /\ Room
  /\ pc # "destroyed" => array_size \in Sizes(BASE_SIZE)
  /\ pc = "bubble_up" => at < array_length
  /\ pc = "bubble_down" => payload \in Payload

\* heap_init makes an empty array of the first size.
LEMMA HeapInitInv == Init => HeapInv
<1> SUFFICES ASSUME Init PROVE HeapInv
  OBVIOUS
<1>1. BASE_SIZE \in Nat \ {0} /\ BASE_SIZE \in Sizes(BASE_SIZE)
  BY HeapAssumption, SizesClosed DEF Closed
<1>2. HeapTypeOK
  <2>1. array_length = 0 /\ array_length \in Nat /\ array_size \in Nat
    BY <1>1 DEF Init
  <2>2. heap_array \in [0..(array_size - 1) -> Payload \cup {Zeroed, Garbage}]
    BY DEF Init
  <2>3. \A k \in 0..(array_length - 1) : k \in DOMAIN heap_array /\ heap_array[k] \in Payload
    BY <2>1
  <2>4. at \in Nat /\ payload \in Payload \cup {NULL} /\ destroyed \in SUBSET Payload
    BY DEF Init
  <2> QED  BY <2>1, <2>2, <2>3, <2>4 DEF Init, HeapTypeOK
<1>3. HeapOrder
  BY DEF Init, HeapOrder
<1>4. Room
  BY <1>1 DEF Init, Room
<1> QED  BY <1>1, <1>2, <1>3, <1>4 DEF Init, HeapInv

\* A step that leaves slots and order alone, and no loop running.
LEMMA SameSlotsInv ==
  ASSUME HeapInv, UNCHANGED <<settings, slots, at, payload, dumped>>,
         pc = "idle", pc' \in {"idle"} \cup Crashes,
         destroyed' \in SUBSET Payload, ret' \in Payload \cup {NULL} \cup BOOLEAN
  PROVE  HeapInv'
<1>1. HeapTypeOK'
  BY DEF HeapInv, HeapTypeOK, settings, slots
<1>2. HeapOrder'
  BY DEF HeapInv, HeapOrder, InOrder, Better, compare, type, settings, slots, Crashes
<1>3. Room'
  BY DEF HeapInv, Room, slots, Crashes
<1> QED  BY <1>1, <1>2, <1>3 DEF HeapInv, slots, Crashes

\* Doing nothing at all.
LEMMA HeapStutterInv ==
  ASSUME HeapInv, UNCHANGED vars
  PROVE  HeapInv'
<1>1. HeapTypeOK'
  BY DEF HeapInv, HeapTypeOK, vars, settings, slots, loop
<1>2. HeapOrder'
  BY DEF HeapInv, HeapOrder, InOrder, Better, compare, type, vars, settings, slots, loop
<1>3. Room'
  BY DEF HeapInv, Room, vars, slots, loop
<1> QED  BY <1>1, <1>2, <1>3 DEF HeapInv, vars, slots, loop

\* Better does not look at the array.
LEMMA SameBetter ==
  ASSUME UNCHANGED settings, NEW p, NEW q
  PROVE  Better(p, q)' <=> Better(p, q)
BY DEF Better, compare, type, settings

\* The array heap_insert leaves, before it bubbles up.
LEMMA InsertSlots ==
  ASSUME HeapInv, NEW p \in Payload, heap_insert(p)
  PROVE  /\ array_size' \in Sizes(BASE_SIZE) /\ array_size' \in Nat
         /\ array_length' = array_length + 1 /\ array_length' <= array_size'
         /\ array_size' > BASE_SIZE /\ ~dumped => 2 * array_length' > array_size'
         /\ heap_array' \in [0..(array_size' - 1) -> Payload \cup {Zeroed, Garbage}]
         /\ \A k \in 0..(array_length - 1) : heap_array'[k] = heap_array[k]
         /\ heap_array'[array_length] = p
<1>1. /\ array_length \in Nat /\ array_size \in Nat /\ array_size \in Sizes(BASE_SIZE)
      /\ array_length <= array_size /\ array_size >= BASE_SIZE /\ BASE_SIZE \in Nat \ {0}
      /\ array_size > BASE_SIZE /\ ~dumped => 2 * array_length > array_size
      /\ heap_array \in [0..(array_size - 1) -> Payload \cup {Zeroed, Garbage}]
  BY SizesFromBase, HeapAssumption DEF HeapInv, HeapTypeOK, Room, heap_insert
<1>2. /\ array_size' = IF array_length = array_size THEN array_size * 2 ELSE array_size
      /\ array_length' = array_length + 1
  BY DEF heap_insert, ensure_space
<1>3. array_size' \in Sizes(BASE_SIZE) /\ array_size' \in Nat /\ array_size <= array_size'
  <2>1. array_size * 2 = 2 * array_size
    BY <1>1
  <2>2. 2 * array_size \in Sizes(BASE_SIZE)
    BY <1>1, SizesClosed DEF Closed
  <2> QED  BY <1>1, <1>2, <2>1, <2>2
<1>4. /\ array_length' <= array_size'
      /\ array_size' > BASE_SIZE /\ ~dumped => 2 * array_length' > array_size'
  BY <1>1, <1>2
<1>5. heap_array' = [[k \in 0..(array_size' - 1) |->
                        IF k \in 0..(array_size - 1) THEN heap_array[k] ELSE Garbage]
                      EXCEPT ![array_length] = p]
  BY <1>1 DEF heap_insert, resize_heap
<1>6. /\ array_length \in 0..(array_size' - 1)
      /\ \A k \in 0..(array_length - 1) : k \in 0..(array_size' - 1)
  BY <1>1, <1>2, <1>3, <1>4
<1>7. \A k \in 0..(array_length - 1) : k \in 0..(array_size - 1) /\ k # array_length
  BY <1>1
<1>8. heap_array' \in [0..(array_size' - 1) -> Payload \cup {Zeroed, Garbage}]
  BY <1>1, <1>5
<1>9. heap_array'[array_length] = p
  BY <1>5, <1>6
<1>10. \A k \in 0..(array_length - 1) : heap_array'[k] = heap_array[k]
  BY <1>5, <1>6, <1>7
<1> QED  BY <1>2, <1>3, <1>4, <1>8, <1>9, <1>10

\* heap_insert preserves the invariant: only the new payload may be out of order.
LEMMA HeapInsertInv ==
  ASSUME HeapInv, NEW p \in Payload, heap_insert(p)
  PROVE  HeapInv'
<1>1. /\ array_size' \in Sizes(BASE_SIZE) /\ array_size' \in Nat
      /\ array_length' = array_length + 1 /\ array_length' <= array_size'
      /\ array_size' > BASE_SIZE /\ ~dumped => 2 * array_length' > array_size'
      /\ heap_array' \in [0..(array_size' - 1) -> Payload \cup {Zeroed, Garbage}]
      /\ \A k \in 0..(array_length - 1) : heap_array'[k] = heap_array[k]
      /\ heap_array'[array_length] = p
  BY InsertSlots
<1>2. /\ pc = "idle" /\ pc' = "bubble_up" /\ at' = array_length /\ ret' = NULL
      /\ UNCHANGED <<settings, payload, dumped>> /\ destroyed' = destroyed \ {p}
      /\ array_length \in Nat
      /\ \A k \in 0..(array_length - 1) : heap_array[k] \in Payload
  BY SlotsHold DEF heap_insert, HeapInv
<1>3. ASSUME NEW k \in 0..(array_length' - 1)
      PROVE  k \in 0..(array_size' - 1) /\ heap_array'[k] \in Payload
  <2>1. array_length' \in Nat
    BY <1>1, <1>2
  <2>2. k \in 0..(array_size' - 1)
    BY <1>1, <2>1, SlotsNest
  <2>3. k = array_length \/ k \in 0..(array_length - 1)
    BY <1>1, <1>2
  <2> QED  BY <1>1, <1>2, <2>2, <2>3
<1>4. HeapTypeOK'
  <2>1. array_length' \in Nat
    BY <1>1, <1>2
  <2> QED  BY <1>1, <1>2, <1>3, <2>1 DEF HeapInv, HeapTypeOK, settings
<1>5. HeapOrder'
  <2>1. ASSUME NEW k \in 1..(array_length' - 1), k # at'
        PROVE  InOrder(k, get_parent_index(k))'
    <3>1. /\ k \in 1..(array_length - 1) /\ k \in 0..(array_length - 1)
          /\ k \in Nat /\ k > 0
      BY <1>1, <1>2, <2>1
    <3>2. /\ get_parent_index(k) \in 0..(array_length - 1)
      BY <1>2, <3>1, ParentIndex
    <3>3. InOrder(k, get_parent_index(k))
      BY <1>2, <3>1 DEF HeapInv, HeapOrder
    <3> QED  BY <1>1, <1>2, <3>1, <3>2, <3>3, SameBetter DEF InOrder, get_parent_index
  <2>2. ASSUME NEW k \in 1..(array_length' - 1)
        PROVE  get_parent_index(k) # at'
    <3>1. k \in Nat /\ k > 0 /\ k <= array_length
      BY <1>1, <1>2
    <3> QED  BY <1>2, <3>1, ParentIndex
  <2> QED  BY <1>2, <2>1, <2>2 DEF HeapOrder, get_parent_index
<1>6. Room'
  BY <1>1, <1>2 DEF Room
<1>7. at' < array_length'
  BY <1>1, <1>2
<1> QED  BY <1>1, <1>2, <1>4, <1>5, <1>6, <1>7 DEF HeapInv

-----------------------------------------------------------------------------
(***************************************************************************)
(* A round of a loop swaps two slots.                                      *)
(***************************************************************************)

\* What swap does to the slots in use.
LEMMA SwapSlots ==
  ASSUME HeapTypeOK, NEW i \in 0..(array_length - 1), NEW j \in 0..(array_length - 1),
         swap(i, j)
  PROVE  /\ heap_array' \in [0..(array_size - 1) -> Payload \cup {Zeroed, Garbage}]
         /\ heap_array'[i] = heap_array[j] /\ heap_array'[j] = heap_array[i]
         /\ \A k \in 0..(array_length - 1) :
              /\ k # i /\ k # j => heap_array'[k] = heap_array[k]
              /\ heap_array'[k] \in Payload
<1>1. /\ \A k \in 0..(array_length - 1) :
              k \in 0..(array_size - 1) /\ heap_array[k] \in Payload
      /\ heap_array \in [0..(array_size - 1) -> Payload \cup {Zeroed, Garbage}]
  BY SlotsHold
<1>2. heap_array' = [heap_array EXCEPT ![i] = heap_array[j], ![j] = heap_array[i]]
  BY DEF swap
<1>3. i \in 0..(array_size - 1) /\ j \in 0..(array_size - 1)
  BY <1>1
<1>4. heap_array' \in [0..(array_size - 1) -> Payload \cup {Zeroed, Garbage}]
  BY <1>1, <1>2, <1>3
<1>5. heap_array'[i] = heap_array[j] /\ heap_array'[j] = heap_array[i]
  BY <1>1, <1>2, <1>3
<1>6. \A k \in 0..(array_length - 1) :
         k # i /\ k # j => heap_array'[k] = heap_array[k]
  BY <1>1, <1>2, <1>3
<1>7. \A k \in 0..(array_length - 1) : heap_array'[k] \in Payload
  BY <1>1, <1>5, <1>6
<1> QED  BY <1>4, <1>5, <1>6, <1>7

\* InOrder after a step, by the array it leaves.
LEMMA NextOrder ==
  ASSUME UNCHANGED settings, NEW k, NEW j
  PROVE  InOrder(k, j)' <=> ~Better(heap_array'[k], heap_array'[j])
BY SameBetter DEF InOrder

\* A round of a loop keeps everything of the invariant but the order.
LEMMA SwapInv ==
  ASSUME HeapInv, NEW i \in 0..(array_length - 1), NEW j \in 0..(array_length - 1),
         swap(i, j), pc \in {"bubble_up", "bubble_down"}, at' = j,
         UNCHANGED <<settings, array_length, array_size, pc, payload, destroyed, dumped, ret>>,
         HeapOrder'
  PROVE  HeapInv'
<1>1. /\ heap_array' \in [0..(array_size - 1) -> Payload \cup {Zeroed, Garbage}]
      /\ \A k \in 0..(array_length - 1) :
            heap_array'[k] \in Payload /\ k \in 0..(array_size - 1)
      /\ array_length \in Nat
  BY SwapSlots, SlotsHold DEF HeapInv
<1>2. HeapTypeOK'
  <2>1. at' \in Nat /\ DOMAIN heap_array' = 0..(array_size - 1)
    BY <1>1
  <2> QED  BY <1>1, <2>1 DEF HeapInv, HeapTypeOK, settings
<1>3. Room'
  BY DEF HeapInv, Room
<1>4. at' < array_length'
  BY <1>1
<1> QED  BY <1>2, <1>3, <1>4 DEF HeapInv

\* A payload that beats its parent changes places with it and stays the only one
\* that may be out of order.
LEMMA BubbleUpInv ==
  ASSUME HeapInv, bubble_up
  PROVE  HeapInv'
<1> DEFINE A(k) == heap_array[k]
           g == get_parent_index(at)
<1>1. /\ pc = "bubble_up" /\ at < array_length /\ HeapTypeOK /\ HeapOrder
      /\ array_length \in Nat /\ at \in Nat
      /\ \A k \in 0..(array_length - 1) : A(k) \in Payload
      /\ UNCHANGED <<settings, payload, destroyed, dumped, ret>>
  BY SlotsHold DEF HeapInv, bubble_up
<1>2. CASE rises /\ swap(at, g) /\ at' = g /\ UNCHANGED <<pc, array_length, array_size>>
  <2>1. /\ at > 0 /\ at \in 0..(array_length - 1) /\ at \in 1..(array_length - 1)
        /\ g \in 0..(array_length - 1) /\ g \in Nat /\ g < at
        /\ Better(A(at), A(g))
    BY <1>1, <1>2, ParentIndex DEF rises, get_comparison, Better
  <2>2. /\ heap_array'[at] = A(g) /\ heap_array'[g] = A(at)
        /\ \A k \in 0..(array_length - 1) :
             k # at /\ k # g => heap_array'[k] = A(k)
    BY <1>1, <1>2, <2>1, SwapSlots
  <2>3. ~Better(A(g), A(at))
    BY <1>1, <2>1, BetterOrder
  <2>4. ASSUME NEW k \in 1..(array_length - 1)
        PROVE  /\ k \in 0..(array_length - 1) /\ k \in Nat /\ k > 0 /\ A(k) \in Payload
               /\ get_parent_index(k) \in 0..(array_length - 1)
               /\ get_parent_index(k) < k
               /\ A(get_parent_index(k)) \in Payload
               /\ k # at => ~Better(A(k), A(get_parent_index(k)))
               /\ get_parent_index(k) = at => ~Better(A(k), A(g))
    <3>1. k \in 0..(array_length - 1) /\ k \in Nat /\ k > 0
      BY <1>1
    <3>2. /\ get_parent_index(k) \in 0..(array_length - 1)
          /\ get_parent_index(k) < k
      BY <1>1, <3>1, ParentIndex
    <3> QED  BY <1>1, <2>1, <3>1, <3>2 DEF HeapOrder, InOrder
  <2> HIDE DEF A, g
  <2>5. ASSUME NEW k \in 1..(array_length - 1), k # g
        PROVE  ~Better(heap_array'[k], heap_array'[get_parent_index(k)])
    <3>1. CASE k = at
      BY <2>2, <2>3, <3>1 DEF g
    <3>2. CASE k # at /\ get_parent_index(k) = at
      BY <2>2, <2>4, <2>5, <3>2
    <3>3. CASE k # at /\ get_parent_index(k) = g
      <4>1. ~Better(A(k), A(g)) /\ A(k) \in Payload
        BY <2>4, <3>3
      <4>2. ~Better(A(k), A(at))
        BY <1>1, <2>1, <2>3, <4>1, BetterOrder
      <4> QED  BY <2>2, <2>4, <2>5, <3>3, <4>2
    <3>4. CASE k # at /\ get_parent_index(k) # at /\ get_parent_index(k) # g
      BY <2>2, <2>4, <2>5, <3>4
    <3> QED  BY <3>1, <3>2, <3>3, <3>4
  <2>6. ASSUME g > 0, NEW k \in 1..(array_length - 1), get_parent_index(k) = g
        PROVE  ~Better(heap_array'[k], heap_array'[get_parent_index(g)])
    <3>1. /\ g \in 1..(array_length - 1) /\ g # at
      BY <1>1, <2>1, <2>6
    <3>2. /\ get_parent_index(g) \in 0..(array_length - 1)
          /\ get_parent_index(g) # g /\ get_parent_index(g) # at
          /\ ~Better(A(g), A(get_parent_index(g))) /\ A(get_parent_index(g)) \in Payload
      <4>1. get_parent_index(g) \in Nat /\ get_parent_index(g) < g
        BY <2>1, <2>4, <3>1
      <4> QED  BY <2>1, <2>4, <3>1, <4>1
    <3>3. heap_array'[get_parent_index(g)] = A(get_parent_index(g))
      BY <2>2, <3>2
    <3>4. CASE k = at
      BY <2>2, <3>2, <3>3, <3>4
    <3>5. CASE k # at
      <4>1. k # g /\ ~Better(A(k), A(g)) /\ A(k) \in Payload /\ A(g) \in Payload
        BY <2>1, <2>4, <2>6, <3>5
      <4>2. ~Better(A(k), A(get_parent_index(g)))
        BY <1>1, <3>2, <4>1, BetterOrder
      <4> QED  BY <2>2, <2>4, <3>3, <3>5, <4>1, <4>2
    <3> QED  BY <3>4, <3>5
  <2>7. HeapOrder'
    BY <1>1, <1>2, <2>5, <2>6, NextOrder DEF HeapOrder, get_parent_index
  <2> QED  BY <1>1, <1>2, <2>1, <2>7, SwapInv DEF g
<1>3. CASE ~rises /\ pc' = "idle" /\ at' = 0 /\ UNCHANGED slots
  <2>1. ASSUME NEW k \in 1..(array_length - 1)
        PROVE  ~Better(heap_array'[k], heap_array'[get_parent_index(k)])
    <3>1. CASE k = at
      <4>1. get_comparison(at, get_parent_index(at)) # type
        BY <1>1, <1>3, <3>1 DEF rises
      <4> QED  BY <1>3, <3>1, <4>1 DEF get_comparison, Better, slots
    <3>2. CASE k # at
      BY <1>1, <1>3, <3>2 DEF HeapOrder, InOrder, slots
    <3> QED  BY <3>1, <3>2
  <2>2. HeapOrder'
    BY <1>1, <1>3, <2>1, NextOrder DEF HeapOrder, get_parent_index, slots
  <2>3. HeapTypeOK'
    BY <1>1, <1>3 DEF HeapTypeOK, slots, settings
  <2>4. Room'
    BY <1>1, <1>3 DEF HeapInv, Room, slots
  <2> QED  BY <1>1, <1>3, <2>2, <2>3, <2>4 DEF HeapInv, slots
<1> QED  BY <1>2, <1>3 DEF bubble_up

-----------------------------------------------------------------------------
(***************************************************************************)
(* Removal.                                                                *)
(***************************************************************************)

\* heap_pop puts the last payload at the root: only its children may beat it.
LEMMA TakeRootInv ==
  ASSUME HeapInv, pc = "idle", array_length > 0, TakeRoot, pc' = "bubble_down", at' = 0,
         UNCHANGED <<settings, array_size, destroyed, dumped, ret>>
  PROVE  HeapInv'
<1> DEFINE n == array_length - 1
<1>1. /\ array_length \in Nat /\ n \in Nat /\ array_size \in Nat /\ array_length' = n
      /\ \A k \in 0..(array_length - 1) :
           k \in 0..(array_size - 1) /\ heap_array[k] \in Payload
      /\ heap_array \in [0..(array_size - 1) -> Payload \cup {Zeroed, Garbage}]
  BY SlotsHold DEF HeapInv, TakeRoot
<1>2. 0 \in 0..(array_length - 1) /\ n \in 0..(array_length - 1)
  BY <1>1
<1>3. /\ 0 \in 0..(array_size - 1) /\ n \in 0..(array_size - 1)
      /\ heap_array[0] \in Payload /\ heap_array[n] \in Payload
  BY <1>1, <1>2
<1>4. /\ payload' = heap_array[0]
      /\ \/ heap_array' = [heap_array EXCEPT ![0] = heap_array[n]]
         \/ heap_array' = [[heap_array EXCEPT ![0] = heap_array[n]] EXCEPT ![n] = Zeroed]
  BY DEF TakeRoot
<1> HIDE DEF n
<1>5. heap_array' \in [0..(array_size - 1) -> Payload \cup {Zeroed, Garbage}]
  BY <1>1, <1>3, <1>4
<1>6. ASSUME NEW k \in 0..(n - 1)
      PROVE  /\ k \in 0..(array_size - 1) /\ heap_array'[k] \in Payload
             /\ k # 0 => heap_array'[k] = heap_array[k]
  <2>1. k \in 0..(array_length - 1) /\ k # n
    BY <1>1 DEF n
  <2> QED  BY <1>1, <1>3, <1>4, <2>1
<1>7. HeapTypeOK'
  BY <1>1, <1>3, <1>4, <1>5, <1>6 DEF HeapInv, HeapTypeOK, settings
<1>8. HeapOrder'
  <2>1. ASSUME NEW k \in 1..(n - 1), get_parent_index(k) # 0
        PROVE  ~Better(heap_array'[k], heap_array'[get_parent_index(k)])
    <3>1. k \in 0..(n - 1) /\ k \in Nat /\ k > 0 /\ k \in 1..(array_length - 1)
      BY <1>1 DEF n
    <3>2. get_parent_index(k) \in 0..(n - 1)
      BY <1>1, <3>1, ParentIndex
    <3>3. ~Better(heap_array[k], heap_array[get_parent_index(k)])
      BY <3>1 DEF HeapInv, HeapOrder, InOrder
    <3> QED  BY <1>6, <2>1, <3>1, <3>2, <3>3
  <2> QED  BY <1>1, <2>1, NextOrder DEF HeapOrder, get_parent_index
<1>9. Room'
  BY <1>1 DEF HeapInv, Room, n
<1> QED  BY <1>1, <1>3, <1>4, <1>7, <1>8, <1>9 DEF HeapInv

\* A payload that does not beat its children changes places with one that beats the
\* other, and stays the only one that may be out of order.
LEMMA BubbleDownInv ==
  ASSUME HeapInv, bubble_down
  PROVE  HeapInv'
<1> DEFINE A(k) == heap_array[k]
           t == get_target_index(at)
<1>1. /\ pc = "bubble_down" /\ HeapTypeOK /\ HeapOrder
      /\ array_length \in Nat /\ at \in Nat /\ at < array_length
      /\ \A k \in 0..(array_length - 1) : A(k) \in Payload
      /\ swap(at, t) /\ at' = t /\ t # at
      /\ UNCHANGED <<settings, array_length, array_size, pc, payload, destroyed, dumped, ret>>
  BY SlotsHold DEF HeapInv, bubble_down, sinks
<1>2. at \in 0..(array_length - 1)
  BY <1>1
<1>3. /\ t \in 0..(array_length - 1) /\ t \in {left(at), right(at)}
      /\ ~Better(A(at), A(t))
      /\ \A k \in 1..(array_length - 1) :
           get_parent_index(k) = at => ~Better(A(k), A(t))
  BY <1>1, <1>2, TargetIsBest
<1>4. t \in Nat /\ t > at /\ get_parent_index(t) = at /\ t \in 1..(array_length - 1)
  BY <1>1, <1>3, ChildIndex
<1>5. /\ heap_array'[at] = A(t) /\ heap_array'[t] = A(at)
      /\ \A k \in 0..(array_length - 1) :
           k # at /\ k # t => heap_array'[k] = A(k)
  BY <1>1, <1>2, <1>3, SwapSlots
<1>6. ASSUME NEW k \in 1..(array_length - 1)
      PROVE  /\ k \in 0..(array_length - 1) /\ k \in Nat
             /\ get_parent_index(k) \in 0..(array_length - 1)
             /\ get_parent_index(k) \in Nat /\ get_parent_index(k) < k
             /\ get_parent_index(k) # at => ~Better(A(k), A(get_parent_index(k)))
  <2>1. k \in 0..(array_length - 1) /\ k \in Nat /\ k > 0
    BY <1>1
  <2>2. /\ get_parent_index(k) \in 0..(array_length - 1)
        /\ get_parent_index(k) \in Nat /\ get_parent_index(k) < k
    BY <1>1, <2>1, ParentIndex
  <2> QED  BY <1>1, <2>1, <2>2 DEF HeapOrder, InOrder
<1> HIDE DEF A, t
<1>7. ASSUME NEW k \in 1..(array_length - 1), get_parent_index(k) # t
      PROVE  ~Better(heap_array'[k], heap_array'[get_parent_index(k)])
  <2>1. CASE k = t
    BY <1>3, <1>4, <1>5, <2>1
  <2>2. CASE k # t /\ get_parent_index(k) = at
    <3>1. k # at
      BY <1>1, <1>6, <2>2
    <3> QED  BY <1>3, <1>5, <1>6, <2>2, <3>1
  <2>3. CASE k = at
    <3>1. /\ get_parent_index(at) \in 0..(array_length - 1)
          /\ get_parent_index(at) # at /\ get_parent_index(at) # t /\ at > 0
      BY <1>1, <1>6, <1>7, <2>3
    <3>2. ~Better(A(t), A(get_parent_index(at)))
      BY <1>1, <1>4, <3>1 DEF HeapOrder, InOrder, A
    <3> QED  BY <1>5, <2>3, <3>1, <3>2
  <2>4. CASE k # t /\ k # at /\ get_parent_index(k) # at
    BY <1>5, <1>6, <1>7, <2>4
  <2> QED  BY <2>1, <2>2, <2>3, <2>4
<1>8. ASSUME NEW k \in 1..(array_length - 1), get_parent_index(k) = t
      PROVE  ~Better(heap_array'[k], heap_array'[get_parent_index(t)])
  <2>1. k # t /\ k # at
    BY <1>1, <1>4, <1>6, <1>8
  <2>2. ~Better(A(k), A(t))
    BY <1>1, <1>6, <1>8
  <2> QED  BY <1>4, <1>5, <1>6, <2>1, <2>2
<1>9. HeapOrder'
  BY <1>1, <1>7, <1>8, NextOrder DEF HeapOrder, get_parent_index
<1> QED  BY <1>1, <1>2, <1>3, <1>9, SwapInv

\* What Downgrade does to the size when n slots are in use.
Kept(n) ==
  /\ array_size' = array_size
  /\ array_size > BASE_SIZE => \E y \in Nat : array_size = 2 * y /\ n # y
Halved(n) == array_size = 2 * array_size' /\ n = array_size'

\* Shrinking keeps every slot that fits and leaves a size that base doubles to.
LEMMA DowngradeSlots ==
  ASSUME HeapInv, array_size \in Sizes(BASE_SIZE), NEW n \in Nat, Downgrade(n)
  PROVE  /\ array_size' \in Sizes(BASE_SIZE) /\ array_size' \in Nat
         /\ heap_array' \in [0..(array_size' - 1) -> Payload \cup {Zeroed, Garbage}]
         /\ \A k \in 0..(array_size' - 1) :
              k \in 0..(array_size - 1) => heap_array'[k] = heap_array[k]
         /\ Kept(n) \/ Halved(n)
<1>1. /\ array_size \in Nat /\ BASE_SIZE \in Nat \ {0}
      /\ heap_array \in [0..(array_size - 1) -> Payload \cup {Zeroed, Garbage}]
  BY HeapAssumption DEF HeapInv, HeapTypeOK
<1>2. heap_array' = [k \in 0..(array_size' - 1) |->
                       IF k \in 0..(array_size - 1) THEN heap_array[k] ELSE Garbage]
  BY <1>1 DEF Downgrade, resize_heap
<1>3. array_size' = IF n = array_size \div 2 /\ array_size > BASE_SIZE
                    THEN array_size \div 2 ELSE array_size
  BY DEF Downgrade, ensure_downgrade_size
<1>4. CASE array_size > BASE_SIZE
  <2>1. PICK y \in Sizes(BASE_SIZE) : array_size = 2 * y
    BY <1>1, <1>4, SizesHalve
  <2>2. y \in Nat /\ array_size \div 2 = y
    BY <1>1, <2>1, SizesFromBase
  <2>3. /\ array_size' \in Sizes(BASE_SIZE) /\ array_size' \in Nat
        /\ \/ array_size' = array_size /\ n # y
           \/ array_size' = y /\ n = y
    BY <1>1, <1>3, <1>4, <2>1, <2>2
  <2>4. Kept(n) \/ Halved(n)
    BY <1>1, <2>1, <2>2, <2>3 DEF Kept, Halved
  <2> QED  BY <1>1, <1>2, <2>1, <2>2, <2>3, <2>4
<1>5. CASE ~(array_size > BASE_SIZE)
  <2>1. array_size' = array_size /\ Kept(n)
    BY <1>3, <1>5 DEF Kept
  <2> QED  BY <1>1, <1>2, <2>1
<1> QED  BY <1>4, <1>5

\* When the loop is over, the payload that went down is in order with its children.
LEMMA SunkInOrder ==
  ASSUME HeapInv, pc = "bubble_down", ~sinks,
         NEW k \in 1..(array_length - 1)
  PROVE  InOrder(k, get_parent_index(k))
<1>1. /\ HeapTypeOK /\ array_length \in Nat /\ at \in Nat
      /\ k \in Nat /\ k > 0 /\ k < array_length
      /\ get_parent_index(k) # at => InOrder(k, get_parent_index(k))
  BY SlotsHold DEF HeapInv, HeapOrder
<1>2. ASSUME get_parent_index(k) = at
      PROVE  InOrder(k, at)
  <2>1. at < array_length /\ at \in 0..(array_length - 1)
    BY <1>1, <1>2, ParentIndex
  <2>2. ~is_valid_parent(at)
    <3>1. k >= left(at)
      <4>1. k = left(at) \/ k = right(at)
        BY <1>1, <1>2, ParentIndex
      <4> QED  BY <1>1, <4>1 DEF left, right
    <3>2. has_child(left(at))
      BY <1>1, <3>1 DEF has_child, left
    <3> QED  BY <3>2, ValidParentIsLeaf
  <2>3. get_target_index(at) = at
    BY <2>1, <2>2 DEF sinks
  <2> QED  BY <1>1, <1>2, <2>1, <2>3, TargetIsBest DEF InOrder
<1> QED  BY <1>1, <1>2

\* The end of heap_pop preserves the invariant: what remains fits the shrunk array.
LEMMA PopEndInv ==
  ASSUME HeapInv, PopEnd
  PROVE  HeapInv'
<1>1. /\ pc = "bubble_down" /\ ~sinks /\ Downgrade(array_length)
      /\ pc' = "idle" /\ at' = 0 /\ payload' = NULL /\ ret' = payload
      /\ UNCHANGED <<settings, array_length, destroyed, dumped>>
  BY DEF PopEnd
<1>2. /\ array_length \in Nat /\ array_size \in Nat /\ array_length <= array_size
      /\ array_size \in Sizes(BASE_SIZE) /\ payload \in Payload
      /\ array_size > BASE_SIZE /\ ~dumped => 2 * (array_length + 1) > array_size
      /\ \A k \in 0..(array_length - 1) :
           k \in 0..(array_size - 1) /\ heap_array[k] \in Payload
  BY <1>1, SlotsHold DEF HeapInv, Room
<1>3. /\ array_size' \in Sizes(BASE_SIZE) /\ array_size' \in Nat
      /\ heap_array' \in [0..(array_size' - 1) -> Payload \cup {Zeroed, Garbage}]
      /\ \A k \in 0..(array_size' - 1) :
           k \in 0..(array_size - 1) => heap_array'[k] = heap_array[k]
      /\ Kept(array_length) \/ Halved(array_length)
  BY <1>1, <1>2, DowngradeSlots
<1>4. /\ array_length <= array_size'
      /\ array_size' > BASE_SIZE /\ ~dumped => 2 * array_length > array_size'
  <2>1. CASE Kept(array_length) /\ ~(array_size > BASE_SIZE)
    BY <1>2, <2>1 DEF Kept
  <2>2. CASE Kept(array_length) /\ array_size > BASE_SIZE
    <3>1. PICK y \in Nat : array_size = 2 * y /\ array_length # y
      BY <2>2 DEF Kept
    <3>2. array_size' = array_size
      BY <2>2 DEF Kept
    <3> QED  BY <1>2, <2>2, <3>1, <3>2
  <2>3. CASE Halved(array_length)
    <3>1. array_length \in Nat /\ BASE_SIZE \in Nat \ {0}
      BY <1>2, HeapAssumption
    <3>2. /\ array_length <= array_length
          /\ array_length > BASE_SIZE => 2 * array_length > array_length
      BY <3>1
    <3>3. array_length = array_size'
      BY <2>3 DEF Halved
    <3> QED  BY <3>2, <3>3, Zenon
  <2> QED  BY <1>3, <2>1, <2>2, <2>3
<1>5. ASSUME NEW k \in 0..(array_length - 1)
      PROVE  k \in 0..(array_size' - 1) /\ heap_array'[k] = heap_array[k]
  <2>1. k \in 0..(array_size' - 1)
    BY <1>2, <1>3, <1>4, SlotsNest
  <2> QED  BY <1>2, <1>3, <2>1
<1>6. HeapTypeOK'
  BY <1>1, <1>2, <1>3, <1>5 DEF HeapInv, HeapTypeOK, settings
<1>7. HeapOrder'
  <2>1. ASSUME NEW k \in 1..(array_length - 1)
        PROVE  ~Better(heap_array'[k], heap_array'[get_parent_index(k)])
    <3>1. k \in 0..(array_length - 1) /\ k \in Nat /\ k > 0
      BY <1>2
    <3>2. get_parent_index(k) \in 0..(array_length - 1)
      BY <1>2, <3>1, ParentIndex
    <3>3. ~Better(heap_array[k], heap_array[get_parent_index(k)])
      BY <1>1, SunkInOrder DEF InOrder
    <3> QED  BY <1>5, <3>1, <3>2, <3>3
  <2> QED  BY <1>1, <2>1, NextOrder DEF HeapOrder, get_parent_index
<1>8. Room'
  BY <1>1, <1>4 DEF Room
<1> QED  BY <1>1, <1>3, <1>6, <1>7, <1>8 DEF HeapInv

\* An empty heap has nothing out of order, whatever its array.
LEMMA EmptiedInv ==
  ASSUME HeapInv, array_length' = 0, array_size' \in Nat, pc' \in {"idle", "destroyed"},
         heap_array' \in [0..(array_size' - 1) -> Payload \cup {Zeroed, Garbage}],
         destroyed' \in SUBSET Payload, dumped' \in BOOLEAN, ret' = NULL,
         UNCHANGED <<settings, at, payload>>,
         array_size' > BASE_SIZE => dumped',
         pc' # "destroyed" => array_size' \in Sizes(BASE_SIZE)
  PROVE  HeapInv'
<1>1. HeapTypeOK'
  <2>1. \A k \in 0..(array_length' - 1) :
           k \in DOMAIN heap_array' /\ heap_array'[k] \in Payload
    OBVIOUS
  <2> QED  BY <2>1 DEF HeapInv, HeapTypeOK, settings
<1>2. HeapOrder'
  BY DEF HeapOrder
<1>3. Room'
  BY DEF Room
<1> QED  BY <1>1, <1>2, <1>3 DEF HeapInv

\* Payloads in the heap are payloads.
LEMMA HeldIsPayload ==
  ASSUME HeapTypeOK
  PROVE  Held \subseteq Payload
BY DEF HeapTypeOK, Held

\* heap_dump preserves the invariant, as long as it keeps space it does not need.
LEMMA DumpInv ==
  ASSUME HeapInv, heap_dump
  PROVE  HeapInv'
<1>1. CASE Crash("null_call") \/ Crash("wild_pointer")
  BY <1>1, SameSlotsInv DEF heap_dump, Crash, Crashes, HeapInv, HeapTypeOK
<1>2. CASE /\ destroyed' = IF data_mode = "HEAP_PTR" THEN destroyed \cup Held ELSE destroyed
           /\ array_length' = 0 /\ Downgrade(0) /\ dumped' = TRUE /\ ret' = NULL
           /\ UNCHANGED <<settings, loop>>
  <2>1. pc = "idle" /\ array_size \in Sizes(BASE_SIZE)
    BY DEF heap_dump, HeapInv
  <2>2. /\ array_size' \in Sizes(BASE_SIZE) /\ array_size' \in Nat
        /\ heap_array' \in [0..(array_size' - 1) -> Payload \cup {Zeroed, Garbage}]
    BY <1>2, <2>1, DowngradeSlots
  <2>3. destroyed' \in SUBSET Payload
    BY <1>2, HeldIsPayload DEF HeapInv, HeapTypeOK
  <2> QED  BY <1>2, <2>1, <2>2, <2>3, EmptiedInv DEF loop
<1> QED  BY <1>1, <1>2 DEF heap_dump

\* So does heap_destroy.
LEMMA DestroyInv ==
  ASSUME HeapInv, heap_destroy
  PROVE  HeapInv'
<1>1. destroyed' \in SUBSET Payload
  BY HeldIsPayload DEF HeapInv, HeapTypeOK, heap_destroy
<1>2. heap_array' \in [0..(array_size' - 1) -> Payload \cup {Zeroed, Garbage}]
  BY DEF heap_destroy
<1>3. ~(array_size' > BASE_SIZE) /\ array_size' \in Nat /\ dumped' \in BOOLEAN
  BY HeapAssumption DEF heap_destroy, HeapInv, HeapTypeOK
<1> QED  BY <1>1, <1>2, <1>3, EmptiedInv DEF heap_destroy

\* heap_in_heap changes nothing but its answer, or crashes.
LEMMA InHeapInv ==
  ASSUME HeapInv, NEW d \in Payload, heap_in_heap(d)
  PROVE  HeapInv'
<1>1. CASE Crash("heap_overflow")
  BY <1>1, SameSlotsInv DEF heap_in_heap, Crash, Crashes, HeapInv, HeapTypeOK
<1>2. CASE ret' \in BOOLEAN /\ UNCHANGED <<settings, slots, loop, destroyed, dumped>>
  BY <1>2, SameSlotsInv DEF heap_in_heap, loop, HeapInv, HeapTypeOK
<1>3. \A slot : Matches(slot, d) \subseteq BOOLEAN
  BY DEF Matches
<1> QED  BY <1>1, <1>2, <1>3 DEF heap_in_heap

\* heap_pop preserves it when it returns at once, crashes or takes the root.
LEMMA PopInv ==
  ASSUME HeapInv, heap_pop
  PROVE  HeapInv'
<1>1. CASE ret' = NULL /\ UNCHANGED <<settings, slots, loop, destroyed, dumped>>
  BY <1>1, SameSlotsInv DEF heap_pop, loop, HeapInv, HeapTypeOK
<1>2. CASE Crash("heap_overflow")
  BY <1>2, SameSlotsInv DEF heap_pop, Crash, Crashes, HeapInv, HeapTypeOK
<1>3. CASE /\ array_length > 0 /\ TakeRoot /\ pc' = "bubble_down" /\ at' = 0
           /\ UNCHANGED <<settings, array_size, destroyed, dumped, ret>>
  BY <1>3, TakeRootInv DEF heap_pop
<1> QED  BY <1>1, <1>2, <1>3 DEF heap_pop

\* Every step preserves the invariant.
LEMMA HeapNextInv ==
  ASSUME HeapInv, [Next]_vars
  PROVE  HeapInv'
<1>1. CASE UNCHANGED vars
  BY <1>1, HeapStutterInv
<1>2. ASSUME NEW p \in Payload, heap_insert(p) \/ heap_in_heap(p)
      PROVE  HeapInv'
  BY <1>2, HeapInsertInv, InHeapInv
<1>3. CASE bubble_up
  BY <1>3, BubbleUpInv
<1>4. CASE heap_pop
  BY <1>4, PopInv
<1>5. CASE bubble_down
  BY <1>5, BubbleDownInv
<1>6. CASE PopEnd
  BY <1>6, PopEndInv
<1>7. CASE heap_dump
  BY <1>7, DumpInv
<1>8. CASE heap_destroy
  BY <1>8, DestroyInv
<1> QED  BY <1>1, <1>2, <1>3, <1>4, <1>5, <1>6, <1>7, <1>8 DEF Next

-----------------------------------------------------------------------------
(***************************************************************************)
(* The theorems.                                                           *)
(***************************************************************************)

\* The invariant holds in every reachable state.
THEOREM HeapInvHolds == Spec => []HeapInv
<1>1. Init => HeapInv
  BY HeapInitInv
<1>2. HeapInv /\ [Next]_vars => HeapInv'
  BY HeapNextInv
<1> QED  BY <1>1, <1>2, PTL DEF Spec

\* Every slot in use exists and holds a payload, whatever calls come in what order.
THEOREM HeapTypesHold == Spec => []HeapTypeOK
<1>1. HeapInv => HeapTypeOK
  BY DEF HeapInv
<1> QED  BY <1>1, HeapInvHolds, PTL

\* No payload beats its parent, up to the one that moves.
THEOREM HeapStaysOrdered == Spec => []HeapOrder
<1>1. HeapInv => HeapOrder
  BY DEF HeapInv
<1> QED  BY <1>1, HeapInvHolds, PTL

\* The array has room, and is more than half full once it has grown.
THEOREM HeapCapacityFits == Spec => []CapacityFits
<1>1. HeapInv => CapacityFits
  BY DEF HeapInv, Room, CapacityFits
<1> QED  BY <1>1, HeapInvHolds, PTL

\* Between calls no payload in the heap beats the one at the root: the payload of
\* least index that did would have a parent before it that does too.
LEMMA RootIsBest ==
  ASSUME HeapInv, pc = "idle", array_length > 0
  PROVE  \A p \in Held : ~Better(p, heap_array[0])
<1> DEFINE S == {k \in 0..(array_length - 1) : Better(heap_array[k], heap_array[0])}
<1>1. /\ HeapTypeOK /\ array_length \in Nat
      /\ \A k \in 0..(array_length - 1) : heap_array[k] \in Payload
  BY SlotsHold DEF HeapInv
<1>2. ASSUME S # {}
      PROVE  FALSE
  <2>1. PICK m \in S : \A k \in S : m <= k
    <3>1. S \in SUBSET Nat
      BY <1>1
    <3> HIDE DEF S
    <3> QED  BY <1>2, <3>1, LeastElement
  <2>2. /\ m \in 0..(array_length - 1) /\ m \in Nat /\ 0 \in 0..(array_length - 1)
        /\ Better(heap_array[m], heap_array[0])
    BY <1>1, <2>1
  <2>3. m # 0
    BY <1>1, <2>2, BetterOrder
  <2>4. /\ get_parent_index(m) \in 0..(array_length - 1)
        /\ get_parent_index(m) < m
        /\ m \in 1..(array_length - 1)
    BY <1>1, <2>2, <2>3, ParentIndex
  <2>5. ~Better(heap_array[m], heap_array[get_parent_index(m)])
    BY <2>4 DEF HeapInv, HeapOrder, InOrder
  <2>6. ~Better(heap_array[get_parent_index(m)], heap_array[0])
    BY <1>1, <2>1, <2>4
  <2> QED  BY <1>1, <2>2, <2>4, <2>5, <2>6, BetterOrder
<1> QED  BY <1>2 DEF Held

\* heap_pop takes a payload that none in the heap beats.
THEOREM PopsBestHolds == Spec => PopsBest
<1>1. ASSUME HeapInv, [Next]_vars, pc = "idle", pc' = "bubble_down"
      PROVE  payload' \in Held /\ \A p \in Held : ~Better(p, payload')
  <2>1. heap_pop /\ array_length > 0 /\ TakeRoot
    BY <1>1 DEF Next, vars, loop, heap_insert, heap_in_heap, bubble_up, heap_pop,
                bubble_down, PopEnd, heap_dump, heap_destroy, Crash
  <2>2. payload' = heap_array[0] /\ 0 \in 0..(array_length - 1)
    BY <1>1, <2>1, SlotsHold DEF TakeRoot, HeapInv
  <2> QED  BY <1>1, <2>1, <2>2, RootIsBest DEF Held
<1>2. HeapInv /\ [Next]_vars
        => [pc = "idle" /\ pc' = "bubble_down"
             => payload' \in Held /\ \A p \in Held : ~Better(p, payload')]_vars
  BY <1>1
<1> QED  BY <1>2, HeapInvHolds, PTL DEF Spec, PopsBest

-----------------------------------------------------------------------------
(***************************************************************************)
(* The heap implements the bag that hands its payloads back best first.    *)
(***************************************************************************)

\* A set of slots is finite.
LEMMA FiniteSlots ==
  ASSUME NEW n \in Nat, NEW S \in SUBSET (0..(n - 1))
  PROVE  IsFiniteSet(S)
<1>1. IsFiniteSet(0..(n - 1))
  BY FS_Interval
<1> QED  BY <1>1, FS_Subset

\* How many of the first n slots hold p.
LEMMA CopiesAre ==
  ASSUME NEW a, NEW n \in Nat, NEW p
  PROVE  /\ IsFiniteSet({k \in 0..(n - 1) : a[k] = p})
         /\ Copies(a, n, p) \in Nat
         /\ Copies(a, n, p) > 0 <=> \E k \in 0..(n - 1) : a[k] = p
<1> DEFINE S == {k \in 0..(n - 1) : a[k] = p}
<1>3. IsFiniteSet(S)
  <2>1. S \in SUBSET (0..(n - 1))
    OBVIOUS
  <2> HIDE DEF S
  <2> QED  BY <2>1, FiniteSlots
<1>4. Cardinality(S) \in Nat
  BY <1>3, FS_CardinalityType
<1>5. Cardinality(S) = 0 <=> S = {}
  BY <1>3, FS_EmptySet
<1>1. S # {} <=> \E k \in 0..(n - 1) : a[k] = p
  OBVIOUS
<1>7. Copies(a, n, p) = Cardinality(S)
  BY DEF Copies
<1> HIDE DEF S
<1>8. Copies(a, n, p) \in Nat /\ (Copies(a, n, p) > 0 <=> S # {})
  BY <1>4, <1>5, <1>7
<1> QED  BY <1>1, <1>3, <1>8 DEF S

\* Arrays that agree hold as many.
LEMMA SameCopies ==
  ASSUME NEW a, NEW b, NEW n \in Nat, NEW p, \A k \in 0..(n - 1) : a[k] = b[k]
  PROVE  Copies(a, n, p) = Copies(b, n, p)
<1>1. {k \in 0..(n - 1) : a[k] = p} = {k \in 0..(n - 1) : b[k] = p}
  OBVIOUS
<1> QED  BY <1>1 DEF Copies

\* One more slot holds one more, or not.
LEMMA OneMoreCopy ==
  ASSUME NEW a, NEW n \in Nat, NEW p
  PROVE  Copies(a, n + 1, p) = IF a[n] = p THEN Copies(a, n, p) + 1 ELSE Copies(a, n, p)
<1> DEFINE S == {k \in 0..(n - 1) : a[k] = p}
           T == {k \in 0..((n + 1) - 1) : a[k] = p}
<1>1. IsFiniteSet(S) /\ n \notin S
  <2>1. S \in SUBSET (0..(n - 1)) /\ n \notin S
    OBVIOUS
  <2> HIDE DEF S
  <2> QED  BY <2>1, FiniteSlots
<1>2. /\ Copies(a, n, p) = Cardinality(S)
      /\ Copies(a, n + 1, p) = Cardinality(T)
  BY DEF Copies
<1>3. T = IF a[n] = p THEN S \cup {n} ELSE S
  <2>1. \A k : k \in 0..((n + 1) - 1) <=> k \in 0..(n - 1) \/ k = n
    OBVIOUS
  <2> QED  BY <2>1
<1> HIDE DEF S, T
<1>4. Cardinality(S \cup {n}) = Cardinality(S) + 1
  BY <1>1, FS_AddElement
<1> QED  BY <1>2, <1>3, <1>4

\* Two slots that change places.
LEMMA SwappedCopies ==
  ASSUME NEW a, NEW b, NEW n \in Nat, NEW i \in 0..(n - 1), NEW j \in 0..(n - 1), NEW p,
         b[i] = a[j], b[j] = a[i],
         \A k \in 0..(n - 1) : k # i /\ k # j => b[k] = a[k]
  PROVE  Copies(b, n, p) = Copies(a, n, p)
<1> DEFINE S == {k \in 0..(n - 1) : a[k] = p}
           T == {k \in 0..(n - 1) : b[k] = p}
<1>1. IsFiniteSet(S) /\ IsFiniteSet(T)
  <2>1. S \in SUBSET (0..(n - 1)) /\ T \in SUBSET (0..(n - 1))
    OBVIOUS
  <2> HIDE DEF S, T
  <2> QED  BY <2>1, FiniteSlots
<1>2. Copies(a, n, p) = Cardinality(S) /\ Copies(b, n, p) = Cardinality(T)
  BY DEF Copies
<1>3. ASSUME NEW U, NEW V, IsFiniteSet(U), NEW x \in U, NEW y, y \notin U,
             V = (U \ {x}) \cup {y}
      PROVE  Cardinality(V) = Cardinality(U)
  <2>1. IsFiniteSet(U \ {x}) /\ Cardinality(U \ {x}) = Cardinality(U) - 1
    BY <1>3, FS_RemoveElement
  <2>2. Cardinality((U \ {x}) \cup {y}) = Cardinality(U \ {x}) + 1
    BY <1>3, <2>1, FS_AddElement
  <2>3. Cardinality(U) \in Nat
    BY <1>3, FS_CardinalityType
  <2> QED  BY <1>3, <2>1, <2>2, <2>3
<1>4. CASE (a[i] = p) <=> (a[j] = p)
  <2>1. S = T
    BY <1>4
  <2> QED  BY <1>2, <2>1
<1>5. CASE a[i] = p /\ a[j] # p
  <2>1. i \in S /\ j \notin S /\ T = (S \ {i}) \cup {j}
    BY <1>5
  <2> HIDE DEF S, T
  <2> QED  BY <1>1, <1>2, <1>3, <2>1
<1>6. CASE a[i] # p /\ a[j] = p
  <2>1. j \in S /\ i \notin S /\ T = (S \ {j}) \cup {i}
    BY <1>6
  <2> HIDE DEF S, T
  <2> QED  BY <1>1, <1>2, <1>3, <2>1
<1> QED  BY <1>4, <1>5, <1>6

\* The payloads of the abstract bag are those in the slots.
LEMMA BagHeld ==
  ASSUME HeapTypeOK
  PROVE  Abs!Held = Held
<1>1. array_length \in Nat /\ \A k \in 0..(array_length - 1) : heap_array[k] \in Payload
  BY SlotsHold
<1>2. \A p \in Payload :
        Copies(heap_array, array_length, p) > 0
          <=> \E k \in 0..(array_length - 1) : heap_array[k] = p
  BY <1>1, CopiesAre
<1>3. \A p \in Payload : bag[p] = Copies(heap_array, array_length, p)
  BY DEF bag
<1>4. Abs!Held = {p \in Payload : bag[p] > 0}
  BY DEF Abs!Held
<1>5. Abs!Held = {p \in Payload : \E k \in 0..(array_length - 1) : heap_array[k] = p}
  BY <1>2, <1>3, <1>4
<1> QED  BY <1>1, <1>5 DEF Held

\* The abstract order is that of compare.
LEMMA AbsBetter ==
  ASSUME HeapTypeOK, NEW p \in Payload, NEW q \in Payload
  PROVE  Abs!Better(p, q) <=> Better(p, q)
<1>1. Rank[p] \in Int /\ Rank[q] \in Int
  BY HeapAssumption
<1> QED  BY <1>1 DEF Abs!Better, Better, compare, type

\* No pointer the heap holds is one it has destroyed.
Clean == data_mode = "HEAP_PTR" => Held \cap destroyed = {}

\* What bag is after a step.
LEMMA NextBag == bag' = [p \in Payload |-> Copies(heap_array', array_length', p)]
BY DEF bag, Copies

\* What Held is after a step.
LEMMA NextHeld == Held' = {heap_array'[k] : k \in 0..(array_length' - 1)}
BY DEF Held

\* What the bag sees of the settings, and of a call that has not ended the process.
LEMMA SameSettings ==
  ASSUME UNCHANGED settings
  PROVE  UNCHANGED <<heap_type, owner, copies, wide>>
BY DEF settings, copies

\* A call that goes on, or has returned, has not ended the process.
LEMMA Alive ==
  /\ pc \in {"idle", "bubble_up", "bubble_down", "destroyed"} => crashed = FALSE
  /\ pc' \in {"idle", "bubble_up", "bubble_down", "destroyed"} => crashed' = FALSE
  /\ pc' \in Crashes => crashed' = TRUE
BY DEF crashed, Crashes

\* heap_insert puts a payload into the bag.
LEMMA InsertMaps ==
  ASSUME HeapInv, Clean, NEW p \in Payload, heap_insert(p)
  PROVE  Abs!Next /\ Clean'
<1>1. /\ array_length' = array_length + 1 /\ array_length \in Nat
      /\ \A k \in 0..(array_length - 1) : heap_array'[k] = heap_array[k]
      /\ heap_array'[array_length] = p
  BY InsertSlots, SlotsHold DEF HeapInv
<1>2. /\ pc = "idle" /\ pc' = "bubble_up" /\ ret' = NULL
      /\ UNCHANGED settings /\ destroyed' = destroyed \ {p}
  BY DEF heap_insert
<1>3. ASSUME NEW q \in Payload
      PROVE  Copies(heap_array', array_length', q)
               = IF q = p THEN Copies(heap_array, array_length, q) + 1
                          ELSE Copies(heap_array, array_length, q)
  <2>1. Copies(heap_array', array_length, q) = Copies(heap_array, array_length, q)
    BY <1>1, SameCopies
  <2>2. Copies(heap_array', array_length + 1, q)
          = IF heap_array'[array_length] = q THEN Copies(heap_array', array_length, q) + 1
            ELSE Copies(heap_array', array_length, q)
    BY <1>1, OneMoreCopy
  <2> QED  BY <1>1, <2>1, <2>2
<1>4. bag' = [bag EXCEPT ![p] = @ + 1]
  BY <1>3, NextBag DEF bag
<1>5. Abs!Insert(p) /\ ~crashed
  BY <1>2, <1>4, Alive DEF Abs!Insert, returned
<1>6. UNCHANGED <<heap_type, owner, copies, wide>>
  BY <1>2, SameSettings
<1>7. Held' = Held \cup {p}
  <2>1. \A k : k \in 0..(array_length' - 1) <=> k \in 0..(array_length - 1) \/ k = array_length
    BY <1>1
  <2> QED  BY <1>1, <2>1, NextHeld DEF Held
<1> QED  BY <1>2, <1>5, <1>6, <1>7 DEF Abs!Next, Clean, settings

\* A step that leaves what is held, and the answer due, is none of the bag's.
LEMMA BagStutters ==
  ASSUME bag' = bag, returned' = returned, crashed' = crashed,
         UNCHANGED <<settings, destroyed>>
  PROVE  UNCHANGED Abs!vars
BY SameSettings DEF Abs!vars

\* A round of a loop moves payloads within the heap.
LEMMA SwapMaps ==
  ASSUME HeapInv, Clean, NEW i \in 0..(array_length - 1), NEW j \in 0..(array_length - 1),
         swap(i, j), pc' = pc,
         UNCHANGED <<settings, array_length, array_size, payload, destroyed, dumped, ret>>
  PROVE  UNCHANGED Abs!vars /\ Clean'
<1>1. /\ heap_array'[i] = heap_array[j] /\ heap_array'[j] = heap_array[i]
      /\ \A k \in 0..(array_length - 1) :
           k # i /\ k # j => heap_array'[k] = heap_array[k]
      /\ array_length \in Nat
  BY SwapSlots, SlotsHold DEF HeapInv
<1>2. \A p \in Payload :
        Copies(heap_array', array_length, p) = Copies(heap_array, array_length, p)
  BY <1>1, SwappedCopies
<1>3. bag' = bag
  BY <1>2, NextBag DEF bag
<1>4. Held' \subseteq Held
  BY <1>1, NextHeld DEF Held
<1>5. returned' = returned /\ crashed' = crashed
  BY DEF returned, crashed
<1> QED  BY <1>3, <1>4, <1>5, BagStutters DEF Clean, settings

\* The loop of heap_insert.
LEMMA BubbleUpMaps ==
  ASSUME HeapInv, Clean, bubble_up
  PROVE  UNCHANGED Abs!vars /\ Clean'
<1>1. /\ pc = "bubble_up" /\ at < array_length /\ HeapTypeOK
      /\ array_length \in Nat /\ at \in Nat
      /\ UNCHANGED <<settings, payload, destroyed, dumped, ret>>
  BY SlotsHold DEF HeapInv, bubble_up
<1>2. CASE rises /\ swap(at, get_parent_index(at)) /\ UNCHANGED <<pc, array_length, array_size>>
  <2>1. at \in 0..(array_length - 1) /\ get_parent_index(at) \in 0..(array_length - 1)
    BY <1>1, <1>2, ParentIndex DEF rises
  <2> QED  BY <1>1, <1>2, <2>1, SwapMaps
<1>3. CASE pc' = "idle" /\ UNCHANGED slots
  <2>1. bag' = bag /\ Held' = Held
    BY <1>3, NextBag, NextHeld DEF bag, Held, slots
  <2>2. returned' = returned /\ crashed' = crashed
    BY <1>1, <1>3, Alive DEF returned
  <2> QED  BY <1>1, <2>1, <2>2, BagStutters DEF Clean, settings
<1> QED  BY <1>2, <1>3 DEF bubble_up

\* The loop of heap_pop.
LEMMA BubbleDownMaps ==
  ASSUME HeapInv, Clean, bubble_down
  PROVE  UNCHANGED Abs!vars /\ Clean'
<1>1. /\ pc = "bubble_down" /\ at < array_length /\ HeapTypeOK
      /\ array_length \in Nat /\ at \in Nat
      /\ swap(at, get_target_index(at))
      /\ UNCHANGED <<settings, array_length, array_size, pc, payload, destroyed, dumped, ret>>
  BY SlotsHold DEF HeapInv, bubble_down, sinks
<1>2. at \in 0..(array_length - 1)
  BY <1>1
<1>3. get_target_index(at) \in 0..(array_length - 1)
  BY <1>1, <1>2, TargetIsBest
<1> QED  BY <1>1, <1>2, <1>3, SwapMaps

\* The last payload at the root, and one slot fewer: the root's payload is gone.
LEMMA TakeRootMaps ==
  ASSUME HeapInv, Clean, pc = "idle", array_length > 0, TakeRoot, pc' = "bubble_down",
         data_mode = "HEAP_PTR" \/ ~wide,
         UNCHANGED <<settings, array_size, destroyed, dumped, ret>>
  PROVE  Abs!Next /\ Clean'
<1> DEFINE n == array_length - 1
           root == heap_array[0]
           b == [k \in 0..n |-> IF k = 0 THEN heap_array[n]
                                ELSE IF k = n THEN root ELSE heap_array[k]]
<1>1. /\ array_length \in Nat /\ n \in Nat /\ array_length = n + 1 /\ array_length' = n
      /\ HeapTypeOK
      /\ \A k \in 0..n : k \in 0..(array_size - 1) /\ heap_array[k] \in Payload
      /\ heap_array \in [0..(array_size - 1) -> Payload \cup {Zeroed, Garbage}]
  BY SlotsHold DEF HeapInv, TakeRoot
<1>2. 0 \in 0..n /\ n \in 0..n /\ root \in Payload /\ payload' = root
  BY <1>1 DEF TakeRoot
<1>3. /\ 0 \in 0..(array_size - 1) /\ n \in 0..(array_size - 1)
  BY <1>1, <1>2
<1>4. \/ heap_array' = [heap_array EXCEPT ![0] = heap_array[n]]
      \/ heap_array' = [[heap_array EXCEPT ![0] = heap_array[n]] EXCEPT ![n] = Zeroed]
  BY DEF TakeRoot
<1> HIDE DEF n, root
<1>5. \A k \in 0..(n - 1) : heap_array'[k] = b[k]
  <2>1. ASSUME NEW k \in 0..(n - 1)
        PROVE  heap_array'[k] = b[k]
    <3>1. k \in 0..n /\ k # n /\ k \in 0..(array_size - 1)
      BY <1>1
    <3> QED  BY <1>1, <1>3, <1>4, <3>1
  <2> QED  BY <2>1
<1>6. b[n] = root
  BY <1>1, <1>2 DEF root
<1>7. b[0] = heap_array[n] /\ b[n] = heap_array[0]
      /\ \A k \in 0..n : k # 0 /\ k # n => b[k] = heap_array[k]
  BY <1>2, <1>6 DEF root
<1> HIDE DEF b
<1>8. ASSUME NEW p \in Payload
      PROVE  Copies(heap_array', n, p)
               = IF p = root THEN Copies(heap_array, array_length, p) - 1
                             ELSE Copies(heap_array, array_length, p)
  <2>1. Copies(heap_array', n, p) = Copies(b, n, p)
    BY <1>1, <1>5, SameCopies
  <2>2. Copies(b, n + 1, p) = IF b[n] = p THEN Copies(b, n, p) + 1 ELSE Copies(b, n, p)
    BY <1>1, OneMoreCopy
  <2>3. Copies(b, n + 1, p) = Copies(heap_array, n + 1, p)
    <3>1. n + 1 \in Nat /\ (n + 1) - 1 = n
      BY <1>1
    <3> QED  BY <1>2, <1>7, <3>1, SwappedCopies
  <2>4. Copies(b, n, p) \in Nat
    BY <1>1, CopiesAre
  <2> QED  BY <1>1, <1>6, <2>1, <2>2, <2>3, <2>4
<1>9. bag' = [bag EXCEPT ![root] = @ - 1]
  BY <1>1, <1>2, <1>8, NextBag DEF bag
<1>10. root \in Held /\ \A p \in Held : ~Better(p, root)
  <2>1. 0 \in 0..(array_length - 1)
    BY <1>1
  <2> QED  BY <2>1, RootIsBest DEF Held, root
<1>11. Abs!Held = Held /\ Held \subseteq Payload
  BY <1>1, BagHeld, HeldIsPayload
<1>12. root \in Abs!Held /\ \A q \in Abs!Held : ~Abs!Better(q, root)
  BY <1>1, <1>2, <1>10, <1>11, AbsBetter
<1>13. returned' = root
  BY <1>2 DEF returned
<1>14. Abs!Pop /\ ~crashed
  <2>1. crashed = FALSE /\ crashed' = FALSE
    BY Alive
  <2>2. Abs!Take(root)
    BY <1>9, <1>12, <1>13, <2>1 DEF Abs!Take
  <2>3. ~(copies /\ wide)
    BY DEF copies
  <2> QED  BY <1>12, <2>1, <2>2, <2>3 DEF Abs!Pop
<1>15. Held' \subseteq Held
  <2>1. \A k \in 0..(n - 1) : k \in 0..n
    BY <1>1
  <2>2. ASSUME NEW k \in 0..(n - 1)
        PROVE  \E m \in 0..n : heap_array'[k] = heap_array[m]
    <3>1. k \in 0..n /\ k # n /\ heap_array'[k] = b[k]
      BY <1>1, <1>5, <2>1
    <3> QED  BY <1>2, <1>7, <3>1
  <2>3. array_length - 1 = n
    BY <1>1
  <2> QED  BY <1>1, <2>2, <2>3, NextHeld DEF Held
<1>16. UNCHANGED <<heap_type, owner, copies, wide>> /\ UNCHANGED data_mode
  BY SameSettings DEF settings
<1> QED  BY <1>14, <1>15, <1>16 DEF Abs!Next, Clean

\* A crash, or a step that does nothing to the heap.
LEMMA IdleMaps ==
  ASSUME Clean, pc = "idle", pc' # "bubble_down", UNCHANGED <<settings, slots, destroyed>>
  PROVE  /\ bag' = bag /\ Clean' /\ UNCHANGED <<heap_type, owner, copies, wide>>
         /\ returned = ret /\ returned' = ret' /\ ~crashed
<1>1. bag' = bag /\ Held' = Held
  BY NextBag, NextHeld DEF bag, Held, slots
<1> QED  BY <1>1, SameSettings, Alive DEF Clean, settings, returned

\* A crash ends the bag, and takes nothing back of what was promised.
LEMMA CrashMaps ==
  ASSUME Clean, pc = "idle", NEW how \in Crashes, Crash(how)
  PROVE  /\ Abs!Dies /\ Clean' /\ ~crashed /\ UNCHANGED <<heap_type, owner, copies, wide>>
<1>1. /\ bag' = bag /\ Clean' /\ returned = ret /\ returned' = ret' /\ ~crashed
      /\ UNCHANGED <<heap_type, owner, copies, wide>>
  BY IdleMaps DEF Crash, Crashes
<1>2. crashed' = TRUE
  BY Alive DEF Crash
<1> QED  BY <1>1, <1>2 DEF Abs!Dies, Crash

\* The bag has something in it as soon as a slot is in use.
LEMMA BagEmpty ==
  ASSUME HeapTypeOK
  PROVE  Abs!Held = {} <=> array_length = 0
<1>1. array_length \in Nat /\ Abs!Held = Held
  BY BagHeld DEF HeapTypeOK
<1>2. array_length = 0 => Held = {}
  BY DEF Held
<1>3. array_length # 0 => heap_array[0] \in Held
  BY <1>1 DEF Held
<1> QED  BY <1>1, <1>2, <1>3

\* heap_pop on an empty heap returns NULL; otherwise it begins by taking the root,
\* unless the payloads are wide copies.
LEMMA PopMaps ==
  ASSUME HeapInv, Clean, heap_pop
  PROVE  Abs!Next /\ Clean'
<1>1. CASE array_length = 0 /\ ret' = NULL
           /\ UNCHANGED <<settings, slots, loop, destroyed, dumped>>
  <2>1. /\ bag' = bag /\ Clean' /\ UNCHANGED <<heap_type, owner, copies, wide>>
        /\ returned' = NULL /\ ~crashed
    BY <1>1, IdleMaps DEF heap_pop, loop
  <2>2. crashed' = FALSE /\ crashed = FALSE
    BY <1>1, Alive DEF heap_pop, loop
  <2>3. Abs!Held = {}
    BY <1>1, BagEmpty DEF HeapInv
  <2> QED  BY <1>1, <2>1, <2>2, <2>3 DEF Abs!Next, Abs!Pop
<1>2. CASE array_length > 0 /\ data_mode = "HEAP_MEM" /\ wide /\ Crash("heap_overflow")
  <2>1. Abs!Held # {} /\ copies /\ wide
    BY <1>2, BagEmpty DEF HeapInv, copies
  <2>2. /\ Abs!Dies /\ Clean' /\ ~crashed
        /\ UNCHANGED <<heap_type, owner, copies, wide>>
    BY <1>2, CrashMaps DEF heap_pop, Crashes
  <2> QED  BY <2>1, <2>2 DEF Abs!Next, Abs!Pop
<1>3. CASE /\ array_length > 0 /\ TakeRoot /\ pc' = "bubble_down"
           /\ data_mode = "HEAP_PTR" \/ ~wide
           /\ UNCHANGED <<settings, array_size, destroyed, dumped, ret>>
  BY <1>3, TakeRootMaps DEF heap_pop
<1> QED  BY <1>1, <1>2, <1>3 DEF heap_pop

\* Shrinking the array at the end of heap_pop keeps what the heap holds.
LEMMA PopEndMaps ==
  ASSUME HeapInv, Clean, PopEnd
  PROVE  UNCHANGED Abs!vars /\ Clean'
<1>1. /\ pc = "bubble_down" /\ Downgrade(array_length) /\ pc' = "idle" /\ ret' = payload
      /\ UNCHANGED <<settings, array_length, destroyed, dumped>>
  BY DEF PopEnd
<1>2. /\ array_length \in Nat /\ array_size \in Sizes(BASE_SIZE)
      /\ \A k \in 0..(array_length - 1) : k \in 0..(array_size - 1)
  BY <1>1, SlotsHold DEF HeapInv
<1>3. /\ array_size' \in Nat
      /\ \A k \in 0..(array_size' - 1) :
           k \in 0..(array_size - 1) => heap_array'[k] = heap_array[k]
  BY <1>1, <1>2, DowngradeSlots
<1>4. array_length <= array_size'
  BY <1>1, PopEndInv DEF HeapInv, Room
<1>5. \A k \in 0..(array_length - 1) : heap_array'[k] = heap_array[k]
  <2>1. \A k \in 0..(array_length - 1) : k \in 0..(array_size' - 1)
    BY <1>2, <1>3, <1>4, SlotsNest
  <2> QED  BY <1>2, <1>3, <2>1
<1>6. \A p \in Payload :
        Copies(heap_array', array_length, p) = Copies(heap_array, array_length, p)
  BY <1>2, <1>5, SameCopies
<1>7. bag' = bag
  BY <1>1, <1>6, NextBag DEF bag
<1>8. Held' = Held
  BY <1>1, <1>5, NextHeld DEF Held
<1>9. returned' = returned /\ crashed' = crashed
  BY <1>1, Alive DEF returned
<1> QED  BY <1>1, <1>7, <1>8, <1>9, BagStutters DEF Clean, settings

\* An emptied heap.
LEMMA EmptiedMaps ==
  ASSUME HeapTypeOK, Clean, pc = "idle", pc' \in {"idle", "destroyed"},
         array_length' = 0, ret' = NULL, UNCHANGED settings,
         destroyed' = IF data_mode = "HEAP_PTR" /\ owner THEN destroyed \cup Held ELSE destroyed
  PROVE  Abs!Discard /\ Clean' /\ ~crashed /\ UNCHANGED <<heap_type, owner, copies, wide>>
<1>1. \A p \in Payload : Copies(heap_array', 0, p) = 0
  <2>1. {} \in SUBSET (0..(0 - 1)) /\ Cardinality({}) = 0
    BY FS_EmptySet
  <2>2. \A p \in Payload : {k \in 0..(0 - 1) : heap_array'[k] = p} = {}
    OBVIOUS
  <2> QED  BY <2>1, <2>2 DEF Copies
<1>2. bag' = [p \in Payload |-> 0]
  BY <1>1, NextBag
<1>3. Held' = {}
  BY NextHeld
<1>4. Abs!Held = Held
  BY BagHeld
<1>5. Abs!owns <=> owner /\ data_mode = "HEAP_PTR"
  BY DEF Abs!owns, copies, HeapTypeOK
<1>6. /\ Abs!owns => Held \cap destroyed = {}
      /\ destroyed' = IF Abs!owns THEN destroyed \cup Held ELSE destroyed
  BY <1>5 DEF Clean
<1>7. returned' = NULL /\ crashed = FALSE /\ crashed' = FALSE
  BY Alive DEF returned
<1>8. Abs!Discard
  BY <1>2, <1>4, <1>6, <1>7 DEF Abs!Discard
<1> QED  BY <1>3, <1>7, <1>8, SameSettings DEF Clean

\* heap_dump discards every payload, with a callback; without one, or with copies
\* in the heap, it may end the process.
LEMMA DumpMaps ==
  ASSUME HeapInv, Clean, heap_dump
  PROVE  Abs!Next /\ Clean'
<1>1. ASSUME NEW how \in {"null_call", "wild_pointer"}, Crash(how),
             array_length > 0, ~owner \/ data_mode = "HEAP_MEM"
      PROVE  Abs!Next /\ Clean'
  <2>1. Abs!Held # {} /\ (~owner \/ copies)
    BY <1>1, BagEmpty DEF HeapInv, copies
  <2>2. /\ Abs!Dies /\ Clean' /\ ~crashed
        /\ UNCHANGED <<heap_type, owner, copies, wide>>
    BY <1>1, CrashMaps DEF heap_dump, Crashes
  <2> QED  BY <2>1, <2>2 DEF Abs!Next, Abs!Dump
<1>2. CASE /\ array_length > 0 => owner
           /\ destroyed' = IF data_mode = "HEAP_PTR" THEN destroyed \cup Held ELSE destroyed
           /\ array_length' = 0 /\ ret' = NULL /\ UNCHANGED <<settings, loop>>
  <2>1. ~owner => Held = {}
    BY <1>2 DEF Held, HeapInv, HeapTypeOK
  <2>2. destroyed' = IF data_mode = "HEAP_PTR" /\ owner THEN destroyed \cup Held ELSE destroyed
    BY <1>2, <2>1
  <2>3. /\ Abs!Discard /\ Clean' /\ ~crashed
        /\ UNCHANGED <<heap_type, owner, copies, wide>>
    BY <1>2, <2>2, EmptiedMaps DEF heap_dump, loop, HeapInv
  <2>4. Abs!Held # {} => owner
    BY <2>1, BagHeld DEF HeapInv
  <2> QED  BY <2>3, <2>4 DEF Abs!Next, Abs!Dump
<1> QED  BY <1>1, <1>2 DEF heap_dump

\* heap_destroy discards every payload, for good.
LEMMA DestroyMaps ==
  ASSUME HeapInv, Clean, heap_destroy
  PROVE  Abs!Next /\ Clean'
<1>1. /\ Abs!Discard /\ Clean' /\ ~crashed
      /\ UNCHANGED <<heap_type, owner, copies, wide>>
  BY EmptiedMaps DEF heap_destroy, HeapInv
<1> QED  BY <1>1 DEF Abs!Next

\* heap_in_heap answers something, or crashes; it answers rightly what it finds
\* among its copies.
LEMMA InHeapMaps ==
  ASSUME HeapInv, Clean, NEW d \in Payload, heap_in_heap(d)
  PROVE  Abs!Next /\ Clean'
<1> DEFINE found == \E p \in Held : Rank[p] = Rank[d]
<1>1. Abs!Held = Held /\ (copies <=> data_mode = "HEAP_MEM") /\ pc = "idle"
  BY BagHeld DEF HeapInv, copies, heap_in_heap
<1>2. CASE Crash("heap_overflow") /\ ~(copies /\ found)
  <2>1. /\ Abs!Dies /\ Clean' /\ ~crashed
        /\ UNCHANGED <<heap_type, owner, copies, wide>>
    BY <1>1, <1>2, CrashMaps DEF Crashes
  <2> QED  BY <1>1, <1>2, <2>1 DEF Abs!Next, Abs!InHeap
<1>3. CASE /\ ret' \in BOOLEAN /\ (copies /\ found => ret' = TRUE)
           /\ UNCHANGED <<settings, slots, loop, destroyed, dumped>>
  <2>1. /\ bag' = bag /\ Clean' /\ UNCHANGED <<heap_type, owner, copies, wide>>
        /\ returned' = ret' /\ ~crashed
    BY <1>1, <1>3, IdleMaps DEF loop
  <2>2. crashed' = FALSE /\ crashed = FALSE
    BY <1>1, <1>3, Alive DEF loop
  <2> QED  BY <1>1, <1>3, <2>1, <2>2 DEF Abs!Next, Abs!InHeap
<1>4. \A slot : Matches(slot, d) \subseteq BOOLEAN
  BY DEF Matches
<1>5. data_mode \in {"HEAP_PTR", "HEAP_MEM"}
  BY DEF HeapInv, HeapTypeOK
<1> QED  BY <1>1, <1>2, <1>3, <1>4, <1>5 DEF heap_in_heap

\* Every step of the heap is one of the bag, or none.
LEMMA NextMaps ==
  ASSUME HeapInv, Clean, [Next]_vars
  PROVE  [Abs!Next]_(Abs!vars) /\ Clean'
<1>1. CASE UNCHANGED vars
  <2>1. bag' = bag /\ Held' = Held /\ returned' = returned /\ crashed' = crashed
    BY <1>1, NextBag, NextHeld DEF bag, Held, returned, crashed, vars, slots, loop
  <2> QED  BY <1>1, <2>1, BagStutters DEF Clean, vars, settings
<1>2. ASSUME NEW p \in Payload, heap_insert(p) \/ heap_in_heap(p)
      PROVE  [Abs!Next]_(Abs!vars) /\ Clean'
  BY <1>2, InsertMaps, InHeapMaps
<1>3. CASE bubble_up
  BY <1>3, BubbleUpMaps
<1>4. CASE heap_pop
  BY <1>4, PopMaps
<1>5. CASE bubble_down
  BY <1>5, BubbleDownMaps
<1>6. CASE PopEnd
  BY <1>6, PopEndMaps
<1>7. CASE heap_dump
  BY <1>7, DumpMaps
<1>8. CASE heap_destroy
  BY <1>8, DestroyMaps
<1> QED  BY <1>1, <1>2, <1>3, <1>4, <1>5, <1>6, <1>7, <1>8 DEF Next

\* A fresh heap is an empty bag.
LEMMA InitMaps ==
  ASSUME Init
  PROVE  Abs!Init /\ Clean
<1>1. array_length = 0 /\ destroyed = {} /\ pc = "idle" /\ ret = NULL
  BY DEF Init
<1>2. \A p \in Payload : Copies(heap_array, 0, p) = 0
  <2>1. Cardinality({}) = 0
    BY FS_EmptySet
  <2>2. \A p \in Payload : {k \in 0..(0 - 1) : heap_array[k] = p} = {}
    OBVIOUS
  <2> QED  BY <2>1, <2>2 DEF Copies
<1>3. bag = [p \in Payload |-> 0]
  BY <1>1, <1>2 DEF bag
<1>4. /\ heap_type \in {"MAX_HEAP", "MIN_HEAP"} /\ owner \in BOOLEAN
      /\ copies \in BOOLEAN /\ wide \in BOOLEAN /\ crashed = FALSE
  BY <1>1, Alive DEF Init, copies
<1> QED  BY <1>1, <1>3, <1>4 DEF Abs!Init, Clean, returned

\* heap_adt is a bag that hands its payloads back best first: whatever was inserted,
\* popped or dumped before, heap_pop returns a payload no other beats, every payload
\* comes back as often as it was given, one the heap owns and discards is destroyed
\* once, and no call ends the process but those AbsHeap names: a pop of wide copies,
\* a dump without a callback or of copies, and a heap_in_heap that did not find what
\* it looked for among its copies (heap.c:84-196, 339-477).
THEOREM HeapImplementsBag == Spec => ImplementsAbsHeap
<1>1. Init => Abs!Init /\ Clean
  BY InitMaps
<1>2. HeapInv /\ Clean /\ [Next]_vars => [Abs!Next]_(Abs!vars) /\ Clean'
  BY NextMaps
<1> QED  BY <1>1, <1>2, HeapInvHolds, PTL DEF Spec, ImplementsAbsHeap, Abs!Spec

-----------------------------------------------------------------------------
(***************************************************************************)
(* heap_sort and heap_find_nth_item.                                       *)
(***************************************************************************)
\* Until the insertions are over the caller's array holds its payloads, and nothing
\* has been popped.
Inserting ==
  api # "client" /\ stage = "insert" =>
    /\ array \in [0..(item_count - 1) -> Payload] /\ item_count \in Nat /\ item \in Nat
    /\ pc # "bubble_down"

\* A client's heap, or a fresh array, satisfies it.
LEMMA InsertingInit == SortInit => Inserting
BY HeapSortAssumption DEF SortInit, Init, Inserting

\* Every step keeps it: only the loop of insertions adds, and the first pop ends it.
LEMMA InsertingKept ==
  ASSUME Inserting, [SortNext]_allVars
  PROVE  Inserting'
<1> USE DEF Inserting, arguments, progress
<1>1. CASE UNCHANGED allVars
  BY <1>1 DEF allVars, vars, loop
<1>2. CASE client
  BY <1>2 DEF client
<1>3. CASE insert_item
  BY <1>3 DEF insert_item, heap_insert
<1>4. CASE rounds
  BY <1>4 DEF rounds, bubble_up, bubble_down
<1>5. CASE inserted
  BY <1>5 DEF inserted
<1>6. CASE pop_item
  BY <1>6 DEF pop_item
<1>7. CASE pop_item_end
  BY <1>7 DEF pop_item_end, PopEnd
<1>8. CASE popped
  BY <1>8 DEF popped
<1> QED  BY <1>1, <1>2, <1>3, <1>4, <1>5, <1>6, <1>7, <1>8 DEF SortNext, of_array

\* Each step of the two functions is a call a client could make, a round of one, or
\* leaves the heap alone.
LEMMA StepOfHeap ==
  ASSUME Inserting, [SortNext]_allVars
  PROVE  [Next]_vars
<1>1. CASE UNCHANGED allVars
  BY <1>1 DEF allVars
<1>2. CASE client
  BY <1>2 DEF client
<1>3. CASE insert_item
  <2>1. array[item] \in Payload
    BY <1>3 DEF Inserting, insert_item
  <2> QED  BY <1>3, <2>1 DEF insert_item, Next
<1>4. CASE rounds
  BY <1>4 DEF rounds, Next
<1>5. CASE inserted
  BY <1>5 DEF inserted, Next
<1>6. CASE pop_item
  BY <1>6 DEF pop_item, Next
<1>7. CASE pop_item_end
  BY <1>7 DEF pop_item_end, Next
<1>8. CASE popped
  BY <1>8 DEF popped, Next
<1> QED  BY <1>1, <1>2, <1>3, <1>4, <1>5, <1>6, <1>7, <1>8 DEF SortNext, of_array

\* heap_sort and heap_find_nth_item use the heap as any client may, so that all that is
\* proved of it above is so of theirs.
THEOREM SortUsesHeap == SortSpec => Spec
<1>1. SortInit => Init /\ Inserting
  BY InsertingInit DEF SortInit
<1>2. Inserting /\ [SortNext]_allVars => Inserting' /\ [Next]_vars
  BY InsertingKept, StepOfHeap
<1> QED  BY <1>1, <1>2, PTL DEF SortSpec, Spec

\* Therefore heap_pop takes the best payload for them as well (heap.c:391-441).
COROLLARY SortPopsBest == SortSpec => []HeapOrder /\ PopsBest
BY SortUsesHeap, HeapStaysOrdered, PopsBestHolds, PTL

\* So is the heap inside heap_sort and heap_find_nth_item.
COROLLARY SortImplementsBag == SortSpec => ImplementsAbsHeap
BY SortUsesHeap, HeapImplementsBag, PTL

-----------------------------------------------------------------------------
(***************************************************************************)
(* Where the caller's items are while heap_sort or heap_find_nth_item runs.*)
(* A permutation q of the items tells it: those in the heap are items      *)
(* q[0], q[1], ... slot by slot, and those taken out are behind them, the  *)
(* first one last, each beaten by none of the items before it.             *)
(***************************************************************************)
Permutes(q, n) ==
  /\ q \in [0..(n - 1) -> 0..(n - 1)]
  /\ \A i, j \in 0..(n - 1) : q[i] = q[j] => i = j
  /\ \A i \in 0..(n - 1) : \E k \in 0..(n - 1) : q[k] = i

Exchanged(q, i, j) == [q EXCEPT ![i] = q[j], ![j] = q[i]]

\* From position m on, no item is beaten by one before it.
Ranked(q, m) ==
  \A j \in m..(item_count - 1) : \A k \in 0..(j - 1) : ~Better(input[q[k]], input[q[j]])

Placed(q) ==
  /\ Permutes(q, item_count)
  /\ \A k \in 0..(array_length - 1) : heap_array[k] = input[q[k]]

\* Whether slot j of the caller's array has been written to.
Written(j) == j < item /\ (api = "heap_sort" \/ (data_mode = "HEAP_MEM" /\ j < nth_item - 1))

\* Whether heap_find_nth_item has what it would return.
Found ==
  /\ api = "heap_find_nth_item" /\ item > 0
  /\ data_mode = "HEAP_PTR" \/ item = nth_item

Taken(q) ==
  /\ Ranked(q, array_length)
  /\ pc = "bubble_down" => payload = input[q[array_length]]
  /\ \A j \in 0..(item_count - 1) :
       array[j] = IF Written(j) THEN input[q[item_count - 1 - j]] ELSE input[j]
  /\ target_item = IF Found THEN input[q[item_count - item]] ELSE NULL

InsertStage ==
  /\ item <= item_count /\ array_length = item /\ pc # "bubble_down"
  /\ array = input /\ target_item = NULL
  /\ \E q : Placed(q) /\ \A k \in item..(item_count - 1) : q[k] = k

PopStage ==
  /\ pops \in 0..item_count /\ (api = "heap_find_nth_item" => nth_item > 0)
  /\ pc # "bubble_up"
  /\ IF pc = "bubble_down" THEN item < pops /\ array_length = item_count - item - 1
                           ELSE item <= pops /\ array_length = item_count - item
  /\ \E q : Placed(q) /\ Taken(q)

SortInv ==
  api # "client" =>
    /\ api \in {"heap_sort", "heap_find_nth_item"} /\ stage \in {"insert", "pop", "returned"}
    /\ item_count \in Nat /\ nth_item \in Nat /\ item \in Nat
    /\ input \in [0..(item_count - 1) -> Payload]
    /\ array \in [0..(item_count - 1) -> Payload]
    /\ stage = "insert" => InsertStage
    /\ stage = "pop" => PopStage
    /\ stage = "returned" => pc = "destroyed"

\* Exchanging two places of a permutation gives one.
LEMMA ExchangePermutes ==
  ASSUME NEW n \in Nat, NEW q, Permutes(q, n), NEW i \in 0..(n - 1), NEW j \in 0..(n - 1)
  PROVE  /\ Permutes(Exchanged(q, i, j), n)
         /\ \A k \in 0..(n - 1) :
              Exchanged(q, i, j)[k] = q[IF k = i THEN j ELSE IF k = j THEN i ELSE k]
<1> DEFINE from(k) == IF k = i THEN j ELSE IF k = j THEN i ELSE k
           r == Exchanged(q, i, j)
<1>1. /\ q \in [0..(n - 1) -> 0..(n - 1)]
      /\ \A a, b \in 0..(n - 1) : q[a] = q[b] => a = b
      /\ \A a \in 0..(n - 1) : \E k \in 0..(n - 1) : q[k] = a
  BY DEF Permutes
<1>2. \A k \in 0..(n - 1) : from(k) \in 0..(n - 1) /\ from(from(k)) = k
  OBVIOUS
<1>3. /\ r \in [0..(n - 1) -> 0..(n - 1)]
      /\ \A k \in 0..(n - 1) : r[k] = q[from(k)]
  BY <1>1 DEF Exchanged
<1> HIDE DEF from, r
<1>4. ASSUME NEW a \in 0..(n - 1), NEW b \in 0..(n - 1), r[a] = r[b]
      PROVE  a = b
  <2>1. from(a) = from(b)
    BY <1>1, <1>2, <1>3, <1>4
  <2> QED  BY <1>2, <2>1
<1>5. ASSUME NEW a \in 0..(n - 1)
      PROVE  \E k \in 0..(n - 1) : r[k] = a
  <2>1. PICK k \in 0..(n - 1) : q[k] = a
    BY <1>1
  <2>2. from(k) \in 0..(n - 1) /\ r[from(k)] = a
    BY <1>2, <1>3, <2>1
  <2> QED  BY <2>2
<1>6. Permutes(r, n)
  BY <1>3, <1>4, <1>5 DEF Permutes
<1> QED  BY <1>3, <1>6 DEF from, r

\* Exchanging two places before m leaves the places from m on as ranked as they were.
LEMMA ExchangeRanked ==
  ASSUME item_count \in Nat, NEW m \in 0..item_count,
         NEW q, Permutes(q, item_count), Ranked(q, m),
         NEW i \in 0..(m - 1), NEW j \in 0..(m - 1)
  PROVE  Ranked(Exchanged(q, i, j), m)
<1> DEFINE from(k) == IF k = i THEN j ELSE IF k = j THEN i ELSE k
           r == Exchanged(q, i, j)
<1>1. i \in 0..(item_count - 1) /\ j \in 0..(item_count - 1)
  OBVIOUS
<1>2. \A k \in 0..(item_count - 1) : r[k] = q[from(k)]
  BY <1>1, ExchangePermutes
<1>3. ASSUME NEW l \in m..(item_count - 1)
      PROVE  /\ l \in 0..(item_count - 1) /\ from(l) = l
             /\ \A k \in 0..(l - 1) : from(k) \in 0..(l - 1) /\ k \in 0..(item_count - 1)
  OBVIOUS
<1> HIDE DEF from, r
<1>4. ASSUME NEW l \in m..(item_count - 1), NEW k \in 0..(l - 1)
      PROVE  ~Better(input[r[k]], input[r[l]])
  <2>1. from(k) \in 0..(l - 1) /\ r[k] = q[from(k)] /\ r[l] = q[l]
    BY <1>2, <1>3
  <2> QED  BY <2>1 DEF Ranked
<1> QED  BY <1>4 DEF Ranked, r

\* What neither function changes.
LEMMA SettingsKept ==
  ASSUME [SortNext]_allVars
  PROVE  UNCHANGED <<settings, arguments>>
<1> USE DEF vars, allVars
<1>1. CASE of_array \/ UNCHANGED allVars
  BY <1>1 DEF of_array, insert_item, rounds, inserted, pop_item, pop_item_end, popped,
              heap_insert, bubble_up, bubble_down, heap_pop, Crash, PopEnd, heap_destroy
<1>2. CASE client
  BY <1>2 DEF client, Next, heap_insert, bubble_up, bubble_down, heap_pop, Crash, PopEnd,
              heap_destroy, heap_dump, heap_in_heap
<1> QED  BY <1>1, <1>2 DEF SortNext

\* What a step within the first loop has to leave.
LEMMA InsertStageNext ==
  ASSUME SortInv, api # "client", UNCHANGED <<settings, arguments>>,
         stage = "insert", stage' = "insert", UNCHANGED <<array, target_item>>,
         item' \in Nat, item' <= item_count, array_length' = item', pc' # "bubble_down",
         NEW q, Permutes(q, item_count),
         \A k \in 0..(item' - 1) : heap_array'[k] = input[q[k]],
         \A k \in item'..(item_count - 1) : q[k] = k
  PROVE  SortInv'
<1>1. UNCHANGED <<api, item_count, nth_item, input>>
  BY DEF arguments
<1>2. Placed(q)'
  BY <1>1 DEF Placed
<1>3. InsertStage'
  BY <1>1, <1>2 DEF SortInv, InsertStage
<1> QED  BY <1>1, <1>3 DEF SortInv

\* What a step within the second one has to leave.
LEMMA PopStageNext ==
  ASSUME SortInv, api # "client", UNCHANGED <<settings, arguments>>,
         stage' = "pop", item' \in Nat, array' \in [0..(item_count - 1) -> Payload],
         pops \in 0..item_count, api = "heap_find_nth_item" => nth_item > 0,
         pc' # "bubble_up",
         IF pc' = "bubble_down" THEN item' < pops /\ array_length' = item_count - item' - 1
                                ELSE item' <= pops /\ array_length' = item_count - item',
         NEW q, Permutes(q, item_count),
         \A k \in 0..(array_length' - 1) : heap_array'[k] = input[q[k]],
         Ranked(q, array_length'),
         pc' = "bubble_down" => payload' = input[q[array_length']],
         \A j \in 0..(item_count - 1) :
           array'[j] = IF /\ j < item'
                          /\ api = "heap_sort" \/ (data_mode = "HEAP_MEM" /\ j < nth_item - 1)
                       THEN input[q[item_count - 1 - j]] ELSE input[j],
         target_item' = IF /\ api = "heap_find_nth_item" /\ item' > 0
                           /\ data_mode = "HEAP_PTR" \/ item' = nth_item
                        THEN input[q[item_count - item']] ELSE NULL
  PROVE  SortInv'
<1>1. UNCHANGED <<api, item_count, nth_item, input, data_mode>>
  BY DEF arguments, settings
<1>2. Placed(q)'
  BY <1>1 DEF Placed
<1>3. Ranked(q, array_length)'
  <2>1. \A a, b : Better(a, b)' <=> Better(a, b)
    BY SameBetter
  <2> QED  BY <1>1, <2>1 DEF Ranked
<1>4. Taken(q)'
  <2>1. \A j : Written(j)' <=> /\ j < item'
                               /\ \/ api = "heap_sort"
                                  \/ data_mode = "HEAP_MEM" /\ j < nth_item - 1
    BY <1>1 DEF Written
  <2>2. Found' <=> /\ api = "heap_find_nth_item" /\ item' > 0
                   /\ data_mode = "HEAP_PTR" \/ item' = nth_item
    BY <1>1 DEF Found
  <2> QED  BY <1>1, <1>3, <2>1, <2>2 DEF Taken
<1>5. pops' = pops
  BY <1>1 DEF pops
<1>6. PopStage'
  BY <1>1, <1>2, <1>4, <1>5 DEF PopStage
<1> QED  BY <1>1, <1>6 DEF SortInv

\* Before the first call, every item is where it was.
LEMMA SortInitInv == SortInit => SortInv
<1> SUFFICES ASSUME SortInit, api # "client"
             PROVE  SortInv
  BY DEF SortInv
<1> DEFINE q == [k \in 0..(item_count - 1) |-> k]
<1>1. /\ api \in {"heap_sort", "heap_find_nth_item"} /\ item_count \in Nat /\ nth_item \in Nat
      /\ item = 0 /\ stage = "insert" /\ target_item = NULL /\ input = array
      /\ array \in [0..(item_count - 1) -> Payload]
      /\ array_length = 0 /\ pc = "idle"
  BY HeapSortAssumption DEF SortInit, Init
<1>2. Placed(q)
  <2>1. Permutes(q, item_count)
    BY DEF Permutes
  <2> QED  BY <1>1, <2>1 DEF Placed
<1>3. \A k \in item..(item_count - 1) : q[k] = k
  BY <1>1
<1>4. InsertStage
  <2> HIDE DEF q
  <2> QED  BY <1>1, <1>2, <1>3 DEF InsertStage
<1> QED  BY <1>1, <1>4 DEF SortInv

\* An item joins those in the heap, in the first slot behind them.
LEMMA InsertItemInv ==
  ASSUME HeapInv, SortInv, insert_item
  PROVE  SortInv'
<1>1. /\ api # "client" /\ stage = "insert" /\ stage' = "insert" /\ item < item_count
      /\ item' = item + 1 /\ item \in Nat /\ item_count \in Nat
      /\ UNCHANGED <<arguments, array, target_item>>
      /\ InsertStage /\ heap_insert(array[item])
      /\ input \in [0..(item_count - 1) -> Payload]
  BY DEF insert_item, SortInv
<1>2. PICK q : Placed(q) /\ \A k \in item..(item_count - 1) : q[k] = k
  BY <1>1 DEF InsertStage
<1>3. item \in 0..(item_count - 1) /\ item \in item..(item_count - 1)
  BY <1>1
<1>4. array[item] = input[item] /\ array[item] \in Payload /\ array_length = item
  BY <1>1, <1>3 DEF InsertStage
<1>5. /\ array_length' = item + 1
      /\ \A k \in 0..(item - 1) : heap_array'[k] = heap_array[k]
      /\ heap_array'[item] = input[item]
  BY <1>1, <1>4, InsertSlots
<1>6. ASSUME NEW k \in 0..(item' - 1)
      PROVE  heap_array'[k] = input[q[k]]
  <2>1. k = item \/ k \in 0..(item - 1)
    BY <1>1
  <2> QED  BY <1>2, <1>3, <1>4, <1>5, <2>1 DEF Placed
<1>7. \A k \in item'..(item_count - 1) : q[k] = k
  BY <1>1, <1>2
<1>8. item' \in Nat /\ item' <= item_count /\ array_length' = item' /\ pc' # "bubble_down"
  BY <1>1, <1>5 DEF heap_insert
<1>9. UNCHANGED settings /\ Permutes(q, item_count)
  BY <1>1, <1>2 DEF heap_insert, Placed
<1> QED  BY <1>1, <1>6, <1>7, <1>8, <1>9, InsertStageNext

\* Two slots of the heap that change places are two places of the permutation.
LEMMA SwapPlaces ==
  ASSUME HeapTypeOK, item_count \in Nat, array_length <= item_count,
         NEW q, Placed(q), NEW i \in 0..(array_length - 1), NEW j \in 0..(array_length - 1),
         swap(i, j)
  PROVE  /\ Permutes(Exchanged(q, i, j), item_count)
         /\ \A k \in 0..(array_length - 1) : heap_array'[k] = input[Exchanged(q, i, j)[k]]
         /\ \A k \in array_length..(item_count - 1) : Exchanged(q, i, j)[k] = q[k]
<1> DEFINE from(k) == IF k = i THEN j ELSE IF k = j THEN i ELSE k
           r == Exchanged(q, i, j)
<1>1. array_length \in Nat /\ i \in 0..(item_count - 1) /\ j \in 0..(item_count - 1)
  BY SlotsHold
<1>2. Permutes(r, item_count) /\ \A k \in 0..(item_count - 1) : r[k] = q[from(k)]
  BY <1>1, ExchangePermutes DEF Placed
<1>3. /\ heap_array'[i] = heap_array[j] /\ heap_array'[j] = heap_array[i]
      /\ \A k \in 0..(array_length - 1) :
           k # i /\ k # j => heap_array'[k] = heap_array[k]
  BY SwapSlots
<1>4. \A k \in 0..(array_length - 1) :
        k \in 0..(item_count - 1) /\ from(k) \in 0..(array_length - 1)
        /\ heap_array'[k] = heap_array[from(k)]
  BY <1>1, <1>3
<1>5. \A k \in array_length..(item_count - 1) : k \in 0..(item_count - 1) /\ from(k) = k
  BY <1>1
<1> HIDE DEF from, r
<1>6. \A k \in 0..(array_length - 1) : heap_array'[k] = input[r[k]]
  BY <1>2, <1>4 DEF Placed
<1>7. \A k \in array_length..(item_count - 1) : r[k] = q[k]
  BY <1>2, <1>5
<1> QED  BY <1>2, <1>6, <1>7 DEF r

\* A round of the loop of heap_insert.
LEMMA RisingInv ==
  ASSUME HeapInv, SortInv, api # "client", bubble_up, UNCHANGED <<arguments, progress>>
  PROVE  SortInv'
<1>1. /\ pc = "bubble_up" /\ at < array_length /\ HeapTypeOK
      /\ array_length \in Nat /\ at \in Nat /\ UNCHANGED settings
  BY SlotsHold DEF HeapInv, bubble_up
<1>2. /\ stage = "insert" /\ InsertStage /\ item_count \in Nat /\ item \in Nat
      /\ UNCHANGED <<array, item, stage, target_item>>
  BY <1>1 DEF SortInv, PopStage, progress
<1>3. PICK q : Placed(q) /\ \A k \in item..(item_count - 1) : q[k] = k
  BY <1>2 DEF InsertStage
<1>4. item <= item_count /\ array_length = item
  BY <1>2 DEF InsertStage
<1>5. CASE /\ rises /\ swap(at, get_parent_index(at))
           /\ UNCHANGED <<pc, array_length, array_size>>
  <2> DEFINE r == Exchanged(q, at, get_parent_index(at))
  <2>1. at \in 0..(array_length - 1) /\ get_parent_index(at) \in 0..(array_length - 1)
    BY <1>1, <1>5, ParentIndex DEF rises
  <2>2. /\ Permutes(r, item_count)
        /\ \A k \in 0..(item - 1) : heap_array'[k] = input[r[k]]
        /\ \A k \in item..(item_count - 1) : r[k] = q[k]
    BY <1>1, <1>2, <1>3, <1>4, <1>5, <2>1, SwapPlaces
  <2> HIDE DEF r
  <2>3. pc' # "bubble_down" /\ array_length' = item'
    BY <1>1, <1>2, <1>4, <1>5
  <2> QED  BY <1>1, <1>2, <1>3, <1>4, <2>2, <2>3, InsertStageNext
<1>6. CASE pc' = "idle" /\ UNCHANGED slots
  <2>1. /\ Permutes(q, item_count)
        /\ \A k \in 0..(item' - 1) : heap_array'[k] = input[q[k]]
    BY <1>2, <1>3, <1>4, <1>6 DEF Placed, slots
  <2>2. pc' # "bubble_down" /\ array_length' = item'
    BY <1>2, <1>4, <1>6 DEF slots
  <2> QED  BY <1>1, <1>2, <1>3, <1>4, <2>1, <2>2, InsertStageNext
<1> QED  BY <1>5, <1>6 DEF bubble_up

\* The second loop, as the lemmas on its steps use it.
LEMMA PopStageFacts ==
  ASSUME HeapInv, SortInv, api # "client", stage = "pop"
  PROVE  /\ item_count \in Nat /\ nth_item \in Nat /\ item \in Nat /\ array_length \in Nat
         /\ api \in {"heap_sort", "heap_find_nth_item"}
         /\ input \in [0..(item_count - 1) -> Payload]
         /\ array \in [0..(item_count - 1) -> Payload]
         /\ pops \in 0..item_count /\ (api = "heap_find_nth_item" => nth_item > 0)
         /\ array_length <= item_count /\ pc # "bubble_up"
         /\ IF pc = "bubble_down" THEN item < pops /\ array_length = item_count - item - 1
                                  ELSE item <= pops /\ array_length = item_count - item
         /\ \E q : Placed(q) /\ Taken(q)
<1>1. PopStage /\ array_length \in Nat /\ item_count \in Nat /\ item \in Nat
  BY SlotsHold DEF SortInv, HeapInv
<1>2. array_length <= item_count
  BY <1>1 DEF PopStage
<1> QED  BY <1>1, <1>2 DEF SortInv, PopStage

\* A round of the loop of heap_pop.
LEMMA SinkingInv ==
  ASSUME HeapInv, SortInv, api # "client", bubble_down, UNCHANGED <<arguments, progress>>
  PROVE  SortInv'
<1>1. /\ pc = "bubble_down" /\ at < array_length /\ HeapTypeOK
      /\ array_length \in Nat /\ at \in Nat
      /\ swap(at, get_target_index(at))
      /\ UNCHANGED <<settings, array_length, pc, payload>>
  BY SlotsHold DEF HeapInv, bubble_down, sinks
<1>2. stage = "pop" /\ UNCHANGED <<array, item, stage, target_item>>
  BY <1>1 DEF SortInv, InsertStage, progress
<1>3. /\ item_count \in Nat /\ item \in Nat /\ array_length <= item_count
      /\ array \in [0..(item_count - 1) -> Payload]
      /\ pops \in 0..item_count /\ (api = "heap_find_nth_item" => nth_item > 0)
      /\ item < pops /\ array_length = item_count - item - 1
  BY <1>1, <1>2, PopStageFacts
<1>4. PICK q : Placed(q) /\ Taken(q)
  BY <1>2, PopStageFacts
<1> DEFINE t == get_target_index(at)
           r == Exchanged(q, at, t)
<1>5. at \in 0..(array_length - 1) /\ t \in 0..(array_length - 1)
  <2>1. at \in 0..(array_length - 1)
    BY <1>1
  <2> QED  BY <1>1, <2>1, TargetIsBest
<1>6. /\ Permutes(r, item_count)
      /\ \A k \in 0..(array_length - 1) : heap_array'[k] = input[r[k]]
      /\ \A k \in array_length..(item_count - 1) : r[k] = q[k]
  <2>1. swap(at, t)
    BY <1>1
  <2> HIDE DEF t
  <2> QED  BY <1>1, <1>3, <1>4, <1>5, <2>1, SwapPlaces
<1>7. Ranked(r, array_length)
  <2>1. array_length \in 0..item_count
    BY <1>1, <1>3
  <2> HIDE DEF t
  <2> QED  BY <1>3, <1>4, <1>5, <2>1, ExchangeRanked DEF Placed, Taken
<1> HIDE DEF r, t
<1>8. payload = input[r[array_length]]
  <2>1. array_length \in array_length..(item_count - 1)
    BY <1>1, <1>3
  <2> QED  BY <1>1, <1>4, <1>6, <2>1 DEF Taken
<1>9. \A j \in 0..(item_count - 1) :
        array[j] = IF Written(j) THEN input[r[item_count - 1 - j]] ELSE input[j]
  <2>1. ASSUME NEW j \in 0..(item_count - 1), j < item
        PROVE  item_count - 1 - j \in array_length..(item_count - 1)
    BY <1>3, <2>1
  <2> QED  BY <1>4, <1>6, <2>1 DEF Taken, Written
<1>10. target_item = IF Found THEN input[r[item_count - item]] ELSE NULL
  <2>1. Found => item_count - item \in array_length..(item_count - 1)
    BY <1>3 DEF Found
  <2> QED  BY <1>4, <1>6, <2>1 DEF Taken
<1> QED  BY <1>1, <1>2, <1>3, <1>6, <1>7, <1>8, <1>9, <1>10, PopStageNext DEF Written, Found

\* All items are in the heap, and none taken out yet.
LEMMA InsertedInv ==
  ASSUME HeapInv, SortInv, inserted
  PROVE  SortInv'
<1>1. /\ api # "client" /\ pc = "idle" /\ stage = "insert" /\ item = item_count /\ item' = 0
      /\ UNCHANGED <<arguments, array, target_item>>
      /\ InsertStage /\ item_count \in Nat /\ nth_item \in Nat
      /\ api \in {"heap_sort", "heap_find_nth_item"}
      /\ input \in [0..(item_count - 1) -> Payload]
      /\ array \in [0..(item_count - 1) -> Payload]
  BY DEF inserted, SortInv
<1>2. UNCHANGED <<settings, arguments>>
  BY <1>1, SettingsKept DEF SortNext, of_array
<1>3. CASE heap_destroy /\ stage' = "returned"
  BY <1>1, <1>3 DEF SortInv, heap_destroy, arguments
<1>4. CASE (api = "heap_sort" \/ in_range) /\ stage' = "pop" /\ UNCHANGED vars
  <2>1. PICK q : Placed(q)
    BY <1>1 DEF InsertStage
  <2>2. array_length = item_count /\ array = input /\ target_item = NULL
    BY <1>1 DEF InsertStage
  <2>3. pops \in 0..item_count /\ (api = "heap_find_nth_item" => nth_item > 0)
    BY <1>1, <1>4, <2>2 DEF pops, in_range
  <2>4. UNCHANGED <<pc, array_length, heap_array, payload>>
    BY <1>4 DEF vars, slots, loop
  <2>5. Permutes(q, item_count) /\ \A k \in 0..(array_length' - 1) : heap_array'[k] = input[q[k]]
    BY <2>1, <2>4 DEF Placed
  <2>6. Ranked(q, array_length')
    BY <1>1, <2>2, <2>4 DEF Ranked
  <2>7. /\ item' \in Nat /\ pc' # "bubble_up" /\ pc' # "bubble_down"
        /\ item' <= pops /\ array_length' = item_count - item'
    BY <1>1, <2>2, <2>3, <2>4
  <2>8. \A j \in 0..(item_count - 1) : ~(j < item') /\ array'[j] = input[j]
    BY <1>1, <2>2
  <2>9. target_item' = NULL /\ ~(item' > 0)
    BY <1>1, <2>2
  <2> QED  BY <1>1, <1>2, <1>4, <2>3, <2>5, <2>6, <2>7, <2>8, <2>9, PopStageNext
<1> QED  BY <1>3, <1>4 DEF inserted

\* What heap_pop leaves in the slots still in use.
LEMMA TakeRootSlots ==
  ASSUME HeapTypeOK, array_length > 0, TakeRoot
  PROVE  /\ payload' = heap_array[0] /\ array_length' = array_length - 1
         /\ \A k \in 0..(array_length - 2) :
              heap_array'[k] = heap_array[IF k = 0 THEN array_length - 1 ELSE k]
<1> DEFINE n == array_length - 1
<1>1. /\ array_length \in Nat /\ n \in Nat
      /\ \A k \in 0..(array_length - 1) : k \in 0..(array_size - 1)
      /\ heap_array \in [0..(array_size - 1) -> Payload \cup {Zeroed, Garbage}]
  BY SlotsHold
<1>2. /\ payload' = heap_array[0] /\ array_length' = n
      /\ \/ heap_array' = [heap_array EXCEPT ![0] = heap_array[n]]
         \/ heap_array' = [[heap_array EXCEPT ![0] = heap_array[n]] EXCEPT ![n] = Zeroed]
  BY DEF TakeRoot
<1>3. ASSUME NEW k \in 0..(array_length - 2)
      PROVE  heap_array'[k] = heap_array[IF k = 0 THEN n ELSE k]
  <2>1. k \in 0..(array_length - 1) /\ k # n /\ 0 \in 0..(array_length - 1)
    BY <1>1
  <2>2. k \in 0..(array_size - 1) /\ 0 \in 0..(array_size - 1)
    BY <1>1, <2>1
  <2> HIDE DEF n
  <2> QED  BY <1>1, <1>2, <2>1, <2>2
<1> QED  BY <1>2, <1>3

\* heap_pop takes the item at the root, which none of those left beats: it becomes
\* the first of the places behind the heap, and what was there goes to the root.
LEMMA TakeInv ==
  ASSUME HeapInv, SortInv, api # "client", stage = "pop", item < pops, pc = "idle",
         array_length > 0, TakeRoot, pc' = "bubble_down",
         UNCHANGED <<arguments, progress, settings>>
  PROVE  SortInv'
<1> DEFINE n == array_length - 1
<1>1. /\ item_count \in Nat /\ item \in Nat /\ array_length \in Nat
      /\ array \in [0..(item_count - 1) -> Payload]
      /\ pops \in 0..item_count /\ (api = "heap_find_nth_item" => nth_item > 0)
      /\ array_length = item_count - item /\ HeapTypeOK
  BY PopStageFacts DEF HeapInv
<1>2. PICK q : Placed(q) /\ Taken(q)
  BY PopStageFacts
<1>3. /\ payload' = heap_array[0] /\ array_length' = n
      /\ \A k \in 0..(n - 1) : heap_array'[k] = heap_array[IF k = 0 THEN n ELSE k]
  <2>1. n - 1 = array_length - 2
    BY <1>1
  <2> HIDE DEF n
  <2> QED  BY <1>1, <2>1, TakeRootSlots DEF n
<1>4. /\ n \in Nat /\ n = item_count - item - 1 /\ array_length = n + 1
      /\ 0 \in 0..n /\ n \in 0..n
      /\ \A k \in 0..n : k \in 0..(item_count - 1) /\ k \in 0..(array_length - 1)
      /\ n + 1 \in 0..item_count /\ (n + 1) - 1 = n
  BY <1>1
<1> HIDE DEF n
<1> DEFINE r == Exchanged(q, 0, n)
<1>5. /\ Permutes(r, item_count)
      /\ \A k \in 0..(item_count - 1) : r[k] = q[IF k = 0 THEN n ELSE IF k = n THEN 0 ELSE k]
  BY <1>1, <1>2, <1>4, ExchangePermutes DEF Placed
<1>6. Ranked(r, n + 1)
  <2>1. Ranked(q, n + 1) /\ Permutes(q, item_count)
    BY <1>2, <1>4 DEF Taken, Placed
  <2> QED  BY <1>1, <1>4, <2>1, ExchangeRanked
<1> HIDE DEF r
<1>7. \A k \in 0..n : heap_array[k] = input[q[k]] /\ heap_array[k] \in Held
  BY <1>2, <1>4 DEF Placed, Held
<1>8. /\ \A k \in 0..(n - 1) : heap_array'[k] = input[r[k]] /\ input[r[k]] \in Held
      /\ payload' = input[r[n]]
  <2>1. input[r[n]] = heap_array[0]
    <3>1. r[n] = q[0]
      BY <1>4, <1>5
    <3> QED  BY <1>4, <1>7, <3>1
  <2>2. ASSUME NEW k \in 0..(n - 1)
        PROVE  heap_array'[k] = input[r[k]] /\ input[r[k]] \in Held
    <3>1. k \in 0..n /\ k # n
      BY <1>4
    <3>2. r[k] = q[IF k = 0 THEN n ELSE k]
      BY <1>4, <1>5, <3>1
    <3> QED  BY <1>3, <1>4, <1>7, <3>1, <3>2
  <2> QED  BY <1>3, <2>1, <2>2
<1>9. Ranked(r, n)
  <2>1. \A p \in Held : ~Better(p, input[r[n]])
    BY <1>3, <1>8, RootIsBest
  <2>2. ASSUME NEW j \in n..(item_count - 1), NEW k \in 0..(j - 1)
        PROVE  ~Better(input[r[k]], input[r[j]])
    <3>1. CASE j = n
      BY <1>8, <2>1, <3>1
    <3>2. CASE j # n
      <4>1. j \in (n + 1)..(item_count - 1)
        BY <1>4, <3>2
      <4> QED  BY <1>6, <4>1 DEF Ranked
    <3> QED  BY <3>1, <3>2
  <2> QED  BY <2>2 DEF Ranked
<1>10. \A k \in (n + 1)..(item_count - 1) : r[k] = q[k]
  BY <1>4, <1>5
<1>11. \A j \in 0..(item_count - 1) :
         array[j] = IF Written(j) THEN input[r[item_count - 1 - j]] ELSE input[j]
  <2>1. ASSUME NEW j \in 0..(item_count - 1), j < item
        PROVE  item_count - 1 - j \in (n + 1)..(item_count - 1)
    BY <1>1, <1>4, <2>1
  <2> QED  BY <1>2, <1>10, <2>1 DEF Taken, Written
<1>12. target_item = IF Found THEN input[r[item_count - item]] ELSE NULL
  <2>1. Found => item_count - item \in (n + 1)..(item_count - 1)
    BY <1>1, <1>4 DEF Found
  <2> QED  BY <1>2, <1>10, <2>1 DEF Taken
<1>13. UNCHANGED <<array, item, stage, target_item>>
  BY DEF progress
<1> QED  BY <1>1, <1>3, <1>4, <1>5, <1>8, <1>9, <1>11, <1>12, <1>13, PopStageNext
         DEF Written, Found

\* heap_pop takes an item or crashes: there is one left.
LEMMA PopItemInv ==
  ASSUME HeapInv, SortInv, pop_item
  PROVE  SortInv'
<1>1. /\ api # "client" /\ stage = "pop" /\ item < pops /\ heap_pop /\ pc = "idle"
      /\ UNCHANGED <<arguments, progress>>
  BY DEF pop_item, heap_pop
<1>2. UNCHANGED settings
  BY SettingsKept DEF SortNext, of_array
<1>3. /\ item_count \in Nat /\ item \in Nat /\ array_length \in Nat
      /\ array \in [0..(item_count - 1) -> Payload]
      /\ pops \in 0..item_count /\ (api = "heap_find_nth_item" => nth_item > 0)
      /\ array_length = item_count - item
  BY <1>1, PopStageFacts
<1>4. array_length > 0
  BY <1>1, <1>3
<1>5. CASE Crash("heap_overflow")
  <2>1. PICK q : Placed(q) /\ Taken(q)
    BY <1>1, PopStageFacts
  <2>2. /\ UNCHANGED <<array_length, heap_array, array, item, stage, target_item>>
        /\ pc' = "heap_overflow"
    BY <1>1, <1>5 DEF Crash, slots, progress
  <2> QED  BY <1>1, <1>2, <1>3, <2>1, <2>2, PopStageNext DEF Placed, Taken, Written, Found
<1>6. CASE TakeRoot /\ pc' = "bubble_down"
  BY <1>1, <1>2, <1>4, <1>6, TakeInv
<1> QED  BY <1>1, <1>4, <1>5, <1>6 DEF heap_pop

\* The end of heap_pop leaves the slots in use as they are.
LEMMA PopEndSlots ==
  ASSUME HeapInv, PopEnd
  PROVE  /\ array_length' = array_length
         /\ \A k \in 0..(array_length - 1) : heap_array'[k] = heap_array[k]
<1>1. /\ pc = "bubble_down" /\ Downgrade(array_length) /\ pc' = "idle"
      /\ UNCHANGED <<array_length, dumped>>
  BY DEF PopEnd
<1>2. /\ array_length \in Nat /\ array_size \in Sizes(BASE_SIZE)
      /\ \A k \in 0..(array_length - 1) : k \in 0..(array_size - 1)
  BY <1>1, SlotsHold DEF HeapInv
<1>3. /\ array_size' \in Nat
      /\ \A k \in 0..(array_size' - 1) :
           k \in 0..(array_size - 1) => heap_array'[k] = heap_array[k]
  BY <1>1, <1>2, DowngradeSlots
<1>4. array_length <= array_size'
  BY <1>1, PopEndInv DEF HeapInv, Room
<1>5. \A k \in 0..(array_length - 1) : k \in 0..(array_size' - 1)
  BY <1>2, <1>3, <1>4, SlotsNest
<1> QED  BY <1>1, <1>2, <1>3, <1>5

\* The item taken goes where it belongs: into the caller's array, or to the caller.
LEMMA PopItemEndInv ==
  ASSUME HeapInv, SortInv, pop_item_end
  PROVE  SortInv'
<1>1. /\ api # "client" /\ PopEnd /\ pc = "bubble_down" /\ pc' = "idle"
      /\ item' = item + 1 /\ UNCHANGED <<arguments, stage>>
  BY DEF pop_item_end, PopEnd
<1>2. UNCHANGED settings /\ stage = "pop"
  BY <1>1, SettingsKept DEF SortNext, of_array, SortInv, InsertStage
<1>3. /\ item_count \in Nat /\ item \in Nat /\ array_length \in Nat /\ nth_item \in Nat
      /\ array \in [0..(item_count - 1) -> Payload]
      /\ input \in [0..(item_count - 1) -> Payload]
      /\ api \in {"heap_sort", "heap_find_nth_item"}
      /\ pops \in 0..item_count /\ (api = "heap_find_nth_item" => nth_item > 0)
      /\ item < pops /\ array_length = item_count - item - 1
  BY <1>1, <1>2, PopStageFacts
<1>4. PICK q : Placed(q) /\ Taken(q)
  BY <1>1, <1>2, PopStageFacts
<1>5. /\ array_length' = array_length
      /\ \A k \in 0..(array_length - 1) : heap_array'[k] = heap_array[k]
  BY <1>1, PopEndSlots
<1>6. /\ payload = input[q[array_length]] /\ item_count - 1 - item = array_length
      /\ item_count - item' = array_length
      /\ payload \in Payload /\ item \in 0..(item_count - 1)
  BY <1>1, <1>3, <1>4 DEF Taken, HeapInv
<1>7. \/ writes_back /\ array' = [array EXCEPT ![item] = payload] /\ target_item' = target_item
      \/ ~writes_back /\ array' = array /\ target_item' = payload
  BY DEF pop_item_end, write_index
<1>8. array' \in [0..(item_count - 1) -> Payload]
  BY <1>3, <1>6, <1>7
<1>9. api = "heap_find_nth_item" => item < nth_item
  BY <1>3 DEF pops
<1>10. ASSUME NEW j \in 0..(item_count - 1)
       PROVE  array'[j] = IF /\ j < item'
                             /\ api = "heap_sort" \/ (data_mode = "HEAP_MEM" /\ j < nth_item - 1)
                          THEN input[q[item_count - 1 - j]] ELSE input[j]
  <2>1. array[j] = IF Written(j) THEN input[q[item_count - 1 - j]] ELSE input[j]
    BY <1>4 DEF Taken
  <2>2. j < item' <=> j < item \/ j = item
    BY <1>1, <1>3
  <2>3. CASE j = item
    <3>1. ~Written(j) /\ array[j] = input[j]
      BY <1>3, <2>1, <2>3 DEF Written
    <3>2. array'[j] = IF writes_back THEN payload ELSE input[j]
      BY <1>3, <1>7, <2>3, <3>1
    <3> QED  BY <1>6, <2>2, <2>3, <3>2 DEF writes_back
  <2>4. CASE j # item
    <3>1. array'[j] = array[j]
      BY <1>3, <1>7, <2>4
    <3> QED  BY <2>1, <2>2, <2>4, <3>1 DEF Written
  <2> QED  BY <2>3, <2>4
<1>11. target_item' = IF /\ api = "heap_find_nth_item" /\ item' > 0
                         /\ data_mode = "HEAP_PTR" \/ item' = nth_item
                      THEN input[q[item_count - item']] ELSE NULL
  <2>1. target_item = IF Found THEN input[q[item_count - item]] ELSE NULL
    BY <1>4 DEF Taken
  <2>2. data_mode \in {"HEAP_PTR", "HEAP_MEM"}
    BY DEF HeapInv, HeapTypeOK
  <2>3. CASE writes_back
    <3>1. ~Found
      BY <1>3, <2>2, <2>3 DEF writes_back, Found
    <3>2. ~(api = "heap_find_nth_item" /\ (data_mode = "HEAP_PTR" \/ item' = nth_item))
      BY <1>1, <1>3, <2>2, <2>3 DEF writes_back
    <3> QED  BY <1>7, <2>1, <2>3, <3>1, <3>2
  <2>4. CASE ~writes_back
    <3>1. api = "heap_find_nth_item" /\ (data_mode = "HEAP_PTR" \/ item' = nth_item)
      BY <1>1, <1>3, <1>9, <2>2, <2>4 DEF writes_back
    <3>2. item' > 0
      BY <1>1, <1>3
    <3> QED  BY <1>6, <1>7, <2>4, <3>1, <3>2
  <2> QED  BY <2>3, <2>4
<1>12. /\ item' \in Nat /\ pc' # "bubble_up" /\ pc' # "bubble_down"
       /\ item' <= pops /\ array_length' = item_count - item'
  BY <1>1, <1>3, <1>5, <1>6
<1>13. /\ Permutes(q, item_count) /\ Ranked(q, array_length')
       /\ \A k \in 0..(array_length' - 1) : heap_array'[k] = input[q[k]]
  BY <1>4, <1>5 DEF Placed, Taken
<1> QED  BY <1>1, <1>2, <1>3, <1>8, <1>10, <1>11, <1>12, <1>13, PopStageNext

\* Every step of the two functions preserves the invariant.
LEMMA SortNextInv ==
  ASSUME HeapInv, SortInv, [SortNext]_allVars
  PROVE  SortInv'
<1>1. CASE UNCHANGED allVars
  <2>1. UNCHANGED <<heap_type, data_mode, heap_array, array_length, pc, payload, api, item_count,
                    nth_item, input, array, item, stage, target_item>>
    BY <1>1 DEF allVars, vars, settings, slots, loop, arguments, progress
  <2>2. \A q : Placed(q)' <=> Placed(q)
    BY <2>1 DEF Placed
  <2>3. \A q : Taken(q)' <=> Taken(q)
    BY <2>1 DEF Taken, Ranked, Better, compare, type, Written, Found
  <2>4. InsertStage' <=> InsertStage
    BY <2>1, <2>2 DEF InsertStage
  <2>5. PopStage' <=> PopStage
    BY <2>1, <2>2, <2>3 DEF PopStage, pops
  <2> QED  BY <2>1, <2>4, <2>5 DEF SortInv
<1>2. CASE client
  BY <1>2 DEF client, SortInv, arguments
<1>3. CASE insert_item
  BY <1>3, InsertItemInv
<1>4. CASE rounds
  BY <1>4, RisingInv, SinkingInv DEF rounds
<1>5. CASE inserted
  BY <1>5, InsertedInv
<1>6. CASE pop_item
  BY <1>6, PopItemInv
<1>7. CASE pop_item_end
  BY <1>7, PopItemEndInv
<1>8. CASE popped
  BY <1>8 DEF popped, heap_destroy, SortInv, arguments
<1> QED  BY <1>1, <1>2, <1>3, <1>4, <1>5, <1>6, <1>7, <1>8 DEF SortNext, of_array

\* Throughout, some permutation of the caller's items says where they are.
THEOREM SortInvHolds == SortSpec => [](HeapInv /\ SortInv)
<1>1. SortSpec => []HeapInv
  BY SortUsesHeap, HeapInvHolds, PTL
<1>2. SortInit => SortInv
  BY SortInitInv
<1>3. HeapInv /\ SortInv /\ [SortNext]_allVars => SortInv'
  BY SortNextInv
<1> QED  BY <1>1, <1>2, <1>3, PTL DEF SortSpec

-----------------------------------------------------------------------------
(***************************************************************************)
(* What the two functions give their caller.                               *)
(***************************************************************************)
\* The places from m on of a permutation are as many items as there are places.
LEMMA PlacesCount ==
  ASSUME NEW n \in Nat, NEW q, Permutes(q, n), NEW m \in 0..n
  PROVE  /\ IsFiniteSet({q[k] : k \in m..(n - 1)})
         /\ Cardinality({q[k] : k \in m..(n - 1)}) = n - m
<1> DEFINE I == m..(n - 1)
           T == {q[k] : k \in I}
           f == [k \in I |-> q[k]]
<1>1. IsFiniteSet(I) /\ Cardinality(I) = n - m
  <2>1. m \in Int /\ n - 1 \in Int
    OBVIOUS
  <2>2. IsFiniteSet(m..(n - 1)) /\ Cardinality(m..(n - 1)) = IF m > n - 1 THEN 0 ELSE n - 1 - m + 1
    BY <2>1, FS_Interval
  <2> QED  BY <2>2
<1>2. \A k \in I : k \in 0..(n - 1)
  OBVIOUS
<1>3. \A a, b \in I : q[a] = q[b] => a = b
  BY <1>2 DEF Permutes
<1> HIDE DEF I
<1>4. f \in Surjection(I, T) /\ f \in Injection(I, T)
  BY <1>3 DEF Surjection, Injection, IsInjective
<1> HIDE DEF f, T
<1>5. IsFiniteSet(T) /\ Cardinality(T) = Cardinality(I)
  BY <1>1, <1>4, FS_Surjection
<1> QED  BY <1>1, <1>5 DEF T, I

\* With the n best items behind the others, best last, the first of them may stand n-th.
LEMMA RankedIsNth ==
  ASSUME HeapTypeOK, item_count \in Nat, input \in [0..(item_count - 1) -> Payload],
         NEW q, Permutes(q, item_count), NEW n \in 1..item_count, Ranked(q, item_count - n)
  PROVE  IsNth(n, input[q[item_count - n]])
<1> DEFINE N == item_count
           given == 0..(N - 1)
           m == N - n
           p == input[q[m]]
           Before == {k \in given : Better(input[k], p)}
           NotAfter == {k \in given : ~Better(p, input[k])}
           Later == {q[k] : k \in (m + 1)..(N - 1)}
           Rest == {q[k] : k \in m..(N - 1)}
<1>1. /\ m \in 0..(N - 1) /\ m \in 0..N /\ m + 1 \in 0..N /\ m \in Nat /\ N \in Nat
      /\ N - m = n /\ N - (m + 1) = n - 1 /\ n \in Nat
  OBVIOUS
<1>2. /\ q \in [given -> given]
      /\ \A k \in given : input[k] \in Payload /\ \E j \in given : q[j] = k
  BY DEF Permutes
<1>3. p \in Payload /\ q[m] \in given
  BY <1>1, <1>2
<1>4. ~Better(p, p)
  BY <1>3, BetterOrder
<1>5. IsFiniteSet(Later) /\ Cardinality(Later) = n - 1
  <2> DEFINE l == m + 1
  <2>1. l \in 0..N /\ N - l = n - 1
    BY <1>1
  <2> HIDE DEF l, m, Later
  <2>2. /\ IsFiniteSet({q[k] : k \in l..(N - 1)})
        /\ Cardinality({q[k] : k \in l..(N - 1)}) = N - l
    BY <2>1, PlacesCount
  <2>3. Later = {q[k] : k \in l..(N - 1)}
    BY DEF Later, l
  <2> QED  BY <2>1, <2>2, <2>3
<1>6. IsFiniteSet(Rest) /\ Cardinality(Rest) = n
  <2>1. m \in 0..N /\ N - m = n
    BY <1>1
  <2> HIDE DEF m, Rest
  <2>2. /\ IsFiniteSet({q[k] : k \in m..(N - 1)})
        /\ Cardinality({q[k] : k \in m..(N - 1)}) = N - m
    BY <2>1, PlacesCount
  <2>3. Rest = {q[k] : k \in m..(N - 1)}
    BY DEF Rest
  <2> QED  BY <2>1, <2>2, <2>3
<1> HIDE DEF m
<1>7. Before \subseteq Later
  <2>1. ASSUME NEW k \in given, Better(input[k], p)
        PROVE  k \in Later
    <3>1. PICK j \in given : q[j] = k
      BY <1>2
    <3>2. j # m
      BY <1>4, <2>1, <3>1
    <3>3. ~(j < m)
      <4>1. ASSUME j < m PROVE j \in 0..(m - 1) /\ m \in m..(N - 1)
        BY <1>1, <4>1
      <4> QED  BY <2>1, <3>1, <4>1 DEF Ranked, m
    <3>4. j \in (m + 1)..(N - 1)
      BY <1>1, <3>2, <3>3
    <3> QED  BY <3>1, <3>4
  <2> QED  BY <2>1
<1>8. Rest \subseteq NotAfter
  <2>1. ASSUME NEW j \in m..(N - 1)
        PROVE  q[j] \in given /\ ~Better(p, input[q[j]])
    <3>1. j \in given /\ q[j] \in given
      <4>1. j \in given
        BY <1>1
      <4> HIDE DEF given
      <4> QED  BY <1>2, <4>1
    <3>2. CASE j = m
      BY <1>4, <3>1, <3>2
    <3>3. CASE j # m
      <4>1. m \in 0..(j - 1)
        BY <1>1, <3>3
      <4> QED  BY <3>1, <4>1 DEF Ranked, m
    <3> QED  BY <3>2, <3>3
  <2> QED  BY <2>1
<1>9. IsFiniteSet(NotAfter)
  <2>1. NotAfter \in SUBSET (0..(N - 1))
    OBVIOUS
  <2> HIDE DEF NotAfter
  <2> QED  BY <1>1, <2>1, FiniteSlots
<1>10. \E k \in given : input[k] = p
  BY <1>3
<1> HIDE DEF p, Before, NotAfter, Later, Rest, given
<1>11. Cardinality(Before) <= n - 1 /\ Cardinality(Before) \in Nat
  <2>1. IsFiniteSet(Before) /\ Cardinality(Before) <= Cardinality(Later)
    BY <1>5, <1>7, FS_Subset
  <2> QED  BY <1>5, <2>1, FS_CardinalityType
<1>12. n <= Cardinality(NotAfter)
  BY <1>6, <1>8, <1>9, FS_Subset
<1>13. Cardinality(Before) < n
  BY <1>1, <1>11
<1>14. IsNth(n, p)
  BY <1>10, <1>12, <1>13 DEF IsNth, Before, NotAfter, given
<1> QED  BY <1>14 DEF p, m

\* A function that has returned does nothing more.
LEMMA ReturnedStays ==
  ASSUME SortInv, api # "client", stage = "returned", [SortNext]_allVars
  PROVE  UNCHANGED allVars
<1>1. pc = "destroyed"
  BY DEF SortInv
<1> QED  BY <1>1 DEF SortNext, of_array, client, insert_item, rounds, bubble_up, bubble_down,
                     inserted, pop_item, heap_pop, pop_item_end, PopEnd, popped

\* IsNth speaks of nothing that changes.
LEMMA SameIsNth ==
  ASSUME UNCHANGED <<settings, arguments>>, NEW n, NEW p
  PROVE  IsNth(n, p)' <=> IsNth(n, p)
<1>1. \A a, b : Better(a, b)' <=> Better(a, b)
  BY SameBetter
<1>2. UNCHANGED <<input, item_count>>
  BY DEF arguments
<1> QED  BY <1>1, <1>2 DEF IsNth

\* What heap_find_nth_item has found when its loop ends.
LEMMA FoundNth ==
  ASSUME HeapInv, SortInv, popped, api = "heap_find_nth_item"
  PROVE  /\ nth_item \in 1..item_count /\ target_item # NULL
         /\ IsNth(nth_item, target_item)
         /\ \A k \in 0..(item_count - 1) :
              IF data_mode = "HEAP_MEM" /\ k < nth_item - 1
              THEN IsNth(k + 1, array[k]) ELSE array[k] = input[k]
<1>1. stage = "pop" /\ item = pops /\ pc = "idle"
  BY DEF popped, heap_destroy
<1>2. /\ item_count \in Nat /\ nth_item \in Nat /\ nth_item > 0 /\ item = nth_item
      /\ nth_item \in 0..item_count /\ array_length = item_count - nth_item
      /\ input \in [0..(item_count - 1) -> Payload] /\ HeapTypeOK
  BY <1>1, PopStageFacts DEF pops, HeapInv
<1>3. PICK q : Placed(q) /\ Taken(q)
  BY <1>1, PopStageFacts
<1>4. Permutes(q, item_count) /\ Ranked(q, item_count - nth_item)
  BY <1>2, <1>3 DEF Placed, Taken
<1>5. ASSUME NEW n \in 1..nth_item
      PROVE  IsNth(n, input[q[item_count - n]])
  <2>1. n \in 1..item_count
    BY <1>2
  <2>2. \A j \in (item_count - n)..(item_count - 1) :
           j \in (item_count - nth_item)..(item_count - 1)
    BY <1>2
  <2>3. Ranked(q, item_count - n)
    BY <1>4, <2>2 DEF Ranked
  <2> QED  BY <1>2, <1>4, <2>1, <2>3, RankedIsNth
<1>6. nth_item \in 1..nth_item /\ nth_item \in 1..item_count
  BY <1>2
<1>7. target_item = input[q[item_count - nth_item]]
  BY <1>2, <1>3 DEF Taken, Found
<1>8. target_item # NULL
  <2>1. item_count - nth_item \in 0..(item_count - 1)
    BY <1>2
  <2>2. q[item_count - nth_item] \in 0..(item_count - 1)
    BY <1>4, <2>1 DEF Permutes
  <2>3. input[q[item_count - nth_item]] \in Payload
    BY <1>2, <2>2
  <2> QED  BY <1>7, <2>3, HeapAssumption
<1>9. ASSUME NEW k \in 0..(item_count - 1)
      PROVE  IF data_mode = "HEAP_MEM" /\ k < nth_item - 1
             THEN IsNth(k + 1, array[k]) ELSE array[k] = input[k]
  <2>1. array[k] = IF Written(k) THEN input[q[item_count - 1 - k]] ELSE input[k]
    BY <1>3 DEF Taken
  <2>2. Written(k) <=> data_mode = "HEAP_MEM" /\ k < nth_item - 1
    BY <1>2 DEF Written
  <2>3. CASE Written(k)
    <3>1. k + 1 \in 1..nth_item /\ item_count - (k + 1) = item_count - 1 - k
      BY <1>2, <2>2, <2>3
    <3>2. IsNth(k + 1, input[q[item_count - (k + 1)]])
      BY <1>5, <3>1
    <3> QED  BY <2>1, <2>2, <2>3, <3>1, <3>2
  <2> QED  BY <2>1, <2>2, <2>3
<1> QED  BY <1>5, <1>6, <1>7, <1>8, <1>9

\* The last step of heap_find_nth_item is the one that has to find the item.
LEMMA FindsNthNext ==
  ASSUME HeapInv, SortInv, FindsNth, [SortNext]_allVars
  PROVE  FindsNth'
<1> SUFFICES ASSUME api' = "heap_find_nth_item", stage' = "returned"
             PROVE  FindsNth'
  BY DEF FindsNth
<1>1. /\ UNCHANGED <<settings, arguments>>
      /\ UNCHANGED <<api, item_count, nth_item, input, data_mode>>
  BY SettingsKept DEF settings, arguments
<1>2. \A n, p : IsNth(n, p)' <=> IsNth(n, p)
  BY <1>1, SameIsNth
<1>3. CASE stage = "returned"
  <2>1. UNCHANGED <<array, target_item>>
    BY <1>1, <1>3, ReturnedStays DEF allVars, progress
  <2> QED  BY <1>1, <1>2, <1>3, <2>1 DEF FindsNth
<1>4. CASE stage # "returned"
  <2>1. inserted \/ popped
    BY <1>1, <1>4 DEF SortNext, of_array, client, allVars, progress, insert_item, rounds,
                      pop_item, pop_item_end
  <2>2. UNCHANGED <<array, target_item>>
    BY <2>1 DEF inserted, popped
  <2>3. CASE popped
    <3>1. /\ nth_item \in 1..item_count /\ target_item # NULL
          /\ IsNth(nth_item, target_item)
          /\ \A k \in 0..(item_count - 1) :
               IF data_mode = "HEAP_MEM" /\ k < nth_item - 1
               THEN IsNth(k + 1, array[k]) ELSE array[k] = input[k]
      BY <1>1, <2>3, FoundNth
    <3> QED  BY <1>1, <1>2, <2>2, <3>1 DEF FindsNth
  <2>4. CASE inserted
    <3>1. ~in_range /\ stage = "insert" /\ item = item_count
      BY <1>1, <2>4 DEF inserted
    <3>2. /\ array = input /\ target_item = NULL /\ array_length = item_count
          /\ nth_item \in Nat /\ item_count \in Nat
      BY <1>1, <3>1 DEF SortInv, InsertStage
    <3>3. nth_item \notin 1..item_count
      BY <3>1, <3>2 DEF in_range
    <3> QED  BY <1>1, <2>2, <3>2, <3>3 DEF FindsNth
  <2> QED  BY <2>1, <2>3, <2>4
<1> QED  BY <1>3, <1>4

\* heap_find_nth_item returns an item that may stand n-th, NULL if there is none, and
\* leaves the caller's array as FindsNth says (heap.c:267-332), for any array and n.
THEOREM FindsNthHolds == SortSpec => []FindsNth
<1>1. SortInit => FindsNth
  BY DEF SortInit, FindsNth
<1>2. HeapInv /\ SortInv /\ FindsNth /\ [SortNext]_allVars => FindsNth'
  BY FindsNthNext
<1> QED  BY <1>1, <1>2, SortInvHolds, PTL DEF SortSpec

\* What heap_sort has done when its loop ends: the array from its end is the permutation.
LEMMA PoppedSorts ==
  ASSUME HeapInv, SortInv, popped, api = "heap_sort"
  PROVE  \E q : /\ Permutes(q, item_count) /\ Ranked(q, 0)
                /\ \A j \in 0..(item_count - 1) : array[j] = input[q[item_count - 1 - j]]
<1>1. stage = "pop" /\ item = pops /\ pc = "idle"
  BY DEF popped, heap_destroy
<1>2. item_count \in Nat /\ item = item_count /\ array_length = 0
  BY <1>1, PopStageFacts DEF pops
<1>3. PICK q : Placed(q) /\ Taken(q)
  BY <1>1, PopStageFacts
<1>4. \A j \in 0..(item_count - 1) : Written(j)
  BY <1>2 DEF Written
<1> QED  BY <1>2, <1>3, <1>4 DEF Placed, Taken

\* That is what AbsSort asks for.
LEMMA PoppedRefines ==
  ASSUME HeapInv, SortInv, popped, api = "heap_sort"
  PROVE  Sorting!Sort
<1> DEFINE N == item_count
           a == [k \in 1..item_count |-> IF sorted THEN array[k - 1] ELSE input[k - 1]]
           order == IF heap_type = "MAX_HEAP" THEN "HIGHEST_FIRST" ELSE "LOWEST_FIRST"
<1>1. PICK q : /\ Permutes(q, N) /\ Ranked(q, 0)
               /\ \A j \in 0..(N - 1) : array[j] = input[q[N - 1 - j]]
  BY PoppedSorts
<1> DEFINE p == [k \in 1..N |-> q[N - k] + 1]
<1>2. /\ N \in Nat /\ input \in [0..(N - 1) -> Payload] /\ array \in [0..(N - 1) -> Payload]
      /\ HeapTypeOK /\ heap_type \in {"MAX_HEAP", "MIN_HEAP"}
  BY DEF SortInv, HeapInv, HeapTypeOK
<1>3. /\ sorted = FALSE /\ sorted' = TRUE
      /\ UNCHANGED <<array, item_count, input, heap_type>>
  BY SettingsKept DEF popped, sorted, settings, arguments, SortNext, of_array
<1>4. a = [k \in 1..N |-> input[k - 1]] /\ a' = [k \in 1..N |-> array[k - 1]]
  BY <1>3
<1>5. order' = order
  BY <1>3
<1> HIDE DEF a
<1>6. \A k \in 1..N : N - k \in 0..(N - 1) /\ k - 1 \in 0..(N - 1)
  BY <1>2
<1>7. /\ p \in [1..N -> 1..N]
      /\ \A i, j \in 1..N : p[i] = p[j] => i = j
      /\ \A i \in 1..N : \E k \in 1..N : p[k] = i
  <2>1. \A k \in 1..N : q[N - k] \in 0..(N - 1)
    BY <1>1, <1>6 DEF Permutes
  <2>2. p \in [1..N -> 1..N]
    <3>1. \A k \in 1..N : q[N - k] + 1 \in 1..N
      BY <1>2, <2>1
    <3> QED  BY <3>1
  <2>3. ASSUME NEW i \in 1..N, NEW j \in 1..N, p[i] = p[j]
        PROVE  i = j
    <3>1. q[N - i] = q[N - j]
      <4>1. q[N - i] + 1 = q[N - j] + 1
        BY <2>3
      <4> QED  BY <2>1, <4>1
    <3>2. N - i = N - j
      BY <1>1, <1>6, <3>1 DEF Permutes
    <3> QED  BY <1>2, <3>2
  <2>4. ASSUME NEW i \in 1..N
        PROVE  \E k \in 1..N : p[k] = i
    <3>1. PICK l \in 0..(N - 1) : q[l] = i - 1
      BY <1>1, <1>6 DEF Permutes
    <3>2. N - l \in 1..N /\ N - (N - l) = l
      BY <1>2
    <3>3. p[N - l] = (i - 1) + 1
      BY <3>1, <3>2
    <3> QED  BY <3>2, <3>3
  <2> QED  BY <2>2, <2>3, <2>4
<1> HIDE DEF N
<1>8. p \in Sorting!Bijection(1..N, 1..N)
  <2> HIDE DEF p
  <2> QED  BY <1>7 DEF Sorting!Bijection, Sorting!Injection, Sorting!Surjection,
                       Sorting!IsInjective
<1>9. ASSUME NEW k \in 1..N
      PROVE  array[k - 1] = input[q[N - k]] /\ array[k - 1] = a[p[k]]
  <2>1. array[k - 1] = input[q[N - 1 - (k - 1)]] /\ N - 1 - (k - 1) = N - k
    BY <1>1, <1>2, <1>6
  <2>2. p[k] - 1 = q[N - k]
    <3>1. q[N - k] \in 0..(N - 1)
      BY <1>1, <1>6 DEF Permutes
    <3> QED  BY <3>1
  <2>3. p[k] \in 1..N
    BY <1>7
  <2> HIDE DEF p
  <2> QED  BY <1>4, <2>1, <2>2, <2>3
<1> HIDE DEF p
<1>10. \E f \in Sorting!Bijection(DOMAIN a, DOMAIN a) : a' = [k \in DOMAIN a |-> a[f[k]]]
  <2>1. DOMAIN a = 1..N
    BY <1>4
  <2>2. a' = [k \in 1..N |-> a[p[k]]]
    BY <1>4, <1>9
  <2> QED  BY <1>8, <2>1, <2>2
<1>11. ASSUME NEW i \in 1..N, NEW j \in 1..N, i < j
       PROVE  Sorting!InOrder(array[i - 1], array[j - 1])
  <2>1. N - i \in 0..(N - 1) /\ N - j \in 0..((N - i) - 1)
    BY <1>2, <1>11
  <2>2. ~Better(array[j - 1], array[i - 1])
    BY <1>1, <1>9, <2>1 DEF Ranked, N
  <2>3. Rank[array[i - 1]] \in Int /\ Rank[array[j - 1]] \in Int
    BY <1>2, <1>6, HeapAssumption
  <2> QED  BY <1>2, <2>2, <2>3 DEF Better, compare, type, Sorting!InOrder
<1>12. Sorting!Sorted(a')
  <2>1. DOMAIN (a') = 1..N /\ \A k \in 1..N : a'[k] = array[k - 1]
    BY <1>4
  <2> QED  BY <1>11, <2>1 DEF Sorting!Sorted
<1> QED  BY <1>3, <1>5, <1>10, <1>12 DEF Sorting!Sort, a

\* No other step shows.
LEMMA SortingStep ==
  ASSUME HeapInv, SortInv, [SortNext]_allVars
  PROVE  [Sorting!Sort]_(Sorting!vars)
<1>1. UNCHANGED <<settings, arguments>> /\ UNCHANGED <<api, item_count, input, heap_type>>
  BY SettingsKept DEF settings, arguments
<1>2. CASE ~sorted /\ ~sorted'
  <2>1. sorted = FALSE /\ sorted' = FALSE
    BY <1>2 DEF sorted
  <2> QED  BY <1>1, <2>1 DEF Sorting!vars
<1>3. CASE sorted
  <2>1. UNCHANGED allVars
    BY <1>3, ReturnedStays DEF sorted
  <2>2. UNCHANGED <<array, sorted>>
    BY <2>1, <1>1 DEF allVars, progress, sorted
  <2> QED  BY <1>1, <2>2 DEF Sorting!vars
<1>4. CASE ~sorted /\ sorted'
  <2>1. api = "heap_sort" /\ stage # "returned" /\ stage' = "returned"
    BY <1>1, <1>4 DEF sorted
  <2>2. popped
    BY <1>1, <2>1 DEF SortNext, of_array, client, allVars, progress, insert_item, rounds,
                      inserted, pop_item, pop_item_end
  <2> QED  BY <2>1, <2>2, PoppedRefines
<1> QED  BY <1>2, <1>3, <1>4

\* heap_sort leaves the caller its own payloads, each as often as before, in the order
\* asked for (heap.c:198-264), for any array, any ranks and either kind of heap.
THEOREM HeapSortSorts == SortSpec => SortsInPlace
<1>1. SortInit => Sorting!Init
  <2> SUFFICES ASSUME SortInit PROVE Sorting!Init
    OBVIOUS
  <2>1. /\ item_count \in Nat /\ input \in [0..(item_count - 1) -> Payload]
        /\ heap_type \in {"MAX_HEAP", "MIN_HEAP"} /\ sorted = FALSE
    BY HeapSortAssumption DEF SortInit, Init, sorted
  <2>2. \A k \in 1..item_count : k - 1 \in 0..(item_count - 1)
    BY <2>1
  <2>3. [k \in 1..item_count |-> input[k - 1]] \in [1..item_count -> Payload]
    BY <2>1, <2>2
  <2>4. [k \in 1..item_count |-> input[k - 1]] \in Seq(Payload)
    BY <2>1, <2>3
  <2> QED  BY <2>1, <2>4 DEF Sorting!Init
<1>2. HeapInv /\ SortInv /\ [SortNext]_allVars => [Sorting!Sort]_(Sorting!vars)
  BY SortingStep
<1> QED  BY <1>1, <1>2, SortInvHolds, PTL DEF SortSpec, SortsInPlace, Sorting!Spec
=============================================================================
