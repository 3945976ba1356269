---------------------------- MODULE StackProofs ----------------------------
(***************************************************************************)
(* Theorems about Stack, for every BASE_SIZE and any set of payloads.      *)
(*                                                                         *)
(* That the array is more than half full once it has grown does not follow *)
(* from itself: halving an odd size would break it.  The invariant adds    *)
(* that a size is BASE_SIZE doubled some number of times (Sizes), which    *)
(* makes every size that can be halved even.                               *)
(***************************************************************************)
EXTENDS Stack, Lemmas

-----------------------------------------------------------------------------
Distinct == \A a, b \in 0..(length - 1) : array[a] = array[b] => a = b

Inv ==
  /\ TypeOK
  /\ CapacityFits
  /\ pc # "destroyed" => size \in Sizes(BASE_SIZE)
  /\ Distinct
  /\ Held \cap destroyed = {}

\* stack_init makes an empty array of the first size.
LEMMA InitInv == Init => Inv
<1> SUFFICES ASSUME Init PROVE Inv
  OBVIOUS
<1>1. TypeOK
  BY StackAssumption DEF Init, TypeOK
<1>2. CapacityFits
  BY StackAssumption DEF Init, CapacityFits
<1>3. Distinct /\ Held \cap destroyed = {}
  BY DEF Init, Distinct, Held
<1>4. size \in Sizes(BASE_SIZE)
  <2>1. BASE_SIZE \in Sizes(BASE_SIZE)
    BY StackAssumption, SizesClosed DEF Closed
  <2> QED  BY <2>1 DEF Init
<1> QED  BY <1>1, <1>2, <1>3, <1>4 DEF Inv

\* stack_push keeps what the array holds and puts the payload behind it.
LEMMA PushSlots ==
  ASSUME Inv, NEW p \in Payload, stack_push(p)
  PROVE  /\ size' \in Sizes(BASE_SIZE) /\ size' \in Nat
         /\ length' = length + 1 /\ length' <= size'
         /\ size' > 2 * BASE_SIZE => 2 * length' > size'
         /\ array' \in [0..(size' - 1) -> Payload \cup {NULL, Garbage}]
         /\ \A k \in 0..(length - 1) : array'[k] = array[k]
         /\ array'[length] = p
<1>1. /\ length \in Nat /\ size \in Nat /\ size \in Sizes(BASE_SIZE) /\ length <= size
      /\ size > 2 * BASE_SIZE => 2 * length > size
      /\ array \in [0..(size - 1) -> Payload \cup {NULL, Garbage}]
      /\ size >= BASE_SIZE /\ BASE_SIZE \in Nat \ {0}
  BY SizesFromBase, StackAssumption DEF Inv, TypeOK, CapacityFits, stack_push
<1>2. /\ size' = IF length = size THEN size * 2 ELSE size
      /\ length' = length + 1
  BY DEF stack_push, ensure_space
<1>3. size' \in Sizes(BASE_SIZE) /\ size' \in Nat /\ size <= size'
  <2>1. size * 2 = 2 * size
    BY <1>1
  <2>2. 2 * size \in Sizes(BASE_SIZE)
    BY <1>1, SizesClosed DEF Closed
  <2> QED  BY <1>1, <1>2, <2>1, <2>2
<1>4. length' <= size' /\ (size' > 2 * BASE_SIZE => 2 * length' > size')
  BY <1>1, <1>2
<1>5. array' = [[k \in 0..(size' - 1) |-> IF k \in 0..(size - 1) THEN array[k]
                                          ELSE Garbage] EXCEPT ![length] = p]
  BY <1>1 DEF stack_push, resize_stack
<1>6. length \in 0..(size' - 1) /\ \A k \in 0..(length - 1) : k \in 0..(size' - 1)
  BY <1>1, <1>2, <1>3, <1>4
<1>7. \A k \in 0..(length - 1) : k \in 0..(size - 1) /\ k # length
  BY <1>1
<1>8. array' \in [0..(size' - 1) -> Payload \cup {NULL, Garbage}]
  BY <1>1, <1>5
<1>9. array'[length] = p
  BY <1>5, <1>6
<1>10. \A k \in 0..(length - 1) : array'[k] = array[k]
  BY <1>5, <1>6, <1>7
<1> QED  BY <1>2, <1>3, <1>4, <1>8, <1>9, <1>10

\* Taking the top off keeps the rest, when the array shrinks too.
LEMMA TakeTopSlots ==
  ASSUME Inv, pc # "destroyed", length > 0, TakeTop
  PROVE  /\ size' \in Sizes(BASE_SIZE) /\ size' \in Nat
         /\ length' = length - 1 /\ length' \in Nat /\ length' <= size'
         /\ size' > 2 * BASE_SIZE => 2 * length' > size'
         /\ array' \in [0..(size' - 1) -> Payload \cup {NULL, Garbage}]
         /\ \A k \in 0..(length' - 1) : array'[k] = array[k]
<1>1. /\ length \in Nat /\ size \in Nat /\ size \in Sizes(BASE_SIZE) /\ length <= size
      /\ size > 2 * BASE_SIZE => 2 * length > size
      /\ array \in [0..(size - 1) -> Payload \cup {NULL, Garbage}]
      /\ size >= BASE_SIZE /\ BASE_SIZE \in Nat \ {0}
  BY SizesFromBase, StackAssumption DEF Inv, TypeOK, CapacityFits
<1>2. /\ length' = length - 1
      /\ size' = IF length' = size \div 2 /\ length' > BASE_SIZE THEN size \div 2 ELSE size
      /\ array' = resize_stack([array EXCEPT ![length'] = NULL], size')
  BY DEF TakeTop, ensure_downgrade_space
<1>3. size = BASE_SIZE \/ \E y \in Sizes(BASE_SIZE) : y \in Nat /\ size = 2 * y
  BY <1>1, SizesHalve, SizesFromBase
<1>4. /\ size' \in Sizes(BASE_SIZE) /\ size' \in Nat /\ size' <= size
      /\ length' <= size'
      /\ size' > 2 * BASE_SIZE => 2 * length' > size'
  <2>1. CASE size = BASE_SIZE
    BY <2>1, <1>1, <1>2
  <2>2. ASSUME NEW y \in Sizes(BASE_SIZE), y \in Nat, size = 2 * y
        PROVE  /\ size' \in Sizes(BASE_SIZE) /\ size' \in Nat /\ size' <= size
               /\ length' <= size'
               /\ size' > 2 * BASE_SIZE => 2 * length' > size'
    <3>1. size \div 2 = y
      BY <2>2
    <3>2. CASE length' = y /\ length' > BASE_SIZE
      <4>1. size' = y /\ length' = y
        BY <3>1, <3>2, <1>2
      <4>2. y <= 2 * y /\ (y > 2 * BASE_SIZE => 2 * y > y)
        BY <2>2, <1>1
      <4> QED  BY <4>1, <4>2, <2>2
    <3>3. CASE ~(length' = y /\ length' > BASE_SIZE)
      BY <3>1, <3>3, <2>2, <1>1, <1>2
    <3> QED  BY <3>2, <3>3
  <2> QED  BY <1>3, <2>1, <2>2
<1>5. array' = [k \in 0..(size' - 1) |->
                  IF k \in 0..(size - 1) THEN [array EXCEPT ![length'] = NULL][k]
                  ELSE Garbage]
  BY <1>1, <1>2 DEF resize_stack
<1>6. array' \in [0..(size' - 1) -> Payload \cup {NULL, Garbage}]
  BY <1>1, <1>5
<1>7. \A k \in 0..(length' - 1) : k \in 0..(size' - 1) /\ k \in 0..(size - 1) /\ k # length'
  BY <1>1, <1>2, <1>4
<1>8. \A k \in 0..(length' - 1) : array'[k] = array[k]
  BY <1>1, <1>5, <1>7
<1>9. length' = length - 1 /\ length' \in Nat
  BY <1>1, <1>2
<1> QED  BY <1>4, <1>6, <1>8, <1>9

\* A step that leaves the slots alone keeps the invariant.
LEMMA SameSlotsInv ==
  ASSUME Inv, UNCHANGED <<array, length, size, destroyed>>,
         pc' \in {"idle", "dump", "destroyed"}, pc' # "destroyed" => pc # "destroyed",
         ret' \in Payload \cup {NULL}
  PROVE  Inv'
<1>1. TypeOK'
  BY DEF Inv, TypeOK
<1>2. CapacityFits' /\ Distinct' /\ (Held \cap destroyed = {})'
  BY DEF Inv, CapacityFits, Distinct, Held
<1>3. pc' # "destroyed" => size' \in Sizes(BASE_SIZE)
  BY DEF Inv
<1> QED  BY <1>1, <1>2, <1>3 DEF Inv

\* stack_push preserves the invariant.
LEMMA PushInv ==
  ASSUME Inv, NEW p \in Payload, stack_push(p)
  PROVE  Inv'
<1>1. /\ size' \in Sizes(BASE_SIZE) /\ size' \in Nat
      /\ length' = length + 1 /\ length' <= size'
      /\ size' > 2 * BASE_SIZE => 2 * length' > size'
      /\ array' \in [0..(size' - 1) -> Payload \cup {NULL, Garbage}]
      /\ \A k \in 0..(length - 1) : array'[k] = array[k]
      /\ array'[length] = p
  BY PushSlots
<1>2. /\ length \in Nat
      /\ \A k \in 0..(length - 1) : array[k] \in Payload /\ array[k] # p
      /\ p \notin Held /\ destroyed \in SUBSET Payload /\ Held \cap destroyed = {}
      /\ destroyed' = destroyed \ {p} /\ pc' = pc /\ pc = "idle" /\ ret' = NULL
  BY DEF Inv, TypeOK, stack_push, Held
<1>3. ASSUME NEW k \in 0..(length' - 1)
      PROVE  k \in 0..(size' - 1) /\ (k = length \/ k \in 0..(length - 1))
  <2>1. /\ length \in Nat /\ size' \in Nat
        /\ length' = length + 1 /\ length' <= size' /\ length' \in Nat
    BY <1>1, <1>2
  <2>2. k \in 0..(size' - 1)
    BY <2>1, SlotsNest
  <2>3. k = length \/ k \in 0..(length - 1)
    BY <2>1
  <2> QED  BY <2>2, <2>3
<1>4. TypeOK'
  <2>1. \A k \in 0..(length' - 1) : array'[k] \in Payload
    BY <1>1, <1>2, <1>3
  <2>2. length' \in Nat
    BY <1>1, <1>2
  <2> QED  BY <1>1, <1>2, <1>3, <2>1, <2>2 DEF TypeOK
<1>5. CapacityFits'
  BY <1>1 DEF CapacityFits
<1>6. Distinct'
  <2> SUFFICES ASSUME NEW a \in 0..(length' - 1), NEW b \in 0..(length' - 1),
                      array'[a] = array'[b]
               PROVE  a = b
    BY DEF Distinct
  <2>1. CASE a = length
    BY <2>1, <1>1, <1>2, <1>3
  <2>2. CASE b = length
    BY <2>2, <1>1, <1>2, <1>3
  <2>3. CASE a \in 0..(length - 1) /\ b \in 0..(length - 1)
    BY <2>3, <1>1 DEF Inv, Distinct
  <2> QED  BY <2>1, <2>2, <2>3, <1>3
<1>7. Held' = Held \cup {p}
  <2>1. Held' \subseteq Held \cup {p}
    BY <1>1, <1>3 DEF Held
  <2>2. \A k \in 0..(length - 1) : k \in 0..(length' - 1)
    BY <1>1, <1>2
  <2>3. Held \subseteq Held'
    BY <1>1, <2>2 DEF Held
  <2>4. length \in 0..(length' - 1)
    BY <1>1, <1>2
  <2>5. p \in Held'
    BY <1>1, <2>4 DEF Held
  <2> QED  BY <2>1, <2>3, <2>5
<1>8. (Held \cap destroyed = {})'
  BY <1>2, <1>7
<1> QED  BY <1>1, <1>4, <1>5, <1>6, <1>8 DEF Inv

\* What is left when the top is taken off.
LEMMA TakeTopHeld ==
  ASSUME Inv, pc # "destroyed", length > 0, TakeTop
  PROVE  Held' = Held \ {array[length - 1]} /\ array[length - 1] \in Payload
<1>1. /\ length \in Nat /\ length' = length - 1
      /\ \A k \in 0..(length' - 1) : array'[k] = array[k]
      /\ \A k \in 0..(length - 1) : array[k] \in Payload
      /\ \A a, b \in 0..(length - 1) : array[a] = array[b] => a = b
  BY TakeTopSlots DEF Inv, TypeOK, Distinct
<1>2. /\ length - 1 \in 0..(length - 1)
      /\ \A k \in 0..(length' - 1) : k \in 0..(length - 1) /\ k # length - 1
      /\ \A k \in 0..(length - 1) : k = length - 1 \/ k \in 0..(length' - 1)
  BY <1>1
<1>3. ASSUME NEW x \in Held'
      PROVE  x \in Held /\ x # array[length - 1]
  <2>1. PICK k \in 0..(length' - 1) : x = array'[k]
    BY DEF Held
  <2> QED  BY <2>1, <1>1, <1>2 DEF Held
<1>4. ASSUME NEW x \in Held, x # array[length - 1]
      PROVE  x \in Held'
  <2>1. PICK k \in 0..(length - 1) : x = array[k]
    BY DEF Held
  <2> QED  BY <2>1, <1>1, <1>2, <1>4 DEF Held
<1> QED  BY <1>1, <1>2, <1>3, <1>4

\* stack_pop and each round of stack_dump preserve the invariant.
LEMMA TakeTopInv ==
  ASSUME Inv, pc # "destroyed", length > 0, TakeTop, UNCHANGED pc,
         destroyed' \in {destroyed, destroyed \cup {array[length - 1]}},
         ret' \in {NULL, array[length - 1]}
  PROVE  Inv'
<1>1. /\ size' \in Sizes(BASE_SIZE) /\ size' \in Nat
      /\ length' = length - 1 /\ length' \in Nat /\ length' <= size'
      /\ size' > 2 * BASE_SIZE => 2 * length' > size'
      /\ array' \in [0..(size' - 1) -> Payload \cup {NULL, Garbage}]
      /\ \A k \in 0..(length' - 1) : array'[k] = array[k]
  BY TakeTopSlots
<1>2. /\ Held' = Held \ {array[length - 1]} /\ array[length - 1] \in Payload
      /\ Held \cap destroyed = {} /\ destroyed \in SUBSET Payload
      /\ pc \in {"idle", "dump", "destroyed"}
  BY TakeTopHeld DEF Inv, TypeOK
<1>3. ASSUME NEW k \in 0..(length' - 1)
      PROVE  k \in 0..(size' - 1) /\ k \in 0..(length - 1)
  <2>1. /\ length \in Nat /\ size' \in Nat
        /\ length' = length - 1 /\ length' <= size' /\ length' \in Nat
    BY <1>1 DEF Inv, TypeOK
  <2>2. k \in 0..(size' - 1)
    BY <2>1, SlotsNest
  <2>3. k \in 0..(length - 1)
    BY <2>1
  <2> QED  BY <2>2, <2>3
<1>4. TypeOK'
  <2>1. \A k \in 0..(length' - 1) : array'[k] \in Payload
    BY <1>1, <1>3 DEF Inv, TypeOK
  <2> QED  BY <1>1, <1>2, <1>3, <2>1 DEF TypeOK
<1>5. CapacityFits'
  BY <1>1 DEF CapacityFits
<1>6. Distinct'
  BY <1>1, <1>3 DEF Inv, Distinct
<1>7. (Held \cap destroyed = {})'
  BY <1>2
<1> QED  BY <1>1, <1>4, <1>5, <1>6, <1>7 DEF Inv

\* What stack_peek and stack_nth_peek return is a payload or NULL.
LEMMA PeekInv ==
  ASSUME Inv, NEW i \in Int, i >= 0 \/ length = 0, ret' = PeekAt(i),
         UNCHANGED <<array, length, size, destroyed, pc>>
  PROVE  Inv'
<1>1. length \in Nat /\ \A k \in 0..(length - 1) : array[k] \in Payload
  BY DEF Inv, TypeOK
<1>2. length = 0 \/ i >= length \/ i \in 0..(length - 1)
  BY <1>1
<1>3. ret' \in Payload \cup {NULL}
  BY <1>1, <1>2 DEF PeekAt
<1> QED  BY <1>3, SameSlotsInv DEF Inv, TypeOK

\* stack_destroy hands every payload held to the callback and leaves none.
LEMMA DestroyInv ==
  ASSUME Inv, stack_destroy
  PROVE  Inv'
<1>1. /\ length' = 0 /\ size' = 0 /\ array' = [k \in {} |-> NULL]
      /\ pc' = "destroyed" /\ ret' = NULL /\ destroyed' = destroyed \cup Held
  BY DEF stack_destroy
<1>2. Held \subseteq Payload /\ destroyed \in SUBSET Payload
  BY DEF Inv, TypeOK, Held
<1>3. TypeOK'
  BY <1>1, <1>2 DEF TypeOK
<1>4. CapacityFits' /\ Distinct' /\ Held' = {}
  BY <1>1, StackAssumption DEF CapacityFits, Distinct, Held
<1> QED  BY <1>1, <1>3, <1>4 DEF Inv

\* Every call, and every round of stack_dump, preserves the invariant.
LEMMA NextInv ==
  ASSUME Inv, [Next]_vars
  PROVE  Inv'
<1>1. /\ length \in Nat /\ ret \in Payload \cup {NULL}
      /\ pc \in {"idle", "dump", "destroyed"}
  BY DEF Inv, TypeOK
<1>2. CASE UNCHANGED vars
  BY <1>1, <1>2, SameSlotsInv DEF vars
<1>3. ASSUME NEW p \in Payload, stack_push(p)
      PROVE  Inv'
  BY <1>3, PushInv
<1>4. ASSUME NEW i \in Index, stack_nth_peek(i)
      PROVE  Inv'
  BY <1>4, PeekInv, StackAssumption DEF stack_nth_peek
<1>5. CASE stack_peek
  <2>1. length - 1 \in Int /\ (length - 1 >= 0 \/ length = 0)
    BY <1>1
  <2> QED  BY <1>5, <2>1, PeekInv DEF stack_peek
<1>6. CASE stack_pop
  <2>1. CASE length = 0 /\ ret' = NULL /\ UNCHANGED <<array, length, size>>
    BY <1>1, <1>6, <2>1, SameSlotsInv DEF stack_pop
  <2>2. CASE length > 0 /\ TakeTop /\ ret' = array[length - 1]
    BY <1>6, <2>2, TakeTopInv DEF stack_pop
  <2> QED  BY <1>6, <2>1, <2>2 DEF stack_pop
<1>7. CASE stack_dump
  BY <1>1, <1>7, SameSlotsInv DEF stack_dump
<1>8. CASE DumpOne
  BY <1>8, TakeTopInv DEF DumpOne
<1>9. CASE DumpEnd
  BY <1>1, <1>9, SameSlotsInv DEF DumpEnd
<1>10. CASE stack_destroy
  BY <1>10, DestroyInv
<1> QED  BY <1>2, <1>3, <1>4, <1>5, <1>6, <1>7, <1>8, <1>9, <1>10 DEF Next

\* In every reachable state the array holds its payloads, each once and none of
\* them destroyed, in a size that is the first one doubled.
THEOREM InvHolds == Spec => []Inv
<1>1. Init => Inv
  BY InitInv
<1>2. Inv /\ [Next]_vars => Inv'
  BY NextInv
<1> QED  BY <1>1, <1>2, PTL DEF Spec

\* Every slot in use exists and holds a payload (stack.c:58-82).
THEOREM TypesHold == Spec => []TypeOK
<1>1. Inv => TypeOK
  BY DEF Inv
<1> QED  BY <1>1, InvHolds, PTL

\* The array has room for what it holds and is never mostly empty, for every
\* BASE_SIZE (stack.c:142-158).
THEOREM CapacityAlwaysFits == Spec => []CapacityFits
<1>1. Inv => CapacityFits
  BY DEF Inv
<1> QED  BY <1>1, InvHolds, PTL

-----------------------------------------------------------------------------
(***************************************************************************)
(* The array implements the abstract stack.                                *)
(***************************************************************************)

\* items as a sequence.
LEMMA ItemsSeq ==
  ASSUME Inv
  PROVE  /\ length \in Nat
         /\ items \in Seq(Payload) /\ Len(items) = length
         /\ \A k \in 1..length : items[k] = array[k - 1]
         /\ Abs!Held = Held
<1>1. length \in Nat /\ \A k \in 0..(length - 1) : array[k] \in Payload
  BY DEF Inv, TypeOK
<1>2. \A k \in 1..length : k - 1 \in 0..(length - 1)
  BY <1>1
<1>3. items \in [1..length -> Payload]
  BY <1>1, <1>2 DEF items
<1>4. items \in Seq(Payload) /\ Len(items) = length
  BY <1>1, <1>3
<1>5. \A k \in 1..length : items[k] = array[k - 1]
  BY DEF items
<1>6. Abs!Held = Held
  <2>1. \A k \in 0..(length - 1) : k + 1 \in 1..length /\ (k + 1) - 1 = k
    BY <1>1
  <2>2. ASSUME NEW x \in Held PROVE x \in Abs!Held
    <3>1. PICK k \in 0..(length - 1) : x = array[k]
      BY DEF Held
    <3>2. k + 1 \in 1..Len(items) /\ items[k + 1] = x
      BY <2>1, <3>1, <1>4, <1>5
    <3> QED  BY <3>2 DEF Abs!Held
  <2>3. ASSUME NEW x \in Abs!Held PROVE x \in Held
    <3>1. PICK k \in 1..Len(items) : x = items[k]
      BY DEF Abs!Held
    <3> QED  BY <3>1, <1>2, <1>4, <1>5 DEF Held
  <2> QED  BY <2>2, <2>3
<1> QED  BY <1>1, <1>4, <1>5, <1>6

\* stack_push appends.
LEMMA PushRefines ==
  ASSUME Inv, Inv', NEW p \in Payload, stack_push(p)
  PROVE  Abs!Push(p)
<1>1. /\ length \in Nat /\ length' = length + 1
      /\ \A k \in 0..(length - 1) : array'[k] = array[k]
      /\ array'[length] = p
  BY PushSlots DEF Inv, TypeOK
<1>2. /\ items \in Seq(Payload) /\ Len(items) = length
      /\ \A k \in 1..length : items[k] = array[k - 1]
      /\ Abs!Held = Held
  BY ItemsSeq
<1>3. items' = [k \in 1..(length + 1) |-> array'[k - 1]]
  BY <1>1 DEF items
<1>4. /\ Append(items, p) \in Seq(Payload)
      /\ Len(Append(items, p)) = length + 1
      /\ \A k \in 1..(length + 1) :
           Append(items, p)[k] = IF k <= length THEN items[k] ELSE p
  BY <1>1, <1>2, AppendProperties
<1>5. ASSUME NEW k \in 1..(length + 1)
      PROVE  array'[k - 1] = IF k <= length THEN items[k] ELSE p
  <2>1. CASE k <= length
    <3>1. k \in 1..length /\ k - 1 \in 0..(length - 1)
      BY <2>1, <1>1
    <3> QED  BY <2>1, <3>1, <1>1, <1>2
  <2>2. CASE ~(k <= length)
    <3>1. k - 1 = length
      BY <2>2, <1>1
    <3> QED  BY <2>2, <3>1, <1>1
  <2> QED  BY <2>1, <2>2
<1>6. items' = Append(items, p)
  <2> DEFINE s == items'
             t == Append(items, p)
  <2>1. t \in Seq(Payload) /\ Len(t) = length + 1
    BY <1>4
  <2>2. \A k \in 1..(length + 1) : s[k] = t[k] /\ t[k] \in Payload
    BY <1>2, <1>3, <1>4, <1>5
  <2>3. s \in [1..(length + 1) -> Payload]
    BY <1>3, <2>2
  <2>4. s \in Seq(Payload) /\ Len(s) = length + 1
    BY <1>1, <2>3
  <2> HIDE DEF s, t
  <2>5. s = t
    BY <2>1, <2>2, <2>4, SameElements
  <2> QED  BY <2>5 DEF s, t
<1> QED  BY <1>2, <1>6 DEF stack_push, Abs!Push

\* Taking the top off leaves the front of the sequence.
LEMMA TakeTopRefines ==
  ASSUME Inv, pc # "destroyed", length > 0, TakeTop
  PROVE  /\ items # <<>>
         /\ items' = SubSeq(items, 1, Len(items) - 1)
         /\ items[Len(items)] = array[length - 1]
<1>1. /\ length \in Nat /\ length' = length - 1
      /\ \A k \in 0..(length' - 1) : array'[k] = array[k]
  BY TakeTopSlots DEF Inv, TypeOK
<1>2. /\ items \in Seq(Payload) /\ Len(items) = length
      /\ \A k \in 1..length : items[k] = array[k - 1]
  BY ItemsSeq
<1>3. items' = [k \in 1..(length - 1) |-> array'[k - 1]]
  BY <1>1 DEF items
<1>4. SubSeq(items, 1, length - 1) = [k \in 1..(length - 1) |-> items[k]]
  <2>1. SubSeq(items, 1, length - 1) = [k \in 1..((length - 1) - 1 + 1) |-> items[1 + k - 1]]
    BY <1>1, <1>2
  <2>2. (length - 1) - 1 + 1 = length - 1 /\ \A k \in 1..(length - 1) : 1 + k - 1 = k
    BY <1>1
  <2> QED  BY <2>1, <2>2
<1>5. ASSUME NEW k \in 1..(length - 1)
      PROVE  array'[k - 1] = items[k]
  <2>1. k - 1 \in 0..(length' - 1) /\ k \in 1..length
    BY <1>1
  <2> QED  BY <2>1, <1>1, <1>2
<1>6. items' = SubSeq(items, 1, length - 1)
  BY <1>3, <1>4, <1>5
<1>7. length \in 1..length /\ items # <<>>
  BY <1>1, <1>2, EmptySeq
<1> QED  BY <1>2, <1>6, <1>7

\* What is read at position i is the abstract item there.
LEMMA PeekRefines ==
  ASSUME Inv, NEW i \in Int, i >= 0 \/ length = 0
  PROVE  PeekAt(i) = IF i < Len(items) /\ length # 0 THEN items[i + 1] ELSE NULL
<1>1. /\ length \in Nat /\ Len(items) = length
      /\ \A k \in 1..length : items[k] = array[k - 1]
  BY ItemsSeq
<1>2. CASE i < length /\ length # 0
  <2>1. i + 1 \in 1..length /\ (i + 1) - 1 = i
    BY <1>1, <1>2
  <2> QED  BY <2>1, <1>1, <1>2 DEF PeekAt
<1>3. CASE ~(i < length /\ length # 0)
  BY <1>1, <1>3 DEF PeekAt
<1> QED  BY <1>2, <1>3

\* Every step of the array stack is a step of the abstract one, or a stutter.
LEMMA StepRefines ==
  ASSUME Inv, Inv', [Next]_vars
  PROVE  [Abs!Next]_(Abs!vars)
<1>1. /\ length \in Nat /\ Len(items) = length /\ Abs!Held = Held
      /\ items \in Seq(Payload)
  BY ItemsSeq
<1>2. length = 0 <=> items = <<>>
  BY <1>1, EmptySeq
<1>3. ASSUME UNCHANGED <<array, length>>
      PROVE  items' = items
  BY <1>3 DEF items
<1>4. CASE UNCHANGED vars
  BY <1>3, <1>4 DEF vars, Abs!vars
<1>5. ASSUME NEW p \in Payload, stack_push(p)
      PROVE  Abs!Next
  BY <1>5, PushRefines DEF Abs!Next
<1>6. ASSUME NEW i \in Index, stack_nth_peek(i)
      PROVE  Abs!Next
  <2>1. i \in Nat
    BY StackAssumption
  <2>2. PeekAt(i) = IF i < Len(items) /\ length # 0 THEN items[i + 1] ELSE NULL
    BY <2>1, PeekRefines
  <2>3. i < Len(items) => length # 0
    BY <2>1, <1>1
  <2>4. ret' = IF i < Len(items) THEN items[i + 1] ELSE NULL
    BY <1>6, <2>2, <2>3 DEF stack_nth_peek
  <2> QED  BY <1>3, <1>6, <2>4 DEF stack_nth_peek, Abs!Next, Abs!NthPeek
<1>7. CASE stack_peek
  <2>1. length - 1 \in Int /\ (length - 1 >= 0 \/ length = 0) /\ length - 1 < length
        /\ (length - 1) + 1 = length
    BY <1>1
  <2>2. PeekAt(length - 1) = IF length # 0 THEN items[length] ELSE NULL
    BY <2>1, <1>1, PeekRefines
  <2> QED  BY <1>1, <1>2, <1>3, <1>7, <2>2 DEF stack_peek, Abs!Next, Abs!Peek
<1>8. CASE stack_pop
  <2>1. CASE length = 0 /\ ret' = NULL /\ UNCHANGED <<array, length, size>>
    BY <1>2, <1>3, <1>8, <2>1 DEF stack_pop, Abs!Next, Abs!Pop
  <2>2. CASE length > 0 /\ TakeTop /\ ret' = array[length - 1]
    BY <1>8, <2>2, TakeTopRefines DEF stack_pop, Abs!Next, Abs!Pop
  <2> QED  BY <1>8, <2>1, <2>2 DEF stack_pop
<1>9. CASE stack_dump \/ DumpEnd
  BY <1>3, <1>9 DEF stack_dump, DumpEnd, Abs!vars
<1>10. CASE DumpOne
  <2>1. length - 1 \in 0..(length - 1)
    BY <1>1, <1>10 DEF DumpOne
  <2>2. array[length - 1] \notin destroyed
    BY <2>1 DEF Inv, Held
  <2> QED  BY <1>10, <2>2, TakeTopRefines DEF DumpOne, Abs!Next, Abs!Discard
<1>11. CASE stack_destroy
  <2>1. length' = 0
    BY <1>11 DEF stack_destroy
  <2>2. items' = <<>>
    BY <2>1 DEF items
  <2> QED  BY <1>1, <1>11, <2>2 DEF Inv, stack_destroy, Abs!Next, Abs!Destroy
<1> QED  BY <1>4, <1>5, <1>6, <1>7, <1>8, <1>9, <1>10, <1>11 DEF Next

\* The array that grows and shrinks is a last-in first-out sequence to its caller
\* (stack.c:58-129), for every BASE_SIZE and any payloads.
THEOREM ArrayRefinesStack == Spec => ImplementsAbsStack
<1>1. Init => Abs!Init
  BY DEF Init, Abs!Init, items
<1>2. Inv /\ Inv' /\ [Next]_vars => [Abs!Next]_(Abs!vars)
  BY StepRefines
<1> QED  BY <1>1, <1>2, InvHolds, PTL DEF Spec, ImplementsAbsStack, Abs!Spec
=============================================================================
