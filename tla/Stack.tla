------------------------------- MODULE Stack -------------------------------
(***************************************************************************)
(* The stack of stack_adt (stack.c): an array of payload pointers that     *)
(* doubles when it is full and halves when it is half empty.               *)
(***************************************************************************)
EXTENDS Integers, Sequences

CONSTANTS
  Payload,                \* addresses of the client's payloads
  Index,                  \* positions the client asks stack_nth_peek for
  BASE_SIZE,              \* 5 in the code
  NULL,
  Garbage,                \* what realloc leaves in the slots it adds
  MaxLength               \* bound: payloads on the stack

ASSUME StackAssumption ==
  /\ BASE_SIZE \in Nat \ {0} /\ Index \subseteq Nat
  /\ NULL \notin Payload /\ Garbage \notin Payload
  /\ MaxLength \in Nat

VARIABLES
  array, length, size,    \* stack_adt_t
  destroyed,              \* payloads handed to the destroy callback
  pc,                     \* "idle", "dump" (inside stack_dump) or "destroyed"
  ret                     \* what the last call returned

vars == <<array, length, size, destroyed, pc, ret>>

Held == {array[k] : k \in 0..(length - 1)}

\* stack_init
Init ==
  /\ array = [k \in 0..(BASE_SIZE - 1) |-> NULL]
  /\ length = 0 /\ size = BASE_SIZE
  /\ destroyed = {} /\ pc = "idle" /\ ret = NULL

resize_stackShort(a, s) ==
  [k \in 0..(s - 1) |-> IF k + 1 \in DOMAIN a THEN a[k] ELSE Garbage]

resize_stack(a, s) ==
  [k \in 0..(s - 1) |-> IF k \in DOMAIN a THEN a[k] ELSE Garbage]

ensure_space == IF length = size THEN size * 2 ELSE size

\* length is already the new one where pop calls it.
ensure_downgrade_spaceLate(len) ==
  IF len = size \div 4 /\ len > BASE_SIZE THEN size \div 2 ELSE size

ensure_downgrade_space(len) ==
  IF len = size \div 2 /\ len > BASE_SIZE THEN size \div 2 ELSE size

stack_push(p) ==
  /\ pc = "idle" /\ p \notin Held /\ length < MaxLength
  /\ size' = ensure_space
  /\ array' = [resize_stack(array, size') EXCEPT ![length] = p]
  /\ length' = length + 1
  /\ destroyed' = destroyed \ {p}     \* a new payload may reuse its address
  /\ ret' = NULL
  /\ UNCHANGED pc

\* The slot is cleared before the array may shrink.
TakeTop ==
  /\ length' = length - 1
  /\ size' = ensure_downgrade_space(length')
  /\ array' = resize_stack([array EXCEPT ![length'] = NULL], size')

stack_popBottom ==
  /\ pc = "idle"
  /\ \/ /\ length = 0
        /\ ret' = NULL /\ UNCHANGED <<array, length, size>>
     \/ /\ length > 0
        /\ TakeTop /\ ret' = array[0]
  /\ UNCHANGED <<destroyed, pc>>

stack_pop ==
  /\ pc = "idle"
  /\ \/ /\ length = 0
        /\ ret' = NULL /\ UNCHANGED <<array, length, size>>
     \/ /\ length > 0
        /\ TakeTop /\ ret' = array[length - 1]
  /\ UNCHANGED <<destroyed, pc>>

PeekAt(i) == IF length = 0 THEN NULL
             ELSE IF i < length THEN array[i] ELSE NULL

stack_nth_peek(i) ==
  /\ pc = "idle"
  /\ ret' = PeekAt(i)
  /\ UNCHANGED <<array, length, size, destroyed, pc>>

\* length - 1 wraps on an empty stack, which stack_nth_peek tests first.
stack_peek ==
  /\ pc = "idle"
  /\ ret' = PeekAt(length - 1)
  /\ UNCHANGED <<array, length, size, destroyed, pc>>

\* stack_dump pops and destroys until the stack is empty.
stack_dump ==
  /\ pc = "idle" /\ pc' = "dump"
  /\ UNCHANGED <<array, length, size, destroyed, ret>>

DumpOne ==
  /\ pc = "dump" /\ length > 0
  /\ TakeTop
  /\ destroyed' = destroyed \cup {array[length - 1]}
  /\ ret' = NULL /\ UNCHANGED pc

DumpEndEarly ==
  /\ pc = "dump" /\ length <= 1
  /\ pc' = "idle"
  /\ UNCHANGED <<array, length, size, destroyed, ret>>

DumpEnd ==
  /\ pc = "dump" /\ length = 0
  /\ pc' = "idle"
  /\ UNCHANGED <<array, length, size, destroyed, ret>>

stack_destroy ==
  /\ pc = "idle" /\ pc' = "destroyed"
  /\ destroyed' = destroyed \cup Held
  /\ length' = 0 /\ size' = 0 /\ array' = [k \in {} |-> NULL]
  /\ ret' = NULL

Next ==
  \/ \E p \in Payload : stack_push(p)
  \/ \E i \in Index : stack_nth_peek(i)
  \/ stack_pop \/ stack_peek \/ stack_destroy
  \/ stack_dump \/ DumpOne \/ DumpEnd

Spec == Init /\ [][Next]_vars

\* A call that has begun runs to its end.
FairSpec == Spec /\ WF_vars(DumpOne \/ DumpEnd)

-----------------------------------------------------------------------------
\* Every slot in use exists and holds a payload.
TypeOK ==
  /\ length \in Nat /\ size \in Nat
  /\ array \in [0..(size - 1) -> Payload \cup {NULL, Garbage}]
  /\ \A k \in 0..(length - 1) : k \in DOMAIN array /\ array[k] \in Payload
  /\ destroyed \in SUBSET Payload
  /\ pc \in {"idle", "dump", "destroyed"}
  /\ ret \in Payload \cup {NULL}

\* The array always has room for what it holds, and once it has grown beyond twice
\* its first size it is more than half full (stack.c:142-158).
CapacityFits ==
  /\ length <= size
  /\ size > 2 * BASE_SIZE => 2 * length > size

\* The array is a last-in first-out sequence of payloads, across every resize, and
\* each payload discarded is destroyed once.
items == [k \in 1..length |-> array[k - 1]]
Abs == INSTANCE AbsStack WITH items <- items
ImplementsAbsStack == Abs!Spec

\* stack_dump returns, and leaves the stack empty.
DumpEmpties == pc = "dump" ~> pc = "idle" /\ length = 0
=============================================================================
