------------------------------- MODULE DList -------------------------------
(***************************************************************************)
(* The doubly linked list of dlist_adt (dl_list.c) with its iterators      *)
(* (dl_iter.c), at the level of the pointers the code reads and writes.    *)
(*                                                                         *)
(* Memory.  Node is the pool of dnode_t addresses.  free() makes every     *)
(* iterator that still points at the node Dangling, and the process runs   *)
(* under AddressSanitizer with assertions on (README.md, BuildUtils.cmake):*)
(* using a dangling pointer, dereferencing NULL or failing an assert ends  *)
(* it, which `status' records; freed addresses come back to the pool.      *)
(*                                                                         *)
(* chain is a history variable: the nodes from head to tail.  The loops    *)
(* that walk the list are expressed with it, and Linked ties it to head,   *)
(* tail, next and prev, so a wrong pointer assignment cannot hide there.   *)
(***************************************************************************)
EXTENDS Integers, SequencesExt

CONSTANTS
  Node,                   \* addresses of dnode_t
  Data,                   \* values stored, compared by equality, sorted as integers
  Iter,                   \* addresses of dlist_iter_t handed to the client
  Index,                  \* index arguments of the client's calls
  NULL, Dangling,
  DLIST_SUCC, DLIST_FAIL,
  MaxIndex,               \* bound: how far an iterator's index is followed
  MaxRegistered           \* bound: entries of iter_list

ASSUME DListAssumption ==
  /\ Data \subseteq Int /\ Index \subseteq Int
  /\ NULL \notin Node \cup Data \cup Iter
  /\ Dangling \notin Node \cup Iter \cup {NULL}
  /\ DLIST_SUCC # DLIST_FAIL
  /\ DLIST_SUCC \notin Data \cup {NULL} /\ DLIST_FAIL \notin Data \cup {NULL}
  /\ MaxIndex \in Nat /\ MaxRegistered \in Nat

VARIABLES
  head, tail, length,     \* dlist_t
  iter_list,              \* dlist_t.iter_list: the registered iterators, oldest first
  next, prev, data,       \* dnode_t, by address
  alloc,                  \* addresses of the nodes not yet freed
  open,                   \* the iterators the client holds
  node, index,            \* dlist_iter_t, by address
  status,                 \* "running", "destroyed", or how the process died
  ret,                    \* what the last call returned
  chain                   \* history: the nodes from head to tail

listVars == <<head, tail, length, next, prev, data, alloc, chain>>
iterVars == <<iter_list, open, node, index>>
vars == <<listVars, iterVars, status, ret>>

Crashes == {"assert_failed", "null_dereference", "use_after_free"}
running == status = "running"

Registered == {iter_list[k] : k \in 1..Len(iter_list)}
Linked_nodes == {chain[k] : k \in 1..Len(chain)}
ValueAt(k) == data[chain[k]]
items == [k \in 1..Len(chain) |-> ValueAt(k)]

\* dlist_init
EmptyList ==
  /\ head = NULL /\ tail = NULL /\ length = 0
  /\ next = [n \in Node |-> NULL]
  /\ prev = [n \in Node |-> NULL]
  /\ data = [n \in Node |-> NULL]
  /\ alloc = {} /\ chain = <<>>
  /\ status = "running" /\ ret = NULL

Init ==
  /\ EmptyList
  /\ iter_list = <<>> /\ open = {}
  /\ node = [i \in Iter |-> NULL] /\ index = [i \in Iter |-> 0]

\* The process ends in the middle of a call: memory is gone with it.
Crash(how) ==
  /\ status' = how
  /\ UNCHANGED <<listVars, iterVars, ret>>

-----------------------------------------------------------------------------
(***************************************************************************)
(* Nodes: init_node, add_node, remove_node.                                *)
(***************************************************************************)

\* A new node n (calloc: its links start as NULL) that ends up at position k.
Account(n, v, k) ==
  /\ data' = [data EXCEPT ![n] = v]
  /\ alloc' = alloc \cup {n}
  /\ length' = length + 1
  /\ chain' = InsertAt(chain, k, n)

LinkHead(n) ==
  /\ next' = [next EXCEPT ![n] = head]
  /\ prev' = [prev EXCEPT ![n] = NULL, ![head] = n]
  /\ head' = n
  /\ UNCHANGED tail

LinkTailKeepsTail(n) ==
  /\ prev' = [prev EXCEPT ![n] = tail]
  /\ next' = [next EXCEPT ![n] = NULL, ![tail] = n]
  /\ UNCHANGED <<head, tail>>

LinkTail(n) ==
  /\ prev' = [prev EXCEPT ![n] = tail]
  /\ next' = [next EXCEPT ![n] = NULL, ![tail] = n]
  /\ tail' = n
  /\ UNCHANGED head

LinkBefore(n, child) ==
  /\ prev' = [prev EXCEPT ![child] = n, ![n] = prev[child]]
  /\ next' = [next EXCEPT ![n] = child, ![prev[child]] = n]
  /\ UNCHANGED <<head, tail>>

\* The first node of an empty list: every registered iterator is sent to it.
RewindFirstOnly(n) ==
  /\ node' = [i \in Iter |-> IF iter_list # <<>> /\ i = iter_list[1] THEN n ELSE node[i]]
  /\ index' = [i \in Iter |-> IF iter_list # <<>> /\ i = iter_list[1] THEN 0 ELSE index[i]]
  /\ UNCHANGED <<iter_list, open>>

Rewind(n) ==
  /\ node' = [i \in Iter |-> IF i \in Registered THEN n ELSE node[i]]
  /\ index' = [i \in Iter |-> IF i \in Registered THEN 0 ELSE index[i]]
  /\ UNCHANGED <<iter_list, open>>

AddFirst(n, v) ==
  /\ length = 0 /\ Dangling \notin Registered
  /\ head' = n /\ tail' = n
  /\ next' = [next EXCEPT ![n] = NULL]
  /\ prev' = [prev EXCEPT ![n] = NULL]
  /\ Account(n, v, 1)
  /\ Rewind(n)
  /\ UNCHANGED status

\* An entry whose iterator was freed is used by the loop over iter_list.
AddFirstFault ==
  /\ length = 0 /\ Dangling \in Registered
  /\ Crash("use_after_free")

\* After free(n), any iterator left on n holds a dangling pointer.
Invalidate(n, at) == [i \in Iter |-> IF at[i] = n THEN Dangling ELSE at[i]]

UnlinkKeepsNext(n) ==
  /\ head' = IF head = n THEN next[n] ELSE head
  /\ tail' = IF tail = n THEN prev[n] ELSE tail
  /\ next' = next
  /\ prev' = [m \in Node |-> IF m = n THEN NULL
                             ELSE IF m = next[n] THEN prev[n] ELSE prev[m]]

Unlink(n) ==
  /\ head' = IF head = n THEN next[n] ELSE head
  /\ tail' = IF tail = n THEN prev[n] ELSE tail
  /\ next' = [m \in Node |-> IF m = n THEN NULL
                             ELSE IF m = prev[n] THEN next[n] ELSE next[m]]
  /\ prev' = [m \in Node |-> IF m = n THEN NULL
                             ELSE IF m = next[n] THEN prev[n] ELSE prev[m]]

FreeForgotten(n) == UNCHANGED alloc

free(n) == alloc' = alloc \ {n}

CountDownTwice == length' = length - 2

CountDown == length' = length - 1

\* remove_node of the node at position k, when the iterators stand at `at'.
remove_node(k, at) ==
  LET n == chain[k] IN
  /\ ret' = data[n]
  /\ CountDown
  /\ Unlink(n)
  /\ data' = [data EXCEPT ![n] = NULL]
  /\ free(n)
  /\ chain' = RemoveAt(chain, k)
  /\ node' = Invalidate(n, at)
  /\ UNCHANGED <<iter_list, open, status>>

-----------------------------------------------------------------------------
(***************************************************************************)
(* Searches.  iter_search_by_index leaves its freed iterator in iter_list; *)
(* iter_search_by_value_plus takes its own out again.                      *)
(***************************************************************************)
InRange(i) == IF i >= 0 THEN i < length ELSE -i <= length

PositionFromHead(i) == IF i >= 0 THEN i + 1 ELSE -i

Position(i) == IF i >= 0 THEN i + 1 ELSE length + i + 1

FirstAt(v, k) ==
  /\ k \in 1..Len(chain)
  /\ ValueAt(k) = v
  /\ \A j \in 1..(k-1) : ValueAt(j) # v

Missing(v) == \A k \in 1..Len(chain) : ValueAt(k) # v

LeaveStaleEntry ==
  /\ Len(iter_list) < MaxRegistered
  /\ iter_list' = Append(iter_list, Dangling)

dlist_get_by_index(i) ==
  /\ running /\ LeaveStaleEntry
  /\ ret' = IF InRange(i) THEN ValueAt(Position(i)) ELSE NULL
  /\ UNCHANGED <<listVars, open, node, index, status>>

dlist_get_by_valueForgets(v) ==
  /\ running /\ LeaveStaleEntry
  /\ ret' = IF Missing(v) THEN NULL ELSE v
  /\ UNCHANGED <<listVars, open, node, index, status>>

dlist_get_by_value(v) ==
  /\ running
  /\ \/ \E k \in 1..Len(chain) : FirstAt(v, k) /\ ret' = ValueAt(k)
     \/ Missing(v) /\ ret' = NULL
  /\ UNCHANGED <<listVars, iterVars, status>>

-----------------------------------------------------------------------------
(***************************************************************************)
(* Insertion.                                                              *)
(***************************************************************************)
dlist_prepend(v) ==
  /\ running
  /\ \/ AddFirstFault
     \/ \E n \in Node \ alloc :
          /\ \/ AddFirst(n, v)
             \/ /\ length > 0
                /\ LinkHead(n) /\ Account(n, v, 1)
                /\ UNCHANGED <<iterVars, status>>
          /\ ret' = NULL

dlist_append(v) ==
  /\ running
  /\ \/ AddFirstFault
     \/ \E n \in Node \ alloc :
          /\ \/ AddFirst(n, v)
             \/ /\ length > 0
                /\ LinkTail(n) /\ Account(n, v, Len(chain) + 1)
                /\ UNCHANGED <<iterVars, status>>
          /\ ret' = NULL

\* The node made for an index out of range is neither linked nor freed.
InsertNowhere(n, i) ==
  /\ length > 0 /\ ~InRange(i)
  /\ alloc' = alloc \cup {n}
  /\ ret' = DLIST_FAIL
  /\ UNCHANGED <<head, tail, length, next, prev, data, chain>>

InsertInside(n, v, i) ==
  /\ length > 0 /\ InRange(i) /\ Position(i) > 1
  /\ LinkBefore(n, chain[Position(i)])
  /\ Account(n, v, Position(i))
  /\ ret' = DLIST_SUCC

dlist_insert(v, i) ==
  /\ running
  /\ \/ AddFirstFault
     \/ /\ length > 0 /\ InRange(i) /\ Position(i) = 1
        /\ Crash("null_dereference")    \* the head has no parent_node
     \/ \E n \in Node \ alloc :
          \/ AddFirst(n, v) /\ ret' = DLIST_SUCC
          \/ /\ InsertNowhere(n, i) \/ InsertInside(n, v, i)
             /\ LeaveStaleEntry
             /\ UNCHANGED <<open, node, index, status>>

-----------------------------------------------------------------------------
(***************************************************************************)
(* Iterators.                                                              *)
(***************************************************************************)
tail_index == IF length = 0 THEN 0 ELSE length - 1

\* iterate: a cursor that ran off the list stays there.
StepIndexOnly(c, fetch) ==
  IF c.node = NULL THEN c
  ELSE [node |-> IF fetch = "NEXT" THEN next[c.node] ELSE prev[c.node],
        index |-> c.index + 1]

Step(c, fetch) ==
  IF c.node = NULL THEN c
  ELSE IF fetch = "NEXT" THEN [node |-> next[c.node], index |-> c.index + 1]
                         ELSE [node |-> prev[c.node], index |-> c.index - 1]

Shift(c, by) == [c EXCEPT !.index = @ + by]

Cursor(i) == [node |-> node[i], index |-> index[i]]

dlist_get_iterable(i, pos) ==
  /\ running /\ i \notin open
  /\ Len(iter_list) < MaxRegistered
  /\ open' = open \cup {i}
  /\ node' = [node EXCEPT ![i] = IF pos = "ITER_HEAD" THEN head ELSE tail]
  /\ index' = [index EXCEPT ![i] = IF pos = "ITER_HEAD" THEN 0 ELSE tail_index]
  /\ iter_list' = Append(iter_list, i)
  /\ ret' = NULL
  /\ UNCHANGED <<listVars, status>>

\* dlist_remove_value on iter_list, which compares addresses.
UnregisterLast(i) ==
  \E k \in 1..Len(iter_list) :
    /\ iter_list[k] = i
    /\ iter_list' = SubSeq(iter_list, 1, Len(iter_list) - 1)

Unregister(i) ==
  \/ \E k \in 1..Len(iter_list) :
       /\ iter_list[k] = i
       /\ \A j \in 1..(k-1) : iter_list[j] # i
       /\ iter_list' = RemoveAt(iter_list, k)
  \/ i \notin Registered /\ UNCHANGED iter_list

dlist_destroy_iter(i) ==
  /\ running /\ i \in open
  /\ Unregister(i)
  /\ open' = open \ {i}
  /\ node' = [node EXCEPT ![i] = NULL]
  /\ index' = [index EXCEPT ![i] = 0]
  /\ ret' = NULL
  /\ UNCHANGED <<listVars, status>>

iter_get_value(i) ==
  /\ running /\ i \in open
  /\ \/ node[i] = Dangling /\ Crash("use_after_free")
     \/ /\ node[i] # Dangling
        /\ ret' = IF node[i] = NULL THEN NULL ELSE data[node[i]]
        /\ UNCHANGED <<listVars, iterVars, status>>

\* dlist_get_iter_next and dlist_get_iter_prev
iterate(i, fetch) ==
  /\ running /\ i \in open
  /\ \/ node[i] = Dangling /\ Crash("use_after_free")
     \/ /\ node[i] # Dangling
        /\ LET c == Step(Cursor(i), fetch) IN
           /\ c.index \in -MaxIndex..MaxIndex
           /\ node' = [node EXCEPT ![i] = c.node]
           /\ index' = [index EXCEPT ![i] = c.index]
           /\ ret' = IF c.node = NULL THEN NULL ELSE data[c.node]
        /\ UNCHANGED <<listVars, iter_list, open, status>>

\* dlist_set_iter_head and dlist_set_iter_tail; iter_set_node asserts its node.
dlist_set_iter(i, pos) ==
  /\ running /\ i \in open
  /\ \/ length = 0 /\ Crash("assert_failed")
     \/ /\ length > 0
        /\ node' = [node EXCEPT ![i] = IF pos = "ITER_HEAD" THEN head ELSE tail]
        /\ index' = [index EXCEPT ![i] = IF pos = "ITER_HEAD" THEN 0 ELSE tail_index]
        /\ ret' = NULL
        /\ UNCHANGED <<listVars, iter_list, open, status>>

-----------------------------------------------------------------------------
(***************************************************************************)
(* Removal.                                                                *)
(***************************************************************************)
dlist_pop_head ==
  /\ running
  /\ \/ /\ length = 0
        /\ ret' = NULL
        /\ UNCHANGED <<listVars, iterVars, status>>
     \/ /\ length > 0
        /\ remove_node(1, node)
        /\ UNCHANGED index

dlist_pop_tail ==
  /\ running
  /\ \/ /\ length = 0
        /\ ret' = NULL
        /\ UNCHANGED <<listVars, iterVars, status>>
     \/ /\ length > 0
        /\ remove_node(Len(chain), node)
        /\ UNCHANGED index

\* What dlist_remove_value does to an iterator whose index is the one found.
\* Both branches count down: the first to undo the step, the second on top of it.
MoveOffHeadOnly(i, atHead, atTail) ==
  IF atHead THEN Shift(Step(Cursor(i), "NEXT"), -1) ELSE Cursor(i)

MoveOff(i, atHead, atTail) ==
  LET c == IF atHead THEN Shift(Step(Cursor(i), "NEXT"), -1) ELSE Cursor(i)
  IN  IF atTail THEN Shift(Step(c, "PREV"), -1) ELSE c

\* The node found at position k is an end of the list if it carries the value
\* of the head or of the tail: the ends are looked up by value as well.
RemoveMatch(k) ==
  LET atHead == ValueAt(k) = ValueAt(1)
      atTail == ValueAt(k) = ValueAt(Len(chain))
      fixUp == iter_list # <<>> /\ (atHead \/ atTail)
      Moved == {i \in Iter \cap Registered : fixUp /\ index[i] = k - 1}
      unsafe == \/ fixUp /\ Dangling \in Registered
                \/ \E i \in Moved : node[i] = Dangling
      After(i) == IF i \in Moved THEN MoveOff(i, atHead, atTail) ELSE Cursor(i)
  IN  \/ unsafe /\ Crash("use_after_free")
      \/ /\ ~unsafe
         /\ \A i \in Iter : After(i).index \in -MaxIndex..MaxIndex
         /\ remove_node(k, [i \in Iter |-> After(i).node])
         /\ index' = [i \in Iter |-> After(i).index]

dlist_remove_value(v) ==
  /\ running
  /\ \/ \E k \in 1..Len(chain) : FirstAt(v, k) /\ RemoveMatch(k)
     \/ /\ Missing(v)
        /\ ret' = NULL
        /\ UNCHANGED <<listVars, iterVars, status>>

\* dlist_destroy and dlist_destroy_free: the nodes, iter_list and the list go,
\* the client's iterators do not.
dlist_destroy ==
  /\ running
  /\ status' = "destroyed" /\ ret' = NULL
  /\ head' = NULL /\ tail' = NULL /\ length' = 0 /\ chain' = <<>>
  /\ next' = [n \in Node |-> NULL]
  /\ prev' = [n \in Node |-> NULL]
  /\ data' = [n \in Node |-> NULL]
  /\ alloc' = alloc \ Linked_nodes
  /\ iter_list' = <<>>
  /\ node' = [i \in Iter |-> IF node[i] \in Linked_nodes THEN Dangling ELSE node[i]]
  /\ UNCHANGED <<open, index>>

-----------------------------------------------------------------------------
(***************************************************************************)
(* dlist_quick_sort moves the data pointers; nodes and iterators stay.     *)
(***************************************************************************)
SortedBy(s, dir) ==
  \A a, b \in 1..Len(s) :
    a < b => IF dir = "ASCENDING" THEN s[a] <= s[b] ELSE s[a] >= s[b]

dlist_quick_sort(dir) ==
  /\ running
  /\ \E p \in Bijection(1..Len(chain), 1..Len(chain)) :
       /\ SortedBy([k \in 1..Len(chain) |-> ValueAt(p[k])], dir)
       /\ data' = [n \in Node |->
                     IF n \in Linked_nodes
                     THEN ValueAt(p[CHOOSE k \in 1..Len(chain) : chain[k] = n])
                     ELSE data[n]]
  /\ ret' = NULL
  /\ UNCHANGED <<head, tail, length, next, prev, alloc, chain, iterVars, status>>

-----------------------------------------------------------------------------
ListStep ==
  \/ \E v \in Data : \/ dlist_prepend(v) \/ dlist_append(v)
                     \/ dlist_get_by_value(v) \/ dlist_remove_value(v)
  \/ \E i \in Index : dlist_get_by_index(i)
  \/ \E v \in Data, i \in Index : dlist_insert(v, i)
  \/ \E dir \in {"ASCENDING", "DESCENDING"} : dlist_quick_sort(dir)
  \/ dlist_pop_head \/ dlist_pop_tail \/ dlist_destroy

IterStep ==
  \E i \in Iter :
    \/ \E pos \in {"ITER_HEAD", "ITER_TAIL"} :
         dlist_get_iterable(i, pos) \/ dlist_set_iter(i, pos)
    \/ \E fetch \in {"NEXT", "PREV"} : iterate(i, fetch)
    \/ iter_get_value(i) \/ dlist_destroy_iter(i)

Next == ListStep \/ IterStep

Spec == Init /\ [][Next]_vars

-----------------------------------------------------------------------------
(***************************************************************************)
(* Correctness.                                                            *)
(***************************************************************************)

\* Every variable holds a value of its C type: a pointer of dl_list.c is NULL
\* or an address, length (a size_t) never wraps below zero, iter_list holds
\* iterators or entries whose iterator was freed.
TypeOK ==
  /\ head \in Node \cup {NULL} /\ tail \in Node \cup {NULL}
  /\ length \in Nat
  /\ next \in [Node -> Node \cup {NULL}]
  /\ prev \in [Node -> Node \cup {NULL}]
  /\ data \in [Node -> Data \cup {NULL}]
  /\ alloc \in SUBSET Node
  /\ chain \in Seq(Node)
  /\ iter_list \in Seq(Iter \cup {Dangling})
  /\ open \in SUBSET Iter
  /\ node \in [Iter -> Node \cup {NULL, Dangling}]
  /\ index \in [Iter -> Int]
  /\ status \in {"running", "destroyed"} \cup Crashes
  /\ ret \in Data \cup {NULL, DLIST_SUCC, DLIST_FAIL}

EndsLinked ==
  /\ head = IF Len(chain) = 0 THEN NULL ELSE chain[1]
  /\ tail = IF Len(chain) = 0 THEN NULL ELSE chain[Len(chain)]

NextLinked ==
  \A k \in 1..Len(chain) :
    next[chain[k]] = IF k = Len(chain) THEN NULL ELSE chain[k + 1]

PrevLinked ==
  \A k \in 1..Len(chain) : prev[chain[k]] = IF k = 1 THEN NULL ELSE chain[k - 1]

NodesLive ==
  /\ \A k \in 1..Len(chain) : chain[k] \in alloc /\ ValueAt(k) \in Data
  /\ \A a, b \in 1..Len(chain) : chain[a] = chain[b] => a = b

\* add_node and remove_node keep one well-formed list: following next from head
\* and prev from tail meets the same `length' distinct nodes, none of them freed,
\* with NULL at both ends.
Linked ==
  length = Len(chain) /\ EndsLinked /\ NextLinked /\ PrevLinked /\ NodesLive

\* An iterator that does not dangle stands on a node of the list or past its end:
\* no call parks it on freed, leaked or detached memory.
IterAttached == \A i \in Iter : node[i] \in Node => node[i] \in Linked_nodes

\* dlist_get_iterable and dlist_destroy_iter keep iter_list in step with the
\* iterators the client holds: each is registered exactly once, and nothing else
\* but stale entries is.
RegisteredOnce ==
  /\ status # "destroyed" => Registered \ {Dangling} = open
  /\ \A a, b \in 1..Len(iter_list) :
       iter_list[a] = iter_list[b] /\ iter_list[a] # Dangling => a = b

\* The index an iterator reports is the position of the node it stands on.
InSync(i) ==
  /\ index[i] \in 0..(Len(chain) - 1)
  /\ node[i] = chain[index[i] + 1]

DistinctValues ==
  \A a, b \in 1..Len(chain) : ValueAt(a) = ValueAt(b) => a = b

\* dl_list.c:270-319.  What removal by value does to an iterator whose index is
\* correct, in any list, duplicates included.  On another node it stays.  On the
\* head it goes to the next node and stays correct; on a node with the value of the
\* tail it goes to the previous one, one short in its index.  With the value of both
\* ends it is moved off and back again, so that, like one on a node in between, it
\* is left on freed memory, unless the list had no other node.
RemovalMovesIters ==
  [][\A v \in Data, i \in open : \A k \in 1..Len(chain) :
       LET there == node[i] = chain[k]
           atHead == v = ValueAt(1)
           atTail == v = ValueAt(Len(chain)) IN
       FirstAt(v, k) /\ InSync(i) /\ dlist_remove_value(v) /\ status' = "running" =>
         /\ ~there => node'[i] = node[i] /\ index'[i] = index[i]
         /\ there /\ atHead /\ ~atTail => node'[i] = chain[2] /\ InSync(i)'
         /\ there /\ atTail /\ ~atHead => node'[i] = chain[k - 1] /\ index'[i] = k - 3
         /\ there /\ atHead /\ atTail =>
              node'[i] = IF length = 1 THEN NULL ELSE Dangling
         /\ there /\ ~atHead /\ ~atTail => node'[i] = Dangling]_vars

\* What the comment of dlist_remove_value (dl_list.c:270-282) says of every iterator
\* "pointing at" the head or the tail, whatever its index, here for a list without
\* duplicates: it is moved off the node, and not left on freed memory.
RemovedEndKeepsAnyIter ==
  [][\A v \in Data, i \in open :
       /\ dlist_remove_value(v) /\ status' = "running"
       /\ DistinctValues /\ node[i] \in {head, tail}
       => node'[i] # Dangling]_vars

\* The first node added to an empty list revives every iterator the client
\* holds, those that dangle or ran off an end included (dl_list.c:727-742).
FirstNodeRevivesIters ==
  [][length = 0 /\ length' > 0
       => \A i \in open : node'[i] = head' /\ index'[i] = 0]_vars

\* Iterating with a correct index reads the neighbour's value and keeps the index
\* correct, until the iterator steps off the list and reads NULL.
TraversalInOrder ==
  [][\A i \in open, fetch \in {"NEXT", "PREV"} :
       iterate(i, fetch) /\ InSync(i) =>
         LET k == index[i] + 1 + (IF fetch = "NEXT" THEN 1 ELSE -1) IN
         IF k \in 1..Len(chain)
         THEN InSync(i)' /\ index'[i] = k - 1 /\ ret' = ValueAt(k)
         ELSE node'[i] = NULL /\ ret' = NULL]_vars

\* dl_iter.c:308-336 and dl_list.c:180-187, 745-767.  An index counts from the head,
\* a negative one from the tail with -1 for the tail.  A lookup returns the item
\* there, or NULL.  An insertion puts its item there, in front of the one the index
\* named; an index that names no item inserts nothing, except into an empty list,
\* which takes any index; and the index of the head, of either sign, ends the process.
IndexesFromEitherEnd ==
  [][\A i \in Index, v \in Data :
       LET within == i \in -length..(length - 1)
           at == (i % length) + 1 IN
       /\ dlist_get_by_index(i) => ret' = IF within THEN items[at] ELSE NULL
       /\ dlist_insert(v, i) =>
            /\ length = 0 /\ Dangling \notin Registered =>
                 items' = <<v>> /\ ret' = DLIST_SUCC
            /\ within /\ at = 1 => status' = "null_dereference"
            /\ within /\ at > 1 => items' = InsertAt(items, at, v) /\ ret' = DLIST_SUCC
            /\ length > 0 /\ ~within => items' = items /\ ret' = DLIST_FAIL]_vars

\* dl_list.c:168-179.  A node can be inserted at every index that names a node, the
\* head's (0, and the negated length) included, and the call reports success.
InsertsAtEveryIndex ==
  [][\A i \in Index, v \in Data :
       length > 0 /\ i \in -length..(length - 1) /\ dlist_insert(v, i)
         => status' = "running" /\ ret' = DLIST_SUCC]_vars

\* Memory is lost only by an insertion that fails: every other call frees the
\* nodes it unlinks.
OnlyFailedInsertLeaks ==
  [][(alloc' \ Linked_nodes') \subseteq (alloc \ Linked_nodes)
       \/ ret' = DLIST_FAIL]_vars

\* The pointer-level list is the sequence of AbsList to its caller: every call
\* changes it and answers as there, and dies where and only where it may die there.
Abs == INSTANCE AbsList WITH items <- items, stale <- Dangling \in Registered
ImplementsAbsList == Abs!Spec
=============================================================================
