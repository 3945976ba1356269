# A TLA+ model of c_abstract_data_types

The repository is a C library of data structures built on one another: a
doubly linked list with iterators, a queue and a circular list on top of it, an
array stack, an array heap, an AVL tree, a map on top of that, and an example
program that intersects the words of files. This directory models them in TLA+,
checks the models with TLC on small instances, and proves theorems about them
with TLAPS for every value of the constants.

Nothing in the library runs concurrently. What makes it hard is that

- long sequences of legal calls meet state left behind by earlier ones: stale
  iterator indexes, freed iterators that stay registered, slots of an array
  that `realloc` left uninitialised, space kept after a dump;
- one call is made of several calls of another component and can die, or be
  half done, in between;
- positions are given from both ends, sometimes unsigned and sometimes cast to
  `int`, and capacities double and halve at exact equality.

So the interesting questions are about reachable states, and about what each
call returns after any history. That is what the properties say.

## Inventory

| component | source | state | operations | modelled in |
|---|---|---|---|---|
| doubly linked list | `src/src/dlist_adt/src/dl_list.c` | `head`, `tail`, `length`, nodes, `iter_list` | prepend, append, insert at an index, get by value or index, pop at either end, remove by value, quick sort, destroy | `DList`, `DListSort` |
| list iterators | `src/src/dlist_adt/src/dl_iter.c` | node and index of each iterator | create at either end, destroy, next, prev, reset, value | `DList` |
| queue | `src/src/queue_dlist/src/dl_queue.c` | a list and a limit | enqueue, dequeue, get by value or index, remove, destroy | `Queue` |
| circular list | `src/src/circular_list_dlist/src/circular_list.c` | a list and a cursor | insert, value, next, find, remove, sort, destroy | `CList` |
| stack | `src/src/stack_adt/src/stack.c` | array, length, size | push, pop, peek, peek at a depth, dump, destroy | `Stack` |
| heap | `src/src/heap_adt/src/heap.c` | array, length, size, mode, order | insert, pop, in_heap, dump, destroy; sort and find-nth over a caller's array | `Heap`, `HeapSort` |
| AVL tree | `src/src/avl_bst_adt/src/bst.c` | nodes with heights, one static result | insert, remove, get, traversals, destroy | `AVLNode`, `AVLTree` |
| tree map | `src/src/treemap_avl_bst/src/tree_map_avl.c` | a tree and a count | put, get, contains, remove, recurse, destroy | `TreeMap` |
| file intersect | `src/src/treemap_avl_bst/example_file_intersect/src` | a map of words and their spellings, the reader's positions, the list of removals | parse the arguments, read each file, reduce, print | `FileParser`, `Intersect` |
| hash table | `src/src/hashtable_dlist` | none: an empty stub | | not modelled |
| build scripts | | | | not modelled: not the program |

**How they interact.** Queue and circular list own a list and reach it only
through its public calls; the circular list also owns one iterator of it for as
long as it lives. A list knows its iterators: `iter_list`, itself a list,
registers each, and `add_node` and `dlist_remove_value` walk it to fix them up.
Looking up an index makes a temporary iterator of the list, and frees it without
unregistering it. Stack and heap stand alone, with callbacks that compare or
destroy payloads. The map calls the tree, the example calls the map.

**What makes each correct.** The list is one well-formed chain and behaves as a
sequence, whatever its iterators do. Iterators stand on live nodes or on none.
A queue is first-in first-out and never above its limit. A circular list
rotates through its items. A stack is last-in first-out across resizing. A heap
hands its payloads back best first. Each frees a payload once. Either sort returns
what it was given, in order. The tree stays ordered and balanced; the map counts its keys. The
example prints the words its files have in common.

`PROJECT.json` lists the hazards of this code line by line, with the properties
that would catch each of them going wrong.

## How the code is modelled

**Memory and death.** The build is a debug build: assertions are active and every
binary runs under AddressSanitizer and UBSan without recovery
(`src/BuildUtils.cmake`). A failed `assert`, a NULL dereference, a use after free
or an access past a heap block therefore ends the process. The models record this
as a state of its own (`status` in `DList`, `pc` in `Heap`), with no further step.
The abstract specifications of list, ring and heap have it too (`status`, `dead`), so the
refinements say in which calls the process may die, and that it dies in no other.
Memory that was never written is a value of its own (`Garbage`), and reading it
where the code would use it is a nondeterministic choice. Allocation
failure ends in `abort()` or in a NULL handle; it is not modelled.

**`DList`** keeps `head`, `tail`, `next`, `prev`, `data` and `length` as the code
does, over a pool `Node` of addresses that `free` gives back. Iterators are
addresses in `Iter` with a `node` and an `index`; freeing a node makes every
iterator on it `Dangling`. `iter_list` is a sequence of iterators and of
`Dangling` entries, which is what a lookup by index leaves in it. One action is
one public call, with everything the call does; the four cases of `add_node`
(`LinkHead`, `LinkTail`, `LinkBefore`, `AddFirst`) and `remove_node` (`Unlink`) are
shared by the calls as they are in the code. The loops of `iter_search`, which
change nothing but a temporary, are given by the position they find. The history
variable `chain` is the nodes from head to tail; `Linked` states that
`head`, `tail`, `next`, `prev` and `length` agree with it, so an assignment that goes
wrong shows there. `dlist_quick_sort` is one step that permutes the values in the
nodes into order (`swap_dnodes` moves values, not nodes).

**`DListSort`** is that step in detail. A node is its position, since the sort leaves `next` and `prev`
alone and `DList` shows that they follow the positions; NULL is 0. Each round of the loop of `partition` is a
step, and so is each call of `quick_sort`: the calls still to make are a stack (`calls`), in the order the
recursion makes them. The ranges it is called for may be empty, with NULL or a node outside the range as an
end, as in the code. `origin` is a history variable: the node each payload came from.

**`ListClient`** is what queue and circular list have in common: a call of theirs runs calls of a list
and has a result of its own, which the death of the process in one of those calls leaves untouched.

**`Queue`** extends it: an action is a call of the queue, that is its test and one
call of the list. `AsInt` is the cast of a `size_t` to `int` modulo `2 * IntHalf`;
`IntHalf` is 2^31 in the code and 8 in the run. That a queue's limit fits an `int` is assumed
(`QueueAssumption`); that an index does is not, and `FetchesByIndex` says what every one fetches: from
the middle of the cast's range on it counts from the tail, and beyond the range it wraps. The history variable `indexed`
remembers whether `queue_get_by_index` was ever called.

**`CList`** extends `ListClient` with one iterator, the cursor. `clist_insert` of a first
item and `clist_destroy` make two calls of the list each; they are two steps, and
`pc` says which comes next. `clist_destroy` asked to free without a
`free_func` ends in `pc = "lost"`: the cursor is gone and the list is not.

**`Stack`** and **`Heap`** keep the array as a function on `0..size-1`. `stack_dump` is one
step per round. In `Heap` each round of `bubble_up` and `bubble_down` is a step
(`pc` and `at` are the loop's place and index), because the properties speak of the
heap in between. Both data modes (`HEAP_PTR`, `HEAP_MEM`) and both orders
are initial states, as is whether a destroy callback was given and whether
`node_size` is above `sizeof(size_t)`, the size of the block `heap_pop` copies into.
Payloads have an identity and a rank; payloads of equal rank are the case
that the loops must survive.

**`HeapSort`** extends `Heap` with `heap_sort` and `heap_find_nth_item`. Both make a heap of their own, so a heap is
driven either by a client or by one of them (`api`), and their steps are the calls of `Heap` with the
loop's index and the caller's array around them. Both are without a destroy callback.

**`AVLNode`, `AVLTree`** keep the tree as a value: a node holds its cached height, its payload
and its children, so that writing through a child pointer is building the parent anew (no
node has two parents). NULL is any value that has no field `height`; the runs take `<<>>`. Each static function of
`bst.c` is an operator of the same name. `AVLNode` holds those that do not recurse: heights, balance
factors, rotations. Those that recurse in the code are recursive functions in `AVLTree`, and so need a domain: `Tree`, the
trees of no more levels than there are payloads, of which there are finitely many. A tree that held a payload
twice could be higher, so that `root \in Tree` is a claim of `TreeTypeOK` and not an assumption. `bst_insert` is one step: a callback for
it either accepts or refuses a new payload, and may have made an insertion of its own into
another tree (`clobbered`), which leaves `global_result` at 0. `global_result` is 0 between calls, so it is
an operator and not a variable. The client is assumed to keep to what the frees imply: it inserts no
payload that is in the tree already or was freed, and no callback changes the tree it is called from. A
traversal's callback asks to stop at one payload, or at none.

**`TreeMap`** extends `AVLTree`: a call of the map is a call of the tree with the fixed
replace and free rules, and the count. `api` says whether the client has the bare tree or a
map on it, so that one state machine has every call of both headers. `ret` has the arguments
of the last call beside its result, so that the refinement compares a call with that very call of `AbsMap`, for its key
and its flags, and `CountFollowsKeys` can tell the calls apart by which the count and the keys come apart.

**`FileParser`** is how the example finds a word: it reads character by character and counts characters, but
hands its counts to `fseek` as bytes. A text is a sequence of characters, each with a number of bytes; `pos` is the
stream's place in bytes, `word_start` and `word_end` are the code's counts, and reading inside a character is
the error `fgetwc` reports. White space of more than one byte is not modelled.

**`Intersect`** extends it: `parse_args` keeps the arguments that name a file, `open` to `reduced` are the loop of
`read_file`, a round of the reading loop and a removal being a step each, and `finish` prints and frees. The
dictionary is a function from keys (the words in upper case, which is what `collation_value` compares) to entries; that a
tree map is such a function is what `TreeMap` shows. What the callback and the tree's static result make of
it together is in `add_new`, `add_again` and `add_match`: the count of the dictionary rises when a word is repeated
and not when it is matched, which is the opposite of what the callback answers. A file may be gone
between `parse_args` and `fopen`; the program then dies (`stage = "died"`). `seen`, the words read from each file, is a history
variable. The example's `bst.c` and `tree_map_avl.c` are copies of the library's that differ in the name of a type.

**Abstract specifications.** `AbsList` (a sequence read and changed by position or
value, and the calls that end the process), `AbsQueue` (bounded, first-in first-out), `AbsRing` (a ring with a current item, and where each removal puts it),
`AbsStack` (last-in first-out with ownership), `AbsHeap` (a bag that yields its best, and the calls that end the process), `AbsSort` (a permutation in order,
in one step, for both sorts) and `AbsMap` (a sorted map with ownership) say what the components promise, with no pointer and no array in sight. Each
detailed module instantiates its own with a refinement mapping, and `ImplementsAbs...` is
checked as a property. Where the code departs from its own comments, the abstract
module follows the code: its header names the comment, and the departure is a disjunct of its own
rather than a case left out. Two variables there are for this: `stale`, whether `iter_list` has an entry of a freed
iterator, which decides where the next walk over it dies, and in `AbsRing` `index`, the position the list believes its cursor to have,
which decides what a removal at an end does to the current item.

| module | what it is |
|---|---|
| `AbsList`, `AbsQueue`, `AbsRing`, `AbsStack`, `AbsHeap`, `AbsSort`, `AbsMap` | abstract specifications |
| `DList` | the list and its iterators |
| `DListSort` | its quick sort, in detail |
| `ListClient` | what the next two share, over `DList` |
| `Queue`, `CList` | compose with `DList` through `ListClient` |
| `Stack`, `Heap` | the arrays |
| `HeapSort` | composes with `Heap` |
| `AVLNode`, `AVLTree` | the tree |
| `TreeMap` | composes with `AVLTree` |
| `FileParser` | the example's reader |
| `Intersect` | the example, composes with `FileParser` |
| `MC*` and `*.cfg` | instances for TLC |
| `Lemmas` | lemmas about sequences, indexes and sizes |
| `DListProofs`, `DListSortProofs`, `ListClientProofs`, `StackProofs`, `HeapProofs`, `AVLTreeProofs`, `IntersectProofs` | theorems |

## What the runs check

| run | instance | shows |
|---|---|---|
| `dlist` | 3 nodes, 2 values, 2 iterators, every index from -4 to 3, 2 entries in `iter_list` | the links stay well formed (`Linked`), only a failed insertion leaks (`OnlyFailedInsertLeaks`), indexes count from either end, the head's index included, where an insertion dies (`IndexesFromEitherEnd`); where iterators may stand (`IterAttached`), that they are registered once, where a removal moves each of them, duplicates included (`RemovalMovesIters`), that the first node revives every one, and that stepping visits the items in order; the list implements `AbsList`, deaths included |
| `dlist_insert_head` | 3 nodes, 2 values, the index 0 | finding: an insertion at the index of the head dereferences NULL |
| `dlist_remove_end` | 3 nodes, 3 values | finding: an iterator with a stale index is left on the freed tail |
| `sort` | every list of up to 5 out of 4 payloads, 2 of equal rank, both directions | at most the range of a call changes and its sides stay apart (`SortInv`), the result is a permutation in order (`ImplementsAbsSort`), the sort ends |
| `queue` | 4 nodes, 3 values, limits 0 to 4, an `int` of four bits, indexes 0 to 17 | the limit holds, order survives removal out of turn, a fetch by any index returns the item that the cast to `int` names, from either end, or NULL (`FetchesByIndex`), and the queue can die only after a lookup by index |
| `clist` | 3 nodes, 3 values, indexes at both ends, inside and one too far | the ring: next goes from item to item and from the last to the first; insertions, removals and sorts move the current item exactly as `AbsRing` says, and a call dies only where it does there |
| `stack` | 5 payloads, `BASE_SIZE` 1 | last-in first-out through doubling and halving, every payload destroyed once, a dump empties the stack |
| `heap` | 4 payloads, 2 of equal rank, 5 in the heap, `BASE_SIZE` 1; arrays of up to 4 | the heap order through every round, best first (`PopsBest`), capacity; the heap implements the bag of `AbsHeap` and dies only in the calls named there, such as a pop of wide copies; what `heap_sort` leaves in the array is a permutation in order (`SortsInPlace`), `heap_find_nth_item` finds an n-th and damages the array no further than said (`FindsNth`); every call ends |
| `heap_in_heap` | the same | finding: `heap_in_heap` looks one slot too far |
| `tree` | 5 keys, 6 payloads; a map of 3 keys, 4 payloads | the tree stays ordered and balanced and its cached heights true, is a sorted map that tells the caller what it did, visits in order and frees once (`ImplementsAbsMap`), call by call with the arguments given, and the map's count moves with its keys but for two kinds of call (`CountFollowsKeys`) |
| `tree_stop` | the same | finding: an in-order traversal goes on after it was stopped |
| `intersect` | up to 3 files out of 8 texts, missing ones and ones that are gone | the dictionary is what the files have in common, told as they spell it, with room for the removals and no payload lost, and so is what is printed (`IntersectInv`); the words read are the words of the files (`ReadsWords`); the program ends |

**Why the bounds are enough.** The code tells apart a head, a tail, a middle and an only
node, and the neighbours of those: a list of three has them all, and the queue's list of four has two nodes
that are neither end. Indexes run past both ends. Two values make duplicates in every
arrangement, which is what removal by value gets wrong or right; three tell order
from reversed order. Two iterators are enough for one to be moved and the other not,
and two entries in `iter_list` for a stale entry to stand before or
after a live one; the third kind, a stale entry between two live ones, differs from neither for a walk that stops at the
first it meets, and the proofs have it. An `int` of four bits has indexes that fit, that come back negative and name
an item or none, and that wrap around. `MaxIndex` bounds how far an index may drift from its iterator; a step that
would pass it is not taken. Capacity 1 doubles to 2, 4 and 8 within five payloads, so
every branch of the resizing is taken, with the stack and the heap at each boundary; a heap of five
has three levels, a node with two children, one with one, and leaves. Five keys give a tree of
three levels in every shape: all four rotations on insertion, a removal that leaves one side
two higher with an even root (which needs five nodes), and the removal of a node with two children from
the higher side and from an even one. They do not make a removal that rotates at two
levels, which needs twelve: that is for `RemoveMakes`, which is proved for trees of every size. Lists of five to sort have ranges with a range on either side of the pivot, each of
two nodes, and ranges whose payloads are all equal. The eight texts of `intersect` have a word in both cases, repeated words,
none, white space at either end and doubled, a NUL, a word with a two-byte letter, which is the most the reader
gets right, and one with two such letters, before a word that is then read again or lost. Three files make a
dictionary that is reduced twice. Node and
iterator addresses are interchangeable, so those sets are symmetric; no liveness
property is checked under symmetry. Deadlock is not checked: destruction and the
death of the process are where these systems stop.

**Fairness.** The liveness properties are `DumpEmpties` (a dump returns with the stack empty), `CallsEnd` (an insertion or
removal comes to an end, equal ranks included, and so do the loops of `heap_sort` and `heap_find_nth_item`), `SortEnds` and
`Ends`. In `Stack` and `Heap` weak fairness is assumed of the rounds of a call that has begun, in `DListSort` and `Intersect`, which are one
call and one program, of `Next`: no more than that the single thread goes on executing what it is in. A client's
calls themselves are its to make or not, and get no fairness.

**Mutants.** Definitions such as `CountDownTwice`, `PositionFromHead` or
`get_target_indexLeft` stand before the definition they distort; each is a
plausible slip of the code and makes a property of some run fail. They show that
the properties can tell such code from this.

## Findings

1. *An iterator on the tail is left dangling* (`dl_list.c:303`). `dlist_remove_value` picks
   the iterators to move by index, and an index goes stale with the first insertion
   in front of it. What does hold, and is checked, is `RemovalMovesIters`: an iterator
   whose index is right is moved off an end, unless the value removed is that of both ends, which moves it off and back again; and
   one on a node in between is not moved at all. Off the tail, the index goes down twice (`dl_list.c:317`) and is one short from then on.
   The current item of a circular list is lost for the same reason (`circular_list.c:194`): with the cursor's index out
   of date, removing the head moves a cursor that stands elsewhere off the end of the list; `AbsRing` says exactly where it goes.
2. *An insertion at the index of the head dies* (`dl_list.c:766`). The comment of `dlist_insert` (`dl_list.c:170-174`) has
   indexes run to the head's, 0 or the negated length; the code links the new node behind the parent of the one at
   the index and never asks whether there is one. `clist_insert` passes such an index on (`circular_list.c:97-103`). `IndexesFromEitherEnd` has what
   every other index does.
3. *`heap_in_heap` compares the slot behind the last payload* (`heap.c:347`).
4. *An in-order traversal does not stop when asked* (`bst.c:667`): what the left subtree
   returned is dropped. `AbsMap` has what remains true, that nothing up to the stop is left out.

More that the models show without a run of their own. An empty list takes an item at any index and
reports success, where `dl_list.c:171-172` has an error for an index out of range, and an empty ring likewise against `circular_list.c:101-103`
(`First` in `AbsList` and `AbsRing`). An insertion does not always "maintain the index given" (`dl_list.c:169`): the item goes in front of the one the
index names, so that one inserted at -1 is at -2 afterwards. A lookup or an insertion by index
leaves a pointer to a freed iterator in `iter_list` (`dl_iter.c:239`): the number `dlist_get_active_iters` reports is
wrong, and the next walk over `iter_list` uses freed memory. `OnlyIndexedCrash` shows
how far this goes for a queue: without a lookup by index it cannot die. `clist_get_next` on an empty list
fails an assertion (`circular_list.c:161`, `Wrap` in `CList`) where its comment promises NULL. The size of a map
counts every put that found its key present again (`tree_map_avl.c:68`), leaves out a new key whose callback inserts elsewhere (`bst.c:147`), and can even fall below zero
when a callback for a new key inserts elsewhere and the key is removed again: the tests never ask
for the size, the example makes room for that many results. In the heap,
`is_valid_parent` (`heap.c:637`) joins its conditions with `||` and accepts no parent that
has children, against its comment; the loop of `bubble_down` ends all the same because
`get_target_index` then finds the parent in place, which `ValidParentIsLeaf` and
`TargetIsBest` prove. And `heap_dump` (`heap.c:370`) never gives space back, because its one
test compares half the size with zero: `CapacityFits` makes the exception explicit.
`heap_sort` and `heap_find_nth_item` die in their first `heap_pop` when contents are wider than a `size_t` (`heap.c:414`): `AbsHeap` has that death in `Pop`, and `CallsEnd`
counts it as no end and leaves such contents out. The comment of `do_swap` (`dl_list.c:789`) has the two directions the other way round than the code; the
code sorts as it is asked.

Of the example: a word with two bytes more than it has letters, followed by another, sets the stream back into itself (`file_parser.c:84`), so that
its tail is read as a word or, if a letter is cut, the rest of the file is dropped; `ReadsWords` says for which texts all is
well. Bytes that are no character, or a NUL, end a file and drop the word they stand in. Of two spellings of a word in one
file only the first is kept. `put_key_val_adv` returns the opposite of what the callback answered for every word found
before, and the count goes with it; the list of removals has room all the same (`RoomToReduce`). The note at
`intersect.c:146` asks whether the payload is lost there: it is not (`NoneLost`).

## What is proved

TLAPS proves, for every value of the constants that satisfies the modules' named
assumptions (`DListAssumption`, `DListSortAssumption`, `QueueAssumption`, `CListAssumption`, `StackAssumption`, `HeapAssumption`,
`HeapSortAssumption`, `AVLNodeAssumption`, `AVLTreeAssumption`, `TreeMapAssumption`, `FileParserAssumption`, `IntersectAssumption`:
special values are distinct, sizes are positive, ranks and keys are integers, there are finitely many payloads, white space has one byte),
every safety property that a run expects to hold, and every refinement:

- **List.** `ListStaysLinked`, `TypesHold`, `ItersStayAttached`, `ItersRegisteredOnce`, from the
  inductive invariant `Inv`. None of the four is inductive alone: that an iterator stands on
  a node needs the links to say which nodes are in the list, and a removal
  preserves the links only because the removed node is found in `chain`, at a position whose
  neighbours `NextLinked` and `PrevLinked` name. `InsertShape` and `RemoveShape` do the
  work once for all the calls: what a sequence with one element put in or taken out is at each index.
  `ListImplementsSequence` is the refinement of `AbsList`, call by call, with the same two lemmas giving the abstract sequence.
  `FailedInsertLeaks`, `IndexedFromEitherEnd`, `TraversesInOrder`, `RemovalMoves` and `FirstNodeRevives` are the action properties:
  `IndexedFromEitherEnd` includes the insertions that die or insert nothing, and `RemovalMoves` says of an iterator with a true index
  which node it is on after a removal, and with which index, in a list with duplicates or none.
- **Sort.** `SortInvHolds` and `SortRefines`: `dlist_quick_sort` implements `AbsSort` for lists of every length and any
  ranks. The invariant says of every pair of nodes, the first before the second, that their payloads are in order unless one call
  still to be made, or the partition in progress, reaches both; that the ranges still to be sorted do not meet; and, of a partition
  in progress, what the loop has put on either side of `partition_node`. `origin` being a bijection from the nodes to the nodes is
  what makes the result a permutation. Once no call is left, order is all that the invariant leaves.
- **Queue.** `QueueStaysBounded`, `CrashNeedsIndex`, `QueueTypesHold`. `QueueInv` adds
  `NothingStale` to the list's invariant: before the first lookup by index, and since a queue makes no
  iterators, `iter_list` is empty, so no walk over it can meet a freed entry.
  The test in `queue_enqueue` is an equality; it holds the limit only because the length was
  never above it, which is the induction. `QueueImplementsFifo` maps every call to one of `AbsQueue`, through what the list's call does to `chain`;
  `QueueFetchesByIndex` follows every `size_t` through the cast to `int`, those that come back negative and count from the tail included.
- **Circular list.** `CListTypesHold` and `CListImplementsRing`, from `CListInv`: the list's invariant, that the cursor is
  the one open iterator until `clist_destroy` (`CursorHeld`), and that `clist_insert` comes to its last step with the cursor already on the
  only node (`FirstItemHeld`). The latter is not local to `clist_insert`: it is `add_node` that revives the iterator, because it is registered.
  The refinement is about the calls that die as well: each is one that dies in `AbsRing`.
- **Stack.** `TypesHold`, `CapacityAlwaysFits` and the refinement `ArrayRefinesStack`: every
  step of the array is a step of `AbsStack` or a stutter. The invariant needs to know
  that sizes are `BASE_SIZE` doubled some number of times, so that halving an even size
  and comparing with half of it agree; `Sizes(base)` defines them as the least set with
  `base` closed under doubling, and `SizesHalve` is the induction on it.
- **Heap.** `HeapTypesHold`, `HeapStaysOrdered`, `HeapCapacityFits` and `PopsBestHolds`.
  `HeapOrder` is inductive because of its second part: the children of the payload that
  is under way are in order with its parent, so that when it moves on, it leaves order
  behind. The root is best by a least counterexample (`LeastElement`): the first index
  whose payload beats the root would have a parent before it that beats it too. `RootIsBest` draws on it.
  `HeapImplementsBag` is the refinement of `AbsHeap`: the bag is how often a payload is in the array, a count that an exchange leaves alone; the calls that end the process are among those `AbsHeap` names.
  `SortUsesHeap`: the steps of `heap_sort` and `heap_find_nth_item` are steps of `Heap` or leave it alone, so that all of this is true
  of their heaps as well (`SortPopsBest`). Their own invariant, `SortInvHolds`, has a permutation that says which of the caller's items is at each
  place of the heap's array and, behind its length, was popped from there; those behind are beaten by none before them (`Ranked`). From it
  `HeapSortSorts` (a permutation, in order) and `FindsNthHolds`.
- **Tree.** The recursive functions need an induction over trees, and a proof that they exist, without an operator as parameter. `TreeInduction` is the
  induction over a set: one that has NULL, and every node whose children it has, has every tree. `TreeFunction` gives, for any step from the results for
  the children to that for the node, a function that obeys it; so that each recursive function of `AVLTree` is known to obey its equation.
  `Ordered` and `EvenTrees` are the search trees and the trees in balance, as the largest sets that their conditions allow.
  `BalanceRestored` and `BalanceKeepsOrder` are about one call of `balance_tree`: given subtrees in balance whose
  heights differ by two at most, it returns a tree in balance throughout, as high or one lower, with the payloads in the same order.
  `InsertMakes` and `RemoveMakes` are the inductions that need it: an insertion makes a tree at most one level higher, a removal at most one
  lower, so that the heights of siblings differ by two at most on the way back up; both say exactly what the tree holds afterwards.
  A search tree has no payload twice, hence no more levels than payloads (`OrderedInTree`), so that what `insert_node` returns is in the domain of the next call.
  The inductive invariant `TreeInv`, that `root` is in `Ordered` and in `EvenTrees`, gives `TreeTypesHold`, `TreeSearches` and `TreeBalanced`.
  `TraversalVisits` and `InOrderVisits` say what is visited, stops included, and with them `TreeImplementsMap` is the refinement of `AbsMap` by the
  tree, bare or under the map. `CountFollows`: the count of the map moves with the number of its keys at every call
  but the two kinds that `CountFollowsKeys` names.
- **Intersect.** `IntersectInvHolds`, for any texts and any number of files: while a file is read the dictionary has the keys that the files
  before it have in common, each entry the first spelling of its key in every file that has it, the first file's apart, and the number of the
  last file that has it. `Reading` is what an insertion needs of the invariant and keeps (`PutInv`, one lemma for each of its three outcomes);
  that the entries marked with this file are those its words so far match (`Told`) is what makes the reduction right.
  This is about the words in `seen`; `WordsRead` is that they are the files'. Its invariant `WordsInv` says where the reader stands: at a
  character `k` of a word that began at `i` (`Stands`), `word_start` being the byte `i` starts at and `word_end` above it by the number of characters read since, and the words
  before `i` all read. `OffsetGrows` and `OffsetSpread` are about the recursive function from characters to bytes.
  Together they give `PrintsWhatIsCommon`: what is printed in the end is the intersection of the texts, stated of the texts (`Words`) and not of what was read.

Induction over data with an operator as parameter is out of the provers' reach; the inductions are over sets instead
(`LeastElement`, `Sizes`, `TreeInduction`), which comes to the same for a set that a formula of the model defines.

**Only model-checked.** The liveness properties `DumpEmpties`, `CallsEnd`, `SortEnds` and `Ends`, since TLAPS proves no liveness under fairness here.
The claims of comments and tests that the code does not keep (`InsertsAtEveryIndex`, `RemovedEndKeepsAnyIter`, `InHeapAnswers`, `TraversalStops`) have runs that refute them.

## What is not modelled

Printing, allocation failure, and reading (`heap_is_empty`, `stack_size`, ...) where it is a field access. The
compare callbacks are taken to be what their contract asks: an equality on values, and a total
preorder by rank. The comparison of list values is by the integer order when it sorts.
Stack and heap exclude a client that gives the same pointer twice, since it would be destroyed
twice by contract. Of the example, which options `getopt` accepts, white space of more than one byte, and `fgetws` on words that
do not fit an `int`. The hash table is an empty stub, the build scripts and test harness are not the program.

## Plan

Done, in this order, most important first: the list with its iterators and their proofs; queue
and circular list on top of it; the stack; the heap and its proofs; the tree and the map; the quick sort of the
list and its proofs; `heap_sort` and `heap_find_nth_item`; the example and its proofs; the refinements of every
abstract specification; the tree and the map for every number of payloads. Next:

1. Proofs of termination by a measure that every round lowers, as action properties, where `CallsEnd` and `SortEnds` are checked now: the
   rounds of `bubble_up`, `bubble_down` and `partition` (the step from there to liveness stays with TLC).
2. That the example's dictionary, a function in `Intersect`, may be replaced by `TreeMap`: a refinement through `AbsMap` under the calls
   `put_key_val_adv` and `remove_key_val`.
3. Which of the calls of a list are safe while `iter_list` has stale entries, as a theorem beside `CrashNeedsIndex`.
