----------------------------- MODULE DListSort ------------------------------
(***************************************************************************)
(* dlist_quick_sort of dlist_adt (dl_list.c), one round of its loop and    *)
(* one call of its recursion at a time.  The sort moves data pointers      *)
(* between nodes that stay where they are, so a node is its position in    *)
(* the list, from 1, which DList shows next and prev to follow; NULL is 0. *)
(* DList takes the whole sort in one step: this module is that step.       *)
(***************************************************************************)
EXTENDS Integers, Sequences

CONSTANTS
  Payload,                \* what the nodes point to
  Rank,                   \* what compare_func sees of a payload
  MaxLength               \* bound: nodes in the list

ASSUME DListSortAssumption == Rank \in [Payload -> Int] /\ MaxLength \in Nat

VARIABLES
  length, data,           \* the list: dlist_t.length, and dnode_t.data by node
  direction,              \* quick_sort_t
  calls,                  \* the calls of quick_sort still to make, next one first
  left, right,            \* arguments of the partition in progress
  index, partition_node,  \* its variables; its pivot is right
  pc,                     \* "quick_sort" between partitions, "partition", "returned"
  input,                  \* history: data as the client handed it over
  origin                  \* history: the node each payload came from

call == <<calls, left, right, index, partition_node, pc>>
vars == <<length, data, direction, call, input, origin>>

NULL == 0
prev(n) == n - 1                                  \* NULL for the head
next(n) == IF n = length THEN NULL ELSE n + 1

compare_func(p, q) ==
  IF Rank[p] < Rank[q] THEN "DLIST_LT"
  ELSE IF Rank[p] > Rank[q] THEN "DLIST_GT" ELSE "DLIST_EQ"

\* A plausible slip, and what the comment above the function says: the
\* directions exchanged.
do_swap(i, j) ==
  IF direction = "DESCENDING" THEN compare_func(data[i], data[j]) # "DLIST_LT"
                              ELSE compare_func(data[i], data[j]) # "DLIST_GT"

Swapped(f, i, j) == [f EXCEPT ![i] = f[j], ![j] = f[i]]

\* A plausible slip: the first payload is overwritten.
swap_dnodesLoses(i, j) ==
  /\ data' = [data EXCEPT ![i] = data[j]]
  /\ origin' = [origin EXCEPT ![i] = origin[j]]

swap_dnodes(i, j) == data' = Swapped(data, i, j) /\ origin' = Swapped(origin, i, j)

-----------------------------------------------------------------------------
\* dlist_quick_sort returns at once if there is nothing to sort.
Init ==
  /\ length \in 0..MaxLength
  /\ data \in [1..length -> Payload]
  /\ direction \in {"ASCENDING", "DESCENDING"}
  /\ calls = IF length < 2 THEN <<>> ELSE <<[left |-> 1, right |-> length]>>
  /\ left = NULL /\ right = NULL /\ index = NULL /\ partition_node = NULL
  /\ pc = "quick_sort"
  /\ input = data /\ origin = [k \in 1..length |-> k]

\* The guard of quick_sort.  The ranges it is called for may be empty: right is
\* then NULL or the node before left, and left NULL if that is the tail.
worth_sorting(l, r) == r # NULL /\ l # r /\ l # next(r)

quick_sort ==
  /\ pc = "quick_sort" /\ calls # <<>>
  /\ calls' = Tail(calls)
  /\ LET l == Head(calls).left
         r == Head(calls).right
     IN  \/ /\ worth_sorting(l, r)
            /\ pc' = "partition" /\ left' = l /\ right' = r
            /\ index' = l /\ partition_node' = prev(l)
         \/ /\ ~worth_sorting(l, r)
            /\ UNCHANGED <<pc, left, right, index, partition_node>>
  /\ UNCHANGED <<length, data, direction, input, origin>>

\* partition_node, which starts before the range, moves on one node.
Advanced == IF partition_node = NULL THEN left ELSE next(partition_node)

\* A plausible slip: index moves on only past a payload that was swapped.
partitionStays ==
  /\ pc = "partition" /\ index # right
  /\ \/ /\ do_swap(index, right)
        /\ partition_node' = Advanced /\ index' = next(index)
        /\ swap_dnodes(Advanced, index)
     \/ /\ ~do_swap(index, right)
        /\ UNCHANGED <<partition_node, index, data, origin>>
  /\ UNCHANGED <<length, direction, calls, left, right, pc, input>>

\* One round of the loop of partition.
partition ==
  /\ pc = "partition" /\ index # right
  /\ \/ /\ do_swap(index, right)
        /\ partition_node' = Advanced
        /\ swap_dnodes(Advanced, index)
     \/ /\ ~do_swap(index, right)
        /\ UNCHANGED <<partition_node, data, origin>>
  /\ index' = next(index)
  /\ UNCHANGED <<length, direction, calls, left, right, pc, input>>

\* A plausible slip: the nodes after the pivot are forgotten.
HalvesBefore(p) == <<[left |-> left, right |-> prev(p)]>>

\* quick_sort calls itself on either side of the pivot's place p.
Halves(p) == <<[left |-> left, right |-> prev(p)], [left |-> next(p), right |-> right]>>

\* The pivot takes its place.
partition_end ==
  /\ pc = "partition" /\ index = right
  /\ swap_dnodes(Advanced, right)
  /\ calls' = Halves(Advanced) \o calls
  /\ pc' = "quick_sort"
  /\ left' = NULL /\ right' = NULL /\ index' = NULL /\ partition_node' = NULL
  /\ UNCHANGED <<length, direction, input>>

\* The last call has returned.
return ==
  /\ pc = "quick_sort" /\ calls = <<>>
  /\ pc' = "returned"
  /\ UNCHANGED <<length, data, direction, calls, left, right, index, partition_node,
                 input, origin>>

Next == quick_sort \/ partition \/ partition_end \/ return

Spec == Init /\ [][Next]_vars

\* The sort is one call: once begun it goes on.
FairSpec == Spec /\ WF_vars(Next)

-----------------------------------------------------------------------------
InOrder(p, q) ==
  IF direction = "ASCENDING" THEN Rank[p] <= Rank[q] ELSE Rank[p] >= Rank[q]

\* The nodes a call of quick_sort may still rearrange.
Reach(c) == IF c.left = NULL THEN {} ELSE c.left..c.right
Pending(k) == Reach(calls[k])
Current == IF pc = "partition" THEN left..right ELSE {}

\* Pointers stay in the list, a call is made for a range that may be empty, and each
\* partition has one of two nodes or more.
SortTypeOK ==
  /\ length \in Nat /\ data \in [1..length -> Payload]
  /\ direction \in {"ASCENDING", "DESCENDING"}
  /\ pc \in {"quick_sort", "partition", "returned"}
  /\ calls \in Seq([left : 0..length, right : 0..length])
  /\ \A k \in DOMAIN calls : /\ calls[k].left <= calls[k].right + 1
                             /\ calls[k].left = NULL => calls[k].right = length
  /\ pc # "partition" => <<left, right, index, partition_node>> = <<NULL, NULL, NULL, NULL>>
  /\ pc = "partition" =>
       /\ left \in 1..length /\ right \in 1..length /\ left < right
       /\ index \in left..right /\ partition_node \in prev(left)..(index - 1)

\* No two calls still to be made, nor one of them and the partition in progress,
\* reach the same node: partitioning one range disturbs no other.
Disjoint ==
  /\ \A a, b \in DOMAIN calls : a # b => Pending(a) \cap Pending(b) = {}
  /\ \A a \in DOMAIN calls : Pending(a) \cap Current = {}

\* Two payloads out of order always lie in one range that is still to be sorted,
\* so when no range is left none are (dl_list.c:825-874).
Separated ==
  \A i, j \in 1..length :
    i < j => \/ InOrder(data[i], data[j])
             \/ {i, j} \subseteq Current
             \/ \E k \in DOMAIN calls : {i, j} \subseteq Pending(k)

\* In the range of a partition, payloads that go before the pivot come first, then
\* those that do not, then those not looked at yet.
PartitionSplits ==
  pc = "partition" =>
    /\ \A i \in left..partition_node : InOrder(data[i], data[right])
    /\ \A i \in (partition_node + 1)..(index - 1) : InOrder(data[right], data[i])

\* No payload is lost or doubled at any moment: each came from a node of its own.
Permuted ==
  /\ origin \in [1..length -> 1..length] /\ input \in [1..length -> Payload]
  /\ data = [k \in 1..length |-> input[origin[k]]]
  /\ \A i, j \in 1..length : origin[i] = origin[j] => i = j
  /\ \A i \in 1..length : \E k \in 1..length : origin[k] = i

\* The five together: what holds at every moment of a sort, and stays true of it.
SortInv == SortTypeOK /\ Disjoint /\ Separated /\ PartitionSplits /\ Permuted

\* dlist_quick_sort leaves the client its own payloads in the order asked for,
\* which is the step DList takes (dl_list.c:375-399).
Abs == INSTANCE AbsSort WITH
         array <- IF pc = "returned" THEN data ELSE input,
         order <- IF direction = "ASCENDING" THEN "LOWEST_FIRST" ELSE "HIGHEST_FIRST",
         ended <- pc = "returned"
ImplementsAbsSort == Abs!Spec

\* Every sort ends, on lists in order, in reverse order and with equal payloads.
SortEnds == <>(pc = "returned")
=============================================================================
