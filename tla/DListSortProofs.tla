-------------------------- MODULE DListSortProofs ---------------------------
(***************************************************************************)
(* Proofs about DListSort, for lists of any length and any ranks: the      *)
(* invariant of the partition loop and of the calls still to be made, and  *)
(* that the sort gives the client what AbsSort promises.                   *)
(***************************************************************************)
EXTENDS DListSort, SequenceTheorems, TLAPS

USE DListSortAssumption

-----------------------------------------------------------------------------
(***************************************************************************)
(* The order, and what a swap does.                                        *)
(***************************************************************************)
\* do_swap is the order asked for.
LEMMA DoSwapIsOrder ==
  ASSUME SortTypeOK, NEW i \in 1..length, NEW j \in 1..length
  PROVE  do_swap(i, j) <=> InOrder(data[i], data[j])
<1>1. data[i] \in Payload /\ data[j] \in Payload /\ direction \in {"ASCENDING", "DESCENDING"}
  BY DEF SortTypeOK
<1>2. Rank[data[i]] \in Int /\ Rank[data[j]] \in Int
  BY <1>1
<1> QED  BY <1>1, <1>2 DEF do_swap, compare_func, InOrder

\* The order is total, reflexive and transitive.
LEMMA OrderTotal ==
  ASSUME NEW p \in Payload, NEW q \in Payload
  PROVE  InOrder(p, q) \/ InOrder(q, p)
<1>1. Rank[p] \in Int /\ Rank[q] \in Int
  OBVIOUS
<1> QED  BY <1>1 DEF InOrder

LEMMA OrderTransitive ==
  ASSUME NEW p \in Payload, NEW q \in Payload, NEW r \in Payload,
         InOrder(p, q), InOrder(q, r)
  PROVE  InOrder(p, r)
<1>1. Rank[p] \in Int /\ Rank[q] \in Int /\ Rank[r] \in Int
  OBVIOUS
<1> QED  BY <1>1 DEF InOrder

\* A swap moves each payload together with the node it came from.
LEMMA SwapPermutes ==
  ASSUME SortTypeOK, Permuted, NEW i \in 1..length, NEW j \in 1..length,
         swap_dnodes(i, j), UNCHANGED <<length, input>>
  PROVE  Permuted' /\ data' \in [1..length -> Payload]
<1>1. /\ length \in Nat /\ data \in [1..length -> Payload]
      /\ origin \in [1..length -> 1..length] /\ input \in [1..length -> Payload]
      /\ \A k \in 1..length : data[k] = input[origin[k]]
      /\ \A a, b \in 1..length : origin[a] = origin[b] => a = b
      /\ \A a \in 1..length : \E k \in 1..length : origin[k] = a
  BY DEF SortTypeOK, Permuted
<1> DEFINE from(k) == IF k = i THEN j ELSE IF k = j THEN i ELSE k
<1>2. data' = Swapped(data, i, j) /\ origin' = Swapped(origin, i, j)
  BY DEF swap_dnodes
<1>3. /\ data' \in [1..length -> Payload]
      /\ \A k \in 1..length : data'[k] = data[from(k)]
  BY <1>1, <1>2 DEF Swapped
<1>4. /\ origin' \in [1..length -> 1..length]
      /\ \A k \in 1..length : origin'[k] = origin[from(k)]
  BY <1>1, <1>2 DEF Swapped
<1>5. \A k \in 1..length : from(k) \in 1..length
  OBVIOUS
<1>6. data' = [k \in 1..length |-> input[origin'[k]]]
  <2>1. ASSUME NEW k \in 1..length
        PROVE  data'[k] = input[origin'[k]]
    <3> HIDE DEF from
    <3>1. data'[k] = data[from(k)] /\ origin'[k] = origin[from(k)] /\ from(k) \in 1..length
      BY <1>3, <1>4, <1>5
    <3>2. data[from(k)] = input[origin[from(k)]]
      BY <1>1, <3>1
    <3> QED  BY <3>1, <3>2
  <2> QED  BY <1>3, <2>1
<1>7. ASSUME NEW a \in 1..length, NEW b \in 1..length, origin'[a] = origin'[b]
      PROVE  a = b
  <2>1. from(a) = from(b)
    <3> HIDE DEF from
    <3>1. /\ from(a) \in 1..length /\ from(b) \in 1..length
          /\ origin[from(a)] = origin[from(b)]
      BY <1>4, <1>5, <1>7
    <3> QED  BY <1>1, <3>1
  <2> QED  BY <2>1
<1>8. ASSUME NEW a \in 1..length
      PROVE  \E k \in 1..length : origin'[k] = a
  <2>1. PICK k \in 1..length : origin[k] = a
    BY <1>1
  <2>2. from(from(k)) = k
    OBVIOUS
  <2>3. origin'[from(k)] = a
    <3> HIDE DEF from
    <3> QED  BY <1>4, <1>5, <2>1, <2>2
  <2> QED  BY <1>5, <2>3
<1> QED  BY <1>1, <1>3, <1>4, <1>6, <1>7, <1>8 DEF Permuted

-----------------------------------------------------------------------------
(***************************************************************************)
(* Sequences of calls.                                                     *)
(***************************************************************************)
LEMMA TailElements ==
  ASSUME NEW S, NEW s \in Seq(S), Len(s) > 0
  PROVE  /\ DOMAIN s = 1..Len(s) /\ Len(s) \in Nat
         /\ Tail(s) \in Seq(S) /\ DOMAIN Tail(s) = 1..(Len(s) - 1)
         /\ \A k \in 1..(Len(s) - 1) : Tail(s)[k] = s[k + 1]
         /\ s[1] = Head(s) /\ s[1] \in S
<1>1. Tail(s) \in Seq(S) /\ Len(Tail(s)) = Len(s) - 1 /\ Len(s) \in Nat
  OBVIOUS
<1>2. \A k \in 1..(Len(s) - 1) : Tail(s)[k] = s[k + 1]
  OBVIOUS
<1> QED  BY <1>1, <1>2

LEMMA PairBeforeElements ==
  ASSUME NEW S, NEW s \in Seq(S), NEW a \in S, NEW b \in S
  PROVE  /\ <<a, b>> \o s \in Seq(S) /\ DOMAIN (<<a, b>> \o s) = 1..(Len(s) + 2)
         /\ (<<a, b>> \o s)[1] = a /\ (<<a, b>> \o s)[2] = b
         /\ \A k \in 1..Len(s) : (<<a, b>> \o s)[k + 2] = s[k]
<1> DEFINE t == <<a, b>>
           u == t \o s
<1>1. t \in Seq(S) /\ Len(t) = 2 /\ t[1] = a /\ t[2] = b /\ Len(s) \in Nat
  OBVIOUS
<1> HIDE DEF t
<1>2. /\ u \in Seq(S) /\ Len(u) = Len(t) + Len(s)
      /\ \A k \in 1..(Len(t) + Len(s)) : u[k] = IF k <= Len(t) THEN t[k] ELSE s[k - Len(t)]
  BY <1>1, ConcatProperties
<1> HIDE DEF u
<1>3. ASSUME NEW k \in 1..Len(s)
      PROVE  u[k + 2] = s[k]
  BY <1>1, <1>2
<1>4. u[1] = a /\ u[2] = b /\ DOMAIN u = 1..(Len(s) + 2)
  BY <1>1, <1>2
<1> QED  BY <1>2, <1>3, <1>4 DEF t, u

-----------------------------------------------------------------------------
(***************************************************************************)
(* Ranges.                                                                 *)
(***************************************************************************)
\* The node partition_node moves on to is the next one, the first of the range too.
LEMMA AdvancedIsNext ==
  ASSUME SortTypeOK, pc = "partition"
  PROVE  Advanced = partition_node + 1 /\ Advanced \in left..index
<1>1. /\ length \in Nat /\ left \in 1..length /\ right \in 1..length /\ left < right
      /\ index \in left..right /\ partition_node \in (left - 1)..(index - 1)
  BY DEF SortTypeOK, prev
<1> QED  BY <1>1 DEF Advanced, next, NULL

\* What quick_sort is called for has a pair of nodes exactly if it is worth sorting.
LEMMA WorthSorting ==
  ASSUME length \in Nat, NEW c \in [left : 0..length, right : 0..length],
         c.left <= c.right + 1, c.left = NULL => c.right = length
  PROVE  /\ worth_sorting(c.left, c.right) =>
              c.left \in 1..length /\ c.right \in 1..length /\ c.left < c.right
         /\ ~worth_sorting(c.left, c.right) => \A i, j \in Reach(c) : i = j
<1>1. c.left \in 0..length /\ c.right \in 0..length
  OBVIOUS
<1> QED  BY <1>1 DEF worth_sorting, next, NULL, Reach

\* Two payloads out of order with a node outside the range of the partition in
\* progress share a range that is still to be sorted, wherever the partition moves them.
LEMMA OutsideStays ==
  ASSUME SortInv, pc = "partition", NEW i \in Current, NEW j \in Current,
         UNCHANGED <<length, direction>>,
         data' \in [1..length -> Payload],
         \A k \in 1..length : data'[k] = IF k = i THEN data[j]
                                         ELSE IF k = j THEN data[i] ELSE data[k],
         NEW a \in 1..length, NEW b \in 1..length, a < b, ~({a, b} \subseteq Current)
  PROVE  InOrder(data'[a], data'[b]) \/ \E k \in DOMAIN calls : {a, b} \subseteq Pending(k)
<1>1. /\ length \in Nat /\ data \in [1..length -> Payload]
      /\ left \in 1..length /\ right \in 1..length /\ left < right /\ Current = left..right
  BY DEF SortInv, SortTypeOK, Current
<1>2. ASSUME NEW x \in 1..length, NEW y \in 1..length, x < y
      PROVE  \/ InOrder(data[x], data[y]) \/ {x, y} \subseteq Current
             \/ \E k \in DOMAIN calls : {x, y} \subseteq Pending(k)
  BY <1>2 DEF SortInv, Separated
<1>3. ASSUME NEW k \in DOMAIN calls, NEW x \in Current
      PROVE  x \notin Pending(k)
  BY DEF SortInv, Disjoint
<1>4. CASE a \notin Current /\ b \notin Current
  <2>1. data'[a] = data[a] /\ data'[b] = data[b]
    BY <1>4
  <2> QED  BY <1>2, <1>4, <2>1
<1>5. CASE a \in Current /\ b \notin Current
  <2>1. PICK x \in Current : data'[a] = data[x]
    BY <1>5
  <2>2. x \in 1..length /\ x < b
    BY <1>1, <1>5, <2>1
  <2>3. data'[b] = data[b]
    BY <1>5
  <2>4. InOrder(data[x], data[b])
    BY <1>2, <1>3, <1>5, <2>2
  <2> QED  BY <2>1, <2>3, <2>4
<1>6. CASE a \notin Current /\ b \in Current
  <2>1. PICK x \in Current : data'[b] = data[x]
    BY <1>6
  <2>2. x \in 1..length /\ a < x
    BY <1>1, <1>6, <2>1
  <2>3. data'[a] = data[a]
    BY <1>6
  <2>4. InOrder(data[a], data[x])
    BY <1>2, <1>3, <1>6, <2>2
  <2> QED  BY <2>1, <2>3, <2>4
<1> QED  BY <1>4, <1>5, <1>6

-----------------------------------------------------------------------------
(***************************************************************************)
(* The invariant.                                                          *)
(***************************************************************************)
\* A sort starts with every pair of nodes in the range of its first call.
LEMMA InitInv == Init => SortInv
<1> SUFFICES ASSUME Init PROVE SortInv
  OBVIOUS
<1>1. length \in Nat /\ data \in [1..length -> Payload] /\ pc = "quick_sort" /\ Current = {}
  BY DEF Init, Current
<1>2. CASE length < 2
  <2>1. calls = <<>>
    BY <1>2 DEF Init
  <2>2. SortTypeOK /\ Disjoint /\ PartitionSplits
    BY <1>1, <2>1 DEF Init, SortTypeOK, Disjoint, PartitionSplits, NULL
  <2>3. Separated
    BY <1>1, <1>2 DEF Separated
  <2>4. Permuted
    BY <1>1 DEF Init, Permuted
  <2> QED  BY <2>2, <2>3, <2>4 DEF SortInv
<1>3. CASE ~(length < 2)
  <2>1. calls = <<[left |-> 1, right |-> length]>>
    BY <1>3 DEF Init
  <2>2. Len(calls) = 1 /\ DOMAIN calls = {1} /\ calls[1] = [left |-> 1, right |-> length]
    BY <2>1
  <2>3. [left |-> 1, right |-> length] \in [left : 0..length, right : 0..length]
    BY <1>1, <1>3
  <2>4. calls \in Seq([left : 0..length, right : 0..length])
    BY <2>1, <2>3
  <2>5. SortTypeOK
    BY <1>1, <1>3, <2>2, <2>4 DEF Init, SortTypeOK, NULL
  <2>6. Disjoint /\ PartitionSplits
    BY <1>1, <2>2 DEF Disjoint, PartitionSplits
  <2>7. Separated
    <3>1. Pending(1) = 1..length
      BY <2>2 DEF Pending, Reach, NULL
    <3> QED  BY <2>2, <3>1 DEF Separated
  <2>8. Permuted
    BY <1>1 DEF Init, Permuted
  <2> QED  BY <2>5, <2>6, <2>7, <2>8 DEF SortInv
<1> QED  BY <1>2, <1>3

\* A call that is worth it begins a partition of its range, with nothing looked at; one
\* that is not had no pair of nodes to put in order.
LEMMA QuickSortInv == SortInv /\ quick_sort => SortInv'
<1> SUFFICES ASSUME SortInv, quick_sort PROVE SortInv'
  OBVIOUS
<1> USE DEF NULL
<1>1. SortTypeOK /\ Disjoint /\ Separated /\ PartitionSplits /\ Permuted
  BY DEF SortInv
<1> DEFINE R == [left : 0..length, right : 0..length]
           c == calls[1]
<1>2. /\ length \in Nat /\ calls \in Seq(R) /\ Len(calls) > 0
      /\ calls' = Tail(calls)
      /\ UNCHANGED <<length, data, direction, input, origin>> /\ Current = {}
  BY <1>1 DEF SortTypeOK, quick_sort, Current
<1>3. /\ DOMAIN calls = 1..Len(calls) /\ DOMAIN calls' = 1..(Len(calls) - 1)
      /\ c = Head(calls) /\ c \in R /\ 1 \in DOMAIN calls
      /\ calls' \in Seq(R) /\ \A k \in DOMAIN calls' : k + 1 \in DOMAIN calls /\ calls'[k] = calls[k + 1]
  <2> HIDE DEF R
  <2>1. /\ Tail(calls) \in Seq(R) /\ DOMAIN calls = 1..Len(calls) /\ Len(calls) \in Nat
        /\ DOMAIN Tail(calls) = 1..(Len(calls) - 1)
        /\ \A k \in 1..(Len(calls) - 1) : Tail(calls)[k] = calls[k + 1]
        /\ c = Head(calls) /\ c \in R
    BY <1>2, TailElements
  <2> QED  BY <1>2, <2>1
<1>4. c.left <= c.right + 1 /\ (c.left = 0 => c.right = length)
  BY <1>1, <1>3 DEF SortTypeOK
<1>5. /\ worth_sorting(c.left, c.right) =>
             c.left \in 1..length /\ c.right \in 1..length /\ c.left < c.right
      /\ ~worth_sorting(c.left, c.right) => \A i, j \in Reach(c) : i = j
  <2> HIDE DEF c
  <2> QED  BY <1>2, <1>3, <1>4, WorthSorting
<1>6. \/ /\ worth_sorting(c.left, c.right) /\ pc' = "partition"
         /\ left' = c.left /\ right' = c.right /\ index' = c.left
         /\ partition_node' = c.left - 1 /\ Current' = Reach(c)
      \/ /\ ~worth_sorting(c.left, c.right) /\ Current' = {} /\ pc' = "quick_sort"
         /\ UNCHANGED <<left, right, index, partition_node>>
  <2>1. CASE worth_sorting(c.left, c.right)
    BY <1>3, <1>5, <2>1 DEF quick_sort, prev, Current, Reach
  <2>2. CASE ~worth_sorting(c.left, c.right)
    BY <1>3, <2>2 DEF quick_sort, Current
  <2> QED  BY <2>1, <2>2
<1>7. SortTypeOK'
  <2>1. \A k \in DOMAIN calls' : /\ calls'[k].left <= calls'[k].right + 1
                                 /\ calls'[k].left = 0 => calls'[k].right = length'
    BY <1>1, <1>2, <1>3 DEF SortTypeOK
  <2> QED  BY <1>1, <1>2, <1>3, <1>5, <1>6, <2>1 DEF SortTypeOK, prev, quick_sort
<1>8. Disjoint'
  <2>1. ASSUME NEW a \in DOMAIN calls', NEW b \in DOMAIN calls', a # b
        PROVE  Reach(calls'[a]) \cap Reach(calls'[b]) = {}
    <3>1. a + 1 # b + 1 /\ calls'[a] = calls[a + 1] /\ calls'[b] = calls[b + 1]
      BY <1>3, <2>1
    <3> QED  BY <1>1, <1>3, <3>1 DEF Disjoint, Pending
  <2>2. ASSUME NEW a \in DOMAIN calls'
        PROVE  Reach(calls'[a]) \cap Current' = {}
    <3>1. a + 1 # 1 /\ a + 1 \in DOMAIN calls /\ calls'[a] = calls[a + 1]
      BY <1>3
    <3>2. Reach(calls[a + 1]) \cap Reach(calls[1]) = {}
      BY <1>1, <1>3, <3>1 DEF Disjoint, Pending
    <3> QED  BY <1>6, <3>1, <3>2
  <2> QED  BY <2>1, <2>2 DEF Disjoint, Pending
<1>9. Separated'
  <2> SUFFICES ASSUME NEW i \in 1..length, NEW j \in 1..length, i < j, ~InOrder(data[i], data[j])
               PROVE  \/ {i, j} \subseteq Current'
                      \/ \E k \in DOMAIN calls' : {i, j} \subseteq Reach(calls'[k])
    BY <1>2 DEF Separated, InOrder, Pending
  <2>1. PICK k \in DOMAIN calls : {i, j} \subseteq Reach(calls[k])
    BY <1>1, <1>2 DEF Separated, Pending
  <2>2. CASE k = 1
    BY <1>5, <1>6, <2>1, <2>2
  <2>3. CASE k # 1
    <3>1. k - 1 \in DOMAIN calls' /\ calls'[k - 1] = calls[k]
      BY <1>3, <2>3
    <3> QED  BY <2>1, <3>1
  <2> QED  BY <2>2, <2>3
<1>10. PartitionSplits'
  <2> SUFFICES ASSUME pc' = "partition"
               PROVE  left'..partition_node' = {} /\ (partition_node' + 1)..(index' - 1) = {}
    BY DEF PartitionSplits
  <2>1. /\ worth_sorting(c.left, c.right)
        /\ left' = c.left /\ index' = c.left /\ partition_node' = c.left - 1
    <3> HIDE DEF c
    <3> QED  BY <1>6
  <2>2. c.left \in Int
    BY <1>2, <1>5, <2>1
  <2> HIDE DEF c
  <2> QED  BY <2>1, <2>2
<1>11. Permuted'
  BY <1>1, <1>2 DEF Permuted
<1> QED  BY <1>7, <1>8, <1>9, <1>10, <1>11 DEF SortInv

\* A round of the loop moves only payloads of the range of its partition, those that go
\* before the pivot to the front.
LEMMA PartitionInv == SortInv /\ partition => SortInv'
<1> SUFFICES ASSUME SortInv, partition PROVE SortInv'
  OBVIOUS
<1> USE DEF NULL
<1> DEFINE p == partition_node + 1
<1>1. SortTypeOK /\ Disjoint /\ Separated /\ PartitionSplits /\ Permuted
  BY DEF SortInv
<1>2. /\ length \in Nat /\ left \in 1..length /\ right \in 1..length /\ left < right
      /\ index \in left..(right - 1) /\ partition_node \in (left - 1)..(index - 1)
      /\ index' = index + 1 /\ Current = left..right /\ Current' = Current
      /\ pc = "partition" /\ UNCHANGED <<length, direction, calls, left, right, pc, input>>
  BY <1>1 DEF SortTypeOK, partition, prev, next, Current
<1>3. Advanced = p /\ p \in left..index
  BY <1>1, <1>2, AdvancedIsNext
<1>4. data \in [1..length -> Payload]
  BY <1>1 DEF SortTypeOK
<1>5. Disjoint'
  BY <1>1, <1>2 DEF Disjoint, Pending
<1>6. CASE do_swap(index, right)
  <2>1. partition_node' = p /\ swap_dnodes(p, index)
    BY <1>2, <1>3, <1>6 DEF partition
  <2>2. Permuted' /\ data' \in [1..length -> Payload]
    BY <1>1, <1>2, <1>3, <2>1, SwapPermutes
  <2>3. \A k \in 1..length : data'[k] = IF k = p THEN data[index]
                                        ELSE IF k = index THEN data[p] ELSE data[k]
    <3> HIDE DEF p
    <3>1. data' = Swapped(data, p, index) /\ p \in 1..length /\ index \in 1..length
      BY <1>2, <1>3, <2>1 DEF swap_dnodes
    <3> QED  BY <1>2, <1>4, <3>1 DEF Swapped
  <2>4. SortTypeOK'
    BY <1>1, <1>2, <1>3, <2>1, <2>2 DEF SortTypeOK, prev
  <2>5. Separated'
    <3> SUFFICES ASSUME NEW i \in 1..length, NEW j \in 1..length, i < j, ~({i, j} \subseteq Current)
                 PROVE  \/ InOrder(data'[i], data'[j])
                        \/ \E k \in DOMAIN calls : {i, j} \subseteq Pending(k)
      BY <1>2 DEF Separated, InOrder, Pending
    <3> HIDE DEF p
    <3>1. p \in Current /\ index \in Current
      BY <1>2, <1>3
    <3> QED  BY <1>2, <2>2, <2>3, <3>1, OutsideStays
  <2>6. PartitionSplits'
    <3>1. InOrder(data[index], data[right])
      BY <1>1, <1>2, <1>6, DoSwapIsOrder
    <3>2. data'[right] = data[right]
      BY <1>2, <1>3, <2>3
    <3>3. ASSUME NEW i \in left..p
          PROVE  InOrder(data'[i], data[right])
      <4>1. CASE i = p
        BY <1>2, <1>3, <2>3, <3>1, <4>1
      <4>2. CASE i # p
        <5>1. i \in left..partition_node /\ i \in 1..length /\ i # index
          BY <1>2, <1>3, <4>2
        <5> QED  BY <1>1, <1>2, <2>3, <4>2, <5>1 DEF PartitionSplits
      <4> QED  BY <4>1, <4>2
    <3>4. ASSUME NEW i \in (p + 1)..index
          PROVE  InOrder(data[right], data'[i])
      <4>1. i \in 1..length /\ i # p
        BY <1>2, <1>3
      <4>2. CASE i = index
        <5>1. data'[i] = data[p] /\ p \in (partition_node + 1)..(index - 1)
          BY <1>2, <1>3, <2>3, <4>1, <4>2
        <5> QED  BY <1>1, <1>2, <5>1 DEF PartitionSplits
      <4>3. CASE i # index
        <5>1. data'[i] = data[i] /\ i \in (partition_node + 1)..(index - 1)
          BY <1>2, <1>3, <2>3, <4>1, <4>3
        <5> QED  BY <1>1, <1>2, <5>1 DEF PartitionSplits
      <4> QED  BY <4>2, <4>3
    <3> QED  BY <1>2, <2>1, <3>2, <3>3, <3>4 DEF PartitionSplits, InOrder
  <2> QED  BY <1>5, <2>2, <2>4, <2>5, <2>6 DEF SortInv
<1>7. CASE ~do_swap(index, right)
  <2>1. UNCHANGED <<partition_node, data, origin>>
    BY <1>7 DEF partition
  <2>2. SortTypeOK'
    BY <1>1, <1>2, <2>1 DEF SortTypeOK, prev
  <2>5. Permuted'
    BY <1>1, <1>2, <2>1 DEF Permuted
  <2>3. Separated'
    BY <1>1, <1>2, <2>1 DEF Separated, InOrder, Pending
  <2>4. PartitionSplits'
    <3>1. InOrder(data[right], data[index])
      <4>1. ~InOrder(data[index], data[right])
        BY <1>1, <1>2, <1>7, DoSwapIsOrder
      <4>2. data[index] \in Payload /\ data[right] \in Payload
        BY <1>2, <1>4
      <4> QED  BY <4>1, <4>2, OrderTotal
    <3> QED  BY <1>1, <1>2, <2>1, <3>1 DEF PartitionSplits, InOrder
  <2> QED  BY <1>5, <2>2, <2>3, <2>4, <2>5 DEF SortInv
<1> QED  BY <1>6, <1>7

\* The pivot lands between those that go before it and those that do not: only pairs on
\* one side of it may still be out of order, and either side gets a call.
LEMMA PartitionEndInv == SortInv /\ partition_end => SortInv'
<1> SUFFICES ASSUME SortInv, partition_end PROVE SortInv'
  OBVIOUS
<1> USE DEF NULL
<1> DEFINE p == partition_node + 1
           R == [left : 0..length, right : 0..length]
           before == [left |-> left, right |-> p - 1]
           behind == [left |-> next(p), right |-> right]
<1>1. SortTypeOK /\ Disjoint /\ Separated /\ PartitionSplits /\ Permuted
  BY DEF SortInv
<1>2. /\ length \in Nat /\ left \in 1..length /\ right \in 1..length /\ left < right
      /\ index = right /\ partition_node \in (left - 1)..(right - 1)
      /\ Current = left..right /\ Current' = {}
      /\ pc = "partition" /\ pc' = "quick_sort" /\ UNCHANGED <<length, direction, input>>
      /\ left' = 0 /\ right' = 0 /\ index' = 0 /\ partition_node' = 0
  BY <1>1 DEF SortTypeOK, partition_end, prev, Current
<1>3. Advanced = p /\ p \in left..right
  BY <1>1, <1>2, AdvancedIsNext
<1>4. data \in [1..length -> Payload] /\ calls \in Seq(R) /\ DOMAIN calls = 1..Len(calls)
      /\ Len(calls) \in Nat
  BY <1>1 DEF SortTypeOK
<1>5. calls' = <<before, behind>> \o calls /\ swap_dnodes(p, right)
  BY <1>3 DEF partition_end, Halves, prev
<1>6. before \in R /\ behind \in R
  BY <1>2, <1>3 DEF next
<1>7. /\ calls' \in Seq(R) /\ DOMAIN calls' = 1..(Len(calls) + 2)
      /\ calls'[1] = before /\ calls'[2] = behind
      /\ \A k \in 1..Len(calls) : calls'[k + 2] = calls[k]
  <2> HIDE DEF before, behind, R
  <2> QED  BY <1>4, <1>5, <1>6, PairBeforeElements
<1>8. Reach(before) = left..(p - 1) /\ Reach(behind) = (p + 1)..right
  BY <1>2, <1>3 DEF Reach, next
<1>9. ASSUME NEW k \in DOMAIN calls'
      PROVE  k = 1 \/ k = 2 \/ (k - 2 \in DOMAIN calls /\ calls'[k] = calls[k - 2])
  <2> HIDE DEF before, behind, R
  <2>1. SUFFICES ASSUME k # 1, k # 2
                 PROVE  k - 2 \in 1..Len(calls) /\ calls'[k] = calls[k - 2]
    BY <1>4
  <2>2. k - 2 \in 1..Len(calls) /\ (k - 2) + 2 = k
    BY <1>4, <1>7, <2>1
  <2>3. calls'[(k - 2) + 2] = calls[k - 2]
    BY <1>7, <2>2
  <2> QED  BY <2>2, <2>3
<1>10. Permuted' /\ data' \in [1..length -> Payload]
  BY <1>1, <1>2, <1>3, <1>5, SwapPermutes
<1>11. \A k \in 1..length : data'[k] = IF k = p THEN data[right]
                                       ELSE IF k = right THEN data[p] ELSE data[k]
  <2> HIDE DEF p
  <2>1. data' = Swapped(data, p, right) /\ p \in 1..length
    BY <1>2, <1>3, <1>5 DEF swap_dnodes
  <2> QED  BY <1>2, <1>4, <2>1 DEF Swapped
<1>12. SortTypeOK'
  <2>1. ASSUME NEW k \in DOMAIN calls'
        PROVE  calls'[k].left <= calls'[k].right + 1 /\ (calls'[k].left = 0 => calls'[k].right = length)
    <3>1. before.left <= before.right + 1 /\ before.left # 0
      BY <1>2, <1>3
    <3>2. behind.left <= behind.right + 1 /\ (behind.left = 0 => behind.right = length)
      BY <1>2, <1>3 DEF next
    <3>3. \A j \in DOMAIN calls : /\ calls[j].left <= calls[j].right + 1
                                  /\ calls[j].left = 0 => calls[j].right = length
      BY <1>1 DEF SortTypeOK
    <3> HIDE DEF before, behind
    <3> QED  BY <1>7, <1>9, <3>1, <3>2, <3>3
  <2> QED  BY <1>1, <1>2, <1>7, <1>10, <2>1 DEF SortTypeOK
<1>13. Disjoint'
  <2>1. Reach(before) \subseteq Current /\ Reach(behind) \subseteq Current
        /\ Reach(before) \cap Reach(behind) = {}
    BY <1>2, <1>3, <1>8
  <2>2. ASSUME NEW a \in DOMAIN calls', NEW b \in DOMAIN calls', a # b
        PROVE  Reach(calls'[a]) \cap Reach(calls'[b]) = {}
    <3> HIDE DEF before, behind
    <3>1. \A k \in DOMAIN calls : Reach(calls[k]) \cap Current = {}
      BY <1>1 DEF Disjoint, Pending
    <3>2. CASE a \in {1, 2} /\ b \in {1, 2}
      BY <1>7, <2>1, <2>2, <3>2
    <3>3. CASE a \notin {1, 2} /\ b \in {1, 2}
      BY <1>7, <1>9, <2>1, <3>1, <3>3
    <3>4. CASE a \in {1, 2} /\ b \notin {1, 2}
      BY <1>7, <1>9, <2>1, <3>1, <3>4
    <3>5. CASE a \notin {1, 2} /\ b \notin {1, 2}
      <4>1. /\ a - 2 \in DOMAIN calls /\ calls'[a] = calls[a - 2]
            /\ b - 2 \in DOMAIN calls /\ calls'[b] = calls[b - 2] /\ a - 2 # b - 2
        BY <1>4, <1>7, <1>9, <2>2, <3>5
      <4> QED  BY <1>1, <4>1 DEF Disjoint, Pending
    <3> QED  BY <3>2, <3>3, <3>4, <3>5
  <2> QED  BY <1>2, <2>2 DEF Disjoint, Pending
<1>14. Separated'
  <2> SUFFICES ASSUME NEW i \in 1..length, NEW j \in 1..length, i < j
               PROVE  \/ InOrder(data'[i], data'[j])
                      \/ \E k \in DOMAIN calls' : {i, j} \subseteq Reach(calls'[k])
    BY <1>2 DEF Separated, InOrder, Pending
  <2>1. CASE ~({i, j} \subseteq Current)
    <3> HIDE DEF p
    <3>1. p \in Current /\ right \in Current
      BY <1>2, <1>3
    <3>2. InOrder(data'[i], data'[j]) \/ \E k \in DOMAIN calls : {i, j} \subseteq Pending(k)
      BY <1>2, <1>10, <1>11, <2>1, <3>1, OutsideStays
    <3>3. ASSUME NEW k \in DOMAIN calls
          PROVE  k + 2 \in DOMAIN calls' /\ calls'[k + 2] = calls[k]
      <4> HIDE DEF before, behind, R
      <4> QED  BY <1>4, <1>7
    <3> QED  BY <3>2, <3>3 DEF Pending
  <2>2. CASE {i, j} \subseteq Current
    <3>1. i \in left..right /\ j \in left..right
      BY <1>2, <2>2
    <3>2. CASE j < p
      <4>1. {i, j} \subseteq Reach(before)
        BY <1>2, <1>3, <1>8, <3>1, <3>2
      <4> HIDE DEF before, behind, R
      <4>2. 1 \in DOMAIN calls' /\ {i, j} \subseteq Reach(calls'[1])
        BY <1>4, <1>7, <4>1
      <4> QED  BY <4>2
    <3>3. CASE p < i
      <4>1. {i, j} \subseteq Reach(behind)
        BY <1>2, <1>3, <1>8, <3>1, <3>3
      <4> HIDE DEF before, behind, R
      <4>2. 2 \in DOMAIN calls' /\ {i, j} \subseteq Reach(calls'[2])
        BY <1>4, <1>7, <4>1
      <4> QED  BY <4>2
    <3>4. CASE i <= p /\ p <= j
      <4>1. \A k \in 1..length : data[k] \in Payload /\ data'[k] \in Payload
        BY <1>4, <1>10
      <4>2. data'[p] = data[right] /\ right \in 1..length
        BY <1>2, <1>3, <1>11
      <4>3. InOrder(data'[i], data[right])
        <5>1. CASE i = p
          BY <4>1, <4>2, <5>1, OrderTotal
        <5>2. CASE i # p
          <6>1. i \in left..partition_node /\ data'[i] = data[i]
            BY <1>2, <1>3, <1>11, <3>1, <3>4, <5>2
          <6> QED  BY <1>1, <1>2, <6>1 DEF PartitionSplits
        <5> QED  BY <5>1, <5>2
      <4>4. InOrder(data[right], data'[j])
        <5>1. CASE j = p
          BY <4>1, <4>2, <5>1, OrderTotal
        <5>2. CASE j # p
          <6>1. PICK k \in (partition_node + 1)..(index - 1) : data'[j] = data[k]
            <7>1. CASE j = right
              BY <1>2, <1>3, <1>11, <3>1, <3>4, <5>2, <7>1
            <7>2. CASE j # right
              BY <1>2, <1>3, <1>11, <3>1, <3>4, <5>2, <7>2
            <7> QED  BY <7>1, <7>2
          <6> QED  BY <1>1, <1>2, <6>1 DEF PartitionSplits
        <5> QED  BY <5>1, <5>2
      <4> QED  BY <4>1, <4>2, <4>3, <4>4, OrderTransitive
    <3> QED  BY <1>2, <1>3, <3>1, <3>2, <3>3, <3>4
  <2> QED  BY <2>1, <2>2
<1>15. PartitionSplits'
  BY <1>2 DEF PartitionSplits
<1> QED  BY <1>10, <1>12, <1>13, <1>14, <1>15 DEF SortInv

\* Every step keeps the invariant.
LEMMA StepInv == SortInv /\ [Next]_vars => SortInv'
<1> SUFFICES ASSUME SortInv, [Next]_vars PROVE SortInv'
  OBVIOUS
<1>1. CASE quick_sort
  BY <1>1, QuickSortInv
<1>2. CASE partition
  BY <1>2, PartitionInv
<1>3. CASE partition_end
  BY <1>3, PartitionEndInv
<1>4. CASE return \/ UNCHANGED vars
  <2>1. /\ UNCHANGED <<length, data, direction, calls, left, right, index, partition_node, input, origin>>
        /\ pc' = pc \/ (pc = "quick_sort" /\ pc' = "returned")
    BY <1>4 DEF return, vars, call
  <2>2. Current' = Current
    BY <2>1 DEF Current
  <2>3. SortTypeOK'
    BY <2>1 DEF SortInv, SortTypeOK
  <2>4. Disjoint'
    BY <2>1, <2>2 DEF SortInv, Disjoint, Pending
  <2>5. Separated'
    BY <2>1, <2>2 DEF SortInv, Separated, Pending, InOrder
  <2>6. PartitionSplits'
    BY <2>1 DEF SortInv, PartitionSplits, InOrder
  <2>7. Permuted'
    BY <2>1 DEF SortInv, Permuted
  <2> QED  BY <2>3, <2>4, <2>5, <2>6, <2>7 DEF SortInv
<1> QED  BY <1>1, <1>2, <1>3, <1>4 DEF Next

\* dl_list.c:801-875, for every list: at every moment of a sort each payload is there
\* once, the ranges still to be sorted are apart, and two payloads that are out of order
\* share one of them.
THEOREM SortInvHolds == Spec => []SortInv
<1>1. Init => SortInv
  BY InitInv
<1>2. SortInv /\ [Next]_vars => SortInv'
  BY StepInv
<1> QED  BY <1>1, <1>2, PTL DEF Spec

-----------------------------------------------------------------------------
(***************************************************************************)
(* The promise.                                                            *)
(***************************************************************************)
\* A list not yet sorted is what the client handed over.
LEMMA InitRefines == Init => Abs!Init
<1> SUFFICES ASSUME Init PROVE Abs!Init
  OBVIOUS
<1>1. length \in Nat /\ input \in [1..length -> Payload] /\ pc # "returned"
      /\ direction \in {"ASCENDING", "DESCENDING"}
  BY DEF Init
<1>2. input \in Seq(Payload)
  BY <1>1
<1> QED  BY <1>1, <1>2 DEF Abs!Init

\* When no call is left no two payloads are out of order, and each node's came from a
\* node of its own: that step sorts, and no other step shows.
LEMMA StepRefines == SortInv /\ [Next]_vars => [Abs!Sort]_(Abs!vars)
<1> SUFFICES ASSUME SortInv, [Next]_vars PROVE [Abs!Sort]_(Abs!vars)
  OBVIOUS
<1>1. CASE return
  <2>1. /\ pc = "quick_sort" /\ pc' = "returned" /\ calls = <<>>
        /\ UNCHANGED <<length, data, direction, input, origin>>
    BY <1>1 DEF return
  <2>2. /\ length \in Nat /\ data \in [1..length -> Payload] /\ input \in [1..length -> Payload]
        /\ origin \in [1..length -> 1..length] /\ data = [k \in 1..length |-> input[origin[k]]]
        /\ \A i, j \in 1..length : origin[i] = origin[j] => i = j
        /\ \A i \in 1..length : \E k \in 1..length : origin[k] = i
    BY DEF SortInv, SortTypeOK, Permuted
  <2>3. DOMAIN input = 1..length /\ DOMAIN data = 1..length
    BY <2>2
  <2>4. origin \in Abs!Bijection(1..length, 1..length)
    BY <2>2 DEF Abs!Bijection, Abs!Injection, Abs!Surjection, Abs!IsInjective
  <2>5. \A i, j \in 1..length : i < j => InOrder(data[i], data[j])
    BY <2>1 DEF SortInv, Separated, Current
  <2> DEFINE given == IF pc = "returned" THEN data ELSE input
  <2>6. given = input /\ given' = data /\ DOMAIN given = 1..length
    BY <2>1, <2>3
  <2>7. \E q \in Abs!Bijection(DOMAIN given, DOMAIN given) :
          given' = [k \in DOMAIN given |-> given[q[k]]]
    <3> HIDE DEF given
    <3>1. given' = [k \in DOMAIN given |-> given[origin[k]]]
      BY <2>2, <2>6
    <3>2. origin \in Abs!Bijection(DOMAIN given, DOMAIN given)
      BY <2>4, <2>6
    <3> QED  BY <3>1, <3>2
  <2>8. Abs!Sorted(given')
    <3> HIDE DEF given
    <3> QED  BY <2>1, <2>3, <2>5, <2>6 DEF InOrder, Abs!Sorted, Abs!InOrder
  <2>9. ~(pc = "returned") /\ (pc' = "returned") = TRUE
         /\ UNCHANGED (IF direction = "ASCENDING" THEN "LOWEST_FIRST" ELSE "HIGHEST_FIRST")
    BY <2>1
  <2>10. Abs!Sort
    BY <2>7, <2>8, <2>9 DEF Abs!Sort
  <2> QED  BY <2>10
<1>2. CASE quick_sort \/ partition \/ partition_end
  <2>1. pc # "returned" /\ pc' # "returned" /\ UNCHANGED <<direction, input>>
    BY <1>2 DEF quick_sort, partition, partition_end
  <2> QED  BY <2>1 DEF Abs!vars
<1>3. CASE UNCHANGED vars
  BY <1>3 DEF vars, call, Abs!vars
<1> QED  BY <1>1, <1>2, <1>3 DEF Next

\* dl_list.c:375-399: for every list, every direction and every comparison by rank,
\* dlist_quick_sort leaves the client its payloads, each as often as before, in order.
THEOREM SortRefines == Spec => ImplementsAbsSort
<1>1. Init => Abs!Init
  BY InitRefines
<1>2. SortInv /\ [Next]_vars => [Abs!Sort]_(Abs!vars)
  BY StepRefines
<1> QED  BY <1>1, <1>2, SortInvHolds, PTL DEF Spec, ImplementsAbsSort, Abs!Spec
=============================================================================
