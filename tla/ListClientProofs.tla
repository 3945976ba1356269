-------------------------- MODULE ListClientProofs --------------------------
(***************************************************************************)
(* Theorems about the two clients of the list, the queue and the circular  *)
(* list.  A call of theirs runs calls of the list, so each lemma of        *)
(* DListProofs about a call serves here as well.                           *)
(***************************************************************************)
EXTENDS Queue, CList, DListProofs

\* No entry stands in iter_list before the client's first lookup by index.
NothingStale == ~indexed => iter_list = <<>>

QueueInv ==
  /\ Inv
  /\ QueueTypeOK
  /\ Bounded
  /\ NothingStale
  /\ OnlyIndexedCrash

\* queue_init makes an empty queue.
LEMMA QueueInitInv == QueueInit => QueueInv
<1> SUFFICES ASSUME QueueInit PROVE QueueInv
  OBVIOUS
<1>1. Inv /\ TypeOK
  BY InitInv DEF QueueInit, Inv
<1>2. /\ queue_size \in 0..MaxQueueSize /\ queue_size \in Nat /\ length = 0
      /\ result = NULL /\ indexed = FALSE /\ iter_list = <<>> /\ status = "running"
  BY QueueAssumption DEF QueueInit, Init, EmptyList
<1>3. QueueTypeOK
  BY <1>1, <1>2 DEF QueueTypeOK
<1>4. 0 <= queue_size
  BY <1>2
<1>5. Bounded /\ NothingStale
  BY <1>2, <1>4 DEF Bounded, NothingStale
<1>6. OnlyIndexedCrash
  BY <1>2 DEF OnlyIndexedCrash, Crashes
<1> QED  BY <1>1, <1>3, <1>5, <1>6 DEF QueueInv

\* A call that does not lengthen the queue, and that cannot die while iter_list is
\* empty, preserves the invariant.
LEMMA KeepsQueueInv ==
  ASSUME QueueInv, Inv', UNCHANGED queue_size, length' <= length \/ length' <= queue_size,
         indexed' \in BOOLEAN, result' \in Data \cup {NULL, Q_SUCCESS, Q_FAILURE},
         indexed => indexed',
         ~indexed' => iter_list' = <<>> /\ status' \notin Crashes
  PROVE  QueueInv'
<1>1. QueueTypeOK'
  BY DEF QueueInv, QueueTypeOK, Inv
<1>2. length \in Nat /\ length' \in Nat /\ queue_size \in Nat /\ length <= queue_size
  BY QueueAssumption DEF QueueInv, QueueTypeOK, Inv, TypeOK, Bounded
<1>3. Bounded'
  BY <1>2 DEF Bounded
<1>4. NothingStale' /\ OnlyIndexedCrash'
  BY DEF NothingStale, OnlyIndexedCrash
<1> QED  BY <1>1, <1>3, <1>4 DEF QueueInv

\* What a call of the queue returns.
LEMMA ReturnsTyped ==
  ASSUME QueueInv, NEW r \in Data \cup {NULL, Q_SUCCESS, Q_FAILURE}, Returns(r)
  PROVE  result' \in Data \cup {NULL, Q_SUCCESS, Q_FAILURE}
BY DEF Returns, QueueInv, QueueTypeOK

\* queue_enqueue preserves the invariant: below the limit, one more still fits.
LEMMA EnqueueInv ==
  ASSUME QueueInv, NEW v \in Data, queue_enqueue(v), UNCHANGED queue_size
  PROVE  QueueInv'
<1>1. /\ running /\ indexed' = indexed /\ indexed \in BOOLEAN
      /\ length \in Nat /\ queue_size \in Nat /\ length <= queue_size
      /\ ~indexed => iter_list = <<>>
      /\ Inv /\ (length = Len(chain)) /\ status \notin Crashes
  BY QueueAssumption DEF QueueInv, QueueTypeOK, Inv, TypeOK, Linked, Bounded,
       NothingStale, queue_enqueue, running, Crashes
<1>2. CASE length = queue_size /\ UNCHANGED vars /\ result' = Q_FAILURE
  <2>1. Inv'
    BY <1>1, <1>2, StutterInv
  <2>2. length' = length /\ iter_list' = iter_list /\ status' = status
    BY <1>2 DEF vars, listVars, iterVars
  <2> QED  BY <1>1, <1>2, <2>1, <2>2, KeepsQueueInv
<1>3. CASE length # queue_size /\ dlist_append(v) /\ Returns(Q_SUCCESS)
  <2>1. Inv'
    BY <1>1, <1>3, AppendInv
  <2>2. /\ length' <= queue_size
        /\ ~indexed => iter_list' = <<>> /\ status' \notin Crashes
    <3>1. CASE AddFirstFault
      <4>1. length' = length
        BY <3>1 DEF AddFirstFault, Crash, listVars
      <4>2. indexed
        <5>1. iter_list # <<>>
          BY <3>1 DEF AddFirstFault, Registered
        <5> QED  BY <5>1, <1>1
      <4> QED  BY <1>1, <4>1, <4>2
    <3>2. ASSUME NEW n \in Node, AddFirst(n, v)
          PROVE  length' = length + 1 /\ iter_list' = iter_list /\ status' = status
      BY <3>2 DEF AddFirst, Account, Rewind
    <3>3. ASSUME NEW n \in Node, Account(n, v, Len(chain) + 1), UNCHANGED <<iterVars, status>>
          PROVE  length' = length + 1 /\ iter_list' = iter_list /\ status' = status
      BY <3>3 DEF Account, iterVars
    <3>4. AddFirstFault \/ (length' = length + 1 /\ iter_list' = iter_list /\ status' = status)
      BY <1>3, <3>2, <3>3 DEF dlist_append
    <3>5. length + 1 <= queue_size
      BY <1>1, <1>3
    <3> QED  BY <3>1, <3>4, <3>5, <1>1
  <2>3. result' \in Data \cup {NULL, Q_SUCCESS, Q_FAILURE}
    BY <1>3, ReturnsTyped
  <2> QED  BY <1>1, <2>1, <2>2, <2>3, KeepsQueueInv
<1> QED  BY <1>2, <1>3 DEF queue_enqueue

\* remove_node shortens the list, frees no iterator, does not die, and returns
\* the data of the node.
LEMMA RemoveNodeQuietly ==
  ASSUME TypeOK, Linked, NEW k \in 1..Len(chain), NEW at, remove_node(k, at)
  PROVE  /\ length' <= length /\ iter_list' = iter_list /\ status' = status
         /\ ret' \in Data
<1>1. length \in Nat /\ length' = length - 1
  BY DEF TypeOK, remove_node, CountDown
<1>2. ValueAt(k) \in Data /\ ret' = ValueAt(k)
  BY ValuesInData DEF remove_node, ValueAt
<1>3. length - 1 <= length
  BY <1>1
<1> QED  BY <1>1, <1>2, <1>3 DEF remove_node

\* With iter_list empty, a removal by value moves no iterator and cannot die.
LEMMA RemoveMatchQuietly ==
  ASSUME Inv, NEW k \in 1..Len(chain), RemoveMatch(k)
  PROVE  /\ length' <= length
         /\ iter_list = <<>> => iter_list' = <<>> /\ status' = status
         /\ ret' \in Data \/ status' \in Crashes
<1> DEFINE atHead == ValueAt(k) = ValueAt(1)
           atTail == ValueAt(k) = ValueAt(Len(chain))
           fixUp == iter_list # <<>> /\ (atHead \/ atTail)
           Moved == {i \in Iter \cap Registered : fixUp /\ index[i] = k - 1}
           unsafe == \/ fixUp /\ Dangling \in Registered
                     \/ \E i \in Moved : node[i] = Dangling
           After(i) == IF i \in Moved THEN MoveOff(i, atHead, atTail) ELSE Cursor(i)
<1>1. CASE unsafe /\ Crash("use_after_free")
  <2>1. length' = length /\ length \in Nat /\ status' = "use_after_free"
    BY <1>1 DEF Crash, listVars, Inv, TypeOK
  <2>2. iter_list # <<>>
    BY <1>1
  <2> QED  BY <2>1, <2>2 DEF Crashes
<1>2. CASE remove_node(k, [i \in Iter |-> After(i).node])
  <2> HIDE DEF After
  <2>1. /\ length' <= length /\ iter_list' = iter_list /\ status' = status
        /\ ret' \in Data
    BY <1>2, RemoveNodeQuietly DEF Inv
  <2> QED  BY <2>1
<1> QED  BY <1>1, <1>2 DEF RemoveMatch

\* A call of the queue that does not lengthen it, and that cannot die while
\* iter_list is empty.
LEMMA ShorterQueueInv ==
  ASSUME QueueInv, running, Inv', UNCHANGED <<queue_size, indexed>>,
         length' <= length,
         iter_list = <<>> => iter_list' = <<>> /\ status' \notin Crashes,
         result' \in Data \cup {NULL, Q_SUCCESS, Q_FAILURE}
  PROVE  QueueInv'
BY KeepsQueueInv DEF QueueInv, QueueTypeOK, NothingStale

\* A call that leaves list, iterators and process alone.
LEMMA SameQueueInv ==
  ASSUME QueueInv, running, Inv', UNCHANGED <<queue_size, indexed>>,
         UNCHANGED <<listVars, iterVars, status>>,
         result' \in Data \cup {NULL, Q_SUCCESS, Q_FAILURE}
  PROVE  QueueInv'
<1>1. length' = length /\ iter_list' = iter_list /\ status' = status
  BY DEF listVars, iterVars
<1>2. length \in Nat
  BY DEF QueueInv, Inv, TypeOK
<1>3. length' <= length
  BY <1>1, <1>2
<1>4. status' \notin Crashes
  BY <1>1 DEF running, Crashes
<1> QED  BY <1>1, <1>3, <1>4, ShorterQueueInv

\* queue_remove preserves the invariant.
LEMMA QueueRemoveInv ==
  ASSUME QueueInv, NEW v \in Data, queue_remove(v), UNCHANGED queue_size
  PROVE  QueueInv'
<1>1. /\ Inv /\ Inv' /\ running /\ indexed' = indexed /\ Returns(ret')
      /\ result \in Data \cup {NULL, Q_SUCCESS, Q_FAILURE}
  BY RemoveValueInv DEF queue_remove, dlist_remove_value, QueueInv, QueueTypeOK
<1>2. ASSUME NEW k \in 1..Len(chain), RemoveMatch(k)
      PROVE  QueueInv'
  <2>1. /\ length' <= length
        /\ iter_list = <<>> => iter_list' = <<>> /\ status' = status
        /\ ret' \in Data \/ status' \in Crashes
    BY <1>1, <1>2, RemoveMatchQuietly
  <2>2. status \notin Crashes
    BY <1>1 DEF running, Crashes
  <2>3. result' \in Data \cup {NULL, Q_SUCCESS, Q_FAILURE}
    BY <1>1, <2>1 DEF Returns
  <2> QED  BY <1>1, <2>1, <2>2, <2>3, ShorterQueueInv
<1>3. CASE ret' = NULL /\ UNCHANGED <<listVars, iterVars, status>>
  <2>1. result' \in Data \cup {NULL, Q_SUCCESS, Q_FAILURE}
    BY <1>1, <1>3 DEF Returns
  <2> QED  BY <1>1, <1>3, <2>1, SameQueueInv
<1> QED  BY <1>2, <1>3 DEF queue_remove, dlist_remove_value

\* queue_dequeue preserves the invariant.
LEMMA DequeueInv ==
  ASSUME QueueInv, queue_dequeue, UNCHANGED queue_size
  PROVE  QueueInv'
<1>1. /\ Inv /\ TypeOK /\ Linked /\ running /\ indexed' = indexed
      /\ result \in Data \cup {NULL, Q_SUCCESS, Q_FAILURE}
  BY DEF queue_dequeue, QueueInv, QueueTypeOK, Inv
<1>2. status \notin Crashes
  BY <1>1 DEF running, Crashes
<1>3. CASE length = 0 /\ UNCHANGED vars /\ result' = NULL
  <2>1. Inv' /\ UNCHANGED <<listVars, iterVars, status>>
    BY <1>1, <1>3, StutterInv DEF vars
  <2> QED  BY <1>1, <1>3, <2>1, SameQueueInv
<1>4. CASE length # 0 /\ dlist_pop_head /\ Returns(ret')
  <2>1. Inv'
    BY <1>1, <1>4, PopInv
  <2>2. remove_node(1, node) /\ 1 \in 1..Len(chain)
    BY <1>1, <1>4, ChainFacts DEF dlist_pop_head, Linked
  <2>3. /\ length' <= length /\ iter_list' = iter_list /\ status' = status
        /\ ret' \in Data
    BY <1>1, <2>2, RemoveNodeQuietly
  <2>4. result' \in Data \cup {NULL, Q_SUCCESS, Q_FAILURE}
    BY <1>1, <1>4, <2>3 DEF Returns
  <2> QED  BY <1>1, <1>2, <2>1, <2>3, <2>4, ShorterQueueInv
<1> QED  BY <1>3, <1>4 DEF queue_dequeue

\* queue_get_by_value and queue_get_by_index preserve the invariant: the second
\* leaves a stale entry, which the history variable indexed remembers.
LEMMA LookupInv ==
  ASSUME QueueInv, UNCHANGED queue_size,
         \/ \E v \in Data : queue_get_by_value(v)
         \/ \E i \in Index : queue_get_by_index(i)
  PROVE  QueueInv'
<1>1. Inv /\ result \in Data \cup {NULL, Q_SUCCESS, Q_FAILURE}
      /\ TypeOK /\ Linked /\ indexed \in BOOLEAN
  BY DEF QueueInv, QueueTypeOK, Inv
<1>2. ASSUME NEW v \in Data, queue_get_by_value(v)
      PROVE  QueueInv'
  <2>1. /\ Inv' /\ running /\ UNCHANGED <<listVars, iterVars, status, indexed>>
        /\ Returns(ret')
    BY <1>1, <1>2, GetByValueInv DEF queue_get_by_value, dlist_get_by_value
  <2>2. ret' \in Data \cup {NULL}
    BY <1>1, <1>2, ValuesInData DEF queue_get_by_value, dlist_get_by_value
  <2>3. result' \in Data \cup {NULL, Q_SUCCESS, Q_FAILURE}
    BY <1>1, <2>1, <2>2 DEF Returns
  <2> QED  BY <2>1, <2>3, SameQueueInv
<1>3. ASSUME NEW i \in Index, queue_get_by_index(i)
      PROVE  QueueInv'
  <2>1. AsInt(i) \in Int
    <3>1. i \in Nat /\ 2 * IntHalf \in Nat \ {0}
      BY QueueAssumption
    <3>2. i % (2 * IntHalf) \in Nat
      BY <3>1
    <3> QED  BY <3>1, <3>2 DEF AsInt
  <2>2. Inv' /\ indexed' = TRUE /\ Returns(ret')
    BY <1>1, <1>3, <2>1, GetByIndexInv DEF queue_get_by_index
  <2>3. UNCHANGED listVars /\ ret' = IF InRange(AsInt(i)) THEN ValueAt(Position(AsInt(i))) ELSE NULL
    BY <1>3 DEF queue_get_by_index, dlist_get_by_index
  <2>4. ret' \in Data \cup {NULL}
    <3>1. ASSUME InRange(AsInt(i)) PROVE Position(AsInt(i)) \in 1..Len(chain)
      BY <1>1, <2>1, <3>1, PositionInList
    <3> QED  BY <1>1, <2>3, <3>1, ValuesInData
  <2>5. result' \in Data \cup {NULL, Q_SUCCESS, Q_FAILURE}
    BY <1>1, <2>2, <2>4 DEF Returns
  <2>6. length' = length /\ length \in Nat
    BY <1>1, <2>3 DEF listVars, TypeOK
  <2>7. length' <= length
    BY <2>6
  <2> QED  BY <2>2, <2>5, <2>7, KeepsQueueInv
<1> QED  BY <1>2, <1>3

\* queue_destroy preserves the invariant.
LEMMA QueueDestroyInv ==
  ASSUME QueueInv, queue_destroy, UNCHANGED queue_size
  PROVE  QueueInv'
<1>1. /\ Inv /\ Inv' /\ running /\ indexed' = indexed /\ length \in Nat
      /\ result \in Data \cup {NULL, Q_SUCCESS, Q_FAILURE}
  BY DestroyInv DEF queue_destroy, dlist_destroy, QueueInv, QueueTypeOK, Inv, TypeOK
<1>2. /\ length' = 0 /\ iter_list' = <<>> /\ status' = "destroyed"
      /\ result' \in Data \cup {NULL, Q_SUCCESS, Q_FAILURE}
  BY <1>1 DEF queue_destroy, dlist_destroy, Returns
<1>3. length' <= length /\ status' \notin Crashes
  BY <1>1, <1>2 DEF Crashes
<1> QED  BY <1>1, <1>2, <1>3, ShorterQueueInv

\* Every call preserves the invariant.
LEMMA QueueNextInv ==
  ASSUME QueueInv, [QueueNext]_queueVars
  PROVE  QueueInv'
<1>1. CASE UNCHANGED queueVars
  <2>1. UNCHANGED vars /\ UNCHANGED <<queue_size, result, indexed>>
    BY <1>1 DEF queueVars
  <2>2. Inv'
    BY <2>1, StutterInv DEF QueueInv
  <2>3. length' = length /\ iter_list' = iter_list /\ status' = status
    BY <2>1 DEF vars, listVars, iterVars
  <2>4. QueueTypeOK'
    BY <2>1, <2>2 DEF QueueInv, QueueTypeOK, Inv
  <2>5. Bounded' /\ NothingStale' /\ OnlyIndexedCrash'
    BY <2>1, <2>3 DEF QueueInv, Bounded, NothingStale, OnlyIndexedCrash
  <2> QED  BY <2>2, <2>4, <2>5 DEF QueueInv
<1>2. ASSUME NEW v \in Data, queue_enqueue(v), UNCHANGED queue_size
      PROVE  QueueInv'
  BY <1>2, EnqueueInv
<1>3. ASSUME NEW v \in Data, queue_remove(v), UNCHANGED queue_size
      PROVE  QueueInv'
  BY <1>3, QueueRemoveInv
<1>4. CASE queue_dequeue /\ UNCHANGED queue_size
  BY <1>4, DequeueInv
<1>5. CASE queue_destroy /\ UNCHANGED queue_size
  BY <1>5, QueueDestroyInv
<1> QED  BY <1>1, <1>2, <1>3, <1>4, <1>5, LookupInv DEF QueueNext

\* Whatever is enqueued, removed out of turn or looked up, the queue is a
\* well-formed list within its limit, and only an index lookup makes it unsafe.
THEOREM QueueInvHolds == QueueSpec => []QueueInv
<1>1. QueueInit => QueueInv
  BY QueueInitInv
<1>2. QueueInv /\ [QueueNext]_queueVars => QueueInv'
  BY QueueNextInv
<1> QED  BY <1>1, <1>2, PTL DEF QueueSpec

\* The test for equality in queue_enqueue holds the limit, for every limit
\* (dl_queue.c:98-107).
THEOREM QueueStaysBounded == QueueSpec => []Bounded
<1>1. QueueInv => Bounded
  BY DEF QueueInv
<1> QED  BY <1>1, QueueInvHolds, PTL

\* Without queue_get_by_index no call of the queue kills the process.
THEOREM CrashNeedsIndex == QueueSpec => []OnlyIndexedCrash
<1>1. QueueInv => OnlyIndexedCrash
  BY DEF QueueInv
<1> QED  BY <1>1, QueueInvHolds, PTL

\* Every variable of the queue and of its list keeps its type.
THEOREM QueueTypesHold == QueueSpec => []QueueTypeOK
<1>1. QueueInv => QueueTypeOK
  BY DEF QueueInv
<1> QED  BY <1>1, QueueInvHolds, PTL

-----------------------------------------------------------------------------
(***************************************************************************)
(* The queue implements the bounded first-in first-out queue.              *)
(***************************************************************************)
\* Putting an item behind the last is appending it.
LEMMA InsertLast ==
  ASSUME NEW S, NEW s \in Seq(S), NEW e \in S
  PROVE  InsertAt(s, Len(s) + 1, e) = Append(s, e)
<1>1. PICK k \in 1..(Len(s) + 1) : k = Len(s) + 1
  BY LenProperties
<1> DEFINE t == InsertAt(s, k, e)
           u == Append(s, e)
<1>2. t \in Seq(S) /\ Len(t) = Len(s) + 1
  BY InsertAtElements
<1>3. \A j \in 1..(Len(s) + 1) :
        t[j] = IF j < k THEN s[j] ELSE IF j = k THEN e ELSE s[j - 1]
  BY InsertAtElements
<1>4. /\ u \in Seq(S) /\ Len(u) = Len(s) + 1
      /\ \A j \in 1..Len(s) : u[j] = s[j]
      /\ u[Len(s) + 1] = e
  BY AppendProperties
<1> HIDE DEF t, u
<1>5. \A j \in 1..(Len(s) + 1) : t[j] = u[j]
  BY <1>1, <1>3, <1>4, LenProperties
<1>6. t = u
  BY <1>2, <1>4, <1>5, SameElements
<1> QED  BY <1>1, <1>6 DEF t, u

\* Taking the first item out leaves the tail.
LEMMA FirstRemoved ==
  ASSUME NEW S, NEW s \in Seq(S), Len(s) # 0
  PROVE  RemoveAt(s, 1) = Tail(s)
<1>1. Len(s) \in Nat /\ 1 \in 1..Len(s) /\ s # <<>>
  BY LenProperties, EmptySeq
<1>2. RemoveAt(s, 1) \in Seq(S) /\ Len(RemoveAt(s, 1)) = Len(s) - 1
  BY <1>1, RemoveAtElements
<1>3. \A j \in 1..(Len(s) - 1) :
        RemoveAt(s, 1)[j] = IF j < 1 THEN s[j] ELSE s[j + 1]
  BY <1>1, RemoveAtElements
<1>4. /\ Tail(s) \in Seq(S) /\ Len(Tail(s)) = Len(s) - 1
      /\ \A j \in 1..(Len(s) - 1) : Tail(s)[j] = s[j + 1]
  BY <1>1, HeadTailProperties
<1>5. \A j \in 1..(Len(s) - 1) : RemoveAt(s, 1)[j] = Tail(s)[j]
  BY <1>1, <1>3, <1>4
<1> QED  BY <1>2, <1>4, <1>5, SameElements

\* The operators on sequences are the same in both modules.
LEMMA AbsQueueOperators ==
  ASSUME TypeOK, Linked
  PROVE  /\ \A s, k : AbsQ!RemoveAt(s, k) = RemoveAt(s, k)
         /\ \A v, k : AbsQ!FirstAt(v, k) <=> FirstAt(v, k)
<1>1. \A v, k : Abs!FirstAt(items, v, k) <=> FirstAt(v, k)
  BY FirstItems
<1> QED  BY <1>1 DEF AbsQ!RemoveAt, RemoveAt, AbsQ!FirstAt, Abs!FirstAt

\* The cast takes an index modulo the range of an int, keeps the lower half of it,
\* makes the upper half negative, and keeps the indexes that fit an int.
LEMMA CastKeepsInt ==
  ASSUME NEW i \in Index
  PROVE  /\ AsInt(i) \in Int /\ (i < IntHalf => AsInt(i) = i)
         /\ i % (2 * IntHalf) \in 0..(2 * IntHalf - 1)
         /\ AsInt(i) = IF i % (2 * IntHalf) < IntHalf THEN i % (2 * IntHalf)
                       ELSE (i % (2 * IntHalf)) - 2 * IntHalf
<1>1. i \in Nat /\ IntHalf \in Nat \ {0} /\ 2 * IntHalf \in Nat \ {0}
  BY QueueAssumption
<1>2. i % (2 * IntHalf) \in 0..(2 * IntHalf - 1)
  BY <1>1
<1>3. ASSUME i < IntHalf
      PROVE  i % (2 * IntHalf) = i
  <2>1. i \in 0..(2 * IntHalf - 1)
    BY <1>1, <1>3
  <2> QED  BY <1>1, <2>1, CountsFromEitherEnd
<1> QED  BY <1>1, <1>2, <1>3 DEF AsInt

\* What queue_get_by_index returns.
LEMMA FetchedItem ==
  ASSUME QueueInv, NEW i \in Index, queue_get_by_index(i),
         NEW ahead, ahead = i % (2 * IntHalf), NEW back, back = 2 * IntHalf - ahead
  PROVE  /\ items' = items /\ length = Len(items) /\ i \in Nat
         /\ i < IntHalf => result' = IF i < length THEN items[i + 1] ELSE NULL
         /\ result' \in {NULL} \cup {items[k] : k \in 1..Len(items)}
         /\ ahead < IntHalf =>
              result' = IF ahead < length THEN items[ahead + 1] ELSE NULL
         /\ ahead >= IntHalf =>
              result' = IF back <= length THEN items[length - back + 1] ELSE NULL
<1>1. /\ TypeOK /\ Linked /\ i \in Nat /\ length \in Nat /\ length = Len(items)
      /\ running
  BY QueueAssumption, ItemsSeq DEF QueueInv, Inv, TypeOK, queue_get_by_index,
                                   dlist_get_by_index
<1>2. AsInt(i) \in Int /\ (i < IntHalf => AsInt(i) = i)
  BY CastKeepsInt
<1>3. /\ items' = items /\ UNCHANGED status
      /\ InRange(AsInt(i)) => Position(AsInt(i)) \in 1..Len(items)
      /\ ret' = IF InRange(AsInt(i)) THEN items[Position(AsInt(i))] ELSE NULL
  BY <1>1, <1>2, IndexedItem DEF queue_get_by_index
<1>4. result' = ret'
  BY <1>1, <1>3 DEF queue_get_by_index, Returns, running, Crashes
<1>5. ASSUME i < IntHalf
      PROVE  result' = IF i < length THEN items[i + 1] ELSE NULL
  BY <1>1, <1>2, <1>3, <1>4, <1>5 DEF InRange, Position
<1>6. ahead \in 0..(2 * IntHalf - 1) /\ IntHalf \in Nat
        /\ AsInt(i) = IF ahead < IntHalf THEN ahead ELSE -back
  BY CastKeepsInt, QueueAssumption
<1>7. ASSUME ahead < IntHalf
      PROVE  result' = IF ahead < length THEN items[ahead + 1] ELSE NULL
  <2>1. AsInt(i) = ahead /\ ahead >= 0
    BY <1>6, <1>7
  <2> QED  BY <1>3, <1>4, <2>1 DEF InRange, Position
<1>8. ASSUME ahead >= IntHalf
      PROVE  result' = IF back <= length THEN items[length - back + 1] ELSE NULL
  <2>1. AsInt(i) = -back /\ back \in Nat \ {0} /\ ~(AsInt(i) >= 0)
    BY <1>6, <1>8
  <2>2. InRange(AsInt(i)) <=> back <= length
    BY <1>1, <2>1 DEF InRange
  <2>3. Position(AsInt(i)) = length - back + 1
    BY <1>1, <2>1 DEF Position
  <2> QED  BY <1>3, <1>4, <2>2, <2>3
<1> QED  BY <1>1, <1>3, <1>4, <1>5, <1>7, <1>8

\* Each call of the queue.
LEMMA QueueStepRefines ==
  ASSUME QueueInv, QueueNext
  PROVE  AbsQ!Next \/ UNCHANGED <<items, queue_size, result>>
<1>1. /\ TypeOK /\ Linked /\ Inv
      /\ items \in Seq(Data) /\ Len(items) = length /\ length \in Nat
      /\ (items = <<>> <=> length = 0)
      /\ queue_size \in Nat /\ length <= queue_size
      /\ queue_size' = queue_size
  BY QueueAssumption, ItemsSeq DEF QueueInv, Inv, QueueTypeOK, TypeOK, Bounded, QueueNext
<1>2. UNCHANGED vars => items' = items
  BY SameItems DEF vars, listVars
<1>3. ASSUME NEW v \in Data, queue_enqueue(v)
      PROVE  AbsQ!Enqueue(v) \/ UNCHANGED <<items, result>>
  <2>1. CASE length = queue_size /\ UNCHANGED vars /\ result' = Q_FAILURE
    BY <1>1, <1>2, <2>1 DEF AbsQ!Enqueue
  <2>2. CASE length # queue_size /\ dlist_append(v) /\ Returns(Q_SUCCESS)
    <3>1. \/ AddFirstFault
          \/ items' = InsertAt(items, Len(items) + 1, v) /\ status' = "running"
      BY <1>1, <2>2, AppendItems
    <3>2. CASE AddFirstFault
      <4>1. Crash("use_after_free")
        BY <3>2 DEF AddFirstFault
      <4>2. items' = items
        BY <4>1, CrashRefines
      <4>3. result' = result
        BY <2>2, <4>1 DEF Crash, Returns, Crashes
      <4> QED  BY <4>2, <4>3
    <3>3. CASE items' = InsertAt(items, Len(items) + 1, v) /\ status' = "running"
      <4>1. items' = Append(items, v)
        BY <1>1, <3>3, InsertLast
      <4>2. result' = Q_SUCCESS
        BY <2>2, <3>3 DEF Returns, Crashes
      <4>3. Len(items) < queue_size
        BY <1>1, <2>2
      <4> QED  BY <4>1, <4>2, <4>3 DEF AbsQ!Enqueue
    <3> QED  BY <3>1, <3>2, <3>3
  <2> QED  BY <1>3, <2>1, <2>2 DEF queue_enqueue
<1>4. ASSUME queue_dequeue
      PROVE  AbsQ!Dequeue
  <2>1. CASE length = 0 /\ UNCHANGED vars /\ result' = NULL
    BY <1>1, <1>2, <2>1 DEF AbsQ!Dequeue
  <2>2. CASE length # 0 /\ dlist_pop_head /\ Returns(ret')
    <3>1. running
      BY <1>4 DEF queue_dequeue
    <3>2. items # <<>> /\ items' = RemoveAt(items, 1) /\ ret' = items[1] /\ UNCHANGED status
      BY <1>1, <2>2, PoppedItems
    <3>3. items' = Tail(items)
      BY <1>1, <2>2, <3>2, FirstRemoved
    <3>5. ret' = Head(items)
      BY <1>1, <3>2
    <3>4. result' = ret'
      BY <2>2, <3>1, <3>2 DEF Returns, running, Crashes
    <3> QED  BY <3>2, <3>3, <3>4, <3>5 DEF AbsQ!Dequeue
  <2> QED  BY <1>4, <2>1, <2>2 DEF queue_dequeue
<1>5. ASSUME NEW v \in Data, queue_remove(v)
      PROVE  AbsQ!TakeOut(v) \/ UNCHANGED <<items, result>>
  <2>0. running /\ dlist_remove_value(v) /\ Returns(ret')
    BY <1>5 DEF queue_remove, dlist_remove_value
  <2>1. \/ Crash("use_after_free")
        \/ \E k \in 1..Len(items) :
             /\ FirstAt(v, k) /\ items' = RemoveAt(items, k)
             /\ ret' = v /\ status' = "running"
        \/ Missing(v) /\ UNCHANGED <<listVars, iterVars, status>> /\ ret' = NULL
    BY <1>1, <2>0, RemovedItems
  <2>2. CASE Crash("use_after_free")
    <3>1. items' = items
      BY <2>2, CrashRefines
    <3>2. result' = result
      BY <2>0, <2>2 DEF Crash, Returns, Crashes
    <3> QED  BY <3>1, <3>2
  <2>3. ASSUME NEW k \in 1..Len(items), FirstAt(v, k), items' = RemoveAt(items, k),
               ret' = v, status' = "running"
        PROVE  AbsQ!TakeOut(v)
    <3>1. result' = v
      BY <2>0, <2>3 DEF Returns, Crashes
    <3> QED  BY <1>1, <2>3, <3>1, AbsQueueOperators DEF AbsQ!TakeOut
  <2>4. ASSUME Missing(v), UNCHANGED <<listVars, iterVars, status>>, ret' = NULL
        PROVE  AbsQ!TakeOut(v)
    <3>1. result' = NULL
      BY <2>0, <2>4 DEF Returns, running, Crashes
    <3>2. items' = items
      BY <2>4, SameItems DEF listVars
    <3>3. \A k \in 1..Len(items) : items[k] # v
      BY <1>1, <2>4, FirstItems
    <3> QED  BY <3>1, <3>2, <3>3 DEF AbsQ!TakeOut
  <2> QED  BY <2>1, <2>2, <2>3, <2>4
<1>6. ASSUME NEW v \in Data, queue_get_by_value(v)
      PROVE  AbsQ!GetByValue(v)
  <2>1. running /\ dlist_get_by_value(v) /\ Returns(ret')
    BY <1>6 DEF queue_get_by_value, dlist_get_by_value
  <2>2. /\ items' = items /\ UNCHANGED status
        /\ ret' = IF \E k \in 1..Len(items) : items[k] = v THEN v ELSE NULL
    BY <1>1, <2>1, FoundItem
  <2>3. result' = ret'
    BY <2>1, <2>2 DEF Returns, running, Crashes
  <2> QED  BY <2>2, <2>3 DEF AbsQ!GetByValue
<1>7. ASSUME NEW i \in Index, queue_get_by_index(i)
      PROVE  AbsQ!GetByIndex(i)
  <2>1. /\ items' = items /\ length = Len(items) /\ i \in Nat
        /\ i < IntHalf => result' = IF i < length THEN items[i + 1] ELSE NULL
        /\ result' \in {NULL} \cup {items[k] : k \in 1..Len(items)}
    BY <1>7, FetchedItem
  <2>2. IntHalf \in Nat
    BY QueueAssumption
  <2>3. (i < IntHalf \/ i >= IntHalf) /\ (i < Len(items) \/ i >= Len(items))
    BY <1>1, <2>1, <2>2
  <2> QED  BY <2>1, <2>2, <2>3 DEF AbsQ!GetByIndex
<1>8. ASSUME queue_destroy
      PROVE  AbsQ!Destroy
  <2>1. chain' = <<>> /\ Len(chain') = 0 /\ result' = NULL
    BY <1>8 DEF queue_destroy, dlist_destroy, Returns, Crashes
  <2>2. items' = <<>>
    BY <2>1 DEF items
  <2> QED  BY <2>1, <2>2 DEF AbsQ!Destroy
<1> QED  BY <1>1, <1>3, <1>4, <1>5, <1>6, <1>7, <1>8 DEF QueueNext, AbsQ!Next

\* The queue is first-in first-out and bounded, whatever is taken out of turn, and
\* every call returns what such a queue returns.
THEOREM QueueImplementsFifo == QueueSpec => ImplementsAbsQueue
<1>1. QueueInit => AbsQ!Init
  <2> SUFFICES ASSUME QueueInit PROVE AbsQ!Init
    OBVIOUS
  <2>1. /\ chain = <<>> /\ Len(chain) = 0 /\ result = NULL
        /\ queue_size \in Nat
    BY QueueAssumption DEF QueueInit, Init, EmptyList
  <2> QED  BY <2>1 DEF items, AbsQ!Init
<1>2. QueueInv /\ [QueueNext]_queueVars => [AbsQ!Next]_(AbsQ!vars)
  <2> SUFFICES ASSUME QueueInv, [QueueNext]_queueVars
               PROVE  AbsQ!Next \/ UNCHANGED <<items, queue_size, result>>
    BY DEF AbsQ!vars
  <2>1. CASE UNCHANGED queueVars
    BY <2>1, SameItems DEF queueVars, vars, listVars
  <2> QED  BY <2>1, QueueStepRefines
<1> QED  BY <1>1, <1>2, QueueInvHolds, PTL DEF QueueSpec, ImplementsAbsQueue, AbsQ!Spec

\* Every index finds the item it counts to, from the oldest or back from the newest
\* as the cast makes it, or nothing (dl_queue.c:136-145).
THEOREM QueueFetchesByIndex == QueueSpec => FetchesByIndex
<1>1. QueueInv /\ [QueueNext]_queueVars
        => [\A i \in Index :
              LET ahead == i % (2 * IntHalf)
                  back == 2 * IntHalf - ahead IN
              queue_get_by_index(i) =>
                /\ ahead < IntHalf =>
                     result' = IF ahead < length THEN items[ahead + 1] ELSE NULL
                /\ ahead >= IntHalf =>
                     result' = IF back <= length
                               THEN items[length - back + 1] ELSE NULL]_queueVars
  BY FetchedItem
<1> QED  BY <1>1, QueueInvHolds, PTL DEF QueueSpec, FetchesByIndex

-----------------------------------------------------------------------------
(***************************************************************************)
(* The circular list: its inductive invariant.                             *)
(***************************************************************************)

\* Until clist_destroy the cursor is the one iterator of the list.
CursorHeld == alive => open = {cursor} /\ status # "destroyed"

\* When clist_insert comes to its last step the cursor is already on the only node.
FirstItemHeld ==
  pc = "first_item" => length = 1 /\ node[cursor] = head /\ index[cursor] = 0

CListInv == Inv /\ CListTypeOK /\ CursorHeld /\ FirstItemHeld

\* What clist_init makes.
LEMMA CListInitInv == CListInit => CListInv
<1> SUFFICES ASSUME CListInit PROVE CListInv
  OBVIOUS
<1> USE CListAssumption
<1>1. /\ Len(chain) = 0 /\ iter_list = <<cursor>> /\ Len(iter_list) = 1
      /\ iter_list[1] = cursor /\ iter_list \in Seq(Iter \cup {Dangling})
  BY DEF CListInit, EmptyList
<1>2. TypeOK
  BY <1>1, EmptySeq DEF CListInit, EmptyList, TypeOK
<1>3. Linked
  BY <1>1 DEF CListInit, EmptyList, Linked, EndsLinked, NextLinked, PrevLinked, NodesLive
<1>4. IterAttached
  BY DListAssumption DEF CListInit, IterAttached
<1>5. RegisteredOnce
  <2>1. cursor # Dangling
    BY DListAssumption
  <2>2. Registered = {cursor}
    BY <1>1 DEF Registered
  <2> QED  BY <1>1, <2>1, <2>2 DEF CListInit, RegisteredOnce
<1>6. CListTypeOK /\ CursorHeld /\ FirstItemHeld
  BY <1>2 DEF CListInit, EmptyList, CListTypeOK, CursorHeld, FirstItemHeld
<1> QED  BY <1>2, <1>3, <1>4, <1>5, <1>6 DEF CListInv, Inv

\* While it can be used, the cursor is registered.
LEMMA CursorRegistered ==
  ASSUME CListInv, alive
  PROVE  /\ open = {cursor} /\ cursor \in Registered /\ cursor \in Iter
         /\ TypeOK /\ Linked /\ IterAttached
BY CListAssumption DEF CListInv, CursorHeld, Inv, RegisteredOnce

\* A call that returns what it may, and leaves the cursor open and the process
\* running or dead, preserves the invariant when the list's own is preserved.
LEMMA KeepsCListInv ==
  ASSUME CListInv, alive, Inv', UNCHANGED <<callVars, open>>, pc' = "idle",
         status' # "destroyed", result' \in Data \cup {NULL, C_SUCCESS, C_FAIL}
  PROVE  CListInv'
<1>1. open' = {cursor}
  BY DEF CListInv, CursorHeld
<1> QED  BY <1>1 DEF CListInv, CListTypeOK, CursorHeld, FirstItemHeld, alive, callVars, Inv

\* A call in which the process dies changes nothing the invariant speaks of.
LEMMA CrashedCListInv ==
  ASSUME CListInv, running, alive, NEW how \in Crashes, Crash(how),
         UNCHANGED <<callVars, result>>, pc' = "idle"
  PROVE  CListInv'
<1>1. Inv' /\ UNCHANGED open /\ status' # "destroyed"
  BY CrashInv DEF CListInv, Crash, iterVars, Crashes
<1>2. result \in Data \cup {NULL, C_SUCCESS, C_FAIL}
  BY DEF CListInv, CListTypeOK
<1> QED  BY <1>1, <1>2, KeepsCListInv

\* What clist_insert comes to: the process dies, the first node is made and takes
\* the cursor, a node is put in at the place asked for, or there is no such place.
InsertFault(i, at) ==
  /\ running /\ UNCHANGED result /\ \E how \in Crashes : Crash(how)
  /\ \/ length = 0 /\ Dangling \in Registered
     \/ length > 0 /\ at = "INDEX" /\ InRange(i) /\ Position(i) = 1

InsertFirst(v) ==
  /\ result' = C_SUCCESS /\ status' = "running"
  /\ \E n \in Node \ alloc : AddFirst(n, v)

InsertLater(v, i, at) ==
  /\ result' = C_SUCCESS /\ status' = "running" /\ length > 0
  /\ UNCHANGED <<open, node, index>>
  /\ IF at = "INDEX" THEN LeaveStaleEntry ELSE UNCHANGED iter_list
  /\ \E n \in Node \ alloc, k \in 1..(Len(chain) + 1) :
       /\ Account(n, v, k)
       /\ at = "HEAD" => k = 1
       /\ at = "TAIL" => k = Len(chain) + 1
       /\ at = "INDEX" => InRange(i) /\ k = Position(i) /\ k # 1

InsertFails(i, at) ==
  /\ result' = C_FAIL /\ status' = "running" /\ length > 0
  /\ at = "INDEX" /\ ~InRange(i) /\ LeaveStaleEntry
  /\ UNCHANGED <<open, node, index, chain, data, length>>

\* An insertion is one of the four.
LEMMA InsertOutcomes ==
  ASSUME CListInv, NEW v \in Data, NEW i \in Index, NEW at \in {"HEAD", "TAIL", "INDEX"},
         clist_insert(v, i, at)
  PROVE  InsertFault(i, at) \/ InsertFirst(v) \/ InsertLater(v, i, at) \/ InsertFails(i, at)
<1>1. /\ TypeOK /\ Linked /\ length \in Nat /\ Len(chain) \in Nat /\ length = Len(chain)
      /\ i \in Int
  BY DListAssumption, ChainFacts DEF CListInv, Inv, TypeOK, Linked
<1>2. running
  BY DEF clist_insert, dlist_prepend, dlist_append, dlist_insert
<1>3. ASSUME NEW how \in Crashes, Crash(how), NEW r, Returns(r),
             \/ length = 0 /\ Dangling \in Registered
             \/ length > 0 /\ at = "INDEX" /\ InRange(i) /\ Position(i) = 1
      PROVE  InsertFault(i, at)
  BY <1>2, <1>3 DEF InsertFault, Returns, Crash
<1>4. ASSUME AddFirstFault, NEW r, Returns(r)
      PROVE  InsertFault(i, at)
  BY <1>3, <1>4 DEF AddFirstFault, Crashes
<1>5. ASSUME NEW n \in Node \ alloc, AddFirst(n, v), Returns(C_SUCCESS)
      PROVE  InsertFirst(v)
  BY <1>2, <1>5 DEF InsertFirst, AddFirst, Returns, running, Crashes
<1>6. ASSUME NEW n \in Node \ alloc, length > 0, Account(n, v, 1),
             UNCHANGED <<iterVars, status>>, Returns(C_SUCCESS), at = "HEAD"
      PROVE  InsertLater(v, i, at)
  <2>1. 1 \in 1..(Len(chain) + 1)
    BY <1>1
  <2>2. /\ result' = C_SUCCESS /\ status' = "running"
        /\ UNCHANGED <<open, node, index, iter_list>>
    BY <1>2, <1>6 DEF Returns, running, Crashes, iterVars
  <2> QED  BY <1>6, <2>1, <2>2 DEF InsertLater
<1>7. ASSUME NEW n \in Node \ alloc, length > 0, Account(n, v, Len(chain) + 1),
             UNCHANGED <<iterVars, status>>, Returns(C_SUCCESS), at = "TAIL"
      PROVE  InsertLater(v, i, at)
  <2>1. Len(chain) + 1 \in 1..(Len(chain) + 1)
    BY <1>1
  <2>2. /\ result' = C_SUCCESS /\ status' = "running"
        /\ UNCHANGED <<open, node, index, iter_list>>
    BY <1>2, <1>7 DEF Returns, running, Crashes, iterVars
  <2> QED  BY <1>7, <2>1, <2>2 DEF InsertLater
<1>8. CASE at = "HEAD" /\ dlist_prepend(v) /\ Returns(C_SUCCESS)
  BY <1>4, <1>5, <1>6, <1>8 DEF dlist_prepend
<1>9. CASE at = "TAIL" /\ dlist_append(v) /\ Returns(C_SUCCESS)
  BY <1>4, <1>5, <1>7, <1>9 DEF dlist_append
<1>10. CASE /\ at = "INDEX" /\ dlist_insert(v, i)
            /\ Returns(IF ret' = DLIST_SUCC THEN C_SUCCESS ELSE C_FAIL)
  <2>1. CASE AddFirstFault
    BY <1>4, <1>10, <2>1
  <2>2. CASE /\ length > 0 /\ InRange(i) /\ Position(i) = 1
             /\ Crash("null_dereference")
    BY <1>3, <1>10, <2>2 DEF Crashes
  <2>3. ASSUME NEW n \in Node \ alloc, AddFirst(n, v), ret' = DLIST_SUCC
        PROVE  InsertFirst(v)
    BY <1>5, <1>10, <2>3
  <2>4. ASSUME NEW n \in Node \ alloc, InsertNowhere(n, i), LeaveStaleEntry,
               UNCHANGED <<open, node, index, status>>
        PROVE  InsertFails(i, at)
    <3>1. ret' # DLIST_SUCC
      BY <2>4, DListAssumption DEF InsertNowhere
    <3>2. result' = C_FAIL /\ status' = "running"
      BY <1>2, <1>10, <2>4, <3>1 DEF Returns, running, Crashes
    <3> QED  BY <1>10, <2>4, <3>2 DEF InsertFails, InsertNowhere
  <2>5. ASSUME NEW n \in Node \ alloc, InsertInside(n, v, i), LeaveStaleEntry,
               UNCHANGED <<open, node, index, status>>
        PROVE  InsertLater(v, i, at)
    <3>1. Position(i) \in 1..Len(chain) /\ InRange(i) /\ Position(i) > 1
      BY <1>1, <2>5, PositionInList DEF InsertInside
    <3>2. Position(i) \in 1..(Len(chain) + 1) /\ Position(i) # 1
      BY <1>1, <3>1
    <3>3. result' = C_SUCCESS /\ status' = "running"
      BY <1>2, <1>10, <2>5 DEF InsertInside, Returns, running, Crashes
    <3>4. length > 0 /\ Account(n, v, Position(i))
      BY <2>5 DEF InsertInside
    <3> QED  BY <1>10, <2>5, <3>1, <3>2, <3>3, <3>4 DEF InsertLater
  <2> QED  BY <1>10, <2>1, <2>2, <2>3, <2>4, <2>5 DEF dlist_insert
<1> QED  BY <1>8, <1>9, <1>10 DEF clist_insert

\* The first node takes the cursor.
LEMMA FirstTakesCursor ==
  ASSUME CListInv, alive, NEW n \in Node \ alloc, NEW v \in Data, AddFirst(n, v)
  PROVE  /\ chain = <<>> /\ Len(chain') = 1 /\ chain'[1] = n /\ head' = n
         /\ node'[cursor] = n /\ index'[cursor] = 0 /\ length' = 1
         /\ UNCHANGED <<open, iter_list>> /\ Dangling \notin Registered
<1>1. /\ TypeOK /\ Linked /\ cursor \in Registered /\ cursor \in Iter
  BY CursorRegistered
<1>2. Len(chain) = 0 /\ chain \in Seq(Node)
  BY <1>1 DEF AddFirst, Linked, TypeOK
<1>3. 1 \in 1..(Len(chain) + 1) /\ Account(n, v, 1)
  BY <1>2 DEF AddFirst
<1>4. /\ Len(chain') = Len(chain) + 1 /\ length' = Len(chain')
      /\ \A j \in 1..(Len(chain) + 1) :
           chain'[j] = IF j < 1 THEN chain[j] ELSE IF j = 1 THEN n ELSE chain[j - 1]
  BY <1>1, <1>3, InsertShape
<1>5. chain = <<>>
  BY <1>2, EmptySeq
<1> QED  BY <1>1, <1>2, <1>4, <1>5 DEF AddFirst, Rewind

\* clist_insert preserves the invariant.
LEMMA ClistInsertInv ==
  ASSUME CListInv, NEW v \in Data, NEW i \in Index, NEW at \in {"HEAD", "TAIL", "INDEX"},
         clist_insert(v, i, at), UNCHANGED callVars
  PROVE  CListInv'
<1>1. /\ Inv /\ Inv' /\ alive /\ TypeOK /\ Linked
      /\ length \in Nat /\ length = Len(chain)
      /\ pc' = IF status' = "running" /\ result' = C_SUCCESS /\ length' = 1
               THEN "first_item" ELSE "idle"
  BY PrependInv, AppendInv, InsertInv
     DEF CListInv, Inv, TypeOK, Linked, alive, clist_insert
<1>2. CASE InsertFault(i, at)
  <2>1. PICK how \in Crashes : Crash(how)
    BY <1>2 DEF InsertFault
  <2>2. status' # "running"
    BY <2>1 DEF Crash, Crashes
  <2> QED  BY <1>1, <1>2, <2>1, <2>2, CrashedCListInv DEF InsertFault
<1>3. CASE InsertFirst(v)
  <2>1. PICK n \in Node \ alloc : AddFirst(n, v)
    BY <1>3 DEF InsertFirst
  <2>2. node'[cursor] = head' /\ index'[cursor] = 0 /\ length' = 1 /\ open' = open
    BY <1>1, <2>1, FirstTakesCursor
  <2>3. pc' = "first_item" /\ result' = C_SUCCESS /\ status' = "running"
    BY <1>1, <1>3, <2>2 DEF InsertFirst
  <2>4. open' = {cursor}
    BY <1>1, <2>2, CursorRegistered
  <2> QED  BY <1>1, <2>2, <2>3, <2>4 DEF CListInv, CListTypeOK, CursorHeld,
                                          FirstItemHeld, callVars, Inv
<1>4. CASE InsertLater(v, i, at)
  <2>1. length' = length + 1 /\ length' # 1 /\ open' = open
    BY <1>1, <1>4 DEF InsertLater, Account
  <2> QED  BY <1>1, <1>4, <2>1, KeepsCListInv DEF InsertLater
<1>5. CASE InsertFails(i, at)
  <2>1. pc' = "idle"
    BY <1>1, <1>5, CListAssumption DEF InsertFails
  <2> QED  BY <1>1, <1>5, <2>1, KeepsCListInv DEF InsertFails
<1> QED  BY <1>2, <1>3, <1>4, <1>5, InsertOutcomes

\* The last step of clist_insert preserves the invariant.
LEMMA SetOnFirstInv ==
  ASSUME CListInv, set_iter_on_first, UNCHANGED callVars
  PROVE  CListInv'
<1>1. /\ cursor \in Iter /\ alive /\ dlist_set_iter(cursor, "ITER_HEAD")
      /\ pc' = "idle" /\ result' = result /\ running
  BY CListAssumption DEF set_iter_on_first, alive, dlist_set_iter
<1>2. Inv'
  BY <1>1, SetIterInv DEF CListInv
<1>3. open' = open /\ status' # "destroyed"
  BY <1>1 DEF dlist_set_iter, Crash, iterVars, running
<1>4. result' \in Data \cup {NULL, C_SUCCESS, C_FAIL}
  BY <1>1 DEF CListInv, CListTypeOK
<1> QED  BY <1>1, <1>2, <1>3, <1>4, KeepsCListInv

\* A call that reads, and returns what the list returned.
LEMMA ReadsCListInv ==
  ASSUME CListInv, pc = "idle", Inv', UNCHANGED <<callVars, open, pc>>,
         status' # "destroyed", Returns(ret'),
         status' \in Crashes \/ ret' \in Data \cup {NULL}
  PROVE  CListInv'
<1>1. result' \in Data \cup {NULL, C_SUCCESS, C_FAIL}
  BY DEF Returns, CListInv, CListTypeOK
<1> QED  BY <1>1, KeepsCListInv DEF alive

\* clist_get_value preserves the invariant.
LEMMA ClistValueInv ==
  ASSUME CListInv, clist_get_value, UNCHANGED callVars
  PROVE  CListInv'
<1>1. /\ cursor \in Iter /\ iter_get_value(cursor) /\ running /\ pc = "idle"
      /\ TypeOK /\ Linked /\ IterAttached
  BY CListAssumption DEF clist_get_value, iter_get_value, CListInv, Inv
<1>2. Inv'
  BY <1>1, GetValueInv DEF CListInv
<1>3. open' = open /\ status' # "destroyed"
  BY <1>1 DEF iter_get_value, Crash, iterVars, running
<1>4. status' \in Crashes \/ ret' \in Data \cup {NULL}
  <2>1. CASE Crash("use_after_free")
    BY <2>1 DEF Crash, Crashes
  <2>2. CASE /\ node[cursor] # Dangling
             /\ ret' = IF node[cursor] = NULL THEN NULL ELSE data[node[cursor]]
    <3>1. node[cursor] = NULL \/ node[cursor] \in Linked_nodes
      BY <1>1, <2>2 DEF IterAttached, TypeOK
    <3> QED  BY <1>1, <2>2, <3>1, ValuesInData
  <2> QED  BY <1>1, <2>1, <2>2 DEF iter_get_value
<1> QED  BY <1>1, <1>2, <1>3, <1>4, ReadsCListInv DEF clist_get_value

\* Wrapping round puts the cursor on the head, like dlist_set_iter_head.
LEMMA WrapInv ==
  ASSUME Inv, running, cursor \in Iter, Wrap
  PROVE  Inv' /\ open' = open /\ (status' \in Crashes \/ ret' \in Data)
         /\ status' # "destroyed"
<1>1. /\ TypeOK /\ Linked /\ IterAttached /\ RegisteredOnce /\ length \in Nat
  BY DEF Inv, TypeOK
<1>2. CASE Crash("assert_failed")
  <2>1. Inv'
    BY <1>2, CrashInv DEF Crashes
  <2> QED  BY <1>2, <2>1 DEF Crash, iterVars, Crashes
<1>3. CASE /\ length > 0
           /\ node' = [node EXCEPT ![cursor] = head]
           /\ index' = [index EXCEPT ![cursor] = 0]
           /\ ret' = data[head] /\ UNCHANGED <<listVars, iter_list, open, status>>
  <2>1. head \in Linked_nodes /\ head \in Node /\ data[head] \in Data
    <3>1. head = chain[1] /\ 1 \in 1..Len(chain)
      BY <1>1, <1>3 DEF Linked, EndsLinked
    <3>2. chain[1] \in Linked_nodes
      BY <3>1 DEF Linked_nodes
    <3> QED  BY <1>1, <3>1, <3>2, ValuesInData
  <2>2. TypeOK'
    BY <1>1, <1>3, <2>1 DEF TypeOK, listVars
  <2>3. Linked' /\ Linked_nodes' = Linked_nodes
    BY <1>1, <1>3, SameListLinked
  <2>4. IterAttached'
    BY <1>1, <1>3, <2>1, <2>3 DEF IterAttached, TypeOK
  <2>5. RegisteredOnce'
    BY <1>1, <1>3, SameItersRegistered
  <2> QED  BY <1>3, <2>1, <2>2, <2>3, <2>4, <2>5 DEF Inv, running
<1> QED  BY <1>2, <1>3 DEF Wrap

\* clist_get_next preserves the invariant.
LEMMA ClistNextInv ==
  ASSUME CListInv, clist_get_next, UNCHANGED callVars
  PROVE  CListInv'
<1>1. /\ cursor \in Iter /\ running /\ pc = "idle" /\ Inv
      /\ TypeOK /\ Linked /\ IterAttached
  BY CListAssumption DEF clist_get_next, CListInv, Inv
<1>2. CASE iterate(cursor, "NEXT")
  <2>1. Inv'
    BY <1>1, <1>2, IterateInv
  <2>2. open' = open /\ status' # "destroyed"
    BY <1>1, <1>2 DEF iterate, Crash, iterVars, running
  <2>3. status' \in Crashes \/ ret' \in Data \cup {NULL}
    <3>1. CASE Crash("use_after_free")
      BY <3>1 DEF Crash, Crashes
    <3>2. CASE node[cursor] # Dangling
      <4> DEFINE c == Step(Cursor(cursor), "NEXT")
      <4>1. c \in Cursors
        BY <1>1, <3>2, CursorInList, StepInList
      <4>2. ret' = IF c.node = NULL THEN NULL ELSE data[c.node]
        BY <1>2, <3>2 DEF iterate
      <4> HIDE DEF c
      <4>3. c.node = NULL \/ c.node \in Linked_nodes
        BY <4>1 DEF Cursors
      <4> QED  BY <1>1, <4>2, <4>3, ValuesInData
    <3> QED  BY <1>2, <3>1, <3>2 DEF iterate
  <2> QED  BY <1>1, <2>1, <2>2, <2>3, ReadsCListInv DEF clist_get_next
<1>3. CASE Wrap
  BY <1>1, <1>3, WrapInv, ReadsCListInv DEF clist_get_next
<1> QED  BY <1>2, <1>3 DEF clist_get_next

\* clist_find, clist_remove and clist_quick_sort preserve the invariant.
LEMMA ClistListCallInv ==
  ASSUME CListInv, UNCHANGED callVars,
         \/ \E v \in Data : clist_find(v) \/ clist_remove(v)
         \/ \E order \in {"C_ASCENDING", "C_DESCENDING"} : clist_quick_sort(order)
  PROVE  CListInv'
<1>1. Inv /\ TypeOK /\ Linked
  BY DEF CListInv, Inv
<1>2. ASSUME NEW v \in Data, clist_find(v)
      PROVE  CListInv'
  <2>1. Inv'
    BY <1>1, <1>2, GetByValueInv DEF clist_find
  <2>2. ret' \in Data \cup {NULL}
    BY <1>1, <1>2, ValuesInData DEF clist_find, dlist_get_by_value
  <2>3. open' = open /\ status' # "destroyed"
    BY <1>2 DEF clist_find, dlist_get_by_value, iterVars, running
  <2> QED  BY <1>2, <2>1, <2>2, <2>3, ReadsCListInv DEF clist_find
<1>3. ASSUME NEW v \in Data, clist_remove(v)
      PROVE  CListInv'
  <2>1. Inv' /\ running /\ dlist_remove_value(v)
    BY <1>1, <1>3, RemoveValueInv DEF clist_remove, dlist_remove_value
  <2>2. /\ ret' \in Data \cup {NULL} \/ status' \in Crashes
        /\ status' # "destroyed"
    <3>1. CASE Crash("use_after_free")
      BY <3>1 DEF Crash, Crashes
    <3> QED  BY <1>1, <2>1, <3>1, RemovedItems DEF running
  <2>3. open' = open
    <3>1. ASSUME NEW k, NEW at, remove_node(k, at)
          PROVE  open' = open
      BY <3>1 DEF remove_node
    <3>2. ASSUME NEW k, RemoveMatch(k)
          PROVE  open' = open
      BY <3>1, <3>2 DEF RemoveMatch, Crash, iterVars
    <3> QED  BY <2>1, <3>2 DEF dlist_remove_value, iterVars
  <2> QED  BY <1>3, <2>1, <2>2, <2>3, ReadsCListInv DEF clist_remove
<1>4. ASSUME NEW order, clist_quick_sort(order)
      PROVE  CListInv'
  <2>1. PICK dir : dlist_quick_sort(dir)
    BY <1>4 DEF clist_quick_sort
  <2>2. Inv'
    BY <1>1, <2>1, SortInv
  <2>3. open' = open /\ status' # "destroyed" /\ status' \notin Crashes
    BY <2>1 DEF dlist_quick_sort, iterVars, running, Crashes
  <2>4. result' = NULL /\ pc = "idle" /\ pc' = pc
    BY <1>4, <2>3 DEF clist_quick_sort, Returns
  <2> QED  BY <2>2, <2>3, <2>4, KeepsCListInv DEF alive
<1> QED  BY <1>2, <1>3, <1>4

\* The two steps of clist_destroy preserve the invariant: the cursor goes first.
LEMMA ClistDestroyInv ==
  ASSUME CListInv, UNCHANGED callVars,
         \/ \E remove_nodes : clist_destroy(remove_nodes)
         \/ destroy_list
  PROVE  CListInv'
<1>1. Inv /\ cursor \in Iter /\ result \in Data \cup {NULL, C_SUCCESS, C_FAIL}
  BY CListAssumption DEF CListInv, CListTypeOK
<1>2. /\ Inv' /\ pc' \in {"lost", "destroying", "done"}
      /\ result' \in Data \cup {NULL, C_SUCCESS, C_FAIL}
  BY <1>1, DestroyIterInv, DestroyInv DEF clist_destroy, destroy_list
<1> QED  BY <1>2 DEF CListInv, CListTypeOK, CursorHeld, FirstItemHeld, alive, callVars, Inv

\* Every call preserves the invariant.
LEMMA CListNextInv ==
  ASSUME CListInv, [CListNext]_clistVars
  PROVE  CListInv'
<1>1. CASE UNCHANGED clistVars
  <2>1. Inv'
    BY <1>1, StutterInv DEF clistVars, CListInv
  <2> QED  BY <1>1, <2>1 DEF clistVars, vars, listVars, iterVars, callVars, CListInv,
             CListTypeOK, CursorHeld, FirstItemHeld, alive, Inv
<1>2. CASE CListNext
  BY <1>2, ClistInsertInv, SetOnFirstInv, ClistValueInv, ClistNextInv, ClistListCallInv,
     ClistDestroyInv DEF CListNext
<1> QED  BY <1>1, <1>2

\* Whatever the client calls, the ring is a well-formed list with its cursor
\* registered for as long as it can be used.
THEOREM CListInvHolds == CListSpec => []CListInv
<1> QED  BY CListInitInv, CListNextInv, PTL DEF CListSpec

\* Every variable of the circular list and of its list keeps its type.
THEOREM CListTypesHold == CListSpec => []CListTypeOK
<1>1. CListInv => CListTypeOK
  BY DEF CListInv
<1> QED  BY <1>1, CListInvHolds, PTL

-----------------------------------------------------------------------------
(***************************************************************************)
(* The circular list implements the ring of items and a current position.  *)
(***************************************************************************)

\* Where an iterator stands, for a chain of distinct nodes that holds its node.
LEMMA PlaceFacts ==
  ASSUME NEW ch \in Seq(Node), \A a, b \in 1..Len(ch) : ch[a] = ch[b] => a = b,
         NEW n \in Node \cup {NULL, Dangling},
         n \in Node => \E k \in 1..Len(ch) : ch[k] = n
  PROVE  /\ n = NULL => PlaceIn(ch, n) = 0
         /\ n = Dangling => PlaceIn(ch, n) = -1
         /\ \A k \in 1..Len(ch) : ch[k] = n => PlaceIn(ch, n) = k
         /\ PlaceIn(ch, n) \in {-1, 0} \cup 1..Len(ch)
         /\ PlaceIn(ch, n) \in 1..Len(ch) => n = ch[PlaceIn(ch, n)]
<1>1. NULL \notin Node /\ Dangling \notin Node /\ NULL # Dangling
  BY DListAssumption
<1>2. \A k \in 1..Len(ch) : ch[k] \in Node /\ k >= 1
  BY LenProperties, ElementOfSeq
<1>3. CASE n = NULL
  BY <1>1, <1>2, <1>3 DEF PlaceIn
<1>4. CASE n = Dangling
  BY <1>1, <1>2, <1>4 DEF PlaceIn
<1>5. CASE n \in Node
  <2>1. PICK k \in 1..Len(ch) : ch[k] = n
    BY <1>5
  <2>2. PlaceIn(ch, n) = CHOOSE j \in 1..Len(ch) : ch[j] = n
    BY <1>1, <1>5 DEF PlaceIn
  <2>3. PlaceIn(ch, n) = k
    BY <2>1, <2>2
  <2> QED  BY <1>1, <1>5, <2>1, <2>3
<1> QED  BY <1>3, <1>4, <1>5

\* The position of the cursor and the items of the ring.
LEMMA CurrentFacts ==
  ASSUME CListInv, alive
  PROVE  /\ node[cursor] = NULL => current = 0
         /\ node[cursor] = Dangling => current = -1
         /\ \A k \in 1..Len(chain) : chain[k] = node[cursor] => current = k
         /\ current \in {-1, 0} \cup 1..Len(chain)
         /\ current \in 1..Len(chain) => node[cursor] = chain[current]
         /\ contents = items /\ contents \in Seq(Data) /\ Len(contents) = Len(chain)
         /\ length = Len(chain) /\ length \in Nat /\ (contents = <<>> <=> length = 0)
         /\ \A k \in 1..Len(chain) : contents[k] = data[chain[k]]
<1>1. TypeOK /\ Linked /\ IterAttached /\ cursor \in Iter
  BY CursorRegistered
<1>2. /\ chain \in Seq(Node) /\ \A a, b \in 1..Len(chain) : chain[a] = chain[b] => a = b
      /\ node[cursor] \in Node \cup {NULL, Dangling}
      /\ node[cursor] \in Node => \E k \in 1..Len(chain) : chain[k] = node[cursor]
      /\ length = Len(chain) /\ length \in Nat
  BY <1>1 DEF TypeOK, Linked, NodesLive, IterAttached, Linked_nodes
<1>3. current = PlaceIn(chain, node[cursor])
  BY DEF current
<1>4. contents = items
  BY DEF contents
<1>5. /\ items \in Seq(Data) /\ Len(items) = Len(chain) /\ (items = <<>> <=> length = 0)
      /\ \A k \in 1..Len(chain) : items[k] = data[chain[k]]
  BY <1>1, ItemsSeq DEF ValueAt
<1> QED  BY <1>2, <1>3, <1>4, <1>5, PlaceFacts

\* The same after a step.
LEMMA NextCurrentFacts ==
  ASSUME CListInv', alive'
  PROVE  /\ node'[cursor] = NULL => current' = 0
         /\ node'[cursor] = Dangling => current' = -1
         /\ \A k \in 1..Len(chain') : chain'[k] = node'[cursor] => current' = k
         /\ current' \in {-1, 0} \cup 1..Len(chain')
         /\ contents' = items'
         /\ reported' = IF current' = 0 THEN 0 ELSE index'[cursor]
<1>1. TypeOK' /\ Linked' /\ IterAttached' /\ cursor \in Iter
  BY CListAssumption DEF CListInv, Inv
<1>2. /\ chain' \in Seq(Node)
      /\ \A a, b \in 1..Len(chain') : chain'[a] = chain'[b] => a = b
      /\ node'[cursor] \in Node \cup {NULL, Dangling}
      /\ node'[cursor] \in Node => \E k \in 1..Len(chain') : chain'[k] = node'[cursor]
  BY <1>1 DEF TypeOK, Linked, NodesLive, IterAttached, Linked_nodes
<1>3. current' = PlaceIn(chain', node'[cursor])
  BY DEF current, PlaceIn
<1>4. contents' = items'
  BY DEF contents
<1>5. reported' = IF current' = 0 THEN 0 ELSE index'[cursor]
  BY DEF reported
<1> QED  BY <1>2, <1>3, <1>4, <1>5, PlaceFacts

\* The operators on sequences are the same in both modules.
LEMMA RingOperators ==
  /\ \A s, k, e : Ring!InsertAt(s, k, e) = InsertAt(s, k, e)
  /\ \A s, k : Ring!RemoveAt(s, k) = RemoveAt(s, k)
  /\ \A S, T : Ring!Bijection(S, T) = Bijection(S, T)
BY DEF Ring!InsertAt, InsertAt, Ring!RemoveAt, RemoveAt, Ring!Bijection, Bijection,
       Ring!Injection, Injection, Ring!Surjection, Surjection, Ring!IsInjective, IsInjective

\* A step that leaves list and cursor alone leaves the ring as it is.
LEMMA SameRing ==
  ASSUME alive, alive', UNCHANGED <<chain, data, node, index>>
  PROVE  contents' = contents /\ current' = current /\ reported' = reported
<1>1. items' = items
  BY SameItems
<1>2. contents' = contents
  BY <1>1 DEF contents
<1>3. current' = current
  BY DEF current, PlaceIn
<1>4. reported' = reported
  BY <1>3 DEF reported
<1> QED  BY <1>2, <1>3, <1>4

\* A call that leaves iter_list alone leaves no stale entry; one that leaves one
\* says so.
LEMMA SameStale ==
  ASSUME alive, alive', UNCHANGED iter_list
  PROVE  stale_entry' = stale_entry
BY SameEntries DEF stale_entry

\* An index that is looked up or inserted at makes the ring's stale entry.
LEMMA EntryLeft ==
  ASSUME CListInv, alive', LeaveStaleEntry
  PROVE  stale_entry' = TRUE
<1>1. Registered' = Registered \cup {Dangling}
  BY EntryRegistered DEF CListInv, Inv, LeaveStaleEntry
<1> QED  BY <1>1 DEF stale_entry

\* A call that returns in a running process.
LEMMA RingReturns ==
  ASSUME running, status' \notin Crashes, NEW r, Returns(r)
  PROVE  Ring!Returns(r) /\ result' = r
<1>1. died' = died
  BY DEF died, running, Crashes
<1> QED  BY <1>1 DEF Ring!Returns, Returns

\* A call in which the process dies changes nothing else.
LEMMA RingDies ==
  ASSUME alive, alive', NEW how \in Crashes, Crash(how), result' = result
  PROVE  Ring!Dies
<1>1. UNCHANGED <<chain, data, node, index, iter_list>> /\ status' \in Crashes
  BY DEF Crash, listVars, iterVars
<1>2. died' = TRUE
  BY <1>1 DEF died
<1>3. UNCHANGED <<contents, current, reported, stale_entry>>
  BY <1>1, SameRing, SameStale
<1> QED  BY <1>2, <1>3 DEF Ring!Dies

\* The first item is the current one, and its position is known.
LEMMA InsertFirstRing ==
  ASSUME CListInv, CListInv', alive, alive', running, NEW v \in Data, InsertFirst(v)
  PROVE  Ring!First(v)
<1>1. PICK n \in Node \ alloc : AddFirst(n, v)
  BY DEF InsertFirst
<1>2. /\ Len(chain') = 1 /\ chain'[1] = n /\ node'[cursor] = n /\ index'[cursor] = 0
      /\ iter_list' = iter_list /\ Dangling \notin Registered
  BY <1>1, FirstTakesCursor
<1>3. current' = 1 /\ reported' = 0
  <2>1. current' = 1
    BY <1>2, NextCurrentFacts
  <2> QED  BY <1>2, <2>1, NextCurrentFacts
<1>4. TypeOK /\ Linked /\ contents = items /\ contents' = items'
  BY CursorRegistered, CurrentFacts, NextCurrentFacts
<1>5. contents = <<>> /\ contents' = <<v>>
  BY <1>1, <1>4, AddFirstItems
<1>6. Ring!Returns(C_SUCCESS)
  BY RingReturns DEF InsertFirst, Returns, Crashes
<1>7. ~stale_entry /\ stale_entry' = stale_entry
  BY <1>2, SameStale DEF stale_entry
<1> QED  BY <1>3, <1>5, <1>6, <1>7 DEF Ring!First

\* A later item shifts the current one when it is put in front of it.
LEMMA InsertLaterRing ==
  ASSUME CListInv, CListInv', alive, alive', running, NEW v \in Data, NEW i, NEW at,
         InsertLater(v, i, at)
  PROVE  /\ contents # <<>>
         /\ \E k \in 1..(Len(contents) + 1) :
              /\ Ring!PutAt(k, v)
              /\ at = "HEAD" => k = 1
              /\ at = "TAIL" => k = Len(contents) + 1
              /\ at = "INDEX" => InRange(i) /\ k = Position(i) /\ k # 1
<1>1. PICK n \in Node \ alloc, k \in 1..(Len(chain) + 1) :
        /\ Account(n, v, k)
        /\ at = "HEAD" => k = 1
        /\ at = "TAIL" => k = Len(chain) + 1
        /\ at = "INDEX" => InRange(i) /\ k = Position(i) /\ k # 1
  BY DEF InsertLater
<1>2. TypeOK /\ Linked /\ contents = items /\ contents' = items'
      /\ Len(contents) = Len(chain) /\ Len(chain) \in Nat /\ contents # <<>>
  BY CursorRegistered, CurrentFacts, NextCurrentFacts DEF InsertLater
<1>3. items' = InsertAt(items, k, v)
  BY <1>1, <1>2, InsertItems
<1>4. contents' = Ring!InsertAt(contents, k, v)
  BY <1>2, <1>3, RingOperators
<1>5. /\ Len(chain') = Len(chain) + 1
      /\ \A j \in 1..(Len(chain) + 1) :
           chain'[j] = IF j < k THEN chain[j] ELSE IF j = k THEN n ELSE chain[j - 1]
  BY <1>1, <1>2, InsertShape
<1>6. /\ k \in Nat /\ k >= 1 /\ node'[cursor] = node[cursor]
  BY <1>1, <1>2 DEF InsertLater
<1>7. current' = IF current >= k THEN current + 1 ELSE current
  <2>1. CASE node[cursor] = NULL
    <3>1. current = 0 /\ current' = 0
      BY <1>6, <2>1, CurrentFacts, NextCurrentFacts
    <3> QED  BY <3>1, <1>6
  <2>2. CASE node[cursor] = Dangling
    <3>1. current = -1 /\ current' = -1
      BY <1>6, <2>2, CurrentFacts, NextCurrentFacts
    <3> QED  BY <3>1, <1>6
  <2>3. ASSUME NEW c \in 1..Len(chain), chain[c] = node[cursor]
        PROVE  current' = IF current >= k THEN current + 1 ELSE current
    <3>1. current = c
      BY <2>3, CurrentFacts
    <3>2. CASE c >= k
      <4>1. PICK d \in 1..(Len(chain) + 1) : d = c + 1
        BY <1>2
      <4>2. d - 1 = c /\ ~(d < k) /\ d # k /\ d \in 1..Len(chain')
        BY <1>2, <1>5, <1>6, <3>2, <4>1
      <4>3. chain'[d] = node'[cursor]
        BY <1>5, <1>6, <2>3, <4>2
      <4>4. current' = d
        BY <4>2, <4>3, NextCurrentFacts
      <4> QED  BY <3>1, <3>2, <4>1, <4>4
    <3>3. CASE ~(c >= k)
      <4>1. c \in 1..(Len(chain) + 1) /\ c < k /\ c \in 1..Len(chain')
        BY <1>2, <1>5, <1>6, <3>3
      <4>2. chain'[c] = node'[cursor]
        BY <1>5, <1>6, <2>3, <4>1
      <4>3. current' = c
        BY <4>1, <4>2, NextCurrentFacts
      <4> QED  BY <3>1, <3>3, <4>3
    <3> QED  BY <3>2, <3>3
  <2>4. /\ node[cursor] \in Node \cup {NULL, Dangling}
        /\ node[cursor] \in Node => \E c \in 1..Len(chain) : chain[c] = node[cursor]
    <3>1. cursor \in Iter /\ TypeOK /\ IterAttached
      BY CursorRegistered
    <3> QED  BY <3>1 DEF TypeOK, IterAttached, Linked_nodes
  <2> QED  BY <2>1, <2>2, <2>3, <2>4
<1>8. reported' = reported
  <2>1. current' = 0 <=> current = 0
    BY <1>6, <1>7, CurrentFacts
  <2> QED  BY <2>1, NextCurrentFacts DEF reported, InsertLater
<1>9. Ring!Returns(C_SUCCESS)
  BY RingReturns DEF InsertLater, Returns, Crashes
<1>10. Ring!PutAt(k, v)
  BY <1>4, <1>7, <1>8, <1>9 DEF Ring!PutAt
<1> QED  BY <1>1, <1>2, <1>10

\* clist_insert.
LEMMA ClistInsertRefines ==
  ASSUME CListInv, CListInv', NEW v \in Data, NEW i \in Index,
         NEW at \in {"HEAD", "TAIL", "INDEX"}, clist_insert(v, i, at)
  PROVE  Ring!Insert(v, i, at)
<1>1. alive /\ alive' /\ running
  BY DEF clist_insert, alive, dlist_prepend, dlist_append, dlist_insert
<1>2. /\ Len(contents) = length /\ length \in Nat /\ (contents = <<>> <=> length = 0)
      /\ i \in Int
  BY <1>1, CurrentFacts, DListAssumption
<1>3. (Ring!InRange(i) <=> InRange(i)) /\ Ring!Position(i) = Position(i)
  BY <1>2 DEF Ring!InRange, InRange, Ring!Position, Position
<1>4. CASE InsertFault(i, at)
  <2>1. Ring!Dies
    BY <1>1, <1>4, RingDies DEF InsertFault
  <2>2. CASE length = 0 /\ Dangling \in Registered
    <3>1. Ring!First(v)
      BY <1>1, <1>2, <2>1, <2>2 DEF Ring!First, stale_entry
    <3> QED  BY <3>1 DEF Ring!Insert
  <2>3. CASE length > 0 /\ at = "INDEX" /\ InRange(i) /\ Position(i) = 1
    <3>1. contents # <<>> /\ Ring!PutAtIndex(v, i)
      BY <1>2, <1>3, <2>1, <2>3 DEF Ring!PutAtIndex
    <3> QED  BY <2>3, <3>1 DEF Ring!Insert
  <2> QED  BY <1>4, <2>2, <2>3 DEF InsertFault
<1>5. CASE InsertFirst(v)
  BY <1>1, <1>5, InsertFirstRing DEF Ring!Insert
<1>6. CASE InsertLater(v, i, at)
  <2>1. PICK k \in 1..(Len(contents) + 1) :
              /\ Ring!PutAt(k, v)
              /\ at = "HEAD" => k = 1
              /\ at = "TAIL" => k = Len(contents) + 1
              /\ at = "INDEX" => InRange(i) /\ k = Position(i) /\ k # 1
    BY <1>1, <1>6, InsertLaterRing
  <2>2. contents # <<>>
    BY <1>1, <1>6, InsertLaterRing
  <2>3. CASE at = "INDEX"
    <3>1. stale_entry' = TRUE
      BY <1>1, <1>6, <2>3, EntryLeft DEF InsertLater
    <3>2. Ring!PutAtIndex(v, i)
      BY <1>3, <2>1, <2>3, <3>1 DEF Ring!PutAtIndex
    <3> QED  BY <2>2, <2>3, <3>2 DEF Ring!Insert
  <2>4. CASE at # "INDEX"
    <3>1. stale_entry' = stale_entry
      BY <1>1, <1>6, <2>4, SameStale DEF InsertLater
    <3> QED  BY <2>1, <2>2, <2>4, <3>1 DEF Ring!Insert
  <2> QED  BY <2>3, <2>4
<1>7. CASE InsertFails(i, at)
  <2>1. UNCHANGED <<contents, current, reported>>
    BY <1>1, <1>7, SameRing DEF InsertFails
  <2>2. contents # <<>> /\ stale_entry' = TRUE
    BY <1>1, <1>2, <1>7, EntryLeft DEF InsertFails
  <2>3. Ring!Returns(C_FAIL)
    BY <1>1, <1>7, RingReturns DEF InsertFails, Returns, Crashes
  <2>4. Ring!PutAtIndex(v, i)
    BY <1>3, <1>7, <2>1, <2>2, <2>3 DEF InsertFails, Ring!PutAtIndex
  <2> QED  BY <1>7, <2>2, <2>4 DEF InsertFails, Ring!Insert
<1> QED  BY <1>4, <1>5, <1>6, <1>7, InsertOutcomes

\* The last step of clist_insert puts the cursor where it is.
LEMMA SetOnFirstRefines ==
  ASSUME CListInv, CListInv', set_iter_on_first
  PROVE  UNCHANGED <<contents, current, reported, stale_entry, result, died>>
<1>1. /\ cursor \in Iter /\ alive /\ alive' /\ dlist_set_iter(cursor, "ITER_HEAD")
      /\ result' = result /\ length = 1 /\ node[cursor] = head /\ index[cursor] = 0
      /\ node \in [Iter -> Node \cup {NULL, Dangling}] /\ index \in [Iter -> Int]
  BY CListAssumption DEF set_iter_on_first, alive, CListInv, FirstItemHeld, Inv, TypeOK
<1>2. /\ UNCHANGED <<chain, data, iter_list, status>>
      /\ node' = [node EXCEPT ![cursor] = head] /\ index' = [index EXCEPT ![cursor] = 0]
  BY <1>1 DEF dlist_set_iter, listVars
<1>3. node' = node /\ index' = index
  BY <1>1, <1>2
<1> QED  BY <1>1, <1>2, <1>3, SameRing, SameStale DEF died

\* clist_get_value: the value of the current item.
LEMMA ClistValueRefines ==
  ASSUME CListInv, CListInv', clist_get_value
  PROVE  Ring!Value
<1>1. /\ cursor \in Iter /\ alive /\ alive' /\ iter_get_value(cursor) /\ Returns(ret')
      /\ running
  BY CListAssumption DEF clist_get_value, alive, iter_get_value
<1>2. CASE node[cursor] = Dangling /\ Crash("use_after_free")
  <2>1. result' = result /\ current = -1
    BY <1>1, <1>2, CurrentFacts DEF Crash, Returns, Crashes
  <2>2. Ring!Dies
    BY <1>1, <1>2, <2>1, RingDies DEF Crashes
  <2> QED  BY <2>1, <2>2 DEF Ring!Value, Ring!Lost
<1>3. CASE /\ node[cursor] # Dangling
           /\ ret' = IF node[cursor] = NULL THEN NULL ELSE data[node[cursor]]
           /\ UNCHANGED <<listVars, iterVars, status>>
  <2>1. UNCHANGED <<contents, current, reported, stale_entry>>
    BY <1>1, <1>3, SameRing, SameStale DEF listVars, iterVars
  <2>2. Ring!Returns(ret')
    BY <1>1, <1>3, RingReturns DEF running, Crashes
  <2>3. CASE node[cursor] = NULL
    <3>1. current = 0 /\ ret' = NULL
      BY <1>1, <1>3, <2>3, CurrentFacts
    <3> QED  BY <2>1, <2>2, <3>1 DEF Ring!Value, Ring!Lost
  <2>4. ASSUME NEW k \in 1..Len(chain), chain[k] = node[cursor], node[cursor] # NULL
        PROVE  Ring!Value
    <3>1. current = k /\ contents[k] = data[chain[k]] /\ k \in Nat /\ k >= 1
      BY <1>1, <2>4, CurrentFacts
    <3>2. ret' = contents[current] /\ current # 0 /\ current # -1
      BY <1>3, <2>4, <3>1
    <3> QED  BY <2>1, <2>2, <3>2 DEF Ring!Value, Ring!Lost
  <2>5. node[cursor] = NULL \/ \E k \in 1..Len(chain) : chain[k] = node[cursor]
    BY <1>1, <1>3, CursorRegistered DEF TypeOK, IterAttached, Linked_nodes
  <2> QED  BY <2>3, <2>4, <2>5
<1> QED  BY <1>1, <1>2, <1>3 DEF iter_get_value

\* The position behind k in a ring of n items.
LEMMA NextInRing ==
  ASSUME NEW n \in Nat \ {0}
  PROVE  /\ 0 % n = 0 /\ n % n = 0
         /\ \A k \in 1..(n - 1) : k % n = k
<1>1. 0 \in 0..(n - 1) /\ \A k \in 1..(n - 1) : k \in 0..(n - 1) /\ k \in Int
  OBVIOUS
<1>2. 0 % n = 0 /\ \A k \in 1..(n - 1) : k % n = k
  BY <1>1, CountsFromEitherEnd
<1>3. n % n = 0
  BY Z3
<1> QED  BY <1>2, <1>3

\* clist_get_next: the item behind the current one, the first behind the last.
LEMMA ClistNextRefines ==
  ASSUME CListInv, CListInv', clist_get_next
  PROVE  Ring!Rotate
<1>1. /\ cursor \in Iter /\ alive /\ alive' /\ Returns(ret') /\ running
      /\ TypeOK /\ Linked /\ IterAttached
  BY CursorRegistered DEF clist_get_next, alive
<1>2. /\ Len(contents) = Len(chain) /\ Len(chain) \in Nat /\ length = Len(chain)
      /\ \A k \in 1..Len(chain) : contents[k] = data[chain[k]]
      /\ contents = <<>> <=> Len(chain) = 0
      /\ index \in [Iter -> Int]
  BY <1>1, CurrentFacts DEF TypeOK
<1>3. ASSUME NEW how \in Crashes, Crash(how), current = -1 \/ length = 0
      PROVE  Ring!Rotate
  <2>1. result' = result
    BY <1>1, <1>3 DEF Crash, Returns
  <2>2. Ring!Dies
    BY <1>1, <1>3, <2>1, RingDies
  <2> QED  BY <1>2, <1>3, <2>2 DEF Ring!Rotate, Ring!Lost
<1>4. ASSUME NEW k \in 1..Len(chain), NEW x \in Int,
             node' = [node EXCEPT ![cursor] = chain[k]],
             index' = [index EXCEPT ![cursor] = x],
             ret' = data[chain[k]], UNCHANGED <<listVars, iter_list, status>>,
             k = (current % Len(chain)) + 1, current # -1,
             x = IF k = 1 THEN 0 ELSE reported + 1
      PROVE  Ring!Rotate
  <2>1. UNCHANGED <<chain, data>> /\ node'[cursor] = chain[k] /\ index'[cursor] = x
    BY <1>1, <1>2, <1>4 DEF listVars, TypeOK
  <2>2. current' = k /\ contents' = contents
    <3>1. k \in 1..Len(chain') /\ chain'[k] = node'[cursor]
      BY <1>4, <2>1
    <3>2. items' = items
      BY <2>1, SameItems
    <3> QED  BY <1>1, <3>1, <3>2, CurrentFacts, NextCurrentFacts
  <2>3. reported' = x
    <3>1. k # 0
      BY <1>2
    <3> QED  BY <1>1, <2>1, <2>2, <3>1, NextCurrentFacts
  <2>4. Ring!Returns(contents[k])
    BY <1>1, <1>2, <1>4, RingReturns DEF running, Crashes
  <2>5. contents # <<>> /\ stale_entry' = stale_entry
    BY <1>1, <1>2, <1>4, SameStale
  <2> QED  BY <1>2, <1>4, <2>2, <2>3, <2>4, <2>5 DEF Ring!Rotate, Ring!Lost
<1> DEFINE lands == node[cursor] # Dangling /\ Step(Cursor(cursor), "NEXT").node = NULL
<1>5. Cursor(cursor).node = node[cursor] /\ Cursor(cursor).index = index[cursor]
  BY DEF Cursor
<1>6. CASE lands /\ Wrap
  <2>1. CASE length = 0 /\ Crash("assert_failed")
    BY <1>3, <2>1 DEF Crashes
  <2>2. CASE /\ length > 0
             /\ node' = [node EXCEPT ![cursor] = head]
             /\ index' = [index EXCEPT ![cursor] = 0]
             /\ ret' = data[head] /\ UNCHANGED <<listVars, iter_list, open, status>>
    <3>1. /\ 1 \in 1..Len(chain) /\ head = chain[1] /\ Len(chain) \in Nat \ {0}
      BY <1>1, <1>2, <2>2 DEF Linked, EndsLinked
    <3>2. current = 0 \/ current = Len(chain)
      <4>1. CASE node[cursor] = NULL
        BY <1>1, <4>1, CurrentFacts
      <4>2. ASSUME NEW k \in 1..Len(chain), chain[k] = node[cursor]
            PROVE  current = 0 \/ current = Len(chain)
        <5>1. node[cursor] # NULL
          BY <1>1, <4>2, ChainFacts
        <5>2. next[chain[k]] = NULL
          BY <1>5, <1>6, <4>2, <5>1 DEF Step
        <5>3. k = Len(chain)
          <6>1. CASE k # Len(chain)
            <7>1. k + 1 \in 1..Len(chain) /\ next[chain[k]] = chain[k + 1]
              BY <1>1, <1>2, <6>1 DEF Linked, NextLinked
            <7> QED  BY <1>1, <5>2, <7>1, ChainFacts
          <6> QED  BY <6>1
        <5> QED  BY <1>1, <4>2, <5>3, CurrentFacts
      <4>3. node[cursor] = NULL \/ \E k \in 1..Len(chain) : chain[k] = node[cursor]
        BY <1>1, <1>6 DEF TypeOK, IterAttached, Linked_nodes
      <4> QED  BY <4>1, <4>2, <4>3
    <3>3. current % Len(chain) = 0
      BY <3>1, <3>2, NextInRing
    <3>4. current # -1 /\ 1 = (current % Len(chain)) + 1
      BY <3>1, <3>2, <3>3
    <3>5. 0 \in Int /\ 0 = IF 1 = 1 THEN 0 ELSE reported + 1
      OBVIOUS
    <3>6. ret' = data[chain[1]] /\ node' = [node EXCEPT ![cursor] = chain[1]]
      BY <2>2, <3>1
    <3> QED  BY <1>4, <2>2, <3>1, <3>4, <3>5, <3>6
  <2> QED  BY <1>6, <2>1, <2>2 DEF Wrap
<1>7. CASE ~lands /\ iterate(cursor, "NEXT")
  <2>1. CASE node[cursor] = Dangling /\ Crash("use_after_free")
    BY <1>1, <1>3, <2>1, CurrentFacts DEF Crashes
  <2>2. CASE node[cursor] # Dangling
    <3>0. Step(Cursor(cursor), "NEXT").node # NULL
      BY <1>7, <2>2
    <3>1. /\ node[cursor] # NULL /\ Step(Cursor(cursor), "NEXT").node = next[node[cursor]]
          /\ Step(Cursor(cursor), "NEXT").index = index[cursor] + 1
      BY <1>5, <3>0 DEF Step
    <3>2. PICK k \in 1..Len(chain) : chain[k] = node[cursor]
      BY <1>1, <2>2, <3>1 DEF TypeOK, IterAttached, Linked_nodes
    <3>3. k # Len(chain) /\ next[chain[k]] = chain[k + 1]
      BY <1>1, <3>0, <3>1, <3>2 DEF Linked, NextLinked
    <3>4. /\ k + 1 \in 1..Len(chain) /\ current = k /\ k \in 1..(Len(chain) - 1)
          /\ Len(chain) \in Nat \ {0} /\ k + 1 # 1
      BY <1>1, <1>2, <3>2, <3>3, CurrentFacts
    <3>5. k % Len(chain) = k
      BY <3>4, NextInRing
    <3>6. /\ node' = [node EXCEPT ![cursor] = chain[k + 1]]
          /\ index' = [index EXCEPT ![cursor] = index[cursor] + 1]
          /\ ret' = data[chain[k + 1]] /\ UNCHANGED <<listVars, iter_list, status>>
      BY <1>7, <2>2, <3>0, <3>1, <3>2, <3>3 DEF iterate
    <3>7. k + 1 = (current % Len(chain)) + 1 /\ current # -1
      BY <3>4, <3>5
    <3>8. reported = index[cursor] /\ index[cursor] + 1 \in Int
      BY <1>1, <1>2, <3>4 DEF reported
    <3> QED  BY <1>4, <3>4, <3>6, <3>7, <3>8
  <2> QED  BY <1>7, <2>1, <2>2 DEF iterate
<1> QED  BY <1>6, <1>7 DEF clist_get_next

\* clist_find.
LEMMA ClistFindRefines ==
  ASSUME CListInv, CListInv', NEW v \in Data, clist_find(v)
  PROVE  Ring!Find(v)
<1>1. /\ alive /\ alive' /\ dlist_get_by_value(v) /\ Returns(ret') /\ running
      /\ TypeOK /\ Linked
  BY CursorRegistered DEF clist_find, alive, dlist_get_by_value
<1>2. /\ contents = items
      /\ ret' = IF \E k \in 1..Len(items) : items[k] = v THEN v ELSE NULL
  BY <1>1, CurrentFacts, FoundItem
<1>3. UNCHANGED <<contents, current, reported, stale_entry>>
  BY <1>1, SameRing, SameStale DEF dlist_get_by_value, listVars, iterVars
<1>4. Ring!Returns(ret')
  BY <1>1, RingReturns DEF running, Crashes, dlist_get_by_value
<1> QED  BY <1>2, <1>3, <1>4 DEF Ring!Find

\* clist_quick_sort: the items move, the position stays.
LEMMA ClistSortRefines ==
  ASSUME CListInv, CListInv', NEW order \in {"C_ASCENDING", "C_DESCENDING"},
         clist_quick_sort(order)
  PROVE  Ring!Sort(order)
<1> DEFINE dir == IF order = "C_ASCENDING" THEN "ASCENDING" ELSE "DESCENDING"
<1>1. /\ alive /\ alive' /\ dlist_quick_sort(dir) /\ Returns(NULL)
      /\ TypeOK /\ Linked
  BY CursorRegistered DEF clist_quick_sort, alive
<1>2. order = "C_ASCENDING" <=> dir = "ASCENDING"
  OBVIOUS
<1> HIDE DEF dir
<1>3. UNCHANGED <<chain, node, index, iter_list, status>> /\ running
  BY <1>1 DEF dlist_quick_sort, iterVars
<1>4. contents = items /\ contents' = items'
  BY <1>1, CurrentFacts, NextCurrentFacts
<1>5. UNCHANGED <<current, reported, stale_entry>>
  <2>1. current' = current
    BY <1>1, <1>3 DEF current, PlaceIn
  <2> QED  BY <1>1, <1>3, <2>1, SameStale DEF reported
<1>6. /\ \E p \in Bijection(1..Len(items), 1..Len(items)) :
           items' = [k \in 1..Len(items) |-> items[p[k]]]
      /\ SortedBy(items', dir)
  BY <1>1, SortItems
<1>7. Ring!SortedBy(items', order)
  BY <1>2, <1>6 DEF Ring!SortedBy, SortedBy
<1>8. Ring!Returns(NULL)
  BY <1>1, <1>3, RingReturns DEF running, Crashes
<1> QED  BY <1>4, <1>5, <1>6, <1>7, <1>8, RingOperators DEF Ring!Sort

\* Where the cursor is after a removal, when it stood at p just before the node at
\* position k was freed.
LEMMA PlaceAfterRemoval ==
  ASSUME CListInv, CListInv', alive, alive', NEW k \in 1..Len(chain), NEW at,
         remove_node(k, at), NEW p \in {-1} \cup 0..Len(chain), NEW m,
         m = IF p = -1 THEN Dangling ELSE IF p = 0 THEN NULL ELSE chain[p],
         node'[cursor] = IF m = chain[k] THEN Dangling ELSE m
  PROVE  current' = IF p = k THEN -1 ELSE IF p > k THEN p - 1 ELSE p
<1>1. /\ Len(chain) \in Nat /\ Len(chain') = Len(chain) - 1
      /\ \A j \in 1..(Len(chain) - 1) :
           chain'[j] = IF j < k THEN chain[j] ELSE chain[j + 1]
      /\ chain[k] # NULL /\ chain[k] # Dangling
      /\ \A a, b \in 1..Len(chain) : chain[a] = chain[b] => a = b
  <2>1. TypeOK /\ Linked
    BY CursorRegistered
  <2>2. Len(chain) \in Nat /\ chain[k] \in Node
    BY <2>1, ChainFacts
  <2> QED  BY <2>1, <2>2, RemoveShape, DListAssumption DEF Linked, NodesLive
<1>2. CASE p = -1 \/ p = 0
  BY <1>1, <1>2, NextCurrentFacts
<1>3. CASE p = k
  BY <1>1, <1>3, NextCurrentFacts
<1>4. ASSUME p \in 1..Len(chain), p # k
      PROVE  current' = IF p = k THEN -1 ELSE IF p > k THEN p - 1 ELSE p
  <2>1. node'[cursor] = chain[p] /\ p # -1 /\ p # 0
    <3>1. m = chain[p] /\ chain[p] # chain[k] /\ p # -1 /\ p # 0
      BY <1>1, <1>4
    <3> QED  BY <3>1
  <2>2. PICK d \in 1..(Len(chain) - 1) : d = IF p > k THEN p - 1 ELSE p
    BY <1>1, <1>4
  <2>3. chain'[d] = chain[p]
    <3>1. CASE p > k
      <4>1. ~(d < k) /\ d + 1 = p
        BY <1>4, <2>2, <3>1
      <4> QED  BY <1>1, <4>1
    <3>2. CASE ~(p > k)
      <4>1. d < k /\ d = p
        BY <1>4, <2>2, <3>2
      <4> QED  BY <1>1, <4>1
    <3> QED  BY <3>1, <3>2
  <2>4. current' = d
    BY <1>1, <2>1, <2>3, NextCurrentFacts
  <2> QED  BY <1>4, <2>2, <2>4
<1> QED  BY <1>2, <1>3, <1>4

\* Where dlist_remove_value moves the cursor that it takes to be on the removed node.
LEMMA MovedBeside ==
  ASSUME CListInv, alive, NEW ofHead \in BOOLEAN, NEW ofTail \in BOOLEAN, current # -1
  PROVE  LET q == Ring!Beside(ofHead, ofTail)
             c == MoveOff(cursor, ofHead, ofTail) IN
         /\ q \in 0..Len(chain)
         /\ c.node = IF q = 0 THEN NULL ELSE chain[q]
         /\ q # 0 => c.index = IF ofTail THEN reported - 2 ELSE reported
<1> DEFINE L == Len(chain)
<1>1. /\ TypeOK /\ Linked /\ L \in Nat /\ Len(contents) = L
      /\ index[cursor] \in Int /\ current \in 0..L
      /\ node[cursor] = IF current = 0 THEN NULL ELSE chain[current]
      /\ \A j \in 1..L : chain[j] # NULL
      /\ \A j \in 1..L : next[chain[j]] = IF j = L THEN NULL ELSE chain[j + 1]
      /\ \A j \in 1..L : prev[chain[j]] = IF j = 1 THEN NULL ELSE chain[j - 1]
  <2>1. TypeOK /\ Linked /\ IterAttached /\ cursor \in Iter
    BY CursorRegistered
  <2>2. L \in Nat /\ Len(contents) = L
    BY CurrentFacts
  <2>3. current \in 0..L
    BY <2>2, CurrentFacts
  <2>4. node[cursor] = IF current = 0 THEN NULL ELSE chain[current]
    <3>1. node[cursor] = NULL \/ \E k \in 1..L : chain[k] = node[cursor]
      BY <2>1, CurrentFacts DEF TypeOK, IterAttached, Linked_nodes
    <3>2. CASE node[cursor] = NULL
      BY <3>2, CurrentFacts
    <3>3. CASE \E k \in 1..L : chain[k] = node[cursor]
      BY <2>2, <3>3, CurrentFacts
    <3> QED  BY <3>1, <3>2, <3>3
  <2>5. index[cursor] \in Int /\ \A j \in 1..L : chain[j] # NULL
    BY <2>1, ChainFacts, DListAssumption DEF TypeOK
  <2> QED  BY <2>1, <2>2, <2>3, <2>4, <2>5 DEF Linked, NextLinked, PrevLinked
<1> DEFINE x == index[cursor]
<1>2. Cursor(cursor) = [node |-> node[cursor], index |-> x]
  BY DEF Cursor
<1> DEFINE q == Ring!Beside(ofHead, ofTail)
           m == MoveOff(cursor, ofHead, ofTail)
           Goal == /\ q \in 0..L
                   /\ m.node = IF q = 0 THEN NULL ELSE chain[q]
                   /\ q # 0 => m.index = IF ofTail THEN reported - 2 ELSE reported
<1> HIDE DEF L, x, q, m
<1>3. ASSUME current = 0
      PROVE  Goal
  <2>1. q = 0
    BY <1>3 DEF q, Ring!Beside
  <2>2. m.node = NULL
    BY <1>1, <1>2, <1>3 DEF m, MoveOff, Step, Shift
  <2> QED  BY <1>1, <2>1, <2>2
<1>4. ASSUME current \in 1..L
      PROVE  Goal
  <2>1. current # 0 /\ node[cursor] = chain[current] /\ chain[current] # NULL
        /\ reported = x
    BY <1>1, <1>4 DEF reported, x
  <2>2. ofTail => Step(Cursor(cursor), "PREV")
                    = [node |-> IF current = 1 THEN NULL ELSE chain[current - 1],
                       index |-> x - 1]
    BY <1>1, <1>2, <1>4, <2>1 DEF Step
  <2> DEFINE c == Shift(Step(Cursor(cursor), "NEXT"), -1)
  <2>3. c = [node |-> IF current = L THEN NULL ELSE chain[current + 1], index |-> x]
    <3>1. x \in Int
      BY <1>1 DEF x
    <3>2. Step(Cursor(cursor), "NEXT")
            = [node |-> IF current = L THEN NULL ELSE chain[current + 1], index |-> x + 1]
      BY <1>1, <1>2, <1>4, <2>1 DEF Step
    <3> QED  BY <3>1, <3>2 DEF Shift
  <2> HIDE DEF c
  <2>4. x \in Int
    BY <1>1 DEF x
  <2>5. CASE ~ofHead /\ ~ofTail
    <3>1. q = current /\ m = Cursor(cursor)
      BY <2>1, <2>5 DEF q, m, Ring!Beside, MoveOff
    <3>2. m.node = chain[current] /\ m.index = x
      BY <1>2, <2>1, <3>1
    <3> QED  BY <1>4, <2>1, <2>5, <3>1, <3>2
  <2>6. CASE ~ofHead /\ ofTail
    <3>1. q = current - 1
      BY <2>1, <2>6 DEF q, Ring!Beside
    <3>2. m = [node |-> IF current = 1 THEN NULL ELSE chain[current - 1], index |-> x - 2]
      BY <2>2, <2>4, <2>6 DEF m, MoveOff, Shift
    <3>3. current - 1 \in 0..L /\ (current - 1 = 0 <=> current = 1)
      BY <1>1, <1>4
    <3> QED  BY <2>1, <2>6, <3>1, <3>2, <3>3
  <2>7. CASE ofHead /\ ~ofTail
    <3>1. q = IF current = L THEN 0 ELSE current + 1
      BY <1>1, <2>1, <2>7 DEF q, Ring!Beside
    <3>2. m = c
      BY <2>7 DEF m, MoveOff, c
    <3>3. current # L => current + 1 \in 0..L /\ current + 1 # 0
      BY <1>1, <1>4
    <3>4. 0 \in 0..L
      BY <1>1
    <3> QED  BY <2>1, <2>3, <2>7, <3>1, <3>2, <3>3, <3>4
  <2>8. CASE ofHead /\ ofTail
    <3>1. q = IF current = L THEN 0 ELSE current
      BY <1>1, <2>1, <2>8 DEF q, Ring!Beside
    <3>2. m = Shift(Step(c, "PREV"), -1)
      BY <2>8 DEF m, MoveOff, c
    <3>3. CASE current = L
      <4>1. c.node = NULL
        BY <2>3, <3>3
      <4>2. m.node = NULL
        BY <2>3, <3>2, <4>1 DEF Shift, Step
      <4>3. 0 \in 0..L
        BY <1>1
      <4> QED  BY <3>1, <3>3, <4>2, <4>3
    <3>4. CASE current # L
      <4>1. /\ current + 1 \in 1..L /\ current + 1 # 1 /\ (current + 1) - 1 = current
            /\ c.node = chain[current + 1] /\ c.index = x
        BY <1>1, <1>4, <2>3, <3>4
      <4>2. chain[current + 1] # NULL /\ prev[chain[current + 1]] = chain[current]
        BY <1>1, <4>1 DEF L
      <4>3. Step(c, "PREV") = [node |-> chain[current], index |-> x - 1]
        BY <4>1, <4>2 DEF Step
      <4>4. m = [node |-> chain[current], index |-> x - 2]
        BY <2>4, <3>2, <4>3 DEF Shift
      <4> QED  BY <1>4, <2>1, <2>8, <3>1, <3>4, <4>4, <1>1
    <3> QED  BY <3>3, <3>4
  <2> QED  BY <2>5, <2>6, <2>7, <2>8
<1>5. Goal
  <2>1. current = 0 \/ current \in 1..L
    BY <1>1
  <2> HIDE DEF Goal
  <2> QED  BY <1>3, <1>4, <2>1
<1> QED  BY <1>5 DEF L, q, m

\* The removal of the node at position k moves the cursor, or dies, as the ring says.
LEMMA MatchRing ==
  ASSUME CListInv, CListInv', alive, alive', running, NEW k \in 1..Len(chain),
         RemoveMatch(k)
  PROVE  LET ofHead == ValueAt(k) = ValueAt(1)
             ofTail == ValueAt(k) = ValueAt(Len(chain))
             taken == (ofHead \/ ofTail) /\ reported = k - 1
             p == IF taken THEN Ring!Beside(ofHead, ofTail) ELSE current
             unsafe == (ofHead \/ ofTail) /\ (stale_entry \/ (taken /\ current = -1)) IN
         \/ unsafe /\ Crash("use_after_free")
         \/ /\ ~unsafe
            /\ \E at : remove_node(k, at)
            /\ current' = IF p = k THEN -1 ELSE IF p > k THEN p - 1 ELSE p
            /\ reported' = IF current' = 0 THEN 0
                           ELSE IF taken /\ ofTail THEN reported - 2 ELSE reported
<1> DEFINE ofHead == ValueAt(k) = ValueAt(1)
           ofTail == ValueAt(k) = ValueAt(Len(chain))
           taken == (ofHead \/ ofTail) /\ reported = k - 1
           p == IF taken THEN Ring!Beside(ofHead, ofTail) ELSE current
           unsafe == (ofHead \/ ofTail) /\ (stale_entry \/ (taken /\ current = -1))
           fixUp == iter_list # <<>> /\ (ofHead \/ ofTail)
           Moved == {i \in Iter \cap Registered : fixUp /\ index[i] = k - 1}
           faulty == \/ fixUp /\ Dangling \in Registered
                     \/ \E i \in Moved : node[i] = Dangling
           After(i) == IF i \in Moved THEN MoveOff(i, ofHead, ofTail) ELSE Cursor(i)
<1>1. /\ cursor \in Iter \cap Registered /\ Iter = {cursor} /\ TypeOK /\ Linked
      /\ iter_list # <<>> /\ Len(chain) \in Nat /\ current \in {-1} \cup 0..Len(chain)
      /\ index[cursor] \in Int
      /\ reported = IF current = 0 THEN 0 ELSE index[cursor]
  <2>1. cursor \in Registered /\ TypeOK /\ Linked /\ cursor \in Iter
    BY CursorRegistered
  <2>2. iter_list # <<>>
    BY <2>1 DEF Registered
  <2>3. Len(chain) \in Nat
    BY <2>1, ChainFacts
  <2>4. current \in {-1} \cup 0..Len(chain)
    BY <2>3, CurrentFacts
  <2> QED  BY <2>1, <2>2, <2>3, <2>4, CListAssumption DEF TypeOK, reported
<1>2. /\ node[cursor] = Dangling <=> current = -1
      /\ node[cursor] = IF current = -1 THEN Dangling
                        ELSE IF current = 0 THEN NULL ELSE chain[current]
  <2>1. TypeOK /\ IterAttached /\ NULL # Dangling
    BY CursorRegistered, DListAssumption
  <2>2. \/ node[cursor] = NULL \/ node[cursor] = Dangling
        \/ \E j \in 1..Len(chain) : chain[j] = node[cursor]
    BY <1>1, <2>1 DEF TypeOK, IterAttached, Linked_nodes
  <2>3. CASE node[cursor] = NULL
    BY <2>1, <2>3, CurrentFacts
  <2>4. CASE node[cursor] = Dangling
    BY <2>1, <2>4, CurrentFacts
  <2>5. ASSUME NEW j \in 1..Len(chain), chain[j] = node[cursor]
        PROVE  current = j /\ j # -1 /\ j # 0 /\ node[cursor] # Dangling
    <3>1. chain[j] \in Node /\ chain[j] # Dangling
      BY <1>1, ChainFacts, DListAssumption
    <3> QED  BY <1>1, <2>5, <3>1, CurrentFacts
  <2> QED  BY <2>2, <2>3, <2>4, <2>5
<1>3. cursor \in Moved <=> (ofHead \/ ofTail) /\ index[cursor] = k - 1
  BY <1>1
<1>4. current # 0 => (cursor \in Moved <=> taken)
  BY <1>1, <1>3
<1>5. faulty <=> unsafe
  <2>1. stale_entry <=> Dangling \in Registered
    BY DEF stale_entry
  <2>2. \A i \in Moved : i = cursor
    BY <1>1
  <2>3. (\E i \in Moved : node[i] = Dangling) <=> cursor \in Moved /\ current = -1
    BY <1>2, <2>2
  <2>4. cursor \in Moved /\ current = -1 <=> taken /\ current = -1
    BY <1>4
  <2> HIDE DEF Moved, taken
  <2>5. taken => ofHead \/ ofTail
    BY DEF taken
  <2> QED  BY <1>1, <2>1, <2>3, <2>4, <2>5
<1>6. CASE faulty /\ Crash("use_after_free")
  BY <1>5, <1>6
<1>7. CASE /\ ~faulty
           /\ remove_node(k, [i \in Iter |-> After(i).node])
           /\ index' = [i \in Iter |-> After(i).index]
  <2> DEFINE m == After(cursor).node
  <2>1. /\ node'[cursor] = IF m = chain[k] THEN Dangling ELSE m
        /\ index'[cursor] = After(cursor).index
    <3> HIDE DEF After
    <3> QED  BY <1>1, <1>7 DEF remove_node, Invalidate
  <2>2. /\ p \in {-1} \cup 0..Len(chain)
        /\ m = IF p = -1 THEN Dangling ELSE IF p = 0 THEN NULL ELSE chain[p]
        /\ p # 0 => After(cursor).index = IF taken /\ ofTail THEN reported - 2 ELSE reported
        /\ p = 0 \/ current # 0
    <3>1. CASE cursor \in Moved
      <4>1. current # -1
        BY <1>2, <1>7, <3>1
      <4>2. After(cursor) = MoveOff(cursor, ofHead, ofTail)
        BY <3>1
      <4>3. ofHead \in BOOLEAN /\ ofTail \in BOOLEAN
        OBVIOUS
      <4> DEFINE q == Ring!Beside(ofHead, ofTail)
      <4> HIDE DEF ofHead, ofTail, After, Moved
      <4>4. /\ q \in 0..Len(chain)
            /\ m = IF q = 0 THEN NULL ELSE chain[q]
            /\ q # 0 => After(cursor).index = IF ofTail THEN reported - 2 ELSE reported
        BY <4>1, <4>2, <4>3, MovedBeside
      <4>5. CASE current = 0
        <5>1. q = 0 /\ p = 0
          BY <4>5 DEF Ring!Beside
        <5>2. 0 # -1 /\ 0 \in {-1} \cup 0..Len(chain)
          BY <1>1
        <5> HIDE DEF q, p, m
        <5> QED  BY <4>4, <5>1, <5>2
      <4>6. CASE current # 0
        <5>1. taken /\ p = q
          BY <1>4, <3>1, <4>6
        <5>2. q # -1
          BY <1>1, <4>4
        <5> HIDE DEF q, p, m, taken
        <5> QED  BY <4>4, <4>6, <5>1, <5>2
      <4> QED  BY <4>5, <4>6
    <3>2. CASE cursor \notin Moved
      <4>1. After(cursor) = Cursor(cursor)
        BY <3>2
      <4>2. After(cursor).index = index[cursor] /\ m = node[cursor]
        BY <4>1 DEF Cursor
      <4>3. CASE current = 0
        <5>1. p = 0
          BY <4>3 DEF Ring!Beside
        <5>2. m = NULL /\ 0 # -1 /\ 0 \in {-1} \cup 0..Len(chain)
          BY <1>1, <1>2, <4>2, <4>3
        <5> HIDE DEF p, m
        <5> QED  BY <5>1, <5>2
      <4>4. CASE current # 0
        <5>1. ~taken /\ p = current /\ reported = index[cursor]
          BY <1>1, <1>4, <3>2, <4>4
        <5> HIDE DEF p, m, taken, After
        <5> QED  BY <1>1, <1>2, <4>2, <4>4, <5>1
      <4> QED  BY <4>3, <4>4
    <3> QED  BY <3>1, <3>2
  <2> HIDE DEF p, m, taken, unsafe
  <2>3. \E at : remove_node(k, at)
    BY <1>7
  <2>4. current' = IF p = k THEN -1 ELSE IF p > k THEN p - 1 ELSE p
    BY <2>1, <2>2, <2>3, PlaceAfterRemoval
  <2>5. reported' = IF current' = 0 THEN 0
                    ELSE IF taken /\ ofTail THEN reported - 2 ELSE reported
    <3>1. reported' = IF current' = 0 THEN 0 ELSE index'[cursor]
      BY NextCurrentFacts
    <3>2. p = 0 => current' = 0
      BY <2>4
    <3> HIDE DEF ofTail
    <3> QED  BY <2>1, <2>2, <3>1, <3>2
  <2>6. ~unsafe
    BY <1>5, <1>7
  <2> USE DEF p, taken, unsafe
  <2> QED  BY <2>3, <2>4, <2>5, <2>6
<1> HIDE DEF After
<1>8. \/ faulty /\ Crash("use_after_free")
      \/ /\ ~faulty
         /\ remove_node(k, [i \in Iter |-> After(i).node])
         /\ index' = [i \in Iter |-> After(i).index]
  BY DEF RemoveMatch, After
<1> QED  BY <1>6, <1>7, <1>8

\* clist_remove.
LEMMA ClistRemoveRefines ==
  ASSUME CListInv, CListInv', NEW v \in Data, clist_remove(v)
  PROVE  Ring!TakeOut(v)
<1>1. /\ alive /\ alive' /\ dlist_remove_value(v) /\ Returns(ret') /\ running
      /\ TypeOK /\ Linked
  BY CursorRegistered DEF clist_remove, alive, dlist_remove_value
<1>2. /\ contents = items /\ contents' = items' /\ Len(contents) = Len(chain)
      /\ Len(chain) \in Nat
      /\ \A k \in 1..Len(chain) : contents[k] = ValueAt(k)
  BY <1>1, CurrentFacts, NextCurrentFacts DEF ValueAt
<1>3. CASE Missing(v) /\ UNCHANGED <<listVars, iterVars, status>> /\ ret' = NULL
  <2>1. UNCHANGED <<contents, current, reported, stale_entry>>
    BY <1>1, <1>3, SameRing, SameStale DEF listVars, iterVars
  <2>2. Ring!Returns(NULL)
    BY <1>1, <1>3, RingReturns DEF running, Crashes
  <2>3. \A k \in 1..Len(contents) : contents[k] # v
    BY <1>2, <1>3 DEF Missing
  <2> QED  BY <2>1, <2>2, <2>3 DEF Ring!TakeOut
<1>4. ASSUME NEW k \in 1..Len(chain), FirstAt(v, k), RemoveMatch(k)
      PROVE  Ring!TakeOut(v)
  <2>1. /\ k \in 1..Len(contents) /\ contents[k] = v /\ Ring!FirstAt(v, k)
        /\ contents[1] = ValueAt(1) /\ contents[Len(contents)] = ValueAt(Len(chain))
        /\ contents[k] = ValueAt(k)
    <3>1. 1 \in 1..Len(chain) /\ Len(chain) \in 1..Len(chain)
          /\ \A j \in 1..(k - 1) : j \in 1..Len(chain)
      BY <1>2
    <3> QED  BY <1>2, <1>4, <3>1 DEF FirstAt, Ring!FirstAt
  <2> DEFINE ofHead == contents[k] = contents[1]
             ofTail == contents[k] = contents[Len(contents)]
             taken == (ofHead \/ ofTail) /\ reported = k - 1
             p == IF taken THEN Ring!Beside(ofHead, ofTail) ELSE current
             unsafe == (ofHead \/ ofTail) /\ (stale_entry \/ (taken /\ current = -1))
  <2>2. \/ unsafe /\ Crash("use_after_free")
        \/ /\ ~unsafe
           /\ \E at : remove_node(k, at)
           /\ current' = IF p = k THEN -1 ELSE IF p > k THEN p - 1 ELSE p
           /\ reported' = IF current' = 0 THEN 0
                          ELSE IF taken /\ ofTail THEN reported - 2 ELSE reported
    BY <1>1, <1>4, <2>1, MatchRing
  <2>3. CASE unsafe /\ Crash("use_after_free")
    <3>1. result' = result
      BY <1>1, <2>3 DEF Crash, Returns, Crashes
    <3>2. Ring!Dies
      BY <1>1, <2>3, <3>1, RingDies DEF Crashes
    <3>3. Ring!TakeOutAt(k)
      BY <2>3, <3>2 DEF Ring!TakeOutAt, Ring!Lost
    <3> QED  BY <2>1, <3>3 DEF Ring!TakeOut
  <2>4. CASE /\ ~unsafe
             /\ \E at : remove_node(k, at)
             /\ current' = IF p = k THEN -1 ELSE IF p > k THEN p - 1 ELSE p
             /\ reported' = IF current' = 0 THEN 0
                            ELSE IF taken /\ ofTail THEN reported - 2 ELSE reported
    <3>1. PICK at : remove_node(k, at)
      BY <2>4
    <3>2. /\ items' = RemoveAt(items, k) /\ ret' = items[k] /\ status' = "running"
          /\ iter_list' = iter_list
      BY <1>1, <3>1, RemoveItems DEF remove_node, running
    <3>3. contents' = Ring!RemoveAt(contents, k)
      BY <1>2, <3>2, RingOperators
    <3>4. Ring!Returns(contents[k])
      BY <1>1, <1>2, <3>2, RingReturns DEF Crashes
    <3>5. stale_entry' = stale_entry
      BY <1>1, <3>2, SameStale
    <3>6. Ring!TakeOutAt(k)
      BY <2>4, <3>3, <3>4, <3>5 DEF Ring!TakeOutAt, Ring!Lost
    <3> QED  BY <2>1, <3>6 DEF Ring!TakeOut
  <2> QED  BY <2>2, <2>3, <2>4
<1> QED  BY <1>1, <1>3, <1>4 DEF dlist_remove_value

\* The two steps of clist_destroy.
LEMMA ClistDestroyRefines ==
  ASSUME CListInv, \/ \E remove_nodes : clist_destroy(remove_nodes)
                   \/ destroy_list
  PROVE  Ring!Destroy \/ UNCHANGED <<contents, current, reported, stale_entry, result, died>>
<1>1. ASSUME NEW remove_nodes, clist_destroy(remove_nodes)
      PROVE  Ring!Destroy
  <2>1. ~alive' /\ result' = NULL /\ status' = status
    BY <1>1 DEF clist_destroy, alive, dlist_destroy_iter
  <2>2. contents' = <<>> /\ current' = 0 /\ reported' = 0 /\ stale_entry' = FALSE
    BY <2>1 DEF contents, current, reported, stale_entry
  <2>3. Ring!Returns(NULL)
    BY <2>1 DEF Ring!Returns, died
  <2> QED  BY <2>2, <2>3 DEF Ring!Destroy
<1>2. ASSUME destroy_list
      PROVE  UNCHANGED <<contents, current, reported, stale_entry, result, died>>
  <2>1. /\ ~alive /\ ~alive' /\ result' = result
        /\ status \notin Crashes /\ status' \notin Crashes
    BY <1>2 DEF destroy_list, alive, dlist_destroy, running, Crashes
  <2> QED  BY <2>1 DEF contents, current, reported, stale_entry, died
<1> QED  BY <1>1, <1>2

\* Calls are made of a process that runs.
LEMMA CListRuns ==
  ASSUME CListNext
  PROVE  ~died
<1>1. running
  BY DEF CListNext, clist_insert, set_iter_on_first, clist_get_value, clist_get_next,
         clist_find, clist_remove, clist_quick_sort, clist_destroy, destroy_list,
         dlist_prepend, dlist_append, dlist_insert, dlist_set_iter, iter_get_value,
         dlist_get_by_value, dlist_remove_value, dlist_quick_sort, dlist_destroy_iter,
         dlist_destroy
<1> QED  BY <1>1 DEF died, running, Crashes

\* The list and its cursor are a ring: insertion keeps the current item current,
\* clist_get_next visits the items in order and goes from the last to the first,
\* removal moves the current position by the index the cursor reports, and the
\* process dies where and only where the ring does.
THEOREM CListImplementsRing == CListSpec => ImplementsAbsRing
<1>1. CListInit => Ring!Init
  <2> SUFFICES ASSUME CListInit PROVE Ring!Init
    OBVIOUS
  <2>1. /\ alive /\ chain = <<>> /\ Len(chain) = 0 /\ result = NULL /\ cursor \in Iter
        /\ node[cursor] = NULL /\ iter_list = <<cursor>> /\ status = "running"
    BY CListAssumption DEF CListInit, EmptyList, alive
  <2>2. contents = <<>>
    BY <2>1 DEF contents, items
  <2>3. current = 0 /\ reported = 0
    BY <2>1, DListAssumption DEF current, reported, PlaceIn
  <2>4. stale_entry = FALSE /\ died = FALSE
    <3>1. Len(iter_list) = 1 /\ iter_list[1] = cursor /\ cursor # Dangling
      BY <2>1, DListAssumption
    <3>2. Dangling \notin Registered
      BY <3>1 DEF Registered
    <3> QED  BY <2>1, <3>2 DEF stale_entry, died, Crashes
  <2> QED  BY <2>1, <2>2, <2>3, <2>4 DEF Ring!Init
<1>2. CListInv /\ CListInv' /\ [CListNext]_clistVars => [Ring!Next]_(Ring!vars)
  <2> SUFFICES ASSUME CListInv, CListInv', [CListNext]_clistVars
               PROVE  \/ Ring!Next
                      \/ UNCHANGED <<contents, current, reported, stale_entry, result, died>>
    BY DEF Ring!vars
  <2>1. CASE UNCHANGED clistVars
    <3>1. UNCHANGED <<chain, data, node, index, iter_list, status, pc, result>>
      BY <2>1 DEF clistVars, vars, listVars, iterVars
    <3>2. items' = items /\ alive' = alive /\ Registered' = Registered
      BY <3>1, SameItems DEF alive, Registered
    <3> QED  BY <3>1, <3>2 DEF contents, current, reported, stale_entry, died, PlaceIn
  <2>2. ASSUME CListNext
        PROVE  \/ Ring!Next
               \/ UNCHANGED <<contents, current, reported, stale_entry, result, died>>
    <3>1. ~died
      BY <2>2, CListRuns
    <3>2. ASSUME NEW v \in Data, NEW i \in Index, NEW at \in {"HEAD", "TAIL", "INDEX"},
                 clist_insert(v, i, at)
          PROVE  Ring!Next
      BY <3>1, <3>2, ClistInsertRefines DEF Ring!Next
    <3>3. ASSUME NEW v \in Data, clist_find(v) \/ clist_remove(v)
          PROVE  Ring!Next
      BY <3>1, <3>3, ClistFindRefines, ClistRemoveRefines DEF Ring!Next
    <3>4. ASSUME NEW order \in {"C_ASCENDING", "C_DESCENDING"}, clist_quick_sort(order)
          PROVE  Ring!Next
      BY <3>1, <3>4, ClistSortRefines DEF Ring!Next
    <3>5. CASE clist_get_value \/ clist_get_next
      BY <3>1, <3>5, ClistValueRefines, ClistNextRefines DEF Ring!Next
    <3>6. ASSUME NEW remove_nodes, clist_destroy(remove_nodes) \/ destroy_list
          PROVE  \/ Ring!Next
                 \/ UNCHANGED <<contents, current, reported, stale_entry, result, died>>
      BY <3>1, <3>6, ClistDestroyRefines DEF Ring!Next
    <3> QED  BY <2>2, <3>2, <3>3, <3>4, <3>5, <3>6, SetOnFirstRefines DEF CListNext
  <2> QED  BY <2>1, <2>2
<1> QED  BY <1>1, <1>2, CListInvHolds, PTL DEF CListSpec, ImplementsAbsRing, Ring!Spec
=============================================================================
