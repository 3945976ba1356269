------------------------------- MODULE Queue -------------------------------
(***************************************************************************)
(* The queue of queue_dlist (dl_queue.c): a dlist and a size limit.  Every *)
(* call runs one call of the list, so its actions are the list's with the  *)
(* queue's own tests and return values; it makes no iterator of its own.   *)
(***************************************************************************)
EXTENDS ListClient

CONSTANTS
  Q_SUCCESS, Q_FAILURE,
  IntHalf,                \* 2^31: half the range of the int an index is cast to
  MaxQueueSize            \* bound: the largest queue_size a client asks for; as the
                          \* iterators' positions, it fits an int

ASSUME QueueAssumption ==
  /\ Q_SUCCESS # Q_FAILURE /\ {Q_SUCCESS, Q_FAILURE} \cap (Data \cup {NULL}) = {}
  /\ IntHalf \in Nat \ {0} /\ MaxQueueSize \in Nat /\ MaxQueueSize < IntHalf
  /\ Index \subseteq Nat  \* size_t

VARIABLES
  queue_size,             \* queue_t
  indexed                 \* history: queue_get_by_index has been called

queueVars == <<vars, queue_size, result, indexed>>

\* queue_init
QueueInit ==
  /\ Init
  /\ queue_size \in 0..MaxQueueSize
  /\ result = NULL /\ indexed = FALSE

\* queue_length is never above queue_size, so the code tests for equality.
queue_enqueueOneTooMany(v) ==
  /\ running
  /\ \/ length = queue_size + 1 /\ UNCHANGED vars /\ result' = Q_FAILURE
     \/ length # queue_size + 1 /\ dlist_append(v) /\ Returns(Q_SUCCESS)
  /\ UNCHANGED indexed

queue_enqueue(v) ==
  /\ running
  /\ \/ length = queue_size /\ UNCHANGED vars /\ result' = Q_FAILURE
     \/ length # queue_size /\ dlist_append(v) /\ Returns(Q_SUCCESS)
  /\ UNCHANGED indexed

queue_dequeueTail ==
  /\ running
  /\ \/ length = 0 /\ UNCHANGED vars /\ result' = NULL
     \/ length # 0 /\ dlist_pop_tail /\ Returns(ret')
  /\ UNCHANGED indexed

queue_dequeue ==
  /\ running
  /\ \/ length = 0 /\ UNCHANGED vars /\ result' = NULL
     \/ length # 0 /\ dlist_pop_head /\ Returns(ret')
  /\ UNCHANGED indexed

queue_get_by_value(v) ==
  dlist_get_by_value(v) /\ Returns(ret') /\ UNCHANGED indexed

AsIntSaturated(i) == IF i < IntHalf THEN i ELSE IntHalf - 1

\* The cast (int)index of a size_t: modulo the range of an int, then signed.
AsInt(i) ==
  LET r == i % (2 * IntHalf) IN IF r < IntHalf THEN r ELSE r - 2 * IntHalf

queue_get_by_index(i) ==
  dlist_get_by_index(AsInt(i)) /\ Returns(ret') /\ indexed' = TRUE

queue_remove(v) ==
  dlist_remove_value(v) /\ Returns(ret') /\ UNCHANGED indexed

\* queue_destroy and queue_destroy_free
queue_destroy ==
  dlist_destroy /\ Returns(NULL) /\ UNCHANGED indexed

QueueNext ==
  /\ \/ \E v \in Data : \/ queue_enqueue(v) \/ queue_remove(v)
                        \/ queue_get_by_value(v)
     \/ \E i \in Index : queue_get_by_index(i)
     \/ queue_dequeue \/ queue_destroy
  /\ UNCHANGED queue_size

QueueSpec == QueueInit /\ [][QueueNext]_queueVars

-----------------------------------------------------------------------------
QueueTypeOK ==
  /\ TypeOK
  /\ queue_size \in 0..MaxQueueSize
  /\ result \in Data \cup {NULL, Q_SUCCESS, Q_FAILURE}
  /\ indexed \in BOOLEAN

\* The test for equality in queue_enqueue is enough to hold the limit, a limit of
\* zero included, whatever was removed out of turn in between (dl_queue.c:98-107).
Bounded == length <= queue_size

\* A queue whose client never asked for an item by its index does not crash: it
\* leaves no stale entry in iter_list for queue_enqueue or queue_remove to follow.
OnlyIndexedCrash == status \in Crashes => indexed

\* dl_queue.c:136-145.  What every size_t index finds.  Taken modulo the range of an
\* int, one in the lower half counts from the oldest item and one in the upper half
\* back from the newest, so that SIZE_MAX is the newest; past either end is nothing.
FetchesByIndex ==
  [][\A i \in Index :
       LET ahead == i % (2 * IntHalf)
           back == 2 * IntHalf - ahead IN
       queue_get_by_index(i) =>
         /\ ahead < IntHalf =>
              result' = IF ahead < length THEN items[ahead + 1] ELSE NULL
         /\ ahead >= IntHalf =>
              result' = IF back <= length THEN items[length - back + 1] ELSE NULL]_queueVars

\* Items leave in the order they came, minus those removed out of turn, and every
\* call returns what a bounded queue returns.
AbsQ == INSTANCE AbsQueue WITH items <- items
ImplementsAbsQueue == AbsQ!Spec
=============================================================================
