------------------------------- MODULE CList -------------------------------
(***************************************************************************)
(* The circular list of circular_list_dlist (circular_list.c): a dlist and *)
(* one iterator on it, the cursor, which lives as long as the list.        *)
(***************************************************************************)
EXTENDS ListClient

CONSTANTS
  cursor,                 \* clist_t.iter
  C_SUCCESS, C_FAIL,
  MaxListSize             \* bound: the largest clist_size a client asks for

ASSUME CListAssumption ==
  /\ Iter = {cursor}
  /\ C_SUCCESS # C_FAIL /\ {C_SUCCESS, C_FAIL} \cap (Data \cup {NULL}) = {}
  /\ MaxListSize \in Nat

VARIABLES
  clist_size,             \* clist_t: stored by clist_init, read by nothing
  free_func,              \* clist_t: whether the client gave one
  pc                      \* where the call in progress stands

callVars == <<clist_size, free_func>>
clistVars == <<vars, callVars, pc, result>>

\* clist_init: the iterator is made and registered while the list is empty.
CListInit ==
  /\ EmptyList
  /\ iter_list = <<cursor>> /\ open = {cursor}
  /\ node = [i \in Iter |-> NULL] /\ index = [i \in Iter |-> 0]
  /\ clist_size \in 0..MaxListSize /\ free_func \in BOOLEAN
  /\ pc = "idle" /\ result = NULL

\* The last step of clist_insert is still to come when the item is the only one.
clist_insert(v, i, at) ==
  /\ pc = "idle"
  /\ \/ at = "HEAD" /\ dlist_prepend(v) /\ Returns(C_SUCCESS)
     \/ at = "TAIL" /\ dlist_append(v) /\ Returns(C_SUCCESS)
     \/ at = "INDEX" /\ dlist_insert(v, i)
          /\ Returns(IF ret' = DLIST_SUCC THEN C_SUCCESS ELSE C_FAIL)
  /\ pc' = IF status' = "running" /\ result' = C_SUCCESS /\ length' = 1
           THEN "first_item" ELSE "idle"

set_iter_on_first ==
  /\ pc = "first_item"
  /\ dlist_set_iter(cursor, "ITER_HEAD")
  /\ pc' = "idle" /\ UNCHANGED result

clist_get_value ==
  /\ pc = "idle"
  /\ iter_get_value(cursor) /\ Returns(ret')
  /\ UNCHANGED pc

\* dlist_get_iter_next, and once the cursor has run off the list,
\* dlist_set_iter_head and iter_get_value.
WrapToTail ==
  /\ length > 0
  /\ node' = [node EXCEPT ![cursor] = tail]
  /\ index' = [index EXCEPT ![cursor] = 0]
  /\ ret' = data[tail] /\ UNCHANGED <<listVars, iter_list, open, status>>

Wrap ==
  \/ length = 0 /\ Crash("assert_failed")
  \/ /\ length > 0
     /\ node' = [node EXCEPT ![cursor] = head]
     /\ index' = [index EXCEPT ![cursor] = 0]
     /\ ret' = data[head] /\ UNCHANGED <<listVars, iter_list, open, status>>

clist_get_next ==
  /\ pc = "idle" /\ running
  /\ LET lands == node[cursor] # Dangling /\ Step(Cursor(cursor), "NEXT").node = NULL
     IN  \/ ~lands /\ iterate(cursor, "NEXT")
         \/ lands /\ Wrap
  /\ Returns(ret')
  /\ UNCHANGED pc

clist_find(v) ==
  pc = "idle" /\ dlist_get_by_value(v) /\ Returns(ret') /\ UNCHANGED pc

clist_remove(v) ==
  pc = "idle" /\ dlist_remove_value(v) /\ Returns(ret') /\ UNCHANGED pc

clist_quick_sort(order) ==
  /\ pc = "idle"
  /\ dlist_quick_sort(IF order = "C_ASCENDING" THEN "ASCENDING" ELSE "DESCENDING")
  /\ Returns(NULL) /\ UNCHANGED pc

\* The cursor goes first, then the list; when the items are to be freed and there
\* is no free_func, dlist_destroy_free returns and the list is lost.
clist_destroy(remove_nodes) ==
  /\ pc = "idle"
  /\ dlist_destroy_iter(cursor)
  /\ pc' = IF remove_nodes = "FREE_NODES_TRUE" /\ ~free_func THEN "lost" ELSE "destroying"
  /\ result' = NULL

destroy_list ==
  pc = "destroying" /\ dlist_destroy /\ pc' = "done" /\ UNCHANGED result

CListNext ==
  /\ \/ \E v \in Data, i \in Index, at \in {"HEAD", "TAIL", "INDEX"} :
          clist_insert(v, i, at)
     \/ \E v \in Data : clist_find(v) \/ clist_remove(v)
     \/ \E order \in {"C_ASCENDING", "C_DESCENDING"} : clist_quick_sort(order)
     \/ \E remove_nodes \in {"FREE_NODES_TRUE", "FREE_NODES_FALSE"} :
          clist_destroy(remove_nodes)
     \/ set_iter_on_first \/ clist_get_value \/ clist_get_next \/ destroy_list
  /\ UNCHANGED callVars

CListSpec == CListInit /\ [][CListNext]_clistVars

-----------------------------------------------------------------------------
CListTypeOK ==
  /\ TypeOK
  /\ clist_size \in 0..MaxListSize /\ free_func \in BOOLEAN
  /\ pc \in {"idle", "first_item", "destroying", "lost", "done"}
  /\ result \in Data \cup {NULL, C_SUCCESS, C_FAIL}

alive == pc \in {"idle", "first_item"}

\* The items, as long as the client can reach them.
contents == IF alive THEN items ELSE <<>>

\* The position among the nodes of ch of an iterator that stands on n.
PlaceIn(ch, n) ==
  CASE n = NULL -> 0
    [] n = Dangling -> -1
    [] OTHER -> CHOOSE k \in 1..Len(ch) : ch[k] = n

current == IF alive THEN PlaceIn(chain, node[cursor]) ELSE 0

\* The position the cursor reports, which means nothing off the list.
reported == IF current = 0 THEN 0 ELSE index[cursor]

stale_entry == alive /\ Dangling \in Registered

died == status \in Crashes

\* The list is a ring: insertion keeps the current item current, clist_get_next
\* visits the items in order and goes from the last to the first, a removal moves
\* the current position by the index the cursor reports, right or not, and the
\* process dies where and only where the ring does.
Ring == INSTANCE AbsRing WITH
  items <- contents, pos <- current, index <- reported, stale <- stale_entry,
  dead <- died
ImplementsAbsRing == Ring!Spec
=============================================================================
