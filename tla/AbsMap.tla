------------------------------- MODULE AbsMap -------------------------------
(***************************************************************************)
(* What a sorted map promises: at most one payload under each key, given   *)
(* back by key, visited in the order asked for, and freed at most once.    *)
(* A caller is told whether its payload's key is in the map afterwards.    *)
(* Two things the code does not keep are left out of the promise: an       *)
(* insertion whose callback inserted somewhere else meanwhile is always    *)
(* reported as failed, and an in-order visit may go on after it was asked  *)
(* to stop.                                                                *)
(***************************************************************************)
EXTENDS Integers, Sequences, FiniteSets

CONSTANTS Payload, KeyOf, NULL

VARIABLES
  entries,      \* from the keys in the map to their payloads
  freed,        \* payloads handed to free_payload
  alive,
  ret           \* the last call: its arguments and its result

vars == <<entries, freed, alive, ret>>

Keys == DOMAIN entries
Held == {entries[k] : k \in Keys}
With(p) == [k \in Keys \cup {KeyOf[p]} |-> IF k = KeyOf[p] THEN p ELSE entries[k]]
Without(k) == [j \in Keys \ {k} |-> entries[j]]

Init == /\ entries = <<>> /\ freed = {} /\ alive = TRUE
        /\ ret = [call |-> "bst_init", result |-> NULL]

\* A new key comes in unless the callback refuses it; a present one gets the new
\* payload, and the old one is freed, if the caller asks for that and has no callback.
Takes(p, replace, callback) ==
  IF KeyOf[p] \in Keys THEN replace = "REPLACE_PAYLOAD_TRUE" /\ callback = "NULL"
                       ELSE callback # "refuses"

Insert(p, replace, callback, clobbered) ==
  /\ ret' = [call |-> "bst_insert", payload |-> p, replace |-> replace,
             callback |-> callback, clobbered |-> clobbered,
             result |-> IF KeyOf[p] \in Keys' /\ ~clobbered THEN "BST_INSERT_SUCCESS"
                        ELSE "BST_INSERT_FAILURE"]
  /\ p \notin Held \cup freed
  /\ \/ /\ Takes(p, replace, callback)
        /\ entries' = With(p)
        /\ freed' = freed \cup (Held \ Held')
     \/ ~Takes(p, replace, callback) /\ UNCHANGED <<entries, freed>>

Remove(k, free) ==
  /\ ret' = [call |-> "bst_remove", key |-> k, free |-> free,
             result |-> IF k \in Keys THEN "BST_REMOVE_SUCCESS" ELSE "BST_NODE_NOT_FOUND"]
  /\ \/ /\ k \in Keys
        /\ entries' = Without(k)
        /\ freed' = IF free = "FREE_PAYLOAD_TRUE" THEN freed \cup {entries[k]} ELSE freed
     \/ k \notin Keys /\ UNCHANGED <<entries, freed>>

Get(k) ==
  /\ ret' = [call |-> "bst_get_node", key |-> k,
             result |-> IF k \in Keys THEN entries[k] ELSE NULL]
  /\ UNCHANGED <<entries, freed>>

\* Each payload at most once, and all of them unless the callback says stop.
\* An in-order visit may go on after that, and leave some out.
Visit(order, stop, seen) ==
  /\ \A i, j \in DOMAIN seen : seen[i] = seen[j] => i = j
  /\ {seen[i] : i \in DOMAIN seen} \subseteq Held
  /\ stop = NULL => Len(seen) = Cardinality(Held)
  /\ order = "TRAVERSAL_IN_ORDER" =>
       /\ \A i, j \in DOMAIN seen : i < j => KeyOf[seen[i]] < KeyOf[seen[j]]
       /\ stop # NULL =>
            \A p \in Held : KeyOf[p] <= KeyOf[stop] => \E i \in DOMAIN seen : seen[i] = p
  /\ order # "TRAVERSAL_IN_ORDER" /\ stop # NULL => seen[Len(seen)] = stop
  /\ UNCHANGED <<entries, freed>>

Destroy(free) ==
  /\ ret' = [call |-> "bst_destroy", free |-> free, result |-> NULL]
  /\ entries' = <<>> /\ alive' = FALSE
  /\ freed' = IF free = "FREE_PAYLOAD_TRUE" THEN freed \cup Held ELSE freed

\* Every step is one call, and what it does is what its arguments say.
Next ==
  /\ alive
  /\ \/ /\ UNCHANGED alive
        /\ \/ /\ ret'.call = "bst_insert" /\ ret'.payload \in Payload
              /\ Insert(ret'.payload, ret'.replace, ret'.callback, ret'.clobbered)
           \/ ret'.call = "bst_remove" /\ Remove(ret'.key, ret'.free)
           \/ ret'.call = "bst_get_node" /\ Get(ret'.key)
           \/ /\ ret'.call = "bst_traversal"
              /\ Visit(ret'.order, ret'.stop, ret'.result)
     \/ ret'.call = "bst_destroy" /\ Destroy(ret'.free)

Spec == Init /\ [][Next]_vars
=============================================================================
