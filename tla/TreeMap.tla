------------------------------ MODULE TreeMap -------------------------------
(***************************************************************************)
(* The map of treemap_avl_bst (tree_map_avl.c): an AVL tree under calls    *)
(* that always replace and always free, and a count of its own.  A client  *)
(* has a bare tree or a map, never both on the same tree: api says which.  *)
(***************************************************************************)
EXTENDS AVLTree

CONSTANTS
  MaxCount,     \* bound: what the count may reach
  MapPayload    \* bound: the payloads a map's client has

ASSUME TreeMapAssumption == MapPayload \subseteq Payload /\ MaxCount \in Nat

VARIABLES
  api,          \* "tree" or "map"
  count         \* dict_t

vars == <<treeVars, api, count>>

\* bst_init or init_dict
Init ==
  /\ TreeInit
  /\ api \in {"tree", "map"}
  /\ count = 0

(***************************************************************************)
(* The tree on its own.                                                    *)
(***************************************************************************)
TreeNext ==
  /\ api = "tree" /\ alive
  /\ \/ \E payload \in Payload, clobbered \in BOOLEAN,
           replace \in {"REPLACE_PAYLOAD_TRUE", "REPLACE_PAYLOAD_FALSE"},
           callback \in {"NULL", "accepts", "refuses"} :
          bst_insert(payload, replace, callback, clobbered)
     \/ \E payload \in Payload, free \in {"FREE_PAYLOAD_TRUE", "FREE_PAYLOAD_FALSE"} :
          bst_remove(payload, free)
     \/ \E payload \in Payload : bst_get_node(payload)
     \/ \E type \in Orders, stop \in Held \cup {NULL} : bst_traversal(type, stop)
     \/ \E free \in {"FREE_PAYLOAD_TRUE", "FREE_PAYLOAD_FALSE"} : bst_destroy(free)
  /\ UNCHANGED <<api, count>>

(***************************************************************************)
(* The map.  put_key_val and put_key_val_adv return 1 for                  *)
(* BST_INSERT_SUCCESS and 0 for the rest.                                  *)
(***************************************************************************)
returned == IF ret.result = "BST_INSERT_SUCCESS" THEN 1 ELSE 0

put_key_val_adv(key_val, callback, clobbered) ==
  /\ count < MaxCount
  /\ bst_insert(key_val, "REPLACE_PAYLOAD_TRUE", callback, clobbered)
  /\ count' = count + returned'
  /\ UNCHANGED api

put_key_val(key_val) == put_key_val_adv(key_val, "NULL", FALSE)

get_key_val(key) ==
  /\ bst_get_node(key)                          \* contains_key asks whether it is NULL
  /\ UNCHANGED <<api, count>>

contains_value(stop) ==
  /\ bst_traversal("TRAVERSAL_PRE_ORDER", stop)
  /\ UNCHANGED <<api, count>>

recurse_dict(stop) ==
  /\ bst_traversal("TRAVERSAL_IN_ORDER", stop)
  /\ UNCHANGED <<api, count>>

\* A plausible slip: what bst_remove returned is not asked.
remove_key_valAlways(key) ==
  /\ bst_remove(key, "FREE_PAYLOAD_TRUE")
  /\ count' = count - 1
  /\ UNCHANGED api

remove_key_val(key) ==
  /\ bst_remove(key, "FREE_PAYLOAD_TRUE")
  /\ count' = IF ret'.result = "BST_REMOVE_SUCCESS" THEN count - 1 ELSE count
  /\ UNCHANGED api

destroy_dict ==
  /\ bst_destroy("FREE_PAYLOAD_TRUE")
  /\ UNCHANGED <<api, count>>

MapNext ==
  /\ api = "map" /\ alive
  /\ \/ \E key_val \in MapPayload : put_key_val(key_val)
     \/ \E key_val \in MapPayload, callback \in {"accepts", "refuses"}, clobbered \in BOOLEAN :
          put_key_val_adv(key_val, callback, clobbered)
     \/ \E key \in MapPayload : get_key_val(key) \/ remove_key_val(key)
     \/ \E stop \in Held \cup {NULL} : contains_value(stop) \/ recurse_dict(stop)
     \/ destroy_dict

Next == TreeNext \/ MapNext

Spec == Init /\ [][Next]_vars

\* Whether an insertion found its key present and was reported as made.
CountsAgain(call) ==
  call.call = "bst_insert" /\ ~call.clobbered /\ KeyOf[call.payload] \in Keys

\* Whether it brought a new key in and was reported as failed (bst.c:147).
GoesMissing(call) ==
  call.call = "bst_insert" /\ call.clobbered /\ KeyOf[call.payload] \in Keys' \ Keys

CountStep ==
  api = "map" /\ alive' =>
    count' - count = Cardinality(Keys') - Cardinality(Keys)
                       + (IF CountsAgain(ret') THEN 1 ELSE 0)
                       - (IF GoesMissing(ret') THEN 1 ELSE 0)

\* The count moves with the number of keys in the map at every call, and departs from
\* it on two: a put that finds its key present counts once more, and one that brings
\* a key in while its callback inserts elsewhere does not count (tree_map_avl.c:66-78,
\* 136-142).
CountFollowsKeys == [][CountStep]_vars
=============================================================================
