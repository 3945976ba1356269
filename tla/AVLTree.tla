------------------------------ MODULE AVLTree -------------------------------
(***************************************************************************)
(* The AVL tree of avl_bst_adt (bst.c): insertion and removal, which       *)
(* rebalance every node on the way back up, lookup and the traversals.     *)
(* A recursive function of the code is a recursive function here, on the   *)
(* trees there can be.                                                     *)
(*                                                                         *)
(* The client never inserts a payload that is in the tree or was freed,    *)
(* and its callbacks leave the tree they are called from alone.            *)
(***************************************************************************)
EXTENDS AVLNode, Sequences, FiniteSets

CONSTANTS Payload, KeyOf   \* KeyOf: what compare sees of a payload

ASSUME AVLTreeAssumption ==
  IsFiniteSet(Payload) /\ NULL \notin Payload /\ KeyOf \in [Payload -> Int]

VARIABLES
  root,         \* avl_tree_t
  freed,        \* payloads handed to free_payload
  alive,        \* bst_destroy has not been called
  ret           \* what the last call returned: the call, its result, and what of
                \* its arguments the properties look at

treeVars == <<root, freed, alive, ret>>

\* The trees of up to n levels.
Trees[n \in Nat] ==
  IF n = 0 THEN {NULL}
  ELSE {NULL} \cup [height : Nat, left_child : Trees[n - 1], right_child : Trees[n - 1],
                    key : Payload]

\* No tree has more levels than payloads: none is in it twice.
Tree == Trees[Cardinality(Payload)]
Node == Tree \ {NULL}

\* bst->compare(node->key, payload), as the callers' callbacks answer.
compare(current, new) ==
  CASE KeyOf[new] < KeyOf[current] -> "BST_LT"
    [] KeyOf[new] > KeyOf[current] -> "BST_GT"
    [] OTHER -> "BST_EQ"

(***************************************************************************)
(* insert_node.  callback is "NULL", or says whether it returns            *)
(* BST_INSERT_SUCCESS for a new payload ("accepts" or "refuses").          *)
(***************************************************************************)
AddLeaf(payload, callback) == IF callback = "refuses" THEN NULL ELSE NewNode(payload)

Replace(node, payload, replace, callback) ==
  IF replace = "REPLACE_PAYLOAD_TRUE" /\ callback = "NULL"
  THEN [node EXCEPT !.key = payload] ELSE node

Rebalanced(node) == balance_tree(set_height(node))

insert_node(tree, payload, replace, callback) ==
  LET insert[node \in Tree] ==
        IF node = NULL THEN AddLeaf(payload, callback)
        ELSE Rebalanced(
          CASE compare(node.key, payload) = "BST_LT" ->
                 [node EXCEPT !.left_child = insert[node.left_child]]
            [] compare(node.key, payload) = "BST_GT" ->
                 [node EXCEPT !.right_child = insert[node.right_child]]
            [] OTHER -> Replace(node, payload, replace, callback))
  IN  insert[tree]

find_max_payload[node \in Node] ==
  IF node.right_child = NULL THEN node.key ELSE find_max_payload[node.right_child]

find_min_payload[node \in Node] ==
  IF node.left_child = NULL THEN node.key ELSE find_min_payload[node.left_child]

get_node(tree, target) ==
  LET get[node \in Tree] ==
        IF node = NULL THEN NULL
        ELSE CASE compare(node.key, target) = "BST_EQ" -> node.key
               [] compare(node.key, target) = "BST_LT" -> get[node.left_child]
               [] OTHER -> get[node.right_child]
  IN  get[tree]

\* The payload a node with two children takes over from its left subtree.
\* A plausible slip: the wrong end of that subtree.
PromotedFromLeftMin(node) == find_min_payload[node.left_child]
PromotedFromLeft(node) == find_max_payload[node.left_child]

\* A node with two children takes the payload next to its own from the higher side.
remove_node[node \in Tree] ==
  [payload \in Payload |->
     IF node = NULL THEN NULL
     ELSE LET OnLeft(p) == [node EXCEPT !.left_child = remove_node[node.left_child][p]]
              OnRight(p) == [node EXCEPT !.right_child = remove_node[node.right_child][p]]
              left == PromotedFromLeft(node)
              right == find_min_payload[node.right_child]
          IN  CASE compare(node.key, payload) = "BST_LT" -> Rebalanced(OnLeft(payload))
                [] compare(node.key, payload) = "BST_GT" -> Rebalanced(OnRight(payload))
                [] OTHER ->
                     CASE node.right_child = NULL -> node.left_child
                       [] node.right_child # NULL /\ node.left_child = NULL -> node.right_child
                       [] OTHER -> Rebalanced(
                            IF node.left_child.height > node.right_child.height
                            THEN [OnLeft(left) EXCEPT !.key = left]
                            ELSE [OnRight(right) EXCEPT !.key = right])]

(***************************************************************************)
(* Traversals.  A visit is the payloads passed to the callback, and what   *)
(* the last call returned; the callback answers RECURSE_STOP for stop.     *)
(***************************************************************************)
Nothing == [seen |-> <<>>, recurse |-> TRUE]
Call(p, stop) == [seen |-> <<p>>, recurse |-> p # stop]
Then(first, second) ==
  IF first.recurse THEN [second EXCEPT !.seen = first.seen \o @] ELSE first

\* in_order drops what the visit of the left subtree returned.
Dropped(visit) == [visit EXCEPT !.recurse = TRUE]

traversal_node(tree, type, stop) ==
  LET visit[node \in Tree] ==
        IF node = NULL THEN Nothing
        ELSE LET self == Call(node.key, stop)
                 left == visit[node.left_child]
                 right == visit[node.right_child]
             IN  CASE type = "TRAVERSAL_IN_ORDER" -> Then(Dropped(left), Then(self, right))
                   [] type = "TRAVERSAL_PRE_ORDER" -> Then(self, Then(left, right))
                   [] OTHER -> Then(left, Then(right, self))   \* TRAVERSAL_POST_ORDER
  IN  visit[tree]

Orders == {"TRAVERSAL_IN_ORDER", "TRAVERSAL_PRE_ORDER", "TRAVERSAL_POST_ORDER"}

PayloadsIn[node \in Tree] ==
  IF node = NULL THEN {}
  ELSE {node.key} \cup PayloadsIn[node.left_child] \cup PayloadsIn[node.right_child]

Held == PayloadsIn[root]
Keys == {KeyOf[p] : p \in Held}

(***************************************************************************)
(* The public calls.                                                       *)
(***************************************************************************)
TreeInit ==
  /\ root = NULL /\ freed = {} /\ alive = TRUE
  /\ ret = [call |-> "bst_init", result |-> NULL]

\* global_result after insert_node, which bst_insert reads and puts back to 0.
\* A callback that inserts into some tree itself leaves 0 behind.
global_result(payload, callback, clobbered) ==
  CASE clobbered -> 0
    [] ~clobbered /\ get_node(root, payload) = NULL -> IF callback = "refuses" THEN 0 ELSE 1
    [] OTHER -> 1

\* insert_node calls the callback for a new payload, and for one that may replace another.
Asks(payload, replace, callback) ==
  /\ callback # "NULL"
  /\ get_node(root, payload) = NULL \/ replace = "REPLACE_PAYLOAD_TRUE"

\* What insert_node frees.
Replaced(payload, replace, callback) ==
  IF replace = "REPLACE_PAYLOAD_TRUE" /\ callback = "NULL"
  THEN {get_node(root, payload)} \ {NULL} ELSE {}

bst_insert(payload, replace, callback, clobbered) ==
  /\ payload \notin Held \cup freed
  /\ clobbered => Asks(payload, replace, callback)
  /\ root' = insert_node(root, payload, replace, callback)
  /\ freed' = freed \cup Replaced(payload, replace, callback)
  /\ ret' = [call |-> "bst_insert", payload |-> payload, replace |-> replace,
             callback |-> callback, clobbered |-> clobbered,
             result |-> IF global_result(payload, callback, clobbered) = 1
                        THEN "BST_INSERT_SUCCESS" ELSE "BST_INSERT_FAILURE"]
  /\ UNCHANGED alive

\* What bst_remove frees: the payload found.  A plausible slip: the one given.
RemovedGiven(payload) == payload
Removed(payload) == get_node(root, payload)

\* The payload given names the one to remove by its key.  remove_node finds what
\* bst_get_node found and sets global_result, so BST_REMOVE_FAILURE never comes.
bst_remove(payload, free_payload) ==
  /\ ret' = [call |-> "bst_remove", key |-> KeyOf[payload], free |-> free_payload,
             result |-> IF get_node(root, payload) = NULL
                        THEN "BST_NODE_NOT_FOUND" ELSE "BST_REMOVE_SUCCESS"]
  /\ IF get_node(root, payload) = NULL
     THEN UNCHANGED <<root, freed>>
     ELSE /\ root' = remove_node[root][payload]
          /\ freed' = IF free_payload = "FREE_PAYLOAD_TRUE"
                      THEN freed \cup {Removed(payload)} ELSE freed
  /\ UNCHANGED alive

bst_get_node(payload) ==
  /\ ret' = [call |-> "bst_get_node", key |-> KeyOf[payload],
             result |-> get_node(root, payload)]
  /\ UNCHANGED <<root, freed, alive>>

bst_traversal(type, stop) ==
  /\ ret' = [call |-> "bst_traversal", order |-> type, stop |-> stop,
             result |-> traversal_node(root, type, stop).seen]
  /\ UNCHANGED <<root, freed, alive>>

bst_destroy(free_payload) ==
  /\ root' = NULL /\ alive' = FALSE
  /\ freed' = IF free_payload = "FREE_PAYLOAD_TRUE" THEN freed \cup Held ELSE freed
  /\ ret' = [call |-> "bst_destroy", free |-> free_payload, result |-> NULL]

(***************************************************************************)
(* What must be true.                                                      *)
(***************************************************************************)
HeightOf[node \in Tree] ==
  IF node = NULL THEN -1
  ELSE 1 + node_max(HeightOf[node.left_child], HeightOf[node.right_child])

Subtrees[node \in Tree] ==
  IF node = NULL THEN {}
  ELSE {node} \cup Subtrees[node.left_child] \cup Subtrees[node.right_child]

\* The tree is made of nodes that hold payloads, each in one place, and the
\* last call answered.
TreeTypeOK ==
  /\ root \in Tree
  /\ Len(traversal_node(root, "TRAVERSAL_PRE_ORDER", NULL).seen) = Cardinality(Held)
  /\ freed \subseteq Payload /\ alive \in BOOLEAN
  /\ {"call", "result"} \subseteq DOMAIN ret

\* Lookup descends to one side by comparing with one key, so every key of a
\* left subtree is below its root's and every key of a right one above, after
\* any rotation and any promotion (bst.c:404-437, 512-538).
SearchTree ==
  \A node \in Subtrees[root] :
    /\ \A below \in Subtrees[node.left_child] : KeyOf[below.key] < KeyOf[node.key]
    /\ \A above \in Subtrees[node.right_child] : KeyOf[above.key] > KeyOf[node.key]

\* Every cached height is the height, and the heights of no two siblings differ
\* by more than one: set_height and balance_tree were called on every node whose
\* subtree an insertion or removal changed, lower nodes first (bst.c:310, 440).
Balanced ==
  \A node \in Subtrees[root] :
    /\ node.height = HeightOf[node]
    /\ HeightOf[node.left_child] - HeightOf[node.right_child] \in -1..1

\* The comment of bst_traversal (bst.c:177-186): nothing is visited after the
\* callback has asked to stop.
TraversalStops ==
  ret.call = "bst_traversal" =>
    \A i \in DOMAIN ret.result : ret.result[i] = ret.stop => i = Len(ret.result)

\* The tree is the sorted map AbsMap describes: what is under each key, what a
\* traversal visits and in which order, what is freed, what each call returns.
Entries ==
  LET held == Held
  IN  [k \in {KeyOf[p] : p \in held} |-> CHOOSE p \in held : KeyOf[p] = k]
Map == INSTANCE AbsMap WITH entries <- Entries
ImplementsAbsMap == Map!Spec
=============================================================================
