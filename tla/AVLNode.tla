------------------------------ MODULE AVLNode -------------------------------
(***************************************************************************)
(* The nodes of avl_bst_adt (bst.c), and the part of the balancing that    *)
(* looks at a node, its children and theirs: cached heights and rotations. *)
(* A tree is a value: a node with its children in it, or NULL.  No two     *)
(* parents share a child in the code, so writing into a child is building  *)
(* the parent anew.                                                        *)
(***************************************************************************)
EXTENDS Integers

CONSTANT NULL

\* A node can be told from NULL, which has no fields.
ASSUME AVLNodeAssumption == "height" \notin DOMAIN NULL

NewNode(payload) ==
  [height |-> 0, left_child |-> NULL, right_child |-> NULL, key |-> payload]

get_height(node) == IF node = NULL THEN -1 ELSE node.height

node_max(left, right) == IF left > right THEN left ELSE right

set_height(node) ==
  [node EXCEPT !.height =
     node_max(get_height(node.left_child), get_height(node.right_child)) + 1]

get_balance_factor(node) ==
  IF node = NULL THEN 0
  ELSE get_height(node.left_child) - get_height(node.right_child)

is_left_heavy(node) == get_balance_factor(node) > 1
is_right_heavy(node) == get_balance_factor(node) < -1

\* The lower node gets its height first: the height of new_root depends on it.
\* A plausible slip: the wrong grandchild is handed over.
right_rotationOuter(node) ==
  LET new_root == node.left_child
      lowered == set_height([node EXCEPT !.left_child = new_root.left_child])
  IN  set_height([new_root EXCEPT !.right_child = lowered])

right_rotation(node) ==
  LET new_root == node.left_child
      lowered == set_height([node EXCEPT !.left_child = new_root.right_child])
  IN  set_height([new_root EXCEPT !.right_child = lowered])

left_rotation(node) ==
  LET new_root == node.right_child
      lowered == set_height([node EXCEPT !.right_child = new_root.left_child])
  IN  set_height([new_root EXCEPT !.left_child = lowered])

\* A plausible slip: the inner grandchild is not rotated out first.
balance_treeSingle(node) ==
  CASE is_left_heavy(node) -> right_rotation(node)
    [] is_right_heavy(node) -> left_rotation(node)
    [] OTHER -> node

balance_tree(node) ==
  CASE is_left_heavy(node) ->
         right_rotation(
           IF get_balance_factor(node.left_child) < 0
           THEN [node EXCEPT !.left_child = left_rotation(node.left_child)]
           ELSE node)
    [] is_right_heavy(node) ->
         left_rotation(
           IF get_balance_factor(node.right_child) > 0
           THEN [node EXCEPT !.right_child = right_rotation(node.right_child)]
           ELSE node)
    [] OTHER -> node
=============================================================================
