---------------------------- MODULE AVLTreeProofs -----------------------------
(***************************************************************************)
(* The AVL tree is a search tree, in balance, whatever calls are made and  *)
(* whatever its size, and implements the sorted map of AbsMap.             *)
(*                                                                         *)
(* From the bottom up: what balance_tree does to one node; the trees there *)
(* are, with induction over them; the search trees (Ordered) and the trees *)
(* in balance (EvenTrees); what each recursive function of AVLTree returns *)
(* for every tree; and what the calls do.  The inductive invariant,        *)
(* TreeInv, is that root is in Ordered and in EvenTrees.  held[x] is what  *)
(* a tree x holds.                                                         *)
(*                                                                         *)
(* A recursive function of AVLTree is the function its definition chooses. *)
(* That there is one to choose is TreeFunction; lemmas named ...Is unfold  *)
(* one by one level.                                                       *)
(***************************************************************************)
EXTENDS TreeMap, Lemmas, FiniteSetTheorems, FunctionTheorems

-----------------------------------------------------------------------------
(***************************************************************************)
(* One node: set_height, the rotations and balance_tree.                   *)
(***************************************************************************)
\* A set of nodes that has the children of its nodes, and what can be built
\* from them: the finite trees over some payloads, with any cached heights, are one.
Forest(Nodes, Payloads) ==
  /\ NULL \notin Nodes
  /\ \A n \in Nodes :
       /\ n.height \in Nat /\ n.key \in Payloads
       /\ n.left_child \in Nodes \cup {NULL} /\ n.right_child \in Nodes \cup {NULL}
       /\ n = [height |-> n.height, left_child |-> n.left_child,
               right_child |-> n.right_child, key |-> n.key]
  /\ \A h \in Nat, k \in Payloads : \A l, r \in Nodes \cup {NULL} :
       [height |-> h, left_child |-> l, right_child |-> r, key |-> k] \in Nodes

\* A node over two trees, with the height they give it.
Joined(l, k, r) ==
  [height |-> node_max(get_height(l), get_height(r)) + 1,
   left_child |-> l, right_child |-> r, key |-> k]

\* The cached height is the one the children give, and they differ by one at most.
Even(n) ==
  n # NULL => /\ n.height = node_max(get_height(n.left_child), get_height(n.right_child)) + 1
              /\ get_balance_factor(n) \in -1..1

\* Heights are integers from -1, as get_height has them (bst.c:570-580).
LEMMA HeightRange ==
  ASSUME NEW Nodes, NEW Payloads, Forest(Nodes, Payloads), NEW n \in Nodes \cup {NULL}
  PROVE  get_height(n) \in Int /\ get_height(n) >= -1
         /\ (n # NULL => get_height(n) >= 0)
  BY DEF Forest, get_height

\* What set_height leaves of two trees under a payload is a node of the forest.
LEMMA JoinedNode ==
  ASSUME NEW Nodes, NEW Payloads, Forest(Nodes, Payloads), NEW k \in Payloads,
         NEW l \in Nodes \cup {NULL}, NEW r \in Nodes \cup {NULL}
  PROVE  /\ Joined(l, k, r) \in Nodes /\ Joined(l, k, r) # NULL
         /\ get_height(Joined(l, k, r)) = node_max(get_height(l), get_height(r)) + 1
         /\ Joined(l, k, r).left_child = l /\ Joined(l, k, r).right_child = r
         /\ Joined(l, k, r).key = k
<1>1. node_max(get_height(l), get_height(r)) + 1 \in Nat
  BY HeightRange DEF node_max
<1>2. Joined(l, k, r) \in Nodes
  BY <1>1 DEF Forest, Joined
<1>3. Joined(l, k, r) # NULL
  BY <1>2 DEF Forest
<1> QED
  BY <1>2, <1>3 DEF Joined, get_height

\* right_rotation lifts the left child (bst.c:512-521).
LEMMA RightRotated ==
  ASSUME NEW Nodes, NEW Payloads, Forest(Nodes, Payloads),
         NEW n \in Nodes, n.left_child # NULL
  PROVE  right_rotation(n) =
           Joined(n.left_child.left_child, n.left_child.key,
                  Joined(n.left_child.right_child, n.key, n.right_child))
<1> DEFINE l == n.left_child
<1>1. n = [height |-> n.height, left_child |-> l, right_child |-> n.right_child, key |-> n.key]
  BY DEF Forest
<1>2. l = [height |-> l.height, left_child |-> l.left_child,
           right_child |-> l.right_child, key |-> l.key]
  BY DEF Forest
<1> DEFINE low == [n EXCEPT !.left_child = l.right_child]
<1>3. low = [height |-> n.height, left_child |-> l.right_child,
             right_child |-> n.right_child, key |-> n.key]
  BY <1>1
<1>4. set_height(low) = Joined(l.right_child, n.key, n.right_child)
  <2> HIDE DEF low
  <2> QED BY <1>3 DEF set_height, Joined
<1> DEFINE top == [l EXCEPT !.right_child = set_height(low)]
<1>5. top = [height |-> l.height, left_child |-> l.left_child,
             right_child |-> set_height(low), key |-> l.key]
  <2> HIDE DEF low
  <2> QED BY <1>2
<1>6. set_height(top) = Joined(l.left_child, l.key, set_height(low))
  <2> HIDE DEF low, top
  <2> QED BY <1>5 DEF set_height, Joined
<1>7. right_rotation(n) = set_height(top)
  BY DEF right_rotation
<1> QED
  BY <1>4, <1>6, <1>7

\* left_rotation lifts the right child (bst.c:529-538).
LEMMA LeftRotated ==
  ASSUME NEW Nodes, NEW Payloads, Forest(Nodes, Payloads),
         NEW n \in Nodes, n.right_child # NULL
  PROVE  left_rotation(n) =
           Joined(Joined(n.left_child, n.key, n.right_child.left_child),
                  n.right_child.key, n.right_child.right_child)
<1> DEFINE r == n.right_child
<1>1. n = [height |-> n.height, left_child |-> n.left_child, right_child |-> r, key |-> n.key]
  BY DEF Forest
<1>2. r = [height |-> r.height, left_child |-> r.left_child,
           right_child |-> r.right_child, key |-> r.key]
  BY DEF Forest
<1> DEFINE low == [n EXCEPT !.right_child = r.left_child]
<1>3. low = [height |-> n.height, left_child |-> n.left_child,
             right_child |-> r.left_child, key |-> n.key]
  BY <1>1
<1>4. set_height(low) = Joined(n.left_child, n.key, r.left_child)
  <2> HIDE DEF low
  <2> QED BY <1>3 DEF set_height, Joined
<1> DEFINE top == [r EXCEPT !.left_child = set_height(low)]
<1>5. top = [height |-> r.height, left_child |-> set_height(low),
             right_child |-> r.right_child, key |-> r.key]
  <2> HIDE DEF low
  <2> QED BY <1>2
<1>6. set_height(top) = Joined(set_height(low), r.key, r.right_child)
  <2> HIDE DEF low, top
  <2> QED BY <1>5 DEF set_height, Joined
<1>7. left_rotation(n) = set_height(top)
  BY DEF left_rotation
<1> QED
  BY <1>4, <1>6, <1>7

-----------------------------------------------------------------------------
(***************************************************************************)
(* Balance.                                                                *)
(***************************************************************************)

\* The node a single rotation leaves when the left side is too high.
LEMMA LiftedLeft ==
  ASSUME NEW Nodes, NEW Payloads, Forest(Nodes, Payloads), NEW n \in Nodes,
         n.left_child # NULL, Even(n.left_child),
         get_balance_factor(n) = 2, get_balance_factor(n.left_child) >= 0
  PROVE  LET l == n.left_child
             low == Joined(l.right_child, n.key, n.right_child)
             b == Joined(l.left_child, l.key, low)
         IN  /\ b \in Nodes /\ low \in Nodes
             /\ Even(b) /\ Even(low)
             /\ get_height(b) \in {get_height(l), get_height(l) + 1}
<1> DEFINE l == n.left_child
           ll == l.left_child
           lr == l.right_child
           r == n.right_child
           low == Joined(lr, n.key, r)
           b == Joined(ll, l.key, low)
<1>1. n # NULL /\ l \in Nodes /\ l.key \in Payloads /\ n.key \in Payloads
  BY DEF Forest
<1>2. ll \in Nodes \cup {NULL} /\ lr \in Nodes \cup {NULL} /\ r \in Nodes \cup {NULL}
  BY <1>1 DEF Forest
<1>3. /\ get_height(ll) \in Int /\ get_height(lr) \in Int /\ get_height(r) \in Int
      /\ get_height(ll) >= -1 /\ get_height(lr) >= -1 /\ get_height(r) >= -1
  BY <1>2, HeightRange
<1>4. /\ get_height(l) = node_max(get_height(ll), get_height(lr)) + 1
      /\ get_height(ll) - get_height(lr) \in 0..1
      /\ get_height(l) - get_height(r) = 2
  BY <1>1, <1>3 DEF Even, get_balance_factor, get_height
<1>5. /\ low \in Nodes /\ low # NULL
      /\ get_height(low) = node_max(get_height(lr), get_height(r)) + 1
      /\ low.left_child = lr /\ low.right_child = r
  BY <1>1, <1>2, JoinedNode
<1>6. /\ b \in Nodes /\ b # NULL
      /\ get_height(b) = node_max(get_height(ll), get_height(low)) + 1
      /\ b.left_child = ll /\ b.right_child = low
  <2> HIDE DEF low, l, ll, lr, r
  <2> QED BY <1>1, <1>2, <1>5, JoinedNode
<1> HIDE DEF l, ll, lr, r, low, b
<1>7. get_height(lr) - get_height(r) \in 0..1
  BY <1>3, <1>4 DEF node_max
<1>8. get_height(low) = get_height(lr) + 1
  BY <1>3, <1>5, <1>7 DEF node_max
<1>9. get_height(ll) - get_height(low) \in -1..0
  BY <1>3, <1>4, <1>8
<1>10. Even(low)
  BY <1>3, <1>5, <1>7 DEF Even, get_balance_factor, get_height
<1>11. Even(b)
  BY <1>6, <1>9 DEF Even, get_balance_factor, get_height
<1>12. get_height(b) \in {get_height(l), get_height(l) + 1}
  BY <1>3, <1>4, <1>6, <1>8 DEF node_max
<1> QED
  BY <1>5, <1>6, <1>10, <1>11, <1>12 DEF b, low, l, ll, lr, r

\* The node a single rotation leaves when the right side is too high.
LEMMA LiftedRight ==
  ASSUME NEW Nodes, NEW Payloads, Forest(Nodes, Payloads), NEW n \in Nodes,
         n.right_child # NULL, Even(n.right_child),
         get_balance_factor(n) = -2, get_balance_factor(n.right_child) <= 0
  PROVE  LET r == n.right_child
             low == Joined(n.left_child, n.key, r.left_child)
             b == Joined(low, r.key, r.right_child)
         IN  /\ b \in Nodes /\ low \in Nodes
             /\ Even(b) /\ Even(low)
             /\ get_height(b) \in {get_height(r), get_height(r) + 1}
<1> DEFINE r == n.right_child
           rl == r.left_child
           rr == r.right_child
           l == n.left_child
           low == Joined(l, n.key, rl)
           b == Joined(low, r.key, rr)
<1>1. n # NULL /\ r \in Nodes /\ r.key \in Payloads /\ n.key \in Payloads
  BY DEF Forest
<1>2. rl \in Nodes \cup {NULL} /\ rr \in Nodes \cup {NULL} /\ l \in Nodes \cup {NULL}
  BY <1>1 DEF Forest
<1>3. /\ get_height(rl) \in Int /\ get_height(rr) \in Int /\ get_height(l) \in Int
      /\ get_height(rl) >= -1 /\ get_height(rr) >= -1 /\ get_height(l) >= -1
  BY <1>2, HeightRange
<1>4. /\ get_height(r) = node_max(get_height(rl), get_height(rr)) + 1
      /\ get_height(rr) - get_height(rl) \in 0..1
      /\ get_height(r) - get_height(l) = 2
  BY <1>1, <1>3 DEF Even, get_balance_factor, get_height, node_max
<1>5. /\ low \in Nodes /\ low # NULL
      /\ get_height(low) = node_max(get_height(l), get_height(rl)) + 1
      /\ low.left_child = l /\ low.right_child = rl
  BY <1>1, <1>2, JoinedNode
<1>6. /\ b \in Nodes /\ b # NULL
      /\ get_height(b) = node_max(get_height(low), get_height(rr)) + 1
      /\ b.left_child = low /\ b.right_child = rr
  <2> HIDE DEF low, r, rl, rr, l
  <2> QED BY <1>1, <1>2, <1>5, JoinedNode
<1> HIDE DEF r, rl, rr, l, low, b
<1>7. get_height(rl) - get_height(l) \in 0..1
  BY <1>3, <1>4 DEF node_max
<1>8. get_height(low) = get_height(rl) + 1
  BY <1>3, <1>5, <1>7 DEF node_max
<1>9. get_height(low) - get_height(rr) \in 0..1
  BY <1>3, <1>4, <1>8
<1>10. Even(low)
  BY <1>3, <1>5, <1>7 DEF Even, get_balance_factor, get_height
<1>11. Even(b)
  BY <1>6, <1>9 DEF Even, get_balance_factor, get_height
<1>12. get_height(b) \in {get_height(r), get_height(r) + 1}
  BY <1>3, <1>4, <1>6, <1>8 DEF node_max
<1> QED
  BY <1>5, <1>6, <1>10, <1>11, <1>12 DEF b, low, r, rl, rr, l

\* The node a double rotation leaves: a and d on the outside, and between them
\* the children of the node m that comes up from the inside, one of them as high
\* as a and d, the other at most one lower.
LEMMA LiftedInner ==
  ASSUME NEW Nodes, NEW Payloads, Forest(Nodes, Payloads), NEW m \in Nodes, Even(m),
         NEW a \in Nodes \cup {NULL}, NEW d \in Nodes \cup {NULL},
         NEW j \in Payloads, NEW k \in Payloads,
         get_height(a) = get_height(d), get_height(m) = get_height(d) + 1
  PROVE  LET left == Joined(a, j, m.left_child)
             right == Joined(m.right_child, k, d)
             b == Joined(left, m.key, right)
         IN  /\ b \in Nodes /\ left \in Nodes /\ right \in Nodes
             /\ Even(b) /\ Even(left) /\ Even(right)
             /\ get_height(b) = get_height(d) + 2
<1> DEFINE ml == m.left_child
           mr == m.right_child
           left == Joined(a, j, ml)
           right == Joined(mr, k, d)
           b == Joined(left, m.key, right)
<1>1. m # NULL /\ m.key \in Payloads /\ ml \in Nodes \cup {NULL} /\ mr \in Nodes \cup {NULL}
  BY DEF Forest
<1>2. /\ get_height(a) \in Int /\ get_height(d) \in Int
      /\ get_height(ml) \in Int /\ get_height(mr) \in Int
  BY <1>1, HeightRange
<1>3. /\ get_height(m) = node_max(get_height(ml), get_height(mr)) + 1
      /\ get_height(ml) - get_height(mr) \in -1..1
  BY <1>1, <1>2 DEF Even, get_balance_factor, get_height
<1>4. /\ left \in Nodes /\ left # NULL
      /\ get_height(left) = node_max(get_height(a), get_height(ml)) + 1
      /\ left.left_child = a /\ left.right_child = ml
  BY <1>1, JoinedNode
<1>5. /\ right \in Nodes /\ right # NULL
      /\ get_height(right) = node_max(get_height(mr), get_height(d)) + 1
      /\ right.left_child = mr /\ right.right_child = d
  BY <1>1, JoinedNode
<1>6. /\ b \in Nodes /\ b # NULL
      /\ get_height(b) = node_max(get_height(left), get_height(right)) + 1
      /\ b.left_child = left /\ b.right_child = right
  <2> HIDE DEF left, right, ml, mr
  <2> QED BY <1>1, <1>4, <1>5, JoinedNode
<1> HIDE DEF ml, mr, left, right, b
<1>7. get_height(d) - get_height(ml) \in 0..1 /\ get_height(d) - get_height(mr) \in 0..1
  BY <1>2, <1>3 DEF node_max
<1>8. get_height(left) = get_height(d) + 1 /\ get_height(right) = get_height(d) + 1
  BY <1>2, <1>4, <1>5, <1>7 DEF node_max
<1>9. Even(left)
  BY <1>2, <1>4, <1>7 DEF Even, get_balance_factor, get_height
<1>10. Even(right)
  BY <1>2, <1>5, <1>7 DEF Even, get_balance_factor, get_height
<1>11. get_height(left) - get_height(right) \in -1..1
  BY <1>2, <1>8
<1>12. Even(b)
  BY <1>6, <1>11 DEF Even, get_balance_factor, get_height
<1>13. get_height(b) = get_height(d) + 2
  BY <1>2, <1>6, <1>8 DEF node_max
<1> QED
  BY <1>4, <1>5, <1>6, <1>9, <1>10, <1>12, <1>13 DEF b, left, right, ml, mr

-----------------------------------------------------------------------------
(***************************************************************************)
(* What balance_tree returns (bst.c:478-504).                              *)
(***************************************************************************)
LL(n) == Joined(n.left_child.left_child, n.left_child.key,
                Joined(n.left_child.right_child, n.key, n.right_child))

RR(n) == Joined(Joined(n.left_child, n.key, n.right_child.left_child),
                n.right_child.key, n.right_child.right_child)

LR(n) == LET l == n.left_child m == l.right_child
         IN  Joined(Joined(l.left_child, l.key, m.left_child), m.key,
                    Joined(m.right_child, n.key, n.right_child))

RL(n) == LET r == n.right_child m == r.left_child
         IN  Joined(Joined(n.left_child, n.key, m.left_child), m.key,
                    Joined(m.right_child, r.key, r.right_child))

\* The side that is too high has a root, and so has its inner side when that is
\* the higher one: no rotation of the code reads through NULL.
LEMMA HighSide ==
  ASSUME NEW Nodes, NEW Payloads, Forest(Nodes, Payloads), NEW n \in Nodes
  PROVE  /\ get_balance_factor(n) > 0 => n.left_child # NULL
         /\ get_balance_factor(n) < 0 => n.right_child # NULL
<1>1. n # NULL /\ n.left_child \in Nodes \cup {NULL} /\ n.right_child \in Nodes \cup {NULL}
  BY DEF Forest
<1>2. get_balance_factor(n) = get_height(n.left_child) - get_height(n.right_child)
  BY <1>1 DEF get_balance_factor
<1>3. /\ get_height(n.left_child) \in Int /\ get_height(n.left_child) >= -1
      /\ get_height(n.right_child) \in Int /\ get_height(n.right_child) >= -1
  BY <1>1, HeightRange
<1>4. get_height(NULL) = -1
  BY DEF get_height
<1>5. ASSUME get_balance_factor(n) > 0 PROVE n.left_child # NULL
  BY <1>2, <1>3, <1>4, <1>5
<1>6. ASSUME get_balance_factor(n) < 0 PROVE n.right_child # NULL
  BY <1>2, <1>3, <1>4, <1>6
<1> QED
  BY <1>5, <1>6

\* A balance factor is an integer.
LEMMA FactorIsInt ==
  ASSUME NEW Nodes, NEW Payloads, Forest(Nodes, Payloads), NEW n \in Nodes \cup {NULL}
  PROVE  get_balance_factor(n) \in Int
<1>1. CASE n = NULL
  BY <1>1 DEF get_balance_factor
<1>2. CASE n # NULL
  <2>1. n.left_child \in Nodes \cup {NULL} /\ n.right_child \in Nodes \cup {NULL}
    BY <1>2 DEF Forest
  <2>2. get_height(n.left_child) \in Int /\ get_height(n.right_child) \in Int
    BY <2>1, HeightRange
  <2> QED
    BY <1>2, <2>2 DEF get_balance_factor
<1> QED
  BY <1>1, <1>2

\* What balance_tree makes of a node that is left-heavy.
LEMMA BalancedLeft ==
  ASSUME NEW Nodes, NEW Payloads, Forest(Nodes, Payloads), NEW n \in Nodes,
         get_balance_factor(n) > 1
  PROVE  balance_tree(n) = IF get_balance_factor(n.left_child) < 0 THEN LR(n) ELSE LL(n)
<1> DEFINE l == n.left_child
<1>1. get_balance_factor(n) \in Int
  BY FactorIsInt
<1>2. l # NULL /\ l \in Nodes /\ ~(get_balance_factor(n) < -1)
  <2>1. get_balance_factor(n) > 0 /\ ~(get_balance_factor(n) < -1)
    BY <1>1
  <2> QED
    BY <2>1, HighSide DEF Forest
<1>3. CASE ~(get_balance_factor(l) < 0)
  <2>1. balance_tree(n) = right_rotation(n)
    BY <1>2, <1>3 DEF balance_tree, is_left_heavy, is_right_heavy
  <2> QED
    BY <1>2, <1>3, <2>1, RightRotated DEF LL
<1>4. CASE get_balance_factor(l) < 0
  <2> DEFINE x == left_rotation(l)
             y == [n EXCEPT !.left_child = x]
             low == Joined(l.left_child, l.key, l.right_child.left_child)
  <2>1. balance_tree(n) = right_rotation(y)
    BY <1>2, <1>4 DEF balance_tree, is_left_heavy, is_right_heavy
  <2>2. l.right_child # NULL
    BY <1>2, <1>4, HighSide
  <2>3. x = Joined(low, l.right_child.key, l.right_child.right_child)
    BY <1>2, <2>2, LeftRotated
  <2>4. /\ l.left_child \in Nodes \cup {NULL} /\ l.right_child \in Nodes /\ l.key \in Payloads
        /\ l.right_child.left_child \in Nodes \cup {NULL}
        /\ l.right_child.right_child \in Nodes \cup {NULL}
        /\ l.right_child.key \in Payloads
    BY <1>2, <2>2 DEF Forest
  <2>5. low \in Nodes
    BY <2>4, JoinedNode
  <2> HIDE DEF low, x
  <2>6. /\ x \in Nodes /\ x # NULL /\ x.left_child = low
        /\ x.key = l.right_child.key /\ x.right_child = l.right_child.right_child
    BY <2>3, <2>4, <2>5, JoinedNode
  <2>7. /\ n = [height |-> n.height, left_child |-> l,
                right_child |-> n.right_child, key |-> n.key]
        /\ n.height \in Nat /\ n.key \in Payloads /\ n.right_child \in Nodes \cup {NULL}
    BY DEF Forest
  <2>8. y = [height |-> n.height, left_child |-> x,
             right_child |-> n.right_child, key |-> n.key]
    BY <2>7
  <2>9. y \in Nodes /\ y.left_child = x /\ y.key = n.key /\ y.right_child = n.right_child
    <3>1. y \in Nodes
      BY <2>6, <2>7, <2>8 DEF Forest
    <3> QED
      BY <3>1, <2>8
  <2> HIDE DEF y
  <2>10. right_rotation(y) = Joined(x.left_child, x.key,
                                    Joined(x.right_child, n.key, n.right_child))
    BY <2>6, <2>9, RightRotated
  <2>11. balance_tree(n) = LR(n)
    BY <2>1, <2>6, <2>10 DEF LR, low
  <2> QED
    BY <1>4, <2>11
<1> QED
  BY <1>3, <1>4

\* What balance_tree makes of a node that is right-heavy.
LEMMA BalancedRight ==
  ASSUME NEW Nodes, NEW Payloads, Forest(Nodes, Payloads), NEW n \in Nodes,
         get_balance_factor(n) < -1
  PROVE  balance_tree(n) = IF get_balance_factor(n.right_child) > 0 THEN RL(n) ELSE RR(n)
<1> DEFINE r == n.right_child
<1>1. get_balance_factor(n) \in Int
  BY FactorIsInt
<1>2. r # NULL /\ r \in Nodes /\ ~(get_balance_factor(n) > 1)
  <2>1. get_balance_factor(n) < 0 /\ ~(get_balance_factor(n) > 1)
    BY <1>1
  <2> QED
    BY <2>1, HighSide DEF Forest
<1>3. CASE ~(get_balance_factor(r) > 0)
  <2>1. balance_tree(n) = left_rotation(n)
    BY <1>2, <1>3 DEF balance_tree, is_left_heavy, is_right_heavy
  <2> QED
    BY <1>2, <1>3, <2>1, LeftRotated DEF RR
<1>4. CASE get_balance_factor(r) > 0
  <2> DEFINE x == right_rotation(r)
             y == [n EXCEPT !.right_child = x]
             low == Joined(r.left_child.right_child, r.key, r.right_child)
  <2>1. balance_tree(n) = left_rotation(y)
    BY <1>2, <1>4 DEF balance_tree, is_left_heavy, is_right_heavy
  <2>2. r.left_child # NULL
    BY <1>2, <1>4, HighSide
  <2>3. x = Joined(r.left_child.left_child, r.left_child.key, low)
    BY <1>2, <2>2, RightRotated
  <2>4. /\ r.right_child \in Nodes \cup {NULL} /\ r.left_child \in Nodes /\ r.key \in Payloads
        /\ r.left_child.left_child \in Nodes \cup {NULL}
        /\ r.left_child.right_child \in Nodes \cup {NULL}
        /\ r.left_child.key \in Payloads
    BY <1>2, <2>2 DEF Forest
  <2>5. low \in Nodes
    BY <2>4, JoinedNode
  <2> HIDE DEF low, x
  <2>6. /\ x \in Nodes /\ x # NULL /\ x.right_child = low
        /\ x.key = r.left_child.key /\ x.left_child = r.left_child.left_child
    BY <2>3, <2>4, <2>5, JoinedNode
  <2>7. /\ n = [height |-> n.height, left_child |-> n.left_child,
                right_child |-> r, key |-> n.key]
        /\ n.height \in Nat /\ n.key \in Payloads /\ n.left_child \in Nodes \cup {NULL}
    BY DEF Forest
  <2>8. y = [height |-> n.height, left_child |-> n.left_child,
             right_child |-> x, key |-> n.key]
    BY <2>7
  <2>9. y \in Nodes /\ y.right_child = x /\ y.key = n.key /\ y.left_child = n.left_child
    <3>1. y \in Nodes
      BY <2>6, <2>7, <2>8 DEF Forest
    <3> QED
      BY <3>1, <2>8
  <2> HIDE DEF y
  <2>10. left_rotation(y) = Joined(Joined(n.left_child, n.key, x.left_child),
                                   x.key, x.right_child)
    BY <2>6, <2>9, LeftRotated
  <2>11. balance_tree(n) = RL(n)
    BY <2>1, <2>6, <2>10 DEF RL, low
  <2> QED
    BY <1>4, <2>11
<1> QED
  BY <1>3, <1>4

-----------------------------------------------------------------------------
(***************************************************************************)
(* Balance and order, for trees of every size.                             *)
(***************************************************************************)

\* even is the predicate "every node of the tree is Even".
EvenThroughout(Nodes, even) ==
  /\ even \in [Nodes \cup {NULL} -> BOOLEAN]
  /\ even[NULL] = TRUE
  /\ \A n \in Nodes :
       even[n] <=> Even(n) /\ even[n.left_child] /\ even[n.right_child]

\* A tree even throughout has its root even, and its subtrees throughout.
LEMMA EvenParts ==
  ASSUME NEW Nodes, NEW Payloads, Forest(Nodes, Payloads),
         NEW even, EvenThroughout(Nodes, even),
         NEW n \in Nodes \cup {NULL}, n # NULL, even[n]
  PROVE  Even(n) /\ even[n.left_child] /\ even[n.right_child]
  BY DEF EvenThroughout

\* Two trees even throughout make one, if the node over them is even.
LEMMA EvenWhole ==
  ASSUME NEW Nodes, NEW Payloads, Forest(Nodes, Payloads),
         NEW even, EvenThroughout(Nodes, even), NEW k \in Payloads,
         NEW l \in Nodes \cup {NULL}, NEW r \in Nodes \cup {NULL},
         even[l], even[r], Even(Joined(l, k, r))
  PROVE  even[Joined(l, k, r)]
<1>1. /\ Joined(l, k, r) \in Nodes
      /\ Joined(l, k, r).left_child = l /\ Joined(l, k, r).right_child = r
  BY JoinedNode
<1> QED
  BY <1>1 DEF EvenThroughout

\* balance_tree is called on a node whose height was just set, over two trees
\* that are in balance and differ in height by two at most.  What it returns is
\* in balance down to the last node, and at most one lower, so the same holds for
\* the caller one level up (bst.c:310-313, 440-442).
THEOREM BalanceRestored ==
  ASSUME NEW Nodes, NEW Payloads, Forest(Nodes, Payloads),
         NEW even, EvenThroughout(Nodes, even), NEW n \in Nodes,
         even[n.left_child], even[n.right_child],
         n.height = node_max(get_height(n.left_child), get_height(n.right_child)) + 1,
         get_balance_factor(n) \in -2..2
  PROVE  /\ balance_tree(n) \in Nodes
         /\ even[balance_tree(n)]
         /\ get_height(balance_tree(n)) \in {n.height - 1, n.height}
<1> DEFINE l == n.left_child
           r == n.right_child
<1>1. /\ n # NULL /\ l \in Nodes \cup {NULL} /\ r \in Nodes \cup {NULL}
      /\ n.key \in Payloads /\ n.height \in Nat
  BY DEF Forest
<1>2. /\ get_height(l) \in Int /\ get_height(r) \in Int
      /\ get_balance_factor(n) = get_height(l) - get_height(r)
      /\ get_height(n) = n.height
  BY <1>1, HeightRange DEF get_balance_factor, get_height
<1>3. get_balance_factor(l) \in Int /\ get_balance_factor(r) \in Int
  BY <1>1, FactorIsInt
<1>4. CASE get_balance_factor(n) \in -1..1
  <2>1. ~(get_balance_factor(n) > 1) /\ ~(get_balance_factor(n) < -1)
    BY <1>4
  <2>2. balance_tree(n) = n
    BY <2>1 DEF balance_tree, is_left_heavy, is_right_heavy
  <2>3. Even(n)
    BY <1>4 DEF Even
  <2>4. even[n]
    BY <2>3 DEF EvenThroughout
  <2> QED
    BY <1>2, <2>2, <2>4
<1>5. CASE get_balance_factor(n) = 2
  <2>1. l \in Nodes /\ l # NULL
    <3>1. get_balance_factor(n) > 0
      BY <1>5
    <3> QED
      BY <1>1, <3>1, HighSide
  <2>2. Even(l) /\ even[l.left_child] /\ even[l.right_child]
    BY <2>1, EvenParts
  <2>3. /\ l.key \in Payloads /\ l.left_child \in Nodes \cup {NULL}
        /\ l.right_child \in Nodes \cup {NULL}
    BY <2>1 DEF Forest
  <2>4. balance_tree(n) = IF get_balance_factor(l) < 0 THEN LR(n) ELSE LL(n)
    <3>1. get_balance_factor(n) > 1
      BY <1>5
    <3> QED
      BY <3>1, BalancedLeft
  <2>5. n.height = get_height(l) + 1
    BY <1>2, <1>5 DEF node_max
  <2>6. CASE get_balance_factor(l) >= 0
    <3> DEFINE low == Joined(l.right_child, n.key, r)
               b == Joined(l.left_child, l.key, low)
    <3>1. /\ b \in Nodes /\ low \in Nodes /\ Even(b) /\ Even(low)
          /\ get_height(b) \in {get_height(l), get_height(l) + 1}
      BY <1>5, <2>1, <2>2, <2>6, LiftedLeft
    <3>2. even[low]
      BY <1>1, <2>2, <2>3, <3>1, EvenWhole
    <3>3. even[b]
      <4> HIDE DEF low
      <4> QED BY <2>2, <2>3, <3>1, <3>2, EvenWhole
    <3>4. balance_tree(n) = b
      <4>1. ~(get_balance_factor(l) < 0)
        BY <1>3, <2>6
      <4> QED
        BY <2>4, <4>1 DEF LL
    <3> HIDE DEF low, b, l
    <3>5. get_height(b) \in {n.height - 1, n.height}
      BY <1>2, <2>5, <3>1
    <3> QED
      BY <3>1, <3>3, <3>4, <3>5
  <2>7. CASE get_balance_factor(l) < 0
    <3> DEFINE m == l.right_child
               left == Joined(l.left_child, l.key, m.left_child)
               right == Joined(m.right_child, n.key, r)
               b == Joined(left, m.key, right)
    <3>1. m \in Nodes /\ m # NULL
      BY <2>1, <2>3, <2>7, HighSide
    <3>2. Even(m) /\ even[m.left_child] /\ even[m.right_child]
      BY <2>2, <3>1, EvenParts
    <3>3. /\ m.key \in Payloads /\ m.left_child \in Nodes \cup {NULL}
          /\ m.right_child \in Nodes \cup {NULL}
      BY <3>1 DEF Forest
    <3>4. get_height(l.left_child) = get_height(r) /\ get_height(m) = get_height(r) + 1
      <4>1. get_height(l.left_child) \in Int /\ get_height(m) \in Int
        BY <2>3, HeightRange
      <4>2. /\ get_height(l) = node_max(get_height(l.left_child), get_height(m)) + 1
            /\ get_balance_factor(l) = get_height(l.left_child) - get_height(m)
            /\ get_balance_factor(l) \in -1..1
        BY <2>1, <2>2 DEF Even, get_balance_factor, get_height
      <4> HIDE DEF l, r, m
      <4>3. get_height(m) = get_height(l.left_child) + 1
        BY <2>7, <4>1, <4>2
      <4>4. get_height(l) = get_height(m) + 1
        BY <4>1, <4>2, <4>3 DEF node_max
      <4> QED
        BY <1>2, <1>5, <4>1, <4>3, <4>4
    <3>5. /\ b \in Nodes /\ left \in Nodes /\ right \in Nodes
          /\ Even(b) /\ Even(left) /\ Even(right)
          /\ get_height(b) = get_height(r) + 2
      <4> DEFINE a == l.left_child
                 d == r
                 j == l.key
                 k == n.key
      <4>1. /\ a \in Nodes \cup {NULL} /\ d \in Nodes \cup {NULL}
            /\ j \in Payloads /\ k \in Payloads
            /\ get_height(a) = get_height(d) /\ get_height(m) = get_height(d) + 1
        BY <1>1, <2>3, <3>4
      <4>2. m \in Nodes /\ Even(m)
        BY <3>1, <3>2
      <4> HIDE DEF a, d, j, k, m
      <4>3. LET lf == Joined(a, j, m.left_child)
                rt == Joined(m.right_child, k, d)
                top == Joined(lf, m.key, rt)
            IN  /\ top \in Nodes /\ lf \in Nodes /\ rt \in Nodes
                /\ Even(top) /\ Even(lf) /\ Even(rt)
                /\ get_height(top) = get_height(d) + 2
        BY <4>1, <4>2, LiftedInner
      <4> QED
        BY <4>3 DEF a, d, j, k, m
    <3>6. even[left]
      BY <2>2, <2>3, <3>2, <3>3, <3>5, EvenWhole
    <3>7. even[right]
      BY <1>1, <3>2, <3>3, <3>5, EvenWhole
    <3>8. even[b]
      <4> HIDE DEF left, right
      <4> QED BY <3>3, <3>5, <3>6, <3>7, EvenWhole
    <3>9. balance_tree(n) = b
      BY <2>4, <2>7 DEF LR
    <3> HIDE DEF b, l, r
    <3>10. get_height(b) \in {n.height - 1, n.height}
      BY <1>2, <1>5, <2>5, <3>5
    <3> QED
      BY <3>5, <3>8, <3>9, <3>10
  <2> QED
    BY <1>3, <2>6, <2>7
<1>6. CASE get_balance_factor(n) = -2
  <2>1. r \in Nodes /\ r # NULL
    <3>1. get_balance_factor(n) < 0
      BY <1>6
    <3> QED
      BY <1>1, <3>1, HighSide
  <2>2. Even(r) /\ even[r.left_child] /\ even[r.right_child]
    BY <2>1, EvenParts
  <2>3. /\ r.key \in Payloads /\ r.left_child \in Nodes \cup {NULL}
        /\ r.right_child \in Nodes \cup {NULL}
    BY <2>1 DEF Forest
  <2>4. balance_tree(n) = IF get_balance_factor(r) > 0 THEN RL(n) ELSE RR(n)
    <3>1. get_balance_factor(n) < -1
      BY <1>6
    <3> QED
      BY <3>1, BalancedRight
  <2>5. n.height = get_height(r) + 1
    BY <1>2, <1>6 DEF node_max
  <2>6. CASE get_balance_factor(r) <= 0
    <3> DEFINE low == Joined(l, n.key, r.left_child)
               b == Joined(low, r.key, r.right_child)
    <3>1. /\ b \in Nodes /\ low \in Nodes /\ Even(b) /\ Even(low)
          /\ get_height(b) \in {get_height(r), get_height(r) + 1}
      BY <1>6, <2>1, <2>2, <2>6, LiftedRight
    <3>2. even[low]
      BY <1>1, <2>2, <2>3, <3>1, EvenWhole
    <3>3. even[b]
      <4> HIDE DEF low
      <4> QED BY <2>2, <2>3, <3>1, <3>2, EvenWhole
    <3>4. balance_tree(n) = b
      <4>1. ~(get_balance_factor(r) > 0)
        BY <1>3, <2>6
      <4> QED
        BY <2>4, <4>1 DEF RR
    <3> HIDE DEF low, b, r
    <3>5. get_height(b) \in {n.height - 1, n.height}
      BY <1>2, <2>5, <3>1
    <3> QED
      BY <3>1, <3>3, <3>4, <3>5
  <2>7. CASE get_balance_factor(r) > 0
    <3> DEFINE m == r.left_child
               left == Joined(l, n.key, m.left_child)
               right == Joined(m.right_child, r.key, r.right_child)
               b == Joined(left, m.key, right)
    <3>1. m \in Nodes /\ m # NULL
      BY <2>1, <2>3, <2>7, HighSide
    <3>2. Even(m) /\ even[m.left_child] /\ even[m.right_child]
      BY <2>2, <3>1, EvenParts
    <3>3. /\ m.key \in Payloads /\ m.left_child \in Nodes \cup {NULL}
          /\ m.right_child \in Nodes \cup {NULL}
      BY <3>1 DEF Forest
    <3>4. /\ get_height(l) = get_height(r.right_child)
          /\ get_height(m) = get_height(r.right_child) + 1
      <4>1. get_height(r.right_child) \in Int /\ get_height(m) \in Int
        BY <2>3, HeightRange
      <4>2. /\ get_height(r) = node_max(get_height(m), get_height(r.right_child)) + 1
            /\ get_balance_factor(r) = get_height(m) - get_height(r.right_child)
            /\ get_balance_factor(r) \in -1..1
        BY <2>1, <2>2 DEF Even, get_balance_factor, get_height
      <4> HIDE DEF l, r, m
      <4>3. get_height(m) = get_height(r.right_child) + 1
        BY <2>7, <4>1, <4>2
      <4>4. get_height(r) = get_height(m) + 1
        BY <4>1, <4>2, <4>3 DEF node_max
      <4> QED
        BY <1>2, <1>6, <4>1, <4>3, <4>4
    <3>5. /\ b \in Nodes /\ left \in Nodes /\ right \in Nodes
          /\ Even(b) /\ Even(left) /\ Even(right)
          /\ get_height(b) = get_height(r.right_child) + 2
      <4> DEFINE a == l
                 d == r.right_child
                 j == n.key
                 k == r.key
      <4>1. /\ a \in Nodes \cup {NULL} /\ d \in Nodes \cup {NULL}
            /\ j \in Payloads /\ k \in Payloads
            /\ get_height(a) = get_height(d) /\ get_height(m) = get_height(d) + 1
        BY <1>1, <2>3, <3>4
      <4>2. m \in Nodes /\ Even(m)
        BY <3>1, <3>2
      <4> HIDE DEF a, d, j, k, m
      <4>3. LET lf == Joined(a, j, m.left_child)
                rt == Joined(m.right_child, k, d)
                top == Joined(lf, m.key, rt)
            IN  /\ top \in Nodes /\ lf \in Nodes /\ rt \in Nodes
                /\ Even(top) /\ Even(lf) /\ Even(rt)
                /\ get_height(top) = get_height(d) + 2
        BY <4>1, <4>2, LiftedInner
      <4> QED
        BY <4>3 DEF a, d, j, k, m
    <3>6. even[left]
      BY <1>1, <3>2, <3>3, <3>5, EvenWhole
    <3>7. even[right]
      BY <2>2, <2>3, <3>2, <3>3, <3>5, EvenWhole
    <3>8. even[b]
      <4> HIDE DEF left, right
      <4> QED BY <3>3, <3>5, <3>6, <3>7, EvenWhole
    <3>9. balance_tree(n) = b
      BY <2>4, <2>7 DEF RL
    <3> HIDE DEF b, l, r
    <3>10. get_height(b) \in {n.height - 1, n.height}
      BY <1>2, <1>6, <2>5, <3>4, <3>5
    <3> QED
      BY <3>5, <3>8, <3>9, <3>10
  <2> QED
    BY <1>3, <2>6, <2>7
<1> QED
  BY <1>4, <1>5, <1>6

\* s, then k, then t.
Around(s, k, t) == s \o (<<k>> \o t)

\* A rotation moves the brackets.
LEMMA AroundMoves ==
  ASSUME NEW S, NEW s \in Seq(S), NEW t \in Seq(S), NEW u \in Seq(S),
         NEW j \in S, NEW k \in S
  PROVE  /\ Around(s, j, t) \in Seq(S)
         /\ Around(Around(s, j, t), k, u) = Around(s, j, Around(t, k, u))
<1> DEFINE B == <<j>> \o t
           C == <<k>> \o u
<1>1. <<j>> \in Seq(S) /\ B \in Seq(S) /\ C \in Seq(S) /\ s \o B \in Seq(S)
  OBVIOUS
<1>2. (s \o B) \o C = s \o (B \o C)
  <2> HIDE DEF B, C
  <2> QED BY <1>1, ConcatAssociative
<1>3. B \o C = <<j>> \o (t \o C)
  <2> HIDE DEF C
  <2> QED BY <1>1, ConcatAssociative
<1>4. Around(s, j, t) = s \o B /\ Around(t, k, u) = t \o C
  BY DEF Around
<1> HIDE DEF C
<1>5. Around(Around(s, j, t), k, u) = (s \o B) \o C
  BY <1>4 DEF Around, C
<1>6. Around(s, j, Around(t, k, u)) = s \o (B \o C)
  BY <1>3, <1>4 DEF Around
<1> QED
  BY <1>1, <1>2, <1>4, <1>5, <1>6

\* order lists the payloads of each tree from left to right.
LeftToRight(Nodes, Payloads, order) ==
  /\ order \in [Nodes \cup {NULL} -> Seq(Payloads)]
  /\ order[NULL] = <<>>
  /\ \A n \in Nodes : order[n] = Around(order[n.left_child], n.key, order[n.right_child])

\* What a tree holds from left to right is a sequence of payloads.
LEMMA OrderIn ==
  ASSUME NEW Nodes, NEW Payloads, NEW order, LeftToRight(Nodes, Payloads, order),
         NEW n \in Nodes \cup {NULL}
  PROVE  order[n] \in Seq(Payloads)
  BY DEF LeftToRight

\* A node's payload comes between those of its two subtrees.
LEMMA OrderNode ==
  ASSUME NEW Nodes, NEW Payloads, NEW order, LeftToRight(Nodes, Payloads, order),
         NEW n \in Nodes
  PROVE  order[n] = Around(order[n.left_child], n.key, order[n.right_child])
  BY DEF LeftToRight

\* So it is for a node built over two trees.
LEMMA OrderJoined ==
  ASSUME NEW Nodes, NEW Payloads, Forest(Nodes, Payloads),
         NEW order, LeftToRight(Nodes, Payloads, order), NEW k \in Payloads,
         NEW l \in Nodes \cup {NULL}, NEW r \in Nodes \cup {NULL}
  PROVE  /\ Joined(l, k, r) \in Nodes
         /\ order[Joined(l, k, r)] = Around(order[l], k, order[r])
<1>1. /\ Joined(l, k, r) \in Nodes
      /\ Joined(l, k, r).left_child = l /\ Joined(l, k, r).right_child = r
      /\ Joined(l, k, r).key = k
  BY JoinedNode
<1>2. order[Joined(l, k, r)] = Around(order[Joined(l, k, r).left_child], Joined(l, k, r).key,
                                      order[Joined(l, k, r).right_child])
  BY <1>1, OrderNode
<1> QED
  BY <1>1, <1>2

\* balance_tree leaves the payloads where they were from left to right, whatever
\* it rotates, so lookup finds them by the same comparisons (bst.c:478-538).
THEOREM BalanceKeepsOrder ==
  ASSUME NEW Nodes, NEW Payloads, Forest(Nodes, Payloads),
         NEW order, LeftToRight(Nodes, Payloads, order), NEW n \in Nodes
  PROVE  order[balance_tree(n)] = order[n]
<1> DEFINE l == n.left_child
           r == n.right_child
<1>1. /\ l \in Nodes \cup {NULL} /\ r \in Nodes \cup {NULL} /\ n.key \in Payloads
  BY DEF Forest
<1>2. order[n] = Around(order[l], n.key, order[r])
  BY OrderNode
<1>3. get_balance_factor(n) \in Int
  BY FactorIsInt
<1>4. order[l] \in Seq(Payloads) /\ order[r] \in Seq(Payloads)
  BY <1>1, OrderIn
<1>moves. \A s, t, u \in Seq(Payloads), j, k \in Payloads :
        Around(Around(s, j, t), k, u) = Around(s, j, Around(t, k, u))
  BY AroundMoves
<1>5. CASE ~(get_balance_factor(n) > 1) /\ ~(get_balance_factor(n) < -1)
  <2>1. balance_tree(n) = n
    BY <1>5 DEF balance_tree, is_left_heavy, is_right_heavy
  <2> QED
    BY <2>1
<1>6. CASE get_balance_factor(n) > 1
  <2> DEFINE a == l.left_child
             m == l.right_child
  <2>1. l \in Nodes /\ l # NULL
    <3>1. get_balance_factor(n) > 0
      BY <1>3, <1>6
    <3> QED
      BY <1>1, <3>1, HighSide
  <2>2. l.key \in Payloads /\ a \in Nodes \cup {NULL} /\ m \in Nodes \cup {NULL}
    BY <2>1 DEF Forest
  <2>3. order[l] = Around(order[a], l.key, order[m])
    BY <2>1, OrderNode
  <2>4. order[a] \in Seq(Payloads) /\ order[m] \in Seq(Payloads)
    BY <2>2, OrderIn
  <2>5. balance_tree(n) = IF get_balance_factor(l) < 0 THEN LR(n) ELSE LL(n)
    BY <1>6, BalancedLeft
  <2> HIDE DEF l, r, a, m
  <2>6. order[n] = Around(order[a], l.key, Around(order[m], n.key, order[r]))
    <3>1. Around(Around(order[a], l.key, order[m]), n.key, order[r])
            = Around(order[a], l.key, Around(order[m], n.key, order[r]))
      BY <1>1, <1>4, <2>2, <2>4, <1>moves
    <3> QED
      BY <1>2, <2>3, <3>1
  <2>7. order[LL(n)] = Around(order[a], l.key, Around(order[m], n.key, order[r]))
    <3> DEFINE low == Joined(m, n.key, r)
    <3>1. low \in Nodes /\ order[low] = Around(order[m], n.key, order[r])
      BY <1>1, <2>2, OrderJoined
    <3> HIDE DEF low
    <3>2. order[Joined(a, l.key, low)] = Around(order[a], l.key, order[low])
      BY <2>2, <3>1, OrderJoined
    <3> QED
      BY <3>1, <3>2 DEF LL, low, a, m, l, r
  <2>8. CASE ~(get_balance_factor(l) < 0)
    BY <2>5, <2>6, <2>7, <2>8
  <2>9. CASE get_balance_factor(l) < 0
    <3> DEFINE left == Joined(a, l.key, m.left_child)
               right == Joined(m.right_child, n.key, r)
    <3>1. m \in Nodes
      BY <2>1, <2>2, <2>9, HighSide DEF m
    <3>2. /\ m.key \in Payloads /\ m.left_child \in Nodes \cup {NULL}
          /\ m.right_child \in Nodes \cup {NULL}
      BY <3>1 DEF Forest
    <3>3. order[m] = Around(order[m.left_child], m.key, order[m.right_child])
      BY <3>1, OrderNode
    <3>4. order[m.left_child] \in Seq(Payloads) /\ order[m.right_child] \in Seq(Payloads)
      BY <3>2, OrderIn
    <3>5. left \in Nodes /\ order[left] = Around(order[a], l.key, order[m.left_child])
      BY <2>2, <3>2, OrderJoined
    <3>6. right \in Nodes /\ order[right] = Around(order[m.right_child], n.key, order[r])
      BY <1>1, <3>2, OrderJoined
    <3>7. balance_tree(n) = Joined(left, m.key, right)
      BY <2>5, <2>9 DEF LR, m, l, a, r
    <3>8. order[right] \in Seq(Payloads)
      BY <3>6, OrderIn
    <3> HIDE DEF left, right
    <3>9. order[balance_tree(n)] = Around(order[left], m.key, order[right])
      BY <3>2, <3>5, <3>6, <3>7, OrderJoined
    <3>10. Around(order[m], n.key, order[r])
             = Around(order[m.left_child], m.key, order[right])
      <4>1. Around(Around(order[m.left_child], m.key, order[m.right_child]), n.key, order[r])
              = Around(order[m.left_child], m.key, Around(order[m.right_child], n.key, order[r]))
        BY <1>1, <1>4, <3>2, <3>4, <1>moves
      <4> QED
        BY <3>3, <3>6, <4>1
    <3>11. Around(order[left], m.key, order[right])
             = Around(order[a], l.key, Around(order[m.left_child], m.key, order[right]))
      <4>1. Around(Around(order[a], l.key, order[m.left_child]), m.key, order[right])
              = Around(order[a], l.key, Around(order[m.left_child], m.key, order[right]))
        BY <2>2, <2>4, <3>2, <3>4, <3>8, <1>moves
      <4> QED
        BY <3>5, <4>1
    <3> QED
      BY <2>6, <3>9, <3>10, <3>11
  <2> QED
    BY <2>8, <2>9
<1>7. CASE get_balance_factor(n) < -1
  <2> DEFINE m == r.left_child
             d == r.right_child
  <2>1. r \in Nodes /\ r # NULL
    <3>1. get_balance_factor(n) < 0
      BY <1>3, <1>7
    <3> QED
      BY <1>1, <3>1, HighSide
  <2>2. r.key \in Payloads /\ m \in Nodes \cup {NULL} /\ d \in Nodes \cup {NULL}
    BY <2>1 DEF Forest
  <2>3. order[r] = Around(order[m], r.key, order[d])
    BY <2>1, OrderNode
  <2>4. order[m] \in Seq(Payloads) /\ order[d] \in Seq(Payloads)
    BY <2>2, OrderIn
  <2>5. balance_tree(n) = IF get_balance_factor(r) > 0 THEN RL(n) ELSE RR(n)
    BY <1>7, BalancedRight
  <2> HIDE DEF l, r, m, d
  <2>6. order[n] = Around(Around(order[l], n.key, order[m]), r.key, order[d])
    <3>1. Around(Around(order[l], n.key, order[m]), r.key, order[d])
            = Around(order[l], n.key, Around(order[m], r.key, order[d]))
      BY <1>1, <1>4, <2>2, <2>4, <1>moves
    <3> QED
      BY <1>2, <2>3, <3>1
  <2>7. order[RR(n)] = Around(Around(order[l], n.key, order[m]), r.key, order[d])
    <3> DEFINE low == Joined(l, n.key, m)
    <3>1. low \in Nodes /\ order[low] = Around(order[l], n.key, order[m])
      BY <1>1, <2>2, OrderJoined
    <3> HIDE DEF low
    <3>2. order[Joined(low, r.key, d)] = Around(order[low], r.key, order[d])
      BY <2>2, <3>1, OrderJoined
    <3> QED
      BY <3>1, <3>2 DEF RR, low, m, d, l, r
  <2>8. CASE ~(get_balance_factor(r) > 0)
    BY <2>5, <2>6, <2>7, <2>8
  <2>9. CASE get_balance_factor(r) > 0
    <3> DEFINE left == Joined(l, n.key, m.left_child)
               right == Joined(m.right_child, r.key, d)
    <3>1. m \in Nodes
      BY <2>1, <2>2, <2>9, HighSide DEF m
    <3>2. /\ m.key \in Payloads /\ m.left_child \in Nodes \cup {NULL}
          /\ m.right_child \in Nodes \cup {NULL}
      BY <3>1 DEF Forest
    <3>3. order[m] = Around(order[m.left_child], m.key, order[m.right_child])
      BY <3>1, OrderNode
    <3>4. order[m.left_child] \in Seq(Payloads) /\ order[m.right_child] \in Seq(Payloads)
      BY <3>2, OrderIn
    <3>5. left \in Nodes /\ order[left] = Around(order[l], n.key, order[m.left_child])
      BY <1>1, <3>2, OrderJoined
    <3>6. right \in Nodes /\ order[right] = Around(order[m.right_child], r.key, order[d])
      BY <2>2, <3>2, OrderJoined
    <3>7. balance_tree(n) = Joined(left, m.key, right)
      BY <2>5, <2>9 DEF RL, m, l, d, r
    <3>8. order[left] \in Seq(Payloads)
      BY <3>5, OrderIn
    <3> HIDE DEF left, right
    <3>9. order[balance_tree(n)] = Around(order[left], m.key, order[right])
      BY <3>2, <3>5, <3>6, <3>7, OrderJoined
    <3>10. Around(order[l], n.key, order[m])
             = Around(order[left], m.key, order[m.right_child])
      <4>1. Around(Around(order[l], n.key, order[m.left_child]), m.key, order[m.right_child])
              = Around(order[l], n.key, Around(order[m.left_child], m.key, order[m.right_child]))
        BY <1>1, <1>4, <3>2, <3>4, <1>moves
      <4> QED
        BY <3>3, <3>5, <4>1
    <3>11. Around(order[left], m.key, order[right])
             = Around(Around(order[left], m.key, order[m.right_child]), r.key, order[d])
      <4>1. Around(Around(order[left], m.key, order[m.right_child]), r.key, order[d])
              = Around(order[left], m.key, Around(order[m.right_child], r.key, order[d]))
        BY <2>2, <2>4, <3>2, <3>4, <3>8, <1>moves
      <4> QED
        BY <3>6, <4>1
    <3> QED
      BY <2>6, <3>9, <3>10, <3>11
  <2> QED
    BY <2>8, <2>9
<1> QED
  BY <1>5, <1>6, <1>7


-----------------------------------------------------------------------------
(***************************************************************************)
(* The trees there are.                                                    *)
(***************************************************************************)
\* The nodes over the children in C.
Over(C) == [height : Nat, left_child : C, right_child : C, key : Payload]

\* Trees is what its definition says.  That there is such a function is shown by putting
\* it together from its beginnings, of which there is one of every length.
LEMMA TreesIs ==
  /\ Trees[0] = {NULL}
  /\ \A n \in Nat : Trees[n + 1] = {NULL} \cup Over(Trees[n])
<1> DEFINE Body(g, n) == IF n = 0 THEN {NULL} ELSE {NULL} \cup Over(g[n - 1])
           Start(g, n) == g = [k \in 0..n |-> Body(g, k)]
<1>1. \A n \in Nat : \E g : Start(g, n)
  <2> DEFINE S == {n \in Nat : ~\E g : Start(g, n)}
  <2>1. SUFFICES ASSUME S # {} PROVE FALSE
    OBVIOUS
  <2>2. PICK n \in S : \A m \in S : n <= m
    <3>1. S \in SUBSET Nat
      OBVIOUS
    <3> HIDE DEF S
    <3> QED  BY <2>1, <3>1, LeastElement
  <2>3. n # 0
    <3> DEFINE g == [k \in 0..0 |-> {NULL}]
    <3>1. Start(g, 0)
      OBVIOUS
    <3> QED  BY <3>1
  <2>4. n \in Nat /\ n - 1 \in Nat /\ n - 1 \notin S
    <3>1. n \in Nat
      BY <2>2
    <3>2. n - 1 \in Nat /\ ~(n <= n - 1)
      BY <2>3, <3>1
    <3> HIDE DEF S
    <3> QED  BY <2>2, <3>1, <3>2
  <2>5. PICK g : Start(g, n - 1)
    BY <2>4
  <2> DEFINE h == [k \in 0..n |-> IF k \in 0..(n - 1) THEN g[k] ELSE Body(g, k)]
  <2>6. ASSUME NEW k \in 0..n
        PROVE  h[k] = Body(h, k)
    <3>1. Body(g, k) = Body(h, k)
      <4>1. k # 0 => k - 1 \in 0..n /\ k - 1 \in 0..(n - 1)
        BY <2>4
      <4> QED  BY <4>1
    <3>2. h[k] = Body(g, k)
      <4>1. CASE k \in 0..(n - 1)
        BY <2>5, <4>1
      <4>2. CASE k \notin 0..(n - 1)
        BY <4>2
      <4> QED  BY <4>1, <4>2
    <3> QED  BY <3>1, <3>2
  <2>7. Start(h, n)
    <3> HIDE DEF Body
    <3> QED  BY <2>6
  <2> QED  BY <2>2, <2>7
<1>2. ASSUME NEW g, NEW h, NEW n \in Nat, NEW m \in Nat, Start(g, n), Start(h, m)
      PROVE  \A k \in Nat : k <= n /\ k <= m => g[k] = h[k]
  <2> DEFINE S == {k \in Nat : k <= n /\ k <= m /\ g[k] # h[k]}
  <2>1. SUFFICES ASSUME S # {} PROVE FALSE
    OBVIOUS
  <2>2. PICK k \in S : \A j \in S : k <= j
    <3>1. S \in SUBSET Nat
      OBVIOUS
    <3> HIDE DEF S
    <3> QED  BY <2>1, <3>1, LeastElement
  <2>3. k \in Nat /\ k <= n /\ k <= m /\ g[k] # h[k]
    BY <2>2
  <2>4. g[k] = Body(g, k) /\ h[k] = Body(h, k)
    <3>1. k \in 0..n /\ k \in 0..m
      BY <2>3
    <3> HIDE DEF Body
    <3> QED  BY <1>2, <3>1
  <2>5. k # 0 => g[k - 1] = h[k - 1]
    <3>1. k # 0 => k - 1 \in Nat /\ ~(k <= k - 1) /\ k - 1 <= n /\ k - 1 <= m
      BY <2>3
    <3> QED  BY <2>2, <3>1
  <2> QED  BY <2>3, <2>4, <2>5
<1> DEFINE g(n) == CHOOSE g : Start(g, n)
           f == [n \in Nat |-> g(n)[n]]
<1>3. \A n \in Nat : Start(g(n), n)
  <2> HIDE DEF Start
  <2> QED  BY <1>1
<1>4. ASSUME NEW n \in Nat
      PROVE  f[n] = Body(f, n)
  <2>1. g(n)[n] = Body(g(n), n)
    <3>1. n \in 0..n /\ Start(g(n), n)
      <4>1. n \in 0..n
        OBVIOUS
      <4> QED  BY <1>3, <4>1
    <3> HIDE DEF Body, g
    <3> QED  BY <3>1
  <2>2. n # 0 => n - 1 \in Nat /\ g(n)[n - 1] = g(n - 1)[n - 1]
    <3>1. n # 0 => n - 1 \in Nat /\ n - 1 <= n
      OBVIOUS
    <3> HIDE DEF Start, g
    <3> QED  BY <1>2, <1>3, <3>1
  <2> HIDE DEF g
  <2> QED  BY <2>1, <2>2
<1>5. f = [n \in Nat |-> Body(f, n)]
  <2> HIDE DEF Body, g
  <2> QED  BY <1>4
<1>6. Trees = [n \in Nat |-> Body(Trees, n)]
  <2>1. Trees = CHOOSE t : t = [n \in Nat |-> Body(t, n)]
    BY DEF Trees, Over
  <2> HIDE DEF Body, f
  <2> QED  BY <1>5, <2>1
<1>7. \A n \in Nat : n + 1 # 0 /\ (n + 1) - 1 = n /\ n + 1 \in Nat
  OBVIOUS
<1>8. \A n \in Nat : Trees[n] = IF n = 0 THEN {NULL} ELSE {NULL} \cup Over(Trees[n - 1])
  <2> HIDE DEF f, g, Start
  <2> QED  BY <1>6
<1> HIDE DEF f, g, Start, Body
<1> QED  BY <1>7, <1>8

\* What a node of a tree is made of.
LEMMA NodeParts ==
  ASSUME NEW n \in Nat, NEW x \in Trees[n], x # NULL
  PROVE  /\ n # 0 /\ n - 1 \in Nat
         /\ x.height \in Nat /\ x.key \in Payload
         /\ x.left_child \in Trees[n - 1] /\ x.right_child \in Trees[n - 1]
         /\ x = [height |-> x.height, left_child |-> x.left_child,
                 right_child |-> x.right_child, key |-> x.key]
<1>1. n # 0 /\ n - 1 \in Nat
  BY TreesIs
<1>2. Trees[(n - 1) + 1] = {NULL} \cup Over(Trees[n - 1])
  BY <1>1, TreesIs
<1>3. x \in Over(Trees[n - 1])
  BY <1>1, <1>2
<1> QED  BY <1>1, <1>3 DEF Over

\* A tree of up to n levels is one of up to n + 1.
LEMMA TreesNest ==
  ASSUME NEW n \in Nat, NEW m \in Nat, n <= m
  PROVE  Trees[n] \in SUBSET Trees[m]
<1>1. \A k \in Nat : Trees[k] \in SUBSET Trees[k + 1]
  <2> DEFINE S == {k \in Nat : ~(Trees[k] \in SUBSET Trees[k + 1])}
  <2>1. SUFFICES ASSUME S # {} PROVE FALSE
    OBVIOUS
  <2>2. PICK k \in S : \A j \in S : k <= j
    <3>1. S \in SUBSET Nat
      OBVIOUS
    <3> HIDE DEF S
    <3> QED  BY <2>1, <3>1, LeastElement
  <2>3. k \in Nat /\ ~(Trees[k] \in SUBSET Trees[k + 1])
    BY <2>2
  <2>4. Trees[k + 1] = {NULL} \cup Over(Trees[k]) /\ Trees[0] = {NULL}
    BY <2>3, TreesIs
  <2>5. k - 1 \in Nat /\ (k - 1) + 1 = k /\ ~(k <= k - 1)
    BY <2>3, <2>4
  <2>6. Trees[k] = {NULL} \cup Over(Trees[k - 1])
    BY <2>5, TreesIs
  <2>7. Trees[k - 1] \in SUBSET Trees[k]
    BY <2>2, <2>5
  <2>8. Over(Trees[k - 1]) \in SUBSET Over(Trees[k])
    BY <2>7 DEF Over
  <2> QED  BY <2>3, <2>4, <2>6, <2>8
<1> DEFINE S == {k \in Nat : k >= n /\ ~(Trees[n] \in SUBSET Trees[k])}
<1>2. ASSUME S # {} PROVE FALSE
  <2>2. PICK k \in S : \A j \in S : k <= j
    <3>1. S \in SUBSET Nat
      OBVIOUS
    <3> HIDE DEF S
    <3> QED  BY <1>2, <3>1, LeastElement
  <2>3. k \in Nat /\ k >= n /\ ~(Trees[n] \in SUBSET Trees[k])
    BY <2>2
  <2>4. k # n
    BY <2>3
  <2>5. k - 1 \in Nat /\ (k - 1) + 1 = k /\ ~(k <= k - 1) /\ k - 1 >= n
    BY <2>3, <2>4
  <2>6. Trees[n] \in SUBSET Trees[k - 1]
    BY <2>2, <2>5
  <2>7. Trees[k - 1] \in SUBSET Trees[k]
    BY <1>1, <2>5
  <2> QED  BY <2>3, <2>6, <2>7
<1> QED  BY <1>2

\* All trees, of however many levels.
AnyTree == UNION {Trees[n] : n \in Nat}
AnyNode == AnyTree \ {NULL}

\* They are the values AVLNode is about.
LEMMA TreesAreForest ==
  /\ NULL \in AnyTree /\ AnyTree = AnyNode \cup {NULL}
  /\ Forest(AnyNode, Payload)
<1>1. NULL \in AnyTree
  <2>1. NULL \in Trees[0] /\ 0 \in Nat
    BY TreesIs
  <2> QED  BY <2>1 DEF AnyTree
<1>2. ASSUME NEW x \in AnyNode
      PROVE  /\ x.height \in Nat /\ x.key \in Payload
             /\ x.left_child \in AnyTree /\ x.right_child \in AnyTree
             /\ x = [height |-> x.height, left_child |-> x.left_child,
                     right_child |-> x.right_child, key |-> x.key]
  <2>1. PICK n \in Nat : x \in Trees[n]
    BY DEF AnyNode, AnyTree
  <2>2. x # NULL
    BY DEF AnyNode
  <2>3. n - 1 \in Nat /\ x.left_child \in Trees[n - 1] /\ x.right_child \in Trees[n - 1]
    BY <2>1, <2>2, NodeParts
  <2> QED  BY <2>1, <2>2, <2>3, NodeParts DEF AnyTree
<1>3. ASSUME NEW h \in Nat, NEW k \in Payload, NEW l \in AnyTree, NEW r \in AnyTree
      PROVE  [height |-> h, left_child |-> l, right_child |-> r, key |-> k] \in AnyNode
  <2> DEFINE x == [height |-> h, left_child |-> l, right_child |-> r, key |-> k]
  <2>1. PICK n \in Nat, m \in Nat : l \in Trees[n] /\ r \in Trees[m]
    BY DEF AnyTree
  <2>2. PICK d \in Nat : n <= d /\ m <= d
    <3>1. CASE n <= m
      BY <3>1
    <3>2. CASE ~(n <= m)
      BY <3>2
    <3> QED  BY <3>1, <3>2
  <2>3. l \in Trees[d] /\ r \in Trees[d]
    <3>1. Trees[n] \in SUBSET Trees[d] /\ Trees[m] \in SUBSET Trees[d]
      BY <2>2, TreesNest
    <3> QED  BY <2>1, <3>1
  <2>4. x \in Over(Trees[d])
    BY <2>3 DEF Over
  <2>5. x \in Trees[d + 1] /\ d + 1 \in Nat
    BY <2>4, TreesIs
  <2>6. x # NULL
    <3>1. "height" \in DOMAIN x
      OBVIOUS
    <3> HIDE DEF x
    <3> QED  BY <3>1, AVLNodeAssumption
  <2> HIDE DEF x
  <2>7. x \in AnyNode
    BY <2>5, <2>6 DEF AnyNode, AnyTree
  <2> QED  BY <2>7 DEF x
<1>4. AnyTree = AnyNode \cup {NULL}
  BY <1>1 DEF AnyNode
<1>5. NULL \notin AnyNode
  BY DEF AnyNode
<1> QED  BY <1>1, <1>2, <1>3, <1>4, <1>5 DEF Forest

\* What a set that has NULL has of every node whose children it has, it has of every tree:
\* the induction over trees.
LEMMA TreeInduction ==
  ASSUME NEW n \in Nat, NEW S, NULL \in S,
         \A x \in Trees[n] \ {NULL} : x.left_child \in S /\ x.right_child \in S => x \in S
  PROVE  Trees[n] \in SUBSET S
<1> DEFINE T == {k \in Nat : k <= n /\ ~(Trees[k] \in SUBSET S)}
<1>1. ASSUME T # {} PROVE FALSE
  <2>2. PICK k \in T : \A j \in T : k <= j
    <3>1. T \in SUBSET Nat
      OBVIOUS
    <3> HIDE DEF T
    <3> QED  BY <1>1, <3>1, LeastElement
  <2>3. k \in Nat /\ k <= n /\ ~(Trees[k] \in SUBSET S)
    BY <2>2
  <2>4. PICK x \in Trees[k] : x \notin S
    BY <2>3
  <2>5. x # NULL
    BY <2>4
  <2>6. k - 1 \in Nat /\ x.left_child \in Trees[k - 1] /\ x.right_child \in Trees[k - 1]
    BY <2>3, <2>5, NodeParts
  <2>7. ~(k <= k - 1) /\ k - 1 <= n
    BY <2>3, <2>6
  <2>8. Trees[k - 1] \in SUBSET S
    BY <2>2, <2>6, <2>7
  <2>9. x \in Trees[n]
    BY <2>3, TreesNest
  <2> QED  BY <2>4, <2>5, <2>6, <2>8, <2>9
<1> QED  BY <1>1

\* There is a function that has b for NULL and for a node what step makes of the node and
\* of what it has for the children: the recursion over trees.
LEMMA TreeRecursion ==
  ASSUME NEW V, NEW b \in V, NEW step \in [AnyNode \X V \X V -> V]
  PROVE  \E f \in [AnyTree -> V] :
           /\ f[NULL] = b
           /\ \A x \in AnyNode : f[x] = step[<<x, f[x.left_child], f[x.right_child]>>]
<1> DEFINE Rec(g, n) ==
             /\ g[NULL] = b
             /\ \A x \in Trees[n] \ {NULL} : g[x] = step[<<x, g[x.left_child], g[x.right_child]>>]
<1>1. \A n \in Nat : \A x \in Trees[n] : x \in AnyTree /\ (x # NULL => x \in AnyNode)
  BY DEF AnyTree, AnyNode
<1>2. \A n \in Nat : NULL \in Trees[n]
  <2>1. ASSUME NEW n \in Nat
        PROVE  NULL \in Trees[n]
    <3>1. 0 \in Nat /\ 0 <= n /\ NULL \in Trees[0]
      BY TreesIs
    <3> QED  BY <3>1, TreesNest
  <2> QED  BY <2>1
<1>3. ASSUME NEW n \in Nat, NEW m \in Nat, n <= m, NEW g, NEW h, Rec(g, n), Rec(h, m)
      PROVE  \A x \in Trees[n] : g[x] = h[x]
  <2> DEFINE S == {x \in Trees[n] : g[x] = h[x]}
  <2>1. NULL \in S
    BY <1>2, <1>3
  <2>2. ASSUME NEW x \in Trees[n] \ {NULL}, x.left_child \in S, x.right_child \in S
        PROVE  x \in S
    <3>1. x \in Trees[m] \ {NULL}
      BY <1>3, TreesNest
    <3>2. /\ g[x] = step[<<x, g[x.left_child], g[x.right_child]>>]
          /\ h[x] = step[<<x, h[x.left_child], h[x.right_child]>>]
      BY <1>3, <3>1
    <3> QED  BY <2>2, <3>2
  <2>3. Trees[n] \in SUBSET S
    <3> HIDE DEF S
    <3> QED  BY <2>1, <2>2, TreeInduction
  <2> QED  BY <2>3
<1>4. \A n \in Nat : \E g \in [Trees[n] -> V] : Rec(g, n)
  <2> DEFINE S == {n \in Nat : ~\E g \in [Trees[n] -> V] : Rec(g, n)}
  <2>1. SUFFICES ASSUME S # {} PROVE FALSE
    OBVIOUS
  <2>2. PICK n \in S : \A m \in S : n <= m
    <3>1. S \in SUBSET Nat
      OBVIOUS
    <3> HIDE DEF S
    <3> QED  BY <2>1, <3>1, LeastElement
  <2>3. n # 0
    <3> DEFINE g == [x \in Trees[0] |-> b]
    <3>1. Trees[0] = {NULL}
      BY TreesIs
    <3>2. g \in [Trees[0] -> V] /\ Rec(g, 0)
      BY <3>1
    <3> HIDE DEF g, Rec
    <3> QED  BY <3>2
  <2>4. n \in Nat /\ n - 1 \in Nat /\ n - 1 \notin S
    <3>1. n \in Nat
      BY <2>2
    <3>2. n - 1 \in Nat /\ ~(n <= n - 1)
      BY <2>3, <3>1
    <3> HIDE DEF S
    <3> QED  BY <2>2, <3>1, <3>2
  <2>5. PICK g \in [Trees[n - 1] -> V] : Rec(g, n - 1)
    BY <2>4
  <2> DEFINE h == [x \in Trees[n] |-> IF x = NULL THEN b
                                      ELSE step[<<x, g[x.left_child], g[x.right_child]>>]]
  <2>6. \A x \in Trees[n] \ {NULL} : /\ x \in AnyNode
                                     /\ x.left_child \in Trees[n - 1] /\ x.right_child \in Trees[n - 1]
                                     /\ x.left_child \in Trees[n] /\ x.right_child \in Trees[n]
    <3>1. Trees[n - 1] \in SUBSET Trees[n]
      <4>1. n - 1 <= n
        BY <2>4
      <4> QED  BY <2>4, <4>1, TreesNest
    <3>2. ASSUME NEW x \in Trees[n] \ {NULL}
          PROVE  x.left_child \in Trees[n - 1] /\ x.right_child \in Trees[n - 1]
      BY <2>4, NodeParts
    <3> QED  BY <1>1, <2>4, <3>1, <3>2
  <2>7. \A x \in Trees[n] \ {NULL} : step[<<x, g[x.left_child], g[x.right_child]>>] \in V
    <3>1. ASSUME NEW x \in Trees[n] \ {NULL}
          PROVE  step[<<x, g[x.left_child], g[x.right_child]>>] \in V
      <4>1. g[x.left_child] \in V /\ g[x.right_child] \in V /\ x \in AnyNode
        BY <2>6
      <4>2. <<x, g[x.left_child], g[x.right_child]>> \in AnyNode \X V \X V
        BY <4>1
      <4> QED  BY <4>2
    <3> QED  BY <3>1
  <2>8. h \in [Trees[n] -> V]
    BY <2>7
  <2>9. \A x \in Trees[n - 1] : h[x] = g[x]
    <3>1. ASSUME NEW x \in Trees[n - 1]
          PROVE  h[x] = g[x]
      <4>1. x \in Trees[n]
        <5>1. n - 1 <= n
          BY <2>4
        <5> QED  BY <2>4, <5>1, TreesNest
      <4>2. h[x] = IF x = NULL THEN b ELSE step[<<x, g[x.left_child], g[x.right_child]>>]
        BY <4>1
      <4>3. g[x] = IF x = NULL THEN b ELSE step[<<x, g[x.left_child], g[x.right_child]>>]
        BY <2>5
      <4> QED  BY <4>2, <4>3
    <3> QED  BY <3>1
  <2>10. Rec(h, n)
    <3>1. h[NULL] = b
      BY <1>2, <2>4
    <3>2. ASSUME NEW x \in Trees[n] \ {NULL}
          PROVE  h[x] = step[<<x, h[x.left_child], h[x.right_child]>>]
      <4>1. h[x] = step[<<x, g[x.left_child], g[x.right_child]>>]
        OBVIOUS
      <4> HIDE DEF h
      <4> QED  BY <2>6, <2>9, <4>1
    <3> HIDE DEF h
    <3> QED  BY <3>1, <3>2
  <2> HIDE DEF h, Rec
  <2> QED  BY <2>2, <2>8, <2>10
<1> DEFINE G(n) == CHOOSE g \in [Trees[n] -> V] : Rec(g, n)
           lev(x) == CHOOSE n \in Nat : x \in Trees[n]
           f == [x \in AnyTree |-> G(lev(x))[x]]
<1>5. ASSUME NEW n \in Nat
      PROVE  G(n) \in [Trees[n] -> V] /\ Rec(G(n), n)
  <2>1. \E g \in [Trees[n] -> V] : Rec(g, n)
    BY <1>4
  <2> HIDE DEF Rec
  <2> QED  BY <2>1
<1>6. ASSUME NEW x \in AnyTree
      PROVE  lev(x) \in Nat /\ x \in Trees[lev(x)]
  BY DEF AnyTree
<1> HIDE DEF G, lev
<1>7. ASSUME NEW n \in Nat, NEW x \in Trees[n]
      PROVE  f[x] = G(n)[x]
  <2>1. x \in AnyTree
    BY <1>1
  <2>2. f[x] = G(lev(x))[x] /\ lev(x) \in Nat /\ x \in Trees[lev(x)]
    BY <1>6, <2>1
  <2>3. Rec(G(n), n) /\ Rec(G(lev(x)), lev(x))
    BY <1>5, <2>2
  <2> HIDE DEF Rec, f
  <2>4. CASE n <= lev(x)
    BY <1>3, <2>2, <2>3, <2>4
  <2>5. CASE lev(x) <= n
    BY <1>3, <2>2, <2>3, <2>5
  <2> QED  BY <2>2, <2>4, <2>5
<1>8. \A x \in AnyTree : f[x] \in V
  <2>1. ASSUME NEW x \in AnyTree
        PROVE  f[x] \in V
    <3>1. G(lev(x)) \in [Trees[lev(x)] -> V] /\ x \in Trees[lev(x)] /\ lev(x) \in Nat
      BY <1>5, <1>6
    <3> QED  BY <3>1
  <2> QED  BY <2>1
<1>9. f \in [AnyTree -> V]
  BY <1>8
<1>10. f[NULL] = b
  <2>1. f[NULL] = G(0)[NULL] /\ Rec(G(0), 0)
    <3> HIDE DEF f, Rec
    <3> QED  BY <1>2, <1>5, <1>7
  <2> HIDE DEF f
  <2> QED  BY <2>1
<1>11. ASSUME NEW x \in AnyNode
       PROVE  f[x] = step[<<x, f[x.left_child], f[x.right_child]>>]
  <2>1. PICK n \in Nat : x \in Trees[n] \ {NULL}
    BY DEF AnyNode, AnyTree
  <2>2. n - 1 \in Nat /\ x.left_child \in Trees[n - 1] /\ x.right_child \in Trees[n - 1]
    BY <2>1, NodeParts
  <2>3. x.left_child \in Trees[n] /\ x.right_child \in Trees[n]
    <3>1. n - 1 <= n
      OBVIOUS
    <3> QED  BY <2>2, <3>1, TreesNest
  <2> HIDE DEF f
  <2>4. f[x] = G(n)[x] /\ f[x.left_child] = G(n)[x.left_child] /\ f[x.right_child] = G(n)[x.right_child]
    BY <1>7, <2>1, <2>3
  <2>5. G(n)[x] = step[<<x, G(n)[x.left_child], G(n)[x.right_child]>>]
    BY <1>5, <2>1
  <2> QED  BY <2>4, <2>5
<1> HIDE DEF f
<1> QED  BY <1>9, <1>10, <1>11

\* The trees of the model are closed under taking children.
LEMMA TreeParts ==
  /\ Cardinality(Payload) \in Nat /\ NULL \in Tree
  /\ \A x \in Tree : x \in AnyTree
  /\ \A x \in Tree : x # NULL => x \in AnyNode /\ x \in Node /\ x.left_child \in Tree /\ x.right_child \in Tree
<1>1. Cardinality(Payload) \in Nat
  BY AVLTreeAssumption, FS_CardinalityType
<1>2. NULL \in Tree
  <2>1. 0 \in Nat /\ 0 <= Cardinality(Payload) /\ NULL \in Trees[0]
    BY <1>1, TreesIs
  <2> QED  BY <1>1, <2>1, TreesNest DEF Tree
<1>3. ASSUME NEW x \in Tree
      PROVE  x \in AnyTree
  BY <1>1 DEF Tree, AnyTree
<1>4. ASSUME NEW x \in Tree, x # NULL
      PROVE  x \in AnyNode /\ x \in Node /\ x.left_child \in Tree /\ x.right_child \in Tree
  <2> DEFINE n == Cardinality(Payload)
  <2> HIDE DEF n
  <2>1. n \in Nat /\ Tree = Trees[n]
    BY <1>1 DEF n, Tree
  <2>2. n - 1 \in Nat /\ x.left_child \in Trees[n - 1] /\ x.right_child \in Trees[n - 1]
    BY <1>4, <2>1, NodeParts
  <2>3. Trees[n - 1] \in SUBSET Trees[n]
    <3>1. n - 1 <= n
      BY <2>1
    <3> QED  BY <2>1, <2>2, <3>1, TreesNest
  <2> QED  BY <1>3, <1>4, <2>1, <2>2, <2>3 DEF AnyNode, Node
<1> QED  BY <1>1, <1>2, <1>3, <1>4

\* What a set has of every tree of the model by induction.
LEMMA InTree ==
  ASSUME NEW S, NULL \in S,
         \A x \in Node : x.left_child \in S /\ x.right_child \in S => x \in S
  PROVE  Tree \in SUBSET S
<1>1. Cardinality(Payload) \in Nat
  BY TreeParts
<1> QED  BY <1>1, TreeInduction DEF Tree, Node


-----------------------------------------------------------------------------
(***************************************************************************)
(* What is in a tree.                                                      *)
(***************************************************************************)
IsHeld(f) ==
  /\ f \in [AnyTree -> SUBSET Payload] /\ f[NULL] = {}
  /\ \A x \in AnyNode : f[x] = {x.key} \cup f[x.left_child] \cup f[x.right_child]

\* The payloads in a tree.
held == CHOOSE f : IsHeld(f)

\* There is such a function: held is one.
LEMMA HeldIs == IsHeld(held)
<1> DEFINE V == SUBSET Payload
           b == {}
           step == [z \in AnyNode \X V \X V |-> {z[1].key} \cup z[2] \cup z[3]]
<1>1. \A x \in AnyNode : x.key \in Payload /\ x.left_child \in AnyTree /\ x.right_child \in AnyTree
  BY TreesAreForest DEF Forest
<1>2. step \in [AnyNode \X V \X V -> V]
  BY <1>1
<1>3. b \in V
  OBVIOUS
<1> HIDE DEF step, V, b
<1>4. PICK f \in [AnyTree -> V] :
         /\ f[NULL] = b
         /\ \A x \in AnyNode : f[x] = step[<<x, f[x.left_child], f[x.right_child]>>]
  BY <1>2, <1>3, TreeRecursion
<1>5. ASSUME NEW x \in AnyNode
      PROVE  f[x] = {x.key} \cup f[x.left_child] \cup f[x.right_child]
  <2> DEFINE z == <<x, f[x.left_child], f[x.right_child]>>
  <2>1. z \in AnyNode \X V \X V /\ z[1] = x /\ z[2] = f[x.left_child] /\ z[3] = f[x.right_child]
    BY <1>1
  <2> HIDE DEF z
  <2>2. step[z] = {z[1].key} \cup z[2] \cup z[3]
    BY <2>1 DEF step
  <2>3. f[x] = step[z]
    BY <1>4 DEF z
  <2> QED  BY <2>1, <2>2, <2>3
<1>6. IsHeld(f)
  BY <1>4, <1>5 DEF IsHeld, V, b
<1> QED  BY <1>6 DEF held

\* PayloadsIn has them.
LEMMA PayloadsInIs == \A x \in Tree : PayloadsIn[x] = held[x]
<1> DEFINE Body(f) == [node \in Tree |-> IF node = NULL THEN {}
                         ELSE {node.key} \cup f[node.left_child] \cup f[node.right_child]]
           g == [x \in Tree |-> held[x]]
<1>1. g = Body(g)
  BY TreeParts, HeldIs DEF IsHeld
<1>2. PayloadsIn = Body(PayloadsIn)
  <2>1. PayloadsIn = CHOOSE f : f = Body(f)
    BY DEF PayloadsIn
  <2> HIDE DEF Body, g
  <2> QED  BY <1>1, <2>1
<1> DEFINE S == {x \in Tree : PayloadsIn[x] = held[x]}
<1>3. NULL \in S
  BY <1>2, TreeParts, HeldIs DEF IsHeld
<1>4. ASSUME NEW x \in Node, x.left_child \in S, x.right_child \in S
      PROVE  x \in S
  <2>1. x \in Tree /\ x # NULL /\ x \in AnyNode
    BY TreeParts DEF Node
  <2>2. PayloadsIn[x] = {x.key} \cup PayloadsIn[x.left_child] \cup PayloadsIn[x.right_child]
    BY <1>2, <2>1
  <2>3. held[x] = {x.key} \cup held[x.left_child] \cup held[x.right_child]
    BY <2>1, HeldIs DEF IsHeld
  <2> QED  BY <1>4, <2>1, <2>2, <2>3
<1>5. Tree \in SUBSET S
  <2> HIDE DEF S
  <2> QED  BY <1>3, <1>4, InTree
<1> QED  BY <1>5


-----------------------------------------------------------------------------
(***************************************************************************)
(* The trees in order, and the trees in balance.                           *)
(***************************************************************************)
Between(below, k, above) ==
  /\ \A p \in below : KeyOf[p] < KeyOf[k]
  /\ \A p \in above : KeyOf[k] < KeyOf[p]

OrderedThroughout(S) ==
  \A x \in S \ {NULL} : /\ x.left_child \in S /\ x.right_child \in S
                        /\ Between(held[x.left_child], x.key, held[x.right_child])

\* The search trees.
Ordered == UNION {S \in SUBSET AnyTree : OrderedThroughout(S)}

\* A tree is a search tree when its subtrees are and its key is between theirs.
LEMMA OrderedIs ==
  /\ NULL \in Ordered /\ Ordered \in SUBSET AnyTree
  /\ \A x \in AnyNode :
       x \in Ordered <=> /\ x.left_child \in Ordered /\ x.right_child \in Ordered
                         /\ Between(held[x.left_child], x.key, held[x.right_child])
<1>1. NULL \in Ordered
  <2>1. {NULL} \in SUBSET AnyTree /\ OrderedThroughout({NULL})
    BY TreesAreForest DEF OrderedThroughout
  <2> QED  BY <2>1 DEF Ordered
<1>2. Ordered \in SUBSET AnyTree
  BY DEF Ordered
<1>3. OrderedThroughout(Ordered)
  <2>1. ASSUME NEW x \in Ordered, x # NULL
        PROVE  /\ x.left_child \in Ordered /\ x.right_child \in Ordered
               /\ Between(held[x.left_child], x.key, held[x.right_child])
    <3>1. PICK S \in SUBSET AnyTree : OrderedThroughout(S) /\ x \in S
      BY DEF Ordered
    <3>2. /\ x.left_child \in S /\ x.right_child \in S
          /\ Between(held[x.left_child], x.key, held[x.right_child])
      BY <2>1, <3>1 DEF OrderedThroughout
    <3> QED  BY <3>1, <3>2 DEF Ordered
  <2> QED  BY <2>1 DEF OrderedThroughout
<1>4. ASSUME NEW x \in AnyNode, x.left_child \in Ordered, x.right_child \in Ordered,
             Between(held[x.left_child], x.key, held[x.right_child])
      PROVE  x \in Ordered
  <2> DEFINE S == Ordered \cup {x}
  <2>1. S \in SUBSET AnyTree
    BY <1>2, TreesAreForest
  <2>2. OrderedThroughout(S)
    BY <1>3, <1>4 DEF OrderedThroughout
  <2> QED  BY <2>1, <2>2 DEF Ordered
<1>5. \A x \in AnyNode : x # NULL
  BY DEF AnyNode
<1> QED  BY <1>1, <1>2, <1>3, <1>4, <1>5 DEF OrderedThroughout

EvenAll(S) == \A x \in S \ {NULL} : Even(x) /\ x.left_child \in S /\ x.right_child \in S

\* The trees that are in balance, every cached height right.
EvenTrees == UNION {S \in SUBSET AnyTree : EvenAll(S)}

\* A tree is in balance when its subtrees are and its root is.
LEMMA EvenIs ==
  /\ NULL \in EvenTrees /\ EvenTrees \in SUBSET AnyTree
  /\ \A x \in AnyNode :
       x \in EvenTrees <=> Even(x) /\ x.left_child \in EvenTrees /\ x.right_child \in EvenTrees
<1>1. NULL \in EvenTrees
  <2>1. {NULL} \in SUBSET AnyTree /\ EvenAll({NULL})
    BY TreesAreForest DEF EvenAll
  <2> QED  BY <2>1 DEF EvenTrees
<1>2. EvenTrees \in SUBSET AnyTree
  BY DEF EvenTrees
<1>3. EvenAll(EvenTrees)
  <2>1. ASSUME NEW x \in EvenTrees, x # NULL
        PROVE  Even(x) /\ x.left_child \in EvenTrees /\ x.right_child \in EvenTrees
    <3>1. PICK S \in SUBSET AnyTree : EvenAll(S) /\ x \in S
      BY DEF EvenTrees
    <3>2. Even(x) /\ x.left_child \in S /\ x.right_child \in S
      BY <2>1, <3>1 DEF EvenAll
    <3> QED  BY <3>1, <3>2 DEF EvenTrees
  <2> QED  BY <2>1 DEF EvenAll
<1>4. ASSUME NEW x \in AnyNode, x.left_child \in EvenTrees, x.right_child \in EvenTrees, Even(x)
      PROVE  x \in EvenTrees
  <2> DEFINE S == EvenTrees \cup {x}
  <2>1. S \in SUBSET AnyTree
    BY <1>2, TreesAreForest
  <2>2. EvenAll(S)
    BY <1>3, <1>4 DEF EvenAll
  <2> QED  BY <2>1, <2>2 DEF EvenTrees
<1>5. \A x \in AnyNode : x # NULL
  BY DEF AnyNode
<1> QED  BY <1>1, <1>2, <1>3, <1>4, <1>5 DEF EvenAll

\* The parts of a tree.
LEMMA NodeIs ==
  ASSUME NEW x \in AnyNode
  PROVE  /\ x # NULL /\ x \in AnyTree /\ x.height \in Nat /\ x.key \in Payload
         /\ x.left_child \in AnyTree /\ x.right_child \in AnyTree
         /\ held[x] = {x.key} \cup held[x.left_child] \cup held[x.right_child]
  BY TreesAreForest, HeldIs DEF Forest, IsHeld

\* A tree put together from two.
LEMMA JoinedIs ==
  ASSUME NEW k \in Payload, NEW l \in AnyTree, NEW r \in AnyTree
  PROVE  /\ Joined(l, k, r) \in AnyNode
         /\ Joined(l, k, r).left_child = l /\ Joined(l, k, r).right_child = r
         /\ Joined(l, k, r).key = k
         /\ held[Joined(l, k, r)] = {k} \cup held[l] \cup held[r]
         /\ Joined(l, k, r) \in Ordered <=>
              l \in Ordered /\ r \in Ordered /\ Between(held[l], k, held[r])
<1> DEFINE j == Joined(l, k, r)
<1>1. /\ j \in AnyNode /\ j.left_child = l /\ j.right_child = r /\ j.key = k
  BY TreesAreForest, JoinedNode
<1> HIDE DEF j
<1>2. held[j] = {k} \cup held[l] \cup held[r]
  BY <1>1, NodeIs
<1>3. j \in Ordered <=> l \in Ordered /\ r \in Ordered /\ Between(held[l], k, held[r])
  BY <1>1, OrderedIs
<1> QED  BY <1>1, <1>2, <1>3 DEF j

\* Whatever balance_tree rotates, the tree holds what it held, in order if it was.
LEMMA BalanceKeeps ==
  ASSUME NEW n \in AnyNode
  PROVE  /\ balance_tree(n) \in AnyNode
         /\ held[balance_tree(n)] = held[n]
         /\ n \in Ordered => balance_tree(n) \in Ordered
<1> DEFINE l == n.left_child
           r == n.right_child
<1>1. /\ l \in AnyTree /\ r \in AnyTree /\ n.key \in Payload
      /\ held[n] = {n.key} \cup held[l] \cup held[r]
  BY NodeIs
<1>2. n \in Ordered => l \in Ordered /\ r \in Ordered /\ Between(held[l], n.key, held[r])
  BY OrderedIs
<1>3. \A p \in Payload : KeyOf[p] \in Int
  BY AVLTreeAssumption
<1>f. Forest(AnyNode, Payload)
  BY TreesAreForest
<1>4. get_balance_factor(n) \in Int
  BY <1>f, FactorIsInt
<1>n. AnyTree = AnyNode \cup {NULL}
  BY TreesAreForest
<1>h. \A x \in AnyTree : held[x] \in SUBSET Payload
  BY HeldIs DEF IsHeld
<1>5. CASE ~(get_balance_factor(n) > 1) /\ ~(get_balance_factor(n) < -1)
  BY <1>5 DEF balance_tree, is_left_heavy, is_right_heavy
<1>6. CASE get_balance_factor(n) > 1
  <2> DEFINE a == l.left_child
             m == l.right_child
  <2>1. l \in AnyNode
    <3>1. get_balance_factor(n) > 0
      BY <1>4, <1>6
    <3> QED  BY <1>1, <1>f, <1>n, <3>1, HighSide
  <2>2. /\ a \in AnyTree /\ m \in AnyTree /\ l.key \in Payload
        /\ held[l] = {l.key} \cup held[a] \cup held[m]
    BY <2>1, NodeIs
  <2>3. l \in Ordered => a \in Ordered /\ m \in Ordered /\ Between(held[a], l.key, held[m])
    BY <2>1, OrderedIs
  <2>4. balance_tree(n) = IF get_balance_factor(l) < 0 THEN LR(n) ELSE LL(n)
    BY <1>6, <1>f, BalancedLeft
  <2> HIDE DEF l, r, a, m
  <2>5. CASE ~(get_balance_factor(l) < 0)
    <3> DEFINE low == Joined(m, n.key, r)
               top == Joined(a, l.key, low)
    <3>1. /\ low \in AnyNode /\ low \in AnyTree
          /\ held[low] = {n.key} \cup held[m] \cup held[r]
          /\ low \in Ordered <=> m \in Ordered /\ r \in Ordered /\ Between(held[m], n.key, held[r])
      BY <1>1, <1>n, <2>2, JoinedIs
    <3> HIDE DEF low
    <3>2. /\ top \in AnyNode
          /\ held[top] = {l.key} \cup held[a] \cup held[low]
          /\ top \in Ordered <=> a \in Ordered /\ low \in Ordered /\ Between(held[a], l.key, held[low])
      <4>1. low \in AnyTree
        BY <3>1
      <4>2. a \in AnyTree /\ l.key \in Payload
        BY <2>2
      <4> QED  BY <4>1, <4>2, JoinedIs
    <3>3. balance_tree(n) = top
      BY <2>4, <2>5 DEF LL, low, a, m, l, r
    <3> HIDE DEF top
    <3>4. held[top] = held[n]
      BY <1>1, <2>2, <3>1, <3>2
    <3>5. ASSUME n \in Ordered PROVE top \in Ordered
      <4>1. Between(held[m], n.key, held[r])
        BY <1>2, <2>2, <3>5 DEF Between
      <4>2. Between(held[a], l.key, held[low])
        BY <1>1, <1>2, <1>3, <1>h, <2>2, <2>3, <3>1, <3>5 DEF Between
      <4> QED  BY <1>2, <2>3, <3>1, <3>2, <3>5, <4>1, <4>2
    <3> QED  BY <3>2, <3>3, <3>4, <3>5
  <2>6. CASE get_balance_factor(l) < 0
    <3> DEFINE left == Joined(a, l.key, m.left_child)
               right == Joined(m.right_child, n.key, r)
               top == Joined(left, m.key, right)
    <3>1. m \in AnyNode
      BY <1>f, <1>n, <2>1, <2>2, <2>6, HighSide DEF m
    <3>2. /\ m.key \in Payload /\ m.left_child \in AnyTree /\ m.right_child \in AnyTree
          /\ held[m] = {m.key} \cup held[m.left_child] \cup held[m.right_child]
      BY <3>1, NodeIs
    <3>3. m \in Ordered => /\ m.left_child \in Ordered /\ m.right_child \in Ordered
                           /\ Between(held[m.left_child], m.key, held[m.right_child])
      BY <3>1, OrderedIs
    <3>4. /\ left \in AnyNode /\ left \in AnyTree
          /\ held[left] = {l.key} \cup held[a] \cup held[m.left_child]
          /\ left \in Ordered <=> a \in Ordered /\ m.left_child \in Ordered
                                  /\ Between(held[a], l.key, held[m.left_child])
      BY <1>n, <2>2, <3>2, JoinedIs
    <3>5. /\ right \in AnyNode /\ right \in AnyTree
          /\ held[right] = {n.key} \cup held[m.right_child] \cup held[r]
          /\ right \in Ordered <=> m.right_child \in Ordered /\ r \in Ordered
                                   /\ Between(held[m.right_child], n.key, held[r])
      BY <1>1, <1>n, <3>2, JoinedIs
    <3> HIDE DEF left, right
    <3>6. /\ top \in AnyNode
          /\ held[top] = {m.key} \cup held[left] \cup held[right]
          /\ top \in Ordered <=> left \in Ordered /\ right \in Ordered
                                 /\ Between(held[left], m.key, held[right])
      <4>1. m.key \in Payload /\ left \in AnyTree /\ right \in AnyTree
        BY <3>2, <3>4, <3>5
      <4> QED  BY <4>1, JoinedIs
    <3>7. balance_tree(n) = top
      BY <2>4, <2>6 DEF LR, left, right, a, m, l, r
    <3> HIDE DEF top
    <3>8. held[top] = held[n]
      BY <1>1, <2>2, <3>2, <3>4, <3>5, <3>6
    <3>9. ASSUME n \in Ordered PROVE top \in Ordered
      <4>1. /\ Between(held[l], n.key, held[r]) /\ Between(held[a], l.key, held[m])
            /\ Between(held[m.left_child], m.key, held[m.right_child])
        BY <1>2, <2>3, <3>3, <3>9
      <4>2. Between(held[a], l.key, held[m.left_child])
        BY <3>2, <4>1 DEF Between
      <4>3. Between(held[m.right_child], n.key, held[r])
        BY <2>2, <3>2, <4>1 DEF Between
      <4>4. KeyOf[l.key] < KeyOf[m.key] /\ KeyOf[m.key] < KeyOf[n.key]
        BY <2>2, <3>2, <4>1 DEF Between
      <4>5. \A p \in held[left] : KeyOf[p] < KeyOf[m.key]
        BY <1>3, <1>h, <2>2, <3>2, <3>4, <4>1, <4>4 DEF Between
      <4>6. \A p \in held[right] : KeyOf[m.key] < KeyOf[p]
        BY <1>1, <1>3, <1>h, <3>2, <3>5, <4>1, <4>4 DEF Between
      <4> QED  BY <1>2, <2>3, <3>3, <3>4, <3>5, <3>6, <3>9, <4>2, <4>3, <4>5, <4>6 DEF Between
    <3> QED  BY <3>6, <3>7, <3>8, <3>9
  <2> QED  BY <2>5, <2>6
<1>7. CASE get_balance_factor(n) < -1
  <2> DEFINE m == r.left_child
             d == r.right_child
  <2>1. r \in AnyNode
    <3>1. get_balance_factor(n) < 0
      BY <1>4, <1>7
    <3> QED  BY <1>1, <1>f, <1>n, <3>1, HighSide
  <2>2. /\ m \in AnyTree /\ d \in AnyTree /\ r.key \in Payload
        /\ held[r] = {r.key} \cup held[m] \cup held[d]
    BY <2>1, NodeIs
  <2>3. r \in Ordered => m \in Ordered /\ d \in Ordered /\ Between(held[m], r.key, held[d])
    BY <2>1, OrderedIs
  <2>4. balance_tree(n) = IF get_balance_factor(r) > 0 THEN RL(n) ELSE RR(n)
    BY <1>7, <1>f, BalancedRight
  <2> HIDE DEF l, r, m, d
  <2>5. CASE ~(get_balance_factor(r) > 0)
    <3> DEFINE low == Joined(l, n.key, m)
               top == Joined(low, r.key, d)
    <3>1. /\ low \in AnyNode /\ low \in AnyTree
          /\ held[low] = {n.key} \cup held[l] \cup held[m]
          /\ low \in Ordered <=> l \in Ordered /\ m \in Ordered /\ Between(held[l], n.key, held[m])
      BY <1>1, <1>n, <2>2, JoinedIs
    <3> HIDE DEF low
    <3>2. /\ top \in AnyNode
          /\ held[top] = {r.key} \cup held[low] \cup held[d]
          /\ top \in Ordered <=> low \in Ordered /\ d \in Ordered /\ Between(held[low], r.key, held[d])
      <4>1. low \in AnyTree
        BY <3>1
      <4>2. d \in AnyTree /\ r.key \in Payload
        BY <2>2
      <4> QED  BY <4>1, <4>2, JoinedIs
    <3>3. balance_tree(n) = top
      BY <2>4, <2>5 DEF RR, low, d, m, l, r
    <3> HIDE DEF top
    <3>4. held[top] = held[n]
      BY <1>1, <2>2, <3>1, <3>2
    <3>5. ASSUME n \in Ordered PROVE top \in Ordered
      <4>1. Between(held[l], n.key, held[m])
        BY <1>2, <2>2, <3>5 DEF Between
      <4>2. Between(held[low], r.key, held[d])
        BY <1>1, <1>2, <1>3, <1>h, <2>2, <2>3, <3>1, <3>5 DEF Between
      <4> QED  BY <1>2, <2>3, <3>1, <3>2, <3>5, <4>1, <4>2
    <3> QED  BY <3>2, <3>3, <3>4, <3>5
  <2>6. CASE get_balance_factor(r) > 0
    <3> DEFINE left == Joined(l, n.key, m.left_child)
               right == Joined(m.right_child, r.key, d)
               top == Joined(left, m.key, right)
    <3>1. m \in AnyNode
      BY <1>f, <1>n, <2>1, <2>2, <2>6, HighSide DEF m
    <3>2. /\ m.key \in Payload /\ m.left_child \in AnyTree /\ m.right_child \in AnyTree
          /\ held[m] = {m.key} \cup held[m.left_child] \cup held[m.right_child]
      BY <3>1, NodeIs
    <3>3. m \in Ordered => /\ m.left_child \in Ordered /\ m.right_child \in Ordered
                           /\ Between(held[m.left_child], m.key, held[m.right_child])
      BY <3>1, OrderedIs
    <3>4. /\ left \in AnyNode /\ left \in AnyTree
          /\ held[left] = {n.key} \cup held[l] \cup held[m.left_child]
          /\ left \in Ordered <=> l \in Ordered /\ m.left_child \in Ordered
                                  /\ Between(held[l], n.key, held[m.left_child])
      BY <1>1, <1>n, <3>2, JoinedIs
    <3>5. /\ right \in AnyNode /\ right \in AnyTree
          /\ held[right] = {r.key} \cup held[m.right_child] \cup held[d]
          /\ right \in Ordered <=> m.right_child \in Ordered /\ d \in Ordered
                                   /\ Between(held[m.right_child], r.key, held[d])
      BY <1>n, <2>2, <3>2, JoinedIs
    <3> HIDE DEF left, right
    <3>6. /\ top \in AnyNode
          /\ held[top] = {m.key} \cup held[left] \cup held[right]
          /\ top \in Ordered <=> left \in Ordered /\ right \in Ordered
                                 /\ Between(held[left], m.key, held[right])
      <4>1. m.key \in Payload /\ left \in AnyTree /\ right \in AnyTree
        BY <3>2, <3>4, <3>5
      <4> QED  BY <4>1, JoinedIs
    <3>7. balance_tree(n) = top
      BY <2>4, <2>6 DEF RL, left, right, d, m, l, r
    <3> HIDE DEF top
    <3>8. held[top] = held[n]
      BY <1>1, <2>2, <3>2, <3>4, <3>5, <3>6
    <3>9. ASSUME n \in Ordered PROVE top \in Ordered
      <4>1. /\ Between(held[l], n.key, held[r]) /\ Between(held[m], r.key, held[d])
            /\ Between(held[m.left_child], m.key, held[m.right_child])
        BY <1>2, <2>3, <3>3, <3>9
      <4>2. Between(held[l], n.key, held[m.left_child])
        BY <2>2, <3>2, <4>1 DEF Between
      <4>3. Between(held[m.right_child], r.key, held[d])
        BY <3>2, <4>1 DEF Between
      <4>4. KeyOf[n.key] < KeyOf[m.key] /\ KeyOf[m.key] < KeyOf[r.key]
        BY <2>2, <3>2, <4>1 DEF Between
      <4>5. \A p \in held[left] : KeyOf[p] < KeyOf[m.key]
        BY <1>1, <1>3, <1>h, <3>2, <3>4, <4>1, <4>4 DEF Between
      <4>6. \A p \in held[right] : KeyOf[m.key] < KeyOf[p]
        BY <1>3, <1>h, <2>2, <3>2, <3>5, <4>1, <4>4 DEF Between
      <4> QED  BY <1>2, <2>3, <3>3, <3>4, <3>5, <3>6, <3>9, <4>2, <4>3, <4>5, <4>6 DEF Between
    <3> QED  BY <3>6, <3>7, <3>8, <3>9
  <2> QED  BY <2>5, <2>6
<1> QED  BY <1>4, <1>5, <1>6, <1>7

\* insert_node and remove_node write into a node of their own, then give it its height.
LEMMA NodeWritten ==
  ASSUME NEW n \in AnyNode
  PROVE  /\ \A t \in AnyTree : LET x == [n EXCEPT !.left_child = t]
                               IN  x \in AnyNode /\ set_height(x) = Joined(t, n.key, n.right_child)
         /\ \A t \in AnyTree : LET x == [n EXCEPT !.right_child = t]
                               IN  x \in AnyNode /\ set_height(x) = Joined(n.left_child, n.key, t)
         /\ \A p \in Payload : LET x == [n EXCEPT !.key = p]
                               IN  /\ x \in AnyNode
                                   /\ set_height(x) = Joined(n.left_child, p, n.right_child)
         /\ set_height(n) = Joined(n.left_child, n.key, n.right_child)
<1>1. /\ n = [height |-> n.height, left_child |-> n.left_child,
              right_child |-> n.right_child, key |-> n.key]
      /\ n.height \in Nat /\ n.key \in Payload
      /\ n.left_child \in AnyTree /\ n.right_child \in AnyTree
      /\ \A h \in Nat, k \in Payload : \A l, r \in AnyTree :
           [height |-> h, left_child |-> l, right_child |-> r, key |-> k] \in AnyNode
  BY TreesAreForest DEF Forest
<1>2. ASSUME NEW h \in Nat, NEW k \in Payload, NEW l \in AnyTree, NEW r \in AnyTree
      PROVE  set_height([height |-> h, left_child |-> l, right_child |-> r, key |-> k])
               = Joined(l, k, r)
  BY DEF set_height, Joined
<1>3. ASSUME NEW t \in AnyTree
      PROVE  LET x == [n EXCEPT !.left_child = t]
             IN  x \in AnyNode /\ set_height(x) = Joined(t, n.key, n.right_child)
  <2>1. [n EXCEPT !.left_child = t] = [height |-> n.height, left_child |-> t,
                                       right_child |-> n.right_child, key |-> n.key]
    BY <1>1
  <2> QED  BY <1>1, <1>2, <2>1
<1>4. ASSUME NEW t \in AnyTree
      PROVE  LET x == [n EXCEPT !.right_child = t]
             IN  x \in AnyNode /\ set_height(x) = Joined(n.left_child, n.key, t)
  <2>1. [n EXCEPT !.right_child = t] = [height |-> n.height, left_child |-> n.left_child,
                                        right_child |-> t, key |-> n.key]
    BY <1>1
  <2> QED  BY <1>1, <1>2, <2>1
<1>5. ASSUME NEW p \in Payload
      PROVE  LET x == [n EXCEPT !.key = p]
             IN  x \in AnyNode /\ set_height(x) = Joined(n.left_child, p, n.right_child)
  <2>1. [n EXCEPT !.key = p] = [height |-> n.height, left_child |-> n.left_child,
                                right_child |-> n.right_child, key |-> p]
    BY <1>1
  <2> QED  BY <1>1, <1>2, <2>1
<1>6. set_height(n) = Joined(n.left_child, n.key, n.right_child)
  BY <1>1, <1>2
<1> QED  BY <1>3, <1>4, <1>5, <1>6

\* What Rebalanced makes of a payload over two trees.
LEMMA RebalancedKeeps ==
  ASSUME NEW k \in Payload, NEW l \in AnyTree, NEW r \in AnyTree
  PROVE  LET b == balance_tree(Joined(l, k, r))
         IN  /\ b \in AnyNode /\ held[b] = {k} \cup held[l] \cup held[r]
             /\ l \in Ordered /\ r \in Ordered /\ Between(held[l], k, held[r]) => b \in Ordered
<1> DEFINE j == Joined(l, k, r)
<1>1. /\ j \in AnyNode /\ held[j] = {k} \cup held[l] \cup held[r]
      /\ l \in Ordered /\ r \in Ordered /\ Between(held[l], k, held[r]) => j \in Ordered
  BY JoinedIs
<1> HIDE DEF j
<1>2. /\ balance_tree(j) \in AnyNode /\ held[balance_tree(j)] = held[j]
      /\ j \in Ordered => balance_tree(j) \in Ordered
  BY <1>1, BalanceKeeps
<1> QED  BY <1>1, <1>2 DEF j

\* Over two trees in balance whose heights are two apart at most, Rebalanced makes one in
\* balance, and no higher than the node was.
LEMMA RebalancedEven ==
  ASSUME NEW k \in Payload, NEW l \in EvenTrees, NEW r \in EvenTrees,
         get_height(l) - get_height(r) \in -2..2
  PROVE  LET b == balance_tree(Joined(l, k, r))
             h == node_max(get_height(l), get_height(r))
         IN  /\ b \in EvenTrees /\ get_height(b) \in {h, h + 1}
             /\ get_height(l) - get_height(r) \in -1..1 => get_height(b) = h + 1
<1> DEFINE j == Joined(l, k, r)
           even == [x \in AnyNode \cup {NULL} |-> x \in EvenTrees]
<1>f. Forest(AnyNode, Payload) /\ AnyTree = AnyNode \cup {NULL}
  BY TreesAreForest
<1>1. l \in AnyTree /\ r \in AnyTree
  BY EvenIs
<1>2. /\ get_height(l) \in Int /\ get_height(r) \in Int
  BY <1>f, <1>1, HeightRange
<1>3. /\ j \in AnyNode /\ j.left_child = l /\ j.right_child = r
      /\ get_height(j) = node_max(get_height(l), get_height(r)) + 1
  BY <1>f, <1>1, JoinedNode
<1>4. j # NULL /\ j.height = node_max(get_height(l), get_height(r)) + 1
  BY <1>3, NodeIs DEF get_height
<1> HIDE DEF j
<1>5. get_balance_factor(j) = get_height(l) - get_height(r)
  BY <1>3, <1>4 DEF get_balance_factor
<1>6. EvenThroughout(AnyNode, even)
  <2>0. even \in [AnyNode \cup {NULL} -> BOOLEAN]
    OBVIOUS
  <2>1. even[NULL] = TRUE
    BY <1>f, EvenIs
  <2>2. ASSUME NEW n \in AnyNode
        PROVE  even[n] <=> Even(n) /\ even[n.left_child] /\ even[n.right_child]
    <3>1. n.left_child \in AnyNode \cup {NULL} /\ n.right_child \in AnyNode \cup {NULL}
      BY <1>f, NodeIs
    <3> QED  BY <3>1, EvenIs
  <2> HIDE DEF even
  <2> QED  BY <2>0, <2>1, <2>2 DEF EvenThroughout
<1>7. even[j.left_child] /\ even[j.right_child]
  BY <1>f, <1>1, <1>3
<1>8. get_balance_factor(j) \in -2..2
  BY <1>5
<1> HIDE DEF even
<1>9. /\ balance_tree(j) \in AnyNode /\ even[balance_tree(j)]
      /\ get_height(balance_tree(j)) \in {j.height - 1, j.height}
  BY <1>f, <1>3, <1>4, <1>6, <1>7, <1>8, BalanceRestored
<1>10. balance_tree(j) \in EvenTrees
  BY <1>9 DEF even
<1>11. ASSUME get_height(l) - get_height(r) \in -1..1
       PROVE  get_height(balance_tree(j)) = node_max(get_height(l), get_height(r)) + 1
  <2>1. ~(get_balance_factor(j) > 1) /\ ~(get_balance_factor(j) < -1)
    BY <1>5, <1>11
  <2>2. balance_tree(j) = j
    BY <2>1 DEF balance_tree, is_left_heavy, is_right_heavy
  <2> QED  BY <1>3, <2>2
<1>12. node_max(get_height(l), get_height(r)) \in Int
  BY <1>2 DEF node_max
<1>13. get_height(balance_tree(j)) \in {node_max(get_height(l), get_height(r)),
                                        node_max(get_height(l), get_height(r)) + 1}
  BY <1>4, <1>9, <1>12
<1> QED  BY <1>10, <1>11, <1>13 DEF j

\* When a subtree grew by one level at most, so does the tree over it.
LEMMA Regrown ==
  ASSUME NEW x \in AnyNode, x \in EvenTrees, NEW k \in Payload,
         NEW l \in EvenTrees, NEW r \in EvenTrees,
         get_height(l) \in {get_height(x.left_child), get_height(x.left_child) + 1},
         get_height(r) \in {get_height(x.right_child), get_height(x.right_child) + 1},
         get_height(l) = get_height(x.left_child) \/ get_height(r) = get_height(x.right_child)
  PROVE  /\ balance_tree(Joined(l, k, r)) \in EvenTrees
         /\ get_height(balance_tree(Joined(l, k, r))) \in {get_height(x), get_height(x) + 1}
<1> DEFINE b == balance_tree(Joined(l, k, r))
           hl == get_height(x.left_child)
           hr == get_height(x.right_child)
<1>f. Forest(AnyNode, Payload) /\ AnyTree = AnyNode \cup {NULL}
  BY TreesAreForest
<1>1. x # NULL /\ x.left_child \in AnyTree /\ x.right_child \in AnyTree
  BY NodeIs
<1>2. hl \in Int /\ hr \in Int
  BY <1>f, <1>1, HeightRange
<1>3. get_height(x) = node_max(hl, hr) + 1 /\ hl - hr \in -1..1
  BY <1>1, EvenIs DEF Even, get_height, get_balance_factor
<1>4. get_height(l) - get_height(r) \in -2..2
  BY <1>2, <1>3
<1>5. /\ b \in EvenTrees
      /\ get_height(b) \in {node_max(get_height(l), get_height(r)),
                            node_max(get_height(l), get_height(r)) + 1}
      /\ get_height(l) - get_height(r) \in -1..1
           => get_height(b) = node_max(get_height(l), get_height(r)) + 1
  BY <1>4, RebalancedEven
<1> HIDE DEF b, hl, hr
<1>6. /\ get_height(l) \in {hl, hl + 1} /\ get_height(r) \in {hr, hr + 1}
      /\ get_height(l) = hl \/ get_height(r) = hr
  BY DEF hl, hr
<1>7. get_height(b) \in {get_height(x), get_height(x) + 1}
  BY <1>2, <1>3, <1>5, <1>6 DEF node_max
<1> QED  BY <1>5, <1>7 DEF b

\* When a subtree lost one level at most, so does the tree over it.
LEMMA Reshrunk ==
  ASSUME NEW x \in AnyNode, x \in EvenTrees, NEW k \in Payload,
         NEW l \in EvenTrees, NEW r \in EvenTrees,
         get_height(l) \in {get_height(x.left_child) - 1, get_height(x.left_child)},
         get_height(r) \in {get_height(x.right_child) - 1, get_height(x.right_child)},
         get_height(l) = get_height(x.left_child) \/ get_height(r) = get_height(x.right_child)
  PROVE  /\ balance_tree(Joined(l, k, r)) \in EvenTrees
         /\ get_height(balance_tree(Joined(l, k, r))) \in {get_height(x) - 1, get_height(x)}
<1> DEFINE b == balance_tree(Joined(l, k, r))
           hl == get_height(x.left_child)
           hr == get_height(x.right_child)
<1>f. Forest(AnyNode, Payload) /\ AnyTree = AnyNode \cup {NULL}
  BY TreesAreForest
<1>1. x # NULL /\ x.left_child \in AnyTree /\ x.right_child \in AnyTree
  BY NodeIs
<1>2. hl \in Int /\ hr \in Int
  BY <1>f, <1>1, HeightRange
<1>3. get_height(x) = node_max(hl, hr) + 1 /\ hl - hr \in -1..1
  BY <1>1, EvenIs DEF Even, get_height, get_balance_factor
<1>4. get_height(l) - get_height(r) \in -2..2
  BY <1>2, <1>3
<1>5. /\ b \in EvenTrees
      /\ get_height(b) \in {node_max(get_height(l), get_height(r)),
                            node_max(get_height(l), get_height(r)) + 1}
      /\ get_height(l) - get_height(r) \in -1..1
           => get_height(b) = node_max(get_height(l), get_height(r)) + 1
  BY <1>4, RebalancedEven
<1> HIDE DEF b, hl, hr
<1>6. /\ get_height(l) \in {hl - 1, hl} /\ get_height(r) \in {hr - 1, hr}
      /\ get_height(l) = hl \/ get_height(r) = hr
  BY DEF hl, hr
<1>7. get_height(b) \in {get_height(x) - 1, get_height(x)}
  BY <1>2, <1>3, <1>5, <1>6 DEF node_max
<1> QED  BY <1>5, <1>7 DEF b


-----------------------------------------------------------------------------
(***************************************************************************)
(* The functions of the code, on the trees of the model.                   *)
(***************************************************************************)
Steps(V) == [AnyNode \X V \X V -> V]

\* The functions that recurse over the trees of the model as step says.
Recursions(V, b, step) ==
  {g \in [Tree -> V] : /\ g[NULL] = b
                       /\ \A x \in Node : g[x] = step[<<x, g[x.left_child], g[x.right_child]>>]}

\* There is one.
LEMMA TreeFunction ==
  ASSUME NEW V, NEW b, NEW step, b \in V, step \in Steps(V)
  PROVE  Recursions(V, b, step) # {}
<1>1. PICK f \in [AnyTree -> V] :
        /\ f[NULL] = b
        /\ \A x \in AnyNode : f[x] = step[<<x, f[x.left_child], f[x.right_child]>>]
  BY TreeRecursion DEF Steps
<1> DEFINE g == [x \in Tree |-> f[x]]
<1>2. NULL \in Tree /\ \A x \in Tree : x \in AnyTree
  BY TreeParts
<1>3. \A x \in Node : /\ x \in AnyNode /\ x \in Tree
                      /\ x.left_child \in Tree /\ x.right_child \in Tree
  BY TreeParts DEF Node
<1>4. \A x \in Tree : g[x] = f[x]
  OBVIOUS
<1>5. g \in [Tree -> V]
  BY <1>1, <1>2
<1> HIDE DEF g
<1>6. \A x \in Node : g[x] = step[<<x, g[x.left_child], g[x.right_child]>>]
  BY <1>1, <1>3, <1>4
<1> QED  BY <1>1, <1>2, <1>4, <1>5, <1>6 DEF Recursions


-----------------------------------------------------------------------------
(***************************************************************************)
(* insert_node.                                                            *)
(***************************************************************************)
\* What a node that has the key of p holds afterwards.
Chosen(k, p, replace, callback) ==
  IF replace = "REPLACE_PAYLOAD_TRUE" /\ callback = "NULL" THEN p ELSE k

\* What insert_node returns, one call at a time.
InsertSteps(p, replace, callback) ==
  LET Insert(x) == insert_node(x, p, replace, callback)
  IN  /\ Insert(NULL) = AddLeaf(p, callback)
      /\ \A x \in Tree : Insert(x) \in AnyTree
      /\ \A x \in Node :
           /\ KeyOf[p] < KeyOf[x.key] =>
                Insert(x) = balance_tree(Joined(Insert(x.left_child), x.key, x.right_child))
           /\ KeyOf[p] > KeyOf[x.key] =>
                Insert(x) = balance_tree(Joined(x.left_child, x.key, Insert(x.right_child)))
           /\ KeyOf[p] = KeyOf[x.key] =>
                Insert(x) = balance_tree(Joined(x.left_child, Chosen(x.key, p, replace, callback),
                                                x.right_child))

\* insert_node does.
LEMMA InsertIs ==
  ASSUME NEW p \in Payload, NEW replace, NEW callback
  PROVE  InsertSteps(p, replace, callback)
<1> DEFINE Made(x, l, r) ==
             Rebalanced(
               CASE compare(x.key, p) = "BST_LT" -> [x EXCEPT !.left_child = l]
                 [] compare(x.key, p) = "BST_GT" -> [x EXCEPT !.right_child = r]
                 [] OTHER -> Replace(x, p, replace, callback))
           b == AddLeaf(p, callback)
           V == AnyTree
           step == [z \in AnyNode \X V \X V |-> Made(z[1], z[2], z[3])]
           Body(f) == [node \in Tree |-> IF node = NULL THEN b
                         ELSE Made(node, f[node.left_child], f[node.right_child])]
           k(x) == Chosen(x.key, p, replace, callback)
           Insert(x) == insert_node(x, p, replace, callback)
<1>1. ASSUME NEW x \in AnyNode, NEW l \in AnyTree, NEW r \in AnyTree
      PROVE  /\ Made(x, l, r) \in AnyTree
             /\ KeyOf[p] < KeyOf[x.key] => Made(x, l, r) = balance_tree(Joined(l, x.key, x.right_child))
             /\ KeyOf[p] > KeyOf[x.key] => Made(x, l, r) = balance_tree(Joined(x.left_child, x.key, r))
             /\ KeyOf[p] = KeyOf[x.key] =>
                  Made(x, l, r) = balance_tree(Joined(x.left_child, k(x), x.right_child))
  <2>1. KeyOf[p] \in Int /\ KeyOf[x.key] \in Int
    BY NodeIs, AVLTreeAssumption
  <2>2. /\ x.key \in Payload /\ k(x) \in Payload /\ x.left_child \in AnyTree /\ x.right_child \in AnyTree
    BY NodeIs DEF Chosen
  <2>3. /\ balance_tree(Joined(l, x.key, x.right_child)) \in AnyTree
        /\ balance_tree(Joined(x.left_child, x.key, r)) \in AnyTree
        /\ balance_tree(Joined(x.left_child, k(x), x.right_child)) \in AnyTree
    <3> HIDE DEF k
    <3> QED  BY <2>2, RebalancedKeeps, NodeIs
  <2>4. CASE KeyOf[p] < KeyOf[x.key]
    <3>0. compare(x.key, p) = "BST_LT"
      BY <2>1, <2>4 DEF compare
    <3>1. Made(x, l, r) = balance_tree(set_height([x EXCEPT !.left_child = l]))
      BY <3>0 DEF Rebalanced
    <3>2. Made(x, l, r) = balance_tree(Joined(l, x.key, x.right_child))
      <4> HIDE DEF Made
      <4> QED  BY <3>1, NodeWritten
    <3> HIDE DEF Made, k
    <3> QED  BY <2>1, <2>3, <2>4, <3>2
  <2>5. CASE KeyOf[p] > KeyOf[x.key]
    <3>1. compare(x.key, p) = "BST_GT"
      BY <2>1, <2>5 DEF compare
    <3>2. Made(x, l, r) = balance_tree(set_height([x EXCEPT !.right_child = r]))
      BY <3>1 DEF Rebalanced
    <3>3. Made(x, l, r) = balance_tree(Joined(x.left_child, x.key, r))
      <4> HIDE DEF Made
      <4> QED  BY <3>2, NodeWritten
    <3> HIDE DEF Made, k
    <3> QED  BY <2>1, <2>3, <2>5, <3>3
  <2>6. CASE KeyOf[p] = KeyOf[x.key]
    <3>1. compare(x.key, p) = "BST_EQ"
      BY <2>1, <2>6 DEF compare
    <3>2. Made(x, l, r) = balance_tree(set_height(Replace(x, p, replace, callback)))
      BY <3>1 DEF Rebalanced
    <3>3. set_height(Replace(x, p, replace, callback)) = Joined(x.left_child, k(x), x.right_child)
      BY NodeWritten DEF Replace, Chosen
    <3> HIDE DEF Made, k
    <3> QED  BY <2>1, <2>3, <2>6, <3>2, <3>3
  <2> QED  BY <2>1, <2>4, <2>5, <2>6
<1>2. b \in V
  <2>1. NewNode(p) \in AnyTree
    BY TreesAreForest DEF Forest, NewNode
  <2> QED  BY <2>1, TreesAreForest DEF AddLeaf
<1>3. step \in Steps(V)
  <2> HIDE DEF Made
  <2> QED  BY <1>1 DEF Steps
<1>4. \A x \in Tree : insert_node(x, p, replace, callback) = (CHOOSE f : f = Body(f))[x]
  BY DEF insert_node
<1> HIDE DEF Made, b
<1>5. ASSUME NEW x \in AnyNode, NEW l \in V, NEW r \in V
      PROVE  step[<<x, l, r>>] = Made(x, l, r)
  OBVIOUS
<1> HIDE DEF step, V, Body, Insert, k
<1>p. PICK g \in Recursions(V, b, step) : TRUE
  BY <1>2, <1>3, TreeFunction
<1>6. /\ g \in [Tree -> V] /\ g[NULL] = b
      /\ \A x \in Node : g[x] = step[<<x, g[x.left_child], g[x.right_child]>>]
  BY <1>p DEF Recursions
<1>7. g = Body(g)
  <2> USE DEF Body
  <2>1. \A x \in Node : g[x] = Made(x, g[x.left_child], g[x.right_child])
    <3>1. ASSUME NEW x \in Node
          PROVE  g[x] = Made(x, g[x.left_child], g[x.right_child])
      <4>1. x \in AnyNode /\ g[x.left_child] \in V /\ g[x.right_child] \in V
        BY <1>6, TreeParts DEF Node
      <4> QED  BY <1>5, <1>6, <4>1
    <3> QED  BY <3>1
  <2> QED  BY <1>6, <2>1 DEF Node
<1> DEFINE F == CHOOSE f : f = Body(f)
<1>8. F = Body(F)
  <2> HIDE DEF Body
  <2> QED  BY <1>7
<1> HIDE DEF F
<1> USE DEF Body
<1>9. F[NULL] = b /\ \A x \in Node : F[x] = Made(x, F[x.left_child], F[x.right_child])
  BY <1>8, TreeParts DEF Node
<1> HIDE DEF Body
<1>10. \A x \in Tree : F[x] \in AnyTree
  <2> DEFINE S == {x \in Tree : F[x] \in AnyTree}
  <2>1. NULL \in S
    BY <1>2, <1>9, TreeParts DEF V
  <2>2. ASSUME NEW x \in Node, x.left_child \in S, x.right_child \in S
        PROVE  x \in S
    BY <1>1, <1>9, <2>2, TreeParts DEF Node
  <2>3. Tree \in SUBSET S
    <3> HIDE DEF S
    <3> QED  BY <2>1, <2>2, InTree
  <2> QED  BY <2>3
<1>11. \A x \in Tree : Insert(x) = F[x]
  BY <1>4 DEF F, Insert
<1> HIDE DEF Insert, k
<1>12. ASSUME NEW x \in Node
       PROVE  /\ KeyOf[p] < KeyOf[x.key] =>
                   Insert(x) = balance_tree(Joined(Insert(x.left_child), x.key, x.right_child))
              /\ KeyOf[p] > KeyOf[x.key] =>
                   Insert(x) = balance_tree(Joined(x.left_child, x.key, Insert(x.right_child)))
              /\ KeyOf[p] = KeyOf[x.key] =>
                   Insert(x) = balance_tree(Joined(x.left_child, k(x), x.right_child))
  <2>1. x \in AnyNode /\ x \in Tree /\ x.left_child \in Tree /\ x.right_child \in Tree
    BY TreeParts DEF Node
  <2>2. F[x] = Made(x, F[x.left_child], F[x.right_child])
    BY <1>9
  <2> QED  BY <1>1, <1>10, <1>11, <2>1, <2>2
<1>13. Insert(NULL) = b
  BY <1>9, <1>11, TreeParts
<1>14. \A x \in Tree : Insert(x) \in AnyTree
  BY <1>10, <1>11
<1> QED  BY <1>12, <1>13, <1>14 DEF Insert, k, b, InsertSteps


-----------------------------------------------------------------------------
(***************************************************************************)
(* The ends of a tree, and lookup.                                         *)
(***************************************************************************)
\* The greatest payload of a search tree is at the right end, the least at the left.
LEMMA FindMaxIs ==
  \A x \in Node :
    find_max_payload[x] = IF x.right_child = NULL THEN x.key ELSE find_max_payload[x.right_child]
<1> DEFINE V == Payload \cup {NULL}
           b == NULL
           step == [z \in AnyNode \X V \X V |-> IF z[1].right_child = NULL THEN z[1].key ELSE z[3]]
           Body(f) == [node \in Node |-> IF node.right_child = NULL THEN node.key
                                         ELSE f[node.right_child]]
<1>1. b \in V /\ step \in Steps(V)
  BY NodeIs DEF Steps
<1>2. ASSUME NEW x \in AnyNode, NEW l \in V, NEW r \in V
      PROVE  step[<<x, l, r>>] = IF x.right_child = NULL THEN x.key ELSE r
  OBVIOUS
<1> HIDE DEF step, V, b
<1>3. PICK g \in Recursions(V, b, step) : TRUE
  BY <1>1, TreeFunction
<1>4. ASSUME NEW x \in Node
      PROVE  /\ g[x] = IF x.right_child = NULL THEN x.key ELSE g[x.right_child]
             /\ x.right_child # NULL => x.right_child \in Node
  <2>1. x \in AnyNode /\ g[x.left_child] \in V /\ g[x.right_child] \in V
        /\ g[x] = step[<<x, g[x.left_child], g[x.right_child]>>]
    BY <1>3, TreeParts DEF Node, Recursions
  <2>2. x.right_child # NULL => x.right_child \in Node
    BY TreeParts DEF Node
  <2> QED  BY <1>2, <2>1, <2>2
<1>5. find_max_payload = CHOOSE f : f = Body(f)
  BY DEF find_max_payload
<1>6. [x \in Node |-> g[x]] = Body([x \in Node |-> g[x]])
  BY <1>4
<1>7. find_max_payload = Body(find_max_payload)
  <2> HIDE DEF Body
  <2> QED  BY <1>5, <1>6
<1> QED  BY <1>7

\* The least is found the same way.
LEMMA FindMinIs ==
  \A x \in Node :
    find_min_payload[x] = IF x.left_child = NULL THEN x.key ELSE find_min_payload[x.left_child]
<1> DEFINE V == Payload \cup {NULL}
           b == NULL
           step == [z \in AnyNode \X V \X V |-> IF z[1].left_child = NULL THEN z[1].key ELSE z[2]]
           Body(f) == [node \in Node |-> IF node.left_child = NULL THEN node.key
                                         ELSE f[node.left_child]]
<1>1. b \in V /\ step \in Steps(V)
  BY NodeIs DEF Steps
<1>2. ASSUME NEW x \in AnyNode, NEW l \in V, NEW r \in V
      PROVE  step[<<x, l, r>>] = IF x.left_child = NULL THEN x.key ELSE l
  OBVIOUS
<1> HIDE DEF step, V, b
<1>3. PICK g \in Recursions(V, b, step) : TRUE
  BY <1>1, TreeFunction
<1>4. ASSUME NEW x \in Node
      PROVE  /\ g[x] = IF x.left_child = NULL THEN x.key ELSE g[x.left_child]
             /\ x.left_child # NULL => x.left_child \in Node
  <2>1. x \in AnyNode /\ g[x.left_child] \in V /\ g[x.right_child] \in V
        /\ g[x] = step[<<x, g[x.left_child], g[x.right_child]>>]
    BY <1>3, TreeParts DEF Node, Recursions
  <2>2. x.left_child # NULL => x.left_child \in Node
    BY TreeParts DEF Node
  <2> QED  BY <1>2, <2>1, <2>2
<1>5. find_min_payload = CHOOSE f : f = Body(f)
  BY DEF find_min_payload
<1>6. [x \in Node |-> g[x]] = Body([x \in Node |-> g[x]])
  BY <1>4
<1>7. find_min_payload = Body(find_min_payload)
  <2> HIDE DEF Body
  <2> QED  BY <1>5, <1>6
<1> QED  BY <1>7

\* Keys are integers.
LEMMA KeysAre == /\ \A x \in AnyTree : held[x] \in SUBSET Payload
                 /\ \A p \in Payload : KeyOf[p] \in Int
  BY HeldIs, AVLTreeAssumption DEF IsHeld

\* find_max_payload gives the payload of a search tree that has the greatest key.
LEMMA MaxHeld ==
  ASSUME NEW x \in Node, x \in Ordered
  PROVE  /\ find_max_payload[x] \in held[x]
         /\ \A p \in held[x] \ {find_max_payload[x]} : KeyOf[p] < KeyOf[find_max_payload[x]]
<1> DEFINE Greatest(y) == /\ find_max_payload[y] \in held[y]
                          /\ \A p \in held[y] \ {find_max_payload[y]} :
                               KeyOf[p] < KeyOf[find_max_payload[y]]
           S == {NULL} \cup {y \in Node : y \in Ordered => Greatest(y)}
<1>1. ASSUME NEW y \in Node, y.left_child \in S, y.right_child \in S
      PROVE  y \in S
  <2> SUFFICES ASSUME y \in Ordered PROVE Greatest(y)
    OBVIOUS
  <2> DEFINE r == y.right_child
             m == find_max_payload[r]
  <2>1. y \in AnyNode
    BY TreeParts DEF Node
  <2>2. /\ r \in Ordered /\ held[y] = {y.key} \cup held[y.left_child] \cup held[r]
        /\ Between(held[y.left_child], y.key, held[r])
        /\ y.key \in Payload /\ y.left_child \in AnyTree /\ r \in AnyTree
    BY <2>1, NodeIs, OrderedIs
  <2>3. CASE r = NULL
    <3>1. held[r] = {} /\ find_max_payload[y] = y.key
      BY <2>3, FindMaxIs, HeldIs DEF IsHeld
    <3> QED  BY <2>2, <3>1 DEF Between
  <2>4. CASE r # NULL
    <3>1. find_max_payload[y] = m /\ Greatest(r)
      BY <1>1, <2>2, <2>4, FindMaxIs
    <3> HIDE DEF m, r
    <3>2. m \in held[r] /\ \A p \in held[r] \ {m} : KeyOf[p] < KeyOf[m]
      BY <3>1 DEF m
    <3>3. m \in held[y] /\ KeyOf[y.key] < KeyOf[m]
      BY <2>2, <3>2 DEF Between
    <3>4. KeyOf[m] \in Int /\ KeyOf[y.key] \in Int
      BY <2>2, <3>2, KeysAre
    <3>5. ASSUME NEW p \in held[y], p # m
          PROVE  KeyOf[p] < KeyOf[m]
      <4>1. KeyOf[p] \in Int
        BY <2>1, NodeIs, KeysAre
      <4>2. p = y.key \/ p \in held[y.left_child] \/ p \in held[r]
        BY <2>2
      <4>3. p \in held[y.left_child] => KeyOf[p] < KeyOf[y.key]
        BY <2>2 DEF Between
      <4> QED  BY <3>2, <3>3, <3>4, <3>5, <4>1, <4>2, <4>3
    <3> QED  BY <3>1, <3>3, <3>5
  <2> QED  BY <2>3, <2>4
<1>2. Tree \in SUBSET S
  <2>1. NULL \in S
    OBVIOUS
  <2> HIDE DEF S
  <2> QED  BY <1>1, <2>1, InTree
<1>3. x \in Tree /\ x # NULL
  BY TreeParts DEF Node
<1> QED  BY <1>2, <1>3

\* find_min_payload gives the one that has the least.
LEMMA MinHeld ==
  ASSUME NEW x \in Node, x \in Ordered
  PROVE  /\ find_min_payload[x] \in held[x]
         /\ \A p \in held[x] \ {find_min_payload[x]} : KeyOf[find_min_payload[x]] < KeyOf[p]
<1> DEFINE Least(y) == /\ find_min_payload[y] \in held[y]
                       /\ \A p \in held[y] \ {find_min_payload[y]} :
                            KeyOf[find_min_payload[y]] < KeyOf[p]
           S == {NULL} \cup {y \in Node : y \in Ordered => Least(y)}
<1>1. ASSUME NEW y \in Node, y.left_child \in S, y.right_child \in S
      PROVE  y \in S
  <2> SUFFICES ASSUME y \in Ordered PROVE Least(y)
    OBVIOUS
  <2> DEFINE l == y.left_child
             m == find_min_payload[l]
  <2>1. y \in AnyNode
    BY TreeParts DEF Node
  <2>2. /\ l \in Ordered /\ held[y] = {y.key} \cup held[l] \cup held[y.right_child]
        /\ Between(held[l], y.key, held[y.right_child])
        /\ y.key \in Payload /\ l \in AnyTree /\ y.right_child \in AnyTree
    BY <2>1, NodeIs, OrderedIs
  <2>3. CASE l = NULL
    <3>1. held[l] = {} /\ find_min_payload[y] = y.key
      BY <2>3, FindMinIs, HeldIs DEF IsHeld
    <3> QED  BY <2>2, <3>1 DEF Between
  <2>4. CASE l # NULL
    <3>1. find_min_payload[y] = m /\ Least(l)
      BY <1>1, <2>2, <2>4, FindMinIs
    <3> HIDE DEF m, l
    <3>2. m \in held[l] /\ \A p \in held[l] \ {m} : KeyOf[m] < KeyOf[p]
      BY <3>1 DEF m
    <3>3. m \in held[y] /\ KeyOf[m] < KeyOf[y.key]
      BY <2>2, <3>2 DEF Between
    <3>4. KeyOf[m] \in Int /\ KeyOf[y.key] \in Int
      BY <2>2, <3>2, KeysAre
    <3>5. ASSUME NEW p \in held[y], p # m
          PROVE  KeyOf[m] < KeyOf[p]
      <4>1. KeyOf[p] \in Int
        BY <2>1, NodeIs, KeysAre
      <4>2. p = y.key \/ p \in held[y.right_child] \/ p \in held[l]
        BY <2>2
      <4>3. p \in held[y.right_child] => KeyOf[y.key] < KeyOf[p]
        BY <2>2 DEF Between
      <4> QED  BY <3>2, <3>3, <3>4, <3>5, <4>1, <4>2, <4>3
    <3> QED  BY <3>1, <3>3, <3>5
  <2> QED  BY <2>3, <2>4
<1>2. Tree \in SUBSET S
  <2>1. NULL \in S
    OBVIOUS
  <2> HIDE DEF S
  <2> QED  BY <1>1, <2>1, InTree
<1>3. x \in Tree /\ x # NULL
  BY TreeParts DEF Node
<1> QED  BY <1>2, <1>3

\* Lookup descends one side of every node.
LEMMA GetIs ==
  ASSUME NEW p \in Payload
  PROVE  /\ get_node(NULL, p) = NULL
         /\ \A x \in Node :
              /\ KeyOf[p] < KeyOf[x.key] => get_node(x, p) = get_node(x.left_child, p)
              /\ KeyOf[p] > KeyOf[x.key] => get_node(x, p) = get_node(x.right_child, p)
              /\ KeyOf[p] = KeyOf[x.key] => get_node(x, p) = x.key
<1> DEFINE Made(x, l, r) == CASE compare(x.key, p) = "BST_EQ" -> x.key
                              [] compare(x.key, p) = "BST_LT" -> l
                              [] OTHER -> r
           V == Payload \cup {NULL}
           b == NULL
           step == [z \in AnyNode \X V \X V |-> Made(z[1], z[2], z[3])]
           Body(f) == [node \in Tree |-> IF node = NULL THEN NULL
                         ELSE Made(node, f[node.left_child], f[node.right_child])]
<1>1. ASSUME NEW x \in AnyNode, NEW l, NEW r
      PROVE  /\ KeyOf[p] < KeyOf[x.key] => Made(x, l, r) = l
             /\ KeyOf[p] > KeyOf[x.key] => Made(x, l, r) = r
             /\ KeyOf[p] = KeyOf[x.key] => Made(x, l, r) = x.key
             /\ x.key \in Payload /\ (Made(x, l, r) = l \/ Made(x, l, r) = r \/ Made(x, l, r) = x.key)
  <2>1. KeyOf[p] \in Int /\ KeyOf[x.key] \in Int /\ x.key \in Payload
    BY NodeIs, KeysAre
  <2>2. CASE KeyOf[p] < KeyOf[x.key]
    <3>1. compare(x.key, p) = "BST_LT"
      BY <2>1, <2>2 DEF compare
    <3> QED  BY <2>1, <2>2, <3>1
  <2>3. CASE KeyOf[p] > KeyOf[x.key]
    <3>1. compare(x.key, p) = "BST_GT"
      BY <2>1, <2>3 DEF compare
    <3> QED  BY <2>1, <2>3, <3>1
  <2>4. CASE KeyOf[p] = KeyOf[x.key]
    <3>1. compare(x.key, p) = "BST_EQ"
      BY <2>1, <2>4 DEF compare
    <3> QED  BY <2>1, <2>4, <3>1
  <2> HIDE DEF Made
  <2> QED  BY <2>1, <2>2, <2>3, <2>4
<1>2. \A x \in Tree : get_node(x, p) = (CHOOSE f : f = Body(f))[x]
  BY DEF get_node
<1> HIDE DEF Made
<1>3. b \in V /\ step \in Steps(V)
  BY <1>1 DEF Steps
<1>4. ASSUME NEW x \in AnyNode, NEW l \in V, NEW r \in V
      PROVE  step[<<x, l, r>>] = Made(x, l, r)
  OBVIOUS
<1> HIDE DEF step, V
<1>5. PICK g \in Recursions(V, b, step) : TRUE
  <2> HIDE DEF b
  <2> QED  BY <1>3, TreeFunction
<1>6. g = Body(g)
  <2>1. ASSUME NEW x \in Node
        PROVE  g[x] = Made(x, g[x.left_child], g[x.right_child])
    <3>1. x \in AnyNode /\ g[x.left_child] \in V /\ g[x.right_child] \in V
          /\ g[x] = step[<<x, g[x.left_child], g[x.right_child]>>]
      BY <1>5, TreeParts DEF Node, Recursions
    <3> QED  BY <1>4, <3>1
  <2> QED  BY <1>5, <2>1 DEF Node, Recursions
<1> DEFINE F == CHOOSE f : f = Body(f)
<1>7. F = Body(F)
  <2> HIDE DEF Body
  <2> QED  BY <1>6
<1>8. \A x \in Tree : get_node(x, p) = F[x]
  <2> HIDE DEF Body
  <2> QED  BY <1>2
<1> HIDE DEF F
<1>9. F[NULL] = NULL /\ \A x \in Node : F[x] = Made(x, F[x.left_child], F[x.right_child])
  BY <1>7, TreeParts DEF Node
<1>10. get_node(NULL, p) = NULL
  BY <1>8, <1>9, TreeParts
<1>11. ASSUME NEW x \in Node
       PROVE  /\ KeyOf[p] < KeyOf[x.key] => get_node(x, p) = get_node(x.left_child, p)
              /\ KeyOf[p] > KeyOf[x.key] => get_node(x, p) = get_node(x.right_child, p)
              /\ KeyOf[p] = KeyOf[x.key] => get_node(x, p) = x.key
  <2>1. x \in AnyNode /\ x \in Tree /\ x.left_child \in Tree /\ x.right_child \in Tree
    BY TreeParts DEF Node
  <2>2. get_node(x, p) = Made(x, get_node(x.left_child, p), get_node(x.right_child, p))
    BY <1>8, <1>9, <2>1
  <2> QED  BY <1>1, <2>1, <2>2
<1> QED  BY <1>10, <1>11

\* The payloads that have the key of p.
Same(H, p) == {q \in H : KeyOf[q] = KeyOf[p]}

\* A node's side that may have the key of p is the one lookup takes.
LEMMA SameSide ==
  ASSUME NEW x \in AnyNode, x \in Ordered, NEW p \in Payload
  PROVE  /\ KeyOf[p] < KeyOf[x.key] => Same(held[x], p) = Same(held[x.left_child], p)
         /\ KeyOf[p] > KeyOf[x.key] => Same(held[x], p) = Same(held[x.right_child], p)
         /\ KeyOf[p] = KeyOf[x.key] => Same(held[x], p) = {x.key}
         /\ KeyOf[p] < KeyOf[x.key] \/ KeyOf[p] > KeyOf[x.key] \/ KeyOf[p] = KeyOf[x.key]
<1> DEFINE L == held[x.left_child]
           R == held[x.right_child]
           k == x.key
<1>1. k \in Payload /\ held[x] = {k} \cup L \cup R /\ L \in SUBSET Payload /\ R \in SUBSET Payload
  BY NodeIs, KeysAre
<1>2. /\ \A q \in L : KeyOf[q] < KeyOf[k]
      /\ \A q \in R : KeyOf[k] < KeyOf[q]
  BY OrderedIs DEF Between
<1>3. KeyOf[p] \in Int /\ KeyOf[k] \in Int
  BY <1>1, KeysAre
<1>4. \A q \in Payload : KeyOf[q] \in Int
  BY KeysAre
<1> HIDE DEF L, R, k
<1>5. ASSUME KeyOf[p] < KeyOf[k] PROVE Same(held[x], p) = Same(L, p)
  <2>1. \A q \in {k} \cup R : KeyOf[q] # KeyOf[p]
    BY <1>1, <1>2, <1>3, <1>4, <1>5
  <2> QED  BY <1>1, <2>1 DEF Same
<1>6. ASSUME KeyOf[p] > KeyOf[k] PROVE Same(held[x], p) = Same(R, p)
  <2>1. \A q \in {k} \cup L : KeyOf[q] # KeyOf[p]
    BY <1>1, <1>2, <1>3, <1>4, <1>6
  <2> QED  BY <1>1, <2>1 DEF Same
<1>7. ASSUME KeyOf[p] = KeyOf[k] PROVE Same(held[x], p) = {k}
  <2>1. \A q \in L \cup R : KeyOf[q] # KeyOf[p]
    BY <1>1, <1>2, <1>3, <1>4, <1>7
  <2> QED  BY <1>1, <1>7, <2>1 DEF Same
<1> QED  BY <1>3, <1>5, <1>6, <1>7 DEF L, R, k

\* bst_get_node gives back the payload that has the key, or NULL.
LEMMA GetFinds ==
  ASSUME NEW x \in Tree, x \in Ordered, NEW p \in Payload
  PROVE  \/ Same(held[x], p) = {} /\ get_node(x, p) = NULL
         \/ get_node(x, p) \in Payload /\ Same(held[x], p) = {get_node(x, p)}
<1> DEFINE Right(y) == \/ Same(held[y], p) = {} /\ get_node(y, p) = NULL
                       \/ get_node(y, p) \in Payload /\ Same(held[y], p) = {get_node(y, p)}
           S == {y \in Tree : y \in Ordered => Right(y)}
<1>1. NULL \in S
  <2>1. held[NULL] = {} /\ get_node(NULL, p) = NULL
    BY HeldIs, GetIs DEF IsHeld
  <2> QED  BY <2>1, TreeParts DEF Same
<1>2. ASSUME NEW y \in Node, y.left_child \in S, y.right_child \in S
      PROVE  y \in S
  <2>1. y \in AnyNode /\ y \in Tree /\ y.key \in Payload
    BY TreeParts, NodeIs DEF Node
  <2>2. SUFFICES ASSUME y \in Ordered PROVE Right(y)
    BY <2>1
  <2>3. Right(y.left_child) /\ Right(y.right_child)
    BY <1>2, <2>1, <2>2, OrderedIs
  <2>4. CASE KeyOf[p] < KeyOf[y.key]
    BY <2>1, <2>2, <2>3, <2>4, GetIs, SameSide
  <2>5. CASE KeyOf[p] > KeyOf[y.key]
    BY <2>1, <2>2, <2>3, <2>5, GetIs, SameSide
  <2>6. CASE KeyOf[p] = KeyOf[y.key]
    BY <2>1, <2>2, <2>6, GetIs, SameSide
  <2> QED  BY <2>1, <2>2, <2>4, <2>5, <2>6, SameSide
<1>3. Tree \in SUBSET S
  <2> HIDE DEF S
  <2> QED  BY <1>1, <1>2, InTree
<1> QED  BY <1>3


-----------------------------------------------------------------------------
(***************************************************************************)
(* What insert_node makes of a tree.                                       *)
(***************************************************************************)
\* What a tree holds after insert_node.
After(H, p, replace, callback) ==
  IF Same(H, p) = {} THEN IF callback = "refuses" THEN H ELSE H \cup {p}
  ELSE IF replace = "REPLACE_PAYLOAD_TRUE" /\ callback = "NULL"
       THEN (H \ Same(H, p)) \cup {p} ELSE H

\* insert_node makes a search tree in balance of one, which holds what it held and the new
\* payload, in place of the one with its key when it replaces it; no cached height is wrong
\* afterwards (bst.c:254-314).
THEOREM InsertMakes ==
  ASSUME NEW x \in Tree, x \in Ordered, x \in EvenTrees, NEW p \in Payload,
         NEW replace, NEW callback
  PROVE  LET y == insert_node(x, p, replace, callback)
         IN  /\ y \in Ordered /\ y \in EvenTrees
             /\ get_height(y) \in {get_height(x), get_height(x) + 1}
             /\ held[y] = After(held[x], p, replace, callback)
<1> DEFINE Insert(y) == insert_node(y, p, replace, callback)
           Has(y) == After(held[y], p, replace, callback)
           Done(y) == /\ Insert(y) \in Ordered /\ Insert(y) \in EvenTrees
                      /\ get_height(Insert(y)) \in {get_height(y), get_height(y) + 1}
                      /\ held[Insert(y)] = Has(y)
           S == {y \in Tree : y \in Ordered /\ y \in EvenTrees => Done(y)}
<1>i. InsertSteps(p, replace, callback)
  BY InsertIs
<1> HIDE DEF Insert
<1>0. \A H \in SUBSET Payload : \A q \in After(H, p, replace, callback) : q \in H \/ q = p
  BY DEF After
<1>1. NULL \in S
  <2>1. held[NULL] = {} /\ NULL \in AnyTree /\ get_height(NULL) = -1
    BY HeldIs, TreesAreForest DEF IsHeld, get_height
  <2>2. CASE callback = "refuses"
    <3>1. Insert(NULL) = NULL /\ Has(NULL) = {}
      BY <1>i, <2>1, <2>2 DEF InsertSteps, Insert, AddLeaf, After, Same
    <3> QED  BY <2>1, <3>1, TreeParts
  <2>3. CASE callback # "refuses"
    <3> DEFINE j == Joined(NULL, p, NULL)
    <3>1. Insert(NULL) = j /\ Has(NULL) = {p}
      <4>1. NewNode(p) = j
        BY <2>1 DEF NewNode, Joined, node_max
      <4>2. Has(NULL) = {p}
        BY <2>1, <2>3 DEF After, Same
      <4> HIDE DEF j
      <4> QED  BY <1>i, <2>3, <4>1, <4>2 DEF InsertSteps, Insert, AddLeaf
    <3>2. j \in AnyNode /\ held[j] = {p} /\ j.left_child = NULL /\ j.right_child = NULL
      BY <2>1, JoinedIs
    <3>3. j.height = 0
      BY <2>1 DEF Joined, node_max
    <3> HIDE DEF j
    <3>4. Between(held[NULL], p, held[NULL])
      BY <2>1 DEF Between
    <3>5. j \in Ordered
      BY <2>1, <3>4, JoinedIs, OrderedIs DEF j
    <3>6. Even(j) /\ get_height(j) = 0
      BY <2>1, <3>2, <3>3, NodeIs DEF Even, get_balance_factor, get_height, node_max
    <3>7. j \in EvenTrees
      BY <3>2, <3>6, EvenIs
    <3> QED  BY <2>1, <3>1, <3>2, <3>5, <3>6, <3>7, TreeParts
  <2> QED  BY <2>2, <2>3
<1>2. ASSUME NEW y \in Node, y.left_child \in S, y.right_child \in S
      PROVE  y \in S
  <2> DEFINE l == y.left_child
             r == y.right_child
             k == y.key
  <2>1. /\ y \in AnyNode /\ y \in Tree /\ k \in Payload /\ l \in AnyTree /\ r \in AnyTree
        /\ l \in Tree /\ r \in Tree /\ held[y] = {k} \cup held[l] \cup held[r]
    BY TreeParts, NodeIs DEF Node
  <2>2. SUFFICES ASSUME y \in Ordered, y \in EvenTrees PROVE Done(y)
    BY <2>1
  <2>3. /\ l \in Ordered /\ r \in Ordered /\ l \in EvenTrees /\ r \in EvenTrees
        /\ Between(held[l], k, held[r])
    BY <2>1, <2>2, OrderedIs, EvenIs
  <2>4. Done(l) /\ Done(r)
    BY <1>2, <2>3
  <2>5. /\ held[l] \in SUBSET Payload /\ held[r] \in SUBSET Payload
        /\ KeyOf[p] \in Int /\ KeyOf[k] \in Int
    BY <2>1, KeysAre
  <2>6. CASE KeyOf[p] < KeyOf[k]
    <3> DEFINE t == Insert(l)
               b == balance_tree(Joined(t, k, r))
    <3>1. Insert(y) = b
      BY <1>i, <2>6 DEF InsertSteps, Insert
    <3>2. /\ t \in Ordered /\ t \in EvenTrees /\ held[t] = Has(l) /\ t \in AnyTree
          /\ get_height(t) \in {get_height(l), get_height(l) + 1}
      BY <1>i, <2>1, <2>4 DEF InsertSteps, Insert
    <3> HIDE DEF t
    <3>3. Between(held[t], k, held[r])
      <4>1. \A q \in held[t] : q \in held[l] \/ q = p
        BY <1>0, <2>5, <3>2
      <4> QED  BY <2>3, <2>6, <4>1 DEF Between
    <3>4. b \in Ordered /\ held[b] = {k} \cup held[t] \cup held[r]
      BY <2>1, <2>3, <3>2, <3>3, RebalancedKeeps
    <3>5. b \in EvenTrees /\ get_height(b) \in {get_height(y), get_height(y) + 1}
      <4>1. get_height(r) \in {get_height(r), get_height(r) + 1}
        OBVIOUS
      <4> QED  BY <2>1, <2>2, <2>3, <3>2, <4>1, Regrown
    <3>6. held[b] = Has(y)
      <4>1. Same(held[y], p) = Same(held[l], p)
        BY <2>1, <2>2, <2>6, SameSide
      <4>2. Same(held[l], p) \cap ({k} \cup held[r]) = {}
        <5>1. \A q \in {k} \cup held[r] : KeyOf[q] # KeyOf[p]
          <6>1. \A q \in held[r] : KeyOf[q] \in Int /\ KeyOf[k] < KeyOf[q]
            BY <2>3, <2>5, KeysAre DEF Between
          <6> QED  BY <2>5, <2>6, <6>1
        <5> QED  BY <5>1 DEF Same
      <4> QED  BY <2>1, <3>2, <3>4, <4>1, <4>2 DEF After
    <3> QED  BY <3>1, <3>4, <3>5, <3>6
  <2>7. CASE KeyOf[p] > KeyOf[k]
    <3> DEFINE t == Insert(r)
               b == balance_tree(Joined(l, k, t))
    <3>1. Insert(y) = b
      BY <1>i, <2>7 DEF InsertSteps, Insert
    <3>2. /\ t \in Ordered /\ t \in EvenTrees /\ held[t] = Has(r) /\ t \in AnyTree
          /\ get_height(t) \in {get_height(r), get_height(r) + 1}
      BY <1>i, <2>1, <2>4 DEF InsertSteps, Insert
    <3> HIDE DEF t
    <3>3. Between(held[l], k, held[t])
      <4>1. \A q \in held[t] : q \in held[r] \/ q = p
        BY <1>0, <2>5, <3>2
      <4>2. KeyOf[k] < KeyOf[p]
        BY <2>5, <2>7
      <4> QED  BY <2>3, <4>1, <4>2 DEF Between
    <3>4. b \in Ordered /\ held[b] = {k} \cup held[l] \cup held[t]
      BY <2>1, <2>3, <3>2, <3>3, RebalancedKeeps
    <3>5. b \in EvenTrees /\ get_height(b) \in {get_height(y), get_height(y) + 1}
      <4>1. get_height(l) \in {get_height(l), get_height(l) + 1}
        OBVIOUS
      <4> QED  BY <2>1, <2>2, <2>3, <3>2, <4>1, Regrown
    <3>6. held[b] = Has(y)
      <4>1. Same(held[y], p) = Same(held[r], p)
        BY <2>1, <2>2, <2>7, SameSide
      <4>2. Same(held[r], p) \cap ({k} \cup held[l]) = {}
        <5>1. \A q \in {k} \cup held[l] : KeyOf[q] # KeyOf[p]
          <6>1. \A q \in held[l] : KeyOf[q] \in Int /\ KeyOf[q] < KeyOf[k]
            BY <2>3, <2>5, KeysAre DEF Between
          <6> QED  BY <2>5, <2>7, <6>1
        <5> QED  BY <5>1 DEF Same
      <4> QED  BY <2>1, <3>2, <3>4, <4>1, <4>2 DEF After
    <3> QED  BY <3>1, <3>4, <3>5, <3>6
  <2>8. CASE KeyOf[p] = KeyOf[k]
    <3> DEFINE q == Chosen(k, p, replace, callback)
               b == balance_tree(Joined(l, q, r))
    <3>1. Insert(y) = b
      BY <1>i, <2>8 DEF InsertSteps, Insert
    <3>2. q \in Payload /\ KeyOf[q] = KeyOf[k]
      BY <2>1, <2>8 DEF Chosen
    <3>3. Same(held[y], p) = {k}
      BY <2>1, <2>2, <2>8, SameSide
    <3>4. k \notin held[l] \cup held[r]
      <4>1. \A c \in held[l] \cup held[r] : KeyOf[c] # KeyOf[k]
        <5>1. \A c \in held[l] \cup held[r] : KeyOf[c] \in Int
          BY <2>5, KeysAre
        <5> QED  BY <2>3, <2>5, <5>1 DEF Between
      <4> QED  BY <4>1
    <3>5. Has(y) = {q} \cup held[l] \cup held[r]
      BY <2>1, <3>3, <3>4 DEF After, Chosen
    <3> HIDE DEF q
    <3>6. Between(held[l], q, held[r])
      BY <2>3, <3>2 DEF Between
    <3>7. b \in Ordered /\ held[b] = {q} \cup held[l] \cup held[r]
      BY <2>1, <2>3, <3>2, <3>6, RebalancedKeeps
    <3>8. b \in EvenTrees /\ get_height(b) \in {get_height(y), get_height(y) + 1}
      <4>1. /\ get_height(l) \in {get_height(l), get_height(l) + 1}
            /\ get_height(r) \in {get_height(r), get_height(r) + 1}
        OBVIOUS
      <4> QED  BY <2>1, <2>2, <2>3, <3>2, <4>1, Regrown
    <3> QED  BY <3>1, <3>5, <3>7, <3>8
  <2> QED  BY <2>5, <2>6, <2>7, <2>8
<1>3. Tree \in SUBSET S
  <2> HIDE DEF S
  <2> QED  BY <1>1, <1>2, InTree
<1>4. Done(x)
  BY <1>3
<1> QED  BY <1>4 DEF Insert


-----------------------------------------------------------------------------
(***************************************************************************)
(* remove_node.                                                            *)
(***************************************************************************)
\* find_max_payload and find_min_payload give a payload of any tree, in order or not.
LEMMA EndsAre ==
  \A x \in Node : find_max_payload[x] \in Payload /\ find_min_payload[x] \in Payload
<1> DEFINE S == {NULL} \cup {y \in Node : find_max_payload[y] \in Payload /\ find_min_payload[y] \in Payload}
<1>1. ASSUME NEW y \in Node, y.left_child \in S, y.right_child \in S
      PROVE  y \in S
  <2>1. y.key \in Payload
    BY TreeParts, NodeIs DEF Node
  <2> QED  BY <1>1, <2>1, FindMaxIs, FindMinIs
<1>2. Tree \in SUBSET S
  <2>1. NULL \in S
    OBVIOUS
  <2> HIDE DEF S
  <2> QED  BY <1>1, <2>1, InTree
<1> QED  BY <1>2 DEF Node

\* What remove_node returns, one call at a time.
RemoveSteps ==
  LET Taking(x, p) == remove_node[x][p]
  IN  /\ \A p \in Payload : Taking(NULL, p) = NULL
      /\ \A x \in Tree, p \in Payload : Taking(x, p) \in AnyTree
      /\ \A x \in Node, p \in Payload :
           /\ KeyOf[p] < KeyOf[x.key] =>
                Taking(x, p) = balance_tree(Joined(Taking(x.left_child, p), x.key, x.right_child))
           /\ KeyOf[p] > KeyOf[x.key] =>
                Taking(x, p) = balance_tree(Joined(x.left_child, x.key, Taking(x.right_child, p)))
           /\ KeyOf[p] = KeyOf[x.key] =>
                /\ x.right_child = NULL => Taking(x, p) = x.left_child
                /\ x.right_child # NULL /\ x.left_child = NULL => Taking(x, p) = x.right_child
                /\ x.right_child # NULL /\ x.left_child # NULL =>
                     LET q == find_max_payload[x.left_child]
                         m == find_min_payload[x.right_child]
                     IN  \/ Taking(x, p) = balance_tree(Joined(Taking(x.left_child, q), q,
                                                               x.right_child))
                         \/ Taking(x, p) = balance_tree(Joined(x.left_child, m,
                                                               Taking(x.right_child, m)))

\* remove_node does.
LEMMA RemoveIs == RemoveSteps
<1> DEFINE V == [Payload -> AnyTree]
           OnLeft(x, l, p) == [x EXCEPT !.left_child = l[p]]
           OnRight(x, r, p) == [x EXCEPT !.right_child = r[p]]
           Promoted(x, l, r) ==
             Rebalanced(IF x.left_child.height > x.right_child.height
                        THEN [OnLeft(x, l, PromotedFromLeft(x)) EXCEPT !.key = PromotedFromLeft(x)]
                        ELSE [OnRight(x, r, find_min_payload[x.right_child])
                                EXCEPT !.key = find_min_payload[x.right_child]])
           Made(x, p, l, r) ==
             CASE compare(x.key, p) = "BST_LT" -> Rebalanced(OnLeft(x, l, p))
               [] compare(x.key, p) = "BST_GT" -> Rebalanced(OnRight(x, r, p))
               [] OTHER ->
                    CASE x.right_child = NULL -> x.left_child
                      [] x.right_child # NULL /\ x.left_child = NULL -> x.right_child
                      [] OTHER -> Promoted(x, l, r)
           Body(f) == [node \in Tree |-> [payload \in Payload |->
                         IF node = NULL THEN NULL
                         ELSE Made(node, payload, f[node.left_child], f[node.right_child])]]
           b == [payload \in Payload |-> NULL]
           step == [z \in AnyNode \X V \X V |-> [payload \in Payload |->
                      IF z[1] \in Node THEN Made(z[1], payload, z[2], z[3]) ELSE NULL]]
<1>0. remove_node = CHOOSE f : f = Body(f)
  BY DEF remove_node
<1>1. ASSUME NEW x \in Node, NEW l \in V, NEW r \in V,
             x.left_child # NULL, x.right_child # NULL
      PROVE  LET q == find_max_payload[x.left_child]
                 m == find_min_payload[x.right_child]
             IN  \/ /\ Promoted(x, l, r) = balance_tree(Joined(l[q], q, x.right_child))
                    /\ balance_tree(Joined(l[q], q, x.right_child)) \in AnyTree
                 \/ /\ Promoted(x, l, r) = balance_tree(Joined(x.left_child, m, r[m]))
                    /\ balance_tree(Joined(x.left_child, m, r[m])) \in AnyTree
  <2> DEFINE q == find_max_payload[x.left_child]
             m == find_min_payload[x.right_child]
             y == OnLeft(x, l, q)
             z == OnRight(x, r, m)
  <2>1. x \in AnyNode /\ x.left_child \in Node /\ x.right_child \in Node
    BY <1>1, TreeParts DEF Node
  <2>2. q \in Payload /\ m \in Payload
    BY <2>1, EndsAre
  <2>3. l[q] \in AnyTree /\ r[m] \in AnyTree
    BY <2>2
  <2>4. Promoted(x, l, r) = IF x.left_child.height > x.right_child.height
                            THEN Rebalanced([y EXCEPT !.key = q]) ELSE Rebalanced([z EXCEPT !.key = m])
    BY DEF PromotedFromLeft
  <2> HIDE DEF q, m, Promoted
  <2>5. y \in AnyNode /\ y.right_child = x.right_child /\ y.left_child = l[q]
    <3>1. y \in AnyNode /\ set_height(y) = Joined(l[q], x.key, x.right_child)
      BY <2>1, <2>3, NodeWritten
    <3> QED  BY <2>1, <3>1, TreesAreForest DEF Forest
  <2>6. z \in AnyNode /\ z.left_child = x.left_child /\ z.right_child = r[m]
    <3>1. z \in AnyNode /\ set_height(z) = Joined(x.left_child, x.key, r[m])
      BY <2>1, <2>3, NodeWritten
    <3> QED  BY <2>1, <3>1, TreesAreForest DEF Forest
  <2> HIDE DEF y, z
  <2>7. Rebalanced([y EXCEPT !.key = q]) = balance_tree(Joined(l[q], q, x.right_child))
    BY <2>2, <2>5, NodeWritten DEF Rebalanced
  <2>8. Rebalanced([z EXCEPT !.key = m]) = balance_tree(Joined(x.left_child, m, r[m]))
    BY <2>2, <2>6, NodeWritten DEF Rebalanced
  <2>9. /\ balance_tree(Joined(l[q], q, x.right_child)) \in AnyTree
        /\ balance_tree(Joined(x.left_child, m, r[m])) \in AnyTree
    BY <2>1, <2>2, <2>3, RebalancedKeeps, NodeIs
  <2> QED  BY <2>4, <2>7, <2>8, <2>9 DEF q, m
<1> HIDE DEF Promoted
<1>2. ASSUME NEW x \in Node, NEW p \in Payload, NEW l \in V, NEW r \in V
      PROVE  /\ Made(x, p, l, r) \in AnyTree
             /\ KeyOf[p] < KeyOf[x.key] =>
                  Made(x, p, l, r) = balance_tree(Joined(l[p], x.key, x.right_child))
             /\ KeyOf[p] > KeyOf[x.key] =>
                  Made(x, p, l, r) = balance_tree(Joined(x.left_child, x.key, r[p]))
             /\ KeyOf[p] = KeyOf[x.key] =>
                  /\ x.right_child = NULL => Made(x, p, l, r) = x.left_child
                  /\ x.right_child # NULL /\ x.left_child = NULL => Made(x, p, l, r) = x.right_child
                  /\ x.right_child # NULL /\ x.left_child # NULL => Made(x, p, l, r) = Promoted(x, l, r)
  <2>1. x \in AnyNode
    BY TreeParts DEF Node
  <2>2. /\ KeyOf[p] \in Int /\ KeyOf[x.key] \in Int /\ x.key \in Payload
        /\ x.left_child \in AnyTree /\ x.right_child \in AnyTree /\ l[p] \in AnyTree /\ r[p] \in AnyTree
    BY <2>1, NodeIs, KeysAre
  <2>3. CASE KeyOf[p] < KeyOf[x.key]
    <3>1. compare(x.key, p) = "BST_LT"
      BY <2>2, <2>3 DEF compare
    <3>2. Made(x, p, l, r) = balance_tree(set_height(OnLeft(x, l, p)))
      BY <3>1 DEF Rebalanced
    <3> HIDE DEF Made
    <3>3. Made(x, p, l, r) = balance_tree(Joined(l[p], x.key, x.right_child))
      BY <2>1, <2>2, <3>2, NodeWritten
    <3>4. balance_tree(Joined(l[p], x.key, x.right_child)) \in AnyTree
      BY <2>2, RebalancedKeeps, NodeIs
    <3> QED  BY <2>2, <2>3, <3>3, <3>4
  <2>4. CASE KeyOf[p] > KeyOf[x.key]
    <3>1. compare(x.key, p) = "BST_GT"
      BY <2>2, <2>4 DEF compare
    <3>2. Made(x, p, l, r) = balance_tree(set_height(OnRight(x, r, p)))
      BY <3>1 DEF Rebalanced
    <3> HIDE DEF Made
    <3>3. Made(x, p, l, r) = balance_tree(Joined(x.left_child, x.key, r[p]))
      BY <2>1, <2>2, <3>2, NodeWritten
    <3>4. balance_tree(Joined(x.left_child, x.key, r[p])) \in AnyTree
      BY <2>2, RebalancedKeeps, NodeIs
    <3> QED  BY <2>2, <2>4, <3>3, <3>4
  <2>5. CASE KeyOf[p] = KeyOf[x.key]
    <3>1. compare(x.key, p) = "BST_EQ"
      BY <2>2, <2>5 DEF compare
    <3>2. Made(x, p, l, r) = CASE x.right_child = NULL -> x.left_child
                               [] x.right_child # NULL /\ x.left_child = NULL -> x.right_child
                               [] OTHER -> Promoted(x, l, r)
      BY <3>1
    <3> HIDE DEF Made
    <3>3. x.right_child # NULL /\ x.left_child # NULL => Promoted(x, l, r) \in AnyTree
      BY <1>1
    <3> QED  BY <2>2, <2>5, <3>2, <3>3
  <2> HIDE DEF Made
  <2> QED  BY <2>2, <2>3, <2>4, <2>5
<1> HIDE DEF Made
<1>3. b \in V
  BY TreesAreForest
<1>4. step \in Steps(V)
  <2>1. ASSUME NEW x \in AnyNode, NEW l \in V, NEW r \in V
        PROVE  [payload \in Payload |-> IF x \in Node THEN Made(x, payload, l, r) ELSE NULL] \in V
    BY <1>2, TreesAreForest
  <2> QED  BY <2>1 DEF Steps
<1>5. ASSUME NEW x \in Node, NEW l \in V, NEW r \in V
      PROVE  step[<<x, l, r>>] = [payload \in Payload |-> Made(x, payload, l, r)]
  <2>1. x \in AnyNode
    BY TreeParts DEF Node
  <2> QED  BY <2>1
<1> HIDE DEF step
<1>6. PICK g \in Recursions(V, b, step) : TRUE
  <2> HIDE DEF V, b
  <2> QED  BY <1>3, <1>4, TreeFunction
<1>7. g \in [Tree -> V] /\ g[NULL] = b
  BY <1>6 DEF Recursions
<1>8. ASSUME NEW x \in Node
      PROVE  g[x] = [payload \in Payload |-> Made(x, payload, g[x.left_child], g[x.right_child])]
  <2>1. g[x.left_child] \in V /\ g[x.right_child] \in V
    BY <1>7, TreeParts DEF Node
  <2>2. g[x] = step[<<x, g[x.left_child], g[x.right_child]>>]
    BY <1>6 DEF Recursions
  <2> QED  BY <1>5, <2>1, <2>2
<1>9. g = Body(g)
  <2>1. ASSUME NEW x \in Tree
        PROVE  g[x] = [payload \in Payload |-> IF x = NULL THEN NULL
                         ELSE Made(x, payload, g[x.left_child], g[x.right_child])]
    <3>1. CASE x = NULL
      BY <1>7, <3>1
    <3>2. CASE x # NULL
      BY <1>8, <3>2 DEF Node
    <3> QED  BY <3>1, <3>2
  <2> HIDE DEF b, V
  <2> QED  BY <1>7, <2>1
<1>10. remove_node = Body(remove_node)
  <2> HIDE DEF Body
  <2> QED  BY <1>0, <1>9
<1>11. /\ \A p \in Payload : remove_node[NULL][p] = NULL
       /\ \A x \in Node, p \in Payload :
            remove_node[x][p] = Made(x, p, remove_node[x.left_child], remove_node[x.right_child])
       /\ \A x \in Tree : DOMAIN remove_node[x] = Payload
                          /\ remove_node[x] = [p \in Payload |-> remove_node[x][p]]
  <2>1. ASSUME NEW x \in Tree
        PROVE  remove_node[x] = [payload \in Payload |-> IF x = NULL THEN NULL
                 ELSE Made(x, payload, remove_node[x.left_child], remove_node[x.right_child])]
    BY <1>10
  <2>2. \A p \in Payload : remove_node[NULL][p] = NULL
    BY <2>1, TreeParts
  <2>3. ASSUME NEW x \in Node, NEW p \in Payload
        PROVE  remove_node[x][p] = Made(x, p, remove_node[x.left_child], remove_node[x.right_child])
    BY <2>1 DEF Node
  <2>4. ASSUME NEW x \in Tree
        PROVE  DOMAIN remove_node[x] = Payload
               /\ remove_node[x] = [p \in Payload |-> remove_node[x][p]]
    BY <2>1
  <2> QED  BY <2>2, <2>3, <2>4
<1>12. \A x \in Tree : remove_node[x] \in V
  <2> DEFINE S == {x \in Tree : remove_node[x] \in V}
  <2>1. NULL \in S
    BY <1>11, TreeParts, TreesAreForest
  <2>2. ASSUME NEW x \in Node, x.left_child \in S, x.right_child \in S
        PROVE  x \in S
    <3>1. x \in Tree /\ remove_node[x.left_child] \in V /\ remove_node[x.right_child] \in V
      BY <2>2, TreeParts DEF Node
    <3>2. \A p \in Payload : remove_node[x][p] \in AnyTree
      BY <1>2, <1>11, <3>1
    <3> QED  BY <1>11, <3>1, <3>2
  <2>3. Tree \in SUBSET S
    <3> HIDE DEF S
    <3> QED  BY <2>1, <2>2, InTree
  <2> QED  BY <2>3
<1>13. \A x \in Tree, p \in Payload : remove_node[x][p] \in AnyTree
  BY <1>12
<1>14. ASSUME NEW x \in Node, NEW p \in Payload
       PROVE  /\ KeyOf[p] < KeyOf[x.key] =>
                   remove_node[x][p] = balance_tree(Joined(remove_node[x.left_child][p], x.key, x.right_child))
              /\ KeyOf[p] > KeyOf[x.key] =>
                   remove_node[x][p] = balance_tree(Joined(x.left_child, x.key, remove_node[x.right_child][p]))
              /\ KeyOf[p] = KeyOf[x.key] =>
                   /\ x.right_child = NULL => remove_node[x][p] = x.left_child
                   /\ x.right_child # NULL /\ x.left_child = NULL => remove_node[x][p] = x.right_child
                   /\ x.right_child # NULL /\ x.left_child # NULL =>
                        remove_node[x][p] = Promoted(x, remove_node[x.left_child], remove_node[x.right_child])
  <2>1. remove_node[x.left_child] \in V /\ remove_node[x.right_child] \in V
    BY <1>12, TreeParts DEF Node
  <2>2. remove_node[x][p] = Made(x, p, remove_node[x.left_child], remove_node[x.right_child])
    BY <1>11
  <2> HIDE DEF V
  <2> QED  BY <1>2, <2>1, <2>2
<1>15. ASSUME NEW x \in Node, x.left_child # NULL, x.right_child # NULL
       PROVE  LET q == find_max_payload[x.left_child]
                  m == find_min_payload[x.right_child]
                  y == Promoted(x, remove_node[x.left_child], remove_node[x.right_child])
              IN  \/ y = balance_tree(Joined(remove_node[x.left_child][q], q, x.right_child))
                  \/ y = balance_tree(Joined(x.left_child, m, remove_node[x.right_child][m]))
  <2>1. remove_node[x.left_child] \in V /\ remove_node[x.right_child] \in V
    BY <1>12, TreeParts DEF Node
  <2> HIDE DEF V
  <2> QED  BY <1>1, <1>15, <2>1
<1> QED  BY <1>11, <1>13, <1>14, <1>15 DEF RemoveSteps


-----------------------------------------------------------------------------
(***************************************************************************)
(* What remove_node makes of a tree.                                       *)
(***************************************************************************)
\* What a tree holds after remove_node.
Without(H, p) == H \ Same(H, p)

\* remove_node makes a search tree in balance of one, which holds what it held but the
\* payload with the key given, whether a leaf, a node with one child or a node that takes
\* over a payload from its higher side goes (bst.c:359-443).
THEOREM RemoveMakes ==
  ASSUME NEW x \in Tree, x \in Ordered, x \in EvenTrees, NEW p \in Payload
  PROVE  LET y == remove_node[x][p]
         IN  /\ y \in Ordered /\ y \in EvenTrees
             /\ get_height(y) \in {get_height(x) - 1, get_height(x)}
             /\ held[y] = Without(held[x], p)
<1> DEFINE Taking(y, q) == remove_node[y][q]
           Done(y, q) == /\ Taking(y, q) \in Ordered /\ Taking(y, q) \in EvenTrees
                         /\ get_height(Taking(y, q)) \in {get_height(y) - 1, get_height(y)}
                         /\ held[Taking(y, q)] = Without(held[y], q)
           S == {y \in Tree : y \in Ordered /\ y \in EvenTrees => \A q \in Payload : Done(y, q)}
<1>f. Forest(AnyNode, Payload) /\ AnyTree = AnyNode \cup {NULL}
  BY TreesAreForest
<1>1. NULL \in S
  <2>1. held[NULL] = {} /\ NULL \in AnyTree /\ get_height(NULL) = -1
    BY HeldIs, TreesAreForest DEF IsHeld, get_height
  <2>2. \A q \in Payload : Taking(NULL, q) = NULL
    BY RemoveIs DEF RemoveSteps
  <2> HIDE DEF Taking
  <2> QED  BY <2>1, <2>2, TreeParts, OrderedIs, EvenIs DEF Without
<1>2. ASSUME NEW y \in Node, y.left_child \in S, y.right_child \in S
      PROVE  y \in S
  <2> DEFINE l == y.left_child
             r == y.right_child
             k == y.key
  <2>1. /\ y \in AnyNode /\ y \in Tree /\ k \in Payload /\ l \in AnyTree /\ r \in AnyTree
        /\ l \in Tree /\ r \in Tree /\ held[y] = {k} \cup held[l] \cup held[r]
    BY TreeParts, NodeIs DEF Node
  <2>2. SUFFICES ASSUME y \in Ordered, y \in EvenTrees, NEW q \in Payload PROVE Done(y, q)
    BY <2>1
  <2>3. /\ l \in Ordered /\ r \in Ordered /\ l \in EvenTrees /\ r \in EvenTrees
        /\ Between(held[l], k, held[r])
    BY <2>1, <2>2, OrderedIs, EvenIs
  <2>4. \A m \in Payload : Done(l, m) /\ Done(r, m)
    BY <1>2, <2>3
  <2>5. /\ held[l] \in SUBSET Payload /\ held[r] \in SUBSET Payload
        /\ KeyOf[q] \in Int /\ KeyOf[k] \in Int
        /\ \A c \in held[l] : KeyOf[c] \in Int /\ KeyOf[c] < KeyOf[k]
        /\ \A c \in held[r] : KeyOf[c] \in Int /\ KeyOf[k] < KeyOf[c]
    BY <2>1, <2>3, KeysAre DEF Between
  <2>h. /\ get_height(l) \in Int /\ get_height(r) \in Int
        /\ get_height(l) >= -1 /\ get_height(r) >= -1 /\ get_height(NULL) = -1
        /\ get_height(y) = node_max(get_height(l), get_height(r)) + 1
    <3>1. Even(y) /\ y # NULL
      BY <2>1, <2>2, EvenIs, NodeIs
    <3> QED  BY <1>f, <2>1, <3>1, HeightRange DEF Even, get_height
  <2>s. /\ get_height(l) \in {get_height(l) - 1, get_height(l)}
        /\ get_height(r) \in {get_height(r) - 1, get_height(r)}
    OBVIOUS
  <2>6. CASE KeyOf[q] < KeyOf[k]
    <3> DEFINE t == Taking(l, q)
               b == balance_tree(Joined(t, k, r))
    <3>1. Taking(y, q) = b
      BY <2>6, RemoveIs DEF RemoveSteps
    <3>2. /\ t \in Ordered /\ t \in EvenTrees /\ held[t] = Without(held[l], q) /\ t \in AnyTree
          /\ get_height(t) \in {get_height(l) - 1, get_height(l)}
      BY <2>4, OrderedIs
    <3> HIDE DEF t, Taking
    <3>3. Between(held[t], k, held[r])
      BY <2>3, <3>2 DEF Between, Without
    <3>4. b \in Ordered /\ held[b] = {k} \cup held[t] \cup held[r]
      BY <2>1, <2>3, <3>2, <3>3, RebalancedKeeps
    <3>5. b \in EvenTrees /\ get_height(b) \in {get_height(y) - 1, get_height(y)}
      BY <2>1, <2>2, <2>3, <2>s, <3>2, Reshrunk
    <3>6. held[b] = Without(held[y], q)
      <4>1. Same(held[y], q) = Same(held[l], q)
        BY <2>1, <2>2, <2>6, SameSide
      <4>2. Same(held[l], q) \cap ({k} \cup held[r]) = {}
        <5>1. \A c \in {k} \cup held[r] : KeyOf[c] # KeyOf[q]
          BY <2>5, <2>6
        <5> QED  BY <5>1 DEF Same
      <4> QED  BY <2>1, <3>2, <3>4, <4>1, <4>2 DEF Without
    <3> QED  BY <3>1, <3>4, <3>5, <3>6
  <2>7. CASE KeyOf[q] > KeyOf[k]
    <3> DEFINE t == Taking(r, q)
               b == balance_tree(Joined(l, k, t))
    <3>1. Taking(y, q) = b
      BY <2>7, RemoveIs DEF RemoveSteps
    <3>2. /\ t \in Ordered /\ t \in EvenTrees /\ held[t] = Without(held[r], q) /\ t \in AnyTree
          /\ get_height(t) \in {get_height(r) - 1, get_height(r)}
      BY <2>4, OrderedIs
    <3> HIDE DEF t, Taking
    <3>3. Between(held[l], k, held[t])
      BY <2>3, <3>2 DEF Between, Without
    <3>4. b \in Ordered /\ held[b] = {k} \cup held[l] \cup held[t]
      BY <2>1, <2>3, <3>2, <3>3, RebalancedKeeps
    <3>5. b \in EvenTrees /\ get_height(b) \in {get_height(y) - 1, get_height(y)}
      BY <2>1, <2>2, <2>3, <2>s, <3>2, Reshrunk
    <3>6. held[b] = Without(held[y], q)
      <4>1. Same(held[y], q) = Same(held[r], q)
        BY <2>1, <2>2, <2>7, SameSide
      <4>2. Same(held[r], q) \cap ({k} \cup held[l]) = {}
        <5>1. \A c \in {k} \cup held[l] : KeyOf[c] # KeyOf[q]
          BY <2>5, <2>7
        <5> QED  BY <5>1 DEF Same
      <4> QED  BY <2>1, <3>2, <3>4, <4>1, <4>2 DEF Without
    <3> QED  BY <3>1, <3>4, <3>5, <3>6
  <2>8. CASE KeyOf[q] = KeyOf[k]
    <3>1. Without(held[y], q) = held[l] \cup held[r]
      <4>1. Same(held[y], q) = {k}
        BY <2>1, <2>2, <2>8, SameSide
      <4>2. k \notin held[l] \cup held[r]
        BY <2>5
      <4> QED  BY <2>1, <4>1, <4>2 DEF Without
    <3>n. held[NULL] = {}
      BY HeldIs DEF IsHeld
    <3>2. CASE r = NULL
      <4>1. Taking(y, q) = l
        BY <2>8, <3>2, RemoveIs DEF RemoveSteps
      <4> HIDE DEF l, r
      <4>2. get_height(y) - 1 = get_height(l)
        BY <2>h, <3>2 DEF node_max
      <4> HIDE DEF Taking
      <4> QED  BY <2>3, <3>1, <3>2, <3>n, <4>1, <4>2
    <3>3. CASE r # NULL /\ l = NULL
      <4>1. Taking(y, q) = r
        BY <2>8, <3>3, RemoveIs DEF RemoveSteps
      <4> HIDE DEF l, r
      <4>2. get_height(y) - 1 = get_height(r)
        BY <2>h, <3>3 DEF node_max
      <4> HIDE DEF Taking
      <4> QED  BY <2>3, <3>1, <3>3, <3>n, <4>1, <4>2
    <3>4. CASE r # NULL /\ l # NULL
      <4> DEFINE g == find_max_payload[l]
                 m == find_min_payload[r]
                 t == Taking(l, g)
                 u == Taking(r, m)
      <4>1. \/ Taking(y, q) = balance_tree(Joined(t, g, r))
            \/ Taking(y, q) = balance_tree(Joined(l, m, u))
        BY <2>8, <3>4, RemoveIs DEF RemoveSteps
      <4>2. /\ g \in held[l] /\ \A c \in held[l] \ {g} : KeyOf[c] < KeyOf[g]
        BY <2>1, <2>3, <3>4, MaxHeld DEF Node
      <4>3. /\ m \in held[r] /\ \A c \in held[r] \ {m} : KeyOf[m] < KeyOf[c]
        BY <2>1, <2>3, <3>4, MinHeld DEF Node
      <4>4. g \in Payload /\ m \in Payload /\ KeyOf[g] \in Int /\ KeyOf[m] \in Int
        BY <2>5, <4>2, <4>3
      <4>5. /\ t \in Ordered /\ t \in EvenTrees /\ held[t] = Without(held[l], g) /\ t \in AnyTree
            /\ get_height(t) \in {get_height(l) - 1, get_height(l)}
        BY <2>4, <4>4, OrderedIs
      <4>6. /\ u \in Ordered /\ u \in EvenTrees /\ held[u] = Without(held[r], m) /\ u \in AnyTree
            /\ get_height(u) \in {get_height(r) - 1, get_height(r)}
        BY <2>4, <4>4, OrderedIs
      <4> HIDE DEF g, m, t, u, Taking, l, r
      <4>7. held[t] = held[l] \ {g}
        <5>1. \A c \in held[l] \ {g} : KeyOf[c] # KeyOf[g]
          BY <2>5, <4>2, <4>4
        <5> QED  BY <4>2, <4>5, <5>1 DEF Without, Same
      <4>8. held[u] = held[r] \ {m}
        <5>1. \A c \in held[r] \ {m} : KeyOf[c] # KeyOf[m]
          BY <2>5, <4>3, <4>4
        <5> QED  BY <4>3, <4>6, <5>1 DEF Without, Same
      <4>9. CASE Taking(y, q) = balance_tree(Joined(t, g, r))
        <5> DEFINE b == balance_tree(Joined(t, g, r))
        <5>1. Between(held[t], g, held[r])
          <6>1. \A c \in held[r] : KeyOf[g] < KeyOf[c]
            BY <2>5, <4>2, <4>4
          <6> QED  BY <4>2, <4>7, <6>1 DEF Between
        <5>2. b \in Ordered /\ held[b] = {g} \cup held[t] \cup held[r]
          BY <2>1, <2>3, <4>4, <4>5, <5>1, RebalancedKeeps
        <5>3. b \in EvenTrees /\ get_height(b) \in {get_height(y) - 1, get_height(y)}
          BY <2>1, <2>2, <2>3, <2>s, <4>4, <4>5, Reshrunk DEF l, r
        <5>4. held[b] = held[l] \cup held[r]
          BY <4>2, <4>7, <5>2
        <5> QED  BY <3>1, <4>9, <5>2, <5>3, <5>4
      <4>10. CASE Taking(y, q) = balance_tree(Joined(l, m, u))
        <5> DEFINE b == balance_tree(Joined(l, m, u))
        <5>1. Between(held[l], m, held[u])
          <6>1. \A c \in held[l] : KeyOf[c] < KeyOf[m]
            BY <2>5, <4>3, <4>4
          <6> QED  BY <4>3, <4>8, <6>1 DEF Between
        <5>2. b \in Ordered /\ held[b] = {m} \cup held[l] \cup held[u]
          BY <2>1, <2>3, <4>4, <4>6, <5>1, RebalancedKeeps
        <5>3. b \in EvenTrees /\ get_height(b) \in {get_height(y) - 1, get_height(y)}
          BY <2>1, <2>2, <2>3, <2>s, <4>4, <4>6, Reshrunk DEF l, r
        <5>4. held[b] = held[l] \cup held[r]
          BY <4>3, <4>8, <5>2
        <5> QED  BY <3>1, <4>10, <5>2, <5>3, <5>4
      <4> QED  BY <4>1, <4>9, <4>10
    <3> QED  BY <3>2, <3>3, <3>4
  <2> QED  BY <2>5, <2>6, <2>7, <2>8
<1>3. Tree \in SUBSET S
  <2> HIDE DEF S
  <2> QED  BY <1>1, <1>2, InTree
<1>4. Done(x, p)
  BY <1>3
<1> QED  BY <1>4


-----------------------------------------------------------------------------
(***************************************************************************)
(* The search trees are trees of the model.                                *)
(***************************************************************************)
\* A search tree has no more levels than payloads.
LEMMA OrderedFits ==
  ASSUME NEW n \in Nat
  PROVE  \A x \in Trees[n] : x \in Ordered =>
           /\ IsFiniteSet(held[x]) /\ x \in Trees[Cardinality(held[x])]
<1> DEFINE Fits(x) == IsFiniteSet(held[x]) /\ x \in Trees[Cardinality(held[x])]
           S == {x \in Trees[n] : x \in Ordered => Fits(x)}
<1>0. \A H \in SUBSET Payload : IsFiniteSet(H) /\ Cardinality(H) \in Nat
  BY AVLTreeAssumption, FS_Subset, FS_CardinalityType
<1>1. NULL \in S
  <2>1. held[NULL] = {} /\ Cardinality({}) = 0 /\ NULL \in Trees[0] /\ IsFiniteSet({})
    BY HeldIs, FS_EmptySet, TreesIs DEF IsHeld
  <2>2. NULL \in Trees[n]
    <3>1. Trees[0] \in SUBSET Trees[n]
      <4>1. 0 \in Nat /\ 0 <= n
        OBVIOUS
      <4> QED  BY <4>1, TreesNest
    <3> QED  BY <2>1, <3>1
  <2> QED  BY <2>1, <2>2
<1>2. ASSUME NEW x \in Trees[n] \ {NULL}, x.left_child \in S, x.right_child \in S
      PROVE  x \in S
  <2> SUFFICES ASSUME x \in Ordered PROVE Fits(x)
    OBVIOUS
  <2> DEFINE l == x.left_child
             r == x.right_child
             H == held[x]
             c == Cardinality(H)
  <2>1. x \in AnyNode
    BY DEF AnyNode, AnyTree
  <2>2. /\ l \in Ordered /\ r \in Ordered /\ Between(held[l], x.key, held[r])
        /\ H = {x.key} \cup held[l] \cup held[r] /\ x.key \in Payload /\ x.height \in Nat
        /\ l \in AnyTree /\ r \in AnyTree
    BY <2>1, NodeIs, OrderedIs
  <2>3. x.key \notin held[l] \cup held[r]
    <3>1. KeyOf[x.key] \in Int
      BY <2>2, KeysAre
    <3> QED  BY <2>2, <3>1 DEF Between
  <2>4. H \in SUBSET Payload /\ IsFiniteSet(H) /\ c \in Nat
    BY <1>0, <2>1, KeysAre DEF AnyNode
  <2>5. Fits(l) /\ Fits(r)
    BY <1>2, <2>2
  <2>6. ASSUME NEW t \in {l, r}
        PROVE  c - 1 \in Nat /\ t \in Trees[c - 1]
    <3>1. held[t] \in SUBSET (H \ {x.key})
      BY <2>2, <2>3
    <3>2. IsFiniteSet(H \ {x.key}) /\ Cardinality(H \ {x.key}) = c - 1
      BY <2>2, <2>4, FS_RemoveElement
    <3>3. /\ Cardinality(held[t]) \in Nat /\ Cardinality(held[t]) <= c - 1
          /\ c - 1 \in Nat
      BY <2>5, <3>1, <3>2, FS_Subset, FS_CardinalityType
    <3>4. Trees[Cardinality(held[t])] \in SUBSET Trees[c - 1]
      BY <3>3, TreesNest
    <3> QED  BY <2>5, <3>3, <3>4
  <2>7. x \in Over(Trees[c - 1])
    <3>1. x = [height |-> x.height, left_child |-> l, right_child |-> r, key |-> x.key]
      BY <2>1, TreesAreForest DEF Forest
    <3> HIDE DEF l, r, c
    <3>2. l \in Trees[c - 1] /\ r \in Trees[c - 1]
      BY <2>6
    <3> QED  BY <2>2, <3>1, <3>2 DEF Over
  <2>8. c - 1 \in Nat /\ (c - 1) + 1 = c
    BY <2>4, <2>6
  <2>9. x \in Trees[c]
    BY <2>7, <2>8, TreesIs
  <2> QED  BY <2>4, <2>9
<1>3. Trees[n] \in SUBSET S
  <2> HIDE DEF S
  <2> QED  BY <1>1, <1>2, TreeInduction
<1> QED  BY <1>3

\* So every one is a tree of the model.
LEMMA OrderedInTree == Ordered \in SUBSET Tree
<1> SUFFICES ASSUME NEW x \in Ordered PROVE x \in Tree
  OBVIOUS
<1>1. PICK n \in Nat : x \in Trees[n]
  BY OrderedIs DEF AnyTree
<1>2. IsFiniteSet(held[x]) /\ x \in Trees[Cardinality(held[x])]
  BY <1>1, OrderedFits
<1>3. held[x] \in SUBSET Payload
  BY OrderedIs, KeysAre
<1>4. /\ Cardinality(held[x]) \in Nat /\ Cardinality(Payload) \in Nat
      /\ Cardinality(held[x]) <= Cardinality(Payload)
  BY <1>3, AVLTreeAssumption, FS_Subset, FS_CardinalityType
<1> QED  BY <1>2, <1>4, TreesNest DEF Tree


-----------------------------------------------------------------------------
(***************************************************************************)
(* What the properties say of a tree.                                      *)
(***************************************************************************)
\* What the properties read off a tree: its height, and the trees in it.
LEMMA HeightOfIs ==
  /\ HeightOf[NULL] = -1
  /\ \A x \in Node : HeightOf[x] = 1 + node_max(HeightOf[x.left_child], HeightOf[x.right_child])
<1> DEFINE V == Int
           b == -1
           step == [z \in AnyNode \X V \X V |-> 1 + node_max(z[2], z[3])]
           Body(f) == [node \in Tree |-> IF node = NULL THEN -1
                         ELSE 1 + node_max(f[node.left_child], f[node.right_child])]
<1>1. b \in V /\ step \in Steps(V)
  BY DEF Steps, node_max
<1>2. ASSUME NEW x \in AnyNode, NEW l \in V, NEW r \in V
      PROVE  step[<<x, l, r>>] = 1 + node_max(l, r)
  OBVIOUS
<1>3. HeightOf = CHOOSE f : f = Body(f)
  BY DEF HeightOf
<1> HIDE DEF step, V
<1>4. PICK g \in Recursions(V, b, step) : TRUE
  <2> HIDE DEF b
  <2> QED  BY <1>1, TreeFunction
<1>5. g \in [Tree -> V] /\ g[NULL] = -1
  BY <1>4 DEF Recursions
<1>6. ASSUME NEW x \in Node
      PROVE  g[x] = 1 + node_max(g[x.left_child], g[x.right_child])
  <2>1. x \in AnyNode /\ g[x.left_child] \in V /\ g[x.right_child] \in V
        /\ g[x] = step[<<x, g[x.left_child], g[x.right_child]>>]
    BY <1>4, <1>5, TreeParts DEF Node, Recursions
  <2> QED  BY <1>2, <2>1
<1>7. g = Body(g)
  BY <1>5, <1>6 DEF Node
<1>8. HeightOf = Body(HeightOf)
  <2> HIDE DEF Body
  <2> QED  BY <1>3, <1>7
<1> QED  BY <1>8, TreeParts DEF Node

\* Subtrees has a tree and the trees in its children.
LEMMA SubtreesIs ==
  /\ Subtrees[NULL] = {}
  /\ \A x \in Node : Subtrees[x] = {x} \cup Subtrees[x.left_child] \cup Subtrees[x.right_child]
<1> DEFINE V == SUBSET AnyNode
           b == {}
           step == [z \in AnyNode \X V \X V |-> {z[1]} \cup z[2] \cup z[3]]
           Body(f) == [node \in Tree |-> IF node = NULL THEN {}
                         ELSE {node} \cup f[node.left_child] \cup f[node.right_child]]
<1>1. b \in V /\ step \in Steps(V)
  BY DEF Steps
<1>2. ASSUME NEW x \in AnyNode, NEW l \in V, NEW r \in V
      PROVE  step[<<x, l, r>>] = {x} \cup l \cup r
  OBVIOUS
<1>3. Subtrees = CHOOSE f : f = Body(f)
  BY DEF Subtrees
<1> HIDE DEF step, V
<1>4. PICK g \in Recursions(V, b, step) : TRUE
  <2> HIDE DEF b
  <2> QED  BY <1>1, TreeFunction
<1>5. g \in [Tree -> V] /\ g[NULL] = {}
  BY <1>4 DEF Recursions
<1>6. ASSUME NEW x \in Node
      PROVE  g[x] = {x} \cup g[x.left_child] \cup g[x.right_child]
  <2>1. x \in AnyNode /\ g[x.left_child] \in V /\ g[x.right_child] \in V
        /\ g[x] = step[<<x, g[x.left_child], g[x.right_child]>>]
    BY <1>4, <1>5, TreeParts DEF Node, Recursions
  <2> QED  BY <1>2, <2>1
<1>7. g = Body(g)
  BY <1>5, <1>6 DEF Node
<1>8. Subtrees = Body(Subtrees)
  <2> HIDE DEF Body
  <2> QED  BY <1>3, <1>7
<1> QED  BY <1>8, TreeParts DEF Node

\* The trees in a search tree are search trees, those in an even tree are even, and what
\* is in them the tree holds.
LEMMA SubtreesAre ==
  ASSUME NEW x \in Tree
  PROVE  /\ Subtrees[x] \in SUBSET Node
         /\ x \in Ordered => Subtrees[x] \in SUBSET Ordered
         /\ x \in EvenTrees => Subtrees[x] \in SUBSET EvenTrees
         /\ \A y \in Subtrees[x] : y.key \in held[x]
<1> DEFINE Good(y) == /\ Subtrees[y] \in SUBSET Node
                      /\ y \in Ordered => Subtrees[y] \in SUBSET Ordered
                      /\ y \in EvenTrees => Subtrees[y] \in SUBSET EvenTrees
                      /\ \A z \in Subtrees[y] : z.key \in held[y]
           S == {y \in Tree : Good(y)}
<1>1. NULL \in S
  BY SubtreesIs, TreeParts
<1>2. ASSUME NEW y \in Node, y.left_child \in S, y.right_child \in S
      PROVE  y \in S
  <2>1. y \in AnyNode /\ y \in Tree
    BY TreeParts DEF Node
  <2>2. Subtrees[y] = {y} \cup Subtrees[y.left_child] \cup Subtrees[y.right_child]
    BY SubtreesIs
  <2>3. held[y] = {y.key} \cup held[y.left_child] \cup held[y.right_child]
    BY <2>1, NodeIs
  <2>4. Good(y.left_child) /\ Good(y.right_child)
    BY <1>2
  <2>5. y \in Ordered => Subtrees[y] \in SUBSET Ordered
    BY <2>1, <2>2, <2>4, OrderedIs
  <2>6. y \in EvenTrees => Subtrees[y] \in SUBSET EvenTrees
    BY <2>1, <2>2, <2>4, EvenIs
  <2>7. \A z \in Subtrees[y] : z.key \in held[y]
    BY <2>2, <2>3, <2>4
  <2> QED  BY <2>1, <2>2, <2>4, <2>5, <2>6, <2>7
<1>3. Tree \in SUBSET S
  <2> HIDE DEF S
  <2> QED  BY <1>1, <1>2, InTree
<1> QED  BY <1>3

\* In an even tree the cached height is the height.
LEMMA EvenHeights ==
  ASSUME NEW x \in Tree, x \in EvenTrees
  PROVE  HeightOf[x] = get_height(x) /\ HeightOf[x] \in Int
<1> DEFINE S == {y \in Tree : y \in EvenTrees => HeightOf[y] = get_height(y)}
<1>1. NULL \in S
  BY HeightOfIs, TreeParts DEF get_height
<1>2. ASSUME NEW y \in Node, y.left_child \in S, y.right_child \in S
      PROVE  y \in S
  <2>1. y \in AnyNode /\ y \in Tree /\ y # NULL
    BY TreeParts, NodeIs DEF Node
  <2> SUFFICES ASSUME y \in EvenTrees PROVE HeightOf[y] = get_height(y)
    BY <2>1
  <2>2. Even(y) /\ y.left_child \in EvenTrees /\ y.right_child \in EvenTrees
    BY <2>1, EvenIs
  <2>3. /\ HeightOf[y.left_child] = get_height(y.left_child)
        /\ HeightOf[y.right_child] = get_height(y.right_child)
    BY <1>2, <2>2
  <2>4. get_height(y.left_child) \in Int /\ get_height(y.right_child) \in Int
    BY <2>1, NodeIs, TreesAreForest, HeightRange
  <2>5. HeightOf[y] = 1 + node_max(get_height(y.left_child), get_height(y.right_child))
    BY <2>3, HeightOfIs
  <2>6. get_height(y) = node_max(get_height(y.left_child), get_height(y.right_child)) + 1
    BY <2>1, <2>2 DEF Even, get_height
  <2>7. node_max(get_height(y.left_child), get_height(y.right_child)) \in Int
    BY <2>4 DEF node_max
  <2> QED  BY <2>5, <2>6, <2>7
<1>3. Tree \in SUBSET S
  <2> HIDE DEF S
  <2> QED  BY <1>1, <1>2, InTree
<1>4. get_height(x) \in Int
  BY TreeParts, TreesAreForest, HeightRange
<1> QED  BY <1>3, <1>4

\* What the proofs say of a tree is what the properties say of it.
LEMMA OrderedIsSearchTree ==
  ASSUME root \in Tree, root \in Ordered
  PROVE  SearchTree
<1>1. ASSUME NEW node \in Subtrees[root]
      PROVE  /\ \A below \in Subtrees[node.left_child] : KeyOf[below.key] < KeyOf[node.key]
             /\ \A above \in Subtrees[node.right_child] : KeyOf[above.key] > KeyOf[node.key]
  <2>1. node \in Node /\ node \in Ordered
    BY SubtreesAre
  <2>2. node \in AnyNode /\ node.left_child \in Tree /\ node.right_child \in Tree
    BY <2>1, TreeParts DEF Node
  <2>3. Between(held[node.left_child], node.key, held[node.right_child])
    BY <2>1, <2>2, OrderedIs
  <2>4. /\ \A below \in Subtrees[node.left_child] : below.key \in held[node.left_child]
        /\ \A above \in Subtrees[node.right_child] : above.key \in held[node.right_child]
    BY <2>2, SubtreesAre
  <2>5. KeyOf[node.key] \in Int
    BY <2>2, NodeIs, KeysAre
  <2>6. \A q \in held[node.right_child] : KeyOf[q] \in Int
    BY <2>2, NodeIs, KeysAre
  <2> QED  BY <2>3, <2>4, <2>5, <2>6 DEF Between
<1> QED  BY <1>1 DEF SearchTree

\* A tree in balance is what Balanced says.
LEMMA EvenIsBalanced ==
  ASSUME root \in Tree, root \in EvenTrees
  PROVE  Balanced
<1>1. ASSUME NEW node \in Subtrees[root]
      PROVE  /\ node.height = HeightOf[node]
             /\ HeightOf[node.left_child] - HeightOf[node.right_child] \in -1..1
  <2>1. node \in Node /\ node \in EvenTrees
    BY SubtreesAre
  <2>2. node \in AnyNode /\ node \in Tree /\ node.left_child \in Tree /\ node.right_child \in Tree
        /\ node # NULL
    BY <2>1, TreeParts DEF Node
  <2>3. Even(node) /\ node.left_child \in EvenTrees /\ node.right_child \in EvenTrees
    BY <2>1, <2>2, EvenIs
  <2>4. /\ HeightOf[node] = get_height(node)
        /\ HeightOf[node.left_child] = get_height(node.left_child)
        /\ HeightOf[node.right_child] = get_height(node.right_child)
    BY <2>1, <2>2, <2>3, EvenHeights
  <2> QED  BY <2>2, <2>3, <2>4 DEF Even, get_height, get_balance_factor
<1> QED  BY <1>1 DEF Balanced


-----------------------------------------------------------------------------
(***************************************************************************)
(* What a traversal visits.                                                *)
(***************************************************************************)
Elems(s) == {s[i] : i \in DOMAIN s}
Distinct(s) == \A i, j \in DOMAIN s : s[i] = s[j] => i = j
Rising(s) == \A i, j \in DOMAIN s : i < j => KeyOf[s[i]] < KeyOf[s[j]]

\* What one sequence after another has.
LEMMA Concatenated ==
  ASSUME NEW s \in Seq(Payload), NEW t \in Seq(Payload)
  PROVE  /\ s \o t \in Seq(Payload)
         /\ Elems(s \o t) = Elems(s) \cup Elems(t)
         /\ Distinct(s) /\ Distinct(t) /\ Elems(s) \cap Elems(t) = {} => Distinct(s \o t)
         /\ Rising(s) /\ Rising(t) /\ (\A p \in Elems(s), q \in Elems(t) : KeyOf[p] < KeyOf[q])
              => Rising(s \o t)
         /\ Len(t) > 0 => Len(s \o t) > 0 /\ (s \o t)[Len(s \o t)] = t[Len(t)]
<1> DEFINE u == s \o t
<1>1. /\ Len(s) \in Nat /\ Len(t) \in Nat /\ u \in Seq(Payload)
      /\ DOMAIN s = 1..Len(s) /\ DOMAIN t = 1..Len(t) /\ DOMAIN u = 1..(Len(s) + Len(t))
      /\ Len(u) = Len(s) + Len(t)
      /\ \A i \in 1..(Len(s) + Len(t)) : u[i] = IF i <= Len(s) THEN s[i] ELSE t[i - Len(s)]
  OBVIOUS
<1> HIDE DEF u
<1>2. \A i \in DOMAIN u : \/ i \in DOMAIN s /\ u[i] = s[i]
                          \/ i > Len(s) /\ i - Len(s) \in DOMAIN t /\ u[i] = t[i - Len(s)]
  BY <1>1
<1>3. \A i \in DOMAIN s : i \in DOMAIN u /\ u[i] = s[i]
  BY <1>1
<1>4. ASSUME NEW i \in DOMAIN t
      PROVE  i + Len(s) \in DOMAIN u /\ u[i + Len(s)] = t[i]
  <2>1. i + Len(s) \in DOMAIN u /\ ~(i + Len(s) <= Len(s)) /\ (i + Len(s)) - Len(s) = i
    BY <1>1
  <2> QED  BY <1>1, <2>1
<1>5. Elems(u) = Elems(s) \cup Elems(t)
  <2>1. ASSUME NEW p \in Elems(u) PROVE p \in Elems(s) \cup Elems(t)
    BY <1>2 DEF Elems
  <2>2. ASSUME NEW p \in Elems(s) PROVE p \in Elems(u)
    BY <1>3 DEF Elems
  <2>3. ASSUME NEW p \in Elems(t) PROVE p \in Elems(u)
    BY <1>4 DEF Elems
  <2> QED  BY <2>1, <2>2, <2>3
<1>6. /\ \A i \in DOMAIN s : s[i] \in Elems(s) /\ i \in Nat /\ i <= Len(s)
      /\ \A i \in DOMAIN t : t[i] \in Elems(t) /\ i \in Nat
      /\ \A i \in DOMAIN u : i \in Nat
  BY <1>1 DEF Elems
<1>7. ASSUME Distinct(s), Distinct(t), Elems(s) \cap Elems(t) = {}
      PROVE  Distinct(u)
  <2> SUFFICES ASSUME NEW i \in DOMAIN u, NEW j \in DOMAIN u, u[i] = u[j] PROVE i = j
    BY DEF Distinct
  <2>1. CASE i \in DOMAIN s /\ u[i] = s[i] /\ j \in DOMAIN s /\ u[j] = s[j]
    BY <1>7, <2>1 DEF Distinct
  <2>2. CASE /\ i - Len(s) \in DOMAIN t /\ u[i] = t[i - Len(s)]
             /\ j - Len(s) \in DOMAIN t /\ u[j] = t[j - Len(s)]
    <3>1. i - Len(s) = j - Len(s)
      BY <1>7, <2>2 DEF Distinct
    <3> QED  BY <1>1, <1>6, <3>1
  <2> QED  BY <1>2, <1>6, <1>7, <2>1, <2>2
<1>8. ASSUME Rising(s), Rising(t), \A p \in Elems(s), q \in Elems(t) : KeyOf[p] < KeyOf[q]
      PROVE  Rising(u)
  <2> SUFFICES ASSUME NEW i \in DOMAIN u, NEW j \in DOMAIN u, i < j PROVE KeyOf[u[i]] < KeyOf[u[j]]
    BY DEF Rising
  <2>1. CASE i \in DOMAIN s /\ u[i] = s[i] /\ j \in DOMAIN s /\ u[j] = s[j]
    BY <1>8, <2>1 DEF Rising
  <2>2. CASE /\ i - Len(s) \in DOMAIN t /\ u[i] = t[i - Len(s)]
             /\ j - Len(s) \in DOMAIN t /\ u[j] = t[j - Len(s)]
    <3>1. i - Len(s) < j - Len(s)
      BY <1>1, <1>6
    <3> QED  BY <1>8, <2>2, <3>1 DEF Rising
  <2>3. CASE /\ i \in DOMAIN s /\ u[i] = s[i]
             /\ j - Len(s) \in DOMAIN t /\ u[j] = t[j - Len(s)]
    BY <1>6, <1>8, <2>3
  <2>4. ~(i > Len(s) /\ j \in DOMAIN s)
    BY <1>1, <1>6
  <2> QED  BY <1>2, <2>1, <2>2, <2>3, <2>4
<1>9. ASSUME Len(t) > 0 PROVE Len(u) > 0 /\ u[Len(u)] = t[Len(t)]
  <2>1. Len(t) \in DOMAIN t /\ Len(t) + Len(s) = Len(u)
    BY <1>1, <1>9
  <2> QED  BY <1>1, <1>4, <1>9, <2>1
<1> QED  BY <1>1, <1>5, <1>7, <1>8, <1>9 DEF u

\* A sequence in which nothing comes twice is as long as what is in it is many.
LEMMA DistinctCounts ==
  ASSUME NEW s \in Seq(Payload), Distinct(s)
  PROVE  Len(s) = Cardinality(Elems(s))
<1> DEFINE n == Len(s)
<1>1. n \in Nat /\ DOMAIN s = 1..n
  OBVIOUS
<1>2. s \in Bijection(1..n, Elems(s))
  <2>1. s \in [1..n -> Elems(s)]
    <3>1. s = [i \in 1..n |-> s[i]]
      OBVIOUS
    <3>2. \A i \in 1..n : s[i] \in Elems(s)
      BY <1>1 DEF Elems
    <3> HIDE DEF n
    <3> QED  BY <3>1, <3>2
  <2>2. \A i, j \in 1..n : s[i] = s[j] => i = j
    BY <1>1 DEF Distinct
  <2>3. \A p \in Elems(s) : \E i \in 1..n : s[i] = p
    BY <1>1 DEF Elems
  <2> HIDE DEF n
  <2> QED  BY <2>1, <2>2, <2>3 DEF Bijection, Injection, Surjection, IsInjective
<1> HIDE DEF n
<1>3. IsFiniteSet(1..n) /\ Cardinality(1..n) = n
  <2>1. 1 \in Int /\ n \in Int
    BY <1>1
  <2>2. /\ IsFiniteSet(1..n)
        /\ Cardinality(1..n) = IF 1 > n THEN 0 ELSE n - 1 + 1
    BY <2>1, FS_Interval
  <2> QED  BY <1>1, <2>2
<1>4. ExistsBijection(1..n, Elems(s))
  BY <1>2 DEF ExistsBijection
<1>5. Cardinality(Elems(s)) = Cardinality(1..n)
  BY <1>3, <1>4, FS_Bijection
<1> QED  BY <1>3, <1>5 DEF n

Visits == [seen : Seq(Payload), recurse : BOOLEAN]

\* What Then and Dropped make of visits.
LEMMA ThenIs ==
  ASSUME NEW a \in Visits, NEW b \in Visits
  PROVE  /\ Then(a, b) \in Visits
         /\ a.recurse => /\ Then(a, b).seen = a.seen \o b.seen
                         /\ Then(a, b).recurse = b.recurse
         /\ ~a.recurse => Then(a, b) = a
<1>1. CASE a.recurse
  <2>1. Then(a, b) = [b EXCEPT !.seen = a.seen \o b.seen]
    BY <1>1 DEF Then
  <2>2. b = [seen |-> b.seen, recurse |-> b.recurse]
        /\ b.recurse \in BOOLEAN /\ a.seen \in Seq(Payload) /\ b.seen \in Seq(Payload)
    BY DEF Visits
  <2>3. Then(a, b) = [seen |-> a.seen \o b.seen, recurse |-> b.recurse]
    BY <2>1, <2>2
  <2>4. a.seen \o b.seen \in Seq(Payload)
    BY <2>2, Concatenated
  <2> QED  BY <1>1, <2>2, <2>3, <2>4 DEF Visits
<1>2. CASE ~a.recurse
  BY <1>2 DEF Then
<1> QED  BY <1>1, <1>2

\* Dropped keeps what was seen.
LEMMA DroppedIs ==
  ASSUME NEW a \in Visits
  PROVE  Dropped(a) \in Visits /\ Dropped(a).seen = a.seen /\ Dropped(a).recurse = TRUE
<1>1. ASSUME NEW r \in BOOLEAN
      PROVE  [a EXCEPT !.recurse = r] = [seen |-> a.seen, recurse |-> r]
  BY DEF Visits
<1>2. TRUE \in BOOLEAN
  OBVIOUS
<1>3. Dropped(a) = [seen |-> a.seen, recurse |-> TRUE]
  BY ONLY <1>1, <1>2, Zenon DEF Dropped
<1>4. a.seen \in Seq(Payload)
  BY DEF Visits
<1> QED  BY <1>3, <1>4 DEF Visits

\* A call sees one payload.
LEMMA CallIs ==
  ASSUME NEW k \in Payload, NEW stop
  PROVE  /\ Call(k, stop) \in Visits /\ Call(k, stop).seen = <<k>>
         /\ Call(k, stop).recurse <=> k # stop
         /\ Elems(<<k>>) = {k} /\ Distinct(<<k>>) /\ Rising(<<k>>)
         /\ <<k>> \in Seq(Payload) /\ Len(<<k>>) = 1 /\ <<k>>[1] = k
<1>1. <<k>> \in Seq(Payload) /\ Len(<<k>>) = 1 /\ <<k>>[1] = k /\ DOMAIN <<k>> = {1}
  OBVIOUS
<1>2. Elems(<<k>>) = {k} /\ Distinct(<<k>>) /\ Rising(<<k>>)
  <2> DEFINE s == <<k>>
  <2>1. DOMAIN s = {1} /\ s[1] = k
    OBVIOUS
  <2> HIDE DEF s
  <2>2. Elems(s) = {k} /\ Distinct(s) /\ Rising(s)
    BY <2>1 DEF Elems, Distinct, Rising
  <2> QED  BY <2>2 DEF s
<1> QED  BY <1>1, <1>2 DEF Call, Visits

\* What traversal_node makes of a node and the visits of its children.
Visiting(x, left, right, type, stop) ==
  CASE type = "TRAVERSAL_IN_ORDER" -> Then(Dropped(left), Then(Call(x.key, stop), right))
    [] type = "TRAVERSAL_PRE_ORDER" -> Then(Call(x.key, stop), Then(left, right))
    [] OTHER -> Then(left, Then(right, Call(x.key, stop)))

\* What traversal_node returns, one call at a time.
VisitSteps(type, stop) ==
  LET Visit(x) == traversal_node(x, type, stop)
  IN  /\ \A x \in Tree : Visit(x) \in Visits
      /\ Visit(NULL) = Nothing
      /\ \A x \in Node :
           Visit(x) = Visiting(x, Visit(x.left_child), Visit(x.right_child), type, stop)

\* traversal_node does.
LEMMA VisitIs ==
  ASSUME NEW type, NEW stop
  PROVE  VisitSteps(type, stop)
<1> DEFINE Made(x, l, r) == Visiting(x, l, r, type, stop)
           V == Visits
           b == Nothing
           step == [z \in AnyNode \X V \X V |-> Made(z[1], z[2], z[3])]
           Body(f) == [node \in Tree |-> IF node = NULL THEN b
                         ELSE Made(node, f[node.left_child], f[node.right_child])]
           Visit(x) == traversal_node(x, type, stop)
<1>1. ASSUME NEW x \in AnyNode, NEW l \in V, NEW r \in V
      PROVE  Made(x, l, r) \in V
  <2> DEFINE c == Call(x.key, stop)
             d == Dropped(l)
  <2>1. c \in V /\ d \in V
    BY <1>1, NodeIs, CallIs, DroppedIs
  <2> HIDE DEF c, d
  <2>2. /\ Then(d, Then(c, r)) \in V
        /\ Then(c, Then(l, r)) \in V
        /\ Then(l, Then(r, c)) \in V
    <3>1. Then(c, r) \in V /\ Then(l, r) \in V /\ Then(r, c) \in V
      BY <2>1, ThenIs
    <3> HIDE DEF V
    <3> QED  BY <2>1, <3>1, ThenIs DEF V
  <2> QED  BY <2>2 DEF Visiting, c, d
<1>2. b \in V
  BY DEF Nothing, Visits
<1>3. step \in Steps(V)
  <2> HIDE DEF Made, V
  <2> QED  BY <1>1 DEF Steps
<1>4. \A x \in Tree : Visit(x) = (CHOOSE f : f = Body(f))[x]
  BY DEF traversal_node, Visiting
<1> HIDE DEF Made, b, V, Visit
<1>5. ASSUME NEW x \in AnyNode, NEW l \in V, NEW r \in V
      PROVE  step[<<x, l, r>>] = Made(x, l, r)
  OBVIOUS
<1> HIDE DEF step
<1>p. PICK g \in Recursions(V, b, step) : TRUE
  BY <1>2, <1>3, TreeFunction
<1>6. g = Body(g)
  <2>1. ASSUME NEW x \in Node
        PROVE  g[x] = Made(x, g[x.left_child], g[x.right_child])
    <3>1. x \in AnyNode /\ g[x.left_child] \in V /\ g[x.right_child] \in V
          /\ g[x] = step[<<x, g[x.left_child], g[x.right_child]>>]
      BY <1>p, TreeParts DEF Node, Recursions
    <3> QED  BY <1>5, <3>1
  <2> QED  BY <1>p, <2>1 DEF Node, Recursions
<1> DEFINE F == CHOOSE f : f = Body(f)
<1>7. F = Body(F)
  <2> HIDE DEF Body
  <2> QED  BY <1>6
<1>8. \A x \in Tree : Visit(x) = F[x]
  <2> HIDE DEF Body
  <2> QED  BY <1>4
<1> HIDE DEF F
<1>9. F[NULL] = b /\ \A x \in Node : F[x] = Made(x, F[x.left_child], F[x.right_child])
  BY <1>7, TreeParts DEF Node
<1>10. Visit(NULL) = b
  BY <1>8, <1>9, TreeParts
<1>11. \A x \in Node : Visit(x) = Made(x, Visit(x.left_child), Visit(x.right_child))
  BY <1>8, <1>9, TreeParts DEF Node
<1> HIDE DEF Body
<1>12. \A x \in Tree : Visit(x) \in V
  <2> DEFINE S == {x \in Tree : Visit(x) \in V}
  <2>1. NULL \in S
    BY <1>2, <1>10, TreeParts
  <2>2. ASSUME NEW x \in Node, x.left_child \in S, x.right_child \in S
        PROVE  x \in S
    BY <1>1, <1>11, <2>2, TreeParts DEF Node
  <2>3. Tree \in SUBSET S
    <3> HIDE DEF S
    <3> QED  BY <2>1, <2>2, InTree
  <2> QED  BY <2>3
<1> QED  BY <1>10, <1>11, <1>12 DEF VisitSteps, Visit, V, b, Made

\* A visit in pre-order or post-order: everything once, or nothing after stop.
Visited(v, H, stop) ==
  /\ Distinct(v.seen) /\ Elems(v.seen) \in SUBSET H
  /\ stop \notin H => v.recurse /\ Elems(v.seen) = H
  /\ stop \in H => ~v.recurse /\ Len(v.seen) > 0 /\ v.seen[Len(v.seen)] = stop

\* A visit in order: by rising keys, everything, or everything up to stop at least.
VisitedInOrder(v, H, stop) ==
  /\ Rising(v.seen) /\ Elems(v.seen) \in SUBSET H
  /\ stop \notin H => v.recurse /\ Elems(v.seen) = H
  /\ stop \in H => \A p \in H : KeyOf[p] <= KeyOf[stop] => p \in Elems(v.seen)

\* One visit after another, of trees that have nothing in common.
LEMMA ThenVisited ==
  ASSUME NEW a \in Visits, NEW b \in Visits, NEW G, NEW H, NEW stop, G \cap H = {},
         Visited(a, G, stop), Visited(b, H, stop)
  PROVE  Visited(Then(a, b), G \cup H, stop)
<1> DEFINE s == a.seen
           t == b.seen
           v == Then(a, b)
<1>1. s \in Seq(Payload) /\ t \in Seq(Payload) /\ a.recurse \in BOOLEAN
  BY DEF Visits
<1>2. CASE stop \in G
  <2>1. v = a
    BY <1>2, ThenIs DEF Visited
  <2> HIDE DEF v
  <2>2. Visited(v, G \cup H, stop)
    BY <1>2, <2>1 DEF Visited
  <2> QED  BY <2>2 DEF v
<1>3. CASE stop \notin G
  <2>1. v.seen = s \o t /\ v.recurse = b.recurse /\ Elems(s) = G
    BY <1>3, ThenIs DEF Visited
  <2>2. /\ Distinct(s) /\ Distinct(t) /\ Elems(t) \in SUBSET H
        /\ stop \notin H => b.recurse /\ Elems(t) = H
        /\ stop \in H => ~b.recurse /\ Len(t) > 0 /\ t[Len(t)] = stop
    BY DEF Visited
  <2>3. Elems(s) \cap Elems(t) = {}
    BY <2>1, <2>2
  <2> HIDE DEF s, t, v
  <2>4. /\ Elems(s \o t) = Elems(s) \cup Elems(t) /\ Distinct(s \o t)
        /\ Len(t) > 0 => Len(s \o t) > 0 /\ (s \o t)[Len(s \o t)] = t[Len(t)]
    BY <1>1, <2>2, <2>3, Concatenated
  <2>5. stop \in G \cup H => stop \in H
    BY <1>3
  <2>6. Visited(v, G \cup H, stop)
    BY <2>1, <2>2, <2>4, <2>5 DEF Visited
  <2> QED  BY <2>6 DEF v
<1> QED  BY <1>2, <1>3

\* A call is a visit of one payload.
LEMMA CallVisited ==
  ASSUME NEW k \in Payload, NEW stop
  PROVE  Call(k, stop) \in Visits /\ Visited(Call(k, stop), {k}, stop)
<1> DEFINE c == Call(k, stop)
           s == <<k>>
<1>1. /\ c \in Visits /\ c.seen = s /\ (c.recurse <=> k # stop)
      /\ Elems(s) = {k} /\ Distinct(s) /\ Len(s) = 1 /\ s[1] = k
  BY CallIs
<1> HIDE DEF c, s
<1>2. Visited(c, {k}, stop)
  BY <1>1 DEF Visited
<1> QED  BY <1>1, <1>2 DEF c

\* There is nothing to see in an empty tree.
LEMMA NothingSeen ==
  /\ Nothing \in Visits /\ Nothing.recurse = TRUE /\ Elems(Nothing.seen) = {}
  /\ Distinct(Nothing.seen) /\ Rising(Nothing.seen)
<1>1. Nothing \in Visits /\ Nothing.recurse = TRUE /\ Nothing.seen = <<>>
  BY DEF Nothing, Visits
<1>2. DOMAIN <<>> = {}
  OBVIOUS
<1> QED  BY <1>1, <1>2 DEF Elems, Distinct, Rising

\* The parts of a search tree have nothing in common.
LEMMA Apart ==
  ASSUME NEW x \in AnyNode, x \in Ordered
  PROVE  /\ held[x.left_child] \cap held[x.right_child] = {}
         /\ x.key \notin held[x.left_child] /\ x.key \notin held[x.right_child]
<1> DEFINE L == held[x.left_child]
           R == held[x.right_child]
           k == x.key
<1>1. k \in Payload /\ L \in SUBSET Payload /\ R \in SUBSET Payload
  BY NodeIs, KeysAre
<1>2. \A p \in Payload : KeyOf[p] \in Int
  BY KeysAre
<1>3. (\A p \in L : KeyOf[p] < KeyOf[k]) /\ (\A p \in R : KeyOf[k] < KeyOf[p])
  BY OrderedIs DEF Between
<1> HIDE DEF L, R, k
<1>4. k \notin L /\ k \notin R
  BY <1>1, <1>2, <1>3
<1>5. ASSUME NEW p \in L, p \in R PROVE FALSE
  <2>1. KeyOf[p] \in Int /\ KeyOf[k] \in Int /\ KeyOf[p] < KeyOf[k] /\ KeyOf[k] < KeyOf[p]
    BY <1>1, <1>2, <1>3, <1>5
  <2> QED  BY <2>1
<1> QED  BY <1>4, <1>5 DEF L, R, k

\* A traversal in pre-order or post-order calls the callback on each payload once, and
\* no more after the one it stops at (bst.c:690-735).
THEOREM TraversalVisits ==
  ASSUME NEW x \in Tree, x \in Ordered, NEW type, NEW stop, type # "TRAVERSAL_IN_ORDER"
  PROVE  Visited(traversal_node(x, type, stop), held[x], stop)
<1> DEFINE Visit(y) == traversal_node(y, type, stop)
           S == {y \in Tree : y \in Ordered => Visited(Visit(y), held[y], stop)}
<1>v. VisitSteps(type, stop)
  BY VisitIs
<1> HIDE DEF Visit
<1>1. NULL \in S
  <2>1. held[NULL] = {} /\ Visit(NULL) = Nothing
    BY <1>v, HeldIs DEF VisitSteps, IsHeld, Visit
  <2> QED  BY <2>1, TreeParts, NothingSeen DEF Visited
<1>2. ASSUME NEW y \in Node, y.left_child \in S, y.right_child \in S
      PROVE  y \in S
  <2> DEFINE c == Call(y.key, stop)
             l == Visit(y.left_child)
             r == Visit(y.right_child)
             L == held[y.left_child]
             R == held[y.right_child]
             K == {y.key}
  <2>1. y \in AnyNode /\ y \in Tree /\ y.left_child \in Tree /\ y.right_child \in Tree
    BY TreeParts DEF Node
  <2> SUFFICES ASSUME y \in Ordered PROVE Visited(Visit(y), held[y], stop)
    BY <2>1
  <2>2. l \in Visits /\ r \in Visits /\ c \in Visits
    BY <1>v, <2>1, NodeIs, CallVisited DEF VisitSteps, Visit
  <2>3. Visited(l, L, stop) /\ Visited(r, R, stop) /\ Visited(c, K, stop)
    BY <1>2, <2>1, NodeIs, CallVisited, OrderedIs
  <2>4. held[y] = K \cup L \cup R /\ L \cap R = {} /\ K \cap L = {} /\ K \cap R = {}
    BY <2>1, NodeIs, Apart
  <2>5. Visit(y) = Visiting(y, l, r, type, stop)
    BY <1>v DEF VisitSteps, Visit
  <2>6. Visit(y) = Then(c, Then(l, r)) \/ Visit(y) = Then(l, Then(r, c))
    BY <2>5 DEF Visiting
  <2> HIDE DEF c, l, r, L, R, K
  <2>7. Then(l, r) \in Visits /\ Then(r, c) \in Visits
    BY <2>2, ThenIs
  <2>8. Visited(Then(l, r), L \cup R, stop) /\ Visited(Then(r, c), R \cup K, stop)
    BY <2>2, <2>3, <2>4, ThenVisited
  <2>9. K \cap (L \cup R) = {} /\ L \cap (R \cup K) = {}
        /\ held[y] = K \cup (L \cup R) /\ held[y] = L \cup (R \cup K)
    BY <2>4
  <2>10. Visited(Then(c, Then(l, r)), held[y], stop)
    BY <2>2, <2>3, <2>7, <2>8, <2>9, ThenVisited
  <2>11. Visited(Then(l, Then(r, c)), held[y], stop)
    BY <2>2, <2>3, <2>7, <2>8, <2>9, ThenVisited
  <2> QED  BY <2>6, <2>10, <2>11
<1>3. Tree \in SUBSET S
  <2> HIDE DEF S
  <2> QED  BY <1>1, <1>2, InTree
<1> QED  BY <1>3 DEF Visit

\* A sequence by rising keys has nothing twice.
LEMMA RisingDistinct ==
  ASSUME NEW s \in Seq(Payload), Rising(s)
  PROVE  Distinct(s)
<1> SUFFICES ASSUME NEW i \in DOMAIN s, NEW j \in DOMAIN s, s[i] = s[j], i # j
             PROVE  FALSE
  BY DEF Distinct
<1>1. i \in Int /\ j \in Int /\ s[i] \in Payload
  OBVIOUS
<1>2. KeyOf[s[i]] < KeyOf[s[i]]
  <2>1. CASE i < j
    BY <2>1 DEF Rising
  <2>2. CASE j < i
    BY <2>2 DEF Rising
  <2> QED  BY <1>1, <2>1, <2>2
<1>3. KeyOf[s[i]] \in Int
  BY <1>1, KeysAre
<1> QED  BY <1>2, <1>3

\* One node of a traversal in order.
LEMMA InOrderStep ==
  ASSUME NEW l \in Visits, NEW r \in Visits, NEW k \in Payload, NEW stop,
         NEW L \in SUBSET Payload, NEW R \in SUBSET Payload, Between(L, k, R),
         VisitedInOrder(l, L, stop), VisitedInOrder(r, R, stop)
  PROVE  VisitedInOrder(Then(Dropped(l), Then(Call(k, stop), r)), {k} \cup L \cup R, stop)
<1> DEFINE c == Call(k, stop)
           d == Dropped(l)
           s == l.seen
           t == r.seen
           u == <<k>>
           m == Then(c, r)
           v == Then(d, m)
           w == u \o t
           H == {k} \cup L \cup R
<1>1. /\ c \in Visits /\ c.seen = u /\ (c.recurse <=> k # stop)
      /\ u \in Seq(Payload) /\ Elems(u) = {k} /\ Rising(u)
  BY CallIs
<1>2. d \in Visits /\ d.seen = s /\ d.recurse = TRUE
  BY DroppedIs
<1>3. s \in Seq(Payload) /\ t \in Seq(Payload)
  BY DEF Visits
<1>4. /\ Rising(s) /\ Elems(s) \in SUBSET L /\ (stop \notin L => Elems(s) = L)
      /\ stop \in L => \A p \in L : KeyOf[p] <= KeyOf[stop] => p \in Elems(s)
  BY DEF VisitedInOrder
<1>5. /\ Rising(t) /\ Elems(t) \in SUBSET R /\ (stop \notin R => r.recurse /\ Elems(t) = R)
      /\ stop \in R => \A p \in R : KeyOf[p] <= KeyOf[stop] => p \in Elems(t)
  BY DEF VisitedInOrder
<1>6. (\A p \in L : KeyOf[p] < KeyOf[k]) /\ (\A p \in R : KeyOf[k] < KeyOf[p])
  BY DEF Between
<1>7. \A p \in Payload : KeyOf[p] \in Int
  BY KeysAre
<1> HIDE DEF c, d, s, t, u, w
<1>8. /\ m \in Visits
      /\ k # stop => m.seen = w /\ m.recurse = r.recurse
      /\ k = stop => m.seen = u /\ m.recurse = c.recurse
  BY <1>1, ThenIs DEF w, t
<1> HIDE DEF m
<1>9. v.seen = s \o m.seen /\ v.recurse = m.recurse
  BY <1>2, <1>8, ThenIs
<1> HIDE DEF v
<1>10. w \in Seq(Payload) /\ Elems(w) = {k} \cup Elems(t) /\ Rising(w)
  <2>1. \A p \in Elems(u), q \in Elems(t) : KeyOf[p] < KeyOf[q]
    BY <1>1, <1>5, <1>6
  <2> QED  BY <1>1, <1>3, <1>5, <2>1, Concatenated DEF w
<1>11. m.seen \in Seq(Payload) /\ Rising(m.seen) /\ Elems(m.seen) \in SUBSET ({k} \cup Elems(t))
       /\ k \in Elems(m.seen) /\ (k # stop => Elems(m.seen) = {k} \cup Elems(t))
  BY <1>1, <1>8, <1>10
<1>12. \A p \in Elems(s), q \in Elems(m.seen) : KeyOf[p] < KeyOf[q]
  <2> SUFFICES ASSUME NEW p \in Elems(s), NEW q \in Elems(m.seen) PROVE KeyOf[p] < KeyOf[q]
    OBVIOUS
  <2>1. p \in L /\ KeyOf[p] < KeyOf[k]
    BY <1>4, <1>6
  <2>2. q = k \/ (q \in R /\ KeyOf[k] < KeyOf[q])
    BY <1>5, <1>6, <1>11
  <2>3. KeyOf[p] \in Int /\ KeyOf[q] \in Int /\ KeyOf[k] \in Int
    BY <1>7, <2>1, <2>2
  <2> QED  BY <2>1, <2>2, <2>3
<1>13. Elems(v.seen) = Elems(s) \cup Elems(m.seen) /\ Rising(v.seen)
  BY <1>3, <1>4, <1>9, <1>11, <1>12, Concatenated
<1>14. Elems(v.seen) \in SUBSET H
  BY <1>4, <1>5, <1>11, <1>13
<1>15. ASSUME stop \notin H PROVE v.recurse /\ Elems(v.seen) = H
  BY <1>4, <1>5, <1>8, <1>9, <1>11, <1>13, <1>15
<1>16. ASSUME stop \in H, NEW p \in H, KeyOf[p] <= KeyOf[stop]
       PROVE  p \in Elems(v.seen)
  <2>1. stop \in Payload /\ KeyOf[stop] \in Int /\ KeyOf[k] \in Int /\ KeyOf[p] \in Int
    BY <1>7, <1>16
  <2>2. CASE stop \in L
    <3>1. KeyOf[stop] < KeyOf[k]
      BY <1>6, <2>2
    <3>2. p \in L
      BY <1>6, <1>16, <2>1, <3>1
    <3> QED  BY <1>4, <1>13, <1>16, <2>2, <3>2
  <2>3. CASE stop = k
    <3>1. p \in L \/ p = k
      BY <1>6, <1>16, <2>1, <2>3
    <3>2. stop \notin L
      BY <1>6, <2>1, <2>3
    <3> QED  BY <1>4, <1>11, <1>13, <3>1, <3>2
  <2>4. CASE stop \in R
    <3>1. KeyOf[k] < KeyOf[stop]
      BY <1>6, <2>4
    <3>2. stop \notin L /\ stop # k
      BY <1>6, <2>1, <3>1
    <3>3. p \in R => p \in Elems(t)
      BY <1>5, <1>16, <2>4
    <3> QED  BY <1>4, <1>11, <1>13, <3>2, <3>3
  <2> QED  BY <1>16, <2>2, <2>3, <2>4
<1>17. VisitedInOrder(v, H, stop)
  BY <1>13, <1>14, <1>15, <1>16 DEF VisitedInOrder
<1> QED  BY <1>17 DEF v, m, d, c, H

\* A traversal in order calls the callback by rising keys, on every payload or on all up to
\* the one it stops at, and maybe some more: a stop in a left subtree is dropped
\* (bst.c:658-682).
THEOREM InOrderVisits ==
  ASSUME NEW x \in Tree, x \in Ordered, NEW stop
  PROVE  VisitedInOrder(traversal_node(x, "TRAVERSAL_IN_ORDER", stop), held[x], stop)
<1> DEFINE Visit(y) == traversal_node(y, "TRAVERSAL_IN_ORDER", stop)
           S == {y \in Tree : y \in Ordered => VisitedInOrder(Visit(y), held[y], stop)}
<1>v. VisitSteps("TRAVERSAL_IN_ORDER", stop)
  BY VisitIs
<1> HIDE DEF Visit
<1>1. NULL \in S
  <2>1. held[NULL] = {} /\ Visit(NULL) = Nothing
    BY <1>v, HeldIs DEF VisitSteps, IsHeld, Visit
  <2> QED  BY <2>1, TreeParts, NothingSeen DEF VisitedInOrder
<1>2. ASSUME NEW y \in Node, y.left_child \in S, y.right_child \in S
      PROVE  y \in S
  <2> DEFINE l == Visit(y.left_child)
             r == Visit(y.right_child)
             L == held[y.left_child]
             R == held[y.right_child]
             k == y.key
  <2>1. y \in AnyNode /\ y \in Tree /\ y.left_child \in Tree /\ y.right_child \in Tree
    BY TreeParts DEF Node
  <2> SUFFICES ASSUME y \in Ordered PROVE VisitedInOrder(Visit(y), held[y], stop)
    BY <2>1
  <2>2. l \in Visits /\ r \in Visits /\ k \in Payload /\ L \in SUBSET Payload /\ R \in SUBSET Payload
    BY <1>v, <2>1, NodeIs, KeysAre DEF VisitSteps, Visit
  <2>3. VisitedInOrder(l, L, stop) /\ VisitedInOrder(r, R, stop) /\ Between(L, k, R)
    BY <1>2, <2>1, OrderedIs
  <2>4. held[y] = {k} \cup L \cup R
    BY <2>1, NodeIs
  <2>5. Visit(y) = Then(Dropped(l), Then(Call(k, stop), r))
    BY <1>v DEF VisitSteps, Visit, Visiting
  <2> HIDE DEF l, r, k, L, R
  <2> QED  BY <2>2, <2>3, <2>4, <2>5, InOrderStep
<1>3. Tree \in SUBSET S
  <2> HIDE DEF S
  <2> QED  BY <1>1, <1>2, InTree
<1> QED  BY <1>3 DEF Visit


-----------------------------------------------------------------------------
(***************************************************************************)
(* The calls.                                                              *)
(***************************************************************************)
\* The inductive invariant: a search tree in balance.
TreeInv ==
  /\ root \in Ordered /\ root \in EvenTrees
  /\ freed \in SUBSET Payload /\ alive \in BOOLEAN
  /\ {"call", "result"} \in SUBSET DOMAIN ret

\* A search tree is one the recursive functions are defined on, and finite.
LEMMA RootHeld ==
  \A x \in Ordered : /\ x \in Tree /\ x \in AnyTree /\ PayloadsIn[x] = held[x]
                     /\ held[x] \in SUBSET Payload /\ IsFiniteSet(held[x])
<1> SUFFICES ASSUME NEW x \in Ordered
             PROVE  /\ x \in Tree /\ x \in AnyTree /\ PayloadsIn[x] = held[x]
                    /\ held[x] \in SUBSET Payload /\ IsFiniteSet(held[x])
  OBVIOUS
<1>1. x \in Tree /\ x \in AnyTree
  BY OrderedInTree, OrderedIs
<1>2. held[x] \in SUBSET Payload
  BY <1>1, KeysAre
<1> QED  BY <1>1, <1>2, PayloadsInIs, AVLTreeAssumption, FS_Subset

\* The empty tree.
LEMMA NullIs == NULL \in Ordered /\ NULL \in EvenTrees /\ held[NULL] = {}
  BY OrderedIs, EvenIs, HeldIs DEF IsHeld

\* bst_insert keeps the invariant.
LEMMA Inserted ==
  ASSUME TreeInv, NEW p \in Payload, NEW replace, NEW callback, NEW clobbered,
         bst_insert(p, replace, callback, clobbered)
  PROVE  TreeInv' /\ held[root'] = After(held[root], p, replace, callback)
<1>1. root \in Tree /\ root \in Ordered /\ root \in EvenTrees
  BY RootHeld DEF TreeInv
<1>2. root' = insert_node(root, p, replace, callback)
  BY DEF bst_insert
<1> DEFINE y == insert_node(root, p, replace, callback)
<1>3. y \in Ordered /\ y \in EvenTrees /\ held[y] = After(held[root], p, replace, callback)
  BY <1>1, InsertMakes
<1> HIDE DEF y
<1>4. root' = y
  BY <1>2 DEF y
<1>5. freed' \in SUBSET Payload
  <2>1. freed' = freed \cup Replaced(p, replace, callback)
    BY DEF bst_insert
  <2>2. get_node(root, p) \in Payload \/ get_node(root, p) = NULL
    BY <1>1, GetFinds
  <2>3. Replaced(p, replace, callback) \in SUBSET Payload
    BY <2>2 DEF Replaced
  <2> QED  BY <2>1, <2>3 DEF TreeInv
<1>6. {"call", "result"} \in SUBSET DOMAIN ret' /\ alive' = alive
  BY DEF bst_insert
<1> QED  BY <1>3, <1>4, <1>5, <1>6 DEF TreeInv

\* What bst_remove answers.
Removal(p, free, result) ==
  [call |-> "bst_remove", key |-> KeyOf[p], free |-> free, result |-> result]

\* bst_remove keeps the invariant.
LEMMA RemovedIs ==
  ASSUME TreeInv, NEW p \in Payload, NEW free, bst_remove(p, free)
  PROVE  /\ TreeInv'
         /\ \/ /\ Same(held[root], p) = {} /\ root' = root /\ freed' = freed
               /\ ret' = Removal(p, free, "BST_NODE_NOT_FOUND")
            \/ /\ get_node(root, p) \in Payload /\ Same(held[root], p) = {get_node(root, p)}
               /\ held[root'] = Without(held[root], p)
               /\ ret' = Removal(p, free, "BST_REMOVE_SUCCESS")
               /\ freed' = IF free = "FREE_PAYLOAD_TRUE"
                           THEN freed \cup {get_node(root, p)} ELSE freed
<1>1. root \in Tree /\ root \in Ordered /\ root \in EvenTrees
  BY RootHeld DEF TreeInv
<1>2. \A r : {"call", "result"} \in SUBSET DOMAIN Removal(p, free, r)
  BY DEF Removal
<1>3. CASE get_node(root, p) = NULL
  <2>1. /\ root' = root /\ freed' = freed /\ alive' = alive
        /\ ret' = Removal(p, free, "BST_NODE_NOT_FOUND")
    BY <1>3 DEF bst_remove, Removal
  <2>2. Same(held[root], p) = {}
    BY <1>1, <1>3, GetFinds, AVLTreeAssumption
  <2>3. TreeInv'
    BY <1>2, <2>1 DEF TreeInv
  <2> QED  BY <2>1, <2>2, <2>3
<1>4. CASE get_node(root, p) # NULL
  <2>1. /\ root' = remove_node[root][p] /\ alive' = alive
        /\ freed' = IF free = "FREE_PAYLOAD_TRUE" THEN freed \cup {get_node(root, p)} ELSE freed
        /\ ret' = Removal(p, free, "BST_REMOVE_SUCCESS")
    BY <1>4 DEF bst_remove, Removed, Removal
  <2>2. get_node(root, p) \in Payload /\ Same(held[root], p) = {get_node(root, p)}
    BY <1>1, <1>4, GetFinds
  <2> DEFINE y == remove_node[root][p]
  <2>3. y \in Ordered /\ y \in EvenTrees /\ held[y] = Without(held[root], p)
    BY <1>1, RemoveMakes
  <2> HIDE DEF y
  <2>4. root' = y
    BY <2>1 DEF y
  <2>5. freed' \in SUBSET Payload
    BY <2>1, <2>2 DEF TreeInv
  <2>6. TreeInv'
    BY <1>2, <2>1, <2>3, <2>4, <2>5 DEF TreeInv
  <2> QED  BY <2>1, <2>2, <2>3, <2>4, <2>6
<1> QED  BY <1>3, <1>4

\* A call that changes neither tree nor freed payloads keeps it.
LEMMA Untouched ==
  ASSUME TreeInv, root' = root, freed' = freed, alive' = alive,
         {"call", "result"} \in SUBSET DOMAIN ret'
  PROVE  TreeInv'
BY DEF TreeInv

\* bst_get_node does not.
LEMMA Gotten ==
  ASSUME TreeInv, NEW p, bst_get_node(p)
  PROVE  TreeInv' /\ root' = root
<1>1. {"call", "result"} \in SUBSET DOMAIN ret' /\ root' = root /\ freed' = freed /\ alive' = alive
  BY DEF bst_get_node
<1> QED  BY <1>1, Untouched

\* bst_traversal does not.
LEMMA Traversed ==
  ASSUME TreeInv, NEW type, NEW stop, bst_traversal(type, stop)
  PROVE  TreeInv' /\ root' = root
<1>1. {"call", "result"} \in SUBSET DOMAIN ret' /\ root' = root /\ freed' = freed /\ alive' = alive
  BY DEF bst_traversal
<1> QED  BY <1>1, Untouched

\* bst_destroy keeps the invariant.
LEMMA DestroyedIs ==
  ASSUME TreeInv, NEW free, bst_destroy(free)
  PROVE  TreeInv' /\ root' = NULL /\ alive' = FALSE
<1>1. /\ root' = NULL /\ alive' = FALSE
      /\ ret' = [call |-> "bst_destroy", free |-> free, result |-> NULL]
      /\ freed' = IF free = "FREE_PAYLOAD_TRUE" THEN freed \cup Held ELSE freed
  BY DEF bst_destroy
<1>2. Held \in SUBSET Payload
  BY RootHeld DEF TreeInv, Held
<1>3. freed' \in SUBSET Payload
  BY <1>1, <1>2 DEF TreeInv
<1>4. {"call", "result"} \in SUBSET DOMAIN ret'
  BY <1>1
<1> QED  BY <1>1, <1>3, <1>4, NullIs DEF TreeInv

\* What the calls of the map do to its count; the bare tree leaves it alone.
Kept == count' = count

Put == \/ api = "tree" /\ Kept
       \/ count' = count + returned'

Taken == \/ api = "tree" /\ Kept
         \/ count' = IF ret'.result = "BST_REMOVE_SUCCESS" THEN count - 1 ELSE count

Replaces == {"REPLACE_PAYLOAD_TRUE", "REPLACE_PAYLOAD_FALSE"}
Callbacks == {"NULL", "accepts", "refuses"}
Frees == {"FREE_PAYLOAD_TRUE", "FREE_PAYLOAD_FALSE"}

Inserting == \E p \in Payload, clobbered \in BOOLEAN, replace \in Replaces, callback \in Callbacks :
               bst_insert(p, replace, callback, clobbered) /\ Put
Removing == \E p \in Payload, free \in Frees : bst_remove(p, free) /\ Taken
Getting == \E p \in Payload : bst_get_node(p) /\ Kept
Traversing == \E type \in Orders, stop \in Held \cup {NULL} : bst_traversal(type, stop) /\ Kept
Destroying == \E free \in Frees : bst_destroy(free) /\ Kept

\* Whichever way it is called, the tree is called in one of five ways.
LEMMA NextIs ==
  ASSUME Next
  PROVE  alive /\ api' = api /\ (Inserting \/ Removing \/ Getting \/ Traversing \/ Destroying)
<1>1. CASE TreeNext
  <2>1. alive /\ api = "tree" /\ api' = api /\ Kept
    BY <1>1 DEF TreeNext, Kept
  <2>2. Put /\ Taken
    BY <2>1 DEF Put, Taken
  <2>3. CASE \E payload \in Payload, clobbered \in BOOLEAN,
                replace \in {"REPLACE_PAYLOAD_TRUE", "REPLACE_PAYLOAD_FALSE"},
                callback \in {"NULL", "accepts", "refuses"} :
               bst_insert(payload, replace, callback, clobbered)
    BY <2>1, <2>2, <2>3 DEF Inserting, Replaces, Callbacks
  <2>4. CASE \E payload \in Payload, free \in {"FREE_PAYLOAD_TRUE", "FREE_PAYLOAD_FALSE"} :
               bst_remove(payload, free)
    BY <2>1, <2>2, <2>4 DEF Removing, Frees
  <2>5. CASE \E payload \in Payload : bst_get_node(payload)
    BY <2>1, <2>5 DEF Getting
  <2>6. CASE \E type \in Orders, stop \in Held \cup {NULL} : bst_traversal(type, stop)
    BY <2>1, <2>6 DEF Traversing
  <2>7. CASE \E free \in {"FREE_PAYLOAD_TRUE", "FREE_PAYLOAD_FALSE"} : bst_destroy(free)
    BY <2>1, <2>7 DEF Destroying, Frees
  <2> QED  BY <1>1, <2>3, <2>4, <2>5, <2>6, <2>7 DEF TreeNext
<1>2. CASE MapNext
  <2>1. alive /\ \A p \in MapPayload : p \in Payload
    BY <1>2, TreeMapAssumption DEF MapNext
  <2>2. ASSUME NEW p \in Payload, NEW callback \in Callbacks, NEW clobbered \in BOOLEAN,
               put_key_val_adv(p, callback, clobbered)
        PROVE  api' = api /\ Inserting
    <3>1. /\ bst_insert(p, "REPLACE_PAYLOAD_TRUE", callback, clobbered)
          /\ api' = api /\ Put
      BY <2>2 DEF put_key_val_adv, Put
    <3>2. "REPLACE_PAYLOAD_TRUE" \in Replaces
      BY DEF Replaces
    <3> QED  BY <3>1, <3>2 DEF Inserting
  <2>3. CASE \E key_val \in MapPayload : put_key_val(key_val)
    <3>1. FALSE \in BOOLEAN /\ "NULL" \in Callbacks
      BY DEF Callbacks
    <3> QED  BY <2>1, <2>2, <2>3, <3>1 DEF put_key_val
  <2>4. CASE \E key_val \in MapPayload, callback \in {"accepts", "refuses"}, clobbered \in BOOLEAN :
               put_key_val_adv(key_val, callback, clobbered)
    BY <2>1, <2>2, <2>4 DEF Callbacks
  <2>5. CASE \E key \in MapPayload : get_key_val(key) \/ remove_key_val(key)
    <3>1. PICK key \in MapPayload : get_key_val(key) \/ remove_key_val(key)
      BY <2>5
    <3>2. CASE get_key_val(key)
      BY <2>1, <3>2 DEF get_key_val, Getting, Kept
    <3>3. CASE remove_key_val(key)
      <4>1. bst_remove(key, "FREE_PAYLOAD_TRUE") /\ api' = api /\ Taken
        BY <3>3 DEF remove_key_val, Taken
      <4>2. "FREE_PAYLOAD_TRUE" \in Frees
        BY DEF Frees
      <4> QED  BY <2>1, <4>1, <4>2 DEF Removing
    <3> QED  BY <3>1, <3>2, <3>3
  <2>6. CASE \E stop \in Held \cup {NULL} : contains_value(stop) \/ recurse_dict(stop)
    <3>1. {"TRAVERSAL_PRE_ORDER", "TRAVERSAL_IN_ORDER"} \in SUBSET Orders
      BY DEF Orders
    <3> QED  BY <2>1, <2>6, <3>1 DEF contains_value, recurse_dict, Traversing, Kept
  <2>7. CASE destroy_dict
    BY <2>1, <2>7 DEF destroy_dict, Destroying, Kept, Frees
  <2> QED  BY <1>2, <2>1, <2>3, <2>4, <2>5, <2>6, <2>7 DEF MapNext
<1> QED  BY <1>1, <1>2 DEF Next

\* The invariant is inductive: it holds at first,
LEMMA TreeStarts == ASSUME Init PROVE TreeInv
<1>1. /\ root = NULL /\ freed = {} /\ alive = TRUE
      /\ ret = [call |-> "bst_init", result |-> NULL]
  BY DEF Init, TreeInit
<1>2. {"call", "result"} \in SUBSET DOMAIN ret
  BY <1>1
<1> QED  BY <1>1, <1>2, NullIs DEF TreeInv

\* every step keeps it,
LEMMA TreeSteps == ASSUME TreeInv, [Next]_vars PROVE TreeInv'
<1>1. CASE Next
  <2>1. CASE Inserting
    BY <2>1, Inserted DEF Inserting
  <2>2. CASE Removing
    BY <2>2, RemovedIs DEF Removing
  <2>3. CASE Getting
    BY <2>3, Gotten DEF Getting
  <2>4. CASE Traversing
    BY <2>4, Traversed DEF Traversing
  <2>5. CASE Destroying
    BY <2>5, DestroyedIs DEF Destroying
  <2> QED  BY <1>1, <2>1, <2>2, <2>3, <2>4, <2>5, NextIs
<1>2. CASE UNCHANGED vars
  BY <1>2 DEF vars, treeVars, TreeInv
<1> QED  BY <1>1, <1>2

\* and so it always holds.
LEMMA TreeStays == Spec => []TreeInv
BY TreeStarts, TreeSteps, PTL DEF Spec

\* It has every node in one place: the pre-order visit is as long as what is held is many.
LEMMA TreeIsTyped == ASSUME TreeInv PROVE TreeTypeOK
<1> DEFINE v == traversal_node(root, "TRAVERSAL_PRE_ORDER", NULL)
           s == v.seen
           H == held[root]
<1>1. root \in Tree /\ root \in Ordered /\ H \in SUBSET Payload /\ Held = H
  BY RootHeld DEF TreeInv, Held
<1>2. Visited(v, H, NULL) /\ v \in Visits
  BY <1>1, TraversalVisits, VisitIs DEF VisitSteps
<1>3. NULL \notin H
  BY <1>1, AVLTreeAssumption
<1> HIDE DEF v, H
<1>4. s \in Seq(Payload)
  BY <1>2 DEF Visits
<1>5. Distinct(s) /\ Elems(s) = H
  BY <1>2, <1>3 DEF Visited
<1> HIDE DEF s
<1>6. Len(s) = Cardinality(Held)
  BY <1>1, <1>4, <1>5, DistinctCounts
<1> QED  BY <1>1, <1>6 DEF TreeInv, TreeTypeOK, s, v

\* The tree is a finite tree of nodes, and no payload is in it twice.
THEOREM TreeTypesHold == Spec => []TreeTypeOK
BY TreeStays, TreeIsTyped, PTL

\* It is a search tree after every call, so lookup, which goes down one side, misses
\* nothing (bst.c:325-347).
THEOREM TreeSearches == Spec => []SearchTree
<1>1. TreeInv => SearchTree
  BY RootHeld, OrderedIsSearchTree DEF TreeInv
<1> QED  BY <1>1, TreeStays, PTL

\* It is in balance and every cached height is right after every call, however many nodes
\* an insertion or removal rotates (bst.c:310-313, 440-442).
THEOREM TreeBalanced == Spec => []Balanced
<1>1. TreeInv => Balanced
  BY RootHeld, EvenIsBalanced DEF TreeInv
<1> QED  BY <1>1, TreeStays, PTL


-----------------------------------------------------------------------------
(***************************************************************************)
(* The count of the map.                                                   *)
(***************************************************************************)
KeysOf(H) == {KeyOf[p] : p \in H}

\* A finite set of payloads has finitely many keys.
LEMMA KeysCounted ==
  ASSUME NEW H, IsFiniteSet(H)
  PROVE  IsFiniteSet(KeysOf(H)) /\ Cardinality(KeysOf(H)) \in Nat
<1>1. IsFiniteSet(KeysOf(H))
  <2> DEFINE f == [p \in H |-> KeyOf[p]]
             T == KeysOf(H)
  <2>1. f \in [H -> T] /\ \A k \in T : \E p \in H : f[p] = k
    BY DEF KeysOf
  <2> HIDE DEF f, T
  <2>2. f \in Surjection(H, T)
    BY <2>1 DEF Surjection
  <2> QED  BY <2>2, FS_Surjection DEF T
<1> QED  BY <1>1, FS_CardinalityType

\* An insertion adds the key of what is inserted, or none.
LEMMA AfterKeys ==
  ASSUME NEW H, NEW p, NEW replace, NEW callback
  PROVE  KeysOf(After(H, p, replace, callback)) \in {KeysOf(H), KeysOf(H) \cup {KeyOf[p]}}
<1> DEFINE G == After(H, p, replace, callback)
<1>1. G = H \/ G = H \cup {p} \/ (G = (H \ Same(H, p)) \cup {p} /\ Same(H, p) # {})
  BY DEF After
<1> HIDE DEF G
<1>2. CASE G = H
  BY <1>2 DEF G
<1>3. CASE G = H \cup {p}
  <2>1. KeysOf(G) = KeysOf(H) \cup {KeyOf[p]}
    BY <1>3 DEF KeysOf
  <2> QED  BY <2>1 DEF G
<1>4. CASE G = (H \ Same(H, p)) \cup {p} /\ Same(H, p) # {}
  <2>1. KeysOf(G) = KeysOf(H) \cup {KeyOf[p]}
    BY <1>4 DEF KeysOf, Same
  <2> QED  BY <2>1 DEF G
<1> QED  BY <1>1, <1>2, <1>3, <1>4

\* A removal takes the key of what is removed.
LEMMA WithoutKeys ==
  ASSUME NEW H, NEW p, Same(H, p) # {}
  PROVE  /\ KeysOf(Without(H, p)) = KeysOf(H) \ {KeyOf[p]}
         /\ KeyOf[p] \in KeysOf(H)
BY DEF KeysOf, Without, Same

\* bst_insert reports success when the key is there afterwards.
LEMMA InsertReports ==
  ASSUME TreeInv, NEW p \in Payload, NEW replace, NEW callback, NEW clobbered \in BOOLEAN
  PROVE  global_result(p, callback, clobbered) = 1
           <=> KeyOf[p] \in KeysOf(After(held[root], p, replace, callback)) /\ ~clobbered
<1> DEFINE H == held[root]
           G == After(H, p, replace, callback)
<1>1. \/ Same(H, p) = {} /\ get_node(root, p) = NULL
      \/ Same(H, p) # {} /\ get_node(root, p) # NULL
  BY RootHeld, GetFinds, AVLTreeAssumption DEF TreeInv
<1> HIDE DEF H
<1>2. CASE clobbered
  BY <1>2 DEF global_result
<1>3. CASE ~clobbered /\ Same(H, p) = {} /\ get_node(root, p) = NULL /\ callback = "refuses"
  <2>1. global_result(p, callback, clobbered) = 0
    BY <1>3 DEF global_result
  <2>2. KeyOf[p] \notin KeysOf(G)
    BY <1>3 DEF After, Same, KeysOf
  <2> QED  BY <2>1, <2>2 DEF H
<1>4. CASE ~clobbered /\ Same(H, p) = {} /\ get_node(root, p) = NULL /\ callback # "refuses"
  <2>1. global_result(p, callback, clobbered) = 1
    BY <1>4 DEF global_result
  <2>2. KeyOf[p] \in KeysOf(G)
    BY <1>4 DEF After, KeysOf
  <2> QED  BY <1>4, <2>1, <2>2 DEF H
<1>5. CASE ~clobbered /\ Same(H, p) # {} /\ get_node(root, p) # NULL
  <2>1. global_result(p, callback, clobbered) = 1
    BY <1>5 DEF global_result
  <2>2. KeyOf[p] \in KeysOf(G)
    BY <1>5 DEF After, Same, KeysOf
  <2> QED  BY <1>5, <2>1, <2>2 DEF H
<1> QED  BY <1>1, <1>2, <1>3, <1>4, <1>5

\* What an insertion does to the keys, to the count and to its answer.
LEMMA InsertCounts ==
  ASSUME TreeInv, count \in Int, NEW p \in Payload, NEW replace, NEW callback,
         NEW clobbered \in BOOLEAN, bst_insert(p, replace, callback, clobbered),
         count' = count + returned'
  PROVE  CountStep
<1> DEFINE H == held[root]
           G == After(H, p, replace, callback)
           K == KeysOf(H)
           k == KeyOf[p]
<1>1. TreeInv' /\ held[root'] = G
  BY Inserted
<1>2. Keys = K /\ Keys' = KeysOf(G)
  <2>1. Held = H /\ Held' = G
    BY <1>1, RootHeld DEF TreeInv, Held
  <2> QED  BY <2>1 DEF Keys, KeysOf
<1>3. IsFiniteSet(K) /\ Cardinality(K) \in Nat
  BY RootHeld, KeysCounted DEF TreeInv
<1>4. global_result(p, callback, clobbered) = 1 <=> k \in Keys' /\ ~clobbered
  BY <1>2, InsertReports
<1>5. /\ ret'.call = "bst_insert" /\ ret'.payload = p /\ ret'.clobbered = clobbered
      /\ ret'.result = IF global_result(p, callback, clobbered) = 1
                       THEN "BST_INSERT_SUCCESS" ELSE "BST_INSERT_FAILURE"
  BY DEF bst_insert
<1>6. Keys' = K \/ Keys' = K \cup {k}
  <2> HIDE DEF H
  <2> QED  BY <1>2, AfterKeys
<1> HIDE DEF K, k
<1>7. returned' = IF k \in Keys' /\ ~clobbered THEN 1 ELSE 0
  BY <1>4, <1>5 DEF returned
<1>8. /\ CountsAgain(ret') <=> ~clobbered /\ k \in K
      /\ GoesMissing(ret') <=> clobbered /\ k \in Keys' \ K
  BY <1>2, <1>5 DEF CountsAgain, GoesMissing, k
<1>9. Cardinality(Keys') = IF k \in Keys' \ K THEN Cardinality(K) + 1 ELSE Cardinality(K)
  <2>1. CASE k \in K \/ Keys' = K
    <3>1. Keys' = K
      BY <1>6, <2>1
    <3> QED  BY <3>1
  <2>2. CASE k \notin K /\ Keys' = K \cup {k}
    BY <1>3, <2>2, FS_AddElement
  <2> QED  BY <1>6, <2>1, <2>2
<1>10. k \in K => k \in Keys'
  BY <1>6
<1> DEFINE n == Cardinality(K)
           m == Cardinality(Keys')
<1>11. /\ n \in Nat /\ m = IF k \in Keys' \ K THEN n + 1 ELSE n
       /\ Cardinality(Keys) = n
  BY <1>2, <1>3, <1>9
<1> HIDE DEF n, m
<1>12. CASE clobbered
  BY <1>7, <1>8, <1>11, <1>12 DEF CountStep, m
<1>13. CASE ~clobbered
  BY <1>7, <1>8, <1>10, <1>11, <1>13 DEF CountStep, m
<1> QED  BY <1>12, <1>13

\* What a removal does to them.
LEMMA RemovalCounts ==
  ASSUME TreeInv, count \in Int, NEW p \in Payload, NEW free, bst_remove(p, free),
         count' = IF ret'.result = "BST_REMOVE_SUCCESS" THEN count - 1 ELSE count
  PROVE  CountStep
<1> DEFINE H == held[root]
           K == KeysOf(H)
<1>1. TreeInv'
  BY RemovedIs
<1>2. Keys = K /\ Keys' = KeysOf(held[root'])
  <2>1. Held = H /\ Held' = held[root']
    BY <1>1, RootHeld DEF TreeInv, Held
  <2> QED  BY <2>1 DEF Keys, KeysOf
<1>3. IsFiniteSet(K) /\ Cardinality(K) \in Nat
  BY RootHeld, KeysCounted DEF TreeInv
<1>4. \/ root' = root /\ ret' = Removal(p, free, "BST_NODE_NOT_FOUND")
      \/ /\ Same(H, p) # {} /\ held[root'] = Without(H, p)
         /\ ret' = Removal(p, free, "BST_REMOVE_SUCCESS")
  BY RemovedIs
<1>5. ret'.call = "bst_remove"
  BY <1>4 DEF Removal
<1>6. ~CountsAgain(ret') /\ ~GoesMissing(ret')
  BY <1>5 DEF CountsAgain, GoesMissing
<1> HIDE DEF H, K
<1>7. CASE root' = root /\ ret' = Removal(p, free, "BST_NODE_NOT_FOUND")
  <2>1. count' = count
    BY <1>7 DEF Removal
  <2>2. Keys' = K
    BY <1>2, <1>7 DEF K, H
  <2> QED  BY <1>2, <1>3, <1>6, <2>1, <2>2 DEF CountStep
<1>8. CASE /\ Same(H, p) # {} /\ held[root'] = Without(H, p)
           /\ ret' = Removal(p, free, "BST_REMOVE_SUCCESS")
  <2>1. count' = count - 1
    BY <1>8 DEF Removal
  <2>2. Keys' = K \ {KeyOf[p]} /\ KeyOf[p] \in K
    BY <1>2, <1>8, WithoutKeys DEF K
  <2>3. Cardinality(Keys') = Cardinality(K) - 1
    BY <1>3, <2>2, FS_RemoveElement
  <2> QED  BY <1>2, <1>3, <1>6, <2>1, <2>3 DEF CountStep
<1> QED  BY <1>4, <1>7, <1>8

\* Every step moves the count as it moves the keys, but for the two exceptions.
LEMMA CountSteps ==
  ASSUME TreeInv, count \in Int, [Next]_vars
  PROVE  count' \in Int /\ (CountStep \/ UNCHANGED vars)
<1>1. CASE Next
  <2>1. alive /\ api' = api /\ (Inserting \/ Removing \/ Getting \/ Traversing \/ Destroying)
    BY <1>1, NextIs
  <2>2. CASE api = "tree" /\ Kept
    BY <2>2 DEF Kept, CountStep
  <2>3. CASE Inserting /\ ~(api = "tree" /\ Kept)
    <3>1. PICK p \in Payload, clobbered \in BOOLEAN, replace \in Replaces, callback \in Callbacks :
            bst_insert(p, replace, callback, clobbered) /\ Put
      BY <2>3 DEF Inserting
    <3>2. count' = count + returned'
      BY <2>3, <3>1 DEF Put
    <3>3. returned' \in {0, 1}
      BY DEF returned
    <3> QED  BY <3>1, <3>2, <3>3, InsertCounts
  <2>4. CASE Removing /\ ~(api = "tree" /\ Kept)
    <3>1. PICK p \in Payload, free \in Frees : bst_remove(p, free) /\ Taken
      BY <2>4 DEF Removing
    <3>2. count' = IF ret'.result = "BST_REMOVE_SUCCESS" THEN count - 1 ELSE count
      BY <2>4, <3>1 DEF Taken
    <3>3. count' \in Int
      BY <3>2
    <3> QED  BY <3>1, <3>2, <3>3, RemovalCounts
  <2>5. CASE Getting \/ Traversing
    <3>1. root' = root /\ count' = count
      BY <2>5, Gotten, Traversed DEF Getting, Traversing, Kept
    <3>2. ret'.call \in {"bst_get_node", "bst_traversal"}
      BY <2>5 DEF Getting, Traversing, bst_get_node, bst_traversal
    <3>3. ~CountsAgain(ret') /\ ~GoesMissing(ret')
      BY <3>2 DEF CountsAgain, GoesMissing
    <3>4. Keys' = Keys
      BY <3>1 DEF Keys, Held
    <3>5. Cardinality(Keys) \in Nat
      <4>1. Keys = KeysOf(held[root])
        BY RootHeld DEF TreeInv, Keys, Held, KeysOf
      <4> QED  BY <4>1, RootHeld, KeysCounted DEF TreeInv
    <3> QED  BY <3>1, <3>3, <3>4, <3>5 DEF CountStep
  <2>6. CASE Destroying
    BY <2>6, DestroyedIs DEF Destroying, Kept, CountStep
  <2> QED  BY <2>1, <2>2, <2>3, <2>4, <2>5, <2>6
<1>2. CASE UNCHANGED vars
  BY <1>2 DEF vars
<1> QED  BY <1>1, <1>2

CountIsInt == count \in Int

\* get_size moves with the number of keys in the map at every call, but for a put that
\* finds its key present, which counts once more, and one that brings a key in while its
\* callback inserts elsewhere, which does not count (tree_map_avl.c:66-78, 136-142).
THEOREM CountFollows == Spec => CountFollowsKeys
<1>1. Init => CountIsInt
  BY DEF Init, CountIsInt
<1>2. TreeInv /\ CountIsInt /\ [Next]_vars => CountIsInt'
  BY CountSteps DEF CountIsInt
<1>3. TreeInv /\ CountIsInt /\ [Next]_vars => [CountStep]_vars
  BY CountSteps DEF CountIsInt
<1> QED  BY <1>1, <1>2, <1>3, TreeStays, PTL DEF Spec, CountFollowsKeys


-----------------------------------------------------------------------------
(***************************************************************************)
(* The tree implements the sorted map.                                     *)
(***************************************************************************)
Unique(H) == \A p, q \in H : KeyOf[p] = KeyOf[q] => p = q

\* What is under each key.
EntriesOf(H) == [k \in KeysOf(H) |-> CHOOSE p \in H : KeyOf[p] = k]

\* A search tree holds one payload under each key.
LEMMA OrderedUnique ==
  ASSUME NEW x \in Ordered
  PROVE  Unique(held[x])
<1> SUFFICES ASSUME NEW p \in held[x], NEW q \in held[x], KeyOf[p] = KeyOf[q] PROVE p = q
  BY DEF Unique
<1>1. x \in Tree /\ p \in Payload /\ p \in Same(held[x], p) /\ q \in Same(held[x], p)
  BY RootHeld DEF Same
<1>2. Same(held[x], p) = {} \/ Same(held[x], p) = {get_node(x, p)}
  BY <1>1, GetFinds
<1> QED  BY <1>1, <1>2

\* EntriesOf has each payload under its key.
LEMMA EntriesIs ==
  ASSUME NEW H, Unique(H)
  PROVE  /\ DOMAIN EntriesOf(H) = KeysOf(H)
         /\ \A p \in H : KeyOf[p] \in KeysOf(H) /\ EntriesOf(H)[KeyOf[p]] = p
         /\ {EntriesOf(H)[k] : k \in KeysOf(H)} = H
<1>1. DOMAIN EntriesOf(H) = KeysOf(H)
  BY DEF EntriesOf
<1>2. ASSUME NEW p \in H
      PROVE  KeyOf[p] \in KeysOf(H) /\ EntriesOf(H)[KeyOf[p]] = p
  <2>1. KeyOf[p] \in KeysOf(H)
    BY DEF KeysOf
  <2>2. EntriesOf(H)[KeyOf[p]] = CHOOSE q \in H : KeyOf[q] = KeyOf[p]
    BY <2>1 DEF EntriesOf
  <2> QED  BY <2>1, <2>2 DEF Unique
<1>3. \A k \in KeysOf(H) : \E p \in H : k = KeyOf[p]
  BY DEF KeysOf
<1> HIDE DEF EntriesOf
<1> QED  BY <1>1, <1>2, <1>3

\* A function with these keys that gives each payload back is this one.
LEMMA EntriesAre ==
  ASSUME NEW H, Unique(H), NEW f, f = [k \in KeysOf(H) |-> f[k]], \A p \in H : f[KeyOf[p]] = p
  PROVE  EntriesOf(H) = f
<1>1. ASSUME NEW k \in KeysOf(H)
      PROVE  EntriesOf(H)[k] = f[k]
  <2>1. PICK p \in H : k = KeyOf[p]
    BY DEF KeysOf
  <2> QED  BY <2>1, EntriesIs
<1>2. EntriesOf(H) = [k \in KeysOf(H) |-> EntriesOf(H)[k]]
  BY DEF EntriesOf
<1> HIDE DEF EntriesOf
<1> QED  BY <1>1, <1>2

\* Putting p in, under a new key or for what was there.
LEMMA EntriesWith ==
  ASSUME NEW H, NEW p, Unique(H)
  PROVE  LET G == (H \ Same(H, p)) \cup {p}
         IN  /\ Unique(G)
             /\ EntriesOf(G) = [k \in KeysOf(H) \cup {KeyOf[p]} |->
                                  IF k = KeyOf[p] THEN p ELSE EntriesOf(H)[k]]
<1> DEFINE G == (H \ Same(H, p)) \cup {p}
           E == EntriesOf(H)
           f == [k \in KeysOf(H) \cup {KeyOf[p]} |-> IF k = KeyOf[p] THEN p ELSE E[k]]
<1>1. \A q \in G : q = p \/ (q \in H /\ KeyOf[q] # KeyOf[p])
  BY DEF Same
<1>2. Unique(G)
  BY <1>1 DEF Unique
<1>3. KeysOf(G) = KeysOf(H) \cup {KeyOf[p]}
  BY DEF KeysOf, Same
<1>4. \A q \in H : KeyOf[q] \in KeysOf(H) /\ E[KeyOf[q]] = q
  BY EntriesIs
<1> HIDE DEF E, G
<1>5. ASSUME NEW q \in G PROVE f[KeyOf[q]] = q
  BY <1>1, <1>4
<1>6. f = [k \in KeysOf(G) |-> f[k]]
  BY <1>3
<1> HIDE DEF f
<1>7. EntriesOf(G) = f
  BY <1>2, <1>5, <1>6, EntriesAre
<1> QED  BY <1>2, <1>7 DEF G, f, E

\* Taking out what has the key of p.
LEMMA EntriesWithout ==
  ASSUME NEW H, NEW p, Unique(H)
  PROVE  LET G == Without(H, p)
         IN  EntriesOf(G) = [k \in KeysOf(H) \ {KeyOf[p]} |-> EntriesOf(H)[k]]
<1> DEFINE G == Without(H, p)
           E == EntriesOf(H)
           f == [k \in KeysOf(H) \ {KeyOf[p]} |-> E[k]]
<1>1. \A q \in G : q \in H /\ KeyOf[q] # KeyOf[p]
  BY DEF Same, Without
<1>2. Unique(G)
  BY <1>1 DEF Unique
<1>3. KeysOf(G) = KeysOf(H) \ {KeyOf[p]}
  BY DEF KeysOf, Same, Without
<1>4. \A q \in H : KeyOf[q] \in KeysOf(H) /\ E[KeyOf[q]] = q
  BY EntriesIs
<1> HIDE DEF E, G
<1>5. ASSUME NEW q \in G PROVE f[KeyOf[q]] = q
  BY <1>1, <1>4
<1>6. f = [k \in KeysOf(G) |-> f[k]]
  BY <1>3
<1> HIDE DEF f
<1>7. EntriesOf(G) = f
  BY <1>2, <1>5, <1>6, EntriesAre
<1> QED  BY <1>7 DEF G, f, E

\* Of nothing, it is the empty function.
LEMMA NoEntries == EntriesOf({}) = <<>>
<1>1. KeysOf({}) = {}
  BY DEF KeysOf
<1> QED  BY <1>1 DEF EntriesOf

\* What the variables of the map are.
LEMMA MapIs ==
  ASSUME TreeInv
  PROVE  /\ Held = held[root] /\ held[root] \in SUBSET Payload /\ Unique(held[root])
         /\ Entries = EntriesOf(held[root])
         /\ Map!Keys = KeysOf(held[root]) /\ Map!Held = held[root]
<1>1. root \in Ordered
  BY DEF TreeInv
<1>2. Held = held[root] /\ held[root] \in SUBSET Payload
  BY <1>1, RootHeld DEF Held
<1>3. Unique(held[root])
  BY <1>1, OrderedUnique
<1>4. Entries = EntriesOf(held[root])
  BY <1>2 DEF Entries, EntriesOf, KeysOf
<1> HIDE DEF EntriesOf
<1>5. Map!Keys = KeysOf(held[root])
  BY <1>3, <1>4, EntriesIs DEF Map!Keys
<1>6. Map!Held = {EntriesOf(held[root])[k] : k \in KeysOf(held[root])}
  BY <1>4, <1>5 DEF Map!Held
<1>7. Map!Held = held[root]
  BY <1>3, <1>6, EntriesIs
<1> QED  BY <1>2, <1>3, <1>4, <1>5, <1>7

\* The same after a step.
LEMMA MapIsNext ==
  ASSUME TreeInv'
  PROVE  /\ Unique(held[root']) /\ Entries' = EntriesOf(held[root'])
         /\ Map!Keys' = KeysOf(held[root']) /\ Map!Held' = held[root']
<1>1. root' \in Ordered
  BY DEF TreeInv
<1>2. Held' = held[root']
  BY <1>1, RootHeld DEF Held
<1>3. Unique(held[root'])
  BY <1>1, OrderedUnique
<1>4. Entries' = EntriesOf(held[root'])
  BY <1>2 DEF Entries, EntriesOf, KeysOf
<1> HIDE DEF EntriesOf
<1>5. Map!Keys' = KeysOf(held[root'])
  BY <1>3, <1>4, EntriesIs DEF Map!Keys
<1>6. Map!Held' = {EntriesOf(held[root'])[k] : k \in KeysOf(held[root'])}
  BY <1>4, <1>5 DEF Map!Held
<1>7. Map!Held' = held[root']
  BY <1>3, <1>6, EntriesIs
<1> QED  BY <1>3, <1>4, <1>5, <1>7

\* bst_insert is the map's Insert.
LEMMA MapInserts ==
  ASSUME TreeInv, NEW p \in Payload, NEW replace, NEW callback, NEW clobbered \in BOOLEAN,
         bst_insert(p, replace, callback, clobbered)
  PROVE  /\ ret'.call = "bst_insert" /\ ret'.payload = p /\ ret'.replace = replace
         /\ ret'.callback = callback /\ ret'.clobbered = clobbered
         /\ alive' = alive /\ Map!Insert(p, replace, callback, clobbered)
<1> DEFINE H == held[root]
           G == After(H, p, replace, callback)
           given == replace = "REPLACE_PAYLOAD_TRUE" /\ callback = "NULL"
           result == IF global_result(p, callback, clobbered) = 1
                     THEN "BST_INSERT_SUCCESS" ELSE "BST_INSERT_FAILURE"
<1>1. TreeInv' /\ held[root'] = G
  BY Inserted
<1>2. /\ Unique(H) /\ Entries = EntriesOf(H) /\ Map!Keys = KeysOf(H) /\ Map!Held = H
      /\ Entries' = EntriesOf(G) /\ Map!Keys' = KeysOf(G) /\ Map!Held' = G /\ Held = H
  BY <1>1, MapIs, MapIsNext
<1>3. /\ ret' = [call |-> "bst_insert", payload |-> p, replace |-> replace,
                 callback |-> callback, clobbered |-> clobbered, result |-> result]
      /\ p \notin Held \cup freed /\ alive' = alive
      /\ freed' = freed \cup Replaced(p, replace, callback)
  BY DEF bst_insert
<1>4. result = IF KeyOf[p] \in KeysOf(G) /\ ~clobbered THEN "BST_INSERT_SUCCESS"
               ELSE "BST_INSERT_FAILURE"
  BY InsertReports
<1>5. \/ Same(H, p) = {} /\ get_node(root, p) = NULL
      \/ /\ get_node(root, p) # NULL /\ Same(H, p) = {get_node(root, p)}
  BY RootHeld, GetFinds, AVLTreeAssumption DEF TreeInv
<1>6. p \notin H
  BY <1>2, <1>3
<1>7. Replaced(p, replace, callback) = IF given THEN {get_node(root, p)} \ {NULL} ELSE {}
  BY DEF Replaced
<1> HIDE DEF H, given, result
<1>8. G = IF Same(H, p) = {} THEN IF callback = "refuses" THEN H ELSE H \cup {p}
          ELSE IF given THEN (H \ Same(H, p)) \cup {p} ELSE H
  BY DEF After, given
<1>9. given => callback # "refuses"
  BY DEF given
<1> DEFINE takes == Map!Takes(p, replace, callback)
<1>t. takes <=> IF Same(H, p) # {} THEN given ELSE callback # "refuses"
  <2>1. KeyOf[p] \in KeysOf(H) <=> Same(H, p) # {}
    BY DEF KeysOf, Same
  <2> QED  BY <1>2, <2>1 DEF Map!Takes, given
<1> HIDE DEF G, takes
<1>10. \/ ~takes /\ G = H /\ Replaced(p, replace, callback) = {}
       \/ /\ takes /\ G = (H \ Same(H, p)) \cup {p}
          /\ Replaced(p, replace, callback) = H \ G
  <2>1. CASE Same(H, p) = {} /\ get_node(root, p) = NULL
    <3>1. Replaced(p, replace, callback) = {}
      BY <1>7, <2>1
    <3> QED  BY <1>8, <1>t, <2>1, <3>1
  <2>2. CASE get_node(root, p) # NULL /\ Same(H, p) = {get_node(root, p)}
    <3>1. get_node(root, p) \in H
      BY <2>2 DEF Same
    <3> QED  BY <1>6, <1>7, <1>8, <1>t, <2>2, <3>1
  <2> QED  BY <1>5, <2>1, <2>2
<1>11. \/ /\ takes /\ Entries' = Map!With(p)
          /\ freed' = freed \cup (Map!Held \ Map!Held')
       \/ ~takes /\ Entries' = Entries /\ freed' = freed
  <2>1. CASE ~takes /\ G = H /\ Replaced(p, replace, callback) = {}
    BY <1>2, <1>3, <2>1
  <2>2. CASE /\ takes /\ G = (H \ Same(H, p)) \cup {p}
             /\ Replaced(p, replace, callback) = H \ G
    <3>1. EntriesOf(G) = [k \in KeysOf(H) \cup {KeyOf[p]} |->
                            IF k = KeyOf[p] THEN p ELSE EntriesOf(H)[k]]
      <4>1. EntriesOf((H \ Same(H, p)) \cup {p}) = [k \in KeysOf(H) \cup {KeyOf[p]} |->
                                                       IF k = KeyOf[p] THEN p ELSE EntriesOf(H)[k]]
        BY <1>2, EntriesWith
      <4> QED  BY <2>2, <4>1
    <3>2. Entries' = Map!With(p)
      BY <1>2, <3>1 DEF Map!With
    <3> QED  BY <1>2, <1>3, <2>2, <3>2
  <2> QED  BY <1>10, <2>1, <2>2
<1>12. Map!Insert(p, replace, callback, clobbered)
  BY <1>2, <1>3, <1>4, <1>6, <1>11 DEF Map!Insert, takes
<1> QED  BY <1>3, <1>12

\* bst_remove is its Remove.
LEMMA MapRemoves ==
  ASSUME TreeInv, NEW p \in Payload, NEW free, bst_remove(p, free)
  PROVE  /\ ret'.call = "bst_remove" /\ ret'.key = KeyOf[p] /\ ret'.free = free
         /\ alive' = alive /\ Map!Remove(KeyOf[p], free)
<1> DEFINE H == held[root]
           k == KeyOf[p]
           q == get_node(root, p)
<1>1. /\ TreeInv' /\ alive' = alive
      /\ ret'.call = "bst_remove" /\ ret'.key = KeyOf[p] /\ ret'.free = free
  <2>1. TreeInv' /\ alive' = alive
    BY RemovedIs DEF bst_remove
  <2>2. ret'.call = "bst_remove" /\ ret'.key = KeyOf[p] /\ ret'.free = free
    BY DEF bst_remove
  <2> QED  BY <2>1, <2>2
<1>2. /\ Unique(H) /\ Entries = EntriesOf(H) /\ Map!Keys = KeysOf(H)
      /\ Entries' = EntriesOf(held[root'])
  BY <1>1, MapIs, MapIsNext
<1>3. CASE /\ Same(H, p) = {} /\ root' = root /\ freed' = freed
           /\ ret' = Removal(p, free, "BST_NODE_NOT_FOUND")
  <2>1. k \notin KeysOf(H)
    BY <1>3 DEF Same, KeysOf
  <2>2. Entries' = Entries
    BY <1>2, <1>3
  <2>3. Map!Remove(k, free)
    BY <1>2, <1>3, <2>1, <2>2 DEF Map!Remove, Removal
  <2> QED  BY <1>1, <2>3
<1>4. CASE /\ q \in Payload /\ Same(H, p) = {q}
           /\ held[root'] = Without(H, p)
           /\ ret' = Removal(p, free, "BST_REMOVE_SUCCESS")
           /\ freed' = IF free = "FREE_PAYLOAD_TRUE" THEN freed \cup {q} ELSE freed
  <2>1. q \in H /\ KeyOf[q] = k
    BY <1>4 DEF Same
  <2> HIDE DEF H, q, k
  <2>2. k \in KeysOf(H) /\ EntriesOf(H)[k] = q
    BY <1>2, <2>1, EntriesIs
  <2>3. Entries' = [j \in KeysOf(H) \ {k} |-> EntriesOf(H)[j]]
    BY <1>2, <1>4, EntriesWithout DEF k
  <2>4. Entries' = Map!Without(k)
    BY <1>2, <2>3 DEF Map!Without
  <2>5. ret' = [call |-> "bst_remove", key |-> k, free |-> free, result |-> "BST_REMOVE_SUCCESS"]
    BY <1>4 DEF Removal, k
  <2>6. freed' = IF free = "FREE_PAYLOAD_TRUE" THEN freed \cup {Entries[k]} ELSE freed
    BY <1>2, <1>4, <2>2
  <2>7. Map!Remove(k, free)
    BY <1>2, <2>2, <2>4, <2>5, <2>6 DEF Map!Remove
  <2> QED  BY <1>1, <2>7 DEF k
<1>5. \/ /\ Same(H, p) = {} /\ root' = root /\ freed' = freed
         /\ ret' = Removal(p, free, "BST_NODE_NOT_FOUND")
      \/ /\ q \in Payload /\ Same(H, p) = {q}
         /\ held[root'] = Without(H, p)
         /\ ret' = Removal(p, free, "BST_REMOVE_SUCCESS")
         /\ freed' = IF free = "FREE_PAYLOAD_TRUE" THEN freed \cup {q} ELSE freed
  BY RemovedIs
<1> QED  BY <1>3, <1>4, <1>5

\* bst_get_node is its Get.
LEMMA MapGets ==
  ASSUME TreeInv, NEW p \in Payload, bst_get_node(p)
  PROVE  /\ ret'.call = "bst_get_node" /\ ret'.key = KeyOf[p]
         /\ alive' = alive /\ Map!Get(KeyOf[p])
<1> DEFINE H == held[root]
           k == KeyOf[p]
           q == get_node(root, p)
<1>1. /\ TreeInv' /\ root' = root /\ freed' = freed /\ alive' = alive
      /\ ret' = [call |-> "bst_get_node", key |-> k, result |-> q]
  BY Gotten DEF bst_get_node
<1>2. /\ Unique(H) /\ Entries = EntriesOf(H) /\ Map!Keys = KeysOf(H) /\ Entries' = Entries
  BY <1>1, MapIs, MapIsNext
<1>3. q = IF k \in KeysOf(H) THEN EntriesOf(H)[k] ELSE NULL
  <2>1. \/ Same(H, p) = {} /\ q = NULL
        \/ Same(H, p) = {q}
    BY RootHeld, GetFinds DEF TreeInv
  <2> HIDE DEF H, q
  <2>2. CASE Same(H, p) = {} /\ q = NULL
    <3>1. k \notin KeysOf(H)
      BY <2>2 DEF KeysOf, Same
    <3> QED  BY <2>2, <3>1
  <2>3. CASE Same(H, p) = {q}
    <3>1. q \in H /\ KeyOf[q] = k
      BY <2>3 DEF Same
    <3> HIDE DEF k
    <3>2. k \in KeysOf(H) /\ EntriesOf(H)[k] = q
      BY <1>2, <3>1, EntriesIs
    <3> QED  BY <3>2
  <2> QED  BY <2>1, <2>2, <2>3
<1>4. Map!Get(k)
  BY <1>1, <1>2, <1>3 DEF Map!Get
<1>5. ret'.call = "bst_get_node" /\ ret'.key = k
  BY <1>1
<1> QED  BY <1>1, <1>4, <1>5

\* The map counts as the tree does.
LEMMA SameCardinality == \A S : Map!Cardinality(S) = Cardinality(S)
BY DEF Map!Cardinality, Cardinality

\* bst_traversal is its Visit.
LEMMA MapVisits ==
  ASSUME TreeInv, NEW type \in Orders, NEW stop \in Held \cup {NULL}, bst_traversal(type, stop)
  PROVE  /\ ret'.call = "bst_traversal" /\ alive' = alive
         /\ Map!Visit(ret'.order, ret'.stop, ret'.result)
<1> DEFINE H == held[root]
           v == traversal_node(root, type, stop)
           s == v.seen
<1>1. /\ TreeInv' /\ root' = root /\ freed' = freed /\ alive' = alive
      /\ ret'.call = "bst_traversal" /\ ret'.order = type /\ ret'.stop = stop /\ ret'.result = s
  BY Traversed DEF bst_traversal
<1>2. /\ H \in SUBSET Payload /\ Map!Held = H /\ Held = H /\ Entries' = Entries
  BY <1>1, MapIs, MapIsNext
<1>3. root \in Tree /\ root \in Ordered
  BY RootHeld DEF TreeInv
<1>4. v \in Visits
  BY <1>3, VisitIs DEF VisitSteps
<1>5. /\ type = "TRAVERSAL_IN_ORDER" => VisitedInOrder(v, H, stop)
      /\ type # "TRAVERSAL_IN_ORDER" => Visited(v, H, stop)
  BY <1>3, TraversalVisits, InOrderVisits
<1>6. NULL \notin H /\ (stop # NULL => stop \in H)
  BY <1>2, AVLTreeAssumption
<1> HIDE DEF H, v
<1>7. s \in Seq(Payload)
  BY <1>4 DEF Visits
<1>8. Distinct(s) /\ Elems(s) \in SUBSET H /\ (stop = NULL => Elems(s) = H)
  <2>1. CASE type = "TRAVERSAL_IN_ORDER"
    <3>1. Rising(s) /\ Elems(s) \in SUBSET H /\ (stop \notin H => Elems(s) = H)
      BY <1>5, <2>1 DEF VisitedInOrder
    <3> HIDE DEF s
    <3>2. Distinct(s)
      BY <1>7, <3>1, RisingDistinct
    <3> QED  BY <1>6, <3>1, <3>2
  <2>2. CASE type # "TRAVERSAL_IN_ORDER"
    BY <1>5, <1>6, <2>2 DEF Visited
  <2> QED  BY <2>1, <2>2
<1>9. ASSUME type = "TRAVERSAL_IN_ORDER"
      PROVE  /\ Rising(s)
             /\ stop # NULL => \A p \in H : KeyOf[p] <= KeyOf[stop] => p \in Elems(s)
  BY <1>5, <1>6, <1>9 DEF VisitedInOrder
<1>10. ASSUME type # "TRAVERSAL_IN_ORDER", stop # NULL
       PROVE  s[Len(s)] = stop
  BY <1>5, <1>6, <1>10 DEF Visited
<1> HIDE DEF s
<1>11. stop = NULL => Len(s) = Cardinality(H)
  BY <1>7, <1>8, DistinctCounts
<1>12. Map!Visit(type, stop, s)
  <2>1. \A i, j \in DOMAIN s : s[i] = s[j] => i = j
    BY <1>8 DEF Distinct
  <2>2. {s[i] : i \in DOMAIN s} \subseteq Map!Held
    BY <1>2, <1>8 DEF Elems
  <2>3. stop = NULL => Len(s) = Cardinality(Map!Held)
    BY <1>2, <1>11
  <2>4. type = "TRAVERSAL_IN_ORDER" =>
           /\ \A i, j \in DOMAIN s : i < j => KeyOf[s[i]] < KeyOf[s[j]]
           /\ stop # NULL =>
                \A p \in Map!Held : KeyOf[p] <= KeyOf[stop] => \E i \in DOMAIN s : s[i] = p
    BY <1>2, <1>9 DEF Rising, Elems
  <2>5. type # "TRAVERSAL_IN_ORDER" /\ stop # NULL => s[Len(s)] = stop
    BY <1>10
  <2>6. UNCHANGED <<Entries, freed>>
    BY <1>1, <1>2
  <2>7. Map!Cardinality(Map!Held) = Cardinality(Map!Held)
    BY SameCardinality
  <2> QED  BY <2>1, <2>2, <2>3, <2>4, <2>5, <2>6, <2>7 DEF Map!Visit
<1> QED  BY <1>1, <1>12

\* bst_destroy is its Destroy.
LEMMA MapDestroys ==
  ASSUME TreeInv, NEW free, bst_destroy(free)
  PROVE  ret'.call = "bst_destroy" /\ ret'.free = free /\ Map!Destroy(free)
<1>1. TreeInv' /\ root' = NULL /\ alive' = FALSE
  BY DestroyedIs
<1>2. /\ Held = held[root] /\ Map!Held = held[root]
      /\ Entries' = EntriesOf(held[root'])
  BY <1>1, MapIs, MapIsNext
<1>3. Entries' = <<>>
  BY <1>1, <1>2, NullIs, NoEntries
<1>4. /\ ret' = [call |-> "bst_destroy", free |-> free, result |-> NULL]
      /\ freed' = IF free = "FREE_PAYLOAD_TRUE" THEN freed \cup Held ELSE freed
  BY DEF bst_destroy
<1> QED  BY <1>1, <1>2, <1>3, <1>4 DEF Map!Destroy

\* Every step is a step of the map, or a stutter.
LEMMA MapSteps ==
  ASSUME TreeInv, [Next]_vars
  PROVE  [Map!Next]_(Map!vars)
<1>1. CASE Next
  <2>1. alive /\ (Inserting \/ Removing \/ Getting \/ Traversing \/ Destroying)
    BY <1>1, NextIs
  <2>2. CASE Inserting
    <3>1. PICK p \in Payload, clobbered \in BOOLEAN, replace \in Replaces, callback \in Callbacks :
            bst_insert(p, replace, callback, clobbered)
      BY <2>2 DEF Inserting
    <3>2. /\ ret'.call = "bst_insert" /\ ret'.payload = p /\ ret'.replace = replace
          /\ ret'.callback = callback /\ ret'.clobbered = clobbered
          /\ alive' = alive /\ Map!Insert(p, replace, callback, clobbered)
      BY <3>1, MapInserts
    <3>3. /\ ret'.call = "bst_insert" /\ ret'.payload \in Payload
          /\ Map!Insert(ret'.payload, ret'.replace, ret'.callback, ret'.clobbered)
      BY <3>2
    <3> QED  BY <2>1, <3>2, <3>3 DEF Map!Next
  <2>3. CASE Removing
    <3>1. PICK p \in Payload, free \in Frees : bst_remove(p, free)
      BY <2>3 DEF Removing
    <3>2. /\ ret'.call = "bst_remove" /\ alive' = alive
          /\ Map!Remove(ret'.key, ret'.free)
      BY <3>1, MapRemoves
    <3> QED  BY <2>1, <3>2 DEF Map!Next
  <2>4. CASE Getting
    <3>1. PICK p \in Payload : bst_get_node(p)
      BY <2>4 DEF Getting
    <3>2. ret'.call = "bst_get_node" /\ alive' = alive /\ Map!Get(ret'.key)
      BY <3>1, MapGets
    <3> QED  BY <2>1, <3>2 DEF Map!Next
  <2>5. CASE Traversing
    <3>1. PICK type \in Orders, stop \in Held \cup {NULL} : bst_traversal(type, stop)
      BY <2>5 DEF Traversing
    <3>2. /\ ret'.call = "bst_traversal" /\ alive' = alive
          /\ Map!Visit(ret'.order, ret'.stop, ret'.result)
      BY <3>1, MapVisits
    <3> QED  BY <2>1, <3>2 DEF Map!Next
  <2>6. CASE Destroying
    <3>1. PICK free \in Frees : bst_destroy(free)
      BY <2>6 DEF Destroying
    <3>2. ret'.call = "bst_destroy" /\ Map!Destroy(ret'.free)
      BY <3>1, MapDestroys
    <3> QED  BY <2>1, <3>2 DEF Map!Next
  <2> QED  BY <2>1, <2>2, <2>3, <2>4, <2>5, <2>6
<1>2. CASE UNCHANGED vars
  <2>1. root' = root /\ freed' = freed /\ alive' = alive /\ ret' = ret
    BY <1>2 DEF vars, treeVars
  <2>2. Entries' = Entries
    BY <2>1 DEF Entries, Held
  <2> QED  BY <2>1, <2>2 DEF Map!vars
<1> QED  BY <1>1, <1>2

\* The tree implements the sorted map: what each call, given its arguments, leaves under
\* each key, frees and returns, and what a traversal visits and in which order.
THEOREM TreeImplementsMap == Spec => ImplementsAbsMap
<1>1. Init => Map!Init
  <2> SUFFICES ASSUME Init PROVE Map!Init
    OBVIOUS
  <2>1. /\ root = NULL /\ freed = {} /\ alive = TRUE
        /\ ret = [call |-> "bst_init", result |-> NULL]
    BY DEF Init, TreeInit
  <2>2. Entries = <<>>
    BY <2>1, TreeStarts, MapIs, NullIs, NoEntries
  <2> QED  BY <2>1, <2>2 DEF Map!Init
<1>2. TreeInv /\ [Next]_vars => [Map!Next]_(Map!vars)
  BY MapSteps
<1> QED  BY <1>1, <1>2, TreeStays, PTL DEF Spec, ImplementsAbsMap, Map!Spec
===============================================================================
