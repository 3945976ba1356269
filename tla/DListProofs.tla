---------------------------- MODULE DListProofs ----------------------------
(***************************************************************************)
(* Theorems about DList, for every choice of its constants.                *)
(*                                                                         *)
(* The inductive invariant is Inv: the types, the agreement of the         *)
(* pointers with chain (Linked), and where iterators may stand             *)
(* (IterAttached, RegisteredOnce).  Every step that changes the shape of   *)
(* the list is one of add_node's four cases, remove_node, or destruction,  *)
(* so the lemmas below treat those once and the theorems cite them.        *)
(***************************************************************************)
EXTENDS DList, Lemmas

-----------------------------------------------------------------------------
(***************************************************************************)
(* The shape of the list around one insertion and one removal.             *)
(***************************************************************************)

\* A linked list's nodes are addresses in use, so a fresh one is none of them.
LEMMA ChainFacts ==
  ASSUME TypeOK, Linked
  PROVE  /\ Len(chain) \in Nat
         /\ \A j \in 1..Len(chain) : chain[j] \in Node /\ chain[j] \in alloc
         /\ \A j \in 1..Len(chain) : chain[j] # NULL
BY LenProperties, ElementOfSeq, DListAssumption DEF TypeOK, Linked, NodesLive

\* Account puts n at position k and shifts the nodes behind it.
LEMMA InsertShape ==
  ASSUME TypeOK, Linked, NEW n \in Node \ alloc, NEW v \in Data,
         NEW k \in 1..(Len(chain) + 1), Account(n, v, k)
  PROVE  /\ chain' \in Seq(Node)
         /\ Len(chain') = Len(chain) + 1
         /\ \A j \in 1..(Len(chain) + 1) :
              chain'[j] = IF j < k THEN chain[j]
                          ELSE IF j = k THEN n ELSE chain[j - 1]
         /\ length' = Len(chain')
         /\ NodesLive'
<1>1. /\ chain' \in Seq(Node)
      /\ Len(chain') = Len(chain) + 1
      /\ \A j \in 1..(Len(chain) + 1) :
           chain'[j] = IF j < k THEN chain[j]
                       ELSE IF j = k THEN n ELSE chain[j - 1]
  <2>1. chain \in Seq(Node) /\ n \in Node
    BY DEF TypeOK
  <2>2. /\ InsertAt(chain, k, n) \in Seq(Node)
        /\ Len(InsertAt(chain, k, n)) = Len(chain) + 1
    BY <2>1, InsertAtElements
  <2>3. \A j \in 1..(Len(chain) + 1) :
          InsertAt(chain, k, n)[j] = IF j < k THEN chain[j]
                                     ELSE IF j = k THEN n ELSE chain[j - 1]
    BY <2>1, InsertAtElements
  <2> QED  BY <2>2, <2>3 DEF Account
<1>2. length' = Len(chain')
  BY <1>1 DEF Account, Linked
<1>3. \A j \in 1..Len(chain') : chain'[j] \in alloc' /\ data'[chain'[j]] \in Data
  <2> TAKE j \in 1..Len(chain')
  <2>1. CASE chain'[j] = n
    BY <2>1 DEF Account, TypeOK
  <2>2. CASE chain'[j] # n
    <3>1. PICK m \in 1..Len(chain) : chain'[j] = chain[m]
      BY <1>1, <2>2, ChainFacts
    <3> QED  BY <3>1, <2>2, ChainFacts DEF Account, TypeOK, Linked, NodesLive, ValueAt
  <2> QED  BY <2>1, <2>2
<1>4. \A a, b \in 1..Len(chain') : chain'[a] = chain'[b] => a = b
  <2>1. /\ chain \in Seq(Node) /\ n \in Node /\ chain' = InsertAt(chain, k, n)
        /\ \A a, b \in 1..Len(chain) : chain[a] = chain[b] => a = b
    BY DEF Account, TypeOK, Linked, NodesLive
  <2>2. \A j \in 1..Len(chain) : chain[j] # n
    BY ChainFacts
  <2>3. \A a, b \in 1..(Len(chain) + 1) :
          InsertAt(chain, k, n)[a] = InsertAt(chain, k, n)[b] => a = b
    BY <2>1, <2>2, InsertAtDistinct
  <2> QED  BY <2>1, <2>3, <1>1
<1> QED  BY <1>1, <1>2, <1>3, <1>4 DEF NodesLive, ValueAt

\* remove_node takes position k out and shifts the nodes behind it.
LEMMA RemoveShape ==
  ASSUME TypeOK, Linked, NEW k \in 1..Len(chain), NEW at, remove_node(k, at)
  PROVE  /\ chain' \in Seq(Node)
         /\ Len(chain') = Len(chain) - 1
         /\ \A j \in 1..(Len(chain) - 1) :
              chain'[j] = IF j < k THEN chain[j] ELSE chain[j + 1]
         /\ length' = Len(chain')
         /\ \A j \in 1..Len(chain') : chain'[j] # chain[k]
         /\ NodesLive'
<1>1. /\ chain \in Seq(Node)
      /\ \A a, b \in 1..Len(chain) : chain[a] = chain[b] => a = b
  BY DEF TypeOK, Linked, NodesLive
<1>2. /\ RemoveAt(chain, k) \in Seq(Node)
      /\ Len(RemoveAt(chain, k)) = Len(chain) - 1
  BY <1>1, RemoveAtElements
<1>3. \A j \in 1..(Len(chain) - 1) :
        RemoveAt(chain, k)[j] = IF j < k THEN chain[j] ELSE chain[j + 1]
  BY <1>1, RemoveAtElements
<1>4. /\ \A a, b \in 1..(Len(chain) - 1) :
           RemoveAt(chain, k)[a] = RemoveAt(chain, k)[b] => a = b
      /\ \A j \in 1..(Len(chain) - 1) : RemoveAt(chain, k)[j] # chain[k]
  BY <1>1, RemoveAtDistinct
<1>5. chain' = RemoveAt(chain, k) /\ length' = length - 1
      /\ alloc' = alloc \ {chain[k]} /\ data' = [data EXCEPT ![chain[k]] = NULL]
  BY DEF remove_node, free, CountDown
<1>6. length' = Len(chain')
  BY <1>2, <1>5 DEF Linked
<1>7. \A j \in 1..Len(chain') : chain'[j] \in alloc' /\ data'[chain'[j]] \in Data
  <2> TAKE j \in 1..Len(chain')
  <2>1. PICK m \in 1..Len(chain) : chain'[j] = chain[m]
    BY <1>2, <1>3, <1>5, ChainFacts
  <2>2. chain'[j] # chain[k]
    BY <1>2, <1>4, <1>5
  <2> QED  BY <2>1, <2>2, <1>5, ChainFacts DEF TypeOK, Linked, NodesLive, ValueAt
<1> QED  BY <1>2, <1>3, <1>4, <1>5, <1>6, <1>7 DEF NodesLive, ValueAt

-----------------------------------------------------------------------------
(***************************************************************************)
(* Each way add_node links a node keeps the list linked.                   *)
(***************************************************************************)
\* The only node of a list is linked to nothing (add_node on an empty list).
LEMMA AddFirstLinks ==
  ASSUME TypeOK, Linked, NEW n \in Node \ alloc, NEW v \in Data, AddFirst(n, v)
  PROVE  Linked'
<1>1. Len(chain) = 0 /\ 1 \in 1..(Len(chain) + 1) /\ Account(n, v, 1)
  BY DEF AddFirst, Linked
<1>2. /\ Len(chain') = 1 /\ chain'[1] = n
      /\ length' = Len(chain') /\ NodesLive'
  BY <1>1, InsertShape
<1>3. next'[n] = NULL /\ prev'[n] = NULL
  BY DEF AddFirst, TypeOK
<1> QED  BY <1>2, <1>3 DEF AddFirst, Linked, EndsLinked, NextLinked, PrevLinked

\* add_node in front of the head: the new node is the head, the old head follows it.
LEMMA PrependLinks ==
  ASSUME TypeOK, Linked, NEW n \in Node \ alloc, NEW v \in Data,
         length > 0, LinkHead(n), Account(n, v, 1)
  PROVE  Linked'
<1>1. /\ Len(chain) \in Nat /\ Len(chain) > 0
      /\ \A j \in 1..Len(chain) : chain[j] \in Node /\ chain[j] # n
      /\ head = chain[1] /\ tail = chain[Len(chain)]
  BY ChainFacts DEF Linked, EndsLinked
<1>2. /\ Len(chain') = Len(chain) + 1
      /\ chain'[1] = n
      /\ \A j \in 2..(Len(chain) + 1) : chain'[j] = chain[j - 1]
      /\ length' = Len(chain') /\ NodesLive'
  <2>1. 1 \in 1..(Len(chain) + 1)
    BY <1>1
  <2>2. /\ Len(chain') = Len(chain) + 1
        /\ \A j \in 1..(Len(chain) + 1) :
             chain'[j] = IF j < 1 THEN chain[j] ELSE IF j = 1 THEN n ELSE chain[j - 1]
        /\ length' = Len(chain') /\ NodesLive'
    BY <2>1, InsertShape
  <2> QED  BY <2>2, <1>1
<1>3. EndsLinked'
  BY <1>1, <1>2 DEF EndsLinked, LinkHead
<1>4. NextLinked'
  <2> SUFFICES ASSUME NEW k \in 1..Len(chain')
               PROVE  next'[chain'[k]] = IF k = Len(chain') THEN NULL ELSE chain'[k + 1]
    BY DEF NextLinked
  <2>1. CASE k = 1
    BY <2>1, <1>1, <1>2 DEF LinkHead, TypeOK
  <2>2. CASE k > 1
    <3>1. chain'[k] = chain[k - 1] /\ k - 1 \in 1..Len(chain)
      BY <2>2, <1>1, <1>2
    <3>2. next'[chain[k - 1]] = next[chain[k - 1]]
      BY <3>1, <1>1 DEF LinkHead, TypeOK
    <3>3. next[chain[k - 1]] = IF k - 1 = Len(chain) THEN NULL ELSE chain[(k - 1) + 1]
      BY <3>1 DEF Linked, NextLinked
    <3>4. CASE k = Len(chain')
      BY <3>1, <3>2, <3>3, <3>4, <1>1, <1>2
    <3>5. CASE k # Len(chain')
      <4>1. k + 1 \in 2..(Len(chain) + 1) /\ chain'[k + 1] = chain[k]
        BY <3>5, <2>2, <1>1, <1>2
      <4>2. k - 1 # Len(chain) /\ (k - 1) + 1 = k
        BY <3>5, <2>2, <1>1, <1>2
      <4> QED  BY <3>1, <3>2, <3>3, <3>5, <4>1, <4>2
    <3> QED  BY <3>4, <3>5
  <2> QED  BY <2>1, <2>2, <1>1, <1>2
<1>5. PrevLinked'
  <2> SUFFICES ASSUME NEW k \in 1..Len(chain')
               PROVE  prev'[chain'[k]] = IF k = 1 THEN NULL ELSE chain'[k - 1]
    BY DEF PrevLinked
  <2>1. CASE k = 1
    BY <2>1, <1>1, <1>2 DEF LinkHead, TypeOK
  <2>2. CASE k = 2
    BY <2>2, <1>1, <1>2 DEF LinkHead, TypeOK
  <2>3. CASE k > 2
    <3>1. chain'[k] = chain[k - 1] /\ k - 1 \in 1..Len(chain) /\ k - 1 # 1
      BY <2>3, <1>1, <1>2
    <3>2. chain[k - 1] # chain[1]
      BY <3>1, <1>1 DEF Linked, NodesLive
    <3>3. prev'[chain[k - 1]] = prev[chain[k - 1]]
      BY <3>1, <3>2, <1>1 DEF LinkHead, TypeOK
    <3>4. prev[chain[k - 1]] = chain[k - 2]
      BY <3>1, <1>1 DEF Linked, PrevLinked
    <3> QED  BY <3>1, <3>3, <3>4, <2>3, <1>1, <1>2
  <2> QED  BY <2>1, <2>2, <2>3, <1>1, <1>2
<1> QED  BY <1>2, <1>3, <1>4, <1>5 DEF Linked

\* add_node behind the tail: the new node is the tail, the old tail precedes it.
LEMMA AppendLinks ==
  ASSUME TypeOK, Linked, NEW n \in Node \ alloc, NEW v \in Data,
         length > 0, LinkTail(n), Account(n, v, Len(chain) + 1)
  PROVE  Linked'
<1>1. /\ Len(chain) \in Nat /\ Len(chain) > 0
      /\ \A j \in 1..Len(chain) : chain[j] \in Node /\ chain[j] # n
      /\ head = chain[1] /\ tail = chain[Len(chain)]
      /\ \A a, b \in 1..Len(chain) : chain[a] = chain[b] => a = b
  BY ChainFacts DEF Linked, EndsLinked, NodesLive
<1>2. /\ Len(chain') = Len(chain) + 1
      /\ chain'[Len(chain) + 1] = n
      /\ \A j \in 1..Len(chain) : chain'[j] = chain[j]
      /\ length' = Len(chain') /\ NodesLive'
  <2>1. Len(chain) + 1 \in 1..(Len(chain) + 1)
    BY <1>1
  <2>2. /\ Len(chain') = Len(chain) + 1
        /\ \A j \in 1..(Len(chain) + 1) :
             chain'[j] = IF j < Len(chain) + 1 THEN chain[j]
                         ELSE IF j = Len(chain) + 1 THEN n ELSE chain[j - 1]
        /\ length' = Len(chain') /\ NodesLive'
    BY <2>1, InsertShape
  <2> QED  BY <2>2, <1>1
<1>3. EndsLinked'
  BY <1>1, <1>2 DEF EndsLinked, LinkTail
<1>4. NextLinked'
  <2> SUFFICES ASSUME NEW k \in 1..Len(chain')
               PROVE  next'[chain'[k]] = IF k = Len(chain') THEN NULL ELSE chain'[k + 1]
    BY DEF NextLinked
  <2>1. CASE k = Len(chain) + 1
    BY <2>1, <1>1, <1>2 DEF LinkTail, TypeOK
  <2>2. CASE k = Len(chain)
    BY <2>2, <1>1, <1>2 DEF LinkTail, TypeOK
  <2>3. CASE k < Len(chain)
    <3>1. chain'[k] = chain[k] /\ k \in 1..Len(chain) /\ chain[k] # tail
      BY <2>3, <1>1, <1>2
    <3>2. next'[chain[k]] = next[chain[k]]
      BY <3>1, <1>1 DEF LinkTail, TypeOK
    <3>3. next[chain[k]] = chain[k + 1]
      BY <3>1, <2>3 DEF Linked, NextLinked
    <3>4. k # Len(chain') /\ chain'[k + 1] = chain[k + 1]
      BY <2>3, <1>1, <1>2
    <3> QED  BY <3>1, <3>2, <3>3, <3>4
  <2> QED  BY <2>1, <2>2, <2>3, <1>1, <1>2
<1>5. PrevLinked'
  <2> SUFFICES ASSUME NEW k \in 1..Len(chain')
               PROVE  prev'[chain'[k]] = IF k = 1 THEN NULL ELSE chain'[k - 1]
    BY DEF PrevLinked
  <2>1. CASE k = Len(chain) + 1
    BY <2>1, <1>1, <1>2 DEF LinkTail, TypeOK
  <2>2. CASE k <= Len(chain)
    <3>1. chain'[k] = chain[k] /\ k \in 1..Len(chain) /\ chain[k] # n
      BY <2>2, <1>1, <1>2
    <3>2. prev'[chain[k]] = prev[chain[k]]
      BY <3>1, <1>1 DEF LinkTail, TypeOK
    <3>3. prev[chain[k]] = IF k = 1 THEN NULL ELSE chain[k - 1]
      BY <3>1 DEF Linked, PrevLinked
    <3>4. k = 1 \/ chain'[k - 1] = chain[k - 1]
      BY <3>1, <1>1, <1>2
    <3> QED  BY <3>1, <3>2, <3>3, <3>4
  <2> QED  BY <2>1, <2>2, <1>1, <1>2
<1> QED  BY <1>2, <1>3, <1>4, <1>5 DEF Linked

\* add_node before a node that is not the head: both neighbours point at the new node.
LEMMA InsertLinks ==
  ASSUME TypeOK, Linked, NEW n \in Node \ alloc, NEW v \in Data,
         NEW p \in 2..Len(chain), LinkBefore(n, chain[p]), Account(n, v, p)
  PROVE  Linked'
<1>1. /\ Len(chain) \in Nat /\ p \in Int
      /\ \A j \in 1..Len(chain) : chain[j] \in Node /\ chain[j] # n
      /\ head = chain[1] /\ tail = chain[Len(chain)]
      /\ \A a, b \in 1..Len(chain) : chain[a] = chain[b] => a = b
  BY ChainFacts DEF Linked, EndsLinked, NodesLive
<1>2. /\ Len(chain') = Len(chain) + 1
      /\ chain'[p] = n
      /\ \A j \in 1..(p - 1) : chain'[j] = chain[j]
      /\ \A j \in (p + 1)..(Len(chain) + 1) : chain'[j] = chain[j - 1]
      /\ length' = Len(chain') /\ NodesLive'
  <2>1. p \in 1..(Len(chain) + 1)
    BY <1>1
  <2>2. /\ Len(chain') = Len(chain) + 1
        /\ \A j \in 1..(Len(chain) + 1) :
             chain'[j] = IF j < p THEN chain[j] ELSE IF j = p THEN n ELSE chain[j - 1]
        /\ length' = Len(chain') /\ NodesLive'
    BY <2>1, InsertShape
  <2> QED  BY <2>2, <1>1
<1>3. prev[chain[p]] = chain[p - 1] /\ p - 1 \in 1..Len(chain)
  BY <1>1 DEF Linked, PrevLinked
<1>4. /\ next' = [next EXCEPT ![n] = chain[p], ![chain[p - 1]] = n]
      /\ prev' = [prev EXCEPT ![chain[p]] = n, ![n] = chain[p - 1]]
  BY <1>3 DEF LinkBefore
<1>5. EndsLinked'
  <2>1. 1 \in 1..(p - 1) /\ Len(chain) + 1 \in (p + 1)..(Len(chain) + 1)
    BY <1>1
  <2>2. chain'[1] = chain[1] /\ chain'[Len(chain) + 1] = chain[(Len(chain) + 1) - 1]
    BY <2>1, <1>2
  <2>3. (Len(chain) + 1) - 1 = Len(chain) /\ Len(chain') # 0
    BY <1>1, <1>2
  <2> QED  BY <2>2, <2>3, <1>1, <1>2 DEF EndsLinked, LinkBefore
<1>6. NextLinked'
  <2> SUFFICES ASSUME NEW k \in 1..Len(chain')
               PROVE  next'[chain'[k]] = IF k = Len(chain') THEN NULL ELSE chain'[k + 1]
    BY DEF NextLinked
  <2>0. k \in Int /\ k <= Len(chain) + 1 /\ Len(chain') = Len(chain) + 1
    BY <1>1, <1>2
  <2>1. CASE k = p
    BY <2>1, <1>1, <1>2, <1>3, <1>4 DEF TypeOK
  <2>2. CASE k = p - 1
    BY <2>2, <1>1, <1>2, <1>3, <1>4 DEF TypeOK
  <2>3. CASE k < p - 1
    <3>1. chain'[k] = chain[k] /\ k \in 1..Len(chain) /\ chain[k] # chain[p - 1]
      BY <2>3, <1>1, <1>2, <1>3
    <3>2. next'[chain[k]] = next[chain[k]]
      BY <3>1, <1>1, <1>4 DEF TypeOK
    <3>3. next[chain[k]] = chain[k + 1]
      BY <3>1, <2>3, <1>1 DEF Linked, NextLinked
    <3>4. k # Len(chain') /\ k + 1 \in 1..(p - 1)
      BY <2>3, <1>1, <1>2
    <3>5. chain'[k + 1] = chain[k + 1]
      BY <3>4, <1>2
    <3> QED  BY <3>1, <3>2, <3>3, <3>4, <3>5
  <2>4. CASE k > p
    <3>1. chain'[k] = chain[k - 1] /\ k - 1 \in 1..Len(chain) /\ k - 1 # p - 1
      BY <2>4, <1>1, <1>2
    <3>2. next'[chain[k - 1]] = next[chain[k - 1]]
      BY <3>1, <1>1, <1>3, <1>4 DEF TypeOK
    <3>3. next[chain[k - 1]] = IF k - 1 = Len(chain) THEN NULL ELSE chain[(k - 1) + 1]
      BY <3>1 DEF Linked, NextLinked
    <3>4. CASE k = Len(chain')
      BY <3>1, <3>2, <3>3, <3>4, <1>1, <1>2
    <3>5. CASE k # Len(chain')
      <4>0. k \in Int /\ k > p /\ k < Len(chain) + 1
        BY <3>5, <2>4, <2>0, <1>1
      <4>1. /\ k + 1 \in (p + 1)..(Len(chain) + 1)
            /\ k - 1 # Len(chain) /\ (k - 1) + 1 = k /\ (k + 1) - 1 = k
        BY <4>0, <1>1
      <4>2. chain'[k + 1] = chain[(k + 1) - 1]
        BY <4>1, <1>2
      <4> QED  BY <3>1, <3>2, <3>3, <3>5, <4>1, <4>2
    <3> QED  BY <3>4, <3>5
  <2> QED  BY <2>1, <2>2, <2>3, <2>4, <1>1, <1>2
<1>7. PrevLinked'
  <2> SUFFICES ASSUME NEW k \in 1..Len(chain')
               PROVE  prev'[chain'[k]] = IF k = 1 THEN NULL ELSE chain'[k - 1]
    BY DEF PrevLinked
  <2>1. CASE k = p
    BY <2>1, <1>1, <1>2, <1>3, <1>4 DEF TypeOK
  <2>2. CASE k = p + 1
    BY <2>2, <1>1, <1>2, <1>3, <1>4 DEF TypeOK
  <2>3. CASE k < p
    <3>1. chain'[k] = chain[k] /\ k \in 1..Len(chain) /\ chain[k] # chain[p]
      BY <2>3, <1>1, <1>2
    <3>2. prev'[chain[k]] = prev[chain[k]]
      BY <3>1, <1>1, <1>4 DEF TypeOK
    <3>3. prev[chain[k]] = IF k = 1 THEN NULL ELSE chain[k - 1]
      BY <3>1 DEF Linked, PrevLinked
    <3>4. k = 1 \/ chain'[k - 1] = chain[k - 1]
      BY <2>3, <1>1, <1>2
    <3> QED  BY <3>1, <3>2, <3>3, <3>4
  <2>4. CASE k > p + 1
    <3>1. chain'[k] = chain[k - 1] /\ k - 1 \in 1..Len(chain) /\ k - 1 # p /\ k - 1 # 1
      BY <2>4, <1>1, <1>2
    <3>2. prev'[chain[k - 1]] = prev[chain[k - 1]]
      BY <3>1, <1>1, <1>4 DEF TypeOK
    <3>3. prev[chain[k - 1]] = chain[(k - 1) - 1]
      BY <3>1 DEF Linked, PrevLinked
    <3>4. k # 1 /\ k - 1 \in (p + 1)..(Len(chain) + 1)
      BY <2>4, <1>1, <1>2
    <3>5. chain'[k - 1] = chain[(k - 1) - 1]
      BY <3>4, <1>2
    <3> QED  BY <3>1, <3>2, <3>3, <3>4, <3>5
  <2> QED  BY <2>1, <2>2, <2>3, <2>4, <1>1, <1>2
<1> QED  BY <1>2, <1>5, <1>6, <1>7 DEF Linked

-----------------------------------------------------------------------------
(***************************************************************************)
(* remove_node keeps the list linked, wherever the node stands.            *)
(***************************************************************************)
\* remove_node joins the two neighbours of the node, or moves head or tail off it.
LEMMA RemoveLinks ==
  ASSUME TypeOK, Linked, NEW k \in 1..Len(chain), NEW at, remove_node(k, at)
  PROVE  Linked'
<1> DEFINE L == Len(chain)
           n == chain[k]
<1>1. /\ L \in Nat /\ k \in Int /\ 1 <= k /\ k <= L
      /\ \A j \in 1..L : chain[j] \in Node /\ chain[j] # NULL
      /\ head = chain[1] /\ tail = chain[L]
      /\ \A a, b \in 1..L : chain[a] = chain[b] => a = b
  BY ChainFacts DEF Linked, EndsLinked, NodesLive
<1>2. /\ Len(chain') = L - 1
      /\ \A j \in 1..(k - 1) : chain'[j] = chain[j]
      /\ \A j \in k..(L - 1) : chain'[j] = chain[j + 1]
      /\ \A j \in 1..(L - 1) : chain'[j] # n
      /\ length' = Len(chain') /\ NodesLive'
  <2>1. /\ Len(chain') = L - 1
        /\ \A j \in 1..(L - 1) : chain'[j] = IF j < k THEN chain[j] ELSE chain[j + 1]
        /\ length' = Len(chain')
        /\ \A j \in 1..Len(chain') : chain'[j] # n
        /\ NodesLive'
    BY RemoveShape
  <2> QED  BY <2>1, <1>1
<1>3. /\ next[n] = IF k = L THEN NULL ELSE chain[k + 1]
      /\ prev[n] = IF k = 1 THEN NULL ELSE chain[k - 1]
  BY DEF Linked, NextLinked, PrevLinked
<1>4. /\ head' = IF head = n THEN next[n] ELSE head
      /\ tail' = IF tail = n THEN prev[n] ELSE tail
      /\ \A m \in Node : m # n => next'[m] = IF m = prev[n] THEN next[n] ELSE next[m]
      /\ \A m \in Node : m # n => prev'[m] = IF m = next[n] THEN prev[n] ELSE prev[m]
  BY DEF remove_node, Unlink
<1> HIDE DEF L, n
<1>5. n \in Node /\ n = chain[k] /\ L = Len(chain)
  BY <1>1 DEF n, L
<1>6. EndsLinked'
  <2>1. CASE L = 1
    BY <2>1, <1>1, <1>2, <1>3, <1>4, <1>5 DEF EndsLinked
  <2>2. CASE L > 1
    <3>1. head' = IF k = 1 THEN chain[2] ELSE chain[1]
      BY <2>2, <1>1, <1>3, <1>4, <1>5
    <3>2. tail' = IF k = L THEN chain[L - 1] ELSE chain[L]
      BY <2>2, <1>1, <1>3, <1>4, <1>5
    <3>3. chain'[1] = IF k = 1 THEN chain[2] ELSE chain[1]
      BY <2>2, <1>1, <1>2
    <3>4. chain'[L - 1] = IF k = L THEN chain[L - 1] ELSE chain[L]
      <4>1. CASE k = L
        <5>1. L - 1 \in 1..(k - 1)
          BY <4>1, <2>2, <1>1
        <5> QED  BY <5>1, <4>1, <1>2
      <4>2. CASE k # L
        <5>1. L - 1 \in k..(L - 1) /\ (L - 1) + 1 = L
          BY <4>2, <2>2, <1>1
        <5>2. chain'[L - 1] = chain[(L - 1) + 1]
          BY <5>1, <1>2
        <5> QED  BY <5>1, <5>2, <4>2
      <4> QED  BY <4>1, <4>2
    <3>5. Len(chain') = L - 1 /\ L - 1 # 0
      BY <2>2, <1>1, <1>2
    <3> QED  BY <3>1, <3>2, <3>3, <3>4, <3>5 DEF EndsLinked
  <2> QED  BY <2>1, <2>2, <1>1
<1>7. NextLinked'
  <2> SUFFICES ASSUME NEW j \in 1..Len(chain')
               PROVE  next'[chain'[j]] = IF j = Len(chain') THEN NULL ELSE chain'[j + 1]
    BY DEF NextLinked
  <2>0. j \in Int /\ 1 <= j /\ j <= L - 1 /\ Len(chain') = L - 1
    BY <1>1, <1>2
  <2>1. CASE j < k - 1
    <3>1. j \in 1..(k - 1) /\ j + 1 \in 1..(k - 1) /\ j \in 1..L /\ k - 1 \in 1..L
          /\ j # L /\ j # L - 1 /\ j # k - 1
      BY <2>0, <2>1, <1>1
    <3>2. chain'[j] = chain[j] /\ chain'[j + 1] = chain[j + 1]
      BY <3>1, <1>2
    <3>3. chain[j] \in Node /\ chain[j] # prev[n] /\ chain[j] # n
      BY <3>1, <1>1, <1>3, <1>5, <2>1, <2>0
    <3>4. next[chain[j]] = chain[j + 1]
      BY <3>1, <1>5 DEF Linked, NextLinked
    <3> QED  BY <3>1, <3>2, <3>3, <3>4, <1>4, <2>0
  <2>2. CASE j = k - 1
    <3>1. chain'[j] = prev[n] /\ prev[n] \in Node /\ prev[n] # n
      BY <2>0, <2>2, <1>1, <1>2, <1>3, <1>5
    <3>2. next'[chain'[j]] = next[n]
      BY <3>1, <1>4
    <3>3. CASE k = L
      BY <3>2, <3>3, <2>0, <2>2, <1>1, <1>3
    <3>4. CASE k # L
      <4>1. j + 1 = k /\ k \in k..(L - 1) /\ j # L - 1
        BY <3>4, <2>0, <2>2, <1>1
      <4>2. chain'[j + 1] = chain[k + 1]
        BY <4>1, <1>2
      <4> QED  BY <4>1, <4>2, <3>2, <3>4, <2>0, <1>3
    <3> QED  BY <3>3, <3>4
  <2>3. CASE j >= k
    <3>1. j \in k..(L - 1) /\ j + 1 \in 1..L /\ j + 1 # k - 1 /\ j + 1 # k
      BY <2>0, <2>3, <1>1
    <3>2. chain'[j] = chain[j + 1] /\ chain[j + 1] \in Node /\ chain[j + 1] # n
      BY <3>1, <1>1, <1>2, <1>5
    <3>3. chain[j + 1] # prev[n]
      <4>1. k = 1 \/ k - 1 \in 1..L
        BY <1>1
      <4> QED  BY <4>1, <3>1, <1>1, <1>3
    <3>4. next[chain[j + 1]] = IF j + 1 = L THEN NULL ELSE chain[(j + 1) + 1]
      BY <3>1, <1>5 DEF Linked, NextLinked
    <3>5. next'[chain'[j]] = next[chain[j + 1]]
      BY <3>2, <3>3, <1>4
    <3>6. CASE j = L - 1
      BY <3>4, <3>5, <3>6, <2>0, <1>1
    <3>7. CASE j # L - 1
      <4>1. j + 1 \in k..(L - 1) /\ j + 1 # L
        BY <3>7, <2>0, <2>3, <1>1
      <4>2. chain'[j + 1] = chain[(j + 1) + 1]
        BY <4>1, <1>2
      <4> QED  BY <4>1, <4>2, <3>4, <3>5, <3>7, <2>0
    <3> QED  BY <3>6, <3>7
  <2> QED  BY <2>0, <2>1, <2>2, <2>3, <1>1
<1>8. PrevLinked'
  <2> SUFFICES ASSUME NEW j \in 1..Len(chain')
               PROVE  prev'[chain'[j]] = IF j = 1 THEN NULL ELSE chain'[j - 1]
    BY DEF PrevLinked
  <2>0. j \in Int /\ 1 <= j /\ j <= L - 1
    BY <1>1, <1>2
  <2>1. CASE j < k
    <3>1. j \in 1..(k - 1) /\ j \in 1..L /\ (j = 1 \/ j - 1 \in 1..(k - 1)) /\ j # k + 1 /\ j # k
      BY <2>0, <2>1, <1>1
    <3>2. chain'[j] = chain[j] /\ chain[j] \in Node /\ chain[j] # n
      BY <3>1, <1>1, <1>2, <1>5
    <3>3. chain[j] # next[n]
      <4>1. k = L \/ k + 1 \in 1..L
        BY <1>1
      <4> QED  BY <4>1, <3>1, <1>1, <1>3
    <3>4. prev[chain[j]] = IF j = 1 THEN NULL ELSE chain[j - 1]
      BY <3>1, <1>5 DEF Linked, PrevLinked
    <3>5. prev'[chain'[j]] = prev[chain[j]]
      BY <3>2, <3>3, <1>4
    <3>6. j = 1 \/ chain'[j - 1] = chain[j - 1]
      BY <3>1, <1>2
    <3> QED  BY <3>4, <3>5, <3>6
  <2>2. CASE j = k
    <3>1. k \in k..(L - 1) /\ k # L /\ k + 1 \in 1..L /\ k + 1 # k
      BY <2>0, <2>2, <1>1
    <3>2. chain'[j] = next[n] /\ next[n] \in Node /\ next[n] # n
      BY <3>1, <2>2, <1>1, <1>2, <1>3, <1>5
    <3>3. prev'[chain'[j]] = prev[n]
      BY <3>2, <1>4
    <3>4. k = 1 \/ k - 1 \in 1..(k - 1)
      BY <1>1
    <3>5. k = 1 \/ chain'[k - 1] = chain[k - 1]
      BY <3>4, <1>2
    <3> QED  BY <3>3, <3>5, <2>2, <1>3
  <2>3. CASE j > k
    <3>1. /\ j \in k..(L - 1) /\ j - 1 \in k..(L - 1) /\ j + 1 \in 1..L
          /\ j # 1 /\ j + 1 # 1 /\ j + 1 # k /\ j + 1 # k + 1
          /\ (j - 1) + 1 = j /\ (j + 1) - 1 = j
      BY <2>0, <2>3, <1>1
    <3>2. chain'[j] = chain[j + 1] /\ chain[j + 1] \in Node /\ chain[j + 1] # n
      BY <3>1, <1>1, <1>2, <1>5
    <3>3. chain[j + 1] # next[n]
      <4>1. k = L \/ k + 1 \in 1..L
        BY <1>1
      <4> QED  BY <4>1, <3>1, <1>1, <1>3
    <3>4. prev[chain[j + 1]] = chain[(j + 1) - 1]
      BY <3>1, <1>5 DEF Linked, PrevLinked
    <3>5. prev'[chain'[j]] = prev[chain[j + 1]]
      BY <3>2, <3>3, <1>4
    <3>6. chain'[j - 1] = chain[(j - 1) + 1]
      BY <3>1, <1>2
    <3> QED  BY <3>1, <3>4, <3>5, <3>6
  <2> QED  BY <2>0, <2>1, <2>2, <2>3, <1>1
<1> QED  BY <1>2, <1>6, <1>7, <1>8 DEF Linked

-----------------------------------------------------------------------------
(***************************************************************************)
(* The inductive invariant, and the steps that leave the list alone.       *)
(***************************************************************************)
Inv == TypeOK /\ Linked /\ IterAttached /\ RegisteredOnce

\* dlist_init leaves an empty, well-formed list.
LEMMA InitInv == Init => Inv
<1> SUFFICES ASSUME Init PROVE Inv
  OBVIOUS
<1>1. TypeOK
  BY EmptySeq DEF Init, EmptyList, TypeOK
<1>2. Len(chain) = 0 /\ Len(iter_list) = 0
  BY DEF Init, EmptyList
<1>3. Linked
  BY <1>2 DEF Init, EmptyList, Linked, EndsLinked, NextLinked, PrevLinked, NodesLive
<1>4. IterAttached
  BY DListAssumption DEF Init, EmptyList, IterAttached
<1>5. RegisteredOnce
  BY <1>2 DEF Init, EmptyList, RegisteredOnce, Registered
<1> QED  BY <1>1, <1>3, <1>4, <1>5 DEF Inv

\* While the chain and its pointers stay, so does everything Linked says.
LEMMA SameListLinked ==
  ASSUME Linked, UNCHANGED listVars
  PROVE  Linked' /\ Linked_nodes' = Linked_nodes
BY DEF Linked, EndsLinked, NextLinked, PrevLinked, NodesLive, ValueAt, listVars,
       Linked_nodes

\* A call that leaves iter_list and the client's iterators alone keeps the registration.
LEMMA SameItersRegistered ==
  ASSUME RegisteredOnce, running, UNCHANGED <<iter_list, open>>
  PROVE  RegisteredOnce'
BY DEF RegisteredOnce, Registered, running

\* A process that dies in a call does so before it has changed the list.
LEMMA CrashInv ==
  ASSUME Inv, running, NEW how \in Crashes, Crash(how)
  PROVE  Inv'
<1>1. TypeOK'
  BY DEF Inv, TypeOK, Crash, listVars, iterVars
<1>2. Linked' /\ Linked_nodes' = Linked_nodes
  BY SameListLinked DEF Inv, Crash
<1>3. IterAttached'
  BY <1>2 DEF Inv, IterAttached, Crash, iterVars
<1>4. RegisteredOnce'
  BY SameItersRegistered DEF Inv, Crash, iterVars
<1> QED  BY <1>1, <1>2, <1>3, <1>4 DEF Inv

\* A step that changes nothing preserves the invariant.
LEMMA StutterInv ==
  ASSUME Inv, UNCHANGED vars
  PROVE  Inv'
<1>1. TypeOK'
  BY DEF Inv, TypeOK, vars, listVars, iterVars
<1>2. Linked' /\ Linked_nodes' = Linked_nodes
  BY SameListLinked DEF Inv, vars
<1>3. IterAttached'
  BY <1>2 DEF Inv, IterAttached, vars, iterVars
<1>4. RegisteredOnce'
  BY DEF Inv, RegisteredOnce, Registered, vars, iterVars
<1> QED  BY <1>1, <1>2, <1>3, <1>4 DEF Inv

\* A new entry of iter_list is registered besides those that were.
LEMMA EntryRegistered ==
  ASSUME TypeOK, NEW x, iter_list' = Append(iter_list, x)
  PROVE  Registered' = Registered \cup {x}
<1>1. /\ Len(iter_list) \in Nat
      /\ Len(iter_list') = Len(iter_list) + 1
      /\ \A k \in 1..Len(iter_list) : iter_list'[k] = iter_list[k]
      /\ iter_list'[Len(iter_list) + 1] = x
  <2>1. iter_list \in Seq(Registered \cup {x})
    <3>1. iter_list \in [1..Len(iter_list) -> Registered \cup {x}] /\ Len(iter_list) \in Nat
      BY DEF TypeOK, Registered
    <3> QED  BY <3>1
  <2> QED  BY <2>1, AppendProperties
<1>2. \A k \in 1..Len(iter_list') : k \in 1..Len(iter_list) \/ k = Len(iter_list) + 1
  BY <1>1
<1>3. Len(iter_list) + 1 \in 1..Len(iter_list')
        /\ \A k \in 1..Len(iter_list) : k \in 1..Len(iter_list')
  BY <1>1
<1> QED  BY <1>1, <1>2, <1>3 DEF Registered

\* A stale entry is no iterator: registration is as it was.
LEMMA StaleEntryRegistered ==
  ASSUME TypeOK, RegisteredOnce, running, LeaveStaleEntry, UNCHANGED open
  PROVE  iter_list' \in Seq(Iter \cup {Dangling}) /\ RegisteredOnce'
<1>1. /\ iter_list \in Seq(Iter \cup {Dangling})
      /\ iter_list' = Append(iter_list, Dangling)
  BY DEF TypeOK, LeaveStaleEntry
<1>2. /\ iter_list' \in Seq(Iter \cup {Dangling})
      /\ Len(iter_list) \in Nat
      /\ Len(iter_list') = Len(iter_list) + 1
      /\ \A k \in 1..Len(iter_list) : iter_list'[k] = iter_list[k]
      /\ iter_list'[Len(iter_list) + 1] = Dangling
  BY <1>1, AppendProperties
<1>3. \A k \in 1..Len(iter_list') : k \in 1..Len(iter_list) \/ k = Len(iter_list) + 1
  BY <1>2
<1>4. \A k \in 1..Len(iter_list) : k \in 1..Len(iter_list')
  BY <1>2
<1>5. Registered' \ {Dangling} = Registered \ {Dangling}
  BY <1>2, <1>3, <1>4 DEF Registered
<1>6. \A a, b \in 1..Len(iter_list') :
        iter_list'[a] = iter_list'[b] /\ iter_list'[a] # Dangling => a = b
  BY <1>2, <1>3 DEF RegisteredOnce
<1> QED  BY <1>2, <1>5, <1>6 DEF RegisteredOnce, running

-----------------------------------------------------------------------------
(***************************************************************************)
(* Insertion.                                                              *)
(***************************************************************************)
\* Account adds one node to the nodes of the list.
LEMMA InsertedNodes ==
  ASSUME TypeOK, Linked, NEW n \in Node \ alloc, NEW v \in Data,
         NEW k \in 1..(Len(chain) + 1), Account(n, v, k)
  PROVE  Linked_nodes' = Linked_nodes \cup {n}
<1>1. /\ Len(chain) \in Nat /\ k \in Int
      /\ Len(chain') = Len(chain) + 1
      /\ \A j \in 1..(Len(chain) + 1) :
           chain'[j] = IF j < k THEN chain[j] ELSE IF j = k THEN n ELSE chain[j - 1]
  BY InsertShape, ChainFacts
<1>2. ASSUME NEW x \in Linked_nodes
      PROVE  x \in Linked_nodes'
  <2>1. PICK j \in 1..Len(chain) : x = chain[j]
    BY <1>2 DEF Linked_nodes
  <2>2. CASE j < k
    BY <2>1, <2>2, <1>1 DEF Linked_nodes
  <2>3. CASE j >= k
    <3>1. /\ j + 1 \in 1..(Len(chain) + 1) /\ ~(j + 1 < k) /\ j + 1 # k
          /\ (j + 1) - 1 = j
      BY <2>1, <2>3, <1>1
    <3>2. chain'[j + 1] = chain[j]
      BY <3>1, <1>1
    <3> QED  BY <2>1, <3>1, <3>2, <1>1 DEF Linked_nodes
  <2> QED  BY <2>1, <2>2, <2>3, <1>1
<1>3. n \in Linked_nodes'
  BY <1>1 DEF Linked_nodes
<1>4. ASSUME NEW x \in Linked_nodes', x # n
      PROVE  x \in Linked_nodes
  <2>1. PICK j \in 1..(Len(chain) + 1) : x = chain'[j]
    BY <1>4, <1>1 DEF Linked_nodes
  <2>2. j # k
    BY <2>1, <1>1, <1>4
  <2>3. (j < k /\ j \in 1..Len(chain)) \/ (~(j < k) /\ j - 1 \in 1..Len(chain))
    BY <2>1, <2>2, <1>1
  <2> QED  BY <2>1, <2>2, <2>3, <1>1 DEF Linked_nodes
<1> QED  BY <1>2, <1>3, <1>4

\* What Account assigns has the type of its field.
LEMMA AccountTypes ==
  ASSUME TypeOK, Linked, NEW n \in Node \ alloc, NEW v \in Data,
         NEW k \in 1..(Len(chain) + 1), Account(n, v, k)
  PROVE  /\ data' \in [Node -> Data \cup {NULL}]
         /\ alloc' \in SUBSET Node /\ length' \in Nat /\ chain' \in Seq(Node)
<1>1. chain' \in Seq(Node)
  BY InsertShape
<1> QED  BY <1>1 DEF Account, TypeOK

\* The first node of a list sends every registered iterator to itself, a node of the list.
LEMMA AddFirstInv ==
  ASSUME Inv, running, NEW n \in Node \ alloc, NEW v \in Data, AddFirst(n, v),
         ret' \in Data \cup {NULL, DLIST_SUCC, DLIST_FAIL}
  PROVE  Inv'
<1>1. /\ TypeOK /\ Linked /\ IterAttached /\ RegisteredOnce
      /\ Len(chain) = 0 /\ 1 \in 1..(Len(chain) + 1) /\ Account(n, v, 1)
  BY DEF Inv, AddFirst, Linked
<1>2. Linked'
  BY <1>1, AddFirstLinks
<1>3. /\ data' \in [Node -> Data \cup {NULL}]
      /\ alloc' \in SUBSET Node /\ length' \in Nat /\ chain' \in Seq(Node)
  BY <1>1, AccountTypes
<1>4. TypeOK'
  BY <1>1, <1>3 DEF TypeOK, AddFirst, Rewind
<1>5. Linked_nodes' = Linked_nodes \cup {n}
  BY <1>1, InsertedNodes
<1>6. IterAttached'
  BY <1>1, <1>5 DEF IterAttached, AddFirst, Rewind
<1>7. RegisteredOnce'
  BY <1>1, SameItersRegistered DEF AddFirst, Rewind
<1> QED  BY <1>2, <1>4, <1>6, <1>7 DEF Inv

\* A node linked behind another one: the iterators stay where they are.
LEMMA AddLaterInv ==
  ASSUME Inv, running, NEW n \in Node \ alloc, NEW v \in Data,
         NEW k \in 1..(Len(chain) + 1), Account(n, v, k), Linked',
         head' \in Node \cup {NULL}, tail' \in Node \cup {NULL},
         next' \in [Node -> Node \cup {NULL}], prev' \in [Node -> Node \cup {NULL}],
         iter_list' \in Seq(Iter \cup {Dangling}), RegisteredOnce',
         UNCHANGED <<open, node, index, status>>,
         ret' \in Data \cup {NULL, DLIST_SUCC, DLIST_FAIL}
  PROVE  Inv'
<1>1. TypeOK /\ Linked /\ IterAttached
  BY DEF Inv
<1>2. /\ data' \in [Node -> Data \cup {NULL}]
      /\ alloc' \in SUBSET Node /\ length' \in Nat /\ chain' \in Seq(Node)
  BY <1>1, AccountTypes
<1>3. TypeOK'
  BY <1>1, <1>2 DEF TypeOK
<1>4. Linked_nodes' = Linked_nodes \cup {n}
  BY <1>1, InsertedNodes
<1>5. IterAttached'
  BY <1>1, <1>4 DEF IterAttached
<1> QED  BY <1>3, <1>5 DEF Inv

\* Reaching a freed iterator through iter_list ends the process.
LEMMA AddFirstFaultInv ==
  ASSUME Inv, running, AddFirstFault
  PROVE  Inv'
BY CrashInv DEF AddFirstFault, Crashes

\* dlist_prepend preserves the invariant.
LEMMA PrependInv ==
  ASSUME Inv, NEW v \in Data, dlist_prepend(v)
  PROVE  Inv'
<1>0. running /\ TypeOK /\ Linked /\ RegisteredOnce
  BY DEF dlist_prepend, Inv
<1>1. CASE AddFirstFault
  BY <1>0, <1>1, AddFirstFaultInv
<1>2. ASSUME NEW n \in Node \ alloc, AddFirst(n, v), ret' = NULL
      PROVE  Inv'
  BY <1>0, <1>2, AddFirstInv
<1>3. ASSUME NEW n \in Node \ alloc, length > 0, LinkHead(n), Account(n, v, 1),
             UNCHANGED <<iterVars, status>>, ret' = NULL
      PROVE  Inv'
  <2>1. Linked'
    BY <1>0, <1>3, PrependLinks
  <2>2. /\ head' \in Node \cup {NULL} /\ tail' \in Node \cup {NULL}
        /\ next' \in [Node -> Node \cup {NULL}] /\ prev' \in [Node -> Node \cup {NULL}]
    BY <1>0, <1>3 DEF LinkHead, TypeOK
  <2>3. iter_list' \in Seq(Iter \cup {Dangling}) /\ UNCHANGED <<open, node, index, status>>
    BY <1>0, <1>3 DEF TypeOK, iterVars
  <2>4. RegisteredOnce'
    BY <1>0, <1>3, SameItersRegistered DEF iterVars
  <2>5. 1 \in 1..(Len(chain) + 1)
    BY <1>0, ChainFacts
  <2> QED  BY <1>0, <1>3, <2>1, <2>2, <2>3, <2>4, <2>5, AddLaterInv
<1> QED  BY <1>1, <1>2, <1>3 DEF dlist_prepend

\* dlist_append preserves the invariant.
LEMMA AppendInv ==
  ASSUME Inv, NEW v \in Data, dlist_append(v)
  PROVE  Inv'
<1>0. running /\ TypeOK /\ Linked /\ RegisteredOnce
  BY DEF dlist_append, Inv
<1>1. CASE AddFirstFault
  BY <1>0, <1>1, AddFirstFaultInv
<1>2. ASSUME NEW n \in Node \ alloc, AddFirst(n, v), ret' = NULL
      PROVE  Inv'
  BY <1>0, <1>2, AddFirstInv
<1>3. ASSUME NEW n \in Node \ alloc, length > 0, LinkTail(n),
             Account(n, v, Len(chain) + 1), UNCHANGED <<iterVars, status>>, ret' = NULL
      PROVE  Inv'
  <2>1. Linked'
    BY <1>0, <1>3, AppendLinks
  <2>2. /\ head' \in Node \cup {NULL} /\ tail' \in Node \cup {NULL}
        /\ next' \in [Node -> Node \cup {NULL}] /\ prev' \in [Node -> Node \cup {NULL}]
    BY <1>0, <1>3 DEF LinkTail, TypeOK
  <2>3. iter_list' \in Seq(Iter \cup {Dangling}) /\ UNCHANGED <<open, node, index, status>>
    BY <1>0, <1>3 DEF TypeOK, iterVars
  <2>4. RegisteredOnce'
    BY <1>0, <1>3, SameItersRegistered DEF iterVars
  <2>5. Len(chain) + 1 \in 1..(Len(chain) + 1)
    BY <1>0, ChainFacts
  <2> QED  BY <1>0, <1>3, <2>1, <2>2, <2>3, <2>4, <2>5, AddLaterInv
<1> QED  BY <1>1, <1>2, <1>3 DEF dlist_append

\* An index in range names a node of the list (dl_iter.c:292-403).
LEMMA PositionInList ==
  ASSUME Linked, NEW i \in Int, InRange(i), Len(chain) \in Nat
  PROVE  Position(i) \in 1..Len(chain)
BY DEF Linked, InRange, Position

\* dlist_insert preserves the invariant, when it fails and leaks its node too.
LEMMA InsertInv ==
  ASSUME Inv, NEW v \in Data, NEW i \in Index, dlist_insert(v, i)
  PROVE  Inv'
<1>0. running /\ TypeOK /\ Linked /\ IterAttached /\ RegisteredOnce /\ i \in Int
  BY DListAssumption DEF dlist_insert, Inv
<1>1. CASE AddFirstFault
  BY <1>0, <1>1, AddFirstFaultInv
<1>2. CASE Crash("null_dereference")
  BY <1>0, <1>2, CrashInv DEF Crashes
<1>3. ASSUME NEW n \in Node \ alloc, AddFirst(n, v), ret' = DLIST_SUCC
      PROVE  Inv'
  BY <1>0, <1>3, AddFirstInv
<1>4. ASSUME NEW n \in Node \ alloc, InsertNowhere(n, i), LeaveStaleEntry,
             UNCHANGED <<open, node, index, status>>
      PROVE  Inv'
  <2>1. iter_list' \in Seq(Iter \cup {Dangling}) /\ RegisteredOnce'
    BY <1>0, <1>4, StaleEntryRegistered
  <2>2. TypeOK'
    BY <1>0, <1>4, <2>1 DEF TypeOK, InsertNowhere
  <2>3. Linked' /\ Linked_nodes' = Linked_nodes
    BY <1>0, <1>4 DEF InsertNowhere, Linked, EndsLinked, NextLinked, PrevLinked,
                      NodesLive, ValueAt, Linked_nodes
  <2>4. IterAttached'
    BY <1>0, <1>4, <2>3 DEF IterAttached
  <2> QED  BY <2>1, <2>2, <2>3, <2>4 DEF Inv
<1>5. ASSUME NEW n \in Node \ alloc, InsertInside(n, v, i), LeaveStaleEntry,
             UNCHANGED <<open, node, index, status>>
      PROVE  Inv'
  <2>1. iter_list' \in Seq(Iter \cup {Dangling}) /\ RegisteredOnce'
    BY <1>0, <1>5, StaleEntryRegistered
  <2>2. PICK p \in 2..Len(chain) : p = Position(i)
    <3>1. Len(chain) \in Nat /\ InRange(i) /\ Position(i) > 1
      BY <1>0, <1>5, ChainFacts DEF InsertInside
    <3>2. Position(i) \in 1..Len(chain)
      BY <1>0, <3>1, PositionInList
    <3> QED  BY <3>1, <3>2
  <2>3. LinkBefore(n, chain[p]) /\ Account(n, v, p) /\ ret' = DLIST_SUCC
    BY <1>5, <2>2 DEF InsertInside
  <2>4. Linked'
    BY <1>0, <2>3, InsertLinks
  <2>5. chain[p] \in Node /\ p \in 1..(Len(chain) + 1)
    BY <1>0, ChainFacts
  <2>6. /\ head' \in Node \cup {NULL} /\ tail' \in Node \cup {NULL}
        /\ next' \in [Node -> Node \cup {NULL}] /\ prev' \in [Node -> Node \cup {NULL}]
    BY <1>0, <2>3, <2>5 DEF LinkBefore, TypeOK
  <2> QED  BY <1>0, <1>5, <2>1, <2>3, <2>4, <2>5, <2>6, AddLaterInv
<1> QED  BY <1>1, <1>2, <1>3, <1>4, <1>5 DEF dlist_insert

-----------------------------------------------------------------------------
(***************************************************************************)
(* Reading, and moving iterators.                                          *)
(***************************************************************************)
\* The nodes of the list are addresses and carry values, never NULL.
LEMMA ValuesInData ==
  ASSUME TypeOK, Linked
  PROVE  /\ \A k \in 1..Len(chain) : ValueAt(k) \in Data
         /\ \A n \in Linked_nodes : n \in Node /\ n # NULL /\ data[n] \in Data
BY ChainFacts DEF Linked, NodesLive, ValueAt, Linked_nodes

\* head and tail are nodes of the list or NULL.
LEMMA EndsInList ==
  ASSUME TypeOK, Linked
  PROVE  head \in Linked_nodes \cup {NULL} /\ tail \in Linked_nodes \cup {NULL}
BY ChainFacts DEF Linked, EndsLinked, Linked_nodes

\* Following next or prev from a node of the list stays in it or reaches NULL.
LEMMA NeighboursInList ==
  ASSUME TypeOK, Linked, NEW n \in Linked_nodes
  PROVE  next[n] \in Linked_nodes \cup {NULL} /\ prev[n] \in Linked_nodes \cup {NULL}
<1>1. PICK k \in 1..Len(chain) : n = chain[k]
  BY DEF Linked_nodes
<1>2. Len(chain) \in Nat
  BY ChainFacts
<1>3. next[n] = NULL \/ (next[n] = chain[k + 1] /\ k + 1 \in 1..Len(chain))
  BY <1>1, <1>2 DEF Linked, NextLinked
<1>4. prev[n] = NULL \/ (prev[n] = chain[k - 1] /\ k - 1 \in 1..Len(chain))
  BY <1>1, <1>2 DEF Linked, PrevLinked
<1> QED  BY <1>3, <1>4 DEF Linked_nodes

\* dlist_get_by_index preserves the invariant: the entry it leaves behind is stale.
LEMMA GetByIndexInv ==
  ASSUME Inv, NEW i \in Int, dlist_get_by_index(i)
  PROVE  Inv'
<1>1. /\ running /\ TypeOK /\ Linked /\ IterAttached /\ RegisteredOnce
      /\ LeaveStaleEntry /\ UNCHANGED <<listVars, open, node, index, status>>
  BY DEF dlist_get_by_index, Inv
<1>2. iter_list' \in Seq(Iter \cup {Dangling}) /\ RegisteredOnce'
  BY <1>1, StaleEntryRegistered
<1>3. ret' \in Data \cup {NULL}
  BY <1>1, ValuesInData, PositionInList, ChainFacts DEF dlist_get_by_index
<1>4. TypeOK'
  BY <1>1, <1>2, <1>3 DEF TypeOK, listVars
<1>5. Linked' /\ Linked_nodes' = Linked_nodes
  BY <1>1, SameListLinked
<1>6. IterAttached'
  BY <1>1, <1>5 DEF IterAttached
<1> QED  BY <1>2, <1>4, <1>5, <1>6 DEF Inv

\* dlist_get_by_value preserves the invariant.
LEMMA GetByValueInv ==
  ASSUME Inv, NEW v \in Data, dlist_get_by_value(v)
  PROVE  Inv'
<1>1. /\ running /\ TypeOK /\ Linked /\ IterAttached /\ RegisteredOnce
      /\ UNCHANGED <<listVars, iterVars, status>>
  BY DEF dlist_get_by_value, Inv
<1>2. ret' \in Data \cup {NULL}
  BY <1>1, ValuesInData DEF dlist_get_by_value, FirstAt
<1>3. TypeOK'
  BY <1>1, <1>2 DEF TypeOK, listVars, iterVars
<1>4. Linked' /\ Linked_nodes' = Linked_nodes
  BY <1>1, SameListLinked
<1>5. IterAttached' /\ RegisteredOnce'
  BY <1>1, <1>4, SameItersRegistered DEF IterAttached, iterVars
<1> QED  BY <1>3, <1>4, <1>5 DEF Inv

\* A new iterator was not registered before, and is registered last.
LEMMA GetIterableInv ==
  ASSUME Inv, NEW i \in Iter, NEW pos, dlist_get_iterable(i, pos)
  PROVE  Inv'
<1>1. /\ running /\ TypeOK /\ Linked /\ IterAttached /\ RegisteredOnce /\ i \notin open
      /\ UNCHANGED <<listVars, status>>
      /\ open' = open \cup {i}
      /\ iter_list \in Seq(Iter \cup {Dangling}) /\ iter_list' = Append(iter_list, i)
  BY DEF dlist_get_iterable, Inv, TypeOK
<1>2. /\ iter_list' \in Seq(Iter \cup {Dangling})
      /\ Len(iter_list) \in Nat
      /\ Len(iter_list') = Len(iter_list) + 1
      /\ \A k \in 1..Len(iter_list) : iter_list'[k] = iter_list[k]
      /\ iter_list'[Len(iter_list) + 1] = i
  BY <1>1, AppendProperties
<1>3. \A k \in 1..Len(iter_list') : k \in 1..Len(iter_list) \/ k = Len(iter_list) + 1
  BY <1>2
<1>4. \A k \in 1..Len(iter_list) : k \in 1..Len(iter_list')
  BY <1>2
<1>5. i # Dangling /\ i \notin Registered
  BY <1>1, DListAssumption DEF RegisteredOnce, running
<1>6. Registered' = Registered \cup {i}
  <2>1. Len(iter_list) + 1 \in 1..Len(iter_list')
    BY <1>2
  <2> QED  BY <2>1, <1>2, <1>3, <1>4 DEF Registered
<1>7. \A a, b \in 1..Len(iter_list') :
        iter_list'[a] = iter_list'[b] /\ iter_list'[a] # Dangling => a = b
  <2>1. \A k \in 1..Len(iter_list) : iter_list[k] # i
    BY <1>5 DEF Registered
  <2> QED  BY <2>1, <1>1, <1>2, <1>3 DEF RegisteredOnce
<1>8. RegisteredOnce'
  BY <1>1, <1>5, <1>6, <1>7 DEF RegisteredOnce, running
<1>9. tail_index \in Int
  BY <1>1 DEF TypeOK, tail_index
<1>10. TypeOK'
  BY <1>1, <1>2, <1>9 DEF TypeOK, listVars, dlist_get_iterable
<1>11. Linked' /\ Linked_nodes' = Linked_nodes
  BY <1>1, SameListLinked
<1>12. IterAttached'
  BY <1>1, <1>11, EndsInList, DListAssumption DEF IterAttached, dlist_get_iterable, TypeOK
<1> QED  BY <1>8, <1>10, <1>11, <1>12 DEF Inv

\* The entry of a registered iterator is its only one: with it gone the others are
\* registered as before.
LEMMA UnregisteredEntry ==
  ASSUME TypeOK, RegisteredOnce, NEW i \in Registered, i # Dangling, Unregister(i)
  PROVE  /\ iter_list' \in Seq(Iter \cup {Dangling})
         /\ Registered' = Registered \ {i}
         /\ \A a, b \in 1..Len(iter_list') :
              iter_list'[a] = iter_list'[b] /\ iter_list'[a] # Dangling => a = b
<1>1. iter_list \in Seq(Iter \cup {Dangling})
  BY DEF TypeOK
<1>3. PICK k \in 1..Len(iter_list) :
        /\ iter_list[k] = i
        /\ iter_list' = RemoveAt(iter_list, k)
  BY DEF Unregister
<1>4. /\ RemoveAt(iter_list, k) \in Seq(Iter \cup {Dangling})
      /\ Len(RemoveAt(iter_list, k)) = Len(iter_list) - 1
  BY <1>1, RemoveAtElements
<1>5. \A j \in 1..(Len(iter_list) - 1) :
        RemoveAt(iter_list, k)[j] = IF j < k THEN iter_list[j] ELSE iter_list[j + 1]
  BY <1>1, RemoveAtElements
<1>6. Len(iter_list) \in Nat /\ k \in Int
  BY <1>1, LenProperties
<1> DEFINE Old(j) == IF j < k THEN j ELSE j + 1
<1>7. \A j \in 1..Len(iter_list') :
        /\ Old(j) \in 1..Len(iter_list) /\ Old(j) # k
        /\ iter_list'[j] = iter_list[Old(j)]
  BY <1>3, <1>4, <1>5, <1>6
<1>8. ASSUME NEW x \in Registered, x # i
      PROVE  x \in Registered'
  <2>1. PICK m \in 1..Len(iter_list) : x = iter_list[m]
    BY DEF Registered
  <2>2. CASE m < k
    <3>1. m \in 1..Len(iter_list') /\ Old(m) = m
      BY <2>2, <1>3, <1>4, <1>6
    <3>2. iter_list'[m] = x
      BY <2>1, <3>1, <1>7
    <3> QED  BY <3>1, <3>2 DEF Registered
  <2>3. CASE m > k
    <3>1. m - 1 \in 1..Len(iter_list') /\ Old(m - 1) = m
      BY <2>3, <1>3, <1>4, <1>6
    <3>2. iter_list'[m - 1] = x
      BY <2>1, <3>1, <1>7
    <3> QED  BY <3>1, <3>2 DEF Registered
  <2> QED  BY <2>1, <2>2, <2>3, <1>3, <1>6, <1>8
<1>9. ASSUME NEW x \in Registered'
      PROVE  x \in Registered /\ x # i
  <2>1. PICK j \in 1..Len(iter_list') : x = iter_list'[j]
    BY DEF Registered
  <2>2. x = iter_list[Old(j)] /\ Old(j) \in 1..Len(iter_list) /\ Old(j) # k
    BY <2>1, <1>7
  <2> HIDE DEF Old
  <2> QED  BY <2>2, <1>3 DEF Registered, RegisteredOnce
<1>10. ASSUME NEW a \in 1..Len(iter_list'), NEW b \in 1..Len(iter_list'),
              iter_list'[a] = iter_list'[b], iter_list'[a] # Dangling
       PROVE  a = b
  <2>1. Old(a) = Old(b)
    BY <1>7, <1>10 DEF RegisteredOnce
  <2>2. a \in Int /\ b \in Int
    BY <1>3, <1>4, <1>6
  <2> QED  BY <2>1, <2>2, <1>6
<1>11. Registered' = Registered \ {i}
  BY <1>8, <1>9
<1> QED  BY <1>3, <1>4, <1>10, <1>11

\* Destroying an iterator takes its only entry out of iter_list.
LEMMA DestroyIterInv ==
  ASSUME Inv, NEW i \in Iter, dlist_destroy_iter(i)
  PROVE  Inv' /\ Registered' = Registered \ {i}
<1>1. /\ running /\ TypeOK /\ Linked /\ IterAttached /\ RegisteredOnce /\ i \in open
      /\ UNCHANGED <<listVars, status>> /\ Unregister(i)
      /\ open' = open \ {i} /\ i # Dangling
  BY DListAssumption DEF dlist_destroy_iter, Inv
<1>2. Registered \ {Dangling} = open /\ i \in Registered
  BY <1>1 DEF RegisteredOnce, running
<1>3. /\ iter_list' \in Seq(Iter \cup {Dangling})
      /\ Registered' = Registered \ {i}
      /\ \A a, b \in 1..Len(iter_list') :
           iter_list'[a] = iter_list'[b] /\ iter_list'[a] # Dangling => a = b
  BY <1>1, <1>2, UnregisteredEntry
<1>4. RegisteredOnce'
  BY <1>1, <1>2, <1>3 DEF RegisteredOnce, running
<1>5. TypeOK'
  BY <1>1, <1>3 DEF TypeOK, listVars, dlist_destroy_iter
<1>6. Linked' /\ Linked_nodes' = Linked_nodes
  BY <1>1, SameListLinked
<1>7. IterAttached'
  BY <1>1, <1>6, DListAssumption DEF IterAttached, dlist_destroy_iter, TypeOK
<1> QED  BY <1>3, <1>4, <1>5, <1>6, <1>7 DEF Inv

\* iter_get_value preserves the invariant: what it reads is a value or NULL.
LEMMA GetValueInv ==
  ASSUME Inv, NEW i \in Iter, iter_get_value(i)
  PROVE  Inv'
<1>1. running /\ TypeOK /\ Linked /\ IterAttached /\ RegisteredOnce
  BY DEF iter_get_value, Inv
<1>2. CASE Crash("use_after_free")
  BY <1>1, <1>2, CrashInv DEF Crashes
<1>3. CASE /\ node[i] # Dangling
           /\ ret' = IF node[i] = NULL THEN NULL ELSE data[node[i]]
           /\ UNCHANGED <<listVars, iterVars, status>>
  <2>1. node[i] = NULL \/ node[i] \in Linked_nodes
    BY <1>1, <1>3 DEF IterAttached, TypeOK
  <2>2. ret' \in Data \cup {NULL}
    BY <2>1, <1>1, <1>3, ValuesInData
  <2>3. TypeOK'
    BY <1>1, <1>3, <2>2 DEF TypeOK, listVars, iterVars
  <2>4. Linked' /\ Linked_nodes' = Linked_nodes
    BY <1>1, <1>3, SameListLinked
  <2>5. IterAttached' /\ RegisteredOnce'
    BY <1>1, <1>3, <2>4, SameItersRegistered DEF IterAttached, iterVars
  <2> QED  BY <2>3, <2>4, <2>5 DEF Inv
<1> QED  BY <1>2, <1>3 DEF iter_get_value

\* A cursor of the list stays one when it steps.
Cursors == [node : Linked_nodes \cup {NULL}, index : Int]

\* One step of an iterator along the list ends on the list or past its end.
LEMMA StepInList ==
  ASSUME TypeOK, Linked, NEW c \in Cursors, NEW fetch
  PROVE  Step(c, fetch) \in Cursors
<1>1. CASE c.node = NULL
  BY <1>1 DEF Step
<1>2. CASE c.node \in Linked_nodes
  <2>1. c.node # NULL
    BY <1>2, ValuesInData
  <2>2. next[c.node] \in Linked_nodes \cup {NULL} /\ prev[c.node] \in Linked_nodes \cup {NULL}
    BY <1>2, NeighboursInList
  <2>3. c.index + 1 \in Int /\ c.index - 1 \in Int
    BY DEF Cursors
  <2> QED  BY <2>1, <2>2, <2>3 DEF Step, Cursors
<1> QED  BY <1>1, <1>2 DEF Cursors

\* An iterator that does not dangle stands on the list or past its end.
LEMMA CursorInList ==
  ASSUME TypeOK, IterAttached, NEW i \in Iter, node[i] # Dangling
  PROVE  Cursor(i) \in Cursors
BY DEF TypeOK, IterAttached, Cursor, Cursors

\* dlist_get_iter_next and dlist_get_iter_prev preserve the invariant.
LEMMA IterateInv ==
  ASSUME Inv, NEW i \in Iter, NEW fetch, iterate(i, fetch)
  PROVE  Inv'
<1>1. running /\ TypeOK /\ Linked /\ IterAttached /\ RegisteredOnce
  BY DEF iterate, Inv
<1>2. CASE Crash("use_after_free")
  BY <1>1, <1>2, CrashInv DEF Crashes
<1>3. CASE node[i] # Dangling /\ ~Crash("use_after_free")
  <2> DEFINE c == Step(Cursor(i), fetch)
  <2>1. /\ node' = [node EXCEPT ![i] = c.node]
        /\ index' = [index EXCEPT ![i] = c.index]
        /\ ret' = IF c.node = NULL THEN NULL ELSE data[c.node]
        /\ UNCHANGED <<listVars, iter_list, open, status>>
    BY <1>3 DEF iterate
  <2>2. c \in Cursors
    BY <1>1, <1>3, CursorInList, StepInList
  <2> HIDE DEF c
  <2>3. c.node \in Linked_nodes \cup {NULL} /\ c.index \in Int
    BY <2>2 DEF Cursors
  <2>4. ret' \in Data \cup {NULL} /\ c.node \in Node \cup {NULL}
    BY <1>1, <2>1, <2>3, ValuesInData
  <2>5. TypeOK'
    BY <1>1, <2>1, <2>3, <2>4 DEF TypeOK, listVars
  <2>6. Linked' /\ Linked_nodes' = Linked_nodes
    BY <1>1, <2>1, SameListLinked
  <2>7. IterAttached'
    BY <1>1, <2>1, <2>3, <2>6, DListAssumption DEF IterAttached, TypeOK
  <2>8. RegisteredOnce'
    BY <1>1, <2>1, SameItersRegistered
  <2> QED  BY <2>5, <2>6, <2>7, <2>8 DEF Inv
<1> QED  BY <1>2, <1>3 DEF iterate

\* dlist_set_iter_head and dlist_set_iter_tail preserve the invariant.
LEMMA SetIterInv ==
  ASSUME Inv, NEW i \in Iter, NEW pos, dlist_set_iter(i, pos)
  PROVE  Inv'
<1>1. running /\ TypeOK /\ Linked /\ IterAttached /\ RegisteredOnce
  BY DEF dlist_set_iter, Inv
<1>2. CASE Crash("assert_failed")
  BY <1>1, <1>2, CrashInv DEF Crashes
<1>3. CASE ~Crash("assert_failed")
  <2>1. /\ node' = [node EXCEPT ![i] = IF pos = "ITER_HEAD" THEN head ELSE tail]
        /\ index' = [index EXCEPT ![i] = IF pos = "ITER_HEAD" THEN 0 ELSE tail_index]
        /\ ret' = NULL
        /\ UNCHANGED <<listVars, iter_list, open, status>>
    BY <1>3 DEF dlist_set_iter
  <2>2. tail_index \in Int
    BY <1>1 DEF TypeOK, tail_index
  <2>3. TypeOK'
    BY <1>1, <2>1, <2>2 DEF TypeOK, listVars
  <2>4. Linked' /\ Linked_nodes' = Linked_nodes
    BY <1>1, <2>1, SameListLinked
  <2>5. IterAttached'
    BY <1>1, <2>1, <2>4, EndsInList, DListAssumption DEF IterAttached, TypeOK
  <2>6. RegisteredOnce'
    BY <1>1, <2>1, SameItersRegistered
  <2> QED  BY <2>3, <2>4, <2>5, <2>6 DEF Inv
<1> QED  BY <1>2, <1>3 DEF dlist_set_iter

-----------------------------------------------------------------------------
(***************************************************************************)
(* Removal, sorting and destruction.                                       *)
(***************************************************************************)
\* remove_node takes one node out of the nodes of the list.
LEMMA RemovedNodes ==
  ASSUME TypeOK, Linked, NEW k \in 1..Len(chain), NEW at, remove_node(k, at)
  PROVE  Linked_nodes' = Linked_nodes \ {chain[k]}
<1>1. /\ Len(chain) \in Nat /\ k \in Int
      /\ Len(chain') = Len(chain) - 1
      /\ \A j \in 1..(Len(chain) - 1) :
           chain'[j] = IF j < k THEN chain[j] ELSE chain[j + 1]
      /\ \A j \in 1..Len(chain') : chain'[j] # chain[k]
  BY RemoveShape, ChainFacts
<1>2. ASSUME NEW x \in Linked_nodes, x # chain[k]
      PROVE  x \in Linked_nodes'
  <2>1. PICK j \in 1..Len(chain) : x = chain[j]
    BY <1>2 DEF Linked_nodes
  <2>2. CASE j < k
    <3>1. j \in 1..(Len(chain) - 1)
      BY <2>1, <2>2, <1>1
    <3> QED  BY <3>1, <2>1, <2>2, <1>1 DEF Linked_nodes
  <2>3. CASE j > k
    <3>1. j - 1 \in 1..(Len(chain) - 1) /\ ~(j - 1 < k) /\ (j - 1) + 1 = j
      BY <2>1, <2>3, <1>1
    <3>2. chain'[j - 1] = chain[j]
      BY <3>1, <1>1
    <3> QED  BY <3>1, <3>2, <2>1, <1>1 DEF Linked_nodes
  <2> QED  BY <2>1, <2>2, <2>3, <1>1, <1>2
<1>3. ASSUME NEW x \in Linked_nodes'
      PROVE  x \in Linked_nodes /\ x # chain[k]
  <2>1. PICK j \in 1..Len(chain') : x = chain'[j]
    BY DEF Linked_nodes
  <2>2. /\ j \in 1..(Len(chain) - 1) /\ j \in 1..Len(chain) /\ j + 1 \in 1..Len(chain)
        /\ x # chain[k]
    BY <2>1, <1>1
  <2> QED  BY <2>1, <2>2, <1>1 DEF Linked_nodes
<1> QED  BY <1>2, <1>3

\* remove_node, wherever the iterators were moved to beforehand.
LEMMA RemoveNodeInv ==
  ASSUME Inv, running, NEW k \in 1..Len(chain), NEW at, remove_node(k, at),
         at \in [Iter -> Linked_nodes \cup {NULL, Dangling}],
         index' \in [Iter -> Int]
  PROVE  Inv'
<1>1. TypeOK /\ Linked /\ RegisteredOnce
  BY DEF Inv
<1>2. Linked'
  BY <1>1, RemoveLinks
<1>3. chain' \in Seq(Node) /\ length' = Len(chain') /\ length' \in Nat
  BY <1>1, RemoveShape, LenProperties
<1>4. Linked_nodes' = Linked_nodes \ {chain[k]}
  BY <1>1, RemovedNodes
<1>5. chain[k] \in Linked_nodes /\ chain[k] \in Node
  BY <1>1, ChainFacts DEF Linked_nodes
<1>6. node' = [i \in Iter |-> IF at[i] = chain[k] THEN Dangling ELSE at[i]]
  BY DEF remove_node, Invalidate
<1>7. node' \in [Iter -> Linked_nodes' \cup {NULL, Dangling}]
  BY <1>4, <1>6
<1>8. node' \in [Iter -> Node \cup {NULL, Dangling}]
  BY <1>1, <1>4, <1>7, ValuesInData
<1>9. /\ next[chain[k]] \in Node \cup {NULL} /\ prev[chain[k]] \in Node \cup {NULL}
      /\ data[chain[k]] \in Data
  BY <1>1, <1>5, ValuesInData DEF TypeOK
<1>10. /\ head' \in Node \cup {NULL} /\ tail' \in Node \cup {NULL}
       /\ next' \in [Node -> Node \cup {NULL}] /\ prev' \in [Node -> Node \cup {NULL}]
  BY <1>1, <1>9 DEF TypeOK, remove_node, Unlink
<1>11. /\ data' \in [Node -> Data \cup {NULL}] /\ alloc' \in SUBSET Node
       /\ ret' \in Data /\ UNCHANGED <<iter_list, open, status>>
  BY <1>1, <1>9 DEF TypeOK, remove_node, free
<1>12. TypeOK'
  BY <1>1, <1>3, <1>8, <1>10, <1>11 DEF TypeOK
<1>13. IterAttached'
  BY <1>4, <1>7, DListAssumption DEF IterAttached
<1>14. RegisteredOnce'
  BY <1>1, <1>11, SameItersRegistered
<1> QED  BY <1>2, <1>12, <1>13, <1>14 DEF Inv

\* The invariant on iterators, as the type of the variable node.
LEMMA ItersInList ==
  ASSUME TypeOK, IterAttached
  PROVE  node \in [Iter -> Linked_nodes \cup {NULL, Dangling}]
BY DEF TypeOK, IterAttached

\* A removal that finds nothing changes nothing.
LEMMA NothingRemovedInv ==
  ASSUME Inv, running, ret' = NULL, UNCHANGED <<listVars, iterVars, status>>
  PROVE  Inv'
<1>1. TypeOK /\ Linked /\ IterAttached /\ RegisteredOnce
  BY DEF Inv
<1>2. TypeOK'
  BY <1>1 DEF TypeOK, listVars, iterVars
<1>3. Linked' /\ Linked_nodes' = Linked_nodes
  BY <1>1, SameListLinked
<1>4. IterAttached' /\ RegisteredOnce'
  BY <1>1, <1>3, SameItersRegistered DEF IterAttached, iterVars
<1> QED  BY <1>2, <1>3, <1>4 DEF Inv

\* dlist_pop_head and dlist_pop_tail preserve the invariant.
LEMMA PopInv ==
  ASSUME Inv, dlist_pop_head \/ dlist_pop_tail
  PROVE  Inv'
<1>1. running /\ TypeOK /\ Linked /\ IterAttached
  BY DEF dlist_pop_head, dlist_pop_tail, Inv
<1>2. CASE ret' = NULL /\ UNCHANGED <<listVars, iterVars, status>>
  BY <1>1, <1>2, NothingRemovedInv
<1>3. ASSUME NEW k \in {1, Len(chain)}, length > 0, remove_node(k, node), UNCHANGED index
      PROVE  Inv'
  <2>1. k \in 1..Len(chain)
    BY <1>1, <1>3, ChainFacts DEF Linked
  <2>2. index' \in [Iter -> Int]
    BY <1>1, <1>3 DEF TypeOK
  <2> QED  BY <1>1, <1>3, <2>1, <2>2, ItersInList, RemoveNodeInv
<1> QED  BY <1>2, <1>3 DEF dlist_pop_head, dlist_pop_tail

\* The iterators dlist_remove_value moves off an end stay in the list.
LEMMA MoveOffInList ==
  ASSUME TypeOK, Linked, IterAttached, NEW i \in Iter, node[i] # Dangling,
         NEW atHead \in BOOLEAN, NEW atTail \in BOOLEAN
  PROVE  MoveOff(i, atHead, atTail) \in Cursors
<1> DEFINE first == IF atHead THEN Shift(Step(Cursor(i), "NEXT"), -1) ELSE Cursor(i)
<1>1. ASSUME NEW c \in Cursors
      PROVE  Shift(c, -1) \in Cursors
  BY DEF Shift, Cursors
<1>2. first \in Cursors
  BY <1>1, CursorInList, StepInList
<1>3. MoveOff(i, atHead, atTail) = IF atTail THEN Shift(Step(first, "PREV"), -1) ELSE first
  BY DEF MoveOff
<1> HIDE DEF first
<1> QED  BY <1>1, <1>2, <1>3, StepInList

\* dlist_remove_value preserves the invariant when it finds the value.
LEMMA RemoveMatchInv ==
  ASSUME Inv, running, NEW k \in 1..Len(chain), RemoveMatch(k)
  PROVE  Inv'
<1> DEFINE atHead == ValueAt(k) = ValueAt(1)
           atTail == ValueAt(k) = ValueAt(Len(chain))
           fixUp == iter_list # <<>> /\ (atHead \/ atTail)
           Moved == {i \in Iter \cap Registered : fixUp /\ index[i] = k - 1}
           unsafe == \/ fixUp /\ Dangling \in Registered
                     \/ \E i \in Moved : node[i] = Dangling
           After(i) == IF i \in Moved THEN MoveOff(i, atHead, atTail) ELSE Cursor(i)
<1>1. TypeOK /\ Linked /\ IterAttached
  BY DEF Inv
<1>2. CASE Crash("use_after_free")
  BY <1>2, CrashInv DEF Crashes
<1>3. CASE /\ ~unsafe
           /\ remove_node(k, [i \in Iter |-> After(i).node])
           /\ index' = [i \in Iter |-> After(i).index]
  <2>1. ASSUME NEW i \in Iter
        PROVE  /\ After(i).node \in Linked_nodes \cup {NULL, Dangling}
               /\ After(i).index \in Int
    <3>1. CASE i \in Moved
      <4>1. node[i] # Dangling /\ atHead \in BOOLEAN /\ atTail \in BOOLEAN
        BY <1>3, <3>1
      <4>2. MoveOff(i, atHead, atTail) \in Cursors
        BY <1>1, <4>1, MoveOffInList
      <4>3. After(i) = MoveOff(i, atHead, atTail)
        BY <3>1
      <4> QED  BY <4>2, <4>3 DEF Cursors
    <3>2. CASE i \notin Moved
      <4>1. After(i) = Cursor(i)
        BY <3>2
      <4>2. Cursor(i).node = node[i] /\ Cursor(i).index = index[i]
        BY DEF Cursor
      <4> QED  BY <4>1, <4>2, <1>1, ItersInList DEF TypeOK
    <3> QED  BY <3>1, <3>2
  <2> HIDE DEF After
  <2>2. /\ [i \in Iter |-> After(i).node] \in [Iter -> Linked_nodes \cup {NULL, Dangling}]
        /\ index' \in [Iter -> Int]
    BY <1>3, <2>1
  <2> QED  BY <1>3, <2>2, RemoveNodeInv
<1> QED  BY <1>2, <1>3 DEF RemoveMatch

\* dlist_remove_value preserves the invariant.
LEMMA RemoveValueInv ==
  ASSUME Inv, NEW v \in Data, dlist_remove_value(v)
  PROVE  Inv'
<1>1. running
  BY DEF dlist_remove_value
<1>2. ASSUME NEW k \in 1..Len(chain), RemoveMatch(k)
      PROVE  Inv'
  BY <1>1, <1>2, RemoveMatchInv
<1>3. CASE ret' = NULL /\ UNCHANGED <<listVars, iterVars, status>>
  BY <1>1, <1>3, NothingRemovedInv
<1> QED  BY <1>2, <1>3 DEF dlist_remove_value

\* dlist_quick_sort permutes the data: nodes, links and iterators stay.
LEMMA SortInv ==
  ASSUME Inv, NEW dir, dlist_quick_sort(dir)
  PROVE  Inv'
<1>1. /\ running /\ TypeOK /\ Linked /\ IterAttached /\ RegisteredOnce
      /\ UNCHANGED <<head, tail, length, next, prev, alloc, chain, iterVars, status>>
      /\ ret' = NULL
  BY DEF dlist_quick_sort, Inv
<1>2. PICK p \in Bijection(1..Len(chain), 1..Len(chain)) :
        data' = [n \in Node |->
                   IF n \in Linked_nodes
                   THEN ValueAt(p[CHOOSE k \in 1..Len(chain) : chain[k] = n])
                   ELSE data[n]]
  BY DEF dlist_quick_sort
<1>3. p \in [1..Len(chain) -> 1..Len(chain)]
  BY DEF Bijection, Injection, Surjection
<1>4. ASSUME NEW n \in Linked_nodes
      PROVE  ValueAt(p[CHOOSE k \in 1..Len(chain) : chain[k] = n]) \in Data
  <2>1. \E k \in 1..Len(chain) : chain[k] = n
    BY DEF Linked_nodes
  <2>2. (CHOOSE k \in 1..Len(chain) : chain[k] = n) \in 1..Len(chain)
    BY <2>1
  <2> QED  BY <1>1, <1>3, <2>2, ValuesInData
<1>5. data' \in [Node -> Data \cup {NULL}]
  BY <1>1, <1>2, <1>4 DEF TypeOK
<1>6. TypeOK'
  BY <1>1, <1>5 DEF TypeOK, iterVars
<1>7. Linked_nodes' = Linked_nodes
  BY <1>1 DEF Linked_nodes
<1>8. \A k \in 1..Len(chain) : data'[chain[k]] \in Data
  BY <1>1, <1>2, <1>4, ChainFacts DEF Linked_nodes
<1>9. NodesLive'
  BY <1>1, <1>8 DEF Linked, NodesLive, ValueAt
<1>10. Linked'
  BY <1>1, <1>9 DEF Linked, EndsLinked, NextLinked, PrevLinked
<1>11. IterAttached' /\ RegisteredOnce'
  BY <1>1, <1>7, SameItersRegistered DEF IterAttached, iterVars
<1> QED  BY <1>6, <1>10, <1>11 DEF Inv

\* dlist_destroy preserves the invariant: every iterator on the list dangles.
LEMMA DestroyInv ==
  ASSUME Inv, dlist_destroy
  PROVE  Inv'
<1>1. TypeOK /\ Linked /\ IterAttached
  BY DEF Inv
<1>2. /\ chain' = <<>> /\ Len(chain') = 0 /\ chain' \in Seq(Node)
      /\ iter_list' = <<>> /\ Len(iter_list') = 0
      /\ iter_list' \in Seq(Iter \cup {Dangling})
  BY EmptySeq DEF dlist_destroy
<1>3. node' \in [Iter -> {NULL, Dangling}]
  BY <1>1, ItersInList DEF dlist_destroy
<1>4. TypeOK'
  BY <1>1, <1>2, <1>3 DEF TypeOK, dlist_destroy
<1>5. Linked'
  BY <1>2 DEF dlist_destroy, Linked, EndsLinked, NextLinked, PrevLinked, NodesLive
<1>6. IterAttached'
  BY <1>3, DListAssumption DEF IterAttached
<1>7. RegisteredOnce'
  BY <1>2 DEF RegisteredOnce, dlist_destroy
<1> QED  BY <1>4, <1>5, <1>6, <1>7 DEF Inv

-----------------------------------------------------------------------------
\* Every call preserves the invariant.
LEMMA NextInv ==
  ASSUME Inv, [Next]_vars
  PROVE  Inv'
<1>1. CASE UNCHANGED vars
  BY <1>1, StutterInv
<1>2. CASE ListStep
  <2>1. ASSUME NEW v \in Data, dlist_prepend(v) PROVE Inv'
    BY <2>1, PrependInv
  <2>2. ASSUME NEW v \in Data, dlist_append(v) PROVE Inv'
    BY <2>2, AppendInv
  <2>3. ASSUME NEW v \in Data, dlist_get_by_value(v) PROVE Inv'
    BY <2>3, GetByValueInv
  <2>4. ASSUME NEW v \in Data, dlist_remove_value(v) PROVE Inv'
    BY <2>4, RemoveValueInv
  <2>5. ASSUME NEW i \in Index, dlist_get_by_index(i) PROVE Inv'
    BY <2>5, GetByIndexInv, DListAssumption
  <2>6. ASSUME NEW v \in Data, NEW i \in Index, dlist_insert(v, i) PROVE Inv'
    BY <2>6, InsertInv
  <2>7. ASSUME NEW dir, dlist_quick_sort(dir) PROVE Inv'
    BY <2>7, SortInv
  <2>8. CASE dlist_pop_head \/ dlist_pop_tail
    BY <2>8, PopInv
  <2>9. CASE dlist_destroy
    BY <2>9, DestroyInv
  <2> QED  BY <1>2, <2>1, <2>2, <2>3, <2>4, <2>5, <2>6, <2>7, <2>8, <2>9 DEF ListStep
<1>3. CASE IterStep
  <2> SUFFICES ASSUME NEW i \in Iter,
                      \/ \E pos \in {"ITER_HEAD", "ITER_TAIL"} :
                           dlist_get_iterable(i, pos) \/ dlist_set_iter(i, pos)
                      \/ \E fetch \in {"NEXT", "PREV"} : iterate(i, fetch)
                      \/ iter_get_value(i) \/ dlist_destroy_iter(i)
               PROVE  Inv'
    BY <1>3 DEF IterStep
  <2>1. ASSUME NEW pos, dlist_get_iterable(i, pos) PROVE Inv'
    BY <2>1, GetIterableInv
  <2>2. ASSUME NEW pos, dlist_set_iter(i, pos) PROVE Inv'
    BY <2>2, SetIterInv
  <2>3. ASSUME NEW fetch, iterate(i, fetch) PROVE Inv'
    BY <2>3, IterateInv
  <2>4. CASE iter_get_value(i)
    BY <2>4, GetValueInv
  <2>5. CASE dlist_destroy_iter(i)
    BY <2>5, DestroyIterInv
  <2> QED  BY <2>1, <2>2, <2>3, <2>4, <2>5
<1> QED  BY <1>1, <1>2, <1>3 DEF Next

\* In every reachable state: every pointer has its type, the list is one chain of
\* live nodes linked both ways, no iterator stands off it, and iter_list holds
\* exactly the iterators in use (and stale entries).
THEOREM InvHolds == Spec => []Inv
<1>1. Init => Inv
  BY InitInv
<1>2. Inv /\ [Next]_vars => Inv'
  BY NextInv
<1> QED  BY <1>1, <1>2, PTL DEF Spec

\* add_node and remove_node keep the list well formed (dl_list.c:653-776).
THEOREM ListStaysLinked == Spec => []Linked
<1>1. Inv => Linked
  BY DEF Inv
<1> QED  BY <1>1, InvHolds, PTL

\* No variable ever leaves its C type; in particular length never wraps below 0.
THEOREM TypesHold == Spec => []TypeOK
<1>1. Inv => TypeOK
  BY DEF Inv
<1> QED  BY <1>1, InvHolds, PTL

\* No iterator is parked on a freed or detached node without being known to dangle.
THEOREM ItersStayAttached == Spec => []IterAttached
<1>1. Inv => IterAttached
  BY DEF Inv
<1> QED  BY <1>1, InvHolds, PTL

\* iter_list never loses, keeps or repeats an iterator (dl_list.c:488-535).
THEOREM ItersRegisteredOnce == Spec => []RegisteredOnce
<1>1. Inv => RegisteredOnce
  BY DEF Inv
<1> QED  BY <1>1, InvHolds, PTL

-----------------------------------------------------------------------------
(***************************************************************************)
(* The sequence of values the list stands for.                             *)
(***************************************************************************)
\* items has one value per node of the list, in the order of the chain.
LEMMA ItemsSeq ==
  ASSUME TypeOK, Linked
  PROVE  /\ items \in Seq(Data)
         /\ Len(items) = Len(chain) /\ Len(items) = length /\ Len(items) \in Nat
         /\ \A k \in 1..Len(chain) : items[k] = ValueAt(k)
         /\ items = <<>> <=> length = 0
<1>1. Len(chain) \in Nat /\ length = Len(chain)
  BY ChainFacts DEF Linked
<1>2. items \in [1..Len(chain) -> Data]
  BY ValuesInData DEF items
<1>3. items \in Seq(Data) /\ Len(items) = Len(chain)
  BY <1>1, <1>2
<1>4. \A k \in 1..Len(chain) : items[k] = ValueAt(k)
  BY DEF items
<1>5. items = <<>> <=> Len(items) = 0
  BY <1>3, EmptySeq
<1> QED  BY <1>1, <1>3, <1>4, <1>5

\* A call that moves neither nodes nor values leaves the sequence as it was.
LEMMA SameItems ==
  ASSUME UNCHANGED <<chain, data>>
  PROVE  items' = items
BY DEF items, ValueAt

\* A node put at position k of the list puts its value at position k of the sequence.
LEMMA InsertItems ==
  ASSUME TypeOK, Linked, NEW n \in Node \ alloc, NEW v \in Data,
         NEW k \in 1..(Len(chain) + 1), Account(n, v, k)
  PROVE  items' = InsertAt(items, k, v)
<1> DEFINE t == InsertAt(items, k, v)
<1>1. /\ items \in Seq(Data) /\ Len(items) = Len(chain) /\ Len(items) \in Nat
      /\ \A j \in 1..Len(chain) : items[j] = ValueAt(j)
  BY ItemsSeq
<1>2. k \in 1..(Len(items) + 1)
  BY <1>1
<1>3. /\ t \in Seq(Data) /\ Len(t) = Len(items) + 1
      /\ \A j \in 1..(Len(items) + 1) :
           t[j] = IF j < k THEN items[j] ELSE IF j = k THEN v ELSE items[j - 1]
  <2>1. t \in Seq(Data) /\ Len(t) = Len(items) + 1
    BY <1>1, <1>2, InsertAtElements
  <2>2. \A j \in 1..(Len(items) + 1) :
          t[j] = IF j < k THEN items[j] ELSE IF j = k THEN v ELSE items[j - 1]
    BY <1>1, <1>2, InsertAtElements
  <2> QED  BY <2>1, <2>2
<1>4. /\ Len(chain') = Len(chain) + 1
      /\ \A j \in 1..(Len(chain) + 1) :
           chain'[j] = IF j < k THEN chain[j] ELSE IF j = k THEN n ELSE chain[j - 1]
  BY InsertShape
<1>5. \A m \in 1..Len(chain) : data'[chain[m]] = items[m]
  BY <1>1, ChainFacts DEF Account, TypeOK, ValueAt
<1>6. data'[n] = v
  BY DEF Account, TypeOK
<1> HIDE DEF t
<1>7. ASSUME NEW j \in 1..(Len(chain) + 1)
      PROVE  data'[chain'[j]] = t[j]
  <2>1. CASE j < k
    <3>1. j \in 1..Len(chain) /\ chain'[j] = chain[j]
      BY <2>1, <1>1, <1>2, <1>4
    <3> QED  BY <3>1, <2>1, <1>1, <1>3, <1>5
  <2>2. CASE j = k
    BY <2>2, <1>1, <1>3, <1>4, <1>6
  <2>3. CASE j > k
    <3>1. j - 1 \in 1..Len(chain) /\ chain'[j] = chain[j - 1] /\ ~(j < k) /\ j # k
      BY <2>3, <1>1, <1>2, <1>4
    <3> QED  BY <3>1, <1>1, <1>3, <1>5
  <2> QED  BY <2>1, <2>2, <2>3, <1>1, <1>2
<1>8. items' = [j \in 1..(Len(chain) + 1) |-> t[j]]
  BY <1>4, <1>7 DEF items, ValueAt
<1>9. t = [j \in 1..Len(t) |-> t[j]]
  BY <1>3
<1> QED  BY <1>1, <1>3, <1>8, <1>9 DEF t

\* A node taken out at position k takes the value at position k with it.
LEMMA RemoveItems ==
  ASSUME TypeOK, Linked, NEW k \in 1..Len(chain), NEW at, remove_node(k, at)
  PROVE  items' = RemoveAt(items, k) /\ ret' = items[k]
<1> DEFINE t == RemoveAt(items, k)
<1>1. /\ items \in Seq(Data) /\ Len(items) = Len(chain) /\ Len(items) \in Nat
      /\ \A j \in 1..Len(chain) : items[j] = ValueAt(j)
  BY ItemsSeq
<1>2. k \in 1..Len(items)
  BY <1>1
<1>3. /\ t \in Seq(Data) /\ Len(t) = Len(items) - 1
      /\ \A j \in 1..(Len(items) - 1) : t[j] = IF j < k THEN items[j] ELSE items[j + 1]
  <2>1. t \in Seq(Data) /\ Len(t) = Len(items) - 1
    BY <1>1, <1>2, RemoveAtElements
  <2>2. \A j \in 1..(Len(items) - 1) : t[j] = IF j < k THEN items[j] ELSE items[j + 1]
    BY <1>1, <1>2, RemoveAtElements
  <2> QED  BY <2>1, <2>2
<1>4. /\ Len(chain') = Len(chain) - 1
      /\ \A j \in 1..(Len(chain) - 1) :
           chain'[j] = IF j < k THEN chain[j] ELSE chain[j + 1]
      /\ \A j \in 1..Len(chain') : chain'[j] # chain[k]
  BY RemoveShape
<1>5. \A m \in 1..Len(chain) : chain[m] # chain[k] => data'[chain[m]] = items[m]
  BY <1>1, ChainFacts DEF remove_node, TypeOK, ValueAt
<1>6. ret' = items[k]
  BY <1>1 DEF remove_node, ValueAt
<1> HIDE DEF t
<1>7. ASSUME NEW j \in 1..(Len(chain) - 1)
      PROVE  data'[chain'[j]] = t[j]
  <2>1. CASE j < k
    <3>1. j \in 1..Len(chain) /\ chain'[j] = chain[j]
      BY <2>1, <1>1, <1>2, <1>4
    <3> QED  BY <3>1, <2>1, <1>1, <1>3, <1>4, <1>5
  <2>2. CASE ~(j < k)
    <3>1. j + 1 \in 1..Len(chain) /\ chain'[j] = chain[j + 1]
      BY <2>2, <1>1, <1>2, <1>4
    <3> QED  BY <3>1, <2>2, <1>1, <1>3, <1>4, <1>5
  <2> QED  BY <2>1, <2>2
<1>8. items' = [j \in 1..(Len(chain) - 1) |-> t[j]]
  BY <1>4, <1>7 DEF items, ValueAt
<1>9. t = [j \in 1..Len(t) |-> t[j]]
  BY <1>3
<1> QED  BY <1>1, <1>3, <1>6, <1>8, <1>9 DEF t

\* Sorting permutes the values: the bijection the code's swaps compose to is one
\* of the positions, so the same one permutes the sequence.
LEMMA SortItems ==
  ASSUME TypeOK, Linked, NEW dir, dlist_quick_sort(dir)
  PROVE  /\ \E p \in Bijection(1..Len(items), 1..Len(items)) :
              items' = [k \in 1..Len(items) |-> items[p[k]]]
         /\ SortedBy(items', dir)
<1>1. /\ Len(items) = Len(chain) /\ Len(items) \in Nat
      /\ \A k \in 1..Len(chain) : items[k] = ValueAt(k)
  BY ItemsSeq
<1>2. PICK p \in Bijection(1..Len(chain), 1..Len(chain)) :
        /\ SortedBy([k \in 1..Len(chain) |-> ValueAt(p[k])], dir)
        /\ data' = [n \in Node |->
                      IF n \in Linked_nodes
                      THEN ValueAt(p[CHOOSE k \in 1..Len(chain) : chain[k] = n])
                      ELSE data[n]]
  BY DEF dlist_quick_sort
<1>3. p \in [1..Len(chain) -> 1..Len(chain)]
  BY <1>2 DEF Bijection, Injection, Surjection
<1>4. ASSUME NEW j \in 1..Len(chain)
      PROVE  data'[chain[j]] = ValueAt(p[j])
  <2>1. chain[j] \in Node /\ chain[j] \in Linked_nodes
    BY ChainFacts DEF Linked_nodes
  <2>2. \A k \in 1..Len(chain) : chain[k] = chain[j] => k = j
    BY DEF Linked, NodesLive
  <2>3. (CHOOSE k \in 1..Len(chain) : chain[k] = chain[j]) = j
    BY <2>2
  <2> QED  BY <1>2, <2>1, <2>3
<1>5. chain' = chain
  BY DEF dlist_quick_sort
<1>6. items' = [k \in 1..Len(chain) |-> ValueAt(p[k])]
  BY <1>4, <1>5 DEF items, ValueAt
<1>7. items' = [k \in 1..Len(items) |-> items[p[k]]]
  BY <1>1, <1>3, <1>6
<1>8. SortedBy(items', dir)
  BY <1>2, <1>6
<1> QED  BY <1>1, <1>2, <1>7, <1>8

-----------------------------------------------------------------------------
(***************************************************************************)
(* Refinement: every call of the list is a call of the abstract sequence.  *)
(***************************************************************************)
\* The operators on sequences are the same in both modules.
LEMMA AbsOperators ==
  /\ \A s, k, e : Abs!InsertAt(s, k, e) = InsertAt(s, k, e)
  /\ \A s, k : Abs!RemoveAt(s, k) = RemoveAt(s, k)
  /\ \A S, T : Abs!Bijection(S, T) = Bijection(S, T)
  /\ \A s, dir : Abs!SortedBy(s, dir) <=> SortedBy(s, dir)
BY DEF Abs!InsertAt, InsertAt, Abs!RemoveAt, RemoveAt, Abs!SortedBy, SortedBy,
       Abs!Bijection, Bijection, Abs!Injection, Injection, Abs!Surjection, Surjection,
       Abs!IsInjective, IsInjective

\* A call that leaves the list alone and hands back no data, or a value of it.
LEMMA ReadRefines ==
  ASSUME TypeOK, Linked, UNCHANGED <<listVars, status>>,
         Dangling \in Registered' <=> Dangling \in Registered,
         ret' = NULL \/ \E n \in Linked_nodes : ret' = data[n]
  PROVE  Abs!ReadIter
<1>1. items' = items
  BY SameItems DEF listVars
<1>2. ASSUME NEW n \in Linked_nodes, ret' = data[n]
      PROVE  \E k \in 1..Len(items) : ret' = items[k]
  <2>1. PICK k \in 1..Len(chain) : n = chain[k]
    BY DEF Linked_nodes
  <2>2. k \in 1..Len(items) /\ ret' = items[k]
    BY <1>2, <2>1, ItemsSeq DEF ValueAt
  <2> QED  BY <2>2
<1> QED  BY <1>1, <1>2 DEF Abs!ReadIter

\* A call in which the process dies has neither changed the list nor returned.
LEMMA CrashRefines ==
  ASSUME NEW how, Crash(how)
  PROVE  UNCHANGED <<items, ret>> /\ Abs!Dies(how)
<1>1. items' = items /\ Registered' = Registered
  BY SameItems DEF Crash, listVars, iterVars, Registered
<1> QED  BY <1>1 DEF Crash, Abs!Dies

\* A call that leaves iter_list alone leaves no stale entry and takes none out.
LEMMA SameEntries ==
  ASSUME UNCHANGED iter_list
  PROVE  Registered' = Registered
BY DEF Registered

\* The first node of an empty list, wherever it was asked for.
LEMMA AddFirstItems ==
  ASSUME TypeOK, Linked, NEW n \in Node \ alloc, NEW v \in Data, AddFirst(n, v)
  PROVE  /\ items = <<>> /\ Len(items) = 0
         /\ items' = InsertAt(items, 1, v) /\ items' = <<v>>
<1>1. length = 0 /\ 1 \in 1..(Len(chain) + 1) /\ Account(n, v, 1) /\ Len(chain) = 0
  BY ChainFacts DEF AddFirst, Linked
<1>2. items = <<>> /\ Len(items) = 0 /\ items' = InsertAt(items, 1, v)
  BY <1>1, ItemsSeq, InsertItems
<1>3. Len(chain') = 1 /\ chain'[1] = n /\ data'[n] = v
  <2>1. /\ Len(chain') = Len(chain) + 1
        /\ \A j \in 1..(Len(chain) + 1) :
             chain'[j] = IF j < 1 THEN chain[j] ELSE IF j = 1 THEN n ELSE chain[j - 1]
    BY <1>1, InsertShape
  <2>2. data'[n] = v
    BY <1>1 DEF Account, TypeOK
  <2> QED  BY <1>1, <2>1, <2>2
<1>4. items' = <<v>>
  BY <1>3 DEF items, ValueAt
<1> QED  BY <1>2, <1>4

\* What becomes of a list whose first node was asked for.
LEMMA FirstRefines ==
  ASSUME TypeOK, Linked, running, NEW v, NEW r,
         \/ AddFirstFault
         \/ /\ items = <<>> /\ items' = <<v>> /\ ret' = r /\ status' = "running"
            /\ iter_list' = iter_list /\ Dangling \notin Registered
  PROVE  Abs!First(v, r)
<1>1. CASE AddFirstFault
  <2>1. items = <<>> /\ Dangling \in Registered /\ Abs!Dies("use_after_free")
    BY <1>1, ItemsSeq, CrashRefines DEF AddFirstFault
  <2> QED  BY <2>1 DEF Abs!First
<1>2. CASE /\ items = <<>> /\ items' = <<v>> /\ ret' = r /\ status' = "running"
           /\ iter_list' = iter_list /\ Dangling \notin Registered
  BY <1>2, SameEntries DEF Abs!First, Abs!Returns, running
<1> QED  BY <1>1, <1>2

\* What dlist_prepend does to the sequence.
LEMMA PrependItems ==
  ASSUME TypeOK, Linked, NEW v \in Data, dlist_prepend(v)
  PROVE  \/ AddFirstFault
         \/ /\ items' = InsertAt(items, 1, v) /\ ret' = NULL
            /\ status' = "running" /\ length' = length + 1
            /\ iter_list' = iter_list
            /\ items = <<>> => items' = <<v>> /\ Dangling \notin Registered
<1>1. ASSUME NEW n \in Node \ alloc, AddFirst(n, v)
      PROVE  /\ items' = InsertAt(items, 1, v) /\ items' = <<v>>
             /\ iter_list' = iter_list /\ Dangling \notin Registered
  BY <1>1, AddFirstItems DEF AddFirst, Rewind
<1>2. ASSUME NEW n \in Node \ alloc, Account(n, v, 1)
      PROVE  items' = InsertAt(items, 1, v)
  <2>1. 1 \in 1..(Len(chain) + 1)
    BY ChainFacts
  <2> QED  BY <1>2, <2>1, InsertItems
<1>3. items = <<>> <=> length = 0
  BY ItemsSeq
<1> QED  BY <1>1, <1>2, <1>3 DEF dlist_prepend, running, AddFirst, Account, iterVars

\* What dlist_append does to the sequence.
LEMMA AppendItems ==
  ASSUME TypeOK, Linked, NEW v \in Data, dlist_append(v)
  PROVE  \/ AddFirstFault
         \/ /\ items' = InsertAt(items, Len(items) + 1, v) /\ ret' = NULL
            /\ status' = "running" /\ length' = length + 1
            /\ iter_list' = iter_list
            /\ items = <<>> => items' = <<v>> /\ Dangling \notin Registered
<1>1. ASSUME NEW n \in Node \ alloc, AddFirst(n, v)
      PROVE  /\ items' = InsertAt(items, Len(items) + 1, v) /\ items' = <<v>>
             /\ iter_list' = iter_list /\ Dangling \notin Registered
  <2>1. Len(items) = 0 /\ items' = InsertAt(items, 1, v) /\ items' = <<v>>
    BY <1>1, AddFirstItems
  <2>2. Len(items) + 1 = 1
    BY <2>1
  <2> QED  BY <1>1, <2>1, <2>2 DEF AddFirst, Rewind
<1>2. ASSUME NEW n \in Node \ alloc, Account(n, v, Len(chain) + 1)
      PROVE  items' = InsertAt(items, Len(items) + 1, v)
  <2>1. Len(chain) + 1 \in 1..(Len(chain) + 1) /\ Len(items) = Len(chain)
    BY ChainFacts, ItemsSeq
  <2> QED  BY <1>2, <2>1, InsertItems
<1>3. items = <<>> <=> length = 0
  BY ItemsSeq
<1> QED  BY <1>1, <1>2, <1>3 DEF dlist_append, running, AddFirst, Account, iterVars

\* What dlist_insert does to the sequence: an index in range counts from either
\* end, one out of range inserts nothing, an empty list takes any index.
LEMMA InsertedItems ==
  ASSUME TypeOK, Linked, NEW v \in Data, NEW i \in Index, dlist_insert(v, i)
  PROVE  \/ AddFirstFault
         \/ /\ items # <<>> /\ InRange(i) /\ Position(i) = 1
            /\ Crash("null_dereference")
         \/ /\ items = <<>> /\ items' = InsertAt(items, 1, v) /\ ret' = DLIST_SUCC
            /\ status' = "running" /\ length = 0 /\ length' = 1
            /\ items' = <<v>> /\ iter_list' = iter_list /\ Dangling \notin Registered
         \/ /\ items # <<>> /\ InRange(i) /\ Position(i) \in 1..Len(items)
            /\ items' = InsertAt(items, Position(i), v) /\ ret' = DLIST_SUCC
            /\ status' = "running" /\ length' = length + 1
            /\ Position(i) # 1 /\ Dangling \in Registered'
         \/ /\ items # <<>> /\ ~InRange(i)
            /\ items' = items /\ ret' = DLIST_FAIL
            /\ status' = "running" /\ length' = length
            /\ Dangling \in Registered'
<1>1. /\ i \in Int /\ running /\ length \in Nat
      /\ Len(chain) \in Nat /\ Len(items) = Len(chain) /\ (items = <<>> <=> length = 0)
  BY DListAssumption, ItemsSeq DEF dlist_insert, TypeOK
<1>2. ASSUME NEW n \in Node \ alloc, AddFirst(n, v), ret' = DLIST_SUCC
      PROVE  /\ items = <<>> /\ items' = InsertAt(items, 1, v)
             /\ status' = "running" /\ length = 0 /\ length' = 1
             /\ items' = <<v>> /\ iter_list' = iter_list /\ Dangling \notin Registered
  <2>1. items = <<>> /\ items' = InsertAt(items, 1, v) /\ items' = <<v>>
    BY <1>2, AddFirstItems
  <2> QED  BY <1>1, <1>2, <2>1 DEF AddFirst, Account, Rewind, running
<1>3. ASSUME NEW n \in Node \ alloc, InsertNowhere(n, i), status' = status, LeaveStaleEntry
      PROVE  /\ items # <<>> /\ ~InRange(i)
             /\ items' = items /\ ret' = DLIST_FAIL
             /\ status' = "running" /\ length' = length
             /\ Dangling \in Registered'
  BY <1>1, <1>3, SameItems, EntryRegistered DEF InsertNowhere, running, LeaveStaleEntry
<1>4. ASSUME NEW n \in Node \ alloc, InsertInside(n, v, i), status' = status, LeaveStaleEntry
      PROVE  /\ items # <<>> /\ InRange(i) /\ Position(i) \in 1..Len(items)
             /\ items' = InsertAt(items, Position(i), v) /\ ret' = DLIST_SUCC
             /\ status' = "running" /\ length' = length + 1
             /\ Position(i) # 1 /\ Dangling \in Registered'
  <2>1. Position(i) \in 1..Len(chain) /\ Position(i) # 1
    BY <1>1, <1>4, PositionInList DEF InsertInside
  <2>2. Position(i) \in 1..(Len(chain) + 1)
    BY <1>1, <2>1
  <2>3. items' = InsertAt(items, Position(i), v)
    BY <1>4, <2>2, InsertItems DEF InsertInside
  <2>4. Dangling \in Registered'
    BY <1>4, EntryRegistered DEF LeaveStaleEntry
  <2> QED  BY <1>1, <1>4, <2>1, <2>3, <2>4 DEF InsertInside, Account, running
<1> QED  BY <1>1, <1>2, <1>3, <1>4 DEF dlist_insert

\* What a lookup by index returns.
LEMMA IndexedItem ==
  ASSUME TypeOK, Linked, NEW i \in Int, dlist_get_by_index(i)
  PROVE  /\ items' = items /\ UNCHANGED <<length, status>>
         /\ Dangling \in Registered'
         /\ InRange(i) => Position(i) \in 1..Len(items)
         /\ ret' = IF InRange(i) THEN items[Position(i)] ELSE NULL
<1>1. Len(items) = Len(chain) /\ Len(chain) \in Nat
      /\ \A k \in 1..Len(chain) : items[k] = ValueAt(k)
  BY ItemsSeq
<1>2. InRange(i) => Position(i) \in 1..Len(chain)
  BY <1>1, PositionInList
<1>3. items' = items
  BY SameItems DEF dlist_get_by_index, listVars
<1>4. Dangling \in Registered'
  BY EntryRegistered DEF dlist_get_by_index, LeaveStaleEntry
<1> QED  BY <1>1, <1>2, <1>3, <1>4 DEF dlist_get_by_index, listVars

\* The abstract range and position are those of the list's length.
LEMMA AbsPosition ==
  ASSUME TypeOK, Linked, NEW i \in Int
  PROVE  /\ Abs!InRange(items, i) <=> InRange(i)
         /\ Abs!Position(items, i) = Position(i)
<1>1. Len(items) = length
  BY ItemsSeq
<1> QED  BY <1>1 DEF Abs!InRange, InRange, Abs!Position, Position

\* What a search by value finds: the first of the values equal to it.
LEMMA FirstItems ==
  ASSUME TypeOK, Linked
  PROVE  /\ \A v, k : Abs!FirstAt(items, v, k) <=> FirstAt(v, k)
         /\ \A v : Missing(v) <=> \A k \in 1..Len(items) : items[k] # v
<1>1. Len(items) = Len(chain) /\ Len(chain) \in Nat
      /\ \A k \in 1..Len(chain) : items[k] = ValueAt(k)
  BY ItemsSeq
<1>2. \A k \in 1..Len(chain) : \A j \in 1..(k - 1) : j \in 1..Len(chain)
  BY <1>1
<1>3. ASSUME NEW v, NEW k
      PROVE  Abs!FirstAt(items, v, k) <=> FirstAt(v, k)
  BY <1>1, <1>2 DEF Abs!FirstAt, FirstAt
<1>4. ASSUME NEW v
      PROVE  Missing(v) <=> \A k \in 1..Len(items) : items[k] # v
  BY <1>1 DEF Missing
<1> QED  BY <1>3, <1>4

\* What dlist_remove_value does to the sequence; it looks at the iterators only when
\* the value is that of an end.
LEMMA RemovedItems ==
  ASSUME TypeOK, Linked, NEW v \in Data, dlist_remove_value(v)
  PROVE  \/ /\ Crash("use_after_free") /\ v \in {items[1], items[Len(items)]}
            /\ \E k \in 1..Len(items) : FirstAt(v, k)
         \/ \E k \in 1..Len(items) :
              /\ FirstAt(v, k) /\ items' = RemoveAt(items, k)
              /\ ret' = items[k] /\ ret' = v /\ status' = "running"
              /\ iter_list' = iter_list
              /\ ~(Dangling \in Registered /\ v \in {items[1], items[Len(items)]})
         \/ Missing(v) /\ UNCHANGED <<listVars, iterVars, status>> /\ ret' = NULL
<1>1. /\ Len(items) = Len(chain) /\ Len(chain) \in Nat /\ running
      /\ \A k \in 1..Len(chain) : items[k] = ValueAt(k)
  BY ItemsSeq DEF dlist_remove_value
<1>2. ASSUME NEW k \in 1..Len(chain), FirstAt(v, k), RemoveMatch(k)
      PROVE  \/ Crash("use_after_free") /\ v \in {items[1], items[Len(items)]}
             \/ /\ items' = RemoveAt(items, k)
                /\ ret' = items[k] /\ ret' = v /\ status' = "running"
                /\ iter_list' = iter_list
                /\ ~(Dangling \in Registered /\ v \in {items[1], items[Len(items)]})
  <2> DEFINE atHead == ValueAt(k) = ValueAt(1)
             atTail == ValueAt(k) = ValueAt(Len(chain))
             fixUp == iter_list # <<>> /\ (atHead \/ atTail)
  <2>1. /\ 1 \in 1..Len(chain) /\ Len(chain) \in 1..Len(chain) /\ items[k] = v
        /\ v \in {items[1], items[Len(items)]} <=> atHead \/ atTail
    BY <1>1, <1>2 DEF FirstAt
  <2>2. ASSUME NEW at, remove_node(k, at)
        PROVE  /\ items' = RemoveAt(items, k)
               /\ ret' = items[k] /\ ret' = v /\ status' = "running"
               /\ iter_list' = iter_list
    <3>1. items' = RemoveAt(items, k) /\ ret' = items[k]
      BY <2>2, RemoveItems
    <3> QED  BY <1>1, <2>1, <2>2, <3>1 DEF remove_node, running
  <2>3. Dangling \in Registered => iter_list # <<>>
    BY DEF Registered
  <2>4. \/ Crash("use_after_free") /\ (atHead \/ atTail)
        \/ (\E at : remove_node(k, at)) /\ ~(fixUp /\ Dangling \in Registered)
    BY <1>2 DEF RemoveMatch
  <2> HIDE DEF atHead, atTail
  <2> QED  BY <2>1, <2>2, <2>3, <2>4
<1>3. CASE \E k \in 1..Len(chain) : FirstAt(v, k) /\ RemoveMatch(k)
  BY <1>1, <1>2, <1>3
<1> QED  BY <1>3 DEF dlist_remove_value

\* What dlist_pop_head and dlist_pop_tail do to the sequence.
LEMMA PoppedItems ==
  ASSUME TypeOK, Linked, NEW k \in {1, Len(items)},
         \/ k = 1 /\ dlist_pop_head
         \/ k = Len(items) /\ dlist_pop_tail
  PROVE  IF items = <<>>
         THEN ret' = NULL /\ UNCHANGED <<listVars, iterVars, status>>
         ELSE /\ k \in 1..Len(items) /\ UNCHANGED <<iter_list, status>>
              /\ items' = RemoveAt(items, k) /\ ret' = items[k]
<1>1. /\ Len(items) = Len(chain) /\ Len(chain) \in Nat /\ Len(items) = length
      /\ items = <<>> <=> length = 0
  BY ItemsSeq
<1>2. CASE length = 0
  BY <1>1, <1>2 DEF dlist_pop_head, dlist_pop_tail
<1>3. CASE length > 0
  <2>1. k \in 1..Len(chain) /\ remove_node(k, node)
    BY <1>1, <1>3 DEF dlist_pop_head, dlist_pop_tail
  <2>2. items' = RemoveAt(items, k) /\ ret' = items[k]
    BY <2>1, RemoveItems
  <2> QED  BY <1>1, <1>3, <2>1, <2>2 DEF remove_node
<1> QED  BY <1>1, <1>2, <1>3

\* The searches by value and the reads through an iterator find values of the list.
LEMMA FoundItem ==
  ASSUME TypeOK, Linked, NEW v \in Data, dlist_get_by_value(v)
  PROVE  /\ items' = items /\ UNCHANGED <<length, status, iter_list>>
         /\ ret' = IF \E k \in 1..Len(items) : items[k] = v THEN v ELSE NULL
<1>1. Len(items) = Len(chain) /\ \A k \in 1..Len(chain) : items[k] = ValueAt(k)
  BY ItemsSeq
<1>2. items' = items
  BY SameItems DEF dlist_get_by_value, listVars
<1>3. ASSUME NEW k \in 1..Len(chain), FirstAt(v, k), ret' = ValueAt(k)
      PROVE  ret' = IF \E j \in 1..Len(items) : items[j] = v THEN v ELSE NULL
  BY <1>1, <1>3 DEF FirstAt
<1>4. ASSUME Missing(v), ret' = NULL
      PROVE  ret' = IF \E j \in 1..Len(items) : items[j] = v THEN v ELSE NULL
  BY <1>1, <1>4 DEF Missing
<1> QED  BY <1>2, <1>3, <1>4 DEF dlist_get_by_value, listVars, iterVars

\* Each call of the list itself.
LEMMA ListStepRefines ==
  ASSUME Inv, ListStep
  PROVE  Abs!Next
<1> DEFINE stale == Dangling \in Registered
<1>1. /\ TypeOK /\ Linked /\ Len(items) = Len(chain) /\ Len(items) \in Nat
      /\ items = <<>> <=> length = 0
      /\ items = <<>> <=> Len(items) = 0
  BY ItemsSeq DEF Inv
<1>2. running
  BY DEF ListStep, dlist_prepend, dlist_append, dlist_get_by_value, dlist_remove_value,
         dlist_get_by_index, dlist_insert, dlist_quick_sort, dlist_pop_head,
         dlist_pop_tail, dlist_destroy
<1>3. ASSUME NEW v \in Data, dlist_prepend(v)
      PROVE  Abs!Prepend(v)
  <2>1. \/ AddFirstFault
        \/ /\ items' = InsertAt(items, 1, v) /\ ret' = NULL /\ status' = "running"
           /\ iter_list' = iter_list
           /\ items = <<>> => items' = <<v>> /\ ~stale
    BY <1>1, <1>3, PrependItems
  <2>2. AddFirstFault \/ items = <<>> => Abs!First(v, NULL)
    BY <1>1, <1>2, <2>1, FirstRefines
  <2>3. iter_list' = iter_list => stale' = stale
    BY SameEntries
  <2> QED  BY <1>2, <2>1, <2>2, <2>3, AbsOperators DEF Abs!Prepend, Abs!Returns, running
<1>4. ASSUME NEW v \in Data, dlist_append(v)
      PROVE  Abs!Push(v)
  <2>1. \/ AddFirstFault
        \/ /\ items' = InsertAt(items, Len(items) + 1, v) /\ ret' = NULL
           /\ status' = "running"
           /\ iter_list' = iter_list
           /\ items = <<>> => items' = <<v>> /\ ~stale
    BY <1>1, <1>4, AppendItems
  <2>2. AddFirstFault \/ items = <<>> => Abs!First(v, NULL)
    BY <1>1, <1>2, <2>1, FirstRefines
  <2>3. iter_list' = iter_list => stale' = stale
    BY SameEntries
  <2> QED  BY <1>2, <2>1, <2>2, <2>3, AbsOperators DEF Abs!Push, Abs!Returns, running
<1>5. ASSUME NEW v \in Data, dlist_get_by_value(v)
      PROVE  Abs!GetByValue(v)
  BY <1>1, <1>5, FoundItem, SameEntries DEF Abs!GetByValue, Abs!Unchanged, Abs!Returns
<1>6. ASSUME NEW v \in Data, dlist_remove_value(v)
      PROVE  Abs!RemoveValue(v)
  <2> DEFINE end == v \in {items[1], items[Len(items)]}
  <2>1. \/ /\ Crash("use_after_free") /\ end /\ \E k \in 1..Len(items) : FirstAt(v, k)
        \/ \E k \in 1..Len(items) :
             /\ FirstAt(v, k) /\ items' = RemoveAt(items, k) /\ ret' = items[k]
             /\ status' = "running" /\ iter_list' = iter_list /\ ~(stale /\ end)
        \/ Missing(v) /\ UNCHANGED <<listVars, iterVars, status>> /\ ret' = NULL
    BY <1>1, <1>6, RemovedItems
  <2>2. ASSUME NEW k \in 1..Len(items), FirstAt(v, k),
               items' = RemoveAt(items, k), ret' = items[k],
               status' = "running", iter_list' = iter_list, ~(stale /\ end)
        PROVE  Abs!RemoveValue(v)
    <3>1. Abs!FirstAt(items, v, k) /\ stale' = stale
      BY <1>1, <2>2, FirstItems, SameEntries
    <3>2. Abs!PopAt(k)
      BY <1>2, <2>2, <3>1, AbsOperators DEF Abs!PopAt, Abs!Returns, running
    <3> QED  BY <2>2, <3>1, <3>2 DEF Abs!RemoveValue
  <2>3. ASSUME Missing(v), UNCHANGED <<listVars, iterVars, status>>, ret' = NULL
        PROVE  Abs!RemoveValue(v)
    <3>1. \A k \in 1..Len(items) : items[k] # v
      BY <1>1, <2>3, FirstItems
    <3>2. items' = items /\ stale' = stale
      BY <2>3, SameItems, SameEntries DEF listVars, iterVars
    <3> QED  BY <3>1, <3>2, <2>3 DEF Abs!RemoveValue, Abs!Unchanged, Abs!Returns
  <2>4. ASSUME Crash("use_after_free"), end, NEW k \in 1..Len(items), FirstAt(v, k)
        PROVE  Abs!RemoveValue(v)
    <3>1. Abs!Dies("use_after_free") /\ Abs!FirstAt(items, v, k)
      BY <1>1, <2>4, CrashRefines, FirstItems
    <3> QED  BY <2>4, <3>1 DEF Abs!RemoveValue
  <2> QED  BY <2>1, <2>2, <2>3, <2>4
<1>7. ASSUME NEW i \in Index, dlist_get_by_index(i)
      PROVE  Abs!GetByIndex(i)
  <2>1. i \in Int
    BY DListAssumption
  <2>2. /\ items' = items /\ status' = status /\ stale'
        /\ ret' = IF InRange(i) THEN items[Position(i)] ELSE NULL
    BY <1>1, <1>7, <2>1, IndexedItem
  <2> QED  BY <1>1, <2>1, <2>2, AbsPosition DEF Abs!GetByIndex, Abs!Returns
<1>8. ASSUME NEW v \in Data, NEW i \in Index, dlist_insert(v, i)
      PROVE  Abs!Insert(v, i)
  <2>1. i \in Int
    BY DListAssumption
  <2>2. /\ Abs!InRange(items, i) <=> InRange(i)
        /\ Abs!Position(items, i) = Position(i)
    BY <1>1, <2>1, AbsPosition
  <2>3. \/ AddFirstFault
        \/ /\ items # <<>> /\ InRange(i) /\ Position(i) = 1 /\ Crash("null_dereference")
        \/ /\ items = <<>> /\ items' = <<v>> /\ ret' = DLIST_SUCC /\ status' = "running"
           /\ iter_list' = iter_list /\ ~stale
        \/ /\ items # <<>> /\ InRange(i) /\ Position(i) # 1 /\ status' = "running"
           /\ items' = InsertAt(items, Position(i), v) /\ ret' = DLIST_SUCC /\ stale'
        \/ /\ items # <<>> /\ ~InRange(i) /\ status' = "running"
           /\ items' = items /\ ret' = DLIST_FAIL /\ stale'
    BY <1>1, <1>8, InsertedItems
  <2>4. CASE \/ AddFirstFault
             \/ /\ items = <<>> /\ items' = <<v>> /\ ret' = DLIST_SUCC
                /\ status' = "running" /\ iter_list' = iter_list /\ ~stale
    <3>1. Abs!First(v, DLIST_SUCC)
      BY <1>1, <1>2, <2>4, FirstRefines
    <3> QED  BY <3>1 DEF Abs!Insert
  <2>5. Crash("null_dereference") => Abs!Dies("null_dereference")
    BY CrashRefines
  <2>6. stale' => stale' = TRUE
    OBVIOUS
  <2> QED  BY <1>2, <2>2, <2>3, <2>4, <2>5, <2>6, AbsOperators
           DEF Abs!Insert, Abs!Returns, running
<1>9. ASSUME NEW dir \in {"ASCENDING", "DESCENDING"}, dlist_quick_sort(dir)
      PROVE  Abs!Sort(dir)
  <2>1. /\ \E p \in Bijection(1..Len(items), 1..Len(items)) :
             items' = [k \in 1..Len(items) |-> items[p[k]]]
        /\ SortedBy(items', dir)
    BY <1>1, <1>9, SortItems
  <2>2. ret' = NULL /\ status' = status /\ stale' = stale
    BY <1>9, SameEntries DEF dlist_quick_sort, iterVars
  <2> QED  BY <2>1, <2>2, AbsOperators DEF Abs!Sort, Abs!Returns
<1>10. CASE dlist_pop_head
  <2>1. /\ status' = status
        /\ IF items = <<>>
           THEN ret' = NULL /\ UNCHANGED <<listVars, iterVars>>
           ELSE items' = RemoveAt(items, 1) /\ ret' = items[1] /\ UNCHANGED iter_list
    BY <1>1, <1>10, PoppedItems
  <2>2. (UNCHANGED listVars => items' = items) /\ stale' = stale
    BY <2>1, SameItems, SameEntries DEF listVars, iterVars
  <2> QED  BY <1>2, <2>1, <2>2, AbsOperators
           DEF Abs!PopHead, Abs!PopAt, Abs!Unchanged, Abs!Returns, Abs!Next, running
<1>11. CASE dlist_pop_tail
  <2>1. /\ status' = status
        /\ IF items = <<>>
           THEN ret' = NULL /\ UNCHANGED <<listVars, iterVars>>
           ELSE /\ items' = RemoveAt(items, Len(items)) /\ ret' = items[Len(items)]
                /\ UNCHANGED iter_list
    BY <1>1, <1>11, PoppedItems
  <2>2. (UNCHANGED listVars => items' = items) /\ stale' = stale
    BY <2>1, SameItems, SameEntries DEF listVars, iterVars
  <2> QED  BY <1>2, <2>1, <2>2, AbsOperators
           DEF Abs!PopTail, Abs!PopAt, Abs!Unchanged, Abs!Returns, Abs!Next, running
<1>12. CASE dlist_destroy
  <2>1. /\ chain' = <<>> /\ Len(chain') = 0 /\ ret' = NULL /\ status' = "destroyed"
        /\ iter_list' = <<>> /\ Len(iter_list') = 0
    BY <1>12 DEF dlist_destroy
  <2>2. items' = <<>>
    BY <2>1 DEF items
  <2>3. Dangling \notin Registered'
    BY <2>1 DEF Registered
  <2>4. stale' = FALSE
    BY <2>3
  <2> QED  BY <1>2, <2>1, <2>2, <2>4 DEF Abs!Clear, Abs!Next, running
<1> QED
  BY <1>2, <1>3, <1>4, <1>5, <1>6, <1>7, <1>8, <1>9, <1>10, <1>11, <1>12
  DEF ListStep, Abs!Next, running

\* Each call of an iterator: it reads, or the process dies.
LEMMA IterStepRefines ==
  ASSUME Inv, IterStep
  PROVE  Abs!Next
<1> DEFINE stale == Dangling \in Registered
<1>0. running
  BY DEF IterStep, dlist_get_iterable, dlist_set_iter, iterate, iter_get_value,
         dlist_destroy_iter
<1> SUFFICES ASSUME NEW i \in Iter,
                    \/ \E pos \in {"ITER_HEAD", "ITER_TAIL"} :
                         dlist_get_iterable(i, pos) \/ dlist_set_iter(i, pos)
                    \/ \E fetch \in {"NEXT", "PREV"} : iterate(i, fetch)
                    \/ iter_get_value(i) \/ dlist_destroy_iter(i)
             PROVE  Abs!ReadIter \/ Abs!IterDies
  BY <1>0 DEF IterStep, Abs!Next, running
<1>1. TypeOK /\ Linked /\ IterAttached /\ i # Dangling /\ (items = <<>> <=> length = 0)
  BY DListAssumption, ItemsSeq DEF Inv
<1>2. ASSUME NEW pos, dlist_get_iterable(i, pos) \/ dlist_destroy_iter(i)
      PROVE  Abs!ReadIter
  <2>1. UNCHANGED <<listVars, status>> /\ ret' = NULL
    BY <1>2 DEF dlist_get_iterable, dlist_destroy_iter
  <2>2. dlist_get_iterable(i, pos) => Registered' = Registered \cup {i}
    BY <1>1, EntryRegistered DEF dlist_get_iterable
  <2>3. dlist_destroy_iter(i) => Registered' = Registered \ {i}
    BY DestroyIterInv
  <2> QED  BY <1>1, <1>2, <2>1, <2>2, <2>3, ReadRefines
<1>3. ASSUME NEW pos, dlist_set_iter(i, pos)
      PROVE  Abs!ReadIter \/ Abs!IterDies
  <2>1. \/ items = <<>> /\ Crash("assert_failed")
        \/ UNCHANGED <<listVars, iter_list, status>> /\ ret' = NULL
    BY <1>1, <1>3 DEF dlist_set_iter
  <2> QED  BY <1>1, <2>1, ReadRefines, CrashRefines, SameEntries DEF Abs!IterDies
<1>4. ASSUME NEW fetch, iterate(i, fetch)
      PROVE  Abs!ReadIter \/ Abs!IterDies
  <2> DEFINE c == Step(Cursor(i), fetch)
  <2>1. \/ Crash("use_after_free")
        \/ /\ node[i] # Dangling /\ UNCHANGED <<listVars, iter_list, status>>
           /\ ret' = IF c.node = NULL THEN NULL ELSE data[c.node]
    BY <1>4 DEF iterate
  <2>2. node[i] # Dangling => c \in Cursors
    BY <1>1, CursorInList, StepInList
  <2> HIDE DEF c
  <2>3. node[i] # Dangling => c.node \in Linked_nodes \cup {NULL}
    BY <2>2 DEF Cursors
  <2> QED  BY <1>1, <2>1, <2>3, ReadRefines, CrashRefines, SameEntries DEF Abs!IterDies
<1>5. CASE iter_get_value(i)
  <2>1. \/ Crash("use_after_free")
        \/ /\ node[i] # Dangling /\ UNCHANGED <<listVars, iter_list, status>>
           /\ ret' = IF node[i] = NULL THEN NULL ELSE data[node[i]]
    BY <1>5 DEF iter_get_value, iterVars
  <2>2. node[i] # Dangling => node[i] \in Linked_nodes \cup {NULL}
    BY <1>1 DEF IterAttached, TypeOK
  <2> QED  BY <1>1, <2>1, <2>2, ReadRefines, CrashRefines, SameEntries DEF Abs!IterDies
<1> QED  BY <1>2, <1>3, <1>4, <1>5

\* The list of pointers and nodes is, to its caller, the sequence of AbsList: every
\* call changes and reads it by position or by value as there, and the process dies
\* in the calls in which, and only in those in which, it may die there.
THEOREM ListImplementsSequence == Spec => ImplementsAbsList
<1>1. Init => Abs!Init
  <2> SUFFICES ASSUME Init PROVE Abs!Init
    OBVIOUS
  <2>1. /\ chain = <<>> /\ Len(chain) = 0 /\ ret = NULL /\ status = "running"
        /\ iter_list = <<>> /\ Len(iter_list) = 0
    BY DEF Init, EmptyList
  <2>2. Dangling \notin Registered
    BY <2>1 DEF Registered
  <2> QED  BY <2>1, <2>2 DEF items, Abs!Init
<1>2. Inv /\ [Next]_vars => [Abs!Next]_(Abs!vars)
  <2> SUFFICES ASSUME Inv, [Next]_vars
               PROVE  Abs!Next \/ UNCHANGED <<items, ret, Dangling \in Registered, status>>
    BY DEF Abs!vars
  <2>1. CASE UNCHANGED vars
    BY <2>1, SameItems, SameEntries DEF vars, listVars, iterVars
  <2> QED  BY <2>1, ListStepRefines, IterStepRefines DEF Next
<1> QED  BY <1>1, <1>2, InvHolds, PTL DEF Spec, ImplementsAbsList, Abs!Spec

-----------------------------------------------------------------------------
(***************************************************************************)
(* What a single step may never do.                                        *)
(***************************************************************************)
\* What a step does to the list: nothing (reads, iterators, a crash), a sort, an
\* insertion (the first node, a later one, one that failed), a removal, destruction.
StepKind ==
  \/ UNCHANGED listVars
  \/ UNCHANGED <<length, alloc, chain>>
  \/ \E n \in Node \ alloc, v \in Data : running /\ AddFirst(n, v)
  \/ \E n \in Node \ alloc, v \in Data, k \in 1..(Len(chain) + 1) :
       length > 0 /\ Account(n, v, k)
  \/ ret' = DLIST_FAIL /\ length' = length
  \/ \E k \in 1..Len(chain), at \in [Iter -> Node \cup {NULL, Dangling}] :
       remove_node(k, at)
  \/ dlist_destroy

\* dlist_remove_value: the iterators it moves stay on the list, so remove_node is
\* given positions of the right type.
LEMMA RemoveMatchKind ==
  ASSUME TypeOK, Linked, IterAttached, NEW k \in 1..Len(chain), RemoveMatch(k)
  PROVE  Crash("use_after_free")
           \/ \E at \in [Iter -> Node \cup {NULL, Dangling}] : remove_node(k, at)
<1> DEFINE atHead == ValueAt(k) = ValueAt(1)
           atTail == ValueAt(k) = ValueAt(Len(chain))
           fixUp == iter_list # <<>> /\ (atHead \/ atTail)
           Moved == {i \in Iter \cap Registered : fixUp /\ index[i] = k - 1}
           unsafe == \/ fixUp /\ Dangling \in Registered
                     \/ \E i \in Moved : node[i] = Dangling
           After(i) == IF i \in Moved THEN MoveOff(i, atHead, atTail) ELSE Cursor(i)
<1>1. CASE Crash("use_after_free")
  BY <1>1
<1>2. CASE ~unsafe /\ remove_node(k, [i \in Iter |-> After(i).node])
  <2>1. ASSUME NEW i \in Iter
        PROVE  After(i).node \in Node \cup {NULL, Dangling}
    <3>1. CASE i \in Moved
      <4>1. node[i] # Dangling /\ atHead \in BOOLEAN /\ atTail \in BOOLEAN
        BY <1>2, <3>1
      <4>2. MoveOff(i, atHead, atTail) \in Cursors
        BY <4>1, MoveOffInList
      <4>3. After(i) = MoveOff(i, atHead, atTail)
        BY <3>1
      <4> HIDE DEF After
      <4>4. After(i).node \in Linked_nodes \cup {NULL}
        BY <4>2, <4>3 DEF Cursors
      <4> QED  BY <4>4, ValuesInData
    <3>2. CASE i \notin Moved
      <4>1. After(i) = Cursor(i) /\ Cursor(i).node = node[i]
        BY <3>2 DEF Cursor
      <4> QED  BY <4>1 DEF TypeOK
    <3> QED  BY <3>1, <3>2
  <2> HIDE DEF After
  <2>2. [i \in Iter |-> After(i).node] \in [Iter -> Node \cup {NULL, Dangling}]
    BY <2>1
  <2> QED  BY <1>2, <2>2
<1> QED  BY <1>1, <1>2 DEF RemoveMatch

\* Every step is of one of these kinds.
LEMMA StepKinds ==
  ASSUME Inv, [Next]_vars
  PROVE  StepKind
<1>1. /\ TypeOK /\ Linked /\ IterAttached /\ Len(chain) \in Nat /\ length = Len(chain)
  BY ChainFacts DEF Inv, Linked
<1>2. 1 \in 1..(Len(chain) + 1) /\ Len(chain) + 1 \in 1..(Len(chain) + 1)
  BY <1>1
<1>3. ASSUME NEW how, Crash(how)
      PROVE  StepKind
  BY <1>3 DEF Crash, StepKind
<1>4. AddFirstFault => StepKind
  BY <1>3 DEF AddFirstFault
<1>5. CASE UNCHANGED vars
  BY <1>5 DEF vars, StepKind
<1>6. CASE IterStep
  <2>1. \/ UNCHANGED listVars
        \/ Crash("use_after_free") \/ Crash("assert_failed")
    BY <1>6 DEF IterStep, dlist_get_iterable, dlist_set_iter, iterate, iter_get_value,
                dlist_destroy_iter
  <2> QED  BY <2>1, <1>3 DEF StepKind
<1>7. ASSUME NEW v \in Data, dlist_prepend(v)
      PROVE  StepKind
  BY <1>2, <1>4, <1>7 DEF dlist_prepend, StepKind
<1>8. ASSUME NEW v \in Data, dlist_append(v)
      PROVE  StepKind
  BY <1>2, <1>4, <1>8 DEF dlist_append, StepKind
<1>9. ASSUME NEW v \in Data, NEW i \in Index, dlist_insert(v, i)
      PROVE  StepKind
  <2>1. ASSUME NEW n \in Node \ alloc, InsertInside(n, v, i)
        PROVE  Position(i) \in 1..(Len(chain) + 1) /\ length > 0 /\ Account(n, v, Position(i))
    <3>1. i \in Int /\ InRange(i) /\ Len(chain) \in Nat
      BY <1>1, <2>1, DListAssumption DEF InsertInside
    <3>2. Position(i) \in 1..Len(chain)
      BY <1>1, <3>1, PositionInList
    <3>3. Position(i) \in 1..(Len(chain) + 1)
      BY <1>1, <3>2
    <3> QED  BY <2>1, <3>3 DEF InsertInside
  <2>2. ASSUME NEW n \in Node \ alloc, InsertInside(n, v, i)
        PROVE  StepKind
    BY <2>1, <2>2 DEF StepKind
  <2>3. ASSUME NEW n \in Node \ alloc, InsertNowhere(n, i)
        PROVE  StepKind
    BY <2>3 DEF InsertNowhere, StepKind
  <2>4. ASSUME NEW n \in Node \ alloc, AddFirst(n, v), running
        PROVE  StepKind
    BY <2>4 DEF StepKind
  <2> QED  BY <1>3, <1>4, <1>9, <2>2, <2>3, <2>4 DEF dlist_insert
<1>10. ASSUME NEW v \in Data, dlist_remove_value(v)
       PROVE  StepKind
  <2>1. ASSUME NEW k \in 1..Len(chain), RemoveMatch(k)
        PROVE  StepKind
    <3>1. Crash("use_after_free")
            \/ \E at \in [Iter -> Node \cup {NULL, Dangling}] : remove_node(k, at)
      BY <1>1, <2>1, RemoveMatchKind
    <3> QED  BY <1>3, <3>1 DEF StepKind
  <2> QED  BY <1>10, <2>1 DEF dlist_remove_value, StepKind
<1>11. CASE dlist_pop_head \/ dlist_pop_tail
  <2>1. node \in [Iter -> Node \cup {NULL, Dangling}]
    BY <1>1 DEF TypeOK
  <2>2. length > 0 => 1 \in 1..Len(chain) /\ Len(chain) \in 1..Len(chain)
    BY <1>1
  <2>3. \/ UNCHANGED listVars
        \/ length > 0 /\ (remove_node(1, node) \/ remove_node(Len(chain), node))
    BY <1>11 DEF dlist_pop_head, dlist_pop_tail
  <2> QED  BY <2>1, <2>2, <2>3 DEF StepKind
<1>12. ASSUME NEW dir, dlist_quick_sort(dir)
       PROVE  StepKind
  BY <1>12 DEF dlist_quick_sort, StepKind
<1>13. CASE (\E v \in Data : dlist_get_by_value(v)) \/ (\E i \in Index : dlist_get_by_index(i))
  BY <1>13 DEF dlist_get_by_value, dlist_get_by_index, StepKind
<1>14. CASE dlist_destroy
  BY <1>14 DEF StepKind
<1> QED  BY <1>5, <1>6, <1>7, <1>8, <1>9, <1>10, <1>11, <1>12, <1>13, <1>14
         DEF Next, ListStep

\* A node is lost only when an insertion fails: what is linked is what is allocated,
\* minus what was lost before.
THEOREM FailedInsertLeaks == Spec => OnlyFailedInsertLeaks
<1>1. ASSUME Inv, StepKind
      PROVE  (alloc' \ Linked_nodes') \subseteq (alloc \ Linked_nodes) \/ ret' = DLIST_FAIL
  <2>1. TypeOK /\ Linked
    BY <1>1 DEF Inv
  <2>2. CASE UNCHANGED listVars \/ UNCHANGED <<length, alloc, chain>>
    BY <2>2 DEF listVars, Linked_nodes
  <2>3. ASSUME NEW n \in Node \ alloc, NEW v \in Data, NEW k \in 1..(Len(chain) + 1),
               Account(n, v, k)
        PROVE  (alloc' \ Linked_nodes') \subseteq (alloc \ Linked_nodes)
    <3>1. Linked_nodes' = Linked_nodes \cup {n}
      BY <2>1, <2>3, InsertedNodes
    <3> QED  BY <2>3, <3>1 DEF Account
  <2>4. ASSUME NEW n \in Node \ alloc, NEW v \in Data, AddFirst(n, v)
        PROVE  (alloc' \ Linked_nodes') \subseteq (alloc \ Linked_nodes)
    <3>1. 1 \in 1..(Len(chain) + 1) /\ Account(n, v, 1)
      BY <2>1, <2>4, ChainFacts DEF AddFirst
    <3> QED  BY <2>3, <3>1
  <2>5. ASSUME NEW k \in 1..Len(chain), NEW at, remove_node(k, at)
        PROVE  (alloc' \ Linked_nodes') \subseteq (alloc \ Linked_nodes)
    <3>1. Linked_nodes' = Linked_nodes \ {chain[k]}
      BY <2>1, <2>5, RemovedNodes
    <3>2. alloc' = alloc \ {chain[k]}
      BY <2>5 DEF remove_node, free
    <3> QED  BY <3>1, <3>2
  <2>6. CASE dlist_destroy
    BY <2>6 DEF dlist_destroy
  <2> QED  BY <1>1, <2>2, <2>3, <2>4, <2>5, <2>6 DEF StepKind
<1>2. Inv /\ [Next]_vars
        => [(alloc' \ Linked_nodes') \subseteq (alloc \ Linked_nodes)
              \/ ret' = DLIST_FAIL]_vars
  BY <1>1, StepKinds
<1> QED  BY <1>2, InvHolds, PTL DEF Spec, OnlyFailedInsertLeaks

\* Only add_node makes an empty list non-empty, and it sends every registered
\* iterator, that is every one the client holds, to the new head (dl_list.c:727-742).
THEOREM FirstNodeRevives == Spec => FirstNodeRevivesIters
<1>1. ASSUME Inv, StepKind, length = 0, length' > 0, NEW i \in open
      PROVE  node'[i] = head' /\ index'[i] = 0
  <2>1. TypeOK /\ Linked /\ RegisteredOnce /\ Len(chain) = 0
    BY <1>1 DEF Inv, Linked
  <2>2. PICK n \in Node \ alloc, v \in Data : running /\ AddFirst(n, v)
    BY <1>1, <2>1 DEF StepKind, listVars, dlist_destroy
  <2>3. i \in Registered /\ i \in Iter
    BY <2>1, <2>2 DEF RegisteredOnce, running, TypeOK
  <2> QED  BY <2>2, <2>3 DEF AddFirst, Rewind
<1>2. Inv /\ [Next]_vars
        => [length = 0 /\ length' > 0
              => \A i \in open : node'[i] = head' /\ index'[i] = 0]_vars
  BY <1>1, StepKinds
<1> QED  BY <1>2, InvHolds, PTL DEF Spec, FirstNodeRevivesIters

\* Counting from the tail is counting modulo the length.
LEMMA CountsFromEitherEnd ==
  ASSUME NEW n \in Nat \ {0}, NEW i \in Int
  PROVE  /\ i \in 0..(n - 1) => i % n = i
         /\ i \in (-n)..(-1) => i % n = i + n
<1>1. i \in 0..(n - 1) => i % n = i
  BY Z3
<1>2. i \in (-n)..(-1) => i % n = i + n
  BY Z3
<1> QED  BY <1>1, <1>2

\* The range and the position the code computes are those an index from either end
\* should have.
LEMMA PositionIsModulo ==
  ASSUME length \in Nat, length > 0, NEW i \in Int
  PROVE  /\ InRange(i) <=> i \in (-length)..(length - 1)
         /\ InRange(i) => Position(i) = (i % length) + 1
<1>1. InRange(i) <=> i \in (-length)..(length - 1)
  BY DEF InRange
<1>2. CASE i >= 0
  <2>1. InRange(i) => i \in 0..(length - 1)
    BY <1>1, <1>2
  <2> QED  BY <1>1, <1>2, <2>1, CountsFromEitherEnd DEF Position
<1>3. CASE i < 0
  <2>1. InRange(i) => i \in (-length)..(-1)
    BY <1>1, <1>3
  <2>2. InRange(i) => i % length = i + length
    BY <2>1, CountsFromEitherEnd
  <2> QED  BY <1>1, <1>3, <2>2 DEF Position
<1> QED  BY <1>2, <1>3

\* What every index means to a lookup and to an insertion, the ones of no item and
\* that of the head included (dl_iter.c:308-336, dl_list.c:745-767).
THEOREM IndexedFromEitherEnd == Spec => IndexesFromEitherEnd
<1> DEFINE Within(i) == i \in -length..(length - 1)
           At(i) == (i % length) + 1
           Found(i) == ret' = IF Within(i) THEN items[At(i)] ELSE NULL
           Inserted(v, i) ==
             /\ length = 0 /\ Dangling \notin Registered =>
                  items' = <<v>> /\ ret' = DLIST_SUCC
             /\ Within(i) /\ At(i) = 1 => status' = "null_dereference"
             /\ Within(i) /\ At(i) > 1 =>
                  items' = InsertAt(items, At(i), v) /\ ret' = DLIST_SUCC
             /\ length > 0 /\ ~Within(i) => items' = items /\ ret' = DLIST_FAIL
<1>1. ASSUME Inv, NEW i \in Index, NEW v \in Data
      PROVE  /\ dlist_get_by_index(i) => Found(i)
             /\ dlist_insert(v, i) => Inserted(v, i)
  <2>1. /\ TypeOK /\ Linked /\ length \in Nat /\ i \in Int
        /\ items = <<>> <=> length = 0
    BY <1>1, DListAssumption, ItemsSeq DEF Inv, TypeOK
  <2>2. length > 0 => (InRange(i) <=> Within(i)) /\ (InRange(i) => Position(i) = At(i))
    BY <2>1, PositionIsModulo
  <2>3. length = 0 => ~InRange(i) /\ ~Within(i)
    BY <2>1 DEF InRange
  <2> HIDE DEF Within, At
  <2>4. ASSUME dlist_get_by_index(i)
        PROVE  Found(i)
    <3>1. ret' = IF InRange(i) THEN items[Position(i)] ELSE NULL
      BY <2>1, <2>4, IndexedItem
    <3> QED  BY <2>1, <2>2, <2>3, <3>1
  <2>5. ASSUME dlist_insert(v, i)
        PROVE  Inserted(v, i)
    <3>1. CASE length = 0
      <4>1. AddFirstFault => Dangling \in Registered
        BY DEF AddFirstFault
      <4>2. AddFirstFault \/ (items' = <<v>> /\ ret' = DLIST_SUCC)
        BY <2>1, <2>5, <3>1, InsertedItems
      <4> QED  BY <2>3, <3>1, <4>1, <4>2
    <3>2. CASE length > 0
      <4>1. ~AddFirstFault /\ items # <<>>
        BY <2>1, <3>2 DEF AddFirstFault
      <4>2. \/ InRange(i) /\ Position(i) = 1 /\ Crash("null_dereference")
            \/ /\ InRange(i) /\ Position(i) \in 1..Len(items) /\ Position(i) # 1
               /\ items' = InsertAt(items, Position(i), v) /\ ret' = DLIST_SUCC
            \/ ~InRange(i) /\ items' = items /\ ret' = DLIST_FAIL
        BY <2>1, <2>5, <4>1, InsertedItems
      <4>3. Crash("null_dereference") => status' = "null_dereference"
        BY DEF Crash
      <4> QED  BY <2>2, <3>2, <4>2, <4>3
    <3> QED  BY <2>1, <3>1, <3>2
  <2> QED  BY <2>4, <2>5
<1>2. Inv /\ [Next]_vars
        => [\A i \in Index, v \in Data :
              LET within == i \in -length..(length - 1)
                  at == (i % length) + 1 IN
              /\ dlist_get_by_index(i) => ret' = IF within THEN items[at] ELSE NULL
              /\ dlist_insert(v, i) =>
                   /\ length = 0 /\ Dangling \notin Registered =>
                        items' = <<v>> /\ ret' = DLIST_SUCC
                   /\ within /\ at = 1 => status' = "null_dereference"
                   /\ within /\ at > 1 =>
                        items' = InsertAt(items, at, v) /\ ret' = DLIST_SUCC
                   /\ length > 0 /\ ~within => items' = items /\ ret' = DLIST_FAIL]_vars
  BY <1>1
<1> QED  BY <1>2, InvHolds, PTL DEF Spec, IndexesFromEitherEnd

\* An iterator with a correct index reads its neighbour and stays correct, until it
\* leaves the list (dl_iter.c: iterate).
THEOREM TraversesInOrder == Spec => TraversalInOrder
<1>1. ASSUME Inv, NEW i \in open, NEW fetch \in {"NEXT", "PREV"},
             iterate(i, fetch), InSync(i),
             NEW k, k = index[i] + 1 + (IF fetch = "NEXT" THEN 1 ELSE -1)
      PROVE  IF k \in 1..Len(chain)
             THEN InSync(i)' /\ index'[i] = k - 1 /\ ret' = ValueAt(k)
             ELSE node'[i] = NULL /\ ret' = NULL
  <2>1. /\ TypeOK /\ Linked /\ i \in Iter /\ Len(chain) \in Nat
        /\ index[i] + 1 \in 1..Len(chain) /\ index[i] \in Int
        /\ node[i] = chain[index[i] + 1]
        /\ node[i] \in Node /\ node[i] # NULL /\ node[i] # Dangling
    <3>1. TypeOK /\ Linked /\ i \in Iter
      BY <1>1 DEF Inv, TypeOK
    <3>2. Len(chain) \in Nat
      BY <3>1, ChainFacts
    <3>3. index[i] \in 0..(Len(chain) - 1) /\ node[i] = chain[index[i] + 1]
      BY <1>1 DEF InSync
    <3>4. index[i] + 1 \in 1..Len(chain) /\ index[i] \in Int
      BY <3>2, <3>3
    <3>5. node[i] \in Node /\ node[i] # NULL
      BY <3>1, <3>3, <3>4, ChainFacts
    <3> QED  BY <3>1, <3>2, <3>3, <3>4, <3>5, DListAssumption
  <2> DEFINE there == IF fetch = "NEXT" THEN next[node[i]] ELSE prev[node[i]]
             p == IF fetch = "NEXT" THEN index[i] + 1 ELSE index[i] - 1
  <2>2. Step(Cursor(i), fetch) = [node |-> there, index |-> p]
    BY <2>1 DEF Step, Cursor
  <2>3. /\ node' = [node EXCEPT ![i] = there] /\ index' = [index EXCEPT ![i] = p]
        /\ ret' = IF there = NULL THEN NULL ELSE data[there]
        /\ UNCHANGED listVars
    <3>1. ~Crash("use_after_free") => node[i] # Dangling
      BY <2>1
    <3> HIDE DEF there, p
    <3> QED  BY <1>1, <2>1, <2>2 DEF iterate
  <2>4. node'[i] = there /\ index'[i] = p /\ chain' = chain
    BY <2>1, <2>3 DEF TypeOK, listVars
  <2>5. /\ p \in Int /\ k = p + 1
        /\ there = IF k \in 1..Len(chain) THEN chain[k] ELSE NULL
    <3>1. CASE fetch = "NEXT"
      <4>1. next[node[i]] = IF index[i] + 1 = Len(chain) THEN NULL ELSE chain[(index[i] + 1) + 1]
        BY <2>1 DEF Linked, NextLinked
      <4> QED  BY <1>1, <2>1, <3>1, <4>1
    <3>2. CASE fetch = "PREV"
      <4>1. prev[node[i]] = IF index[i] + 1 = 1 THEN NULL ELSE chain[(index[i] + 1) - 1]
        BY <2>1 DEF Linked, PrevLinked
      <4>2. k = index[i] /\ index[i] + 1 - 1 = index[i]
        BY <1>1, <2>1, <3>2
      <4> QED  BY <2>1, <3>2, <4>1, <4>2
    <3> QED  BY <1>1, <2>1, <3>1, <3>2
  <2> HIDE DEF there, p
  <2>6. CASE k \in 1..Len(chain)
    <3>1. there = chain[k] /\ there # NULL /\ p = k - 1 /\ p \in Int
      BY <2>1, <2>5, <2>6, ChainFacts
    <3>2. p \in 0..(Len(chain) - 1) /\ p + 1 = k
      BY <2>1, <2>5, <2>6
    <3>3. InSync(i)'
      BY <2>4, <3>1, <3>2 DEF InSync
    <3> QED  BY <2>3, <2>4, <2>6, <3>1, <3>3 DEF ValueAt
  <2>7. CASE k \notin 1..Len(chain)
    BY <2>3, <2>4, <2>5, <2>7
  <2> QED  BY <2>6, <2>7
<1>2. Inv /\ [Next]_vars
        => [\A i \in open, fetch \in {"NEXT", "PREV"} :
              iterate(i, fetch) /\ InSync(i) =>
                LET k == index[i] + 1 + (IF fetch = "NEXT" THEN 1 ELSE -1) IN
                IF k \in 1..Len(chain)
                THEN InSync(i)' /\ index'[i] = k - 1 /\ ret' = ValueAt(k)
                ELSE node'[i] = NULL /\ ret' = NULL]_vars
  BY <1>1
<1> QED  BY <1>2, InvHolds, PTL DEF Spec, TraversalInOrder

\* Where an iterator with a correct index ends up, and with what index, when a value
\* is removed, in any list (dl_list.c:270-319).
THEOREM RemovalMoves == Spec => RemovalMovesIters
<1> DEFINE there(i, k) == node[i] = chain[k]
           atHead(v) == v = ValueAt(1)
           atTail(v) == v = ValueAt(Len(chain))
           Moves(v, i, k) ==
             /\ ~there(i, k) => node'[i] = node[i] /\ index'[i] = index[i]
             /\ there(i, k) /\ atHead(v) /\ ~atTail(v) => node'[i] = chain[2] /\ InSync(i)'
             /\ there(i, k) /\ atTail(v) /\ ~atHead(v) =>
                  node'[i] = chain[k - 1] /\ index'[i] = k - 3
             /\ there(i, k) /\ atHead(v) /\ atTail(v) =>
                  node'[i] = IF length = 1 THEN NULL ELSE Dangling
             /\ there(i, k) /\ ~atHead(v) /\ ~atTail(v) => node'[i] = Dangling
<1>1. ASSUME Inv, NEW v \in Data, NEW i \in open, NEW k \in 1..Len(chain),
             FirstAt(v, k), InSync(i), dlist_remove_value(v), status' = "running"
      PROVE  Moves(v, i, k)
  <2> DEFINE L == Len(chain)
             q == index[i] + 1
  <2>1. /\ TypeOK /\ Linked /\ i \in Iter /\ running /\ L \in Nat /\ length = L
        /\ q \in 1..L /\ index[i] \in Int /\ node[i] = chain[q]
        /\ \A j \in 1..L : chain[j] \in Node /\ chain[j] # NULL /\ chain[j] # Dangling
        /\ \A a, b \in 1..L : chain[a] = chain[b] => a = b
    <3>1. TypeOK /\ Linked /\ i \in Iter /\ running
      BY <1>1 DEF Inv, TypeOK, dlist_remove_value
    <3>2. /\ L \in Nat
          /\ \A j \in 1..L : chain[j] \in Node /\ chain[j] # NULL /\ chain[j] # Dangling
      BY <3>1, ChainFacts, DListAssumption
    <3>3. index[i] \in 0..(Len(chain) - 1) /\ node[i] = chain[index[i] + 1]
      BY <1>1 DEF InSync
    <3>4. q \in 1..L /\ index[i] \in Int
      BY <3>2, <3>3
    <3>5. length = L /\ \A a, b \in 1..L : chain[a] = chain[b] => a = b
      BY <3>1 DEF Linked, NodesLive
    <3> QED  BY <3>1, <3>2, <3>3, <3>4, <3>5
  <2>2. i \in Registered /\ iter_list # <<>>
    <3>1. i \in Registered /\ i # Dangling
      BY <1>1, <2>1 DEF Inv, RegisteredOnce, running
    <3> QED  BY <3>1 DEF Registered
  <2>3. /\ ValueAt(k) = v /\ k \in Int /\ 1 \in 1..L /\ L \in 1..L
        /\ k = 1 <=> atHead(v)
        /\ k = L => atTail(v)
    <3>1. ValueAt(k) = v /\ \A j \in 1..(k - 1) : ValueAt(j) # v
      BY <1>1 DEF FirstAt
    <3>2. k \in Int /\ 1 \in 1..L /\ L \in 1..L /\ (k # 1 => 1 \in 1..(k - 1))
      BY <2>1
    <3> QED  BY <3>1, <3>2
  <2>4. RemoveMatch(k)
    <3>1. ~Missing(v)
      BY <2>3 DEF Missing
    <3>2. PICK m \in 1..Len(chain) : FirstAt(v, m) /\ RemoveMatch(m)
      BY <1>1, <3>1 DEF dlist_remove_value
    <3>3. m = k
      <4>1. ValueAt(m) = v /\ (\A j \in 1..(m - 1) : ValueAt(j) # v)
            /\ ValueAt(k) = v /\ (\A j \in 1..(k - 1) : ValueAt(j) # v)
        BY <1>1, <3>2 DEF FirstAt
      <4>2. m \in Int /\ k \in Int /\ (m < k => m \in 1..(k - 1))
            /\ (k < m => k \in 1..(m - 1))
        BY <2>1
      <4> QED  BY <4>1, <4>2
    <3> QED  BY <3>2, <3>3
  <2> DEFINE fixUp == iter_list # <<>> /\ (atHead(v) \/ atTail(v))
             Moved == {j \in Iter \cap Registered : fixUp /\ index[j] = k - 1}
             After(j) == IF j \in Moved THEN MoveOff(j, atHead(v), atTail(v)) ELSE Cursor(j)
  <2>5. /\ remove_node(k, [j \in Iter |-> After(j).node])
        /\ index' = [j \in Iter |-> After(j).index]
    <3>1. ~Crash("use_after_free")
      BY <1>1 DEF Crash
    <3> QED  BY <2>3, <2>4, <3>1 DEF RemoveMatch
  <2>6. /\ node'[i] = IF After(i).node = chain[k] THEN Dangling ELSE After(i).node
        /\ index'[i] = After(i).index
    <3> HIDE DEF After
    <3> QED  BY <2>1, <2>5 DEF remove_node, Invalidate
  <2>7. there(i, k) <=> k = q
    BY <2>1
  <2>8. CASE k # q
    <3>1. index[i] # k - 1 /\ ~there(i, k)
      BY <2>1, <2>3, <2>7, <2>8
    <3>2. /\ After(i) = Cursor(i) /\ Cursor(i).node = node[i] /\ Cursor(i).index = index[i]
      BY <3>1 DEF Cursor
    <3> HIDE DEF After
    <3> QED  BY <2>6, <3>1, <3>2
  <2>9. CASE k = q
    <3>1. index[i] = k - 1 /\ there(i, k) /\ node[i] = chain[k]
      BY <2>1, <2>7, <2>9
    <3>2. i \in Moved <=> atHead(v) \/ atTail(v)
      BY <2>1, <2>2, <3>1
    <3>3. /\ next[chain[k]] = IF k = L THEN NULL ELSE chain[k + 1]
          /\ \A j \in 1..L : prev[chain[j]] = IF j = 1 THEN NULL ELSE chain[j - 1]
      BY <2>1 DEF Linked, NextLinked, PrevLinked
    <3> DEFINE c == Shift(Step(Cursor(i), "NEXT"), -1)
    <3>4. c = [node |-> next[chain[k]], index |-> k - 1]
      BY <2>1, <2>3, <3>1 DEF Shift, Step, Cursor
    <3>5. chain[k] # Dangling /\ chain[k] # NULL /\ NULL # Dangling
      BY <2>1, DListAssumption
    <3> HIDE DEF c
    <3>6. CASE atHead(v) /\ ~atTail(v)
      <4>1. After(i) = c
        BY <3>2, <3>6 DEF MoveOff, c
      <4>2. k = 1 /\ k # L /\ 2 \in 1..L /\ c.node = chain[2] /\ c.index = 0
        BY <2>1, <2>3, <3>3, <3>4, <3>6
      <4> HIDE DEF After, there, atHead, atTail
      <4>3. node'[i] = chain[2] /\ index'[i] = 0
        BY <2>1, <2>6, <4>1, <4>2
      <4>4. Len(chain') = L - 1 /\ 1 \in 1..(L - 1) /\ chain'[1] = chain[2]
        <5>1. Len(chain') = L - 1
              /\ \A j \in 1..(L - 1) : chain'[j] = IF j < k THEN chain[j] ELSE chain[j + 1]
          BY <2>1, <2>5, RemoveShape
        <5>2. 1 \in 1..(L - 1)
          BY <2>1, <4>2
        <5> QED  BY <4>2, <5>1, <5>2
      <4>5. InSync(i)'
        BY <2>1, <4>3, <4>4 DEF InSync
      <4> QED  BY <3>1, <3>6, <4>3, <4>5
    <3>7. CASE atTail(v) /\ ~atHead(v)
      <4>1. After(i) = Shift(Step(Cursor(i), "PREV"), -1)
        BY <3>2, <3>7 DEF MoveOff
      <4>2. After(i) = [node |-> prev[chain[k]], index |-> k - 3]
        BY <2>1, <2>3, <3>1, <3>5, <4>1 DEF Shift, Step, Cursor
      <4>3. k # 1 /\ k - 1 \in 1..L /\ prev[chain[k]] = chain[k - 1]
        BY <2>1, <2>3, <3>3, <3>7
      <4>4. chain[k - 1] # chain[k]
        BY <2>1, <2>3, <4>3
      <4> HIDE DEF After, there, atHead, atTail
      <4>5. node'[i] = chain[k - 1] /\ index'[i] = k - 3
        BY <2>6, <4>2, <4>3, <4>4
      <4> QED  BY <3>1, <3>7, <4>5
    <3>8. CASE atHead(v) /\ atTail(v)
      <4>1. After(i) = Shift(Step(c, "PREV"), -1) /\ k = 1
        BY <2>3, <3>2, <3>8 DEF MoveOff, c
      <4>2. CASE L = 1
        <5>1. c.node = NULL
          BY <3>3, <3>4, <4>1, <4>2
        <5>2. After(i).node = NULL
          BY <3>4, <4>1, <5>1 DEF Shift, Step
        <5> HIDE DEF After, there, atHead, atTail
        <5> QED  BY <2>1, <2>6, <3>1, <3>5, <3>8, <4>2, <5>2
      <4>3. CASE L # 1
        <5>1. c.node = chain[2] /\ 2 \in 1..L /\ chain[2] # NULL
          BY <2>1, <2>3, <3>3, <3>4, <4>1, <4>3
        <5>2. prev[chain[2]] = chain[1]
          BY <3>3, <5>1
        <5>3. After(i).node = chain[k]
          BY <4>1, <5>1, <5>2 DEF Shift, Step
        <5> HIDE DEF After, there, atHead, atTail
        <5> QED  BY <2>1, <2>6, <3>1, <3>8, <4>3, <5>3
      <4> QED  BY <4>2, <4>3
    <3>9. CASE ~atHead(v) /\ ~atTail(v)
      <4>1. After(i) = Cursor(i) /\ Cursor(i).node = chain[k]
        BY <3>1, <3>2, <3>9 DEF Cursor
      <4> HIDE DEF After, there, atHead, atTail
      <4> QED  BY <2>6, <3>1, <3>9, <4>1
    <3> HIDE DEF Moves
    <3> QED  BY <3>6, <3>7, <3>8, <3>9
  <2> QED  BY <2>8, <2>9
<1>2. Inv /\ [Next]_vars
        => [\A v \in Data, i \in open : \A k \in 1..Len(chain) :
              LET at == node[i] = chain[k]
                  ofHead == v = ValueAt(1)
                  ofTail == v = ValueAt(Len(chain)) IN
              FirstAt(v, k) /\ InSync(i) /\ dlist_remove_value(v) /\ status' = "running" =>
                /\ ~at => node'[i] = node[i] /\ index'[i] = index[i]
                /\ at /\ ofHead /\ ~ofTail => node'[i] = chain[2] /\ InSync(i)'
                /\ at /\ ofTail /\ ~ofHead =>
                     node'[i] = chain[k - 1] /\ index'[i] = k - 3
                /\ at /\ ofHead /\ ofTail =>
                     node'[i] = IF length = 1 THEN NULL ELSE Dangling
                /\ at /\ ~ofHead /\ ~ofTail => node'[i] = Dangling]_vars
  BY <1>1
<1> QED  BY <1>2, InvHolds, PTL DEF Spec, RemovalMovesIters
=============================================================================
