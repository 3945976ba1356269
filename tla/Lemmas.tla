------------------------------- MODULE Lemmas -------------------------------
(***************************************************************************)
(* Lemmas about data that the proofs of several components use: sequences, *)
(* natural numbers, and the sizes of an array that doubles.                *)
(***************************************************************************)
EXTENDS Integers, SequencesExt, SequenceTheorems, WellFoundedInduction, TLAPS

-----------------------------------------------------------------------------
(***************************************************************************)
(* What InsertAt and RemoveAt of the community modules return, element by  *)
(* element: the form in which the list's proofs use them.                  *)
(***************************************************************************)

\* Inserting at position k shifts the elements from k on by one.
THEOREM InsertAtElements ==
  ASSUME NEW S, NEW s \in Seq(S), NEW k \in 1..(Len(s) + 1), NEW e \in S
  PROVE  /\ InsertAt(s, k, e) \in Seq(S)
         /\ Len(InsertAt(s, k, e)) = Len(s) + 1
         /\ \A j \in 1..(Len(s) + 1) :
              InsertAt(s, k, e)[j] = IF j < k THEN s[j]
                                     ELSE IF j = k THEN e ELSE s[j - 1]
<1> DEFINE front == SubSeq(s, 1, k - 1)
           back == SubSeq(s, k, Len(s))
<1>1. /\ front \in Seq(S) /\ Len(front) = k - 1
      /\ \A j \in 1..(k - 1) : front[j] = s[j]
  <2>1. \A i \in 1..(k - 1) : s[i] \in S
    BY LenProperties, ElementOfSeq
  <2> QED  BY <2>1, SubSeqProperties, Z3
<1>2. /\ back \in Seq(S) /\ Len(back) = Len(s) - k + 1
      /\ \A j \in 1..(Len(s) - k + 1) : back[j] = s[k + j - 1]
  <2>1. \A i \in k..Len(s) : s[i] \in S
    BY LenProperties, ElementOfSeq
  <2>2. Len(s) \in Nat
    BY LenProperties
  <2> QED  BY <2>1, <2>2, SubSeqProperties, Z3
<1>3. /\ <<e>> \in Seq(S) /\ Len(<<e>>) = 1 /\ <<e>>[1] = e
  OBVIOUS
<1> HIDE DEF front, back
<1>4. /\ front \o <<e>> \in Seq(S)
      /\ Len(front \o <<e>>) = k
      /\ \A j \in 1..k : (front \o <<e>>)[j] = IF j < k THEN s[j] ELSE e
  BY <1>1, <1>3, ConcatProperties
<1>5. InsertAt(s, k, e) = (front \o <<e>>) \o back
  BY DEF InsertAt, front, back
<1>6. Len(s) \in Nat
  BY LenProperties
<1> DEFINE left == front \o <<e>>
<1>7. /\ left \o back \in Seq(S)
      /\ Len(left \o back) = Len(s) + 1
      /\ \A j \in 1..(Len(s) + 1) :
           (left \o back)[j] = IF j <= k THEN left[j] ELSE back[j - k]
  <2>1. left \in Seq(S) /\ Len(left) = k
    BY <1>4
  <2> HIDE DEF left
  <2>2. /\ left \o back \in Seq(S)
        /\ Len(left \o back) = Len(left) + Len(back)
        /\ \A j \in 1..(Len(left) + Len(back)) :
             (left \o back)[j] = IF j <= Len(left) THEN left[j] ELSE back[j - Len(left)]
    BY <2>1, <1>2, ConcatProperties
  <2>3. Len(left) + Len(back) = Len(s) + 1
    BY <2>1, <1>2, <1>6
  <2> QED  BY <2>1, <2>2, <2>3
<1> HIDE DEF left
<1> DEFINE whole == left \o back
<1>8. whole = left \o back
  OBVIOUS
<1> HIDE DEF whole
<1>9. \A j \in 1..(Len(s) + 1) :
        whole[j] = IF j < k THEN s[j] ELSE IF j = k THEN e ELSE s[j - 1]
  <2> TAKE j \in 1..(Len(s) + 1)
  <2>0. j \in Int /\ k \in Int
    BY <1>6
  <2>1. CASE j <= k
    <3>1. whole[j] = left[j]
      BY <2>1, <1>7, <1>8
    <3>2. left[j] = IF j < k THEN s[j] ELSE e
      BY <2>0, <2>1, <1>4 DEF left
    <3> QED  BY <2>0, <2>1, <3>1, <3>2
  <2>2. CASE j > k
    <3>1. whole[j] = back[j - k] /\ j - k \in 1..(Len(s) - k + 1)
      BY <2>0, <2>2, <1>6, <1>7, <1>8
    <3>2. back[j - k] = s[k + (j - k) - 1] /\ k + (j - k) - 1 = j - 1
      BY <3>1, <1>2, <1>6
    <3> QED  BY <2>0, <2>2, <3>1, <3>2
  <2> QED  BY <2>0, <2>1, <2>2
<1> QED  BY <1>5, <1>7, <1>8, <1>9 DEF left

\* Removing position k shifts the elements after k back by one.
THEOREM RemoveAtElements ==
  ASSUME NEW S, NEW s \in Seq(S), NEW k \in 1..Len(s)
  PROVE  /\ RemoveAt(s, k) \in Seq(S)
         /\ Len(RemoveAt(s, k)) = Len(s) - 1
         /\ \A j \in 1..(Len(s) - 1) :
              RemoveAt(s, k)[j] = IF j < k THEN s[j] ELSE s[j + 1]
<1> DEFINE front == SubSeq(s, 1, k - 1)
           back == SubSeq(s, k + 1, Len(s))
<1>1. /\ front \in Seq(S) /\ Len(front) = k - 1
      /\ \A j \in 1..(k - 1) : front[j] = s[j]
  <2>1. \A i \in 1..(k - 1) : s[i] \in S
    BY LenProperties, ElementOfSeq
  <2> QED  BY <2>1, SubSeqProperties, Z3
<1>2. /\ back \in Seq(S) /\ Len(back) = Len(s) - k
      /\ \A j \in 1..(Len(s) - k) : back[j] = s[k + j]
  <2>1. \A i \in (k + 1)..Len(s) : s[i] \in S
    BY LenProperties, ElementOfSeq
  <2>2. Len(s) \in Nat
    BY LenProperties
  <2> QED  BY <2>1, <2>2, SubSeqProperties, Z3
<1> HIDE DEF front, back
<1>3. RemoveAt(s, k) = front \o back
  BY DEF RemoveAt, front, back
<1>4. Len(s) \in Nat
  BY LenProperties
<1>5. /\ front \o back \in Seq(S)
      /\ Len(front \o back) = Len(s) - 1
      /\ \A j \in 1..(Len(s) - 1) :
           (front \o back)[j] = IF j < k THEN front[j] ELSE back[j - k + 1]
  <2>1. /\ front \o back \in Seq(S)
        /\ Len(front \o back) = Len(front) + Len(back)
        /\ \A j \in 1..(Len(front) + Len(back)) :
             (front \o back)[j] =
               IF j <= Len(front) THEN front[j] ELSE back[j - Len(front)]
    BY <1>1, <1>2, ConcatProperties
  <2>2. Len(front) = k - 1 /\ Len(front) + Len(back) = Len(s) - 1
    BY <1>1, <1>2, <1>4
  <2>3. ASSUME NEW j \in 1..(Len(s) - 1)
        PROVE  /\ j <= Len(front) <=> j < k
               /\ j - Len(front) = j - k + 1
    BY <2>2, <1>4
  <2> QED  BY <2>1, <2>2, <2>3
<1> DEFINE whole == front \o back
<1>6. whole = front \o back
  OBVIOUS
<1> HIDE DEF whole
<1>7. \A j \in 1..(Len(s) - 1) :
        whole[j] = IF j < k THEN s[j] ELSE s[j + 1]
  <2> TAKE j \in 1..(Len(s) - 1)
  <2>0. j \in Int /\ k \in Int
    BY <1>4
  <2>1. CASE j < k
    BY <2>0, <2>1, <1>1, <1>5, <1>6
  <2>2. CASE j >= k
    <3>1. whole[j] = back[j - k + 1] /\ j - k + 1 \in 1..(Len(s) - k)
      BY <2>0, <2>2, <1>4, <1>5, <1>6
    <3>2. back[j - k + 1] = s[k + (j - k + 1)] /\ k + (j - k + 1) = j + 1
      BY <3>1, <1>2, <1>4
    <3> QED  BY <2>0, <2>2, <3>1, <3>2
  <2> QED  BY <2>0, <2>1, <2>2
<1> QED  BY <1>3, <1>5, <1>6, <1>7

\* Inserting a new element keeps the elements distinct.
THEOREM InsertAtDistinct ==
  ASSUME NEW S, NEW s \in Seq(S), NEW k \in 1..(Len(s) + 1), NEW e \in S,
         \A a, b \in 1..Len(s) : s[a] = s[b] => a = b,
         \A j \in 1..Len(s) : s[j] # e
  PROVE  \A a, b \in 1..(Len(s) + 1) :
           InsertAt(s, k, e)[a] = InsertAt(s, k, e)[b] => a = b
<1> DEFINE t == InsertAt(s, k, e)
           Old(j) == IF j < k THEN j ELSE j - 1
<1>1. \A j \in 1..(Len(s) + 1) :
        t[j] = IF j < k THEN s[j] ELSE IF j = k THEN e ELSE s[j - 1]
  BY InsertAtElements
<1>2. Len(s) \in Nat /\ k \in Int
  BY LenProperties
<1> HIDE DEF t
<1>3. ASSUME NEW j \in 1..(Len(s) + 1), j # k
      PROVE  t[j] = s[Old(j)] /\ Old(j) \in 1..Len(s)
  BY <1>1, <1>2, <1>3
<1>4. t[k] = e /\ k \in 1..(Len(s) + 1)
  BY <1>1, <1>2
<1>5. ASSUME NEW a \in 1..(Len(s) + 1), NEW b \in 1..(Len(s) + 1), t[a] = t[b]
      PROVE  a = b
  <2>1. CASE a = k
    BY <2>1, <1>3, <1>4, <1>5
  <2>2. CASE b = k
    BY <2>2, <1>3, <1>4, <1>5
  <2>3. CASE a # k /\ b # k
    <3>1. Old(a) = Old(b)
      BY <2>3, <1>3, <1>5
    <3> QED  BY <3>1, <2>3, <1>2
  <2> QED  BY <2>1, <2>2, <2>3
<1> QED  BY <1>5 DEF t

\* Removing an element of a sequence without duplicates leaves it without
\* duplicates, and without that element.
THEOREM RemoveAtDistinct ==
  ASSUME NEW S, NEW s \in Seq(S), NEW k \in 1..Len(s),
         \A a, b \in 1..Len(s) : s[a] = s[b] => a = b
  PROVE  /\ \A a, b \in 1..(Len(s) - 1) :
              RemoveAt(s, k)[a] = RemoveAt(s, k)[b] => a = b
         /\ \A j \in 1..(Len(s) - 1) : RemoveAt(s, k)[j] # s[k]
<1> DEFINE t == RemoveAt(s, k)
           Old(j) == IF j < k THEN j ELSE j + 1
<1>1. \A j \in 1..(Len(s) - 1) : t[j] = IF j < k THEN s[j] ELSE s[j + 1]
  BY RemoveAtElements
<1>2. Len(s) \in Nat /\ k \in Int
  BY LenProperties
<1> HIDE DEF t
<1>3. ASSUME NEW j \in 1..(Len(s) - 1)
      PROVE  t[j] = s[Old(j)] /\ Old(j) \in 1..Len(s) /\ Old(j) # k
  BY <1>1, <1>2
<1>4. ASSUME NEW a \in 1..(Len(s) - 1), NEW b \in 1..(Len(s) - 1), t[a] = t[b]
      PROVE  a = b
  <2>1. Old(a) = Old(b)
    BY <1>3, <1>4
  <2> QED  BY <2>1, <1>2
<1>5. ASSUME NEW j \in 1..(Len(s) - 1)
      PROVE  t[j] # s[k]
  BY <1>3
<1> QED  BY <1>4, <1>5 DEF t

\* Two sequences of the same length that agree at every position are equal.
THEOREM SameElements ==
  ASSUME NEW S, NEW s \in Seq(S), NEW T, NEW t \in Seq(T),
         Len(s) = Len(t), \A j \in 1..Len(s) : s[j] = t[j]
  PROVE  s = t
<1>1. s = [j \in 1..Len(s) |-> s[j]] /\ t = [j \in 1..Len(t) |-> t[j]]
  OBVIOUS
<1> QED  BY <1>1

-----------------------------------------------------------------------------
(***************************************************************************)
(* Natural numbers.                                                        *)
(***************************************************************************)
\* Every non-empty set of naturals has a least element.
THEOREM LeastElement ==
  ASSUME NEW S \in SUBSET Nat, S # {}
  PROVE  \E m \in S : \A k \in S : m <= k
<1>1. OpToRel(<, Nat) = {r \in Nat \X Nat : r[1] < r[2]}
  BY DEF OpToRel
<1>2. PICK m \in S : \A k \in S : ~(<<k, m>> \in OpToRel(<, Nat))
  BY NatLessThanWellFounded, WFMin
<1>3. \A k \in S : ~(k < m)
  BY <1>1, <1>2
<1>4. m \in Nat /\ \A k \in S : k \in Nat
  OBVIOUS
<1> QED  BY <1>3, <1>4

\* The slots of a stack are slots of an array at least as long.
THEOREM SlotsNest ==
  ASSUME NEW m \in Nat, NEW s \in Nat, m <= s
  PROVE  \A k \in 0..(m - 1) : k \in 0..(s - 1)
OBVIOUS

-----------------------------------------------------------------------------
(***************************************************************************)
(* The sizes of an array that starts at base and doubles: the least set    *)
(* that holds base and is closed under doubling.                           *)
(***************************************************************************)
Closed(base, S) == base \in S /\ \A y \in S : 2 * y \in S

Sizes(base) == {x \in Nat : \A S \in SUBSET Nat : Closed(base, S) => x \in S}

\* The first size is one of them, and doubling a size gives another.
THEOREM SizesClosed ==
  ASSUME NEW base \in Nat \ {0}
  PROVE  Closed(base, Sizes(base))
<1>1. base \in Sizes(base)
  BY DEF Sizes, Closed
<1>2. ASSUME NEW y \in Sizes(base)
      PROVE  2 * y \in Sizes(base)
  <2>1. y \in Nat /\ 2 * y \in Nat
    BY DEF Sizes
  <2> QED  BY <2>1 DEF Sizes, Closed
<1> QED  BY <1>1, <1>2 DEF Closed

\* A size other than the first is twice another size.
THEOREM SizesHalve ==
  ASSUME NEW base \in Nat \ {0}, NEW x \in Sizes(base), x # base
  PROVE  \E y \in Sizes(base) : x = 2 * y
<1> DEFINE S == {z \in Sizes(base) : z = base \/ \E y \in Sizes(base) : z = 2 * y}
<1>1. S \in SUBSET Nat
  BY DEF Sizes
<1>2. Closed(base, S)
  BY SizesClosed DEF Closed
<1>3. x \in S
  BY <1>1, <1>2 DEF Sizes
<1> QED  BY <1>3

\* No size is below the first.
THEOREM SizesFromBase ==
  ASSUME NEW base \in Nat \ {0}, NEW x \in Sizes(base)
  PROVE  x \in Nat /\ x >= base
<1> DEFINE S == {z \in Nat : z >= base}
<1>1. S \in SUBSET Nat /\ Closed(base, S)
  BY DEF Closed
<1> QED  BY <1>1 DEF Sizes
=============================================================================
