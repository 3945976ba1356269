-------------------------- MODULE IntersectProofs ---------------------------
(***************************************************************************)
(* Proofs about Intersect, for any characters, any texts and any number of *)
(* files: the dictionary holds what the files have in common, each key     *)
(* with the spellings it is to be printed with, no payload is lost, and    *)
(* the list of what is to be removed has room for it.  And what parse_file *)
(* reads from a file are its words, wherever its count of characters does  *)
(* not lead the stream into one.                                           *)
(***************************************************************************)
EXTENDS Intersect, Lemmas, FiniteSetTheorems, TLAPS

USE FileParserAssumption, IntersectAssumption

-----------------------------------------------------------------------------
(***************************************************************************)
(* Words.                                                                  *)
(***************************************************************************)
\* A key is a word itself.
LEMMA KeyType ==
  ASSUME NEW w \in Spelling
  PROVE  Key(w) \in Spelling
BY DEF Key, Spelling

\* What fgetws reads is a word, wherever it reads.
LEMMA WordType ==
  ASSUME text \in Seq(Char), word_start \in Nat, word_end \in Nat
  PROVE  Word \in Spelling
<1> DEFINE S == {k \in 1..Len(text) : Offset(text)[k] < word_start}
           first == Cardinality(S) + 1
           last == first + (word_end - word_start) - 1
<1>1. Len(text) \in Nat /\ IsFiniteSet(1..Len(text)) /\ Cardinality(1..Len(text)) = Len(text)
  <2>1. Len(text) \in Int /\ Len(text) >= 0
    OBVIOUS
  <2> HIDE DEF S
  <2>2. /\ IsFiniteSet(1..Len(text))
        /\ Cardinality(1..Len(text)) = IF 1 > Len(text) THEN 0 ELSE Len(text) - 1 + 1
    BY <2>1, FS_Interval
  <2> QED  BY <2>1, <2>2
<1>2. IsFiniteSet(S) /\ Cardinality(S) <= Len(text)
  BY <1>1, FS_Subset
<1>3. Cardinality(S) \in Nat
  BY <1>2, FS_CardinalityType
<1> HIDE DEF S
<1>4. SubSeq(text, first, IF last <= Len(text) THEN last ELSE Len(text)) \in Seq(Char)
  BY <1>1, <1>2, <1>3
<1> QED  BY <1>4 DEF Word, fgetws, Spelling, S

\* One more word has one more key.
LEMMA KeysAppend ==
  ASSUME NEW s \in Seq(Spelling), NEW w \in Spelling
  PROVE  Keys(Append(s, w)) = Keys(s) \cup {Key(w)}
<1>1. /\ Len(s) \in Nat /\ DOMAIN s = 1..Len(s) /\ DOMAIN Append(s, w) = 1..(Len(s) + 1)
      /\ \A n \in 1..Len(s) : Append(s, w)[n] = s[n]
      /\ Append(s, w)[Len(s) + 1] = w
  OBVIOUS
<1> HIDE DEF Spelling
<1>2. ASSUME NEW k \in Keys(Append(s, w))
      PROVE  k \in Keys(s) \cup {Key(w)}
  <2>1. PICK n \in 1..(Len(s) + 1) : k = Key(Append(s, w)[n])
    BY <1>1 DEF Keys
  <2>2. CASE n = Len(s) + 1
    BY <1>1, <2>1, <2>2
  <2>3. CASE n # Len(s) + 1
    <3>1. n \in 1..Len(s)
      BY <1>1, <2>3
    <3> QED  BY <1>1, <2>1, <3>1 DEF Keys
  <2> QED  BY <2>2, <2>3
<1>3. ASSUME NEW k \in Keys(s)
      PROVE  k \in Keys(Append(s, w))
  <2>1. PICK n \in 1..Len(s) : k = Key(s[n])
    BY <1>1 DEF Keys
  <2>2. n \in DOMAIN Append(s, w) /\ Append(s, w)[n] = s[n]
    BY <1>1
  <2> QED  BY <2>1, <2>2 DEF Keys
<1>4. Key(w) \in Keys(Append(s, w))
  <2>1. Len(s) + 1 \in DOMAIN Append(s, w)
    BY <1>1
  <2> QED  BY <1>1, <2>1 DEF Keys
<1> QED  BY <1>2, <1>3, <1>4

\* What was spelled first stays so.
LEMMA FirstStays ==
  ASSUME NEW s \in Seq(Spelling), NEW w \in Spelling, NEW v, NEW k, IsFirst(v, k, s)
  PROVE  IsFirst(v, k, Append(s, w))
<1>1. /\ Len(s) \in Nat /\ DOMAIN s = 1..Len(s) /\ DOMAIN Append(s, w) = 1..(Len(s) + 1)
      /\ \A n \in 1..Len(s) : Append(s, w)[n] = s[n]
  OBVIOUS
<1>2. PICK n \in 1..Len(s) : /\ s[n] = v /\ Key(v) = k
                             /\ \A m \in 1..(n - 1) : Key(s[m]) # k
  BY <1>1 DEF IsFirst
<1>3. n \in DOMAIN Append(s, w) /\ Append(s, w)[n] = v
  BY <1>1, <1>2
<1>4. ASSUME NEW m \in 1..(n - 1)
      PROVE  Key(Append(s, w)[m]) # k
  <2>1. m \in 1..Len(s)
    BY <1>1
  <2> QED  BY <1>1, <1>2, <2>1
<1> QED  BY <1>2, <1>3, <1>4 DEF IsFirst

\* A word whose key is new is spelled first.
LEMMA FirstNow ==
  ASSUME NEW s \in Seq(Spelling), NEW w \in Spelling, Key(w) \notin Keys(s)
  PROVE  IsFirst(w, Key(w), Append(s, w))
<1>1. /\ Len(s) \in Nat /\ DOMAIN s = 1..Len(s) /\ DOMAIN Append(s, w) = 1..(Len(s) + 1)
      /\ \A n \in 1..Len(s) : Append(s, w)[n] = s[n]
      /\ Append(s, w)[Len(s) + 1] = w
  OBVIOUS
<1>2. ASSUME NEW m \in 1..((Len(s) + 1) - 1)
      PROVE  Key(Append(s, w)[m]) # Key(w)
  <2>1. m \in 1..Len(s)
    BY <1>1
  <2> QED  BY <1>1, <2>1 DEF Keys
<1>3. Len(s) + 1 \in DOMAIN Append(s, w)
  BY <1>1
<1> QED  BY <1>1, <1>2, <1>3 DEF IsFirst

\* A file of which nothing was read has no key.
LEMMA NoKeys == Keys(<<>>) = {}
BY DEF Keys

-----------------------------------------------------------------------------
(***************************************************************************)
(* An insertion.                                                           *)
(***************************************************************************)
\* The files whose common keys the dictionary has while one is read.
Before == IF file_iteration = 1 THEN 1 ELSE file_iteration - 1

\* What holds of the dictionary while a file is read.
Reading ==
  /\ file_iteration \in Nat \ {0} /\ Len(seen) = file_iteration /\ doomed = {}
  /\ seen \in Seq(Seq(Spelling))
  /\ dict \in [DOMAIN dict -> Entry] /\ DOMAIN dict \subseteq Spelling
  /\ IsFiniteSet(DOMAIN dict) /\ count \in Nat /\ size \in Nat /\ payloads \in Nat
  /\ RoomToReduce /\ NoneLost
  /\ DOMAIN dict = Common(Before)
  /\ \A k \in DOMAIN dict : Told(k)

\* Only the words of the file being read change, by one that is added at their end.
LEMMA SeenGrows ==
  ASSUME Reading, NEW w \in Spelling, file_iteration' = file_iteration,
         seen' = [seen EXCEPT ![file_iteration] = Append(@, w)]
  PROVE  /\ seen' \in Seq(Seq(Spelling)) /\ Len(seen') = Len(seen)
         /\ DOMAIN seen = 1..file_iteration /\ DOMAIN seen' = 1..file_iteration
         /\ file_iteration \in DOMAIN seen /\ 1 \in DOMAIN seen
         /\ \A j \in DOMAIN seen : seen[j] \in Seq(Spelling)
         /\ \A j \in DOMAIN seen : seen'[j] = IF j = file_iteration THEN Append(seen[j], w)
                                               ELSE seen[j]
         /\ \A j \in DOMAIN seen : Keys(seen'[j]) = IF j = file_iteration THEN Keys(seen[j]) \cup {Key(w)}
                                                     ELSE Keys(seen[j])
         /\ \A j \in DOMAIN seen : \A v, k : IsFirst(v, k, seen[j]) => IsFirst(v, k, seen'[j])
<1> HIDE DEF Spelling
<1>1. /\ seen \in Seq(Seq(Spelling)) /\ Len(seen) = file_iteration /\ file_iteration \in Nat \ {0}
  BY DEF Reading
<1>2. /\ DOMAIN seen = 1..file_iteration /\ \A j \in DOMAIN seen : seen[j] \in Seq(Spelling)
      /\ file_iteration \in DOMAIN seen /\ 1 \in DOMAIN seen
  BY <1>1
<1>3. Append(seen[file_iteration], w) \in Seq(Spelling)
  BY <1>2
<1>4. seen' \in Seq(Seq(Spelling)) /\ Len(seen') = Len(seen) /\ DOMAIN seen' = 1..file_iteration
  BY <1>1, <1>2, <1>3
<1>5. \A j \in DOMAIN seen : seen'[j] = IF j = file_iteration THEN Append(seen[j], w) ELSE seen[j]
  BY <1>2
<1>6. \A j \in DOMAIN seen : Keys(seen'[j]) = IF j = file_iteration THEN Keys(seen[j]) \cup {Key(w)}
                                              ELSE Keys(seen[j])
  BY <1>2, <1>5, KeysAppend
<1>7. \A j \in DOMAIN seen : \A v, k : IsFirst(v, k, seen[j]) => IsFirst(v, k, seen'[j])
  BY <1>2, <1>5, FirstStays
<1> QED  BY <1>2, <1>4, <1>5, <1>6, <1>7

\* An entry that an insertion leaves as it is stays told, unless the word added is the
\* first of its key in this file.
LEMMA ToldStays ==
  ASSUME Reading, NEW w \in Spelling, file_iteration' = file_iteration,
         seen' = [seen EXCEPT ![file_iteration] = Append(@, w)],
         NEW k \in DOMAIN dict, dict'[k] = dict[k],
         k = Key(w) => k \in Keys(seen[file_iteration])
  PROVE  Told(k)'
<1>1. Told(k)
  BY DEF Reading
<1>2. Keys(seen'[file_iteration]) \cap {k} = Keys(seen[file_iteration]) \cap {k}
  BY SeenGrows
<1>3. IsFirst(dict'[k].original, k, seen'[1])
  BY <1>1, SeenGrows DEF Told
<1>4. \A v \in dict'[k].variations : \E j \in DOMAIN seen' : IsFirst(v, k, seen'[j])
  BY <1>1, SeenGrows DEF Told, FirstSpellings
<1>5. ASSUME NEW j \in DOMAIN seen', k \in Keys(seen'[j])
      PROVE  \E v \in dict'[k].variations : IsFirst(v, k, seen'[j])
  <2>1. j \in DOMAIN seen
    BY SeenGrows
  <2>2. Keys(seen'[j]) = IF j = file_iteration THEN Keys(seen[j]) \cup {Key(w)} ELSE Keys(seen[j])
    BY <2>1, SeenGrows
  <2>3. k \in Keys(seen[j])
    BY <1>5, <2>2
  <2> QED  BY <1>1, <2>1, <2>3, SeenGrows DEF Told, FirstSpellings
<1>6. dict'[k].file_count = IF k \in Keys(seen'[file_iteration]) THEN file_iteration
                                                                ELSE file_iteration - 1
  BY <1>1, <1>2 DEF Told
<1> QED  BY <1>3, <1>4, <1>5, <1>6 DEF Told, FirstSpellings

\* The first file's new word: its key is new to the file as well.
LEMMA AddFirst ==
  ASSUME Reading, NEW w \in Spelling, file_iteration' = file_iteration, doomed' = doomed, size' = size,
         seen' = [seen EXCEPT ![file_iteration] = Append(@, w)],
         Key(w) \notin DOMAIN dict, file_iteration = 1,
         dict' = [k \in DOMAIN dict \cup {Key(w)} |->
                    IF k = Key(w) THEN [original |-> w, file_count |-> 1, variations |-> {w}]
                                  ELSE dict[k]],
         count' = count + 1, payloads' = payloads + 1
  PROVE  Reading'
<1>1. /\ dict \in [DOMAIN dict -> Entry] /\ DOMAIN dict \subseteq Spelling /\ IsFiniteSet(DOMAIN dict)
      /\ count \in Nat /\ size \in Nat /\ payloads \in Nat /\ doomed = {}
      /\ count >= Cardinality(DOMAIN dict) /\ size >= Cardinality(doomed)
      /\ payloads = Cardinality(DOMAIN dict) + Cardinality(doomed)
      /\ DOMAIN dict = Common(1) /\ Len(seen) = 1
  BY DEF Reading, RoomToReduce, NoneLost, Before
<1>2. DOMAIN dict' = DOMAIN dict \cup {Key(w)} /\ Key(w) \in Spelling
  BY KeyType
<1>3. [original |-> w, file_count |-> 1, variations |-> {w}] \in Entry
  BY DEF Entry
<1>4. dict' \in [DOMAIN dict' -> Entry]
  <2> HIDE DEF Entry
  <2> QED  BY <1>1, <1>2, <1>3
<1>5. /\ IsFiniteSet(DOMAIN dict') /\ Cardinality(DOMAIN dict') = Cardinality(DOMAIN dict) + 1
      /\ Cardinality(DOMAIN dict) \in Nat /\ Cardinality(doomed) = 0
  BY <1>1, <1>2, FS_AddElement, FS_CardinalityType, FS_EmptySet
<1>6. DOMAIN dict = Keys(seen[1]) /\ DOMAIN dict' = Common(Before)'
  <2>1. Keys(seen'[1]) = Keys(seen[1]) \cup {Key(w)}
    BY SeenGrows
  <2> QED  BY <1>1, <1>2, <2>1 DEF Common, Before
<1>7. ASSUME NEW k \in DOMAIN dict'
      PROVE  Told(k)'
  <2>1. CASE k # Key(w)
    <3>1. k \in DOMAIN dict /\ dict'[k] = dict[k]
      BY <1>2, <2>1
    <3> QED  BY <2>1, <3>1, ToldStays
  <2>2. CASE k = Key(w)
    <3>1. /\ dict'[k].original = w /\ dict'[k].variations = {w} /\ dict'[k].file_count = 1
      BY <1>2, <2>2
    <3>2. /\ seen[1] \in Seq(Spelling) /\ seen'[1] = Append(seen[1], w)
          /\ Keys(seen'[1]) = Keys(seen[1]) \cup {Key(w)} /\ DOMAIN seen' = 1..1
      BY SeenGrows
    <3>3. IsFirst(w, k, seen'[1])
      BY <1>6, <2>2, <3>2, FirstNow
    <3> QED  BY <2>2, <3>1, <3>2, <3>3 DEF Told, FirstSpellings
  <2> QED  BY <2>1, <2>2
<1>8. RoomToReduce' /\ NoneLost'
  BY <1>1, <1>5 DEF RoomToReduce, NoneLost
<1>9. seen' \in Seq(Seq(Spelling)) /\ Len(seen') = file_iteration'
  BY SeenGrows DEF Reading
<1>10. DOMAIN dict' \subseteq Spelling /\ doomed' = {}
  BY <1>1, <1>2
<1>11. count' \in Nat /\ size' \in Nat /\ payloads' \in Nat /\ file_iteration' \in Nat \ {0}
  BY <1>1
<1> QED  BY <1>4, <1>5, <1>6, <1>7, <1>8, <1>9, <1>10, <1>11 DEF Reading

\* The keys of the files before are as they were, and those of the first file if the
\* key of the word is one of them.
LEMMA CommonStays ==
  ASSUME Reading, NEW w \in Spelling, file_iteration' = file_iteration,
         seen' = [seen EXCEPT ![file_iteration] = Append(@, w)],
         file_iteration = 1 => Key(w) \in DOMAIN dict
  PROVE  Common(Before)' = Common(Before)
<1>1. /\ file_iteration \in Nat \ {0} /\ Len(seen) = file_iteration /\ DOMAIN dict = Common(Before)
  BY DEF Reading
<1>2. ASSUME NEW j \in 1..Before
      PROVE  Keys(seen'[j]) = Keys(seen[j])
  <2>1. CASE file_iteration = 1
    <3>1. j = 1 /\ Key(w) \in Keys(seen[1])
      BY <1>1, <2>1 DEF Before, Common
    <3>2. Keys(seen'[1]) = Keys(seen[1]) \cup {Key(w)}
      BY <2>1, SeenGrows
    <3> QED  BY <3>1, <3>2
  <2>2. CASE file_iteration # 1
    <3>1. j \in DOMAIN seen /\ j # file_iteration
      BY <1>1, <2>2, SeenGrows DEF Before
    <3> QED  BY <3>1, SeenGrows
  <2> QED  BY <2>1, <2>2
<1>3. 1 \in 1..Before /\ Before' = Before
  BY <1>1 DEF Before
<1> QED  BY <1>2, <1>3 DEF Common

\* An insertion that leaves the dictionary as it is: of a key no file before this one
\* has had in common, or of one this file had before.
LEMMA AddNothing ==
  ASSUME Reading, NEW w \in Spelling, file_iteration' = file_iteration, doomed' = doomed, size' = size,
         seen' = [seen EXCEPT ![file_iteration] = Append(@, w)],
         dict' = dict, payloads' = payloads, count' \in {count, count + 1},
         \/ Key(w) \notin DOMAIN dict /\ file_iteration # 1
         \/ Key(w) \in DOMAIN dict /\ dict[Key(w)].file_count = file_iteration
  PROVE  Reading'
<1>1. DOMAIN dict' = Common(Before)'
  BY CommonStays DEF Reading
<1>2. Key(w) \in DOMAIN dict => Key(w) \in Keys(seen[file_iteration])
  BY DEF Reading, Told
<1>3. \A k \in DOMAIN dict' : Told(k)'
  BY <1>2, ToldStays
<1>4. RoomToReduce' /\ NoneLost' /\ count' \in Nat
  <2>1. Cardinality(DOMAIN dict) \in Nat
    BY FS_CardinalityType DEF Reading
  <2> QED  BY <2>1 DEF Reading, RoomToReduce, NoneLost
<1>5. seen' \in Seq(Seq(Spelling)) /\ Len(seen') = file_iteration'
  BY SeenGrows DEF Reading
<1> QED  BY <1>1, <1>3, <1>4, <1>5 DEF Reading

\* The first match of this file: its spelling joins the variations.
LEMMA AddMatch ==
  ASSUME Reading, NEW w \in Spelling, file_iteration' = file_iteration, doomed' = doomed, size' = size,
         seen' = [seen EXCEPT ![file_iteration] = Append(@, w)],
         add_match(w)
  PROVE  Reading'
<1> DEFINE key == Key(w)
           new == [dict[key] EXCEPT !.file_count = file_iteration, !.variations = @ \cup {w}]
<1>1. /\ key \in DOMAIN dict /\ dict[key].file_count # file_iteration
      /\ count' = count /\ payloads' = payloads
      /\ dict' = [dict EXCEPT ![key] = new]
  BY DEF add_match
<1>2. file_iteration \in Nat \ {0} /\ dict \in [DOMAIN dict -> Entry]
  BY DEF Reading
<1>3. dict[key] \in Entry
  BY <1>1, <1>2
<1>4. /\ dict'[key].original = dict[key].original /\ dict'[key].file_count = file_iteration
      /\ dict'[key].variations = dict[key].variations \cup {w} /\ dict'[key] \in Entry
  <2>1. dict'[key] = new
    <3> HIDE DEF key, new, Entry
    <3> QED  BY <1>1, <1>2
  <2>2. PICK e \in Entry : e = dict[key]
    BY <1>3
  <2>3. dict'[key] = [original |-> e.original, file_count |-> file_iteration,
                      variations |-> e.variations \cup {w}]
    BY <2>1, <2>2 DEF Entry
  <2>4. e.original \in Spelling /\ e.variations \in SUBSET Spelling
    BY DEF Entry
  <2> HIDE DEF key, new
  <2> QED  BY <1>2, <2>2, <2>3, <2>4 DEF Entry
<1>5. /\ DOMAIN dict' = DOMAIN dict /\ dict' \in [DOMAIN dict' -> Entry]
      /\ \A k \in DOMAIN dict : k # key => dict'[k] = dict[k]
  <2> HIDE DEF Entry, key, new
  <2> QED  BY <1>1, <1>2, <1>4
<1>6. DOMAIN dict' = Common(Before)'
  BY <1>1, <1>5, CommonStays DEF Reading
<1>7. ASSUME NEW k \in DOMAIN dict'
      PROVE  Told(k)'
  <2>1. CASE k # key
    BY <1>5, <2>1, ToldStays
  <2>2. CASE k = key
    <3>1. Told(key)
      BY <1>1 DEF Reading
    <3>2. key \notin Keys(seen[file_iteration])
      BY <1>1, <3>1 DEF Told
    <3>3. IsFirst(w, key, seen'[file_iteration]) /\ key \in Keys(seen'[file_iteration])
      BY <3>2, SeenGrows, FirstNow
    <3>4. IsFirst(dict'[key].original, key, seen'[1])
      BY <1>4, <3>1, SeenGrows DEF Told
    <3>5. \A v \in dict'[key].variations : \E j \in DOMAIN seen' : IsFirst(v, key, seen'[j])
      <4> SUFFICES ASSUME NEW v \in dict'[key].variations
                   PROVE  \E j \in DOMAIN seen' : IsFirst(v, key, seen'[j])
        OBVIOUS
      <4>1. CASE v = w
        <5>1. file_iteration \in DOMAIN seen'
          BY SeenGrows
        <5> QED  BY <3>3, <4>1, <5>1
      <4>2. CASE v # w
        <5>1. PICK j \in DOMAIN seen : IsFirst(v, key, seen[j])
          BY <1>4, <3>1, <4>2 DEF Told, FirstSpellings
        <5>2. j \in DOMAIN seen' /\ IsFirst(v, key, seen'[j])
          BY <5>1, SeenGrows
        <5> QED  BY <5>2
      <4> QED  BY <4>1, <4>2
    <3>6. ASSUME NEW j \in DOMAIN seen', key \in Keys(seen'[j])
          PROVE  \E v \in dict'[key].variations : IsFirst(v, key, seen'[j])
      <4>1. CASE j = file_iteration
        BY <1>4, <3>3, <4>1
      <4>2. CASE j # file_iteration
        <5>1. j \in DOMAIN seen /\ key \in Keys(seen[j])
          BY <3>6, <4>2, SeenGrows
        <5> QED  BY <1>4, <3>1, <5>1, SeenGrows DEF Told, FirstSpellings
      <4> QED  BY <4>1, <4>2
    <3> HIDE DEF key
    <3> QED  BY <1>4, <2>2, <3>3, <3>4, <3>5, <3>6 DEF Told, FirstSpellings
  <2> QED  BY <2>1, <2>2
<1>8. seen' \in Seq(Seq(Spelling)) /\ Len(seen') = file_iteration'
  BY SeenGrows DEF Reading
<1> QED  BY <1>1, <1>5, <1>6, <1>7, <1>8 DEF Reading, RoomToReduce, NoneLost

\* Whatever the word, an insertion keeps the dictionary told.
LEMMA PutInv ==
  ASSUME Reading, NEW w \in Spelling, file_iteration' = file_iteration, doomed' = doomed, size' = size,
         put_key_val_adv(w)
  PROVE  Reading'
<1>1. seen' = [seen EXCEPT ![file_iteration] = Append(@, w)]
  BY DEF put_key_val_adv
<1>2. CASE add_new(w)
  BY <1>1, <1>2, AddFirst, AddNothing DEF add_new, dictionary
<1>3. CASE add_again(w)
  BY <1>1, <1>3, AddNothing DEF add_again
<1>4. CASE add_match(w)
  BY <1>1, <1>4, AddMatch
<1> QED  BY <1>2, <1>3, <1>4 DEF put_key_val_adv

-----------------------------------------------------------------------------
(***************************************************************************)
(* The invariant.                                                          *)
(***************************************************************************)
\* While a file is read the invariant is what Reading says, and some types.
LEMMA InvReads ==
  ASSUME IntersectInv, stage = "read"
  PROVE  Reading
BY DEF IntersectInv, IntersectTypeOK, KeysInCommon, EntriesTold, Reading, Before

\* No file: no key.
LEMMA NothingThere == /\ DOMAIN Nothing = {} /\ Nothing \in [DOMAIN Nothing -> Entry]
                      /\ IsFiniteSet(DOMAIN Nothing) /\ Cardinality(DOMAIN Nothing) = 0
BY FS_EmptySet DEF Nothing

LEMMA InitInv == Init => IntersectInv
<1> SUFFICES ASSUME Init
             PROVE  IntersectInv
  OBVIOUS
<1>1. argv \in Seq(Texts \cup {Missing})
  BY DEF Init
<1>2. IntersectTypeOK
  <2>1. seen = <<>> /\ Len(seen) = 0 /\ seen \in Seq(Seq(Spelling)) /\ files \in Seq(Texts) /\ Len(files) = 0
    BY DEF Init
  <2>2. text \in Seq(Char)
    BY DEF Init
  <2> QED  BY <1>1, <2>1, <2>2, NothingThere DEF Init, IntersectTypeOK
<1>3. RoomToReduce /\ NoneLost
  BY FS_EmptySet, NothingThere DEF Init, RoomToReduce, NoneLost
<1>4. KeysInCommon /\ EntriesTold /\ Printed
  BY DEF Init, KeysInCommon, EntriesTold, Printed
<1> QED  BY <1>2, <1>3, <1>4 DEF IntersectInv

\* The words added, all that the invariant says follows from Reading again.
LEMMA ReadsInv ==
  ASSUME IntersectInv, stage = "read", Reading',
         UNCHANGED <<command, index, files, file_iteration, reduction, output>>,
         stage' \in {"read", AfterFile},
         text' \in Seq(Char), pos' \in Nat, word_start' \in Nat, word_end' \in Nat
  PROVE  IntersectInv'
<1> USE DEF command, reduction
<1>1. Reading /\ IntersectTypeOK
  BY InvReads DEF IntersectInv
<1>2. stage' \in {"read", "reduce", "open"} /\ (stage' = "open" => file_iteration' = 1)
  BY <1>1 DEF AfterFile, Reading
<1>3. IntersectTypeOK'
  <2>1. /\ argv' \in Seq(Texts \cup {Missing}) /\ print_all' \in BOOLEAN
        /\ index' \in Nat \ {0} /\ files' \in Seq(Texts) /\ file_iteration' \in 0..Len(files')
    BY <1>1 DEF IntersectTypeOK
  <2>2. doomed' = {} /\ file_iteration' > 0
    BY <1>1 DEF Reading
  <2> QED  BY <1>2, <2>1, <2>2 DEF IntersectTypeOK, Reading
<1>4. KeysInCommon'
  BY <1>2 DEF KeysInCommon, Reading, Before
<1>5. RoomToReduce' /\ NoneLost' /\ EntriesTold' /\ Printed'
  BY <1>2 DEF Reading, EntriesTold, Printed
<1> QED  BY <1>3, <1>4, <1>5 DEF IntersectInv

\* A step that changes nothing the invariant is about but the command line's loop.
LEMMA ParseArgsInv == IntersectInv /\ parse_args => IntersectInv'
<1> SUFFICES ASSUME IntersectInv, parse_args
             PROVE  IntersectInv'
  OBVIOUS
<1> USE DEF command, dictionary, reduction, parser
<1>1. /\ UNCHANGED <<argv, print_all, file_iteration, dict, count, payloads, doomed, size, output, seen>>
      /\ UNCHANGED <<text, pos, word_start, word_end>>
      /\ stage = "args" /\ stage' \in {"args", "open"} /\ IntersectTypeOK /\ file_iteration = 0
      /\ dict = Nothing
  BY DEF parse_args, IntersectInv, IntersectTypeOK, KeysInCommon
<1>2. files' \in Seq(Texts) /\ index' \in Nat \ {0}
  <2>1. CASE index <= Len(argv) /\ argv[index] # Missing
    <3>1. argv[index] \in Texts
      BY <1>1, <2>1 DEF IntersectTypeOK
    <3>3. files \in Seq(Texts) /\ index \in Nat \ {0} /\ Len(argv) \in Nat
      BY <1>1 DEF IntersectTypeOK
    <3>2. files' = Append(files, argv[index]) /\ index' = index + 1
      BY <2>1, <3>3 DEF parse_args
    <3> QED  BY <3>1, <3>2, <3>3
  <2>2. CASE ~(index <= Len(argv) /\ argv[index] # Missing)
    BY <1>1, <2>2 DEF parse_args, IntersectTypeOK
  <2> QED  BY <2>1, <2>2
<1>3. IntersectTypeOK'
  BY <1>1, <1>2 DEF IntersectTypeOK
<1>4. RoomToReduce' /\ NoneLost' /\ KeysInCommon' /\ EntriesTold' /\ Printed'
  BY <1>1, NothingThere
     DEF IntersectInv, RoomToReduce, NoneLost, KeysInCommon, EntriesTold, Printed
<1> QED  BY <1>3, <1>4 DEF IntersectInv

\* What is read of a file is a word, and the dictionary stays told of it.
LEMMA ReadInv == IntersectInv /\ read => IntersectInv'
<1> SUFFICES ASSUME IntersectInv, read
             PROVE  IntersectInv'
  OBVIOUS
<1> USE DEF reduction
<1>1. Reading /\ IntersectTypeOK /\ stage = "read"
  BY InvReads DEF IntersectInv, read
<1>2. Reading'
  <2>1. CASE UNCHANGED <<dictionary, seen>>
    BY <1>1, <2>1
       DEF Reading, RoomToReduce, NoneLost, Common, Before, Told, FirstSpellings, read, dictionary
  <2>2. CASE put_key_val_adv(Word)
    <3>1. Word \in Spelling
      BY <1>1, WordType DEF IntersectTypeOK
    <3> QED  BY <1>1, <2>2, <3>1, PutInv DEF read
  <2> QED  BY <2>1, <2>2 DEF read
<1>3. text' \in Seq(Char) /\ pos' \in Nat /\ word_start' \in Nat /\ word_end' \in Nat
  <2>1. text' = text /\ (letter \/ blank \/ separator)
    BY DEF read, letter, blank, separator
  <2>2. pos' \in Nat /\ word_start' \in Nat /\ word_end' \in Nat
    <3>1. pos \in Nat /\ word_start \in Nat /\ word_end \in Nat
      BY <1>1 DEF IntersectTypeOK
    <3>2. CASE letter
      <4>1. PICK c \in Char : pos' = pos + Bytes[c]
        BY <3>2 DEF letter
      <4>2. Bytes[c] \in 1..4
        OBVIOUS
      <4>3. word_end' = word_end + 1 /\ word_start' = word_start
        BY <3>2 DEF letter
      <4> QED  BY <3>1, <4>1, <4>2, <4>3
    <3>3. CASE blank
      BY <3>1, <3>3 DEF blank
    <3>4. CASE separator
      BY <3>1, <3>4 DEF separator, Seek
    <3> QED  BY <2>1, <3>2, <3>3, <3>4
  <2> QED  BY <1>1, <2>1, <2>2 DEF IntersectTypeOK
<1> QED  BY <1>1, <1>2, <1>3, ReadsInv DEF read

\* So is the last word of a file, if the file does not end behind white space.
LEMMA ReadEndInv == IntersectInv /\ read_end => IntersectInv'
<1> SUFFICES ASSUME IntersectInv, read_end
             PROVE  IntersectInv'
  OBVIOUS
<1> USE DEF reduction, parser
<1>1. Reading /\ IntersectTypeOK /\ stage = "read"
  BY InvReads DEF IntersectInv, read_end
<1>2. Reading'
  <2>1. CASE UNCHANGED <<dictionary, seen>>
    BY <1>1, <2>1
       DEF Reading, RoomToReduce, NoneLost, Common, Before, Told, FirstSpellings, read_end, dictionary
  <2>2. CASE put_key_val_adv(Word)
    <3>1. Word \in Spelling
      BY <1>1, WordType DEF IntersectTypeOK
    <3> QED  BY <1>1, <2>2, <3>1, PutInv DEF read_end
  <2> QED  BY <2>1, <2>2 DEF read_end
<1>3. text' \in Seq(Char) /\ pos' \in Nat /\ word_start' \in Nat /\ word_end' \in Nat
  BY <1>1 DEF IntersectTypeOK, read_end
<1> QED  BY <1>1, <1>2, <1>3, ReadsInv DEF read_end

\* A file is opened, of which no word has been read: the keys the files before it have
\* in common are told by it.
LEMMA OpenInv == IntersectInv /\ open => IntersectInv'
<1> SUFFICES ASSUME IntersectInv, open
             PROVE  IntersectInv'
  OBVIOUS
<1> USE DEF command, dictionary, reduction
<1>1. /\ UNCHANGED <<argv, print_all, index, files, dict, count, payloads, doomed, size, output>>
      /\ stage = "open" /\ IntersectTypeOK /\ file_iteration < Len(files)
      /\ file_iteration' = file_iteration + 1 /\ doomed = {}
      /\ file_iteration \in Nat /\ Len(seen) = file_iteration /\ seen \in Seq(Seq(Spelling))
  BY DEF open, IntersectInv, IntersectTypeOK
<1>2. RoomToReduce' /\ NoneLost'
  BY <1>1 DEF IntersectInv, RoomToReduce, NoneLost
<1>3. CASE stage' = "died"
  <2>1. UNCHANGED <<seen, text, pos, word_start, word_end>>
    BY <1>3 DEF open, parser
  <2>2. IntersectTypeOK'
    BY <1>1, <1>3, <2>1 DEF IntersectTypeOK
  <2>3. KeysInCommon' /\ EntriesTold' /\ Printed'
    BY <1>1, <1>3 DEF KeysInCommon, EntriesTold, Printed
  <2> QED  BY <1>2, <2>2, <2>3 DEF IntersectInv
<1>4. CASE stage' # "died"
  <2>1. stage' = "read" /\ seen' = Append(seen, <<>>) /\ parse_file(files[file_iteration'])
    BY <1>1, <1>4 DEF open
  <2>2. /\ seen' \in Seq(Seq(Spelling)) /\ Len(seen') = file_iteration'
        /\ DOMAIN seen = 1..file_iteration /\ DOMAIN seen' = 1..file_iteration'
        /\ \A j \in DOMAIN seen : j \in DOMAIN seen' /\ seen'[j] = seen[j]
        /\ seen'[file_iteration'] = <<>>
    <3>1. <<>> \in Seq(Spelling)
      OBVIOUS
    <3> HIDE DEF Spelling
    <3> QED  BY <1>1, <2>1, <3>1
  <2>3. IntersectTypeOK'
    <3>1. text' \in Seq(Char) /\ pos' \in Nat /\ word_start' \in Nat /\ word_end' \in Nat
      <4>1. files[file_iteration'] \in Texts
        BY <1>1 DEF IntersectTypeOK
      <4> QED  BY <2>1, <4>1 DEF parse_file
    <3>2. file_iteration' \in 0..Len(files') /\ file_iteration' > 0
      BY <1>1
    <3> QED  BY <1>1, <2>1, <2>2, <3>1, <3>2 DEF IntersectTypeOK
  <2>4. CASE file_iteration = 0
    <3>1. dict = Nothing /\ file_iteration' = 1
      BY <1>1, <2>4 DEF IntersectInv, KeysInCommon
    <3>2. Keys(seen'[1]) = {}
      BY <2>2, <3>1, NoKeys
    <3>3. DOMAIN dict' = Common(1)'
      BY <1>1, <3>1, <3>2, NothingThere DEF Common
    <3>4. KeysInCommon'
      BY <2>1, <3>1, <3>3 DEF KeysInCommon
    <3>5. EntriesTold' /\ Printed'
      BY <1>1, <2>1, <3>1, NothingThere DEF EntriesTold, Printed
    <3> QED  BY <1>2, <2>3, <3>4, <3>5 DEF IntersectInv
  <2>5. CASE file_iteration # 0
    <3>1. /\ DOMAIN dict = Common(file_iteration) /\ \A k \in DOMAIN dict : Told(k)
          /\ 1 \in DOMAIN seen /\ file_iteration' # 1 /\ file_iteration' - 1 = file_iteration
      BY <1>1, <2>2, <2>5 DEF IntersectInv, KeysInCommon, EntriesTold
    <3>2. \A j \in 1..file_iteration : Keys(seen'[j]) = Keys(seen[j])
      BY <2>2
    <3>3. DOMAIN dict' = Common(IF file_iteration = 1 THEN 1 ELSE file_iteration - 1)'
      BY <1>1, <2>2, <3>1, <3>2 DEF Common
    <3>4. KeysInCommon'
      BY <1>1, <2>1, <3>3 DEF KeysInCommon
    <3>5. ASSUME NEW k \in DOMAIN dict'
          PROVE  Told(k)'
      <4>1. Told(k) /\ k \in Keys(seen[file_iteration])
        BY <1>1, <2>5, <3>1, <3>5 DEF Common
      <4>2. k \notin Keys(seen'[file_iteration'])
        BY <2>2, NoKeys
      <4>3. dict'[k].file_count = file_iteration /\ dict'[k] = dict[k]
        BY <1>1, <4>1 DEF Told
      <4>4. IsFirst(dict'[k].original, k, seen'[1])
        BY <2>2, <3>1, <4>1, <4>3 DEF Told
      <4>5. \A v \in dict'[k].variations : \E j \in DOMAIN seen' : IsFirst(v, k, seen'[j])
        BY <2>2, <4>1, <4>3 DEF Told, FirstSpellings
      <4>6. ASSUME NEW j \in DOMAIN seen', k \in Keys(seen'[j])
            PROVE  \E v \in dict'[k].variations : IsFirst(v, k, seen'[j])
        <5>1. j \in DOMAIN seen
          BY <1>1, <2>2, <4>2, <4>6
        <5> QED  BY <2>2, <4>1, <4>3, <4>6, <5>1 DEF Told, FirstSpellings
      <4> QED  BY <3>1, <4>2, <4>3, <4>4, <4>5, <4>6 DEF Told, FirstSpellings
    <3>6. EntriesTold' /\ Printed'
      BY <2>1, <3>5 DEF EntriesTold, Printed
    <3> QED  BY <1>2, <2>3, <3>4, <3>6 DEF IntersectInv
  <2> QED  BY <2>4, <2>5
<1> QED  BY <1>3, <1>4

\* The keys in common with one more file.
LEMMA CommonNext ==
  ASSUME file_iteration \in Nat \ {0}
  PROVE  Common(file_iteration) = {k \in Common(Before) : k \in Keys(seen[file_iteration])}
BY DEF Common, Before

\* The keys to be removed are those the file has not.
LEMMA ReduceInv == IntersectInv /\ intersect_reduce => IntersectInv'
<1> SUFFICES ASSUME IntersectInv, intersect_reduce
             PROVE  IntersectInv'
  OBVIOUS
<1> USE DEF command, parser
<1>1. /\ UNCHANGED <<argv, print_all, index, files, file_iteration, dict, count, output, seen>>
      /\ UNCHANGED <<text, pos, word_start, word_end>>
      /\ stage = "reduce" /\ stage' = "remove" /\ size' = count
      /\ doomed' = {k \in DOMAIN dict : dict[k].file_count # file_iteration}
      /\ payloads' = payloads + Cardinality(doomed')
  BY DEF intersect_reduce
<1>2. /\ IntersectTypeOK /\ file_iteration \in Nat \ {0} /\ doomed = {}
      /\ IsFiniteSet(DOMAIN dict) /\ count \in Nat /\ payloads \in Nat
      /\ DOMAIN dict = Common(Before) /\ \A k \in DOMAIN dict : Told(k)
      /\ count >= Cardinality(DOMAIN dict) /\ payloads = Cardinality(DOMAIN dict) + Cardinality(doomed)
  BY <1>1
     DEF IntersectInv, IntersectTypeOK, KeysInCommon, EntriesTold, Before, RoomToReduce, NoneLost
<1>3. /\ doomed' \subseteq DOMAIN dict /\ IsFiniteSet(doomed') /\ Cardinality(doomed') \in Nat
      /\ Cardinality(doomed') <= Cardinality(DOMAIN dict) /\ Cardinality(DOMAIN dict) \in Nat
      /\ Cardinality(doomed) = 0
  <2>1. doomed' \subseteq DOMAIN dict
    BY <1>1
  <2> QED  BY <1>2, <2>1, FS_Subset, FS_CardinalityType, FS_EmptySet
<1>4. RoomToReduce' /\ NoneLost'
  BY <1>1, <1>2, <1>3 DEF RoomToReduce, NoneLost
<1>5. IntersectTypeOK'
  <2>1. doomed' \subseteq DOMAIN dict' /\ size' \in Nat /\ payloads' \in Nat /\ file_iteration > 0
    BY <1>1, <1>2, <1>3
  <2> QED  BY <1>1, <1>2, <2>1 DEF IntersectTypeOK
<1>6. KeysInCommon'
  <2>1. Common(file_iteration) = {k \in DOMAIN dict : k \in Keys(seen[file_iteration])}
    BY <1>2, CommonNext
  <2>2. doomed' = {k \in DOMAIN dict : k \notin Keys(seen[file_iteration])}
    BY <1>1, <1>2 DEF Told
  <2>3. Common(file_iteration)' = Common(file_iteration)
    BY <1>1 DEF Common
  <2>4. DOMAIN dict = Common(file_iteration) \cup doomed' /\ Common(file_iteration) \cap doomed' = {}
    BY <2>1, <2>2
  <2>5. DOMAIN dict' = Common(file_iteration)' \cup doomed' /\ Common(file_iteration)' \cap doomed' = {}
    <3>1. dict' = dict
      BY <1>1
    <3> QED  BY <2>3, <2>4, <3>1
  <2> QED  BY <1>1, <1>2, <2>5 DEF KeysInCommon
<1>7. EntriesTold' /\ Printed'
  BY <1>1, <1>2 DEF EntriesTold, Printed, Told, FirstSpellings
<1> QED  BY <1>4, <1>5, <1>6, <1>7 DEF IntersectInv

\* Each removal takes one key, its payload and the copy.
LEMMA RemoveInv == IntersectInv /\ remove_key_val => IntersectInv'
<1> SUFFICES ASSUME IntersectInv, remove_key_val
             PROVE  IntersectInv'
  OBVIOUS
<1> USE DEF command, parser
<1>1. PICK k \in doomed : /\ dict' = [j \in DOMAIN dict \ {k} |-> dict[j]]
                          /\ doomed' = doomed \ {k}
  BY DEF remove_key_val
<1>2. /\ UNCHANGED <<argv, print_all, index, files, file_iteration, stage, size, output, seen>>
      /\ UNCHANGED <<text, pos, word_start, word_end>>
      /\ stage = "remove" /\ count' = count - 1 /\ payloads' = payloads - 2
  BY DEF remove_key_val
<1>3. /\ IntersectTypeOK /\ file_iteration \in Nat \ {0} /\ doomed \subseteq DOMAIN dict
      /\ IsFiniteSet(DOMAIN dict) /\ count \in Nat /\ payloads \in Nat /\ size \in Nat
      /\ dict \in [DOMAIN dict -> Entry] /\ DOMAIN dict \subseteq Spelling
      /\ DOMAIN dict = Common(file_iteration) \cup doomed /\ Common(file_iteration) \cap doomed = {}
      /\ \A j \in DOMAIN dict : Told(j)
      /\ count >= Cardinality(DOMAIN dict) /\ payloads = Cardinality(DOMAIN dict) + Cardinality(doomed)
      /\ size >= Cardinality(doomed)
  <2>1. IntersectTypeOK /\ KeysInCommon /\ EntriesTold /\ RoomToReduce /\ NoneLost
    BY DEF IntersectInv
  <2>2. /\ file_iteration \in Nat \ {0} /\ doomed \subseteq DOMAIN dict
        /\ IsFiniteSet(DOMAIN dict) /\ count \in Nat /\ payloads \in Nat /\ size \in Nat
        /\ dict \in [DOMAIN dict -> Entry] /\ DOMAIN dict \subseteq Spelling
    <3>1. file_iteration \in 0..Len(files) /\ file_iteration > 0 /\ files \in Seq(Texts)
      BY <1>2, <2>1 DEF IntersectTypeOK
    <3>2. /\ doomed \subseteq DOMAIN dict
          /\ IsFiniteSet(DOMAIN dict) /\ count \in Nat /\ payloads \in Nat /\ size \in Nat
          /\ dict \in [DOMAIN dict -> Entry] /\ DOMAIN dict \subseteq Spelling
      <4> HIDE DEF Entry, Spelling
      <4> QED  BY <2>1 DEF IntersectTypeOK
    <3> QED  BY <3>1, <3>2
  <2>3. DOMAIN dict = Common(file_iteration) \cup doomed /\ Common(file_iteration) \cap doomed = {}
    BY <1>2, <2>1 DEF KeysInCommon
  <2>4. \A j \in DOMAIN dict : Told(j)
    BY <1>2, <2>1 DEF EntriesTold
  <2>5. /\ count >= Cardinality(DOMAIN dict) /\ payloads = Cardinality(DOMAIN dict) + Cardinality(doomed)
        /\ size >= Cardinality(doomed)
    BY <2>1 DEF RoomToReduce, NoneLost
  <2> QED  BY <2>1, <2>2, <2>3, <2>4, <2>5
<1>4. DOMAIN dict' = DOMAIN dict \ {k} /\ \A j \in DOMAIN dict' : dict'[j] = dict[j]
  BY <1>1
<1>5. /\ IsFiniteSet(DOMAIN dict') /\ Cardinality(DOMAIN dict') = Cardinality(DOMAIN dict) - 1
      /\ Cardinality(doomed') = Cardinality(doomed) - 1
      /\ Cardinality(DOMAIN dict) \in Nat /\ Cardinality(doomed) \in Nat
      /\ Cardinality(DOMAIN dict') \in Nat /\ Cardinality(doomed') \in Nat
  <2>1. IsFiniteSet(doomed)
    BY <1>3, FS_Subset
  <2>2. k \in DOMAIN dict
    BY <1>3
  <2>3. IsFiniteSet(DOMAIN dict') /\ IsFiniteSet(doomed')
    BY <1>1, <1>3, <1>4, <2>1, FS_RemoveElement
  <2> QED  BY <1>1, <1>3, <1>4, <2>1, <2>2, <2>3, FS_RemoveElement, FS_CardinalityType
<1>6. RoomToReduce' /\ NoneLost'
  <2> DEFINE n == Cardinality(DOMAIN dict)
             m == Cardinality(doomed)
             rest == Cardinality(DOMAIN dict')
             left == Cardinality(doomed')
  <2>1. /\ n \in Nat /\ m \in Nat /\ rest = n - 1 /\ left = m - 1
    BY <1>5
  <2>2. count \in Nat /\ size \in Nat /\ payloads = n + m /\ count >= n /\ size >= m
    BY <1>3
  <2>3. count' = count - 1 /\ payloads' = payloads - 2 /\ size' = size
    BY <1>2
  <2> HIDE DEF n, m, rest, left
  <2>4. count' >= rest /\ size' >= left /\ payloads' = rest + left
    BY <2>1, <2>2, <2>3
  <2> QED  BY <2>4 DEF RoomToReduce, NoneLost, rest, left
<1>7. IntersectTypeOK'
  <2>1. dict' \in [DOMAIN dict' -> Entry] /\ DOMAIN dict' \subseteq Spelling /\ doomed' \subseteq DOMAIN dict'
    <3> HIDE DEF Entry, Spelling
    <3> QED  BY <1>1, <1>3, <1>4
  <2>2. count' \in Nat /\ size' \in Nat /\ payloads' \in Nat /\ file_iteration > 0
    BY <1>2, <1>3, <1>5
  <2>3. IsFiniteSet(DOMAIN dict')
    BY <1>5
  <2> QED  BY <1>2, <1>3, <2>1, <2>2, <2>3 DEF IntersectTypeOK
<1>8. KeysInCommon'
  <2>1. Common(file_iteration)' = Common(file_iteration)
    BY <1>2 DEF Common
  <2>2. DOMAIN dict' = Common(file_iteration)' \cup doomed' /\ Common(file_iteration)' \cap doomed' = {}
    BY <1>1, <1>3, <1>4, <2>1
  <2> QED  BY <1>2, <1>3, <2>2 DEF KeysInCommon
<1>9. EntriesTold' /\ Printed'
  BY <1>2, <1>3, <1>4 DEF EntriesTold, Printed, Told, FirstSpellings
<1> QED  BY <1>6, <1>7, <1>8, <1>9 DEF IntersectInv

\* With the last of them gone, what is left is what the files have in common.
LEMMA ReducedInv == IntersectInv /\ reduced => IntersectInv'
<1> SUFFICES ASSUME IntersectInv, reduced
             PROVE  IntersectInv'
  OBVIOUS
<1> USE DEF command, dictionary, reduction, parser
<1>1. /\ UNCHANGED <<argv, print_all, index, files, file_iteration, dict, count, payloads, doomed, size, output, seen>>
      /\ UNCHANGED <<text, pos, word_start, word_end>>
      /\ stage = "remove" /\ stage' = "open" /\ doomed = {}
  BY DEF reduced
<1>2. IntersectTypeOK'
  BY <1>1 DEF IntersectInv, IntersectTypeOK
<1>3. RoomToReduce' /\ NoneLost' /\ Printed'
  BY <1>1 DEF IntersectInv, RoomToReduce, NoneLost, Printed
<1>4. KeysInCommon' /\ EntriesTold'
  BY <1>1 DEF IntersectInv, KeysInCommon, EntriesTold, Common, Told, FirstSpellings
<1> QED  BY <1>2, <1>3, <1>4 DEF IntersectInv

\* What is printed is the dictionary, which is freed.
LEMMA FinishInv == IntersectInv /\ finish => IntersectInv'
<1> SUFFICES ASSUME IntersectInv, finish
             PROVE  IntersectInv'
  OBVIOUS
<1> USE DEF command, parser, reduction
<1>1. /\ UNCHANGED <<argv, print_all, index, files, file_iteration, doomed, size, seen>>
      /\ UNCHANGED <<text, pos, word_start, word_end>>
      /\ stage = "open" /\ stage' = "ended"
      /\ output' = [k \in DOMAIN dict |-> intersect_print(k)] /\ dict' = Nothing /\ count' = 0
      /\ payloads' = payloads - Cardinality(DOMAIN dict)
  BY DEF finish
<1>2. /\ IntersectTypeOK /\ doomed = {} /\ Len(seen) = file_iteration /\ file_iteration \in Nat
      /\ payloads = Cardinality(DOMAIN dict) + Cardinality(doomed) /\ IsFiniteSet(DOMAIN dict)
      /\ file_iteration = 0 => dict = Nothing
      /\ file_iteration > 0 => DOMAIN dict = Common(file_iteration)
      /\ \A k \in DOMAIN dict : Told(k)
  BY <1>1 DEF IntersectInv, IntersectTypeOK, KeysInCommon, EntriesTold, NoneLost
<1>3. Cardinality(DOMAIN dict) \in Nat /\ Cardinality(doomed) = 0
  BY <1>2, FS_CardinalityType, FS_EmptySet
<1>4. payloads' = 0 /\ Cardinality(DOMAIN dict') = 0
  BY <1>1, <1>2, <1>3, NothingThere
<1>5. RoomToReduce' /\ NoneLost'
  <2>1. size \in Nat /\ size' = size /\ count' = 0 /\ Cardinality(doomed') = 0
    BY <1>1, <1>2, <1>3 DEF IntersectTypeOK
  <2>2. RoomToReduce'
    BY <1>4, <2>1 DEF RoomToReduce
  <2>3. NoneLost'
    BY <1>4, <2>1 DEF NoneLost
  <2> QED  BY <2>2, <2>3
<1>6. IntersectTypeOK'
  BY <1>1, <1>2, <1>4, NothingThere DEF IntersectTypeOK
<1>7. KeysInCommon' /\ EntriesTold'
  BY <1>1 DEF KeysInCommon, EntriesTold
<1>8. Printed'
  <2>1. seen \in Seq(Seq(Spelling)) /\ DOMAIN seen = 1..file_iteration
    BY <1>2 DEF IntersectTypeOK
  <2>2. DOMAIN output' = DOMAIN dict /\ \A k \in DOMAIN dict : output'[k] = intersect_print(k)
    BY <1>1
  <2>3. DOMAIN output' = IF seen = <<>> THEN {} ELSE Common(Len(seen))
    BY <1>2, <2>1, <2>2, NothingThere
  <2>4. ASSUME NEW k \in DOMAIN dict
        PROVE  /\ IsFirst(output'[k].original, k, seen[1])
               /\ IF print_all THEN FirstSpellings({output'[k].original} \cup output'[k].others, k)
                                ELSE output'[k].others = {}
    <3>1. /\ output'[k].original = dict[k].original
          /\ output'[k].others = IF print_all THEN dict[k].variations \ {dict[k].original} ELSE {}
      <4>1. output'[k] = intersect_print(k)
        BY <2>2, <2>4
      <4> QED  BY <4>1 DEF intersect_print
    <3>2. /\ IsFirst(dict[k].original, k, seen[1]) /\ FirstSpellings(dict[k].variations, k)
          /\ 1 \in DOMAIN seen
      BY <1>2, <2>1, <2>4, NothingThere DEF Told
    <3>3. CASE print_all
      <4> DEFINE spelled == {output'[k].original} \cup output'[k].others
      <4>1. spelled = dict[k].variations \cup {dict[k].original}
        BY <3>1, <3>3
      <4>2. FirstSpellings(spelled, k)
        BY <3>2, <4>1 DEF FirstSpellings
      <4> QED  BY <3>1, <3>2, <3>3, <4>2
    <3>4. CASE ~print_all
      BY <3>1, <3>2, <3>4
    <3> QED  BY <3>3, <3>4
  <2>5. Common(Len(seen))' = Common(Len(seen)) /\ seen' = seen /\ print_all' = print_all
    BY <1>1 DEF Common
  <2>6. \A s, k : FirstSpellings(s, k)' = FirstSpellings(s, k)
    BY <1>1 DEF FirstSpellings
  <2> QED  BY <2>2, <2>3, <2>4, <2>5, <2>6 DEF Printed, FirstSpellings
<1> QED  BY <1>5, <1>6, <1>7, <1>8 DEF IntersectInv

LEMMA StutterInv == IntersectInv /\ UNCHANGED vars => IntersectInv'
<1> SUFFICES ASSUME IntersectInv, UNCHANGED vars
             PROVE  IntersectInv'
  OBVIOUS
<1> USE DEF vars, command, dictionary, reduction, parser
<1>1. IntersectTypeOK' /\ RoomToReduce' /\ NoneLost'
  BY DEF IntersectInv, IntersectTypeOK, RoomToReduce, NoneLost
<1>2. KeysInCommon' /\ EntriesTold'
  BY DEF IntersectInv, KeysInCommon, EntriesTold, Common, Told, FirstSpellings
<1>3. Printed'
  BY DEF IntersectInv, Printed, Common, FirstSpellings
<1> QED  BY <1>1, <1>2, <1>3 DEF IntersectInv

\* The dictionary of the example is what the files read so far have in common, its
\* entries told, its payloads accounted for and its count no lower than its keys.
THEOREM IntersectInvHolds == Spec => []IntersectInv
<1>1. Init => IntersectInv
  BY InitInv
<1>2. IntersectInv /\ [Next]_vars => IntersectInv'
  BY ParseArgsInv, OpenInv, ReadInv, ReadEndInv, ReduceInv, RemoveInv, ReducedInv, FinishInv,
     StutterInv DEF Next
<1> QED  BY <1>1, <1>2, PTL DEF Spec

-----------------------------------------------------------------------------
(***************************************************************************)
(* Where the characters of a text start.                                   *)
(***************************************************************************)
\* Offset is what its definition says.  That there is such a function is shown from
\* the least length up to which there is none.
LEMMA OffsetIs ==
  ASSUME NEW t \in Seq(Char)
  PROVE  /\ Offset(t)[1] = 0 /\ Offset(t) = [k \in 1..(Len(t) + 1) |-> Offset(t)[k]]
         /\ \A k \in 1..Len(t) : Offset(t)[k + 1] = Offset(t)[k] + Bytes[t[k]]
<1> DEFINE D(n) == 1..(n + 1)
           Body(g, n) == [k \in D(n) |-> IF k = 1 THEN 0 ELSE g[k - 1] + Bytes[t[k - 1]]]
<1>1. Len(t) \in Nat
  OBVIOUS
<1>2. Offset(t) = CHOOSE f : f = Body(f, Len(t))
  BY DEF Offset
<1>3. \E g : g = Body(g, Len(t))
  <2> DEFINE S == {n \in Nat : ~\E g : g = Body(g, n)}
  <2>1. SUFFICES ASSUME S # {} PROVE FALSE
    BY <1>1
  <2>2. PICK n \in S : \A m \in S : n <= m
    <3>1. S \in SUBSET Nat
      OBVIOUS
    <3> HIDE DEF S
    <3> QED  BY <2>1, <3>1, LeastElement
  <2>3. n # 0
    <3> DEFINE g == [k \in D(0) |-> 0]
    <3>1. g = Body(g, 0)
      OBVIOUS
    <3> QED  BY <3>1
  <2>4. n \in Nat /\ n - 1 \in Nat /\ n - 1 \notin S
    <3>1. n \in Nat
      BY <2>2
    <3>2. n - 1 \in Nat /\ ~(n <= n - 1)
      BY <2>3, <3>1
    <3> HIDE DEF S
    <3> QED  BY <2>2, <3>1, <3>2
  <2>5. PICK g : g = Body(g, n - 1)
    BY <2>4
  <2> DEFINE h == [k \in D(n) |-> IF k \in D(n - 1) THEN g[k] ELSE g[k - 1] + Bytes[t[k - 1]]]
  <2>6. ASSUME NEW k \in D(n)
        PROVE  h[k] = IF k = 1 THEN 0 ELSE h[k - 1] + Bytes[t[k - 1]]
    <3>1. CASE k \in D(n - 1)
      <4>1. h[k] = g[k]
        BY <3>1
      <4>2. g[k] = IF k = 1 THEN 0 ELSE g[k - 1] + Bytes[t[k - 1]]
        BY <2>5, <3>1
      <4>3. k # 1 => k - 1 \in D(n - 1) /\ k - 1 \in D(n)
        BY <2>4, <3>1
      <4> QED  BY <4>1, <4>2, <4>3
    <3>2. CASE k \notin D(n - 1)
      <4>1. k = n + 1 /\ k # 1 /\ k - 1 \in D(n - 1) /\ k - 1 \in D(n)
        BY <2>3, <2>4, <3>2
      <4> QED  BY <3>2, <4>1
    <3> QED  BY <3>1, <3>2
  <2>7. h = Body(h, n)
    BY <2>6
  <2> QED  BY <2>2, <2>7
<1>4. Offset(t) = Body(Offset(t), Len(t))
  <2> HIDE DEF Body
  <2> QED  BY <1>2, <1>3
<1>5. \A k \in 1..Len(t) : k + 1 \in D(Len(t)) /\ k + 1 # 1 /\ (k + 1) - 1 = k
  BY <1>1
<1>6. 1 \in D(Len(t))
  BY <1>1
<1>7. Offset(t) = [k \in D(Len(t)) |-> Offset(t)[k]]
  BY <1>4
<1>8. \A k \in D(Len(t)) : Offset(t)[k] = IF k = 1 THEN 0 ELSE Offset(t)[k - 1] + Bytes[t[k - 1]]
  BY <1>4
<1> QED  BY <1>5, <1>6, <1>7, <1>8

\* A character takes one to four bytes.
LEMMA CharBytes ==
  ASSUME NEW t \in Seq(Char), NEW k \in 1..Len(t)
  PROVE  t[k] \in Char /\ Bytes[t[k]] \in 1..4
<1>1. t[k] \in Char
  OBVIOUS
<1> QED  BY <1>1, FileParserAssumption

\* Offsets are numbers.
LEMMA OffsetType ==
  ASSUME NEW t \in Seq(Char)
  PROVE  Offset(t) \in [1..(Len(t) + 1) -> Nat]
<1> DEFINE L == Len(t)
           S == {k \in 1..(L + 1) : Offset(t)[k] \notin Nat}
<1>1. L \in Nat
  OBVIOUS
<1>2. ASSUME S # {} PROVE FALSE
  <2>1. PICK m \in S : \A k \in S : m <= k
    <3>1. S \in SUBSET Nat
      BY <1>1
    <3> HIDE DEF S
    <3> QED  BY <1>2, <3>1, LeastElement
  <2>2. m # 1
    BY <2>1, OffsetIs
  <2>3. m - 1 \in 1..L /\ m - 1 \in 1..(L + 1) /\ (m - 1) + 1 = m /\ ~(m <= m - 1)
    BY <1>1, <2>1, <2>2
  <2>4. Offset(t)[m - 1] \in Nat
    BY <2>1, <2>3
  <2>5. Offset(t)[m] = Offset(t)[m - 1] + Bytes[t[m - 1]] /\ Bytes[t[m - 1]] \in 1..4
    <3> HIDE DEF S
    <3>1. Offset(t)[(m - 1) + 1] = Offset(t)[m - 1] + Bytes[t[m - 1]]
      BY <2>3, OffsetIs
    <3> QED  BY <2>3, <3>1, CharBytes
  <2>6. Offset(t)[m] \in Nat
    BY <2>4, <2>5
  <2> QED  BY <2>1, <2>6
<1>3. \A k \in 1..(L + 1) : Offset(t)[k] \in Nat
  BY <1>2
<1> QED  BY <1>3, OffsetIs

\* A character starts behind those before it.
LEMMA OffsetGrows ==
  ASSUME NEW t \in Seq(Char), NEW i \in 1..(Len(t) + 1), NEW k \in 1..(Len(t) + 1)
  PROVE  Offset(t)[i] < Offset(t)[k] <=> i < k
<1> DEFINE L == Len(t)
<1>0. L \in Nat /\ \A j \in 1..(L + 1) : Offset(t)[j] \in Nat
  BY OffsetType
<1>1. ASSUME NEW a \in 1..(L + 1), NEW b \in 1..(L + 1), a < b
      PROVE  Offset(t)[a] < Offset(t)[b]
  <2> DEFINE S == {j \in 1..(L + 1) : a < j /\ ~(Offset(t)[a] < Offset(t)[j])}
  <2>1. ASSUME S # {} PROVE FALSE
    <3>1. PICK m \in S : \A j \in S : m <= j
      <4>1. S \in SUBSET Nat
        BY <1>0
      <4> HIDE DEF S
      <4> QED  BY <2>1, <4>1, LeastElement
    <3>2. m \in 1..(L + 1) /\ a < m /\ ~(Offset(t)[a] < Offset(t)[m])
      BY <3>1
    <3>3. m - 1 \in 1..L /\ m - 1 \in 1..(L + 1) /\ (m - 1) + 1 = m /\ ~(m <= m - 1) /\ a <= m - 1
      BY <1>0, <3>2
    <3>4. m - 1 \notin S
      BY <3>1, <3>3
    <3>5. Offset(t)[m] = Offset(t)[m - 1] + Bytes[t[m - 1]] /\ Bytes[t[m - 1]] \in 1..4
      <4>1. Offset(t)[(m - 1) + 1] = Offset(t)[m - 1] + Bytes[t[m - 1]]
        BY <3>3, OffsetIs
      <4> QED  BY <3>3, <4>1, CharBytes
    <3>6. Offset(t)[a] <= Offset(t)[m - 1]
      <4>1. CASE a = m - 1
        BY <1>0, <4>1
      <4>2. CASE a # m - 1
        <5>1. a < m - 1
          BY <1>0, <3>3, <4>2
        <5> QED  BY <1>0, <3>3, <3>4, <5>1
      <4> QED  BY <4>1, <4>2
    <3>7. Offset(t)[a] \in Nat /\ Offset(t)[m - 1] \in Nat /\ Offset(t)[m] \in Nat
      BY <1>0, <3>2, <3>3
    <3>8. PICK n \in 1..4 : Bytes[t[m - 1]] = n
      BY <3>5
    <3>9. Offset(t)[m] = Offset(t)[m - 1] + n
      BY <3>5, <3>8
    <3>10. \A x, y, z \in Nat : x <= y /\ z = y + n => x < z
      BY <3>8
    <3>11. Offset(t)[a] < Offset(t)[m]
      BY <3>6, <3>7, <3>9, <3>10
    <3> QED  BY <3>2, <3>11
  <2> QED  BY <1>1, <2>1
<1>2. i \in 1..(L + 1) /\ k \in 1..(L + 1) /\ i \in Nat /\ k \in Nat
  BY <1>0
<1>3. Offset(t)[i] \in Nat /\ Offset(t)[k] \in Nat
  BY <1>0, <1>2
<1>4. i < k => Offset(t)[i] < Offset(t)[k]
  BY <1>1, <1>2
<1>5. k < i => Offset(t)[k] < Offset(t)[i]
  BY <1>1, <1>2
<1> QED  BY <1>2, <1>3, <1>4, <1>5

-----------------------------------------------------------------------------
(***************************************************************************)
(* The words of a text, in their order.                                    *)
(***************************************************************************)
\* The words of t that end before character i.
Behind(t, i) == {s \in Spans(t) : s[2] < i}

\* The words of t that start before word s.
BeforeSpan(t, s) == {r \in Spans(t) : r[1] < s[1]}

\* A text has finitely many words.
LEMMA SpansFinite ==
  ASSUME NEW t \in Seq(Char), NEW S \in SUBSET Spans(t)
  PROVE  IsFiniteSet(S) /\ Cardinality(S) \in Nat
<1> DEFINE R == 1..Len(t)
<1>1. IsFiniteSet(R)
  <2>1. 1 \in Int /\ Len(t) \in Int
    OBVIOUS
  <2> QED  BY <2>1, FS_Interval
<1> HIDE DEF R
<1>2. IsFiniteSet(R \X R)
  BY <1>1, FS_Product
<1>3. S \in SUBSET (R \X R)
  BY DEF Spans, R
<1> QED  BY <1>2, <1>3, FS_Subset, FS_CardinalityType

\* No two words have as many before them.
LEMMA RankUnique ==
  ASSUME NEW t \in Seq(Char), NEW s \in Spans(t), NEW r \in Spans(t),
         Cardinality(BeforeSpan(t, s)) = Cardinality(BeforeSpan(t, r))
  PROVE  s = r
<1> DEFINE L == Len(t)
<1>1. L \in Nat
  OBVIOUS
<1>2. ASSUME NEW x \in Spans(t)
      PROVE  /\ x[1] \in 1..L /\ x[2] \in 1..L /\ x[1] <= x[2] /\ x = <<x[1], x[2]>>
             /\ \A k \in x[1]..x[2] : t[k] \notin Space
             /\ x[2] < L => t[x[2] + 1] \in Space
  BY DEF Spans
<1>3. ASSUME NEW x \in Spans(t), NEW y \in Spans(t), x[1] < y[1],
             Cardinality(BeforeSpan(t, x)) = Cardinality(BeforeSpan(t, y))
      PROVE  FALSE
  <2>1. x \in BeforeSpan(t, y) /\ x \notin BeforeSpan(t, x)
    BY <1>2, <1>3 DEF BeforeSpan
  <2>2. BeforeSpan(t, x) \in SUBSET BeforeSpan(t, y)
    <3>1. ASSUME NEW z \in Spans(t), z[1] < x[1]
          PROVE  z[1] < y[1]
      <4>1. z[1] \in Int /\ x[1] \in Int /\ y[1] \in Int
        BY <1>2
      <4> QED  BY <1>3, <3>1, <4>1
    <3> QED  BY <3>1 DEF BeforeSpan
  <2>3. IsFiniteSet(BeforeSpan(t, y))
    BY SpansFinite DEF BeforeSpan
  <2> QED  BY <1>3, <2>1, <2>2, <2>3, FS_Subset
<1>4. s[1] = r[1]
  <2>1. s[1] \in Int /\ r[1] \in Int
    BY <1>2
  <2>2. ~(s[1] < r[1]) /\ ~(r[1] < s[1])
    BY <1>3
  <2> QED  BY <2>1, <2>2
<1>5. ASSUME NEW x \in Spans(t), NEW y \in Spans(t), x[1] = y[1], x[2] < y[2]
      PROVE  FALSE
  <2>1. x[1] \in Int /\ x[2] \in Int /\ y[2] \in Int /\ x[2] < L /\ x[1] <= x[2]
    BY <1>1, <1>2, <1>5
  <2>2. x[2] + 1 \in y[1]..y[2]
    BY <1>5, <2>1
  <2> QED  BY <1>2, <2>1, <2>2
<1>6. s[2] = r[2]
  <2>1. s[2] \in Int /\ r[2] \in Int
    BY <1>2
  <2>2. ~(s[2] < r[2]) /\ ~(r[2] < s[2])
    BY <1>4, <1>5
  <2> QED  BY <2>1, <2>2
<1> QED  BY <1>2, <1>4, <1>6

\* A word with n - 1 before it is the n-th.
LEMMA NthWord ==
  ASSUME NEW t \in Seq(Char), NEW s \in Spans(t)
  PROVE  LET n == Cardinality(BeforeSpan(t, s)) + 1 IN
         n \in 1..Cardinality(Spans(t)) /\ Words(t)[n] = SubSeq(t, s[1], s[2])
<1> DEFINE n == Cardinality(BeforeSpan(t, s)) + 1
           C == Cardinality(Spans(t))
           P(r) == Cardinality(BeforeSpan(t, r)) = n - 1
<1>1. IsFiniteSet(Spans(t)) /\ C \in Nat /\ Cardinality(BeforeSpan(t, s)) \in Nat
  BY SpansFinite DEF BeforeSpan
<1>2. s \notin BeforeSpan(t, s) /\ BeforeSpan(t, s) \in SUBSET Spans(t)
  BY DEF BeforeSpan, Spans
<1>3. Cardinality(BeforeSpan(t, s)) <= C /\ Cardinality(BeforeSpan(t, s)) # C
  BY <1>1, <1>2, FS_Subset
<1>4. n \in 1..C
  BY <1>1, <1>3
<1>5. (CHOOSE r \in Spans(t) : P(r)) = s
  <2>1. P(s)
    BY <1>1
  <2>2. \A r \in Spans(t) : P(r) => r = s
    BY <2>1, RankUnique
  <2> HIDE DEF P
  <2> QED  BY <2>1, <2>2
<1>6. Words(t)[n] = LET r == CHOOSE r \in Spans(t) : P(r) IN SubSeq(t, r[1], r[2])
  <2> HIDE DEF n
  <2> QED  BY <1>4 DEF Words, BeforeSpan
<1> HIDE DEF P, n, C
<1>7. Words(t)[n] = SubSeq(t, s[1], s[2])
  BY <1>5, <1>6
<1> QED  BY <1>4, <1>7 DEF n, C

\* A run of letters with no other letter before or behind it is the word next in line.
LEMMA NextWord ==
  ASSUME NEW t \in Seq(Char), NEW i \in 1..Len(t), NEW k \in (i + 1)..(Len(t) + 1),
         i = 1 \/ t[i - 1] \in Space, \A j \in i..(k - 1) : t[j] \notin Space,
         k <= Len(t) => t[k] \in Space
  PROVE  LET n == Cardinality(Behind(t, i)) + 1 IN
         /\ <<i, k - 1>> \in Spans(t)
         /\ n = Cardinality(Behind(t, k))
         /\ n \in 1..Cardinality(Spans(t)) /\ Words(t)[n] = SubSeq(t, i, k - 1)
<1> DEFINE L == Len(t)
           s == <<i, k - 1>>
<1>1. L \in Nat /\ i \in Nat /\ k \in Nat /\ k - 1 \in 1..L /\ i <= k - 1 /\ (k - 1) + 1 = k
  OBVIOUS
<1>2. s \in Spans(t) /\ s[1] = i /\ s[2] = k - 1
  <2>1. s \in (1..L) \X (1..L) /\ s[1] = i /\ s[2] = k - 1
    BY <1>1
  <2>2. i > 1 => t[i - 1] \in Space
    BY <1>1
  <2>3. k - 1 < L => t[(k - 1) + 1] \in Space
    BY <1>1
  <2> HIDE DEF s
  <2> QED  BY <1>1, <2>1, <2>2, <2>3 DEF Spans
<1>3. ASSUME NEW x \in Spans(t)
      PROVE  /\ x[1] \in 1..L /\ x[2] \in 1..L /\ x[1] <= x[2] /\ x = <<x[1], x[2]>>
             /\ \A j \in x[1]..x[2] : t[j] \notin Space
             /\ x[1] > 1 => t[x[1] - 1] \in Space
             /\ x[2] < L => t[x[2] + 1] \in Space
  BY DEF Spans
<1>4. ASSUME NEW x \in Spans(t), x[1] < i
      PROVE  x[2] < i
  <2>1. x[1] \in Nat /\ x[2] \in Nat /\ i # 1
    BY <1>1, <1>3, <1>4
  <2>2. ~(i - 1 \in x[1]..x[2])
    BY <1>3, <2>1
  <2> QED  BY <1>1, <1>4, <2>1, <2>2
<1>5. Behind(t, i) = BeforeSpan(t, s)
  <2>1. ASSUME NEW x \in Spans(t), x[2] < i
        PROVE  x[1] < i
    <3>1. x[1] \in Nat /\ x[2] \in Nat /\ x[1] <= x[2]
      BY <1>3
    <3> QED  BY <1>1, <2>1, <3>1
  <2> HIDE DEF s
  <2> QED  BY <1>2, <1>4, <2>1 DEF Behind, BeforeSpan
<1>6. Behind(t, k) = Behind(t, i) \cup {s}
  <2>1. ASSUME NEW x \in Spans(t), x[2] < k, ~(x[2] < i)
        PROVE  x = s
    <3>1. x[1] \in Nat /\ x[2] \in Nat /\ x[1] <= x[2] /\ x[1] >= i /\ x[2] <= k - 1
      BY <1>1, <1>3, <1>4, <2>1
    <3>2. x[1] = i
      <4>1. CASE x[1] > i
        <5>1. x[1] - 1 \in i..(k - 1) /\ x[1] > 1
          BY <1>1, <3>1, <4>1
        <5> QED  BY <1>3, <5>1
      <4> QED  BY <1>1, <3>1, <4>1
    <3>3. x[2] = k - 1
      <4>1. CASE x[2] < k - 1
        <5>1. x[2] + 1 \in i..(k - 1) /\ x[2] < L
          BY <1>1, <3>1, <4>1
        <5> QED  BY <1>3, <5>1
      <4> QED  BY <1>1, <3>1, <4>1
    <3> QED  BY <1>3, <3>2, <3>3
  <2>2. ASSUME NEW x \in Spans(t), x[2] < i
        PROVE  x[2] < k
    <3>1. x[2] \in Nat
      BY <1>3
    <3> QED  BY <1>1, <2>2, <3>1
  <2>3. s[2] < k
    BY <1>1, <1>2
  <2> HIDE DEF s
  <2> QED  BY <1>2, <2>1, <2>2, <2>3 DEF Behind
<1>7. s \notin Behind(t, i)
  BY <1>1, <1>2 DEF Behind
<1> HIDE DEF s
<1>8. Cardinality(Behind(t, k)) = Cardinality(Behind(t, i)) + 1
  <2>1. IsFiniteSet(Behind(t, i))
    BY SpansFinite DEF Behind
  <2> QED  BY <1>6, <1>7, <2>1, FS_AddElement
<1>9. LET n == Cardinality(BeforeSpan(t, s)) + 1 IN
      n \in 1..Cardinality(Spans(t)) /\ Words(t)[n] = SubSeq(t, s[1], s[2])
  BY <1>2, NthWord
<1> QED  BY <1>2, <1>5, <1>8, <1>9 DEF s

\* White space belongs to no word.
LEMMA SpaceSkipped ==
  ASSUME NEW t \in Seq(Char), NEW i \in 1..Len(t), t[i] \in Space
  PROVE  Behind(t, i + 1) = Behind(t, i)
<1>1. ASSUME NEW s \in Spans(t)
      PROVE  s[2] < i + 1 <=> s[2] < i
  <2>1. /\ s[1] \in Nat /\ s[2] \in Nat /\ s[1] <= s[2] /\ i \in Nat
        /\ \A j \in s[1]..s[2] : t[j] \notin Space
    BY DEF Spans
  <2>2. s[2] # i
    <3>1. s[2] \in s[1]..s[2]
      BY <2>1
    <3> QED  BY <2>1, <3>1
  <2> QED  BY <2>1, <2>2
<1> QED  BY <1>1 DEF Behind

\* None of the words ends before the first character, and all before the end.
LEMMA BehindEnds ==
  ASSUME NEW t \in Seq(Char)
  PROVE  Behind(t, 1) = {} /\ Behind(t, Len(t) + 1) = Spans(t)
<1>1. Len(t) \in Nat /\ \A s \in Spans(t) : s[2] \in 1..Len(t)
  BY DEF Spans
<1>2. \A s \in Spans(t) : ~(s[2] < 1) /\ s[2] < Len(t) + 1
  BY <1>1
<1> QED  BY <1>2 DEF Behind

\* Characters take at least as many bytes as there are of them.
LEMMA OffsetSpread ==
  ASSUME NEW t \in Seq(Char), NEW i \in 1..(Len(t) + 1), NEW k \in i..(Len(t) + 1)
  PROVE  Offset(t)[k] - Offset(t)[i] >= k - i
<1> DEFINE L == Len(t)
           S == {j \in i..(L + 1) : ~(Offset(t)[j] - Offset(t)[i] >= j - i)}
<1>0. L \in Nat /\ i \in Nat /\ \A j \in 1..(L + 1) : Offset(t)[j] \in Nat
  <2>1. Offset(t) \in [1..(L + 1) -> Nat]
    BY OffsetType
  <2> QED  BY <2>1
<1>1. ASSUME S # {} PROVE FALSE
  <2>1. PICK m \in S : \A j \in S : m <= j
    <3>1. S \in SUBSET Nat
      BY <1>0
    <3> HIDE DEF S
    <3> QED  BY <1>1, <3>1, LeastElement
  <2>2. m \in i..(L + 1) /\ ~(Offset(t)[m] - Offset(t)[i] >= m - i)
    BY <2>1
  <2>3. m # i
    <3>1. Offset(t)[i] - Offset(t)[i] >= i - i
      BY <1>0
    <3> QED  BY <2>2, <3>1
  <2>4. /\ m - 1 \in 1..L /\ m - 1 \in i..(L + 1) /\ m - 1 \in 1..(L + 1)
        /\ (m - 1) + 1 = m /\ ~(m <= m - 1) /\ m \in Nat /\ m \in 1..(L + 1)
    BY <1>0, <2>2, <2>3
  <2>5. Offset(t)[m - 1] - Offset(t)[i] >= (m - 1) - i
    BY <2>1, <2>4
  <2>6. PICK b \in 1..4 : Bytes[t[m - 1]] = b
    BY <2>4, CharBytes
  <2>7. Offset(t)[m] = Offset(t)[m - 1] + b
    <3>1. Offset(t)[(m - 1) + 1] = Offset(t)[m - 1] + Bytes[t[m - 1]]
      BY <2>4, OffsetIs
    <3> QED  BY <2>4, <2>6, <3>1
  <2>8. Offset(t)[i] \in Nat /\ Offset(t)[m - 1] \in Nat /\ Offset(t)[m] \in Nat
    BY <1>0, <2>4
  <2>9. \A x, y, z, n \in Nat : y - x >= (n - 1) - i /\ z = y + b => z - x >= n - i
    BY <1>0, <2>6
  <2>10. Offset(t)[m] - Offset(t)[i] >= m - i
    BY <2>4, <2>5, <2>7, <2>8, <2>9
  <2> QED  BY <2>2, <2>10
<1>2. k \in i..(L + 1)
  OBVIOUS
<1> QED  BY <1>1, <1>2

\* As many characters start before the i-th as there are before it.
LEMMA FirstChar ==
  ASSUME NEW t \in Seq(Char), NEW i \in 1..(Len(t) + 1)
  PROVE  Cardinality({m \in 1..Len(t) : Offset(t)[m] < Offset(t)[i]}) = i - 1
<1>1. Len(t) \in Nat /\ i \in Nat /\ i - 1 \in Int /\ 1 \in Int /\ i - 1 >= 0
  OBVIOUS
<1>2. ASSUME NEW m \in 1..Len(t)
      PROVE  Offset(t)[m] < Offset(t)[i] <=> m \in 1..(i - 1)
  <2>1. m \in 1..(Len(t) + 1)
    BY <1>1
  <2>2. Offset(t)[m] < Offset(t)[i] <=> m < i
    BY <2>1, OffsetGrows
  <2> QED  BY <1>1, <2>2
<1>3. \A m \in 1..(i - 1) : m \in 1..Len(t)
  BY <1>1
<1>4. {m \in 1..Len(t) : Offset(t)[m] < Offset(t)[i]} = 1..(i - 1)
  BY <1>2, <1>3
<1>5. Cardinality(1..(i - 1)) = i - 1
  <2>1. Cardinality(1..(i - 1)) = IF 1 > i - 1 THEN 0 ELSE (i - 1) - 1 + 1
    BY <1>1, FS_Interval
  <2> QED  BY <1>1, <2>1
<1> QED  BY <1>4, <1>5

-----------------------------------------------------------------------------
(***************************************************************************)
(* Where parse_file stands.                                                *)
(***************************************************************************)
\* The stream stands before character k; character i, where the word in progress
\* starts, is at word_start, and no white space is between them.
Stands(i, k) ==
  /\ word_start = Offset(text)[i] /\ pos = Offset(text)[k] /\ word_end = word_start + (k - i)
  /\ \A j \in i..(k - 1) : text[j] \notin Space
  /\ \/ i = 1
     \/ text[i - 1] \in Space
     \/ i = k /\ i <= Len(text) /\ text[i] \in Space

\* What fgetwc finds there.
LEMMA StandsAt ==
  ASSUME text \in Seq(Char), NEW i \in 1..(Len(text) + 1), NEW k \in i..(Len(text) + 1), Stands(i, k)
  PROVE  /\ k <= Len(text) => fgetwc = "character" /\ At(pos) = {k}
         /\ k = Len(text) + 1 => fgetwc = "feof"
         /\ in_word <=> i # k
<1> DEFINE L == Len(text)
<1>1. L \in Nat /\ i \in Nat /\ k \in Nat /\ k \in 1..(L + 1) /\ i \in 1..(L + 1) /\ L + 1 \in 1..(L + 1)
  OBVIOUS
<1>2. /\ Offset(text)[k] \in Nat /\ Offset(text)[L + 1] \in Nat /\ Offset(text)[i] \in Nat
      /\ pos = Offset(text)[k]
  BY <1>1, OffsetType DEF Stands
<1>3. ASSUME k <= L
      PROVE  fgetwc = "character" /\ At(pos) = {k}
  <2>1. Offset(text)[k] < Offset(text)[L + 1]
    <3>1. k < L + 1
      BY <1>1, <1>3
    <3> QED  BY <1>1, <3>1, OffsetGrows
  <2>2. ASSUME NEW m \in 1..L
        PROVE  Offset(text)[m] = pos <=> m = k
    <3>1. m \in 1..(L + 1) /\ m \in Nat /\ Offset(text)[m] \in Nat
      <4>1. Offset(text) \in [1..(L + 1) -> Nat]
        BY OffsetType
      <4>2. m \in 1..(L + 1) /\ m \in Nat
        BY <1>1
      <4> QED  BY <4>1, <4>2
    <3>2. (Offset(text)[m] < Offset(text)[k] <=> m < k) /\ (Offset(text)[k] < Offset(text)[m] <=> k < m)
      BY <1>1, <3>1, OffsetGrows
    <3> QED  BY <1>1, <1>2, <3>1, <3>2
  <2>3. k \in 1..L
    BY <1>1, <1>3
  <2>4. At(pos) = {k}
    BY <2>2, <2>3 DEF At
  <2>5. ~(pos >= Offset(text)[L + 1])
    BY <1>2, <2>1
  <2> QED  BY <2>4, <2>5 DEF fgetwc
<1>4. ASSUME k = L + 1
      PROVE  fgetwc = "feof"
  BY <1>2, <1>4 DEF fgetwc
<1>5. in_word <=> i # k
  BY <1>1, <1>2 DEF Stands, in_word
<1> QED  BY <1>3, <1>4, <1>5

\* The word fgetws finds there.
LEMMA WordAt ==
  ASSUME text \in Seq(Char), NEW i \in 1..(Len(text) + 1), NEW k \in i..(Len(text) + 1),
         Stands(i, k), i # k
  PROVE  Word = SubSeq(text, i, k - 1)
<1> DEFINE S == {m \in 1..Len(text) : Offset(text)[m] < word_start}
           first == Cardinality(S) + 1
           last == first + (word_end - word_start) - 1
<1>1. Len(text) \in Nat /\ i \in Nat /\ k \in Nat /\ k - 1 <= Len(text)
  OBVIOUS
<1>2. Cardinality(S) = i - 1
  BY FirstChar DEF Stands
<1>3. word_end - word_start = k - i
  <2>1. Offset(text)[i] \in Nat
    BY OffsetType
  <2> QED  BY <1>1, <2>1 DEF Stands
<1> HIDE DEF S
<1>4. first = i /\ last = k - 1
  BY <1>1, <1>2, <1>3
<1>5. Word = SubSeq(text, first, IF last <= Len(text) THEN last ELSE Len(text))
  BY DEF Word, fgetws, S
<1> HIDE DEF first, last
<1> QED  BY <1>1, <1>4, <1>5

\* A letter is added to the word in progress, or starts one.
LEMMA LetterStands ==
  ASSUME text \in Seq(Char), NEW i \in 1..(Len(text) + 1), NEW k \in i..(Len(text) + 1),
         Stands(i, k), letter
  PROVE  k + 1 \in i..(Len(text) + 1) /\ Stands(i, k + 1)'
<1>1. Len(text) \in Nat /\ i \in Nat /\ k \in Nat /\ i <= k /\ k <= Len(text) + 1
  OBVIOUS
<1>2. PICK c \in Char \ (Space \cup {NUL}) : character(c) /\ pos' = pos + Bytes[c]
  BY DEF letter
<1>3. k <= Len(text) /\ At(pos) = {k}
  <2>1. fgetwc = "character"
    BY <1>2 DEF character
  <2>2. k # Len(text) + 1
    BY <2>1, StandsAt
  <2>3. k <= Len(text)
    BY <1>1, <2>2
  <2> QED  BY <2>3, StandsAt
<1>4. text[k] = c
  BY <1>2, <1>3 DEF character
<1>5. k \in 1..Len(text)
  BY <1>1, <1>3
<1>6. pos' = Offset(text)[k + 1]
  <2>1. Offset(text)[k + 1] = Offset(text)[k] + Bytes[text[k]]
    BY <1>5, OffsetIs
  <2> QED  BY <1>2, <1>4, <2>1 DEF Stands
<1>7. UNCHANGED <<text, word_start>> /\ word_end' = word_end + 1
  BY DEF letter
<1>8. word_start \in Nat /\ word_end = word_start + (k - i)
  BY OffsetType DEF Stands
<1>9. word_end' = word_start' + ((k + 1) - i)
  BY <1>1, <1>7, <1>8
<1>10. \A j \in i..((k + 1) - 1) : text[j] \notin Space
  <2>1. ASSUME NEW j \in i..((k + 1) - 1)
        PROVE  j = k \/ j \in i..(k - 1)
    BY <1>1
  <2> QED  BY <1>2, <1>4, <2>1 DEF Stands
<1>11. i = 1 \/ text[i - 1] \in Space
  BY <1>2, <1>4 DEF Stands
<1>12. k + 1 \in i..(Len(text) + 1)
  BY <1>1, <1>3
<1>13. word_start' = Offset(text)[i]
  BY <1>7 DEF Stands
<1> QED  BY <1>6, <1>7, <1>9, <1>10, <1>11, <1>12, <1>13 DEF Stands

\* White space of one byte is passed.
LEMMA BlankStands ==
  ASSUME text \in Seq(Char), NEW i \in 1..(Len(text) + 1), NEW k \in i..(Len(text) + 1),
         Stands(i, k), blank
  PROVE  /\ i = k /\ i \in 1..Len(text) /\ text[i] \in Space
         /\ i + 1 \in 1..(Len(text) + 1) /\ i + 1 \in (i + 1)..(Len(text) + 1)
         /\ Stands(i + 1, i + 1)'
<1>1. Len(text) \in Nat /\ i \in Nat /\ k \in Nat /\ i <= k /\ k <= Len(text) + 1 /\ i >= 1
  OBVIOUS
<1>2. PICK c \in Space : character(c)
  BY DEF blank
<1>3. i = k
  BY StandsAt DEF blank
<1>4. k <= Len(text) /\ At(pos) = {k}
  <2>1. fgetwc = "character"
    BY <1>2 DEF character
  <2>2. k # Len(text) + 1
    BY <2>1, StandsAt
  <2>3. k <= Len(text)
    BY <1>1, <2>2
  <2> QED  BY <2>3, StandsAt
<1>5. text[i] = c /\ text[i] \in Space
  BY <1>2, <1>3, <1>4 DEF character
<1>6. i \in 1..Len(text)
  BY <1>1, <1>3, <1>4
<1>7. Offset(text)[i + 1] = Offset(text)[i] + 1 /\ Offset(text)[i] \in Nat
  <2>1. Offset(text)[i + 1] = Offset(text)[i] + Bytes[text[i]]
    BY <1>6, OffsetIs
  <2>2. Bytes[text[i]] = 1
    BY <1>5, FileParserAssumption
  <2> QED  BY <2>1, <2>2, OffsetType
<1>8. /\ pos = Offset(text)[i] /\ word_start = Offset(text)[i] /\ word_end = Offset(text)[i]
  <2>1. word_end = word_start
    BY DEF blank, in_word
  <2> QED  BY <1>3, <2>1 DEF Stands
<1>9. pos' = pos + 1 /\ word_end' = word_end + 1 /\ word_start' = word_end' /\ text' = text
  BY DEF blank
<1>10. /\ pos' = Offset(text)[i + 1] /\ word_start' = Offset(text)[i + 1]
       /\ word_end' = word_start' + ((i + 1) - (i + 1))
  BY <1>1, <1>7, <1>8, <1>9
<1>11. i + 1 \in 1..(Len(text) + 1) /\ i + 1 \in (i + 1)..(Len(text) + 1)
  BY <1>1, <1>3, <1>4
<1>12. (i + 1) - 1 = i
  BY <1>1
<1>13. \A j \in (i + 1)..((i + 1) - 1) : text[j] \notin Space
  BY <1>1
<1>14. Stands(i + 1, i + 1)'
  BY <1>5, <1>9, <1>10, <1>12, <1>13 DEF Stands
<1> QED  BY <1>3, <1>5, <1>6, <1>11, <1>14

\* Behind a word that has at most one byte more than it has letters the stream is set
\* behind the white space, or before it; with two more it would be set into the word.
LEMMA SeparatorStands ==
  ASSUME text \in Seq(Char), Narrow(text),
         NEW i \in 1..(Len(text) + 1), NEW k \in i..(Len(text) + 1), Stands(i, k), separator
  PROVE  /\ i < k /\ k \in 1..Len(text) /\ text[k] \in Space
         /\ Stands(k, k)' \/ Stands(k + 1, k + 1)'
<1>1. Len(text) \in Nat /\ i \in Nat /\ k \in Nat /\ i <= k /\ k <= Len(text) + 1 /\ i >= 1
  OBVIOUS
<1>2. PICK c \in Space : character(c)
  BY DEF separator
<1>3. i # k /\ i < k
  <2>1. i # k
    BY StandsAt DEF separator
  <2> QED  BY <1>1, <2>1
<1>4. k <= Len(text) /\ At(pos) = {k}
  <2>1. fgetwc = "character"
    BY <1>2 DEF character
  <2>2. k # Len(text) + 1
    BY <2>1, StandsAt
  <2>3. k <= Len(text)
    BY <1>1, <2>2
  <2> QED  BY <2>3, StandsAt
<1>5. text[k] = c /\ text[k] \in Space
  BY <1>2, <1>4 DEF character
<1>6. k \in 1..Len(text) /\ i \in 1..Len(text) /\ k \in (i + 1)..(Len(text) + 1)
  BY <1>1, <1>3, <1>4
<1>7. Offset(text)[k + 1] = Offset(text)[k] + 1
  <2>1. Offset(text)[k + 1] = Offset(text)[k] + Bytes[text[k]]
    BY <1>6, OffsetIs
  <2>2. Bytes[text[k]] = 1
    BY <1>5, FileParserAssumption
  <2> QED  BY <2>1, <2>2
<1>8. Offset(text)[i] \in Nat /\ Offset(text)[k] \in Nat
  <2>1. k \in 1..(Len(text) + 1)
    BY <1>1
  <2> QED  BY <2>1, OffsetType
<1>9. Offset(text)[k] - Offset(text)[i] <= k - i + 1
  <2>1. <<i, k - 1>> \in Spans(text)
    <3>1. (i = 1 \/ text[i - 1] \in Space) /\ \A j \in i..(k - 1) : text[j] \notin Space
      BY <1>3 DEF Stands
    <3> QED  BY <1>5, <1>6, <3>1, NextWord
  <2>2. k - 1 < Len(text) /\ (k - 1) + 1 = k /\ (k - 1) - i + 2 = k - i + 1
    BY <1>1, <1>4
  <2>3. Offset(text)[(k - 1) + 1] - Offset(text)[i] <= (k - 1) - i + 2
    <3>1. \A s \in Spans(text) :
            s[2] < Len(text) => Offset(text)[s[2] + 1] - Offset(text)[s[1]] <= s[2] - s[1] + 2
      BY DEF Narrow
    <3>2. <<i, k - 1>>[1] = i /\ <<i, k - 1>>[2] = k - 1
      OBVIOUS
    <3> QED  BY <2>1, <2>2, <3>1, <3>2
  <2> QED  BY <2>2, <2>3
<1>10. Offset(text)[k] - Offset(text)[i] >= k - i
  BY OffsetSpread
<1>11. /\ text' = text /\ pos' = word_end + 1 /\ word_start' = word_end + 1 /\ word_end' = word_end + 1
       /\ word_end = Offset(text)[i] + (k - i)
  BY DEF separator, Seek, Stands
<1>12. word_end + 1 = Offset(text)[k] \/ word_end + 1 = Offset(text)[k + 1]
  BY <1>1, <1>7, <1>8, <1>9, <1>10, <1>11
<1>13. word_end + 1 = (word_end + 1) + (k - k) /\ word_end + 1 = (word_end + 1) + ((k + 1) - (k + 1))
  BY <1>1, <1>8, <1>11
<1>14. /\ \A j \in k..(k - 1) : text[j] \notin Space
       /\ \A j \in (k + 1)..((k + 1) - 1) : text[j] \notin Space
  BY <1>1
<1>15. CASE word_end + 1 = Offset(text)[k]
  <2>1. Stands(k, k)'
    BY <1>4, <1>5, <1>11, <1>13, <1>14, <1>15 DEF Stands
  <2> QED  BY <1>3, <1>5, <1>6, <2>1
<1>16. CASE word_end + 1 = Offset(text)[k + 1]
  <2>1. (k + 1) - 1 = k
    BY <1>1
  <2>2. Stands(k + 1, k + 1)'
    BY <1>5, <1>11, <1>13, <1>14, <1>16, <2>1 DEF Stands
  <2> QED  BY <1>3, <1>5, <1>6, <2>2
<1> QED  BY <1>12, <1>15, <1>16

\* Where the words are what they should be, parsing goes on.
LEMMA NoneCut ==
  ASSUME text \in Seq(Char), Narrow(text),
         NEW i \in 1..(Len(text) + 1), NEW k \in i..(Len(text) + 1), Stands(i, k)
  PROVE  /\ ~cut_short
         /\ at_end => k = Len(text) + 1
<1>1. Len(text) \in Nat /\ k <= Len(text) + 1 /\ k >= 1 /\ k \in Nat
  OBVIOUS
<1>2. CASE k <= Len(text)
  <2>1. fgetwc = "character" /\ At(pos) = {k} /\ k \in DOMAIN text
    BY <1>1, <1>2, StandsAt
  <2>2. text[k] # NUL
    BY <2>1 DEF Narrow
  <2> QED  BY <2>1, <2>2 DEF cut_short, at_end, character
<1>3. CASE k = Len(text) + 1
  <2>1. fgetwc = "feof"
    BY <1>3, StandsAt
  <2> QED  BY <1>3, <2>1 DEF cut_short, character
<1> QED  BY <1>1, <1>2, <1>3

-----------------------------------------------------------------------------
(***************************************************************************)
(* The words read.                                                         *)
(***************************************************************************)
\* w is the first n words of t.
FirstWords(w, n, t) == Len(w) = n /\ \A m \in 1..n : w[m] = Words(t)[m]

\* The words of a text are a sequence.
LEMMA WordsAre ==
  ASSUME NEW t \in Seq(Char)
  PROVE  /\ Words(t) \in Seq({Words(t)[n] : n \in 1..Cardinality(Spans(t))})
         /\ Len(Words(t)) = Cardinality(Spans(t))
<1> DEFINE C == Cardinality(Spans(t))
<1>1. C \in Nat
  BY SpansFinite
<1>2. Words(t) = [n \in 1..C |-> Words(t)[n]]
  <2> DEFINE nth(n) == CHOOSE s \in Spans(t) : Cardinality({r \in Spans(t) : r[1] < s[1]}) = n - 1
             W(n) == SubSeq(t, nth(n)[1], nth(n)[2])
  <2>1. Words(t) = [n \in 1..C |-> W(n)]
    BY Zenon DEF Words
  <2> HIDE DEF W
  <2> QED  BY <2>1
<1> HIDE DEF C
<1>3. [n \in 1..C |-> Words(t)[n]] \in Seq({Words(t)[n] : n \in 1..C})
  BY <1>1
<1>4. Words(t) \in Seq({Words(t)[n] : n \in 1..C})
  BY <1>2, <1>3
<1>5. DOMAIN Words(t) = 1..C
  BY <1>2
<1>6. Len(Words(t)) = C
  BY <1>1, <1>4, <1>5
<1> QED  BY <1>4, <1>6 DEF C

\* All of them are the words.
LEMMA AllWords ==
  ASSUME NEW t \in Seq(Char), NEW w \in Seq(Spelling), FirstWords(w, Cardinality(Spans(t)), t)
  PROVE  w = Words(t)
<1> DEFINE V == {Words(t)[n] : n \in 1..Cardinality(Spans(t))}
<1>1. Len(w) = Len(Words(t)) /\ \A m \in 1..Len(w) : w[m] = Words(t)[m]
  BY WordsAre DEF FirstWords
<1>2. Words(t) \in Seq(V)
  BY WordsAre
<1> HIDE DEF Spelling, V
<1> QED  BY <1>1, <1>2, SameElements

\* Those before a character are the first words.
LEMMA SomeWords ==
  ASSUME NEW t \in Seq(Char), NEW w \in Seq(Spelling), NEW i \in 1..(Len(t) + 1),
         FirstWords(w, Cardinality(Behind(t, i)), t)
  PROVE  w = SubSeq(Words(t), 1, Len(w))
<1> DEFINE V == {Words(t)[n] : n \in 1..Cardinality(Spans(t))}
<1>1. /\ Cardinality(Behind(t, i)) \in Nat /\ Cardinality(Spans(t)) \in Nat
      /\ Cardinality(Behind(t, i)) <= Cardinality(Spans(t))
  <2>1. Behind(t, i) \in SUBSET Spans(t) /\ IsFiniteSet(Spans(t))
    BY SpansFinite DEF Behind
  <2> QED  BY <2>1, SpansFinite, FS_Subset
<1>2. Words(t) \in Seq(V) /\ Len(Words(t)) = Cardinality(Spans(t))
  BY WordsAre
<1>3. Len(w) = Cardinality(Behind(t, i)) /\ \A m \in 1..Len(w) : w[m] = Words(t)[m]
  BY DEF FirstWords
<1> HIDE DEF V, Spelling
<1>4. /\ SubSeq(Words(t), 1, Len(w)) \in Seq(V) /\ Len(SubSeq(Words(t), 1, Len(w))) = Len(w)
      /\ \A m \in 1..Len(w) : SubSeq(Words(t), 1, Len(w))[m] = Words(t)[m]
  <2>1. Len(w) \in Nat /\ Len(w) <= Len(Words(t))
    BY <1>1, <1>2, <1>3
  <2>2. \A m \in 1..Len(w) : Words(t)[m] \in V
    BY <1>2, <2>1
  <2> QED  BY <1>2, <2>1, <2>2, SubSeqProperties, Z3
<1> QED  BY <1>3, <1>4, SameElements

\* Behind the word in progress there is one word more, which is that word.
LEMMA WordAdded ==
  ASSUME text \in Seq(Char), NEW i \in 1..(Len(text) + 1), NEW k \in i..(Len(text) + 1),
         Stands(i, k), i < k, k <= Len(text) => text[k] \in Space,
         NEW w \in Seq(Spelling), FirstWords(w, Cardinality(Behind(text, i)), text)
  PROVE  FirstWords(Append(w, Word), Cardinality(Behind(text, k)), text)
<1>1. Len(text) \in Nat /\ i \in Nat /\ k \in Nat /\ i <= Len(text)
  OBVIOUS
<1>2. i \in 1..Len(text) /\ k \in (i + 1)..(Len(text) + 1) /\ i # k
  BY <1>1
<1>3. (i = 1 \/ text[i - 1] \in Space) /\ \A j \in i..(k - 1) : text[j] \notin Space
  BY <1>2 DEF Stands
<1>4. PICK n : /\ n = Cardinality(Behind(text, i)) + 1 /\ n = Cardinality(Behind(text, k))
               /\ Words(text)[n] = SubSeq(text, i, k - 1)
  BY <1>2, <1>3, NextWord
<1>5. Word = SubSeq(text, i, k - 1)
  BY <1>2, WordAt
<1>6. Cardinality(Behind(text, i)) \in Nat
  BY SpansFinite DEF Behind
<1>7. Len(w) = n - 1 /\ \A m \in 1..(n - 1) : w[m] = Words(text)[m]
  BY <1>4, <1>6 DEF FirstWords
<1> HIDE DEF Spelling
<1>8. Len(Append(w, Word)) = n /\ \A m \in 1..n : Append(w, Word)[m] = Words(text)[m]
  <2>1. n \in Nat /\ n - 1 = Len(w) /\ n = Len(w) + 1
    BY <1>4, <1>6, <1>7
  <2>2. Len(Append(w, Word)) = Len(w) + 1 /\ Append(w, Word)[Len(w) + 1] = Word
    BY AppendProperties
  <2>3. \A m \in 1..Len(w) : Append(w, Word)[m] = w[m]
    BY AppendProperties
  <2>4. ASSUME NEW m \in 1..n
        PROVE  m = n \/ m \in 1..(n - 1)
    BY <2>1
  <2> QED  BY <1>4, <1>5, <1>7, <2>1, <2>2, <2>3, <2>4
<1> QED  BY <1>4, <1>8 DEF FirstWords

\* So far the words of the open file were read that are behind where parse_file stands.
StandsBehind(w) ==
  \E i \in 1..(Len(text) + 1) : \E k \in i..(Len(text) + 1) :
    Stands(i, k) /\ FirstWords(w, Cardinality(Behind(text, i)), text)

WordsInv ==
  /\ stage = "read" =>
       /\ text = files[file_iteration]
       /\ Narrow(text) => StandsBehind(seen[file_iteration])
  /\ ReadsWords

\* The types of what the words depend on.
LEMMA WordsType ==
  ASSUME IntersectInv
  PROVE  /\ text \in Seq(Char) /\ seen \in Seq(Seq(Spelling)) /\ files \in Seq(Texts)
         /\ file_iteration \in 0..Len(files) /\ Texts \in SUBSET Seq(Char)
         /\ stage # "died" => Len(seen) = file_iteration
         /\ stage = "read" => file_iteration \in 1..Len(files) /\ Word \in Spelling
<1>1. IntersectTypeOK /\ Texts \in SUBSET Seq(Char)
  BY IntersectAssumption DEF IntersectInv
<1> HIDE DEF Spelling
<1>2. /\ text \in Seq(Char) /\ seen \in Seq(Seq(Spelling)) /\ files \in Seq(Texts)
      /\ file_iteration \in 0..Len(files) /\ word_start \in Nat /\ word_end \in Nat
      /\ stage # "died" => Len(seen) = file_iteration
      /\ stage = "read" => file_iteration > 0
  BY <1>1 DEF IntersectTypeOK
<1>3. Word \in Spelling
  BY <1>2, WordType
<1> QED  BY <1>1, <1>2, <1>3

\* A round of the loop.
LEMMA ReadWords == IntersectInv /\ WordsInv /\ read => WordsInv'
<1> SUFFICES ASSUME IntersectInv, WordsInv, read
             PROVE  WordsInv'
  OBVIOUS
<1> DEFINE f == file_iteration
<1>1. /\ files' = files /\ file_iteration' = f /\ stage = "read" /\ stage' = "read" /\ text' = text
      /\ \/ letter /\ seen' = seen
         \/ blank /\ seen' = seen
         \/ separator /\ seen' = [seen EXCEPT ![f] = Append(@, Word)]
  BY DEF read, letter, blank, separator, put_key_val_adv
<1>2. /\ text \in Seq(Char) /\ seen \in Seq(Seq(Spelling)) /\ Len(seen) = f /\ f \in Nat \ {0}
      /\ Word \in Spelling
  BY <1>1, WordsType
<1> HIDE DEF Spelling
<1>3. /\ DOMAIN seen = 1..f /\ f \in DOMAIN seen /\ seen[f] \in Seq(Spelling)
      /\ DOMAIN seen' = 1..f /\ seen'[f] \in Seq(Spelling)
      /\ \A j \in 1..f : j # f => seen'[j] = seen[j]
      /\ separator => seen'[f] = seen[f] \/ seen'[f] = Append(seen[f], Word)
  <2>1. DOMAIN seen = 1..f /\ f \in DOMAIN seen /\ seen[f] \in Seq(Spelling)
    BY <1>2
  <2>2. Append(seen[f], Word) \in Seq(Spelling)
    BY <1>2, <2>1
  <2>3. CASE seen' = seen
    BY <2>1, <2>3
  <2>4. CASE seen' = [seen EXCEPT ![f] = Append(@, Word)]
    BY <2>1, <2>2, <2>4
  <2> QED  BY <1>1, <2>3, <2>4
<1>4. ASSUME Narrow(text)
      PROVE  StandsBehind(seen[f])'
  <2>1. PICK i \in 1..(Len(text) + 1) : \E k \in i..(Len(text) + 1) :
               Stands(i, k) /\ FirstWords(seen[f], Cardinality(Behind(text, i)), text)
    BY <1>1, <1>4 DEF WordsInv, StandsBehind
  <2>2. PICK k \in i..(Len(text) + 1) :
               Stands(i, k) /\ FirstWords(seen[f], Cardinality(Behind(text, i)), text)
    BY <2>1
  <2>3. ASSUME NEW a \in 1..(Len(text) + 1), NEW b \in a..(Len(text) + 1), Stands(a, b)',
               FirstWords(seen'[f], Cardinality(Behind(text, a)), text)
        PROVE  StandsBehind(seen[f])'
    BY <1>1, <2>3 DEF StandsBehind, FirstWords
  <2>4. CASE letter /\ seen' = seen
    <3>1. k + 1 \in i..(Len(text) + 1) /\ Stands(i, k + 1)'
      BY <1>2, <2>2, <2>4, LetterStands
    <3> QED  BY <2>2, <2>3, <2>4, <3>1
  <2>5. CASE blank /\ seen' = seen
    <3>1. /\ i \in 1..Len(text) /\ text[i] \in Space
          /\ i + 1 \in 1..(Len(text) + 1) /\ i + 1 \in (i + 1)..(Len(text) + 1)
          /\ Stands(i + 1, i + 1)'
      BY <1>2, <2>2, <2>5, BlankStands
    <3>2. Behind(text, i + 1) = Behind(text, i)
      BY <1>2, <3>1, SpaceSkipped
    <3> QED  BY <2>2, <2>3, <2>5, <3>1, <3>2
  <2>6. CASE separator /\ seen' = [seen EXCEPT ![f] = Append(@, Word)]
    <3>1. /\ i < k /\ k \in 1..Len(text) /\ text[k] \in Space
          /\ Stands(k, k)' \/ Stands(k + 1, k + 1)'
      BY <1>2, <1>4, <2>2, <2>6, SeparatorStands
    <3>2. FirstWords(Append(seen[f], Word), Cardinality(Behind(text, k)), text)
      BY <1>2, <1>3, <2>2, <3>1, WordAdded
    <3>3. seen'[f] = Append(seen[f], Word)
      BY <1>3, <2>6
    <3>4. Behind(text, k + 1) = Behind(text, k)
      BY <1>2, <3>1, SpaceSkipped
    <3>5. /\ k \in 1..(Len(text) + 1) /\ k \in k..(Len(text) + 1)
          /\ k + 1 \in 1..(Len(text) + 1) /\ k + 1 \in (k + 1)..(Len(text) + 1)
      BY <1>2, <3>1
    <3> QED  BY <2>3, <3>1, <3>2, <3>3, <3>4, <3>5
  <2> QED  BY <1>1, <2>4, <2>5, <2>6
<1>5. text' = files'[file_iteration'] /\ text = files[f]
  BY <1>1 DEF WordsInv
<1>6. ASSUME NEW j \in 1..f, Narrow(files[j])
      PROVE  IF j = f THEN seen'[j] = SubSeq(Words(files[j]), 1, Len(seen'[j]))
                      ELSE seen'[j] = Words(files[j])
  <2>1. CASE j = f
    <3>1. StandsBehind(seen[f])'
      BY <1>4, <1>5, <1>6, <2>1
    <3>2. PICK i \in 1..(Len(text) + 1) : FirstWords(seen'[f], Cardinality(Behind(text, i)), text)
      BY <1>1, <3>1 DEF StandsBehind, FirstWords
    <3> QED  BY <1>2, <1>3, <1>5, <2>1, <3>2, SomeWords
  <2>2. CASE j # f
    <3>1. seen[j] = Words(files[j])
      BY <1>1, <1>3, <1>6, <2>2 DEF WordsInv, ReadsWords
    <3> QED  BY <1>3, <2>2, <3>1
  <2> QED  BY <2>1, <2>2
<1>7. ReadsWords'
  BY <1>1, <1>3, <1>6 DEF ReadsWords
<1>8. Narrow(text)' => StandsBehind(seen[f])'
  BY <1>1, <1>4
<1> QED  BY <1>1, <1>5, <1>7, <1>8 DEF WordsInv

\* At the end of the file all its words were read.
LEMMA ReadEndWords == IntersectInv /\ WordsInv /\ read_end => WordsInv'
<1> SUFFICES ASSUME IntersectInv, WordsInv, read_end
             PROVE  WordsInv'
  OBVIOUS
<1> DEFINE f == file_iteration
<1>1. /\ files' = files /\ file_iteration' = f /\ stage = "read" /\ stage' # "read"
      /\ \/ at_end /\ in_word /\ seen' = [seen EXCEPT ![f] = Append(@, Word)]
         \/ at_end /\ ~in_word /\ seen' = seen
         \/ cut_short /\ seen' = seen
  BY DEF read_end, put_key_val_adv, AfterFile
<1>2. /\ text \in Seq(Char) /\ seen \in Seq(Seq(Spelling)) /\ Len(seen) = f /\ f \in Nat \ {0}
      /\ Word \in Spelling
  BY <1>1, WordsType
<1> HIDE DEF Spelling
<1>3. /\ DOMAIN seen = 1..f /\ f \in DOMAIN seen /\ seen[f] \in Seq(Spelling)
      /\ DOMAIN seen' = 1..f /\ \A j \in 1..f : j # f => seen'[j] = seen[j]
      /\ Append(seen[f], Word) \in Seq(Spelling)
  <2>1. DOMAIN seen = 1..f /\ f \in DOMAIN seen /\ seen[f] \in Seq(Spelling)
    BY <1>2
  <2>2. Append(seen[f], Word) \in Seq(Spelling)
    BY <1>2, <2>1
  <2>3. CASE seen' = seen
    BY <2>1, <2>2, <2>3
  <2>4. CASE seen' = [seen EXCEPT ![f] = Append(@, Word)]
    BY <2>1, <2>2, <2>4
  <2> QED  BY <1>1, <2>3, <2>4
<1>4. text = files[f]
  BY <1>1 DEF WordsInv
<1>5. ASSUME Narrow(text)
      PROVE  seen'[f] = Words(text)
  <2>1. PICK i \in 1..(Len(text) + 1) : \E k \in i..(Len(text) + 1) :
               Stands(i, k) /\ FirstWords(seen[f], Cardinality(Behind(text, i)), text)
    BY <1>1, <1>5 DEF WordsInv, StandsBehind
  <2>2. PICK k \in i..(Len(text) + 1) :
               Stands(i, k) /\ FirstWords(seen[f], Cardinality(Behind(text, i)), text)
    BY <2>1
  <2>3. ~cut_short /\ k = Len(text) + 1 /\ (in_word <=> i # k)
    BY <1>1, <1>2, <1>5, <2>2, NoneCut, StandsAt
  <2>4. Behind(text, k) = Spans(text)
    BY <1>2, <2>3, BehindEnds
  <2>5. CASE i = k
    <3>1. seen'[f] = seen[f] /\ FirstWords(seen[f], Cardinality(Spans(text)), text)
      BY <1>1, <2>2, <2>3, <2>4, <2>5
    <3> QED  BY <1>2, <1>3, <3>1, AllWords
  <2>6. CASE i # k
    <3>1. i < k /\ ~(k <= Len(text))
      BY <1>2, <2>3, <2>6
    <3>2. FirstWords(Append(seen[f], Word), Cardinality(Behind(text, k)), text)
      BY <1>2, <1>3, <2>2, <3>1, WordAdded
    <3>3. seen'[f] = Append(seen[f], Word)
      BY <1>1, <1>3, <2>3, <2>6
    <3> QED  BY <1>2, <1>3, <2>4, <3>2, <3>3, AllWords
  <2> QED  BY <2>5, <2>6
<1>6. ASSUME NEW j \in 1..f, Narrow(files[j])
      PROVE  seen'[j] = Words(files[j])
  <2>1. CASE j = f
    BY <1>4, <1>5, <1>6, <2>1
  <2>2. CASE j # f
    <3>1. seen[j] = Words(files[j])
      BY <1>1, <1>3, <1>6, <2>2 DEF WordsInv, ReadsWords
    <3> QED  BY <1>3, <2>2, <3>1
  <2> QED  BY <2>1, <2>2
<1>7. ReadsWords'
  BY <1>1, <1>3, <1>6 DEF ReadsWords
<1> QED  BY <1>1, <1>7 DEF WordsInv

\* A file that is opened is read from its first character.
LEMMA OpenWords == IntersectInv /\ WordsInv /\ open => WordsInv'
<1> SUFFICES ASSUME IntersectInv, WordsInv, open
             PROVE  WordsInv'
  OBVIOUS
<1> DEFINE f == file_iteration
           t == files[f + 1]
<1>1. /\ files' = files /\ file_iteration' = f + 1 /\ stage = "open" /\ f < Len(files)
      /\ \/ stage' = "read" /\ parse_file(t) /\ seen' = Append(seen, <<>>)
         \/ stage' = "died" /\ seen' = seen
  BY DEF open
<1>2. /\ seen \in Seq(Seq(Spelling)) /\ Len(seen) = f /\ f \in Nat /\ t \in Seq(Char)
  BY <1>1, WordsType
<1> HIDE DEF Spelling
<1>3. /\ DOMAIN seen = 1..f
      /\ \A j \in 1..f : Narrow(files[j]) => seen[j] = Words(files[j])
  <2>1. DOMAIN seen = 1..f
    BY <1>2
  <2>2. ASSUME NEW j \in 1..f, Narrow(files[j])
        PROVE  seen[j] = Words(files[j])
    BY <1>1, <2>1, <2>2 DEF WordsInv, ReadsWords
  <2> QED  BY <2>1, <2>2
<1>4. CASE stage' = "died" /\ seen' = seen
  BY <1>1, <1>3, <1>4 DEF WordsInv, ReadsWords
<1>5. CASE stage' = "read" /\ parse_file(t) /\ seen' = Append(seen, <<>>)
  <2>1. /\ DOMAIN seen' = 1..(f + 1) /\ seen'[f + 1] = <<>> /\ \A j \in 1..f : seen'[j] = seen[j]
    BY <1>2, <1>5
  <2>2. text' = t /\ pos' = 0 /\ word_start' = 0 /\ word_end' = 0
    BY <1>5 DEF parse_file
  <2> HIDE DEF t
  <2>3. Stands(1, 1)'
    <3>1. Offset(t)[1] = 0 /\ 0 = 0 + (1 - 1) /\ \A j \in 1..(1 - 1) : FALSE
      BY <1>2, OffsetIs
    <3>2. text'= t
      BY <2>2
    <3> QED  BY <2>2, <3>1 DEF Stands
  <2>4. FirstWords(<<>>, Cardinality(Behind(t, 1)), t)
    <3>1. Behind(t, 1) = {}
      BY <1>2, BehindEnds
    <3>2. Cardinality(Behind(t, 1)) = 0
      BY <3>1, FS_EmptySet
    <3> QED  BY <3>2 DEF FirstWords
  <2>5. StandsBehind(seen[file_iteration])'
    <3>1. 1 \in 1..(Len(t) + 1)
      BY <1>2
    <3>2. FirstWords(seen[file_iteration], Cardinality(Behind(text, 1)), text)'
      BY <1>1, <2>1, <2>2, <2>4
    <3> QED  BY <2>2, <2>3, <3>1, <3>2 DEF StandsBehind
  <2>6. <<>> = SubSeq(Words(t), 1, Len(<<>>))
    BY <1>2, WordsAre
  <2>7. ASSUME NEW j \in 1..(f + 1), Narrow(files[j])
        PROVE  IF j = f + 1 THEN seen'[j] = SubSeq(Words(files[j]), 1, Len(seen'[j]))
                            ELSE seen'[j] = Words(files[j])
    <3>1. CASE j = f + 1
      BY <2>1, <2>6, <3>1 DEF t
    <3>2. CASE j # f + 1
      <4>1. j \in 1..f
        BY <1>2, <3>2
      <4> QED  BY <1>3, <2>1, <2>7, <3>2, <4>1
    <3> QED  BY <3>1, <3>2
  <2>8. ReadsWords'
    BY <1>1, <1>5, <2>1, <2>7 DEF ReadsWords
  <2> QED  BY <1>1, <2>2, <2>5, <2>8 DEF WordsInv, t
<1> QED  BY <1>1, <1>4, <1>5

\* No other step reads, and the files are known before the first is opened.
LEMMA OtherWords ==
  ASSUME IntersectInv, WordsInv,
         parse_args \/ intersect_reduce \/ remove_key_val \/ reduced \/ finish \/ UNCHANGED vars
  PROVE  WordsInv'
<1>1. CASE parse_args
  <2>1. stage = "args" /\ stage' # "read" /\ seen' = seen
    BY <1>1 DEF parse_args
  <2>2. Len(seen) = 0 /\ seen \in Seq(Seq(Spelling))
    BY <2>1 DEF IntersectInv, IntersectTypeOK
  <2> HIDE DEF Spelling
  <2>3. DOMAIN seen' = {}
    BY <2>1, <2>2
  <2> QED  BY <2>1, <2>3 DEF WordsInv, ReadsWords
<1>2. CASE intersect_reduce \/ remove_key_val \/ reduced \/ finish
  <2>1. /\ stage # "read" /\ stage' # "read" /\ seen' = seen /\ files' = files
        /\ file_iteration' = file_iteration
    BY <1>2 DEF intersect_reduce, remove_key_val, reduced, finish
  <2> QED  BY <2>1 DEF WordsInv, ReadsWords
<1>3. CASE UNCHANGED vars
  <2>1. /\ stage' = stage /\ seen' = seen /\ files' = files /\ file_iteration' = file_iteration
        /\ text' = text /\ pos' = pos /\ word_start' = word_start /\ word_end' = word_end
    BY <1>3 DEF vars, parser
  <2>2. ReadsWords'
    BY <2>1 DEF WordsInv, ReadsWords
  <2>3. StandsBehind(seen[file_iteration]) => StandsBehind(seen[file_iteration])'
    BY <2>1 DEF StandsBehind, Stands
  <2> QED  BY <2>1, <2>2, <2>3 DEF WordsInv
<1> QED  BY <1>1, <1>2, <1>3

\* The words read from a file are its words in their order, all of them once it has been
\* read, although the stream is set back behind each word by a count of characters
\* (file_parser.c:50-93): for texts without NUL and without a word that has two bytes
\* more than characters.
THEOREM WordsRead == Spec => []ReadsWords
<1>1. Init => WordsInv
  <2>1. Init => stage # "read" /\ seen = <<>>
    BY DEF Init
  <2> QED  BY <2>1 DEF WordsInv, ReadsWords
<1>2. IntersectInv /\ WordsInv /\ [Next]_vars => WordsInv'
  BY ReadWords, ReadEndWords, OpenWords, OtherWords DEF Next
<1>3. WordsInv => ReadsWords
  BY DEF WordsInv
<1> QED  BY <1>1, <1>2, <1>3, IntersectInvHolds, PTL DEF Spec

-----------------------------------------------------------------------------
(***************************************************************************)
(* What is printed, said of the texts.                                     *)
(***************************************************************************)
FileWords(j) == Words(files[j])

\* The keys that every file has.
CommonKeys ==
  {k \in UNION {Keys(FileWords(j)) : j \in DOMAIN files} :
     \A j \in DOMAIN files : k \in Keys(FileWords(j))}

\* The spellings of k, each the first in a file that has k, and the first of every such file.
AllFirst(spellings, k) ==
  /\ \A w \in spellings : \E j \in DOMAIN files : IsFirst(w, k, FileWords(j))
  /\ \A j \in DOMAIN files :
       k \in Keys(FileWords(j)) => \E w \in spellings : IsFirst(w, k, FileWords(j))

\* When the program has ended, and could read its texts, it has printed what they have in
\* common, whatever the case: each word as the first text has it first and, with -a, as
\* every text has it first.
PrintsIntersection ==
  stage = "ended" /\ (\A j \in DOMAIN files : Narrow(files[j])) =>
    /\ DOMAIN output = CommonKeys
    /\ \A k \in DOMAIN output :
         /\ IsFirst(output[k].original, k, FileWords(1))
         /\ IF print_all THEN AllFirst({output[k].original} \cup output[k].others, k)
                          ELSE output[k].others = {}

\* The program ends behind its last file.
EndsBehindLast == stage = "ended" => file_iteration = Len(files)

\* Once it has ended it has read every file.
LEMMA EndsBehind == Spec => []EndsBehindLast
<1>1. Init => EndsBehindLast
  BY DEF Init, EndsBehindLast
<1>2. EndsBehindLast /\ [Next]_vars => EndsBehindLast'
  <2> SUFFICES ASSUME EndsBehindLast, [Next]_vars PROVE EndsBehindLast'
    OBVIOUS
  <2>1. CASE UNCHANGED vars
    BY <2>1 DEF vars, EndsBehindLast
  <2>2. CASE finish
    BY <2>2 DEF finish, EndsBehindLast
  <2>3. CASE parse_args \/ open \/ read
    BY <2>3 DEF parse_args, open, read, EndsBehindLast
  <2>4. CASE read_end
    BY <2>4 DEF read_end, AfterFile, EndsBehindLast
  <2>5. CASE intersect_reduce \/ remove_key_val \/ reduced
    BY <2>5 DEF intersect_reduce, remove_key_val, reduced, EndsBehindLast
  <2> QED  BY <2>1, <2>2, <2>3, <2>4, <2>5 DEF Next
<1> QED  BY <1>1, <1>2, PTL DEF Spec

\* What was read is in the end what the files hold.
LEMMA SeenIsWords ==
  ASSUME IntersectInv, ReadsWords, EndsBehindLast, stage = "ended",
         \A j \in DOMAIN files : Narrow(files[j])
  PROVE  /\ DOMAIN seen = DOMAIN files /\ Len(seen) = Len(files)
         /\ DOMAIN files = 1..Len(files) /\ Len(files) \in Nat
         /\ \A j \in DOMAIN files : seen[j] = FileWords(j)
<1>1. /\ seen \in Seq(Seq(Spelling)) /\ files \in Seq(Texts)
      /\ Len(seen) = file_iteration /\ file_iteration = Len(files)
  BY WordsType DEF EndsBehindLast
<1> HIDE DEF Spelling
<1>2. DOMAIN seen = 1..Len(seen) /\ DOMAIN files = 1..Len(files) /\ Len(files) \in Nat
  BY <1>1
<1>3. \A j \in DOMAIN files : seen[j] = FileWords(j)
  BY <1>1, <1>2 DEF ReadsWords, FileWords
<1> QED  BY <1>1, <1>2, <1>3

\* Once the program has ended, its output is the intersection of its files, for any texts
\* it reads rightly and any number of them (main.c, read_file and intersect_print).
THEOREM PrintsWhatIsCommon == Spec => []PrintsIntersection
<1>1. IntersectInv /\ ReadsWords /\ EndsBehindLast => PrintsIntersection
  <2> SUFFICES ASSUME IntersectInv, ReadsWords, EndsBehindLast, stage = "ended",
                      \A j \in DOMAIN files : Narrow(files[j])
               PROVE  /\ DOMAIN output = CommonKeys
                      /\ \A k \in DOMAIN output :
                           /\ IsFirst(output[k].original, k, FileWords(1))
                           /\ IF print_all
                              THEN AllFirst({output[k].original} \cup output[k].others, k)
                              ELSE output[k].others = {}
    BY DEF PrintsIntersection
  <2>1. /\ DOMAIN seen = DOMAIN files /\ Len(seen) = Len(files)
        /\ DOMAIN files = 1..Len(files) /\ Len(files) \in Nat
        /\ \A j \in DOMAIN files : seen[j] = FileWords(j)
    BY SeenIsWords
  <2>2. /\ DOMAIN output = IF seen = <<>> THEN {} ELSE Common(Len(seen))
        /\ \A k \in DOMAIN output :
             /\ IsFirst(output[k].original, k, seen[1])
             /\ IF print_all THEN FirstSpellings({output[k].original} \cup output[k].others, k)
                             ELSE output[k].others = {}
    BY DEF IntersectInv, Printed
  <2>3. \A S, k : FirstSpellings(S, k) => AllFirst(S, k)
    BY <2>1 DEF FirstSpellings, AllFirst
  <2>4. CASE files = <<>>
    <3>1. DOMAIN files = {} /\ seen = <<>>
      BY <2>1, <2>4, WordsType
    <3> QED  BY <2>2, <3>1 DEF CommonKeys
  <2>5. CASE files # <<>>
    <3>1. 1 \in DOMAIN files /\ seen # <<>>
      BY <2>1, <2>5, WordsType
    <3>2. seen[1] = FileWords(1)
      BY <2>1, <3>1
    <3>3. Common(Len(seen)) = CommonKeys
      BY <2>1, <3>1, <3>2 DEF Common, CommonKeys
    <3> QED  BY <2>2, <2>3, <3>1, <3>2, <3>3
  <2> QED  BY <2>4, <2>5
<1> QED  BY <1>1, IntersectInvHolds, WordsRead, EndsBehind, PTL
=============================================================================
