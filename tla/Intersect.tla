----------------------------- MODULE Intersect ------------------------------
(***************************************************************************)
(* The intersect example: the words common to the files named on the       *)
(* command line, in upper or lower case, each printed as the first file    *)
(* has it (intersect.c, file_parser.c, arg_parser.c, main.c).  A round of  *)
(* the reading loop, a removal and the printing are a step each.           *)
(*                                                                         *)
(* The dictionary is the tree map of tree_map_avl.c, of which TreeMap      *)
(* shows that it is a map from keys: here it is a function, and the words  *)
(* as they are spelled in a dictionary of variations are a set.            *)
(***************************************************************************)
EXTENDS FileParser

CONSTANTS
  Upper,                  \* towupper
  Texts,                  \* what a file may hold
  Missing,                \* an argument that names no regular file
  MaxArgs                 \* bound: arguments

ASSUME IntersectAssumption ==
  /\ Upper \in [Char -> Char]
  /\ Texts \subseteq Seq(Char) /\ Missing \notin Texts /\ MaxArgs \in Nat

VARIABLES
  argv, print_all,        \* the command line: the files, and option -a
  files,                  \* file_tracker_t
  index,                  \* of the loop of parse_args
  file_iteration,         \* intersect_t
  stage,                  \* of read_file: "args", "open", "read", "reduce", "remove",
                          \* "ended", or "died"
  dict, count,            \* dict_t: its tree, as a function, and its count
  doomed,                 \* reduce_t: keys of the copies in reduce_list not yet handled
  size,                   \* reduce_t: the entries reduce_list has room for
  payloads,               \* payloads of create_intersect_payload not freed
  output,                 \* what was printed: for each key a word and its variations
  seen                    \* history: the words read from each file opened so far

command == <<argv, print_all>>
dictionary == <<dict, count, payloads>>
reduction == <<doomed, size>>
vars == <<command, index, files, file_iteration, stage, dictionary, reduction, output, parser, seen>>

\* collation_value, which stands for the word in upper case
Key(w) == [k \in DOMAIN w |-> Upper[w[k]]]

Nothing == [k \in {} |-> {}]

Init ==
  /\ argv \in UNION {[1..n -> Texts \cup {Missing}] : n \in 0..MaxArgs}
  /\ print_all \in BOOLEAN
  /\ index = 1 /\ files = <<>> /\ file_iteration = 0 /\ stage = "args"
  /\ dict = Nothing /\ count = 0 /\ doomed = {} /\ size = 0 /\ payloads = 0
  /\ output = Nothing /\ seen = <<>>
  /\ text = <<>> /\ pos = 0 /\ word_start = 0 /\ word_end = 0

\* An argument that names no file is skipped; without any, main goes on all the same.
parse_args ==
  /\ stage = "args"
  /\ \/ /\ index <= Len(argv) /\ argv[index] # Missing
        /\ files' = Append(files, argv[index]) /\ index' = index + 1
        /\ UNCHANGED stage
     \/ /\ index <= Len(argv) /\ argv[index] = Missing
        /\ index' = index + 1
        /\ UNCHANGED <<files, stage>>
     \/ /\ index > Len(argv)
        /\ stage' = "open"
        /\ UNCHANGED <<files, index>>
  /\ UNCHANGED <<command, file_iteration, dictionary, reduction, output, parser, seen>>

-----------------------------------------------------------------------------
(***************************************************************************)
(* The dictionary.                                                         *)
(***************************************************************************)
\* intersect_adv_add on a key the dictionary has not: the first file adds it.
add_new(w) ==
  /\ Key(w) \notin DOMAIN dict
  /\ \/ /\ file_iteration = 1
        /\ dict' = [k \in DOMAIN dict \cup {Key(w)} |->
                      IF k = Key(w) THEN [original |-> w, file_count |-> 1, variations |-> {w}]
                                    ELSE dict[k]]
        /\ count' = count + 1 /\ payloads' = payloads + 1
     \/ /\ file_iteration # 1
        /\ UNCHANGED dictionary

\* On a key recorded for this file before.  The callback says no, yet insert_node has
\* set global_result, and put_key_val_adv counts an insertion.
add_again(w) ==
  /\ Key(w) \in DOMAIN dict /\ dict[Key(w)].file_count = file_iteration
  /\ count' = count + 1
  /\ UNCHANGED <<dict, payloads>>

\* A plausible slip: the variation is recorded, not the file it is of.
add_matchUncounted(w) ==
  /\ Key(w) \in DOMAIN dict /\ dict[Key(w)].file_count # file_iteration
  /\ dict' = [dict EXCEPT ![Key(w)].variations = @ \cup {w}]
  /\ UNCHANGED <<count, payloads>>

\* On the first match of this file.  The callback says yes, yet its insertion of the
\* variation has reset global_result, and put_key_val_adv counts nothing.
add_match(w) ==
  /\ Key(w) \in DOMAIN dict /\ dict[Key(w)].file_count # file_iteration
  /\ dict' = [dict EXCEPT ![Key(w)] =
                [dict[Key(w)] EXCEPT !.file_count = file_iteration, !.variations = @ \cup {w}]]
  /\ UNCHANGED <<count, payloads>>

\* The new payload is in the dictionary afterwards, or it was freed.
put_key_val_adv(w) ==
  /\ add_new(w) \/ add_again(w) \/ add_match(w)
  /\ seen' = [seen EXCEPT ![file_iteration] = Append(@, w)]

-----------------------------------------------------------------------------
(***************************************************************************)
(* read_file.                                                              *)
(***************************************************************************)
\* parse_args saw the file, which may be gone: fopen is not asked whether it worked.
open ==
  /\ stage = "open" /\ file_iteration < Len(files)
  /\ \/ /\ stage' = "read"
        /\ parse_file(files[file_iteration + 1])
        /\ seen' = Append(seen, <<>>)
     \/ /\ stage' = "died"
        /\ UNCHANGED <<parser, seen>>
  /\ file_iteration' = file_iteration + 1
  /\ UNCHANGED <<command, index, files, dictionary, reduction, output>>

read ==
  /\ stage = "read"
  /\ \/ (letter \/ blank) /\ UNCHANGED <<dictionary, seen>>
     \/ separator /\ put_key_val_adv(Word)
  /\ UNCHANGED <<command, index, files, file_iteration, stage, reduction, output>>

AfterFile == IF file_iteration > 1 THEN "reduce" ELSE "open"

read_end ==
  /\ stage = "read" /\ stage' = AfterFile
  /\ \/ at_end /\ in_word /\ put_key_val_adv(Word)
     \/ at_end /\ ~in_word /\ UNCHANGED <<dictionary, seen>>
     \/ cut_short /\ UNCHANGED <<dictionary, seen>>
  /\ UNCHANGED <<command, index, files, file_iteration, reduction, output, parser>>

\* reduce_list gets a copy of each payload this file did not match.
intersect_reduce ==
  /\ stage = "reduce" /\ stage' = "remove"
  /\ size' = count
  /\ doomed' = {k \in DOMAIN dict : dict[k].file_count # file_iteration}
  /\ payloads' = payloads + Cardinality(doomed')
  /\ UNCHANGED <<command, index, files, file_iteration, dict, count, output, parser, seen>>

\* They are removed in the order the tree was visited in, which is any order here.
\* The payload goes, and its copy.
remove_key_val ==
  /\ stage = "remove"
  /\ \E k \in doomed :
       /\ dict' = [j \in DOMAIN dict \ {k} |-> dict[j]]
       /\ doomed' = doomed \ {k}
  /\ count' = count - 1 /\ payloads' = payloads - 2
  /\ UNCHANGED <<command, index, files, file_iteration, stage, size, output, parser, seen>>

reduced ==
  /\ stage = "remove" /\ doomed = {} /\ stage' = "open"
  /\ UNCHANGED <<command, index, files, file_iteration, dictionary, reduction, output, parser, seen>>

\* The word as the first file has it, and with -a the others it was spelled like.
intersect_print(k) ==
  [original |-> dict[k].original,
   others |-> IF print_all THEN dict[k].variations \ {dict[k].original} ELSE {}]

finish ==
  /\ stage = "open" /\ file_iteration = Len(files) /\ stage' = "ended"
  /\ output' = [k \in DOMAIN dict |-> intersect_print(k)]
  /\ dict' = Nothing /\ count' = 0
  /\ payloads' = payloads - Cardinality(DOMAIN dict)
  /\ UNCHANGED <<command, index, files, file_iteration, reduction, parser, seen>>

Next ==
  \/ parse_args \/ open \/ read \/ read_end
  \/ intersect_reduce \/ remove_key_val \/ reduced \/ finish

Spec == Init /\ [][Next]_vars

\* One thread, which goes on until it ends.
FairSpec == Spec /\ WF_vars(Next)

-----------------------------------------------------------------------------
Spelling == Seq(Char)

Entry == [original : Spelling, file_count : Nat, variations : SUBSET Spelling]

\* Every key of the dictionary has an entry, and nothing refers to a file not read.
IntersectTypeOK ==
  /\ argv \in Seq(Texts \cup {Missing}) /\ print_all \in BOOLEAN
  /\ index \in Nat \ {0} /\ files \in Seq(Texts)
  /\ file_iteration \in 0..Len(files)
  /\ stage \in {"args", "open", "read", "reduce", "remove", "ended", "died"}
  /\ dict \in [DOMAIN dict -> Entry] /\ DOMAIN dict \subseteq Spelling
  /\ IsFiniteSet(DOMAIN dict) /\ doomed \subseteq DOMAIN dict
  /\ stage # "remove" => doomed = {}
  /\ count \in Nat /\ size \in Nat /\ payloads \in Nat
  /\ text \in Seq(Char) /\ pos \in Nat /\ word_start \in Nat /\ word_end \in Nat
  /\ seen \in Seq(Seq(Spelling))
  /\ stage = "args" => file_iteration = 0
  /\ stage \in {"read", "reduce", "remove"} => file_iteration > 0
  /\ stage # "died" => Len(seen) = file_iteration

\* The count of the dictionary, which is wrong for two of the four outcomes of an
\* insertion, never falls below the number of keys: the list intersect_reduce sizes
\* by it has room for all it collects (intersect.c:58-77, tree_map_avl.c:75-88).
RoomToReduce ==
  /\ count >= Cardinality(DOMAIN dict)
  /\ size >= Cardinality(doomed)

\* Each payload is in the dictionary or a copy in reduce_list: intersect_adv_add
\* neither loses one, as the note in it fears, nor frees one it keeps.
NoneLost == payloads = Cardinality(DOMAIN dict) + Cardinality(doomed)

Keys(words) == {Key(words[n]) : n \in DOMAIN words}

\* The keys the first n files have in common.
Common(n) == {k \in Keys(seen[1]) : \A j \in 1..n : k \in Keys(seen[j])}

\* w is how words spell key k first.
IsFirst(w, k, words) ==
  \E n \in DOMAIN words :
    /\ words[n] = w /\ Key(w) = k
    /\ \A m \in 1..(n - 1) : Key(words[m]) # k

\* The first spelling of k in each file that has it, and no other.
FirstSpellings(spellings, k) ==
  /\ \A w \in spellings : \E j \in DOMAIN seen : IsFirst(w, k, seen[j])
  /\ \A j \in DOMAIN seen :
       k \in Keys(seen[j]) => \E w \in spellings : IsFirst(w, k, seen[j])

\* The keys of the dictionary while a file is read are those the files before it have
\* in common, and once it is reduced those this file has as well.
KeysInCommon ==
  /\ file_iteration = 0 /\ stage # "ended" => dict = Nothing
  /\ stage = "open" /\ file_iteration > 0 => DOMAIN dict = Common(file_iteration)
  /\ stage \in {"read", "reduce"} =>
       DOMAIN dict = Common(IF file_iteration = 1 THEN 1 ELSE file_iteration - 1)
  /\ stage = "remove" =>
       /\ DOMAIN dict = Common(file_iteration) \cup doomed
       /\ Common(file_iteration) \cap doomed = {}

\* The entry of k has the spelling of the first file, those of the others, and the number
\* of the last file that has k.
Told(k) ==
  /\ IsFirst(dict[k].original, k, seen[1])
  /\ FirstSpellings(dict[k].variations, k)
  /\ dict[k].file_count = IF k \in Keys(seen[file_iteration]) THEN file_iteration
                                                           ELSE file_iteration - 1

\* That is so of every entry, whatever order the words were read in.
EntriesTold ==
  stage \in {"open", "read", "reduce", "remove"} => \A k \in DOMAIN dict : Told(k)

\* What is printed is what all the files have in common, whatever the case: each word
\* as the first file has it and, with -a, as any file has it first.
Printed ==
  stage = "ended" =>
    /\ DOMAIN output = IF seen = <<>> THEN {} ELSE Common(Len(seen))
    /\ \A k \in DOMAIN output :
         /\ IsFirst(output[k].original, k, seen[1])
         /\ IF print_all THEN FirstSpellings({output[k].original} \cup output[k].others, k)
                          ELSE output[k].others = {}

\* The six together.
IntersectInv ==
  IntersectTypeOK /\ RoomToReduce /\ NoneLost /\ KeysInCommon /\ EntriesTold /\ Printed

\* The words read from a file are its words, in their order, all of them once it has
\* been read: if no word of it has two bytes more than it has letters, behind which
\* the stream is not set to where the next word starts (file_parser.c:50-93).
ReadsWords ==
  \A j \in DOMAIN seen :
    LET words == Words(files[j]) IN
    Narrow(files[j]) =>
      IF j = file_iteration /\ stage = "read" THEN seen[j] = SubSeq(words, 1, Len(seen[j]))
                                              ELSE seen[j] = words

\* The program ends, although it sets its stream back behind each word, or dies on a
\* file that is gone.
Ends == <>(stage \in {"ended", "died"})
=============================================================================
