----------------------------- MODULE FileParser -----------------------------
(***************************************************************************)
(* How parse_file of the intersect example (file_parser.c) finds the words *)
(* of a file.  It reads character by character and counts characters, but  *)
(* seeks in bytes: both positions are kept apart here.  What is done with  *)
(* a word is left to Intersect.                                            *)
(***************************************************************************)
EXTENDS Integers, Sequences, FiniteSets

CONSTANTS
  Char,                   \* the characters of the files
  Bytes,                  \* how many bytes each takes in UTF-8
  Space,                  \* what iswspace accepts
  NUL                     \* the character 0

\* White space of more than one byte is not modelled.
ASSUME FileParserAssumption ==
  /\ Bytes \in [Char -> 1..4]
  /\ Space \subseteq Char /\ \A c \in Space : Bytes[c] = 1
  /\ NUL \in Char \ Space

VARIABLES
  text,                   \* the characters of the open file
  pos,                    \* where the stream stands, in bytes
  word_start, word_end    \* ints of parse_file, counted in characters

parser == <<text, pos, word_start, word_end>>

\* The byte each character of t starts at, and the one behind the last.
Offset(t) == LET f[k \in 1..(Len(t) + 1)] == IF k = 1 THEN 0 ELSE f[k - 1] + Bytes[t[k - 1]]
             IN  f

\* The character that starts at byte b of the file, if one does.
At(b) == {k \in 1..Len(text) : Offset(text)[k] = b}

\* What fgetwc finds: the end of the file, bytes that are no character, or one.
fgetwc ==
  IF pos >= Offset(text)[Len(text) + 1] THEN "feof"
  ELSE IF At(pos) = {} THEN "ferror" ELSE "character"

character(c) == fgetwc = "character" /\ \E k \in At(pos) : text[k] = c

in_word == word_end # word_start

\* The n characters fgetws reads from byte b on, or as many as there are.
fgetws(b, n) ==
  LET first == Cardinality({k \in 1..Len(text) : Offset(text)[k] < b}) + 1
      last == first + n - 1
  IN  SubSeq(text, first, IF last <= Len(text) THEN last ELSE Len(text))

\* A plausible slip: fgetws is not given room for the terminator.
WordCut == fgetws(word_start, word_end - word_start - 1)

Word == fgetws(word_start, word_end - word_start)

-----------------------------------------------------------------------------
parse_file(t) == text' = t /\ pos' = 0 /\ word_start' = 0 /\ word_end' = 0

letter ==
  /\ \E c \in Char \ (Space \cup {NUL}) : character(c) /\ pos' = pos + Bytes[c]
  /\ word_end' = word_end + 1
  /\ UNCHANGED <<text, word_start>>

blank ==
  /\ ~in_word /\ \E c \in Space : character(c)
  /\ pos' = pos + 1 /\ word_end' = word_end + 1 /\ word_start' = word_end'
  /\ UNCHANGED text

\* Behind a word the stream is set to the byte whose number is one above the
\* count of characters: a letter of more than one byte leaves it short of there.
Seek == word_end + 1

separator ==
  /\ in_word /\ \E c \in Space : character(c)
  /\ pos' = Seek /\ word_start' = Seek /\ word_end' = Seek
  /\ UNCHANGED text

\* The loop ends at the end of the file; at bytes that are no character, or a NUL,
\* it ends as well and the word in progress is dropped.
at_end == fgetwc = "feof"

\* A plausible slip: ferror is not asked.  The loop would then count on for ever.
cut_shortByNUL == character(NUL)

cut_short == fgetwc = "ferror" \/ character(NUL)

-----------------------------------------------------------------------------
\* The words of a text: its longest runs of characters that are no white space.
Spans(t) ==
  {s \in (1..Len(t)) \X (1..Len(t)) :
     /\ s[1] <= s[2] /\ \A k \in s[1]..s[2] : t[k] \notin Space
     /\ s[1] > 1 => t[s[1] - 1] \in Space
     /\ s[2] < Len(t) => t[s[2] + 1] \in Space}

Words(t) ==
  LET nth(n) == CHOOSE s \in Spans(t) : Cardinality({r \in Spans(t) : r[1] < s[1]}) = n - 1
  IN  [n \in 1..Cardinality(Spans(t)) |-> SubSeq(t, nth(n)[1], nth(n)[2])]

\* No NUL, and no word before a separator with two bytes more than characters.
Narrow(t) ==
  /\ \A k \in DOMAIN t : t[k] # NUL
  /\ \A s \in Spans(t) :
       s[2] < Len(t) => Offset(t)[s[2] + 1] - Offset(t)[s[1]] <= s[2] - s[1] + 2
=============================================================================
