---------------------------- MODULE MCIntersect -----------------------------
(***************************************************************************)
(* A small instance of Intersect for TLC.                                  *)
(***************************************************************************)
EXTENDS Intersect

\* e and E are letters of two bytes, o is a space.
CONSTANTS a, A, b, B, e, E, o

EightBytes == [c \in Char |-> IF c \in {e, E} THEN 2 ELSE 1]

EightUppers == [c \in Char |-> IF c = a THEN A ELSE IF c = b THEN B ELSE IF c = e THEN E ELSE c]

EightTexts == {
  <<>>,
  <<a, o, b>>, <<A, o, a, o, B>>, <<b, NUL, a>>,
  <<o, B, o, e, a, o, A>>, <<E, A, o, o, a>>,    \* letters of two bytes, one in a word
  <<e, e, a, o, b>>, <<e, e, o, a>>}             \* two: a is read again; the rest is lost
=============================================================================
