\* Up to three files out of eight, some missing, some gone when they are opened.
CONSTANTS
  a = a
  A = A
  b = b
  B = B
  e = e
  E = E
  o = o
  NUL = NUL
  Char = {a, A, b, B, e, E, o, NUL}
  Bytes <- EightBytes
  Space = {o}
  Upper <- EightUppers
  Texts <- EightTexts
  Missing = Missing
  MaxArgs = 3
SPECIFICATION FairSpec
INVARIANTS IntersectInv ReadsWords
PROPERTY Ends
\* The program ends, or dies.
CHECK_DEADLOCK FALSE
