SPECIFICATION Spec

CONSTANTS
  Messages <- MCMessages
  Nothing = Nothing
  \* As far as the pointer of the nested walk is right; AttrWalk_padded.cfg has
  \* the smallest reply past it.
  MaxNested = 2

INVARIANTS
  TypeOK
  OnBoundary
  FindsFirstStats

PROPERTIES
  Terminates
