SPECIFICATION Spec

CONSTANTS
  Messages <- PaddedMessages
  Nothing = Nothing
  MaxNested = 2

INVARIANTS
  OnBoundary
