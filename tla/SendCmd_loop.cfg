SPECIFICATION Spec

CONSTANTS
  DataLens = {4, 10}

INVARIANTS
  TypeOK
  SentInOrder

PROPERTIES
  Finishes
