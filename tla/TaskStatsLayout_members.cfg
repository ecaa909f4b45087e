SPECIFICATION Spec

CONSTANTS
  Versions = {7, 8, 9, 10, 11, 300}
  Align64s = {4, 8}
  Null = Null

INVARIANTS
  MembersHoldTheirFields
  CopyIsExact
  ValuesKept

\* The result is complete after the last member.
CHECK_DEADLOCK FALSE
