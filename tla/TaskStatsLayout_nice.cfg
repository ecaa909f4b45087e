SPECIFICATION Spec

CONSTANTS
  Versions = {7, 8, 9, 10, 11}
  Align64s = {4, 8}
  Null = Null

INVARIANTS
  NiceIsTaskNice

\* The result is complete after the last member.
CHECK_DEADLOCK FALSE
