SPECIFICATION Spec

CONSTANTS
  Platforms = {x64, x86, arm, arm64, armel}
  TestRid = x64
  None = None

INVARIANTS
  TypeOK
  NoMixedPackage
  ErrorStopsPackaging
  GreenMeansActual

\* The job ends.
CHECK_DEADLOCK FALSE
