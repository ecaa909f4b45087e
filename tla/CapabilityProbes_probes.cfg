SPECIFICATION ProbesFairSpec

CONSTANTS
  Threads = {t1, t2}
  t1 = t1
  k1 = k1
  k2 = k2
  Tasks <- MCTasks
  Pid = k1
  TidOf <- MCTidOf
  NoTask = NoTask
  NoData = NoData
  Misread = Misread
  None = None

INVARIANTS
  ProbesTypeOK
  NoDeadlock
  ProbedOnce
  SupportedMeansCallable
PROPERTIES
  PlainReadsReturn
  ReadsWaitOnlyForACall
