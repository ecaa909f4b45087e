SPECIFICATION FairSpec

CONSTANTS
  Threads = {t1, t2}
  Fds = {f1, f2}
  Tasks = {k1, k2}
  NoTask = NoTask
  NoFd = NoFd
  NoData = NoData
  Misread = Misread
  Host = Host
  Nobody = Nobody
  NameLen = 2
  RcvBufSz = 1
  FamilyId = 27
  SendMayFail = TRUE
  RecvMayFail = TRUE
  Pads = TRUE

INVARIANTS
  TypeOK
  UsesOwnSocket
  FamilyNameIsWhole
  AnswerIsOurs
  FailedCallCopiesNothing
  StatsRecvIsFed
PROPERTIES
  HostFilesSurvive
  ImplementsService
  BlocksOnlyOnLostRequest

\* A call whose family request was lost waits forever: every thread may.
CHECK_DEADLOCK FALSE
