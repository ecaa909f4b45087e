SPECIFICATION FairSpec

CONSTANTS
  Threads = {t1}
  Fds = {f1}
  Tasks = {k1}
  NoTask = NoTask
  NoFd = NoFd
  NoData = NoData
  Misread = Misread
  Host = Host
  Nobody = Nobody
  NameLen = 2
  RcvBufSz = 0
  FamilyId = 27
  SendMayFail = TRUE
  RecvMayFail = FALSE
  Pads = FALSE

PROPERTIES
  CallsReturn

\* A call whose family request was lost waits forever: every thread may.
CHECK_DEADLOCK FALSE
