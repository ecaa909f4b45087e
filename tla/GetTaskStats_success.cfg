SPECIFICATION Spec

CONSTANTS
  Threads = {t1}
  Fds = {f1}
  Tasks = {k1}
  NoTask = NoTask
  NoFd = NoFd
  NoData = NoData
  Misread = Misread
  Host = Host
  Nobody = Nobody
  NameLen = 2
  RcvBufSz = 0
  FamilyId = 27
  SendMayFail = FALSE
  RecvMayFail = TRUE
  Pads = FALSE

INVARIANTS
  SuccessMeansData
