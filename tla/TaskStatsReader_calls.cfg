SPECIFICATION ReaderSpec

CONSTANTS
  Threads = {t1, t2}
  Fds = {f1, f2}
  main = main
  worker = worker
  other = other
  Tasks <- MCTasks
  Tgid <- MCTgid
  Self = main
  NoTask = NoTask
  NoFd = NoFd
  NoData = NoData
  Misread = Misread
  Host = Host
  Nobody = Nobody
  Null = Null
  Idle = Idle
  NameLen = 1
  RcvBufSz = 0
  FamilyId = 27
  SendMayFail = TRUE
  RecvMayFail = TRUE
  Pads = TRUE
  KernelVersion = 9
  Garbage = 77
  Half = 65536

INVARIANTS
  ReaderTypeOK
  NeverAnotherProcess
  NoLeak
  VersionIsTheKernels
