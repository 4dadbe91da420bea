SPECIFICATION Spec
CONSTANTS
  t1 = t1
  t2 = t2
  t3 = t3
  mtx = mtx
  sem = sem
  evt = evt
  tmr = tmr
  Thread = {t1, t2}
  Main <- Main2
  MutexSeq <- SeqM
  Semaphore = {}
  Event = {}
  TimerSeq <- NoSeq
  ResetType <- OneShot
  MaxAvailable = 0
  VBlankSeq <- NoSeq
  Requests <- JoinRequests
  WaitModes = {FALSE}
  Timeouts <- Timed
  SleepTimes = {1}
  Closable = {t2}
  CanExit = {t1, t2}
  MaxLock = 1
  MaxWaiting = 2
  IdleTicks = 200
  SystemTicks = 7
PROPERTIES
  StoppedIsFinal
