SPECIFICATION Spec
CONSTANTS
  t1 = t1
  t2 = t2
  t3 = t3
  mtx = mtx
  sem = sem
  evt = evt
  tmr = tmr
  Thread = {t1, t2, t3}
  Main <- Main2
  MutexSeq <- SeqM
  Semaphore = {}
  Event = {}
  TimerSeq <- NoSeq
  ResetType <- OneShot
  MaxAvailable = 0
  VBlankSeq <- NoSeq
  Requests <- JoinRequests
  WaitModes = {FALSE}
  Timeouts <- Untimed
  SleepTimes = {1}
  Closable = {mtx, t2, t3}
  CanExit = {t1, t2, t3}
  MaxLock = 2
  MaxWaiting = 2
  IdleTicks = 200
  SystemTicks = 7
INVARIANTS
  AssertionsHold
  NoLostWakeup
  MutexOwnerLives
PROPERTIES
  StoppedIsFinal
