SPECIFICATION FairSpec
CONSTANTS
  t1 = t1
  t2 = t2
  t3 = t3
  mtx = mtx
  sem = sem
  evt = evt
  tmr = tmr
  Thread = {t1, t2}
  Main <- Main2
  MutexSeq <- NoSeq
  Semaphore = {sem}
  Event = {evt}
  TimerSeq <- SeqK
  ResetType <- PulseTimer
  MaxAvailable = 2
  VBlankSeq <- SeqE
  Requests <- TimerRequests
  WaitModes = {FALSE}
  Timeouts <- Timed1
  SleepTimes = {0, 2}
  Closable = {}
  CanExit = {}
  MaxLock = 0
  MaxWaiting = 1
  IdleTicks = 200
  SystemTicks = 7
PROPERTIES
  TimeoutsEnd
