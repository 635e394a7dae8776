SPECIFICATION FairSpec
CONSTANTS
  e1 = e1
  e2 = e2
  m1 = m1
  o1 = o1
  a1 = a1
  i1 = i1
  Event = {e1}
  Mutex = {}
  Timer = {}
  Address = {}
  Object <- AllObjects
  MaxThreads = 2
  InitThreads = 2
  MaxKey = 2
  TimerOrder <- NoOrder
  WaitLists <- NoLists
  Timeouts <- ForeverOrOne
  TimerArgs <- NoArgs
  Interrupt = {i1}
  MaxTime = 1
  MaxActive = 1
  WordMin <- MinusOne
  WordMax = 0
INVARIANTS NoPanic
PROPERTIES WakesOnlyWaiting TimedWaitEnds InterruptsDrained
