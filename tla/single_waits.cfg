SPECIFICATION Spec
CONSTANTS
  e1 = e1
  e2 = e2
  m1 = m1
  o1 = o1
  a1 = a1
  i1 = i1
  Event = {e1}
  Mutex = {}
  Timer = {}
  Address = {a1}
  Object <- AllObjects
  MaxThreads = 3
  InitThreads = 2
  MaxKey = 2
  TimerOrder <- NoOrder
  WaitLists <- NoLists
  Timeouts <- ForeverOnly
  TimerArgs <- NoArgs
  Interrupt = {}
  MaxTime = 0
  MaxActive = 0
  WordMin <- MinusOne
  WordMax = 1
INVARIANTS TypeOK NoPanic AvailableHasNoWaiters WaitingIsQueued
PROPERTIES ArbiterIsFifo
