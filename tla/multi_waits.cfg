SPECIFICATION Spec
CONSTANTS
  e1 = e1
  e2 = e2
  m1 = m1
  o1 = o1
  a1 = a1
  i1 = i1
  Event = {e1}
  Mutex = {m1}
  Timer = {o1}
  Address = {}
  Object <- AllObjects
  MaxThreads = 2
  InitThreads = 2
  MaxKey = 1
  TimerOrder <- OneTimer
  WaitLists <- MixedLists
  Timeouts <- ForeverOrOne
  TimerArgs <- ZeroAndOne
  Interrupt = {}
  MaxTime = 1
  MaxActive = 0
  WordMin <- MinusOne
  WordMax = 1
INVARIANTS OnlyStaleWakersPanic AvailableHasNoWaiters WaitingIsQueued AcquiredIsHeld TickLeavesNothingDue
PROPERTIES WaitTakesOne
CHECK_DEADLOCK FALSE
