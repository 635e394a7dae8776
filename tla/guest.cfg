SPECIFICATION Spec
CONSTANTS
  MaxThreads = 2
  Departed = {0, 7, 254}
  EntryWords = {"WaitSyncN"}
  Callers = {1}
  MaxCommands = 2
  MaxRequests = 1
INVARIANTS TypeOK ResultsDelivered ThreadsDoNotMix AnswersArrive
CHECK_DEADLOCK FALSE
