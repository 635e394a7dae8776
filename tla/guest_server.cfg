SPECIFICATION Spec
CONSTANTS
  MaxThreads = 2
  Departed = {0}
  EntryWords = {"WaitSyncN"}
  Callers = {}
  MaxCommands = 0
  MaxRequests = 2
INVARIANTS RequestsArrive
CHECK_DEADLOCK FALSE
