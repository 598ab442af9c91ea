CONSTANTS
  MAX_PROCESSES = 4
  UserSems = {}
  InitialValue = 0
  MaxValue = 2
  MaxWaiters = 3
  Priorities = {2}
  Env <- NiceLoop
SPECIFICATION FairSpec
PROPERTIES EveryReadyRuns
