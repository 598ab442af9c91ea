CONSTANTS
  MAX_PROCESSES = 4
  UserSems = {s}
  InitialValue = 1
  MaxValue = 1
  MaxWaiters = 3
  Priorities = {1}
  Env <- SchedEnv
SPECIFICATION FairSpec
INVARIANTS TypeOK ReadyQueueExact NoLostReady
PROPERTIES DeadStaysDead ReadyRuns OrphansReaped
