CONSTANTS
  MAX_PROCESSES = 4
  UserSems = {s}
  InitialValue = 0
  MaxValue = 2
  MaxWaiters = 2
  Priorities = {1}
  Env <- SelfBlock
SPECIFICATION Spec
INVARIANTS ReadyQueueExact
