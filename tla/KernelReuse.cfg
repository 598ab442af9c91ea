CONSTANTS
  MAX_PROCESSES = 5
  UserSems = {}
  InitialValue = 0
  MaxValue = 3
  MaxWaiters = 3
  Priorities = {1}
  Env <- ReuseWaiter
SPECIFICATION Spec
INVARIANTS PostWakesItsWaiter
