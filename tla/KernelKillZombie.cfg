CONSTANTS
  MAX_PROCESSES = 4
  UserSems = {}
  InitialValue = 0
  MaxValue = 2
  MaxWaiters = 2
  Priorities = {1}
  Env <- KillZombie
SPECIFICATION Spec
PROPERTIES ReapsOnlyZombies
