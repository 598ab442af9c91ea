CONSTANTS
  MAX_PROCESSES = 5
  UserSems = {s}
  InitialValue = 1
  MaxValue = 1
  MaxWaiters = 4
  Priorities = {1}
  Env <- TreeEnv
SPECIFICATION Spec
INVARIANTS FamilyTree TokenPerZombie ZombieAnnounced NeverHalts BlockedIsQueued SemAccounting
PROPERTIES ReapsOnlyZombies
