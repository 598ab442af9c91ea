CONSTANTS
  Procs = {p, q}
  Names = {n}
  Programs <- Usual
  PERIOD_MILLIS = 5
  Wrap = 64
  SLEEP_MILLIS = 8
  LOOP_MILLIS = 6
  Durations = {7}
  COUNTDOWN = 3
  MaxRefs = 2
  Slack = 1
  CountForced = TRUE
SPECIFICATION FairSpec
INVARIANTS TimesAreKept
PROPERTIES NothingElseStale FaultEndsInPrompt
