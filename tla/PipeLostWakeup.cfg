\* A reader is killed between its wake-up and its read.
SPECIFICATION Spec
CONSTANTS
    r1 = r1  r2 = r2  w1 = w1  w2 = w2  idle = idle  a = a  b = b  NUL = NUL
    Idle = idle
    PIPE_BUF_SIZE = 2
    MAX_PROCESSES = 3
    MaxDebt = 2
    Setups <- Kills
INVARIANT NoSleepOnDataEver
