\* A pipeline, a pipeline whose processes are killed, and the keyboard pipe.
\* The system stops where idle spins on a full pipe (MaxDebt cuts the spin).
SPECIFICATION FairSpec
CONSTANTS
    r1 = r1  r2 = r2  w1 = w1  w2 = w2  idle = idle  a = a  b = b  NUL = NUL
    Idle = idle
    PIPE_BUF_SIZE = 2
    MAX_PROCESSES = 3
    MaxDebt = 2
    Setups <- Usual
CHECK_DEADLOCK FALSE
INVARIANTS NoSleepOnData OneWriteInProgress
PROPERTIES IsAByteStream ReadersEnd WritesEnd
