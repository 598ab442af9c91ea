\* Two runs of mvar, with Ctrl+C once all workers are in the foreground, or one
\* of test_sync with the semaphore.
SPECIFICATION Spec
CONSTANTS
    Procs <- SyncProcs
    MAX_SHARED_SEMS = 4
    MaxSems = 6
    NWriters = 2
    NReaders = 2
    NPairs = 2
    Iterations = 1
    Sessions <- MvarOrTest
    CtrlCWhen = {"yield"}
    MayBackground = FALSE
INVARIANTS NobodyStranded SumIsZero
PROPERTIES IsAOneSlotBuffer EveryWorkerServed
CHECK_DEADLOCK FALSE
