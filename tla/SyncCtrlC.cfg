\* A worker created but not yet in the foreground outlives Ctrl+C.
SPECIFICATION Spec
CONSTANTS
    Procs <- SyncProcs
    MAX_SHARED_SEMS = 4
    MaxSems = 6
    NWriters = 2
    NReaders = 2
    NPairs = 2
    Iterations = 1
    Sessions <- TwoMvars
    CtrlCWhen = {"create", "foreground", "yield"}
    MayBackground = FALSE

PROPERTIES IsAOneSlotBuffer
CHECK_DEADLOCK FALSE
