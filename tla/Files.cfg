\* Init and two processes, three descriptors each; allocations may fail.
SPECIFICATION FilesSpec
CONSTANTS
    init = init  p1 = p1  p2 = p2
    Procs = {init, p1, p2}
    INIT_PID = init
    MAX_FDS = 3
    MaxFiles = 5
    MaxPipes = 2
    MayFail = TRUE
SYMMETRY Others
INVARIANTS NothingDangles CountsExact NothingLeaks
