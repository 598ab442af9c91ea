\* Lines of every form, two command slots, calls that may fail.  The system
\* really stops: at a full pipe that nobody reads, or without the idle process.
SPECIFICATION FairSpec
CONSTANTS
    init = init  shell = shell  terminal = terminal  c1 = c1  c2 = c2
    Procs = {init, shell, terminal, c1, c2}
    INIT_PID = init
    Shell = shell
    Terminal = terminal
    Commands = {c1, c2}
    MAX_FDS = 6
    MaxFiles = 12
    MaxPipes = 6
    MayFail = TRUE
INVARIANTS PromptClean BackgroundHasNoKeyboard DeathsCounted
PROPERTIES CommandsEnd PromptReturns
CHECK_DEADLOCK FALSE
