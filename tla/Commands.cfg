\* Lines of up to seven characters, and a text read while it is typed.
SPECIFICATION Spec
CONSTANTS
    MAX_TOKENS = 3
    MAX_PIPELINE = 2
    PidWidth = 4
    PriorityWidth = 3
    Alphabets <- Usual
    MaxLine <- Bounds
    BufferSize = 2
INVARIANTS LineIsRunAsWritten ActsOnTheNumberWritten PiecesDoNotMatter
CHECK_DEADLOCK FALSE
