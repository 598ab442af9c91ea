\* Typing, shifting and control keys, each on a keyboard of their own.
SPECIFICATION Spec
CONSTANTS
    ScreenWidth = 6
    ScreenHeight = 4
    CHAR_WIDTH = 2
    CHAR_HEIGHT = 2
    BASELINE = 1
    Font <- Glyphs
    TAB_WIDTH = 4
    ESC_PAYLOAD_MAX = 3
    KeySets <- Keyboards
    KeyCodes <- Codes
    Modifiers <- Held
    Repeats <- Nothing
    MAX_COMMAND_LENGTH = 4
    READ_BUF = 3
    PROMPT <- Prompt
    Outputs <- CommandOutputs
    MaxEvents = 6
    MaxAhead = 1
INVARIANTS KeysMeanWhatTheySay ScreenShowsTheLine
CHECK_DEADLOCK FALSE
