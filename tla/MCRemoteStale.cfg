SPECIFICATION Spec
CONSTANTS
    Commands = 2
    Frames = 0
INVARIANTS
    AnswerIsMine
CHECK_DEADLOCK FALSE
