SPECIFICATION FairSpec
CONSTANTS
    Cap = 2
    Block = 2
    MaxWrite = 4
CHECK_DEADLOCK FALSE
INVARIANTS NothingLeftBehind AnswerIsWhole
PROPERTIES ParentAnswers
