SPECIFICATION Spec
CONSTANTS
    MaxSources = 3
    MaxLen = 13
    Instructions = {2, 5}
    Prompts = {6, 14, 24, 33}
    Heading = 1
    MinUseful = 2
    CutWords = 1
    OmitWords = 1
    Digits <- MCDigits
CHECK_DEADLOCK FALSE
INVARIANTS WithinBound ShownIsAPrefix CompleteMeansSeen
