CONSTANTS
    CommandTexts <- MCCommandTexts
    PlainTexts <- MCPlainTexts
    Responses = {r1, r2}
    MaxCommands = 3
SPECIFICATION Spec
INVARIANT EveryCommandAnswered
