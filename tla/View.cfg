CONSTANTS
    Height = {1, 2, 3}
    maxx = 2
    Texts <- MCTexts
    Garbage = {0, 3}
    MaxLines = 4
    MaxChars = 4
    MaxDrift = 1

SPECIFICATION Spec
INVARIANTS TypeOK CountersExact DisplayExact CursorInText
CHECK_DEADLOCK FALSE
