SPECIFICATION Spec
CONSTANTS
    Letters <- MCLetters
    Digits <- MCDigits
    Sources <- MCSources
    MaxLength = 5
INVARIANTS
    NothingIsLost
    PositionsAreRight
PROPERTY LinesAreIndependent
\* A lexer that has read its source stops.
CHECK_DEADLOCK FALSE
