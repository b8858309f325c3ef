SPECIFICATION Spec
CONSTANTS
    Letters <- NameOrLetter
    MaxLen = 6
CHECK_DEADLOCK FALSE
INVARIANTS TypeOK CommandAgrees ResponseAgrees AnswerTakesOne
