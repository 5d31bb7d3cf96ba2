SPECIFICATION Spec
CONSTANTS
    CheapPrepend = 1
    InitialSize = 2
    Extra = 2
    Junk = Junk
    MaxBytes = 6
INVARIANTS
    BytesPreserved
    AnswersAreRight
PROPERTY
    EveryAnswerArrives
CHECK_DEADLOCK FALSE
