SPECIFICATION AnswerSpec
CONSTANTS
    MaxBuffer = 2
    RecursionLimit = 1
    MaxText = 5
    MaxDelta = 3
    MaxItems = 3
INVARIANTS AnswerTypeOK ShownOnceInOrder RememberedOnceInOrder ShownExactly RememberedExactly
CHECK_DEADLOCK FALSE
