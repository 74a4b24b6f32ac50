\* The buffer starts with four bytes and has to grow several times.  The answer
\* is sent once, so it stops.
SPECIFICATION Spec
CONSTANTS
    InitialSize = 4
    StringSlack = 0
    MaxCalls = 4
    Strings <- MCStrings
    Scalars <- MCScalars
CHECK_DEADLOCK FALSE
INVARIANTS
    PrintsWithinBuffer
    AnswerSaysWhatWasMeant
    AnswerIsFreed
PROPERTIES
    Answered
