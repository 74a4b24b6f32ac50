\* Every text of up to ten tokens that goes wrong at its last one, if at all.
\* The parser returns and is not called again, so it may stop.
SPECIFICATION Spec
CONSTANTS
    DepthLimit = 2
    MaxTokens = 9
    Inputs <- MCInputs
CHECK_DEADLOCK FALSE
INVARIANTS
    TakesExactlyValues
    TreeIsTheText
    OneOwner
    NothingLeft
PROPERTIES
    Returns
