\* Two clients connect, send and hang up; a shutdown signal at any moment.
SPECIFICATION FairSpec
\* The process ends after the signal.
CHECK_DEADLOCK FALSE
CONSTANTS
    Clients = {"c1", "c2"}
    NoClient = "nobody"
    Messages <- MCMessages
    InitialCapacity = 4
    IntLimit = 8
    LongLimit = 32
    Backlog = 2
INVARIANTS
    StaysInBuffer
    AnsweredWhole
PROPERTIES
    ImplementsQueue
    EveryoneIsDealtWith
    ShutdownCompletes
