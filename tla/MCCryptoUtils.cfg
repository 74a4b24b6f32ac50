\* Blocks of six bytes that end in two bytes of length.  A run is over when
\* its digest or its text is.
SPECIFICATION UtilsSpec
CONSTANTS
    Block = 6
    Trailer = 2
    MaxMessage = 14
    Chunks <- MCChunks
    Inputs <- MCInputs
    Sizes = {1, 2, 3, 4, 5, 6, 7, 8, 9}
    Word = 16384
    Junk <- MCJunk
CHECK_DEADLOCK FALSE
INVARIANTS
    HashesThePadding
    CopiesStayInside
    DecodesWhatWasEncoded
    UsesItsRoom
