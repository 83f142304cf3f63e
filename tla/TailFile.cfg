\* Lines that become visible in two pieces, every offset, every way to stop.
SPECIFICATION FairSpec
CONSTANTS
    LineUnits = 2
    MaxLines = 4
    Offsets = {0, 1, 2, 3, 4, 5, 6}
    EndLines = {4}
    MayTimeOut = TRUE
    MayFail = TRUE
    MayVanish = TRUE
\* The tail returns.
CHECK_DEADLOCK FALSE
INVARIANTS
    DeliversInOrder
PROPERTIES
    EveryLineRead
    ImplementsLineTail
