\* Shutdown of a claude that reacts in time, late or not at all, over each
\* PTYSession, with another caller waiting for the exit.
SPECIFICATION FairSpec
CONSTANTS
    Backends = {"inproc", "attached", "ref"}
    Waiters = {w1}
    Driver = driver
    Codes = {1}
    Needed = {2, 3}
    EventOrders <- ExitFirst
    MayLose = TRUE
    MayExit = TRUE
\* Shutdown returns.
CHECK_DEADLOCK FALSE
INVARIANTS
    GoneWhenDone
    KilledOnlyIfStuck
    EnterOnlyConfirms
    ReportsAreTrue
PROPERTY ShutdownReturns
