\* An interrupt of the turn a prompt is waiting for.
SPECIFICATION FairSpec
CONSTANTS
    Requests = {r1, r2, r3}
    Ids = {i1}
    Sessions = {s1, s2}
    None = None
    Tools = {"launch", "prompt", "interrupt"}
    MayPin = FALSE
    MayTimeOut = TRUE
\* Every call returns.
CHECK_DEADLOCK FALSE
PROPERTY InterruptReachesTurn
