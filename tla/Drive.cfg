\* Tool calls on two ids, every launch under an id that is not in use.
SPECIFICATION FairSpec
CONSTANTS
    Requests = {r1, r2, r3}
    Ids = {i1, i2}
    Sessions = {s1, s2}
    None = None
    Tools = {"launch", "prompt", "prompt_async", "interrupt", "read_screen", "list", "stop", "close"}
    MayPin = FALSE
    MayTimeOut = TRUE
\* Every call returns.
CHECK_DEADLOCK FALSE
INVARIANT LiveIsTracked
PROPERTY RequestsReturn
