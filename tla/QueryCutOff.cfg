\* A run whose context ends while claude is still at work.
SPECIFICATION FairSpec
CONSTANTS
    Backends = {"inproc"}
    Formats = {"text"}
    Openings = {"new"}
    MayTimeOut = TRUE
    MayFail = TRUE
    MayExit = TRUE
    MaxWork = 3
\* The run ends, and with it everything once claude is idle.
CHECK_DEADLOCK FALSE
INVARIANT CutOffIsAnError
