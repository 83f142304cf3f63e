\* A run that owns its claude, or continues the one a daemon keeps: a new
\* conversation, one whose last turn is flushing its marker or still running.
SPECIFICATION FairSpec
CONSTANTS
    Backends = {"inproc", "daemon"}
    Formats = {"text", "json", "stream"}
    Openings = {"new", "replied", "busy"}
    MayTimeOut = TRUE
    MayFail = TRUE
    MayExit = TRUE
    MaxWork = 2
\* The run ends, and with it everything once claude is idle.
CHECK_DEADLOCK FALSE
INVARIANTS
    AnswerIsOwn
    EnvelopeIsHonest
    ToolsPaired
    OneShotLeavesNoClaude
PROPERTY QueryReturns
