\* One Session, deadlines, a claude that may stall or exit at any point: turns
\* that overlap, perhaps with one that was running before, polls and prompts.
SPECIFICATION CallersSpec
CONSTANTS
    a = a
    b = b
    Callers = {a, b}
    Handles = {1}
    HandleOf <- SharedHandle
    Ops <- PromptsAndStart
    NoCaller = NoCaller
    Openings = {"new", "busy"}
    MayTimeOut = TRUE
    MayExit = TRUE
    MaxPrompts = 2
    MaxWork = 0
\* The callers stop after MaxPrompts prompts.
CHECK_DEADLOCK FALSE
INVARIANTS
    AnswersFollowTranscript
    PollsAgree
    StaleMarkerIgnored
PROPERTY CallsReturn
