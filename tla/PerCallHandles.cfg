\* Two prompts through two Sessions on one conversation.
SPECIFICATION Spec
CONSTANTS
    a = a
    b = b
    Callers = {a, b}
    Handles = {1, 2}
    HandleOf <- OwnHandle
    Ops <- PromptsOnly
    NoCaller = NoCaller
    Openings = {"replied"}
    MayTimeOut = FALSE
    MayExit = FALSE
    MaxPrompts = 2
    MaxWork = 0
CHECK_DEADLOCK FALSE
INVARIANT SingleMessages
