\* One Session, two callers, no deadline: serialized prompts.
SPECIFICATION FairSpec
CONSTANTS
    a = a
    b = b
    Callers = {a, b}
    Handles = {1}
    HandleOf <- SharedHandle
    Ops <- PromptsOnly
    NoCaller = NoCaller
    Openings = {"new", "replied"}
    MayTimeOut = FALSE
    MayExit = FALSE
    MaxPrompts = 2
    MaxWork = 2
\* The callers stop once MaxPrompts prompts are answered.
CHECK_DEADLOCK FALSE
INVARIANTS
    TypeOK
    SingleMessages
    AnswerIsOwn
    AnswerIsFinal
PROPERTIES
    ImplementsDialogue
    CallsReturn
