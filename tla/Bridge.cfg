\* Two relays, one with two concurrent tool calls, a host that registers tools and
\* closes the bridge at any time.
SPECIFICATION FairSpec
CONSTANTS
    r1 = r1
    r2 = r2
    a1 = a1
    a2 = a2
    Relays = {r1, r2}
    ToolCalls = {a1, a2}
    RelayOf <- BothOnOne
    Tools = {t1, t2}
    MaxAdds = 2
    MayFail = TRUE
    Traced = TRUE
    Dropped = {a2}
\* The calls are used up, or the relays are gone.
CHECK_DEADLOCK FALSE
INVARIANTS
    ListedIsCallable
    AnswersAreTraced
PROPERTIES
    ImplementsToolService
    CloseIsNoError
    CallsReturn
