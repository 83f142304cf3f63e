\* Three launches, overlapping, errors, a daemon that may ignore the
\* requested id, a claude that may exit.
SPECIFICATION FairSpec
CONSTANTS
    Nobody = Nobody
    Launchers = {l1, l2, l3}
    Attaching = {l1}
    MayIgnoreId = TRUE
    KillsFail = FALSE
    CallsFail = TRUE
    WaitsFail = TRUE
    ClaudeExits = TRUE
    MaxExits = 2
\* The launches end.
CHECK_DEADLOCK FALSE
INVARIANTS
    OneClaude
    NoOrphans
PROPERTIES
    ContinuedIsAtPrompt
    FreshOnlyAfterExit
    LaunchesReturn
