\* Every screen, a transcript that quotes them, lost keys, deadlines, a claude that may exit - or none of these.
SPECIFICATION FairSpec
CONSTANTS
    Screens = {"style", "trust", "login"}
    MenuLooksReady = FALSE
    Mentions = {"style", "trust", "menu"}
    SlowTUI = FALSE
\* The driver returns, and claude may be gone.
CHECK_DEADLOCK FALSE
INVARIANTS
    NeverConfirmsNo
    ReadyMeansPrompt
    ConfirmedStaysYes
PROPERTIES
    Returns
    ReachesPrompt
