----------------------------- MODULE ReadyDriver -----------------------------
(***************************************************************************)
(* WaitForReady (pkg/claudepty/drive.go): the loop that captures claude's  *)
(* screen, dismisses the first-run style picker, moves the folder-trust    *)
(* menu to "Yes" and confirms it, and returns once the input row shows -   *)
(* against a TUI that handles the keys it is sent in its own time.         *)
(*                                                                         *)
(* The detectors of prompt.go are modelled by what they say of each screen *)
(* the TUI can show.  The screen the driver acts on is the captured one;   *)
(* the TUI may have moved on, or not yet handled the last key.             *)
(***************************************************************************)
EXTENDS Integers, Sequences

CONSTANTS
    Screens,        \* the screens this claude shows before its prompt
    MenuLooksReady, \* whether a trust menu with unnumbered rows holds the cursor
    Mentions,       \* what the transcript on the prompt screen quotes: the
                    \* picker's text, the trust phrase, the trust menu's rows
    SlowTUI         \* whether a Down may outlast trustRedrawWait (see DownAges)

ASSUME ReadyAssumption ==
    /\ Screens \subseteq {"style", "trust", "login"}
    /\ Mentions \subseteq {"style", "trust", "menu"}
    /\ {MenuLooksReady, SlowTUI} \subseteq BOOLEAN

VARIABLES
    \* the driver
    at,            \* "top" of the loop, "capture", "decide", "done"
    seen,          \* the captured screen
    styleHandled, trustHandled, trustMoves,
    movedAt,       \* "zero", or the last Down is "recent" or "old"
    outcome,       \* what WaitForReady returned
    late,          \* the budget is spent or the context is over
    smooth,        \* no deadline, no lost key, no crash, no login screen and no
                   \* quoted menu (chosen at the start, and never changed)
    \* the TUI (external)
    screen,        \* what it shows
    yes,           \* whether the trust menu's highlighted answer is Yes
    keys,          \* keys sent and not yet handled
    saidNo         \* "No, exit" was confirmed

driverVars == <<at, seen, styleHandled, trustHandled, trustMoves, movedAt, outcome>>
tuiVars    == <<screen, yes, saidNo>>
vars       == <<driverVars, late, smooth, tuiVars, keys>>

AllScreens == {"boot", "style", "drawing", "trust", "login", "prompt", "gone"}
Keys       == {"down", "enter"}
Outcomes   == {"none", "ready", "timeout", "exited", "notAccepted", "writeError"}

TypeOK ==
    /\ at \in {"top", "capture", "decide", "done"}
    /\ seen \in [screen : AllScreens, yes : BOOLEAN]
    /\ styleHandled \in BOOLEAN /\ trustHandled \in BOOLEAN
    /\ trustMoves \in 0..3
    /\ movedAt \in {"zero", "recent", "old"}
    /\ outcome \in Outcomes
    /\ late \in BOOLEAN /\ smooth \in BOOLEAN
    /\ screen \in AllScreens /\ yes \in BOOLEAN
    /\ keys \in Seq(Keys)
    /\ saidNo \in BOOLEAN

\* Which answer the menu preselects has changed between versions.
Init == /\ at = "top" /\ seen = [screen |-> "boot", yes |-> FALSE]
        /\ styleHandled = FALSE /\ trustHandled = FALSE
        /\ trustMoves = 0 /\ movedAt = "zero"
        /\ outcome = "none" /\ late = FALSE /\ smooth \in BOOLEAN
        /\ screen = "boot" /\ yes \in BOOLEAN
        /\ keys = <<>> /\ saidNo = FALSE

-----------------------------------------------------------------------------
(* The detectors (prompt.go), on the captured screen.                      *)

HasStylePicker(s) == s.screen = "style" \/ (s.screen = "prompt" /\ "style" \in Mentions)

SaysTrust(s) == \/ s.screen \in {"drawing", "trust"}
                \/ s.screen = "prompt" /\ "trust" \in Mentions

\* Mutant: the phrase alone is taken for the menu.
PhraseIsMenu(s) == SaysTrust(s)

\* TrustSelection's found: two adjacent rows answer yes and no, one highlighted.
\* A transcript that quotes the two rows looks the same.
MenuShown(s) == \/ s.screen = "trust"
                \/ s.screen = "prompt" /\ "menu" \in Mentions /\ ~smooth

\* Mutant: a highlighted menu option counts as the input row, numbered or not.
LooksReadyAnyRow(s) == s.screen \in {"prompt", "style", "trust"}

\* ReadyForInput or HasInputPrompt: a "❯" row that is not a numbered option.
\* The picker's highlighted row is one; so is an unnumbered trust row with the
\* cursor on it, drawn to the end or not.
LooksReady(s) == \/ s.screen \in {"prompt", "style"}
                 \/ s.screen \in {"drawing", "trust"} /\ MenuLooksReady

-----------------------------------------------------------------------------
(* The driver.                                                             *)

Return(o) == at' = "done" /\ outcome' = o

\* A write: the key is queued, or claude is gone and the write may say so.
Press(key) == \/ /\ keys' = (IF screen = "gone" THEN keys ELSE Append(keys, key))
                 /\ at' = "top" /\ UNCHANGED outcome
              \/ screen = "gone" /\ Return("writeError") /\ UNCHANGED keys

\* Mutant: the deadline is not looked at again once the loop runs.
TopNoDeadline ==
    /\ at = "top"
    /\ \/ screen = "gone" /\ Return("exited")
       \/ screen # "gone" /\ at' = "capture" /\ UNCHANGED outcome
    /\ UNCHANGED <<seen, styleHandled, trustHandled, trustMoves, movedAt, late, smooth,
                   tuiVars, keys>>

\* The head of the loop: deadline or context, then exit.
Top ==
    /\ at = "top"
    /\ \/ late /\ Return("timeout")
       \/ ~late /\ screen = "gone" /\ Return("exited")
       \/ ~late /\ screen # "gone" /\ at' = "capture" /\ UNCHANGED outcome
    /\ UNCHANGED <<seen, styleHandled, trustHandled, trustMoves, movedAt, late, smooth,
                   tuiVars, keys>>

\* CaptureScreen: the screen as it is, or nothing readable.
Capture ==
    /\ at = "capture"
    /\ \/ at' = "decide" /\ seen' = [screen |-> screen, yes |-> yes]
       \/ at' = "top" /\ UNCHANGED seen
    /\ UNCHANGED <<styleHandled, trustHandled, trustMoves, movedAt, outcome, late, smooth,
                   tuiVars, keys>>

StyleTurn == ~styleHandled /\ HasStylePicker(seen)
TrustTurn == ~StyleTurn /\ ~trustHandled /\ SaysTrust(seen) /\ MenuShown(seen)

DismissStyle ==
    /\ at = "decide" /\ StyleTurn
    /\ Press("enter")
    /\ styleHandled' = (styleHandled \/ at' = "top")
    /\ UNCHANGED <<seen, trustHandled, trustMoves, movedAt, late, smooth, tuiVars>>

\* "No" shortly after a Down: claude has not handled it yet.
AwaitRedraw ==
    /\ at = "decide" /\ TrustTurn /\ ~seen.yes /\ movedAt = "recent"
    /\ \/ at' = "top" /\ UNCHANGED outcome
       \/ late /\ Return("timeout")
    /\ UNCHANGED <<seen, styleHandled, trustHandled, trustMoves, movedAt, late, smooth,
                   tuiVars, keys>>

GiveUp ==
    /\ at = "decide" /\ TrustTurn /\ ~seen.yes /\ movedAt # "recent"
    /\ trustMoves >= 3
    /\ Return("notAccepted") /\ movedAt' = "zero"
    /\ UNCHANGED <<seen, styleHandled, trustHandled, trustMoves, late, smooth, tuiVars, keys>>

\* Mutant: Down is pressed again at once.
MoveToYesAtOnce ==
    /\ at = "decide" /\ TrustTurn /\ ~seen.yes /\ trustMoves < 3
    /\ Press("down")
    /\ trustMoves' = trustMoves + 1 /\ movedAt' = "recent"
    /\ UNCHANGED <<seen, styleHandled, trustHandled, late, smooth, tuiVars>>

MoveToYes ==
    /\ at = "decide" /\ TrustTurn /\ ~seen.yes /\ movedAt # "recent"
    /\ trustMoves < 3
    /\ Press("down")
    /\ IF at' = "top" THEN trustMoves' = trustMoves + 1 /\ movedAt' = "recent"
                      ELSE movedAt' = "zero" /\ UNCHANGED trustMoves
    /\ UNCHANGED <<seen, styleHandled, trustHandled, late, smooth, tuiVars>>

\* Mutant: Enter without looking at the highlighted answer.
ConfirmBlindly ==
    /\ at = "decide" /\ TrustTurn
    /\ Press("enter")
    /\ movedAt' = "zero"
    /\ trustHandled' = (at' = "top")
    /\ UNCHANGED <<seen, styleHandled, trustMoves, late, smooth, tuiVars>>

ConfirmTrust ==
    /\ at = "decide" /\ TrustTurn /\ seen.yes
    /\ Press("enter")
    /\ movedAt' = "zero"
    /\ trustHandled' = (at' = "top")
    /\ UNCHANGED <<seen, styleHandled, trustMoves, late, smooth, tuiVars>>

\* The ready check.
CheckReady ==
    /\ at = "decide" /\ ~StyleTurn /\ ~TrustTurn
    /\ \/ LooksReady(seen) /\ Return("ready")
       \/ ~LooksReady(seen) /\ at' = "top" /\ UNCHANGED outcome
    /\ UNCHANGED <<seen, styleHandled, trustHandled, trustMoves, movedAt, late, smooth,
                   tuiVars, keys>>

Driver == \/ Top \/ Capture \/ DismissStyle \/ AwaitRedraw \/ GiveUp
          \/ MoveToYes \/ ConfirmTrust \/ CheckReady

-----------------------------------------------------------------------------
(* Time.                                                                   *)

\* trustRedrawWait passes.  A TUI that is not slow has handled, or lost, the
\* Down by then, and so early that no screen captured before it did is still to
\* be judged: the code reads the clock after the capture.
DownAges ==
    /\ movedAt = "recent" /\ (SlowTUI \/ (keys = <<>> /\ at # "decide"))
    /\ movedAt' = "old"
    /\ UNCHANGED <<at, seen, styleHandled, trustHandled, trustMoves, outcome, late, smooth,
                   tuiVars, keys>>

\* The budget is spent, or the context is cancelled.
Deadline == /\ ~smooth /\ ~late
            /\ late' = TRUE
            /\ UNCHANGED <<driverVars, smooth, tuiVars, keys>>

-----------------------------------------------------------------------------
(* The TUI (external).                                                     *)

\* The screens still to come after each one.
Modal == IF "trust" \in Screens THEN {"drawing"} ELSE {}

Following(s) == CASE s = "boot"    -> {"prompt"} \cup Modal \cup (Screens \ {"trust"})
                  [] s = "style"   -> {"prompt"} \cup Modal
                  [] s = "drawing" -> {"trust"}

\* It draws the next screen by itself.
Draw ==
    /\ screen \in {"boot", "drawing"}
    /\ screen' \in Following(screen)
    /\ screen' = "login" => ~smooth
    /\ UNCHANGED <<driverVars, late, smooth, yes, keys, saidNo>>

\* It handles the next key.  The two-row menu wraps.
HandleKey ==
    /\ keys # <<>> /\ screen \notin {"boot", "gone"}
    /\ keys' = Tail(keys)
    /\ IF Head(keys) = "down"
       THEN /\ yes' = IF screen = "trust" THEN ~yes ELSE yes
            /\ UNCHANGED <<screen, saidNo>>
       ELSE CASE screen = "style" -> /\ screen' \in Following("style")
                                     /\ UNCHANGED <<yes, saidNo>>
              [] screen = "trust" -> /\ screen' = IF yes THEN "prompt" ELSE "gone"
                                     /\ saidNo' = ~yes
                                     /\ UNCHANGED yes
              [] OTHER            -> UNCHANGED tuiVars
    /\ UNCHANGED <<driverVars, late, smooth>>

LoseKey ==
    /\ ~smooth /\ keys # <<>>
    /\ keys' = Tail(keys)
    /\ UNCHANGED <<driverVars, late, smooth, tuiVars>>

Crash ==
    /\ ~smooth /\ screen # "gone"
    /\ screen' = "gone"
    /\ UNCHANGED <<driverVars, late, smooth, yes, keys, saidNo>>

TUI == Draw \/ HandleKey

-----------------------------------------------------------------------------
Next == Driver \/ DownAges \/ Deadline \/ TUI \/ LoseKey \/ Crash

Spec == Init /\ [][Next]_vars

\* Time passes and the driver's goroutine runs.
DriverSpec == Spec /\ WF_vars(Driver) /\ WF_vars(DownAges) /\ WF_vars(Deadline)

\* When nothing untoward happens, the TUI besides keeps drawing and handling
\* keys, and a capture of a live screen succeeds in the end.
FairSpec == /\ DriverSpec
            /\ WF_vars(smooth /\ TUI)
            /\ SF_vars(smooth /\ Capture /\ at' = "decide")

-----------------------------------------------------------------------------
(* Properties.                                                             *)

\* Doc, drive.go:13-15 and README "Credentials": the driver never confirms
\* "No, exit".
NeverConfirmsNo == ~saidNo

\* When WaitForReady says so, claude is past the trust menu and the login, or
\* already gone (drive.go:31, "returns nil once the main input row is visible").
\* Not so of the style picker: its screen is taken for the prompt after the
\* Enter that is to dismiss it (drive.go:64-73, 116-123).
ReadyMeansPrompt ==
    outcome = "ready" => screen \in {"prompt", "gone"} \/ seen.screen = "style"

\* A menu that is moved is only confirmed on the answer it shows: from the
\* Enter on, Yes stays highlighted until claude handles it (drive.go:85-112).
ConfirmedStaysYes == trustHandled /\ screen = "trust" => yes

\* The driver comes back, whatever claude shows, drops or does not do.
Returns == <>(outcome # "none")

\* When claude shows no login screen, drops no key and stays alive, its transcript
\* quotes no menu, and there is time, the driver returns with claude at its prompt
\* (drive.go:29-31) - or with the style picker taken for it, the Enter that is to
\* dismiss the picker still queued.  Then the trust menu may follow with nobody
\* left to answer it (drive.go:64-73, 116-123; prompt.go:145-148).
ReachesPrompt ==
    smooth ~> outcome = "ready" /\ (screen = "prompt" \/ seen.screen = "style")
=============================================================================
