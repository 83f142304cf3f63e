-------------------------- MODULE ReadyDriverProofs --------------------------
(***************************************************************************)
(* Theorems about ReadyDriver, for any screens, lost keys, deadlines and   *)
(* crashes, with a TUI that handles a Down within trustRedrawWait.         *)
(***************************************************************************)
EXTENDS ReadyDriver, TLAPS

Down  == <<"down">>
Enter == <<"enter">>

\* The keys that can be under way, by the screen that will get them.
KeysInv ==
    /\ screen \in {"boot", "drawing"} => keys = <<>>
    /\ screen = "style" => \/ keys = <<>>
                           \/ keys = Enter /\ styleHandled
    /\ screen = "trust" => \/ keys = <<>>
                           \/ keys = Down /\ ~yes /\ movedAt = "recent" /\ ~trustHandled
                           \/ keys = Enter /\ trustHandled

\* What the captured screen still says of the one that is shown: claude only
\* moves forward, and only the driver's keys change a menu.
SeenInv == at = "decide" =>
    /\ seen.screen = "style" /\ ~styleHandled => screen \in {"style", "gone"}
    /\ seen.screen = "prompt" => screen \in {"prompt", "gone"}
    /\ seen.screen = "trust" => screen \in {"trust", "prompt", "gone"}
    /\ seen.screen = "trust" /\ screen = "trust" =>
         /\ seen.yes => yes
         /\ ~seen.yes /\ yes => movedAt = "recent" \/ trustHandled

\* Enter is only pressed on a menu that has been drawn.
HandledInv == trustHandled => screen \in {"trust", "prompt", "gone"}

MenuInv == KeysInv /\ SeenInv /\ HandledInv /\ ConfirmedStaysYes /\ NeverConfirmsNo

\* Down is one key, Enter another.
LEMMA KeySequences ==
    /\ <<>> \in Seq(Keys) /\ Down \in Seq(Keys) /\ Enter \in Seq(Keys)
    /\ Append(<<>>, "down") = Down /\ Append(<<>>, "enter") = Enter
    /\ Head(Down) = "down" /\ Tail(Down) = <<>> /\ Down # <<>>
    /\ Head(Enter) = "enter" /\ Tail(Enter) = <<>> /\ Enter # <<>>
BY DEF Down, Enter, Keys

\* The invariant holds initially: nothing pressed, nothing captured.
LEMMA InitReady == Init => TypeOK /\ MenuInv
<1>1. Init => TypeOK
  <2>1. Init => seen \in [screen : AllScreens, yes : BOOLEAN]
    BY DEF Init, AllScreens
  <2>2. Init => keys \in Seq(Keys)
    BY KeySequences DEF Init
  <2>3. Init => /\ styleHandled \in BOOLEAN /\ trustHandled \in BOOLEAN
                /\ late \in BOOLEAN /\ smooth \in BOOLEAN /\ yes \in BOOLEAN /\ saidNo \in BOOLEAN
    BY DEF Init
  <2>4. Init => /\ at \in {"top", "capture", "decide", "done"} /\ trustMoves \in 0..3
                /\ movedAt \in {"zero", "recent", "old"}
                /\ outcome \in Outcomes /\ screen \in AllScreens
    BY DEF Init, AllScreens, Outcomes
  <2> QED
    BY <2>1, <2>2, <2>3, <2>4 DEF TypeOK
<1>2. Init => MenuInv
  BY DEF Init, MenuInv, KeysInv, SeenInv, HandledInv, ConfirmedStaysYes, NeverConfirmsNo
<1> QED
  BY <1>1, <1>2

\* What Press assigns has its type.
LEMMA PressTypes ==
    ASSUME TypeOK, NEW key \in Keys, Press(key)
    PROVE  keys' \in Seq(Keys) /\ at' \in {"top", "done"} /\ outcome' \in Outcomes
BY DEF TypeOK, Press, Return, Outcomes

\* Every step of the driver and of the TUI keeps the types.
LEMMA NextReadyTypes == TypeOK /\ [Next]_vars => TypeOK'
<1> SUFFICES ASSUME TypeOK, [Next]_vars PROVE TypeOK'
  OBVIOUS
<1> USE DEF tuiVars, driverVars
<1>1. CASE Top \/ AwaitRedraw \/ GiveUp \/ CheckReady
  BY <1>1 DEF Top, AwaitRedraw, GiveUp, CheckReady, Return, TypeOK, Outcomes
<1>2. CASE Capture
  BY <1>2 DEF Capture, TypeOK
<1>3. CASE DismissStyle
  BY <1>3, PressTypes DEF DismissStyle, TypeOK, Keys
<1>4. CASE MoveToYes
  <2>1. keys' \in Seq(Keys) /\ at' \in {"top", "done"} /\ outcome' \in Outcomes
    BY <1>4, PressTypes DEF MoveToYes, Keys
  <2>2. trustMoves' \in 0..3 /\ movedAt' \in {"zero", "recent", "old"}
    BY <1>4 DEF MoveToYes, TypeOK
  <2> QED
    BY <1>4, <2>1, <2>2 DEF MoveToYes, TypeOK
<1>5. CASE ConfirmTrust
  BY <1>5, PressTypes DEF ConfirmTrust, TypeOK, Keys
<1>6. CASE DownAges \/ Deadline \/ Crash \/ LoseKey
  <2>1. CASE LoseKey
    <3>1. keys' \in Seq(Keys)
      BY <2>1 DEF LoseKey, TypeOK
    <3>2. UNCHANGED <<at, seen, styleHandled, trustHandled, trustMoves, movedAt,
                      outcome, late, smooth, screen, yes, saidNo>>
      BY <2>1 DEF LoseKey
    <3> QED
      BY <3>1, <3>2 DEF TypeOK
  <2>2. CASE DownAges
    BY <2>2 DEF DownAges, TypeOK
  <2>3. CASE Deadline
    BY <2>3 DEF Deadline, TypeOK
  <2>4. CASE Crash
    BY <2>4 DEF Crash, TypeOK, AllScreens
  <2> QED
    BY <1>6, <2>1, <2>2, <2>3, <2>4
<1>7. CASE Draw
  BY <1>7, ReadyAssumption DEF ReadyAssumption, Draw, Following, Modal, TypeOK, AllScreens
<1>8. CASE HandleKey
  <2>1. keys' \in Seq(Keys)
    BY <1>8 DEF HandleKey, TypeOK
  <2>2. screen' \in AllScreens /\ yes' \in BOOLEAN /\ saidNo' \in BOOLEAN
    <3>1. CASE Head(keys) = "down"
      BY <1>8, <3>1 DEF HandleKey, TypeOK
    <3>2. CASE Head(keys) # "down" /\ screen = "style"
      BY <1>8, <3>2 DEF HandleKey, Following, Modal, TypeOK, AllScreens
    <3>3. CASE Head(keys) # "down" /\ screen = "trust"
      BY <1>8, <3>3 DEF HandleKey, TypeOK, AllScreens
    <3>4. CASE Head(keys) # "down" /\ screen \notin {"style", "trust"}
      BY <1>8, <3>4 DEF HandleKey, TypeOK
    <3> QED
      BY <3>1, <3>2, <3>3, <3>4
  <2> QED
    BY <1>8, <2>1, <2>2 DEF HandleKey, TypeOK
<1>9. CASE UNCHANGED vars
  BY <1>9 DEF vars, TypeOK
<1> QED
  BY <1>1, <1>2, <1>3, <1>4, <1>5, <1>6, <1>7, <1>8, <1>9 DEF Next, Driver, TUI

\* The driver moves on without touching what the invariant is about.
LEMMA QuietStep ==
    ASSUME MenuInv, at' # "decide",
           UNCHANGED <<tuiVars, keys, styleHandled, trustHandled>>,
           movedAt' = movedAt \/ movedAt # "recent"
    PROVE  MenuInv'
BY DEF MenuInv, KeysInv, SeenInv, HandledInv, ConfirmedStaysYes, NeverConfirmsNo, tuiVars

\* Every step keeps the invariant on the trust menu: what is queued, what was
\* captured and what is selected agree.
LEMMA NextMenu ==
    ASSUME SlowTUI = FALSE, TypeOK, MenuInv, [Next]_vars
    PROVE  MenuInv'
<1> USE KeySequences DEF tuiVars, driverVars
<1>1. CASE Top \/ AwaitRedraw \/ GiveUp \/ CheckReady
  BY <1>1, QuietStep DEF Top, AwaitRedraw, GiveUp, CheckReady, Return
<1>2. CASE Capture
  <2>1. CASE at' = "top"
    BY <1>2, <2>1, QuietStep DEF Capture
  <2>2. CASE at' = "decide" /\ seen' = [screen |-> screen, yes |-> yes]
    BY <1>2, <2>2 DEF Capture, MenuInv, KeysInv, SeenInv, HandledInv,
       ConfirmedStaysYes, NeverConfirmsNo
  <2> QED
    BY <1>2, <2>1, <2>2 DEF Capture
<1>3. CASE DismissStyle
  <2>1. /\ at = "decide" /\ ~styleHandled /\ at' # "decide"
        /\ UNCHANGED <<trustHandled, movedAt, tuiVars>>
        /\ seen.screen \in {"style", "prompt"}
    BY <1>3 DEF DismissStyle, StyleTurn, HasStylePicker, Press, Return
  <2>2. CASE screen = "gone"
    BY <2>1, <2>2 DEF MenuInv, KeysInv, SeenInv, HandledInv,
       ConfirmedStaysYes, NeverConfirmsNo
  <2>3. CASE screen # "gone"
    <3>1. screen \in {"style", "prompt"} /\ (screen = "style" => keys = <<>>)
      BY <2>1, <2>3 DEF MenuInv, SeenInv, KeysInv
    <3>2. keys' = Append(keys, "enter") /\ at' = "top"
      BY <1>3, <2>3 DEF DismissStyle, Press
    <3>3. styleHandled'
      BY <1>3, <3>2 DEF DismissStyle
    <3> QED
      BY <2>1, <3>1, <3>2, <3>3 DEF MenuInv, KeysInv, SeenInv, HandledInv,
         ConfirmedStaysYes, NeverConfirmsNo
  <2> QED
    BY <2>2, <2>3
<1>4. CASE MoveToYes
  <2>1. /\ at = "decide" /\ ~trustHandled /\ seen.screen \in {"trust", "prompt"} /\ ~seen.yes
        /\ movedAt # "recent" /\ at' # "decide"
        /\ UNCHANGED <<styleHandled, trustHandled, tuiVars>>
    BY <1>4 DEF MoveToYes, TrustTurn, MenuShown, Press, Return
  <2>2. CASE screen # "trust"
    <3>1. screen \in {"prompt", "gone"}
      BY <2>1, <2>2 DEF MenuInv, SeenInv
    <3> QED
      BY <2>1, <3>1 DEF MenuInv, KeysInv, SeenInv, HandledInv,
         ConfirmedStaysYes, NeverConfirmsNo
  <2>3. CASE screen = "trust"
    <3>0. seen.screen = "trust"
      BY <2>1, <2>3 DEF MenuInv, SeenInv
    <3>1. ~yes /\ keys = <<>>
      BY <2>1, <2>3, <3>0 DEF MenuInv, SeenInv, KeysInv
    <3>2. keys' = Down /\ movedAt' = "recent"
      BY <1>4, <2>3, <3>1 DEF MoveToYes, Press
    <3> QED
      BY <2>1, <2>3, <3>1, <3>2 DEF MenuInv, KeysInv, SeenInv, HandledInv,
         ConfirmedStaysYes, NeverConfirmsNo
  <2> QED
    BY <2>2, <2>3
<1>5. CASE ConfirmTrust
  <2>1. /\ at = "decide" /\ ~trustHandled /\ seen.screen \in {"trust", "prompt"} /\ seen.yes
        /\ at' # "decide"
        /\ UNCHANGED <<styleHandled, tuiVars>>
    BY <1>5 DEF ConfirmTrust, TrustTurn, MenuShown, Press, Return
  <2>2. CASE screen # "trust"
    <3>1. screen \in {"prompt", "gone"}
      BY <2>1, <2>2 DEF MenuInv, SeenInv
    <3> QED
      BY <2>1, <3>1 DEF MenuInv, KeysInv, SeenInv, HandledInv,
         ConfirmedStaysYes, NeverConfirmsNo
  <2>3. CASE screen = "trust"
    <3>0. seen.screen = "trust"
      BY <2>1, <2>3 DEF MenuInv, SeenInv
    <3>1. yes /\ keys = <<>>
      BY <2>1, <2>3, <3>0 DEF MenuInv, SeenInv, KeysInv
    <3>2. keys' = Enter /\ at' = "top" /\ trustHandled'
      BY <1>5, <2>3, <3>1 DEF ConfirmTrust, Press
    <3> QED
      BY <2>1, <2>3, <3>1, <3>2 DEF MenuInv, KeysInv, SeenInv, HandledInv,
         ConfirmedStaysYes, NeverConfirmsNo
  <2> QED
    BY <2>2, <2>3
<1>6. CASE DownAges
  BY <1>6 DEF DownAges, MenuInv, KeysInv, SeenInv, HandledInv,
     ConfirmedStaysYes, NeverConfirmsNo
<1>7. CASE Draw
  <2>1. \/ screen = "boot" /\ screen' \in {"prompt", "drawing", "style", "login"}
        \/ screen = "drawing" /\ screen' = "trust"
    BY <1>7, ReadyAssumption DEF ReadyAssumption, Draw, Following, Modal
  <2> QED
    BY <1>7, <2>1 DEF Draw, MenuInv, KeysInv, SeenInv, HandledInv,
       ConfirmedStaysYes, NeverConfirmsNo
<1>8. CASE HandleKey
  <2>0. /\ keys # <<>> /\ keys' = Tail(keys) /\ UNCHANGED driverVars
        /\ screen \notin {"boot", "drawing", "gone"}
    BY <1>8 DEF HandleKey, MenuInv, KeysInv
  <2>1. CASE screen = "style"
    <3>1. keys = Enter /\ styleHandled
      BY <2>0, <2>1 DEF MenuInv, KeysInv
    <3>2. screen' \in {"prompt", "drawing"} /\ UNCHANGED <<yes, saidNo>> /\ keys' = <<>>
      BY <1>8, <2>0, <2>1, <3>1 DEF HandleKey, Following, Modal
    <3> QED
      BY <2>0, <2>1, <3>1, <3>2 DEF MenuInv, KeysInv, SeenInv, HandledInv,
         ConfirmedStaysYes, NeverConfirmsNo
  <2>2. CASE screen = "trust" /\ keys = Down
    <3>1. ~yes /\ movedAt = "recent" /\ ~trustHandled
      BY <2>2 DEF MenuInv, KeysInv
    <3>2. yes' /\ UNCHANGED <<screen, saidNo>> /\ keys' = <<>>
      BY <1>8, <2>0, <2>2, <3>1 DEF HandleKey
    <3> QED
      BY <2>0, <2>2, <3>1, <3>2 DEF MenuInv, KeysInv, SeenInv, HandledInv,
         ConfirmedStaysYes, NeverConfirmsNo
  <2>3. CASE screen = "trust" /\ keys = Enter
    <3>1. yes
      BY <2>3 DEF MenuInv, KeysInv, ConfirmedStaysYes
    <3>2. screen' = "prompt" /\ ~saidNo'
      BY <1>8, <2>0, <2>3, <3>1 DEF HandleKey
    <3> QED
      BY <2>0, <2>3, <3>2 DEF MenuInv, KeysInv, SeenInv, HandledInv,
         ConfirmedStaysYes, NeverConfirmsNo
  <2>4. CASE screen \notin {"style", "trust"}
    <3>1. UNCHANGED <<screen, saidNo>> /\ UNCHANGED yes
      BY <1>8, <2>4 DEF HandleKey
    <3> QED
      BY <2>0, <2>4, <3>1 DEF MenuInv, KeysInv, SeenInv, HandledInv,
         ConfirmedStaysYes, NeverConfirmsNo
  <2>5. screen = "trust" => keys = Down \/ keys = Enter
    BY <2>0 DEF MenuInv, KeysInv
  <2> QED
    BY <2>1, <2>2, <2>3, <2>4, <2>5
<1>9. CASE LoseKey
  BY <1>9 DEF LoseKey, MenuInv, KeysInv, SeenInv, HandledInv,
     ConfirmedStaysYes, NeverConfirmsNo
<1>10. CASE Crash
  BY <1>10 DEF Crash, MenuInv, KeysInv, SeenInv, HandledInv,
     ConfirmedStaysYes, NeverConfirmsNo
<1>11. CASE Deadline \/ UNCHANGED vars
  BY <1>11 DEF Deadline, vars, MenuInv, KeysInv, SeenInv, HandledInv,
     ConfirmedStaysYes, NeverConfirmsNo
<1> QED
  BY <1>1, <1>2, <1>3, <1>4, <1>5, <1>6, <1>7, <1>8, <1>9, <1>10, <1>11
     DEF Next, Driver, TUI

\* As long as claude handles a Down within trustRedrawWait, the driver never
\* confirms "No, exit": lost keys, stale captures, late modals, crashes and
\* deadlines included (drive.go:78-114).
THEOREM NoIsNeverConfirmed ==
    ASSUME SlowTUI = FALSE
    PROVE  Spec => []NeverConfirmsNo
<1>1. Init => TypeOK /\ MenuInv
  BY InitReady
<1>2. TypeOK /\ MenuInv /\ [Next]_vars => (TypeOK /\ MenuInv)'
  BY NextReadyTypes, NextMenu
<1>3. MenuInv => NeverConfirmsNo
  BY DEF MenuInv
<1> QED
  BY <1>1, <1>2, <1>3, PTL DEF Spec

\* From the Enter on, the menu stays on the Yes that was seen, under the same
\* assumption (drive.go:85-112).
THEOREM ConfirmedYesStays ==
    ASSUME SlowTUI = FALSE
    PROVE  Spec => []ConfirmedStaysYes
<1>1. TypeOK /\ MenuInv /\ [Next]_vars => (TypeOK /\ MenuInv)'
  BY NextReadyTypes, NextMenu
<1>2. MenuInv => ConfirmedStaysYes
  BY DEF MenuInv
<1> QED
  BY <1>1, <1>2, InitReady, PTL DEF Spec

-----------------------------------------------------------------------------
(* What the driver returns.                                                *)

\* A prompt that was captured is still there, and the driver captures no more
\* once it has returned.
ReturnInv ==
    /\ outcome # "none" => at = "done"
    /\ at = "decide" /\ seen.screen = "prompt" => screen \in {"prompt", "gone"}
    /\ ReadyMeansPrompt

\* Nothing leaves the prompt but claude's end.
LEMMA PromptStays ==
    ASSUME [Next]_vars PROVE screen \in {"prompt", "gone"} => screen' \in {"prompt", "gone"}
<1> USE DEF tuiVars, driverVars
<1>1. CASE Driver
  BY <1>1 DEF Driver, Top, Capture, DismissStyle, AwaitRedraw, GiveUp, MoveToYes, ConfirmTrust,
              CheckReady
<1>2. CASE TUI \/ DownAges \/ Deadline \/ LoseKey \/ Crash
  BY <1>2 DEF TUI, Draw, HandleKey, DownAges, Deadline, LoseKey, Crash
<1>3. CASE UNCHANGED vars
  BY <1>3 DEF vars
<1> QED
  BY <1>1, <1>2, <1>3 DEF Next

LEMMA NextReturn ==
    ASSUME MenuLooksReady = FALSE, ReturnInv, [Next]_vars PROVE ReturnInv'
<1> USE PromptStays DEF ReturnInv, ReadyMeansPrompt, tuiVars, driverVars
<1>1. CASE Top \/ AwaitRedraw \/ GiveUp
  BY <1>1 DEF Top, AwaitRedraw, GiveUp, Return
<1>2. CASE Capture
  BY <1>2 DEF Capture
<1>3. CASE DismissStyle \/ MoveToYes \/ ConfirmTrust
  BY <1>3 DEF DismissStyle, MoveToYes, ConfirmTrust, Press, Return
<1>4. CASE CheckReady
  BY <1>4 DEF CheckReady, LooksReady, Return
<1>5. CASE TUI \/ DownAges \/ Deadline \/ LoseKey \/ Crash
  BY <1>5 DEF TUI, Draw, HandleKey, DownAges, Deadline, LoseKey, Crash
<1>6. CASE UNCHANGED vars
  BY <1>6 DEF vars
<1> QED
  BY <1>1, <1>2, <1>3, <1>4, <1>5, <1>6 DEF Next, Driver

\* A ready claude is at its prompt, or gone, or was taken for ready on the style
\* picker; whatever keys are lost and however late the TUI is, as long as its trust
\* menu does not hold the cursor on an unnumbered row (drive.go:31, 116-123).
THEOREM ReadyIsAtPrompt ==
    ASSUME MenuLooksReady = FALSE
    PROVE  Spec => []ReadyMeansPrompt
<1>1. Init => ReturnInv
  BY DEF Init, ReturnInv, ReadyMeansPrompt
<1>2. ReturnInv /\ [Next]_vars => ReturnInv'
  BY NextReturn
<1>3. ReturnInv => ReadyMeansPrompt
  BY DEF ReturnInv
<1> QED
  BY <1>1, <1>2, <1>3, PTL DEF Spec
=============================================================================
