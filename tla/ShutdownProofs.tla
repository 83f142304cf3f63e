--------------------------- MODULE ShutdownProofs ---------------------------
(***************************************************************************)
(* Shutdown, proved for any waiters, exit codes and backends.              *)
(*                                                                         *)
(* Four inductive invariants, each relative to the ones before: what a     *)
(* written Enter means (EnterInv), what a recorded exit means (ExitInv),   *)
(* where the keys of a claude that reacts in time are (TimelyInv), and     *)
(* which code a session holds (CodeInv).                                   *)
(***************************************************************************)
EXTENDS Shutdown, SequenceTheorems, TLAPS

Gone == proc = "gone"

\* Unless the transcript quotes its rows, an Enter is only under way once the
\* modal has been up, and claude never goes from the modal back to its prompt.
EnterInv ==
    /\ shown = "modal" => proc # "up"
    /\ shown # "modal" => shown = text
    /\ text # "rows" =>
         /\ ~submitted
         /\ at = "confirm" => proc # "up"
         /\ \A i \in 1..Len(keys) : keys[i] = "enter" => proc # "up"

\* Whatever a session knows of an exit, it knows from the exit or from the end
\* of the connection.
ExitInv ==
    /\ events # <<>> => Gone
    /\ drain # "recv" \/ exited \/ exitCh # <<>> => Gone \/ ~up
    /\ \A w \in Callers : waitAt[w] = "ok" => Gone \/ ~up
    /\ GoneWhenDone

\* The first event of an exit carries its code.
ExitLeads == \A o \in EventOrders : o # <<>> /\ Head(o) = "exit"

\* While the connection is up, an attached session has drained nothing of an exit
\* or knows its code.
CodeInv ==
    backend = "attached" /\ up =>
        \/ drain = "recv" /\ ~exited /\ exitCh = <<>> /\ (Gone => events \in EventOrders)
        \/ Gone /\ lastCode = code /\ (exitCh # <<>> => exitCh = <<code>>)

\* A claude that quits on two Ctrl-C's and on the Enter, in time.
Cooperates == timely /\ wedged = "no" /\ needed = 2

Alive == Cooperates /\ up /\ ~Gone

\* How far Shutdown is with it: never past the wait for its exit.
Stage ==
    /\ ~late /\ waitAt[Driver] # "expired"
    /\ at \in {"ctrlc1", "ctrlc2", "top", "look", "confirm", "wait"}
    /\ proc \in {"up", "modal", "quitting"}
    /\ at \notin {"confirm", "wait"} => seen # "modal"
    /\ at # "wait" => waitAt[Driver] = "new"

\* Where the two Ctrl-C's and the Enter are.
KeysLeft ==
    /\ at = "ctrlc1" => proc = "up" /\ keys = <<>> /\ presses = 0
    /\ at = "ctrlc2" => proc = "up" /\ \/ keys = <<"ctrlc">> /\ presses = 0
                                       \/ keys = <<>> /\ presses = 1
    /\ at \in {"top", "look", "confirm"} /\ proc = "up" =>
         \/ keys = <<"ctrlc", "ctrlc">> /\ presses = 0
         \/ keys = <<"ctrlc">> /\ presses = 1
    /\ at \in {"top", "look", "confirm"} /\ proc = "modal" => keys = <<>>
    /\ at = "wait" /\ proc = "up" =>
         \/ keys = <<"ctrlc", "ctrlc", "enter">> /\ presses = 0
         \/ keys = <<"ctrlc", "enter">> /\ presses = 1
    /\ at = "wait" /\ proc = "modal" => keys = <<"enter">>

TimelyInv == (Cooperates => ~killed) /\ (Alive => Stage /\ KeysLeft)
-----------------------------------------------------------------------------
(* Types.                                                                  *)

LEMMA InitTypes == Init => TypeOK
<1> USE ShutdownAssumption DEF ShutdownAssumption, Init
<1>1. Init => ChoicesOK
  BY DEF ChoicesOK
<1>2. Init => ClaudeOK
  <2>1. Init => keys \in Seq({"ctrlc", "enter"})
    OBVIOUS
  <2>2. Init => code \in Codes \cup {0}
    OBVIOUS
  <2>3. Init => presses \in Nat /\ proc \in {"up", "modal", "quitting", "killed", "gone"}
    OBVIOUS
  <2>4. Init => /\ shown \in {"prompt", "quote", "rows", "modal"}
                /\ killed \in BOOLEAN /\ submitted \in BOOLEAN
    OBVIOUS
  <2> HIDE ShutdownAssumption DEF Init, ShutdownAssumption
  <2> QED
    BY <2>1, <2>2, <2>3, <2>4 DEF ClaudeOK
<1>3. Init => SessionOK
  <2>1. Init => events \in Seq({"exit", "bare", "closed"})
    OBVIOUS
  <2>2. Init => exitCh \in Seq(Codes \cup {0}) /\ Len(exitCh) <= 1
    OBVIOUS
  <2> QED
    BY <2>1, <2>2 DEF SessionOK
<1>4. Init => CallersOK
  BY DEF CallersOK
<1> QED
  BY <1>1, <1>2, <1>3, <1>4 DEF TypeOK

LEMMA SameChoices == ChoicesOK /\ UNCHANGED choices => ChoicesOK'
  BY DEF ChoicesOK, choices

LEMMA SameClaude == ClaudeOK /\ UNCHANGED claudeVars => ClaudeOK'
  BY DEF ClaudeOK, claudeVars, procVars, screenVars

LEMMA SameSession == SessionOK /\ UNCHANGED <<up, events, sessionVars>> => SessionOK'
  BY DEF SessionOK, sessionVars

LEMMA SameCallers == CallersOK /\ UNCHANGED <<waitVars, driverVars>> => CallersOK'
  BY DEF CallersOK, waitVars, driverVars

LEMMA ClaudeTypes == TypeOK /\ Claude => TypeOK'
<1> SUFFICES ASSUME TypeOK, Claude PROVE TypeOK'
  OBVIOUS
<1>1. UNCHANGED <<choices, waitVars, driverVars, sessionVars, up, killed>>
  BY DEF Claude, HandleKey, Draw, Die, ByClaude
<1>2. ClaudeOK'
  <2> USE ShutdownAssumption DEF ShutdownAssumption, TypeOK, ClaudeOK, screenVars
  <2>1. CASE HandleKey
    <3>1. Tail(keys) \in Seq({"ctrlc", "enter"})
      BY <2>1 DEF HandleKey
    <3>2. presses' \in Nat
      BY <2>1 DEF HandleKey, HandleCtrlC, HandleEnter
    <3>3. proc' \in {"up", "modal", "quitting", "killed", "gone"}
      BY <2>1 DEF HandleKey, HandleCtrlC, HandleEnter
    <3>4. submitted' \in BOOLEAN
      BY <2>1 DEF HandleKey, HandleCtrlC, HandleEnter
    <3> QED
      BY <1>1, <2>1, <3>1, <3>2, <3>3, <3>4 DEF HandleKey
  <2>2. CASE Draw \/ Die
    BY <1>1, <2>2 DEF Draw, Die
  <2> QED
    BY <2>1, <2>2 DEF Claude
<1>3. SessionOK'
  <2>1. events' \in Seq({"exit", "bare", "closed"})
    <3>1. events' = events \/ \E order \in EventOrders : events' = events \o order
      BY DEF Claude, HandleKey, Draw, Die
    <3>2. EventOrders \subseteq Seq({"exit", "bare", "closed"})
      BY ShutdownAssumption DEF ShutdownAssumption
    <3>3. events \in Seq({"exit", "bare", "closed"})
      BY DEF TypeOK, SessionOK
    <3>4. CASE events' = events
      BY <3>3, <3>4
    <3>5. CASE \E order \in EventOrders : events' = events \o order
      BY <3>2, <3>3, <3>5
    <3> QED
      BY <3>1, <3>4, <3>5
  <2> QED
    BY <1>1, <2>1 DEF TypeOK, SessionOK, sessionVars
<1> QED
  BY <1>1, <1>2, <1>3, SameChoices, SameCallers DEF TypeOK

LEMMA DrainTypes == TypeOK /\ (Drain \/ Lose) => TypeOK'
<1> SUFFICES ASSUME TypeOK, Drain \/ Lose PROVE TypeOK'
  OBVIOUS
<1>1. UNCHANGED <<choices, claudeVars, waitVars, driverVars>>
  BY DEF Drain, DrainEvent, DrainEnd, Flag, SendCode, Lose, ByDrain
<1>2. SessionOK'
  <2> USE DEF TypeOK, SessionOK, ClaudeOK, ByDrain
  <2>1. CASE DrainEvent
    <3>1. Tail(events) \in Seq({"exit", "bare", "closed"})
      BY <2>1 DEF DrainEvent
    <3> QED
      BY <2>1, <3>1 DEF DrainEvent
  <2>2. CASE SendCode
    <3>1. exitCh \in Seq(Codes \cup {0}) /\ Len(exitCh) <= 1 /\ lastCode \in Codes \cup {0}
      OBVIOUS
    <3>2. exitCh' = exitCh \/ exitCh' = <<lastCode>>
      BY <2>2 DEF SendCode
    <3>3. <<lastCode>> \in Seq(Codes \cup {0}) /\ Len(<<lastCode>>) <= 1
      BY <3>1
    <3>4. exitCh' \in Seq(Codes \cup {0}) /\ Len(exitCh') <= 1
      <4> HIDE DEF TypeOK, SessionOK, ClaudeOK, ByDrain
      <4> QED
        BY <3>1, <3>2, <3>3, Zenon
    <3> QED
      BY <2>2, <3>4 DEF SendCode
  <2>3. CASE DrainEnd \/ Flag \/ Lose
    BY <2>3 DEF DrainEnd, Flag, Lose, sessionVars
  <2> QED
    BY <2>1, <2>2, <2>3 DEF Drain
<1> QED
  BY <1>1, <1>2, SameChoices, SameClaude, SameCallers DEF TypeOK

LEMMA WaitTypes == ASSUME NEW w \in Callers PROVE TypeOK /\ (Wait(w) \/ Expire) => TypeOK'
<1> SUFFICES ASSUME TypeOK, Wait(w) \/ Expire PROVE TypeOK'
  OBVIOUS
<1>1. ByWaiter
  BY DEF Wait, CallWait, ReceiveCode, SeeExit, Expire
<1>2. ExitCode \in Codes \cup {0}
  BY ShutdownAssumption
     DEF ShutdownAssumption, ExitCode, TypeOK, SessionOK, ClaudeOK, ChoicesOK
<1>3. CASE ReceiveCode(w)
  <2>1. Head(exitCh) \in Codes \cup {0} /\ Tail(exitCh) \in Seq(Codes \cup {0})
        /\ Len(Tail(exitCh)) <= 1
    BY <1>3 DEF ReceiveCode, TypeOK, SessionOK
  <2>2. SessionOK'
    BY <1>1, <1>3, <2>1 DEF ReceiveCode, ByWaiter, TypeOK, SessionOK
  <2>3. CallersOK'
    BY <1>1, <1>3, <2>1 DEF ReceiveCode, WaitReturns, ByWaiter, driverVars, TypeOK, CallersOK
  <2> QED
    BY <1>1, <2>2, <2>3, SameChoices, SameClaude DEF TypeOK, ByWaiter
<1>4. CASE CallWait(w) \/ SeeExit(w) \/ Expire
  <2>1. UNCHANGED <<up, events, sessionVars>>
    BY <1>1, <1>4 DEF CallWait, SeeExit, Expire, ByWaiter, sessionVars
  <2>2. CallersOK'
    BY <1>1, <1>2, <1>4
       DEF CallWait, SeeExit, Expire, WaitReturns, ByWaiter, driverVars, TypeOK, CallersOK
  <2> QED
    BY <1>1, <2>1, <2>2, SameChoices, SameClaude, SameSession DEF TypeOK, ByWaiter
<1> QED
  BY <1>3, <1>4 DEF Wait

LEMMA WriteTypes ==
    ASSUME TypeOK, NEW key \in {"ctrlc", "enter"}, Write(key) PROVE ClaudeOK'
  BY DEF Write, TypeOK, ClaudeOK, ByDriver, screenVars, procVars

LEMMA StepTypes == TypeOK /\ (Steps \/ Late) => TypeOK'
<1> SUFFICES ASSUME TypeOK, Steps \/ Late PROVE TypeOK'
  OBVIOUS
<1>1. UNCHANGED <<choices, screenVars, code, events, sessionVars, waitVars>>
  BY DEF Steps, PressCtrlC, Top, Look, Confirm, WaitExit, LastCheck, Kill, Close, Late,
         Write, Watching, ByDriver
<1>2. ClaudeOK'
  <2>1. CASE PressCtrlC \/ Confirm
    BY <2>1, WriteTypes DEF PressCtrlC, Confirm
  <2>2. CASE Kill \/ Close
    BY <1>1, <2>2 DEF Kill, Close, TypeOK, ClaudeOK, screenVars, procVars
  <2>3. CASE Top \/ Look \/ WaitExit \/ LastCheck \/ Late
    BY <1>1, <2>3, SameClaude
       DEF Top, Look, WaitExit, LastCheck, Late, Watching, claudeVars, TypeOK
  <2> QED
    BY <2>1, <2>2, <2>3 DEF Steps
<1>3. up' \in BOOLEAN
  BY DEF TypeOK, SessionOK, Steps, PressCtrlC, Top, Look, Confirm, WaitExit, LastCheck,
         Kill, Close, Late, Write, Watching
<1>4. SessionOK'
  BY <1>1, <1>3 DEF TypeOK, SessionOK, sessionVars
<1>5. CallersOK'
  BY <1>1 DEF TypeOK, CallersOK, ClaudeOK, waitVars, Steps, PressCtrlC, Top, Look, Confirm,
         WaitExit, LastCheck, Kill, Close, Late, Write, Go
<1> QED
  BY <1>1, <1>2, <1>4, <1>5, SameChoices DEF TypeOK

LEMMA NextTypes == TypeOK /\ [Next]_vars => TypeOK'
<1>1. TypeOK /\ UNCHANGED vars => TypeOK'
  BY SameChoices, SameClaude, SameSession, SameCallers DEF TypeOK, vars
<1>2. Driver \in Callers
  BY DEF Callers
<1> QED
  BY <1>1, <1>2, ClaudeTypes, DrainTypes, WaitTypes, StepTypes DEF Next

\* Every variable of Shutdown, of the session it acts on and of the callers of
\* Wait keeps its type; the channel never holds two codes.
THEOREM TypesCorrect == Spec => []TypeOK
  BY InitTypes, NextTypes, PTL DEF Spec

-----------------------------------------------------------------------------
(* The Enter.                                                              *)

LEMMA EnterStart == Init => EnterInv
  BY DEF Init, EnterInv

\* Nothing puts claude back to its prompt.
LEMMA NeverUpAgain == TypeOK /\ [Next]_vars /\ proc # "up" => proc' # "up"
<1> SUFFICES ASSUME TypeOK, [Next]_vars, proc # "up" PROVE proc' # "up"
  OBVIOUS
<1>1. CASE Claude
  BY <1>1 DEF Claude, HandleKey, HandleCtrlC, HandleEnter, Draw, Die
<1>2. CASE Steps \/ Late
  BY <1>2 DEF Steps, PressCtrlC, Top, Look, Confirm, WaitExit, LastCheck, Kill, Close, Late,
              Write, Watching, procVars
<1>3. CASE Drain \/ Lose
  BY <1>3 DEF Drain, DrainEvent, DrainEnd, Flag, SendCode, Lose, ByDrain, claudeVars, procVars
<1>4. CASE Expire \/ \E w \in Callers : Wait(w)
  BY <1>4 DEF Expire, Wait, CallWait, ReceiveCode, SeeExit, ByWaiter, claudeVars, procVars
<1>5. CASE UNCHANGED vars
  BY <1>5 DEF vars, claudeVars, procVars
<1> QED
  BY <1>1, <1>2, <1>3, <1>4, <1>5 DEF Next

LEMMA EnterStep == TypeOK /\ EnterInv /\ [Next]_vars => EnterInv'
<1> SUFFICES ASSUME TypeOK, EnterInv, [Next]_vars PROVE EnterInv'
  OBVIOUS
<1>1. proc # "up" => proc' # "up"
  BY NeverUpAgain
<1>2. CASE HandleKey
  <2>1. text # "rows" => ~submitted'
    <3>1. text # "rows" /\ keys # <<>> /\ Head(keys) = "enter" => proc # "up"
      BY DEF EnterInv, TypeOK, ClaudeOK
    <3> QED
      BY <1>2, <3>1 DEF HandleKey, HandleCtrlC, HandleEnter, EnterInv
  <2>2. text # "rows" => \A i \in 1..Len(keys') : keys'[i] = "enter" => proc' # "up"
    <3>1. \A i \in 1..Len(Tail(keys)) : Tail(keys)[i] = keys[i + 1] /\ i + 1 \in 1..Len(keys)
      BY <1>2 DEF HandleKey, TypeOK, ClaudeOK
    <3> QED
      BY <1>1, <1>2, <3>1 DEF HandleKey, EnterInv
  <2> QED
    BY <1>1, <1>2, <2>1, <2>2 DEF HandleKey, ByClaude, choices, driverVars, EnterInv
<1>3. CASE Draw \/ Die
  BY <1>1, <1>3 DEF Draw, Die, ByClaude, choices, driverVars, screenVars, EnterInv
<1>4. CASE PressCtrlC
  <2>1. keys' = keys \/ keys' = Append(keys, "ctrlc")
    BY <1>4 DEF PressCtrlC, Write
  <2>2. \A i \in 1..Len(keys') : keys'[i] = "enter" => i \in 1..Len(keys) /\ keys[i] = "enter"
    BY <2>1 DEF TypeOK, ClaudeOK
  <2> QED
    BY <1>1, <1>4, <2>2 DEF PressCtrlC, Go, Write, ByDriver, choices, screenVars, EnterInv
<1>5. CASE Confirm
  <2>1. text # "rows" => proc' # "up"
    BY <1>1, <1>5 DEF Confirm, Go, EnterInv
  <2> QED
    BY <1>1, <1>5, <2>1 DEF Confirm, Go, Write, ByDriver, choices, screenVars, EnterInv
<1>6. CASE Look
  BY <1>1, <1>6 DEF Look, Go, HasExitConfirm, Watching, ByDriver, choices, screenVars, EnterInv
<1>7. CASE Top \/ WaitExit \/ LastCheck \/ Late
  BY <1>1, <1>7 DEF Top, WaitExit, LastCheck, Late, Go, Watching, ByDriver, choices, screenVars, EnterInv
<1>8. CASE Kill \/ Close
  BY <1>1, <1>8 DEF Kill, Close, Go, ByDriver, choices, screenVars, EnterInv
<1>9. CASE Drain \/ Lose
  BY <1>9 DEF Drain, DrainEvent, DrainEnd, Flag, SendCode, Lose, ByDrain, claudeVars, procVars,
              screenVars, driverVars, choices, EnterInv
<1>10. CASE Expire \/ \E w \in Callers : Wait(w)
  BY <1>10 DEF Expire, Wait, CallWait, ReceiveCode, SeeExit, ByWaiter, claudeVars, procVars,
               screenVars, driverVars, choices, EnterInv
<1>11. CASE UNCHANGED vars
  BY <1>11 DEF vars, claudeVars, procVars, screenVars, driverVars, choices, EnterInv
<1> QED
  BY <1>2, <1>3, <1>4, <1>5, <1>6, <1>7, <1>8, <1>9, <1>10, <1>11 DEF Next, Claude, Steps

\* Unless the transcript quotes both rows of the modal, the Enter Shutdown sends
\* never submits what is in the input box - whatever else claude shows, whenever
\* its modal comes and whatever becomes of the keys before.
THEOREM EnterSubmitsNothing == Spec => []EnterOnlyConfirms
<1>1. EnterInv => EnterOnlyConfirms
  BY DEF EnterInv, EnterOnlyConfirms
<1> QED
  BY <1>1, EnterStart, EnterStep, TypesCorrect, PTL DEF Spec

-----------------------------------------------------------------------------
(* The exit, and what is known of it.                                      *)

LEMMA ExitStart == Init => ExitInv
  BY DEF Init, ExitInv, GoneWhenDone

\* A recorded exit is an exit, or the end of the connection.
LEMMA ExitedMeans == TypeOK /\ ExitInv /\ HasExited => Gone \/ ~up
  BY ShutdownAssumption
     DEF ShutdownAssumption, TypeOK, ChoicesOK, ExitInv, HasExited, InprocExited,
         AttachedExited, RefExited, RefAlive, Gone

\* Claude stays gone, and the connection lost.
LEMMA ExitStays ==
    TypeOK /\ [Next]_vars =>
      /\ Gone => Gone'
      /\ ~up => ~up'
      /\ proc \in {"gone", "killed"} => proc' \in {"gone", "killed"}
<1> SUFFICES ASSUME TypeOK, [Next]_vars
             PROVE /\ Gone => Gone'
                   /\ ~up => ~up'
                   /\ proc \in {"gone", "killed"} => proc' \in {"gone", "killed"}
  OBVIOUS
<1>1. CASE Claude
  BY <1>1 DEF Claude, HandleKey, Draw, Die, ByClaude, Gone
<1>2. CASE PressCtrlC \/ Confirm \/ Top \/ Look \/ WaitExit \/ LastCheck \/ Late
  BY <1>2 DEF PressCtrlC, Confirm, Top, Look, WaitExit, LastCheck, Late, Write, Watching,
              procVars, Gone
<1>3. CASE Kill \/ Close
  BY <1>3 DEF Kill, Close, procVars, Gone, TypeOK, SessionOK
<1>4. CASE Drain \/ Lose
  BY <1>4 DEF Drain, DrainEvent, DrainEnd, Flag, SendCode, Lose, ByDrain, claudeVars, procVars, Gone
<1>5. CASE Expire \/ \E w \in Callers : Wait(w)
  BY <1>5 DEF Expire, Wait, CallWait, ReceiveCode, SeeExit, ByWaiter, claudeVars, procVars, Gone
<1>6. CASE UNCHANGED vars
  BY <1>6 DEF vars, claudeVars, procVars, Gone
<1> QED
  BY <1>1, <1>2, <1>3, <1>4, <1>5, <1>6 DEF Next, Steps

LEMMA ExitStep == TypeOK /\ ExitInv /\ [Next]_vars => ExitInv'
<1> SUFFICES ASSUME TypeOK, ExitInv, [Next]_vars PROVE ExitInv'
  OBVIOUS
<1> USE ExitStays
<1>1. CASE Claude
  <2>1. events' # events => Gone'
    BY <1>1 DEF Claude, HandleKey, Draw, Die, Gone
  <2> QED
    BY <1>1, <2>1 DEF Claude, HandleKey, Draw, Die, ByClaude, sessionVars, waitVars, driverVars,
                      ExitInv, GoneWhenDone, Gone
<1>2. CASE Steps \/ Late
  <2>1. UNCHANGED <<events, sessionVars, waitVars>>
    BY <1>2 DEF Steps, PressCtrlC, Top, Look, Confirm, WaitExit, LastCheck, Kill, Close, Late,
                Write, Watching, ByDriver
  <2>2. GoneWhenDone'
    <3>1. CASE Top \/ WaitExit \/ LastCheck
      <4>1. Gone \/ ~up => Gone' \/ ~up'
        OBVIOUS
      <4>2. HasExited \/ waitAt[Driver] = "ok" => Gone \/ ~up
        BY ExitedMeans DEF ExitInv, Callers
      <4> QED
        BY <3>1, <4>1, <4>2
           DEF Top, WaitExit, LastCheck, Go, GoneWhenDone, Gone
    <3>2. CASE Kill \/ Close
      BY <3>2 DEF Kill, Close, Go, ExitInv, GoneWhenDone, procVars, TypeOK, SessionOK
    <3>3. CASE PressCtrlC \/ Look \/ Confirm \/ Late
      BY <3>3 DEF PressCtrlC, Look, Confirm, Late, Go, GoneWhenDone
    <3> QED
      BY <1>2, <3>1, <3>2, <3>3 DEF Steps
  <2> QED
    BY <2>1, <2>2 DEF ExitInv, sessionVars, waitVars
<1>3. CASE Drain \/ Lose
  <2>1. drain' # "recv" \/ exited' \/ exitCh' # <<>> => Gone' \/ ~up'
    BY <1>3 DEF Drain, DrainEvent, DrainEnd, Flag, SendCode, Lose, sessionVars, ExitInv
  <2>2. events' # <<>> => Gone'
    BY <1>3 DEF Drain, DrainEvent, DrainEnd, Flag, SendCode, Lose, ExitInv
  <2> QED
    BY <1>3, <2>1, <2>2 DEF Drain, DrainEvent, DrainEnd, Flag, SendCode, Lose, ByDrain,
       waitVars, driverVars, ExitInv, GoneWhenDone
<1>4. CASE Expire \/ \E w \in Callers : Wait(w)
  <2>1. exitCh' # <<>> => exitCh # <<>>
    BY <1>4 DEF Expire, Wait, CallWait, ReceiveCode, SeeExit
  <2>2. \A w \in Callers : waitAt'[w] = "ok" => Gone' \/ ~up'
    <3>1. CASE Expire
      BY <3>1 DEF Expire, ExitInv, TypeOK, CallersOK
    <3>2. ASSUME NEW c \in Callers, Wait(c) PROVE \A w \in Callers : waitAt'[w] = "ok" => Gone' \/ ~up'
      BY <3>2, ExitedMeans
         DEF Wait, CallWait, ReceiveCode, SeeExit, WaitReturns, ExitInv, TypeOK, CallersOK
    <3> QED
      BY <1>4, <3>1, <3>2
  <2> QED
    BY <1>4, <2>1, <2>2 DEF Expire, Wait, CallWait, ReceiveCode, SeeExit, ByWaiter, claudeVars,
       procVars, driverVars, ExitInv, GoneWhenDone, Gone
<1>5. CASE UNCHANGED vars
  BY <1>5 DEF vars, claudeVars, procVars, sessionVars, waitVars, driverVars, ExitInv,
              GoneWhenDone, Gone
<1> QED
  BY <1>1, <1>2, <1>3, <1>4, <1>5 DEF Next

LEMMA ExitFacts == Spec => [](TypeOK /\ ExitInv)
  BY ExitStart, ExitStep, TypesCorrect, PTL DEF Spec

\* However claude, its modal, the keys and the connection behave, Shutdown does not
\* leave behind a claude it could have killed.
THEOREM LeavesNoClaude == Spec => []GoneWhenDone
<1>1. ExitInv => GoneWhenDone
  BY DEF ExitInv
<1> QED
  BY <1>1, ExitFacts, PTL

-----------------------------------------------------------------------------
(* A claude that reacts in time.                                           *)

LEMMA AppendToOne ==
    ASSUME NEW a, NEW b PROVE Append(<<a>>, b) = <<a, b>>
<1>1. Append(<<a>>, b) \in Seq({a, b}) /\ <<a, b>> \in Seq({a, b})
  OBVIOUS
<1>2. Len(Append(<<a>>, b)) = 2 /\ Len(<<a, b>>) = 2
  OBVIOUS
<1>3. \A i \in 1..2 : Append(<<a>>, b)[i] = <<a, b>>[i]
  OBVIOUS
<1> QED
  BY <1>1, <1>2, <1>3, SeqEqual

LEMMA AppendToTwo ==
    ASSUME NEW a, NEW b, NEW c PROVE Append(<<a, b>>, c) = <<a, b, c>>
<1>1. Append(<<a, b>>, c) \in Seq({a, b, c}) /\ <<a, b, c>> \in Seq({a, b, c})
  OBVIOUS
<1>2. Len(Append(<<a, b>>, c)) = 3 /\ Len(<<a, b, c>>) = 3
  OBVIOUS
<1>3. \A i \in 1..3 : Append(<<a, b>>, c)[i] = <<a, b, c>>[i]
  OBVIOUS
<1> QED
  BY <1>1, <1>2, <1>3, SeqEqual

LEMMA TimelyStart == Init => TimelyInv
  BY DEF Init, TimelyInv, Alive, Stage, KeysLeft, Cooperates, Gone, Callers

\* While such a claude lives nothing says that it exited.
LEMMA NotExitedYet ==
    TypeOK /\ ExitInv /\ Alive => ~HasExited /\ waitAt[Driver] # "ok"
  BY ExitedMeans DEF Alive, ExitInv, Callers

\* Time does not run out on it.
LEMMA TimeEnough == TypeOK /\ EnterInv /\ TimelyInv /\ Alive => ~Late /\ ~Expire
<1> SUFFICES ASSUME TypeOK, EnterInv, TimelyInv, Alive PROVE ~Late /\ ~Expire
  OBVIOUS
<1>1. ASSUME Late PROVE FALSE
  <2>1. at \in {"top", "look"} /\ Quiet /\ seen = shown
    BY <1>1 DEF Late, Alive, Cooperates, Gone
  <2>2. keys = <<>> /\ proc \in {"up", "modal"}
    BY <2>1 DEF Quiet, Alive, Gone, TypeOK, ClaudeOK
  <2>3. proc = "modal"
    BY <2>1, <2>2 DEF TimelyInv, Stage, KeysLeft
  <2> QED
    BY <2>1, <2>3 DEF Quiet, TimelyInv, Stage, KeysLeft
<1>2. ASSUME Expire PROVE FALSE
  <2>1. waitAt[Driver] = "select" /\ Quiet
    BY <1>2 DEF Expire, Alive, Cooperates
  <2>2. at = "wait" /\ keys = <<>> /\ proc \in {"up", "modal"}
    BY <2>1 DEF Quiet, TimelyInv, Stage, Alive, Gone, TypeOK, ClaudeOK
  <2> QED
    BY <2>2 DEF TimelyInv, Stage, KeysLeft
<1> QED
  BY <1>1, <1>2

LEMMA TimelyStep == TypeOK /\ EnterInv /\ ExitInv /\ TimelyInv /\ [Next]_vars => TimelyInv'
<1> SUFFICES ASSUME TypeOK, EnterInv, ExitInv, TimelyInv, [Next]_vars PROVE TimelyInv'
  OBVIOUS
<1>1. UNCHANGED <<choices>>
  BY DEF Next, Claude, HandleKey, Draw, Die, ByClaude, Lose, Drain, DrainEvent, DrainEnd, Flag,
         SendCode, ByDrain, Steps, PressCtrlC, Top, Look, Confirm, WaitExit, LastCheck, Kill,
         Close, Late, Write, Watching, ByDriver, Expire, Wait, CallWait, ReceiveCode, SeeExit,
         ByWaiter, vars
<1>2. Alive' => Alive
  BY <1>1, ExitStays DEF Alive, Cooperates, choices, TypeOK, SessionOK
<1>3. Cooperates => ~killed'
  <2>1. killed' # killed => Kill
    BY DEF Next, Claude, HandleKey, Draw, Die, ByClaude, Lose, Drain, DrainEvent, DrainEnd, Flag,
         SendCode, ByDrain, Steps, PressCtrlC, Top, Look, Confirm, WaitExit, LastCheck, Kill,
         Close, Late, Write, Watching, ByDriver, Expire, Wait, CallWait, ReceiveCode, SeeExit,
         ByWaiter, vars, claudeVars, procVars
  <2>2. Kill /\ killed' # killed => at = "kill" /\ up /\ ~Gone
    BY DEF Kill, Go, procVars, Gone
  <2> QED
    BY <2>1, <2>2 DEF TimelyInv, Alive, Stage
<1> SUFFICES ASSUME Alive, Alive', Stage, KeysLeft PROVE Stage' /\ KeysLeft'
  BY <1>1, <1>2, <1>3 DEF TimelyInv, Cooperates, choices
<1>5. CASE HandleKey
  <2>1. proc \in {"up", "modal"} /\ keys # <<>> /\ keys' = Tail(keys)
        /\ UNCHANGED <<waitVars, driverVars>>
    BY <1>5 DEF HandleKey, ByClaude
  <2>2. wedged = "no" /\ needed = 2
    BY DEF Alive, Cooperates
  <2>3. CASE at = "ctrlc2"
    <3>1. keys = <<"ctrlc">> /\ presses = 0 /\ proc = "up"
      BY <2>1, <2>3 DEF KeysLeft
    <3>2. keys' = <<>> /\ presses' = 1 /\ proc' = "up"
      BY <1>5, <2>1, <2>2, <3>1 DEF HandleKey, HandleCtrlC, HandleEnter
    <3> QED
      BY <2>1, <2>3, <3>2 DEF Stage, KeysLeft, waitVars, driverVars
  <2>4. CASE at \in {"top", "look", "confirm"}
    <3>1. proc = "up" /\ \/ keys = <<"ctrlc", "ctrlc">> /\ presses = 0
                         \/ keys = <<"ctrlc">> /\ presses = 1
      BY <2>1, <2>4 DEF KeysLeft
    <3>2. CASE keys = <<"ctrlc", "ctrlc">> /\ presses = 0
      <4>1. keys' = <<"ctrlc">> /\ presses' = 1 /\ proc' = "up"
        BY <1>5, <2>1, <2>2, <3>1, <3>2 DEF HandleKey, HandleCtrlC, HandleEnter
      <4> QED
        BY <2>1, <2>4, <4>1 DEF Stage, KeysLeft, waitVars, driverVars
    <3>3. CASE keys = <<"ctrlc">> /\ presses = 1
      <4>1. keys' = <<>> /\ proc' \in {"modal", "quitting"}
        BY <1>5, <2>1, <2>2, <3>1, <3>3 DEF HandleKey, HandleCtrlC, HandleEnter
      <4> QED
        BY <2>1, <2>4, <4>1 DEF Stage, KeysLeft, waitVars, driverVars
    <3> QED
      BY <3>1, <3>2, <3>3
  <2>5. CASE at = "wait"
    <3>1. CASE proc = "modal"
      <4>1. keys = <<"enter">>
        BY <2>5, <3>1 DEF KeysLeft
      <4>2. proc' = "quitting"
        BY <1>5, <2>2, <3>1, <4>1 DEF HandleKey, HandleCtrlC, HandleEnter
      <4> QED
        BY <2>1, <2>5, <4>2 DEF Stage, KeysLeft, waitVars, driverVars
    <3>2. CASE proc = "up" /\ keys = <<"ctrlc", "ctrlc", "enter">> /\ presses = 0
      <4>1. keys' = <<"ctrlc", "enter">> /\ presses' = 1 /\ proc' = "up"
        BY <1>5, <2>1, <2>2, <3>2 DEF HandleKey, HandleCtrlC, HandleEnter
      <4> QED
        BY <2>1, <2>5, <4>1 DEF Stage, KeysLeft, waitVars, driverVars
    <3>3. CASE proc = "up" /\ keys = <<"ctrlc", "enter">> /\ presses = 1
      <4>1. keys' = <<"enter">> /\ proc' \in {"modal", "quitting"}
        BY <1>5, <2>1, <2>2, <3>3 DEF HandleKey, HandleCtrlC, HandleEnter
      <4> QED
        BY <2>1, <2>5, <4>1 DEF Stage, KeysLeft, waitVars, driverVars
    <3> QED
      BY <2>1, <2>5, <3>1, <3>2, <3>3 DEF KeysLeft
  <2>6. at # "ctrlc1"
    BY <2>1 DEF KeysLeft
  <2> QED
    BY <2>3, <2>4, <2>5, <2>6 DEF Stage
<1>6. CASE Draw
  BY <1>6 DEF Draw, ByClaude, driverVars, waitVars, Stage, KeysLeft
<1>7. CASE Die
  BY <1>7 DEF Die, Alive, Gone
<1>8. CASE PressCtrlC
  <2>1. /\ keys' = Append(keys, "ctrlc")
        /\ UNCHANGED <<proc, presses, seen, late, waitAt>>
    BY <1>8 DEF PressCtrlC, Write, ByDriver, procVars, screenVars, waitVars, Alive, Gone
  <2>2. CASE at = "ctrlc1" /\ at' = "ctrlc2"
    BY <2>1, <2>2 DEF Stage, KeysLeft
  <2>3. CASE at = "ctrlc2" /\ at' = "top"
    <3>1. proc = "up" /\ \/ keys = <<"ctrlc">> /\ presses = 0
                         \/ keys = <<>> /\ presses = 1
      BY <2>3 DEF KeysLeft
    <3>2. \/ keys' = <<"ctrlc", "ctrlc">> /\ presses' = 0
          \/ keys' = <<"ctrlc">> /\ presses' = 1
      <4>1. Append(<<>>, "ctrlc") = <<"ctrlc">>
        OBVIOUS
      <4>2. Append(<<"ctrlc">>, "ctrlc") = <<"ctrlc", "ctrlc">>
        BY AppendToOne
      <4> QED
        BY <2>1, <3>1, <4>1, <4>2
    <3> QED
      BY <2>1, <2>3, <3>1, <3>2 DEF Stage, KeysLeft
  <2> QED
    BY <1>8, <2>2, <2>3 DEF PressCtrlC, Go
<1>9. CASE Top \/ WaitExit \/ LastCheck
  <2>1. at = "top" /\ at' = "look" /\ UNCHANGED seen
    BY <1>9, NotExitedYet DEF Top, WaitExit, LastCheck, Go, Stage
  <2> QED
    BY <1>9, <2>1 DEF Top, WaitExit, LastCheck, Watching, ByDriver, procVars, screenVars,
                      waitVars, Stage, KeysLeft
<1>10. CASE Look
  <2>1. at = "look" /\ seen' = shown
        /\ UNCHANGED <<proc, keys, presses, waitAt, late>>
    BY <1>10 DEF Look, Go, Watching, ByDriver, procVars, screenVars, waitVars, Alive, Cooperates
  <2>2. CASE at' = "confirm"
    BY <2>1, <2>2 DEF Stage, KeysLeft
  <2>3. CASE shown # "modal" /\ at' = "top"
    BY <2>1, <2>3 DEF Stage, KeysLeft
  <2> QED
    BY <1>10, <2>2, <2>3 DEF Look, Go, HasExitConfirm, Alive, Cooperates
<1>11. CASE Confirm
  <2>1. /\ keys' = Append(keys, "enter") /\ at = "confirm" /\ at' = "wait"
        /\ UNCHANGED <<proc, presses, seen, late, waitAt>>
    BY <1>11 DEF Confirm, Go, Write, ByDriver, procVars, screenVars, waitVars, Alive, Gone
  <2>2. proc = "modal" => keys' = <<"enter">>
    BY <2>1 DEF Stage, KeysLeft
  <2>3. proc = "up" => \/ keys' = <<"ctrlc", "ctrlc", "enter">> /\ presses' = 0
                       \/ keys' = <<"ctrlc", "enter">> /\ presses' = 1
    <3>1. Append(<<"ctrlc">>, "enter") = <<"ctrlc", "enter">>
      BY AppendToOne
    <3>2. Append(<<"ctrlc", "ctrlc">>, "enter") = <<"ctrlc", "ctrlc", "enter">>
      BY AppendToTwo
    <3> QED
      BY <2>1, <3>1, <3>2 DEF KeysLeft
  <2> QED
    BY <2>1, <2>2, <2>3 DEF Stage, KeysLeft
<1>12. CASE Kill \/ Close
  BY <1>12 DEF Kill, Close, Go, Stage
<1>13. CASE Drain \/ Lose
  BY <1>13 DEF Drain, DrainEvent, DrainEnd, Flag, SendCode, Lose, ByDrain, claudeVars, procVars,
               screenVars, waitVars, driverVars, Stage, KeysLeft
<1>14. CASE Late \/ Expire
  BY <1>14, TimeEnough
<1>15. ASSUME NEW w \in Callers, Wait(w) PROVE Stage' /\ KeysLeft'
  <2>1. UNCHANGED <<claudeVars, driverVars>>
    BY <1>15 DEF Wait, CallWait, ReceiveCode, SeeExit, ByWaiter
  <2>2. KeysLeft'
    BY <2>1 DEF KeysLeft, claudeVars, procVars, screenVars, driverVars
  <2>3. /\ waitAt'[Driver] # "expired"
        /\ at # "wait" => waitAt'[Driver] = "new"
    BY <1>15
       DEF Wait, CallWait, ReceiveCode, SeeExit, WaitReturns, Stage, TypeOK, CallersOK, Callers
  <2> QED
    BY <2>1, <2>2, <2>3 DEF Stage, claudeVars, procVars, driverVars
<1>16. CASE UNCHANGED vars
  BY <1>16 DEF vars, claudeVars, procVars, screenVars, waitVars, driverVars, Stage, KeysLeft
<1> QED
  BY <1>5, <1>6, <1>7, <1>8, <1>9, <1>10, <1>11, <1>12, <1>13, <1>14, <1>15, <1>16
     DEF Next, Claude, Steps

LEMMA TimelyFacts == Spec => [](TypeOK /\ EnterInv /\ ExitInv /\ TimelyInv)
  BY EnterStart, EnterStep, ExitStart, ExitStep, TimelyStart, TimelyStep, TypesCorrect, PTL
     DEF Spec

\* A claude that would have ended by itself - on two Ctrl-C's and the Enter, in
\* time - is never killed, so its background work is never abandoned.
THEOREM SparesTheTimely == Spec => []KilledOnlyIfStuck
<1>1. TypeOK /\ TimelyInv => KilledOnlyIfStuck
  BY ShutdownAssumption
     DEF ShutdownAssumption, TypeOK, ChoicesOK, TimelyInv, Cooperates, KilledOnlyIfStuck
<1> QED
  BY <1>1, TimelyFacts, PTL

-----------------------------------------------------------------------------
(* The reported code.                                                      *)

ReportInv == CodeInv /\ ReportsAreTrue

LEMMA ReportStart == Init => ReportInv
  BY DEF Init, ReportInv, CodeInv, ReportsAreTrue, Gone

\* The code of a claude that is gone stays what it is.
LEMMA CodeStays == TypeOK /\ [Next]_vars /\ Gone => code' = code
  BY DEF Next, Claude, HandleKey, Draw, Die, Lose, Drain, DrainEvent, DrainEnd, Flag, SendCode,
         ByDrain, Steps, PressCtrlC, Top, Look, Confirm, WaitExit, LastCheck, Kill, Close, Late,
         Write, Watching, ByDriver, Expire, Wait, CallWait, ReceiveCode, SeeExit, ByWaiter, vars,
         claudeVars, Gone

LEMMA ReportStep ==
    ASSUME ExitLeads
    PROVE  TypeOK /\ ExitInv /\ ReportInv /\ [Next]_vars => ReportInv'
<1> SUFFICES ASSUME TypeOK, ExitInv, ReportInv, [Next]_vars PROVE ReportInv'
  OBVIOUS
<1> USE ExitStays, CodeStays DEF ReportInv
<1>1. CASE Claude
  <2>1. UNCHANGED <<choices, up, sessionVars, waitVars>>
    BY <1>1 DEF Claude, HandleKey, Draw, Die, ByClaude
  <2>2. CodeInv'
    <3>1. CASE Gone
      <4>1. events' = events
        BY <1>1, <3>1 DEF Claude, HandleKey, Draw, Die, Gone
      <4> QED
        BY <2>1, <3>1, <4>1 DEF CodeInv, choices, sessionVars
    <3>2. CASE ~Gone /\ backend = "attached" /\ up
      <4>1. drain = "recv" /\ ~exited /\ exitCh = <<>> /\ events = <<>>
        BY <3>2 DEF CodeInv, ExitInv
      <4>2. EventOrders \subseteq Seq({"exit", "bare", "closed"})
        BY ShutdownAssumption DEF ShutdownAssumption
      <4>3. Gone' => \E order \in EventOrders : events' = events \o order
        BY <1>1, <3>2 DEF Claude, HandleKey, HandleCtrlC, HandleEnter, Draw, Die, Gone
      <4>4. Gone' => events' \in EventOrders
        BY <4>1, <4>2, <4>3
      <4> QED
        BY <2>1, <4>1, <4>4 DEF CodeInv, choices, sessionVars
    <3>3. CASE ~(backend = "attached" /\ up)
      BY <2>1, <3>3 DEF CodeInv, choices
    <3> QED
      BY <3>1, <3>2, <3>3
  <2> QED
    BY <2>1, <2>2 DEF ReportsAreTrue, ExitInv, choices, waitVars, Gone
<1>2. CASE Steps \/ Late
  <2>1. UNCHANGED <<choices, code, events, sessionVars, waitVars>>
    BY <1>2 DEF Steps, PressCtrlC, Top, Look, Confirm, WaitExit, LastCheck, Kill, Close, Late,
                Write, Watching, ByDriver
  <2>2. up' => up
    BY DEF TypeOK, SessionOK
  <2>3. Gone' => Gone
    BY <1>2 DEF Steps, PressCtrlC, Top, Look, Confirm, WaitExit, LastCheck, Kill, Close, Late,
                Write, Watching, procVars, Gone
  <2> QED
    BY <2>1, <2>2, <2>3 DEF CodeInv, ReportsAreTrue, choices, sessionVars, waitVars, Gone
<1>3. CASE Drain \/ Lose
  <2>1. UNCHANGED <<choices, proc, code, waitVars>>
    BY <1>3 DEF Drain, DrainEvent, DrainEnd, Flag, SendCode, Lose, ByDrain, claudeVars, procVars
  <2>2. up' => up
    BY DEF TypeOK, SessionOK
  <2>3. CASE DrainEvent
    <3>1. CASE up
      <4>1. backend = "attached" /\ drain = "recv" /\ events # <<>> /\ Gone
        BY <2>3 DEF DrainEvent, ExitInv
      <4>2. lastCode' = code /\ exitCh' = exitCh
        BY <2>3, <3>1, <4>1 DEF DrainEvent, CodeInv, ExitLeads, TypeOK, ChoicesOK
      <4> QED
        BY <2>1, <2>2, <3>1, <4>1, <4>2 DEF CodeInv, ReportsAreTrue, choices, waitVars, Gone
    <3> QED
      BY <2>1, <2>2, <3>1 DEF CodeInv, ReportsAreTrue, choices, waitVars, Gone
  <2>4. CASE DrainEnd \/ Lose
    BY <2>1, <2>2, <2>4 DEF DrainEnd, Lose, CodeInv, ReportsAreTrue, choices, waitVars, Gone
  <2>5. CASE Flag
    BY <2>1, <2>2, <2>5 DEF Flag, CodeInv, ReportsAreTrue, choices, waitVars, Gone
  <2>6. CASE SendCode
    BY <2>1, <2>2, <2>6 DEF SendCode, CodeInv, ReportsAreTrue, choices, waitVars, Gone
  <2> QED
    BY <1>3, <2>3, <2>4, <2>5, <2>6 DEF Drain
<1>4. CASE Expire
  BY <1>4 DEF Expire, ByWaiter, claudeVars, procVars, CodeInv, ReportsAreTrue, choices, Gone,
              TypeOK, CallersOK
<1>5. ASSUME NEW c \in Callers, Wait(c) PROVE ReportInv'
  <2>1. UNCHANGED <<choices, proc, code, up, events, drain, exited, lastCode>>
    BY <1>5 DEF Wait, CallWait, ReceiveCode, SeeExit, ByWaiter, claudeVars, procVars
  <2>2. exitCh' = exitCh \/ exitCh' = Tail(exitCh)
    BY <1>5 DEF Wait, CallWait, ReceiveCode, SeeExit
  <2>3. CodeInv'
    <3>1. exitCh' = exitCh \/ (exitCh # <<>> /\ exitCh' = Tail(exitCh) /\ backend = "attached")
      BY <1>5 DEF Wait, CallWait, ReceiveCode, SeeExit
    <3>2. exitCh = <<code>> => Tail(exitCh) = <<>>
      BY DEF TypeOK, ClaudeOK
    <3> QED
      BY <2>1, <3>1, <3>2 DEF CodeInv, choices, Gone
  <2>4. ASSUME waitAt'[c] = "ok", backend # "ref", up
        PROVE  Gone /\ got'[c] = code
    <3>1. CASE waitAt[c] = "ok"
      BY <1>5, <3>1 DEF Wait, CallWait, ReceiveCode, SeeExit
    <3>2. CASE ReceiveCode(c)
      <4>1. backend = "attached" /\ exitCh # <<>> /\ got'[c] = Head(exitCh)
        BY <3>2 DEF ReceiveCode, WaitReturns, TypeOK, CallersOK
      <4>2. Gone /\ exitCh = <<code>>
        BY <2>4, <4>1 DEF CodeInv
      <4> QED
        BY <4>1, <4>2
    <3>3. CASE HasExited /\ got'[c] = ExitCode
      <4>1. CASE backend = "inproc"
        BY <3>3, <4>1 DEF HasExited, InprocExited, ExitCode, Gone
      <4>2. CASE backend = "attached"
        BY <2>4, <3>3, <4>2 DEF HasExited, AttachedExited, ExitCode, CodeInv
      <4> QED
        BY <2>4, <4>1, <4>2, ShutdownAssumption DEF ShutdownAssumption, TypeOK, ChoicesOK
    <3>4. \/ waitAt[c] = "ok" \/ ReceiveCode(c) \/ (HasExited /\ got'[c] = ExitCode)
      BY <1>5, <2>4 DEF Wait, CallWait, SeeExit, WaitReturns, TypeOK, CallersOK
    <3> QED
      BY <3>1, <3>2, <3>3, <3>4
  <2>5. \A w \in Callers \ {c} : waitAt'[w] = waitAt[w] /\ got'[w] = got[w]
    BY <1>5 DEF Wait, CallWait, ReceiveCode, SeeExit, WaitReturns, TypeOK, CallersOK
  <2> QED
    BY <2>1, <2>3, <2>4, <2>5 DEF ReportsAreTrue, choices, Gone
<1>6. CASE UNCHANGED vars
  BY <1>6 DEF vars, claudeVars, procVars, sessionVars, waitVars, choices, CodeInv,
              ReportsAreTrue, Gone
<1> QED
  BY <1>1, <1>2, <1>3, <1>4, <1>5, <1>6 DEF Next

\* When the daemon tells an exit before anything else of the session's end, every
\* caller of Wait is told the exit code of the process, or the connection ended.
THEOREM TellsTheCode ==
    ASSUME ExitLeads PROVE Spec => []ReportsAreTrue
<1>1. TypeOK /\ ExitInv /\ ReportInv /\ [Next]_vars => ReportInv'
  BY ReportStep
<1>2. ReportInv => ReportsAreTrue
  BY DEF ReportInv
<1> QED
  BY <1>1, <1>2, ReportStart, ExitFacts, PTL DEF Spec

=============================================================================
