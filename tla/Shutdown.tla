------------------------------ MODULE Shutdown ------------------------------
(***************************************************************************)
(* Shutdown (pkg/claudepty/drive.go): two Ctrl-C's, the "Exit anyway"      *)
(* modal confirmed when it shows, a kill as the last resort - over the     *)
(* three PTYSessions: the in-process pty, the attached daemon session with *)
(* its drain goroutine (backend_daemon.go) and the connection-light one    *)
(* (daemon_ref.go), whose Exited and Wait other callers use meanwhile.     *)
(***************************************************************************)
EXTENDS Naturals, Sequences

CONSTANTS
    Backends,    \* "inproc", "attached", "ref"
    Waiters,     \* other callers of Wait on the same PTYSession
    Driver,      \* Shutdown's own call of Wait
    Codes,       \* the exit codes claude may have
    Needed,      \* how many Ctrl-C's claude may take to quit
    EventOrders, \* the events the daemon may send of an exit: "exit" has its
                 \* code, "bare" is an exit without one
    MayLose,     \* whether the daemon's connection may be lost
    MayExit      \* whether claude may exit by itself

ASSUME ShutdownAssumption ==
    /\ Backends \subseteq {"inproc", "attached", "ref"}
    /\ Driver \notin Waiters
    /\ Codes \subseteq Nat /\ Needed \subseteq Nat \ {0, 1}
    /\ EventOrders \subseteq Seq({"exit", "bare", "closed"})
    /\ MayLose \in BOOLEAN /\ MayExit \in BOOLEAN

VARIABLES
    \* chosen at the start
    backend,
    text,        \* what the transcript on the screen is like: "prompt", or it has
                 \* a "quote" of the modal's phrase or its two "rows"
    timely,      \* claude and its connection react within Shutdown's budgets
    background,  \* background work is running
    needed,      \* the Ctrl-C's it takes: more than two when the first one
                 \* only ends a turn or empties the input box
    wedged,      \* "no", or what claude no longer reacts to: "keys", "enter"
    \* claude (external)
    proc,        \* "up", "modal", "quitting", "killed", "gone"
    presses,     \* Ctrl-C's handled
    keys,        \* keys sent and not yet handled
    shown,       \* what the terminal shows
    code,        \* the exit code of the process, once it is gone
    killed, submitted,  \* ghosts: killed by a signal; an Enter reached the input box
    \* the daemon's connection (external)
    up, events,
    \* the attached session
    drain,       \* its goroutine: "recv", "flag", "send", "over"
    exited, lastCode, exitCh,
    \* callers of Wait
    waitAt,      \* "new", "select", "ok", "expired"
    got,         \* the code Wait returned
    \* Shutdown
    at, seen,
    late         \* the first deadline has passed

choices     == <<backend, text, timely, background, needed, wedged>>
procVars    == <<proc, killed>>
screenVars  == <<presses, shown, submitted>>
sessionVars == <<drain, exited, lastCode, exitCh>>
waitVars    == <<waitAt, got>>
driverVars  == <<at, seen, late>>
claudeVars  == <<procVars, keys, screenVars, code>>
vars == <<choices, claudeVars, up, events, sessionVars, waitVars, driverVars>>

Callers == Waiters \cup {Driver}

ChoicesOK ==
    /\ backend \in Backends /\ text \in {"prompt", "quote", "rows"}
    /\ timely \in BOOLEAN /\ background \in BOOLEAN
    /\ needed \in Needed /\ wedged \in {"no", "keys", "enter"}

ClaudeOK ==
    /\ proc \in {"up", "modal", "quitting", "killed", "gone"}
    /\ presses \in Nat /\ keys \in Seq({"ctrlc", "enter"})
    /\ shown \in {"prompt", "quote", "rows", "modal"} /\ code \in Codes \cup {0}
    /\ killed \in BOOLEAN /\ submitted \in BOOLEAN

SessionOK ==
    /\ up \in BOOLEAN /\ events \in Seq({"exit", "bare", "closed"})
    /\ drain \in {"recv", "flag", "send", "over"}
    /\ exited \in BOOLEAN /\ lastCode \in Codes \cup {0}
    /\ exitCh \in Seq(Codes \cup {0}) /\ Len(exitCh) <= 1

CallersOK ==
    /\ waitAt \in [Callers -> {"new", "select", "ok", "expired"}]
    /\ got \in [Callers -> Codes \cup {0}]
    /\ at \in {"ctrlc1", "ctrlc2", "top", "look", "confirm", "wait", "recheck",
               "last", "kill", "done", "closed"}
    /\ seen \in {"none", "prompt", "quote", "rows", "modal"} /\ late \in BOOLEAN

TypeOK == ChoicesOK /\ ClaudeOK /\ SessionOK /\ CallersOK

Init ==
    /\ backend \in Backends /\ text \in {"prompt", "quote", "rows"}
    /\ timely \in BOOLEAN /\ background \in BOOLEAN
    /\ needed \in Needed /\ wedged \in {"no", "keys", "enter"}
    /\ proc = "up" /\ presses = 0 /\ keys = <<>>
    /\ shown = text /\ code = 0
    /\ killed = FALSE /\ submitted = FALSE
    /\ up = TRUE /\ events = <<>>
    /\ drain = "recv" /\ exited = FALSE /\ lastCode = 0 /\ exitCh = <<>>
    /\ waitAt = [w \in Callers |-> "new"] /\ got = [w \in Callers |-> 0]
    /\ at = "ctrlc1" /\ seen = "none" /\ late = FALSE

-----------------------------------------------------------------------------
(* Claude and the daemon (external).                                       *)

ByClaude == UNCHANGED <<choices, killed, up, sessionVars, waitVars, driverVars>>

\* A Ctrl-C quits, or raises the modal; Enter confirms it.  At the prompt, Enter
\* submits what is in the input box.
HandleCtrlC ==
    /\ Head(keys) = "ctrlc"
    /\ presses' = presses + 1
    /\ proc' = IF proc = "up" /\ wedged # "keys" /\ presses' >= needed
               THEN IF background THEN "modal" ELSE "quitting"
               ELSE proc
    /\ UNCHANGED submitted

HandleEnter ==
    /\ Head(keys) = "enter"
    /\ submitted' = (submitted \/ proc = "up")
    /\ proc' = IF proc = "modal" /\ wedged # "enter" THEN "quitting" ELSE proc
    /\ UNCHANGED presses

HandleKey ==
    /\ keys # <<>> /\ proc \in {"up", "modal"}
    /\ keys' = Tail(keys)
    /\ HandleCtrlC \/ HandleEnter
    /\ UNCHANGED <<shown, code, events>> /\ ByClaude

Draw ==
    /\ proc = "modal" /\ shown # "modal"
    /\ shown' = "modal"
    /\ UNCHANGED <<proc, keys, presses, submitted, code, events>> /\ ByClaude

\* The process ends: it quits, was killed, or exits by itself.
Die ==
    /\ proc \in {"quitting", "killed"} \/ (MayExit /\ proc # "gone")
    /\ proc' = "gone" /\ code' \in Codes
    /\ IF backend = "attached" /\ up
       THEN \E order \in EventOrders : events' = events \o order
       ELSE UNCHANGED events
    /\ UNCHANGED <<keys, screenVars>> /\ ByClaude

Lose ==
    /\ MayLose /\ backend # "inproc" /\ up
    /\ up' = FALSE
    /\ UNCHANGED <<choices, claudeVars, events, sessionVars, waitVars, driverVars>>

-----------------------------------------------------------------------------
(* The attached session: drain and markExited.                             *)

ByDrain == UNCHANGED <<choices, claudeVars, up, waitVars, driverVars>>

\* Mutant: the session is marked as exited before the code is stored.
DrainEventFlagged ==
    /\ backend = "attached" /\ drain = "recv" /\ events # <<>>
    /\ events' = Tail(events) /\ drain' = "flag" /\ exited' = TRUE
    /\ UNCHANGED <<lastCode, exitCh>> /\ ByDrain

\* An exit without a code leaves the one stored before.
DrainEvent ==
    /\ backend = "attached" /\ drain = "recv" /\ events # <<>>
    /\ events' = Tail(events) /\ drain' = "flag"
    /\ lastCode' = IF Head(events) = "exit" THEN code ELSE lastCode
    /\ UNCHANGED <<exited, exitCh>> /\ ByDrain

\* The events end with the connection.
DrainEnd ==
    /\ backend = "attached" /\ drain = "recv" /\ events = <<>> /\ ~up
    /\ drain' = "flag"
    /\ UNCHANGED <<events, exited, lastCode, exitCh>> /\ ByDrain

Flag ==
    /\ drain = "flag"
    /\ exited' = TRUE /\ drain' = "send"
    /\ UNCHANGED <<events, lastCode, exitCh>> /\ ByDrain

\* The channel holds one code; a second one is dropped.
SendCode ==
    /\ drain = "send"
    /\ exitCh' = IF exitCh = <<>> THEN <<lastCode>> ELSE exitCh
    /\ drain' = IF events = <<>> /\ ~up THEN "over" ELSE "recv"
    /\ UNCHANGED <<events, exited, lastCode>> /\ ByDrain

-----------------------------------------------------------------------------
(* Exited and Wait of the three PTYSessions.                               *)

InprocExited   == proc = "gone"
AttachedExited == exited

\* A listing that fails is taken for a session that is alive.
RefAlive  == ~up \/ proc # "gone"
RefExited == ~RefAlive

HasExited == CASE backend = "inproc"   -> InprocExited
               [] backend = "attached" -> AttachedExited
               [] backend = "ref"      -> RefExited

ExitCode == CASE backend = "inproc"   -> code
              [] backend = "attached" -> lastCode
              [] backend = "ref"      -> 0

ByWaiter == UNCHANGED <<choices, claudeVars, up, events, drain, exited, lastCode, driverVars>>

WaitReturns(w, c) == /\ waitAt' = [waitAt EXCEPT ![w] = "ok"]
                     /\ got' = [got EXCEPT ![w] = c]

CallWait(w) ==
    /\ waitAt[w] = "new"
    /\ w = Driver => at = "wait"
    /\ IF HasExited THEN WaitReturns(w, ExitCode)
                    ELSE waitAt' = [waitAt EXCEPT ![w] = "select"] /\ UNCHANGED got
    /\ UNCHANGED exitCh /\ ByWaiter

\* The attached session takes the code from the channel.
ReceiveCode(w) ==
    /\ backend = "attached" /\ waitAt[w] = "select" /\ exitCh # <<>>
    /\ WaitReturns(w, Head(exitCh)) /\ exitCh' = Tail(exitCh)
    /\ ByWaiter

\* The others see the process, or a later listing.
SeeExit(w) ==
    /\ backend # "attached" /\ waitAt[w] = "select" /\ HasExited
    /\ WaitReturns(w, ExitCode)
    /\ UNCHANGED exitCh /\ ByWaiter

-----------------------------------------------------------------------------
(* Shutdown.                                                               *)

ByDriver == UNCHANGED <<choices, screenVars, code, events, sessionVars, waitVars>>
Watching == ByDriver /\ UNCHANGED <<procVars, keys, up>>

Go(from, to) == at = from /\ at' = to

\* A write: the key is queued; an error is ignored.
Write(key) == /\ keys' = IF proc # "gone" /\ up THEN Append(keys, key) ELSE keys
              /\ UNCHANGED <<procVars, up, seen, late>> /\ ByDriver

PressCtrlC ==
    /\ Go("ctrlc1", "ctrlc2") \/ Go("ctrlc2", "top")
    /\ Write("ctrlc")

\* The head of the loop: deadline, then exit.
Top ==
    /\ \/ late /\ Go("top", "last")
       \/ ~late /\ HasExited /\ Go("top", "done")
       \/ ~late /\ ~HasExited /\ Go("top", "look")
    /\ Watching /\ UNCHANGED <<seen, late>>

\* Mutant: the phrase alone is taken for the modal.
HasExitConfirmPhrase(screen) == screen \in {"quote", "rows", "modal"}

\* HasExitConfirm: a line that begins as the highlighted row does and one that
\* begins as its sibling - the modal's, or those a transcript quotes.
HasExitConfirm(screen) == screen \in {"rows", "modal"}

\* SettleSnapshot: a screen, or none when it does not settle in time.
Look ==
    /\ \/ seen' = shown /\ Go("look", IF HasExitConfirm(shown) THEN "confirm" ELSE "top")
       \/ ~timely /\ seen' = "none" /\ Go("look", "top")
    /\ Watching /\ UNCHANGED late

\* Mutant: claude is not given the time to exit.
ConfirmAndLeave == Go("confirm", "last") /\ Write("enter")

Confirm == Go("confirm", "wait") /\ Write("enter")

\* waitExit: Wait returned, or its context is over and Exited is asked again.
WaitExit ==
    /\ \/ Go("wait", "done") /\ waitAt[Driver] = "ok"
       \/ Go("wait", "recheck") /\ waitAt[Driver] = "expired"
       \/ Go("recheck", IF HasExited THEN "done" ELSE "last")
    /\ Watching /\ UNCHANGED <<seen, late>>

\* Mutant: after the loop Shutdown leaves without a kill.
LastCheckLeaves ==
    /\ Go("last", "done")
    /\ Watching /\ UNCHANGED <<seen, late>>

LastCheck ==
    /\ Go("last", IF HasExited THEN "done" ELSE "kill")
    /\ Watching /\ UNCHANGED <<seen, late>>

\* Kill reaches the process, or the daemon if it can be reached.
Kill ==
    /\ Go("kill", "done")
    /\ IF up /\ proc # "gone" THEN proc' = "killed" /\ killed' = TRUE
                              ELSE UNCHANGED procVars
    /\ UNCHANGED <<keys, up, seen, late>> /\ ByDriver

\* The PTYSession is closed: an in-process claude is terminated, an attached
\* session drops its connection, a DaemonRef does nothing.
Close ==
    /\ Go("done", "closed")
    /\ up' = (up /\ backend # "attached")
    /\ proc' = IF backend = "inproc" /\ proc # "gone" THEN "killed" ELSE proc
    /\ UNCHANGED <<killed, keys, seen, late>> /\ ByDriver

-----------------------------------------------------------------------------
(* Time.                                                                   *)

\* Nothing is left that claude, or the way its exit is reported, would still do.
Quiet == /\ keys = <<>> \/ proc = "gone"
         /\ proc \notin {"quitting", "killed"}
         /\ proc = "modal" => shown = "modal"
         /\ backend = "attached" => drain \in {"recv", "over"} /\ events = <<>>

\* A timely claude is done before a budget runs out, and the loop has seen it.
Late ==
    /\ at \in {"top", "look"} /\ ~late
    /\ timely => Quiet /\ (seen = shown \/ proc = "gone")
    /\ late' = TRUE
    /\ Watching /\ UNCHANGED <<at, seen>>

\* Mutant: Wait is called without a deadline.
ExpireNever == FALSE /\ UNCHANGED vars

\* waitExit's context is over; the other callers' may never be.
Expire ==
    /\ waitAt[Driver] = "select"
    /\ timely => Quiet
    /\ waitAt' = [waitAt EXCEPT ![Driver] = "expired"]
    /\ UNCHANGED <<got, exitCh>> /\ ByWaiter

-----------------------------------------------------------------------------
Claude == HandleKey \/ Draw \/ Die
Drain  == DrainEvent \/ DrainEnd \/ Flag \/ SendCode
Steps  == PressCtrlC \/ Top \/ Look \/ Confirm \/ WaitExit \/ LastCheck \/ Kill \/ Close
Wait(w) == CallWait(w) \/ ReceiveCode(w) \/ SeeExit(w)

Next == Claude \/ Lose \/ Drain \/ Steps \/ Late \/ Expire \/ \E w \in Callers : Wait(w)

Spec == Init /\ [][Next]_vars

\* The goroutines are scheduled and time passes.  Claude is only owed a timely
\* reaction when it is timely, and the death of a killed process.
FairSpec ==
    /\ Spec
    /\ WF_vars(Steps) /\ WF_vars(Late) /\ WF_vars(Drain) /\ WF_vars(Expire)
    /\ \A w \in Callers : WF_vars(Wait(w))
    /\ WF_vars(timely /\ Claude) /\ WF_vars(proc = "killed" /\ Die)

-----------------------------------------------------------------------------
(* Properties.                                                             *)

\* When Shutdown returns claude is gone or has been killed, however late the
\* modal came or whatever became of the keys - unless the daemon could not be
\* reached (drive.go:150-172).
GoneWhenDone == at \in {"done", "closed"} => proc \in {"gone", "killed"} \/ ~up

\* A claude that reacts in time to two Ctrl-C's and to the Enter is never killed:
\* its own teardown stops the background work (drive.go:143-149).
KilledOnlyIfStuck == killed => ~timely \/ wedged # "no" \/ needed > 2

\* The Enter confirms the modal and never submits what is in the input box,
\* unless the transcript on the screen has lines that begin like both rows of the
\* modal (prompt.go:132-143, drive.go:160).
EnterOnlyConfirms == submitted => text = "rows"

\* Whoever is told by an attached or in-process session that claude exited is
\* told the exit code of the process, unless the connection ended before
\* (backend_daemon.go:92-144).
ReportsAreTrue ==
    \A w \in Callers : waitAt[w] = "ok" /\ backend # "ref" /\ up
                         => proc = "gone" /\ got[w] = code

\* Shutdown returns whatever becomes of claude, its keys and the connection
\* (drive.go:155, drive.go:177).
ShutdownReturns == <>(at = "closed")
=============================================================================
