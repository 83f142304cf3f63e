---------------------------- MODULE DriveServer ----------------------------
(***************************************************************************)
(* The MCP server that drives in-process claude sessions                   *)
(* (pkg/drivemcp/server.go): tool calls running concurrently, the registry *)
(* of sessions under the server's mutex, and each Session's own mutex      *)
(* (pkg/claudep/session.go), which Prompt holds for a whole turn.          *)
(*                                                                         *)
(* A request is one tool call.  An id that is not in the registry is an    *)
(* error here: no daemon is reachable.                                     *)
(***************************************************************************)
EXTENDS Naturals, FiniteSets

CONSTANTS
    Requests,    \* the tool calls
    Ids,         \* session ids
    Sessions,    \* the Session values that can be made
    None,        \* no request, no session
    Tools,       \* the tools called
    MayPin,      \* whether a launch may pin an id that is in use, or being stopped
    MayTimeOut   \* whether a prompt's context may run out

ASSUME DriveAssumption ==
    /\ None \notin Requests \cup Sessions
    /\ Tools \subseteq {"launch", "prompt", "prompt_async", "interrupt",
                        "read_screen", "list", "stop", "close"}
    /\ MayPin \in BOOLEAN /\ MayTimeOut \in BOOLEAN

VARIABLES
    \* the requests
    at, tool, id,
    sess,         \* the Session it drives, or has opened
    mine,         \* the turn its prompt began
    todo,         \* the ids list_sessions, or closeInproc, has left to visit
    \* the server
    inproc,       \* the registry
    mu,           \* the holder of Server.mu
    sessMu,       \* the holder of each Session.mu
    \* the claudes (external)
    made,         \* Sessions opened so far
    live,
    sent, ended   \* the turns submitted to each claude, and those that are over

requestVars == <<at, tool, id, sess, mine, todo>>
serverVars  == <<inproc, mu, sessMu>>
claudeVars  == <<made, live, sent, ended>>
vars        == <<requestVars, serverVars, claudeVars>>

Ats == {"new", "open", "register", "resolve", "lock", "work", "await",
        "forget", "enter", "walk", "done"}

TypeOK ==
    /\ at \in [Requests -> Ats]
    /\ tool \in [Requests -> Tools \cup {"none"}]
    /\ id \in [Requests -> Ids]
    /\ sess \in [Requests -> Sessions \cup {None}]
    /\ mine \in [Requests -> Nat]
    /\ todo \in [Requests -> SUBSET Ids]
    /\ inproc \in [Ids -> Sessions \cup {None}]
    /\ mu \in Requests \cup {None}
    /\ sessMu \in [Sessions -> Requests \cup {None}]
    /\ made \subseteq Sessions
    /\ live \in [Sessions -> BOOLEAN]
    /\ sent \in [Sessions -> Nat]
    /\ ended \in [Sessions -> Nat] /\ \A s \in Sessions : ended[s] <= sent[s]

Init ==
    /\ at = [r \in Requests |-> "new"] /\ tool = [r \in Requests |-> "none"]
    /\ id \in [Requests -> Ids]
    /\ sess = [r \in Requests |-> None] /\ mine = [r \in Requests |-> 0]
    /\ todo = [r \in Requests |-> {}]
    /\ inproc = [i \in Ids |-> None] /\ mu = None
    /\ sessMu = [s \in Sessions |-> None]
    /\ made = {} /\ live = [s \in Sessions |-> FALSE]
    /\ sent = [s \in Sessions |-> 0] /\ ended = [s \in Sessions |-> 0]

-----------------------------------------------------------------------------
(* Steps of a request.                                                     *)

To(r, a) == at' = [at EXCEPT ![r] = a]

Tracked == {inproc[i] : i \in Ids} \ {None}

Launching(r) == at[r] \in {"open", "register"}

\* A stop that has found its session, and will delete the entry of its id.
Stopping(r) == tool[r] = "stop" /\ at[r] \in {"lock", "work", "forget"}

\* Ids under which a session is open, being opened or being stopped.
InUse == {i \in Ids : inproc[i] # None}
             \cup {id[r] : r \in {q \in Requests : Launching(q) \/ Stopping(q)}}

FirstStep(t) == CASE t = "launch"           -> "open"
                  [] t \in {"list", "close"} -> "enter"
                  [] OTHER                   -> "resolve"

Call(r, t) ==
    /\ at[r] = "new"
    /\ t = "launch" /\ ~MayPin => id[r] \notin InUse
    /\ tool' = [tool EXCEPT ![r] = t]
    /\ To(r, FirstStep(t))
    /\ UNCHANGED <<id, sess, mine, todo, serverVars, claudeVars>>

\* claudep.Open boots a claude of its own, or fails and closes it; no lock is
\* held.
Open(r) ==
    /\ at[r] = "open"
    /\ \/ \E s \in Sessions \ made :
            /\ made' = made \cup {s} /\ live' = [live EXCEPT ![s] = TRUE]
            /\ sess' = [sess EXCEPT ![r] = s]
            /\ To(r, "register")
       \/ To(r, "done") /\ UNCHANGED <<made, live, sess>>
    /\ UNCHANGED <<tool, id, mine, todo, serverVars, sent, ended>>

\* s.mu.Lock(); s.inproc[sess.ID()] = sess; s.mu.Unlock()
Register(r) ==
    /\ at[r] = "register" /\ mu = None
    /\ inproc' = [inproc EXCEPT ![id[r]] = sess[r]]
    /\ To(r, "done")
    /\ UNCHANGED <<tool, id, sess, mine, todo, mu, sessMu, claudeVars>>

\* resolve looks the id up under the server's mutex.
Resolve(r) ==
    /\ at[r] = "resolve" /\ mu = None
    /\ sess' = [sess EXCEPT ![r] = inproc[id[r]]]
    /\ To(r, IF inproc[id[r]] = None THEN "done" ELSE "lock")
    /\ UNCHANGED <<tool, id, mine, todo, serverVars, claudeVars>>

\* Every method of Session takes its mutex first.
Lock(r) ==
    /\ at[r] = "lock" /\ sessMu[sess[r]] = None
    /\ sessMu' = [sessMu EXCEPT ![sess[r]] = r]
    /\ To(r, "work")
    /\ UNCHANGED <<tool, id, sess, mine, todo, inproc, mu, claudeVars>>

Unlock(r) == sessMu' = [sessMu EXCEPT ![sess[r]] = None]

\* Session.Screen, SendKeys, WaitReady.
ReadScreen(r) ==
    /\ at[r] = "work" /\ tool[r] = "read_screen"
    /\ Unlock(r) /\ To(r, "done")
    /\ UNCHANGED <<tool, id, sess, mine, todo, inproc, mu, claudeVars>>

\* What Esc does to claude: the turn that runs is over.
Escaped(s) == ended' = [ended EXCEPT ![s] = IF live[s] /\ @ < sent[s] THEN @ + 1 ELSE @]

Interrupt(r) ==
    /\ at[r] = "work" /\ tool[r] = "interrupt"
    /\ Escaped(sess[r])
    /\ Unlock(r) /\ To(r, "done")
    /\ UNCHANGED <<tool, id, sess, mine, todo, inproc, mu, made, live, sent>>

\* Session.Prompt sends and waits with the mutex held; StartTurn lets it go.
Send(r) ==
    /\ at[r] = "work" /\ tool[r] \in {"prompt", "prompt_async"}
    /\ \/ /\ live[sess[r]]
          /\ sent' = [sent EXCEPT ![sess[r]] = @ + 1]
          /\ mine' = [mine EXCEPT ![r] = sent[sess[r]] + 1]
          /\ IF tool[r] = "prompt" THEN To(r, "await") /\ UNCHANGED sessMu
                                   ELSE To(r, "done") /\ Unlock(r)
       \/ /\ ~live[sess[r]]
          /\ Unlock(r) /\ To(r, "done") /\ UNCHANGED <<sent, mine>>
    /\ UNCHANGED <<tool, id, sess, todo, inproc, mu, made, live, ended>>

Answered(r) ==
    /\ at[r] = "await" /\ ended[sess[r]] >= mine[r]
    /\ Unlock(r) /\ To(r, "done")
    /\ UNCHANGED <<tool, id, sess, mine, todo, inproc, mu, claudeVars>>

\* Mutant: the error return keeps the mutex.
TimeOutHolding(r) ==
    /\ at[r] = "await" /\ MayTimeOut
    /\ To(r, "done")
    /\ UNCHANGED <<tool, id, sess, mine, todo, serverVars, claudeVars>>

\* The prompt's context is over; the turn goes on.
TimeOut(r) ==
    /\ at[r] = "await" /\ MayTimeOut
    /\ Unlock(r) /\ To(r, "done")
    /\ UNCHANGED <<tool, id, sess, mine, todo, inproc, mu, claudeVars>>

\* Mutant: the entry is removed before the process is stopped.
StopForgetting(r) ==
    /\ at[r] = "work" /\ tool[r] = "stop"
    /\ IF inproc[id[r]] = sess[r]
       THEN inproc' = [inproc EXCEPT ![id[r]] = None] /\ UNCHANGED <<at, live, sessMu>>
       ELSE /\ live' = [live EXCEPT ![sess[r]] = FALSE]
            /\ Unlock(r) /\ To(r, "forget") /\ UNCHANGED inproc
    /\ UNCHANGED <<tool, id, sess, mine, todo, mu, made, sent, ended>>

\* Session.Shutdown, or Kill: claude is gone.
Stop(r) ==
    /\ at[r] = "work" /\ tool[r] = "stop"
    /\ live' = [live EXCEPT ![sess[r]] = FALSE]
    /\ Unlock(r) /\ To(r, "forget")
    /\ UNCHANGED <<tool, id, sess, mine, todo, inproc, mu, made, sent, ended>>

\* s.mu.Lock(); delete(s.inproc, id); s.mu.Unlock()
Forget(r) ==
    /\ at[r] = "forget" /\ mu = None
    /\ inproc' = [inproc EXCEPT ![id[r]] = None]
    /\ To(r, "done")
    /\ UNCHANGED <<tool, id, sess, mine, todo, mu, sessMu, claudeVars>>

\* list_sessions and closeInproc keep the server's mutex while they visit the
\* sessions.
Enter(r) ==
    /\ at[r] = "enter" /\ mu = None
    /\ mu' = r
    /\ todo' = [todo EXCEPT ![r] = {i \in Ids : inproc[i] # None}]
    /\ To(r, "walk")
    /\ UNCHANGED <<tool, id, sess, mine, inproc, sessMu, claudeVars>>

\* One session: Exited, or Close, which takes the session's mutex for it.
Visit(r) ==
    /\ at[r] = "walk"
    /\ \E i \in todo[r] :
         LET s == inproc[i]
         IN  /\ sessMu[s] = None
             /\ todo' = [todo EXCEPT ![r] = @ \ {i}]
             /\ IF tool[r] = "close"
                THEN /\ live' = [live EXCEPT ![s] = FALSE]
                     /\ inproc' = [inproc EXCEPT ![i] = None]
                ELSE UNCHANGED <<live, inproc>>
    /\ UNCHANGED <<at, tool, id, sess, mine, mu, sessMu, made, sent, ended>>

Leave(r) ==
    /\ at[r] = "walk" /\ todo[r] = {}
    /\ mu' = None
    /\ To(r, "done")
    /\ UNCHANGED <<tool, id, sess, mine, todo, inproc, sessMu, claudeVars>>

\* The steps that wait for a mutex, and the others.
Waits(r) == Register(r) \/ Resolve(r) \/ Lock(r) \/ Forget(r) \/ Enter(r) \/ Visit(r)
Steps(r) == \/ Open(r) \/ ReadScreen(r) \/ Interrupt(r) \/ Send(r) \/ Answered(r)
            \/ TimeOut(r) \/ Stop(r) \/ Leave(r)

-----------------------------------------------------------------------------
(* The claudes (external).                                                 *)

EndTurn(s) ==
    /\ live[s] /\ ended[s] < sent[s]
    /\ ended' = [ended EXCEPT ![s] = @ + 1]
    /\ UNCHANGED <<requestVars, serverVars, made, live, sent>>

Crash(s) ==
    /\ live[s]
    /\ live' = [live EXCEPT ![s] = FALSE]
    /\ UNCHANGED <<requestVars, serverVars, made, sent, ended>>

-----------------------------------------------------------------------------
Next == \/ \E r \in Requests : (\E t \in Tools : Call(r, t)) \/ Waits(r) \/ Steps(r)
        \/ \E s \in Sessions : EndTurn(s) \/ Crash(s)

Spec == Init /\ [][Next]_vars

\* Goroutines run, a Go mutex does not starve a waiter, and a prompt has a
\* deadline (PromptTimeout): no fairness is asked of claude.
FairSpec == Spec /\ \A r \in Requests : SF_vars(Waits(r)) /\ WF_vars(Steps(r))

-----------------------------------------------------------------------------
(* Properties.                                                             *)

\* Every tool call returns, though some hold the server's mutex while they wait
\* for a session's, and a prompt holds a session's for a turn that may never
\* end: no cycle of waits (server.go:117-124, 520-528, 567-580).
RequestsReturn == \A r \in Requests : at[r] # "new" ~> at[r] = "done"

\* A claude that runs is in the registry, where it can be listed, driven and
\* stopped, or about to be put there: however calls overlap, no process is lost
\* (server.go:248-250, 576-580), as long as ids are not pinned twice (MayPin).
LiveIsTracked ==
    \A s \in Sessions : live[s] =>
        s \in Tracked \/ \E r \in Requests : at[r] = "register" /\ sess[r] = s

\* Doc, server.go:492 and session.go:162-163: interrupt stops claude mid-turn: no
\* prompt runs into its deadline while an interrupt of its turn waits.
InterruptReachesTurn ==
    [][\A p, q \in Requests :
         TimeOut(p) /\ live[sess[p]] => ~(/\ tool[q] = "interrupt" /\ at[q] = "lock"
                                          /\ sess[q] = sess[p])]_vars
=============================================================================
