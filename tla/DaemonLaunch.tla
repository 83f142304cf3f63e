---------------------------- MODULE DaemonLaunch ----------------------------
(***************************************************************************)
(* Launching, or continuing, the claude of one session id inside the       *)
(* pupptyeer daemon: newBackend + OpenDaemon + prepareSession for a        *)
(* one-shot run, LaunchDaemon + EnsureDaemonSession for the driving MCP    *)
(* server (pkg/claudep/backend.go, client.go, daemon.go;                   *)
(* pkg/claudepty/backend_daemon.go, daemon_ref.go).                        *)
(*                                                                         *)
(* Launchers are separate processes, or separate tool calls, that share    *)
(* the daemon and the transcripts on disk.  Each looks at the transcript,  *)
(* lists the sessions, creates one if it saw none alive, and waits for the *)
(* prompt if it created it.                                                *)
(***************************************************************************)
EXTENDS Integers

CONSTANTS
    Launchers,     \* the calls that launch this session id
    Attaching,     \* those that go through OpenDaemon (attach), not LaunchDaemon
    MayIgnoreId,   \* whether the daemon may start a session under an id of its own
    KillsFail,     \* whether the daemon may not carry out a kill
    CallsFail,     \* whether the daemon's answers may be errors
    WaitsFail,     \* whether the wait for the prompt may run out
    ClaudeExits,   \* whether claude may exit
    MaxExits,      \* bound: exits of claude
    Nobody         \* the booter of no claude

ASSUME LaunchAssumption ==
    /\ Attaching \subseteq Launchers /\ Nobody \notin Launchers
    /\ {MayIgnoreId, KillsFail, CallsFail, WaitsFail, ClaudeExits} \subseteq BOOLEAN
    /\ MaxExits \in Nat

VARIABLES
    \* the launchers
    pc, resume, reused,
    result,       \* what the launch returned
    \* the daemon (external)
    claude,       \* what the session's claude shows, "none" if none is alive
    booter,       \* the launch that started it
    copies,       \* claudes alive under the requested id
    orphans,      \* claudes alive under an id the daemon chose
    exits,
    transcript,   \* on disk: the conversation has a transcript
    \* history, in no guard
    looked,       \* how many claudes had exited when a launch looked for it
    misread       \* the booter's wait took the style picker for the prompt

launcherVars == <<pc, resume, reused, result>>
daemonVars   == <<claude, booter, copies, orphans, exits>>
historyVars  == <<looked, misread>>
vars         == <<launcherVars, daemonVars, transcript, historyVars>>

PCs == {"new", "list", "create", "reap", "attach", "wait", "done"}

\* "dismissed" is the style picker with the Enter that dismisses it not handled.
Showing == {"none", "boot", "picker", "dismissed", "modal", "login", "prompt"}

TypeOK ==
    /\ pc \in [Launchers -> PCs]
    /\ resume \in [Launchers -> BOOLEAN]
    /\ reused \in [Launchers -> BOOLEAN]
    /\ result \in [Launchers -> {"none", "ok", "error"}]
    /\ claude \in Showing /\ booter \in Launchers \cup {Nobody}
    /\ copies \in Nat /\ orphans \in Nat /\ exits \in 0..MaxExits
    /\ transcript \in BOOLEAN
    /\ looked \in [Launchers -> 0..MaxExits] /\ misread \in BOOLEAN

Init ==
    /\ pc = [l \in Launchers |-> "new"]
    /\ resume = [l \in Launchers |-> FALSE]
    /\ reused = [l \in Launchers |-> FALSE]
    /\ result = [l \in Launchers |-> "none"]
    /\ claude = "none" /\ booter = Nobody /\ copies = 0 /\ orphans = 0 /\ exits = 0
    /\ transcript \in BOOLEAN
    /\ looked = [l \in Launchers |-> 0] /\ misread = FALSE

-----------------------------------------------------------------------------
(* The launcher.                                                           *)

Goto(l, p) == pc' = [pc EXCEPT ![l] = p] /\ UNCHANGED result

Return(l, r) == /\ pc' = [pc EXCEPT ![l] = "done"]
                /\ result' = [result EXCEPT ![l] = r]

Look(l) == looked' = [looked EXCEPT ![l] = exits]

\* Mutant: the transcript is not looked for.
NoResume(l) ==
    /\ pc[l] = "new"
    /\ Goto(l, "list") /\ Look(l)
    /\ UNCHANGED <<resume, reused, daemonVars, transcript, misread>>

\* JSONLPath(sessionID) # "": boot with --resume if a claude has to be booted.
LookForTranscript(l) ==
    /\ pc[l] = "new"
    /\ resume' = [resume EXCEPT ![l] = transcript]
    /\ Goto(l, "list") /\ Look(l)
    /\ UNCHANGED <<reused, daemonVars, transcript, misread>>

\* ListSessions: continue the session if it is alive, else create one.
List(l) ==
    /\ pc[l] = "list"
    /\ \/ CallsFail /\ Return(l, "error") /\ UNCHANGED reused
       \/ /\ claude # "none"
          /\ reused' = [reused EXCEPT ![l] = TRUE]
          /\ IF l \in Attaching THEN Goto(l, "attach") ELSE Return(l, "ok")
       \/ claude = "none" /\ Goto(l, "create") /\ UNCHANGED reused
    /\ UNCHANGED <<resume, daemonVars, transcript, historyVars>>

\* After NewSession returned the requested id.
Created(l) == Goto(l, IF l \in Attaching THEN "attach" ELSE "wait")

\* The claude just started has the requested id, or one the daemon chose.
StartsMine(l) == /\ claude' = "boot" /\ booter' = l /\ copies' = copies + 1
                 /\ misread' = FALSE
                 /\ UNCHANGED <<orphans, exits>>
StartsOther   == /\ orphans' = orphans + 1
                 /\ UNCHANGED <<claude, booter, copies, exits, misread>>

\* Mutant: NewSession without get-or-create.
CreateAlways(l) ==
    /\ pc[l] = "create"
    /\ \/ CallsFail /\ Return(l, "error") /\ UNCHANGED <<daemonVars, misread>>
       \/ Created(l) /\ StartsMine(l)
       \/ MayIgnoreId /\ Goto(l, "reap") /\ StartsOther
    /\ UNCHANGED <<resume, reused, transcript, looked>>

\* NewSession with get-or-create: the daemon hands back the session if one is
\* alive by now.  One that ignores the id starts a session under its own.
Create(l) ==
    /\ pc[l] = "create"
    /\ \/ CallsFail /\ Return(l, "error") /\ UNCHANGED <<daemonVars, misread>>
       \/ claude # "none" /\ Created(l) /\ UNCHANGED <<daemonVars, misread>>
       \/ claude = "none" /\ Created(l) /\ StartsMine(l)
       \/ MayIgnoreId /\ Goto(l, "reap") /\ StartsOther
    /\ UNCHANGED <<resume, reused, transcript, looked>>

\* Mutant: the session under the wrong id is left behind.
ReapNothing(l) ==
    /\ pc[l] = "reap" /\ Return(l, "error")
    /\ UNCHANGED <<resume, reused, daemonVars, transcript, historyVars>>

\* The daemon did not honour the id: kill what it spawned and fail.  Whether the
\* kill got through is not looked at.
Reap(l) ==
    /\ pc[l] = "reap" /\ Return(l, "error")
    /\ orphans' \in (IF KillsFail THEN {orphans - 1, orphans} ELSE {orphans - 1})
    /\ UNCHANGED <<resume, reused, claude, booter, copies, exits, transcript, historyVars>>

\* Attach: a session that is gone, or a broken connection, is an error.
Attach(l) ==
    /\ pc[l] = "attach"
    /\ \/ (CallsFail \/ claude = "none") /\ Return(l, "error")
       \/ claude # "none" /\ ~reused[l] /\ Goto(l, "wait")
       \/ claude # "none" /\ reused[l] /\ Return(l, "ok")
    /\ UNCHANGED <<resume, reused, daemonVars, transcript, historyVars>>

\* WaitForReady, only for a session this launch created, dismisses the screens
\* it sees: Enter on the picker, which claude handles in its own time, or the
\* trust menu.  A failed wait leaves claude alive: Close only detaches.
Dismiss(l) ==
    /\ pc[l] = "wait"
    /\ \/ claude = "picker" /\ claude' = "dismissed"
       \/ claude = "modal" /\ claude' = "prompt"
    /\ UNCHANGED <<launcherVars, booter, copies, orphans, exits, transcript, historyVars>>

\* The screens WaitForReady takes for the prompt: the picker's is one, once its
\* Enter has been sent (ReadyDriver).
LooksReady == claude \in {"prompt", "dismissed"}

\* The wait succeeds, or claude is gone, or the wait or the MCP settle after it
\* is cut off.
Succeed(l) == /\ Return(l, "ok")
              /\ misread' = (misread \/ (booter = l /\ claude = "dismissed"))
GiveUp(l)  == Return(l, "error") /\ UNCHANGED misread

\* Mutants: the wait takes a screen that has settled for the prompt; the
\* wait has no budget.
ReadySettled(l) ==
    /\ pc[l] = "wait"
    /\ \/ (LooksReady \/ claude = "modal") /\ Succeed(l)
       \/ (claude = "none" \/ WaitsFail) /\ GiveUp(l)
    /\ UNCHANGED <<resume, reused, daemonVars, transcript, looked>>

ReadyUnbounded(l) ==
    /\ pc[l] = "wait"
    /\ \/ LooksReady /\ Succeed(l)
       \/ claude = "none" /\ GiveUp(l)
    /\ UNCHANGED <<resume, reused, daemonVars, transcript, looked>>

Ready(l) ==
    /\ pc[l] = "wait"
    /\ \/ LooksReady /\ Succeed(l)
       \/ (claude = "none" \/ WaitsFail) /\ GiveUp(l)
    /\ UNCHANGED <<resume, reused, daemonVars, transcript, looked>>

Launch(l) == \/ LookForTranscript(l) \/ List(l) \/ Create(l) \/ Reap(l)
             \/ Attach(l) \/ Dismiss(l) \/ Ready(l)

-----------------------------------------------------------------------------
(* Claude in the daemon (external).                                        *)

\* It comes up at the prompt, at the picker, behind a modal, or at a login it
\* cannot pass; and draws the next screen once it handles the Enter.
Boot == /\ \/ claude = "boot" /\ claude' \in {"picker", "modal", "login", "prompt"}
           \/ claude = "dismissed" /\ claude' \in {"modal", "prompt"}
        /\ UNCHANGED <<launcherVars, booter, copies, orphans, exits, transcript, historyVars>>

\* A caller whose launch returned has its prompt answered.
Converse == /\ claude = "prompt" /\ ~transcript
            /\ \E l \in Launchers : result[l] = "ok"
            /\ transcript' = TRUE
            /\ UNCHANGED <<launcherVars, daemonVars, historyVars>>

Exit == /\ ClaudeExits /\ claude # "none" /\ exits < MaxExits
        /\ claude' = "none" /\ booter' = Nobody /\ copies' = 0
        /\ exits' = exits + 1
        /\ UNCHANGED <<launcherVars, orphans, transcript, historyVars>>

-----------------------------------------------------------------------------
Next == (\E l \in Launchers : Launch(l)) \/ Boot \/ Converse \/ Exit

Spec == Init /\ [][Next]_vars

\* The daemon answers, and every wait is bounded.
FairSpec == Spec /\ WF_vars(Boot) /\ \A l \in Launchers : WF_vars(Launch(l))

-----------------------------------------------------------------------------
(* Properties.                                                             *)

\* However launches overlap, at most one claude is alive under the id: two on
\* one conversation would both append to its transcript (backend_daemon.go:
\* 54-62, daemon_ref.go:116-126).
OneClaude == copies <= 1

\* Nobody is in the middle of a launch.
Quiet == \A k \in Launchers : pc[k] \in {"new", "done"}

\* No claude is left running under an id nobody knows once the launches are over,
\* given a daemon that carries out what it is told (backend_daemon.go:67-77).
NoOrphans == Quiet => orphans = 0

\* A launch that continues a session, and so waits for nothing, finds claude at
\* its prompt (client.go:111-131, daemon.go:52-63) - once the launch that booted
\* this very claude has succeeded, and unless that one took the style picker for
\* the prompt.  While the booting launch is under way, or after it has failed, the
\* session that is continued may still be booting or behind a modal.
Continues(l) == result[l] = "none" /\ result'[l] = "ok" /\ reused'[l]

ContinuedIsAtPrompt ==
    [][\A l \in Launchers :
         Continues(l) /\ result[booter] = "ok" /\ ~misread => claude = "prompt"]_vars

\* A claude is booted afresh over a conversation that has a transcript only if
\* another claude wrote it and exited in the course of this launch, between its
\* look for the transcript and its create: launches that overlap the conversation
\* otherwise continue the living session or resume (backend.go:40-47,
\* daemon.go:38-46).
Boots(l) == claude = "none" /\ claude' # "none" /\ booter' = l

FreshOnlyAfterExit ==
    [][\A l \in Launchers :
         Boots(l) /\ transcript /\ ~resume[l] => exits > looked[l]]_vars

\* Every launch returns.
LaunchesReturn == \A l \in Launchers : pc[l] = "list" ~> pc[l] = "done"
=============================================================================
