------------------------- MODULE DaemonLaunchProofs -------------------------
(***************************************************************************)
(* Proofs about DaemonLaunch, for any number of launches and of exits.     *)
(*                                                                         *)
(* The argument for OneClaude is that the daemon's get-or-create only      *)
(* starts a claude when none is alive.  For BootedIsAtPrompt: the launch   *)
(* that started the living claude did not find one alive, so it is one of  *)
(* those that wait for the prompt, and nothing takes the prompt away but   *)
(* claude's exit, which also ends the booter's claim; a wait that ended on *)
(* the style picker is on record.  A launch that continues a session only  *)
(* reads that invariant.                                                   *)
(***************************************************************************)
EXTENDS DaemonLaunch, FiniteSetTheorems, TLAPS

LaunchTypes ==
    /\ pc \in [Launchers -> PCs]
    /\ reused \in [Launchers -> BOOLEAN]
    /\ result \in [Launchers -> {"none", "ok", "error"}]
    /\ claude \in Showing
    /\ booter \in Launchers \cup {Nobody}
    /\ copies \in Nat /\ misread \in BOOLEAN

\* Claudes alive under the id: as many as claude shows.
Living ==
    /\ claude = "none" => copies = 0 /\ booter = Nobody
    /\ claude # "none" => copies = 1 /\ booter \in Launchers

\* A launch that has not returned has no result; the booter went through Create.
Progress ==
    /\ \A l \in Launchers : pc[l] # "done" => result[l] = "none"
    /\ \A l \in Launchers : pc[l] \in {"new", "list", "create", "wait"} => ~reused[l]
    /\ booter \in Launchers => ~reused[booter] /\ pc[booter] \in {"attach", "wait", "done"}

\* The launch that booted the living claude left it at its prompt, or misread it.
BootedIsAtPrompt ==
    booter \in Launchers /\ result[booter] = "ok" => claude = "prompt" \/ misread

Inv == LaunchTypes /\ Living /\ Progress /\ BootedIsAtPrompt

\* Initially no claude is alive and no launch has begun.
LEMMA InitInv == Init => Inv
<1>1. Init => LaunchTypes
  <2>1. Init => /\ misread \in BOOLEAN /\ reused \in [Launchers -> BOOLEAN]
                /\ claude \in Showing /\ booter \in Launchers \cup {Nobody}
    BY DEF Init, Showing
  <2>2. Init => /\ pc \in [Launchers -> PCs] /\ copies \in Nat
                /\ result \in [Launchers -> {"none", "ok", "error"}]
    BY DEF Init, PCs
  <2> QED
    BY <2>1, <2>2 DEF LaunchTypes
<1>2. Init => Living /\ Progress /\ BootedIsAtPrompt
  BY LaunchAssumption DEF Init, Living, Progress, BootedIsAtPrompt, PCs
<1>3. QED
  BY <1>1, <1>2 DEF Inv

\* Every step keeps the invariant.
LEMMA NextInv == Inv /\ [Next]_vars => Inv'
<1> SUFFICES ASSUME Inv, [Next]_vars PROVE Inv'
  OBVIOUS
<1> USE LaunchAssumption DEF Inv, LaunchTypes, Living, Progress, BootedIsAtPrompt,
        PCs, Showing
<1>1. CASE UNCHANGED vars
  BY <1>1 DEF vars, launcherVars, daemonVars, historyVars
<1>2. ASSUME NEW l \in Launchers, LookForTranscript(l) PROVE Inv'
  BY <1>2 DEF LookForTranscript, Goto, daemonVars
<1>3. ASSUME NEW l \in Launchers, List(l) PROVE Inv'
  <2>1. CASE CallsFail /\ Return(l, "error") /\ UNCHANGED reused
    BY <1>3, <2>1 DEF List, Return, daemonVars, historyVars
  <2>2. CASE /\ claude # "none" /\ reused' = [reused EXCEPT ![l] = TRUE]
             /\ l \in Attaching /\ Goto(l, "attach")
    BY <1>3, <2>2 DEF List, Goto, daemonVars, historyVars
  <2>3. CASE /\ claude # "none" /\ reused' = [reused EXCEPT ![l] = TRUE]
             /\ l \notin Attaching /\ Return(l, "ok")
    BY <1>3, <2>3 DEF List, Return, daemonVars, historyVars
  <2>4. CASE claude = "none" /\ Goto(l, "create") /\ UNCHANGED reused
    BY <1>3, <2>4 DEF List, Goto, daemonVars, historyVars
  <2>5. QED
    BY <1>3, <2>1, <2>2, <2>3, <2>4 DEF List
<1>4. ASSUME NEW l \in Launchers, Create(l) PROVE Inv'
  <2>1. CASE CallsFail /\ Return(l, "error") /\ UNCHANGED <<daemonVars, misread>>
    BY <1>4, <2>1 DEF Create, Return, daemonVars
  <2>2. CASE claude # "none" /\ Created(l) /\ UNCHANGED <<daemonVars, misread>>
    BY <1>4, <2>2 DEF Create, Created, Goto, daemonVars
  <2>3. CASE claude = "none" /\ Created(l) /\ StartsMine(l)
    <3>1. /\ pc[l] = "create" /\ claude' = "boot" /\ booter' = l /\ copies' = copies + 1
          /\ UNCHANGED <<reused, result>>
          /\ pc' = [pc EXCEPT ![l] = IF l \in Attaching THEN "attach" ELSE "wait"]
      BY <1>4, <2>3 DEF Create, Created, Goto, StartsMine
    <3>2. misread' \in BOOLEAN
      BY <2>3 DEF StartsMine
    <3>3. LaunchTypes'
      BY <3>1, <3>2
    <3>4. Living' /\ Progress'
      BY <2>3, <3>1
    <3>5. result[l] = "none"
      BY <3>1
    <3>6. BootedIsAtPrompt'
      BY <3>1, <3>5
    <3> QED
      BY <3>3, <3>4, <3>6
  <2>4. CASE MayIgnoreId /\ Goto(l, "reap") /\ StartsOther
    BY <1>4, <2>4 DEF Create, Goto, StartsOther
  <2>5. QED
    BY <1>4, <2>1, <2>2, <2>3, <2>4 DEF Create
<1>5. ASSUME NEW l \in Launchers, Reap(l) PROVE Inv'
  BY <1>5 DEF Reap, Return, historyVars
<1>6. ASSUME NEW l \in Launchers, Attach(l) PROVE Inv'
  BY <1>6 DEF Attach, Goto, Return, daemonVars, historyVars
<1>7. ASSUME NEW l \in Launchers, Dismiss(l) PROVE Inv'
  BY <1>7 DEF Dismiss, launcherVars, historyVars
<1>8. ASSUME NEW l \in Launchers, Ready(l) PROVE Inv'
  <2>1. /\ pc[l] = "wait" /\ UNCHANGED <<reused, daemonVars>>
        /\ pc' = [pc EXCEPT ![l] = "done"]
    BY <1>8 DEF Ready, Succeed, GiveUp, Return
  <2>2. CASE LooksReady /\ Succeed(l)
    BY <2>1, <2>2 DEF LooksReady, Succeed, Return, daemonVars
  <2>3. CASE GiveUp(l)
    BY <2>1, <2>3 DEF GiveUp, Return, daemonVars
  <2>4. QED
    BY <1>8, <2>2, <2>3 DEF Ready
<1>9. CASE Boot
  BY <1>9 DEF Boot, launcherVars, historyVars
<1>10. CASE Converse
  BY <1>10 DEF Converse, launcherVars, daemonVars, historyVars
<1>11. CASE Exit
  BY <1>11 DEF Exit, launcherVars, historyVars
<1>12. QED
  BY <1>1, <1>2, <1>3, <1>4, <1>5, <1>6, <1>7, <1>8, <1>9, <1>10, <1>11 DEF Next, Launch

\* However many launches overlap, whatever fails and however often claude exits,
\* at most one claude is alive under the session id (backend_daemon.go:54-62).
THEOREM AtMostOneClaude == Spec => []OneClaude
<1>1. Inv => OneClaude
  BY DEF Inv, LaunchTypes, Living, OneClaude, Showing
<1>2. QED
  BY InitInv, NextInv, <1>1, PTL DEF Spec

\* A launch that continues a session whose boot has succeeded finds claude at its
\* prompt and may skip the wait (client.go:111-131, daemon.go:52-63), the misread
\* style picker excepted.
THEOREM ContinuedSkipsNoWait == Spec => ContinuedIsAtPrompt
<1>1. Inv /\ [Next]_vars =>
        [\A l \in Launchers :
           Continues(l) /\ result[booter] = "ok" /\ ~misread => claude = "prompt"]_vars
  <2> SUFFICES ASSUME Inv, [Next]_vars, NEW l \in Launchers, Continues(l),
                      result[booter] = "ok", ~misread
               PROVE  claude = "prompt"
    OBVIOUS
  <2> USE DEF Inv, LaunchTypes
  <2>1. claude # "none"
    <3>1. UNCHANGED result => FALSE
      BY DEF Continues
    <3>2. ASSUME NEW k \in Launchers, Launch(k) PROVE claude # "none"
      <4>1. \/ pc[k] = "list" /\ claude # "none"
            \/ pc[k] = "attach" /\ claude # "none"
            \/ pc[k] = "wait" /\ UNCHANGED reused /\ result' = [result EXCEPT ![k] = "ok"]
            \/ result' = [result EXCEPT ![k] = "error"]
        BY <3>1, <3>2 DEF Launch, LookForTranscript, List, Create, Created, Reap, Attach, Dismiss,
           Ready, Goto, Return, Succeed, GiveUp, launcherVars
      <4> QED
        BY <4>1 DEF Continues, Progress
    <3> QED
      BY <3>1, <3>2 DEF Next, Boot, Converse, Exit, vars, launcherVars
  <2> QED
    BY <2>1 DEF Living, BootedIsAtPrompt
<1>2. QED
  BY InitInv, NextInv, <1>1, PTL DEF Spec, ContinuedIsAtPrompt

-----------------------------------------------------------------------------
(* The transcript and the claude that is booted.                           *)

\* Between a launch's look for the transcript and its create, a transcript it did
\* not find belongs to a claude that lives, or has exited since.
TranscriptHasAuthor ==
    /\ pc \in [Launchers -> PCs] /\ resume \in [Launchers -> BOOLEAN]
    /\ transcript \in BOOLEAN /\ exits \in Nat
    /\ looked \in [Launchers -> Nat]
    /\ \A l \in Launchers : looked[l] <= exits
    /\ \A l \in Launchers :
         pc[l] \in {"list", "create"} /\ transcript /\ ~resume[l] =>
             claude # "none" \/ exits > looked[l]

\* Every step keeps it.
LEMMA NextAuthor == TranscriptHasAuthor /\ [Next]_vars => TranscriptHasAuthor'
<1> SUFFICES ASSUME TranscriptHasAuthor, [Next]_vars PROVE TranscriptHasAuthor'
  OBVIOUS
<1> USE DEF TranscriptHasAuthor, PCs
<1>1. CASE UNCHANGED vars
  BY <1>1 DEF vars, launcherVars, daemonVars, historyVars
<1>2. ASSUME NEW l \in Launchers, LookForTranscript(l) PROVE TranscriptHasAuthor'
  BY <1>2 DEF LookForTranscript, Look, Goto, daemonVars
<1>3. ASSUME NEW l \in Launchers, List(l) PROVE TranscriptHasAuthor'
  BY <1>3 DEF List, Goto, Return, daemonVars, historyVars
<1>4. ASSUME NEW l \in Launchers, Create(l) PROVE TranscriptHasAuthor'
  <2>1. UNCHANGED <<resume, transcript, looked, exits>> /\ (claude # "none" => claude' # "none")
    BY <1>4 DEF Create, StartsMine, StartsOther, daemonVars
  <2>2. \E p \in {"reap", "attach", "wait", "done"} : pc' = [pc EXCEPT ![l] = p]
    BY <1>4 DEF Create, Created, Goto, Return
  <2>3. QED
    BY <2>1, <2>2
<1>5. ASSUME NEW l \in Launchers, Reap(l) PROVE TranscriptHasAuthor'
  BY <1>5 DEF Reap, Return, historyVars
<1>6. ASSUME NEW l \in Launchers, Attach(l) PROVE TranscriptHasAuthor'
  BY <1>6 DEF Attach, Goto, Return, daemonVars, historyVars
<1>7. ASSUME NEW l \in Launchers, Dismiss(l) PROVE TranscriptHasAuthor'
  BY <1>7 DEF Dismiss, launcherVars, historyVars
<1>8. ASSUME NEW l \in Launchers, Ready(l) PROVE TranscriptHasAuthor'
  BY <1>8 DEF Ready, Succeed, GiveUp, Return, daemonVars
<1>9. CASE Boot
  BY <1>9 DEF Boot, launcherVars, historyVars
<1>10. CASE Converse
  BY <1>10 DEF Converse, launcherVars, daemonVars, historyVars
<1>11. CASE Exit
  BY <1>11 DEF Exit, launcherVars, historyVars
<1>12. QED
  BY <1>1, <1>2, <1>3, <1>4, <1>5, <1>6, <1>7, <1>8, <1>9, <1>10, <1>11 DEF Next, Launch

\* However launches, conversations and exits interleave: a claude started afresh
\* over a transcript was started by a launch in whose course another claude
\* exited (backend.go:40-47, daemon.go:38-46).
THEOREM ResumesWhatItFinds == Spec => FreshOnlyAfterExit
<1>1. Init => TranscriptHasAuthor
  BY DEF Init, TranscriptHasAuthor, PCs
<1>2. TranscriptHasAuthor /\ [Next]_vars =>
        [\A l \in Launchers : Boots(l) /\ transcript /\ ~resume[l] => exits > looked[l]]_vars
  <2> SUFFICES ASSUME TranscriptHasAuthor, Next, NEW l \in Launchers, Boots(l),
                      transcript, ~resume[l]
               PROVE  exits > looked[l]
    BY DEF Boots, vars, daemonVars
  <2>1. PICK k \in Launchers : Create(k) /\ StartsMine(k)
    BY DEF Boots, Next, Launch, LookForTranscript, List, Create, Reap, Attach, Dismiss, Ready,
       StartsOther, Boot, Converse, Exit, launcherVars, daemonVars
  <2>2. k = l /\ pc[l] = "create" /\ claude = "none"
    BY <2>1 DEF StartsMine, Boots, Create
  <2> QED
    BY <2>2 DEF TranscriptHasAuthor
<1>3. QED
  BY <1>1, <1>2, NextAuthor, PTL DEF Spec, FreshOnlyAfterExit

-----------------------------------------------------------------------------
(* Sessions under an id the daemon chose.                                  *)

\* The launches that have yet to kill the session they were given.
Reaping == {l \in Launchers : pc[l] = "reap"}

\* Each of them has one.
OrphansReaped == pc \in [Launchers -> PCs] /\ orphans = Cardinality(Reaping)

\* A step that moves a launch other than to or from "reap", or none.
LEMMA NotReaping ==
    ASSUME OrphansReaped, UNCHANGED orphans,
           \/ UNCHANGED pc
           \/ \E l \in Launchers, p \in PCs \ {"reap"} : pc[l] # "reap" /\ pc' = [pc EXCEPT ![l] = p]
    PROVE  OrphansReaped'
<1>1. pc' \in [Launchers -> PCs] /\ Reaping' = Reaping
  BY DEF OrphansReaped, Reaping
<1> QED
  BY <1>1 DEF OrphansReaped

LEMMA NextOrphans ==
    IsFiniteSet(Launchers) /\ ~KillsFail /\ OrphansReaped /\ [Next]_vars => OrphansReaped'
<1> SUFFICES ASSUME IsFiniteSet(Launchers), ~KillsFail, OrphansReaped, [Next]_vars
             PROVE  OrphansReaped'
  OBVIOUS
<1> USE DEF Goto, Return, Succeed, GiveUp, launcherVars, daemonVars
<1>1. IsFiniteSet(Reaping)
  BY FS_Subset DEF Reaping
<1>2. ASSUME NEW l \in Launchers, Create(l) PROVE OrphansReaped'
  <2>1. CASE UNCHANGED orphans /\ \E p \in {"attach", "wait", "done"} : pc' = [pc EXCEPT ![l] = p]
    BY <1>2, <2>1, NotReaping DEF Create, PCs
  <2>2. CASE orphans' = orphans + 1 /\ pc' = [pc EXCEPT ![l] = "reap"]
    <3>1. pc' \in [Launchers -> PCs] /\ l \notin Reaping /\ Reaping' = Reaping \cup {l}
      BY <1>2, <2>2 DEF Create, OrphansReaped, Reaping, PCs
    <3>2. Cardinality(Reaping \cup {l}) = Cardinality(Reaping) + 1
      BY <1>1, <3>1, FS_AddElement
    <3> QED BY <2>2, <3>1, <3>2 DEF OrphansReaped
  <2> QED
    BY <1>2, <2>1, <2>2 DEF Create, Created, StartsMine, StartsOther
<1>3. ASSUME NEW l \in Launchers, Reap(l) PROVE OrphansReaped'
  <2>1. orphans' = orphans - 1 /\ pc[l] = "reap" /\ pc' = [pc EXCEPT ![l] = "done"]
    BY <1>3 DEF Reap
  <2>2. pc' \in [Launchers -> PCs] /\ l \in Reaping /\ Reaping' = Reaping \ {l}
    BY <2>1 DEF OrphansReaped, Reaping, PCs
  <2>3. Cardinality(Reaping \ {l}) = Cardinality(Reaping) - 1
    BY <1>1, <2>2, FS_RemoveElement
  <2> QED BY <2>1, <2>2, <2>3 DEF OrphansReaped
<1>4. ASSUME NEW l \in Launchers,
             LookForTranscript(l) \/ List(l) \/ Attach(l) \/ Dismiss(l) \/ Ready(l)
      PROVE  OrphansReaped'
  BY <1>4, NotReaping DEF LookForTranscript, List, Attach, Dismiss, Ready, PCs
<1>5. CASE Boot \/ Converse \/ Exit \/ UNCHANGED vars
  BY <1>5, NotReaping DEF Boot, Converse, Exit, vars
<1> QED
  BY <1>2, <1>3, <1>4, <1>5 DEF Next, Launch

\* Whatever id the daemon chose for whatever launch, and however launches overlap:
\* once they are over, no claude runs under an id nobody knows, given finitely many
\* launches and a daemon that carries out its kills (backend_daemon.go:67-77).
THEOREM NoneLeftBehind ==
    ASSUME IsFiniteSet(Launchers), ~KillsFail PROVE Spec => []NoOrphans
<1>1. Init => OrphansReaped
  <2>1. Init => Reaping = {}
    BY DEF Init, Reaping
  <2> QED BY <2>1, FS_EmptySet DEF Init, OrphansReaped, PCs
<1>2. OrphansReaped /\ [Next]_vars => OrphansReaped'
  BY NextOrphans
<1>3. OrphansReaped => NoOrphans
  <2>1. Quiet => Reaping = {}
    BY DEF Quiet, Reaping
  <2> QED BY <2>1, FS_EmptySet DEF OrphansReaped, NoOrphans
<1> QED
  BY <1>1, <1>2, <1>3, PTL DEF Spec
=============================================================================
