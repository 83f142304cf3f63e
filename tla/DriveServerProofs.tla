------------------------- MODULE DriveServerProofs -------------------------
(***************************************************************************)
(* DriveServer, proved for any tool calls, ids, sessions and tools.        *)
(*                                                                         *)
(* Forget deletes the entry of an id, whatever session it holds by then.   *)
(* Theirs says why it holds none but the one that was stopped: a stop and  *)
(* the registry agree on the session of an id, as long as no launch takes  *)
(* the id meanwhile (Apart).                                               *)
(***************************************************************************)
EXTENDS DriveServer, TLAPS

\* Sessions that are driven, stopped or registered have been opened.
Made ==
    /\ \A s \in Sessions : live[s] => s \in made
    /\ \A i \in Ids : inproc[i] # None => inproc[i] \in made
    /\ \A r \in Requests : at[r] \in {"register", "lock", "work", "await", "forget"}
                               => sess[r] \in made

\* What the requests at these places do.
Places ==
    \A r \in Requests : /\ at[r] = "forget" => tool[r] = "stop" /\ ~live[sess[r]]
                        /\ at[r] = "await" => tool[r] # "stop"

\* A launch has its id for itself.
Apart ==
    \A r \in Requests : Launching(r) =>
        /\ inproc[id[r]] = None
        /\ \A q \in Requests : q # r /\ (Launching(q) \/ Stopping(q)) => id[q] # id[r]

\* A stop's id has the session it stops, or none.
Theirs == \A r \in Requests : Stopping(r) => inproc[id[r]] \in {sess[r], None}

RegistryInv == TypeOK /\ Made /\ Places /\ Apart /\ Theirs /\ LiveIsTracked

-----------------------------------------------------------------------------
LEMMA InitRegistry == Init => RegistryInv
  BY DriveAssumption
     DEF DriveAssumption, Init, RegistryInv, TypeOK, Ats, Made, Places, Apart, Theirs,
         Launching, Stopping, LiveIsTracked

LEMMA EscapedTypes ==
    ASSUME TypeOK, NEW x \in Sessions, Escaped(x)
    PROVE  ended' \in [Sessions -> Nat] /\ \A s \in Sessions : ended'[s] <= sent[s]
  BY DEF Escaped, TypeOK

LEMMA StepTypes == TypeOK /\ Made /\ [Next]_vars => TypeOK'
<1> SUFFICES ASSUME TypeOK, Made, [Next]_vars PROVE TypeOK'
  OBVIOUS
<1> USE DriveAssumption DEF DriveAssumption, TypeOK, Ats, To, Unlock, requestVars, serverVars,
                            claudeVars
<1>1. ASSUME NEW r \in Requests, NEW t \in Tools, Call(r, t) PROVE TypeOK'
  BY <1>1 DEF Call, FirstStep
<1>2. ASSUME NEW r \in Requests, Waits(r) PROVE TypeOK'
  <2>1. CASE Register(r) BY <2>1 DEF Register
  <2>2. CASE Resolve(r) BY <2>2 DEF Resolve
  <2>3. CASE Lock(r) BY <2>3 DEF Lock
  <2>4. CASE Forget(r) BY <2>4 DEF Forget
  <2>5. CASE Enter(r) BY <2>5 DEF Enter
  <2>6. CASE Visit(r)
    <3>1. PICK i \in todo[r] :
            /\ todo' = [todo EXCEPT ![r] = @ \ {i}]
            /\ \/ /\ live' = [live EXCEPT ![inproc[i]] = FALSE]
                  /\ inproc' = [inproc EXCEPT ![i] = None]
               \/ UNCHANGED <<live, inproc>>
      BY <2>6 DEF Visit
    <3>2. todo' \in [Requests -> SUBSET Ids] /\ inproc' \in [Ids -> Sessions \cup {None}]
      BY <3>1
    <3>3. live' \in [Sessions -> BOOLEAN]
      BY <3>1
    <3> QED BY <2>6, <3>2, <3>3 DEF Visit
  <2> QED BY <1>2, <2>1, <2>2, <2>3, <2>4, <2>5, <2>6 DEF Waits
<1>3. ASSUME NEW r \in Requests, Steps(r) PROVE TypeOK'
  <2>1. CASE Open(r)
    <3>1. at' \in [Requests -> Ats] /\ sess' \in [Requests -> Sessions \cup {None}]
      BY <2>1 DEF Open
    <3>2. made' \subseteq Sessions /\ live' \in [Sessions -> BOOLEAN]
      BY <2>1 DEF Open
    <3> QED BY <2>1, <3>1, <3>2 DEF Open
  <2>2. CASE ReadScreen(r) BY <2>2 DEF ReadScreen
  <2>3. CASE Interrupt(r)
    <3>1. ended' \in [Sessions -> Nat] /\ \A s \in Sessions : ended'[s] <= sent'[s]
      BY <2>3, EscapedTypes DEF Interrupt, Made
    <3> QED BY <2>3, <3>1 DEF Interrupt
  <2>4. CASE Send(r)
    <3>1. CASE live[sess[r]]
      <4>1. sent' = [sent EXCEPT ![sess[r]] = @ + 1] /\ mine' = [mine EXCEPT ![r] = sent[sess[r]] + 1]
        BY <2>4, <3>1 DEF Send
      <4>2. sess[r] \in Sessions
        BY <2>4 DEF Send, Made
      <4>3. /\ sent' \in [Sessions -> Nat] /\ \A s \in Sessions : ended[s] <= sent'[s]
            /\ mine' \in [Requests -> Nat]
        BY <4>1, <4>2
      <4>4. at' \in [Requests -> Ats] /\ sessMu' \in [Sessions -> Requests \cup {None}]
        BY <2>4, <3>1 DEF Send
      <4> QED BY <2>4, <3>1, <4>3, <4>4 DEF Send
    <3>2. CASE ~live[sess[r]]
      BY <2>4, <3>2 DEF Send
    <3> QED BY <3>1, <3>2
  <2>5. CASE Answered(r) BY <2>5 DEF Answered
  <2>6. CASE TimeOut(r) BY <2>6 DEF TimeOut
  <2>7. CASE Stop(r) BY <2>7 DEF Stop
  <2>8. CASE Leave(r) BY <2>8 DEF Leave
  <2> QED BY <1>3, <2>1, <2>2, <2>3, <2>4, <2>5, <2>6, <2>7, <2>8 DEF Steps
<1>4. ASSUME NEW s \in Sessions, EndTurn(s) \/ Crash(s) PROVE TypeOK'
  <2>1. ended' \in [Sessions -> Nat] /\ \A x \in Sessions : ended'[x] <= sent'[x]
    BY <1>4 DEF EndTurn, Crash
  <2>2. live' \in [Sessions -> BOOLEAN]
    BY <1>4 DEF EndTurn, Crash
  <2> QED BY <1>4, <2>1, <2>2 DEF EndTurn, Crash
<1>5. CASE UNCHANGED vars
  BY <1>5 DEF vars
<1> QED
  BY <1>1, <1>2, <1>3, <1>4, <1>5 DEF Next

\* Steps that leave the registry and the claudes alone, and take a request that
\* neither launches nor stops to such a place, or end it.
LEMMA Elsewhere ==
    ASSUME RegistryInv, NEW r \in Requests, NEW a \in {"done", "enter", "walk", "resolve"}, To(r, a),
           UNCHANGED <<id, inproc, made, live>>,
           \A q \in Requests : q # r => tool'[q] = tool[q] /\ sess'[q] = sess[q],
           at[r] # "register"
    PROVE  Made' /\ Places' /\ Apart' /\ Theirs' /\ LiveIsTracked'
  BY DEF RegistryInv, TypeOK, To, Made, Places, Apart, Theirs, Launching, Stopping,
         LiveIsTracked, Tracked

LEMMA StepRegistry == ~MayPin /\ RegistryInv /\ [Next]_vars => RegistryInv'
<1> SUFFICES ASSUME ~MayPin, RegistryInv, [Next]_vars
             PROVE  Made' /\ Places' /\ Apart' /\ Theirs' /\ LiveIsTracked'
  BY StepTypes DEF RegistryInv
<1> USE DriveAssumption DEF DriveAssumption, RegistryInv, To, requestVars, serverVars, claudeVars
<1> DEFINE Goal == Made' /\ Places' /\ Apart' /\ Theirs' /\ LiveIsTracked'
<1>1. ASSUME NEW r \in Requests, NEW t \in Tools, Call(r, t) PROVE Goal
  <2>1. CASE t = "launch"
    <3>1. at' = [at EXCEPT ![r] = "open"] /\ tool' = [tool EXCEPT ![r] = "launch"]
          /\ at[r] = "new" /\ id[r] \notin InUse
      BY <1>1, <2>1 DEF Call, FirstStep
    <3>2. Apart'
      BY <1>1, <3>1 DEF Call, Apart, InUse, Launching, Stopping, TypeOK
    <3> QED
      BY <1>1, <3>1, <3>2
         DEF Call, Made, Places, Theirs, Stopping, LiveIsTracked, Tracked, TypeOK
  <2>2. CASE t # "launch"
    <3>1. PICK a \in {"enter", "resolve"} : To(r, a)
      BY <1>1, <2>2 DEF Call, FirstStep
    <3> QED
      BY <1>1, <3>1, Elsewhere DEF Call, TypeOK
  <2> QED BY <2>1, <2>2
<1>2. ASSUME NEW r \in Requests, Register(r) PROVE Goal
  <2>1. inproc' = [inproc EXCEPT ![id[r]] = sess[r]] /\ at' = [at EXCEPT ![r] = "done"]
        /\ at[r] = "register" /\ inproc[id[r]] = None /\ sess[r] \in Sessions /\ id[r] \in Ids
        /\ UNCHANGED <<tool, id, sess, made, live>>
    BY <1>2 DEF Register, Apart, Launching, Made, TypeOK
  <2>2. Apart' /\ Theirs'
    BY <2>1 DEF Apart, Theirs, Launching, Stopping, TypeOK
  <2>3. LiveIsTracked'
    BY <2>1 DEF LiveIsTracked, Tracked, TypeOK
  <2> QED BY <2>1, <2>2, <2>3 DEF Made, Places, TypeOK
<1>3. ASSUME NEW r \in Requests, Resolve(r) PROVE Goal
  <2>1. CASE inproc[id[r]] = None
    BY <1>3, <2>1, Elsewhere DEF Resolve, TypeOK
  <2>2. CASE inproc[id[r]] # None
    <3>1. /\ at' = [at EXCEPT ![r] = "lock"] /\ sess' = [sess EXCEPT ![r] = inproc[id[r]]]
          /\ at[r] = "resolve" /\ inproc[id[r]] \in made
          /\ UNCHANGED <<tool, id, inproc, made, live>>
      BY <1>3, <2>2 DEF Resolve, Made, TypeOK
    <3> QED
      BY <3>1, <2>2 DEF Made, Places, Apart, Theirs, Launching, Stopping, LiveIsTracked, Tracked, TypeOK
  <2> QED BY <2>1, <2>2
<1>4. ASSUME NEW r \in Requests, Lock(r) PROVE Goal
  BY <1>4 DEF Lock, Made, Places, Apart, Theirs, Launching, Stopping, LiveIsTracked, Tracked, TypeOK
<1>5. ASSUME NEW r \in Requests, Forget(r) PROVE Goal
  <2>1. inproc' = [inproc EXCEPT ![id[r]] = None] /\ at' = [at EXCEPT ![r] = "done"]
        /\ at[r] = "forget" /\ id[r] \in Ids
        /\ inproc[id[r]] \in {sess[r], None} /\ ~live[sess[r]]
        /\ UNCHANGED <<tool, id, sess, made, live>>
    BY <1>5 DEF Forget, Theirs, Places, Stopping, TypeOK
  <2>2. LiveIsTracked'
    BY <2>1 DEF LiveIsTracked, Tracked, TypeOK
  <2> QED BY <2>1, <2>2 DEF Made, Places, Apart, Theirs, Launching, Stopping, TypeOK
<1>6. ASSUME NEW r \in Requests, Enter(r) PROVE Goal
  BY <1>6, Elsewhere DEF Enter
<1>7. ASSUME NEW r \in Requests, Visit(r) PROVE Goal
  <2>1. CASE UNCHANGED <<live, inproc>>
    BY <1>7, <2>1 DEF Visit, Made, Places, Apart, Theirs, Launching, Stopping, LiveIsTracked, Tracked
  <2>2. ASSUME NEW i \in Ids, live' = [live EXCEPT ![inproc[i]] = FALSE],
               inproc' = [inproc EXCEPT ![i] = None]
        PROVE  Goal
    <3>1. LiveIsTracked'
      BY <1>7, <2>2 DEF Visit, LiveIsTracked, Tracked, TypeOK
    <3>2. \A s : ~live[s] => ~live'[s]
      BY <2>2 DEF TypeOK
    <3> QED
      BY <1>7, <2>2, <3>1, <3>2 DEF Visit, Made, Places, Apart, Theirs, Launching, Stopping, TypeOK
  <2> QED BY <1>7, <2>1, <2>2 DEF Visit, TypeOK
<1>8. ASSUME NEW r \in Requests, Open(r) PROVE Goal
  <2>1. CASE To(r, "done") /\ UNCHANGED <<made, live, sess>>
    BY <1>8, <2>1, Elsewhere DEF Open
  <2>2. ASSUME NEW s \in Sessions \ made, made' = made \cup {s}, live' = [live EXCEPT ![s] = TRUE],
               sess' = [sess EXCEPT ![r] = s], To(r, "register")
        PROVE  Goal
    <3>1. LiveIsTracked'
      BY <1>8, <2>2 DEF Open, LiveIsTracked, Tracked, TypeOK
    <3>2. Places' /\ Made'
      BY <1>8, <2>2 DEF Open, Made, Places, TypeOK
    <3>3. Apart' /\ Theirs'
      BY <1>8, <2>2 DEF Open, Apart, Theirs, Launching, Stopping, TypeOK
    <3> QED BY <3>1, <3>2, <3>3
  <2> QED BY <1>8, <2>1, <2>2 DEF Open
<1>9. ASSUME NEW r \in Requests, ReadScreen(r) \/ Interrupt(r) \/ Answered(r) \/ TimeOut(r) \/ Leave(r)
      PROVE  Goal
  BY <1>9, Elsewhere DEF ReadScreen, Interrupt, Answered, TimeOut, Leave
<1>10. ASSUME NEW r \in Requests, Send(r) PROVE Goal
  <2>1. CASE To(r, "done")
    BY <1>10, <2>1, Elsewhere DEF Send
  <2>2. CASE To(r, "await")
    BY <1>10, <2>2
       DEF Send, Made, Places, Apart, Theirs, Launching, Stopping, LiveIsTracked, Tracked, TypeOK
  <2> QED BY <1>10, <2>1, <2>2 DEF Send
<1>11. ASSUME NEW r \in Requests, Stop(r) PROVE Goal
  <2>1. /\ at' = [at EXCEPT ![r] = "forget"] /\ live' = [live EXCEPT ![sess[r]] = FALSE]
        /\ at[r] = "work" /\ tool[r] = "stop" /\ sess[r] \in Sessions
        /\ UNCHANGED <<tool, id, sess, inproc, made>>
    BY <1>11 DEF Stop, Made, TypeOK
  <2> QED
    BY <2>1 DEF Made, Places, Apart, Theirs, Launching, Stopping, LiveIsTracked, Tracked, TypeOK
<1>12. ASSUME NEW s \in Sessions, EndTurn(s) \/ Crash(s) PROVE Goal
  <2>1. UNCHANGED <<at, tool, id, sess, inproc, made>> /\ \A x \in Sessions : live'[x] => live[x]
    BY <1>12 DEF EndTurn, Crash, TypeOK
  <2> QED
    BY <2>1 DEF Made, Places, Apart, Theirs, Launching, Stopping, LiveIsTracked, Tracked, TypeOK
<1>13. CASE UNCHANGED vars
  BY <1>13 DEF vars, Made, Places, Apart, Theirs, Launching, Stopping, LiveIsTracked, Tracked
<1> QED
  BY <1>1, <1>2, <1>3, <1>4, <1>5, <1>6, <1>7, <1>8, <1>9, <1>10, <1>11, <1>12, <1>13
     DEF Next, Waits, Steps

-----------------------------------------------------------------------------
\* No claude is lost from the registry, however tool calls overlap, as long as a
\* launch pins no id that is open, being opened or being stopped (server.go:248-250,
\* 576-580).
THEOREM NoClaudeLost == ASSUME ~MayPin PROVE Spec => []LiveIsTracked
<1>1. RegistryInv => LiveIsTracked
  BY DEF RegistryInv
<1>2. RegistryInv /\ [Next]_vars => RegistryInv'
  BY StepRegistry
<1> QED
  BY <1>1, <1>2, InitRegistry, PTL DEF Spec
=============================================================================
