------------------------- MODULE ConversationProofs -------------------------
(***************************************************************************)
(* Theorems about Conversation, for any callers, handles, deadlines and    *)
(* bounds.                                                                 *)
(***************************************************************************)
EXTENDS ConversationRefinement, SequenceTheorems, TLAPS

\* Claude works on a turn it has begun, so the lines it writes have a turn.
TurnBegun == phase # "idle" => Len(turns) > 0

TypeInv == TypeOK /\ TurnBegun

\* The lines claude writes for a turn are lines.
LEMMA LinesAreLines ==
    ASSUME NEW t \in Nat \ {0}
    PROVE  /\ UserEcho(t) \in Line
           /\ ToolResult(t) \in Line
           /\ Reply(t) \in Line
           /\ Marker(t) \in Line
           /\ InterimLines(t) \subseteq Line
<1>1. /\ UserEcho(t) \in Line
      /\ ToolResult(t) \in Line
      /\ Marker(t) \in Line
  BY DEF UserEcho, ToolResult, Marker, Line, LineTypes, StopReasons, BlockTypes
<1>2. \A s \in StopReasons, B \in SUBSET BlockTypes : Assistant(t, s, B) \in Line
  BY DEF Assistant, Line, LineTypes
<1>3. Reply(t) \in Line
  BY <1>2 DEF Reply, StopReasons, BlockTypes
<1>4. InterimLines(t) \subseteq Line
  BY <1>2 DEF InterimLines, StopReasons, BlockTypes
<1> QED
  BY <1>1, <1>3, <1>4

\* The text of a line is a number.
LEMMA TextIsNat ==
    ASSUME NEW l \in Line, NEW f \in Nat
    PROVE  NextText(l, f) \in Nat
BY DEF NextText, CarriesText, TextFromContent, NoText, Line

\* A failed call keeps the types.
LEMMA FailKeepsTypes ==
    ASSUME TypeInv, NEW c \in Callers, Fail(c)
    PROVE  TypeInv'
BY ConversationAssumption
   DEF ConversationAssumption, TypeInv, TypeOK, TurnBegun, Fail, Leave, Unlocked,
       claudeVars, PCs, Phases

\* So does a return.
LEMMA LeaveKeepsTypes ==
    ASSUME TypeInv, NEW c \in Callers, Leave(c)
    PROVE  /\ pc' \in [Callers -> PCs] /\ waiting' \in [Callers -> BOOLEAN]
           /\ lock' \in [Handles -> Callers \cup {NoCaller}]
BY ConversationAssumption
   DEF ConversationAssumption, TypeInv, TypeOK, Leave, Unlocked, PCs

\* Initially the types hold.
LEMMA InitTypes == Init => TypeInv
<1> SUFFICES ASSUME Init PROVE TypeInv
  OBVIOUS
<1>1. /\ UserEcho(1) \in Line
      /\ Reply(1) \in Line
  BY LinesAreLines
<1>2. <<<<0>>>> \in Seq(Message) /\ Len(<<<<0>>>>) = 1 /\ <<>> \in Message
  BY DEF Message
<1>3. /\ phase \in Phases /\ turns \in Seq(Message) /\ log \in Seq(Line)
      /\ TurnBegun
  <2>1. /\ <<UserEcho(1), Reply(1)>> \in Seq(Line)
        /\ <<UserEcho(1)>> \in Seq(Line)
        /\ <<>> \in Seq(Line) /\ <<>> \in Seq(Message)
    BY <1>1
  <2>2. \/ phase = "idle" /\ turns = <<>> /\ log = <<>>
        \/ phase = "replied" /\ turns = <<<<0>>>> /\ log = <<UserEcho(1), Reply(1)>>
        \/ phase = "busy" /\ turns = <<<<0>>>> /\ log = <<UserEcho(1)>>
    BY DEF Init, InitClaude
  <2>3. phase \in Phases /\ log \in Seq(Line)
    BY <2>1, <2>2 DEF Phases
  <2>4. turns \in Seq(Message)
    BY <1>2, <2>1, <2>2
  <2>5. TurnBegun
    <3>1. CASE phase = "idle"
      BY <3>1 DEF TurnBegun
    <3>2. CASE turns = <<<<0>>>>
      BY <1>2, <3>2 DEF TurnBegun
    <3> QED
      BY <2>2, <3>1, <3>2
  <2> QED
    BY <2>3, <2>4, <2>5
<1>4. /\ box \in Message /\ queue \in Seq(Message)
      /\ work \in Nat /\ alive \in BOOLEAN
  BY <1>2 DEF Init, InitClaude
<1>5. /\ pc \in [Callers -> PCs]
      /\ op \in [Callers -> {"none", "prompt", "start", "await"}]
      /\ prompt \in [Callers -> Nat] /\ offset \in [Callers -> Nat]
      /\ pos \in [Callers -> Nat] /\ sawUserTurn \in [Callers -> BOOLEAN]
      /\ finalText \in [Callers -> Nat] /\ waiting \in [Callers -> BOOLEAN]
      /\ results \subseteq Result
      /\ lock \in [Handles -> Callers \cup {NoCaller}]
      /\ jsonlPath \in [Handles -> BOOLEAN] /\ asked \in Nat
  BY DEF Init, InitCallers, PCs, NoText
<1> QED
  BY <1>3, <1>4, <1>5 DEF TypeInv, TypeOK

\* Every step keeps the types.
LEMMA NextTypes == TypeInv /\ [Next]_vars => TypeInv'
<1> SUFFICES ASSUME TypeInv, [Next]_vars PROVE TypeInv'
  OBVIOUS
<1> USE ConversationAssumption
    DEF ConversationAssumption, TypeInv, TypeOK, TurnBegun, PCs, Phases,
        callerVars, handleVars, claudeVars
<1>1. ASSUME NEW c \in Callers, NEW o \in Ops[c], Call(c, o) PROVE TypeInv'
  <2>1. o \in {"prompt", "start"}
    OBVIOUS
  <2> QED
    BY <1>1, <2>1 DEF Call
<1>2. ASSUME NEW c \in Callers, CallAwait(c) PROVE TypeInv'
  BY <1>2 DEF CallAwait
<1>3. ASSUME NEW c \in Callers, Acquire(c) PROVE TypeInv'
  BY <1>3 DEF Acquire
<1>4. ASSUME NEW c \in Callers, CheckExited(c) PROVE TypeInv'
  <2>1. CASE Fail(c)
    BY <2>1, FailKeepsTypes
  <2>2. CASE ~Fail(c)
    <3>1. /\ pc' = [pc EXCEPT ![c] = "offset"]
          /\ UNCHANGED <<op, prompt, offset, pos, sawUserTurn, finalText, waiting, results,
                         handleVars, claudeVars>>
      BY <1>4, <2>2 DEF CheckExited
    <3> QED
      BY <3>1
  <2> QED
    BY <2>1, <2>2
<1>5. ASSUME NEW c \in Callers, RecordOffset(c) PROVE TypeInv'
  BY <1>5 DEF RecordOffset
<1>6. ASSUME NEW c \in Callers, TypePrompt(c) PROVE TypeInv'
  <2>1. Append(box, prompt[c]) \in Message
    BY DEF Message
  <2>2. CASE Fail(c)
    BY <2>2, FailKeepsTypes
  <2>3. CASE ~Fail(c)
    <3>1. box' \in Message
      BY <1>6, <2>1, <2>3 DEF TypePrompt, ReceivePrompt
    <3>2. /\ pc' = [pc EXCEPT ![c] = "enter"]
          /\ UNCHANGED <<op, prompt, offset, pos, sawUserTurn, finalText, waiting,
                         results, handleVars, queue, turns, phase, work, log, alive>>
      BY <1>6, <2>3 DEF TypePrompt, ReceivePrompt
    <3> QED
      BY <3>1, <3>2
  <2> QED
    BY <2>2, <2>3
<1>7. ASSUME NEW c \in Callers, PressEnter(c) PROVE TypeInv'
  <2>1. Append(queue, box) \in Seq(Message) /\ <<>> \in Message
    BY DEF Message
  <2>2. CASE Fail(c)
    BY <2>2, FailKeepsTypes
  <2>3. CASE ~Fail(c)
    <3>1. queue' \in Seq(Message) /\ box' \in Message
      BY <1>7, <2>1, <2>3 DEF PressEnter, ReceiveEnter
    <3>2. /\ pc' = [pc EXCEPT ![c] = "path"]
          /\ UNCHANGED <<op, prompt, offset, pos, sawUserTurn, finalText, waiting,
                         results, handleVars, turns, phase, work, log, alive>>
      BY <1>7, <2>3 DEF PressEnter, ReceiveEnter
    <3> QED
      BY <3>1, <3>2
  <2> QED
    BY <2>2, <2>3
<1>8. ASSUME NEW c \in Callers, ResolvePath(c) PROVE TypeInv'
  <2>1. CASE op[c] = "prompt"
    <3>1. /\ pc' = [pc EXCEPT ![c] = "tail"]
          /\ pos' = [pos EXCEPT ![c] = offset[c]]
          /\ sawUserTurn' = [sawUserTurn EXCEPT ![c] = FALSE]
          /\ finalText' = [finalText EXCEPT ![c] = 0]
          /\ waiting' = [waiting EXCEPT ![c] = FALSE]
          /\ jsonlPath' = [jsonlPath EXCEPT ![HandleOf[c]] = TRUE]
          /\ UNCHANGED <<op, prompt, offset, results, lock, asked, claudeVars>>
      BY <1>8, <2>1 DEF ResolvePath, BeginTail, NoText
    <3> QED
      BY <3>1
  <2>2. CASE op[c] = "start"
    <3>1. /\ Leave(c) /\ jsonlPath' = [jsonlPath EXCEPT ![HandleOf[c]] = TRUE]
          /\ UNCHANGED <<op, prompt, offset, pos, sawUserTurn, finalText, results,
                         asked, claudeVars>>
      BY <1>8, <2>2 DEF ResolvePath
    <3>2. jsonlPath' \in [Handles -> BOOLEAN]
      BY <3>1
    <3> QED
      BY <3>1, <3>2, LeaveKeepsTypes
  <2> QED
    BY <1>8, <2>1, <2>2 DEF ResolvePath
<1>9. ASSUME NEW c \in Callers, NoTranscript(c) PROVE TypeInv'
  <2>1. CASE Fail(c)
    BY <2>1, FailKeepsTypes
  <2>2. CASE ~Fail(c)
    <3>1. /\ Leave(c)
          /\ UNCHANGED <<op, prompt, offset, pos, sawUserTurn, finalText, results,
                         jsonlPath, asked, claudeVars>>
      BY <1>9, <2>2 DEF NoTranscript
    <3> QED
      BY <3>1, LeaveKeepsTypes
  <2> QED
    BY <2>1, <2>2
<1>10. ASSUME NEW c \in Callers, AwaitResolve(c) PROVE TypeInv'
  BY <1>10 DEF AwaitResolve, BeginTail, NoText
<1>11. ASSUME NEW c \in Callers, ReadLine(c) PROVE TypeInv'
  <2> DEFINE l == log[pos[c] + 1]
             seen == sawUserTurn[c] \/ OpensTurn(l)
  <2>1. l \in Line
    BY <1>11 DEF ReadLine
  <2>2. NextText(l, finalText[c]) \in Nat
    BY <2>1, TextIsNat
  <2>3. seen \in BOOLEAN
    BY DEF OpensTurn
  <2> HIDE DEF l, seen
  <2>4. CASE EndsWait(l, seen) /\ pc' = [pc EXCEPT ![c] = "idle"]
    <3>1. Answer(c, l) \in Result
      BY <2>2 DEF Answer, Result
    <3> QED
      BY <1>11, <2>4, <3>1 DEF ReadLine, Leave, Unlocked, l, seen
  <2>5. CASE ~EndsWait(l, seen)
    <3>1. /\ pos' = [pos EXCEPT ![c] = @ + 1]
          /\ sawUserTurn' = [sawUserTurn EXCEPT ![c] = seen]
          /\ finalText' = [finalText EXCEPT ![c] = NextText(l, finalText[c])]
          /\ waiting' = [waiting EXCEPT ![c] = FALSE]
          /\ UNCHANGED <<pc, op, prompt, offset, results, lock, jsonlPath, asked,
                         claudeVars>>
      BY <1>11, <2>5 DEF ReadLine, l, seen
    <3> QED
      BY <2>2, <2>3, <3>1
  <2> QED
    BY <1>11, <2>4, <2>5 DEF ReadLine, Leave, l, seen
<1>12. ASSUME NEW c \in Callers, TimeOut(c) PROVE TypeInv'
  BY <1>12 DEF TimeOut, Leave, Unlocked
<1>20. ASSUME NEW c \in Callers, Look(c) PROVE TypeInv'
  BY <1>20 DEF Look
<1>13. CASE BeginTurn
  <2>1. UserEcho(Len(turns) + 1) \in Line
    BY LinesAreLines
  <2>2. /\ turns' = Append(turns, Head(queue)) /\ queue' = Tail(queue) /\ queue # <<>>
        /\ log' = Append(log, UserEcho(Len(turns) + 1)) /\ phase' = "busy"
        /\ UNCHANGED <<box, work, alive, callerVars, handleVars>>
    BY <1>13 DEF BeginTurn, TakeMessage
  <2>3. Head(queue) \in Message /\ queue' \in Seq(Message) /\ log' \in Seq(Line)
    BY <2>1, <2>2
  <2>4. turns' \in Seq(Message) /\ Len(turns') = Len(turns) + 1
    BY <2>2, <2>3
  <2> QED
    BY <2>2, <2>3, <2>4
<1>14. CASE Work
  BY <1>14, LinesAreLines DEF Work, WriteInterim
<1>15. CASE ReturnTool
  BY <1>15, LinesAreLines DEF ReturnTool, WriteToolResult
<1>16. CASE Speak
  BY <1>16, LinesAreLines DEF Speak, WriteReply
<1>17. CASE EndTurn
  BY <1>17, LinesAreLines DEF EndTurn, WriteMarker
<1>18. CASE Exit
  BY <1>18 DEF Exit, Quit
<1>19. CASE UNCHANGED vars
  BY <1>19 DEF vars
<1> QED
  BY <1>1, <1>2, <1>3, <1>4, <1>5, <1>6, <1>7, <1>8, <1>9, <1>10, <1>11, <1>12,
     <1>13, <1>14, <1>15, <1>16, <1>17, <1>18, <1>19, <1>20 DEF Next, Caller, Step, ClaudeStep

\* Every variable keeps its type (Conversation.tla, TypeOK).
THEOREM TypeCorrect == Spec => []TypeOK
<1>1. Spec => []TypeInv
  BY InitTypes, NextTypes, PTL DEF Spec
<1>2. TypeInv => TypeOK
  BY DEF TypeInv
<1> QED
  BY <1>1, <1>2, PTL

-----------------------------------------------------------------------------
(* The mutex.                                                              *)

\* The steps between s.mu.Lock() and the deferred Unlock.
Holds(c) == pc[c] \in Locked \/ (pc[c] = "tail" /\ op[c] = "prompt")

\* Which call can be at which step.
OpInv == \A c \in Callers :
    /\ pc[c] \in {"lock"} \cup Locked => op[c] \in {"prompt", "start"}
    /\ pc[c] = "resolve" => op[c] = "await"
    /\ pc[c] = "tail" => op[c] \in {"prompt", "await"}

MutexInv == /\ OpInv
            /\ \A c \in Callers : Holds(c) => lock[HandleOf[c]] = c

\* Two callers inside the same Session are the same caller: from s.mu.Lock() to
\* the return of Prompt or StartTurn nobody else is between them (session.go:92).
MutualExclusion ==
    \A c, d \in Callers : Holds(c) /\ Holds(d) /\ HandleOf[c] = HandleOf[d] => c = d

\* Two holders of one Session's mutex are the same caller.
LEMMA MutexExcludes == MutexInv => MutualExclusion
BY DEF MutexInv, MutualExclusion

\* A caller that leaves gives back the mutex it held, and nobody else's.
LEMMA LeaveKeepsMutex ==
    ASSUME TypeInv, MutexInv, NEW c \in Callers, Leave(c),
           pc[c] = "resolve" \/ pc[c] = "tail" \/ pc[c] \in Locked,
           \A d \in Callers \ {c} : op'[d] = op[d]
    PROVE  MutexInv'
<1>1. pc' = [pc EXCEPT ![c] = "idle"] /\ lock' = Unlocked(c)
  BY DEF Leave
<1>2. pc'[c] = "idle" /\ \A d \in Callers \ {c} : pc'[d] = pc[d]
  BY <1>1 DEF TypeInv, TypeOK
<1>3. OpInv'
  BY <1>2 DEF MutexInv, OpInv, Locked
<1>4. ASSUME NEW d \in Callers, Holds(d)' PROVE lock'[HandleOf[d]] = d
  <2>1. d # c /\ Holds(d)
    BY <1>2, <1>4 DEF Holds, Locked
  <2>2. lock[HandleOf[d]] = d
    BY <2>1 DEF MutexInv
  <2>3. CASE op[c] = "await"
    BY <1>1, <2>2, <2>3 DEF Unlocked
  <2>4. CASE op[c] # "await"
    <3>1. Holds(c)
      BY <2>4 DEF MutexInv, OpInv, Holds, Locked
    <3>2. HandleOf[c] # HandleOf[d]
      BY <2>1, <3>1 DEF MutexInv
    <3>3. lock' = [lock EXCEPT ![HandleOf[c]] = NoCaller]
      BY <1>1, <2>4 DEF Unlocked
    <3> QED
      BY <2>2, <3>2, <3>3, ConversationAssumption
         DEF ConversationAssumption, TypeInv, TypeOK
  <2> QED
    BY <2>3, <2>4
<1> QED
  BY <1>3, <1>4 DEF MutexInv

\* An error return gives the mutex back.
LEMMA FailKeepsMutex ==
    ASSUME TypeInv, MutexInv, NEW c \in Callers, Fail(c), pc[c] \in Locked
    PROVE  MutexInv'
BY LeaveKeepsMutex DEF Fail, TypeInv, TypeOK

\* A caller that moves on inside its call, the mutex untouched.
LEMMA MoveKeepsMutex ==
    ASSUME TypeInv, MutexInv, NEW c \in Callers, NEW p \in PCs, NEW o,
           pc' = [pc EXCEPT ![c] = p], op' = [op EXCEPT ![c] = o],
           UNCHANGED lock,
           p \in Locked => Holds(c) /\ o \in {"prompt", "start"},
           p = "lock" => o \in {"prompt", "start"},
           p = "resolve" => o = "await",
           p = "tail" => \/ o = "await"
                         \/ o = "prompt" /\ Holds(c)
    PROVE  MutexInv'
<1>1. /\ pc'[c] = p /\ op'[c] = o
      /\ \A d \in Callers \ {c} : pc'[d] = pc[d] /\ op'[d] = op[d]
  BY DEF TypeInv, TypeOK
<1>2. OpInv'
  BY <1>1 DEF MutexInv, OpInv, Locked
<1>3. ASSUME NEW d \in Callers, Holds(d)' PROVE lock'[HandleOf[d]] = d
  BY <1>1, <1>3 DEF MutexInv, Holds, Locked
<1> QED
  BY <1>2, <1>3 DEF MutexInv

\* Initially nobody holds a mutex.
LEMMA InitMutex == Init => MutexInv
BY DEF Init, InitCallers, MutexInv, OpInv, Holds, Locked

\* Every step keeps the mutex with the caller inside the Session.
LEMMA NextMutex == TypeInv /\ MutexInv /\ [Next]_vars => MutexInv'
<1> SUFFICES ASSUME TypeInv, MutexInv, [Next]_vars PROVE MutexInv'
  OBVIOUS
<1> USE DEF callerVars, handleVars
<1>op. \A c \in Callers : op = [op EXCEPT ![c] = op[c]]
  BY DEF TypeInv, TypeOK
<1>1. ASSUME NEW c \in Callers, NEW o \in Ops[c], Call(c, o) PROVE MutexInv'
  <2>1. o \in {"prompt", "start"}
    BY ConversationAssumption DEF ConversationAssumption
  <2> QED
    BY <1>1, <2>1, MoveKeepsMutex DEF Call, PCs, Locked
<1>2. ASSUME NEW c \in Callers, CallAwait(c) PROVE MutexInv'
  BY <1>2, MoveKeepsMutex DEF CallAwait, PCs, Locked
<1>3. ASSUME NEW c \in Callers, Acquire(c) PROVE MutexInv'
  <2>1. /\ pc'[c] = "check" /\ pc[c] = "lock" /\ UNCHANGED op
        /\ \A d \in Callers \ {c} : pc'[d] = pc[d]
        /\ lock[HandleOf[c]] = NoCaller
        /\ lock' = [lock EXCEPT ![HandleOf[c]] = c]
    BY <1>3 DEF Acquire, TypeInv, TypeOK
  <2>2. OpInv'
    BY <2>1 DEF MutexInv, OpInv, Locked
  <2>3. ASSUME NEW d \in Callers, Holds(d)' PROVE lock'[HandleOf[d]] = d
    <3>1. CASE d = c
      BY <2>1, <3>1, ConversationAssumption DEF ConversationAssumption, TypeInv, TypeOK
    <3>2. CASE d # c
      <4>1. lock[HandleOf[d]] = d
        BY <2>1, <2>3, <3>2 DEF MutexInv, Holds, Locked
      <4>2. HandleOf[d] # HandleOf[c]
        BY <2>1, <4>1, ConversationAssumption DEF ConversationAssumption
      <4> QED
        BY <2>1, <4>1, <4>2, ConversationAssumption
           DEF ConversationAssumption, TypeInv, TypeOK
    <3> QED
      BY <3>1, <3>2
  <2> QED
    BY <2>2, <2>3 DEF MutexInv
<1>4. ASSUME NEW c \in Callers, CheckExited(c) PROVE MutexInv'
  BY <1>4, <1>op, FailKeepsMutex, MoveKeepsMutex
     DEF CheckExited, PCs, Locked, Holds, MutexInv, OpInv
<1>5. ASSUME NEW c \in Callers, RecordOffset(c) PROVE MutexInv'
  BY <1>5, <1>op, MoveKeepsMutex DEF RecordOffset, PCs, Locked, Holds, MutexInv, OpInv
<1>6. ASSUME NEW c \in Callers, TypePrompt(c) PROVE MutexInv'
  <2>1. CASE Fail(c)
    BY <1>6, <2>1, FailKeepsMutex DEF TypePrompt, ReceivePrompt, Locked
  <2>2. CASE ~Fail(c)
    BY <1>6, <1>op, <2>2, MoveKeepsMutex
       DEF TypePrompt, ReceivePrompt, PCs, Locked, Holds, MutexInv, OpInv
  <2> QED
    BY <2>1, <2>2
<1>7. ASSUME NEW c \in Callers, PressEnter(c) PROVE MutexInv'
  BY <1>7, <1>op, FailKeepsMutex, MoveKeepsMutex
     DEF PressEnter, ReceiveEnter, PCs, Locked, Holds, MutexInv, OpInv
<1>8. ASSUME NEW c \in Callers, ResolvePath(c) PROVE MutexInv'
  <2>1. CASE op[c] = "prompt"
    BY <1>8, <1>op, <2>1, MoveKeepsMutex DEF ResolvePath, BeginTail, PCs, Locked, Holds
  <2>2. CASE op[c] = "start"
    BY <1>8, <2>2, LeaveKeepsMutex DEF ResolvePath, Locked
  <2> QED
    BY <1>8, <2>1, <2>2 DEF ResolvePath
<1>9. ASSUME NEW c \in Callers, NoTranscript(c) PROVE MutexInv'
  BY <1>9, FailKeepsMutex, LeaveKeepsMutex DEF NoTranscript, Locked
<1>10. ASSUME NEW c \in Callers, AwaitResolve(c) PROVE MutexInv'
  BY <1>10, <1>op, MoveKeepsMutex
     DEF AwaitResolve, BeginTail, PCs, Locked, MutexInv, OpInv
<1>11. ASSUME NEW c \in Callers, ReadLine(c) PROVE MutexInv'
  <2>1. CASE Leave(c)
    BY <1>11, <2>1, LeaveKeepsMutex DEF ReadLine
  <2>2. CASE UNCHANGED <<pc, op, lock>>
    BY <2>2 DEF MutexInv, OpInv, Holds
  <2> QED
    BY <1>11, <2>1, <2>2 DEF ReadLine
<1>12. ASSUME NEW c \in Callers, TimeOut(c) PROVE MutexInv'
  BY <1>12, LeaveKeepsMutex DEF TimeOut
<1>13. CASE UNCHANGED <<pc, op, lock>>
  BY <1>13 DEF MutexInv, OpInv, Holds
<1>15. ASSUME NEW c \in Callers, Look(c) PROVE MutexInv'
  BY <1>13, <1>15 DEF Look
<1>14. CASE ClaudeStep \/ Exit \/ UNCHANGED vars
  BY <1>13, <1>14
     DEF ClaudeStep, BeginTurn, TakeMessage, Work, WriteInterim, ReturnTool,
         WriteToolResult, Speak, WriteReply, EndTurn, WriteMarker, Exit, Quit, vars
<1> QED
  BY <1>1, <1>2, <1>3, <1>4, <1>5, <1>6, <1>7, <1>8, <1>9, <1>10, <1>11, <1>12,
     <1>14, <1>15 DEF Next, Caller, Step

\* Types and mutex together are inductive.
LEMMA InductiveMutex == Spec => [](TypeInv /\ MutexInv)
<1>1. Init => TypeInv /\ MutexInv
  BY InitTypes, InitMutex
<1>2. TypeInv /\ MutexInv /\ [Next]_vars => (TypeInv /\ MutexInv)'
  BY NextTypes, NextMutex
<1> QED
  BY <1>1, <1>2, PTL DEF Spec

\* The mutex serializes the calls on a Session (session.go:92-93, 229-230).
THEOREM SessionExcludes == Spec => []MutualExclusion
BY InductiveMutex, MutexExcludes, PTL

-----------------------------------------------------------------------------
(* With one Session, every message is one prompt.                          *)

OneHandle == \A c, d \in Callers : HandleOf[c] = HandleOf[d]

\* While claude lives, text only sits in the box between the two writes of the
\* SendPrompt that typed it.
BoxInv == alive /\ box # <<>> => /\ Len(box) = 1
                                 /\ \E c \in Callers : pc[c] = "enter"

SingleInv == BoxInv /\ SingleMessages

\* A step that leaves claude's side alone and nobody at "enter".
LEMMA SameMessages ==
    ASSUME SingleInv, UNCHANGED claudeVars,
           \A c \in Callers : pc[c] = "enter" => pc'[c] = "enter"
    PROVE  SingleInv'
BY DEF SingleInv, BoxInv, SingleMessages, claudeVars

\* Initially nothing has been typed.
LEMMA InitSingle == Init => SingleInv
BY DEF Init, InitClaude, SingleInv, BoxInv, SingleMessages

\* With one Session, only the caller between its two writes has text in the box.
LEMMA NextSingle ==
    ASSUME OneHandle, TypeInv, MutexInv, SingleInv, [Next]_vars
    PROVE  SingleInv'
<1> USE DEF callerVars, handleVars
<1>1. ASSUME NEW c \in Callers, NEW p \in PCs, pc[c] # "enter",
             pc' = [pc EXCEPT ![c] = p], UNCHANGED claudeVars
      PROVE  SingleInv'
  BY <1>1, SameMessages DEF TypeInv, TypeOK
<1>2. ASSUME NEW c \in Callers, pc[c] # "enter", Leave(c), UNCHANGED claudeVars
      PROVE  SingleInv'
  BY <1>1, <1>2 DEF Leave, PCs
<1>3. ASSUME NEW c \in Callers, NEW o \in Ops[c], Call(c, o) PROVE SingleInv'
  BY <1>1, <1>3 DEF Call, PCs
<1>4. ASSUME NEW c \in Callers,
             \/ CallAwait(c) \/ Acquire(c) \/ CheckExited(c)
             \/ RecordOffset(c) \/ AwaitResolve(c)
      PROVE  SingleInv'
  BY <1>1, <1>2, <1>4
     DEF CallAwait, Acquire, CheckExited, RecordOffset, AwaitResolve, BeginTail,
         Fail, PCs
<1>5. ASSUME NEW c \in Callers, ResolvePath(c) \/ NoTranscript(c)
      PROVE  SingleInv'
  BY <1>1, <1>2, <1>5 DEF ResolvePath, NoTranscript, BeginTail, Fail, PCs
<1>6. ASSUME NEW c \in Callers, ReadLine(c) \/ TimeOut(c) PROVE SingleInv'
  <2>1. CASE Leave(c)
    BY <1>2, <1>6, <2>1 DEF ReadLine, TimeOut
  <2>2. CASE UNCHANGED pc
    BY <1>6, <2>2, SameMessages DEF ReadLine, TimeOut
  <2> QED
    BY <1>6, <2>1, <2>2 DEF ReadLine, TimeOut
<1>11. ASSUME NEW c \in Callers, Look(c) PROVE SingleInv'
  BY <1>11, SameMessages DEF Look
<1>7. ASSUME NEW c \in Callers, TypePrompt(c) PROVE SingleInv'
  <2>1. CASE Fail(c)
    BY <1>2, <1>7, <2>1 DEF TypePrompt, ReceivePrompt, Fail
  <2>2. CASE ~Fail(c) /\ ~alive
    BY <1>1, <1>7, <2>2 DEF TypePrompt, ReceivePrompt, PCs, claudeVars
  <2>3. CASE alive
    <3>1. box = <<>>
      <4> SUFFICES ASSUME box # <<>> PROVE FALSE
        OBVIOUS
      <4>1. PICK d \in Callers : pc[d] = "enter"
        BY <2>3 DEF SingleInv, BoxInv
      <4>2. Holds(c) /\ Holds(d)
        BY <1>7, <4>1 DEF TypePrompt, ReceivePrompt, Holds, Locked
      <4>3. c = d
        BY <4>2, MutexExcludes DEF MutualExclusion, OneHandle
      <4> QED
        BY <1>7, <4>1, <4>3 DEF TypePrompt, ReceivePrompt
    <3>2. box' = <<prompt[c]>> /\ pc' = [pc EXCEPT ![c] = "enter"]
          /\ UNCHANGED <<queue, turns>>
      BY <1>7, <2>3, <3>1 DEF TypePrompt, ReceivePrompt
    <3>3. pc'[c] = "enter" /\ Len(box') = 1
      BY <3>2 DEF TypeInv, TypeOK
    <3> QED
      BY <3>2, <3>3 DEF SingleInv, BoxInv, SingleMessages
  <2> QED
    BY <1>7, <2>1, <2>2, <2>3 DEF TypePrompt, ReceivePrompt
<1>8. ASSUME NEW c \in Callers, PressEnter(c) PROVE SingleInv'
  <2>1. CASE ~alive
    <3>1. UNCHANGED claudeVars
      BY <1>8, <2>1 DEF PressEnter, ReceiveEnter, Fail, claudeVars
    <3> QED
      BY <2>1, <3>1 DEF SingleInv, BoxInv, SingleMessages, claudeVars
  <2>2. CASE alive /\ box = <<>>
    BY <1>8, <2>2 DEF PressEnter, ReceiveEnter, SingleInv, BoxInv, SingleMessages
  <2>3. CASE alive /\ box # <<>>
    <3>1. /\ queue' = Append(queue, box) /\ box' = <<>> /\ turns' = turns
      BY <1>8, <2>3 DEF PressEnter, ReceiveEnter
    <3>2. Len(box) = 1
      BY <2>3 DEF SingleInv, BoxInv
    <3>3. \A i \in 1..Len(queue') : Len(queue'[i]) = 1
      <4>1. queue \in Seq(Message) /\ box \in Message
        BY DEF TypeInv, TypeOK
      <4>2. \A i \in 1..Len(queue) : Len(queue[i]) = 1
        BY DEF SingleInv, SingleMessages
      <4> QED
        BY <3>1, <3>2, <4>1, <4>2
    <3> QED
      BY <3>1, <3>3 DEF SingleInv, BoxInv, SingleMessages
  <2> QED
    BY <2>1, <2>2, <2>3
<1>9. CASE BeginTurn
  <2>1. /\ turns' = Append(turns, Head(queue)) /\ queue' = Tail(queue)
        /\ queue # <<>> /\ UNCHANGED <<box, pc, alive>>
    BY <1>9 DEF BeginTurn, TakeMessage
  <2>2. Len(Head(queue)) = 1
    BY <2>1 DEF SingleInv, SingleMessages, TypeInv, TypeOK
  <2>3. \A t \in 1..Len(turns') : Len(turns'[t]) = 1
    BY <2>1, <2>2 DEF SingleInv, SingleMessages, TypeInv, TypeOK
  <2>4. \A i \in 1..Len(queue') : Len(queue'[i]) = 1
    BY <2>1 DEF SingleInv, SingleMessages, TypeInv, TypeOK
  <2> QED
    BY <2>1, <2>3, <2>4 DEF SingleInv, BoxInv, SingleMessages
<1>10. CASE Work \/ ReturnTool \/ Speak \/ EndTurn \/ Exit \/ UNCHANGED vars
  BY <1>10 DEF Work, WriteInterim, ReturnTool, WriteToolResult, Speak, WriteReply,
     EndTurn, WriteMarker, Exit, Quit, vars, claudeVars, SingleInv, BoxInv,
     SingleMessages
<1> QED
  BY <1>3, <1>4, <1>5, <1>6, <1>7, <1>8, <1>9, <1>10, <1>11
     DEF Next, Caller, Step, ClaudeStep

\* When all callers go through one Session, every message claude receives is
\* exactly one prompt (session.go:92 around drive.go:129-135).
THEOREM OneSessionSingleMessages ==
    ASSUME OneHandle
    PROVE  Spec => []SingleMessages
<1>1. Init => SingleInv
  BY InitSingle
<1>2. TypeInv /\ MutexInv /\ SingleInv /\ [Next]_vars => SingleInv'
  BY NextSingle
<1>3. SingleInv => SingleMessages
  BY DEF SingleInv
<1> QED
  BY <1>1, <1>2, <1>3, InductiveMutex, PTL DEF Spec

-----------------------------------------------------------------------------
(* Answers are determined by the transcript and the cursor.                *)

\* What a tail knows is what the lines it has read say.
Follows(c) ==
    /\ offset[c] <= pos[c] /\ pos[c] <= Len(log)
    /\ sawUserTurn[c] <=> \E u \in offset[c] + 1..pos[c] : OpensTurn(log[u])
    /\ \A i \in offset[c] + 1..pos[c] : ~EndsAt(offset[c], i)
    /\ IsLastText(offset[c], pos[c], finalText[c])

TailInv ==
    /\ \A c \in Callers : offset[c] <= Len(log)
    /\ \A c \in Callers : pc[c] = "tail" => Follows(c)
    /\ AnswersFollowTranscript

\* A reader that has just opened the transcript at offset o has read nothing.
LEMMA NothingRead ==
    ASSUME NEW o \in Nat
    PROVE  /\ ~\E u \in o + 1..o : OpensTurn(log[u])
           /\ \A i \in o + 1..o : ~EndsAt(o, i)
           /\ IsLastText(o, o, NoText)
<1>1. \A i \in o + 1..o : FALSE
  OBVIOUS
<1> QED
  BY <1>1 DEF IsLastText

\* Claude only appends: what was read stays as it was read.
LEMMA ReadingsLast ==
    ASSUME TypeInv, NEW l \in Line, log' = Append(log, l), NEW o \in Nat
    PROVE  /\ Len(log') = Len(log) + 1
           /\ \A i \in 1..Len(log) : log'[i] = log[i]
           /\ \A i \in o + 1..Len(log) : EndsAt(o, i)' <=> EndsAt(o, i)
           /\ \A e \in o..Len(log), txt \in Nat :
                 IsLastText(o, e, txt) => IsLastText(o, e, txt)'
<1>1. /\ Len(log') = Len(log) + 1
      /\ \A i \in 1..Len(log) : log'[i] = log[i]
  BY DEF TypeInv, TypeOK
<1>2. ASSUME NEW i \in o + 1..Len(log) PROVE EndsAt(o, i)' <=> EndsAt(o, i)
  <2>1. \A u \in o + 1..i : log'[u] = log[u]
    BY <1>1 DEF TypeInv, TypeOK
  <2>2. log'[i] = log[i]
    BY <1>1 DEF TypeInv, TypeOK
  <2> QED
    BY <2>1, <2>2 DEF EndsAt
<1>3. ASSUME NEW e \in o..Len(log), NEW txt \in Nat, IsLastText(o, e, txt)
      PROVE  IsLastText(o, e, txt)'
  <2>1. \A i \in o + 1..e : log'[i] = log[i]
    BY <1>1 DEF TypeInv, TypeOK
  <2> QED
    BY <1>3, <2>1 DEF IsLastText
<1> QED
  BY <1>1, <1>2, <1>3

\* One more line read.
LEMMA ReadOneMore ==
    ASSUME TypeInv, NEW c \in Callers, Follows(c), pos[c] < Len(log)
    PROVE  LET l    == log[pos[c] + 1]
               seen == sawUserTurn[c] \/ OpensTurn(l)
           IN  /\ seen <=> \E u \in offset[c] + 1..pos[c] + 1 : OpensTurn(log[u])
               /\ EndsWait(l, seen) <=> EndsAt(offset[c], pos[c] + 1)
               /\ IsLastText(offset[c], pos[c] + 1, NextText(l, finalText[c]))
<1> DEFINE o == offset[c]
           n == pos[c]
           l == log[n + 1]
           seen == sawUserTurn[c] \/ OpensTurn(l)
<1>1. o \in Nat /\ n \in Nat /\ o <= n
  BY DEF TypeInv, TypeOK, Follows
<1>2. seen <=> \E u \in o + 1..n + 1 : OpensTurn(log[u])
  BY <1>1 DEF Follows
<1>3. EndsWait(l, seen) <=> EndsAt(o, n + 1)
  BY <1>1, <1>2 DEF EndsWait, EndsAt
<1>4. IsLastText(o, n + 1, NextText(l, finalText[c]))
  <2>0. IsLastText(o, n, finalText[c])
    BY DEF Follows
  <2>1. CASE CarriesText(l)
    <3>1. n + 1 \in o + 1..n + 1 /\ \A j \in n + 1 + 1..n + 1 : FALSE
      BY <1>1
    <3> QED
      BY <2>1, <3>1 DEF IsLastText, NextText
  <2>2. CASE ~CarriesText(l)
    <3>1. NextText(l, finalText[c]) = finalText[c]
      BY <2>2 DEF NextText
    <3>2. \A i \in o + 1..n + 1 : i \in o + 1..n \/ i = n + 1
      BY <1>1
    <3>3. CASE finalText[c] = NoText /\ \A i \in o + 1..n : ~CarriesText(log[i])
      BY <2>2, <3>1, <3>2, <3>3 DEF IsLastText
    <3>4. CASE \E i \in o + 1..n : /\ CarriesText(log[i])
                                  /\ finalText[c] = TextFromContent(log[i])
                                  /\ \A j \in i + 1..n : ~CarriesText(log[j])
      <4>1. PICK i \in o + 1..n : /\ CarriesText(log[i])
                                  /\ finalText[c] = TextFromContent(log[i])
                                  /\ \A j \in i + 1..n : ~CarriesText(log[j])
        BY <3>4
      <4>2. i \in o + 1..n + 1 /\ \A j \in i + 1..n + 1 : j \in i + 1..n \/ j = n + 1
        BY <1>1
      <4>3. \A j \in i + 1..n + 1 : ~CarriesText(log[j])
        BY <2>2, <4>1, <4>2
      <4> QED
        BY <3>1, <4>1, <4>2, <4>3 DEF IsLastText
    <3> QED
      BY <2>0, <3>3, <3>4 DEF IsLastText
  <2> QED
    BY <2>1, <2>2
<1> QED
  BY <1>2, <1>3, <1>4

\* A step after which every tail is one there was before, the transcript and
\* the answers unchanged.
LEMMA SameReadings ==
    ASSUME TailInv, UNCHANGED <<log, results>>,
           \A c \in Callers : offset'[c] <= Len(log),
           \A c \in Callers : pc'[c] = "tail" =>
               /\ pc[c] = "tail" /\ offset'[c] = offset[c] /\ pos'[c] = pos[c]
               /\ sawUserTurn'[c] = sawUserTurn[c] /\ finalText'[c] = finalText[c]
    PROVE  TailInv'
<1>1. ASSUME NEW c \in Callers, pc'[c] = "tail" PROVE Follows(c)'
  <2>1. Follows(c)
    BY <1>1 DEF TailInv
  <2> QED
    BY <1>1, <2>1 DEF Follows, EndsAt, IsLastText
<1>2. AnswersFollowTranscript'
  BY DEF TailInv, AnswersFollowTranscript, IsReading, EndsAt, IsLastText
<1> QED
  BY <1>1, <1>2 DEF TailInv

\* A caller that moves, and does not start to read.
LEMMA MoveKeepsReadings ==
    ASSUME TypeInv, TailInv, NEW c \in Callers, NEW p \in PCs \ {"tail"},
           pc' = [pc EXCEPT ![c] = p],
           UNCHANGED <<offset, pos, sawUserTurn, finalText, results, log>>
    PROVE  TailInv'
BY SameReadings DEF TypeInv, TypeOK, TailInv

\* An error return starts no tail.
LEMMA FailKeepsReadings ==
    ASSUME TypeInv, TailInv, NEW c \in Callers, Fail(c)
    PROVE  TailInv'
BY MoveKeepsReadings DEF Fail, Leave, claudeVars, PCs

\* A caller that starts to read.
LEMMA BeginKeepsReadings ==
    ASSUME TypeInv, TailInv, NEW c \in Callers, BeginTail(c),
           UNCHANGED <<offset, results, log>>
    PROVE  TailInv'
<1>1. /\ pc'[c] = "tail" /\ pos'[c] = offset[c] /\ sawUserTurn'[c] = FALSE
      /\ finalText'[c] = NoText
      /\ \A d \in Callers \ {c} :
            /\ pc'[d] = pc[d] /\ pos'[d] = pos[d]
            /\ sawUserTurn'[d] = sawUserTurn[d] /\ finalText'[d] = finalText[d]
  BY DEF BeginTail, TypeInv, TypeOK
<1>2. offset[c] \in Nat /\ offset[c] <= Len(log)
  BY DEF TypeInv, TypeOK, TailInv
<1>3. Follows(c)'
  BY <1>1, <1>2, NothingRead DEF Follows, EndsAt, IsLastText
<1>4. ASSUME NEW d \in Callers \ {c}, pc'[d] = "tail" PROVE Follows(d)'
  <2>1. Follows(d)
    BY <1>1, <1>4 DEF TailInv
  <2> QED
    BY <1>1, <2>1 DEF Follows, EndsAt, IsLastText
<1>5. AnswersFollowTranscript'
  BY DEF TailInv, AnswersFollowTranscript, IsReading, EndsAt, IsLastText
<1> QED
  BY <1>3, <1>4, <1>5 DEF TailInv

\* Claude appends a line.
LEMMA AppendKeepsReadings ==
    ASSUME TypeInv, TailInv, NEW l \in Line, log' = Append(log, l),
           UNCHANGED callerVars
    PROVE  TailInv'
<1> USE DEF callerVars
<1>1. Len(log') = Len(log) + 1 /\ Len(log) \in Nat
  BY DEF TypeInv, TypeOK
<1>2. \A c \in Callers : offset'[c] <= Len(log')
  BY <1>1 DEF TailInv, TypeInv, TypeOK
<1>3. ASSUME NEW c \in Callers, pc'[c] = "tail" PROVE Follows(c)'
  <2> DEFINE o == offset[c]
             n == pos[c]
  <2>1. Follows(c)
    BY <1>3 DEF TailInv
  <2>2. o \in Nat /\ n \in o..Len(log) /\ finalText[c] \in Nat
    BY <2>1 DEF Follows, TypeInv, TypeOK
  <2>3. IsLastText(o, n, finalText[c])'
    <3>1. IsLastText(o, n, finalText[c])
      BY <2>1 DEF Follows
    <3> QED
      BY <2>2, <3>1, ReadingsLast
  <2>4. \A i \in o + 1..n : ~EndsAt(o, i)'
    <3>1. \A i \in o + 1..n : i \in o + 1..Len(log) /\ ~EndsAt(o, i)
      BY <2>1, <2>2 DEF Follows
    <3> QED
      BY <2>2, <3>1, ReadingsLast
  <2>5. \A u \in o + 1..n : log'[u] = log[u]
    BY <2>2, ReadingsLast
  <2> QED
    BY <1>1, <2>1, <2>2, <2>3, <2>4, <2>5 DEF Follows
<1>4. AnswersFollowTranscript'
  <2> SUFFICES ASSUME NEW r \in results
               PROVE  IsReading(r.offset, r.end, r.text)'
    BY DEF AnswersFollowTranscript
  <2> DEFINE o == r.offset
             e == r.end
  <2>1. IsReading(o, e, r.text) /\ o \in Nat /\ e \in Nat /\ r.text \in Nat
    BY DEF TailInv, AnswersFollowTranscript, TypeInv, TypeOK, Result
  <2>2. e \in o + 1..Len(log) /\ e \in o..Len(log)
    BY <1>1, <2>1 DEF IsReading
  <2>3. IsLastText(o, e, r.text)'
    <3>1. IsLastText(o, e, r.text)
      BY <2>1 DEF IsReading
    <3> QED
      BY <2>1, <2>2, <3>1, ReadingsLast
  <2>4. EndsAt(o, e)'
    BY <2>1, <2>2, ReadingsLast DEF IsReading
  <2>5. \A i \in o + 1..e - 1 : ~EndsAt(o, i)'
    <3>1. \A i \in o + 1..e - 1 : i \in o + 1..Len(log) /\ ~EndsAt(o, i)
      BY <1>1, <2>1, <2>2 DEF IsReading
    <3> QED
      BY <2>1, <3>1, ReadingsLast
  <2>6. e \in o + 1..Len(log')
    BY <1>1, <2>1, <2>2
  <2> QED
    BY <2>3, <2>4, <2>5, <2>6 DEF IsReading
<1> QED
  BY <1>2, <1>3, <1>4 DEF TailInv

\* A tail reads a line, and returns if it ends the wait.
LEMMA ReadKeepsReadings ==
    ASSUME TypeInv, TailInv, NEW c \in Callers, ReadLine(c)
    PROVE  TailInv'
<1> DEFINE l == log[pos[c] + 1]
           seen == sawUserTurn[c] \/ OpensTurn(l)
<1>1. Follows(c) /\ pos[c] < Len(log) /\ UNCHANGED <<log, offset>>
  BY DEF ReadLine, TailInv, claudeVars
<1>2. /\ seen <=> \E u \in offset[c] + 1..pos[c] + 1 : OpensTurn(log[u])
      /\ EndsWait(l, seen) <=> EndsAt(offset[c], pos[c] + 1)
      /\ IsLastText(offset[c], pos[c] + 1, NextText(l, finalText[c]))
  BY <1>1, ReadOneMore
<1>3. /\ offset[c] \in Nat /\ pos[c] \in Nat /\ offset[c] <= pos[c]
      /\ Len(log) \in Nat
  BY <1>1 DEF TypeInv, TypeOK, Follows
<1>4. CASE EndsWait(l, seen)
  <2>1. /\ results' = results \cup {Answer(c, l)}
        /\ pc' = [pc EXCEPT ![c] = "idle"]
        /\ UNCHANGED <<pos, sawUserTurn, finalText>>
    BY <1>4 DEF ReadLine, Leave
  <2>2. IsReading(offset[c], pos[c] + 1, NextText(l, finalText[c]))
    <3>1. pos[c] + 1 \in offset[c] + 1..Len(log)
      BY <1>1, <1>3
    <3>2. \A i \in offset[c] + 1..(pos[c] + 1) - 1 : ~EndsAt(offset[c], i)
      BY <1>1, <1>3 DEF Follows
    <3> QED
      BY <1>2, <1>4, <3>1, <3>2 DEF IsReading
  <2>3. \A r \in results' : IsReading(r.offset, r.end, r.text)
    BY <2>1, <2>2 DEF Answer, TailInv, AnswersFollowTranscript
  <2>4. AnswersFollowTranscript'
    BY <1>1, <2>3 DEF AnswersFollowTranscript, IsReading, EndsAt, IsLastText
  <2>5. ASSUME NEW d \in Callers, pc'[d] = "tail" PROVE Follows(d)'
    <3>1. Follows(d)
      BY <2>1, <2>5 DEF TailInv, TypeInv, TypeOK
    <3> QED
      BY <1>1, <2>1, <3>1 DEF Follows, EndsAt, IsLastText
  <2> QED
    BY <1>1, <2>4, <2>5 DEF TailInv
<1>5. CASE ~EndsWait(l, seen)
  <2>1. /\ pos' = [pos EXCEPT ![c] = pos[c] + 1]
        /\ sawUserTurn' = [sawUserTurn EXCEPT ![c] = seen]
        /\ finalText' = [finalText EXCEPT ![c] = NextText(l, finalText[c])]
        /\ UNCHANGED <<pc, results>>
    BY <1>5 DEF ReadLine
  <2>2. /\ pos'[c] = pos[c] + 1 /\ sawUserTurn'[c] = seen
        /\ finalText'[c] = NextText(l, finalText[c])
        /\ \A d \in Callers \ {c} :
              /\ pos'[d] = pos[d] /\ sawUserTurn'[d] = sawUserTurn[d]
              /\ finalText'[d] = finalText[d]
    BY <2>1 DEF TypeInv, TypeOK
  <2>3. Follows(c)'
    <3>1. \A i \in offset[c] + 1..pos[c] + 1 : ~EndsAt(offset[c], i)
      <4>1. \A i \in offset[c] + 1..pos[c] + 1 :
              i \in offset[c] + 1..pos[c] \/ i = pos[c] + 1
        BY <1>3
      <4> QED
        BY <1>1, <1>2, <1>5, <4>1 DEF Follows
    <3>2. offset[c] <= pos[c] + 1 /\ pos[c] + 1 <= Len(log)
      BY <1>1, <1>3
    <3> HIDE DEF l, seen
    <3>3. /\ offset'[c] = offset[c] /\ log' = log
      BY <1>1
    <3> QED
      BY <1>2, <2>2, <3>1, <3>2, <3>3 DEF Follows, EndsAt, IsLastText
  <2>4. ASSUME NEW d \in Callers \ {c}, pc'[d] = "tail" PROVE Follows(d)'
    <3>1. Follows(d)
      BY <2>1, <2>4 DEF TailInv
    <3> QED
      BY <1>1, <2>2, <3>1 DEF Follows, EndsAt, IsLastText
  <2>5. AnswersFollowTranscript'
    BY <1>1, <2>1 DEF TailInv, AnswersFollowTranscript, IsReading, EndsAt, IsLastText
  <2> QED
    BY <1>1, <2>1, <2>3, <2>4, <2>5 DEF TailInv
<1> QED
  BY <1>4, <1>5

\* Initially nobody reads.
LEMMA InitReadings == Init => TailInv
<1> SUFFICES ASSUME Init PROVE TailInv
  OBVIOUS
<1>1. /\ pc = [c \in Callers |-> "idle"] /\ offset = [c \in Callers |-> 0]
      /\ results = {}
  BY DEF Init, InitCallers
<1>2. Len(log) \in Nat
  BY InitTypes DEF TypeInv, TypeOK
<1> QED
  BY <1>1, <1>2 DEF TailInv, AnswersFollowTranscript

\* Every step keeps the tails true to the transcript.
LEMMA NextReadings == TypeInv /\ TailInv /\ [Next]_vars => TailInv'
<1> SUFFICES ASSUME TypeInv, TailInv, [Next]_vars PROVE TailInv'
  OBVIOUS
<1> USE DEF handleVars, claudeVars
<1>1. ASSUME NEW c \in Callers, NEW o \in Ops[c], Call(c, o) PROVE TailInv'
  BY <1>1, MoveKeepsReadings DEF Call, PCs
<1>2. ASSUME NEW c \in Callers, CallAwait(c) \/ Acquire(c) PROVE TailInv'
  BY <1>2, MoveKeepsReadings DEF CallAwait, Acquire, PCs
<1>3. ASSUME NEW c \in Callers, CheckExited(c) \/ TypePrompt(c) \/ PressEnter(c)
      PROVE  TailInv'
  <2>1. CASE Fail(c)
    BY <2>1, FailKeepsReadings
  <2>2. CASE ~Fail(c)
    <3>1. /\ UNCHANGED <<offset, pos, sawUserTurn, finalText, results, log>>
          /\ \E p \in PCs \ {"tail"} : pc' = [pc EXCEPT ![c] = p]
      BY <1>3, <2>2 DEF CheckExited, TypePrompt, ReceivePrompt, PressEnter, ReceiveEnter, PCs
    <3> QED
      BY <3>1, MoveKeepsReadings
  <2> QED
    BY <2>1, <2>2
<1>4. ASSUME NEW c \in Callers, RecordOffset(c) PROVE TailInv'
  <2>1. /\ pc' = [pc EXCEPT ![c] = "type"] /\ offset' = [offset EXCEPT ![c] = Len(log)]
        /\ UNCHANGED <<pos, sawUserTurn, finalText, results, log>>
    BY <1>4 DEF RecordOffset
  <2>2. /\ pc'[c] = "type" /\ offset'[c] = Len(log)
        /\ \A d \in Callers \ {c} : pc'[d] = pc[d] /\ offset'[d] = offset[d]
        /\ Len(log) \in Nat
    BY <2>1 DEF TypeInv, TypeOK
  <2>3. \A d \in Callers : offset'[d] <= Len(log)
    BY <2>2 DEF TailInv
  <2> QED
    BY <2>1, <2>2, <2>3, SameReadings
<1>5. ASSUME NEW c \in Callers, ResolvePath(c) PROVE TailInv'
  BY <1>5, BeginKeepsReadings, MoveKeepsReadings DEF ResolvePath, Leave, PCs
<1>6. ASSUME NEW c \in Callers, NoTranscript(c) \/ TimeOut(c) PROVE TailInv'
  BY <1>6, FailKeepsReadings, MoveKeepsReadings DEF NoTranscript, TimeOut, Leave, PCs
<1>7. ASSUME NEW c \in Callers, AwaitResolve(c) PROVE TailInv'
  BY <1>7, BeginKeepsReadings DEF AwaitResolve
<1>8. ASSUME NEW c \in Callers, ReadLine(c) PROVE TailInv'
  BY <1>8, ReadKeepsReadings
<1>11. ASSUME NEW c \in Callers, Look(c) PROVE TailInv'
  BY <1>11, SameReadings DEF Look, TailInv
<1>9. CASE ClaudeStep
  <2>1. UNCHANGED callerVars
    BY <1>9 DEF ClaudeStep, BeginTurn, TakeMessage, Work, WriteInterim, ReturnTool,
       WriteToolResult, Speak, WriteReply, EndTurn, WriteMarker
  <2>2. \E l \in Line : log' = Append(log, l)
    <3>1. Len(turns) \in Nat /\ (phase # "idle" => Len(turns) > 0)
      BY DEF TypeInv, TypeOK, TurnBegun
    <3>2. CASE BeginTurn
      BY <3>1, <3>2, LinesAreLines DEF BeginTurn, TakeMessage
    <3>3. CASE Work
      BY <3>1, <3>3, LinesAreLines DEF Work, WriteInterim
    <3>4. CASE ReturnTool \/ Speak \/ EndTurn
      BY <3>1, <3>4, LinesAreLines DEF ReturnTool, WriteToolResult, Speak,
         WriteReply, EndTurn, WriteMarker
    <3> QED
      BY <1>9, <3>2, <3>3, <3>4 DEF ClaudeStep
  <2> QED
    BY <2>1, <2>2, AppendKeepsReadings
<1>10. CASE Exit \/ UNCHANGED vars
  <2>1. UNCHANGED <<callerVars, log>>
    BY <1>10 DEF Exit, Quit, vars
  <2> QED
    BY <2>1, SameReadings DEF callerVars, TailInv
<1> QED
  BY <1>1, <1>2, <1>3, <1>4, <1>5, <1>6, <1>7, <1>8, <1>9, <1>10, <1>11
     DEF Next, Caller, Step

\* The answer to a cursor is the one the transcript determines, whatever was
\* appended while it was read and whoever else was calling (session.go:259-300).
THEOREM AnswersCorrect == Spec => []AnswersFollowTranscript
<1>1. Spec => []TypeInv
  BY InitTypes, NextTypes, PTL DEF Spec
<1>2. TailInv => AnswersFollowTranscript
  BY DEF TailInv
<1> QED
  BY <1>1, <1>2, InitReadings, NextReadings, PTL DEF Spec

\* A cursor determines the line its wait ends on, and the text.
LEMMA ReadingUnique ==
    ASSUME TypeOK, NEW o \in Nat,
           NEW e1 \in Nat, NEW t1 \in Nat, IsReading(o, e1, t1),
           NEW e2 \in Nat, NEW t2 \in Nat, IsReading(o, e2, t2)
    PROVE  e1 = e2 /\ t1 = t2
<1>1. e1 = e2
  BY DEF IsReading, TypeOK
<1>2. t1 = t2
  <2>1. IsLastText(o, e1, t1) /\ IsLastText(o, e1, t2)
    BY <1>1 DEF IsReading
  <2>2. CASE \A i \in o + 1..e1 : ~CarriesText(log[i])
    BY <2>1, <2>2 DEF IsLastText
  <2>3. CASE \E i \in o + 1..e1 : CarriesText(log[i])
    <3>1. PICK i \in o + 1..e1 : /\ t1 = TextFromContent(log[i]) /\ CarriesText(log[i])
                                /\ \A j \in i + 1..e1 : ~CarriesText(log[j])
      BY <2>1, <2>3 DEF IsLastText
    <3>2. PICK k \in o + 1..e1 : /\ t2 = TextFromContent(log[k]) /\ CarriesText(log[k])
                                /\ \A j \in k + 1..e1 : ~CarriesText(log[j])
      BY <2>1, <2>3 DEF IsLastText
    <3>3. i = k
      BY <3>1, <3>2
    <3> QED
      BY <3>1, <3>2, <3>3
  <2> QED
    BY <2>2, <2>3
<1> QED
  BY <1>1, <1>2

\* Two polls of one cursor that are done give the same answer: an AwaitTurn cut
\* off by its deadline and made again, or made twice, is safe.
THEOREM PollingIsStable == Spec => []PollsAgree
<1>1. TypeOK /\ AnswersFollowTranscript => PollsAgree
  <2> SUFFICES ASSUME TypeOK, AnswersFollowTranscript,
                      NEW r1 \in results, NEW r2 \in results, r1.offset = r2.offset
               PROVE  r1.end = r2.end /\ r1.text = r2.text
    BY DEF PollsAgree
  <2>1. /\ r1.offset \in Nat /\ r1.end \in Nat /\ r1.text \in Nat
        /\ r2.end \in Nat /\ r2.text \in Nat
    BY DEF TypeOK, Result
  <2>2. IsReading(r1.offset, r1.end, r1.text) /\ IsReading(r1.offset, r2.end, r2.text)
    BY DEF AnswersFollowTranscript
  <2> QED
    BY <2>1, <2>2, ReadingUnique
<1> QED
  BY <1>1, TypeCorrect, AnswersCorrect, PTL
-----------------------------------------------------------------------------
(* The transcript is well written, hence answers are final.                *)

\* An assistant line is of the turn it was written for, opens none, and is
\* terminal by its stop reason and a text block.
LEMMA AssistantLines ==
    ASSUME NEW t \in Nat \ {0}, NEW s \in StopReasons, NEW B \in SUBSET BlockTypes
    PROVE  /\ Assistant(t, s, B).turn = t
           /\ ~OpensTurn(Assistant(t, s, B))
           /\ Terminal(Assistant(t, s, B)) <=>
                 s \notin {"", "tool_use", "pause_turn"} /\ "text" \in B
<1> DEFINE l == Assistant(t, s, B)
<1>1. l.turn = t /\ l.type = "assistant" /\ l.stop = s /\ l.blocks = B
  BY DEF Assistant
<1>2. ~OpensTurn(l)
  BY <1>1 DEF OpensTurn
<1>3. Terminal(l) <=> s \notin {"", "tool_use", "pause_turn"} /\ "text" \in B
  <2> HIDE DEF l
  <2> QED
    BY <1>1 DEF Terminal, NonTerminalStopReasons
<1> QED
  BY <1>1, <1>2, <1>3

\* What claude writes before it is done with a turn is not terminal.
LEMMA InterimIsNotTerminal ==
    ASSUME NEW t \in Nat \ {0}, NEW l \in InterimLines(t)
    PROVE  l.turn = t /\ ~Terminal(l) /\ ~OpensTurn(l)
<1>1. PICK s \in StopReasons, B \in SUBSET BlockTypes :
        l = Assistant(t, s, B) /\ (s \in {"", "tool_use", "pause_turn"} \/ "text" \notin B)
  BY DEF InterimLines, StopReasons, BlockTypes
<1> QED
  BY <1>1, AssistantLines

\* What the lines of a turn are: only its reply and its marker are terminal, and
\* what opens a turn or carries text is no marker.
LEMMA LinesOfTurn ==
    ASSUME NEW t \in Nat \ {0}, NEW l \in LinesOf(t)
    PROVE  /\ l \in Line /\ l.turn = t
           /\ Terminal(l) <=> l \in {Reply(t), Marker(t)}
           /\ OpensTurn(l) => l \notin {Reply(t), Marker(t)}
           /\ CarriesText(l) => l # Marker(t) /\ TextFromContent(l) = t
<1>1. l \in Line
  BY LinesAreLines DEF LinesOf
<1>2. \A k \in InterimLines(t) : k.turn = t /\ ~Terminal(k) /\ ~OpensTurn(k)
  BY InterimIsNotTerminal
<1>3. Reply(t).turn = t /\ Terminal(Reply(t)) /\ ~OpensTurn(Reply(t))
  BY AssistantLines DEF Reply, StopReasons, BlockTypes
<1>4. /\ Marker(t).turn = t /\ Terminal(Marker(t))
      /\ ~OpensTurn(Marker(t)) /\ ~CarriesText(Marker(t))
  BY DEF Marker, Terminal, OpensTurn, CarriesText
<1>5. /\ UserEcho(t).turn = t /\ ~Terminal(UserEcho(t))
      /\ ToolResult(t).turn = t /\ ~Terminal(ToolResult(t))
  BY DEF UserEcho, ToolResult, Terminal
<1>6. /\ l.turn = t
      /\ Terminal(l) <=> l \in {Reply(t), Marker(t)}
      /\ OpensTurn(l) => l \notin {Reply(t), Marker(t)}
  BY <1>2, <1>3, <1>4, <1>5 DEF LinesOf
<1>7. CarriesText(l) => l # Marker(t)
  BY <1>4
<1>8. CarriesText(l) => TextFromContent(l) = t
  BY <1>6 DEF CarriesText, TextFromContent
<1> QED
  BY <1>1, <1>6, <1>7, <1>8

\* Reply and marker are told apart from the lines written before them.
LEMMA LinesDiffer ==
    ASSUME NEW t \in Nat \ {0}
    PROVE  /\ Reply(t) # Marker(t)
           /\ UserEcho(t) \notin {Reply(t), Marker(t)}
           /\ ToolResult(t) \notin {Reply(t), Marker(t)}
           /\ \A l \in InterimLines(t) : l \notin {Reply(t), Marker(t)}
<1>1. UserEcho(t) \notin {Reply(t), Marker(t)} /\ ToolResult(t) \notin {Reply(t), Marker(t)}
  BY DEF UserEcho, ToolResult, Reply, Marker, Assistant
<1>2. Reply(t) # Marker(t)
  BY DEF Reply, Marker, Assistant
<1>3. Terminal(Reply(t)) /\ Terminal(Marker(t))
  BY LinesOfTurn DEF LinesOf
<1> QED
  BY <1>1, <1>2, <1>3, InterimIsNotTerminal

\* A line that may come next keeps the transcript well written.
LEMMA AppendWellWritten ==
    ASSUME TypeInv, WellWritten, NEW l, log' = Append(log, l),
           turns' \in Seq(Message), Len(turns) <= Len(turns'),
           l.turn = Len(turns'), Len(turns') > 0, l \in LinesOf(l.turn),
           \A i \in 1..Len(log) : MayFollow(log[i], l),
           \A i \in 1..Len(log) : log[i].turn = Len(turns') =>
               /\ log[i] = Reply(log[i].turn) => phase' \in {"replied", "idle"}
               /\ log[i] = Marker(log[i].turn) => phase' = "idle",
           l = Reply(l.turn) => phase' \in {"replied", "idle"},
           l = Marker(l.turn) => phase' = "idle"
    PROVE  WellWritten'
<1>1. /\ Len(log') = Len(log) + 1 /\ Len(log) \in Nat
      /\ log'[Len(log) + 1] = l
      /\ \A i \in 1..Len(log) : log'[i] = log[i]
      /\ Len(turns) \in Nat /\ Len(turns') \in Nat
  <2>1. l \in Line
    BY LinesOfTurn
  <2> QED
    BY <2>1 DEF TypeInv, TypeOK
<1>2. \A i \in 1..Len(log') : i \in 1..Len(log) \/ i = Len(log) + 1
  BY <1>1
<1>3. \A i \in 1..Len(log') : /\ log'[i].turn \in 1..Len(turns')
                              /\ log'[i] \in LinesOf(log'[i].turn)
  BY <1>1, <1>2 DEF WellWritten
<1>4. \A i, j \in 1..Len(log') : i < j => MayFollow(log'[i], log'[j])
  <2> SUFFICES ASSUME NEW i \in 1..Len(log'), NEW j \in 1..Len(log'), i < j
               PROVE  MayFollow(log'[i], log'[j])
    OBVIOUS
  <2>1. i \in 1..Len(log)
    BY <1>1
  <2>2. CASE j \in 1..Len(log)
    BY <1>1, <2>1, <2>2 DEF WellWritten
  <2>3. CASE j = Len(log) + 1
    BY <1>1, <2>1, <2>3
  <2> QED
    BY <1>2, <2>2, <2>3
<1>5. \A i \in 1..Len(log') : log'[i].turn = Len(turns') =>
          /\ log'[i] = Reply(log'[i].turn) => phase' \in {"replied", "idle"}
          /\ log'[i] = Marker(log'[i].turn) => phase' = "idle"
  BY <1>1, <1>2
<1> QED
  BY <1>3, <1>4, <1>5 DEF WellWritten

\* Initially it is: empty, or one turn running or replied.
LEMMA InitWellWritten == Init => WellWritten
<1> SUFFICES ASSUME Init PROVE WellWritten
  OBVIOUS
<1>1. CASE log = <<>>
  BY <1>1 DEF WellWritten
<1>2. CASE /\ phase = "busy" /\ Len(turns) = 1 /\ log = <<UserEcho(1)>>
  <2>1. UserEcho(1).turn = 1 /\ UserEcho(1) \in LinesOf(1)
    BY DEF UserEcho, LinesOf
  <2> QED
    BY <1>2, <2>1, LinesDiffer DEF WellWritten
<1>3. CASE /\ phase = "replied" /\ Len(turns) = 1 /\ log = <<UserEcho(1), Reply(1)>>
  <2>1. /\ UserEcho(1).turn = 1 /\ UserEcho(1) \in LinesOf(1)
        /\ Reply(1).turn = 1 /\ Reply(1) \in LinesOf(1)
    BY DEF UserEcho, Reply, Assistant, LinesOf
  <2>2. UserEcho(1) \notin {Reply(1), Marker(1)} /\ Reply(1) # Marker(1)
    BY LinesDiffer
  <2>3. MayFollow(UserEcho(1), Reply(1))
    BY <2>1, <2>2 DEF MayFollow
  <2>4. /\ Len(log) = 2 /\ log[1] = UserEcho(1) /\ log[2] = Reply(1)
        /\ \A i \in 1..2 : i = 1 \/ i = 2
    BY <1>3
  <2>5. \A i, j \in 1..2 : i < j => MayFollow(log[i], log[j])
    BY <2>3, <2>4
  <2>6. \A i \in 1..2 : /\ log[i].turn \in 1..Len(turns)
                        /\ log[i] \in LinesOf(log[i].turn)
    BY <1>3, <2>1, <2>4
  <2>7. \A i \in 1..2 : log[i] # Marker(log[i].turn)
    BY <2>1, <2>2, <2>4
  <2> QED
    BY <1>3, <2>4, <2>5, <2>6, <2>7 DEF WellWritten
<1>4. Len(<<<<0>>>>) = 1
  OBVIOUS
<1> QED
  BY <1>1, <1>2, <1>3, <1>4 DEF Init, InitClaude

\* Every step keeps it so.
LEMMA NextWellWritten == TypeInv /\ WellWritten /\ [Next]_vars => WellWritten'
<1> SUFFICES ASSUME TypeInv, WellWritten, [Next]_vars PROVE WellWritten'
  OBVIOUS
<1> DEFINE n == Len(turns)
<1>1. n \in Nat /\ (phase # "idle" => n \in Nat \ {0}) /\ turns \in Seq(Message)
  BY DEF TypeInv, TypeOK, TurnBegun
<1>2. \A i \in 1..Len(log) : log[i].turn \in 1..n
  BY DEF WellWritten
<1>3. ASSUME phase \in {"busy", "tool"}
      PROVE  \A i \in 1..Len(log) : log[i].turn = n =>
                 log[i] \notin {Reply(log[i].turn), Marker(log[i].turn)}
  BY <1>3 DEF WellWritten
<1>4. ASSUME phase \in {"busy", "tool"}, NEW l, l.turn = n, l \in LinesOf(n),
             l # Reply(n) \/ phase' = "replied", l # Marker(n) \/ phase' = "idle",
             log' = Append(log, l), UNCHANGED turns
      PROVE  WellWritten'
  <2>1. \A i \in 1..Len(log) : MayFollow(log[i], l)
    BY <1>1, <1>2, <1>3, <1>4 DEF MayFollow
  <2>2. \A i \in 1..Len(log) : log[i].turn = Len(turns') =>
            /\ log[i] = Reply(log[i].turn) => phase' \in {"replied", "idle"}
            /\ log[i] = Marker(log[i].turn) => phase' = "idle"
    BY <1>3, <1>4
  <2> QED
    BY <1>1, <1>4, <2>1, <2>2, AppendWellWritten
<1>5. CASE BeginTurn
  <2> DEFINE l == UserEcho(n + 1)
  <2>1. /\ turns' = Append(turns, Head(queue)) /\ log' = Append(log, l)
        /\ Head(queue) \in Message
    BY <1>5 DEF BeginTurn, TakeMessage, TypeInv, TypeOK
  <2>2. turns' \in Seq(Message) /\ Len(turns') = n + 1
    BY <1>1, <2>1
  <2>3. l.turn = n + 1 /\ l \in LinesOf(n + 1) /\ l \notin {Reply(n + 1), Marker(n + 1)}
    <3>1. n + 1 \in Nat \ {0}
      BY <1>1
    <3>2. l.turn = n + 1 /\ l \in LinesOf(n + 1)
      BY DEF UserEcho, LinesOf
    <3> QED
      BY <3>1, <3>2, LinesDiffer
  <2>4. \A i \in 1..Len(log) : MayFollow(log[i], l) /\ log[i].turn # n + 1
    BY <1>1, <1>2, <2>3 DEF MayFollow
  <2> HIDE DEF l
  <2> QED
    BY <1>1, <2>1, <2>2, <2>3, <2>4, AppendWellWritten
<1>6. CASE Work
  <2>1. PICK l \in InterimLines(n) : log' = Append(log, l)
    BY <1>6 DEF Work, WriteInterim
  <2>2. phase = "busy" /\ UNCHANGED turns
    BY <1>6 DEF Work, WriteInterim
  <2>3. l \in LinesOf(n) /\ l.turn = n /\ l \notin {Reply(n), Marker(n)}
    BY <1>1, <2>2, LinesDiffer, LinesOfTurn DEF LinesOf
  <2> QED
    BY <1>4, <2>1, <2>2, <2>3
<1>7. CASE ReturnTool
  <2>1. ToolResult(n).turn = n /\ ToolResult(n) \in LinesOf(n)
    BY DEF ToolResult, LinesOf
  <2> QED
    BY <1>1, <1>4, <1>7, <2>1, LinesDiffer DEF ReturnTool, WriteToolResult
<1>8. CASE Speak
  <2>1. Reply(n).turn = n /\ Reply(n) \in LinesOf(n)
    BY DEF Reply, Assistant, LinesOf
  <2> QED
    BY <1>1, <1>4, <1>8, <2>1, LinesDiffer DEF Speak, WriteReply
<1>9. CASE EndTurn
  <2>1. Marker(n).turn = n /\ Marker(n) \in LinesOf(n)
    BY DEF Marker, LinesOf
  <2>2. /\ phase \in {"busy", "replied"} /\ phase' = "idle" /\ UNCHANGED turns
        /\ log' = Append(log, Marker(n))
    BY <1>9 DEF EndTurn, WriteMarker
  <2>3. \A i \in 1..Len(log) : log[i].turn = n => log[i] # Marker(log[i].turn)
    BY <2>2 DEF WellWritten
  <2>4. \A i \in 1..Len(log) : MayFollow(log[i], Marker(n))
    BY <1>1, <1>2, <2>1, <2>3 DEF MayFollow
  <2> QED
    BY <1>1, <2>1, <2>2, <2>4, AppendWellWritten
<1>10. CASE UNCHANGED <<log, turns, phase>>
  BY <1>10 DEF WellWritten
<1>11. ASSUME NEW c \in Callers, Caller(c) PROVE UNCHANGED <<log, turns, phase>>
  BY <1>11 DEF Caller, Call, CallAwait, Acquire, Step, CheckExited, RecordOffset,
     TypePrompt, ReceivePrompt, PressEnter, ReceiveEnter, ResolvePath, Look,
     NoTranscript, AwaitResolve, ReadLine, TimeOut, Fail, claudeVars
<1>12. CASE Exit \/ UNCHANGED vars
  BY <1>10, <1>12 DEF Exit, Quit, vars, claudeVars
<1> QED
  BY <1>5, <1>6, <1>7, <1>8, <1>9, <1>10, <1>11, <1>12 DEF Next, ClaudeStep

\* Types, tails and transcript together are inductive.
LEMMA InductiveWritten == Spec => [](TypeInv /\ TailInv /\ WellWritten)
<1>1. Init => TypeInv /\ TailInv /\ WellWritten
  BY InitTypes, InitReadings, InitWellWritten
<1>2. TypeInv /\ TailInv /\ WellWritten /\ [Next]_vars => (TypeInv /\ TailInv /\ WellWritten)'
  BY NextTypes, NextReadings, NextWellWritten
<1> QED
  BY <1>1, <1>2, PTL DEF Spec

\* The line a wait ended on is the reply or the marker of its turn.
LEMMA EndsOnReplyOrMarker ==
    ASSUME TypeInv, TailInv, WellWritten, NEW r \in results
    PROVE  /\ r.offset \in Nat /\ r.end \in r.offset + 1..Len(log)
           /\ r.end \in 1..Len(log)
           /\ log[r.end] \in {Reply(log[r.end].turn), Marker(log[r.end].turn)}
           /\ \E u \in r.offset + 1..r.end : OpensTurn(log[u])
<1>1. IsReading(r.offset, r.end, r.text) /\ r.offset \in Nat
  BY DEF TailInv, AnswersFollowTranscript, TypeInv, TypeOK, Result
<1>2. r.end \in r.offset + 1..Len(log) /\ r.end \in 1..Len(log)
  BY <1>1 DEF IsReading
<1>3. log[r.end].turn \in Nat \ {0} /\ log[r.end] \in LinesOf(log[r.end].turn)
  BY <1>2 DEF WellWritten
<1>4. Terminal(log[r.end])
  BY <1>1 DEF IsReading, EndsAt
<1>5. log[r.end] \in {Reply(log[r.end].turn), Marker(log[r.end].turn)}
  BY <1>3, <1>4, LinesOfTurn
<1> QED
  BY <1>1, <1>2, <1>5 DEF IsReading, EndsAt

\* An answer is only returned once its turn is over, whatever overlaps
\* (jsonl.go:208-233).
THEOREM AnswersAreFinal == Spec => []AnswerIsFinal
<1>1. TypeInv /\ TailInv /\ WellWritten => AnswerIsFinal
  <2> SUFFICES ASSUME TypeInv, TailInv, WellWritten, NEW r \in results,
                      NEW i \in r.end + 1..Len(log), log[i].turn = log[r.end].turn
               PROVE  log[i] = Marker(log[i].turn)
    BY DEF AnswerIsFinal
  <2>1. /\ r.end \in 1..Len(log)
        /\ log[r.end] \in {Reply(log[r.end].turn), Marker(log[r.end].turn)}
    BY EndsOnReplyOrMarker
  <2>2. MayFollow(log[r.end], log[i])
    <3>1. i \in 1..Len(log) /\ r.end < i
      BY <2>1 DEF TypeInv, TypeOK
    <3> QED
      BY <2>1, <3>1 DEF WellWritten
  <2>3. log[r.end].turn \in Nat
    BY <2>1 DEF WellWritten
  <2> QED
    BY <2>1, <2>2, <2>3 DEF MayFollow
<1> QED
  BY <1>1, InductiveWritten, PTL

\* A turn that had replied before the cursor was taken never answers it,
\* whatever overlaps (session.go:274-277).
THEOREM StaleMarkersIgnored == Spec => []StaleMarkerIgnored
<1>1. TypeInv /\ TailInv /\ WellWritten => StaleMarkerIgnored
  <2> SUFFICES ASSUME TypeInv, TailInv, WellWritten, NEW r \in results,
                      NEW i \in 1..r.offset, log[i] = Reply(log[r.end].turn)
               PROVE  FALSE
    BY DEF StaleMarkerIgnored
  <2> DEFINE t == log[r.end].turn
  <2>1. /\ r.offset \in Nat /\ r.end \in r.offset + 1..Len(log) /\ r.end \in 1..Len(log)
        /\ \E u \in r.offset + 1..r.end : OpensTurn(log[u])
    BY EndsOnReplyOrMarker
  <2>2. PICK u \in r.offset + 1..r.end : OpensTurn(log[u])
    BY <2>1
  <2>3. /\ Len(log) \in Nat /\ i \in 1..Len(log) /\ u \in 1..Len(log)
        /\ i < u /\ (u = r.end \/ u < r.end)
    <3>1. Len(log) \in Nat
      BY DEF TypeInv, TypeOK
    <3> QED
      BY <2>1, <3>1
  <2>4. t \in Nat \ {0} /\ log[u].turn \in Nat \ {0} /\ log[u] \in LinesOf(log[u].turn)
    BY <2>1, <2>3 DEF WellWritten
  <2>5. log[i].turn = t /\ log[i] = Reply(log[i].turn)
    BY DEF Reply, Assistant
  <2>6. log[u] # Marker(log[u].turn)
    BY <2>2, <2>4, LinesOfTurn
  <2>7. t < log[u].turn
    BY <2>3, <2>4, <2>5, <2>6 DEF WellWritten, MayFollow
  <2>8. log[u].turn <= t
    <3>1. CASE u = r.end
      BY <2>4, <3>1
    <3>2. CASE u < r.end
      <4>1. MayFollow(log[u], log[r.end])
        BY <2>1, <2>3, <3>2 DEF WellWritten
      <4> QED
        BY <2>4, <4>1 DEF MayFollow
    <3> QED
      BY <2>3, <3>1, <3>2
  <2> QED
    BY <2>4, <2>7, <2>8
<1> QED
  BY <1>1, InductiveWritten, PTL

-----------------------------------------------------------------------------
(* One prompt at a time: an answer is that of its own turn.                *)

\* All callers share a Session, all they call is Prompt, nothing is cut off, and
\* no turn was running when the conversation was opened.
OneAtATime == /\ OneHandle /\ ~MayTimeOut
              /\ Openings \subseteq {"new", "replied"}
              /\ \A c \in Callers : Ops[c] \subseteq {"prompt"}

\* Claude has nothing to do: at most a marker is still to come.
Settled == phase \in {"idle", "replied"} /\ queue = <<>>

\* Nothing but markers was written since c took its cursor.
OnlyMarkers(c) == \A i \in offset[c] + 1..Len(log) : log[i] = Marker(log[i].turn)

\* Claude is at c's turn, or done with it: no other message came after c's, and
\* what was written since is of that turn but for markers.
AtOwnTurn(c) ==
    /\ Len(turns) > 0 /\ turns[Len(turns)] = <<prompt[c]>> /\ queue = <<>>
    /\ \A i \in offset[c] + 1..Len(log) :
          log[i] = Marker(log[i].turn) \/ log[i].turn = Len(turns)

\* c's prompt is the message claude will take up next.
IsNext(c) == phase \in {"idle", "replied"} /\ queue = <<<<prompt[c]>>>>

\* The steps between the first write and the return.
Sending == {"enter", "path", "tail"}

\* How far c's prompt has got, at each step of the call.
Progress(c) ==
    /\ pc[c] \in {"type", "enter"} => OnlyMarkers(c)
    /\ pc[c] = "enter" /\ alive => Settled /\ box = <<prompt[c]>>
    /\ pc[c] \in {"path", "tail"} =>
          /\ alive => box = <<>>
          /\ AtOwnTurn(c) \/ (OnlyMarkers(c) /\ (alive => IsNext(c)))

\* While nobody is sending or waiting for an answer, a living claude is settled.
Rests == alive /\ (\A c \in Callers : pc[c] \notin Sending) => Settled /\ box = <<>>

OnlyPrompts == \A c \in Callers : op[c] \in {"none", "prompt"}

OwnInv == /\ OnlyPrompts /\ Rests
          /\ \A c \in Callers : Progress(c)
          /\ AnswerIsOwn

\* The caller inside the Session is alone: the others are outside any call, or
\* wait for the mutex.
LEMMA Alone ==
    ASSUME OneAtATime, TypeInv, MutexInv, OnlyPrompts, NEW c \in Callers, Holds(c)
    PROVE  \A d \in Callers \ {c} : pc[d] \in {"idle", "lock"}
<1> SUFFICES ASSUME NEW d \in Callers \ {c}, pc[d] \notin {"idle", "lock"} PROVE FALSE
  OBVIOUS
<1>1. Holds(d)
  BY DEF TypeInv, TypeOK, PCs, Locked, Holds, MutexInv, OpInv, OnlyPrompts
<1> QED
  BY <1>1, MutexExcludes DEF MutualExclusion, OneAtATime, OneHandle

\* Who sends or waits for its answer is inside the Session.
LEMMA SendersHold ==
    ASSUME MutexInv, OnlyPrompts, NEW c \in Callers,
           pc[c] \in Locked \cup {"tail"}
    PROVE  Holds(c)
BY DEF MutexInv, OpInv, OnlyPrompts, Holds, Locked

\* A step of a caller that neither writes to claude nor starts or ends a wait.
LEMMA SameProgress ==
    ASSUME OwnInv, UNCHANGED <<claudeVars, results>>, OnlyPrompts',
           \A d \in Callers :
              /\ pc'[d] \in {"type", "enter"} => pc'[d] = pc[d]
              /\ pc'[d] \in {"path", "tail"} <=> pc[d] \in {"path", "tail"}
              /\ pc[d] = "enter" => pc'[d] = "enter"
              /\ pc'[d] \in {"type", "enter", "path", "tail"} =>
                    offset'[d] = offset[d] /\ prompt'[d] = prompt[d]
    PROVE  OwnInv'
<1>1. ASSUME NEW d \in Callers PROVE Progress(d)'
  <2>1. Progress(d)
    BY DEF OwnInv
  <2> QED
    BY <2>1 DEF Progress, OnlyMarkers, AtOwnTurn, IsNext, Settled, claudeVars
<1>2. Rests'
  BY DEF OwnInv, Rests, Sending, Settled, claudeVars
<1>3. AnswerIsOwn'
  BY DEF OwnInv, AnswerIsOwn, IsTurnOf, claudeVars
<1> QED
  BY <1>1, <1>2, <1>3 DEF OwnInv

\* Claude only appends: an answer stays that of its own turn.
LEMMA OwnAnswersStay ==
    ASSUME TypeInv, TailInv, AnswerIsOwn, UNCHANGED results, NEW l \in Line,
           log' = Append(log, l),
           turns' \in Seq(Message), Len(turns') >= Len(turns),
           \A t \in 1..Len(turns) : turns'[t] = turns[t]
    PROVE  AnswerIsOwn'
<1> SUFFICES ASSUME NEW r \in results
             PROVE  /\ IsTurnOf(log[r.end].turn, r.prompt)'
                    /\ r.text \in {NoText, log'[r.end].turn}
  BY DEF AnswerIsOwn
<1>1. r.end \in 1..Len(log)
  BY DEF TailInv, AnswersFollowTranscript, IsReading, TypeInv, TypeOK, Result
<1>2. log'[r.end] = log[r.end]
  BY <1>1 DEF TypeInv, TypeOK
<1>3. IsTurnOf(log[r.end].turn, r.prompt) /\ r.text \in {NoText, log[r.end].turn}
  BY DEF AnswerIsOwn
<1>4. log[r.end].turn \in 1..Len(turns) /\ log[r.end].turn \in 1..Len(turns')
  BY <1>3 DEF IsTurnOf, TypeInv, TypeOK
<1> QED
  BY <1>2, <1>3, <1>4 DEF IsTurnOf

\* The first write: the prompt is alone in the box of a living claude.
LEMMA TypeKeepsOwn ==
    ASSUME OneAtATime, TypeInv, MutexInv, OwnInv, NEW c \in Callers, TypePrompt(c)
    PROVE  OwnInv'
<1>1. pc[c] = "type" /\ \A d \in Callers \ {c} : pc[d] \in {"idle", "lock"}
  BY SendersHold, Alone DEF TypePrompt, ReceivePrompt, OwnInv, Locked
<1>2. CASE Fail(c)
  <2>1. ~alive
    BY <1>1, <1>2 DEF TypePrompt, ReceivePrompt, Fail, Leave, TypeInv, TypeOK
  <2>2. pc'[c] = "idle" /\ (\A d \in Callers \ {c} : pc'[d] = pc[d]) /\ op' = [op EXCEPT ![c] = "none"]
    BY <1>2 DEF Fail, Leave, TypeInv, TypeOK
  <2> QED
    BY <1>1, <1>2, <2>2, SameProgress DEF Fail, OwnInv, OnlyPrompts, TypeInv, TypeOK
<1>3. CASE ~Fail(c)
  <2>1. /\ box' = IF alive THEN Append(box, prompt[c]) ELSE box
        /\ pc' = [pc EXCEPT ![c] = "enter"]
        /\ UNCHANGED <<op, prompt, offset, results, queue, turns, phase, log, alive>>
    BY <1>3 DEF TypePrompt, ReceivePrompt
  <2>2. pc'[c] = "enter" /\ \A d \in Callers \ {c} : pc'[d] = pc[d]
    BY <2>1 DEF TypeInv, TypeOK
  <2>3. alive => Settled /\ box = <<>>
    BY <1>1 DEF OwnInv, Rests, Sending
  <2>4. alive => box' = <<prompt[c]>>
    BY <2>1, <2>3
  <2>5. Progress(c)'
    BY <1>1, <2>1, <2>2, <2>3, <2>4 DEF OwnInv, Progress, OnlyMarkers, Settled
  <2>6. \A d \in Callers \ {c} : Progress(d)'
    BY <1>1, <2>2 DEF Progress
  <2>7. Rests'
    BY <2>2 DEF Rests, Sending
  <2>8. AnswerIsOwn' /\ OnlyPrompts'
    BY <2>1 DEF OwnInv, AnswerIsOwn, IsTurnOf, OnlyPrompts
  <2> QED
    BY <2>5, <2>6, <2>7, <2>8 DEF OwnInv
<1> QED
  BY <1>2, <1>3

\* The second write: the prompt is the one message a living claude has to take.
LEMMA EnterKeepsOwn ==
    ASSUME OneAtATime, TypeInv, MutexInv, OwnInv, NEW c \in Callers, PressEnter(c)
    PROVE  OwnInv'
<1>1. pc[c] = "enter" /\ \A d \in Callers \ {c} : pc[d] \in {"idle", "lock"}
  BY SendersHold, Alone DEF PressEnter, ReceiveEnter, OwnInv, Locked
<1>2. CASE ~Fail(c)
  <2>1. /\ IF alive /\ box # <<>>
           THEN queue' = Append(queue, box) /\ box' = <<>>
           ELSE UNCHANGED <<queue, box>>
        /\ pc' = [pc EXCEPT ![c] = "path"]
        /\ UNCHANGED <<op, prompt, offset, results, turns, phase, log, alive>>
    BY <1>2 DEF PressEnter, ReceiveEnter
  <2>2. pc'[c] = "path" /\ \A d \in Callers \ {c} : pc'[d] = pc[d]
    BY <2>1 DEF TypeInv, TypeOK
  <2>3. OnlyMarkers(c) /\ (alive => Settled /\ box = <<prompt[c]>>)
    BY <1>1 DEF OwnInv, Progress
  <2>4. alive => box' = <<>> /\ queue' = <<<<prompt[c]>>>>
    BY <2>1, <2>3 DEF Settled
  <2>5. Progress(c)'
    BY <2>1, <2>2, <2>3, <2>4 DEF Progress, OnlyMarkers, IsNext, Settled
  <2>6. \A d \in Callers \ {c} : Progress(d)'
    BY <1>1, <2>2 DEF Progress
  <2>7. Rests'
    BY <2>2 DEF Rests, Sending
  <2>8. AnswerIsOwn' /\ OnlyPrompts'
    BY <2>1 DEF OwnInv, AnswerIsOwn, IsTurnOf, OnlyPrompts
  <2> QED
    BY <2>5, <2>6, <2>7, <2>8 DEF OwnInv
<1>3. CASE Fail(c)
  <2>1. pc'[c] = "idle" /\ (\A d \in Callers \ {c} : pc'[d] = pc[d])
        /\ op' = [op EXCEPT ![c] = "none"]
        /\ UNCHANGED <<prompt, offset, results, claudeVars>>
    BY <1>3 DEF Fail, Leave, TypeInv, TypeOK
  <2>2. ~alive
    BY <1>1, <2>1 DEF PressEnter, ReceiveEnter, TypeInv, TypeOK
  <2>3. \A d \in Callers : Progress(d)'
    BY <1>1, <2>1 DEF Progress
  <2>4. Rests'
    BY <2>1, <2>2 DEF Rests, claudeVars
  <2>5. AnswerIsOwn' /\ OnlyPrompts'
    BY <2>1 DEF OwnInv, AnswerIsOwn, IsTurnOf, OnlyPrompts, claudeVars, TypeInv, TypeOK
  <2> QED
    BY <2>3, <2>4, <2>5 DEF OwnInv
<1> QED
  BY <1>2, <1>3

\* The wait ends: on the reply or the marker of the caller's own turn, after
\* which claude is settled.
LEMMA EndKeepsOwn ==
    ASSUME OneAtATime, TypeInv, MutexInv, TailInv, WellWritten, OwnInv,
           NEW c \in Callers, ReadLine(c), TailInv', pc' # pc
    PROVE  OwnInv'
<1> DEFINE l == log[pos[c] + 1]
           e == pos[c] + 1
           n == Len(turns)
<1>1. /\ pc[c] = "tail" /\ pos[c] < Len(log)
      /\ results' = results \cup {Answer(c, l)} /\ Leave(c)
      /\ UNCHANGED <<op, prompt, offset, claudeVars>>
  BY DEF ReadLine
<1>2. \A d \in Callers \ {c} : pc[d] \in {"idle", "lock"}
  BY <1>1, SendersHold, Alone DEF OwnInv
<1>3. pc'[c] = "idle" /\ \A d \in Callers \ {c} : pc'[d] = pc[d]
  BY <1>1 DEF Leave, TypeInv, TypeOK
<1>4. IsReading(offset[c], e, NextText(l, finalText[c]))
  <2>1. Answer(c, l) \in results' /\ log' = log
    BY <1>1 DEF claudeVars
  <2>2. \A r \in results' : IsReading(r.offset, r.end, r.text)'
    BY DEF TailInv, AnswersFollowTranscript
  <2>3. IsReading(Answer(c, l).offset, Answer(c, l).end, Answer(c, l).text)
    BY <2>1, <2>2 DEF IsReading, EndsAt, IsLastText
  <2> QED
    BY <2>3 DEF Answer
<1>5. /\ offset[c] \in Nat /\ e \in offset[c] + 1..Len(log) /\ e \in 1..Len(log)
      /\ n \in Nat /\ Len(log) \in Nat
      /\ \A i \in offset[c] + 1..e : i \in offset[c] + 1..Len(log) /\ i \in 1..Len(log)
  BY <1>4 DEF IsReading, TypeInv, TypeOK
<1>6. PICK u \in offset[c] + 1..e : OpensTurn(log[u])
  BY <1>4 DEF IsReading, EndsAt
<1>7. ASSUME NEW i \in 1..Len(log)
      PROVE  log[i].turn \in Nat \ {0} /\ log[i].turn <= n /\ log[i] \in LinesOf(log[i].turn)
  BY <1>5, <1>7 DEF WellWritten
<1>8. AtOwnTurn(c)
  <2>1. log[u] # Marker(log[u].turn)
    BY <1>5, <1>6, <1>7, LinesOfTurn
  <2>2. ~OnlyMarkers(c)
    BY <1>5, <2>1 DEF OnlyMarkers
  <2> QED
    BY <1>1, <2>2 DEF OwnInv, Progress
<1>9. l.turn = n
  <2>1. log[u].turn = n
    BY <1>5, <1>6, <1>7, <1>8, LinesOfTurn DEF AtOwnTurn
  <2>2. CASE u = e
    BY <2>1, <2>2
  <2>3. CASE u # e
    <3>1. MayFollow(log[u], log[e])
      BY <1>5, <2>3 DEF WellWritten
    <3> QED
      BY <1>5, <1>7, <2>1, <3>1 DEF MayFollow
  <2> QED
    BY <2>2, <2>3
<1>10. phase \in {"idle", "replied"}
  <2>1. Terminal(l)
    BY <1>4 DEF IsReading, EndsAt
  <2>2. l \in {Reply(n), Marker(n)}
    BY <1>5, <1>7, <1>9, <2>1, LinesOfTurn
  <2> QED
    BY <1>5, <1>9, <2>2 DEF WellWritten
<1>11. NextText(l, finalText[c]) \in {NoText, n}
  <2>1. IsLastText(offset[c], e, NextText(l, finalText[c]))
    BY <1>4 DEF IsReading
  <2>2. ASSUME NEW i \in offset[c] + 1..e, CarriesText(log[i])
        PROVE  TextFromContent(log[i]) = n
    <3>1. log[i] # Marker(log[i].turn) /\ TextFromContent(log[i]) = log[i].turn
      BY <1>5, <1>7, <2>2, LinesOfTurn
    <3> QED
      BY <1>5, <1>8, <3>1 DEF AtOwnTurn
  <2> QED
    BY <2>1, <2>2 DEF IsLastText
<1>12. AnswerIsOwn'
  <2>1. IsTurnOf(n, prompt[c])
    <3>1. Len(turns[n]) = 1 /\ turns[n][1] = prompt[c] /\ n \in 1..n
      BY <1>5, <1>8 DEF AtOwnTurn
    <3> QED
      BY <3>1 DEF IsTurnOf
  <2>2. /\ Answer(c, l).end = e /\ Answer(c, l).prompt = prompt[c]
        /\ Answer(c, l).text = NextText(l, finalText[c])
    BY DEF Answer
  <2>3. ASSUME NEW r \in results'
        PROVE  IsTurnOf(log[r.end].turn, r.prompt) /\ r.text \in {NoText, log[r.end].turn}
    <3>1. CASE r \in results
      BY <3>1 DEF OwnInv, AnswerIsOwn
    <3>2. CASE r = Answer(c, l)
      <4> HIDE DEF n
      <4> QED
        BY <1>9, <1>11, <2>1, <2>2, <3>2
    <3> QED
      BY <1>1, <3>1, <3>2
  <2> QED
    BY <1>1, <2>3 DEF AnswerIsOwn, IsTurnOf, claudeVars
<1>13. \A d \in Callers : Progress(d)'
  BY <1>2, <1>3 DEF Progress
<1>14. Rests'
  BY <1>1, <1>8, <1>10 DEF OwnInv, Progress, Rests, Settled, AtOwnTurn, claudeVars
<1>15. OnlyPrompts'
  BY <1>1 DEF OwnInv, OnlyPrompts
<1> QED
  BY <1>12, <1>13, <1>14, <1>15 DEF OwnInv

\* A line after the end is a line after c's cursor.
LEMMA OneMoreLine ==
    ASSUME TypeInv, TailInv, NEW l \in Line, log' = Append(log, l), NEW c \in Callers,
           NEW i \in offset[c] + 1..Len(log')
    PROVE  \/ i \in offset[c] + 1..Len(log) /\ log'[i] = log[i]
           \/ log'[i] = l
<1>1. offset[c] \in Nat /\ Len(log') = Len(log) + 1 /\ log'[Len(log) + 1] = l
      /\ \A k \in 1..Len(log) : log'[k] = log[k]
  BY DEF TypeInv, TypeOK
<1>2. i = Len(log) + 1 \/ (i \in offset[c] + 1..Len(log) /\ i \in 1..Len(log))
  BY <1>1 DEF TypeInv, TypeOK
<1> QED
  BY <1>1, <1>2

\* Claude takes up the one message there is.
LEMMA BeginKeepsOwn ==
    ASSUME OneAtATime, TypeInv, MutexInv, TailInv, OwnInv, BeginTurn
    PROVE  OwnInv'
<1> DEFINE n == Len(turns)
           l == UserEcho(n + 1)
<1>1. /\ alive /\ phase = "idle" /\ queue # <<>>
      /\ turns' = Append(turns, Head(queue)) /\ queue' = Tail(queue)
      /\ log' = Append(log, l) /\ UNCHANGED <<box, alive, callerVars, handleVars>>
  BY DEF BeginTurn, TakeMessage
<1>2. PICK c \in Callers : pc[c] \in {"path", "tail"} /\ OnlyMarkers(c) /\ IsNext(c) /\ box = <<>>
  <2>1. PICK c \in Callers : pc[c] \in Sending
    BY <1>1 DEF OwnInv, Rests, Settled
  <2>2. pc[c] # "enter"
    BY <1>1 DEF OwnInv, Progress, Settled
  <2> QED
    BY <1>1, <2>1, <2>2 DEF OwnInv, Progress, Sending, AtOwnTurn
<1>3. \A d \in Callers \ {c} : pc[d] \in {"idle", "lock"}
  BY <1>2, SendersHold, Alone DEF OwnInv, Locked
<1>4. n \in Nat /\ turns \in Seq(Message) /\ <<prompt[c]>> \in Message
  BY DEF TypeInv, TypeOK, Message
<1>5. turns' = Append(turns, <<prompt[c]>>) /\ queue' = <<>>
  BY <1>1, <1>2 DEF IsNext
<1>6. /\ Len(turns') = n + 1 /\ turns'[n + 1] = <<prompt[c]>> /\ turns' \in Seq(Message)
      /\ \A t \in 1..n : turns'[t] = turns[t]
  BY <1>4, <1>5
<1>7. l \in Line /\ l.turn = n + 1
  <2>1. l.turn = n + 1
    BY DEF UserEcho
  <2>2. n + 1 \in Nat \ {0}
    BY <1>4
  <2> QED
    BY <2>1, <2>2, LinesAreLines
<1> HIDE DEF l
<1>8. AtOwnTurn(c)'
  <2>1. \A i \in offset[c] + 1..Len(log') : log'[i] = Marker(log'[i].turn) \/ log'[i].turn = n + 1
    <3>1. SUFFICES ASSUME NEW i \in offset[c] + 1..Len(log')
                   PROVE  log'[i] = Marker(log'[i].turn) \/ log'[i].turn = n + 1
      OBVIOUS
    <3>2. CASE i \in offset[c] + 1..Len(log) /\ log'[i] = log[i]
      BY <1>2, <3>2 DEF OnlyMarkers
    <3>3. CASE log'[i] = l
      BY <1>7, <3>3
    <3>4. log' = Append(log, l) /\ l \in Line
      BY <1>1, <1>7
    <3> QED
      BY <3>2, <3>3, <3>4, OneMoreLine
  <2>2. offset' = offset /\ prompt' = prompt
    BY <1>1 DEF callerVars
  <2> QED
    BY <1>4, <1>5, <1>6, <2>1, <2>2 DEF AtOwnTurn
<1>9. Progress(c)'
  BY <1>1, <1>2, <1>8 DEF Progress, callerVars
<1>10. \A d \in Callers \ {c} : Progress(d)'
  BY <1>1, <1>3 DEF Progress, callerVars
<1>11. Rests' /\ OnlyPrompts'
  BY <1>1, <1>2 DEF OwnInv, Rests, Sending, OnlyPrompts, callerVars
<1>12. AnswerIsOwn'
  BY <1>1, <1>4, <1>6, <1>7, OwnAnswersStay DEF OwnInv, callerVars
<1> QED
  BY <1>9, <1>10, <1>11, <1>12 DEF OwnInv

\* Claude writes a line of the turn it is at: somebody waits for that turn.
LEMMA WriteKeepsOwn ==
    ASSUME OneAtATime, TypeInv, MutexInv, TailInv, OwnInv,
           NEW l \in Line, l.turn = Len(turns), log' = Append(log, l),
           alive, phase \in {"busy", "tool"},
           UNCHANGED <<box, queue, turns, alive, callerVars, handleVars>>
    PROVE  OwnInv'
<1>1. PICK c \in Callers : pc[c] \in {"path", "tail"} /\ AtOwnTurn(c) /\ box = <<>>
  <2>1. PICK c \in Callers : pc[c] \in Sending
    BY DEF OwnInv, Rests, Settled
  <2>2. pc[c] # "enter"
    BY DEF OwnInv, Progress, Settled
  <2> QED
    BY <2>1, <2>2 DEF OwnInv, Progress, Sending, IsNext
<1>2. \A d \in Callers \ {c} : pc[d] \in {"idle", "lock"}
  BY <1>1, SendersHold, Alone DEF OwnInv, Locked
<1>3. AtOwnTurn(c)'
  <2>1. \A i \in offset[c] + 1..Len(log') :
            log'[i] = Marker(log'[i].turn) \/ log'[i].turn = Len(turns)
    BY <1>1, OneMoreLine DEF AtOwnTurn
  <2>2. offset' = offset /\ prompt' = prompt
    BY DEF callerVars
  <2> QED
    BY <1>1, <2>1, <2>2 DEF AtOwnTurn
<1>4. \A d \in Callers : Progress(d)'
  BY <1>1, <1>2, <1>3 DEF Progress, callerVars
<1>5. Rests' /\ OnlyPrompts'
  BY <1>1 DEF OwnInv, Rests, Sending, OnlyPrompts, callerVars
<1>6. AnswerIsOwn'
  BY OwnAnswersStay DEF OwnInv, callerVars, TypeInv, TypeOK
<1> QED
  BY <1>4, <1>5, <1>6 DEF OwnInv

\* Claude writes the marker of a turn that has replied.
LEMMA MarkKeepsOwn ==
    ASSUME OneAtATime, TypeInv, MutexInv, TailInv, OwnInv,
           Marker(Len(turns)) \in Line, log' = Append(log, Marker(Len(turns))),
           phase' = "idle", phase = "replied",
           UNCHANGED <<box, queue, turns, alive, callerVars, handleVars>>
    PROVE  OwnInv'
<1> DEFINE l == Marker(Len(turns))
<1>1. l.turn = Len(turns) /\ l = Marker(l.turn)
  BY DEF Marker
<1> HIDE DEF l
<1>2. ASSUME NEW d \in Callers PROVE Progress(d)'
  <2>1. OnlyMarkers(d) => OnlyMarkers(d)'
    <3> SUFFICES ASSUME OnlyMarkers(d), NEW i \in offset[d] + 1..Len(log')
                 PROVE  log'[i] = Marker(log'[i].turn)
      BY DEF OnlyMarkers, callerVars
    <3>1. (i \in offset[d] + 1..Len(log) /\ log'[i] = log[i]) \/ log'[i] = l
      BY OneMoreLine DEF l
    <3> QED
      BY <1>1, <3>1 DEF OnlyMarkers
  <2>2. AtOwnTurn(d) => AtOwnTurn(d)'
    <3>1. ASSUME AtOwnTurn(d), NEW i \in offset[d] + 1..Len(log')
          PROVE  log'[i] = Marker(log'[i].turn) \/ log'[i].turn = Len(turns)
      <4>1. (i \in offset[d] + 1..Len(log) /\ log'[i] = log[i]) \/ log'[i] = l
        BY OneMoreLine DEF l
      <4> QED
        BY <1>1, <3>1, <4>1 DEF AtOwnTurn
    <3>2. offset' = offset /\ prompt' = prompt
      BY DEF callerVars
    <3> QED
      BY <3>1, <3>2 DEF AtOwnTurn
  <2>3. Progress(d)
    BY DEF OwnInv
  <2> QED
    BY <2>1, <2>2, <2>3 DEF Progress, Settled, IsNext, callerVars
<1>3. Rests' /\ OnlyPrompts'
  BY DEF OwnInv, Rests, Settled, OnlyPrompts, callerVars
<1>4. AnswerIsOwn'
  BY OwnAnswersStay DEF OwnInv, callerVars, TypeInv, TypeOK
<1> QED
  BY <1>2, <1>3, <1>4 DEF OwnInv

\* Initially nobody calls and claude is settled.
LEMMA InitOwn == OneAtATime /\ Init => OwnInv
<1> SUFFICES ASSUME OneAtATime, Init PROVE OwnInv
  OBVIOUS
<1>1. phase \in {"idle", "replied"} /\ queue = <<>> /\ box = <<>>
  BY DEF Init, InitClaude, OneAtATime
<1>2. \A c \in Callers : pc[c] = "idle" /\ op[c] = "none"
  BY DEF Init, InitCallers
<1>3. results = {}
  BY DEF Init, InitCallers
<1> QED
  BY <1>1, <1>2, <1>3 DEF OwnInv, OnlyPrompts, Rests, Settled, Progress, AnswerIsOwn

\* Every step keeps answers and turns together.
LEMMA NextOwn ==
    ASSUME OneAtATime, TypeInv, MutexInv, TailInv, WellWritten, OwnInv,
           [Next]_vars, TailInv'
    PROVE  OwnInv'
<1> USE DEF callerVars, handleVars
<1>1. ASSUME NEW c \in Callers, NEW o \in Ops[c], Call(c, o) PROVE OwnInv'
  <2>1. o = "prompt"
    BY DEF OneAtATime
  <2> QED
    BY <1>1, <2>1, SameProgress DEF Call, OwnInv, OnlyPrompts, TypeInv, TypeOK
<1>2. ASSUME NEW c \in Callers, \/ CallAwait(c) \/ NoTranscript(c)
                                \/ AwaitResolve(c) \/ TimeOut(c)
      PROVE  OwnInv'
  BY <1>2 DEF CallAwait, NoTranscript, AwaitResolve, TimeOut, OneAtATime, OwnInv,
     OnlyPrompts, MutexInv, OpInv
<1>3. ASSUME NEW c \in Callers, Acquire(c) \/ Look(c) PROVE OwnInv'
  BY <1>3, SameProgress DEF Acquire, Look, OwnInv, OnlyPrompts, TypeInv, TypeOK
<1>4. ASSUME NEW c \in Callers, CheckExited(c) PROVE OwnInv'
  BY <1>4, SameProgress DEF CheckExited, Fail, Leave, OwnInv, OnlyPrompts, TypeInv, TypeOK
<1>5. ASSUME NEW c \in Callers, RecordOffset(c) PROVE OwnInv'
  <2>1. /\ pc[c] = "offset" /\ pc'[c] = "type" /\ offset'[c] = Len(log)
        /\ \A d \in Callers \ {c} : pc'[d] = pc[d] /\ offset'[d] = offset[d]
        /\ UNCHANGED <<op, prompt, results, claudeVars>>
        /\ Len(log) \in Nat
    BY <1>5 DEF RecordOffset, TypeInv, TypeOK
  <2>2. \A i \in Len(log) + 1..Len(log) : FALSE
    BY <2>1
  <2>3. Progress(c)'
    BY <2>1, <2>2 DEF Progress, OnlyMarkers, claudeVars
  <2>4. ASSUME NEW d \in Callers \ {c} PROVE Progress(d)'
    <3>1. Progress(d)
      BY DEF OwnInv
    <3> QED
      BY <2>1, <3>1 DEF Progress, OnlyMarkers, AtOwnTurn, IsNext, Settled, claudeVars
  <2>5. Rests' /\ OnlyPrompts'
    BY <2>1 DEF OwnInv, Rests, Sending, Settled, OnlyPrompts, claudeVars
  <2>6. AnswerIsOwn'
    BY <2>1 DEF OwnInv, AnswerIsOwn, IsTurnOf, claudeVars
  <2> QED
    BY <2>3, <2>4, <2>5, <2>6 DEF OwnInv
<1>6. ASSUME NEW c \in Callers, TypePrompt(c) PROVE OwnInv'
  BY <1>6, TypeKeepsOwn
<1>7. ASSUME NEW c \in Callers, PressEnter(c) PROVE OwnInv'
  BY <1>7, EnterKeepsOwn
<1>8. ASSUME NEW c \in Callers, ResolvePath(c) PROVE OwnInv'
  <2>1. op[c] = "prompt"
    BY <1>8 DEF ResolvePath, OwnInv, OnlyPrompts
  <2>2. /\ pc' = [pc EXCEPT ![c] = "tail"] /\ pc[c] = "path"
        /\ UNCHANGED <<op, prompt, offset, results, claudeVars>>
    BY <1>8, <2>1 DEF ResolvePath, BeginTail
  <2> QED
    BY <2>2, SameProgress DEF OwnInv, OnlyPrompts, TypeInv, TypeOK
<1>9. ASSUME NEW c \in Callers, ReadLine(c) PROVE OwnInv'
  <2>1. CASE pc' # pc
    BY <1>9, <2>1, EndKeepsOwn
  <2>2. CASE UNCHANGED pc
    <3>1. pc[c] = "tail" /\ UNCHANGED <<op, prompt, offset, claudeVars>>
      BY <1>9 DEF ReadLine
    <3>2. UNCHANGED results
      BY <1>9, <2>2, <3>1 DEF ReadLine, Leave, TypeInv, TypeOK
    <3> QED
      BY <2>2, <3>1, <3>2, SameProgress DEF OwnInv, OnlyPrompts
  <2> QED
    BY <2>1, <2>2
<1>10. CASE BeginTurn
  BY <1>10, BeginKeepsOwn
<1>11. CASE Work
  <2>1. PICK l \in InterimLines(Len(turns)) : log' = Append(log, l)
    BY <1>11 DEF Work, WriteInterim
  <2>2. /\ phase = "busy" /\ alive
        /\ UNCHANGED <<box, queue, turns, alive, callerVars, handleVars>>
    BY <1>11 DEF Work, WriteInterim
  <2>3. l \in Line /\ l.turn = Len(turns)
    BY <2>2, LinesAreLines, InterimIsNotTerminal DEF TypeInv, TypeOK, TurnBegun
  <2> QED
    BY <2>1, <2>2, <2>3, WriteKeepsOwn
<1>12. CASE ReturnTool \/ Speak
  <2>1. PICK l \in {ToolResult(Len(turns)), Reply(Len(turns))} : log' = Append(log, l)
    BY <1>12 DEF ReturnTool, WriteToolResult, Speak, WriteReply
  <2>2. /\ phase \in {"busy", "tool"} /\ alive
        /\ UNCHANGED <<box, queue, turns, alive, callerVars, handleVars>>
    BY <1>12 DEF ReturnTool, WriteToolResult, Speak, WriteReply
  <2>3. l \in Line /\ l.turn = Len(turns)
    <3>1. Len(turns) \in Nat \ {0}
      BY <2>2 DEF TypeInv, TypeOK, TurnBegun
    <3>2. ToolResult(Len(turns)).turn = Len(turns) /\ Reply(Len(turns)).turn = Len(turns)
      BY DEF ToolResult, Reply, Assistant
    <3> QED
      BY <3>1, <3>2, LinesAreLines
  <2> QED
    BY <2>1, <2>2, <2>3, WriteKeepsOwn
<1>13. CASE EndTurn
  <2>1. /\ phase \in {"busy", "replied"} /\ phase' = "idle" /\ alive
        /\ log' = Append(log, Marker(Len(turns)))
        /\ UNCHANGED <<box, queue, turns, alive, callerVars, handleVars>>
    BY <1>13 DEF EndTurn, WriteMarker
  <2>2. Marker(Len(turns)) \in Line /\ Marker(Len(turns)).turn = Len(turns)
    <3>1. Len(turns) \in Nat \ {0}
      BY <2>1 DEF TypeInv, TypeOK, TurnBegun
    <3> QED
      BY <3>1, LinesAreLines DEF Marker
  <2>3. CASE phase = "busy"
    BY <2>1, <2>2, <2>3, WriteKeepsOwn
  <2>4. CASE phase = "replied"
    BY <2>1, <2>2, <2>4, MarkKeepsOwn
  <2> QED
    BY <2>1, <2>3, <2>4
<1>14. CASE Exit
  <2>1. /\ alive' = FALSE
        /\ UNCHANGED <<callerVars, handleVars, box, queue, turns, phase, log>>
    BY <1>14 DEF Exit, Quit
  <2>2. ASSUME NEW d \in Callers PROVE Progress(d)'
    <3>1. Progress(d)
      BY DEF OwnInv
    <3> QED
      BY <2>1, <3>1 DEF Progress, OnlyMarkers, AtOwnTurn
  <2> QED
    BY <2>1, <2>2 DEF OwnInv, Rests, OnlyPrompts, AnswerIsOwn, IsTurnOf
<1>15. CASE UNCHANGED vars
  BY <1>15, SameProgress DEF vars, OwnInv, OnlyPrompts
<1> QED
  BY <1>1, <1>2, <1>3, <1>4, <1>5, <1>6, <1>7, <1>8, <1>9, <1>10, <1>11, <1>12,
     <1>13, <1>14, <1>15 DEF Next, Caller, Step, ClaudeStep

\* All that the proof of OwnInv needs is inductive with it.
LEMMA InductiveOwn ==
    ASSUME OneAtATime
    PROVE  Spec => [](TypeInv /\ MutexInv /\ TailInv /\ WellWritten /\ OwnInv)
<1> DEFINE I == TypeInv /\ MutexInv /\ TailInv /\ WellWritten /\ OwnInv
<1>1. Init => I
  BY InitTypes, InitMutex, InitReadings, InitWellWritten, InitOwn
<1>2. I /\ [Next]_vars => I'
  BY NextTypes, NextMutex, NextReadings, NextWellWritten, NextOwn
<1> QED
  BY <1>1, <1>2, PTL DEF Spec

\* With one Session, prompts alone and no deadline, every answer is that of its
\* own turn, and the text is that turn's or none, even if claude exits at any
\* point (session.go:88-128, 274-300).
THEOREM AnswersAreOwn ==
    ASSUME OneAtATime
    PROVE  Spec => []AnswerIsOwn
<1>1. OwnInv => AnswerIsOwn
  BY DEF OwnInv
<1> QED
  BY <1>1, InductiveOwn, PTL

-----------------------------------------------------------------------------
(* Step simulation of Dialogue.                                            *)

\* The answer to prompt p has been given.
IsAnswered(p) == \E r \in results : r.prompt = p

\* Prompts are told apart by their numbers: those of calls under way differ, and
\* one that has not been sent is neither in the history nor answered.
Numbered ==
    /\ asked <= MaxPrompts
    /\ \A c \in Callers : prompt[c] <= asked /\ (pc[c] # "idle" => prompt[c] > 0)
    /\ \A c, d \in Callers : c # d /\ pc[c] # "idle" /\ pc[d] # "idle" => prompt[c] # prompt[d]
    /\ \A i \in 1..Len(History) : History[i] \in 0..asked
    /\ \A r \in results : r.prompt \in 1..asked
    /\ \A c \in Callers : pc[c] \in BeforeEnter =>
          \A i \in 1..Len(History) : History[i] # prompt[c]
    /\ \A c \in Callers : pc[c] # "idle" => ~IsAnswered(prompt[c])

\* Of what claude received, only the prompt of who waits for it is unanswered.
AllAnswered ==
    alive => \A i \in 1..Len(History) :
        \/ History[i] = 0 \/ IsAnswered(History[i])
        \/ \E c \in Callers : pc[c] \in {"path", "tail"} /\ prompt[c] = History[i]

DialogueInv == Numbered /\ AllAnswered

\* The first prompts of a sequence of messages, each of one prompt.
LEMMA HeadsOfMessages ==
    ASSUME NEW M \in Seq(Message), \A i \in 1..Len(M) : Len(M[i]) = 1
    PROVE  /\ Heads(M) \in Seq(Nat) /\ Len(Heads(M)) = Len(M)
           /\ \A i \in 1..Len(M) : Heads(M)[i] = M[i][1]
<1>1. \A i \in 1..Len(M) : Head(M[i]) \in Nat /\ Head(M[i]) = M[i][1]
  BY DEF Message
<1>2. Heads(M) = [i \in 1..Len(M) |-> Head(M[i])] /\ Len(M) \in Nat
  BY DEF Heads
<1>3. Heads(M) \in Seq(Nat) /\ Len(Heads(M)) = Len(M)
  BY <1>1, <1>2, IsASeq
<1> QED
  BY <1>1, <1>2, <1>3

\* What claude has received: the turns begun, then the messages queued.
LEMMA HistoryParts ==
    ASSUME NEW T \in Seq(Message), NEW Q \in Seq(Message),
           \A i \in 1..Len(T) : Len(T[i]) = 1, \A i \in 1..Len(Q) : Len(Q[i]) = 1
    PROVE  /\ T \o Q \in Seq(Message)
           /\ \A i \in 1..Len(T \o Q) : Len((T \o Q)[i]) = 1
           /\ Len(T \o Q) = Len(T) + Len(Q)
           /\ Heads(T \o Q) \in Seq(Nat) /\ Len(Heads(T \o Q)) = Len(T) + Len(Q)
           /\ \A i \in 1..Len(T) : Heads(T \o Q)[i] = T[i][1]
<1>1. /\ T \o Q \in Seq(Message) /\ Len(T \o Q) = Len(T) + Len(Q)
      /\ \A i \in 1..Len(T) + Len(Q) :
            (T \o Q)[i] = IF i <= Len(T) THEN T[i] ELSE Q[i - Len(T)]
  BY ConcatProperties
<1>2. \A i \in 1..Len(T \o Q) : Len((T \o Q)[i]) = 1
  BY <1>1
<1>3. \A i \in 1..Len(T) : i \in 1..Len(T \o Q) /\ (T \o Q)[i] = T[i]
  BY <1>1
<1> DEFINE M == T \o Q
<1> HIDE DEF M
<1>4. M \in Seq(Message) /\ \A i \in 1..Len(M) : Len(M[i]) = 1
  BY <1>1, <1>2 DEF M
<1>5. /\ Heads(M) \in Seq(Nat) /\ Len(Heads(M)) = Len(M)
      /\ \A i \in 1..Len(M) : Heads(M)[i] = M[i][1]
  BY <1>4, HeadsOfMessages
<1>6. \A i \in 1..Len(T) : i \in 1..Len(M) /\ M[i] = T[i]
  BY <1>3 DEF M
<1>7. \A i \in 1..Len(T) : Heads(M)[i] = T[i][1]
  BY <1>5, <1>6
<1> QED
  BY <1>1, <1>2, <1>5, <1>7 DEF M

\* A message submitted, with none before it in the queue.
LEMMA HistoryGrows ==
    ASSUME NEW T \in Seq(Message), \A i \in 1..Len(T) : Len(T[i]) = 1, NEW p \in Nat
    PROVE  Heads(T \o <<<<p>>>>) = Append(Heads(T \o <<>>), p)
<1> DEFINE M == T \o <<>>
           N == T \o <<<<p>>>>
<1>1. M = T
  BY ConcatEmptySeq
<1>2. <<p>> \in Message /\ Len(<<p>>) = 1 /\ <<p>>[1] = p
  BY DEF Message
<1>3. N = Append(T, <<p>>)
  BY <1>2, AppendIsConcat
<1>4. /\ N \in Seq(Message) /\ Len(N) = Len(T) + 1 /\ N[Len(T) + 1] = <<p>>
      /\ \A i \in 1..Len(T) : N[i] = T[i]
  BY <1>2, <1>3, AppendProperties
<1> HIDE DEF M, N
<1>5. /\ Heads(M) \in Seq(Nat) /\ Len(Heads(M)) = Len(T)
      /\ \A i \in 1..Len(T) : Heads(M)[i] = T[i][1]
  BY <1>1, HeadsOfMessages
<1>6. \A i \in 1..Len(N) : Len(N[i]) = 1
  BY <1>2, <1>4
<1>7. /\ Heads(N) \in Seq(Nat) /\ Len(Heads(N)) = Len(T) + 1
      /\ \A i \in 1..Len(N) : Heads(N)[i] = N[i][1]
  BY <1>4, <1>6, HeadsOfMessages
<1>8. /\ Append(Heads(M), p) \in Seq(Nat) /\ Len(Append(Heads(M), p)) = Len(T) + 1
      /\ Append(Heads(M), p)[Len(T) + 1] = p
      /\ \A i \in 1..Len(T) : Append(Heads(M), p)[i] = T[i][1]
  BY <1>5, AppendProperties
<1>9. \A i \in 1..Len(T) + 1 : Heads(N)[i] = Append(Heads(M), p)[i]
  <2> TAKE i \in 1..Len(T) + 1
  <2>0. i \in 1..Len(N) /\ Heads(N)[i] = N[i][1]
    BY <1>4, <1>7
  <2>1. CASE i = Len(T) + 1
    <3>1. N[i][1] = p
      BY <1>2, <1>4, <2>1
    <3>2. Append(Heads(M), p)[i] = p
      BY <1>8, <2>1
    <3> QED
      BY <2>0, <3>1, <3>2
  <2>2. CASE i \in 1..Len(T)
    BY <1>4, <1>8, <2>0, <2>2
  <2>3. i \in 1..Len(T) \/ i = Len(T) + 1
    OBVIOUS
  <2> QED
    BY <2>1, <2>2, <2>3
<1>10. Heads(N) = Append(Heads(M), p)
  BY <1>7, <1>8, <1>9, SeqEqual
<1> QED
  BY <1>10 DEF M, N

\* A message taken up stays where it was in the history.
LEMMA HistoryStays ==
    ASSUME NEW T \in Seq(Message), NEW Q \in Seq(Message), Q # <<>>
    PROVE  Append(T, Head(Q)) \o Tail(Q) = T \o Q
<1>1. /\ Head(Q) \in Message /\ Tail(Q) \in Seq(Message)
      /\ Len(Tail(Q)) = Len(Q) - 1 /\ Len(Q) \in Nat /\ Len(Q) > 0
      /\ Head(Q) = Q[1]
      /\ \A i \in 1..Len(Tail(Q)) : Tail(Q)[i] = Q[i + 1]
  BY HeadTailProperties
<1> DEFINE A == Append(T, Head(Q))
           R == Tail(Q)
<1>2. /\ A \in Seq(Message) /\ Len(A) = Len(T) + 1 /\ A[Len(T) + 1] = Q[1]
      /\ \A i \in 1..Len(T) : A[i] = T[i]
  BY <1>1, AppendProperties
<1>3. R \in Seq(Message) /\ Len(R) = Len(Q) - 1 /\ \A i \in 1..Len(R) : R[i] = Q[i + 1]
  BY <1>1
<1> HIDE DEF A, R
<1>4. /\ A \o R \in Seq(Message) /\ Len(A \o R) = Len(A) + Len(R)
      /\ \A i \in 1..Len(A) + Len(R) : (A \o R)[i] = IF i <= Len(A) THEN A[i] ELSE R[i - Len(A)]
  BY <1>2, <1>3, ConcatProperties
<1>5. /\ T \o Q \in Seq(Message) /\ Len(T \o Q) = Len(T) + Len(Q)
      /\ \A i \in 1..Len(T) + Len(Q) : (T \o Q)[i] = IF i <= Len(T) THEN T[i] ELSE Q[i - Len(T)]
  BY ConcatProperties
<1>8. Len(A) + Len(R) = Len(T) + Len(Q) /\ Len(T) \in Nat
  BY <1>1, <1>2, <1>3
<1>6. \A i \in 1..Len(T) + Len(Q) : (A \o R)[i] = (T \o Q)[i]
  <2> TAKE i \in 1..Len(T) + Len(Q)
  <2>0. /\ (A \o R)[i] = IF i <= Len(A) THEN A[i] ELSE R[i - Len(A)]
        /\ (T \o Q)[i] = IF i <= Len(T) THEN T[i] ELSE Q[i - Len(T)]
    BY <1>4, <1>5, <1>8
  <2>1. CASE i <= Len(T)
    <3>1. i \in 1..Len(T) /\ i <= Len(A)
      BY <1>2, <1>8, <2>1
    <3> QED
      BY <1>2, <2>0, <2>1, <3>1
  <2>2. CASE i = Len(T) + 1
    BY <1>2, <1>8, <2>0, <2>2
  <2>3. CASE i > Len(T) + 1
    <3>1. i - Len(A) \in 1..Len(R) /\ (i - Len(A)) + 1 = i - Len(T)
      BY <1>1, <1>2, <1>3, <2>3
    <3>2. R[i - Len(A)] = Q[i - Len(T)]
      BY <1>3, <3>1
    <3>3. ~(i <= Len(A)) /\ ~(i <= Len(T))
      BY <1>2, <1>8, <2>3
    <3> QED
      BY <2>0, <3>2, <3>3
  <2> QED
    BY <1>8, <2>1, <2>2, <2>3
<1>7. A \o R = T \o Q
  BY <1>4, <1>5, <1>6, <1>8, SeqEqual
<1> QED
  BY <1>7 DEF A, R

\* The history of the conversation, and an answer's place in it.
LEMMA HistoryFacts ==
    ASSUME TypeInv, SingleMessages
    PROVE  /\ History \in Seq(Nat) /\ Len(History) = Len(turns) + Len(queue)
           /\ \A t \in 1..Len(turns) : t \in 1..Len(History) /\ History[t] = turns[t][1]
           /\ \A t, p : IsTurnOf(t, p) => t \in 1..Len(turns) /\ turns[t][1] = p
<1>1. turns \in Seq(Message) /\ queue \in Seq(Message)
  BY DEF TypeInv, TypeOK
<1>2. /\ History \in Seq(Nat) /\ Len(History) = Len(turns) + Len(queue)
      /\ \A t \in 1..Len(turns) : History[t] = turns[t][1]
  BY <1>1, HistoryParts DEF History, SingleMessages
<1>3. \A t, p : IsTurnOf(t, p) => t \in 1..Len(turns) /\ turns[t][1] = p
  BY DEF IsTurnOf, SingleMessages
<1> QED
  BY <1>1, <1>2, <1>3

\* The answers given stay when claude writes.
LEMMA GivenStays ==
    ASSUME TypeInv, TailInv, UNCHANGED results,
           UNCHANGED log \/ \E l \in Line : log' = Append(log, l)
    PROVE  UNCHANGED Given
<1>1. \A r \in results : r.end \in 1..Len(log)
  BY DEF TailInv, AnswersFollowTranscript, IsReading, TypeInv, TypeOK, Result
<1>2. \A i \in 1..Len(log) : log'[i] = log[i]
  <2>1. ASSUME NEW l \in Line, log' = Append(log, l)
        PROVE  \A i \in 1..Len(log) : log'[i] = log[i]
    BY <2>1 DEF TypeInv, TypeOK
  <2> QED
    BY <2>1
<1> QED
  BY <1>1, <1>2 DEF Given

\* A step that the dialogue does not see.
LEMMA UnseenStep ==
    ASSUME TypeInv, DialogueInv,
           UNCHANGED <<History, Given, alive, results, prompt, asked>>,
           \A d \in Callers : /\ pc'[d] \in BeforeEnter <=> pc[d] \in BeforeEnter
                              /\ pc'[d] \in {"path", "tail"} <=> pc[d] \in {"path", "tail"}
                              /\ pc'[d] = "idle" <=> pc[d] = "idle"
    PROVE  DialogueInv' /\ UNCHANGED Dialogue!dialogueVars
<1>1. Numbered'
  BY DEF DialogueInv, Numbered, IsAnswered
<1>2. AllAnswered'
  BY DEF DialogueInv, AllAnswered, IsAnswered
<1>3. UNCHANGED Unsent
  BY DEF Unsent
<1> QED
  BY <1>1, <1>2, <1>3 DEF DialogueInv, Dialogue!dialogueVars

\* Call is Ask: the number is a new one.
LEMMA CallAsks ==
    ASSUME TypeInv, SingleMessages, DialogueInv, NEW c \in Callers, NEW o, Call(c, o)
    PROVE  DialogueInv' /\ Dialogue!Ask
<1> DEFINE p == asked + 1
<1>1. /\ pc[c] = "idle" /\ asked < MaxPrompts /\ asked' = p
      /\ prompt'[c] = p /\ pc'[c] = "lock"
      /\ \A d \in Callers \ {c} : prompt'[d] = prompt[d] /\ pc'[d] = pc[d]
      /\ UNCHANGED <<results, claudeVars>> /\ asked \in Nat /\ p \in Nat
      /\ \A d \in Callers : prompt[d] \in Nat
  BY DEF Call, TypeInv, TypeOK
<1>2. UNCHANGED <<History, Given, alive>>
  BY <1>1 DEF History, Given, claudeVars
<1>3. p \in 1..MaxPrompts
  BY <1>1, ConversationAssumption DEF ConversationAssumption
<1>4. \A i \in 1..Len(History) : History[i] # p
  BY <1>1 DEF DialogueInv, Numbered
<1>5. p \notin Unsent /\ Unsent' = Unsent \cup {p}
  <2>1. \A d \in Callers : prompt[d] # p
    BY <1>1 DEF DialogueInv, Numbered
  <2>2. pc'[c] \in BeforeEnter /\ pc[c] \notin BeforeEnter
    BY <1>1 DEF BeforeEnter
  <2>3. \A d \in Callers : d # c => prompt'[d] = prompt[d] /\ pc'[d] = pc[d]
    BY <1>1
  <2> QED
    BY <1>1, <2>1, <2>2, <2>3 DEF Unsent
<1>6. p \notin Dialogue!Received
  BY <1>4 DEF Dialogue!Received
<1>7. Dialogue!Ask
  BY <1>2, <1>3, <1>5, <1>6 DEF Dialogue!Ask
<1>8. ~IsAnswered(p)
  BY <1>1 DEF DialogueInv, Numbered, IsAnswered
<1>9. Numbered'
  <2>1. \A d \in Callers : prompt'[d] <= asked' /\ (pc'[d] # "idle" => prompt'[d] > 0)
    BY <1>1 DEF DialogueInv, Numbered
  <2>2. \A d, e \in Callers : d # e /\ pc'[d] # "idle" /\ pc'[e] # "idle" => prompt'[d] # prompt'[e]
    BY <1>1 DEF DialogueInv, Numbered
  <2>3. (\A i \in 1..Len(History) : History[i] \in 0..asked') /\ asked' <= MaxPrompts
    BY <1>1, ConversationAssumption DEF DialogueInv, Numbered, ConversationAssumption
  <2>4. \A r \in results : r.prompt \in 1..asked'
    BY <1>1 DEF DialogueInv, Numbered
  <2>5. \A d \in Callers : pc'[d] \in BeforeEnter => \A i \in 1..Len(History) : History[i] # prompt'[d]
    BY <1>1, <1>4 DEF DialogueInv, Numbered
  <2>6. \A d \in Callers : pc'[d] # "idle" => ~IsAnswered(prompt'[d])
    BY <1>1, <1>8 DEF DialogueInv, Numbered
  <2> QED
    BY <1>1, <1>2, <2>1, <2>2, <2>3, <2>4, <2>5, <2>6 DEF Numbered, IsAnswered
<1>10. AllAnswered'
  <2>1. \A d \in Callers : pc[d] \in {"path", "tail"} => d # c
    BY <1>1
  <2> QED
    BY <1>1, <1>2, <2>1 DEF DialogueInv, AllAnswered, IsAnswered
<1> QED
  BY <1>7, <1>9, <1>10 DEF DialogueInv

\* A prompt that leaves the callers' hands: c is not before its Enter any more.
LEMMA UnsentShrinks ==
    ASSUME TypeInv, DialogueInv, NEW c \in Callers, pc[c] \in BeforeEnter,
           pc'[c] \notin BeforeEnter, UNCHANGED prompt,
           \A d \in Callers \ {c} : pc'[d] = pc[d]
    PROVE  prompt[c] \in Unsent /\ Unsent' = Unsent \ {prompt[c]}
<1>1. \A d \in Callers \ {c} : pc[d] \in BeforeEnter => prompt[d] # prompt[c]
  BY DEF DialogueInv, Numbered, BeforeEnter
<1> QED
  BY <1>1 DEF Unsent

\* An error return, and an Enter that nobody reads, are GiveUp: claude is gone.
LEMMA DeadGivesUp ==
    ASSUME TypeInv, DialogueInv, NEW c \in Callers, ~alive, pc[c] \in BeforeEnter,
           pc' = [pc EXCEPT ![c] = "idle"] \/ pc' = [pc EXCEPT ![c] = "path"],
           UNCHANGED <<prompt, asked, results, claudeVars>>
    PROVE  DialogueInv' /\ Dialogue!GiveUp
<1>1. /\ pc'[c] \in {"idle", "path"} /\ \A d \in Callers \ {c} : pc'[d] = pc[d]
  BY DEF TypeInv, TypeOK
<1>2. UNCHANGED <<History, Given, alive>>
  BY DEF History, Given, claudeVars
<1>3. prompt[c] \in Unsent /\ Unsent' = Unsent \ {prompt[c]}
  BY <1>1, UnsentShrinks DEF BeforeEnter
<1>4. Dialogue!GiveUp
  BY <1>2, <1>3 DEF Dialogue!GiveUp
<1>5. \A d \in Callers : /\ pc'[d] \in BeforeEnter => pc[d] \in BeforeEnter
                         /\ pc'[d] # "idle" => pc[d] # "idle"
  BY <1>1 DEF BeforeEnter
<1>6. Numbered'
  BY <1>2, <1>5 DEF DialogueInv, Numbered, IsAnswered
<1>7. AllAnswered'
  BY <1>2 DEF AllAnswered
<1> QED
  BY <1>4, <1>6, <1>7 DEF DialogueInv

\* The Enter that submits a prompt is Receive: all before it are answered.
LEMMA EnterReceives ==
    ASSUME OneAtATime, TypeInv, MutexInv, OwnInv, SingleMessages, DialogueInv,
           NEW c \in Callers, PressEnter(c), alive
    PROVE  DialogueInv' /\ Dialogue!Receive
<1>1. /\ pc[c] = "enter" /\ pc' = [pc EXCEPT ![c] = "path"]
      /\ UNCHANGED <<prompt, asked, results, turns, log, alive>>
      /\ IF box # <<>> THEN queue' = Append(queue, box) ELSE UNCHANGED queue
  BY DEF PressEnter, ReceiveEnter, handleVars
<1>2. \A d \in Callers \ {c} : pc[d] \in {"idle", "lock"}
  BY <1>1, SendersHold, Alone DEF OwnInv, Locked
<1>3. pc'[c] = "path" /\ \A d \in Callers \ {c} : pc'[d] = pc[d]
  BY <1>1 DEF TypeInv, TypeOK
<1>4. queue = <<>> /\ box = <<prompt[c]>>
  BY <1>1 DEF OwnInv, Progress, Settled
<1>5. /\ turns \in Seq(Message) /\ prompt[c] \in Nat
      /\ \A t \in 1..Len(turns) : Len(turns[t]) = 1
  BY DEF TypeInv, TypeOK, SingleMessages
<1>6. queue' = <<<<prompt[c]>>>>
  BY <1>1, <1>4
<1>7. History' = Append(History, prompt[c])
  <2>1. History' = Heads(turns \o <<<<prompt[c]>>>>)
    BY <1>1, <1>6 DEF History, Heads
  <2>2. History = Heads(turns \o <<>>)
    BY <1>4 DEF History
  <2> QED
    BY <1>5, <2>1, <2>2, HistoryGrows
<1>8. prompt[c] \in Unsent /\ Unsent' = Unsent \ {prompt[c]}
  BY <1>1, <1>3, UnsentShrinks DEF BeforeEnter
<1>9. UNCHANGED Given
  BY <1>1 DEF Given
<1>10. \A i \in 1..Len(History) : History[i] = 0 \/ IsAnswered(History[i])
  BY <1>1, <1>2 DEF DialogueInv, AllAnswered
<1>11. Dialogue!Received = Dialogue!Answered
  <2>1. \A p : p \in Dialogue!Answered <=> IsAnswered(p)
    <3>1. \A p : p \in Dialogue!Answered <=> \E a \in Given : p = a.prompt
      BY DEF Dialogue!Answered
    <3>2. \A a \in Given : \E r \in results : a.prompt = r.prompt
      BY DEF Given
    <3>3. \A r \in results : \E a \in Given : a.prompt = r.prompt
      <4> TAKE r \in results
      <4>1. [prompt |-> r.prompt, turn |-> log[r.end].turn] \in Given
        BY DEF Given
      <4>2. [prompt |-> r.prompt, turn |-> log[r.end].turn].prompt = r.prompt
        OBVIOUS
      <4> QED
        BY <4>1, <4>2
    <3> QED
      BY <3>1, <3>2, <3>3 DEF IsAnswered
  <2>2. ASSUME NEW r \in results
        PROVE  r.prompt # 0 /\ \E i \in 1..Len(History) : History[i] = r.prompt
    <3>1. IsTurnOf(log[r.end].turn, r.prompt)
      BY DEF OwnInv, AnswerIsOwn
    <3>2. log[r.end].turn \in 1..Len(History) /\ History[log[r.end].turn] = r.prompt
      BY <3>1, HistoryFacts
    <3> QED
      BY <3>2 DEF DialogueInv, Numbered
  <2> QED
    BY <1>10, <2>1, <2>2 DEF Dialogue!Received, IsAnswered
<1>12. Dialogue!Receive
  BY <1>1, <1>7, <1>8, <1>9, <1>11 DEF Dialogue!Receive
<1>13. /\ Len(History') = Len(History) + 1 /\ Len(History) \in Nat
       /\ History'[Len(History) + 1] = prompt[c]
       /\ \A i \in 1..Len(History) : History'[i] = History[i]
  BY <1>5, <1>7, HistoryFacts, AppendProperties
<1>14. \A i \in 1..Len(History') : i \in 1..Len(History) \/ i = Len(History) + 1
  BY <1>13
<1>15. Numbered'
  <2>1. \A i \in 1..Len(History') : History'[i] \in 0..asked
    <3>1. prompt[c] \in 0..asked
      BY <1>5 DEF DialogueInv, Numbered, TypeInv, TypeOK
    <3>2. \A i \in 1..Len(History) : History[i] \in 0..asked
      BY DEF DialogueInv, Numbered
    <3> QED
      BY <1>13, <1>14, <3>1, <3>2
  <2>2. \A d \in Callers : pc'[d] \in BeforeEnter =>
            \A i \in 1..Len(History') : History'[i] # prompt[d]
    <3> SUFFICES ASSUME NEW d \in Callers, pc'[d] \in BeforeEnter,
                        NEW i \in 1..Len(History')
                 PROVE  History'[i] # prompt[d]
      OBVIOUS
    <3>1. d # c /\ pc[d] \in BeforeEnter /\ pc[d] # "idle" /\ pc[c] # "idle"
      BY <1>1, <1>3 DEF BeforeEnter
    <3>2. prompt[d] # prompt[c]
      BY <3>1 DEF DialogueInv, Numbered
    <3> QED
      BY <1>13, <1>14, <3>1, <3>2 DEF DialogueInv, Numbered
  <2>3. \A d \in Callers : pc'[d] # "idle" => pc[d] # "idle"
    BY <1>1, <1>3
  <2> QED
    BY <1>1, <2>1, <2>2, <2>3 DEF DialogueInv, Numbered, IsAnswered
<1>16. AllAnswered'
  BY <1>1, <1>3, <1>10, <1>13, <1>14 DEF AllAnswered, IsAnswered
<1> QED
  BY <1>12, <1>15, <1>16 DEF DialogueInv

\* The line that ends a wait is Respond: the answer is from the prompt's turn.
LEMMA EndResponds ==
    ASSUME TypeInv, OwnInv', SingleMessages, DialogueInv,
           NEW c \in Callers, ReadLine(c), pc' # pc
    PROVE  DialogueInv' /\ Dialogue!Respond
<1> DEFINE a == Answer(c, log[pos[c] + 1])
           t == log[pos[c] + 1].turn
<1>1. /\ pc[c] = "tail" /\ results' = results \cup {a} /\ Leave(c)
      /\ UNCHANGED <<prompt, asked, claudeVars>>
  BY DEF ReadLine
<1>2. pc'[c] = "idle" /\ \A d \in Callers \ {c} : pc'[d] = pc[d]
  BY <1>1 DEF Leave, TypeInv, TypeOK
<1>3. a.prompt = prompt[c] /\ a.end = pos[c] + 1
  BY DEF Answer
<1>4. UNCHANGED <<History, alive, Unsent>>
  <2>1. \A d \in Callers : pc'[d] \in BeforeEnter <=> pc[d] \in BeforeEnter
    BY <1>1, <1>2 DEF BeforeEnter
  <2> QED
    BY <1>1, <2>1 DEF History, Unsent, claudeVars
<1>5. IsTurnOf(t, prompt[c])
  <2>1. \A r \in results' : IsTurnOf(log[r.end].turn, r.prompt)
    BY <1>1 DEF OwnInv, AnswerIsOwn, claudeVars, IsTurnOf
  <2>2. IsTurnOf(log[a.end].turn, a.prompt)
    BY <1>1, <2>1
  <2> QED
    BY <1>3, <2>2
<1>6. t \in 1..Len(History) /\ History[t] = prompt[c]
  BY <1>5, HistoryFacts
<1>7. prompt[c] \in Dialogue!Received \ Dialogue!Answered
  <2>1. prompt[c] # 0 /\ ~IsAnswered(prompt[c])
    BY <1>1 DEF DialogueInv, Numbered
  <2> QED
    BY <1>6, <2>1 DEF Dialogue!Received, Dialogue!Answered, Given, IsAnswered
<1>8. Given' = Given \cup {[prompt |-> prompt[c], turn |-> t]}
  <2> HIDE DEF a
  <2>1. log' = log
    BY <1>1 DEF claudeVars
  <2> QED
    BY <1>1, <1>3, <2>1 DEF Given
<1>9. Dialogue!Respond
  BY <1>4, <1>6, <1>7, <1>8 DEF Dialogue!Respond
<1> HIDE DEF a, t
<1>10. Numbered'
  <2>1. \A r \in results' : r.prompt \in 1..asked
    BY <1>1, <1>3 DEF DialogueInv, Numbered, TypeInv, TypeOK
  <2>2. \A d \in Callers : /\ pc'[d] # "idle" => pc[d] # "idle" /\ d # c
                           /\ pc'[d] \in BeforeEnter => pc[d] \in BeforeEnter
    BY <1>2 DEF BeforeEnter
  <2>3. \A d \in Callers : pc'[d] # "idle" => \A r \in results' : r.prompt # prompt[d]
    BY <1>1, <1>3, <2>2 DEF DialogueInv, Numbered, IsAnswered
  <2> QED
    BY <1>1, <1>4, <2>1, <2>2, <2>3 DEF DialogueInv, Numbered, IsAnswered
<1>11. AllAnswered'
  <2>1. \A p : IsAnswered(p) => IsAnswered(p)'
    BY <1>1 DEF IsAnswered
  <2>2. IsAnswered(prompt[c])'
    BY <1>1, <1>3 DEF IsAnswered
  <2> QED
    BY <1>1, <1>2, <1>4, <2>1, <2>2 DEF DialogueInv, AllAnswered
<1> QED
  BY <1>9, <1>10, <1>11 DEF DialogueInv

\* A conversation that opens settled is an empty dialogue.
LEMMA InitDialogue == OneAtATime /\ Init => DialogueInv /\ Dialogue!DialogueInit
<1> SUFFICES ASSUME OneAtATime, Init PROVE DialogueInv /\ Dialogue!DialogueInit
  OBVIOUS
<1>1. /\ queue = <<>> /\ alive = TRUE /\ results = {} /\ asked = 0
      /\ \A c \in Callers : pc[c] = "idle" /\ prompt[c] = 0
      /\ turns = <<>> \/ turns = <<<<0>>>>
  BY DEF Init, InitClaude, InitCallers
<1>2. History = <<>> \/ History = <<0>>
  <2>1. CASE turns = <<>>
    <3>1. Heads(<<>> \o <<>>) = <<>>
      BY DEF Heads
    <3> QED
      BY <1>1, <2>1, <3>1 DEF History
  <2>2. CASE turns = <<<<0>>>>
    <3> DEFINE M == <<<<0>>>>
    <3>1. M \in Seq(Message) /\ Len(M) = 1 /\ M[1] = <<0>> /\ M \o <<>> = M
      BY ConcatEmptySeq DEF Message
    <3> HIDE DEF M
    <3>2. Heads(M) \in Seq(Nat) /\ Len(Heads(M)) = 1 /\ Heads(M)[1] = 0
      BY <3>1, HeadsOfMessages
    <3>3. Heads(M) = <<0>>
      BY <3>2
    <3> QED
      BY <1>1, <2>2, <3>1, <3>3 DEF History, M
  <2> QED
    BY <1>1, <2>1, <2>2
<1>3. \A i \in 1..Len(History) : History[i] = 0
  BY <1>2
<1>4. Unsent = {} /\ Given = {}
  BY <1>1 DEF Unsent, Given, BeforeEnter
<1>5. Numbered
  BY <1>1, <1>3, ConversationAssumption DEF Numbered, IsAnswered, BeforeEnter, ConversationAssumption
<1>6. AllAnswered
  BY <1>3 DEF AllAnswered
<1> QED
  BY <1>1, <1>2, <1>4, <1>5, <1>6 DEF DialogueInv, Dialogue!DialogueInit

\* Claude writes a line of the turn at work: the dialogue does not see it.
LEMMA WritingUnseen ==
    ASSUME TypeInv, TailInv, DialogueInv, NEW l \in Line, log' = Append(log, l),
           UNCHANGED <<turns, queue, alive, callerVars, handleVars>>
    PROVE  DialogueInv' /\ UNCHANGED Dialogue!dialogueVars
<1>1. UNCHANGED <<results, prompt, asked, pc>>
  BY DEF callerVars, handleVars
<1>2. UNCHANGED History
  BY DEF History, Heads
<1>3. UNCHANGED Given
  BY <1>1, GivenStays
<1> QED
  BY <1>1, <1>2, <1>3, UnseenStep

\* Every step is a step of the dialogue, or one it does not see.
LEMMA NextDialogue ==
    ASSUME OneAtATime, TypeInv, MutexInv, TailInv, WellWritten, OwnInv, SingleInv,
           DialogueInv, OwnInv', [Next]_vars
    PROVE  DialogueInv' /\ [Dialogue!DialogueNext]_(Dialogue!dialogueVars)
<1> DEFINE D == DialogueInv' /\ [Dialogue!DialogueNext]_(Dialogue!dialogueVars)
<1>0. SingleMessages
  BY DEF SingleInv
\* A caller's step that the dialogue does not see.
<1>1. ASSUME NEW c \in Callers, NEW p \in PCs, pc' = [pc EXCEPT ![c] = p],
             UNCHANGED <<prompt, asked, results, claudeVars>> \/
                UNCHANGED <<prompt, asked, results, queue, turns, log, alive>>,
             \/ pc[c] \in BeforeEnter /\ p \in BeforeEnter
             \/ pc[c] \in {"path", "tail"} /\ p \in {"path", "tail"}
      PROVE  D
  <2>1. UNCHANGED <<History, Given, alive>>
    BY <1>1 DEF History, Given, Heads, claudeVars
  <2>2. pc'[c] = p /\ \A d \in Callers \ {c} : pc'[d] = pc[d]
    BY <1>1 DEF TypeInv, TypeOK
  <2>3. \A d \in Callers : /\ pc'[d] \in BeforeEnter <=> pc[d] \in BeforeEnter
                           /\ pc'[d] \in {"path", "tail"} <=> pc[d] \in {"path", "tail"}
                           /\ pc'[d] = "idle" <=> pc[d] = "idle"
    BY <1>1, <2>2 DEF BeforeEnter
  <2>4. DialogueInv' /\ UNCHANGED Dialogue!dialogueVars
    BY <1>1, <2>1, <2>3, UnseenStep
  <2> QED
    BY <2>4
<1>2. ASSUME NEW c \in Callers, NEW o \in Ops[c], Call(c, o) PROVE D
  <2>1. DialogueInv' /\ Dialogue!Ask
    BY <1>0, <1>2, CallAsks
  <2> QED
    BY <2>1 DEF Dialogue!DialogueNext
<1>3. ASSUME NEW c \in Callers, \/ CallAwait(c) \/ NoTranscript(c)
                                \/ AwaitResolve(c) \/ TimeOut(c)
      PROVE  D
  BY <1>3 DEF CallAwait, NoTranscript, AwaitResolve, TimeOut, OneAtATime, OwnInv,
     OnlyPrompts, MutexInv, OpInv
<1>4. ASSUME NEW c \in Callers, ~alive, Fail(c), pc[c] \in BeforeEnter PROVE D
  <2>1. /\ pc' = [pc EXCEPT ![c] = "idle"]
        /\ UNCHANGED <<prompt, asked, results, claudeVars>>
    BY <1>4 DEF Fail, Leave
  <2>2. DialogueInv' /\ Dialogue!GiveUp
    BY <1>4, <2>1, DeadGivesUp
  <2> QED
    BY <2>2 DEF Dialogue!DialogueNext
<1>5. ASSUME NEW c \in Callers, Acquire(c) \/ RecordOffset(c) PROVE D
  <2>1. PICK p \in {"check", "type"} : pc' = [pc EXCEPT ![c] = p]
    BY <1>5 DEF Acquire, RecordOffset
  <2>2. pc[c] \in BeforeEnter /\ p \in BeforeEnter /\ p \in PCs
    BY <1>5, <2>1 DEF Acquire, RecordOffset, BeforeEnter, PCs
  <2>3. UNCHANGED <<prompt, asked, results, claudeVars>>
    BY <1>5 DEF Acquire, RecordOffset, handleVars
  <2> QED
    BY <1>1, <2>1, <2>2, <2>3
<1>6. ASSUME NEW c \in Callers, Look(c) PROVE D
  <2>1. UNCHANGED <<pc, prompt, asked, results, claudeVars>>
    BY <1>6 DEF Look, handleVars
  <2>2. UNCHANGED <<History, Given, alive>>
    BY <2>1 DEF History, Given, Heads, claudeVars
  <2> QED
    BY <2>1, <2>2, UnseenStep
<1>7. ASSUME NEW c \in Callers, CheckExited(c) PROVE D
  <2>1. pc[c] = "check" /\ pc[c] \in BeforeEnter
    BY <1>7 DEF CheckExited, BeforeEnter
  <2>2. CASE ~alive /\ Fail(c)
    BY <1>4, <2>1, <2>2
  <2>3. CASE /\ pc' = [pc EXCEPT ![c] = "offset"]
             /\ UNCHANGED <<prompt, asked, results, claudeVars>>
    BY <1>1, <2>1, <2>3 DEF BeforeEnter, PCs
  <2> QED
    BY <1>7, <2>2, <2>3 DEF CheckExited, handleVars
<1>8. ASSUME NEW c \in Callers, TypePrompt(c) PROVE D
  <2>1. pc[c] = "type" /\ pc[c] \in BeforeEnter
    BY <1>8 DEF TypePrompt, BeforeEnter
  <2>2. CASE ~alive /\ Fail(c)
    BY <1>4, <2>1, <2>2
  <2>3. CASE /\ pc' = [pc EXCEPT ![c] = "enter"]
             /\ UNCHANGED <<prompt, asked, results, queue, turns, log, alive>>
    BY <1>1, <2>1, <2>3 DEF BeforeEnter, PCs
  <2> QED
    BY <1>8, <2>2, <2>3 DEF TypePrompt, ReceivePrompt, handleVars
<1>9. ASSUME NEW c \in Callers, PressEnter(c) PROVE D
  <2>1. pc[c] = "enter" /\ pc[c] \in BeforeEnter
    BY <1>9 DEF PressEnter, BeforeEnter
  <2>2. CASE ~alive /\ Fail(c)
    BY <1>4, <2>1, <2>2
  <2>3. CASE alive
    <3>1. DialogueInv' /\ Dialogue!Receive
      BY <1>0, <1>9, <2>3, EnterReceives
    <3> QED
      BY <3>1 DEF Dialogue!DialogueNext
  <2>4. CASE ~alive /\ ~Fail(c)
    <3>1. /\ pc' = [pc EXCEPT ![c] = "path"]
          /\ UNCHANGED <<prompt, asked, results, claudeVars>>
      BY <1>9, <2>4 DEF PressEnter, ReceiveEnter, handleVars, claudeVars
    <3>2. DialogueInv' /\ Dialogue!GiveUp
      BY <2>1, <2>4, <3>1, DeadGivesUp
    <3> QED
      BY <3>2 DEF Dialogue!DialogueNext
  <2> QED
    BY <2>2, <2>3, <2>4
<1>10. ASSUME NEW c \in Callers, ResolvePath(c) PROVE D
  <2>1. op[c] = "prompt"
    BY <1>10 DEF ResolvePath, OwnInv, OnlyPrompts
  <2>2. /\ pc' = [pc EXCEPT ![c] = "tail"] /\ pc[c] = "path" /\ "tail" \in PCs
        /\ UNCHANGED <<prompt, asked, results, claudeVars>>
    BY <1>10, <2>1 DEF ResolvePath, BeginTail, PCs
  <2> QED
    BY <1>1, <2>2
<1>11. ASSUME NEW c \in Callers, ReadLine(c) PROVE D
  <2>1. CASE pc' # pc
    <3>1. DialogueInv' /\ Dialogue!Respond
      BY <1>0, <1>11, <2>1, EndResponds
    <3> QED
      BY <3>1 DEF Dialogue!DialogueNext
  <2>2. CASE UNCHANGED pc
    <3>1. pc[c] = "tail" /\ UNCHANGED <<prompt, asked, claudeVars>>
      BY <1>11 DEF ReadLine
    <3>2. UNCHANGED results
      BY <1>11, <2>2, <3>1 DEF ReadLine, Leave, TypeInv, TypeOK
    <3>3. UNCHANGED <<History, Given, alive>>
      BY <3>1, <3>2 DEF History, Given, Heads, claudeVars
    <3> QED
      BY <2>2, <3>1, <3>2, <3>3, UnseenStep
  <2> QED
    BY <2>1, <2>2
<1>12. CASE BeginTurn
  <2>1. /\ queue # <<>> /\ turns' = Append(turns, Head(queue)) /\ queue' = Tail(queue)
        /\ UNCHANGED <<alive, results, prompt, asked, pc>>
    BY <1>12 DEF BeginTurn, TakeMessage, callerVars, handleVars
  <2>2. UNCHANGED History
    <3>1. turns \in Seq(Message) /\ queue \in Seq(Message)
      BY DEF TypeInv, TypeOK
    <3>2. turns' \o queue' = turns \o queue
      BY <2>1, <3>1, HistoryStays
    <3> QED
      BY <3>2 DEF History, Heads
  <2>3. UNCHANGED Given
    <3>1. \E l \in Line : log' = Append(log, l)
      <4>1. log' = Append(log, UserEcho(Len(turns) + 1)) /\ Len(turns) + 1 \in Nat \ {0}
        BY <1>12 DEF BeginTurn, TakeMessage, TypeInv, TypeOK
      <4> QED
        BY <4>1, LinesAreLines
    <3> QED
      BY <2>1, <3>1, GivenStays
  <2> QED
    BY <2>1, <2>2, <2>3, UnseenStep
<1>13. CASE Work \/ ReturnTool \/ Speak \/ EndTurn
  <2>1. /\ phase # "idle" /\ UNCHANGED <<turns, queue, alive, callerVars, handleVars>>
    BY <1>13 DEF Work, WriteInterim, ReturnTool, WriteToolResult, Speak, WriteReply,
       EndTurn, WriteMarker
  <2>2. Len(turns) \in Nat \ {0}
    BY <2>1 DEF TypeInv, TypeOK, TurnBegun
  <2>3. \E l \in LinesOf(Len(turns)) : log' = Append(log, l)
    BY <1>13 DEF Work, WriteInterim, ReturnTool, WriteToolResult, Speak, WriteReply,
       EndTurn, WriteMarker, LinesOf
  <2>4. \E l \in Line : log' = Append(log, l)
    BY <2>2, <2>3, LinesAreLines DEF LinesOf
  <2> QED
    BY <2>1, <2>4, WritingUnseen
<1>14. CASE Exit
  <2>1. /\ alive /\ alive' = FALSE
        /\ UNCHANGED <<callerVars, handleVars, queue, turns, log>>
    BY <1>14 DEF Exit, Quit
  <2>2. UNCHANGED <<History, Given, Unsent>>
    BY <2>1 DEF History, Given, Heads, Unsent, callerVars
  <2>3. Dialogue!End
    BY <2>1, <2>2 DEF Dialogue!End
  <2>4. Numbered'
    BY <2>1, <2>2 DEF DialogueInv, Numbered, IsAnswered, callerVars, handleVars
  <2>5. AllAnswered'
    BY <2>1 DEF AllAnswered
  <2> QED
    BY <2>3, <2>4, <2>5 DEF DialogueInv, Dialogue!DialogueNext
<1>15. CASE UNCHANGED vars
  <2>1. UNCHANGED <<pc, prompt, asked, results, claudeVars>>
    BY <1>15 DEF vars, callerVars, handleVars
  <2>2. UNCHANGED <<History, Given, alive>>
    BY <2>1 DEF History, Given, Heads, claudeVars
  <2> QED
    BY <2>1, <2>2, UnseenStep
<1> QED
  BY <1>2, <1>3, <1>5, <1>6, <1>7, <1>8, <1>9, <1>10, <1>11, <1>12, <1>13, <1>14, <1>15
     DEF Next, Caller, Step, ClaudeStep

\* With one Session, prompts alone and no deadline, every conversation is a
\* dialogue: claude receives the prompts one at a time and unmixed, each after
\* the one before it was answered, and answers each once, from its own turn; a
\* prompt is given up only when claude is gone (session.go:88-128).
THEOREM DialogueImplemented ==
    ASSUME OneAtATime
    PROVE  Spec => ImplementsDialogue
<1> DEFINE I == /\ TypeInv /\ MutexInv /\ TailInv /\ WellWritten /\ OwnInv
                /\ SingleInv /\ DialogueInv
<1>1. Init => I /\ Dialogue!DialogueInit
  BY InitTypes, InitMutex, InitReadings, InitWellWritten, InitOwn, InitSingle, InitDialogue
<1>2. I /\ [Next]_vars => I' /\ [Dialogue!DialogueNext]_(Dialogue!dialogueVars)
  <2> SUFFICES ASSUME I, [Next]_vars
               PROVE  I' /\ [Dialogue!DialogueNext]_(Dialogue!dialogueVars)
    OBVIOUS
  <2>1. TypeInv' /\ MutexInv' /\ TailInv' /\ WellWritten'
    BY NextTypes, NextMutex, NextReadings, NextWellWritten
  <2>2. OwnInv'
    BY <2>1, NextOwn
  <2>3. SingleInv'
    BY NextSingle DEF OneAtATime
  <2> QED
    BY <2>1, <2>2, <2>3, NextDialogue
<1> QED
  BY <1>1, <1>2, PTL DEF Spec, ImplementsDialogue, Dialogue!DialogueSpec
=============================================================================
