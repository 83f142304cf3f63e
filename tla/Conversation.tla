---------------------------- MODULE Conversation ----------------------------
(***************************************************************************)
(* One claude conversation and the callers that drive it: Session.Prompt,  *)
(* Session.StartTurn and AwaitTurn (pkg/claudep/session.go), with the two  *)
(* writes of SendPrompt (pkg/claudepty/drive.go), the byte cursor of       *)
(* JSONLOffset and the tail of the transcript (jsonl.go), against a claude *)
(* that takes what was typed as messages, works on one turn at a time and  *)
(* appends its lines to the transcript.                                    *)
(*                                                                         *)
(* A caller is one goroutine in one call.  A handle is one Session value,  *)
(* with its own mutex and its own cached transcript path; HandleOf says    *)
(* which handle each caller goes through.  The in-process backend shares   *)
(* one Session; DaemonSession makes a new one for every call.              *)
(*                                                                         *)
(* Offsets count lines: claude appends whole lines.                        *)
(***************************************************************************)
EXTENDS Claude, FiniteSets

CONSTANTS
    Callers,     \* the goroutines that call into the package
    Handles,     \* the Session values
    HandleOf,    \* the Session each caller goes through
    Ops,         \* the operations each caller may call: "prompt", "start"
    NoCaller,    \* the holder of a free mutex
    MayTimeOut,  \* whether a context, or a bounded wait, may run out
    MaxPrompts   \* bound: prompts sent

ASSUME ConversationAssumption ==
    /\ NoCaller \notin Callers
    /\ HandleOf \in [Callers -> Handles]
    /\ Ops \in [Callers -> SUBSET {"prompt", "start"}]
    /\ Openings \subseteq {"new", "replied", "busy"}
    /\ MayTimeOut \in BOOLEAN /\ MayExit \in BOOLEAN
    /\ MaxPrompts \in Nat /\ MaxWork \in Nat

VARIABLES
    \* the callers
    pc,           \* where in its call each caller is
    op,           \* the call it is in, or whose cursor it still holds
    prompt,       \* the prompt it sent
    offset,       \* startOffset / sinceOffset
    pos,          \* how far its tail has read
    sawUserTurn,
    finalText,
    waiting,      \* what it waits for was not there when it last looked
    results,      \* every answer returned so far
    \* the handles
    lock,         \* Session.mu
    jsonlPath,    \* whether the transcript path is cached
    asked         \* prompts allocated so far: prompt numbers are 1..asked

callerVars == <<pc, op, prompt, offset, pos, sawUserTurn, finalText, waiting,
                results>>
handleVars == <<lock, jsonlPath, asked>>
vars       == <<callerVars, handleVars, claudeVars>>

-----------------------------------------------------------------------------
(* Types.                                                                  *)

PCs    == {"idle", "lock", "check", "offset", "type", "enter", "path",
           "resolve", "tail"}
\* The steps a caller takes with its Session's mutex held, whatever it calls.
Locked == {"check", "offset", "type", "enter", "path"}

Result == [prompt : Nat, offset : Nat, end : Nat, text : Nat]

TypeOK ==
    /\ pc \in [Callers -> PCs]
    /\ op \in [Callers -> {"none", "prompt", "start", "await"}]
    /\ prompt \in [Callers -> Nat]
    /\ offset \in [Callers -> Nat]
    /\ pos \in [Callers -> Nat]
    /\ sawUserTurn \in [Callers -> BOOLEAN]
    /\ finalText \in [Callers -> Nat]
    /\ waiting \in [Callers -> BOOLEAN]
    /\ results \subseteq Result
    /\ lock \in [Handles -> Callers \cup {NoCaller}]
    /\ jsonlPath \in [Handles -> BOOLEAN]
    /\ asked \in Nat
    /\ box \in Message
    /\ queue \in Seq(Message)
    /\ turns \in Seq(Message)
    /\ phase \in Phases
    /\ work \in Nat
    /\ log \in Seq(Line)
    /\ alive \in BOOLEAN

-----------------------------------------------------------------------------
(* Initial states.                                                         *)

\* A handle knows the transcript's path from the start when the file is there.
InitCallers ==
    /\ pc = [c \in Callers |-> "idle"]
    /\ op = [c \in Callers |-> "none"]
    /\ prompt = [c \in Callers |-> 0]
    /\ offset = [c \in Callers |-> 0]
    /\ pos = [c \in Callers |-> 0]
    /\ sawUserTurn = [c \in Callers |-> FALSE]
    /\ finalText = [c \in Callers |-> NoText]
    /\ waiting = [c \in Callers |-> FALSE]
    /\ results = {}
    /\ lock = [h \in Handles |-> NoCaller]
    /\ jsonlPath = [h \in Handles |-> log # <<>>]
    /\ asked = 0

Init == InitClaude /\ InitCallers

-----------------------------------------------------------------------------
(* Leaving a call.                                                         *)

\* The mutex after c's call is over: AwaitTurn holds none.
Unlocked(c) == IF op[c] = "await" THEN lock
               ELSE [lock EXCEPT ![HandleOf[c]] = NoCaller]

Leave(c) == /\ pc' = [pc EXCEPT ![c] = "idle"]
            /\ waiting' = [waiting EXCEPT ![c] = FALSE]
            /\ lock' = Unlocked(c)

\* An error return: nothing is left to poll for.
Fail(c) == /\ Leave(c)
           /\ op' = [op EXCEPT ![c] = "none"]
           /\ UNCHANGED <<prompt, offset, pos, sawUserTurn, finalText, results,
                          jsonlPath, asked, claudeVars>>

\* awaitTurnAt begins: open the transcript at the offset.
BeginTail(c) == /\ pc' = [pc EXCEPT ![c] = "tail"]
                /\ pos' = [pos EXCEPT ![c] = offset[c]]
                /\ sawUserTurn' = [sawUserTurn EXCEPT ![c] = FALSE]
                /\ finalText' = [finalText EXCEPT ![c] = NoText]
                /\ waiting' = [waiting EXCEPT ![c] = FALSE]

-----------------------------------------------------------------------------
(* The caller's steps, in the order of Prompt and StartTurn.               *)

\* Prompt or StartTurn is called with the next prompt.
Call(c, o) ==
    /\ pc[c] = "idle" /\ o \in Ops[c] /\ asked < MaxPrompts
    /\ asked' = asked + 1
    /\ prompt' = [prompt EXCEPT ![c] = asked + 1]
    /\ op' = [op EXCEPT ![c] = o]
    /\ pc' = [pc EXCEPT ![c] = "lock"]
    /\ UNCHANGED <<offset, pos, sawUserTurn, finalText, waiting, results,
                   lock, jsonlPath, claudeVars>>

\* s.mu.Lock().
\* Mutant: the call does not wait for the mutex.
AcquireNoWait(c) ==
    /\ pc[c] = "lock"
    /\ lock' = [lock EXCEPT ![HandleOf[c]] = c]
    /\ pc' = [pc EXCEPT ![c] = "check"]
    /\ UNCHANGED <<op, prompt, offset, pos, sawUserTurn, finalText, waiting, results,
                   jsonlPath, asked, claudeVars>>

Acquire(c) ==
    /\ pc[c] = "lock" /\ lock[HandleOf[c]] = NoCaller
    /\ lock' = [lock EXCEPT ![HandleOf[c]] = c]
    /\ pc' = [pc EXCEPT ![c] = "check"]
    /\ UNCHANGED <<op, prompt, offset, pos, sawUserTurn, finalText, waiting, results,
                   jsonlPath, asked, claudeVars>>

\* if exited, _ := s.sess.Exited(); exited { return ErrProcessExited }
CheckExited(c) ==
    /\ pc[c] = "check"
    /\ \/ /\ alive
          /\ pc' = [pc EXCEPT ![c] = "offset"]
          /\ UNCHANGED <<op, prompt, offset, pos, sawUserTurn, finalText, waiting, results,
                         handleVars, claudeVars>>
       \/ ~alive /\ Fail(c)

\* Mutant: the cursor is left where the previous call put it.
RecordOffsetStale(c) ==
    /\ pc[c] = "offset"
    /\ pc' = [pc EXCEPT ![c] = "type"]
    /\ UNCHANGED <<op, prompt, offset, pos, sawUserTurn, finalText, waiting, results,
                   handleVars, claudeVars>>

\* Mutant: the cursor backs up over the line before it.
RecordOffsetEarly(c) ==
    /\ pc[c] = "offset"
    /\ offset' = [offset EXCEPT ![c] = Len(log) - 1]
    /\ pc' = [pc EXCEPT ![c] = "type"]
    /\ UNCHANGED <<op, prompt, pos, sawUserTurn, finalText, waiting, results,
                   handleVars, claudeVars>>

\* startOffset := JSONLOffset(sessionID), before anything is sent.
RecordOffset(c) ==
    /\ pc[c] = "offset"
    /\ offset' = [offset EXCEPT ![c] = Len(log)]
    /\ pc' = [pc EXCEPT ![c] = "type"]
    /\ UNCHANGED <<op, prompt, pos, sawUserTurn, finalText, waiting, results,
                   handleVars, claudeVars>>

\* The first write of SendPrompt: the text.  A write to a claude that is gone
\* may or may not report it.
TypePrompt(c) ==
    /\ pc[c] = "type"
    /\ \/ /\ ReceivePrompt(prompt[c])
          /\ pc' = [pc EXCEPT ![c] = "enter"]
          /\ UNCHANGED <<op, prompt, offset, pos, sawUserTurn, finalText, waiting, results,
                         handleVars>>
       \/ ~alive /\ Fail(c)

\* The second write: Enter.
PressEnter(c) ==
    /\ pc[c] = "enter"
    /\ \/ /\ ReceiveEnter
          /\ pc' = [pc EXCEPT ![c] = "path"]
          /\ UNCHANGED <<op, prompt, offset, pos, sawUserTurn, finalText, waiting, results,
                         handleVars>>
       \/ ~alive /\ Fail(c)

\* The transcript's path is cached, or the file has appeared.  Prompt goes on
\* to tail it; StartTurn returns its offset, which the caller keeps.
ResolvePath(c) ==
    /\ pc[c] = "path" /\ (jsonlPath[HandleOf[c]] \/ log # <<>>)
    /\ jsonlPath' = [jsonlPath EXCEPT ![HandleOf[c]] = TRUE]
    /\ \/ op[c] = "prompt" /\ BeginTail(c) /\ UNCHANGED lock
       \/ op[c] = "start" /\ Leave(c) /\ UNCHANGED <<pos, sawUserTurn, finalText>>
    /\ UNCHANGED <<op, prompt, offset, results, asked, claudeVars>>

\* What the caller waits for is not there: no transcript, or no line after the
\* last one read.  It sleeps, and looks again unless its time is up.
Absent(c) == \/ pc[c] = "path" /\ ~jsonlPath[HandleOf[c]] /\ log = <<>>
             \/ pc[c] = "resolve" /\ log = <<>>
             \/ pc[c] = "tail" /\ pos[c] = Len(log)

Look(c) ==
    /\ ~waiting[c] /\ Absent(c)
    /\ waiting' = [waiting EXCEPT ![c] = TRUE]
    /\ UNCHANGED <<pc, op, prompt, offset, pos, sawUserTurn, finalText, results,
                   handleVars, claudeVars>>

\* WaitForJSONL gave up: an error for Prompt, an empty path for StartTurn.
NoTranscript(c) ==
    /\ pc[c] = "path" /\ waiting[c] /\ MayTimeOut
    /\ \/ op[c] = "prompt" /\ Fail(c)
       \/ /\ op[c] = "start" /\ Leave(c)
          /\ UNCHANGED <<op, prompt, offset, pos, sawUserTurn, finalText, results,
                         jsonlPath, asked, claudeVars>>

\* AwaitTurn with the cursor of the turn this caller started.
CallAwait(c) ==
    /\ pc[c] = "idle" /\ op[c] \in {"start", "await"}
    /\ op' = [op EXCEPT ![c] = "await"]
    /\ pc' = [pc EXCEPT ![c] = "resolve"]
    /\ UNCHANGED <<prompt, offset, pos, sawUserTurn, finalText, waiting, results,
                   handleVars, claudeVars>>

\* AwaitTurn found the transcript.
AwaitResolve(c) ==
    /\ pc[c] = "resolve" /\ log # <<>>
    /\ BeginTail(c)
    /\ UNCHANGED <<op, prompt, offset, results, handleVars, claudeVars>>

\* Mutants of the tail's answer: the position is that of the file's end.
AnswerAtEnd(c, l) == [prompt |-> prompt[c], offset |-> offset[c], end |-> Len(log),
                      text |-> NextText(l, finalText[c])]

\* What the wait returns when line l ends it.
Answer(c, l) == [prompt |-> prompt[c], offset |-> offset[c], end |-> pos[c] + 1,
                 text |-> NextText(l, finalText[c])]

\* tailJSONL hands the next line to the callback of awaitTurnAt.
ReadLine(c) ==
    /\ pc[c] = "tail" /\ pos[c] < Len(log)
    /\ LET l    == log[pos[c] + 1]
           seen == sawUserTurn[c] \/ OpensTurn(l)
       IN  \/ /\ EndsWait(l, seen)
              /\ results' = results \cup {Answer(c, l)}
              /\ Leave(c)
              /\ UNCHANGED <<pos, sawUserTurn, finalText>>
           \/ /\ ~EndsWait(l, seen)
              /\ pos' = [pos EXCEPT ![c] = @ + 1]
              /\ sawUserTurn' = [sawUserTurn EXCEPT ![c] = seen]
              /\ finalText' = [finalText EXCEPT ![c] = NextText(l, @)]
              /\ waiting' = [waiting EXCEPT ![c] = FALSE]
              /\ UNCHANGED <<pc, results, lock>>
    /\ UNCHANGED <<op, prompt, offset, jsonlPath, asked, claudeVars>>

\* Mutant: the context is only looked at once the user line has been seen.
TimeOutAfterEcho(c) ==
    /\ MayTimeOut /\ waiting[c]
    /\ pc[c] \in {"tail", "resolve"} /\ (pc[c] = "tail" => sawUserTurn[c])
    /\ Leave(c)
    /\ UNCHANGED <<op, prompt, offset, pos, sawUserTurn, finalText, results,
                   jsonlPath, asked, claudeVars>>

\* The context is over.  It is only looked at after a look at the file system
\* that found nothing new; what was written since is not read any more.
\* Prompt returns its deadline error, AwaitTurn "not done".
TimeOut(c) ==
    /\ MayTimeOut /\ waiting[c]
    /\ pc[c] \in {"tail", "resolve"}
    /\ Leave(c)
    /\ UNCHANGED <<op, prompt, offset, pos, sawUserTurn, finalText, results,
                   jsonlPath, asked, claudeVars>>

\* The steps of a call under way, other than taking the mutex.
Step(c) == \/ CheckExited(c) \/ RecordOffset(c) \/ TypePrompt(c) \/ PressEnter(c)
           \/ ResolvePath(c) \/ Look(c) \/ NoTranscript(c) \/ AwaitResolve(c)
           \/ ReadLine(c) \/ TimeOut(c)

Caller(c) == \/ \E o \in Ops[c] : Call(c, o)
             \/ CallAwait(c)
             \/ Acquire(c)
             \/ Step(c)

-----------------------------------------------------------------------------
(* Claude's steps.                                                         *)

BeginTurn  == TakeMessage /\ UNCHANGED <<callerVars, handleVars>>
Work       == WriteInterim /\ UNCHANGED <<callerVars, handleVars>>
ReturnTool == WriteToolResult /\ UNCHANGED <<callerVars, handleVars>>
Speak      == WriteReply /\ UNCHANGED <<callerVars, handleVars>>
EndTurn    == WriteMarker /\ UNCHANGED <<callerVars, handleVars>>
Exit       == Quit /\ UNCHANGED <<callerVars, handleVars>>

ClaudeStep == BeginTurn \/ Work \/ ReturnTool \/ Speak \/ EndTurn

-----------------------------------------------------------------------------
Next == (\E c \in Callers : Caller(c)) \/ ClaudeStep \/ Exit

Spec == Init /\ [][Next]_vars

\* A Go mutex hands itself over to a waiter that has starved, and a goroutine
\* that can run does.
CallersRun == \A c \in Callers : /\ SF_vars(Acquire(c))
                                 /\ WF_vars(Step(c))

\* Claude ends the turns it is given.
ClaudeRuns == WF_vars(BeginTurn \/ ReturnTool \/ Speak \/ EndTurn)

CallersSpec == Spec /\ CallersRun
FairSpec    == Spec /\ CallersRun /\ ClaudeRuns

-----------------------------------------------------------------------------
(* Properties.                                                             *)

\* Every message claude receives is exactly one prompt: the two writes of one
\* SendPrompt never have another prompt's text between them, so no two prompts
\* are submitted as one message (drive.go:129-135 under session.go:92).
SingleMessages ==
    /\ \A i \in 1..Len(queue) : Len(queue[i]) = 1
    /\ \A t \in 1..Len(turns) : Len(turns[t]) = 1

\* A prompt's answer is the answer of its own turn: the wait ends on a line of
\* the turn that answers the prompt, and the text is that turn's text or none
\* (session.go:274-300).
AnswerIsOwn ==
    \A r \in results : /\ IsTurnOf(log[r.end].turn, r.prompt)
                       /\ r.text \in {NoText, log[r.end].turn}

\* An answer is only returned once the turn is over: after the line the wait
\* ended on, that turn writes nothing but its marker.  A sentence before a tool
\* call, a message still being written, a pause or a thinking block never ends
\* the wait (jsonl.go:208-233).
AnswerIsFinal ==
    \A r \in results : \A i \in r.end + 1..Len(log) :
        log[i].turn = log[r.end].turn => log[i] = Marker(log[i].turn)

\* The prior turn's marker, still flushing past the cursor, never ends the
\* wait: a turn that had replied before the cursor was taken is not the turn
\* the answer comes from, whatever overlaps (session.go:274-277).
StaleMarkerIgnored ==
    \A r \in results : \A i \in 1..r.offset : log[i] # Reply(log[r.end].turn)

\* Line i ends a wait that reads from after line o.
EndsAt(o, i) == Terminal(log[i]) /\ \E u \in o + 1..i : OpensTurn(log[u])

\* The text a reader of lines o+1..e is left with: the last one carried.
IsLastText(o, e, txt) ==
    \/ /\ txt = NoText
       /\ \A i \in o + 1..e : ~CarriesText(log[i])
    \/ \E i \in o + 1..e : /\ CarriesText(log[i])
                           /\ txt = TextFromContent(log[i])
                           /\ \A j \in i + 1..e : ~CarriesText(log[j])

\* Reading from offset o ends on line e with text txt: e is the first line
\* that ends the wait.
IsReading(o, e, txt) ==
    /\ e \in o + 1..Len(log) /\ EndsAt(o, e)
    /\ \A i \in o + 1..e - 1 : ~EndsAt(o, i)
    /\ IsLastText(o, e, txt)

\* Whatever was going on while the tail was read - lines appended between two
\* reads, other callers, a call cut off by its deadline and made again - the
\* answer is the one the whole transcript determines for the cursor.  Hence two
\* polls of one cursor that are done agree (session.go:259-300).
AnswersFollowTranscript == \A r \in results : IsReading(r.offset, r.end, r.text)

PollsAgree == \A r1, r2 \in results : r1.offset = r2.offset =>
                  r1.end = r2.end /\ r1.text = r2.text

\* Every call returns: a caller that asked for the mutex, or began to poll, is
\* back to idle eventually.
CallsReturn == \A c \in Callers : pc[c] \in {"lock", "resolve"} ~> pc[c] = "idle"
=============================================================================
