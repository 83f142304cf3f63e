------------------------------- MODULE Query -------------------------------
(***************************************************************************)
(* One run of claude-p: Query (pkg/claudep/client.go) sends one prompt to  *)
(* a claude of its own, or to the one a daemon keeps, tails the transcript *)
(* and writes the answer in the chosen format through an emitter (emit.go).*)
(*                                                                         *)
(* What the emitter writes is a sequence of events; the chunks of one      *)
(* assistant message are one event.  An event's n is the transcript line   *)
(* it forwards, or the text it carries.                                    *)
(***************************************************************************)
EXTENDS Claude

CONSTANTS
    Backends,    \* where claude may live: "inproc", "daemon"
    Formats,     \* the output formats asked for: "text", "json", "stream"
    MayTimeOut,  \* whether the run's context, or the wait for the file, may run out
    MayFail      \* whether claude may not get to its prompt

ASSUME QueryAssumption ==
    /\ Backends \subseteq {"inproc", "daemon"}
    /\ Formats \subseteq {"text", "json", "stream"}
    /\ Openings \subseteq {"new", "replied", "busy"}
    /\ {MayTimeOut, MayFail, MayExit} \subseteq BOOLEAN
    /\ MaxWork \in Nat

VARIABLES
    backend, format,
    settled,      \* ghost: no earlier turn was running when the run began
    at,           \* the call Query is in
    offset,       \* startOffset
    pos,          \* how far the tail has read
    sawUserTurn,
    waiting,      \* what it waits for was not there at the last look
    em,           \* the emitter's state
    out,          \* the events written to stdout
    cut,          \* the tail ended with the context's error
    outcome       \* what Query returned: "none", "ok", "error"

choices   == <<backend, format, settled>>
queryVars == <<choices, at, offset, pos, sawUserTurn, waiting, em, out, cut, outcome>>
vars      == <<queryVars, claudeVars>>

\* The only prompt.
OurPrompt == 1

Event(kind, n) == [kind |-> kind, n |-> n]
EventKinds == {"init", "status", "message", "toolResult", "rateLimit",
               "success", "failure", "text"}

TypeOK ==
    /\ backend \in Backends /\ format \in Formats /\ settled \in BOOLEAN
    /\ at \in {"prepare", "settle", "offset", "type", "enter", "init", "path", "tail",
               "finish", "defer", "done"}
    /\ offset \in 0..Len(log)
    /\ pos \in 0..Len(log)
    /\ sawUserTurn \in BOOLEAN /\ waiting \in BOOLEAN /\ cut \in BOOLEAN
    /\ em \in [finalText : Nat, terminalSeen : BOOLEAN, statusEmitted : BOOLEAN]
    /\ \A i \in 1..Len(out) : out[i] \in [kind : EventKinds, n : Nat]
    /\ outcome \in {"none", "ok", "error"}
    /\ phase \in Phases /\ log \in Seq(Line)

\* newBackend has returned a session (one that fails leaves nothing to close).
Init ==
    /\ InitClaude
    /\ format \in Formats /\ backend \in Backends
    /\ backend = "inproc" => log = <<>>
    /\ settled = (phase # "busy")
    /\ at = "prepare" /\ offset = 0 /\ pos = 0
    /\ sawUserTurn = FALSE /\ waiting = FALSE /\ cut = FALSE
    /\ em = [finalText |-> NoText, terminalSeen |-> FALSE, statusEmitted |-> FALSE]
    /\ out = <<>> /\ outcome = "none"

-----------------------------------------------------------------------------
(* The emitter.                                                            *)

\* Its state once it has handled line l.
Handled(l) ==
    IF l.type # "assistant" THEN em
    ELSE [finalText     |-> NextText(l, em.finalText),
          terminalSeen  |-> em.terminalSeen \/ Terminal(l),
          statusEmitted |-> em.statusEmitted \/ format = "stream"]

\* What it writes for line l, the i-th: nothing but for stream-json, and of the
\* user lines only the tool results.
Forwarded(l, i) ==
    CASE format = "stream" /\ l.type = "assistant" ->
           (IF em.statusEmitted THEN <<>> ELSE <<Event("status", 0)>>)
               \o <<Event("message", i)>>
      [] format = "stream" /\ l.type = "user" /\ "tool_result" \in l.blocks -> <<Event("toolResult", i)>>
      [] OTHER -> <<>>

\* finish: the answer alone, or the envelope, an error unless a terminal
\* assistant message was seen.
Envelope == Event(IF em.terminalSeen THEN "success" ELSE "failure", em.finalText)

Summary ==
    CASE format = "text" -> IF em.finalText = NoText THEN <<>>
                            ELSE <<Event("text", em.finalText)>>
      [] format = "json" -> <<Envelope>>
      [] format = "stream" -> <<Event("rateLimit", 0), Envelope>>

-----------------------------------------------------------------------------
(* Query.                                                                  *)

\* Session.Close: a daemon's claude lives on, one of our own is killed.
Close == /\ alive' = (backend = "daemon" /\ alive)
         /\ UNCHANGED <<box, queue, turns, phase, work, log>>

Return(o) == /\ outcome' = o
             /\ UNCHANGED <<choices, offset, pos, sawUserTurn, waiting, em, cut>>

\* An error once the session is ours: whatever is deferred comes next.
Fail == at' = "defer" /\ Return("error") /\ UNCHANGED <<out, claudeVars>>

Go(a) == /\ at' = a
         /\ UNCHANGED <<choices, pos, sawUserTurn, em, cut, outcome>>

\* prepareSession waits for the prompt and for the MCP servers, or for neither
\* when it continues a daemon's claude.
AwaitReady ==
    /\ at = "prepare"
    /\ Go("settle") \/ (backend = "daemon" /\ Go("offset"))
    /\ UNCHANGED <<offset, waiting, out, claudeVars>>

Settle == at = "settle" /\ Go("offset") /\ UNCHANGED <<offset, waiting, out, claudeVars>>

\* It closes what it hands to nobody: claude never got to its prompt, or the
\* context was over before its servers were up.  Nothing is deferred yet.
ReadyFails ==
    /\ at = "prepare" /\ (MayFail \/ ~alive)
    /\ Close
    /\ at' = "done" /\ Return("error") /\ UNCHANGED out

\* Mutant: this error path leaves the process behind.
SettleFailsOpen ==
    /\ at = "settle" /\ MayTimeOut
    /\ at' = "done" /\ Return("error") /\ UNCHANGED <<out, claudeVars>>

SettleFails ==
    /\ at = "settle" /\ MayTimeOut
    /\ Close
    /\ at' = "done" /\ Return("error") /\ UNCHANGED out

Prepare == AwaitReady \/ ReadyFails \/ Settle \/ SettleFails

\* Mutant: the transcript is read from its beginning.
RecordOffsetNever ==
    /\ at = "offset" /\ Go("type")
    /\ UNCHANGED <<offset, waiting, out, claudeVars>>

RecordOffset ==
    /\ at = "offset" /\ Go("type")
    /\ offset' = Len(log)
    /\ UNCHANGED <<waiting, out, claudeVars>>

\* SendPrompt's two writes.
TypePrompt ==
    /\ at = "type"
    /\ \/ Go("enter") /\ ReceivePrompt(OurPrompt) /\ UNCHANGED <<offset, waiting, out>>
       \/ ~alive /\ Fail

PressEnter ==
    /\ at = "enter"
    /\ \/ Go("init") /\ ReceiveEnter /\ UNCHANGED <<offset, waiting, out>>
       \/ ~alive /\ Fail

\* em.init, once the prompt is on its way.
EmitInit ==
    /\ at = "init" /\ Go("path")
    /\ out' = IF format = "stream" THEN <<Event("init", 0)>> ELSE out
    /\ UNCHANGED <<offset, waiting, claudeVars>>

\* A look at the file system that found nothing: no transcript, or no line
\* after the last one read.
Look ==
    /\ ~waiting
    /\ \/ at = "path" /\ log = <<>>
       \/ at = "tail" /\ pos = Len(log)
    /\ waiting' = TRUE
    /\ UNCHANGED <<choices, at, offset, pos, sawUserTurn, em, out, cut, outcome, claudeVars>>

\* WaitForJSONL.
FindTranscript ==
    /\ at = "path" /\ log # <<>>
    /\ at' = "tail" /\ pos' = offset /\ waiting' = FALSE
    /\ UNCHANGED <<choices, offset, sawUserTurn, em, out, cut, outcome, claudeVars>>

NoTranscript == at = "path" /\ waiting /\ MayTimeOut /\ Fail

\* The callback: the emitter handles every line, the gate decides.
ReadLine ==
    /\ at = "tail" /\ pos < Len(log)
    /\ LET l    == log[pos + 1]
           seen == sawUserTurn \/ OpensTurn(l)
       IN  /\ em' = Handled(l)
           /\ out' = out \o Forwarded(l, pos + 1)
           /\ sawUserTurn' = seen
           /\ at' = IF EndsWait(l, seen) THEN "finish" ELSE "tail"
    /\ pos' = pos + 1 /\ waiting' = FALSE
    /\ UNCHANGED <<choices, offset, cut, outcome, claudeVars>>

\* Mutant: the context is only looked at once the user line has been seen.
TimeOutAfterEcho ==
    /\ at = "tail" /\ waiting /\ MayTimeOut /\ sawUserTurn
    /\ \/ em.finalText = NoText /\ Fail
       \/ /\ em.finalText # NoText
          /\ cut' = TRUE /\ at' = "finish"
          /\ UNCHANGED <<choices, offset, pos, sawUserTurn, waiting, em, out, outcome,
                         claudeVars>>

\* The context is over: an error, unless some text was seen.
TimeOut ==
    /\ at = "tail" /\ waiting /\ MayTimeOut
    /\ \/ em.finalText = NoText /\ Fail
       \/ /\ em.finalText # NoText
          /\ cut' = TRUE /\ at' = "finish"
          /\ UNCHANGED <<choices, offset, pos, sawUserTurn, waiting, em, out, outcome,
                         claudeVars>>

\* Detach from a daemon's claude, shut down one of our own (Shutdown); then
\* em.finish.
Finish ==
    /\ at = "finish"
    /\ Close
    /\ out' = out \o Summary
    /\ at' = "defer" /\ Return("ok")

\* The Close deferred once prepareSession has handed the session over.
DeferredClose ==
    /\ at = "defer"
    /\ Close
    /\ at' = "done" /\ Return(outcome) /\ UNCHANGED out

Run == \/ Prepare \/ RecordOffset \/ TypePrompt \/ PressEnter \/ EmitInit
       \/ Look \/ FindTranscript \/ NoTranscript \/ ReadLine \/ TimeOut
       \/ Finish \/ DeferredClose

-----------------------------------------------------------------------------
(* Claude's steps.                                                         *)

BeginTurn  == TakeMessage /\ UNCHANGED queryVars
Work       == WriteInterim /\ UNCHANGED queryVars
ReturnTool == WriteToolResult /\ UNCHANGED queryVars
Speak      == WriteReply /\ UNCHANGED queryVars
EndTurn    == WriteMarker /\ UNCHANGED queryVars
Exit       == Quit /\ UNCHANGED queryVars

ClaudeStep == BeginTurn \/ Work \/ ReturnTool \/ Speak \/ EndTurn

Next == Run \/ ClaudeStep \/ Exit

Spec == Init /\ [][Next]_vars

\* The goroutine runs, and the run's context does end: Options.Timeout is never
\* zero (client.go:68-70).
FairSpec == Spec /\ WF_vars(Run)

-----------------------------------------------------------------------------
(* Properties.                                                             *)

Ours(t) == IsTurnOf(t, OurPrompt)

\* Whatever the run prints as its answer is our turn's text, never that of the
\* turn before it in a conversation that is continued, however long that turn's
\* last lines take to reach the disk (client.go:214-257).
AnswerIsOwn == settled =>
    \A i \in 1..Len(out) : out[i].kind \in {"text", "success", "failure"}
        => out[i].n = NoText \/ Ours(out[i].n)

\* The envelope says success exactly when claude did reply to our prompt in what
\* was read: a sentence before a tool call, a thinking block, a paused turn or a
\* message still being written are no reply, however the run ended
\* (emit.go:81-91, 298-304).
RepliedToUs == \E j \in offset + 1..pos : log[j] = Reply(log[j].turn) /\ Ours(log[j].turn)

EnvelopeIsHonest == settled =>
    \A i \in 1..Len(out) : out[i].kind \in {"success", "failure"} =>
        (out[i].kind = "success" <=> RepliedToUs)

\* In a stream that was not cut off each tool call is followed by its result
\* before the next message, and each result follows its call, unless the call
\* was made before the run: consumers "can pair each tool_use with its result"
\* (emit.go:113-118).
IsCall(e) == e.kind = "message" /\ "tool_use" \in log[e.n].blocks

ToolsPaired ==
    outcome = "ok" /\ ~cut =>
        \A i \in 1..Len(out) :
            /\ IsCall(out[i]) => i < Len(out) /\ out[i + 1].kind = "toolResult"
            /\ out[i].kind = "toolResult" => IsCall(out[i - 1]) \/ out[i - 1].kind = "init"

\* A run that owns its claude leaves none behind, whichever of its returns it
\* takes: the two error paths of prepareSession, which close for themselves, or
\* any return after it, which the deferred Close follows (client.go:125, 135, 212).
OneShotLeavesNoClaude == at = "done" /\ backend = "inproc" => ~alive

\* Comment, client.go:253-254: the context's error is only dropped "if we got
\* our terminal message".
CutOffIsAnError == outcome = "ok" /\ cut => em.terminalSeen

\* The run comes to an end, whatever claude does.
QueryReturns == at = "prepare" ~> at = "done"
=============================================================================
