------------------------------- MODULE Claude -------------------------------
(***************************************************************************)
(* The claude TUI as pkg/claudep and pkg/claudepty use it (external code): *)
(* what is typed gathers in the input box, Enter submits the box as one    *)
(* message, messages are taken up one at a time and in order, and every    *)
(* line of a turn is appended to the transcript, the end-of-turn marker    *)
(* last.                                                                   *)
(***************************************************************************)
EXTENDS Transcript

CONSTANTS
    Openings,    \* what claude was doing when the conversation was opened
    MayExit,     \* whether claude may exit
    MaxWork      \* bound: interim lines claude writes in all

VARIABLES
    box,          \* the prompts typed in the input box and not submitted
    queue,        \* messages submitted and not yet taken up
    turns,        \* the message each turn answers
    phase,        \* what claude is doing
    work,         \* interim lines written
    log,          \* the transcript
    alive

claudeVars == <<box, queue, turns, phase, work, log, alive>>

Phases == {"idle", "busy", "tool", "replied"}

\* Prompt 0 stands for the message an earlier session left behind.
Message == Seq(Nat)

\* A new conversation, or one continued from an earlier session whose last
\* turn has replied (its marker still to come) or is still running.
InitClaude ==
    /\ box = <<>> /\ queue = <<>> /\ work = 0 /\ alive = TRUE
    /\ \/ /\ "new" \in Openings
          /\ phase = "idle" /\ turns = <<>> /\ log = <<>>
       \/ /\ "replied" \in Openings
          /\ phase = "replied" /\ turns = <<<<0>>>> /\ log = <<UserEcho(1), Reply(1)>>
       \/ /\ "busy" \in Openings
          /\ phase = "busy" /\ turns = <<<<0>>>> /\ log = <<UserEcho(1)>>

-----------------------------------------------------------------------------
(* What the caller's two writes do to it.                                  *)

ReceivePrompt(p) ==
    /\ box' = IF alive THEN Append(box, p) ELSE box
    /\ UNCHANGED <<queue, turns, phase, work, log, alive>>

\* Enter submits all that is in the box.
ReceiveEnter ==
    /\ IF alive /\ box # <<>>
       THEN queue' = Append(queue, box) /\ box' = <<>>
       ELSE UNCHANGED <<queue, box>>
    /\ UNCHANGED <<turns, phase, work, log, alive>>

-----------------------------------------------------------------------------
(* Its own steps.                                                          *)

\* It takes up the next message: a new turn, echoed in the transcript.
TakeMessage ==
    /\ alive /\ phase = "idle" /\ queue # <<>>
    /\ turns' = Append(turns, Head(queue))
    /\ queue' = Tail(queue)
    /\ log' = Append(log, UserEcho(Len(turns) + 1))
    /\ phase' = "busy"
    /\ UNCHANGED <<box, work, alive>>

\* It thinks, speaks without finishing, or calls a tool.
WriteInterim ==
    /\ alive /\ phase = "busy" /\ work < MaxWork
    /\ \E l \in InterimLines(Len(turns)) :
         /\ log' = Append(log, l)
         /\ phase' = IF "tool_use" \in l.blocks THEN "tool" ELSE "busy"
    /\ work' = work + 1
    /\ UNCHANGED <<box, queue, turns, alive>>

\* The tool's result comes back, as a line of type "user".
WriteToolResult ==
    /\ alive /\ phase = "tool"
    /\ log' = Append(log, ToolResult(Len(turns)))
    /\ phase' = "busy"
    /\ UNCHANGED <<box, queue, turns, work, alive>>

\* The text that closes the turn.
WriteReply ==
    /\ alive /\ phase = "busy"
    /\ log' = Append(log, Reply(Len(turns)))
    /\ phase' = "replied"
    /\ UNCHANGED <<box, queue, turns, work, alive>>

\* The turn_duration marker, after a reply or a turn that ended without one.
WriteMarker ==
    /\ alive /\ phase \in {"busy", "replied"}
    /\ log' = Append(log, Marker(Len(turns)))
    /\ phase' = "idle"
    /\ UNCHANGED <<box, queue, turns, work, alive>>

Quit ==
    /\ MayExit /\ alive
    /\ alive' = FALSE
    /\ UNCHANGED <<box, queue, turns, phase, work, log>>

-----------------------------------------------------------------------------
(* What its transcript looks like.                                         *)

\* The lines claude may write for turn t.
LinesOf(t) == {UserEcho(t), ToolResult(t), Reply(t), Marker(t)} \cup InterimLines(t)

\* Line l may come after line k: the turns come in order, a turn's reply is
\* followed by its marker alone, and its marker by nothing.
MayFollow(k, l) == \/ k.turn < l.turn
                   \/ /\ k.turn = l.turn /\ k # Marker(k.turn)
                      /\ k = Reply(k.turn) => l = Marker(l.turn)

\* Every line is one of a turn begun, the lines are in order, and the turn at
\* work has neither reply nor marker yet.
WellWritten ==
    /\ \A i \in 1..Len(log) : /\ log[i].turn \in 1..Len(turns)
                              /\ log[i] \in LinesOf(log[i].turn)
    /\ \A i, j \in 1..Len(log) : i < j => MayFollow(log[i], log[j])
    /\ \A i \in 1..Len(log) : log[i].turn = Len(turns) =>
          /\ log[i] = Reply(log[i].turn) => phase \in {"replied", "idle"}
          /\ log[i] = Marker(log[i].turn) => phase = "idle"

\* The turn that answers prompt p, if claude has begun one.
IsTurnOf(t, p) == t \in 1..Len(turns) /\ \E i \in 1..Len(turns[t]) : turns[t][i] = p
=============================================================================
