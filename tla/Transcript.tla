----------------------------- MODULE Transcript -----------------------------
(***************************************************************************)
(* The lines of claude's persisted JSONL transcript as pkg/claudep decodes *)
(* them (jsonl.go): which lines end a turn, which carry text, and the step *)
(* the turn-awaiting callback takes on each of them (session.go).          *)
(*                                                                         *)
(* A line keeps only what the code tells apart.  `turn` is a ghost: the    *)
(* number of the conversation turn claude wrote the line for.  No operator *)
(* that models code reads it, except that the text of an assistant line is *)
(* abstracted to the number of the turn it belongs to.                     *)
(***************************************************************************)
EXTENDS Integers, Sequences

\* The empty string: a line, or an answer, without text.
NoText == 0

LineTypes   == {"user", "assistant", "system"}
StopReasons == {"", "end_turn", "tool_use", "pause_turn"}
BlockTypes  == {"text", "thinking", "tool_use", "tool_result"}

\* What survives of one JSONL line once it is decoded: the event's type,
\* whether its subtype is turn_duration, and the message's stop reason and the
\* types of its content blocks.
Line == [type : LineTypes, marker : BOOLEAN, stop : StopReasons,
         blocks : SUBSET BlockTypes, turn : Nat \ {0}]

-----------------------------------------------------------------------------
(* The lines claude writes for turn t.                                     *)

UserEcho(t)   == [type |-> "user", marker |-> FALSE, stop |-> "",
                  blocks |-> {"text"}, turn |-> t]
ToolResult(t) == [type |-> "user", marker |-> FALSE, stop |-> "",
                  blocks |-> {"tool_result"}, turn |-> t]
Assistant(t, stop, blocks) == [type |-> "assistant", marker |-> FALSE,
                               stop |-> stop, blocks |-> blocks, turn |-> t]
Marker(t)     == [type |-> "system", marker |-> TRUE, stop |-> "",
                  blocks |-> {}, turn |-> t]

\* The text message that closes a turn.
Reply(t) == Assistant(t, "end_turn", {"text"})

\* Assistant lines claude writes before it is done with the turn: a message
\* still being written (no stop reason yet), a tool call with or without a
\* sentence before it, a paused turn, and the extended-thinking message whose
\* stop reason already is end_turn.
InterimLines(t) == { Assistant(t, "", {"text"}),
                     Assistant(t, "tool_use", {"tool_use"}),
                     Assistant(t, "tool_use", {"text", "tool_use"}),
                     Assistant(t, "pause_turn", {"text"}),
                     Assistant(t, "end_turn", {"thinking"}) }

-----------------------------------------------------------------------------
(* Decoding (jsonl.go).                                                    *)

NonTerminalStopReasons == {"tool_use", "pause_turn"}

TextFromContent(l) == IF "text" \in l.blocks THEN l.turn ELSE NoText

\* Mutants: the end-of-turn marker is not recognised; a message is final as
\* soon as its stop reason is, text or not.
TerminalNoMarker(l) ==
    /\ l.type = "assistant"
    /\ l.stop # "" /\ l.stop \notin NonTerminalStopReasons
    /\ "text" \in l.blocks

TerminalAnyBlock(l) ==
    \/ l.type = "system" /\ l.marker
    \/ l.type = "assistant" /\ l.stop # "" /\ l.stop \notin NonTerminalStopReasons

\* Mutant: a tool call counts as the end of the turn.
TerminalToolUse(l) ==
    \/ l.type = "system" /\ l.marker
    \/ /\ l.type = "assistant"
       /\ l.stop # "" /\ l.stop # "pause_turn"
       /\ "text" \in l.blocks

\* A line is terminal when it is the turn_duration marker, or an assistant
\* message with a final stop reason and at least one text block.
Terminal(l) ==
    \/ l.type = "system" /\ l.marker
    \/ /\ l.type = "assistant"
       /\ l.stop # "" /\ l.stop \notin NonTerminalStopReasons
       /\ "text" \in l.blocks

-----------------------------------------------------------------------------
(* The callback of awaitTurnAt (session.go).                               *)

OpensTurn(l)  == l.type = "user"
CarriesText(l) == l.type = "assistant" /\ TextFromContent(l) # NoText

\* Mutant: the gate on the user line is missing.
EndsWaitUngated(l, sawUserTurn) == Terminal(l)

\* The line ends the wait: terminal, and a user line came before it.
EndsWait(l, sawUserTurn) == Terminal(l) /\ sawUserTurn

\* Mutant: the first text is kept instead of the last.
NextTextFirst(l, finalText) ==
    IF CarriesText(l) /\ finalText = NoText THEN TextFromContent(l) ELSE finalText

NextText(l, finalText) == IF CarriesText(l) THEN TextFromContent(l) ELSE finalText
=============================================================================
