----------------------- MODULE ConversationRefinement -----------------------
(***************************************************************************)
(* Conversation implements Dialogue when the callers share one Session, no *)
(* deadline cuts a turn off and no turn was running when the conversation  *)
(* was opened.  Claude has received a prompt once Enter submitted the      *)
(* message it is in.                                                       *)
(***************************************************************************)
EXTENDS Conversation

\* The steps of a call up to the second write.
BeforeEnter == {"lock", "check", "offset", "type", "enter"}

Unsent == {prompt[c] : c \in {d \in Callers : pc[d] \in BeforeEnter}}

\* A message holds one prompt (SingleMessages).
Heads(messages) == [i \in 1..Len(messages) |-> Head(messages[i])]

History == Heads(turns \o queue)

Given == {[prompt |-> r.prompt, turn |-> log[r.end].turn] : r \in results}

Dialogue == INSTANCE Dialogue WITH
    waiting <- Unsent, history <- History, answers <- Given, living <- alive

\* Every behaviour of the conversation is a dialogue: prompts reach claude one
\* at a time and unmixed, each is received only after the one before it was
\* answered, and is answered once, from its own turn (session.go:88-128).
ImplementsDialogue == Dialogue!DialogueSpec
=============================================================================
