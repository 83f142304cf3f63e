------------------------------ MODULE Dialogue ------------------------------
(***************************************************************************)
(* What a Session promises the callers of Prompt (pkg/claudep/session.go,  *)
(* the comments on Session and Prompt): claude receives the prompts one at *)
(* a time, each as one message of its own, the next only when the previous *)
(* one has been answered, and every answer is that of its own turn.  A     *)
(* prompt is only given up when claude is gone.                            *)
(***************************************************************************)
EXTENDS Integers, Sequences

CONSTANT MaxPrompts    \* bound: prompts asked

VARIABLES
    waiting,    \* prompts asked and not yet received by claude
    history,    \* the messages claude has received, 0 for an earlier session's
    answers,    \* the answers given: which prompt, from which turn
    living      \* claude runs

dialogueVars == <<waiting, history, answers, living>>

Answered == {a.prompt : a \in answers}
Received == {history[i] : i \in 1..Len(history)} \ {0}

DialogueInit == /\ waiting = {}
                /\ history \in {<<>>, <<0>>}
                /\ answers = {}
                /\ living = TRUE

Ask == \E p \in 1..MaxPrompts :
         /\ p \notin waiting \cup Received
         /\ waiting' = waiting \cup {p}
         /\ UNCHANGED <<history, answers, living>>

\* The turn is not shared: everything received so far has been answered.
Receive == \E p \in waiting :
             /\ living /\ Received = Answered
             /\ waiting' = waiting \ {p}
             /\ history' = Append(history, p)
             /\ UNCHANGED <<answers, living>>

\* The prompt's own turn is its place in the history.
Respond == \E t \in 1..Len(history) :
             /\ history[t] \in Received \ Answered
             /\ answers' = answers \cup {[prompt |-> history[t], turn |-> t]}
             /\ UNCHANGED <<waiting, history, living>>

End == living /\ living' = FALSE /\ UNCHANGED <<waiting, history, answers>>

GiveUp == \E p \in waiting :
            /\ ~living /\ waiting' = waiting \ {p}
            /\ UNCHANGED <<history, answers, living>>

DialogueNext == Ask \/ Receive \/ Respond \/ End \/ GiveUp

DialogueSpec == DialogueInit /\ [][DialogueNext]_dialogueVars
=============================================================================
