------------------------------ MODULE LineTail ------------------------------
(***************************************************************************)
(* What tailJSONL promises its callback (pkg/claudep/jsonl.go): the lines  *)
(* of the transcript after the cursor, each one once, whole and in order.  *)
(* The context is only heeded after a look that found no further line.     *)
(* Conversation reads its transcript this way (BeginTail, ReadLine, Look,  *)
(* TimeOut).                                                               *)
(***************************************************************************)
EXTENDS Naturals

VARIABLES
    lines,      \* whole lines in the file
    cursor,     \* lines read or skipped
    caughtUp,   \* the last look found no further line
    state       \* "open", "reading", "done", "context", "failed"

tailVars == <<lines, cursor, caughtUp, state>>

TailInit == lines = 0 /\ cursor = 0 /\ caughtUp = FALSE /\ state = "open"

AppendLine == lines' = lines + 1 /\ UNCHANGED <<cursor, caughtUp, state>>

\* The cursor is one the caller was given, or any other.
Begin == /\ state = "open" /\ state' = "reading"
         /\ cursor' \in 0..lines + 1
         /\ UNCHANGED <<lines, caughtUp>>

\* The next line is handed over; the callback may be done with it.
HandOver == /\ state = "reading" /\ cursor < lines
            /\ cursor' = cursor + 1
            /\ state' \in {"reading", "done"}
            /\ UNCHANGED <<lines, caughtUp>>

\* A look that found nothing, and the look after it.
CatchUp == /\ state = "reading" /\ ~caughtUp /\ cursor >= lines
           /\ caughtUp' = TRUE /\ UNCHANGED <<lines, cursor, state>>

LookAgain == /\ caughtUp /\ state = "reading"
             /\ caughtUp' = FALSE /\ UNCHANGED <<lines, cursor, state>>

GiveUp == /\ \/ state = "reading" /\ caughtUp /\ state' = "context"
             \/ state \in {"open", "reading"} /\ ~caughtUp /\ state' = "failed"
          /\ caughtUp' = FALSE
          /\ UNCHANGED <<lines, cursor>>

TailNext == AppendLine \/ Begin \/ HandOver \/ CatchUp \/ LookAgain \/ GiveUp

TailSpec == TailInit /\ [][TailNext]_tailVars
=============================================================================
