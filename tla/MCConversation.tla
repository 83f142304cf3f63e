--------------------------- MODULE MCConversation ---------------------------
(* Instances of Conversation for TLC.                                      *)
EXTENDS ConversationRefinement

CONSTANTS a, b

\* One Session shared by all callers (the in-process backend), or one per call
\* (DaemonSession).
SharedHandle == [c \in Callers |-> 1]
OwnHandle    == [c \in Callers |-> IF c = a THEN 1 ELSE 2]

PromptsOnly     == [c \in Callers |-> {"prompt"}]
PromptsAndStart == [c \in Callers |-> IF c = a THEN {"prompt"} ELSE {"start"}]
=============================================================================
