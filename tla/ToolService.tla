----------------------------- MODULE ToolService -----------------------------
(***************************************************************************)
(* What the MCP bridge (pkg/claudemcp) promises those who call its tools:  *)
(* a call looks the registry up once, at one moment between being asked    *)
(* and being told, and is told what became of what it found there - or     *)
(* that the bridge is lost, when nothing was looked up.                    *)
(***************************************************************************)
EXTENDS Naturals, FiniteSets

CONSTANTS Calls, Tools

VARIABLES
    tools,   \* the version registered of each tool, 0 for none
    state,   \* "new", "asked", "told", "cut"
    wants,   \* the tools a call asks for: one, or all of them
    took,    \* the calls that have looked the registry up
    found,   \* and what each found: tools with their versions
    answer

serviceVars == <<tools, state, wants, took, found, answer>>

NoAnswer   == [of |-> {}, kind |-> "none", found |-> {}]
LostAnswer == [NoAnswer EXCEPT !.kind = "lost"]

\* The answers to call c when it found f.
Answers(c, f) == [of : {{c}}, kind : {"told"}, found : {f}]

Registered(reg, S) == {<<t, reg[t]>> : t \in {u \in S : reg[u] > 0}}

ServiceInit ==
    /\ tools = [t \in Tools |-> 0]
    /\ state = [c \in Calls |-> "new"] /\ wants = [c \in Calls |-> {}]
    /\ took = {} /\ found = [c \in Calls |-> {}]
    /\ answer = [c \in Calls |-> NoAnswer]

\* A tool that is registered never goes away; registering it again replaces it.
Register(S) ==
    /\ tools' = [t \in Tools |-> IF t \in S THEN tools[t] + 1 ELSE tools[t]]
    /\ UNCHANGED <<state, wants, took, found, answer>>

Ask(c) ==
    /\ state[c] = "new"
    /\ state' = [state EXCEPT ![c] = "asked"]
    /\ \E S \in SUBSET Tools : wants' = [wants EXCEPT ![c] = S]
    /\ UNCHANGED <<tools, took, found, answer>>

\* The lookup.  A caller that was cut off meanwhile does not stop it.
Take(c) ==
    /\ state[c] \in {"asked", "cut"} /\ c \notin took
    /\ took' = took \cup {c}
    /\ found' = [found EXCEPT ![c] = Registered(tools, wants[c])]
    /\ UNCHANGED <<tools, state, wants, answer>>

Tell(c) ==
    /\ state[c] = "asked"
    /\ state' = [state EXCEPT ![c] = "told"]
    /\ \/ c \in took /\ \E a \in Answers(c, found[c]) : answer' = [answer EXCEPT ![c] = a]
       \/ c \notin took /\ answer' = [answer EXCEPT ![c] = LostAnswer]
    /\ UNCHANGED <<tools, wants, took, found>>

Cut(S) ==
    /\ state' = [c \in Calls |-> IF c \in S /\ state[c] # "told" THEN "cut" ELSE state[c]]
    /\ UNCHANGED <<tools, wants, took, found, answer>>

ServiceNext ==
    \/ \E S \in SUBSET Tools : Register(S)
    \/ \E c \in Calls : Ask(c) \/ Take(c) \/ Tell(c)
    \/ \E S \in SUBSET Calls : Cut(S)

ServiceSpec == ServiceInit /\ [][ServiceNext]_serviceVars
=============================================================================
