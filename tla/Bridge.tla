------------------------------- MODULE Bridge -------------------------------
(***************************************************************************)
(* The MCP bridge (pkg/claudemcp): a BridgeServer in the host's process    *)
(* (server.go) with a goroutine per connection, and the relay processes    *)
(* claude starts (relay/relay.go), each with one Client (client.go) that   *)
(* its concurrent tool calls share.  Requests and responses carry no       *)
(* number: only the order on the connection says which answers which.      *)
(***************************************************************************)
EXTENDS Naturals, Sequences, FiniteSets, Functions

CONSTANTS
    Relays,      \* the relays; each also stands for its own list_tools call
    ToolCalls,   \* the tool calls claude makes
    RelayOf,     \* the relay of each
    Tools,
    MaxAdds,     \* bound: registrations of tools in all
    MayFail,     \* whether Accept may fail while the bridge is open
    Traced,      \* whether the host gave the server a writer for the trace
    Dropped      \* the calls whose entry the writer fails to write

Calls    == Relays \cup ToolCalls
Owner(c) == IF c \in Relays THEN c ELSE RelayOf[c]

ASSUME BridgeAssumption ==
    /\ Relays \cap ToolCalls = {} /\ RelayOf \in [ToolCalls -> Relays]
    /\ MaxAdds \in Nat /\ MayFail \in BOOLEAN
    /\ Traced \in BOOLEAN /\ Dropped \subseteq Calls

VARIABLES
    \* the server
    tools,      \* the version registered of each tool, 0 for none
    readers,    \* the goroutines that hold the mutex for reading
    closed, listening, serve,
    trace,      \* the entries of the trace
    \* its goroutine for each connection
    hand,       \* "none", "read", "found", "run", "adding", "trace", "write", "over"
    req, resp,
    \* the connections
    conn,       \* "none", "open", "reset", "closed" (by the relay)
    reqs, resps,
    \* the relays and their calls
    relay,      \* "start", "up", "gone"
    state, wants, answer,
    \* ghosts: the calls whose lookup was made, and what each found
    took, found

serverVars == <<closed, listening, serve>>
handVars   == <<hand, req, resp>>
connVars   == <<conn, reqs, resps>>
callVars   == <<relay, state, wants, answer>>
ghosts     == <<took, found>>
vars == <<tools, readers, serverVars, trace, handVars, connVars, callVars, ghosts>>

Registrations == Tools \X Nat
NoAnswer   == [of |-> {}, kind |-> "none", found |-> {}]
LostAnswer == [NoAnswer EXCEPT !.kind = "lost"]
Response   == [of : SUBSET Calls, kind : {"none", "lost", "told"},
               found : SUBSET Registrations]

TypeOK ==
    /\ tools \in [Tools -> Nat] /\ readers \subseteq Relays
    /\ closed \in BOOLEAN /\ listening \in BOOLEAN /\ serve \in {"accept", "nil", "err"}
    /\ trace \subseteq Response
    /\ hand \in [Relays -> {"none", "read", "found", "run", "adding", "trace", "write", "over"}]
    /\ req \in [Relays -> Calls] /\ resp \in [Relays -> Response]
    /\ conn \in [Relays -> {"none", "open", "reset", "closed"}]
    /\ reqs \in [Relays -> Seq(Calls)] /\ resps \in [Relays -> Seq(Response)]
    /\ relay \in [Relays -> {"start", "up", "gone"}]
    /\ state \in [Calls -> {"new", "want", "recv", "told", "cut"}]
    /\ wants \in [Calls -> SUBSET Tools] /\ answer \in [Calls -> Response]
    /\ took \subseteq Calls /\ found \in [Calls -> SUBSET Registrations]

Init ==
    /\ tools = [t \in Tools |-> 0] /\ readers = {}
    /\ closed = FALSE /\ listening = TRUE /\ serve = "accept" /\ trace = {}
    /\ hand = [r \in Relays |-> "none"] /\ req = [r \in Relays |-> r]
    /\ resp = [r \in Relays |-> NoAnswer]
    /\ conn = [r \in Relays |-> "none"]
    /\ reqs = [r \in Relays |-> <<>>] /\ resps = [r \in Relays |-> <<>>]
    /\ relay = [r \in Relays |-> "start"]
    /\ state = [c \in Calls |-> "new"] /\ wants = [c \in Calls |-> {}]
    /\ answer = [c \in Calls |-> NoAnswer]
    /\ took = {} /\ found = [c \in Calls |-> {}]

-----------------------------------------------------------------------------
(* The registry and the life of the server.                                *)

\* What is registered of the tools in S.
Registered(S) == {<<t, tools[t]>> : t \in {u \in S : tools[u] > 0}}

\* Only so many registrations are looked at.
MayAdd(S) == FoldFunction(+, 0, tools) + Cardinality(S) <= MaxAdds

\* Mutant: the map is made anew.
RegisterAfresh(S) ==
    /\ readers = {} /\ MayAdd(S)
    /\ tools' = [t \in Tools |-> IF t \in S THEN tools[t] + 1 ELSE 0]

\* The map under the mutex: a name that is there is overwritten.
Register(S) ==
    /\ readers = {} /\ MayAdd(S)
    /\ tools' = [t \in Tools |-> IF t \in S THEN tools[t] + 1 ELSE tools[t]]

AddTools ==
    /\ \E S \in SUBSET Tools \ {{}} : Register(S)
    /\ UNCHANGED <<readers, serverVars, trace, handVars, connVars, callVars, ghosts>>

\* A connection in the listener's queue.
Queued(r) == hand[r] = "none" /\ conn[r] \in {"open", "closed"}

Accept(r) ==
    /\ serve = "accept" /\ listening /\ Queued(r)
    /\ hand' = [hand EXCEPT ![r] = "read"]
    /\ UNCHANGED <<tools, readers, serverVars, trace, req, resp, connVars, callVars, ghosts>>

\* Accept fails on a closed listener, or by itself.
AcceptFails ==
    /\ serve = "accept" /\ (~listening \/ MayFail)
    /\ serve' = IF closed THEN "nil" ELSE "err"
    /\ UNCHANGED <<tools, readers, closed, listening, trace, handVars, connVars, callVars, ghosts>>

\* Closing the listener resets the connections nobody has accepted.
CloseListener ==
    /\ listening' = FALSE
    /\ conn' = [r \in Relays |-> IF Queued(r) /\ conn[r] = "open" THEN "reset" ELSE conn[r]]

\* Mutant: the flag is set once the listener is closed.
CloseThenFlag ==
    /\ \/ listening /\ CloseListener /\ UNCHANGED closed
       \/ ~listening /\ ~closed /\ closed' = TRUE /\ UNCHANGED <<listening, conn>>
    /\ UNCHANGED <<tools, readers, serve, trace, handVars, reqs, resps, callVars, ghosts>>

\* The flag, then the listener; a further Close returns at once.
Close ==
    /\ \/ ~closed /\ closed' = TRUE /\ UNCHANGED <<listening, conn>>
       \/ closed /\ listening /\ CloseListener /\ UNCHANGED closed
    /\ UNCHANGED <<tools, readers, serve, trace, handVars, reqs, resps, callVars, ghosts>>

-----------------------------------------------------------------------------
(* handle: one goroutine for a connection.                                 *)

ByHandler == UNCHANGED <<serverVars, conn, callVars>>

\* The next request, and the lookup (or the whole list) under the read lock.
TakeRequest(r) ==
    /\ hand[r] = "read" /\ reqs[r] # <<>>
    /\ LET c == Head(reqs[r]) IN
         /\ req' = [req EXCEPT ![r] = c]
         /\ took' = took \cup {c}
         /\ found' = [found EXCEPT ![c] = Registered(wants[c])]
    /\ reqs' = [reqs EXCEPT ![r] = Tail(@)]
    /\ readers' = readers \cup {r}
    /\ hand' = [hand EXCEPT ![r] = "found"]
    /\ UNCHANGED <<tools, trace, resp, resps>> /\ ByHandler

\* Everything was read and the relay has closed the connection.
ReadFails(r) ==
    /\ hand[r] = "read" /\ reqs[r] = <<>> /\ conn[r] = "closed"
    /\ hand' = [hand EXCEPT ![r] = "over"]
    /\ UNCHANGED <<tools, readers, trace, req, resp, reqs, resps, ghosts>> /\ ByHandler

\* What became of what was found: the list, the handler's result or its error, or
\* that the tool is unknown.
Respond(r) ==
    resp' = [resp EXCEPT ![r] = [of |-> {req[r]}, kind |-> "told", found |-> found[req[r]]]]

\* list_tools and an unknown tool run no handler.
NeedsHandler(c) == c \notin Relays /\ found[c] # {}

\* Mutant: the lock is held while the handler runs.
ReleaseLate(r) ==
    /\ hand[r] = "found"
    /\ IF NeedsHandler(req[r])
       THEN hand' = [hand EXCEPT ![r] = "run"] /\ UNCHANGED <<resp, readers>>
       ELSE hand' = [hand EXCEPT ![r] = "trace"] /\ Respond(r) /\ readers' = readers \ {r}
    /\ UNCHANGED <<tools, trace, req, reqs, resps, ghosts>> /\ ByHandler

\* The lock is released before the handler runs.
Release(r) ==
    /\ hand[r] = "found" /\ readers' = readers \ {r}
    /\ IF NeedsHandler(req[r])
       THEN hand' = [hand EXCEPT ![r] = "run"] /\ UNCHANGED resp
       ELSE hand' = [hand EXCEPT ![r] = "trace"] /\ Respond(r)
    /\ UNCHANGED <<tools, trace, req, reqs, resps, ghosts>> /\ ByHandler

\* The host's handler (external) returns, or goes on to register tools first.
RunHandler(r) ==
    /\ hand[r] = "run"
    /\ \/ Respond(r) /\ hand' = [hand EXCEPT ![r] = "trace"]
       \/ UNCHANGED resp /\ hand' = [hand EXCEPT ![r] = "adding"]
    /\ UNCHANGED <<tools, readers, trace, req, reqs, resps, ghosts>> /\ ByHandler

AddInHandler(r) ==
    /\ hand[r] = "adding"
    /\ \/ \E S \in SUBSET Tools \ {{}} : Register(S)
       \/ readers = {} /\ (\A t \in Tools : ~MayAdd({t})) /\ UNCHANGED tools
    /\ Respond(r) /\ hand' = [hand EXCEPT ![r] = "trace"]
    /\ UNCHANGED <<readers, trace, req, reqs, resps, ghosts>> /\ ByHandler

Recorded(c) == Traced /\ c \notin Dropped

\* The entry is written under the mutex.  Without a writer nothing is written, and
\* the error of a write is ignored.
Trace(r) ==
    /\ hand[r] = "trace" /\ (Traced => readers = {})
    /\ trace' = IF Recorded(req[r]) THEN trace \cup {resp[r]} ELSE trace
    /\ hand' = [hand EXCEPT ![r] = "write"]
    /\ UNCHANGED <<tools, readers, req, resp, reqs, resps, ghosts>> /\ ByHandler

WriteResp(r) ==
    /\ hand[r] = "write"
    /\ IF conn[r] = "open"
       THEN resps' = [resps EXCEPT ![r] = Append(@, resp[r])] /\ hand' = [hand EXCEPT ![r] = "read"]
       ELSE UNCHANGED resps /\ hand' = [hand EXCEPT ![r] = "over"]
    /\ UNCHANGED <<tools, readers, trace, req, resp, reqs, ghosts>> /\ ByHandler

\* Mutant: the response is written before its entry in the trace.
ReplyThenTrace(r) ==
    /\ \/ /\ hand[r] = "trace" /\ hand' = [hand EXCEPT ![r] = "write"]
          /\ resps' = [resps EXCEPT ![r] = IF conn[r] = "open" THEN Append(@, resp[r]) ELSE @]
          /\ UNCHANGED trace
       \/ /\ hand[r] = "write" /\ hand' = [hand EXCEPT ![r] = IF conn[r] = "open" THEN "read" ELSE "over"]
          /\ readers = {} /\ trace' = trace \cup {resp[r]}
          /\ UNCHANGED resps
    /\ UNCHANGED <<tools, readers, req, resp, reqs, ghosts>> /\ ByHandler

Reply(r) == Trace(r) \/ WriteResp(r)

-----------------------------------------------------------------------------
(* The relay, and Call of its Client.                                      *)

ByRelay == UNCHANGED <<tools, readers, serverVars, trace, handVars, ghosts>>

Told(c, a) == state' = [state EXCEPT ![c] = "told"] /\ answer' = [answer EXCEPT ![c] = a]

\* Dial needs the listener; the list of tools is asked for at once.
Dial(r) ==
    /\ relay[r] = "start"
    /\ IF listening
       THEN /\ relay' = [relay EXCEPT ![r] = "up"] /\ conn' = [conn EXCEPT ![r] = "open"]
            /\ state' = [state EXCEPT ![r] = "want"] /\ wants' = [wants EXCEPT ![r] = Tools]
       ELSE relay' = [relay EXCEPT ![r] = "gone"] /\ UNCHANGED <<conn, state, wants>>
    /\ UNCHANGED <<reqs, resps, answer>> /\ ByRelay

Listed(r) == {p[1] : p \in answer[r].found}

\* Claude calls a tool of the list its relay was given.
Ask(c) ==
    /\ state[c] = "new" /\ relay[RelayOf[c]] = "up" /\ state[RelayOf[c]] = "told"
    /\ \E t \in Listed(RelayOf[c]) : wants' = [wants EXCEPT ![c] = {t}]
    /\ state' = [state EXCEPT ![c] = "want"]
    /\ UNCHANGED <<relay, answer, connVars>> /\ ByRelay

\* The Client's mutex is held from the request to its response.
Busy(r) == \E c \in Calls : Owner(c) = r /\ state[c] = "recv"

\* Mutant: Call does not take the mutex.
SendAtOnce(c) ==
    /\ state[c] = "want"
    /\ IF conn[Owner(c)] = "reset"
       THEN Told(c, LostAnswer) /\ UNCHANGED reqs
       ELSE /\ reqs' = [reqs EXCEPT ![Owner(c)] = Append(@, c)]
            /\ state' = [state EXCEPT ![c] = "recv"] /\ UNCHANGED answer
    /\ UNCHANGED <<relay, wants, conn, resps>> /\ ByRelay

Send(c) ==
    /\ state[c] = "want" /\ ~Busy(Owner(c))
    /\ IF conn[Owner(c)] = "reset"
       THEN Told(c, LostAnswer) /\ UNCHANGED reqs
       ELSE /\ reqs' = [reqs EXCEPT ![Owner(c)] = Append(@, c)]
            /\ state' = [state EXCEPT ![c] = "recv"] /\ UNCHANGED answer
    /\ UNCHANGED <<relay, wants, conn, resps>> /\ ByRelay

\* The next response, or the error of a connection that was reset.
Receive(c) ==
    /\ state[c] = "recv"
    /\ LET r == Owner(c) IN
         \/ /\ resps[r] # <<>> /\ Told(c, Head(resps[r]))
            /\ resps' = [resps EXCEPT ![r] = Tail(@)]
         \/ conn[r] = "reset" /\ Told(c, LostAnswer) /\ UNCHANGED resps
    /\ UNCHANGED <<relay, wants, conn, reqs>> /\ ByRelay

\* The relay's stdin ends or claude kills it; so does a list it cannot get.
Leave(r) ==
    /\ relay[r] = "up"
    /\ relay' = [relay EXCEPT ![r] = "gone"]
    /\ conn' = [conn EXCEPT ![r] = IF @ = "open" THEN "closed" ELSE @]
    /\ state' = [c \in Calls |-> IF Owner(c) = r /\ state[c] # "told" THEN "cut" ELSE state[c]]
    /\ UNCHANGED <<wants, answer, reqs, resps>> /\ ByRelay

-----------------------------------------------------------------------------
Handle(r) == \/ TakeRequest(r) \/ ReadFails(r) \/ Release(r) \/ RunHandler(r)
             \/ AddInHandler(r) \/ Reply(r)
Call(c)   == Send(c) \/ Receive(c)
Client(r) == \E c \in Calls : Owner(c) = r /\ Call(c)
Serve     == AcceptFails \/ \E r \in Relays : Accept(r)

Next == \/ AddTools \/ Serve \/ Close
        \/ \E r \in Relays : Handle(r) \/ Client(r) \/ Dial(r) \/ Leave(r)
        \/ \E c \in ToolCalls : Ask(c)

Spec == Init /\ [][Next]_vars

\* Goroutines that can run do, handlers return, and a Close that began goes on; the
\* host need not close the bridge, nor claude call or stop anything.
FairSpec ==
    /\ Spec
    /\ WF_vars(Serve) /\ WF_vars(closed /\ Close)
    /\ \A r \in Relays : WF_vars(Handle(r)) /\ WF_vars(Client(r))

-----------------------------------------------------------------------------
(* Properties.                                                             *)

\* Whatever the two goroutines, the shared client, the registrations and the end of
\* the server do meanwhile, each call is answered with the outcome of its own single
\* lookup of the registry (server.go:183-197, client.go:47-83).
Service == INSTANCE ToolService WITH
    state <- [c \in Calls |-> IF state[c] \in {"want", "recv"} THEN "asked" ELSE state[c]]

ImplementsToolService == Service!ServiceSpec

\* A tool a relay has listed can be called from then on: what answers is that
\* registration or a later one (server.go:85-101, relay.go:66-74).
ListedIsCallable ==
    \A c \in ToolCalls : c \in took =>
        \E p \in answer[RelayOf[c]].found : \E q \in found[c] : p[1] = q[1] /\ p[2] <= q[2]

\* The trace is never behind the callers: whoever has been told something, that is in
\* the trace already, so a call made after it comes after it there, on any relay -
\* unless the host traces nothing or the write of that entry failed, which nobody is
\* told (server.go:166-170, server.go:200-219).
AnswersAreTraced ==
    \A c \in Calls :
        state[c] = "told" /\ answer[c].kind = "told" /\ Recorded(c) => answer[c] \in trace

\* Serve reports an error only when the listener failed by itself, not when Close
\* ended it (server.go:120-128, server.go:142-144).
CloseIsNoError == [][serve' # serve /\ serve' = "err" => listening]_vars

\* Each call returns, whatever becomes of the others, of the registry and of the
\* server, unless Serve failed and its connection is left in the queue: in the end no
\* call waits any more (client.go:47, server.go:183-189).
Waiting(c) == state[c] \in {"want", "recv"} /\ ~(serve = "err" /\ hand[Owner(c)] = "none")

CallsReturn == []<>(\A c \in Calls : ~Waiting(c))
=============================================================================
