---------------------------- MODULE BridgeProofs ----------------------------
(***************************************************************************)
(* Bridge, proved for any relays, calls, tools and registrations.          *)
(*                                                                         *)
(* Pipe says what is under way on a connection: at most one call, and      *)
(* where it is - that is why an answer without a number finds its caller.  *)
(***************************************************************************)
EXTENDS Bridge, TLAPS

\* The response to c.
Answered(c) == [of |-> {c}, kind |-> "told", found |-> found[c]]

Resting(r) == hand[r] \in {"none", "read", "over"}

Idle(r) ==
    /\ reqs[r] = <<>> /\ resps[r] = <<>> /\ Resting(r)
    /\ \A c \in Calls : Owner(c) = r => state[c] # "recv"

\* Where the request of c, or its response, is.
Asked(r, c)   == reqs[r] = <<c>> /\ resps[r] = <<>> /\ Resting(r) /\ c \notin took
Handled(r, c) == /\ reqs[r] = <<>> /\ resps[r] = <<>> /\ ~Resting(r)
                 /\ req[r] = c /\ c \in took
                 /\ hand[r] \in {"trace", "write"} => resp[r] = Answered(c)
                 /\ hand[r] = "write" /\ Recorded(c) => resp[r] \in trace
Replied(r, c) == /\ reqs[r] = <<>> /\ resps[r] = <<Answered(c)>> /\ Resting(r)
                 /\ c \in took /\ (Recorded(c) => Answered(c) \in trace)

Outstanding(r, c) ==
    /\ Owner(c) = r /\ state[c] \in {"recv", "cut"}
    /\ \A d \in Calls : Owner(d) = r /\ state[d] = "recv" => d = c
    /\ Asked(r, c) \/ Handled(r, c) \/ Replied(r, c)

Pipe(r) ==
    /\ hand[r] = "none" => resps[r] = <<>> /\ \A c \in Calls : Owner(c) = r => c \notin took
    /\ conn[r] = "reset" => hand[r] = "none"
    /\ conn[r] # "reset" => Idle(r) \/ \E c \in Calls : Outstanding(r, c)

PipeInv == \A r \in Relays : Pipe(r)

\* The calls of a relay live and end with it.
RelayInv ==
    /\ \A r \in Relays : /\ relay[r] = "start" => conn[r] = "none" /\ state[r] = "new"
                         /\ relay[r] = "up" => conn[r] \in {"open", "reset"}
    /\ \A c \in Calls : /\ state[c] \in {"want", "recv"} => relay[Owner(c)] = "up"
                        /\ state[c] = "cut" => relay[Owner(c)] = "gone"
                        /\ state[c] \in {"new", "want"} => c \notin took

\* Calls that have an answer.
AnswerInv ==
    \A c \in Calls :
        \/ answer[c] = NoAnswer /\ state[c] # "told"
        \/ answer[c] = LostAnswer /\ c \notin took /\ state[c] = "told"
        \/ /\ answer[c] = Answered(c) /\ c \in took /\ state[c] = "told"
           /\ Recorded(c) => answer[c] \in trace

BridgeInv == TypeOK /\ RelayInv /\ PipeInv /\ AnswerInv
-----------------------------------------------------------------------------
LEMMA Owners ==
    /\ \A c \in Calls : Owner(c) \in Relays
    /\ \A r \in Relays : r \in Calls /\ Owner(r) = r
    /\ \A c \in ToolCalls : c \in Calls /\ Owner(c) = RelayOf[c] /\ c \notin Relays
  BY BridgeAssumption DEF BridgeAssumption, Calls, Owner

(* Types.                                                                  *)

TypesOfServer ==
    /\ tools \in [Tools -> Nat] /\ readers \subseteq Relays
    /\ closed \in BOOLEAN /\ listening \in BOOLEAN /\ serve \in {"accept", "nil", "err"}
    /\ trace \subseteq Response
TypesOfHand ==
    /\ hand \in [Relays -> {"none", "read", "found", "run", "adding", "trace", "write", "over"}]
    /\ req \in [Relays -> Calls] /\ resp \in [Relays -> Response]
TypesOfConn ==
    /\ conn \in [Relays -> {"none", "open", "reset", "closed"}]
    /\ reqs \in [Relays -> Seq(Calls)] /\ resps \in [Relays -> Seq(Response)]
TypesOfCall ==
    /\ relay \in [Relays -> {"start", "up", "gone"}]
    /\ state \in [Calls -> {"new", "want", "recv", "told", "cut"}]
    /\ wants \in [Calls -> SUBSET Tools] /\ answer \in [Calls -> Response]
TypesOfGhosts == took \subseteq Calls /\ found \in [Calls -> SUBSET Registrations]

LEMMA Types ==
    /\ TypeOK  => TypesOfServer /\ TypesOfHand /\ TypesOfConn /\ TypesOfCall /\ TypesOfGhosts
    /\ TypesOfServer /\ TypesOfHand /\ TypesOfConn /\ TypesOfCall /\ TypesOfGhosts => TypeOK
    /\ TypesOfServer' /\ TypesOfHand' /\ TypesOfConn' /\ TypesOfCall' /\ TypesOfGhosts' => TypeOK'
  BY DEF TypeOK, TypesOfServer, TypesOfHand, TypesOfConn, TypesOfCall, TypesOfGhosts

LEMMA NoAnswerTypes == NoAnswer \in Response /\ LostAnswer \in Response
  BY DEF NoAnswer, LostAnswer, Response

LEMMA RegisteredTypes ==
    ASSUME NEW S \in SUBSET Tools, tools \in [Tools -> Nat]
    PROVE  Registered(S) \subseteq Registrations
  BY DEF Registered, Registrations

LEMMA InitTypes == Init => TypeOK
<1> SUFFICES ASSUME Init PROVE TypeOK
  OBVIOUS
<1>1. TypesOfServer /\ TypesOfGhosts
  BY DEF Init, TypesOfServer, TypesOfGhosts
<1>2. TypesOfHand
  BY Owners, NoAnswerTypes DEF Init, TypesOfHand
<1>3. TypesOfConn
  BY DEF Init, TypesOfConn
<1>4. TypesOfCall
  BY NoAnswerTypes DEF Init, TypesOfCall
<1> QED
  BY <1>1, <1>2, <1>3, <1>4, Types

LEMMA RegisterTypes ==
    ASSUME tools \in [Tools -> Nat], NEW S, Register(S) PROVE tools' \in [Tools -> Nat]
  BY DEF Register

LEMMA ServerTypes == TypeOK /\ (AddTools \/ Serve \/ Close) => TypeOK'
<1> SUFFICES ASSUME TypeOK, AddTools \/ Serve \/ Close PROVE TypeOK'
  OBVIOUS
<1> USE Types
<1>1. tools' \in [Tools -> Nat]
  BY RegisterTypes DEF TypesOfServer, AddTools, Serve, AcceptFails, Accept, Close
<1>2. TypesOfServer'
  BY <1>1 DEF TypesOfServer, AddTools, Serve, AcceptFails, Accept, Close, CloseListener, serverVars
<1>3. TypesOfHand'
  BY DEF TypesOfHand, AddTools, Serve, AcceptFails, Accept, Close, handVars
<1>4. TypesOfConn'
  BY DEF TypesOfConn, AddTools, Serve, AcceptFails, Accept, Close, CloseListener, connVars
<1>5. TypesOfCall' /\ TypesOfGhosts'
  BY DEF TypesOfCall, TypesOfGhosts, AddTools, Serve, AcceptFails, Accept, Close, callVars, ghosts
<1> QED
  BY <1>2, <1>3, <1>4, <1>5

LEMMA HandleTypes == ASSUME NEW r \in Relays PROVE TypeOK /\ Handle(r) => TypeOK'
<1> SUFFICES ASSUME TypeOK, Handle(r) PROVE TypeOK'
  OBVIOUS
<1> USE Types
<1>1. UNCHANGED <<serverVars, conn, callVars>>
  BY DEF Handle, TakeRequest, ReadFails, Release, RunHandler, AddInHandler, Reply, Trace, WriteResp,
         ByHandler
<1>2. TypesOfCall'
  BY <1>1 DEF TypesOfCall, callVars
<1>3. ASSUME Respond(r) PROVE resp' \in [Relays -> Response]
  <2>1. [of |-> {req[r]}, kind |-> "told", found |-> found[req[r]]] \in Response
    BY DEF TypesOfHand, TypesOfGhosts, Response
  <2> QED
    BY <1>3, <2>1 DEF Respond, TypesOfHand
<1>4. CASE TakeRequest(r)
  <2>1. Head(reqs[r]) \in Calls /\ Tail(reqs[r]) \in Seq(Calls)
    BY <1>4 DEF TakeRequest, TypesOfConn
  <2>2. TypesOfGhosts'
    <3>1. Registered(wants[Head(reqs[r])]) \subseteq Registrations
      BY <2>1, RegisteredTypes DEF TypesOfCall, TypesOfServer
    <3> QED
      BY <1>4, <2>1, <3>1 DEF TakeRequest, TypesOfGhosts
  <2>3. TypesOfHand'
    BY <1>4, <2>1 DEF TakeRequest, TypesOfHand
  <2>4. TypesOfConn'
    BY <1>1, <1>4, <2>1 DEF TakeRequest, TypesOfConn
  <2>5. TypesOfServer'
    BY <1>1, <1>4 DEF TakeRequest, TypesOfServer, serverVars
  <2> QED
    BY <1>2, <2>2, <2>3, <2>4, <2>5
<1>5. CASE ReadFails(r) \/ Release(r) \/ RunHandler(r) \/ AddInHandler(r)
  <2>1. TypesOfHand'
    BY <1>3, <1>5 DEF ReadFails, Release, RunHandler, AddInHandler, TypesOfHand
  <2>2. tools' \in [Tools -> Nat]
    BY <1>5, RegisterTypes DEF ReadFails, Release, RunHandler, AddInHandler, TypesOfServer
  <2>3. TypesOfServer'
    BY <1>1, <1>5, <2>2 DEF ReadFails, Release, RunHandler, AddInHandler, TypesOfServer, serverVars
  <2>4. TypesOfConn' /\ TypesOfGhosts'
    BY <1>1, <1>5 DEF ReadFails, Release, RunHandler, AddInHandler, TypesOfConn, TypesOfGhosts, ghosts
  <2> QED
    BY <1>2, <2>1, <2>3, <2>4
<1>6. CASE Trace(r) \/ WriteResp(r)
  <2>1. TypesOfHand'
    BY <1>6 DEF Trace, WriteResp, TypesOfHand
  <2>2. TypesOfServer'
    BY <1>1, <1>6 DEF Trace, WriteResp, TypesOfServer, TypesOfHand, serverVars
  <2>3. TypesOfConn'
    <3>1. resps[r] \in Seq(Response) /\ resp[r] \in Response
      BY DEF TypesOfConn, TypesOfHand
    <3>2. Append(resps[r], resp[r]) \in Seq(Response)
      BY <3>1
    <3>3. resps' \in [Relays -> Seq(Response)]
      BY <1>6, <3>2 DEF Trace, WriteResp, TypesOfConn
    <3> QED
      BY <1>1, <1>6, <3>3 DEF Trace, WriteResp, TypesOfConn
  <2>4. TypesOfGhosts'
    BY <1>6 DEF Trace, WriteResp, TypesOfGhosts, ghosts
  <2> QED
    BY <1>2, <2>1, <2>2, <2>3, <2>4
<1> QED
  BY <1>4, <1>5, <1>6 DEF Handle, Reply

LEMMA RelayTypes ==
    TypeOK /\ (\/ \E r \in Relays : Client(r) \/ Dial(r) \/ Leave(r)
               \/ \E c \in ToolCalls : Ask(c)) => TypeOK'
<1> SUFFICES ASSUME TypeOK, \/ \E r \in Relays : Client(r) \/ Dial(r) \/ Leave(r)
                            \/ \E c \in ToolCalls : Ask(c)
             PROVE  TypeOK'
  OBVIOUS
<1> USE Types, Owners
<1>1. ByRelay
  BY DEF Client, Call, Send, Receive, Dial, Leave, Ask
<1>2. TypesOfServer' /\ TypesOfHand' /\ TypesOfGhosts'
  BY <1>1 DEF ByRelay, TypesOfServer, TypesOfHand, TypesOfGhosts, serverVars, handVars, ghosts
<1>3. ASSUME NEW c \in Calls, Send(c) PROVE TypesOfConn' /\ TypesOfCall'
  <2>1. TypesOfConn'
    <3>1. Append(reqs[Owner(c)], c) \in Seq(Calls)
      BY DEF TypesOfConn
    <3>2. reqs' \in [Relays -> Seq(Calls)]
      BY <1>3, <3>1 DEF Send, TypesOfConn
    <3> QED
      BY <1>3, <3>2 DEF Send, TypesOfConn
  <2>2. TypesOfCall'
    BY <1>3, NoAnswerTypes DEF Send, Told, TypesOfCall
  <2> QED
    BY <2>1, <2>2
<1>4. ASSUME NEW c \in Calls, Receive(c) PROVE TypesOfConn' /\ TypesOfCall'
  <2>1. resps[Owner(c)] # <<>> => /\ Head(resps[Owner(c)]) \in Response
                                  /\ Tail(resps[Owner(c)]) \in Seq(Response)
    BY DEF TypesOfConn
  <2>2. TypesOfConn'
    <3>1. resps' \in [Relays -> Seq(Response)]
      BY <1>4, <2>1 DEF Receive, TypesOfConn
    <3> QED
      BY <1>4, <3>1 DEF Receive, TypesOfConn
  <2>3. TypesOfCall'
    BY <1>4, <2>1, NoAnswerTypes DEF Receive, Told, TypesOfCall
  <2> QED
    BY <2>2, <2>3
<1>5. ASSUME NEW r \in Relays, Dial(r) \/ Leave(r) PROVE TypesOfConn' /\ TypesOfCall'
  <2>1. TypesOfConn'
    BY <1>5 DEF Dial, Leave, TypesOfConn
  <2>2. TypesOfCall'
    BY <1>5 DEF Dial, Leave, TypesOfCall
  <2> QED
    BY <2>1, <2>2
<1>6. ASSUME NEW c \in ToolCalls, Ask(c) PROVE TypesOfConn' /\ TypesOfCall'
  <2>1. Listed(RelayOf[c]) \subseteq Tools
    BY <1>6 DEF Listed, TypesOfCall, Response, Registrations
  <2> QED
    BY <1>6, <2>1 DEF Ask, TypesOfConn, TypesOfCall, connVars
<1> QED
  BY <1>2, <1>3, <1>4, <1>5, <1>6 DEF Client, Call

LEMMA NextTypes == TypeOK /\ [Next]_vars => TypeOK'
<1>1. TypeOK /\ UNCHANGED vars => TypeOK'
  BY DEF TypeOK, vars, serverVars, handVars, connVars, callVars, ghosts
<1> QED
  BY <1>1, ServerTypes, HandleTypes, RelayTypes DEF Next

\* Every variable of the bridge keeps its type.
THEOREM TypesCorrect == Spec => []TypeOK
  BY InitTypes, NextTypes, PTL DEF Spec

-----------------------------------------------------------------------------
(* The connections.                                                        *)

LEMMA InvStart == Init => RelayInv /\ PipeInv /\ AnswerInv
  BY Owners DEF Init, RelayInv, PipeInv, Pipe, Idle, Resting, AnswerInv

\* A step that leaves a connection and its calls alone.
Untouched(r) ==
    /\ hand'[r] = hand[r] /\ req'[r] = req[r] /\ resp'[r] = resp[r]
    /\ conn'[r] = conn[r] /\ reqs'[r] = reqs[r] /\ resps'[r] = resps[r]
    /\ trace \subseteq trace'
    /\ \A c \in Calls : Owner(c) = r =>
         /\ state'[c] = "recv" <=> state[c] = "recv"
         /\ state[c] = "cut" => state'[c] = "cut"
         /\ c \in took' <=> c \in took
         /\ found'[c] = found[c]

LEMMA PipeSame ==
    ASSUME NEW r \in Relays, Pipe(r), Untouched(r) PROVE Pipe(r)'
<1>1. Idle(r) => Idle(r)'
  BY DEF Idle, Resting, Untouched
<1>2. ASSUME NEW c \in Calls, Outstanding(r, c) PROVE Outstanding(r, c)'
  <2>1. Answered(c)' = Answered(c)
    BY <1>2 DEF Answered, Untouched, Outstanding
  <2>2. Asked(r, c) => Asked(r, c)'
    BY <1>2 DEF Asked, Resting, Untouched, Outstanding
  <2>3. Handled(r, c) => Handled(r, c)'
    BY <1>2, <2>1 DEF Handled, Resting, Untouched, Outstanding
  <2>4. Replied(r, c) => Replied(r, c)'
    BY <1>2, <2>1 DEF Replied, Resting, Untouched, Outstanding
  <2> QED
    BY <1>2, <2>2, <2>3, <2>4 DEF Outstanding, Untouched
<1> QED
  BY <1>1, <1>2 DEF Pipe, Untouched

\* The server's own steps.
LEMMA ServerPipe == TypeOK /\ PipeInv /\ (AddTools \/ Serve \/ Close) => PipeInv'
<1> SUFFICES ASSUME TypeOK, PipeInv, AddTools \/ Serve \/ Close, NEW r \in Relays
             PROVE  Pipe(r)'
  BY DEF PipeInv
<1>0. Pipe(r)
  BY DEF PipeInv
<1>1. CASE Untouched(r)
  BY <1>0, <1>1, PipeSame
<1>2. CASE AddTools \/ AcceptFails
  BY <1>1, <1>2 DEF AddTools, AcceptFails, Untouched, handVars, connVars, callVars, ghosts
<1>3. ASSUME NEW q \in Relays, Accept(q) PROVE Pipe(r)'
  <2>1. CASE r # q
    BY <1>1, <1>3, <2>1 DEF Accept, Untouched, connVars, callVars, ghosts, TypeOK
  <2>2. CASE r = q
    <3>1. hand[r] = "none" /\ hand'[r] = "read" /\ conn[r] # "reset"
      BY <1>3, <2>2 DEF Accept, Queued, TypeOK
    <3>2. UNCHANGED <<req, resp, conn, reqs, resps, state, took, found, trace>>
      BY <1>3 DEF Accept, connVars, callVars, ghosts
    <3>3. Idle(r) => Idle(r)'
      BY <3>1, <3>2 DEF Idle, Resting
    <3>4. \A c \in Calls : Outstanding(r, c) => Outstanding(r, c)'
      BY <3>1, <3>2 DEF Outstanding, Asked, Handled, Replied, Resting, Answered
    <3> QED
      BY <1>0, <3>1, <3>2, <3>3, <3>4 DEF Pipe
  <2> QED
    BY <2>1, <2>2
<1>4. CASE Close
  <2>1. CASE conn'[r] = conn[r]
    BY <1>1, <1>4, <2>1 DEF Close, Untouched, handVars, callVars, ghosts
  <2>2. CASE conn'[r] # conn[r]
    <3>1. hand[r] = "none" /\ conn'[r] = "reset"
      BY <1>4, <2>2 DEF Close, CloseListener, Queued
    <3>2. UNCHANGED <<hand, resps, took>>
      BY <1>4 DEF Close, handVars, ghosts
    <3> QED
      BY <1>0, <3>1, <3>2 DEF Pipe
  <2> QED
    BY <2>1, <2>2
<1> QED
  BY <1>2, <1>3, <1>4 DEF Serve

\* A goroutine that is handling has one call to handle.
LEMMA InHand ==
    ASSUME NEW r \in Relays, Pipe(r), ~Resting(r)
    PROVE  /\ conn[r] # "reset"
           /\ \E c \in Calls : Outstanding(r, c) /\ Handled(r, c)
  BY DEF Pipe, Idle, Outstanding, Asked, Replied, Resting

\* The steps of a handler.
LEMMA HandlePipe ==
    ASSUME NEW q \in Relays PROVE TypeOK /\ RelayInv /\ PipeInv /\ Handle(q) => PipeInv'
<1> SUFFICES ASSUME TypeOK, RelayInv, PipeInv, Handle(q), NEW r \in Relays PROVE Pipe(r)'
  BY DEF PipeInv
<1> USE Owners
<1>0. Pipe(r) /\ Pipe(q)
  BY DEF PipeInv
<1>1. UNCHANGED <<conn, state>>
  BY DEF Handle, TakeRequest, ReadFails, Release, RunHandler, AddInHandler, Reply, Trace, WriteResp,
         ByHandler, callVars
<1>2. CASE TakeRequest(q)
  <2>1. PICK c \in Calls : Outstanding(q, c) /\ Asked(q, c) /\ c = Head(reqs[q])
    BY <1>0, <1>2 DEF TakeRequest, Pipe, Idle, Outstanding, Asked, Handled, Replied
  <2>2. took' = took \cup {c} /\ found' = [found EXCEPT ![c] = Registered(wants[c])]
        /\ hand' = [hand EXCEPT ![q] = "found"] /\ req' = [req EXCEPT ![q] = c]
        /\ reqs' = [reqs EXCEPT ![q] = Tail(reqs[q])] /\ UNCHANGED <<resp, resps, trace>>
    BY <1>2, <2>1 DEF TakeRequest
  <2>3. CASE r # q
    <3>1. Untouched(r)
      BY <1>1, <2>1, <2>2, <2>3 DEF Untouched, Outstanding, TypeOK
    <3> QED
      BY <1>0, <3>1, PipeSame
  <2>4. CASE r = q
    <3>1. Tail(reqs[q]) = <<>>
      BY <2>1 DEF Asked, TypeOK
    <3>2. Handled(q, c)'
      BY <2>1, <2>2, <3>1 DEF Asked, Handled, Resting, TypeOK
    <3>3. Outstanding(q, c)'
      BY <1>1, <2>1, <3>2 DEF Outstanding
    <3>4. conn'[q] # "reset" /\ hand'[q] # "none"
      BY <1>0, <1>1, <1>2, <2>2 DEF Pipe, TakeRequest, TypeOK
    <3> QED
      BY <2>4, <3>3, <3>4 DEF Pipe
  <2> QED
    BY <2>3, <2>4
<1>3. CASE r # q /\ ~TakeRequest(q)
  <2>1. UNCHANGED <<took, found, reqs>> /\ req'[r] = req[r] /\ trace \subseteq trace'
    BY <1>3 DEF Handle, ReadFails, Release, RunHandler, AddInHandler, Reply, Trace, WriteResp, ghosts
  <2>2. hand'[r] = hand[r] /\ resp'[r] = resp[r] /\ resps'[r] = resps[r]
    BY <1>3 DEF Handle, ReadFails, Release, RunHandler, AddInHandler, Reply, Trace, WriteResp,
                Respond, TypeOK
  <2>3. Untouched(r)
    BY <1>1, <2>1, <2>2 DEF Untouched
  <2> QED
    BY <1>0, <2>3, PipeSame
<1>4. CASE ReadFails(q) /\ r = q
  <2>1. hand[q] = "read" /\ hand'[q] = "over" /\ conn[q] # "reset"
        /\ UNCHANGED <<req, resp, reqs, resps, took, found, trace>>
    BY <1>0, <1>4 DEF ReadFails, Pipe, TypeOK, ghosts
  <2>2. Idle(q) => Idle(q)'
    BY <1>1, <2>1 DEF Idle, Resting
  <2>3. \A c \in Calls : Outstanding(q, c) => Outstanding(q, c)'
    BY <1>1, <2>1 DEF Outstanding, Asked, Handled, Replied, Resting, Answered
  <2> QED
    BY <1>0, <1>1, <1>4, <2>1, <2>2, <2>3 DEF Pipe
<1>5. CASE (Release(q) \/ RunHandler(q) \/ AddInHandler(q) \/ Trace(q)) /\ r = q
  <2>1. ~Resting(q)
    BY <1>5 DEF Release, RunHandler, AddInHandler, Trace, Resting
  <2>2. PICK c \in Calls : Outstanding(q, c) /\ Handled(q, c)
    BY <1>0, <2>1, InHand
  <2>3. UNCHANGED <<req, reqs, resps, took, found>> /\ hand'[q] \notin {"none", "read", "over"}
    BY <1>5 DEF Release, RunHandler, AddInHandler, Trace, TypeOK, ghosts
  <2>4. hand'[q] \in {"trace", "write"} => resp'[q] = Answered(c)'
    <3>1. Respond(q) => resp'[q] = Answered(c)
      BY <2>2 DEF Respond, Handled, Answered, TypeOK
    <3>2. Answered(c)' = Answered(c)
      BY <2>3 DEF Answered
    <3>3. hand'[q] \in {"trace", "write"} => Respond(q) \/ Trace(q)
      BY <1>5 DEF Release, RunHandler, AddInHandler, TypeOK
    <3>4. Trace(q) => resp'[q] = Answered(c)
      BY <2>2 DEF Trace, Handled
    <3> QED
      BY <3>1, <3>2, <3>3, <3>4
  <2>5. hand'[q] = "write" /\ Recorded(c) => resp'[q] \in trace'
    BY <1>5, <2>2 DEF Handled, Release, RunHandler, AddInHandler, Trace, TypeOK
  <2>6. Handled(q, c)'
    BY <2>2, <2>3, <2>4, <2>5 DEF Handled, Resting
  <2>7. Outstanding(q, c)'
    BY <1>1, <2>2, <2>6 DEF Outstanding
  <2>8. conn'[q] # "reset"
    BY <1>0, <1>1, <2>1, InHand
  <2> QED
    BY <1>5, <2>3, <2>7, <2>8 DEF Pipe
<1>6. CASE WriteResp(q) /\ r = q
  <2>1. PICK c \in Calls : Outstanding(q, c) /\ Handled(q, c)
    BY <1>0, <1>6, InHand DEF WriteResp, Resting
  <2>2. /\ conn[q] # "reset" /\ UNCHANGED <<req, reqs, took, found, trace, resp>>
        /\ resps[q] = <<>> /\ resp[q] = Answered(c) /\ (Recorded(c) => resp[q] \in trace)
    BY <1>0, <1>6, <2>1, InHand DEF WriteResp, Resting, Handled, ghosts
  <2>3. CASE conn[q] = "open"
    <3>1. resps'[q] = Append(<<>>, resp[q]) /\ hand'[q] = "read"
      BY <1>6, <2>2, <2>3 DEF WriteResp, TypeOK
    <3>2. resps'[q] = <<resp[q]>>
      BY <3>1
    <3>3. Replied(q, c)'
      BY <2>1, <2>2, <3>1, <3>2 DEF Replied, Handled, Answered, Resting
    <3> QED
      BY <1>1, <1>6, <2>1, <2>2, <3>1, <3>3 DEF Pipe, Outstanding
  <2>4. CASE conn[q] # "open"
    <3>1. hand'[q] = "over" /\ resps'[q] = <<>>
      BY <1>6, <2>2, <2>4 DEF WriteResp, TypeOK
    <3>2. ASSUME NEW d \in Calls, Owner(d) = q PROVE state[d] # "recv"
      <4>1. state[d] = "recv" => relay[q] = "up"
        BY <3>2 DEF RelayInv
      <4>2. relay[q] = "up" => conn[q] \in {"open", "reset"}
        BY DEF RelayInv
      <4> QED
        BY <2>2, <2>4, <4>1, <4>2
    <3>3. Idle(q)'
      BY <1>1, <2>1, <2>2, <3>1, <3>2 DEF Idle, Resting, Handled
    <3> QED
      BY <1>1, <1>6, <2>2, <3>1, <3>3 DEF Pipe
  <2> QED
    BY <2>3, <2>4
<1> QED
  BY <1>2, <1>3, <1>4, <1>5, <1>6 DEF Handle, Reply

\* The relays' steps.
LEMMA RelayPipe ==
    TypeOK /\ RelayInv /\ PipeInv
    /\ (\/ \E q \in Relays : Client(q) \/ Dial(q) \/ Leave(q)
        \/ \E c \in ToolCalls : Ask(c)) => PipeInv'
<1> SUFFICES ASSUME TypeOK, RelayInv, PipeInv, NEW r \in Relays,
                    \/ \E q \in Relays : Client(q) \/ Dial(q) \/ Leave(q)
                    \/ \E c \in ToolCalls : Ask(c)
             PROVE  Pipe(r)'
  BY DEF PipeInv
<1> USE Owners
<1>0. Pipe(r)
  BY DEF PipeInv
<1>1. UNCHANGED <<trace, hand, req, resp, took, found>>
  BY DEF Client, Call, Send, Receive, Dial, Leave, Ask, ByRelay, handVars, ghosts
<1>2. CASE Untouched(r)
  BY <1>0, <1>2, PipeSame
<1>3. ASSUME NEW c \in ToolCalls, Ask(c) PROVE Pipe(r)'
  BY <1>1, <1>2, <1>3 DEF Ask, Untouched, connVars, TypeOK
<1>4. ASSUME NEW q \in Relays, Dial(q) PROVE Pipe(r)'
  <2>1. CASE r # q \/ ~listening
    BY <1>1, <1>2, <1>4, <2>1 DEF Dial, Untouched, TypeOK
  <2>2. CASE r = q /\ listening
    <3>1. conn[r] = "none" /\ conn'[r] = "open" /\ UNCHANGED <<reqs, resps>>
      BY <1>4, <2>2 DEF Dial, TypeOK, RelayInv
    <3>2. \A c \in Calls : /\ state'[c] = "recv" <=> state[c] = "recv"
                           /\ state[c] = "cut" => state'[c] = "cut"
      <4>1. state[r] = "new" /\ state' = [state EXCEPT ![r] = "want"]
        BY <1>4, <2>2 DEF Dial, RelayInv
      <4>2. state \in [Calls -> {"new", "want", "recv", "told", "cut"}]
        BY DEF TypeOK
      <4> QED
        BY <4>1, <4>2
    <3>3. Idle(r) => Idle(r)'
      BY <1>1, <3>1, <3>2 DEF Idle, Resting
    <3>4. ASSUME NEW c \in Calls, Outstanding(r, c) PROVE Outstanding(r, c)'
      <4>1. state'[c] \in {"recv", "cut"} /\ Answered(c)' = Answered(c)
        BY <1>1, <3>2, <3>4 DEF Outstanding, Answered
      <4> QED
        BY <1>1, <3>1, <3>2, <3>4, <4>1 DEF Outstanding, Asked, Handled, Replied, Resting
    <3> QED
      BY <1>0, <1>1, <3>1, <3>3, <3>4 DEF Pipe
  <2> QED
    BY <2>1, <2>2
<1>5. ASSUME NEW c \in Calls, Send(c) PROVE Pipe(r)'
  <2>1. CASE r # Owner(c) \/ conn[r] = "reset"
    <3>1. CASE r # Owner(c)
      <4>1. \A d \in Calls : Owner(d) = r => state'[d] = state[d]
        BY <1>5, <3>1 DEF Send, Told, TypeOK
      <4>2. conn' = conn /\ resps' = resps /\ reqs'[r] = reqs[r]
        BY <1>5, <3>1 DEF Send, TypeOK
      <4> QED
        BY <1>1, <1>2, <4>1, <4>2 DEF Untouched
    <3>2. CASE r = Owner(c) /\ conn[r] = "reset"
      <4>1. state[c] = "want" /\ state' = [state EXCEPT ![c] = "told"]
            /\ UNCHANGED <<conn, reqs, resps>>
        BY <1>5, <3>2 DEF Send, Told
      <4> QED
        BY <1>1, <1>2, <4>1 DEF Untouched, TypeOK
    <3> QED
      BY <2>1, <3>1, <3>2
  <2>2. CASE r = Owner(c) /\ conn[r] # "reset"
    <3>1. state[c] = "want" /\ relay[r] = "up" /\ c \notin took
      BY <1>5, <2>2 DEF Send, RelayInv
    <3>2. \A d \in Calls : Owner(d) = r => state[d] # "recv" /\ state[d] # "cut"
      BY <1>5, <2>2, <3>1 DEF Send, Busy, RelayInv
    <3>3. Idle(r)
      BY <1>0, <2>2, <3>2 DEF Pipe, Outstanding
    <3>4. reqs'[r] = Append(<<>>, c) /\ resps' = resps /\ conn' = conn
          /\ state' = [state EXCEPT ![c] = "recv"]
      BY <1>5, <2>2, <3>3 DEF Send, Idle, TypeOK
    <3>5. reqs'[r] = <<c>>
      BY <3>4
    <3>6. Asked(r, c)'
      BY <1>1, <3>1, <3>3, <3>4, <3>5 DEF Asked, Idle, Resting
    <3>7. Outstanding(r, c)'
      BY <2>2, <3>2, <3>4, <3>6 DEF Outstanding, TypeOK
    <3>8. hand'[r] = "none" => resps'[r] = <<>> /\ \A d \in Calls : Owner(d) = r => d \notin took'
      BY <1>0, <1>1, <3>4 DEF Pipe
    <3>9. conn'[r] # "reset"
      BY <2>2, <3>4
    <3> QED
      BY <3>7, <3>8, <3>9 DEF Pipe
  <2> QED
    BY <2>1, <2>2
<1>6. ASSUME NEW c \in Calls, Receive(c) PROVE Pipe(r)'
  <2>1. CASE r # Owner(c)
    <3>1. \A d \in Calls : Owner(d) = r => state'[d] = state[d]
      BY <1>6, <2>1 DEF Receive, Told, TypeOK
    <3>2. conn' = conn /\ reqs' = reqs /\ resps'[r] = resps[r]
      BY <1>6, <2>1 DEF Receive, TypeOK
    <3> QED
      BY <1>1, <1>2, <3>1, <3>2 DEF Untouched
  <2>2. CASE r = Owner(c) /\ conn[r] = "reset"
    <3>1. hand[r] = "none" /\ resps[r] = <<>>
      BY <1>0, <2>2 DEF Pipe
    <3>2. conn' = conn /\ resps'[r] = resps[r]
      BY <1>6, <2>2, <3>1 DEF Receive
    <3> QED
      BY <1>0, <1>1, <2>2, <3>1, <3>2 DEF Pipe
  <2>3. CASE r = Owner(c) /\ conn[r] # "reset"
    <3>1. Outstanding(r, c) /\ Replied(r, c)
      BY <1>0, <1>6, <2>3 DEF Receive, Pipe, Idle, Outstanding, Asked, Handled
    <3>2. resps'[r] = Tail(<<Answered(c)>>) /\ conn' = conn /\ reqs' = reqs
          /\ state' = [state EXCEPT ![c] = "told"]
      BY <1>6, <2>3, <3>1 DEF Receive, Told, Replied, TypeOK
    <3>3. resps'[r] = <<>>
      BY <3>2
    <3>4. Idle(r)'
      BY <1>1, <3>1, <3>2, <3>3 DEF Idle, Outstanding, Replied, Resting, TypeOK
    <3>5. hand'[r] # "none"
      BY <1>0, <1>1, <3>1, <2>3 DEF Pipe, Replied
    <3> QED
      BY <1>1, <2>3, <3>2, <3>4, <3>5 DEF Pipe
  <2> QED
    BY <2>1, <2>2, <2>3
<1>7. ASSUME NEW q \in Relays, Leave(q) PROVE Pipe(r)'
  <2>1. CASE r # q
    BY <1>1, <1>2, <1>7, <2>1 DEF Leave, Untouched, TypeOK
  <2>2. CASE r = q
    <3>1. /\ \A c \in Calls : Owner(c) = r => /\ state'[c] # "recv"
                                              /\ state[c] \in {"recv", "cut"} => state'[c] = "cut"
          /\ UNCHANGED <<reqs, resps>> /\ (conn'[r] = "reset" <=> conn[r] = "reset")
      BY <1>7, <2>2 DEF Leave, TypeOK
    <3>2. Idle(r) => Idle(r)'
      BY <1>1, <3>1 DEF Idle, Resting
    <3>3. ASSUME NEW c \in Calls, Outstanding(r, c) PROVE Outstanding(r, c)'
      <4>1. state'[c] \in {"recv", "cut"} /\ Answered(c)' = Answered(c)
        BY <1>1, <3>1, <3>3 DEF Outstanding, Answered
      <4> QED
        BY <1>1, <3>1, <3>3, <4>1 DEF Outstanding, Asked, Handled, Replied, Resting
    <3> QED
      BY <1>0, <1>1, <3>1, <3>2, <3>3 DEF Pipe
  <2> QED
    BY <2>1, <2>2
<1> QED
  BY <1>3, <1>4, <1>5, <1>6, <1>7 DEF Client, Call

-----------------------------------------------------------------------------
(* The calls and their answers.                                            *)

\* The request a handler reads is that of a call under way whose lookup is still to come.
LEMMA TakesAsked ==
    ASSUME NEW q \in Relays, Pipe(q), TakeRequest(q), reqs \in [Relays -> Seq(Calls)]
    PROVE  LET c == Head(reqs[q]) IN
             /\ c \in Calls /\ Owner(c) = q /\ state[c] \in {"recv", "cut"} /\ c \notin took
             /\ reqs[q] = <<c>>
  BY DEF TakeRequest, Pipe, Idle, Outstanding, Asked, Handled, Replied

LEMMA RelayStep == TypeOK /\ RelayInv /\ PipeInv /\ Next => RelayInv'
<1> SUFFICES ASSUME TypeOK, RelayInv, PipeInv, Next PROVE RelayInv'
  OBVIOUS
<1> USE Owners
<1>0. /\ state \in [Calls -> {"new", "want", "recv", "told", "cut"}]
      /\ relay \in [Relays -> {"start", "up", "gone"}]
      /\ conn \in [Relays -> {"none", "open", "reset", "closed"}]
      /\ reqs \in [Relays -> Seq(Calls)] /\ took \subseteq Calls
  BY DEF TypeOK
<1>1. CASE AddTools \/ Serve \/ Close
  <2>1. UNCHANGED <<relay, state, took>>
    BY <1>1 DEF AddTools, Serve, AcceptFails, Accept, Close, callVars, ghosts
  <2>2. \A r \in Relays : conn'[r] = conn[r] \/ (conn[r] = "open" /\ conn'[r] = "reset")
    BY <1>0, <1>1 DEF AddTools, Serve, AcceptFails, Accept, Close, CloseListener, connVars
  <2> QED
    BY <2>1, <2>2 DEF RelayInv
<1>2. ASSUME NEW q \in Relays, Handle(q) PROVE RelayInv'
  <2>1. UNCHANGED <<conn, relay, state>>
    BY <1>2 DEF Handle, TakeRequest, ReadFails, Release, RunHandler, AddInHandler, Reply, Trace,
                WriteResp, ByHandler, callVars
  <2>2. \A c \in took' \ took : state[c] \in {"recv", "cut"}
    <3>1. CASE TakeRequest(q)
      <4>1. took' = took \cup {Head(reqs[q])}
        BY <3>1 DEF TakeRequest
      <4> QED
        BY <1>0, <3>1, <4>1, TakesAsked DEF PipeInv
    <3>2. CASE ~TakeRequest(q)
      BY <1>2, <3>2 DEF Handle, ReadFails, Release, RunHandler, AddInHandler, Reply, Trace,
                        WriteResp, ghosts
    <3> QED
      BY <3>1, <3>2
  <2> QED
    BY <2>1, <2>2 DEF RelayInv
<1>3. ASSUME NEW c \in Calls, Call(c) PROVE RelayInv'
  <2>1. /\ UNCHANGED <<conn, relay, took>> /\ state[c] \in {"want", "recv"}
        /\ \E x \in {"recv", "told"} : state' = [state EXCEPT ![c] = x]
    BY <1>3 DEF Call, Send, Receive, Told, ByRelay, ghosts
  <2> QED
    BY <1>0, <2>1 DEF RelayInv
<1>4. ASSUME NEW q \in Relays, Dial(q) PROVE RelayInv'
  <2>1. took' = took
    BY <1>4 DEF Dial, ByRelay, ghosts
  <2>2. CASE listening
    <3>1. /\ relay[q] = "start" /\ state[q] = "new" /\ state' = [state EXCEPT ![q] = "want"]
          /\ relay' = [relay EXCEPT ![q] = "up"] /\ conn' = [conn EXCEPT ![q] = "open"]
      BY <1>4, <2>2 DEF Dial, RelayInv
    <3> QED
      BY <1>0, <2>1, <3>1 DEF RelayInv
  <2>3. CASE ~listening
    <3>1. relay[q] = "start" /\ relay' = [relay EXCEPT ![q] = "gone"] /\ UNCHANGED <<conn, state>>
      BY <1>4, <2>3 DEF Dial
    <3> QED
      BY <1>0, <2>1, <3>1 DEF RelayInv
  <2> QED
    BY <2>2, <2>3
<1>5. ASSUME NEW q \in Relays, Leave(q) PROVE RelayInv'
  <2>1. /\ took' = took /\ relay[q] = "up" /\ relay' = [relay EXCEPT ![q] = "gone"]
        /\ \A r \in Relays \ {q} : conn'[r] = conn[r]
        /\ state' = [c \in Calls |-> IF Owner(c) = q /\ state[c] # "told" THEN "cut" ELSE state[c]]
    BY <1>0, <1>5 DEF Leave, ByRelay, ghosts
  <2> QED
    BY <1>0, <2>1 DEF RelayInv
<1>6. ASSUME NEW c \in ToolCalls, Ask(c) PROVE RelayInv'
  <2>1. /\ UNCHANGED <<conn, relay, took>> /\ state[c] = "new" /\ relay[RelayOf[c]] = "up"
        /\ state' = [state EXCEPT ![c] = "want"]
    BY <1>6 DEF Ask, ByRelay, ghosts, connVars
  <2> QED
    BY <1>0, <2>1 DEF RelayInv
<1> QED
  BY <1>1, <1>2, <1>3, <1>4, <1>5, <1>6 DEF Next, Client

\* What a call that reads the next response is told.
LEMMA ReceivesOwn ==
    ASSUME NEW c \in Calls, TypeOK, PipeInv, Receive(c)
    PROVE  \/ Told(c, Answered(c)) /\ c \in took /\ (Recorded(c) => Answered(c) \in trace)
           \/ Told(c, LostAnswer) /\ c \notin took
<1> USE Owners
<1>0. Pipe(Owner(c))
  BY DEF PipeInv
<1>1. CASE conn[Owner(c)] = "reset"
  <2>1. resps[Owner(c)] = <<>> /\ c \notin took
    BY <1>0, <1>1 DEF Pipe
  <2> QED
    BY <2>1 DEF Receive
<1>2. CASE conn[Owner(c)] # "reset"
  <2>1. Replied(Owner(c), c)
    BY <1>0, <1>2 DEF Receive, Pipe, Idle, Outstanding, Asked, Handled
  <2>2. Head(resps[Owner(c)]) = Answered(c)
    BY <2>1 DEF Replied
  <2> QED
    BY <1>2, <2>1, <2>2 DEF Receive, Replied
<1> QED
  BY <1>1, <1>2

LEMMA AnswerStep == TypeOK /\ RelayInv /\ PipeInv /\ AnswerInv /\ Next => AnswerInv'
<1> SUFFICES ASSUME TypeOK, RelayInv, PipeInv, AnswerInv, Next PROVE AnswerInv'
  OBVIOUS
<1> USE Owners
<1>0. /\ state \in [Calls -> {"new", "want", "recv", "told", "cut"}]
      /\ answer \in [Calls -> Response] /\ took \subseteq Calls
      /\ found \in [Calls -> SUBSET Registrations] /\ reqs \in [Relays -> Seq(Calls)]
  BY DEF TypeOK
<1>1. CASE AddTools \/ Serve \/ Close
  <2>1. UNCHANGED <<answer, state, took, found, trace>>
    BY <1>1 DEF AddTools, Serve, AcceptFails, Accept, Close, callVars, ghosts
  <2> QED
    BY <2>1 DEF AnswerInv, Answered
<1>2. ASSUME NEW q \in Relays, Handle(q) PROVE AnswerInv'
  <2>1. UNCHANGED <<answer, state>> /\ trace \subseteq trace'
    BY <1>2 DEF Handle, TakeRequest, ReadFails, Release, RunHandler, AddInHandler, Reply, Trace,
                WriteResp, ByHandler, callVars
  <2>2. \A c \in Calls : c \in took \/ state[c] = "told" =>
                          found'[c] = found[c] /\ (c \in took' <=> c \in took)
    <3>1. CASE TakeRequest(q)
      <4> DEFINE b == Head(reqs[q])
      <4>1. b \in Calls /\ state[b] \in {"recv", "cut"} /\ b \notin took
        BY <1>0, <3>1, TakesAsked DEF PipeInv
      <4>2. took' = took \cup {b} /\ found' = [found EXCEPT ![b] = Registered(wants[b])]
        BY <3>1 DEF TakeRequest
      <4> HIDE DEF b
      <4> QED
        BY <1>0, <4>1, <4>2
    <3>2. CASE ~TakeRequest(q)
      BY <1>2, <3>2 DEF Handle, ReadFails, Release, RunHandler, AddInHandler, Reply, Trace,
                        WriteResp, ghosts
    <3> QED
      BY <3>1, <3>2
  <2> QED
    BY <2>1, <2>2 DEF AnswerInv, Answered
<1>3. ASSUME NEW c \in Calls, Call(c) PROVE AnswerInv'
  <2>1. UNCHANGED <<took, found, trace>> /\ state[c] \in {"want", "recv"}
    BY <1>3 DEF Call, Send, Receive, ByRelay, ghosts
  <2>2. \/ state' = [state EXCEPT ![c] = "recv"] /\ answer' = answer
        \/ Told(c, LostAnswer) /\ c \notin took
        \/ Told(c, Answered(c)) /\ c \in took /\ (Recorded(c) => Answered(c) \in trace)
    <3>1. CASE Send(c)
      BY <3>1 DEF Send, RelayInv
    <3>2. CASE Receive(c)
      BY <3>2, ReceivesOwn
    <3> QED
      BY <1>3, <3>1, <3>2 DEF Call
  <2>3. \A d \in Calls : Answered(d)' = Answered(d)
    BY <2>1 DEF Answered
  <2>4. ASSUME NEW d \in Calls \ {c} PROVE state'[d] = state[d] /\ answer'[d] = answer[d]
    BY <1>0, <2>2 DEF Told
  <2>5. \/ state'[c] = "recv" /\ answer'[c] = answer[c]
        \/ state'[c] = "told" /\ answer'[c] = LostAnswer /\ c \notin took
        \/ state'[c] = "told" /\ answer'[c] = Answered(c) /\ c \in took /\ (Recorded(c) => Answered(c) \in trace)
    BY <1>0, <2>2 DEF Told
  <2>6. answer[c] = NoAnswer
    BY <2>1 DEF AnswerInv
  <2> QED
    BY <2>1, <2>3, <2>4, <2>5, <2>6 DEF AnswerInv
<1>4. CASE \/ \E q \in Relays : Dial(q) \/ Leave(q)
           \/ \E c \in ToolCalls : Ask(c)
  <2>1. UNCHANGED <<answer, took, found, trace>>
    BY <1>4 DEF Dial, Leave, Ask, ByRelay, ghosts
  <2>2. \A c \in Calls : state'[c] = "told" <=> state[c] = "told"
    BY <1>0, <1>4 DEF Dial, Leave, Ask, RelayInv
  <2> QED
    BY <2>1, <2>2 DEF AnswerInv, Answered
<1> QED
  BY <1>1, <1>2, <1>3, <1>4 DEF Next, Client

LEMMA InvStep == BridgeInv /\ [Next]_vars => BridgeInv'
<1>1. BridgeInv /\ UNCHANGED vars => BridgeInv'
  <2> SUFFICES ASSUME BridgeInv, UNCHANGED vars PROVE BridgeInv'
    OBVIOUS
  <2>1. \A r \in Relays : Untouched(r)
    BY DEF Untouched, vars, handVars, connVars, callVars, ghosts
  <2>2. PipeInv'
    BY <2>1, PipeSame DEF BridgeInv, PipeInv
  <2>3. RelayInv' /\ AnswerInv'
    BY DEF BridgeInv, RelayInv, AnswerInv, Answered, vars, connVars, callVars, ghosts
  <2> QED
    BY <2>2, <2>3, NextTypes DEF BridgeInv
<1>2. BridgeInv /\ Next => BridgeInv'
  <2> SUFFICES ASSUME BridgeInv, Next PROVE BridgeInv'
    OBVIOUS
  <2>1. PipeInv'
    BY ServerPipe, HandlePipe, RelayPipe DEF BridgeInv, Next
  <2> QED
    BY <2>1, NextTypes, RelayStep, AnswerStep DEF BridgeInv
<1> QED
  BY <1>1, <1>2

LEMMA Inv == Spec => []BridgeInv
<1>1. Init => BridgeInv
  BY InitTypes, InvStart DEF BridgeInv
<1> QED
  BY <1>1, InvStep, PTL DEF Spec

\* Whatever other connections, the registry and the relays do meanwhile, no caller
\* has an answer before the trace does - of the calls whose entry can be written.
THEOREM TraceKeepsUp == Spec => []AnswersAreTraced
<1>1. BridgeInv => AnswersAreTraced
  BY DEF BridgeInv, AnswerInv, AnswersAreTraced, NoAnswer, LostAnswer
<1> QED
  BY <1>1, Inv, PTL

\* Serve reports an error only of a listener that nobody closed: the flag is set first.
THEOREM CloseReportsNothing == Spec => CloseIsNoError
<1> DEFINE ClosedFirst == listening \/ closed
<1>1. Init => ClosedFirst
  BY DEF Init
<1>2. ClosedFirst /\ [Next]_vars => ClosedFirst'
  <2> SUFFICES ASSUME ClosedFirst, [Next]_vars PROVE ClosedFirst'
    OBVIOUS
  <2>1. CASE Close
    BY <2>1 DEF Close, CloseListener
  <2>2. CASE ~Close
    BY <2>2 DEF Next, AddTools, Serve, AcceptFails, Accept, Handle, TakeRequest, ReadFails, Release,
        RunHandler, AddInHandler, Reply, Trace, WriteResp, ByHandler, Client, Call, Send, Receive, Dial,
        Leave, Ask, ByRelay, vars, serverVars
  <2> QED
    BY <2>1, <2>2
<1>3. ClosedFirst /\ [Next]_vars => [serve' # serve /\ serve' = "err" => listening]_vars
  BY DEF Next, AddTools, Serve, AcceptFails, Accept, Close, Handle, TakeRequest, ReadFails, Release,
     RunHandler, AddInHandler, Reply, Trace, WriteResp, ByHandler, Client, Call, Send, Receive, Dial,
     Leave, Ask, ByRelay, vars, serverVars
<1> QED
  BY <1>1, <1>2, <1>3, PTL DEF Spec, CloseIsNoError

-----------------------------------------------------------------------------
(* The service.                                                            *)

\* Every step of the bridge is a step of the service, or none.
THEOREM ServiceImplemented == Spec => ImplementsToolService
<1> USE Owners
<1> DEFINE seen == [c \in Calls |-> IF state[c] \in {"want", "recv"} THEN "asked" ELSE state[c]]
<1>1. Init => Service!ServiceInit
  BY DEF Init, Service!ServiceInit, NoAnswer, Service!NoAnswer
<1>2. BridgeInv /\ [Next]_vars => [Service!ServiceNext]_Service!serviceVars
  <2> SUFFICES ASSUME BridgeInv, [Next]_vars
               PROVE  Service!ServiceNext \/ UNCHANGED Service!serviceVars
    OBVIOUS
  <2>0. /\ TypeOK /\ RelayInv /\ PipeInv
        /\ state \in [Calls -> {"new", "want", "recv", "told", "cut"}]
        /\ answer \in [Calls -> Response] /\ reqs \in [Relays -> Seq(Calls)]
    BY DEF BridgeInv, TypeOK
  <2>1. CASE UNCHANGED <<tools, state, wants, took, found, answer>>
    BY <2>1 DEF Service!serviceVars
  <2>2. ASSUME UNCHANGED <<state, wants, took, found, answer>>,
               \E S \in SUBSET Tools : Register(S)
        PROVE  Service!ServiceNext
    BY <2>2 DEF Register, Service!ServiceNext, Service!Register
  <2>3. CASE AddTools \/ Serve \/ Close
    BY <2>1, <2>2, <2>3 DEF AddTools, Serve, AcceptFails, Accept, Close, callVars, ghosts
  <2>4. ASSUME NEW q \in Relays, Handle(q)
        PROVE  Service!ServiceNext \/ UNCHANGED Service!serviceVars
    <3>1. UNCHANGED <<state, wants, answer>>
      BY <2>4 DEF Handle, TakeRequest, ReadFails, Release, RunHandler, AddInHandler, Reply, Trace,
                  WriteResp, ByHandler, callVars
    <3>2. CASE TakeRequest(q)
      <4> DEFINE c == Head(reqs[q])
      <4>1. c \in Calls /\ state[c] \in {"recv", "cut"} /\ c \notin took
        BY <2>0, <3>2, TakesAsked DEF PipeInv
      <4>2. /\ took' = took \cup {c} /\ found' = [found EXCEPT ![c] = Registered(wants[c])]
            /\ tools' = tools
        BY <3>2 DEF TakeRequest
      <4> HIDE DEF c
      <4>3. Service!Take(c)
        BY <3>1, <4>1, <4>2 DEF Service!Take, Service!Registered, Registered
      <4> QED
        BY <4>1, <4>3 DEF Service!ServiceNext
    <3>3. CASE AddInHandler(q)
      BY <2>1, <2>2, <3>1, <3>3 DEF AddInHandler, ghosts
    <3>4. CASE ~TakeRequest(q) /\ ~AddInHandler(q)
      BY <2>1, <2>4, <3>1, <3>4
         DEF Handle, ReadFails, Release, RunHandler, Reply, Trace, WriteResp, ghosts
    <3> QED
      BY <3>2, <3>3, <3>4
  <2>5. ASSUME NEW c \in Calls, Call(c)
        PROVE  Service!ServiceNext \/ UNCHANGED Service!serviceVars
    <3>1. UNCHANGED <<tools, wants, took, found>> /\ state[c] \in {"want", "recv"}
      BY <2>5 DEF Call, Send, Receive, ByRelay, ghosts
    <3>2. \/ state' = [state EXCEPT ![c] = "recv"] /\ answer' = answer
          \/ Told(c, LostAnswer) /\ c \notin took
          \/ Told(c, Answered(c)) /\ c \in took
      <4>1. CASE Send(c)
        BY <2>0, <4>1 DEF Send, RelayInv
      <4>2. CASE Receive(c)
        BY <2>0, <4>2, ReceivesOwn
      <4> QED
        BY <2>5, <4>1, <4>2 DEF Call
    <3>3. CASE state' = [state EXCEPT ![c] = "recv"] /\ answer' = answer
      <4>1. seen' = seen
        BY <2>0, <3>1, <3>3
      <4> QED
        BY <3>1, <3>3, <4>1 DEF Service!serviceVars
    <3>4. ASSUME NEW a, Told(c, a),
                 \/ a = LostAnswer /\ c \notin took
                 \/ a = Answered(c) /\ c \in took
          PROVE  Service!ServiceNext
      <4>1. seen[c] = "asked" /\ seen' = [seen EXCEPT ![c] = "told"]
        BY <2>0, <3>1, <3>4 DEF Told
      <4>2. c \in took => a \in Service!Answers(c, found[c])
        BY <3>4 DEF Answered, Service!Answers
      <4>3. c \notin took => a = Service!LostAnswer
        BY <3>4 DEF LostAnswer, NoAnswer, Service!LostAnswer, Service!NoAnswer
      <4>4. Service!Tell(c)
        BY <3>1, <3>4, <4>1, <4>2, <4>3 DEF Told, Service!Tell
      <4> QED
        BY <4>4 DEF Service!ServiceNext
    <3> QED
      BY <3>2, <3>3, <3>4
  <2>6. ASSUME NEW c \in Calls, state[c] = "new", state' = [state EXCEPT ![c] = "want"],
               UNCHANGED <<tools, took, found, answer>>,
               \E S \in SUBSET Tools : wants' = [wants EXCEPT ![c] = S]
        PROVE  Service!ServiceNext
    <3>1. seen[c] = "new" /\ seen' = [seen EXCEPT ![c] = "asked"]
      BY <2>0, <2>6
    <3>2. Service!Ask(c)
      BY <2>6, <3>1 DEF Service!Ask
    <3> QED
      BY <3>2 DEF Service!ServiceNext
  <2>7. ASSUME NEW q \in Relays, Dial(q)
        PROVE  Service!ServiceNext \/ UNCHANGED Service!serviceVars
    <3>1. UNCHANGED <<tools, took, found, answer>>
      BY <2>7 DEF Dial, ByRelay, ghosts
    <3>2. CASE listening
      <4>1. /\ state[q] = "new" /\ state' = [state EXCEPT ![q] = "want"]
            /\ wants' = [wants EXCEPT ![q] = Tools]
        BY <2>0, <2>7, <3>2 DEF Dial, RelayInv
      <4> QED
        BY <2>6, <3>1, <4>1
    <3>3. CASE ~listening
      BY <2>1, <2>7, <3>1, <3>3 DEF Dial
    <3> QED
      BY <3>2, <3>3
  <2>8. ASSUME NEW q \in Relays, Leave(q) PROVE Service!ServiceNext
    <3> DEFINE S == {c \in Calls : Owner(c) = q}
    <3>1. seen' = [c \in Calls |-> IF c \in S /\ seen[c] # "told" THEN "cut" ELSE seen[c]]
      BY <2>0, <2>8 DEF Leave
    <3>2. Service!Cut(S)
      BY <2>8, <3>1 DEF Leave, ByRelay, ghosts, Service!Cut
    <3> QED
      BY <3>2 DEF Service!ServiceNext
  <2>9. ASSUME NEW c \in ToolCalls, Ask(c) PROVE Service!ServiceNext
    <3>1. Listed(RelayOf[c]) \subseteq Tools
      BY <2>0 DEF Listed, Response, Registrations
    <3> QED
      BY <2>6, <2>9, <3>1 DEF Ask, ByRelay, ghosts
  <2> QED
    BY <2>1, <2>3, <2>4, <2>5, <2>7, <2>8, <2>9
       DEF Next, Client, vars, callVars, ghosts
<1> QED
  BY <1>1, <1>2, Inv, PTL DEF Spec, ImplementsToolService, Service!ServiceSpec

-----------------------------------------------------------------------------
(* What was listed.                                                        *)

ListInv ==
    /\ \A c \in Calls : \A p \in found[c] : 0 < p[2] /\ p[2] <= tools[p[1]]
    /\ \A c \in ToolCalls :
          /\ wants[c] # {} => /\ state[RelayOf[c]] = "told"
                             /\ \E p \in answer[RelayOf[c]].found : wants[c] = {p[1]}
          /\ state[c] = "want" => wants[c] # {}
          /\ \A r \in Relays : reqs[r] = <<c>> => wants[c] # {}
    /\ ListedIsCallable

\* A version never goes down.
LEMMA ToolsGrow ==
    ASSUME TypeOK, [Next]_vars PROVE \A t \in Tools : tools[t] <= tools'[t]
<1>1. ASSUME NEW S, Register(S) PROVE \A t \in Tools : tools[t] <= tools'[t]
  BY <1>1 DEF TypeOK, Register
<1>2. CASE tools' = tools
  BY <1>2 DEF TypeOK
<1> QED
  BY <1>1, <1>2 DEF Next, AddTools, Serve, AcceptFails, Accept, Close, Handle, TakeRequest,
     ReadFails, Release, RunHandler, AddInHandler, Reply, Trace, WriteResp, ByHandler, Client, Call, Send,
     Receive, Dial, Leave, Ask, ByRelay, vars

\* What a caller was told stays.
LEMMA AnswersStay ==
    ASSUME BridgeInv, [Next]_vars
    PROVE  \A c \in Calls : state[c] = "told" => state'[c] = "told" /\ answer'[c] = answer[c]
<1> USE Owners
<1>0. state \in [Calls -> {"new", "want", "recv", "told", "cut"}] /\ answer \in [Calls -> Response]
  BY DEF BridgeInv, TypeOK
<1>1. CASE UNCHANGED <<state, answer>>
  BY <1>1
<1>2. ASSUME NEW c \in Calls, Call(c)
      PROVE  \A d \in Calls : state[d] = "told" => state'[d] = "told" /\ answer'[d] = answer[d]
  BY <1>0, <1>2 DEF Call, Send, Receive, Told
<1>3. CASE \E r \in Relays : Dial(r) \/ Leave(r)
  BY <1>0, <1>3 DEF Dial, Leave, BridgeInv, RelayInv
<1>4. CASE \E c \in ToolCalls : Ask(c)
  BY <1>0, <1>4 DEF Ask
<1> QED
  BY <1>1, <1>2, <1>3, <1>4 DEF Next, AddTools, Serve, AcceptFails, Accept, Close, Handle,
     TakeRequest, ReadFails, Release, RunHandler, AddInHandler, Reply, Trace, WriteResp, ByHandler, Client,
     vars, callVars

\* Steps other than a lookup, a call's start and its request.
Aside == /\ UNCHANGED <<wants, took, found>>
         /\ \A c \in Calls : state'[c] = "want" => state[c] = "want"
         /\ \A r \in Relays : reqs'[r] = reqs[r]

LEMMA Steps ==
    ASSUME BridgeInv, [Next]_vars
    PROVE  \/ Aside
           \/ \E q \in Relays : TakeRequest(q) \/ Dial(q)
           \/ \E c \in Calls : Send(c)
           \/ \E c \in ToolCalls : Ask(c)
<1> USE Owners
<1>0. state \in [Calls -> {"new", "want", "recv", "told", "cut"}]
  BY DEF BridgeInv, TypeOK
<1>1. CASE AddTools \/ Serve \/ Close \/ UNCHANGED vars
  BY <1>1 DEF Aside, AddTools, Serve, AcceptFails, Accept, Close, vars, connVars, callVars, ghosts
<1>2. ASSUME NEW q \in Relays, Handle(q), ~TakeRequest(q) PROVE Aside
  BY <1>2 DEF Aside, Handle, ReadFails, Release, RunHandler, AddInHandler, Reply, Trace, WriteResp,
              ByHandler, callVars, ghosts
<1>3. ASSUME NEW c \in Calls, Receive(c) PROVE Aside
  BY <1>0, <1>3 DEF Aside, Receive, Told, ByRelay, ghosts
<1>4. ASSUME NEW q \in Relays, Leave(q) PROVE Aside
  BY <1>0, <1>4 DEF Aside, Leave, ByRelay, ghosts
<1> QED
  BY <1>1, <1>2, <1>3, <1>4 DEF Next, Client, Call

\* A call that was offered its tool.
Offered(c) == /\ state[RelayOf[c]] = "told"
              /\ \E p \in answer[RelayOf[c]].found : wants[c] = {p[1]}

LEMMA ListStep == BridgeInv /\ ListInv /\ [Next]_vars => ListInv'
<1> SUFFICES ASSUME BridgeInv, ListInv, [Next]_vars PROVE ListInv'
  OBVIOUS
<1> USE Owners
<1>0. /\ TypeOK /\ RelayInv /\ PipeInv /\ AnswerInv
      /\ state \in [Calls -> {"new", "want", "recv", "told", "cut"}]
      /\ wants \in [Calls -> SUBSET Tools] /\ answer \in [Calls -> Response]
      /\ reqs \in [Relays -> Seq(Calls)] /\ tools \in [Tools -> Nat]
      /\ took \subseteq Calls /\ found \in [Calls -> SUBSET Registrations]
  BY DEF BridgeInv, TypeOK
<1>1. \A t \in Tools : tools[t] <= tools'[t] /\ tools[t] \in Nat /\ tools'[t] \in Nat
  BY <1>0, ToolsGrow, NextTypes DEF TypeOK
<1>2. \A c \in Calls : \A p \in found[c] : p[1] \in Tools /\ p[2] \in Nat
  BY <1>0 DEF Registrations
\* Answers that list something are answers of the lookup.
<1>3. \A c \in Calls : answer[c].found # {} =>
        state[c] = "told" /\ answer[c].found = found[c] /\ answer'[c] = answer[c] /\ state'[c] = "told"
  <2> SUFFICES ASSUME NEW c \in Calls, answer[c].found # {}
               PROVE  state[c] = "told" /\ answer[c].found = found[c]
    BY AnswersStay
  <2>1. NoAnswer.found = {} /\ LostAnswer.found = {} /\ Answered(c).found = found[c]
    BY DEF NoAnswer, LostAnswer, Answered
  <2> QED
    BY <1>0, <2>1 DEF AnswerInv
<1>4. \A c \in ToolCalls : wants[c] # {} => Offered(c)
  BY DEF ListInv, Offered
<1>5. \A c \in ToolCalls : Offered(c) /\ wants'[c] = wants[c] => Offered(c)'
  BY <1>0, AnswersStay DEF Offered
<1>6. CASE Aside
  <2>1. \A c \in Calls : \A p \in found'[c] : 0 < p[2] /\ p[2] <= tools'[p[1]]
    BY <1>1, <1>2, <1>6 DEF Aside, ListInv
  <2>2. \A c \in ToolCalls : /\ wants'[c] # {} => Offered(c)'
                             /\ state'[c] = "want" => wants'[c] # {}
                             /\ \A r \in Relays : reqs'[r] = <<c>> => wants'[c] # {}
    BY <1>4, <1>5, <1>6 DEF Aside, ListInv
  <2>3. ListedIsCallable'
    BY <1>3, <1>6 DEF Aside, ListInv, ListedIsCallable
  <2> QED
    BY <2>1, <2>2, <2>3 DEF ListInv, Offered
<1>7. ASSUME NEW q \in Relays, TakeRequest(q) PROVE ListInv'
  <2> DEFINE b == Head(reqs[q])
  <2>1. b \in Calls /\ b \notin took /\ reqs[q] = <<b>>
    BY <1>0, <1>7, TakesAsked DEF PipeInv
  <2>2. /\ took' = took \cup {b} /\ found' = [found EXCEPT ![b] = Registered(wants[b])]
        /\ UNCHANGED <<tools, state, wants, answer>>
        /\ reqs' = [reqs EXCEPT ![q] = Tail(reqs[q])]
    BY <1>7 DEF TakeRequest, ByHandler, callVars
  <2>3. reqs'[q] = <<>>
    <3>1. Tail(<<b>>) = <<>>
      OBVIOUS
    <3> QED
      BY <1>0, <2>1, <2>2, <3>1
  <2> HIDE DEF b
  <2>4. \A c \in Calls : \A p \in found'[c] : 0 < p[2] /\ p[2] <= tools'[p[1]]
    <3>1. \A p \in Registered(wants[b]) : 0 < p[2] /\ p[2] <= tools[p[1]]
      BY <1>0, <2>1 DEF Registered
    <3> QED
      BY <1>0, <2>1, <2>2, <3>1 DEF ListInv
  <2>5. \A c \in ToolCalls : /\ wants'[c] # {} => Offered(c)'
                             /\ state'[c] = "want" => wants'[c] # {}
                             /\ \A r \in Relays : reqs'[r] = <<c>> => wants'[c] # {}
    <3>1. \A r \in Relays : reqs'[r] # <<>> => reqs'[r] = reqs[r]
      BY <1>0, <2>2, <2>3
    <3>2. \A c \in ToolCalls, r \in Relays : reqs'[r] = <<c>> => wants[c] # {}
      BY <3>1 DEF ListInv
    <3> QED
      BY <1>4, <1>5, <2>2, <3>2 DEF ListInv
  <2>6. ASSUME NEW c \in ToolCalls, c \in took'
        PROVE  \E p \in answer'[RelayOf[c]].found : \E x \in found'[c] : p[1] = x[1] /\ p[2] <= x[2]
    <3>1. CASE c # b
      BY <1>0, <2>1, <2>2, <2>6, <3>1 DEF ListInv, ListedIsCallable
    <3>2. CASE c = b
      <4>1. PICK p \in answer[RelayOf[c]].found : wants[c] = {p[1]}
        BY <1>4, <2>1, <3>2 DEF ListInv, Offered
      <4>2. p \in found[RelayOf[c]]
        BY <1>3, <4>1
      <4>3. p[1] \in Tools /\ 0 < p[2] /\ p[2] <= tools[p[1]] /\ p[2] \in Nat
        BY <1>2, <4>2 DEF ListInv
      <4>4. <<p[1], tools[p[1]]>> \in Registered(wants[c])
        BY <1>0, <4>1, <4>3 DEF Registered
      <4>5. found'[c] = Registered(wants[c]) /\ answer'[RelayOf[c]] = answer[RelayOf[c]]
        BY <1>0, <2>1, <2>2, <3>2
      <4> QED
        BY <4>1, <4>3, <4>4, <4>5
    <3> QED
      BY <3>1, <3>2
  <2> QED
    BY <2>4, <2>5, <2>6 DEF ListInv, Offered, ListedIsCallable
<1>8. ASSUME NEW c \in Calls, Send(c) PROVE ListInv'
  <2>1. UNCHANGED <<tools, wants, took, found>> /\ state[c] = "want"
    BY <1>8 DEF Send, ByRelay, ghosts
  <2>2. \A d \in ToolCalls : state'[d] = "want" => state[d] = "want"
    BY <1>0, <1>8 DEF Send, Told
  <2>3. ASSUME NEW d \in ToolCalls, NEW r \in Relays, reqs'[r] = <<d>> PROVE wants[d] # {}
    <3>1. CASE reqs'[r] = reqs[r]
      BY <2>3, <3>1 DEF ListInv
    <3>2. CASE reqs'[r] # reqs[r]
      <4>1. reqs'[r] = Append(reqs[r], c)
        BY <1>0, <1>8, <3>2 DEF Send
      <4>2. reqs'[r][Len(reqs[r]) + 1] = c /\ Len(reqs'[r]) = Len(reqs[r]) + 1
        BY <1>0, <4>1
      <4>3. d = c
        BY <1>0, <2>3, <4>2
      <4> QED
        BY <2>1, <4>3 DEF ListInv
    <3> QED
      BY <3>1, <3>2
  <2>4. ListedIsCallable'
    BY <1>3, <2>1 DEF ListInv, ListedIsCallable
  <2> QED
    BY <1>4, <1>5, <2>1, <2>2, <2>3, <2>4 DEF ListInv, Offered
<1>9. ASSUME NEW q \in Relays, Dial(q) PROVE ListInv'
  <2>1. UNCHANGED <<tools, took, found, reqs>>
    BY <1>9 DEF Dial, ByRelay, ghosts
  <2>2. \A d \in ToolCalls : wants'[d] = wants[d] /\ state'[d] = state[d]
    BY <1>0, <1>9 DEF Dial
  <2>3. ListedIsCallable'
    BY <1>3, <2>1 DEF ListInv, ListedIsCallable
  <2> QED
    BY <1>4, <1>5, <2>1, <2>2, <2>3 DEF ListInv, Offered
<1>10. ASSUME NEW c \in ToolCalls, Ask(c) PROVE ListInv'
  <2>1. UNCHANGED <<tools, took, found, reqs, answer>> /\ state[c] = "new"
    BY <1>10 DEF Ask, ByRelay, ghosts, connVars
  <2>2. \A d \in Calls \ {c} : wants'[d] = wants[d] /\ state'[d] = state[d]
    BY <1>0, <1>10 DEF Ask
  <2>3. Offered(c)' /\ wants'[c] # {}
    <3>1. PICK p \in answer[RelayOf[c]].found : wants'[c] = {p[1]}
      <4>1. PICK t \in Listed(RelayOf[c]) : wants' = [wants EXCEPT ![c] = {t}]
        BY <1>10 DEF Ask
      <4>2. wants'[c] = {t}
        BY <1>0, <4>1
      <4> QED
        BY <4>1, <4>2 DEF Listed
    <3>2. state'[RelayOf[c]] = "told"
      BY <1>0, <1>10 DEF Ask
    <3> QED
      BY <2>1, <3>1, <3>2 DEF Offered
  <2>4. ListedIsCallable'
    BY <1>3, <2>1 DEF ListInv, ListedIsCallable
  <2>5. \A d \in Calls : \A p \in found'[d] : 0 < p[2] /\ p[2] <= tools'[p[1]]
    BY <2>1 DEF ListInv
  <2>6. ASSUME NEW d \in ToolCalls
        PROVE  /\ wants'[d] # {} => Offered(d)'
               /\ state'[d] = "want" => wants'[d] # {}
               /\ \A r \in Relays : reqs'[r] = <<d>> => wants'[d] # {}
    <3>1. CASE d = c
      BY <2>3, <3>1
    <3>2. CASE d # c
      <4>1. wants'[d] = wants[d] /\ state'[d] = state[d] /\ reqs' = reqs
        BY <2>1, <2>2, <3>2
      <4> QED
        BY <1>4, <1>5, <4>1 DEF ListInv
    <3> QED
      BY <3>1, <3>2
  <2> QED
    BY <2>4, <2>5, <2>6 DEF ListInv, Offered
<1> QED
  BY <1>6, <1>7, <1>8, <1>9, <1>10, Steps

\* What a relay has listed is never withdrawn, nor replaced by anything older.
THEOREM ListedStaysCallable == Spec => []ListedIsCallable
<1>1. Init => ListInv
  BY Owners DEF Init, ListInv, ListedIsCallable
<1>2. ListInv => ListedIsCallable
  BY DEF ListInv
<1> QED
  BY <1>1, <1>2, ListStep, Inv, PTL DEF Spec

=============================================================================
