---------------------------- MODULE QueryProofs ----------------------------
(***************************************************************************)
(* Theorems about Query, for any backends, formats, openings, deadlines,   *)
(* failures, exits and bounds.                                             *)
(***************************************************************************)
EXTENDS Query, SequenceTheorems, TLAPS

-----------------------------------------------------------------------------
(* The lines of a transcript.                                              *)

Calls(l)    == "tool_use" \in l.blocks
IsResult(l) == l.type = "user" /\ "tool_result" \in l.blocks

\* The assistant lines, and the only one of them that is terminal.
LEMMA AssistantLines ==
    ASSUME NEW t \in Nat \ {0}, NEW l \in InterimLines(t) \cup {Reply(t)}
    PROVE  /\ l \in Line /\ l.turn = t /\ l.type = "assistant"
           /\ Terminal(l) <=> l = Reply(t)
           /\ Calls(l) => ~Terminal(l)
<1>1. PICK s \in StopReasons, B \in SUBSET BlockTypes :
        /\ l = Assistant(t, s, B)
        /\ \/ s \in {"", "tool_use", "pause_turn"} \/ "text" \notin B
           \/ s = "end_turn" /\ B = {"text"}
  <2>1. \/ l \in { Assistant(t, "", {"text"}), Assistant(t, "pause_turn", {"text"}),
                  Assistant(t, "tool_use", {"tool_use"}),
                  Assistant(t, "tool_use", {"text", "tool_use"}) }
        \/ l = Assistant(t, "end_turn", {"thinking"})
        \/ l = Assistant(t, "end_turn", {"text"})
    BY DEF InterimLines, Reply
  <2>2. /\ {"", "tool_use", "pause_turn", "end_turn"} \subseteq StopReasons
        /\ {"text", "tool_use", "thinking"} \subseteq BlockTypes
    BY DEF StopReasons, BlockTypes
  <2>3. /\ {"text"} \in SUBSET BlockTypes /\ {"tool_use"} \in SUBSET BlockTypes
        /\ {"text", "tool_use"} \in SUBSET BlockTypes /\ {"thinking"} \in SUBSET BlockTypes
    BY <2>2
  <2>4. CASE l = Assistant(t, "", {"text"})
    BY <2>2, <2>3, <2>4
  <2>5. CASE l = Assistant(t, "pause_turn", {"text"})
    BY <2>2, <2>3, <2>5
  <2>6. CASE l = Assistant(t, "tool_use", {"tool_use"})
    BY <2>2, <2>3, <2>6
  <2>7. CASE l = Assistant(t, "tool_use", {"text", "tool_use"})
    BY <2>2, <2>3, <2>7
  <2>8. CASE l = Assistant(t, "end_turn", {"thinking"})
    BY <2>2, <2>3, <2>8
  <2>9. CASE l = Assistant(t, "end_turn", {"text"})
    BY <2>2, <2>3, <2>9
  <2> QED
    BY <2>1, <2>4, <2>5, <2>6, <2>7, <2>8, <2>9
<1>2. l.turn = t /\ l.type = "assistant" /\ l.stop = s /\ l.blocks = B /\ l \in Line
  BY <1>1 DEF Assistant, Line, LineTypes
<1>3. Terminal(l) <=> s \notin {"", "tool_use", "pause_turn"} /\ "text" \in B
  BY <1>2 DEF Terminal, NonTerminalStopReasons
<1>4. Reply(t).stop = "end_turn" /\ Reply(t).blocks = {"text"}
  BY DEF Reply, Assistant
<1>5. Terminal(l) <=> l = Reply(t)
  <2>1. ASSUME Terminal(l) PROVE l = Reply(t)
    BY <1>1, <1>3, <2>1 DEF Reply
  <2>2. ASSUME l = Reply(t) PROVE Terminal(l)
    BY <1>2, <1>3, <1>4, <2>2
  <2> QED
    BY <2>1, <2>2
<1>6. Calls(l) => ~Terminal(l)
  BY <1>4, <1>5 DEF Calls
<1> QED
  BY <1>2, <1>5, <1>6

\* What the lines of a turn are, and how the code sees them.
LEMMA LinesOfTurn ==
    ASSUME NEW t \in Nat \ {0}, NEW l \in LinesOf(t)
    PROVE  /\ l \in Line /\ l.turn = t
           /\ l.type = "assistant" /\ Terminal(l) <=> l = Reply(t)
           /\ CarriesText(l) => l # Marker(t) /\ TextFromContent(l) = t
           /\ Calls(l) => l.type = "assistant" /\ ~Terminal(l)
           /\ IsResult(l) <=> l = ToolResult(t)
           /\ Reply(t) # Marker(t)
<1>1. CASE l \in InterimLines(t) \cup {Reply(t)}
  <2>1. /\ l \in Line /\ l.turn = t /\ l.type = "assistant"
        /\ Terminal(l) <=> l = Reply(t)
        /\ Calls(l) => ~Terminal(l)
    BY <1>1, AssistantLines
  <2>2. Marker(t).type = "system" /\ ToolResult(t).type = "user" /\ Reply(t).type = "assistant"
    BY DEF Marker, ToolResult, Reply, Assistant
  <2> QED
    BY <2>1, <2>2 DEF CarriesText, TextFromContent, IsResult
<1>2. CASE l \in {UserEcho(t), ToolResult(t), Marker(t)}
  <2>1. /\ l \in Line /\ l.turn = t /\ l.type # "assistant" /\ ~Calls(l)
    <3>1. CASE l = UserEcho(t)
      BY <3>1 DEF UserEcho, Calls, Line, LineTypes, StopReasons, BlockTypes
    <3>2. CASE l = ToolResult(t)
      BY <3>2 DEF ToolResult, Calls, Line, LineTypes, StopReasons, BlockTypes
    <3>3. CASE l = Marker(t)
      BY <3>3 DEF Marker, Calls, Line, LineTypes, StopReasons, BlockTypes
    <3> QED
      BY <1>2, <3>1, <3>2, <3>3
  <2>2. Reply(t).type = "assistant" /\ Marker(t).type = "system"
    BY DEF Reply, Assistant, Marker
  <2>3. IsResult(l) <=> l = ToolResult(t)
    <3>1. /\ IsResult(ToolResult(t)) /\ ~IsResult(UserEcho(t)) /\ ~IsResult(Marker(t))
      BY DEF UserEcho, ToolResult, Marker, IsResult
    <3> QED
      BY <1>2, <3>1
  <2> QED
    BY <2>1, <2>2, <2>3 DEF CarriesText
<1> QED
  BY <1>1, <1>2 DEF LinesOf

-----------------------------------------------------------------------------
(* Types.                                                                  *)

Events == [kind : EventKinds, n : Nat]

TypeInv == /\ TypeOK
           /\ out \in Seq(Events)
           /\ box \in Message /\ queue \in Seq(Message) /\ turns \in Seq(Message)
           /\ phase # "idle" => Len(turns) > 0

\* What claude's steps have in common: a line of the turn at work, a tool's
\* result exactly when a tool was called, a marker when the turn had replied.
Writes(l) ==
    /\ log' = Append(log, l) /\ l \in LinesOf(Len(turns'))
    /\ IsResult(l) <=> phase = "tool"
    /\ Calls(l) <=> phase' = "tool"
    /\ \/ /\ UNCHANGED <<turns, queue>>
          /\ phase \in {"busy", "tool"} \/ (l = Marker(Len(turns)) /\ phase' = "idle")
       \/ /\ queue # <<>>
          /\ turns' = Append(turns, Head(queue)) /\ queue' = Tail(queue)
    /\ Len(turns') \in Nat \ {0} /\ phase' \in Phases
    /\ UNCHANGED <<queryVars, box, alive>>

LEMMA ClaudeWrites ==
    ASSUME TypeInv, ClaudeStep
    PROVE  \E l : Writes(l)
<1> DEFINE n == Len(turns)
<1>1. n \in Nat /\ (phase # "idle" => n \in Nat \ {0})
  BY DEF TypeInv
<1>2. CASE BeginTurn
  <2>1. /\ phase = "idle" /\ phase' = "busy" /\ queue # <<>>
        /\ turns' = Append(turns, Head(queue)) /\ queue' = Tail(queue)
        /\ log' = Append(log, UserEcho(n + 1))
        /\ UNCHANGED <<queryVars, box, alive>>
    BY <1>2 DEF BeginTurn, TakeMessage
  <2>2. Len(turns') = n + 1 /\ n + 1 \in Nat \ {0}
    BY <1>1, <2>1 DEF TypeInv
  <2>3. UserEcho(n + 1) \in LinesOf(n + 1)
        /\ ~Calls(UserEcho(n + 1)) /\ ~IsResult(UserEcho(n + 1))
    BY DEF UserEcho, LinesOf, Calls, IsResult
  <2> QED
    BY <2>1, <2>2, <2>3 DEF Writes, Phases
<1>3. CASE Work
  <2>1. PICK l \in InterimLines(n) : /\ log' = Append(log, l)
                                     /\ phase' = IF Calls(l) THEN "tool" ELSE "busy"
    BY <1>3 DEF Work, WriteInterim, Calls
  <2>2. phase = "busy" /\ UNCHANGED <<queryVars, box, alive, turns, queue>>
    BY <1>3 DEF Work, WriteInterim
  <2>3. l \in LinesOf(n) /\ ~IsResult(l)
    BY <1>1, <2>2, AssistantLines DEF LinesOf, IsResult
  <2> QED
    BY <1>1, <2>1, <2>2, <2>3 DEF Writes, Phases
<1>4. CASE ReturnTool
  <2>1. ToolResult(n) \in LinesOf(n) /\ IsResult(ToolResult(n)) /\ ~Calls(ToolResult(n))
    BY DEF ToolResult, LinesOf, IsResult, Calls
  <2>2. /\ phase = "tool" /\ phase' = "busy" /\ log' = Append(log, ToolResult(n))
        /\ UNCHANGED <<queryVars, box, alive, turns, queue>>
    BY <1>4 DEF ReturnTool, WriteToolResult
  <2> QED
    BY <1>1, <2>1, <2>2 DEF Writes, Phases
<1>5. CASE Speak
  <2>1. Reply(n) \in LinesOf(n) /\ ~IsResult(Reply(n)) /\ ~Calls(Reply(n))
    BY DEF Reply, Assistant, LinesOf, IsResult, Calls
  <2>2. /\ phase = "busy" /\ phase' = "replied" /\ log' = Append(log, Reply(n))
        /\ UNCHANGED <<queryVars, box, alive, turns, queue>>
    BY <1>5 DEF Speak, WriteReply
  <2> QED
    BY <1>1, <2>1, <2>2 DEF Writes, Phases
<1>6. CASE EndTurn
  <2>1. Marker(n) \in LinesOf(n) /\ ~IsResult(Marker(n)) /\ ~Calls(Marker(n))
    BY DEF Marker, LinesOf, IsResult, Calls
  <2>2. /\ phase \in {"busy", "replied"} /\ phase' = "idle" /\ log' = Append(log, Marker(n))
        /\ UNCHANGED <<queryVars, box, alive, turns, queue>>
    BY <1>6 DEF EndTurn, WriteMarker
  <2> QED
    BY <1>1, <2>1, <2>2 DEF Writes, Phases
<1> QED
  BY <1>2, <1>3, <1>4, <1>5, <1>6 DEF ClaudeStep

\* The transcript and the turns only grow.
LEMMA WritesGrows ==
    ASSUME TypeInv, NEW l, Writes(l)
    PROVE  /\ l \in Line /\ l.turn = Len(turns') /\ log' \in Seq(Line)
           /\ Len(log') = Len(log) + 1 /\ Len(log) \in Nat
           /\ log'[Len(log) + 1] = l
           /\ \A i \in 1..Len(log) : log'[i] = log[i]
           /\ \A i \in 1..Len(log') : i \in 1..Len(log) \/ i = Len(log) + 1
           /\ turns' \in Seq(Message) /\ queue' \in Seq(Message)
           /\ Len(turns) \in Nat /\ Len(turns') >= Len(turns)
           /\ \A t \in 1..Len(turns) : t \in 1..Len(turns') /\ turns'[t] = turns[t]
<1>1. l \in Line /\ l.turn = Len(turns')
  BY LinesOfTurn DEF Writes
<1>2. log \in Seq(Line) /\ log' = Append(log, l)
  BY DEF TypeInv, TypeOK, Writes
<1>3. /\ log' \in Seq(Line) /\ Len(log') = Len(log) + 1 /\ Len(log) \in Nat
      /\ log'[Len(log) + 1] = l /\ \A i \in 1..Len(log) : log'[i] = log[i]
  BY <1>1, <1>2
<1>4. turns \in Seq(Message) /\ queue \in Seq(Message)
  BY DEF TypeInv
<1>5. /\ turns' \in Seq(Message) /\ queue' \in Seq(Message)
      /\ Len(turns') >= Len(turns) /\ Len(turns) \in Nat
      /\ \A t \in 1..Len(turns) : t \in 1..Len(turns') /\ turns'[t] = turns[t]
  <2>1. CASE UNCHANGED <<turns, queue>>
    BY <1>4, <2>1
  <2>2. CASE queue # <<>> /\ turns' = Append(turns, Head(queue)) /\ queue' = Tail(queue)
    <3>1. Head(queue) \in Message /\ Tail(queue) \in Seq(Message)
      BY <1>4, <2>2, HeadTailProperties
    <3> QED
      BY <1>4, <2>2, <3>1
  <2> QED
    BY <2>1, <2>2 DEF Writes
<1> QED
  BY <1>1, <1>3, <1>5

\* What is forwarded of a line: nothing, its message, perhaps after the status,
\* or its tool result.
LEMMA ForwardedIs ==
    ASSUME NEW l \in Line, NEW i \in Nat
    PROVE  /\ format = "stream" /\ l.type = "assistant" =>
                Forwarded(l, i) \in {<<Event("message", i)>>,
                                     <<Event("status", 0), Event("message", i)>>}
           /\ format = "stream" /\ IsResult(l) => Forwarded(l, i) = <<Event("toolResult", i)>>
           /\ format # "stream" \/ (l.type # "assistant" /\ ~IsResult(l)) =>
                Forwarded(l, i) = <<>>
<1> DEFINE s == Event("status", 0)
           m == Event("message", i)
<1>1. <<>> \o <<m>> = <<m>> /\ <<s>> \o <<m>> = <<s, m>>
  <2>1. <<>> \in Seq({s, m}) /\ <<s>> \in Seq({s, m}) /\ <<m>> \in Seq({s, m}) /\ m \in {s, m}
    OBVIOUS
  <2>2. <<>> \o <<m>> = <<m>>
    BY <2>1, ConcatEmptySeq
  <2>3. <<s>> \o <<m>> = Append(<<s>>, m)
    BY <2>1, AppendIsConcat
  <2> HIDE DEF s, m
  <2>4. Append(<<s>>, m) = <<s, m>>
    <3>1. <<s>> \in Seq({s, m}) /\ m \in {s, m} /\ Len(<<s>>) = 1 /\ <<s>>[1] = s
      OBVIOUS
    <3>2. /\ Append(<<s>>, m) \in Seq({s, m}) /\ Len(Append(<<s>>, m)) = 2
          /\ Append(<<s>>, m)[1] = s /\ Append(<<s>>, m)[2] = m
      BY <3>1, AppendProperties
    <3>3. /\ <<s, m>> \in Seq({s, m}) /\ Len(<<s, m>>) = 2
          /\ <<s, m>>[1] = s /\ <<s, m>>[2] = m
      OBVIOUS
    <3>4. \A j \in 1..2 : Append(<<s>>, m)[j] = <<s, m>>[j]
      BY <3>2, <3>3
    <3> QED
      BY <3>2, <3>3, <3>4, SeqEqual
  <2> QED
    BY <2>2, <2>3, <2>4
<1>2. CASE format = "stream" /\ l.type = "assistant"
  BY <1>1, <1>2 DEF Forwarded, IsResult
<1>3. CASE format = "stream" /\ IsResult(l)
  BY <1>3 DEF Forwarded, IsResult
<1>4. CASE format # "stream" \/ (l.type # "assistant" /\ ~IsResult(l))
  BY <1>4 DEF Forwarded, IsResult
<1> QED
  BY <1>2, <1>3, <1>4

\* What finish writes.
LEMMA SummaryIs ==
    ASSUME TypeInv
    PROVE  Summary \in {<<>>, <<Event("text", em.finalText)>>, <<Envelope>>,
                        <<Event("rateLimit", 0), Envelope>>}
BY QueryAssumption DEF QueryAssumption, TypeInv, TypeOK, Summary

\* The kinds and numbers of the events written.
LEMMA EventsAre ==
    ASSUME NEW k \in EventKinds, NEW n \in Nat
    PROVE  Event(k, n) \in Events /\ Event(k, n).kind = k /\ Event(k, n).n = n
BY DEF Event, Events

LEMMA EnvelopeIs ==
    ASSUME TypeInv
    PROVE  /\ em.finalText \in Nat
           /\ Envelope \in Events /\ Envelope.n = em.finalText
           /\ Envelope.kind = IF em.terminalSeen THEN "success" ELSE "failure"
<1>1. em.finalText \in Nat /\ em.terminalSeen \in BOOLEAN
  BY DEF TypeInv, TypeOK
<1>2. Envelope = Event(IF em.terminalSeen THEN "success" ELSE "failure", em.finalText)
  BY DEF Envelope
<1> QED
  BY <1>1, <1>2, EventsAre DEF EventKinds

\* Events are appended to what was written.
LEMMA OutGrows ==
    ASSUME NEW o \in Seq(Events), NEW s \in Seq(Events)
    PROVE  /\ o \o s \in Seq(Events) /\ Len(o \o s) = Len(o) + Len(s)
           /\ \A i \in 1..Len(o) : (o \o s)[i] = o[i]
           /\ \A i \in 1..Len(s) : (o \o s)[Len(o) + i] = s[i]
           /\ \A i \in 1..Len(o \o s) : i \in 1..Len(o) \/ i - Len(o) \in 1..Len(s)
<1>1. /\ o \o s \in Seq(Events) /\ Len(o \o s) = Len(o) + Len(s)
      /\ \A i \in 1..Len(o) + Len(s) : (o \o s)[i] = IF i <= Len(o) THEN o[i] ELSE s[i - Len(o)]
  BY ConcatProperties
<1>2. Len(o) \in Nat /\ Len(s) \in Nat
  OBVIOUS
<1>3. \A i \in 1..Len(o) : (o \o s)[i] = o[i]
  BY <1>1, <1>2
<1>4. \A i \in 1..Len(s) : (o \o s)[Len(o) + i] = s[i]
  <2> TAKE i \in 1..Len(s)
  <2>1. Len(o) + i \in 1..Len(o) + Len(s) /\ ~(Len(o) + i <= Len(o)) /\ (Len(o) + i) - Len(o) = i
    BY <1>2
  <2> QED
    BY <1>1, <2>1
<1> QED
  BY <1>1, <1>2, <1>3, <1>4

LEMMA InitTypes == Init => TypeInv
<1> SUFFICES ASSUME Init PROVE TypeInv
  OBVIOUS
<1>1. UserEcho(1) \in Line /\ Reply(1) \in Line
  BY LinesOfTurn DEF LinesOf
<1>2. /\ phase \in Phases /\ log \in Seq(Line) /\ turns \in Seq(Message)
      /\ phase # "idle" => Len(turns) > 0
  <2>1. /\ <<UserEcho(1), Reply(1)>> \in Seq(Line) /\ <<UserEcho(1)>> \in Seq(Line)
        /\ <<>> \in Seq(Line) /\ <<>> \in Seq(Message)
    BY <1>1
  <2>2. <<<<0>>>> \in Seq(Message) /\ Len(<<<<0>>>>) = 1
    BY DEF Message
  <2>3. \/ phase = "idle" /\ turns = <<>> /\ log = <<>>
        \/ phase = "replied" /\ turns = <<<<0>>>> /\ log = <<UserEcho(1), Reply(1)>>
        \/ phase = "busy" /\ turns = <<<<0>>>> /\ log = <<UserEcho(1)>>
    BY DEF Init, InitClaude
  <2>4. phase \in Phases
    BY <2>3 DEF Phases
  <2>5. turns \in Seq(Message) /\ (phase # "idle" => Len(turns) > 0)
    <3>1. CASE turns = <<>> /\ phase = "idle"
      BY <2>1, <3>1
    <3>2. CASE turns = <<<<0>>>>
      BY <2>2, <3>2
    <3> QED
      BY <2>3, <3>1, <3>2
  <2>6. log \in Seq(Line)
    BY <2>1, <2>3
  <2> QED
    BY <2>4, <2>5, <2>6
<1>3. /\ box \in Message /\ queue \in Seq(Message) /\ out \in Seq(Events) /\ out = <<>>
  BY DEF Init, InitClaude, Message
<1>4. em \in [finalText : Nat, terminalSeen : BOOLEAN, statusEmitted : BOOLEAN]
  BY DEF Init, NoText
<1>5. offset \in 0..Len(log) /\ pos \in 0..Len(log)
  BY <1>2 DEF Init
<1>6. \A i \in 1..Len(out) : out[i] \in Events
  BY <1>3
<1>7. settled \in BOOLEAN /\ backend \in Backends /\ format \in Formats
  BY DEF Init
<1> QED
  BY <1>2, <1>3, <1>4, <1>5, <1>6, <1>7 DEF Init, TypeInv, TypeOK, Events

\* Query's own steps leave transcript, turns and phase alone.
LEMMA RunKeepsTranscript ==
    ASSUME Run \/ Exit \/ UNCHANGED vars
    PROVE  UNCHANGED <<log, turns, phase>>
BY DEF Run, Prepare, AwaitReady, ReadyFails, Settle, SettleFails, Go, Return, Fail, Close, RecordOffset, TypePrompt, ReceivePrompt, PressEnter,
   ReceiveEnter, EmitInit, Look, FindTranscript, NoTranscript, ReadLine, TimeOut,
   Finish, DeferredClose, Exit, Quit, vars, claudeVars

\* What the emitter writes are events, and its state stays one.
LEMMA ForwardedEvents ==
    ASSUME NEW l \in Line, NEW i \in Nat
    PROVE  Forwarded(l, i) \in Seq(Events)
<1>1. Event("status", 0) \in Events /\ Event("message", i) \in Events
      /\ Event("toolResult", i) \in Events
  BY EventsAre DEF EventKinds
<1>2. \A e, f \in Events : /\ <<>> \in Seq(Events) /\ <<e>> \in Seq(Events)
                           /\ <<e, f>> \in Seq(Events)
  OBVIOUS
<1>3. Forwarded(l, i) \in {<<>>, <<Event("message", i)>>, <<Event("toolResult", i)>>,
                          <<Event("status", 0), Event("message", i)>>}
  BY ForwardedIs
<1> QED
  BY <1>1, <1>2, <1>3

LEMMA SummaryEvents ==
    ASSUME TypeInv
    PROVE  Summary \in Seq(Events)
<1>1. /\ Event("text", em.finalText) \in Events /\ Event("rateLimit", 0) \in Events
      /\ Envelope \in Events
  BY EnvelopeIs, EventsAre DEF EventKinds
<1>2. \A e, f \in Events : /\ <<>> \in Seq(Events) /\ <<e>> \in Seq(Events)
                           /\ <<e, f>> \in Seq(Events)
  OBVIOUS
<1> QED
  BY <1>1, <1>2, SummaryIs

LEMMA HandledTypes ==
    ASSUME TypeInv, NEW l \in Line
    PROVE  Handled(l) \in [finalText : Nat, terminalSeen : BOOLEAN, statusEmitted : BOOLEAN]
<1>1. em \in [finalText : Nat, terminalSeen : BOOLEAN, statusEmitted : BOOLEAN]
  BY DEF TypeInv, TypeOK
<1>2. NextText(l, em.finalText) \in Nat
  BY <1>1 DEF NextText, TextFromContent, CarriesText, NoText, Line
<1>3. (em.terminalSeen \/ Terminal(l)) \in BOOLEAN /\ (em.statusEmitted \/ format = "stream") \in BOOLEAN
  BY <1>1
<1> QED
  BY <1>1, <1>2, <1>3 DEF Handled

LEMMA NextTypes == TypeInv /\ [Next]_vars => TypeInv'
<1> SUFFICES ASSUME TypeInv, [Next]_vars PROVE TypeInv'
  OBVIOUS
<1> USE DEF TypeInv
<1>1. CASE ClaudeStep
  <2>1. PICK l : Writes(l)
    BY <1>1, ClaudeWrites
  <2>2. /\ Len(log') = Len(log) + 1 /\ Len(log) \in Nat /\ log' \in Seq(Line)
        /\ turns' \in Seq(Message) /\ queue' \in Seq(Message)
    BY <2>1, WritesGrows
  <2>3. UNCHANGED <<queryVars, box>> /\ phase' \in Phases /\ Len(turns') > 0
    BY <2>1 DEF Writes
  <2> QED
    BY <2>2, <2>3 DEF TypeOK, queryVars, choices
<1>2. ASSUME UNCHANGED <<log, turns, phase>>, UNCHANGED choices,
             box' \in Message, queue' \in Seq(Message), out' \in Seq(Events),
             offset' \in 0..Len(log), pos' \in 0..Len(log),
             sawUserTurn' \in BOOLEAN, waiting' \in BOOLEAN, cut' \in BOOLEAN,
             em' \in [finalText : Nat, terminalSeen : BOOLEAN, statusEmitted : BOOLEAN],
             outcome' \in {"none", "ok", "error"},
             at' \in {"prepare", "settle", "offset", "type", "enter", "init", "path", "tail",
                      "finish", "defer", "done"}
      PROVE  TypeInv'
  <2>1. \A i \in 1..Len(out') : out'[i] \in Events
    BY <1>2
  <2>2. Len(log') = Len(log) /\ log' \in Seq(Line) /\ phase' \in Phases
    BY <1>2 DEF TypeOK
  <2>3. TypeOK'
    BY <1>2, <2>1, <2>2 DEF TypeOK, choices, Events
  <2> QED
    BY <1>2, <2>3
<1>3. ASSUME Fail PROVE TypeInv'
  BY <1>2, <1>3 DEF Fail, Return, claudeVars, TypeOK
<1>4. CASE Prepare
  <2>1. CASE AwaitReady \/ Settle
    BY <1>2, <2>1 DEF AwaitReady, Settle, Go, claudeVars, TypeOK
  <2>2. CASE ReadyFails \/ SettleFails
    BY <1>2, <2>2 DEF ReadyFails, SettleFails, Return, Close, TypeOK
  <2> QED
    BY <1>4, <2>1, <2>2 DEF Prepare
<1>5. CASE RecordOffset
  BY <1>2, <1>5 DEF RecordOffset, Go, claudeVars, TypeOK
<1>6. CASE TypePrompt
  <2>1. box' \in Message
    <3>1. OurPrompt \in Nat /\ box \in Seq(Nat)
      BY DEF OurPrompt, Message
    <3>2. box' = box \/ box' = Append(box, OurPrompt)
      BY <1>6 DEF TypePrompt, ReceivePrompt, Fail, claudeVars
    <3>3. box \in Seq(Nat) => Append(box, OurPrompt) \in Seq(Nat)
      BY <3>1, AppendProperties
    <3>4. Message = Seq(Nat)
      BY DEF Message
    <3> QED
      BY <3>1, <3>2, <3>3, <3>4
  <2> QED
    BY <1>2, <1>3, <1>6, <2>1 DEF TypePrompt, ReceivePrompt, Go, TypeOK
<1>7. CASE PressEnter
  <2>1. box' \in Message /\ queue' \in Seq(Message)
    <3>1. \/ UNCHANGED <<box, queue>>
          \/ box' = <<>> /\ queue' = Append(queue, box)
      BY <1>7 DEF PressEnter, ReceiveEnter, Fail, claudeVars
    <3>2. <<>> \in Message
      BY DEF Message
    <3> QED
      BY <3>1, <3>2
  <2> QED
    BY <1>2, <1>3, <1>7, <2>1 DEF PressEnter, ReceiveEnter, Go, TypeOK
<1>8. CASE EmitInit
  <2>1. out' \in Seq(Events)
    BY <1>8, EventsAre DEF EmitInit, EventKinds
  <2> QED
    BY <1>2, <1>8, <2>1 DEF EmitInit, Go, claudeVars, TypeOK
<1>9. CASE Look
  BY <1>2, <1>9 DEF Look, claudeVars, TypeOK
<1>10. CASE FindTranscript
  BY <1>2, <1>10 DEF FindTranscript, claudeVars, TypeOK
<1>11. CASE NoTranscript
  BY <1>3, <1>11 DEF NoTranscript
<1>12. CASE ReadLine
  <2> DEFINE l == log[pos + 1]
  <2>1. pos + 1 \in 1..Len(log) /\ pos + 1 \in Nat /\ l \in Line
    BY <1>12 DEF ReadLine, TypeOK
  <2>2. em' = Handled(l) /\ out' = out \o Forwarded(l, pos + 1)
    BY <1>12 DEF ReadLine
  <2>3. out' \in Seq(Events)
    BY <2>1, <2>2, ForwardedEvents, OutGrows
  <2>4. em' \in [finalText : Nat, terminalSeen : BOOLEAN, statusEmitted : BOOLEAN]
    BY <2>1, <2>2, HandledTypes
  <2>5. sawUserTurn' \in BOOLEAN /\ at' \in {"finish", "tail"} /\ pos' \in 0..Len(log)
    BY <1>12, <2>1 DEF ReadLine, TypeOK, OpensTurn
  <2> QED
    BY <1>2, <1>12, <2>3, <2>4, <2>5 DEF ReadLine, claudeVars, TypeOK
<1>13. CASE TimeOut
  BY <1>2, <1>3, <1>13 DEF TimeOut, claudeVars, TypeOK
<1>14. CASE Finish
  <2>1. out' \in Seq(Events)
    BY <1>14, SummaryEvents, OutGrows DEF Finish
  <2> QED
    BY <1>2, <1>14, <2>1 DEF Finish, Return, Close, TypeOK
<1>16. CASE DeferredClose
  BY <1>2, <1>16 DEF DeferredClose, Return, Close, TypeOK
<1>15. CASE Exit \/ UNCHANGED vars
  BY <1>2, <1>15 DEF Exit, Quit, vars, queryVars, claudeVars, TypeOK
<1> QED
  BY <1>1, <1>4, <1>5, <1>6, <1>7, <1>8, <1>9, <1>10, <1>11, <1>12, <1>13, <1>14, <1>15,
     <1>16 DEF Next, Run

-----------------------------------------------------------------------------
(* A run closes what it owns.                                              *)

Returned == /\ outcome # "none" <=> at \in {"defer", "done"}
            /\ OneShotLeavesNoClaude

LEMMA NextReturned == TypeInv /\ Returned /\ [Next]_vars => Returned'
<1> SUFFICES ASSUME TypeInv, Returned, [Next]_vars PROVE Returned'
  OBVIOUS
<1> USE DEF Returned, OneShotLeavesNoClaude
\* Whoever returns for good has closed; an error before that is not the end.
<1>1. ASSUME Close, at' = "done", UNCHANGED backend, outcome' # "none" PROVE Returned'
  BY <1>1 DEF Close
<1>2. ASSUME Fail PROVE Returned'
  BY <1>2 DEF Fail, Return
<1>3. ASSUME at \notin {"defer", "done"}, at' \notin {"defer", "done"}, UNCHANGED outcome
      PROVE  Returned'
  BY <1>3
<1>4. CASE ClaudeStep
  <2>1. PICK l : Writes(l)
    BY <1>4, ClaudeWrites
  <2> QED
    BY <2>1 DEF Writes, queryVars, choices
<1>5. CASE Prepare
  <2>1. CASE AwaitReady \/ Settle
    BY <1>3, <2>1 DEF AwaitReady, Settle, Go
  <2>2. CASE ReadyFails \/ SettleFails
    BY <1>1, <2>2 DEF ReadyFails, SettleFails, Return, choices
  <2> QED
    BY <1>5, <2>1, <2>2 DEF Prepare
<1>6. CASE TypePrompt \/ PressEnter \/ NoTranscript \/ TimeOut
  BY <1>2, <1>3, <1>6 DEF TypePrompt, PressEnter, NoTranscript, TimeOut, Go
<1>7. CASE RecordOffset \/ EmitInit \/ Look \/ FindTranscript \/ ReadLine
  BY <1>3, <1>7 DEF RecordOffset, EmitInit, Look, FindTranscript, ReadLine, Go
<1>8. CASE Finish
  BY <1>8 DEF Finish, Return
<1>9. CASE DeferredClose
  <2>1. outcome # "none"
    BY <1>9 DEF DeferredClose
  <2> QED
    BY <1>1, <1>9, <2>1 DEF DeferredClose, Return, choices
<1>10. CASE Exit \/ UNCHANGED vars
  BY <1>10 DEF Exit, Quit, vars, queryVars, choices, claudeVars
<1> QED
  BY <1>4, <1>5, <1>6, <1>7, <1>8, <1>9, <1>10 DEF Next, Run

\* A run that owns its claude leaves none behind: each of its returns has a Close
\* of its own or the deferred one before it, for any deadlines, failures and exits
\* (client.go:125, 135, 212).
THEOREM LeavesNoClaude == Spec => []OneShotLeavesNoClaude
<1>1. Init => TypeInv /\ Returned
  BY InitTypes DEF Init, Returned, OneShotLeavesNoClaude
<1>2. TypeInv /\ Returned /\ [Next]_vars => (TypeInv /\ Returned)'
  BY NextTypes, NextReturned
<1>3. Returned => OneShotLeavesNoClaude
  BY DEF Returned
<1> QED
  BY <1>1, <1>2, <1>3, PTL DEF Spec

-----------------------------------------------------------------------------
(* What the run sends, and what claude writes for it.                      *)

\* Only our prompt is ever typed, and once.
Sent == /\ box \in {<<>>, <<OurPrompt>>} /\ queue \in {<<>>, <<<<OurPrompt>>>>}
        /\ at \in {"prepare", "settle", "offset", "type"} => box = <<>> /\ queue = <<>>
        /\ at = "enter" => queue = <<>>

\* Every line is one of a turn begun.
Written == \A i \in 1..Len(log) : /\ log[i].turn \in 1..Len(turns)
                                  /\ log[i] \in LinesOf(log[i].turn)

IsOurs(l) == l = Marker(l.turn) \/ Ours(l.turn)

\* In a conversation that was settled, claude only works on our turn, and what
\* it wrote since the cursor was taken is of our turn, but for markers.
OursFromOffset == settled =>
    /\ phase \in {"busy", "tool"} => Ours(Len(turns))
    /\ at \notin {"prepare", "settle", "offset", "done"} =>
          \A i \in offset + 1..Len(log) : IsOurs(log[i])

LEMMA NextSent == TypeInv /\ Sent /\ [Next]_vars => Sent'
<1> SUFFICES ASSUME TypeInv, Sent, [Next]_vars PROVE Sent'
  OBVIOUS
<1> USE DEF Sent
<1>1. ASSUME UNCHANGED <<box, queue>>,
             \/ UNCHANGED at
             \/ at \in {"prepare", "settle", "offset"} /\ at' \in {"settle", "offset", "type"}
             \/ at' \notin {"prepare", "settle", "offset", "type", "enter"}
      PROVE  Sent'
  BY <1>1
<1>2. ASSUME Fail PROVE Sent'
  BY <1>1, <1>2 DEF Fail, claudeVars
<1>3. CASE ClaudeStep
  <2>1. PICK l : Writes(l)
    BY <1>3, ClaudeWrites
  <2>2. UNCHANGED <<box, at>> /\ (UNCHANGED queue \/ (queue # <<>> /\ queue' = Tail(queue)))
    BY <2>1 DEF Writes, queryVars
  <2>3. Tail(<<<<OurPrompt>>>>) = <<>>
    OBVIOUS
  <2>4. queue' = queue \/ queue' = <<>>
    BY <2>2, <2>3
  <2> QED
    BY <2>2, <2>4
<1>4. CASE TypePrompt
  <2>1. CASE Fail
    BY <1>2, <2>1
  <2>2. CASE /\ at = "type" /\ at' = "enter" /\ UNCHANGED queue
             /\ box' = IF alive THEN Append(box, OurPrompt) ELSE box
    <3>1. Append(<<>>, OurPrompt) = <<OurPrompt>>
      OBVIOUS
    <3> QED
      BY <2>2, <3>1
  <2> QED
    BY <1>4, <2>1, <2>2 DEF TypePrompt, Go, ReceivePrompt
<1>5. CASE PressEnter
  <2>1. CASE Fail
    BY <1>2, <2>1
  <2>2. CASE /\ at = "enter" /\ at' = "init"
             /\ \/ UNCHANGED <<box, queue>>
                \/ box # <<>> /\ queue' = Append(queue, box) /\ box' = <<>>
    <3>1. Append(<<>>, <<OurPrompt>>) = <<<<OurPrompt>>>>
      OBVIOUS
    <3> QED
      BY <2>2, <3>1
  <2> QED
    BY <1>5, <2>1, <2>2 DEF PressEnter, Go, ReceiveEnter
<1>6. CASE Prepare \/ NoTranscript \/ TimeOut
  BY <1>1, <1>2, <1>6 DEF Prepare, AwaitReady, ReadyFails, Settle, SettleFails, Go, Close,
     NoTranscript, TimeOut, claudeVars
<1>7. CASE \/ RecordOffset \/ EmitInit \/ Look \/ FindTranscript \/ ReadLine \/ Finish
           \/ DeferredClose
  BY <1>1, <1>7 DEF RecordOffset, Go, EmitInit, Look, FindTranscript, ReadLine, Finish,
     DeferredClose, Close, claudeVars
<1>8. CASE Exit \/ UNCHANGED vars
  BY <1>1, <1>8 DEF Exit, Quit, vars, queryVars, claudeVars
<1> QED
  BY <1>3, <1>4, <1>5, <1>6, <1>7, <1>8 DEF Next, Run

LEMMA InitWritten == Init => Written
<1> SUFFICES ASSUME Init PROVE Written
  OBVIOUS
<1>1. /\ UserEcho(1).turn = 1 /\ UserEcho(1) \in LinesOf(1)
      /\ Reply(1).turn = 1 /\ Reply(1) \in LinesOf(1)
  BY DEF UserEcho, Reply, Assistant, LinesOf
<1>2. CASE log = <<>>
  BY <1>2 DEF Written
<1>3. CASE Len(turns) = 1 /\ log = <<UserEcho(1)>>
  BY <1>1, <1>3 DEF Written
<1>4. CASE Len(turns) = 1 /\ log = <<UserEcho(1), Reply(1)>>
  <2>1. \A i \in 1..Len(log) : log[i] = UserEcho(1) \/ log[i] = Reply(1)
    BY <1>4
  <2> QED
    BY <1>1, <1>4, <2>1 DEF Written
<1>5. Len(<<<<0>>>>) = 1
  OBVIOUS
<1> QED
  BY <1>2, <1>3, <1>4, <1>5 DEF Init, InitClaude

LEMMA NextWritten == TypeInv /\ Written /\ [Next]_vars => Written'
<1> SUFFICES ASSUME TypeInv, Written, [Next]_vars PROVE Written'
  OBVIOUS
<1>1. CASE ClaudeStep
  <2>1. PICK l : Writes(l)
    BY <1>1, ClaudeWrites
  <2>2. l \in LinesOf(Len(turns')) /\ Len(turns') \in Nat \ {0}
    BY <2>1 DEF Writes
  <2> QED
    BY <2>1, <2>2, WritesGrows DEF Written
<1>2. CASE UNCHANGED <<log, turns, phase>>
  BY <1>2 DEF Written
<1> QED
  BY <1>1, <1>2, RunKeepsTranscript DEF Next

\* A turn once begun is ours, or not, for good.
LEMMA OursStays ==
    ASSUME TypeInv, NEW t \in 1..Len(turns),
           \/ UNCHANGED turns
           \/ \E l : Writes(l)
    PROVE  Ours(t)' <=> Ours(t)
BY WritesGrows DEF Ours, IsTurnOf

LEMMA NextOurs ==
    ASSUME TypeInv, Sent, Written, OursFromOffset, [Next]_vars
    PROVE  OursFromOffset'
<1> SUFFICES ASSUME settled PROVE OursFromOffset'
  <2>1. UNCHANGED settled
    BY DEF Next, Run, Prepare, AwaitReady, ReadyFails, Settle, SettleFails, Go, Return, Fail,
       RecordOffset, TypePrompt, PressEnter, EmitInit, Look,
       FindTranscript, NoTranscript, ReadLine, TimeOut, Finish, DeferredClose, ClaudeStep, BeginTurn, Work,
       ReturnTool, Speak, EndTurn, Exit, vars, queryVars, choices
  <2> QED
    BY <2>1 DEF OursFromOffset
<1>1. Len(log) \in Nat /\ offset \in Nat
  BY DEF TypeInv, TypeOK
<1>2. CASE ClaudeStep
  <2>1. PICK l : Writes(l)
    BY <1>2, ClaudeWrites
  <2>2. UNCHANGED <<settled, at, offset>>
    BY <2>1 DEF Writes, queryVars, choices
  <2>3. \/ l = Marker(l.turn) /\ phase' = "idle"
        \/ Ours(Len(turns))'
    <3>1. CASE UNCHANGED turns /\ phase \in {"busy", "tool"}
      BY <3>1 DEF OursFromOffset, Ours, IsTurnOf
    <3>2. CASE UNCHANGED turns /\ l = Marker(Len(turns)) /\ phase' = "idle"
      BY <2>1, <3>2, WritesGrows
    <3>3. CASE queue # <<>> /\ turns' = Append(turns, Head(queue))
      <4>1. Head(queue) = <<OurPrompt>>
        BY <3>3 DEF Sent
      <4>2. turns' = Append(turns, <<OurPrompt>>) /\ turns \in Seq(Message) /\ <<OurPrompt>> \in Message
        BY <3>3, <4>1 DEF TypeInv, Message, OurPrompt
      <4>3. Len(turns') \in 1..Len(turns') /\ turns'[Len(turns')] = <<OurPrompt>>
        BY <4>2, AppendProperties
      <4>4. Len(<<OurPrompt>>) = 1 /\ <<OurPrompt>>[1] = OurPrompt
        OBVIOUS
      <4> QED
        BY <4>3, <4>4 DEF Ours, IsTurnOf
    <3> QED
      BY <2>1, <3>1, <3>2, <3>3 DEF Writes
  <2>4. phase' \in {"busy", "tool"} => Ours(Len(turns))'
    BY <2>3
  <2>5. IsOurs(l)'
    BY <2>1, <2>3, WritesGrows DEF IsOurs
  <2>6. ASSUME NEW i \in 1..Len(log), IsOurs(log[i]) PROVE IsOurs(log[i])'
    <3>1. log'[i] = log[i] /\ log[i].turn \in 1..Len(turns)
      BY <2>1, WritesGrows DEF Written
    <3>2. Ours(log[i].turn)' <=> Ours(log[i].turn)
      BY <2>1, <3>1, OursStays
    <3> QED
      BY <2>6, <3>1, <3>2 DEF IsOurs
  <2>7. ASSUME at \notin {"prepare", "settle", "offset", "done"}, NEW i \in offset + 1..Len(log')
        PROVE  IsOurs(log[i])'
    <3>1. CASE i \in 1..Len(log)
      BY <1>1, <2>6, <2>7, <3>1 DEF OursFromOffset
    <3>2. CASE i = Len(log) + 1
      BY <2>1, <2>5, <3>2, WritesGrows DEF IsOurs
    <3> QED
      BY <1>1, <2>1, <2>7, <3>1, <3>2, WritesGrows
  <2> QED
    BY <2>2, <2>4, <2>7 DEF OursFromOffset, Ours
<1>3. CASE RecordOffset
  <2>1. offset' = Len(log) /\ log' = log /\ turns' = turns /\ phase' = phase
    BY <1>3 DEF RecordOffset, claudeVars
  <2>2. \A i \in offset' + 1..Len(log') : FALSE
    BY <1>1, <2>1
  <2> QED
    BY <2>1, <2>2 DEF OursFromOffset, Ours, IsTurnOf
<1>4. ASSUME UNCHANGED <<log, turns, phase, offset>>,
             at' \in {"prepare", "settle", "offset", "done"} \/ at \notin {"prepare", "settle", "offset", "done"}
      PROVE  OursFromOffset'
  BY <1>4 DEF OursFromOffset, IsOurs, Ours, IsTurnOf
<1>5. CASE Prepare \/ TypePrompt \/ PressEnter \/ EmitInit \/ Look \/ FindTranscript
           \/ NoTranscript \/ ReadLine \/ TimeOut \/ Finish \/ DeferredClose \/ Exit
           \/ UNCHANGED vars
  <2>1. UNCHANGED offset
    BY <1>5 DEF Prepare, AwaitReady, ReadyFails, Settle, SettleFails, TypePrompt, PressEnter,
       EmitInit, Look, FindTranscript, NoTranscript, ReadLine, TimeOut, Finish, DeferredClose,
       Exit, Fail, Return, vars, queryVars
  <2>2. UNCHANGED <<log, turns, phase>>
    BY <1>5, RunKeepsTranscript DEF Run
  <2>3. at' \in {"prepare", "settle", "offset", "done"} \/ at \notin {"prepare", "settle", "offset", "done"}
    BY <1>5 DEF Prepare, AwaitReady, ReadyFails, Settle, SettleFails, TypePrompt, PressEnter,
       EmitInit, Look, FindTranscript, Go, NoTranscript, ReadLine, TimeOut, Finish,
       DeferredClose, Exit, Fail, vars, queryVars
  <2> QED
    BY <1>4, <2>1, <2>2, <2>3
<1> QED
  BY <1>2, <1>3, <1>5 DEF Next, Run

-----------------------------------------------------------------------------
(* The answer and the envelope.                                            *)

\* The steps before the transcript is opened, and the emitter until then.
Before == {"prepare", "settle", "offset", "type", "enter", "init", "path"}
Fresh  == [finalText |-> NoText, terminalSeen |-> FALSE, statusEmitted |-> FALSE]

\* What the emitter holds is what the lines after the cursor say.
Gathered == /\ at \in Before => pos = 0 /\ em = Fresh
            /\ at \in {"tail", "finish"} => pos >= offset
            /\ settled => /\ em.finalText = NoText \/ Ours(em.finalText)
                          /\ em.terminalSeen <=> RepliedToUs

\* The answer, and the envelope.
Summaries == {"text", "success", "failure"}
Unanswered == \A i \in 1..Len(out) : out[i].kind \notin Summaries

\* They are only written when the run returns.
AnswerInv == /\ at \in Before \ {"path"} => out = <<>>
             /\ at \notin {"defer", "done"} => Unanswered
             /\ AnswerIsOwn /\ EnvelopeIsHonest

\* A text, or a reply, seen so far stays ours when claude writes.
LEMMA GatheredStays ==
    ASSUME TypeInv, Written, NEW l, Writes(l)
    PROVE  /\ \A n \in Nat : Ours(n) => Ours(n)'
           /\ RepliedToUs' <=> RepliedToUs
<1>1. \A t \in 1..Len(turns) : Ours(t)' <=> Ours(t)
  BY OursStays
<1>2. \A n \in Nat : Ours(n) => n \in 1..Len(turns)
  BY DEF Ours, IsTurnOf
<1>3. UNCHANGED <<offset, pos>> /\ pos \in 0..Len(log) /\ offset \in Nat /\ Len(log) \in Nat
  BY DEF Writes, queryVars, TypeInv, TypeOK
<1>4. ASSUME NEW j \in offset + 1..pos
      PROVE  /\ log'[j] = log[j] /\ log[j].turn \in 1..Len(turns)
             /\ Ours(log[j].turn)' <=> Ours(log[j].turn)
  <2>1. j \in 1..Len(log)
    BY <1>3
  <2>2. log'[j] = log[j] /\ log[j].turn \in 1..Len(turns)
    BY <2>1, WritesGrows DEF Written
  <2> QED
    BY <1>1, <2>2
<1>5. RepliedToUs' <=> RepliedToUs
  BY <1>3, <1>4 DEF RepliedToUs
<1> QED
  BY <1>1, <1>2, <1>5

\* The line the tail reads next.
LEMMA NextLine ==
    ASSUME TypeInv, Written, OursFromOffset, Gathered, ReadLine
    PROVE  LET l == log[pos + 1]
           IN  /\ pos \in Nat /\ offset \in Nat /\ pos >= offset /\ pos + 1 \in 1..Len(log)
               /\ l \in Line /\ l.turn \in Nat \ {0} /\ l \in LinesOf(l.turn)
               /\ settled => IsOurs(l)
<1> DEFINE l == log[pos + 1]
<1>1. at = "tail" /\ pos < Len(log) /\ pos \in Nat /\ offset \in Nat /\ Len(log) \in Nat
  BY DEF ReadLine, TypeInv, TypeOK
<1>2. pos >= offset /\ pos + 1 \in 1..Len(log) /\ pos + 1 \in offset + 1..Len(log)
  BY <1>1 DEF Gathered
<1>3. l \in Line /\ l.turn \in 1..Len(turns) /\ l \in LinesOf(l.turn)
  BY <1>2 DEF Written, TypeInv, TypeOK
<1>4. settled => IsOurs(l)
  BY <1>1, <1>2 DEF OursFromOffset
<1>5. l.turn \in Nat \ {0}
  BY <1>3
<1> QED
  BY <1>1, <1>2, <1>3, <1>4, <1>5

\* A line read keeps the emitter's state in step with the transcript.
LEMMA ReadKeepsGathered ==
    ASSUME TypeInv, Written, OursFromOffset, Gathered, ReadLine
    PROVE  Gathered'
<1> DEFINE l == log[pos + 1]
<1>1. /\ pos \in Nat /\ offset \in Nat /\ pos >= offset /\ pos + 1 \in 1..Len(log)
      /\ l \in Line /\ l.turn \in Nat \ {0} /\ l \in LinesOf(l.turn)
      /\ settled => IsOurs(l)
  BY NextLine
<1>2. /\ pos' = pos + 1 /\ em' = Handled(l) /\ at' \in {"tail", "finish"}
      /\ UNCHANGED <<offset, settled, log, turns>>
  BY DEF ReadLine, choices, claudeVars
<1> HIDE DEF l
<1>3. /\ l.type = "assistant" /\ Terminal(l) <=> l = Reply(l.turn)
      /\ CarriesText(l) => l # Marker(l.turn) /\ TextFromContent(l) = l.turn
      /\ Reply(l.turn) # Marker(l.turn)
  BY <1>1, LinesOfTurn
<1>4. ASSUME settled
      PROVE  /\ em'.finalText = NoText \/ Ours(em'.finalText)
             /\ em'.terminalSeen <=> RepliedToUs \/ l = Reply(l.turn)
  <2>1. /\ em.finalText = NoText \/ Ours(em.finalText)
        /\ em.terminalSeen <=> RepliedToUs
        /\ l = Marker(l.turn) \/ Ours(l.turn)
    BY <1>1, <1>4 DEF Gathered, IsOurs
  <2>2. CASE l.type # "assistant"
    <3>1. em' = em
      BY <1>2, <2>2 DEF Handled
    <3>2. l # Reply(l.turn)
      BY <1>3, <2>2
    <3> QED
      BY <2>1, <3>1, <3>2
  <2>3. CASE l.type = "assistant"
    <3>1. /\ em'.finalText = NextText(l, em.finalText)
          /\ em'.terminalSeen = (em.terminalSeen \/ Terminal(l))
      BY <1>2, <2>3 DEF Handled
    <3>2. em'.terminalSeen <=> RepliedToUs \/ l = Reply(l.turn)
      BY <1>3, <2>1, <2>3, <3>1
    <3>3. em'.finalText = NoText \/ Ours(em'.finalText)
      BY <1>3, <2>1, <3>1 DEF NextText
    <3> QED
      BY <3>2, <3>3
  <2> QED
    BY <2>2, <2>3
<1>5. ASSUME settled PROVE RepliedToUs' <=> RepliedToUs \/ l = Reply(l.turn)
  <2>1. l = Reply(l.turn) => Ours(l.turn)
    BY <1>1, <1>3, <1>5 DEF IsOurs
  <2>2. \A j : j \in offset + 1..pos' <=> j \in offset + 1..pos \/ j = pos + 1
    BY <1>1, <1>2
  <2>3. RepliedToUs' <=> \E j \in offset + 1..pos' : log[j] = Reply(log[j].turn) /\ Ours(log[j].turn)
    BY <1>2 DEF RepliedToUs, Ours, IsTurnOf
  <2>4. l = log[pos + 1]
    BY DEF l
  <2> QED
    BY <2>1, <2>2, <2>3, <2>4 DEF RepliedToUs
<1>6. settled => (em'.finalText = NoText \/ Ours(em.finalText)')
  BY <1>2, <1>4 DEF Ours, IsTurnOf
<1>7. at' \notin Before /\ pos' >= offset'
  BY <1>1, <1>2 DEF Before
<1> QED
  BY <1>2, <1>4, <1>5, <1>6, <1>7 DEF Gathered

LEMMA NextGathered ==
    ASSUME TypeInv, Written, OursFromOffset, Gathered, [Next]_vars
    PROVE  Gathered'
<1>0. pos \in Nat /\ offset \in Nat /\ em.finalText \in Nat
  BY DEF TypeInv, TypeOK
<1>1. CASE ClaudeStep
  <2>1. PICK l : Writes(l)
    BY <1>1, ClaudeWrites
  <2>2. UNCHANGED <<at, offset, pos, em, settled>>
    BY <2>1 DEF Writes, queryVars, choices
  <2> QED
    BY <1>0, <2>1, <2>2, GatheredStays DEF Gathered, Ours
<1>2. ASSUME UNCHANGED <<log, turns, settled, em, offset, pos>>,
             at' \in Before => at \in Before,
             at' \in {"tail", "finish"} => at \in {"tail", "finish"}
      PROVE  Gathered'
  BY <1>2 DEF Gathered, RepliedToUs, Ours, IsTurnOf
<1>3. ASSUME UNCHANGED <<log, turns, settled, em>>, at \in Before,
             (at' \in Before /\ pos' = pos) \/ (at' = "tail" /\ pos' = offset'),
             offset' \in Nat
      PROVE  Gathered'
  <2>1. pos = 0 /\ em = Fresh /\ ~em.terminalSeen
    BY <1>3 DEF Gathered, Fresh
  <2>2. \A j \in offset' + 1..pos' : FALSE
    <3>1. offset' \in Nat /\ (pos' = 0 \/ pos' = offset')
      BY <1>3, <2>1
    <3>2. \A o, p \in Nat : p = 0 \/ p = o => \A j \in o + 1..p : FALSE
      OBVIOUS
    <3> QED
      BY <3>1, <3>2
  <2>3. ~RepliedToUs'
    BY <2>2 DEF RepliedToUs
  <2>4. em.finalText = NoText
    BY <2>1 DEF Fresh
  <2>5. at' = "tail" => at' \notin Before
    BY DEF Before
  <2> QED
    BY <1>3, <2>1, <2>3, <2>4, <2>5 DEF Gathered, Before
<1>4. CASE RecordOffset \/ FindTranscript
  <2>1. UNCHANGED <<log, turns, settled, em>> /\ at \in Before
    BY <1>4 DEF RecordOffset, FindTranscript, Go, choices, claudeVars, Before
  <2>2. /\ (at' \in Before /\ pos' = pos) \/ (at' = "tail" /\ pos' = offset')
        /\ offset' \in Nat
    BY <1>0, <1>4 DEF RecordOffset, FindTranscript, Go, Before, TypeInv, TypeOK
  <2> QED
    BY <1>3, <2>1, <2>2
<1>5. CASE Prepare \/ TypePrompt \/ PressEnter \/ EmitInit \/ Look \/ NoTranscript
           \/ TimeOut \/ Finish \/ DeferredClose \/ Exit \/ UNCHANGED vars
  <2>1. UNCHANGED <<settled, em, offset, pos>>
    BY <1>5 DEF Prepare, AwaitReady, ReadyFails, Settle, SettleFails, TypePrompt, PressEnter,
       EmitInit, Look, NoTranscript, Go, TimeOut, Finish, DeferredClose, Exit, Fail, Return,
       vars, queryVars, choices
  <2>2. /\ at' \in Before => at \in Before
        /\ at' \in {"tail", "finish"} => at \in {"tail", "finish"}
    BY <1>5 DEF Prepare, AwaitReady, ReadyFails, Settle, SettleFails, TypePrompt, PressEnter,
       EmitInit, Look, NoTranscript, Go, TimeOut, Finish, DeferredClose, Exit, Fail, vars,
       queryVars, Before
  <2>3. UNCHANGED <<log, turns>>
    BY <1>5, RunKeepsTranscript DEF Run
  <2> QED
    BY <1>2, <2>1, <2>2, <2>3
<1>6. CASE ReadLine
  BY <1>6, ReadKeepsGathered
<1> QED
  BY <1>1, <1>4, <1>5, <1>6 DEF Next, Run

LEMMA InitGathered == Init => Sent /\ OursFromOffset /\ Gathered
<1> SUFFICES ASSUME Init PROVE Sent /\ OursFromOffset /\ Gathered
  OBVIOUS
<1>1. /\ box = <<>> /\ queue = <<>> /\ at = "prepare" /\ pos = 0 /\ offset = 0
      /\ em = Fresh /\ settled = (phase # "busy") /\ phase \in {"idle", "replied", "busy"}
  BY DEF Init, InitClaude, Fresh
<1>2. ~RepliedToUs
  BY <1>1 DEF RepliedToUs
<1>3. em.finalText = NoText /\ ~em.terminalSeen
  BY <1>1 DEF Fresh
<1> QED
  BY <1>1, <1>2, <1>3 DEF Sent, OursFromOffset, Gathered

\* Until finish, nothing of the answer is written.
LEMMA StaysUnanswered ==
    ASSUME TypeInv, AnswerInv, [Next]_vars, at \notin {"defer", "done"}, ~Finish
    PROVE  Unanswered' /\ (at' \in Before \ {"path"} => out' = <<>>)
<1>0. out \in Seq(Events) /\ Unanswered
  BY DEF TypeInv, AnswerInv
<1>1. CASE EmitInit
  <2>1. out = <<>> /\ (out' = out \/ out' = Append(out, Event("init", 0))) /\ at' = "path"
    BY <1>1 DEF EmitInit, AnswerInv, Before, Go
  <2>2. Event("init", 0).kind = "init"
    BY EventsAre DEF EventKinds
  <2>3. \A i \in 1..Len(out') : out'[i] = Event("init", 0)
    BY <2>1
  <2> QED
    BY <2>1, <2>2, <2>3 DEF Unanswered, Summaries
<1>2. CASE ReadLine
  <2> DEFINE l == log[pos + 1]
             F == Forwarded(l, pos + 1)
  <2>1. l \in Line /\ pos + 1 \in Nat
    BY <1>2 DEF ReadLine, TypeInv, TypeOK
  <2>2. out' = out \o F /\ at' \notin Before
    BY <1>2 DEF ReadLine, Before
  <2>3. F \in Seq(Events) /\ \A i \in 1..Len(F) : F[i].kind \notin Summaries
    <3>1. /\ Event("status", 0).kind = "status" /\ Event("message", pos + 1).kind = "message"
          /\ Event("toolResult", pos + 1).kind = "toolResult"
      BY <2>1, EventsAre DEF EventKinds
    <3>2. F \in {<<>>, <<Event("message", pos + 1)>>, <<Event("toolResult", pos + 1)>>,
                 <<Event("status", 0), Event("message", pos + 1)>>}
      BY <2>1, ForwardedIs
    <3>3. \A i \in 1..Len(F) : F[i] \in {Event("message", pos + 1), Event("status", 0),
                                         Event("toolResult", pos + 1)}
      <4> HIDE DEF F
      <4> QED
        BY <3>2
    <3> QED
      BY <2>1, <3>1, <3>3, ForwardedEvents DEF Summaries
  <2> HIDE DEF F
  <2>4. \A i \in 1..Len(out') : \/ i \in 1..Len(out) /\ out'[i] = out[i]
                                \/ \E j \in 1..Len(F) : out'[i] = F[j]
    <3>1. /\ \A i \in 1..Len(out) : out'[i] = out[i]
          /\ \A j \in 1..Len(F) : out'[Len(out) + j] = F[j]
          /\ \A i \in 1..Len(out') : i \in 1..Len(out) \/ i - Len(out) \in 1..Len(F)
      BY <1>0, <2>2, <2>3, OutGrows
    <3> TAKE i \in 1..Len(out')
    <3>2. CASE i \in 1..Len(out)
      BY <3>1, <3>2
    <3>3. CASE i - Len(out) \in 1..Len(F)
      <4>1. Len(out) + (i - Len(out)) = i
        BY <1>0
      <4> QED
        BY <3>1, <3>3, <4>1
    <3> QED
      BY <3>1, <3>2, <3>3
  <2> QED
    BY <1>0, <2>2, <2>3, <2>4 DEF Unanswered
<1>3. CASE UNCHANGED out /\ (at' \in Before \ {"path"} => at \in Before \ {"path"})
  BY <1>0, <1>3 DEF Unanswered, AnswerInv
<1>4. CASE ClaudeStep
  BY <1>3, <1>4 DEF ClaudeStep, BeginTurn, Work, ReturnTool, Speak, EndTurn, queryVars
<1>5. CASE Prepare \/ RecordOffset \/ TypePrompt \/ PressEnter \/ Look \/ FindTranscript
           \/ NoTranscript \/ TimeOut \/ Exit \/ UNCHANGED vars
  BY <1>3, <1>5 DEF Prepare, AwaitReady, ReadyFails, Settle, SettleFails, RecordOffset,
     TypePrompt, PressEnter, Look, FindTranscript, NoTranscript, TimeOut, Exit, Fail, Go, vars,
     queryVars, Before
<1> QED
  BY <1>1, <1>2, <1>4, <1>5 DEF Next, Run, DeferredClose

\* What finish adds is the emitter's text, and whether it saw a reply.
LEMMA FinishAnswers ==
    ASSUME TypeInv, Gathered, AnswerInv, Finish
    PROVE  AnswerIsOwn' /\ EnvelopeIsHonest'
<1>1. /\ out' = out \o Summary /\ UNCHANGED <<settled, offset, pos, em, log, turns>>
      /\ out \in Seq(Events) /\ Summary \in Seq(Events)
  BY SummaryEvents DEF Finish, Return, Close, choices, TypeInv
<1>2. Unanswered
  BY DEF Finish, AnswerInv
<1>3. \A j \in 1..Len(Summary) : Summary[j].kind \in Summaries =>
         /\ Summary[j].n = em.finalText
         /\ Summary[j].kind \in {"success", "failure"} =>
               (Summary[j].kind = "success" <=> em.terminalSeen)
  <2>1. /\ Envelope.n = em.finalText
        /\ Envelope.kind = IF em.terminalSeen THEN "success" ELSE "failure"
        /\ Event("text", em.finalText).kind = "text" /\ Event("text", em.finalText).n = em.finalText
        /\ Event("rateLimit", 0).kind = "rateLimit"
    BY EnvelopeIs, EventsAre DEF EventKinds
  <2>2. \A j \in 1..Len(Summary) : Summary[j] \in {Event("text", em.finalText), Envelope,
                                                   Event("rateLimit", 0)}
    BY SummaryIs
  <2> QED
    BY <2>1, <2>2 DEF Summaries
<1>4. \A i \in 1..Len(out') : out'[i].kind \in Summaries =>
         /\ out'[i].n = em.finalText
         /\ out'[i].kind \in {"success", "failure"} =>
               (out'[i].kind = "success" <=> em.terminalSeen)
  <2>1. /\ \A i \in 1..Len(out) : out'[i] = out[i]
        /\ \A j \in 1..Len(Summary) : out'[Len(out) + j] = Summary[j]
        /\ \A i \in 1..Len(out') : i \in 1..Len(out) \/ i - Len(out) \in 1..Len(Summary)
    BY <1>1, OutGrows
  <2> SUFFICES ASSUME NEW i \in 1..Len(out'), out'[i].kind \in Summaries
               PROVE  /\ out'[i].n = em.finalText
                      /\ out'[i].kind \in {"success", "failure"} =>
                            (out'[i].kind = "success" <=> em.terminalSeen)
    OBVIOUS
  <2>2. i - Len(out) \in 1..Len(Summary)
    BY <1>2, <2>1 DEF Unanswered
  <2>3. Len(out) + (i - Len(out)) = i
    BY <1>1
  <2> QED
    <3>1. out'[i] = Summary[i - Len(out)]
      BY <2>1, <2>2, <2>3
    <3> QED
      BY <1>3, <2>2, <3>1
<1>5. (RepliedToUs' <=> RepliedToUs) /\ \A n : Ours(n)' <=> Ours(n)
  BY <1>1 DEF RepliedToUs, Ours, IsTurnOf
<1>6. settled => /\ em.finalText = NoText \/ Ours(em.finalText)
                 /\ em.terminalSeen <=> RepliedToUs
  BY DEF Gathered
<1>7. AnswerIsOwn'
  BY <1>1, <1>4, <1>5, <1>6 DEF AnswerIsOwn, Summaries, Ours, IsTurnOf
<1>8. EnvelopeIsHonest'
  BY <1>1, <1>4, <1>5, <1>6 DEF EnvelopeIsHonest, Summaries
<1> QED
  BY <1>7, <1>8

LEMMA NextAnswer ==
    ASSUME TypeInv, Written, Gathered, AnswerInv, [Next]_vars
    PROVE  AnswerInv'
<1>1. CASE Finish
  <2>1. at' = "defer"
    BY <1>1 DEF Finish
  <2> QED
    BY <1>1, <2>1, FinishAnswers DEF AnswerInv, Before
<1>2. CASE ~Finish /\ at \notin {"defer", "done"}
  <2>1. Unanswered' /\ (at' \in Before \ {"path"} => out' = <<>>)
    BY <1>2, StaysUnanswered
  <2> QED
    BY <2>1 DEF AnswerInv, Unanswered, Summaries, AnswerIsOwn, EnvelopeIsHonest
<1>3. CASE ~Finish /\ at \in {"defer", "done"}
  <2>1. UNCHANGED <<out, settled, offset, pos>> /\ at' \in {"defer", "done"}
    BY <1>3 DEF Next, Run, Prepare, AwaitReady, ReadyFails, Settle, SettleFails, RecordOffset,
       TypePrompt, PressEnter, EmitInit, Look, FindTranscript, NoTranscript, ReadLine, TimeOut,
       DeferredClose, Return, ClaudeStep, BeginTurn, Work,
       ReturnTool, Speak, EndTurn, Exit, vars, queryVars, choices
  <2>2. (\A n \in Nat : Ours(n) => Ours(n)') /\ (RepliedToUs' <=> RepliedToUs)
    <3>1. CASE ClaudeStep
      BY <3>1, ClaudeWrites, GatheredStays
    <3>2. CASE UNCHANGED <<log, turns, phase>>
      BY <2>1, <3>2 DEF RepliedToUs, Ours, IsTurnOf
    <3> QED
      BY <3>1, <3>2, RunKeepsTranscript DEF Next
  <2>3. \A i \in 1..Len(out) : out[i].n \in Nat
    <3>1. \A i \in 1..Len(out) : out[i] \in Events
      BY DEF TypeInv
    <3> QED
      BY <3>1 DEF Events
  <2>4. AnswerIsOwn'
    BY <2>1, <2>2, <2>3 DEF AnswerInv, AnswerIsOwn
  <2>5. EnvelopeIsHonest'
    BY <2>1, <2>2 DEF AnswerInv, EnvelopeIsHonest
  <2> QED
    BY <1>3, <2>1, <2>4, <2>5 DEF AnswerInv, Before
<1> QED
  BY <1>1, <1>2, <1>3

\* The invariant behind the two theorems below.
AnsweringInv == TypeInv /\ Sent /\ Written /\ OursFromOffset /\ Gathered /\ AnswerInv

LEMMA InductiveAnswering == Spec => []AnsweringInv
<1>1. Init => AnsweringInv
  <2>1. Init => AnswerInv
    BY DEF Init, AnswerInv, Unanswered, AnswerIsOwn, EnvelopeIsHonest
  <2> QED
    BY <2>1, InitTypes, InitWritten, InitGathered DEF AnsweringInv
<1>2. AnsweringInv /\ [Next]_vars => AnsweringInv'
  BY NextTypes, NextSent, NextWritten, NextOurs, NextGathered, NextAnswer DEF AnsweringInv
<1> QED
  BY <1>1, <1>2, PTL DEF Spec

\* In a conversation that was settled when the run began, what it prints is our
\* turn's text or none, for any deadlines, failures and exits (client.go:214-257).
THEOREM AnswersAreOwn == Spec => []AnswerIsOwn
<1>1. AnsweringInv => AnswerIsOwn
  BY DEF AnsweringInv, AnswerInv
<1> QED
  BY <1>1, InductiveAnswering, PTL

\* There, the envelope says success exactly when claude did reply to our prompt
\* in what was read, however the run ended (emit.go:81-91, 298-304).
THEOREM EnvelopesAreHonest == Spec => []EnvelopeIsHonest
<1>1. AnsweringInv => EnvelopeIsHonest
  BY DEF AnsweringInv, AnswerInv
<1> QED
  BY <1>1, InductiveAnswering, PTL

-----------------------------------------------------------------------------
(* Tool calls and their results.                                           *)

\* In the transcript a call is followed by its result, or is still at work, and
\* a result follows its call.
ToolLines ==
    /\ \A i \in 1..Len(log) :
          /\ Calls(log[i]) => IF i < Len(log) THEN IsResult(log[i + 1]) ELSE phase = "tool"
          /\ IsResult(log[i]) => i > 1 /\ Calls(log[i - 1])
    /\ phase = "tool" => Len(log) > 0 /\ Calls(log[Len(log)])

\* How far the stream has got: init before the transcript is opened, then the
\* message of every assistant line read.
Streamed ==
    /\ cut => at \in {"finish", "defer", "done"}
    /\ \A i \in 1..Len(out) : out[i].kind = "message" => format = "stream" /\ out[i].n \in 1..pos
    /\ at \in Before \ {"path"} => out = <<>>
    /\ at = "path" \/ (at = "tail" /\ pos = offset) =>
          out = IF format = "stream" THEN <<Event("init", 0)>> ELSE <<>>
    /\ format = "stream" /\ at = "tail" /\ pos > offset /\ log[pos].type = "assistant" =>
          out # <<>> /\ out[Len(out)] = Event("message", pos)

\* A result follows its call or init.  A call is followed by its result, or it
\* is the last line read.
Paired ==
    /\ \A i \in 1..Len(out) : out[i].kind = "toolResult" =>
          i > 1 /\ (IsCall(out[i - 1]) \/ out[i - 1].kind = "init")
    /\ ~cut => \A i \in 1..Len(out) : IsCall(out[i]) =>
          \/ i < Len(out) /\ out[i + 1].kind = "toolResult"
          \/ i = Len(out) /\ out[i].n = pos /\ (at = "tail" \/ outcome = "error")

LEMMA InitToolLines == Init => ToolLines
<1> SUFFICES ASSUME Init PROVE ToolLines
  OBVIOUS
<1>1. /\ ~Calls(UserEcho(1)) /\ ~IsResult(UserEcho(1))
      /\ ~Calls(Reply(1)) /\ ~IsResult(Reply(1))
  BY DEF UserEcho, Reply, Assistant, Calls, IsResult
<1>2. phase # "tool" /\ log \in {<<>>, <<UserEcho(1)>>, <<UserEcho(1), Reply(1)>>}
  BY DEF Init, InitClaude
<1>3. \A i \in 1..Len(log) : log[i] \in {UserEcho(1), Reply(1)}
  BY <1>2
<1> QED
  BY <1>1, <1>2, <1>3 DEF ToolLines

LEMMA NextToolLines == TypeInv /\ ToolLines /\ [Next]_vars => ToolLines'
<1> SUFFICES ASSUME TypeInv, ToolLines, [Next]_vars PROVE ToolLines'
  OBVIOUS
<1>1. CASE ClaudeStep
  <2>1. PICK l : Writes(l)
    BY <1>1, ClaudeWrites
  <2>2. /\ Len(log') = Len(log) + 1 /\ Len(log) \in Nat /\ log'[Len(log) + 1] = l
        /\ \A i \in 1..Len(log) : log'[i] = log[i]
        /\ \A i \in 1..Len(log') : i \in 1..Len(log) \/ i = Len(log) + 1
    BY <2>1, WritesGrows
  <2>3. (IsResult(l) <=> phase = "tool") /\ (Calls(l) <=> phase' = "tool")
    BY <2>1 DEF Writes
  <2>4. ASSUME NEW i \in 1..Len(log')
        PROVE  /\ Calls(log'[i]) => IF i < Len(log') THEN IsResult(log'[i + 1]) ELSE phase' = "tool"
               /\ IsResult(log'[i]) => i > 1 /\ Calls(log'[i - 1])
    <3>1. CASE i \in 1..Len(log)
      <4>1. log'[i] = log[i] /\ i < Len(log')
        BY <2>2, <3>1
      <4>2. ASSUME Calls(log[i]) PROVE IsResult(log'[i + 1])
        <5>1. CASE i < Len(log)
          <6>1. i + 1 \in 1..Len(log)
            BY <2>2, <3>1, <5>1
          <6> QED
            BY <2>2, <3>1, <4>2, <5>1, <6>1 DEF ToolLines
        <5>2. CASE i = Len(log)
          BY <2>2, <2>3, <3>1, <4>2, <5>2 DEF ToolLines
        <5> QED
          BY <2>2, <3>1, <5>1, <5>2
      <4>3. ASSUME IsResult(log[i]) PROVE i > 1 /\ Calls(log'[i - 1])
        <5>1. i > 1 /\ Calls(log[i - 1])
          BY <3>1, <4>3 DEF ToolLines
        <5>2. i - 1 \in 1..Len(log)
          BY <2>2, <3>1, <5>1
        <5> QED
          BY <2>2, <5>1, <5>2
      <4> QED
        BY <4>1, <4>2, <4>3
    <3>2. CASE i = Len(log) + 1
      <4>1. log'[i] = l /\ ~(i < Len(log'))
        BY <2>2, <3>2
      <4>2. ASSUME phase = "tool" PROVE i > 1 /\ Calls(log'[i - 1])
        <5>1. Len(log) > 0 /\ Calls(log[Len(log)])
          BY <4>2 DEF ToolLines
        <5>2. i - 1 = Len(log) /\ Len(log) \in 1..Len(log) /\ i > 1
          BY <2>2, <3>2, <5>1
        <5> QED
          BY <2>2, <5>1, <5>2
      <4> QED
        BY <2>3, <4>1, <4>2
    <3> QED
      BY <2>2, <3>1, <3>2
  <2>5. phase' = "tool" => Len(log') > 0 /\ Calls(log'[Len(log')])
    BY <2>2, <2>3
  <2> QED
    BY <2>4, <2>5 DEF ToolLines, IsResult, Calls
<1>2. CASE UNCHANGED <<log, turns, phase>>
  BY <1>2 DEF ToolLines
<1> QED
  BY <1>1, <1>2, RunKeepsTranscript DEF Next

\* What the next line read adds to the stream.
LEMMA ReadStreams ==
    ASSUME TypeInv, Written, OursFromOffset, Gathered, Streamed, ReadLine
    PROVE  LET l == log[pos + 1]
               m == Event("message", pos + 1)
           IN  /\ out' \in Seq(Events) /\ Len(out') >= Len(out) /\ Len(out) \in Nat
               /\ \A i \in 1..Len(out) : out'[i] = out[i]
               /\ \/ out' = out /\ (format # "stream" \/ (l.type # "assistant" /\ ~IsResult(l)))
                  \/ /\ format = "stream" /\ l.type = "assistant" /\ Len(out') > Len(out)
                     /\ out'[Len(out')] = m
                     /\ \A i \in Len(out) + 1..Len(out') - 1 : out'[i] = Event("status", 0)
                  \/ /\ format = "stream" /\ IsResult(l) /\ Len(out') = Len(out) + 1
                     /\ out'[Len(out')] = Event("toolResult", pos + 1)
<1> DEFINE l == log[pos + 1]
           m == Event("message", pos + 1)
           r == Event("toolResult", pos + 1)
           s == Event("status", 0)
           F == Forwarded(l, pos + 1)
<1>1. l \in Line /\ pos + 1 \in Nat /\ out \in Seq(Events) /\ Len(out) \in Nat
  BY DEF ReadLine, TypeInv, TypeOK
<1>2. out' = out \o F /\ F \in Seq(Events)
  BY <1>1, ForwardedEvents DEF ReadLine
<1>3. /\ format = "stream" /\ l.type = "assistant" => F \in {<<m>>, <<s, m>>}
      /\ format = "stream" /\ IsResult(l) => F = <<r>>
      /\ format # "stream" \/ (l.type # "assistant" /\ ~IsResult(l)) => F = <<>>
  BY <1>1, ForwardedIs
<1> HIDE DEF F, l, m, r, s
<1>4. /\ out' \in Seq(Events) /\ Len(out') = Len(out) + Len(F)
      /\ \A i \in 1..Len(out) : out'[i] = out[i]
      /\ \A i \in 1..Len(F) : out'[Len(out) + i] = F[i]
      /\ \A i \in 1..Len(out') : i \in 1..Len(out) \/ i - Len(out) \in 1..Len(F)
  BY <1>1, <1>2, OutGrows
<1>5. CASE F = <<>>
  <2>1. out' = out
    BY <1>1, <1>2, <1>5, ConcatEmptySeq
  <2>2. format # "stream" \/ (l.type # "assistant" /\ ~IsResult(l))
    BY <1>3, <1>5
  <2> QED
    BY <1>1, <1>4, <2>1, <2>2 DEF l, m
<1>6. CASE F = <<m>> /\ format = "stream" /\ l.type = "assistant"
  <2>1. Len(F) = 1 /\ F[1] = m
    BY <1>6
  <2>2. Len(out') = Len(out) + 1 /\ out'[Len(out')] = m
    BY <1>1, <1>4, <2>1
  <2>3. \A i \in Len(out) + 1..Len(out') - 1 : FALSE
    BY <1>1, <2>2
  <2> QED
    BY <1>1, <1>4, <1>6, <2>2, <2>3 DEF l, m
<1>7. CASE F = <<s, m>> /\ format = "stream" /\ l.type = "assistant"
  <2>1. Len(F) = 2 /\ F[1] = s /\ F[2] = m
    BY <1>7
  <2>2. Len(out') = Len(out) + 2 /\ out'[Len(out')] = m /\ out'[Len(out) + 1] = s
    BY <1>1, <1>4, <2>1
  <2>3. \A i \in Len(out) + 1..Len(out') - 1 : out'[i] = s
    BY <1>1, <2>2
  <2> QED
    BY <1>1, <1>4, <1>7, <2>2, <2>3 DEF l, m, s
<1>8. CASE F = <<r>> /\ format = "stream" /\ IsResult(l)
  <2>1. Len(F) = 1 /\ F[1] = r
    BY <1>8
  <2>2. Len(out') = Len(out) + 1 /\ out'[Len(out')] = r
    BY <1>1, <1>4, <2>1
  <2> QED
    BY <1>1, <1>4, <1>8, <2>2 DEF l, r
<1> QED
  BY <1>3, <1>5, <1>6, <1>7, <1>8

LEMMA NextStreamed ==
    ASSUME TypeInv, Written, OursFromOffset, Gathered, Streamed, [Next]_vars
    PROVE  Streamed'
<1>0. /\ out \in Seq(Events) /\ Len(out) \in Nat /\ pos \in Nat /\ offset \in Nat
      /\ pos <= Len(log) /\ Len(log) \in Nat
  BY DEF TypeInv, TypeOK
<1>1. CASE ClaudeStep
  <2>1. PICK l : Writes(l)
    BY <1>1, ClaudeWrites
  <2>2. UNCHANGED <<cut, at, out, format, pos, offset>>
    BY <2>1 DEF Writes, queryVars, choices
  <2>3. pos > offset => log'[pos] = log[pos]
    BY <1>0, <2>1, WritesGrows
  <2> QED
    BY <2>2, <2>3 DEF Streamed, Event
<1>2. CASE ReadLine
  <2> DEFINE l == log[pos + 1]
             m == Event("message", pos + 1)
  <2>1. /\ pos >= offset /\ pos' = pos + 1 /\ at' \in {"tail", "finish"} /\ at = "tail"
        /\ UNCHANGED <<cut, format, offset, log>>
    BY <1>2, NextLine DEF ReadLine, choices, claudeVars
  <2>2. /\ Len(out') >= Len(out)
        /\ \A i \in 1..Len(out) : out'[i] = out[i]
        /\ \/ out' = out /\ (format # "stream" \/ l.type # "assistant")
           \/ /\ format = "stream" /\ Len(out') > Len(out) /\ out'[Len(out')] = m
              /\ \A i \in Len(out) + 1..Len(out') - 1 : out'[i] = Event("status", 0)
           \/ /\ l.type # "assistant" /\ Len(out') = Len(out) + 1
              /\ out'[Len(out')] = Event("toolResult", pos + 1)
        /\ Len(out') \in Nat
    BY <1>2, ReadStreams DEF IsResult
  <2>3. /\ m.kind = "message" /\ m.n = pos + 1 /\ Event("status", 0).kind = "status"
        /\ Event("toolResult", pos + 1).kind = "toolResult"
    BY <1>0, EventsAre DEF EventKinds
  <2> HIDE DEF l, m
  <2>4. ASSUME NEW i \in 1..Len(out'), out'[i].kind = "message"
        PROVE  format = "stream" /\ out'[i].n \in 1..pos + 1
    <3>1. CASE i \in 1..Len(out)
      BY <1>0, <2>2, <2>4, <3>1 DEF Streamed
    <3>2. CASE i \notin 1..Len(out)
      <4>1. i = Len(out') \/ i \in Len(out) + 1..Len(out') - 1
        BY <1>0, <2>2, <3>2
      <4>2. Len(out') # Len(out)
        BY <1>0, <2>2, <3>2
      <4>3. format = "stream" /\ out'[i] = m
        BY <2>2, <2>3, <2>4, <4>1, <4>2, <1>0
      <4> QED
        BY <1>0, <2>3, <4>3
    <3> QED
      BY <3>1, <3>2
  <2>5. format = "stream" /\ l.type = "assistant" => out' # <<>> /\ out'[Len(out')] = m
    BY <1>0, <2>2
  <2> QED
    BY <1>0, <2>1, <2>4, <2>5 DEF Streamed, Before, l, m, Event
<1>3. CASE Finish
  <2>1. /\ at = "finish" /\ at' = "defer" /\ out' = out \o Summary
        /\ UNCHANGED <<cut, format, offset, pos, log>>
    BY <1>3 DEF Finish, Return, Close, choices
  <2>2. \A j \in 1..Len(Summary) : Summary[j].kind # "message"
    <3>1. /\ Envelope.kind # "message" /\ Event("text", em.finalText).kind # "message"
          /\ Event("rateLimit", 0).kind # "message"
      BY EnvelopeIs, EventsAre DEF EventKinds
    <3>2. \A j \in 1..Len(Summary) : Summary[j] \in {Event("text", em.finalText), Envelope,
                                                     Event("rateLimit", 0)}
      BY SummaryIs
    <3> QED
      BY <3>1, <3>2
  <2>3. ASSUME NEW i \in 1..Len(out'), out'[i].kind = "message"
        PROVE  format = "stream" /\ out'[i].n \in 1..pos
    <3>1. /\ \A j \in 1..Len(out) : out'[j] = out[j]
          /\ \A j \in 1..Len(Summary) : out'[Len(out) + j] = Summary[j]
          /\ i \in 1..Len(out) \/ i - Len(out) \in 1..Len(Summary)
      BY <1>0, <2>1, SummaryEvents, OutGrows
    <3>2. Len(out) + (i - Len(out)) = i
      BY <1>0
    <3>3. i \in 1..Len(out)
      BY <2>2, <2>3, <3>1, <3>2
    <3> QED
      BY <2>3, <3>1, <3>3 DEF Streamed
  <2> QED
    BY <2>1, <2>3 DEF Streamed, Before
<1>4. CASE EmitInit
  <2>1. /\ out = <<>> /\ at = "init" /\ at' = "path" /\ UNCHANGED <<cut, format, pos, log>>
        /\ out' = IF format = "stream" THEN <<Event("init", 0)>> ELSE <<>>
    BY <1>4 DEF EmitInit, Go, Streamed, Before, choices, claudeVars
  <2>2. \A i \in 1..Len(out') : out'[i].kind # "message"
    <3>1. Event("init", 0).kind = "init"
      BY EventsAre DEF EventKinds
    <3>2. \A i \in 1..Len(out') : out'[i] = Event("init", 0)
      BY <2>1
    <3> QED
      BY <3>1, <3>2
  <2> QED
    BY <2>1, <2>2 DEF Streamed, Before, Event
<1>5. CASE FindTranscript
  <2>1. /\ at = "path" /\ at' = "tail" /\ pos' = offset
        /\ UNCHANGED <<cut, format, offset, out, log>>
    BY <1>5 DEF FindTranscript, choices, claudeVars
  <2>2. pos = 0 /\ \A i \in 1..Len(out) : out[i].kind # "message"
    BY <2>1 DEF Streamed, Gathered, Before
  <2>3. ~(offset > offset)
    BY <1>0
  <2> QED
    BY <2>1, <2>2, <2>3 DEF Streamed, Before, Event
<1>6. ASSUME UNCHANGED <<out, format, pos, log>>, offset' = offset \/ at' = "type",
             \/ cut' = cut /\ (cut => at' \in {"finish", "defer", "done"})
             \/ at' \in {"finish", "defer", "done"},
             \/ at' = at
             \/ at' \in Before \ {"path"} /\ at \in Before \ {"path"}
             \/ at' \in {"finish", "defer", "done"}
      PROVE  Streamed'
  BY <1>6 DEF Streamed, Before, Event
<1>7. CASE Prepare \/ RecordOffset \/ TypePrompt \/ PressEnter \/ Look \/ NoTranscript
           \/ TimeOut \/ DeferredClose \/ Exit \/ UNCHANGED vars
  <2>1. UNCHANGED <<out, format, pos>>
    BY <1>7 DEF Prepare, AwaitReady, ReadyFails, Settle, SettleFails, RecordOffset, TypePrompt,
       PressEnter, Look, NoTranscript, TimeOut, DeferredClose, Exit, Fail, Return, Go, vars,
       queryVars, choices
  <2>2. /\ offset' = offset \/ at' = "type"
        /\ \/ at' = at
           \/ at' \in Before \ {"path"} /\ at \in Before \ {"path"}
           \/ at' \in {"finish", "defer", "done"}
    BY <1>7 DEF Prepare, AwaitReady, ReadyFails, Settle, SettleFails, RecordOffset, TypePrompt,
       PressEnter, Look, NoTranscript, TimeOut, DeferredClose, Exit, Fail, Return, Go, vars,
       queryVars, choices, Before
  <2>3. \/ cut' = cut /\ (cut => at' \in {"finish", "defer", "done"})
        \/ at' \in {"finish", "defer", "done"}
    BY <1>7 DEF Prepare, AwaitReady, ReadyFails, Settle, SettleFails, RecordOffset, TypePrompt,
       PressEnter, Look, NoTranscript, TimeOut, DeferredClose, Exit, Fail, Return, Go, vars,
       queryVars, choices, Streamed
  <2>4. UNCHANGED log
    BY <1>7, RunKeepsTranscript DEF Run
  <2> QED
    BY <1>6, <2>1, <2>2, <2>3, <2>4
<1> QED
  BY <1>1, <1>2, <1>3, <1>4, <1>5, <1>7 DEF Next, Run

\* A call that was the last thing written is the last line read, and its result
\* is the next line.
LEMMA LastCall ==
    ASSUME TypeInv, Written, OursFromOffset, Gathered, ToolLines, Streamed, ReadLine,
           out # <<>>, IsCall(out[Len(out)]), out[Len(out)].n = pos
    PROVE  format = "stream" /\ IsResult(log[pos + 1])
<1>1. Len(out) \in 1..Len(out) /\ out[Len(out)].kind = "message"
  BY DEF TypeInv, IsCall
<1>2. format = "stream" /\ pos \in 1..pos
  BY <1>1 DEF Streamed
<1>3. pos \in 1..Len(log) /\ pos < Len(log) /\ Calls(log[pos])
  BY <1>2 DEF ReadLine, TypeInv, TypeOK, IsCall, Calls
<1> QED
  BY <1>2, <1>3 DEF ToolLines

LEMMA ReadPairs ==
    ASSUME TypeInv, Written, OursFromOffset, Gathered, ToolLines, Streamed, Paired,
           Returned, ReadLine
    PROVE  Paired'
<1> DEFINE l == log[pos + 1]
           m == Event("message", pos + 1)
           r == Event("toolResult", pos + 1)
<1>1. /\ at = "tail" /\ pos' = pos + 1 /\ ~cut /\ outcome = "none"
      /\ UNCHANGED <<cut, format, offset, log, outcome>>
  BY DEF ReadLine, choices, claudeVars, Streamed, Returned, TypeInv, TypeOK
<1>2. /\ pos \in Nat /\ offset \in Nat /\ pos >= offset /\ pos + 1 \in 1..Len(log)
      /\ l \in Line /\ l.turn \in Nat \ {0} /\ l \in LinesOf(l.turn)
  BY NextLine
<1>3. /\ out' \in Seq(Events) /\ Len(out') >= Len(out) /\ Len(out) \in Nat
      /\ \A i \in 1..Len(out) : out'[i] = out[i]
      /\ \/ out' = out /\ (format # "stream" \/ (l.type # "assistant" /\ ~IsResult(l)))
         \/ /\ format = "stream" /\ l.type = "assistant" /\ Len(out') > Len(out)
            /\ out'[Len(out')] = m
            /\ \A i \in Len(out) + 1..Len(out') - 1 : out'[i] = Event("status", 0)
         \/ /\ format = "stream" /\ IsResult(l) /\ Len(out') = Len(out) + 1
            /\ out'[Len(out')] = r
  BY ReadStreams
<1>4. /\ m.kind = "message" /\ m.n = pos + 1 /\ Event("status", 0).kind = "status"
      /\ r.kind = "toolResult"
  BY <1>2, EventsAre DEF EventKinds
<1>5. Calls(l) => l.type = "assistant" /\ at' = "tail"
  <2>1. Calls(l) => l.type = "assistant" /\ ~Terminal(l)
    BY <1>2, LinesOfTurn
  <2> QED
    BY <2>1 DEF ReadLine, EndsWait
<1>6. \A e : IsCall(e)' <=> IsCall(e)
  BY <1>1 DEF IsCall
<1>7. ASSUME NEW i \in 1..Len(out), IsCall(out[i])
      PROVE  \/ i < Len(out) /\ out[i + 1].kind = "toolResult"
             \/ i = Len(out) /\ format = "stream" /\ IsResult(l)
  <2>1. \/ i < Len(out) /\ out[i + 1].kind = "toolResult"
        \/ i = Len(out) /\ out[i].n = pos
    BY <1>1, <1>7 DEF Paired
  <2>2. CASE i = Len(out) /\ out[i].n = pos
    <3>1. out # <<>>
      BY <1>7
    <3> QED
      BY <1>7, <2>2, <3>1, LastCall
  <2> QED
    BY <2>1, <2>2
<1>8. \A i \in 1..Len(out) : out[i].kind = "toolResult" =>
         i > 1 /\ (IsCall(out[i - 1]) \/ out[i - 1].kind = "init")
  BY DEF Paired
<1>9. ASSUME IsResult(l), format = "stream"
      PROVE  Len(out) >= 1 /\ (IsCall(out[Len(out)]) \/ out[Len(out)].kind = "init")
  <2>1. CASE pos = offset
    <3>1. out = <<Event("init", 0)>>
      BY <1>1, <1>9, <2>1 DEF Streamed
    <3>2. Event("init", 0).kind = "init"
      BY EventsAre DEF EventKinds
    <3> QED
      BY <3>1, <3>2
  <2>2. CASE pos > offset
    <3>1. pos \in 1..Len(log) /\ Calls(log[pos])
      BY <1>2, <1>9, <2>2 DEF ToolLines
    <3>2. log[pos].type = "assistant"
      BY <3>1, LinesOfTurn DEF Written
    <3>3. out # <<>> /\ out[Len(out)] = Event("message", pos)
      BY <1>1, <1>9, <2>2, <3>2 DEF Streamed
    <3>4. Event("message", pos).kind = "message" /\ Event("message", pos).n = pos
      BY <1>2, EventsAre DEF EventKinds
    <3>5. IsCall(out[Len(out)])
      BY <3>1, <3>3, <3>4 DEF IsCall, Calls
    <3> QED
      BY <1>3, <3>3, <3>5 DEF TypeInv
  <2> QED
    BY <1>2, <2>1, <2>2
<1>10. IsCall(m) => Calls(l)
  BY <1>4 DEF IsCall, Calls
<1>11. IsResult(l) => l.type # "assistant"
  BY DEF IsResult
<1>12. out \in Seq(Events)
  BY DEF TypeInv
<1> HIDE DEF l, m, r
<1>13. ASSUME NEW i \in 1..Len(out'), out'[i].kind = "toolResult"
       PROVE  i > 1 /\ (IsCall(out'[i - 1]) \/ out'[i - 1].kind = "init")
  <2>1. CASE i \in 1..Len(out)
    <3>1. i > 1 /\ (IsCall(out[i - 1]) \/ out[i - 1].kind = "init")
      BY <1>3, <1>8, <1>13, <2>1
    <3>2. i - 1 \in 1..Len(out)
      BY <1>3, <2>1, <3>1
    <3> QED
      BY <1>3, <3>1, <3>2
  <2>2. CASE i \notin 1..Len(out)
    <3>1. i = Len(out') \/ i \in Len(out) + 1..Len(out') - 1
      BY <1>3, <2>2
    <3>2. Len(out') # Len(out)
      BY <1>3, <2>2
    <3>3. out' # out
      BY <3>2
    <3>4. format = "stream" /\ IsResult(l) /\ Len(out') = Len(out) + 1
      BY <1>3, <1>4, <1>13, <3>1, <3>3
    <3>5. i - 1 = Len(out)
      BY <1>3, <2>2, <3>4
    <3>6. Len(out) >= 1 /\ (IsCall(out[Len(out)]) \/ out[Len(out)].kind = "init")
      BY <1>9, <3>4
    <3>7. out'[i - 1] = out[Len(out)]
      BY <1>3, <3>5, <3>6
    <3>8. i > 1
      BY <1>3, <3>5, <3>6
    <3> QED
      BY <3>6, <3>7, <3>8
  <2> QED
    BY <2>1, <2>2
<1>14. ASSUME NEW i \in 1..Len(out'), IsCall(out'[i])
       PROVE  \/ i < Len(out') /\ out'[i + 1].kind = "toolResult"
              \/ i = Len(out') /\ out'[i].n = pos + 1 /\ at' = "tail"
  <2>1. CASE i \in 1..Len(out)
    <3>1. out'[i] = out[i]
      BY <1>3, <2>1
    <3>2. CASE i < Len(out) /\ out[i + 1].kind = "toolResult"
      <4>1. i + 1 \in 1..Len(out) /\ i < Len(out')
        BY <1>3, <2>1, <3>2
      <4> QED
        BY <1>3, <3>2, <4>1
    <3>3. CASE i = Len(out) /\ format = "stream" /\ IsResult(l)
      <4>1. Len(out') = Len(out) + 1 /\ out'[Len(out')] = r
        BY <1>3, <1>11, <3>3
      <4> QED
        BY <1>3, <1>4, <3>3, <4>1
    <3> QED
      BY <1>7, <1>14, <2>1, <3>1, <3>2, <3>3
  <2>2. CASE i \notin 1..Len(out)
    <3>1. i = Len(out') \/ i \in Len(out) + 1..Len(out') - 1
      BY <1>3, <2>2
    <3>2. Len(out') # Len(out)
      BY <1>3, <2>2
    <3>3. out'[i].kind = "message"
      BY <1>14 DEF IsCall
    <3>4. out' # out
      BY <3>2
    <3>5. i = Len(out') /\ out'[i] = m
      BY <1>3, <1>4, <3>1, <3>3, <3>4
    <3> QED
      BY <1>4, <1>5, <1>10, <1>14, <3>5
  <2> QED
    BY <2>1, <2>2
<1> QED
  BY <1>1, <1>6, <1>13, <1>14 DEF Paired, IsCall

LEMMA FinishPairs ==
    ASSUME TypeInv, Paired, Returned, Finish
    PROVE  Paired'
<1>1. /\ at = "finish" /\ out' = out \o Summary /\ outcome = "none"
      /\ UNCHANGED <<cut, pos, log>> /\ out \in Seq(Events) /\ Summary \in Seq(Events)
      /\ Len(out) \in Nat /\ Len(Summary) \in Nat
  BY SummaryEvents DEF Finish, Return, Close, Returned, TypeInv, TypeOK
<1>2. /\ \A i \in 1..Len(out) : out'[i] = out[i]
      /\ \A i \in 1..Len(Summary) : out'[Len(out) + i] = Summary[i]
      /\ \A i \in 1..Len(out') : i \in 1..Len(out) \/ i - Len(out) \in 1..Len(Summary)
      /\ Len(out') = Len(out) + Len(Summary)
  BY <1>1, OutGrows
<1>3. \A j \in 1..Len(Summary) : Summary[j].kind \notin {"message", "toolResult"}
  <2>1. /\ Envelope.kind \notin {"message", "toolResult"}
        /\ Event("text", em.finalText).kind = "text" /\ Event("rateLimit", 0).kind = "rateLimit"
    BY EnvelopeIs, EventsAre DEF EventKinds
  <2>2. \A j \in 1..Len(Summary) : Summary[j] \in {Event("text", em.finalText), Envelope,
                                                   Event("rateLimit", 0)}
    BY SummaryIs
  <2> QED
    BY <2>1, <2>2
<1>4. ASSUME NEW i \in 1..Len(out'), out'[i].kind \in {"message", "toolResult"}
      PROVE  i \in 1..Len(out) /\ out'[i] = out[i]
  <2>1. Len(out) + (i - Len(out)) = i
    BY <1>1
  <2> QED
    BY <1>2, <1>3, <1>4, <2>1
<1>5. ASSUME NEW i \in 1..Len(out'), out'[i].kind = "toolResult"
      PROVE  i > 1 /\ (IsCall(out'[i - 1]) \/ out'[i - 1].kind = "init")
  <2>1. i \in 1..Len(out) /\ out'[i] = out[i]
    BY <1>4, <1>5
  <2>2. i > 1 /\ (IsCall(out[i - 1]) \/ out[i - 1].kind = "init")
    BY <1>5, <2>1 DEF Paired
  <2>3. i - 1 \in 1..Len(out)
    BY <1>1, <2>1, <2>2
  <2> QED
    BY <1>2, <2>2, <2>3
<1>6. ASSUME ~cut, NEW i \in 1..Len(out'), IsCall(out'[i])
      PROVE  i < Len(out') /\ out'[i + 1].kind = "toolResult"
  <2>1. i \in 1..Len(out) /\ out'[i] = out[i]
    BY <1>4, <1>6 DEF IsCall
  <2>2. i < Len(out) /\ out[i + 1].kind = "toolResult"
    BY <1>1, <1>6, <2>1 DEF Paired
  <2>3. i + 1 \in 1..Len(out) /\ i < Len(out')
    BY <1>1, <1>2, <2>1, <2>2
  <2> QED
    BY <1>2, <2>2, <2>3
<1> QED
  BY <1>1, <1>5, <1>6 DEF Paired, IsCall

LEMMA NextPaired ==
    ASSUME TypeInv, Written, OursFromOffset, Gathered, ToolLines, Streamed, Paired,
           Returned, [Next]_vars
    PROVE  Paired'
<1>0. /\ out \in Seq(Events) /\ pos \in Nat /\ pos <= Len(log) /\ Len(log) \in Nat
  BY DEF TypeInv, TypeOK
<1>1. CASE ClaudeStep
  <2>1. PICK l : Writes(l)
    BY <1>1, ClaudeWrites
  <2>2. UNCHANGED <<cut, at, out, pos, outcome>>
    BY <2>1 DEF Writes, queryVars
  <2>3. \A i \in 1..Len(out) : IsCall(out[i])' <=> IsCall(out[i])
    <3> TAKE i \in 1..Len(out)
    <3>1. out[i].kind = "message" => log'[out[i].n] = log[out[i].n]
      BY <1>0, <2>1, WritesGrows DEF Streamed
    <3> QED
      BY <2>2, <3>1 DEF IsCall
  <2>4. \A i \in 1..Len(out) : i > 1 => i - 1 \in 1..Len(out)
    BY <1>0
  <2> QED
    BY <2>2, <2>3, <2>4 DEF Paired, IsCall
\* Before the transcript is opened nothing is forwarded.
<1>2. ASSUME at \in Before, UNCHANGED log,
             \/ UNCHANGED out
             \/ \A i \in 1..Len(out') : out'[i] = Event("init", 0)
      PROVE  Paired'
  <2>1. \A i \in 1..Len(out) : out[i].kind \notin {"message", "toolResult"}
    <3>1. pos = 0
      BY <1>2 DEF Gathered
    <3>2. \A i \in 1..Len(out) : out[i].kind # "message"
      BY <3>1 DEF Streamed
    <3>3. \A i \in 1..Len(out) : out[i].kind = "init"
      <4>1. out \in {<<>>, <<Event("init", 0)>>}
        BY <1>2 DEF Streamed
      <4> QED
        BY <4>1, EventsAre DEF EventKinds
    <3> QED
      BY <3>3
  <2>2. Event("init", 0).kind = "init"
    BY EventsAre DEF EventKinds
  <2>3. \A i \in 1..Len(out') : out'[i].kind \notin {"message", "toolResult"}
    BY <1>2, <2>1, <2>2
  <2> QED
    BY <2>3 DEF Paired, IsCall
<1>3. CASE Prepare \/ RecordOffset \/ TypePrompt \/ PressEnter \/ EmitInit \/ FindTranscript
           \/ NoTranscript
  <2>1. at \in Before
    BY <1>3 DEF Prepare, AwaitReady, ReadyFails, Settle, SettleFails, RecordOffset, TypePrompt, PressEnter, EmitInit, FindTranscript,
       NoTranscript, Before
  <2>2. \/ UNCHANGED out
        \/ \A i \in 1..Len(out') : out'[i] = Event("init", 0)
    <3>1. CASE EmitInit
      <4>1. out' = out \/ out' = <<Event("init", 0)>>
        BY <3>1 DEF EmitInit
      <4> QED
        BY <4>1
    <3> QED
      BY <1>3, <3>1 DEF Prepare, AwaitReady, ReadyFails, Settle, SettleFails, RecordOffset,
         TypePrompt, PressEnter, FindTranscript, NoTranscript, Fail
  <2>3. UNCHANGED log
    BY <1>3, RunKeepsTranscript DEF Run
  <2> QED
    BY <1>2, <2>1, <2>2, <2>3
<1>4. ASSUME UNCHANGED <<out, pos, log>>,
             \/ UNCHANGED <<cut, outcome>> /\ (UNCHANGED at \/ at # "tail")
             \/ UNCHANGED cut /\ outcome' = "error"
             \/ cut'
      PROVE  Paired'
  <2>1. \A e : IsCall(e)' <=> IsCall(e)
    BY <1>4 DEF IsCall
  <2> QED
    BY <1>4, <2>1 DEF Paired, IsCall
<1>5. CASE Look \/ TimeOut \/ DeferredClose \/ Exit \/ UNCHANGED vars
  <2>1. UNCHANGED <<out, pos, log>>
    BY <1>5 DEF Look, TimeOut, DeferredClose, Fail, Return, Close, Exit, Quit, vars, queryVars,
       claudeVars
  <2>2. \/ UNCHANGED <<cut, outcome>> /\ (UNCHANGED at \/ at # "tail")
        \/ UNCHANGED cut /\ outcome' = "error"
        \/ cut'
    BY <1>5 DEF Look, TimeOut, DeferredClose, Fail, Return, Exit, vars, queryVars
  <2> QED
    BY <1>4, <2>1, <2>2
<1>6. CASE ReadLine
  BY <1>6, ReadPairs
<1>7. CASE Finish
  BY <1>7, FinishPairs
<1> QED
  BY <1>1, <1>3, <1>5, <1>6, <1>7 DEF Next, Run

\* The invariant behind the pairing.
PairingInv == /\ TypeInv /\ Returned /\ Sent /\ Written /\ OursFromOffset /\ Gathered
              /\ ToolLines /\ Streamed /\ Paired

\* In a stream that was not cut off each tool call is followed by its result and
\* each result follows its call, or init, for any openings, deadlines, failures
\* and exits (emit.go:113-118).
THEOREM CallsArePaired == Spec => []ToolsPaired
<1>1. Init => PairingInv
  <2>1. Init => Returned /\ Streamed /\ Paired
    BY DEF Init, Returned, Streamed, Paired, Before, OneShotLeavesNoClaude
  <2> QED
    BY <2>1, InitTypes, InitWritten, InitGathered, InitToolLines DEF PairingInv
<1>2. PairingInv /\ [Next]_vars => PairingInv'
  BY NextTypes, NextReturned, NextSent, NextWritten, NextOurs, NextGathered,
     NextToolLines, NextStreamed, NextPaired DEF PairingInv
<1>3. PairingInv => ToolsPaired
  <2> SUFFICES ASSUME PairingInv, outcome = "ok", ~cut, NEW i \in 1..Len(out)
               PROVE  /\ IsCall(out[i]) => i < Len(out) /\ out[i + 1].kind = "toolResult"
                      /\ out[i].kind = "toolResult" =>
                            IsCall(out[i - 1]) \/ out[i - 1].kind = "init"
    BY DEF ToolsPaired
  <2>1. at # "tail"
    BY DEF PairingInv, Returned
  <2> QED
    BY <2>1 DEF PairingInv, Paired
<1> QED
  BY <1>1, <1>2, <1>3, PTL DEF Spec
=============================================================================
