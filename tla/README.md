# A TLA+ model of claude-p

claude-p (Go) drives the interactive `claude` TUI through a pty, as if it were a
headless tool: it types a prompt, and reads the answer not off the screen but
from the JSONL transcript claude appends to. It does this once per process
(`claude-p -p`), from library code (`claudep.Session`), and as an MCP server that
drives several sessions for a calling agent. The claude it drives is a child
process or lives in the pupptyeer daemon.

This directory holds TLA+ modules for the parts of it whose correctness is a
matter of order and timing, the TLC configurations that check them, and proofs
TLAPS checks. `PROJECT.json` maps every definition to the lines it models and
lists runs, mutants, findings, hazards and theorems.

## The system

| Part | Code | State | Operations | Interacts with |
|---|---|---|---|---|
| Session | `pkg/claudep/session.go` | mutex, cached transcript path | Open, Prompt, StartTurn, AwaitTurn, Screen, SendKeys, WaitReady, Interrupt, Exited, Close, Kill, Shutdown | the pty, the transcript, concurrent callers |
| Transcript tail | `pkg/claudep/jsonl.go` | file position, fragment of a line | tailJSONL, decodeJSONLLine | the file claude appends to, the context |
| One-shot run | `pkg/claudep/client.go` | offset, gate, emitter | Query, StartIdle, prepareSession | tail, emitter, backend |
| Emitter | `pkg/claudep/emit.go` | last text, terminal seen, what was written | init, handle, finish | stdout |
| Transcript reader | `pkg/claudep/transcript.go` | none | ReadTranscript | finished transcripts |
| Readiness driver | `pkg/claudepty/drive.go`, `prompt.go` | what was handled, moves, time of the last Down | WaitForReady, SendPrompt | claude's screen and its keys |
| Shutdown driver | `pkg/claudepty/drive.go`, `prompt.go` | deadline, last screen | Shutdown, waitExit | claude's screen, keys and exit; the backends' Wait, Exited, Kill |
| Daemon backend | `pkg/claudepty/backend_daemon.go`, `daemon_ref.go`, `pkg/claudep/backend.go`, `daemon.go` | connection, exited flag, exit code and its channel | OpenDaemon, EnsureDaemonSession, LaunchDaemon, DaemonSession, drain, Wait, Exited, Kill, Close | pupptyeer, other processes that launch the same id, callers of Wait |
| In-process backend | `pkg/claudepty/backend_inproc.go` | the child process | StartInproc, Wait, Exited, Kill, Close | pupptyeer as a library |
| Driving MCP server | `pkg/drivemcp/server.go` | registry under a mutex, daemon client | eleven tools | Session, concurrent tool calls |
| MCP bridge and relay | `pkg/claudemcp` | registry under a read-write mutex, closed flag, trace; the relay's tool list, the client's mutex | AddTool(s), Tools, Serve, handle, dispatch, trace, Close; Dial, Call, ListTools | host and relay processes over a unix socket, concurrent tool calls, handlers |
| Command line, options, packaging | `cmd/`, `npm/`, `docker/` | none | flags | all of the above |

What makes it hard, and what correct means:

* **Prompts and turns.** The only link between a prompt and its answer is a
  position in a file another program appends to. The previous turn's end marker
  may still be on its way, messages overlap when a caller gave up, tool results
  look like user lines, and intermediate messages look final. Correct: each prompt
  is a message of its own, its answer is the final text of its own turn, polls
  agree.
* **Reading a growing file.** Correct: whole lines, once, in order, whatever the
  cut of the reads and wherever the cursor points.
* **Driving menus through stale screens.** A captured screen does not show keys
  still queued. Correct: "No, exit" is never confirmed, ready means prompt.
* **Launching by id.** Independent processes look, list and create. Correct: one
  claude per id, resumed when it has a past, at its prompt when reported ready.
* **Ending a claude that may be busy, quoting, or stuck.** The quit is intercepted
  by a modal that shows late; its Enter must not go into the input box; the exit is
  reported by events on a connection that may end first. Correct: gone or killed at
  the end, killed only when it did not quit in time, the code told is the
  process's.
* **Answers without numbers.** The bridge's responses are told apart by their order
  on a connection only. Correct: each call gets the outcome of its own lookup, what
  was listed stays callable, what was told is in the trace.
* **Locks and calls that last minutes.** Correct: every call returns, no process
  is lost.

## Modules

| Module | Models | Lines |
|---|---|---|
| `Transcript` | the kinds of transcript line and how `jsonl.go` and `awaitTurnAt` judge them | operators |
| `Claude` | claude as the code uses it (external): input box, queue of messages, turns, transcript | 7 variables |
| `Conversation` | callers in Prompt, StartTurn, AwaitTurn against `Claude` | one action per step of the code between two places where another goroutine can act |
| `Dialogue` | abstract: what a Session promises its callers | |
| `ConversationRefinement` | `Conversation` implements `Dialogue` | |
| `Query` | one run of `Query` with its emitter against `Claude` | |
| `TailFile` | `tailJSONL` at the level of reads of a file | |
| `LineTail` | abstract: the line-by-line tail that `Conversation` and `Query` use | |
| `ReadyDriver` | `WaitForReady` against a TUI | |
| `DaemonLaunch` | launches of one session id in the daemon | |
| `DriveServer` | tool calls, registry and mutexes of the driving server, in-process sessions | |
| `Shutdown` | Shutdown and waitExit over the three sessions, `daemonSession`'s drain, Wait and Exited | one action per step between two places where claude, the drain goroutine or another caller can act |
| `Bridge` | the bridge server, its goroutines, the relays and the client their calls share | one action per step between two lock or socket operations |
| `ToolService` | abstract: what the bridge promises those who call its tools | |
| `ConversationProofs`, `ReadyDriverProofs`, `DaemonLaunchProofs`, `TailFileProofs`, `DriveServerProofs`, `ShutdownProofs`, `BridgeProofs`, `QueryProofs` | theorems | |
| `MCConversation`, `MCShutdown`, `MCBridge` | values of the constants for TLC | |

Operators named after what they get wrong (`AcquireNoWait`, `TerminalAnyBlock`)
and marked "Mutant" in their comment are not used by the
specifications: each is a faulty version of the definition that follows it, and
shows that the property it is listed with in `PROJECT.json` notices it.

### Conversation

A caller (goroutine) has a program counter: `lock`, `check`, `offset`, `type`,
`enter`, `path`, `tail` are the steps of `Prompt` (session.go:88-128); StartTurn
leaves after `path`; AwaitTurn is `resolve` then `tail`. `offset` is startOffset /
sinceOffset, `pos` the tail's position, `sawUserTurn` and `finalText` the locals of
`awaitTurnAt`. A handle is a `Session` value with `lock` (its mutex) and
`jsonlPath`; `HandleOf` says who shares one: one handle for the in-process
backend, one per call for `DaemonSession`. Positions count lines; that this is
enough is what `TailFile` and `LineTail` show. `results` is a ghost that collects
answers with the line they ended on, `turns[t]` is the message turn `t` answers.
A line's `turn` is a ghost too, and stands for its text.

A context that is over, or a bounded wait for the file, is only noticed after a
look that found nothing (`waiting`), as in the code (jsonl.go:173-182,
session.go:263-270). `Look` is that look.

`Dialogue` is what `Prompt` promises: asked, received, answered, each prompt once and
in turn. `ConversationRefinement` counts a prompt as received once Enter has submitted
the message it is in, and as answered when the call returns a text. In `Dialogue` a
prompt is only given up when claude is gone (`GiveUp`); exits are part of the theorem
and not of the run `Session`, whose `CallsReturn` speaks of a claude that ends its
turns.

About claude the model assumes: text typed while a turn runs stays in the box,
Enter submits all of the box as one message, messages wait in a queue and get one
turn each, there is one transcript file, and it is never truncated. Text typed by
a human into the same session is outside the model.

### Query

`at` follows `Query` (client.go:192-281). The emitter's state is `em`; `out` is the
sequence of events written, where the chunk events of one assistant message are
one event. `Close` ends a claude of our own and detaches from a daemon's. The code
has it in four places, and so has the model: `ReadyFails` and `SettleFails` are the
error returns of `prepareSession`, before anything is deferred; `Finish` is the
ordinary end, where a claude of our own is shut down; every return after
`prepareSession` (`Fail`, `Finish`) goes through `DeferredClose`. `backend` and `format`
are chosen at the start, and the
ghost `settled` says that no earlier turn was running then. In the `json` and `text`
formats only `finish` writes.

### TailFile

The file is `size` pieces, `LineUnits` to a line, the last piece of each being the
newline. `Fill` is one read of `bufio.Reader.ReadBytes`, of any length. `partial`
is the fragment kept across an end of file. Removing the file leaves what is open
readable.

### ReadyDriver

`at` is the place in the loop, `seen` the captured screen; the detectors of
`prompt.go` are modelled by what they return for each screen, also where they are
wrong: the picker reads as the input row, and a prompt whose transcript mentions the
picker or the trust question, or quotes the rows of the menu, as what it quotes
(`Mentions`). The TUI handles
`keys` whenever it likes or loses them; `yes` is the highlighted answer of the
trust menu. Time is three values of `movedAt`: the Down is `recent` until
`trustRedrawWait` (2 s) has passed, then `old`. With `SlowTUI = FALSE`, `DownAges`
needs the Down to have been handled or lost, and no capture to be waiting for its
decision: this is the code's own assumption, that 2 s is longer than claude takes
and that the clock, read after a capture, is at most one capture (1.5 s at most,
0.4 s of quiet) behind it. With `SlowTUI = TRUE` a second Down is sent while the
first is queued, both are handled, and the Enter pressed on the Yes seen between
them confirms No.

`smooth` is chosen at the start: in a smooth behaviour nothing goes wrong (no
deadline, lost key, crash, login screen or quoted menu), and only those must reach the
prompt - or the picker taken for it: once its Enter was sent `WaitForReady` returns on
it, and the trust menu that may follow is left to nobody (`ReachesPrompt`).

### DaemonLaunch

Launchers are processes or tool calls. `claude` is what the claude of the id
shows, `copies` how many are alive under the id, `orphans` those under other ids.
`WaitForReady` is reduced to `Dismiss` and `Ready`; `ReadyDriver` is its detail, and
`LooksReady` takes over from it that the style picker, once its Enter was sent
(`dismissed`), passes for the prompt. Two history variables, in no guard, say what a
property needs of the past: `misread`, that the booter's wait ended on the picker, and
`looked`, how many claudes had exited when a launch looked for the transcript. With
`MayIgnoreId` any `new_session` may start a
claude under an id of the daemon's own.

### DriveServer

Requests are tool calls. `mu` is `Server.mu`, `sessMu[s]` each `Session.mu`,
`inproc` the registry. A prompt sits in `await` holding its session's mutex; list
and close (`closeInproc`) hold `mu` while they visit the sessions.
read_screen stands for send_keys and wait_for_ready too, which take the same path.

### Shutdown

`at` is the place in `Shutdown` (drive.go:150-172): the two Ctrl-C's, the head of
the loop (`top`), the settled snapshot (`look`), the Enter (`confirm`), waitExit
(`wait`, `recheck`), the last look at Exited and the kill; `Close` is the owner's
that follows. `HasExited` and `ExitCode` are what each PTYSession's Exited and Wait
rest on: the process for the in-process pty, the flag and the code that `drain`
stores for an attached session, the daemon's listing for a `DaemonRef`, which knows
no code and takes a listing that fails for a living session. `drain` goes from an
event to the flag to the channel (`recv`, `flag`, `send`), so that another caller
of Wait (`Waiters`; an owner of the PTYSession may have one) comes in between.

Claude is external: it quits on its `needed`-th Ctrl-C (more than two when the first
only ends a turn or clears the box), raises the modal first when background work
runs, draws it in its own time, may be `wedged` at either key, may exit by itself.
`timely`, chosen at the start, says that it and its connection react within the
code's budgets: `Late` (one second) and `Expire` (three) then wait for what is
under way (`Quiet`). `text` is what the transcript on the screen has: nothing of the
modal, a mention of its phrase, or lines that begin like both of its rows, which
`HasExitConfirm` takes for the modal. An `Exit` event without a code (`bare`) leaves
the code stored before.

### Bridge

The server's goroutine for the connection of relay `r` is `hand[r]`: it reads a
request and looks the registry up under the read lock (`found`), releases it, runs
the handler (`run`, or `adding` when the handler registers tools itself), writes
the trace under the write lock, writes the response. `readers` are the holders of
the read lock; a writer needs there to be none. `serve` is the accept loop, `Close`
sets the flag, then closes the listener. Each relay has one `Client`: `state[c]` is
the place of a call in `Client.Call`, `Busy` its mutex. A relay `r` also stands for
its own list_tools call; its end (`Leave`) cuts its calls off while their requests
are still on the connection or in a handler. A registration is a tool with a
version, an answer is the call it was made for with the registrations its lookup
found: arguments, results and errors of handlers are not told apart beyond that.
That a request does not parse (server.go:162-165) cannot happen with this client.
`Traced` says whether the host gave the server a writer for the trace, `Dropped` for
which calls that writer fails; the error is ignored and the answer goes out without an
entry, as in server.go:200-219.

`ToolService` knows neither connections nor processes: a call is asked, looks the
registry up once, is told what it found, or that the bridge is lost if it looked
up nothing, or is cut off.

## What the runs check

All instances have two or three actors: every hazard listed is about two of
them, and the third shows that nothing depends on there being only two.

| Run | Shows | Bounds |
|---|---|---|
| `Session` | `SingleMessages`, `AnswerIsOwn`, `AnswerIsFinal`, the refinement of `Dialogue` and `CallsReturn` for one shared Session without deadlines, opened idle or with the last marker still to come | 2 callers, 2 prompts, 2 interim lines: a tool call, its result and a further line fit in one turn |
| `Overlap` | `AnswersFollowTranscript`, `PollsAgree`, `StaleMarkerIgnored`, `CallsReturn` with deadlines, a claude that owes nothing, in a new conversation or one with a turn running at the start | 2 callers, one prompting, one starting and polling; 2 prompts, so that up to three turns overlap with two cursors |
| `Ready` | `NeverConfirmsNo`, `ConfirmedStaysYes`, `ReadyMeansPrompt`, `Returns`, `ReachesPrompt` | none: the state space is finite, the moves are bounded by the code's 3 |
| `Launch` | `OneClaude`, `NoOrphans`, `ContinuedIsAtPrompt`, `FreshOnlyAfterExit`, `LaunchesReturn` | 3 launches, one of them attaching; 2 exits: a claude can be booted, lost and booted again twice |
| `TailFile` | order, completeness, the refinement of `LineTail` | 4 lines of 2 pieces, every offset from the start into the fourth line, so also inside lines and beyond the end |
| `Query` | what a run prints, in each format and with each backend, and what it leaves behind | 2 interim lines: two tool calls, or one with a line before or after it |
| `Drive` | `LiveIsTracked`, `RequestsReturn` over all tools | 3 requests, 2 ids, 2 sessions |
| `Shutdown` | `GoneWhenDone`, `KilledOnlyIfStuck`, `EnterOnlyConfirms`, `ReportsAreTrue`, `ShutdownReturns` over each backend | one other caller of Wait, one exit code other than 0 (the code of a session that knows none), claudes that take 2 or 3 Ctrl-C's, exits told with a code and first |
| `Bridge` | `ListedIsCallable`, `AnswersAreTraced`, `CloseIsNoError`, `CallsReturn`, the refinement of `ToolService` | 2 relays, 2 tool calls that share the client of one of them, 2 tools, 2 registrations in all (`MaxAdds`): a tool can be listed and replaced while another call is under way; a trace whose writer fails for one of the calls |

The bounds are the constants `MaxPrompts`, `MaxWork` (interim lines in all),
`MaxLines`, `MaxExits`, `MaxAdds` and the sizes of the sets; only guards use them.

What the properties need, beyond the code: `AnswerIsOwn` and `SingleMessages` of
`Conversation` need one shared Session; `AnswerIsOwn` besides no deadline before it
and no turn running when the conversation was opened (an earlier turn's tool result or
late echo would open the gate; `StaleMarkerIgnored` and `AnswersFollowTranscript` say
what is left without); the
same goes for `settled` in `Query`. `NoOrphans` needs a daemon that carries out its
kill, whose error the code drops: `KillsFail` is FALSE. `NeverConfirmsNo` needs
`SlowTUI = FALSE`. `ContinuedIsAtPrompt` speaks of a session whose boot has succeeded,
and not on the picker: the code continues others too, and waits for none of them.
`FreshOnlyAfterExit` says when a conversation is started afresh, not that it never is.
`LiveIsTracked` needs ids that are not pinned twice (`MayPin = FALSE`): a second
launch that pins an id in use overwrites the registry entry of the first, and one that
pins an id being stopped may lose its own. Two stops find the session of an id; the
first is done with it, the id is launched again, and the second's `delete` takes the
new entry away. `stop_claude` deletes by id, without looking whose entry it is.
`ReadyMeansPrompt` excepts the style picker, which the detectors take for the input
row once its Enter was sent. So does `ReachesPrompt`, which besides
needs a transcript that quotes no menu. `ToolsPaired` speaks of runs that ended well,
and of a claude that makes one tool call at a time: `Claude` writes a call, then its
result; several calls in one message, or in messages before the first result, are not
in the model. `EnvelopeIsHonest` and `AnswerIsOwn` of `Query` need a conversation that
was `settled`: the lines of an earlier turn that still runs do count for the run.
`EnterOnlyConfirms` excepts a transcript that quotes both rows of the modal (`rows`):
the
Enter pressed on it submits what is in the input box.
`KilledOnlyIfStuck` speaks of a claude that two Ctrl-C's quit, and that answers to
both keys in time. `GoneWhenDone` excepts a daemon that cannot be reached: the kill's
error is dropped (drive.go:171). `ReportsAreTrue` needs the exit to come before the
session's end in the daemon's events, with its code (`ExitFirst`), and a connection
that lasts; otherwise Wait returns 0. `AnswersAreTraced` speaks of the calls whose entry
the writer takes (`Recorded`). `CallsReturn` of `Bridge` excepts the relays in the
queue of a listener whose `Serve` has failed: nobody accepts them.

Runs that must fail state what a comment or document says and the code does not
do; `findings` in `PROJECT.json` quotes each:

| Run | The documents say | The code |
|---|---|---|
| `PerCallHandles` | overlapping prompts never interleave | each daemon tool call has its own mutex |
| `QueryCutOff` | context errors are surfaced unless a terminal message came | any text suppresses them |
| `DriveInterrupt` | interrupt stops a turn under way | it waits for that turn's prompt to return |

Other differences, which the models contain and no run is about:

* `session.go:274-276` says a wait ends on "the terminal event that follows this
  turn's user echo"; any line of type user opens the gate (session.go:282), so after
  a prompt that ran into its deadline the tool result or the delayed echo of the
  earlier turn does (`OpensTurn`, and `TimeOut` of `Conversation`).
* `client.go:111-112` and `daemon.go:52-53` say a continued session "is already past
  the trust modal and sitting at the input prompt"; it may still be booting for the
  launch that created it, or have been left behind a modal by one whose wait failed or
  ended on the style picker (`List`, `Attach`, `ContinuedIsAtPrompt`).
* `drive.go:29-31` says WaitForReady returns nil once the main input row is visible;
  it does so on the style picker after its Enter was sent (`LooksReady`).
* `drive.go:160` says that HasExitConfirm matched the modal's row and that Enter
  confirms it; lines of the transcript that begin like the two rows match as well
  (`HasExitConfirm`, `EnterOnlyConfirms`).
* `server.go:167-168` of `claudemcp` answers whether or not the trace took the entry:
  the error of its write is dropped (server.go:218), and a server without a writer
  keeps none (`Recorded`).
* A callback's error would end `tailJSONL` (jsonl.go:164-166); neither of the two
  callbacks returns one (client.go:239-252, session.go:281-292), so `TakeLine` has no
  such branch.
* `backend_daemon.go:103-104` treats a lost connection as an exit "so waiters don't
  block forever"; the channel holds one code, so of two callers already in Wait one
  is released and the other waits for its context (`SendCode`, `ReceiveCode`).
  `Shutdown` is not affected: waitExit's context ends.
* `daemon_ref.go:79-92` and `72-77` report exit code 0 whatever the process's was
  (`ExitCode`).
* `claudemcp/client.go:15` says one Call at a time per Client; Call takes a mutex,
  and the relay relies on it (`Busy`).
* `claudemcp/types.go:23-25` says the protocol version is the relay's first request;
  it is never sent.
* `claudemcp/server.go:54` removes whatever socket is at the path, and Close
  (server.go:145) whatever is there by then: of two servers on one path the first
  becomes unreachable, and its Close makes the second so. `Bridge` has one server.
* `claudemcp/builtin.go:11-13` says `MaxReadSettle` caps read_pty's wait; a larger
  `settle_ms` raises it (builtin.go:69-72).
* `session.go:82-84` says a turn without a text reply returns empty text;
  `finalText` keeps an interim sentence (`NextText`).
* `jsonl.go:108-109` says the tail returns when the file disappears; an open file
  stays readable, and the loop waits for its context (`Vanish`).
* `README.md:106` says a stream ends with a `result` event; an error return after
  `em.init` writes none (`Fail`).
* `session.go:171` says Exited does not block; it takes the mutex a prompt holds,
  and list_sessions holds the server's meanwhile (`Visit`).
* `backend.go:40-43` says a conversation with a transcript and no live session is
  resumed; whether there is a transcript is looked at before the sessions are
  listed, so that one another claude writes before it exits in between is started
  afresh (`LookForTranscript`, `List`, `FreshOnlyAfterExit`).

`CHECK_DEADLOCK FALSE` is set where the system may stop for good: the callers have
used up their prompts, the launches or the run are over, claude is gone.

### Fairness

* Goroutines that can run do: weak fairness of each caller's, request's, driver's
  or launcher's steps.
* A Go mutex hands itself to a waiter that has starved (its starvation mode):
  strong fairness of `Acquire` and of `DriveServer`'s `Waits`.
* Deadlines come: `TimeOut` is a step of the caller, so weak fairness of `Step`
  makes it happen wherever claude has nothing more to say. This is justified by
  Options.Timeout, PromptTimeout and the bounded waits, none of which can be zero;
  `Session` has no deadlines and asks claude to end its turns instead
  (`ClaudeRuns`). `Overlap` asks nothing of claude (`CallersSpec`), nor does
  `Drive`.
* In smooth behaviours the TUI goes on and a capture succeeds in the end (strong
  fairness: single captures may fail): `ReachesPrompt` needs both, and so does
  `Returns` there. In the others the deadline comes.
* `TailFile` asks the reading goroutine to run, nothing of the writer.
* `LaunchesReturn`: the daemon answers, boot ends, the 45 s wait is bounded.
* `ShutdownReturns`: the driver, the drain goroutine and the callers run, the two
  budgets end (`Late`, `Expire`), a killed process dies. Nothing is asked of claude
  unless it is `timely`.
* `Bridge`'s `CallsReturn`: the goroutines of the server and the relays run, handlers
  return, and a `Close` that began goes on. That the mutex is handed on (two calls of
  one client, a writer of the registry) needs no strong fairness: the calls and the
  registrations are finitely many. The host need not close, nor claude call anything.

## What is proved

TLAPS checks these for every value of the constants that satisfies the named
assumption (`ConversationAssumption`, `ReadyAssumption`, `LaunchAssumption`,
`ShutdownAssumption`, `BridgeAssumption`, `TailAssumption`, `DriveAssumption`: types
only).

* **`ConversationProofs`**, any callers, handles, deadlines, exits and bounds.
  `TypeCorrect` rests on `TypeInv`, which adds that claude is only at work on a
  turn it has begun (else the lines it writes would have no turn).
  `SessionExcludes` is mutual exclusion between `s.mu.Lock()` and the return; its
  invariant `MutexInv` relates the lock to the program counters and the call
  (AwaitTurn holds no lock, which is why the call matters).
  `OneSessionSingleMessages` assumes that all callers share a handle and uses
  `SingleInv`: while claude lives, text sits in the box only between the two writes
  of the caller who holds the mutex. `SingleMessages` alone is not inductive, as it
  says nothing of the box.
  `AnswersCorrect` needs no such assumption. Its invariant `TailInv` says of every
  tail under way that what it knows is what the lines between its offset and its
  position say, and that none of them ended the wait; appending never changes the
  reading of a prefix. `PollingIsStable` follows since a reading is unique.
  `AnswersAreFinal` and `StaleMarkersIgnored`, for any handles, deadlines, exits and
  openings too, add to `TailInv` how claude writes (`WellWritten`, in `Claude`): lines
  are in the order of the turns, and after a turn's reply comes only its marker. So a
  wait that ended on a reply or a marker has the end of that turn; and the line of type
  user that opened the gate after the cursor is of a later turn than one that replied
  before it, as is every line after.
  `AnswersAreOwn` assumes `OneAtATime`: one handle, prompts alone, no deadline, no turn
  running at the opening; claude may exit at any point. `AnswerIsOwn` says nothing of a
  call that is under way. `OwnInv` follows each one: before its first write a living
  claude is settled, with an empty box and queue (`Rests`); then the prompt is in the
  box, the next in the queue, or claude's last turn is its own, and what was written
  since the cursor is of that turn but for markers (`Progress`).
  `DialogueImplemented`, under `OneAtATime`, is the step simulation of `Dialogue`:
  Enter is `Receive`, a return with an answer is `Respond`. Its invariant
  `DialogueInv` adds that prompts are told apart by their numbers (`Numbered`) and that,
  while claude lives, only the prompt of the caller who waits is unanswered
  (`AllAnswered`), which with the mutex gives the guard of `Receive`.
* **`ReadyDriverProofs`**: `NoIsNeverConfirmed`, for any screens, lost keys,
  deadlines and crashes, when a Down is handled within `trustRedrawWait`. `MenuInv`:
  at most one key is queued (`KeysInv`); a decision about to be taken on a Yes is
  taken on a menu that still shows Yes with no Down queued (`SeenInv`); once Enter
  is sent, Yes stays. `NeverConfirmsNo` alone is not inductive: a state with a Down
  before an Enter in the queue satisfies it.
  `ConfirmedYesStays` is part of the same invariant. `ReadyIsAtPrompt` needs no
  assumption on time, only that a trust menu's cursor is on a numbered row: nothing
  takes claude away from a prompt that was captured but its end (`ReturnInv`).
* **`DaemonLaunchProofs`**: `AtMostOneClaude`, `ContinuedSkipsNoWait` and
  `ResumesWhatItFinds` for any number of overlapping launches,
  `NoneLeftBehind` for finitely many and a daemon that carries out its kills.
  The daemon's get-or-create starts a claude only when none is alive; the launch
  that started the living one did not continue one, so it waits for the prompt, and
  once it has succeeded claude is there unless it misread the picker
  (`BootedIsAtPrompt`, the part of the invariant `ContinuedSkipsNoWait` needs).
  `ResumesWhatItFinds` rests on `TranscriptHasAuthor`: a transcript a launch did not
  see when it looked has a claude that wrote it since, alive or gone.
  There are as many claudes under unknown ids as launches about to kill one
  (`OrphansReaped`).
* **`TailFileProofs`**, lines of any length, any offset, any cut of the reads.
  `TailInv`: the fragment and the reader's buffer are one stretch of the file, which
  begins where a line does, or where reading began. So the next newline in it ends
  either the next line to be delivered or the end of the line the offset points into,
  which is no line of the file. `LinesInOrder` follows; `LineTailImplemented` is the
  step simulation of `LineTail`, with where the tail is in its loop (`Phase`).
* **`DriveServerProofs`**: `NoClaudeLost`, any tool calls, ids and sessions, when no
  launch takes an id in use (`~MayPin`). `Theirs`: while a stop is under way, the
  registry has for its id the session it stops or none, so that a delete by id is a
  delete of that session; `Apart`: a launch has its id for itself.
* **`ShutdownProofs`**, any backends, codes, callers and claudes. `LeavesNoClaude`
  rests on `ExitInv` (a session reported as exited has exited, or its connection has
  ended), `SparesTheTimely` on `TimelyInv`: for a timely claude that two Ctrl-C's
  quit, the keys still queued are enough for where claude and the driver are, and no
  budget ends before. `EnterSubmitsNothing` follows from `EnterInv`: an Enter is only
  queued behind a modal that was on the screen, and nothing takes the modal away but
  that Enter or claude's end; a transcript that quotes the rows is the one exception.
  `TellsTheCode` assumes that the exit is the first event
  of each order (`ExitLeads`); `CodeInv` says that once the session is marked as
  exited over a living connection, and in the channel before, there is the process's
  code.
* **`BridgeProofs`**, any relays, calls, tools and registrations. `PipeInv` is the
  heart: a connection has at most one call under way, and its request is on the way,
  or it is in the handler's hands, or its answer is on the way; a call that was cut
  off keeps its place. `ServiceImplemented` is the step simulation of `ToolService`:
  a handler's lookup is `Take`, a response read is `Tell`. Answers that carry no
  number find their callers by that invariant alone. `TraceKeepsUp`: an answer that is
  on a connection, or with its caller, is in the trace if its entry could be written.
  `ListedStaysCallable` adds that
  versions only grow and that a call is made of what its relay was told.
* **`QueryProofs`**, any backends, formats, openings, deadlines, failures, exits and
  bounds, without assumptions. `LeavesNoClaude` needs only `Returned`: a run that is
  over has made a Close on the way, in the failing step of `prepareSession` or deferred.
  `AnswersAreOwn` and `EnvelopesAreHonest`
  share an invariant, as both are about what the emitter holds. `OursFromOffset`: in a
  conversation that was settled, what claude wrote since the cursor is of our turn but
  for markers, because only our prompt is ever sent, once (`Sent`). `Gathered`: the
  text held is our turn's or none, and a terminal line was seen if and only if claude
  has replied to us in what was read; this last is not changed by what claude writes
  later. `CallsArePaired` relates two sequences: in the transcript a call is followed by
  its result, or is still at work (`ToolLines`); the stream has the message of the last
  assistant line read at its end (`Streamed`). `Paired`, the inductive form of
  `ToolsPaired`, allows a call at the end of the stream while its result is not read
  yet, and the run cannot end well there unless it is cut off.

Only model-checked: liveness (`CallsReturn`, `Returns`, `ReachesPrompt`,
`LaunchesReturn`, `EveryLineRead`, `QueryReturns`, `RequestsReturn`,
`ShutdownReturns`), which is beyond this prover. Every invariant and every refinement
that a passing run checks has a theorem. Where a theorem has a
hypothesis, the run that checks its property satisfies it (`Session` is `OneAtATime`).

## What is not modelled

* The transcript reader, the daemon side of the driving server: see the plan.
* The built-in tools of the bridge: argument checks in front of a screen read or a
  key write, without a state of their own.
* A write that fails while claude lives; a human typing into the same session;
  several transcript files of one id; truncation of a transcript that is being
  tailed. `TailFile` covers a file shorter than the offset when it is opened.
* The wording of screens, the fields of envelopes, token totals, flag and option
  mapping, environment filtering, packaging: no state, or pure I/O.

## Plan

Done, in this order, the most important behaviour first: `Transcript`,
`Conversation` with its abstract `Dialogue` and proofs; `ReadyDriver` with its
proof; `DaemonLaunch` with its proofs; `TailFile` with its abstract `LineTail` and
proofs; `Query` with its proofs; `DriveServer` with its proof;
`Shutdown` with its proofs; `Bridge` with its abstract `ToolService` and proofs.

Next, to extend the model:

1. The daemon side of `DriveServer` (per-call handles, the cached client,
   read_response's three outcomes) composed with `Conversation`'s cursors.
2. Two launchers driving one trust menu: `ReadyDriver` for two drivers, composed
   with `DaemonLaunch`.
3. `ReadTranscript` and the aggregation of usage as recursive functions, against
   reference definitions over bounded transcripts.
4. Writes that fail with claude alive, in `Conversation`.

Then, to prove more: what each of these adds. The first has to say for the daemon's
tools what `OneAtATime` rules out, where `AnswersAreFinal`, `StaleMarkersIgnored` and
`AnswersCorrect`, which have no such hypothesis, are the starting point.
