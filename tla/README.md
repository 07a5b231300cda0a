# vscode-debugadapter-node in TLA+

Models, model checking and proofs for the code that implements a debug adapter
(`src/adapter`), the client that its tests drive (`src/testSupport`), and the Debug
Adapter Protocol between them. Paths such as `protocol.ts:170` are relative to
`src/adapter/src` or `src/testSupport/src`; `debugProtocol.json` is the protocol's
schema at the root of the repository.

## 1. Inventory

| Component | State | Operations | Interacts with | Hard behaviour | Correct when |
|---|---|---|---|---|---|
| **Wire framing** (`protocol.ts:197-247`, `protocolClient.ts:85-135`) | buffer `rawData`, `contentLength` | write a frame; take a chunk; cut out header, body | stream; `handleMessage` / `dispatch` | chunks cut anywhere; an exception in the middle of a chunk; foreign text on stdout | what arrives is what was sent, in order, and a call leaves nothing complete behind |
| **ProtocolServer** (`protocol.ts`) | `_sequence`, `_writableStream`, `_pendingRequests`, timers, one listener | start, stop, sendEvent, sendResponse, sendRequest, handleMessage, subscribe, dispose | stream, inline host, DebugSession | the listener is called within `_send` and may call back in; answers late, repeated, missing; timers that nobody clears | each request with a callback completes exactly once; a response is sent at most once |
| **DebugSession** (`debugSession.ts:391-909`, `runDebugAdapter.ts`) | client settings, `_isServer`, one Response object per request, exit timer | dispatchRequest, default handlers, sendErrorResponse, shutdown | subclass's handlers, process, ProtocolServer | handlers that answer later, twice, never, or throw; an answer marked as failed and not sent; nested dispatch inline; several causes of shutdown | no request is lost that the session has to answer, no answer goes out twice, the process ends when and only when it should |
| **Conversions** (`debugSession.ts:913-991`) | six flags | line, column and path conversion | subclass | flags change between a conversion and its inverse | the two directions undo each other |
| **formatPII** (`debugSession.ts:993-1007`) | none | substitute `{name}` in a format | sendErrorResponse | names that start with `_` go to telemetry | nothing else is substituted |
| **Handles** (`handles.ts`) | next handle, map | create, get, reset | subclass | numbers start again after reset; falsy values | a live handle names the value it was made for |
| **Logger** (`logger.ts`, `internalLogger.ts`, `loggingDebugSession.ts`) | pending queue, current logger, log stream, process listeners | init, setup, log, dispose | LoggingDebugSession, file system, process | setup waits for mkdir while logging, dispose or another setup go on; one logger for all sessions of a server | no message is lost or reordered; no log file is forgotten |
| **ProtocolClient** (`protocolClient.ts`) | `sequence`, `pendingRequests` | send, dispatch | stream, DebugClient | promises continue in microtasks; answers late, repeated, or of an adapter that was replaced | each response completes its own request, once |
| **DebugClient** (`debugClient.ts`) | `_supportsConfigurationDoneRequest`, process, socket, listeners and their timers | start, stop, launch, waitForEvent, configurationSequence, assertStoppedLocation, hitBreakpoint, assertOutput | ProtocolClient, a child process or a socket | events and responses in one chunk; an adapter that exits; a test that restarts | the configuration ends with the request the adapter announced; a scenario settles; stop leaves no adapter running |
| Message and event classes, web stubs, generator and schema | none that changes | constructors, code generation | - | - | - |

The adapter and the client are single-threaded JavaScript: a task runs to its end,
and between two tasks any timer, chunk of data or stream event may come next. The
concurrency is therefore in three places: the order of tasks; calls that re-enter the
object through the inline listener, in the middle of a task; and the cutting of the
stream, which puts parts of a message in different tasks.

## 2. The modules

| Module | What it is |
|---|---|
| `MessageChannel` | abstract: a FIFO channel of message bodies |
| `Framing` | both ends' writer and decoder; implements `MessageChannel` |
| `FramingProofs` | proofs about `Framing` |
| `RequestReply` | abstract: each request with a callback completes exactly once |
| `ProtocolServer` | sending, the Emitter, callbacks and timers; implements `RequestReply` |
| `ProtocolServerProofs` | proofs about `ProtocolServer` |
| `DebugSession` | extends `ProtocolServer` as the class does: dispatch, handlers, shutdown |
| `DebugSessionProofs` | proofs about `DebugSession` |
| `DebugClient` | `ProtocolClient` and `DebugClient`: requests, promise chains, the adapters they run against; implements the safety part of `RequestReply` |
| `DebugClientProofs`, `ConfigurationProofs` | proofs about `DebugClient`: its requests; the order in which its chains go on |
| `OutputAssertion` | `assertOutput` |
| `Logger` | the global logger, the loggers of the sessions, their files and listeners |
| `LoggerProofs` | proofs about `Logger`: its order, its files, its errors |
| `Handles` | numbers for objects |
| `Conversion` | lines, columns and paths between client and debugger |
| `ValuesProofs` | proofs about `Handles`, `Conversion` and `OutputAssertion` |
| `Recursion` | induction over positions, as lemmas without operators as parameters |
| `MCFraming`, `MCProtocolServer`, `MCDebugSession`, `MCDebugClient`, `MCLogger`, `MCValues` | the constants of the small instances |

### Framing

The stream is a sequence of units: a header line, a CR LF, or one byte of a body.
The decoder (`_handleData`, `handleData`) looks at no part of a header before it has
found its end, so nothing is gained by cutting a header line into bytes; CR LF is one
unit because a CR LF CR LF cut in its middle is found by the same search as one cut
between the two. A body is counted in bytes, and a body may itself contain CR LF CR LF
and bytes that continue a UTF-8 character.

`Write` is `_send` and `doSend`; `Data(n)` is the `data` event with `n` units of what is
under way; one iteration of `while (true)` is one step (`TakeBody`, `ParseHeader`,
`Break`), and `loop` says that a call is running. `Catches` tells the server, which
catches what a handler throws (`protocol.ts:220-226`), from the client, which does not
and leaves the loop (`escaped`). `StrayText` is text that an adapter prints to its
stdout, which is also its channel. Headers with another field before or after
Content-Length, which a different peer may send, are included (`Styles`). `wire`,
`frames`, `taken` and `delivered` are history.

Foreign text is a line without a length field. A text that forges one is a message as far as the decoder can
tell, so nothing could be promised of it.

Abstracted: a Content-Length that is no number, and what JSON.parse makes of a body
(a handler throws or does not).

### ProtocolServer

The listener of `onDidSendMessage` is called by `_send` (`protocol.ts:206`) and may do
anything a host can: call `handleMessage`, subscribe, dispose its subscription. So `_send` is
not one step: the step that numbers, writes and delivers a message pushes a frame on
`stack`, the listener's actions are steps taken while the frame is on top and `hosted`,
and `Return` pops it and does what the caller does next (`then`): for `sendRequest`,
store the callback and start the timer (`protocol.ts:172-182`). Timers and answers from the
stream need an empty stack. Timers are a set of requests with no clock: a timer may
fire as early or as late as the scheduler allows, so before or after the answer.

`wire` and `heard` are what each side has seen, `calls` which callbacks were called and
why, `wants` which requests asked for a callback, `unmatched` which answers found none.
`Unwritten` is `_send` when `JSON.stringify` throws: the number is used up. `UnwrittenResponse` is that of a response, whose
object keeps the number.
`EmitWriteError` is the stream's error for a write after `stop()`.

### DebugSession

`Dispatch(r)` is `dispatchRequest` up to the handler's call, `Settings` and `Refused` its branch for
`initialize`, `Handle` the chain of commands: the default handlers that send their
response (`otherRequest`, for those of `debugSession.ts:748-902`), `initializeRequest`,
`disconnectRequest`, which goes on with `shutdown()` when its response is out, and
`customRequest`, which fails. A request in `Own` has a handler of a subclass, which is
a frame on the stack: while it is on top, and later from tasks of its own, it may answer, fail,
send events and requests, or throw (`HandlerThrows`, answered by `CatchBlock`).

`sendErrorResponse` marks the object as a failure (`Fail`) before it formats, numbers and writes the answer, and each of
these may throw: formatPII without a format or without the variables that the format names (`debugSession.ts:481`), and
`JSON.stringify`. So besides `ErrorOwn` there is `ErrorOwnThrows`, after which the object is marked and not sent. Within a handler the exception
may go on to the catch block (`HandlerThrows`); in a later task of the subclass nothing answers. `CatchThrows` is a catch block whose own answer cannot be
written: the exception leaves `dispatchRequest` (`Escapes`), and `_handleData` makes an 'error' event of it, which shuts down, or the
host that called gets it. What a handler throws is an Error object, as `e.message` and `e.stack` are read (`debugSession.ts:641`), and the body of a
response is one that `error` can be assigned to; the session's own error texts and default bodies are constants that can be formatted and written.

`Shutdown` records its
cause and starts the timer unless the session is a server or runs inline; `Exit` is
the timer's process.exit. `InputEvent`, `WriteError` and `Sigterm` are the other callers of
`shutdown`. After the input has closed nothing arrives from it.

A request and its Response object share a name. `success` is the field of the object,
also after the object was delivered. `thrown` and `unwritable` are history: the requests whose handler has thrown, the
responses that could not be written.

### DebugClient

A test starts an adapter, runs a scenario against it, stops it, and may start another one. A
scenario is one to three promise chains that run together under `Promise.all`, those of
`hitBreakpoint` (`debugClient.ts:460-492`): `configuration` waits for 'initialized', sets a breakpoint and ends with
configurationDone or setExceptionBreakpoints; `launch` is initialize, then launch; `stopped` waits for
'stopped' and asks for the stack. `stop` is a chain of its own, which a test may begin at any time.
`at` says what each chain waits for: an event, the answer to a request, or that it is `done` or `failed`.

A task of the client is a chunk of the adapter's output, a timer, or the test's own call. `Answer`, `AnswerAgain` and
`SendEvent` are one message of a chunk; the next one may follow in the same chunk (`chunk`) before any promise has
continued. A promise that is settled puts its continuation into `jobs`, which run one by one (`RunJob`), first in
first out, before the next task. `Hops` says how many turns the settling takes to get to the continuation:
`setBreakpointsRequest(..).then(..)` returned from a `then` takes one more than a direct `then`. So the order of jobs is
that of microtasks, which decides `ConfiguredAsAnnounced`. A rejection is a job as well; only `stop` catches one.

`pendingRequests` maps a seq to the request whose promise waits; `sequence` goes on across `start`. The adapters are external: they answer a
request they read at any time, or refuse it, send 'initialized' after their answer to initialize and 'stopped' when they are launched and
configured (`MaySendEvent`), and, where the test allows it (`faults`), give an answer a second time or exit.
What an adapter wrote before it exited still arrives. `request`, `outcome` and `wokenBy` are history.

The assertions inside a chain (`assertPath`, `assertPartialLocationsEqual`) succeed or fail. The request methods that no scenario
uses are the same call of `send`. Reverse requests of an adapter are not dispatched to anything by the client and are left out.

### OutputAssertion

`assertOutput`: the output of the events is concatenated (`OnOutput`) and compared with the text expected as a
prefix of it or the other way round. Only the first settling of the promise counts. Expected texts are not empty: an
empty one would be resolved by the first event of its category, not at once.

### Logger

A `LoggingDebugSession` logs all its traffic through one `Logger` per process, which hands each
line to the `InternalLogger` of the session started last. `InternalLogger.setup` awaits mkdir and
`Logger.setup` continues in a promise callback; so a setup is `Setup` (up to the await: the level is in
force at once), `MkdirDone` (the file, its first lines, the listeners; or the error) and `Flush` (the
callback: the queue is written). `opening` and `settled` count the setups between these. A promise callback runs before the
next task, hence `Idle`. `_write` queues, logs or drops; `Log` and `Send` are its callers. `BeforeExit` and `Signal` are the
process listeners. `out` is what each session sent, `files` what was written to each file.

A file is named by its number. A disposal ends the stream of its logger (`ended`); a further setup with a file overwrites `_logFileStream` and does not
end the stream there was (`internalLogger.ts:68`), which `replaced` counts. A logger is registered with the process once per setup and taken off once per disposal. `Signal` disposes the logger
registered first and ends the process, so that the files of other loggers are not ended; a process.exit by a session's `shutdown` fires neither listener, and is left out here.

A line is its number and level. Left out: text, time stamps, the console, the cut at 1500 characters, 'error'
events of the file stream, and a log callback that itself logs.

### Handles, Conversion

`create`, `get` and `reset` as they are; objects are numbered in the order of their creation, which
tells old from new when a handle is used again. In `Conversion` the flags are the state, and the
setters and the initialize request its actions. A path is a sequence of segments, each with one of nine texts by what
the conversions make of it, and a count of how often it was percent-encoded. `encodeURI`, `URL` and
`decodeURIComponent` belong to the platform and are modelled by what `debugSession.ts:965-991` and its tests
(`DebugAdapter.test.ts:38-120`) use of them.

## 3. The runs

| Run | Question | Bounds, and why they are enough |
|---|---|---|
| `framing_server` | is the decoder aligned, complete and live? | two frames, of the bodies empty, one two-byte character, CR LF CR LF, in three header styles, one throwing handler. Alignment concerns one boundary between two frames; two frames have it, and all cuts of both are explored |
| `framing_client` | what does foreign text do to the client's decoder? | two frames and two stray texts; nothing is caught; one exception |
| `protocol_server` | do requests complete once, responses go out once? | three messages, two answers (so one repeated), one unserialisable message, both modes at once, calls nested two deep |
| `session_stdio` | is a request lost, does the process end? | a refused initialize, an unknown command, a launch with a handler of the subclass, a disconnect; three messages, of which one cannot be written, one repeated answer. A lost answer needs one handler, one attempt before it throws and one exception in the catch block |
| `session_inline` | what may a host do within its listener? | with and without a stream besides: a default initialize and launch, a subclass's disconnect, which may also call shutdown() itself; two messages of the session, of which one cannot be written, one repeated answer, three calls deep |
| `logger` | are lines lost, repeated or reordered, is the queue written, is a file forgotten? | two sessions, so that one starts while the other's setup is under way; three lines, as a gap or a reordering needs one before and one after; two setups, so that they overlap |
| `client` | are requests numbered and answered right, is the configuration ended as announced, does a scenario settle, does stop stop? | tests of no adapter, of one with all chains (a process and a server, which may exit and repeat an answer), and of two, the second started while answers of the first may still come; every order, cutting and refusal of messages. Two adapters are enough for a stale answer, event or capability |
| `values` | do handles and conversions mean the same there and back, is output judged by its text? | five objects, so that a handle is used again after a reset; numbers around 0 and 1; all paths of up to three segments; both platforms; all flags; expected texts of up to three characters, four printed, in events of up to two |
| `inline_answer`, `sequence_gap`, `omitted_format`, `foreign_log` | disagreements between the code and the schema, section 5 | the smallest instance that shows each |

`CHECK_DEADLOCK FALSE` everywhere: a stream on which nobody writes again, or a process
that has exited, has stopped for good reasons. The bounds are `MaxFrames`, `MaxFaults`,
`MaxStray`, `MaxSeq`, `MaxAnswers`, `MaxBroken`, `MaxDepth`, `MaxLogged`, `MaxSetups`, `MaxCreated`, `MaxStarts` (with `Tests`) and `MaxHeard`, constants named in the
guards that use them.

### Properties

- `IInv` of `Framing`: `BufferIsWindow`, `FramesOnWire`, `Aligned`: the buffer is the part of the wire
  not yet consumed, and between two iterations the decoder stands at the start of a
  frame, or at the start of a body with that body's length.
- `NothingLeftBehind`: a call ends with nothing complete in the buffer.
- `ChannelLive`: `Framing` implements `MessageChannel` with its fairness.
- `NothingInvented`: with foreign text on the stream, what is handed over is still a
  subsequence of what was written. `NoisyIInv` makes it inductive: a length that the decoder has read is that of
  the body it stands at, and this body comes after all that was handed over.
- `OnePlace`, `PromiseKept`, `PromiseSafe`: a request with a callback is about to be stored, stored, or called
  back, exactly one of them, and in the end called back (`RequestReply`).
- `ResponseOnce`: no side sees two responses of one object.
- `StreamAnswerNotLost`: an answer that comes over the stream is dropped only when its request is
  complete or wanted no callback.
- `NoRequestLost`: a request that the session has to answer itself - it refuses it, has a default handler for it, or its handler has thrown -
  has its answer on the stream while that is open, also when the handler had marked the object as a failure, had sent it or had tried to. The one
  exception is a handler's response that cannot be written as JSON: it has its number when the exception arrives, so the error
  response that the catch block sends through the same object is refused (`protocol.ts:154`), and the request is never
  answered. A handler that returns without an answer may still answer later, so nothing is promised of it.
- `ShutsDown`: a call of shutdown(), or a disconnect request that the session handles itself, leads to process.exit; `SessionTypeOK` has the converse.
- `ClientIInv`: every request is made once, under a seq of its own, and the callback under a seq is that of its request.
- `OwnAnswers`: an answer, also of an adapter that was replaced since, settles the promise of its own request.
- `ConfiguredAsAnnounced`, and `OrderIInv`, which makes it inductive: a configuration ends with the request that the adapter announced, even
  when 'initialized' comes in the chunk of the response that announces it. What an earlier adapter announced is kept in `_supportsConfigurationDoneRequest`, and
  an event of an earlier adapter can start a configuration too soon; the property promises no more then.
- `PromiseSafe` of `DebugClient`: a promise is settled at most once and only if its request was made.
- `ScenarioSettles`: a scenario that has begun settles, unless its adapter is gone and it waits for an answer or, in server mode, for an event,
  which have no timers; `Misled` excludes what the previous item excludes.
- `StopReleases`: stop ends the adapter whether it grants or refuses to disconnect, and settles when there was none. Whether it settles when the adapter
  exits without an answer is not promised, and is not the case (`debugClient.ts:124-131` has no timer).
- `CutsDoNotMatter`: the verdict of `assertOutput` is about the text printed, not about its events.
- `InOrder`, `FileComplete`, `ErrorsArriveOnce`: the log reaches clients in order, a file has no gaps and begins
  with what was queued, and an error is shown once, across queueing, overlapping setups and starts of sessions.
  `LoggerIInv` makes the three inductive.
- `NoFileForgotten`: a log file was ended, or a logger that is registered with the process writes to it, or a later file of its logger has replaced it;
  although the logger may be disposed, or give way to another one, while its setup waits for mkdir, and be registered several times. So `beforeExit` leaves no file open but the
  replaced ones, which nobody ends. The property counts those apart: it does not say that all files are ended, which is not the case.
- `PendingFlushed`: a setup that is called ends in the queue being written, also when mkdir fails.
- `HandleNamesObject`, `OldObjectsForgotten`: what a handle leads to before and after a reset; `HandlesIInv` is inductive.
- `LocationsAgree`: the k-th line or column is the k-th on both sides, and comes back.
- `PathsComeBack`: an ordinary path comes back as it was, any other in a form that stays.

### Fairness

- `Framing`: `WF(Iterate)`, as a call of the decoder runs to its end, and `WF(Receive)`, as bytes written arrive.
- `ProtocolServer`: `WF(Return)`, as a listener returns; `SF(Timer(s))`, as a timer is due once and
  only waits for the thread to be idle. The steps of a listener and of tasks make it
  idle again and again rather than forever, hence strong fairness.
- `DebugSession`: `WF(SessionReturn)` and `SF(Exit)`, by the same reasons. Nothing is assumed of subclasses, peers or
  hosts beyond that their calls return.
- `DebugClient`: `WF(RunJob)`, as microtasks run; `WF` of the timers of waitForEvent; `WF(AdapterWorks)`: an adapter that runs answers what it has read and
  sends its events. Nothing is assumed of the test, nor that an adapter keeps running.
- `Logger`: `WF(Flush)`, as a promise callback that is due runs, and `WF` of `MkdirDone` for each session, as mkdir
  succeeds or fails in the end.

## 4. The proofs

The proof modules prove an inductive invariant with one lemma per action, then what
follows from it, then the refinement. They hold for every value of the constants,
under the assumptions named in the modules: `Bodies` are sequences of units, the bounds are
natural numbers, `Numbers` are integers.

`FramingProofs`: `Invariance` (`SafeSpec => []IInv`), and from it `TypeCorrect`, `StaysAligned`,
`CallsLeaveNothingBehind`, and `ImplementsChannel`, the refinement of the channel. `Aligned` by itself is
not inductive: that a length read is the next body's needs to know that the buffer
is a window on the wire (`BufferIsWindow`) and what the wire holds at the next frame (`FramesOnWire`). The central
lemma, `ParseHeaderIInv`, shows that the first CR LF CR LF at or after the start of a frame is the
end of its header, since a header has no other.

`ProtocolServerProofs`: `Invariance`, and from it `TypeCorrect`, `RequestsInOnePlace`, `AnswersOnce`, `StreamAnswersArrive` and
`KeepsPromise`, the safety part of the refinement of `RequestReply`. `OnePlace` needs that calls on the stack are calls of
different messages (`OneCallEach`): otherwise a return could store a request a second time.
`ResponseOnce` needs that the logs are numbered in the order of sending and that a response
object carries the number of its message (`Numbered`), so that the guard of `sendResponse`
sees every message sent before. `StreamAnswerNotLost` needs that answered requests have numbers already
given out.

`DebugSessionProofs`: `SessionInvariance`, and from it `SessionTypesHold` and `SessionAnswersOnce`. A session's steps
are answers (`Answering`), answers that could not be written (`Unwriting`), handlers that begin (`Entering`) and steps that
answer nothing (`Other`); the lemma `SessionStep` shows this once, and the other theorems argue about these four. The invariant needs that a handler's frame belongs to a
request that has arrived (`Running`), so that the catch block answers a request there is. `NoRequestIsLost` is proved under `OnStream` (there is no inline host), for any number of messages that cannot be
written; inline, a host may dispose its listener before the answer is due. `Reported` makes `NoRequestLost` inductive: what the session has to answer has a number, and an object with a number was delivered or could not be written; what has arrived did so on a stream. `SessionKeepsPromise` is the safety part of the refinement of
`RequestReply` once more, as the invariant of `ProtocolServer` does not hold of a session: handlers' frames have no number. In its place, `Asking` is about the frames of
`sendRequest` only, and the lemma `SessionAsks` shows that a session's other steps leave these alone (`Calm`).

`DebugClientProofs`: `Invariance` (`ClientIInv`), and from it `TypeCorrect`, `AnswersAreOwn` and `KeepsPromise`, the safety part of the refinement of
`RequestReply`. That a request is made once needs that a chain's later requests are fresh (`AheadIsFresh`) and that the chains of a run begin together
(`BegunTogether`).

`ConfigurationProofs`: `OrderInvariance` and `ConfigurationEndsAsAnnounced`. The latter is not inductive. A chain waits for one thing at a time
(`WaitsOnce`), so it has at most one job. When an adapter has announced configurationDone and the client has not noted it (`Announcements`), then the job of `launch`
that will note it is due, without further hops, and stands in the queue before a job of a configuration that this adapter's 'initialized' has started (`AboutToRead`). Running a job
keeps that order: the first of the queue is either that job, or another one, and what is appended comes after both.

`LoggerProofs`: `LoggerInvariance` (`LoggerIInv`), and from it `LoggerTypes`, `LogIsInOrder`, `FilesAreComplete` and `ErrorsArrive`. None of `InOrder`, `FileComplete`
and `ErrorsArriveOnce` is inductive, since what they say of a line that is handed on now depends on what happened to the lines before. `QueueIsLast` says that the lines
that wait are the ones logged last, so those before them (`gone` is their number) have been handed on or dropped; `OlderThanQueue`, that clients and files have no line that
is newer, so that what is appended to them comes after it. `FilesGoOn` is why there are no gaps: the file that is written to has no numbered line yet, or its logger is the current one with
the queue written and the last line in it, so the next line is the next number. A start of a session makes the queue wait again, and
makes another logger the current one, which has no file yet. `FirstSetup` tells of the only setup whether it is through; `ErrorsSent` needs `StartedFirst`, that there is a
current logger unless it was disposed. The actions that hand on lines (`_write`, `Flush`) rest on a lemma about lines that are handed to the current logger (`HandedOver`) and one about lines that
nobody gets (`Dropped`); the others add no numbered line (`ContinuedKeeps`).

`NoFileIsForgotten` rests on `FilesKept`: a logger that has a file is registered, and a file that no logger has was ended or replaced. The first part is inductive once registrations are sequences of
sessions: taking away the last registration of one logger keeps those of the others (`RemoveKeeps`), and its file is ended with it. The second holds of a step that gives at most one logger a file and
counts each file that it takes from a logger (`KeepsFiles`).

`ValuesProofs`: `HandlesInvariance`, and from it `HandlesNameObjects` and `ResetForgets`; `HandleNamesObject` is not
inductive without knowing that all handles in the map are below the next one. `LocationsAlwaysAgree` follows from
`ConversionTypeCorrect` and the lemma `Shifts`, for all integers. `PathsAlwaysComeBack` is about paths of any length: the encodings of one direction and the decoding of the other cancel segment
by segment (`EncodingsCancel`), resolving leaves segments without dots (`ResolveIsPlain`) and leaves such segments alone (`ResolveIsIdentity`), and a path that
has come back once has the form that stays (`RootedFacts`, `BackStays`). `OutputIsJudged` is about what appending does to prefixes (`MoreText`).

With foreign text, `FramingProofs` has `NoisyInvariance` (`NoisyIInv`), and from it `NothingIsInvented`. `IInv` does not hold there, as the decoder can stand anywhere when it has no length. What
holds is that every length on the wire stands in the header of the frame whose length it is (`LengthsInHeaders`) and that a header has no CR LF CR LF before its end (`FramesApart`). So a decoder that
finds a length, from wherever it started, and goes on behind the next CR LF CR LF, is at the body of that frame (`LengthFound`); and as it had consumed all
frames handed over before, it is a later one (`StandsBehind`). The theorem assumes `BodiesAreNoHeaders`, that no line of a body reads as a length field: misled by foreign text, the decoder does search bodies
for headers, and `NothingInvented` is false of bodies with such a line. The code justifies it: a body is what `JSON.stringify` makes of an object
(`protocol.ts:203`, `protocolClient.ts:99`), in which that name could only stand within quotes, with `"` or another character of a string at its side, while `_handleData` compares the whole
of what stands before the colon with `Content-Length` (`protocol.ts:236-237`). TLC evaluates it for the instances (`MCFraming`). `NoisyCallsLeaveNothingBehind` needs no
such assumption.

`Recursion`: the library's induction theorems take an operator as parameter, which the provers cannot instantiate. What `Shown` (`Logger`) and `Resolve` (`Conversion`) make of a sequence is proved all the
same: they are recursive functions over the positions of their argument, induction is stated for a set of numbers (`InductionUpTo`, from the least number of a set), and `RecursiveFunction` shows
that a function exists that satisfies such an equation, and therefore the one that is defined by it does. The attempt to prove `PathsComeBack` showed that the arms of the CASE of `Decode` overlapped,
so that it left open what decoding makes of a percent sign that was encoded; they exclude each other now.

Only model-checked: liveness (`ChannelLive`, `PromiseKept`, `ShutsDown`, `PendingFlushed`, `ScenarioSettles`, `StopReleases`), which the prover cannot do.
Every invariant of a run is the statement of a theorem.

## 5. What the runs found

- `inline_answer`: an inline host that answers a reverse request within its listener
  is not heard; the request times out (`protocol.ts:170-173`; `debugProtocol.json:19`).
- `sequence_gap`: a message that cannot be written as JSON leaves a gap in the
  numbers (`protocol.ts:200-203`; `debugProtocol.json:19`).
- `omitted_format`: an initialize request without `pathFormat` is refused, while the
  schema says that the default is `path` (`debugSession.ts:509`; `debugProtocol.json:969`).
- `foreign_log`: a session in server mode that sets up the log sends it to the client of the session
  started last, ahead of that one's answer to initialize (`logger.ts:98`, `logger.ts:118`; `debugProtocol.json:925`).

## 6. What is left to do

1. A composition of client, channel and session, where the abstract `MessageChannel` stands
   for `Framing`: a host that disposes its listener during the disconnect response, response objects shared
   with an inline host.
2. A log callback that logs again, in `Logger`: `_write` and `Flush` would have to be cut at every line they show.
3. `Logger`'s file stream with errors of its own.
4. `_supportsConfigurationDoneRequest`, which no restart clears, against `debugProtocol.json:1030`: the model has it, and `ConfiguredAsAnnounced` excepts it.

## 7. Not modelled, and why

The classes of `debugSession.ts:13-384` fill in payload fields; `formatPII`
substitutes in one pass; `web/` has stubs without behaviour; `protocol/` is a code generator and its output; `runDebugAdapter`'s command line and
sockets are I/O (a server session is one with `IsServer`). Of `debugClient.ts`, the request methods that only call `send` with a name, and what `assertPath` and
`assertPartialLocationsEqual` compare, are abstracted; of `start`, the spawning of the process and the connection of the socket.
