----------------------------- MODULE DebugClient -----------------------------
(***************************************************************************)
(* ProtocolClient and DebugClient (testSupport/src): the client a test     *)
(* drives a debug adapter with.  It starts an adapter, runs a scenario of  *)
(* promise chains against it (hitBreakpoint, or the same chains put        *)
(* together from configurationSequence, launch and assertStoppedLocation), *)
(* stops it and may start another one.                                     *)
(*                                                                         *)
(* All code of the client runs on one JavaScript thread.  A chunk of the   *)
(* adapter's output is dispatched message by message in one task; the      *)
(* continuations of the promises it settles run after it, first in first   *)
(* out (`jobs'), and before the next task.                                 *)
(*                                                                         *)
(* The adapters are external: they follow debugProtocol.json, answer in    *)
(* any order and at any time, may refuse any request, and may exit.  What  *)
(* an adapter wrote before it exited still arrives, also after the next    *)
(* one was started.                                                        *)
(***************************************************************************)
EXTENDS Naturals, Sequences, SequencesExt, Functions

CONSTANTS
    MaxStarts,      \* bound on the adapters started
    Tests           \* the tests: per adapter, what is done with it

Lives    == 1 .. MaxStarts
Scenario == {"configuration", "launch", "stopped"}

\* What a test does with an adapter: the chains it runs, whether the configuration
\* is the one of hitBreakpoint, which sets a breakpoint first, and whether start()
\* is given the port of a server; and what the adapter may do wrong: exit on its own,
\* give one of its answers a second time.
Scripts == [chains : SUBSET (Scenario \cup {"stop"}), breakpoint : BOOLEAN, port : BOOLEAN,
            faults : SUBSET {"exits", "repeats"}]

ASSUME ClientAssumption ==
    /\ MaxStarts \in Nat
    /\ \A t \in Tests : t \in Seq(Scripts) /\ Len(t) <= MaxStarts

\* The n-th scenario runs against the n-th adapter; a test without adapters stops
\* none.  A promise chain is known by its run, a request by its run and its command.
Chains == (Lives \X Scenario) \cup (({0} \cup Lives) \X {"stop"})

Commands == {"initialize", "launch", "setBreakpoints", "configurationDone",
             "setExceptionBreakpoints", "stackTrace", "disconnect"}
ChainOf(command) ==
    CASE command \in {"initialize", "launch"} -> "launch"
      [] command = "stackTrace"               -> "stopped"
      [] command = "disconnect"               -> "stop"
      [] OTHER                                -> "configuration"
Calls  == ({0} \X {"disconnect"}) \cup (Lives \X Commands)
Events == {"initialized", "stopped"}

VARIABLES
    test,               \* the test that is run
    life,               \* how many adapters were started; outputStream leads to the last
    link,               \* what start() has set: _adapterProcess, _socket or nothing
    supports,           \* _supportsConfigurationDoneRequest
    sequence,           \* the seq of the next request
    pendingRequests,    \* seq -> the request whose promise the callback settles
    at,                 \* per chain, what it waits for, or how it ended
    listeners,          \* the chains with a `once' listener
    timers,             \* the chains whose event timer runs
    jobs,               \* continuations that are due
    chunk,              \* whose chunk is being dispatched, 0 when none is
    request,            \* history: per request, its seq and the adapter it reached
    outcome,            \* history: per request, the answers its callback was given
    wokenBy,            \* history: per chain, the adapter whose event it received
    up,                 \* the adapters that run and read their input
    reply,              \* per request, how its adapter has answered
    announced,          \* the adapters that announced supportsConfigurationDoneRequest
    sent,               \* the events each adapter has sent
    repeated            \* the adapters that have given an answer again

client  == <<test, life, link, supports, sequence, pendingRequests, at, listeners, timers>>
queue   == <<jobs, chunk>>
history == <<request, outcome, wokenBy>>
adapter == <<up, reply, announced, sent, repeated>>
vars    == <<client, queue, history, adapter>>

NotSent   == [seq |-> 0, to |-> 0]
Reached(c) == request[c].to # 0

-----------------------------------------------------------------------------
(* Sending a request *)

\* A task of its own: no chunk is being dispatched, no continuation is due.
NewTask == jobs = <<>>

\* doSend: the callback is stored, then the request is written.  Without a stream
\* to write to this throws and send() rejects; a stream nobody reads takes it.
doSend(ch, command, rest) ==
    LET c == <<ch[1], command>> IN
    /\ sequence' = sequence + 1
    /\ pendingRequests' = [s \in DOMAIN pendingRequests \cup {sequence} |->
                              IF s = sequence THEN c ELSE pendingRequests[s]]
    /\ request' = [request EXCEPT ![c] = [seq |-> sequence,
                                          to  |-> IF life \in up THEN life ELSE 0]]
    /\ jobs' = IF life = 0 THEN Append(rest, [chain |-> ch, ok |-> FALSE, hops |-> 1])
                           ELSE rest

\* Nothing is sent.
Quiet(rest) == jobs' = rest /\ UNCHANGED <<sequence, pendingRequests, request>>

-----------------------------------------------------------------------------
(* The life cycle *)

\* Only the constructor sets the sequence.
FromOne       == 1
SeqAfterStart == sequence

\* start(), which the test waits for, as it waits for the stop() before it.
\* An adapter that cannot be started is one that exits at once: the promise has
\* been resolved by then.
Start ==
    /\ NewTask
    /\ life < Len(test) /\ link = "none"
    /\ life' = life + 1
    /\ link' = IF test[life'].port THEN "socket" ELSE "process"
    /\ up' = up \cup {life'}
    /\ sequence' = SeqAfterStart
    /\ UNCHANGED <<test, supports, pendingRequests, at, listeners, timers>>
    /\ UNCHANGED <<queue, history, reply, announced, sent, repeated>>

\* stop() begins with a disconnect request; a test may stop an adapter at any time.
Stop ==
    LET ch == <<life, "stop">> IN
    /\ NewTask
    /\ IF life = 0 THEN test = <<>> ELSE "stop" \in test[life].chains
    /\ at[ch] = "idle"
    /\ at' = [at EXCEPT ![ch] = "disconnect"]
    /\ doSend(ch, "disconnect", <<>>)
    /\ UNCHANGED <<test, life, link, supports, listeners, timers, chunk, outcome, wokenBy, adapter>>

\* stopAdapter() kills the process or ends the socket there is now.
stopAdapter ==
    /\ link' = "none"
    /\ up' = IF link = "none" THEN up ELSE up \ {life}

-----------------------------------------------------------------------------
(* The chains *)

EventOf(ch) == IF ch[2] = "stopped" THEN "stopped" ELSE "initialized"

\* The chains a test runs against an adapter: launch() initializes, the others wait
\* for an event.
RunChains(l) == IF l \in 1 .. Len(test) THEN {l} \X (test[l].chains \cap Scenario) ELSE {}
Waits(l)     == {ch \in RunChains(l) : ch[2] # "launch"}

\* Promise.all of the chains.  waitForEvent sets a timer unless there is a socket.
Run ==
    /\ NewTask
    /\ link # "none" /\ at[<<life, "stop">>] = "idle"
    /\ <<life, "launch">> \in RunChains(life) /\ at[<<life, "launch">>] = "idle"
    /\ at' = [ch \in Chains |->
                 IF ch = <<life, "launch">> THEN "initialize"
                 ELSE IF ch \in Waits(life) THEN EventOf(ch) ELSE at[ch]]
    /\ listeners' = listeners \cup Waits(life)
    /\ timers' = IF link = "socket" THEN timers ELSE timers \cup Waits(life)
    /\ doSend(<<life, "launch">>, "initialize", <<>>)
    /\ UNCHANGED <<test, life, link, supports, chunk, outcome, wokenBy, adapter>>

\* A timer of waitForEvent: the promise is rejected, the listener stays.
Timeout(ch) ==
    /\ NewTask
    /\ ch \in timers
    /\ timers' = timers \ {ch}
    /\ at' = [at EXCEPT ![ch] = IF @ = EventOf(ch) THEN "failed" ELSE @]
    /\ UNCHANGED <<test, life, link, supports, sequence, pendingRequests, listeners>>
    /\ UNCHANGED <<queue, history, adapter>>

\* How many jobs a settled promise is away from the continuation: one more when
\* the continuation follows a `then' that returned the promise, or a rejection
\* that passes a `then' on its way to `catch'.
HopsOfAsync(awaited, ok) == 1

Hops(awaited, ok) ==
    CASE awaited \in {"setBreakpoints", "stackTrace"} -> 1
      [] awaited = "disconnect" /\ ~ok                -> 1
      [] OTHER                                        -> 0

Goto(ch, command, rest) ==
    /\ at' = [at EXCEPT ![ch] = command]
    /\ doSend(ch, command, rest)

Ends(ch, how, rest) ==
    /\ at' = [at EXCEPT ![ch] = how]
    /\ Quiet(rest)

AlwaysDone(ch, rest) == Goto(ch, "configurationDone", rest)

\* configurationDone() chooses the request that ends the configuration.
configurationDone(ch, rest) ==
    Goto(ch, IF supports THEN "configurationDone" ELSE "setExceptionBreakpoints", rest)

\* What launch() reads in the response to initialize.
BodySupports(ch) == Last(outcome[<<ch[1], "initialize">>]).from \in announced

\* The continuation of a chain whose promise was fulfilled.
Continue(ch, rest) ==
    \/ /\ at[ch] = "initialized"
       /\ IF test[ch[1]].breakpoint THEN Goto(ch, "setBreakpoints", rest)
                                         ELSE configurationDone(ch, rest)
       /\ UNCHANGED <<link, supports, up>>
    \/ /\ at[ch] = "setBreakpoints"
       /\ configurationDone(ch, rest)
       /\ UNCHANGED <<link, supports, up>>
    \/ /\ at[ch] = "initialize"
       /\ supports' = (supports \/ BodySupports(ch))
       /\ Goto(ch, "launch", rest)
       /\ UNCHANGED <<link, up>>
    \/ /\ at[ch] = "stopped"
       /\ Goto(ch, "stackTrace", rest)
       /\ UNCHANGED <<link, supports, up>>
    \/ /\ at[ch] \in {"configurationDone", "setExceptionBreakpoints", "launch", "stackTrace"}
       /\ Ends(ch, "done", rest)
       /\ UNCHANGED <<link, supports, up>>
    \/ /\ at[ch] \in {"setBreakpoints", "stopped", "stackTrace"}    \* an assertion fails
       /\ Ends(ch, "failed", rest)
       /\ UNCHANGED <<link, supports, up>>
    \/ /\ at[ch] = "disconnect"
       /\ stopAdapter
       /\ Ends(ch, "done", rest)
       /\ UNCHANGED supports

OnlyFails(ch, rest) == Ends(ch, "failed", rest) /\ UNCHANGED <<link, up, supports>>

\* The chain whose promise was rejected: only stop() catches it.
Reject(ch, rest) ==
    /\ IF at[ch] = "disconnect"
         THEN stopAdapter /\ Ends(ch, "done", rest)
         ELSE Ends(ch, "failed", rest) /\ UNCHANGED <<link, up>>
    /\ UNCHANGED supports

RunJob ==
    LET job == Head(jobs) IN
    /\ jobs # <<>>
    /\ chunk' = 0
    /\ IF job.hops > 0
         THEN /\ jobs' = Append(Tail(jobs), [job EXCEPT !.hops = @ - 1])
              /\ UNCHANGED <<client, request, up>>
         ELSE /\ IF job.ok THEN Continue(job.chain, Tail(jobs))
                           ELSE Reject(job.chain, Tail(jobs))
              /\ UNCHANGED <<test, life, listeners, timers>>
    /\ UNCHANGED <<outcome, wokenBy, reply, announced, sent, repeated>>

-----------------------------------------------------------------------------
(* A message of an adapter is dispatched *)

CanDispatch(l) == NewTask \/ chunk = l
InChunk(l)     == chunk' = IF jobs' = <<>> THEN 0 ELSE l

Whole(s)   == pendingRequests
Without(s) == Restrict(pendingRequests, DOMAIN pendingRequests \ {s})

\* An answer: its callback is removed and settles the promise of its request.  An
\* answer without a callback is ignored.
DispatchResponse(c, ok) ==
    LET s    == request[c].seq
        call == pendingRequests[s]
        ch   == <<call[1], ChainOf(call[2])>>
    IN IF s \in DOMAIN pendingRequests
         THEN /\ pendingRequests' = Without(s)
              /\ outcome' = [outcome EXCEPT ![call] =
                               Append(@, [from |-> request[c].to, of |-> c])]
              /\ jobs' = Append(jobs, [chain |-> ch, ok |-> ok, hops |-> Hops(call[2], ok)])
         ELSE UNCHANGED <<pendingRequests, outcome, jobs>>

StillWaits(ch, event) == at[ch] = event

\* Listeners are called in the order in which they were registered: that of the runs.
InOrder(waiting) ==
    {w \in UNION {[1 .. n -> waiting] : n \in 0 .. MaxStarts} :
       /\ Range(w) = waiting
       /\ \A i, j \in DOMAIN w : i < j => w[i][1] < w[j][1]}

\* An event: every listener for it is taken off, its timer cleared and its promise
\* resolved, which means something only to a chain that still waits.
DispatchEvent(l, event) ==
    LET heard   == {ch \in listeners : EventOf(ch) = event}
        waiting == {ch \in heard : StillWaits(ch, event)}
    IN /\ listeners' = listeners \ heard
       /\ timers' = timers \ heard
       /\ wokenBy' = [ch \in Chains |-> IF ch \in waiting THEN l ELSE wokenBy[ch]]
       /\ \E w \in InOrder(waiting) :
            jobs' = jobs \o [i \in DOMAIN w |-> [chain |-> w[i], ok |-> TRUE, hops |-> 0]]

-----------------------------------------------------------------------------
(* The adapters *)

\* The adapter answers a request it has read.
Answer(c, ok) ==
    LET l == request[c].to IN
    /\ Reached(c)
    /\ CanDispatch(l)
    /\ reply[c] = "none"
    /\ reply' = [reply EXCEPT ![c] = IF ok THEN "ok" ELSE "failed"]
    /\ \/ ok /\ c[2] = "initialize" /\ announced' = announced \cup {l}
       \/ UNCHANGED announced
    /\ DispatchResponse(c, ok)
    /\ InChunk(l)
    /\ UNCHANGED <<test, life, link, supports, sequence, at, listeners, timers>>
    /\ UNCHANGED <<request, wokenBy, up, sent, repeated>>

AnswerAgain(c) ==
    LET l == request[c].to IN
    /\ Reached(c) /\ reply[c] # "none"
    /\ "repeats" \in test[l].faults /\ l \notin repeated
    /\ CanDispatch(l)
    /\ repeated' = repeated \cup {l}
    /\ DispatchResponse(c, reply[c] = "ok")
    /\ InChunk(l)
    /\ UNCHANGED <<test, life, link, supports, sequence, at, listeners, timers>>
    /\ UNCHANGED <<request, wokenBy, up, reply, announced, sent>>

AnsweredOk(l, commands) ==
    \E c \in Calls : c[2] \in commands /\ request[c].to = l /\ reply[c] = "ok"

\* The configuration of an adapter ends with configurationDone if it announced it,
\* else with setExceptionBreakpoints (debugProtocol.json:178).
Configured(l) ==
    AnsweredOk(l, IF l \in announced THEN {"configurationDone"} ELSE {"setExceptionBreakpoints"})

MaySendEvent(l, event) ==
    IF event = "initialized" THEN AnsweredOk(l, {"initialize"})
                             ELSE AnsweredOk(l, {"launch"}) /\ Configured(l)

SendEvent(l, event) ==
    /\ CanDispatch(l)
    /\ event \notin sent[l] /\ MaySendEvent(l, event)
    /\ sent' = [sent EXCEPT ![l] = @ \cup {event}]
    /\ DispatchEvent(l, event)
    /\ InChunk(l)
    /\ UNCHANGED <<test, life, link, supports, sequence, pendingRequests, at>>
    /\ UNCHANGED <<request, outcome, up, reply, announced, repeated>>

\* An adapter exits; nobody in the client takes notice.
Exit(l) ==
    /\ l \in up
    /\ "exits" \in test[l].faults
    /\ up' = up \ {l}
    /\ UNCHANGED <<client, queue, history, reply, announced, sent, repeated>>

-----------------------------------------------------------------------------
Init ==
    /\ test \in Tests
    /\ life = 0 /\ link = "none" /\ supports = FALSE
    /\ sequence = 1 /\ pendingRequests = <<>>
    /\ at = [ch \in Chains |-> "idle"]
    /\ listeners = {} /\ timers = {}
    /\ jobs = <<>> /\ chunk = 0
    /\ request = [c \in Calls |-> NotSent]
    /\ outcome = [c \in Calls |-> <<>>]
    /\ wokenBy = [ch \in Chains |-> 0]
    /\ up = {} /\ announced = {} /\ repeated = {}
    /\ reply = [c \in Calls |-> "none"]
    /\ sent = [l \in Lives |-> {}]

Next ==
    \/ Start
    \/ Stop
    \/ Run
    \/ RunJob
    \/ \E ch \in Chains : Timeout(ch)
    \/ \E c \in Calls, ok \in BOOLEAN : Answer(c, ok)
    \/ \E c \in Calls : AnswerAgain(c)
    \/ \E l \in Lives, event \in Events : SendEvent(l, event)
    \/ \E l \in Lives : Exit(l)

SafeSpec == Init /\ [][Next]_vars

AdapterWorks ==
    \E l \in up :
      \/ \E c \in Calls, ok \in BOOLEAN : request[c].to = l /\ Answer(c, ok)
      \/ \E event \in Events : SendEvent(l, event)

\* The event loop serves continuations and timers; an adapter that runs answers
\* what it reads and sends its events.  Each of these can happen only so often that
\* fairness of the three disjunctions is fairness of each of their steps.
Spec ==
    /\ SafeSpec
    /\ WF_vars(RunJob)
    /\ WF_vars(\E ch \in Chains : Timeout(ch))
    /\ WF_vars(AdapterWorks)

-----------------------------------------------------------------------------
Awaited == Events \cup Commands

\* A chain waits for its own events and for the answers to its own requests.
Fits(ch) ==
    /\ at[ch] \in Events => ch[2] \in {"configuration", "stopped"} /\ at[ch] = EventOf(ch)
    /\ at[ch] \in Commands => ChainOf(at[ch]) = ch[2]

\* Types of the state.
ClientTypeOK ==
    /\ test \in Tests /\ life \in 0 .. Len(test)
    /\ link \in {"none", "process", "socket"} /\ supports \in BOOLEAN
    /\ sequence \in Nat \ {0} /\ DOMAIN pendingRequests \subseteq 1 .. sequence - 1
    /\ at \in [Chains -> Awaited \cup {"idle", "done", "failed"}]
    /\ \A ch \in Chains : Fits(ch)
    /\ listeners \cup timers \subseteq Chains
    /\ jobs \in Seq([chain : Chains, ok : BOOLEAN, hops : 0 .. 1]) /\ chunk \in 0 .. life
    /\ request \in [Calls -> [seq : Nat, to : 0 .. life]]
    /\ outcome \in [Calls -> Seq([from : Lives, of : Calls])]
    /\ wokenBy \in [Chains -> 0 .. life]
    /\ up \cup announced \cup repeated \subseteq 1 .. life
    /\ reply \in [Calls -> {"none", "ok", "failed"}]
    /\ sent \in [Lives -> SUBSET Events]

\* No two requests have the same seq.
Numbered ==
    \A c \in Calls :
      /\ request[c].seq < sequence
      /\ \A d \in Calls : request[c].seq = request[d].seq => c = d \/ request[c].seq = 0

\* The callbacks in the map are those of the requests that have no answer yet, each
\* under the seq it was sent with (protocolClient.ts:97, 146-149).
PendingIsOpen ==
    /\ \A s \in DOMAIN pendingRequests :
         LET c == pendingRequests[s] IN
         c \in Calls /\ request[c].seq = s /\ outcome[c] = <<>>
    /\ \A c \in Calls :
         request[c].seq # 0 /\ outcome[c] = <<>> => request[c].seq \in DOMAIN pendingRequests

\* The requests a chain has not come to.
Ahead(ch) ==
    {command \in Commands :
       /\ ChainOf(command) = ch[2]
       /\ \/ at[ch] \in {"idle"} \cup Events
          \/ at[ch] = "initialize" /\ command = "launch"
          \/ at[ch] = "setBreakpoints" /\ command # "setBreakpoints"}

AheadIsFresh ==
    \A ch \in Chains : \A command \in Ahead(ch) :
      LET c == <<ch[1], command>> IN
      c \in Calls => request[c].seq = 0 /\ outcome[c] = <<>>

\* The chains of a run begin together, and none that has not begun continues.
BegunTogether ==
    /\ \A l \in Lives : at[<<l, "launch">>] = "idle" =>
         \A s \in Scenario : at[<<l, s>>] = "idle"
    /\ \A i \in DOMAIN jobs : at[jobs[i].chain] # "idle"

\* The inductive invariant: every request is made once, under a seq of its own.
ClientIInv ==
    ClientTypeOK /\ Numbered /\ PendingIsOpen /\ AheadIsFresh /\ BegunTogether

-----------------------------------------------------------------------------
JobsOf(ch)   == {i \in DOMAIN jobs : jobs[i].chain = ch}
CallChain(c) == <<c[1], ChainOf(c[2])>>

\* A chain waits for one thing: an event, an answer or its continuation.
WaitsOnce ==
    /\ \A i, j \in DOMAIN jobs : jobs[i].chain = jobs[j].chain => i = j
    /\ \A s \in DOMAIN pendingRequests :
         LET c == pendingRequests[s] IN
         Reached(c) => at[CallChain(c)] = c[2] /\ JobsOf(CallChain(c)) = {}
    /\ \A ch \in listeners :
         /\ ch[2] \in {"configuration", "stopped"}
         /\ at[ch] \in {EventOf(ch), "failed"}
         /\ JobsOf(ch) = {}

\* The adapter of run l has announced the request, and launch() is about to read it:
\* before a configuration that this adapter started goes on.
AboutToRead(l) ==
    \E i \in JobsOf(<<l, "launch">>) :
      /\ jobs[i].ok /\ jobs[i].hops = 0
      /\ at[<<l, "launch">>] = "initialize"
      /\ Last(outcome[<<l, "initialize">>]).from = l
      /\ wokenBy[<<l, "configuration">>] = l =>
           \A j \in JobsOf(<<l, "configuration">>) : i < j

Announcements ==
    /\ \A c \in Calls : request[c].seq = 0 => request[c].to = 0
    /\ supports => announced # {}
    /\ \A l \in Lives :
         /\ request[<<l, "initialize">>].to \in {0, l}
         /\ reply[<<l, "initialize">>] = "none" =>
              /\ outcome[<<l, "initialize">>] = <<>>
              /\ l \notin announced
              /\ wokenBy[<<l, "configuration">>] # l
         /\ l \in announced /\ ~ supports => AboutToRead(l)

\* The configuration of an adapter ends the way the adapter announced, even when
\* 'initialized' comes in the chunk of the response that announces it
\* (debugClient.ts:347-361).  What an earlier adapter announced is kept, and an
\* event of an earlier adapter can start the configuration too soon: no more is
\* promised then.
ConfiguredAsAnnounced ==
    \A l \in Lives :
      /\ request[<<l, "configurationDone">>].to = l => \E k \in 1 .. l : k \in announced
      /\ request[<<l, "setExceptionBreakpoints">>].to = l =>
           l \notin announced \/ wokenBy[<<l, "configuration">>] # l

\* The inductive invariant behind ConfiguredAsAnnounced.
OrderIInv == WaitsOnce /\ Announcements /\ ConfiguredAsAnnounced

\* An answer settles the request it answers, also when it comes from an adapter
\* that was replaced by another one: seq goes on across start() (protocolClient.ts:23,
\* 89; debugClient.ts:88).
OwnAnswers == \A c \in Calls : \A i \in DOMAIN outcome[c] : outcome[c][i].of = c

\* A request's promise is settled at most once and only if the request was made
\* (protocolClient.ts:74-81, 146-149).
Promise == INSTANCE RequestReply WITH
    Ids     <- Calls,
    asked   <- {c \in Calls : request[c].seq # 0},
    outcome <- [c \in Calls |-> [i \in DOMAIN outcome[c] |-> "response"]]

PromiseSafe == Promise!SafeSpec

\* Promise.all settles: a chain failed or all are done.
Settled(l) ==
    \/ \E ch \in RunChains(l) : at[ch] = "failed"
    \/ \A ch \in RunChains(l) : at[ch] = "done"

\* The adapter is told by the client to be one it is not: see ConfiguredAsAnnounced.
Misled(l) ==
    \/ l \notin announced /\ \E k \in 1 .. l - 1 : k \in announced
    \/ \E ch \in RunChains(l) : wokenBy[ch] \notin {0, l}

\* A chain waits for what cannot come: waitForEvent has no timer in server mode, and
\* a request has none at all.
Forsaken(l) ==
    /\ l \notin up
    /\ \E ch \in RunChains(l) :
         at[ch] \in (IF test[l].port THEN Awaited ELSE Commands)

\* A scenario always settles: its listeners are there before the events come, and
\* what it waits for comes or times out.  Only an adapter that is gone can keep it
\* waiting, for an answer or, in server mode, for an event (debugClient.ts:312-328,
\* 460-492).
ScenarioSettles ==
    \A l \in Lives :
      life = l /\ at[<<l, "launch">>] = "initialize" ~>
        Settled(l) \/ Misled(l) \/ Forsaken(l)

\* stop() leaves no adapter running, whether the adapter grants or refuses to
\* disconnect, and it settles when there was none (debugClient.ts:124-142).
StopReleases ==
    \A l \in {0} \cup Lives :
      at[<<l, "stop">>] = "disconnect" ~> l \notin up /\ (l = 0 => at[<<l, "stop">>] = "done")
=============================================================================
