------------------------------- MODULE Logger -------------------------------
(***************************************************************************)
(* The global logger of src/adapter/src/logger.ts, the InternalLogger that *)
(* it makes for each session (internalLogger.ts), and the                  *)
(* LoggingDebugSessions that log their traffic through it                  *)
(* (loggingDebugSession.ts).  A process in server mode has several         *)
(* sessions and one logger.                                                *)
(*                                                                         *)
(* InternalLogger.setup awaits mkdir, and Logger.setup goes on, with       *)
(* clearing its queue, in a promise callback.  Between the parts anything  *)
(* may log, set up again, dispose or start a session.  A promise callback  *)
(* that is due runs before the next task: Start, MkdirDone, BeforeExit and *)
(* Signal are tasks, the others may also run in a promise callback.        *)
(*                                                                         *)
(* A line that is logged is a number, in the order of the calls, with its  *)
(* level.  Its text, the time stamp, the console and the truncation of     *)
(* long lines are left out.                                                *)
(***************************************************************************)
EXTENDS Naturals, Sequences, FiniteSets, SequencesExt, Functions, TLC

CONSTANTS
    Sessions,       \* the LoggingDebugSessions of the process
    LogLevels,      \* the levels of the lines logged other than for sending
    SetupLevels,    \* the levels that setup is called with
    MaxLogged,      \* bound on the lines that are logged
    MaxSetups       \* bound on the calls of setup

CONSTANT NoSession

Verbose == 0
Warn    == 2
Error   == 3
Stop    == 4

ASSUME LoggerAssumption ==
    /\ NoSession \notin Sessions
    /\ LogLevels \subseteq Verbose..Error
    /\ SetupLevels \subseteq Verbose..Stop
    /\ MaxLogged \in Nat /\ MaxSetups \in Nat

VARIABLES
    queueing,       \* _pendingLogQ is a queue, not null
    pendingLogQ,    \* the lines in it
    current,        \* the session whose InternalLogger is _currentLogger
    minLogLevel,    \* _minLogLevel of each InternalLogger
    stream,         \* _logFileStream of each: the number of its file, or 0
    files,          \* the lines written to each log file
    listeners,      \* the InternalLoggers registered with the process, in order
    opening,        \* how many setups of each InternalLogger await mkdir
    settled,        \* how many promise callbacks of Logger.setup are due
    exited,         \* the process has ended
    out,            \* history: what each session has sent to its client
    started,        \* history: the sessions that were started
    logged,         \* history: the levels of the lines logged so far
    asked,          \* history: who called setup, with which level
    disposed,       \* history: dispose has been called
    ended,          \* history: the files whose stream was ended
    replaced        \* history: the files whose stream gave way to another, not ended

vars == <<queueing, pendingLogQ, current, minLogLevel, stream, files, listeners,
          opening, settled, exited, out, started, logged, asked, disposed, ended, replaced>>
setupVars == <<opening, settled, asked>>
fates     == <<ended, replaced>>

\* A line of the logger's own (number 0), and the next line that is logged.
Own(level)  == [kind |-> "line", n |-> 0, level |-> level]
Line(level) == [kind |-> "line", n |-> Len(logged) + 1, level |-> level]
\* Any other message of the session: the first is its initialize response.
Message     == [kind |-> "message", n |-> 0, level |-> 0]

Lines == [kind : {"line"}, n : 0..MaxLogged, level : Verbose..Error]

LoggerTypeOK ==
    /\ queueing \in BOOLEAN /\ pendingLogQ \in Seq(Lines)
    /\ ~queueing => pendingLogQ = <<>>
    /\ current \in Sessions \cup {NoSession}
    /\ minLogLevel \in [Sessions -> Verbose..Stop]
    /\ files \in Seq(Seq(Lines)) /\ stream \in [Sessions -> 0..Len(files)]
    /\ listeners \in Seq(Sessions)
    /\ opening \in [Sessions -> 0..Len(asked)] /\ settled \in Nat
    /\ exited \in BOOLEAN /\ disposed \in BOOLEAN
    /\ out \in [Sessions -> Seq(Lines \cup {Message})]
    /\ started \subseteq Sessions
    /\ logged \in Seq(LogLevels \cup {Verbose}) /\ Len(logged) <= MaxLogged
    /\ asked \in Seq([by : Sessions, level : SetupLevels]) /\ Len(asked) <= MaxSetups
    /\ ended \subseteq Nat /\ replaced \subseteq Nat

Running == ~exited
\* No promise callback is due: the next task may begin.
Idle == Running /\ settled = 0

-----------------------------------------------------------------------------
(* InternalLogger *)

\* Whether InternalLogger.log hands a line to the callback at a level.
Passes(line, min) == min # Stop /\ line.level >= min

\* What it hands over of several lines.
Shown(lines, min) ==
    LET shown[i \in 0 .. Len(lines)] ==
            IF i = 0 THEN <<>>
            ELSE IF Passes(lines[i], min) THEN Append(shown[i - 1], lines[i])
                                          ELSE shown[i - 1]
    IN  shown[Len(lines)]

\* What InternalLogger.log makes of the files.
Filed(l, lines, min) ==
    IF min = Stop \/ stream[l] = 0 THEN files
    ELSE [files EXCEPT ![stream[l]] = @ \o lines]

\* InternalLogger.log of several lines.
InternalLog(l, lines, min) ==
    /\ out' = [out EXCEPT ![l] = @ \o Shown(lines, min)]
    /\ files' = Filed(l, lines, min)

\* The log file that an InternalLogger has, if it has one.
File(l) == {stream[l]} \ {0}

\* removeListener takes away the registration that was made last, if there is one.
Unregister(l) ==
    LET registrations == {i \in DOMAIN listeners : listeners[i] = l}
    IN  \/ registrations = {} /\ UNCHANGED listeners
        \/ \E last \in registrations :
              /\ \A i \in registrations : i <= last
              /\ listeners' = RemoveAt(listeners, last)

InternalDispose(l) ==
    /\ Unregister(l)
    /\ stream' = [stream EXCEPT ![l] = 0]
    /\ ended' = ended \cup File(l)
    /\ UNCHANGED replaced

\* A plausible bug: a logger that was disposed while it made the directory is not
\* registered any more.
RegisteredIfCurrent(l) == IF l = current THEN Append(listeners, l) ELSE listeners
\* setupShutdownListeners registers a logger as often as it is called.
Registered(l) == Append(listeners, l)

\* A plausible bug: an error of mkdir rejects the promise of setup.
SettlesIfDone(done) == IF done THEN settled + 1 ELSE settled
Settles(done) == settled + 1

\* The rest of InternalLogger.setup, when mkdir is done or has failed.  A
\* failure is sent to the client whatever the level.
MkdirDone(l, done) ==
    /\ Idle /\ opening[l] > 0
    /\ opening' = [opening EXCEPT ![l] = @ - 1]
    /\ settled' = Settles(done)
    /\ IF done
       THEN LET announced == <<Own(Warn), Own(Warn)>>
                opened    == <<Own(Verbose)>>
                min       == minLogLevel[l]
            IN  /\ out' = [out EXCEPT ![l] = @ \o Shown(announced \o opened, min)]
                /\ files' = Append(Filed(l, announced, min),
                                   IF min = Stop THEN <<>> ELSE opened)
                /\ stream' = [stream EXCEPT ![l] = Len(files) + 1]
                /\ replaced' = replaced \cup File(l)
                /\ listeners' = Registered(l)
       ELSE /\ out' = [out EXCEPT ![l] = Append(@, Own(Error))]
            /\ UNCHANGED <<files, stream, replaced, listeners>>
    /\ UNCHANGED <<queueing, pendingLogQ, current, minLogLevel, exited, started,
                   logged, asked, disposed, ended>>

-----------------------------------------------------------------------------
(* Logger *)

\* A plausible bug: the two conditions of _write in the other order.
QueuesWithoutLogger == queueing /\ current = NoSession
Queues == queueing

\* Logger._write of one line; sent is what its caller sends after it.
_write(s, line, sent) ==
    LET direct == ~Queues /\ current # NoSession
        shown(m) == IF direct /\ m = current THEN Shown(<<line>>, minLogLevel[m])
                                             ELSE <<>>
    IN  /\ Running /\ Len(logged) < MaxLogged
        /\ logged' = Append(logged, line.level)
        /\ pendingLogQ' = IF Queues THEN Append(pendingLogQ, line) ELSE pendingLogQ
        /\ files' = IF direct THEN Filed(current, <<line>>, minLogLevel[current])
                              ELSE files
        /\ out' = [m \in Sessions |->
                      out[m] \o shown(m) \o (IF m = s THEN sent ELSE <<>>)]
        /\ UNCHANGED <<queueing, current, minLogLevel, stream, listeners, setupVars,
                       exited, started, disposed, fates>>

\* A line that anything in the process logs: the adapter's own code, an 'error'
\* event of a session, or dispatchRequest.
Log(level) == _write(NoSession, Line(level), <<>>)

\* sendEvent, sendRequest and sendResponse of a session log, then send.
Send(s) == _write(s, Line(Verbose), <<Message>>)

\* Logger.init, when a session is started.
\* A plausible bug: a new logger starts with an empty queue.
EmptyQueue == <<>>
QueueOfInit == pendingLogQ

\* A session is started once, before it sends anything; one that sends without
\* having been started has an inline host.
Start(s) ==
    /\ Idle /\ s \notin started /\ out[s] = <<>>
    /\ started' = started \cup {s}
    /\ queueing' = TRUE
    /\ pendingLogQ' = QueueOfInit
    /\ current' = s
    /\ UNCHANGED <<minLogLevel, stream, files, listeners, setupVars, exited, out,
                   logged, disposed, fates>>

\* A plausible bug: Logger.setup does not wait for the logger's setup.
NeverAwaits(path) == FALSE
Awaits(path) == path = "absolute"

\* Logger.setup, called by session s, for the InternalLogger there is.  A relative
\* path is an error; an absolute one has its directory made first.
Setup(s, level, path) ==
    /\ Running /\ s \in started /\ Len(asked) < MaxSetups
    /\ asked' = Append(asked, [by |-> s, level |-> level])
    /\ IF current = NoSession
       THEN UNCHANGED <<minLogLevel, opening, settled, out, files>>
       ELSE /\ minLogLevel' = [minLogLevel EXCEPT ![current] = level]
            /\ opening' = [opening EXCEPT ![current] =
                               IF path = "absolute" THEN @ + 1 ELSE @]
            /\ settled' = IF Awaits(path) THEN settled ELSE settled + 1
            /\ InternalLog(current, IF path = "relative" THEN <<Own(Error)>> ELSE <<>>,
                           level)
    /\ UNCHANGED <<queueing, pendingLogQ, current, stream, listeners, exited, started,
                   logged, disposed, fates>>

\* A plausible bug: the queue is written and not emptied.
KeptQueue == pendingLogQ
NoQueue == <<>>

\* The promise callback of Logger.setup writes the queue to whichever logger is
\* the current one by now, or drops it.
Flush ==
    /\ Running /\ settled > 0
    /\ settled' = settled - 1
    /\ queueing' = FALSE
    /\ pendingLogQ' = NoQueue
    /\ IF queueing /\ current # NoSession
       THEN InternalLog(current, pendingLogQ, minLogLevel[current])
       ELSE UNCHANGED <<out, files>>
    /\ UNCHANGED <<current, minLogLevel, stream, listeners, opening, exited, started,
                   logged, asked, disposed, fates>>

Dispose ==
    /\ Running /\ current # NoSession
    /\ InternalDispose(current)
    /\ current' = NoSession
    /\ disposed' = TRUE
    /\ UNCHANGED <<queueing, pendingLogQ, minLogLevel, files, setupVars, exited, out,
                   started, logged>>

-----------------------------------------------------------------------------
(* The process *)

\* The event loop is empty: each registered logger disposes itself, once for each
\* time it is registered, and the process ends.
BeforeExit ==
    /\ Idle /\ listeners # <<>> /\ \A l \in Sessions : opening[l] = 0
    /\ listeners' = <<>>
    /\ stream' = [l \in Sessions |-> IF l \in Range(listeners) THEN 0 ELSE stream[l]]
    /\ ended' = ended \cup UNION {File(l) : l \in Range(listeners)}
    /\ exited' = TRUE
    /\ UNCHANGED <<queueing, pendingLogQ, current, minLogLevel, files, setupVars, out,
                   started, logged, disposed, replaced>>

\* SIGTERM or SIGINT: the logger registered first disposes itself and exits.
Signal ==
    /\ Idle /\ listeners # <<>>
    /\ InternalDispose(Head(listeners))
    /\ exited' = TRUE
    /\ UNCHANGED <<queueing, pendingLogQ, current, minLogLevel, files, setupVars, out,
                   started, logged, disposed>>

Init ==
    /\ queueing = TRUE /\ pendingLogQ = <<>> /\ ended = {} /\ replaced = {}
    /\ current = NoSession
    /\ minLogLevel = [l \in Sessions |-> Warn]
    /\ stream = [l \in Sessions |-> 0]
    /\ files = <<>> /\ listeners = <<>>
    /\ opening = [l \in Sessions |-> 0] /\ settled = 0
    /\ exited = FALSE /\ disposed = FALSE
    /\ out = [l \in Sessions |-> <<>>]
    /\ started = {} /\ logged = <<>> /\ asked = <<>>

Next ==
    \/ \E level \in LogLevels : Log(level)
    \/ \E s \in Sessions : Send(s) \/ Start(s)
    \/ \E s \in Sessions, level \in SetupLevels, path \in {"none", "absolute", "relative"} :
          Setup(s, level, path)
    \/ \E l \in Sessions, done \in BOOLEAN : MkdirDone(l, done)
    \/ Flush \/ Dispose \/ BeforeExit \/ Signal

SafeSpec == Init /\ [][Next]_vars

\* Promise callbacks run, and mkdir ends one way or the other.
Spec == /\ SafeSpec
        /\ WF_vars(Flush)
        /\ \A l \in Sessions : WF_vars(\E done \in BOOLEAN : MkdirDone(l, done))

-----------------------------------------------------------------------------
(* Properties *)

Levels == {asked[i].level : i \in DOMAIN asked}

\* The lines logged by a call of log, which are numbered, keep their order.
Ordered(lines) ==
    \A i, j \in DOMAIN lines :
        i < j /\ lines[i].n > 0 /\ lines[j].n > 0 => lines[i].n < lines[j].n

\* What a client is shown of the log is in the order in which it was logged, also
\* when lines were queued before a setup, during its mkdir, or across the start
\* of another session.
InOrder == \A s \in Sessions : Ordered(out[s])

Held(lines) == {lines[i].n : i \in DOMAIN lines} \ {0}

\* A log file has no gaps: it holds, in order, every line from its first one to its
\* last, those that were waiting for setup included.  With one setup its first line
\* is the first one logged in the process.  A logger set to Stop writes nothing.
FileComplete ==
    Stop \notin Levels =>
        \A f \in DOMAIN files :
            LET held == Held(files[f])
            IN  /\ Ordered(files[f])
                /\ \A m, n \in held : m..n \subseteq held
                /\ Len(asked) = 1 /\ held # {} => 1 \in held

\* Where a line is: at which positions of what a client was sent, or of the queue.
Sent(m) == IF m = NoSession THEN pendingLogQ ELSE out[m]
Places(n) ==
    {place \in UNION {{m} \X DOMAIN Sent(m) : m \in Sessions \cup {NoSession}} :
        Sent(place[1])[place[2]].n = n}

\* Errors reach exactly one client, once, or wait in the queue, as long as nobody
\* disposes the logger or stops it: the queue of one session is handed to the next.
ErrorsArriveOnce ==
    ~disposed /\ Stop \notin Levels =>
        \A n \in DOMAIN logged : logged[n] = Error => Cardinality(Places(n)) = 1

\* The process ends this file when it runs out of work: a logger that is registered
\* with it writes to the file.
Watched(f) == \E l \in Sessions : stream[l] = f /\ l \in Range(listeners)

\* No log file is forgotten, whatever starts, setups and disposals come between the
\* parts of its setup: its stream was ended, or a logger that the process will
\* dispose writes to it, or it has been replaced by a later file of its logger, which
\* nobody ends (internalLogger.ts:68).  So beforeExit leaves no other open; a signal,
\* which disposes one logger only, leaves those of the others
\* (internalLogger.ts:25-26, 40-49, 66-76, 88-110).
NoFileForgotten == \A f \in DOMAIN files : Watched(f) \/ f \in ended \cup replaced

\* Once setup is called the queue is emptied, whether or not the log file can be
\* made, and although setups overlap.
PendingFlushed ==
    (queueing /\ (settled > 0 \/ \E l \in Sessions : opening[l] > 0)) ~> (~queueing \/ exited)

\* debugProtocol.json:925 of the time before the answer to initialize: "the debug
\* adapter is not allowed to send any requests or events to the client".  A session
\* that has not called setup, which may show lines before, sends no line of the log
\* ahead of its first message.
NoLineBeforeInitialize ==
    \A s \in Sessions \ {asked[i].by : i \in DOMAIN asked} :
        out[s] # <<>> => out[s][1] = Message

-----------------------------------------------------------------------------
(* The inductive invariant of the log *)

\* The lines before those that wait in the queue: handed on, or dropped.
gone == Len(logged) - Len(pendingLogQ)

\* The queue holds the lines logged last, in order.
QueueIsLast ==
    /\ Len(pendingLogQ) <= Len(logged)
    /\ \A i \in DOMAIN pendingLogQ :
          pendingLogQ[i].n = gone + i /\ pendingLogQ[i].level = logged[gone + i]

\* What clients and files have is in order, and older than what waits.
UpTo(lines, last) == Ordered(lines) /\ \A i \in DOMAIN lines : lines[i].n <= last
OlderThanQueue ==
    /\ \A s \in Sessions : UpTo(out[s], gone)
    /\ \A f \in DOMAIN files : UpTo(files[f], gone)

\* A session has a part in the log only when it was started, and the last one that was
\* has it until the logger is disposed.
StartedFirst ==
    /\ current \in started \cup {NoSession}
    /\ \A l \in Sessions : opening[l] > 0 \/ stream[l] # 0 => l \in started
    /\ started = {} => queueing /\ settled = 0
    /\ ~disposed /\ started # {} => current # NoSession

StoppedBySetup == \A l \in Sessions : minLogLevel[l] = Stop => Stop \in Levels

\* Files have no gaps, and the one that is written to can go on without one: it has
\* no line yet, or the queue has been written and the last line is in it.
FilesGoOn ==
    Stop \notin Levels =>
        /\ \A f \in DOMAIN files :
              LET held == Held(files[f]) IN \A m, n \in held : m..n \subseteq held
        /\ current # NoSession /\ stream[current] # 0 =>
              LET held == Held(files[stream[current]])
              IN  held # {} => ~queueing /\ gone \in held

\* One setup at most is under way: it waits for mkdir, or its callback is due.
OneSetup ==
    /\ \A l, m \in Sessions : opening[l] > 0 /\ opening[m] > 0 => l = m
    /\ \A l \in Sessions :
          opening[l] > 0 => opening[l] = 1 /\ settled = 0 /\ Len(asked) = 1
    /\ settled <= Len(asked)

\* Until the only setup is through everything waits, and no file has a line.  From
\* then on what files have begins with the first line.
FirstSetup ==
    Stop \notin Levels /\ Len(asked) <= 1 =>
        \/ /\ queueing /\ gone = 0 /\ OneSetup
           /\ \A f \in DOMAIN files : Held(files[f]) = {}
        \/ /\ Len(asked) = 1 /\ settled = 0 /\ \A l \in Sessions : opening[l] = 0
           /\ \A f \in DOMAIN files : Held(files[f]) # {} => 1 \in Held(files[f])
           /\ current # NoSession /\ stream[current] # 0 =>
                 ~queueing /\ (logged # <<>> => 1 \in Held(files[stream[current]]))

\* The line has been sent to one client, once.
SentOnce(n) ==
    \E m \in Sessions : \E i \in DOMAIN out[m] :
        /\ out[m][i].n = n
        /\ \A k \in Sessions : \A j \in DOMAIN out[k] : out[k][j].n = n => k = m /\ j = i

ErrorsSent ==
    ~disposed /\ Stop \notin Levels =>
        \A n \in 1..gone : logged[n] = Error => SentOnce(n)

LoggerIInv ==
    /\ LoggerTypeOK /\ QueueIsLast /\ OlderThanQueue /\ StartedFirst /\ StoppedBySetup
    /\ FilesGoOn /\ FirstSetup /\ ErrorsSent
=============================================================================
