---------------------------- MODULE DebugSession ----------------------------
(***************************************************************************)
(* DebugSession (adapter/src/debugSession.ts), which extends               *)
(* ProtocolServer: how requests are dispatched to handlers, how every one  *)
(* of them is answered through its one Response object, and how a session  *)
(* ends its process.                                                       *)
(*                                                                         *)
(* The default handlers are modelled as the class has them.  A handler     *)
(* that a subclass brings (`Own') may do anything the class lets it do:    *)
(* answer now, later, twice or never, send other messages, throw.  While   *)
(* it runs there is a frame for it on the stack of ProtocolServer.         *)
(*                                                                         *)
(* A request and its Response object have the same name: dispatchRequest   *)
(* makes one object for each request.                                      *)
(***************************************************************************)
EXTENDS ProtocolServer

CONSTANTS
    Command,        \* the command of each request
    Args,           \* the arguments of each initialize request
    Own,            \* the requests whose handler is the subclass's own
    IsServer        \* _isServer

Commands == {"initialize", "disconnect", "unknown", "other"}

\* pathFormat "none" stands for a request without arguments; lines and columns
\* are the values given for linesStartAt1 and columnsStartAt1, if any.
ASSUME SessionAssumption ==
    /\ Command \in [Responses -> Commands]
    /\ Args \in [Responses -> [pathFormat : {"path", "uri", "omitted", "none"},
                               lines : SUBSET BOOLEAN, columns : SUBSET BOOLEAN]]
    /\ Own \subseteq Responses
    /\ IsServer \in BOOLEAN

VARIABLES
    arrived,        \* the requests dispatched
    success,        \* the success field of each response object
    client,         \* _clientLinesStartAt1 and _clientColumnsStartAt1
    causes,         \* history: what has called shutdown()
    exitTimer,      \* shutdown() has started its timer
    exited,         \* process.exit has been called
    thrown,         \* history: the requests whose handler has thrown
    unwritable      \* history: the responses that could not be written as JSON

ending      == <<causes, exitTimer, exited>>
session     == <<arrived, success, client, ending, thrown, unwritable>>
sessionVars == <<vars, session>>

-----------------------------------------------------------------------------
(* Ending the process *)

\* shutdown(): ignored by a server and by a session that runs inline.
Shutdown(cause) ==
    /\ causes' = causes \cup {cause}
    /\ exitTimer' = (exitTimer \/ ~(IsServer \/ listener))

\* The input stream closes or fails, a message on it is malformed, or a callback
\* throws while it is handled: all of these emit an event that shuts down.
InputEvent(cause) ==
    /\ ~exited
    /\ Idle /\ writable # "none"
    /\ Shutdown(cause)
    /\ UNCHANGED <<vars, arrived, success, client, exited, thrown, unwritable>>

\* SIGTERM reaches a session that runDebugAdapter has started on stdin and stdout.
Sigterm ==
    /\ ~IsServer
    /\ InputEvent("SIGTERM")

WriteError ==
    /\ ~exited
    /\ EmitWriteError
    /\ Shutdown("error")
    /\ UNCHANGED <<arrived, success, client, exited, thrown, unwritable>>

Anytime == TRUE

ExitIsDue == exitTimer

Exit ==
    /\ ~exited
    /\ Idle
    /\ ExitIsDue
    /\ exited' = TRUE
    /\ UNCHANGED <<vars, arrived, success, client, causes, exitTimer, thrown, unwritable>>

-----------------------------------------------------------------------------
(* Answering *)

\* sendErrorResponse: the object becomes a failure first, ...
Fail(r) == success' = [success EXCEPT ![r] = FALSE]

\* ... and is sent if it has not been.
SendingError(callers, r, then) ==
    /\ Fail(r)
    /\ IF MaySend(r)
         THEN SendingResponse(callers, r, then)
         ELSE /\ stack' = callers
              /\ UNCHANGED <<sequence, writeFailed, responseSeq, wire, heard>>

\* Which requests a subclass may answer: those it was given, from its handler or
\* from a task of its own.
Answerable(r) == r \in arrived \cap Own

RespondOwn(r) ==
    /\ ~exited
    /\ Answerable(r)
    /\ \/ SendResponse(r) /\ UNCHANGED unwritable
       \/ SendResponseThrows(r) /\ unwritable' = unwritable \cup {r}
    /\ UNCHANGED <<arrived, success, client, ending, thrown>>

ErrorOwn(r) ==
    /\ ~exited
    /\ UserCode
    /\ Answerable(r)
    /\ SendingError(stack, r, "nothing")
    /\ UNCHANGED <<writable, listener, broken, asking, wants>>
    /\ UNCHANGED <<arrived, client, ending, thrown, unwritable>>

\* sendErrorResponse throws when the object is a failure already: in formatPII,
\* without a format or without the variables it names, or in stringify.  The
\* subclass gets the exception; only in a handler may it end in a catch block.
ErrorOwnThrows(r) ==
    /\ ~exited
    /\ UserCode
    /\ Answerable(r)
    /\ Fail(r)
    /\ \/ UNCHANGED <<vars, unwritable>>
       \/ SendResponseThrows(r) /\ unwritable' = unwritable \cup {r}
    /\ UNCHANGED <<arrived, client, ending, thrown>>

\* A subclass that handles disconnect itself calls shutdown when it is done.
ShutdownOwn(r) ==
    /\ ~exited
    /\ UserCode
    /\ Answerable(r) /\ Command[r] = "disconnect"
    /\ Shutdown("disconnect")
    /\ UNCHANGED <<vars, arrived, success, client, exited, thrown, unwritable>>

-----------------------------------------------------------------------------
(* dispatchRequest *)

Given(old, given) == IF given = {} THEN old ELSE CHOOSE b \in given : TRUE

\* An initialize request sets what it says about lines and columns first, and is
\* then refused unless its paths are native; without arguments it throws.
Settings(r) ==
    IF Command[r] = "initialize" /\ Args[r].pathFormat # "none"
      THEN [lines   |-> Given(client.lines, Args[r].lines),
            columns |-> Given(client.columns, Args[r].columns)]
      ELSE client

\* A refused initialize request gets an error instead of its handler.
Refused(r) == Command[r] = "initialize" /\ Args[r].pathFormat # "path"

EnterHandler(r) ==
    /\ Len(stack) < MaxDepth
    /\ stack' = Append(stack, [seq |-> 0, then |-> "handler", of |-> r, hosted |-> TRUE])
    /\ UNCHANGED <<sequence, writeFailed, responseSeq, wire, heard, success>>

\* The default handlers.  disconnectRequest goes on with shutdown() when its
\* response is out.
initializeRequest(r) == SendingResponse(stack, r, "nothing") /\ UNCHANGED success
AnswersOnly(r)       == SendingResponse(stack, r, "nothing") /\ UNCHANGED success
disconnectRequest(r) == SendingResponse(stack, r, "shutdown") /\ UNCHANGED success
customRequest(r)     == SendingError(stack, r, "nothing")
otherRequest(r)      == SendingResponse(stack, r, "nothing") /\ UNCHANGED success

Handle(r) ==
    CASE r \in Own                   -> EnterHandler(r)
      [] Command[r] = "initialize"   -> initializeRequest(r)
      [] Command[r] = "disconnect"   -> disconnectRequest(r)
      [] Command[r] = "unknown"      -> customRequest(r)
      [] Command[r] = "other"        -> otherRequest(r)

\* A request comes from the stream in a task of its own, or from the host.
CanArrive ==
    /\ UserCode
    /\ "inline" \in Modes \/ (Idle /\ writable # "none" /\ "close" \notin causes)

Dispatch(r) ==
    /\ ~exited
    /\ CanArrive
    /\ r \notin arrived
    /\ arrived' = arrived \cup {r}
    /\ client' = Settings(r)
    /\ IF Refused(r) THEN SendingError(stack, r, "nothing") ELSE Handle(r)
    /\ UNCHANGED <<writable, listener, broken, asking, wants>>
    /\ UNCHANGED <<ending, thrown, unwritable>>

\* A plausible bug: the catch block logs the exception and does no more.
LogsOnly(r) ==
    /\ stack' = Pop
    /\ UNCHANGED <<success, sequence, writeFailed, responseSeq, wire, heard>>

\* The catch block answers with an error.
CatchBlock(r) == SendingError(Pop, r, "nothing")

\* A handler throws.
HandlerThrows ==
    /\ ~exited
    /\ ~Idle /\ Top.then = "handler"
    /\ thrown' = thrown \cup {Top.of}
    /\ CatchBlock(Top.of)
    /\ UNCHANGED <<writable, listener, broken, asking, wants>>
    /\ UNCHANGED <<arrived, client, ending, unwritable>>

\* What an exception that leaves dispatchRequest does: _handleData emits an error
\* event, which shuts down; a host that has passed the request on gets it.
Escapes(callers) ==
    \/ callers = <<>> /\ Shutdown("error")
    \/ "inline" \in Modes /\ UNCHANGED <<causes, exitTimer>>

\* A handler throws and has given its response a body that cannot be written: the
\* catch block throws, too.
CatchThrows ==
    /\ ~exited
    /\ ~Idle /\ Top.then = "handler"
    /\ thrown' = thrown \cup {Top.of} /\ unwritable' = unwritable \cup {Top.of}
    /\ Fail(Top.of)
    /\ UnwrittenResponse(Pop, Top.of)
    /\ Escapes(Pop)
    /\ UNCHANGED <<arrived, client, exited>>

\* A call returns; disconnectRequest goes on with shutdown().
SessionReturn ==
    /\ ~exited
    /\ Return
    /\ IF Top.then = "shutdown" THEN Shutdown("disconnect")
                                ELSE UNCHANGED <<causes, exitTimer>>
    /\ UNCHANGED <<arrived, success, client, exited, thrown, unwritable>>

-----------------------------------------------------------------------------
SessionInit ==
    /\ Init
    /\ arrived = {}
    /\ success = [r \in Responses |-> TRUE]
    /\ client = [lines |-> TRUE, columns |-> TRUE]
    /\ causes = {} /\ exitTimer = FALSE /\ exited = FALSE
    /\ thrown = {} /\ unwritable = {}

\* What a session does as a ProtocolServer and no override changes.
Inherited ==
    /\ ~exited
    /\ \/ Start
       \/ Stop
       \/ Subscribe
       \/ Dispose
       \/ SendEvent
       \/ SendOtherThrows
       \/ \E cb \in BOOLEAN : SendRequest(cb)
       \/ \E s \in Seqs : Timer(s)
       \/ \E s \in Seqs : HandleResponse(s) /\ ("close" \in causes => s \in Requests(heard))
    /\ UNCHANGED session

SessionNext ==
    \/ Inherited
    \/ \E cause \in {"close", "error"} : InputEvent(cause)
    \/ Sigterm
    \/ WriteError
    \/ Exit
    \/ \E r \in Responses :
          \/ Dispatch(r)
          \/ RespondOwn(r) \/ ErrorOwn(r) \/ ErrorOwnThrows(r) \/ ShutdownOwn(r)
    \/ HandlerThrows \/ CatchThrows
    \/ SessionReturn

SessionSafeSpec == SessionInit /\ [][SessionNext]_sessionVars

\* Handlers and listeners return, and the event loop serves the exit timer.
SessionSpec ==
    /\ SessionSafeSpec
    /\ WF_sessionVars(SessionReturn)
    /\ SF_sessionVars(Exit)

-----------------------------------------------------------------------------
\* Types of the state; only the timer of shutdown() ends the process.
SessionTypeOK ==
    /\ sequence \in 1 .. MaxSeq + 1
    /\ stack \in Seq([seq : 0 .. MaxSeq, of : Responses \cup {NoResponse},
                      then : {"nothing", "register", "shutdown", "handler"},
                      hosted : BOOLEAN])
    /\ arrived \subseteq Responses
    /\ success \in [Responses -> BOOLEAN]
    /\ client \in [lines : BOOLEAN, columns : BOOLEAN]
    /\ causes \subseteq {"disconnect", "close", "error", "SIGTERM"}
    /\ exitTimer \in BOOLEAN /\ exited \in BOOLEAN
    /\ exited => exitTimer /\ causes # {}
    /\ thrown \subseteq arrived /\ unwritable \subseteq arrived

Answered(r) == responseSeq[r] > 0

Delivered(r) ==
    \E log \in {wire, heard} : \E i \in DOMAIN log : log[i].type = "response" /\ log[i].of = r

\* The requests that the session itself has to answer: those it refuses or has a
\* default handler for, and those whose handler has thrown.
ToAnswer == {r \in arrived : r \notin Own \/ Refused(r)} \cup thrown

\* None of them is without an answer while the stream is open, whatever a handler
\* has sent or attempted before it throws: the answer is on the stream, or it is the
\* handler's response and could not be written as JSON: numbered, it is not sent
\* again (debugSession.ts:480-487, 512, 640-642; protocol.ts:153-159, 200-203).
NoRequestLost ==
    \A r \in ToAnswer : writable = "open" => Delivered(r) \/ (r \in Own /\ r \in unwritable)

\* A stdio session whose input has ended, or that was told to disconnect, ends its
\* process (debugSession.ts:417-422, 448-457, 743-746); a server or an inline one
\* ignores it.
ToldToEnd == causes # {} \/ \E r \in arrived \ Own : Command[r] = "disconnect"
ShutsDown == ToldToEnd ~> exited

\* A request whose pathFormat is omitted is one with native paths
\* (debugProtocol.json:969).
OmittedFormatIsPath ==
    \A r \in arrived \ Own :
      Command[r] = "initialize" /\ Args[r].pathFormat = "omitted" /\ Answered(r) => success[r]
=============================================================================
