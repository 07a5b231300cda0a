--------------------------- MODULE ProtocolServer ---------------------------
(***************************************************************************)
(* ProtocolServer (adapter/src/protocol.ts): how an adapter sends events,  *)
(* responses and reverse requests, and how the answers to its requests     *)
(* find their callbacks.                                                   *)
(*                                                                         *)
(* The peer is a client at the other end of a stream, or a host in the     *)
(* same process that listens to onDidSendMessage (the session then runs    *)
(* "inline").  A host is called by _send itself and may call back into the *)
(* server before _send returns: `stack' holds the calls of _send that have *)
(* not returned, innermost last.  All code runs on one JavaScript thread,  *)
(* so timers and stream data wait for an empty stack.                      *)
(***************************************************************************)
EXTENDS Integers, Sequences, FiniteSets

CONSTANTS
    Responses,      \* the response objects the adapter may send
    Modes,          \* how the server may be run: "stream", "inline" or both
    MaxSeq,         \* bound on the messages sent
    MaxAnswers,     \* bound on the answers the peer gives
    MaxBroken,      \* bound on the messages that cannot be written as JSON
    MaxDepth        \* bound on the nesting of calls

ASSUME ModesAssumption == Modes \subseteq {"stream", "inline"}
ASSUME BoundsAssumption == MaxSeq \in Nat /\ MaxAnswers \in Nat /\ MaxBroken \in Nat

VARIABLES
    sequence,           \* the number of the next message
    writable,           \* _writableStream: "none", "open", or "ended" by stop()
    writeFailed,        \* a write after end() will make the stream report an error
    listener,           \* the Emitter holds a listener
    responseSeq,        \* the seq field of each response object, 0 until it is sent
    pendingRequests,    \* the requests that have a callback in the map
    timers,             \* the requests whose timer runs; no answer clears it
    broken,             \* how many messages could not be written as JSON
    stack,              \* calls in progress: [seq, then, of, hosted]
    wire,               \* history: messages written to the stream
    heard,              \* history: messages given to the listener
    wants,              \* history: the requests sent with a callback
    calls,              \* history: per request, the calls of its callback
    unmatched,          \* history: the requests an answer found no callback for
    answers             \* how many answers the peer has given

channel == <<writable, writeFailed, listener>>
asking  == <<pendingRequests, timers, calls, unmatched, answers>>
vars    == <<sequence, channel, responseSeq, broken, asking, stack, wire, heard, wants>>

Seqs == 1 .. MaxSeq
NoResponse == "none"

-----------------------------------------------------------------------------
(* Whose turn it is *)

Top == stack[Len(stack)]
Pop == SubSeq(stack, 1, Len(stack) - 1)

Idle == stack = <<>>

\* Code of the adapter or of the host is in control: between two tasks, or in a
\* listener that _send has called.
UserCode == ~Idle => Top.hosted

-----------------------------------------------------------------------------
(* Running the server on a stream, inline, or both *)

Start ==
    /\ "stream" \in Modes /\ UserCode
    /\ writable = "none"
    /\ writable' = "open"
    /\ UNCHANGED <<sequence, writeFailed, listener, responseSeq, broken, asking, stack, wire,
                   heard, wants>>

Stop ==
    /\ UserCode
    /\ writable = "open"
    /\ writable' = "ended"
    /\ UNCHANGED <<sequence, writeFailed, listener, responseSeq, broken, asking, stack, wire,
                   heard, wants>>

\* onDidSendMessage(listener): the Emitter has room for one.
Subscribe ==
    /\ "inline" \in Modes /\ UserCode
    /\ ~listener
    /\ listener' = TRUE
    /\ UNCHANGED <<sequence, writable, writeFailed, responseSeq, broken, asking, stack, wire,
                   heard, wants>>

\* Any subscription ever returned removes the listener, whoever's it is.
Dispose ==
    /\ UserCode
    /\ listener
    /\ listener' = FALSE
    /\ UNCHANGED <<sequence, writable, writeFailed, responseSeq, broken, asking, stack, wire,
                   heard, wants>>

\* The stream reports a write after end() in a task of its own.
EmitWriteError ==
    /\ Idle
    /\ writeFailed
    /\ writeFailed' = FALSE
    /\ UNCHANGED <<sequence, writable, listener, responseSeq, broken, asking, stack, wire,
                   heard, wants>>

-----------------------------------------------------------------------------
(* Sending *)

NumberedFromZero(type, of) == [seq |-> sequence - 1, type |-> type, of |-> of]

Message(type, of) == [seq |-> sequence, type |-> type, of |-> of]

Call(message, then) ==
    [seq |-> message.seq, then |-> then, of |-> message.of, hosted |-> listener]

\* _send: number the message, write it, and call the listener.  What the caller
\* does next (`then') waits until the listener returns; the exceptions of a
\* listener end in fire().
_send(callers, message, then) ==
    /\ sequence <= MaxSeq /\ Len(callers) < MaxDepth
    /\ sequence' = sequence + 1
    /\ wire' = IF writable = "open" THEN Append(wire, message) ELSE wire
    /\ writeFailed' = (writeFailed \/ writable = "ended")
    /\ heard' = IF listener THEN Append(heard, message) ELSE heard
    /\ stack' = Append(callers, Call(message, then))

\* _send when JSON.stringify throws: the message has its number and goes nowhere,
\* and its sender gets the exception.  Without a stream nothing is stringified.
Unwritten(callers) ==
    /\ writable # "none"
    /\ broken < MaxBroken
    /\ broken' = broken + 1
    /\ sequence <= MaxSeq
    /\ sequence' = sequence + 1
    /\ stack' = callers
    /\ UNCHANGED <<channel, asking, wire, heard, wants>>

SendEvent ==
    /\ UserCode
    /\ _send(stack, Message("event", NoResponse), "nothing")
    /\ UNCHANGED <<writable, listener, responseSeq, broken, asking, wants>>

NeverSent(r) == TRUE

\* A response object is sent at most once.
MaySend(r) == ~(responseSeq[r] > 0)

\* sendResponse within a step of its caller.
SendingResponse(callers, r, then) ==
    /\ MaySend(r)
    /\ _send(callers, Message("response", r), then)
    /\ responseSeq' = [responseSeq EXCEPT ![r] = sequence]

SendResponse(r) ==
    /\ UserCode
    /\ SendingResponse(stack, r, "nothing")
    /\ UNCHANGED <<writable, listener, broken, asking, wants>>

\* An object that cannot be stringified counts as sent.
UnwrittenResponse(callers, r) ==
    /\ MaySend(r)
    /\ Unwritten(callers)
    /\ responseSeq' = [responseSeq EXCEPT ![r] = sequence]

SendResponseThrows(r) == UserCode /\ UnwrittenResponse(stack, r)

SendRequest(cb) ==
    /\ UserCode
    /\ _send(stack, Message("request", NoResponse), IF cb THEN "register" ELSE "nothing")
    /\ wants' = IF cb THEN wants \cup {sequence} ELSE wants
    /\ UNCHANGED <<writable, listener, responseSeq, broken, asking>>

\* An event or a request that cannot be stringified; sendRequest ends here, too.
SendOtherThrows == UserCode /\ Unwritten(stack) /\ UNCHANGED responseSeq

RegisterWithoutTimer(s) ==
    /\ pendingRequests' = pendingRequests \cup {s}
    /\ UNCHANGED timers

\* sendRequest after _send: store the callback, start the timer.
Register(s) ==
    /\ pendingRequests' = pendingRequests \cup {s}
    /\ timers' = timers \cup {s}

\* _send returns to its caller.
Return ==
    /\ ~Idle
    /\ stack' = Pop
    /\ IF Top.then = "register" THEN Register(Top.seq)
                                ELSE UNCHANGED <<pendingRequests, timers>>
    /\ UNCHANGED <<sequence, channel, responseSeq, broken, calls, unmatched, answers,
                   wire, heard, wants>>

-----------------------------------------------------------------------------
(* The answers to the adapter's requests *)

Requests(log) == {log[i].seq : i \in {j \in DOMAIN log : log[j].type = "request"}}

ForgetsAll(s) == {}

StaysPending(s) == pendingRequests

\* The callback leaves the map before it is called.
Forget(s) == pendingRequests \ {s}

CallBack(s, by) ==
    /\ pendingRequests' = Forget(s)
    /\ calls' = [calls EXCEPT ![s] = Append(@, by)]

\* handleMessage with a response to request s.  An answer from the stream arrives
\* in a task of its own; the host may answer from within its listener.
HandleResponse(s) ==
    /\ UserCode
    /\ s \in Requests(heard) \/ (Idle /\ s \in Requests(wire))
    /\ answers < MaxAnswers
    /\ answers' = answers + 1
    /\ IF s \in pendingRequests
         THEN CallBack(s, "response") /\ UNCHANGED unmatched
         ELSE unmatched' = unmatched \cup {s} /\ UNCHANGED <<pendingRequests, calls>>
    /\ UNCHANGED <<sequence, channel, responseSeq, broken, timers, stack, wire,
                   heard, wants>>

TimesOutAnyway(s) == TRUE

\* A timer does nothing when its request has been answered.
TimesOut(s) == s \in pendingRequests

Timer(s) ==
    /\ Idle
    /\ s \in timers
    /\ timers' = timers \ {s}
    /\ IF TimesOut(s) THEN CallBack(s, "timeout")
                      ELSE UNCHANGED <<pendingRequests, calls>>
    /\ UNCHANGED <<sequence, channel, responseSeq, broken, unmatched, answers, stack,
                   wire, heard, wants>>

-----------------------------------------------------------------------------
Init ==
    /\ sequence = 1
    /\ writable = "none" /\ writeFailed = FALSE /\ listener = FALSE
    /\ responseSeq = [r \in Responses |-> 0]
    /\ broken = 0 /\ pendingRequests = {} /\ timers = {} /\ stack = <<>>
    /\ wire = <<>> /\ heard = <<>>
    /\ wants = {} /\ calls = [s \in Seqs |-> <<>>] /\ unmatched = {} /\ answers = 0

Next ==
    \/ Start
    \/ Stop
    \/ Subscribe
    \/ Dispose
    \/ EmitWriteError
    \/ SendEvent
    \/ \E r \in Responses : SendResponse(r) \/ SendResponseThrows(r)
    \/ SendOtherThrows
    \/ \E cb \in BOOLEAN : SendRequest(cb)
    \/ Return
    \/ \E s \in Seqs : HandleResponse(s) \/ Timer(s)

SafeSpec == Init /\ [][Next]_vars

\* A listener returns, and the event loop serves every timer between two tasks.
Spec ==
    /\ SafeSpec
    /\ WF_vars(Return)
    /\ \A s \in Seqs : SF_vars(Timer(s))

-----------------------------------------------------------------------------
\* What is on the wire: only a response belongs to a response object.
Messages ==
    [seq : Seqs, type : {"response"}, of : Responses] \cup
    [seq : Seqs, type : {"event", "request"}, of : {NoResponse}]

\* A call of _send in progress.
Calls == [seq : Seqs, then : {"nothing", "register"},
          of : Responses \cup {NoResponse}, hosted : BOOLEAN]

\* Types of the state.
TypeOK ==
    /\ sequence \in 1 .. MaxSeq + 1
    /\ writable \in {"none", "open", "ended"}
    /\ writeFailed \in BOOLEAN /\ listener \in BOOLEAN
    /\ responseSeq \in [Responses -> 0 .. MaxSeq] /\ broken \in 0 .. MaxBroken
    /\ pendingRequests \subseteq Seqs /\ timers \subseteq Seqs
    /\ stack \in Seq(Calls)
    /\ wire \in Seq(Messages) /\ heard \in Seq(Messages)
    /\ wants \subseteq Seqs
    /\ calls \in [Seqs -> Seq({"response", "timeout"})]
    /\ unmatched \subseteq Seqs
    /\ answers \in 0 .. MaxAnswers

\* The call of sendRequest with number s has sent its message and has not yet
\* stored its callback.
Registering(s) == \E i \in DOMAIN stack : stack[i].seq = s /\ stack[i].then = "register"

InOnePlace(s) ==
    /\ s \in wants <=> (Registering(s) \/ s \in pendingRequests \/ calls[s] # <<>>)
    /\ ~(Registering(s) /\ s \in pendingRequests)
    /\ calls[s] # <<>> => ~Registering(s) /\ s \notin pendingRequests
    /\ Len(calls[s]) <= 1
    /\ s \in pendingRequests => s \in timers

\* A request with a callback is in one place and never in two: about to be
\* stored, stored with a timer that runs, or called back; so no answer that comes
\* twice or too late, and no timer that fires after the answer, calls it again
\* (protocol.ts:108-113, 170-182).
OnePlace == \A s \in Seqs : InOnePlace(s)

\* Calls in progress are calls of different messages.
OneCallEach ==
    /\ \A i, j \in DOMAIN stack : stack[i].seq = stack[j].seq => i = j
    /\ \A i \in DOMAIN stack : stack[i].seq < sequence

\* What a side has seen is numbered in the order it was sent, and a response
\* object carries the number of its message.
Numbered(log, next, numbers) ==
    /\ \A i \in DOMAIN log : log[i].seq < next
    /\ \A i, j \in DOMAIN log : i < j => log[i].seq < log[j].seq
    /\ \A i \in DOMAIN log : log[i].type = "response" => numbers[log[i].of] = log[i].seq

AnswerNotLost(s) == s \in unmatched \cap wants => calls[s] # <<>>

\* An answer from the stream finds no callback only when its request wanted none
\* or has been called back before: nobody hears of a timeout whose answer was in
\* time (protocol.ts:108-113, 170-182).
StreamAnswerNotLost == \A s \in Seqs \ Requests(heard) : AnswerNotLost(s)

\* The inductive invariant.
IInv ==
    /\ TypeOK
    /\ OnePlace
    /\ OneCallEach
    /\ Numbered(wire, sequence, responseSeq) /\ Numbered(heard, sequence, responseSeq)
    /\ \A s \in wants \cup unmatched : s < sequence
    /\ StreamAnswerNotLost

\* A response object reaches each side at most once, also when the host has it
\* sent again from within the listener that is handed it (protocol.ts:153-159).
ResponseOnce ==
    \A log \in {wire, heard} : \A i, j \in DOMAIN log :
      log[i].type = "response" /\ log[j].type = "response" /\ log[i].of = log[j].of => i = j

\* The numbers on the stream have no gap (debugProtocol.json:19).
Contiguous == \A i \in 2 .. Len(wire) : wire[i].seq = wire[i - 1].seq + 1

\* The same of every answer: seq associates requests with their responses
\* (debugProtocol.json:19).  An answer given within the listener comes before
\* sendRequest has stored the callback.
EveryAnswerNotLost == \A s \in Seqs : AnswerNotLost(s)

Promise == INSTANCE RequestReply WITH Ids <- Seqs, asked <- wants, outcome <- calls

\* Every request made with a callback is called back exactly once, whatever the
\* peer answers, whenever, and wherever the messages go.
PromiseKept == Promise!Spec

\* Its safety part.
PromiseSafe == Promise!SafeSpec
=============================================================================
