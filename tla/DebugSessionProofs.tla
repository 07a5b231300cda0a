-------------------------- MODULE DebugSessionProofs --------------------------
(***************************************************************************)
(* Proofs about DebugSession, for any requests, any handlers of a subclass *)
(* and any nesting of handlers, listeners and hosts: no response object is *)
(* sent twice, no request that the session has to answer is lost, and the  *)
(* promise of sendRequest is kept among the handlers.                      *)
(***************************************************************************)
EXTENDS DebugSession, ProtocolServerProofs

Frames == [seq : 0 .. MaxSeq, of : Responses \cup {NoResponse},
           then : {"nothing", "register", "shutdown", "handler"}, hosted : BOOLEAN]

-----------------------------------------------------------------------------
(* What is sent *)

\* The messages of the session and their numbers.
Traffic ==
    /\ sequence \in 1 .. MaxSeq + 1 /\ listener \in BOOLEAN
    /\ responseSeq \in [Responses -> 0 .. MaxSeq]
    /\ stack \in Seq(Frames)
    /\ wire \in Seq(Messages) /\ heard \in Seq(Messages)
    /\ Numbered(wire, sequence, responseSeq) /\ Numbered(heard, sequence, responseSeq)

\* A log that another one goes on from.
Begins(log, longer) ==
    \A i \in DOMAIN log : i \in DOMAIN longer /\ longer[i] = log[i]

HoldsResponse(log, r) == \E i \in DOMAIN log : log[i].type = "response" /\ log[i].of = r

LEMMA SameTraffic ==
  ASSUME Traffic, listener' \in BOOLEAN, stack' \in Seq(Frames),
         UNCHANGED <<sequence, responseSeq, wire, heard>>
  PROVE  Traffic'
BY DEF Traffic, Numbered

LEMMA ThrowTraffic ==
  ASSUME Traffic, NEW callers \in Seq(Frames), Unwritten(callers),
         responseSeq' \in [Responses -> 0 .. MaxSeq],
         \A r \in Responses : responseSeq[r] # 0 => responseSeq'[r] = responseSeq[r]
  PROVE  Traffic'
<1>1. /\ sequence \in Nat /\ sequence' = sequence + 1 /\ sequence' \in 1 .. MaxSeq + 1
      /\ UNCHANGED <<listener, wire, heard>> /\ stack' = callers
  BY BoundsAssumption DEF Traffic, Unwritten, channel
<1>2. responseSeq \in [Responses -> Nat] /\ responseSeq' \in [Responses -> Nat]
  BY DEF Traffic
<1>3. Numbered(wire, sequence + 1, responseSeq') /\ Numbered(heard, sequence + 1, responseSeq')
  BY <1>1, <1>2, NumberedNext DEF Traffic
<1>4. Numbered(wire', sequence', responseSeq') /\ Numbered(heard', sequence', responseSeq')
  BY <1>1, <1>3
<1>5. Numbered(wire, sequence, responseSeq)' /\ Numbered(heard, sequence, responseSeq)'
  BY <1>4 DEF Numbered
<1> QED BY <1>1, <1>5 DEF Traffic

LEMMA Longer ==
  ASSUME NEW log \in Seq(Messages), NEW m \in Messages
  PROVE  /\ Append(log, m) \in Seq(Messages) /\ Begins(log, Append(log, m)) /\ Begins(log, log)
         /\ m.type = "response" => HoldsResponse(Append(log, m), m.of)
<1> DEFINE longer == Append(log, m)
<1>1. /\ longer \in Seq(Messages) /\ Len(log) \in Nat
      /\ DOMAIN log = 1 .. Len(log) /\ DOMAIN longer = 1 .. Len(log) + 1
      /\ longer[Len(log) + 1] = m /\ \A i \in 1 .. Len(log) : longer[i] = log[i]
  BY AppendProperties, LenProperties
<1> HIDE DEF longer
<1>2. Begins(log, longer) /\ Begins(log, log)
  BY <1>1 DEF Begins
<1>3. Len(log) + 1 \in DOMAIN longer
  BY <1>1
<1>4. m.type = "response" => HoldsResponse(longer, m.of)
  BY <1>1, <1>3 DEF HoldsResponse
<1> QED BY <1>1, <1>2, <1>4 DEF longer

\* A message is sent, whoever's call it is.
LEMMA SendTraffic ==
  ASSUME Traffic, NEW callers \in Seq(Frames), NEW m \in Messages,
         NEW then \in {"nothing", "register", "shutdown"},
         m.seq = sequence, _send(callers, m, then), UNCHANGED listener,
         responseSeq' \in [Responses -> 0 .. MaxSeq],
         \A r \in Responses : responseSeq[r] # 0 => responseSeq'[r] = responseSeq[r],
         m.type = "response" => responseSeq'[m.of] = sequence
  PROVE  /\ Traffic'
         /\ Begins(wire, wire') /\ Begins(heard, heard')
         /\ m.type = "response" /\ writable = "open" => HoldsResponse(wire', m.of)
         /\ \E call \in Frames : call.then = then /\ stack' = Append(callers, call)
<1> DEFINE call == Call(m, then)
<1>1. sequence \in Nat /\ sequence' = sequence + 1 /\ sequence' \in 1 .. MaxSeq + 1
  BY BoundsAssumption DEF Traffic, _send
<1>2. call \in Frames /\ call.then = then
  BY BoundsAssumption DEF Call, Frames, Messages, Seqs, Traffic
<1>3. stack' = Append(callers, call)
  BY DEF _send
<1> HIDE DEF call
<1>4. stack' \in Seq(Frames)
  BY <1>2, <1>3, AppendProperties
<1>5. /\ wire' \in {wire, Append(wire, m)} /\ heard' \in {heard, Append(heard, m)}
      /\ writable = "open" => wire' = Append(wire, m)
  BY DEF _send
<1>6. /\ wire' \in Seq(Messages) /\ heard' \in Seq(Messages)
      /\ Begins(wire, wire') /\ Begins(heard, heard')
      /\ m.type = "response" /\ writable = "open" => HoldsResponse(wire', m.of)
  <2>1. wire \in Seq(Messages) /\ heard \in Seq(Messages)
    BY DEF Traffic
  <2> QED BY <1>5, <2>1, Longer
<1>7. Numbered(wire, sequence, responseSeq)' /\ Numbered(heard, sequence, responseSeq)'
  <2>1. responseSeq \in [Responses -> Nat] /\ responseSeq' \in [Responses -> Nat]
    BY DEF Traffic
  <2>2. /\ Numbered(wire, sequence + 1, responseSeq')
        /\ Numbered(heard, sequence + 1, responseSeq')
        /\ Numbered(Append(wire, m), sequence + 1, responseSeq')
        /\ Numbered(Append(heard, m), sequence + 1, responseSeq')
    BY <1>1, <2>1, NumberedNext DEF Traffic
  <2>3. Numbered(wire', sequence', responseSeq') /\ Numbered(heard', sequence', responseSeq')
    BY <1>1, <1>5, <2>2
  <2> QED BY <2>3 DEF Numbered
<1>8. Traffic'
  BY <1>1, <1>4, <1>6, <1>7 DEF Traffic
<1> QED BY <1>2, <1>3, <1>6, <1>8

\* The messages that a session builds.
LEMMA SessionMessage ==
  ASSUME Traffic, sequence <= MaxSeq
  PROVE  /\ \A type \in {"event", "request"} :
              Message(type, NoResponse) \in Messages /\ Message(type, NoResponse).type = type
         /\ \A r \in Responses : Message("response", r) \in Messages
                                 /\ Message("response", r).type = "response"
         /\ \A type, of : Message(type, of).seq = sequence /\ Message(type, of).of = of
<1>1. sequence \in Seqs
  BY BoundsAssumption DEF Traffic, Seqs
<1> QED BY <1>1 DEF Message, Messages

\* What a step that answers request r leaves, with `callers' on the stack.
Responds(callers, r) ==
    /\ Traffic'
    /\ Begins(wire, wire') /\ Begins(heard, heard')
    /\ responseSeq'[r] > 0
    /\ \A q \in Responses : q # r => responseSeq'[q] = responseSeq[q]
    /\ responseSeq[r] > 0 \/ (writable = "open" => HoldsResponse(wire', r))
    /\ \/ stack' = callers
       \/ \E call \in Frames : call.then # "handler" /\ stack' = Append(callers, call)

LEMMA ResponseTraffic ==
  ASSUME Traffic, NEW callers \in Seq(Frames), NEW r \in Responses,
         NEW then \in {"nothing", "shutdown"},
         SendingResponse(callers, r, then), UNCHANGED listener
  PROVE  Responds(callers, r)
<1>1. /\ sequence <= MaxSeq /\ _send(callers, Message("response", r), then)
      /\ responseSeq' = [responseSeq EXCEPT ![r] = sequence]
      /\ ~(responseSeq[r] > 0)
  BY DEF SendingResponse, MaySend, _send
<1>2. /\ Message("response", r) \in Messages
      /\ Message("response", r).seq = sequence /\ Message("response", r).type = "response"
      /\ Message("response", r).of = r
  BY <1>1, SessionMessage
<1>3. sequence \in 1 .. MaxSeq /\ responseSeq[r] = 0
  BY <1>1, BoundsAssumption DEF Traffic
<1>4. /\ responseSeq' \in [Responses -> 0 .. MaxSeq] /\ responseSeq'[r] = sequence
      /\ \A q \in Responses : q # r => responseSeq'[q] = responseSeq[q]
  BY <1>1, <1>3 DEF Traffic
<1>5. \A q \in Responses : responseSeq[q] # 0 => responseSeq'[q] = responseSeq[q]
  BY <1>3, <1>4
<1>6. /\ Traffic'
      /\ Begins(wire, wire') /\ Begins(heard, heard')
      /\ writable = "open" => HoldsResponse(wire', r)
      /\ \E call \in Frames : call.then = then /\ stack' = Append(callers, call)
  BY <1>1, <1>2, <1>4, <1>5, SendTraffic
<1> QED BY <1>3, <1>4, <1>6 DEF Responds

LEMMA ErrorTraffic ==
  ASSUME Traffic, NEW callers \in Seq(Frames), NEW r \in Responses,
         SendingError(callers, r, "nothing"), UNCHANGED listener
  PROVE  Responds(callers, r) /\ success' = [success EXCEPT ![r] = FALSE]
<1>1. success' = [success EXCEPT ![r] = FALSE]
  BY DEF SendingError, Fail
<1>2. CASE MaySend(r)
  BY <1>1, <1>2, ResponseTraffic DEF SendingError
<1>3. CASE ~ MaySend(r)
  <2>1. stack' = callers /\ UNCHANGED <<sequence, responseSeq, wire, heard>>
    BY <1>3 DEF SendingError
  <2>2. responseSeq[r] > 0
    BY <1>3 DEF MaySend
  <2>3. Traffic'
    BY <2>1, SameTraffic DEF Traffic
  <2>4. Begins(wire, wire') /\ Begins(heard, heard')
    BY <2>1 DEF Begins
  <2> QED BY <1>1, <2>1, <2>2, <2>3, <2>4 DEF Responds
<1> QED BY <1>2, <1>3

LEMMA UnwrittenTraffic ==
  ASSUME Traffic, NEW callers \in Seq(Frames), NEW r \in Responses,
         UnwrittenResponse(callers, r)
  PROVE  /\ Traffic' /\ responseSeq'[r] > 0
         /\ \A q \in Responses : q # r => responseSeq'[q] = responseSeq[q]
         /\ UNCHANGED <<wire, heard, writable, listener>> /\ stack' = callers
<1>1. /\ Unwritten(callers) /\ responseSeq' = [responseSeq EXCEPT ![r] = sequence]
      /\ ~(responseSeq[r] > 0) /\ sequence <= MaxSeq
      /\ UNCHANGED <<wire, heard, writable, listener>> /\ stack' = callers
  BY DEF UnwrittenResponse, Unwritten, MaySend, channel
<1>2. sequence \in 1 .. MaxSeq /\ responseSeq[r] = 0
  BY <1>1, BoundsAssumption DEF Traffic
<1>3. /\ responseSeq' \in [Responses -> 0 .. MaxSeq] /\ responseSeq'[r] = sequence
      /\ \A q \in Responses : q # r => responseSeq'[q] = responseSeq[q]
  BY <1>1, <1>2 DEF Traffic
<1>4. \A q \in Responses : responseSeq[q] # 0 => responseSeq'[q] = responseSeq[q]
  BY <1>2, <1>3
<1>5. Traffic'
  BY <1>1, <1>3, <1>4, ThrowTraffic
<1> QED BY <1>1, <1>2, <1>3, <1>5

-----------------------------------------------------------------------------
(* The invariant *)

\* The handlers that run are the subclass's, of requests that have arrived.
Running == \A i \in DOMAIN stack : stack[i].then = "handler" => stack[i].of \in arrived \cap Own

\* The state of the session proper.
State ==
    /\ arrived \subseteq Responses /\ success \in [Responses -> BOOLEAN]
    /\ client \in [lines : BOOLEAN, columns : BOOLEAN]
    /\ causes \subseteq {"disconnect", "close", "error", "SIGTERM"}
    /\ exitTimer \in BOOLEAN /\ exited \in BOOLEAN
    /\ exitTimer => causes # {}
    /\ exited => exitTimer
    /\ thrown \subseteq arrived /\ unwritable \subseteq arrived \cap Own

SessionIInv == Traffic /\ Running /\ State

LEMMA TypesHold == SessionIInv => SessionTypeOK
BY DEF SessionIInv, SessionTypeOK, Traffic, State, Frames

LEMMA SettingsType ==
  ASSUME State, NEW r \in Responses
  PROVE  Settings(r) \in [lines : BOOLEAN, columns : BOOLEAN]
<1>1. \A old \in BOOLEAN, given \in SUBSET BOOLEAN : Given(old, given) \in BOOLEAN
  <2> SUFFICES ASSUME NEW old \in BOOLEAN, NEW given \in SUBSET BOOLEAN, given # {}
               PROVE  (CHOOSE b \in given : TRUE) \in BOOLEAN
    BY DEF Given
  <2>1. \E b \in given : TRUE
    OBVIOUS
  <2> QED BY <2>1
<1>2. Args[r].lines \in SUBSET BOOLEAN /\ Args[r].columns \in SUBSET BOOLEAN
  BY SessionAssumption
<1> QED BY <1>1, <1>2 DEF Settings, State

\* What is on the stack after a return, and after a message.
LEMMA PopRuns ==
  ASSUME Traffic, Running, ~Idle
  PROVE  /\ Pop \in Seq(Frames)
         /\ \A i \in DOMAIN Pop : Pop[i].then = "handler" => Pop[i].of \in arrived \cap Own
         /\ Top \in Frames /\ (Top.then = "handler" => Top.of \in arrived \cap Own)
<1>1. stack \in Seq(Frames)
  BY DEF Traffic
<1>2. Len(stack) \in Nat \ {0} /\ DOMAIN stack = 1 .. Len(stack)
  BY <1>1, LenProperties, EmptySeq DEF Idle
<1>3. /\ Pop \in Seq(Frames)
      /\ Len(Pop) = Len(stack) - 1
      /\ \A i \in 1 .. Len(Pop) : Pop[i] = stack[i]
  BY <1>1, <1>2, SubSeqProperties DEF Pop
<1>4. DOMAIN Pop = 1 .. Len(Pop)
  BY <1>3, LenProperties
<1>5. \A i \in DOMAIN Pop : i \in DOMAIN stack /\ Pop[i] = stack[i]
  BY <1>2, <1>3, <1>4
<1>6. Len(stack) \in DOMAIN stack /\ Top = stack[Len(stack)] /\ Top \in Frames
  BY <1>1, <1>2, ElementOfSeq DEF Top
<1> QED BY <1>3, <1>5, <1>6 DEF Running

LEMMA RunsOn ==
  ASSUME NEW callers \in Seq(Frames),
         \A i \in DOMAIN callers : callers[i].then = "handler" => callers[i].of \in arrived \cap Own,
         arrived \subseteq arrived', NEW call \in Frames,
         call.then = "handler" => call.of \in arrived' \cap Own,
         stack' \in {callers, Append(callers, call)}
  PROVE  Running'
<1>1. CASE stack' = callers
  BY <1>1 DEF Running
<1>2. CASE stack' = Append(callers, call)
  <2>1. /\ Len(callers) \in Nat /\ DOMAIN callers = 1 .. Len(callers)
        /\ DOMAIN stack' = 1 .. Len(callers) + 1 /\ stack'[Len(callers) + 1] = call
        /\ \A i \in 1 .. Len(callers) : stack'[i] = callers[i]
    BY <1>2, AppendProperties, LenProperties
  <2>2. \A i \in DOMAIN stack' : i \in DOMAIN callers \/ i = Len(callers) + 1
    BY <2>1
  <2> QED BY <2>1, <2>2 DEF Running
<1> QED BY <1>1, <1>2

LEMMA RespondsRuns ==
  ASSUME NEW callers \in Seq(Frames), NEW r,
         \A i \in DOMAIN callers : callers[i].then = "handler" => callers[i].of \in arrived \cap Own,
         arrived \subseteq arrived', Responds(callers, r)
  PROVE  Running'
<1>1. CASE stack' = callers
  BY <1>1 DEF Running
<1>2. CASE \E call \in Frames : call.then # "handler" /\ stack' = Append(callers, call)
  BY <1>2, RunsOn
<1> QED BY <1>1, <1>2 DEF Responds

-----------------------------------------------------------------------------
(* The steps *)

Arrives(r) ==
    /\ r \in Responses /\ r \notin arrived /\ CanArrive
    /\ arrived' = arrived \cup {r}

\* A request that has arrived is answered, or counts as answered.
Answering(r) ==
    /\ \E callers : Responds(callers, r)
    /\ UNCHANGED <<writable, unwritable>>
    /\ thrown' \in {thrown, thrown \cup {r}}
    /\ (r \in arrived /\ UNCHANGED arrived) \/ Arrives(r)

\* Its response is numbered and cannot be written.
Unwriting(r) ==
    /\ r \in arrived /\ responseSeq'[r] > 0
    /\ \A q \in Responses : q # r => responseSeq'[q] = responseSeq[q]
    /\ unwritable' = unwritable \cup {r} /\ thrown' \in {thrown, thrown \cup {r}}
    /\ UNCHANGED <<arrived, wire, heard, writable>>

\* The handler of a subclass begins.
Entering(r) ==
    /\ Arrives(r) /\ r \in Own /\ ~ Refused(r)
    /\ UNCHANGED <<responseSeq, wire, heard, writable, thrown, unwritable>>

\* Nothing is answered.
Other ==
    /\ UNCHANGED <<arrived, responseSeq, thrown, unwritable>>
    /\ Begins(wire, wire') /\ Begins(heard, heard')
    /\ \/ writable' = writable
       \/ "stream" \in Modes /\ writable = "none" /\ writable' = "open"
       \/ writable = "open" /\ writable' = "ended"

Stepped ==
    /\ SessionIInv'
    /\ \/ Other
       \/ \E r \in Responses : Answering(r) \/ Unwriting(r) \/ Entering(r)

\* A step that sends nothing and leaves the requests alone.
LEMMA QuietStep ==
  ASSUME SessionIInv, State',
         UNCHANGED <<sequence, responseSeq, wire, heard, stack, arrived, thrown, unwritable>>,
         listener' \in BOOLEAN,
         \/ writable' = writable
         \/ "stream" \in Modes /\ writable = "none" /\ writable' = "open"
         \/ writable = "open" /\ writable' = "ended"
  PROVE  Stepped
<1>1. Traffic'
  BY SameTraffic DEF SessionIInv, Traffic
<1>2. Running'
  BY DEF SessionIInv, Running
<1>3. Other
  BY DEF Other, Begins
<1> QED BY <1>1, <1>2, <1>3 DEF Stepped, SessionIInv

LEMMA InheritedStep == SessionIInv /\ Inherited => Stepped
<1> SUFFICES ASSUME SessionIInv, Inherited PROVE Stepped
  OBVIOUS
<1>0. Traffic /\ Running /\ State
  BY DEF SessionIInv
<1>1. UNCHANGED session /\ State'
  BY <1>0 DEF Inherited, session, ending, State
<1>2. CASE Start \/ Stop \/ Subscribe \/ Dispose
  <2>1. /\ UNCHANGED <<sequence, responseSeq, wire, heard, stack>> /\ listener' \in BOOLEAN
        /\ \/ writable' = writable
           \/ "stream" \in Modes /\ writable = "none" /\ writable' = "open"
           \/ writable = "open" /\ writable' = "ended"
    BY <1>0, <1>2 DEF Start, Stop, Subscribe, Dispose, Traffic
  <2> QED BY <1>1, <2>1, QuietStep DEF session
<1>3. CASE \E s \in Seqs : Timer(s) \/ HandleResponse(s)
  <2>1. UNCHANGED <<sequence, responseSeq, wire, heard, stack, listener, writable>>
    BY <1>3 DEF Timer, HandleResponse, channel
  <2> QED BY <1>0, <1>1, <2>1, QuietStep DEF session, Traffic
<1>4. CASE SendOtherThrows
  <2>1. Traffic' /\ Running'
    <3>1. Unwritten(stack) /\ UNCHANGED <<responseSeq, stack, arrived>> /\ stack \in Seq(Frames)
      BY <1>0, <1>1, <1>4 DEF SendOtherThrows, Unwritten, Traffic, session
    <3>2. Traffic'
      BY <1>0, <3>1, ThrowTraffic DEF Traffic
    <3> QED BY <1>0, <3>1, <3>2 DEF Running
  <2>2. Other
    BY <1>1, <1>4 DEF SendOtherThrows, Unwritten, Other, Begins, session, channel
  <2> QED BY <1>1, <2>1, <2>2 DEF Stepped, SessionIInv
<1>5. ASSUME NEW type \in {"event", "request"}, NEW then \in {"nothing", "register"},
             _send(stack, Message(type, NoResponse), then),
             UNCHANGED <<writable, listener, responseSeq>>
      PROVE  Stepped
  <2> DEFINE m == Message(type, NoResponse)
  <2>1. m \in Messages /\ m.type = type /\ m.seq = sequence
    BY <1>0, <1>5, SessionMessage DEF _send
  <2> HIDE DEF m
  <2>2. _send(stack, m, then) /\ stack \in Seq(Frames)
    BY <1>0, <1>5 DEF m, Traffic
  <2>3. /\ Traffic' /\ Begins(wire, wire') /\ Begins(heard, heard')
        /\ \E call \in Frames : call.then = then /\ stack' = Append(stack, call)
    BY <1>0, <1>5, <2>1, <2>2, SendTraffic DEF Traffic
  <2>4. Running'
    BY <1>0, <1>1, <2>2, <2>3, RunsOn DEF Running, session
  <2>5. Other
    BY <1>1, <1>5, <2>3 DEF Other, session
  <2> QED BY <1>1, <2>3, <2>4, <2>5 DEF Stepped, SessionIInv
<1>6. CASE SendEvent
  BY <1>5, <1>6 DEF SendEvent
<1>7. CASE \E cb \in BOOLEAN : SendRequest(cb)
  BY <1>5, <1>7 DEF SendRequest
<1> QED BY <1>2, <1>3, <1>4, <1>6, <1>7 DEF Inherited

\* shutdown() alone, and the timer it starts.
LEMMA ShutdownState ==
  ASSUME State, NEW cause \in {"disconnect", "close", "error", "SIGTERM"}, Shutdown(cause),
         UNCHANGED <<arrived, success, client, exited, thrown, unwritable>>
  PROVE  State'
BY DEF State, Shutdown

LEMMA ShutdownStep ==
  ASSUME SessionIInv, NEW cause \in {"close", "error"},
         InputEvent(cause) \/ Sigterm \/ WriteError \/ Exit \/ \E r \in Responses : ShutdownOwn(r)
  PROVE  Stepped
<1>0. Traffic /\ Running /\ State
  BY DEF SessionIInv
<1>1. CASE InputEvent(cause)
  BY <1>0, <1>1, ShutdownState, QuietStep DEF InputEvent, vars, channel, Traffic
<1>2. CASE Sigterm
  BY <1>0, <1>2, ShutdownState, QuietStep DEF Sigterm, InputEvent, vars, channel, Traffic
<1>3. CASE WriteError
  BY <1>0, <1>3, ShutdownState, QuietStep DEF WriteError, EmitWriteError, Traffic
<1>4. CASE Exit
  BY <1>0, <1>4, QuietStep DEF Exit, ExitIsDue, State, vars, channel, Traffic
<1>5. CASE \E r \in Responses : ShutdownOwn(r)
  BY <1>0, <1>5, ShutdownState, QuietStep DEF ShutdownOwn, vars, channel, Traffic
<1> QED BY <1>1, <1>2, <1>3, <1>4, <1>5

\* A request is answered: by its handler, later, or because the handler has thrown.
LEMMA AnswerStep ==
  ASSUME SessionIInv, NEW r \in Responses, NEW callers \in Seq(Frames), r \in arrived,
         \A i \in DOMAIN callers : callers[i].then = "handler" => callers[i].of \in arrived \cap Own,
         Responds(callers, r), success' \in {success, [success EXCEPT ![r] = FALSE]},
         thrown' \in {thrown, thrown \cup {r}},
         UNCHANGED <<arrived, client, ending, unwritable, writable>>
  PROVE  Stepped
<1>1. Running'
  BY RespondsRuns
<1>2. State'
  BY DEF SessionIInv, State, ending
<1>3. Answering(r)
  BY DEF Answering
<1> QED BY <1>1, <1>2, <1>3 DEF Stepped, SessionIInv, Responds

\* A response cannot be written: its sender throws, or the catch block does.
LEMMA UnwrittenStep ==
  ASSUME SessionIInv, NEW r \in arrived \cap Own, NEW callers \in Seq(Frames),
         \A i \in DOMAIN callers : callers[i].then = "handler" => callers[i].of \in arrived \cap Own,
         UnwrittenResponse(callers, r), unwritable' = unwritable \cup {r},
         thrown' \in {thrown, thrown \cup {r}},
         success' \in {success, [success EXCEPT ![r] = FALSE]},
         Shutdown("error") \/ UNCHANGED <<causes, exitTimer>>,
         UNCHANGED <<arrived, client, exited>>
  PROVE  Stepped
<1>1. Traffic /\ State /\ r \in Responses
  BY DEF SessionIInv, State
<1>2. /\ Traffic' /\ responseSeq'[r] > 0
      /\ \A q \in Responses : q # r => responseSeq'[q] = responseSeq[q]
      /\ UNCHANGED <<wire, heard, writable, listener>> /\ stack' = callers
  BY <1>1, UnwrittenTraffic
<1>3. Running'
  BY <1>2 DEF Running
<1>4. State'
  <2>1. CASE Shutdown("error")
    BY <1>1, <2>1 DEF State, Shutdown
  <2>2. CASE UNCHANGED <<causes, exitTimer>>
    BY <1>1, <2>2 DEF State
  <2> QED BY <2>1, <2>2
<1>5. Unwriting(r)
  BY <1>2 DEF Unwriting
<1> QED BY <1>1, <1>2, <1>3, <1>4, <1>5 DEF Stepped, SessionIInv

LEMMA OwnStep ==
  ASSUME SessionIInv, NEW r \in Responses, RespondOwn(r) \/ ErrorOwn(r) \/ ErrorOwnThrows(r)
  PROVE  Stepped
<1>0. /\ Traffic /\ Running /\ State /\ stack \in Seq(Frames) /\ r \in arrived \cap Own
      /\ UNCHANGED <<arrived, client, ending, thrown>>
  BY DEF SessionIInv, Traffic, RespondOwn, ErrorOwn, ErrorOwnThrows, Answerable
<1>1. CASE RespondOwn(r) /\ SendResponse(r) /\ UNCHANGED unwritable
  <2>1. /\ SendingResponse(stack, r, "nothing")
        /\ UNCHANGED <<writable, listener, success>>
    BY <1>1 DEF RespondOwn, SendResponse
  <2>2. Responds(stack, r)
    BY <1>0, <2>1, ResponseTraffic
  <2> QED BY <1>0, <1>1, <2>1, <2>2, AnswerStep DEF Running
<1>2. CASE SendResponseThrows(r) /\ unwritable' = unwritable \cup {r}
  <2>1. /\ UnwrittenResponse(stack, r)
        /\ success' \in {success, [success EXCEPT ![r] = FALSE]}
    BY <1>2 DEF RespondOwn, ErrorOwn, ErrorOwnThrows, SendResponseThrows, SendResponse,
                SendingError, Fail
  <2> QED BY <1>0, <1>2, <2>1, UnwrittenStep DEF Running, ending
<1>3. CASE ErrorOwn(r)
  <2>1. /\ SendingError(stack, r, "nothing") /\ UNCHANGED <<listener, writable, unwritable>>
    BY <1>3 DEF ErrorOwn
  <2>2. Responds(stack, r) /\ success' = [success EXCEPT ![r] = FALSE]
    BY <1>0, <2>1, ErrorTraffic
  <2> QED BY <1>0, <2>1, <2>2, AnswerStep DEF Running
<1>4. CASE ErrorOwnThrows(r) /\ UNCHANGED <<vars, unwritable>>
  <2>1. /\ UNCHANGED <<sequence, responseSeq, wire, heard, stack, listener, writable>>
        /\ success' = [success EXCEPT ![r] = FALSE]
    BY <1>4 DEF ErrorOwnThrows, Fail, vars, channel
  <2>2. State'
    BY <1>0, <1>4, <2>1 DEF State, ending
  <2> QED BY <1>0, <1>4, <2>1, <2>2, QuietStep DEF Traffic
<1>5. CASE RespondOwn(r)
  BY <1>1, <1>2, <1>5 DEF RespondOwn
<1>6. CASE ErrorOwnThrows(r)
  BY <1>2, <1>4, <1>6 DEF ErrorOwnThrows
<1> QED BY <1>3, <1>5, <1>6

LEMMA HandlerThrowsStep == SessionIInv /\ (HandlerThrows \/ CatchThrows) => Stepped
<1> SUFFICES ASSUME SessionIInv, HandlerThrows \/ CatchThrows PROVE Stepped
  OBVIOUS
<1> DEFINE r == Top.of
<1>1. Traffic /\ Running /\ State /\ ~Idle /\ Top.then = "handler"
  BY DEF SessionIInv, HandlerThrows, CatchThrows
<1>2. /\ Pop \in Seq(Frames) /\ r \in arrived \cap Own
      /\ \A i \in DOMAIN Pop : Pop[i].then = "handler" => Pop[i].of \in arrived \cap Own
  BY <1>1, PopRuns
<1>3. r \in Responses
  BY <1>1, <1>2 DEF State
<1>4. CASE HandlerThrows
  <2>1. /\ SendingError(Pop, r, "nothing") /\ UNCHANGED listener
        /\ thrown' = thrown \cup {r}
        /\ UNCHANGED <<arrived, client, ending, unwritable, writable>>
    BY <1>4 DEF HandlerThrows, CatchBlock
  <2> HIDE DEF r
  <2>2. Responds(Pop, r) /\ success' = [success EXCEPT ![r] = FALSE]
    BY <1>1, <1>2, <1>3, <2>1, ErrorTraffic
  <2> QED BY <1>2, <1>3, <2>1, <2>2, AnswerStep
<1>5. CASE CatchThrows
  <2>1. /\ UnwrittenResponse(Pop, r) /\ success' = [success EXCEPT ![r] = FALSE]
        /\ thrown' = thrown \cup {r} /\ unwritable' = unwritable \cup {r}
        /\ Shutdown("error") \/ UNCHANGED <<causes, exitTimer>>
        /\ UNCHANGED <<arrived, client, exited>>
    BY <1>5 DEF CatchThrows, Fail, Escapes
  <2> HIDE DEF r
  <2> QED BY <1>2, <2>1, UnwrittenStep
<1> QED BY <1>4, <1>5

LEMMA ReturnStep == SessionIInv /\ SessionReturn => Stepped
<1> SUFFICES ASSUME SessionIInv, SessionReturn PROVE Stepped
  OBVIOUS
<1>1. /\ Traffic /\ Running /\ State /\ ~Idle /\ stack' = Pop
      /\ UNCHANGED <<sequence, channel, responseSeq, wire, heard>>
      /\ UNCHANGED <<arrived, success, client, exited, thrown, unwritable>>
      /\ Shutdown("disconnect") \/ UNCHANGED <<causes, exitTimer>>
  BY DEF SessionIInv, SessionReturn, Return
<1>2. /\ Pop \in Seq(Frames)
      /\ \A i \in DOMAIN Pop : Pop[i].then = "handler" => Pop[i].of \in arrived \cap Own
  BY <1>1, PopRuns
<1>3. Traffic'
  BY <1>1, <1>2, SameTraffic DEF Traffic, channel
<1>4. Running'
  BY <1>1, <1>2 DEF Running
<1>5. State'
  <2>1. CASE Shutdown("disconnect")
    BY <1>1, <2>1, ShutdownState
  <2>2. CASE UNCHANGED <<causes, exitTimer>>
    BY <1>1, <2>2 DEF State
  <2> QED BY <1>1, <2>1, <2>2
<1>6. Other
  BY <1>1 DEF Other, Begins, channel
<1> QED BY <1>3, <1>4, <1>5, <1>6 DEF Stepped, SessionIInv

LEMMA DispatchStep ==
  ASSUME SessionIInv, NEW r \in Responses, Dispatch(r)
  PROVE  Stepped
<1>1. /\ Traffic /\ Running /\ State /\ stack \in Seq(Frames)
      /\ Arrives(r) /\ arrived \subseteq arrived'
      /\ client' = Settings(r)
      /\ UNCHANGED <<writable, listener, ending, thrown, unwritable>>
  BY DEF SessionIInv, Traffic, Dispatch, Arrives
<1>2. \A i \in DOMAIN stack : stack[i].then = "handler" => stack[i].of \in arrived \cap Own
  BY <1>1 DEF Running
<1>3. ASSUME success' \in {success, [success EXCEPT ![r] = FALSE]} PROVE State'
  <2>1. Settings(r) \in [lines : BOOLEAN, columns : BOOLEAN]
    BY <1>1, SettingsType
  <2> QED BY <1>1, <1>3, <2>1 DEF State, Arrives, ending
<1>4. ASSUME Responds(stack, r), success' \in {success, [success EXCEPT ![r] = FALSE]}
      PROVE  Stepped
  <2>1. Running'
    BY <1>1, <1>2, <1>4, RespondsRuns
  <2>2. Answering(r)
    BY <1>1, <1>4 DEF Answering
  <2>3. State' /\ Traffic'
    BY <1>3, <1>4 DEF Responds
  <2> QED BY <2>1, <2>2, <2>3 DEF Stepped, SessionIInv
<1>5. CASE SendingError(stack, r, "nothing")
  <2>1. Responds(stack, r) /\ success' = [success EXCEPT ![r] = FALSE]
    BY <1>1, <1>5, ErrorTraffic
  <2> QED BY <1>4, <2>1
<1>6. ASSUME NEW then \in {"nothing", "shutdown"},
             SendingResponse(stack, r, then), UNCHANGED success
      PROVE  Stepped
  <2>1. Responds(stack, r)
    BY <1>1, <1>6, ResponseTraffic
  <2> QED BY <1>4, <1>6, <2>1
<1>7. CASE r \in Own /\ ~ Refused(r) /\ EnterHandler(r)
  <2> DEFINE call == [seq |-> 0, then |-> "handler", of |-> r, hosted |-> TRUE]
  <2>1. /\ stack' = Append(stack, call)
        /\ UNCHANGED <<sequence, responseSeq, wire, heard, success>>
    BY <1>7 DEF EnterHandler
  <2>2. call \in Frames
    BY BoundsAssumption DEF Frames
  <2>3. call.then = "handler" => call.of \in arrived' \cap Own
    BY <1>1, <1>7 DEF Arrives
  <2> HIDE DEF call
  <2>4. Running'
    BY <1>1, <1>2, <2>1, <2>2, <2>3, RunsOn
  <2>5. stack' \in Seq(Frames)
    BY <1>1, <2>1, <2>2, AppendProperties
  <2>6. Traffic'
    BY <1>1, <2>1, <2>5, SameTraffic DEF Traffic
  <2>7. Entering(r)
    BY <1>1, <1>7, <2>1 DEF Entering
  <2> QED BY <1>3, <2>1, <2>4, <2>6, <2>7 DEF Stepped, SessionIInv
<1>8. IF Refused(r) THEN SendingError(stack, r, "nothing") ELSE Handle(r)
  BY DEF Dispatch
<1>9. Command[r] \in Commands
  BY SessionAssumption
<1>10. CASE ~ Refused(r) /\ Handle(r)
  BY <1>5, <1>6, <1>7, <1>9, <1>10
  DEF Handle, Commands, initializeRequest, disconnectRequest, customRequest, otherRequest
<1> QED BY <1>5, <1>8, <1>10

LEMMA SessionStep == SessionIInv /\ [SessionNext]_sessionVars => Stepped
<1> SUFFICES ASSUME SessionIInv, [SessionNext]_sessionVars PROVE Stepped
  OBVIOUS
<1>1. CASE UNCHANGED sessionVars
  <2>1. State' /\ listener' \in BOOLEAN
    BY <1>1 DEF SessionIInv, State, Traffic, sessionVars, session, ending, vars, channel
  <2> QED BY <1>1, <2>1, QuietStep DEF sessionVars, session, vars, channel
<1>2. CASE Inherited
  BY <1>2, InheritedStep
<1>3. ASSUME NEW cause \in {"close", "error"}, InputEvent(cause) PROVE Stepped
  BY <1>3, ShutdownStep
<1>4. CASE Sigterm \/ WriteError \/ Exit
  BY <1>4, ShutdownStep
<1>5. ASSUME NEW r \in Responses,
             \/ Dispatch(r)
             \/ RespondOwn(r) \/ ErrorOwn(r) \/ ErrorOwnThrows(r) \/ ShutdownOwn(r)
      PROVE  Stepped
  BY <1>5, DispatchStep, OwnStep, ShutdownStep
<1>6. CASE HandlerThrows \/ CatchThrows
  BY <1>6, HandlerThrowsStep
<1>7. CASE SessionReturn
  BY <1>7, ReturnStep
<1> QED BY <1>1, <1>2, <1>3, <1>4, <1>5, <1>6, <1>7 DEF SessionNext

LEMMA SessionStarts == SessionInit => SessionIInv
<1> SUFFICES ASSUME SessionInit PROVE SessionIInv
  OBVIOUS
<1> USE DEF SessionInit, Init
<1>1. Traffic
  <2>1. sequence \in 1 .. MaxSeq + 1
    BY BoundsAssumption
  <2>5. listener \in BOOLEAN
    OBVIOUS
  <2>2. responseSeq \in [Responses -> 0 .. MaxSeq]
    BY BoundsAssumption
  <2>3. stack \in Seq(Frames) /\ wire \in Seq(Messages) /\ heard \in Seq(Messages)
    BY EmptySeq
  <2>4. Numbered(wire, sequence, responseSeq) /\ Numbered(heard, sequence, responseSeq)
    BY DEF Numbered
  <2> QED BY <2>1, <2>2, <2>3, <2>4, <2>5 DEF Traffic
<1>2. Running
  BY DEF Running
<1>3. State
  BY DEF State
<1> QED BY <1>1, <1>2, <1>3 DEF SessionIInv

THEOREM SessionInvariance == SessionSafeSpec => []SessionIInv
<1>1. SessionIInv /\ [SessionNext]_sessionVars => SessionIInv'
  BY SessionStep DEF Stepped
<1> QED BY <1>1, SessionStarts, PTL DEF SessionSafeSpec

\* The types hold, also while handlers, listeners and hosts call each other, and
\* only the timer of shutdown() ends the process (debugSession.ts:448-457).
THEOREM SessionTypesHold == SessionSafeSpec => []SessionTypeOK
<1> QED BY SessionInvariance, TypesHold, PTL

\* A response object reaches the stream and the listener at most once, whatever the
\* handlers of a subclass do with it: when they answer late, twice, or throw after
\* they have answered (debugSession.ts:480-487, 640-642; protocol.ts:153-159).
THEOREM SessionAnswersOnce == SessionSafeSpec => []ResponseOnce
<1>1. SessionIInv => ResponseOnce
  BY OnceIfNumbered DEF SessionIInv, Traffic
<1> QED BY <1>1, SessionInvariance, PTL

-----------------------------------------------------------------------------
(* No request is lost *)

OnStream == "inline" \notin Modes

\* What the session has to answer is answered.  Answers are given to requests that
\* have arrived, so after the session was started, and since then they are on the
\* stream while that is open, or could not be written.
Reported ==
    /\ \A r \in ToAnswer : responseSeq[r] > 0
    /\ \A r \in Responses : responseSeq[r] > 0 => r \in arrived
    /\ arrived # {} => writable # "none"
    /\ \A r \in Responses :
         responseSeq[r] > 0 /\ writable = "open" => Delivered(r) \/ r \in unwritable

LEMMA DeliveredLasts ==
  ASSUME NEW r, Begins(wire, wire'), Begins(heard, heard'), Delivered(r)
  PROVE  Delivered(r)'
<1>1. HoldsResponse(wire, r) \/ HoldsResponse(heard, r)
  BY DEF Delivered, HoldsResponse
<1>2. HoldsResponse(wire', r) \/ HoldsResponse(heard', r)
  BY <1>1 DEF HoldsResponse, Begins
<1> QED BY <1>2 DEF Delivered, HoldsResponse

LEMMA ReportedStep ==
  ASSUME OnStream, SessionIInv, Reported, Stepped
  PROVE  Reported'
<1>0. /\ arrived \subseteq Responses /\ thrown \subseteq arrived
      /\ responseSeq \in [Responses -> 0 .. MaxSeq]
  BY DEF SessionIInv, State, Traffic
<1>1. CASE Other
  <2>1. /\ UNCHANGED <<arrived, thrown, unwritable, responseSeq>>
        /\ Begins(wire, wire') /\ Begins(heard, heard')
    BY <1>1 DEF Other
  <2>2. arrived # {} => writable' # "none" /\ (writable' = "open" => writable = "open")
    BY <1>1 DEF Other, Reported
  <2>3. ASSUME NEW r \in Responses, responseSeq'[r] > 0, writable' = "open"
        PROVE  Delivered(r)' \/ r \in unwritable'
    BY <2>1, <2>2, <2>3, DeliveredLasts DEF Reported
  <2>4. ToAnswer' = ToAnswer
    BY <2>1 DEF ToAnswer, Refused
  <2> QED BY <2>1, <2>2, <2>3, <2>4 DEF Reported
\* Request r is answered, or its response could not be written.
<1>2. ASSUME NEW r \in Responses, responseSeq'[r] > 0,
             \A q \in Responses : q # r => responseSeq'[q] = responseSeq[q],
             arrived' = arrived \cup {r}, r \in arrived \/ writable # "none",
             thrown' \in {thrown, thrown \cup {r}}, unwritable \subseteq unwritable',
             Begins(wire, wire'), Begins(heard, heard'), writable' = writable,
             \/ responseSeq[r] > 0 \/ r \in unwritable'
             \/ writable = "open" => HoldsResponse(wire', r)
      PROVE  Reported'
  <2>1. ToAnswer' \subseteq ToAnswer \cup {r} /\ ToAnswer \subseteq Responses
    BY <1>0, <1>2 DEF ToAnswer, Refused
  <2>2. \A q \in ToAnswer' : responseSeq'[q] > 0
    BY <1>2, <2>1 DEF Reported
  <2>3. \A q \in Responses : responseSeq'[q] > 0 => q \in arrived'
    BY <1>2 DEF Reported
  <2>4. writable' # "none"
    BY <1>2 DEF Reported
  <2>5. ASSUME NEW q \in Responses, responseSeq'[q] > 0, writable' = "open"
        PROVE  Delivered(q)' \/ q \in unwritable'
    <3>1. CASE responseSeq[q] > 0
      BY <1>2, <2>5, <3>1, DeliveredLasts DEF Reported
    <3>2. CASE ~(responseSeq[q] > 0)
      <4>1. q = r
        BY <1>2, <2>5, <3>2
      <4>2. HoldsResponse(wire', q) \/ q \in unwritable'
        BY <1>2, <2>5, <3>2, <4>1
      <4> QED BY <4>2 DEF Delivered, HoldsResponse
    <3> QED BY <3>1, <3>2
  <2> QED BY <2>2, <2>3, <2>4, <2>5 DEF Reported
<1>3. ASSUME NEW r \in Responses, Answering(r) PROVE Reported'
  <2>1. /\ Begins(wire, wire') /\ Begins(heard, heard') /\ responseSeq'[r] > 0
        /\ \A q \in Responses : q # r => responseSeq'[q] = responseSeq[q]
        /\ responseSeq[r] > 0 \/ (writable = "open" => HoldsResponse(wire', r))
        /\ UNCHANGED <<writable, unwritable>> /\ thrown' \in {thrown, thrown \cup {r}}
    BY <1>3 DEF Answering, Responds
  <2>2. arrived' = arrived \cup {r} /\ (r \in arrived \/ writable # "none")
    BY <1>3 DEF Answering, Arrives, CanArrive, OnStream
  <2> QED BY <1>2, <2>1, <2>2
<1>4. ASSUME NEW r \in Responses, Unwriting(r) PROVE Reported'
  <2>1. /\ Begins(wire, wire') /\ Begins(heard, heard') /\ responseSeq'[r] > 0
        /\ \A q \in Responses : q # r => responseSeq'[q] = responseSeq[q]
        /\ arrived' = arrived \cup {r} /\ r \in arrived
        /\ thrown' \in {thrown, thrown \cup {r}}
        /\ unwritable \subseteq unwritable' /\ r \in unwritable' /\ writable' = writable
    BY <1>4 DEF Unwriting, Begins
  <2> QED BY <1>2, <2>1
<1>5. ASSUME NEW r \in Responses, Entering(r) PROVE Reported'
  <2>1. /\ UNCHANGED <<responseSeq, wire, heard, writable, thrown, unwritable>>
        /\ arrived' = arrived \cup {r} /\ writable # "none" /\ r \in Own /\ ~ Refused(r)
    BY <1>5 DEF Entering, Arrives, CanArrive, OnStream
  <2>2. \A q \in Responses : Delivered(q)' <=> Delivered(q)
    BY <2>1 DEF Delivered
  <2>3. ToAnswer' = ToAnswer
    BY <2>1 DEF ToAnswer, Refused
  <2> QED BY <2>1, <2>2, <2>3 DEF Reported
<1> QED BY <1>1, <1>3, <1>4, <1>5 DEF Stepped

\* On a stream, every request that the session has to answer has its answer: whatever
\* the subclass sends, however its handlers throw, and although an exception may
\* come after an object was marked as a failure or was numbered.  Only a response of
\* a handler that cannot be written as JSON is lost (debugSession.ts:480-487,
\* 640-642; protocol.ts:200-203).  Inline, the host may dispose its listener before
\* the answer is due.
THEOREM NoRequestIsLost ==
  ASSUME OnStream
  PROVE  SessionSafeSpec => []NoRequestLost
<1>1. SessionInit => Reported
  BY DEF SessionInit, Init, Reported, ToAnswer
<1>2. SessionIInv /\ Reported /\ [SessionNext]_sessionVars => Reported'
  BY OnStream, SessionStep, ReportedStep
<1>3. SessionIInv /\ Reported => NoRequestLost
  <2> SUFFICES ASSUME SessionIInv, Reported, NEW r \in ToAnswer, writable = "open"
               PROVE  Delivered(r) \/ (r \in Own /\ r \in unwritable)
    BY DEF NoRequestLost
  <2>1. r \in Responses /\ unwritable \subseteq Own
    BY DEF ToAnswer, SessionIInv, State
  <2> QED BY <2>1 DEF Reported
<1> QED BY <1>1, <1>2, <1>3, SessionInvariance, PTL DEF SessionSafeSpec

-----------------------------------------------------------------------------
(* The requests of the session, among its handlers *)

\* Frame i of a stack is a call of sendRequest that has yet to store its callback.
Registers(frames, i, s) ==
    i \in DOMAIN frames /\ frames[i].then = "register" /\ frames[i].seq = s

\* A request is being stored by one call, and in one place.
Asking ==
    /\ pendingRequests \subseteq Seqs /\ wants \subseteq Seqs
    /\ calls \in [Seqs -> Seq({"response", "timeout"})]
    /\ OnePlace
    /\ \A i, j, s : Registers(stack, i, s) /\ Registers(stack, j, s) => i = j
    /\ \A i, s : Registers(stack, i, s) => s \in Seqs /\ s < sequence
    /\ \A s \in wants : s < sequence

\* A step that leaves the requests and the calls of sendRequest as they are.
Calm ==
    /\ UNCHANGED <<pendingRequests, timers, calls, wants>>
    /\ sequence' \in {sequence, sequence + 1}
    /\ \E callers \in Seq(Frames) :
         /\ callers = stack \/ (~Idle /\ Top.then # "register" /\ callers = Pop)
         /\ \/ stack' = callers
            \/ \E call \in Frames : call.then # "register" /\ stack' = Append(callers, call)

LEMMA FramesOnStack ==
  ASSUME Traffic
  PROVE  /\ DOMAIN stack = 1 .. Len(stack) /\ Len(stack) \in Nat
         /\ \A i \in DOMAIN stack : stack[i] \in Frames /\ stack[i].seq \in 0 .. MaxSeq
         /\ \A s : Registering(s) <=> \E i : Registers(stack, i, s)
<1>1. stack \in Seq(Frames)
  BY DEF Traffic
<1>2. /\ DOMAIN stack = 1 .. Len(stack) /\ Len(stack) \in Nat
      /\ \A i \in DOMAIN stack : stack[i] \in Frames
  BY <1>1, LenProperties, ElementOfSeq
<1>3. \A i \in DOMAIN stack : stack[i].seq \in 0 .. MaxSeq
  BY <1>2 DEF Frames
<1> QED BY <1>2, <1>3 DEF Registering, Registers

\* A return, and a message that is no request with a callback.
LEMMA PopRegisters ==
  ASSUME Traffic, ~Idle
  PROVE  /\ Pop \in Seq(Frames)
         /\ \A i, s : Registers(Pop, i, s) => Registers(stack, i, s)
         /\ \A i, s : Registers(stack, i, s) =>
               \/ Registers(Pop, i, s)
               \/ i = Len(stack) /\ Top.then = "register" /\ Top.seq = s
         /\ ~ \E s : Registers(Pop, Len(stack), s)
<1>1. stack \in Seq(Frames)
  BY DEF Traffic
<1>2. Len(stack) \in Nat \ {0} /\ DOMAIN stack = 1 .. Len(stack)
  BY <1>1, LenProperties, EmptySeq DEF Idle
<1>3. /\ Pop \in Seq(Frames)
      /\ Len(Pop) = Len(stack) - 1
      /\ \A i \in 1 .. Len(Pop) : Pop[i] = stack[i]
  BY <1>1, <1>2, SubSeqProperties DEF Pop
<1>4. DOMAIN Pop = 1 .. Len(stack) - 1
  BY <1>3, LenProperties
<1>5. /\ DOMAIN Pop \subseteq DOMAIN stack /\ Len(stack) \notin DOMAIN Pop
      /\ \A i \in DOMAIN stack : i \in DOMAIN Pop \/ i = Len(stack)
      /\ \A i \in DOMAIN Pop : Pop[i] = stack[i]
  BY <1>2, <1>3, <1>4
<1> QED BY <1>3, <1>5 DEF Registers, Top

LEMMA AppendRegisters ==
  ASSUME NEW frames \in Seq(Frames), NEW call \in Frames
  PROVE  /\ Append(frames, call) \in Seq(Frames)
         /\ \A i, s : Registers(Append(frames, call), i, s) <=>
               \/ Registers(frames, i, s)
               \/ i = Len(frames) + 1 /\ call.then = "register" /\ call.seq = s
         /\ ~ \E s : Registers(frames, Len(frames) + 1, s)
<1> DEFINE longer == Append(frames, call)
<1>1. /\ longer \in Seq(Frames) /\ Len(frames) \in Nat
      /\ DOMAIN frames = 1 .. Len(frames) /\ DOMAIN longer = 1 .. Len(frames) + 1
      /\ longer[Len(frames) + 1] = call /\ \A i \in 1 .. Len(frames) : longer[i] = frames[i]
  BY AppendProperties, LenProperties
<1> HIDE DEF longer
<1>2. /\ Len(frames) + 1 \in DOMAIN longer /\ Len(frames) + 1 \notin DOMAIN frames
      /\ DOMAIN frames \subseteq DOMAIN longer
      /\ \A i \in DOMAIN longer : i \in DOMAIN frames \/ i = Len(frames) + 1
  BY <1>1
<1>3. \A i \in DOMAIN frames : longer[i] = frames[i]
  BY <1>1
<1>4. \A i, s : Registers(longer, i, s) <=>
               \/ Registers(frames, i, s)
               \/ i = Len(frames) + 1 /\ call.then = "register" /\ call.seq = s
  BY <1>1, <1>2, <1>3 DEF Registers
<1>5. ~ \E s : Registers(frames, Len(frames) + 1, s)
  BY <1>2 DEF Registers
<1> QED BY <1>1, <1>4, <1>5 DEF longer

LEMMA CalmAsking ==
  ASSUME SessionIInv, SessionIInv', Asking, Calm
  PROVE  Asking'
<1>1. Traffic /\ Traffic'
  BY DEF SessionIInv
<1>2. \A i, s : Registers(stack', i, s) <=> Registers(stack, i, s)
  <2>1. PICK callers \in Seq(Frames) :
         /\ callers = stack \/ (~Idle /\ Top.then # "register" /\ callers = Pop)
         /\ \/ stack' = callers
            \/ \E call \in Frames : call.then # "register" /\ stack' = Append(callers, call)
    BY DEF Calm
  <2>2. \A i, s : Registers(callers, i, s) <=> Registers(stack, i, s)
    BY <1>1, <2>1, PopRegisters
  <2>3. \A i, s : Registers(stack', i, s) <=> Registers(callers, i, s)
    <3>1. CASE stack' = callers
      BY <3>1
    <3>2. ASSUME NEW call \in Frames, call.then # "register", stack' = Append(callers, call)
          PROVE  \A i, s : Registers(stack', i, s) <=> Registers(callers, i, s)
      <4>1. \A i, s : Registers(Append(callers, call), i, s) <=> Registers(callers, i, s)
        BY <3>2, AppendRegisters
      <4> QED BY <3>2, <4>1
    <3> QED BY <2>1, <3>1, <3>2
  <2> QED BY <2>2, <2>3
<1>3. sequence \in Nat /\ sequence <= sequence' /\ sequence' \in Nat
  BY <1>1, BoundsAssumption DEF Traffic, Calm
<1>4. \A i, s : Registers(stack, i, s) => s \in Nat
  BY <1>1, FramesOnStack DEF Registers
<1>5. /\ \A i, j, s : Registers(stack', i, s) /\ Registers(stack', j, s) => i = j
      /\ \A i, s : Registers(stack', i, s) => s \in Seqs /\ s < sequence'
  BY <1>2, <1>3, <1>4 DEF Asking
<1>6. \A s \in wants' : s < sequence'
  BY <1>3 DEF Asking, Calm, Seqs
<1>7. \A s : Registering(s)' <=> Registering(s)
  <2>1. \A s : Registering(s) <=> \E i : Registers(stack, i, s)
    BY <1>1, FramesOnStack
  <2>2. \A s : Registering(s)' <=> \E i : Registers(stack', i, s)
    BY DEF Registering, Registers
  <2> QED BY <1>2, <2>1, <2>2
<1>8. OnePlace'
  <2> SUFFICES ASSUME NEW s \in Seqs PROVE InOnePlace(s)'
    BY DEF OnePlace
  <2>1. InOnePlace(s)
    BY DEF Asking, OnePlace
  <2> QED BY <1>7, <2>1 DEF InOnePlace, Calm
<1>9. /\ pendingRequests' \subseteq Seqs /\ wants' \subseteq Seqs
      /\ calls' \in [Seqs -> Seq({"response", "timeout"})]
  BY DEF Asking, Calm
<1> QED BY <1>5, <1>6, <1>8, <1>9 DEF Asking, Registers

\* The answers of a session are calm.
LEMMA AnswersCalmly ==
  ASSUME SessionIInv, NEW r \in Responses, NEW callers \in Seq(Frames),
         callers = stack \/ (~Idle /\ Top.then # "register" /\ callers = Pop),
         NEW then \in {"nothing", "shutdown"},
         SendingResponse(callers, r, then) \/ SendingError(callers, r, then),
         UNCHANGED <<asking, wants>>
  PROVE  Calm
<1>1. UNCHANGED <<pendingRequests, timers, calls, wants>>
  BY DEF asking
<1>2. CASE SendingResponse(callers, r, then)
  <2> DEFINE call == Call(Message("response", r), then)
  <2>1. /\ sequence <= MaxSeq /\ sequence' = sequence + 1
        /\ stack' = Append(callers, call)
    BY <1>2 DEF SendingResponse, _send
  <2>2. call \in Frames /\ call.then = then
    BY <2>1, BoundsAssumption DEF Call, Message, Frames, SessionIInv, Traffic
  <2> HIDE DEF call
  <2> QED BY <1>1, <2>1, <2>2 DEF Calm
<1>3. CASE SendingError(callers, r, then) /\ ~ SendingResponse(callers, r, then)
  <2>1. stack' = callers /\ UNCHANGED sequence
    BY <1>3 DEF SendingError
  <2> QED BY <1>1, <2>1 DEF Calm
<1> QED BY <1>2, <1>3

LEMMA SendsRequest ==
  ASSUME SessionIInv, SessionIInv', Asking, SendRequest(TRUE)
  PROVE  Asking'
<1> DEFINE call == Call(Message("request", NoResponse), "register")
<1>1. /\ sequence <= MaxSeq /\ sequence' = sequence + 1
      /\ stack' = Append(stack, call) /\ wants' = wants \cup {sequence}
      /\ UNCHANGED <<pendingRequests, timers, calls>>
  BY DEF SendRequest, _send, asking
<1>2. /\ sequence \in Seqs /\ sequence \in Nat
      /\ stack \in Seq(Frames) /\ Traffic
  BY <1>1, BoundsAssumption DEF SessionIInv, Traffic, Seqs
<1>3. call \in Frames /\ call.then = "register" /\ call.seq = sequence
  BY <1>1, <1>2, BoundsAssumption DEF Call, Message, Frames, SessionIInv, Traffic
<1> HIDE DEF call
<1>4. /\ \A i, s : Registers(stack', i, s) <=>
             Registers(stack, i, s) \/ (i = Len(stack) + 1 /\ s = sequence)
      /\ ~ \E s : Registers(stack, Len(stack) + 1, s)
  BY <1>1, <1>2, <1>3, AppendRegisters
<1>5. \A i, s : Registers(stack, i, s) => s \in Nat /\ s < sequence
  BY <1>2, FramesOnStack DEF Asking, Registers
<1>6. /\ \A i, j, s : Registers(stack', i, s) /\ Registers(stack', j, s) => i = j
      /\ \A i, s : Registers(stack', i, s) => s \in Seqs /\ s < sequence'
  <2>1. ~ \E i : Registers(stack, i, sequence)
    BY <1>2, <1>5
  <2>2. \A s \in Nat : s < sequence => s < sequence'
    BY <1>1, <1>2
  <2>3. sequence < sequence'
    BY <1>1, <1>2
  <2>4. ASSUME NEW i, NEW j, NEW s, Registers(stack', i, s), Registers(stack', j, s) PROVE i = j
    <3>1. /\ Registers(stack, i, s) \/ (i = Len(stack) + 1 /\ s = sequence)
          /\ Registers(stack, j, s) \/ (j = Len(stack) + 1 /\ s = sequence)
      BY <1>4, <2>4
    <3>2. CASE s = sequence
      BY <2>1, <3>1, <3>2
    <3>3. CASE s # sequence
      BY <3>1, <3>3 DEF Asking
    <3> QED BY <3>2, <3>3
  <2>5. ASSUME NEW i, NEW s, Registers(stack', i, s) PROVE s \in Seqs /\ s < sequence'
    <3>1. CASE Registers(stack, i, s)
      BY <1>5, <2>2, <3>1 DEF Asking
    <3>2. CASE s = sequence
      BY <1>2, <2>3, <3>2
    <3> QED BY <1>4, <2>5, <3>1, <3>2
  <2> QED BY <2>4, <2>5
<1>7. \A s \in wants' : s < sequence'
  BY <1>1, <1>2 DEF Asking, Seqs
<1>8. sequence \notin wants
  BY <1>2 DEF Asking
<1>9. \A s : Registering(s)' <=> Registering(s) \/ s = sequence
  <2>1. \A s : Registering(s) <=> \E i : Registers(stack, i, s)
    BY <1>2, FramesOnStack
  <2>2. \A s : Registering(s)' <=> \E i : Registers(stack', i, s)
    BY DEF Registering, Registers
  <2> QED BY <1>4, <2>1, <2>2
<1>10. OnePlace'
  <2> SUFFICES ASSUME NEW s \in Seqs PROVE InOnePlace(s)'
    BY DEF OnePlace
  <2>1. InOnePlace(s)
    BY DEF Asking, OnePlace
  <2>2. CASE s = sequence
    BY <1>1, <1>8, <1>9, <2>1, <2>2 DEF InOnePlace
  <2>3. CASE s # sequence
    BY <1>1, <1>9, <2>1, <2>3 DEF InOnePlace
  <2> QED BY <2>2, <2>3
<1>11. /\ pendingRequests' \subseteq Seqs /\ wants' \subseteq Seqs
       /\ calls' \in [Seqs -> Seq({"response", "timeout"})]
  BY <1>1, <1>2 DEF Asking
<1> QED BY <1>6, <1>7, <1>10, <1>11 DEF Asking, Registers

\* sendRequest goes on, and stores the callback.
LEMMA StoresRequest ==
  ASSUME SessionIInv, Asking, Return, Top.then = "register"
  PROVE  Asking'
<1>1. /\ ~Idle /\ stack' = Pop /\ Traffic
      /\ pendingRequests' = pendingRequests \cup {Top.seq} /\ timers' = timers \cup {Top.seq}
      /\ UNCHANGED <<sequence, calls, wants>>
  BY DEF SessionIInv, Return, Register
<1>2. /\ \A i, s : Registers(stack', i, s) => Registers(stack, i, s)
      /\ \A i, s : Registers(stack, i, s) => Registers(stack', i, s) \/ (i = Len(stack) /\ s = Top.seq)
      /\ ~ \E s : Registers(stack', Len(stack), s)
  BY <1>1, PopRegisters
<1>3. Registers(stack, Len(stack), Top.seq) /\ Top.seq \in 0 .. MaxSeq
  <2>1. Len(stack) \in DOMAIN stack
    BY <1>1, FramesOnStack, EmptySeq DEF Idle, Traffic
  <2> QED BY <1>1, <2>1, FramesOnStack DEF Registers, Top
<1>4. \A s : Registering(s)' <=> Registering(s) /\ s # Top.seq
  <2>1. \A s : Registering(s) <=> \E i : Registers(stack, i, s)
    BY <1>1, FramesOnStack
  <2>2. \A s : Registering(s)' <=> \E i : Registers(stack', i, s)
    BY DEF Registering, Registers
  <2>3. ~ \E i : Registers(stack', i, Top.seq)
    BY <1>2, <1>3 DEF Asking
  <2> QED BY <1>2, <2>1, <2>2, <2>3
<1>5. Registering(Top.seq)
  BY <1>1, <1>3, FramesOnStack
<1>6. /\ \A i, j, s : Registers(stack', i, s) /\ Registers(stack', j, s) => i = j
      /\ \A i, s : Registers(stack', i, s) => s \in Seqs /\ s < sequence'
      /\ \A s \in wants' : s < sequence'
  BY <1>1, <1>2 DEF Asking
<1>7. /\ pendingRequests' \subseteq Seqs /\ wants' \subseteq Seqs
      /\ calls' \in [Seqs -> Seq({"response", "timeout"})]
  BY <1>1, <1>3 DEF Asking
<1>8. OnePlace'
  <2> SUFFICES ASSUME NEW s \in Seqs PROVE InOnePlace(s)'
    BY DEF OnePlace
  <2>1. InOnePlace(s)
    BY DEF Asking, OnePlace
  <2>2. CASE s = Top.seq
    BY <1>1, <1>4, <1>5, <2>1, <2>2 DEF InOnePlace
  <2>3. CASE s # Top.seq
    BY <1>1, <1>4, <2>1, <2>3 DEF InOnePlace
  <2> QED BY <2>2, <2>3
<1> QED BY <1>6, <1>7, <1>8 DEF Asking, Registers

\* A callback is called: with an answer, or when its timer fires.
LEMMA CallsBack ==
  ASSUME Asking, NEW s \in Seqs, HandleResponse(s) \/ Timer(s)
  PROVE  Asking'
<1>1. UNCHANGED <<sequence, stack, wants>> /\ timers' \in {timers, timers \ {s}}
  BY DEF HandleResponse, Timer
<1>2. CASE \E by \in {"response", "timeout"} : CallBack(s, by) /\ s \in pendingRequests
  <2>1. /\ pendingRequests' = pendingRequests \ {s} /\ OnePlace'
        /\ calls' \in [Seqs -> Seq({"response", "timeout"})]
    BY <1>1, <1>2, CallBackOnePlace DEF Asking
  <2> QED BY <1>1, <2>1 DEF Asking, Registers
<1>3. CASE UNCHANGED <<pendingRequests, calls>> /\ (timers' = timers \/ s \notin pendingRequests)
  <2>1. OnePlace'
    <3> SUFFICES ASSUME NEW t \in Seqs PROVE InOnePlace(t)'
      BY DEF OnePlace
    <3>1. InOnePlace(t) /\ (Registering(t)' <=> Registering(t))
      BY <1>1 DEF Asking, OnePlace, Registering
    <3> QED BY <1>1, <1>3, <3>1 DEF InOnePlace
  <2> QED BY <1>1, <1>3, <2>1 DEF Asking, Registers
<1> QED BY <1>1, <1>2, <1>3 DEF HandleResponse, Timer, TimesOut

\* What a step does to the requests.
AskingSteps ==
    \/ Calm
    \/ SendRequest(TRUE)
    \/ Return /\ Top.then = "register"
    \/ \E s \in Seqs : HandleResponse(s) \/ Timer(s)

LEMMA StillCalm ==
  ASSUME SessionIInv, UNCHANGED <<asking, wants, stack>>, sequence' \in {sequence, sequence + 1}
  PROVE  Calm
<1>1. stack \in Seq(Frames)
  BY DEF SessionIInv, Traffic
<1> QED BY <1>1 DEF Calm, asking

LEMMA UnwrittenAsks ==
  ASSUME SessionIInv, NEW r \in Responses, SendResponseThrows(r)
  PROVE  AskingSteps
<1>1. UNCHANGED <<asking, wants, stack>> /\ sequence' = sequence + 1
  BY DEF SendResponseThrows, UnwrittenResponse, Unwritten
<1> QED BY <1>1, StillCalm DEF AskingSteps

LEMMA InheritedAsks == SessionIInv /\ Inherited => AskingSteps
<1> SUFFICES ASSUME SessionIInv, Inherited PROVE AskingSteps
  OBVIOUS
<1>1. CASE Start \/ Stop \/ Subscribe \/ Dispose \/ SendOtherThrows
  <2>1. UNCHANGED <<asking, wants, stack>> /\ sequence' \in {sequence, sequence + 1}
    BY <1>1 DEF Start, Stop, Subscribe, Dispose, SendOtherThrows, Unwritten
  <2> QED BY <2>1, StillCalm DEF AskingSteps
<1>2. ASSUME NEW type \in {"event", "request"}, UNCHANGED <<asking, wants>>,
             _send(stack, Message(type, NoResponse), "nothing")
      PROVE  Calm
  <2> DEFINE call == Call(Message(type, NoResponse), "nothing")
  <2>1. /\ sequence <= MaxSeq /\ sequence' = sequence + 1 /\ stack' = Append(stack, call)
        /\ UNCHANGED <<pendingRequests, timers, calls, wants>>
    BY <1>2 DEF _send, asking
  <2>2. stack \in Seq(Frames) /\ call \in Frames /\ call.then = "nothing"
    BY <2>1, BoundsAssumption DEF Call, Message, Frames, SessionIInv, Traffic
  <2> HIDE DEF call
  <2> QED BY <2>1, <2>2 DEF Calm
<1>3. CASE SendEvent
  BY <1>2, <1>3 DEF SendEvent, AskingSteps
<1>4. CASE \E cb \in BOOLEAN : SendRequest(cb)
  <2>1. CASE SendRequest(FALSE)
    BY <1>2, <2>1 DEF SendRequest, AskingSteps
  <2> QED BY <1>4, <2>1 DEF AskingSteps
<1> QED BY <1>1, <1>3, <1>4 DEF Inherited, AskingSteps

LEMMA SessionAsks == SessionIInv /\ [SessionNext]_sessionVars => AskingSteps
<1> SUFFICES ASSUME SessionIInv, [SessionNext]_sessionVars PROVE AskingSteps
  OBVIOUS
<1>0. stack \in Seq(Frames) /\ Traffic /\ Running /\ State
  BY DEF SessionIInv, Traffic
<1>1. CASE UNCHANGED vars
  BY <1>1, StillCalm DEF vars, AskingSteps
<1>2. CASE Inherited
  BY <1>2, InheritedAsks
<1>3. ASSUME NEW cause, InputEvent(cause) PROVE AskingSteps
  BY <1>1, <1>3 DEF InputEvent
<1>4. CASE Sigterm
  BY <1>3, <1>4 DEF Sigterm
<1>5. CASE WriteError
  BY <1>5, StillCalm DEF WriteError, EmitWriteError, AskingSteps
<1>6. CASE Exit
  BY <1>1, <1>6 DEF Exit
<1>7. ASSUME NEW r \in Responses, Dispatch(r) PROVE AskingSteps
  <2>1. UNCHANGED <<asking, wants>>
    BY <1>7 DEF Dispatch
  <2>2. CASE \/ SendingError(stack, r, "nothing")
             \/ \E then \in {"nothing", "shutdown"} : SendingResponse(stack, r, then)
    BY <1>0, <2>1, <2>2, AnswersCalmly DEF AskingSteps
  <2>3. CASE EnterHandler(r)
    <3> DEFINE call == [seq |-> 0, then |-> "handler", of |-> r, hosted |-> TRUE]
    <3>1. /\ stack' = Append(stack, call) /\ UNCHANGED sequence
          /\ UNCHANGED <<pendingRequests, timers, calls, wants>>
      BY <2>1, <2>3 DEF EnterHandler, asking
    <3>2. call \in Frames /\ call.then # "register"
      BY BoundsAssumption DEF Frames
    <3> HIDE DEF call
    <3> QED BY <1>0, <3>1, <3>2 DEF Calm, AskingSteps
  <2>4. Command[r] \in Commands
    BY SessionAssumption
  <2>5. SendingError(stack, r, "nothing") \/ Handle(r)
    BY <1>7 DEF Dispatch
  <2> QED BY <2>2, <2>3, <2>4, <2>5
          DEF Handle, Commands, initializeRequest, disconnectRequest, customRequest, otherRequest
<1>8. ASSUME NEW r \in Responses, RespondOwn(r) PROVE AskingSteps
  <2>1. CASE SendResponse(r)
    BY <1>0, <2>1, AnswersCalmly DEF SendResponse, AskingSteps
  <2>2. CASE SendResponseThrows(r)
    BY <2>2, UnwrittenAsks
  <2> QED BY <1>8, <2>1, <2>2 DEF RespondOwn
<1>9. ASSUME NEW r \in Responses, ErrorOwn(r) PROVE AskingSteps
  BY <1>0, <1>9, AnswersCalmly DEF ErrorOwn, AskingSteps
<1>14. ASSUME NEW r \in Responses, ErrorOwnThrows(r) PROVE AskingSteps
  BY <1>1, <1>14, UnwrittenAsks DEF ErrorOwnThrows
<1>15. CASE CatchThrows
  <2>1. /\ ~Idle /\ Top.then # "register" /\ stack' = Pop /\ sequence' = sequence + 1
        /\ UNCHANGED <<pendingRequests, timers, calls, wants>>
    BY <1>15 DEF CatchThrows, UnwrittenResponse, Unwritten, asking
  <2>2. Pop \in Seq(Frames)
    BY <1>0, <2>1, PopRegisters
  <2> QED BY <2>1, <2>2 DEF Calm, AskingSteps
<1>10. ASSUME NEW r \in Responses, ShutdownOwn(r) PROVE AskingSteps
  BY <1>1, <1>10 DEF ShutdownOwn
<1>11. CASE HandlerThrows
  <2>1. ~Idle /\ Top.then = "handler" /\ UNCHANGED <<asking, wants>> /\ SendingError(Pop, Top.of, "nothing")
    BY <1>11 DEF HandlerThrows, CatchBlock
  <2>2. Pop \in Seq(Frames) /\ Top.of \in Responses
    BY <1>0, <2>1, PopRuns DEF State
  <2>3. Top.then # "register"
    BY <2>1
  <2> QED BY <2>1, <2>2, <2>3, AnswersCalmly DEF AskingSteps
<1>12. CASE SessionReturn
  <2>1. Return /\ ~Idle /\ stack' = Pop
    BY <1>12 DEF SessionReturn, Return
  <2>2. CASE Top.then # "register"
    <3>1. UNCHANGED <<pendingRequests, timers, calls, wants, sequence>>
      BY <2>1, <2>2 DEF Return
    <3>2. Pop \in Seq(Frames)
      BY <1>0, <2>1, PopRegisters
    <3> QED BY <2>1, <2>2, <3>1, <3>2 DEF Calm, AskingSteps
  <2> QED BY <2>1, <2>2 DEF AskingSteps
<1>13. CASE UNCHANGED sessionVars
  BY <1>1, <1>13 DEF sessionVars
<1> QED BY <1>2, <1>3, <1>4, <1>5, <1>6, <1>7, <1>8, <1>9, <1>10, <1>11, <1>12, <1>13,
           <1>14, <1>15
        DEF SessionNext

LEMMA AskingStep ==
  ASSUME SessionIInv, SessionIInv', Asking, AskingSteps
  PROVE  Asking' /\ [Promise!Next]_(Promise!vars)
<1>1. CASE Calm
  BY <1>1, CalmAsking DEF Calm, Promise!vars
<1>2. CASE SendRequest(TRUE)
  <2>1. sequence <= MaxSeq /\ wants' = wants \cup {sequence} /\ calls' = calls
    BY <1>2 DEF SendRequest, _send, asking
  <2>2. sequence \in Seqs /\ sequence \notin wants
    BY <2>1, BoundsAssumption DEF SessionIInv, Traffic, Asking, Seqs
  <2>3. Promise!Ask(sequence)
    BY <2>1, <2>2 DEF Promise!Ask
  <2> QED BY <1>2, <2>2, <2>3, SendsRequest DEF Promise!Next
<1>3. CASE Return /\ Top.then = "register"
  BY <1>3, StoresRequest DEF Return, Promise!vars
<1>4. ASSUME NEW s \in Seqs, HandleResponse(s) \/ Timer(s)
      PROVE  Asking' /\ [Promise!Next]_(Promise!vars)
  <2>1. Asking'
    BY <1>4, CallsBack
  <2>2. wants' = wants
    BY <1>4 DEF HandleResponse, Timer
  <2>3. CASE calls' = calls
    BY <2>1, <2>2, <2>3 DEF Promise!vars
  <2>4. CASE calls' # calls
    <3>1. \E by \in {"response", "timeout"} : CallBack(s, by) /\ s \in pendingRequests
      BY <1>4, <2>4 DEF HandleResponse, Timer, TimesOut
    <3>2. Promise!Next
      BY <2>2, <3>1, CompletesOnce DEF Asking
    <3> QED BY <2>1, <3>2
  <2> QED BY <2>3, <2>4
<1> QED BY <1>1, <1>2, <1>3, <1>4 DEF AskingSteps

LEMMA AskingStarts == SessionInit => Asking /\ Promise!Init
<1> SUFFICES ASSUME SessionInit PROVE Asking /\ Promise!Init
  OBVIOUS
<1> USE DEF SessionInit, Init
<1>1. calls \in [Seqs -> Seq({"response", "timeout"})]
  BY EmptySeq
<1>2. OnePlace
  BY EmptySeq DEF OnePlace, InOnePlace, Registering
<1>3. \A i, s : ~ Registers(stack, i, s)
  BY DEF Registers
<1> QED BY <1>1, <1>2, <1>3 DEF Asking, Promise!Init

\* A session keeps what sendRequest promises, although its requests are made, stored
\* and answered among the frames of its handlers: a callback is called only for a
\* request that was made with it, once, with an answer or a timeout
\* (protocol.ts:161-184, debugSession.ts:495-642).
THEOREM SessionKeepsPromise == SessionSafeSpec => PromiseSafe
<1>1. SessionIInv /\ SessionIInv' /\ Asking /\ [SessionNext]_sessionVars
      => Asking' /\ [Promise!Next]_(Promise!vars)
  BY SessionAsks, AskingStep
<1> QED BY <1>1, AskingStarts, SessionInvariance, PTL DEF SessionSafeSpec, PromiseSafe, Promise!SafeSpec
=============================================================================
