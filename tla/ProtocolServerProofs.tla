------------------------ MODULE ProtocolServerProofs ------------------------
(***************************************************************************)
(* Proofs about ProtocolServer: that IInv is an inductive invariant, and   *)
(* what follows from it for every number of messages, answers and response *)
(* objects and every nesting of calls.                                     *)
(***************************************************************************)
EXTENDS ProtocolServer, TLAPS, SequenceTheorems

-----------------------------------------------------------------------------
(* Logs and the stack *)

\* A message fits behind a log that is numbered below it, whether the log takes
\* the message or not, and giving a number to an object that had none changes
\* nothing for the messages before it.
LEMMA NumberedNext ==
  ASSUME NEW log \in Seq(Messages), NEW next \in Nat,
         NEW numbers \in [Responses -> Nat], NEW after \in [Responses -> Nat],
         Numbered(log, next, numbers),
         \A r \in Responses : numbers[r] # 0 => after[r] = numbers[r]
  PROVE  /\ Numbered(log, next + 1, after)
         /\ \A m \in Messages :
              m.seq = next /\ (m.type = "response" => after[m.of] = next)
              => Numbered(Append(log, m), next + 1, after)
<1>1. \A i \in DOMAIN log :
        /\ log[i] \in Messages
        /\ log[i].seq \in Nat /\ log[i].seq < next + 1
        /\ log[i].type = "response" => after[log[i].of] = log[i].seq
  <2> SUFFICES ASSUME NEW i \in DOMAIN log
               PROVE  /\ log[i] \in Messages
                      /\ log[i].seq \in Nat /\ log[i].seq < next + 1
                      /\ log[i].type = "response" => after[log[i].of] = log[i].seq
    OBVIOUS
  <2>1. log[i] \in Messages
    BY ElementOfSeq, LenProperties
  <2>2. log[i].seq \in Nat /\ log[i].seq >= 1
    BY <2>1, BoundsAssumption DEF Messages, Seqs
  <2>3. log[i].type = "response" => log[i].of \in Responses
    BY <2>1 DEF Messages
  <2> QED BY <2>1, <2>2, <2>3 DEF Numbered
<1>2. Numbered(log, next + 1, after)
  BY <1>1 DEF Numbered
<1>3. ASSUME NEW m \in Messages, m.seq = next,
             m.type = "response" => after[m.of] = next
      PROVE  Numbered(Append(log, m), next + 1, after)
  <2> DEFINE longer == Append(log, m)
  <2>1. /\ DOMAIN log = 1 .. Len(log)
        /\ DOMAIN longer = 1 .. Len(log) + 1
        /\ Len(log) \in Nat
        /\ \A i \in 1 .. Len(log) : longer[i] = log[i]
        /\ longer[Len(log) + 1] = m
    BY AppendProperties, LenProperties
  <2> HIDE DEF longer
  <2>2. \A i \in DOMAIN longer : i \in DOMAIN log \/ i = Len(log) + 1
    BY <2>1
  <2>3. \A i \in DOMAIN longer : longer[i].seq < next + 1
    BY <1>1, <1>3, <2>1, <2>2
  <2>4. \A i, j \in DOMAIN longer : i < j => longer[i].seq < longer[j].seq
    <3> SUFFICES ASSUME NEW i \in DOMAIN longer, NEW j \in DOMAIN longer, i < j
                 PROVE  longer[i].seq < longer[j].seq
      OBVIOUS
    <3>1. i \in 1 .. Len(log)
      BY <2>1
    <3>2. CASE j \in DOMAIN log
      BY <2>1, <3>1, <3>2 DEF Numbered
    <3>3. CASE j = Len(log) + 1
      BY <1>3, <2>1, <3>1, <3>3 DEF Numbered
    <3> QED BY <2>2, <3>2, <3>3
  <2>5. \A i \in DOMAIN longer :
          longer[i].type = "response" => after[longer[i].of] = longer[i].seq
    BY <1>1, <1>3, <2>1, <2>2
  <2> QED BY <2>3, <2>4, <2>5 DEF Numbered, longer
<1> QED BY <1>2, <1>3

\* The requests in a log are messages of it, and a longer log has them too.
LEMMA RequestsOfLog ==
  ASSUME NEW log \in Seq(Messages)
  PROVE  /\ Requests(log) \subseteq Seqs
         /\ \A next, numbers : Numbered(log, next, numbers)
              => \A s \in Requests(log) : s < next
         /\ \A m \in Messages : Requests(log) \subseteq Requests(Append(log, m))
<1>1. \A i \in DOMAIN log : log[i] \in Messages
  BY ElementOfSeq, LenProperties
<1>2. Requests(log) \subseteq Seqs
  BY <1>1 DEF Requests, Messages
<1>3. ASSUME NEW m \in Messages
      PROVE  Requests(log) \subseteq Requests(Append(log, m))
  <2>1. \A i \in DOMAIN log : i \in DOMAIN Append(log, m) /\ Append(log, m)[i] = log[i]
    BY AppendProperties, LenProperties
  <2> QED BY <2>1 DEF Requests
<1>4. \A next, numbers : Numbered(log, next, numbers) => \A s \in Requests(log) : s < next
  BY DEF Numbered, Requests
<1> QED BY <1>2, <1>3, <1>4

\* A response object has one number, and a log has one message of each number.
LEMMA OnceIfNumbered ==
  ASSUME wire \in Seq(Messages), heard \in Seq(Messages),
         Numbered(wire, sequence, responseSeq), Numbered(heard, sequence, responseSeq)
  PROVE  ResponseOnce
<1> SUFFICES ASSUME NEW log \in {wire, heard}, NEW i \in DOMAIN log, NEW j \in DOMAIN log,
                    log[i].type = "response", log[j].type = "response", log[i].of = log[j].of
             PROVE  i = j
  BY DEF ResponseOnce
<1>1. log \in Seq(Messages) /\ Numbered(log, sequence, responseSeq)
  OBVIOUS
<1>2. log[i].seq = log[j].seq
  BY <1>1 DEF Numbered
<1>3. log[i] \in Messages /\ i \in Nat /\ j \in Nat
  BY <1>1, ElementOfSeq, LenProperties
<1>4. log[i].seq \in Nat
  BY <1>3 DEF Messages, Seqs
<1> QED BY <1>1, <1>2, <1>3, <1>4 DEF Numbered

\* The calls in progress.
LEMMA CallsOnStack ==
  ASSUME stack \in Seq(Calls)
  PROVE  \A i \in DOMAIN stack : stack[i] \in Calls /\ stack[i].seq \in Nat
<1>1. \A i \in DOMAIN stack : stack[i] \in Calls
  BY ElementOfSeq, LenProperties
<1> QED BY <1>1 DEF Calls, Seqs

\* What a return leaves on the stack.
LEMMA Popped ==
  ASSUME stack \in Seq(Calls), ~Idle
  PROVE  /\ Pop \in Seq(Calls)
         /\ Len(stack) \in Nat \ {0}
         /\ DOMAIN stack = 1 .. Len(stack)
         /\ DOMAIN Pop = 1 .. Len(stack) - 1
         /\ \A i \in DOMAIN Pop : Pop[i] = stack[i]
         /\ Top \in Calls
<1>1. Len(stack) \in Nat \ {0} /\ DOMAIN stack = 1 .. Len(stack)
  BY LenProperties, EmptySeq DEF Idle
<1>2. /\ Pop \in Seq(Calls)
      /\ Len(Pop) = Len(stack) - 1
      /\ \A i \in 1 .. Len(Pop) : Pop[i] = stack[i]
  BY <1>1, SubSeqProperties DEF Pop
<1>3. DOMAIN Pop = 1 .. Len(stack) - 1
  BY <1>2, LenProperties
<1>4. Top \in Calls
  BY <1>1, ElementOfSeq DEF Top
<1> QED BY <1>1, <1>2, <1>3, <1>4

-----------------------------------------------------------------------------
(* Every step keeps the invariant *)

LEMMA InitIInv == Init => IInv
<1> SUFFICES ASSUME Init PROVE IInv
  OBVIOUS
<1> USE DEF Init
<1>1. TypeOK
  <2>1. sequence \in 1 .. MaxSeq + 1 /\ broken \in 0 .. MaxBroken /\ answers \in 0 .. MaxAnswers
    BY BoundsAssumption
  <2>2. responseSeq \in [Responses -> 0 .. MaxSeq]
    BY BoundsAssumption
  <2>3. calls \in [Seqs -> Seq({"response", "timeout"})]
    BY EmptySeq
  <2>4. stack \in Seq(Calls) /\ wire \in Seq(Messages) /\ heard \in Seq(Messages)
    BY EmptySeq
  <2> QED BY <2>1, <2>2, <2>3, <2>4 DEF TypeOK
<1>2. OnePlace
  BY EmptySeq DEF OnePlace, InOnePlace, Registering
<1>3. OneCallEach /\ Numbered(wire, sequence, responseSeq) /\ Numbered(heard, sequence, responseSeq)
  BY DEF OneCallEach, Numbered
<1>4. StreamAnswerNotLost
  BY DEF StreamAnswerNotLost, AnswerNotLost
<1> QED BY <1>1, <1>2, <1>3, <1>4 DEF IInv

\* Changing the stream or the listener alone.
LEMMA ChannelIInv ==
  ASSUME IInv,
         writable' \in {"none", "open", "ended"},
         writeFailed' \in BOOLEAN, listener' \in BOOLEAN,
         UNCHANGED <<sequence, responseSeq, broken, asking, stack, wire, heard, wants>>
  PROVE  IInv'
<1> USE DEF IInv, asking
<1>1. TypeOK'
  BY DEF TypeOK
<1>2. OnePlace' /\ OneCallEach'
  BY DEF OnePlace, InOnePlace, Registering, OneCallEach
<1>3. Numbered(wire, sequence, responseSeq)' /\ Numbered(heard, sequence, responseSeq)'
  BY DEF Numbered
<1>4. StreamAnswerNotLost'
  BY DEF StreamAnswerNotLost, AnswerNotLost, Requests
<1> QED BY <1>1, <1>2, <1>3, <1>4

\* A number used up and nothing sent.
LEMMA ThrowIInv ==
  ASSUME IInv, Unwritten(stack),
         responseSeq' \in [Responses -> 0 .. MaxSeq],
         \A r \in Responses : responseSeq[r] # 0 => responseSeq'[r] = responseSeq[r]
  PROVE  IInv'
<1> USE DEF IInv, Unwritten, channel, asking
<1>1. sequence \in Nat /\ sequence' = sequence + 1 /\ sequence' \in 1 .. MaxSeq + 1
  BY BoundsAssumption DEF TypeOK
<1>2. TypeOK'
  BY <1>1, BoundsAssumption DEF TypeOK
<1>3. OnePlace'
  BY DEF OnePlace, InOnePlace, Registering
<1>4. OneCallEach'
  <2>1. \A i \in DOMAIN stack : stack[i].seq \in Nat
    BY CallsOnStack DEF TypeOK
  <2> QED BY <1>1, <2>1 DEF OneCallEach
<1>5. Numbered(wire, sequence, responseSeq)' /\ Numbered(heard, sequence, responseSeq)'
  <2>1. responseSeq \in [Responses -> Nat] /\ responseSeq' \in [Responses -> Nat]
    BY DEF TypeOK
  <2>2. Numbered(wire, sequence + 1, responseSeq') /\ Numbered(heard, sequence + 1, responseSeq')
    BY <1>1, <2>1, NumberedNext DEF TypeOK
  <2> QED BY <1>1, <2>2 DEF Numbered
<1>6. (\A s \in wants \cup unmatched : s < sequence)'
  BY <1>1 DEF TypeOK, Seqs
<1>7. StreamAnswerNotLost'
  BY DEF StreamAnswerNotLost, AnswerNotLost, Requests
<1> QED BY <1>2, <1>3, <1>4, <1>5, <1>6, <1>7

\* A message sent, with all that its sender does in the same step.
LEMMA SendIInv ==
  ASSUME IInv, NEW m \in Messages, NEW then \in {"nothing", "register"},
         m.seq = sequence, _send(stack, m, then),
         responseSeq' \in [Responses -> 0 .. MaxSeq],
         \A r \in Responses : responseSeq[r] # 0 => responseSeq'[r] = responseSeq[r],
         m.type = "response" => responseSeq'[m.of] = sequence,
         wants' = IF then = "register" THEN wants \cup {sequence} ELSE wants,
         UNCHANGED <<writable, listener, broken, asking>>
  PROVE  IInv'
<1> USE DEF IInv, asking
<1> DEFINE call == Call(m, then)
<1>1. sequence \in Seqs /\ sequence \in Nat /\ sequence' = sequence + 1
  BY BoundsAssumption DEF TypeOK, Seqs, _send
<1>2. call \in Calls /\ call.seq = sequence /\ call.then = then
  BY <1>1 DEF Call, Calls, Messages, TypeOK
<1>3. /\ stack' \in Seq(Calls)
      /\ DOMAIN stack = 1 .. Len(stack)
      /\ DOMAIN stack' = 1 .. Len(stack) + 1
      /\ Len(stack) \in Nat
      /\ \A i \in DOMAIN stack : stack'[i] = stack[i] /\ stack[i].seq \in Nat
      /\ stack'[Len(stack) + 1] = call
  <2> HIDE DEF call
  <2>1. stack' = Append(stack, call)
    BY DEF _send, call
  <2> QED BY <1>2, <2>1, AppendProperties, LenProperties, CallsOnStack DEF TypeOK
<1> HIDE DEF call
<1>4. \A s \in Seqs : Registering(s)' <=> Registering(s) \/ (then = "register" /\ s = sequence)
  BY <1>1, <1>2, <1>3 DEF Registering
<1>5. /\ wire' \in {wire, Append(wire, m)} /\ heard' \in {heard, Append(heard, m)}
      /\ writeFailed' \in BOOLEAN
  BY DEF _send, TypeOK
<1>6. wire' \in Seq(Messages) /\ heard' \in Seq(Messages)
  <2>1. wire \in Seq(Messages) /\ heard \in Seq(Messages)
    BY DEF TypeOK
  <2>2. Append(wire, m) \in Seq(Messages) /\ Append(heard, m) \in Seq(Messages)
    BY <2>1, AppendProperties
  <2> QED BY <1>5, <2>1, <2>2
<1>7. TypeOK'
  <2>1. sequence' \in 1 .. MaxSeq + 1
    BY <1>1, BoundsAssumption DEF Seqs
  <2>2. wants' \subseteq Seqs
    BY <1>1 DEF TypeOK
  <2> QED BY <1>3, <1>5, <1>6, <2>1, <2>2 DEF TypeOK
<1>8. sequence \notin wants \cup unmatched
  BY <1>1
<1>9. OnePlace'
  <2> SUFFICES ASSUME NEW s \in Seqs PROVE InOnePlace(s)'
    BY DEF OnePlace
  <2>1. InOnePlace(s)
    BY DEF OnePlace
  <2>2. CASE then = "register" /\ s = sequence
    BY <1>4, <1>8, <2>1, <2>2 DEF InOnePlace
  <2>3. CASE ~(then = "register" /\ s = sequence)
    BY <1>4, <2>1, <2>3 DEF InOnePlace
  <2> QED BY <2>2, <2>3
<1>10. OneCallEach'
  <2>1. \A i \in DOMAIN stack' : i \in DOMAIN stack \/ i = Len(stack) + 1
    BY <1>3
  <2> QED BY <1>1, <1>2, <1>3, <2>1 DEF OneCallEach
<1>11. Numbered(wire, sequence, responseSeq)' /\ Numbered(heard, sequence, responseSeq)'
  <2>1. responseSeq \in [Responses -> Nat] /\ responseSeq' \in [Responses -> Nat]
    BY DEF TypeOK
  <2>2. /\ Numbered(wire, sequence + 1, responseSeq')
        /\ Numbered(heard, sequence + 1, responseSeq')
        /\ Numbered(Append(wire, m), sequence + 1, responseSeq')
        /\ Numbered(Append(heard, m), sequence + 1, responseSeq')
    BY <1>1, <2>1, NumberedNext DEF TypeOK
  <2>3. Numbered(wire', sequence', responseSeq') /\ Numbered(heard', sequence', responseSeq')
    BY <1>1, <1>5, <2>2
  <2> QED BY <2>3 DEF Numbered
<1>12. (\A s \in wants \cup unmatched : s < sequence)'
  BY <1>1 DEF TypeOK, Seqs
<1>13. StreamAnswerNotLost'
  <2>1. Requests(heard) \subseteq Requests(heard')
    BY <1>5, RequestsOfLog DEF TypeOK
  <2>2. \A s \in Seqs \ Requests(heard') : AnswerNotLost(s)
    BY <2>1 DEF StreamAnswerNotLost
  <2>3. \A s \in Seqs \ Requests(heard') : s \in unmatched' \cap wants' => calls'[s] # <<>>
    BY <1>8, <2>2 DEF AnswerNotLost
  <2> QED BY <2>3 DEF StreamAnswerNotLost, AnswerNotLost, Requests
<1> QED BY <1>7, <1>9, <1>10, <1>11, <1>12, <1>13

\* _send returns, and sendRequest stores its callback.
LEMMA ReturnIInv == IInv /\ Return => IInv'
<1> SUFFICES ASSUME IInv, Return PROVE IInv'
  OBVIOUS
<1> USE DEF IInv, Return
<1>1. /\ stack' \in Seq(Calls)
      /\ Len(stack) \in Nat \ {0}
      /\ DOMAIN stack = 1 .. Len(stack)
      /\ DOMAIN stack' = 1 .. Len(stack) - 1
      /\ \A i \in DOMAIN stack' : stack'[i] = stack[i]
      /\ Top \in Calls
  BY Popped DEF TypeOK
<1>2. Top = stack[Len(stack)] /\ Top.seq \in Seqs /\ Top.then \in {"nothing", "register"}
  BY <1>1 DEF Top, Calls
<1>3. UNCHANGED <<sequence, channel, responseSeq, broken, calls, unmatched, answers, wire, heard, wants>>
  OBVIOUS
<1>4. CASE Top.then = "register"
  <2>1. pendingRequests' = pendingRequests \cup {Top.seq} /\ timers' = timers \cup {Top.seq}
    BY <1>4 DEF Register
  <2>2. \A s \in Seqs : Registering(s)' <=> Registering(s) /\ s # Top.seq
    BY <1>1, <1>2 DEF Registering, OneCallEach
  <2>3. Registering(Top.seq)
    BY <1>1, <1>2, <1>4 DEF Registering
  <2>4. TypeOK'
    BY <1>1, <1>2, <1>3, <2>1 DEF TypeOK, channel
  <2>5. OnePlace'
    <3> SUFFICES ASSUME NEW s \in Seqs PROVE InOnePlace(s)'
      BY DEF OnePlace
    <3>1. InOnePlace(s)
      BY DEF OnePlace
    <3> QED BY <1>3, <2>1, <2>2, <2>3, <3>1 DEF InOnePlace
  <2> QED BY <1>1, <1>3, <2>4, <2>5
        DEF OneCallEach, Numbered, StreamAnswerNotLost, AnswerNotLost, Requests
<1>5. CASE Top.then # "register"
  <2>1. UNCHANGED <<pendingRequests, timers>>
    BY <1>5
  <2>2. \A s \in Seqs : Registering(s)' <=> Registering(s)
    BY <1>1, <1>2, <1>5 DEF Registering
  <2>3. TypeOK'
    BY <1>1, <1>3, <2>1 DEF TypeOK, channel
  <2>4. OnePlace'
    <3> SUFFICES ASSUME NEW s \in Seqs PROVE InOnePlace(s)'
      BY DEF OnePlace
    <3>1. InOnePlace(s)
      BY DEF OnePlace
    <3> QED BY <1>3, <2>1, <2>2, <3>1 DEF InOnePlace
  <2> QED BY <1>1, <1>3, <2>3, <2>4
        DEF OneCallEach, Numbered, StreamAnswerNotLost, AnswerNotLost, Requests
<1> QED BY <1>4, <1>5

\* A callback called with s in the map: it leaves the map, and the rest stays.
LEMMA CallBackOnePlace ==
  ASSUME pendingRequests \subseteq Seqs, calls \in [Seqs -> Seq({"response", "timeout"})],
         OnePlace, NEW s \in pendingRequests, NEW by \in {"response", "timeout"},
         CallBack(s, by),
         timers' \in {timers, timers \ {s}},
         UNCHANGED <<stack, wants>>
  PROVE  /\ pendingRequests' = pendingRequests \ {s}
         /\ calls[s] = <<>> /\ calls' = [calls EXCEPT ![s] = <<by>>]
         /\ calls' \in [Seqs -> Seq({"response", "timeout"})]
         /\ OnePlace'
<1>1. s \in Seqs /\ calls \in [Seqs -> Seq({"response", "timeout"})]
  OBVIOUS
<1>2. /\ pendingRequests' = pendingRequests \ {s}
      /\ calls' = [calls EXCEPT ![s] = Append(calls[s], by)]
  BY DEF CallBack, Forget
<1>3. calls[s] = <<>> /\ s \in wants /\ ~Registering(s)
  BY <1>1 DEF OnePlace, InOnePlace
<1>4. Append(calls[s], by) = <<by>> /\ <<by>> \in Seq({"response", "timeout"})
      /\ Len(<<by>>) = 1 /\ <<by>> # <<>>
  BY <1>3
<1>5. calls' = [calls EXCEPT ![s] = <<by>>]
  BY <1>2, <1>4
<1>6. calls' \in [Seqs -> Seq({"response", "timeout"})]
  BY <1>1, <1>4, <1>5
<1>7. \A t \in Seqs : Registering(t)' <=> Registering(t)
  BY DEF Registering
<1>8. ASSUME NEW t \in Seqs PROVE InOnePlace(t)'
  <2>1. InOnePlace(t)
    BY DEF OnePlace
  <2>2. CASE t = s
    BY <1>1, <1>2, <1>3, <1>4, <1>5, <1>7, <2>2 DEF InOnePlace
  <2>3. CASE t # s
    <3>1. calls'[t] = calls[t]
      BY <1>1, <1>5, <2>3
    <3>2. /\ t \in pendingRequests' <=> t \in pendingRequests
          /\ t \in timers' <=> t \in timers
      BY <1>2, <2>3
    <3> QED BY <1>7, <2>1, <3>1, <3>2 DEF InOnePlace
  <2> QED BY <2>2, <2>3
<1> QED BY <1>2, <1>3, <1>5, <1>6, <1>8 DEF OnePlace

\* An answer of the peer, for a callback or for none.
LEMMA ResponseIInv == ASSUME IInv, NEW s \in Seqs, HandleResponse(s) PROVE IInv'
<1> USE DEF IInv, HandleResponse
<1>1. UNCHANGED <<sequence, channel, responseSeq, broken, timers, stack, wire, heard, wants>>
  OBVIOUS
<1>2. answers' \in 0 .. MaxAnswers
  BY BoundsAssumption DEF TypeOK
<1>3. OneCallEach' /\ Numbered(wire, sequence, responseSeq)' /\ Numbered(heard, sequence, responseSeq)'
  BY <1>1 DEF OneCallEach, Numbered
<1>4. Requests(heard)' = Requests(heard)
  BY <1>1 DEF Requests
<1>5. CASE s \in pendingRequests
  <2>1. CallBack(s, "response") /\ unmatched' = unmatched
    BY <1>5
  <2>2. /\ pendingRequests' = pendingRequests \ {s}
        /\ calls' = [calls EXCEPT ![s] = <<"response">>]
        /\ calls' \in [Seqs -> Seq({"response", "timeout"})]
        /\ OnePlace'
    BY <1>1, <1>5, <2>1, CallBackOnePlace DEF TypeOK
  <2>3. TypeOK'
    BY <1>1, <1>2, <2>1, <2>2 DEF TypeOK, channel
  <2>4. \A t \in Seqs : calls[t] # <<>> => calls'[t] # <<>>
    BY <2>2 DEF TypeOK
  <2>5. StreamAnswerNotLost'
    BY <1>1, <1>4, <2>1, <2>4 DEF StreamAnswerNotLost, AnswerNotLost
  <2> QED BY <1>1, <1>3, <2>1, <2>2, <2>3, <2>5
<1>6. CASE s \notin pendingRequests
  <2>1. unmatched' = unmatched \cup {s} /\ UNCHANGED <<pendingRequests, calls>>
    BY <1>6
  <2>2. TypeOK'
    BY <1>1, <1>2, <2>1 DEF TypeOK, channel
  <2>3. OnePlace'
    BY <1>1, <2>1 DEF OnePlace, InOnePlace, Registering
  <2>4. s < sequence
    BY RequestsOfLog DEF TypeOK
  <2>5. s \notin Requests(heard) /\ s \in wants => calls[s] # <<>>
    <3>1. s \notin Requests(heard) => ~Registering(s)
      BY LenProperties DEF Registering, Idle
    <3> QED BY <1>6, <3>1 DEF OnePlace, InOnePlace
  <2>6. StreamAnswerNotLost'
    BY <1>1, <1>4, <2>1, <2>5 DEF StreamAnswerNotLost, AnswerNotLost
  <2> QED BY <1>1, <1>3, <2>1, <2>2, <2>3, <2>4, <2>6
<1> QED BY <1>5, <1>6

\* A timer, before or after the answer.
LEMMA TimerIInv == ASSUME IInv, NEW s \in Seqs, Timer(s) PROVE IInv'
<1> USE DEF IInv, Timer
<1>1. /\ UNCHANGED <<sequence, channel, responseSeq, broken, unmatched, answers, stack, wire,
                     heard, wants>>
      /\ timers' = timers \ {s}
  OBVIOUS
<1>2. OneCallEach' /\ Numbered(wire, sequence, responseSeq)' /\ Numbered(heard, sequence, responseSeq)'
  BY <1>1 DEF OneCallEach, Numbered
<1>3. Requests(heard)' = Requests(heard)
  BY <1>1 DEF Requests
<1>4. CASE s \in pendingRequests
  <2>1. CallBack(s, "timeout")
    BY <1>4 DEF TimesOut
  <2>2. /\ pendingRequests' = pendingRequests \ {s}
        /\ calls' = [calls EXCEPT ![s] = <<"timeout">>]
        /\ calls' \in [Seqs -> Seq({"response", "timeout"})]
        /\ OnePlace'
    BY <1>1, <1>4, <2>1, CallBackOnePlace DEF TypeOK
  <2>3. TypeOK'
    BY <1>1, <2>2 DEF TypeOK, channel
  <2>4. \A t \in Seqs : calls[t] # <<>> => calls'[t] # <<>>
    BY <2>2 DEF TypeOK
  <2>5. StreamAnswerNotLost'
    BY <1>1, <1>3, <2>4 DEF StreamAnswerNotLost, AnswerNotLost
  <2> QED BY <1>1, <1>2, <2>2, <2>3, <2>5
<1>5. CASE s \notin pendingRequests
  <2>1. UNCHANGED <<pendingRequests, calls>>
    BY <1>5 DEF TimesOut
  <2>2. TypeOK'
    BY <1>1, <2>1 DEF TypeOK, channel
  <2>3. OnePlace'
    BY <1>1, <1>5, <2>1 DEF OnePlace, InOnePlace, Registering
  <2>4. StreamAnswerNotLost'
    BY <1>1, <1>3, <2>1 DEF StreamAnswerNotLost, AnswerNotLost
  <2> QED BY <1>1, <1>2, <2>2, <2>3, <2>4
<1> QED BY <1>4, <1>5

\* The messages that the three ways of sending build.
LEMMA NextMessage ==
  ASSUME TypeOK, sequence <= MaxSeq
  PROVE  /\ \A type \in {"event", "request"} :
              Message(type, NoResponse) \in Messages /\ Message(type, NoResponse).type = type
         /\ \A r \in Responses : Message("response", r) \in Messages
         /\ \A type, of : Message(type, of).seq = sequence /\ Message(type, of).of = of
<1>1. sequence \in Seqs
  BY BoundsAssumption DEF TypeOK, Seqs
<1> QED BY <1>1 DEF Message, Messages

LEMMA NextIInv == IInv /\ [Next]_vars => IInv'
<1> SUFFICES ASSUME IInv, [Next]_vars PROVE IInv'
  OBVIOUS
<1>0. TypeOK
  BY DEF IInv
<1>1. CASE Start
  BY <1>0, <1>1, ChannelIInv DEF Start, asking, TypeOK
<1>2. CASE Stop
  BY <1>0, <1>2, ChannelIInv DEF Stop, asking, TypeOK
<1>3. CASE Subscribe
  BY <1>0, <1>3, ChannelIInv DEF Subscribe, asking, TypeOK
<1>4. CASE Dispose
  BY <1>0, <1>4, ChannelIInv DEF Dispose, asking, TypeOK
<1>5. CASE EmitWriteError
  BY <1>0, <1>5, ChannelIInv DEF EmitWriteError, asking, TypeOK
<1>6. CASE SendEvent
  <2>1. sequence <= MaxSeq /\ _send(stack, Message("event", NoResponse), "nothing")
        /\ UNCHANGED <<writable, listener, responseSeq, broken, asking, wants>>
    BY <1>6 DEF SendEvent, _send
  <2>2. /\ Message("event", NoResponse) \in Messages
        /\ Message("event", NoResponse).seq = sequence
        /\ Message("event", NoResponse).type # "response"
    BY <1>0, <2>1, NextMessage
  <2> QED BY <1>0, <2>1, <2>2, SendIInv DEF TypeOK
<1>7. ASSUME NEW r \in Responses, SendResponse(r) PROVE IInv'
  <2>1. /\ sequence <= MaxSeq /\ _send(stack, Message("response", r), "nothing")
        /\ UNCHANGED <<writable, listener, broken, asking, wants>>
        /\ responseSeq' = [responseSeq EXCEPT ![r] = sequence]
        /\ ~(responseSeq[r] > 0)
    BY <1>7 DEF SendResponse, SendingResponse, MaySend, _send
  <2>2. /\ Message("response", r) \in Messages
        /\ Message("response", r).seq = sequence
        /\ Message("response", r).of = r
    BY <1>0, <2>1, NextMessage
  <2>3. sequence \in 0 .. MaxSeq /\ responseSeq[r] = 0
    BY <1>0, <2>1, BoundsAssumption DEF TypeOK
  <2>4. responseSeq' \in [Responses -> 0 .. MaxSeq] /\ responseSeq'[r] = sequence
    BY <1>0, <2>1, <2>3 DEF TypeOK
  <2>5. \A q \in Responses : responseSeq[q] # 0 => responseSeq'[q] = responseSeq[q]
    BY <1>0, <2>1, <2>3 DEF TypeOK
  <2> QED BY <2>1, <2>2, <2>4, <2>5, SendIInv
<1>8. ASSUME NEW r \in Responses, SendResponseThrows(r) PROVE IInv'
  <2>1. /\ sequence <= MaxSeq /\ Unwritten(stack)
        /\ responseSeq' = [responseSeq EXCEPT ![r] = sequence]
        /\ ~(responseSeq[r] > 0)
    BY <1>8 DEF SendResponseThrows, UnwrittenResponse, Unwritten, MaySend
  <2>2. sequence \in 0 .. MaxSeq /\ responseSeq[r] = 0
    BY <1>0, <2>1, BoundsAssumption DEF TypeOK
  <2>3. /\ responseSeq' \in [Responses -> 0 .. MaxSeq]
        /\ \A q \in Responses : responseSeq[q] # 0 => responseSeq'[q] = responseSeq[q]
    BY <1>0, <2>1, <2>2 DEF TypeOK
  <2> QED BY <2>1, <2>3, ThrowIInv
<1>9. CASE SendOtherThrows
  BY <1>0, <1>9, ThrowIInv DEF SendOtherThrows, TypeOK
<1>10. ASSUME NEW cb \in BOOLEAN, SendRequest(cb) PROVE IInv'
  <2> DEFINE then == IF cb THEN "register" ELSE "nothing"
  <2>1. /\ sequence <= MaxSeq /\ _send(stack, Message("request", NoResponse), then)
        /\ UNCHANGED <<writable, listener, responseSeq, broken, asking>>
        /\ wants' = IF then = "register" THEN wants \cup {sequence} ELSE wants
    BY <1>10 DEF SendRequest, _send
  <2>2. /\ Message("request", NoResponse) \in Messages
        /\ Message("request", NoResponse).seq = sequence
        /\ Message("request", NoResponse).type # "response"
    BY <1>0, <2>1, NextMessage
  <2>3. then \in {"nothing", "register"}
    OBVIOUS
  <2> HIDE DEF then
  <2> QED BY <1>0, <2>1, <2>2, <2>3, SendIInv DEF TypeOK
<1>11. CASE Return
  BY <1>11, ReturnIInv
<1>12. ASSUME NEW s \in Seqs, HandleResponse(s) PROVE IInv'
  BY <1>12, ResponseIInv
<1>13. ASSUME NEW s \in Seqs, Timer(s) PROVE IInv'
  BY <1>13, TimerIInv
<1>14. CASE UNCHANGED vars
  BY <1>0, <1>14, ChannelIInv DEF vars, channel, asking, TypeOK
<1> QED
  BY <1>1, <1>2, <1>3, <1>4, <1>5, <1>6, <1>7, <1>8, <1>9, <1>10, <1>11, <1>12, <1>13, <1>14
  DEF Next

-----------------------------------------------------------------------------
(* What follows for every behaviour *)

\* The invariant that the others follow from holds for every number of messages
\* sent and answered and every nesting of the calls of host and server.
THEOREM Invariance == SafeSpec => []IInv
  BY InitIInv, NextIInv, PTL DEF SafeSpec

\* Type correctness: no request is stored, timed or called back under a number
\* that was not given to a message.
THEOREM TypeCorrect == SafeSpec => []TypeOK
<1>1. IInv => TypeOK
  BY DEF IInv
<1> QED BY <1>1, Invariance, PTL

\* A request with a callback is about to be stored, stored with a running timer,
\* or called back once, and never two of these (sendRequest, handleMessage).
THEOREM RequestsInOnePlace == SafeSpec => []OnePlace
<1>1. IInv => OnePlace
  BY DEF IInv
<1> QED BY <1>1, Invariance, PTL

\* A response object reaches the stream and the listener at most once
\* (sendResponse).
THEOREM AnswersOnce == SafeSpec => []ResponseOnce
<1>1. IInv => ResponseOnce
  BY OnceIfNumbered DEF IInv, TypeOK
<1> QED BY <1>1, Invariance, PTL

\* An answer from the stream is dropped only for a request that has been called
\* back or wanted no callback (handleMessage).
THEOREM StreamAnswersArrive == SafeSpec => []StreamAnswerNotLost
<1>1. IInv => StreamAnswerNotLost
  BY DEF IInv
<1> QED BY <1>1, Invariance, PTL

-----------------------------------------------------------------------------
(* Refinement *)

LEMMA RefinesInit == Init => Promise!Init
  BY DEF Init, Promise!Init

LEMMA CompletesOnce ==
  ASSUME pendingRequests \subseteq Seqs, OnePlace, NEW s \in pendingRequests,
         NEW by \in {"response", "timeout"}, CallBack(s, by), wants' = wants
  PROVE  Promise!Next
<1>1. s \in Seqs /\ calls[s] = <<>> /\ s \in wants
  BY DEF OnePlace, InOnePlace
<1>2. Append(calls[s], by) = <<by>>
  BY <1>1
<1>3. calls' = [calls EXCEPT ![s] = <<by>>]
  BY <1>2 DEF CallBack
<1>4. Promise!Complete(s, by)
  BY <1>1, <1>3 DEF Promise!Complete
<1> QED BY <1>1, <1>4 DEF Promise!Next, Promise!Outcomes

LEMMA RefinesNext == IInv /\ [Next]_vars => [Promise!Next]_(Promise!vars)
<1> SUFFICES ASSUME IInv, [Next]_vars, ~(UNCHANGED <<wants, calls>>)
             PROVE  Promise!Next
  BY DEF Promise!vars
<1>1. CASE \E cb \in BOOLEAN : SendRequest(cb)
  <2>1. sequence <= MaxSeq /\ wants' = wants \cup {sequence} /\ calls' = calls
    BY <1>1 DEF SendRequest, _send, asking
  <2>2. sequence \in Seqs /\ sequence \notin wants
    BY <2>1, BoundsAssumption DEF IInv, TypeOK, Seqs
  <2>3. Promise!Ask(sequence)
    BY <2>1, <2>2 DEF Promise!Ask
  <2> QED BY <2>2, <2>3 DEF Promise!Next
<1>2. pendingRequests \subseteq Seqs /\ OnePlace
  BY DEF IInv, TypeOK
<1>3. ASSUME NEW s \in Seqs, HandleResponse(s) PROVE Promise!Next
  BY <1>2, <1>3, CompletesOnce DEF HandleResponse
<1>4. ASSUME NEW s \in Seqs, Timer(s) PROVE Promise!Next
  BY <1>2, <1>4, CompletesOnce DEF Timer, TimesOut
<1> QED
  BY <1>1, <1>3, <1>4
  DEF Next, vars, asking, Start, Stop, Subscribe, Dispose, EmitWriteError, SendEvent,
      SendResponse, SendingResponse, SendResponseThrows, UnwrittenResponse, Unwritten,
      SendOtherThrows, Return

\* What sendRequest promises, as far as safety goes: a callback is called only for
\* a request that was made with it, once, with an answer or a timeout.
THEOREM KeepsPromise == SafeSpec => PromiseSafe
  BY RefinesInit, RefinesNext, Invariance, PTL DEF SafeSpec, PromiseSafe, Promise!SafeSpec
=============================================================================
