-------------------------- MODULE DebugClientProofs --------------------------
(***************************************************************************)
(* Proofs about DebugClient, for any tests, any number of restarts and any *)
(* behaviour of the adapters: every request is made once, under a seq of   *)
(* its own, and no answer, however late or repeated and from whichever     *)
(* adapter, settles the promise of another request.                        *)
(***************************************************************************)
EXTENDS DebugClient, TLAPS, SequenceTheorems

Jobs == [chain : Chains, ok : BOOLEAN, hops : 0 .. 1]

-----------------------------------------------------------------------------
(* Chains and requests *)

LEMMA ChainsOfRuns ==
  ASSUME NEW l \in Lives, NEW s \in Scenario \cup {"stop"}
  PROVE  <<l, s>> \in Chains
BY DEF Chains

LEMMA ChainParts ==
  ASSUME NEW ch \in Chains
  PROVE  /\ ch = <<ch[1], ch[2]>> /\ ch[1] \in {0} \cup Lives
         /\ ch[2] \in Scenario \cup {"stop"}
         /\ ch[2] # "stop" => ch[1] \in Lives
BY DEF Chains, Scenario

LEMMA CallParts ==
  ASSUME NEW c \in Calls
  PROVE  /\ c = <<c[1], c[2]>> /\ c[1] \in {0} \cup Lives /\ c[2] \in Commands
         /\ <<c[1], ChainOf(c[2])>> \in Chains
BY DEF Calls, Chains, Commands, ChainOf, Scenario

\* The request that a chain makes is one of the calls.
LEMMA CallOfChain ==
  ASSUME NEW ch \in Chains, NEW command \in Commands, ChainOf(command) = ch[2]
  PROVE  <<ch[1], command>> \in Calls
BY ChainParts DEF Calls, ChainOf, Commands, Scenario

-----------------------------------------------------------------------------
(* The initial state *)

LEMMA InitIInv == Init => ClientIInv
<1> SUFFICES ASSUME Init PROVE ClientIInv
  OBVIOUS
<1> USE ClientAssumption DEF Init
<1>1. test \in Seq(Scripts) /\ Len(test) \in Nat
  BY LenProperties
<1>2. DOMAIN pendingRequests = {}
  OBVIOUS
<1>3. \A ch \in Chains : Fits(ch)
  BY DEF Fits, Events, Commands
<1>4. ClientTypeOK
  <2>1. jobs \in Seq(Jobs) /\ listeners \subseteq Chains
    OBVIOUS
  <2>2. outcome \in [Calls -> Seq([from : Lives, of : Calls])]
    OBVIOUS
  <2>3. request \in [Calls -> [seq : Nat, to : 0 .. life]]
    BY DEF NotSent
  <2>4. at \in [Chains -> Awaited \cup {"idle", "done", "failed"}] /\ timers \subseteq Chains
    OBVIOUS
  <2>5. /\ wokenBy \in [Chains -> 0 .. life]
        /\ reply \in [Calls -> {"none", "ok", "failed"}]
        /\ sent \in [Lives -> SUBSET Events]
    OBVIOUS
  <2>6. /\ test \in Tests /\ life \in 0 .. Len(test)
        /\ link \in {"none", "process", "socket"} /\ supports \in BOOLEAN
        /\ sequence \in Nat \ {0} /\ DOMAIN pendingRequests \subseteq 1 .. sequence - 1
        /\ chunk \in 0 .. life /\ up \cup announced \cup repeated \subseteq 1 .. life
    <3>1. test \in Tests /\ life \in 0 .. Len(test) /\ sequence \in Nat \ {0}
      BY <1>1
    <3>2. link \in {"none", "process", "socket"} /\ supports \in BOOLEAN
      OBVIOUS
    <3>3. DOMAIN pendingRequests \subseteq 1 .. sequence - 1
      BY <1>2
    <3>4. chunk \in 0 .. life /\ up \cup announced \cup repeated \subseteq 1 .. life
      OBVIOUS
    <3> QED BY <3>1, <3>2, <3>3, <3>4
  <2> QED BY <1>3, <2>1, <2>2, <2>3, <2>4, <2>5, <2>6 DEF ClientTypeOK, Jobs
<1>5. Numbered /\ PendingIsOpen /\ AheadIsFresh
  BY <1>2 DEF Numbered, PendingIsOpen, AheadIsFresh, NotSent
<1>6. BegunTogether
  BY ChainsOfRuns DEF BegunTogether
<1> QED BY <1>4, <1>5, <1>6 DEF ClientIInv

-----------------------------------------------------------------------------
(* Sending *)

LEMMA Removed ==
  ASSUME NEW s
  PROVE  /\ DOMAIN Without(s) = DOMAIN pendingRequests \ {s}
         /\ \A t \in DOMAIN Without(s) : Without(s)[t] = pendingRequests[t]
BY DEF Without, Restrict

\* A chain that has not begun has made no request, and no continuation is due for it.
LEMMA BegunIfSent ==
  ASSUME ClientIInv, NEW c \in Calls, request[c].seq # 0
  PROVE  at[<<c[1], ChainOf(c[2])>>] # "idle"
<1>1. c = <<c[1], c[2]>> /\ c[2] \in Commands /\ <<c[1], ChainOf(c[2])>> \in Chains
  BY CallParts
<1> SUFFICES ASSUME at[<<c[1], ChainOf(c[2])>>] = "idle" PROVE FALSE
  OBVIOUS
<1>2. c[2] \in Ahead(<<c[1], ChainOf(c[2])>>)
  BY <1>1 DEF Ahead
<1> QED BY <1>1, <1>2 DEF ClientIInv, AheadIsFresh

\* A request that lies ahead of its chain takes a seq of its own.
LEMMA SendTypes ==
  ASSUME ClientIInv, NEW ch \in Chains, NEW command \in Ahead(ch),
         NEW rest \in Seq(Jobs), doSend(ch, command, rest)
  PROVE  /\ sequence' \in Nat \ {0}
         /\ DOMAIN pendingRequests' \subseteq 1 .. sequence' - 1
         /\ request' \in [Calls -> [seq : Nat, to : 0 .. life]]
         /\ jobs' \in Seq(Jobs)
<1>1. life \in Nat /\ sequence \in Nat \ {0} /\ up \subseteq 1 .. life
  BY ClientAssumption, LenProperties DEF ClientIInv, ClientTypeOK
<1>2. request \in [Calls -> [seq : Nat, to : 0 .. life]]
  BY DEF ClientIInv, ClientTypeOK
<1>3. sequence' = sequence + 1
  BY DEF doSend
<1>4. DOMAIN pendingRequests' = {sequence} \cup DOMAIN pendingRequests
  BY DEF doSend
<1>5. DOMAIN pendingRequests' \subseteq 1 .. sequence' - 1
  BY <1>1, <1>3, <1>4 DEF ClientIInv, ClientTypeOK
<1>6. request' \in [Calls -> [seq : Nat, to : 0 .. life]]
  <2>1. (IF life \in up THEN life ELSE 0) \in 0 .. life
    BY <1>1
  <2>2. [seq |-> sequence, to |-> IF life \in up THEN life ELSE 0]
          \in [seq : Nat, to : 0 .. life]
    BY <1>1, <2>1
  <2> QED BY <1>2, <2>2 DEF doSend
<1>7. jobs' \in Seq(Jobs)
  <2>1. [chain |-> ch, ok |-> FALSE, hops |-> 1] \in Jobs
    BY DEF Jobs
  <2> QED BY <2>1, AppendProperties DEF doSend
<1> QED BY <1>1, <1>3, <1>5, <1>6, <1>7

LEMMA SendNumbered ==
  ASSUME ClientIInv, NEW ch \in Chains, NEW command \in Ahead(ch), NEW rest,
         doSend(ch, command, rest), UNCHANGED outcome
  PROVE  Numbered' /\ PendingIsOpen'
<1> DEFINE c == <<ch[1], command>>
<1>1. c \in Calls
  BY CallOfChain DEF Ahead
<1>2. request[c].seq = 0 /\ outcome[c] = <<>>
  BY <1>1 DEF ClientIInv, AheadIsFresh
<1>3. /\ request \in [Calls -> [seq : Nat, to : 0 .. life]] /\ sequence \in Nat \ {0}
      /\ DOMAIN pendingRequests \subseteq 1 .. sequence - 1
  BY DEF ClientIInv, ClientTypeOK
<1>4. /\ sequence' = sequence + 1
      /\ request'[c].seq = sequence
      /\ \A d \in Calls : d # c => request'[d] = request[d]
  BY <1>1, <1>3 DEF doSend
<1>5. \A d \in Calls : request[d].seq \in Nat /\ request[d].seq < sequence
  BY <1>3 DEF ClientIInv, Numbered
<1>6. Numbered'
  <2> SUFFICES ASSUME NEW a \in Calls
               PROVE  /\ request'[a].seq < sequence'
                      /\ \A d \in Calls : request'[a].seq = request'[d].seq =>
                                          a = d \/ request'[a].seq = 0
    BY DEF Numbered
  <2>1. request'[a].seq < sequence'
    BY <1>3, <1>4, <1>5
  <2>2. ASSUME NEW d \in Calls, request'[a].seq = request'[d].seq
        PROVE  a = d \/ request'[a].seq = 0
    <3>1. CASE a = c \/ d = c
      BY <3>1, <2>2, <1>3, <1>4, <1>5
    <3>2. CASE a # c /\ d # c
      BY <3>2, <2>2, <1>4 DEF ClientIInv, Numbered
    <3> QED BY <3>1, <3>2
  <2> QED BY <2>1, <2>2
<1>7. /\ DOMAIN pendingRequests' = {sequence} \cup DOMAIN pendingRequests
      /\ pendingRequests'[sequence] = c
      /\ \A t \in DOMAIN pendingRequests : pendingRequests'[t] = pendingRequests[t]
  BY <1>3 DEF doSend
<1>8. PendingIsOpen'
  <2>1. ASSUME NEW s \in DOMAIN pendingRequests'
        PROVE  /\ pendingRequests'[s] \in Calls
               /\ request'[pendingRequests'[s]].seq = s
               /\ outcome'[pendingRequests'[s]] = <<>>
    <3>1. CASE s = sequence
      BY <3>1, <1>1, <1>2, <1>4, <1>7
    <3>2. CASE s # sequence
      <4>1. s \in DOMAIN pendingRequests /\ s # 0
        BY <3>2, <1>3, <1>7
      <4>2. /\ pendingRequests[s] \in Calls /\ request[pendingRequests[s]].seq = s
            /\ outcome[pendingRequests[s]] = <<>>
        BY <4>1 DEF ClientIInv, PendingIsOpen
      <4> QED BY <4>1, <4>2, <1>2, <1>4, <1>7
    <3> QED BY <3>1, <3>2
  <2>2. ASSUME NEW d \in Calls, request'[d].seq # 0, outcome'[d] = <<>>
        PROVE  request'[d].seq \in DOMAIN pendingRequests'
    <3>1. CASE d = c
      BY <3>1, <1>4, <1>7
    <3>2. CASE d # c
      BY <3>2, <2>2, <1>4, <1>7 DEF ClientIInv, PendingIsOpen
    <3> QED BY <3>1, <3>2
  <2> QED BY <2>1, <2>2 DEF PendingIsOpen
<1> QED BY <1>6, <1>8

\* What lay ahead of the chains is still untouched when one of them has sent the
\* next of its requests and no chain has gone back.
LEMMA SendAhead ==
  ASSUME ClientIInv, NEW ch \in Chains, NEW command \in Ahead(ch), NEW rest,
         doSend(ch, command, rest), UNCHANGED outcome,
         \A k \in Chains : Ahead(k)' \subseteq Ahead(k),
         command \notin Ahead(ch)'
  PROVE  AheadIsFresh'
<1> DEFINE c == <<ch[1], command>>
<1>1. /\ request \in [Calls -> [seq : Nat, to : 0 .. life]]
      /\ \A d \in Calls : d # c => request'[d] = request[d]
  BY DEF ClientIInv, ClientTypeOK, doSend
<1> SUFFICES ASSUME NEW k \in Chains, NEW next \in Ahead(k)', <<k[1], next>> \in Calls
             PROVE  request'[<<k[1], next>>].seq = 0 /\ outcome'[<<k[1], next>>] = <<>>
  BY DEF AheadIsFresh
<1>2. next \in Ahead(k)
  OBVIOUS
<1>3. <<k[1], next>> # c
  <2> SUFFICES ASSUME k[1] = ch[1], next = command PROVE FALSE
    OBVIOUS
  <2>1. k[2] = ch[2]
    BY <1>2 DEF Ahead
  <2>2. k = ch
    BY <2>1, ChainParts
  <2> QED BY <2>2
<1> QED BY <1>1, <1>2, <1>3 DEF ClientIInv, AheadIsFresh

\* Nothing is sent, nothing answered, and no chain goes back.
LEMMA QuietAhead ==
  ASSUME ClientIInv, UNCHANGED <<request, outcome>>,
         \A k \in Chains : Ahead(k)' \subseteq Ahead(k)
  PROVE  AheadIsFresh'
BY DEF ClientIInv, AheadIsFresh

-----------------------------------------------------------------------------
(* An answer *)

LEMMA OwnCallback ==
  ASSUME ClientIInv, NEW c \in Calls, request[c].seq \in DOMAIN pendingRequests
  PROVE  pendingRequests[request[c].seq] = c /\ request[c].seq # 0 /\ outcome[c] = <<>>
<1>1. request[c].seq # 0
  BY DEF ClientIInv, ClientTypeOK
<1> QED BY <1>1 DEF ClientIInv, PendingIsOpen, Numbered

LEMMA HopsType == ASSUME NEW awaited, NEW ok \in BOOLEAN PROVE Hops(awaited, ok) \in 0 .. 1
BY DEF Hops

LEMMA ResponseIInv ==
  ASSUME ClientIInv, NEW c \in Calls, NEW ok \in BOOLEAN, Reached(c),
         DispatchResponse(c, ok), UNCHANGED <<sequence, at, request, life>>
  PROVE  /\ DOMAIN pendingRequests' \subseteq 1 .. sequence' - 1
         /\ jobs' \in Seq(Jobs)
         /\ outcome' \in [Calls -> Seq([from : Lives, of : Calls])]
         /\ Numbered' /\ PendingIsOpen' /\ AheadIsFresh' /\ BegunTogether'
         /\ OwnAnswers => OwnAnswers'
<1> DEFINE s == request[c].seq
<1>1. Numbered'
  BY DEF ClientIInv, Numbered
<1>2. CASE s \notin DOMAIN pendingRequests
  <2>1. UNCHANGED <<pendingRequests, outcome, jobs>>
    BY <1>2 DEF DispatchResponse
  <2>2. \A k \in Chains : Ahead(k)' = Ahead(k)
    BY DEF Ahead
  <2>3. AheadIsFresh'
    BY <2>1, <2>2 DEF ClientIInv, AheadIsFresh
  <2>4. PendingIsOpen' /\ BegunTogether'
    BY <2>1 DEF ClientIInv, PendingIsOpen, BegunTogether
  <2>5. OwnAnswers => OwnAnswers'
    BY <2>1 DEF OwnAnswers
  <2> QED BY <1>1, <2>1, <2>3, <2>4, <2>5 DEF ClientIInv, ClientTypeOK, Jobs
<1>3. CASE s \in DOMAIN pendingRequests
  <2> DEFINE ch  == <<c[1], ChainOf(c[2])>>
             job == [chain |-> ch, ok |-> ok, hops |-> Hops(c[2], ok)]
             ans == [from |-> request[c].to, of |-> c]
  <2>1. pendingRequests[s] = c /\ s # 0 /\ outcome[c] = <<>>
    BY <1>3, OwnCallback
  <2>2. /\ pendingRequests' = Without(s)
        /\ outcome' = [outcome EXCEPT ![c] = Append(@, ans)]
        /\ jobs' = Append(jobs, job)
    BY <1>3, <2>1 DEF DispatchResponse
  <2>3. ch \in Chains /\ c[2] \in Commands
    BY CallParts
  <2>4. job \in Jobs
    BY <2>3, HopsType DEF Jobs
  <2>5. ans \in [from : Lives, of : Calls]
    <3>1. life \in Nat /\ life <= MaxStarts
      BY ClientAssumption, LenProperties DEF ClientIInv, ClientTypeOK
    <3>2. request[c].to \in 1 .. life
      BY <3>1 DEF ClientIInv, ClientTypeOK, Reached
    <3> QED BY <3>1, <3>2, ClientAssumption DEF Lives
  <2>6. /\ outcome \in [Calls -> Seq([from : Lives, of : Calls])] /\ jobs \in Seq(Jobs)
        /\ DOMAIN pendingRequests \subseteq 1 .. sequence - 1
    BY DEF ClientIInv, ClientTypeOK, Jobs
  <2>7. jobs' \in Seq(Jobs)
    BY <2>2, <2>4, <2>6, AppendProperties
  <2>8. /\ outcome'[c] = <<ans>>
        /\ \A d \in Calls : d # c => outcome'[d] = outcome[d]
    BY <2>1, <2>2, <2>6
  <2>9. outcome' \in [Calls -> Seq([from : Lives, of : Calls])]
    <3>1. <<ans>> \in Seq([from : Lives, of : Calls])
      BY <2>5
    <3> QED BY <2>2, <2>6, <2>8, <3>1
  <2>10. /\ DOMAIN pendingRequests' = DOMAIN pendingRequests \ {s}
         /\ \A t \in DOMAIN pendingRequests' : pendingRequests'[t] = pendingRequests[t]
    BY <2>2, Removed
  <2>11. DOMAIN pendingRequests' \subseteq 1 .. sequence' - 1
    BY <2>6, <2>10
  <2>12. PendingIsOpen'
    <3>1. ASSUME NEW t \in DOMAIN pendingRequests'
          PROVE  /\ pendingRequests'[t] \in Calls
                 /\ request'[pendingRequests'[t]].seq = t
                 /\ outcome'[pendingRequests'[t]] = <<>>
      <4>1. t \in DOMAIN pendingRequests /\ t # s /\ pendingRequests'[t] = pendingRequests[t]
        BY <2>10
      <4>2. pendingRequests[t] # c
        BY <4>1 DEF ClientIInv, PendingIsOpen
      <4> QED BY <4>1, <4>2, <2>8 DEF ClientIInv, PendingIsOpen
    <3>2. ASSUME NEW d \in Calls, request'[d].seq # 0, outcome'[d] = <<>>
          PROVE  request'[d].seq \in DOMAIN pendingRequests'
      <4>1. d # c
        BY <2>8, <3>2
      <4>2. request[d].seq \in DOMAIN pendingRequests
        BY <4>1, <2>8, <3>2 DEF ClientIInv, PendingIsOpen
      <4>3. request[d].seq # s
        BY <4>1, <3>2 DEF ClientIInv, Numbered
      <4> QED BY <4>2, <4>3, <2>10
    <3> QED BY <3>1, <3>2 DEF PendingIsOpen
  <2>13. at[ch] # "idle"
    BY <2>1, BegunIfSent
  <2>14. AheadIsFresh'
    <3> SUFFICES ASSUME NEW k \in Chains, NEW next \in Ahead(k)', <<k[1], next>> \in Calls
                 PROVE  request'[<<k[1], next>>].seq = 0 /\ outcome'[<<k[1], next>>] = <<>>
      BY DEF AheadIsFresh
    <3>1. next \in Ahead(k)
      BY DEF Ahead
    <3>2. request[<<k[1], next>>].seq = 0 /\ outcome[<<k[1], next>>] = <<>>
      BY <3>1 DEF ClientIInv, AheadIsFresh
    <3>3. <<k[1], next>> # c
      BY <3>2, <2>1
    <3> QED BY <3>2, <3>3, <2>8
  <2>15. BegunTogether'
    <3>1. ASSUME NEW i \in DOMAIN jobs' PROVE at'[jobs'[i].chain] # "idle"
      <4>1. Len(jobs) \in Nat /\ DOMAIN jobs = 1 .. Len(jobs) /\ DOMAIN jobs' = 1 .. Len(jobs) + 1
        BY <2>2, <2>4, <2>6, AppendProperties, LenProperties
      <4>2. CASE i = Len(jobs) + 1
        BY <4>2, <2>2, <2>4, <2>6, <2>13, AppendProperties
      <4>3. CASE i \in DOMAIN jobs
        BY <4>1, <4>3, <2>2, <2>4, <2>6, AppendProperties DEF ClientIInv, BegunTogether
      <4> QED BY <4>1, <4>2, <4>3
    <3> QED BY <3>1 DEF ClientIInv, BegunTogether
  <2>16. OwnAnswers => OwnAnswers'
    BY <2>8 DEF OwnAnswers
  <2> QED BY <1>1, <2>7, <2>9, <2>11, <2>12, <2>14, <2>15, <2>16
<1> QED BY <1>2, <1>3
-----------------------------------------------------------------------------
(* An event *)

LEMMA EventIInv ==
  ASSUME ClientIInv, NEW l \in 0 .. life, NEW event \in Events,
         DispatchEvent(l, event), UNCHANGED <<at, life>>
  PROVE  /\ jobs' \in Seq(Jobs)
         /\ \A i \in DOMAIN jobs' : at'[jobs'[i].chain] # "idle"
         /\ listeners' \cup timers' \subseteq Chains
         /\ wokenBy' \in [Chains -> 0 .. life']
<1> DEFINE heard   == {ch \in listeners : EventOf(ch) = event}
           waiting == {ch \in heard : StillWaits(ch, event)}
<1>1. /\ jobs \in Seq(Jobs) /\ listeners \cup timers \subseteq Chains
      /\ wokenBy \in [Chains -> 0 .. life]
      /\ \A i \in DOMAIN jobs : at[jobs[i].chain] # "idle"
  BY DEF ClientIInv, ClientTypeOK, Jobs, BegunTogether
<1>2. \A ch \in waiting : ch \in Chains /\ at[ch] # "idle"
  BY <1>1 DEF StillWaits, Events
<1>3. PICK w \in InOrder(waiting) :
        jobs' = jobs \o [i \in DOMAIN w |-> [chain |-> w[i], ok |-> TRUE, hops |-> 0]]
  BY DEF DispatchEvent
<1> DEFINE due == [i \in DOMAIN w |-> [chain |-> w[i], ok |-> TRUE, hops |-> 0]]
<1>4. PICK n \in 0 .. MaxStarts : w \in [1 .. n -> waiting]
  BY DEF InOrder
<1>5. n \in Nat /\ DOMAIN w = 1 .. n
  BY <1>4, ClientAssumption
<1>6. due \in [1 .. n -> Jobs]
  <2>1. \A i \in DOMAIN w : [chain |-> w[i], ok |-> TRUE, hops |-> 0] \in Jobs
    BY <1>2, <1>4, <1>5 DEF Jobs
  <2> QED BY <2>1, <1>5
<1>7. due \in Seq(Jobs)
  BY <1>5, <1>6
<1>8. Len(due) = n /\ \A i \in 1 .. n : due[i].chain = w[i]
  BY <1>5, <1>6, <1>7, LenProperties
<1>9. jobs' \in Seq(Jobs)
  BY <1>1, <1>3, <1>7, ConcatProperties
<1>10. ASSUME NEW i \in DOMAIN jobs' PROVE at'[jobs'[i].chain] # "idle"
  <2>1. /\ Len(jobs) \in Nat /\ DOMAIN jobs = 1 .. Len(jobs)
        /\ DOMAIN jobs' = 1 .. Len(jobs) + n
    BY <1>1, <1>3, <1>5, <1>7, <1>8, <1>9, ConcatProperties, LenProperties
  <2>2. CASE i \in DOMAIN jobs
    BY <2>1, <2>2, <1>1, <1>3, <1>7, ConcatProperties
  <2>3. CASE i \notin DOMAIN jobs
    <3>1. i - Len(jobs) \in 1 .. n /\ i \in Len(jobs) + 1 .. Len(jobs) + Len(due)
      BY <2>1, <2>3, <1>5, <1>8
    <3>2. jobs'[i] = due[i - Len(jobs)]
      BY <3>1, <1>1, <1>3, <1>7, ConcatProperties
    <3> QED BY <3>1, <3>2, <1>2, <1>4, <1>8
  <2> QED BY <2>2, <2>3
<1>11. listeners' \cup timers' \subseteq Chains
  BY <1>1 DEF DispatchEvent
<1>12. wokenBy' \in [Chains -> 0 .. life']
  BY <1>1 DEF DispatchEvent
<1> QED BY <1>9, <1>10, <1>11, <1>12

-----------------------------------------------------------------------------
(* A chain goes on *)

LEMMA AheadOf ==
  ASSUME ClientIInv, NEW ch \in Chains
  PROVE  /\ at[ch] = "initialized" =>
              {"setBreakpoints", "configurationDone", "setExceptionBreakpoints"} \subseteq Ahead(ch)
         /\ at[ch] = "setBreakpoints" =>
              {"configurationDone", "setExceptionBreakpoints"} \subseteq Ahead(ch)
         /\ at[ch] = "initialize" => "launch" \in Ahead(ch)
         /\ at[ch] = "stopped" => "stackTrace" \in Ahead(ch)
<1>1. Fits(ch)
  BY DEF ClientIInv, ClientTypeOK
<1> QED BY <1>1 DEF Fits, Ahead, ChainOf, Commands, Events, EventOf

\* A chain that goes on to the request it comes to next.
LEMMA GotoIInv ==
  ASSUME ClientIInv, NEW ch \in Chains, NEW command \in Ahead(ch), NEW rest \in Seq(Jobs),
         at[ch] # "idle" \/ ch[2] = "stop",
         \A i \in DOMAIN rest : at[rest[i].chain] # "idle",
         Goto(ch, command, rest), UNCHANGED <<outcome, life>>
  PROVE  /\ sequence' \in Nat \ {0} /\ DOMAIN pendingRequests' \subseteq 1 .. sequence' - 1
         /\ at' \in [Chains -> Awaited \cup {"idle", "done", "failed"}]
         /\ \A k \in Chains : Fits(k)'
         /\ jobs' \in Seq(Jobs)
         /\ request' \in [Calls -> [seq : Nat, to : 0 .. life']]
         /\ Numbered' /\ PendingIsOpen' /\ AheadIsFresh' /\ BegunTogether'
<1>1. doSend(ch, command, rest) /\ at' = [at EXCEPT ![ch] = command]
  BY DEF Goto
<1>2. /\ at \in [Chains -> Awaited \cup {"idle", "done", "failed"}]
      /\ \A k \in Chains : Fits(k)
  BY DEF ClientIInv, ClientTypeOK
<1>3. command \in Commands /\ ChainOf(command) = ch[2]
  BY DEF Ahead
<1>4. /\ at' \in [Chains -> Awaited \cup {"idle", "done", "failed"}]
      /\ at'[ch] = command /\ \A k \in Chains : k # ch => at'[k] = at[k]
  BY <1>1, <1>2, <1>3 DEF Awaited
<1>5. \A k \in Chains : Fits(k)'
  BY <1>2, <1>3, <1>4 DEF Fits, Commands, Events
<1>6. \A k \in Chains : Ahead(k)' \subseteq Ahead(k)
  BY <1>3, <1>4 DEF Ahead, Commands, Events
<1>7. command \notin Ahead(ch)'
  BY <1>3, <1>4 DEF Ahead, Commands, Events
<1>8. AheadIsFresh'
  BY <1>1, <1>6, <1>7, SendAhead
<1>9. BegunTogether'
  <2>1. ASSUME NEW l \in Lives, at'[<<l, "launch">>] = "idle", NEW s \in Scenario
        PROVE  at'[<<l, s>>] = "idle"
    <3>1. <<l, "launch">> \in Chains /\ <<l, s>> \in Chains /\ s # "stop"
      BY ChainsOfRuns DEF Scenario
    <3>2. at[<<l, "launch">>] = "idle"
      BY <2>1, <3>1, <1>3, <1>4 DEF Commands
    <3>3. at[<<l, s>>] = "idle"
      BY <3>2 DEF ClientIInv, BegunTogether
    <3>4. <<l, s>> # ch
      BY <3>1, <3>3
    <3> QED BY <3>1, <3>3, <3>4, <1>4
  <2>2. ASSUME NEW i \in DOMAIN jobs' PROVE at'[jobs'[i].chain] # "idle"
    <3>1. ASSUME NEW k \in Chains, at[k] # "idle" PROVE at'[k] # "idle"
      BY <3>1, <1>3, <1>4 DEF Commands
    <3>2. /\ Len(rest) \in Nat /\ DOMAIN rest = 1 .. Len(rest)
          /\ \A j \in DOMAIN rest : rest[j].chain \in Chains
      <4>1. Len(rest) \in Nat /\ DOMAIN rest = 1 .. Len(rest)
        BY LenProperties
      <4>2. \A j \in DOMAIN rest : rest[j] \in Jobs
        BY <4>1, ElementOfSeq
      <4> QED BY <4>1, <4>2 DEF Jobs
    <3>3. CASE jobs' = rest
      BY <3>1, <3>2, <3>3
    <3>4. CASE jobs' = Append(rest, [chain |-> ch, ok |-> FALSE, hops |-> 1])
      <4>1. [chain |-> ch, ok |-> FALSE, hops |-> 1] \in Jobs
        BY DEF Jobs
      <4>2. DOMAIN jobs' = 1 .. Len(rest) + 1
        BY <3>2, <3>4, <4>1, AppendProperties, LenProperties
      <4>3. CASE i = Len(rest) + 1
        BY <3>2, <3>4, <4>1, <4>3, <1>3, <1>4, AppendProperties DEF Commands
      <4>4. CASE i \in DOMAIN rest
        BY <3>1, <3>2, <3>4, <4>1, <4>4, AppendProperties
      <4> QED BY <3>2, <4>2, <4>3, <4>4
    <3> QED BY <3>3, <3>4, <1>1 DEF doSend
  <2> QED BY <2>1, <2>2 DEF BegunTogether
<1> QED BY <1>1, <1>4, <1>5, <1>8, <1>9, SendTypes, SendNumbered

\* A chain that ends.
LEMMA EndsIInv ==
  ASSUME ClientIInv, NEW ch \in Chains, NEW how \in {"done", "failed"},
         NEW rest \in Seq(Jobs), at[ch] # "idle",
         \A i \in DOMAIN rest : at[rest[i].chain] # "idle",
         Ends(ch, how, rest), UNCHANGED <<outcome, life>>
  PROVE  /\ sequence' \in Nat \ {0} /\ DOMAIN pendingRequests' \subseteq 1 .. sequence' - 1
         /\ at' \in [Chains -> Awaited \cup {"idle", "done", "failed"}]
         /\ \A k \in Chains : Fits(k)'
         /\ jobs' \in Seq(Jobs)
         /\ request' \in [Calls -> [seq : Nat, to : 0 .. life']]
         /\ Numbered' /\ PendingIsOpen' /\ AheadIsFresh' /\ BegunTogether'
<1>1. /\ jobs' = rest /\ UNCHANGED <<sequence, pendingRequests, request>>
      /\ at' = [at EXCEPT ![ch] = how]
  BY DEF Ends, Quiet
<1>2. /\ at \in [Chains -> Awaited \cup {"idle", "done", "failed"}]
      /\ \A k \in Chains : Fits(k)
      /\ sequence \in Nat \ {0} /\ DOMAIN pendingRequests \subseteq 1 .. sequence - 1
      /\ request \in [Calls -> [seq : Nat, to : 0 .. life]]
  BY DEF ClientIInv, ClientTypeOK
<1>3. /\ at' \in [Chains -> Awaited \cup {"idle", "done", "failed"}]
      /\ at'[ch] = how /\ \A k \in Chains : k # ch => at'[k] = at[k]
  BY <1>1, <1>2
<1>4. \A k \in Chains : Fits(k)'
  BY <1>2, <1>3 DEF Fits, Commands, Events
<1>5. \A k \in Chains : Ahead(k)' \subseteq Ahead(k)
  BY <1>3 DEF Ahead, Commands, Events
<1>6. AheadIsFresh'
  BY <1>1, <1>5, QuietAhead
<1>7. Numbered' /\ PendingIsOpen'
  BY <1>1 DEF ClientIInv, Numbered, PendingIsOpen
<1>8. BegunTogether'
  <2>1. ASSUME NEW l \in Lives, at'[<<l, "launch">>] = "idle", NEW s \in Scenario
        PROVE  at'[<<l, s>>] = "idle"
    <3>1. <<l, "launch">> \in Chains /\ <<l, s>> \in Chains
      BY DEF Chains, Scenario
    <3>2. at[<<l, "launch">>] = "idle"
      BY <2>1, <3>1, <1>3
    <3>3. at[<<l, s>>] = "idle"
      BY <3>2 DEF ClientIInv, BegunTogether
    <3> QED BY <3>1, <3>3, <1>3
  <2>2. ASSUME NEW i \in DOMAIN rest PROVE at'[rest[i].chain] # "idle"
    <3>1. rest[i] \in Jobs
      <4>1. i \in 1 .. Len(rest)
        BY LenProperties
      <4> QED BY <4>1, ElementOfSeq
    <3>2. rest[i].chain \in Chains
      BY <3>1 DEF Jobs
    <3> QED BY <3>2, <1>3
  <2> QED BY <2>1, <2>2, <1>1 DEF BegunTogether
<1> QED BY <1>1, <1>2, <1>3, <1>4, <1>6, <1>7, <1>8

\* The parts of the state that only their types matter of.
Rest ==
    /\ test \in Tests /\ life \in 0 .. Len(test) /\ chunk \in 0 .. life
    /\ link \in {"none", "process", "socket"} /\ supports \in BOOLEAN
    /\ listeners \cup timers \subseteq Chains
    /\ outcome \in [Calls -> Seq([from : Lives, of : Calls])]
    /\ wokenBy \in [Chains -> 0 .. life]
    /\ up \cup announced \cup repeated \subseteq 1 .. life
    /\ reply \in [Calls -> {"none", "ok", "failed"}]
    /\ sent \in [Lives -> SUBSET Events]

LEMMA RestHolds == ClientIInv => Rest
BY DEF ClientIInv, ClientTypeOK, Rest

\* What the lemmas on the steps of a chain give, and Rest, make up the invariant.
Moved ==
    /\ sequence \in Nat \ {0} /\ DOMAIN pendingRequests \subseteq 1 .. sequence - 1
    /\ at \in [Chains -> Awaited \cup {"idle", "done", "failed"}]
    /\ \A k \in Chains : Fits(k)
    /\ jobs \in Seq(Jobs)
    /\ request \in [Calls -> [seq : Nat, to : 0 .. life]]
    /\ Numbered /\ PendingIsOpen /\ AheadIsFresh /\ BegunTogether

LEMMA MovedHolds == ClientIInv => Moved
BY DEF ClientIInv, ClientTypeOK, Moved, Jobs

LEMMA Together == (Moved /\ Rest)' => ClientIInv'
BY DEF ClientIInv, ClientTypeOK, Moved, Rest, Jobs

LEMMA ContinueIInv ==
  ASSUME ClientIInv, NEW ch \in Chains, NEW rest \in Seq(Jobs), at[ch] # "idle",
         \A i \in DOMAIN rest : at[rest[i].chain] # "idle",
         Continue(ch, rest) \/ Reject(ch, rest), UNCHANGED <<outcome, life>>
  PROVE  /\ Moved'
         /\ link' \in {"none", "process", "socket"} /\ supports' \in BOOLEAN
         /\ up' \subseteq up
<1>1. ASSUME NEW command \in Ahead(ch), Goto(ch, command, rest) PROVE Moved'
  BY <1>1, GotoIInv DEF Moved
<1>2. ASSUME NEW how \in {"done", "failed"}, Ends(ch, how, rest) PROVE Moved'
  BY <1>2, EndsIInv DEF Moved
<1>3. Rest
  BY RestHolds
<1>4. CASE Reject(ch, rest)
  <2>1. Moved'
    BY <1>2, <1>4 DEF Reject
  <2> QED BY <2>1, <1>3, <1>4 DEF Reject, stopAdapter, Rest
<1>5. ASSUME configurationDone(ch, rest), at[ch] \in {"initialized", "setBreakpoints"}
      PROVE  Moved'
  BY <1>1, <1>5, AheadOf DEF configurationDone
<1>6. CASE at[ch] = "initialized" /\ Continue(ch, rest)
  <2>1. Moved'
    BY <1>1, <1>5, <1>6, AheadOf DEF Continue
  <2> QED BY <2>1, <1>3, <1>6 DEF Continue, Rest
<1>7. CASE at[ch] = "setBreakpoints" /\ Continue(ch, rest)
  <2>1. Moved'
    BY <1>2, <1>5, <1>7, AheadOf DEF Continue
  <2> QED BY <2>1, <1>3, <1>7 DEF Continue, Rest
<1>8. CASE at[ch] = "initialize" /\ Continue(ch, rest)
  <2>1. Moved'
    BY <1>1, <1>8, AheadOf DEF Continue
  <2>2. (supports \/ BodySupports(ch)) \in BOOLEAN
    BY <1>3 DEF Rest, BodySupports
  <2> QED BY <2>1, <2>2, <1>3, <1>8 DEF Continue, Rest
<1>9. CASE at[ch] = "stopped" /\ Continue(ch, rest)
  <2>1. Moved'
    BY <1>1, <1>2, <1>9, AheadOf DEF Continue
  <2> QED BY <2>1, <1>3, <1>9 DEF Continue, Rest
<1>10. CASE /\ Continue(ch, rest)
            /\ at[ch] \in {"configurationDone", "setExceptionBreakpoints", "launch", "stackTrace"}
  <2>1. Moved'
    BY <1>2, <1>10 DEF Continue
  <2> QED BY <2>1, <1>3, <1>10 DEF Continue, Rest
<1>11. CASE at[ch] = "disconnect" /\ Continue(ch, rest)
  <2>1. Moved'
    BY <1>2, <1>11 DEF Continue
  <2> QED BY <2>1, <1>3, <1>11 DEF Continue, stopAdapter, Rest
<1> QED BY <1>4, <1>6, <1>7, <1>8, <1>9, <1>10, <1>11 DEF Continue

-----------------------------------------------------------------------------
(* The steps *)

LEMMA RunJobIInv == ClientIInv /\ RunJob => ClientIInv'
<1> SUFFICES ASSUME ClientIInv, RunJob PROVE ClientIInv'
  OBVIOUS
<1> DEFINE job == Head(jobs)
<1>1. Rest /\ Moved
  BY RestHolds, MovedHolds
<1>2. jobs \in Seq(Jobs) /\ jobs # <<>>
  BY <1>1 DEF Moved, RunJob
<1>3. /\ job \in Jobs /\ Tail(jobs) \in Seq(Jobs) /\ Len(jobs) \in Nat \ {0}
      /\ Len(Tail(jobs)) = Len(jobs) - 1
      /\ \A i \in 1 .. Len(Tail(jobs)) : Tail(jobs)[i] = jobs[i + 1]
  BY <1>2, HeadTailProperties, EmptySeq
<1>4. DOMAIN jobs = 1 .. Len(jobs) /\ DOMAIN Tail(jobs) = 1 .. Len(Tail(jobs))
  BY <1>2, <1>3, LenProperties
<1>5. \A i \in DOMAIN jobs : at[jobs[i].chain] # "idle"
  BY DEF ClientIInv, BegunTogether
<1>6. \A i \in DOMAIN Tail(jobs) : at[Tail(jobs)[i].chain] # "idle"
  BY <1>3, <1>4, <1>5
<1>7. job.chain \in Chains /\ at[job.chain] # "idle"
  BY <1>2, <1>3, <1>4, <1>5 DEF Jobs
<1>8. /\ chunk' = 0
      /\ UNCHANGED <<test, life, listeners, timers, outcome, wokenBy, reply, announced, sent, repeated>>
  BY DEF RunJob, client
<1>9. 0 \in 0 .. life /\ life \in Nat
  BY <1>1, ClientAssumption, LenProperties DEF Rest
<1>10. CASE job.hops > 0
  <2> DEFINE later == [job EXCEPT !.hops = @ - 1]
  <2>1. /\ jobs' = Append(Tail(jobs), later)
        /\ UNCHANGED <<client, request, up>>
    BY <1>10 DEF RunJob
  <2>2. later \in Jobs /\ later.chain = job.chain
    BY <1>3, <1>10 DEF Jobs
  <2>3. /\ jobs' \in Seq(Jobs) /\ DOMAIN jobs' = 1 .. Len(Tail(jobs)) + 1
        /\ \A i \in DOMAIN jobs' : jobs'[i] = IF i = Len(Tail(jobs)) + 1 THEN later
                                                                        ELSE Tail(jobs)[i]
    BY <2>1, <2>2, <1>3, AppendProperties, LenProperties
  <2>4. ASSUME NEW i \in DOMAIN jobs' PROVE at[jobs'[i].chain] # "idle"
    <3> HIDE DEF later, job
    <3>1. CASE i = Len(Tail(jobs)) + 1
      BY <3>1, <2>2, <2>3, <1>7
    <3>2. CASE i # Len(Tail(jobs)) + 1
      <4>1. i \in DOMAIN Tail(jobs) /\ jobs'[i] = Tail(jobs)[i]
        BY <3>2, <2>3, <1>3, <1>4
      <4> QED BY <4>1, <1>6
    <3> QED BY <3>1, <3>2
  <2>5. BegunTogether'
    BY <2>1, <2>4 DEF ClientIInv, BegunTogether, client
  <2>6. \A k \in Chains : Fits(k)' /\ Ahead(k)' = Ahead(k)
    BY <1>1, <2>1 DEF Moved, Fits, Ahead, client
  <2>7. AheadIsFresh'
    BY <2>1, <2>6, <1>8, QuietAhead DEF client
  <2>8. Numbered' /\ PendingIsOpen'
    BY <2>1, <1>8 DEF ClientIInv, Numbered, PendingIsOpen, client
  <2>9. Moved'
    BY <2>1, <2>3, <2>5, <2>6, <2>7, <2>8, <1>1 DEF Moved, client
  <2>10. Rest'
    BY <2>1, <1>1, <1>8, <1>9 DEF Rest, client
  <2> QED BY <2>9, <2>10, Together
<1>11. CASE ~(job.hops > 0)
  <2>1. Continue(job.chain, Tail(jobs)) \/ Reject(job.chain, Tail(jobs))
    BY <1>11 DEF RunJob
  <2>2. /\ Moved'
        /\ link' \in {"none", "process", "socket"} /\ supports' \in BOOLEAN
        /\ up' \subseteq up
    BY <2>1, <1>3, <1>6, <1>7, <1>8, ContinueIInv
  <2>3. Rest'
    BY <2>2, <1>1, <1>8, <1>9 DEF Rest
  <2> QED BY <2>2, <2>3, Together
<1> QED BY <1>10, <1>11

LEMMA AnswerIInv ==
  ASSUME ClientIInv, NEW c \in Calls, NEW ok \in BOOLEAN, Answer(c, ok) \/ AnswerAgain(c)
  PROVE  ClientIInv' /\ (OwnAnswers => OwnAnswers')
<1>1. Rest /\ Moved
  BY RestHolds, MovedHolds
<1>2. /\ life \in Nat /\ request[c].to \in 0 .. life
      /\ \A n \in Nat : n <= life => n \in Lives \cup {0}
  BY <1>1, ClientAssumption, LenProperties DEF Rest, Moved, Lives
<1>3. Reached(c)
  BY DEF Answer, AnswerAgain
<1>4. /\ DispatchResponse(c, ok) \/ DispatchResponse(c, reply[c] = "ok")
      /\ chunk' = (IF jobs' = <<>> THEN 0 ELSE request[c].to)
      /\ UNCHANGED <<test, life, link, supports, sequence, at, listeners, timers, request, wokenBy, up, sent>>
  BY DEF Answer, AnswerAgain, InChunk
<1>5. /\ DOMAIN pendingRequests' \subseteq 1 .. sequence' - 1
      /\ jobs' \in Seq(Jobs)
      /\ outcome' \in [Calls -> Seq([from : Lives, of : Calls])]
      /\ Numbered' /\ PendingIsOpen' /\ AheadIsFresh' /\ BegunTogether'
      /\ OwnAnswers => OwnAnswers'
  BY <1>3, <1>4, ResponseIInv
<1>6. \A k \in Chains : Fits(k)'
  BY <1>1, <1>4 DEF Moved, Fits
<1>7. Moved'
  BY <1>1, <1>4, <1>5, <1>6 DEF Moved
<1>8. chunk' \in 0 .. life'
  BY <1>2, <1>4
<1>9. /\ reply' \in [Calls -> {"none", "ok", "failed"}]
      /\ announced' \cup repeated' \subseteq 1 .. life
  <2>1. request[c].to \in 1 .. life
    BY <1>2, <1>3 DEF Reached
  <2>2. /\ reply \in [Calls -> {"none", "ok", "failed"}]
        /\ announced \subseteq 1 .. life /\ repeated \subseteq 1 .. life
    BY <1>1 DEF Rest
  <2>3. CASE Answer(c, ok)
    <3>1. reply' = [reply EXCEPT ![c] = IF ok THEN "ok" ELSE "failed"] /\ repeated' = repeated
      BY <2>3 DEF Answer
    <3>2. announced' = announced \cup {request[c].to} \/ announced' = announced
      BY <2>3 DEF Answer
    <3> QED BY <3>1, <3>2, <2>1, <2>2
  <2>4. CASE AnswerAgain(c)
    <3>1. /\ UNCHANGED <<reply, announced>>
          /\ repeated' = repeated \cup {request[c].to}
      BY <2>4 DEF AnswerAgain
    <3> QED BY <3>1, <2>1, <2>2
  <2> QED BY <2>3, <2>4
<1>10. Rest'
  BY <1>1, <1>4, <1>5, <1>8, <1>9 DEF Rest
<1> QED BY <1>5, <1>7, <1>10, Together

LEMMA SendEventIInv ==
  ASSUME ClientIInv, NEW l \in Lives, NEW event \in Events, SendEvent(l, event)
  PROVE  ClientIInv'
<1>1. Rest /\ Moved
  BY RestHolds, MovedHolds
<1>2. life \in Nat /\ l \in 1 .. life
  <2>1. PICK c \in Calls : request[c].to = l
    BY DEF SendEvent, MaySendEvent, AnsweredOk
  <2> QED BY <2>1, <1>1, ClientAssumption, LenProperties DEF Rest, Moved, Lives
<1>3. /\ DispatchEvent(l, event)
      /\ chunk' = (IF jobs' = <<>> THEN 0 ELSE l)
      /\ UNCHANGED <<test, life, link, supports, sequence, pendingRequests, at>>
      /\ UNCHANGED <<request, outcome, up, reply, announced, repeated>>
  BY DEF SendEvent, InChunk
<1>4. /\ jobs' \in Seq(Jobs)
      /\ \A i \in DOMAIN jobs' : at'[jobs'[i].chain] # "idle"
      /\ listeners' \cup timers' \subseteq Chains
      /\ wokenBy' \in [Chains -> 0 .. life']
  BY <1>2, <1>3, EventIInv
<1>5. \A k \in Chains : Fits(k)' /\ Ahead(k)' = Ahead(k)
  BY <1>1, <1>3 DEF Moved, Fits, Ahead
<1>6. AheadIsFresh'
  BY <1>3, <1>5, QuietAhead
<1>7. Numbered' /\ PendingIsOpen' /\ BegunTogether'
  BY <1>3, <1>4 DEF ClientIInv, Numbered, PendingIsOpen, BegunTogether
<1>8. Moved'
  BY <1>1, <1>3, <1>4, <1>5, <1>6, <1>7 DEF Moved
<1>9. sent' \in [Lives -> SUBSET Events]
  BY <1>1 DEF SendEvent, Rest
<1>10. chunk' \in 0 .. life'
  BY <1>2, <1>3
<1>11. UNCHANGED <<test, life, link, supports, outcome, up, reply, announced, repeated>>
  BY <1>3
<1>12. Rest'
  BY <1>1, <1>4, <1>9, <1>10, <1>11 DEF Rest
<1> QED BY <1>8, <1>12, Together

LEMMA StartIInv == ClientIInv /\ Start => ClientIInv'
<1> SUFFICES ASSUME ClientIInv, Start PROVE ClientIInv'
  OBVIOUS
<1>1. Rest /\ Moved
  BY RestHolds, MovedHolds
<1>2. Len(test) \in Nat /\ life \in Nat
  BY <1>1, ClientAssumption, LenProperties DEF Rest
<1>3. /\ life' = life + 1 /\ life' \in 0 .. Len(test)
      /\ \A n \in 0 .. life : n \in 0 .. life'
      /\ up' = up \cup {life'} /\ link' \in {"none", "process", "socket"}
      /\ sequence' = sequence
      /\ UNCHANGED <<test, supports, pendingRequests, at, listeners, timers, jobs, chunk,
                     request, outcome, wokenBy, reply, announced, sent, repeated>>
  BY <1>1, <1>2 DEF Start, SeqAfterStart, queue, history, Rest
<1>4. \A k \in Chains : Fits(k)' /\ Ahead(k)' = Ahead(k)
  BY <1>1, <1>3 DEF Moved, Fits, Ahead
<1>5. AheadIsFresh'
  BY <1>3, <1>4, QuietAhead
<1>6. Numbered' /\ PendingIsOpen' /\ BegunTogether'
  BY <1>3 DEF ClientIInv, Numbered, PendingIsOpen, BegunTogether
<1>7. request' \in [Calls -> [seq : Nat, to : 0 .. life']]
  <2>1. ASSUME NEW c \in Calls PROVE request[c] \in [seq : Nat, to : 0 .. life']
    BY <1>1, <1>3 DEF Moved
  <2>2. request = [c \in Calls |-> request[c]]
    BY <1>1 DEF Moved
  <2> QED BY <2>1, <2>2, <1>3
<1>8. Moved'
  BY <1>1, <1>3, <1>4, <1>5, <1>6, <1>7 DEF Moved
<1>9. chunk' \in 0 .. life' /\ wokenBy' \in [Chains -> 0 .. life']
  BY <1>1, <1>3 DEF Rest
<1>10. (up \cup announced \cup repeated)' \subseteq 1 .. life'
  BY <1>1, <1>2, <1>3 DEF Rest
<1>11. Rest'
  BY <1>1, <1>3, <1>9, <1>10 DEF Rest
<1> QED BY <1>8, <1>11, Together

LEMMA StopIInv == ClientIInv /\ Stop => ClientIInv'
<1> SUFFICES ASSUME ClientIInv, Stop PROVE ClientIInv'
  OBVIOUS
<1> DEFINE ch == <<life, "stop">>
<1>1. Rest
  BY RestHolds
<1>2. ch \in Chains
  BY <1>1, ClientAssumption, LenProperties DEF Rest, Chains, Lives
<1>3. "disconnect" \in Ahead(ch)
  BY DEF Stop, Ahead, Commands, ChainOf
<1>4. Goto(ch, "disconnect", <<>>)
  BY DEF Stop, Goto
<1>5. UNCHANGED <<test, life, link, supports, listeners, timers, chunk, outcome, wokenBy,
                  up, reply, announced, sent, repeated>>
  BY DEF Stop, adapter
<1>6. Moved'
  <2>1. /\ <<>> \in Seq(Jobs) /\ ch[2] = "stop"
        /\ \A i \in DOMAIN <<>> : at[<<>>[i].chain] # "idle"
    OBVIOUS
  <2>2. UNCHANGED <<outcome, life>>
    BY <1>5
  <2> HIDE DEF ch
  <2> QED BY <2>1, <2>2, <1>2, <1>3, <1>4, GotoIInv DEF Moved
<1>7. Rest'
  BY <1>1, <1>5 DEF Rest
<1> QED BY <1>6, <1>7, Together

LEMMA RunIInv == ClientIInv /\ Run => ClientIInv'
<1> SUFFICES ASSUME ClientIInv, Run PROVE ClientIInv'
  OBVIOUS
<1> DEFINE ch == <<life, "launch">>
<1>1. Rest /\ Moved
  BY RestHolds, MovedHolds
<1>2. life \in Lives /\ ch \in Chains
  <2>1. life \in 1 .. Len(test)
    BY DEF Run, RunChains
  <2> QED BY <2>1, <1>1, ClientAssumption, LenProperties DEF Rest, Lives, Chains, Scenario
<1>3. \A k \in Waits(life) : k \in Chains /\ k[1] = life /\ k[2] \in {"configuration", "stopped"}
  BY <1>2 DEF Waits, RunChains, Chains, Scenario
<1>4. \A s \in Scenario : at[<<life, s>>] = "idle"
  BY <1>2 DEF Run, ClientIInv, BegunTogether
<1>5. \A k \in Waits(life) : at[k] = "idle"
  BY <1>3, <1>4, ChainParts DEF Scenario
<1>6. /\ at' = [k \in Chains |-> IF k = ch THEN "initialize"
                                 ELSE IF k \in Waits(life) THEN EventOf(k) ELSE at[k]]
      /\ listeners' = listeners \cup Waits(life)
      /\ timers' \subseteq timers \cup Waits(life)
      /\ doSend(ch, "initialize", <<>>)
      /\ UNCHANGED <<test, life, link, supports, chunk, outcome, wokenBy,
                     up, reply, announced, sent, repeated>>
  BY DEF Run, adapter
<1>7. "initialize" \in Ahead(ch) /\ at[ch] = "idle"
  BY <1>4 DEF Ahead, Commands, ChainOf, Scenario
<1>8. at' \in [Chains -> Awaited \cup {"idle", "done", "failed"}]
  BY <1>1, <1>6 DEF Moved, Awaited, Commands, Events, EventOf
<1>9. \A k \in Chains : Fits(k)'
  <2> SUFFICES ASSUME NEW k \in Chains PROVE Fits(k)'
    OBVIOUS
  <2>1. CASE k = ch
    BY <2>1, <1>2, <1>6 DEF Fits, Commands, Events, ChainOf
  <2>2. CASE k # ch /\ k \in Waits(life)
    <3>1. at'[k] = EventOf(k)
      BY <2>2, <1>6
    <3> QED BY <3>1, <2>2, <1>3 DEF Fits, Commands, EventOf
  <2>3. CASE k # ch /\ k \notin Waits(life)
    <3>1. at'[k] = at[k]
      BY <2>3, <1>6
    <3> QED BY <3>1, <1>1 DEF Moved, Fits
  <2> QED BY <2>1, <2>2, <2>3
<1>10. \A k \in Chains : Ahead(k)' \subseteq Ahead(k)
  <2> SUFFICES ASSUME NEW k \in Chains PROVE Ahead(k)' \subseteq Ahead(k)
    OBVIOUS
  <2>1. CASE k = ch \/ k \in Waits(life)
    BY <2>1, <1>5, <1>7 DEF Ahead
  <2>2. CASE ~(k = ch \/ k \in Waits(life))
    BY <2>2, <1>6 DEF Ahead
  <2> QED BY <2>1, <2>2
<1>11. "initialize" \notin Ahead(ch)'
  BY <1>2, <1>6 DEF Ahead, Events
<1>12. AheadIsFresh' /\ Numbered' /\ PendingIsOpen'
  BY <1>2, <1>6, <1>7, <1>10, <1>11, SendAhead, SendNumbered
<1>13. jobs' = <<>>
  BY <1>2, <1>6 DEF doSend, Lives
<1>14. BegunTogether'
  <2>1. ASSUME NEW l \in Lives, at'[<<l, "launch">>] = "idle", NEW s \in Scenario
        PROVE  at'[<<l, s>>] = "idle"
    <3>1. <<l, "launch">> \in Chains /\ <<l, s>> \in Chains
      BY DEF Chains, Scenario
    <3>2. l # life
      BY <2>1, <3>1, <1>6
    <3>3. <<l, "launch">> \notin Waits(life) /\ <<l, s>> \notin Waits(life)
      BY <3>2, <1>3
    <3>4. at[<<l, "launch">>] = "idle"
      BY <2>1, <3>1, <3>2, <3>3, <1>6
    <3>5. at[<<l, s>>] = "idle"
      BY <3>4 DEF ClientIInv, BegunTogether
    <3> QED BY <3>1, <3>2, <3>3, <3>5, <1>6
  <2> QED BY <2>1, <1>13 DEF BegunTogether
<1>15. /\ sequence' \in Nat \ {0} /\ DOMAIN pendingRequests' \subseteq 1 .. sequence' - 1
       /\ request' \in [Calls -> [seq : Nat, to : 0 .. life]]
       /\ jobs' \in Seq(Jobs)
  <2>1. <<>> \in Seq(Jobs)
    OBVIOUS
  <2> HIDE DEF ch
  <2> QED BY <2>1, <1>2, <1>6, <1>7, SendTypes
<1>16. Moved'
  BY <1>6, <1>8, <1>9, <1>12, <1>14, <1>15 DEF Moved
<1>17. (listeners \cup timers)' \subseteq Chains
  BY <1>1, <1>3, <1>6 DEF Rest
<1>18. Rest'
  BY <1>1, <1>6, <1>17 DEF Rest
<1> QED BY <1>16, <1>18, Together

LEMMA TimeoutIInv ==
  ASSUME ClientIInv, NEW ch \in Chains, Timeout(ch)
  PROVE  ClientIInv'
<1>1. Rest /\ Moved
  BY RestHolds, MovedHolds
<1>2. /\ jobs = <<>> /\ timers' = timers \ {ch}
      /\ at' = [at EXCEPT ![ch] = IF @ = EventOf(ch) THEN "failed" ELSE @]
      /\ UNCHANGED <<test, life, link, supports, sequence, pendingRequests, listeners, jobs, chunk,
                     request, outcome, wokenBy, up, reply, announced, sent, repeated>>
  BY DEF Timeout, NewTask, queue, history, adapter
<1>3. /\ at' \in [Chains -> Awaited \cup {"idle", "done", "failed"}]
      /\ \A k \in Chains : at'[k] = at[k] \/ (at[k] # "idle" /\ at'[k] = "failed")
  <2>1. at \in [Chains -> Awaited \cup {"idle", "done", "failed"}]
    BY <1>1 DEF Moved
  <2>2. EventOf(ch) # "idle"
    BY DEF EventOf
  <2>3. CASE at[ch] = EventOf(ch)
    <3>1. at' = [at EXCEPT ![ch] = "failed"]
      BY <2>3, <1>2
    <3>2. /\ at' \in [Chains -> Awaited \cup {"idle", "done", "failed"}]
          /\ at'[ch] = "failed" /\ \A k \in Chains : k # ch => at'[k] = at[k]
      BY <3>1, <2>1
    <3> QED BY <3>2, <2>2, <2>3
  <2>4. CASE at[ch] # EventOf(ch)
    <3>1. at' = [at EXCEPT ![ch] = at[ch]]
      BY <2>4, <1>2
    <3>2. at' = at
      BY <3>1, <2>1
    <3> QED BY <3>2, <2>1
  <2> QED BY <2>3, <2>4
<1>4. \A k \in Chains : Fits(k)'
  BY <1>1, <1>3 DEF Moved, Fits, Commands, Events
<1>5. \A k \in Chains : Ahead(k)' \subseteq Ahead(k)
  BY <1>3 DEF Ahead, Commands, Events
<1>6. AheadIsFresh'
  BY <1>2, <1>5, QuietAhead
<1>7. Numbered' /\ PendingIsOpen'
  BY <1>2 DEF ClientIInv, Numbered, PendingIsOpen
<1>8. BegunTogether'
  <2>1. ASSUME NEW l \in Lives, at'[<<l, "launch">>] = "idle", NEW s \in Scenario
        PROVE  at'[<<l, s>>] = "idle"
    <3>1. <<l, "launch">> \in Chains /\ <<l, s>> \in Chains
      BY DEF Chains, Scenario
    <3>2. at[<<l, "launch">>] = "idle"
      BY <2>1, <3>1, <1>3
    <3>3. at[<<l, s>>] = "idle"
      BY <3>2 DEF ClientIInv, BegunTogether
    <3> QED BY <3>1, <3>3, <1>3
  <2> QED BY <2>1, <1>2 DEF BegunTogether
<1>9. Moved'
  BY <1>1, <1>2, <1>3, <1>4, <1>6, <1>7, <1>8 DEF Moved
<1>10. Rest'
  BY <1>1, <1>2 DEF Rest
<1> QED BY <1>9, <1>10, Together

\* The invariant does not depend on more than this when it comes to an exit.
LEMMA StutterIInv ==
  ASSUME ClientIInv, UNCHANGED <<client, queue, history, reply, announced, sent, repeated>>,
         up' \subseteq up
  PROVE  ClientIInv'
<1>1. Rest /\ Moved
  BY RestHolds, MovedHolds
<1>2. \A k \in Chains : Fits(k)' /\ Ahead(k)' = Ahead(k)
  BY <1>1 DEF Moved, Fits, Ahead, client
<1>3. AheadIsFresh'
  BY <1>2, QuietAhead DEF history
<1>4. Numbered' /\ PendingIsOpen' /\ BegunTogether'
  BY DEF ClientIInv, Numbered, PendingIsOpen, BegunTogether, client, queue, history
<1>5. Moved'
  BY <1>1, <1>2, <1>3, <1>4 DEF Moved, client, queue, history
<1>6. Rest'
  BY <1>1 DEF Rest, client, queue, history
<1> QED BY <1>5, <1>6, Together

LEMMA NextIInv == ClientIInv /\ [Next]_vars => ClientIInv'
<1> SUFFICES ASSUME ClientIInv, [Next]_vars PROVE ClientIInv'
  OBVIOUS
<1>1. CASE Start
  BY <1>1, StartIInv
<1>2. CASE Stop
  BY <1>2, StopIInv
<1>3. CASE Run
  BY <1>3, RunIInv
<1>4. CASE RunJob
  BY <1>4, RunJobIInv
<1>5. CASE \E ch \in Chains : Timeout(ch)
  BY <1>5, TimeoutIInv
<1>6. CASE \E c \in Calls, ok \in BOOLEAN : Answer(c, ok)
  BY <1>6, AnswerIInv
<1>7. CASE \E c \in Calls : AnswerAgain(c)
  BY <1>7, AnswerIInv
<1>8. CASE \E l \in Lives, event \in Events : SendEvent(l, event)
  BY <1>8, SendEventIInv
<1>9. CASE \E l \in Lives : Exit(l)
  <2>1. up' \subseteq up
    BY <1>9 DEF Exit
  <2>2. UNCHANGED <<client, queue, history, reply, announced, sent, repeated>>
    BY <1>9 DEF Exit
  <2> QED BY <2>1, <2>2, StutterIInv
<1>10. CASE UNCHANGED vars
  BY <1>10, StutterIInv DEF vars, adapter
<1> QED BY <1>1, <1>2, <1>3, <1>4, <1>5, <1>6, <1>7, <1>8, <1>9, <1>10 DEF Next

-----------------------------------------------------------------------------
(* The theorems *)

\* Every request is made once and under a seq of its own, and the callback that
\* waits under a seq is that of the request sent with it (protocolClient.ts:84-97,
\* 146-149).
THEOREM Invariance == SafeSpec => []ClientIInv
<1>1. Init => ClientIInv
  BY InitIInv
<1>2. ClientIInv /\ [Next]_vars => ClientIInv'
  BY NextIInv
<1> QED BY <1>1, <1>2, PTL DEF SafeSpec

\* Types of the state, in which the numbers of the pending requests are below the
\* next one (protocolClient.ts:20-29, 84-97; debugClient.ts:40-60).
THEOREM TypeCorrect == SafeSpec => []ClientTypeOK
BY Invariance, PTL DEF ClientIInv

LEMMA NextOwn == ClientIInv /\ OwnAnswers /\ [Next]_vars => OwnAnswers'
<1> SUFFICES ASSUME ClientIInv, OwnAnswers, [Next]_vars PROVE OwnAnswers'
  OBVIOUS
<1>1. CASE \E c \in Calls, ok \in BOOLEAN : Answer(c, ok) \/ AnswerAgain(c)
  BY <1>1, AnswerIInv
<1>2. CASE UNCHANGED outcome
  BY <1>2 DEF OwnAnswers
<1>3. UNCHANGED outcome \/ \E c \in Calls, ok \in BOOLEAN : Answer(c, ok) \/ AnswerAgain(c)
  BY DEF Next, Start, Stop, Run, RunJob, Timeout, SendEvent, Exit, vars, history
<1> QED BY <1>1, <1>2, <1>3

\* The promise of a request is settled with an answer to that request, however late
\* or often adapters answer and however often they are replaced
\* (protocolClient.ts:23, 89, 146-149; debugClient.ts:88).
THEOREM AnswersAreOwn == SafeSpec => []OwnAnswers
<1>1. Init => OwnAnswers
  BY DEF Init, OwnAnswers
<1> QED BY <1>1, NextOwn, Invariance, PTL DEF SafeSpec

-----------------------------------------------------------------------------
(* The client keeps the promise of RequestReply *)

LEMMA SendAsks ==
  ASSUME ClientIInv, NEW ch \in Chains, NEW command \in Ahead(ch), NEW rest,
         doSend(ch, command, rest), UNCHANGED outcome
  PROVE  Promise!Next
<1> DEFINE c == <<ch[1], command>>
<1>1. c \in Calls
  BY CallOfChain DEF Ahead
<1>2. request[c].seq = 0
  BY <1>1 DEF ClientIInv, AheadIsFresh
<1>3. /\ request \in [Calls -> [seq : Nat, to : 0 .. life]] /\ sequence # 0
      /\ request' = [request EXCEPT ![c] = [seq |-> sequence,
                                            to  |-> IF life \in up THEN life ELSE 0]]
  BY DEF ClientIInv, ClientTypeOK, doSend
<1>4. {d \in Calls : request'[d].seq # 0} = {d \in Calls : request[d].seq # 0} \cup {c}
  BY <1>1, <1>3
<1> QED BY <1>1, <1>2, <1>4 DEF Promise!Next, Promise!Ask

LEMMA SameIsStutter == UNCHANGED <<request, outcome>> => UNCHANGED Promise!vars
BY DEF Promise!vars

LEMMA ResponseCompletes ==
  ASSUME ClientIInv, NEW c \in Calls, NEW ok, DispatchResponse(c, ok), UNCHANGED request
  PROVE  [Promise!Next]_Promise!vars
<1>1. CASE request[c].seq \notin DOMAIN pendingRequests
  BY <1>1, SameIsStutter DEF DispatchResponse
<1>2. CASE request[c].seq \in DOMAIN pendingRequests
  <2> DEFINE ans     == [from |-> request[c].to, of |-> c]
             told(d) == [i \in DOMAIN outcome[d] |-> "response"]
  <2>1. pendingRequests[request[c].seq] = c /\ request[c].seq # 0 /\ outcome[c] = <<>>
    BY <1>2, OwnCallback
  <2>2. /\ outcome \in [Calls -> Seq([from : Lives, of : Calls])]
        /\ outcome' = [outcome EXCEPT ![c] = Append(@, ans)]
    BY <1>2, <2>1 DEF DispatchResponse, ClientIInv, ClientTypeOK
  <2>3. /\ outcome'[c] = <<ans>>
        /\ \A d \in Calls : d # c => outcome'[d] = outcome[d]
    BY <2>1, <2>2
  <2>4. told(c) = <<>>
    BY <2>1
  <2>5. told(c)' = <<"response">>
    BY <2>3
  <2>6. [d \in Calls |-> told(d)'] = [[d \in Calls |-> told(d)] EXCEPT ![c] = <<"response">>]
    BY <2>3, <2>5
  <2>7. Promise!Complete(c, "response")
    BY <2>1, <2>4, <2>6 DEF Promise!Complete
  <2> QED BY <2>7 DEF Promise!Next, Promise!Outcomes
<1> QED BY <1>1, <1>2

LEMMA ContinueAsks ==
  ASSUME ClientIInv, NEW ch \in Chains, NEW rest, UNCHANGED outcome,
         Continue(ch, rest) \/ Reject(ch, rest)
  PROVE  [Promise!Next]_Promise!vars
<1>1. ASSUME NEW how, Ends(ch, how, rest) PROVE UNCHANGED Promise!vars
  BY <1>1, SameIsStutter DEF Ends, Quiet
<1>2. ASSUME NEW command \in Ahead(ch), Goto(ch, command, rest) PROVE Promise!Next
  BY <1>2, SendAsks DEF Goto
<1>3. \/ \E how \in {"done", "failed"} : Ends(ch, how, rest)
      \/ \E command \in Ahead(ch) : Goto(ch, command, rest)
  <2>1. CASE Reject(ch, rest)
    BY <2>1 DEF Reject
  <2>2. CASE Continue(ch, rest)
    BY <2>2, AheadOf DEF Continue, configurationDone
  <2> QED BY <2>1, <2>2
<1> QED BY <1>1, <1>2, <1>3

LEMMA StepPromise == ClientIInv /\ [Next]_vars => [Promise!Next]_Promise!vars
<1> SUFFICES ASSUME ClientIInv, [Next]_vars PROVE [Promise!Next]_Promise!vars
  OBVIOUS
<1>1. Rest
  BY RestHolds
<1>2. CASE Stop
  <2>1. <<life, "stop">> \in Chains
    BY <1>1, ClientAssumption, LenProperties DEF Rest, Chains, Lives
  <2>2. "disconnect" \in Ahead(<<life, "stop">>)
    BY <1>2 DEF Stop, Ahead, Commands, ChainOf
  <2> QED BY <2>1, <2>2, <1>2, SendAsks DEF Stop
<1>3. CASE Run
  <2>1. life \in Lives /\ <<life, "launch">> \in Chains
    <3>1. life \in 1 .. Len(test)
      BY <1>3 DEF Run, RunChains
    <3> QED BY <3>1, <1>1, ClientAssumption, LenProperties DEF Rest, Lives, Chains, Scenario
  <2>2. "initialize" \in Ahead(<<life, "launch">>)
    BY <1>3 DEF Run, Ahead, Commands, ChainOf
  <2> QED BY <2>1, <2>2, <1>3, SendAsks DEF Run
<1>4. CASE RunJob
  <2> DEFINE job == Head(jobs)
  <2>1. job.chain \in Chains
    <3>1. jobs \in Seq(Jobs) /\ jobs # <<>>
      BY <1>4 DEF ClientIInv, ClientTypeOK, RunJob, Jobs
    <3>2. job \in Jobs
      BY <3>1, HeadTailProperties
    <3> QED BY <3>2 DEF Jobs
  <2>2. CASE job.hops > 0
    BY <2>2, <1>4, SameIsStutter DEF RunJob
  <2>3. CASE ~(job.hops > 0)
    <3>1. Continue(job.chain, Tail(jobs)) \/ Reject(job.chain, Tail(jobs))
      BY <2>3, <1>4 DEF RunJob
    <3>2. UNCHANGED outcome
      BY <1>4 DEF RunJob
    <3> QED BY <2>1, <3>1, <3>2, ContinueAsks
  <2> QED BY <2>2, <2>3
<1>5. CASE \E c \in Calls, ok \in BOOLEAN : Answer(c, ok) \/ AnswerAgain(c)
  <2>1. PICK c \in Calls, ok \in BOOLEAN : Answer(c, ok) \/ AnswerAgain(c)
    BY <1>5
  <2>2. /\ DispatchResponse(c, ok) \/ DispatchResponse(c, reply[c] = "ok")
        /\ UNCHANGED request
    BY <2>1 DEF Answer, AnswerAgain
  <2> QED BY <2>2, ResponseCompletes
<1>6. CASE UNCHANGED <<request, outcome>>
  BY <1>6, SameIsStutter
<1>7. \/ Stop \/ Run \/ RunJob \/ UNCHANGED <<request, outcome>>
      \/ \E c \in Calls, ok \in BOOLEAN : Answer(c, ok) \/ AnswerAgain(c)
  BY DEF Next, Start, Timeout, SendEvent, Exit, vars, client, history
<1> QED BY <1>2, <1>3, <1>4, <1>5, <1>6, <1>7

\* The client implements RequestReply: the promise of every request it makes is
\* settled at most once, and only after the request was made (protocolClient.ts:72-81,
\* 146-149).
THEOREM KeepsPromise == SafeSpec => PromiseSafe
<1>1. Init => Promise!Init
  <2> SUFFICES ASSUME Init PROVE Promise!Init
    OBVIOUS
  <2>1. {c \in Calls : request[c].seq # 0} = {}
    BY DEF Init, NotSent
  <2>2. \A c \in Calls : [i \in DOMAIN outcome[c] |-> "response"] = <<>>
    BY DEF Init
  <2> QED BY <2>1, <2>2 DEF Promise!Init
<1> QED BY <1>1, StepPromise, Invariance, PTL DEF SafeSpec, PromiseSafe, Promise!SafeSpec
=============================================================================
