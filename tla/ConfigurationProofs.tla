------------------------- MODULE ConfigurationProofs -------------------------
(***************************************************************************)
(* Proof that DebugClient ends the configuration of an adapter the way the *)
(* adapter announced: whatever its messages are cut into, the continuation *)
(* that reads the announcement runs before the one that needs it.          *)
(***************************************************************************)
EXTENDS DebugClientProofs

-----------------------------------------------------------------------------
(* A chain waits for one thing *)

LEMMA Appended ==
  ASSUME NEW S, NEW s \in Seq(S), NEW e \in S, NEW t, t = Append(s, e)
  PROVE  /\ Len(s) \in Nat /\ DOMAIN s = 1 .. Len(s) /\ DOMAIN t = 1 .. Len(s) + 1
         /\ t \in Seq(S) /\ t[Len(s) + 1] = e
         /\ \A i \in 1 .. Len(s) : t[i] = s[i]
<1>1. t \in Seq(S) /\ Len(t) = Len(s) + 1 /\ t[Len(s) + 1] = e
      /\ \A i \in 1 .. Len(s) : t[i] = s[i]
  BY AppendProperties
<1> QED BY <1>1, LenProperties

LEMMA NoJobs == ASSUME jobs = <<>>, NEW ch PROVE JobsOf(ch) = {}
BY DEF JobsOf

\* What sending request c of chain ch does to the requests and the callbacks.
SentAs(c, ch, rest) ==
    /\ c \in Calls /\ CallChain(c) = ch
    /\ request[c].seq = 0 /\ request'[c].seq # 0 /\ request'[c].to \in {0, life}
    /\ request'[c].to # 0 => jobs' = rest
    /\ \A d \in Calls : d # c => request'[d] = request[d]
    /\ \A s \in DOMAIN pendingRequests :
         pendingRequests[s] \in Calls /\ pendingRequests[s] # c
    /\ DOMAIN pendingRequests' = {sequence} \cup DOMAIN pendingRequests
    /\ pendingRequests'[sequence] = c
    /\ \A s \in DOMAIN pendingRequests : pendingRequests'[s] = pendingRequests[s]
    /\ jobs' \in {rest, Append(rest, [chain |-> ch, ok |-> FALSE, hops |-> 1])}

LEMMA Sent ==
  ASSUME ClientIInv, NEW ch \in Chains, NEW command \in Ahead(ch), NEW rest,
         doSend(ch, command, rest)
  PROVE  SentAs(<<ch[1], command>>, ch, rest)
<1> DEFINE c == <<ch[1], command>>
<1>1. c \in Calls /\ ChainOf(command) = ch[2] /\ c[1] = ch[1] /\ c[2] = command
  BY CallOfChain DEF Ahead
<1>2. CallChain(c) = ch
  BY <1>1, ChainParts DEF CallChain
<1>3. request[c].seq = 0
  BY <1>1 DEF ClientIInv, AheadIsFresh
<1>4. /\ request \in [Calls -> [seq : Nat, to : 0 .. life]]
      /\ sequence \in Nat \ {0} /\ up \subseteq 1 .. life
      /\ DOMAIN pendingRequests \subseteq 1 .. sequence - 1
  BY DEF ClientIInv, ClientTypeOK
<1>5. request' = [request EXCEPT ![c] = [seq |-> sequence,
                                        to  |-> IF life \in up THEN life ELSE 0]]
  BY DEF doSend
<1>6. /\ request'[c].seq = sequence /\ request'[c].to = (IF life \in up THEN life ELSE 0)
      /\ \A d \in Calls : d # c => request'[d] = request[d]
  BY <1>1, <1>4, <1>5
<1>7. \A s \in DOMAIN pendingRequests :
        pendingRequests[s] \in Calls /\ pendingRequests[s] # c
  <2> SUFFICES ASSUME NEW s \in DOMAIN pendingRequests
               PROVE  pendingRequests[s] \in Calls /\ pendingRequests[s] # c
    OBVIOUS
  <2>1. pendingRequests[s] \in Calls /\ request[pendingRequests[s]].seq = s
    BY DEF ClientIInv, PendingIsOpen
  <2>2. s # 0
    BY <1>4
  <2> QED BY <2>1, <2>2, <1>3
<1>8. request'[c].to # 0 => jobs' = rest
  BY <1>6 DEF doSend
<1>9. /\ DOMAIN pendingRequests' = {sequence} \cup DOMAIN pendingRequests
      /\ pendingRequests'[sequence] = c
      /\ \A s \in DOMAIN pendingRequests : pendingRequests'[s] = pendingRequests[s]
  BY <1>4 DEF doSend
<1>10. jobs' \in {rest, Append(rest, [chain |-> ch, ok |-> FALSE, hops |-> 1])}
  BY DEF doSend
<1> HIDE DEF c
<1>11. request'[c].to \in {0, life} /\ request'[c].seq # 0
  BY <1>4, <1>6
<1>12. SentAs(c, ch, rest)
  BY <1>1, <1>2, <1>3, <1>6, <1>7, <1>8, <1>9, <1>10, <1>11 DEF SentAs
<1> QED BY <1>12 DEF c

\* WaitsOnce in the next state, spelt out.
LEMMA WaitsOnceNext ==
  ASSUME \A i, j \in DOMAIN jobs' : jobs'[i].chain = jobs'[j].chain => i = j,
         \A s \in DOMAIN pendingRequests' :
           request'[pendingRequests'[s]].to # 0 =>
             /\ at'[CallChain(pendingRequests'[s])] = pendingRequests'[s][2]
             /\ {i \in DOMAIN jobs' : jobs'[i].chain = CallChain(pendingRequests'[s])} = {},
         \A k \in listeners' :
           /\ k[2] \in {"configuration", "stopped"}
           /\ at'[k] \in {EventOf(k), "failed"} /\ JobsOf(k)' = {}
  PROVE  WaitsOnce'
BY DEF WaitsOnce, Reached, JobsOf, CallChain

\* A chain that waits for nothing any more sends its next request.
LEMMA GotoWaits ==
  ASSUME ClientIInv, WaitsOnce, NEW ch \in Chains, NEW command \in Ahead(ch),
         NEW rest \in Seq(Jobs), Goto(ch, command, rest), UNCHANGED listeners,
         ch \notin listeners,
         \A s \in DOMAIN pendingRequests :
           Reached(pendingRequests[s]) => CallChain(pendingRequests[s]) # ch,
         \A i, j \in 1 .. Len(rest) : rest[i].chain = rest[j].chain => i = j,
         \A i \in 1 .. Len(rest) : rest[i].chain # ch /\ JobsOf(rest[i].chain) # {}
  PROVE  WaitsOnce'
<1> DEFINE c == <<ch[1], command>>
           new == [chain |-> ch, ok |-> FALSE, hops |-> 1]
<1>1. /\ at' = [at EXCEPT ![ch] = command] /\ doSend(ch, command, rest)
      /\ at \in [Chains -> Awaited \cup {"idle", "done", "failed"}]
  BY DEF Goto, ClientIInv, ClientTypeOK
<1>2. at'[ch] = command /\ \A k \in Chains : k # ch => at'[k] = at[k]
  BY <1>1
<1>0. c[2] = command
  OBVIOUS
<1>3. SentAs(c, ch, rest)
  BY <1>1, Sent
<1> HIDE DEF c
<1>4. /\ Len(rest) \in Nat /\ DOMAIN rest = 1 .. Len(rest)
      /\ \A i \in 1 .. Len(rest) : rest[i] \in Jobs
  BY LenProperties, ElementOfSeq
<1>5. new \in Jobs
  BY DEF Jobs
<1>6. /\ jobs' = rest \/ Len(jobs') = Len(rest) + 1
      /\ DOMAIN jobs' \in {1 .. Len(rest), 1 .. Len(rest) + 1}
      /\ \A i \in 1 .. Len(rest) : jobs'[i].chain = rest[i].chain
      /\ \A i \in DOMAIN jobs' : i \notin 1 .. Len(rest) => i = Len(rest) + 1 /\ jobs'[i].chain = ch
  <2>1. CASE jobs' = rest
    BY <2>1, <1>4
  <2>2. CASE jobs' = Append(rest, new)
    BY <2>2, <1>4, <1>5, AppendProperties, LenProperties
  <2> QED BY <2>1, <2>2, <1>3 DEF SentAs
<1>7. \A i, j \in DOMAIN jobs' : jobs'[i].chain = jobs'[j].chain => i = j
  BY <1>4, <1>6
<1>8. ASSUME NEW k, k # ch, JobsOf(k) = {} PROVE JobsOf(k)' = {}
  BY <1>6, <1>8 DEF JobsOf
<1>9. ASSUME NEW s \in DOMAIN pendingRequests', NEW d, d = pendingRequests'[s],
             request'[d].to # 0
      PROVE  at'[CallChain(d)] = d[2] /\ JobsOf(CallChain(d))' = {}
  <2>1. CASE s \notin DOMAIN pendingRequests
    <3>1. d = c /\ CallChain(d) = ch /\ jobs' = rest
      BY <2>1, <1>3, <1>9 DEF SentAs
    <3>2. JobsOf(ch)' = {}
      BY <3>1, <1>4 DEF JobsOf
    <3> QED BY <3>1, <3>2, <1>0, <1>2
  <2>2. CASE s \in DOMAIN pendingRequests
    <3>1. pendingRequests[s] = d /\ d \in Calls /\ Reached(d)
      BY <2>2, <1>3, <1>9 DEF SentAs, Reached
    <3>2. CallChain(d) \in Chains /\ CallChain(d) # ch
      BY <2>2, <3>1, CallParts DEF CallChain
    <3>3. at[CallChain(d)] = d[2] /\ JobsOf(CallChain(d)) = {}
      BY <2>2, <3>1 DEF WaitsOnce
    <3> QED BY <3>2, <3>3, <1>2, <1>8
  <2> QED BY <2>1, <2>2
<1>10. ASSUME NEW k \in listeners'
       PROVE  /\ k[2] \in {"configuration", "stopped"}
              /\ at'[k] \in {EventOf(k), "failed"} /\ JobsOf(k)' = {}
  <2>1. k \in listeners /\ k # ch /\ k \in Chains
    BY DEF ClientIInv, ClientTypeOK
  <2> QED BY <2>1, <1>2, <1>8 DEF WaitsOnce
<1>11. \A s \in DOMAIN pendingRequests' :
         request'[pendingRequests'[s]].to # 0 =>
           /\ at'[CallChain(pendingRequests'[s])] = pendingRequests'[s][2]
           /\ {i \in DOMAIN jobs' : jobs'[i].chain = CallChain(pendingRequests'[s])} = {}
  BY <1>9 DEF JobsOf
<1> QED BY <1>7, <1>10, <1>11, WaitsOnceNext

\* A chain that waits for nothing any more ends.
LEMMA EndsWaits ==
  ASSUME ClientIInv, WaitsOnce, NEW ch \in Chains, NEW how, NEW rest \in Seq(Jobs),
         Ends(ch, how, rest), UNCHANGED listeners, ch \notin listeners,
         \A s \in DOMAIN pendingRequests :
           Reached(pendingRequests[s]) => CallChain(pendingRequests[s]) # ch,
         \A i, j \in 1 .. Len(rest) : rest[i].chain = rest[j].chain => i = j,
         \A i \in 1 .. Len(rest) : rest[i].chain # ch /\ JobsOf(rest[i].chain) # {}
  PROVE  WaitsOnce'
<1>1. /\ at' = [at EXCEPT ![ch] = how] /\ jobs' = rest
      /\ UNCHANGED <<pendingRequests, request>>
      /\ at \in [Chains -> Awaited \cup {"idle", "done", "failed"}]
  BY DEF Ends, Quiet, ClientIInv, ClientTypeOK
<1>2. \A k \in Chains : k # ch => at'[k] = at[k]
  BY <1>1
<1>3. DOMAIN rest = 1 .. Len(rest)
  BY LenProperties
<1>4. \A i, j \in DOMAIN jobs' : jobs'[i].chain = jobs'[j].chain => i = j
  BY <1>1, <1>3
<1>5. ASSUME NEW k, JobsOf(k) = {} PROVE JobsOf(k)' = {}
  BY <1>1, <1>3, <1>5 DEF JobsOf
<1>6. ASSUME NEW s \in DOMAIN pendingRequests', NEW d, d = pendingRequests'[s],
             request'[d].to # 0
      PROVE  at'[CallChain(d)] = d[2] /\ JobsOf(CallChain(d))' = {}
  <2>1. pendingRequests[s] = d /\ d \in Calls /\ Reached(d)
    BY <1>1, <1>6 DEF Reached, ClientIInv, PendingIsOpen
  <2>2. CallChain(d) \in Chains /\ CallChain(d) # ch
    BY <1>1, <2>1, CallParts DEF CallChain
  <2>3. at[CallChain(d)] = d[2] /\ JobsOf(CallChain(d)) = {}
    BY <1>1, <2>1 DEF WaitsOnce
  <2> QED BY <2>2, <2>3, <1>2, <1>5
<1>7. \A s \in DOMAIN pendingRequests' :
        request'[pendingRequests'[s]].to # 0 =>
          /\ at'[CallChain(pendingRequests'[s])] = pendingRequests'[s][2]
          /\ {i \in DOMAIN jobs' : jobs'[i].chain = CallChain(pendingRequests'[s])} = {}
  BY <1>6 DEF JobsOf
<1>8. ASSUME NEW k \in listeners'
      PROVE  /\ k[2] \in {"configuration", "stopped"}
             /\ at'[k] \in {EventOf(k), "failed"} /\ JobsOf(k)' = {}
  <2>1. k \in listeners /\ k # ch /\ k \in Chains
    BY DEF ClientIInv, ClientTypeOK
  <2> QED BY <2>1, <1>2, <1>5 DEF WaitsOnce
<1> QED BY <1>4, <1>7, <1>8, WaitsOnceNext

LEMMA StopWaits == ClientIInv /\ WaitsOnce /\ Stop => WaitsOnce'
<1> SUFFICES ASSUME ClientIInv, WaitsOnce, Stop PROVE WaitsOnce'
  OBVIOUS
<1> DEFINE ch == <<life, "stop">>
<1>1. Rest
  BY RestHolds
<1>2. ch \in Chains /\ ch[2] = "stop"
  BY <1>1, ClientAssumption, LenProperties DEF Rest, Chains, Lives
<1>3. "disconnect" \in Ahead(ch) /\ at[ch] = "idle"
  BY DEF Stop, Ahead, Commands, ChainOf
<1>4. Goto(ch, "disconnect", <<>>) /\ UNCHANGED listeners
  BY DEF Stop, Goto
<1> HIDE DEF ch
<1>5. ch \notin listeners
  BY <1>2 DEF WaitsOnce
<1>6. ASSUME NEW s \in DOMAIN pendingRequests, Reached(pendingRequests[s])
      PROVE  CallChain(pendingRequests[s]) # ch
  <2>1. pendingRequests[s] \in Calls
    BY DEF ClientIInv, PendingIsOpen
  <2>2. pendingRequests[s][2] # "idle"
    BY <2>1, CallParts DEF Commands
  <2> QED BY <1>3, <1>6, <2>2 DEF WaitsOnce
<1>7. /\ <<>> \in Seq(Jobs)
      /\ \A i, j \in 1 .. Len(<<>>) : <<>>[i].chain = <<>>[j].chain => i = j
      /\ \A i \in 1 .. Len(<<>>) : <<>>[i].chain # ch /\ JobsOf(<<>>[i].chain) # {}
  OBVIOUS
<1> QED BY <1>2, <1>3, <1>4, <1>5, <1>6, <1>7, GotoWaits

LEMMA RunWaits == ClientIInv /\ WaitsOnce /\ Run => WaitsOnce'
<1> SUFFICES ASSUME ClientIInv, WaitsOnce, Run PROVE WaitsOnce'
  OBVIOUS
<1> DEFINE ch == <<life, "launch">>
           c  == <<life, "initialize">>
<1>1. Rest
  BY RestHolds
<1>2. life \in Lives /\ ch \in Chains
  <2>1. life \in 1 .. Len(test)
    BY DEF Run, RunChains
  <2> QED BY <2>1, <1>1, ClientAssumption, LenProperties DEF Rest, Lives, Chains, Scenario
<1>3. \A k \in Waits(life) : k \in Chains /\ k[1] = life /\ k[2] \in {"configuration", "stopped"}
  BY <1>2 DEF Waits, RunChains, Chains, Scenario
<1>4. \A s \in Scenario : at[<<life, s>>] = "idle"
  BY <1>2 DEF Run, ClientIInv, BegunTogether
<1>5. /\ \A k \in Waits(life) : at[k] = "idle"
      /\ at[ch] = "idle" /\ "initialize" \in Ahead(ch)
  BY <1>3, <1>4, ChainParts DEF Scenario, Ahead, Commands, ChainOf
<1>6. /\ at' = [k \in Chains |-> IF k = ch THEN "initialize"
                                 ELSE IF k \in Waits(life) THEN EventOf(k) ELSE at[k]]
      /\ listeners' = listeners \cup Waits(life)
      /\ doSend(ch, "initialize", <<>>)
  BY DEF Run
<1>7. SentAs(c, ch, <<>>)
  BY <1>2, <1>5, <1>6, Sent
<1>8. c[2] = "initialize" /\ ch[2] = "launch"
  OBVIOUS
<1> HIDE DEF c, ch
<1>9. jobs' = <<>>
  BY <1>2, <1>6 DEF doSend, Lives
<1>10. \A k : JobsOf(k)' = {}
  BY <1>9 DEF JobsOf
<1>11. ASSUME NEW s \in DOMAIN pendingRequests', NEW d, d = pendingRequests'[s],
              request'[d].to # 0
       PROVE  at'[CallChain(d)] = d[2]
  <2>1. CASE s \notin DOMAIN pendingRequests
    <3>1. d = c /\ CallChain(d) = ch
      BY <2>1, <1>7, <1>11 DEF SentAs
    <3> QED BY <3>1, <1>2, <1>6, <1>8
  <2>2. CASE s \in DOMAIN pendingRequests
    <3>1. pendingRequests[s] = d /\ d \in Calls /\ Reached(d)
      BY <2>2, <1>7, <1>11 DEF SentAs, Reached
    <3>2. CallChain(d) \in Chains /\ d[2] # "idle"
      BY <3>1, CallParts DEF CallChain, Commands
    <3>3. at[CallChain(d)] = d[2]
      BY <2>2, <3>1 DEF WaitsOnce
    <3>4. CallChain(d) # ch /\ CallChain(d) \notin Waits(life)
      BY <3>2, <3>3, <1>5
    <3> QED BY <3>2, <3>3, <3>4, <1>6
  <2> QED BY <2>1, <2>2
<1>12. \A s \in DOMAIN pendingRequests' :
         request'[pendingRequests'[s]].to # 0 =>
           /\ at'[CallChain(pendingRequests'[s])] = pendingRequests'[s][2]
           /\ {i \in DOMAIN jobs' : jobs'[i].chain = CallChain(pendingRequests'[s])} = {}
  BY <1>9, <1>11
<1>13. ASSUME NEW k \in listeners'
       PROVE  /\ k[2] \in {"configuration", "stopped"}
              /\ at'[k] \in {EventOf(k), "failed"} /\ JobsOf(k)' = {}
  <2>1. CASE k \in Waits(life)
    <3>1. k \in Chains /\ k[2] \in {"configuration", "stopped"} /\ k # ch
      BY <2>1, <1>3, <1>8
    <3> QED BY <3>1, <2>1, <1>6, <1>10
  <2>2. CASE k \notin Waits(life)
    <3>1. k \in listeners /\ k \in Chains
      BY <2>2, <1>6 DEF ClientIInv, ClientTypeOK
    <3>2. k[2] \in {"configuration", "stopped"} /\ at[k] \in {EventOf(k), "failed"}
      BY <3>1 DEF WaitsOnce
    <3> QED BY <3>1, <3>2, <2>2, <1>6, <1>8, <1>10
  <2> QED BY <2>1, <2>2
<1> QED BY <1>9, <1>12, <1>13, WaitsOnceNext

LEMMA TimeoutWaits ==
  ASSUME ClientIInv, WaitsOnce, NEW ch \in Chains, Timeout(ch)
  PROVE  WaitsOnce'
<1>1. /\ jobs = <<>> /\ UNCHANGED <<pendingRequests, listeners, jobs, request>>
      /\ at' = [at EXCEPT ![ch] = IF @ = EventOf(ch) THEN "failed" ELSE @]
      /\ at \in [Chains -> Awaited \cup {"idle", "done", "failed"}]
  BY DEF Timeout, NewTask, queue, history, ClientIInv, ClientTypeOK
<1>2. \A k \in Chains : at'[k] = at[k] \/ (k = ch /\ at[k] = EventOf(k) /\ at'[k] = "failed")
  <2>1. CASE at[ch] = EventOf(ch)
    <3>1. at' = [at EXCEPT ![ch] = "failed"]
      BY <2>1, <1>1
    <3>2. at'[ch] = "failed" /\ \A k \in Chains : k # ch => at'[k] = at[k]
      BY <3>1, <1>1
    <3> QED BY <3>2, <2>1
  <2>2. CASE at[ch] # EventOf(ch)
    <3>1. at' = [at EXCEPT ![ch] = at[ch]]
      BY <2>2, <1>1
    <3>2. at' = at
      BY <3>1, <1>1
    <3> QED BY <3>2
  <2> QED BY <2>1, <2>2
<1>3. \A k : JobsOf(k)' = {}
  BY <1>1 DEF JobsOf
<1>4. ASSUME NEW s \in DOMAIN pendingRequests', NEW d, d = pendingRequests'[s],
             request'[d].to # 0
      PROVE  at'[CallChain(d)] = d[2]
  <2>1. pendingRequests[s] = d /\ d \in Calls /\ Reached(d)
    BY <1>1, <1>4 DEF Reached, ClientIInv, PendingIsOpen
  <2>2. CallChain(d) \in Chains /\ d[2] \in Commands
    BY <2>1, CallParts DEF CallChain
  <2>3. at[CallChain(d)] = d[2]
    BY <1>1, <2>1 DEF WaitsOnce
  <2>4. EventOf(CallChain(d)) # d[2]
    BY <2>2 DEF EventOf, Commands
  <2> QED BY <2>2, <2>3, <2>4, <1>2
<1>5. \A s \in DOMAIN pendingRequests' :
        request'[pendingRequests'[s]].to # 0 =>
          /\ at'[CallChain(pendingRequests'[s])] = pendingRequests'[s][2]
          /\ {i \in DOMAIN jobs' : jobs'[i].chain = CallChain(pendingRequests'[s])} = {}
  BY <1>1, <1>4
<1>6. ASSUME NEW k \in listeners'
      PROVE  /\ k[2] \in {"configuration", "stopped"}
             /\ at'[k] \in {EventOf(k), "failed"} /\ JobsOf(k)' = {}
  <2>1. k \in listeners /\ k \in Chains
    BY <1>1 DEF ClientIInv, ClientTypeOK
  <2> QED BY <2>1, <1>2, <1>3 DEF WaitsOnce
<1> QED BY <1>1, <1>5, <1>6, WaitsOnceNext

\* What taking the first continuation off the queue leaves.
LEMMA TailJobs ==
  ASSUME ClientIInv, WaitsOnce, jobs # <<>>, NEW rest, rest = Tail(jobs), NEW ch, ch = Head(jobs).chain
  PROVE  /\ rest \in Seq(Jobs) /\ Head(jobs) \in Jobs /\ ch \in Chains /\ at[ch] # "idle"
         /\ Len(jobs) \in Nat \ {0} /\ DOMAIN jobs = 1 .. Len(jobs) /\ Len(rest) = Len(jobs) - 1
         /\ jobs[1] = Head(jobs) /\ \A i \in 1 .. Len(rest) : rest[i] = jobs[i + 1]
         /\ \A i, j \in 1 .. Len(rest) : rest[i].chain = rest[j].chain => i = j
         /\ \A i \in 1 .. Len(rest) :
              /\ rest[i].chain # ch /\ JobsOf(rest[i].chain) # {}
              /\ at[rest[i].chain] # "idle"
         /\ ch \notin listeners
         /\ \A s \in DOMAIN pendingRequests :
              Reached(pendingRequests[s]) => CallChain(pendingRequests[s]) # ch
<1>1. jobs \in Seq(Jobs)
  BY DEF ClientIInv, ClientTypeOK, Jobs
<1>2. /\ Head(jobs) \in Jobs /\ rest \in Seq(Jobs) /\ Len(jobs) \in Nat \ {0}
      /\ Len(rest) = Len(jobs) - 1 /\ jobs[1] = Head(jobs)
      /\ \A i \in 1 .. Len(rest) : rest[i] = jobs[i + 1]
  BY <1>1, HeadTailProperties, EmptySeq
<1>3. DOMAIN jobs = 1 .. Len(jobs)
  BY <1>1, LenProperties
<1>4. \A i \in 1 .. Len(rest) : i + 1 \in DOMAIN jobs /\ i + 1 # 1
  BY <1>2, <1>3
<1>5. ch \in Chains
  BY <1>2 DEF Jobs
<1>6. 1 \in DOMAIN jobs /\ jobs[1].chain = ch
  BY <1>2, <1>3
<1>7. \A i, j \in DOMAIN jobs : jobs[i].chain = jobs[j].chain => i = j
  BY DEF WaitsOnce
<1>8. \A i \in 1 .. Len(rest) : rest[i].chain # ch /\ i + 1 \in JobsOf(rest[i].chain)
  BY <1>2, <1>4, <1>6, <1>7 DEF JobsOf
<1>9. \A i, j \in 1 .. Len(rest) : rest[i].chain = rest[j].chain => i = j
  <2> SUFFICES ASSUME NEW i \in 1 .. Len(rest), NEW j \in 1 .. Len(rest),
                      rest[i].chain = rest[j].chain
               PROVE  i = j
    OBVIOUS
  <2>1. i + 1 = j + 1
    BY <1>2, <1>4, <1>7
  <2> QED BY <2>1
<1>10. \A i \in DOMAIN jobs : at[jobs[i].chain] # "idle"
  BY DEF ClientIInv, BegunTogether
<1>11. 1 \in JobsOf(ch)
  BY <1>6 DEF JobsOf
<1>12. /\ ch \notin listeners
       /\ \A s \in DOMAIN pendingRequests :
            Reached(pendingRequests[s]) => CallChain(pendingRequests[s]) # ch
  BY <1>11 DEF WaitsOnce
<1>13. at[ch] # "idle" /\ \A i \in 1 .. Len(rest) : at[rest[i].chain] # "idle"
  BY <1>2, <1>4, <1>6, <1>10
<1> QED BY <1>2, <1>3, <1>5, <1>8, <1>9, <1>12, <1>13

\* What a continuation does: it ends its chain, or makes a request other than initialize.
LEMMA ContinueSends ==
  ASSUME ClientIInv, NEW ch \in Chains, NEW rest, Continue(ch, rest) \/ Reject(ch, rest)
  PROVE  /\ \/ \E how \in {"done", "failed"} : Ends(ch, how, rest)
            \/ \E command \in Ahead(ch) :
                 /\ Goto(ch, command, rest) /\ command # "initialize"
                 /\ command = "configurationDone" => supports
                 /\ command = "setExceptionBreakpoints" => ~ supports
         /\ supports => supports'
         /\ supports' => supports \/ BodySupports(ch)
<1>1. CASE Reject(ch, rest)
  BY <1>1 DEF Reject
<1>2. CASE Continue(ch, rest) /\ at[ch] = "initialize"
  <2>1. Goto(ch, "launch", rest) /\ supports' = (supports \/ BodySupports(ch))
    BY <1>2 DEF Continue
  <2> QED BY <2>1, <1>2, AheadOf
<1>3. CASE Continue(ch, rest) /\ at[ch] # "initialize"
  <2>1. supports' = supports
    BY <1>3 DEF Continue
  <2>2. \/ \E how \in {"done", "failed"} : Ends(ch, how, rest)
        \/ \E command \in Ahead(ch) :
             /\ Goto(ch, command, rest) /\ command # "initialize"
             /\ command = "configurationDone" => supports
             /\ command = "setExceptionBreakpoints" => ~ supports
    BY <1>3, AheadOf DEF Continue, configurationDone
  <2> QED BY <2>1, <2>2
<1> QED BY <1>1, <1>2, <1>3

LEMMA RunJobWaits == ClientIInv /\ WaitsOnce /\ RunJob => WaitsOnce'
<1> SUFFICES ASSUME ClientIInv, WaitsOnce, RunJob PROVE WaitsOnce'
  OBVIOUS
<1> DEFINE job == Head(jobs)
           rest == Tail(jobs)
           ch == Head(jobs).chain
<1>1. jobs # <<>>
  BY DEF RunJob
<1>2. CASE ~(job.hops > 0)
  <2>1. Continue(ch, rest) \/ Reject(ch, rest)
    BY <1>2 DEF RunJob
  <2>2. UNCHANGED listeners
    BY <1>2 DEF RunJob
  <2>3. /\ rest \in Seq(Jobs) /\ ch \in Chains /\ ch \notin listeners
        /\ \A i, j \in 1 .. Len(rest) : rest[i].chain = rest[j].chain => i = j
        /\ \A i \in 1 .. Len(rest) : rest[i].chain # ch /\ JobsOf(rest[i].chain) # {}
        /\ \A s \in DOMAIN pendingRequests :
             Reached(pendingRequests[s]) => CallChain(pendingRequests[s]) # ch
    BY <1>1, TailJobs
  <2> HIDE DEF rest, ch
  <2>4. CASE \E how \in {"done", "failed"} : Ends(ch, how, rest)
    BY <2>2, <2>3, <2>4, EndsWaits
  <2>5. CASE \E command \in Ahead(ch) : Goto(ch, command, rest)
    BY <2>2, <2>3, <2>5, GotoWaits
  <2> QED BY <2>1, <2>3, <2>4, <2>5, ContinueSends
<1>3. CASE job.hops > 0
  <2> DEFINE later == [job EXCEPT !.hops = @ - 1]
  <2>1. /\ jobs' = Append(rest, later)
        /\ UNCHANGED <<at, listeners, pendingRequests, request>>
    BY <1>3 DEF RunJob, client
  <2>2. /\ rest \in Seq(Jobs) /\ job \in Jobs
        /\ Len(jobs) \in Nat \ {0} /\ DOMAIN jobs = 1 .. Len(jobs)
        /\ Len(rest) = Len(jobs) - 1 /\ jobs[1] = job
        /\ \A i \in 1 .. Len(rest) : rest[i] = jobs[i + 1]
        /\ \A i, j \in 1 .. Len(rest) : rest[i].chain = rest[j].chain => i = j
        /\ \A i \in 1 .. Len(rest) : rest[i].chain # ch /\ JobsOf(rest[i].chain) # {}
    BY <1>1, TailJobs
  <2>3. later \in Jobs /\ later.chain = ch
    BY <2>2, <1>3 DEF Jobs
  <2> HIDE DEF later, rest, ch
  <2>4. /\ DOMAIN jobs' = 1 .. Len(rest) + 1
        /\ jobs'[Len(rest) + 1] = later
        /\ \A i \in 1 .. Len(rest) : jobs'[i] = rest[i]
    <3>1. rest \in Seq(Jobs) /\ later \in Jobs /\ jobs' = Append(rest, later)
      BY <2>1, <2>2, <2>3
    <3> HIDE DEF job
    <3> QED BY <3>1, Appended
  <2>5. \A i, j \in DOMAIN jobs' : jobs'[i].chain = jobs'[j].chain => i = j
    BY <2>2, <2>3, <2>4
  <2>6. ASSUME NEW k, JobsOf(k) = {} PROVE JobsOf(k)' = {}
    <3>1. k # ch
      BY <2>2, <2>6 DEF JobsOf, ch
    <3> QED BY <3>1, <2>2, <2>3, <2>4, <2>6 DEF JobsOf
  <2>7. ASSUME NEW s \in DOMAIN pendingRequests', NEW d, d = pendingRequests'[s],
               request'[d].to # 0
        PROVE  at'[CallChain(d)] = d[2] /\ JobsOf(CallChain(d))' = {}
    <3>1. pendingRequests[s] = d /\ Reached(d)
      BY <2>1, <2>7 DEF Reached
    <3>2. at[CallChain(d)] = d[2] /\ JobsOf(CallChain(d)) = {}
      BY <2>1, <3>1 DEF WaitsOnce
    <3> QED BY <3>2, <2>1, <2>6
  <2>8. \A s \in DOMAIN pendingRequests' :
          request'[pendingRequests'[s]].to # 0 =>
            /\ at'[CallChain(pendingRequests'[s])] = pendingRequests'[s][2]
            /\ {i \in DOMAIN jobs' : jobs'[i].chain = CallChain(pendingRequests'[s])} = {}
    BY <2>7 DEF JobsOf
  <2>9. \A k \in listeners' :
          /\ k[2] \in {"configuration", "stopped"}
          /\ at'[k] \in {EventOf(k), "failed"} /\ JobsOf(k)' = {}
    BY <2>1, <2>6 DEF WaitsOnce
  <2> QED BY <2>5, <2>8, <2>9, WaitsOnceNext
<1> QED BY <1>2, <1>3

\* What an answer with a callback does, and what it is given.
AnsweredAs(c, ok) ==
    LET job == [chain |-> CallChain(c), ok |-> ok, hops |-> Hops(c[2], ok)] IN
    /\ request[c].seq \in DOMAIN pendingRequests /\ pendingRequests[request[c].seq] = c
    /\ outcome[c] = <<>>
    /\ DOMAIN pendingRequests' = DOMAIN pendingRequests \ {request[c].seq}
    /\ \A s \in DOMAIN pendingRequests' : pendingRequests'[s] = pendingRequests[s]
    /\ Last(outcome'[c]).from = request[c].to
    /\ \A d \in Calls : d # c => outcome'[d] = outcome[d]
    /\ Len(jobs) \in Nat /\ DOMAIN jobs = 1 .. Len(jobs) /\ DOMAIN jobs' = 1 .. Len(jobs) + 1
    /\ jobs'[Len(jobs) + 1] = job /\ \A i \in 1 .. Len(jobs) : jobs'[i] = jobs[i]

LEMMA Response ==
  ASSUME ClientIInv, NEW c \in Calls, NEW ok \in BOOLEAN, DispatchResponse(c, ok)
  PROVE  \/ AnsweredAs(c, ok)
         \/ /\ request[c].seq \notin DOMAIN pendingRequests
            /\ UNCHANGED <<pendingRequests, outcome, jobs>>
<1>1. CASE request[c].seq \notin DOMAIN pendingRequests
  BY <1>1 DEF DispatchResponse
<1>2. CASE request[c].seq \in DOMAIN pendingRequests
  <2> DEFINE s   == request[c].seq
             job == [chain |-> CallChain(c), ok |-> ok, hops |-> Hops(c[2], ok)]
             ans == [from |-> request[c].to, of |-> c]
  <2>1. pendingRequests[s] = c /\ outcome[c] = <<>>
    BY <1>2, OwnCallback
  <2>2. /\ pendingRequests' = Without(s)
        /\ outcome' = [outcome EXCEPT ![c] = Append(@, ans)]
        /\ jobs' = Append(jobs, job)
    BY <1>2, <2>1 DEF DispatchResponse, CallChain
  <2>3. outcome \in [Calls -> Seq([from : Lives, of : Calls])] /\ jobs \in Seq(Jobs)
    BY DEF ClientIInv, ClientTypeOK, Jobs
  <2>4. job \in Jobs
    BY CallParts, HopsType DEF Jobs, CallChain
  <2>5. outcome'[c] = <<ans>> /\ \A d \in Calls : d # c => outcome'[d] = outcome[d]
    BY <2>1, <2>2, <2>3
  <2>6. Last(outcome'[c]).from = request[c].to
    BY <2>5 DEF Last
  <2>7. /\ DOMAIN pendingRequests' = DOMAIN pendingRequests \ {s}
        /\ \A t \in DOMAIN pendingRequests' : pendingRequests'[t] = pendingRequests[t]
    BY <2>2, Removed
  <2> HIDE DEF job
  <2>8. /\ Len(jobs) \in Nat /\ DOMAIN jobs = 1 .. Len(jobs) /\ DOMAIN jobs' = 1 .. Len(jobs) + 1
        /\ jobs'[Len(jobs) + 1] = job /\ \A i \in 1 .. Len(jobs) : jobs'[i] = jobs[i]
    BY <2>2, <2>3, <2>4, Appended
  <2> QED BY <1>2, <2>1, <2>5, <2>6, <2>7, <2>8 DEF AnsweredAs, job
<1> QED BY <1>1, <1>2

LEMMA ResponseWaits ==
  ASSUME ClientIInv, WaitsOnce, NEW c \in Calls, NEW ok \in BOOLEAN, Reached(c),
         DispatchResponse(c, ok), UNCHANGED <<at, request, listeners>>
  PROVE  WaitsOnce'
<1>1. CASE UNCHANGED <<pendingRequests, outcome, jobs>>
  BY <1>1 DEF WaitsOnce, Reached, JobsOf, CallChain
<1>2. CASE AnsweredAs(c, ok)
  <2> DEFINE s  == request[c].seq
             ch == CallChain(c)
             n  == Len(jobs)
  <2>1. /\ s \in DOMAIN pendingRequests /\ pendingRequests[s] = c
        /\ DOMAIN pendingRequests' = DOMAIN pendingRequests \ {s}
        /\ \A t \in DOMAIN pendingRequests' : pendingRequests'[t] = pendingRequests[t]
        /\ n \in Nat /\ DOMAIN jobs = 1 .. n /\ DOMAIN jobs' = 1 .. n + 1
        /\ jobs'[n + 1].chain = ch /\ \A i \in 1 .. n : jobs'[i].chain = jobs[i].chain
    BY <1>2 DEF AnsweredAs
  <2>2. at[ch] = c[2] /\ JobsOf(ch) = {}
    BY <2>1 DEF WaitsOnce
  <2>3. c[2] \in Commands
    BY CallParts
  <2> HIDE DEF s, ch, n
  <2>4. \A i, j \in DOMAIN jobs : jobs[i].chain = jobs[j].chain => i = j
    BY DEF WaitsOnce
  <2>5. \A i \in 1 .. n : jobs[i].chain # ch
    BY <2>1, <2>2 DEF JobsOf
  <2>6. \A i, j \in DOMAIN jobs' : jobs'[i].chain = jobs'[j].chain => i = j
    BY <2>1, <2>4, <2>5
  <2>7. ASSUME NEW k, k # ch, JobsOf(k) = {} PROVE JobsOf(k)' = {}
    BY <2>1, <2>7 DEF JobsOf
  <2>8. ASSUME NEW t \in DOMAIN pendingRequests', NEW d, d = pendingRequests'[t],
               request'[d].to # 0
        PROVE  at'[CallChain(d)] = d[2] /\ JobsOf(CallChain(d))' = {}
    <3>1. t \in DOMAIN pendingRequests /\ t # s /\ pendingRequests[t] = d /\ Reached(d)
      BY <2>1, <2>8 DEF Reached
    <3>2. at[CallChain(d)] = d[2] /\ JobsOf(CallChain(d)) = {}
      BY <3>1 DEF WaitsOnce
    <3>3. d \in Calls /\ request[d].seq = t
      BY <3>1 DEF ClientIInv, PendingIsOpen
    <3>4. d # c
      BY <3>1, <3>3 DEF s
    <3>5. CallChain(d) # ch
      <4>1. CASE d[2] = c[2]
        BY <4>1, <3>3, <3>4, CallParts DEF CallChain, ch
      <4>2. CASE d[2] # c[2]
        BY <4>2, <3>2, <2>2
      <4> QED BY <4>1, <4>2
    <3> QED BY <3>2, <3>5, <2>7
  <2>9. \A t \in DOMAIN pendingRequests' :
          request'[pendingRequests'[t]].to # 0 =>
            /\ at'[CallChain(pendingRequests'[t])] = pendingRequests'[t][2]
            /\ {i \in DOMAIN jobs' : jobs'[i].chain = CallChain(pendingRequests'[t])} = {}
    BY <2>8 DEF JobsOf
  <2>10. ASSUME NEW k \in listeners'
         PROVE  /\ k[2] \in {"configuration", "stopped"}
                /\ at'[k] \in {EventOf(k), "failed"} /\ JobsOf(k)' = {}
    <3>1. /\ k[2] \in {"configuration", "stopped"}
          /\ at[k] \in {EventOf(k), "failed"} /\ JobsOf(k) = {}
      BY DEF WaitsOnce
    <3>2. k # ch
      BY <3>1, <2>2, <2>3 DEF EventOf, Commands
    <3> QED BY <3>1, <3>2, <2>7
  <2> QED BY <2>6, <2>9, <2>10, WaitsOnceNext
<1> QED BY <1>1, <1>2, Response

\* What an event does to the queue: the chains that wait for it come after the rest.
Heard(l, event, n, w) ==
    LET waiting == {ch \in listeners : EventOf(ch) = event /\ at[ch] = event} IN
    /\ n \in Nat /\ \A i \in 1 .. n : w[i] \in waiting
    /\ \A i, j \in 1 .. n : w[i] = w[j] => i = j
    /\ \A ch \in waiting : ch \in Chains /\ \E i \in 1 .. n : w[i] = ch
    /\ wokenBy' = [ch \in Chains |-> IF ch \in waiting THEN l ELSE wokenBy[ch]]
    /\ listeners' \subseteq listeners \ waiting
    /\ Len(jobs) \in Nat /\ DOMAIN jobs = 1 .. Len(jobs) /\ DOMAIN jobs' = 1 .. Len(jobs) + n
    /\ \A i \in 1 .. Len(jobs) : jobs'[i] = jobs[i]
    /\ \A i \in 1 .. n : jobs'[Len(jobs) + i] = [chain |-> w[i], ok |-> TRUE, hops |-> 0]

LEMMA Event ==
  ASSUME ClientIInv, NEW l, NEW event \in Events, DispatchEvent(l, event)
  PROVE  \E n, w : Heard(l, event, n, w)
<1> DEFINE heard == {ch \in listeners : EventOf(ch) = event}
           both  == {ch \in heard : StillWaits(ch, event)}
           waiting == {ch \in listeners : EventOf(ch) = event /\ at[ch] = event}
<1>1. both = waiting
  BY DEF StillWaits
<1>2. /\ listeners' = listeners \ heard
      /\ wokenBy' = [ch \in Chains |-> IF ch \in waiting THEN l ELSE wokenBy[ch]]
      /\ \E w \in InOrder(waiting) :
           jobs' = jobs \o [i \in DOMAIN w |-> [chain |-> w[i], ok |-> TRUE, hops |-> 0]]
  BY <1>1 DEF DispatchEvent
<1>3. PICK w \in InOrder(waiting) :
        jobs' = jobs \o [i \in DOMAIN w |-> [chain |-> w[i], ok |-> TRUE, hops |-> 0]]
  BY <1>2
<1>4. PICK n \in 0 .. MaxStarts : w \in [1 .. n -> waiting]
  BY DEF InOrder
<1>5. /\ n \in Nat /\ DOMAIN w = 1 .. n /\ Range(w) = waiting
      /\ \A i, j \in 1 .. n : i < j => w[i][1] < w[j][1]
  BY <1>4, ClientAssumption DEF InOrder
<1>6. waiting \subseteq Chains /\ listeners' \subseteq listeners \ waiting
  BY <1>2 DEF ClientIInv, ClientTypeOK
<1> HIDE DEF waiting
<1>7. \A i \in 1 .. n : w[i] \in Chains /\ w[i][1] \in Nat
  BY <1>4, <1>5, <1>6, ChainParts, ClientAssumption DEF Lives
<1>8. \A i, j \in 1 .. n : w[i] = w[j] => i = j
  <2> SUFFICES ASSUME NEW i \in 1 .. n, NEW j \in 1 .. n, w[i] = w[j] PROVE i = j
    OBVIOUS
  <2>1. ~(w[i][1] < w[j][1]) /\ ~(w[j][1] < w[i][1])
    BY <1>7
  <2>2. ~(i < j) /\ ~(j < i)
    BY <2>1, <1>5
  <2> QED BY <2>2, <1>5
<1>9. \A ch \in waiting : ch \in Chains /\ \E i \in 1 .. n : w[i] = ch
  BY <1>5, <1>6 DEF Range
<1> DEFINE due == [i \in DOMAIN w |-> [chain |-> w[i], ok |-> TRUE, hops |-> 0]]
<1>10. /\ due \in Seq(Jobs) /\ Len(due) = n
       /\ \A i \in 1 .. n : due[i] = [chain |-> w[i], ok |-> TRUE, hops |-> 0]
  <2>1. \A i \in DOMAIN w : [chain |-> w[i], ok |-> TRUE, hops |-> 0] \in Jobs
    BY <1>5, <1>7 DEF Jobs
  <2>2. due \in [1 .. n -> Jobs]
    BY <2>1, <1>5
  <2>3. due \in Seq(Jobs)
    BY <1>5, <2>2
  <2>4. Len(due) = n
    BY <1>5, <2>2, <2>3, LenProperties
  <2> QED BY <1>5, <2>3, <2>4
<1>11. jobs \in Seq(Jobs) /\ jobs' = jobs \o due
  BY <1>3 DEF ClientIInv, ClientTypeOK, Jobs
<1> HIDE DEF due
<1>12. /\ Len(jobs) \in Nat /\ DOMAIN jobs = 1 .. Len(jobs) /\ DOMAIN jobs' = 1 .. Len(jobs) + n
       /\ \A i \in 1 .. Len(jobs) + n : jobs'[i] = IF i <= Len(jobs) THEN jobs[i] ELSE due[i - Len(jobs)]
  <2>1. /\ jobs' \in Seq(Jobs) /\ Len(jobs') = Len(jobs) + n
        /\ \A i \in 1 .. Len(jobs) + n : jobs'[i] = IF i <= Len(jobs) THEN jobs[i] ELSE due[i - Len(jobs)]
    BY <1>10, <1>11, ConcatProperties
  <2> QED BY <2>1, <1>11, LenProperties
<1>13. /\ \A i \in 1 .. Len(jobs) : jobs'[i] = jobs[i]
       /\ \A i \in 1 .. n : jobs'[Len(jobs) + i] = [chain |-> w[i], ok |-> TRUE, hops |-> 0]
  <2>1. ASSUME NEW i \in 1 .. n PROVE jobs'[Len(jobs) + i] = due[i]
    <3>1. /\ Len(jobs) + i \in 1 .. Len(jobs) + n /\ ~(Len(jobs) + i <= Len(jobs))
          /\ Len(jobs) + i - Len(jobs) = i
      BY <1>5, <1>12
    <3> QED BY <3>1, <1>12
  <2>2. ASSUME NEW i \in 1 .. Len(jobs) PROVE jobs'[i] = jobs[i]
    BY <1>5, <1>12
  <2> QED BY <2>1, <2>2, <1>10
<1>14. \A i \in 1 .. n : w[i] \in waiting
  BY <1>4
<1>15. Heard(l, event, n, w)
  BY <1>2, <1>5, <1>6, <1>8, <1>9, <1>12, <1>13, <1>14 DEF Heard, waiting
<1> QED BY <1>15

LEMMA EventWaits ==
  ASSUME ClientIInv, WaitsOnce, NEW l, NEW event \in Events,
         NEW n, NEW w, Heard(l, event, n, w), UNCHANGED <<at, request, pendingRequests>>
  PROVE  WaitsOnce'
<1> DEFINE m == Len(jobs)
<1>1. /\ n \in Nat /\ \A i \in 1 .. n : w[i] \in listeners /\ at[w[i]] = event
      /\ \A i \in 1 .. n : w[i] \notin listeners'
      /\ \A i, j \in 1 .. n : w[i] = w[j] => i = j
      /\ listeners' \subseteq listeners
      /\ m \in Nat /\ DOMAIN jobs = 1 .. m /\ DOMAIN jobs' = 1 .. m + n
      /\ \A i \in 1 .. m : jobs'[i] = jobs[i]
      /\ \A i \in 1 .. n : jobs'[m + i].chain = w[i]
  <2> DEFINE waiting == {ch \in listeners : EventOf(ch) = event /\ at[ch] = event}
  <2>1. /\ n \in Nat /\ \A i \in 1 .. n : w[i] \in waiting
        /\ \A i, j \in 1 .. n : w[i] = w[j] => i = j
        /\ listeners' \subseteq listeners \ waiting
    BY DEF Heard
  <2>2. /\ m \in Nat /\ DOMAIN jobs = 1 .. m /\ DOMAIN jobs' = 1 .. m + n
        /\ \A i \in 1 .. m : jobs'[i] = jobs[i]
        /\ \A i \in 1 .. n : jobs'[m + i] = [chain |-> w[i], ok |-> TRUE, hops |-> 0]
    BY DEF Heard
  <2>3. ASSUME NEW i \in 1 .. n PROVE jobs'[m + i].chain = w[i]
    <3>1. jobs'[m + i] = [chain |-> w[i], ok |-> TRUE, hops |-> 0]
      BY <2>2
    <3> QED BY <3>1
  <2> QED BY <2>1, <2>2, <2>3
<1> HIDE DEF m
<1>2. \A i \in 1 .. m + n : i \in 1 .. m \/ \E k \in 1 .. n : i = m + k
  <2> SUFFICES ASSUME NEW i \in 1 .. m + n, i \notin 1 .. m PROVE \E k \in 1 .. n : i = m + k
    OBVIOUS
  <2>1. i - m \in 1 .. n /\ i = m + (i - m)
    BY <1>1
  <2> QED BY <2>1
<1>3. \A i \in 1 .. m, k \in 1 .. n : jobs[i].chain # w[k]
  BY <1>1 DEF WaitsOnce, JobsOf
<1>4. \A i, j \in 1 .. m : jobs[i].chain = jobs[j].chain => i = j
  BY <1>1 DEF WaitsOnce
<1>5. ASSUME NEW i \in DOMAIN jobs', NEW j \in DOMAIN jobs', jobs'[i].chain = jobs'[j].chain
      PROVE  i = j
  <2>1. CASE i \in 1 .. m /\ j \in 1 .. m
    BY <2>1, <1>1, <1>4, <1>5
  <2>2. CASE i \in 1 .. m /\ j \notin 1 .. m
    <3>1. PICK k \in 1 .. n : j = m + k
      BY <2>2, <1>1, <1>2
    <3> QED BY <3>1, <2>2, <1>1, <1>3, <1>5
  <2>3. CASE i \notin 1 .. m /\ j \in 1 .. m
    <3>1. PICK k \in 1 .. n : i = m + k
      BY <2>3, <1>1, <1>2
    <3> QED BY <3>1, <2>3, <1>1, <1>3, <1>5
  <2>4. CASE i \notin 1 .. m /\ j \notin 1 .. m
    <3>1. PICK k \in 1 .. n : i = m + k
      BY <2>4, <1>1, <1>2
    <3>2. PICK q \in 1 .. n : j = m + q
      BY <2>4, <1>1, <1>2
    <3> QED BY <3>1, <3>2, <1>1, <1>5
  <2> QED BY <2>1, <2>2, <2>3, <2>4
<1>6. ASSUME NEW k, JobsOf(k) = {}, \A i \in 1 .. n : w[i] # k PROVE JobsOf(k)' = {}
  <2> SUFFICES ASSUME NEW i \in DOMAIN jobs', jobs'[i].chain = k PROVE FALSE
    BY DEF JobsOf
  <2>1. CASE i \in 1 .. m
    BY <2>1, <1>1, <1>6 DEF JobsOf
  <2>2. CASE i \notin 1 .. m
    <3>1. PICK q \in 1 .. n : i = m + q
      BY <2>2, <1>1, <1>2
    <3> QED BY <3>1, <1>1, <1>6
  <2> QED BY <2>1, <2>2
<1>7. ASSUME NEW s \in DOMAIN pendingRequests', NEW d, d = pendingRequests'[s],
             request'[d].to # 0
      PROVE  at'[CallChain(d)] = d[2] /\ JobsOf(CallChain(d))' = {}
  <2>1. pendingRequests[s] = d /\ d \in Calls /\ Reached(d) /\ s \in DOMAIN pendingRequests
    BY <1>7 DEF Reached, ClientIInv, PendingIsOpen
  <2>2. at[CallChain(d)] = d[2] /\ JobsOf(CallChain(d)) = {}
    BY <2>1 DEF WaitsOnce
  <2>3. d[2] # event
    BY <2>1, CallParts DEF Commands, Events
  <2>4. \A i \in 1 .. n : w[i] # CallChain(d)
    BY <2>2, <2>3, <1>1
  <2> QED BY <2>2, <2>4, <1>6
<1>8. \A s \in DOMAIN pendingRequests' :
        request'[pendingRequests'[s]].to # 0 =>
          /\ at'[CallChain(pendingRequests'[s])] = pendingRequests'[s][2]
          /\ {i \in DOMAIN jobs' : jobs'[i].chain = CallChain(pendingRequests'[s])} = {}
  BY <1>7 DEF JobsOf
<1>9. ASSUME NEW k \in listeners'
      PROVE  /\ k[2] \in {"configuration", "stopped"}
             /\ at'[k] \in {EventOf(k), "failed"} /\ JobsOf(k)' = {}
  <2>1. /\ k[2] \in {"configuration", "stopped"}
        /\ at[k] \in {EventOf(k), "failed"} /\ JobsOf(k) = {}
    BY <1>1 DEF WaitsOnce
  <2>2. \A i \in 1 .. n : w[i] # k
    BY <1>1
  <2> QED BY <2>1, <2>2, <1>6
<1> QED BY <1>5, <1>8, <1>9, WaitsOnceNext

-----------------------------------------------------------------------------
(* The announcement *)

\* What the announcements depend on.
shared == <<supports, announced, request, outcome, wokenBy, reply, at, jobs>>

LEMMA SameOrder == OrderIInv /\ UNCHANGED <<shared, pendingRequests, listeners>> => OrderIInv'
<1> SUFFICES ASSUME OrderIInv, UNCHANGED <<shared, pendingRequests, listeners>> PROVE OrderIInv'
  OBVIOUS
<1> USE DEF shared
<1>1. WaitsOnce'
  BY DEF OrderIInv, WaitsOnce, JobsOf, CallChain, Reached
<1>2. \A l \in Lives : AboutToRead(l) => AboutToRead(l)'
  BY DEF AboutToRead, JobsOf
<1>3. Announcements'
  BY <1>2 DEF OrderIInv, Announcements
<1>4. ConfiguredAsAnnounced'
  BY DEF OrderIInv, ConfiguredAsAnnounced
<1> QED BY <1>1, <1>3, <1>4 DEF OrderIInv

LEMMA IdleQueue ==
  ASSUME OrderIInv, jobs = <<>>, NEW l \in Lives, l \in announced
  PROVE  supports
BY NoJobs DEF OrderIInv, Announcements, AboutToRead

\* Nothing that is announced is lost: what a step has to show.
Kept ==
    /\ supports => supports'
    /\ supports' => announced # {}
    /\ \A l \in Lives : l \in announced /\ ~ supports' => AboutToRead(l)'
    /\ UNCHANGED <<announced, outcome, wokenBy, reply>>

LEMMA QuietOrder ==
  ASSUME OrderIInv, Kept, UNCHANGED request
  PROVE  Announcements' /\ ConfiguredAsAnnounced'
BY DEF Kept, OrderIInv, Announcements, ConfiguredAsAnnounced

LEMMA SendOrder ==
  ASSUME ClientIInv, OrderIInv, Kept, NEW ch \in Chains, NEW command \in Ahead(ch), NEW rest,
         doSend(ch, command, rest), command = "initialize" => ch[1] = life,
         command = "configurationDone" => supports,
         command = "setExceptionBreakpoints" =>
           ch[1] \notin announced \/ wokenBy[<<ch[1], "configuration">>] # ch[1]
  PROVE  Announcements' /\ ConfiguredAsAnnounced'
<1> DEFINE c == <<ch[1], command>>
<1>1. SentAs(c, ch, rest) /\ c[1] = ch[1] /\ c[2] = command
  BY Sent
<1> HIDE DEF c
<1>2. /\ c \in Calls /\ c = <<ch[1], command>> /\ request'[c].seq # 0
      /\ request'[c].to \in {0, life} /\ \A d \in Calls : d # c => request'[d] = request[d]
  BY <1>1, CallParts DEF SentAs
<1>3. announced \subseteq 1 .. life
  BY DEF ClientIInv, ClientTypeOK
<1>4. \A l \in Lives : \A x \in Commands : <<l, x>> \in Calls /\ l # 0
  BY ClientAssumption DEF Calls, Lives
<1>5. \A d \in Calls : request'[d].seq = 0 => request'[d].to = 0
  BY <1>2 DEF OrderIInv, Announcements
<1>6. ASSUME NEW l \in Lives PROVE request'[<<l, "initialize">>].to \in {0, l}
  <2>1. CASE c = <<l, "initialize">>
    BY <2>1, <1>1, <1>2
  <2>2. CASE c # <<l, "initialize">>
    BY <2>2, <1>2, <1>4 DEF OrderIInv, Announcements, Commands
  <2> QED BY <2>1, <2>2
<1>7. Announcements'
  BY <1>5, <1>6 DEF Kept, OrderIInv, Announcements
<1>8. ASSUME NEW l \in Lives, request'[<<l, "configurationDone">>].to = l
      PROVE  \E k \in 1 .. l : k \in announced
  <2>1. CASE c = <<l, "configurationDone">>
    <3>1. l # 0 /\ request'[c].to = l
      BY <2>1, <1>8, ClientAssumption DEF Lives
    <3>2. l = life
      BY <3>1, <1>2
    <3>3. command = "configurationDone"
      BY <2>1, <1>1
    <3> QED BY <3>2, <3>3, <1>3 DEF OrderIInv, Announcements
  <2>2. CASE c # <<l, "configurationDone">>
    BY <2>2, <1>2, <1>4, <1>8 DEF OrderIInv, ConfiguredAsAnnounced, Commands
  <2> QED BY <2>1, <2>2
<1>9. ASSUME NEW l \in Lives, request'[<<l, "setExceptionBreakpoints">>].to = l
      PROVE  l \notin announced \/ wokenBy[<<l, "configuration">>] # l
  <2>1. CASE c = <<l, "setExceptionBreakpoints">>
    BY <2>1, <1>1
  <2>2. CASE c # <<l, "setExceptionBreakpoints">>
    BY <2>2, <1>2, <1>4, <1>9 DEF OrderIInv, ConfiguredAsAnnounced, Commands
  <2> QED BY <2>1, <2>2
<1>10. ConfiguredAsAnnounced'
  BY <1>8, <1>9 DEF Kept, ConfiguredAsAnnounced
<1> QED BY <1>7, <1>10

LEMMA StopOrder == ClientIInv /\ OrderIInv /\ Stop => OrderIInv'
<1> SUFFICES ASSUME ClientIInv, OrderIInv, Stop PROVE OrderIInv'
  OBVIOUS
<1> DEFINE ch == <<life, "stop">>
<1>1. ch \in Chains
  BY RestHolds, ClientAssumption, LenProperties DEF Rest, Chains, Lives
<1>2. "disconnect" \in Ahead(ch)
  BY DEF Stop, Ahead, Commands, ChainOf
<1>3. /\ jobs = <<>> /\ doSend(ch, "disconnect", <<>>)
      /\ UNCHANGED <<supports, announced, outcome, wokenBy, reply>>
  BY DEF Stop, NewTask, adapter
<1> HIDE DEF ch
<1>4. Kept
  BY <1>3, IdleQueue DEF Kept, OrderIInv, Announcements
<1>5. Announcements' /\ ConfiguredAsAnnounced'
  BY <1>1, <1>2, <1>3, <1>4, SendOrder
<1> QED BY <1>5, StopWaits DEF OrderIInv

LEMMA RunOrder == ClientIInv /\ OrderIInv /\ Run => OrderIInv'
<1> SUFFICES ASSUME ClientIInv, OrderIInv, Run PROVE OrderIInv'
  OBVIOUS
<1> DEFINE ch == <<life, "launch">>
<1>1. ch \in Chains /\ ch[1] = life
  <2>1. life \in 1 .. Len(test)
    BY DEF Run, RunChains
  <2> QED BY <2>1, RestHolds, ClientAssumption, LenProperties DEF Rest, Chains, Lives, Scenario
<1>2. "initialize" \in Ahead(ch)
  BY DEF Run, Ahead, Commands, ChainOf
<1>3. /\ jobs = <<>> /\ doSend(ch, "initialize", <<>>)
      /\ UNCHANGED <<supports, announced, outcome, wokenBy, reply>>
  BY DEF Run, NewTask, adapter
<1> HIDE DEF ch
<1>4. Kept
  BY <1>3, IdleQueue DEF Kept, OrderIInv, Announcements
<1>5. Announcements' /\ ConfiguredAsAnnounced'
  BY <1>1, <1>2, <1>3, <1>4, SendOrder
<1> QED BY <1>5, RunWaits DEF OrderIInv

LEMMA TimeoutOrder ==
  ASSUME ClientIInv, OrderIInv, NEW ch \in Chains, Timeout(ch)
  PROVE  OrderIInv'
<1>1. jobs = <<>> /\ UNCHANGED <<supports, announced, outcome, wokenBy, reply, request>>
  BY DEF Timeout, NewTask, history, adapter
<1>2. Kept
  BY <1>1, IdleQueue DEF Kept, OrderIInv, Announcements
<1> QED BY <1>1, <1>2, QuietOrder, TimeoutWaits DEF OrderIInv

\* The continuation that reads the announcement keeps its place before the configuration's.
LEMMA ReadsLater ==
  ASSUME ClientIInv, OrderIInv, jobs # <<>>, NEW l \in Lives, AboutToRead(l),
         Head(jobs).chain = <<l, "launch">> => Head(jobs).hops # 0,
         NEW rest, rest = Tail(jobs), NEW last \in Jobs, last.chain = Head(jobs).chain,
         jobs' \in {rest, Append(rest, last)},
         UNCHANGED <<outcome, wokenBy>>,
         at'[<<l, "launch">>] = at[<<l, "launch">>]
  PROVE  AboutToRead(l)'
<1> DEFINE conf == <<l, "configuration">>
           lau  == <<l, "launch">>
           n    == Len(rest)
<1>1. PICK i \in JobsOf(lau) :
        /\ jobs[i].ok /\ jobs[i].hops = 0
        /\ at[lau] = "initialize" /\ Last(outcome[<<l, "initialize">>]).from = l
        /\ wokenBy[conf] = l => \A j \in JobsOf(conf) : i < j
  BY DEF AboutToRead
<1>2. /\ rest \in Seq(Jobs) /\ n \in Nat /\ DOMAIN jobs = 1 .. n + 1 /\ jobs[1] = Head(jobs)
      /\ \A k \in 1 .. n : rest[k] = jobs[k + 1]
  <2>1. WaitsOnce
    BY DEF OrderIInv
  <2>2. /\ rest \in Seq(Jobs) /\ Len(jobs) \in Nat \ {0} /\ DOMAIN jobs = 1 .. Len(jobs)
        /\ n = Len(jobs) - 1 /\ jobs[1] = Head(jobs)
        /\ \A k \in 1 .. n : rest[k] = jobs[k + 1]
    BY <2>1, TailJobs
  <2>3. n \in Nat /\ Len(jobs) = n + 1
    BY <2>2
  <2> QED BY <2>2, <2>3
<1>3. /\ DOMAIN jobs' \in {1 .. n, 1 .. n + 1}
      /\ \A k \in 1 .. n : jobs'[k] = jobs[k + 1]
      /\ \A k \in DOMAIN jobs' : k \in 1 .. n \/ (k = n + 1 /\ jobs'[k].chain = Head(jobs).chain)
  <2>1. CASE jobs' = rest
    BY <2>1, <1>2, LenProperties
  <2>2. CASE jobs' = Append(rest, last)
    <3>1. /\ DOMAIN jobs' = 1 .. n + 1 /\ jobs'[n + 1] = last
          /\ \A k \in 1 .. n : jobs'[k] = rest[k]
      BY <2>2, <1>2, Appended
    <3>2. \A k \in 1 .. n + 1 : k \in 1 .. n \/ k = n + 1
      <4>1. n \in Nat
        BY <1>2
      <4> HIDE DEF n
      <4> QED BY <4>1
    <3>3. \A k \in 1 .. n : jobs'[k] = jobs[k + 1]
      BY <3>1, <1>2
    <3> QED BY <3>1, <3>2, <3>3
  <2> QED BY <2>1, <2>2
<1> HIDE DEF conf, lau, n
<1>4. i \in 1 .. n + 1 /\ jobs[i].chain = lau /\ i # 1
  <2>1. i \in 1 .. n + 1 /\ jobs[i].chain = lau
    BY <1>1, <1>2 DEF JobsOf
  <2> QED BY <2>1, <1>1, <1>2 DEF lau
<1> DEFINE p == i - 1
<1>5. p \in 1 .. n /\ p + 1 = i
  BY <1>2, <1>4
<1>6. p \in DOMAIN jobs' /\ jobs'[p] = jobs[i]
  <2>1. p \in DOMAIN jobs' /\ jobs'[p] = jobs[p + 1]
    BY <1>2, <1>3, <1>5
  <2> QED BY <2>1, <1>5
<1>7. ASSUME wokenBy[conf] = l, NEW j \in DOMAIN jobs', jobs'[j].chain = conf PROVE p < j
  <2>1. CASE j \in 1 .. n
    <3>1. jobs[j + 1].chain = conf /\ j + 1 \in 1 .. n + 1
      BY <2>1, <1>2, <1>3, <1>7
    <3>2. i < j + 1
      BY <3>1, <1>1, <1>2, <1>7 DEF JobsOf
    <3> QED BY <3>2, <2>1, <1>2, <1>4
  <2>2. CASE j = n + 1
    BY <2>2, <1>2, <1>5
  <2> QED BY <2>1, <2>2, <1>3
<1> HIDE DEF p
<1> QED BY <1>1, <1>4, <1>6, <1>7 DEF AboutToRead, JobsOf, conf, lau

\* Goto, Ends and a continuation that is put off leave a queue of this form.
LEMMA QueueOf ==
  ASSUME NEW ch, NEW rest,
         \/ \E how : Ends(ch, how, rest)
         \/ \E command : Goto(ch, command, rest)
  PROVE  jobs' \in {rest, Append(rest, [chain |-> ch, ok |-> FALSE, hops |-> 1])}
BY DEF Ends, Quiet, Goto, doSend

LEMMA RunJobOrder == ClientIInv /\ OrderIInv /\ RunJob => OrderIInv'
<1> SUFFICES ASSUME ClientIInv, OrderIInv, RunJob PROVE OrderIInv'
  OBVIOUS
<1> DEFINE job == Head(jobs)
           rest == Tail(jobs)
           ch == Head(jobs).chain
<1>1. WaitsOnce /\ jobs # <<>> /\ UNCHANGED <<outcome, wokenBy, reply, announced>>
  BY DEF OrderIInv, RunJob
<1>2. job \in Jobs /\ ch \in Chains /\ jobs[1] = job /\ 1 \in DOMAIN jobs
  <2>1. /\ job \in Jobs /\ ch \in Chains /\ jobs[1] = job
        /\ Len(jobs) \in Nat \ {0} /\ DOMAIN jobs = 1 .. Len(jobs)
    BY <1>1, TailJobs
  <2>2. 1 \in 1 .. Len(jobs)
    BY <2>1
  <2> QED BY <2>1, <2>2
<1>3. CASE job.hops > 0
  <2> DEFINE later == [job EXCEPT !.hops = @ - 1]
  <2>1. /\ jobs' = Append(rest, later)
        /\ UNCHANGED <<at, supports, request>>
    BY <1>3 DEF RunJob, client
  <2>2. later \in Jobs /\ later.chain = ch /\ job.hops # 0
    BY <1>2, <1>3 DEF Jobs
  <2> HIDE DEF later
  <2>3. ASSUME NEW l \in Lives, l \in announced, ~ supports PROVE AboutToRead(l)'
    <3>1. AboutToRead(l)
      BY <2>3 DEF OrderIInv, Announcements
    <3> QED BY <3>1, <1>1, <2>1, <2>2, ReadsLater
  <2>4. Kept
    BY <1>1, <2>1, <2>3 DEF Kept, OrderIInv, Announcements
  <2> QED BY <1>1, <2>1, <2>4, QuietOrder, RunJobWaits DEF OrderIInv
<1>4. CASE ~(job.hops > 0)
  <2>1. IF job.ok THEN Continue(ch, rest) ELSE Reject(ch, rest)
    BY <1>4 DEF RunJob
  <2>2. /\ \/ \E how \in {"done", "failed"} : Ends(ch, how, rest)
           \/ \E command \in Ahead(ch) :
                /\ Goto(ch, command, rest) /\ command # "initialize"
                /\ command = "configurationDone" => supports
                /\ command = "setExceptionBreakpoints" => ~ supports
        /\ supports => supports'
        /\ supports' => supports \/ BodySupports(ch)
    BY <1>2, <2>1, ContinueSends
  <2> DEFINE last == [chain |-> ch, ok |-> FALSE, hops |-> 1]
  <2>3. last \in Jobs /\ last.chain = ch
    BY <1>2 DEF Jobs
  <2>4. jobs' \in {rest, Append(rest, last)}
    BY <2>2, QueueOf
  <2>5. \A k \in Chains : k # ch => at'[k] = at[k]
    BY <1>2, <2>2 DEF Ends, Goto, ClientIInv, ClientTypeOK
  <2>6. ASSUME NEW l \in Lives, AboutToRead(l), ~ supports'
        PROVE  ch # <<l, "launch">> \/ l \notin announced
    <3> SUFFICES ASSUME ch = <<l, "launch">>, l \in announced PROVE FALSE
      OBVIOUS
    <3>1. PICK i \in JobsOf(<<l, "launch">>) :
            /\ jobs[i].ok /\ at[<<l, "launch">>] = "initialize"
            /\ Last(outcome[<<l, "initialize">>]).from = l
      BY <2>6 DEF AboutToRead
    <3>2. i = 1
      BY <1>1, <1>2, <3>1 DEF WaitsOnce, JobsOf
    <3>3. job.ok /\ BodySupports(ch)
      BY <1>2, <3>1, <3>2 DEF BodySupports
    <3>4. Continue(ch, rest)
      BY <2>1, <3>3
    <3>5. supports'
      BY <3>1, <3>3, <3>4 DEF Continue
    <3> QED BY <3>5, <2>6
  <2>7. ASSUME NEW l \in Lives, l \in announced, ~ supports' PROVE AboutToRead(l)'
    <3>1. AboutToRead(l)
      BY <2>2, <2>7 DEF OrderIInv, Announcements
    <3>2. ch # <<l, "launch">>
      BY <3>1, <2>6, <2>7
    <3>3. at'[<<l, "launch">>] = at[<<l, "launch">>]
      BY <3>2, <2>5, ChainsOfRuns DEF Scenario
    <3> HIDE DEF last
    <3> QED BY <3>1, <3>2, <3>3, <1>1, <2>3, <2>4, ReadsLater
  <2>8. Kept
    <3>1. supports' => announced # {}
      BY <2>2 DEF BodySupports, OrderIInv, Announcements
    <3> QED BY <1>1, <2>2, <2>7, <3>1 DEF Kept
  <2>9. CASE \E how \in {"done", "failed"} : Ends(ch, how, rest)
    BY <2>8, <2>9, QuietOrder, <1>1, RunJobWaits DEF OrderIInv, Ends, Quiet
  <2>10. ASSUME NEW command \in Ahead(ch), Goto(ch, command, rest), command # "initialize",
                command = "configurationDone" => supports,
                command = "setExceptionBreakpoints" => ~ supports
         PROVE  OrderIInv'
    <3>1. ASSUME command = "setExceptionBreakpoints", ch[1] \in announced
          PROVE  wokenBy[<<ch[1], "configuration">>] # ch[1]
      <4> DEFINE l == ch[1]
      <4>1. ch = <<l, "configuration">> /\ l \in Lives
        BY <1>2, <3>1, ChainParts DEF Ahead, ChainOf
      <4>2. AboutToRead(l)
        BY <2>10, <3>1, <4>1 DEF OrderIInv, Announcements
      <4>3. PICK i \in JobsOf(<<l, "launch">>) :
              wokenBy[ch] = l => \A j \in JobsOf(ch) : i < j
        BY <4>1, <4>2 DEF AboutToRead
      <4>4. 1 \in JobsOf(ch)
        BY <1>2 DEF JobsOf
      <4>5. i \in Nat /\ i >= 1
        BY <4>3, LenProperties DEF JobsOf, ClientIInv, ClientTypeOK
      <4>6. wokenBy[ch] # l
        BY <4>3, <4>4, <4>5
      <4> QED BY <4>1, <4>6
    <3>2. doSend(ch, command, rest)
      BY <2>10 DEF Goto
    <3>3. Announcements' /\ ConfiguredAsAnnounced'
      BY <1>2, <2>8, <2>10, <3>1, <3>2, SendOrder
    <3> QED BY <1>1, <3>3, RunJobWaits DEF OrderIInv
  <2> QED BY <2>2, <2>9, <2>10
<1> QED BY <1>3, <1>4

LEMMA AnswerOrder ==
  ASSUME ClientIInv, OrderIInv, NEW c \in Calls, NEW ok \in BOOLEAN,
         Answer(c, ok) \/ AnswerAgain(c)
  PROVE  OrderIInv'
<1>1. PICK answer \in BOOLEAN :
        /\ DispatchResponse(c, answer)
        /\ Answer(c, ok) => answer = ok
  <2>1. CASE Answer(c, ok)
    BY <2>1 DEF Answer
  <2>2. CASE ~ Answer(c, ok)
    BY <2>2 DEF AnswerAgain
  <2> QED BY <2>1, <2>2
<1>2. Reached(c) /\ UNCHANGED <<supports, at, listeners, request, wokenBy>>
  BY DEF Answer, AnswerAgain
<1>3. WaitsOnce'
  BY <1>1, <1>2, ResponseWaits DEF OrderIInv
<1>4. \/ AnsweredAs(c, answer)
      \/ /\ request[c].seq \notin DOMAIN pendingRequests
         /\ UNCHANGED <<pendingRequests, outcome, jobs>>
  BY <1>1, Response
<1>5. \A l \in Lives : <<l, "initialize">> \in Calls /\ l # 0
  BY ClientAssumption DEF Calls, Lives, Commands
<1>6. \/ UNCHANGED announced
      \/ \E l \in Lives :
           /\ Answer(c, ok) /\ ok /\ c = <<l, "initialize">> /\ request[c].to = l
           /\ reply[c] = "none" /\ announced' = announced \cup {l}
  <2> SUFFICES ASSUME announced' # announced
               PROVE  \E l \in Lives :
                        /\ Answer(c, ok) /\ ok /\ c = <<l, "initialize">> /\ request[c].to = l
                        /\ reply[c] = "none" /\ announced' = announced \cup {l}
    OBVIOUS
  <2>1. /\ Answer(c, ok) /\ ok /\ c[2] = "initialize" /\ reply[c] = "none"
        /\ announced' = announced \cup {request[c].to}
    BY DEF Answer, AnswerAgain
  <2>2. c[1] \in Lives /\ c = <<c[1], "initialize">>
    BY <2>1, CallParts DEF Calls
  <2>3. request[c].to \in {0, c[1]}
    BY <2>2 DEF OrderIInv, Announcements
  <2>4. request[c].to = c[1]
    BY <2>3, <1>2 DEF Reached
  <2> QED BY <2>1, <2>2, <2>4
<1>7. \A d \in Calls : d # c => reply'[d] = reply[d] /\ outcome'[d] = outcome[d]
  <2>1. \A d \in Calls : d # c => reply'[d] = reply[d]
    BY DEF Answer, AnswerAgain, ClientIInv, ClientTypeOK
  <2>2. \A d \in Calls : d # c => outcome'[d] = outcome[d]
    BY <1>4 DEF AnsweredAs
  <2> QED BY <2>1, <2>2
<1>8. reply'[c] # "none"
  BY DEF Answer, AnswerAgain, ClientIInv, ClientTypeOK
<1>9. ASSUME NEW l \in Lives, l \in announced, ~ supports PROVE AboutToRead(l)'
  <2> DEFINE lau == <<l, "launch">>
             conf == <<l, "configuration">>
             m == Len(jobs)
  <2>1. PICK i \in JobsOf(lau) :
          /\ jobs[i].ok /\ jobs[i].hops = 0
          /\ at[lau] = "initialize" /\ Last(outcome[<<l, "initialize">>]).from = l
          /\ wokenBy[conf] = l => \A j \in JobsOf(conf) : i < j
    BY <1>9 DEF OrderIInv, Announcements, AboutToRead
  <2>2. CASE UNCHANGED <<outcome, jobs>>
    BY <2>1, <2>2, <1>2 DEF AboutToRead, JobsOf
  <2>3. CASE AnsweredAs(c, answer)
    <3>1. JobsOf(CallChain(c)) = {}
      BY <2>3, <1>2 DEF AnsweredAs, OrderIInv, WaitsOnce
    <3>2. c # <<l, "initialize">>
      BY <3>1, <2>1 DEF CallChain, ChainOf
    <3>3. outcome'[<<l, "initialize">>] = outcome[<<l, "initialize">>]
      BY <3>2, <1>5, <1>7
    <3>4. /\ m \in Nat /\ DOMAIN jobs = 1 .. m /\ DOMAIN jobs' = 1 .. m + 1
          /\ \A k \in 1 .. m : jobs'[k] = jobs[k]
      BY <2>3 DEF AnsweredAs
    <3> HIDE DEF m
    <3>5. i \in 1 .. m /\ jobs'[i] = jobs[i] /\ jobs[i].chain = lau
      BY <2>1, <3>4 DEF JobsOf
    <3>6. i \in DOMAIN jobs'
      BY <3>4, <3>5
    <3>7. ASSUME wokenBy[conf] = l, NEW j \in DOMAIN jobs', jobs'[j].chain = conf PROVE i < j
      <4>1. CASE j \in 1 .. m
        BY <4>1, <3>4, <3>7, <2>1 DEF JobsOf
      <4>2. CASE j \notin 1 .. m
        BY <4>2, <3>4, <3>5
      <4> QED BY <4>1, <4>2
    <3> HIDE DEF lau, conf
    <3> QED BY <2>1, <3>3, <3>5, <3>6, <3>7, <1>2 DEF AboutToRead, JobsOf, lau, conf
  <2> QED BY <2>2, <2>3, <1>4
\* The answer that announces the request is the one launch() waits for.
<1>10. ASSUME NEW l \in Lives, Answer(c, ok), ok, c = <<l, "initialize">>, request[c].to = l,
              reply[c] = "none"
       PROVE  AboutToRead(l)' /\ wokenBy[<<l, "configuration">>] # l
  <2> DEFINE lau == <<l, "launch">>
             m == Len(jobs)
  <2>1. outcome[c] = <<>> /\ wokenBy[<<l, "configuration">>] # l
    BY <1>10 DEF OrderIInv, Announcements
  <2>2. request[c].seq # 0
    BY <1>2 DEF OrderIInv, Announcements, Reached
  <2>3. request[c].seq \in DOMAIN pendingRequests
    BY <2>1, <2>2 DEF ClientIInv, PendingIsOpen
  <2>4. AnsweredAs(c, TRUE)
    BY <2>3, <1>1, <1>4, <1>10
  <2>5. CallChain(c) = lau /\ c[2] = "initialize"
    BY <1>10 DEF CallChain, ChainOf
  <2>6. /\ m \in Nat /\ DOMAIN jobs' = 1 .. m + 1
        /\ jobs'[m + 1] = [chain |-> lau, ok |-> TRUE, hops |-> Hops("initialize", TRUE)]
        /\ Last(outcome'[c]).from = l
    BY <2>4, <2>5, <1>10 DEF AnsweredAs
  <2>7. at[lau] = "initialize"
    BY <2>4, <2>5, <1>2 DEF AnsweredAs, OrderIInv, WaitsOnce
  <2>8. Hops("initialize", TRUE) = 0
    BY DEF Hops
  <2> HIDE DEF m
  <2>9. /\ m + 1 \in DOMAIN jobs' /\ jobs'[m + 1].chain = lau
        /\ jobs'[m + 1].ok /\ jobs'[m + 1].hops = 0
    <3>1. m + 1 \in 1 .. m + 1
      BY <2>6
    <3>2. /\ jobs'[m + 1].chain = lau /\ jobs'[m + 1].ok
          /\ jobs'[m + 1].hops = Hops("initialize", TRUE)
      BY <2>6
    <3> QED BY <2>6, <2>8, <3>1, <3>2
  <2> HIDE DEF lau
  <2> QED BY <2>1, <2>6, <2>7, <2>9, <1>2, <1>10 DEF AboutToRead, JobsOf, lau
<1>11. Announcements'
  <2>1. \A d \in Calls : request'[d].seq = 0 => request'[d].to = 0
    BY <1>2 DEF OrderIInv, Announcements
  <2>2. supports' => announced' # {}
    BY <1>2, <1>6 DEF OrderIInv, Announcements
  <2>3. ASSUME NEW l \in Lives
        PROVE  /\ request'[<<l, "initialize">>].to \in {0, l}
               /\ reply'[<<l, "initialize">>] = "none" =>
                    /\ outcome'[<<l, "initialize">>] = <<>>
                    /\ l \notin announced'
                    /\ wokenBy'[<<l, "configuration">>] # l
    <3>1. ASSUME reply'[<<l, "initialize">>] = "none"
          PROVE  /\ outcome'[<<l, "initialize">>] = <<>>
                 /\ l \notin announced'
                 /\ wokenBy'[<<l, "configuration">>] # l
      <4>1. c # <<l, "initialize">>
        BY <3>1, <1>8
      <4>2. reply[<<l, "initialize">>] = "none" /\ outcome'[<<l, "initialize">>] = outcome[<<l, "initialize">>]
        BY <4>1, <3>1, <1>5, <1>7
      <4>3. l \in announced' => l \in announced
        BY <4>1, <1>6
      <4> QED BY <4>2, <4>3, <1>2 DEF OrderIInv, Announcements
    <3> QED BY <3>1, <1>2 DEF OrderIInv, Announcements
  <2>4. ASSUME NEW l \in Lives, l \in announced', ~ supports' PROVE AboutToRead(l)'
    <3>1. ~ supports
      BY <2>4, <1>2
    <3>2. CASE l \in announced
      BY <3>1, <3>2, <1>9
    <3>3. CASE l \notin announced
      <4>1. /\ Answer(c, ok) /\ ok /\ c = <<l, "initialize">> /\ request[c].to = l
            /\ reply[c] = "none"
        BY <3>3, <2>4, <1>6
      <4> QED BY <4>1, <1>10
    <3> QED BY <3>2, <3>3
  <2> QED BY <2>1, <2>2, <2>3, <2>4 DEF Announcements
<1>12. ConfiguredAsAnnounced'
  <2> SUFFICES ASSUME NEW l \in Lives
               PROVE  /\ request'[<<l, "configurationDone">>].to = l => \E k \in 1 .. l : k \in announced'
                      /\ request'[<<l, "setExceptionBreakpoints">>].to = l =>
                           l \notin announced' \/ wokenBy'[<<l, "configuration">>] # l
    BY DEF ConfiguredAsAnnounced
  <2>1. announced \subseteq announced'
    BY <1>6
  <2>2. l \in announced' => l \in announced \/ wokenBy[<<l, "configuration">>] # l
    BY <1>6, <1>10
  <2> QED BY <2>1, <2>2, <1>2 DEF OrderIInv, ConfiguredAsAnnounced
<1> QED BY <1>3, <1>11, <1>12 DEF OrderIInv

LEMMA SendEventOrder ==
  ASSUME ClientIInv, OrderIInv, NEW l \in Lives, NEW event \in Events, SendEvent(l, event)
  PROVE  OrderIInv'
<1> DEFINE waiting == {ch \in listeners : EventOf(ch) = event /\ at[ch] = event}
           m == Len(jobs)
           Conf(k) == <<k, "configuration">>
<1>1. /\ DispatchEvent(l, event) /\ MaySendEvent(l, event)
      /\ UNCHANGED <<supports, announced, request, outcome, reply, at, pendingRequests>>
  BY DEF SendEvent
<1>2. PICK n, w : Heard(l, event, n, w)
  BY <1>1, Event
<1>3. WaitsOnce /\ WaitsOnce'
  BY <1>1, <1>2, EventWaits DEF OrderIInv
<1>4. /\ n \in Nat /\ \A i \in 1 .. n : w[i] \in waiting
      /\ wokenBy' = [ch \in Chains |-> IF ch \in waiting THEN l ELSE wokenBy[ch]]
      /\ m \in Nat /\ DOMAIN jobs = 1 .. m /\ DOMAIN jobs' = 1 .. m + n
      /\ \A i \in 1 .. m : jobs'[i] = jobs[i]
  BY <1>2 DEF Heard
<1> HIDE DEF m
<1>5. \A k \in Lives : Conf(k) \in Chains
  BY ChainsOfRuns DEF Scenario
<1>6. \A k \in Lives :
        /\ Conf(k) \in waiting => wokenBy'[Conf(k)] = l /\ at[Conf(k)] = "initialized" /\ event = "initialized"
        /\ Conf(k) \notin waiting => wokenBy'[Conf(k)] = wokenBy[Conf(k)]
  BY <1>4, <1>5 DEF EventOf
<1>7. ASSUME NEW k \in Lives, k \in announced, ~ supports PROVE AboutToRead(k)'
  <2> DEFINE lau == <<k, "launch">>
             conf == Conf(k)
  <2>1. PICK i \in JobsOf(lau) :
          /\ jobs[i].ok /\ jobs[i].hops = 0
          /\ at[lau] = "initialize" /\ Last(outcome[<<k, "initialize">>]).from = k
          /\ wokenBy[conf] = k => \A j \in JobsOf(conf) : i < j
    BY <1>7 DEF OrderIInv, Announcements, AboutToRead
  <2>2. i \in 1 .. m /\ jobs'[i] = jobs[i] /\ jobs[i].chain = lau
    BY <2>1, <1>4 DEF JobsOf
  <2>3. i \in DOMAIN jobs'
    BY <2>2, <1>4
  <2>4. conf \in waiting => JobsOf(conf) = {}
    BY <1>3 DEF WaitsOnce
  <2> HIDE DEF waiting
  <2>5. ASSUME wokenBy'[conf] = k, NEW j \in DOMAIN jobs', jobs'[j].chain = conf PROVE i < j
    <3>1. CASE j \in 1 .. m
      <4>1. j \in JobsOf(conf)
        BY <3>1, <2>5, <1>4 DEF JobsOf
      <4>2. wokenBy[conf] = k
        BY <4>1, <2>4, <2>5, <1>6
      <4> QED BY <4>1, <4>2, <2>1
    <3>2. CASE j \notin 1 .. m
      BY <3>2, <2>2, <1>4
    <3> QED BY <3>1, <3>2
  <2> HIDE DEF lau, conf
  <2> QED BY <2>1, <2>2, <2>3, <2>5, <1>1 DEF AboutToRead, JobsOf, lau, conf
<1>8. ASSUME NEW k \in Lives, reply[<<k, "initialize">>] = "none" PROVE wokenBy'[Conf(k)] # k
  <2>1. CASE Conf(k) \in waiting /\ l = k
    <3>1. AnsweredOk(k, {"initialize"})
      BY <2>1, <1>1, <1>6 DEF MaySendEvent
    <3>2. PICK c \in Calls : c[2] = "initialize" /\ request[c].to = k /\ reply[c] = "ok"
      BY <3>1 DEF AnsweredOk
    <3>3. c = <<c[1], "initialize">> /\ c[1] \in Lives
      BY <3>2, CallParts DEF Calls
    <3>4. request[c].to \in {0, c[1]}
      BY <3>3 DEF OrderIInv, Announcements
    <3>5. k # 0
      BY ClientAssumption DEF Lives
    <3>6. c = <<k, "initialize">>
      BY <3>2, <3>3, <3>4, <3>5
    <3> QED BY <3>2, <3>6, <1>8
  <2>2. CASE Conf(k) \notin waiting
    BY <2>2, <1>6, <1>8 DEF OrderIInv, Announcements
  <2>3. CASE l # k /\ Conf(k) \in waiting
    BY <2>3, <1>6
  <2> QED BY <2>1, <2>2, <2>3
<1>9. Announcements'
  BY <1>1, <1>7, <1>8 DEF OrderIInv, Announcements
<1>10. ASSUME NEW k \in Lives, request[<<k, "setExceptionBreakpoints">>].to = k
       PROVE  k \notin announced \/ wokenBy'[Conf(k)] # k
  <2>1. CASE Conf(k) \in waiting
    <3>1. "setExceptionBreakpoints" \in Ahead(Conf(k))
      BY <2>1, <1>6 DEF Ahead, Commands, ChainOf, Events
    <3>2. request[<<k, "setExceptionBreakpoints">>].seq = 0
      BY <3>1, <1>5 DEF ClientIInv, AheadIsFresh, Calls, Commands
    <3>3. request[<<k, "setExceptionBreakpoints">>].to = 0
      BY <3>2 DEF OrderIInv, Announcements, Calls, Commands
    <3> QED BY <3>3, <1>10, ClientAssumption DEF Lives
  <2>2. CASE Conf(k) \notin waiting
    BY <2>2, <1>6, <1>10 DEF OrderIInv, ConfiguredAsAnnounced
  <2> QED BY <2>1, <2>2
<1>11. ConfiguredAsAnnounced'
  BY <1>1, <1>10 DEF OrderIInv, ConfiguredAsAnnounced
<1> QED BY <1>3, <1>9, <1>11 DEF OrderIInv

-----------------------------------------------------------------------------
LEMMA InitOrder == Init => OrderIInv
<1> SUFFICES ASSUME Init PROVE OrderIInv
  OBVIOUS
<1>1. DOMAIN jobs = {} /\ DOMAIN pendingRequests = {} /\ listeners = {}
  BY DEF Init
<1>2. WaitsOnce
  BY <1>1 DEF WaitsOnce
<1>3. \A c \in Calls : request[c].seq = 0 /\ request[c].to = 0 /\ outcome[c] = <<>>
  BY DEF Init, NotSent
<1>4. \A l \in Lives : l # 0 /\ \A command \in Commands : <<l, command>> \in Calls
  BY ClientAssumption DEF Lives, Calls
<1>5. \A l \in Lives : wokenBy[<<l, "configuration">>] = 0
  BY ChainsOfRuns DEF Init, Scenario
<1>6. announced = {} /\ ~ supports
  BY DEF Init
<1>7. Announcements
  BY <1>3, <1>4, <1>5, <1>6 DEF Announcements, Commands
<1>8. ConfiguredAsAnnounced
  BY <1>3, <1>4, <1>6 DEF ConfiguredAsAnnounced, Commands
<1> QED BY <1>2, <1>7, <1>8 DEF OrderIInv

\* A chain waits for one thing, and what an adapter announced is read before a
\* configuration it started goes on: for any tests and any order of messages.
THEOREM OrderInvariance == SafeSpec => []OrderIInv
<1>1. ClientIInv /\ OrderIInv /\ [Next]_vars => OrderIInv'
  <2> SUFFICES ASSUME ClientIInv, OrderIInv, [Next]_vars PROVE OrderIInv'
    OBVIOUS
  <2>1. CASE Start
    BY <2>1, SameOrder DEF Start, shared, queue, history
  <2>2. CASE \E l \in Lives : Exit(l)
    BY <2>2, SameOrder DEF Exit, shared, client, queue, history
  <2>3. CASE UNCHANGED vars
    BY <2>3, SameOrder DEF vars, shared, client, queue, history, adapter
  <2>4. CASE Stop
    BY <2>4, StopOrder
  <2>5. CASE Run
    BY <2>5, RunOrder
  <2>6. CASE RunJob
    BY <2>6, RunJobOrder
  <2>7. CASE \E ch \in Chains : Timeout(ch)
    BY <2>7, TimeoutOrder
  <2>8. CASE \E c \in Calls, ok \in BOOLEAN : Answer(c, ok)
    BY <2>8, AnswerOrder
  <2>9. CASE \E c \in Calls : AnswerAgain(c)
    BY <2>9, AnswerOrder
  <2>10. CASE \E l \in Lives, event \in Events : SendEvent(l, event)
    BY <2>10, SendEventOrder
  <2> QED BY <2>1, <2>2, <2>3, <2>4, <2>5, <2>6, <2>7, <2>8, <2>9, <2>10 DEF Next
<1> QED BY <1>1, InitOrder, Invariance, PTL DEF SafeSpec

\* The configuration of an adapter ends the way the adapter announced.
THEOREM ConfigurationEndsAsAnnounced == SafeSpec => []ConfiguredAsAnnounced
<1>1. OrderIInv => ConfiguredAsAnnounced
  BY DEF OrderIInv
<1> QED BY <1>1, OrderInvariance, PTL
=============================================================================
