---------------------------- MODULE ValuesProofs ----------------------------
(***************************************************************************)
(* Proofs about Handles, for any number of objects and any start, about    *)
(* the lines, columns and paths of Conversion, for all integers and all    *)
(* paths of any length, and about OutputAssertion, for any texts and any   *)
(* cutting of them into events.                                            *)
(***************************************************************************)
EXTENDS Handles, Conversion, OutputAssertion, Recursion, TLAPS

-----------------------------------------------------------------------------
(* Handles *)

USE DEF Objects, None

LEMMA HandlesInitIInv == HandlesInit => HandlesIInv
<1> SUFFICES ASSUME HandlesInit PROVE HandlesIInv
    OBVIOUS
<1> USE HandlesAssumption DEF HandlesInit
<1>1. created = {} /\ 1..0 = {} /\ 0 \in 0..MaxCreated
    BY DEF created
<1>2. HandlesTypeOK
    BY <1>1 DEF HandlesTypeOK
<1>3. Current
    BY DEF Current
<1> QED
    BY <1>2, <1>3 DEF HandlesIInv

\* The new handle is above all in the map, so no object loses its own.
LEMMA CreateIInv ==
    ASSUME HandlesIInv, NEW isFalsy \in BOOLEAN, create(isFalsy)
    PROVE  HandlesIInv'
<1> USE HandlesAssumption
<1> USE DEF HandlesIInv, HandlesTypeOK, Current
<1>1. PICK n \in Objects :
        /\ created = 1..(n - 1)
        /\ handleMap' = [h \in DOMAIN handleMap \cup {nextHandle} |->
                            IF h = nextHandle THEN n ELSE handleMap[h]]
        /\ nextHandle' = nextHandle + 1
        /\ falsy' = [m \in 1..n |-> IF m = n THEN isFalsy ELSE falsy[m]]
        /\ handleOf' = [m \in 1..n |-> IF m = n THEN nextHandle ELSE handleOf[m]]
        /\ fresh' = fresh \cup {n}
    BY DEF create, Increment
<1>2. created' = 1..n /\ created \subseteq 1..n /\ n \notin created /\ n \in 0..MaxCreated
    BY <1>1 DEF created
<1>3. nextHandle \notin DOMAIN handleMap
    OBVIOUS
<1>4. HandlesTypeOK'
  <2>1. nextHandle' \in Int /\ DOMAIN handleMap' \subseteq Int
    BY <1>1
  <2>2. ASSUME NEW h \in DOMAIN handleMap'
        PROVE  h < nextHandle' /\ handleMap'[h] \in created'
    BY <1>1, <1>2, <2>2
  <2>3. falsy' \in [created' -> BOOLEAN] /\ handleOf' \in [created' -> Int]
    <3>1. \A m \in 1..n : m # n => m \in created
      BY <1>1
    <3> QED
      BY <1>1, <1>2, <3>1
  <2>4. fresh' \subseteq created'
    BY <1>1, <1>2
  <2> QED
    BY <1>2, <2>1, <2>2, <2>3, <2>4
<1>5. Current'
  <2>1. ASSUME NEW m \in fresh'
        PROVE  handleOf'[m] \in DOMAIN handleMap' /\ handleMap'[handleOf'[m]] = m
    <3>1. CASE m = n
      BY <1>1, <1>2, <3>1
    <3>2. CASE m # n
      <4>1. m \in fresh /\ m \in 1..n
        BY <1>1, <1>2, <2>1, <3>2
      <4>2. handleOf[m] \in DOMAIN handleMap /\ handleOf[m] # nextHandle
        BY <4>1, <1>3
      <4> QED
        BY <1>1, <3>2, <4>1, <4>2
    <3> QED
      BY <3>1, <3>2
  <2>2. ASSUME NEW h \in DOMAIN handleMap' PROVE handleMap'[h] \in fresh'
    BY <1>1, <2>2
  <2> QED
    BY <2>1, <2>2
<1> QED
    BY <1>4, <1>5

LEMMA ResetIInv == HandlesIInv /\ reset => HandlesIInv'
<1> SUFFICES ASSUME HandlesIInv, reset PROVE HandlesIInv'
    OBVIOUS
<1>1. DOMAIN handleMap' = {} /\ fresh' = {} /\ created' = created /\ nextHandle' \in Int
    BY HandlesAssumption DEF reset, NewMap, created
<1>2. UNCHANGED <<falsy, handleOf>>
    BY DEF reset
<1> QED
    BY <1>1, <1>2 DEF HandlesIInv, HandlesTypeOK, Current

THEOREM HandlesInvariance == HandlesSpec => []HandlesIInv
<1>1. HandlesIInv /\ [HandlesNext]_handlesVars => HandlesIInv'
  <2> SUFFICES ASSUME HandlesIInv, [HandlesNext]_handlesVars PROVE HandlesIInv'
    OBVIOUS
  <2>1. CASE HandlesNext
    BY <2>1, CreateIInv, ResetIInv DEF HandlesNext
  <2>2. CASE UNCHANGED handlesVars
    BY <2>2 DEF handlesVars, HandlesIInv, HandlesTypeOK, Current, created
  <2> QED
    BY <2>1, <2>2
<1> QED
    BY <1>1, HandlesInitIInv, PTL DEF HandlesSpec

\* A handle leads to its object until the next reset.
THEOREM HandlesNameObjects == HandlesSpec => []HandleNamesObject
<1>1. HandlesIInv => HandleNamesObject
    BY DEF HandlesIInv, HandlesTypeOK, Current, HandleNamesObject, get
<1> QED
    BY <1>1, HandlesInvariance, PTL

\* A handle from before a reset leads to no object from before it.
THEOREM ResetForgets == HandlesSpec => []OldObjectsForgotten
<1>1. HandlesIInv => OldObjectsForgotten
    BY DEF HandlesIInv, Current, OldObjectsForgotten, get
<1> QED
    BY <1>1, HandlesInvariance, PTL

-----------------------------------------------------------------------------
(* Conversion *)

\* The flags are Booleans, and the client's paths never become URIs.
THEOREM ConversionTypeCorrect == ConversionSpec => []ConversionTypeOK
<1>1. ConversionInit => ConversionTypeOK
    BY DEF ConversionInit, ConversionTypeOK, Flags
<1>2. ConversionTypeOK /\ [ConversionNext]_conversionVars => ConversionTypeOK'
  <2> SUFFICES ASSUME ConversionTypeOK, [ConversionNext]_conversionVars
               PROVE  ConversionTypeOK'
    OBVIOUS
  <2> USE DEF ConversionTypeOK, Flags
  <2>1. ASSUME NEW format \in {"path", "url"}, setDebuggerPathFormat(format)
        PROVE  ConversionTypeOK'
    BY <2>1 DEF setDebuggerPathFormat
  <2>2. ASSUME NEW enable \in BOOLEAN,
               setDebuggerLinesStartAt1(enable) \/ setDebuggerColumnsStartAt1(enable)
        PROVE  ConversionTypeOK'
    BY <2>2 DEF setDebuggerLinesStartAt1, setDebuggerColumnsStartAt1
  <2>3. ASSUME NEW lines \in BOOLEAN, NEW columns \in BOOLEAN, Initialize(lines, columns)
        PROVE  ConversionTypeOK'
    BY <2>3 DEF Initialize
  <2>4. CASE UNCHANGED conversionVars
    BY <2>4 DEF conversionVars
  <2> QED
    BY <2>1, <2>2, <2>3, <2>4 DEF ConversionNext
<1> QED
    BY <1>1, <1>2, PTL DEF ConversionSpec

\* What each conversion does to an integer, in terms of where counting starts.
LEMMA Shifts ==
    ASSUME NEW n \in Int, NEW d \in BOOLEAN, NEW c \in BOOLEAN
    PROVE  /\ ToDebugger(n, d, c) - First(d) = n - First(c)
           /\ ToClient(ToDebugger(n, d, c), d, c) = n
    BY DEF ToDebugger, ToClient, First

\* Lines and columns agree on both sides and come back, for all integers and flags.
THEOREM LocationsAlwaysAgree == ConversionSpec => []LocationsAgree
<1>1. ConversionTypeOK => LocationsAgree
  <2> SUFFICES ASSUME ConversionTypeOK, NEW n \in Numbers
               PROVE /\ convertClientLineToDebugger(n) - First(debugger.lines)
                          = n - First(client.lines)
                     /\ convertClientColumnToDebugger(n) - First(debugger.columns)
                          = n - First(client.columns)
                     /\ convertDebuggerLineToClient(convertClientLineToDebugger(n)) = n
                     /\ convertDebuggerColumnToClient(convertClientColumnToDebugger(n)) = n
    BY DEF LocationsAgree
  <2>1. n \in Int
    BY ConversionAssumption
  <2>2. /\ debugger.lines \in BOOLEAN /\ debugger.columns \in BOOLEAN
        /\ client.lines \in BOOLEAN /\ client.columns \in BOOLEAN
    BY DEF ConversionTypeOK, Flags
  <2> QED
    BY <2>1, <2>2, Shifts DEF convertClientLineToDebugger, convertDebuggerLineToClient,
       convertClientColumnToDebugger, convertDebuggerColumnToClient
<1> QED
    BY <1>1, ConversionTypeCorrect, PTL

-----------------------------------------------------------------------------
(* Segments that are resolved *)

Plain(seg) == seg.text \notin {".", ".."}

\* What a function on the positions of a sequence makes of it is a sequence.
LEMMA MapIsSeq ==
    ASSUME NEW S, NEW segs \in Seq(S), NEW T, NEW t, t = [i \in DOMAIN segs |-> t[i]],
           \A i \in 1 .. Len(segs) : t[i] \in T
    PROVE  t \in Seq(T) /\ Len(t) = Len(segs)
<1>1. Len(segs) \in Nat /\ DOMAIN segs = 1 .. Len(segs)
  BY LenProperties
<1>2. t \in [1 .. Len(segs) -> T]
  BY <1>1
<1>3. t \in Seq(T)
  BY <1>1, <1>2, SeqDef
<1>4. DOMAIN t = 1 .. Len(segs) /\ DOMAIN t = 1 .. Len(t) /\ Len(t) \in Nat
  BY <1>2, <1>3, LenProperties
<1>5. Len(t) = Len(segs)
  BY <1>1, <1>4
<1> QED BY <1>3, <1>5

LEMMA ShortenType ==
    ASSUME NEW D, NEW done \in Seq(D)
    PROVE  Shorten(done) \in Seq(D)
<1>1. Len(done) \in Nat
  BY LenProperties
<1>2. CASE done = <<>> \/ (Len(done) = 1 /\ IsDrive(done[1]))
  BY <1>2 DEF Shorten
<1>3. CASE ~(done = <<>> \/ (Len(done) = 1 /\ IsDrive(done[1])))
  <2>1. Shorten(done) = SubSeq(done, 1, Len(done) - 1)
    BY <1>3 DEF Shorten, Front
  <2>2. \A i \in 1 .. Len(done) - 1 : done[i] \in D
    BY <1>1, ElementOfSeq
  <2>3. Len(done) - 1 \in Int
    BY <1>1
  <2> QED BY <2>1, <2>2, <2>3, SubSeqProperties
<1> QED BY <1>2, <1>3

LEMMA PlainIsAppended ==
    ASSUME NEW done, NEW seg, Plain(seg)
    PROVE  Resolved(done, seg) = Append(done, seg)
  BY DEF Resolved, Plain

\* What has been resolved so far has no "." and no "..".
LEMMA ResolvedType ==
    ASSUME NEW D, NEW done \in Seq(D), NEW seg, Plain(seg) => seg \in D
    PROVE  Resolved(done, seg) \in Seq(D)
<1>1. CASE seg.text = "."
  BY <1>1 DEF Resolved, Plain
<1>2. CASE seg.text = ".."
  BY <1>2, ShortenType DEF Resolved, Plain
<1>3. CASE seg.text # "." /\ seg.text # ".."
  <2>1. Resolved(done, seg) = Append(done, seg) /\ Plain(seg)
    BY <1>3 DEF Resolved, Plain
  <2> QED BY <2>1, AppendProperties
<1> QED BY <1>1, <1>2, <1>3

LEMMA ResolveEquation ==
    ASSUME NEW S, NEW segs \in Seq(S), NEW D,
           \A i \in 1 .. Len(segs) : Plain(segs[i]) => segs[i] \in D
    PROVE  \E done :
             /\ Resolve(segs) = IF Len(segs) > 0 /\ ~Plain(segs[Len(segs)])
                                  THEN Append(done[Len(segs)], Empty) ELSE done[Len(segs)]
             /\ done[0] = <<>>
             /\ \A i \in 1 .. Len(segs) : done[i] = Resolved(done[i - 1], segs[i])
             /\ \A i \in 0 .. Len(segs) : done[i] \in Seq(D)
<1> DEFINE N == Len(segs)
           equation(f) == f = [i \in 0 .. N |->
                                 IF i = 0 THEN <<>> ELSE Resolved(f[i - 1], segs[i])]
           found == CHOOSE f : equation(f)
           step == [p \in (1 .. N) \X Seq(D) |-> Resolved(p[2], segs[p[1]])]
           V == Seq(D)
           none == <<>>
<1>1. N \in Nat /\ none \in V
  BY LenProperties, EmptySeq
<1>2. Resolve(segs) = IF N > 0 /\ ~Plain(segs[N]) THEN Append(found[N], Empty) ELSE found[N]
  BY DEF Resolve, Plain
<1> HIDE DEF N
<1>3. step \in [(1 .. N) \X V -> V]
  <2>1. ASSUME NEW p \in (1 .. N) \X V PROVE Resolved(p[2], segs[p[1]]) \in V
    <3>1. p[2] \in Seq(D) /\ p[1] \in 1 .. N
      OBVIOUS
    <3>2. Plain(segs[p[1]]) => segs[p[1]] \in D
      BY <3>1 DEF N
    <3> QED BY <3>1, <3>2, ResolvedType
  <2> QED BY <2>1
<1>4. PICK h : Unfolds(h, N, V, none, step)
  <2> HIDE DEF step, V, none
  <2> QED BY ONLY <1>1, <1>3, RecursiveFunction, Zenon
<1>5. /\ h \in [0 .. N -> V] /\ h[0] = none
      /\ \A i \in 1 .. N : h[i] = step[<<i, h[i - 1]>>]
  BY <1>4 DEF Unfolds
<1>6. ASSUME NEW i \in 1 .. N
      PROVE  h[i] = Resolved(h[i - 1], segs[i])
  <2>1. i - 1 \in 0 .. N
    BY <1>1
  <2>2. <<i, h[i - 1]>> \in (1 .. N) \X V
    <3> HIDE DEF V, step
    <3> QED BY <1>5, <2>1
  <2> QED BY <1>5, <2>2
<1> HIDE DEF step
<1>7. equation(h)
  <2>1. \A i \in 0 .. N : i = 0 \/ i \in 1 .. N
    BY <1>1
  <2>2. h = [i \in 0 .. N |-> h[i]]
    BY <1>5
  <2>3. \A i \in 0 .. N : h[i] = IF i = 0 THEN <<>> ELSE Resolved(h[i - 1], segs[i])
    BY <1>5, <1>6, <2>1
  <2> QED BY <2>2, <2>3
<1>8. equation(found)
  <2> HIDE DEF equation
  <2> QED BY <1>7
<1> HIDE DEF found
<1>9. 0 \in 0 .. N /\ \A i \in 1 .. N : i \in 0 .. N /\ i # 0
  BY <1>1
<1>10. found[0] = <<>> /\ \A i \in 1 .. N : found[i] = Resolved(found[i - 1], segs[i])
  BY <1>8, <1>9
<1>11. \A i \in 0 .. N : found[i] \in Seq(D)
  <2> DEFINE T == {i \in 0 .. N : found[i] \in Seq(D)}
  <2>1. 0 \in T
    BY <1>1, <1>9, <1>10
  <2>2. ASSUME NEW i \in 0 .. N - 1, i \in T PROVE i + 1 \in T
    <3>1. i + 1 \in 1 .. N /\ i + 1 \in 0 .. N /\ (i + 1) - 1 = i
      BY <1>1
    <3>2. found[i + 1] = Resolved(found[i], segs[i + 1])
      BY <1>10, <3>1
    <3>3. found[i] \in Seq(D) /\ (Plain(segs[i + 1]) => segs[i + 1] \in D)
      BY <2>2, <3>1 DEF N
    <3> QED BY <3>1, <3>2, <3>3, ResolvedType
  <2> HIDE DEF T
  <2>3. \A i \in 0 .. N : i \in T
    BY <1>1, <2>1, <2>2, InductionUpTo
  <2> QED BY <2>3 DEF T
<1> QED BY <1>2, <1>10, <1>11 DEF N

\* A URL's path has nothing left to resolve, and there is always a segment.
LEMMA ResolveIsPlain ==
    ASSUME NEW S, NEW segs \in Seq(S), segs # <<>>, NEW D, Empty \in D,
           \A i \in 1 .. Len(segs) : Plain(segs[i]) => segs[i] \in D
    PROVE  Resolve(segs) \in Seq(D) /\ Resolve(segs) # <<>>
<1>1. PICK done :
             /\ Resolve(segs) = IF Len(segs) > 0 /\ ~Plain(segs[Len(segs)])
                                  THEN Append(done[Len(segs)], Empty) ELSE done[Len(segs)]
             /\ done[0] = <<>>
             /\ \A i \in 1 .. Len(segs) : done[i] = Resolved(done[i - 1], segs[i])
             /\ \A i \in 0 .. Len(segs) : done[i] \in Seq(D)
  BY ResolveEquation
<1>2. PICK n : n = Len(segs)
  OBVIOUS
<1>3. n \in Nat /\ n > 0 /\ n \in 0 .. n /\ n \in 1 .. n /\ n - 1 \in 0 .. n
  BY <1>2, EmptySeq, LenProperties
<1>4. \A s \in Seq(D), e \in D : Append(s, e) \in Seq(D) /\ Append(s, e) # <<>>
  <2>1. ASSUME NEW s \in Seq(D), NEW e \in D PROVE Append(s, e) \in Seq(D) /\ Append(s, e) # <<>>
    <3>1. Append(s, e) \in Seq(D) /\ Len(Append(s, e)) = Len(s) + 1 /\ Len(s) \in Nat
      BY AppendProperties, LenProperties
    <3> QED BY <3>1, EmptySeq
  <2> QED BY <2>1
<1>5. CASE ~Plain(segs[n])
  <2>1. Resolve(segs) = Append(done[n], Empty) /\ done[n] \in Seq(D)
    BY <1>1, <1>2, <1>3, <1>5
  <2> QED BY <2>1, <1>4
<1>6. CASE Plain(segs[n])
  <2>1. Resolve(segs) = done[n] /\ done[n] = Resolved(done[n - 1], segs[n])
        /\ done[n - 1] \in Seq(D) /\ segs[n] \in D
    BY <1>1, <1>2, <1>3, <1>6
  <2>2. Resolved(done[n - 1], segs[n]) = Append(done[n - 1], segs[n])
    BY <1>6, PlainIsAppended
  <2> QED BY <2>1, <2>2, <1>4
<1> QED BY <1>5, <1>6

\* And a path with nothing to resolve is taken as it is.
LEMMA ResolveIsIdentity ==
    ASSUME NEW D, \A d \in D : Plain(d), NEW segs \in Seq(D)
    PROVE  Resolve(segs) = segs
<1>1. \A i \in 1 .. Len(segs) : segs[i] \in D /\ Plain(segs[i])
  BY ElementOfSeq
<1>2. PICK done :
             /\ Resolve(segs) = IF Len(segs) > 0 /\ ~Plain(segs[Len(segs)])
                                  THEN Append(done[Len(segs)], Empty) ELSE done[Len(segs)]
             /\ done[0] = <<>>
             /\ \A i \in 1 .. Len(segs) : done[i] = Resolved(done[i - 1], segs[i])
             /\ \A i \in 0 .. Len(segs) : done[i] \in Seq(D)
  BY <1>1, ResolveEquation
<1>3. PICK N : N = Len(segs)
  OBVIOUS
<1>4. N \in Nat
  BY <1>3, LenProperties
<1> DEFINE T == {n \in 0 .. N : Len(done[n]) = n /\ \A i \in 1 .. n : done[n][i] = segs[i]}
<1>5. 0 \in T
  <2>1. Len(<<>>) = 0 /\ 0 \in 0 .. N
    BY <1>4
  <2> QED BY <2>1, <1>2
<1>6. ASSUME NEW n \in 0 .. N - 1, n \in T PROVE n + 1 \in T
  <2>1. n \in Nat /\ n + 1 \in 1 .. N /\ n + 1 \in 0 .. N /\ (n + 1) - 1 = n /\ n \in 0 .. N
    BY <1>4
  <2>2. done[n + 1] = Resolved(done[n], segs[n + 1]) /\ done[n] \in Seq(D)
        /\ segs[n + 1] \in D /\ Plain(segs[n + 1])
    BY <2>1, <1>1, <1>2, <1>3
  <2>3. done[n + 1] = Append(done[n], segs[n + 1])
    BY <2>2, PlainIsAppended
  <2>4. Len(done[n]) = n /\ \A i \in 1 .. n : done[n][i] = segs[i]
    BY <1>6
  <2>5. Len(done[n + 1]) = n + 1 /\ done[n + 1][n + 1] = segs[n + 1]
        /\ \A i \in 1 .. n : done[n + 1][i] = done[n][i]
    BY <2>2, <2>3, <2>4, AppendProperties
  <2>6. \A i \in 1 .. n + 1 : i = n + 1 \/ i \in 1 .. n
    BY <2>1
  <2> QED BY <2>1, <2>4, <2>5, <2>6
<1> HIDE DEF T
<1>7. N \in T
  <2>1. \A n \in 0 .. N : n \in T
    BY <1>4, <1>5, <1>6, InductionUpTo
  <2> QED BY <2>1, <1>4
<1>8. /\ done[N] \in Seq(D) /\ Len(done[N]) = Len(segs)
      /\ \A i \in 1 .. Len(segs) : done[N][i] = segs[i]
  BY <1>2, <1>3, <1>4, <1>7 DEF T
<1>9. done[N] = segs
  BY <1>8, SeqEqual
<1>10. Len(segs) > 0 => Plain(segs[Len(segs)])
  BY <1>1, <1>3, <1>4
<1> QED BY <1>2, <1>3, <1>9, <1>10

-----------------------------------------------------------------------------
(* Paths there and back *)

PlainSegments == {seg \in Segments : Plain(seg)}

\* What is encoded once for the URI is decoded once.
LEMMA EncodingsCancel ==
    ASSUME NEW seg \in Segments
    PROVE  LET coded == encodeURI(seg)
           IN  /\ Plain(coded) <=> Plain(seg)
               /\ Plain(EncodePathname(coded)) <=> Plain(seg)
               /\ coded = Empty <=> seg = Empty
               /\ Plain(seg) => Decode(EncodePathname(coded)) = seg
<1>1. PICK t \in Texts : seg = [text |-> t, escapes |-> 0]
  BY DEF Segments
<1> DEFINE once == [text |-> t, escapes |-> 1]
<1>2. Escape(seg) = once
  <2>1. [[text |-> t, escapes |-> 0] EXCEPT !.escapes = @ + 1] = [text |-> t, escapes |-> 1]
    OBVIOUS
  <2> QED BY <1>1, <2>1 DEF Escape
<1>3. Decode(once) = seg
  <2>1. [[text |-> t, escapes |-> 1] EXCEPT !.escapes = @ - 1] = [text |-> t, escapes |-> 0]
    OBVIOUS
  <2>2. once.escapes > 0
    OBVIOUS
  <2>3. Decode(once) = [once EXCEPT !.escapes = @ - 1]
    BY <2>2 DEF Decode
  <2> QED BY <1>1, <2>1, <2>3
<1>4. once.text = t /\ seg.text = t /\ seg.escapes = 0
  BY <1>1
<1> HIDE DEF once
<1>5. CASE t \in {"space", "percent"}
  <2>1. encodeURI(seg) = once /\ EncodePathname(once) = once
    BY <1>2, <1>4, <1>5 DEF encodeURI, EncodePathname
  <2>2. Plain(once) /\ Plain(seg)
    BY <1>4, <1>5 DEF Plain
  <2>3. Empty.text = ""
    BY DEF Empty
  <2>4. once # Empty /\ seg # Empty
    BY <2>3, <1>4, <1>5
  <2> QED BY <1>3, <2>1, <2>2, <2>4
<1>6. CASE t = "hash"
  <2>1. encodeURI(seg) = seg /\ EncodePathname(seg) = once
    BY <1>2, <1>4, <1>6 DEF encodeURI, EncodePathname
  <2>2. Plain(once) /\ Plain(seg)
    BY <1>4, <1>6 DEF Plain
  <2> QED BY <1>3, <2>1, <2>2
<1>7. CASE t \notin {"space", "percent", "hash"}
  <2>1. encodeURI(seg) = seg /\ EncodePathname(seg) = seg
    BY <1>4, <1>7 DEF encodeURI, EncodePathname
  <2>2. Decode(seg) = seg
    BY <1>4, <1>7 DEF Decode
  <2> QED BY <2>1, <2>2
<1> QED BY <1>5, <1>6, <1>7

\* A slash at the beginning of the pathname is the one that all paths have.
Relative(segs) == IF Len(segs) > 1 /\ segs[1] = Empty THEN Tail(segs) ELSE segs

LEMMA RelativeType ==
    ASSUME NEW S, NEW segs \in Seq(S), segs # <<>>
    PROVE  /\ Relative(segs) \in Seq(S) /\ Relative(segs) # <<>>
           /\ Len(segs) > 1 /\ segs[1] = Empty =>
                /\ Len(Relative(segs)) = Len(segs) - 1
                /\ \A i \in 1 .. Len(segs) - 1 : Relative(segs)[i] = segs[i + 1]
           /\ ~(Len(segs) > 1 /\ segs[1] = Empty) => Relative(segs) = segs
<1>1. Len(segs) \in Nat /\ Len(segs) > 0
  BY EmptySeq, LenProperties
<1>2. CASE Len(segs) > 1 /\ segs[1] = Empty
  <2>1. Relative(segs) = Tail(segs)
    BY <1>2 DEF Relative
  <2>2. /\ Tail(segs) \in Seq(S) /\ Len(Tail(segs)) = Len(segs) - 1
        /\ \A i \in 1 .. Len(Tail(segs)) : Tail(segs)[i] = segs[i + 1]
    BY <1>2, HeadTailProperties
  <2>3. Len(Tail(segs)) # 0
    BY <1>1, <1>2, <2>2
  <2>4. Tail(segs) # <<>>
    BY <2>3, EmptySeq
  <2> QED BY <1>2, <2>1, <2>2, <2>4
<1>3. CASE ~(Len(segs) > 1 /\ segs[1] = Empty)
  BY <1>3 DEF Relative
<1> QED BY <1>2, <1>3

Coded == {encodeURI(seg) : seg \in Segments}

LEMMA CodedSegments ==
    ASSUME NEW segs \in Seq(Segments)
    PROVE  LET coded == Each(encodeURI, segs)
           IN  /\ coded \in Seq(Coded) /\ Len(coded) = Len(segs)
               /\ \A i \in 1 .. Len(segs) : coded[i] = encodeURI(segs[i])
<1> DEFINE coded == Each(encodeURI, segs)
<1>1. coded = [i \in DOMAIN segs |-> encodeURI(segs[i])]
  BY DEF Each
<1> HIDE DEF coded
<1>2. DOMAIN segs = 1 .. Len(segs) /\ \A i \in 1 .. Len(segs) : segs[i] \in Segments
  BY LenProperties, ElementOfSeq
<1>3. \A i \in 1 .. Len(segs) : coded[i] = encodeURI(segs[i]) /\ coded[i] \in Coded
  BY <1>1, <1>2 DEF Coded
<1>4. coded = [i \in DOMAIN segs |-> coded[i]]
  BY <1>1
<1>5. coded \in Seq(Coded) /\ Len(coded) = Len(segs)
  BY <1>3, <1>4, MapIsSeq
<1> QED BY <1>3, <1>5 DEF coded

LEMMA CodedEmpty == Empty \in Coded /\ Empty \in Segments /\ Plain(Empty)
<1>1. Empty \in Segments /\ encodeURI(Empty) = Empty /\ Plain(Empty)
  BY DEF Segments, Texts, Names, Empty, encodeURI, Plain
<1> QED BY <1>1 DEF Coded

\* The path of a URI that is made of resolved segments, as they are encoded, is made
\* of these segments again.
LEMMA UriOfCoded ==
    ASSUME NEW R \in Seq({c \in Coded : Plain(c)})
    PROVE  \E X \in Seq(PlainSegments) :
             /\ uri2path(Each(EncodePathname, R)) = Rooted(X)
             /\ Len(X) = Len(R)
             /\ \A i \in 1 .. Len(R) : X[i] = Decode(EncodePathname(R[i]))
<1> DEFINE u == Each(EncodePathname, R)
           D == {EncodePathname(c) : c \in {c \in Coded : Plain(c)}}
<1>1. DOMAIN R = 1 .. Len(R) /\ \A i \in 1 .. Len(R) : R[i] \in Coded /\ Plain(R[i])
  BY LenProperties, ElementOfSeq
<1>2. u = [i \in DOMAIN R |-> EncodePathname(R[i])]
  BY DEF Each
<1> HIDE DEF u
<1>3. u \in Seq(D) /\ Len(u) = Len(R)
  <2>1. u = [i \in DOMAIN R |-> u[i]] /\ \A i \in 1 .. Len(R) : u[i] \in D
    BY <1>1, <1>2
  <2> HIDE DEF D
  <2> QED BY <2>1, MapIsSeq
<1>4. \A d \in D : Plain(d)
  <2>1. ASSUME NEW c \in Coded, Plain(c) PROVE Plain(EncodePathname(c))
    <3>1. PICK seg \in Segments : c = encodeURI(seg)
      BY DEF Coded
    <3> QED BY <3>1, <2>1, EncodingsCancel
  <2> QED BY <2>1
<1>5. Resolve(u) = u
  <2> HIDE DEF D
  <2> QED BY <1>3, <1>4, ResolveIsIdentity
<1> DEFINE X == Each(Decode, u)
<1>6. uri2path(u) = Rooted(X)
  BY <1>5 DEF uri2path
<1>7. X = [i \in DOMAIN u |-> Decode(u[i])]
  BY DEF Each
<1> HIDE DEF X
<1>8. \A i \in 1 .. Len(R) : X[i] = Decode(EncodePathname(R[i])) /\ X[i] \in PlainSegments
  <2>1. DOMAIN u = 1 .. Len(R)
    BY <1>1, <1>2
  <2>2. ASSUME NEW i \in 1 .. Len(R)
        PROVE  X[i] = Decode(EncodePathname(R[i])) /\ X[i] \in PlainSegments
    <3>1. X[i] = Decode(EncodePathname(R[i]))
      BY <2>1, <1>1, <1>2, <1>7
    <3>2. PICK seg \in Segments : R[i] = encodeURI(seg)
      BY <1>1 DEF Coded
    <3>3. Plain(seg) /\ X[i] = seg
      BY <3>1, <3>2, <1>1, EncodingsCancel
    <3> QED BY <3>1, <3>2, <3>3 DEF PlainSegments
  <2> QED BY <2>2
<1>9. X \in Seq(PlainSegments) /\ Len(X) = Len(R)
  <2>1. X = [i \in DOMAIN R |-> X[i]]
    BY <1>2, <1>7
  <2> QED BY <2>1, <1>8, MapIsSeq
<1> QED BY <1>6, <1>8, <1>9 DEF u

\* Any path comes back as a path with nothing left to resolve.
LEMMA AnyPathBack ==
    ASSUME NEW path \in Seq(Segments), path # <<>>
    PROVE  \E X \in Seq(PlainSegments) :
             X # <<>> /\ uri2path(Pathname(Each(encodeURI, path))) = Rooted(X)
<1> DEFINE coded == Each(encodeURI, path)
           rel == Relative(coded)
           R == Resolve(rel)
           D == {c \in Coded : Plain(c)}
<1>1. coded \in Seq(Coded) /\ Len(coded) = Len(path)
  BY CodedSegments
<1>2. coded # <<>>
  BY <1>1, EmptySeq, LenProperties
<1>3. Pathname(coded) = Each(EncodePathname, R)
  BY DEF Pathname, Relative
<1> HIDE DEF coded
<1>4. rel \in Seq(Coded) /\ rel # <<>>
  BY <1>1, <1>2, RelativeType
<1> HIDE DEF rel
<1>5. R \in Seq(D) /\ R # <<>>
  <2>1. Empty \in D /\ \A i \in 1 .. Len(rel) : Plain(rel[i]) => rel[i] \in D
    BY <1>4, CodedEmpty, ElementOfSeq
  <2> HIDE DEF D
  <2> QED BY <2>1, <1>4, ResolveIsPlain
<1> HIDE DEF R
<1>6. PICK X \in Seq(PlainSegments) :
        uri2path(Each(EncodePathname, R)) = Rooted(X) /\ Len(X) = Len(R)
  BY <1>5, UriOfCoded
<1>7. X # <<>>
  BY <1>5, <1>6, EmptySeq
<1> QED BY <1>3, <1>6, <1>7 DEF coded

\* A path with nothing to resolve comes back as it was, but for its first slash.
LEMMA PlainPathBack ==
    ASSUME NEW path \in Seq(PlainSegments), path # <<>>
    PROVE  uri2path(Pathname(Each(encodeURI, path))) = Rooted(Relative(path))
<1> DEFINE coded == Each(encodeURI, path)
           rel == Relative(coded)
           D == {c \in Coded : Plain(c)}
           Y == Relative(path)
<1>1. /\ path \in Seq(Segments) /\ Len(path) \in Nat /\ Len(path) > 0
      /\ \A i \in 1 .. Len(path) : path[i] \in Segments /\ Plain(path[i])
  <2>1. \A i \in 1 .. Len(path) : path[i] \in Segments /\ Plain(path[i])
    BY ElementOfSeq DEF PlainSegments
  <2>2. path \in Seq(Segments)
    BY DEF PlainSegments
  <2> QED BY <2>1, <2>2, EmptySeq, LenProperties
<1>2. /\ coded \in Seq(Coded) /\ Len(coded) = Len(path)
      /\ \A i \in 1 .. Len(path) : coded[i] = encodeURI(path[i])
  BY <1>1, CodedSegments
<1>3. Pathname(coded) = Each(EncodePathname, Resolve(rel))
  BY DEF Pathname, Relative
<1> HIDE DEF coded
<1>4. coded # <<>>
  BY <1>1, <1>2, EmptySeq
<1>5. coded \in Seq(D)
  <2>1. \A i \in 1 .. Len(path) : coded[i] \in Coded
    BY <1>2, ElementOfSeq
  <2>2. \A i \in 1 .. Len(path) : Plain(coded[i])
    BY <1>1, <1>2, EncodingsCancel
  <2>3. coded = [i \in DOMAIN path |-> coded[i]]
    <3>1. DOMAIN coded = 1 .. Len(coded) /\ DOMAIN path = 1 .. Len(path)
      BY <1>1, <1>2, LenProperties
    <3>2. coded = [i \in DOMAIN coded |-> coded[i]]
      BY <1>2
    <3> QED BY <3>1, <3>2, <1>2
  <2> QED BY <2>1, <2>2, <2>3, <1>1, MapIsSeq
<1>6. coded[1] = Empty <=> path[1] = Empty
  <2>1. 1 \in 1 .. Len(path)
    BY <1>1
  <2> QED BY <2>1, <1>1, <1>2, EncodingsCancel
<1>7. /\ Y \in Seq(PlainSegments) /\ rel \in Seq(D) /\ Len(rel) = Len(Y)
      /\ \A i \in 1 .. Len(Y) : Y[i] \in Segments /\ Plain(Y[i]) /\ rel[i] = encodeURI(Y[i])
  <2> HIDE DEF D
  <2>1. Y \in Seq(PlainSegments) /\ rel \in Seq(D)
    BY <1>4, <1>5, RelativeType
  <2>2. CASE Len(path) > 1 /\ path[1] = Empty
    <3>1. /\ Len(Y) = Len(path) - 1
          /\ \A i \in 1 .. Len(path) - 1 : Y[i] = path[i + 1]
      BY <2>2, <1>1, RelativeType
    <3>2. /\ Len(rel) = Len(coded) - 1
          /\ \A i \in 1 .. Len(coded) - 1 : rel[i] = coded[i + 1]
      BY <2>2, <1>2, <1>4, <1>6, RelativeType
    <3> HIDE DEF Y, rel
    <3>3. ASSUME NEW i \in 1 .. Len(Y)
          PROVE  Y[i] \in Segments /\ Plain(Y[i]) /\ rel[i] = encodeURI(Y[i])
      <4>1. i \in 1 .. Len(path) - 1 /\ i + 1 \in 1 .. Len(path)
        BY <1>1, <3>1
      <4>2. Y[i] = path[i + 1] /\ rel[i] = coded[i + 1]
        BY <4>1, <1>2, <3>1, <3>2
      <4> QED BY <4>1, <4>2, <1>1, <1>2
    <3> QED BY <2>1, <3>1, <3>2, <3>3, <1>2
  <2>3. CASE ~(Len(path) > 1 /\ path[1] = Empty)
    <3>1. Y = path /\ rel = coded
      BY <2>3, <1>1, <1>2, <1>4, <1>6, RelativeType
    <3> HIDE DEF Y, rel
    <3> QED BY <2>1, <3>1, <1>1, <1>2
  <2> QED BY <2>2, <2>3
<1> HIDE DEF rel, Y
<1>8. Resolve(rel) = rel
  <2>1. \A d \in D : Plain(d)
    OBVIOUS
  <2> HIDE DEF D
  <2> QED BY <2>1, <1>7, ResolveIsIdentity
<1>9. PICK X \in Seq(PlainSegments) :
        /\ uri2path(Each(EncodePathname, rel)) = Rooted(X)
        /\ Len(X) = Len(rel)
        /\ \A i \in 1 .. Len(rel) : X[i] = Decode(EncodePathname(rel[i]))
  BY <1>7, UriOfCoded
<1>10. X = Y
  <2>1. ASSUME NEW i \in 1 .. Len(Y) PROVE X[i] = Y[i]
    <3>1. X[i] = Decode(EncodePathname(encodeURI(Y[i])))
      BY <1>7, <1>9
    <3> QED BY <3>1, <1>7, EncodingsCancel
  <2> QED BY <2>1, <1>7, <1>9, SeqEqual
<1> QED BY <1>3, <1>8, <1>9, <1>10 DEF coded, Y

\* The drive of a path that goes to the debugger of a Windows host.
Lowered(path) == IF win32 THEN [path EXCEPT ![1] = Lower(@)] ELSE path

LEMMA EmptyIsNoDrive == ~IsDrive(Empty) /\ Lower(Empty) = Empty
<1>1. Empty.text = ""
  BY DEF Empty
<1> QED BY <1>1 DEF IsDrive, Lower

LEMMA LowerFacts ==
    ASSUME NEW seg \in Segments
    PROVE  /\ Lower(seg) \in Segments /\ Lower(Lower(seg)) = Lower(seg)
           /\ Plain(seg) => Plain(Lower(seg))
           /\ IsDrive(seg) => Lower(seg).text = "c:" /\ IsDrive(Lower(seg)) /\ Lower(seg) # Empty
           /\ seg.text # "C:" => Lower(seg) = seg
<1>1. PICK t \in Texts : seg = [text |-> t, escapes |-> 0]
  BY DEF Segments
<1>2. [[text |-> t, escapes |-> 0] EXCEPT !.text = "c:"] = [text |-> "c:", escapes |-> 0]
  OBVIOUS
<1>3. [text |-> "c:", escapes |-> 0] \in Segments
  BY DEF Segments, Texts
<1>4. CASE t = "C:"
  <2>1. Lower(seg) = [text |-> "c:", escapes |-> 0]
    BY <1>1, <1>2, <1>4 DEF Lower
  <2> QED BY <2>1, <1>1, <1>3, <1>4 DEF Lower, Plain, IsDrive, Empty
<1>5. CASE t # "C:"
  <2>1. Lower(seg) = seg /\ seg.text = t
    BY <1>1, <1>5 DEF Lower
  <2>2. IsDrive(seg) => seg.text = "c:"
    BY <2>1, <1>5 DEF IsDrive
  <2>3. IsDrive(seg) => seg # Empty
    BY EmptyIsNoDrive
  <2> QED BY <2>1, <2>2, <2>3, <1>5
<1> QED BY <1>4, <1>5

LEMMA LoweredType ==
    ASSUME NEW S, S \subseteq Segments, \A s \in S : Lower(s) \in S,
           NEW path \in Seq(S), path # <<>>
    PROVE  /\ Lowered(path) \in Seq(S) /\ Lowered(path) # <<>>
           /\ win32 => Lowered(path)[1] = Lower(path[1])
           /\ (win32 => Lower(path[1]) = path[1]) => Lowered(path) = path
<1>1. Len(path) \in Nat /\ Len(path) > 0 /\ 1 \in 1 .. Len(path)
      /\ DOMAIN path = 1 .. Len(path) /\ \A i \in 1 .. Len(path) : path[i] \in S
  BY EmptySeq, LenProperties, ElementOfSeq
<1>2. CASE win32
  <2> DEFINE t == [path EXCEPT ![1] = Lower(@)]
  <2>1. t = [i \in DOMAIN path |-> IF i = 1 THEN Lower(path[1]) ELSE path[i]]
    OBVIOUS
  <2>2. /\ t = [i \in DOMAIN path |-> t[i]] /\ t[1] = Lower(path[1])
        /\ \A i \in 1 .. Len(path) : t[i] \in S
    BY <2>1, <1>1
  <2> HIDE DEF t
  <2>3. t \in Seq(S) /\ Len(t) = Len(path)
    BY <2>2, MapIsSeq
  <2>4. t # <<>>
    BY <2>3, <1>1, EmptySeq
  <2>5. Lower(path[1]) = path[1] => t = path
    <3>1. ASSUME Lower(path[1]) = path[1] PROVE t = path
      <4>1. \A i \in 1 .. Len(path) : t[i] = path[i]
        BY <3>1, <2>1, <1>1
      <4> QED BY <4>1, <2>3, SeqEqual
    <3> QED BY <3>1
  <2>6. Lowered(path) = t
    BY <1>2 DEF Lowered, t
  <2> QED BY <1>2, <2>2, <2>3, <2>4, <2>5, <2>6
<1>3. CASE ~win32
  BY <1>3 DEF Lowered
<1> QED BY <1>2, <1>3

LEMMA PathToUri ==
    ASSUME NEW path
    PROVE  path2uri(path) = Pathname(Each(encodeURI, Lowered(path)))
  BY DEF path2uri, Lowered

\* What comes back begins with a drive in lower case or with a slash.
LEMMA RootedFacts ==
    ASSUME NEW X \in Seq(PlainSegments), X # <<>>
    PROVE  /\ Rooted(X) \in Seq(PlainSegments) /\ Rooted(X) # <<>>
           /\ win32 => Lower(Rooted(X)[1]) = Rooted(X)[1]
           /\ Rooted(Relative(Rooted(X))) = Rooted(X)
<1>1. Len(X) \in Nat /\ Len(X) > 0 /\ X[1] \in PlainSegments
  <2>1. Len(X) \in Nat /\ Len(X) > 0
    BY EmptySeq, LenProperties
  <2> QED BY <2>1, ElementOfSeq
<1>2. PlainSegments \subseteq Segments /\ \A s \in PlainSegments : Lower(s) \in PlainSegments
  BY LowerFacts DEF PlainSegments
<1>3. CASE win32 /\ IsDrive(X[1])
  <2>1. Rooted(X) = Lowered(X)
    BY <1>3 DEF Rooted, Lowered
  <2>2. /\ Rooted(X) \in Seq(PlainSegments) /\ Rooted(X) # <<>>
        /\ Rooted(X)[1] = Lower(X[1])
    BY <2>1, <1>2, <1>3, LoweredType
  <2>3. /\ Lower(Rooted(X)[1]) = Rooted(X)[1] /\ IsDrive(Rooted(X)[1])
        /\ Rooted(X)[1] # Empty
    BY <2>2, <1>1, <1>2, <1>3, LowerFacts
  <2>4. Relative(Rooted(X)) = Rooted(X)
    BY <2>2, <2>3, RelativeType
  <2>5. Rooted(Rooted(X)) = Lowered(Rooted(X))
    BY <2>3, <1>3 DEF Rooted, Lowered
  <2>6. Lowered(Rooted(X)) = Rooted(X)
    BY <2>2, <2>3, <1>2, LoweredType
  <2> QED BY <2>2, <2>3, <2>4, <2>5, <2>6
<1>4. CASE ~(win32 /\ IsDrive(X[1]))
  <2> DEFINE Y == <<Empty>> \o X
  <2>1. Rooted(X) = Y
    BY <1>4 DEF Rooted
  <2>2. Empty \in PlainSegments
    BY CodedEmpty DEF PlainSegments
  <2>3. /\ Y \in Seq(PlainSegments) /\ Len(Y) = 1 + Len(X)
        /\ \A i \in 1 .. 1 + Len(X) : Y[i] = IF i <= 1 THEN <<Empty>>[i] ELSE X[i - 1]
    <3>1. <<Empty>> \in Seq(PlainSegments) /\ Len(<<Empty>>) = 1
      BY <2>2
    <3> QED BY <3>1, ConcatProperties
  <2> HIDE DEF Y
  <2>4. Y # <<>> /\ Y[1] = Empty /\ Len(Y) > 1
    <3>1. Len(Y) # 0
      BY <1>1, <2>3
    <3> QED BY <3>1, <1>1, <2>3, EmptySeq
  <2>5. Relative(Y) = X
    <3>1. /\ Relative(Y) \in Seq(PlainSegments)
          /\ Len(Relative(Y)) = Len(Y) - 1
          /\ \A i \in 1 .. Len(Y) - 1 : Relative(Y)[i] = Y[i + 1]
      BY <2>3, <2>4, RelativeType
    <3>2. ASSUME NEW i \in 1 .. Len(X) PROVE Relative(Y)[i] = X[i]
      <4>1. i \in 1 .. Len(Y) - 1 /\ i + 1 \in 1 .. 1 + Len(X) /\ ~(i + 1 <= 1)
            /\ (i + 1) - 1 = i
        BY <1>1, <2>3
      <4> QED BY <4>1, <2>3, <3>1
    <3>3. Len(Relative(Y)) = Len(X)
      BY <1>1, <2>3, <3>1
    <3> QED BY <3>1, <3>2, <3>3, SeqEqual
  <2> QED BY <2>1, <2>3, <2>4, <2>5, EmptyIsNoDrive
<1> QED BY <1>3, <1>4

\* The path that has come back once stays the same.
LEMMA BackStays ==
    ASSUME NEW X \in Seq(PlainSegments), X # <<>>
    PROVE  uri2path(path2uri(Rooted(X))) = Rooted(X)
<1>1. /\ Rooted(X) \in Seq(PlainSegments) /\ Rooted(X) # <<>>
      /\ win32 => Lower(Rooted(X)[1]) = Rooted(X)[1]
      /\ Rooted(Relative(Rooted(X))) = Rooted(X)
  BY RootedFacts
<1>2. PlainSegments \subseteq Segments /\ \A s \in PlainSegments : Lower(s) \in PlainSegments
  BY LowerFacts DEF PlainSegments
<1>3. Lowered(Rooted(X)) = Rooted(X)
  BY <1>1, <1>2, LoweredType
<1> QED BY <1>1, <1>3, PathToUri, PlainPathBack

LEMMA CanonicalComesBack ==
    ASSUME NEW path \in Seq(Segments), path # <<>>, Canonical(path)
    PROVE  uri2path(path2uri(path)) = path
<1>1. Len(path) \in Nat /\ Len(path) > 0 /\ 1 \in 1 .. Len(path)
      /\ DOMAIN path = 1 .. Len(path) /\ \A i \in 1 .. Len(path) : path[i] \in Segments
  BY EmptySeq, LenProperties, ElementOfSeq
<1>2. path \in Seq(PlainSegments)
  <2>1. \A i \in 1 .. Len(path) : path[i] \in PlainSegments
    BY <1>1 DEF Canonical, PlainSegments, Plain
  <2>2. path = [i \in DOMAIN path |-> path[i]]
    BY <1>1
  <2> QED BY <2>1, <2>2, MapIsSeq
<1>3. PlainSegments \subseteq Segments /\ \A s \in PlainSegments : Lower(s) \in PlainSegments
  BY LowerFacts DEF PlainSegments
<1>4. CASE win32 /\ path[1].text = "c:"
  <2>1. Lower(path[1]) = path[1] /\ IsDrive(path[1]) /\ path[1] # Empty
    <3>1. IsDrive(path[1]) /\ Lower(path[1]) = path[1]
      BY <1>4 DEF Lower, IsDrive
    <3> QED BY <3>1, EmptyIsNoDrive
  <2>2. Lowered(path) = path
    BY <2>1, <1>2, <1>3, LoweredType
  <2>3. Relative(path) = path
    BY <2>1, <1>2, RelativeType
  <2>4. Rooted(path) = Lowered(path)
    BY <2>1, <1>4 DEF Rooted, Lowered
  <2> QED BY <2>2, <2>3, <2>4, <1>2, PathToUri, PlainPathBack
<1>5. CASE path[1] = Empty /\ Len(path) > 1
  <2>1. Lower(path[1]) = path[1]
    BY <1>5, EmptyIsNoDrive
  <2>2. Lowered(path) = path
    BY <2>1, <1>2, <1>3, LoweredType
  <2> DEFINE X == Relative(path)
  <2>3. /\ X \in Seq(PlainSegments) /\ X # <<>> /\ Len(X) = Len(path) - 1
        /\ \A i \in 1 .. Len(path) - 1 : X[i] = path[i + 1]
    BY <1>2, <1>5, RelativeType
  <2> HIDE DEF X
  <2>4. X[1] = path[2]
    <3>1. 1 \in 1 .. Len(path) - 1 /\ 1 + 1 = 2
      BY <1>1, <1>5
    <3> QED BY <3>1, <2>3
  <2>5. ~(win32 /\ IsDrive(X[1]))
    BY <2>4, <1>5 DEF Canonical
  <2>6. Rooted(X) = <<Empty>> \o X
    BY <2>5 DEF Rooted
  <2>7. <<Empty>> \o X = path
    <3>1. <<Empty>> \in Seq(PlainSegments) /\ Len(<<Empty>>) = 1 /\ <<Empty>>[1] = Empty
      BY CodedEmpty DEF PlainSegments
    <3>2. /\ <<Empty>> \o X \in Seq(PlainSegments)
          /\ Len(<<Empty>> \o X) = 1 + Len(X)
          /\ \A i \in 1 .. 1 + Len(X) :
               (<<Empty>> \o X)[i] = IF i <= 1 THEN <<Empty>>[i] ELSE X[i - 1]
      BY <3>1, <2>3, ConcatProperties
    <3>3. Len(<<Empty>> \o X) = Len(path)
      BY <3>2, <2>3, <1>1
    <3>4. ASSUME NEW i \in 1 .. Len(path) PROVE (<<Empty>> \o X)[i] = path[i]
      <4>1. CASE i = 1
        BY <4>1, <3>1, <3>2, <2>3, <1>1, <1>5
      <4>2. CASE i # 1
        <5>1. i - 1 \in 1 .. Len(path) - 1 /\ i \in 1 .. 1 + Len(X) /\ ~(i <= 1)
              /\ (i - 1) + 1 = i
          BY <4>2, <2>3, <1>1
        <5> QED BY <5>1, <3>2, <2>3
      <4> QED BY <4>1, <4>2
    <3> QED BY <3>2, <3>3, <3>4, <1>2, SeqEqual
  <2>8. uri2path(Pathname(Each(encodeURI, path))) = Rooted(X)
    BY <1>2, PlainPathBack DEF X
  <2> QED BY <2>2, <2>6, <2>7, <2>8, PathToUri
<1> QED BY <1>4, <1>5 DEF Canonical

\* A canonical path of the client comes back from the debugger as it was, whatever
\* its segments are, and any other path in a form that then stays the same
\* (debugSession.ts, convertClientPathToDebugger and convertDebuggerPathToClient).
THEOREM PathsAlwaysComeBack == ConversionSpec => []PathsComeBack
<1>1. ConversionTypeOK => PathsComeBack
  <2> SUFFICES ASSUME ConversionTypeOK, NEW path \in Paths
               PROVE  LET back == ThereAndBack(path)
                      IN  /\ Canonical(path) => back = path
                          /\ ThereAndBack(back) = back
    BY DEF PathsComeBack
  <2>1. path \in Seq(Segments) /\ path # <<>>
    BY ConversionAssumption
  <2>2. client.uris = FALSE /\ debugger.uris \in BOOLEAN
    BY DEF ConversionTypeOK, Flags
  <2>3. CASE debugger.uris = FALSE
    <3>1. ASSUME NEW p PROVE ThereAndBack(p) = p
      BY <2>2, <2>3 DEF ThereAndBack, convertClientPathToDebugger, convertDebuggerPathToClient
    <3> QED BY <3>1
  <2>4. CASE debugger.uris = TRUE
    <3>1. ASSUME NEW p PROVE ThereAndBack(p) = uri2path(path2uri(p))
      BY <2>2, <2>4 DEF ThereAndBack, convertClientPathToDebugger, convertDebuggerPathToClient
    <3>2. Canonical(path) => ThereAndBack(path) = path
      BY <2>1, <3>1, CanonicalComesBack
    <3>3. Lowered(path) \in Seq(Segments) /\ Lowered(path) # <<>>
      BY <2>1, LowerFacts, LoweredType
    <3>4. PICK X \in Seq(PlainSegments) : X # <<>> /\ ThereAndBack(path) = Rooted(X)
      BY <3>1, <3>3, AnyPathBack, PathToUri
    <3>5. ThereAndBack(ThereAndBack(path)) = ThereAndBack(path)
      BY <3>1, <3>4, BackStays
    <3> QED BY <3>2, <3>5
  <2> QED BY <2>2, <2>3, <2>4
<1> QED BY <1>1, ConversionTypeCorrect, PTL

-----------------------------------------------------------------------------
(* The output assertion *)

Text == Seq(STRING)

\* The events have brought what was printed, and the verdict is about that.
Judged ==
    /\ output \in Text /\ expected \in Text
    /\ heard = output
    /\ verdict \in {"pending", "resolved", "rejected", "timeout"}
    /\ CutsDoNotMatter

-----------------------------------------------------------------------------
(* Prefixes of texts *)

LEMMA PrefixBySymbols ==
  ASSUME NEW s \in Text, NEW t \in Text
  PROVE  IsPrefix(s, t) <=> Len(s) <= Len(t) /\ \A i \in 1 .. Len(s) : s[i] = t[i]
<1> DEFINE n == Len(s)
           a == SubSeq(s, 1, n)
           b == SubSeq(t, 1, n)
<1>1. /\ n \in Nat /\ Len(t) \in Nat /\ n \in Int /\ 1 \in Int
      /\ \A i \in 1 .. n : s[i] \in STRING
      /\ \A i \in 1 .. Len(t) : t[i] \in STRING
  BY LenProperties, ElementOfSeq DEF Text
<1> HIDE DEF n
<1>2. ASSUME n <= Len(t) PROVE a = b <=> \A i \in 1 .. n : s[i] = t[i]
  <2>1. \A i \in 1 .. n : t[i] \in STRING
    BY <1>1, <1>2
  <2>2. /\ a \in Seq(STRING) /\ Len(a) = (IF 1 <= n THEN n - 1 + 1 ELSE 0)
        /\ \A i \in 1 .. n - 1 + 1 : a[i] = s[1 + i - 1]
    BY ONLY <1>1, SubSeqProperties
  <2>3. /\ b \in Seq(STRING) /\ Len(b) = (IF 1 <= n THEN n - 1 + 1 ELSE 0)
        /\ \A i \in 1 .. n - 1 + 1 : b[i] = t[1 + i - 1]
    BY ONLY <1>1, <2>1, SubSeqProperties
  <2> HIDE DEF a, b
  <2>4. /\ Len(a) = n /\ Len(b) = n
        /\ \A i \in 1 .. n : a[i] = s[i] /\ b[i] = t[i]
    <3>1. Len(a) = n /\ Len(b) = n
      BY <1>1, <2>2, <2>3
    <3>2. ASSUME NEW i \in 1 .. n PROVE a[i] = s[i] /\ b[i] = t[i]
      <4>1. i \in 1 .. n - 1 + 1 /\ 1 + i - 1 = i
        BY <1>1
      <4> QED BY <2>2, <2>3, <4>1
    <3> QED BY <3>1, <3>2
  <2>5. (\A i \in 1 .. n : a[i] = b[i]) => a = b
    BY <2>2, <2>3, <2>4, SeqEqual
  <2> QED BY <2>4, <2>5
<1> QED BY <1>2 DEF IsPrefix, n, a, b

\* What more text does to prefixes.
LEMMA MoreText ==
  ASSUME NEW e \in Text, NEW t \in Text, NEW piece \in Text
  PROVE  /\ t \o piece \in Text
         /\ IsPrefix(e, t) => IsPrefix(e, t \o piece)
         /\ IsPrefix(t \o piece, e) => IsPrefix(t, e)
         /\ IsPrefix(e, t \o piece) => IsPrefix(e, t) \/ IsPrefix(t, e)
<1> DEFINE u == t \o piece
<1>1. /\ Len(e) \in Nat /\ Len(t) \in Nat /\ Len(piece) \in Nat
      /\ u \in Text /\ Len(u) = Len(t) + Len(piece)
      /\ \A i \in 1 .. Len(t) + Len(piece) :
           u[i] = IF i <= Len(t) THEN t[i] ELSE piece[i - Len(t)]
  BY ConcatProperties, LenProperties DEF Text
<1> HIDE DEF u
<1>2. Len(t) <= Len(u) /\ \A i \in 1 .. Len(t) : u[i] = t[i]
  BY <1>1
<1> DEFINE Begins(x, y) == Len(x) <= Len(y) /\ \A i \in 1 .. Len(x) : x[i] = y[i]
<1>p. /\ IsPrefix(e, t) <=> Begins(e, t)
      /\ IsPrefix(e, u) <=> Begins(e, u)
      /\ IsPrefix(u, e) <=> Begins(u, e)
      /\ IsPrefix(t, e) <=> Begins(t, e)
  BY <1>1, PrefixBySymbols
<1>3. IsPrefix(e, t) => IsPrefix(e, u)
  <2> SUFFICES ASSUME Begins(e, t) PROVE Begins(e, u)
    BY <1>p
  <2>1. Len(e) <= Len(u) /\ \A i \in 1 .. Len(e) : i \in 1 .. Len(t)
    BY <1>1, <1>2
  <2> QED BY <2>1, <1>2
<1>4. IsPrefix(u, e) => IsPrefix(t, e)
  <2> SUFFICES ASSUME Begins(u, e) PROVE Begins(t, e)
    BY <1>p
  <2>1. Len(t) <= Len(e) /\ \A i \in 1 .. Len(t) : i \in 1 .. Len(u)
    BY <1>1, <1>2
  <2> QED BY <2>1, <1>2
<1>5. IsPrefix(e, u) => IsPrefix(e, t) \/ IsPrefix(t, e)
  <2> SUFFICES ASSUME Begins(e, u) PROVE Begins(e, t) \/ Begins(t, e)
    BY <1>p
  <2>1. CASE Len(e) <= Len(t)
    <3>1. \A i \in 1 .. Len(e) : i \in 1 .. Len(t)
      BY <2>1, <1>1
    <3>2. Begins(e, t)
      BY <2>1, <3>1, <1>2
    <3> QED BY <3>2
  <2>2. CASE ~(Len(e) <= Len(t))
    <3>1. Len(t) <= Len(e) /\ \A i \in 1 .. Len(t) : i \in 1 .. Len(e)
      BY <2>2, <1>1
    <3>2. Begins(t, e)
      BY <3>1, <1>2
    <3> QED BY <3>2
  <2> QED BY <2>1, <2>2
<1> QED BY <1>1, <1>3, <1>4, <1>5 DEF u

-----------------------------------------------------------------------------
(* The assertion *)

LEMMA JudgedOnOutput ==
  ASSUME Judged, NEW piece \in Text, OnOutput(piece)
  PROVE  Judged'
<1>1. /\ output \in Text /\ expected \in Text /\ heard = output
      /\ output' = output \o piece /\ heard' = output \o piece /\ UNCHANGED expected
  BY DEF Judged, OnOutput
<1>2. /\ output' \in Text
      /\ IsPrefix(expected, output) => IsPrefix(expected, output')
      /\ IsPrefix(output', expected) => IsPrefix(output, expected)
      /\ IsPrefix(expected, output') => IsPrefix(expected, output) \/ IsPrefix(output, expected)
  BY <1>1, MoreText
<1>3. verdict # "timeout" =>
        verdict = IF IsPrefix(expected, output) THEN "resolved"
                  ELSE IF IsPrefix(output, expected) THEN "pending" ELSE "rejected"
  BY <1>1 DEF Judged, CutsDoNotMatter, Judgement
<1>4. verdict' # "timeout" =>
        verdict' = IF IsPrefix(expected, output') THEN "resolved"
                   ELSE IF IsPrefix(output', expected) THEN "pending" ELSE "rejected"
  BY <1>2, <1>3 DEF OnOutput, Settle, StartsWith
<1>5. verdict' \in {"pending", "resolved", "rejected", "timeout"}
  BY DEF Judged, OnOutput, Settle
<1> QED BY <1>1, <1>2, <1>4, <1>5 DEF Judged, CutsDoNotMatter, Judgement

LEMMA JudgedStep == Judged /\ [OutputNext]_outputVars => Judged'
<1> SUFFICES ASSUME Judged, [OutputNext]_outputVars PROVE Judged'
  OBVIOUS
<1>1. CASE UNCHANGED outputVars
  BY <1>1 DEF outputVars, Judged, CutsDoNotMatter, Judgement
<1>2. CASE OutputTimeout
  BY <1>2 DEF OutputTimeout, Settle, Judged, CutsDoNotMatter, Judgement
<1>3. ASSUME NEW piece \in Pieces, OnOutput(piece) PROVE Judged'
  BY <1>3, OutputAssumption, JudgedOnOutput DEF Text
<1> QED BY <1>1, <1>2, <1>3 DEF OutputNext

LEMMA JudgedStarts == OutputInit => Judged
<1> SUFFICES ASSUME OutputInit PROVE Judged
  OBVIOUS
<1>1. /\ expected \in Text /\ expected # <<>>
      /\ output = <<>> /\ heard = <<>> /\ verdict = "pending" /\ output \in Text
  BY OutputAssumption, EmptySeq DEF OutputInit, Text
<1>2. /\ Len(output) = 0 /\ Len(expected) \in Nat /\ Len(expected) # 0
  BY <1>1, EmptySeq, LenProperties DEF Text
<1>3. ~ IsPrefix(expected, output) /\ IsPrefix(output, expected)
  BY <1>1, <1>2, PrefixBySymbols
<1> QED BY <1>1, <1>3 DEF Judged, CutsDoNotMatter, Judgement

\* What assertOutput decides depends on the text printed and on nothing else: not on
\* how it was cut into events, and not on what is printed after the decision
\* (debugClient.ts:413-427).
THEOREM OutputIsJudged == OutputSpec => []CutsDoNotMatter
<1>1. Judged => CutsDoNotMatter
  BY DEF Judged
<1> QED BY <1>1, JudgedStarts, JudgedStep, PTL DEF OutputSpec
=============================================================================
