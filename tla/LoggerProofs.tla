---------------------------- MODULE LoggerProofs ----------------------------
(***************************************************************************)
(* Proofs about Logger, for any number of sessions, lines, setups and      *)
(* disposals: what clients are shown and what log files hold is in order   *)
(* and complete, errors arrive once, and no log file is forgotten: it was  *)
(* ended or replaced, or a logger registered with the process has it.      *)
(***************************************************************************)
EXTENDS Logger, Recursion, FiniteSetTheorems, TLAPS

-----------------------------------------------------------------------------
(* What InternalLogger.log hands over *)

\* The sequence t is made of the first n lines that pass, in their order, each once.
PartOf(t, lines, n, min) ==
    \E g \in [1 .. Len(t) -> 1 .. n] :
       /\ \A i \in 1 .. Len(t) : t[i] = lines[g[i]] /\ Passes(lines[g[i]], min)
       /\ \A i, j \in 1 .. Len(t) : i < j => g[i] < g[j]
       /\ \A k \in 1 .. n : Passes(lines[k], min) => \E i \in 1 .. Len(t) : g[i] = k

LEMMA ShownEquation ==
  ASSUME NEW S, NEW lines \in Seq(S), NEW min
  PROVE  \E f : /\ Shown(lines, min) = f[Len(lines)]
                /\ f[0] = <<>>
                /\ \A i \in 1 .. Len(lines) :
                     f[i] = IF Passes(lines[i], min) THEN Append(f[i - 1], lines[i])
                                                     ELSE f[i - 1]
<1> DEFINE N == Len(lines)
           step == [p \in (1 .. N) \X Seq(S) |->
                      IF Passes(lines[p[1]], min) THEN Append(p[2], lines[p[1]]) ELSE p[2]]
           equation(f) == f = [i \in 0 .. N |->
                                 IF i = 0 THEN <<>>
                                 ELSE IF Passes(lines[i], min) THEN Append(f[i - 1], lines[i])
                                                               ELSE f[i - 1]]
           shown == CHOOSE f : equation(f)
<1>1. N \in Nat /\ <<>> \in Seq(S) /\ \A i \in 1 .. N : lines[i] \in S
  BY LenProperties, EmptySeq, ElementOfSeq
<1>0. Shown(lines, min) = shown[N]
  BY DEF Shown
<1> HIDE DEF N
<1>2. step \in [(1 .. N) \X Seq(S) -> Seq(S)]
  <2>1. ASSUME NEW p \in (1 .. N) \X Seq(S)
        PROVE  (IF Passes(lines[p[1]], min) THEN Append(p[2], lines[p[1]]) ELSE p[2]) \in Seq(S)
    <3>1. p[2] \in Seq(S) /\ lines[p[1]] \in S
      BY <1>1
    <3>2. Append(p[2], lines[p[1]]) \in Seq(S)
      BY <3>1, AppendProperties
    <3> QED BY <3>1, <3>2
  <2> QED BY <2>1
<1> DEFINE V == Seq(S)
           none == <<>>
<1>3. PICK h : Unfolds(h, N, V, none, step)
  <2>1. N \in Nat /\ none \in V /\ step \in [(1 .. N) \X V -> V]
    BY <1>1, <1>2
  <2> HIDE DEF step, V, none
  <2> QED BY ONLY <2>1, RecursiveFunction, Zenon
<1>4. ASSUME NEW i \in 1 .. N
      PROVE  h[i] = IF Passes(lines[i], min) THEN Append(h[i - 1], lines[i]) ELSE h[i - 1]
  <2>1. i - 1 \in 0 .. N
    BY <1>1
  <2>2. <<i, h[i - 1]>> \in (1 .. N) \X Seq(S)
    BY <1>3, <2>1 DEF Unfolds
  <2> QED BY <1>3, <2>2 DEF Unfolds
<1> HIDE DEF step
<1>5. equation(h)
  <2>1. \A i \in 0 .. N : i = 0 \/ i \in 1 .. N
    BY <1>1
  <2> QED BY <1>3, <1>4, <2>1 DEF Unfolds
<1>6. equation(shown)
  <2> HIDE DEF equation
  <2> QED BY <1>5
<1> HIDE DEF shown
<1>7. 0 \in 0 .. N /\ \A i \in 1 .. N : i \in 0 .. N /\ i # 0
  BY <1>1
<1> QED BY <1>0, <1>6, <1>7 DEF N

LEMMA ShownIsPart ==
  ASSUME NEW S, NEW lines \in Seq(S), NEW min
  PROVE  Shown(lines, min) \in Seq(S) /\ PartOf(Shown(lines, min), lines, Len(lines), min)
<1>1. PICK f : /\ Shown(lines, min) = f[Len(lines)]
               /\ f[0] = <<>>
               /\ \A i \in 1 .. Len(lines) :
                    f[i] = IF Passes(lines[i], min) THEN Append(f[i - 1], lines[i]) ELSE f[i - 1]
  BY ShownEquation
<1> DEFINE N == Len(lines)
           T == {n \in 0 .. N : f[n] \in Seq(S) /\ PartOf(f[n], lines, n, min)}
<1>2. N \in Nat /\ \A i \in 1 .. N : lines[i] \in S
  BY LenProperties, ElementOfSeq
<1> HIDE DEF N
<1>3. 0 \in T
  <2>1. <<>> \in Seq(S) /\ Len(<<>>) = 0 /\ 0 \in 0 .. N
    BY <1>2, EmptySeq
  <2>2. PartOf(<<>>, lines, 0, min)
    <3> DEFINE g == [i \in 1 .. 0 |-> 0]
    <3>1. g \in [1 .. Len(<<>>) -> 1 .. 0]
      BY <2>1
    <3> HIDE DEF g
    <3> SUFFICES \E h \in [1 .. Len(<<>>) -> 1 .. 0] :
           /\ \A i \in 1 .. Len(<<>>) : <<>>[i] = lines[h[i]] /\ Passes(lines[h[i]], min)
           /\ \A i, j \in 1 .. Len(<<>>) : i < j => h[i] < h[j]
           /\ \A k \in 1 .. 0 : Passes(lines[k], min) => \E i \in 1 .. Len(<<>>) : h[i] = k
      BY DEF PartOf
    <3> WITNESS g \in [1 .. Len(<<>>) -> 1 .. 0]
    <3> QED BY <2>1
  <2>3. f[0] \in Seq(S) /\ PartOf(f[0], lines, 0, min)
    BY <1>1, <2>1, <2>2
  <2> QED BY <2>1, <2>3
<1>4. ASSUME NEW n \in 0 .. N - 1, n \in T PROVE n + 1 \in T
  <2> DEFINE t == f[n]
             u == f[n + 1]
  <2>1. /\ n \in Nat /\ n + 1 \in 1 .. N /\ n + 1 \in 0 .. N /\ (n + 1) - 1 = n
        /\ t \in Seq(S) /\ lines[n + 1] \in S /\ Len(t) \in Nat
    BY <1>2, <1>4, LenProperties
  <2>2. u = IF Passes(lines[n + 1], min) THEN Append(t, lines[n + 1]) ELSE t
    BY <1>1, <2>1 DEF N
  <2>3. PICK g \in [1 .. Len(t) -> 1 .. n] :
          /\ \A i \in 1 .. Len(t) : t[i] = lines[g[i]] /\ Passes(lines[g[i]], min)
          /\ \A i, j \in 1 .. Len(t) : i < j => g[i] < g[j]
          /\ \A k \in 1 .. n : Passes(lines[k], min) => \E i \in 1 .. Len(t) : g[i] = k
    BY <1>4 DEF PartOf
  <2> HIDE DEF t, u
  <2>4. u \in Seq(S) /\ PartOf(u, lines, n + 1, min)
    <3>1. CASE ~ Passes(lines[n + 1], min)
      <4>1. u = t /\ g \in [1 .. Len(t) -> 1 .. n + 1]
        BY <2>1, <2>2, <3>1
      <4>2. \A k \in 1 .. n + 1 : Passes(lines[k], min) => k \in 1 .. n
        BY <2>1, <3>1
      <4>3. \A k \in 1 .. n + 1 : Passes(lines[k], min) => \E i \in 1 .. Len(t) : g[i] = k
        BY <2>3, <4>2
      <4>4. /\ \A i \in 1 .. Len(t) : t[i] = lines[g[i]] /\ Passes(lines[g[i]], min)
            /\ \A i, j \in 1 .. Len(t) : i < j => g[i] < g[j]
        BY <2>3
      <4>5. PartOf(t, lines, n + 1, min)
        BY ONLY <4>1, <4>3, <4>4, Zenon DEF PartOf
      <4> QED BY <2>1, <4>1, <4>5
    <3>2. CASE Passes(lines[n + 1], min)
      <4>1. /\ u \in Seq(S) /\ Len(u) = Len(t) + 1 /\ u[Len(t) + 1] = lines[n + 1]
            /\ \A i \in 1 .. Len(t) : u[i] = t[i]
        BY <2>1, <2>2, <3>2, AppendProperties
      <4> DEFINE k == [i \in 1 .. Len(u) |-> IF i = Len(t) + 1 THEN n + 1 ELSE g[i]]
      <4>2. \A i \in 1 .. Len(u) : i = Len(t) + 1 \/ i \in 1 .. Len(t)
        BY <2>1, <4>1
      <4>3. /\ k \in [1 .. Len(u) -> 1 .. n + 1] /\ k[Len(t) + 1] = n + 1
            /\ \A i \in 1 .. Len(t) : i \in 1 .. Len(u) /\ k[i] = g[i] /\ g[i] \in 1 .. n
            /\ Len(t) + 1 \in 1 .. Len(u)
        <5>1. /\ Len(t) + 1 \in 1 .. Len(u) /\ n + 1 \in 1 .. n + 1
              /\ \A i \in 1 .. Len(t) : i \in 1 .. Len(u) /\ i # Len(t) + 1
              /\ \A i \in 1 .. n : i \in 1 .. n + 1
          BY <2>1, <4>1
        <5>2. \A i \in 1 .. Len(t) : g[i] \in 1 .. n
          OBVIOUS
        <5>3. k \in [1 .. Len(u) -> 1 .. n + 1]
          BY <4>2, <5>1, <5>2
        <5> QED BY <5>1, <5>2, <5>3
      <4> HIDE DEF k
      <4>4. \A i \in 1 .. Len(u) : u[i] = lines[k[i]] /\ Passes(lines[k[i]], min)
        BY <2>3, <3>2, <4>1, <4>2, <4>3
      <4>5. \A i, j \in 1 .. Len(u) : i < j => k[i] < k[j]
        <5>1. ASSUME NEW i \in 1 .. Len(u), NEW j \in 1 .. Len(u), i < j PROVE k[i] < k[j]
          <6>1. i \in 1 .. Len(t)
            BY <2>1, <4>1, <5>1
          <6>2. CASE j = Len(t) + 1
            <7>1. k[j] = n + 1 /\ k[i] \in 1 .. n
              BY <4>3, <6>1, <6>2
            <7> QED BY <2>1, <7>1
          <6>3. CASE j \in 1 .. Len(t)
            BY <2>3, <4>3, <5>1, <6>1, <6>3
          <6> QED BY <4>2, <6>2, <6>3
        <5> QED BY <5>1
      <4>6. \A m \in 1 .. n + 1 : Passes(lines[m], min) => \E i \in 1 .. Len(u) : k[i] = m
        <5>1. \A m \in 1 .. n + 1 : m = n + 1 \/ m \in 1 .. n
          BY <2>1
        <5> QED BY <2>3, <4>3, <5>1
      <4> QED BY <4>1, <4>3, <4>4, <4>5, <4>6 DEF PartOf
    <3> QED BY <3>1, <3>2
  <2> QED BY <2>1, <2>4 DEF u
<1> HIDE DEF T
<1>5. \A n \in 0 .. N : n \in T
  BY <1>2, <1>3, <1>4, InductionUpTo
<1>6. N \in T
  BY <1>2, <1>5
<1> QED BY <1>1, <1>6 DEF T, N

-----------------------------------------------------------------------------
(* Lines after lines *)

Entries == Lines \cup {Message}

LEMMA EntryFields ==
  /\ \A e \in Entries : e.n \in 0 .. MaxLogged /\ e.n \in Nat
  /\ \A e \in Lines : e.level \in Verbose .. Error
  /\ Message \in Entries /\ Message.n = 0
  /\ \A level \in Verbose .. Error :
       Own(level) \in Lines /\ Own(level).n = 0 /\ Own(level).level = level
  BY LoggerAssumption DEF Entries, Lines, Message, Own, Verbose, Error

\* The sequence new is old and further lines, whose numbers are in order, above lo and
\* up to hi.
Continued(old, new, lo, hi) ==
    /\ Len(old) \in Nat /\ Len(new) \in Nat /\ Len(old) <= Len(new)
    /\ DOMAIN old = 1 .. Len(old) /\ DOMAIN new = 1 .. Len(new)
    /\ \A i \in 1 .. Len(new) : new[i].n \in Nat
    /\ \A i \in 1 .. Len(old) : new[i] = old[i]
    /\ \A i \in Len(old) + 1 .. Len(new) :
         new[i].n = 0 \/ (lo < new[i].n /\ new[i].n <= hi)
    /\ \A i, j \in Len(old) + 1 .. Len(new) :
         i < j /\ new[i].n > 0 /\ new[j].n > 0 => new[i].n < new[j].n

LEMMA Joined ==
  ASSUME NEW S, NEW old \in Seq(S), NEW more \in Seq(S)
  PROVE  /\ old \o more \in Seq(S)
         /\ Len(old) \in Nat /\ Len(more) \in Nat /\ Len(old \o more) = Len(old) + Len(more)
         /\ \A i \in 1 .. Len(old) : (old \o more)[i] = old[i]
         /\ \A i \in 1 .. Len(more) : (old \o more)[Len(old) + i] = more[i]
         /\ \A i \in Len(old) + 1 .. Len(old) + Len(more) :
              i - Len(old) \in 1 .. Len(more) /\ (old \o more)[i] = more[i - Len(old)]
<1> DEFINE new == old \o more
<1>1. /\ Len(old) \in Nat /\ Len(more) \in Nat
      /\ new \in Seq(S) /\ Len(new) = Len(old) + Len(more)
      /\ \A i \in 1 .. Len(old) + Len(more) :
           new[i] = IF i <= Len(old) THEN old[i] ELSE more[i - Len(old)]
  BY LenProperties, ConcatProperties
<1> HIDE DEF new
<1>2. ASSUME NEW i \in 1 .. Len(old) PROVE new[i] = old[i]
  BY <1>1
<1>3. ASSUME NEW i \in 1 .. Len(more) PROVE new[Len(old) + i] = more[i]
  <2>1. /\ Len(old) + i \in 1 .. Len(old) + Len(more) /\ ~ (Len(old) + i <= Len(old))
        /\ (Len(old) + i) - Len(old) = i
    BY <1>1
  <2> QED BY <1>1, <2>1
<1>4. ASSUME NEW i \in Len(old) + 1 .. Len(old) + Len(more)
      PROVE  i - Len(old) \in 1 .. Len(more) /\ new[i] = more[i - Len(old)]
  BY <1>1
<1> QED BY <1>1, <1>2, <1>3, <1>4 DEF new

LEMMA JoinedContinues ==
  ASSUME NEW S, NEW old \in Seq(S), NEW more \in Seq(S), \A e \in S : e.n \in Nat,
         NEW lo \in Nat, NEW hi \in Nat, Ordered(more),
         \A i \in 1 .. Len(more) : more[i].n = 0 \/ (lo < more[i].n /\ more[i].n <= hi)
  PROVE  old \o more \in Seq(S) /\ Continued(old, old \o more, lo, hi)
<1> DEFINE new == old \o more
<1>1. /\ new \in Seq(S)
      /\ Len(old) \in Nat /\ Len(more) \in Nat /\ Len(new) = Len(old) + Len(more)
      /\ \A i \in 1 .. Len(old) : new[i] = old[i]
      /\ \A i \in Len(old) + 1 .. Len(old) + Len(more) :
           i - Len(old) \in 1 .. Len(more) /\ new[i] = more[i - Len(old)]
  BY Joined
<1>2. /\ DOMAIN old = 1 .. Len(old) /\ DOMAIN more = 1 .. Len(more)
  BY LenProperties
<1> HIDE DEF new
<1>3. DOMAIN new = 1 .. Len(new) /\ \A i \in 1 .. Len(new) : new[i].n \in Nat
  BY <1>1, LenProperties, ElementOfSeq
<1>4. \A i \in Len(old) + 1 .. Len(new) : new[i].n = 0 \/ (lo < new[i].n /\ new[i].n <= hi)
  BY <1>1
<1>5. ASSUME NEW i \in Len(old) + 1 .. Len(new), NEW j \in Len(old) + 1 .. Len(new),
             i < j, new[i].n > 0, new[j].n > 0
      PROVE  new[i].n < new[j].n
  <2>1. /\ i - Len(old) \in 1 .. Len(more) /\ new[i] = more[i - Len(old)]
        /\ j - Len(old) \in 1 .. Len(more) /\ new[j] = more[j - Len(old)] /\ i - Len(old) < j - Len(old)
    BY <1>1, <1>5
  <2> QED BY <1>2, <1>5, <2>1 DEF Ordered
<1>6. Len(old) <= Len(new)
  BY <1>1
<1>7. \A i, j \in Len(old) + 1 .. Len(new) :
         i < j /\ new[i].n > 0 /\ new[j].n > 0 => new[i].n < new[j].n
  BY <1>5
<1>8. Len(old) \in Nat /\ Len(new) \in Nat /\ \A i \in 1 .. Len(old) : new[i] = old[i]
  BY <1>1
<1>9. Continued(old, new, lo, hi)
  BY ONLY <1>2, <1>3, <1>4, <1>6, <1>7, <1>8, Zenon DEF Continued
<1> QED BY <1>1, <1>9 DEF new

LEMMA ContinuedTwice ==
  ASSUME NEW a, NEW b, NEW c, NEW lo \in Nat, NEW hi \in Nat,
         Continued(a, b, lo, hi), Continued(b, c, hi, hi)
  PROVE  Continued(a, c, lo, hi)
<1>1. \A i \in Len(b) + 1 .. Len(c) : c[i].n = 0
  BY DEF Continued
<1>2. /\ Len(a) \in Nat /\ Len(b) \in Nat /\ Len(c) \in Nat
      /\ Len(a) <= Len(b) /\ Len(b) <= Len(c)
      /\ \A i \in Len(a) + 1 .. Len(c) : i \in Len(a) + 1 .. Len(b) \/ i \in Len(b) + 1 .. Len(c)
      /\ \A i \in 1 .. Len(a) : i \in 1 .. Len(b)
      /\ \A i \in Len(a) + 1 .. Len(b) : i \in 1 .. Len(b)
  BY DEF Continued
<1>3. \A i \in 1 .. Len(b) : c[i] = b[i]
  BY DEF Continued
<1>4. \A i \in Len(a) + 1 .. Len(c) : c[i].n > 0 => i \in Len(a) + 1 .. Len(b) /\ c[i] = b[i]
  BY <1>1, <1>2, <1>3
<1>5. \A i \in Len(a) + 1 .. Len(c) : c[i].n \in Nat
  BY <1>2 DEF Continued
<1>6. \A i \in Len(a) + 1 .. Len(c) : c[i].n = 0 \/ (lo < c[i].n /\ c[i].n <= hi)
  BY <1>4, <1>5 DEF Continued
<1>7. \A i, j \in Len(a) + 1 .. Len(c) :
         i < j /\ c[i].n > 0 /\ c[j].n > 0 => c[i].n < c[j].n
  BY <1>4 DEF Continued
<1> QED BY <1>2, <1>3, <1>6, <1>7 DEF Continued

\* What was in order up to lo is in order up to hi, and lines up to lo stay where
\* they are and do not come again.
LEMMA ContinuedKeeps ==
  ASSUME NEW old, NEW new, NEW lo \in Nat, NEW hi \in Nat, lo <= hi,
         Continued(old, new, lo, hi)
  PROVE  /\ UpTo(old, lo) => UpTo(new, hi)
         /\ \A n \in 1 .. lo : \A i : (i \in DOMAIN new /\ new[i].n = n)
                                      <=> (i \in DOMAIN old /\ old[i].n = n)
         /\ Held(old) \subseteq Held(new)
         /\ Held(new) \subseteq Held(old) \cup lo + 1 .. hi
<1>1. /\ Len(old) \in Nat /\ Len(new) \in Nat /\ Len(old) <= Len(new)
      /\ DOMAIN old = 1 .. Len(old) /\ DOMAIN new = 1 .. Len(new)
      /\ \A i \in 1 .. Len(new) : i \in 1 .. Len(old) \/ i \in Len(old) + 1 .. Len(new)
      /\ \A i \in 1 .. Len(old) : i \in 1 .. Len(new) /\ new[i] = old[i]
      /\ \A i \in 1 .. Len(new) : new[i].n \in Nat
  BY DEF Continued
<1>2. \A i \in Len(old) + 1 .. Len(new) : new[i].n = 0 \/ (lo < new[i].n /\ new[i].n <= hi)
  BY DEF Continued
<1>3. ASSUME UpTo(old, lo) PROVE UpTo(new, hi)
  <2>1. \A i \in 1 .. Len(new) : new[i].n <= hi
    BY <1>1, <1>2, <1>3 DEF UpTo
  <2>2. ASSUME NEW i \in 1 .. Len(new), NEW j \in 1 .. Len(new),
               i < j, new[i].n > 0, new[j].n > 0
        PROVE  new[i].n < new[j].n
    <3>1. CASE j \in 1 .. Len(old)
      <4>1. i \in 1 .. Len(old)
        BY <1>1, <2>2, <3>1
      <4> QED BY <1>1, <1>3, <2>2, <3>1, <4>1 DEF UpTo, Ordered
    <3>2. CASE i \in 1 .. Len(old) /\ j \in Len(old) + 1 .. Len(new)
      <4>1. new[i].n <= lo /\ lo < new[j].n
        BY <1>1, <1>2, <1>3, <2>2, <3>2 DEF UpTo
      <4> QED BY <1>1, <4>1
    <3>3. CASE i \in Len(old) + 1 .. Len(new) /\ j \in Len(old) + 1 .. Len(new)
      BY <2>2, <3>3 DEF Continued
    <3> QED BY <1>1, <3>1, <3>2, <3>3
  <2> QED BY <1>1, <2>1, <2>2 DEF UpTo, Ordered
<1>4. ASSUME NEW n \in 1 .. lo, NEW i
      PROVE  (i \in DOMAIN new /\ new[i].n = n) <=> (i \in DOMAIN old /\ old[i].n = n)
  BY <1>1, <1>2
<1>5. Held(old) \subseteq Held(new)
  BY <1>1 DEF Held
<1>6. ASSUME NEW n \in Held(new), n \notin Held(old) PROVE n \in lo + 1 .. hi
  <2>1. PICK i \in 1 .. Len(new) : new[i].n = n
    BY <1>1 DEF Held
  <2>2. i \in Len(old) + 1 .. Len(new)
    <3>1. ASSUME i \in 1 .. Len(old) PROVE FALSE
      <4>1. old[i].n = n /\ n # 0
        BY <1>1, <2>1, <3>1 DEF Held
      <4> QED BY <1>1, <1>6, <3>1, <4>1 DEF Held
    <3> QED BY <1>1, <3>1
  <2>3. n # 0 /\ n \in Nat
    BY <1>1, <2>1 DEF Held
  <2> QED BY <1>2, <2>1, <2>2, <2>3
<1> QED BY <1>3, <1>4, <1>5, <1>6

LEMMA InHeld ==
  ASSUME NEW lines, DOMAIN lines = 1 .. Len(lines), NEW n
  PROVE  n \in Held(lines) <=> n # 0 /\ \E i \in 1 .. Len(lines) : lines[i].n = n
BY DEF Held

LEMMA HeldJoined ==
  ASSUME NEW S, NEW a \in Seq(S), NEW b \in Seq(S)
  PROVE  Held(a \o b) = Held(a) \cup Held(b)
<1> DEFINE c == a \o b
<1>1. /\ c \in Seq(S) /\ Len(a) \in Nat /\ Len(b) \in Nat /\ Len(c) = Len(a) + Len(b)
      /\ \A i \in 1 .. Len(a) : c[i] = a[i]
      /\ \A i \in 1 .. Len(b) : c[Len(a) + i] = b[i]
      /\ \A i \in Len(a) + 1 .. Len(a) + Len(b) :
           i - Len(a) \in 1 .. Len(b) /\ c[i] = b[i - Len(a)]
  BY Joined
<1>2. DOMAIN a = 1 .. Len(a) /\ DOMAIN b = 1 .. Len(b) /\ DOMAIN c = 1 .. Len(c)
  BY <1>1, LenProperties
<1> HIDE DEF c
<1>3. \A i \in 1 .. Len(c) : i \in 1 .. Len(a) \/ i \in Len(a) + 1 .. Len(a) + Len(b)
  BY <1>1
<1>4. /\ \A i \in 1 .. Len(a) : i \in 1 .. Len(c)
      /\ \A i \in 1 .. Len(b) : Len(a) + i \in 1 .. Len(c)
  BY <1>1
<1>5. ASSUME NEW n PROVE (\E i \in 1 .. Len(c) : c[i].n = n)
                            <=> \/ \E i \in 1 .. Len(a) : a[i].n = n
                                \/ \E i \in 1 .. Len(b) : b[i].n = n
  <2>1. ASSUME NEW i \in 1 .. Len(c), c[i].n = n
        PROVE  (\E k \in 1 .. Len(a) : a[k].n = n) \/ \E k \in 1 .. Len(b) : b[k].n = n
    BY <1>1, <1>3, <2>1
  <2>2. ASSUME NEW i \in 1 .. Len(b), b[i].n = n
        PROVE  \E k \in 1 .. Len(c) : c[k].n = n
    BY <1>1, <1>4, <2>2
  <2> QED BY <1>1, <1>4, <2>1, <2>2
<1>6. /\ \A n : n \in Held(a) <=> n # 0 /\ \E i \in 1 .. Len(a) : a[i].n = n
      /\ \A n : n \in Held(b) <=> n # 0 /\ \E i \in 1 .. Len(b) : b[i].n = n
      /\ \A n : n \in Held(c) <=> n # 0 /\ \E i \in 1 .. Len(c) : c[i].n = n
  BY <1>2, InHeld
<1>7. \A n : n \in Held(c) <=> n \in Held(a) \/ n \in Held(b)
  BY <1>5, <1>6
<1>8. Held(c) = Held(a) \cup Held(b)
  BY <1>7
<1> QED BY <1>8 DEF c

\* InternalLogger.log hands over lines that it is given, in their order, and all that pass.
LEMMA ShownKeeps ==
  ASSUME NEW lines \in Seq(Lines), Ordered(lines), NEW min
  PROVE  /\ Shown(lines, min) \in Seq(Lines) /\ Ordered(Shown(lines, min))
         /\ \A i \in 1 .. Len(Shown(lines, min)) :
              \E k \in 1 .. Len(lines) : Shown(lines, min)[i] = lines[k]
         /\ \A k \in 1 .. Len(lines) : Passes(lines[k], min) =>
              \E i \in 1 .. Len(Shown(lines, min)) : Shown(lines, min)[i] = lines[k]
<1> DEFINE t == Shown(lines, min)
<1>1. t \in Seq(Lines) /\ PartOf(t, lines, Len(lines), min)
  BY ShownIsPart
<1>2. DOMAIN t = 1 .. Len(t) /\ DOMAIN lines = 1 .. Len(lines)
  BY <1>1, LenProperties
<1> HIDE DEF t
<1>3. PICK g \in [1 .. Len(t) -> 1 .. Len(lines)] :
         /\ \A i \in 1 .. Len(t) : t[i] = lines[g[i]] /\ Passes(lines[g[i]], min)
         /\ \A i, j \in 1 .. Len(t) : i < j => g[i] < g[j]
         /\ \A k \in 1 .. Len(lines) : Passes(lines[k], min) => \E i \in 1 .. Len(t) : g[i] = k
  BY <1>1 DEF PartOf
<1>4. Ordered(t)
  BY <1>2, <1>3 DEF Ordered
<1>5. \A i \in 1 .. Len(t) : \E k \in 1 .. Len(lines) : t[i] = lines[k]
  BY <1>3
<1>6. \A k \in 1 .. Len(lines) : Passes(lines[k], min) => \E i \in 1 .. Len(t) : t[i] = lines[k]
  BY <1>3
<1> QED BY <1>1, <1>4, <1>5, <1>6 DEF t

LEMMA ShownContinues ==
  ASSUME NEW old \in Seq(Entries), NEW lines \in Seq(Lines), Ordered(lines), NEW min,
         NEW lo \in Nat, NEW hi \in Nat,
         \A k \in 1 .. Len(lines) : lines[k].n = 0 \/ (lo < lines[k].n /\ lines[k].n <= hi)
  PROVE  /\ old \o Shown(lines, min) \in Seq(Entries)
         /\ Continued(old, old \o Shown(lines, min), lo, hi)
<1> DEFINE t == Shown(lines, min)
<1>1. /\ t \in Seq(Lines) /\ Ordered(t)
      /\ \A i \in 1 .. Len(t) : t[i].n = 0 \/ (lo < t[i].n /\ t[i].n <= hi)
  BY ShownKeeps
<1> HIDE DEF t
<1>2. t \in Seq(Entries) /\ \A e \in Entries : e.n \in Nat
  BY <1>1, EntryFields, SeqMonotonic DEF Entries
<1>3. old \o t \in Seq(Entries) /\ Continued(old, old \o t, lo, hi)
  BY <1>1, <1>2, JoinedContinues
<1> QED BY <1>3 DEF t

LEMMA ContinuedItself ==
  ASSUME NEW S, NEW old \in Seq(S), \A e \in S : e.n \in Nat, NEW lo, NEW hi
  PROVE  Continued(old, old, lo, hi)
<1>1. Len(old) \in Nat /\ DOMAIN old = 1 .. Len(old) /\ \A i \in 1 .. Len(old) : old[i] \in S
  BY LenProperties, ElementOfSeq
<1> QED BY <1>1 DEF Continued

\* The numbers of lines that are numbered are above lo and up to hi.
Within(lines, lo, hi) ==
    \A k \in 1 .. Len(lines) : lines[k].n = 0 \/ (lo < lines[k].n /\ lines[k].n <= hi)

\* What InternalLogger.log makes of the files.
LEMMA FiledContinues ==
  ASSUME files \in Seq(Seq(Lines)), NEW l, stream[l] \in 0 .. Len(files),
         NEW lines \in Seq(Lines), Ordered(lines), NEW min, NEW lo \in Nat, NEW hi \in Nat,
         Within(lines, lo, hi)
  PROVE  LET new == Filed(l, lines, min) f == stream[l]
         IN  /\ new \in Seq(Seq(Lines)) /\ Len(new) = Len(files)
             /\ DOMAIN new = 1 .. Len(files)
             /\ \A g \in 1 .. Len(files) :
                  /\ Continued(files[g], new[g], lo, hi)
                  /\ g # f => new[g] = files[g]
             /\ f # 0 => IF min = Stop THEN new[f] = files[f]
                         ELSE Held(new[f]) = Held(files[f]) \cup Held(lines)
<1> DEFINE f == stream[l]
           new == Filed(l, lines, min)
           longer == files[f] \o lines
<1>1. /\ Len(files) \in Nat /\ DOMAIN files = 1 .. Len(files)
      /\ \A g \in 1 .. Len(files) : files[g] \in Seq(Lines)
  BY LenProperties, ElementOfSeq
<1>2. \A g \in 1 .. Len(files) : Continued(files[g], files[g], lo, hi)
  BY <1>1, ContinuedItself, EntryFields DEF Entries
<1>3. CASE min = Stop \/ f = 0
  <2>1. new = files
    BY <1>3 DEF Filed
  <2> HIDE DEF new
  <2> QED BY <1>1, <1>2, <1>3, <2>1 DEF new
<1>4. CASE min # Stop /\ f # 0
  <2>1. f \in 1 .. Len(files) /\ files[f] \in Seq(Lines)
    BY <1>1, <1>4
  <2>2. /\ longer \in Seq(Lines) /\ Continued(files[f], longer, lo, hi)
        /\ Held(longer) = Held(files[f]) \cup Held(lines)
    <3> DEFINE old == files[f]
    <3>1. old \in Seq(Lines) /\ \A e \in Lines : e.n \in Nat
      BY <2>1, EntryFields DEF Entries
    <3> HIDE DEF old
    <3>2. old \o lines \in Seq(Lines) /\ Continued(old, old \o lines, lo, hi)
      BY <3>1, JoinedContinues DEF Within
    <3>3. Held(old \o lines) = Held(old) \cup Held(lines)
      BY <3>1, HeldJoined
    <3> QED BY <3>2, <3>3 DEF old
  <2>3. new = [files EXCEPT ![f] = longer]
    BY <1>4 DEF Filed
  <2> HIDE DEF new, f, longer
  <2>4. /\ new \in Seq(Seq(Lines)) /\ Len(new) = Len(files)
        /\ \A g \in 1 .. Len(files) : new[g] = IF g = f THEN longer ELSE files[g]
    BY <2>1, <2>2, <2>3, ExceptSeq
  <2>5. DOMAIN new = 1 .. Len(files)
    BY <2>4, LenProperties
  <2> QED BY <1>2, <1>4, <2>1, <2>2, <2>4, <2>5 DEF new, f
<1> QED BY <1>3, <1>4

-----------------------------------------------------------------------------
(* The invariant *)

LEMMA Basics ==
  ASSUME LoggerTypeOK, QueueIsLast
  PROVE  /\ Len(logged) \in Nat /\ Len(pendingLogQ) \in Nat /\ gone \in Nat
         /\ gone <= Len(logged) /\ Len(logged) = gone + Len(pendingLogQ)
         /\ DOMAIN pendingLogQ = 1 .. Len(pendingLogQ)
         /\ DOMAIN logged = 1 .. Len(logged)
         /\ pendingLogQ \in Seq(Lines) /\ Ordered(pendingLogQ)
         /\ \A i \in 1 .. Len(pendingLogQ) :
              gone < pendingLogQ[i].n /\ pendingLogQ[i].n <= Len(logged)
         /\ ~queueing => Len(pendingLogQ) = 0
         /\ \A s \in Sessions : out[s] \in Seq(Entries) /\ DOMAIN out[s] = 1 .. Len(out[s])
         /\ Len(files) \in Nat /\ DOMAIN files = 1 .. Len(files) /\ files \in Seq(Seq(Lines))
         /\ \A f \in 1 .. Len(files) :
              files[f] \in Seq(Lines) /\ DOMAIN files[f] = 1 .. Len(files[f])
         /\ \A l \in Sessions : stream[l] \in 0 .. Len(files) /\ minLogLevel[l] \in Verbose .. Stop
         /\ DOMAIN asked = 1 .. Len(asked) /\ Len(asked) \in Nat
<1>1. /\ Len(logged) \in Nat /\ DOMAIN logged = 1 .. Len(logged)
      /\ Len(pendingLogQ) \in Nat /\ DOMAIN pendingLogQ = 1 .. Len(pendingLogQ)
      /\ DOMAIN asked = 1 .. Len(asked) /\ Len(asked) \in Nat
      /\ Len(files) \in Nat /\ DOMAIN files = 1 .. Len(files)
      /\ pendingLogQ \in Seq(Lines) /\ files \in Seq(Seq(Lines))
  BY LenProperties DEF LoggerTypeOK
<1>2. /\ gone \in Nat /\ gone <= Len(logged) /\ Len(logged) = gone + Len(pendingLogQ)
      /\ \A i \in 1 .. Len(pendingLogQ) : pendingLogQ[i].n = gone + i
  <2>1. \A i \in 1 .. Len(pendingLogQ) : pendingLogQ[i].n = gone + i
    BY <1>1 DEF QueueIsLast
  <2>2. Len(pendingLogQ) <= Len(logged)
    BY DEF QueueIsLast
  <2>3. gone \in Nat /\ gone <= Len(logged) /\ Len(logged) = gone + Len(pendingLogQ)
    BY <1>1, <2>2 DEF gone
  <2> QED BY <2>1, <2>3
<1>3. /\ Ordered(pendingLogQ)
      /\ \A i \in 1 .. Len(pendingLogQ) :
           gone < pendingLogQ[i].n /\ pendingLogQ[i].n <= Len(logged)
  BY <1>1, <1>2 DEF Ordered
<1>4. ~queueing => Len(pendingLogQ) = 0
  BY EmptySeq DEF LoggerTypeOK
<1>5. ASSUME NEW s \in Sessions PROVE out[s] \in Seq(Entries) /\ DOMAIN out[s] = 1 .. Len(out[s])
  <2>1. out[s] \in Seq(Entries)
    BY DEF LoggerTypeOK, Entries
  <2> QED BY <2>1, LenProperties
<1>6. ASSUME NEW f \in 1 .. Len(files)
      PROVE  files[f] \in Seq(Lines) /\ DOMAIN files[f] = 1 .. Len(files[f])
  <2>1. files[f] \in Seq(Lines)
    BY <1>1, ElementOfSeq
  <2> QED BY <2>1, LenProperties
<1>7. \A l \in Sessions : stream[l] \in 0 .. Len(files) /\ minLogLevel[l] \in Verbose .. Stop
  BY DEF LoggerTypeOK
<1> QED BY <1>1, <1>2, <1>3, <1>4, <1>5, <1>6, <1>7

\* A set of numbers that goes on without a gap.
NoGaps(held) == \A m, n \in held : m .. n \subseteq held

LEMMA InPlaces ==
  ASSUME NEW n, SentOnce(n), NEW lo \in Nat, n \in 1 .. lo, NEW hi \in Nat, lo <= hi,
         \A s \in Sessions : Continued(out[s], out'[s], lo, hi)
  PROVE  SentOnce(n)'
<1>1. \A s \in Sessions : \A i : (i \in DOMAIN out'[s] /\ out'[s][i].n = n)
                                   <=> (i \in DOMAIN out[s] /\ out[s][i].n = n)
  <2>1. ASSUME NEW s \in Sessions
        PROVE  \A i : (i \in DOMAIN out'[s] /\ out'[s][i].n = n)
                         <=> (i \in DOMAIN out[s] /\ out[s][i].n = n)
    <3>1. Continued(out[s], out'[s], lo, hi)
      OBVIOUS
    <3>2. \A k \in 1 .. lo : \A i : (i \in DOMAIN out'[s] /\ out'[s][i].n = k)
                                    <=> (i \in DOMAIN out[s] /\ out[s][i].n = k)
      BY ONLY lo \in Nat, hi \in Nat, lo <= hi, <3>1, ContinuedKeeps
    <3> QED BY <3>2
  <2> QED BY <2>1
<1>2. PICK m \in Sessions : \E i \in DOMAIN out[m] :
         /\ out[m][i].n = n
         /\ \A k \in Sessions : \A j \in DOMAIN out[k] : out[k][j].n = n => k = m /\ j = i
  BY DEF SentOnce
<1>3. PICK i \in DOMAIN out[m] :
         /\ out[m][i].n = n
         /\ \A k \in Sessions : \A j \in DOMAIN out[k] : out[k][j].n = n => k = m /\ j = i
  BY <1>2
<1>4. i \in DOMAIN out'[m] /\ out'[m][i].n = n
  BY <1>1, <1>3
<1>5. \A k \in Sessions : \A j \in DOMAIN out'[k] : out'[k][j].n = n => k = m /\ j = i
  BY <1>1, <1>3
<1> QED BY <1>4, <1>5 DEF SentOnce

LEMMA NothingNumbered ==
  ASSUME NEW old, NEW new, NEW lo \in Nat, Continued(old, new, lo, lo)
  PROVE  Held(new) = Held(old) /\ (UpTo(old, lo) => UpTo(new, lo))
<1>1. lo <= lo /\ lo + 1 .. lo = {}
  OBVIOUS
<1>2. /\ UpTo(old, lo) => UpTo(new, lo)
      /\ Held(old) \subseteq Held(new)
      /\ Held(new) \subseteq Held(old) \cup lo + 1 .. lo
  BY <1>1, ContinuedKeeps
<1> QED BY <1>1, <1>2

\* What is left of the invariant by a step after which the same lines wait or more: the
\* lines in front of them stay where they are.
LEMMA NothingFlushed ==
  ASSUME LoggerTypeOK, QueueIsLast, OlderThanQueue, FilesGoOn, ErrorsSent,
         LoggerTypeOK', QueueIsLast', gone' = gone,
         \A n \in 1 .. gone : logged'[n] = logged[n],
         \A s \in Sessions : Continued(out[s], out'[s], gone, gone),
         \A f \in 1 .. Len(files) : f \in DOMAIN files' /\ Continued(files[f], files'[f], gone, gone),
         \A f \in DOMAIN files' : f \notin 1 .. Len(files) =>
            Continued(<<>>, files'[f], gone, gone),
         Levels \subseteq Levels', disposed => disposed',
         current' # NoSession /\ stream'[current'] # 0 =>
            \/ Held(files'[stream'[current']]) = {}
            \/ /\ current' = current /\ stream'[current'] = stream[current]
               /\ queueing' = queueing
  PROVE  /\ OlderThanQueue' /\ FilesGoOn' /\ ErrorsSent'
         /\ \A f \in 1 .. Len(files) : Held(files'[f]) = Held(files[f])
         /\ \A f \in DOMAIN files' : f \notin 1 .. Len(files) => Held(files'[f]) = {}
<1>0. /\ gone \in Nat
      /\ DOMAIN files = 1 .. Len(files) /\ DOMAIN files' = 1 .. Len(files')
      /\ \A l \in Sessions : stream[l] \in 0 .. Len(files)
  <2>1. DOMAIN files' = 1 .. Len(files')
    BY LenProperties DEF LoggerTypeOK
  <2> QED BY <2>1, Basics
<1>1. \A f \in 1 .. Len(files) :
        Held(files'[f]) = Held(files[f]) /\ (UpTo(files[f], gone) => UpTo(files'[f], gone))
  BY <1>0, NothingNumbered
<1>2. \A f \in DOMAIN files' : f \notin 1 .. Len(files) =>
        Held(files'[f]) = {} /\ UpTo(files'[f], gone)
  <2>1. Held(<<>>) = {} /\ UpTo(<<>>, gone)
    BY DEF Held, UpTo, Ordered
  <2> QED BY <1>0, <2>1, NothingNumbered
<1>3. \A s \in Sessions : UpTo(out[s], gone) => UpTo(out'[s], gone)
  BY <1>0, NothingNumbered
<1>4. OlderThanQueue'
  BY <1>0, <1>1, <1>2, <1>3 DEF OlderThanQueue
<1>5. FilesGoOn'
  <2> SUFFICES ASSUME Stop \notin Levels'
               PROVE  /\ \A f \in DOMAIN files' : NoGaps(Held(files'[f]))
                      /\ current' # NoSession /\ stream'[current'] # 0 =>
                           (Held(files'[stream'[current']]) # {} =>
                              ~queueing' /\ gone' \in Held(files'[stream'[current']]))
    BY DEF FilesGoOn, NoGaps
  <2>1. /\ \A f \in 1 .. Len(files) : NoGaps(Held(files[f]))
        /\ current # NoSession /\ stream[current] # 0 =>
             (Held(files[stream[current]]) # {} =>
                ~queueing /\ gone \in Held(files[stream[current]]))
    BY <1>0 DEF FilesGoOn, NoGaps
  <2>2. \A f \in DOMAIN files' : NoGaps(Held(files'[f]))
    BY <1>1, <1>2, <2>1 DEF NoGaps
  <2>3. ASSUME current' # NoSession, stream'[current'] # 0, Held(files'[stream'[current']]) # {}
        PROVE  ~queueing' /\ gone' \in Held(files'[stream'[current']])
    <3>1. /\ current' = current /\ stream'[current'] = stream[current] /\ queueing' = queueing
          /\ current \in Sessions
      BY <2>3 DEF LoggerTypeOK
    <3>2. stream[current] \in 1 .. Len(files)
      BY <1>0, <2>3, <3>1
    <3> QED BY <1>1, <2>1, <2>3, <3>1, <3>2
  <2> QED BY <2>2, <2>3
<1>6. ErrorsSent'
  <2> SUFFICES ASSUME ~disposed', Stop \notin Levels', NEW n \in 1 .. gone', logged'[n] = Error
               PROVE  SentOnce(n)'
    BY DEF ErrorsSent
  <2>1. n \in 1 .. gone /\ logged[n] = Error /\ SentOnce(n)
    BY DEF ErrorsSent
  <2>2. gone \in Nat /\ gone <= gone
    BY <1>0
  <2> QED BY ONLY <2>1, <2>2, InPlaces, \A s \in Sessions : Continued(out[s], out'[s], gone, gone)
<1> QED BY <1>1, <1>2, <1>4, <1>5, <1>6

\* A line that nobody has: there is no logger, which is so only after dispose.
LEMMA Dropped ==
  ASSUME LoggerTypeOK, QueueIsLast, OlderThanQueue, FilesGoOn,
         QueueIsLast', LoggerTypeOK', gone <= gone', UNCHANGED files, disposed', current' = NoSession,
         \A s \in Sessions : Continued(out[s], out'[s], gone, gone), Levels' = Levels
  PROVE  OlderThanQueue' /\ FilesGoOn' /\ ErrorsSent'
<1>1. gone \in Nat /\ gone' \in Nat /\ \A s \in Sessions : DOMAIN out'[s] = 1 .. Len(out'[s])
  <2>1. gone \in Nat
    BY Basics
  <2>2. gone' \in Nat
    <3>1. Len(logged') \in Nat /\ Len(pendingLogQ') \in Nat
      BY LenProperties DEF LoggerTypeOK
    <3>2. Len(pendingLogQ') <= Len(logged')
      BY DEF QueueIsLast
    <3> QED BY <3>1, <3>2 DEF gone
  <2> QED BY <2>1, <2>2 DEF Continued
<1>2. \A s \in Sessions : UpTo(out'[s], gone)
  BY <1>1, NothingNumbered DEF OlderThanQueue
<1>3. \A s \in Sessions : UpTo(out'[s], gone')
  <2>1. \A s \in Sessions : \A i \in 1 .. Len(out'[s]) : out'[s][i].n \in Nat
    BY DEF Continued
  <2> QED BY <1>1, <1>2, <2>1 DEF UpTo
<1>4. \A f \in DOMAIN files : UpTo(files[f], gone')
  <2>1. ASSUME NEW f \in DOMAIN files PROVE UpTo(files[f], gone')
    <3>1. UpTo(files[f], gone)
      BY <2>1 DEF OlderThanQueue
    <3>2. \A i \in DOMAIN files[f] : files[f][i].n \in Nat
      <4>1. files[f] \in Seq(Lines) /\ DOMAIN files[f] = 1 .. Len(files[f])
        BY <2>1, Basics
      <4> QED BY <4>1, ElementOfSeq, EntryFields DEF Entries
    <3> QED BY <1>1, <3>1, <3>2 DEF UpTo
  <2> QED BY <2>1
<1> QED BY <1>3, <1>4 DEF OlderThanQueue, FilesGoOn, ErrorsSent

\* Lines in the order of their numbers, from the first that is not gone: the next line
\* that is logged, or the queue.
NextLines(lines) ==
    /\ lines \in Seq(Lines)
    /\ \A i \in 1 .. Len(lines) :
         lines[i].n = gone + i /\ lines[i].level = logged'[gone + i]

LEMMA NextLinesHeld ==
  ASSUME NEW lines, NextLines(lines), gone \in Nat
  PROVE  /\ Len(lines) \in Nat /\ Ordered(lines)
         /\ \A i \in 1 .. Len(lines) : gone < lines[i].n /\ lines[i].n <= gone + Len(lines)
         /\ Held(lines) = gone + 1 .. gone + Len(lines)
<1>1. Len(lines) \in Nat /\ DOMAIN lines = 1 .. Len(lines)
  BY LenProperties DEF NextLines
<1>2. \A i \in 1 .. Len(lines) : lines[i].n = gone + i
  BY DEF NextLines
<1>3. Ordered(lines)
  BY <1>1, <1>2 DEF Ordered
<1>4. \A i \in 1 .. Len(lines) : gone < lines[i].n /\ lines[i].n <= gone + Len(lines)
  BY <1>1, <1>2
<1>5. Held(lines) \subseteq gone + 1 .. gone + Len(lines)
  BY <1>1, <1>2 DEF Held
<1>6. ASSUME NEW n \in gone + 1 .. gone + Len(lines) PROVE n \in Held(lines)
  <2>1. n - gone \in 1 .. Len(lines) /\ gone + (n - gone) = n /\ n # 0
    BY <1>1
  <2> QED BY <1>1, <1>2, <2>1 DEF Held
<1> QED BY <1>1, <1>3, <1>4, <1>5, <1>6

\* Of a set without gaps that ends at lo, or is empty, more numbers from there on make
\* another.
LEMMA LongerHeld ==
  ASSUME NEW lo \in Nat, NEW k \in Nat, NEW held, NoGaps(held), held \subseteq 1 .. lo,
         held = {} \/ lo \in held
  PROVE  /\ NoGaps(held \cup lo + 1 .. lo + k)
         /\ held \cup lo + 1 .. lo + k # {} => lo + k \in held \cup lo + 1 .. lo + k
<1> DEFINE longer == held \cup lo + 1 .. lo + k
<1>1. ASSUME NEW m \in longer, NEW n \in longer, NEW i \in m .. n PROVE i \in longer
  <2>1. CASE m \in lo + 1 .. lo + k
    <3>1. n \in Int /\ n <= lo + k /\ i \in lo + 1 .. lo + k
      BY <1>1, <2>1
    <3> QED BY <3>1
  <2>2. CASE m \in held /\ n \in held
    BY <1>1, <2>2 DEF NoGaps
  <2>3. CASE m \in held /\ n \in lo + 1 .. lo + k
    <3>1. i \in m .. lo \/ i \in lo + 1 .. lo + k
      BY <1>1, <2>3
    <3> QED BY <2>3, <3>1 DEF NoGaps
  <2> QED BY <1>1, <2>1, <2>2, <2>3
<1>2. longer # {} => lo + k \in longer
  <2>1. CASE k = 0
    <3>1. lo + k = lo /\ lo + 1 .. lo + k = {}
      BY <2>1
    <3> QED BY <3>1
  <2>2. CASE k > 0
    BY <2>2
  <2> QED BY <2>1, <2>2
<1> QED BY <1>1, <1>2 DEF NoGaps

\* The next lines go to the logger there is: to its client those that pass, to its
\* file all of them, unless it is set to Stop.
LEMMA HandedOver ==
  ASSUME LoggerTypeOK, QueueIsLast, OlderThanQueue, FilesGoOn, ErrorsSent, StoppedBySetup,
         LoggerTypeOK', QueueIsLast', current \in Sessions,
         UNCHANGED <<current, stream, disposed>>, ~queueing', Levels' = Levels,
         NEW lines, NextLines(lines), gone' = gone + Len(lines),
         \A n \in 1 .. gone : logged'[n] = logged[n],
         files' = Filed(current, lines, minLogLevel[current]),
         Continued(out[current] \o Shown(lines, minLogLevel[current]), out'[current], gone', gone'),
         \A s \in Sessions : s # current => Continued(out[s], out'[s], gone, gone),
         Stop \notin Levels /\ stream[current] # 0 =>
            Held(files[stream[current]]) = {} \/ gone \in Held(files[stream[current]])
  PROVE  /\ OlderThanQueue' /\ FilesGoOn' /\ ErrorsSent'
         /\ DOMAIN files' = 1 .. Len(files)
         /\ \A f \in 1 .. Len(files) : f # stream[current] => files'[f] = files[f]
         /\ stream[current] # 0 /\ Stop \notin Levels =>
              Held(files'[stream[current]]) = Held(files[stream[current]]) \cup gone + 1 .. gone'
<1> DEFINE c == current
           min == minLogLevel[c]
           shown == Shown(lines, min)
           f == stream[c]
           lo == gone
           hi == gone'
<1>1. /\ lo \in Nat /\ Len(lines) \in Nat /\ lines \in Seq(Lines) /\ Ordered(lines)
      /\ hi \in Nat /\ lo <= hi /\ hi = lo + Len(lines)
      /\ \A i \in 1 .. Len(lines) : lines[i].n = 0 \/ (lo < lines[i].n /\ lines[i].n <= hi)
      /\ Held(lines) = lo + 1 .. hi
  <2>1. lo \in Nat
    BY Basics
  <2>2. /\ Len(lines) \in Nat /\ Ordered(lines)
        /\ \A i \in 1 .. Len(lines) : lo < lines[i].n /\ lines[i].n <= lo + Len(lines)
        /\ Held(lines) = lo + 1 .. lo + Len(lines)
    BY <2>1, NextLinesHeld
  <2>3. lines \in Seq(Lines)
    BY DEF NextLines
  <2> QED BY <2>1, <2>2, <2>3
<1>2. /\ files \in Seq(Seq(Lines)) /\ f \in 0 .. Len(files) /\ Len(files) \in Nat
      /\ DOMAIN files = 1 .. Len(files)
      /\ \A s \in Sessions : out[s] \in Seq(Entries)
      /\ min \in Verbose .. Stop /\ (min = Stop => Stop \in Levels)
  BY Basics DEF StoppedBySetup
<1> HIDE DEF c, min, f, lo, hi
<1>3. /\ DOMAIN files' = 1 .. Len(files)
      /\ \A g \in 1 .. Len(files) :
           /\ Continued(files[g], files'[g], lo, hi)
           /\ g # f => files'[g] = files[g]
      /\ f # 0 => IF min = Stop THEN files'[f] = files[f]
                  ELSE Held(files'[f]) = Held(files[f]) \cup Held(lines)
  <2>0. Within(lines, lo, hi)
    BY <1>1 DEF Within
  <2>1. stream[c] \in 0 .. Len(files) /\ files' = Filed(c, lines, min)
    BY <1>2 DEF f, c, min
  <2>2. LET new == Filed(c, lines, min) g == stream[c]
         IN  /\ new \in Seq(Seq(Lines)) /\ Len(new) = Len(files)
             /\ DOMAIN new = 1 .. Len(files)
             /\ \A k \in 1 .. Len(files) :
                  /\ Continued(files[k], new[k], lo, hi)
                  /\ k # g => new[k] = files[k]
             /\ g # 0 => IF min = Stop THEN new[g] = files[g]
                         ELSE Held(new[g]) = Held(files[g]) \cup Held(lines)
    <3>1. files \in Seq(Seq(Lines)) /\ stream[c] \in 0 .. Len(files)
      BY <1>2, <2>1
    <3>2. lines \in Seq(Lines) /\ Ordered(lines) /\ lo \in Nat /\ hi \in Nat
      BY <1>1
    <3> QED BY ONLY <3>1, <3>2, <2>0, FiledContinues, ZenonT(60)
  <2> QED BY ONLY <2>1, <2>2 DEF f
<1>4. Continued(out[c], out'[c], lo, hi)
  <2>1. out[c] \in Seq(Entries)
    BY <1>2 DEF c
  <2>2. Continued(out[c], out[c] \o shown, lo, hi)
    <3> DEFINE old == out[c]
    <3>1. old \in Seq(Entries)
      BY <2>1
    <3> HIDE DEF old
    <3>2. Continued(old, old \o shown, lo, hi)
      BY <1>1, <3>1, ShownContinues
    <3> QED BY <3>2 DEF old
  <2>3. Continued(out[c] \o shown, out'[c], hi, hi)
    BY DEF c, min, hi
  <2> HIDE DEF shown
  <2> QED BY <1>1, <2>2, <2>3, ContinuedTwice
<1>5. ASSUME NEW s \in Sessions PROVE UpTo(out'[s], hi) /\ Continued(out[s], out'[s], lo, hi)
  <2>1. UpTo(out[s], lo)
    BY DEF OlderThanQueue, lo
  <2>2. Continued(out[s], out'[s], lo, hi)
    <3>1. CASE s = c
      BY <1>4, <3>1
    <3>2. CASE s # c
      <4>1. Continued(out[s], out'[s], lo, lo)
        BY <3>2 DEF c, lo
      <4> QED BY <1>1, <4>1 DEF Continued
    <3> QED BY <3>1, <3>2
  <2> QED BY <1>1, <2>1, <2>2, ContinuedKeeps
<1>6. ASSUME NEW g \in DOMAIN files' PROVE UpTo(files'[g], hi)
  <2>1. UpTo(files[g], lo) /\ Continued(files[g], files'[g], lo, hi)
    BY <1>2, <1>3 DEF OlderThanQueue, lo
  <2> QED BY <1>1, <2>1, ContinuedKeeps
<1>7. OlderThanQueue'
  BY <1>5, <1>6 DEF OlderThanQueue, hi
<1>8. Stop \notin Levels /\ f # 0 => Held(files'[f]) = Held(files[f]) \cup lo + 1 .. hi
  BY <1>1, <1>2, <1>3
<1>9. FilesGoOn'
  <2> SUFFICES ASSUME Stop \notin Levels
               PROVE  /\ \A g \in DOMAIN files' : NoGaps(Held(files'[g]))
                      /\ f # 0 => (Held(files'[f]) # {} => hi \in Held(files'[f]))
    BY DEF FilesGoOn, NoGaps, c, f, hi
  <2>1. \A g \in 1 .. Len(files) : NoGaps(Held(files[g]))
    BY <1>2 DEF FilesGoOn, NoGaps
  <2>2. ASSUME f # 0
        PROVE  NoGaps(Held(files'[f])) /\ (Held(files'[f]) # {} => hi \in Held(files'[f]))
    <3> DEFINE held == Held(files[f])
    <3>0. f \in 1 .. Len(files)
      BY <1>2, <2>2
    <3>1. f \in 1 .. Len(files) /\ UpTo(files[f], lo)
      BY <1>2, <3>0 DEF OlderThanQueue, lo
    <3>2. \A i \in DOMAIN files[f] : files[f][i].n \in Nat
      <4>1. files[f] \in Seq(Lines) /\ DOMAIN files[f] = 1 .. Len(files[f])
        BY <3>1, Basics
      <4> QED BY <4>1, ElementOfSeq, EntryFields DEF Entries
    <3>3. held \subseteq 1 .. lo
      BY <1>1, <3>1, <3>2 DEF Held, UpTo
    <3>4. NoGaps(held) /\ (held = {} \/ lo \in held)
      BY <2>1, <2>2, <3>1 DEF f, c, lo
    <3>5. Held(files'[f]) = held \cup lo + 1 .. lo + Len(lines)
      BY <1>1, <1>8, <2>2
    <3> HIDE DEF held
    <3>6. /\ NoGaps(held \cup lo + 1 .. lo + Len(lines))
          /\ held \cup lo + 1 .. lo + Len(lines) # {} =>
               lo + Len(lines) \in held \cup lo + 1 .. lo + Len(lines)
      BY ONLY <1>1, <3>3, <3>4, LongerHeld
    <3> QED BY <1>1, <3>5, <3>6
  <2>3. \A g \in DOMAIN files' : g # f => NoGaps(Held(files'[g]))
    BY <1>3, <2>1
  <2>4. f \in DOMAIN files' => f # 0
    BY <1>2, <1>3
  <2> QED BY <2>2, <2>3, <2>4
<1>10. ErrorsSent'
  <2> SUFFICES ASSUME ~disposed, Stop \notin Levels, NEW n \in 1 .. hi, logged'[n] = Error
               PROVE  SentOnce(n)'
    BY DEF ErrorsSent, hi
  <2>1. CASE n \in 1 .. lo
    <3>1. logged[n] = Error /\ SentOnce(n)
      BY <2>1 DEF ErrorsSent, lo
    <3> QED BY ONLY <1>1, <1>5, <2>1, <3>1, InPlaces
  <2>2. CASE n \notin 1 .. lo
    <3>1. n - lo \in 1 .. Len(lines) /\ lo + (n - lo) = n /\ n > lo /\ n \in Nat
      BY <1>1, <2>2
    <3>2. lines[n - lo].n = n /\ lines[n - lo].level = Error
      BY <3>1 DEF NextLines, lo
    <3>3. Passes(lines[n - lo], min)
      BY <1>2, <3>2 DEF Passes, Error, Stop, Verbose
    <3>4. PICK i \in 1 .. Len(shown) : shown[i] = lines[n - lo]
      <4>1. \A k \in 1 .. Len(lines) : Passes(lines[k], min) =>
              \E i \in 1 .. Len(shown) : shown[i] = lines[k]
        <5>1. lines \in Seq(Lines) /\ Ordered(lines)
          BY <1>1
        <5> QED BY ONLY <5>1, ShownKeeps
      <4> QED BY ONLY <3>1, <3>3, <4>1
    <3>5. /\ \A s \in Sessions : DOMAIN out'[s] = 1 .. Len(out'[s])
          /\ \A s \in Sessions : s # c =>
               Continued(out[s], out'[s], lo, lo)
          /\ Continued(out[c] \o shown, out'[c], hi, hi) /\ c \in Sessions
          /\ out[c] \in Seq(Entries)
      BY <1>2, <1>5 DEF c, min, lo, hi, Continued
    <3>6. shown \in Seq(Entries)
      BY <1>1, ShownKeeps, SeqMonotonic DEF Entries
    <3> HIDE DEF shown
    <3>7. /\ Len(out[c]) + i \in 1 .. Len(out'[c]) /\ out'[c][Len(out[c]) + i].n = n
      <4> DEFINE new == out[c] \o shown
      <4>1. /\ Len(out[c]) \in Nat /\ Len(shown) \in Nat /\ Len(new) = Len(out[c]) + Len(shown)
            /\ new[Len(out[c]) + i] = shown[i]
        BY <3>5, <3>6, Joined
      <4>2. Continued(new, out'[c], hi, hi)
        BY <3>5
      <4> HIDE DEF new
      <4>3. Len(out[c]) + i \in 1 .. Len(new)
        BY <4>1
      <4>4. Len(out[c]) + i \in 1 .. Len(out'[c]) /\ out'[c][Len(out[c]) + i] = new[Len(out[c]) + i]
        BY <4>2, <4>3 DEF Continued
      <4> QED BY <3>2, <3>4, <4>1, <4>4
    <3>8. ASSUME NEW k \in Sessions, NEW j \in DOMAIN out'[k], out'[k][j].n = n
          PROVE  k = c
      <4>1. SUFFICES ASSUME k # c PROVE FALSE
        OBVIOUS
      <4>2. UpTo(out'[k], lo)
        BY <1>1, <3>5, <4>1, NothingNumbered DEF OlderThanQueue, lo
      <4> QED BY <1>1, <3>1, <3>8, <4>2 DEF UpTo
    <3>9. ASSUME NEW i1 \in DOMAIN out'[c], NEW i2 \in DOMAIN out'[c],
                 out'[c][i1].n = n, out'[c][i2].n = n
          PROVE  i1 = i2
      <4>1. Ordered(out'[c]) /\ i1 \in Int /\ i2 \in Int /\ n > 0
        <5>1. Ordered(out'[c])
          BY <1>5, <3>5 DEF UpTo
        <5>2. i1 \in Int /\ i2 \in Int
          BY <3>5
        <5>3. n > 0
          BY <1>1, <3>1
        <5> QED BY <5>1, <5>2, <5>3
      <4>2. ~(i1 < i2) /\ ~(i2 < i1)
        BY <3>1, <3>9, <4>1 DEF Ordered
      <4> QED BY <4>1, <4>2
    <3>10. \A k \in Sessions : \A j \in DOMAIN out'[k] :
             out'[k][j].n = n => k = c /\ j = Len(out[c]) + i
      BY <3>5, <3>7, <3>8, <3>9
    <3> QED BY <3>5, <3>7, <3>10 DEF SentOnce
  <2> QED BY <2>1, <2>2
<1> QED BY <1>3, <1>7, <1>8, <1>9, <1>10 DEF f, c, lo, hi

-----------------------------------------------------------------------------
(* The steps *)

LEMMA SentAfter ==
  ASSUME NEW old \in Seq(Entries), NEW sent \in {<<>>, <<Message>>}, NEW lo \in Nat
  PROVE  old \o sent \in Seq(Entries) /\ Continued(old, old \o sent, lo, lo)
<1>1. sent \in Seq(Entries) /\ \A e \in Entries : e.n \in Nat
  <2>1. <<Message>> \in Seq(Entries) /\ <<>> \in Seq(Entries)
    BY EntryFields
  <2> QED BY <2>1, EntryFields
<1>2. \A i \in 1 .. Len(sent) : sent[i].n = 0
  BY EntryFields
<1>3. DOMAIN sent = 1 .. Len(sent)
  BY <1>1, LenProperties
<1>4. Ordered(sent)
  BY <1>2, <1>3 DEF Ordered
<1> QED BY <1>1, <1>2, <1>4, JoinedContinues

\* What _write makes of the log.
LEMMA WriteFacts ==
  ASSUME LoggerTypeOK, QueueIsLast, NEW s, NEW level \in LogLevels \cup {Verbose},
         NEW sent \in {<<>>, <<Message>>}, _write(s, Line(level), sent)
  PROVE  /\ Line(level) \in Lines /\ Line(level).n = Len(logged) + 1 /\ Line(level).level = level
         /\ logged' \in Seq(LogLevels \cup {Verbose}) /\ Len(logged') = Len(logged) + 1
         /\ DOMAIN logged' = 1 .. Len(logged) + 1 /\ Len(logged') <= MaxLogged
         /\ logged'[Len(logged) + 1] = level
         /\ \A i \in 1 .. Len(logged) : logged'[i] = logged[i]
<1>1. /\ Len(logged) \in Nat /\ logged \in Seq(LogLevels \cup {Verbose}) /\ DOMAIN logged = 1 .. Len(logged)
  BY Basics DEF LoggerTypeOK
<1>2. Len(logged) < MaxLogged /\ logged' = Append(logged, level) /\ level \in Verbose .. Error
  BY LoggerAssumption DEF _write, Line, Verbose, Error
<1>3. Line(level) \in Lines /\ Line(level).n = Len(logged) + 1 /\ Line(level).level = level
  BY <1>1, <1>2, LoggerAssumption DEF Line, Lines
<1>4. /\ logged' \in Seq(LogLevels \cup {Verbose}) /\ Len(logged') = Len(logged) + 1
      /\ logged'[Len(logged) + 1] = level
      /\ \A i \in 1 .. Len(logged) : logged'[i] = logged[i]
  BY <1>1, <1>2, AppendProperties
<1>5. DOMAIN logged' = 1 .. Len(logged')
  BY <1>4, LenProperties
<1>6. Len(logged') <= MaxLogged
  BY <1>1, <1>2, <1>4, LoggerAssumption
<1> QED BY <1>3, <1>4, <1>5, <1>6

LEMMA QueuedKeeps ==
  ASSUME LoggerIInv, NEW s, NEW level \in LogLevels \cup {Verbose},
         NEW sent \in {<<>>, <<Message>>}, _write(s, Line(level), sent), queueing
  PROVE  LoggerIInv'
<1>0. LoggerTypeOK /\ QueueIsLast /\ OlderThanQueue /\ StartedFirst /\ StoppedBySetup
      /\ FilesGoOn /\ FirstSetup /\ ErrorsSent
  BY DEF LoggerIInv
<1> DEFINE line == Line(level)
<1>1. /\ line \in Lines /\ line.n = Len(logged) + 1 /\ line.level = level
      /\ logged' \in Seq(LogLevels \cup {Verbose}) /\ Len(logged') = Len(logged) + 1
      /\ Len(logged') <= MaxLogged /\ logged'[Len(logged) + 1] = level
      /\ \A i \in 1 .. Len(logged) : logged'[i] = logged[i]
  BY <1>0, WriteFacts
<1>2. /\ pendingLogQ' = Append(pendingLogQ, line) /\ files' = files
      /\ out' = [m \in Sessions |-> out[m] \o <<>> \o (IF m = s THEN sent ELSE <<>>)]
      /\ UNCHANGED <<queueing, current, minLogLevel, stream, listeners, opening, settled, asked,
                     exited, started, disposed, ended, replaced>>
  BY DEF _write, Queues, setupVars, fates
<1>3. /\ Len(logged) \in Nat /\ Len(pendingLogQ) \in Nat /\ gone \in Nat
      /\ Len(logged) = gone + Len(pendingLogQ)
      /\ DOMAIN pendingLogQ = 1 .. Len(pendingLogQ) /\ pendingLogQ \in Seq(Lines)
      /\ \A m \in Sessions : out[m] \in Seq(Entries)
      /\ Len(files) \in Nat /\ DOMAIN files = 1 .. Len(files)
      /\ \A f \in 1 .. Len(files) : files[f] \in Seq(Lines)
  BY <1>0, Basics
<1> HIDE DEF line
<1>4. /\ pendingLogQ' \in Seq(Lines) /\ Len(pendingLogQ') = Len(pendingLogQ) + 1
      /\ pendingLogQ'[Len(pendingLogQ) + 1] = line
      /\ \A i \in 1 .. Len(pendingLogQ) : pendingLogQ'[i] = pendingLogQ[i]
      /\ DOMAIN pendingLogQ' = 1 .. Len(pendingLogQ) + 1
  <2>1. /\ pendingLogQ' \in Seq(Lines) /\ Len(pendingLogQ') = Len(pendingLogQ) + 1
        /\ pendingLogQ'[Len(pendingLogQ) + 1] = line
        /\ \A i \in 1 .. Len(pendingLogQ) : pendingLogQ'[i] = pendingLogQ[i]
    BY <1>1, <1>2, <1>3, AppendProperties
  <2> QED BY <2>1, LenProperties
<1>5. gone' = gone
  BY <1>1, <1>3, <1>4 DEF gone
<1>6. QueueIsLast'
  <2>1. ASSUME NEW i \in 1 .. Len(pendingLogQ) + 1
        PROVE  pendingLogQ'[i].n = gone + i /\ pendingLogQ'[i].level = logged'[gone + i]
    <3>1. CASE i = Len(pendingLogQ) + 1
      BY <1>1, <1>3, <1>4, <3>1
    <3>2. CASE i \in 1 .. Len(pendingLogQ)
      <4>1. gone + i \in 1 .. Len(logged)
        BY <1>3, <3>2
      <4> QED BY <1>0, <1>1, <1>3, <1>4, <3>2, <4>1 DEF QueueIsLast
    <3> QED BY <1>3, <3>1, <3>2
  <2> QED BY <1>1, <1>3, <1>4, <1>5, <2>1 DEF QueueIsLast
<1>7. ASSUME NEW m \in Sessions
      PROVE  out'[m] \in Seq(Entries) /\ Continued(out[m], out'[m], gone, gone)
  <2>1. out'[m] = out[m] \o (IF m = s THEN sent ELSE <<>>)
    BY <1>2, <1>3, ConcatEmptySeq
  <2>2. (IF m = s THEN sent ELSE <<>>) \in {<<>>, <<Message>>}
    OBVIOUS
  <2> QED BY <1>3, <2>1, <2>2, SentAfter
<1>8. LoggerTypeOK'
  <2>1. out' \in [Sessions -> Seq(Entries)]
    BY <1>2, <1>7
  <2> QED BY <1>0, <1>1, <1>2, <1>4, <2>1 DEF LoggerTypeOK, Entries
<1>9. OlderThanQueue' /\ FilesGoOn' /\ ErrorsSent'
  <2>1. \A f \in 1 .. Len(files) : Continued(files[f], files[f], gone, gone)
    BY <1>3, ContinuedItself, EntryFields DEF Entries
  <2>2. Levels' = Levels
    BY <1>2 DEF Levels
  <2>3. \A n \in 1 .. gone : logged'[n] = logged[n]
    BY <1>1, <1>3
  <2> QED BY <1>0, <1>2, <1>3, <1>5, <1>6, <1>7, <1>8, <2>1, <2>2, <2>3, NothingFlushed
<1>10. StartedFirst' /\ StoppedBySetup'
  BY <1>0, <1>2 DEF StartedFirst, StoppedBySetup, Levels
<1>11. FirstSetup'
  BY <1>0, <1>2, <1>5 DEF FirstSetup, Levels, OneSetup
<1> QED BY <1>6, <1>8, <1>9, <1>10, <1>11 DEF LoggerIInv

LEMMA UnheardKeeps ==
  ASSUME LoggerIInv, NEW s, NEW level \in LogLevels \cup {Verbose},
         NEW sent \in {<<>>, <<Message>>}, _write(s, Line(level), sent),
         ~queueing, current = NoSession
  PROVE  LoggerIInv'
<1>0. LoggerTypeOK /\ QueueIsLast /\ OlderThanQueue /\ StartedFirst /\ StoppedBySetup
      /\ FilesGoOn /\ FirstSetup /\ ErrorsSent
  BY DEF LoggerIInv
<1>1. /\ logged' \in Seq(LogLevels \cup {Verbose}) /\ Len(logged') = Len(logged) + 1
      /\ Len(logged') <= MaxLogged
  BY <1>0, WriteFacts
<1>2. /\ pendingLogQ' = pendingLogQ /\ files' = files
      /\ out' = [m \in Sessions |-> out[m] \o <<>> \o (IF m = s THEN sent ELSE <<>>)]
      /\ UNCHANGED <<queueing, current, minLogLevel, stream, listeners, opening, settled, asked,
                     exited, started, disposed, ended, replaced>>
  BY DEF _write, Queues, setupVars, fates
<1>3. /\ Len(logged) \in Nat /\ Len(pendingLogQ) = 0 /\ gone \in Nat
      /\ DOMAIN pendingLogQ = 1 .. Len(pendingLogQ)
      /\ \A m \in Sessions : out[m] \in Seq(Entries)
  BY <1>0, Basics
<1>4. QueueIsLast' /\ gone <= gone'
  BY <1>1, <1>2, <1>3 DEF QueueIsLast, gone
<1>5. ASSUME NEW m \in Sessions
      PROVE  out'[m] \in Seq(Entries) /\ Continued(out[m], out'[m], gone, gone)
  <2>1. out'[m] = out[m] \o (IF m = s THEN sent ELSE <<>>)
    BY <1>2, <1>3, ConcatEmptySeq
  <2>2. (IF m = s THEN sent ELSE <<>>) \in {<<>>, <<Message>>}
    OBVIOUS
  <2> QED BY <1>3, <2>1, <2>2, SentAfter
<1>6. LoggerTypeOK'
  <2>1. out' \in [Sessions -> Seq(Entries)]
    BY <1>2, <1>5
  <2> QED BY <1>0, <1>1, <1>2, <2>1 DEF LoggerTypeOK, Entries
<1>7. disposed
  BY <1>0 DEF StartedFirst
<1>8. OlderThanQueue' /\ FilesGoOn' /\ ErrorsSent'
  BY <1>0, <1>2, <1>4, <1>5, <1>6, <1>7, Dropped DEF Levels
<1>9. StartedFirst' /\ StoppedBySetup'
  BY <1>0, <1>2 DEF StartedFirst, StoppedBySetup, Levels
<1>10. FirstSetup'
  BY <1>0, <1>2 DEF FirstSetup, Levels
<1> QED BY <1>4, <1>6, <1>8, <1>9, <1>10 DEF LoggerIInv

LEMMA DirectKeeps ==
  ASSUME LoggerIInv, NEW s, NEW level \in LogLevels \cup {Verbose},
         NEW sent \in {<<>>, <<Message>>}, _write(s, Line(level), sent),
         ~queueing, current # NoSession
  PROVE  LoggerIInv'
<1>0. LoggerTypeOK /\ QueueIsLast /\ OlderThanQueue /\ StartedFirst /\ StoppedBySetup
      /\ FilesGoOn /\ FirstSetup /\ ErrorsSent
  BY DEF LoggerIInv
<1> DEFINE line == Line(level)
           lines == <<line>>
           min == minLogLevel[current]
           shown == Shown(lines, min)
<1>1. /\ line \in Lines /\ line.n = Len(logged) + 1 /\ line.level = level
      /\ logged' \in Seq(LogLevels \cup {Verbose}) /\ Len(logged') = Len(logged) + 1
      /\ Len(logged') <= MaxLogged /\ logged'[Len(logged) + 1] = level
      /\ \A i \in 1 .. Len(logged) : logged'[i] = logged[i]
  BY <1>0, WriteFacts
<1>2. /\ pendingLogQ' = pendingLogQ /\ files' = Filed(current, lines, min)
      /\ out' = [m \in Sessions |-> out[m] \o (IF m = current THEN Shown(lines, minLogLevel[m])
                                                              ELSE <<>>)
                                           \o (IF m = s THEN sent ELSE <<>>)]
      /\ UNCHANGED <<queueing, current, minLogLevel, stream, listeners, opening, settled, asked,
                     exited, started, disposed, ended, replaced>>
  BY DEF _write, Queues, setupVars, fates
<1>3. /\ Len(logged) \in Nat /\ Len(pendingLogQ) = 0 /\ gone \in Nat /\ Len(logged) = gone
      /\ DOMAIN pendingLogQ = 1 .. Len(pendingLogQ)
      /\ \A m \in Sessions : out[m] \in Seq(Entries)
      /\ Len(files) \in Nat /\ DOMAIN files = 1 .. Len(files)
      /\ \A l \in Sessions : stream[l] \in 0 .. Len(files)
      /\ current \in Sessions
  <2>1. current \in Sessions
    BY <1>0 DEF LoggerTypeOK
  <2> QED BY <1>0, <2>1, Basics
<1> HIDE DEF line
<1>4. lines \in Seq(Lines) /\ Len(lines) = 1 /\ lines[1] = line
  BY <1>1
<1>5. QueueIsLast' /\ gone' = gone + Len(lines) /\ gone' \in Nat
  BY <1>1, <1>2, <1>3, <1>4 DEF QueueIsLast, gone
<1> HIDE DEF lines
<1>6. NextLines(lines)
  BY <1>1, <1>3, <1>4 DEF NextLines
<1>7. Len(lines) \in Nat /\ Ordered(lines)
  BY <1>3, <1>6, NextLinesHeld
<1>8. shown \in Seq(Entries)
  BY <1>4, <1>7, ShownKeeps, SeqMonotonic DEF Entries
<1>9. \A m \in Sessions : (IF m = s THEN sent ELSE <<>>) \in {<<>>, <<Message>>}
  OBVIOUS
<1> HIDE DEF shown
<1>10. ASSUME NEW m \in Sessions, m # current
       PROVE  out'[m] \in Seq(Entries) /\ Continued(out[m], out'[m], gone, gone)
  <2>1. out'[m] = out[m] \o (IF m = s THEN sent ELSE <<>>)
    BY <1>2, <1>3, <1>10, ConcatEmptySeq
  <2> QED BY <1>3, <1>9, <2>1, SentAfter
<1>11. out'[current] \in Seq(Entries) /\ Continued(out[current] \o shown, out'[current], gone', gone')
  <2>1. out'[current] = (out[current] \o shown) \o (IF current = s THEN sent ELSE <<>>)
    BY <1>2, <1>3 DEF shown
  <2>2. out[current] \o shown \in Seq(Entries)
    BY <1>3, <1>8, ConcatProperties
  <2> DEFINE old == out[current] \o shown
             after == IF current = s THEN sent ELSE <<>>
  <2>3. old \in Seq(Entries) /\ after \in {<<>>, <<Message>>}
    BY <1>3, <1>9, <2>2
  <2>4. out'[current] = old \o after
    BY <2>1
  <2> HIDE DEF old, after
  <2>5. old \o after \in Seq(Entries) /\ Continued(old, old \o after, gone', gone')
    BY <1>5, <2>3, SentAfter
  <2> QED BY <2>4, <2>5 DEF old
<1>12. files' \in Seq(Seq(Lines)) /\ Len(files') = Len(files)
  <2>1. /\ Ordered(lines) /\ lines \in Seq(Lines) /\ files \in Seq(Seq(Lines))
        /\ stream[current] \in 0 .. Len(files) /\ gone + 1 \in Nat
    BY <1>0, <1>3, <1>4, <1>7 DEF LoggerTypeOK
  <2>2. Within(lines, gone, gone + 1)
    BY <1>1, <1>3, <1>4 DEF Within
  <2>3. Filed(current, lines, min) \in Seq(Seq(Lines)) /\ Len(Filed(current, lines, min)) = Len(files)
    <3> HIDE DEF min
    <3> QED BY ONLY <1>3, <2>1, <2>2, FiledContinues
  <2> QED BY <1>2, <2>3
<1>13. LoggerTypeOK'
  <2>1. out' \in [Sessions -> Seq(Entries)]
    BY <1>2, <1>10, <1>11
  <2> QED BY <1>0, <1>1, <1>2, <1>12, <2>1 DEF LoggerTypeOK, Entries
<1>14. Levels' = Levels
  BY <1>2 DEF Levels
<1>15. /\ OlderThanQueue' /\ FilesGoOn' /\ ErrorsSent'
       /\ DOMAIN files' = 1 .. Len(files)
       /\ \A f \in 1 .. Len(files) : f # stream[current] => files'[f] = files[f]
       /\ stream[current] # 0 /\ Stop \notin Levels =>
            Held(files'[stream[current]]) = Held(files[stream[current]]) \cup gone + 1 .. gone'
  <2>1. Stop \notin Levels /\ stream[current] # 0 =>
           Held(files[stream[current]]) = {} \/ gone \in Held(files[stream[current]])
    BY <1>0 DEF FilesGoOn
  <2>2. \A n \in 1 .. gone : logged'[n] = logged[n]
    BY <1>1, <1>3
  <2>3. files' = Filed(current, lines, minLogLevel[current])
        /\ Continued(out[current] \o Shown(lines, minLogLevel[current]), out'[current], gone', gone')
    BY <1>2, <1>11 DEF shown
  <2> QED BY <1>0, <1>2, <1>3, <1>5, <1>6, <1>10, <1>13, <1>14, <2>1, <2>2, <2>3, HandedOver
<1>16. StartedFirst' /\ StoppedBySetup'
  BY <1>0, <1>2, <1>14 DEF StartedFirst, StoppedBySetup
<1>17. FirstSetup'
  <2> SUFFICES ASSUME Stop \notin Levels, Len(asked) <= 1 PROVE FirstSetup'
    BY <1>2, <1>14 DEF FirstSetup
  <2>1. /\ Len(asked) = 1 /\ settled = 0 /\ \A l \in Sessions : opening[l] = 0
        /\ \A f \in DOMAIN files : Held(files[f]) # {} => 1 \in Held(files[f])
        /\ stream[current] # 0 => (logged # <<>> => 1 \in Held(files[stream[current]]))
    BY <1>0 DEF FirstSetup
  <2>2. logged = <<>> => gone + 1 = 1 /\ gone' = 1
    BY <1>3, <1>4, <1>5
  <2>3. stream[current] # 0 => 1 \in Held(files'[stream[current]])
    <3>1. CASE logged = <<>>
      BY <1>15, <2>2, <3>1
    <3>2. CASE logged # <<>>
      BY <1>15, <2>1, <3>2
    <3> QED BY <3>1, <3>2
  <2>4. \A f \in DOMAIN files' : Held(files'[f]) # {} => 1 \in Held(files'[f])
    <3>1. stream[current] \in DOMAIN files' => stream[current] # 0
      BY <1>3, <1>15
    <3> QED BY <1>3, <1>15, <2>1, <2>3, <3>1
  <2> QED BY <1>2, <2>1, <2>3, <2>4 DEF FirstSetup
<1> QED BY <1>5, <1>13, <1>15, <1>16, <1>17 DEF LoggerIInv

LEMMA SameContinues ==
  ASSUME LoggerTypeOK, QueueIsLast
  PROVE  /\ \A s \in Sessions : Continued(out[s], out[s], gone, gone)
         /\ \A f \in 1 .. Len(files) : f \in DOMAIN files /\ Continued(files[f], files[f], gone, gone)
<1>1. /\ \A s \in Sessions : out[s] \in Seq(Entries)
      /\ DOMAIN files = 1 .. Len(files) /\ \A f \in 1 .. Len(files) : files[f] \in Seq(Lines)
  BY Basics
<1>2. \A e \in Entries : e.n \in Nat
  BY EntryFields
<1> QED BY <1>1, <1>2, ContinuedItself DEF Entries

\* A step that changes neither the lines nor the queue.
LEMMA SameLog ==
  ASSUME LoggerIInv, LoggerTypeOK', UNCHANGED <<pendingLogQ, logged, files, out, asked>>,
         disposed => disposed',
         current' # NoSession /\ stream'[current'] # 0 =>
            current' = current /\ stream'[current'] = stream[current] /\ queueing' = queueing
  PROVE  QueueIsLast' /\ OlderThanQueue' /\ FilesGoOn' /\ ErrorsSent'
<1>1. LoggerTypeOK /\ QueueIsLast /\ OlderThanQueue /\ FilesGoOn /\ ErrorsSent
  BY DEF LoggerIInv
<1>2. QueueIsLast' /\ gone' = gone /\ Levels' = Levels
  BY <1>1 DEF QueueIsLast, gone, Levels
<1>3. DOMAIN files = 1 .. Len(files)
  BY <1>1, Basics
<1>4. OlderThanQueue' /\ FilesGoOn' /\ ErrorsSent'
  BY <1>1, <1>2, <1>3, SameContinues, NothingFlushed
<1> QED BY <1>2, <1>4

LEMMA FlushKeeps == LoggerIInv /\ Flush => LoggerIInv'
<1> SUFFICES ASSUME LoggerIInv, Flush PROVE LoggerIInv'
  OBVIOUS
<1>0. LoggerTypeOK /\ QueueIsLast /\ OlderThanQueue /\ StartedFirst /\ StoppedBySetup
      /\ FilesGoOn /\ FirstSetup /\ ErrorsSent
  BY DEF LoggerIInv
<1>1. /\ settled > 0 /\ settled' = settled - 1 /\ ~queueing' /\ queueing' \in BOOLEAN /\ pendingLogQ' = <<>>
      /\ UNCHANGED <<current, minLogLevel, stream, listeners, opening, exited, started,
                     logged, asked, disposed, ended, replaced>>
  BY DEF Flush, NoQueue, fates
<1>2. settled \in Nat /\ settled' \in Nat
  BY <1>0, <1>1 DEF LoggerTypeOK
<1>3. /\ Len(logged) \in Nat /\ gone \in Nat /\ Len(pendingLogQ) \in Nat
      /\ Len(logged) = gone + Len(pendingLogQ) /\ pendingLogQ \in Seq(Lines)
      /\ DOMAIN pendingLogQ = 1 .. Len(pendingLogQ)
      /\ Len(files) \in Nat /\ DOMAIN files = 1 .. Len(files) /\ files \in Seq(Seq(Lines))
      /\ Ordered(pendingLogQ) /\ (~queueing => Len(pendingLogQ) = 0)
      /\ \A m \in Sessions : out[m] \in Seq(Entries)
  BY <1>0, Basics
<1>4. gone' = Len(logged) /\ QueueIsLast' /\ Levels' = Levels
  BY <1>1, <1>3 DEF gone, QueueIsLast, Levels
<1>5. started # {}
  BY <1>0, <1>1, <1>2 DEF StartedFirst
<1>6. StartedFirst' /\ StoppedBySetup'
  BY <1>0, <1>1, <1>4, <1>5 DEF StartedFirst, StoppedBySetup
<1>7. Stop \notin Levels /\ Len(asked) <= 1 =>
        /\ queueing /\ gone = 0 /\ Len(asked) = 1 /\ settled' = 0
        /\ \A l \in Sessions : opening[l] = 0
        /\ \A f \in DOMAIN files : Held(files[f]) = {}
  <2> SUFFICES ASSUME Stop \notin Levels, Len(asked) <= 1
               PROVE  /\ queueing /\ gone = 0 /\ Len(asked) = 1 /\ settled' = 0
                      /\ \A l \in Sessions : opening[l] = 0
                      /\ \A f \in DOMAIN files : Held(files[f]) = {}
    OBVIOUS
  <2>1. queueing /\ gone = 0 /\ OneSetup /\ \A f \in DOMAIN files : Held(files[f]) = {}
    BY <1>0, <1>1, <1>2 DEF FirstSetup
  <2>2. Len(asked) \in Nat /\ \A l \in Sessions : opening[l] \in Nat
    <3>1. Len(asked) \in Nat
      BY <1>0, Basics
    <3>2. opening \in [Sessions -> 0 .. Len(asked)]
      BY <1>0 DEF LoggerTypeOK
    <3> QED BY <3>1, <3>2
  <2>3. settled = 1 /\ Len(asked) = 1
    <3>1. settled <= Len(asked)
      BY <2>1 DEF OneSetup
    <3>2. Len(asked) \in Nat /\ settled \in Nat
      BY <1>2, <2>2
    <3>3. settled > 0
      BY <1>1
    <3> DEFINE n == Len(asked)
    <3>4. n \in Nat /\ settled \in Nat /\ settled > 0 /\ settled <= n /\ n <= 1
      BY <3>1, <3>2, <3>3
    <3> HIDE DEF n
    <3>5. settled = 1
      BY ONLY <3>4
    <3>6. n = 1
      BY ONLY <3>4
    <3> QED BY <3>5, <3>6 DEF n
  <2>4. \A l \in Sessions : opening[l] = 0
    BY <2>1, <2>2, <2>3 DEF OneSetup
  <2> QED BY <1>1, <2>1, <2>3, <2>4
<1>8. CASE queueing /\ current # NoSession
  <2> DEFINE min == minLogLevel[current]
             lines == pendingLogQ
             shown == Shown(lines, min)
  <2>1. /\ current \in Sessions
        /\ out' = [out EXCEPT ![current] = @ \o shown] /\ files' = Filed(current, lines, min)
    BY <1>0, <1>1, <1>8 DEF Flush, InternalLog, LoggerTypeOK
  <2>2. NextLines(lines) /\ gone' = gone + Len(lines)
    BY <1>0, <1>1, <1>3, <1>4 DEF NextLines, QueueIsLast
  <2>3. Within(lines, gone, gone')
    <3>1. \A i \in 1 .. Len(lines) : gone < lines[i].n /\ lines[i].n <= gone + Len(lines)
      BY <1>3, <2>2, NextLinesHeld
    <3> QED BY <2>2, <3>1 DEF Within
  <2>4. stream[current] \in 0 .. Len(files) /\ gone' \in Nat
    BY <1>3, <1>4, <2>1, <1>0 DEF LoggerTypeOK
  <2>5. files' \in Seq(Seq(Lines)) /\ Len(files') = Len(files)
    <3> HIDE DEF min
    <3>1. Filed(current, lines, min) \in Seq(Seq(Lines)) /\ Len(Filed(current, lines, min)) = Len(files)
      BY ONLY <1>3, <2>3, <2>4, FiledContinues
    <3> QED BY <2>1, <3>1 DEF min
  <2>6. shown \in Seq(Entries)
    BY <1>3, ShownKeeps, SeqMonotonic DEF Entries
  <2> HIDE DEF shown
  <2>7. /\ \A m \in Sessions : out'[m] \in Seq(Entries)
        /\ out'[current] = out[current] \o shown
        /\ \A m \in Sessions : m # current => out'[m] = out[m]
        /\ out' \in [Sessions -> Seq(Entries)]
    <3>1. out[current] \o shown \in Seq(Entries)
      BY <1>3, <2>1, <2>6, ConcatProperties
    <3>2. out \in [Sessions -> Seq(Entries)]
      BY <1>0 DEF LoggerTypeOK, Entries
    <3> QED BY <2>1, <3>1, <3>2
  <2>8. LoggerTypeOK'
    <3>1. stream' \in [Sessions -> 0 .. Len(files')]
      BY <1>0, <1>1, <2>5 DEF LoggerTypeOK
    <3> QED BY <1>0, <1>1, <1>2, <2>5, <2>7, <3>1, EmptySeq DEF LoggerTypeOK, Entries
  <2>9. /\ \A m \in Sessions : m # current => Continued(out[m], out'[m], gone, gone)
        /\ Continued(out[current] \o shown, out'[current], gone', gone')
    <3>1. \A e \in Entries : e.n \in Nat
      BY EntryFields
    <3> QED BY <2>1, <2>7, <3>1, ContinuedItself
  <2>10. /\ OlderThanQueue' /\ FilesGoOn' /\ ErrorsSent'
         /\ DOMAIN files' = 1 .. Len(files)
         /\ \A f \in 1 .. Len(files) : f # stream[current] => files'[f] = files[f]
         /\ stream[current] # 0 /\ Stop \notin Levels =>
              Held(files'[stream[current]]) = Held(files[stream[current]]) \cup gone + 1 .. gone'
    <3>1. Stop \notin Levels /\ stream[current] # 0 =>
             Held(files[stream[current]]) = {} \/ gone \in Held(files[stream[current]])
      BY <1>0, <1>8 DEF FilesGoOn
    <3>2. /\ files' = Filed(current, lines, minLogLevel[current])
          /\ Continued(out[current] \o Shown(lines, minLogLevel[current]), out'[current], gone', gone')
      BY <2>1, <2>9 DEF shown
    <3> HIDE DEF lines, min
    <3> QED BY <1>0, <1>1, <1>4, <2>1, <2>2, <2>8, <2>9, <3>1, <3>2, HandedOver
  <2>11. FirstSetup'
    <3> SUFFICES ASSUME Stop \notin Levels, Len(asked) <= 1 PROVE FirstSetup'
      BY <1>1, <1>4 DEF FirstSetup
    <3>1. \A f \in 1 .. Len(files) : Held(files[f]) = {}
      BY <1>3, <1>7
    <3>2. stream[current] # 0 => Held(files'[stream[current]]) = 1 .. gone'
      <4>1. stream[current] # 0 => stream[current] \in 1 .. Len(files)
        BY <1>3, <2>4
      <4>2. gone + 1 = 1
        BY <1>7
      <4> QED BY <2>10, <3>1, <4>1, <4>2
    <3>3. \A f \in DOMAIN files' : Held(files'[f]) # {} => 1 \in Held(files'[f])
      <4>1. \A f \in DOMAIN files' : (f = stream[current] /\ f # 0) \/ Held(files'[f]) = {}
        BY <1>3, <2>10, <3>1
      <4>2. 1 .. gone' # {} => 1 \in 1 .. gone'
        BY <2>4
      <4> QED BY <3>2, <4>1, <4>2
    <3>4. logged # <<>> => 1 \in 1 .. gone'
      <4>1. logged # <<>> => Len(logged) # 0
        BY <1>0, EmptySeq DEF LoggerTypeOK
      <4> QED BY <1>3, <1>4, <4>1
    <3> QED BY <1>1, <1>7, <3>2, <3>3, <3>4 DEF FirstSetup
  <2> QED BY <1>4, <1>6, <2>8, <2>10, <2>11 DEF LoggerIInv
<1>9. CASE ~(queueing /\ current # NoSession)
  <2>1. UNCHANGED <<out, files>>
    BY <1>9 DEF Flush
  <2>2. LoggerTypeOK'
    BY <1>0, <1>1, <1>2, <2>1, EmptySeq DEF LoggerTypeOK
  <2>3. OlderThanQueue' /\ FilesGoOn' /\ ErrorsSent'
    <3>1. CASE ~queueing
      <4>1. gone' = gone
        BY <1>3, <1>4, <3>1
      <4>2. queueing' = queueing
        BY <1>0, <1>1, <3>1 DEF LoggerTypeOK
      <4> QED BY <1>0, <1>1, <1>3, <1>4, <2>1, <2>2, <4>1, <4>2, SameContinues, NothingFlushed
    <3>2. CASE queueing
      <4>1. disposed /\ current = NoSession /\ gone <= gone'
        BY <1>0, <1>3, <1>4, <1>5, <1>9, <3>2 DEF StartedFirst
      <4> QED BY <1>0, <1>1, <1>4, <2>1, <2>2, <4>1, SameContinues, Dropped
    <3> QED BY <3>1, <3>2
  <2>4. FirstSetup'
    BY <1>1, <1>4, <1>7, <1>9, <2>1 DEF FirstSetup
  <2> QED BY <1>4, <1>6, <2>2, <2>3, <2>4 DEF LoggerIInv
<1> QED BY <1>8, <1>9

LEMMA StartKeeps == ASSUME LoggerIInv, NEW s \in Sessions, Start(s) PROVE LoggerIInv'
<1>0. LoggerTypeOK /\ QueueIsLast /\ OlderThanQueue /\ StartedFirst /\ StoppedBySetup
      /\ FilesGoOn /\ FirstSetup /\ ErrorsSent
  BY DEF LoggerIInv
<1>1. /\ s \notin started /\ started' = started \cup {s} /\ queueing' = TRUE
      /\ pendingLogQ' = pendingLogQ /\ current' = s
      /\ UNCHANGED <<minLogLevel, stream, files, listeners, opening, settled, asked, exited,
                     out, logged, disposed, ended, replaced>>
  BY DEF Start, QueueOfInit, setupVars, fates
<1>2. LoggerTypeOK'
  BY <1>0, <1>1 DEF LoggerTypeOK
<1>3. stream[s] = 0
  BY <1>0, <1>1 DEF StartedFirst
<1>4. QueueIsLast' /\ OlderThanQueue' /\ FilesGoOn' /\ ErrorsSent'
  BY <1>1, <1>2, <1>3, SameLog
<1>5. s # NoSession
  BY LoggerAssumption
<1>6. StartedFirst' /\ StoppedBySetup'
  BY <1>0, <1>1, <1>5 DEF StartedFirst, StoppedBySetup, Levels
<1>7. FirstSetup'
  <2>1. gone' = gone
    BY <1>1 DEF gone
  <2> QED BY <1>0, <1>1, <1>3, <2>1 DEF FirstSetup, OneSetup, Levels
<1> QED BY <1>2, <1>4, <1>6, <1>7 DEF LoggerIInv

LEMMA InRange ==
  ASSUME NEW S, NEW seq \in Seq(S), NEW e
  PROVE  e \in Range(seq) <=> \E i \in 1 .. Len(seq) : seq[i] = e
<1>1. Range(seq) = {seq[i] : i \in 1 .. Len(seq)}
  BY RangeEquality
<1> QED BY <1>1

\* Another registration makes the sequence longer, and takes none away.
LEMMA AppendKeeps ==
  ASSUME NEW S, NEW seq \in Seq(S), NEW l \in S
  PROVE  /\ Append(seq, l) \in Seq(S)
         /\ Range(Append(seq, l)) = Range(seq) \cup {l}
<1> DEFINE longer == Append(seq, l)
<1>1. /\ longer \in Seq(S) /\ Len(seq) \in Nat /\ Len(longer) = Len(seq) + 1
      /\ longer[Len(seq) + 1] = l /\ \A i \in 1 .. Len(seq) : longer[i] = seq[i]
  BY AppendProperties, LenProperties
<1> HIDE DEF longer
<1>2. \A i \in 1 .. Len(longer) : i \in 1 .. Len(seq) \/ i = Len(seq) + 1
  BY <1>1
<1>3. Len(seq) + 1 \in 1 .. Len(longer) /\ 1 .. Len(seq) \subseteq 1 .. Len(longer)
  BY <1>1
<1>4. ASSUME NEW e PROVE e \in Range(longer) <=> e \in Range(seq) \cup {l}
  BY <1>1, <1>2, <1>3, InRange
<1> QED BY <1>1, <1>4 DEF longer

\* Removing one registration keeps those of the other loggers.
LEMMA RemoveKeeps ==
  ASSUME NEW S, NEW seq \in Seq(S), NEW i \in 1 .. Len(seq)
  PROVE  /\ RemoveAt(seq, i) \in Seq(S)
         /\ \A e \in Range(seq) : e # seq[i] => e \in Range(RemoveAt(seq, i))
<1> DEFINE n == Len(seq)
           before == SubSeq(seq, 1, i - 1)
           after == SubSeq(seq, i + 1, n)
           rest == before \o after
<1>1. n \in Nat /\ i \in Nat /\ 1 <= i /\ i <= n /\ \A j \in 1 .. n : seq[j] \in S
  BY LenProperties, ElementOfSeq
<1> HIDE DEF n
<1>2. /\ i - 1 \in Int /\ i + 1 \in Int /\ n \in Int /\ 1 \in Int
      /\ \A j \in 1 .. i - 1 : seq[j] \in S
      /\ \A j \in i + 1 .. n : seq[j] \in S
  BY <1>1
<1>3. /\ before \in Seq(S)
      /\ Len(before) = (IF 1 <= i - 1 THEN (i - 1) - 1 + 1 ELSE 0)
      /\ \A j \in 1 .. (i - 1) - 1 + 1 : before[j] = seq[1 + j - 1]
  BY ONLY <1>2, SubSeqProperties
<1>4. /\ after \in Seq(S)
      /\ Len(after) = (IF i + 1 <= n THEN n - (i + 1) + 1 ELSE 0)
      /\ \A j \in 1 .. n - (i + 1) + 1 : after[j] = seq[(i + 1) + j - 1]
  BY ONLY <1>2, SubSeqProperties
<1> HIDE DEF before, after
<1>5. /\ Len(before) = i - 1 /\ \A j \in 1 .. i - 1 : before[j] = seq[j]
  <2>1. Len(before) = i - 1
    BY <1>1, <1>3
  <2>2. ASSUME NEW j \in 1 .. i - 1 PROVE before[j] = seq[j]
    <3>1. j \in 1 .. (i - 1) - 1 + 1 /\ 1 + j - 1 = j
      BY <1>1
    <3> QED BY <1>3, <3>1
  <2> QED BY <2>1, <2>2
<1>6. Len(after) = n - i
  BY <1>1, <1>4
<1>7. /\ rest \in Seq(S) /\ Len(rest) = Len(before) + Len(after)
      /\ \A j \in 1 .. Len(before) + Len(after) :
           rest[j] = IF j <= Len(before) THEN before[j] ELSE after[j - Len(before)]
  BY ONLY <1>3, <1>4, ConcatProperties
<1> HIDE DEF rest
<1>8. Len(rest) = n - 1
  BY <1>1, <1>5, <1>6, <1>7
<1>9. ASSUME NEW e \in Range(seq), e # seq[i] PROVE e \in Range(rest)
  <2>1. PICK j \in 1 .. n : seq[j] = e
    BY InRange DEF n
  <2>2. CASE j < i
    <3>1. j \in 1 .. i - 1 /\ j \in 1 .. Len(before) + Len(after) /\ j <= Len(before)
      BY <1>1, <1>5, <1>6, <2>2
    <3>2. rest[j] = e
      BY <1>5, <1>7, <2>1, <3>1
    <3>3. j \in 1 .. Len(rest)
      BY <1>7, <3>1
    <3> QED BY <1>7, <3>2, <3>3, InRange
  <2>3. CASE j > i
    <3> DEFINE k == j - 1
    <3>1. /\ k \in 1 .. Len(before) + Len(after) /\ ~(k <= Len(before))
          /\ k - Len(before) = j - i
          /\ j - i \in 1 .. n - (i + 1) + 1 /\ (i + 1) + (j - i) - 1 = j
      BY <1>1, <1>5, <1>6, <2>3
    <3> HIDE DEF k
    <3>2. rest[k] = after[j - i]
      BY <1>7, <3>1
    <3>3. after[j - i] = seq[j]
      BY <1>4, <3>1
    <3>4. rest[k] = e /\ k \in 1 .. Len(rest)
      BY <1>7, <2>1, <3>1, <3>2, <3>3
    <3> QED BY <1>7, <3>4, InRange
  <2>4. j # i
    BY <1>9, <2>1
  <2> QED BY <1>1, <2>2, <2>3, <2>4
<1> QED BY <1>7, <1>9 DEF RemoveAt, rest, before, after, n

LEMMA UnregisterKeeps ==
  ASSUME listeners \in Seq(Sessions), NEW l, Unregister(l)
  PROVE  /\ listeners' \in Seq(Sessions)
         /\ \A m \in Range(listeners) : m # l => m \in Range(listeners')
<1> DEFINE registrations == {i \in DOMAIN listeners : listeners[i] = l}
<1>1. DOMAIN listeners = 1 .. Len(listeners)
  BY LenProperties
<1>2. CASE UNCHANGED listeners
  BY <1>2
<1>3. ASSUME NEW last \in registrations, listeners' = RemoveAt(listeners, last)
      PROVE  /\ listeners' \in Seq(Sessions)
             /\ \A m \in Range(listeners) : m # l => m \in Range(listeners')
  <2>1. last \in 1 .. Len(listeners) /\ listeners[last] = l
    BY <1>1
  <2> QED BY <1>3, <2>1, RemoveKeeps
<1> QED BY <1>2, <1>3 DEF Unregister


\* A disposal, and the end of the process, which disposes loggers.
LEMMA DisposalKeeps ==
  ASSUME LoggerIInv, exited' \in BOOLEAN, disposed' \in BOOLEAN, listeners' \in Seq(Sessions),
         stream' \in [Sessions -> Nat], \A l \in Sessions : stream'[l] \in {0, stream[l]},
         ended' \subseteq Nat, UNCHANGED replaced,
         \/ UNCHANGED <<current, disposed>>
         \/ current' = NoSession /\ disposed',
         UNCHANGED <<queueing, pendingLogQ, minLogLevel, files, opening, settled, asked, out,
                     started, logged>>
  PROVE  LoggerIInv'
<1>0. LoggerTypeOK /\ QueueIsLast /\ OlderThanQueue /\ StartedFirst /\ StoppedBySetup
      /\ FilesGoOn /\ FirstSetup /\ ErrorsSent
  BY DEF LoggerIInv
<1>1. /\ Len(files) \in Nat /\ \A l \in Sessions : stream[l] \in 0 .. Len(files)
      /\ current \in Sessions \cup {NoSession}
  BY <1>0, Basics DEF LoggerTypeOK
<1>2. LoggerTypeOK'
  <2>1. \A l \in Sessions : stream'[l] \in 0 .. Len(files)
    BY <1>1
  <2>2. stream' \in [Sessions -> 0 .. Len(files')]
    BY <2>1
  <2> QED BY <1>0, <2>2 DEF LoggerTypeOK
<1>3. current' # NoSession /\ stream'[current'] # 0 =>
         current' = current /\ current \in Sessions /\ stream'[current'] = stream[current]
  BY <1>1
<1>4. QueueIsLast' /\ OlderThanQueue' /\ FilesGoOn' /\ ErrorsSent'
  BY <1>2, <1>3, SameLog
<1>5. StartedFirst' /\ StoppedBySetup'
  BY <1>0 DEF StartedFirst, StoppedBySetup, Levels
<1>6. FirstSetup'
  <2>1. gone' = gone
    BY DEF gone
  <2> QED BY <1>0, <1>3, <2>1 DEF FirstSetup, OneSetup, Levels
<1> QED BY <1>2, <1>4, <1>5, <1>6 DEF LoggerIInv

LEMMA FileNumbers ==
  ASSUME LoggerIInv
  PROVE  ended \subseteq Nat /\ replaced \subseteq Nat /\ \A l \in Sessions : File(l) \subseteq Nat
<1>1. /\ ended \subseteq Nat /\ replaced \subseteq Nat
      /\ \A l \in Sessions : stream[l] \in 0 .. Len(files)
  BY DEF LoggerIInv, LoggerTypeOK
<1>2. Len(files) \in Nat
  BY LenProperties DEF LoggerIInv, LoggerTypeOK
<1> QED BY <1>1, <1>2 DEF File

LEMMA DisposalTypes ==
  ASSUME LoggerIInv, NEW l \in Sessions, InternalDispose(l)
  PROVE  /\ listeners' \in Seq(Sessions) /\ stream' \in [Sessions -> Nat]
         /\ ended' \subseteq Nat /\ UNCHANGED replaced
         /\ \A m \in Sessions : stream'[m] \in {0, stream[m]}
<1>1. listeners \in Seq(Sessions) /\ stream \in [Sessions -> 0 .. Len(files)] /\ Len(files) \in Nat
  BY LenProperties DEF LoggerIInv, LoggerTypeOK
<1>2. /\ Unregister(l) /\ stream' = [stream EXCEPT ![l] = 0]
      /\ ended' = ended \cup File(l) /\ UNCHANGED replaced
  BY DEF InternalDispose
<1>3. listeners' \in Seq(Sessions)
  BY <1>1, <1>2, UnregisterKeeps
<1>4. stream' \in [Sessions -> Nat]
  <2>1. \A k \in 0 .. Len(files) : k \in Nat
    BY <1>1
  <2> QED BY <1>1, <1>2, <2>1
<1>5. ended' \subseteq Nat
  BY <1>1, <1>2, FileNumbers
<1> QED BY <1>1, <1>2, <1>3, <1>4, <1>5

LEMMA EndKeeps ==
  ASSUME LoggerIInv, Dispose \/ BeforeExit \/ Signal
  PROVE  LoggerIInv'
<1>1. /\ listeners \in Seq(Sessions) /\ stream \in [Sessions -> 0 .. Len(files)] /\ Len(files) \in Nat
      /\ exited \in BOOLEAN /\ disposed \in BOOLEAN /\ current \in Sessions \cup {NoSession}
  BY LenProperties DEF LoggerIInv, LoggerTypeOK
<1>2. CASE Dispose
  <2>1. /\ current \in Sessions /\ InternalDispose(current)
        /\ current' = NoSession /\ disposed' = TRUE
        /\ UNCHANGED <<queueing, pendingLogQ, minLogLevel, files, opening, settled, asked, out,
                       started, logged, exited>>
    BY <1>1, <1>2 DEF Dispose, setupVars
  <2> QED BY <1>1, <2>1, DisposalTypes, DisposalKeeps
<1>3. CASE BeforeExit
  <2>1. /\ listeners' = <<>> /\ exited' = TRUE
        /\ stream' = [l \in Sessions |-> IF l \in Range(listeners) THEN 0 ELSE stream[l]]
        /\ ended' = ended \cup UNION {File(l) : l \in Range(listeners)}
        /\ UNCHANGED <<queueing, pendingLogQ, current, minLogLevel, files, opening, settled,
                       asked, out, started, logged, disposed, replaced>>
    BY <1>3 DEF BeforeExit, setupVars
  <2>2. listeners' \in Seq(Sessions)
    BY <2>1, EmptySeq
  <2>3. stream' \in [Sessions -> Nat] /\ \A m \in Sessions : stream'[m] \in {0, stream[m]}
    <3>1. \A k \in 0 .. Len(files) : k \in Nat
      BY <1>1
    <3> QED BY <1>1, <2>1, <3>1
  <2>4. ended' \subseteq Nat
    <3>1. Range(listeners) \subseteq Sessions
      BY <1>1, RangeOfSeq
    <3> QED BY <2>1, <3>1, FileNumbers
  <2> QED BY <1>1, <2>1, <2>2, <2>3, <2>4, DisposalKeeps
<1>4. CASE Signal
  <2>1. /\ Head(listeners) \in Sessions /\ InternalDispose(Head(listeners)) /\ exited' = TRUE
        /\ UNCHANGED <<queueing, pendingLogQ, current, minLogLevel, files, opening, settled,
                       asked, out, started, logged, disposed>>
    BY <1>1, <1>4, HeadTailProperties DEF Signal, setupVars
  <2> QED BY <1>1, <2>1, DisposalTypes, DisposalKeeps
<1> QED BY <1>2, <1>3, <1>4

\* A step that adds only lines of the logger's own to what clients and files have.
LEMMA OwnContinue ==
  ASSUME LoggerTypeOK, QueueIsLast, NEW lines \in Seq(Lines), \A i \in 1 .. Len(lines) : lines[i].n = 0,
         NEW min
  PROVE  /\ Ordered(lines) /\ Held(lines) = {}
         /\ \A s \in Sessions : /\ out[s] \o Shown(lines, min) \in Seq(Entries)
                                /\ Continued(out[s], out[s] \o Shown(lines, min), gone, gone)
         /\ \A l \in Sessions :
              LET new == Filed(l, lines, min)
              IN  /\ new \in Seq(Seq(Lines)) /\ Len(new) = Len(files) /\ DOMAIN new = 1 .. Len(files)
                  /\ \A f \in 1 .. Len(files) : Continued(files[f], new[f], gone, gone)
<1>1. /\ gone \in Nat /\ files \in Seq(Seq(Lines)) /\ \A s \in Sessions : out[s] \in Seq(Entries)
      /\ \A l \in Sessions : stream[l] \in 0 .. Len(files)
      /\ DOMAIN lines = 1 .. Len(lines)
  BY Basics, LenProperties
<1>2. Ordered(lines) /\ Held(lines) = {} /\ Within(lines, gone, gone)
  BY <1>1 DEF Ordered, Held, Within
<1>3. ASSUME NEW s \in Sessions
      PROVE  /\ out[s] \o Shown(lines, min) \in Seq(Entries)
             /\ Continued(out[s], out[s] \o Shown(lines, min), gone, gone)
  <2> DEFINE old == out[s]
  <2>1. old \in Seq(Entries) /\ \A i \in 1 .. Len(lines) :
                                  lines[i].n = 0 \/ (gone < lines[i].n /\ lines[i].n <= gone)
    BY <1>1
  <2> HIDE DEF old
  <2>2. old \o Shown(lines, min) \in Seq(Entries) /\ Continued(old, old \o Shown(lines, min), gone, gone)
    BY <1>1, <1>2, <2>1, ShownContinues
  <2> QED BY <2>2 DEF old
<1>4. ASSUME NEW l \in Sessions
      PROVE  LET new == Filed(l, lines, min)
             IN  /\ new \in Seq(Seq(Lines)) /\ Len(new) = Len(files) /\ DOMAIN new = 1 .. Len(files)
                 /\ \A f \in 1 .. Len(files) : Continued(files[f], new[f], gone, gone)
  <2>1. stream[l] \in 0 .. Len(files)
    BY <1>1
  <2>2. LET new == Filed(l, lines, min)
        IN  /\ new \in Seq(Seq(Lines)) /\ Len(new) = Len(files) /\ DOMAIN new = 1 .. Len(files)
            /\ \A f \in 1 .. Len(files) :
                 Continued(files[f], new[f], gone, gone) /\ (f # stream[l] => new[f] = files[f])
    BY ONLY <1>1, <1>2, <2>1, FiledContinues, lines \in Seq(Lines)
  <2> QED BY <2>2
<1> QED BY <1>2, <1>3, <1>4

LEMMA SetupKeeps ==
  ASSUME LoggerIInv, NEW s \in Sessions, NEW level \in SetupLevels,
         NEW path \in {"none", "absolute", "relative"}, Setup(s, level, path)
  PROVE  LoggerIInv'
<1>0. LoggerTypeOK /\ QueueIsLast /\ OlderThanQueue /\ StartedFirst /\ StoppedBySetup
      /\ FilesGoOn /\ FirstSetup /\ ErrorsSent
  BY DEF LoggerIInv
<1>1. /\ s \in started /\ Len(asked) < MaxSetups /\ asked' = Append(asked, [by |-> s, level |-> level])
      /\ UNCHANGED <<queueing, pendingLogQ, current, stream, listeners, exited, started, logged,
                     disposed, ended, replaced>>
  BY DEF Setup, fates
<1>2. /\ asked \in Seq([by : Sessions, level : SetupLevels]) /\ Len(asked) \in Nat
      /\ DOMAIN asked = 1 .. Len(asked)
  BY <1>0, Basics DEF LoggerTypeOK
<1>3. /\ asked' \in Seq([by : Sessions, level : SetupLevels]) /\ Len(asked') = Len(asked) + 1
      /\ DOMAIN asked' = 1 .. Len(asked) + 1 /\ Len(asked') <= MaxSetups
      /\ asked'[Len(asked) + 1] = [by |-> s, level |-> level]
      /\ \A i \in 1 .. Len(asked) : asked'[i] = asked[i]
  <2>1. /\ asked' \in Seq([by : Sessions, level : SetupLevels]) /\ Len(asked') = Len(asked) + 1
        /\ asked'[Len(asked) + 1] = [by |-> s, level |-> level]
        /\ \A i \in 1 .. Len(asked) : asked'[i] = asked[i]
    BY <1>1, <1>2, AppendProperties
  <2> QED BY <1>1, <1>2, <2>1, LoggerAssumption, LenProperties
<1>4. Levels \subseteq Levels' /\ level \in Levels'
  <2>1. Len(asked) + 1 \in 1 .. Len(asked) + 1 /\ \A i \in 1 .. Len(asked) : i \in 1 .. Len(asked) + 1
    BY <1>2
  <2>2. level \in Levels'
    BY <1>3, <2>1 DEF Levels
  <2> QED BY <1>2, <1>3, <2>1, <2>2 DEF Levels
<1>5. gone' = gone /\ QueueIsLast'
  BY <1>0, <1>1 DEF gone, QueueIsLast
<1>6. /\ files \in Seq(Seq(Lines)) /\ DOMAIN files = 1 .. Len(files) /\ Len(files) \in Nat
      /\ out \in [Sessions -> Seq(Entries)]
      /\ opening \in [Sessions -> 0 .. Len(asked)] /\ settled \in Nat
      /\ level \in Verbose .. Stop /\ minLogLevel \in [Sessions -> Verbose .. Stop]
  BY <1>0, Basics, LoggerAssumption DEF LoggerTypeOK, Entries
<1> DEFINE first == Stop \notin Levels' /\ Len(asked') <= 1
<1>7. first => /\ Len(asked) = 0 /\ Len(asked') = 1 /\ Stop \notin Levels
               /\ queueing /\ gone = 0 /\ settled = 0 /\ \A l \in Sessions : opening[l] = 0
               /\ \A f \in DOMAIN files : Held(files[f]) = {}
  <2> SUFFICES ASSUME first
               PROVE  /\ Len(asked) = 0 /\ Len(asked') = 1 /\ Stop \notin Levels
                      /\ queueing /\ gone = 0 /\ settled = 0 /\ \A l \in Sessions : opening[l] = 0
                      /\ \A f \in DOMAIN files : Held(files[f]) = {}
    OBVIOUS
  <2>1. Len(asked) = 0 /\ Len(asked') = 1 /\ Stop \notin Levels
    BY <1>2, <1>3, <1>4
  <2>2. queueing /\ gone = 0 /\ OneSetup /\ \A f \in DOMAIN files : Held(files[f]) = {}
    BY <1>0, <2>1 DEF FirstSetup
  <2>3. settled <= 0
    BY <2>1, <2>2 DEF OneSetup
  <2>4. \A l \in Sessions : opening[l] = 0
    BY <1>6, <2>1
  <2> QED BY <1>6, <2>1, <2>2, <2>3, <2>4
<1> HIDE DEF first
<1>8. CASE current = NoSession
  <2>1. UNCHANGED <<minLogLevel, opening, settled, out, files>>
    BY <1>8 DEF Setup
  <2>2. LoggerTypeOK'
    <3>1. opening' \in [Sessions -> 0 .. Len(asked')]
      <4>1. \A k \in 0 .. Len(asked) : k \in 0 .. Len(asked')
        BY <1>2, <1>3
      <4> QED BY <1>6, <2>1, <4>1
    <3> QED BY <1>0, <1>1, <1>3, <2>1, <3>1 DEF LoggerTypeOK
  <2>3. OlderThanQueue' /\ FilesGoOn' /\ ErrorsSent'
    BY <1>0, <1>1, <1>4, <1>5, <1>6, <1>8, <2>1, <2>2, SameContinues, NothingFlushed
  <2>4. StartedFirst' /\ StoppedBySetup'
    BY <1>0, <1>1, <1>4, <2>1 DEF StartedFirst, StoppedBySetup
  <2>5. FirstSetup'
    <3>1. first => OneSetup'
      BY <1>1, <1>7, <2>1 DEF OneSetup
    <3> QED BY <1>1, <1>5, <1>7, <2>1, <3>1 DEF FirstSetup, first
  <2> QED BY <1>5, <2>2, <2>3, <2>4, <2>5 DEF LoggerIInv
<1>9. CASE current # NoSession
  <2> DEFINE own == IF path = "relative" THEN <<Own(Error)>> ELSE <<>>
  <2>1. /\ current \in Sessions
        /\ minLogLevel' = [minLogLevel EXCEPT ![current] = level]
        /\ opening' = [opening EXCEPT ![current] = IF path = "absolute" THEN @ + 1 ELSE @]
        /\ settled' = IF path = "absolute" THEN settled ELSE settled + 1
        /\ out' = [out EXCEPT ![current] = @ \o Shown(own, level)]
        /\ files' = Filed(current, own, level)
    BY <1>0, <1>9 DEF Setup, Awaits, InternalLog, LoggerTypeOK
  <2>2. own \in Seq(Lines) /\ \A i \in 1 .. Len(own) : own[i].n = 0
    <3>1. Own(Error) \in Lines /\ Own(Error).n = 0
      BY EntryFields DEF Error, Verbose
    <3>2. <<Own(Error)>> \in Seq(Lines) /\ Len(<<Own(Error)>>) = 1
      BY <3>1
    <3> QED BY <3>1, <3>2
  <2> HIDE DEF own
  <2>3. /\ \A m \in Sessions : /\ out[m] \o Shown(own, level) \in Seq(Entries)
                               /\ Continued(out[m], out[m] \o Shown(own, level), gone, gone)
        /\ files' \in Seq(Seq(Lines)) /\ Len(files') = Len(files) /\ DOMAIN files' = 1 .. Len(files)
        /\ \A f \in 1 .. Len(files) : Continued(files[f], files'[f], gone, gone)
    BY <1>0, <2>1, <2>2, OwnContinue
  <2>4. out' \in [Sessions -> Seq(Entries)] /\ \A m \in Sessions : Continued(out[m], out'[m], gone, gone)
    <3>1. \A m \in Sessions : Continued(out[m], out[m], gone, gone)
      BY <1>0, SameContinues
    <3> QED BY <1>6, <2>1, <2>3, <3>1
  <2>5. opening' \in [Sessions -> 0 .. Len(asked')] /\ settled' \in Nat
    <3>1. \A k \in 0 .. Len(asked) : k \in 0 .. Len(asked') /\ k + 1 \in 0 .. Len(asked')
      BY <1>2, <1>3
    <3> QED BY <1>6, <2>1, <3>1
  <2>6. LoggerTypeOK'
    <3>1. minLogLevel' \in [Sessions -> Verbose .. Stop]
      BY <1>6, <2>1
    <3>2. stream' \in [Sessions -> 0 .. Len(files')]
      BY <1>0, <1>1, <2>3 DEF LoggerTypeOK
    <3> QED BY <1>0, <1>1, <1>3, <2>3, <2>4, <2>5, <3>1, <3>2 DEF LoggerTypeOK, Entries
  <2>7. /\ OlderThanQueue' /\ FilesGoOn' /\ ErrorsSent'
        /\ \A f \in 1 .. Len(files) : Held(files'[f]) = Held(files[f])
    <3>1. \A n \in 1 .. gone : logged'[n] = logged[n]
      BY <1>1
    <3>2. /\ \A f \in 1 .. Len(files) : f \in DOMAIN files' /\ Continued(files[f], files'[f], gone, gone)
          /\ \A f \in DOMAIN files' : f \in 1 .. Len(files)
      BY <2>3
    <3> QED BY <1>0, <1>1, <1>4, <1>5, <2>4, <2>6, <3>1, <3>2, NothingFlushed
  <2>8. StartedFirst' /\ StoppedBySetup'
    <3>1. StoppedBySetup'
      BY <1>0, <1>4, <1>6, <2>1 DEF StoppedBySetup
    <3>2. \A l \in Sessions : opening'[l] > 0 => l = current \/ opening[l] > 0
      BY <1>6, <2>1
    <3>3. StartedFirst'
      BY <1>0, <1>1, <1>9, <3>2 DEF StartedFirst
    <3> QED BY <3>1, <3>3
  <2>9. FirstSetup'
    <3>1. first => OneSetup'
      <4> SUFFICES ASSUME first PROVE OneSetup'
        OBVIOUS
      <4>1. /\ \A l \in Sessions : opening'[l] = IF l = current /\ path = "absolute" THEN 1 ELSE 0
            /\ settled' = IF path = "absolute" THEN 0 ELSE 1
        BY <1>6, <1>7, <2>1
      <4>2. Len(asked') = 1
        BY <1>7
      <4> QED BY <4>1, <4>2 DEF OneSetup
    <3>2. first => \A f \in DOMAIN files' : Held(files'[f]) = {}
      BY <1>6, <1>7, <2>3, <2>7
    <3> QED BY <1>1, <1>5, <1>7, <3>1, <3>2 DEF FirstSetup, first
  <2> QED BY <1>5, <2>6, <2>7, <2>8, <2>9 DEF LoggerIInv
<1> QED BY <1>8, <1>9

LEMMA OwnLines ==
  /\ <<Own(Warn), Own(Warn)>> \in Seq(Lines) /\ <<Own(Verbose)>> \in Seq(Lines)
  /\ <<Own(Warn), Own(Warn)>> \o <<Own(Verbose)>> \in Seq(Lines) /\ <<>> \in Seq(Lines)
  /\ \A i \in 1 .. Len(<<Own(Warn), Own(Warn)>> \o <<Own(Verbose)>>) :
       (<<Own(Warn), Own(Warn)>> \o <<Own(Verbose)>>)[i].n = 0
  /\ \A i \in 1 .. Len(<<Own(Warn), Own(Warn)>>) : <<Own(Warn), Own(Warn)>>[i].n = 0
  /\ \A i \in 1 .. Len(<<Own(Verbose)>>) : <<Own(Verbose)>>[i].n = 0
<1>1. /\ Own(Warn) \in Lines /\ Own(Warn).n = 0 /\ Own(Verbose) \in Lines /\ Own(Verbose).n = 0
  BY EntryFields DEF Warn, Verbose, Error
<1> HIDE DEF Own
<1> DEFINE a == <<Own(Warn), Own(Warn)>>
           b == <<Own(Verbose)>>
<1>2. a \in Seq(Lines) /\ Len(a) = 2 /\ a[1].n = 0 /\ a[2].n = 0
  BY <1>1
<1>3. b \in Seq(Lines) /\ Len(b) = 1 /\ b[1].n = 0
  BY <1>1
<1> HIDE DEF a, b
<1>4. /\ a \o b \in Seq(Lines) /\ Len(a \o b) = 3
      /\ \A i \in 1 .. 3 : (a \o b)[i] = IF i <= 2 THEN a[i] ELSE b[i - 2]
  <2>1. /\ a \o b \in Seq(Lines) /\ Len(a \o b) = Len(a) + Len(b)
        /\ \A i \in 1 .. Len(a) + Len(b) : (a \o b)[i] = IF i <= Len(a) THEN a[i] ELSE b[i - Len(a)]
    BY <1>2, <1>3, ConcatProperties
  <2>2. Len(a) + Len(b) = 3
    BY <1>2, <1>3
  <2> QED BY <1>2, <2>1, <2>2
<1>5. \A i \in 1 .. 3 : (a \o b)[i].n = 0
  <2>1. \A i \in 1 .. 3 : i = 1 \/ i = 2 \/ i = 3
    OBVIOUS
  <2> QED BY <1>2, <1>3, <1>4, <2>1
<1>6. \A i \in 1 .. 2 : a[i].n = 0
  <2>1. \A i \in 1 .. 2 : i = 1 \/ i = 2
    OBVIOUS
  <2> QED BY <1>2, <2>1
<1> QED BY <1>2, <1>3, <1>4, <1>5, <1>6 DEF a, b

\* When mkdir is done or has failed: what does not depend on which.
LEMMA MkdirKeeps ==
  ASSUME LoggerIInv, NEW l \in Sessions, opening[l] > 0,
         opening' = [opening EXCEPT ![l] = @ - 1], settled' = settled + 1,
         UNCHANGED <<queueing, pendingLogQ, current, minLogLevel, exited, started, logged, asked,
                     disposed, ended>>, replaced' \subseteq Nat,
         listeners' \in Seq(Sessions), files' \in Seq(Seq(Lines)),
         stream' \in [Sessions -> 0 .. Len(files')], out' \in [Sessions -> Seq(Entries)],
         \A s \in Sessions : Continued(out[s], out'[s], gone, gone),
         \A f \in 1 .. Len(files) : f \in DOMAIN files' /\ Continued(files[f], files'[f], gone, gone),
         \A f \in DOMAIN files' : f \notin 1 .. Len(files) => Continued(<<>>, files'[f], gone, gone),
         \A m \in Sessions : \/ stream'[m] = stream[m]
                             \/ /\ m = l
                                /\ stream'[m] \in DOMAIN files' /\ stream'[m] \notin 1 .. Len(files)
  PROVE  LoggerIInv'
<1>0. LoggerTypeOK /\ QueueIsLast /\ OlderThanQueue /\ StartedFirst /\ StoppedBySetup
      /\ FilesGoOn /\ FirstSetup /\ ErrorsSent
  BY DEF LoggerIInv
<1>1. /\ opening \in [Sessions -> 0 .. Len(asked)] /\ settled \in Nat
      /\ DOMAIN files = 1 .. Len(files) /\ Len(asked) \in Nat
      /\ current \in Sessions \cup {NoSession}
  <2>1. /\ opening \in [Sessions -> 0 .. Len(asked)] /\ settled \in Nat
        /\ current \in Sessions \cup {NoSession}
    BY <1>0 DEF LoggerTypeOK
  <2> QED BY <1>0, <2>1, Basics
<1>2. LoggerTypeOK'
  <2>1. opening' \in [Sessions -> 0 .. Len(asked')] /\ settled' \in Nat
    <3>1. \A k \in 0 .. Len(asked) : k > 0 => k - 1 \in 0 .. Len(asked)
      BY <1>1
    <3> QED BY <1>1, <3>1
  <2> QED BY <1>0, <2>1 DEF LoggerTypeOK, Entries
<1>3. QueueIsLast' /\ gone' = gone /\ Levels' = Levels
  BY <1>0 DEF QueueIsLast, gone, Levels
<1>4. \A f \in DOMAIN files' : f \notin 1 .. Len(files) => Held(files'[f]) = {}
  <2>1. gone \in Nat /\ Held(<<>>) = {}
    BY <1>0, Basics DEF Held
  <2> QED BY <2>1, NothingNumbered
<1>5. /\ OlderThanQueue' /\ FilesGoOn' /\ ErrorsSent'
      /\ \A f \in 1 .. Len(files) : Held(files'[f]) = Held(files[f])
  <2>1. current' # NoSession /\ stream'[current'] # 0 =>
            \/ Held(files'[stream'[current']]) = {}
            \/ /\ current' = current /\ stream'[current'] = stream[current]
               /\ queueing' = queueing
    BY <1>1, <1>4
  <2>2. \A n \in 1 .. gone : logged'[n] = logged[n]
    OBVIOUS
  <2> QED BY <1>0, <1>2, <1>3, <2>1, <2>2, NothingFlushed
<1>6. l \in started
  BY <1>0 DEF StartedFirst
<1>7. StartedFirst' /\ StoppedBySetup'
  <2>1. \A m \in Sessions : opening'[m] > 0 => m = l \/ opening[m] > 0
    BY <1>1
  <2>2. \A m \in Sessions : stream'[m] # 0 => m = l \/ stream[m] # 0
    OBVIOUS
  <2> QED BY <1>0, <1>3, <1>6, <2>1, <2>2 DEF StartedFirst, StoppedBySetup
<1>8. FirstSetup'
  <2> SUFFICES ASSUME Stop \notin Levels, Len(asked) <= 1 PROVE FirstSetup'
    BY <1>3 DEF FirstSetup
  <2>1. /\ queueing /\ gone = 0 /\ OneSetup
        /\ \A f \in DOMAIN files : Held(files[f]) = {}
    BY <1>0 DEF FirstSetup
  <2>2. /\ opening[l] = 1 /\ settled = 0 /\ Len(asked) = 1
        /\ \A m \in Sessions : opening[m] > 0 => m = l
    BY <2>1 DEF OneSetup
  <2>3. \A m \in Sessions : opening'[m] = 0
    BY <1>1, <2>2
  <2>4. OneSetup'
    BY <2>2, <2>3 DEF OneSetup
  <2>5. \A f \in DOMAIN files' : Held(files'[f]) = {}
    BY <1>1, <1>4, <1>5, <2>1
  <2> QED BY <1>3, <2>1, <2>4, <2>5 DEF FirstSetup
<1> QED BY <1>2, <1>3, <1>5, <1>7, <1>8 DEF LoggerIInv

LEMMA DirectoryMade == ASSUME LoggerIInv, NEW l \in Sessions, MkdirDone(l, TRUE) PROVE LoggerIInv'
<1>0. LoggerTypeOK /\ QueueIsLast
  BY DEF LoggerIInv
<1> DEFINE announced == <<Own(Warn), Own(Warn)>>
           opened == <<Own(Verbose)>>
           min == minLogLevel[l]
           all == announced \o opened
           old == Filed(l, announced, min)
           own == IF min = Stop THEN <<>> ELSE opened
<1>1. /\ opening[l] > 0 /\ opening' = [opening EXCEPT ![l] = @ - 1] /\ settled' = settled + 1
      /\ UNCHANGED <<queueing, pendingLogQ, current, minLogLevel, exited, started, logged, asked,
                     disposed, ended>>
      /\ replaced' = replaced \cup File(l)
      /\ out' = [out EXCEPT ![l] = @ \o Shown(all, min)]
      /\ files' = Append(old, own)
      /\ stream' = [stream EXCEPT ![l] = Len(files) + 1]
      /\ listeners' = Append(listeners, l)
  BY DEF MkdirDone, Settles, Registered
<1>2. /\ announced \in Seq(Lines) /\ all \in Seq(Lines) /\ own \in Seq(Lines)
      /\ \A i \in 1 .. Len(announced) : announced[i].n = 0
      /\ \A i \in 1 .. Len(all) : all[i].n = 0
      /\ \A i \in 1 .. Len(own) : own[i].n = 0
  <2>1. <<>> \in Seq(Lines) /\ \A i \in 1 .. Len(<<>>) : <<>>[i].n = 0
    OBVIOUS
  <2> QED BY <2>1, OwnLines
<1> HIDE DEF announced, opened, all, own
<1>3. /\ \A s \in Sessions : /\ out[s] \o Shown(all, min) \in Seq(Entries)
                             /\ Continued(out[s], out[s] \o Shown(all, min), gone, gone)
  BY <1>0, <1>2, OwnContinue
<1>4. /\ old \in Seq(Seq(Lines)) /\ Len(old) = Len(files) /\ DOMAIN old = 1 .. Len(files)
      /\ \A f \in 1 .. Len(files) : Continued(files[f], old[f], gone, gone)
  BY <1>0, <1>2, OwnContinue
<1> HIDE DEF old, min
<1>5. /\ gone \in Nat /\ Len(files) \in Nat /\ out \in [Sessions -> Seq(Entries)]
      /\ stream \in [Sessions -> 0 .. Len(files)] /\ listeners \in Seq(Sessions)
  <2>1. /\ out \in [Sessions -> Seq(Entries)] /\ listeners \in Seq(Sessions)
        /\ stream \in [Sessions -> 0 .. Len(files)]
    BY <1>0 DEF LoggerTypeOK, Entries
  <2> QED BY <1>0, <2>1, Basics
<1>6. /\ files' \in Seq(Seq(Lines)) /\ Len(files') = Len(files) + 1
      /\ DOMAIN files' = 1 .. Len(files) + 1
      /\ files'[Len(files) + 1] = own /\ \A f \in 1 .. Len(files) : files'[f] = old[f]
  <2>1. /\ files' \in Seq(Seq(Lines)) /\ Len(files') = Len(files) + 1
        /\ files'[Len(files) + 1] = own /\ \A f \in 1 .. Len(files) : files'[f] = old[f]
    BY <1>1, <1>2, <1>4, AppendProperties
  <2> QED BY <2>1, LenProperties
<1>7. Continued(<<>>, own, gone, gone)
  <2>1. <<>> \in Seq(Lines) /\ \A e \in Lines : e.n \in Nat
    BY EntryFields DEF Entries
  <2>2. Ordered(own)
    BY <1>2, LenProperties DEF Ordered
  <2>3. Continued(<<>>, <<>> \o own, gone, gone)
    BY <1>2, <1>5, <2>1, <2>2, JoinedContinues
  <2>4. <<>> \o own = own
    BY <1>2, ConcatEmptySeq
  <2> QED BY <2>3, <2>4
<1>8. /\ \A f \in 1 .. Len(files) : f \in DOMAIN files' /\ Continued(files[f], files'[f], gone, gone)
      /\ \A f \in DOMAIN files' : f \notin 1 .. Len(files) => Continued(<<>>, files'[f], gone, gone)
      /\ Len(files) + 1 \in DOMAIN files' /\ Len(files) + 1 \notin 1 .. Len(files)
  <2>1. /\ \A f \in 1 .. Len(files) + 1 : f \in 1 .. Len(files) \/ f = Len(files) + 1
        /\ \A f \in 1 .. Len(files) : f \in 1 .. Len(files) + 1
        /\ Len(files) + 1 \in 1 .. Len(files) + 1 /\ Len(files) + 1 \notin 1 .. Len(files)
    <3>1. Len(files) \in Nat
      BY <1>5
    <3> QED BY ONLY <3>1
  <2> QED BY <1>4, <1>6, <1>7, <2>1
<1>9. stream' \in [Sessions -> 0 .. Len(files')]
  <2>1. \A k \in 0 .. Len(files) : k \in 0 .. Len(files')
    BY <1>5, <1>6
  <2>2. Len(files) + 1 \in 0 .. Len(files')
    BY <1>5, <1>6
  <2> QED BY <1>1, <1>5, <2>1, <2>2
<1>10. out' \in [Sessions -> Seq(Entries)] /\ \A s \in Sessions : Continued(out[s], out'[s], gone, gone)
  <2>1. \A s \in Sessions : Continued(out[s], out[s], gone, gone)
    BY <1>0, SameContinues
  <2> QED BY <1>1, <1>3, <1>5, <2>1
<1>11. listeners' \in Seq(Sessions)
  BY <1>1, <1>5, AppendKeeps
<1>12. \A m \in Sessions : \/ stream'[m] = stream[m]
                           \/ /\ m = l
                              /\ stream'[m] \in DOMAIN files' /\ stream'[m] \notin 1 .. Len(files)
  BY <1>1, <1>5, <1>8
<1>13. replaced' \subseteq Nat
  BY <1>1, FileNumbers
<1> QED BY <1>1, <1>6, <1>8, <1>9, <1>10, <1>11, <1>12, <1>13, MkdirKeeps

LEMMA DirectoryNotMade == ASSUME LoggerIInv, NEW l \in Sessions, MkdirDone(l, FALSE) PROVE LoggerIInv'
<1>0. LoggerTypeOK /\ QueueIsLast
  BY DEF LoggerIInv
<1>1. /\ opening[l] > 0 /\ opening' = [opening EXCEPT ![l] = @ - 1] /\ settled' = settled + 1
      /\ UNCHANGED <<queueing, pendingLogQ, current, minLogLevel, exited, started, logged, asked,
                     disposed, files, stream, listeners, ended, replaced>>
      /\ out' = [out EXCEPT ![l] = Append(@, Own(Error))]
  BY DEF MkdirDone, Settles
<1>2. /\ gone \in Nat /\ DOMAIN files = 1 .. Len(files) /\ files \in Seq(Seq(Lines))
      /\ out \in [Sessions -> Seq(Entries)] /\ listeners \in Seq(Sessions)
      /\ stream \in [Sessions -> 0 .. Len(files)]
  <2>1. /\ out \in [Sessions -> Seq(Entries)] /\ listeners \in Seq(Sessions)
        /\ stream \in [Sessions -> 0 .. Len(files)]
    BY <1>0 DEF LoggerTypeOK, Entries
  <2> QED BY <1>0, <2>1, Basics
<1>3. ASSUME NEW old \in Seq(Entries)
      PROVE  Append(old, Own(Error)) \in Seq(Entries) /\ Continued(old, Append(old, Own(Error)), gone, gone)
  <2>1. Own(Error) \in Entries /\ Own(Error).n = 0 /\ \A e \in Entries : e.n \in Nat
    BY EntryFields DEF Entries, Error, Verbose
  <2> DEFINE more == <<Own(Error)>>
  <2>2. more \in Seq(Entries) /\ Len(more) = 1 /\ more[1].n = 0
    BY <2>1
  <2>3. Append(old, Own(Error)) = old \o more
    BY <2>1, AppendIsConcat
  <2> HIDE DEF more
  <2>4. Ordered(more) /\ \A i \in 1 .. Len(more) : more[i].n = 0
    BY <2>2, LenProperties DEF Ordered
  <2>5. old \o more \in Seq(Entries) /\ Continued(old, old \o more, gone, gone)
    BY <1>2, <2>1, <2>2, <2>4, JoinedContinues
  <2> QED BY <2>3, <2>5
<1>4. out' \in [Sessions -> Seq(Entries)] /\ \A s \in Sessions : Continued(out[s], out'[s], gone, gone)
  <2>1. \A s \in Sessions : Continued(out[s], out[s], gone, gone)
    BY <1>0, SameContinues
  <2> QED BY <1>1, <1>2, <1>3, <2>1
<1>5. \A f \in 1 .. Len(files) : Continued(files[f], files[f], gone, gone)
  BY <1>0, SameContinues
<1>6. replaced' \subseteq Nat
  BY <1>1, FileNumbers
<1> QED BY <1>1, <1>2, <1>4, <1>5, <1>6, MkdirKeeps

LEMMA IInvInit == Init => LoggerIInv
<1> SUFFICES ASSUME Init PROVE LoggerIInv
  OBVIOUS
<1>1. /\ <<>> \in Seq(Lines) /\ <<>> \in Seq(Seq(Lines)) /\ <<>> \in Seq(Sessions)
      /\ <<>> \in Seq(Lines \cup {Message}) /\ <<>> \in Seq(LogLevels \cup {Verbose})
      /\ <<>> \in Seq([by : Sessions, level : SetupLevels])
      /\ Len(<<>>) = 0 /\ DOMAIN <<>> = {} /\ MaxLogged \in Nat /\ MaxSetups \in Nat
  BY EmptySeq, LoggerAssumption
<1>2. LoggerTypeOK
  <2>1. /\ Len(files) = 0 /\ Len(asked) = 0 /\ Len(logged) = 0 /\ 0 \in 0 .. 0 /\ 2 \in 0 .. 4
    BY <1>1 DEF Init
  <2>2. minLogLevel \in [Sessions -> Verbose .. Stop] /\ out \in [Sessions -> Seq(Lines \cup {Message})]
    BY <1>1, <2>1 DEF Init, Warn, Verbose, Stop
  <2>3. stream \in [Sessions -> 0 .. Len(files)] /\ opening \in [Sessions -> 0 .. Len(asked)]
    BY <2>1 DEF Init
  <2>4. Len(logged) <= MaxLogged /\ Len(asked) <= MaxSetups /\ settled \in Nat
    BY <1>1, <2>1 DEF Init
  <2> QED BY <1>1, <2>2, <2>3, <2>4 DEF Init, LoggerTypeOK
<1>3. QueueIsLast /\ gone = 0
  BY <1>1 DEF Init, QueueIsLast, gone
<1>4. OlderThanQueue
  BY <1>1 DEF Init, OlderThanQueue, UpTo, Ordered
<1>5. StartedFirst /\ StoppedBySetup
  BY DEF Init, StartedFirst, StoppedBySetup, Warn, Stop
<1>6. FilesGoOn /\ FirstSetup
  BY <1>1, <1>3 DEF Init, FilesGoOn, FirstSetup, OneSetup
<1>7. ErrorsSent
  BY <1>3 DEF ErrorsSent
<1> QED BY <1>2, <1>3, <1>4, <1>5, <1>6, <1>7 DEF LoggerIInv

LEMMA IInvStep == LoggerIInv /\ [Next]_vars => LoggerIInv'
<1> SUFFICES ASSUME LoggerIInv, [Next]_vars PROVE LoggerIInv'
  OBVIOUS
<1>1. CASE UNCHANGED vars
  <2>0. LoggerTypeOK /\ QueueIsLast /\ OlderThanQueue /\ StartedFirst /\ StoppedBySetup
        /\ FilesGoOn /\ FirstSetup /\ ErrorsSent
    BY DEF LoggerIInv
  <2>1. LoggerTypeOK'
    BY <1>1, <2>0 DEF vars, LoggerTypeOK
  <2>2. QueueIsLast' /\ OlderThanQueue' /\ FilesGoOn' /\ ErrorsSent'
    BY <1>1, <2>1, SameLog DEF vars
  <2>3. StartedFirst' /\ StoppedBySetup'
    BY <1>1, <2>0 DEF vars, StartedFirst, StoppedBySetup, Levels
  <2>4. FirstSetup'
    BY <1>1, <2>0 DEF vars, FirstSetup, OneSetup, Levels, gone
  <2> QED BY <2>1, <2>2, <2>3, <2>4 DEF LoggerIInv
<1>2. ASSUME NEW s, NEW level \in LogLevels \cup {Verbose}, NEW sent \in {<<>>, <<Message>>},
             _write(s, Line(level), sent)
      PROVE  LoggerIInv'
  BY <1>2, QueuedKeeps, UnheardKeeps, DirectKeeps
<1>3. ASSUME NEW level \in LogLevels, Log(level) PROVE LoggerIInv'
  BY <1>2, <1>3 DEF Log
<1>4. ASSUME NEW s \in Sessions, Send(s) PROVE LoggerIInv'
  BY <1>2, <1>4 DEF Send
<1>5. ASSUME NEW s \in Sessions, Start(s) PROVE LoggerIInv'
  BY <1>5, StartKeeps
<1>6. ASSUME NEW s \in Sessions, NEW level \in SetupLevels,
             NEW path \in {"none", "absolute", "relative"}, Setup(s, level, path)
      PROVE  LoggerIInv'
  BY <1>6, SetupKeeps
<1>7. ASSUME NEW l \in Sessions, NEW done \in BOOLEAN, MkdirDone(l, done) PROVE LoggerIInv'
  BY <1>7, DirectoryMade, DirectoryNotMade
<1>8. CASE Flush
  BY <1>8, FlushKeeps
<1>9. CASE Dispose \/ BeforeExit \/ Signal
  BY <1>9, EndKeeps
<1> QED BY <1>1, <1>3, <1>4, <1>5, <1>6, <1>7, <1>8, <1>9 DEF Next

-----------------------------------------------------------------------------
(* The theorems *)

\* The inductive invariant of the log, whatever order setups, mkdir, promise callbacks,
\* disposals and starts of sessions come in (logger.ts:65-119, internalLogger.ts:38-138).
THEOREM LoggerInvariance == SafeSpec => []LoggerIInv
BY IInvInit, IInvStep, PTL DEF SafeSpec

\* The logger's state has its types: the queue is empty when it is null, streams are
\* those of files that were made, and no more setups are under way than were called.
THEOREM LoggerTypes == SafeSpec => []LoggerTypeOK
<1>1. LoggerIInv => LoggerTypeOK
  BY DEF LoggerIInv
<1> QED BY <1>1, LoggerInvariance, PTL

\* No client is shown two lines in another order than that of the calls of log: the
\* queue is written before any line that is logged after it (logger.ts:78-111).
THEOREM LogIsInOrder == SafeSpec => []InOrder
<1>1. LoggerIInv => InOrder
  BY DEF LoggerIInv, OlderThanQueue, UpTo, InOrder
<1> QED BY <1>1, LoggerInvariance, PTL

\* No log file misses a line between its first and its last, nor, with one setup, the
\* lines that were logged before it was open (logger.ts:92-119, internalLogger.ts:52-78).
THEOREM FilesAreComplete == SafeSpec => []FileComplete
<1>1. LoggerIInv => FileComplete
  <2> SUFFICES ASSUME LoggerIInv, Stop \notin Levels, NEW f \in DOMAIN files
               PROVE  /\ Ordered(files[f])
                      /\ \A m, n \in Held(files[f]) : m .. n \subseteq Held(files[f])
                      /\ Len(asked) = 1 /\ Held(files[f]) # {} => 1 \in Held(files[f])
    BY DEF FileComplete
  <2>1. OlderThanQueue /\ FilesGoOn /\ FirstSetup
    BY DEF LoggerIInv
  <2>2. Ordered(files[f])
    BY <2>1 DEF OlderThanQueue, UpTo
  <2>3. \A m, n \in Held(files[f]) : m .. n \subseteq Held(files[f])
    BY <2>1 DEF FilesGoOn
  <2>4. Len(asked) = 1 /\ Held(files[f]) # {} => 1 \in Held(files[f])
    BY <2>1 DEF FirstSetup
  <2> QED BY <2>2, <2>3, <2>4
<1> QED BY <1>1, LoggerInvariance, PTL

LEMMA WhereErrorsAre ==
  ASSUME LoggerIInv, ~disposed, Stop \notin Levels, NEW n \in DOMAIN logged, logged[n] = Error
  PROVE  \E p : Places(n) = {p}
<1>0. LoggerTypeOK /\ QueueIsLast /\ OlderThanQueue /\ ErrorsSent
  BY DEF LoggerIInv
<1>1. /\ gone \in Nat /\ Len(logged) \in Nat /\ Len(pendingLogQ) \in Nat
      /\ Len(logged) = gone + Len(pendingLogQ)
      /\ DOMAIN pendingLogQ = 1 .. Len(pendingLogQ) /\ DOMAIN logged = 1 .. Len(logged)
  BY <1>0, Basics
<1>2. NoSession \notin Sessions
  BY LoggerAssumption
<1>3. ASSUME NEW p
      PROVE  p \in Places(n) <=>
               \/ \E m \in Sessions : \E i \in DOMAIN out[m] : p = <<m, i>> /\ out[m][i].n = n
               \/ \E i \in DOMAIN pendingLogQ : p = <<NoSession, i>> /\ pendingLogQ[i].n = n
  <2>1. p \in Places(n) <=> \E m \in Sessions \cup {NoSession} : \E i \in DOMAIN Sent(m) :
                              p = <<m, i>> /\ Sent(m)[i].n = n
    BY DEF Places
  <2>2. /\ Sent(NoSession) = pendingLogQ
        /\ \A m \in Sessions : Sent(m) = out[m]
    BY <1>2 DEF Sent
  <2> QED BY <2>1, <2>2
<1>4. CASE n \in 1 .. gone
  <2>1. PICK m \in Sessions : \E i \in DOMAIN out[m] :
           /\ out[m][i].n = n
           /\ \A k \in Sessions : \A j \in DOMAIN out[k] : out[k][j].n = n => k = m /\ j = i
    BY <1>0, <1>4 DEF ErrorsSent, SentOnce
  <2>2. PICK i \in DOMAIN out[m] :
           /\ out[m][i].n = n
           /\ \A k \in Sessions : \A j \in DOMAIN out[k] : out[k][j].n = n => k = m /\ j = i
    BY <2>1
  <2>3. \A j \in DOMAIN pendingLogQ : pendingLogQ[j].n # n
    <3>1. \A j \in 1 .. Len(pendingLogQ) : pendingLogQ[j].n = gone + j /\ gone + j # n
      BY <1>0, <1>1, <1>4 DEF QueueIsLast
    <3> QED BY <1>1, <3>1
  <2>4. \A p : p \in Places(n) <=> p = <<m, i>>
    BY <1>3, <2>2, <2>3
  <2>5. Places(n) = {<<m, i>>}
    BY <2>4
  <2> QED BY <2>5
<1>5. CASE n \notin 1 .. gone
  <2> DEFINE i == n - gone
  <2>1. i \in DOMAIN pendingLogQ /\ gone + i = n /\ n > gone /\ n \in Nat
    BY <1>1, <1>5
  <2>2. \A j \in DOMAIN pendingLogQ : pendingLogQ[j].n = n <=> j = i
    <3>1. \A j \in 1 .. Len(pendingLogQ) : pendingLogQ[j].n = gone + j
      BY <1>0, <1>1 DEF QueueIsLast
    <3>2. \A j \in 1 .. Len(pendingLogQ) : gone + j = n <=> j = i
      BY <1>1, <2>1
    <3> QED BY <1>1, <3>1, <3>2
  <2>3. \A m \in Sessions : \A j \in DOMAIN out[m] : out[m][j].n # n
    <3>1. \A m \in Sessions : \A j \in DOMAIN out[m] : out[m][j].n <= gone
      BY <1>0 DEF OlderThanQueue, UpTo
    <3> QED BY <1>1, <2>1, <3>1
  <2> HIDE DEF i
  <2>4. \A p : p \in Places(n) <=> p = <<NoSession, i>>
    BY <1>3, <2>1, <2>2, <2>3
  <2>5. Places(n) = {<<NoSession, i>>}
    BY <2>4
  <2> QED BY <2>5
<1> QED BY <1>4, <1>5

\* An error is in one place: in what one client was sent, or in the queue, until the
\* logger is disposed or stopped, also when sessions start while it is queued
\* (logger.ts:78-119).
THEOREM ErrorsArrive == SafeSpec => []ErrorsArriveOnce
<1>1. LoggerIInv => ErrorsArriveOnce
  BY WhereErrorsAre, FS_Singleton DEF ErrorsArriveOnce
<1> QED BY <1>1, LoggerInvariance, PTL
-----------------------------------------------------------------------------
(* Log files *)

\* Files are numbered as they are made.  A logger that has a file is registered: its
\* setup may have been under way while it was disposed, and it may be registered
\* several times.  A file that no logger has was ended or replaced.
FilesKept ==
    /\ listeners \in Seq(Sessions) /\ files \in Seq(Seq(Lines))
    /\ stream \in [Sessions -> 0 .. Len(files)]
    /\ \A l \in Sessions : stream[l] # 0 => l \in Range(listeners)
    /\ \A f \in 1 .. Len(files) :
         f \in ended \cup replaced \/ \E l \in Sessions : stream[l] = f

\* A step that gives at most one logger a file, and takes no file from a logger without
\* counting it.
LEMMA KeepsFiles ==
  ASSUME FilesKept, LoggerIInv', Len(files') \in {Len(files), Len(files) + 1},
         \A l \in Sessions : stream'[l] # 0 => l \in Range(listeners'),
         \A l \in Sessions : stream'[l] = stream[l] \/ File(l) \subseteq ended' \cup replaced',
         ended \cup replaced \subseteq ended' \cup replaced',
         Len(files') # Len(files) => \E l \in Sessions : stream'[l] = Len(files')
  PROVE  FilesKept'
<1>1. Len(files) \in Nat
  BY LenProperties DEF FilesKept
<1>2. ASSUME NEW f \in 1 .. Len(files')
      PROVE  f \in ended' \cup replaced' \/ \E l \in Sessions : stream'[l] = f
  <2>1. CASE f \in 1 .. Len(files)
    <3>1. ASSUME NEW l \in Sessions, stream[l] = f, stream'[l] # f
          PROVE  f \in ended' \cup replaced'
      <4>1. f \in File(l)
        BY <1>1, <2>1, <3>1 DEF File
      <4> QED BY <3>1, <4>1
    <3>2. f \in ended \cup replaced => f \in ended' \cup replaced'
      OBVIOUS
    <3>3. f \in ended \cup replaced \/ \E l \in Sessions : stream[l] = f
      BY <2>1 DEF FilesKept
    <3> QED BY <3>1, <3>2, <3>3
  <2>2. CASE f \notin 1 .. Len(files)
    BY <1>1, <1>2, <2>2
  <2> QED BY <2>1, <2>2
<1>3. /\ listeners' \in Seq(Sessions) /\ files' \in Seq(Seq(Lines))
      /\ stream' \in [Sessions -> 0 .. Len(files')]
  BY DEF LoggerIInv, LoggerTypeOK
<1> QED BY <1>2, <1>3 DEF FilesKept

\* Nothing happens to the log files, but that lines are written to them.
LEMMA FilesStay ==
  ASSUME FilesKept, LoggerIInv', UNCHANGED <<stream, listeners, ended, replaced>>,
         DOMAIN files' = 1 .. Len(files)
  PROVE  FilesKept'
<1>1. Len(files') = Len(files)
  <2>1. DOMAIN files' = 1 .. Len(files') /\ Len(files') \in Nat /\ Len(files) \in Nat
    BY LenProperties DEF LoggerIInv, LoggerTypeOK, FilesKept
  <2> QED BY <2>1
<1>2. \A l \in Sessions : stream'[l] # 0 => l \in Range(listeners')
  BY DEF FilesKept
<1>3. /\ \A l \in Sessions : stream'[l] = stream[l]
      /\ ended \cup replaced \subseteq ended' \cup replaced'
  OBVIOUS
<1> QED BY <1>1, <1>2, <1>3, KeepsFiles

\* Lines written to a file leave as many files as there were.
LEMMA FiledFiles ==
  ASSUME FilesKept, NEW l, NEW lines, NEW min
  PROVE  DOMAIN Filed(l, lines, min) = 1 .. Len(files)
<1>1. DOMAIN files = 1 .. Len(files)
  BY LenProperties DEF FilesKept
<1> QED BY <1>1 DEF Filed

\* An InternalLogger is disposed.
LEMMA DisposeKeeps ==
  ASSUME FilesKept, LoggerIInv', NEW l \in Sessions, InternalDispose(l), UNCHANGED files
  PROVE  FilesKept'
<1>1. /\ stream' = [stream EXCEPT ![l] = 0] /\ Unregister(l)
      /\ ended' = ended \cup File(l) /\ UNCHANGED replaced
  BY DEF InternalDispose
<1>2. \A m \in Range(listeners) : m # l => m \in Range(listeners')
  BY <1>1, UnregisterKeeps DEF FilesKept
<1>3. stream'[l] = 0 /\ \A m \in Sessions : m # l => stream'[m] = stream[m]
  BY <1>1 DEF FilesKept
<1>4. \A m \in Sessions : stream'[m] # 0 => m \in Range(listeners')
  BY <1>2, <1>3 DEF FilesKept
<1>5. \A m \in Sessions : stream'[m] = stream[m] \/ File(m) \subseteq ended' \cup replaced'
  BY <1>1, <1>3
<1>6. ended \cup replaced \subseteq ended' \cup replaced'
  BY <1>1
<1>7. Len(files') = Len(files)
  OBVIOUS
<1> QED BY <1>4, <1>5, <1>6, <1>7, KeepsFiles

LEMMA FilesKeptStep == FilesKept /\ LoggerIInv /\ LoggerIInv' /\ [Next]_vars => FilesKept'
<1> SUFFICES ASSUME FilesKept, LoggerIInv, LoggerIInv', [Next]_vars PROVE FilesKept'
  OBVIOUS
<1>0. DOMAIN files = 1 .. Len(files) /\ Len(files) \in Nat
  BY LenProperties DEF FilesKept
<1>1. CASE UNCHANGED <<stream, listeners, ended, replaced, files>>
  BY <1>0, <1>1, FilesStay
<1>2. CASE UNCHANGED vars
  BY <1>1, <1>2 DEF vars
<1>3. ASSUME NEW s, NEW line, NEW sent, _write(s, line, sent) PROVE FilesKept'
  <2>1. DOMAIN files' = 1 .. Len(files) /\ UNCHANGED <<stream, listeners, ended, replaced>>
    <3>1. /\ files' = files \/ files' = Filed(current, <<line>>, minLogLevel[current])
          /\ UNCHANGED <<stream, listeners, ended, replaced>>
      BY <1>3 DEF _write, fates
    <3> QED BY <1>0, <3>1, FiledFiles
  <2> QED BY <2>1, FilesStay
<1>4. ASSUME NEW level \in LogLevels, Log(level) PROVE FilesKept'
  BY <1>3, <1>4 DEF Log
<1>5. ASSUME NEW s \in Sessions, Send(s) PROVE FilesKept'
  BY <1>3, <1>5 DEF Send
<1>6. ASSUME NEW s \in Sessions, Start(s) PROVE FilesKept'
  BY <1>1, <1>6 DEF Start, fates
<1>7. ASSUME NEW s \in Sessions, NEW level, NEW path, Setup(s, level, path) PROVE FilesKept'
  <2>1. DOMAIN files' = 1 .. Len(files) /\ UNCHANGED <<stream, listeners, ended, replaced>>
    <3> DEFINE shown == IF path = "relative" THEN <<Own(Error)>> ELSE <<>>
    <3>1. /\ files' = files \/ files' = Filed(current, shown, level)
          /\ UNCHANGED <<stream, listeners, ended, replaced>>
      BY <1>7 DEF Setup, InternalLog, fates
    <3> HIDE DEF shown
    <3> QED BY <1>0, <3>1, FiledFiles
  <2> QED BY <2>1, FilesStay
<1>8. ASSUME NEW l \in Sessions, MkdirDone(l, TRUE) PROVE FilesKept'
  <2>1. /\ stream' = [stream EXCEPT ![l] = Len(files) + 1]
        /\ listeners' = Append(listeners, l)
        /\ replaced' = replaced \cup File(l) /\ UNCHANGED ended
    BY <1>8 DEF MkdirDone, Registered
  <2>2. Range(listeners') = Range(listeners) \cup {l}
    BY <2>1, AppendKeeps DEF FilesKept
  <2>3. stream'[l] = Len(files) + 1 /\ \A m \in Sessions : m # l => stream'[m] = stream[m]
    BY <2>1 DEF FilesKept
  <2>4. Len(files') = Len(files) + 1
    <3> DEFINE old == Filed(l, <<Own(Warn), Own(Warn)>>, minLogLevel[l])
               own == IF minLogLevel[l] = Stop THEN <<>> ELSE <<Own(Verbose)>>
    <3>1. old \in Seq(Seq(Lines)) /\ Len(old) = Len(files)
      BY OwnLines, OwnContinue DEF LoggerIInv
    <3>2. own \in Seq(Lines)
      BY OwnLines
    <3>3. files' = Append(old, own)
      BY <1>8 DEF MkdirDone
    <3> HIDE DEF old, own
    <3> QED BY <3>1, <3>2, <3>3, AppendProperties
  <2>5. \A m \in Sessions : stream'[m] # 0 => m \in Range(listeners')
    BY <2>2, <2>3 DEF FilesKept
  <2>6. \A m \in Sessions : stream'[m] = stream[m] \/ File(m) \subseteq ended' \cup replaced'
    BY <2>1, <2>3
  <2>7. ended \cup replaced \subseteq ended' \cup replaced'
    BY <2>1
  <2>8. \E m \in Sessions : stream'[m] = Len(files) + 1
    BY <2>3
  <2> QED BY <2>4, <2>5, <2>6, <2>7, <2>8, KeepsFiles
<1>9. ASSUME NEW l \in Sessions, MkdirDone(l, FALSE) PROVE FilesKept'
  BY <1>1, <1>9 DEF MkdirDone
<1>10. CASE Flush
  <2>1. DOMAIN files' = 1 .. Len(files) /\ UNCHANGED <<stream, listeners, ended, replaced>>
    BY <1>0, <1>10, FiledFiles DEF Flush, InternalLog, fates
  <2> QED BY <2>1, FilesStay
<1>11. CASE Dispose
  <2>1. current \in Sessions /\ InternalDispose(current) /\ UNCHANGED files
    BY <1>11 DEF Dispose, LoggerIInv, LoggerTypeOK
  <2> QED BY <2>1, DisposeKeeps
<1>12. CASE BeforeExit
  <2>1. /\ stream' = [l \in Sessions |-> IF l \in Range(listeners) THEN 0 ELSE stream[l]]
        /\ ended' = ended \cup UNION {File(l) : l \in Range(listeners)}
        /\ UNCHANGED <<replaced, files>>
    BY <1>12 DEF BeforeExit
  <2>2. \A m \in Sessions : stream'[m] = 0
    BY <2>1 DEF FilesKept
  <2>3. \A m \in Sessions : stream'[m] = stream[m] \/ File(m) \subseteq ended' \cup replaced'
    <3>1. ASSUME NEW m \in Sessions, stream'[m] # stream[m] PROVE File(m) \subseteq ended'
      BY <2>1, <3>1
    <3> QED BY <3>1
  <2>4. ended \cup replaced \subseteq ended' \cup replaced'
    BY <2>1
  <2>5. Len(files') = Len(files)
    BY <2>1
  <2>6. \A m \in Sessions : stream'[m] # 0 => m \in Range(listeners')
    BY <2>2
  <2> QED BY <2>3, <2>4, <2>5, <2>6, KeepsFiles
<1>13. CASE Signal
  <2>1. Head(listeners) \in Sessions /\ InternalDispose(Head(listeners)) /\ UNCHANGED files
    BY <1>13, HeadTailProperties DEF Signal, FilesKept
  <2> QED BY <2>1, DisposeKeeps
<1> QED BY <1>2, <1>4, <1>5, <1>6, <1>7, <1>8, <1>9, <1>10, <1>11, <1>12, <1>13 DEF Next

\* No log file is forgotten: each was ended, or is watched by the process, which
\* disposes its logger at the end, or has given way to a later file of its logger
\* without being ended; although a logger may be disposed while its setup awaits mkdir,
\* be set up again, or be registered more often than it is taken away
\* (internalLogger.ts:63-76, 88-110).
THEOREM NoFileIsForgotten == SafeSpec => []NoFileForgotten
<1>1. Init => FilesKept
  <2> SUFFICES ASSUME Init PROVE FilesKept
    OBVIOUS
  <2>1. listeners \in Seq(Sessions) /\ files \in Seq(Seq(Lines)) /\ Len(files) = 0
    BY EmptySeq DEF Init
  <2> QED BY <2>1 DEF Init, FilesKept
<1>2. FilesKept => NoFileForgotten
  <2> SUFFICES ASSUME FilesKept, NEW f \in DOMAIN files
               PROVE  Watched(f) \/ f \in ended \cup replaced
    BY DEF NoFileForgotten
  <2>1. Len(files) \in Nat /\ f \in 1 .. Len(files)
    BY LenProperties DEF FilesKept
  <2>2. f # 0
    BY <2>1
  <2> QED BY <2>1, <2>2 DEF FilesKept, Watched
<1> QED BY <1>1, <1>2, FilesKeptStep, LoggerInvariance, PTL DEF SafeSpec
=============================================================================
