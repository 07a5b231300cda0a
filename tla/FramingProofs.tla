---------------------------- MODULE FramingProofs ----------------------------
(***************************************************************************)
(* Proofs about Framing, for every set of bodies and every bound: on a     *)
(* stream that carries frames only the decoder stays aligned with them,    *)
(* its calls leave nothing behind, and the stream implements the channel   *)
(* of MessageChannel.  On a stream with foreign text its calls leave       *)
(* nothing behind either, and what they hand over was written.             *)
(***************************************************************************)
EXTENDS Framing, SequenceTheorems, TLAPS

-----------------------------------------------------------------------------
(* Headers *)

LEMMA UnitTypes ==
    /\ \A n \in Int : LengthLine(n) \in Unit
    /\ OtherLine \in Unit /\ Text \in Unit /\ Crlf \in Unit
    /\ \A n \in Int : LengthLine(n) # Crlf /\ LengthLine(n).field = "Content-Length"
                      /\ LengthLine(n).value = n
    /\ OtherLine # Crlf /\ OtherLine.field # "Content-Length"
    /\ Crlf.field # "Content-Length"
  BY DEF Unit, LengthLine, OtherLine, Text, Crlf

LEMMA BodyType ==
    ASSUME NEW body \in Bodies
    PROVE  body \in Seq(Unit) /\ Len(body) \in Nat
  BY BodiesAssumption, LenProperties

\* A header ends with the only two consecutive CR LF it holds, and exactly one
\* of its lines announces a length, which is the one of the body in bytes.
LEMMA HeaderShape ==
    ASSUME NEW body \in Bodies, NEW style \in Styles
    PROVE  LET head == Header(body, style)
               n    == Len(head)
           IN  /\ head \in Seq(Unit)
               /\ n \in Nat /\ n >= 3
               /\ head[n - 1] = Crlf /\ head[n] = Crlf
               /\ \A i \in 1 .. n - 2 : head[i] = Crlf => head[i + 1] # Crlf
               /\ \E l \in 1 .. n - 2 :
                    /\ head[l] = LengthLine(Len(body))
                    /\ l > 1 => head[l - 1] = Crlf
                    /\ \A j \in l + 1 .. n - 2 : head[j].field # "Content-Length"
               /\ \A i \in 1 .. n : head[i].field = "Content-Length" =>
                    i <= n - 2 /\ head[i].value = Len(body)
<1> DEFINE line == LengthLine(Len(body))
<1>1. line \in Unit /\ line # Crlf /\ line.field = "Content-Length"
  BY BodyType, UnitTypes
<1> HIDE DEF line
<1>2. CASE style = "plain"
  <2>1. Header(body, style) = <<line, Crlf, Crlf>>
    BY <1>2 DEF Header, line, ByteLength
  <2> QED BY <2>1, <1>1, UnitTypes, SMTT(30) DEF line
<1>3. CASE style = "before"
  <2>1. Header(body, style) = <<OtherLine, Crlf, line, Crlf, Crlf>>
    BY <1>3 DEF Header, line, ByteLength
  <2> QED BY <2>1, <1>1, UnitTypes, SMTT(30) DEF line
<1>4. CASE style = "after"
  <2>1. Header(body, style) = <<line, Crlf, OtherLine, Crlf, Crlf>>
    BY <1>4 DEF Header, line, ByteLength
  <2> QED BY <2>1, <1>1, UnitTypes, SMTT(30) DEF line
<1> QED BY <1>2, <1>3, <1>4 DEF Styles

-----------------------------------------------------------------------------
(* The inductive invariant *)

\* The numbers a frame is described by, and the units its parts are made of.
LEMMA FrameFacts ==
    ASSUME TypeOK, NEW j \in 1 .. Len(frames)
    PROVE  /\ frames[j].at \in Nat /\ frames[j].head \in Nat
           /\ frames[j].body \in Bodies /\ frames[j].body \in Seq(Unit)
           /\ Len(frames[j].body) \in Nat
           /\ BodyAt(j) = frames[j].at + frames[j].head
           /\ FrameEnd(j) = frames[j].at + frames[j].head + Len(frames[j].body)
           /\ BodyAt(j) \in Nat /\ FrameEnd(j) \in Nat
<1>1. frames[j] \in [at : Nat, head : Nat, body : Bodies]
  BY ElementOfSeq DEF TypeOK
<1>2. frames[j].body \in Bodies
  BY <1>1
<1>3. frames[j].body \in Seq(Unit) /\ Len(frames[j].body) \in Nat
  BY <1>2, BodyType
<1> QED BY <1>1, <1>2, <1>3 DEF BodyAt, FrameEnd

\* The parts of a frame that begins at position `at' of a wire of w units.
LEMMA PlacesOnWire ==
    ASSUME NEW at \in Nat, NEW h \in Nat, NEW b \in Nat, NEW w \in Nat,
           at >= 1, at + h + b <= w + 1
    PROVE  /\ \A i \in 1 .. h : at + i - 1 \in 1 .. w
           /\ \A i \in 1 .. b : (at + h) + i - 1 \in 1 .. w
  OBVIOUS

LEMMA InitIInv == Init => IInv
<1> SUFFICES ASSUME Init PROVE IInv
  OBVIOUS
<1> USE DEF Init
<1>1. TypeOK
  <2>1. \A S : <<>> \in Seq(S) /\ Len(<<>>) = 0
    BY EmptySeq
  <2>2. 0 \in 0 .. MaxFaults /\ 0 \in 0 .. 0
    BY BoundsAssumption
  <2> QED BY <2>1, <2>2 DEF TypeOK
<1>2. BufferIsWindow /\ FramesOnWire /\ Aligned
  BY DEF BufferIsWindow, FramesOnWire, Aligned, NextFrameAt, consumed
<1> QED BY <1>1, <1>2 DEF IInv

\* Writing a frame extends the wire and the history and touches no older frame.
LEMMA WriteFacts ==
    ASSUME TypeOK, BufferIsWindow,
           NEW body \in Bodies, NEW style \in Styles, Write(body, style)
    PROVE  LET head == Header(body, style)
               new  == [at |-> Len(wire) + 1, head |-> Len(head), body |-> body]
           IN  /\ Len(wire') = Len(wire) + Len(head) + Len(body)
               /\ \A i \in 1 .. Len(wire) : wire'[i] = wire[i]
               /\ \A i \in 1 .. Len(head) : wire'[Len(wire) + i] = head[i]
               /\ \A i \in 1 .. Len(body) : wire'[Len(wire) + Len(head) + i] = body[i]
               /\ Len(frames') = Len(frames) + 1
               /\ \A j \in 1 .. Len(frames) : frames'[j] = frames[j]
               /\ frames'[Len(frames) + 1] = new
               /\ UNCHANGED <<got, rawData, contentLength, loop, escaped, faults, taken,
                             delivered, stray>>
               /\ TypeOK' /\ BufferIsWindow'
<1> DEFINE head == Header(body, style)
           new  == [at |-> Len(wire) + 1, head |-> Len(head), body |-> body]
<1>0. TypeOK /\ BufferIsWindow
  OBVIOUS
<1>1. body \in Seq(Unit) /\ Len(body) \in Nat
  BY BodyType
<1>2. head \in Seq(Unit) /\ Len(head) \in Nat
  BY HeaderShape
<1>3. wire \in Seq(Unit) /\ Len(wire) \in Nat /\ Len(frames) \in Nat
  BY <1>0, LenProperties DEF TypeOK
<1> HIDE DEF head
<1>4. /\ wire' \in Seq(Unit)
      /\ Len(wire') = Len(wire) + Len(head) + Len(body)
      /\ \A i \in 1 .. Len(wire) : wire'[i] = wire[i]
      /\ \A i \in 1 .. Len(head) : wire'[Len(wire) + i] = head[i]
      /\ \A i \in 1 .. Len(body) : wire'[Len(wire) + Len(head) + i] = body[i]
  <2>1. wire' = (wire \o head) \o body
    BY DEF Write, head
  <2>2. /\ wire \o head \in Seq(Unit)
        /\ Len(wire \o head) = Len(wire) + Len(head)
        /\ \A i \in 1 .. Len(wire) + Len(head) :
             (wire \o head)[i] = IF i <= Len(wire) THEN wire[i] ELSE head[i - Len(wire)]
    BY <1>2, <1>3, ConcatProperties
  <2>3. /\ wire' \in Seq(Unit)
        /\ Len(wire') = Len(wire) + Len(head) + Len(body)
        /\ \A i \in 1 .. Len(wire) + Len(head) + Len(body) :
             wire'[i] = IF i <= Len(wire) + Len(head) THEN (wire \o head)[i]
                        ELSE body[i - (Len(wire) + Len(head))]
    BY <2>1, <2>2, <1>1, ConcatProperties
  <2>4. ASSUME NEW i \in 1 .. Len(wire) PROVE wire'[i] = wire[i]
    BY <2>2, <2>3, <1>1, <1>2, <1>3
  <2>5. ASSUME NEW i \in 1 .. Len(head) PROVE wire'[Len(wire) + i] = head[i]
    <3>1. /\ Len(wire) + i \in 1 .. Len(wire) + Len(head)
          /\ Len(wire) + i \in 1 .. Len(wire) + Len(head) + Len(body)
          /\ ~(Len(wire) + i <= Len(wire)) /\ (Len(wire) + i) - Len(wire) = i
      BY <1>1, <1>2, <1>3
    <3> QED BY <3>1, <2>2, <2>3
  <2>6. ASSUME NEW i \in 1 .. Len(body)
        PROVE  wire'[Len(wire) + Len(head) + i] = body[i]
    <3>1. /\ Len(wire) + Len(head) + i \in 1 .. Len(wire) + Len(head) + Len(body)
          /\ ~(Len(wire) + Len(head) + i <= Len(wire) + Len(head))
          /\ (Len(wire) + Len(head) + i) - (Len(wire) + Len(head)) = i
      BY <1>1, <1>2, <1>3
    <3> QED BY <3>1, <2>3
  <2> QED BY <2>3, <2>4, <2>5, <2>6
<1>5. /\ new \in [at : Nat, head : Nat, body : Bodies]
      /\ frames' \in Seq([at : Nat, head : Nat, body : Bodies])
      /\ Len(frames') = Len(frames) + 1
      /\ \A j \in 1 .. Len(frames) : frames'[j] = frames[j]
      /\ frames'[Len(frames) + 1] = new
  <2>1. new \in [at : Nat, head : Nat, body : Bodies]
    BY <1>2, <1>3
  <2>2. frames' = Append(frames, new)
    BY DEF Write, head
  <2> QED BY <2>1, <2>2, <1>0, AppendProperties DEF TypeOK
<1> HIDE DEF new
<1>6. UNCHANGED <<got, rawData, contentLength, loop, escaped, faults, taken, delivered, stray>>
  BY DEF Write, decoder
<1>7. TypeOK'
  BY <1>0, <1>3, <1>4, <1>5, <1>6, <1>1, <1>2 DEF TypeOK
<1>8. BufferIsWindow'
  <2>1. Len(rawData) \in Nat /\ got \in 0 .. Len(wire)
    BY <1>0, LenProperties DEF TypeOK
  <2> QED BY <2>1, <1>0, <1>3, <1>4, <1>6 DEF BufferIsWindow, consumed
<1> QED BY <1>4, <1>5, <1>6, <1>7, <1>8 DEF head, new

LEMMA WriteIInv ==
    ASSUME IInv, NEW body \in Bodies, NEW style \in Styles, Write(body, style)
    PROVE  IInv'
<1> DEFINE head == Header(body, style)
           new  == [at |-> Len(wire) + 1, head |-> Len(head), body |-> body]
<1>0. TypeOK /\ BufferIsWindow /\ FramesOnWire /\ Aligned
  BY DEF IInv
<1>1. body \in Seq(Unit) /\ Len(body) \in Nat
  BY BodyType
<1>2. head \in Seq(Unit) /\ Len(head) \in Nat
  BY HeaderShape
<1>3. wire \in Seq(Unit) /\ Len(wire) \in Nat /\ Len(frames) \in Nat
  BY <1>0, LenProperties DEF TypeOK
<1>4. /\ Len(wire') = Len(wire) + Len(head) + Len(body)
      /\ \A i \in 1 .. Len(wire) : wire'[i] = wire[i]
      /\ \A i \in 1 .. Len(head) : wire'[Len(wire) + i] = head[i]
      /\ \A i \in 1 .. Len(body) : wire'[Len(wire) + Len(head) + i] = body[i]
  BY <1>0, WriteFacts
<1>5. /\ Len(frames') = Len(frames) + 1
      /\ \A j \in 1 .. Len(frames) : frames'[j] = frames[j]
      /\ frames'[Len(frames) + 1] = new
  BY <1>0, WriteFacts
<1>6. UNCHANGED <<got, rawData, contentLength, loop, escaped, faults, taken, delivered, stray>>
  BY <1>0, WriteFacts
<1>7. TypeOK' /\ BufferIsWindow'
  BY <1>0, WriteFacts
<1> HIDE DEF head, new
<1>8. \A j \in 1 .. Len(frames) :
        /\ BodyAt(j)' = BodyAt(j) /\ FrameEnd(j)' = FrameEnd(j)
        /\ NextFrameAt(j)' = NextFrameAt(j)
  BY <1>5 DEF BodyAt, FrameEnd, NextFrameAt
<1>9. NextFrameAt(0)' = NextFrameAt(0)
  BY DEF NextFrameAt
<1>11. FramesOnWire'
  <2> SUFFICES
        /\ \A j \in 1 .. Len(frames') :
             /\ frames'[j].at = NextFrameAt(j - 1)'
             /\ frames'[j].at >= 1 /\ FrameEnd(j)' <= Len(wire') + 1
             /\ \E st \in Styles :
                  LET h == Header(frames'[j].body, st)
                  IN  /\ frames'[j].head = Len(h)
                      /\ \A i \in 1 .. Len(h) : wire'[frames'[j].at + i - 1] = h[i]
             /\ \A i \in 1 .. Len(frames'[j].body) :
                  wire'[BodyAt(j)' + i - 1] = frames'[j].body[i]
        /\ Len(wire') + 1 = NextFrameAt(Len(frames))'
    BY DEF FramesOnWire, Header, ByteLength, LengthLine, OtherLine, Crlf, Styles
  <2>1. Len(wire') + 1 = NextFrameAt(Len(frames))'
    <3>1. new.at = Len(wire) + 1 /\ new.head = Len(head) /\ new.body = body
      BY DEF new
    <3>2. NextFrameAt(Len(frames))' = Len(wire) + 1 + Len(head) + Len(body)
      <4>1. Len(frames') # 0 /\ frames'[Len(frames')] = new
        BY <1>3, <1>5
      <4>2. NextFrameAt(Len(frames))' = new.at + new.head + Len(new.body)
        BY <4>1 DEF NextFrameAt, FrameEnd, BodyAt
      <4> QED BY <4>2, <3>1
    <3> QED BY <3>2, <1>1, <1>2, <1>3, <1>4
  <2>2. ASSUME NEW j \in 1 .. Len(frames)
        PROVE  /\ frames'[j].at = NextFrameAt(j - 1)'
               /\ frames'[j].at >= 1 /\ FrameEnd(j)' <= Len(wire') + 1
               /\ \E st \in Styles :
                    LET h == Header(frames'[j].body, st)
                    IN  /\ frames'[j].head = Len(h)
                        /\ \A i \in 1 .. Len(h) : wire'[frames'[j].at + i - 1] = h[i]
               /\ \A i \in 1 .. Len(frames'[j].body) :
                    wire'[BodyAt(j)' + i - 1] = frames'[j].body[i]
    <3>1. frames[j].at = NextFrameAt(j - 1) /\ frames[j].at >= 1
          /\ FrameEnd(j) <= Len(wire) + 1
      BY <1>0 DEF FramesOnWire
    <3>2. frames'[j] = frames[j] /\ BodyAt(j)' = BodyAt(j) /\ FrameEnd(j)' = FrameEnd(j)
      BY <1>5, <1>8
    <3>3. NextFrameAt(j - 1)' = NextFrameAt(j - 1)
      BY <1>3, <1>8, <1>9
    <3>4. PICK st \in Styles :
            LET h == Header(frames[j].body, st)
            IN  /\ frames[j].head = Len(h)
                /\ \A i \in 1 .. Len(h) : wire[frames[j].at + i - 1] = h[i]
      BY <1>0 DEF FramesOnWire
    <3>5. \A i \in 1 .. Len(frames[j].body) : wire[BodyAt(j) + i - 1] = frames[j].body[i]
      BY <1>0 DEF FramesOnWire
    <3>6. /\ frames[j].at \in Nat /\ frames[j].head \in Nat
          /\ Len(frames[j].body) \in Nat
          /\ BodyAt(j) = frames[j].at + frames[j].head
          /\ FrameEnd(j) = frames[j].at + frames[j].head + Len(frames[j].body)
      BY <1>0, FrameFacts
    <3>7. LET h == Header(frames[j].body, st)
          IN  /\ frames[j].head = Len(h)
              /\ \A i \in 1 .. Len(h) : wire'[frames[j].at + i - 1] = h[i]
      <4>1. \A i \in 1 .. frames[j].head : frames[j].at + i - 1 \in 1 .. Len(wire)
        BY ONLY <3>1, <3>6, <1>3, PlacesOnWire
      <4> QED BY <4>1, <3>4, <1>4
    <3>8. \A i \in 1 .. Len(frames[j].body) : wire'[BodyAt(j) + i - 1] = frames[j].body[i]
      <4>1. \A i \in 1 .. Len(frames[j].body) : BodyAt(j) + i - 1 \in 1 .. Len(wire)
        BY ONLY <3>1, <3>6, <1>3, PlacesOnWire
      <4> QED BY <4>1, <3>5, <1>4
    <3>9. FrameEnd(j) <= Len(wire') + 1
      BY <3>1, <3>6, <1>1, <1>2, <1>3, <1>4
    <3> QED BY <3>1, <3>2, <3>3, <3>7, <3>8, <3>9
  <2>3. ASSUME NEW j, j = Len(frames) + 1
        PROVE  /\ frames'[j].at = NextFrameAt(j - 1)'
               /\ frames'[j].at >= 1 /\ FrameEnd(j)' <= Len(wire') + 1
               /\ \E st \in Styles :
                    LET h == Header(frames'[j].body, st)
                    IN  /\ frames'[j].head = Len(h)
                        /\ \A i \in 1 .. Len(h) : wire'[frames'[j].at + i - 1] = h[i]
               /\ \A i \in 1 .. Len(frames'[j].body) :
                    wire'[BodyAt(j)' + i - 1] = frames'[j].body[i]
    <3>1. frames'[j] = new
      BY <1>5, <2>3
    <3>2. new.at = Len(wire) + 1 /\ new.head = Len(head) /\ new.body = body
      BY DEF new
    <3>3. NextFrameAt(j - 1)' = NextFrameAt(Len(frames))
      BY <2>3, <1>3, <1>8, <1>9
    <3>4. NextFrameAt(Len(frames)) = Len(wire) + 1
      BY <1>0 DEF FramesOnWire
    <3>5. BodyAt(j)' = Len(wire) + 1 + Len(head)
          /\ FrameEnd(j)' = Len(wire) + 1 + Len(head) + Len(body)
      BY <3>1, <3>2 DEF BodyAt, FrameEnd
    <3>6. \A i \in 1 .. Len(head) : wire'[(Len(wire) + 1) + i - 1] = head[i]
      BY <1>2, <1>3, <1>4
    <3>7. \A i \in 1 .. Len(body) : wire'[(Len(wire) + 1 + Len(head)) + i - 1] = body[i]
      BY <1>1, <1>2, <1>3, <1>4
    <3>8. \E st \in Styles :
            LET h == Header(body, st)
            IN  /\ new.head = Len(h)
                /\ \A i \in 1 .. Len(h) : wire'[new.at + i - 1] = h[i]
      BY <3>2, <3>6 DEF head
    <3>9. new.at = NextFrameAt(j - 1)' /\ new.at >= 1 /\ FrameEnd(j)' <= Len(wire') + 1
      BY <3>2, <3>3, <3>4, <3>5, <1>1, <1>2, <1>3, <1>4
    <3> QED BY <3>1, <3>2, <3>5, <3>7, <3>8, <3>9
  <2>4. \A j \in 1 .. Len(frames') : j \in 1 .. Len(frames) \/ j = Len(frames) + 1
    BY <1>3, <1>5
  <2> QED BY <2>1, <2>2, <2>3, <2>4
<1>12. Aligned'
  <2>1. taken \in Nat /\ consumed' = consumed
    BY <1>0, <1>6 DEF TypeOK, consumed
  <2>2. CASE /\ contentLength = -1 /\ taken <= Len(frames)
             /\ consumed + 1 = NextFrameAt(taken)
    <3>1. NextFrameAt(taken)' = NextFrameAt(taken)
      <4>1. taken = 0 \/ taken \in 1 .. Len(frames)
        BY <2>1, <2>2, <1>3
      <4> QED BY <4>1, <1>5, <1>6 DEF NextFrameAt, FrameEnd, BodyAt
    <3> QED BY <2>1, <2>2, <3>1, <1>3, <1>5, <1>6 DEF Aligned
  <2>3. CASE /\ taken < Len(frames)
             /\ contentLength = Len(frames[taken + 1].body)
             /\ consumed + 1 = BodyAt(taken + 1)
    <3>1. taken + 1 \in 1 .. Len(frames)
      BY <2>1, <2>3, <1>3
    <3>2. BodyAt(taken + 1)' = BodyAt(taken + 1)
      BY <3>1, <1>5, <1>6 DEF BodyAt
    <3>3. frames'[taken' + 1] = frames[taken + 1] /\ taken' < Len(frames')
      BY <2>1, <2>3, <3>1, <1>3, <1>5, <1>6
    <3>4. contentLength' = Len(frames'[taken' + 1].body)
      BY <2>3, <3>3, <1>6
    <3>5. consumed' + 1 = BodyAt(taken + 1)'
      BY <2>1, <2>3, <3>2
    <3> QED BY <3>3, <3>4, <3>5 DEF Aligned
  <2> QED BY <2>2, <2>3, <1>0 DEF Aligned
<1> QED BY <1>7, <1>11, <1>12 DEF IInv

LEMMA FramesStay ==
    ASSUME FramesOnWire, UNCHANGED <<wire, frames>>
    PROVE  FramesOnWire'
<1>1. wire' = wire /\ frames' = frames
  OBVIOUS
<1> QED BY <1>1 DEF FramesOnWire, NextFrameAt, FrameEnd, BodyAt, Header, ByteLength,
                    LengthLine, OtherLine, Crlf, Styles

\* A chunk of the wire goes to the end of the buffer.
LEMMA DataFacts ==
    ASSUME TypeOK, BufferIsWindow, NEW n \in Nat, Data(n)
    PROVE  /\ TypeOK' /\ BufferIsWindow' /\ consumed' = consumed
           /\ UNCHANGED <<wire, frames, stray, contentLength, taken, delivered>>
<1>0. TypeOK /\ BufferIsWindow
  OBVIOUS
<1>1. /\ wire \in Seq(Unit) /\ Len(wire) \in Nat
      /\ rawData \in Seq(Unit) /\ Len(rawData) \in Nat
      /\ got \in Nat /\ got <= Len(wire)
  BY <1>0, LenProperties DEF TypeOK
<1>2. n >= 1 /\ got' = got + n /\ got' <= Len(wire) /\ got' \in Nat
  BY <1>1 DEF Data
<1>3. UNCHANGED <<wire, frames, stray, contentLength, faults, taken, delivered>>
  BY DEF Data, sender
<1>4. /\ rawData' \in Seq(Unit)
      /\ Len(rawData') = Len(rawData) + n
      /\ \A i \in 1 .. Len(rawData) : rawData'[i] = rawData[i]
      /\ \A i \in 1 .. n : rawData'[Len(rawData) + i] = wire[got + i]
  <2> DEFINE chunk == SubSeq(wire, got + 1, got + n)
  <2>1. \A i \in got + 1 .. got + n : wire[i] \in Unit
    BY <1>1, <1>2, ElementOfSeq
  <2>2. /\ chunk \in Seq(Unit) /\ Len(chunk) = n
        /\ \A i \in 1 .. n : chunk[i] = wire[got + i]
    <3>1. got + 1 \in Int /\ got + n \in Int /\ got + 1 <= got + n
      BY <1>1, <1>2
    <3>2. /\ chunk \in Seq(Unit)
          /\ Len(chunk) = IF got + 1 <= got + n THEN (got + n) - (got + 1) + 1 ELSE 0
          /\ \A i \in 1 .. (got + n) - (got + 1) + 1 : chunk[i] = wire[(got + 1) + i - 1]
      BY <2>1, <3>1, SubSeqProperties
    <3> HIDE DEF chunk
    <3> QED BY <3>1, <3>2, <1>1, <1>2
  <2>3. rawData' = rawData \o chunk
    BY DEF Data
  <2> HIDE DEF chunk
  <2>4. /\ rawData' \in Seq(Unit)
        /\ Len(rawData') = Len(rawData) + Len(chunk)
        /\ \A i \in 1 .. Len(rawData) + Len(chunk) :
             rawData'[i] = IF i <= Len(rawData) THEN rawData[i] ELSE chunk[i - Len(rawData)]
    BY <2>2, <2>3, <1>1, ConcatProperties
  <2>5. ASSUME NEW i \in 1 .. n
        PROVE  rawData'[Len(rawData) + i] = wire[got + i]
    <3>1. /\ Len(rawData) + i \in 1 .. Len(rawData) + Len(chunk)
          /\ ~(Len(rawData) + i <= Len(rawData))
          /\ (Len(rawData) + i) - Len(rawData) = i
      BY <2>2, <1>1, <1>2
    <3> QED BY <3>1, <2>2, <2>4
  <2> QED BY <2>2, <2>4, <2>5, <1>1, <1>2
<1>5. consumed' = consumed
  BY <1>1, <1>2, <1>4 DEF consumed
<1>6. TypeOK'
  <2>1. loop' \in BOOLEAN /\ escaped' \in BOOLEAN
    BY DEF Data
  <2> QED BY <2>1, <1>0, <1>1, <1>2, <1>3, <1>4 DEF TypeOK
<1>7. BufferIsWindow'
  <2>1. Len(rawData') <= got'
    BY <1>0, <1>1, <1>2, <1>4 DEF BufferIsWindow
  <2>2. ASSUME NEW i \in 1 .. Len(rawData')
        PROVE  rawData'[i] = wire[consumed + i]
    <3>1. CASE i \in 1 .. Len(rawData)
      BY <3>1, <1>0, <1>4 DEF BufferIsWindow
    <3>2. CASE ~(i \in 1 .. Len(rawData))
      <4>1. i - Len(rawData) \in 1 .. n
        BY <3>2, <1>1, <1>2, <1>4
      <4>2. rawData'[Len(rawData) + (i - Len(rawData))] = wire[got + (i - Len(rawData))]
        BY <4>1, <1>4
      <4>3. Len(rawData) + (i - Len(rawData)) = i /\ got + (i - Len(rawData)) = consumed + i
        BY <1>1 DEF consumed
      <4> QED BY <4>2, <4>3
    <3> QED BY <3>1, <3>2
  <2> QED BY <2>1, <2>2, <1>3, <1>5 DEF BufferIsWindow
<1> QED BY <1>3, <1>5, <1>6, <1>7

LEMMA DataIInv ==
    ASSUME IInv, NEW n \in Nat, Data(n)
    PROVE  IInv'
<1>1. /\ TypeOK' /\ BufferIsWindow' /\ consumed' = consumed
      /\ UNCHANGED <<wire, frames, stray, contentLength, taken, delivered>>
  BY DataFacts DEF IInv
<1>2. FramesOnWire'
  BY <1>1, FramesStay DEF IInv
<1>3. Aligned'
  BY <1>1 DEF IInv, Aligned, NextFrameAt, FrameEnd, BodyAt
<1> QED BY <1>1, <1>2, <1>3 DEF IInv

\* The buffer after its first n units have been cut off is a window again.
LEMMA SliceFacts ==
    ASSUME TypeOK, BufferIsWindow, NEW n \in 0 .. Len(rawData),
           rawData' = SubSeq(rawData, n + 1, Len(rawData)),
           UNCHANGED <<wire, got>>
    PROVE  /\ rawData' \in Seq(Unit)
           /\ Len(rawData') = Len(rawData) - n
           /\ consumed' = consumed + n
           /\ BufferIsWindow'
<1>1. /\ rawData \in Seq(Unit) /\ Len(rawData) \in Nat /\ got \in Nat
  BY LenProperties DEF TypeOK
<1>2. \A i \in n + 1 .. Len(rawData) : rawData[i] \in Unit
  BY <1>1, ElementOfSeq
<1>3. /\ rawData' \in Seq(Unit)
      /\ Len(rawData') = IF n + 1 <= Len(rawData) THEN Len(rawData) - (n + 1) + 1 ELSE 0
      /\ \A i \in 1 .. Len(rawData) - (n + 1) + 1 : rawData'[i] = rawData[(n + 1) + i - 1]
  <2>1. n + 1 \in Int /\ Len(rawData) \in Int
    BY <1>1
  <2> QED BY <2>1, <1>2, SubSeqProperties
<1>4. Len(rawData') = Len(rawData) - n
  BY <1>1, <1>3
<1>5. consumed' = consumed + n
  <2>1. consumed' = got - Len(rawData') /\ consumed = got - Len(rawData)
    BY DEF consumed
  <2>2. n \in Int /\ Len(rawData) \in Int /\ got \in Int
    BY <1>1
  <2>3. got - (Len(rawData) - n) = (got - Len(rawData)) + n
    BY <2>2
  <2> QED BY <2>1, <2>3, <1>4
<1>6. BufferIsWindow'
  <2>1. Len(rawData') <= got'
    BY <1>1, <1>4 DEF BufferIsWindow
  <2>2. ASSUME NEW i \in 1 .. Len(rawData')
        PROVE  rawData'[i] = wire'[consumed' + i]
    <3>1. i \in 1 .. Len(rawData) - (n + 1) + 1 /\ n + i \in 1 .. Len(rawData)
          /\ (n + 1) + i - 1 = n + i
      BY <1>1, <1>4
    <3>2. rawData'[i] = rawData[n + i]
      BY <3>1, <1>3
    <3>3. rawData[n + i] = wire[consumed + (n + i)]
      BY <3>1 DEF BufferIsWindow
    <3>4. consumed + (n + i) = consumed' + i
      <4>1. consumed \in Int /\ n \in Int /\ i \in Int
        BY <1>1 DEF consumed
      <4> QED BY <4>1, <1>5
    <3> QED BY <3>2, <3>3, <3>4
  <2> QED BY <2>1, <2>2 DEF BufferIsWindow
<1> QED BY <1>3, <1>4, <1>5, <1>6

\* A decoder that stands at the body of frame k, with its length, takes this body
\* when the buffer holds that much.
LEMMA CutBody ==
    ASSUME TypeOK, BufferIsWindow, BodyComplete,
           NEW k \in 1 .. Len(frames),
           \A i \in 1 .. Len(frames[k].body) : wire[BodyAt(k) + i - 1] = frames[k].body[i],
           contentLength = Len(frames[k].body), consumed + 1 = BodyAt(k)
    PROVE  SubSeq(rawData, 1, contentLength) = frames[k].body
<1> DEFINE cut == SubSeq(rawData, 1, contentLength)
           b   == frames[k].body
<1>1. b \in Seq(Unit) /\ Len(b) \in Nat
  BY FrameFacts
<1>2. contentLength \in Nat /\ Len(rawData) >= contentLength
  BY <1>1 DEF BodyComplete
<1>3. rawData \in Seq(Unit) /\ Len(rawData) \in Nat /\ got \in Nat
  BY LenProperties DEF TypeOK
<1>4. /\ cut \in Seq(Unit) /\ Len(cut) = contentLength
      /\ \A i \in 1 .. contentLength : cut[i] = rawData[i]
  <2>1. \A i \in 1 .. contentLength : rawData[i] \in Unit
    BY <1>2, <1>3, ElementOfSeq
  <2>2. /\ cut \in Seq(Unit)
        /\ Len(cut) = IF 1 <= contentLength THEN contentLength - 1 + 1 ELSE 0
        /\ \A i \in 1 .. contentLength - 1 + 1 : cut[i] = rawData[1 + i - 1]
    BY <2>1, <1>2, SubSeqProperties
  <2> HIDE DEF cut
  <2> QED BY <2>2, <1>2
<1> HIDE DEF cut
<1>5. ASSUME NEW i \in 1 .. Len(b)
      PROVE  cut[i] = b[i]
  <2>1. i \in 1 .. Len(rawData) /\ i \in 1 .. contentLength
    BY <1>1, <1>2, <1>3
  <2>2. cut[i] = wire[consumed + i]
    BY <2>1, <1>4 DEF BufferIsWindow
  <2>3. b[i] = wire[BodyAt(k) + i - 1]
    OBVIOUS
  <2>4. consumed \in Int
    BY <1>3 DEF consumed
  <2>5. consumed + i = BodyAt(k) + i - 1
    BY <2>4
  <2> QED BY <2>2, <2>3, <2>5
<1>6. cut = b
  BY <1>1, <1>4, <1>5, SeqEqual
<1> QED BY <1>6 DEF cut

\* A body that is complete leaves the buffer a window.
LEMMA TakeBodyFacts ==
    ASSUME TypeOK, BufferIsWindow, NEW throws \in BOOLEAN, TakeBody(throws)
    PROVE  /\ TypeOK' /\ BufferIsWindow' /\ consumed' = consumed + contentLength
           /\ contentLength \in Nat /\ contentLength' = -1 /\ taken' = taken + 1
           /\ UNCHANGED <<wire, frames, stray, got>>
<1>1. /\ taken \in Nat /\ rawData \in Seq(Unit) /\ Len(rawData) \in Nat
  BY LenProperties DEF TypeOK
<1>2. contentLength \in Int
  <2>1. \A b \in Bodies : Len(b) \in Int
    BY BodyType
  <2> QED BY <2>1 DEF TypeOK
<1>3. contentLength \in 0 .. Len(rawData) /\ contentLength \in Nat
  BY <1>1, <1>2 DEF TakeBody, BodyComplete
<1>4. UNCHANGED <<wire, frames, stray, got>>
  BY DEF TakeBody, sender
<1>5. contentLength' = -1 /\ taken' = taken + 1
  BY DEF TakeBody
<1>6. /\ rawData' \in Seq(Unit)
      /\ consumed' = consumed + contentLength
      /\ BufferIsWindow'
  <2>1. rawData' = SubSeq(rawData, contentLength + 1, Len(rawData))
    BY DEF TakeBody
  <2> QED BY <2>1, <1>3, <1>4, SliceFacts
<1>7. TypeOK'
  <2>1. delivered' \in Seq(Seq(Unit))
    <3> DEFINE cut == SubSeq(rawData, 1, contentLength)
    <3>1. cut \in Seq(Unit)
      <4>1. \A i \in 1 .. contentLength : rawData[i] \in Unit
        BY <1>1, <1>3, ElementOfSeq
      <4> QED BY <4>1, <1>2, SubSeqProperties
    <3>2. delivered' = IF Len(cut) > 0 THEN Append(delivered, cut) ELSE delivered
      BY DEF TakeBody, HandOver
    <3> HIDE DEF cut
    <3> QED BY <3>1, <3>2, AppendProperties DEF TypeOK
  <2>2. loop' \in BOOLEAN /\ escaped' \in BOOLEAN
    BY BoundsAssumption DEF TakeBody, AfterBody
  <2>3. faults' \in 0 .. MaxFaults
    BY BoundsAssumption DEF TypeOK, TakeBody
  <2>4. got' \in 0 .. Len(wire')
    BY <1>4 DEF TypeOK
  <2> QED BY <2>1, <2>2, <2>3, <2>4, <1>1, <1>4, <1>5, <1>6 DEF TypeOK
<1> QED BY <1>3, <1>4, <1>5, <1>6, <1>7

\* With a length announced, an aligned decoder stands at the body of the next
\* frame, and a complete body in the buffer is the body of that frame.
LEMMA BodyInBuffer ==
    ASSUME IInv, BodyComplete
    PROVE  /\ contentLength \in Nat
           /\ taken + 1 \in 1 .. Len(frames)
           /\ contentLength = Len(frames[taken + 1].body)
           /\ consumed + 1 = BodyAt(taken + 1)
           /\ SubSeq(rawData, 1, contentLength) = frames[taken + 1].body
<1>0. TypeOK /\ BufferIsWindow /\ FramesOnWire /\ Aligned
  BY DEF IInv
<1>1. /\ taken \in Nat /\ Len(frames) \in Nat /\ got \in Nat
      /\ rawData \in Seq(Unit) /\ Len(rawData) \in Nat
  BY <1>0, LenProperties DEF TypeOK
<1>2. contentLength \in Int
  <2>1. \A b \in Bodies : Len(b) \in Int
    BY BodyType
  <2> QED BY <2>1, <1>0 DEF TypeOK
<1>3. contentLength >= 0 /\ contentLength \in Nat /\ Len(rawData) >= contentLength
  BY <1>2 DEF BodyComplete
<1>4. /\ taken + 1 \in 1 .. Len(frames)
      /\ contentLength = Len(frames[taken + 1].body)
      /\ consumed + 1 = BodyAt(taken + 1)
  BY <1>0, <1>1, <1>3 DEF Aligned
<1>5. SubSeq(rawData, 1, contentLength) = frames[taken + 1].body
  <2>1. \A i \in 1 .. Len(frames[taken + 1].body) :
          wire[BodyAt(taken + 1) + i - 1] = frames[taken + 1].body[i]
    BY <1>0, <1>4 DEF FramesOnWire
  <2> QED BY <2>1, <1>0, <1>4, CutBody
<1> QED BY <1>3, <1>4, <1>5

LEMMA TakeBodyIInv ==
    ASSUME IInv, NEW throws \in BOOLEAN, TakeBody(throws)
    PROVE  IInv'
<1>0. TypeOK /\ BufferIsWindow /\ FramesOnWire /\ Aligned
  BY DEF IInv
<1>1. /\ taken \in Nat /\ Len(frames) \in Nat
      /\ rawData \in Seq(Unit) /\ Len(rawData) \in Nat
  BY <1>0, LenProperties DEF TypeOK
<1>2. BodyComplete
  BY DEF TakeBody
<1>3. /\ contentLength \in Nat
      /\ taken + 1 \in 1 .. Len(frames)
      /\ contentLength = Len(frames[taken + 1].body)
      /\ consumed + 1 = BodyAt(taken + 1)
      /\ SubSeq(rawData, 1, contentLength) = frames[taken + 1].body
  BY <1>2, BodyInBuffer
<1>4. /\ TypeOK' /\ BufferIsWindow' /\ consumed' = consumed + contentLength
      /\ contentLength' = -1 /\ taken' = taken + 1
      /\ UNCHANGED <<wire, frames, stray, got>>
  BY <1>0, TakeBodyFacts
<1>5. FramesOnWire'
  BY <1>0, <1>4, FramesStay
<1>6. Aligned'
  <2>1. consumed \in Int
    BY <1>0, <1>1 DEF consumed, TypeOK
  <2>2. FrameEnd(taken + 1) = BodyAt(taken + 1) + Len(frames[taken + 1].body)
    BY DEF FrameEnd
  <2>3. BodyAt(taken + 1) \in Int
    BY <1>0, <1>3, FrameFacts
  <2>4. consumed' + 1 = FrameEnd(taken + 1)
    <3>1. consumed' + 1 = (consumed + 1) + contentLength
      <4>1. (consumed + contentLength) + 1 = (consumed + 1) + contentLength
        <5>1. contentLength \in Int
          BY <1>3
        <5> QED BY <5>1, <2>1
      <4> QED BY <4>1, <1>4
    <3> QED BY <3>1, <2>2, <2>3, <1>3
  <2>5. NextFrameAt(taken)' = FrameEnd(taken + 1)
    BY <1>1, <1>4 DEF NextFrameAt, FrameEnd, BodyAt
  <2>6. taken' <= Len(frames')
    BY <1>1, <1>3, <1>4
  <2> QED BY <2>4, <2>5, <2>6, <1>4 DEF Aligned
<1> QED BY <1>4, <1>5, <1>6 DEF IInv

\* With no length announced an aligned decoder stands at the header of the next
\* frame: the first CR LF CR LF of the buffer ends this header, and the last
\* length field before it announces the length of the frame's body.
LEMMA HeaderInBuffer ==
    ASSUME IInv, ~(contentLength >= 0),
           NEW idx \in 1 .. Len(rawData), TwoCrlfAt(rawData, idx),
           \A j \in 1 .. idx - 1 : ~TwoCrlfAt(rawData, j)
    PROVE  /\ taken + 1 \in 1 .. Len(frames)
           /\ idx + 1 = frames[taken + 1].head
           /\ consumed + 1 = frames[taken + 1].at
           /\ idx + 1 <= Len(rawData)
           /\ \E l \in 1 .. idx - 1 :
                /\ LengthField(rawData, l, idx)
                /\ rawData[l].value = Len(frames[taken + 1].body)
                /\ \A j \in l + 1 .. idx - 1 : ~LengthField(rawData, j, idx)
<1>0. TypeOK /\ BufferIsWindow /\ FramesOnWire /\ Aligned
  BY DEF IInv
<1>1. /\ taken \in Nat /\ Len(frames) \in Nat
      /\ rawData \in Seq(Unit) /\ Len(rawData) \in Nat
      /\ wire \in Seq(Unit) /\ Len(wire) \in Nat
      /\ got \in Nat /\ got <= Len(wire)
  BY <1>0, LenProperties DEF TypeOK
<1>2. idx + 1 <= Len(rawData) /\ rawData[idx] = Crlf /\ rawData[idx + 1] = Crlf
  BY <1>1 DEF TwoCrlfAt
<1>3. /\ contentLength = -1 /\ taken <= Len(frames)
      /\ consumed + 1 = NextFrameAt(taken)
  <2>1. ~(taken < Len(frames) /\ contentLength = Len(frames[taken + 1].body))
    <3> SUFFICES ASSUME taken < Len(frames), contentLength = Len(frames[taken + 1].body)
                 PROVE  FALSE
      OBVIOUS
    <3>1. taken + 1 \in 1 .. Len(frames)
      BY <1>1
    <3>2. Len(frames[taken + 1].body) \in Nat
      BY <3>1, <1>0, FrameFacts
    <3> QED BY <3>2
  <2> QED BY <2>1, <1>0 DEF Aligned
<1>4. consumed \in Nat /\ consumed + Len(rawData) = got
  BY <1>0, <1>1 DEF consumed, BufferIsWindow
<1>5. taken + 1 \in 1 .. Len(frames)
  <2>1. ASSUME taken = Len(frames) PROVE FALSE
    <3>1. Len(wire) + 1 = NextFrameAt(Len(frames))
      BY <1>0 DEF FramesOnWire
    <3>2. consumed = Len(wire)
      BY <2>1, <3>1, <1>1, <1>3, <1>4
    <3> QED BY <3>2, <1>1, <1>2, <1>4
  <2> QED BY <2>1, <1>1, <1>3
<1> DEFINE fr == frames[taken + 1]
<1>6. /\ fr.at \in Nat /\ fr.head \in Nat /\ fr.body \in Bodies
      /\ fr.at = consumed + 1
  <2>1. fr.at = NextFrameAt((taken + 1) - 1)
    BY <1>0, <1>5 DEF FramesOnWire
  <2>2. (taken + 1) - 1 = taken
    BY <1>1
  <2> QED BY <2>1, <2>2, <1>0, <1>3, <1>5, FrameFacts
<1>7. PICK style \in Styles :
        LET head == Header(fr.body, style)
        IN  /\ fr.head = Len(head)
            /\ \A i \in 1 .. Len(head) : wire[fr.at + i - 1] = head[i]
  BY <1>0, <1>5 DEF FramesOnWire
<1> DEFINE head == Header(fr.body, style)
           n    == Len(head)
<1>8. /\ head \in Seq(Unit)
      /\ n \in Nat /\ n >= 3
      /\ head[n - 1] = Crlf /\ head[n] = Crlf
      /\ \A i \in 1 .. n - 2 : head[i] = Crlf => head[i + 1] # Crlf
      /\ \E l \in 1 .. n - 2 :
           /\ head[l] = LengthLine(Len(fr.body))
           /\ l > 1 => head[l - 1] = Crlf
           /\ \A j \in l + 1 .. n - 2 : head[j].field # "Content-Length"
  BY <1>6, HeaderShape
<1>9. \A i \in 1 .. n : wire[fr.at + i - 1] = head[i]
  BY <1>7
<1>10. fr.head = n
  BY <1>7
<1> HIDE DEF head, n, fr
<1>11. ASSUME NEW i \in 1 .. Len(rawData), i <= n
       PROVE  rawData[i] = head[i]
  <2>1. rawData[i] = wire[consumed + i]
    BY <1>0 DEF BufferIsWindow
  <2>2. consumed + i = fr.at + i - 1 /\ i \in 1 .. n
    BY <1>4, <1>6, <1>8, <1>11
  <2> QED BY <2>1, <2>2, <1>9
<1>12. idx = n - 1
  <2>1. ASSUME idx < n - 1 PROVE FALSE
    <3>1. /\ idx \in 1 .. n - 2 /\ idx + 1 <= n
          /\ idx + 1 \in 1 .. Len(rawData) /\ idx \in 1 .. Len(rawData)
      BY <2>1, <1>1, <1>2, <1>8
    <3>2. rawData[idx] = head[idx] /\ rawData[idx + 1] = head[idx + 1]
      <4>1. idx <= n
        BY <3>1, <1>8
      <4> QED BY <3>1, <4>1, <1>11
    <3>3. head[idx] = Crlf /\ head[idx + 1] = Crlf
      BY <3>2, <1>2
    <3> QED BY <3>1, <3>3, <1>8
  <2>2. ASSUME idx > n - 1 PROVE FALSE
    <3>1. /\ n - 1 \in 1 .. idx - 1 /\ n - 1 \in 1 .. Len(rawData) - 1
          /\ n \in 1 .. Len(rawData) /\ n - 1 \in 1 .. Len(rawData)
          /\ (n - 1) + 1 = n
      BY <2>2, <1>1, <1>2, <1>8
    <3>2. rawData[n - 1] = Crlf /\ rawData[n] = Crlf
      <4>1. n - 1 <= n /\ n <= n
        BY <1>8
      <4>2. rawData[n - 1] = head[n - 1] /\ rawData[n] = head[n]
        BY <3>1, <4>1, <1>11
      <4> QED BY <4>2, <1>8
    <3>3. TwoCrlfAt(rawData, n - 1)
      BY <3>1, <3>2 DEF TwoCrlfAt
    <3> QED BY <3>1, <3>3
  <2> QED BY <2>1, <2>2, <1>8
<1>13. \A i \in 1 .. idx - 1 : rawData[i] = head[i]
  BY <1>1, <1>2, <1>8, <1>11, <1>12
<1>14. \E l \in 1 .. idx - 1 :
         /\ LengthField(rawData, l, idx)
         /\ rawData[l].value = Len(fr.body)
         /\ \A j \in l + 1 .. idx - 1 : ~LengthField(rawData, j, idx)
  <2>1. PICK l \in 1 .. n - 2 :
           /\ head[l] = LengthLine(Len(fr.body))
           /\ l > 1 => head[l - 1] = Crlf
           /\ \A j \in l + 1 .. n - 2 : head[j].field # "Content-Length"
    BY <1>8
  <2>2. l \in 1 .. idx - 1 /\ n - 2 = idx - 1
    BY <1>8, <1>12
  <2>3. Len(fr.body) \in Int
    BY <1>6, BodyType
  <2>4. rawData[l].field = "Content-Length" /\ rawData[l].value = Len(fr.body)
    BY <2>1, <2>2, <2>3, <1>13, UnitTypes
  <2>5. l > 1 => rawData[l - 1] = Crlf
    <3>1. l > 1 => l - 1 \in 1 .. idx - 1
      BY <2>2
    <3> QED BY <3>1, <2>1, <1>13
  <2>6. \A j \in l + 1 .. idx - 1 : rawData[j].field # "Content-Length"
    <3>1. \A j \in l + 1 .. idx - 1 : j \in 1 .. idx - 1
      BY <2>2
    <3> QED BY <3>1, <2>1, <2>2, <1>13
  <2> QED BY <2>2, <2>4, <2>5, <2>6 DEF LengthField
<1>15. idx + 1 = fr.head /\ consumed + 1 = fr.at
  BY <1>6, <1>8, <1>10, <1>12
<1> QED BY <1>2, <1>5, <1>14, <1>15, Zenon DEF fr

LEMMA ParseHeaderIInv ==
    ASSUME IInv, ParseHeader
    PROVE  IInv'
<1>0. TypeOK /\ BufferIsWindow /\ FramesOnWire /\ Aligned
  BY DEF IInv
<1>1. PICK idx \in 1 .. Len(rawData) :
        /\ TwoCrlfAt(rawData, idx)
        /\ \A j \in 1 .. idx - 1 : ~TwoCrlfAt(rawData, j)
        /\ \/ \E i \in 1 .. idx - 1 :
                /\ LengthField(rawData, i, idx)
                /\ \A j \in i + 1 .. idx - 1 : ~LengthField(rawData, j, idx)
                /\ contentLength' = rawData[i].value
           \/ /\ \A i \in 1 .. idx - 1 : ~LengthField(rawData, i, idx)
              /\ UNCHANGED contentLength
        /\ rawData' = SubSeq(rawData, idx + 2, Len(rawData))
  BY DEF ParseHeader
<1>2. /\ taken + 1 \in 1 .. Len(frames)
      /\ idx + 1 = frames[taken + 1].head
      /\ consumed + 1 = frames[taken + 1].at
      /\ idx + 1 <= Len(rawData)
      /\ \E l \in 1 .. idx - 1 :
           /\ LengthField(rawData, l, idx)
           /\ rawData[l].value = Len(frames[taken + 1].body)
           /\ \A j \in l + 1 .. idx - 1 : ~LengthField(rawData, j, idx)
  <2>1. ~(contentLength >= 0)
    BY DEF ParseHeader
  <2> QED BY <2>1, <1>1, HeaderInBuffer
<1>3. /\ taken \in Nat /\ Len(frames) \in Nat /\ got \in Nat
      /\ rawData \in Seq(Unit) /\ Len(rawData) \in Nat
  BY <1>0, LenProperties DEF TypeOK
<1>4. UNCHANGED <<wire, frames, stray, got, loop, escaped, faults, taken, delivered>>
  BY DEF ParseHeader, sender
<1>5. contentLength' = Len(frames[taken + 1].body)
  <2>1. PICK l \in 1 .. idx - 1 :
           /\ LengthField(rawData, l, idx)
           /\ rawData[l].value = Len(frames[taken + 1].body)
           /\ \A j \in l + 1 .. idx - 1 : ~LengthField(rawData, j, idx)
    BY <1>2
  <2>2. PICK i \in 1 .. idx - 1 :
           /\ LengthField(rawData, i, idx)
           /\ \A j \in i + 1 .. idx - 1 : ~LengthField(rawData, j, idx)
           /\ contentLength' = rawData[i].value
    BY <1>1, <2>1
  <2>3. i = l
    <3>1. ~(i < l) /\ ~(l < i)
      <4>1. i < l => l \in i + 1 .. idx - 1
        BY <1>3
      <4>2. l < i => i \in l + 1 .. idx - 1
        BY <1>3
      <4> QED BY <4>1, <4>2, <2>1, <2>2
    <3> QED BY <3>1
  <2> QED BY <2>1, <2>2, <2>3
<1>6. /\ rawData' \in Seq(Unit)
      /\ consumed' = consumed + (idx + 1)
      /\ BufferIsWindow'
      /\ Len(rawData') = Len(rawData) - (idx + 1)
  <2>1. idx + 1 \in 0 .. Len(rawData)
    BY <1>2, <1>3
  <2>2. rawData' = SubSeq(rawData, (idx + 1) + 1, Len(rawData))
    <3>1. (idx + 1) + 1 = idx + 2
      OBVIOUS
    <3> QED BY <3>1, <1>1
  <2> QED BY <2>1, <2>2, <1>0, <1>4, SliceFacts
<1>7. FramesOnWire'
  BY <1>0, <1>4, FramesStay
<1>8. TypeOK'
  <2>1. contentLength' \in {Len(b) : b \in Bodies}
    BY <1>0, <1>2, <1>5, FrameFacts
  <2> QED BY <2>1, <1>0, <1>4, <1>6 DEF TypeOK
<1>9. Aligned'
  <2>1. consumed' + 1 = BodyAt(taken + 1)
    <3>1. consumed \in Int
      BY <1>3 DEF consumed
    <3>2. (consumed + (idx + 1)) + 1 = (consumed + 1) + (idx + 1)
      BY <3>1
    <3> QED BY <3>2, <1>2, <1>6 DEF BodyAt
  <2>2. taken' < Len(frames') /\ contentLength' = Len(frames'[taken' + 1].body)
    BY <1>2, <1>3, <1>4, <1>5
  <2>3. BodyAt(taken + 1)' = BodyAt(taken + 1)
    BY <1>4 DEF BodyAt
  <2> QED BY <2>1, <2>2, <2>3 DEF Aligned
<1> QED BY <1>6, <1>7, <1>8, <1>9 DEF IInv

LEMMA NextIInv == IInv /\ [Next]_vars => IInv'
<1> SUFFICES ASSUME IInv, [Next]_vars PROVE IInv'
  OBVIOUS
<1>1. ASSUME NEW body \in Bodies, NEW style \in Styles, Write(body, style)
      PROVE  IInv'
  BY <1>1, WriteIInv
<1>2. ASSUME Receive PROVE IInv'
  <2>1. Len(wire) - got \in Int
    BY LenProperties DEF IInv, TypeOK
  <2>2. PICK n \in 1 .. (Len(wire) - got) : Data(n)
    BY <1>2 DEF Receive
  <2>3. n \in Nat
    BY <2>1, <2>2
  <2> QED BY <2>2, <2>3, DataIInv
<1>3. ASSUME NEW throws \in BOOLEAN, TakeBody(throws) PROVE IInv'
  BY <1>3, TakeBodyIInv
<1>4. CASE ParseHeader
  BY <1>4, ParseHeaderIInv
<1>5. CASE Break \/ UNCHANGED vars
  <2>1. UNCHANGED <<wire, frames, stray, got, rawData, contentLength, escaped, faults,
                    taken, delivered>>
    BY <1>5 DEF Break, sender, vars, decoder
  <2>2. loop' \in BOOLEAN
    BY <1>5 DEF Break, vars, decoder, IInv, TypeOK
  <2>3. TypeOK'
    BY <2>1, <2>2 DEF IInv, TypeOK
  <2>4. BufferIsWindow' /\ Aligned'
    BY <2>1 DEF IInv, BufferIsWindow, Aligned, consumed, NextFrameAt, FrameEnd, BodyAt
  <2>5. FramesOnWire'
    BY <2>1, FramesStay DEF IInv
  <2> QED BY <2>3, <2>4, <2>5 DEF IInv
<1> QED BY <1>1, <1>2, <1>3, <1>4, <1>5 DEF Next, Iterate

\* The types of the state, the numbers within their ranges (MCFramingServer).
THEOREM TypeCorrect == SafeSpec => []TypeOK
<1>1. IInv => TypeOK
  BY DEF IInv
<1> QED BY <1>1, InitIInv, NextIInv, PTL DEF SafeSpec

\* The inductive invariant, whatever the bodies hold and however the stream is cut.
THEOREM Invariance == SafeSpec => []IInv
  BY InitIInv, NextIInv, PTL DEF SafeSpec

\* The decoder never mistakes a byte of a body for one of a header or the other
\* way round (protocol.ts:209-247, protocolClient.ts:103-135).
THEOREM StaysAligned == SafeSpec => []Aligned
<1>1. IInv => Aligned
  BY DEF IInv
<1> QED BY <1>1, Invariance, PTL

LEMMA InitLeavesNothing == Init => NothingLeftBehind
  BY DEF Init, NothingLeftBehind, BodyComplete, HeaderComplete, TwoCrlfAt

\* Only Break and an exception end a call, and Break comes when nothing is complete.
LEMMA NextLeavesNothing ==
    ASSUME NothingLeftBehind, [Next \/ StrayText]_vars
    PROVE  NothingLeftBehind'
<1>1. ASSUME NEW body \in Bodies, NEW style \in Styles, Write(body, style)
      PROVE  NothingLeftBehind'
  BY <1>1 DEF Write, decoder, NothingLeftBehind, BodyComplete, HeaderComplete,
              TwoCrlfAt, Crlf
<1>2. CASE Receive
  BY <1>2 DEF Receive, Data, NothingLeftBehind
<1>3. ASSUME NEW throws \in BOOLEAN, TakeBody(throws)
      PROVE  NothingLeftBehind'
  BY <1>3, BoundsAssumption DEF TakeBody, AfterBody, NothingLeftBehind
<1>4. CASE ParseHeader
  BY <1>4 DEF ParseHeader, NothingLeftBehind
<1>5. CASE Break
  BY <1>5 DEF Break, NothingLeftBehind, BodyComplete, HeaderComplete, TwoCrlfAt, Crlf
<1>6. CASE StrayText \/ UNCHANGED vars
  BY <1>6 DEF StrayText, vars, decoder, NothingLeftBehind, BodyComplete, HeaderComplete,
              TwoCrlfAt, Crlf
<1> QED BY <1>1, <1>2, <1>3, <1>4, <1>5, <1>6 DEF Next, Iterate

\* When a call has ended in the regular way, the buffer holds no complete header
\* and no complete body of the length announced (the loop's two exits,
\* protocol.ts:213-246): every message that has arrived in full has been handled.
THEOREM CallsLeaveNothingBehind == SafeSpec => []NothingLeftBehind
<1>1. NothingLeftBehind /\ [Next]_vars => NothingLeftBehind'
  BY NextLeavesNothing
<1> QED BY <1>1, InitLeavesNothing, PTL DEF SafeSpec

\* And so it is when other text is on the stream, whatever the bodies hold.
THEOREM NoisyCallsLeaveNothingBehind == NoisySpec => []NothingLeftBehind
<1>1. NothingLeftBehind /\ [Next \/ StrayText]_vars => NothingLeftBehind'
  BY NextLeavesNothing
<1> QED BY <1>1, InitLeavesNothing, PTL DEF NoisySpec

-----------------------------------------------------------------------------
(* Refinement *)

\* The bodies written so far: what Channel!sent stands for.
bodies == [j \in 1 .. Len(frames) |-> frames[j].body]

LEMMA RefinesInit == Init => Channel!Init
  BY DEF Init, Channel!Init

\* Every step of the stream is a Send, a Take or a stutter of the channel.
LEMMA RefinesNext == IInv /\ [Next]_vars => [Channel!Next]_(Channel!vars)
<1> SUFFICES ASSUME IInv, [Next]_vars PROVE [Channel!Next]_(Channel!vars)
  OBVIOUS
<1>0. TypeOK /\ Len(frames) \in Nat /\ taken \in Nat
  BY LenProperties DEF IInv, TypeOK
<1>1. ASSUME NEW body \in Bodies, NEW style \in Styles, Write(body, style)
      PROVE  Channel!Next
  <2>1. UNCHANGED <<taken, delivered>>
    BY <1>1 DEF Write, decoder
  <2>2. PICK fr : frames' = Append(frames, fr) /\ fr.body = body
                  /\ fr \in [at : Nat, head : Nat, body : Bodies]
    <3> DEFINE new == [at |-> Len(wire) + 1, head |-> Len(Header(body, style)),
                       body |-> body]
    <3>1. Len(Header(body, style)) \in Nat /\ Len(wire) \in Nat
      BY <1>0, HeaderShape, LenProperties DEF TypeOK
    <3>2. new \in [at : Nat, head : Nat, body : Bodies] /\ new.body = body
      BY <3>1
    <3>3. frames' = Append(frames, new)
      BY <1>1 DEF Write
    <3> QED BY <3>2, <3>3
  <2>3. /\ Len(frames') = Len(frames) + 1
        /\ \A j \in 1 .. Len(frames) : frames'[j] = frames[j]
        /\ frames'[Len(frames) + 1] = fr
    BY <2>2, <1>0, AppendProperties DEF TypeOK
  <2>4. bodies \in Seq(Bodies) /\ Len(bodies) = Len(frames)
    <3>1. \A j \in 1 .. Len(frames) : frames[j].body \in Bodies
      BY <1>0, FrameFacts DEF IInv
    <3> QED BY <3>1, <1>0 DEF bodies
  <2>5. bodies' \in Seq(Bodies) /\ Len(bodies') = Len(frames) + 1
    <3>1. frames' \in Seq([at : Nat, head : Nat, body : Bodies])
      BY <2>2, <1>0, AppendProperties DEF TypeOK
    <3>2. \A j \in 1 .. Len(frames') : frames'[j].body \in Bodies
      <4>1. \A j \in 1 .. Len(frames') : frames'[j] \in [at : Nat, head : Nat, body : Bodies]
        BY <3>1, ElementOfSeq
      <4> QED BY <4>1
    <3> QED BY <3>2, <2>3, <1>0 DEF bodies
  <2>6. bodies' = Append(bodies, body)
    <3>1. /\ Append(bodies, body) \in Seq(Bodies)
          /\ Len(Append(bodies, body)) = Len(frames) + 1
          /\ \A i \in 1 .. Len(frames) : Append(bodies, body)[i] = bodies[i]
          /\ Append(bodies, body)[Len(frames) + 1] = body
      BY <2>4, AppendProperties
    <3>2. ASSUME NEW i \in 1 .. Len(frames) + 1
          PROVE  bodies'[i] = Append(bodies, body)[i]
      <4>1. bodies'[i] = frames'[i].body
        BY <2>3, <3>2 DEF bodies
      <4>2. CASE i \in 1 .. Len(frames)
        BY <4>1, <4>2, <2>3, <3>1 DEF bodies
      <4>3. CASE i = Len(frames) + 1
        BY <4>1, <4>3, <2>2, <2>3, <3>1
      <4>4. i \in 1 .. Len(frames) \/ i = Len(frames) + 1
        BY <1>0
      <4> QED BY <4>2, <4>3, <4>4
    <3> QED BY <2>5, <3>1, <3>2, SeqEqual
  <2>7. Channel!Send(body)
    BY <2>1, <2>6 DEF Channel!Send, bodies
  <2> QED BY <2>7 DEF Channel!Next
<1>2. ASSUME NEW throws \in BOOLEAN, TakeBody(throws)
      PROVE  Channel!Next
  <2>1. /\ contentLength \in Nat
        /\ taken + 1 \in 1 .. Len(frames)
        /\ SubSeq(rawData, 1, contentLength) = frames[taken + 1].body
    <3>1. BodyComplete
      BY <1>2 DEF TakeBody
    <3> QED BY <3>1, BodyInBuffer
  <2>2. bodies' = bodies /\ Len(bodies) = Len(frames)
        /\ bodies[taken + 1] = frames[taken + 1].body
    BY <1>0, <1>2, <2>1 DEF bodies, TakeBody, sender
  <2>3. frames[taken + 1].body \in Seq(Unit)
    BY <1>0, <2>1, FrameFacts DEF IInv
  <2>4. (Len(frames[taken + 1].body) > 0) <=> (frames[taken + 1].body # <<>>)
    BY <2>3, EmptySeq
  <2>5. delivered' = IF frames[taken + 1].body = <<>> THEN delivered
                     ELSE Append(delivered, frames[taken + 1].body)
    BY <1>2, <2>1, <2>4 DEF TakeBody, HandOver
  <2>6. taken' = taken + 1 /\ taken < Len(bodies)
    BY <1>0, <1>2, <2>1, <2>2 DEF TakeBody
  <2>7. Channel!Take
    BY <2>2, <2>5, <2>6 DEF Channel!Take, bodies
  <2> QED BY <2>7 DEF Channel!Next
<1>3. ASSUME UNCHANGED <<frames, taken, delivered>>
      PROVE  UNCHANGED Channel!vars
  BY <1>3 DEF Channel!vars
<1>4. CASE Receive
  BY <1>3, <1>4 DEF Receive, Data, sender
<1>5. CASE ParseHeader \/ Break \/ UNCHANGED vars
  BY <1>3, <1>5 DEF ParseHeader, Break, vars, sender, decoder
<1> QED BY <1>1, <1>2, <1>4, <1>5 DEF Next, Iterate

\* The stream of frames implements the channel: what one end hands to its handler
\* is what the other end wrote, in that order, none lost and none repeated, for
\* every set of bodies and every way to cut the stream.  (MCFramingServer checks
\* ChannelLive, which adds that every message is taken in the end.)
THEOREM ImplementsChannel == SafeSpec => ChannelSafe
  BY RefinesInit, RefinesNext, Invariance, PTL DEF SafeSpec, ChannelSafe, Channel!SafeSpec

-----------------------------------------------------------------------------
(* A stream with foreign text *)

\* What stands on the wire stays there, with the frames written so far.
Extends(s, t) == Len(s) <= Len(t) /\ \A i \in 1 .. Len(s) : t[i] = s[i]

\* The part of FramesApart that is about one frame.
FrameOnWire(j) ==
    /\ frames[j].at >= 1 /\ frames[j].head >= 3 /\ FrameEnd(j) <= Len(wire) + 1
    /\ TwoCrlfAt(wire, BodyAt(j) - 2)
    /\ \A p \in frames[j].at .. BodyAt(j) - 3 : ~TwoCrlfAt(wire, p)
    /\ \A i \in 1 .. Len(frames[j].body) : wire[BodyAt(j) + i - 1] = frames[j].body[i]

LEMMA FrameStays ==
    ASSUME TypeOK, TypeOK', NEW j \in 1 .. Len(frames), FrameOnWire(j),
           frames'[j] = frames[j], Extends(wire, wire')
    PROVE  /\ FrameOnWire(j)'
           /\ BodyAt(j)' = BodyAt(j) /\ FrameEnd(j)' = FrameEnd(j)
<1>1. BodyAt(j)' = BodyAt(j) /\ FrameEnd(j)' = FrameEnd(j)
  BY DEF BodyAt, FrameEnd
<1>2. /\ frames[j].at \in Nat /\ frames[j].head \in Nat
      /\ Len(frames[j].body) \in Nat
      /\ BodyAt(j) = frames[j].at + frames[j].head
      /\ FrameEnd(j) = frames[j].at + frames[j].head + Len(frames[j].body)
  BY FrameFacts
<1>3. Len(wire) \in Nat /\ Len(wire') \in Nat /\ Len(wire) <= Len(wire')
  BY LenProperties DEF TypeOK, Extends
<1>4. ASSUME NEW p \in frames[j].at .. BodyAt(j) - 2
      PROVE  TwoCrlfAt(wire', p) <=> TwoCrlfAt(wire, p)
  <2>1. p \in 1 .. Len(wire) - 1 /\ p \in 1 .. Len(wire') - 1
        /\ p \in 1 .. Len(wire) /\ p + 1 \in 1 .. Len(wire)
    <3>1. frames[j].at >= 1 /\ FrameEnd(j) <= Len(wire) + 1
      BY DEF FrameOnWire
    <3> DEFINE n == Len(wire)
               m == Len(wire')
               b == Len(frames[j].body)
    <3>2. n \in Nat /\ m \in Nat /\ n <= m /\ b \in Nat /\ FrameEnd(j) <= n + 1
          /\ FrameEnd(j) = BodyAt(j) + b /\ BodyAt(j) \in Nat
      BY <1>2, <1>3, <3>1
    <3> HIDE DEF n, m, b
    <3>3. p \in 1 .. n - 1 /\ p \in 1 .. m - 1 /\ p \in 1 .. n /\ p + 1 \in 1 .. n
      BY ONLY <1>2, <3>1, <3>2, p \in frames[j].at .. BodyAt(j) - 2
    <3> QED BY <3>3 DEF n, m
  <2>2. wire'[p] = wire[p] /\ wire'[p + 1] = wire[p + 1]
    BY <2>1 DEF Extends
  <2> QED BY <2>1, <2>2 DEF TwoCrlfAt, Crlf
<1>5. TwoCrlfAt(wire, BodyAt(j) - 2)'
  <2>1. BodyAt(j) - 2 \in frames[j].at .. BodyAt(j) - 2
    BY <1>2 DEF FrameOnWire
  <2>2. TwoCrlfAt(wire, BodyAt(j) - 2)
    BY DEF FrameOnWire
  <2>3. TwoCrlfAt(wire, BodyAt(j) - 2)' <=> TwoCrlfAt(wire', BodyAt(j) - 2)
    BY <1>1 DEF TwoCrlfAt, Crlf
  <2>4. TwoCrlfAt(wire', BodyAt(j) - 2)
    BY <2>1, <2>2, <1>4
  <2> QED BY <2>3, <2>4
<1>6. ASSUME NEW p \in frames'[j].at .. BodyAt(j)' - 3
      PROVE  ~TwoCrlfAt(wire, p)'
  <2>1. p \in frames[j].at .. BodyAt(j) - 3 /\ p \in frames[j].at .. BodyAt(j) - 2
    BY <1>1, <1>2
  <2>2. ~TwoCrlfAt(wire', p)
    BY <2>1, <1>4 DEF FrameOnWire
  <2> QED BY <2>2 DEF TwoCrlfAt, Crlf
<1>7. ASSUME NEW i \in 1 .. Len(frames'[j].body)
      PROVE  wire'[BodyAt(j)' + i - 1] = frames'[j].body[i]
  <2>1. i \in 1 .. Len(frames[j].body)
    OBVIOUS
  <2>2. BodyAt(j) + i - 1 \in 1 .. Len(wire)
    <3>1. frames[j].at >= 1 /\ FrameEnd(j) <= Len(wire) + 1
      BY DEF FrameOnWire
    <3>2. \A k \in 1 .. Len(frames[j].body) : BodyAt(j) + k - 1 \in 1 .. Len(wire)
      BY ONLY <3>1, <1>2, <1>3, PlacesOnWire
    <3> QED BY <3>2, <2>1
  <2> QED BY <2>1, <2>2, <1>1 DEF FrameOnWire, Extends
<1>8. FrameEnd(j)' <= Len(wire') + 1
  BY <1>1, <1>2, <1>3 DEF FrameOnWire
<1> QED BY <1>1, <1>5, <1>6, <1>7, <1>8 DEF FrameOnWire

\* A step that only adds to the wire keeps what is known of the frames that stay.
LEMMA WireGrows ==
    ASSUME TypeOK, TypeOK', FramesApart, Extends(wire, wire'),
           Len(frames) <= Len(frames'), \A j \in 1 .. Len(frames) : frames'[j] = frames[j]
    PROVE  /\ \A j \in 1 .. Len(frames) :
                /\ FrameOnWire(j)'
                /\ BodyAt(j)' = BodyAt(j) /\ FrameEnd(j)' = FrameEnd(j)
           /\ \A i, j \in 1 .. Len(frames) : i < j => FrameEnd(i)' <= frames'[j].at
<1>1. \A j \in 1 .. Len(frames) : FrameOnWire(j)
  BY DEF FramesApart, FrameOnWire
<1>2. ASSUME NEW j \in 1 .. Len(frames)
      PROVE  /\ FrameOnWire(j)'
             /\ BodyAt(j)' = BodyAt(j) /\ FrameEnd(j)' = FrameEnd(j)
  BY <1>1, FrameStays
<1>3. \A i, j \in 1 .. Len(frames) : i < j => FrameEnd(i) <= frames[j].at
  BY DEF FramesApart
<1> QED BY <1>2, <1>3

\* A length that stood in the header of a frame still does.
LEMMA LengthsStay ==
    ASSUME TypeOK, LengthsInHeaders, Extends(wire, wire'),
           Len(frames) <= Len(frames'), Len(frames') \in Nat,
           \A j \in 1 .. Len(frames) : frames'[j] = frames[j],
           NEW p \in 1 .. Len(wire), wire'[p].field = "Content-Length"
    PROVE  \E j \in 1 .. Len(frames') :
               /\ p \in frames'[j].at .. BodyAt(j)' - 3
               /\ wire'[p].value = Len(frames'[j].body)
<1>1. wire'[p] = wire[p]
  BY DEF Extends
<1>2. PICK j \in 1 .. Len(frames) :
        /\ p \in frames[j].at .. BodyAt(j) - 3
        /\ wire[p].value = Len(frames[j].body)
  BY <1>1 DEF LengthsInHeaders
<1>3. j \in 1 .. Len(frames') /\ frames'[j] = frames[j] /\ BodyAt(j)' = BodyAt(j)
  <2>1. Len(frames) \in Nat
    BY LenProperties DEF TypeOK
  <2> QED BY <2>1 DEF BodyAt
<1> QED BY <1>1, <1>2, <1>3

\* Where the delivered messages come from, when the decoder does not move.
LEMMA PlaceStays ==
    ASSUME TypeOK, NEW f \in [1 .. Len(delivered) -> 1 .. Len(frames)],
           InOrderFrom(f), StandsBehind(f),
           UNCHANGED <<delivered, contentLength>>, consumed' = consumed,
           Len(frames) <= Len(frames'), Len(frames') \in Nat,
           \A j \in 1 .. Len(frames) : frames'[j] = frames[j]
    PROVE  \E g \in [1 .. Len(delivered') -> 1 .. Len(frames')] :
               InOrderFrom(g)' /\ StandsBehind(g)'
<1>1. Len(frames) \in Nat /\ Len(delivered) \in Nat
  BY LenProperties DEF TypeOK
<1>2. 1 .. Len(frames) \subseteq 1 .. Len(frames')
  BY <1>1
<1>3. f \in [1 .. Len(delivered') -> 1 .. Len(frames')]
  BY <1>2
<1>4. \A j \in 1 .. Len(frames) : BodyAt(j)' = BodyAt(j) /\ FrameEnd(j)' = FrameEnd(j)
  BY DEF BodyAt, FrameEnd
<1>5. \A i \in DOMAIN f : f[i] \in 1 .. Len(frames)
  OBVIOUS
<1>6. InOrderFrom(f)'
  <2>1. \A i \in DOMAIN f : delivered'[i] = frames'[f[i]].body
    BY <1>5 DEF InOrderFrom
  <2> QED BY <2>1 DEF InOrderFrom
<1>7. StandsBehind(f)'
  <2>1. \A i \in DOMAIN f : FrameEnd(f[i])' <= consumed' + 1
    <3>1. \A i \in DOMAIN f : FrameEnd(f[i])' = FrameEnd(f[i])
      BY <1>4, <1>5
    <3> QED BY <3>1 DEF StandsBehind
  <2>2. ASSUME contentLength' # -1
        PROVE  \E k \in 1 .. Len(frames') :
                 /\ consumed' + 1 = BodyAt(k)' /\ contentLength' = Len(frames'[k].body)
                 /\ \A i \in DOMAIN f : f[i] < k
    <3>1. PICK k \in 1 .. Len(frames) :
             /\ consumed + 1 = BodyAt(k) /\ contentLength = Len(frames[k].body)
             /\ \A i \in DOMAIN f : f[i] < k
      BY <2>2 DEF StandsBehind
    <3>2. k \in 1 .. Len(frames') /\ BodyAt(k)' = BodyAt(k) /\ frames'[k] = frames[k]
      BY <1>2, <1>4
    <3> QED BY <3>1, <3>2
  <2> QED BY <2>1, <2>2 DEF StandsBehind
<1> QED BY <1>3, <1>6, <1>7

LEMMA WriteNoisy ==
    ASSUME BodiesAreNoHeaders, NoisyIInv,
           NEW body \in Bodies, NEW style \in Styles, Write(body, style)
    PROVE  NoisyIInv'
<1> DEFINE head == Header(body, style)
           new  == [at |-> Len(wire) + 1, head |-> Len(head), body |-> body]
           w == Len(wire)
           h == Len(head)
           b == Len(body)
<1>0. TypeOK /\ BufferIsWindow /\ FramesApart /\ LengthsInHeaders
  BY DEF NoisyIInv
<1>m. PICK m : m = Len(frames)
  OBVIOUS
<1>1. /\ Len(wire') = w + h + b
      /\ \A i \in 1 .. w : wire'[i] = wire[i]
      /\ \A i \in 1 .. h : wire'[w + i] = head[i]
      /\ \A i \in 1 .. b : wire'[w + h + i] = body[i]
  BY <1>0, WriteFacts
<1>2. /\ Len(frames') = m + 1
      /\ \A j \in 1 .. m : frames'[j] = frames[j]
      /\ frames'[m + 1] = new
  BY <1>0, <1>m, WriteFacts
<1>3. /\ UNCHANGED <<got, rawData, contentLength, delivered>>
      /\ TypeOK' /\ BufferIsWindow'
  BY <1>0, WriteFacts
<1>4. /\ h >= 3 /\ head[h - 1] = Crlf /\ head[h] = Crlf
      /\ \A i \in 1 .. h - 2 : head[i] = Crlf => head[i + 1] # Crlf
      /\ \A i \in 1 .. h : head[i].field = "Content-Length" =>
           i <= h - 2 /\ head[i].value = b
  BY HeaderShape
<1>5. w \in Nat /\ h \in Nat /\ b \in Nat /\ m \in Nat
  <2>1. h \in Nat
    BY HeaderShape
  <2> QED BY <2>1, <1>0, <1>m, BodyType, LenProperties DEF TypeOK
<1>6. new.at = w + 1 /\ new.head = h /\ new.body = body
  OBVIOUS
<1> HIDE DEF head, new, w, h, b
<1>7. Extends(wire, wire')
  BY <1>1, <1>5 DEF Extends, w
<1>8. /\ m <= Len(frames') /\ Len(frames') \in Nat
      /\ \A j \in 1 .. m : frames'[j] = frames[j]
  BY <1>2, <1>5
<1>9. /\ BodyAt(m + 1)' = w + 1 + h /\ FrameEnd(m + 1)' = w + 1 + h + b
      /\ Len(new.body) = b
  <2>1. BodyAt(m + 1)' = new.at + new.head
    BY <1>2 DEF BodyAt
  <2>2. Len(new.body) = b
    BY <1>6 DEF b
  <2>3. FrameEnd(m + 1)' = new.at + new.head + Len(new.body)
    BY <1>2 DEF BodyAt, FrameEnd
  <2> QED BY <2>1, <2>2, <2>3, <1>6
<1>10. FrameOnWire(m + 1)'
  <2>1. TwoCrlfAt(wire', w + h - 1)
    <3>1. w + h - 1 = w + (h - 1) /\ (w + h - 1) + 1 = w + h
          /\ h - 1 \in 1 .. h /\ h \in 1 .. h
          /\ w + h - 1 \in 1 .. (w + h + b) - 1
      BY <1>4, <1>5
    <3>2. wire'[w + (h - 1)] = Crlf /\ wire'[w + h] = Crlf
      BY <3>1, <1>1, <1>4
    <3> QED BY <3>1, <3>2, <1>1 DEF TwoCrlfAt
  <2>2. ASSUME NEW p \in w + 1 .. w + h - 2 PROVE ~TwoCrlfAt(wire', p)
    <3>1. /\ p - w \in 1 .. h - 2 /\ p - w \in 1 .. h /\ (p - w) + 1 \in 1 .. h
          /\ w + (p - w) = p /\ w + ((p - w) + 1) = p + 1
      BY <1>4, <1>5
    <3>2. wire'[w + (p - w)] = head[p - w] /\ wire'[w + ((p - w) + 1)] = head[(p - w) + 1]
      BY <3>1, <1>1
    <3>3. wire'[p] = head[p - w] /\ wire'[p + 1] = head[(p - w) + 1]
      BY <3>1, <3>2
    <3> QED BY <3>1, <3>3, <1>4 DEF TwoCrlfAt
  <2>3. ASSUME NEW i \in 1 .. b PROVE wire'[(w + 1 + h) + i - 1] = body[i]
    <3>1. (w + 1 + h) + i - 1 = w + h + i
      BY <1>5
    <3> QED BY <3>1, <1>1
  <2>4. (w + 1 + h) - 2 = w + h - 1 /\ (w + 1 + h) - 3 = w + h - 2
        /\ w + 1 >= 1 /\ w + 1 + h + b <= (w + h + b) + 1
    BY <1>5
  <2> DEFINE fr == frames'[m + 1]
             bat == BodyAt(m + 1)'
             fe == FrameEnd(m + 1)'
  <2>5. fr.at = w + 1 /\ fr.head = h /\ fr.body = body /\ Len(fr.body) = b
        /\ bat = w + 1 + h /\ fe = w + 1 + h + b
    BY <1>2, <1>6, <1>9
  <2>6. /\ fr.at >= 1 /\ fr.head >= 3 /\ fe <= Len(wire') + 1
        /\ TwoCrlfAt(wire', bat - 2)
        /\ \A p \in fr.at .. bat - 3 : ~TwoCrlfAt(wire', p)
        /\ \A i \in 1 .. Len(fr.body) : wire'[bat + i - 1] = fr.body[i]
    <3> HIDE DEF fr, bat, fe
    <3>1. bat - 2 = w + h - 1 /\ bat - 3 = w + h - 2
      BY <2>4, <2>5
    <3> QED BY <3>1, <2>1, <2>2, <2>3, <2>4, <2>5, <1>1, <1>4
  <2> QED BY <2>6 DEF FrameOnWire, TwoCrlfAt, Crlf
<1>11. /\ \A j \in 1 .. m : FrameOnWire(j)' /\ FrameEnd(j)' = FrameEnd(j)
       /\ \A i, j \in 1 .. m : i < j => FrameEnd(i)' <= frames'[j].at
  BY <1>0, <1>3, <1>7, <1>8, <1>m, WireGrows
<1>12. FramesApart'
  <2>1. \A j \in 1 .. Len(frames') : j \in 1 .. m \/ j = m + 1
    BY <1>2, <1>5
  <2>2. \A j \in 1 .. Len(frames') : FrameOnWire(j)'
    BY <2>1, <1>10, <1>11
  <2>3. ASSUME NEW i \in 1 .. Len(frames'), NEW j \in 1 .. Len(frames'), i < j
        PROVE  FrameEnd(i)' <= frames'[j].at
    <3>1. i \in 1 .. m
      BY <2>3, <1>2, <1>5
    <3>2. CASE j \in 1 .. m
      BY <3>1, <3>2, <2>3, <1>11
    <3>3. CASE j = m + 1
      <4>1. FrameEnd(i) <= w + 1
        BY <3>1, <1>0, <1>m DEF FramesApart, w
      <4>2. frames'[j].at = w + 1
        BY <3>3, <1>2, <1>6
      <4> QED BY <3>1, <4>1, <4>2, <1>11
    <3> QED BY <2>1, <3>2, <3>3
  <2> QED BY <2>2, <2>3 DEF FramesApart, FrameOnWire
<1>13. LengthsInHeaders'
  <2> SUFFICES ASSUME NEW p \in 1 .. Len(wire'), wire'[p].field = "Content-Length"
               PROVE  \E j \in 1 .. Len(frames') :
                        /\ p \in frames'[j].at .. BodyAt(j)' - 3
                        /\ wire'[p].value = Len(frames'[j].body)
    BY DEF LengthsInHeaders
  <2>1. CASE p \in 1 .. w
    BY <2>1, <1>0, <1>7, <1>8, <1>m, LengthsStay DEF w
  <2>2. CASE p \in w + 1 .. w + h
    <3>1. p - w \in 1 .. h /\ w + (p - w) = p
      BY <2>2, <1>5
    <3>2. wire'[p] = head[p - w]
      <4>1. wire'[w + (p - w)] = head[p - w]
        BY <3>1, <1>1
      <4> QED BY <3>1, <4>1
    <3>3. p - w <= h - 2 /\ wire'[p].value = b
      BY <3>1, <3>2, <1>4
    <3>4. /\ m + 1 \in 1 .. Len(frames')
          /\ p \in w + 1 .. (w + 1 + h) - 3
      BY <2>2, <3>3, <1>2, <1>5
    <3>5. /\ frames'[m + 1].at = w + 1 /\ BodyAt(m + 1)' = w + 1 + h
          /\ Len(frames'[m + 1].body) = b
      BY <1>2, <1>6, <1>9
    <3> QED BY <3>3, <3>4, <3>5
  <2>3. CASE p \in w + h + 1 .. w + h + b
    <3>1. p - (w + h) \in 1 .. b /\ w + h + (p - (w + h)) = p
      BY <2>3, <1>5
    <3>2. wire'[p] = body[p - (w + h)]
      <4>1. wire'[w + h + (p - (w + h))] = body[p - (w + h)]
        BY <3>1, <1>1
      <4> QED BY <3>1, <4>1
    <3>3. p - (w + h) \in DOMAIN body
      BY <3>1, BodyType, LenProperties DEF b
    <3> QED BY <3>2, <3>3 DEF BodiesAreNoHeaders
  <2>4. p \in 1 .. w \/ p \in w + 1 .. w + h \/ p \in w + h + 1 .. w + h + b
    BY <1>1, <1>5
  <2> QED BY <2>1, <2>2, <2>3, <2>4
<1>14. PICK f \in [1 .. Len(delivered) -> 1 .. Len(frames)] : InOrderFrom(f) /\ StandsBehind(f)
  BY DEF NoisyIInv
<1>15. consumed' = consumed
  BY <1>3 DEF consumed
<1>16. \E g \in [1 .. Len(delivered') -> 1 .. Len(frames')] :
         InOrderFrom(g)' /\ StandsBehind(g)'
  BY <1>0, <1>3, <1>8, <1>14, <1>15, <1>m, PlaceStays
<1> QED BY <1>3, <1>12, <1>13, <1>16 DEF NoisyIInv, InOrderFrom, StandsBehind

\* Foreign text is no length field and belongs to no frame.
LEMMA StrayNoisy ==
    ASSUME NoisyIInv, StrayText
    PROVE  NoisyIInv'
<1>0. TypeOK /\ BufferIsWindow /\ FramesApart /\ LengthsInHeaders
  BY DEF NoisyIInv
<1>1. /\ stray' = stray + 1 /\ wire' = Append(wire, Text)
      /\ UNCHANGED <<frames, got, rawData, contentLength, loop, escaped, faults, taken, delivered>>
  BY DEF StrayText, decoder
<1>2. /\ wire \in Seq(Unit) /\ Len(wire) \in Nat /\ Len(frames) \in Nat
      /\ rawData \in Seq(Unit) /\ Len(rawData) \in Nat /\ got \in 0 .. Len(wire)
  BY <1>0, LenProperties DEF TypeOK
<1>3. /\ wire' \in Seq(Unit) /\ Len(wire') = Len(wire) + 1
      /\ \A i \in 1 .. Len(wire) : wire'[i] = wire[i]
      /\ wire'[Len(wire) + 1] = Text
  BY <1>1, <1>2, UnitTypes, AppendProperties
<1>4. TypeOK'
  BY <1>0, <1>1, <1>2, <1>3 DEF TypeOK
<1>5. BufferIsWindow'
  BY <1>0, <1>1, <1>2, <1>3 DEF BufferIsWindow, consumed
<1>6. Extends(wire, wire')
  BY <1>2, <1>3 DEF Extends
<1>7. /\ Len(frames) <= Len(frames') /\ Len(frames') \in Nat
      /\ \A j \in 1 .. Len(frames) : frames'[j] = frames[j]
  BY <1>1, <1>2
<1>8. FramesApart'
  <2>1. /\ \A j \in 1 .. Len(frames) : FrameOnWire(j)'
        /\ \A i, j \in 1 .. Len(frames) : i < j => FrameEnd(i)' <= frames'[j].at
    BY <1>0, <1>4, <1>6, <1>7, WireGrows
  <2> QED BY <2>1, <1>1 DEF FramesApart, FrameOnWire
<1>9. LengthsInHeaders'
  <2> SUFFICES ASSUME NEW p \in 1 .. Len(wire'), wire'[p].field = "Content-Length"
               PROVE  \E j \in 1 .. Len(frames') :
                        /\ p \in frames'[j].at .. BodyAt(j)' - 3
                        /\ wire'[p].value = Len(frames'[j].body)
    BY DEF LengthsInHeaders
  <2>1. p # Len(wire) + 1
    BY <1>3 DEF Text
  <2>2. p \in 1 .. Len(wire)
    BY <2>1, <1>2, <1>3
  <2> QED BY <2>2, <1>0, <1>6, <1>7, LengthsStay
<1>10. PICK f \in [1 .. Len(delivered) -> 1 .. Len(frames)] : InOrderFrom(f) /\ StandsBehind(f)
  BY DEF NoisyIInv
<1>11. consumed' = consumed
  BY <1>1 DEF consumed
<1>12. \E g \in [1 .. Len(delivered') -> 1 .. Len(frames')] :
         InOrderFrom(g)' /\ StandsBehind(g)'
  BY <1>0, <1>1, <1>7, <1>10, <1>11, PlaceStays
<1> QED BY <1>4, <1>5, <1>8, <1>9, <1>12 DEF NoisyIInv, InOrderFrom, StandsBehind

\* Steps that change neither the wire nor the frames.
LEMMA WireStays ==
    ASSUME FramesApart, LengthsInHeaders, UNCHANGED <<wire, frames>>
    PROVE  FramesApart' /\ LengthsInHeaders'
  BY DEF FramesApart, LengthsInHeaders, TwoCrlfAt, Crlf, FrameEnd, BodyAt

\* Steps that do not move the decoder either.
LEMMA DecoderStays ==
    ASSUME NoisyIInv, TypeOK', BufferIsWindow', consumed' = consumed,
           UNCHANGED <<wire, frames, contentLength, delivered>>
    PROVE  NoisyIInv'
<1>1. FramesApart' /\ LengthsInHeaders'
  BY WireStays DEF NoisyIInv
<1>2. PICK f \in [1 .. Len(delivered) -> 1 .. Len(frames)] : InOrderFrom(f) /\ StandsBehind(f)
  BY DEF NoisyIInv
<1>3. Len(frames) \in Nat /\ TypeOK
  BY LenProperties DEF NoisyIInv, TypeOK
<1>4. \E g \in [1 .. Len(delivered') -> 1 .. Len(frames')] :
         InOrderFrom(g)' /\ StandsBehind(g)'
  BY <1>2, <1>3, PlaceStays
<1> QED BY <1>1, <1>4 DEF NoisyIInv, InOrderFrom, StandsBehind

\* Taking the body of frame k adds this frame to those handed over.
LEMMA TakeBodyNoisy ==
    ASSUME NoisyIInv, NEW throws \in BOOLEAN, TakeBody(throws)
    PROVE  NoisyIInv'
<1>0. TypeOK /\ BufferIsWindow /\ FramesApart /\ LengthsInHeaders
  BY DEF NoisyIInv
<1>1. /\ TypeOK' /\ BufferIsWindow' /\ consumed' = consumed + contentLength
      /\ contentLength \in Nat /\ contentLength' = -1
      /\ UNCHANGED <<wire, frames>>
  BY <1>0, TakeBodyFacts
<1>2. FramesApart' /\ LengthsInHeaders'
  BY <1>0, <1>1, WireStays
<1>3. PICK f \in [1 .. Len(delivered) -> 1 .. Len(frames)] : InOrderFrom(f) /\ StandsBehind(f)
  BY DEF NoisyIInv
<1>4. PICK k \in 1 .. Len(frames) :
        /\ consumed + 1 = BodyAt(k) /\ contentLength = Len(frames[k].body)
        /\ \A i \in DOMAIN f : f[i] < k
  <2>1. contentLength # -1
    BY <1>1
  <2> QED BY <2>1, <1>3 DEF StandsBehind
<1>5. SubSeq(rawData, 1, contentLength) = frames[k].body
  <2>1. \A i \in 1 .. Len(frames[k].body) : wire[BodyAt(k) + i - 1] = frames[k].body[i]
    BY <1>0 DEF FramesApart
  <2>2. BodyComplete
    BY DEF TakeBody
  <2> QED BY <2>1, <2>2, <1>0, <1>4, CutBody
<1>6. consumed \in Int
  BY <1>0, LenProperties DEF TypeOK, consumed
<1>7. FrameEnd(k) = consumed' + 1
  <2>1. FrameEnd(k) = BodyAt(k) + contentLength
    BY <1>4 DEF FrameEnd
  <2>2. (consumed + 1) + contentLength = (consumed + contentLength) + 1
    BY <1>1, <1>6
  <2> QED BY <2>1, <2>2, <1>1, <1>4
<1>8. \A j \in 1 .. Len(frames) : FrameEnd(j)' = FrameEnd(j) /\ FrameEnd(j) \in Int
  BY <1>0, <1>1, FrameFacts DEF FrameEnd, BodyAt
<1>9. \A i \in 1 .. Len(delivered) : f[i] \in 1 .. Len(frames) /\ FrameEnd(f[i]) <= consumed + 1
  BY <1>3 DEF StandsBehind
<1>10. ASSUME NEW i \in 1 .. Len(delivered) PROVE FrameEnd(f[i])' <= consumed' + 1
  <2>1. FrameEnd(f[i])' = FrameEnd(f[i]) /\ FrameEnd(f[i]) \in Int
    BY <1>8, <1>9
  <2>2. consumed' + 1 = (consumed + 1) + contentLength
    BY <1>1, <1>6
  <2> QED BY <2>1, <2>2, <1>1, <1>6, <1>9
<1>11. \E g \in [1 .. Len(delivered') -> 1 .. Len(frames')] :
         InOrderFrom(g)' /\ StandsBehind(g)'
  <2>1. CASE Len(frames[k].body) > 0
    <3>1. PICK n : n = Len(delivered)
      OBVIOUS
    <3>2. n \in Nat
      BY <3>1, <1>0, LenProperties DEF TypeOK
    <3>3. delivered' = Append(delivered, frames[k].body)
      BY <2>1, <1>5 DEF TakeBody, HandOver
    <3>4. /\ Len(delivered') = n + 1
          /\ \A i \in 1 .. n : delivered'[i] = delivered[i]
          /\ delivered'[n + 1] = frames[k].body
      <4>1. delivered \in Seq(Seq(Unit)) /\ frames[k].body \in Seq(Unit)
        BY <1>0, FrameFacts DEF TypeOK
      <4> QED BY <4>1, <3>1, <3>3, AppendProperties
    <3>5. PICK g : g = [i \in 1 .. n + 1 |-> IF i = n + 1 THEN k ELSE f[i]]
      OBVIOUS
    <3>6. /\ DOMAIN g = 1 .. n + 1 /\ g[n + 1] = k
          /\ \A i \in 1 .. n : g[i] = f[i] /\ f[i] \in 1 .. Len(frames)
          /\ \A i \in 1 .. n + 1 : i \in 1 .. n \/ i = n + 1
      BY <1>9, <3>1, <3>2, <3>5
    <3>7. g \in [1 .. Len(delivered') -> 1 .. Len(frames')]
      <4>1. \A i \in 1 .. n + 1 : g[i] \in 1 .. Len(frames)
        BY <3>6
      <4> QED BY <4>1, <3>4, <3>5, <1>1
    <3>8. InOrderFrom(g)'
      <4>1. ASSUME NEW i \in DOMAIN g, NEW j \in DOMAIN g, i < j PROVE g[i] < g[j]
        <5>1. i \in 1 .. n
          BY <4>1, <3>2, <3>6
        <5>2. f[i] < k
          BY <5>1, <3>1, <1>4
        <5>3. j \in 1 .. n => f[i] < f[j]
          BY <5>1, <4>1, <3>1, <1>3 DEF InOrderFrom
        <5> QED BY <5>1, <5>2, <5>3, <3>6
      <4>2. ASSUME NEW i \in DOMAIN g PROVE delivered'[i] = frames'[g[i]].body
        <5>1. CASE i \in 1 .. n
          <6>1. delivered[i] = frames[f[i]].body
            BY <5>1, <3>1, <1>3 DEF InOrderFrom
          <6> QED BY <6>1, <5>1, <3>4, <3>6, <1>1
        <5>2. CASE i = n + 1
          BY <5>2, <3>4, <3>6, <1>1
        <5> QED BY <5>1, <5>2, <3>6
      <4> QED BY <4>1, <4>2 DEF InOrderFrom
    <3>9. StandsBehind(g)'
      <4>1. ASSUME NEW i \in DOMAIN g PROVE FrameEnd(g[i])' <= consumed' + 1
        <5>1. CASE i \in 1 .. n
          <6>1. g[i] = f[i]
            BY <5>1, <3>6
          <6>2. FrameEnd(f[i])' <= consumed' + 1
            BY <5>1, <3>1, <1>10
          <6> QED BY <6>1, <6>2
        <5>2. CASE i = n + 1
          <6>1. consumed' \in Int
            BY <1>1, <1>6
          <6> QED BY <6>1, <5>2, <3>6, <1>7, <1>8
        <5> QED BY <5>1, <5>2, <3>6
      <4> QED BY <4>1, <1>1 DEF StandsBehind
    <3> QED BY <3>7, <3>8, <3>9
  <2>2. CASE ~(Len(frames[k].body) > 0)
    <3>1. delivered' = delivered
      BY <2>2, <1>5 DEF TakeBody, HandOver
    <3>2. f \in [1 .. Len(delivered') -> 1 .. Len(frames')]
      BY <3>1, <1>1
    <3>3. InOrderFrom(f)'
      BY <3>1, <1>1, <1>3 DEF InOrderFrom
    <3>4. StandsBehind(f)'
      BY <1>1, <1>10 DEF StandsBehind
    <3> QED BY <3>2, <3>3, <3>4
  <2> QED BY <2>1, <2>2
<1> QED BY <1>1, <1>2, <1>11 DEF NoisyIInv, InOrderFrom, StandsBehind

\* The header whose end the decoder finds holds a length only if it is the header of
\* a frame, and then it is the end of this one.
LEMMA LengthFound ==
    ASSUME TypeOK, BufferIsWindow, FramesApart, LengthsInHeaders,
           NEW idx \in 1 .. Len(rawData), TwoCrlfAt(rawData, idx),
           \A j \in 1 .. idx - 1 : ~TwoCrlfAt(rawData, j),
           NEW i \in 1 .. idx - 1, LengthField(rawData, i, idx)
    PROVE  \E k \in 1 .. Len(frames) :
               /\ rawData[i].value = Len(frames[k].body)
               /\ consumed + (idx + 1) + 1 = BodyAt(k)
               /\ consumed + 1 < BodyAt(k)
               /\ \A j \in 1 .. Len(frames) : FrameEnd(j) <= consumed + 1 => j < k
<1>1. /\ Len(rawData) \in Nat /\ Len(wire) \in Nat /\ got \in Nat /\ got <= Len(wire)
      /\ Len(frames) \in Nat
  BY LenProperties DEF TypeOK
<1>2. consumed \in Nat /\ consumed + Len(rawData) = got
  BY <1>1 DEF consumed, BufferIsWindow
<1>3. PICK c : c = consumed
  OBVIOUS
<1>4. PICK n : n = Len(rawData)
  OBVIOUS
<1>w. PICK w : w = Len(wire)
  OBVIOUS
<1>5. c \in Nat /\ n \in Nat /\ w \in Nat /\ c + n <= w /\ idx \in 1 .. n
      /\ i \in 1 .. idx - 1
  BY <1>1, <1>2, <1>3, <1>4, <1>w
<1>6. \A j \in 1 .. n : rawData[j] = wire[c + j]
  BY <1>3, <1>4 DEF BufferIsWindow
<1>7. idx + 1 <= n /\ rawData[idx] = Crlf /\ rawData[idx + 1] = Crlf
  BY <1>1, <1>4 DEF TwoCrlfAt
<1>8. rawData[i].field = "Content-Length" /\ i \in 1 .. n /\ c + i \in 1 .. Len(wire)
      /\ rawData[i] = wire[c + i]
  <2>1. i \in 1 .. n
    BY <1>5, <1>7
  <2>2. c + i \in 1 .. Len(wire)
    <3>1. c + i \in 1 .. w
      BY ONLY <2>1, <1>5
    <3> QED BY <3>1, <1>w
  <2> QED BY <2>1, <2>2, <1>6 DEF LengthField
<1>9. PICK k \in 1 .. Len(frames) :
        /\ c + i \in frames[k].at .. BodyAt(k) - 3
        /\ wire[c + i].value = Len(frames[k].body)
  BY <1>8 DEF LengthsInHeaders
<1>10. PICK q : q = BodyAt(k) - 2
  OBVIOUS
<1>11. /\ frames[k].at \in Nat /\ BodyAt(k) \in Nat /\ Len(frames[k].body) \in Nat
       /\ BodyAt(k) <= FrameEnd(k) /\ FrameEnd(k) <= Len(wire) + 1
  <2>1. FrameEnd(k) <= Len(wire) + 1
    BY DEF FramesApart
  <2>2. /\ frames[k].at \in Nat /\ BodyAt(k) \in Nat /\ Len(frames[k].body) \in Nat
    BY FrameFacts
  <2>3. FrameEnd(k) = BodyAt(k) + Len(frames[k].body)
    BY DEF FrameEnd
  <2> QED BY <2>1, <2>2, <2>3
<1>12. q \in Int /\ c + i < q /\ frames[k].at <= c + i /\ BodyAt(k) = q + 2
  BY ONLY <1>5, <1>9, <1>10, <1>11
<1>13. /\ wire[q] = Crlf /\ wire[q + 1] = Crlf
       /\ \A p \in frames[k].at .. q - 1 : ~TwoCrlfAt(wire, p)
  <2>1. BodyAt(k) - 3 = q - 1
    BY <1>10, <1>11
  <2>2. TwoCrlfAt(wire, q)
    BY <1>10 DEF FramesApart
  <2> QED BY <2>1, <2>2 DEF FramesApart, TwoCrlfAt
<1>14. ~(c + idx < q)
  <2> SUFFICES ASSUME c + idx < q PROVE FALSE
    OBVIOUS
  <2>1. PICK at : at = frames[k].at
    OBVIOUS
  <2>2. at \in Nat /\ at <= c + i
    BY <2>1, <1>11, <1>12
  <2>3. c + idx \in at .. q - 1 /\ c + idx \in 1 .. w - 1
        /\ idx \in 1 .. n /\ idx + 1 \in 1 .. n /\ c + (idx + 1) = (c + idx) + 1
    BY ONLY <2>2, <1>5, <1>7, <1>12, c + idx < q
  <2>4. wire[c + idx] = Crlf /\ wire[c + (idx + 1)] = Crlf
    BY <2>3, <1>6, <1>7
  <2>5. TwoCrlfAt(wire, c + idx)
    BY <2>3, <2>4, <1>w DEF TwoCrlfAt
  <2> QED BY <2>1, <2>3, <2>5, <1>13
<1>15. ~(c + idx > q)
  <2> SUFFICES ASSUME c + idx > q PROVE FALSE
    OBVIOUS
  <2>1. /\ q - c \in 1 .. idx - 1 /\ q - c \in 1 .. n - 1
        /\ q - c \in 1 .. n /\ (q - c) + 1 \in 1 .. n
        /\ c + (q - c) = q /\ c + ((q - c) + 1) = q + 1
    <3>1. idx + 1 <= n /\ q \in Int /\ c + i < q
      BY <1>7, <1>12
    <3>2. PICK x : x = q - c
      OBVIOUS
    <3>3. x \in Int /\ c + x = q /\ i < x /\ x < idx
      BY ONLY <3>1, <3>2, <1>5, c + idx > q
    <3>4. /\ x \in 1 .. idx - 1 /\ x \in 1 .. n - 1
          /\ x \in 1 .. n /\ x + 1 \in 1 .. n /\ c + (x + 1) = q + 1
      BY ONLY <3>1, <3>3, <1>5
    <3> QED BY <3>2, <3>3, <3>4
  <2>2. rawData[q - c] = wire[c + (q - c)] /\ rawData[(q - c) + 1] = wire[c + ((q - c) + 1)]
    BY <2>1, <1>6
  <2>3. rawData[q - c] = Crlf /\ rawData[(q - c) + 1] = Crlf
    BY <2>1, <2>2, <1>13
  <2>4. TwoCrlfAt(rawData, q - c)
    BY <2>1, <2>3, <1>4 DEF TwoCrlfAt
  <2> QED BY <2>1, <2>4
<1>16. c + (idx + 1) + 1 = BodyAt(k) /\ c + 1 < BodyAt(k)
  BY ONLY <1>5, <1>12, <1>14, <1>15
<1>17. ASSUME NEW j \in 1 .. Len(frames), FrameEnd(j) <= c + 1
       PROVE  j < k
  <2>1. PICK e : e = FrameEnd(j)
    OBVIOUS
  <2>2. PICK at : at = frames[j].at
    OBVIOUS
  <2>3. PICK d : d = FrameEnd(k)
    OBVIOUS
  <2>4. PICK b : b = BodyAt(k)
    OBVIOUS
  <2>5. e \in Nat /\ at \in Nat /\ at <= e /\ e <= c + 1
    <3>1. /\ frames[j].at \in Nat /\ frames[j].head \in Nat /\ Len(frames[j].body) \in Nat
          /\ FrameEnd(j) = frames[j].at + frames[j].head + Len(frames[j].body)
      BY FrameFacts
    <3>2. PICK h, l : h = frames[j].head /\ l = Len(frames[j].body)
      OBVIOUS
    <3>3. at \in Nat /\ h \in Nat /\ l \in Nat /\ e = at + h + l /\ e <= c + 1
      BY <3>1, <3>2, <2>1, <2>2, <1>17
    <3> QED BY ONLY <3>3
  <2>6. d \in Nat /\ b \in Nat /\ b <= d /\ c + 1 < b
    BY <2>3, <2>4, <1>11, <1>16, FrameFacts
  <2>7. j # k
    <3>1. e # d
      BY ONLY <2>5, <2>6, <1>5
    <3> QED BY <3>1, <2>1, <2>3
  <2>8. ~(k < j)
    <3> SUFFICES ASSUME k < j PROVE FALSE
      OBVIOUS
    <3>1. d <= at
      BY <2>2, <2>3 DEF FramesApart
    <3> QED BY ONLY <3>1, <2>5, <2>6, <1>5
  <2> QED BY <2>7, <2>8, <1>1
<1> QED BY <1>3, <1>8, <1>9, <1>16, <1>17

\* Cutting off a header, with a length or without one.
LEMMA ParseHeaderNoisy ==
    ASSUME NoisyIInv, ParseHeader
    PROVE  NoisyIInv'
<1>0. TypeOK /\ BufferIsWindow /\ FramesApart /\ LengthsInHeaders
  BY DEF NoisyIInv
<1>1. PICK idx \in 1 .. Len(rawData) :
        /\ TwoCrlfAt(rawData, idx)
        /\ \A j \in 1 .. idx - 1 : ~TwoCrlfAt(rawData, j)
        /\ \/ \E i \in 1 .. idx - 1 :
                /\ LengthField(rawData, i, idx)
                /\ \A j \in i + 1 .. idx - 1 : ~LengthField(rawData, j, idx)
                /\ contentLength' = rawData[i].value
           \/ /\ \A i \in 1 .. idx - 1 : ~LengthField(rawData, i, idx)
              /\ UNCHANGED contentLength
        /\ rawData' = SubSeq(rawData, idx + 2, Len(rawData))
  BY DEF ParseHeader
<1>2. UNCHANGED <<wire, frames, stray, got, loop, escaped, faults, taken, delivered>>
  BY DEF ParseHeader, sender
<1>3. Len(rawData) \in Nat /\ got \in Nat /\ consumed \in Int /\ Len(frames) \in Nat
  BY <1>0, LenProperties DEF TypeOK, consumed
<1>4. contentLength = -1
  <2>1. \A b \in Bodies : Len(b) \in Nat
    BY BodyType
  <2> QED BY <2>1, <1>0 DEF TypeOK, ParseHeader
<1>5. /\ rawData' \in Seq(Unit)
      /\ consumed' = consumed + (idx + 1)
      /\ BufferIsWindow'
  <2>1. idx + 1 \in 0 .. Len(rawData)
    BY <1>1, <1>3 DEF TwoCrlfAt
  <2>2. rawData' = SubSeq(rawData, (idx + 1) + 1, Len(rawData))
    <3>1. (idx + 1) + 1 = idx + 2
      OBVIOUS
    <3> QED BY <3>1, <1>1
  <2> QED BY <2>1, <2>2, <1>0, <1>2, SliceFacts
<1>6. \/ contentLength' = -1
      \/ \E k \in 1 .. Len(frames) :
           /\ contentLength' = Len(frames[k].body)
           /\ consumed' + 1 = BodyAt(k)
           /\ \A j \in 1 .. Len(frames) : FrameEnd(j) <= consumed + 1 => j < k
  <2>1. ASSUME NEW i \in 1 .. idx - 1, LengthField(rawData, i, idx),
               contentLength' = rawData[i].value
        PROVE  \E k \in 1 .. Len(frames) :
                 /\ contentLength' = Len(frames[k].body)
                 /\ consumed' + 1 = BodyAt(k)
                 /\ \A j \in 1 .. Len(frames) : FrameEnd(j) <= consumed + 1 => j < k
    <3>1. PICK k \in 1 .. Len(frames) :
               /\ rawData[i].value = Len(frames[k].body)
               /\ consumed + (idx + 1) + 1 = BodyAt(k)
               /\ \A j \in 1 .. Len(frames) : FrameEnd(j) <= consumed + 1 => j < k
      BY <2>1, <1>0, <1>1, LengthFound
    <3> QED BY <3>1, <2>1, <1>5
  <2> QED BY <2>1, <1>1, <1>4
<1>7. TypeOK'
  <2>1. contentLength' \in {-1} \cup {Len(b) : b \in Bodies}
    BY <1>0, <1>6, FrameFacts
  <2> QED BY <2>1, <1>0, <1>2, <1>5 DEF TypeOK
<1>8. FramesApart' /\ LengthsInHeaders'
  BY <1>0, <1>2, WireStays
<1>9. PICK f \in [1 .. Len(delivered) -> 1 .. Len(frames)] : InOrderFrom(f) /\ StandsBehind(f)
  BY DEF NoisyIInv
<1>10. /\ f \in [1 .. Len(delivered') -> 1 .. Len(frames')]
       /\ InOrderFrom(f)'
  BY <1>2, <1>9 DEF InOrderFrom
<1>11. StandsBehind(f)'
  <2>1. \A j \in 1 .. Len(frames) :
          /\ FrameEnd(j)' = FrameEnd(j) /\ FrameEnd(j) \in Int
          /\ BodyAt(j)' = BodyAt(j)
    BY <1>0, <1>2, FrameFacts DEF FrameEnd, BodyAt
  <2>2. \A i \in DOMAIN f : f[i] \in 1 .. Len(frames) /\ FrameEnd(f[i]) <= consumed + 1
    BY <1>9 DEF StandsBehind
  <2>3. ASSUME NEW i \in DOMAIN f PROVE FrameEnd(f[i])' <= consumed' + 1
    <3>1. FrameEnd(f[i])' = FrameEnd(f[i]) /\ FrameEnd(f[i]) \in Int
          /\ FrameEnd(f[i]) <= consumed + 1
      BY <2>1, <2>2
    <3> QED BY <3>1, <1>3, <1>5
  <2>4. ASSUME contentLength' # -1
        PROVE  \E k \in 1 .. Len(frames') :
                 /\ consumed' + 1 = BodyAt(k)' /\ contentLength' = Len(frames'[k].body)
                 /\ \A i \in DOMAIN f : f[i] < k
    <3>1. PICK k \in 1 .. Len(frames) :
             /\ contentLength' = Len(frames[k].body)
             /\ consumed' + 1 = BodyAt(k)
             /\ \A j \in 1 .. Len(frames) : FrameEnd(j) <= consumed + 1 => j < k
      BY <2>4, <1>6
    <3> QED BY <3>1, <2>1, <2>2, <1>2
  <2> QED BY <2>3, <2>4 DEF StandsBehind
<1> QED BY <1>5, <1>7, <1>8, <1>10, <1>11 DEF NoisyIInv, InOrderFrom, StandsBehind

LEMMA InitNoisy == Init => NoisyIInv
<1> SUFFICES ASSUME Init PROVE NoisyIInv
  OBVIOUS
<1>1. TypeOK /\ BufferIsWindow
  BY InitIInv DEF IInv
<1>2. wire = <<>> /\ frames = <<>> /\ delivered = <<>> /\ contentLength = -1
  BY DEF Init
<1>3. Len(wire) = 0 /\ Len(frames) = 0 /\ Len(delivered) = 0
  BY <1>2
<1>4. FramesApart /\ LengthsInHeaders
  BY <1>3 DEF FramesApart, LengthsInHeaders
<1>5. PICK f : f = [i \in 1 .. 0 |-> 1]
  OBVIOUS
<1>6. f \in [1 .. Len(delivered) -> 1 .. Len(frames)] /\ \A i \in DOMAIN f : FALSE
  BY <1>3, <1>5
<1>7. InOrderFrom(f) /\ StandsBehind(f)
  BY <1>2, <1>6 DEF InOrderFrom, StandsBehind
<1> QED BY <1>1, <1>4, <1>6, <1>7 DEF NoisyIInv

LEMMA NextNoisy ==
    ASSUME BodiesAreNoHeaders, NoisyIInv, [Next \/ StrayText]_vars
    PROVE  NoisyIInv'
<1>0. TypeOK /\ BufferIsWindow
  BY DEF NoisyIInv
<1>1. ASSUME NEW body \in Bodies, NEW style \in Styles, Write(body, style)
      PROVE  NoisyIInv'
  BY <1>1, WriteNoisy
<1>2. ASSUME Receive PROVE NoisyIInv'
  <2>1. Len(wire) - got \in Int
    BY <1>0, LenProperties DEF TypeOK
  <2>2. PICK n \in 1 .. (Len(wire) - got) : Data(n)
    BY <1>2 DEF Receive
  <2>3. n \in Nat
    BY <2>1, <2>2
  <2>4. /\ TypeOK' /\ BufferIsWindow' /\ consumed' = consumed
        /\ UNCHANGED <<wire, frames, stray, contentLength, taken, delivered>>
    BY <2>2, <2>3, <1>0, DataFacts
  <2> QED BY <2>4, DecoderStays
<1>3. ASSUME NEW throws \in BOOLEAN, TakeBody(throws) PROVE NoisyIInv'
  BY <1>3, TakeBodyNoisy
<1>4. CASE ParseHeader
  BY <1>4, ParseHeaderNoisy
<1>5. CASE Break \/ UNCHANGED vars
  <2>1. UNCHANGED <<wire, frames, stray, got, rawData, contentLength, escaped, faults,
                    taken, delivered>>
    BY <1>5 DEF Break, sender, vars, decoder
  <2>2. loop' \in BOOLEAN
    BY <1>0, <1>5 DEF Break, vars, decoder, TypeOK
  <2>3. TypeOK'
    BY <1>0, <2>1, <2>2 DEF TypeOK
  <2>4. BufferIsWindow' /\ consumed' = consumed
    BY <1>0, <2>1 DEF BufferIsWindow, consumed
  <2> QED BY <2>1, <2>3, <2>4, DecoderStays
<1>6. CASE StrayText
  BY <1>6, StrayNoisy
<1> QED BY <1>1, <1>2, <1>3, <1>4, <1>5, <1>6 DEF Next, Iterate

\* The inductive invariant of a stream with foreign text, wherever the text stands.
THEOREM NoisyInvariance ==
    ASSUME BodiesAreNoHeaders
    PROVE  NoisySpec => []NoisyIInv
<1>1. NoisyIInv /\ [Next \/ StrayText]_vars => NoisyIInv'
  BY NextNoisy
<1> QED BY <1>1, InitNoisy, PTL DEF NoisySpec

\* Whatever reaches the stream between the messages, each one that is handed over
\* was written, as it is and in this order (protocolClient.ts:103-135).
THEOREM NothingIsInvented ==
    ASSUME BodiesAreNoHeaders
    PROVE  NoisySpec => []NothingInvented
<1>1. NoisyIInv => NothingInvented
  BY DEF NoisyIInv, NothingInvented
<1> QED BY <1>1, NoisyInvariance, PTL
=============================================================================
