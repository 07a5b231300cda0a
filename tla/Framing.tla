------------------------------ MODULE Framing ------------------------------
(***************************************************************************)
(* The wire of the protocol: how a message becomes bytes and how the bytes *)
(* become messages again.  Both ends hold the same decoder:                *)
(* ProtocolServer._handleData (adapter/src/protocol.ts) and                *)
(* ProtocolClient.handleData (testSupport/src/protocolClient.ts).          *)
(*                                                                         *)
(* The stream is a sequence of units.  A header line is one unit, because  *)
(* the decoder looks at no part of one before it has found the end of the  *)
(* header; CR LF is one unit; a byte of a body is one unit, so that the    *)
(* Content-Length counts units.  The stream is handed to the decoder in    *)
(* chunks cut anywhere between two units.                                  *)
(*                                                                         *)
(* A call of the decoder is a loop.  `loop' is TRUE while it runs; every   *)
(* iteration is one step, and the next chunk waits for the loop to end     *)
(* because both classes run on one JavaScript thread.                      *)
(***************************************************************************)
EXTENDS Integers, Sequences, FiniteSets

CONSTANTS
    Bodies,     \* the bodies the sender may write
    MaxFrames,  \* bound on the number of frames written
    MaxFaults,  \* bound on the number of messages whose handler throws
    MaxStray,   \* bound on the stray pieces of text on the stream
    Catches     \* TRUE for the server, which catches what a handler throws
                \* (protocol.ts:220-226); FALSE for the client

VARIABLES
    wire,           \* every unit written to the stream
    frames,         \* history: the frames written, [at, head, body]
    stray,          \* how many stray units are on the stream
    got,            \* how many units of the wire have reached the decoder
    rawData,        \* the decoder's buffer
    contentLength,  \* the length announced, negative when no header is open
    loop,           \* the decoder's loop is running
    escaped,        \* an exception left the last call before its loop ended
    faults,         \* how many handlers have thrown
    taken,          \* history: how many bodies have been cut out of rawData
    delivered       \* history: the bodies handed to handleMessage / dispatch

sender  == <<wire, frames, stray>>
decoder == <<got, rawData, contentLength, loop, escaped, faults, taken, delivered>>
vars    == <<sender, decoder>>

-----------------------------------------------------------------------------
(* The units of the stream *)

Unit == [field : {"Content-Length", "other", "text", "crlf", "octet"}, value : Int]

LengthLine(n) == [field |-> "Content-Length", value |-> n]
OtherLine     == [field |-> "other", value |-> 0]
Text          == [field |-> "text", value |-> 0]
Crlf          == [field |-> "crlf", value |-> 0]
Octet(v)      == [field |-> "octet", value |-> v]
Continuation  == Octet(1)      \* a byte inside a UTF-8 character, not its first

ASSUME BodiesAssumption == Bodies \subseteq Seq(Unit)
ASSUME BoundsAssumption ==
    MaxFrames \in Nat /\ MaxFaults \in Nat /\ MaxStray \in Nat /\ Catches \in BOOLEAN

-----------------------------------------------------------------------------
(* The sender *)

CharLength(body) == Cardinality({i \in DOMAIN body : body[i] # Continuation})

\* Buffer.byteLength(json, 'utf8')
ByteLength(body) == Len(body)

\* This code base writes "plain" headers; a peer may add another header field.
Styles == {"plain", "before", "after"}

Header(body, style) ==
    LET line == LengthLine(ByteLength(body))
    IN  CASE style = "plain"  -> <<line, Crlf, Crlf>>
          [] style = "before" -> <<OtherLine, Crlf, line, Crlf, Crlf>>
          [] style = "after"  -> <<line, Crlf, OtherLine, Crlf, Crlf>>

\* One write of a header and a body: _send and doSend.
Write(body, style) ==
    LET head == Header(body, style)
    IN  /\ Len(frames) < MaxFrames
        /\ wire' = wire \o head \o body
        /\ frames' = Append(frames, [at   |-> Len(wire) + 1,
                                     head |-> Len(head),
                                     body |-> body])
        /\ UNCHANGED <<stray, decoder>>

\* Something that is not a message reaches the stream, for example a line an
\* adapter printed to its stdout, which is also its protocol channel.
StrayText ==
    /\ stray < MaxStray
    /\ stray' = stray + 1
    /\ wire' = Append(wire, Text)
    /\ UNCHANGED <<frames, decoder>>

-----------------------------------------------------------------------------
(* The decoder *)

\* A 'data' event: any non-empty chunk of what is still on its way.
Data(n) ==
    /\ ~loop
    /\ n \in 1 .. (Len(wire) - got)
    /\ got' = got + n
    /\ rawData' = rawData \o SubSeq(wire, got + 1, got + n)
    /\ loop' = TRUE
    /\ escaped' = FALSE
    /\ UNCHANGED <<sender, contentLength, faults, taken, delivered>>

BodyComplete == contentLength >= 0 /\ Len(rawData) >= contentLength

LoopEndsMutant(throws) == loop' = FALSE /\ escaped' = FALSE

\* After a body the loop goes on, unless the handler's exception leaves it.
AfterBody(throws) ==
    /\ loop' = (Catches \/ ~throws)
    /\ escaped' = (throws /\ ~Catches)

HandOverMutant(body) == delivered' = Append(delivered, body)

\* An empty body is dropped without a call.
HandOver(body) ==
    delivered' = IF Len(body) > 0 THEN Append(delivered, body) ELSE delivered

\* The handler of a non-empty message may throw: JSON.parse on a malformed body,
\* or the code it calls.
TakeBody(throws) ==
    LET body == SubSeq(rawData, 1, contentLength)
    IN  /\ loop
        /\ BodyComplete
        /\ throws => Len(body) > 0 /\ faults < MaxFaults
        /\ rawData' = SubSeq(rawData, contentLength + 1, Len(rawData))
        /\ contentLength' = -1
        /\ HandOver(body)
        /\ taken' = taken + 1
        /\ AfterBody(throws)
        /\ faults' = IF throws THEN faults + 1 ELSE faults
        /\ UNCHANGED <<sender, got>>

AnyLineEnd(s, i) == i \in 1 .. Len(s) - 1 /\ s[i] = Crlf

\* TWO_CRLF is found at i.
TwoCrlfAt(s, i) == i \in 1 .. Len(s) - 1 /\ s[i] = Crlf /\ s[i + 1] = Crlf

\* The header ends at idx and unit i of it starts a line that is a length field.
LengthField(s, i, idx) ==
    /\ i \in 1 .. idx - 1
    /\ s[i].field = "Content-Length"
    /\ i > 1 => s[i - 1] = Crlf

\* The last length field of the header wins; without one contentLength stays.
ParseHeader ==
    /\ loop
    /\ ~(contentLength >= 0)
    /\ \E idx \in 1 .. Len(rawData) :
         /\ TwoCrlfAt(rawData, idx)
         /\ \A j \in 1 .. idx - 1 : ~TwoCrlfAt(rawData, j)
         /\ \/ \E i \in 1 .. idx - 1 :
                 /\ LengthField(rawData, i, idx)
                 /\ \A j \in i + 1 .. idx - 1 : ~LengthField(rawData, j, idx)
                 /\ contentLength' = rawData[i].value
            \/ /\ \A i \in 1 .. idx - 1 : ~LengthField(rawData, i, idx)
               /\ UNCHANGED contentLength
         /\ rawData' = SubSeq(rawData, idx + 2, Len(rawData))
    /\ UNCHANGED <<sender, got, loop, escaped, faults, taken, delivered>>

HeaderComplete ==
    ~(contentLength >= 0) /\ \E idx \in 1 .. Len(rawData) : TwoCrlfAt(rawData, idx)

\* Neither a body nor a header is complete: break.
Break ==
    /\ loop
    /\ ~BodyComplete
    /\ ~HeaderComplete
    /\ loop' = FALSE
    /\ UNCHANGED <<sender, got, rawData, contentLength, escaped, faults, taken, delivered>>

-----------------------------------------------------------------------------
Init ==
    /\ wire = <<>> /\ frames = <<>> /\ stray = 0
    /\ got = 0 /\ rawData = <<>> /\ contentLength = -1
    /\ loop = FALSE /\ escaped = FALSE /\ faults = 0
    /\ taken = 0 /\ delivered = <<>>

Receive == \E n \in 1 .. (Len(wire) - got) : Data(n)

Iterate ==
    \/ \E throws \in BOOLEAN : TakeBody(throws)
    \/ ParseHeader
    \/ Break

Next ==
    \/ \E body \in Bodies, style \in Styles : Write(body, style)
    \/ Receive
    \/ Iterate

\* A stream that carries frames and nothing else.
SafeSpec == Init /\ [][Next]_vars

\* The thread runs a call to its end, and bytes written arrive.
Spec == SafeSpec /\ WF_vars(Receive) /\ WF_vars(Iterate)

\* A stream that also carries text written by something else.
NoisySpec == Init /\ [][Next \/ StrayText]_vars

-----------------------------------------------------------------------------
(* Where the decoder stands in the stream *)

\* Units of the wire that have left rawData for good.
consumed == got - Len(rawData)

BodyAt(j)   == frames[j].at + frames[j].head
FrameEnd(j) == BodyAt(j) + Len(frames[j].body)

\* Where the frame after the first k frames starts, or will start.
NextFrameAt(k) == IF k = 0 THEN 1 ELSE FrameEnd(k)

\* Types of the state; a length announced is the length of some body in bytes
\* (_send, doSend: Buffer.byteLength).
TypeOK ==
    /\ wire \in Seq(Unit)
    /\ frames \in Seq([at : Nat, head : Nat, body : Bodies])
    /\ stray \in Nat
    /\ got \in 0 .. Len(wire)
    /\ rawData \in Seq(Unit)
    /\ contentLength \in {-1} \cup {Len(b) : b \in Bodies}
    /\ loop \in BOOLEAN /\ escaped \in BOOLEAN
    /\ faults \in 0 .. MaxFaults
    /\ taken \in Nat
    /\ delivered \in Seq(Seq(Unit))

\* rawData is exactly the part of the wire that has arrived and is not consumed:
\* no byte is lost, repeated or moved by concatenating and slicing the buffer.
BufferIsWindow ==
    /\ Len(rawData) <= got
    /\ \A i \in 1 .. Len(rawData) : rawData[i] = wire[consumed + i]

\* The frames lie on the wire one after the other, each a header and its body.
FramesOnWire ==
    /\ \A j \in 1 .. Len(frames) :
         /\ frames[j].at = NextFrameAt(j - 1)
         /\ frames[j].at >= 1 /\ FrameEnd(j) <= Len(wire) + 1
         /\ \E style \in Styles :
              LET head == Header(frames[j].body, style)
              IN  /\ frames[j].head = Len(head)
                  /\ \A i \in 1 .. Len(head) : wire[frames[j].at + i - 1] = head[i]
         /\ \A i \in 1 .. Len(frames[j].body) :
              wire[BodyAt(j) + i - 1] = frames[j].body[i]
    /\ Len(wire) + 1 = NextFrameAt(Len(frames))

\* Between two iterations the decoder stands at the start of a frame with no
\* length, or at the start of a body with exactly that body's length: however
\* the stream was cut, it never takes a byte of a body for a header (even when
\* the body holds CR LF CR LF), or the other way round.
Aligned ==
    \/ /\ contentLength = -1
       /\ taken <= Len(frames)
       /\ consumed + 1 = NextFrameAt(taken)
    \/ /\ taken < Len(frames)
       /\ contentLength = Len(frames[taken + 1].body)
       /\ consumed + 1 = BodyAt(taken + 1)

\* The inductive invariant of a stream that carries frames only.
IInv == TypeOK /\ BufferIsWindow /\ FramesOnWire /\ Aligned

\* A call of the decoder leaves nothing behind that it could have handled,
\* unless an exception of a handler cut it short (the client only).
NothingLeftBehind == ~loop /\ ~escaped => ~BodyComplete /\ ~HeaderComplete

\* What arrives is what was sent, in order: the stream of frames implements the
\* channel of messages.
Channel == INSTANCE MessageChannel
             WITH sent <- [j \in 1 .. Len(frames) |-> frames[j].body]

ChannelSafe == Channel!SafeSpec

\* And, as the server catches what its handlers throw, every message written is
\* taken in the end, the ones behind a failing one in the same chunk included.
ChannelLive == Channel!Spec

-----------------------------------------------------------------------------
(* A stream with foreign text *)

\* The i-th message handed over is the body of frame f[i].
InOrderFrom(f) ==
    /\ \A i, k \in DOMAIN f : i < k => f[i] < f[k]
    /\ \A i \in DOMAIN f : delivered[i] = frames[f[i]].body

\* Each message handed over is one that was written, and they keep their order,
\* also when foreign text on the stream makes the decoder lose some of them.
NothingInvented == \E f \in [1 .. Len(delivered) -> 1 .. Len(frames)] : InOrderFrom(f)

\* No line of a body reads as a length field: a body is the JSON text of an object,
\* where that name stands in quotes.
BodiesAreNoHeaders == \A body \in Bodies : \A i \in DOMAIN body : body[i].field # "Content-Length"

\* The frames lie on the wire in order, text between them or not.  CR LF CR LF ends
\* a header and occurs nowhere before in it.
FramesApart ==
    /\ \A j \in 1 .. Len(frames) :
         /\ frames[j].at >= 1 /\ frames[j].head >= 3 /\ FrameEnd(j) <= Len(wire) + 1
         /\ TwoCrlfAt(wire, BodyAt(j) - 2)
         /\ \A p \in frames[j].at .. BodyAt(j) - 3 : ~TwoCrlfAt(wire, p)
         /\ \A i \in 1 .. Len(frames[j].body) : wire[BodyAt(j) + i - 1] = frames[j].body[i]
    /\ \A i, j \in 1 .. Len(frames) : i < j => FrameEnd(i) <= frames[j].at

\* A length on the wire stands in the header of the frame whose length it is.
LengthsInHeaders ==
    \A p \in 1 .. Len(wire) :
        wire[p].field = "Content-Length" =>
            \E j \in 1 .. Len(frames) :
                /\ p \in frames[j].at .. BodyAt(j) - 3
                /\ wire[p].value = Len(frames[j].body)

\* The frames that the messages handed over come from lie behind the decoder, and
\* with a length it stands at the body of a later frame, which has this length.
StandsBehind(f) ==
    /\ \A i \in DOMAIN f : FrameEnd(f[i]) <= consumed + 1
    /\ contentLength # -1 =>
         \E k \in 1 .. Len(frames) :
             /\ consumed + 1 = BodyAt(k) /\ contentLength = Len(frames[k].body)
             /\ \A i \in DOMAIN f : f[i] < k

\* The inductive invariant of a stream with foreign text.
NoisyIInv ==
    /\ TypeOK /\ BufferIsWindow /\ FramesApart /\ LengthsInHeaders
    /\ \E f \in [1 .. Len(delivered) -> 1 .. Len(frames)] : InOrderFrom(f) /\ StandsBehind(f)

=============================================================================
