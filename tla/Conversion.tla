----------------------------- MODULE Conversion -----------------------------
(***************************************************************************)
(* The conversions of DebugSession (src/adapter/src/debugSession.ts)       *)
(* between the lines, columns and paths of the client and those of the     *)
(* debugger, under the flags that the client's initialize request and the  *)
(* subclass's setters change.                                              *)
(*                                                                         *)
(* A path is cut at its separators into segments.  The segments of         *)
(* "/a/b.js" are "", "a" and "b.js", those of "C:\b.js" are "C:" and       *)
(* "b.js"; on Windows both separators cut.  A segment's text is one of     *)
(* Texts, by what the conversions make of it, and it counts how often the  *)
(* text was percent-encoded.  A URI is "file:///" and segments.  Hosts,    *)
(* queries and fragments of URIs are left out, as path2uri makes none.     *)
(***************************************************************************)
EXTENDS Integers, Sequences, SequencesExt

\* The names: one that no encoding touches, one with a character for encodeURI
\* (as ' ', '{' or non-ASCII), one with a character for the URL's pathname only
\* ('#' or '?'), one with '%'.
Names == {"plain", "space", "hash", "percent"}
Texts == Names \cup {"", ".", "..", "C:", "c:"}

CONSTANTS Numbers, Paths    \* the lines and columns, and the paths, converted

Segments == [text : Texts, escapes : {0}]

ASSUME ConversionAssumption ==
    /\ Numbers \subseteq Int
    /\ Paths \subseteq Seq(Segments) \ {<<>>}

VARIABLES
    win32,          \* process.platform
    debugger,       \* _debuggerLinesStartAt1, .._ColumnsStartAt1, .._PathsAreURIs
    client          \* the same of the client

conversionVars == <<win32, debugger, client>>

Flags == [lines : BOOLEAN, columns : BOOLEAN, uris : BOOLEAN]

ConversionTypeOK ==
    /\ win32 \in BOOLEAN
    /\ debugger \in Flags /\ client \in Flags /\ ~client.uris

-----------------------------------------------------------------------------
(* Lines and columns *)

\* A plausible bug: the debugger is taken to count from 0.
ClientsFlagOnly(n, debuggerAt1, clientAt1) == IF clientAt1 THEN n - 1 ELSE n

ToDebugger(n, debuggerAt1, clientAt1) ==
    IF debuggerAt1 THEN IF clientAt1 THEN n ELSE n + 1
                   ELSE IF clientAt1 THEN n - 1 ELSE n

ToClient(n, debuggerAt1, clientAt1) ==
    IF debuggerAt1 THEN IF clientAt1 THEN n ELSE n - 1
                   ELSE IF clientAt1 THEN n + 1 ELSE n

convertClientLineToDebugger(n)   == ToDebugger(n, debugger.lines, client.lines)
convertDebuggerLineToClient(n)   == ToClient(n, debugger.lines, client.lines)
convertClientColumnToDebugger(n) == ToDebugger(n, debugger.columns, client.columns)
convertDebuggerColumnToClient(n) == ToClient(n, debugger.columns, client.columns)

-----------------------------------------------------------------------------
(* Paths *)

Empty == [text |-> "", escapes |-> 0]
Each(Op(_), segs) == [i \in DOMAIN segs |-> Op(segs[i])]
Escape(seg) == [seg EXCEPT !.escapes = @ + 1]
IsDrive(seg) == seg.text \in {"C:", "c:"}
Lower(seg) == IF seg.text = "C:" THEN [seg EXCEPT !.text = "c:"] ELSE seg

\* A plausible bug: '%' is taken for part of an encoding there already.
EscapesSpaceOnly(seg) == IF seg.text = "space" THEN Escape(seg) ELSE seg
encodeURI(seg) == IF seg.text \in {"space", "percent"} THEN Escape(seg) ELSE seg

\* The pathname of a URL encodes what is left to encode.
EncodePathname(seg) == IF seg.text = "hash" THEN Escape(seg) ELSE seg

\* decodeURIComponent; it throws for a '%' that begins no encoding.
Malformed == [text |-> "malformed", escapes |-> 0]
Decode(seg) ==
    CASE seg.escapes > 0 -> [seg EXCEPT !.escapes = @ - 1]
      [] seg.escapes = 0 /\ seg.text = "percent" -> Malformed
      [] seg.escapes = 0 /\ seg.text # "percent" -> seg

\* How a URL takes the segments of its path: "." and ".." are resolved, but for a
\* drive that is the first, and what they leave at the end is a slash.
Shorten(segs) ==
    IF segs = <<>> \/ (Len(segs) = 1 /\ IsDrive(segs[1])) THEN segs ELSE Front(segs)

Resolved(done, seg) ==
    CASE seg.text = "."  -> done
      [] seg.text = ".." -> Shorten(done)
      [] OTHER           -> Append(done, seg)

Resolve(segs) ==
    LET done[i \in 0 .. Len(segs)] ==
            IF i = 0 THEN <<>> ELSE Resolved(done[i - 1], segs[i])
        n == Len(segs)
    IN  IF n > 0 /\ segs[n].text \in {".", ".."} THEN Append(done[n], Empty) ELSE done[n]

\* Setting the pathname: a slash at its beginning is the one that all paths have.
Pathname(segs) ==
    LET relative == IF Len(segs) > 1 /\ segs[1] = Empty THEN Tail(segs) ELSE segs
    IN  Each(EncodePathname, Resolve(relative))

path2uri(path) ==
    LET lowered == IF win32 THEN [path EXCEPT ![1] = Lower(@)] ELSE path
    IN  Pathname(Each(encodeURI, lowered))

\* A path begins with the slash of the URI, unless a drive follows.
Rooted(segs) ==
    IF win32 /\ IsDrive(segs[1]) THEN [segs EXCEPT ![1] = Lower(@)] ELSE <<Empty>> \o segs

uri2path(uri) == Rooted(Each(Decode, Resolve(uri)))

convertClientPathToDebugger(path) ==
    CASE client.uris = debugger.uris -> path
      [] client.uris  /\ ~debugger.uris -> uri2path(path)
      [] ~client.uris /\ debugger.uris  -> path2uri(path)

convertDebuggerPathToClient(path) ==
    CASE debugger.uris = client.uris -> path
      [] debugger.uris  /\ ~client.uris -> uri2path(path)
      [] ~debugger.uris /\ client.uris  -> path2uri(path)

-----------------------------------------------------------------------------
(* The flags *)

setDebuggerPathFormat(format) ==
    /\ debugger' = [debugger EXCEPT !.uris = (format # "path")]
    /\ UNCHANGED <<win32, client>>

setDebuggerLinesStartAt1(enable) ==
    /\ debugger' = [debugger EXCEPT !.lines = enable]
    /\ UNCHANGED <<win32, client>>

setDebuggerColumnsStartAt1(enable) ==
    /\ debugger' = [debugger EXCEPT !.columns = enable]
    /\ UNCHANGED <<win32, client>>

\* The initialize request.  A flag that it leaves out stays what it is, which is one
\* of the two values.  A path format other than "path" is refused, so that the
\* client's paths are never URIs.
Initialize(lines, columns) ==
    /\ client' = [client EXCEPT !.lines = lines, !.columns = columns]
    /\ UNCHANGED <<win32, debugger>>

ConversionInit ==
    /\ win32 \in BOOLEAN
    /\ \E at1 \in BOOLEAN : debugger = [lines |-> at1, columns |-> at1, uris |-> FALSE]
    /\ client = [lines |-> TRUE, columns |-> TRUE, uris |-> FALSE]

ConversionNext ==
    \/ \E format \in {"path", "url"} : setDebuggerPathFormat(format)
    \/ \E enable \in BOOLEAN :
          setDebuggerLinesStartAt1(enable) \/ setDebuggerColumnsStartAt1(enable)
    \/ \E lines, columns \in BOOLEAN : Initialize(lines, columns)

ConversionSpec == ConversionInit /\ [][ConversionNext]_conversionVars

-----------------------------------------------------------------------------
(* Properties *)

First(at1) == IF at1 THEN 1 ELSE 0

\* A line or column that is the k-th for the client is the k-th for the debugger, and
\* comes back as it was, under all settings that setters and initialize may leave.
LocationsAgree ==
    \A n \in Numbers :
        /\ convertClientLineToDebugger(n) - First(debugger.lines) = n - First(client.lines)
        /\ convertClientColumnToDebugger(n) - First(debugger.columns)
             = n - First(client.columns)
        /\ convertDebuggerLineToClient(convertClientLineToDebugger(n)) = n
        /\ convertDebuggerColumnToClient(convertClientColumnToDebugger(n)) = n

\* The paths that clients send: absolute, with nothing to resolve, on Windows with a
\* drive in lower case.
Canonical(path) ==
    /\ \A i \in DOMAIN path : path[i].text \notin {".", ".."}
    /\ \/ win32 /\ path[1].text = "c:"
       \/ path[1] = Empty /\ Len(path) > 1
    /\ win32 /\ Len(path) > 1 /\ path[1] = Empty => ~IsDrive(path[2])

ThereAndBack(path) == convertDebuggerPathToClient(convertClientPathToDebugger(path))

\* A client's path comes back from the debugger as it was, with its spaces, '#' and
\* '%'; another path comes back in a form that from then on stays the same, so that
\* a source is not shown under two names.
PathsComeBack ==
    \A path \in Paths :
        LET back == ThereAndBack(path)
        IN  /\ Canonical(path) => back = path
            /\ ThereAndBack(back) = back
=============================================================================
