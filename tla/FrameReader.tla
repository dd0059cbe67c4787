----------------------------- MODULE FrameReader -----------------------------
(***************************************************************************)
(* How newline-delimited frames are cut out of a pipe: readFrame of        *)
(* labctl-go/internal/worker/frame.go and read_frame of                    *)
(* engine-rs/crates/paraflow-engine/src/server.rs.  Both meet the stream   *)
(* in pieces, keep a bounded partial frame, accept CR LF as well as LF,    *)
(* and must not let the size of the pieces show.                           *)
(*                                                                         *)
(* A byte is "x" (any other byte), "cr" or "lf".  The peer has written     *)
(* `input` and closed its end; a pipe that stays open differs only in that *)
(* the reader waits where it would see the end of file.                    *)
(***************************************************************************)
EXTENDS Naturals, Sequences

CONSTANTS
    MaxFrame,     \* MaxFrameBytes, MAX_FRAME_BYTES
    BufferSize,   \* readBufferBytes: the most ReadSlice returns at once
    MaxInput      \* bound on the length of the stream

ASSUME SizesAssumption ==
    /\ MaxFrame \in Nat \ {0} /\ BufferSize \in Nat \ {0} /\ MaxInput \in Nat

VARIABLES
    reader,       \* "go" or "rust"
    input,        \* the whole stream
    start,        \* bytes before the current frame
    pos,          \* bytes consumed
    payload,      \* the partial frame
    status        \* "reading", or how the call ended

vars == <<reader, input, start, pos, payload, status>>

Byte == {"x", "cr", "lf"}
Streams == UNION {[1 .. n -> Byte] : n \in 0 .. MaxInput}

Init ==
    /\ reader \in {"go", "rust"} /\ input \in Streams
    /\ start = 0 /\ pos = 0 /\ payload = <<>> /\ status = "reading"

EndsInCR(s) == s # <<>> /\ s[Len(s)] = "cr"
StripCR(s) == IF EndsInCR(s) THEN SubSeq(s, 1, Len(s) - 1) ELSE s

\* The next n bytes.
Ahead(n) == SubSeq(input, pos + 1, pos + n)
HasLF(s) == \E i \in DOMAIN s : s[i] = "lf"

Ended(verdict, consumed) ==
    status' = verdict /\ pos' = pos + consumed /\ UNCHANGED payload

\* Mutant: the limit leaves no room for the CR of a CR LF.
TooLargeNoCR(fragment) == Len(payload) + Len(fragment) > MaxFrame

\* The check before a fragment is taken: one byte above the limit is allowed
\* if it can be the CR of the terminator.
TooLarge(fragment) ==
    /\ Len(payload) + Len(fragment) > MaxFrame
    /\ ~ /\ Len(payload) + Len(fragment) = MaxFrame + 1
         /\ EndsInCR(fragment) \/ (fragment = <<>> /\ EndsInCR(payload))

\* A fragment that ends the line completes the frame, less its CR.
TakeLine(fragment, consumed) ==
    LET line == StripCR(payload \o fragment)
    IN  /\ pos' = pos + consumed
        /\ payload' = line
        /\ status' = IF Len(line) > MaxFrame THEN "too_large" ELSE "frame"

TakePart(fragment) ==
    /\ payload' = payload \o fragment /\ pos' = pos + Len(fragment)

-----------------------------------------------------------------------------
(* readFrame.  ReadSlice returns up to and with the newline, or a full     *)
(* buffer, or what is left at the end of file.                             *)

GoLine ==
    /\ status = "reading" /\ reader = "go"
    /\ \E n \in 1 .. BufferSize :
         /\ pos + n <= Len(input)
         /\ input[pos + n] = "lf" /\ ~HasLF(Ahead(n - 1))
         /\ IF TooLarge(Ahead(n - 1)) THEN Ended("too_large", n)
                                      ELSE TakeLine(Ahead(n - 1), n)
    /\ UNCHANGED <<reader, input, start>>

GoBufferFull ==
    /\ status = "reading" /\ reader = "go"
    /\ pos + BufferSize <= Len(input) /\ ~HasLF(Ahead(BufferSize))
    /\ IF TooLarge(Ahead(BufferSize))
         THEN Ended("too_large", BufferSize)
         ELSE TakePart(Ahead(BufferSize)) /\ UNCHANGED status
    /\ UNCHANGED <<reader, input, start>>

\* The rest without a newline is an error; only an empty rest is a plain EOF.
GoEOF ==
    /\ status = "reading" /\ reader = "go"
    /\ LET rest == Ahead(Len(input) - pos)
       IN  /\ Len(rest) < BufferSize /\ ~HasLF(rest)
           /\ IF TooLarge(rest)
                THEN Ended("too_large", Len(rest))
                ELSE /\ TakePart(rest)
                     /\ status' = IF payload \o rest = <<>> THEN "eof" ELSE "truncated"
    /\ UNCHANGED <<reader, input, start>>

-----------------------------------------------------------------------------
(* read_frame.  fill_buf returns what the last read brought: any number of *)
(* bytes, also with newlines in between.                                   *)

RustChunk ==
    /\ status = "reading" /\ reader = "rust"
    /\ \E n \in 1 .. Len(input) - pos :
         LET lf == {i \in 1 .. n : input[pos + i] = "lf"}
         IN  IF lf = {}
               THEN IF TooLarge(Ahead(n))
                      THEN Ended("too_large", 0)
                      ELSE TakePart(Ahead(n)) /\ UNCHANGED status
               ELSE LET first == CHOOSE i \in lf : \A j \in lf : i <= j
                    IN  IF TooLarge(Ahead(first - 1))
                          THEN Ended("too_large", 0)
                          ELSE TakeLine(Ahead(first - 1), first)
    /\ UNCHANGED <<reader, input, start>>

\* Mutant: the rest is returned without a look at its length.
RustEOFUnchecked ==
    /\ status = "reading" /\ reader = "rust" /\ pos = Len(input)
    /\ Ended(IF payload = <<>> THEN "eof" ELSE "frame", 0)
    /\ UNCHANGED <<reader, input, start>>

\* At the end of file a rest without a newline is a frame, with its CR.
RustEOF ==
    /\ status = "reading" /\ reader = "rust" /\ pos = Len(input)
    /\ Ended(IF Len(payload) > MaxFrame THEN "too_large"
             ELSE IF payload = <<>> THEN "eof" ELSE "frame", 0)
    /\ UNCHANGED <<reader, input, start>>

-----------------------------------------------------------------------------
\* The next call, after a frame.  Every other verdict ends the conversation.
NextCall ==
    /\ status = "frame"
    /\ status' = "reading" /\ payload' = <<>> /\ start' = pos
    /\ UNCHANGED <<reader, input, pos>>

Next == GoLine \/ GoBufferFull \/ GoEOF \/ RustChunk \/ RustEOF \/ NextCall

Spec == Init /\ [][Next]_vars

-----------------------------------------------------------------------------
(* Properties.                                                             *)

\* What the rest of the stream is, seen as a whole: its first line, and
\* whether a newline ends it.
Rest == SubSeq(input, start + 1, Len(input))
LineLength == IF HasLF(Rest)
                THEN CHOOSE n \in 0 .. Len(Rest) - 1 :
                       Rest[n + 1] = "lf" /\ ~HasLF(SubSeq(Rest, 1, n))
                ELSE Len(Rest)
Line == SubSeq(Rest, 1, LineLength)

\* A reader returns exactly the lines of the stream.  A frame is the next line
\* without its line end, within the limit, and exactly that line is consumed,
\* no matter how the stream was cut into pieces and where the limit falls.  A
\* line is refused only if it is too long, a CR at its end not counted, and a
\* cut stream is reported only if it was cut.  However long a line without an
\* end grows, a reader keeps no more of it than the limit and the one byte that
\* may be a CR: the bound on the memory a peer can make it use.
FramesAreLines ==
    LET content == IF HasLF(Rest) THEN StripCR(Line) ELSE Line
    IN  /\ status = "frame" =>
             /\ payload = content /\ Len(payload) <= MaxFrame
             /\ pos = start + Len(Line) + (IF HasLF(Rest) THEN 1 ELSE 0)
             /\ ~HasLF(Rest) => reader = "rust"
        /\ Len(payload) <= MaxFrame + 1
        /\ status = "too_large" => Len(content) > MaxFrame
        /\ status = "truncated" => Rest # <<>> /\ ~HasLF(Rest)
        /\ status = "eof" => Rest = <<>>
=============================================================================
