------------------------------ MODULE BoxReader ------------------------------
(***************************************************************************)
(* The fMP4 stream of an FFmpeg process: its bytes come in chunks of any   *)
(* size, FMp4BoxReader makes boxes of them (fmp4.ts), and a livestream's   *)
(* process an initialization segment and segments of those                 *)
(* (livestream-process.ts).  The reader, the listener and the segments     *)
(* begin anew with each process (configureProcess, start).                 *)
(*                                                                         *)
(* A box is its size; the first box of media is the one at moof.  Bytes    *)
(* are counted, and the header is HeaderSize of them.                      *)
(***************************************************************************)
EXTENDS Naturals, Sequences, FiniteSets

CONSTANTS
    HeaderSize,     \* BOX_HEADER_SIZE
    BoxSizes,       \* sizes in headers, some below HeaderSize
    MaxBoxes,       \* bound: boxes of a stream
    MaxChildren     \* bound: processes

VARIABLES
    stream,         \* the sizes of the boxes FFmpeg writes
    moof,           \* which of them is the first moof box
    children,       \* how many processes there were
    received,       \* how many bytes have come
    pendingLength,  \* how many of them are kept for the next chunk
    boxSize,        \* the size of the box they begin, 0 while it is unknown
    isListening,    \* stdout is listened to
    handed,         \* the boxes handed to handleParsedBox: where each began, and its size
    initSegmentParts,
    hasInitSegment,
    segments        \* the segments that were emitted

readerVars == <<pendingLength, boxSize>>
vars == <<stream, moof, children, received, readerVars, isListening, handed, initSegmentParts,
          hasInitSegment, segments>>

Streams == UNION {[1 .. n -> BoxSizes] : n \in 1 .. MaxBoxes}

\* Where the i-th box of the stream begins, as a number of bytes.
Begin ==
    LET b[i \in 1 .. Len(stream) + 1] == IF i = 1 THEN 0 ELSE b[i - 1] + stream[i - 1]
    IN  b

\* FFmpeg writes a header even for a box that is said to be smaller.
Length == LET n == Len(stream)
          IN  Begin[n] + (IF stream[n] < HeaderSize THEN HeaderSize ELSE stream[n])

\* What a header read at an offset says; bytes that are no header say nothing of use.
SizeAt(offset) ==
    LET at == {i \in DOMAIN stream : Begin[i] = offset}
    IN  IF at = {} THEN 0 ELSE stream[CHOOSE i \in at : TRUE]

Starts ==
    /\ stream' \in Streams
    /\ moof' \in 1 .. Len(stream') + 1
    /\ received' = 0 /\ pendingLength' = 0 /\ boxSize' = 0
    /\ isListening' = TRUE
    /\ handed' = <<>> /\ initSegmentParts' = <<>> /\ hasInitSegment' = FALSE
    /\ segments' = <<>>

Init ==
    /\ stream \in Streams
    /\ moof \in 1 .. Len(stream) + 1
    /\ children = 1
    /\ received = 0 /\ pendingLength = 0 /\ boxSize = 0
    /\ isListening = TRUE
    /\ handed = <<>> /\ initSegmentParts = <<>> /\ hasInitSegment = FALSE
    /\ segments = <<>>

-----------------------------------------------------------------------------
(* The reader.                                                             *)

Result(boxes, stash, size, isValid) ==
    [boxes |-> boxes, stash |-> stash, size |-> size, isValid |-> isValid]

\* parse: the boxes of the buffer that ends at end and begins at offset, and the bytes that
\* are stashed for the next chunk.
Parse(begin, end) ==
    LET parse[offset \in begin .. end] ==
            LET size == SizeAt(offset)
                rest == parse[offset + size]
            IN  IF offset = end THEN Result(<<>>, 0, 0, TRUE)
                ELSE IF end - offset < HeaderSize THEN Result(<<>>, end - offset, 0, TRUE)
                ELSE IF size < HeaderSize THEN Result(<<>>, 0, 0, FALSE)
                ELSE IF end - offset < size THEN Result(<<>>, end - offset, size, TRUE)
                ELSE [rest EXCEPT !.boxes = <<<<offset, size>>>> \o @]
    IN  parse[begin]

\* Deviation: a box whose last byte has come waits for the next one.
WaitsForMore(length) == boxSize # 0 /\ length <= boxSize

\* push: the box that is pending is not complete.
IsCollecting(length) == boxSize # 0 /\ length < boxSize

\* handleParsedBox, for boxes in order: those before the first moof box are the
\* initialization segment.
Handles(boxes) ==
    LET first == IF moof \in DOMAIN stream THEN Begin[moof] ELSE Length
        isMedia(box) == hasInitSegment \/ box[1] >= first
    IN  /\ handed' = handed \o boxes
        /\ hasInitSegment' = (hasInitSegment \/ \E i \in DOMAIN boxes : isMedia(boxes[i]))
        /\ \E n \in 0 .. Len(boxes) :
               /\ \A i \in DOMAIN boxes : isMedia(boxes[i]) <=> i > n
               /\ initSegmentParts' = initSegmentParts \o SubSeq(boxes, 1, n)
               /\ segments' = segments \o SubSeq(boxes, n + 1, Len(boxes))

\* push, and the listener that ends the process when the stream is corrupt.
Chunk ==
    /\ isListening
    /\ \E n \in 1 .. Length - received :
           LET end == received + n
               length == pendingLength + n
               parsed == Parse(received - pendingLength, end)
           IN  /\ received' = end
               /\ IF pendingLength # 0 /\ IsCollecting(length)
                  THEN /\ pendingLength' = length
                       /\ UNCHANGED <<boxSize, isListening, handed, initSegmentParts,
                                      hasInitSegment, segments>>
                  ELSE /\ pendingLength' = parsed.stash
                       /\ boxSize' = parsed.size
                       /\ isListening' = parsed.isValid
                       /\ Handles(parsed.boxes)
    /\ UNCHANGED <<stream, moof, children>>

\* The process exits, in the middle of a box or not, and its object is started again.
NextChild ==
    /\ children < MaxChildren
    /\ children' = children + 1
    /\ Starts

Next == Chunk \/ NextChild

Spec == Init /\ [][Next]_vars

-----------------------------------------------------------------------------
(* What the reader promises.                                               *)

\* The boxes that are complete within n bytes, before the first that is invalid.
Complete(n) ==
    {i \in DOMAIN stream : /\ \A j \in 1 .. i : stream[j] >= HeaderSize
                           /\ Begin[i] + stream[i] <= n}

\* However FFmpeg's output is cut into chunks, and whatever an earlier process left: every
\* box that has come is handed on, whole, once and in order, nothing is after a corrupt
\* one, and the initialization segment is what precedes the first moof box (push, parse,
\* handleParsedBox).
BoxesAreWhole ==
    /\ Len(handed) = Cardinality(Complete(received))
    /\ \A i \in DOMAIN handed : handed[i] = <<Begin[i], stream[i]>>
    /\ handed = initSegmentParts \o segments
    /\ Len(initSegmentParts) < moof
    /\ segments # <<>> => Len(initSegmentParts) = moof - 1

=============================================================================
