--------------------------- MODULE WebSocketFraming ---------------------------
(***************************************************************************)
(* The bytes of a websocket connection (lib/websocket.ts): processData     *)
(* gathers the chunks a socket hands it until the frame it waits for can   *)
(* be read on, then takes frame after frame out of them.  Bytes are known  *)
(* by their places in the stream.  What a frame means is                   *)
(* WebSocketClient's; here it is the size of its header's parts, its       *)
(* payload and whether the client refuses it.                              *)
(***************************************************************************)
EXTENDS Naturals, Sequences

CONSTANTS
    MaxPayload,     \* the largest payload that is buffered
    PayloadLengths, \* the lengths of payloads the server sends
    MaxSent         \* bound: frames the server sends

VARIABLES
    stream,       \* history: the frames the server sent, one after the other
    arrived,      \* history: how many bytes of them have arrived
    processed,    \* history: the bytes each processed payload was made of
    pending,      \* the chunks queued until bytesNeeded bytes are there
    bytesNeeded,
    buffer,       \* what the loop reads
    isReading,    \* the loop is running
    isTerminated

queueVars == <<pending, bytesNeeded, buffer, isReading>>
vars == <<stream, arrived, processed, queueVars, isTerminated>>

\* Consecutive bytes of the stream are a record of their place and number.
NoBytes == [from |-> 0, length |-> 0]

\* The header of a frame tells its payload's length in its second byte, or in the two
\* or eight bytes after it; a frame with a mask has it before the payload.
FramesAt(places) ==
    [begin : places, extension : {0, 2, 8}, mask : {0, 4}, length : PayloadLengths,
     isBad : BOOLEAN]

\* How many bytes of a frame come before its mask, before its payload and in all.
LengthKnown(frame) == 2 + frame.extension
PayloadOffset(frame) == LengthKnown(frame) + frame.mask
Size(frame) == PayloadOffset(frame) + frame.length
End(frame) == frame.begin + Size(frame)

Payload(frame) == [from |-> frame.begin + PayloadOffset(frame), length |-> frame.length]

\* A malformed control frame, one that exceeds the cap together with the message it
\* belongs to, or one that exceeds it alone.
Refused(frame) == frame.isBad \/ frame.length > MaxPayload

StreamEnd == IF stream = <<>> THEN 0 ELSE End(stream[Len(stream)])

Init ==
    /\ stream = <<>>
    /\ arrived = 0
    /\ processed = <<>>
    /\ pending = NoBytes
    /\ bytesNeeded = 0
    /\ buffer = NoBytes
    /\ isReading = FALSE
    /\ isTerminated = FALSE

ServerSends(frame) ==
    /\ ~isReading
    /\ Len(stream) < MaxSent
    /\ stream' = Append(stream, frame)
    /\ UNCHANGED <<arrived, processed, queueVars, isTerminated>>

-----------------------------------------------------------------------------
(* processData.                                                            *)

\* The queue with one more chunk in it.
Queued(count) ==
    [from |-> IF pending.length = 0 THEN arrived ELSE pending.from,
     length |-> pending.length + count]

\* The socket's data event, with the next bytes of the stream: a destroyed socket has
\* no more of them.
DataArrives(count) ==
    /\ ~isReading /\ ~isTerminated
    /\ arrived + count <= StreamEnd
    /\ arrived' = arrived + count
    /\ IF Queued(count).length < bytesNeeded
       THEN /\ pending' = Queued(count)
            /\ UNCHANGED <<bytesNeeded, buffer, isReading>>
       ELSE /\ buffer' = Queued(count)
            /\ pending' = NoBytes
            /\ bytesNeeded' = 0
            /\ isReading' = TRUE
    /\ UNCHANGED <<stream, processed, isTerminated>>

\* The frame whose header the loop reads.
Frame == stream[Len(processed) + 1]

Has(count) == buffer.length >= count

\* awaitBytes, and the return after it.
AwaitBytes(count) ==
    /\ ~Has(count)
    /\ bytesNeeded' = count
    /\ pending' = IF buffer.length > 0 THEN buffer ELSE pending
    /\ buffer' = NoBytes
    /\ isReading' = FALSE
    /\ UNCHANGED <<stream, arrived, processed, isTerminated>>

AwaitHeader == isReading /\ AwaitBytes(2)

AwaitLength == isReading /\ Has(2) /\ AwaitBytes(LengthKnown(Frame))

\* A frame is refused as soon as its length is known, before any of it is buffered.
RefuseFrame ==
    /\ isReading
    /\ Has(2) /\ Has(LengthKnown(Frame))
    /\ Refused(Frame)
    /\ isTerminated' = TRUE
    /\ isReading' = FALSE
    /\ UNCHANGED <<stream, arrived, processed, pending, bytesNeeded, buffer>>

Accepted == Has(2) /\ Has(LengthKnown(Frame)) /\ ~Refused(Frame)

AwaitMask == isReading /\ Accepted /\ AwaitBytes(PayloadOffset(Frame))

AwaitPayload ==
    /\ isReading
    /\ Accepted /\ Has(PayloadOffset(Frame))
    /\ AwaitBytes(Size(Frame))

\* Deviation: the rest of a chunk is dropped with the frame that was read from it.
NoRemainder == NoBytes

\* What is left of the buffer once the loop has taken a frame.
Remainder ==
    [from |-> buffer.from + Size(Frame), length |-> buffer.length - Size(Frame)]

\* The loop goes on whatever processFrame makes of the frame: it may have failed the
\* connection, for a continuation that continues nothing.
ProcessFrame ==
    /\ isReading
    /\ Accepted /\ Has(PayloadOffset(Frame)) /\ Has(Size(Frame))
    /\ processed' = Append(processed, [from |-> buffer.from + PayloadOffset(Frame),
                                       length |-> Frame.length])
    /\ buffer' = Remainder
    /\ isTerminated' \in {isTerminated, TRUE}
    /\ UNCHANGED <<stream, arrived, pending, bytesNeeded, isReading>>

Read ==
    AwaitHeader \/ AwaitLength \/ RefuseFrame \/ AwaitMask \/ AwaitPayload \/ ProcessFrame

Next ==
    \/ \E frame \in FramesAt({StreamEnd}) : ServerSends(frame)
    \/ \E count \in 1 .. StreamEnd - arrived : DataArrives(count)
    \/ Read

Spec == Init /\ [][Next]_vars

-----------------------------------------------------------------------------
(* What the loop promises.                                                 *)

\* What is processed are the payloads of the server's frames, in their order.
PayloadsAreTheirs ==
    /\ Len(processed) <= Len(stream)
    /\ \A i \in DOMAIN processed : processed[i] = Payload(stream[i]) /\ ~Refused(stream[i])

\* Once a data event is handled, no frame that has arrived is kept waiting.
NoneIsLate ==
    ~isReading =>
        \A i \in DOMAIN stream :
            (\A j \in 1 .. i : ~Refused(stream[j])) /\ End(stream[i]) <= arrived
                => i \in DOMAIN processed

\* Nor is one that is to be refused, once it has told its length.
RefusedInTime ==
    ~isReading /\ ~isTerminated =>
        \A i \in DOMAIN stream :
            Refused(stream[i]) => arrived < stream[i].begin + LengthKnown(stream[i])

\* So the queue holds less than one frame of the largest size.
QueueIsBounded == pending.length < 14 + MaxPayload

\* However the network cuts the stream into chunks, in the middle of a header, a mask
\* or a payload, the frames are processed as they were sent, each as soon as it is
\* complete, and a refused one is refused before it is buffered (processData,
\* awaitBytes).
FramesAreWhole == PayloadsAreTheirs /\ NoneIsLate /\ RefusedInTime /\ QueueIsBounded

=============================================================================
