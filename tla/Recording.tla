------------------------------ MODULE Recording ------------------------------
(***************************************************************************)
(* HomeKit Secure Video recording of one camera: the delegate HomeKit      *)
(* calls (protect-record.ts), the timeshift buffer it keeps               *)
(* (protect-timeshift.ts), and the FFmpeg process of each recording        *)
(* (recording-process.ts, fmp4-process.ts).                                *)
(*                                                                         *)
(* A request starts at most one FFmpeg process, which bears its name.      *)
(* Whether the buffer holds enough, the camera is online and recording is  *)
(* allowed is left open each time the code asks.  The livestream pool is   *)
(* LivestreamManager's: here it answers a start with yes or no.            *)
(***************************************************************************)
EXTENDS Naturals, FiniteSets

CONSTANTS
    MaxUpdates,     \* bound: calls of updateRecordingActive pending at once
    MaxRequests,    \* bound: the recordings HomeKit asks for, one after the other
    Entries,        \* the RTSP entries a configuration can ask for
    MaxListeners    \* bound: listeners on one livestream

None == "none"
Requests == 1 .. MaxRequests
Updates == MaxRequests + 1 .. MaxRequests + MaxUpdates
NoRequest == 0
Callers == Updates \cup Requests

VARIABLES
    isRecording, isInitialized,
    recordingConfig,    \* the entry the configuration asks for, or None
    rtspEntry,          \* the entry the delegate settled on, or None
    livestream,         \* the timeshift buffer's livestream, by its entry, or None
    tsStarted,          \* its _isStarted, set together with its own rtspEntry
    tsTransmitting,     \* its _isTransmitting
    startOf,            \* startOf[c]: how far c's start of the buffer is
    startEntry,         \* startEntry[c]: the entry it is for
    listening,          \* listening[e]: listeners the buffer has on e's livestream
    hasInit,            \* the entries whose livestream has its initialization segment
    ffmpegStream, transmitListener,
    isTransmitting,
    attached,           \* the requests whose listener hears the buffer's segments
    request,            \* request[r]: where its generator is
    closed,             \* the requests HomeKit closed
    ffmpeg,             \* ffmpeg[r]: "none", "running", "exited", or "told" to stop
    boxes,              \* the requests with boxes in their recordingBuffer
    fed                 \* fed[r]: what the FFmpeg of r was fed first

bufferVars == <<livestream, tsStarted, listening>>
startVars == <<startOf, startEntry>>
sendVars == <<ffmpegStream, transmitListener, isTransmitting, attached, ffmpeg, tsTransmitting>>
generatorVars == <<request, boxes>>
configVars == <<isRecording, isInitialized, recordingConfig, rtspEntry>>
vars == <<configVars, bufferVars, startVars, hasInit, sendVars, generatorVars, closed, fed>>

TypeOK ==
    /\ isRecording \in BOOLEAN /\ isInitialized \in BOOLEAN
    /\ recordingConfig \in Entries \cup {None} /\ rtspEntry \in Entries \cup {None}
    /\ livestream \in Entries \cup {None}
    /\ tsStarted \in BOOLEAN /\ tsTransmitting \in BOOLEAN
    /\ startOf \in [Callers -> {"idle", "pool", "init"}]
    /\ startEntry \in [Callers -> Entries \cup {None}]
    /\ listening \in [Entries -> 0 .. MaxListeners]
    /\ hasInit \subseteq Entries
    /\ ffmpegStream \in Requests \cup {NoRequest} /\ transmitListener \in Requests \cup {NoRequest}
    /\ isTransmitting \in BOOLEAN
    /\ attached \subseteq Requests /\ closed \subseteq Requests
    /\ request \in [Requests -> {"none", "preparing", "recording", "waiting", "last", "ended"}]
    /\ ffmpeg \in [Requests -> {"none", "running", "exited", "told"}]
    /\ boxes \subseteq Requests
    /\ fed \in [Requests -> {"nothing", "init", "bare"}]

Init ==
    /\ isRecording = FALSE /\ isInitialized = FALSE
    /\ recordingConfig = None /\ rtspEntry = None
    /\ livestream = None /\ tsStarted = FALSE /\ tsTransmitting = FALSE
    /\ startOf = [c \in Callers |-> "idle"]
    /\ startEntry = [c \in Callers |-> None]
    /\ listening = [e \in Entries |-> 0] /\ hasInit = {}
    /\ ffmpegStream = NoRequest /\ transmitListener = NoRequest
    /\ isTransmitting = FALSE
    /\ attached = {} /\ closed = {}
    /\ request = [r \in Requests |-> "none"]
    /\ ffmpeg = [r \in Requests |-> "none"]
    /\ boxes = {}
    /\ fed = [r \in Requests |-> "nothing"]

-----------------------------------------------------------------------------
(* The timeshift buffer.                                                   *)

\* off removes one listener from the livestream the buffer refers to, if any.
WithoutListener == [e \in Entries |->
    IF e = livestream /\ listening[e] > 0 THEN listening[e] - 1 ELSE listening[e]]

\* stop: a buffer that is not started yet has its livestream taken away all the same.
StopTimeshift ==
    /\ listening' = IF tsStarted THEN WithoutListener ELSE listening
    /\ tsStarted' = FALSE
    /\ livestream' = None

\* start, until it waits for the pool.
StartTimeshift(c, e) ==
    LET kept == IF tsStarted THEN WithoutListener ELSE listening IN
    /\ kept[e] < MaxListeners
    /\ tsStarted' = FALSE
    /\ livestream' = e
    /\ listening' = [kept EXCEPT ![e] = @ + 1]
    /\ startOf' = [startOf EXCEPT ![c] = "pool"]
    /\ startEntry' = [startEntry EXCEPT ![c] = e]

\* The pool could not start: the listeners go.  The caller goes on with a failure.
PoolRefuses(c) ==
    /\ startOf[c] = "pool"
    /\ listening' = WithoutListener
    /\ UNCHANGED <<livestream, tsStarted>>

\* The pool started; without an initialization segment the start waits for one, of
\* whatever livestream the buffer refers to by now.
PoolStarts(c) ==
    /\ startOf[c] = "pool"
    /\ livestream # None /\ livestream \notin hasInit
    /\ tsStarted' = TRUE
    /\ startOf' = [startOf EXCEPT ![c] = "init"]
    /\ startEntry' = [startEntry EXCEPT ![c] = livestream]
    /\ UNCHANGED <<livestream, listening>>

\* The start succeeds with an initialization segment.
StartSucceeds(c) ==
    /\ \/ startOf[c] = "pool" /\ livestream # None /\ livestream \in hasInit
       \/ startOf[c] = "init" /\ startEntry[c] \in hasInit
    /\ tsStarted' = (tsStarted \/ startOf[c] = "pool")
    /\ UNCHANGED <<livestream, listening>>

\* No livestream any longer, or no initialization segment in time: the buffer stops.
StartIsStopped(c) ==
    \/ /\ startOf[c] = "pool" /\ livestream = None
       /\ UNCHANGED bufferVars
    \/ /\ startOf[c] = "init" /\ startEntry[c] \notin hasInit
       /\ StopTimeshift

StartEnds(c) == startOf' = [startOf EXCEPT ![c] = "idle"] /\ startEntry' = [startEntry EXCEPT ![c] = None]

InitArrives(e) ==
    /\ listening[e] > 0 /\ e \notin hasInit
    /\ hasInit' = hasInit \cup {e}
    /\ UNCHANGED <<configVars, bufferVars, startVars, sendVars, generatorVars, closed, fed>>

\* The pool starts the session of e again.
InitIsLost(e) ==
    /\ e \in hasInit
    /\ hasInit' = hasInit \ {e}
    /\ UNCHANGED <<configVars, bufferVars, startVars, sendVars, generatorVars, closed, fed>>

\* Who writes to the FFmpeg process the delegate refers to by now.
FirstFed(what) == fed' =
    IF attached # {} /\ ffmpegStream # NoRequest /\ ffmpeg[ffmpegStream] = "running"
    THEN [fed EXCEPT ![ffmpegStream] = IF @ = "nothing" THEN what ELSE @]
    ELSE fed

\* A segment of a livestream the buffer listens to, while it transmits.
Segment(e) ==
    /\ listening[e] > 0 /\ tsTransmitting
    /\ FirstFed("bare")
    /\ UNCHANGED <<configVars, bufferVars, startVars, hasInit, sendVars, generatorVars, closed>>

-----------------------------------------------------------------------------
(* The delegate: configuration.                                            *)

\* updateRecordingActive(FALSE), and a configuration that is withdrawn.
Deactivate ==
    /\ isRecording' = FALSE
    /\ StopTimeshift
    /\ UNCHANGED <<isInitialized, recordingConfig, rtspEntry, startVars, hasInit, sendVars,
                   generatorVars, closed, fed>>

Unconfigure ==
    /\ recordingConfig' = None
    /\ StopTimeshift
    /\ UNCHANGED <<isRecording, isInitialized, rtspEntry, startVars, hasInit, sendVars,
                   generatorVars, closed, fed>>

\* configureTimeshifting is done at once: nothing configured, the camera offline, no
\* stream profile, or the buffer already runs on this entry.
Configured(cfg) ==
    \/ UNCHANGED <<isInitialized, rtspEntry>>
    \/ /\ cfg # None /\ tsStarted /\ rtspEntry = cfg
       /\ isInitialized' = TRUE
       /\ UNCHANGED rtspEntry
    \/ cfg # None /\ rtspEntry' = None /\ UNCHANGED isInitialized

\* updateRecordingActive(TRUE) with the configuration cfg, until it waits.
Activate(c, cfg) ==
    /\ startOf[c] = "idle"
    /\ isRecording' = TRUE
    /\ \/ Configured(cfg) /\ UNCHANGED <<bufferVars, startVars>>
       \/ /\ cfg # None /\ ~(tsStarted /\ rtspEntry = cfg)
          /\ rtspEntry' = cfg
          /\ StartTimeshift(c, cfg)
          /\ UNCHANGED isInitialized

\* Of HomeKit: recording on, or a new configuration while it is on.
UpdateRecordingActive(u) ==
    /\ Activate(u, recordingConfig)
    /\ UNCHANGED <<recordingConfig, hasInit, sendVars, generatorVars, closed, fed>>

UpdateRecordingConfiguration(u, e) ==
    /\ recordingConfig' = e
    /\ IF isRecording
       THEN Activate(u, e)
       ELSE StopTimeshift /\ UNCHANGED <<isRecording, isInitialized, rtspEntry, startVars>>
    /\ UNCHANGED <<hasInit, sendVars, generatorVars, closed, fed>>

\* An update's start goes on.
UpdateWaits(u) ==
    /\ PoolStarts(u)
    /\ UNCHANGED <<configVars, hasInit, sendVars, generatorVars, closed, fed>>

UpdateEnds(u) ==
    /\ \/ StartSucceeds(u) /\ isInitialized' = TRUE
       \/ (PoolRefuses(u) \/ StartIsStopped(u)) /\ UNCHANGED isInitialized
    /\ StartEnds(u)
    /\ UNCHANGED <<isRecording, recordingConfig, rtspEntry, hasInit, sendVars, generatorVars,
                   closed, fed>>

-----------------------------------------------------------------------------
(* The delegate: transmitting.                                             *)

\* An FFmpeg process of an earlier recording is stopped.
StopsPrior == [r \in Requests |-> IF r = ffmpegStream THEN "told" ELSE ffmpeg[r]]

\* stopTransmitting.
StopTransmitting ==
    /\ tsTransmitting' = FALSE
    /\ ffmpeg' = StopsPrior
    /\ ffmpegStream' = NoRequest
    /\ isTransmitting' = FALSE
    /\ attached' = attached \ {transmitListener}
    /\ transmitListener' = NoRequest

\* A declined request gets one last packet.
Decline(r) == request' = [request EXCEPT ![r] = "last"]

\* It is not even tried: not initialized, not allowed, or the camera is not ready.
DeclineAtOnce(r) ==
    /\ IF isTransmitting
       THEN StopTransmitting
       ELSE UNCHANGED sendVars
    /\ Decline(r)
    /\ UNCHANGED <<bufferVars, boxes, fed>>

\* There is no initialization segment: the new FFmpeg and the buffer are stopped.
TransmitStartFails(r) ==
    /\ livestream = None \/ livestream \notin hasInit
    /\ attached' = attached \ {transmitListener}
    /\ ffmpeg' = [StopsPrior EXCEPT ![r] = "told"]
    /\ ffmpegStream' = NoRequest /\ transmitListener' = NoRequest /\ isTransmitting' = FALSE
    /\ StopTimeshift
    /\ Decline(r)
    /\ UNCHANGED <<tsTransmitting, boxes, fed>>

\* Deviation: what is buffered is sent without the initialization segment.
SendsBufferOnly == "bare"

\* What a transmission begins with.
SendsFirst == "init"

\* A new FFmpeg process, a new listener, and at once all that is buffered.
StartTransmitting(r) ==
    /\ livestream # None /\ livestream \in hasInit
    /\ ffmpeg' = [StopsPrior EXCEPT ![r] = "running"]
    /\ ffmpegStream' = r /\ transmitListener' = r
    /\ attached' = (attached \ {transmitListener}) \cup {r}
    /\ isTransmitting' = TRUE /\ tsTransmitting' = TRUE
    /\ fed' = [fed EXCEPT ![r] = SendsFirst]
    /\ request' = [request EXCEPT ![r] = "recording"]
    /\ UNCHANGED <<bufferVars, boxes>>

\* The rest of handleRecordingStreamRequest once the buffer is looked after.
Answer(r, initialized) ==
    \/ DeclineAtOnce(r)
    \/ initialized /\ (StartTransmitting(r) \/ TransmitStartFails(r))

\* HomeKit opens one recording after the other.
OpenFor(r) ==
    /\ request[r] = "none"
    /\ \A q \in 1 .. r - 1 : q \in closed

\* A request prepares the buffer first if nobody did.
RequestPrepares(r) ==
    /\ OpenFor(r)
    /\ isRecording /\ ~isInitialized
    /\ Activate(r, recordingConfig)
    /\ request' = [request EXCEPT ![r] = "preparing"]
    /\ UNCHANGED <<recordingConfig, hasInit, sendVars, boxes, closed, fed>>

RequestAnswered(r) ==
    /\ OpenFor(r)
    /\ Answer(r, isInitialized)
    /\ UNCHANGED <<configVars, startVars, hasInit, closed>>

RequestWaits(r) ==
    /\ PoolStarts(r)
    /\ UNCHANGED <<configVars, hasInit, sendVars, generatorVars, closed, fed>>

\* A request's start is over, one way or another; the answer follows in a later step.
RequestPrepared(r) ==
    /\ \/ StartSucceeds(r) /\ isInitialized' = TRUE
       \/ (PoolRefuses(r) \/ StartIsStopped(r)) /\ UNCHANGED isInitialized
    /\ StartEnds(r)
    /\ UNCHANGED <<isRecording, recordingConfig, rtspEntry, hasInit, sendVars, generatorVars,
                   closed, fed>>

RequestResumes(r) ==
    /\ request[r] = "preparing" /\ startOf[r] = "idle"
    /\ Answer(r, isInitialized)
    /\ UNCHANGED <<configVars, startVars, hasInit, closed>>

\* closeRecordingStream, or HomeKit's acknowledgement of the last packet.
CloseRecordingStream(r) ==
    /\ request[r] # "none" /\ r \notin closed
    /\ closed' = closed \cup {r}
    /\ StopTransmitting
    /\ UNCHANGED <<configVars, bufferVars, startVars, hasInit, request, boxes, fed>>

-----------------------------------------------------------------------------
(* The generator of a request.                                             *)

Generates(r) == request[r] \in {"recording", "waiting"}

\* FFmpeg's output is read until FFmpeg is told to stop; nobody looks at it once the
\* generator has ended.
FfmpegProduces(r) ==
    /\ ffmpeg[r] = "running" /\ Generates(r) /\ r \notin boxes
    /\ boxes' = boxes \cup {r}
    /\ UNCHANGED <<configVars, bufferVars, startVars, hasInit, sendVars, request,
                   closed, fed>>

\* FFmpeg exits, or the object stops it because its output is corrupt.
FfmpegEnds(r) ==
    /\ ffmpeg[r] = "running"
    /\ ffmpeg' \in {[ffmpeg EXCEPT ![r] = end] : end \in {"exited", "told"}}
    /\ UNCHANGED <<configVars, bufferVars, startVars, hasInit, tsTransmitting, ffmpegStream,
                   transmitListener, isTransmitting, attached, generatorVars, closed, fed>>

\* The generator goes on to where; what it leaves behind at its end is dropped.
GoesOn(r, where) ==
    /\ request' = [request EXCEPT ![r] = where]
    /\ boxes' = boxes \ {r}
    /\ UNCHANGED <<configVars, bufferVars, startVars, hasInit, sendVars, closed, fed>>

\* FFmpeg runs and has sent nothing yet: the generator waits.
GeneratorWaits(r) ==
    /\ request[r] = "recording" /\ ffmpeg[r] = "running" /\ r \notin boxes
    /\ GoesOn(r, "waiting")

\* A box completes a segment: sent, unless the delegate stopped transmitting or HomeKit
\* no longer listens.  Who waited does not look whether FFmpeg has ended.
GeneratorSends(r) ==
    /\ r \in boxes
    /\ request[r] = "waiting" \/ (request[r] = "recording" /\ ffmpeg[r] = "running")
    /\ GoesOn(r, IF isTransmitting /\ r \notin closed THEN "recording" ELSE "ended")

\* The generator looks at FFmpeg and finds that it has ended.
GeneratorEnds(r) ==
    /\ request[r] = "recording" /\ ffmpeg[r] \in {"exited", "told"}
    /\ GoesOn(r, "ended")

\* Deviation: a generator waits for a box until FFmpeg is told to stop.
WaitIsUnlimited(r) == r \notin boxes /\ ffmpeg[r] = "told"

\* A generator's wait ends without a box: after HKSV_TIMEOUT, or woken by stopProcess.
WaitIsOver(r) == r \notin boxes

\* If it is still the delegate's FFmpeg, HomeKit gets a last packet.
GeneratorTimesOut(r) ==
    /\ request[r] = "waiting" /\ WaitIsOver(r)
    /\ GoesOn(r, IF ffmpegStream = r THEN "last" ELSE "ended")

\* The last packet of a request that was declined or timed out.
SendsLast(r) ==
    /\ request[r] = "last"
    /\ GoesOn(r, "ended")

Next ==
    \/ Deactivate \/ Unconfigure
    \/ \E u \in Updates :
        \/ UpdateRecordingActive(u) \/ UpdateWaits(u) \/ UpdateEnds(u)
        \/ \E e \in Entries : UpdateRecordingConfiguration(u, e)
    \/ \E e \in Entries : InitArrives(e) \/ InitIsLost(e) \/ Segment(e)
    \/ \E r \in Requests :
        \/ RequestPrepares(r) \/ RequestAnswered(r) \/ RequestWaits(r) \/ RequestPrepared(r)
        \/ RequestResumes(r) \/ CloseRecordingStream(r)
        \/ FfmpegProduces(r) \/ FfmpegEnds(r)
        \/ GeneratorWaits(r) \/ GeneratorSends(r) \/ GeneratorEnds(r) \/ GeneratorTimesOut(r)
        \/ SendsLast(r)

Spec == Init /\ [][Next]_vars

\* The pool answers, the wait for an initialization segment is limited, and so is the
\* wait for FFmpeg's output; HomeKit takes what it is sent.
Fairness == \A r \in Requests : WF_vars(
    \/ RequestWaits(r) \/ RequestPrepared(r) \/ RequestResumes(r)
    \/ GeneratorWaits(r) \/ GeneratorSends(r) \/ GeneratorEnds(r) \/ GeneratorTimesOut(r)
    \/ SendsLast(r))

-----------------------------------------------------------------------------
(* What a recording promises.                                              *)

\* At most one FFmpeg process records, it is the one the delegate can stop, and at most
\* one listener feeds it: no recording is left running by the next one
\* (startTransmitting, stopTransmitting).
OneRecorder ==
    /\ \A r \in Requests : ffmpeg[r] = "running" => r = ffmpegStream
    /\ attached \subseteq {transmitListener}

\* What an FFmpeg process is fed begins with an initialization segment, however starts,
\* stops and reconfigurations of the buffer interleave with recordings (transmitStart).
FedFromTheStart == \A r \in Requests : fed[r] # "bare"

\* Each recording has its own FFmpeg process, fed by it alone and from the start.
RecordingsAgree == OneRecorder /\ FedFromTheStart

\* No recording hangs: time and again, every request that HomeKit closed or whose FFmpeg
\* is gone has ended; a generator is never left waiting for an FFmpeg process that exited
\* or was stopped (stopProcess, segmentGenerator).
RecordingsEnd == []<>(\A r \in Requests :
    r \in closed \/ ffmpeg[r] \in {"exited", "told"} => request[r] = "ended")

=============================================================================
