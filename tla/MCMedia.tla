------------------------------- MODULE MCMedia -------------------------------
(***************************************************************************)
(* The parts of one camera's media that share no state, each on a small    *)
(* instance for TLC: part says which of them a behaviour is about, and the *)
(* others stay as they began.                                              *)
(***************************************************************************)
EXTENDS ProtectLivestream

CONSTANTS
    MaxChildren,                                    \* FfmpegProcess
    MaxRequests, MaxUpdates, Entries, MaxListeners, \* Recording
    Sessions, TwoWay, MaxPort, MaxTries,            \* StreamingDelegate
    Requesters, Sizes, MaxAttempts, MaxEvents, Timeout, FallbackReserve    \* Snapshot

\* Any bound does for the children one object spawns.
ASSUME FfmpegAssumption == MaxChildren \in Nat

\* An unscaled image can be asked for, and an attempt has time for the fallback it holds
\* a reserve back for (PROTECT_SNAPSHOT_TIMEOUT, PROTECT_SNAPSHOT_FALLBACK_RESERVE).
ASSUME SnapshotAssumption ==
    /\ 0 \in Sizes
    /\ Timeout \in Nat /\ FallbackReserve \in 0 .. Timeout

VARIABLES
    part,
    process, spawned, child, told, struck, killTimer, hasStarted, isEnded, hasError,
    hasEmittedClose, hasInitSegment, awaiting,
    isRecording, isInitialized, recordingConfig, rtspEntry, livestream, tsStarted,
    tsTransmitting, startOf, startEntry, listening, hasInit, ffmpegStream, transmitListener,
    isTransmitting, attached, request, closed, ffmpeg, boxes, fed,
    preparing, portsInUse, reserve, firstPort, attempts, pendingSessions, ongoingSessions,
    starting, video, audio, registered, callback, answers, rtpDemuxer, heartbeatTimer,
    streamTimeout, stopped, cutShort, lost,
    eventMarkers, snapshotUrl, pendingSnapshots, waitsFor, source, sizeOf, budget,
    cacheAge, cacheSize, cacheMarkers

Ffmpeg == INSTANCE FfmpegProcess
Hksv == INSTANCE Recording
Streaming == INSTANCE StreamingDelegate
Still == INSTANCE Snapshot WITH Callers <- Requesters, Reserve <- FallbackReserve

livestreamVars == <<overlapping, pending, ws, sessionAbort, waiting, initSegment, state, wired, readers,
                    heartbeat, heartbeats, silent, closes, starts>>
ffmpegVars == <<process, spawned, child, told, struck, killTimer, hasStarted, isEnded,
                hasError, hasEmittedClose, hasInitSegment, awaiting>>
recordingVars == <<isRecording, isInitialized, recordingConfig, rtspEntry, livestream,
                   tsStarted, tsTransmitting, startOf, startEntry, listening, hasInit,
                   ffmpegStream, transmitListener, isTransmitting, attached, request, closed,
                   ffmpeg, boxes, fed>>
streamingVars == <<preparing, portsInUse, reserve, firstPort, attempts, pendingSessions,
                   ongoingSessions, starting, video, audio, registered, callback, answers,
                   rtpDemuxer, heartbeatTimer, streamTimeout, stopped, cutShort, lost>>
snapshotVars == <<eventMarkers, snapshotUrl, pendingSnapshots, waitsFor, source, sizeOf,
                  budget, cacheAge, cacheSize, cacheMarkers>>
partsVars == <<part, livestreamVars, ffmpegVars, recordingVars, streamingVars, snapshotVars>>

Parts == {"livestream", "ffmpeg", "recording", "streaming", "snapshot"}

PartsInit ==
    /\ part \in Parts
    /\ Init /\ Ffmpeg!Init /\ Hksv!Init /\ Streaming!Init /\ Still!Init
    /\ part # "livestream" => ~overlapping

LivestreamSteps ==
    /\ part = "livestream"
    /\ Next
    /\ UNCHANGED <<part, overlapping, ffmpegVars, recordingVars, streamingVars, snapshotVars>>

FfmpegSteps ==
    /\ part = "ffmpeg"
    /\ Ffmpeg!Next
    /\ UNCHANGED <<part, livestreamVars, recordingVars, streamingVars, snapshotVars>>

RecordingSteps ==
    /\ part = "recording"
    /\ Hksv!Next
    /\ UNCHANGED <<part, livestreamVars, ffmpegVars, streamingVars, snapshotVars>>

StreamingSteps ==
    /\ part = "streaming"
    /\ Streaming!Next
    /\ UNCHANGED <<part, livestreamVars, ffmpegVars, recordingVars, snapshotVars>>

SnapshotSteps ==
    /\ part = "snapshot"
    /\ Still!Next
    /\ UNCHANGED <<part, livestreamVars, ffmpegVars, recordingVars, streamingVars>>

PartsNext ==
    \/ LivestreamSteps \/ FfmpegSteps \/ RecordingSteps
    \/ StreamingSteps \/ SnapshotSteps

\* What is fair of a part is never enabled in a behaviour of another.
PartsSpec == PartsInit /\ [][PartsNext]_partsVars /\ Fairness /\ Ffmpeg!Fairness /\ Hksv!Fairness

-----------------------------------------------------------------------------
(* What the parts beside the livestream promise, under the names they give it. *)

\* SIGKILL never hits a child that was not told to stop, and nobody waits for the
\* initialization segment of a child that is gone (start, configureProcess, awaitInitSegment).
ChildrenAgree == Ffmpeg!ChildrenAgree

\* Children that were told to stop go (stopProcess).
StoppedChildrenExit == Ffmpeg!StoppedChildrenExit

\* One FFmpeg process records, the delegate can stop it, and it is fed an initialization
\* segment first (startTransmitting, transmitStart).
RecordingsAgree == Hksv!RecordingsAgree

\* No recording hangs once it was closed or its FFmpeg is gone (segmentGenerator).
RecordingsEnd == Hksv!RecordingsEnd

\* Return audio and ports are held by sessions that list them, no two sessions hold a port
\* unless one that was cut short has cancelled it again, and HomeKit's start is answered at
\* most once (stopStream, startFfmpegProcess, reserve).
SessionsAgree == Streaming!SessionsAgree

\* One attempt is under way for each size, and a fallback has the time it needs
\* (pendingSnapshots, sourceBudget).
AttemptsAgree == Still!AttemptsAgree

=============================================================================
