-------------------------- MODULE StreamingDelegate --------------------------
(***************************************************************************)
(* Live streaming of one camera to HomeKit: sessions that are prepared,    *)
(* started and stopped (protect-stream.ts), their FFmpeg processes         *)
(* (lib/ffmpeg/stream.ts), the demuxer of a two-way session                *)
(* (lib/ffmpeg/rtp.ts) and its return audio (protect-talkback.ts).         *)
(*                                                                         *)
(* The sessions of all cameras share one RtpPortAllocator.  Of the ports a *)
(* session reserves one after the other, one reservation is followed: the  *)
(* pair of a two-way session, the single port of another one; the other    *)
(* ports are listed and cancelled with it.  Which stream a plan picks, and *)
(* how FFmpeg is called, is left out; whether it is fed from the           *)
(* livestream pool is not, since the pool makes it wait.                   *)
(***************************************************************************)
EXTENDS Naturals

CONSTANTS
    Sessions,       \* HomeKit's session identifiers
    TwoWay,         \* those that ask for two-way audio
    MaxPort,        \* bounds of the allocator
    MaxTries

VARIABLES
    preparing,          \* sessions whose ports are being reserved
    portsInUse, reserve, firstPort, attempts,   \* the allocator
    pendingSessions, ongoingSessions,
    starting,           \* starting[s]: where startStream is
    video, audio,       \* what became of the FFmpeg processes of a session
    registered,         \* registered[s]: those of them its ongoing entry lists
    callback,           \* sessions whose start FFmpeg still has to answer
    answers,            \* answers[s]: how often HomeKit's start was answered
    rtpDemuxer,         \* rtpDemuxer[s]: "none", "running" or "closed"
    heartbeatTimer,     \* sessions whose demuxer keeps FFmpeg awake
    streamTimeout,      \* sessions whose health timeout is set
    stopped,            \* sessions that HomeKit takes for stopped
    cutShort,           \* history: sessions that were stopped while their start waited
    lost                \* history: ports such a session cancelled a second time

Rtp == INSTANCE RtpPortAllocator WITH Reservations <- Sessions, Pairs <- TwoWay

portVars == <<portsInUse, reserve, firstPort, attempts>>
historyVars == <<cutShort, lost>>
sessionVars == <<preparing, portVars, pendingSessions, ongoingSessions, registered, historyVars>>
processVars == <<video, audio>>
demuxVars == <<rtpDemuxer, heartbeatTimer>>
answerVars == <<callback, answers>>
vars == <<sessionVars, starting, processVars, answerVars, demuxVars, streamTimeout, stopped>>

ProcessStates == {"none", "running", "told", "exited"}

TypeOK ==
    /\ preparing \subseteq Sessions /\ Rtp!TypeOK
    /\ pendingSessions \subseteq Sessions /\ ongoingSessions \subseteq Sessions
    /\ starting \in [Sessions -> {"none", "livestream", "return", "over"}]
    /\ video \in [Sessions -> ProcessStates] /\ audio \in [Sessions -> ProcessStates]
    /\ registered \in [Sessions -> SUBSET {"video", "audio"}]
    /\ callback \subseteq Sessions /\ answers \in [Sessions -> 0 .. 2]
    /\ rtpDemuxer \in [Sessions -> {"none", "running", "closed"}]
    /\ heartbeatTimer \subseteq Sessions /\ streamTimeout \subseteq Sessions
    /\ stopped \subseteq Sessions /\ cutShort \subseteq Sessions
    /\ lost \subseteq Rtp!Ports

Init ==
    /\ preparing = {} /\ Rtp!Init
    /\ pendingSessions = {} /\ ongoingSessions = {}
    /\ starting = [s \in Sessions |-> "none"]
    /\ video = [s \in Sessions |-> "none"] /\ audio = [s \in Sessions |-> "none"]
    /\ registered = [s \in Sessions |-> {}]
    /\ callback = {} /\ answers = [s \in Sessions |-> 0]
    /\ rtpDemuxer = [s \in Sessions |-> "none"]
    /\ heartbeatTimer = {} /\ streamTimeout = {}
    /\ stopped = {} /\ cutShort = {} /\ lost = {}

-----------------------------------------------------------------------------
(* Stopping a session.                                                     *)

\* A process that is running is told to stop.
Tell(process, s) == [process EXCEPT ![s] = IF @ = "running" THEN "told" ELSE @]

\* Deviation: a session that never started keeps its ports.
CancelsOngoing(s) == s \in ongoingSessions

\* The entry of a session is where its ports are listed, be it pending or ongoing.
CancelsPorts(s) == s \in pendingSessions \cup ongoingSessions

\* The demuxer's close: once, with its heartbeat.
CloseDemuxer(s) ==
    /\ rtpDemuxer' = [rtpDemuxer EXCEPT ![s] = IF @ = "running" THEN "closed" ELSE @]
    /\ heartbeatTimer' = heartbeatTimer \ {s}

\* The start of a session that waits for its livestream will list its ports again.
MarksCutShort(s) ==
    /\ cutShort' = IF s \in pendingSessions /\ starting[s] = "livestream"
                   THEN cutShort \cup {s} ELSE cutShort
    /\ lost' = IF s \in cutShort \cap ongoingSessions THEN lost \cup Rtp!Held(s) ELSE lost

\* stopStream, but for the processes: only an ongoing entry lists a demuxer.
EndSession(s) ==
    /\ IF s \in ongoingSessions THEN CloseDemuxer(s) ELSE UNCHANGED demuxVars
    /\ IF CancelsPorts(s) THEN Rtp!Cancel(s) ELSE UNCHANGED portVars
    /\ MarksCutShort(s)
    /\ pendingSessions' = pendingSessions \ {s}
    /\ ongoingSessions' = ongoingSessions \ {s}
    /\ registered' = [registered EXCEPT ![s] = {}]
    /\ UNCHANGED <<preparing, starting>>

StopVideo(s) ==
    /\ video' = IF "video" \in registered[s] THEN Tell(video, s) ELSE video
    /\ streamTimeout' = IF "video" \in registered[s] THEN streamTimeout \ {s} ELSE streamTimeout

StopAudio(s) == audio' = IF "audio" \in registered[s] THEN Tell(audio, s) ELSE audio

\* stopStream.  Only the processes an ongoing entry lists are told to stop.
StopStream(s) == EndSession(s) /\ StopVideo(s) /\ StopAudio(s)

\* HomeKit stops the session.
HomeKitStops(s) ==
    /\ s \notin stopped
    /\ s \in preparing \cup pendingSessions \cup ongoingSessions
    /\ StopStream(s)
    /\ stopped' = stopped \cup {s}
    /\ UNCHANGED answerVars

\* shutdown stops every ongoing session.
Shutdown(s) ==
    /\ s \in ongoingSessions
    /\ StopStream(s)
    /\ stopped' = stopped \cup {s}
    /\ UNCHANGED answerVars

-----------------------------------------------------------------------------
(* Preparing and starting a session.                                       *)

PrepareStream(s) ==
    /\ s \notin preparing \cup stopped /\ rtpDemuxer[s] = "none" /\ starting[s] = "none"
    /\ s \notin pendingSessions
    /\ preparing' = preparing \cup {s}
    /\ Rtp!Reserve(s)
    /\ UNCHANGED <<pendingSessions, ongoingSessions, registered, historyVars, starting, processVars,
                   answerVars, demuxVars, streamTimeout, stopped>>

PortSearched(s) ==
    /\ Rtp!Searches(s)
    /\ UNCHANGED <<preparing, pendingSessions, ongoingSessions, registered, historyVars, starting,
                   processVars, answerVars, demuxVars, streamTimeout, stopped>>

\* The ports are reserved, or could not be, which is only logged; a two-way session has
\* its demuxer.  The session is pending now, also one HomeKit has stopped meanwhile.
StreamPrepared(s) ==
    /\ s \in preparing /\ reserve[s] \in {"held", "failed"}
    /\ preparing' = preparing \ {s}
    /\ pendingSessions' = pendingSessions \cup {s}
    /\ rtpDemuxer' = IF s \in TwoWay THEN [rtpDemuxer EXCEPT ![s] = "running"] ELSE rtpDemuxer
    /\ UNCHANGED <<portVars, ongoingSessions, registered, historyVars, starting, processVars,
                   answerVars, heartbeatTimer, streamTimeout, stopped>>

\* No plan for the request: the camera is offline, or no stream fits.
StartRefused(s) ==
    /\ s \in pendingSessions \ stopped /\ starting[s] = "none"
    /\ starting' = [starting EXCEPT ![s] = "over"]
    /\ answers' = [answers EXCEPT ![s] = @ + 1]
    /\ UNCHANGED <<sessionVars, processVars, callback, demuxVars, streamTimeout, stopped>>

\* The pending session becomes an ongoing one, whatever happened to it in the meantime.
Enters(s) ==
    /\ ongoingSessions' = ongoingSessions \cup {s}
    /\ pendingSessions' = pendingSessions \ {s}
    /\ registered' = [registered EXCEPT ![s] = {"video"}]
    /\ starting' = [starting EXCEPT ![s] = IF s \in TwoWay THEN "return" ELSE "over"]
    /\ UNCHANGED <<preparing, portVars, historyVars>>

\* startStream: FFmpeg is spawned; from RTSP the session is ongoing at once, from the
\* livestream pool it first waits for the livestream.
StartStream(s) ==
    /\ s \in pendingSessions \ stopped /\ starting[s] = "none"
    /\ video' = [video EXCEPT ![s] = "running"]
    /\ callback' = callback \cup {s}
    /\ \/ Enters(s)
       \/ starting' = [starting EXCEPT ![s] = "livestream"] /\ UNCHANGED sessionVars
    /\ UNCHANGED <<audio, answers, demuxVars, streamTimeout, stopped>>

LivestreamStarts(s) ==
    /\ starting[s] = "livestream"
    /\ Enters(s)
    /\ UNCHANGED <<processVars, answerVars, demuxVars, streamTimeout, stopped>>

\* Without a livestream the start is given up; the session stays pending.
LivestreamFails(s) ==
    /\ starting[s] = "livestream"
    /\ starting' = [starting EXCEPT ![s] = "over"]
    /\ UNCHANGED <<sessionVars, processVars, answerVars, demuxVars, streamTimeout, stopped>>

-----------------------------------------------------------------------------
(* Return audio.                                                           *)

\* A demuxer that was closed ends the wait as a packet does.
IsRunning(s) == rtpDemuxer[s] = "running"

\* The wait for the first RTP packet is over: FFmpeg is spawned and, if there still is
\* an ongoing entry, registered.
ReturnAudio(s) ==
    /\ starting[s] = "return"
    /\ starting' = [starting EXCEPT ![s] = "over"]
    /\ IF IsRunning(s)
       THEN /\ audio' = [audio EXCEPT ![s] = "running"]
            /\ registered' = IF s \in ongoingSessions
                             THEN [registered EXCEPT ![s] = @ \cup {"audio"}] ELSE registered
       ELSE UNCHANGED <<audio, registered>>
    /\ UNCHANGED <<preparing, portVars, pendingSessions, ongoingSessions, historyVars, video,
                   answerVars, demuxVars, streamTimeout, stopped>>

\* An RTCP packet starts the heartbeat anew; each one sets up the next.
RtcpPacket(s) ==
    /\ rtpDemuxer[s] = "running" /\ s \notin heartbeatTimer
    /\ heartbeatTimer' = heartbeatTimer \cup {s}
    /\ UNCHANGED <<sessionVars, starting, processVars, answerVars, rtpDemuxer, streamTimeout, stopped>>

DemuxerFails(s) ==
    /\ rtpDemuxer[s] = "running"
    /\ CloseDemuxer(s)
    /\ UNCHANGED <<sessionVars, starting, processVars, answerVars, streamTimeout, stopped>>

-----------------------------------------------------------------------------
(* FFmpeg.                                                                 *)

\* A callback is called once.
ForgetsCallback(s) == callback' = callback \ {s}

\* The first output on stderr answers HomeKit.
FfmpegStarts(s) ==
    /\ video[s] = "running" /\ s \in callback
    /\ ForgetsCallback(s)
    /\ answers' = [answers EXCEPT ![s] = @ + 1]
    /\ UNCHANGED <<sessionVars, starting, processVars, demuxVars, streamTimeout, stopped>>

\* The error handler: the session stops; HomeKit gets an error for an answer if it had
\* none, and else is told that the session is over.
HandleError(s) ==
    IF s \in callback
    THEN /\ ForgetsCallback(s)
         /\ answers' = [answers EXCEPT ![s] = @ + 1]
         /\ UNCHANGED stopped
    ELSE stopped' = stopped \cup {s} /\ UNCHANGED answerVars

\* FFmpeg could not be spawned, or exits unexpectedly: its health socket goes as well.
VideoFails(s) ==
    /\ video[s] = "running"
    /\ EndSession(s) /\ StopAudio(s)
    /\ video' = [video EXCEPT ![s] = "exited"]
    /\ streamTimeout' = streamTimeout \ {s}
    /\ HandleError(s)

\* The return audio has no callback: HomeKit is told that the session is over.
AudioFails(s) ==
    /\ audio[s] = "running"
    /\ EndSession(s) /\ StopVideo(s)
    /\ audio' = [audio EXCEPT ![s] = "exited"]
    /\ stopped' = stopped \cup {s}
    /\ UNCHANGED answerVars

\* A process exits that was told to.
VideoExits(s) ==
    /\ video[s] = "told"
    /\ video' = [video EXCEPT ![s] = "exited"]
    /\ UNCHANGED <<sessionVars, starting, audio, answerVars, demuxVars, streamTimeout, stopped>>

AudioExits(s) ==
    /\ audio[s] = "told"
    /\ audio' = [audio EXCEPT ![s] = "exited"]
    /\ UNCHANGED <<sessionVars, starting, video, answerVars, demuxVars, streamTimeout, stopped>>

\* HomeKit's packets push the health timeout of a one-way session back.
HearsFromHomeKit(s) ==
    /\ s \notin TwoWay /\ video[s] = "running" /\ s \notin streamTimeout
    /\ streamTimeout' = streamTimeout \cup {s}
    /\ UNCHANGED <<sessionVars, starting, processVars, answerVars, demuxVars, stopped>>

\* No packet for five seconds: HomeKit is told that the session is over.
StreamIsSilent(s) ==
    /\ s \in streamTimeout
    /\ EndSession(s) /\ StopAudio(s)
    /\ video' = IF "video" \in registered[s] THEN Tell(video, s) ELSE video
    /\ streamTimeout' = streamTimeout \ {s}
    /\ stopped' = stopped \cup {s}
    /\ UNCHANGED answerVars

HealthSocketFails(s) ==
    /\ s \notin TwoWay /\ video[s] = "running"
    /\ StopStream(s)
    /\ UNCHANGED <<answerVars, stopped>>

Next == \E s \in Sessions :
    \/ PrepareStream(s) \/ PortSearched(s) \/ StreamPrepared(s)
    \/ StartRefused(s) \/ StartStream(s)
    \/ LivestreamStarts(s) \/ LivestreamFails(s) \/ ReturnAudio(s)
    \/ HomeKitStops(s) \/ Shutdown(s)
    \/ RtcpPacket(s) \/ DemuxerFails(s)
    \/ FfmpegStarts(s) \/ VideoFails(s) \/ VideoExits(s) \/ AudioFails(s) \/ AudioExits(s)
    \/ HearsFromHomeKit(s) \/ StreamIsSilent(s) \/ HealthSocketFails(s)

Spec == Init /\ [][Next]_vars

-----------------------------------------------------------------------------
(* What the delegate promises.                                             *)

\* Whatever a session holds is listed where its stop will find it.  Return audio that
\* runs is registered: a session that stops while the first packet is awaited starts
\* none, though closing the demuxer ends the wait (startReturnAudio, close).
ReturnAudioHasSession == \A s \in Sessions :
    audio[s] = "running" => s \in ongoingSessions /\ "audio" \in registered[s]

\* The sessions whose ports are theirs: a session that was stopped while its start waited
\* has given them back, and lists them all the same once its start goes on.
Holders == (preparing \cup pendingSessions \cup ongoingSessions) \ cutShort

\* Every port in use is one a session searches with or lists, whatever order prepare,
\* searches, start, failures and stop come in; the ports of a session are in use, and no
\* other session's.  Excepted are ports a session that was cut short has cancelled again,
\* when they may have been another session's (stopStream, startFfmpegProcess, _reserve).
PortsAreAccounted ==
    /\ portsInUse \subseteq UNION {Rtp!Held(s) : s \in Holders}
    /\ \A s \in Holders : Rtp!Held(s) \ lost \subseteq portsInUse
    /\ \A s, t \in Holders : s # t => Rtp!Held(s) \cap Rtp!Held(t) \subseteq lost

NothingIsLost == ReturnAudioHasSession /\ PortsAreAccounted

\* HomeKit's start is answered at most once, though a refusal, FFmpeg's output and its
\* failure may all answer it (planStream, configureProcess, the error handler).
AnsweredOnce == \A s \in Sessions : answers[s] <= 1

\* Nothing of a session is lost, and nothing of it is told twice.
SessionsAgree == NothingIsLost /\ AnsweredOnce

\* "Stop any FFmpeg instances we have running" (protect-stream.ts:1025): the FFmpeg of a
\* session that was stopped does not run on once the start of the session is over.
StoppedStreamsEnd == \A s \in stopped : starting[s] \in {"over", "return"} => video[s] # "running"

=============================================================================
