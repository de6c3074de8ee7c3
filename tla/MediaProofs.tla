----------------------------- MODULE MediaProofs -----------------------------
(***************************************************************************)
(* What the parts of a camera's media promise beside the livestream, for   *)
(* any number of children, recordings, sessions, ports, requests and       *)
(* sizes: each part's inductive invariant, and then the promise of the     *)
(* parts together, which the instances of MCMedia check.                   *)
(***************************************************************************)
EXTENDS MCMedia, ProtectLivestreamProofs

-----------------------------------------------------------------------------
(* FFmpeg processes.                                                       *)

\* A kill timer that is armed watches the child the object refers to, which was told to
\* stop, or none; and the object refers to no child that exited.
ChildrenInv ==
    /\ process \in Ffmpeg!Children \cup {Ffmpeg!NoChild}
    /\ spawned \in 0 .. MaxChildren
    /\ child \in [Ffmpeg!Children -> Ffmpeg!ChildStates]
    /\ told \in [Ffmpeg!Children -> BOOLEAN] /\ struck \in [Ffmpeg!Children -> BOOLEAN]
    /\ process # Ffmpeg!NoChild => child[process] # "exited"
    /\ killTimer = "armed" /\ process # Ffmpeg!NoChild => told[process]
    /\ ChildrenAgree

LEMMA FfmpegNextAgrees ==
    ASSUME ChildrenInv, [Ffmpeg!Next]_(Ffmpeg!vars)
    PROVE  ChildrenInv'
<1> USE DEF ChildrenInv, Ffmpeg!NoChild, Ffmpeg!Children, Ffmpeg!ChildStates,
            ChildrenAgree, Ffmpeg!ChildrenAgree, Ffmpeg!SparesReplacements,
            Ffmpeg!WaiterHasProcess, Ffmpeg!childVars, Ffmpeg!lifeVars, Ffmpeg!initVars
<1>1. CASE Ffmpeg!Start
  BY <1>1, FfmpegAssumption DEF Ffmpeg!Start, Ffmpeg!ClearsKillTimer
<1>2. ASSUME Ffmpeg!Stop
      PROVE  ChildrenInv'
  BY <1>2 DEF Ffmpeg!Stop, Ffmpeg!StopProcess, Ffmpeg!AbortsWait
<1>3. CASE Ffmpeg!KillTimerFires
  BY <1>3 DEF Ffmpeg!KillTimerFires
<1>4. CASE Ffmpeg!GetInitSegment
  BY <1>4 DEF Ffmpeg!GetInitSegment
<1>5. ASSUME NEW c \in Ffmpeg!Children, Ffmpeg!WritesStderr(c)
      PROVE  ChildrenInv'
  BY <1>5 DEF Ffmpeg!WritesStderr
<1>6. ASSUME NEW c \in Ffmpeg!Children, Ffmpeg!Fragment(c)
      PROVE  ChildrenInv'
  BY <1>6 DEF Ffmpeg!Fragment
<1>7. ASSUME NEW c \in Ffmpeg!Children, Ffmpeg!CorruptBox(c)
      PROVE  ChildrenInv'
  BY <1>7, <1>2 DEF Ffmpeg!CorruptBox
<1>8. ASSUME NEW c \in Ffmpeg!Children, Ffmpeg!FailsToSpawn(c)
      PROVE  ChildrenInv'
  BY <1>8 DEF Ffmpeg!FailsToSpawn
<1>9. ASSUME NEW c \in Ffmpeg!Children, Ffmpeg!Exits(c)
      PROVE  ChildrenInv'
  BY <1>9 DEF Ffmpeg!Exits, Ffmpeg!IsCurrent, Ffmpeg!AbortsWait
<1>10. CASE UNCHANGED Ffmpeg!vars
  BY <1>10 DEF Ffmpeg!vars
<1> QED
  BY <1>1, <1>2, <1>3, <1>4, <1>5, <1>6, <1>7, <1>8, <1>9, <1>10 DEF Ffmpeg!Next

\* SIGKILL strikes only children that were told to stop, and nobody waits for the output
\* of a child that is gone, however many children one object spawns and in whatever order
\* they are stopped, replaced and exit (start, stopProcess, configureProcess).
THEOREM ChildrenStayInAgreement == Ffmpeg!Spec => []ChildrenAgree
<1>1. Ffmpeg!Init => ChildrenInv
  BY FfmpegAssumption DEF Ffmpeg!Init, ChildrenInv, Ffmpeg!NoChild, Ffmpeg!ChildStates,
      Ffmpeg!Children, ChildrenAgree, Ffmpeg!ChildrenAgree, Ffmpeg!SparesReplacements, Ffmpeg!WaiterHasProcess
<1>2. ChildrenInv /\ [Ffmpeg!Next]_(Ffmpeg!vars) => ChildrenInv'
  BY FfmpegNextAgrees
<1>3. ChildrenInv => ChildrenAgree
  BY DEF ChildrenInv
<1> QED
  BY <1>1, <1>2, <1>3, PTL DEF Ffmpeg!Spec

-----------------------------------------------------------------------------
(* Snapshots.                                                              *)

\* An attempt that is under way is the pending one of its size; and as long as no URL is
\* configured, it has the reserve left for every source it may still try.
AttemptsInv ==
    /\ pendingSnapshots \in [Sizes -> Still!Attempts \cup {Still!NoAttempt}]
    /\ source \in [Still!Attempts -> Still!Sources \cup {"captured", "none"}]
    /\ sizeOf \in [Still!Attempts -> Sizes] /\ budget \in [Still!Attempts -> Nat]
    /\ \A a \in Still!Attempts :
        /\ source[a] # "none" => pendingSnapshots[sizeOf[a]] = a
        /\ source[a] = "url" => snapshotUrl
        /\ ~snapshotUrl /\ source[a] \in Still!Sources => budget[a] >= FallbackReserve

LEMMA AttemptNextAgrees ==
    ASSUME AttemptsInv, [Still!Next]_(Still!vars)
    PROVE  AttemptsInv'
<1> USE SnapshotAssumption DEF AttemptsInv, Still!NoAttempt, Still!Attempts, Still!Sources,
            Still!attemptVars, Still!cacheVars
<1>1. CASE Still!Happens
  BY <1>1 DEF Still!Happens
<1>2. CASE Still!Configure
  BY <1>2 DEF Still!Configure
<1>3. CASE Still!CacheAges
  BY <1>3 DEF Still!CacheAges
<1>4. ASSUME NEW c \in Requesters, Still!FallsBack(c)
      PROVE  AttemptsInv'
  BY <1>4 DEF Still!FallsBack, Still!LeavesPending
<1>5. ASSUME NEW c \in Requesters, NEW n \in Sizes, Still!Joins(c, n)
      PROVE  AttemptsInv'
  BY <1>5 DEF Still!Joins
<1>6. ASSUME NEW c \in Requesters, NEW n \in Sizes, NEW a \in Still!Attempts,
             Still!Begins(c, n, a)
      PROVE  AttemptsInv'
  BY <1>6 DEF Still!Begins
<1>7. ASSUME NEW a \in Still!Attempts, Still!Captures(a)
      PROVE  AttemptsInv'
  BY <1>7 DEF Still!Captures
<1>8. ASSUME NEW a \in Still!Attempts, Still!Misses(a)
      PROVE  AttemptsInv'
  <2>1. source' = [source EXCEPT ![a] = Still!NextSource(a)]
    BY <1>8 DEF Still!Misses
  <2>2. /\ Still!NextSource(a) \in Still!Sources \ {"url"}
        /\ source[a] \in Still!Sources \ {"last"}
    BY <1>8 DEF Still!Misses, Still!NextSource
  <2>3. PICK left \in Nat :
            /\ budget' = [budget EXCEPT ![a] = left]
            /\ source[a] # "url" /\ budget[a] >= FallbackReserve => left >= FallbackReserve
    BY <1>8 DEF Still!Misses, Still!MayUse, Still!SourceBudget
  <2>4. UNCHANGED <<snapshotUrl, pendingSnapshots, sizeOf>>
    BY <1>8 DEF Still!Misses
  <2> QED
    BY <2>1, <2>2, <2>3, <2>4
<1>9. ASSUME NEW a \in Still!Attempts, Still!Ends(a)
      PROVE  AttemptsInv'
  BY <1>9 DEF Still!Ends
<1>10. ASSUME NEW a \in Still!Attempts, Still!Stores(a) \/ Still!Fails(a)
      PROVE  AttemptsInv'
  BY <1>9, <1>10 DEF Still!Stores, Still!Fails
<1>11. CASE UNCHANGED Still!vars
  BY <1>11 DEF Still!vars
<1> QED
  BY <1>1, <1>2, <1>3, <1>4, <1>5, <1>6, <1>7, <1>8, <1>10, <1>11 DEF Still!Next

\* One attempt is under way for each size, whoever joins it or gives it up, and without a
\* configured URL the last source has its reserve, however slow those before it were
\* (getSnapshot, pendingSnapshots, sourceBudget).
THEOREM AttemptsStayInAgreement == Still!Spec => []AttemptsAgree
<1>1. Still!Init => AttemptsInv
  BY SnapshotAssumption DEF Still!Init, AttemptsInv, Still!NoAttempt, Still!Sources
<1>2. AttemptsInv /\ [Still!Next]_(Still!vars) => AttemptsInv'
  BY AttemptNextAgrees
<1>3. AttemptsInv => AttemptsAgree
  BY DEF AttemptsInv, AttemptsAgree, Still!AttemptsAgree, Still!OneAttemptPerSize,
         Still!FallbackGetsItsTurn, Still!Sources
<1> QED
  BY <1>1, <1>2, <1>3, PTL DEF Still!Spec

-----------------------------------------------------------------------------
(* Streaming sessions.                                                     *)

SessionTypes ==
    /\ starting \in [Sessions -> {"none", "livestream", "return", "over"}]
    /\ video \in [Sessions -> Streaming!ProcessStates]
    /\ audio \in [Sessions -> Streaming!ProcessStates]
    /\ registered \in [Sessions -> SUBSET {"video", "audio"}]
    /\ answers \in [Sessions -> Nat]
    /\ rtpDemuxer \in [Sessions -> {"none", "running", "closed"}]

\* A session whose start was not called yet is not ongoing, and nobody was promised an
\* answer; its ports are being reserved only until it is pending.
StartIsAhead == \A s \in Sessions :
    /\ s \in preparing => starting[s] = "none" /\ s \notin pendingSessions
    /\ starting[s] = "none" => answers[s] = 0 /\ s \notin callback /\ s \notin ongoingSessions

\* Whoever still has an answer to give gives the only one.
OneAnswer == \A s \in Sessions :
    /\ s \in callback => answers[s] = 0
    /\ answers[s] <= 1

\* A start that waits for return audio either has an ongoing session or finds its demuxer
\* closed; return audio that runs has an entry to stop it by.
ReturnIsHeld == \A s \in Sessions :
    /\ starting[s] = "return" /\ rtpDemuxer[s] = "running" => s \in ongoingSessions
    /\ audio[s] = "running" =>
        starting[s] = "over" /\ s \in ongoingSessions /\ "audio" \in registered[s]

\* A start that waits for its livestream has a pending session, or was cut short; and what
\* was cut short is pending no more.
CutShortWasStarted == \A s \in Sessions :
    /\ s \in cutShort => starting[s] # "none" /\ s \notin pendingSessions
    /\ starting[s] = "livestream" /\ s \notin pendingSessions => s \in cutShort

EntriesInv == SessionTypes /\ StartIsAhead /\ OneAnswer /\ ReturnIsHeld /\ CutShortWasStarted

LEMMA EntryNextAgrees ==
    ASSUME EntriesInv, [Streaming!Next]_(Streaming!vars)
    PROVE  EntriesInv'
<1> USE DEF EntriesInv, SessionTypes, StartIsAhead, OneAnswer, ReturnIsHeld, CutShortWasStarted,
            Streaming!ProcessStates, Streaming!sessionVars, Streaming!historyVars,
            Streaming!processVars, Streaming!demuxVars, Streaming!answerVars
<1>1. ASSUME NEW s \in Sessions,
             Streaming!PrepareStream(s) \/ Streaming!PortSearched(s) \/ Streaming!StreamPrepared(s)
      PROVE  EntriesInv'
  BY <1>1 DEF Streaming!PrepareStream, Streaming!PortSearched, Streaming!StreamPrepared
<1>2. ASSUME NEW s \in Sessions, Streaming!StartRefused(s)
      PROVE  EntriesInv'
  BY <1>2 DEF Streaming!StartRefused
<1>3. ASSUME NEW s \in Sessions, Streaming!StartStream(s)
      PROVE  EntriesInv'
  BY <1>3 DEF Streaming!StartStream, Streaming!Enters
<1>4. ASSUME NEW s \in Sessions, Streaming!LivestreamStarts(s) \/ Streaming!LivestreamFails(s)
      PROVE  EntriesInv'
  BY <1>4 DEF Streaming!LivestreamStarts, Streaming!LivestreamFails, Streaming!Enters
<1>5. ASSUME NEW s \in Sessions, Streaming!ReturnAudio(s)
      PROVE  EntriesInv'
  BY <1>5 DEF Streaming!ReturnAudio, Streaming!IsRunning
<1>6. ASSUME NEW s \in Sessions, Streaming!HomeKitStops(s) \/ Streaming!Shutdown(s)
      PROVE  EntriesInv'
  BY <1>6 DEF Streaming!HomeKitStops, Streaming!Shutdown, Streaming!StopStream,
              Streaming!EndSession, Streaming!MarksCutShort, Streaming!CloseDemuxer,
              Streaming!StopVideo, Streaming!StopAudio, Streaming!Tell
<1>7. ASSUME NEW s \in Sessions, Streaming!RtcpPacket(s) \/ Streaming!DemuxerFails(s)
      PROVE  EntriesInv'
  BY <1>7 DEF Streaming!RtcpPacket, Streaming!DemuxerFails, Streaming!CloseDemuxer
<1>8. ASSUME NEW s \in Sessions, Streaming!FfmpegStarts(s)
      PROVE  EntriesInv'
  BY <1>8 DEF Streaming!FfmpegStarts, Streaming!ForgetsCallback
<1>9. ASSUME NEW s \in Sessions, Streaming!VideoFails(s)
      PROVE  EntriesInv'
  BY <1>9 DEF Streaming!VideoFails, Streaming!EndSession, Streaming!MarksCutShort,
              Streaming!CloseDemuxer, Streaming!StopAudio, Streaming!Tell,
              Streaming!HandleError, Streaming!ForgetsCallback
<1>10. ASSUME NEW s \in Sessions, Streaming!AudioFails(s)
       PROVE  EntriesInv'
  BY <1>10 DEF Streaming!AudioFails, Streaming!EndSession, Streaming!MarksCutShort,
               Streaming!CloseDemuxer, Streaming!StopVideo, Streaming!Tell
<1>11. ASSUME NEW s \in Sessions, Streaming!VideoExits(s) \/ Streaming!AudioExits(s)
       PROVE  EntriesInv'
  BY <1>11 DEF Streaming!VideoExits, Streaming!AudioExits
<1>12. ASSUME NEW s \in Sessions, Streaming!HearsFromHomeKit(s)
       PROVE  EntriesInv'
  BY <1>12 DEF Streaming!HearsFromHomeKit
<1>13. ASSUME NEW s \in Sessions, Streaming!StreamIsSilent(s)
       PROVE  EntriesInv'
  BY <1>13 DEF Streaming!StreamIsSilent, Streaming!EndSession, Streaming!MarksCutShort,
               Streaming!CloseDemuxer, Streaming!StopAudio, Streaming!Tell
<1>14. ASSUME NEW s \in Sessions, Streaming!HealthSocketFails(s)
       PROVE  EntriesInv'
  BY <1>14 DEF Streaming!HealthSocketFails, Streaming!StopStream, Streaming!EndSession,
               Streaming!MarksCutShort, Streaming!CloseDemuxer, Streaming!StopVideo,
               Streaming!StopAudio, Streaming!Tell
<1>15. CASE UNCHANGED Streaming!vars
  BY <1>15 DEF Streaming!vars
<1> QED
  BY <1>1, <1>2, <1>3, <1>4, <1>5, <1>6, <1>7, <1>8, <1>9, <1>10, <1>11, <1>12, <1>13, <1>14,
     <1>15 DEF Streaming!Next

-----------------------------------------------------------------------------
(* The UDP ports of the sessions.                                          *)

\* What the allocator's TypeOK says, but for the tries, which nothing depends on.
PortTypeOK ==
    /\ portsInUse \subseteq Streaming!Rtp!Ports
    /\ reserve \in [Sessions -> {"idle", "first", "second", "held", "failed"}]
    /\ firstPort \in [Sessions -> Streaming!Rtp!Ports \cup {Streaming!Rtp!NoPort}]

\* A reservation has a first port exactly while it looks for a second one, of a pair, or
\* holds them; it looks for ports only while its session is prepared.
FirstPortIsHeld == \A s \in Sessions :
    /\ firstPort[s] # Streaming!Rtp!NoPort <=> reserve[s] \in {"second", "held"}
    /\ reserve[s] = "second" => s \in TwoWay
    /\ reserve[s] \in {"first", "second"} => s \in preparing

PortsInv == EntriesInv /\ PortTypeOK /\ FirstPortIsHeld /\ Streaming!PortsAreAccounted

\* Accounts are what they were if the ports and their holders are.
LEMMA NothingChanges ==
    ASSUME PortTypeOK, FirstPortIsHeld, Streaming!PortsAreAccounted,
           UNCHANGED Streaming!portVars, UNCHANGED lost, Streaming!Holders' = Streaming!Holders,
           \A s \in Sessions : s \in preparing => s \in preparing' \/ reserve[s] \in {"held", "failed"}
    PROVE  PortTypeOK' /\ FirstPortIsHeld' /\ Streaming!PortsAreAccounted'
<1>1. PortTypeOK' /\ FirstPortIsHeld'
  BY DEF PortTypeOK, FirstPortIsHeld, Streaming!portVars
<1>2. \A s : Streaming!Rtp!Held(s)' = Streaming!Rtp!Held(s)
  BY DEF Streaming!Rtp!Held, Streaming!portVars
<1> QED
  BY <1>1, <1>2 DEF Streaming!PortsAreAccounted, Streaming!portVars

\* Who is given a port that is not in use shares it with nobody, but for lost ones.
LEMMA TakesUnused ==
    ASSUME Streaming!PortsAreAccounted, NEW s \in Streaming!Holders,
           NEW port, port \notin portsInUse, portsInUse' = portsInUse \cup {port},
           Streaming!Holders' = Streaming!Holders, lost' = lost,
           Streaming!Rtp!Held(s)' = Streaming!Rtp!Held(s) \cup {port},
           \A t : t # s => Streaming!Rtp!Held(t)' = Streaming!Rtp!Held(t)
    PROVE  Streaming!PortsAreAccounted'
<1> DEFINE held(t) == Streaming!Rtp!Held(t)
<1>1. \A t \in Streaming!Holders : port \in held(t) => port \in lost
  BY DEF Streaming!PortsAreAccounted
<1>2. \A t \in Streaming!Holders : held(t) \ lost \subseteq portsInUse
  BY DEF Streaming!PortsAreAccounted
<1>3. \A t, u \in Streaming!Holders : t # u => held(t) \cap held(u) \subseteq lost
  BY DEF Streaming!PortsAreAccounted
<1>4. portsInUse' \subseteq UNION {held(t)' : t \in Streaming!Holders'}
  <2>1. ASSUME NEW p \in portsInUse'
        PROVE  \E t \in Streaming!Holders : p \in held(t)'
    <3>1. CASE p = port
      BY <3>1
    <3>2. CASE p \in portsInUse
      <4>1. PICK t \in Streaming!Holders : p \in held(t)
        BY <3>2 DEF Streaming!PortsAreAccounted
      <4> QED
        BY <4>1
    <3> QED
      BY <3>1, <3>2
  <2> QED
    BY <2>1
<1>5. \A t \in Streaming!Holders' : held(t)' \ lost' \subseteq portsInUse'
  BY <1>2
<1>6. \A t, u \in Streaming!Holders' : t # u => held(t)' \cap held(u)' \subseteq lost'
  BY <1>1, <1>3
<1> QED
  BY <1>4, <1>5, <1>6 DEF Streaming!PortsAreAccounted

\* Who gives its ports back leaves the others theirs, but for lost ones.
LEMMA GivesBack ==
    ASSUME Streaming!PortsAreAccounted, NEW s \in Streaming!Holders,
           portsInUse' = portsInUse \ Streaming!Rtp!Held(s), lost' = lost,
           \/ Streaming!Holders' = Streaming!Holders \ {s}
           \/ Streaming!Holders' = Streaming!Holders /\ Streaming!Rtp!Held(s)' = {},
           \A t : t # s => Streaming!Rtp!Held(t)' = Streaming!Rtp!Held(t)
    PROVE  Streaming!PortsAreAccounted'
<1> DEFINE held(t) == Streaming!Rtp!Held(t)
<1>1. \A t \in Streaming!Holders : held(t) \ lost \subseteq portsInUse
  BY DEF Streaming!PortsAreAccounted
<1>2. \A t, u \in Streaming!Holders : t # u => held(t) \cap held(u) \subseteq lost
  BY DEF Streaming!PortsAreAccounted
<1>3. portsInUse' \subseteq UNION {held(t)' : t \in Streaming!Holders'}
  <2>1. ASSUME NEW p \in portsInUse'
        PROVE  \E t \in Streaming!Holders' : p \in held(t)'
    <3>1. PICK t \in Streaming!Holders : p \in held(t)
      BY <2>1 DEF Streaming!PortsAreAccounted
    <3>2. t # s
      BY <2>1, <3>1
    <3> QED
      BY <3>1, <3>2
  <2> QED
    BY <2>1
<1>4. \A t \in Streaming!Holders' : held(t)' \ lost' \subseteq portsInUse'
  BY <1>1, <1>2
<1>5. \A t, u \in Streaming!Holders' : t # u => held(t)' \cap held(u)' \subseteq lost'
  BY <1>2
<1> QED
  BY <1>3, <1>4, <1>5 DEF Streaming!PortsAreAccounted

\* Every search keeps the accounts: a session that searches is a holder.
LEMMA SearchAccounts ==
    ASSUME PortsInv, NEW s \in Sessions, Streaming!PortSearched(s)
    PROVE  PortTypeOK' /\ FirstPortIsHeld' /\ Streaming!PortsAreAccounted'
<1> DEFINE held(t) == Streaming!Rtp!Held(t)
<1>1. Streaming!Holders' = Streaming!Holders /\ lost' = lost /\ preparing' = preparing
  BY DEF Streaming!PortSearched, Streaming!Holders, Streaming!historyVars
<1>2. ASSUME reserve[s] \in {"first", "second"}
      PROVE  s \in Streaming!Holders
  BY <1>2 DEF PortsInv, FirstPortIsHeld, EntriesInv, StartIsAhead, CutShortWasStarted, Streaming!Holders
<1>3. CASE Streaming!Rtp!FirstPort(s)
  <2>1. PICK port \in Streaming!Rtp!Ports \ portsInUse :
            portsInUse' = portsInUse \cup {port} /\ firstPort' = [firstPort EXCEPT ![s] = port]
    BY <1>3 DEF Streaming!Rtp!FirstPort
  <2>2. port # Streaming!Rtp!NoPort
    BY DEF Streaming!Rtp!Ports, Streaming!Rtp!NoPort
  <2>3. PortTypeOK' /\ FirstPortIsHeld'
    BY <1>1, <1>3, <2>1, <2>2 DEF Streaming!Rtp!FirstPort, PortsInv, PortTypeOK, FirstPortIsHeld
  <2>4. held(s) = {} /\ held(s)' = {port}
    BY <1>3, <2>1, <2>2 DEF Streaming!Rtp!FirstPort, Streaming!Rtp!Held, PortsInv, PortTypeOK, FirstPortIsHeld
  <2>5. \A t : t # s => held(t)' = held(t)
    BY <1>3, <2>1 DEF Streaming!Rtp!FirstPort, Streaming!Rtp!Held, PortsInv, PortTypeOK
  <2>6. s \in Streaming!Holders
    BY <1>2, <1>3 DEF Streaming!Rtp!FirstPort
  <2> QED
    BY <1>1, <2>1, <2>3, <2>4, <2>5, <2>6, TakesUnused DEF PortsInv
<1>4. CASE Streaming!Rtp!SecondPort(s)
  <2> DEFINE port == firstPort[s] + 1
  <2>1. PortTypeOK' /\ FirstPortIsHeld'
    BY <1>1, <1>4 DEF Streaming!Rtp!SecondPort, Streaming!Rtp!Available, PortsInv, PortTypeOK, FirstPortIsHeld
  <2>2. /\ s \in TwoWay /\ firstPort[s] \in Streaming!Rtp!Ports
        /\ port \notin portsInUse /\ portsInUse' = portsInUse \cup {port}
    BY <1>4 DEF Streaming!Rtp!SecondPort, Streaming!Rtp!Available, PortsInv, PortTypeOK, FirstPortIsHeld
  <2>3. held(s) = {firstPort[s]} /\ held(s)' = {firstPort[s], port}
    BY <1>4, <2>2 DEF Streaming!Rtp!SecondPort, Streaming!Rtp!Held, Streaming!Rtp!Ports,
                      Streaming!Rtp!NoPort, PortsInv, PortTypeOK
  <2>4. \A t : t # s => held(t)' = held(t)
    BY <1>4 DEF Streaming!Rtp!SecondPort, Streaming!Rtp!Held, PortsInv, PortTypeOK
  <2>5. s \in Streaming!Holders
    BY <1>2, <1>4 DEF Streaming!Rtp!SecondPort
  <2>6. held(s)' = held(s) \cup {port}
    BY <2>3
  <2> HIDE DEF port
  <2> QED
    BY <1>1, <2>1, <2>2, <2>4, <2>5, <2>6, TakesUnused DEF PortsInv
<1>5. CASE Streaming!Rtp!TriesAgain(s)
  <2>1. PortTypeOK' /\ FirstPortIsHeld'
    BY <1>1, <1>5 DEF Streaming!Rtp!TriesAgain, Streaming!Rtp!CancelsFirst, PortsInv, PortTypeOK, FirstPortIsHeld
  <2>2. held(s) = {firstPort[s]} \ {Streaming!Rtp!NoPort} /\ held(s)' = {}
    BY <1>5 DEF Streaming!Rtp!TriesAgain, Streaming!Rtp!Held, PortsInv, PortTypeOK
  <2>3. \A t : t # s => held(t)' = held(t)
    BY <1>5 DEF Streaming!Rtp!TriesAgain, Streaming!Rtp!Held, PortsInv, PortTypeOK
  <2>4. Streaming!Rtp!NoPort \notin portsInUse
    BY DEF PortsInv, PortTypeOK, Streaming!Rtp!Ports, Streaming!Rtp!NoPort
  <2>5. portsInUse' = portsInUse \ held(s)
    BY <1>5, <2>2, <2>4 DEF Streaming!Rtp!TriesAgain, Streaming!Rtp!CancelsFirst
  <2>6. s \in Streaming!Holders
    BY <1>2, <1>5 DEF Streaming!Rtp!TriesAgain
  <2> QED
    BY <1>1, <2>1, <2>2, <2>3, <2>5, <2>6, GivesBack DEF PortsInv
<1> QED
  BY <1>3, <1>4, <1>5 DEF Streaming!PortSearched, Streaming!Rtp!Searches

\* However a session ends: its ports are given back, or were before and are lost for those
\* who have them now.
LEMMA EndAccounts ==
    ASSUME PortsInv, NEW s \in Sessions, Streaming!EndSession(s)
    PROVE  PortTypeOK' /\ FirstPortIsHeld' /\ Streaming!PortsAreAccounted'
<1> DEFINE held(t) == Streaming!Rtp!Held(t)
<1> USE DEF Streaming!EndSession, Streaming!MarksCutShort, Streaming!CancelsPorts
<1>1. s \in preparing => s \notin pendingSessions \cup ongoingSessions
  BY DEF PortsInv, EntriesInv, StartIsAhead
<1>2. s \in cutShort => s \notin pendingSessions
  BY DEF PortsInv, EntriesInv, CutShortWasStarted
<1>3. UNCHANGED <<preparing, reserve, firstPort>>
  BY DEF Streaming!portVars, Streaming!Rtp!Cancel
<1>4. \A t : held(t)' = held(t)
  BY <1>3 DEF Streaming!Rtp!Held
<1>5. PortTypeOK' /\ FirstPortIsHeld'
  BY <1>3 DEF PortsInv, PortTypeOK, FirstPortIsHeld, Streaming!portVars, Streaming!Rtp!Cancel
<1>6. CASE s \notin pendingSessions \cup ongoingSessions
  <2>1. Streaming!Holders' = Streaming!Holders /\ UNCHANGED <<portsInUse, lost>>
    BY <1>3, <1>6 DEF Streaming!Holders, Streaming!portVars
  <2> QED
    BY <1>4, <1>5, <2>1 DEF PortsInv, Streaming!PortsAreAccounted
<1>7. CASE s \in pendingSessions \cup ongoingSessions /\ s \notin cutShort
  <2>1. s \in Streaming!Holders /\ Streaming!Holders' = Streaming!Holders \ {s}
    BY <1>1, <1>3, <1>7 DEF Streaming!Holders
  <2>2. portsInUse' = portsInUse \ held(s) /\ lost' = lost
    BY <1>7 DEF Streaming!Rtp!Cancel
  <2> QED
    BY <1>4, <1>5, <2>1, <2>2, GivesBack DEF PortsInv
<1>8. CASE s \in ongoingSessions /\ s \in cutShort
  <2>1. Streaming!Holders' = Streaming!Holders
    BY <1>2, <1>3, <1>8 DEF Streaming!Holders
  <2>2. portsInUse' = portsInUse \ held(s) /\ lost' = lost \cup held(s)
    BY <1>8 DEF Streaming!Rtp!Cancel
  <2>3. Streaming!PortsAreAccounted'
    BY <1>4, <2>1, <2>2 DEF PortsInv, Streaming!PortsAreAccounted
  <2> QED
    BY <1>5, <2>3
<1> QED
  BY <1>2, <1>6, <1>7, <1>8

LEMMA PortNextAccounts ==
    ASSUME PortsInv, [Streaming!Next]_(Streaming!vars)
    PROVE  PortsInv'
<1> USE DEF Streaming!sessionVars, Streaming!historyVars
<1>1. EntriesInv'
  BY EntryNextAgrees DEF PortsInv
<1> DEFINE Accounts == PortTypeOK /\ FirstPortIsHeld /\ Streaming!PortsAreAccounted
           Keeps == /\ UNCHANGED <<Streaming!portVars, lost>>
                    /\ Streaming!Holders' = Streaming!Holders
                    /\ \A s \in Sessions : s \in preparing =>
                            s \in preparing' \/ reserve[s] \in {"held", "failed"}
<1>2. ASSUME Keeps
      PROVE  Accounts'
  BY <1>2, NothingChanges DEF PortsInv
<1>3. ASSUME NEW s \in Sessions, Streaming!PrepareStream(s)
      PROVE  Accounts'
  <2>1. /\ reserve[s] = "idle" /\ reserve' = [reserve EXCEPT ![s] = "first"]
        /\ UNCHANGED <<portsInUse, firstPort, lost, cutShort, pendingSessions, ongoingSessions>>
        /\ preparing' = preparing \cup {s}
    BY <1>3 DEF Streaming!PrepareStream, Streaming!Rtp!Reserve
  <2>2. PortTypeOK' /\ FirstPortIsHeld'
    BY <2>1 DEF PortsInv, PortTypeOK, FirstPortIsHeld
  <2>3. \A t : Streaming!Rtp!Held(t)' = Streaming!Rtp!Held(t)
    BY <2>1 DEF PortsInv, PortTypeOK, Streaming!Rtp!Held
  <2>4. Streaming!Rtp!Held(s) = {}
    BY <2>1 DEF PortsInv, FirstPortIsHeld, Streaming!Rtp!Held
  <2>5. Streaming!Holders' \in {Streaming!Holders, Streaming!Holders \cup {s}}
    BY <2>1 DEF Streaming!Holders
  <2>6. Streaming!PortsAreAccounted'
    BY <2>1, <2>3, <2>4, <2>5 DEF PortsInv, Streaming!PortsAreAccounted
  <2> QED
    BY <2>2, <2>6
<1>4. ASSUME NEW s \in Sessions, Streaming!PortSearched(s)
      PROVE  Accounts'
  BY <1>4, SearchAccounts
<1>5. ASSUME NEW s \in Sessions, Streaming!StreamPrepared(s)
      PROVE  Accounts'
  <2>1. Keeps
    BY <1>5 DEF Streaming!StreamPrepared, Streaming!Holders
  <2> QED
    BY <1>2, <2>1
<1>6. ASSUME NEW s \in Sessions, Streaming!StartStream(s) \/ Streaming!LivestreamStarts(s)
      PROVE  Accounts'
  <2>1. Streaming!Holders' = Streaming!Holders
    BY <1>6 DEF Streaming!StartStream, Streaming!LivestreamStarts, Streaming!Enters,
                Streaming!Holders, PortsInv, EntriesInv, CutShortWasStarted
  <2>2. UNCHANGED <<Streaming!portVars, lost, preparing>>
    BY <1>6 DEF Streaming!StartStream, Streaming!LivestreamStarts, Streaming!Enters
  <2> QED
    BY <1>2, <2>1, <2>2
<1>7. ASSUME NEW s \in Sessions, Streaming!ReturnAudio(s)
      PROVE  Accounts'
  <2>1. Keeps
    BY <1>7 DEF Streaming!ReturnAudio, Streaming!Holders
  <2> QED
    BY <1>2, <2>1
<1>8. ASSUME NEW s \in Sessions, Streaming!EndSession(s)
      PROVE  Accounts'
  BY <1>8, EndAccounts
<1>9. ASSUME UNCHANGED Streaming!sessionVars
      PROVE  Accounts'
  <2>1. Keeps
    BY <1>9 DEF Streaming!Holders
  <2> QED
    BY <1>2, <2>1
<1>10. ASSUME NEW s \in Sessions,
              \/ Streaming!HomeKitStops(s) \/ Streaming!Shutdown(s) \/ Streaming!VideoFails(s)
              \/ Streaming!AudioFails(s) \/ Streaming!StreamIsSilent(s)
              \/ Streaming!HealthSocketFails(s)
       PROVE  Accounts'
  <2>1. Streaming!EndSession(s)
    BY <1>10 DEF Streaming!HomeKitStops, Streaming!Shutdown, Streaming!VideoFails,
                 Streaming!AudioFails, Streaming!StreamIsSilent, Streaming!HealthSocketFails,
                 Streaming!StopStream
  <2> QED
    BY <1>8, <2>1
<1>11. ASSUME NEW s \in Sessions,
              \/ Streaming!StartRefused(s) \/ Streaming!LivestreamFails(s)
              \/ Streaming!RtcpPacket(s) \/ Streaming!DemuxerFails(s) \/ Streaming!FfmpegStarts(s)
              \/ Streaming!VideoExits(s) \/ Streaming!AudioExits(s) \/ Streaming!HearsFromHomeKit(s)
       PROVE  Accounts'
  <2>1. UNCHANGED Streaming!sessionVars
    BY <1>11 DEF Streaming!StartRefused, Streaming!LivestreamFails, Streaming!RtcpPacket,
                 Streaming!DemuxerFails, Streaming!FfmpegStarts, Streaming!VideoExits,
                 Streaming!AudioExits, Streaming!HearsFromHomeKit
  <2> QED
    BY <1>9, <2>1
<1>12. ASSUME UNCHANGED Streaming!vars
       PROVE  Accounts'
  BY <1>9, <1>12 DEF Streaming!vars
<1> HIDE DEF Accounts, Keeps
<1>13. Accounts'
  BY <1>3, <1>4, <1>5, <1>6, <1>7, <1>10, <1>11, <1>12 DEF Streaming!Next
<1> QED
  BY <1>1, <1>13 DEF Accounts, PortsInv

LEMMA PortsAlways == Streaming!Spec => []PortsInv
<1>1. Streaming!Init => PortsInv
  BY DEF Streaming!Init, Streaming!Rtp!Init, PortsInv, EntriesInv, SessionTypes, StartIsAhead,
         OneAnswer, ReturnIsHeld, CutShortWasStarted, PortTypeOK, FirstPortIsHeld,
         Streaming!PortsAreAccounted, Streaming!Holders, Streaming!ProcessStates
<1>2. PortsInv /\ [Streaming!Next]_(Streaming!vars) => PortsInv'
  BY PortNextAccounts
<1> QED
  BY <1>1, <1>2, PTL DEF Streaming!Spec

\* Every port in use is one a session searches with or lists, the ports of a session are
\* in use, and no two sessions share one, however many are prepared, search for ports,
\* start, fail and are stopped at the same time; but for ports that a session cancelled a
\* second time, because it had been stopped while its start waited for the livestream
\* (_reserve, cancel, startFfmpegProcess, stopStream).
THEOREM PortsStayAccounted == Streaming!Spec => []Streaming!PortsAreAccounted
<1>1. PortsInv => Streaming!PortsAreAccounted
  BY DEF PortsInv
<1> QED
  BY <1>1, PortsAlways, PTL

\* Return audio that runs belongs to a session that lists it, HomeKit's start is answered at
\* most once, and the ports are accounted for as above, for any sessions that are prepared,
\* started, stopped and fail in any order (startStream, startReturnAudio, stopStream).
THEOREM SessionsStayInAgreement == Streaming!Spec => []SessionsAgree
<1>1. PortsInv => SessionsAgree
  BY DEF PortsInv, EntriesInv, OneAnswer, ReturnIsHeld, SessionsAgree, Streaming!SessionsAgree,
         Streaming!NothingIsLost, Streaming!ReturnAudioHasSession, Streaming!AnsweredOnce
<1> QED
  BY <1>1, PortsAlways, PTL

-----------------------------------------------------------------------------
(* Recordings.                                                             *)

\* The one FFmpeg process that runs is the delegate's, and was fed when it was started.
RecordingsInv ==
    /\ ffmpeg \in [Hksv!Requests -> {"none", "running", "exited", "told"}]
    /\ fed \in [Hksv!Requests -> {"nothing", "init", "bare"}]
    /\ ffmpegStream \in Hksv!Requests \cup {Hksv!NoRequest}
    /\ \A r \in Hksv!Requests : ffmpeg[r] = "running" => fed[r] # "nothing"
    /\ RecordingsAgree

\* Steps of the buffer and of the generator send nothing and start nothing.
LEMMA OthersKeepRecorder ==
    ASSUME RecordingsInv, UNCHANGED <<ffmpeg, fed, ffmpegStream, attached, transmitListener>>
    PROVE  RecordingsInv'
BY DEF RecordingsInv, RecordingsAgree, Hksv!RecordingsAgree, Hksv!OneRecorder,
       Hksv!FedFromTheStart, Hksv!Requests, Hksv!NoRequest

LEMMA StopKeepsRecorder ==
    ASSUME RecordingsInv, Hksv!StopTransmitting, UNCHANGED fed
    PROVE  RecordingsInv'
BY DEF RecordingsInv, RecordingsAgree, Hksv!RecordingsAgree, Hksv!OneRecorder,
       Hksv!FedFromTheStart, Hksv!Requests, Hksv!NoRequest, Hksv!StopTransmitting, Hksv!StopsPrior

\* A request's answer begins the next recording with an initialization segment, or
\* leaves none.
LEMMA AnswerKeepsRecorder ==
    ASSUME RecordingsInv, NEW r \in Hksv!Requests, Hksv!Answer(r, isInitialized)
    PROVE  RecordingsInv'
<1>1. CASE Hksv!DeclineAtOnce(r)
  BY <1>1, StopKeepsRecorder, OthersKeepRecorder DEF Hksv!DeclineAtOnce, Hksv!sendVars
<1>2. CASE Hksv!StartTransmitting(r)
  BY <1>2 DEF RecordingsInv, RecordingsAgree, Hksv!RecordingsAgree, Hksv!OneRecorder,
       Hksv!FedFromTheStart, Hksv!Requests, Hksv!NoRequest, Hksv!StartTransmitting,
       Hksv!StopsPrior, Hksv!SendsFirst
<1>3. CASE Hksv!TransmitStartFails(r)
  BY <1>3 DEF RecordingsInv, RecordingsAgree, Hksv!RecordingsAgree, Hksv!OneRecorder,
       Hksv!FedFromTheStart, Hksv!Requests, Hksv!NoRequest, Hksv!TransmitStartFails,
       Hksv!StopsPrior
<1> QED
  BY <1>1, <1>2, <1>3 DEF Hksv!Answer

LEMMA RecordingNextAgrees ==
    ASSUME RecordingsInv, [Hksv!Next]_(Hksv!vars)
    PROVE  RecordingsInv'
<1> USE DEF Hksv!sendVars
<1>1. CASE Hksv!Deactivate \/ Hksv!Unconfigure
  BY <1>1, OthersKeepRecorder DEF Hksv!Deactivate, Hksv!Unconfigure
<1>2. ASSUME NEW u \in Hksv!Updates,
             \/ Hksv!UpdateRecordingActive(u) \/ Hksv!UpdateWaits(u) \/ Hksv!UpdateEnds(u)
             \/ \E e \in Entries : Hksv!UpdateRecordingConfiguration(u, e)
      PROVE  RecordingsInv'
  BY <1>2, OthersKeepRecorder DEF Hksv!UpdateRecordingActive, Hksv!UpdateWaits,
       Hksv!UpdateEnds, Hksv!UpdateRecordingConfiguration
<1>3. ASSUME NEW e \in Entries, Hksv!InitArrives(e) \/ Hksv!InitIsLost(e)
      PROVE  RecordingsInv'
  BY <1>3, OthersKeepRecorder DEF Hksv!InitArrives, Hksv!InitIsLost
<1>4. ASSUME NEW e \in Entries, Hksv!Segment(e)
      PROVE  RecordingsInv'
  <2>1. fed' = fed
    BY <1>4 DEF RecordingsInv, Hksv!Segment, Hksv!FirstFed, Hksv!Requests, Hksv!NoRequest
  <2> QED
    BY <1>4, <2>1, OthersKeepRecorder DEF Hksv!Segment
<1>5. ASSUME NEW r \in Hksv!Requests,
             Hksv!RequestPrepares(r) \/ Hksv!RequestWaits(r) \/ Hksv!RequestPrepared(r)
      PROVE  RecordingsInv'
  BY <1>5, OthersKeepRecorder DEF Hksv!RequestPrepares, Hksv!RequestWaits, Hksv!RequestPrepared
<1>6. ASSUME NEW r \in Hksv!Requests, Hksv!RequestAnswered(r) \/ Hksv!RequestResumes(r)
      PROVE  RecordingsInv'
  BY <1>6, AnswerKeepsRecorder DEF Hksv!RequestAnswered, Hksv!RequestResumes
<1>7. ASSUME NEW r \in Hksv!Requests, Hksv!CloseRecordingStream(r)
      PROVE  RecordingsInv'
  BY <1>7, StopKeepsRecorder DEF Hksv!CloseRecordingStream
<1>8. ASSUME NEW r \in Hksv!Requests, Hksv!FfmpegEnds(r)
      PROVE  RecordingsInv'
  BY <1>8 DEF Hksv!FfmpegEnds, RecordingsInv, RecordingsAgree, Hksv!RecordingsAgree,
       Hksv!OneRecorder, Hksv!FedFromTheStart, Hksv!Requests, Hksv!NoRequest
<1>9. ASSUME NEW r \in Hksv!Requests,
             \/ Hksv!FfmpegProduces(r) \/ Hksv!GeneratorWaits(r) \/ Hksv!GeneratorSends(r)
             \/ Hksv!GeneratorEnds(r) \/ Hksv!GeneratorTimesOut(r) \/ Hksv!SendsLast(r)
      PROVE  RecordingsInv'
  BY <1>9, OthersKeepRecorder DEF Hksv!FfmpegProduces, Hksv!GeneratorWaits,
       Hksv!GeneratorSends, Hksv!GeneratorEnds, Hksv!GeneratorTimesOut, Hksv!SendsLast,
       Hksv!GoesOn
<1>10. CASE UNCHANGED Hksv!vars
  BY <1>10, OthersKeepRecorder DEF Hksv!vars
<1> QED
  BY <1>1, <1>2, <1>3, <1>4, <1>5, <1>6, <1>7, <1>8, <1>9, <1>10 DEF Hksv!Next

\* One FFmpeg process records at a time, it is the one the delegate can stop, one listener
\* feeds it, and it is fed an initialization segment first, for any number of recordings
\* and any interleaving with starts, stops and reconfigurations of the timeshift buffer
\* (startTransmitting, stopTransmitting, transmitStart).
THEOREM RecordingsStayInAgreement == Hksv!Spec => []RecordingsAgree
<1>1. Hksv!Init => RecordingsInv
  BY DEF Hksv!Init, RecordingsInv, RecordingsAgree, Hksv!RecordingsAgree, Hksv!OneRecorder,
         Hksv!FedFromTheStart
<1>2. RecordingsInv /\ [Hksv!Next]_(Hksv!vars) => RecordingsInv'
  BY RecordingNextAgrees
<1>3. RecordingsInv => RecordingsAgree
  BY DEF RecordingsInv
<1> QED
  BY <1>1, <1>2, <1>3, PTL DEF Hksv!Spec

-----------------------------------------------------------------------------
(* The parts together.                                                     *)

\* A behaviour of the parts is a behaviour of each of them, so MCMedia checks what the
\* theorems above say, on one small instance.
LEMMA PartsAreBehaviours ==
    PartsSpec =>
        Spec /\ Ffmpeg!Spec /\ Hksv!Spec /\ Streaming!Spec /\ Still!Spec
<1> USE DEF LivestreamSteps, FfmpegSteps, RecordingSteps, StreamingSteps, SnapshotSteps
<1>1. PartsInit => Init /\ Ffmpeg!Init /\ Hksv!Init /\ Streaming!Init /\ Still!Init
  BY DEF PartsInit
<1>2. [PartsNext]_partsVars => [Ffmpeg!Next]_(Ffmpeg!vars)
  BY DEF PartsNext, partsVars, ffmpegVars, Ffmpeg!vars, Ffmpeg!childVars, Ffmpeg!lifeVars,
         Ffmpeg!initVars
<1>3. [PartsNext]_partsVars => [Hksv!Next]_(Hksv!vars)
  BY DEF PartsNext, partsVars, recordingVars, Hksv!vars, Hksv!configVars, Hksv!bufferVars,
         Hksv!startVars, Hksv!sendVars, Hksv!generatorVars
<1>4. [PartsNext]_partsVars => [Streaming!Next]_(Streaming!vars)
  BY DEF PartsNext, partsVars, streamingVars, Streaming!vars, Streaming!sessionVars,
         Streaming!processVars, Streaming!answerVars, Streaming!demuxVars,
         Streaming!portVars, Streaming!historyVars
<1>5. [PartsNext]_partsVars => [Still!Next]_(Still!vars)
  BY DEF PartsNext, partsVars, snapshotVars, Still!vars, Still!attemptVars, Still!cacheVars
<1>6. [PartsNext]_partsVars => [Next /\ UNCHANGED overlapping]_<<overlapping, vars>>
  BY DEF PartsNext, partsVars, livestreamVars, vars, initVars, socketVars, beatVars
<1> QED
  BY <1>1, <1>2, <1>3, <1>4, <1>5, <1>6, PTL
  DEF PartsSpec, Spec, Ffmpeg!Spec, Hksv!Spec, Streaming!Spec, Still!Spec

\* Whatever one camera streams, records and takes pictures of, its children, recordings,
\* sessions, ports and attempts stay in agreement, and nobody waits for a livestream's
\* initialization segment that no session can bring.
THEOREM MediaStaysInAgreement ==
    PartsSpec => [](/\ WaiterHasSession /\ ChildrenAgree /\ RecordingsAgree
                    /\ SessionsAgree /\ AttemptsAgree)
BY PartsAreBehaviours, WaitersSettle, ChildrenStayInAgreement, RecordingsStayInAgreement,
   SessionsStayInAgreement, AttemptsStayInAgreement, PTL

\* Beside them a livestream is a session, and leaves no heartbeat and no reader behind, as
\* long as its starts do not overlap.
THEOREM MediaSessionsAreSound ==
    ASSUME NoSocket \notin Sockets
    PROVE  PartsSpec => []SessionLeavesNothing /\ ImplementsSession
BY PartsAreBehaviours, NothingIsLeft, LivestreamImplementsSession, PTL

=============================================================================
