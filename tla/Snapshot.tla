------------------------------- MODULE Snapshot ------------------------------
(***************************************************************************)
(* The snapshots of one camera (protect-snapshot.ts): one attempt at a     *)
(* time for each size, its sources in turn under one deadline, and a cache *)
(* that serves requests until something happens on the camera.             *)
(*                                                                         *)
(* Time is counted in units of the reserve that is held back for a         *)
(* fallback.  A motion or a ring is a new value of the camera's markers.   *)
(***************************************************************************)
EXTENDS Integers

CONSTANTS
    Callers,        \* requests of HomeKit under way
    Sizes,          \* the sizes asked for; 0 is the unscaled image
    MaxAttempts,    \* bound: attempts under way
    MaxEvents,      \* bound: motions and rings
    Timeout,        \* PROTECT_SNAPSHOT_TIMEOUT
    Reserve         \* PROTECT_SNAPSHOT_FALLBACK_RESERVE

Attempts == 1 .. MaxAttempts
NoAttempt == 0
Ages == {"none", "fresh", "old"}
Sources == {"url", "timeshift", "first", "last"}

VARIABLES
    eventMarkers,       \* how many motions and rings the camera reported
    snapshotUrl,        \* is a URL configured that goes before all sources?
    pendingSnapshots,   \* pendingSnapshots[n]: the attempt for size n, or NoAttempt
    waitsFor,           \* waitsFor[c]: the attempt c waits for, or NoAttempt
    source,             \* source[a]: the source a tries, "captured", or "none"
    sizeOf, budget,     \* the size of an attempt and the time it has left
    cacheAge,           \* how old the cached image is, "none" without one
    cacheSize,
    cacheMarkers        \* the markers it is cached with

attemptVars == <<source, sizeOf, budget>>
cacheVars == <<cacheAge, cacheSize, cacheMarkers>>
vars == <<eventMarkers, snapshotUrl, pendingSnapshots, waitsFor, attemptVars, cacheVars>>

TypeOK ==
    /\ eventMarkers \in 0 .. MaxEvents /\ snapshotUrl \in BOOLEAN
    /\ pendingSnapshots \in [Sizes -> Attempts \cup {NoAttempt}]
    /\ waitsFor \in [Callers -> Attempts \cup {NoAttempt}]
    /\ source \in [Attempts -> Sources \cup {"captured", "none"}]
    /\ sizeOf \in [Attempts -> Sizes] /\ budget \in [Attempts -> 0 .. Timeout]
    /\ cacheAge \in Ages /\ cacheSize \in Sizes
    /\ cacheMarkers \in 0 .. MaxEvents

Init ==
    /\ eventMarkers = 0 /\ snapshotUrl = FALSE
    /\ pendingSnapshots = [n \in Sizes |-> NoAttempt]
    /\ waitsFor = [c \in Callers |-> NoAttempt]
    /\ source = [a \in Attempts |-> "none"]
    /\ sizeOf = [a \in Attempts |-> 0] /\ budget = [a \in Attempts |-> 0]
    /\ cacheAge = "none" /\ cacheSize = 0 /\ cacheMarkers = 0

-----------------------------------------------------------------------------
(* The camera, the configuration and time.                                 *)

Happens ==
    /\ eventMarkers < MaxEvents
    /\ eventMarkers' = eventMarkers + 1
    /\ UNCHANGED <<snapshotUrl, pendingSnapshots, waitsFor, attemptVars, cacheVars>>

Configure ==
    /\ \A a \in Attempts : source[a] = "none"
    /\ snapshotUrl' = ~snapshotUrl
    /\ UNCHANGED <<eventMarkers, pendingSnapshots, waitsFor, attemptVars, cacheVars>>

CacheAges ==
    /\ cacheAge = "fresh"
    /\ cacheAge' = "old"
    /\ UNCHANGED <<eventMarkers, snapshotUrl, pendingSnapshots, waitsFor, attemptVars,
                   cacheSize, cacheMarkers>>

-----------------------------------------------------------------------------
(* A request.                                                              *)

\* An unscaled request wants an unscaled image, a scaled one any that is large enough.
Satisfies(have, want) == have = 0 \/ (want # 0 /\ have >= want)

\* freshSnapshot: the cached image is served if nothing has happened since.
Fresh(n) == cacheAge = "fresh" /\ cacheMarkers = eventMarkers /\ Satisfies(cacheSize, n)

\* The getter of the cached image forgets one that is too old even for a fallback.
ForgetsOld == cacheAge' \in {cacheAge, IF cacheAge = "old" THEN "none" ELSE cacheAge}

\* A request rides along with an attempt for the same size.
Joins(c, n) ==
    /\ waitsFor[c] = NoAttempt /\ ~Fresh(n) /\ pendingSnapshots[n] # NoAttempt
    /\ ForgetsOld
    /\ waitsFor' = [waitsFor EXCEPT ![c] = pendingSnapshots[n]]
    /\ UNCHANGED <<eventMarkers, snapshotUrl, pendingSnapshots, attemptVars, cacheSize,
                   cacheMarkers>>

\* Or it starts one.
Begins(c, n, a) ==
    /\ waitsFor[c] = NoAttempt /\ ~Fresh(n) /\ pendingSnapshots[n] = NoAttempt
    /\ source[a] = "none"
    /\ ForgetsOld
    /\ pendingSnapshots' = [pendingSnapshots EXCEPT ![n] = a]
    /\ waitsFor' = [waitsFor EXCEPT ![c] = a]
    /\ source' = [source EXCEPT ![a] = IF snapshotUrl THEN "url" ELSE "timeshift"]
    /\ sizeOf' = [sizeOf EXCEPT ![a] = n]
    /\ budget' = [budget EXCEPT ![a] = Timeout]
    /\ UNCHANGED <<eventMarkers, snapshotUrl, cacheSize, cacheMarkers>>

\* Deviation: who gives up takes the attempt out of the pending ones.
TakesAlong(c) == pendingSnapshots' = [n \in Sizes |->
    IF pendingSnapshots[n] = waitsFor[c] THEN NoAttempt ELSE pendingSnapshots[n]]

\* Who gives up waiting leaves the attempt to the others.
LeavesPending(c) == UNCHANGED pendingSnapshots

\* The request's time is up: it gets the image that was cached when it came, or none.
FallsBack(c) ==
    /\ waitsFor[c] # NoAttempt
    /\ LeavesPending(c)
    /\ waitsFor' = [waitsFor EXCEPT ![c] = NoAttempt]
    /\ UNCHANGED <<eventMarkers, snapshotUrl, attemptVars, cacheVars>>

-----------------------------------------------------------------------------
(* An attempt.                                                             *)

\* sourceBudget: a source with another behind it leaves the reserve to that.
SourceBudget(a) == IF source[a] = "last" THEN budget[a] ELSE budget[a] - Reserve

\* A request to the configured URL has a timeout of its own; all others are bounded by
\* the budget, and not tried without one.
MayUse(a) == IF source[a] = "url" THEN budget[a] ELSE SourceBudget(a)

NextSource(a) == CASE source[a] = "url" -> "timeshift"
                   [] source[a] = "timeshift" -> "first"
                   [] source[a] = "first" -> "last"

\* The source has an image; the time that is left no longer matters.
Captures(a) ==
    /\ source[a] \in Sources /\ MayUse(a) > 0
    /\ budget' = [budget EXCEPT ![a] = 0]
    /\ source' = [source EXCEPT ![a] = "captured"]
    /\ UNCHANGED <<eventMarkers, snapshotUrl, pendingSnapshots, waitsFor, sizeOf, cacheVars>>

\* It has none, was too slow, or is not tried at all.
Misses(a) ==
    /\ source[a] \in Sources \ {"last"}
    /\ IF MayUse(a) > 0
       THEN \E time \in 0 .. MayUse(a) : budget' = [budget EXCEPT ![a] = @ - time]
       ELSE UNCHANGED budget
    /\ source' = [source EXCEPT ![a] = NextSource(a)]
    /\ UNCHANGED <<eventMarkers, snapshotUrl, pendingSnapshots, waitsFor, sizeOf, cacheVars>>

\* An attempt that is over is no longer pending, and whoever waits for it goes on.
Ends(a) ==
    /\ source' = [source EXCEPT ![a] = "none"]
    /\ pendingSnapshots' = [pendingSnapshots EXCEPT
                             ![sizeOf[a]] = IF @ = a THEN NoAttempt ELSE @]
    /\ waitsFor' = [c \in Callers |-> IF waitsFor[c] = a THEN NoAttempt ELSE waitsFor[c]]
    /\ sizeOf' = [sizeOf EXCEPT ![a] = 0] /\ budget' = [budget EXCEPT ![a] = 0]
    /\ UNCHANGED <<eventMarkers, snapshotUrl>>

\* The image is cropped, if it is to be, and cached with the markers of by now.
Stores(a) ==
    /\ source[a] = "captured"
    /\ cacheAge' = "fresh" /\ cacheSize' = sizeOf[a]
    /\ cacheMarkers' = eventMarkers
    /\ Ends(a)

Fails(a) ==
    /\ source[a] = "last"
    /\ Ends(a)
    /\ UNCHANGED cacheVars

Next ==
    \/ Happens \/ Configure \/ CacheAges
    \/ \E c \in Callers :
        \/ FallsBack(c)
        \/ \E n \in Sizes : Joins(c, n) \/ \E a \in Attempts : Begins(c, n, a)
    \/ \E a \in Attempts : Captures(a) \/ Misses(a) \/ Stores(a) \/ Fails(a)

Spec == Init /\ [][Next]_vars

-----------------------------------------------------------------------------
(* What snapshots promise.                                                 *)

\* However many requests come and give up, each size has one attempt under way: FFmpeg
\* is not spawned twice for the same image (pendingSnapshots).
OneAttemptPerSize == \A a, b \in Attempts :
    source[a] # "none" /\ source[b] # "none" /\ sizeOf[a] = sizeOf[b] => a = b

\* The last source gets its turn with the reserve it needs, however slow the sources
\* before it were; only a configured URL may use up the time of all (sourceBudget).
FallbackGetsItsTurn == \A a \in Attempts :
    source[a] = "last" /\ ~snapshotUrl => budget[a] >= Reserve

\* So many requests and sources, and no image is made twice or given no time.
AttemptsAgree == OneAttemptPerSize /\ FallbackGetsItsTurn

=============================================================================
