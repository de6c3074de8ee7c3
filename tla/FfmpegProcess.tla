---------------------------- MODULE FfmpegProcess ----------------------------
(***************************************************************************)
(* One FFmpeg process object of the kind the livestream pool keeps: it is  *)
(* stopped and started again, with a new child process each time           *)
(* (lib/ffmpeg/process.ts, fmp4-process.ts, livestream-process.ts).        *)
(*                                                                         *)
(* A child that is told to stop may take its time, so children overlap;    *)
(* a timer kills a child that does not listen.  Output is abstracted to    *)
(* the boxes that matter: anything of the initialization segment, the      *)
(* first fragment that completes it, and a box nobody can parse.           *)
(***************************************************************************)
EXTENDS Naturals

CONSTANTS
    MaxChildren     \* bound: child processes the object spawns

NoChild == 0
Children == 1 .. MaxChildren

VARIABLES
    process,        \* the child the object refers to, or NoChild
    spawned,        \* how many children were spawned
    child,          \* child[c]: what became of child c
    told,           \* told[c]: c was sent SIGTERM and its stdin and stdout are gone
    struck,         \* struck[c]: c was sent SIGKILL
    killTimer,      \* ffmpegTimeout: "none", "armed", or "over" but still referred to
    hasStarted,     \* _isStarted
    isEnded,        \* _isEnded
    hasError,       \* _hasError
    hasEmittedClose,
    hasInitSegment,
    awaiting        \* somebody waits for the initialization segment

childVars == <<spawned, child, told, struck>>
lifeVars == <<hasStarted, isEnded, hasError, hasEmittedClose>>
initVars == <<hasInitSegment, awaiting>>
vars == <<process, childVars, killTimer, lifeVars, initVars>>

\* A child that could not be spawned emits an error and never exits.
ChildStates == {"none", "running", "unspawned", "exited"}

TypeOK ==
    /\ process \in Children \cup {NoChild}
    /\ spawned \in 0 .. MaxChildren
    /\ child \in [Children -> ChildStates]
    /\ told \in [Children -> BOOLEAN]
    /\ struck \in [Children -> BOOLEAN]
    /\ killTimer \in {"none", "armed", "over"}
    /\ hasStarted \in BOOLEAN /\ isEnded \in BOOLEAN /\ hasError \in BOOLEAN
    /\ hasEmittedClose \in BOOLEAN
    /\ hasInitSegment \in BOOLEAN
    /\ awaiting \in BOOLEAN

Init ==
    /\ process = NoChild
    /\ spawned = 0
    /\ child = [c \in Children |-> "none"]
    /\ told = [c \in Children |-> FALSE]
    /\ struck = [c \in Children |-> FALSE]
    /\ killTimer = "none"
    /\ hasStarted = FALSE /\ isEnded = FALSE /\ hasError = FALSE
    /\ hasEmittedClose = FALSE
    /\ hasInitSegment = FALSE /\ awaiting = FALSE

-----------------------------------------------------------------------------
(* start and stop.                                                         *)

\* Deviation: the previous child's kill timer outlives it.
KeepsKillTimer == UNCHANGED killTimer

\* A kill timer must not outlive the child it was armed for.
ClearsKillTimer == killTimer' = "none"

\* start: fresh state, no old kill timer, a new child.  The pool stops the object
\* before it starts it again.
Start ==
    /\ process # NoChild => told[process]
    /\ spawned < MaxChildren
    /\ spawned' = spawned + 1
    /\ process' = spawned'
    /\ child' = [child EXCEPT ![spawned'] = "running"]
    /\ ClearsKillTimer
    /\ hasStarted' = FALSE /\ isEnded' = FALSE
    /\ hasEmittedClose' = FALSE
    /\ hasInitSegment' = FALSE
    /\ UNCHANGED <<told, struck, hasError, awaiting>>

\* abortInitSegmentWait rejects whoever waits.
AbortsWait == awaiting' = FALSE

\* Deviation: stop leaves the child to its SIGTERM.
StopProcessUnguarded ==
    /\ told' = IF process = NoChild THEN told ELSE [told EXCEPT ![process] = TRUE]
    /\ UNCHANGED killTimer

\* stopProcess of the base class: SIGTERM now, SIGKILL after the timeout.
StopProcess ==
    IF process = NoChild THEN UNCHANGED <<told, killTimer>>
    ELSE told' = [told EXCEPT ![process] = TRUE] /\ killTimer' = "armed"

\* stop of a livestream process: the wait, the child, and one close event.
Stop ==
    /\ AbortsWait
    /\ StopProcess
    /\ isEnded' = TRUE
    /\ hasEmittedClose' = TRUE
    /\ UNCHANGED <<process, spawned, child, struck, hasStarted, hasError, hasInitSegment>>

\* The kill timer strikes whatever child the object refers to by now.
KillTimerFires ==
    /\ killTimer = "armed"
    /\ killTimer' = "over"
    /\ struck' = IF process = NoChild THEN struck ELSE [struck EXCEPT ![process] = TRUE]
    /\ UNCHANGED <<process, spawned, child, told, lifeVars, initVars>>

-----------------------------------------------------------------------------
(* What the child does.                                                    *)

\* Anything on stderr marks the object started, be it from an older child.
WritesStderr(c) ==
    /\ child[c] = "running"
    /\ ~hasStarted
    /\ hasStarted' = TRUE /\ isEnded' = FALSE
    /\ UNCHANGED <<process, childVars, killTimer, hasError, hasEmittedClose, initVars>>

\* The child's stdout is read until the child is told to stop.
Reads(c) == child[c] = "running" /\ ~told[c]

\* The first fragment completes the initialization segment.
Fragment(c) ==
    /\ Reads(c)
    /\ ~hasInitSegment
    /\ hasInitSegment' = TRUE
    /\ awaiting' = FALSE
    /\ UNCHANGED <<process, childVars, killTimer, lifeVars>>

\* A box with a size that cannot be: the object stops.
CorruptBox(c) == Reads(c) /\ Stop

\* The child could not be spawned: its error event changes nothing.
FailsToSpawn(c) ==
    /\ child[c] = "running"
    /\ ~struck[c]
    /\ process = c /\ ~hasStarted /\ ~hasInitSegment
    /\ child' = [child EXCEPT ![c] = "unspawned"]
    /\ UNCHANGED <<process, spawned, told, struck, killTimer, lifeVars, initVars>>

IsCurrent(c) == process = c

\* exit: only the current child's ends the object's life.  It is expected after a
\* stop, or else an error; and nobody waits for it any longer.
Exits(c) ==
    /\ child[c] = "running"
    /\ child' = [child EXCEPT ![c] = "exited"]
    /\ IF IsCurrent(c)
       THEN /\ process' = NoChild
            /\ killTimer' = IF killTimer = "armed" THEN "over" ELSE killTimer
            /\ hasStarted' = FALSE /\ isEnded' = TRUE
            /\ hasError' = (hasError \/ ~told[c])
            /\ AbortsWait
       ELSE UNCHANGED <<process, killTimer, hasStarted, isEnded, hasError, awaiting>>
    /\ UNCHANGED <<spawned, told, struck, hasEmittedClose, hasInitSegment>>

\* getInitSegment: at once if it is there, an error without a child, or else a wait.
GetInitSegment ==
    /\ ~hasInitSegment
    /\ process # NoChild
    /\ awaiting' = TRUE
    /\ UNCHANGED <<process, childVars, killTimer, lifeVars, hasInitSegment>>

Next ==
    \/ Start \/ Stop \/ KillTimerFires \/ GetInitSegment
    \/ \E c \in Children :
        WritesStderr(c) \/ Fragment(c) \/ CorruptBox(c) \/ FailsToSpawn(c) \/ Exits(c)

Spec == Init /\ [][Next]_vars

\* Timers fire, and a child that was sent SIGKILL exits.
Fairness ==
    /\ WF_vars(KillTimerFires)
    /\ \A c \in Children : WF_vars(struck[c] /\ Exits(c))

-----------------------------------------------------------------------------
(* What the object promises.                                               *)

\* SIGKILL strikes only a child that was told to stop before: a timer armed for an
\* earlier child never hits the one that replaced it (start, configureProcess).
SparesReplacements == \A c \in Children : struck[c] => told[c]

\* Whoever waits for the initialization segment waits for a child that is yet to
\* send it or to exit: no wait survives the exit of the current child, whichever
\* children were stopped, replaced and exit late (awaitInitSegment).
WaiterHasProcess == awaiting => process # NoChild /\ child[process] # "exited"

\* Children that are replaced, and exit late, do no harm to those that replace them.
ChildrenAgree == SparesReplacements /\ WaiterHasProcess

\* A child that was told to stop goes: time and again, none that was told is left, but
\* one that could not be spawned or whose object was started again in the meantime.
StoppedChildrenExit == []<>(\A c \in Children :
    told[c] => child[c] \in {"exited", "unspawned"} \/ process # c)

=============================================================================
