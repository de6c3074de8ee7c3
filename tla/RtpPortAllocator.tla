--------------------------- MODULE RtpPortAllocator --------------------------
(***************************************************************************)
(* The allocator of UDP ports all cameras share (lib/ffmpeg/rtp.ts).       *)
(* Reservations run at the same time: each waits for the operating system  *)
(* to bind a socket, once for one port, twice for a pair of adjacent       *)
(* ports, and starts again when the second of a pair cannot be had.  The   *)
(* allocator does not know who holds a port; StreamingDelegate, which      *)
(* cancels them, says what becomes of them.                                *)
(***************************************************************************)
EXTENDS Naturals

CONSTANTS
    Reservations,   \* calls of reserve
    Pairs,          \* those that ask for two adjacent ports
    MaxPort,        \* bound: ports are 1 .. MaxPort
    MaxTries        \* how often a reservation tries again (10 in the code)

Ports == 1 .. MaxPort
NoPort == 0

VARIABLES
    portsInUse,
    reserve,        \* reserve[r]: "idle", "first", "second", "held", "failed"
    firstPort,      \* the first port of r, or NoPort
    attempts

vars == <<portsInUse, reserve, firstPort, attempts>>

TypeOK ==
    /\ portsInUse \subseteq Ports
    /\ reserve \in [Reservations -> {"idle", "first", "second", "held", "failed"}]
    /\ firstPort \in [Reservations -> Ports \cup {NoPort}]
    /\ attempts \in [Reservations -> 0 .. MaxTries + 1]

Init ==
    /\ portsInUse = {}
    /\ reserve = [r \in Reservations |-> "idle"]
    /\ firstPort = [r \in Reservations |-> NoPort]
    /\ attempts = [r \in Reservations |-> 0]

Reserve(r) ==
    /\ reserve[r] = "idle"
    /\ reserve' = [reserve EXCEPT ![r] = "first"]
    /\ UNCHANGED <<portsInUse, firstPort, attempts>>

\* getPort: the system assigns a port; one that is in use is not taken.
FirstPort(r) ==
    /\ reserve[r] = "first"
    /\ \E port \in Ports \ portsInUse :
        /\ portsInUse' = portsInUse \cup {port}
        /\ firstPort' = [firstPort EXCEPT ![r] = port]
    /\ reserve' = [reserve EXCEPT ![r] = IF r \in Pairs THEN "second" ELSE "held"]
    /\ UNCHANGED attempts

\* The port above the first one could be bound and is not in use.
Available(port) == port \in Ports \ portsInUse

SecondPort(r) ==
    /\ reserve[r] = "second"
    /\ Available(firstPort[r] + 1)
    /\ portsInUse' = portsInUse \cup {firstPort[r] + 1}
    /\ reserve' = [reserve EXCEPT ![r] = "held"]
    /\ UNCHANGED <<firstPort, attempts>>

CancelsFirst(r) == portsInUse' = portsInUse \ {firstPort[r]}

\* A socket cannot be bound, or the adjacent port is taken: all over again, or give up.
TriesAgain(r) ==
    /\ reserve[r] \in {"first", "second"}
    /\ CancelsFirst(r)
    /\ firstPort' = [firstPort EXCEPT ![r] = NoPort]
    /\ attempts' = [attempts EXCEPT ![r] = @ + 1]
    /\ reserve' = [reserve EXCEPT ![r] = IF attempts'[r] > MaxTries THEN "failed" ELSE "first"]

\* The ports r was given, which its caller lists and never takes off the list.
Held(r) ==
    IF reserve[r] = "held" /\ r \in Pairs THEN {firstPort[r], firstPort[r] + 1}
    ELSE {firstPort[r]} \ {NoPort}

\* The ports of r are deleted whoever holds them by now: a caller that has kept their
\* numbers may cancel them again.
Cancel(r) ==
    /\ portsInUse' = portsInUse \ Held(r)
    /\ UNCHANGED <<reserve, firstPort, attempts>>

\* The search of r goes on after a socket was bound, or was not.
Searches(r) == FirstPort(r) \/ SecondPort(r) \/ TriesAgain(r)

=============================================================================
