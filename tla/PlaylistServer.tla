--------------------------- MODULE PlaylistServer ---------------------------
(***************************************************************************)
(* The servers that publish the playlists of livestreams, one for each     *)
(* controller, all of them on the port they are configured with, by        *)
(* default the same (protect-playlist.ts).  What a playlist says, and who  *)
(* may have it, changes no state and is left out.                          *)
(***************************************************************************)
EXTENDS Naturals

CONSTANT Servers

VARIABLES
    phase,      \* of each server: "binding", "listening" or "idle"
    retries,    \* how many of its timers are pending
    holder,     \* who has the port
    abandoned   \* servers that were closed, or met an error they do not retry

vars == <<phase, retries, holder, abandoned>>

Holders == {"nobody", "other"} \cup Servers

TypeOK ==
    /\ phase \in [Servers -> {"binding", "listening", "idle"}]
    /\ retries \in [Servers -> Nat]
    /\ holder \in Holders
    /\ abandoned \subseteq Servers

\* The constructor starts a server, which listens at once.
Init ==
    /\ phase = [s \in Servers |-> "binding"]
    /\ retries = [s \in Servers |-> 0]
    /\ holder \in {"nobody", "other"}
    /\ abandoned = {}

Left(s) == IF holder = s THEN "nobody" ELSE holder

\* The listening event.
Listens(s) ==
    /\ phase[s] = "binding" /\ holder = "nobody"
    /\ phase' = [phase EXCEPT ![s] = "listening"]
    /\ holder' = s
    /\ UNCHANGED <<retries, abandoned>>

\* Deviation: it is not tried again.
GivesUp(s) ==
    /\ phase[s] = "binding" /\ holder # "nobody"
    /\ phase' = [phase EXCEPT ![s] = "idle"]
    /\ UNCHANGED <<retries, holder, abandoned>>

\* EADDRINUSE: tried again in a while, and again.
InUse(s) ==
    /\ phase[s] = "binding" /\ holder # "nobody"
    /\ phase' = [phase EXCEPT ![s] = "idle"]
    /\ retries' = [retries EXCEPT ![s] = @ + 1]
    /\ UNCHANGED <<holder, abandoned>>

\* Any other error closes the server for good.
Fails(s) ==
    /\ phase[s] = "binding"
    /\ phase' = [phase EXCEPT ![s] = "idle"]
    /\ abandoned' = abandoned \cup {s}
    /\ UNCHANGED <<retries, holder>>

\* The timer closes the server, which may be closed already, and has it listen.
Retry(s) ==
    /\ retries[s] > 0
    /\ retries' = [retries EXCEPT ![s] = @ - 1]
    /\ phase' = [phase EXCEPT ![s] = "binding"]
    /\ holder' = Left(s)
    /\ UNCHANGED abandoned

\* close: the timer stays, and so may a listen that is under way.
Close(s) ==
    /\ s \notin abandoned
    /\ abandoned' = abandoned \cup {s}
    /\ \E left \in {"idle", phase[s]} \ {"listening"} : phase' = [phase EXCEPT ![s] = left]
    /\ holder' = Left(s)
    /\ UNCHANGED retries

\* Another program, or another Homebridge, takes the port and leaves it.
OtherTakes == holder = "nobody" /\ holder' = "other" /\ UNCHANGED <<phase, retries, abandoned>>
OtherLeaves == holder = "other" /\ holder' = "nobody" /\ UNCHANGED <<phase, retries, abandoned>>

Next ==
    \/ \E s \in Servers : Listens(s) \/ InUse(s) \/ Fails(s) \/ Retry(s) \/ Close(s)
    \/ OtherTakes \/ OtherLeaves

\* A listen succeeds or fails, and timers fire.
Fairness == \A s \in Servers :
    /\ WF_vars(Listens(s) \/ InUse(s) \/ Fails(s))
    /\ WF_vars(Retry(s))

Spec == Init /\ [][Next]_vars /\ Fairness

-----------------------------------------------------------------------------
(* What the servers promise.                                               *)

\* Unless another program takes the port again and again, someone publishes at last, and
\* another server does once that one is closed, as long as not all were given up: the one
\* that met a used port is tried again, however often (start, EADDRINUSE).
PublishesAtLast ==
    \/ []<>(holder = "other")
    \/ []<>(abandoned = Servers)
    \/ []<>(\E s \in Servers : phase[s] = "listening")

=============================================================================
