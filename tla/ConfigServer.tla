---------------------------- MODULE ConfigServer ----------------------------
(***************************************************************************)
(* The server of the configuration interface (server.js) and the pages     *)
(* that ask it: validations of controllers, which may overlap, the error   *)
(* each of them leaves for its page to fetch (/getDevices,                 *)
(* /getErrorMessage), and the discovery of controllers (/discover).        *)
(*                                                                         *)
(* A message is the validation it is about, or None.  The requests without *)
(* a state of their own and callers without a request id are left out.     *)
(***************************************************************************)
EXTENDS Naturals, Sequences, SequencesExt, FiniteSets

CONSTANTS
    Validations,    \* request ids
    None,           \* no message
    Ips,            \* controllers on the network
    MaxStored       \* MAX_STORED_ERRORS

VARIABLES
    phase,          \* of each validation
    errorInfo,      \* its own error message
    session,        \* its session at the controller: "none", "pending" or "open"
    devices,        \* it was answered with devices
    errors,         \* #errors: the messages that are kept, oldest first
    recorded,       \* history: the validations in the order they recorded their message
    message,        \* what its page showed
    discovery,      \* "idle", "binding", "searching", "failed" before the time is up, or "over"
    seen,           \* the addresses that were heard of
    listed          \* the answer to /discover

discoveryVars == <<discovery, seen, listed>>
vars == <<phase, errorInfo, session, devices, errors, recorded, message, discoveryVars>>

Phases == {"new", "vetting", "connecting", "answered", "shown"}

TypeOK ==
    /\ phase \in [Validations -> Phases]
    /\ errorInfo \in [Validations -> Validations \cup {None}]
    /\ session \in [Validations -> {"none", "pending", "open"}]
    /\ devices \in [Validations -> BOOLEAN]
    /\ message \in [Validations -> Validations \cup {None}]
    /\ \A i \in DOMAIN errors : errors[i].id \in Validations
    /\ discovery \in {"idle", "binding", "searching", "failed", "over"}

Init ==
    /\ phase = [r \in Validations |-> "new"]
    /\ errorInfo = [r \in Validations |-> None]
    /\ session = [r \in Validations |-> "none"]
    /\ devices = [r \in Validations |-> FALSE]
    /\ errors = <<>> /\ recorded = <<>>
    /\ message = [r \in Validations |-> None]
    /\ discovery = "idle" /\ seen = {} /\ listed = <<>>

-----------------------------------------------------------------------------
(* Validations.                                                            *)

\* Where the message of a validation is kept: once, as #errors is a map.
At(r) == {i \in DOMAIN errors : errors[i].id = r}

\* The messages but for that of r.
Others(r) == IF At(r) = {} THEN errors ELSE RemoveAt(errors, CHOOSE i \in At(r) : TRUE)

\* #recordError: the newest MaxStored messages are kept.
RecordError(r, text) ==
    LET kept == Append(Others(r), [id |-> r, text |-> text])
    IN  /\ errors' = IF Len(kept) > MaxStored THEN Tail(kept) ELSE kept
        /\ recorded' = Append(recorded, r)

\* /getDevices answers; what is left of it is to log out and to record its error.
Answers(r, hasDevices, text) ==
    /\ phase' = [phase EXCEPT ![r] = "answered"]
    /\ devices' = [devices EXCEPT ![r] = hasDevices]
    /\ errorInfo' = [errorInfo EXCEPT ![r] = text]
    /\ RecordError(r, text)

\* handleSetupSubmit, openFeatureOptions: a page asks for the devices of a controller.
GetDevices(r) ==
    /\ phase[r] = "new"
    /\ phase' = [phase EXCEPT ![r] = "vetting"]
    /\ UNCHANGED <<errorInfo, session, devices, errors, recorded, message, discoveryVars>>

\* resolveAllowedAddress lets the address pass, and the login begins ...
Vetted(r) ==
    /\ phase[r] = "vetting"
    /\ phase' = [phase EXCEPT ![r] = "connecting"]
    /\ session' = [session EXCEPT ![r] = "pending"]
    /\ UNCHANGED <<errorInfo, devices, errors, recorded, message, discoveryVars>>

\* ... or throws.
Refused(r) ==
    /\ phase[r] = "vetting"
    /\ Answers(r, FALSE, r)
    /\ UNCHANGED <<session, message, discoveryVars>>

\* An attempt fails, and the API logs it; another may follow.
LogsError(r) ==
    /\ phase[r] = "connecting"
    /\ errorInfo' = [errorInfo EXCEPT ![r] = r]
    /\ UNCHANGED <<phase, session, devices, errors, recorded, message, discoveryVars>>

\* The controller accepts the login, perhaps after the validation was given up.
LogsIn(r) ==
    /\ session[r] = "pending"
    /\ session' = [session EXCEPT ![r] = "open"]
    /\ UNCHANGED <<phase, errorInfo, devices, errors, recorded, message, discoveryVars>>

\* The login or the bootstrap has succeeded or failed before the timeout.
Settles(r) ==
    /\ phase[r] = "connecting"
    /\ \/ session[r] = "open" /\ Answers(r, TRUE, errorInfo[r])
       \/ Answers(r, FALSE, errorInfo[r])
    /\ session' = [session EXCEPT ![r] = "none"]
    /\ UNCHANGED <<message, discoveryVars>>

\* The logout of a validation that is given up ends a session it has, and no login that is
\* still under way.
TimesOut(r) ==
    /\ phase[r] = "connecting"
    /\ Answers(r, FALSE, r)
    /\ session' = [session EXCEPT ![r] = IF @ = "open" THEN "none" ELSE @]
    /\ UNCHANGED <<message, discoveryVars>>

\* Deviation: there is one message, the last.
LastMessage(r) == IF errors = <<>> THEN None ELSE Last(errors).text

\* The message that is kept for a validation.
Message(r) == IF At(r) = {} THEN None ELSE errors[CHOOSE i \in At(r) : TRUE].text

\* /getErrorMessage, which a page asks when it was given no devices.
GetErrorMessage(r) ==
    /\ phase[r] = "answered" /\ ~devices[r]
    /\ message' = [message EXCEPT ![r] = Message(r)]
    /\ errors' = Others(r)
    /\ phase' = [phase EXCEPT ![r] = "shown"]
    /\ UNCHANGED <<errorInfo, session, devices, recorded, discoveryVars>>

-----------------------------------------------------------------------------
(* Discovery.                                                              *)

Discovers ==
    /\ UNCHANGED <<phase, errorInfo, session, devices, errors, recorded, message>>

\* handleDiscover.
Discover ==
    /\ discovery = "idle"
    /\ discovery' = "binding"
    /\ UNCHANGED <<seen, listed>>
    /\ Discovers

\* The socket is bound: everyone on the local subnets is asked by broadcast, and every
\* address of the subnets next to them.
Probes ==
    /\ discovery = "binding"
    /\ discovery' = "searching"
    /\ UNCHANGED <<seen, listed>>
    /\ Discovers

\* A device answers, as often as it is asked: by broadcast, and in each subnet it is in.
\* What cannot be parsed has no address.
Hears ==
    /\ discovery = "searching"
    /\ \E ip \in Ips :
           /\ ip \notin seen
           /\ seen' = seen \cup {ip}
           /\ listed' = Append(listed, ip)
    /\ UNCHANGED discovery
    /\ Discovers

SocketFails ==
    /\ discovery \in {"binding", "searching"}
    /\ discovery' = "failed" /\ listed' = <<>>
    /\ UNCHANGED seen
    /\ Discovers

\* The time is up: what was answered before stays.
DiscoveryEnds ==
    /\ discovery \in {"binding", "searching", "failed"}
    /\ discovery' = "over"
    /\ UNCHANGED <<seen, listed>>
    /\ Discovers

Next ==
    \/ \E r \in Validations :
           \/ GetDevices(r) \/ Vetted(r) \/ Refused(r) \/ LogsError(r) \/ LogsIn(r)
           \/ Settles(r) \/ TimesOut(r) \/ GetErrorMessage(r)
    \/ Discover \/ Probes \/ Hears \/ SocketFails \/ DiscoveryEnds

Spec == Init /\ [][Next]_vars

-----------------------------------------------------------------------------
(* What the server promises.                                               *)

\* How many validations recorded a message after r did.
RecordedAfter(r) == Cardinality({j \in DOMAIN recorded :
                        \E i \in 1 .. j - 1 : recorded[i] = r /\ recorded[j] # r})

\* However validations overlap, a page shows the error of its own or none, and none only
\* when there was none or as many others ended since as messages are kept; and no more are
\* kept than that (#recordError, /getErrorMessage).
OwnErrors ==
    /\ Len(errors) <= MaxStored
    /\ \A r \in Validations :
           /\ message[r] \in {None, r}
           /\ phase[r] = "answered" /\ errorInfo[r] = r /\ RecordedAfter(r) < MaxStored =>
                  Message(r) = r

=============================================================================
