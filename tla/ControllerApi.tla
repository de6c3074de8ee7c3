---------------------------- MODULE ControllerApi ----------------------------
(***************************************************************************)
(* How this plugin talks to one Protect controller (unifi/protect-api.ts): *)
(* the session with its cookie and CSRF token (protect-api-session.ts),    *)
(* the HTTP transport with its transparent retries (protect-api-http.ts,   *)
(* lib/request.ts), the circuit breaker that pauses all communication      *)
(* after too many errors (protect-api-circuit-breaker.ts), and their       *)
(* callers: the chain of bootstrap refreshes (protect-nvr.ts) and devices  *)
(* that read, configure or listen at any time.                             *)
(*                                                                         *)
(* A caller is suspended while its request is in flight, and any other     *)
(* caller may run then; what follows an answer without waiting runs to its *)
(* end before the next event (Turn).  A cookie is what the controller      *)
(* thinks of it, and the account is an administrator's.  errors stops      *)
(* counting at ErrorLimit: the code asks only whether it is reached.       *)
(***************************************************************************)
EXTENDS Naturals

CONSTANTS
    Refresh,        \* the caller that signs in and refreshes the bootstrap
    Devices,        \* callers that use the API once it is configured
    ErrorLimit,     \* PROTECT_API_ERROR_LIMIT (10)
    MaxRetries      \* retries of a request that has no side effect (5)

ASSUME ConstantsAssumption ==
    /\ Refresh \notin Devices
    /\ ErrorLimit \in Nat \ {0}
    /\ MaxRetries \in Nat

Callers == Devices \cup {Refresh}

VARIABLES
    errors,         \* consecutive errors, up to ErrorLimit
    throttled,      \* the breaker is in its penalty interval
    elapsed,        \* ... which is over
    session,        \* the cookie of the session's headers
    csrf,           \* the headers hold a CSRF token
    isAdmin,        \* _isAdminUser
    bootstrapped,   \* there is a bootstrap
    configured,     \* the devices of the first bootstrap are set up
    healthy,        \* the controller and the network work
    call            \* where each caller is

breakerVars == <<errors, throttled, elapsed>>
sessionVars == <<session, csrf>>
apiVars == <<isAdmin, bootstrapped, configured>>
vars == <<breakerVars, sessionVars, apiVars, healthy, call>>

Cookies == {"none", "valid", "expired"}
Tasks == {"signIn", "bootstrap", "read", "update", "channels", "listen"}
Stages == {"login", "csrf", "relogin", "request"}

\* idle; about to log in, to call retrieve, to learn that it got nothing or that
\* the login failed; with a request in flight; connecting to the events channel.
Phases == {"idle", "auth", "enter", "nothing", "denied", "flight", "connect"}

\* stage: the request of the current retrieve.  resuming: the stage whose
\* retrieve waits for the login that follows a penalty, or "no".  cookie: the
\* headers a request in flight refers to; "shared" are the session's own, and
\* clear() leaves older ones behind.  cut: its connection was destroyed.
Call == [task : Tasks, phase : Phases, stage : Stages, resuming : Stages \cup {"no"},
         again : BOOLEAN, cookie : Cookies \cup {"shared"}, cut : BOOLEAN,
         tries : 0 .. MaxRetries]

TypeOK ==
    /\ errors \in 0 .. ErrorLimit
    /\ throttled \in BOOLEAN
    /\ elapsed \in BOOLEAN
    /\ session \in Cookies
    /\ csrf \in BOOLEAN
    /\ isAdmin \in BOOLEAN
    /\ bootstrapped \in BOOLEAN
    /\ configured \in BOOLEAN
    /\ healthy \in BOOLEAN
    /\ call \in [Callers -> Call]

Idle(task) == [task |-> task, phase |-> "idle", stage |-> "login", resuming |-> "no",
               again |-> FALSE, cookie |-> "shared", cut |-> FALSE, tries |-> 0]

Init ==
    /\ errors = 0 /\ throttled = FALSE /\ elapsed = FALSE
    /\ session = "none" /\ csrf = FALSE
    /\ isAdmin = FALSE /\ bootstrapped = FALSE /\ configured = FALSE
    /\ healthy \in BOOLEAN
    /\ call = [c \in Callers |-> Idle(IF c = Refresh THEN "signIn" ELSE "read")]

-----------------------------------------------------------------------------
(* Helpers.                                                                *)

In(c, phase) == call[c].phase = phase

Becomes(c, record) == [call EXCEPT ![c] = record]
Goes(c, phase) == Becomes(c, [call[c] EXCEPT !.phase = phase])
Enters(c, stage) == Becomes(c, [call[c] EXCEPT !.phase = "enter", !.stage = stage])
Ends(c) == Becomes(c, Idle(IF c = Refresh THEN "bootstrap" ELSE "read"))

\* request: the headers are the session's object, read again by every attempt.
Sends(c, stage) ==
    Becomes(c, [call[c] EXCEPT !.phase = "flight", !.stage = stage, !.resuming = "no",
                               !.cookie = "shared", !.cut = FALSE, !.tries = 0])

\* The event loop comes to its next event once no caller has anything to do, and
\* those whose connection was destroyed know.
Turn ==
    \A c \in Callers :
        \/ call[c].phase \in {"idle", "connect"}
        \/ In(c, "flight") /\ ~call[c].cut

CookieOf(c) == IF call[c].cookie = "shared" THEN session ELSE call[c].cookie

IsLoggedIn == session # "none" /\ csrf

\* Requests that are retried transparently, and whose response is decoded.
Retried(c) ==
    \/ call[c].stage = "csrf"
    \/ call[c].stage = "request" /\ call[c].task \in {"bootstrap", "read"}

Decoded(c) == call[c].stage # "request" \/ call[c].task # "channels"

Failed == errors' = IF errors < ErrorLimit THEN errors + 1 ELSE errors
Succeeded == errors' = 0 /\ throttled' = FALSE

\* agent.destroy: every request in flight loses its connection.
CutOff(calls) ==
    [c \in Callers |-> [calls[c] EXCEPT !.cut = @ \/ calls[c].phase = "flight"]]

\* reset, for the callers' states that go with it.
Reset(calls) ==
    /\ bootstrapped' = FALSE
    /\ call' = CutOff(calls)

\* clear puts a new object in the place of the headers.
LeaveHeaders(calls) ==
    [c \in Callers |->
        [calls[c] EXCEPT !.cookie = IF @ = "shared" /\ calls[c].phase = "flight" THEN session ELSE @]]

\* Deviation: a logout that keeps the bootstrap.
LogoutKeepsBootstrap(calls) ==
    /\ isAdmin' = FALSE
    /\ session' = "none"
    /\ call' = CutOff(LeaveHeaders(calls))
    /\ UNCHANGED <<csrf, bootstrapped, configured>>

\* logout: reset, privileges and session are gone, the CSRF token stays.
Logout(calls) ==
    /\ Reset(LeaveHeaders(calls))
    /\ isAdmin' = FALSE
    /\ session' = "none"
    /\ UNCHANGED <<csrf, configured>>

-----------------------------------------------------------------------------
(* Callers.                                                                *)

\* ProtectNvr.login, tried again until it succeeds: ProtectApi.login begins
\* with a logout.
SignIn ==
    /\ Turn
    /\ In(Refresh, "idle")
    /\ call[Refresh].task = "signIn"
    /\ Logout(Goes(Refresh, "auth"))
    /\ UNCHANGED <<breakerVars, healthy>>

\* A bootstrap is due, after the refresh or the retry interval.
BootstrapDue ==
    /\ Turn
    /\ In(Refresh, "idle")
    /\ call[Refresh].task = "bootstrap"
    /\ call' = Becomes(Refresh, [call[Refresh] EXCEPT !.phase = "auth", !.again = TRUE])
    /\ UNCHANGED <<breakerVars, sessionVars, apiVars, healthy>>

\* A device calls getWsEndpoint or getSnapshot, updateDevice, or enableRtsp when a
\* bootstrap configures it; or the events channel reconnects.
DeviceCalls(c, task) ==
    /\ Turn
    /\ configured
    /\ task = "channels" => bootstrapped
    /\ In(c, "idle")
    /\ call' = Becomes(c, [Idle(task) EXCEPT !.phase = "auth"])
    /\ UNCHANGED <<breakerVars, sessionVars, apiVars, healthy>>

\* What a caller does once it is logged in.
LoggedIn(c) ==
    IF call[c].resuming # "no" THEN Sends(c, call[c].resuming)
    ELSE CASE call[c].task = "signIn" ->
                Becomes(c, [Idle("bootstrap") EXCEPT !.phase = "auth", !.again = TRUE])
           [] call[c].task = "listen" -> Ends(c)
           [] call[c].task \in {"update", "channels"} /\ ~isAdmin -> Ends(c)
           [] OTHER -> Enters(c, "request")

\* The bootstrap is tried again once.
TryAgain(c) ==
    IF c = Refresh /\ call[c].again
    THEN Becomes(c, [call[c] EXCEPT !.phase = "auth", !.again = FALSE])
    ELSE Ends(c)

\* ProtectApiSession.login, up to its first request.
LogIn(c) ==
    /\ In(c, "auth")
    /\ call' = IF IsLoggedIn THEN LoggedIn(c) ELSE Enters(c, "login")
    /\ UNCHANGED <<breakerVars, sessionVars, apiVars, healthy>>

\* login returned false.
Denied(c) ==
    /\ In(c, "denied")
    /\ call' = IF call[c].resuming # "no"
               THEN Becomes(c, [call[c] EXCEPT !.phase = "nothing", !.stage = call[c].resuming,
                                               !.resuming = "no"])
               ELSE IF call[c].task = "signIn" THEN Becomes(c, Idle("signIn"))
               ELSE TryAgain(c)
    /\ UNCHANGED <<breakerVars, sessionVars, apiVars, healthy>>

\* Deviation: a limit that lets requests pass once the user was told.
ClosedOnceTold == errors < ErrorLimit \/ throttled

Closed == errors < ErrorLimit

Admit(c) ==
    /\ Closed
    /\ call' = Sends(c, call[c].stage)
    /\ UNCHANGED <<breakerVars, bootstrapped>>

Trip(c) ==
    /\ ~Closed /\ ~throttled
    /\ throttled' = TRUE /\ elapsed' = FALSE
    /\ Reset(Goes(c, "nothing"))
    /\ UNCHANGED errors

Hold(c) ==
    /\ ~Closed /\ throttled /\ ~elapsed
    /\ call' = Goes(c, "nothing")
    /\ UNCHANGED <<breakerVars, bootstrapped>>

\* Without a session the login is sent first, and the request waits for it.
Resume(c) ==
    /\ ~Closed /\ throttled /\ elapsed
    /\ errors' = 0 /\ throttled' = FALSE
    /\ call' = IF IsLoggedIn THEN Sends(c, call[c].stage)
               ELSE [Sends(c, "login") EXCEPT ![c].resuming = call[c].stage]
    /\ UNCHANGED <<elapsed, bootstrapped>>

\* ProtectApiHttp.retrieve up to its request, for each answer of the breaker.
Retrieve(c) ==
    /\ In(c, "enter")
    /\ Admit(c) \/ Trip(c) \/ Hold(c) \/ Resume(c)
    /\ UNCHANGED <<sessionVars, isAdmin, configured, healthy>>

-----------------------------------------------------------------------------
(* Answers.                                                                *)

\* A request may fail while the controller is in trouble, or its connection is cut.
MayFail(c) == ~healthy \/ call[c].cut

\* An event of c's request; connections that were cut together fail together.
Answer(c) == In(c, "flight") /\ (Turn \/ call[c].cut)

MayRetry(c) == call[c].tries < MaxRetries

\* request: a transient failure is tried again, with the same agent and headers.
TriesAgain(c) ==
    /\ Answer(c)
    /\ Retried(c)
    /\ MayFail(c)
    /\ MayRetry(c)
    /\ call' = Becomes(c, [call[c] EXCEPT !.cut = FALSE, !.tries = @ + 1])
    /\ UNCHANGED <<breakerVars, sessionVars, apiVars, healthy>>

\* An error status, a network error or the timeout.  updateCameraChannels learns
\* of an error status itself, and counts it (Nothing).
Fails(c) ==
    /\ Answer(c)
    /\ MayFail(c)
    /\ Failed \/ (~Decoded(c) /\ UNCHANGED errors)
    /\ call' = Goes(c, "nothing")
    /\ UNCHANGED <<throttled, elapsed, sessionVars, apiVars, healthy>>

\* Deviation: a 401 that leaves the session as it is.
KeepsSession(c) ==
    /\ call' = Goes(c, "nothing")
    /\ UNCHANGED <<sessionVars, apiVars>>

\* A 401 ends the session, whichever session the request was sent with.
EndsSession(c) ==
    Logout(Goes(c, "nothing"))

\* The controller answers 401.
Rejected(c) ==
    /\ Answer(c)
    /\ ~call[c].cut
    /\ IF call[c].stage = "request" THEN CookieOf(c) # "valid" ELSE ~healthy
    /\ IF Decoded(c) THEN Failed /\ EndsSession(c)
       ELSE call' = Goes(c, "nothing") /\ UNCHANGED <<errors, sessionVars, apiVars>>
    /\ UNCHANGED <<throttled, elapsed, healthy>>

\* A login succeeds: its cookie and token go into the headers.
LoginAnswered(c) ==
    /\ call[c].stage \in {"login", "relogin"}
    /\ session' = "valid" /\ csrf' = TRUE
    /\ call' = LoggedIn(c)
    /\ UNCHANGED apiVars

\* The controller's page has the token a login may need.
TokenAnswered(c) ==
    /\ call[c].stage = "csrf"
    /\ csrf' = TRUE
    /\ call' = Enters(c, "relogin")
    /\ UNCHANGED <<session, apiVars>>

\* An answer without cookie or token: the login failed.
LoginUnusable(c) ==
    /\ call[c].stage # "request"
    /\ ~healthy
    /\ Logout(Goes(c, "denied"))

\* A bootstrap is installed, with the privileges of the user it names.
BootstrapAnswered(c) ==
    /\ call[c].stage = "request"
    /\ call[c].task = "bootstrap"
    /\ CookieOf(c) = "valid"
    /\ \/ /\ bootstrapped' = TRUE /\ isAdmin' = TRUE
          /\ call' = Goes(c, "connect")
       \/ /\ ~healthy
          /\ call' = TryAgain(c)
          /\ UNCHANGED <<bootstrapped, isAdmin>>
    /\ UNCHANGED <<sessionVars, configured>>

RequestAnswered(c) ==
    /\ call[c].stage = "request"
    /\ call[c].task # "bootstrap"
    /\ CookieOf(c) = "valid"
    /\ call' = Ends(c)
    /\ UNCHANGED <<sessionVars, apiVars>>

\* A request succeeds; updateCameraChannels itself clears the errors then.
Succeeds(c) ==
    /\ Answer(c)
    /\ ~call[c].cut
    /\ Succeeded
    /\ \/ LoginAnswered(c) \/ TokenAnswered(c) \/ LoginUnusable(c)
       \/ BootstrapAnswered(c) \/ RequestAnswered(c)
    /\ UNCHANGED <<elapsed, healthy>>

\* A login that failed for want of a CSRF token fetches one.
FetchesToken(c) ==
    /\ call[c].stage = "login" /\ ~csrf
    /\ call' = Enters(c, "csrf")
    /\ UNCHANGED <<errors, sessionVars, apiVars>>

LoginFails(c) ==
    /\ call[c].stage # "request"
    /\ call[c].stage = "login" => csrf
    /\ Logout(Goes(c, "denied"))
    /\ UNCHANGED errors

\* updateCameraChannels counts the failure, once more after a network error and
\* even if nothing was sent.
RequestFails(c) ==
    /\ call[c].stage = "request"
    /\ call' = TryAgain(c)
    /\ IF Decoded(c) THEN UNCHANGED errors ELSE Failed
    /\ UNCHANGED <<sessionVars, apiVars>>

\* retrieve returned nothing a caller could use.
Nothing(c) ==
    /\ In(c, "nothing")
    /\ FetchesToken(c) \/ LoginFails(c) \/ RequestFails(c)
    /\ UNCHANGED <<throttled, elapsed, healthy>>

\* The events channel is connected, or not: then the bootstrap failed as well.
Connects(c, succeeds) ==
    /\ Turn
    /\ In(c, "connect")
    /\ ~succeeds => ~healthy \/ ~bootstrapped
    /\ configured' = (configured \/ (succeeds /\ bootstrapped))
    /\ call' = IF succeeds THEN Ends(c) ELSE TryAgain(c)
    /\ UNCHANGED <<breakerVars, sessionVars, isAdmin, bootstrapped, healthy>>

-----------------------------------------------------------------------------
(* The environment.                                                        *)

\* The penalty interval (five minutes) is over; every request that was in flight
\* when it began has timed out long before.
IntervalElapses ==
    /\ throttled /\ ~elapsed
    /\ \A c \in Callers : ~In(c, "flight") /\ call[c].resuming = "no"
    /\ elapsed' = TRUE
    /\ UNCHANGED <<errors, throttled, sessionVars, apiVars, healthy, call>>

\* The controller gets into trouble, and out of it.
HealthChanges ==
    /\ Turn
    /\ healthy' = ~healthy
    /\ UNCHANGED <<breakerVars, sessionVars, apiVars, call>>

Expired(cookie) == IF cookie = "valid" THEN "expired" ELSE cookie

\* The controller forgets the sessions it gave out.
SessionsExpire ==
    /\ Turn
    /\ ~healthy
    /\ session' = Expired(session)
    /\ call' = [c \in Callers |-> [call[c] EXCEPT !.cookie = Expired(@)]]
    /\ UNCHANGED <<breakerVars, csrf, apiVars, healthy>>

Step(c) ==
    \/ LogIn(c) \/ Denied(c) \/ Retrieve(c) \/ Nothing(c)
    \/ TriesAgain(c) \/ Fails(c) \/ Rejected(c) \/ Succeeds(c)
    \/ \E succeeds \in BOOLEAN : Connects(c, succeeds)

Next ==
    \/ SignIn \/ BootstrapDue
    \/ \E c \in Devices, task \in {"read", "update", "channels", "listen"} : DeviceCalls(c, task)
    \/ \E c \in Callers : Step(c)
    \/ IntervalElapses \/ HealthChanges \/ SessionsExpire

Spec == Init /\ [][Next]_vars

\* Requests are answered or time out, timers fire, and each event gets its turn
\* however many others there are; devices call as they like.
Fairness ==
    /\ SF_vars(SignIn \/ BootstrapDue)
    /\ \A c \in Callers : SF_vars(Step(c))
    /\ WF_vars(IntervalElapses)

FairSpec == Spec /\ Fairness

-----------------------------------------------------------------------------
(* What the API promises.                                                  *)

\* While throttled there is no bootstrap: a trip removes it, and the late answer
\* that would install one lifts the throttle first.  Devices rely on it: they
\* take a bootstrap for a controller that can be reached (reset, retrieve).
ThrottledIsDown == throttled => ~bootstrapped

\* Who has a bootstrap knows the user's privileges, however many logouts other
\* callers cause meanwhile: logout drops both, a bootstrap brings both.
PrivilegesAreKnown == bootstrapped => isAdmin

\* A bootstrap can be used: the controller it is from can be reached, and what its
\* user may do is known (reset, retrieve, logout, checkAdminUserStatus).
BootstrapIsUsable == ThrottledIsDown /\ PrivilegesAreKnown

\* "While throttled, nothing reaches the controller": no request is sent for the
\* first time between a trip and the end of the interval or a late success, not
\* by the login that follows a penalty either.
IsSentAnew(c) == ~In(c, "flight") /\ call'[c].phase = "flight"

NewCallsAreHeld == [][\A c \in Callers : IsSentAnew(c) => ~throttled']_vars

\* Once the controller stays healthy the bootstrap comes back and stays, whatever
\* penalties, expired sessions and stale requests it left behind.
BootstrapReturns == <>[]healthy => <>[]bootstrapped

\* What the proofs of these need besides: the breaker is throttled only over the
\* limit, and only the stages of a login have a request waiting for them.
ThrottledIsOver == throttled => errors = ErrorLimit

OnlyLoginsResume ==
    \A c \in Callers : call[c].resuming # "no" =>
        /\ call[c].stage # "request"
        /\ call[c].phase \in {"enter", "nothing", "denied", "flight"}

ApiInv ==
    /\ TypeOK
    /\ ThrottledIsOver
    /\ ThrottledIsDown
    /\ PrivilegesAreKnown
    /\ OnlyLoginsResume

\* isThrottled: "During throttling: ... No network requests are made".
IsSentAgain(c) == call'[c].tries > call[c].tries

NothingSentWhileThrottled ==
    [][\A c \in Callers : IsSentAnew(c) \/ IsSentAgain(c) => ~throttled']_vars

=============================================================================
