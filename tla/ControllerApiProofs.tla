------------------------- MODULE ControllerApiProofs -------------------------
(***************************************************************************)
(* Proofs about ControllerApi: for any number of devices, any error limit  *)
(* and any number of retries, a throttled API has no bootstrap and begins  *)
(* no request, and a bootstrap always comes with its privileges.           *)
(***************************************************************************)
EXTENDS ControllerApi, TLAPS

\* What ApiInv says of one caller.
Fits(record) ==
    /\ record \in Call
    /\ record.resuming # "no" =>
        /\ record.stage # "request"
        /\ record.phase \in {"enter", "nothing", "denied", "flight"}

\* ... and of all of them, for any states they may move to.
Sound(calls) ==
    /\ calls \in [Callers -> Call]
    /\ \A d \in Callers : Fits(calls[d])

\* Nobody has a request in flight who had none.
Quiet(calls) ==
    \A d \in Callers : calls[d].phase = "flight" => call[d].phase = "flight"

LEMMA InvariantIsSound ==
    ASSUME ApiInv PROVE Sound(call) /\ Quiet(call) /\ session \in Cookies
BY DEF ApiInv, TypeOK, OnlyLoginsResume, Sound, Fits, Quiet

LEMMA RefreshCalls == Refresh \in Callers /\ Devices \subseteq Callers
BY DEF Callers

LEMMA IdleFits ==
    ASSUME NEW task \in Tasks
    PROVE  Fits(Idle(task)) /\ Idle(task).phase = "idle"
BY ConstantsAssumption DEF Fits, Idle, Call, Stages, Phases, Cookies

\* One caller moves.
LEMMA MoveIsSound ==
    ASSUME Sound(call), NEW c \in Callers, NEW record, Fits(record)
    PROVE  /\ Sound(Becomes(c, record))
           /\ record.phase # "flight" => Quiet(Becomes(c, record))
<1>1. record \in Call
  BY DEF Fits
<1> QED
  BY <1>1 DEF Sound, Quiet, Becomes

LEMMA GoesIsSound ==
    ASSUME Sound(call), NEW c \in Callers, NEW phase \in Phases \ {"flight"},
           call[c].resuming # "no" => phase \in {"nothing", "denied"}
    PROVE  Sound(Goes(c, phase)) /\ Quiet(Goes(c, phase))
<1> DEFINE record == [call[c] EXCEPT !.phase = phase]
<1>1. Fits(record) /\ record.phase # "flight"
  BY DEF Sound, Fits, Call
<1> QED
  BY <1>1, MoveIsSound DEF Goes

LEMMA EntersIsSound ==
    ASSUME Sound(call), NEW c \in Callers, NEW stage \in Stages,
           stage = "request" => call[c].resuming = "no"
    PROVE  Sound(Enters(c, stage)) /\ Quiet(Enters(c, stage))
<1> DEFINE record == [call[c] EXCEPT !.phase = "enter", !.stage = stage]
<1>1. Fits(record) /\ record.phase # "flight"
  BY DEF Sound, Fits, Call, Phases
<1> QED
  BY <1>1, MoveIsSound DEF Enters

LEMMA EndsIsSound ==
    ASSUME Sound(call), NEW c \in Callers
    PROVE  Sound(Ends(c)) /\ Quiet(Ends(c))
BY IdleFits, MoveIsSound DEF Ends, Tasks

LEMMA SendsIsSound ==
    ASSUME Sound(call), NEW c \in Callers, NEW stage \in Stages
    PROVE  Sound(Sends(c, stage))
<1> DEFINE record == [call[c] EXCEPT !.phase = "flight", !.stage = stage, !.resuming = "no",
                                     !.cookie = "shared", !.cut = FALSE, !.tries = 0]
<1>1. call[c] \in Call
  BY DEF Sound
<1>2. "flight" \in Phases /\ 0 \in 0 .. MaxRetries
  BY ConstantsAssumption DEF Phases
<1>3. record \in Call /\ record.resuming = "no"
  BY <1>1, <1>2 DEF Call
<1>4. Fits(record)
  BY <1>3 DEF Fits
<1> QED
  BY <1>4, MoveIsSound DEF Sends

LEMMA TryAgainIsSound ==
    ASSUME Sound(call), NEW c \in Callers, call[c].resuming = "no"
    PROVE  Sound(TryAgain(c)) /\ Quiet(TryAgain(c))
<1> DEFINE record == [call[c] EXCEPT !.phase = "auth", !.again = FALSE]
<1>1. Fits(record) /\ record.phase # "flight"
  BY DEF Sound, Fits, Call, Phases
<1>2. Sound(Becomes(c, record)) /\ Quiet(Becomes(c, record))
  BY <1>1, MoveIsSound
<1> QED
  BY <1>2, EndsIsSound DEF TryAgain

\* A caller that is logged in goes on, and only one who waited for the login of a
\* resumption sends at once.
LEMMA LoggedInIsSound ==
    ASSUME Sound(call), NEW c \in Callers
    PROVE  /\ Sound(LoggedIn(c))
           /\ call[c].resuming = "no" => Quiet(LoggedIn(c))
<1>1. CASE call[c].resuming # "no"
  <2>1. call[c].resuming \in Stages
    BY <1>1 DEF Sound, Call
  <2> QED
    BY <1>1, <2>1, SendsIsSound DEF LoggedIn
<1>2. CASE call[c].resuming = "no"
  <2> DEFINE record == [Idle("bootstrap") EXCEPT !.phase = "auth", !.again = TRUE]
  <2>1. Fits(Idle("bootstrap")) /\ Idle("bootstrap").resuming = "no"
    BY IdleFits DEF Tasks, Idle
  <2>2. Fits(record) /\ record.phase # "flight"
    BY <2>1 DEF Fits, Call, Phases
  <2>3. Sound(Becomes(c, record)) /\ Quiet(Becomes(c, record))
    BY <2>2, MoveIsSound
  <2>4. Sound(Enters(c, "request")) /\ Quiet(Enters(c, "request"))
    BY <1>2, EntersIsSound DEF Stages
  <2> QED
    BY <1>2, <2>3, <2>4, EndsIsSound DEF LoggedIn
<1> QED
  BY <1>1, <1>2

\* reset and logout change neither the phase nor the stage of anyone.
LEMMA CutOffIsSound ==
    ASSUME NEW calls, Sound(calls)
    PROVE  Sound(CutOff(calls)) /\ (Quiet(calls) => Quiet(CutOff(calls)))
BY DEF Sound, Fits, Quiet, CutOff, Call

LEMMA LeaveHeadersIsSound ==
    ASSUME NEW calls, Sound(calls), session \in Cookies
    PROVE  Sound(LeaveHeaders(calls)) /\ (Quiet(calls) => Quiet(LeaveHeaders(calls)))
BY DEF Sound, Fits, Quiet, LeaveHeaders, Call, Cookies

LEMMA LogoutIsSound ==
    ASSUME NEW calls, Sound(calls), Quiet(calls), session \in Cookies, Logout(calls)
    PROVE  /\ Sound(call') /\ Quiet(call')
           /\ ~bootstrapped' /\ session' \in Cookies
           /\ isAdmin' \in BOOLEAN /\ bootstrapped' \in BOOLEAN
           /\ UNCHANGED <<csrf, configured>>
BY LeaveHeadersIsSound, CutOffIsSound DEF Logout, Reset, Cookies

-----------------------------------------------------------------------------
(* The callers.                                                            *)

\* What a step does to the callers.
Moves == Sound(call') /\ Quiet(call')

LEMMA RetrieveMoves ==
    ASSUME ApiInv, NEW c \in Callers, Retrieve(c)
    PROVE  Sound(call') /\ (Quiet(call') \/ ~throttled')
<1>1. Sound(call) /\ errors \in Nat /\ (throttled => errors = ErrorLimit)
  BY InvariantIsSound DEF ApiInv, TypeOK, ThrottledIsOver
<1>2. call[c].stage \in Stages
  BY <1>1 DEF Sound, Call
<1>3. CASE Admit(c)
  <2>1. Sound(call')
    BY <1>1, <1>2, <1>3, SendsIsSound DEF Admit
  <2>2. ~throttled /\ throttled' = throttled
    BY <1>1, <1>3, ConstantsAssumption DEF Admit, Closed, breakerVars
  <2> QED
    BY <2>1, <2>2
<1>4. CASE Trip(c)
  BY <1>1, <1>4, GoesIsSound, CutOffIsSound DEF Trip, Reset, Phases
<1>5. CASE Hold(c)
  BY <1>1, <1>5, GoesIsSound DEF Hold, Phases
<1>6. CASE Resume(c)
  <2>1. CASE IsLoggedIn
    BY <1>1, <1>2, <1>6, <2>1, SendsIsSound DEF Resume
  <2>2. CASE ~IsLoggedIn
    <3>1. Sound(Sends(c, "login"))
      BY <1>1, SendsIsSound DEF Stages
    <3>2. Sends(c, "login")[c].phase = "flight" /\ Sends(c, "login")[c].stage = "login"
      BY <1>1 DEF Sends, Becomes, Sound, Call
    <3>3. call' = [Sends(c, "login") EXCEPT ![c] = [Sends(c, "login")[c] EXCEPT !.resuming = call[c].stage]]
      BY <1>6, <2>2 DEF Resume
    <3>4. Fits([Sends(c, "login")[c] EXCEPT !.resuming = call[c].stage])
      BY <1>2, <3>1, <3>2 DEF Sound, Fits, Call
    <3>5. Sound(call')
      BY <3>1, <3>3, <3>4 DEF Sound, Fits
    <3> QED
      BY <1>6, <3>5 DEF Resume
  <2> QED
    BY <2>1, <2>2
<1> QED
  BY <1>3, <1>4, <1>5, <1>6 DEF Retrieve

LEMMA SucceedsMoves ==
    ASSUME ApiInv, NEW c \in Callers, Succeeds(c)
    PROVE  Sound(call') /\ ~throttled' /\ session' \in Cookies
<1>1. Sound(call) /\ session \in Cookies
  BY InvariantIsSound
<1>2. ~throttled'
  BY DEF Succeeds, Succeeded
<1>3. CASE LoginAnswered(c)
  BY <1>1, <1>2, <1>3, LoggedInIsSound DEF LoginAnswered, Cookies
<1>4. CASE TokenAnswered(c)
  BY <1>1, <1>2, <1>4, EntersIsSound DEF TokenAnswered, Stages
<1>5. CASE LoginUnusable(c)
  <2>1. Sound(Goes(c, "denied")) /\ Quiet(Goes(c, "denied"))
    BY <1>1, GoesIsSound DEF Phases
  <2> QED
    BY <1>1, <1>2, <1>5, <2>1, LogoutIsSound DEF LoginUnusable
<1>6. CASE BootstrapAnswered(c)
  <2>1. call[c].resuming = "no"
    BY <1>1, <1>6 DEF BootstrapAnswered, Sound, Fits
  <2>2. session' = session
    BY <1>6 DEF BootstrapAnswered, sessionVars
  <2>3. call' = Goes(c, "connect") \/ call' = TryAgain(c)
    BY <1>6 DEF BootstrapAnswered
  <2> QED
    BY <1>1, <1>2, <2>1, <2>2, <2>3, GoesIsSound, TryAgainIsSound DEF Phases
<1>7. CASE RequestAnswered(c)
  BY <1>1, <1>2, <1>7, EndsIsSound DEF RequestAnswered, sessionVars
<1> QED
  BY <1>3, <1>4, <1>5, <1>6, <1>7 DEF Succeeds

LEMMA NothingMoves ==
    ASSUME ApiInv, NEW c \in Callers, Nothing(c)
    PROVE  Moves /\ session' \in Cookies
<1>1. Sound(call) /\ session \in Cookies
  BY InvariantIsSound
<1>2. CASE FetchesToken(c)
  BY <1>1, <1>2, EntersIsSound DEF FetchesToken, Moves, Stages, sessionVars
<1>3. CASE LoginFails(c)
  <2>1. Sound(Goes(c, "denied")) /\ Quiet(Goes(c, "denied"))
    BY <1>1, GoesIsSound DEF Phases
  <2> QED
    BY <1>1, <1>3, <2>1, LogoutIsSound DEF LoginFails, Moves
<1>4. CASE RequestFails(c)
  <2>1. call[c].resuming = "no"
    BY <1>1, <1>4 DEF RequestFails, Sound, Fits
  <2> QED
    BY <1>1, <1>4, <2>1, TryAgainIsSound DEF RequestFails, Moves, sessionVars
<1> QED
  BY <1>2, <1>3, <1>4 DEF Nothing

LEMMA RejectedMoves ==
    ASSUME ApiInv, NEW c \in Callers, Rejected(c)
    PROVE  Moves /\ session' \in Cookies
<1>1. Sound(call) /\ session \in Cookies
  BY InvariantIsSound
<1>2. Sound(Goes(c, "nothing")) /\ Quiet(Goes(c, "nothing"))
  BY <1>1, GoesIsSound DEF Phases
<1>3. CASE Decoded(c)
  BY <1>1, <1>2, <1>3, LogoutIsSound DEF Rejected, EndsSession, Moves
<1>4. CASE ~Decoded(c)
  BY <1>1, <1>2, <1>4 DEF Rejected, Moves, sessionVars
<1> QED
  BY <1>3, <1>4

LEMMA DeniedMoves ==
    ASSUME ApiInv, NEW c \in Callers, Denied(c)
    PROVE  Moves
<1>1. Sound(call)
  BY InvariantIsSound
<1>2. CASE call[c].resuming # "no"
  <2> DEFINE record == [call[c] EXCEPT !.phase = "nothing", !.stage = call[c].resuming,
                                       !.resuming = "no"]
  <2>1. Fits(record) /\ record.phase # "flight"
    BY <1>1, <1>2 DEF Sound, Fits, Call, Phases
  <2> QED
    BY <1>1, <1>2, <2>1, MoveIsSound DEF Denied, Moves
<1>3. CASE call[c].resuming = "no"
  <2>1. Sound(Becomes(c, Idle("signIn"))) /\ Quiet(Becomes(c, Idle("signIn")))
    BY <1>1, IdleFits, MoveIsSound DEF Tasks
  <2> QED
    BY <1>1, <1>3, <2>1, TryAgainIsSound DEF Denied, Moves
<1> QED
  BY <1>2, <1>3

LEMMA TriesAgainMoves ==
    ASSUME ApiInv, NEW c \in Callers, TriesAgain(c)
    PROVE  Moves
<1> DEFINE record == [call[c] EXCEPT !.cut = FALSE, !.tries = @ + 1]
<1>1. Sound(call) /\ Quiet(call) /\ In(c, "flight")
  BY InvariantIsSound DEF TriesAgain, Answer
<1>2. call[c].tries + 1 \in 0 .. MaxRetries
  BY <1>1, ConstantsAssumption DEF TriesAgain, MayRetry, Sound, Call
<1>3. Fits(record) /\ record.phase = "flight"
  BY <1>1, <1>2 DEF Sound, Fits, Call, In
<1>4. call' = Becomes(c, record)
  BY DEF TriesAgain
<1>5. Sound(call')
  BY <1>1, <1>3, <1>4, MoveIsSound
<1>6. Quiet(call')
  BY <1>1, <1>4 DEF Quiet, In, Becomes, Sound
<1> QED
  BY <1>5, <1>6 DEF Moves

LEMMA SessionsExpireMoves ==
    ASSUME ApiInv, SessionsExpire
    PROVE  Moves /\ session' \in Cookies
<1>1. Sound(call) /\ Quiet(call) /\ session \in Cookies
  BY InvariantIsSound
<1>2. ASSUME NEW d \in Callers
      PROVE  Fits(call'[d]) /\ call'[d].phase = call[d].phase
  BY <1>1 DEF SessionsExpire, Expired, Sound, Fits, Call, Cookies
<1>3. Sound(call') /\ Quiet(call')
  BY <1>1, <1>2 DEF SessionsExpire, Sound, Quiet, Fits
<1> QED
  BY <1>1, <1>3 DEF Moves, SessionsExpire, Expired, Cookies

\* No step lets a request begin, unless the throttle is off after it.
LEMMA CallersStaySound ==
    ASSUME ApiInv, [Next]_vars
    PROVE  /\ Sound(call') /\ (Quiet(call') \/ ~throttled')
           /\ session' \in Cookies
<1>1. Sound(call) /\ Quiet(call) /\ session \in Cookies
  BY InvariantIsSound
<1>2. CASE SignIn
  <2>1. Sound(Goes(Refresh, "auth")) /\ Quiet(Goes(Refresh, "auth"))
    BY <1>1, <1>2, RefreshCalls, GoesIsSound DEF SignIn, In, Sound, Fits, Phases
  <2> QED
    BY <1>1, <1>2, <2>1, LogoutIsSound DEF SignIn
<1>3. CASE BootstrapDue
  <2> DEFINE record == [call[Refresh] EXCEPT !.phase = "auth", !.again = TRUE]
  <2>1. Fits(record) /\ record.phase # "flight"
    BY <1>1, <1>3, RefreshCalls DEF BootstrapDue, In, Sound, Fits, Call, Phases
  <2> QED
    BY <1>1, <1>3, <2>1, RefreshCalls, MoveIsSound DEF BootstrapDue, sessionVars
<1>4. ASSUME NEW c \in Devices, NEW task \in {"read", "update", "channels", "listen"},
             DeviceCalls(c, task)
      PROVE  Sound(call') /\ Quiet(call') /\ session' \in Cookies
  <2> DEFINE record == [Idle(task) EXCEPT !.phase = "auth"]
  <2>1. Fits(Idle(task)) /\ Idle(task).resuming = "no"
    BY IdleFits DEF Tasks, Idle
  <2>2. Fits(record) /\ record.phase # "flight"
    BY <2>1 DEF Fits, Call, Phases
  <2> QED
    BY <1>1, <1>4, <2>2, RefreshCalls, MoveIsSound DEF DeviceCalls, sessionVars
<1>5. ASSUME NEW c \in Callers, Step(c)
      PROVE  /\ Sound(call') /\ (Quiet(call') \/ ~throttled')
             /\ session' \in Cookies
  <2>1. CASE LogIn(c)
    <3>1. call[c].resuming = "no"
      BY <1>1, <2>1 DEF LogIn, In, Sound, Fits
    <3> QED
      BY <1>1, <2>1, <3>1, LoggedInIsSound, EntersIsSound DEF LogIn, Stages, sessionVars
  <2>2. CASE Denied(c)
    BY <1>1, <2>2, DeniedMoves DEF Moves, Denied, sessionVars
  <2>3. CASE Retrieve(c)
    BY <1>1, <2>3, RetrieveMoves DEF Retrieve, sessionVars
  <2>4. CASE Nothing(c)
    BY <2>4, NothingMoves DEF Moves
  <2>5. CASE TriesAgain(c)
    BY <1>1, <2>5, TriesAgainMoves DEF Moves, TriesAgain, sessionVars
  <2>6. CASE Fails(c)
    BY <1>1, <2>6, GoesIsSound DEF Fails, Phases, sessionVars
  <2>7. CASE Rejected(c)
    BY <2>7, RejectedMoves DEF Moves
  <2>8. CASE Succeeds(c)
    BY <2>8, SucceedsMoves
  <2>9. ASSUME NEW succeeds \in BOOLEAN, Connects(c, succeeds)
        PROVE  Sound(call') /\ Quiet(call') /\ session' \in Cookies
    <3>1. call[c].resuming = "no"
      BY <1>1, <2>9 DEF Connects, In, Sound, Fits
    <3> QED
      BY <1>1, <2>9, <3>1, EndsIsSound, TryAgainIsSound DEF Connects, sessionVars
  <2> QED
    BY <1>5, <2>1, <2>2, <2>3, <2>4, <2>5, <2>6, <2>7, <2>8, <2>9 DEF Step
<1>6. CASE IntervalElapses \/ HealthChanges \/ UNCHANGED vars
  BY <1>1, <1>6 DEF IntervalElapses, HealthChanges, vars, sessionVars, Sound, Quiet
<1>7. CASE SessionsExpire
  BY <1>7, SessionsExpireMoves DEF Moves
<1> QED
  BY <1>2, <1>3, <1>4, <1>5, <1>6, <1>7 DEF Next

-----------------------------------------------------------------------------
(* The breaker and what a bootstrap stands for.                            *)

Flags ==
    /\ throttled \in BOOLEAN /\ elapsed \in BOOLEAN /\ csrf \in BOOLEAN
    /\ isAdmin \in BOOLEAN /\ bootstrapped \in BOOLEAN /\ configured \in BOOLEAN
    /\ healthy \in BOOLEAN

LEMMA BreakerStaysOver ==
    ASSUME ApiInv, [Next]_vars
    PROVE  errors' \in 0 .. ErrorLimit /\ (throttled' => errors' = ErrorLimit)
<1> USE ConstantsAssumption
<1>1. errors \in 0 .. ErrorLimit /\ (throttled => errors = ErrorLimit)
  BY DEF ApiInv, TypeOK, ThrottledIsOver
<1>2. ASSUME NEW c \in Callers, Retrieve(c)
      PROVE  errors' \in 0 .. ErrorLimit /\ (throttled' => errors' = ErrorLimit)
  BY <1>1, <1>2 DEF Retrieve, Admit, Trip, Hold, Resume, Closed, breakerVars
<1>3. ASSUME NEW c \in Callers, Fails(c) \/ Rejected(c) \/ Nothing(c)
      PROVE  errors' \in 0 .. ErrorLimit /\ (throttled' => errors' = ErrorLimit)
  <2>1. throttled' = throttled /\ (Failed \/ errors' = errors)
    BY <1>3 DEF Fails, Rejected, Nothing, FetchesToken, LoginFails, RequestFails
  <2> QED
    BY <1>1, <2>1 DEF Failed
<1>4. ASSUME NEW c \in Callers, Succeeds(c)
      PROVE  errors' \in 0 .. ErrorLimit /\ (throttled' => errors' = ErrorLimit)
  BY <1>4 DEF Succeeds, Succeeded
<1>5. ASSUME NEW c \in Callers, LogIn(c) \/ Denied(c) \/ TriesAgain(c)
      PROVE  errors' = errors /\ throttled' = throttled
  BY <1>5 DEF LogIn, Denied, TriesAgain, breakerVars
<1>6. ASSUME NEW c \in Callers, NEW succeeds \in BOOLEAN, Connects(c, succeeds)
      PROVE  errors' = errors /\ throttled' = throttled
  BY <1>6 DEF Connects, breakerVars
<1>7. ASSUME NEW c \in Devices, NEW task \in {"read", "update", "channels", "listen"},
             DeviceCalls(c, task)
      PROVE  errors' = errors /\ throttled' = throttled
  BY <1>7 DEF DeviceCalls, breakerVars
<1>8. ASSUME SignIn \/ BootstrapDue \/ IntervalElapses \/ HealthChanges \/ SessionsExpire \/ UNCHANGED vars
      PROVE  errors' = errors /\ throttled' = throttled
  BY <1>8 DEF SignIn, BootstrapDue, IntervalElapses, HealthChanges, SessionsExpire, vars, breakerVars
<1> QED
  BY <1>1, <1>2, <1>3, <1>4, <1>5, <1>6, <1>7, <1>8 DEF Next, Step

\* A step loses the bootstrap, brings one with its privileges and lifts the
\* throttle, or leaves both alone and does not throttle.
LEMMA BootstrapSteps ==
    ASSUME ApiInv, [Next]_vars
    PROVE  \/ ~bootstrapped' /\ bootstrapped' \in BOOLEAN /\ (isAdmin' = FALSE \/ isAdmin' = isAdmin)
           \/ bootstrapped' = TRUE /\ isAdmin' = TRUE /\ throttled' = FALSE
           \/ /\ bootstrapped' = bootstrapped /\ isAdmin' = isAdmin
              /\ throttled' = FALSE \/ throttled' = throttled
<1> DEFINE Goal ==
           \/ ~bootstrapped' /\ bootstrapped' \in BOOLEAN /\ (isAdmin' = FALSE \/ isAdmin' = isAdmin)
           \/ bootstrapped' = TRUE /\ isAdmin' = TRUE /\ throttled' = FALSE
           \/ /\ bootstrapped' = bootstrapped /\ isAdmin' = isAdmin
              /\ throttled' = FALSE \/ throttled' = throttled
<1>1. ASSUME NEW calls, Logout(calls) PROVE Goal
  BY <1>1 DEF Logout, Reset
<1>2. CASE SignIn
  BY <1>1, <1>2 DEF SignIn
<1>3. ASSUME NEW c \in Callers, Step(c) PROVE Goal
  <2>1. CASE LogIn(c) \/ Denied(c) \/ TriesAgain(c)
    BY <2>1 DEF LogIn, Denied, TriesAgain, breakerVars, apiVars
  <2>2. CASE Retrieve(c)
    BY <2>2 DEF Retrieve, Admit, Trip, Hold, Resume, Reset, breakerVars
  <2>3. CASE Nothing(c)
    BY <1>1, <2>3 DEF Nothing, FetchesToken, LoginFails, RequestFails, apiVars
  <2>4. CASE Fails(c)
    BY <2>4 DEF Fails, apiVars
  <2>5. CASE Rejected(c)
    BY <1>1, <2>5 DEF Rejected, EndsSession, apiVars
  <2>6. CASE Succeeds(c)
    <3>1. throttled' = FALSE
      BY <2>6 DEF Succeeds, Succeeded
    <3> QED
      BY <1>1, <2>6, <3>1
         DEF Succeeds, LoginAnswered, TokenAnswered, LoginUnusable, BootstrapAnswered,
             RequestAnswered, apiVars
  <2>7. ASSUME NEW succeeds \in BOOLEAN, Connects(c, succeeds) PROVE Goal
    BY <2>7 DEF Connects, breakerVars
  <2> QED
    BY <1>3, <2>1, <2>2, <2>3, <2>4, <2>5, <2>6, <2>7 DEF Step
<1>4. ASSUME NEW c \in Devices, NEW task \in {"read", "update", "channels", "listen"},
             DeviceCalls(c, task)
      PROVE  Goal
  BY <1>4 DEF DeviceCalls, breakerVars, apiVars
<1>5. ASSUME BootstrapDue \/ IntervalElapses \/ HealthChanges \/ SessionsExpire \/ UNCHANGED vars
      PROVE  Goal
  BY <1>5 DEF BootstrapDue, IntervalElapses, HealthChanges, SessionsExpire, vars, breakerVars, apiVars
<1> QED
  BY <1>2, <1>3, <1>4, <1>5 DEF Next

LEMMA FlagsStay ==
    ASSUME ApiInv, [Next]_vars PROVE Flags'
<1> DEFINE Flag(old, new) == new = old \/ new = TRUE \/ new = FALSE
           Goal == /\ Flag(throttled, throttled') /\ Flag(elapsed, elapsed')
                   /\ Flag(csrf, csrf') /\ Flag(configured, configured')
                   /\ Flag(healthy, healthy')
<1>1. Flags
  BY DEF ApiInv, TypeOK, Flags
<1>2. isAdmin' \in BOOLEAN /\ bootstrapped' \in BOOLEAN
  BY <1>1, BootstrapSteps DEF Flags
<1>3. ASSUME NEW calls, Logout(calls)
      PROVE  Flag(csrf, csrf') /\ Flag(configured, configured')
  BY <1>3 DEF Logout
<1>4. ASSUME NEW c \in Callers, Step(c) PROVE Goal
  <2>1. CASE LogIn(c) \/ Denied(c) \/ TriesAgain(c)
    BY <2>1 DEF LogIn, Denied, TriesAgain, breakerVars, sessionVars, apiVars
  <2>2. CASE Retrieve(c)
    BY <2>2 DEF Retrieve, Admit, Trip, Hold, Resume, breakerVars, sessionVars
  <2>3. CASE Nothing(c)
    BY <1>3, <2>3 DEF Nothing, FetchesToken, LoginFails, RequestFails, sessionVars, apiVars
  <2>4. CASE Fails(c)
    BY <2>4 DEF Fails, sessionVars, apiVars
  <2>5. CASE Rejected(c)
    BY <1>3, <2>5 DEF Rejected, EndsSession, sessionVars, apiVars
  <2>6. CASE Succeeds(c)
    <3>1. throttled' = FALSE /\ elapsed' = elapsed /\ healthy' = healthy
      BY <2>6 DEF Succeeds, Succeeded
    <3>2. Flag(csrf, csrf') /\ Flag(configured, configured')
      BY <1>3, <2>6
         DEF Succeeds, LoginAnswered, TokenAnswered, LoginUnusable, BootstrapAnswered,
             RequestAnswered, sessionVars, apiVars
    <3> QED
      BY <3>1, <3>2
  <2>7. ASSUME NEW succeeds \in BOOLEAN, Connects(c, succeeds) PROVE Goal
    <3>1. Flag(configured, configured')
      BY <2>7 DEF Connects
    <3>2. UNCHANGED <<throttled, elapsed, csrf, healthy>>
      BY <2>7 DEF Connects, breakerVars, sessionVars
    <3> QED
      BY <3>1, <3>2
  <2> QED
    BY <1>4, <2>1, <2>2, <2>3, <2>4, <2>5, <2>6, <2>7 DEF Step
<1>5. ASSUME NEW c \in Devices, NEW task \in {"read", "update", "channels", "listen"},
             DeviceCalls(c, task)
      PROVE  Goal
  BY <1>5 DEF DeviceCalls, breakerVars, sessionVars, apiVars
<1>6. ASSUME SignIn PROVE Goal
  BY <1>3, <1>6 DEF SignIn, breakerVars
<1>7. ASSUME HealthChanges PROVE Goal
  <2>1. Flag(healthy, healthy')
    BY <1>7 DEF HealthChanges
  <2> QED
    BY <1>7, <2>1 DEF HealthChanges, breakerVars, sessionVars, apiVars
<1>8. ASSUME BootstrapDue \/ IntervalElapses \/ SessionsExpire \/ UNCHANGED vars PROVE Goal
  BY <1>8 DEF BootstrapDue, IntervalElapses, SessionsExpire, vars, breakerVars, sessionVars, apiVars
<1>9. Goal
  BY <1>4, <1>5, <1>6, <1>7, <1>8 DEF Next
<1> QED
  BY <1>1, <1>2, <1>9 DEF Flags

-----------------------------------------------------------------------------
(* The inductive invariant and what follows from it.                       *)

LEMMA InitApiInv == Init => ApiInv
<1> SUFFICES ASSUME Init PROVE ApiInv
  OBVIOUS
<1>1. errors \in 0 .. ErrorLimit /\ session \in Cookies
  BY ConstantsAssumption DEF Init, Cookies
<1>2. Flags /\ ~throttled /\ ~bootstrapped
  BY DEF Init, Flags
<1>3. call \in [Callers -> Call] /\ \A c \in Callers : call[c].resuming = "no"
  <2>1. Idle("signIn") \in Call /\ Idle("read") \in Call
    BY IdleFits DEF Fits, Tasks
  <2> QED
    BY <2>1 DEF Init, Idle
<1> QED
  BY <1>1, <1>2, <1>3
     DEF ApiInv, TypeOK, Flags, ThrottledIsOver, ThrottledIsDown, PrivilegesAreKnown, OnlyLoginsResume

LEMMA NextKeepsApiInv ==
    ASSUME ApiInv, [Next]_vars PROVE ApiInv'
<1>1. Flags'
  BY FlagsStay
<1>2. Sound(call') /\ session' \in Cookies
  BY CallersStaySound
<1>3. errors' \in 0 .. ErrorLimit /\ ThrottledIsOver'
  BY BreakerStaysOver DEF ThrottledIsOver
<1>4. ThrottledIsDown' /\ PrivilegesAreKnown'
  <2>1. (throttled => ~bootstrapped) /\ (bootstrapped => isAdmin)
    BY DEF ApiInv, ThrottledIsDown, PrivilegesAreKnown
  <2>2. CASE ~bootstrapped'
    BY <2>2 DEF ThrottledIsDown, PrivilegesAreKnown
  <2>3. CASE bootstrapped' = TRUE /\ isAdmin' = TRUE /\ throttled' = FALSE
    BY <2>3 DEF ThrottledIsDown, PrivilegesAreKnown
  <2>4. CASE /\ bootstrapped' = bootstrapped /\ isAdmin' = isAdmin
             /\ throttled' = FALSE \/ throttled' = throttled
    <3>1. (throttled' => ~bootstrapped') /\ (bootstrapped' => isAdmin')
      BY <2>1, <2>4
    <3> QED
      BY <3>1 DEF ThrottledIsDown, PrivilegesAreKnown
  <2> QED
    BY <2>2, <2>3, <2>4, BootstrapSteps
<1>5. TypeOK'
  BY <1>1, <1>2, <1>3 DEF TypeOK, Flags, Sound
<1>6. OnlyLoginsResume'
  BY <1>2 DEF OnlyLoginsResume, Sound, Fits
<1> QED
  BY <1>3, <1>4, <1>5, <1>6 DEF ApiInv

\* The invariant that carries the others: a throttled breaker is over its limit,
\* so that no request is admitted by the closed breaker while throttled.
THEOREM ApiIsSound == Spec => []ApiInv
<1>1. Init => ApiInv
  BY InitApiInv
<1>2. ApiInv /\ [Next]_vars => ApiInv'
  BY NextKeepsApiInv
<1> QED
  BY <1>1, <1>2, PTL DEF Spec

\* Every variable keeps its type: no retry goes beyond MaxRetries, no error beyond
\* the limit.
THEOREM TypeCorrect == Spec => []TypeOK
<1>1. ApiInv => TypeOK
  BY DEF ApiInv
<1> QED
  BY <1>1, ApiIsSound, PTL

\* reset, at a trip, and the success that lifts the throttle agree: a throttled
\* API has no bootstrap, however late an answer arrives.  logout and
\* checkAdminUserStatus agree: no caller's logout leaves another one a bootstrap
\* whose privileges are forgotten.
THEOREM BootstrapStaysUsable == Spec => []BootstrapIsUsable
<1>1. ApiInv => BootstrapIsUsable
  BY DEF ApiInv, BootstrapIsUsable
<1> QED
  BY <1>1, ApiIsSound, PTL

\* retrieve sends no new request while the breaker is throttled, in the login that
\* follows a penalty and in the requests of other callers meanwhile either.
THEOREM CallsAreHeld == Spec => NewCallsAreHeld
<1>1. ASSUME ApiInv, [Next]_vars
      PROVE  \A c \in Callers : IsSentAnew(c) => ~throttled'
  BY <1>1, CallersStaySound DEF IsSentAnew, Quiet, In
<1>2. ApiInv /\ [Next]_vars => [\A c \in Callers : IsSentAnew(c) => ~throttled']_vars
  BY <1>1
<1> QED
  BY <1>2, ApiIsSound, PTL DEF Spec, NewCallsAreHeld

=============================================================================
