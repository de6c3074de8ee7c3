# A TLA+ model of homebridge-unifi-protect

This directory holds a model of the plugin: TLA+ modules translated from the
TypeScript under `src/src/` and from the configuration interface under
`src/homebridge-ui/`, TLC configurations that check them on small instances, and
proofs, checked by TLAPS, that hold for every value of the constants. `PROJECT.json` lists
the components, the runs, the source lines behind each definition, the hazards and the theorems.

File names below are relative to `src/src/` unless said otherwise.

    tlc -workers 2 -config LivestreamManager_pool.cfg LivestreamManager
    tlapm LivestreamManagerProofs.tla

## 1. The system

The plugin is one Node.js process. Everything runs on one thread, in turns: a
piece of code runs until it returns or awaits, and at each `await` any other
callback may run. There is no parallelism, and yet almost all of what is hard here
is concurrency: state that is read before an await and used after it, events of
an object that was replaced meanwhile, timers that race the thing they wait for.

| Component | State it keeps | Operations | Talks to |
|---|---|---|---|
| Controller API (`unifi/protect-api.ts`, `-session.ts`, `-http.ts`, `-circuit-breaker.ts`, `lib/request.ts`) | session headers, bootstrap, privileges, error count and throttle, connection pool | login, logout, reset, getBootstrap, retrieve, updateDevice, enableRtsp, getWsEndpoint, getSnapshot | the controller over HTTPS; owns the events channel; called by the NVR and by devices |
| Events channel (`unifi/protect-api-events-channel.ts`) | the socket that is available, the reconnect timer, an emit queue per socket | connect, close, the socket's listeners | a WebSocket client; the API's session |
| WebSocket client (`lib/websocket.ts`) | readyState, buffers, fragments, heartbeat and close timers | connect, close, terminate, the frame loop | a TLS socket; used by the events channel and the livestreams |
| Livestream session (`unifi/protect-api-livestream.ts`) | its websocket, an abort controller, a heartbeat, the initialization segment | start, stop, getInitSegment, the packet loop | getWsEndpoint; a WebSocket client |
| Livestream pool (`protect-livestream.ts`) | per index: the livestream, its listeners, subscriber count, generation, restart mark, watchdog | acquire, start, stop, shutdown, the restart and segment handlers | livestream sessions or FFmpeg processes; timeshift buffer and streaming sessions call it |
| Timeshift buffer and HKSV recording (`protect-timeshift.ts`, `protect-record.ts`, `lib/ffmpeg/recording-process.ts`) | segment buffer and its listeners, recording state, the FFmpeg process of a recording and its generator | start, stop, transmitStart, updateRecordingActive, handleRecordingStreamRequest, closeRecordingStream | the pool, FFmpeg, HomeKit |
| Streaming delegate (`protect-stream.ts`, `lib/ffmpeg/stream.ts`, `lib/ffmpeg/rtp.ts`, `protect-talkback.ts`) | pending and ongoing sessions, UDP ports, demuxers, callbacks | prepareStream, startStream, stopStream, shutdown, reserve, cancel | the pool, FFmpeg, HomeKit |
| Snapshots (`protect-snapshot.ts`) | the cached image, attempts under way | getSnapshot and its sources | the API, FFmpeg, the timeshift buffer |
| FFmpeg processes (`lib/ffmpeg/`) | the child process, its timers, who waits for its output, an unfinished box | start, stop, the output parsers | the operating system |
| NVR and device synchronisation (`protect-nvr.ts`, `protect-platform.ts`) | accessories, configured devices and their ids, the removal queue | discoverAndSyncAccessories, addHomeKitDevice, removeHomeKitDevice | the API, Homebridge |
| Events and event timers (`protect-events.ts`) | timers by MAC address, what is known of devices | motion, smart detection, doorbell, access and adoption handlers | HomeKit services, MQTT |
| Devices (`devices/`) | what HomeKit shows, messages, RTSP entries, resolutions offered | characteristic and update handlers | the API |
| Security system and liveviews (`devices/protect-securitysystem.ts`, `-liveviews.ts`) | state, alarm, scenes | setSecurityState, setSecurityAlarm, configureSwitches | the cameras' motion detection |
| MQTT (`lib/mqttclient.ts`, `lib/mqtt-connection.ts`) | connection, subscriptions, packets that wait, three timers | subscribe, unsubscribe, publish, end | a broker |
| Feature options (`lib/featureoptions.ts`) and their interface (`homebridge-ui/public/modules/`) | the entries of the configuration | test, value; setOption, removeOption | everything |
| Configuration server (`homebridge-ui/server.js`) | errors kept for pages, logins under way | getDevices, getErrorMessage, discover | the controller |
| Playlist servers (`protect-playlist.ts`) | a listening socket, a retry | start, close | one port of the host |

Who calls whom, in short: the NVR signs in and refreshes the bootstrap; the bootstrap
connects the events channel; updates drive the devices; HomeKit asks the streaming
delegate and the recorder for video, and both take it from the livestream pool,
which opens livestream sessions through an endpoint the API gets it. A circuit
breaker in the HTTP transport pauses everything after too many errors, and
every reset it causes closes the events channel and removes the bootstrap.

What makes each part correct, and what is hard about it:

* **API.** A throttled API is down: no bootstrap, and no request begins. Logouts are
  caused by any caller, at any time, under requests of all the others; a late
  answer may lift a penalty or end a session it does not belong to. The bootstrap must
  come back all the same.
* **Events channel.** The socket taken for available is alive; a socket that is open
  is not forgotten; reconnects do not stack; updates are emitted in order although
  they inflate concurrently. Two callers may connect at the same time.
* **WebSocket client.** One close event, no leftover timer, whole messages only,
  whatever comes in which order, and however TCP cuts its bytes into chunks; a closing
  handshake ends, a dead peer is noticed.
* **Livestream session.** One session at a time, one close event for each, nothing of
  it left behind.
* **Livestream pool.** Listeners follow subscribers; a subscribed session is always
  watched; a restart is never doubled, never serves nobody, and never leaves its
  mark behind; a silent session is reconnected.
* **FFmpeg processes.** An object outlives its children: the timers and exits of a
  child that was stopped must not hurt the one that replaced it, and whoever waits for
  output is told when none will come. Boxes are handed on whole however they are cut.
* **Recording.** One FFmpeg process, fed by one listener, from the initialization segment
  on, and ended; the buffer stops, starts and changes its stream at any time.
* **Streaming.** Whatever a session holds is found by its stop, and its start is answered
  at most once. A port in use is one a session lists, and it is held by one session.
* **Snapshots.** One attempt for a size, and a fallback that gets its time.
* **Synchronisation.** Devices, accessories, ids and the removal queue agree, and after a
  bootstrap HomeKit shows what the controller has; events, adoptions under a new id
  and restarts with other options come in between.
* **Timers, controls, scenes.** What is detected ends although timers outlive devices;
  HomeKit shows the controller's setting although answers and updates cross; alarm and
  states agree, and a bootstrap does not undo a scene.
* **MQTT.** The broker has the subscriptions that were asked for, over reconnects.
* **Options and their interface.** A device's entry decides for the device, and the
  interface shows what the plugin does. A page gets its own error.

## 2. Modules

| Module | What it is | Run |
|---|---|---|
| `LivestreamManager` | the livestream pool with its consumers | `manager_pool` |
| `EventsChannel` | the realtime events channel with its callers | `realtime` |
| `WebSocketClient` | one websocket connection, frame by frame | `realtime` |
| `WebSocketFraming` | the frames of a websocket connection, found in its bytes | `realtime` |
| `SocketContract` | abstract: what the users of a websocket rely on | `realtime` |
| `ProtectLivestream` | one livestream session object | `media` |
| `LivestreamSession` | abstract: what a livestream's consumers rely on | `media` |
| `FfmpegProcess` | one FFmpeg process object and its children | `media` |
| `Recording` | HomeKit Secure Video of one camera, with its timeshift buffer | `media` |
| `StreamingDelegate` | live streaming of one camera | `media` |
| `RtpPortAllocator` | the UDP ports all cameras share, as `StreamingDelegate` uses them | `media` |
| `Snapshot` | the snapshots of one camera | `media` |
| `ControllerApi` | session, transport, breaker and bootstrap with their callers | `home` |
| `DeviceSync` | devices and their accessories | `home` |
| `EventTimers` | the sensors of one device and the timers that end them | `home` |
| `SecurityScenes` | the security system and the liveview switches | `home` |
| `DeviceControls` | one setting that HomeKit and the controller share | `home` |
| `RtspEntries` | the RTSP entries of a camera and what HomeKit was offered | `home` |
| `MqttConnection` | one MQTT connection with its subscriptions | `home` |
| `FeatureOptions` | one feature option, in the plugin and in its interface | `home` |
| `BoxReader` | FFmpeg's output, cut into chunks and put together again | `home` |
| `ConfigServer` | the server of the configuration interface and its pages | `home` |
| `PlaylistServer` | the playlist servers and their port | `home` |
| `MCRealtime`, `MCMedia`, `MCHome` | parts that share no state, for TLC | |
| `*Proofs` | theorems: about a module, or about the parts of `MCRealtime`, `MCMedia` and `MCHome` | |
| `SetInduction` | the induction principle the proofs use | |

The modules are composed by contract. `WebSocketClient` implements `SocketContract`,
and `EventsChannel` and `ProtectLivestream` take a socket to be what that contract says:
it opens at most once, and it ends exactly once. `ProtectLivestream` implements
`LivestreamSession`, and `LivestreamManager` keeps of a livestream object only whether
it has a session, or a connection it lost. `ControllerApi` says when a login, a
logout or a reset happens; `EventsChannel` has them as steps of its own that may
happen at any time.

Definitions that are marked as a *Deviation* are not part of a specification: each
is the form a definition would take with a plausible bug, and the property
it is paired with fails under it (`mutants` in `PROJECT.json`).

### LivestreamManager (`protect-livestream.ts`)

One index of the pool; indices share only `restartCount` and `shutdown`. The variables
are the class's maps at that index (`livestream`, `subscribers`, `generation`, `restarting`,
`watchdog`, `bound` for the event handlers), the objects (`live`, `orphaned`, `handlers`),
the restart tasks suspended at an await (`restarts`, each with its object,
its generation and where it waits), and where each consumer is. Actions are the
stretches between two awaits: `Join` is acquire, `BeginStart` start up to its await,
`StartSucceeds`, `StartFails` and `StartThrows` what follows it, `StartRtsp` the synchronous
start of an FFmpeg livestream, `ProcessExits` and `TimeshiftStops` the callers of stop,
`WatchdogFires` and `RestartRequested` the triggers of the restart handler, and `RestartWakes`,
`RebootReturns` and `RestartReturns` its continuations.

### ProtectLivestream (`unifi/protect-api-livestream.ts`)

One object. `start` up to its endpoint (`Start`), the launch (`Launch`, `LaunchThrows`,
`EndpointFails`), the websocket's listeners (`Opens`, `Reads`, `SocketErrors`, `SocketCloses`), `Stop`,
`AwaitInitSegment` and the heartbeat. `Teardown` is the code's teardown, called whole by
each of them. `heartbeats` counts the intervals that run, and `heartbeat` says
whether the field holds one: a leaked interval is one without the other. What
is inside a message (packet framing) is one `Reads` that succeeds, completes
the initialization segment or loses framing.

### WebSocketClient (`lib/websocket.ts`)

One connection, frame by frame. A frame is its kind with a payload of one unit. A data
event hands the loop a chunk of one or two frames, and the loop runs to its end before any
other event: only listeners that it calls may interfere, and they may close the connection
(`ListenerMayClose`). `Upgrade` is the upgrade listener with the data that came along,
`HandshakeFails` the response, error and timeout of the request. `ProcessFrame` has one
disjunct for each way a frame is processed.

### WebSocketFraming (`lib/websocket.ts`)

The loop of processData below that level, with the bytes known by their places in the
stream and one action for each way out of the loop's body: a return to wait for the
header, the extended length, the mask or the payload (`AwaitBytes` is awaitBytes), a
refusal, and a frame that was taken. `pending` is the joined queue of chunks,
`DataArrives` the part before the loop, which joins nothing while less is there than the
frame needs. Which frames are malformed or too large for the message they belong to is
`WebSocketClient`'s; here a frame may be (`isBad`), and one above the cap is. A
connection that ends otherwise is one whose bytes stop coming.

### EventsChannel (`unifi/protect-api-events-channel.ts`)

`call[c]` is where each call of connect waits: for its login or for its socket.
`Proceed` is connect between the two. `SocketCloses` is the close listener with its
guard on identity and the reconnect timer, `CloseChannel` is close(), which resets,
logouts and failed logins call. A packet is queued when it arrives, decoded at any time,
and taken from the queue, to be emitted if it could be decoded, when all before it were
(`Decoded`, `taken`). Updates that come along with the handshake reach no listener
(`Opens`).

### ControllerApi (`unifi/protect-api*.ts`, `lib/request.ts`, `protect-nvr.ts`)

`call[c]` is where each caller is: `Refresh` is the chain that signs in and refreshes the
bootstrap, and `Devices` read, update, configure channels or listen. Its `phase` is
what it does next, `stage` the request of its retrieve (a login, the CSRF
pre-fetch, the login after it, or the caller's own), `resuming` the stage
that waits for the login a penalty's end requires, `tries` the transparent
retries so far, `cut` that its connection was destroyed by a reset, and
`cookie` which headers object its request refers to: `clear()` replaces the
session's object, and requests in flight keep the old one. `Turn` says that the
event loop comes to its next event only when nobody has anything left to do
in this one. The controller's state is `healthy`: in trouble it may fail any
request or not, and forget sessions.

Abstractions: the account is an administrator's (`checkAdminUserStatus` then sets the
flag with every bootstrap); `errors` stops counting at the limit, since the code only asks
whether it is reached; connecting the events channel is one step that succeeds or
fails, and `EventsChannel` is its detail.

### The media of a camera

`FfmpegProcess` numbers the children of one object: `process` is the one it refers to, and
a child that was told to stop may run on beside it. `Start`, `StopProcess` with its kill
timer, `Exits`, `FailsToSpawn`, `WritesStderr`, `Fragment` and `CorruptBox` are the methods
and listeners. `BoxReader` is the parser of its output: boxes are lengths, a chunk any number
of their bytes, and `NextChild` a stream that breaks off and an object that starts again.

`Recording` joins the delegate, the buffer and the process of each recording. `startOf` is
the call whose start waits for the pool, `listening` how many listeners the buffer has on the
livestream, `request[r]` where a recording's generator waits, and `fed[r]` what its
process got first. Whether the buffer holds enough is left open each time the code asks.

`StreamingDelegate` has for each session the pending or ongoing entry, where
startStream waits (`starting`), its processes and one reservation of ports: the pair of
a two-way session, the single port of another one. `RtpPortAllocator` is the allocator it
shares with every other session: reservations search for a port, or for two adjacent ones, at
the same time, and `Cancel` deletes the ports of a reservation whoever holds them by then, as the
code does. A session that is stopped while its start waits for the livestream cancels its ports, is
entered as an ongoing one afterwards, and cancels them again when that ends: `cutShort` names such
sessions, and `lost` the ports that were cancelled again. `PortsAreAccounted` excepts these
ports and nothing else; without the exception TLC finds three sessions of which
two share a port. `Snapshot` counts
the time of an attempt in units of the reserve, and an event on the camera is a
new value of its markers.

### Accessories and what they show

`DeviceSync` keeps for each device a record: its accessory and the way it is published, whether it is
configured, under which ids it is indexed, and its place in the removal queue.
`Sync` is a whole discoverAndSyncAccessories, `Added`, `AfterQueue` and
`CleanedUp` its steps for one device; adoption events, a device that gets another id, and
a restart with other options come in between.

`EventTimers` gives each making of a device's services a number, and a timer remembers
the number it was made in: timers are kept by MAC address and outlive the device. `Made`
is the part of the configuration before its first await, `Subscribes` what follows the
second one, and `Removed` may come in between: such a life listens (`place`) although it
is gone. An event is handled by all lives that listen, in the order they subscribed in:
the first announces, and the callbacks of the last one stay. MQTT's messages come to the
life that was made last. `DetectionsEnd` excepts, of what HomeKit shows, the states in
which a removed life listens; what MQTT was told ends in any case. `SecurityScenes` has
the motion detection of each camera, the switches and the security system;
`DeviceControls` one setting in five forms, with requests and updates on their way. A
bootstrap there replaces only the plugin's copy (`ufp`), and has HomeKit shown no
setting but a viewer's. What the code does not follow is named in `excused`: a copy that
is behind the controller after an update was lost or overtaken by an answer, until a
later update or bootstrap; HomeKit behind the copy, because the handlers push no change
of a chime, of a viewer that was cleared, by MQTT or by a bootstrap, until HomeKit reads
(`HomeKitReads`, the onGet handlers); and a message that was reset and is shown again.
Messages have no onGet: what an update that was lost left there stays until the next
update of a message. A light's power and brightness, the night vision dimmer and the
chime volume are left out. `RtspEntries` configures a camera's channels again and again
against resolutions that HomeKit was offered once: when an update brings channels
(`ChannelsChange`), not when a bootstrap or the answer to a write replaces them
(`ChannelsReplaced`); `replaced` says that the entries are of channels that were, and
`EntriesAreCurrent` excepts these states. A size is added for both frame rates at once,
since both come to the same entry. What a request is served from is not always the next
lower channel: TLC shows that with channels of 1920x1440, 1280x720 and 640x360, 1280x960
is served from 640 and comes before the camera's own 1280x720, so that a request for
1920x1080, once offered, is served from 640 as well. `ServesNext` names that exception
and no other.

### Connections and the interface

`MqttConnection` keeps the socket, the three timers, the subscriptions asked for and
those the broker has. A topic that is given up and asked for again within one handshake
ends up unsubscribed, since the queued UNSUBSCRIBE is written last: `renewed` names it.
`FeatureOptions` takes an entry as its verb and the segments behind the option's name:
under which keys buildConfigIndex registers it, what resolveScope finds, what the
interface writes and shows. `ConfigServer` has validations that overlap and the errors
kept for their pages; `PlaylistServer` servers that try the same port.

## 3. Runs

| Run | Shows | Distinct states |
|---|---|---|
| `manager_pool` | the pool: a timeshift buffer started twice, one streaming session, two objects, reboot after one restart, over websockets and over FFmpeg | 142 k |
| `realtime` | a reconnect beside the refresh with three sockets, two updates and three failures; and every sequence of four frames against closes, timers and socket failures; and the bytes of any two frames with every form of a header, and payloads up to the cap and above it, cut anywhere | 619 k |
| `media` | three starts of a livestream that may overlap; two children of an FFmpeg object; two recordings; two streaming sessions that share two ports; two snapshot requests | 375 k |
| `home` | the API with one device and three errors to a trip; a doorbell; timers over two lives; scenes, controls, RTSP entries, MQTT, options, boxes, validations and playlist servers, two or three of each | 317 k |

A run of several modules has a variable `part`: each behaviour is about one of its
parts, which share no state, and the others stay as they began. What a property says
is in a comment before it; where a module states several promises about
the same state, the run checks their conjunction (`ChildrenAgree`, `RecordingsAgree`,
`SessionsAgree`, `AttemptsAgree`), and `MCHome` names the properties of its parts.

The eight other runs each refute one statement of a comment or of the documentation:

* `manager_counted`, `ConsumersAreCounted`. A streaming session registers its exit listener
  before it calls start. If FFmpeg exits while that start is pending, stop
  releases a subscription that was never counted, the timeshift buffer's.
* `socket_failure`, `NothingAfterFailure`. A stray continuation frame terminates the
  connection, and the loop goes on with the frames behind it.
* `events_doubled`, `OneConnection`. Two calls of connect that overlap both open
  a socket, the second replaces the first, and both emit every update.
* `livestream_lost`, `EveryEndIsAnnounced`. Of two overlapping starts the first
  websocket is lost, and ends without a close event.
* `api_throttled`, `NothingSentWhileThrottled`. The reset of a trip cuts the connections of
  GET requests in flight, and their transparent retries are sent in the penalty.
* `stream_orphaned`, `StoppedStreamsEnd`. A session that is stopped while its start waits for
  the livestream is entered as an ongoing one afterwards, and its FFmpeg runs on.
* `device_back`, `ReappearedStay`. cleanupDevices runs the removal queue before it takes
  from it what is listed again: a device whose delay has passed is removed by the very
  synchronisation that finds it.
* `options_leak`, `SettingsAreLocal`. An option that has a value, enabled for one device
  without naming the value, is enabled for all, with the MAC address as its value
  (`Motion.SmartDetect.ObjectSensors.LicensePlate` is such an option).

Met while modelling, and in the model without a property of their own: the ports of a
session that was stopped while its start waited are cancelled twice, the second time
when another session may have them; a camera that is removed while it is configured
stays subscribed, and once it is adopted again the old object's callbacks end the old
services, so that the new sensor may show motion for ever; after a bootstrap or the
answer to a write brought other channels the entries stay those of the old ones; a chime
mode another client sets, and a message switch whose update was lost, are not brought up
to date by a bootstrap; a snapshot is cached with the event markers of the time it is
stored, not of the time it was captured; a restart applies the liveviews' states as they
were last set; a state of the security system without a liveview lets the alarm sound on
while the new state is shown; a login that succeeds after its timeout leaves a session
on the controller open; a playlist server that is closed while its retry is pending
listens again.

### Bounds

Every bound is a constant: objects, starts, sockets, frames, children, updates,
failures, devices, lives, boxes, the error limit and the retries. They are as large as
the interesting cases need. Two consumers are what it takes to take each other's
subscription, and two objects what it takes for a restart to be of an older one; the
reboot limit is 1 instead of 10 so that both sides of it are reached by a single
restart. Four frames hold an interrupted message, a whole one and a control frame in
between. Two frames in bytes let a chunk end one and begin the other; payloads of none,
the cap's and one more byte are at each side of both comparisons. Three sockets let a
third one be opened while a superseded one is open and the available one is closing. One
device and three errors reach a trip with a request in flight, a late success, and a
resumption without a session; the same with two devices and a limit of two errors was
checked as well (727 k states). `MaxRetries` of 1 separates a request that was never
retried from one that was. Two children, recordings, sessions and snapshot attempts
overlap in every way two can; of two ports the pair of one session and the port of
another leave a search without an adjacent port, which is tried once more and given up.
A doorbell, which is a camera that has a package camera as well, with one more id shows
every order of removal, delay, adoption and restart, since devices do not look at one
another; a camera beside it was checked as well (275 k states). Two lives of a device
let a timer of the first end in the second, and the first listen beside the second;
three events are enough for one that begins before a removal, one after it and one in
between. RTSP channels are one of seven lists, which may be replaced once between two
configurations. Boxes of one, two and four bytes with headers of two are too short,
empty and with content, and every cut of three of them is tried. One entry written by
hand and any number of edits reach every pair of scopes. One error is kept where the
code keeps twenty, so that one is dropped. For the state invariants and action
properties listed under Proofs the bounds do not matter.

No symmetry is used, since each passing run checks liveness. Deadlock is checked in `manager_pool`.
The three runs of several parts switch it off, because some of their parts may really be
done: a connection that was closed, a livestream without starts left.

## 4. Fairness

Node.js runs every timer that is due and every callback of an event in bounded
time, so steps of these kinds are weakly fair: a timer that is armed fires, an
await whose request has a timeout returns, a socket that is being closed closes.
Nothing is assumed of HomeKit, of users or of devices. In detail:

* `WebSocketClient`: the handshake's timeout, the close timer, the heartbeat, the
  frame loop and the close event of a destroyed socket. Not that the server sends anything.
* `ProtectLivestream`: the heartbeat, and that a websocket which is opening or
  closing is done at some time: the handshake's timeout and the close timer of
  `WebSocketClient` see to it (`ConnectionsEnd`).
* `EventsChannel`: the bootstrap refresh, a login and an opening that could succeed, the
  close event of a closing socket, and the inflation of each packet. Failures are
  bounded (`MaxFaults`): without that a controller that always fails is never recovered from.
* `LivestreamManager`: timers and returning awaits; the watchdog is fair only while the
  session is silent, because segments push it back. Strong fairness for the success
  of a restart that is asked for again and again: the property is about a controller and
  a camera that stay reachable, and says nothing without that.
* `ControllerApi`: strong fairness of each caller's next step and of the refresh
  chain's timers. A step is enabled only in its caller's turn, which comes and
  goes with the steps of others, and the event loop does not pass over a ready event for
  ever. `BootstrapReturns` assumes that the controller becomes healthy for good.
* `FfmpegProcess`: a kill timer fires, and a child that was killed exits. Not that SIGTERM works.
* `Recording`: the pool answers a start, and a request goes on when what it waits for is
  there or its time is up. Not that FFmpeg produces anything, or that it exits.
* `MqttConnection`: its three timers, and the close event of a destroyed socket.
* `PlaylistServer`: a listen succeeds or fails, and a retry's timer fires. Other
  programs may take the port and keep it, which `PublishesAtLast` excepts.

## 5. Proofs

Each theorem holds for every value of the constants that the `ASSUME`s of its module
allow: those are types, distinctness and positive limits. `ListenersFollowSubscribers`
and its companions, for example, hold for any finite set of consumers and any reboot limit,
`BoxesStayWhole` for streams of any number of boxes of any sizes.

| Module | Theorems | Inductive invariant |
|---|---|---|
| `LivestreamManagerProofs` | `TypeCorrect`, `ListenersFollowSubscribers`, `SubscribedIsWatched`, `RestartingIsResolved`, `RestartsExclude`, `OnlyPooledSessions` | `ListenersInv`, `RestartsInv`, `RtspInv` |
| `RealtimeProofs` | `AvailableStaysAlive`, `OneAttempt`, `ForgetsOnlyClosed`, `UpdatesStayInOrder` (the channel); `LifeInvariant`, `EndsForGood`, `SocketImplementsContract`, `MessagesStayWhole` (the socket); `FramesStayWhole` (its bytes); `MessagesComeWhole`, `RealtimeIsSound` | `ChannelInv`, `OrderInv`, `LifeInv`, `MessagesInv`, `FramingInv` |
| `ProtectLivestreamProofs` | `LivestreamImplementsSession`, `NothingIsLeft`, `WaitersSettle` | `SessionInv` |
| `MediaProofs` | `ChildrenStayInAgreement`, `RecordingsStayInAgreement`, `SessionsStayInAgreement`, `PortsStayAccounted`, `AttemptsStayInAgreement`; `MediaStaysInAgreement`, `MediaSessionsAreSound` | `ChildrenInv`, `RecordingsInv`, `SessionsInv`, `PortsInv`, `AttemptsInv` |
| `ControllerApiProofs` | `ApiIsSound`, `TypeCorrect`, `BootstrapStaysUsable`, `CallsAreHeld` | `ApiInv` |
| `DeviceSyncProofs` | `HomeStaysInAgreement`, `SynchronisationsSettle` | `SyncInv` |
| `HomeProofs` | `SubscriptionsAlwaysHold`, `TimersStayInAgreement`, `DetectionsAlwaysEnd`, `AlarmStaysInAgreement`, `BootstrapsLeaveScenes`, `ControlsStayInAgreement`, `BoxesStayWhole`, `ErrorsStayOwn`, `OptionsStayInAgreement`, `OffersStayServed`; `HomeStaysAgreed`, `HomeSettles` | `SubscriptionInv`, `TimersAgree`, `DetectionsInv`, `AlarmInv`, `ControlsInv`, `BoxesInv`, `ServerInv`, `OptionsInv`, `EntriesInv` |
| `SetInduction` | (lemmas only) | |

A theorem about one part is about that part's specification. `RealtimeIsSound`,
`MediaStaysInAgreement`, `MediaSessionsAreSound`, `HomeStaysAgreed` and `HomeSettles` carry
them over to `PartsSpec`, the specification TLC checks: a lemma (`PartsAreBehaviours`) says
that a behaviour of the parts together is a behaviour of each.

* `RestartsInv` adds to the properties that a restart of the current generation is
  the only one, is the pooled object's and keeps the retry timer unarmed
  (`RestartsAreExclusive`). Without it, `AlwaysWatched` is not inductive: a second restart
  of the same generation could end and leave the first one's mark and timer in
  any state.
* `RtspInv` says why an FFmpeg livestream is never left behind: over FFmpeg start
  does not wait, so no consumer is ever about to start an object that shutdown removed.
* `LifeInv` ties the timers and the number of close events to the socket: before the
  upgrade there is neither, after the end none is left. The refinement follows
  because the loop can only have frames while the socket is up or its close event is due.
* `MessagesInv` relates what was delivered to the frames that came, which the model keeps: a
  delivered message is a run of them, from one that begins a message to the one that ends
  it with nothing but control frames in between, and the fragments are such a run without
  its end. It holds for any cap on a message.
* `FramingInv` says that what is queued begins with a frame and is less than `bytesNeeded`, which
  is in turn no more than the frame has, and no more than its length takes to know if the
  frame is to be refused. So a wait is never for bytes of a later frame, which might never
  come, and the queue stays below one frame. It holds for streams of any number of
  frames with payloads of any length.
* `ChannelInv` adds that every attached socket is open, or closing with its close event to
  come; a socket whose listener is gone can then never be the available one.
* `OrderInv` says of each socket that what the queue let go of ascends, that what is in
  the queue ascends and comes behind it, and that the first one in the queue is not decoded yet.
* `SessionInv` says that the session's websocket is the only one that is wired or read, and
  that a websocket that opens gets its first reader. It holds when starts do
  not overlap (`overlapping = FALSE`); `livestream_lost` shows that
  it does not hold when they do. `WaitersSettle` needs no such assumption.
* `ChildrenInv` adds that the object's process has not exited, and that a kill timer is
  armed only for a process that was told to stop: a replacement clears the timer first.
* `RecordingsInv` adds what every recording's process was fed, and that one that runs
  was fed something. `SessionsInv` adds that a session whose start has not begun is
  neither listed as ongoing nor answered, that a callback that is still there was not
  answered, and that return audio that runs, or is being set up, is of an ongoing
  session. `PortsInv` adds that a reservation has a first port exactly while it searches
  for a second one or holds them, and that only pairs search. Lemmas say that ports stay
  accounted for when one session changes what it holds by ports that nobody has, and
  when a session ends, be it one that has ended before.
* `AttemptsInv` adds that an attempt under way is the one that is pending for its size, that only a
  configured URL is tried first, and that without one whichever source an attempt is at, it
  has the reserve left. It assumes that the reserve fits into the timeout.
* `ApiInv` adds that a throttled breaker is over its limit (`ThrottledIsOver`): only then does
  "closed" imply "not throttled", which is why no request is admitted in a penalty. And that
  only the stages of a login have a request waiting for them (`OnlyLoginsResume`): a
  caller whose own request was answered never sends another without asking the breaker.
* `SyncInv` is the invariant of every device by itself: each operation of a synchronisation
  has a lemma that it keeps a sound device sound, and a step of the system one that
  it applies such operations. `SynchronisationsSettle` then follows device by device; it needs the
  invariant, because what is queued without a delay could not be queued at all.
* `SubscriptionInv` adds that nothing waits on a connection that is made or gone, and that
  what waits to be unsubscribed from is not asked for. It assumes that no topic is the
  word the model uses for a publication.
* `DetectionsInv` adds that a device that was removed shows and rings nothing, so that the next
  making of it begins clean, and that only lives there have been listen and show occupancy. As long
  as nobody but the device listens, an event, or a message of MQTT, is handled by the
  life that was made last: it is the device, or HomeKit does not see it.
* `AlarmInv` needs that no state is called as an alarm is. `BootstrapsLeaveScenes`
  follows the loop over the liveviews with an induction: after n of them only cameras of
  the first n have changed.
* `ControlsInv` says that the last update on its way has what the controller has, so that the
  plugin's copy is right once none is, also while requests are under way; that only a mode or
  a chime that was set off is about to be corrected; and that a message the plugin takes for
  shown, and HomeKit does not show, has another update on its way.
* `BoxesInv` says that the first k boxes were handed on, split at the first moof box, and that
  what is left of the buffer begins the next one and is too short for a header or for the size
  its header says. `ParseIsRight` says what parse makes of a buffer at any offset: an
  induction from the end of the stream, after one that shows that its loop ends. A box of
  size 0, which parse refuses as it does any size below a header's, is left out.
* `ServerInv` says that what is kept is of validations that were answered and not asked about,
  one message for each, that each message has at least as many behind it in what was ever
  recorded as among those that are kept, and that one that was dropped has at least as
  many behind it as are kept at most.
* `OptionsInv` says only what an entry may be: what the interface writes follows no rule
  that what was written by hand would follow too. `OptionsAgree` is shown of any such
  entries: what is registered under a scope is what speaks of it, the first of which
  decides, and the scopes are tried in their order. An entry that enables for a device,
  but reads as a value for all as well and is the first that does, is excepted
  (`IsAmbiguous`). That edits leave other entries alone goes through the recursive
  function that drops the entries of a scope.
* `EntriesInv` says that the entries are of the channels they were made of until these
  are replaced or configured anew, that the entries that are made without a wish for a
  channel have the widest first, that none of them passes over a channel that lies
  between its own and its size, and that each channel is there at its own width. The
  first narrower entry is then of the widest narrower channel, unless it was added for a
  size that another channel is just as wide as. `AddedIs` shows it of each candidate,
  `LoopIs` of all seven, and `PlacesAreTaken` that the order of resolutions gives each
  entry one place: an injection of a finite set into as many numbers is onto.

Induction over data is done with sets: `NatSetInduction` of `SetInduction` says that a set of
numbers with 0 that has the successor of each of its members has them all, and
takes the set of those numbers a statement holds for. The existence of each recursive function
a lemma is about is shown so first.

## 6. Only model-checked

Liveness (`SilenceEnds`, `ConnectionsEnd`, `ChannelRecovers`, `SilenceEndsSession`,
`BootstrapReturns`, `StoppedChildrenExit`, `RecordingsEnd`, `SilentBrokerIsLeft`,
`PublishesAtLast`) is checked by TLC only: fairness and ENABLED are beyond these provers.
Every invariant of a passing run is stated by a theorem.

## 7. What is not modelled, and what could be next

* Bytes: event and livestream packets, and MQTT packets, which mqtt-connection.ts finds in its
  chunks as websocket.ts does. `BoxReader` and `WebSocketFraming` are the modules at that level.
* TLS pinning: a file and a comparison.
* FFmpeg command lines, codec probing and the probe size: tables, text and a number.
* Constants, types, logging, the configuration interface's layout and its assistant, and the
  devices whose handlers map one value to one characteristic and keep nothing.
* Left out of the modelled components: the wording of errors, the response size limit, the
  stream interface of a livestream (no code here uses it), `send`, bit rates and plans of a stream,
  the mute switch, what a playlist says and who may have it, options whose names begin with
  another option's, and the NVR's give-up after five bootstraps that vanish while nobody else
  uses the API yet.
* Proofs that would be next: that a start, as `LivestreamManager` has it, is one of
  `LivestreamSession`.
