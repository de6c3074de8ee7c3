--------------------------- MODULE DeviceControls ---------------------------
(***************************************************************************)
(* One of a device's settings that HomeKit controls: a camera's recording   *)
(* mode ("mode") or a doorbell's physical chime ("chime"), with one switch  *)
(* for each value, one of which is always on; the liveview of a viewer      *)
(* ("viewer": a switch for each, or none), the message on a doorbell's      *)
(* screen ("message"), or its status light ("led": one characteristic).      *)
(* HomeKit's changes are requests to the controller, which other clients    *)
(* change as well; its updates and its answers come in any order, updates   *)
(* may be lost, and a bootstrap replaces the plugin's copy without telling  *)
(* HomeKit, but for viewers.  A light's power and brightness and the night  *)
(* vision dimmer are left out: they show for a moment what was asked for,   *)
(* or read another value than they write.                                   *)
(*                                                                         *)
(* HomeKit (HAP-NodeJS) gives a characteristic the value that was set once   *)
(* the handler is done, and leaves it alone when it fails.                  *)
(***************************************************************************)
EXTENDS Naturals, Sequences, FiniteSets

CONSTANTS
    Values,         \* settings
    None,           \* no setting, where there may be none
    MaxWrites,      \* bound: requests of HomeKit at a time
    MaxUpdates      \* bound: updates on their way at a time

VARIABLES
    kind,           \* what is controlled
    controller,     \* the controller's setting
    ufp,            \* the plugin's copy
    shown,          \* switches that HomeKit shows as on, or the light
    messageStates,  \* state: messages the plugin knows to be shown
    writes,         \* requests: by which switch, and whether the controller took it
    updates,        \* updates on their way
    refresh,        \* a switch that was set off is about to be corrected
    excused         \* why the copy may be behind the controller, or HomeKit behind the copy

vars == <<kind, controller, ufp, shown, messageStates, writes, updates, refresh, excused>>

Settings == Values \cup {None}
Kinds == {"mode", "chime", "viewer", "message", "led"}
Allowed == IF kind \in {"viewer", "message"} THEN Settings ELSE Values

Write == [by : Values, on : BOOLEAN, isTaken : BOOLEAN]

\* Behind the controller is the copy that a late answer or an old bootstrap replaced
\* ("overtaken"), or that an update did not reach ("lost"); behind the copy is HomeKit that
\* was not told of a change ("unpushed").  A message that was reset may be shown again
\* ("revived").
Behind == {"overtaken", "lost"}
Excuses == Behind \cup {"unpushed", "revived"}

TypeOK ==
    /\ kind \in Kinds
    /\ controller \in Allowed /\ ufp \in Allowed
    /\ shown \subseteq Values /\ messageStates \subseteq Values
    /\ writes \in Seq(Write) /\ Len(writes) <= MaxWrites
    /\ updates \in Seq(Allowed) /\ Len(updates) <= MaxUpdates
    /\ refresh \in BOOLEAN
    /\ excused \subseteq Excuses

\* The one that is on.
On(v) == {v} \ {None}

Init ==
    /\ kind \in Kinds
    /\ controller \in Allowed /\ ufp = controller
    /\ shown = On(controller)
    /\ messageStates = IF kind = "message" THEN shown ELSE {}
    /\ writes = <<>> /\ updates = <<>>
    /\ refresh = FALSE /\ excused = {}

-----------------------------------------------------------------------------
(* HomeKit.                                                                *)

Asks(v, on) ==
    /\ Len(writes) < MaxWrites
    /\ writes' = Append(writes, [by |-> v, on |-> on, isTaken |-> FALSE])
    /\ UNCHANGED <<kind, controller, ufp, shown, messageStates, updates, refresh, excused>>

\* A mode that is set off is not, nor a chime: that is corrected.
ModeSet(v, on) ==
    /\ kind \in {"mode", "chime"}
    /\ IF on THEN Asks(v, on)
       ELSE /\ shown' = shown \ {v} /\ refresh' = TRUE
            /\ UNCHANGED <<kind, controller, ufp, messageStates, writes, updates, excused>>

\* A liveview that is set off clears the viewer, whatever it shows.
ViewerSet(v, on) == kind = "viewer" /\ Asks(v, on)

\* A message that is shown already, as far as the plugin knows, is not set.
MessageSet(v, on) ==
    /\ kind = "message"
    /\ IF v \in messageStates <=> on
       THEN /\ shown' = IF on THEN shown \cup {v} ELSE shown \ {v}
            /\ UNCHANGED <<kind, controller, ufp, messageStates, writes, updates, refresh, excused>>
       ELSE Asks(v, on)

\* A status light is turned on or off.
LedSet(v) == kind = "led" /\ Asks(v, TRUE)

\* Everything but a message is shown as the copy has it: updateDevice, and what HomeKit gets
\* when it reads (onGet).
ShowsCopy ==
    /\ shown' = On(ufp)
    /\ excused' = excused \ {"unpushed"}
    /\ UNCHANGED <<kind, controller, ufp, messageStates, writes, updates>>

\* A moment after a mode was set off.
RefreshDetails == refresh /\ refresh' = FALSE /\ ShowsCopy

\* HomeKit reads an accessory, or another update of a camera shows all of it.
HomeKitReads == kind # "message" /\ ShowsCopy /\ UNCHANGED refresh

-----------------------------------------------------------------------------
(* The controller.                                                         *)

\* What a request asks for.
Asked(w) == IF w.on THEN w.by ELSE None

\* It is set, tells everyone, and answers with the device as it is then.
ControllerTakes(n) ==
    /\ n \in DOMAIN writes /\ ~writes[n].isTaken /\ Len(updates) < MaxUpdates
    /\ controller' = Asked(writes[n])
    /\ writes' = [writes EXCEPT ![n].isTaken = TRUE]
    /\ updates' = Append(updates, Asked(writes[n]))
    /\ UNCHANGED <<kind, ufp, shown, messageStates, refresh, excused>>

OtherClient(v) ==
    /\ Len(updates) < MaxUpdates
    /\ controller' = v
    /\ updates' = Append(updates, v)
    /\ UNCHANGED <<kind, ufp, shown, messageStates, writes, refresh, excused>>

Without(s, n) == [i \in 1 .. Len(s) - 1 |-> IF i < n THEN s[i] ELSE s[i + 1]]

\* The controller refuses, or no answer comes, whether or not it was set: HomeKit is told.
WriteFails(n) ==
    /\ n \in DOMAIN writes
    /\ writes' = Without(writes, n)
    /\ UNCHANGED <<kind, controller, ufp, shown, messageStates, updates, refresh, excused>>

\* The copy becomes v, and HomeKit is told or is not.
Excused(v, isTold) ==
    LET others == IF v = controller THEN excused \ Behind ELSE excused
    IN  IF isTold THEN others \ {"unpushed"}
        ELSE IF v # ufp THEN others \cup {"unpushed"} ELSE others

\* What came late is not what the controller has.
Overtaken(v) == IF v = controller THEN {} ELSE {"overtaken"}

\* The switch takes what it was set to, and the others stay as they are.
ShownBesides(w) == IF w.on THEN shown \cup {w.by} ELSE shown \ {w.by}

\* What HomeKit shows once the handler is done: the others of a mode, a chime or a viewer are
\* off; those of messages stay.
ShownAfter(w) == IF kind = "message" THEN ShownBesides(w) ELSE On(Asked(w))

\* writeDevice: the answer is taken for the device.
Answered(n) ==
    LET w == writes[n] IN
    /\ n \in DOMAIN writes /\ w.isTaken
    /\ writes' = Without(writes, n)
    /\ ufp' = Asked(w)
    /\ shown' = ShownAfter(w)
    /\ excused' = Overtaken(Asked(w)) \cup
                  (IF kind = "message" THEN excused ELSE Excused(Asked(w), TRUE))
    /\ UNCHANGED <<kind, controller, messageStates, updates, refresh>>

\* MQTT sets a liveview or a message, which the controller takes like any client's; the answer
\* is taken for the device, and no switch is set (setViewer, setMessage).
MqttAnswered(v) ==
    /\ kind \in {"viewer", "message"}
    /\ ufp' = v
    /\ excused' = IF kind = "message" THEN excused ELSE Excused(v, FALSE) \cup Overtaken(v)
    /\ UNCHANGED <<kind, controller, shown, messageStates, writes, updates, refresh>>

-----------------------------------------------------------------------------
(* Updates and bootstraps.                                                 *)

\* update of the messages: the one that is shown is on, and no other one; HomeKit is not told
\* again of one that the plugin knows to be shown.
MessageTold(v) == IF v \in messageStates THEN shown \cap On(v) ELSE On(v)

\* The controller's update of a doorbell's message.  One that was reset leaves its text in
\* the device's data (mergeJson).
MessageUpdated(v) ==
    /\ kind = "message"
    /\ ufp' = IF v = None THEN ufp ELSE v
    /\ shown' = MessageTold(v)
    /\ messageStates' = On(v)
    /\ excused' = IF v = controller /\ v \notin messageStates THEN {} ELSE excused

\* eventHandler shows no change of a chime, nor that a viewer was cleared.
IsPushed(v) == kind \in {"mode", "led"} \/ (kind = "viewer" /\ v # None)

\* The controller's update of anything else.
DeviceUpdated(v) ==
    /\ kind # "message"
    /\ ufp' = v
    /\ shown' = IF IsPushed(v) THEN On(v) ELSE shown
    /\ excused' = Excused(v, IsPushed(v))
    /\ UNCHANGED messageStates

UpdateArrives ==
    /\ updates # <<>>
    /\ updates' = Tail(updates)
    /\ MessageUpdated(Head(updates)) \/ DeviceUpdated(Head(updates))
    /\ UNCHANGED <<kind, controller, writes, refresh>>

\* The realtime API was away.
UpdateLost ==
    /\ updates # <<>>
    /\ updates' = Tail(updates)
    /\ excused' = excused \cup {"lost"}
    /\ UNCHANGED <<kind, controller, ufp, shown, messageStates, writes, refresh>>

\* addHomeKitDevice, of a device there is: the copy is replaced (ufpUpdates), by a setting
\* the controller had when it answered; discoverAndSyncAccessories has viewers shown.
Bootstrap(v) ==
    /\ ufp' = v
    /\ shown' = IF kind = "viewer" THEN On(v) ELSE shown
    /\ excused' = IF kind = "message" THEN excused
                  ELSE Excused(v, kind = "viewer") \cup Overtaken(v)
    /\ UNCHANGED <<kind, controller, messageStates, writes, updates, refresh>>

\* nvrEventHandler: the messages are configured again, from the device's data.
MessagesChange ==
    /\ kind = "message"
    /\ shown' = MessageTold(ufp) /\ messageStates' = On(ufp)
    /\ excused' = IF ufp # controller THEN excused \cup {"revived"} ELSE excused
    /\ UNCHANGED <<kind, controller, ufp, writes, updates, refresh>>

Next ==
    \/ \E v \in Values, on \in BOOLEAN : ModeSet(v, on) \/ ViewerSet(v, on) \/ MessageSet(v, on)
    \/ \E v \in Values : LedSet(v)
    \/ RefreshDetails \/ HomeKitReads
    \/ \E n \in 1 .. MaxWrites : ControllerTakes(n) \/ WriteFails(n) \/ Answered(n)
    \/ \E v \in Allowed : OtherClient(v) \/ MqttAnswered(v) \/ Bootstrap(v)
    \/ UpdateArrives \/ UpdateLost \/ MessagesChange

Spec == Init /\ [][Next]_vars

-----------------------------------------------------------------------------
(* What the controls promise.                                              *)

\* The copy has the controller's setting once no update is on its way, unless it is behind:
\* whatever HomeKit and other clients set, in whatever order answers, updates and bootstraps
\* came.
CopyAgrees == kind # "message" /\ updates = <<>> /\ excused \cap Behind = {} => ufp = controller

\* HomeKit shows the copy's setting and no other one, unless it was not told of a change by
\* a bootstrap or MQTT, of a chime, or of a viewer that was cleared, and has not read since;
\* or a switch that was set off is about to be corrected.
ShownAgrees == kind # "message" /\ ~refresh /\ "unpushed" \notin excused => shown = On(ufp)

\* Of messages HomeKit shows the controller's and no other one, unless an answer was
\* overtaken, an update lost, or a message brought back.
MessagesAgree ==
    kind = "message" /\ updates = <<>> /\ excused = {} =>
        shown = On(controller) /\ messageStates = On(controller)

\* What HomeKit shows of a setting is the controller's, but for what is excused (writeDevice,
\* updateDevice, eventHandler, update of the messages).
ControlsAgree == CopyAgrees /\ ShownAgrees /\ MessagesAgree

=============================================================================
