------------------------------ MODULE DeviceSync ------------------------------
(***************************************************************************)
(* How one controller's devices become HomeKit accessories (protect-nvr.ts, *)
(* protect-events.ts): every bootstrap adds what is new and removes what   *)
(* is gone, at once or after a delay, and the controller's events add and  *)
(* remove single devices in between.  Homebridge remembers the accessories *)
(* of its bridge over a restart, and the options are read then.            *)
(*                                                                         *)
(* A device is its MAC address.  What removeHomeKitDevice does to a package *)
(* camera without its camera is left out: HomeAgrees says there is none.   *)
(***************************************************************************)
EXTENDS Naturals

CONSTANTS
    Devices,
    Doorbells,      \* those with a package camera
    MaxId           \* bound: how often a device is adopted anew, under another id

VARIABLES
    hidden,         \* options: devices that are not to be in HomeKit
    standalone,     \* options: devices published on their own, outside of the bridge
    delayed,        \* options: devices are removed with a delay
    id,             \* the id by which the controller knows each device
    home,           \* what the plugin has of each device
    known           \* ufpDeviceState: what realtime updates told of a device

optionVars == <<hidden, standalone, delayed>>
vars == <<optionVars, id, home, known>>

Ids == 0 .. MaxId

Home == [accessory : {"none", "bridged", "external"},   \* platform.accessories
         package : BOOLEAN,         \* there is an accessory of its package camera
         device : BOOLEAN,          \* configuredDevices
         ufpId : Ids,               \* the id in the device's own data
         index : SUBSET Ids,        \* the ids under which devicesById has it
         queue : {"no", "queued", "due"}]   \* deviceRemovalQueue

Listings == {"absent", "unadopted", "adopted"}

TypeOK ==
    /\ hidden \subseteq Devices
    /\ standalone \subseteq Devices
    /\ delayed \in BOOLEAN
    /\ id \in [Devices -> Ids]
    /\ home \in [Devices -> Home]
    /\ known \in [Devices -> {"nothing", "unadopted", "adopted"}]

Nothing == [accessory |-> "none", package |-> FALSE, device |-> FALSE, ufpId |-> 0,
            index |-> {}, queue |-> "no"]

Init ==
    /\ hidden \in SUBSET Devices
    /\ standalone \in SUBSET Devices
    /\ delayed \in BOOLEAN
    /\ id = [d \in Devices |-> 0]
    /\ home = [d \in Devices |-> Nothing]
    /\ known = [d \in Devices |-> "nothing"]

-----------------------------------------------------------------------------
(* Removing an accessory.                                                  *)

\* Deviation: the time a removal was asked for outlives the removal.
RemovedInHaste(h) == [Nothing EXCEPT !.ufpId = h.ufpId, !.queue = h.queue]

\* The device is cleaned up, and its accessory goes with that of its package camera.
Removed(h) == [Nothing EXCEPT !.ufpId = h.ufpId]

\* removeHomeKitDevice: with a delay, what is to go is queued first.
RemovedInTime(h, noRemovalDelay) ==
    IF noRemovalDelay \/ ~delayed \/ h.queue = "due" THEN Removed(h)
    ELSE [h EXCEPT !.queue = "queued"]

-----------------------------------------------------------------------------
(* Adding one.                                                             *)

Mode(d) == IF d \in standalone THEN "external" ELSE "bridged"

\* addProtectDevice: a doorbell brings the accessory of its package camera.
Constructed(h, d, i) ==
    [h EXCEPT !.device = TRUE, !.ufpId = i, !.index = @ \cup {i},
              !.package = @ \/ d \in Doorbells]

\* addHomeKitDevice, for an adopted device that the controller knows by i.  One that is
\* configured already is updated, under an id its own data may not have.
Added(h, d, i) ==
    IF d \in hidden
    THEN IF h.accessory = "none" THEN h ELSE Removed(h)
    ELSE LET shown == [h EXCEPT !.accessory = IF @ = "none" THEN Mode(d) ELSE @]
         IN  IF h.device THEN shown ELSE Constructed(shown, d, i)

-----------------------------------------------------------------------------
(* One synchronisation (discoverAndSyncAccessories).                       *)

\* What is queued for removal goes once its time has come.
AfterQueue(h, d) ==
    IF h.accessory # "none" /\ h.queue # "no" THEN RemovedInTime(h, d \in hidden) ELSE h

\* Deviation: a device whose mode was changed is only removed.
SwitchedOff(h, d) == Removed(h)

\* A device that is to change between the bridge and its own accessory is made anew.
Switched(h, d) == Added(Removed(h), d, h.ufpId)

\* cleanupDevices, of what the queue has left.
CleanedUp(h, d, listing) ==
    CASE h.accessory = "none" -> h
      [] h.accessory # "none" /\ ~h.device -> RemovedInTime(h, d \in hidden)
      [] h.device /\ h.accessory = Mode(d) /\ listing # "absent" -> [h EXCEPT !.queue = "no"]
      [] h.device /\ h.accessory \notin {"none", Mode(d)} -> Switched(h, d)
      [] OTHER -> RemovedInTime(h, d \in hidden)

Synced(h, d, listing) ==
    LET added == IF listing = "adopted" THEN Added(h, d, id[d]) ELSE h
    IN  CleanedUp(AfterQueue(added, d), d, listing)

\* A bootstrap brings what the controller lists now; it emits an update for each adopted
\* device that is configured, and ufpUpdates remembers it.
Sync(listed) ==
    /\ home' = [d \in Devices |-> Synced(home[d], d, listed[d])]
    /\ known' = [d \in Devices |->
                    IF listed[d] = "adopted" /\ home[d].device THEN "adopted" ELSE known[d]]
    /\ UNCHANGED <<optionVars, id>>

\* The bootstrap was lost, or the API is throttled, before its event was emitted.
SyncWithoutBootstrap ==
    /\ home' = [d \in Devices |-> [home[d] EXCEPT !.queue = "no"]]
    /\ UNCHANGED <<optionVars, id, known>>

\* The delay of a queued removal passes.
DelayPasses(d) ==
    /\ home[d].queue = "queued"
    /\ home' = [home EXCEPT ![d].queue = "due"]
    /\ UNCHANGED <<optionVars, id, known>>

-----------------------------------------------------------------------------
(* Events of the controller.                                               *)

\* getDeviceById, by the id the controller uses now.
Found(d) == id[d] \in home[d].index

\* A device is unadopted and adopted again: the controller knows it by another id.
GetsAnotherId(d) ==
    /\ id[d] < MaxId
    /\ id' = [id EXCEPT ![d] = @ + 1]
    /\ known' = [known EXCEPT ![d] = "nothing"]
    /\ UNCHANGED <<optionVars, home>>

\* ufpUpdates: the state of a device is remembered, also of one that is not there.
Update(d, state) ==
    /\ known' = [known EXCEPT ![d] = state]
    /\ UNCHANGED <<optionVars, id, home>>

\* manageDevices, deviceAdopted: added from what is known of it, and only if it is.
Adopted(d) ==
    /\ known' = [known EXCEPT ![d] = "nothing"]
    /\ home' = IF ~Found(d) /\ known[d] = "adopted"
               THEN [home EXCEPT ![d] = Added(@, d, id[d])]
               ELSE home
    /\ UNCHANGED <<optionVars, id>>

\* manageDevices, deviceUnadopted.
Unadopted(d) ==
    /\ known' = [known EXCEPT ![d] = "nothing"]
    /\ home' = IF Found(d) THEN [home EXCEPT ![d] = RemovedInTime(@, FALSE)] ELSE home
    /\ UNCHANGED <<optionVars, id>>

\* Homebridge restarts, or crashes, and the options may have changed: configureAccessory
\* brings back the accessories of the bridge.
Restart(hides, publishes, delays) ==
    /\ hidden' = hides
    /\ standalone' = publishes
    /\ delayed' = delays
    /\ home' = [d \in Devices |->
                   IF home[d].accessory = "bridged"
                   THEN [Nothing EXCEPT !.accessory = "bridged", !.package = home[d].package]
                   ELSE Nothing]
    /\ known' = [d \in Devices |-> "nothing"]
    /\ UNCHANGED id

Next ==
    \/ \E listed \in [Devices -> Listings] : Sync(listed)
    \/ SyncWithoutBootstrap
    \/ \E d \in Devices :
           \/ DelayPasses(d)
           \/ GetsAnotherId(d)
           \/ \E state \in {"unadopted", "adopted"} : Update(d, state)
           \/ Adopted(d)
           \/ Unadopted(d)
    \/ \E hides, publishes \in SUBSET Devices, delays \in BOOLEAN :
           Restart(hides, publishes, delays)

Spec == Init /\ [][Next]_vars

-----------------------------------------------------------------------------
(* What the synchronisation promises.                                      *)

\* What the plugin has of a device agrees, whatever bootstraps, events and restarts came
\* in what order: a device has its accessory and is found by the id it has; a package
\* camera is there only with its camera; and only an accessory that is there waits for
\* its removal, so that one that comes back is not removed in haste (addHomeKitDevice,
\* removeHomeKitDevice, cleanupDevices).
HomeAgrees == \A d \in Devices :
    LET h == home[d] IN
    /\ h.device => h.accessory # "none" /\ d \notin hidden
    /\ h.index = IF h.device THEN {h.ufpId} ELSE {}
    /\ h.package => h.accessory # "none" /\ d \in Doorbells
    /\ h.device /\ d \in Doorbells => h.package
    /\ h.queue # "no" => delayed /\ h.accessory # "none"

\* After a synchronisation HomeKit shows what the controller has and the options ask
\* for: each adopted device, as they say, unless its removal was due; nothing hidden that
\* the plugin has heard of; and nothing that is gone, but with a delay.
Settled(listed) == \A d \in Devices :
    LET h == home'[d] IN
    /\ listed[d] = "adopted" /\ d \notin hidden /\ home[d].queue # "due" =>
           h.device /\ h.accessory = Mode(d) /\ h.queue = "no"
    /\ d \in hidden => h.accessory = "none"
    /\ listed[d] = "absent" /\ ~delayed => h.accessory \in {"none", Mode(d)}
    /\ listed[d] = "absent" /\ ~delayed /\ home[d].accessory = Mode(d) => h.accessory = "none"

SyncSettles == \A listed \in [Devices -> Listings] : Sync(listed) => Settled(listed)

SyncsSettle == [][SyncSettles]_vars

\* "In case we have previously queued a device for deletion, let's remove it from the
\* queue since it's reappeared" (cleanupDevices): what the controller lists stays.
ReappearedStay ==
    [][\A listed \in [Devices -> Listings] : Sync(listed) =>
           \A d \in Devices :
               /\ listed[d] = "adopted" /\ d \notin hidden /\ home[d].accessory = Mode(d)
               => home'[d].accessory = Mode(d)]_vars

=============================================================================
