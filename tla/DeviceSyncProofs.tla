-------------------------- MODULE DeviceSyncProofs --------------------------
(***************************************************************************)
(* What the plugin has of each device agrees, for any devices, options and *)
(* listings: every operation of a synchronisation keeps it that way, each  *)
(* shown by a lemma of its own, and so does every event in between.        *)
(***************************************************************************)
EXTENDS MCHome, TLAPS

USE SyncAssumption

\* What HomeAgrees says of one device.
Agrees(h, d) ==
    /\ h.device => h.accessory # "none" /\ d \notin hidden
    /\ h.index = IF h.device THEN {h.ufpId} ELSE {}
    /\ h.package => h.accessory # "none" /\ d \in Doorbells
    /\ h.device /\ d \in Doorbells => h.package
    /\ h.queue # "no" => delayed /\ h.accessory # "none"

IsSound(h, d) == h \in Sync!Home /\ Agrees(h, d)

SyncInv == Sync!TypeOK /\ Sync!HomeAgrees

\* The invariant, device by device.
LEMMA EachIsSound ==
    ASSUME SyncInv
    PROVE  \A d \in Accessories : IsSound(home[d], d)
BY DEF SyncInv, Sync!TypeOK, Sync!HomeAgrees, IsSound, Agrees

\* A record of an accessory without a device is of the right type.
LEMMA NothingIsHome ==
    /\ Sync!Nothing \in Sync!Home
    /\ \A package \in BOOLEAN :
           [accessory |-> "bridged", package |-> package, device |-> FALSE,
            ufpId |-> 0, index |-> {}, queue |-> "no"] \in Sync!Home
BY DEF Sync!Nothing, Sync!Home, Sync!Ids

-----------------------------------------------------------------------------
(* The operations on one device.                                           *)

\* A removal leaves nothing (removeHomeKitDevice).
LEMMA RemovedIsSound ==
    ASSUME NEW d, NEW h, h \in Sync!Home
    PROVE  IsSound(Sync!Removed(h), d)
BY DEF IsSound, Agrees, Sync!Removed, Sync!Nothing, Sync!Home, Sync!Ids

\* A removal in time either removes, or queues with a delay what is there: both are sound.
LEMMA RemovedInTimeIsSound ==
    ASSUME NEW d, NEW h, IsSound(h, d), h.accessory # "none"
    PROVE  /\ IsSound(Sync!Removed(h), d)
           /\ delayed => IsSound([h EXCEPT !.queue = "queued"], d)
<1>1. h \in Sync!Home
  BY DEF IsSound
<1>2. IsSound(Sync!Removed(h), d)
  BY <1>1, RemovedIsSound
<1>3. delayed => IsSound([h EXCEPT !.queue = "queued"], d)
  BY <1>1 DEF IsSound, Agrees, Sync!Home
<1> QED
  BY <1>2, <1>3

\* Adding keeps what is there and leaves one id (addHomeKitDevice, addProtectDevice).
LEMMA AddedIsSound ==
    ASSUME NEW d, NEW h, IsSound(h, d), NEW i \in Sync!Ids
    PROVE  IsSound(Sync!Added(h, d, i), d)
<1>1. h \in Sync!Home
  BY DEF IsSound
<1>2. CASE d \in hidden
  BY <1>1, <1>2, RemovedIsSound DEF Sync!Added
<1>3. CASE d \notin hidden
  <2> DEFINE exposed == [h EXCEPT !.accessory = IF @ = "none" THEN Sync!Mode(d) ELSE @]
  <2>1. /\ exposed \in Sync!Home /\ exposed.accessory # "none"
        /\ exposed.device = h.device /\ exposed.index = h.index /\ exposed.ufpId = h.ufpId
        /\ exposed.package = h.package /\ exposed.queue = h.queue
    BY <1>1 DEF Sync!Home, Sync!Mode
  <2>2. IsSound(exposed, d)
    BY <2>1 DEF IsSound, Agrees
  <2>3. CASE h.device
    BY <1>3, <2>2, <2>3 DEF Sync!Added
  <2>4. CASE ~h.device
    <3>1. Sync!Added(h, d, i) = Sync!Constructed(exposed, d, i)
      BY <1>3, <2>4 DEF Sync!Added
    <3> HIDE DEF exposed
    <3>2. exposed.index = {}
      BY <2>1, <2>4, <2>2 DEF IsSound, Agrees
    <3> DEFINE c == Sync!Constructed(exposed, d, i)
    <3>3. /\ c \in Sync!Home /\ c.accessory = exposed.accessory /\ c.queue = exposed.queue
          /\ c.device = TRUE /\ c.index = {i} /\ c.ufpId = i
          /\ c.package = (exposed.package \/ d \in Doorbells)
      BY <2>1, <3>2 DEF Sync!Constructed, Sync!Home
    <3>4. IsSound(c, d)
      <4> HIDE DEF c
      <4> QED
        BY <1>3, <2>1, <2>2, <3>3 DEF IsSound, Agrees
    <3> QED
      BY <3>1, <3>4
  <2> QED
    BY <2>3, <2>4
<1> QED
  BY <1>2, <1>3

\* The removal queue takes what is there.
LEMMA AfterQueueIsSound ==
    ASSUME NEW d, NEW h, IsSound(h, d)
    PROVE  IsSound(Sync!AfterQueue(h, d), d)
<1> DEFINE r == Sync!RemovedInTime(h, d \in hidden)
<1>1. h.accessory # "none" => IsSound(r, d)
  BY RemovedInTimeIsSound DEF Sync!RemovedInTime
<1>2. Sync!AfterQueue(h, d) = IF h.accessory # "none" /\ h.queue # "no" THEN r ELSE h
  BY DEF Sync!AfterQueue
<1> QED
  BY <1>1, <1>2

\* What cleanupDevices does to a device that the queue has left.
LEMMA CleanedUpIsSound ==
    ASSUME NEW d, NEW h, IsSound(h, d), NEW listing \in Sync!Listings
    PROVE  IsSound(Sync!CleanedUp(h, d, listing), d)
<1>1. h \in Sync!Home
  BY DEF IsSound
<1>2. IsSound([h EXCEPT !.queue = "no"], d)
  BY DEF IsSound, Agrees, Sync!Home
<1>3. IsSound(Sync!Switched(h, d), d)
  <2>1. h.ufpId \in Sync!Ids
    BY <1>1 DEF Sync!Home
  <2> QED
    BY <1>1, <2>1, RemovedIsSound, AddedIsSound DEF Sync!Switched
<1>4. h.accessory # "none" => IsSound(Sync!RemovedInTime(h, d \in hidden), d)
  BY RemovedInTimeIsSound DEF Sync!RemovedInTime
<1>5. Sync!CleanedUp(h, d, listing) \in
          {h, Sync!RemovedInTime(h, d \in hidden), [h EXCEPT !.queue = "no"], Sync!Switched(h, d)}
  BY DEF Sync!CleanedUp
<1>6. h.accessory = "none" => Sync!CleanedUp(h, d, listing) = h
  BY DEF Sync!CleanedUp, IsSound, Agrees
<1> QED
  BY <1>2, <1>3, <1>4, <1>5, <1>6

\* One synchronisation of a device (discoverAndSyncAccessories).
LEMMA SyncedIsSound ==
    ASSUME NEW d \in Accessories, NEW h, IsSound(h, d), NEW listing \in Sync!Listings,
           id[d] \in Sync!Ids
    PROVE  IsSound(Sync!Synced(h, d, listing), d)
<1> DEFINE added == IF listing = "adopted" THEN Sync!Added(h, d, id[d]) ELSE h
<1>1. IsSound(added, d)
  BY AddedIsSound
<1>2. Sync!Synced(h, d, listing) = Sync!CleanedUp(Sync!AfterQueue(added, d), d, listing)
  BY DEF Sync!Synced
<1> HIDE DEF added
<1>3. IsSound(Sync!AfterQueue(added, d), d)
  BY <1>1, AfterQueueIsSound
<1> QED
  BY <1>2, <1>3, CleanedUpIsSound

-----------------------------------------------------------------------------
(* The steps.                                                              *)

LEMMA InitIsSound ==
    ASSUME Sync!Init
    PROVE  SyncInv
BY DEF Sync!Init, SyncInv, Sync!TypeOK, Sync!HomeAgrees, Sync!Nothing, Sync!Home, Sync!Ids

\* A step that keeps the options keeps the invariant if each device stays sound.
LEMMA SoundStep ==
    ASSUME SyncInv, UNCHANGED Sync!optionVars,
           id' \in [Accessories -> Sync!Ids],
           known' \in [Accessories -> {"nothing", "unadopted", "adopted"}],
           NEW made, \A d \in Accessories : IsSound(made[d], d),
           home' = [d \in Accessories |-> made[d]]
    PROVE  SyncInv'
<1>1. \A d \in Accessories : home'[d] = made[d] /\ home'[d] \in Sync!Home
  BY DEF IsSound
<1>2. Sync!TypeOK'
  BY <1>1 DEF SyncInv, Sync!TypeOK, Sync!optionVars
<1>3. Sync!HomeAgrees'
  BY <1>1 DEF Sync!HomeAgrees, IsSound, Agrees, Sync!optionVars
<1> QED
  BY <1>2, <1>3 DEF SyncInv

LEMMA SyncIsSound ==
    ASSUME SyncInv, NEW told \in [Accessories -> Sync!Listings], Sync!Sync(told)
    PROVE  SyncInv'
<1> DEFINE made == [d \in Accessories |-> Sync!Synced(home[d], d, told[d])]
<1>1. id' \in [Accessories -> Sync!Ids] /\ UNCHANGED Sync!optionVars
  BY DEF Sync!Sync, SyncInv, Sync!TypeOK
<1>2. known' \in [Accessories -> {"nothing", "unadopted", "adopted"}]
  BY DEF Sync!Sync, SyncInv, Sync!TypeOK
<1>3. \A d \in Accessories : IsSound(made[d], d)
  BY EachIsSound, SyncedIsSound DEF SyncInv, Sync!TypeOK
<1>4. home' = [d \in Accessories |-> made[d]]
  BY DEF Sync!Sync
<1> QED
  BY <1>1, <1>2, <1>3, <1>4, SoundStep

LEMMA NextIsSound ==
    ASSUME SyncInv, [Sync!Next]_(Sync!vars)
    PROVE  SyncInv'
<1>0. \A d \in Accessories : IsSound(home[d], d)
  BY EachIsSound
<1>1. CASE \E told \in [Accessories -> Sync!Listings] : Sync!Sync(told)
  BY <1>1, SyncIsSound
<1>2. CASE Sync!SyncWithoutBootstrap
  <2> DEFINE made == [d \in Accessories |-> [home[d] EXCEPT !.queue = "no"]]
  <2>1. \A d \in Accessories : IsSound(made[d], d)
    BY <1>0 DEF IsSound, Agrees, Sync!Home
  <2>2. home' = [d \in Accessories |-> made[d]]
    BY <1>2 DEF Sync!SyncWithoutBootstrap
  <2> HIDE DEF made
  <2> QED
    BY <1>2, <2>1, <2>2, SoundStep DEF Sync!SyncWithoutBootstrap, SyncInv, Sync!TypeOK
<1>3. ASSUME NEW d \in Accessories, Sync!DelayPasses(d)
      PROVE  SyncInv'
  <2> DEFINE h == [home[d] EXCEPT !.queue = "due"]
             made == [home EXCEPT ![d] = h]
  <2>1. IsSound(h, d)
    BY <1>0, <1>3 DEF IsSound, Agrees, Sync!Home, Sync!DelayPasses
  <2>2. home' = [e \in Accessories |-> made[e]]
    BY <1>3 DEF Sync!DelayPasses, SyncInv, Sync!TypeOK
  <2> HIDE DEF h
  <2>3. \A e \in Accessories : IsSound(made[e], e)
    BY <1>0, <2>1 DEF SyncInv, Sync!TypeOK
  <2> HIDE DEF made
  <2> QED
    BY <1>3, <2>2, <2>3, SoundStep DEF Sync!DelayPasses, SyncInv, Sync!TypeOK
<1>4. ASSUME NEW d \in Accessories, Sync!GetsAnotherId(d)
      PROVE  SyncInv'
  <2>1. id' \in [Accessories -> Sync!Ids]
    BY <1>4 DEF Sync!GetsAnotherId, SyncInv, Sync!TypeOK, Sync!Ids
  <2>2. home' = [e \in Accessories |-> home[e]]
    BY <1>4 DEF Sync!GetsAnotherId, SyncInv, Sync!TypeOK
  <2> QED
    BY <1>0, <1>4, <2>1, <2>2, SoundStep DEF Sync!GetsAnotherId, SyncInv, Sync!TypeOK
<1>5. ASSUME NEW d \in Accessories, NEW state \in {"unadopted", "adopted"}, Sync!Update(d, state)
      PROVE  SyncInv'
  <2>1. home' = [e \in Accessories |-> home[e]]
    BY <1>5 DEF Sync!Update, SyncInv, Sync!TypeOK
  <2> QED
    BY <1>0, <1>5, <2>1, SoundStep DEF Sync!Update, SyncInv, Sync!TypeOK
<1>6. ASSUME NEW d \in Accessories, Sync!Adopted(d)
      PROVE  SyncInv'
  <2> DEFINE h == IF ~Sync!Found(d) /\ known[d] = "adopted"
                  THEN Sync!Added(home[d], d, id[d])
                  ELSE home[d]
             made == [home EXCEPT ![d] = h]
  <2>1. IsSound(h, d)
    BY <1>0, AddedIsSound DEF SyncInv, Sync!TypeOK
  <2>2. home' = [e \in Accessories |-> made[e]]
    BY <1>6 DEF Sync!Adopted, SyncInv, Sync!TypeOK
  <2> HIDE DEF h
  <2>3. \A e \in Accessories : IsSound(made[e], e)
    BY <1>0, <2>1 DEF SyncInv, Sync!TypeOK
  <2> HIDE DEF made
  <2> QED
    BY <1>6, <2>2, <2>3, SoundStep DEF Sync!Adopted, SyncInv, Sync!TypeOK
<1>7. ASSUME NEW d \in Accessories, Sync!Unadopted(d)
      PROVE  SyncInv'
  <2> DEFINE h == IF Sync!Found(d) THEN Sync!RemovedInTime(home[d], FALSE) ELSE home[d]
             made == [home EXCEPT ![d] = h]
  <2>1. Sync!Found(d) => home[d].accessory # "none"
    BY <1>0 DEF Sync!Found, IsSound, Agrees
  <2>2. IsSound(h, d)
    BY <1>0, <2>1, RemovedInTimeIsSound DEF Sync!RemovedInTime
  <2>3. home' = [e \in Accessories |-> made[e]]
    BY <1>7 DEF Sync!Unadopted, SyncInv, Sync!TypeOK
  <2> HIDE DEF h
  <2>4. \A e \in Accessories : IsSound(made[e], e)
    BY <1>0, <2>2 DEF SyncInv, Sync!TypeOK
  <2> HIDE DEF made
  <2> QED
    BY <1>7, <2>3, <2>4, SoundStep DEF Sync!Unadopted, SyncInv, Sync!TypeOK
<1>8. ASSUME NEW hides \in SUBSET Accessories, NEW publishes \in SUBSET Accessories,
             NEW delays \in BOOLEAN, Sync!Restart(hides, publishes, delays)
      PROVE  SyncInv'
  <2>1. \A d \in Accessories :
            home'[d] = IF home[d].accessory = "bridged"
                       THEN [Sync!Nothing EXCEPT !.accessory = "bridged",
                                                 !.package = home[d].package]
                       ELSE Sync!Nothing
    BY <1>8 DEF Sync!Restart
  <2>2. \A d \in Accessories :
            /\ home'[d] \in Sync!Home /\ home'[d].device = FALSE /\ home'[d].index = {}
            /\ home'[d].queue = "no"
            /\ home'[d].package => home'[d].accessory # "none" /\ home[d].package
    <3> SUFFICES ASSUME NEW d \in Accessories
                 PROVE  /\ home'[d] \in Sync!Home /\ home'[d].device = FALSE /\ home'[d].index = {}
                        /\ home'[d].queue = "no"
                        /\ home'[d].package => home'[d].accessory # "none" /\ home[d].package
      OBVIOUS
    <3>1. home[d].package \in BOOLEAN
      BY <1>0 DEF IsSound, Sync!Home
    <3>2. CASE home[d].accessory = "bridged"
      <4>1. home'[d] = [accessory |-> "bridged", package |-> home[d].package, device |-> FALSE,
                        ufpId |-> 0, index |-> {}, queue |-> "no"]
        BY <2>1, <3>2 DEF Sync!Nothing
      <4> QED
        BY <3>1, <4>1, NothingIsHome
    <3>3. CASE home[d].accessory # "bridged"
      <4>1. home'[d] = Sync!Nothing
        BY <2>1, <3>3
      <4>2. /\ Sync!Nothing.device = FALSE /\ Sync!Nothing.index = {}
            /\ Sync!Nothing.queue = "no" /\ Sync!Nothing.package = FALSE
        BY DEF Sync!Nothing
      <4> QED
        BY <4>1, <4>2, NothingIsHome
    <3> QED
      BY <3>2, <3>3
  <2>3. Sync!TypeOK'
    BY <1>8, <2>2 DEF Sync!Restart, SyncInv, Sync!TypeOK
  <2>4. Sync!HomeAgrees'
    BY <1>0, <2>2 DEF Sync!HomeAgrees, IsSound, Agrees
  <2> QED
    BY <2>3, <2>4 DEF SyncInv
<1>9. CASE UNCHANGED Sync!vars
  BY <1>9 DEF Sync!vars, Sync!optionVars, SyncInv, Sync!TypeOK, Sync!HomeAgrees
<1> QED
  BY <1>1, <1>2, <1>3, <1>4, <1>5, <1>6, <1>7, <1>8, <1>9 DEF Sync!Next

LEMMA SyncStaysSound == Sync!Spec => []SyncInv
<1>1. Sync!Init => SyncInv
  BY InitIsSound
<1>2. SyncInv /\ [Sync!Next]_(Sync!vars) => SyncInv'
  BY NextIsSound
<1> QED
  BY <1>1, <1>2, PTL DEF Sync!Spec

\* The state of the synchronisation stays within its types, and what the plugin has of
\* each device agrees, whatever bootstraps, events, adoptions and restarts come in what
\* order (addHomeKitDevice, removeHomeKitDevice, cleanupDevices).
THEOREM HomeStaysInAgreement == Sync!Spec => [](Sync!TypeOK /\ HomeAgrees)
<1>1. SyncInv => Sync!TypeOK /\ HomeAgrees
  BY DEF SyncInv, HomeAgrees
<1> QED
  BY <1>1, SyncStaysSound, PTL

-----------------------------------------------------------------------------
(* A synchronisation shows what the controller has.                        *)

\* A device that is wanted is there once it was added, and one that is not is gone.
LEMMA AddedShows ==
    ASSUME NEW d, NEW h, IsSound(h, d), NEW i \in Sync!Ids
    PROVE  /\ d \notin hidden => /\ Sync!Added(h, d, i).device = TRUE
                                 /\ Sync!Added(h, d, i).accessory =
                                        IF h.accessory = "none" THEN Sync!Mode(d) ELSE h.accessory
                                 /\ Sync!Added(h, d, i).queue = h.queue
           /\ d \in hidden => Sync!Added(h, d, i).accessory = "none"
<1>1. h \in Sync!Home
  BY DEF IsSound
<1>2. d \in hidden => Sync!Added(h, d, i).accessory = "none"
  BY DEF Sync!Added, Sync!Removed, Sync!Nothing
<1>3. ASSUME d \notin hidden
      PROVE  /\ Sync!Added(h, d, i).device = TRUE
             /\ Sync!Added(h, d, i).accessory =
                     IF h.accessory = "none" THEN Sync!Mode(d) ELSE h.accessory
             /\ Sync!Added(h, d, i).queue = h.queue
  <2> DEFINE exposed == [h EXCEPT !.accessory = IF @ = "none" THEN Sync!Mode(d) ELSE @]
  <2>1. /\ exposed \in Sync!Home /\ exposed.device = h.device /\ exposed.queue = h.queue
        /\ exposed.accessory = IF h.accessory = "none" THEN Sync!Mode(d) ELSE h.accessory
    BY <1>1 DEF Sync!Home, Sync!Mode
  <2>2. Sync!Added(h, d, i) = IF h.device THEN exposed ELSE Sync!Constructed(exposed, d, i)
    BY <1>3 DEF Sync!Added
  <2> HIDE DEF exposed
  <2>3. LET c == Sync!Constructed(exposed, d, i)
        IN  c.device = TRUE /\ c.accessory = exposed.accessory /\ c.queue = exposed.queue
    BY <2>1 DEF Sync!Constructed, Sync!Home
  <2>4. h.device \in BOOLEAN
    BY <1>1 DEF Sync!Home
  <2> QED
    BY <2>1, <2>2, <2>3, <2>4
<1> QED
  BY <1>2, <1>3

\* A device that changes its mode is there in the other one, if it is wanted at all.
LEMMA SwitchedShows ==
    ASSUME NEW d, NEW h, IsSound(h, d)
    PROVE  /\ d \notin hidden => /\ Sync!Switched(h, d).device = TRUE
                                 /\ Sync!Switched(h, d).accessory = Sync!Mode(d)
                                 /\ Sync!Switched(h, d).queue = "no"
           /\ d \in hidden => Sync!Switched(h, d).accessory = "none"
<1>1. h.ufpId \in Sync!Ids /\ IsSound(Sync!Removed(h), d)
  BY RemovedIsSound DEF IsSound, Sync!Home
<1>2. Sync!Removed(h).accessory = "none" /\ Sync!Removed(h).queue = "no"
  BY DEF Sync!Removed, Sync!Nothing
<1> DEFINE removed == Sync!Removed(h)
<1>3. Sync!Switched(h, d) = Sync!Added(removed, d, h.ufpId)
  BY DEF Sync!Switched
<1> HIDE DEF removed
<1>4. /\ d \notin hidden => /\ Sync!Added(removed, d, h.ufpId).device = TRUE
                            /\ Sync!Added(removed, d, h.ufpId).accessory =
                                   IF removed.accessory = "none" THEN Sync!Mode(d)
                                   ELSE removed.accessory
                            /\ Sync!Added(removed, d, h.ufpId).queue = removed.queue
      /\ d \in hidden => Sync!Added(removed, d, h.ufpId).accessory = "none"
  BY <1>1, AddedShows DEF removed
<1> QED
  BY <1>2, <1>3, <1>4 DEF removed

\* Settled, for one device.
LEMMA SyncedSettles ==
    ASSUME NEW d \in Accessories, NEW h, IsSound(h, d), NEW listing \in Sync!Listings,
           id[d] \in Sync!Ids, NEW s, s = Sync!Synced(h, d, listing)
    PROVE  /\ listing = "adopted" /\ d \notin hidden /\ h.queue # "due" =>
                  s.device /\ s.accessory = Sync!Mode(d) /\ s.queue = "no"
           /\ d \in hidden => s.accessory = "none"
           /\ listing = "absent" /\ ~delayed => s.accessory \in {"none", Sync!Mode(d)}
           /\ listing = "absent" /\ ~delayed /\ h.accessory = Sync!Mode(d) => s.accessory = "none"
<1> DEFINE a == IF listing = "adopted" THEN Sync!Added(h, d, id[d]) ELSE h
           q == Sync!AfterQueue(a, d)
<1>1. IsSound(a, d)
  BY AddedIsSound
<1>2. s = Sync!CleanedUp(q, d, listing)
  BY DEF Sync!Synced
<1>3. IsSound(q, d)
  <2> HIDE DEF a
  <2> QED
    BY <1>1, AfterQueueIsSound
<1>4. /\ Sync!Mode(d) # "none"
      /\ Sync!Removed(a).accessory = "none" /\ Sync!Removed(q).accessory = "none"
      /\ a \in Sync!Home /\ q \in Sync!Home
  BY <1>1, <1>3 DEF Sync!Mode, Sync!Removed, Sync!Nothing, IsSound
<1>5. ASSUME listing = "adopted", d \notin hidden, h.queue # "due"
      PROVE  s.device /\ s.accessory = Sync!Mode(d) /\ s.queue = "no"
  <2>1. a.device = TRUE /\ a.accessory # "none" /\ a.queue = h.queue
    <3>1. a = Sync!Added(h, d, id[d])
      BY <1>5
    <3> HIDE DEF a
    <3>2. /\ a.device = TRUE /\ a.queue = h.queue
          /\ a.accessory = IF h.accessory = "none" THEN Sync!Mode(d) ELSE h.accessory
      BY <1>5, <3>1, AddedShows
    <3> QED
      BY <1>4, <3>2
  <2>2. q = a
    <3> HIDE DEF a
    <3>1. a.queue # "no" => delayed
      BY <1>1 DEF IsSound, Agrees
    <3>2. a.queue \in {"no", "queued"}
      BY <1>4, <1>5, <2>1 DEF Sync!Home
    <3>3. a.queue = "queued" => [a EXCEPT !.queue = "queued"] = a
      BY <1>4 DEF Sync!Home
    <3> QED
      BY <1>5, <3>1, <3>2, <3>3 DEF Sync!AfterQueue, Sync!RemovedInTime
  <2> HIDE DEF q
  <2>3. CASE q.accessory = Sync!Mode(d)
    <3>1. s = [q EXCEPT !.queue = "no"]
      BY <1>2, <1>4, <1>5, <2>1, <2>2, <2>3 DEF Sync!CleanedUp
    <3> HIDE DEF a
    <3> QED
      BY <1>4, <2>1, <2>2, <2>3, <3>1 DEF Sync!Home
  <2>4. CASE q.accessory # Sync!Mode(d)
    <3>1. s = Sync!Switched(q, d)
      BY <1>2, <1>4, <2>1, <2>2, <2>4 DEF Sync!CleanedUp
    <3> QED
      BY <1>3, <1>5, <3>1, SwitchedShows
  <2> QED
    BY <2>3, <2>4
<1>6. ASSUME d \in hidden
      PROVE  s.accessory = "none"
  <2>1. a.device = FALSE
    <3> HIDE DEF a
    <3> QED
      BY <1>1, <1>6 DEF IsSound, Agrees, Sync!Home
  <2>2. q = a \/ q = Sync!Removed(a)
    BY <1>6 DEF Sync!AfterQueue, Sync!RemovedInTime
  <2>3. q.device = FALSE
    BY <2>1, <2>2 DEF Sync!Removed, Sync!Nothing
  <2> HIDE DEF q
  <2>4. (s = q /\ q.accessory = "none") \/ s = Sync!Removed(q)
    BY <1>2, <1>4, <1>6, <2>3 DEF Sync!CleanedUp, Sync!RemovedInTime
  <2> QED
    BY <1>4, <2>4
<1>7. ASSUME listing = "absent", ~delayed
      PROVE  /\ s.accessory \in {"none", Sync!Mode(d)}
             /\ h.accessory = Sync!Mode(d) => s.accessory = "none"
  <2>1. a = h
    BY <1>7
  <2>2. h.queue = "no"
    BY <1>7 DEF IsSound, Agrees
  <2>3. q = h
    BY <2>1, <2>2 DEF Sync!AfterQueue
  <2> HIDE DEF q, a
  <2>4. CASE h.accessory \notin {"none", Sync!Mode(d)} /\ h.device
    <3>1. s = Sync!Switched(h, d)
      BY <1>2, <1>4, <2>3, <2>4 DEF Sync!CleanedUp
    <3> QED
      BY <2>4, <3>1, SwitchedShows
  <2>5. CASE ~(h.accessory \notin {"none", Sync!Mode(d)} /\ h.device)
    <3>1. (s = h /\ h.accessory = "none") \/ s = Sync!Removed(h)
      BY <1>2, <1>7, <2>3, <2>5 DEF Sync!CleanedUp, Sync!RemovedInTime
    <3> QED
      BY <1>4, <2>3, <3>1
  <2> QED
    BY <2>4, <2>5
<1> QED
  BY <1>5, <1>6, <1>7

LEMMA SoundSettles ==
    ASSUME SyncInv
    PROVE  Sync!SyncSettles
<1> SUFFICES ASSUME NEW told \in [Accessories -> Sync!Listings], Sync!Sync(told)
             PROVE  Sync!Settled(told)
  BY DEF Sync!SyncSettles
<1> SUFFICES ASSUME NEW d \in Accessories
             PROVE  LET h == home'[d] IN
                    /\ told[d] = "adopted" /\ d \notin hidden /\ home[d].queue # "due" =>
                           h.device /\ h.accessory = Sync!Mode(d) /\ h.queue = "no"
                    /\ d \in hidden => h.accessory = "none"
                    /\ told[d] = "absent" /\ ~delayed => h.accessory \in {"none", Sync!Mode(d)}
                    /\ told[d] = "absent" /\ ~delayed /\ home[d].accessory = Sync!Mode(d) =>
                           h.accessory = "none"
  BY DEF Sync!Settled
<1>1. home'[d] = Sync!Synced(home[d], d, told[d])
  BY DEF Sync!Sync
<1>2. id[d] \in Sync!Ids /\ IsSound(home[d], d)
  BY EachIsSound DEF SyncInv, Sync!TypeOK
<1> QED
  BY <1>1, <1>2, SyncedSettles

\* Each synchronisation leaves in HomeKit what the controller lists and the options ask
\* for (discoverAndSyncAccessories, cleanupDevices).
THEOREM SynchronisationsSettle == Sync!Spec => Sync!SyncsSettle
<1>1. SyncInv => Sync!SyncSettles
  BY SoundSettles
<1> QED
  BY <1>1, SyncStaysSound, PTL DEF Sync!SyncsSettle

=============================================================================
