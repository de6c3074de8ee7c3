----------------------------- MODULE RtspEntries -----------------------------
(***************************************************************************)
(* The RTSP entries of a camera (protect-camera-video.ts): the resolutions *)
(* HomeKit is offered, and the channel of the camera each of them and each *)
(* request is served from.  They are made when the camera is configured,   *)
(* and again when an update says that its channels changed, but not when a *)
(* bootstrap or the answer to a write replaces them; the resolutions that  *)
(* HomeKit was offered first stay.                                         *)
(*                                                                         *)
(* The URLs and the names of the entries are left out, and so are the      *)
(* limit of a Raspberry Pi and recordings, which find a higher channel.    *)
(***************************************************************************)
EXTENDS Naturals, Sequences, SequencesExt, FiniteSets

CONSTANT ChannelLists   \* the channels a camera may have; none before it has started

VARIABLES
    override,           \* an RTSP URL is configured for this camera
    profile,            \* the channel the user wants streamed and recorded, "" for no wish
    mayModify,          \* the user of the controller may modify cameras
    channels,           \* camera.ufp.channels
    patching,           \* the channels sent by each enableRtsp that is not answered
    rtspEntries,        \* what requests are served from
    offered,            \* the resolutions HomeKit was offered, <<>> without a delegate
    streamingDefault,   \* hints.streamingDefault
    isSubscribed,       \* the camera listens to the controller's updates
    replaced            \* history: the channels were replaced and not configured since

optionVars == <<override, profile, mayModify>>
vars == <<optionVars, channels, patching, rtspEntries, offered, streamingDefault,
          isSubscribed, replaced>>

Channels ==
    [name : STRING, width : Nat, height : Nat, fps : Nat, isRtspEnabled : BOOLEAN]

Resolution(width, height, fps) == [width |-> width, height |-> height, fps |-> fps]

Entry(channel, resolution) == [channel |-> channel, resolution |-> resolution]

Enabled(chs) == [i \in DOMAIN chs |-> [chs[i] EXCEPT !.isRtspEnabled = TRUE]]

Init ==
    /\ override \in BOOLEAN /\ mayModify \in BOOLEAN
    /\ profile \in {"", "LOW", "MEDIUM"}
    /\ channels \in ChannelLists
    /\ patching = <<>> /\ rtspEntries = <<>> /\ offered = <<>>
    /\ streamingDefault = "" /\ isSubscribed = FALSE /\ replaced = FALSE

-----------------------------------------------------------------------------
(* The entries.                                                            *)

\* sortByResolutions, for a sort that leaves equals in their order.
Precedes(entries, i, j) ==
    LET x == entries[i].resolution
        y == entries[j].resolution
    IN  \/ x.width > y.width
        \/ x.width = y.width /\ x.height > y.height
        \/ x.width = y.width /\ x.height = y.height /\ x.fps > y.fps
        \/ x = y /\ i < j

Place(entries, indices, i) == Cardinality({j \in indices : Precedes(entries, j, i)}) + 1

\* The entries of some indices, from the highest resolution to the lowest.
Ordered(entries, indices) ==
    LET place == [i \in indices |-> Place(entries, indices, i)]
    IN  [k \in 1 .. Cardinality(indices) |-> entries[CHOOSE i \in indices : place[i] = k]]

IsSane(c) == c.width \in 1 .. 65535 /\ c.height \in 1 .. 65535

Native(c) == Entry(c, Resolution(c.width, c.height, c.fps))

\* The first of the channels with the most pixels.
IsLargest(chs, i) ==
    \A j \in DOMAIN chs :
        LET here == chs[i].width * chs[i].height
            there == chs[j].width * chs[j].height
        IN  here > there \/ (here = there /\ i <= j)

\* One entry for each channel that can be used; with an override, for the largest.
NativeEntries(chs) ==
    LET usable == {i \in DOMAIN chs :
                       IF override THEN IsLargest(chs, i)
                       ELSE chs[i].isRtspEnabled /\ chs[i].name # "PACKAGE CAMERA"}
    IN  Ordered([i \in DOMAIN chs |-> Native(chs[i])], {i \in usable : IsSane(chs[i])})

\* The first of some indices, 0 if there is none.
FirstOf(indices) ==
    IF indices = {} THEN 0 ELSE CHOOSE i \in indices : \A j \in indices : i <= j

\* findRtspEntry, of entries that are there.
Found(entries, width, height, default) ==
    LET named == {i \in DOMAIN entries : entries[i].channel.name = default}
        exact == {i \in DOMAIN entries :
                      entries[i].channel.width = width /\ entries[i].channel.height = height}
        narrower == {i \in DOMAIN entries : entries[i].channel.width < width}
    IN  IF default # "" THEN FirstOf(named)
        ELSE IF exact # {} THEN FirstOf(exact)
        ELSE IF narrower # {} THEN FirstOf(narrower) ELSE Len(entries)

\* The sizes HomeKit knows, of the camera's aspect ratio.
ValidResolutions(native) ==
    IF native.width * 3 = native.height * 4
    THEN <<<<3840, 2880>>, <<2560, 1920>>, <<1920, 1440>>, <<1280, 960>>, <<640, 480>>,
           <<480, 360>>, <<320, 240>>>>
    ELSE <<<<3840, 2160>>, <<2560, 1440>>, <<1920, 1080>>, <<1280, 720>>, <<640, 360>>,
           <<480, 270>>, <<320, 180>>>>

\* Deviation: no exception for what HomeKit requires.
FitsOnly(width, native) == width < native.width

\* No larger than the camera's own, but for 1080p and 720p, which HomeKit requires.
Fits(width, native) == width < native.width \/ width \in {1920, 1280}

\* A size is added with the channel that serves it, which 30 and 15 frames have in common; the
\* first of the entries stays the camera's own highest.
Added(entries, size, default) ==
    LET found == Found(entries, size[1], size[2], default)
        channel == entries[found].channel
        resolution == Resolution(size[1], size[2], channel.fps)
    IN  IF /\ Fits(size[1], entries[1].resolution) /\ found # 0
           /\ ~\E i \in DOMAIN entries : entries[i].resolution = resolution
        THEN Append(entries, Entry(channel, resolution))
        ELSE entries

\* The loop over the candidates.
WithCandidates(natives, default) ==
    LET sizes == ValidResolutions(natives[1].resolution)
        with[n \in 0 .. Len(sizes)] ==
            IF n = 0 THEN natives ELSE Added(with[n - 1], sizes[n], default)
    IN  Ordered(with[Len(sizes)], DOMAIN with[Len(sizes)])

ClosestRate(fps) == IF fps > 24 THEN 30 ELSE IF fps > 15 THEN 24 ELSE 15

\* HomeKit Secure Video needs one entry at 15, 24 or 30 frames per second.
WithRecordingRate(entries) ==
    LET wide == {i \in DOMAIN entries : /\ entries[i].resolution.width = 1920
                                        /\ entries[i].resolution.height \in {1080, 1440}}
    IN  [i \in DOMAIN entries |->
            IF entries[1].resolution.fps \notin {15, 24, 30} /\ i = FirstOf(wide)
            THEN [entries[i] EXCEPT !.resolution.fps = ClosestRate(@)]
            ELSE entries[i]]

\* configure, once the channels are known: what it cannot do leaves everything as it was.
\* After the first one, updates are listened to (configureDevice).
Publishes(chs) ==
    LET natives == NativeEntries(chs)
        entries == WithRecordingRate(WithCandidates(natives, streamingDefault))
    IN  /\ channels' = chs
        /\ isSubscribed' = TRUE
        /\ replaced' = FALSE
        /\ IF natives = <<>>
           THEN UNCHANGED <<rtspEntries, offered, streamingDefault>>
           ELSE /\ rtspEntries' = entries
                /\ IF offered = <<>>
                   THEN /\ offered' = [i \in DOMAIN entries |-> entries[i].resolution]
                        /\ streamingDefault' = profile
                   ELSE UNCHANGED <<offered, streamingDefault>>

-----------------------------------------------------------------------------
(* Operations.                                                             *)

\* configure up to what it has to wait for (enableRtsp).
Configure(chs) ==
    IF chs # <<>> /\ ~override /\ mayModify /\ \E i \in DOMAIN chs : ~chs[i].isRtspEnabled
    THEN /\ patching' = Append(patching, Enabled(chs))
         /\ channels' = chs
         /\ UNCHANGED <<rtspEntries, offered, streamingDefault, isSubscribed, replaced>>
    ELSE Publishes(chs) /\ UNCHANGED patching

\* configureDevice, before the camera listens to the controller.
ConfigureDevice ==
    /\ ~isSubscribed /\ patching = <<>>
    /\ Configure(channels)
    /\ UNCHANGED optionVars

\* A bootstrap replaces the device (ufpUpdates), or the answer to a write does (writeDevice),
\* and before the camera listens an update changes it: nothing is configured.  Bound: once
\* until the next configuration.
ChannelsReplaced ==
    /\ ~replaced
    /\ \E chs \in ChannelLists : chs # channels /\ channels' = chs
    /\ replaced' = TRUE
    /\ UNCHANGED <<optionVars, patching, rtspEntries, offered, streamingDefault, isSubscribed>>

\* eventHandler: an update says that the channels changed, or their codec.  Bound: two
\* answers outstanding.
ChannelsChange ==
    /\ isSubscribed /\ Len(patching) < 2
    /\ \E chs \in ChannelLists : Configure(chs)
    /\ UNCHANGED optionVars

\* The controller answers an update, whichever, or refuses it.
EnableRtspAnswers ==
    \E i \in DOMAIN patching :
        /\ patching' = RemoveAt(patching, i)
        /\ \E answer \in {channels, patching[i]} : Publishes(answer)
        /\ UNCHANGED optionVars

Next == ConfigureDevice \/ ChannelsReplaced \/ ChannelsChange \/ EnableRtspAnswers

Spec == Init /\ [][Next]_vars

-----------------------------------------------------------------------------
(* What the entries promise.                                               *)

Widths == {rtspEntries[i].channel.width : i \in DOMAIN rtspEntries}

\* The entry's channel is of that size itself, or the widest of the narrower ones.  A channel
\* is missed that is just as wide as the entry's size, but less high: that size, of another
\* aspect ratio, is then served from a narrower channel and found first.
ServesNext(e, width, height) ==
    \/ e.channel.width = width /\ e.channel.height = height
    \/ /\ e.channel.width < width
       /\ \A w \in Widths : e.channel.width < w /\ w < width => w = e.resolution.width

\* What HomeKit needs was offered.
RequiredIsOffered ==
    offered # <<>> => {1920, 1280} \subseteq {offered[i].width : i \in DOMAIN offered}

\* The entries are those of the camera's channels, but for channels that were replaced and
\* that no update has configured since: those wait for the next one.
EntriesAreCurrent ==
    patching = <<>> /\ ~replaced /\ NativeEntries(channels) # <<>> /\ rtspEntries # <<>> =>
        {rtspEntries[i].channel : i \in DOMAIN rtspEntries} \subseteq
            {channels[i] : i \in DOMAIN channels}

\* Each size that was offered is served from the very channel or the next lower one, as long
\* as there is one; where there is none, the last entry serves it, whose channel need not be
\* the lowest.
SizesAreServed ==
    rtspEntries # <<>> /\ streamingDefault = "" =>
        \A i \in DOMAIN offered :
            LET width == offered[i].width
                height == offered[i].height
            IN  (\E w \in Widths : w < width) =>
                    ServesNext(rtspEntries[Found(rtspEntries, width, height, "")],
                               width, height)

\* Whatever the channels turned into since, whoever replaced them, and whichever of several
\* configurations ended last, what HomeKit was offered is served (configure, findRtspEntry).
OffersAreServed == RequiredIsOffered /\ EntriesAreCurrent /\ SizesAreServed

=============================================================================
