--------------------------- MODULE FeatureOptions ---------------------------
(***************************************************************************)
(* One feature option: the entries of the configuration that set it, as    *)
(* the configuration interface writes them for a scope and shows them      *)
(* (renderer.js, option-state.js), and what the plugin makes of them       *)
(* (featureoptions.ts).                                                    *)
(*                                                                         *)
(* An entry is its action and what follows the option's name, segment by   *)
(* segment: "Enable.Motion.Duration.camera.7" has the tail                 *)
(* <<"camera", "7">>.  The interface knows a controller by its address,    *)
(* the plugin by its MAC address.  Options whose name begins with the name *)
(* of another are left out.                                                *)
(***************************************************************************)
EXTENDS Naturals, Sequences

CONSTANTS
    Devices,    \* MAC addresses of devices
    MaxWritten  \* bound: entries written by hand

VARIABLES
    isValue,    \* the option has a value
    default,    \* it is enabled by default
    options     \* the entries of the configuration, in order

vars == <<isValue, default, options>>

Nvr == "nvr"            \* the controller's MAC address
Address == "address"    \* its address
DefaultValue == "5"
Numbers == {DefaultValue, "7"}
NoValue == <<>>
Nowhere == <<"no", "scope">>    \* no scope has two segments

Entry(isEnable, tail) == [isEnable |-> isEnable, tail |-> tail]

\* What users write by hand: for a device, for the controller or for all, the value an
\* integer or a decimal number.
Tails == {<<>>} \cup {<<x>> : x \in Devices \cup {Nvr} \cup Numbers}
             \cup {<<x, n>> : x \in Devices \cup {Nvr, "7"}, n \in Numbers}
             \cup {<<x, "7", n>> : x \in Devices, n \in Numbers}

WrittenEntries ==
    {Entry(TRUE, t) : t \in Tails}
        \cup {Entry(FALSE, t) : t \in {<<>>} \cup {<<x>> : x \in Devices \cup {Nvr}}}

Init ==
    /\ isValue \in BOOLEAN /\ default \in BOOLEAN
    /\ options \in UNION {[1 .. n -> WrittenEntries] : n \in 0 .. MaxWritten}
    /\ ~isValue => \A i \in DOMAIN options :
                       options[i].tail \in {<<>>} \cup {<<x>> : x \in Devices \cup {Nvr}}

Earliest(indices) == CHOOSE i \in indices : \A j \in indices : i <= j

-----------------------------------------------------------------------------
(* The plugin.                                                             *)

\* DECIMAL_VALUE, whose integer part can be no identifier; and what may follow an identifier.
IsDecimal(t) == Len(t) = 2 /\ t[1] \in Numbers /\ t[2] \in Numbers
IsOneValue(t) == Len(t) = 1 \/ IsDecimal(t)

Key(scope, isEnable, value) == [scope |-> scope, enabled |-> isEnable, value |-> value]

\* The entry is taken to name a value, for all or behind an identifier.
NamesValue(e) ==
    isValue /\ e.isEnable /\ e.tail # <<>> /\ (IsOneValue(e.tail) \/ IsOneValue(Tail(e.tail)))

\* Whom that value is for.
ValueScope(t) == IF IsOneValue(t) THEN <<>> ELSE <<t[1]>>

\* buildConfigIndex registers an entry under its tail, and a value under what it is for.
Registers(e, scope) == e.tail = scope \/ (NamesValue(e) /\ ValueScope(e.tail) = scope)

KeyOf(e, scope) ==
    Key(scope, e.isEnable,
        IF e.tail = scope THEN NoValue ELSE IF scope = <<>> THEN e.tail ELSE Tail(e.tail))

Registering(scope) == {i \in DOMAIN options : Registers(options[i], scope)}

\* Deviation: the last entry of a key wins.
LatestOf(scope) == CHOOSE i \in Registering(scope) : \A j \in Registering(scope) : j <= i

\* configLookup: the first entry of a key wins.
Lookup(scope) == Earliest(Registering(scope))

\* resolveScope: the key of the device, else of its controller, else of all.
ResolveScope(device) ==
    LET scope == IF Registering(<<device>>) # {} THEN <<device>>
                 ELSE IF Registering(<<Nvr>>) # {} THEN <<Nvr>> ELSE <<>>
    IN  IF Registering(scope) = {} THEN Key(Nowhere, default, NoValue)
        ELSE KeyOf(options[Lookup(scope)], scope)

\* test, and value: the registered one when nothing sets the option.
Resolved(device) ==
    LET key == ResolveScope(device)
    IN  [key EXCEPT !.value =
            IF ~isValue \/ ~key.enabled THEN NoValue
            ELSE IF key.scope = Nowhere THEN <<DefaultValue>> ELSE key.value]

-----------------------------------------------------------------------------
(* The configuration interface.                                            *)

\* An entry of this very scope, its value an integer.
IsOfScope(e, scope) == e.tail = scope \/ \E n \in Numbers : e.tail = Append(scope, n)

OfScope(opts, scope) == {i \in DOMAIN opts : IsOfScope(opts[i], scope)}

\* getOptionState: of the scope, for a device then of its controller, then of all.
Shown(opts, scope) ==
    LET from == IF OfScope(opts, scope) # {} THEN scope
                ELSE IF scope \in {<<d>> : d \in Devices} /\ OfScope(opts, <<Address>>) # {}
                THEN <<Address>> ELSE <<>>
        e == opts[Earliest(OfScope(opts, from))]
    IN  IF OfScope(opts, from) = {} THEN [enabled |-> default, value |-> NoValue]
        ELSE [enabled |-> e.isEnable,
              value |-> IF e.tail = from THEN NoValue ELSE <<e.tail[Len(e.tail)]>>]

Scopes == {<<>>, <<Address>>} \cup {<<d>> : d \in Devices}

\* The entries that are not of the scope.
Without(scope) ==
    LET kept[n \in 0 .. Len(options)] ==
            IF n = 0 THEN <<>>
            ELSE IF IsOfScope(options[n], scope) THEN kept[n - 1]
            ELSE Append(kept[n - 1], options[n])
    IN  kept[Len(options)]

\* setOption: what was set for the scope is replaced, by nothing if it is inherited.
SetOption(scope, isEnabled, value) ==
    LET differs == value # NoValue /\ value # <<DefaultValue>>
        kept == Without(scope)
    IN  /\ options' = IF Shown(kept, scope).enabled # isEnabled \/ differs
                      THEN Append(kept, Entry(isEnabled,
                               scope \o IF isEnabled /\ differs THEN value ELSE NoValue))
                      ELSE kept
        /\ UNCHANGED <<isValue, default>>

\* removeOption.
RemoveOption(scope) ==
    /\ options' = Without(scope)
    /\ UNCHANGED <<isValue, default>>

\* The switch of an option turns it, and its value enables it.
Next ==
    \E scope \in Scopes :
        \/ SetOption(scope, ~Shown(options, scope).enabled, NoValue)
        \/ isValue /\ \E n \in Numbers : SetOption(scope, TRUE, <<n>>)
        \/ RemoveOption(scope)

Spec == Init /\ [][Next]_vars

-----------------------------------------------------------------------------
(* What the entries mean.                                                  *)

\* "Enable.X.camera" sets a value for all when no earlier entry does: the value "camera".
IsAmbiguous == \E i \in DOMAIN options :
    /\ isValue /\ options[i].isEnable /\ Len(options[i].tail) = 1
    /\ options[i].tail[1] \notin Numbers
    /\ ~\E j \in 1 .. i - 1 : Registers(options[j], <<>>)

\* What a user reads as a value: an integer or a decimal number, or none.
NumberTails == {NoValue} \cup {<<n>> : n \in Numbers} \cup {<<m, n>> : m \in Numbers, n \in Numbers}

\* The entries a user reads as set for a scope; the first one decides.
SetFor(scope) == {i \in DOMAIN options : \E v \in NumberTails : options[i].tail = scope \o v}

\* The scope that decides for a device: itself, then its controller, then all.
DecidingScope(device) ==
    IF SetFor(<<device>>) # {} THEN <<device>>
    ELSE IF SetFor(<<Nvr>>) # {} THEN <<Nvr>> ELSE <<>>

\* Nothing is set for a controller, which the plugin and the interface know by another name,
\* and no decimal number, which the interface does not know.
IsPlain(t) ==
    \/ t = <<>>
    \/ t[1] \notin {Nvr, Address} /\ (Len(t) = 1 \/ (Len(t) = 2 /\ t[1] \notin Numbers))

\* After any edits, and whatever was written by hand before: the first entry of a device
\* decides for it, then of its controller, then of all, with the value that entry names;
\* and what the interface shows for a device is what the plugin makes of it, as long as
\* both know what is set (resolveScope, getOptionState).
OptionsAgree ==
    ~IsAmbiguous => \A d \in Devices :
        LET scope == DecidingScope(d)
            deciding == options[Earliest(SetFor(scope))]
            used == Resolved(d)
            shown == Shown(options, <<d>>)
        IN  /\ SetFor(scope) = {} => used.enabled = default
            /\ SetFor(scope) # {} =>
                   /\ used.enabled = deciding.isEnable
                   /\ isValue /\ used.enabled => deciding.tail = scope \o used.value
            /\ (\A i \in DOMAIN options : IsPlain(options[i].tail)) =>
                   /\ shown.enabled = used.enabled
                   /\ used.enabled /\ used.scope # Nowhere => shown.value = used.value

\* "If you want to override a global feature option you've set, you can override the global
\* feature option for the individual doorbell": setting an option for one device in the
\* interface leaves it as it was for the others.
SettingsAreLocal ==
    [][\A d, other \in Devices :
           d # other /\ options' # options /\ Without(<<d>>)' = Without(<<d>>) =>
               Resolved(other)' = Resolved(other)]_vars

=============================================================================
