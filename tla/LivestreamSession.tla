-------------------------- MODULE LivestreamSession --------------------------
(***************************************************************************)
(* What the consumers of a livestream rely on (the class comment of        *)
(* unifi/protect-api-livestream.ts): there is one session at a time, and   *)
(* every one that was begun emits close exactly once when it ends, for     *)
(* whatever reason it does.                                                *)
(***************************************************************************)
EXTENDS Naturals

CONSTANT Sessions

VARIABLES
    active,     \* the sessions that deliver segments, or will
    closes      \* how many close events were emitted

vars == <<active, closes>>

Init ==
    /\ active = {}
    /\ closes = 0

Begin(s) ==
    /\ active = {}
    /\ active' = {s}
    /\ UNCHANGED closes

End(s) ==
    /\ s \in active
    /\ active' = active \ {s}
    /\ closes' = closes + 1

Next == \E s \in Sessions : Begin(s) \/ End(s)

Spec == Init /\ [][Next]_vars

=============================================================================
