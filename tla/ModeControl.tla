----------------------------- MODULE ModeControl -----------------------------
(***************************************************************************)
(* What the controller promises about its operating state, with neither    *)
(* registers, nor threads' program points, nor failures: the state follows *)
(* the clock into and out of OFF_PEAK, and otherwise changes only to serve *)
(* a request that somebody made and that has not been served yet.          *)
(* InverterControl implements it.                                          *)
(***************************************************************************)
VARIABLES
    state,      \* PEAK, BYPASS, OFF_PEAK or BOOST
    offPeak,    \* what the clock said when it was last looked at
    pending     \* the requests made and not served

vars == <<state, offPeak, pending>>

Requests == {"Grid", "Batts", "Boost"}

StateFor == [Grid |-> "BYPASS", Batts |-> "PEAK", Boost |-> "BOOST"]

Init == state = "PEAK" /\ offPeak \in BOOLEAN /\ pending = {}

LookAtClock == offPeak' \in BOOLEAN /\ UNCHANGED <<state, pending>>

Ask(k)      == pending' = pending \cup {k} /\ UNCHANGED <<state, offPeak>>

Withdraw(k) == pending' = pending \ {k} /\ UNCHANGED <<state, offPeak>>

(* Serving is the only step that both consumes a request and changes state; *)
(* none is served during off-peak.                                          *)
Serve(k) ==
    /\ state # "OFF_PEAK"
    /\ k \in pending
    /\ pending' = pending \ {k}
    /\ state' = StateFor[k]
    /\ UNCHANGED offPeak

(* Temporary states end when off-peak begins; off-peak ends in PEAK only.   *)
EnterOffPeak ==
    /\ offPeak /\ state # "OFF_PEAK"
    /\ state' = "OFF_PEAK" /\ UNCHANGED <<offPeak, pending>>

LeaveOffPeak ==
    /\ ~offPeak /\ state = "OFF_PEAK"
    /\ state' = "PEAK" /\ UNCHANGED <<offPeak, pending>>

Next ==
    \/ LookAtClock \/ EnterOffPeak \/ LeaveOffPeak
    \/ \E k \in Requests : Ask(k) \/ Withdraw(k) \/ Serve(k)

Spec == Init /\ [][Next]_vars
==============================================================================
