-------------------------- MODULE MCInverterControl --------------------------
(* Instances of InverterControl for TLC. *)
EXTENDS InverterControl

(* The minutes on either side of each boundary. *)
BoundaryTimes == {<<5, 29>>, <<5, 30>>, <<23, 30>>, <<23, 31>>}
PeakTimes     == {<<12, 0>>}

(* Every mode and end hour the code writes, a mode and amps that it does not. *)
AnyPanelValues ==
    [CFG_MODE |-> {0, 1, 2}, MAX_UTIL_AMPS |-> {10, 40}, UTIL_END_HOUR |-> {0, 4}]

(* The inverter as the server leaves it in PEAK after 20 A were typed. *)
SettledPanelValues ==
    [CFG_MODE |-> {0}, MAX_UTIL_AMPS |-> {20}, UTIL_END_HOUR |-> {4}]
==============================================================================
