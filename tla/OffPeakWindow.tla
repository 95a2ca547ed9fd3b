---------------------------- MODULE OffPeakWindow ----------------------------
(***************************************************************************)
(* The time-of-day test by which the controller tells peak from off-peak   *)
(* (server/main.c, "Peak/off-peak switching"), with the boundaries of      *)
(* common/system_defs.h.                                                   *)
(***************************************************************************)
EXTENDS Integers

SYSTEM_START_OFF_PEAK_H == 23
SYSTEM_START_OFF_PEAK_M == 30
SYSTEM_END_OFF_PEAK_H   == 5
SYSTEM_END_OFF_PEAK_M   == 30

Hours   == 0..23
Minutes == 0..59

(* The condition of the if, conjunct by conjunct.  Both ends are included: *)
(* the whole of minute 23:30 still counts as peak.                         *)
IsPeak(lHour, lMin) ==
    /\ \/ lHour > SYSTEM_END_OFF_PEAK_H
       \/ lHour = SYSTEM_END_OFF_PEAK_H /\ lMin >= SYSTEM_END_OFF_PEAK_M
    /\ \/ lHour < SYSTEM_START_OFF_PEAK_H
       \/ lHour = SYSTEM_START_OFF_PEAK_H /\ lMin <= SYSTEM_START_OFF_PEAK_M

(* The reference: minutes of the day as one number, peak an interval of it. *)
MinuteOfDay(h, m) == 60 * h + m

PeakInterval ==
    MinuteOfDay(SYSTEM_END_OFF_PEAK_H, SYSTEM_END_OFF_PEAK_M) ..
    MinuteOfDay(SYSTEM_START_OFF_PEAK_H, SYSTEM_START_OFF_PEAK_M)
==============================================================================
