------------------------- MODULE OffPeakWindow_proofs -------------------------
(* The comparison of hours and minutes in OffPeakWindow is right for every    *)
(* time of day.                                                               *)
EXTENDS OffPeakWindow, TLAPS

(* The four comparisons of server/main.c amount to one interval of minutes:   *)
(* no hour or minute falls between the conjuncts, and both ends belong to it. *)
THEOREM PeakIsInterval ==
    \A h \in Hours, m \in Minutes :
        IsPeak(h, m) <=> MinuteOfDay(h, m) \in PeakInterval
BY DEF IsPeak, MinuteOfDay, PeakInterval, Hours, Minutes, SYSTEM_END_OFF_PEAK_H,
       SYSTEM_END_OFF_PEAK_M, SYSTEM_START_OFF_PEAK_H, SYSTEM_START_OFF_PEAK_M
================================================================================
