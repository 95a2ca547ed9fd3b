---------------------------- MODULE MCOffPeakWindow ----------------------------
(* A clock that shows every minute of the day, for the window to be compared  *)
(* with its documentation.                                                    *)
EXTENDS OffPeakWindow

VARIABLES lHour, lMin

Init == lHour \in Hours /\ lMin = 0

Next ==
    /\ lMin' = (lMin + 1) % 60
    /\ lHour' = IF lMin = 59 THEN (lHour + 1) % 24 ELSE lHour

Spec == Init /\ [][Next]_<<lHour, lMin>>

(* README.md: the batteries are charged from the grid "between 23:30 and      *)
(* 04:30"; whether the two boundary minutes belong to it is left open.        *)
OffPeakAsDocumented ==
    LET now == MinuteOfDay(lHour, lMin)
    IN  /\ now > MinuteOfDay(23, 30) \/ now < MinuteOfDay(4, 30) => ~IsPeak(lHour, lMin)
        /\ MinuteOfDay(4, 30) < now /\ now < MinuteOfDay(23, 30) => IsPeak(lHour, lMin)
================================================================================
