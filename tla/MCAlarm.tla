------------------------------ MODULE MCAlarm ------------------------------
(* Values for the constants of Alarm.                                      *)
EXTENDS Alarm

(* The two alarms that wake the system: one follows the wall clock, the    *)
(* other does not.                                                         *)
WakeupTypes == Wakeup
MCJumps == {-1, 1}
=============================================================================
