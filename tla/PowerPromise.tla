---------------------------- MODULE PowerPromise ----------------------------
(***************************************************************************)
(* What the Android power manager promises to user space and to the owners *)
(* of wake locks, with no mention of lists, timers, work items or mutexes: *)
(*   - the drivers registered with early suspend go off and on as a whole, *)
(*     one change at a time, and a change starts only when it is asked for;*)
(*   - the system sleeps only while they are off, nobody has asked for     *)
(*     wakeup since, and no suspend lock is active;                        *)
(*   - what is asked for, and not taken back, is done.                     *)
(* PowerManager implements this module.                                    *)
(***************************************************************************)
CONSTANT Owners  \* those who take suspend locks of their own

VARIABLES
    wanted,  \* "sleep" or "on": what /sys/power/state was last asked for
    screen,  \* "on", "going_off", "off" or "going_on"
    locked,  \* the owners whose locks are active
    asleep   \* the system sleeps

vars == <<wanted, screen, locked, asleep>>

Init ==
    /\ wanted = "on"
    /\ screen = "on"
    /\ locked = {}
    /\ asleep = FALSE

(* User space asks; it does not run while the system sleeps.               *)
Ask ==
    /\ ~asleep
    /\ wanted' \in {"on", "sleep"}
    /\ UNCHANGED <<screen, locked, asleep>>

GoOff ==
    /\ screen = "on"
    /\ wanted = "sleep"
    /\ screen' = "going_off"
    /\ UNCHANGED <<wanted, locked, asleep>>

GoOn ==
    /\ screen = "off"
    /\ wanted = "on"
    /\ ~asleep
    /\ screen' = "going_on"
    /\ UNCHANGED <<wanted, locked, asleep>>

Arrive ==
    /\ \/ screen = "going_off" /\ screen' = "off"
       \/ screen = "going_on" /\ screen' = "on"
    /\ UNCHANGED <<wanted, locked, asleep>>

Lock ==
    /\ ~asleep
    /\ locked' \in SUBSET Owners
    /\ UNCHANGED <<wanted, screen, asleep>>

Sleep ==
    /\ ~asleep
    /\ wanted = "sleep"
    /\ screen = "off"
    /\ locked' = {}
    /\ asleep' = TRUE
    /\ UNCHANGED <<wanted, screen>>

WakeUp ==
    /\ asleep
    /\ asleep' = FALSE
    /\ UNCHANGED <<wanted, screen, locked>>

Next == Ask \/ GoOff \/ GoOn \/ Arrive \/ Lock \/ Sleep \/ WakeUp

Fairness == WF_vars(GoOff) /\ WF_vars(GoOn) /\ WF_vars(Arrive)

Spec == Init /\ [][Next]_vars /\ Fairness
=============================================================================
