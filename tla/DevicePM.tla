------------------------------ MODULE DevicePM ------------------------------
(***************************************************************************)
(* The suspend and the resume of the devices (drivers/base/power/main.c)   *)
(* and its caller suspend_devices_and_enter (kernel/power/main.c).         *)
(*                                                                         *)
(* The list dpm_list is walked four times, while devices come and go: the  *)
(* devices dealt with are moved to a list of the walk, which takes the     *)
(* place of dpm_list at its end.  dpm_list_mtx is released during the      *)
(* callbacks of a device; a section that holds it is one action, or a      *)
(* chain of actions at places of Locked, where nobody else can get it.     *)
(***************************************************************************)
EXTENDS Integers, Sequences, SequencesExt

CONSTANTS
    Devices,
    Parent,       \* dev->parent, {} or a set of one device
    RegisterAt,   \* the places of the suspending thread, see Unlocked, at
                  \* which another thread registers devices
    Careful       \* that thread heeds the rules device_pm_add warns about

ASSUME ParentAssumption ==
    /\ Parent \in [Devices -> SUBSET Devices]
    /\ \A d \in Devices : Parent[d] = {} \/ \E p \in Devices : Parent[d] = {p}
ASSUME CarefulAssumption == Careful \in BOOLEAN

(* enum dpm_state *)
DPM_ON == 1
DPM_PREPARING == 2
DPM_RESUMING == 3
DPM_SUSPENDING == 4
DPM_OFF == 5
DPM_OFF_IRQ == 6

VARIABLES
    dpm_list,            \* the list of devices, without those in list
    list,                \* the local list of the walk
    status,              \* dev->power.status
    transition_started,
    pc,                  \* where the suspending thread is
    dev,                 \* the device whose callback is being called: {} or {d}
    error,               \* result of dpm_prepare and dpm_suspend
    off,                 \* devices suspend() has stopped, until resume()
    prepared             \* devices between prepare() and complete()

vars == <<dpm_list, list, status, transition_started, pc, dev, error, off, prepared>>

Locked == {"prepare", "suspend", "asleep", "resume", "complete"}
Unlocked == {"idle", "preparing", "prepared", "suspending", "suspended",
             "resuming", "resumed", "completing"}

ASSUME RegisterAtAssumption == RegisterAt \subseteq Unlocked

Registered == ToSet(dpm_list) \cup ToSet(list)
Children(d) == {c \in Registered : Parent[c] = {d}}
-----------------------------------------------------------------------------
Init ==
    /\ dpm_list = <<>>
    /\ list = <<>>
    /\ status = [d \in Devices |-> DPM_ON]
    /\ transition_started = FALSE
    /\ pc = "idle"
    /\ dev = {}
    /\ error = "none"
    /\ off = {}
    /\ prepared = {}

(* The parent exists.  What the code only warns about a careful thread     *)
(* does not do.                                                            *)
MayRegister(d) ==
    /\ Parent[d] \subseteq Registered
    /\ Careful => IF Parent[d] = {} THEN ~transition_started
                  ELSE \A p \in Parent[d] : status[p] < DPM_SUSPENDING

device_pm_add(d) ==
    /\ pc \in RegisterAt
    /\ d \notin Registered \cup dev
    /\ MayRegister(d)
    /\ dpm_list' = Append(dpm_list, d)
    /\ status' = [status EXCEPT ![d] = DPM_ON]
    /\ UNCHANGED <<list, transition_started, pc, dev, error, off, prepared>>

(* list_del_init: s without d, which is in it once or not at all.          *)
Without(s, d) ==
    IF d \in ToSet(s) THEN RemoveAt(s, CHOOSE i \in DOMAIN s : s[i] = d) ELSE s

(* A device is deleted after its children, at any time, even while its own *)
(* callback runs.  What it was in the middle of is nobody's concern then.  *)
device_pm_remove(d) ==
    /\ pc \in Unlocked
    /\ d \in Registered
    /\ Children(d) = {}
    /\ dpm_list' = Without(dpm_list, d)
    /\ list' = Without(list, d)
    /\ off' = off \ {d}
    /\ prepared' = prepared \ {d}
    /\ UNCHANGED <<status, transition_started, pc, dev, error>>

(* Mutants: the device is not looked for, or is copied to the other list.  *)
MoveToHeadAlways(d) == dpm_list' = Without(dpm_list, d) /\ list' = <<d>> \o list
CopyToTail(d) == dpm_list' = dpm_list /\ list' = Append(list, d)

(* list_move and list_move_tail, unless the device was removed meanwhile.  *)
MoveToHead(d) ==
    IF d \in ToSet(dpm_list)
    THEN dpm_list' = Without(dpm_list, d) /\ list' = <<d>> \o list
    ELSE UNCHANGED <<dpm_list, list>>

MoveToTail(d) ==
    IF d \in ToSet(dpm_list)
    THEN dpm_list' = Without(dpm_list, d) /\ list' = Append(list, d)
    ELSE UNCHANGED <<dpm_list, list>>

SpliceHead == dpm_list' = list \o dpm_list /\ list' = <<>>
SpliceTail == dpm_list' = dpm_list \o list /\ list' = <<>>

Sets(d, st) == status' = [status EXCEPT ![d] = st]
-----------------------------------------------------------------------------
(* dpm_prepare                                                             *)

PrepareStart ==
    /\ pc = "idle"
    /\ transition_started' = TRUE
    /\ error' = "none"
    /\ pc' = "prepare"
    /\ UNCHANGED <<dpm_list, list, status, dev, off, prepared>>

PrepareNext ==
    /\ pc = "prepare" /\ dpm_list # <<>>
    /\ dev' = {Head(dpm_list)}
    /\ Sets(Head(dpm_list), DPM_PREPARING)
    /\ pc' = "preparing"
    /\ UNCHANGED <<dpm_list, list, transition_started, error, off, prepared>>

Alive(d) == IF d \in Registered THEN {d} ELSE {}

PrepareSucceeds(d) ==
    /\ pc = "preparing" /\ dev = {d}
    /\ Sets(d, DPM_SUSPENDING)
    /\ MoveToTail(d)
    /\ prepared' = prepared \cup Alive(d)
    /\ dev' = {} /\ error' = "none"
    /\ pc' = "prepare"
    /\ UNCHANGED <<transition_started, off>>

(* -EAGAIN: the device is tried again, if it is still there.               *)
PrepareAgain(d) ==
    /\ pc = "preparing" /\ dev = {d}
    /\ Sets(d, DPM_ON)
    /\ dev' = {} /\ error' = "again"
    /\ pc' = "prepare"
    /\ UNCHANGED <<dpm_list, list, transition_started, off, prepared>>

PrepareFails(d) ==
    /\ pc = "preparing" /\ dev = {d}
    /\ Sets(d, DPM_ON)
    /\ SpliceHead
    /\ dev' = {} /\ error' = "failed"
    /\ pc' = "prepared"
    /\ UNCHANGED <<transition_started, off, prepared>>

PrepareEnd ==
    /\ pc = "prepare" /\ dpm_list = <<>>
    /\ SpliceHead
    /\ pc' = "prepared"
    /\ UNCHANGED <<status, transition_started, dev, error, off, prepared>>

dpm_prepare ==
    \/ PrepareStart \/ PrepareNext \/ PrepareEnd
    \/ \E d \in dev : PrepareSucceeds(d) \/ PrepareAgain(d) \/ PrepareFails(d)
-----------------------------------------------------------------------------
(* dpm_suspend                                                             *)

SuspendStart ==
    /\ pc = "prepared" /\ error = "none"
    /\ pc' = "suspend"
    /\ UNCHANGED <<dpm_list, list, status, transition_started, dev, error, off, prepared>>

(* Mutant: the list is walked from its head.                               *)
SuspendFirst ==
    /\ pc = "suspend" /\ dpm_list # <<>>
    /\ dev' = {Head(dpm_list)}
    /\ pc' = "suspending"
    /\ UNCHANGED <<dpm_list, list, status, transition_started, error, off, prepared>>

SuspendNext ==
    /\ pc = "suspend" /\ dpm_list # <<>>
    /\ dev' = {Last(dpm_list)}
    /\ pc' = "suspending"
    /\ UNCHANGED <<dpm_list, list, status, transition_started, error, off, prepared>>

SuspendSucceeds(d) ==
    /\ pc = "suspending" /\ dev = {d}
    /\ Sets(d, DPM_OFF)
    /\ MoveToHead(d)
    /\ off' = off \cup Alive(d)
    /\ dev' = {}
    /\ pc' = "suspend"
    /\ UNCHANGED <<transition_started, error, prepared>>

(* Mutant: the devices suspended so far are put in front of the others.    *)
SuspendFailsHead(d) ==
    /\ pc = "suspending" /\ dev = {d}
    /\ SpliceHead
    /\ dev' = {} /\ error' = "failed"
    /\ pc' = "suspended"
    /\ UNCHANGED <<status, transition_started, off, prepared>>

SuspendFails(d) ==
    /\ pc = "suspending" /\ dev = {d}
    /\ SpliceTail
    /\ dev' = {} /\ error' = "failed"
    /\ pc' = "suspended"
    /\ UNCHANGED <<status, transition_started, off, prepared>>

SuspendEnd ==
    /\ pc = "suspend" /\ dpm_list = <<>>
    /\ SpliceTail
    /\ pc' = "suspended"
    /\ UNCHANGED <<status, transition_started, dev, error, off, prepared>>

dpm_suspend ==
    \/ SuspendStart \/ SuspendNext \/ SuspendEnd
    \/ \E d \in dev : SuspendSucceeds(d) \/ SuspendFails(d)
-----------------------------------------------------------------------------
(* suspend_enter, with the interrupts off: device_power_down gets the last *)
(* n devices down; if that is all of them the system sleeps, otherwise     *)
(* dpm_power_up takes it back at once.                                     *)
device_power_down(n) ==
    /\ pc = "suspended" /\ error = "none"
    /\ LET down == {dpm_list[i] : i \in (Len(dpm_list) - n + 1)..Len(dpm_list)}
       IN  IF n = Len(dpm_list)
           THEN /\ status' = [d \in Devices |-> IF d \in down THEN DPM_OFF_IRQ ELSE status[d]]
                /\ pc' = "asleep" /\ UNCHANGED error
           ELSE /\ status' = [d \in Devices |-> IF d \in down THEN DPM_OFF ELSE status[d]]
                /\ pc' = "suspended" /\ error' = "failed"
    /\ UNCHANGED <<dpm_list, list, transition_started, dev, off, prepared>>

device_power_up ==
    /\ pc = "asleep"
    /\ status' = [d \in Devices |->
                     IF d \in Registered /\ status[d] > DPM_OFF THEN DPM_OFF ELSE status[d]]
    /\ pc' = "suspended" /\ error' = "woken"
    /\ UNCHANGED <<dpm_list, list, transition_started, dev, off, prepared>>
-----------------------------------------------------------------------------
(* dpm_resume, after a wake-up, a failure or an error of the platform      *)

ResumeStart ==
    /\ pc \in {"suspended", "prepared"}
    /\ pc = "prepared" => error # "none"
    /\ transition_started' = FALSE
    /\ pc' = "resume"
    /\ UNCHANGED <<dpm_list, list, status, dev, error, off, prepared>>

(* Mutant: a device that was only prepared is resumed too.                 *)
ResumeNextPrepared ==
    /\ pc = "resume" /\ dpm_list # <<>>
    /\ status[Head(dpm_list)] >= DPM_SUSPENDING
    /\ Sets(Head(dpm_list), DPM_RESUMING)
    /\ dev' = {Head(dpm_list)}
    /\ pc' = "resuming"
    /\ UNCHANGED <<dpm_list, list, transition_started, error, off, prepared>>

ResumeNext ==
    /\ pc = "resume" /\ dpm_list # <<>>
    /\ status[Head(dpm_list)] >= DPM_OFF
    /\ Sets(Head(dpm_list), DPM_RESUMING)
    /\ dev' = {Head(dpm_list)}
    /\ pc' = "resuming"
    /\ UNCHANGED <<dpm_list, list, transition_started, error, off, prepared>>

(* A device that was prepared only, or not at all.                         *)
ResumeSkip ==
    /\ pc = "resume" /\ dpm_list # <<>>
    /\ status[Head(dpm_list)] < DPM_OFF
    /\ IF status[Head(dpm_list)] = DPM_SUSPENDING
       THEN Sets(Head(dpm_list), DPM_RESUMING)
       ELSE UNCHANGED status
    /\ MoveToTail(Head(dpm_list))
    /\ UNCHANGED <<transition_started, pc, dev, error, off, prepared>>

(* An error of resume() is only printed.                                   *)
Resumed(d) ==
    /\ pc = "resuming" /\ dev = {d}
    /\ MoveToTail(d)
    /\ off' = off \ {d}
    /\ dev' = {}
    /\ pc' = "resume"
    /\ UNCHANGED <<status, transition_started, error, prepared>>

ResumeEnd ==
    /\ pc = "resume" /\ dpm_list = <<>>
    /\ SpliceHead
    /\ pc' = "resumed"
    /\ UNCHANGED <<status, transition_started, dev, error, off, prepared>>

dpm_resume ==
    \/ ResumeStart \/ ResumeNext \/ ResumeSkip \/ ResumeEnd
    \/ \E d \in dev : Resumed(d)
-----------------------------------------------------------------------------
(* dpm_complete                                                            *)

CompleteStart ==
    /\ pc = "resumed"
    /\ pc' = "complete"
    /\ UNCHANGED <<dpm_list, list, status, transition_started, dev, error, off, prepared>>

(* Mutant: the status stays DPM_RESUMING.                                  *)
CompleteKeepsStatus ==
    /\ pc = "complete" /\ dpm_list # <<>>
    /\ status[Last(dpm_list)] > DPM_ON
    /\ dev' = {Last(dpm_list)}
    /\ pc' = "completing"
    /\ UNCHANGED <<dpm_list, list, status, transition_started, error, off, prepared>>

CompleteNext ==
    /\ pc = "complete" /\ dpm_list # <<>>
    /\ status[Last(dpm_list)] > DPM_ON
    /\ Sets(Last(dpm_list), DPM_ON)
    /\ dev' = {Last(dpm_list)}
    /\ pc' = "completing"
    /\ UNCHANGED <<dpm_list, list, transition_started, error, off, prepared>>

CompleteSkip ==
    /\ pc = "complete" /\ dpm_list # <<>>
    /\ status[Last(dpm_list)] = DPM_ON
    /\ MoveToHead(Last(dpm_list))
    /\ UNCHANGED <<status, transition_started, pc, dev, error, off, prepared>>

Completed(d) ==
    /\ pc = "completing" /\ dev = {d}
    /\ MoveToHead(d)
    /\ prepared' = prepared \ {d}
    /\ dev' = {}
    /\ pc' = "complete"
    /\ UNCHANGED <<status, transition_started, error, off>>

CompleteEnd ==
    /\ pc = "complete" /\ dpm_list = <<>>
    /\ SpliceHead
    /\ pc' = "idle"
    /\ UNCHANGED <<status, transition_started, dev, error, off, prepared>>

dpm_complete ==
    \/ CompleteStart \/ CompleteNext \/ CompleteSkip \/ CompleteEnd
    \/ \E d \in dev : Completed(d)
-----------------------------------------------------------------------------
Next ==
    \/ \E d \in Devices : device_pm_add(d) \/ device_pm_remove(d)
    \/ dpm_prepare
    \/ dpm_suspend
    \/ \E n \in 0..Len(dpm_list) : device_power_down(n)
    \/ device_power_up
    \/ dpm_resume
    \/ dpm_complete

Spec == Init /\ [][Next]_vars
-----------------------------------------------------------------------------
(* Every variable has its type, no device is on the lists twice, and the   *)
(* two sets of devices are of registered ones.                             *)
TypeOK ==
    /\ dpm_list \in Seq(Devices)
    /\ list \in Seq(Devices)
    /\ IsInjective(dpm_list \o list)
    /\ status \in [Devices -> DPM_ON..DPM_OFF_IRQ]
    /\ transition_started \in BOOLEAN
    /\ pc \in Locked \cup Unlocked
    /\ dev \in SUBSET Devices
    /\ error \in {"none", "again", "failed", "woken"}
    /\ off \in SUBSET Registered
    /\ prepared \in SUBSET Registered

(* The list the walk leaves behind, in the middle of it.                   *)
WholeList == IF pc \in {"prepare", "preparing", "resume", "resuming"}
             THEN list \o dpm_list ELSE dpm_list \o list

(* main.c:31 "The entries in the dpm_list list are in a depth first order, *)
(* simply because children are guaranteed to be discovered after parents,  *)
(* and are inserted at the back of the list on discovery."                 *)
DepthFirst ==
    \A i, j \in DOMAIN WholeList : Parent[WholeList[j]] = {WholeList[i]} => i < j

(* A device is told to suspend after all its children, and to resume after *)
(* its parent, whatever is registered, removed or fails on the way.        *)
BottomUp ==
    [][\A d \in Devices : d \notin dev /\ d \in dev' =>
          /\ pc' = "suspending" => Children(d) \subseteq off
          /\ pc' = "resuming" => Parent[d] \cap off = {}]_vars

(* devices.txt "The suspend and resume operations always go together":     *)
(* only prepared devices are suspended, only suspended ones resumed.       *)
CallsPaired ==
    /\ pc = "suspending" => \A d \in dev \cap Registered : d \in prepared \ off
    /\ pc = "resuming" => \A d \in dev \cap Registered : d \in off

(* While the system sleeps every device does.                              *)
AllOff == pc = "asleep" => Registered = off

(* After a suspend, completed or not, every device is as it was before.    *)
NothingLeftOff ==
    pc = "idle" => /\ off = {} /\ prepared = {}
                   /\ \A d \in Registered : status[d] = DPM_ON
=============================================================================
