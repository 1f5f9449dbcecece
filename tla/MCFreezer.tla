---------------------------- MODULE MCFreezer ----------------------------
(* Freezer with requests for a helper of which r1 waits for the exec, as   *)
(* lib/kobject_uevent.c does, and any other one for the exit, as           *)
(* security/keys/request_key.c does.                                       *)
EXTENDS Freezer

CONSTANT r1

MCWaits == [r \in Requests |-> IF r = r1 THEN "exec" ELSE "exit"]
===========================================================================
