---------------------------- MODULE MCDevicePM ----------------------------
(* DevicePM on a controller, a child of it, a child of that child, and a   *)
(* device without a parent.                                                *)
EXTENDS DevicePM

CONSTANTS host, card, disk, other

MCParent == [d \in Devices |-> CASE d = card -> {host}
                                 [] d = disk -> {card}
                                 [] OTHER -> {}]
NotCompleting == Unlocked \ {"completing"}
============================================================================
