------------------------------- MODULE MCHome -------------------------------
(***************************************************************************)
(* Values of the constants of Home for TLC, and what a driver says of the  *)
(* removal of its devices and the library does not keep.                   *)
(***************************************************************************)
EXTENDS Home

CONSTANTS lamp, u1, attic, porch, loop, driver

(***************************************************************************)
(* "Delete device and all associated infos": AgoMySensors::deleteDevice,   *)
(* which calls removeDevice.  A device that is listed is one of its        *)
(* process, or its removal is on the way (no message is lost, and no       *)
(* process dies, if MaxFaults = 0).                                        *)
(***************************************************************************)
RemovedStaysGone == \A u \in DOMAIN inventory : u \in DOMAIN deviceMap \cup Removals(inbox)
=============================================================================
