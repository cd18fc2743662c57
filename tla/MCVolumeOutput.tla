--------------------------- MODULE MCVolumeOutput ---------------------------
(* VolumeOutput for TLC: two endpoints, full scale and two levels below.   *)
EXTENDS VolumeOutput

(* Restored or not, in silence, with the mixer, and with every incident.   *)
MCLaunches == {<<TRUE, {}>>, <<TRUE, {"mixer"}>>, <<FALSE, Incidents \ {"failure"}>>,
               <<TRUE, Incidents>>}
=============================================================================
