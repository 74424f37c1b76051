---------------------------- MODULE MCEventRing ----------------------------
(* Small instances of EventRing for TLC: see MCEventRing.cfg (safety and   *)
(* refinement) and MCEventRingLive.cfg (liveness).                         *)
EXTENDS EventRing
=============================================================================
