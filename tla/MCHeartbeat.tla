------------------------------ MODULE MCHeartbeat ------------------------------
(* The instances of Heartbeat: one sensor.                                 *)
EXTENDS Heartbeat
===============================================================================
