---------------------------- MODULE MCFaultMonitor ----------------------------
(* The instance of FaultMonitor: a primary and a secondary sensor, with    *)
(* small buffers of samples.                                               *)
EXTENDS FaultMonitor
===============================================================================
