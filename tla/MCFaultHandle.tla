----------------------------- MODULE MCFaultHandle -----------------------------
(* The command channel for TLC: both kinds of command.                     *)
EXTENDS FaultHandle

MCKind == {"GETDATA", "WAKEUP"}
MCLeftover == BOOLEAN
Initialized == {"INIT"}
================================================================================
