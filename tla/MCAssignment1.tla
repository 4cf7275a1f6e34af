---------------------------- MODULE MCAssignment1 ----------------------------
(* The instance of Assignment1: one sensor.                                *)
EXTENDS Assignment1
===============================================================================
