-------------------------------- MODULE MCSync --------------------------------
(* The instance of Sync: lists of two samples, archives of four and five   *)
(* digits; one with six is too long for a message.                         *)
EXTENDS Sync

Fresh == {-1, 1}
===============================================================================
