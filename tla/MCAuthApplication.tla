-------------------------- MODULE MCAuthApplication --------------------------
(* The instance of AuthApplication: three users, named like an id, like a  *)
(* preset key or otherwise.                                                *)
EXTENDS AuthApplication

CONSTANTS u1, u2, u3, user1, user2, alice, bob, carol

MCUid == {u1, u2, u3}
MCPreset == [k \in {user1, user2} |-> IF k = user1 THEN "NORMAL" ELSE "ELEVATED"]
MCName == {u1, u2, user1, alice, bob, carol}
===============================================================================
