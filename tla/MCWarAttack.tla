---------------------------- MODULE MCWarAttack ----------------------------
(***************************************************************************)
(* WarAttack with one attacker, and one defender whose cartel is so large  *)
(* that the attacker's side gets the 15% help.                             *)
(***************************************************************************)
EXTENDS WarAttack

CONSTANTS anna, reza

MCUsers   == {anna, reza}
MCMember0 == [u \in MCUsers |-> IF u = anna THEN "att" ELSE "def"]
MCJoined0 == [u \in MCUsers |-> IF u = anna THEN -MinMembership ELSE NULL]
MCBench   == [s \in Side |-> IF s = "att" THEN 0 ELSE 5]
=============================================================================
