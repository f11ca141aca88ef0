----------------------------- MODULE MCCartelWar -----------------------------
(***************************************************************************)
(* CartelWar on two cartels with one leader each and one player without a  *)
(* cartel.                                                                 *)
(***************************************************************************)
EXTENDS CartelWar

CONSTANTS wolves, hawks, anna, reza, guest

MCCartels  == {wolves, hawks}
MCUsers    == {anna, reza, guest}
MCLeader   == [c \in MCCartels |-> CASE c = wolves -> anna
                                     [] c = hawks -> reza]
MCCartelOf == [u \in MCUsers |-> CASE u = anna -> wolves
                                   [] u = reza -> hawks
                                   [] u = guest -> NULL]
=============================================================================
