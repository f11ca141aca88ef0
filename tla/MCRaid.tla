-------------------------------- MODULE MCRaid --------------------------------
(***************************************************************************)
(* Raid with two players, of whom only the better one is on the list, and  *)
(* fights that one or two hits end.                                        *)
(***************************************************************************)
EXTENDS Raid

CONSTANTS ali, sara

MCShare == <<5>>
=============================================================================
