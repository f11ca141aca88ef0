------------------------------- MODULE MCMines -------------------------------
(***************************************************************************)
(* Mines with a tracked and an untracked player and two safe tiles, which  *)
(* pay half the stake and twice the stake.                                 *)
(***************************************************************************)
EXTENDS Mines

CONSTANTS ali, sara

MCPay == <<1, 4>>
=============================================================================
