------------------------------- MODULE MCMarket -------------------------------
(***************************************************************************)
(* Market with two players who hold one piece of each kind of goods and    *)
(* some cash; whoever still has his wood has no room for more.             *)
(***************************************************************************)
EXTENDS Market

CONSTANTS ali, sara

MCUsers  == {ali, sara}
MCItems  == {"part", "wood"}
MCPurse0 == [u \in MCUsers |-> [c \in {"cash"} \cup MCItems |-> 1]]
=============================================================================
