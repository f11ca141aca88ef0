-------------------------------- MODULE Fight --------------------------------
(***************************************************************************)
(* What a group fight promises, be it against a caravan or a boss: it      *)
(* opens once, loses health while it is open, and ends once.  It counts as *)
(* killed only without health and has fled only with some; a fight may     *)
(* also be lost (a restart), and an end is final.                          *)
(***************************************************************************)
EXTENDS Integers

CONSTANTS Fights   \* the fights there may be

VARIABLES phase,   \* phase[f]: where fight f stands
          health   \* health[f]: the health that is left, 0 before it opens

vars == <<phase, health>>

Init == /\ phase = [f \in Fights |-> "absent"]
        /\ health = [f \in Fights |-> 0]

Stays(f) == phase'[f] = phase[f] /\ health'[f] = health[f]

Opens(f) == /\ phase[f] = "absent" /\ phase'[f] = "open"
            /\ health'[f] > 0

IsHit(f) == /\ phase[f] = "open" /\ phase'[f] = "open"
            /\ health[f] > 0 /\ health'[f] < health[f]

Ends(f) == /\ phase[f] = "open" /\ health'[f] = health[f]
           /\ \/ phase'[f] = "killed" /\ health[f] <= 0
              \/ phase'[f] = "fled" /\ health[f] > 0
              \/ phase'[f] = "lost"

Next == \A f \in Fights : Stays(f) \/ Opens(f) \/ IsHit(f) \/ Ends(f)

Spec == Init /\ [][Next]_vars
=============================================================================
