------------------------------ MODULE WarPhases ------------------------------
(***************************************************************************)
(* What the cartel-war lifecycle promises, with no handlers, jobs, clocks  *)
(* or database: every war moves once through the phases                    *)
(*                                                                         *)
(*     absent -> requested -> answered -> running -> over                  *)
(*                                                                         *)
(* (a request that is rejected or expires stays in "answered" for ever),   *)
(* a war is credited to the total_wars of exactly its two cartels at the   *)
(* one step that ends it, and that step names at most one winner.          *)
(***************************************************************************)
EXTENDS Integers

CONSTANTS Cartels,   \* the cartels
          Wars       \* the ids of war requests

VARIABLES phase,     \* phase[w]: where war w stands
          total,     \* total[c]: wars fought to the end by cartel c
          wins       \* wins[c]: wars won by cartel c

vars == <<phase, total, wins>>

Phases == {"absent", "requested", "answered", "running", "over"}

Init == /\ phase = [w \in Wars |-> "absent"]
        /\ total = [c \in Cartels |-> 0]
        /\ wins  = [c \in Cartels |-> 0]

Move(w, from, to) == /\ phase[w] = from
                     /\ phase' = [phase EXCEPT ![w] = to]

Request(w) == Move(w, "absent", "requested") /\ UNCHANGED <<total, wins>>
Answer(w)  == Move(w, "requested", "answered") /\ UNCHANGED <<total, wins>>
Run(w)     == Move(w, "answered", "running") /\ UNCHANGED <<total, wins>>

Finish(w, a, d) ==
  /\ Move(w, "running", "over")
  /\ a # d
  /\ total' = [c \in Cartels |-> total[c] + IF c \in {a, d} THEN 1 ELSE 0]
  /\ \E winners \in {{}, {a}, {d}} :
       wins' = [c \in Cartels |-> wins[c] + IF c \in winners THEN 1 ELSE 0]

Next == \E w \in Wars :
          \/ Request(w) \/ Answer(w) \/ Run(w)
          \/ \E a, d \in Cartels : Finish(w, a, d)

Spec == Init /\ [][Next]_vars

=============================================================================
