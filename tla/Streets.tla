--------------------------------- MODULE Streets ---------------------------------
(***************************************************************************)
(* Players against each other: the hits of a group (services/battle.py),   *)
(* the attacks of a private chat (services/pvattack.py), healing, and the  *)
(* snitch, the jail and the bribe (services/snitch.py), with handlers.     *)
(*                                                                         *)
(* A dead player has fallen until the clock "dead" is over and somebody    *)
(* looks (revive_if_due).  mem.jail is the cache of the jail gate, fresh   *)
(* for ten seconds.  Powers, weather and luck decide the damage of a hit   *)
(* and the winner of an attack: here any may come of it.                   *)
(***************************************************************************)
EXTENDS Gear

CONSTANTS
  HitEnergy, PvEnergy,
  Damages, HitXp, DogXp, Steals,     \* percent a hit or an attack may take
  Ability,                 \* of special gear: "poison", "vampire", "reflect", "godshield", "void"
  Leech, Reflect, GodHp,   \* of the damage in percent, of the full HP in percent
  Heals,                   \* Heals[k]: price and amount, NULL for all
  BreakCost, PickCost, Penalty, WinXp, LoseXp, VictimXp, LootShare,
  SnitchLimit, SnitchShare, SnitchBonus, BribeCost

ASSUME StreetsAssumption ==
  /\ {HitEnergy, PvEnergy, HitXp, DogXp, BreakCost, PickCost, Penalty, WinXp, LoseXp, VictimXp,
      SnitchLimit, SnitchShare, SnitchBonus, BribeCost, Leech, Reflect, GodHp} \subseteq Nat
  /\ Damages \subseteq Nat /\ Steals \subseteq 0 .. 100 /\ {LootShare, Penalty} \subseteq 0 .. 100
  /\ \A k \in DOMAIN Heals : Heals[k] \in [cash : Nat, heal : Nat \cup {NULL}]

AbilityOf(k) == IF k \in DOMAIN Ability THEN Ability[k] ELSE "none"
Percent(n, p) == (n * p) \div 100

-----------------------------------------------------------------------------
(* Life and death.                                                         *)

\* revive_if_due
Revived(d, u) ==
  IF d.fallen[u] /\ ~Running(d, u, "dead") THEN FullHeal([d EXCEPT !.fallen[u] = FALSE], u) ELSE d

\* render_heal
HealPage(u) == Revived(db, u) # db /\ Answer(Revived(db, u))

\* heal_buy_cb
Heal(u, k) ==
  LET d    == Revived(db, u)
      room == HpMax(d, u) - d.hp[u]
      gain == IF Heals[k].heal = NULL THEN room ELSE Min({Heals[k].heal, room})
  IN  /\ ~Running(d, u, "dead") /\ gain > 0 /\ d.cash[u] >= Heals[k].cash
      /\ Answer([Pay(d, u, -Heals[k].cash) EXCEPT !.hp[u] = @ + gain])

-----------------------------------------------------------------------------
(* Hits.                                                                   *)

\* The money of a hit or an attack, p percent of what the victim has.
Stolen(d, u, v, p) == Pay(Pay(d, v, -Percent(d.cash[v], p)), u, Percent(d.cash[v], p))

\* The blow and what the victim's armour does about it.
Struck(d, u, v, dmg) ==
  LET armor == AbilityOf(Armor(d, v))
      e     == [d EXCEPT !.hp[v] = Max({0, @ - dmg})]
      f     == IF armor # "reflect" THEN e
               ELSE [e EXCEPT !.hp[u] = @ - Min({Max({0, @ - 1}), Rounded(dmg * Reflect, 100)})]
  IN  IF f.hp[v] = 0 /\ armor = "godshield" /\ ~f.saved[v]
      THEN [f EXCEPT !.hp[v] = Max({1, Rounded(HpMax(d, v) * GodHp, 100)}), !.saved[v] = TRUE]
      ELSE f

\* A blow that hurt: poison, the money, the attacker's blood, experience, death.
Wounded(d, u, v, dmg, p, poisons, weapon) ==
  LET e == Struck(d, u, v, dmg)
      f == Stolen(IF poisons /\ AbilityOf(weapon) = "poison" THEN Start(e, v, "poison") ELSE e, u, v, p)
      g == IF AbilityOf(weapon) # "vampire" THEN f
           ELSE [f EXCEPT !.hp[u] = @ + Max({0, Min({HpMax(f, u) - @, Rounded(dmg * Leech, 100)})})]
      h == DogsFought(AddXp(g, u, HitXp), u, DogXp)
  IN  IF h.hp[v] = 0 THEN Start([h EXCEPT !.fallen[v] = TRUE, !.saved[v] = FALSE], v, "dead") ELSE h

\* attack_cmd and execute_hit
Hit(u, v, dmg, p, poisons, draw) ==
  LET d == Revived(Revived(Regen(db, u), u), v)
      e == Start(Shot([d EXCEPT !.energy[u] = @ - HitEnergy], u), u, "hit")
  IN  /\ u # v /\ ~db.hidden[v]
      /\ IF \/ Running(d, u, "dead") \/ Running(d, v, "dead") \/ ~Loaded(d, u)
            \/ Running(d, u, "hit") \/ d.energy[u] < HitEnergy
         THEN d # db /\ Answer(d)
         ELSE IF dmg = 0 THEN Answer(e)
         ELSE Answer(Track(Wounded(e, u, v, dmg, p, poisons, Weapon(d, u, TRUE)), u, "attack", 1, draw))

-----------------------------------------------------------------------------
(* Attacks from a private chat.                                            *)

\* target_next_cb and target_spy_cb
Reroll(u) ==
  /\ db.cash[u] >= PickCost
  /\ \E v \in Users \ {u} : ~Running(db, v, "shield") /\ ~db.hidden[v]
  /\ Answer(Pay(Regen(db, u), u, -PickCost))
Spy(u) == db.cash[u] >= PickCost /\ Answer(Pay(db, u, -PickCost))

Loot(d, u, v, r) ==
  LET have == d.res[<<v, r>>]
      took == Min({Max({1, Percent(have, LootShare)}), ResRoom(d, u, r)})
  IN  IF have > 0 THEN [d EXCEPT !.res[<<v, r>>] = @ - took, !.res[<<u, r>>] = @ + took] ELSE d

\* execute, its refusals over
Fought(d, u, v, won, p) ==
  LET e == Start(Shot(Start([d EXCEPT !.energy[u] = @ - PvEnergy], u, "pv"), u), v, "shield")
      f == IF won THEN Loot(Loot(Stolen(e, u, v, p), u, v, "wood"), u, v, "iron")
           ELSE Stolen(e, v, u, Penalty)
  IN  AddXp(AddXp(f, u, IF won THEN WinXp ELSE LoseXp), v, VictimXp)

\* _run_attack: a player's own shield falls, and one that is broken is paid,
\* before the attack is refused.
PvAttack(u, v, breaks, drops, won, p, draw) ==
  LET d    == Regen(db, u)
      mine == Stop(d, u, "shield")
      open == IF Running(mine, v, "shield") THEN Stop(Pay(mine, u, -BreakCost), v, "shield") ELSE mine
  IN  /\ ~Running(db, u, "pv") /\ ~db.hidden[v]
      /\ Running(d, u, "shield") => drops
      /\ IF Running(mine, v, "shield") /\ (~breaks \/ d.cash[u] < BreakCost)
         THEN mine # db /\ Answer(mine)
         ELSE IF u = v \/ ~Loaded(open, u) \/ open.energy[u] < PvEnergy
         THEN open # db /\ Answer(open)
         ELSE Answer(Track(Fought(open, u, v, won, p), u, "attack", 1, draw))

-----------------------------------------------------------------------------
(* Snitching and the jail.                                                 *)

Seized(d, v) ==
  [d EXCEPT !.good = [x \in DOMAIN @ |-> IF x[1] = v /\ @[x].value > 0 THEN NoGood ELSE @[x]]]
SeizedWorth(d, v) == SumFunctionOnSet([c \in Crops |-> d.good[<<v, c>>].value], Crops)

\* The title of the one who snitches too often.
Counted(d, u) ==
  LET n == (IF Running(d, u, "window") THEN d.snitched[u] ELSE 0) + 1
      e == Start(Start(d, u, "snitch"), u, "window")
  IN  IF n >= SnitchLimit THEN Start([e EXCEPT !.snitched[u] = 0], u, "khaye")
      ELSE [e EXCEPT !.snitched[u] = n]

\* Mistake: the cache learns of it by itself.
NotedLater(v) == mem

\* _jail_note
Noted(v) == [mem EXCEPT !.jail = @ \cup {v}]

\* snitch_cmd: an empty store costs the week's count all the same.
Snitch(u, v) ==
  LET d == Counted(db, u)
      n == SeizedWorth(d, v)
      e == Start(Pay(Seized(d, v), u, Rounded(n * SnitchShare, 100) + SnitchBonus), v, "jail")
  IN  /\ u # v /\ ~Running(db, u, "snitch")
      /\ IF n = 0 THEN Answer(d) ELSE AnswerWith(e, Noted(v))

\* bribe_confirm_cb
Bribe(u) ==
  /\ Running(db, u, "jail") /\ db.cash[u] >= BribeCost
  /\ AnswerWith(Stop(Pay(db, u, -BribeCost), u, "jail"), [mem EXCEPT !.jail = @ \ {u}])

\* jail_left_tg: a cache that is not fresh is read again by the next update.
GateReload ==
  /\ op = Idle /\ ~mem.fresh
  /\ mem' = [jail |-> {u \in Users : Running(db, u, "jail")}, fresh |-> TRUE]
  /\ UNCHANGED <<db, op, job, racing, raced, due>>

\* jail_gate lets an update of u through.
Passes(u) == mem.fresh /\ ~(u \in mem.jail /\ Running(db, u, "jail"))

\* Ten seconds pass.
CacheOld ==
  /\ mem.fresh /\ mem' = [mem EXCEPT !.fresh = FALSE]
  /\ UNCHANGED <<db, op, job, racing, raced, due>>
=============================================================================
