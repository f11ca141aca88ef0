---------------------------------- MODULE Farm ----------------------------------
(***************************************************************************)
(* The farm: services/farming.py with handlers/farm.py, the seed shop, and *)
(* of services/world.py the search, the shelter and the police wave.       *)
(*                                                                         *)
(* db.plot[<<u, n>>] is u's n-th plot, NULL before it is bought: its state *)
(* (current_status: a plot being built, empty, growing or ready), crop and *)
(* level.  Plots are bought in order and deleted together.                 *)
(* db.good[<<u, c>>] is the row of u's products of crop c.                 *)
(* The weather and the market move how long a crop grows and what it is    *)
(* worth; here a crop takes some time and is worth one of Worths.          *)
(***************************************************************************)
EXTENDS Works

CONSTANTS
  Crops, Legendary, CropPrice, CropMinLevel, CropXp, Worths, LegendCap,
  Quantities,              \* HARVEST_QTY_CHANCES
  ProductCap,              \* PRODUCT_CAP_PER_LEVEL
  MaxPlots, PlotCost,      \* PlotCost[n]: cash or gems, the level it needs, seconds to build
  SpeedUps,                \* gems a finished building may still cost
  PlotMax, PlotUp,         \* PlotUp[l]: cash, wood and the player's level
  HomeMax, HomeCost, HomeMinLevel,
  Thefts,                  \* percent of the cash a thief may take
  Finds,                   \* money a search may find
  Raided                   \* percent of the seeds the police may destroy

\* What a day may ask of a player, and what it pays.
Quests == [left : Nat, pays : [type : {"tp", "xp", "seed"}, amount : Nat, crop : Crops]]

ASSUME FarmAssumption ==
  /\ Legendary \subseteq Crops /\ CropPrice \in [Crops -> Nat] /\ CropXp \in [Crops -> Nat]
  /\ SpeedUps \subseteq Nat \ {0} /\ Quantities \subseteq Nat \ {0} /\ Worths \subseteq Nat /\ LegendCap \in Nat
  /\ {ProductCap, MaxPlots, HomeMax} \subseteq Nat /\ HomeCost \in [1 .. HomeMax -> Nat]
  /\ \A r \in Res : 0 .. HomeMax \subseteq DOMAIN ResCap[r]
  /\ PlotCost \in [1 .. MaxPlots -> [cash : Nat, gems : Nat, level : Nat, slow : BOOLEAN]]
  /\ PlotMax \in Nat \ {0} /\ PlotUp \in [1 .. PlotMax - 1 -> [cash : Nat, wood : Nat, level : Nat]]
  /\ Finds \subseteq Nat /\ Thefts \subseteq 0 .. 100 /\ Raided \subseteq 0 .. 100
  /\ IsFiniteSet(Crops) /\ \A day \in QuestDraws : DOMAIN day \subseteq QuestKinds /\ day \in [DOMAIN day -> Quests]

NoGood    == [qty |-> 0, value |-> 0]
Plots(u)  == {n \in 1 .. MaxPlots : db.plot[<<u, n>>] # NULL}
NewPlot(s) == [state |-> s, crop |-> NULL, level |-> 1]

\* add_product: what the store has no room for is lost, its worth with it.
ProductRoom(d, u, c) == Max({0, ProductCap * Max({1, d.home[u]}) - d.good[<<u, c>>].qty})
AddProduct(d, u, c, n, value) ==
  LET added == Min({n, ProductRoom(d, u, c)})
  IN  IF added = 0 THEN d
      ELSE [d EXCEPT !.good[<<u, c>>] = [qty |-> @.qty + added, value |-> @.value + (value * added) \div n]]

-----------------------------------------------------------------------------
(* Plots.                                                                  *)

\* buy_plot
BuyPlot(u) ==
  LET n == Cardinality(Plots(u)) + 1
      c == PlotCost[n]
      d == [db EXCEPT !.cash[u] = @ - c.cash, !.gems[u] = @ - c.gems,
                      !.plot[<<u, n>>] = NewPlot(IF c.slow THEN "building" ELSE "empty")]
  IN  /\ n <= MaxPlots /\ db.level[u] >= c.level /\ db.gems[u] >= c.gems /\ db.cash[u] >= c.cash
      /\ Answer(FirstTime(d, u, "plot"))

\* speedup_plot: gems off the time that is left, all of it or a part.
SpeedUp(u, n, gems, all) ==
  /\ n \in Plots(u) /\ db.plot[<<u, n>>].state = "building" /\ gems \in SpeedUps /\ db.gems[u] >= gems
  /\ Answer([db EXCEPT !.gems[u] = @ - gems, !.plot[<<u, n>>].state = IF all THEN "empty" ELSE @])

\* plant_execute
Plant(u, n, c, draw) ==
  LET d == [db EXCEPT !.seed[<<u, c>>] = @ - 1,
                      !.plot[<<u, n>>] = [@ EXCEPT !.state = "growing", !.crop = c]]
  IN  /\ n \in Plots(u) /\ db.plot[<<u, n>>].state = "empty" /\ db.seed[<<u, c>>] > 0
      /\ Answer(FirstTime(Track(d, u, "plant", 1, draw), u, "plant"))

\* upgrade_plot
UpgradePlot(u, n) ==
  /\ n \in Plots(u) /\ db.plot[<<u, n>>].level < PlotMax
  /\ LET c == PlotUp[db.plot[<<u, n>>].level]
     IN  /\ db.level[u] >= c.level /\ Costs(db, u, c.cash, "wood", c.wood)
         /\ Answer([Charged(db, u, c.cash, "wood", c.wood) EXCEPT !.plot[<<u, n>>].level = @ + 1])

\* A building is finished, a crop is ripe.
PlotTime(u, n) ==
  /\ db.plot[<<u, n>>] # NULL /\ db.plot[<<u, n>>].state \in {"building", "growing"}
  /\ db' = [db EXCEPT !.plot[<<u, n>>].state = IF @ = "building" THEN "empty" ELSE "ready"]
  /\ UNCHANGED <<mem, op, job, racing, raced, due>>

-----------------------------------------------------------------------------
(* The harvest.                                                            *)

Qty(c, q)        == IF c \in Legendary THEN 1 ELSE q
Worth(c, q, w)   == IF c \in Legendary THEN Min({w, LegendCap}) ELSE w * q
Ready(u)         == {n \in Plots(u) : db.plot[<<u, n>>].state = "ready"}

\* One ripe plot: a crop that finds no room at all stays on it.
Reap(d, u, n, q, w) ==
  LET c == d.plot[<<u, n>>].crop
      e == AddProduct(d, u, c, Qty(c, q), Worth(c, Qty(c, q), w))
  IN  IF ProductRoom(d, u, c) = 0 THEN d
      ELSE [e EXCEPT !.plot[<<u, n>>] = [@ EXCEPT !.state = "empty", !.crop = NULL]]

\* The ripe plots in their order.
Reaped(d, u, q, w) ==
  LET upto[n \in 0 .. MaxPlots] ==
        IF n = 0 THEN d ELSE IF n \in Ready(u) THEN Reap(upto[n - 1], u, n, q[n], w) ELSE upto[n - 1]
  IN  upto[MaxPlots]

\* harvest_all, in the order of the plots: the cooldown starts and the first
\* harvest is rewarded whatever was found room for.
Harvest(u, q, w, draw) ==
  LET reaped == Reaped(db, u, q, w)
      done   == {n \in Ready(u) : reaped.plot[<<u, n>>].state = "empty"}
      xp     == SumFunctionOnSet([n \in done |-> CropXp[db.plot[<<u, n>>].crop]], done)
      d      == AddXp(Start(reaped, u, "harvest"), u, xp)
  IN  /\ ~Running(db, u, "harvest") /\ Ready(u) # {}
      /\ Answer(FirstTime(Track(d, u, "harvest", Cardinality(done), draw), u, "harvest"))

-----------------------------------------------------------------------------
(* Seeds, the search, the shelter.                                         *)

\* buyseed_execute and the seed branch of purchase
BuySeed(u, c, n) ==
  /\ c \notin Legendary /\ db.level[u] >= CropMinLevel[c]
  /\ n > 0 /\ n <= SeedRoom(db, u, c) /\ db.cash[u] >= n * CropPrice[c]
  /\ Answer([db EXCEPT !.cash[u] = @ - n * CropPrice[c], !.seed[<<u, c>>] = @ + n])

\* buy_confirm asks for an amount, capture takes any.
AskSeed(u, c)  == c \notin Legendary /\ Answer(SetPending(db, u, "seedbuy", c))
SeedAmount(u)  == db.pend[u].ask = "seedbuy" /\ Answer(NoPending(db, u))

\* search_cmd and do_search: money, a thief or a seed its finder may have
Search(u, draw) ==
  LET d       == Start(Regen(db, u), u, "search")
      done(e) == Answer(Track(e, u, "search", 1, draw))
  IN  /\ ~Running(db, u, "search")
      /\ \/ \E n \in Finds : done(Pay(d, u, n))
         \/ \E p \in Thefts : done([d EXCEPT !.cash[u] = @ - (@ * p) \div 100])
         \/ \E c \in Crops : db.level[u] >= CropMinLevel[c] /\ done(Seeded(d, u, c, 1))

\* upgrade_shelter
UpgradeHome(u) ==
  LET h == db.home[u] + 1
  IN  /\ h <= HomeMax /\ db.level[u] >= HomeMinLevel[h] /\ db.cash[u] >= HomeCost[h]
      /\ Answer([db EXCEPT !.cash[u] = @ - HomeCost[h], !.home[u] = h])

\* police_job: the seeds of those it finds, as absolute counts.
PoliceWave(found) ==
  /\ found # {} /\ \A u \in found : \E c \in Crops : db.seed[<<u, c>>] > 0
  /\ \E p \in Raided :
       Run([db EXCEPT !.seed = [x \in DOMAIN @ |->
              IF x[1] \in found THEN @[x] - (@[x] * p + 50) \div 100 ELSE @[x]]])
=============================================================================
