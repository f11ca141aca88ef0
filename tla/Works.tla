---------------------------------- MODULE Works ----------------------------------
(***************************************************************************)
(* Wood and iron: the mine (handlers/mine.py), the tools, the two          *)
(* factories (services/company.py) and the resource shop.                  *)
(*                                                                         *)
(* db.res[<<u, r>>] is what a player has, db.tool[<<u, t>>] the level of a *)
(* tool, db.fac[<<u, f>>] a factory: its level and its stock.              *)
(* db.shift[u] is how many ticks passed since company_at, NULL before the  *)
(* first; what no longer fits a factory's store is lost when it is settled.*)
(***************************************************************************)
EXTENDS Accounts

CONSTANTS
  Loots,                   \* what a trip may find: [cash, wood, iron, xp]
  ToolMax, ToolCost,       \* ToolCost[l]: cash and iron for level l + 1
  ToolGain,                \* amount_per_level, in percent
  FacMax, FacCost, FacMinLevel, FacRate, FillTicks,
  Slow,                    \* KHAYE_COMPANY_SLOW in percent
  ResPrice, ResUnit        \* what a unit may sell for, what the shop asks

Tools     == {"axe", "pick"}
Factories == {"lumber", "ironmill"}
Makes     == [lumber |-> "wood", ironmill |-> "iron"]
ToolFor   == [wood |-> "axe", iron |-> "pick"]

ASSUME WorksAssumption ==
  /\ Loots \subseteq [cash : Nat, wood : Nat, iron : Nat, xp : Nat]
  /\ {ToolGain, FacMinLevel, FacRate, FillTicks} \subseteq Nat /\ Slow \in 0 .. 100
  /\ ToolMax \in Nat \ {0} /\ ToolCost \in [1 .. ToolMax - 1 -> [cash : Nat, iron : Nat]]
  /\ FacMax \in Nat \ {0, 1} /\ FacCost \in [1 .. FacMax -> [cash : Nat, wood : Nat]]
  /\ ResPrice \in [Res -> SUBSET (Nat \ {0})] /\ ResUnit \in [Res -> Nat \ {0}]

Costs(d, u, cash, r, n) == d.cash[u] >= cash /\ d.res[<<u, r>>] >= n
Charged(d, u, cash, r, n) == [d EXCEPT !.cash[u] = @ - cash, !.res[<<u, r>>] = @ - n]

-----------------------------------------------------------------------------
(* The mine.                                                               *)

\* A better tool finds more.
Found(d, u, r, n) == Gained(d, u, r, (n * (100 + ToolGain * (d.tool[<<u, ToolFor[r]>>] - 1))) \div 100)

\* _do_roll
MineTrip(u, loot, draw) ==
  LET d == Found(Found(Pay(db, u, loot.cash), u, "wood", loot.wood), u, "iron", loot.iron)
      e == FirstTime(AddXp(Start(d, u, "mine"), u, loot.xp), u, "mine")
  IN  ~Running(db, u, "mine") /\ Answer(Track(e, u, "mine", 1, draw))

\* mine_upg_execute
UpgradeTool(u, t) ==
  LET l == db.tool[<<u, t>>]
      c == ToolCost[l]
  IN  /\ l < ToolMax /\ Costs(db, u, c.cash, "iron", c.iron)
      /\ Answer([Charged(db, u, c.cash, "iron", c.iron) EXCEPT !.tool[<<u, t>>] = l + 1])

-----------------------------------------------------------------------------
(* The factories.                                                          *)

Made(d, u, f) ==
  LET l    == d.fac[<<u, f>>].level
      n    == (FacRate * l * d.shift[u] * (IF Running(d, u, "khaye") THEN 100 - Slow ELSE 100)) \div 100
  IN  Min({n, Max({0, FacRate * l * FillTicks - d.fac[<<u, f>>].stock})})

\* settle: the first look starts the clock.
Settled(d, u) ==
  IF d.shift[u] = NULL THEN [d EXCEPT !.shift[u] = 0]
  ELSE LET filled(x) == [d.fac[x] EXCEPT !.stock = @ + Made(d, u, x[2])]
       IN  [d EXCEPT !.shift[u] = 0, !.fac = [x \in DOMAIN @ |-> IF x[1] = u THEN filled(x) ELSE @[x]]]

\* render_company, and what the other pages of the company settle first
CompanyPage(u) == Settled(db, u) # db /\ Answer(Settled(db, u))

\* collect: what has no room stays in the factory.
Collect(u, f) ==
  LET d     == Settled(db, u)
      moved == Min({d.fac[<<u, f>>].stock, ResRoom(d, u, Makes[f])})
  IN  /\ d.fac[<<u, f>>].level > 0 /\ d.level[u] >= FacMinLevel /\ moved > 0
      /\ Answer([Gained(d, u, Makes[f], moved) EXCEPT !.fac[<<u, f>>].stock = @ - moved])

\* build
Build(u, f) ==
  LET d == Settled(db, u)
      c == FacCost[1]
  IN  /\ d.fac[<<u, f>>].level = 0 /\ d.level[u] >= FacMinLevel /\ Costs(d, u, c.cash, "wood", c.wood)
      /\ Answer([Charged(d, u, c.cash, "wood", c.wood) EXCEPT !.fac[<<u, f>>].level = 1])

\* upgrade: of a factory that is gone too, whatever the player's level.
UpgradeFactory(u, f) ==
  LET d == Settled(db, u)
      l == d.fac[<<u, f>>].level
      c == FacCost[Max({l + 1, 2})]
  IN  /\ l > 0 => d.level[u] >= FacMinLevel
      /\ l < FacMax /\ Costs(d, u, c.cash, "wood", c.wood)
      /\ Answer([Charged(d, u, c.cash, "wood", c.wood) EXCEPT !.fac[<<u, f>>].level = l + 1])

\* A tick of the factories passes; FillTicks of them fill a store.
TickOver(u) ==
  /\ db.shift[u] # NULL /\ db.shift[u] < FillTicks
  /\ db' = [db EXCEPT !.shift[u] = @ + 1]
  /\ UNCHANGED <<mem, op, job, racing, raced, due>>

-----------------------------------------------------------------------------
(* The resource shop.                                                      *)

\* sellres_execute, at what the market pays now
SellRes(u, r, n, price, draw) ==
  /\ n > 0 /\ db.res[<<u, r>>] >= n /\ price \in ResPrice[r]
  /\ Answer(Track(Charged(db, u, -(n * price), r, n), u, "sellres", n, draw))

\* purchase_resource, from its card: never more than there is room for.
BuyRes(u, r, n) ==
  /\ n > 0 /\ n <= ResRoom(db, u, r) /\ db.cash[u] >= n * ResUnit[r]
  /\ Answer(Gained(Pay(db, u, -(n * ResUnit[r])), u, r, n))

\* buy_confirm and the selling page ask for an amount; capture takes it.
AskRes(u, ask, r)  == ask \in {"resbuy", "ressell"} /\ Answer(SetPending(db, u, ask, r))
ResAmount(u, n) ==
  /\ \/ db.pend[u].ask = "resbuy"
     \/ db.pend[u].ask = "ressell" /\ \E r \in Res : n <= db.res[<<u, r>>]
  /\ Answer(NoPending(db, u))
=============================================================================
