--------------------------------- MODULE MCTown ---------------------------------
(***************************************************************************)
(* Town with two players.  A behaviour is about one theme, which bounds    *)
(* who acts and which handlers and jobs are used; it begins with accounts  *)
(* that have what the theme needs, which the handlers of Town can reach.   *)
(* Money, gems and experience that a theme could pile up are bounded by    *)
(* Poor.                                                                   *)
(***************************************************************************)
EXTENDS Town

CONSTANTS ali, sara, wheat, saffron, knife, gun, vest, cloak, ring, rex, bo, Themes, MaxCash

VARIABLE theme

MCXpNeed    == <<1, 2>>
MCHp        == <<2, 3, 3>>
MCPoints    == (2 :> 1) @@ (3 :> 2)
MCDrink     == [tea |-> [price |-> 1, energy |-> 1, boost |-> FALSE],
                red |-> [price |-> 2, energy |-> NULL, boost |-> TRUE]]
MCBankCap   == <<2, 3>>
MCBankPrice == <<1>>
MCOnes      == <<1, 1>>
Quest(n, type) == [left |-> n, pays |-> [type |-> type, amount |-> 1, crop |-> wheat]]
MCQuests    == {("mine" :> Quest(2, "xp")) @@ ("drink" :> Quest(1, "seed")), "attack" :> Quest(1, "tp")}
MCResCap    == [r \in {"wood", "iron"} |-> (0 :> 2) @@ (1 :> 3)]
MCBonus     == [k \in {"mine", "plant", "harvest", "shipment", "plot"} |-> IF k = "mine" THEN 1 ELSE 0]
MCLoots     == {[cash |-> 1, wood |-> 0, iron |-> 0, xp |-> 0], [cash |-> 0, wood |-> 1, iron |-> 1, xp |-> 1]}
MCToolCost  == <<[cash |-> 1, iron |-> 1]>>
MCFacCost   == <<[cash |-> 1, wood |-> 1], [cash |-> 0, wood |-> 1]>>
MCResPrice  == [wood |-> {1}, iron |-> {1, 2}]
MCResUnit   == [wood |-> 1, iron |-> 2]
MCCropPrice == (wheat :> 1) @@ (saffron :> 9)
MCCropOne   == (wheat :> 1) @@ (saffron :> 2)
MCPlotCost  == <<[cash |-> 1, gems |-> 0, level |-> 1, slow |-> FALSE],
                 [cash |-> 0, gems |-> 1, level |-> 1, slow |-> TRUE]>>
MCPlotUp    == <<[cash |-> 1, wood |-> 1, level |-> 1]>>
MCOne       == <<1>>
Thing(iron, parts, level) == [cash |-> 1, iron |-> iron, parts |-> parts, level |-> level]
MCGoods     == (knife :> Thing(0, 0, 1)) @@ (gun :> Thing(1, 0, 1)) @@ (vest :> Thing(0, 0, 2)) @@ (cloak :> Thing(0, 0, 3)) @@ (ring :> Thing(0, 1, 1))
MCStrength  == (knife :> 1) @@ (gun :> 3) @@ (vest :> 1) @@ (cloak :> 2)
MCGearUp    == <<[cash |-> 1, iron |-> 1, level |-> 1]>>
MCDogGoods  == (rex :> [level |-> 1, cash |-> 1]) @@ (bo :> [level |-> 2, cash |-> 1])
MCFoods     == [bone |-> [xp |-> 1, cash |-> 1]]
MCAbility   == (knife :> "poison") @@ (gun :> "vampire") @@ (vest :> "reflect") @@ (cloak :> "godshield")
MCHeals     == [small |-> [cash |-> 1, heal |-> 1], full |-> [cash |-> 2, heal |-> NULL]]
MCSkill     == [s \in {"stamina", "luck"} |-> 0]

-----------------------------------------------------------------------------
(* The accounts a theme begins with.                                       *)

Has(k)     == [level |-> 1, ammo |-> IF k \in Guns THEN Full(1) ELSE NULL]
Grain(n)   == [qty |-> n, value |-> n + 1]
Asked      == [d \in MCQuests |-> [k \in DOMAIN d |-> [d[k] EXCEPT !.left = 0]]]
Done       == [NewTown EXCEPT !.quest = [u \in Users |-> Asked[CHOOSE d \in MCQuests : TRUE]]]
Second     == [Done EXCEPT !.level[ali] = 2, !.points[ali] = 1, !.hp[ali] = HpTable[2]]
Armed      == [Done EXCEPT !.item[<<ali, knife>>] = Has(knife), !.item[<<sara, gun>>] = Has(gun),
                           !.item[<<sara, vest>>] = Has(vest), !.item[<<ali, cloak>>] = Has(cloak)]

First(x) ==
  CASE x = "energy"  -> Second
    [] x = "quests"  -> NewTown
    [] x = "bank"    -> Done
    [] x = "roads"   -> [Done EXCEPT !.good[<<ali, wheat>>] = Grain(3), !.cash[ali] = 1]
    [] x = "caravan" -> [Done EXCEPT !.good[<<ali, wheat>>] = Grain(3), !.good[<<sara, wheat>>] = Grain(1),
                                     !.clock[<<ali, "khaye">>] = TRUE]
    [] x = "asks"    -> [Done EXCEPT !.good[<<ali, wheat>>] = Grain(2)]
    [] x = "farm"    -> [Done EXCEPT !.gems[ali] = 2, !.seed[<<ali, saffron>>] = 1]
    [] x = "home"    -> Second
    [] x = "works"   -> Second
    [] x = "gear"    -> [Second EXCEPT !.parts[ali] = 1, !.res[<<ali, "iron">>] = 2]
    [] x = "dogs"    -> Second
    [] x = "hits"    -> Armed
    [] x = "attacks" -> [Armed EXCEPT !.res[<<sara, "wood">>] = 1, !.res[<<ali, "iron">>] = 2]
    [] x = "jail"    -> [Done EXCEPT !.good[<<sara, wheat>>] = Grain(1)]
    [] x = "channel" -> [Second EXCEPT !.bank[ali] = 1, !.seed[<<ali, wheat>>] = 1, !.res[<<ali, "wood">>] = 1,
                                    !.plot[<<ali, 1>>] = NewPlot("empty"), !.first[ali] = {"plot"}]
    [] x = "admin"   -> [Done EXCEPT !.plot[<<ali, 1>>] = NewPlot("empty")]

MCInit ==
  /\ theme \in Themes
  /\ db = First(theme)
  /\ mem = [jail |-> {}, fresh |-> TRUE]
  /\ op = Idle /\ job = Idle /\ raced = FALSE
  /\ racing \in (IF theme \in {"energy", "roads", "jail", "channel"} THEN {TRUE} ELSE {FALSE})
  /\ due = First(theme).energy

-----------------------------------------------------------------------------
(* What happens in a theme.                                                *)

Poor(u)      == db.cash[u] < MaxCash
Unwiped(u)   == db.life[u] = 0   \* an account is cleared once: a bound
Pass(us, ks) == \E u \in us, k \in ks : Elapse(u, k)

Energies ==
  \/ due[ali] < 5 /\ Pulse
  \/ \E loot \in Loots, draw \in QuestDraws : loot.xp > 0 /\ MineTrip(ali, loot, draw)
  \/ \E draw \in QuestDraws : BuyDrink(ali, "tea", draw)
  \/ \E draw \in QuestDraws : Hit(ali, sara, 0, 0, FALSE, draw)
  \/ SkillUp(ali, "stamina") \/ SkillReset(ali) \/ Page(ali)
  \/ Pass({ali}, {"hit"})

Questing ==
  \/ QuestPage(ali) \/ DayOver(ali)
  \/ db.level[ali] < 3 /\ \E loot \in Loots, draw \in QuestDraws : loot.xp > 0 /\ MineTrip(ali, loot, draw)
  \/ \E draw \in QuestDraws : BuyDrink(ali, "red", draw)
  \/ \E s \in Skills : SkillUp(ali, s)
  \/ SkillReset(ali) \/ Page(ali)
  \/ Unwiped(ali) /\ ClearAccount(ali)
  \/ Pass({ali}, {"mine", "boost"})

Banking ==
  \/ \E n \in 1 .. 2 :
       \/ DepositText(sara, n) \/ WithdrawText(sara, n) \/ DepositText(ali, n)
       \/ BankAmount(ali, n) \/ Transfer(ali, sara, n) \/ TransferAmount(ali, n)
  \/ \E ask \in {"bankdep", "bankwd", "trf_to"} : BankAsk(ali, ask)
  \/ \E half \in BOOLEAN : BankQuick(ali, half)
  \/ TransferTo(ali, sara) \/ BankUpgrade(ali) \/ BankUpgrade(sara)
  \/ Unwiped(sara) /\ ClearAccount(sara)
  \/ PendingSweep
  \/ Pass({ali}, {"trf", "pending"})

Shipping ==
  \/ \E fate \in {"clean", "delayed"}, draw \in QuestDraws : SendShipment(ali, wheat, 1, fate, 0, draw)
  \/ Unwiped(ali) /\ (TakeTp(ali, 1) \/ ClearAccount(ali))

Trading ==
  \/ \E b \in Bonuses, c \in {wheat, saffron} : SmugglerJob(c, b) \/ AdminCaravan(c, b)
  \/ \E u \in Users, n \in 1 .. 2 : SellToCaravan(u, n)
  \/ \E n \in 1 .. 2, seize \in Seizes, draw \in QuestDraws : SendShipment(ali, wheat, n, "police", seize, draw)
  \/ CaravanTime \/ Pass({ali}, {"khaye"})

Asking ==
  \/ AskSeed(ali, wheat) \/ SeedAmount(ali)
  \/ AskRes(ali, "resbuy", "wood") \/ AskRes(ali, "ressell", "iron") \/ ResAmount(ali, 1)
  \/ AskShip(ali, wheat) \/ AskCaravan(ali)
  \/ \E n \in 1 .. 2 : ShipQty(ali, n) \/ CaravanQty(ali, n) \/ SellToCaravan(ali, n)
  \/ HoldDog(ali, rex) \/ NameDog(ali) \/ BuyRes(ali, "wood", 1)
  \/ BankAsk(ali, "bankdep") \/ BankAmount(ali, 1) \/ PendingSweep
  \/ Pass({ali}, {"pending"}) \/ CaravanTime
  \/ SmugglerJob(wheat, 50)

Farming ==
  \/ BuyPlot(ali) \/ BuySeed(ali, wheat, 1)
  \/ \E n \in 1 .. MaxPlots :
       \/ PlotTime(ali, n)
       \/ \E g \in SpeedUps, all \in BOOLEAN : SpeedUp(ali, n, g, all)
       \/ \E c \in Crops, draw \in QuestDraws : Plant(ali, n, c, draw)
  \/ \E q \in Quantities, w \in Worths, draw \in QuestDraws : Harvest(ali, [n \in 1 .. MaxPlots |-> q], w, draw)
  \/ Pass({ali}, {"harvest"})

Searching ==
  \/ UpgradeHome(ali) \/ UpgradePlot(ali, 1) \/ BuyPlot(ali) \/ UpgradeTool(ali, "pick")
  \/ db.cash[ali] < 3 /\ \E draw \in QuestDraws : Search(ali, draw)
  \/ BuySeed(ali, wheat, 1) \/ PoliceWave({ali})
  \/ BuyRes(ali, "iron", 1) \/ BuyRes(ali, "wood", 1)
  \/ Pass({ali}, {"search"})

Working ==
  \/ CompanyPage(ali) \/ TickOver(ali)
  \/ Collect(ali, "lumber") \/ Build(ali, "lumber") \/ UpgradeFactory(ali, "lumber")
  \/ \E loot \in Loots, draw \in QuestDraws : Poor(ali) /\ loot.xp > 0 /\ MineTrip(ali, loot, draw)
  \/ Poor(ali) /\ \E price \in ResPrice["iron"], draw \in QuestDraws : SellRes(ali, "iron", 1, price, draw)
  \/ Pass({ali}, {"mine"})

Arming ==
  \/ \E k \in DOMAIN Goods : Buy(ali, k) \/ UpgradeGear(ali, k) \/ Wear(ali, k) \/ Reload(ali, k)
  \/ TakeOff(ali)
  \/ Poor(ali) /\ AddTp(ali, 1)
  \/ ~Running(db, ali, "hit") /\ \E draw \in QuestDraws : Hit(ali, sara, 0, 0, FALSE, draw)
  \/ Pass({ali}, {"hit"})

Keeping ==
  \/ \E k \in Dogs :
       \/ HoldDog(ali, k) \/ BuyDog(ali, k) \/ Release(ali, k)
       \/ \E food \in DOMAIN Foods, draw \in QuestDraws : Feed(ali, k, food, draw)
  \/ NameDog(ali) \/ FeedDay
  \/ Unwiped(ali) /\ ClearAccount(ali)
  \/ Poor(ali) /\ AddTp(ali, 1)

Hitting ==
  \/ \E dmg \in Damages, p \in Steals, draw \in QuestDraws :
       \/ db.level[ali] < 3 /\ Hit(ali, sara, dmg, p, TRUE, draw)
       \/ db.level[sara] = 1 /\ Hit(sara, ali, dmg, p, TRUE, draw)
  \/ HealPage(sara) \/ HealPage(ali) \/ \E k \in DOMAIN Heals : Heal(sara, k)
  \/ Pass({ali}, {"hit", "dead"}) \/ Pass({sara}, {"dead"})
  \/ db.level[sara] > 1 /\ Unwiped(sara) /\ ClearAccount(sara)

Attacking ==
  \/ \E x \in {<<ali, sara>>, <<sara, ali>>}, breaks, drops, won \in BOOLEAN, p \in Steals, draw \in QuestDraws :
       PvAttack(x[1], x[2], breaks, drops, won, p, draw)
  \/ Reroll(ali) \/ Spy(ali)
  \/ Pass(Users, {"shield", "pv"})

Jailing ==
  \/ Passes(ali) /\ Poor(ali) /\ Snitch(ali, sara)
  \/ Passes(sara) /\ Snitch(sara, ali)
  \/ Bribe(sara) \/ Bribe(ali)
  \/ \E u \in Users : db.good[<<u, wheat>>].qty = 0 /\ AddCrop(u, wheat, 1, 1)
  \/ CacheOld
  \/ Pass(Users, {"jail"}) \/ Pass({ali}, {"snitch", "khaye", "window"})
  \/ Crash(NoMemory)

Leaving ==
  \/ \E inside \in BOOLEAN : (~inside => Unwiped(ali)) /\ ChannelCheck(ali, inside)
  \/ WipeJob \/ PoliceWave({ali})
  \/ Unwiped(ali) /\ ClearAccount(ali)
  \/ SkillUp(ali, "luck") \/ WithdrawText(ali, 1) \/ UpgradePlot(ali, 1)
  \/ Pass({ali}, {"away"})

Administering ==
  \/ Poor(ali) /\ AddTp(ali, 2)
  \/ db.gems[ali] < 2 /\ AddGem(ali, 1)
  \/ TakeTp(ali, 2) \/ TakeXp(ali, 1)
  \/ db.xp[ali] < 3 /\ GiveXp(ali, 2)
  \/ AddCrop(ali, wheat, 2, 1) \/ HideBoard(sara) \/ UpdateCmd
  \/ SkillReset(ali) \/ \E s \in Skills : SkillUp(ali, s)
  \/ Unwiped(ali) /\ ClearAccount(ali)

Play ==
  \/ theme = "energy" /\ Energies
  \/ theme = "quests" /\ Questing
  \/ theme = "bank" /\ Banking
  \/ theme = "roads" /\ Shipping
  \/ theme = "caravan" /\ Trading
  \/ theme = "asks" /\ Asking
  \/ theme = "farm" /\ Farming
  \/ theme = "home" /\ Searching
  \/ theme = "works" /\ Working
  \/ theme = "gear" /\ Arming
  \/ theme = "dogs" /\ Keeping
  \/ theme = "hits" /\ Hitting
  \/ theme = "attacks" /\ Attacking
  \/ theme = "channel" /\ Leaving
  \/ theme = "admin" /\ Administering

\* Only the jail theme lets the gate's cache grow old; a restart empties it.
MCNext ==
  /\ theme' = theme
  /\ \/ mem.fresh /\ Play
     \/ theme = "jail" /\ Jailing
     \/ ShipmentJob \/ \E i \in Ships : RoadOver(i)
     \/ Commit \/ JobCommit \/ GateReload
     \/ (op # Idle \/ job # Idle) /\ Crash(NoMemory)

MCSpec == MCInit /\ [][MCNext]_<<vars, theme>> /\ Fairness
=============================================================================
