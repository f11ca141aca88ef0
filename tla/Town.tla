---------------------------------- MODULE Town ----------------------------------
(***************************************************************************)
(* The town: the components of the main bot that share the accounts, under *)
(* the gates, the administrators' commands, the channel every player must  *)
(* stay in and the wipe of an account.  EXTENDS brings Accounts, Works,    *)
(* Farm, Roads, Gear and Streets together: they are one database.          *)
(*                                                                         *)
(* db.member[u] is fj_member_status: 1, 0 or NULL; db.left[u] tells        *)
(* whether fj_left_at is set and clock "away" whether the hours of grace   *)
(* still run.                                                              *)
(***************************************************************************)
EXTENDS Streets

CONSTANTS
  StartSkill,
  Amounts                  \* the numbers players and administrators give

ASSUME TownAssumption == Amounts \subseteq Nat \ {0} /\ StartSkill \in [Skills -> {0}]

vars == <<db, mem, op, job, racing, raced, due>>

-----------------------------------------------------------------------------
(* A new account.                                                          *)

NoWear   == [weapon |-> NULL, armor |-> NULL]
NoAsk    == [ask |-> "none", value |-> NULL]
Over(S, e) == [x \in S |-> e]

\* get_or_create, for every player
NewTown ==
  [cash    |-> Over(Users, StartCash), gems |-> Over(Users, 0), parts |-> Over(Users, 0),
   bank    |-> Over(Users, 0), vault |-> Over(Users, 1),
   level   |-> Over(Users, 1), xp |-> Over(Users, 0), points |-> Over(Users, 0), again |-> Over(Users, 0),
   skill   |-> Over(Users, StartSkill), energy |-> Over(Users, MaxEnergy), hp |-> Over(Users, HpTable[1]),
   fallen  |-> Over(Users, FALSE), saved |-> Over(Users, FALSE), hidden |-> Over(Users, FALSE),
   home    |-> Over(Users, 0), first |-> Over(Users, {}), quest |-> Over(Users, NULL),
   pend    |-> Over(Users, NoAsk), clock |-> Over(Users \X Timers, FALSE), life |-> Over(Users, 0),
   res     |-> Over(Users \X Res, 0), tool |-> Over(Users \X Tools, 1), shift |-> Over(Users, NULL),
   fac     |-> Over(Users \X Factories, [level |-> 0, stock |-> 0]),
   seed    |-> Over(Users \X Crops, 0), good |-> Over(Users \X Crops, NoGood),
   plot    |-> Over(Users \X (1 .. MaxPlots), NULL), ship |-> Over(Ships, NULL),
   world   |-> [caravan |-> NULL, stays |-> FALSE, rested |-> TRUE],
   item    |-> Over(Users \X (Weapons \cup Armors \cup Artifacts), NULL), wear |-> Over(Users, NoWear),
   dog     |-> Over(Users \X Dogs, NULL), snitched |-> Over(Users, 0),
   member  |-> Over(Users, NULL), left |-> Over(Users, FALSE)]

NoMemory == [jail |-> {}, fresh |-> FALSE]

-----------------------------------------------------------------------------
(* The wipe.                                                               *)

Wiping == {"hit", "mine", "harvest", "search", "pending", "shield", "pv", "dead", "poison"}

\* What wipe_account resets, of each of us.  Products, shipments, the stock of
\* the factories, gems, the sentence and the snitch's count stay; the cartel's
\* part is in Teams.
Blank(d, us) ==
  LET all(column, e) == [u \in Users |-> IF u \in us THEN e ELSE column[u]]
      mine(table, e) == [x \in DOMAIN table |-> IF x[1] \in us THEN e ELSE table[x]]
  IN  [d EXCEPT
        !.plot = mine(@, NULL), !.item = mine(@, NULL), !.dog = mine(@, NULL), !.seed = mine(@, 0),
        !.level = all(@, 1), !.xp = all(@, 0), !.cash = all(@, StartCash), !.energy = all(@, MaxEnergy),
        !.bank = all(@, 0), !.vault = all(@, 1), !.home = all(@, 0), !.res = mine(@, 0), !.tool = mine(@, 1),
        !.fac = [x \in DOMAIN @ |-> IF x[1] \in us THEN [@[x] EXCEPT !.level = 0] ELSE @[x]],
        !.shift = all(@, NULL), !.pend = all(@, NoAsk), !.fallen = all(@, FALSE), !.quest = all(@, NULL),
        !.first = [u \in Users |-> IF u \in us THEN @[u] \cap {"shipment"} ELSE @[u]],
        !.points = all(@, 0), !.again = all(@, 0), !.skill = all(@, StartSkill), !.wear = all(@, NoWear),
        !.clock = [x \in DOMAIN @ |-> @[x] /\ ~(x[1] \in us /\ x[2] \in Wiping)],
        !.life = [u \in Users |-> IF u \in us THEN @[u] + 1 ELSE @[u]]]

\* Mistake: the wipe forgets to heal.
WipedWounded(d, us) == Blank(d, us)

\* wipe_account
Wiped(d, us) ==
  LET e == Blank(d, us) IN [e EXCEPT !.hp = [u \in Users |-> IF u \in us THEN HpMax(e, u) ELSE @[u]]]

\* clearacc_cb
ClearAccount(u) == Answer(Wiped(db, {u}))

\* fj_wipe_job: those who left the channel long ago.
Long(u) == db.member[u] = 0 /\ db.left[u] /\ ~Running(db, u, "away")
WipeJob ==
  LET gone == {u \in Users : Long(u)}
  IN  /\ gone # {}
      /\ Run([Wiped(db, gone) EXCEPT !.member = [u \in Users |-> IF u \in gone THEN NULL ELSE @[u]],
                       !.left   = [u \in Users |-> @[u] /\ u \notin gone]])

\* apply_member_result: the first time a player is found outside counts.
Checked(d, u, inside) ==
  IF inside THEN Stop([d EXCEPT !.member[u] = 1, !.left[u] = FALSE], u, "away")
  ELSE IF d.left[u] THEN [d EXCEPT !.member[u] = 0]
  ELSE Start([d EXCEPT !.member[u] = 0, !.left[u] = TRUE], u, "away")

\* fj_member_event, gate_confirm and the gate's own check
ChannelCheck(u, inside) == Checked(db, u, inside) # db /\ Answer(Checked(db, u, inside))

-----------------------------------------------------------------------------
(* Administrators.                                                         *)

\* addtp_cmd and addgem_cmd; detp_cmd takes what there is; addxp_cmd, dexp_cmd
AddTp(u, n)  == Answer(Pay(db, u, n))
AddGem(u, n) == Answer([db EXCEPT !.gems[u] = @ + n])
TakeTp(u, n) == Answer([db EXCEPT !.cash[u] = Max({0, @ - n})])
GiveXp(u, n) == Answer(AddXp(db, u, n))
TakeXp(u, n) == Answer([db EXCEPT !.xp[u] = Max({0, @ - n})])

\* addseed_cmd gives the products of a crop, not its seeds.
AddCrop(u, c, n, w) == Answer(AddProduct(db, u, c, n, w * n))

\* hideboard_cmd
HideBoard(u) == Answer([db EXCEPT !.hidden[u] = ~@])

\* update_cmd: first plots that were not noted, points of those who spent none.
\* Its query does not look at stamina.  again is a history: what stamina had
\* cost an account that got its points back.
SpentNone(u) == \A s \in Skills \ {"stamina"} : db.skill[u][s] = 0
UpdateCmd ==
  LET fixed == [u \in Users |-> IF SpentNone(u) THEN ExpectedPoints(db.level[u]) ELSE db.points[u]]
      twice == [u \in Users |-> IF SpentNone(u) THEN db.skill[u]["stamina"] ELSE db.again[u]]
      plots == [u \in Users |-> IF Plots(u) # {} THEN db.first[u] \cup {"plot"} ELSE db.first[u]]
      d     == [db EXCEPT !.points = fixed, !.again = twice, !.first = plots]
  IN  d # db /\ Answer(d)

-----------------------------------------------------------------------------
(* The system.                                                             *)

Init ==
  /\ db = NewTown /\ mem = NoMemory /\ op = Idle /\ job = Idle
  /\ racing \in BOOLEAN /\ raced = FALSE /\ due = db.energy

\* Text that answers a question, and the bribe: the jail gate lets them pass.
Answers(u) ==
  \/ \E n \in Amounts : BankAmount(u, n) \/ TransferAmount(u, n) \/ ResAmount(u, n) \/ ShipQty(u, n) \/ CaravanQty(u, n)
  \/ (\E v \in Users : TransferTo(u, v)) \/ SeedAmount(u) \/ NameDog(u) \/ Bribe(u)

Account(u, draw) ==
  \/ QuestPage(u) \/ Page(u) \/ SkillReset(u) \/ BankUpgrade(u)
  \/ \E k \in Drinks : BuyDrink(u, k, draw)
  \/ \E s \in Skills : SkillUp(u, s)
  \/ \E n \in Amounts : DepositText(u, n) \/ WithdrawText(u, n) \/ \E v \in Users : Transfer(u, v, n)
  \/ \E ask \in {"bankdep", "bankwd", "trf_to"} : BankAsk(u, ask)
  \/ \E half \in BOOLEAN : BankQuick(u, half)

Work(u, draw) ==
  \/ CompanyPage(u) \/ \E loot \in Loots : MineTrip(u, loot, draw)
  \/ \E t \in Tools : UpgradeTool(u, t)
  \/ \E f \in Factories : Collect(u, f) \/ Build(u, f) \/ UpgradeFactory(u, f)
  \/ \E r \in Res :
       \/ \E ask \in {"resbuy", "ressell"} : AskRes(u, ask, r)
       \/ \E n \in Amounts : BuyRes(u, r, n) \/ \E price \in ResPrice[r] : SellRes(u, r, n, price, draw)

Land(u, draw) ==
  \/ BuyPlot(u) \/ Search(u, draw) \/ UpgradeHome(u)
  \/ \E n \in 1 .. MaxPlots :
       \/ UpgradePlot(u, n) \/ \E c \in Crops : Plant(u, n, c, draw)
       \/ \E gems \in SpeedUps, all \in BOOLEAN : SpeedUp(u, n, gems, all)
  \/ \E q \in [1 .. MaxPlots -> Quantities], w \in Worths : Harvest(u, q, w, draw)
  \/ \E c \in Crops : AskSeed(u, c) \/ \E n \in Amounts : BuySeed(u, c, n)

Trade(u, draw) ==
  \/ AskCaravan(u) \/ \E n \in Amounts : SellToCaravan(u, n)
  \/ \E c \in Crops :
       \/ AskShip(u, c)
       \/ \E n \in Amounts, fate \in Fates, seize \in Seizes \cup {0} :
            SendShipment(u, c, n, fate, seize, draw)

Outfit(u, draw) ==
  \/ \E k \in DOMAIN Goods : Buy(u, k) \/ UpgradeGear(u, k) \/ Wear(u, k) \/ Reload(u, k)
  \/ TakeOff(u)
  \/ \E k \in Dogs :
       \/ HoldDog(u, k) \/ BuyDog(u, k) \/ Release(u, k)
       \/ \E food \in DOMAIN Foods : Feed(u, k, food, draw)

Violence(u, draw) ==
  \/ HealPage(u) \/ Reroll(u) \/ Spy(u) \/ \E k \in DOMAIN Heals : Heal(u, k)
  \/ \E v \in Users :
       \/ Snitch(u, v)
       \/ \E dmg \in Damages, p \in Steals \cup {0}, poisons \in BOOLEAN : Hit(u, v, dmg, p, poisons, draw)
       \/ \E breaks, drops, won \in BOOLEAN, p \in Steals : PvAttack(u, v, breaks, drops, won, p, draw)

Command(u) ==
  \E draw \in QuestDraws :
    Account(u, draw) \/ Work(u, draw) \/ Land(u, draw) \/ Trade(u, draw) \/ Outfit(u, draw) \/ Violence(u, draw)

Admin ==
  \/ \E u \in Users :
       \/ ClearAccount(u) \/ HideBoard(u)
       \/ \E n \in Amounts :
            \/ AddTp(u, n) \/ AddGem(u, n) \/ TakeTp(u, n) \/ GiveXp(u, n) \/ TakeXp(u, n)
            \/ \E c \in Crops, w \in Worths : AddCrop(u, c, n, w)
  \/ UpdateCmd
  \/ \E c \in Crops, b \in Bonuses : AdminCaravan(c, b)

Jobs ==
  \/ Pulse \/ PendingSweep \/ ShipmentJob \/ WipeJob
  \/ \E c \in Crops, b \in Bonuses : SmugglerJob(c, b)
  \/ \E found \in SUBSET Users : PoliceWave(found)

Time ==
  \/ \E u \in Users :
       \/ DayOver(u) \/ TickOver(u) \/ \E n \in 1 .. MaxPlots : PlotTime(u, n)
       \/ \E k \in Timers : Elapse(u, k)
  \/ FeedDay \/ CaravanTime \/ CacheOld
  \/ \E i \in Ships : RoadOver(i)

Next ==
  \/ \E u \in Users :
       \/ Passes(u) /\ Command(u)
       \/ Answers(u)
       \/ \E inside \in BOOLEAN : ChannelCheck(u, inside)
  \/ GateReload \/ Admin \/ Jobs \/ Time
  \/ Commit \/ JobCommit \/ Crash(NoMemory)

Spec == Init /\ [][Next]_vars

\* A handler goes on until it commits, time passes, the jobs come back every
\* minute, and a restart does not strike every time a job commits.
Fairness ==
  /\ WF_vars(Commit) /\ SF_vars(JobCommit) /\ SF_vars(ShipmentJob)
  /\ \A i \in Ships : WF_vars(RoadOver(i))

-----------------------------------------------------------------------------
(* Properties.                                                             *)

\* The tables keep their shape and nothing that is counted falls below zero.
TownOK ==
  /\ DOMAIN db = DOMAIN NewTown /\ \A t \in DOMAIN db : DOMAIN db[t] = DOMAIN NewTown[t]
  /\ \A t \in {"cash", "gems", "parts", "bank", "xp", "points", "energy", "hp", "res", "seed", "snitched"} :
       \A k \in DOMAIN db[t] : db[t][k] \in Nat
  /\ \A u \in Users : db.level[u] \in Levels /\ db.vault[u] \in 1 .. VaultMax
  /\ \A x \in DOMAIN db.good : db.good[x].qty \in Nat /\ db.good[x].value \in Nat
  /\ \A x \in DOMAIN db.item : db.item[x] # NULL =>
       db.item[x].level \in 1 .. GearMax /\ (x[2] \in Guns => Bullets(db, x[1], x[2]) \in 0 .. Full(db.item[x].level))

\* Nobody has more energy than was given: the pulse of the job and the
\* spending of a handler that are under way together lose nothing of what was
\* spent (energy_pulse_job; raced with a wipe the account is a mixture).
EnergyIsEarned ==
  \A u \in Users : (raced => db.life[u] = 0) => db.energy[u] <= due[u]

\* The bank holds no more than its vault, whoever sends, moves or upgrades
\* (services/bank.py), every skill point a level gave, or update_cmd gave again,
\* is either unspent or in a skill, and there are no others (add_xp,
\* spend_skill_point, reset_skills, wipe_account, update_cmd), and no more than
\* MaxShipments loads of a player are on the road (send_shipment).
VaultHolds(u)     == db.bank[u] <= BankCap[db.vault[u]]
PointsAreWhole(u) == db.points[u] + PointsSpent(db, u) = ExpectedPoints(db.level[u]) + db.again[u]
AccountsHold ==
  \A u \in Users : /\ Cardinality(OnRoad(db, u)) <= MaxShipments
                   /\ raced \/ (VaultHolds(u) /\ PointsAreWhole(u))

\* A comment of handlers/admin.py says that update_cmd leaves the points of who
\* has spent some as they are.  The code does not see those spent on stamina.
SpendersStay ==
  [][UpdateCmd => \A u \in Users : PointsSpent(db, u) > 0 => db'.points[u] = db.points[u]]_vars

\* Who has no blood left is dead or waits to be revived: no wipe, no revival
\* and no rise of a level leaves a player standing with no blood (battle.py).
FallenAreDead == \A u \in Users : db.hp[u] = 0 => db.fallen[u] \/ raced

\* The sentence holds: between two updates the cache of the jail gate stops
\* everyone the database has in jail, unless it is about to be read again.
JailHolds ==
  op = Idle => \A u \in Users : Running(db, u, "jail") => ~Passes(u)

\* A shipment that leaves the road pays its owner exactly what it carries, the
\* delayed ones on their second arrival, and one that does not pay stays.
Gone == {i \in Ships : db.ship[i] # NULL /\ db'.ship[i] = NULL}
Late == {i \in Ships : db.ship[i] # NULL /\ db'.ship[i] # NULL /\ db.ship[i].hops # db'.ship[i].hops}
LoadsArePaid ==
  [][raced' \/ Gone \cup Late = {} \/
     /\ \A i \in Gone : db.ship[i].due /\ (db.ship[i].fate = "delayed" => db.ship[i].hops = 1)
     /\ \A u \in Users : db'.cash[u] - db.cash[u] =
          SumFunctionOnSet([i \in Gone |-> db.ship[i].pay], {i \in Gone : db.ship[i].who = u})]_vars

\* Every shipment arrives, a delayed one too, whatever else is going on.
LoadsArrive == \A i \in Ships : db.ship[i] # NULL ~> db.ship[i] = NULL
=============================================================================
