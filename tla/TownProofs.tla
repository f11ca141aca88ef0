------------------------------- MODULE TownProofs -------------------------------
(***************************************************************************)
(* Theorems about the town.                                                *)
(***************************************************************************)
EXTENDS Town, Sums, NaturalsInduction

-----------------------------------------------------------------------------
(* What the tables hold.                                                   *)

Columns == DOMAIN NewTown
Keys(t) == DOMAIN NewTown[t]

Days      == UNION {[ks -> Quests] : ks \in SUBSET QuestKinds}
PlotRows  == {p \in [state : {"building", "empty", "growing", "ready"}, crop : Crops \cup {NULL}, level : 1 .. PlotMax] :
                p.state \in {"growing", "ready"} => p.crop \in Crops}
ShipRows  == [who : Users, crop : Crops, qty : Nat, pay : Nat, fate : Fates, hops : 0 .. 1, due : BOOLEAN]
ItemRows(k) == {i \in [level : 1 .. GearMax, ammo : Nat \cup {NULL}] :
                  k \in Guns => i.ammo = NULL \/ i.ammo <= Full(i.level)}
Worn      == [weapon : Weapons \cup {NULL}, armor : Armors \cup {NULL}]
Caravans  == [crop : Crops, bonus : Bonuses]

\* What a row of a table may hold, of the tables the proofs look into.
Cells ==
  [cash  |-> Over(Users, Nat), gems |-> Over(Users, Nat), parts |-> Over(Users, Nat),
   bank  |-> Over(Users, Nat), vault |-> Over(Users, 1 .. VaultMax),
   level |-> Over(Users, Levels), xp |-> Over(Users, Nat), points |-> Over(Users, Nat), again |-> Over(Users, Nat),
   skill |-> Over(Users, [Skills -> Nat]), energy |-> Over(Users, Nat), hp |-> Over(Users, Nat),
   fallen |-> Over(Users, BOOLEAN), home |-> Over(Users, 0 .. HomeMax), quest |-> Over(Users, Days \cup {NULL}),
   clock |-> Over(Users \X Timers, BOOLEAN), life |-> Over(Users, Nat),
   res   |-> Over(Users \X Res, Nat), tool |-> Over(Users \X Tools, 1 .. ToolMax), shift |-> Over(Users, Nat \cup {NULL}),
   fac   |-> Over(Users \X Factories, [level : 0 .. FacMax, stock : Nat]),
   seed  |-> Over(Users \X Crops, Nat), good |-> Over(Users \X Crops, [qty : Nat, value : Nat]),
   plot  |-> Over(Users \X (1 .. MaxPlots), PlotRows \cup {NULL}), ship |-> Over(Ships, ShipRows \cup {NULL}),
   world |-> [caravan |-> Caravans \cup {NULL}, stays |-> BOOLEAN, rested |-> BOOLEAN],
   item  |-> [x \in Users \X (Weapons \cup Armors \cup Artifacts) |-> ItemRows(x[2]) \cup {NULL}],
   wear  |-> Over(Users, Worn), snitched |-> Over(Users, Nat)]

OfType(t, f) ==
  /\ f = [k \in Keys(t) |-> f[k]]
  /\ t \in DOMAIN Cells => \A k \in Keys(t) : f[k] \in Cells[t][k]

Typed(d) == d = [t \in Columns |-> d[t]] /\ \A t \in Columns : OfType(t, d[t])

LEMMA ColumnNames ==
  /\ "cash" \in Columns /\ "gems" \in Columns /\ "parts" \in Columns /\ "bank" \in Columns /\ "vault" \in Columns /\ "level" \in Columns
  /\ "xp" \in Columns /\ "points" \in Columns /\ "skill" \in Columns /\ "energy" \in Columns /\ "hp" \in Columns /\ "fallen" \in Columns
  /\ "saved" \in Columns /\ "hidden" \in Columns /\ "home" \in Columns /\ "first" \in Columns /\ "quest" \in Columns /\ "pend" \in Columns
  /\ "clock" \in Columns /\ "life" \in Columns /\ "res" \in Columns /\ "tool" \in Columns /\ "shift" \in Columns /\ "fac" \in Columns
  /\ "seed" \in Columns /\ "good" \in Columns /\ "plot" \in Columns /\ "ship" \in Columns /\ "world" \in Columns /\ "item" \in Columns
  /\ "again" \in Columns /\ "wear" \in Columns /\ "dog" \in Columns /\ "snitched" \in Columns /\ "member" \in Columns /\ "left" \in Columns
BY Zenon DEF Columns, NewTown

LEMMA Nulls == NULL \notin Users /\ NULL \notin Nat
BY AccountsAssumption

LEMMA LevelNumbers ==
  /\ MaxLevel \in Nat \ {0} /\ 1 \in Levels /\ Levels \subseteq Nat \ {0}
  /\ \A l \in Levels : l < MaxLevel => l + 1 \in Levels /\ XpNeed[l] \in Nat \ {0}
  /\ \A l \in Levels : HpTable[l] \in Nat \ {0}
<1>1. XpNeed \in Seq(Nat \ {0}) /\ HpTable \in [Levels -> Nat \ {0}]
  BY AccountsAssumption
<1>2. Len(XpNeed) \in Nat /\ \A l \in 1 .. Len(XpNeed) : XpNeed[l] \in Nat \ {0}
  BY <1>1
<1>. QED BY <1>1, <1>2 DEF MaxLevel, Levels

LEMMA VaultNumbers ==
  /\ VaultMax \in Nat \ {0} /\ \A l \in 1 .. VaultMax : BankCap[l] \in Nat
  /\ \A l \in 1 .. VaultMax : l < VaultMax => BankPrice[l] \in Nat /\ BankCap[l] <= BankCap[l + 1]
<1>1. BankCap \in Seq(Nat) /\ VaultMax > 0 /\ BankPrice \in Seq(Nat) /\ Len(BankPrice) = VaultMax - 1
  BY AccountsAssumption
<1>2. Len(BankCap) \in Nat /\ Len(BankPrice) \in Nat
  BY <1>1
<1>3. \A l \in 1 .. VaultMax - 1 : BankCap[l] <= BankCap[l + 1]
  BY AccountsAssumption
<1>. QED BY <1>1, <1>2, <1>3 DEF VaultMax

LEMMA RoomNumbers == HomeMax \in Nat /\ \A r \in Res, h \in 0 .. HomeMax : ResCap[r][h] \in Nat
<1>1. \A r \in Res : \A h \in DOMAIN ResCap[r] : ResCap[r][h] \in Nat
  BY AccountsAssumption
<1>2. HomeMax \in Nat /\ \A r \in Res : 0 .. HomeMax \subseteq DOMAIN ResCap[r]
  BY FarmAssumption
<1>. QED BY <1>1, <1>2

LEMMA PurseColumns ==
  /\ \A f : OfType("cash", f) <=> f \in [Users -> Nat]
  /\ \A f : OfType("gems", f) <=> f \in [Users -> Nat]
  /\ \A f : OfType("parts", f) <=> f \in [Users -> Nat]
  /\ \A f : OfType("bank", f) <=> f \in [Users -> Nat]
  /\ \A f : OfType("vault", f) <=> f \in [Users -> 1 .. VaultMax]
  /\ \A d : Typed(d) => /\ d.cash \in [Users -> Nat]
                       /\ d.gems \in [Users -> Nat]
                       /\ d.parts \in [Users -> Nat]
                       /\ d.bank \in [Users -> Nat]
                       /\ d.vault \in [Users -> 1 .. VaultMax]
<1>1. \A f : OfType("cash", f) <=> f \in [Users -> Nat]
  BY DEF OfType, Keys, NewTown, Cells, Over
<1>2. \A f : OfType("gems", f) <=> f \in [Users -> Nat]
  BY DEF OfType, Keys, NewTown, Cells, Over
<1>3. \A f : OfType("parts", f) <=> f \in [Users -> Nat]
  BY DEF OfType, Keys, NewTown, Cells, Over
<1>4. \A f : OfType("bank", f) <=> f \in [Users -> Nat]
  BY DEF OfType, Keys, NewTown, Cells, Over
<1>5. \A f : OfType("vault", f) <=> f \in [Users -> 1 .. VaultMax]
  BY DEF OfType, Keys, NewTown, Cells, Over
<1>6. \A d : Typed(d) => OfType("cash", d.cash) /\ OfType("gems", d.gems) /\ OfType("parts", d.parts) /\ OfType("bank", d.bank) /\ OfType("vault", d.vault)
  BY ColumnNames DEF Typed
<1>. QED BY <1>1, <1>2, <1>3, <1>4, <1>5, <1>6

LEMMA GrowthColumns ==
  /\ \A f : OfType("level", f) <=> f \in [Users -> Levels]
  /\ \A f : OfType("xp", f) <=> f \in [Users -> Nat]
  /\ \A f : OfType("points", f) <=> f \in [Users -> Nat]
  /\ \A f : OfType("again", f) <=> f \in [Users -> Nat]
  /\ \A f : OfType("skill", f) <=> f \in [Users -> [Skills -> Nat]]
  /\ \A f : OfType("energy", f) <=> f \in [Users -> Nat]
  /\ \A d : Typed(d) => /\ d.level \in [Users -> Levels]
                       /\ d.xp \in [Users -> Nat]
                       /\ d.points \in [Users -> Nat]
                       /\ d.again \in [Users -> Nat]
                       /\ d.skill \in [Users -> [Skills -> Nat]]
                       /\ d.energy \in [Users -> Nat]
<1>1. \A f : OfType("level", f) <=> f \in [Users -> Levels]
  BY DEF OfType, Keys, NewTown, Cells, Over
<1>2. \A f : OfType("xp", f) <=> f \in [Users -> Nat]
  BY DEF OfType, Keys, NewTown, Cells, Over
<1>3. \A f : OfType("points", f) <=> f \in [Users -> Nat]
  BY DEF OfType, Keys, NewTown, Cells, Over
<1>4. \A f : OfType("skill", f) <=> f \in [Users -> [Skills -> Nat]]
  BY DEF OfType, Keys, NewTown, Cells, Over
<1>5. \A f : OfType("energy", f) <=> f \in [Users -> Nat]
  BY DEF OfType, Keys, NewTown, Cells, Over
<1>6. \A f : OfType("again", f) <=> f \in [Users -> Nat]
  BY DEF OfType, Keys, NewTown, Cells, Over
<1>7. \A d : Typed(d) => OfType("level", d.level) /\ OfType("xp", d.xp) /\ OfType("points", d.points) /\ OfType("again", d.again)
                       /\ OfType("skill", d.skill) /\ OfType("energy", d.energy)
  BY ColumnNames DEF Typed
<1>. QED BY <1>1, <1>2, <1>3, <1>4, <1>5, <1>6, <1>7

LEMMA HealthColumns ==
  /\ \A f : OfType("hp", f) <=> f \in [Users -> Nat]
  /\ \A f : OfType("fallen", f) <=> f \in [Users -> BOOLEAN]
  /\ \A d : Typed(d) => /\ d.hp \in [Users -> Nat]
                       /\ d.fallen \in [Users -> BOOLEAN]
<1>1. \A f : OfType("hp", f) <=> f \in [Users -> Nat]
  BY DEF OfType, Keys, NewTown, Cells, Over
<1>2. \A f : OfType("fallen", f) <=> f \in [Users -> BOOLEAN]
  BY DEF OfType, Keys, NewTown, Cells, Over
<1>3. \A d : Typed(d) => OfType("hp", d.hp) /\ OfType("fallen", d.fallen)
  BY ColumnNames DEF Typed
<1>. QED BY <1>1, <1>2, <1>3

LEMMA StoresColumns ==
  /\ \A f : OfType("home", f) <=> f \in [Users -> 0 .. HomeMax]
  /\ \A f : OfType("res", f) <=> f \in [Users \X Res -> Nat]
  /\ \A f : OfType("tool", f) <=> f \in [Users \X Tools -> 1 .. ToolMax]
  /\ \A f : OfType("fac", f) <=> f \in [Users \X Factories -> [level : 0 .. FacMax, stock : Nat]]
  /\ \A f : OfType("shift", f) <=> f \in [Users -> Nat \cup {NULL}]
  /\ \A d : Typed(d) => /\ d.home \in [Users -> 0 .. HomeMax]
                       /\ d.res \in [Users \X Res -> Nat]
                       /\ d.tool \in [Users \X Tools -> 1 .. ToolMax]
                       /\ d.fac \in [Users \X Factories -> [level : 0 .. FacMax, stock : Nat]]
                       /\ d.shift \in [Users -> Nat \cup {NULL}]
<1>1. \A f : OfType("home", f) <=> f \in [Users -> 0 .. HomeMax]
  BY DEF OfType, Keys, NewTown, Cells, Over
<1>2. \A f : OfType("res", f) <=> f \in [Users \X Res -> Nat]
  BY DEF OfType, Keys, NewTown, Cells, Over
<1>3. \A f : OfType("tool", f) <=> f \in [Users \X Tools -> 1 .. ToolMax]
  BY DEF OfType, Keys, NewTown, Cells, Over
<1>4. \A f : OfType("fac", f) <=> f \in [Users \X Factories -> [level : 0 .. FacMax, stock : Nat]]
  BY DEF OfType, Keys, NewTown, Cells, Over
<1>5. \A f : OfType("shift", f) <=> f \in [Users -> Nat \cup {NULL}]
  BY DEF OfType, Keys, NewTown, Cells, Over
<1>6. \A d : Typed(d) => OfType("home", d.home) /\ OfType("res", d.res) /\ OfType("tool", d.tool) /\ OfType("fac", d.fac) /\ OfType("shift", d.shift)
  BY ColumnNames DEF Typed
<1>. QED BY <1>1, <1>2, <1>3, <1>4, <1>5, <1>6

LEMMA LandColumns ==
  /\ \A f : OfType("seed", f) <=> f \in [Users \X Crops -> Nat]
  /\ \A f : OfType("good", f) <=> f \in [Users \X Crops -> [qty : Nat, value : Nat]]
  /\ \A f : OfType("plot", f) <=> f \in [Users \X (1 .. MaxPlots) -> PlotRows \cup {NULL}]
  /\ \A d : Typed(d) => /\ d.seed \in [Users \X Crops -> Nat]
                       /\ d.good \in [Users \X Crops -> [qty : Nat, value : Nat]]
                       /\ d.plot \in [Users \X (1 .. MaxPlots) -> PlotRows \cup {NULL}]
<1>1. \A f : OfType("seed", f) <=> f \in [Users \X Crops -> Nat]
  BY DEF OfType, Keys, NewTown, Cells, Over
<1>2. \A f : OfType("good", f) <=> f \in [Users \X Crops -> [qty : Nat, value : Nat]]
  BY DEF OfType, Keys, NewTown, Cells, Over
<1>3. \A f : OfType("plot", f) <=> f \in [Users \X (1 .. MaxPlots) -> PlotRows \cup {NULL}]
  BY DEF OfType, Keys, NewTown, Cells, Over
<1>4. \A d : Typed(d) => OfType("seed", d.seed) /\ OfType("good", d.good) /\ OfType("plot", d.plot)
  BY ColumnNames DEF Typed
<1>. QED BY <1>1, <1>2, <1>3, <1>4

LEMMA MarksColumns ==
  /\ \A f : OfType("quest", f) <=> f \in [Users -> Days \cup {NULL}]
  /\ \A f : OfType("life", f) <=> f \in [Users -> Nat]
  /\ \A f : OfType("snitched", f) <=> f \in [Users -> Nat]
  /\ \A d : Typed(d) => /\ d.quest \in [Users -> Days \cup {NULL}]
                       /\ d.life \in [Users -> Nat]
                       /\ d.snitched \in [Users -> Nat]
<1>1. \A f : OfType("quest", f) <=> f \in [Users -> Days \cup {NULL}]
  BY DEF OfType, Keys, NewTown, Cells, Over
<1>2. \A f : OfType("life", f) <=> f \in [Users -> Nat]
  BY DEF OfType, Keys, NewTown, Cells, Over
<1>3. \A f : OfType("snitched", f) <=> f \in [Users -> Nat]
  BY DEF OfType, Keys, NewTown, Cells, Over
<1>4. \A d : Typed(d) => OfType("quest", d.quest) /\ OfType("life", d.life) /\ OfType("snitched", d.snitched)
  BY ColumnNames DEF Typed
<1>. QED BY <1>1, <1>2, <1>3, <1>4

LEMMA ClocksColumns ==
  /\ \A f : OfType("clock", f) <=> f \in [Users \X Timers -> BOOLEAN]
  /\ \A d : Typed(d) => d.clock \in [Users \X Timers -> BOOLEAN]
<1>1. \A f : OfType("clock", f) <=> f \in [Users \X Timers -> BOOLEAN]
  BY DEF OfType, Keys, NewTown, Cells, Over
<1>2. \A d : Typed(d) => OfType("clock", d.clock)
  BY ColumnNames DEF Typed
<1>. QED BY <1>1, <1>2

LEMMA ShippingColumns ==
  /\ \A f : OfType("ship", f) <=> f \in [Ships -> ShipRows \cup {NULL}]
  /\ \A f : OfType("world", f) <=> f \in [caravan : Caravans \cup {NULL}, stays : BOOLEAN, rested : BOOLEAN]
  /\ \A d : Typed(d) => /\ d.ship \in [Ships -> ShipRows \cup {NULL}]
                       /\ d.world \in [caravan : Caravans \cup {NULL}, stays : BOOLEAN, rested : BOOLEAN]
<1>1. \A f : OfType("ship", f) <=> f \in [Ships -> ShipRows \cup {NULL}]
  BY DEF OfType, Keys, NewTown, Cells, Over
<1>2. \A f : OfType("world", f) <=> f \in [caravan : Caravans \cup {NULL}, stays : BOOLEAN, rested : BOOLEAN]
  BY DEF OfType, Keys, NewTown, Cells, Over
<1>3. \A d : Typed(d) => OfType("ship", d.ship) /\ OfType("world", d.world)
  BY ColumnNames DEF Typed
<1>. QED BY <1>1, <1>2, <1>3

LEMMA ArmsColumns ==
  /\ \A f : OfType("item", f) <=> (f = [x \in Users \X (Weapons \cup Armors \cup Artifacts) |-> f[x]] /\ \A x \in Users \X (Weapons \cup Armors \cup Artifacts) : f[x] \in ItemRows(x[2]) \cup {NULL})
  /\ \A f : OfType("wear", f) <=> f \in [Users -> Worn]
  /\ \A d : Typed(d) => /\ d.item = [x \in Users \X (Weapons \cup Armors \cup Artifacts) |-> d.item[x]] /\ \A x \in Users \X (Weapons \cup Armors \cup Artifacts) : d.item[x] \in ItemRows(x[2]) \cup {NULL}
                       /\ d.wear \in [Users -> Worn]
<1>1. \A f : OfType("item", f) <=> (f = [x \in Users \X (Weapons \cup Armors \cup Artifacts) |-> f[x]] /\ \A x \in Users \X (Weapons \cup Armors \cup Artifacts) : f[x] \in ItemRows(x[2]) \cup {NULL})
  BY DEF OfType, Keys, NewTown, Cells, Over
<1>2. \A f : OfType("wear", f) <=> f \in [Users -> Worn]
  BY DEF OfType, Keys, NewTown, Cells, Over
<1>3. \A d : Typed(d) => OfType("item", d.item) /\ OfType("wear", d.wear)
  BY ColumnNames DEF Typed
<1>. QED BY <1>1, <1>2, <1>3

LEMMA OtherColumns ==
  /\ \A d : Typed(d) => DOMAIN d = Columns
  /\ \A f : OfType("saved", f) <=> f = [k \in Users |-> f[k]]
  /\ \A f : OfType("hidden", f) <=> f = [k \in Users |-> f[k]]
  /\ \A f : OfType("first", f) <=> f = [k \in Users |-> f[k]]
  /\ \A f : OfType("pend", f) <=> f = [k \in Users |-> f[k]]
  /\ \A f : OfType("dog", f) <=> f = [k \in Users \X Dogs |-> f[k]]
  /\ \A f : OfType("member", f) <=> f = [k \in Users |-> f[k]]
  /\ \A f : OfType("left", f) <=> f = [k \in Users |-> f[k]]
  /\ \A d : Typed(d) => /\ d.saved = [k \in Users |-> d.saved[k]]
                       /\ d.hidden = [k \in Users |-> d.hidden[k]]
                       /\ d.first = [k \in Users |-> d.first[k]]
                       /\ d.pend = [k \in Users |-> d.pend[k]]
                       /\ d.dog = [k \in Users \X Dogs |-> d.dog[k]]
                       /\ d.member = [k \in Users |-> d.member[k]]
                       /\ d.left = [k \in Users |-> d.left[k]]
<1>1. \A d : Typed(d) => DOMAIN d = Columns
  BY DEF Typed
<1>2. \A f : OfType("saved", f) <=> f = [k \in Users |-> f[k]]
  BY DEF OfType, Keys, NewTown, Cells, Over
<1>3. \A f : OfType("hidden", f) <=> f = [k \in Users |-> f[k]]
  BY DEF OfType, Keys, NewTown, Cells, Over
<1>4. \A f : OfType("first", f) <=> f = [k \in Users |-> f[k]]
  BY DEF OfType, Keys, NewTown, Cells, Over
<1>5. \A f : OfType("pend", f) <=> f = [k \in Users |-> f[k]]
  BY DEF OfType, Keys, NewTown, Cells, Over
<1>6. \A f : OfType("dog", f) <=> f = [k \in Users \X Dogs |-> f[k]]
  BY DEF OfType, Keys, NewTown, Cells, Over
<1>7. \A f : OfType("member", f) <=> f = [k \in Users |-> f[k]]
  BY DEF OfType, Keys, NewTown, Cells, Over
<1>8. \A f : OfType("left", f) <=> f = [k \in Users |-> f[k]]
  BY DEF OfType, Keys, NewTown, Cells, Over
<1>9. \A d : Typed(d) => OfType("saved", d.saved) /\ OfType("hidden", d.hidden) /\ OfType("first", d.first) /\ OfType("pend", d.pend) /\ OfType("dog", d.dog) /\ OfType("member", d.member) /\ OfType("left", d.left)
  BY ColumnNames DEF Typed
<1>10. ASSUME NEW d, Typed(d)
       PROVE  /\ d.saved = [k \in Users |-> d.saved[k]]
              /\ d.hidden = [k \in Users |-> d.hidden[k]]
              /\ d.first = [k \in Users |-> d.first[k]]
              /\ d.pend = [k \in Users |-> d.pend[k]]
              /\ d.dog = [k \in Users \X Dogs |-> d.dog[k]]
              /\ d.member = [k \in Users |-> d.member[k]]
              /\ d.left = [k \in Users |-> d.left[k]]
  <2>1. d.saved = [k \in Users |-> d.saved[k]]
    BY <1>2, <1>9, <1>10, Zenon
  <2>2. d.hidden = [k \in Users |-> d.hidden[k]]
    BY <1>3, <1>9, <1>10, Zenon
  <2>3. d.first = [k \in Users |-> d.first[k]]
    BY <1>4, <1>9, <1>10, Zenon
  <2>4. d.pend = [k \in Users |-> d.pend[k]]
    BY <1>5, <1>9, <1>10, Zenon
  <2>5. d.dog = [k \in Users \X Dogs |-> d.dog[k]]
    BY <1>6, <1>9, <1>10, Zenon
  <2>6. d.member = [k \in Users |-> d.member[k]]
    BY <1>7, <1>9, <1>10, Zenon
  <2>7. d.left = [k \in Users |-> d.left[k]]
    BY <1>8, <1>9, <1>10, Zenon
  <2>. QED BY <2>1, <2>2, <2>3, <2>4, <2>5, <2>6, <2>7
<1>. QED BY <1>1, <1>2, <1>3, <1>4, <1>5, <1>6, <1>7, <1>8, <1>10, Zenon

-----------------------------------------------------------------------------
(* What an update leaves alone.                                            *)

\* Only columns of S changed.
Frame(d, e, S) == e = [t \in Columns |-> e[t]] /\ \A t \in Columns \ S : e[t] = d[t]

\* The account of u: its points are whole, its vault holds, no blood means death.
Whole(d, u)  == d.points[u] + PointsSpent(d, u) = ExpectedPoints(d.level[u]) + d.again[u]
Within(d, u) == d.bank[u] <= BankCap[d.vault[u]]
Bled(d, u)   == d.hp[u] = 0 => d.fallen[u]

\* What all but a few handlers do to the tables the properties look into.
Steady(d, e) ==
  /\ Typed(e) /\ e.ship = d.ship /\ e.life = d.life
  /\ \A u \in Users : /\ e.clock[<<u, "jail">>] = d.clock[<<u, "jail">>]
                      /\ Whole(d, u) => Whole(e, u)
                      /\ Within(d, u) => Within(e, u)
Calm(d, e) == Steady(d, e) /\ \A u \in Users : Bled(d, u) => Bled(e, u)

LEMMA CalmSelf == ASSUME NEW d, Typed(d) PROVE Calm(d, d)
BY DEF Calm, Steady

LEMMA CalmChain == ASSUME NEW d, NEW e, NEW f, Calm(d, e), Calm(e, f) PROVE Calm(d, f) /\ Typed(f)
BY DEF Calm, Steady

LEMMA SteadyChain == ASSUME NEW d, NEW e, NEW f, Steady(d, e), Steady(e, f) PROVE Steady(d, f) /\ Typed(f)
BY DEF Steady

LEMMA FrameTyped ==
  ASSUME NEW d, NEW e, NEW S, Typed(d), Frame(d, e, S), \A t \in S : OfType(t, e[t])
  PROVE  Typed(e)
BY DEF Typed, Frame

Guarded == {"points", "again", "skill", "level", "bank", "vault", "hp", "fallen", "ship", "life", "clock"}

LEMMA FrameCalm ==
  ASSUME NEW d, NEW e, NEW S, Typed(d), Frame(d, e, S), \A t \in S : OfType(t, e[t]), S \cap Guarded = {}
  PROVE  Calm(d, e)
<1>1. Typed(e)
  BY FrameTyped
<1>2. \A t \in Guarded : e[t] = d[t]
  BY ColumnNames DEF Frame, Guarded
<1>3. /\ e.points = d.points /\ e.again = d.again /\ e.skill = d.skill /\ e.level = d.level /\ e.bank = d.bank /\ e.vault = d.vault
      /\ e.hp = d.hp /\ e.fallen = d.fallen /\ e.ship = d.ship /\ e.life = d.life /\ e.clock = d.clock
  BY <1>2 DEF Guarded
<1>. QED BY <1>1, <1>3 DEF Calm, Steady, Whole, Within, Bled, PointsSpent

LEMMA PutCalm ==
  ASSUME NEW d, Typed(d), NEW t \in Columns \ Guarded, NEW f, OfType(t, f)
  PROVE  LET e == [d EXCEPT ![t] = f] IN Calm(d, e) /\ Typed(e) /\ Frame(d, e, {t}) /\ e[t] = f
<1>. DEFINE e == [d EXCEPT ![t] = f]
<1>1. Frame(d, e, {t}) /\ e[t] = f
  BY DEF Typed, Frame
<1>2. Calm(d, e)
  <2>1. \A s \in {t} : OfType(s, e[s])
    BY <1>1
  <2>2. {t} \cap Guarded = {}
    OBVIOUS
  <2>. HIDE DEF e
  <2>. QED BY <1>1, <2>1, <2>2, FrameCalm
<1>. QED BY <1>1, <1>2 DEF Calm, Steady

-----------------------------------------------------------------------------
(* Numbers.                                                                *)

LEMMA Pairs ==
  \A a, b \in Int : /\ Max({a, b}) = IF a >= b THEN a ELSE b
                    /\ Min({a, b}) = IF a <= b THEN a ELSE b
<1>. SUFFICES ASSUME NEW a \in Int, NEW b \in Int
              PROVE  /\ Max({a, b}) = IF a >= b THEN a ELSE b
                     /\ Min({a, b}) = IF a <= b THEN a ELSE b
  OBVIOUS
<1>1. Max({a, b}) = IF a >= b THEN a ELSE b
  <2>. DEFINE m == IF a >= b THEN a ELSE b
  <2>1. m \in {a, b} /\ \A y \in {a, b} : m >= y
    OBVIOUS
  <2>2. \A x \in {a, b} : (\A y \in {a, b} : x >= y) => x = m
    OBVIOUS
  <2>. QED BY <2>1, <2>2 DEF Max
<1>2. Min({a, b}) = IF a <= b THEN a ELSE b
  <2>. DEFINE m == IF a <= b THEN a ELSE b
  <2>1. m \in {a, b} /\ \A y \in {a, b} : m <= y
    OBVIOUS
  <2>2. \A x \in {a, b} : (\A y \in {a, b} : x <= y) => x = m
    OBVIOUS
  <2>. QED BY <2>1, <2>2 DEF Min
<1>. QED BY <1>1, <1>2

LEMMA PairNat == \A a, b \in Nat : Max({a, b}) \in Nat /\ Min({a, b}) \in Nat
<1>. SUFFICES ASSUME NEW a \in Nat, NEW b \in Nat PROVE Max({a, b}) \in Nat /\ Min({a, b}) \in Nat
  OBVIOUS
<1>1. a \in Int /\ b \in Int
  OBVIOUS
<1>2. Max({a, b}) = (IF a >= b THEN a ELSE b) /\ Min({a, b}) = (IF a <= b THEN a ELSE b)
  BY <1>1, Pairs
<1>. QED BY <1>2

LEMMA ClippedNat == \A n \in Int : Max({0, n}) \in Nat /\ (n \in Nat => Max({0, n}) = n)
<1>. SUFFICES ASSUME NEW n \in Int PROVE Max({0, n}) \in Nat /\ (n \in Nat => Max({0, n}) = n)
  OBVIOUS
<1>1. Max({0, n}) = IF 0 >= n THEN 0 ELSE n
  BY Pairs
<1>. QED BY <1>1

LEMMA PercentPart == \A n \in Nat, p \in 0 .. 100 : (n * p) \div 100 \in 0 .. n
<1>. SUFFICES ASSUME NEW n \in Nat, NEW p \in 0 .. 100 PROVE (n * p) \div 100 \in 0 .. n
  OBVIOUS
<1>1. n * p \in Nat /\ n * p <= n * 100
  OBVIOUS
<1>. DEFINE m == n * p
<1>2. m \in Nat /\ m <= 100 * n
  BY <1>1
<1>. HIDE DEF m
<1>3. m \div 100 \in 0 .. n
  BY <1>2
<1>. QED BY <1>3 DEF m

LEMMA ProductNat == \A m, n \in Nat : m * n \in Nat
OBVIOUS

LEMMA RoundedNat == \A n \in Nat : Rounded(n, 100) \in Nat
BY DEF Rounded

LEMMA RoundedPart == \A n \in Nat, p \in 0 .. 100 : Rounded(n * p, 100) \in 0 .. n
<1>. SUFFICES ASSUME NEW n \in Nat, NEW p \in 0 .. 100 PROVE Rounded(n * p, 100) \in 0 .. n
  OBVIOUS
<1>. DEFINE m == n * p
<1>1. m \in Nat /\ m <= 100 * n
  <2>1. n * p \in Nat /\ n * p <= n * 100
    OBVIOUS
  <2>. QED BY <2>1
<1>. HIDE DEF m
<1>2. Rounded(m, 100) \in 0 .. n
  BY <1>1 DEF Rounded
<1>. QED BY <1>2 DEF m

-----------------------------------------------------------------------------
(* Users.                                                                  *)

LEMMA PayCalm ==
  ASSUME NEW d, Typed(d), NEW u \in Users, NEW n \in Int, d.cash[u] + n \in Nat
  PROVE  LET e == Pay(d, u, n)
         IN  Calm(d, e) /\ Typed(e) /\ Frame(d, e, {"cash"}) /\ e.cash = [d.cash EXCEPT ![u] = @ + n]
<1>. DEFINE f == [d.cash EXCEPT ![u] = @ + n]
<1>1. OfType("cash", f)
  BY PurseColumns
<1>2. Pay(d, u, n) = [d EXCEPT !["cash"] = f]
  BY DEF Pay
<1>3. "cash" \in Columns \ Guarded
  BY ColumnNames DEF Guarded
<1>. HIDE DEF f
<1>4. LET e == [d EXCEPT !["cash"] = f] IN Calm(d, e) /\ Typed(e) /\ Frame(d, e, {"cash"}) /\ e["cash"] = f
  BY <1>1, <1>3, PutCalm
<1>. QED BY <1>2, <1>4 DEF f

LEMMA RoomNat ==
  ASSUME NEW d, Typed(d), NEW u \in Users
  PROVE  /\ \A r \in Res : ResRoom(d, u, r) \in Nat
         /\ \A c \in Crops : SeedRoom(d, u, c) \in Nat
         /\ \A c \in Crops : ProductRoom(d, u, c) \in Nat
         /\ VaultRoom(d, u) \in Nat /\ (VaultRoom(d, u) > 0 => d.bank[u] + VaultRoom(d, u) = BankCap[d.vault[u]])
         /\ EnergyCap(d, u) \in Nat /\ HpMax(d, u) \in Nat \ {0}
<1>1. d.home[u] \in 0 .. HomeMax /\ HomeMax \in Nat
  BY StoresColumns, RoomNumbers
<1>2. SeedBase \in Nat /\ SeedPerHome \in Nat /\ ProductCap \in Nat /\ d.home[u] \in Nat
  <2>1. SeedBase \in Nat /\ SeedPerHome \in Nat
    BY AccountsAssumption
  <2>2. ProductCap \in Nat
    BY FarmAssumption
  <2>. QED BY ONLY <1>1, <2>1, <2>2
<1>3. ASSUME NEW r \in Res PROVE ResRoom(d, u, r) \in Nat
  <2>1. ResCap[r][d.home[u]] \in Nat /\ d.res[<<u, r>>] \in Nat
    BY <1>1, RoomNumbers, StoresColumns
  <2>. QED BY <2>1, Pairs DEF ResRoom
<1>4. ASSUME NEW c \in Crops PROVE SeedRoom(d, u, c) \in Nat
  <2>1. d.seed[<<u, c>>] \in Nat
    BY LandColumns
  <2>2. SeedPerHome * d.home[u] \in Nat
    BY <1>2, ProductNat
  <2>3. SeedBase + SeedPerHome * d.home[u] - d.seed[<<u, c>>] \in Int
    BY <1>2, <2>1, <2>2
  <2>. QED BY <2>3, ClippedNat, Zenon DEF SeedRoom
<1>5. ASSUME NEW c \in Crops PROVE ProductRoom(d, u, c) \in Nat
  <2>1. Max({1, d.home[u]}) \in Nat
    BY <1>2, Pairs
  <2>2. ProductCap * Max({1, d.home[u]}) \in Nat
    BY <1>2, <2>1, ProductNat
  <2>3. d.good[<<u, c>>] \in [qty : Nat, value : Nat]
    BY LandColumns
  <2>4. d.good[<<u, c>>].qty \in Nat
    BY <2>3
  <2>5. ProductCap * Max({1, d.home[u]}) - d.good[<<u, c>>].qty \in Int
    BY <2>2, <2>4
  <2>. QED BY <2>5, ClippedNat, Zenon DEF ProductRoom
<1>6. VaultRoom(d, u) \in Nat /\ (VaultRoom(d, u) > 0 => d.bank[u] + VaultRoom(d, u) = BankCap[d.vault[u]])
  <2>1. BankCap[d.vault[u]] \in Nat /\ d.bank[u] \in Nat
    BY PurseColumns, VaultNumbers
  <2>. QED BY <2>1, Pairs DEF VaultRoom
<1>7. EnergyCap(d, u) \in Nat
  <2>1. MaxEnergy \in Nat /\ Stamina \in Nat /\ "stamina" \in Skills
    BY AccountsAssumption
  <2>2. d.skill[u] \in [Skills -> Nat]
    BY GrowthColumns
  <2>3. d.skill[u]["stamina"] \in Nat
    BY <2>1, <2>2
  <2>. QED BY <2>1, <2>3, ProductNat DEF EnergyCap
<1>8. HpMax(d, u) \in Nat \ {0}
  <2>1. d.level[u] \in Levels
    BY GrowthColumns
  <2>. QED BY <2>1, LevelNumbers DEF HpMax
<1>. QED BY <1>3, <1>4, <1>5, <1>6, <1>7, <1>8

LEMMA GainedCalm ==
  ASSUME NEW d, Typed(d), NEW u \in Users, NEW r \in Res, NEW n \in Nat
  PROVE  LET e == Gained(d, u, r, n) IN Calm(d, e) /\ Typed(e) /\ Frame(d, e, {"res"})
<1>. DEFINE f == [d.res EXCEPT ![<<u, r>>] = @ + Min({n, ResRoom(d, u, r)})]
<1>1. Min({n, ResRoom(d, u, r)}) \in Nat
  <2>1. ResRoom(d, u, r) \in Nat
    BY RoomNat
  <2>. QED BY <2>1, PairNat, Zenon
<1>2. OfType("res", f)
  <2>1. f \in [Users \X Res -> Nat]
    BY <1>1, StoresColumns
  <2>. QED BY <2>1, StoresColumns
<1>3. Gained(d, u, r, n) = [d EXCEPT !["res"] = f]
  BY DEF Gained
<1>4. "res" \in Columns \ Guarded
  BY ColumnNames DEF Guarded
<1>. HIDE DEF f
<1>5. LET e == [d EXCEPT !["res"] = f] IN Calm(d, e) /\ Typed(e) /\ Frame(d, e, {"res"}) /\ e["res"] = f
  BY <1>2, <1>4, PutCalm
<1>. QED BY <1>3, <1>5

LEMMA RegenCalm ==
  ASSUME NEW d, Typed(d), NEW u \in Users
  PROVE  LET e == Regen(d, u) IN Calm(d, e) /\ Typed(e) /\ Frame(d, e, {"energy"})
<1>. DEFINE f == [d.energy EXCEPT ![u] = Min({@, EnergyCap(d, u)})]
<1>1. Min({d.energy[u], EnergyCap(d, u)}) \in Nat
  <2>1. EnergyCap(d, u) \in Nat /\ d.energy[u] \in Nat
    BY RoomNat, GrowthColumns
  <2>. QED BY <2>1, PairNat, Zenon
<1>2. OfType("energy", f)
  <2>1. f \in [Users -> Nat]
    BY <1>1, GrowthColumns
  <2>. QED BY <2>1, GrowthColumns
<1>3. Regen(d, u) = [d EXCEPT !["energy"] = f]
  BY DEF Regen
<1>4. "energy" \in Columns \ Guarded
  BY ColumnNames DEF Guarded
<1>. HIDE DEF f
<1>5. LET e == [d EXCEPT !["energy"] = f] IN Calm(d, e) /\ Typed(e) /\ Frame(d, e, {"energy"}) /\ e["energy"] = f
  BY <1>2, <1>4, PutCalm
<1>. QED BY <1>3, <1>5

LEMMA ClockCalm ==
  ASSUME NEW d, NEW e, NEW S, Typed(d), Frame(d, e, S), \A t \in S : OfType(t, e[t]),
         S \cap (Guarded \ {"clock"}) = {}, \A u \in Users : e.clock[<<u, "jail">>] = d.clock[<<u, "jail">>]
  PROVE  Calm(d, e) /\ Typed(e)
<1>1. Typed(e)
  BY FrameTyped
<1>2. \A t \in Guarded \ {"clock"} : e[t] = d[t]
  BY ColumnNames DEF Frame, Guarded
<1>3. /\ e.points = d.points /\ e.again = d.again /\ e.skill = d.skill /\ e.level = d.level /\ e.bank = d.bank /\ e.vault = d.vault
      /\ e.hp = d.hp /\ e.fallen = d.fallen /\ e.ship = d.ship /\ e.life = d.life
  BY <1>2 DEF Guarded
<1>. QED BY <1>1, <1>3 DEF Calm, Steady, Whole, Within, Bled, PointsSpent

LEMMA StartCalm ==
  ASSUME NEW d, Typed(d), NEW u \in Users, NEW k \in Timers \ {"jail"}
  PROVE  /\ LET e == Start(d, u, k) IN Calm(d, e) /\ Typed(e) /\ Frame(d, e, {"clock"})
         /\ LET e == Stop(d, u, k) IN Calm(d, e) /\ Typed(e) /\ Frame(d, e, {"clock"})
<1>. SUFFICES ASSUME NEW b \in BOOLEAN
              PROVE  LET e == [d EXCEPT !.clock[<<u, k>>] = b] IN Calm(d, e) /\ Typed(e) /\ Frame(d, e, {"clock"})
  BY DEF Start, Stop
<1>. DEFINE f == [d.clock EXCEPT ![<<u, k>>] = b]
            e == [d EXCEPT !["clock"] = f]
<1>1. f \in [Users \X Timers -> BOOLEAN] /\ \A v \in Users : f[<<v, "jail">>] = d.clock[<<v, "jail">>]
  BY ClocksColumns
<1>2. Frame(d, e, {"clock"}) /\ e.clock = f
  BY ColumnNames DEF Typed, Frame
<1>3. \A t \in {"clock"} : OfType(t, e[t])
  <2>1. OfType("clock", f)
    BY <1>1, ClocksColumns
  <2>. QED BY <1>2, <2>1
<1>4. {"clock"} \cap (Guarded \ {"clock"}) = {}
  OBVIOUS
<1>5. \A v \in Users : e.clock[<<v, "jail">>] = d.clock[<<v, "jail">>]
  BY <1>1, <1>2
<1>. HIDE DEF e
<1>6. Calm(d, e) /\ Typed(e)
  BY <1>2, <1>3, <1>4, <1>5, ClockCalm
<1>. QED BY <1>2, <1>6 DEF e

LEMMA PendingCalm ==
  ASSUME NEW d, Typed(d), NEW u \in Users, NEW ask, NEW value
  PROVE  /\ LET e == SetPending(d, u, ask, value) IN Calm(d, e) /\ Typed(e) /\ Frame(d, e, {"pend", "clock"})
         /\ LET e == NoPending(d, u) IN Calm(d, e) /\ Typed(e) /\ Frame(d, e, {"pend", "clock"})
<1>. SUFFICES ASSUME NEW a, NEW b \in BOOLEAN
              PROVE  LET e == [d EXCEPT !.pend[u] = a, !.clock[<<u, "pending">>] = b]
                     IN  Calm(d, e) /\ Typed(e) /\ Frame(d, e, {"pend", "clock"})
  BY DEF SetPending, NoPending
<1>. DEFINE g == [d.pend EXCEPT ![u] = a]
            f == [d.clock EXCEPT ![<<u, "pending">>] = b]
            e == [d EXCEPT !.pend[u] = a, !.clock[<<u, "pending">>] = b]
<1>1. f \in [Users \X Timers -> BOOLEAN] /\ \A v \in Users : f[<<v, "jail">>] = d.clock[<<v, "jail">>]
  <2>1. <<u, "pending">> \in Users \X Timers
    BY DEF Timers
  <2>. QED BY <2>1, ClocksColumns
<1>2. Frame(d, e, {"pend", "clock"}) /\ e.pend = g /\ e.clock = f
  BY ColumnNames DEF Typed, Frame
<1>3. \A t \in {"pend", "clock"} : OfType(t, e[t])
  <2>1. OfType("clock", f)
    BY <1>1, ClocksColumns
  <2>2. OfType("pend", g)
    <3>1. d.pend = [v \in Users |-> d.pend[v]]
      BY OtherColumns
    <3>2. g = [v \in Users |-> g[v]]
      BY <3>1
    <3>. HIDE DEF g
    <3>. QED BY <3>2, OtherColumns, Zenon
  <2>. QED BY <1>2, <2>1, <2>2
<1>4. {"pend", "clock"} \cap (Guarded \ {"clock"}) = {}
  BY DEF Guarded
<1>5. \A v \in Users : e.clock[<<v, "jail">>] = d.clock[<<v, "jail">>]
  BY <1>1, <1>2
<1>. HIDE DEF e
<1>6. Calm(d, e) /\ Typed(e)
  BY <1>2, <1>3, <1>4, <1>5, ClockCalm
<1>. QED BY <1>2, <1>6 DEF e

LEMMA HealCalm ==
  ASSUME NEW d, Typed(d), NEW u \in Users
  PROVE  LET e == FullHeal(d, u) IN /\ Calm(d, e) /\ Typed(e) /\ Frame(d, e, {"hp"}) /\ e.hp[u] # 0
                                    /\ \A v \in Users \ {u} : e.hp[v] = d.hp[v]
<1>. DEFINE f == [d.hp EXCEPT ![u] = HpMax(d, u)]
            e == FullHeal(d, u)
<1>1. HpMax(d, u) \in Nat \ {0}
  BY RoomNat
<1>2. f \in [Users -> Nat] /\ f[u] # 0 /\ \A v \in Users \ {u} : f[v] = d.hp[v]
  BY <1>1, HealthColumns
<1>3. Frame(d, e, {"hp"}) /\ e.hp = f
  BY ColumnNames DEF Typed, Frame, FullHeal
<1>4. Typed(e)
  <2>1. OfType("hp", f)
    BY <1>2, HealthColumns
  <2>2. \A t \in {"hp"} : OfType(t, e[t])
    BY <1>3, <2>1
  <2>. HIDE DEF e
  <2>. QED BY <1>3, <2>2, FrameTyped
<1>5. /\ e.points = d.points /\ e.again = d.again /\ e.skill = d.skill /\ e.level = d.level /\ e.bank = d.bank /\ e.vault = d.vault
      /\ e.fallen = d.fallen /\ e.ship = d.ship /\ e.life = d.life /\ e.clock = d.clock
  BY <1>3, ColumnNames DEF Frame
<1>6. Calm(d, e)
  <2>1. \A v \in Users : Bled(d, v) => Bled(e, v)
    BY <1>2, <1>3, <1>5 DEF Bled
  <2>. QED BY <1>4, <1>5, <2>1 DEF Calm, Steady, Whole, Within, PointsSpent
<1>. QED BY <1>2, <1>3, <1>4, <1>6

LEMMA FrameChain ==
  ASSUME NEW d, NEW e, NEW f, NEW S, NEW T, Frame(d, e, S), Frame(e, f, T)
  PROVE  Frame(d, f, S \cup T)
BY DEF Frame

XpCols == {"xp", "level", "points", "cash", "energy", "hp"}

\* Each level adds its points to those of the levels before it.
LEMMA ExpectedGrows ==
  /\ ExpectedPoints(1) = 0
  /\ \A l \in Levels : ExpectedPoints(l) \in Nat
  /\ \A l \in Levels : l < MaxLevel =>
       SkillPoints[l + 1] \in Nat /\ ExpectedPoints(l + 1) = ExpectedPoints(l) + SkillPoints[l + 1]
<1>1. SkillPoints \in [2 .. MaxLevel -> Nat] /\ MaxLevel \in Nat \ {0}
  BY AccountsAssumption, LevelNumbers
<1>2. ExpectedPoints(1) = 0
  <2>1. 2 .. 1 = {}
    OBVIOUS
  <2>. QED BY <2>1, SumEmpty DEF ExpectedPoints
<1>3. ASSUME NEW l \in Levels
      PROVE  IsFiniteSet(2 .. l) /\ (\A k \in 2 .. l : SkillPoints[k] \in Nat) /\ ExpectedPoints(l) \in Nat
  <2>1. l \in Nat /\ IsFiniteSet(2 .. l)
    BY <1>1, FS_Interval DEF Levels
  <2>2. \A k \in 2 .. l : SkillPoints[k] \in Nat
    BY <1>1, <2>1 DEF Levels
  <2>. QED BY <2>1, <2>2, SumIsNat DEF ExpectedPoints
<1>4. ASSUME NEW l \in Levels, l < MaxLevel
      PROVE  SkillPoints[l + 1] \in Nat /\ ExpectedPoints(l + 1) = ExpectedPoints(l) + SkillPoints[l + 1]
  <2>1. l \in Nat \ {0} /\ l + 1 \in 2 .. MaxLevel /\ l + 1 \notin 2 .. l /\ 2 .. l + 1 = (2 .. l) \cup {l + 1}
    BY <1>1, <1>4 DEF Levels
  <2>2. SkillPoints[l + 1] \in Nat
    BY <1>1, <2>1
  <2>3. \A k \in (2 .. l) \cup {l + 1} : SkillPoints[k] \in Int
    BY <1>3, <2>2
  <2>4. SumFunctionOnSet(SkillPoints, (2 .. l) \cup {l + 1}) = SkillPoints[l + 1] + SumFunctionOnSet(SkillPoints, 2 .. l)
    BY <1>3, <2>1, <2>3, SumAdd
  <2>5. ExpectedPoints(l + 1) = SumFunctionOnSet(SkillPoints, (2 .. l) \cup {l + 1})
    BY <2>1 DEF ExpectedPoints
  <2>6. ExpectedPoints(l + 1) = SkillPoints[l + 1] + ExpectedPoints(l)
    BY <2>4, <2>5 DEF ExpectedPoints
  <2>. QED BY <1>3, <2>2, <2>6
<1>. QED BY <1>2, <1>3, <1>4

LEMMA SpentNat == ASSUME NEW d, Typed(d), NEW u \in Users PROVE PointsSpent(d, u) \in Nat
<1>1. d.skill[u] \in [Skills -> Nat]
  BY GrowthColumns
<1>0. IsFiniteSet(Skills)
  BY AccountsAssumption
<1>2. \A s \in Skills : d.skill[u][s] \in Nat
  BY <1>1
<1>. QED BY <1>0, <1>2, SumIsNat DEF PointsSpent

LEMMA LevelUpCalm ==
  ASSUME NEW d, Typed(d), NEW u \in Users
  PROVE  LET e == LevelUp(d, u) IN Calm(d, e) /\ Typed(e) /\ Frame(d, e, XpCols)
<1>1. CASE ~(d.level[u] < MaxLevel /\ d.xp[u] >= XpNeed[d.level[u]])
  <2>1. LevelUp(d, u) = d
    BY <1>1, Zenon DEF LevelUp
  <2>2. Frame(d, d, XpCols)
    BY DEF Frame, Typed
  <2>. QED BY <2>1, <2>2, CalmSelf
<1>2. CASE d.level[u] < MaxLevel /\ d.xp[u] >= XpNeed[d.level[u]]
  <2>. DEFINE l  == d.level[u] + 1
              e1 == [d EXCEPT !.level[u] = l, !.xp[u] = @ - XpNeed[d.level[u]],
                              !.points[u] = @ + SkillPoints[l], !.cash[u] = @ + LevelReward * l]
              e2 == [e1 EXCEPT !.energy[u] = EnergyCap(e1, u)]
              e  == FullHeal(e2, u)
  <2>1. LevelUp(d, u) = e
    BY <1>2, Zenon DEF LevelUp
  <2>2. d.level[u] \in Levels /\ l \in Levels /\ l \in Nat /\ XpNeed[d.level[u]] \in Nat /\ d.xp[u] \in Nat
        /\ d.level[u] \in Nat \ {0} /\ HpTable[l] \in Nat \ {0} /\ d.points[u] \in Nat /\ d.cash[u] \in Nat
    BY <1>2, LevelNumbers, GrowthColumns, PurseColumns
  <2>3. /\ SkillPoints[l] \in Nat /\ LevelReward \in Nat
        /\ ExpectedPoints(d.level[u]) \in Nat /\ ExpectedPoints(l) = ExpectedPoints(d.level[u]) + SkillPoints[l]
    BY <1>2, <2>2, ExpectedGrows, AccountsAssumption
  <2>4. LevelReward * l \in Nat
    BY <2>2, <2>3, ProductNat
  <2>. DEFINE lv == [d.level EXCEPT ![u] = l]
              xp == [d.xp EXCEPT ![u] = @ - XpNeed[d.level[u]]]
              pt == [d.points EXCEPT ![u] = @ + SkillPoints[l]]
              ch == [d.cash EXCEPT ![u] = @ + LevelReward * l]
  <2>5. e1.level = lv /\ e1.xp = xp /\ e1.points = pt /\ e1.cash = ch /\ Frame(d, e1, {"level", "xp", "points", "cash"})
    BY ColumnNames DEF Typed, Frame
  <2>6. OfType("level", lv) /\ OfType("xp", xp) /\ OfType("points", pt) /\ OfType("cash", ch)
    <3>1. lv \in [Users -> Levels] /\ xp \in [Users -> Nat] /\ pt \in [Users -> Nat] /\ ch \in [Users -> Nat]
      BY <1>2, <2>2, <2>3, <2>4, GrowthColumns, PurseColumns
    <3>. HIDE DEF lv, xp, pt, ch
    <3>. QED BY <3>1, GrowthColumns, PurseColumns
  <2>7. Typed(e1)
    <3>1. \A t \in {"level", "xp", "points", "cash"} : OfType(t, e1[t])
      BY <2>5, <2>6
    <3>. HIDE DEF e1
    <3>. QED BY <2>5, <3>1, FrameTyped
  <2>. DEFINE en == [e1.energy EXCEPT ![u] = EnergyCap(e1, u)]
              hp == [e2.hp EXCEPT ![u] = HpMax(e2, u)]
  <2>. HIDE DEF e1
  <2>8. EnergyCap(e1, u) \in Nat
    BY <2>7, RoomNat
  <2>9. Frame(e1, e2, {"energy"}) /\ e2.energy = en
    BY <2>7, ColumnNames DEF Typed, Frame
  <2>10. Typed(e2)
    <3>1. en \in [Users -> Nat]
      BY <2>7, <2>8, GrowthColumns
    <3>2. OfType("energy", en)
      BY <3>1, GrowthColumns
    <3>3. \A t \in {"energy"} : OfType(t, e2[t])
      BY <2>9, <3>2
    <3>. HIDE DEF e2, en
    <3>. QED BY <2>7, <2>9, <3>3, FrameTyped
  <2>. HIDE DEF e2
  <2>11. Calm(e2, e) /\ Typed(e) /\ Frame(e2, e, {"hp"}) /\ e.hp[u] # 0 /\ \A v \in Users \ {u} : e.hp[v] = e2.hp[v]
    BY <2>10, HealCalm
  <2>. HIDE DEF e
  <2>12. Frame(d, e, XpCols)
    BY <2>5, <2>9, <2>11 DEF Frame, XpCols
  <2>13. /\ e.level = lv /\ e.points = pt
    BY <2>5, <2>9, <2>11, ColumnNames DEF Frame
  <2>14. /\ e.skill = d.skill /\ e.again = d.again /\ e.bank = d.bank /\ e.vault = d.vault /\ e.fallen = d.fallen /\ e.ship = d.ship
         /\ e.life = d.life /\ e.clock = d.clock
    BY <2>12, ColumnNames DEF Frame, XpCols
  <2>15. \A v \in Users \ {u} : e.hp[v] = d.hp[v]
    BY <2>5, <2>9, <2>11, ColumnNames DEF Frame
  <2>16. ASSUME NEW v \in Users, Whole(d, v) PROVE Whole(e, v)
    <3>1. CASE v # u
      <4>1. e.level[v] = d.level[v] /\ e.points[v] = d.points[v]
        BY <2>13, <3>1, GrowthColumns
      <4>. QED BY <2>14, <2>16, <4>1 DEF Whole, PointsSpent
    <3>2. CASE v = u
      <4>1. e.level[u] = l /\ e.points[u] = d.points[u] + SkillPoints[l] /\ e.again[u] = d.again[u]
        BY <2>13, <2>14, GrowthColumns
      <4>2. PointsSpent(e, u) = PointsSpent(d, u) /\ PointsSpent(d, u) \in Nat
        BY <2>14, SpentNat DEF PointsSpent
      <4>3. d.points[u] + PointsSpent(d, u) = ExpectedPoints(d.level[u]) + d.again[u]
        BY <2>16, <3>2 DEF Whole
      <4>4. d.again[u] \in Nat
        BY GrowthColumns
      <4>. HIDE DEF l
      <4>5. e.points[u] + PointsSpent(e, u) = ExpectedPoints(l) + e.again[u]
        BY <2>2, <2>3, <4>1, <4>2, <4>3, <4>4
      <4>. QED BY <3>2, <4>1, <4>5 DEF Whole
    <3>. QED BY <3>1, <3>2
  <2>17. ASSUME NEW v \in Users, Bled(d, v) PROVE Bled(e, v)
    BY <2>11, <2>14, <2>15, <2>17 DEF Bled
  <2>18. Calm(d, e)
    BY <2>11, <2>14, <2>16, <2>17 DEF Calm, Steady, Within
  <2>. QED BY <2>1, <2>11, <2>12, <2>18
<1>. QED BY <1>1, <1>2

\* g follows the levels of add_xp.
Climbs(g, d, u, m) == g = [l \in 0 .. m |-> IF l = 0 THEN d ELSE LevelUp(g[l - 1], u)]

LEMMA ClimbExists ==
  ASSUME NEW d, NEW u, NEW m \in Nat
  PROVE  \E g : Climbs(g, d, u, m)
<1>. DEFINE Next1(g, l) == IF l = 0 THEN d ELSE LevelUp(g[l - 1], u)
            P(n) == \E g : g = [l \in 0 .. n |-> Next1(g, l)]
            N    == {n \in Nat : P(n)}
<1>1. P(0)
  <2>. DEFINE g == [l \in 0 .. 0 |-> d]
  <2>1. g = [l \in 0 .. 0 |-> Next1(g, l)]
    OBVIOUS
  <2>. QED BY <2>1
<1>2. ASSUME NEW n \in Nat, P(n) PROVE P(n + 1)
  <2>1. PICK g : g = [l \in 0 .. n |-> Next1(g, l)]
    BY <1>2
  <2>. DEFINE h == [l \in 0 .. n + 1 |-> Next1(g, l)]
  <2>2. \A l \in 0 .. n : h[l] = g[l]
    BY <2>1
  <2>3. ASSUME NEW l \in 0 .. n + 1 PROVE Next1(g, l) = Next1(h, l)
    <3>1. l # 0 => l - 1 \in 0 .. n
      OBVIOUS
    <3>. HIDE DEF h
    <3>. QED BY <2>2, <3>1
  <2>4. h = [l \in 0 .. n + 1 |-> Next1(h, l)]
    BY <2>3
  <2>. QED BY <2>4, Zenon
<1>3. m \in N
  <2>1. 0 \in N /\ \A n \in Nat : n \in N => n + 1 \in N
    <3>. HIDE DEF P
    <3>. QED BY <1>1, <1>2
  <2>2. \A n \in Nat : n \in N
    <3>. HIDE DEF N
    <3>. QED BY <2>1, NumberInduction
  <2>. QED BY <2>2
<1>. QED BY <1>3 DEF Climbs

\* add_xp keeps what one level keeps.
LEMMA AddXpCalm ==
  ASSUME NEW d, Typed(d), NEW u \in Users, NEW n \in Nat
  PROVE  LET e == AddXp(d, u, n) IN Calm(d, e) /\ Typed(e) /\ Frame(d, e, XpCols)
<1>. DEFINE x == [d EXCEPT !.xp[u] = @ + n]
            P(g) == Climbs(g, x, u, MaxLevel)
            climb == CHOOSE g : P(g)
            Good(e) == Calm(d, e) /\ Typed(e) /\ Frame(d, e, XpCols)
            N == {l \in Nat : l <= MaxLevel => Good(climb[l])}
<1>1. MaxLevel \in Nat
  BY LevelNumbers
<1>2. \E g : P(g)
  <2>. HIDE DEF x
  <2>. QED BY <1>1, ClimbExists
<1>3. P(climb)
  BY <1>2, Zenon
<1>4. AddXp(d, u, n) = climb[MaxLevel]
  BY DEF AddXp, Climbs
<1>5. Good(x)
  <2>. DEFINE f == [d.xp EXCEPT ![u] = @ + n]
  <2>1. OfType("xp", f)
    <3>1. f \in [Users -> Nat]
      BY GrowthColumns
    <3>. QED BY <3>1, GrowthColumns
  <2>2. x = [d EXCEPT !["xp"] = f]
    OBVIOUS
  <2>3. "xp" \in Columns \ Guarded
    BY ColumnNames DEF Guarded
  <2>. HIDE DEF f, x
  <2>4. LET e == [d EXCEPT !["xp"] = f] IN Calm(d, e) /\ Typed(e) /\ Frame(d, e, {"xp"}) /\ e["xp"] = f
    BY <2>1, <2>3, PutCalm
  <2>. QED BY <2>2, <2>4 DEF Frame, XpCols
<1>. HIDE DEF x, climb
<1>6. 0 \in N
  <2>1. climb[0] = x
    BY <1>1, <1>3 DEF Climbs
  <2>. QED BY <1>5, <2>1, Zenon
<1>7. ASSUME NEW l \in Nat, l \in N PROVE l + 1 \in N
  <2>1. SUFFICES ASSUME l + 1 <= MaxLevel PROVE Good(climb[l + 1])
    BY <1>7
  <2>2. climb[l + 1] = LevelUp(climb[l], u)
    <3>1. l + 1 \in 0 .. MaxLevel /\ l + 1 # 0 /\ (l + 1) - 1 = l
      BY <1>1, <2>1
    <3>2. climb[l + 1] = IF l + 1 = 0 THEN x ELSE LevelUp(climb[(l + 1) - 1], u)
      BY <1>3, <3>1 DEF Climbs
    <3>. QED BY <3>1, <3>2
  <2>. DEFINE c == climb[l]
  <2>3. Good(c)
    BY <1>1, <1>7, <2>1
  <2>. HIDE DEF c
  <2>. DEFINE e == LevelUp(c, u)
  <2>4. Calm(c, e) /\ Typed(e) /\ Frame(c, e, XpCols)
    BY <2>3, LevelUpCalm
  <2>. HIDE DEF e
  <2>5. Good(e)
    <3>1. Calm(d, e)
      BY <2>3, <2>4, CalmChain
    <3>2. Frame(d, e, XpCols)
      BY <2>3, <2>4 DEF Frame
    <3>. QED BY <2>4, <3>1, <3>2
  <2>. QED BY <2>2, <2>5 DEF c, e
<1>8. MaxLevel \in N
  <2>1. \A l \in Nat : l \in N
    <3>. HIDE DEF N
    <3>. QED BY <1>6, <1>7, NumberInduction
  <2>. QED BY <1>1, <2>1
<1>. QED BY <1>1, <1>4, <1>8

\* A point that is spent is in a skill.
LEMMA SpendCalm ==
  ASSUME NEW d, Typed(d), NEW u \in Users, NEW s \in Skills, CanSpendPoint(d, u, s)
  PROVE  LET e == SpendPoint(d, u, s) IN Calm(d, e) /\ Typed(e) /\ Frame(d, e, {"points", "skill"})
<1>. DEFINE e  == SpendPoint(d, u, s)
            pt == [d.points EXCEPT ![u] = @ - 1]
            sk == [d.skill EXCEPT ![u][s] = @ + 1]
<1>1. d.points[u] \in Nat /\ d.points[u] >= 1 /\ d.points \in [Users -> Nat] /\ d.skill \in [Users -> [Skills -> Nat]]
  BY GrowthColumns DEF CanSpendPoint
<1>2. e.points = pt /\ e.skill = sk /\ Frame(d, e, {"points", "skill"})
  BY ColumnNames DEF Typed, Frame, SpendPoint
<1>3. pt \in [Users -> Nat] /\ sk \in [Users -> [Skills -> Nat]]
  <2>1. pt \in [Users -> Nat]
    BY <1>1
  <2>2. d.skill[u] \in [Skills -> Nat]
    BY <1>1
  <2>3. [d.skill[u] EXCEPT ![s] = @ + 1] \in [Skills -> Nat]
    BY <2>2
  <2>. QED BY <1>1, <2>1, <2>3
<1>4. Typed(e)
  <2>1. OfType("points", pt) /\ OfType("skill", sk)
    <3>. HIDE DEF pt, sk
    <3>. QED BY <1>3, GrowthColumns
  <2>2. \A t \in {"points", "skill"} : OfType(t, e[t])
    BY <1>2, <2>1
  <2>. HIDE DEF e
  <2>. QED BY <1>2, <2>2, FrameTyped
<1>5. /\ e.level = d.level /\ e.again = d.again /\ e.bank = d.bank /\ e.vault = d.vault /\ e.hp = d.hp
      /\ e.fallen = d.fallen /\ e.ship = d.ship /\ e.life = d.life /\ e.clock = d.clock
  BY <1>2, ColumnNames DEF Frame
<1>6. ASSUME NEW v \in Users, Whole(d, v) PROVE Whole(e, v)
  <2>1. CASE v # u
    <3>1. pt[v] = d.points[v] /\ sk[v] = d.skill[v]
      BY <1>1, <2>1
    <3>. QED BY <1>2, <1>5, <1>6, <3>1 DEF Whole, PointsSpent
  <2>2. CASE v = u
    <3>1. sk[u] \in [Skills -> Nat] /\ sk[u][s] = d.skill[u][s] + 1 /\ \A r \in Skills \ {s} : sk[u][r] = d.skill[u][r]
      BY <1>1, <1>3
    <3>2. SumFunctionOnSet(sk[u], Skills) = SumFunctionOnSet(d.skill[u], Skills) - d.skill[u][s] + sk[u][s]
      <4>. DEFINE f == d.skill[u]
                  g == sk[u]
      <4>1. f \in [Skills -> Nat] /\ g \in [Skills -> Nat] /\ \A r \in Skills \ {s} : g[r] = f[r]
        BY <1>1, <3>1
      <4>. HIDE DEF f, g
      <4>2. \A r \in Skills : f[r] \in Int /\ g[r] \in Int
        BY <4>1
      <4>3. SumFunctionOnSet(g, Skills) = SumFunctionOnSet(f, Skills) - f[s] + g[s]
        <5>1. IsFiniteSet(Skills) /\ \A r \in Skills \ {s} : g[r] = f[r]
          BY <4>1, AccountsAssumption
        <5>. QED BY <4>2, <5>1, SumChange
      <4>. QED BY <4>3 DEF f, g
    <3>3. PointsSpent(d, u) \in Nat /\ d.skill[u][s] \in Nat
      BY <1>1, SpentNat
    <3>4. PointsSpent(e, u) = PointsSpent(d, u) + 1
      BY <1>2, <3>1, <3>2, <3>3 DEF PointsSpent
    <3>5. e.points[u] = d.points[u] - 1
      BY <1>1, <1>2
    <3>6. e.points[u] + PointsSpent(e, u) = d.points[u] + PointsSpent(d, u)
      <4>1. d.points[u] \in Nat
        BY <1>1
      <4>. HIDE DEF e
      <4>. QED BY <3>3, <3>4, <3>5, <4>1
    <3>. QED BY <1>5, <1>6, <2>2, <3>6 DEF Whole
  <2>. QED BY <2>1, <2>2
<1>7. Calm(d, e)
  BY <1>4, <1>5, <1>6 DEF Calm, Steady, Within, Bled
<1>. QED BY <1>2, <1>4, <1>7

\* A reset gives back all that was spent.
LEMMA ResetCalm ==
  ASSUME NEW d, Typed(d), NEW u \in Users, CanResetSkills(d, u)
  PROVE  LET e == ResetSkills(d, u) IN Calm(d, e) /\ Typed(e) /\ Frame(d, e, {"cash", "points", "skill"})
<1>. DEFINE e  == ResetSkills(d, u)
            ch == [d.cash EXCEPT ![u] = @ - ResetCost]
            pt == [d.points EXCEPT ![u] = @ + PointsSpent(d, u)]
            no == [s \in Skills |-> 0]
            sk == [d.skill EXCEPT ![u] = no]
<1>1. /\ d.points \in [Users -> Nat] /\ d.skill \in [Users -> [Skills -> Nat]] /\ d.cash \in [Users -> Nat]
      /\ ResetCost \in Nat /\ d.cash[u] >= ResetCost /\ PointsSpent(d, u) \in Nat
  BY GrowthColumns, PurseColumns, SpentNat, AccountsAssumption DEF CanResetSkills
<1>2. e.cash = ch /\ e.points = pt /\ e.skill = sk /\ Frame(d, e, {"cash", "points", "skill"})
  BY ColumnNames DEF Typed, Frame, ResetSkills
<1>3. pt \in [Users -> Nat] /\ sk \in [Users -> [Skills -> Nat]] /\ ch \in [Users -> Nat]
  BY <1>1
<1>4. Typed(e)
  <2>1. OfType("points", pt) /\ OfType("skill", sk) /\ OfType("cash", ch)
    <3>. HIDE DEF pt, sk, ch
    <3>. QED BY <1>3, GrowthColumns, PurseColumns
  <2>2. \A t \in {"cash", "points", "skill"} : OfType(t, e[t])
    BY <1>2, <2>1
  <2>. HIDE DEF e
  <2>. QED BY <1>2, <2>2, FrameTyped
<1>5. /\ e.level = d.level /\ e.again = d.again /\ e.bank = d.bank /\ e.vault = d.vault /\ e.hp = d.hp
      /\ e.fallen = d.fallen /\ e.ship = d.ship /\ e.life = d.life /\ e.clock = d.clock
  BY <1>2, ColumnNames DEF Frame
<1>6. ASSUME NEW v \in Users, Whole(d, v) PROVE Whole(e, v)
  <2>1. CASE v # u
    <3>1. pt[v] = d.points[v] /\ sk[v] = d.skill[v]
      BY <1>1, <2>1
    <3>. QED BY <1>2, <1>5, <1>6, <3>1 DEF Whole, PointsSpent
  <2>2. CASE v = u
    <3>1. SumFunctionOnSet(no, Skills) = 0
      BY AccountsAssumption, SumZero
    <3>2. e.skill[u] = no
      BY <1>1, <1>2
    <3>3. PointsSpent(e, u) = 0
      BY <3>1, <3>2 DEF PointsSpent
    <3>4. e.points[u] = d.points[u] + PointsSpent(d, u)
      BY <1>1, <1>2
    <3>5. e.points[u] + PointsSpent(e, u) = d.points[u] + PointsSpent(d, u)
      BY <1>1, <3>3, <3>4
    <3>. QED BY <1>5, <1>6, <2>2, <3>5 DEF Whole
  <2>. QED BY <2>1, <2>2
<1>7. Calm(d, e)
  BY <1>4, <1>5, <1>6 DEF Calm, Steady, Within, Bled
<1>. QED BY <1>2, <1>4, <1>7

-----------------------------------------------------------------------------
(* Quests and first times.                                                 *)

LEMMA SeededCalm ==
  ASSUME NEW d, Typed(d), NEW u \in Users, NEW c \in Crops, NEW n \in Nat
  PROVE  LET e == Seeded(d, u, c, n) IN Calm(d, e) /\ Typed(e) /\ Frame(d, e, {"seed"})
<1>. DEFINE f == [d.seed EXCEPT ![<<u, c>>] = @ + Min({n, SeedRoom(d, u, c)})]
<1>1. Min({n, SeedRoom(d, u, c)}) \in Nat
  <2>1. SeedRoom(d, u, c) \in Nat
    BY RoomNat
  <2>. QED BY <2>1, PairNat, Zenon
<1>2. OfType("seed", f)
  <2>1. f \in [Users \X Crops -> Nat]
    BY <1>1, LandColumns
  <2>. QED BY <2>1, LandColumns
<1>3. Seeded(d, u, c, n) = [d EXCEPT !["seed"] = f]
  BY DEF Seeded
<1>4. "seed" \in Columns \ Guarded
  BY ColumnNames DEF Guarded
<1>. HIDE DEF f
<1>5. LET e == [d EXCEPT !["seed"] = f] IN Calm(d, e) /\ Typed(e) /\ Frame(d, e, {"seed"}) /\ e["seed"] = f
  BY <1>2, <1>4, PutCalm
<1>. QED BY <1>3, <1>5

RewardCols == XpCols \cup {"seed"}
TrackCols  == RewardCols \cup {"quest"}

LEMMA RewardCalm ==
  ASSUME NEW d, Typed(d), NEW u \in Users, NEW r \in [type : {"tp", "xp", "seed"}, amount : Nat, crop : Crops]
  PROVE  LET e == Reward(d, u, r) IN Calm(d, e) /\ Typed(e) /\ Frame(d, e, RewardCols)
<1>1. r.amount \in Nat /\ r.crop \in Crops /\ r.type \in {"tp", "xp", "seed"}
  OBVIOUS
<1>2. CASE r.type = "tp"
  <2>1. Reward(d, u, r) = Pay(d, u, r.amount)
    BY <1>2 DEF Reward
  <2>2. r.amount \in Int /\ d.cash[u] + r.amount \in Nat
    BY <1>1, PurseColumns
  <2>. DEFINE e == Pay(d, u, r.amount)
  <2>3. Calm(d, e) /\ Typed(e) /\ Frame(d, e, {"cash"})
    BY <2>2, PayCalm
  <2>. HIDE DEF e
  <2>4. Frame(d, e, RewardCols)
    BY <2>3 DEF Frame, RewardCols, XpCols
  <2>. QED BY <2>1, <2>3, <2>4 DEF e
<1>3. CASE r.type = "xp"
  <2>1. Reward(d, u, r) = AddXp(d, u, r.amount)
    BY <1>3 DEF Reward
  <2>. DEFINE e == AddXp(d, u, r.amount)
  <2>3. Calm(d, e) /\ Typed(e) /\ Frame(d, e, XpCols)
    BY <1>1, AddXpCalm
  <2>. HIDE DEF e
  <2>4. Frame(d, e, RewardCols)
    BY <2>3 DEF Frame, RewardCols
  <2>. QED BY <2>1, <2>3, <2>4 DEF e
<1>4. CASE r.type = "seed"
  <2>1. Reward(d, u, r) = Seeded(d, u, r.crop, r.amount)
    BY <1>4 DEF Reward
  <2>. DEFINE e == Seeded(d, u, r.crop, r.amount)
  <2>3. Calm(d, e) /\ Typed(e) /\ Frame(d, e, {"seed"})
    BY <1>1, SeededCalm
  <2>. HIDE DEF e
  <2>4. Frame(d, e, RewardCols)
    BY <2>3 DEF Frame, RewardCols
  <2>. QED BY <2>1, <2>3, <2>4 DEF e
<1>. QED BY <1>1, <1>2, <1>3, <1>4

LEMMA DrawnDays == \A day \in QuestDraws : day \in Days
<1>. SUFFICES ASSUME NEW day \in QuestDraws PROVE day \in Days
  OBVIOUS
<1>1. DOMAIN day \subseteq QuestKinds /\ day \in [DOMAIN day -> Quests]
  BY FarmAssumption
<1>. QED BY <1>1 DEF Days

LEMMA QuestedCalm ==
  ASSUME NEW d, Typed(d), NEW u \in Users, NEW draw \in QuestDraws
  PROVE  LET e == Quested(d, u, draw) IN Calm(d, e) /\ Typed(e) /\ Frame(d, e, {"quest"}) /\ e.quest[u] \in Days
<1>. DEFINE f == [d.quest EXCEPT ![u] = draw]
<1>1. draw \in Days /\ d.quest \in [Users -> Days \cup {NULL}]
  BY DrawnDays, MarksColumns
<1>2. OfType("quest", f) /\ f[u] \in Days
  <2>1. f \in [Users -> Days \cup {NULL}] /\ f[u] \in Days
    BY <1>1
  <2>. QED BY <2>1, MarksColumns
<1>3. "quest" \in Columns \ Guarded
  BY ColumnNames DEF Guarded
<1>4. CASE d.quest[u] = NULL
  <2>1. Quested(d, u, draw) = [d EXCEPT !["quest"] = f]
    BY <1>4 DEF Quested
  <2>. HIDE DEF f
  <2>2. LET e == [d EXCEPT !["quest"] = f] IN Calm(d, e) /\ Typed(e) /\ Frame(d, e, {"quest"}) /\ e["quest"] = f
    BY <1>2, <1>3, PutCalm
  <2>. QED BY <1>2, <2>1, <2>2
<1>5. CASE d.quest[u] # NULL
  <2>1. Quested(d, u, draw) = d /\ d.quest[u] \in Days
    BY <1>1, <1>5 DEF Quested
  <2>2. Frame(d, d, {"quest"})
    BY DEF Frame, Typed
  <2>. QED BY <2>1, <2>2, CalmSelf
<1>. QED BY <1>4, <1>5

\* What is left of a quest falls, and the last of it pays.
LEMMA ProgressCalm ==
  ASSUME NEW d, Typed(d), NEW u \in Users, NEW kind, NEW n \in Nat, d.quest[u] \in Days
  PROVE  LET e == Progress(d, u, kind, n) IN Calm(d, e) /\ Typed(e) /\ Frame(d, e, TrackCols)
<1>1. CASE kind \notin DOMAIN d.quest[u] \/ d.quest[u][kind].left = 0
  <2>1. Progress(d, u, kind, n) = d
    BY <1>1, Zenon DEF Progress
  <2>2. Frame(d, d, TrackCols)
    BY DEF Frame, Typed
  <2>. QED BY <2>1, <2>2, CalmSelf
<1>2. CASE ~(kind \notin DOMAIN d.quest[u] \/ d.quest[u][kind].left = 0)
  <2>. DEFINE q    == d.quest[u][kind]
              left == Max({0, q.left - n})
              e    == [d EXCEPT !.quest[u][kind].left = left]
              day  == [d.quest[u] EXCEPT ![kind].left = left]
              f    == [d.quest EXCEPT ![u] = day]
  <2>1. Progress(d, u, kind, n) = IF left = 0 THEN Reward(e, u, q.pays) ELSE e
    BY <1>2, Zenon DEF Progress
  <2>2. PICK ks \in SUBSET QuestKinds : d.quest[u] \in [ks -> Quests]
    BY DEF Days
  <2>3. kind \in ks /\ q \in Quests
    BY <1>2, <2>2
  <2>4. q.left \in Nat /\ q.pays \in [type : {"tp", "xp", "seed"}, amount : Nat, crop : Crops]
    BY <2>3 DEF Quests
  <2>5. left \in Nat
    <3>1. q.left - n \in Int
      BY <2>4
    <3>. QED BY <3>1, ClippedNat, Zenon
  <2>. HIDE DEF left
  <2>6. day \in Days
    <3>1. [q EXCEPT !.left = left] \in Quests
      BY <2>3, <2>5 DEF Quests
    <3>2. day \in [ks -> Quests]
      BY <2>2, <2>3, <3>1
    <3>. QED BY <3>2 DEF Days
  <2>7. e = [d EXCEPT !["quest"] = f]
    OBVIOUS
  <2>8. OfType("quest", f)
    <3>1. d.quest \in [Users -> Days \cup {NULL}]
      BY MarksColumns
    <3>2. f \in [Users -> Days \cup {NULL}]
      BY <2>6, <3>1
    <3>. QED BY <3>2, MarksColumns
  <2>9. "quest" \in Columns \ Guarded
    BY ColumnNames DEF Guarded
  <2>10. Calm(d, e) /\ Typed(e) /\ Frame(d, e, {"quest"})
    <3>. HIDE DEF f, e
    <3>1. LET g == [d EXCEPT !["quest"] = f] IN Calm(d, g) /\ Typed(g) /\ Frame(d, g, {"quest"}) /\ g["quest"] = f
      BY <2>8, <2>9, PutCalm
    <3>. QED BY <2>7, <3>1
  <2>. HIDE DEF e
  <2>11. CASE left = 0
    <3>. DEFINE r == Reward(e, u, q.pays)
    <3>1. Calm(e, r) /\ Typed(r) /\ Frame(e, r, RewardCols)
      BY <2>4, <2>10, RewardCalm
    <3>. HIDE DEF r
    <3>2. Calm(d, r) /\ Frame(d, r, TrackCols)
      BY <2>10, <3>1, CalmChain DEF Frame, TrackCols
    <3>. QED BY <2>1, <2>11, <3>1, <3>2 DEF r
  <2>12. CASE left # 0
    <3>1. Frame(d, e, TrackCols)
      BY <2>10 DEF Frame, TrackCols
    <3>. QED BY <2>1, <2>10, <2>12, <3>1
  <2>. QED BY <2>11, <2>12
<1>. QED BY <1>1, <1>2

LEMMA TrackCalm ==
  ASSUME NEW d, Typed(d), NEW u \in Users, NEW kind, NEW n \in Nat, NEW draw \in QuestDraws
  PROVE  LET e == Track(d, u, kind, n, draw) IN Calm(d, e) /\ Typed(e) /\ Frame(d, e, TrackCols)
<1>. DEFINE c == Quested(d, u, draw)
            e == Progress(c, u, kind, n)
<1>1. Track(d, u, kind, n, draw) = e
  BY DEF Track
<1>2. Calm(d, c) /\ Typed(c) /\ Frame(d, c, {"quest"}) /\ c.quest[u] \in Days
  BY QuestedCalm
<1>. HIDE DEF c
<1>3. Calm(c, e) /\ Typed(e) /\ Frame(c, e, TrackCols)
  BY <1>2, ProgressCalm
<1>. HIDE DEF e
<1>4. Calm(d, e) /\ Frame(d, e, TrackCols)
  BY <1>2, <1>3, CalmChain DEF Frame, TrackCols
<1>. QED BY <1>1, <1>3, <1>4

LEMMA FirstTimeCalm ==
  ASSUME NEW d, Typed(d), NEW u \in Users, NEW k \in FirstTimes
  PROVE  LET e == FirstTime(d, u, k) IN Calm(d, e) /\ Typed(e) /\ Frame(d, e, {"cash", "first", "res"})
<1>1. FirstBonus[k] \in Nat /\ FirstGift \in Nat /\ d.cash \in [Users -> Nat] /\ d.res \in [Users \X Res -> Nat]
      /\ "wood" \in Res /\ "iron" \in Res
  BY PurseColumns, StoresColumns, AccountsAssumption DEF Res
<1>2. CASE k \in d.first[u]
  <2>1. FirstTime(d, u, k) = d
    BY <1>2, Zenon DEF FirstTime
  <2>2. Frame(d, d, {"cash", "first", "res"})
    BY DEF Frame, Typed
  <2>. QED BY <2>1, <2>2, CalmSelf
<1>3. CASE k \notin d.first[u]
  <2>. DEFINE e  == [Pay(d, u, FirstBonus[k]) EXCEPT !.first[u] = @ \cup {k}]
              g  == [e EXCEPT !.res[<<u, "wood">>] = @ + FirstGift, !.res[<<u, "iron">>] = @ + FirstGift]
              ch == [d.cash EXCEPT ![u] = @ + FirstBonus[k]]
              fi == [d.first EXCEPT ![u] = @ \cup {k}]
              rs == [d.res EXCEPT ![<<u, "wood">>] = @ + FirstGift, ![<<u, "iron">>] = @ + FirstGift]
  <2>1. FirstTime(d, u, k) = IF k # "harvest" THEN e ELSE g
    BY <1>3, Zenon DEF FirstTime
  <2>2. OfType("cash", ch) /\ OfType("first", fi) /\ OfType("res", rs)
    <3>1. ch \in [Users -> Nat] /\ rs \in [Users \X Res -> Nat]
      BY <1>1
    <3>2. fi = [v \in Users |-> fi[v]]
      <4>1. d.first = [v \in Users |-> d.first[v]]
        BY OtherColumns
      <4>. QED BY <4>1
    <3>. HIDE DEF ch, fi, rs
    <3>3. OfType("first", fi)
      BY <3>2, OtherColumns, Zenon
    <3>. QED BY <3>1, <3>3, PurseColumns, StoresColumns
  <2>3. Frame(d, e, {"cash", "first"}) /\ e.cash = ch /\ e.first = fi
    BY ColumnNames DEF Pay, Typed, Frame
  <2>4. Frame(d, g, {"cash", "first", "res"}) /\ g.cash = ch /\ g.first = fi /\ g.res = rs
    BY ColumnNames DEF Pay, Typed, Frame
  <2>. HIDE DEF ch, fi, rs, e, g
  <2>5. \A t \in {"cash", "first"} : OfType(t, e[t])
    BY <2>2, <2>3
  <2>6. \A t \in {"cash", "first", "res"} : OfType(t, g[t])
    BY <2>2, <2>4
  <2>7. {"cash", "first", "res"} \cap Guarded = {} /\ {"cash", "first"} \cap Guarded = {}
    BY DEF Guarded
  <2>8. Calm(d, e)
    BY <2>3, <2>5, <2>7, FrameCalm
  <2>9. Calm(d, g)
    BY <2>4, <2>6, <2>7, FrameCalm
  <2>10. Frame(d, e, {"cash", "first", "res"})
    BY <2>3 DEF Frame
  <2>. QED BY <2>1, <2>4, <2>8, <2>9, <2>10 DEF Calm, Steady
<1>. QED BY <1>2, <1>3

-----------------------------------------------------------------------------
(* The handlers of Accounts.                                               *)

\* A handler that would commit what changes none of the properties.
Calmly == \E d : Calm(db, d) /\ Answer(d)

\* The account of u alone changed, in money and vault, and its vault holds.
LEMMA VaultCalm ==
  ASSUME NEW d, Typed(d), NEW e, NEW S, S \subseteq {"cash", "bank", "vault"}, Frame(d, e, S), \A t \in S : OfType(t, e[t]),
         \A v \in Users : Within(d, v) => Within(e, v)
  PROVE  Calm(d, e) /\ Typed(e)
<1>1. Typed(e)
  BY FrameTyped
<1>2. /\ e.level = d.level /\ e.points = d.points /\ e.again = d.again /\ e.skill = d.skill /\ e.hp = d.hp
      /\ e.fallen = d.fallen /\ e.ship = d.ship /\ e.life = d.life /\ e.clock = d.clock
  BY ColumnNames DEF Frame
<1>. QED BY <1>1, <1>2 DEF Calm, Steady, Whole, Bled, PointsSpent

LEMMA DepositedCalm ==
  ASSUME NEW d, Typed(d), NEW u \in Users, NEW n \in Nat, CanDeposit(d, u, n)
  PROVE  Calm(d, Deposited(d, u, n))
<1>. DEFINE e  == Deposited(d, u, n)
            ch == [d.cash EXCEPT ![u] = @ - n]
            bk == [d.bank EXCEPT ![u] = @ + n]
<1>1. d.cash \in [Users -> Nat] /\ d.bank \in [Users -> Nat] /\ d.cash[u] >= n /\ d.bank[u] + n <= BankCap[d.vault[u]]
  BY PurseColumns DEF CanDeposit
<1>2. Frame(d, e, {"cash", "bank"}) /\ e.cash = ch /\ e.bank = bk
  BY ColumnNames DEF Deposited, Typed, Frame
<1>3. OfType("cash", ch) /\ OfType("bank", bk)
  <2>1. ch \in [Users -> Nat] /\ bk \in [Users -> Nat]
    BY <1>1
  <2>. HIDE DEF ch, bk
  <2>. QED BY <2>1, PurseColumns
<1>4. \A t \in {"cash", "bank"} : OfType(t, e[t])
  BY <1>2, <1>3
<1>5. \A v \in Users : Within(d, v) => Within(e, v)
  <2>1. e.vault = d.vault
    BY <1>2, ColumnNames DEF Frame
  <2>. QED BY <1>1, <1>2, <2>1 DEF Within
<1>. HIDE DEF e
<1>. QED BY <1>2, <1>4, <1>5, VaultCalm DEF e

LEMMA WithdrawnCalm ==
  ASSUME NEW d, Typed(d), NEW u \in Users, NEW n \in Nat, CanWithdraw(d, u, n)
  PROVE  Calm(d, Withdrawn(d, u, n))
<1>. DEFINE e  == Withdrawn(d, u, n)
            ch == [d.cash EXCEPT ![u] = @ + n]
            bk == [d.bank EXCEPT ![u] = @ - n]
<1>1. d.cash \in [Users -> Nat] /\ d.bank \in [Users -> Nat] /\ d.bank[u] >= n
      /\ \A v \in Users : BankCap[d.vault[v]] \in Nat
  BY PurseColumns, VaultNumbers DEF CanWithdraw
<1>2. Frame(d, e, {"cash", "bank"}) /\ e.cash = ch /\ e.bank = bk
  BY ColumnNames DEF Withdrawn, Typed, Frame
<1>3. OfType("cash", ch) /\ OfType("bank", bk)
  <2>1. ch \in [Users -> Nat] /\ bk \in [Users -> Nat]
    BY <1>1
  <2>. HIDE DEF ch, bk
  <2>. QED BY <2>1, PurseColumns
<1>4. \A t \in {"cash", "bank"} : OfType(t, e[t])
  BY <1>2, <1>3
<1>5. \A v \in Users : Within(d, v) => Within(e, v)
  <2>1. e.vault = d.vault
    BY <1>2, ColumnNames DEF Frame
  <2>2. \A v \in Users : bk[v] <= d.bank[v]
    BY <1>1
  <2>. QED BY <1>1, <1>2, <1>3, <2>1, <2>2, PurseColumns DEF Within
<1>. HIDE DEF e
<1>. QED BY <1>2, <1>4, <1>5, VaultCalm DEF e

LEMMA TransferStep ==
  ASSUME Typed(db), NEW u \in Users, NEW v \in Users, NEW n \in Amounts, Transfer(u, v, n)
  PROVE  Calmly
<1>. DEFINE e  == [db EXCEPT !.bank[u] = @ - n, !.bank[v] = @ + n]
            bk == [db.bank EXCEPT ![u] = @ - n, ![v] = @ + n]
            d  == Start(e, u, "trf")
<1>1. n \in Nat /\ n > 0 /\ u # v /\ db.bank \in [Users -> Nat] /\ db.bank[u] >= n /\ n <= VaultRoom(db, v) /\ Answer(d)
      /\ \A w \in Users : BankCap[db.vault[w]] \in Nat
  BY PurseColumns, VaultNumbers, TownAssumption DEF Transfer, CanTransfer
<1>2. db.bank[v] + VaultRoom(db, v) = BankCap[db.vault[v]] /\ VaultRoom(db, v) \in Nat
  BY <1>1, RoomNat
<1>3. Frame(db, e, {"bank"}) /\ e.bank = bk
  BY ColumnNames DEF Typed, Frame
<1>4. bk \in [Users -> Nat]
  BY <1>1
<1>5. \A t \in {"bank"} : OfType(t, e[t])
  <2>1. OfType("bank", bk)
    BY <1>4, PurseColumns
  <2>. QED BY <1>3, <2>1
<1>6. \A w \in Users : Within(db, w) => Within(e, w)
  <2>1. e.vault = db.vault
    BY <1>3, ColumnNames DEF Frame
  <2>2. bk[v] = db.bank[v] + n /\ \A w \in Users \ {v} : bk[w] <= db.bank[w]
    BY <1>1
  <2>3. bk[v] <= BankCap[db.vault[v]]
    BY <1>1, <1>2, <2>2
  <2>. QED BY <1>1, <1>3, <1>4, <2>1, <2>2, <2>3 DEF Within
<1>. HIDE DEF e
<1>7. Calm(db, e) /\ Typed(e)
  BY <1>3, <1>5, <1>6, VaultCalm
<1>8. Calm(e, d)
  BY <1>7, StartCalm DEF Timers
<1>. HIDE DEF d
<1>9. Calm(db, d)
  BY <1>7, <1>8, CalmChain
<1>. QED BY <1>1, <1>9 DEF Calmly

LEMMA BankUpgradeStep ==
  ASSUME Typed(db), NEW u \in Users, BankUpgrade(u)
  PROVE  Calmly
<1>. DEFINE l  == db.vault[u]
            e  == [db EXCEPT !.cash[u] = @ - BankPrice[l], !.vault[u] = l + 1]
            ch == [db.cash EXCEPT ![u] = @ - BankPrice[l]]
            vt == [db.vault EXCEPT ![u] = l + 1]
<1>1. l < VaultMax /\ db.cash[u] >= BankPrice[l] /\ Answer(e)
  BY DEF BankUpgrade
<1>2. /\ l \in 1 .. VaultMax /\ VaultMax \in Nat /\ BankPrice[l] \in Nat /\ BankCap[l] <= BankCap[l + 1]
      /\ db.cash \in [Users -> Nat] /\ db.bank \in [Users -> Nat] /\ db.vault \in [Users -> 1 .. VaultMax]
      /\ BankCap[l] \in Nat /\ BankCap[l + 1] \in Nat
  BY <1>1, PurseColumns, VaultNumbers
<1>3. Frame(db, e, {"cash", "vault"}) /\ e.cash = ch /\ e.vault = vt
  BY ColumnNames DEF Typed, Frame
<1>4. ch \in [Users -> Nat] /\ vt \in [Users -> 1 .. VaultMax]
  BY <1>1, <1>2
<1>5. \A t \in {"cash", "vault"} : OfType(t, e[t])
  <2>1. OfType("cash", ch) /\ OfType("vault", vt)
    <3>. HIDE DEF ch, vt
    <3>. QED BY <1>4, PurseColumns
  <2>. QED BY <1>3, <2>1
<1>6. ASSUME NEW w \in Users, Within(db, w) PROVE Within(e, w)
  <2>1. e.bank = db.bank
    BY <1>3, ColumnNames DEF Frame
  <2>2. CASE w = u
    <3>1. vt[w] = l + 1 /\ db.bank[w] <= BankCap[l] /\ db.bank[w] \in Nat
      BY <1>2, <1>6, <2>2 DEF Within
    <3>2. db.bank[w] <= BankCap[l + 1]
      <4>. HIDE DEF l
      <4>. QED BY <1>2, <3>1
    <3>. QED BY <1>3, <2>1, <3>1, <3>2 DEF Within
  <2>3. CASE w # u
    BY <1>2, <1>3, <1>6, <2>1, <2>3 DEF Within
  <2>. QED BY <2>2, <2>3
<1>. HIDE DEF e
<1>7. Calm(db, e)
  BY <1>3, <1>5, <1>6, VaultCalm
<1>. QED BY <1>1, <1>7 DEF Calmly

LEMMA AmountsNat == Amounts \subseteq Nat /\ \A n \in Amounts : n > 0
BY TownAssumption

LEMMA BankStep ==
  ASSUME Typed(db), NEW u \in Users, NEW n \in Nat, NEW half \in BOOLEAN,
         DepositText(u, n) \/ WithdrawText(u, n) \/ BankAmount(u, n) \/ BankQuick(u, half)
  PROVE  Calmly
<1>1. n \in Nat
  OBVIOUS
<1>2. CASE DepositText(u, n)
  BY <1>1, <1>2, DepositedCalm DEF DepositText, Calmly
<1>3. CASE WithdrawText(u, n)
  BY <1>1, <1>3, WithdrawnCalm DEF WithdrawText, Calmly
<1>4. ASSUME NEW d, Typed(d), Calm(db, d), NEW k \in Nat,
             Answer(IF CanDeposit(d, u, k) THEN Deposited(d, u, k) ELSE d)
      PROVE  Calmly
  <2>1. CASE CanDeposit(d, u, k)
    <3>1. Calm(db, Deposited(d, u, k))
      BY <1>4, <2>1, DepositedCalm, CalmChain
    <3>. QED BY <1>4, <2>1, <3>1 DEF Calmly
  <2>2. CASE ~CanDeposit(d, u, k)
    BY <1>4, <2>2 DEF Calmly
  <2>. QED BY <2>1, <2>2
<1>5. ASSUME NEW d, Typed(d), Calm(db, d), NEW k \in Nat,
             Answer(IF CanWithdraw(d, u, k) THEN Withdrawn(d, u, k) ELSE d)
      PROVE  Calmly
  <2>1. CASE CanWithdraw(d, u, k)
    <3>1. Calm(db, Withdrawn(d, u, k))
      BY <1>5, <2>1, WithdrawnCalm, CalmChain
    <3>. QED BY <1>5, <2>1, <3>1 DEF Calmly
  <2>2. CASE ~CanWithdraw(d, u, k)
    BY <1>5, <2>2 DEF Calmly
  <2>. QED BY <2>1, <2>2
<1>6. Typed(NoPending(db, u)) /\ Calm(db, NoPending(db, u))
  BY PendingCalm
<1>7. CASE BankAmount(u, n)
  BY <1>1, <1>4, <1>5, <1>6, <1>7 DEF BankAmount
<1>8. CASE BankQuick(u, half)
  <2>. DEFINE d == IF db.pend[u].ask \in {"bankdep", "bankwd"} THEN NoPending(db, u) ELSE db
              k == Min({d.cash[u], VaultRoom(d, u)})
              m == IF half THEN d.bank[u] \div 2 ELSE d.bank[u]
  <2>1. Typed(d) /\ Calm(db, d)
    BY <1>6, CalmSelf
  <2>. HIDE DEF d
  <2>2. k \in Nat
    <3>1. d.cash[u] \in Nat /\ VaultRoom(d, u) \in Nat
      BY <2>1, PurseColumns, RoomNat
    <3>. QED BY <3>1, PairNat, Zenon
  <2>3. m \in Nat
    <3>1. d.bank[u] \in Nat
      BY <2>1, PurseColumns
    <3>. QED BY <3>1
  <2>4. \/ Answer(IF CanDeposit(d, u, k) THEN Deposited(d, u, k) ELSE d)
        \/ Answer(IF CanWithdraw(d, u, m) THEN Withdrawn(d, u, m) ELSE d)
    BY <1>8 DEF BankQuick, d
  <2>. HIDE DEF k, m
  <2>. QED BY <1>4, <1>5, <2>1, <2>2, <2>3, <2>4
<1>. QED BY <1>2, <1>3, <1>7, <1>8

\* Questions are asked, and answered with what ends them.
LEMMA AskStep ==
  ASSUME Typed(db), NEW u \in Users,
         \/ \E d : Calm(db, d) /\ Typed(d) /\ Answer(NoPending(d, u))
         \/ \E d, ask, value : Calm(db, d) /\ Typed(d) /\ Answer(SetPending(d, u, ask, value))
  PROVE  Calmly
<1>1. CASE \E d : Calm(db, d) /\ Typed(d) /\ Answer(NoPending(d, u))
  <2>1. PICK d : Calm(db, d) /\ Typed(d) /\ Answer(NoPending(d, u))
    BY <1>1
  <2>2. Calm(d, NoPending(d, u))
    BY <2>1, PendingCalm
  <2>. QED BY <2>1, <2>2, CalmChain DEF Calmly
<1>2. CASE \E d, ask, value : Calm(db, d) /\ Typed(d) /\ Answer(SetPending(d, u, ask, value))
  <2>1. PICK d, ask, value : Calm(db, d) /\ Typed(d) /\ Answer(SetPending(d, u, ask, value))
    BY <1>2
  <2>2. Calm(d, SetPending(d, u, ask, value))
    BY <2>1, PendingCalm
  <2>. QED BY <2>1, <2>2, CalmChain DEF Calmly
<1>. QED BY <1>1, <1>2

LEMMA SkillStep ==
  ASSUME Typed(db), NEW u \in Users, NEW s \in Skills, SkillUp(u, s) \/ SkillReset(u) \/ Page(u) \/ QuestPage(u)
  PROVE  Calmly
<1>1. CASE SkillUp(u, s)
  BY <1>1, SpendCalm DEF SkillUp, Calmly
<1>2. CASE SkillReset(u)
  BY <1>2, ResetCalm DEF SkillReset, Calmly
<1>3. CASE Page(u)
  BY <1>3, RegenCalm DEF Page, Calmly
<1>4. CASE QuestPage(u)
  BY <1>4, QuestedCalm DEF QuestPage, Calmly
<1>. QED BY <1>1, <1>2, <1>3, <1>4

\* A handler that tracks a quest after what it does.
LEMMA TrackStep ==
  ASSUME Typed(db), NEW u \in Users, NEW kind, NEW n \in Nat, NEW draw \in QuestDraws,
         \E d : Calm(db, d) /\ Typed(d) /\ Answer(Track(d, u, kind, n, draw))
  PROVE  Calmly
<1>1. PICK d : Calm(db, d) /\ Typed(d) /\ Answer(Track(d, u, kind, n, draw))
  OBVIOUS
<1>2. Calm(d, Track(d, u, kind, n, draw))
  BY <1>1, TrackCalm
<1>. QED BY <1>1, <1>2, CalmChain DEF Calmly

LEMMA DrunkCalm ==
  ASSUME NEW d, Typed(d), NEW u \in Users, NEW k \in Drinks, d.cash[u] >= Drink[k].price
  PROVE  Calm(d, Drunk(d, u, k)) /\ Typed(Drunk(d, u, k))
<1>. DEFINE it == IF Drink[k].energy = NULL THEN EnergyCap(d, u) ELSE Min({EnergyCap(d, u), d.energy[u] + Drink[k].energy})
            e  == [d EXCEPT !.cash[u] = @ - Drink[k].price,
                            !.energy[u] = IF Drink[k].energy = NULL THEN EnergyCap(d, u)
                                          ELSE Min({EnergyCap(d, u), @ + Drink[k].energy})]
            ch == [d.cash EXCEPT ![u] = @ - Drink[k].price]
            en == [d.energy EXCEPT ![u] = it]
<1>1. Drink[k].price \in Nat /\ Drink[k].energy \in Nat \cup {NULL}
  <2>1. Drink[k] \in [price : Nat, energy : Nat \cup {NULL}, boost : BOOLEAN]
    BY AccountsAssumption
  <2>. QED BY <2>1
<1>2. d.cash \in [Users -> Nat] /\ d.energy \in [Users -> Nat] /\ EnergyCap(d, u) \in Nat
  BY PurseColumns, GrowthColumns, RoomNat
<1>3. it \in Nat
  <2>1. CASE Drink[k].energy = NULL
    BY <1>2, <2>1
  <2>2. CASE Drink[k].energy # NULL
    <3>1. d.energy[u] + Drink[k].energy \in Nat
      BY <1>1, <1>2, <2>2
    <3>2. Min({EnergyCap(d, u), d.energy[u] + Drink[k].energy}) \in Nat
      BY <1>2, <3>1, PairNat, Zenon
    <3>. QED BY <2>2, <3>2
  <2>. QED BY <2>1, <2>2
<1>4. OfType("cash", ch) /\ OfType("energy", en)
  <2>. HIDE DEF it
  <2>1. ch \in [Users -> Nat] /\ en \in [Users -> Nat]
    BY <1>1, <1>2, <1>3
  <2>. HIDE DEF ch, en
  <2>. QED BY <2>1, PurseColumns, GrowthColumns
<1>5. Frame(d, e, {"cash", "energy"}) /\ e.cash = ch /\ e.energy = en
  BY ColumnNames DEF Typed, Frame
<1>6. \A t \in {"cash", "energy"} : OfType(t, e[t])
  BY <1>4, <1>5
<1>7. {"cash", "energy"} \cap Guarded = {}
  BY DEF Guarded
<1>8. Drunk(d, u, k) = IF Drink[k].boost THEN Start(e, u, "boost") ELSE e
  BY DEF Drunk
<1>. HIDE DEF e
<1>9. Calm(d, e) /\ Typed(e)
  BY <1>5, <1>6, <1>7, FrameCalm DEF Calm, Steady
<1>10. Calm(d, Start(e, u, "boost")) /\ Typed(Start(e, u, "boost"))
  <2>1. Calm(e, Start(e, u, "boost"))
    BY <1>9, StartCalm DEF Timers
  <2>. QED BY <1>9, <2>1, CalmChain
<1>. QED BY <1>8, <1>9, <1>10

LEMMA BuyDrinkStep ==
  ASSUME Typed(db), NEW u \in Users, NEW k \in Drinks, NEW draw \in QuestDraws, BuyDrink(u, k, draw)
  PROVE  Calmly
<1>. DEFINE d == Regen(db, u)
            e == Drunk(d, u, k)
<1>1. d.cash[u] >= Drink[k].price /\ Answer(Track(e, u, "drink", 1, draw))
  BY DEF BuyDrink
<1>2. Calm(db, d) /\ Typed(d)
  BY RegenCalm
<1>. HIDE DEF d
<1>3. Calm(d, e) /\ Typed(e)
  BY <1>1, <1>2, DrunkCalm
<1>4. Calm(db, e)
  BY <1>2, <1>3, CalmChain
<1>. HIDE DEF e
<1>. QED BY <1>1, <1>3, <1>4, TrackStep

-----------------------------------------------------------------------------
(* The handlers of Works.                                                  *)

LEMMA ChargedCalm ==
  ASSUME NEW d, Typed(d), NEW u \in Users, NEW cash \in Int, d.cash[u] - cash \in Nat, NEW r \in Res,
         NEW n \in Nat, d.res[<<u, r>>] >= n
  PROVE  LET e == Charged(d, u, cash, r, n) IN Calm(d, e) /\ Typed(e) /\ Frame(d, e, {"cash", "res"})
<1>. DEFINE e  == Charged(d, u, cash, r, n)
            ch == [d.cash EXCEPT ![u] = @ - cash]
            rs == [d.res EXCEPT ![<<u, r>>] = @ - n]
<1>1. d.cash \in [Users -> Nat] /\ d.res \in [Users \X Res -> Nat]
  BY PurseColumns, StoresColumns
<1>2. OfType("cash", ch) /\ OfType("res", rs)
  <2>1. ch \in [Users -> Nat] /\ rs \in [Users \X Res -> Nat]
    BY <1>1
  <2>. HIDE DEF ch, rs
  <2>. QED BY <2>1, PurseColumns, StoresColumns
<1>3. Frame(d, e, {"cash", "res"}) /\ e.cash = ch /\ e.res = rs
  BY ColumnNames DEF Typed, Frame, Charged
<1>4. \A t \in {"cash", "res"} : OfType(t, e[t])
  BY <1>2, <1>3
<1>5. {"cash", "res"} \cap Guarded = {}
  BY DEF Guarded
<1>. HIDE DEF e
<1>6. Calm(d, e)
  BY <1>3, <1>4, <1>5, FrameCalm
<1>. QED BY <1>3, <1>6 DEF e, Calm, Steady

LEMMA FoundCalm ==
  ASSUME NEW d, Typed(d), NEW u \in Users, NEW r \in Res, NEW n \in Nat
  PROVE  LET e == Found(d, u, r, n) IN Calm(d, e) /\ Typed(e) /\ Frame(d, e, {"res"})
<1>. DEFINE l == d.tool[<<u, ToolFor[r]>>]
            m == (n * (100 + ToolGain * (l - 1))) \div 100
<1>1. l \in 1 .. ToolMax /\ ToolGain \in Nat /\ ToolMax \in Nat
  <2>1. <<u, ToolFor[r]>> \in Users \X Tools
    BY DEF Res, ToolFor, Tools
  <2>. QED BY <2>1, StoresColumns, WorksAssumption
<1>2. m \in Nat
  <2>. HIDE DEF l
  <2>1. ToolGain * (l - 1) \in Nat
    <3>1. l - 1 \in Nat
      BY <1>1
    <3>. QED BY <1>1, <3>1, ProductNat
  <2>2. n * (100 + ToolGain * (l - 1)) \in Nat
    <3>1. 100 + ToolGain * (l - 1) \in Nat
      BY <2>1
    <3>. QED BY <3>1, ProductNat
  <2>. QED BY <2>2
<1>. HIDE DEF m
<1>3. LET e == Gained(d, u, r, m) IN Calm(d, e) /\ Typed(e) /\ Frame(d, e, {"res"})
  BY <1>2, GainedCalm
<1>. QED BY <1>3 DEF Found, m

LEMMA MineTripStep ==
  ASSUME Typed(db), NEW u \in Users, NEW loot \in Loots, NEW draw \in QuestDraws, MineTrip(u, loot, draw)
  PROVE  Calmly
<1>. DEFINE a == Pay(db, u, loot.cash)
            b == Found(a, u, "wood", loot.wood)
            c == Found(b, u, "iron", loot.iron)
            d == Start(c, u, "mine")
            f == AddXp(d, u, loot.xp)
            e == FirstTime(f, u, "mine")
<1>1. loot.cash \in Nat /\ loot.wood \in Nat /\ loot.iron \in Nat /\ loot.xp \in Nat /\ "wood" \in Res /\ "iron" \in Res
  BY WorksAssumption DEF Res
<1>2. Answer(Track(e, u, "mine", 1, draw))
  BY DEF MineTrip
<1>3. Calm(db, a) /\ Typed(a)
  <2>1. loot.cash \in Int /\ db.cash[u] + loot.cash \in Nat
    BY <1>1, PurseColumns
  <2>. QED BY <2>1, PayCalm
<1>. HIDE DEF a
<1>4. Calm(a, b) /\ Typed(b)
  BY <1>1, <1>3, FoundCalm
<1>. HIDE DEF b
<1>5. Calm(b, c) /\ Typed(c)
  BY <1>1, <1>4, FoundCalm
<1>. HIDE DEF c
<1>6. Calm(c, d) /\ Typed(d)
  BY <1>5, StartCalm DEF Timers
<1>. HIDE DEF d
<1>7. Calm(d, f) /\ Typed(f)
  BY <1>1, <1>6, AddXpCalm
<1>. HIDE DEF f
<1>8. Calm(f, e) /\ Typed(e)
  BY <1>7, FirstTimeCalm DEF FirstTimes
<1>. HIDE DEF e
<1>9. Calm(db, e)
  BY <1>3, <1>4, <1>5, <1>6, <1>7, <1>8, CalmChain
<1>. QED BY <1>2, <1>8, <1>9, TrackStep

LEMMA UpgradeToolStep ==
  ASSUME Typed(db), NEW u \in Users, NEW t \in Tools, UpgradeTool(u, t)
  PROVE  Calmly
<1>. DEFINE l == db.tool[<<u, t>>]
            c == ToolCost[l]
            d == Charged(db, u, c.cash, "iron", c.iron)
            f == [d.tool EXCEPT ![<<u, t>>] = l + 1]
<1>1. l < ToolMax /\ Costs(db, u, c.cash, "iron", c.iron) /\ Answer([d EXCEPT !.tool[<<u, t>>] = l + 1])
  BY DEF UpgradeTool
<1>2. l \in 1 .. ToolMax /\ ToolMax \in Nat /\ ToolCost \in [1 .. ToolMax - 1 -> [cash : Nat, iron : Nat]]
  BY StoresColumns, WorksAssumption
<1>3. c \in [cash : Nat, iron : Nat]
  BY <1>1, <1>2
<1>4. c.cash \in Int /\ c.iron \in Nat /\ db.cash[u] - c.cash \in Nat /\ db.res[<<u, "iron">>] >= c.iron /\ "iron" \in Res
  BY <1>1, <1>3, PurseColumns DEF Costs, Res
<1>. HIDE DEF c
<1>5. Calm(db, d) /\ Typed(d)
  BY <1>4, ChargedCalm
<1>. HIDE DEF d
<1>6. OfType("tool", f)
  <2>1. d.tool \in [Users \X Tools -> 1 .. ToolMax]
    BY <1>5, StoresColumns
  <2>2. f \in [Users \X Tools -> 1 .. ToolMax]
    BY <1>1, <1>2, <2>1
  <2>. QED BY <2>2, StoresColumns
<1>7. "tool" \in Columns \ Guarded
  BY ColumnNames DEF Guarded
<1>. DEFINE e == [d EXCEPT !["tool"] = f]
<1>8. Answer(e)
  BY <1>1
<1>. HIDE DEF f
<1>9. Calm(d, e)
  BY <1>5, <1>6, <1>7, PutCalm
<1>. HIDE DEF e
<1>10. Calm(db, e)
  BY <1>5, <1>9, CalmChain
<1>. QED BY <1>8, <1>10, Zenon DEF Calmly

FacRows == [level : 0 .. FacMax, stock : Nat]

LEMMA FactoryNumbers == FacRate \in Nat /\ FillTicks \in Nat /\ Slow \in 0 .. 100 /\ FacMax \in Nat \ {0, 1}
                        /\ FacCost \in [1 .. FacMax -> [cash : Nat, wood : Nat]] /\ NULL \notin Nat
BY WorksAssumption, AccountsAssumption

LEMMA SettledCalm ==
  ASSUME NEW d, Typed(d), NEW u \in Users
  PROVE  LET e == Settled(d, u) IN Calm(d, e) /\ Typed(e) /\ Frame(d, e, {"shift", "fac"})
<1>. DEFINE sh == [d.shift EXCEPT ![u] = 0]
            fc == [x \in DOMAIN d.fac |-> IF x[1] = u THEN [d.fac[x] EXCEPT !.stock = @ + Made(d, u, x[2])] ELSE d.fac[x]]
            e1 == [d EXCEPT !.shift[u] = 0]
            filled(x) == [d.fac[x] EXCEPT !.stock = @ + Made(d, u, x[2])]
            e2 == [d EXCEPT !.shift[u] = 0, !.fac = [x \in DOMAIN @ |-> IF x[1] = u THEN filled(x) ELSE @[x]]]
<1>1. d.shift \in [Users -> Nat \cup {NULL}] /\ d.fac \in [Users \X Factories -> FacRows]
  BY StoresColumns DEF FacRows
<1>2. OfType("shift", sh)
  <2>1. sh \in [Users -> Nat \cup {NULL}]
    BY <1>1
  <2>. QED BY <2>1, StoresColumns
<1>3. Settled(d, u) = IF d.shift[u] = NULL THEN e1 ELSE e2
  BY Zenon DEF Settled
<1>4. Frame(d, e1, {"shift", "fac"}) /\ e1.shift = sh /\ e1.fac = d.fac
  BY ColumnNames DEF Typed, Frame
<1>5. Frame(d, e2, {"shift", "fac"}) /\ e2.shift = sh /\ e2.fac = fc
  <2>1. e2 = [d EXCEPT !["shift"] = sh, !["fac"] = fc]
    OBVIOUS
  <2>. HIDE DEF sh, fc
  <2>. QED BY <2>1, ColumnNames DEF Typed, Frame
<1>6. {"shift", "fac"} \cap Guarded = {}
  BY DEF Guarded
<1>7. Calm(d, e1)
  <2>1. OfType("fac", d.fac)
    BY ColumnNames DEF Typed
  <2>2. \A t \in {"shift", "fac"} : OfType(t, e1[t])
    BY <1>2, <1>4, <2>1
  <2>. HIDE DEF e1
  <2>. QED BY <1>4, <1>6, <2>2, FrameCalm
<1>8. ASSUME d.shift[u] # NULL PROVE Calm(d, e2)
  <2>1. ASSUME NEW f \in Factories PROVE Made(d, u, f) \in Nat
    <3>. DEFINE l == d.fac[<<u, f>>].level
                s == d.fac[<<u, f>>].stock
                p == IF Running(d, u, "khaye") THEN 100 - Slow ELSE 100
                n == (FacRate * l * d.shift[u] * p) \div 100
                m == FacRate * l * FillTicks - s
    <3>1. d.fac[<<u, f>>] \in FacRows
      BY <1>1
    <3>2. l \in Nat /\ s \in Nat /\ p \in Nat /\ d.shift[u] \in Nat
      BY <1>1, <1>8, <3>1, FactoryNumbers DEF FacRows
    <3>3. n \in Nat
      <4>. HIDE DEF l, p
      <4>1. FacRate * l \in Nat
        BY <3>2, FactoryNumbers, ProductNat
      <4>2. FacRate * l * d.shift[u] \in Nat
        BY <3>2, <4>1, ProductNat
      <4>3. FacRate * l * d.shift[u] * p \in Nat
        BY <3>2, <4>2, ProductNat
      <4>. QED BY <4>3
    <3>4. m \in Int
      <4>. HIDE DEF l, s
      <4>1. FacRate * l \in Nat
        BY <3>2, FactoryNumbers, ProductNat
      <4>2. FacRate * l * FillTicks \in Nat
        BY <4>1, FactoryNumbers, ProductNat
      <4>. QED BY <3>2, <4>2
    <3>5. Made(d, u, f) = Min({n, Max({0, m})})
      BY DEF Made
    <3>. HIDE DEF n, m
    <3>. QED BY <3>3, <3>4, <3>5, ClippedNat, PairNat, Zenon
  <2>2. fc \in [Users \X Factories -> FacRows]
    <3>1. ASSUME NEW x \in Users \X Factories PROVE fc[x] \in FacRows
      <4>1. Made(d, u, x[2]) \in Nat /\ d.fac[x] \in FacRows
        BY <1>1, <2>1
      <4>2. [d.fac[x] EXCEPT !.stock = @ + Made(d, u, x[2])] \in FacRows
        BY <4>1 DEF FacRows
      <4>. QED BY <1>1, <4>1, <4>2
    <3>2. fc = [x \in Users \X Factories |-> fc[x]]
      BY <1>1
    <3>. HIDE DEF fc
    <3>. QED BY <3>1, <3>2
  <2>3. OfType("fac", fc)
    <3>. HIDE DEF fc
    <3>. QED BY <2>2, StoresColumns DEF FacRows
  <2>4. \A t \in {"shift", "fac"} : OfType(t, e2[t])
    <3>. HIDE DEF fc, sh
    <3>. QED BY <1>2, <1>5, <2>3
  <2>. HIDE DEF e2
  <2>. QED BY <1>5, <1>6, <2>4, FrameCalm
<1>. HIDE DEF e1, e2
<1>. QED BY <1>3, <1>4, <1>5, <1>7, <1>8 DEF Calm, Steady

LEMMA FactoryCalm ==
  ASSUME NEW d, Typed(d), NEW u \in Users, NEW f \in Factories, NEW l \in 0 .. FacMax, NEW s \in Nat
  PROVE  /\ Calm(d, [d EXCEPT !.fac[<<u, f>>].level = l])
         /\ Calm(d, [d EXCEPT !.fac[<<u, f>>].stock = s])
<1>. DEFINE fl == [d.fac EXCEPT ![<<u, f>>].level = l]
            fs == [d.fac EXCEPT ![<<u, f>>].stock = s]
<1>1. fl \in [Users \X Factories -> FacRows] /\ fs \in [Users \X Factories -> FacRows]
  <2>1. d.fac \in [Users \X Factories -> FacRows] /\ d.fac[<<u, f>>] \in FacRows
    <3>1. d.fac \in [Users \X Factories -> FacRows]
      BY StoresColumns DEF FacRows
    <3>. QED BY <3>1
  <2>2. [d.fac[<<u, f>>] EXCEPT !.level = l] \in FacRows /\ [d.fac[<<u, f>>] EXCEPT !.stock = s] \in FacRows
    BY <2>1 DEF FacRows
  <2>. HIDE DEF FacRows
  <2>. QED BY <2>1, <2>2
<1>2. [d EXCEPT !.fac[<<u, f>>].level = l] = [d EXCEPT !["fac"] = fl]
      /\ [d EXCEPT !.fac[<<u, f>>].stock = s] = [d EXCEPT !["fac"] = fs]
  OBVIOUS
<1>. HIDE DEF fl, fs
<1>3. OfType("fac", fl) /\ OfType("fac", fs)
  BY <1>1, StoresColumns DEF FacRows
<1>4. "fac" \in Columns \ Guarded
  BY ColumnNames DEF Guarded
<1>5. Calm(d, [d EXCEPT !["fac"] = fl])
  BY <1>3, <1>4, PutCalm
<1>6. Calm(d, [d EXCEPT !["fac"] = fs])
  BY <1>3, <1>4, PutCalm
<1>. QED BY <1>2, <1>5, <1>6

LEMMA CollectStep ==
  ASSUME Typed(db), NEW u \in Users, NEW f \in Factories, Collect(u, f)
  PROVE  Calmly
<1>. DEFINE d     == Settled(db, u)
            moved == Min({d.fac[<<u, f>>].stock, ResRoom(d, u, Makes[f])})
            g     == Gained(d, u, Makes[f], moved)
            e     == [g EXCEPT !.fac[<<u, f>>].stock = @ - moved]
<1>1. Answer(e)
  BY DEF Collect
<1>2. Calm(db, d) /\ Typed(d)
  BY SettledCalm
<1>. HIDE DEF d
<1>3. moved \in Nat /\ moved <= d.fac[<<u, f>>].stock /\ d.fac[<<u, f>>].stock \in Nat /\ Makes[f] \in Res
  <2>1. d.fac[<<u, f>>] \in FacRows
    BY <1>2, StoresColumns DEF FacRows
  <2>2. d.fac[<<u, f>>].stock \in Nat /\ Makes[f] \in Res
    BY <2>1 DEF FacRows, Factories, Makes, Res
  <2>3. ResRoom(d, u, Makes[f]) \in Nat
    BY <1>2, <2>2, RoomNat
  <2>. DEFINE a == d.fac[<<u, f>>].stock
              b == ResRoom(d, u, Makes[f])
  <2>4. a \in Int /\ b \in Int /\ a \in Nat /\ b \in Nat
    BY <2>2, <2>3
  <2>. HIDE DEF a, b
  <2>5. Min({a, b}) \in Nat /\ Min({a, b}) <= a
    <3>1. Min({a, b}) = IF a <= b THEN a ELSE b
      BY <2>4, Pairs
    <3>. QED BY <2>4, <3>1
  <2>. QED BY <2>2, <2>5 DEF a, b
<1>. HIDE DEF moved
<1>4. Calm(d, g) /\ Typed(g) /\ Frame(d, g, {"res"})
  BY <1>2, <1>3, GainedCalm
<1>. HIDE DEF g
<1>5. g.fac[<<u, f>>].stock - moved \in Nat
  <2>1. g.fac = d.fac
    BY <1>4, ColumnNames DEF Frame
  <2>. QED BY <1>3, <2>1
<1>6. Calm(g, e)
  <2>. DEFINE s == g.fac[<<u, f>>].stock - moved
  <2>1. e = [g EXCEPT !.fac[<<u, f>>].stock = s]
    OBVIOUS
  <2>. HIDE DEF s, e
  <2>2. s \in Nat /\ 0 \in 0 .. FacMax
    BY <1>5, FactoryNumbers DEF s
  <2>. QED BY <1>4, <2>1, <2>2, FactoryCalm
<1>. HIDE DEF e
<1>. QED BY <1>1, <1>2, <1>4, <1>6, CalmChain DEF Calmly

LEMMA BuildStep ==
  ASSUME Typed(db), NEW u \in Users, NEW f \in Factories, Build(u, f) \/ UpgradeFactory(u, f)
  PROVE  Calmly
<1>. DEFINE d == Settled(db, u)
            l == d.fac[<<u, f>>].level
<1>1. Calm(db, d) /\ Typed(d)
  BY SettledCalm
<1>2. l \in 0 .. FacMax
  <2>. HIDE DEF d
  <2>1. d.fac[<<u, f>>] \in FacRows
    BY <1>1, StoresColumns DEF FacRows
  <2>. QED BY <2>1 DEF FacRows
<1>3. ASSUME NEW i \in 1 .. FacMax, NEW m \in 0 .. FacMax, Costs(d, u, FacCost[i].cash, "wood", FacCost[i].wood),
             Answer([Charged(d, u, FacCost[i].cash, "wood", FacCost[i].wood) EXCEPT !.fac[<<u, f>>].level = m])
      PROVE  Calmly
  <2>. HIDE DEF d, l
  <2>. DEFINE c == FacCost[i]
              g == Charged(d, u, c.cash, "wood", c.wood)
              e == [g EXCEPT !.fac[<<u, f>>].level = m]
  <2>1. c \in [cash : Nat, wood : Nat]
    BY FactoryNumbers
  <2>2. c.cash \in Int /\ c.wood \in Nat /\ d.cash[u] - c.cash \in Nat /\ d.res[<<u, "wood">>] >= c.wood /\ "wood" \in Res
    BY <1>1, <1>3, <2>1, PurseColumns DEF Costs, Res
  <2>. HIDE DEF c
  <2>3. Calm(d, g) /\ Typed(g)
    BY <1>1, <2>2, ChargedCalm
  <2>. HIDE DEF g
  <2>4. Calm(g, e)
    BY <2>3, FactoryCalm
  <2>5. Answer(e)
    BY <1>3 DEF g, c
  <2>. HIDE DEF e
  <2>. QED BY <1>1, <2>3, <2>4, <2>5, CalmChain DEF Calmly
<1>4. CASE Build(u, f)
  <2>1. /\ Costs(d, u, FacCost[1].cash, "wood", FacCost[1].wood)
        /\ Answer([Charged(d, u, FacCost[1].cash, "wood", FacCost[1].wood) EXCEPT !.fac[<<u, f>>].level = 1])
    BY <1>4 DEF Build
  <2>2. 1 \in 1 .. FacMax /\ 1 \in 0 .. FacMax
    BY FactoryNumbers
  <2>. QED BY <1>3, <2>1, <2>2
<1>5. CASE UpgradeFactory(u, f)
  <2>. DEFINE i == Max({l + 1, 2})
  <2>1. /\ l < FacMax /\ Costs(d, u, FacCost[i].cash, "wood", FacCost[i].wood)
        /\ Answer([Charged(d, u, FacCost[i].cash, "wood", FacCost[i].wood) EXCEPT !.fac[<<u, f>>].level = l + 1])
    BY <1>5, Zenon DEF UpgradeFactory
  <2>2. i \in 1 .. FacMax /\ l + 1 \in 0 .. FacMax
    <3>. HIDE DEF l
    <3>1. l + 1 \in Int /\ FacMax \in Nat \ {0, 1} /\ l < FacMax
      BY <1>2, <2>1, FactoryNumbers
    <3>. QED BY <1>2, <3>1, Pairs
  <2>. HIDE DEF i, l
  <2>. QED BY <1>3, <2>1, <2>2, Zenon
<1>. QED BY <1>4, <1>5

LEMMA ResourceStep ==
  ASSUME Typed(db), NEW u \in Users, NEW r \in Res, NEW n \in Amounts, NEW draw \in QuestDraws, NEW price,
         SellRes(u, r, n, price, draw) \/ BuyRes(u, r, n)
  PROVE  Calmly
<1>1. n \in Nat /\ ResUnit[r] \in Nat /\ db.cash[u] \in Nat
  BY AmountsNat, WorksAssumption, PurseColumns
<1>2. CASE SellRes(u, r, n, price, draw)
  <2>. DEFINE e == Charged(db, u, -(n * price), r, n)
  <2>1. db.res[<<u, r>>] >= n /\ Answer(Track(e, u, "sellres", n, draw))
    BY <1>2 DEF SellRes
  <2>2. -(n * price) \in Int /\ db.cash[u] - (-(n * price)) \in Nat
    <3>1. n * price \in Nat
      <4>1. price \in Nat
        BY <1>2, WorksAssumption DEF SellRes
      <4>. QED BY <1>1, <4>1, ProductNat
    <3>. QED BY <1>1, <3>1
  <2>3. Calm(db, e) /\ Typed(e)
    BY <1>1, <2>1, <2>2, ChargedCalm
  <2>. HIDE DEF e
  <2>. QED BY <1>1, <2>1, <2>3, TrackStep
<1>3. CASE BuyRes(u, r, n)
  <2>. DEFINE d == Pay(db, u, -(n * ResUnit[r]))
              e == Gained(d, u, r, n)
  <2>1. db.cash[u] >= n * ResUnit[r] /\ Answer(e)
    BY <1>3 DEF BuyRes
  <2>2. -(n * ResUnit[r]) \in Int /\ db.cash[u] + (-(n * ResUnit[r])) \in Nat
    <3>1. n * ResUnit[r] \in Nat
      BY <1>1, ProductNat
    <3>. QED BY <1>1, <2>1, <3>1
  <2>3. Calm(db, d) /\ Typed(d)
    BY <2>2, PayCalm
  <2>. HIDE DEF d
  <2>4. Calm(d, e)
    BY <1>1, <2>3, GainedCalm
  <2>. HIDE DEF e
  <2>. QED BY <2>1, <2>3, <2>4, CalmChain DEF Calmly
<1>. QED BY <1>2, <1>3

-----------------------------------------------------------------------------
(* The handlers of Farm.                                                   *)

LEMMA FarmNumbers ==
  /\ MaxPlots \in Nat /\ PlotMax \in Nat \ {0} /\ HomeMax \in Nat /\ LegendCap \in Nat /\ Legendary \subseteq Crops
  /\ \A n \in 1 .. MaxPlots : PlotCost[n].cash \in Nat /\ PlotCost[n].gems \in Nat
  /\ \A l \in 1 .. PlotMax : l < PlotMax => PlotUp[l].cash \in Nat /\ PlotUp[l].wood \in Nat
  /\ \A h \in 1 .. HomeMax : HomeCost[h] \in Nat
  /\ \A c \in Crops : CropPrice[c] \in Nat /\ CropXp[c] \in Nat
  /\ SpeedUps \subseteq Nat /\ Quantities \subseteq Nat \ {0} /\ Worths \subseteq Nat /\ Finds \subseteq Nat
  /\ Thefts \subseteq 0 .. 100 /\ Raided \subseteq 0 .. 100
<1>1. PlotCost \in [1 .. MaxPlots -> [cash : Nat, gems : Nat, level : Nat, slow : BOOLEAN]]
  BY FarmAssumption
<1>2. \A n \in 1 .. MaxPlots : PlotCost[n].cash \in Nat /\ PlotCost[n].gems \in Nat
  <2>1. \A n \in 1 .. MaxPlots : PlotCost[n] \in [cash : Nat, gems : Nat, level : Nat, slow : BOOLEAN]
    BY <1>1
  <2>. QED BY <2>1
<1>3. PlotMax \in Nat \ {0} /\ PlotUp \in [1 .. PlotMax - 1 -> [cash : Nat, wood : Nat, level : Nat]]
  BY FarmAssumption
<1>4. \A l \in 1 .. PlotMax : l < PlotMax => PlotUp[l].cash \in Nat /\ PlotUp[l].wood \in Nat
  <2>1. \A l \in 1 .. PlotMax : l < PlotMax => PlotUp[l] \in [cash : Nat, wood : Nat, level : Nat]
    BY <1>3
  <2>. QED BY <2>1
<1>5. /\ MaxPlots \in Nat /\ HomeMax \in Nat /\ LegendCap \in Nat /\ Legendary \subseteq Crops
      /\ \A h \in 1 .. HomeMax : HomeCost[h] \in Nat
  BY FarmAssumption
<1>6. \A c \in Crops : CropPrice[c] \in Nat /\ CropXp[c] \in Nat
  BY FarmAssumption
<1>7. SpeedUps \subseteq Nat /\ Quantities \subseteq Nat \ {0} /\ Worths \subseteq Nat /\ Finds \subseteq Nat
  BY FarmAssumption
<1>8. Thefts \subseteq 0 .. 100 /\ Raided \subseteq 0 .. 100
  BY FarmAssumption
<1>. QED BY <1>2, <1>3, <1>4, <1>5, <1>6, <1>7, <1>8

\* The rows of a plot and of seeds.
LEMMA PlotCalm ==
  ASSUME NEW d, Typed(d), NEW u \in Users, NEW n \in 1 .. MaxPlots, NEW row \in PlotRows \cup {NULL}
  PROVE  LET e == [d EXCEPT !.plot[<<u, n>>] = row]
         IN  Calm(d, e) /\ Typed(e) /\ Frame(d, e, {"plot"}) /\ e.plot = [d.plot EXCEPT ![<<u, n>>] = row]
<1>. DEFINE f == [d.plot EXCEPT ![<<u, n>>] = row]
<1>1. OfType("plot", f)
  <2>1. f \in [Users \X (1 .. MaxPlots) -> PlotRows \cup {NULL}]
    <3>. HIDE DEF PlotRows
    <3>. QED BY LandColumns
  <2>. HIDE DEF f
  <2>. QED BY <2>1, LandColumns
<1>2. [d EXCEPT !.plot[<<u, n>>] = row] = [d EXCEPT !["plot"] = f]
  OBVIOUS
<1>3. "plot" \in Columns \ Guarded
  BY ColumnNames DEF Guarded
<1>. HIDE DEF f
<1>4. LET e == [d EXCEPT !["plot"] = f] IN Calm(d, e) /\ Typed(e) /\ Frame(d, e, {"plot"}) /\ e["plot"] = f
  BY <1>1, <1>3, PutCalm
<1>. QED BY <1>2, <1>4 DEF f

LEMMA SeedCalm ==
  ASSUME NEW d, Typed(d), NEW u \in Users, NEW c \in Crops, NEW n \in Nat
  PROVE  LET e == [d EXCEPT !.seed[<<u, c>>] = n] IN Calm(d, e) /\ Typed(e) /\ Frame(d, e, {"seed"})
<1>. DEFINE f == [d.seed EXCEPT ![<<u, c>>] = n]
<1>1. OfType("seed", f)
  <2>1. f \in [Users \X Crops -> Nat]
    BY LandColumns
  <2>. HIDE DEF f
  <2>. QED BY <2>1, LandColumns
<1>2. [d EXCEPT !.seed[<<u, c>>] = n] = [d EXCEPT !["seed"] = f]
  OBVIOUS
<1>3. "seed" \in Columns \ Guarded
  BY ColumnNames DEF Guarded
<1>. HIDE DEF f
<1>4. LET e == [d EXCEPT !["seed"] = f] IN Calm(d, e) /\ Typed(e) /\ Frame(d, e, {"seed"}) /\ e["seed"] = f
  BY <1>1, <1>3, PutCalm
<1>. QED BY <1>2, <1>4

LEMMA GemsCalm ==
  ASSUME NEW d, Typed(d), NEW u \in Users, NEW n \in Nat
  PROVE  LET e == [d EXCEPT !.gems[u] = n] IN Calm(d, e) /\ Typed(e) /\ Frame(d, e, {"gems"})
<1>. DEFINE f == [d.gems EXCEPT ![u] = n]
<1>1. OfType("gems", f)
  <2>1. f \in [Users -> Nat]
    BY PurseColumns
  <2>. HIDE DEF f
  <2>. QED BY <2>1, PurseColumns
<1>2. [d EXCEPT !.gems[u] = n] = [d EXCEPT !["gems"] = f]
  OBVIOUS
<1>3. "gems" \in Columns \ Guarded
  BY ColumnNames DEF Guarded
<1>. HIDE DEF f
<1>4. LET e == [d EXCEPT !["gems"] = f] IN Calm(d, e) /\ Typed(e) /\ Frame(d, e, {"gems"}) /\ e["gems"] = f
  BY <1>1, <1>3, PutCalm
<1>. QED BY <1>2, <1>4

LEMMA PlotRow ==
  ASSUME NEW d, Typed(d), NEW u \in Users, NEW n \in 1 .. MaxPlots, d.plot[<<u, n>>] # NULL
  PROVE  LET p == d.plot[<<u, n>>]
         IN  /\ p \in PlotRows /\ p.level \in 1 .. PlotMax /\ (p.state \in {"growing", "ready"} => p.crop \in Crops)
             /\ [p EXCEPT !.state = "empty"] \in PlotRows
             /\ [p EXCEPT !.state = "empty", !.crop = NULL] \in PlotRows
             /\ (p.state # "building" => [p EXCEPT !.state = "empty"] \in PlotRows)
             /\ (p.state = "growing" => [p EXCEPT !.state = "ready"] \in PlotRows)
             /\ \A c \in Crops : [p EXCEPT !.state = "growing", !.crop = c] \in PlotRows
             /\ \A l \in 1 .. PlotMax : [p EXCEPT !.level = l] \in PlotRows
<1>. DEFINE p == d.plot[<<u, n>>]
<1>1. p \in PlotRows
  <2>. HIDE DEF PlotRows
  <2>. QED BY LandColumns
<1>. HIDE DEF p
<1>2. p \in [state : {"building", "empty", "growing", "ready"}, crop : Crops \cup {NULL}, level : 1 .. PlotMax]
      /\ (p.state \in {"growing", "ready"} => p.crop \in Crops)
  BY <1>1 DEF PlotRows
<1>3. /\ [p EXCEPT !.state = "empty"] \in PlotRows
      /\ [p EXCEPT !.state = "empty", !.crop = NULL] \in PlotRows
  BY <1>2 DEF PlotRows
<1>4. (p.state = "growing" => [p EXCEPT !.state = "ready"] \in PlotRows)
  BY <1>2 DEF PlotRows
<1>5. \A c \in Crops : [p EXCEPT !.state = "growing", !.crop = c] \in PlotRows
  BY <1>2 DEF PlotRows
<1>6. \A l \in 1 .. PlotMax : [p EXCEPT !.level = l] \in PlotRows
  BY <1>2 DEF PlotRows
<1>7. p.level \in 1 .. PlotMax
  BY <1>2
<1>. QED BY <1>1, <1>2, <1>3, <1>4, <1>5, <1>6, <1>7 DEF p

LEMMA AddProductCalm ==
  ASSUME NEW d, Typed(d), NEW u \in Users, NEW c \in Crops, NEW n \in Nat, NEW value \in Nat
  PROVE  LET e == AddProduct(d, u, c, n, value) IN Calm(d, e) /\ Typed(e) /\ Frame(d, e, {"good"})
<1>. DEFINE room  == ProductRoom(d, u, c)
            added == Min({n, room})
            g     == d.good[<<u, c>>]
            row   == [qty |-> g.qty + added, value |-> g.value + (value * added) \div n]
            f     == [d.good EXCEPT ![<<u, c>>] = row]
            e     == [d EXCEPT !.good[<<u, c>>] = [qty |-> @.qty + added, value |-> @.value + (value * added) \div n]]
<1>1. room \in Nat /\ g \in [qty : Nat, value : Nat]
  BY RoomNat, LandColumns
<1>2. added \in Nat /\ added <= n
  <2>. HIDE DEF room
  <2>1. n \in Int /\ room \in Int
    BY <1>1
  <2>2. added = IF n <= room THEN n ELSE room
    BY <2>1, Pairs
  <2>. HIDE DEF added
  <2>. QED BY <1>1, <2>2
<1>3. AddProduct(d, u, c, n, value) = IF added = 0 THEN d ELSE e
  BY DEF AddProduct
<1>. HIDE DEF added
<1>4. CASE added = 0
  <2>1. Frame(d, d, {"good"})
    BY DEF Frame, Typed
  <2>. HIDE DEF e
  <2>. QED BY <1>3, <1>4, <2>1, CalmSelf
<1>5. CASE added # 0
  <2>1. row \in [qty : Nat, value : Nat]
    <3>1. value * added \in Nat
      BY <1>2, ProductNat
    <3>2. (value * added) \div n \in Nat
      BY <1>2, <1>5, <3>1
    <3>3. g.qty \in Nat /\ g.value \in Nat
      BY <1>1
    <3>. HIDE DEF g
    <3>. QED BY <1>2, <3>2, <3>3
  <2>2. e = [d EXCEPT !["good"] = f]
    BY Zenon
  <2>3. OfType("good", f)
    <3>1. f \in [Users \X Crops -> [qty : Nat, value : Nat]]
      <4>. HIDE DEF row
      <4>. QED BY <2>1, LandColumns
    <3>. HIDE DEF f
    <3>. QED BY <3>1, LandColumns
  <2>4. "good" \in Columns \ Guarded
    BY ColumnNames DEF Guarded
  <2>. HIDE DEF f, e
  <2>5. LET r == [d EXCEPT !["good"] = f] IN Calm(d, r) /\ Typed(r) /\ Frame(d, r, {"good"}) /\ r["good"] = f
    BY <2>3, <2>4, PutCalm
  <2>. QED BY <1>3, <1>5, <2>2, <2>5
<1>. QED BY <1>4, <1>5

LEMMA ReapCalm ==
  ASSUME NEW d, Typed(d), NEW u \in Users, NEW n \in 1 .. MaxPlots, d.plot[<<u, n>>] # NULL, d.plot[<<u, n>>].state = "ready",
         NEW q \in Nat \ {0}, NEW w \in Nat
  PROVE  LET e == Reap(d, u, n, q, w)
         IN  /\ Calm(d, e) /\ Typed(e) /\ Frame(d, e, {"good", "plot"})
             /\ \A m \in (1 .. MaxPlots) \ {n} : e.plot[<<u, m>>] = d.plot[<<u, m>>]
<1>. DEFINE c == d.plot[<<u, n>>].crop
            e == AddProduct(d, u, c, Qty(c, q), Worth(c, Qty(c, q), w))
            f == [e EXCEPT !.plot[<<u, n>>] = [@ EXCEPT !.state = "empty", !.crop = NULL]]
<1>1. c \in Crops
  BY PlotRow
<1>2. Qty(c, q) \in Nat /\ Worth(c, Qty(c, q), w) \in Nat
  <2>1. Qty(c, q) \in Nat
    BY DEF Qty
  <2>2. w * Qty(c, q) \in Nat
    BY <2>1, ProductNat
  <2>3. Min({w, LegendCap}) \in Nat
    BY FarmNumbers, PairNat, Zenon
  <2>. QED BY <2>1, <2>2, <2>3 DEF Worth
<1>3. Reap(d, u, n, q, w) = IF ProductRoom(d, u, c) = 0 THEN d ELSE f
  BY Zenon DEF Reap
<1>4. Frame(d, d, {"good", "plot"})
  BY DEF Frame, Typed
<1>5. Calm(d, e) /\ Typed(e) /\ Frame(d, e, {"good"})
  BY <1>1, <1>2, AddProductCalm
<1>. HIDE DEF e
<1>6. e.plot = d.plot
  BY <1>5, ColumnNames DEF Frame
<1>. DEFINE row == [e.plot[<<u, n>>] EXCEPT !.state = "empty", !.crop = NULL]
            h   == [e EXCEPT !.plot[<<u, n>>] = row]
<1>7. row \in PlotRows
  BY <1>5, <1>6, PlotRow
<1>8. f = h
  BY Zenon
<1>. HIDE DEF row, f
<1>9. Calm(e, h) /\ Typed(h) /\ Frame(e, h, {"plot"}) /\ h.plot = [e.plot EXCEPT ![<<u, n>>] = row]
  BY <1>5, <1>7, PlotCalm
<1>. HIDE DEF h
<1>10. Calm(d, h) /\ Frame(d, h, {"good", "plot"})
  BY <1>5, <1>9, CalmChain DEF Frame
<1>11. \A m \in (1 .. MaxPlots) \ {n} : h.plot[<<u, m>>] = d.plot[<<u, m>>]
  <2>1. d.plot \in [Users \X (1 .. MaxPlots) -> PlotRows \cup {NULL}]
    BY LandColumns
  <2>. QED BY <1>6, <1>9, <2>1
<1>12. CASE ProductRoom(d, u, c) = 0
  BY <1>3, <1>4, <1>12, CalmSelf
<1>13. CASE ProductRoom(d, u, c) # 0
  BY <1>3, <1>8, <1>9, <1>10, <1>11, <1>13
<1>. QED BY <1>12, <1>13

\* g follows the plots of harvest_all.
Reaps(g, u, q, w, m) ==
  g = [n \in 0 .. m |->
        IF n = 0 THEN db ELSE IF n \in Ready(u) THEN Reap(g[n - 1], u, n, q[n], w) ELSE g[n - 1]]

LEMMA ReapsExist ==
  ASSUME NEW u, NEW q, NEW w, NEW m \in Nat
  PROVE  \E g : Reaps(g, u, q, w, m)
<1>. DEFINE One(g, l) == IF l = 0 THEN db ELSE IF l \in Ready(u) THEN Reap(g[l - 1], u, l, q[l], w) ELSE g[l - 1]
            P(n) == \E g : g = [l \in 0 .. n |-> One(g, l)]
            N    == {n \in Nat : P(n)}
<1>1. P(0)
  <2>. DEFINE g == [l \in 0 .. 0 |-> db]
  <2>1. g = [l \in 0 .. 0 |-> One(g, l)]
    OBVIOUS
  <2>. QED BY <2>1
<1>2. ASSUME NEW n \in Nat, P(n) PROVE P(n + 1)
  <2>1. PICK g : g = [l \in 0 .. n |-> One(g, l)]
    BY <1>2
  <2>. DEFINE h == [l \in 0 .. n + 1 |-> One(g, l)]
  <2>2. \A l \in 0 .. n : h[l] = g[l]
    BY <2>1
  <2>3. ASSUME NEW l \in 0 .. n + 1 PROVE One(g, l) = One(h, l)
    <3>1. l # 0 => l - 1 \in 0 .. n
      OBVIOUS
    <3>. HIDE DEF h
    <3>. QED BY <2>2, <3>1
  <2>4. h = [l \in 0 .. n + 1 |-> One(h, l)]
    BY <2>3
  <2>. QED BY <2>4, Zenon
<1>3. m \in N
  <2>1. 0 \in N /\ \A n \in Nat : n \in N => n + 1 \in N
    <3>. HIDE DEF P
    <3>. QED BY <1>1, <1>2
  <2>2. \A n \in Nat : n \in N
    <3>. HIDE DEF N
    <3>. QED BY <2>1, NumberInduction
  <2>. QED BY <2>2
<1>. QED BY <1>3 DEF Reaps

\* A harvest leaves the plots that are not ready alone.
LEMMA ReapedCalm ==
  ASSUME Typed(db), NEW u \in Users, NEW q \in [1 .. MaxPlots -> Quantities], NEW w \in Worths
  PROVE  LET e == Reaped(db, u, q, w) IN Calm(db, e) /\ Typed(e) /\ Frame(db, e, {"good", "plot"})
<1>. DEFINE P(g) == Reaps(g, u, q, w, MaxPlots)
            upto == CHOOSE g : P(g)
            Good(e, l) == /\ Calm(db, e) /\ Typed(e) /\ Frame(db, e, {"good", "plot"})
                          /\ \A m \in 1 .. MaxPlots : m > l => e.plot[<<u, m>>] = db.plot[<<u, m>>]
            N == {l \in Nat : l <= MaxPlots => Good(upto[l], l)}
<1>1. MaxPlots \in Nat
  BY FarmNumbers
<1>2. \E g : P(g)
  BY <1>1, ReapsExist
<1>3. P(upto)
  BY <1>2, Zenon
<1>4. Reaped(db, u, q, w) = upto[MaxPlots]
  BY DEF Reaped, Reaps
<1>. HIDE DEF upto
<1>5. 0 \in N
  <2>1. upto[0] = db
    BY <1>1, <1>3 DEF Reaps
  <2>2. Frame(db, db, {"good", "plot"})
    BY DEF Frame, Typed
  <2>. QED BY <2>1, <2>2, CalmSelf
<1>6. ASSUME NEW l \in Nat, l \in N PROVE l + 1 \in N
  <2>1. SUFFICES ASSUME l + 1 <= MaxPlots PROVE Good(upto[l + 1], l + 1)
    BY <1>6
  <2>. DEFINE c == upto[l]
              n == l + 1
  <2>2. upto[n] = IF n \in Ready(u) THEN Reap(c, u, n, q[n], w) ELSE c
    <3>1. l + 1 \in 0 .. MaxPlots /\ l + 1 # 0 /\ (l + 1) - 1 = l
      BY <1>1, <2>1
    <3>2. upto[l + 1] = IF l + 1 = 0 THEN db
                        ELSE IF l + 1 \in Ready(u) THEN Reap(upto[(l + 1) - 1], u, l + 1, q[l + 1], w) ELSE upto[(l + 1) - 1]
      BY <1>3, <3>1 DEF Reaps
    <3>. QED BY <3>1, <3>2
  <2>3. Good(c, l) /\ n \in 1 .. MaxPlots /\ n > l
    BY <1>1, <1>6, <2>1
  <2>4. \A m \in 1 .. MaxPlots : m > n => m > l /\ m # n
    BY <2>3
  <2>. HIDE DEF c, n
  <2>5. CASE n \in Ready(u)
    <3>. DEFINE e == Reap(c, u, n, q[n], w)
    <3>1. c.plot[<<u, n>>] # NULL /\ c.plot[<<u, n>>].state = "ready"
      BY <2>3, <2>5 DEF Ready, Plots
    <3>2. q[n] \in Nat \ {0} /\ w \in Nat
      BY <2>3, FarmNumbers
    <3>3. /\ Calm(c, e) /\ Typed(e) /\ Frame(c, e, {"good", "plot"})
          /\ \A m \in (1 .. MaxPlots) \ {n} : e.plot[<<u, m>>] = c.plot[<<u, m>>]
      BY <2>3, <3>1, <3>2, ReapCalm
    <3>. HIDE DEF e
    <3>4. Calm(db, e)
      BY <2>3, <3>3, CalmChain
    <3>5. Frame(db, e, {"good", "plot"})
      BY <2>3, <3>3 DEF Frame
    <3>6. Good(e, n)
      BY <2>3, <2>4, <3>3, <3>4, <3>5
    <3>. QED BY <2>2, <2>5, <3>6 DEF e, n
  <2>6. CASE n \notin Ready(u)
    <3>1. Good(c, n)
      BY <2>3, <2>4
    <3>. QED BY <2>2, <2>6, <3>1 DEF n
  <2>. QED BY <2>5, <2>6
<1>7. MaxPlots \in N
  <2>1. \A l \in Nat : l \in N
    <3>. HIDE DEF N
    <3>. QED BY <1>5, <1>6, NumberInduction
  <2>. QED BY <1>1, <2>1
<1>. QED BY <1>1, <1>4, <1>7

LEMMA HarvestStep ==
  ASSUME Typed(db), NEW u \in Users, NEW q \in [1 .. MaxPlots -> Quantities], NEW w \in Worths, NEW draw \in QuestDraws,
         Harvest(u, q, w, draw)
  PROVE  Calmly
<1>. DEFINE reaped == Reaped(db, u, q, w)
            done   == {n \in Ready(u) : reaped.plot[<<u, n>>].state = "empty"}
            worth  == [n \in done |-> CropXp[db.plot[<<u, n>>].crop]]
            xp     == SumFunctionOnSet(worth, done)
            a      == Start(reaped, u, "harvest")
            d      == AddXp(a, u, xp)
            t      == Track(d, u, "harvest", Cardinality(done), draw)
            e      == FirstTime(t, u, "harvest")
<1>1. Answer(e)
  BY DEF Harvest
<1>2. Calm(db, reaped) /\ Typed(reaped)
  BY ReapedCalm
<1>. HIDE DEF reaped
<1>3. IsFiniteSet(done) /\ Cardinality(done) \in Nat /\ \A n \in done : CropXp[db.plot[<<u, n>>].crop] \in Nat
  <2>1. IsFiniteSet(1 .. MaxPlots) /\ done \subseteq 1 .. MaxPlots
    BY FarmNumbers, FS_Interval DEF Ready, Plots
  <2>2. IsFiniteSet(done)
    BY <2>1, FS_Subset
  <2>3. ASSUME NEW n \in done PROVE CropXp[db.plot[<<u, n>>].crop] \in Nat
    <3>1. n \in 1 .. MaxPlots /\ db.plot[<<u, n>>] # NULL /\ db.plot[<<u, n>>].state = "ready"
      BY DEF Ready, Plots
    <3>2. db.plot[<<u, n>>].crop \in Crops
      BY <3>1, PlotRow
    <3>. QED BY <3>2, FarmNumbers
  <2>. QED BY <2>2, <2>3, FS_CardinalityType
<1>. HIDE DEF done
<1>4. xp \in Nat
  <2>1. \A n \in done : worth[n] \in Nat
    BY <1>3
  <2>. HIDE DEF worth
  <2>. QED BY <1>3, <2>1, SumIsNat
<1>. HIDE DEF xp
<1>5. Calm(reaped, a) /\ Typed(a)
  BY <1>2, StartCalm DEF Timers
<1>. HIDE DEF a
<1>6. Calm(a, d) /\ Typed(d)
  BY <1>4, <1>5, AddXpCalm
<1>. HIDE DEF d
<1>7. Calm(d, t) /\ Typed(t)
  BY <1>3, <1>6, TrackCalm
<1>. HIDE DEF t
<1>8. Calm(t, e)
  BY <1>7, FirstTimeCalm DEF FirstTimes
<1>. HIDE DEF e
<1>. QED BY <1>1, <1>2, <1>5, <1>6, <1>7, <1>8, CalmChain DEF Calmly

LEMMA BuyPlotStep ==
  ASSUME Typed(db), NEW u \in Users, BuyPlot(u)
  PROVE  Calmly
<1>. DEFINE n   == Cardinality(Plots(u)) + 1
            c   == PlotCost[n]
            row == NewPlot(IF c.slow THEN "building" ELSE "empty")
            d   == [db EXCEPT !.cash[u] = @ - c.cash, !.gems[u] = @ - c.gems, !.plot[<<u, n>>] = row]
            e   == FirstTime(d, u, "plot")
            ch  == [db.cash EXCEPT ![u] = @ - c.cash]
            gm  == [db.gems EXCEPT ![u] = @ - c.gems]
            pl  == [db.plot EXCEPT ![<<u, n>>] = row]
<1>1. n <= MaxPlots /\ db.gems[u] >= c.gems /\ db.cash[u] >= c.cash /\ Answer(e)
  BY DEF BuyPlot
<1>2. n \in 1 .. MaxPlots
  <2>1. IsFiniteSet(1 .. MaxPlots) /\ Plots(u) \subseteq 1 .. MaxPlots
    BY FarmNumbers, FS_Interval DEF Plots
  <2>2. Cardinality(Plots(u)) \in Nat
    BY <2>1, FS_Subset, FS_CardinalityType
  <2>. QED BY <1>1, <2>2, FarmNumbers
<1>. HIDE DEF n
<1>3. c.cash \in Nat /\ c.gems \in Nat
  BY <1>2, FarmNumbers
<1>4. row \in PlotRows
  BY FarmNumbers DEF NewPlot, PlotRows
<1>. HIDE DEF c, row
<1>5. Frame(db, d, {"cash", "gems", "plot"}) /\ d.cash = ch /\ d.gems = gm /\ d.plot = pl
  BY ColumnNames DEF Typed, Frame
<1>6. OfType("cash", ch) /\ OfType("gems", gm) /\ OfType("plot", pl)
  <2>1. ch \in [Users -> Nat] /\ gm \in [Users -> Nat]
    BY <1>1, <1>3, PurseColumns
  <2>2. pl \in [Users \X (1 .. MaxPlots) -> PlotRows \cup {NULL}]
    <3>. HIDE DEF PlotRows
    <3>. QED BY <1>2, <1>4, LandColumns
  <2>. HIDE DEF ch, gm, pl
  <2>. QED BY <2>1, <2>2, PurseColumns, LandColumns
<1>7. \A t \in {"cash", "gems", "plot"} : OfType(t, d[t])
  BY <1>5, <1>6
<1>8. {"cash", "gems", "plot"} \cap Guarded = {}
  BY DEF Guarded
<1>. HIDE DEF d
<1>9. Calm(db, d) /\ Typed(d)
  BY <1>5, <1>7, <1>8, FrameCalm DEF Calm, Steady
<1>10. Calm(d, e)
  BY <1>9, FirstTimeCalm DEF FirstTimes
<1>. HIDE DEF e
<1>. QED BY <1>1, <1>9, <1>10, CalmChain DEF Calmly

LEMMA SpeedUpStep ==
  ASSUME Typed(db), NEW u \in Users, NEW n \in 1 .. MaxPlots, NEW gems \in SpeedUps, NEW all \in BOOLEAN, SpeedUp(u, n, gems, all)
  PROVE  Calmly
<1>. DEFINE p   == db.plot[<<u, n>>]
            m   == db.gems[u] - gems
            row == [p EXCEPT !.state = IF all THEN "empty" ELSE @]
            d   == [db EXCEPT !.gems[u] = m]
            e   == [d EXCEPT !.plot[<<u, n>>] = row]
<1>1. p # NULL /\ db.gems[u] >= gems /\ Answer([db EXCEPT !.gems[u] = @ - gems, !.plot[<<u, n>>].state = IF all THEN "empty" ELSE @])
  BY DEF SpeedUp, Plots
<1>2. row \in PlotRows
  <2>1. p \in PlotRows /\ [p EXCEPT !.state = "empty"] \in PlotRows
    BY <1>1, PlotRow
  <2>2. [p EXCEPT !.state = p.state] = p
    <3>. HIDE DEF p
    <3>. QED BY <2>1 DEF PlotRows
  <2>. QED BY <2>1, <2>2
<1>3. m \in Nat
  BY <1>1, PurseColumns, FarmNumbers
<1>4. [db EXCEPT !.gems[u] = @ - gems, !.plot[<<u, n>>].state = IF all THEN "empty" ELSE @] = e
  BY ColumnNames DEF Typed
<1>. HIDE DEF m, row
<1>5. Calm(db, d) /\ Typed(d)
  BY <1>3, GemsCalm
<1>. HIDE DEF d
<1>6. Calm(d, e)
  BY <1>2, <1>5, PlotCalm
<1>. HIDE DEF e
<1>. QED BY <1>1, <1>4, <1>5, <1>6, CalmChain DEF Calmly

LEMMA PlantStep ==
  ASSUME Typed(db), NEW u \in Users, NEW n \in 1 .. MaxPlots, NEW c \in Crops, NEW draw \in QuestDraws, Plant(u, n, c, draw)
  PROVE  Calmly
<1>. DEFINE p   == db.plot[<<u, n>>]
            m   == db.seed[<<u, c>>] - 1
            row == [p EXCEPT !.state = "growing", !.crop = c]
            d   == [db EXCEPT !.seed[<<u, c>>] = m]
            e   == [d EXCEPT !.plot[<<u, n>>] = row]
            x   == [db EXCEPT !.seed[<<u, c>>] = @ - 1, !.plot[<<u, n>>] = [@ EXCEPT !.state = "growing", !.crop = c]]
            t   == Track(e, u, "plant", 1, draw)
            f   == FirstTime(t, u, "plant")
<1>1. p # NULL /\ db.seed[<<u, c>>] > 0 /\ Answer(FirstTime(Track(x, u, "plant", 1, draw), u, "plant"))
  BY DEF Plant, Plots
<1>2. row \in PlotRows
  BY <1>1, PlotRow
<1>3. m \in Nat
  BY <1>1, LandColumns
<1>4. x = e
  BY ColumnNames DEF Typed
<1>. HIDE DEF m, row, x
<1>5. Calm(db, d) /\ Typed(d)
  BY <1>3, SeedCalm
<1>. HIDE DEF d
<1>6. Calm(d, e) /\ Typed(e)
  BY <1>2, <1>5, PlotCalm
<1>. HIDE DEF e
<1>7. Calm(e, t) /\ Typed(t)
  BY <1>6, TrackCalm
<1>8. Answer(f)
  BY <1>1, <1>4
<1>. HIDE DEF t
<1>9. Calm(t, f)
  BY <1>7, FirstTimeCalm DEF FirstTimes
<1>. HIDE DEF f
<1>. QED BY <1>5, <1>6, <1>7, <1>8, <1>9, CalmChain DEF Calmly

LEMMA UpgradePlotStep ==
  ASSUME Typed(db), NEW u \in Users, NEW n \in 1 .. MaxPlots, UpgradePlot(u, n)
  PROVE  Calmly
<1>. DEFINE p   == db.plot[<<u, n>>]
            l   == p.level
            c   == PlotUp[l]
            d   == Charged(db, u, c.cash, "wood", c.wood)
            row == [d.plot[<<u, n>>] EXCEPT !.level = l + 1]
            e   == [d EXCEPT !.plot[<<u, n>>] = row]
<1>1. /\ p # NULL /\ l < PlotMax /\ Costs(db, u, c.cash, "wood", c.wood)
      /\ Answer([d EXCEPT !.plot[<<u, n>>].level = @ + 1])
  BY Zenon DEF UpgradePlot, Plots
<1>2. l \in 1 .. PlotMax
  BY <1>1, PlotRow, Zenon
<1>3. l + 1 \in 1 .. PlotMax
  <2>. HIDE DEF l
  <2>. QED BY <1>1, <1>2, FarmNumbers
<1>4. c.cash \in Int /\ c.wood \in Nat /\ db.cash[u] - c.cash \in Nat /\ db.res[<<u, "wood">>] >= c.wood /\ "wood" \in Res
  <2>1. c.cash \in Nat /\ c.wood \in Nat
    <3>. HIDE DEF l
    <3>. QED BY <1>1, <1>2, FarmNumbers
  <2>. HIDE DEF c
  <2>. QED BY <1>1, <2>1, PurseColumns DEF Costs, Res
<1>. HIDE DEF c
<1>5. Calm(db, d) /\ Typed(d) /\ Frame(db, d, {"cash", "res"})
  BY <1>4, ChargedCalm
<1>. HIDE DEF d
<1>6. d.plot = db.plot
  BY <1>5, ColumnNames DEF Frame
<1>7. row \in PlotRows
  BY <1>1, <1>3, <1>5, <1>6, PlotRow
<1>8. [d EXCEPT !.plot[<<u, n>>].level = @ + 1] = e
  BY <1>6
<1>. HIDE DEF row
<1>9. Calm(d, e)
  BY <1>5, <1>7, PlotCalm
<1>10. Answer(e)
  BY <1>1, <1>8
<1>. HIDE DEF e
<1>11. Calm(db, e)
  BY <1>5, <1>9, CalmChain
<1>. QED BY <1>10, <1>11, Zenon DEF Calmly

LEMMA BuySeedStep ==
  ASSUME Typed(db), NEW u \in Users, NEW c \in Crops, NEW n \in Amounts, BuySeed(u, c, n)
  PROVE  Calmly
<1>. DEFINE p == n * CropPrice[c]
            d == Pay(db, u, -p)
            m == db.seed[<<u, c>>] + n
            e == [d EXCEPT !.seed[<<u, c>>] = m]
            x == [db EXCEPT !.cash[u] = @ - n * CropPrice[c], !.seed[<<u, c>>] = @ + n]
<1>1. db.cash[u] >= p /\ Answer(x)
  BY DEF BuySeed
<1>2. p \in Nat /\ n \in Nat
  BY AmountsNat, FarmNumbers, ProductNat
<1>3. m \in Nat
  BY <1>2, LandColumns
<1>4. db.cash[u] \in Nat /\ db.cash[u] - p = db.cash[u] + (-p)
  <2>. HIDE DEF p
  <2>. QED BY <1>2, PurseColumns
<1>5. x = e
  <2>1. d = [db EXCEPT !.cash[u] = db.cash[u] - n * CropPrice[c]]
    BY <1>4 DEF Pay
  <2>. QED BY <2>1, ColumnNames DEF Typed
<1>. HIDE DEF p, m, x
<1>6. Calm(db, d) /\ Typed(d)
  <2>1. -p \in Int /\ db.cash[u] + (-p) \in Nat
    BY <1>1, <1>2, <1>4
  <2>. QED BY <2>1, PayCalm
<1>. HIDE DEF d
<1>7. Calm(d, e)
  BY <1>3, <1>6, SeedCalm
<1>. HIDE DEF e
<1>. QED BY <1>1, <1>5, <1>6, <1>7, CalmChain DEF Calmly

LEMMA SearchStep ==
  ASSUME Typed(db), NEW u \in Users, NEW draw \in QuestDraws, Search(u, draw)
  PROVE  Calmly
<1>. DEFINE a == Regen(db, u)
            d == Start(a, u, "search")
<1>1. \E e : /\ Answer(Track(e, u, "search", 1, draw))
             /\ \/ \E n \in Finds : e = Pay(d, u, n)
                \/ \E p \in Thefts : e = [d EXCEPT !.cash[u] = @ - (@ * p) \div 100]
                \/ \E c \in Crops : e = Seeded(d, u, c, 1)
  BY DEF Search
<1>2. Calm(db, a) /\ Typed(a)
  BY RegenCalm
<1>. HIDE DEF a
<1>3. Calm(a, d) /\ Typed(d)
  BY <1>2, StartCalm DEF Timers
<1>. HIDE DEF d
<1>4. PICK e : /\ Answer(Track(e, u, "search", 1, draw))
               /\ \/ \E n \in Finds : e = Pay(d, u, n)
                  \/ \E p \in Thefts : e = [d EXCEPT !.cash[u] = @ - (@ * p) \div 100]
                  \/ \E c \in Crops : e = Seeded(d, u, c, 1)
  BY <1>1
<1>5. d.cash[u] \in Nat
  BY <1>3, PurseColumns
<1>6. Calm(d, e) /\ Typed(e)
  <2>1. ASSUME NEW n \in Finds, e = Pay(d, u, n) PROVE Calm(d, e) /\ Typed(e)
    <3>1. n \in Int /\ d.cash[u] + n \in Nat
      BY <1>5, FarmNumbers
    <3>. QED BY <1>3, <2>1, <3>1, PayCalm
  <2>2. ASSUME NEW p \in Thefts, e = [d EXCEPT !.cash[u] = @ - (@ * p) \div 100] PROVE Calm(d, e) /\ Typed(e)
    <3>. DEFINE m == (d.cash[u] * p) \div 100
    <3>1. m \in 0 .. d.cash[u]
      BY <1>5, FarmNumbers, PercentPart
    <3>2. e = [d EXCEPT !.cash[u] = @ - m]
      BY <2>2
    <3>. HIDE DEF m
    <3>3. -m \in Int /\ d.cash[u] + (-m) \in Nat /\ d.cash[u] - m = d.cash[u] + (-m)
      BY <1>5, <3>1
    <3>4. e = Pay(d, u, -m)
      BY <3>2, <3>3 DEF Pay
    <3>. QED BY <1>3, <3>3, <3>4, PayCalm
  <2>3. ASSUME NEW c \in Crops, e = Seeded(d, u, c, 1) PROVE Calm(d, e) /\ Typed(e)
    BY <1>3, <2>3, SeededCalm
  <2>. QED BY <1>4, <2>1, <2>2, <2>3
<1>7. Calm(db, e)
  BY <1>2, <1>3, <1>6, CalmChain
<1>. QED BY <1>4, <1>6, <1>7, TrackStep

LEMMA UpgradeHomeStep ==
  ASSUME Typed(db), NEW u \in Users, UpgradeHome(u)
  PROVE  Calmly
<1>. DEFINE h  == db.home[u] + 1
            e  == [db EXCEPT !.cash[u] = @ - HomeCost[h], !.home[u] = h]
            ch == [db.cash EXCEPT ![u] = @ - HomeCost[h]]
            hm == [db.home EXCEPT ![u] = h]
<1>1. h <= HomeMax /\ db.cash[u] >= HomeCost[h] /\ Answer(e)
  BY DEF UpgradeHome
<1>2. h \in 1 .. HomeMax /\ h \in 0 .. HomeMax
  BY <1>1, StoresColumns, FarmNumbers
<1>. HIDE DEF h
<1>3. Frame(db, e, {"cash", "home"}) /\ e.cash = ch /\ e.home = hm
  BY ColumnNames DEF Typed, Frame
<1>4. OfType("cash", ch) /\ OfType("home", hm)
  <2>1. ch \in [Users -> Nat] /\ hm \in [Users -> 0 .. HomeMax]
    BY <1>1, <1>2, PurseColumns, StoresColumns, FarmNumbers
  <2>. HIDE DEF ch, hm
  <2>. QED BY <2>1, PurseColumns, StoresColumns
<1>5. \A t \in {"cash", "home"} : OfType(t, e[t])
  BY <1>3, <1>4
<1>6. {"cash", "home"} \cap Guarded = {}
  BY DEF Guarded
<1>. HIDE DEF e
<1>7. Calm(db, e)
  BY <1>3, <1>5, <1>6, FrameCalm
<1>. QED BY <1>1, <1>7 DEF Calmly

-----------------------------------------------------------------------------
(* The handlers of Roads.                                                  *)

LEMMA Share == \A v, n, q \in Nat : n < q => (v * n) \div q \in 0 .. v
<1>. SUFFICES ASSUME NEW v \in Nat, NEW n \in Nat, NEW q \in Nat, n < q PROVE (v * n) \div q \in 0 .. v
  OBVIOUS
<1>. DEFINE m == v * n
            k == m \div q
<1>1. m \in Nat /\ q > 0
  OBVIOUS
<1>2. m <= v * q
  OBVIOUS
<1>. HIDE DEF m
<1>3. k \in Nat /\ q * k <= m
  BY <1>1
<1>. HIDE DEF k
<1>4. k <= v
  <2>1. SUFFICES ASSUME k >= v + 1 PROVE FALSE
    BY <1>3
  <2>2. q * k >= q * (v + 1)
    BY <1>3, <2>1
  <2>3. q * (v + 1) = v * q + q
    OBVIOUS
  <2>4. v * q \in Nat /\ q * k \in Nat
    BY <1>3
  <2>. QED BY <1>1, <1>2, <1>3, <2>2, <2>3, <2>4
<1>. QED BY <1>3, <1>4 DEF m, k

LEMMA TakingPart ==
  ASSUME NEW d, Typed(d), NEW u \in Users, NEW c \in Crops, NEW n \in Nat
  PROVE  d.good[<<u, c>>].value \in Nat /\ d.good[<<u, c>>].qty \in Nat /\ Taking(d, u, c, n) \in 0 .. d.good[<<u, c>>].value
<1>. DEFINE g == d.good[<<u, c>>]
            v == g.value
            q == g.qty
<1>1. g \in [qty : Nat, value : Nat]
  BY LandColumns
<1>2. v \in Nat /\ q \in Nat
  BY <1>1
<1>3. Taking(d, u, c, n) = IF n >= q THEN v ELSE (v * n) \div q
  BY DEF Taking
<1>. HIDE DEF v, q
<1>4. n < q => (v * n) \div q \in 0 .. v
  BY <1>2, Share
<1>5. Taking(d, u, c, n) \in 0 .. v
  <2>1. CASE n >= q
    BY <1>2, <1>3, <2>1
  <2>2. CASE ~(n >= q)
    BY <1>2, <1>3, <1>4, <2>2
  <2>. QED BY <2>1, <2>2
<1>. QED BY <1>2, <1>5 DEF v, q

LEMMA TookCalm ==
  ASSUME NEW d, Typed(d), NEW u \in Users, NEW c \in Crops, NEW n \in Nat, CanTake(d, u, c, n)
  PROVE  LET e == Took(d, u, c, n) IN Calm(d, e) /\ Typed(e) /\ Frame(d, e, {"good"})
<1>. DEFINE g   == d.good[<<u, c>>]
            k   == Taking(d, u, c, n)
            row == [qty |-> g.qty - n, value |-> g.value - k]
            f   == [d.good EXCEPT ![<<u, c>>] = row]
            e   == Took(d, u, c, n)
<1>1. g.value \in Nat /\ g.qty \in Nat /\ k \in 0 .. g.value /\ g.qty >= n
  BY TakingPart DEF CanTake
<1>2. e = [d EXCEPT !["good"] = f]
  BY DEF Took
<1>. HIDE DEF k, e
<1>3. row \in [qty : Nat, value : Nat]
  BY <1>1
<1>. HIDE DEF row
<1>4. OfType("good", f)
  <2>1. f \in [Users \X Crops -> [qty : Nat, value : Nat]]
    BY <1>3, LandColumns
  <2>. HIDE DEF f
  <2>. QED BY <2>1, LandColumns
<1>5. "good" \in Columns \ Guarded
  BY ColumnNames DEF Guarded
<1>. HIDE DEF f
<1>6. LET r == [d EXCEPT !["good"] = f] IN Calm(d, r) /\ Typed(r) /\ Frame(d, r, {"good"}) /\ r["good"] = f
  BY <1>4, <1>5, PutCalm
<1>. QED BY <1>2, <1>6 DEF e

LEMMA CheapNat == ASSUME NEW d, NEW u, NEW n \in Nat PROVE Cheap(d, u, n) \in Nat
<1>1. 100 - Malus \in Nat
  BY RoadsAssumption
<1>2. n * (100 - Malus) \in Nat
  BY <1>1, ProductNat
<1>3. Rounded(n * (100 - Malus), 100) \in Nat
  BY <1>2, RoundedNat
<1>. QED BY <1>3 DEF Cheap

Worlds == [caravan : Caravans \cup {NULL}, stays : BOOLEAN, rested : BOOLEAN]

LEMMA WorldCalm ==
  ASSUME NEW d, Typed(d), NEW w \in Worlds
  PROVE  LET e == [d EXCEPT !.world = w] IN Calm(d, e) /\ Typed(e) /\ Frame(d, e, {"world"}) /\ e.world = w
<1>1. OfType("world", w)
  BY ShippingColumns DEF Worlds
<1>2. "world" \in Columns \ Guarded
  BY ColumnNames DEF Guarded
<1>3. LET e == [d EXCEPT !["world"] = w] IN Calm(d, e) /\ Typed(e) /\ Frame(d, e, {"world"}) /\ e["world"] = w
  BY <1>1, <1>2, PutCalm
<1>. QED BY <1>3

LEMMA LookedCalm ==
  ASSUME NEW d, Typed(d)
  PROVE  LET e == Looked(d) IN Calm(d, e) /\ Typed(e) /\ Frame(d, e, {"world"})
<1>. DEFINE w == [d.world EXCEPT !.caravan = NULL]
            e == [d EXCEPT !.world = w]
<1>1. Looked(d) = d \/ Looked(d) = e
  BY DEF Looked
<1>2. w \in Worlds
  <2>1. d.world \in Worlds
    BY ShippingColumns DEF Worlds
  <2>. QED BY <2>1 DEF Worlds
<1>. HIDE DEF w
<1>3. Calm(d, e) /\ Typed(e) /\ Frame(d, e, {"world"})
  BY <1>2, WorldCalm
<1>4. Frame(d, d, {"world"})
  BY DEF Frame, Typed
<1>. HIDE DEF e
<1>. QED BY <1>1, <1>3, <1>4, CalmSelf

LEMMA SpawnedCalm ==
  ASSUME NEW d, Typed(d), NEW c \in Crops, NEW b \in Bonuses
  PROVE  LET e == Spawned(d, c, b) IN Calm(d, e) /\ Typed(e) /\ Frame(d, e, {"world"})
<1>. DEFINE w == [d.world EXCEPT !.caravan = [crop |-> c, bonus |-> b], !.stays = TRUE, !.rested = FALSE]
<1>1. w \in Worlds
  <2>1. d.world \in Worlds
    BY ShippingColumns DEF Worlds
  <2>. QED BY <2>1 DEF Worlds, Caravans
<1>2. Spawned(d, c, b) = [d EXCEPT !.world = w]
  BY ColumnNames DEF Spawned, Typed
<1>. HIDE DEF w
<1>. QED BY <1>1, <1>2, WorldCalm

LEMMA SellToCaravanStep ==
  ASSUME Typed(db), NEW u \in Users, NEW n \in Amounts, SellToCaravan(u, n)
  PROVE  Calmly
<1>. DEFINE d == Looked(db)
            v == d.world.caravan
            k == Taking(d, u, v.crop, n)
            t == Took(d, u, v.crop, n)
            r == Rounded(k * (100 + v.bonus), 100)
            p == Cheap(d, u, r)
            e == Pay(t, u, p)
<1>1. v # NULL /\ CanTake(d, u, v.crop, n) /\ Answer(e)
  BY DEF SellToCaravan
<1>2. Calm(db, d) /\ Typed(d)
  BY LookedCalm
<1>. HIDE DEF d
<1>3. v.crop \in Crops /\ v.bonus \in Nat
  <2>1. d.world \in Worlds
    BY <1>2, ShippingColumns DEF Worlds
  <2>2. v \in Caravans
    BY <1>1, <2>1 DEF Worlds
  <2>. QED BY <2>2, RoadsAssumption DEF Caravans
<1>4. n \in Nat
  BY AmountsNat
<1>5. k \in Nat
  <2>1. d.good[<<u, v.crop>>].value \in Nat /\ Taking(d, u, v.crop, n) \in 0 .. d.good[<<u, v.crop>>].value
    BY <1>2, <1>3, <1>4, TakingPart
  <2>. HIDE DEF v
  <2>. QED BY <2>1
<1>6. Calm(d, t) /\ Typed(t)
  BY <1>1, <1>2, <1>3, <1>4, TookCalm
<1>. HIDE DEF k, t, v
<1>7. r \in Nat
  <2>1. 100 + v.bonus \in Nat
    BY <1>3
  <2>2. k * (100 + v.bonus) \in Nat
    BY <1>5, <2>1, ProductNat
  <2>. QED BY <2>2, RoundedNat
<1>. HIDE DEF r
<1>8. p \in Nat
  BY <1>7, CheapNat
<1>. HIDE DEF p
<1>9. Calm(t, e)
  <2>1. p \in Int /\ t.cash[u] + p \in Nat
    BY <1>6, <1>8, PurseColumns
  <2>. QED BY <1>6, <2>1, PayCalm
<1>. HIDE DEF e
<1>. QED BY <1>1, <1>2, <1>6, <1>9, CalmChain DEF Calmly

LEMMA AdminCaravanStep ==
  ASSUME Typed(db), NEW c \in Crops, NEW b \in Bonuses, AdminCaravan(c, b)
  PROVE  Calmly
<1>. DEFINE d == Looked(db)
            e == Spawned(d, c, b)
<1>1. Answer(e)
  BY DEF AdminCaravan
<1>2. Calm(db, d) /\ Typed(d)
  BY LookedCalm
<1>. HIDE DEF d
<1>3. Calm(d, e)
  BY <1>2, SpawnedCalm
<1>. QED BY <1>1, <1>2, <1>3, CalmChain DEF Calmly

LEMMA PageStep ==
  ASSUME Typed(db), NEW u \in Users, CompanyPage(u)
  PROVE  Calmly
BY SettledCalm DEF CompanyPage, Calmly

LEMMA QuestionStep ==
  ASSUME Typed(db), NEW u \in Users, NEW n, NEW v, NEW c, NEW r, NEW ask, NEW k,
         \/ BankAsk(u, ask) \/ TransferTo(u, v) \/ TransferAmount(u, n) \/ AskRes(u, ask, r) \/ ResAmount(u, n)
         \/ AskSeed(u, c) \/ SeedAmount(u) \/ AskShip(u, c) \/ ShipQty(u, n) \/ HoldDog(u, k) \/ NameDog(u)
         \/ AskCaravan(u) \/ CaravanQty(u, n)
  PROVE  Calmly
<1>1. Calm(db, db)
  BY CalmSelf
<1>2. CASE BankAsk(u, ask) \/ TransferTo(u, v) \/ TransferAmount(u, n)
  BY <1>1, <1>2, AskStep DEF BankAsk, TransferTo, TransferAmount
<1>3. CASE AskRes(u, ask, r) \/ ResAmount(u, n) \/ AskSeed(u, c) \/ SeedAmount(u)
  BY <1>1, <1>3, AskStep DEF AskRes, ResAmount, AskSeed, SeedAmount
<1>4. CASE AskShip(u, c) \/ ShipQty(u, n) \/ HoldDog(u, k) \/ NameDog(u)
  BY <1>1, <1>4, AskStep DEF AskShip, ShipQty, HoldDog, NameDog
<1>5. CASE AskCaravan(u) \/ CaravanQty(u, n)
  <2>1. Calm(db, Looked(db)) /\ Typed(Looked(db))
    BY LookedCalm
  <2>. QED BY <1>5, <2>1, AskStep DEF AskCaravan, CaravanQty
<1>. QED BY <1>2, <1>3, <1>4, <1>5, Zenon

-----------------------------------------------------------------------------
(* Gear and dogs.                                                          *)

Things == Weapons \cup Armors \cup Artifacts

LEMMA GearNumbers ==
  /\ GearMax \in Nat \ {0} /\ AmmoCap \in Nat /\ AmmoPrice \in Nat \ {0} /\ Guns \subseteq Weapons
  /\ \A k \in DOMAIN Goods : k \in Things /\ Goods[k].cash \in Nat /\ Goods[k].iron \in Nat /\ Goods[k].parts \in Nat
  /\ \A l \in 1 .. GearMax : l < GearMax => GearUp[l].cash \in Nat /\ GearUp[l].iron \in Nat
  /\ \A k \in Dogs : DogGoods[k].cash \in Nat
  /\ \A food \in DOMAIN Foods : Foods[food].cash \in Nat
  /\ \A l \in 1 .. GearMax : Full(l) \in Nat
<1>1. GearMax \in Nat \ {0} /\ AmmoCap \in Nat /\ AmmoPrice \in Nat /\ AmmoPrice > 0 /\ Guns \subseteq Weapons
  BY GearAssumption
<1>2. ASSUME NEW k \in DOMAIN Goods
      PROVE  k \in Things /\ Goods[k].cash \in Nat /\ Goods[k].iron \in Nat /\ Goods[k].parts \in Nat
  <2>1. k \in Things /\ Goods[k] \in [cash : Nat, iron : Nat, parts : Nat, level : Nat]
    BY GearAssumption DEF Things
  <2>. QED BY <2>1
<1>3. ASSUME NEW l \in 1 .. GearMax, l < GearMax PROVE GearUp[l].cash \in Nat /\ GearUp[l].iron \in Nat
  <2>1. GearUp \in [1 .. GearMax - 1 -> [cash : Nat, iron : Nat, level : Nat]]
    BY GearAssumption
  <2>2. l \in 1 .. GearMax - 1
    BY <1>1, <1>3
  <2>3. GearUp[l] \in [cash : Nat, iron : Nat, level : Nat]
    BY <2>1, <2>2
  <2>. QED BY <2>3
<1>4. ASSUME NEW k \in Dogs PROVE DogGoods[k].cash \in Nat
  <2>1. DogGoods \in [Dogs -> [level : Nat, cash : Nat]]
    BY GearAssumption
  <2>2. DogGoods[k] \in [level : Nat, cash : Nat]
    BY <2>1
  <2>. QED BY <2>2
<1>5. ASSUME NEW food \in DOMAIN Foods PROVE Foods[food].cash \in Nat
  <2>1. Foods[food] \in [xp : Nat, cash : Nat]
    BY GearAssumption
  <2>. QED BY <2>1
<1>6. ASSUME NEW l \in 1 .. GearMax PROVE Full(l) \in Nat
  BY <1>1, ProductNat DEF Full
<1>. QED BY <1>1, <1>2, <1>3, <1>4, <1>5, <1>6

LEMMA ItemCalm ==
  ASSUME NEW d, Typed(d), NEW u \in Users, NEW k \in Things, NEW row \in ItemRows(k) \cup {NULL}
  PROVE  LET e == [d EXCEPT !.item[<<u, k>>] = row] IN Calm(d, e) /\ Typed(e) /\ Frame(d, e, {"item"})
<1>. DEFINE f == [d.item EXCEPT ![<<u, k>>] = row]
            X == Users \X Things
<1>1. OfType("item", f)
  <2>1. d.item = [x \in X |-> d.item[x]] /\ \A x \in X : d.item[x] \in ItemRows(x[2]) \cup {NULL}
    BY ArmsColumns DEF Things
  <2>2. f = [x \in X |-> f[x]]
    BY <2>1
  <2>3. ASSUME NEW x \in X PROVE f[x] \in ItemRows(x[2]) \cup {NULL}
    <3>1. CASE x = <<u, k>>
      <4>1. x[2] = k /\ f[x] = row
        BY <2>1, <3>1
      <4>. QED BY <4>1
    <3>2. CASE x # <<u, k>>
      <4>1. f[x] = d.item[x]
        BY <2>1, <3>2
      <4>. QED BY <2>1, <4>1
    <3>. QED BY <3>1, <3>2
  <2>. HIDE DEF f
  <2>. QED BY <2>2, <2>3, ArmsColumns DEF Things
<1>2. [d EXCEPT !.item[<<u, k>>] = row] = [d EXCEPT !["item"] = f]
  OBVIOUS
<1>3. "item" \in Columns \ Guarded
  BY ColumnNames DEF Guarded
<1>. HIDE DEF f
<1>4. LET e == [d EXCEPT !["item"] = f] IN Calm(d, e) /\ Typed(e) /\ Frame(d, e, {"item"}) /\ e["item"] = f
  BY <1>1, <1>3, PutCalm
<1>. QED BY <1>2, <1>4

\* A thing that is owned: its level, its bullets.
LEMMA ItemRow ==
  ASSUME NEW d, Typed(d), NEW u \in Users, NEW k \in Things, Owns(d, u, k)
  PROVE  LET i == d.item[<<u, k>>]
         IN  /\ i \in ItemRows(k) /\ i.level \in 1 .. GearMax /\ i.ammo \in Nat \cup {NULL}
             /\ k \in Guns => Bullets(d, u, k) \in 0 .. Full(i.level)
             /\ \A n \in Nat : n <= Full(i.level) => [i EXCEPT !.ammo = n] \in ItemRows(k)
<1>. DEFINE i == d.item[<<u, k>>]
<1>1. i \in ItemRows(k)
  <2>1. <<u, k>> \in Users \X Things /\ <<u, k>>[2] = k
    OBVIOUS
  <2>2. i \in ItemRows(<<u, k>>[2]) \cup {NULL}
    BY <2>1, ArmsColumns DEF Things
  <2>3. i # NULL
    BY DEF Owns
  <2>. HIDE DEF i
  <2>. QED BY <2>1, <2>2, <2>3
<1>. HIDE DEF i
<1>2. i \in [level : 1 .. GearMax, ammo : Nat \cup {NULL}] /\ (k \in Guns => i.ammo = NULL \/ i.ammo <= Full(i.level))
  BY <1>1 DEF ItemRows
<1>3. Full(i.level) \in Nat
  BY <1>2, GearNumbers
<1>4. k \in Guns => Bullets(d, u, k) \in 0 .. Full(i.level)
  BY <1>2, <1>3, Nulls DEF Bullets, i
<1>5. \A n \in Nat : n <= Full(i.level) => [i EXCEPT !.ammo = n] \in ItemRows(k)
  BY <1>2 DEF ItemRows
<1>. QED BY <1>1, <1>2, <1>4, <1>5 DEF i

LEMMA NewItem ==
  ASSUME NEW k, NEW l \in 1 .. GearMax
  PROVE  /\ [level |-> l, ammo |-> IF k \in Guns THEN Full(l) ELSE NULL] \in ItemRows(k)
         /\ \A a \in Nat \cup {NULL} : [level |-> l, ammo |-> IF k \in Guns THEN Full(l) ELSE a] \in ItemRows(k)
<1>1. Full(l) \in Nat
  BY GearNumbers
<1>2. \A a \in Nat \cup {NULL} : [level |-> l, ammo |-> IF k \in Guns THEN Full(l) ELSE a] \in ItemRows(k)
  BY <1>1 DEF ItemRows
<1>. QED BY <1>2

LEMMA BuyStep ==
  ASSUME Typed(db), NEW u \in Users, NEW k \in DOMAIN Goods, Buy(u, k)
  PROVE  Calmly
<1>. DEFINE c   == Goods[k]
            d   == Charged(db, u, c.cash, "iron", c.iron)
            row == [level |-> 1, ammo |-> IF k \in Guns THEN Full(1) ELSE NULL]
            pf  == [d.parts EXCEPT ![u] = @ - c.parts]
            e   == [d EXCEPT !["parts"] = pf]
            f   == [e EXCEPT !.item[<<u, k>>] = row]
<1>1. /\ Costs(db, u, c.cash, "iron", c.iron) /\ db.parts[u] >= c.parts
      /\ Answer([d EXCEPT !.parts[u] = @ - c.parts, !.item[<<u, k>>] = row])
  BY DEF Buy
<1>2. c.cash \in Nat /\ c.iron \in Nat /\ c.parts \in Nat /\ k \in Things
  BY GearNumbers
<1>. HIDE DEF c
<1>3. db.cash[u] - c.cash \in Nat /\ db.res[<<u, "iron">>] >= c.iron /\ "iron" \in Res /\ c.cash \in Int
  BY <1>1, <1>2, PurseColumns DEF Costs, Res
<1>4. Calm(db, d) /\ Typed(d) /\ Frame(db, d, {"cash", "res"})
  BY <1>2, <1>3, ChargedCalm
<1>. HIDE DEF d
<1>5. d.parts = db.parts
  BY <1>4, ColumnNames DEF Frame
<1>6. Calm(d, e) /\ Typed(e)
  <2>1. pf \in [Users -> Nat]
    BY <1>1, <1>2, <1>5, PurseColumns
  <2>. HIDE DEF pf
  <2>2. OfType("parts", pf) /\ "parts" \in Columns \ Guarded
    BY <2>1, PurseColumns, ColumnNames DEF Guarded
  <2>. QED BY <1>4, <2>2, PutCalm
<1>7. [d EXCEPT !.parts[u] = @ - c.parts, !.item[<<u, k>>] = row] = f
  BY <1>4, ColumnNames DEF Typed
<1>8. row \in ItemRows(k)
  BY GearNumbers, NewItem
<1>. HIDE DEF row, e
<1>9. Calm(e, f)
  BY <1>2, <1>6, <1>8, ItemCalm
<1>10. Answer(f)
  BY <1>1, <1>7
<1>. HIDE DEF f
<1>11. Calm(db, f)
  BY <1>4, <1>6, <1>9, CalmChain
<1>. QED BY <1>10, <1>11 DEF Calmly

LEMMA UpgradeGearStep ==
  ASSUME Typed(db), NEW u \in Users, NEW k \in Things, UpgradeGear(u, k)
  PROVE  Calmly
<1>. DEFINE i   == db.item[<<u, k>>]
            l   == i.level
            c   == GearUp[l]
            d   == Charged(db, u, c.cash, "iron", c.iron)
            row == [level |-> l + 1, ammo |-> IF k \in Guns THEN Full(l + 1) ELSE i.ammo]
            e   == [d EXCEPT !.item[<<u, k>>] = row]
<1>1. /\ Owns(db, u, k) /\ l < GearMax /\ Costs(db, u, c.cash, "iron", c.iron)
      /\ Answer([d EXCEPT !.item[<<u, k>>] = [level |-> l + 1, ammo |-> IF k \in Guns THEN Full(l + 1) ELSE @.ammo]])
  BY Zenon DEF UpgradeGear
<1>2. l \in 1 .. GearMax /\ i.ammo \in Nat \cup {NULL}
  BY <1>1, ItemRow, Zenon
<1>3. l + 1 \in 1 .. GearMax
  <2>. HIDE DEF l
  <2>. QED BY <1>1, <1>2, GearNumbers
<1>4. c.cash \in Int /\ c.iron \in Nat /\ db.cash[u] - c.cash \in Nat /\ db.res[<<u, "iron">>] >= c.iron /\ "iron" \in Res
  <2>1. c.cash \in Nat /\ c.iron \in Nat
    <3>. HIDE DEF l
    <3>. QED BY <1>1, <1>2, GearNumbers
  <2>. HIDE DEF c
  <2>. QED BY <1>1, <2>1, PurseColumns DEF Costs, Res
<1>. HIDE DEF c
<1>5. Calm(db, d) /\ Typed(d) /\ Frame(db, d, {"cash", "res"})
  BY <1>4, ChargedCalm
<1>. HIDE DEF d
<1>6. d.item = db.item
  BY <1>5, ColumnNames DEF Frame
<1>7. row \in ItemRows(k)
  <2>. HIDE DEF l, i
  <2>. QED BY <1>2, <1>3, NewItem
<1>8. [d EXCEPT !.item[<<u, k>>] = [level |-> l + 1, ammo |-> IF k \in Guns THEN Full(l + 1) ELSE @.ammo]] = e
  BY <1>5, <1>6, ColumnNames, ArmsColumns DEF Typed, Things
<1>. HIDE DEF row
<1>9. Calm(d, e)
  BY <1>5, <1>7, ItemCalm
<1>10. Answer(e)
  BY <1>1, <1>8
<1>. HIDE DEF e
<1>11. Calm(db, e)
  BY <1>5, <1>9, CalmChain
<1>. QED BY <1>10, <1>11, Zenon DEF Calmly

LEMMA WearCalm ==
  ASSUME NEW d, Typed(d), NEW u \in Users, NEW w \in Worn
  PROVE  Calm(d, [d EXCEPT !.wear[u] = w])
<1>. DEFINE f == [d.wear EXCEPT ![u] = w]
<1>1. OfType("wear", f)
  <2>1. f \in [Users -> Worn]
    BY ArmsColumns
  <2>. HIDE DEF f
  <2>. QED BY <2>1, ArmsColumns
<1>2. [d EXCEPT !.wear[u] = w] = [d EXCEPT !["wear"] = f]
  OBVIOUS
<1>3. "wear" \in Columns \ Guarded
  BY ColumnNames DEF Guarded
<1>. HIDE DEF f
<1>. QED BY <1>1, <1>2, <1>3, PutCalm

LEMMA WearStep ==
  ASSUME Typed(db), NEW u \in Users, NEW k, Wear(u, k) \/ TakeOff(u)
  PROVE  Calmly
<1>. DEFINE w == db.wear[u]
<1>1. w \in Worn
  BY ArmsColumns
<1>. HIDE DEF w
<1>2. /\ \A x \in Weapons \cup {NULL} : [w EXCEPT !.weapon = x] \in Worn
      /\ \A x \in Armors \cup {NULL} : [w EXCEPT !.armor = x] \in Worn
  BY <1>1 DEF Worn
<1>3. /\ \A x : [db EXCEPT !.wear[u].weapon = x] = [db EXCEPT !.wear[u] = [w EXCEPT !.weapon = x]]
      /\ \A x : [db EXCEPT !.wear[u].armor = x] = [db EXCEPT !.wear[u] = [w EXCEPT !.armor = x]]
  BY DEF w
<1>4. \/ \E x \in Weapons \cup {NULL} : Answer([db EXCEPT !.wear[u].weapon = x])
      \/ \E x \in Armors \cup {NULL} : Answer([db EXCEPT !.wear[u].armor = x])
  BY DEF Wear, TakeOff
<1>5. \E v \in Worn : Answer([db EXCEPT !.wear[u] = v])
  BY <1>2, <1>3, <1>4
<1>6. PICK v \in Worn : Answer([db EXCEPT !.wear[u] = v])
  BY <1>5
<1>7. Calm(db, [db EXCEPT !.wear[u] = v])
  BY WearCalm
<1>. QED BY <1>6, <1>7 DEF Calmly

LEMMA ReloadStep ==
  ASSUME Typed(db), NEW u \in Users, NEW k \in Things, Reload(u, k)
  PROVE  Calmly
<1>. DEFINE i == db.item[<<u, k>>]
            b == Bullets(db, u, k)
            m == Full(i.level)
            n == Min({m - b, db.cash[u] \div AmmoPrice})
            p == n * AmmoPrice
            d == Pay(db, u, -p)
            row == [i EXCEPT !.ammo = b + n]
            e == [d EXCEPT !.item[<<u, k>>] = row]
<1>1. k \in Guns /\ Owns(db, u, k) /\ n > 0 /\ Answer([d EXCEPT !.item[<<u, k>>].ammo = b + n])
  BY DEF Reload
<1>2. b \in 0 .. m /\ m \in Nat /\ \A a \in Nat : a <= m => [i EXCEPT !.ammo = a] \in ItemRows(k)
  BY <1>1, ItemRow, GearNumbers
<1>3. db.cash[u] \in Nat
  BY PurseColumns
<1>. HIDE DEF b, m, i
<1>4. n \in Nat /\ b + n \in Nat /\ b + n <= m /\ n <= db.cash[u] \div AmmoPrice
  <2>1. m - b \in Int /\ db.cash[u] \div AmmoPrice \in Int
    BY <1>2, <1>3, GearNumbers
  <2>2. n = IF m - b <= db.cash[u] \div AmmoPrice THEN m - b ELSE db.cash[u] \div AmmoPrice
    BY <2>1, Pairs
  <2>. HIDE DEF n
  <2>. QED BY <1>1, <1>2, <2>1, <2>2
<1>. HIDE DEF n
<1>5. p \in Nat /\ p <= db.cash[u]
  <2>. DEFINE q == db.cash[u] \div AmmoPrice
  <2>1. q \in Nat /\ q * AmmoPrice <= db.cash[u]
    BY <1>3, GearNumbers
  <2>2. n <= q
    BY <1>4
  <2>. HIDE DEF q
  <2>3. n * AmmoPrice <= q * AmmoPrice /\ n * AmmoPrice \in Nat /\ q * AmmoPrice \in Nat
    BY <1>4, <2>1, <2>2, GearNumbers
  <2>. QED BY <2>1, <2>3, <1>3
<1>. HIDE DEF p
<1>6. -p \in Int /\ db.cash[u] + (-p) \in Nat
  BY <1>3, <1>5
<1>7. Calm(db, d) /\ Typed(d) /\ Frame(db, d, {"cash"})
  BY <1>6, PayCalm
<1>. HIDE DEF d
<1>8. d.item = db.item
  BY <1>7, ColumnNames DEF Frame
<1>9. row \in ItemRows(k)
  BY <1>2, <1>4
<1>10. [d EXCEPT !.item[<<u, k>>].ammo = b + n] = e
  BY <1>8 DEF i
<1>. HIDE DEF row
<1>11. Calm(d, e)
  BY <1>7, <1>9, ItemCalm
<1>12. Answer(e)
  BY <1>1, <1>10
<1>. HIDE DEF e
<1>. QED BY <1>7, <1>11, <1>12, CalmChain DEF Calmly

LEMMA KennelCalm ==
  ASSUME NEW d, Typed(d), NEW f, f = [x \in Users \X Dogs |-> f[x]]
  PROVE  LET e == [d EXCEPT !.dog = f] IN Calm(d, e) /\ Typed(e) /\ Frame(d, e, {"dog"})
<1>1. OfType("dog", f)
  BY OtherColumns, Zenon
<1>2. "dog" \in Columns \ Guarded
  BY ColumnNames DEF Guarded
<1>3. LET e == [d EXCEPT !["dog"] = f] IN Calm(d, e) /\ Typed(e) /\ Frame(d, e, {"dog"}) /\ e["dog"] = f
  BY <1>1, <1>2, PutCalm
<1>. QED BY <1>3

LEMMA DogCalm ==
  ASSUME NEW d, Typed(d), NEW u \in Users, NEW k \in Dogs, NEW g
  PROVE  LET e == [d EXCEPT !.dog[<<u, k>>] = g] IN Calm(d, e) /\ Typed(e) /\ Frame(d, e, {"dog"})
<1>. DEFINE f == [d.dog EXCEPT ![<<u, k>>] = g]
<1>1. d.dog = [x \in Users \X Dogs |-> d.dog[x]]
  BY OtherColumns, Zenon
<1>2. f = [x \in Users \X Dogs |-> f[x]]
  BY <1>1
<1>3. [d EXCEPT !.dog[<<u, k>>] = g] = [d EXCEPT !.dog = f]
  OBVIOUS
<1>. HIDE DEF f
<1>. QED BY <1>2, <1>3, KennelCalm

LEMMA DogsFoughtCalm ==
  ASSUME NEW d, Typed(d), NEW u, NEW n
  PROVE  LET e == DogsFought(d, u, n) IN Calm(d, e) /\ Typed(e) /\ Frame(d, e, {"dog"})
<1>. DEFINE f == [x \in DOMAIN d.dog |-> IF x[1] = u /\ d.dog[x] # NULL THEN Grown(d.dog[x], n) ELSE d.dog[x]]
<1>1. DOMAIN d.dog = Users \X Dogs
  <2>1. d.dog = [x \in Users \X Dogs |-> d.dog[x]]
    BY OtherColumns, Zenon
  <2>. QED BY <2>1
<1>2. f = [x \in Users \X Dogs |-> f[x]]
  BY <1>1
<1>3. DogsFought(d, u, n) = [d EXCEPT !.dog = f]
  BY DEF DogsFought
<1>. HIDE DEF f
<1>. QED BY <1>2, <1>3, KennelCalm

LEMMA DogStep ==
  ASSUME Typed(db), NEW u \in Users, NEW k \in Dogs, BuyDog(u, k) \/ Release(u, k)
  PROVE  Calmly
<1>1. CASE BuyDog(u, k)
  <2>. DEFINE p == DogGoods[k].cash
              d == Pay(db, u, -p)
              e == [d EXCEPT !.dog[<<u, k>>] = [level |-> 1, xp |-> 0, fed |-> 0]]
  <2>1. db.cash[u] >= p /\ Answer(e)
    BY <1>1 DEF BuyDog, CanBuyDog
  <2>2. p \in Nat /\ db.cash[u] \in Nat
    BY GearNumbers, PurseColumns
  <2>. HIDE DEF p
  <2>3. -p \in Int /\ db.cash[u] + (-p) \in Nat
    BY <2>1, <2>2
  <2>4. Calm(db, d) /\ Typed(d)
    BY <2>3, PayCalm
  <2>. HIDE DEF d
  <2>5. Calm(d, e)
    BY <2>4, DogCalm
  <2>. HIDE DEF e
  <2>. QED BY <2>1, <2>4, <2>5, CalmChain DEF Calmly
<1>2. CASE Release(u, k)
  BY <1>2, DogCalm DEF Release, Calmly
<1>. QED BY <1>1, <1>2

LEMMA FeedStep ==
  ASSUME Typed(db), NEW u \in Users, NEW k \in Dogs, NEW food \in DOMAIN Foods, NEW draw \in QuestDraws,
         Feed(u, k, food, draw)
  PROVE  Calmly
<1>. DEFINE p == Foods[food].cash
            g == Grown([db.dog[<<u, k>>] EXCEPT !.fed = @ + 1], Foods[food].xp)
            h == IF g.level = DogMax THEN [g EXCEPT !.xp = 0] ELSE g
            d == Pay(db, u, -p)
            e == [d EXCEPT !.dog[<<u, k>>] = h]
<1>1. db.cash[u] >= p /\ Answer(Track(e, u, "feed", 1, draw))
  BY DEF Feed
<1>2. p \in Nat /\ db.cash[u] \in Nat
  BY GearNumbers, PurseColumns
<1>. HIDE DEF p, h
<1>3. -p \in Int /\ db.cash[u] + (-p) \in Nat
  BY <1>1, <1>2
<1>4. Calm(db, d) /\ Typed(d)
  BY <1>3, PayCalm
<1>. HIDE DEF d
<1>5. Calm(d, e)
  BY <1>4, DogCalm
<1>. HIDE DEF e
<1>6. Calm(db, e) /\ Typed(e)
  BY <1>4, <1>5, CalmChain
<1>. QED BY <1>1, <1>6, TrackStep

-----------------------------------------------------------------------------
(* What a player fights with.                                              *)

LEMMA StrongestOne ==
  ASSUME NEW d, Typed(d), NEW u \in Users, NEW ks, ks \subseteq Weapons, ks # {}, \A k \in ks : Owns(d, u, k)
  PROVE  Strongest(d, u, ks) \in ks
<1>. DEFINE s(k) == Strength[k] * d.item[<<u, k>>].level
            Best(k) == \A j \in ks : s(k) >= s(j)
<1>1. ASSUME NEW k \in ks PROVE s(k) \in Nat
  <2>1. Strength[k] \in Nat
    <3>1. Strength \in [Weapons \cup Armors -> Nat] /\ k \in Weapons
      BY GearAssumption
    <3>. QED BY <3>1
  <2>2. d.item[<<u, k>>].level \in 1 .. GearMax
    BY ItemRow DEF Things
  <2>3. d.item[<<u, k>>].level \in Nat
    BY <2>2, GearNumbers
  <2>. QED BY <2>1, <2>3, ProductNat
<1>2. IsFiniteSet(ks)
  BY GearAssumption, FS_Subset
<1>. DEFINE f == [k \in ks |-> s(k)]
            V == {f[k] : k \in ks}
<1>3. IsFiniteSet(V)
  <2>1. f \in Surjection(ks, V)
    BY DEF Surjection
  <2>. QED BY <1>2, <2>1, FS_Surjection DEF ExistsSurjection
<1>4. V \in SUBSET Nat /\ V # {}
  BY <1>1
<1>. HIDE DEF V
<1>5. Max(V) \in V /\ \A x \in V : x <= Max(V)
  BY <1>3, <1>4, MaxOfFinite
<1>6. PICK k \in ks : f[k] = Max(V)
  BY <1>5 DEF V
<1>7. Best(k)
  <2>1. \A j \in ks : f[j] \in V /\ f[j] = s(j)
    BY DEF V
  <2>. HIDE DEF f
  <2>2. ASSUME NEW j \in ks PROVE s(k) >= s(j)
    <3>1. f[j] <= Max(V) /\ f[j] = s(j) /\ f[k] = s(k)
      BY <1>5, <2>1
    <3>2. s(k) \in Nat /\ s(j) \in Nat
      BY <1>1
    <3>. HIDE DEF s
    <3>. QED BY <3>1, <3>2, <1>6
  <2>. QED BY <2>2
<1>8. Strongest(d, u, ks) = CHOOSE j \in ks : Best(j)
  BY DEF Strongest
<1>. HIDE DEF Best
<1>. QED BY <1>7, <1>8

LEMMA WeaponOne ==
  ASSUME NEW d, Typed(d), NEW u \in Users, NEW b \in BOOLEAN, Weapon(d, u, b) \in Guns
  PROVE  Weapon(d, u, b) \in Things /\ Owns(d, u, Weapon(d, u, b))
<1>. DEFINE usable == {k \in Weapons : Owns(d, u, k) /\ (k \in Guns /\ b => Bullets(d, u, k) > 0)}
<1>1. usable \subseteq Weapons /\ \A k \in usable : Owns(d, u, k)
  OBVIOUS
<1>2. Weapon(d, u, b) = IF d.wear[u].weapon \in usable THEN d.wear[u].weapon
                        ELSE IF usable = {} THEN NULL ELSE Strongest(d, u, usable)
  BY DEF Weapon
<1>. HIDE DEF usable
<1>3. NULL \notin Guns
  BY GearAssumption
<1>4. Weapon(d, u, b) \in usable
  <2>1. CASE d.wear[u].weapon \in usable
    BY <1>2, <2>1
  <2>2. CASE d.wear[u].weapon \notin usable /\ usable = {}
    BY <1>2, <1>3, <2>2
  <2>3. CASE d.wear[u].weapon \notin usable /\ usable # {}
    <3>1. Strongest(d, u, usable) \in usable
      BY <1>1, <2>3, StrongestOne
    <3>. QED BY <1>2, <2>3, <3>1
  <2>. QED BY <2>1, <2>2, <2>3
<1>. QED BY <1>1, <1>4 DEF Things

LEMMA ShotCalm ==
  ASSUME NEW d, Typed(d), NEW u \in Users
  PROVE  LET e == Shot(d, u) IN Calm(d, e) /\ Typed(e) /\ Frame(d, e, {"item"})
<1>. DEFINE k == Weapon(d, u, TRUE)
            n == Max({0, Bullets(d, u, k) - 1})
            i == d.item[<<u, k>>]
            row == [i EXCEPT !.ammo = n]
            e == [d EXCEPT !.item[<<u, k>>] = row]
<1>1. CASE k \in Guns
  <2>1. k \in Things /\ Owns(d, u, k)
    BY <1>1, WeaponOne
  <2>. HIDE DEF k
  <2>2. /\ Bullets(d, u, k) \in 0 .. Full(i.level) /\ Full(i.level) \in Nat
        /\ \A a \in Nat : a <= Full(i.level) => [i EXCEPT !.ammo = a] \in ItemRows(k)
    BY <1>1, <2>1, ItemRow, GearNumbers
  <2>3. n \in Nat /\ n <= Full(i.level)
    <3>1. 0 \in Int /\ Bullets(d, u, k) - 1 \in Int
      BY <2>2
    <3>2. n = IF 0 >= Bullets(d, u, k) - 1 THEN 0 ELSE Bullets(d, u, k) - 1
      BY <3>1, Pairs
    <3>. HIDE DEF n, i
    <3>. QED BY <2>2, <3>2
  <2>. HIDE DEF n
  <2>4. row \in ItemRows(k)
    BY <2>2, <2>3
  <2>5. Shot(d, u) = e
    BY <1>1 DEF Shot, n, k
  <2>. HIDE DEF row
  <2>. QED BY <2>1, <2>4, <2>5, ItemCalm
<1>2. CASE k \notin Guns
  <2>1. Shot(d, u) = d
    BY <1>2 DEF Shot
  <2>2. Frame(d, d, {"item"})
    BY DEF Frame, Typed
  <2>. QED BY <2>1, <2>2, CalmSelf
<1>. QED BY <1>1, <1>2

-----------------------------------------------------------------------------
(* Blood.                                                                  *)

LEMMA EnergyCalm ==
  ASSUME NEW d, Typed(d), NEW u \in Users, NEW n \in Nat
  PROVE  LET e == [d EXCEPT !.energy[u] = n] IN Calm(d, e) /\ Typed(e) /\ Frame(d, e, {"energy"})
<1>. DEFINE f == [d.energy EXCEPT ![u] = n]
<1>1. OfType("energy", f)
  <2>1. f \in [Users -> Nat]
    BY GrowthColumns
  <2>. HIDE DEF f
  <2>. QED BY <2>1, GrowthColumns
<1>2. [d EXCEPT !.energy[u] = n] = [d EXCEPT !["energy"] = f]
  OBVIOUS
<1>3. "energy" \in Columns \ Guarded
  BY ColumnNames DEF Guarded
<1>. HIDE DEF f
<1>4. LET e == [d EXCEPT !["energy"] = f] IN Calm(d, e) /\ Typed(e) /\ Frame(d, e, {"energy"}) /\ e["energy"] = f
  BY <1>1, <1>3, PutCalm
<1>. QED BY <1>2, <1>4

\* Calm but for v, who may bleed.
Hurting(d, e, v) == Steady(d, e) /\ \A w \in Users \ {v} : Bled(d, w) => Bled(e, w)

LEMMA HurtingChain ==
  ASSUME NEW d, NEW e, NEW f, NEW v, Hurting(d, e, v), Hurting(e, f, v)
  PROVE  Hurting(d, f, v) /\ Typed(f)
BY DEF Hurting, Steady

LEMMA CalmHurts == ASSUME NEW d, NEW e, NEW v, Calm(d, e) PROVE Hurting(d, e, v)
BY DEF Hurting, Calm

LEMMA BloodSteady ==
  ASSUME NEW d, NEW e, NEW S, Typed(d), Frame(d, e, S), \A t \in S : OfType(t, e[t]),
         S \cap (Guarded \ {"hp", "fallen"}) = {}
  PROVE  Steady(d, e) /\ Typed(e)
<1>1. Typed(e)
  BY FrameTyped
<1>2. \A t \in Guarded \ {"hp", "fallen"} : e[t] = d[t]
  BY ColumnNames DEF Frame, Guarded
<1>3. /\ e.points = d.points /\ e.again = d.again /\ e.skill = d.skill /\ e.level = d.level /\ e.bank = d.bank /\ e.vault = d.vault
      /\ e.ship = d.ship /\ e.life = d.life /\ e.clock = d.clock
  BY <1>2 DEF Guarded
<1>. QED BY <1>1, <1>3 DEF Steady, Whole, Within, PointsSpent

LEMMA BloodHurts ==
  ASSUME NEW d, Typed(d), NEW w \in Users, NEW n \in Nat, NEW v, w = v \/ (n = 0 => d.hp[w] = 0)
  PROVE  LET e == [d EXCEPT !.hp[w] = n]
         IN  Hurting(d, e, v) /\ Typed(e) /\ Frame(d, e, {"hp"}) /\ e.hp = [d.hp EXCEPT ![w] = n]
<1>. DEFINE f == [d.hp EXCEPT ![w] = n]
            e == [d EXCEPT !.hp[w] = n]
<1>1. OfType("hp", f)
  <2>1. f \in [Users -> Nat]
    BY HealthColumns
  <2>. HIDE DEF f
  <2>. QED BY <2>1, HealthColumns
<1>2. Frame(d, e, {"hp"}) /\ e.hp = f
  BY ColumnNames DEF Typed, Frame
<1>3. \A t \in {"hp"} : OfType(t, e[t])
  BY <1>1, <1>2
<1>4. {"hp"} \cap (Guarded \ {"hp", "fallen"}) = {}
  OBVIOUS
<1>5. e.fallen = d.fallen
  BY <1>2, ColumnNames DEF Frame
<1>. HIDE DEF e
<1>6. Steady(d, e) /\ Typed(e)
  BY <1>2, <1>3, <1>4, BloodSteady
<1>7. \A x \in Users \ {v} : Bled(d, x) => Bled(e, x)
  <2>1. d.hp \in [Users -> Nat]
    BY HealthColumns
  <2>. QED BY <1>2, <1>5, <2>1 DEF Bled
<1>. QED BY <1>2, <1>6, <1>7 DEF Hurting, e

LEMMA FallenHurts ==
  ASSUME NEW d, Typed(d), NEW v \in Users, NEW b \in BOOLEAN
  PROVE  LET e == [d EXCEPT !.fallen[v] = b]
         IN  Hurting(d, e, v) /\ Typed(e) /\ Frame(d, e, {"fallen"}) /\ e.fallen = [d.fallen EXCEPT ![v] = b]
<1>. DEFINE f == [d.fallen EXCEPT ![v] = b]
            e == [d EXCEPT !.fallen[v] = b]
<1>1. OfType("fallen", f)
  <2>1. f \in [Users -> BOOLEAN]
    BY HealthColumns
  <2>. HIDE DEF f
  <2>. QED BY <2>1, HealthColumns
<1>2. Frame(d, e, {"fallen"}) /\ e.fallen = f
  BY ColumnNames DEF Typed, Frame
<1>3. \A t \in {"fallen"} : OfType(t, e[t])
  BY <1>1, <1>2
<1>4. {"fallen"} \cap (Guarded \ {"hp", "fallen"}) = {}
  OBVIOUS
<1>5. e.hp = d.hp
  BY <1>2, ColumnNames DEF Frame
<1>. HIDE DEF e
<1>6. Steady(d, e) /\ Typed(e)
  BY <1>2, <1>3, <1>4, BloodSteady
<1>7. \A x \in Users \ {v} : Bled(d, x) => Bled(e, x)
  <2>1. d.fallen \in [Users -> BOOLEAN]
    BY HealthColumns
  <2>. QED BY <1>2, <1>5, <2>1 DEF Bled
<1>. QED BY <1>2, <1>6, <1>7 DEF Hurting, e

LEMMA SavedCalm ==
  ASSUME NEW d, Typed(d), NEW v \in Users, NEW b
  PROVE  LET e == [d EXCEPT !.saved[v] = b] IN Calm(d, e) /\ Typed(e) /\ Frame(d, e, {"saved"})
<1>. DEFINE f == [d.saved EXCEPT ![v] = b]
<1>1. OfType("saved", f)
  <2>1. d.saved = [x \in Users |-> d.saved[x]]
    BY OtherColumns, Zenon
  <2>2. f = [x \in Users |-> f[x]]
    BY <2>1
  <2>. HIDE DEF f
  <2>. QED BY <2>2, OtherColumns, Zenon
<1>2. [d EXCEPT !.saved[v] = b] = [d EXCEPT !["saved"] = f]
  OBVIOUS
<1>3. "saved" \in Columns \ Guarded
  BY ColumnNames DEF Guarded
<1>. HIDE DEF f
<1>4. LET e == [d EXCEPT !["saved"] = f] IN Calm(d, e) /\ Typed(e) /\ Frame(d, e, {"saved"}) /\ e["saved"] = f
  BY <1>1, <1>3, PutCalm
<1>. QED BY <1>2, <1>4

LEMMA RevivedCalm ==
  ASSUME NEW d, Typed(d), NEW u \in Users
  PROVE  LET e == Revived(d, u) IN Calm(d, e) /\ Typed(e) /\ Frame(d, e, {"fallen", "hp"})
<1>1. CASE d.fallen[u] /\ ~Running(d, u, "dead")
  <2>. DEFINE a == [d EXCEPT !.fallen[u] = FALSE]
              e == FullHeal(a, u)
  <2>1. Revived(d, u) = e
    BY <1>1 DEF Revived
  <2>2. Hurting(d, a, u) /\ Typed(a) /\ Frame(d, a, {"fallen"})
    BY FallenHurts
  <2>. HIDE DEF a
  <2>3. Calm(a, e) /\ Typed(e) /\ Frame(a, e, {"hp"}) /\ e.hp[u] # 0
    BY <2>2, HealCalm
  <2>. HIDE DEF e
  <2>4. Hurting(a, e, u)
    BY <2>3, CalmHurts
  <2>5. Hurting(d, e, u)
    BY <2>2, <2>4, HurtingChain
  <2>6. Calm(d, e)
    BY <2>3, <2>5 DEF Calm, Hurting, Bled
  <2>7. Frame(d, e, {"fallen", "hp"})
    BY <2>2, <2>3 DEF Frame
  <2>. QED BY <2>1, <2>3, <2>6, <2>7
<1>2. CASE ~(d.fallen[u] /\ ~Running(d, u, "dead"))
  <2>1. Revived(d, u) = d
    BY <1>2 DEF Revived
  <2>2. Frame(d, d, {"fallen", "hp"})
    BY DEF Frame, Typed
  <2>. QED BY <2>1, <2>2, CalmSelf
<1>. QED BY <1>1, <1>2

-----------------------------------------------------------------------------
(* Players against each other.                                             *)

LEMMA StreetNumbers ==
  /\ {HitEnergy, PvEnergy, HitXp, DogXp, BreakCost, PickCost, WinXp, LoseXp, VictimXp, SnitchLimit, SnitchShare,
      SnitchBonus, BribeCost, Leech, Reflect, GodHp} \subseteq Nat
  /\ Damages \subseteq Nat /\ Steals \subseteq 0 .. 100 /\ LootShare \in 0 .. 100 /\ Penalty \in 0 .. 100
  /\ \A k \in DOMAIN Heals : Heals[k].cash \in Nat /\ Heals[k].heal \in Nat \cup {NULL}
<1>1. \A k \in DOMAIN Heals : Heals[k] \in [cash : Nat, heal : Nat \cup {NULL}]
  BY StreetsAssumption
<1>. QED BY <1>1, StreetsAssumption

LEMMA HealStep ==
  ASSUME Typed(db), NEW u \in Users, HealPage(u) \/ \E k \in DOMAIN Heals : Heal(u, k)
  PROVE  Calmly
<1>1. CASE HealPage(u)
  BY <1>1, RevivedCalm DEF HealPage, Calmly
<1>2. ASSUME NEW k \in DOMAIN Heals, Heal(u, k) PROVE Calmly
  <2>. DEFINE d == Revived(db, u)
              room == HpMax(d, u) - d.hp[u]
              gain == IF Heals[k].heal = NULL THEN room ELSE Min({Heals[k].heal, room})
              p == Heals[k].cash
              a == Pay(d, u, -p)
              n == d.hp[u] + gain
              e == [a EXCEPT !.hp[u] = n]
  <2>1. gain > 0 /\ d.cash[u] >= p /\ Answer([a EXCEPT !.hp[u] = @ + gain])
    BY <1>2 DEF Heal
  <2>2. Calm(db, d) /\ Typed(d)
    BY RevivedCalm
  <2>. HIDE DEF d
  <2>3. d.cash[u] \in Nat /\ d.hp[u] \in Nat /\ HpMax(d, u) \in Nat /\ p \in Nat /\ Heals[k].heal \in Nat \cup {NULL}
    BY <2>2, PurseColumns, HealthColumns, RoomNat, StreetNumbers
  <2>4. gain \in Int
    <3>1. room \in Int
      BY <2>3
    <3>2. CASE Heals[k].heal = NULL
      BY <3>1, <3>2
    <3>3. CASE Heals[k].heal # NULL
      <4>1. Heals[k].heal \in Int
        BY <2>3, <3>3
      <4>2. Min({Heals[k].heal, room}) \in {Heals[k].heal, room}
        <5>. HIDE DEF room
        <5>1. Min({Heals[k].heal, room}) = IF Heals[k].heal <= room THEN Heals[k].heal ELSE room
          BY <3>1, <4>1, Pairs
        <5>. QED BY <5>1
      <4>. QED BY <3>1, <3>3, <4>1, <4>2
    <3>. QED BY <3>2, <3>3
  <2>. HIDE DEF gain, p
  <2>5. -p \in Int /\ d.cash[u] + (-p) \in Nat
    BY <2>1, <2>3
  <2>6. Calm(d, a) /\ Typed(a) /\ Frame(d, a, {"cash"})
    BY <2>2, <2>5, PayCalm
  <2>. HIDE DEF a
  <2>7. a.hp = d.hp
    BY <2>6, ColumnNames DEF Frame
  <2>8. n \in Nat /\ n # 0
    BY <2>1, <2>3, <2>4
  <2>9. [a EXCEPT !.hp[u] = @ + gain] = e
    BY <2>7
  <2>. HIDE DEF n
  <2>10. Hurting(a, e, u) /\ Typed(e) /\ e.hp = [a.hp EXCEPT ![u] = n]
    BY <2>6, <2>8, BloodHurts
  <2>11. Calm(a, e)
    <3>1. e.hp[u] # 0
      <4>1. a.hp \in [Users -> Nat]
        BY <2>6, HealthColumns
      <4>. QED BY <2>8, <2>10, <4>1
    <3>. QED BY <2>10, <3>1 DEF Hurting, Calm, Bled
  <2>12. Answer(e)
    BY <2>1, <2>9
  <2>. HIDE DEF e
  <2>. QED BY <2>2, <2>6, <2>11, <2>12, CalmChain DEF Calmly
<1>. QED BY <1>1, <1>2

LEMMA StolenCalm ==
  ASSUME NEW d, Typed(d), NEW u \in Users, NEW v \in Users, NEW p \in 0 .. 100
  PROVE  LET e == Stolen(d, u, v, p) IN Calm(d, e) /\ Typed(e) /\ Frame(d, e, {"cash"})
<1>. DEFINE n == Percent(d.cash[v], p)
            a == Pay(d, v, -n)
            e == Pay(a, u, n)
<1>1. d.cash[v] \in Nat
  BY PurseColumns
<1>2. n \in 0 .. d.cash[v]
  BY <1>1, PercentPart DEF Percent
<1>. HIDE DEF n
<1>3. -n \in Int /\ d.cash[v] + (-n) \in Nat
  BY <1>1, <1>2
<1>4. Calm(d, a) /\ Typed(a) /\ Frame(d, a, {"cash"})
  BY <1>3, PayCalm
<1>. HIDE DEF a
<1>5. n \in Int /\ a.cash[u] + n \in Nat
  BY <1>1, <1>2, <1>4, PurseColumns
<1>6. Calm(a, e) /\ Typed(e) /\ Frame(a, e, {"cash"})
  BY <1>4, <1>5, PayCalm
<1>7. Stolen(d, u, v, p) = e
  BY DEF Stolen, a, n
<1>. HIDE DEF e
<1>8. Frame(d, e, {"cash"})
  BY <1>4, <1>6 DEF Frame
<1>. QED BY <1>4, <1>6, <1>7, <1>8, CalmChain

LEMMA StruckHurts ==
  ASSUME NEW d, Typed(d), NEW u \in Users, NEW v \in Users, NEW dmg \in Nat
  PROVE  Hurting(d, Struck(d, u, v, dmg), v) /\ Typed(Struck(d, u, v, dmg))
<1>. DEFINE armor == AbilityOf(Armor(d, v))
            n == Max({0, d.hp[v] - dmg})
            e == [d EXCEPT !.hp[v] = n]
            r == Rounded(dmg * Reflect, 100)
            b == Max({0, e.hp[u] - 1})
            c == Min({b, r})
            m == e.hp[u] - c
            ef == [e EXCEPT !.hp[u] = m]
            f == IF armor # "reflect" THEN e ELSE ef
            g == Max({1, Rounded(HpMax(d, v) * GodHp, 100)})
            fg == [f EXCEPT !.hp[v] = g]
            h == [fg EXCEPT !.saved[v] = TRUE]
<1>1. n \in Nat
  <2>1. d.hp[v] - dmg \in Int
    BY HealthColumns
  <2>. QED BY <2>1, ClippedNat, Zenon
<1>. HIDE DEF n
<1>2. Hurting(d, e, v) /\ Typed(e)
  BY <1>1, BloodHurts
<1>. HIDE DEF e
<1>3. r \in Nat
  <2>1. dmg * Reflect \in Nat
    BY StreetNumbers, ProductNat
  <2>. QED BY <2>1, RoundedNat
<1>. HIDE DEF r
<1>4. e.hp[u] \in Nat
  BY <1>2, HealthColumns
<1>5. m \in Nat /\ (m = 0 => e.hp[u] = 0)
  <2>1. 0 \in Int /\ e.hp[u] - 1 \in Int
    BY <1>4
  <2>2. b = IF 0 >= e.hp[u] - 1 THEN 0 ELSE e.hp[u] - 1
    BY <2>1, Pairs
  <2>3. b \in Nat /\ r \in Int /\ b \in Int
    BY <1>3, <1>4, <2>2
  <2>. HIDE DEF b
  <2>4. c = IF b <= r THEN b ELSE r
    BY <2>3, Pairs
  <2>. HIDE DEF c
  <2>. QED BY <1>3, <1>4, <2>2, <2>3, <2>4
<1>6. Hurting(e, ef, v) /\ Typed(ef)
  <2>. HIDE DEF m
  <2>. QED BY <1>2, <1>5, BloodHurts
<1>. HIDE DEF ef
<1>7. Hurting(d, f, v) /\ Typed(f)
  BY <1>2, <1>6, HurtingChain
<1>8. g \in Nat
  <2>1. HpMax(d, v) \in Nat /\ GodHp \in Nat
    BY RoomNat, StreetNumbers
  <2>2. HpMax(d, v) * GodHp \in Nat
    BY <2>1, ProductNat
  <2>3. Rounded(HpMax(d, v) * GodHp, 100) \in Nat /\ 1 \in Nat
    BY <2>2, RoundedNat
  <2>. QED BY <2>3, PairNat, Zenon
<1>9. Struck(d, u, v, dmg) = IF f.hp[v] = 0 /\ armor = "godshield" /\ ~f.saved[v] THEN h ELSE f
  <2>1. [d EXCEPT !.hp[v] = Max({0, @ - dmg})] = e
    BY DEF e, n
  <2>2. [e EXCEPT !.hp[u] = @ - Min({Max({0, @ - 1}), Rounded(dmg * Reflect, 100)})] = ef
    BY DEF ef, r
  <2>. HIDE DEF f, armor
  <2>3. [f EXCEPT !.hp[v] = g, !.saved[v] = TRUE] = h
    BY <1>7, ColumnNames DEF Typed
  <2>. HIDE DEF h, g
  <2>. QED BY <2>1, <2>2, <2>3 DEF Struck, f, armor, g
<1>. HIDE DEF f, g
<1>10. Hurting(f, fg, v) /\ Typed(fg)
  BY <1>7, <1>8, BloodHurts
<1>. HIDE DEF fg
<1>11. Hurting(fg, h, v) /\ Typed(h)
  BY <1>10, SavedCalm, CalmHurts
<1>. HIDE DEF h
<1>12. Hurting(d, h, v)
  BY <1>7, <1>10, <1>11, HurtingChain
<1>. QED BY <1>7, <1>9, <1>11, <1>12

LEMMA WoundedCalm ==
  ASSUME NEW d, Typed(d), NEW u \in Users, NEW v \in Users, NEW dmg \in Nat, NEW p \in 0 .. 100, NEW poisons \in BOOLEAN,
         NEW weapon
  PROVE  Calm(d, Wounded(d, u, v, dmg, p, poisons, weapon)) /\ Typed(Wounded(d, u, v, dmg, p, poisons, weapon))
<1>. DEFINE e == Struck(d, u, v, dmg)
            ep == IF poisons /\ AbilityOf(weapon) = "poison" THEN Start(e, v, "poison") ELSE e
            f == Stolen(ep, u, v, p)
            r == Rounded(dmg * Leech, 100)
            up == Max({0, Min({HpMax(f, u) - f.hp[u], r})})
            m == f.hp[u] + up
            fm == [f EXCEPT !.hp[u] = m]
            g == IF AbilityOf(weapon) # "vampire" THEN f ELSE fm
            x == AddXp(g, u, HitXp)
            h == DogsFought(x, u, DogXp)
            hf == [h EXCEPT !.fallen[v] = TRUE]
            hs == [hf EXCEPT !.saved[v] = FALSE]
            hd == Start(hs, v, "dead")
<1>1. Hurting(d, e, v) /\ Typed(e)
  BY StruckHurts
<1>. HIDE DEF e
<1>2. Calm(e, ep) /\ Typed(ep)
  <2>1. "poison" \in Timers \ {"jail"}
    BY DEF Timers
  <2>. QED BY <1>1, <2>1, StartCalm, CalmSelf
<1>. HIDE DEF ep
<1>3. Calm(ep, f) /\ Typed(f)
  BY <1>2, StolenCalm
<1>. HIDE DEF f
<1>4. Hurting(d, f, v)
  BY <1>1, <1>2, <1>3, CalmHurts, HurtingChain
<1>5. m \in Nat /\ (m = 0 => f.hp[u] = 0)
  <2>1. f.hp[u] \in Nat /\ HpMax(f, u) \in Nat
    BY <1>3, HealthColumns, RoomNat
  <2>2. r \in Nat
    <3>1. dmg * Leech \in Nat
      BY StreetNumbers, ProductNat
    <3>. QED BY <3>1, RoundedNat
  <2>. HIDE DEF r
  <2>. DEFINE o == Min({HpMax(f, u) - f.hp[u], r})
  <2>3. o \in Int
    <3>1. HpMax(f, u) - f.hp[u] \in Int /\ r \in Int
      BY <2>1, <2>2
    <3>2. o = IF HpMax(f, u) - f.hp[u] <= r THEN HpMax(f, u) - f.hp[u] ELSE r
      BY <3>1, Pairs
    <3>. HIDE DEF o
    <3>. QED BY <3>1, <3>2
  <2>. HIDE DEF o
  <2>4. up = Max({0, o})
    BY DEF o
  <2>. HIDE DEF up
  <2>5. up \in Nat
    BY <2>3, <2>4, ClippedNat, Zenon
  <2>. QED BY <2>1, <2>5
<1>6. Hurting(f, fm, v) /\ Typed(fm)
  <2>. HIDE DEF m
  <2>. QED BY <1>3, <1>5, BloodHurts
<1>. HIDE DEF fm
<1>7. Hurting(d, g, v) /\ Typed(g)
  BY <1>3, <1>4, <1>6, HurtingChain
<1>8. Wounded(d, u, v, dmg, p, poisons, weapon) = IF h.hp[v] = 0 THEN hd ELSE h
  <2>1. [f EXCEPT !.hp[u] = @ + Max({0, Min({HpMax(f, u) - @, Rounded(dmg * Leech, 100)})})] = fm
    BY DEF fm, m, up, r
  <2>2. f = Stolen(IF poisons /\ AbilityOf(weapon) = "poison" THEN Start(e, v, "poison") ELSE e, u, v, p)
    BY DEF f, ep
  <2>3. e = Struck(d, u, v, dmg)
    BY DEF e
  <2>. DEFINE raw == IF AbilityOf(weapon) # "vampire" THEN f
                     ELSE [f EXCEPT !.hp[u] = @ + Max({0, Min({HpMax(f, u) - @, Rounded(dmg * Leech, 100)})})]
              hr == DogsFought(AddXp(raw, u, HitXp), u, DogXp)
  <2>7. raw = g
    BY <2>1 DEF g
  <2>8. hr = h
    <3>. HIDE DEF raw, g
    <3>. QED BY <2>7 DEF h, x
  <2>9. Wounded(d, u, v, dmg, p, poisons, weapon) = IF hr.hp[v] = 0 THEN Start([hr EXCEPT !.fallen[v] = TRUE, !.saved[v] = FALSE], v, "dead") ELSE hr
    BY <2>2, <2>3 DEF Wounded
  <2>4. Wounded(d, u, v, dmg, p, poisons, weapon) = IF h.hp[v] = 0 THEN Start([h EXCEPT !.fallen[v] = TRUE, !.saved[v] = FALSE], v, "dead") ELSE h
    <3>. HIDE DEF hr, h
    <3>. QED BY <2>8, <2>9
  <2>. HIDE DEF fm, h, hd, hr, raw
  <2>5. Typed(h)
    <3>1. HitXp \in Nat
      BY StreetNumbers
    <3>2. Typed(x)
      BY <1>7, <3>1, AddXpCalm
    <3>. HIDE DEF x
    <3>. QED BY <3>2, DogsFoughtCalm DEF h
  <2>6. [h EXCEPT !.fallen[v] = TRUE, !.saved[v] = FALSE] = hs
    BY <2>5, ColumnNames DEF Typed
  <2>. QED BY <2>4, <2>6 DEF hd
<1>. HIDE DEF g
<1>9. Calm(g, x) /\ Typed(x)
  <2>1. HitXp \in Nat
    BY StreetNumbers
  <2>. QED BY <1>7, <2>1, AddXpCalm
<1>. HIDE DEF x
<1>10. Calm(x, h) /\ Typed(h)
  BY <1>9, DogsFoughtCalm
<1>. HIDE DEF h
<1>11. Hurting(d, h, v)
  BY <1>7, <1>9, <1>10, CalmHurts, HurtingChain
<1>12. CASE h.hp[v] # 0
  BY <1>8, <1>10, <1>11, <1>12 DEF Hurting, Calm, Bled
<1>13. CASE h.hp[v] = 0
  <2>1. Hurting(h, hf, v) /\ Typed(hf) /\ hf.fallen = [h.fallen EXCEPT ![v] = TRUE]
    BY <1>10, FallenHurts
  <2>2. hf.fallen[v]
    BY <1>10, <2>1, HealthColumns
  <2>. HIDE DEF hf
  <2>3. Hurting(d, hf, v)
    BY <1>11, <2>1, HurtingChain
  <2>4. Calm(d, hf)
    BY <2>2, <2>3 DEF Hurting, Calm, Bled
  <2>5. Calm(hf, hs) /\ Typed(hs)
    BY <2>1, SavedCalm
  <2>. HIDE DEF hs
  <2>6. Calm(hs, hd) /\ Typed(hd)
    <3>1. "dead" \in Timers \ {"jail"}
      BY DEF Timers
    <3>. QED BY <2>5, <3>1, StartCalm
  <2>. HIDE DEF hd
  <2>. QED BY <1>8, <1>13, <2>4, <2>5, <2>6, CalmChain
<1>. QED BY <1>12, <1>13

LEMMA HitStep ==
  ASSUME Typed(db), NEW u \in Users, NEW v \in Users, NEW dmg \in Damages, NEW p \in Steals \cup {0}, NEW poisons \in BOOLEAN,
         NEW draw \in QuestDraws, Hit(u, v, dmg, p, poisons, draw)
  PROVE  Calmly
<1>. DEFINE a == Regen(db, u)
            b == Revived(a, u)
            d == Revived(b, v)
            m == d.energy[u] - HitEnergy
            dm == [d EXCEPT !.energy[u] = m]
            s == Shot(dm, u)
            e == Start(s, u, "hit")
            w == Wounded(e, u, v, dmg, p, poisons, Weapon(d, u, TRUE))
<1>1. \/ Answer(d)
      \/ d.energy[u] >= HitEnergy /\ (Answer(e) \/ Answer(Track(w, u, "attack", 1, draw)))
  <2>1. Start(Shot([d EXCEPT !.energy[u] = @ - HitEnergy], u), u, "hit") = e
    OBVIOUS
  <2>2. HitEnergy \in Nat
    BY StreetNumbers
  <2>3. d.energy[u] \in Nat
    <3>1. Typed(a)
      BY RegenCalm
    <3>. HIDE DEF a
    <3>2. Typed(b)
      BY <3>1, RevivedCalm
    <3>. HIDE DEF b
    <3>3. Typed(d)
      BY <3>2, RevivedCalm
    <3>. HIDE DEF d
    <3>. QED BY <3>3, GrowthColumns
  <2>4. d = Revived(Revived(Regen(db, u), u), v)
    OBVIOUS
  <2>. HIDE DEF d, e
  <2>5. \/ Answer(d)
        \/ ~(d.energy[u] < HitEnergy) /\ (Answer(e) \/ Answer(Track(w, u, "attack", 1, draw)))
    BY <2>1, <2>4 DEF Hit
  <2>6. ~(d.energy[u] < HitEnergy) => d.energy[u] >= HitEnergy
    BY <2>2, <2>3
  <2>. HIDE DEF w
  <2>. QED BY <2>5, <2>6
<1>2. Calm(db, a) /\ Typed(a)
  BY RegenCalm
<1>. HIDE DEF a
<1>3. Calm(a, b) /\ Typed(b)
  BY <1>2, RevivedCalm
<1>. HIDE DEF b
<1>4. Calm(b, d) /\ Typed(d)
  BY <1>3, RevivedCalm
<1>. HIDE DEF d
<1>5. Calm(db, d)
  BY <1>2, <1>3, <1>4, CalmChain
<1>6. CASE Answer(d)
  BY <1>5, <1>6 DEF Calmly
<1>7. CASE d.energy[u] >= HitEnergy /\ (Answer(e) \/ Answer(Track(w, u, "attack", 1, draw)))
  <2>1. m \in Nat
    <3>1. d.energy[u] \in Nat /\ HitEnergy \in Nat
      BY <1>4, GrowthColumns, StreetNumbers
    <3>. QED BY <1>7, <3>1
  <2>. HIDE DEF m
  <2>2. Calm(d, dm) /\ Typed(dm)
    BY <1>4, <2>1, EnergyCalm
  <2>. HIDE DEF dm
  <2>3. Calm(dm, s) /\ Typed(s)
    BY <2>2, ShotCalm
  <2>. HIDE DEF s
  <2>4. Calm(s, e) /\ Typed(e)
    <3>1. "hit" \in Timers \ {"jail"}
      BY DEF Timers
    <3>. QED BY <2>3, <3>1, StartCalm
  <2>5. Calm(db, e)
    <3>. HIDE DEF e
    <3>. QED BY <1>5, <2>2, <2>3, <2>4, CalmChain
  <2>6. Calm(e, w) /\ Typed(w)
    <3>1. dmg \in Nat /\ p \in 0 .. 100
      BY StreetNumbers
    <3>. HIDE DEF e
    <3>. QED BY <2>4, <3>1, WoundedCalm
  <2>7. Calm(db, w)
    <3>. HIDE DEF e, w
    <3>. QED BY <2>5, <2>6, CalmChain
  <2>8. CASE Answer(e)
    BY <2>5, <2>8 DEF Calmly
  <2>9. CASE Answer(Track(w, u, "attack", 1, draw))
    <3>. HIDE DEF w
    <3>1. 1 \in Nat
      OBVIOUS
    <3>. QED BY <2>6, <2>7, <2>9, <3>1, TrackStep
  <2>. QED BY <1>7, <2>8, <2>9
<1>. QED BY <1>1, <1>6, <1>7

LEMMA PickStep ==
  ASSUME Typed(db), NEW u \in Users, Reroll(u) \/ Spy(u)
  PROVE  Calmly
<1>1. PickCost \in Nat /\ db.cash[u] \in Nat /\ db.cash[u] >= PickCost
  BY StreetNumbers, PurseColumns DEF Reroll, Spy
<1>2. -PickCost \in Int /\ db.cash[u] + (-PickCost) \in Nat
  BY <1>1
<1>. DEFINE d == Regen(db, u)
<1>3. Answer(Pay(d, u, -PickCost)) \/ Answer(Pay(db, u, -PickCost))
  BY DEF Reroll, Spy
<1>4. Calm(db, d) /\ Typed(d) /\ Frame(db, d, {"energy"})
  BY RegenCalm
<1>. HIDE DEF d
<1>5. d.cash = db.cash
  BY <1>4, ColumnNames DEF Frame
<1>6. Calm(d, Pay(d, u, -PickCost)) /\ Calm(db, Pay(db, u, -PickCost))
  BY <1>2, <1>4, <1>5, PayCalm
<1>7. Calm(db, Pay(d, u, -PickCost))
  <2>. DEFINE e == Pay(d, u, -PickCost)
  <2>. HIDE DEF e
  <2>1. Calm(d, e)
    BY <1>6 DEF e
  <2>2. Calm(db, e)
    BY <1>4, <2>1, CalmChain
  <2>. QED BY <2>2 DEF e
<1>. QED BY <1>3, <1>6, <1>7 DEF Calmly

LEMMA LootCalm ==
  ASSUME NEW d, Typed(d), NEW u \in Users, NEW v \in Users, NEW r \in Res
  PROVE  Calm(d, Loot(d, u, v, r)) /\ Typed(Loot(d, u, v, r))
<1>. DEFINE have == d.res[<<v, r>>]
            q == Percent(have, LootShare)
            room == ResRoom(d, u, r)
            took == Min({Max({1, q}), room})
            f == [d.res EXCEPT ![<<v, r>>] = @ - took, ![<<u, r>>] = @ + took]
            e == [d EXCEPT !["res"] = f]
<1>1. CASE ~(have > 0)
  BY <1>1, CalmSelf DEF Loot
<1>2. CASE have > 0
  <2>1. have \in Nat /\ room \in Nat
    BY StoresColumns, RoomNat
  <2>2. q \in 0 .. have
    BY <2>1, StreetNumbers, PercentPart DEF Percent
  <2>. HIDE DEF q, room
  <2>3. took \in 0 .. have
    <3>. DEFINE g == Max({1, q})
    <3>1. 1 \in Int /\ q \in Int
      BY <2>1, <2>2
    <3>2. g = IF 1 >= q THEN 1 ELSE q
      BY <3>1, Pairs
    <3>3. g \in Int /\ room \in Int /\ 0 <= g /\ g <= have
      <4>. HIDE DEF have, g
      <4>. QED BY <1>2, <2>1, <2>2, <3>2
    <3>. HIDE DEF g
    <3>4. Min({g, room}) = IF g <= room THEN g ELSE room
      BY <3>3, Pairs
    <3>5. took = Min({g, room})
      BY DEF g
    <3>. HIDE DEF took, have
    <3>. QED BY <2>1, <3>3, <3>4, <3>5
  <2>4. Loot(d, u, v, r) = e
    BY <1>2 DEF Loot, q, room
  <2>5. f \in [Users \X Res -> Nat]
    <3>1. d.res \in [Users \X Res -> Nat] /\ <<v, r>> \in Users \X Res /\ <<u, r>> \in Users \X Res
      BY StoresColumns
    <3>2. took \in Nat /\ d.res[<<v, r>>] - took \in Nat
      <4>. HIDE DEF took
      <4>1. d.res[<<v, r>>] = have
        OBVIOUS
      <4>. HIDE DEF have
      <4>. QED BY <2>1, <2>3, <4>1
    <3>. HIDE DEF took
    <3>3. [d.res EXCEPT ![<<v, r>>] = @ - took] \in [Users \X Res -> Nat]
      BY <3>1, <3>2
    <3>4. \A h \in [Users \X Res -> Nat] : [h EXCEPT ![<<u, r>>] = @ + took] \in [Users \X Res -> Nat]
      BY <3>1, <3>2
    <3>5. f = [[d.res EXCEPT ![<<v, r>>] = @ - took] EXCEPT ![<<u, r>>] = @ + took]
      OBVIOUS
    <3>. HIDE DEF f
    <3>. QED BY <3>3, <3>4, <3>5
  <2>. HIDE DEF f
  <2>6. OfType("res", f) /\ "res" \in Columns \ Guarded
    BY <2>5, StoresColumns, ColumnNames DEF Guarded
  <2>7. Calm(d, e) /\ Typed(e)
    BY <2>6, PutCalm
  <2>. HIDE DEF e
  <2>. QED BY <2>4, <2>7
<1>. QED BY <1>1, <1>2

LEMMA FoughtCalm ==
  ASSUME NEW d, Typed(d), NEW u \in Users, NEW v \in Users, NEW won \in BOOLEAN, NEW p \in 0 .. 100, d.energy[u] >= PvEnergy
  PROVE  Calm(d, Fought(d, u, v, won, p)) /\ Typed(Fought(d, u, v, won, p))
<1>. DEFINE a == [d EXCEPT !.energy[u] = @ - PvEnergy]
            b == Start(a, u, "pv")
            c == Shot(b, u)
            e == Start(c, v, "shield")
            s == Stolen(e, u, v, p)
            w == Loot(s, u, v, "wood")
            i == Loot(w, u, v, "iron")
            l == Stolen(e, v, u, Penalty)
            f == IF won THEN i ELSE l
            n == IF won THEN WinXp ELSE LoseXp
            x == AddXp(f, u, n)
            y == AddXp(x, v, VictimXp)
<1>1. Fought(d, u, v, won, p) = y
  BY DEF Fought
<1>2. Calm(d, a) /\ Typed(a)
  <2>. DEFINE m == d.energy[u] - PvEnergy
  <2>1. m \in Nat
    <3>1. d.energy[u] \in Nat /\ PvEnergy \in Nat
      BY GrowthColumns, StreetNumbers
    <3>. QED BY <3>1
  <2>2. a = [d EXCEPT !.energy[u] = m]
    OBVIOUS
  <2>. HIDE DEF m
  <2>. QED BY <2>1, <2>2, EnergyCalm
<1>3. "pv" \in Timers \ {"jail"} /\ "shield" \in Timers \ {"jail"} /\ "wood" \in Res /\ "iron" \in Res
  BY DEF Timers, Res
<1>4. WinXp \in Nat /\ LoseXp \in Nat /\ VictimXp \in Nat /\ Penalty \in 0 .. 100
  BY StreetNumbers
<1>. HIDE DEF a
<1>5. Calm(a, b) /\ Typed(b)
  BY <1>2, <1>3, StartCalm
<1>. HIDE DEF b
<1>6. Calm(b, c) /\ Typed(c)
  BY <1>5, ShotCalm
<1>. HIDE DEF c
<1>7. Calm(c, e) /\ Typed(e)
  BY <1>3, <1>6, StartCalm
<1>. HIDE DEF e
<1>8. Calm(d, e)
  BY <1>2, <1>5, <1>6, <1>7, CalmChain
<1>9. Calm(e, s) /\ Typed(s)
  BY <1>7, StolenCalm
<1>. HIDE DEF s
<1>10. Calm(s, w) /\ Typed(w)
  BY <1>3, <1>9, LootCalm
<1>. HIDE DEF w
<1>11. Calm(w, i) /\ Typed(i)
  BY <1>3, <1>10, LootCalm
<1>. HIDE DEF i
<1>12. Calm(e, l) /\ Typed(l)
  BY <1>4, <1>7, StolenCalm
<1>. HIDE DEF l
<1>13. Calm(d, f) /\ Typed(f)
  <2>1. Calm(d, i)
    BY <1>8, <1>9, <1>10, <1>11, CalmChain
  <2>2. Calm(d, l)
    BY <1>8, <1>12, CalmChain
  <2>. QED BY <1>11, <1>12, <2>1, <2>2
<1>. HIDE DEF f
<1>14. n \in Nat
  BY <1>4
<1>. HIDE DEF n
<1>15. Calm(f, x) /\ Typed(x)
  BY <1>13, <1>14, AddXpCalm
<1>. HIDE DEF x
<1>16. Calm(x, y) /\ Typed(y)
  BY <1>4, <1>15, AddXpCalm
<1>. HIDE DEF y
<1>. QED BY <1>1, <1>13, <1>15, <1>16, CalmChain

LEMMA PvAttackStep ==
  ASSUME Typed(db), NEW u \in Users, NEW v \in Users, NEW breaks \in BOOLEAN, NEW drops \in BOOLEAN, NEW won \in BOOLEAN,
         NEW p \in Steals, NEW draw \in QuestDraws, PvAttack(u, v, breaks, drops, won, p, draw)
  PROVE  Calmly
<1>. DEFINE d == Regen(db, u)
            mine == Stop(d, u, "shield")
            paid == Pay(mine, u, -BreakCost)
            bare == Stop(paid, v, "shield")
            open == IF Running(mine, v, "shield") THEN bare ELSE mine
            f == Fought(open, u, v, won, p)
<1>1. Calm(db, d) /\ Typed(d)
  BY RegenCalm
<1>2. "shield" \in Timers \ {"jail"} /\ BreakCost \in Nat /\ PvEnergy \in Nat /\ p \in 0 .. 100
  BY StreetNumbers DEF Timers
<1>3. \/ Answer(mine)
      \/ /\ Running(mine, v, "shield") => ~(d.cash[u] < BreakCost)
         /\ \/ Answer(open)
            \/ ~(open.energy[u] < PvEnergy) /\ Answer(Track(f, u, "attack", 1, draw))
  BY DEF PvAttack
<1>. HIDE DEF d
<1>4. Calm(d, mine) /\ Typed(mine) /\ Frame(d, mine, {"clock"})
  BY <1>1, <1>2, StartCalm
<1>5. mine.cash = d.cash /\ mine.energy = d.energy
  <2>. HIDE DEF mine
  <2>. QED BY <1>4, ColumnNames DEF Frame
<1>. HIDE DEF mine
<1>6. d.cash[u] \in Nat /\ d.energy[u] \in Nat
  BY <1>1, PurseColumns, GrowthColumns
<1>7. Calm(db, mine)
  BY <1>1, <1>4, CalmChain
<1>8. ASSUME ~(d.cash[u] < BreakCost)
      PROVE  Calm(mine, bare) /\ Typed(bare)
  <2>1. -BreakCost \in Int /\ mine.cash[u] + (-BreakCost) \in Nat
    BY <1>2, <1>5, <1>6, <1>8
  <2>2. Calm(mine, paid) /\ Typed(paid)
    BY <1>4, <2>1, PayCalm
  <2>. HIDE DEF paid
  <2>3. Calm(paid, bare) /\ Typed(bare)
    BY <1>2, <2>2, StartCalm
  <2>. HIDE DEF bare
  <2>. QED BY <2>2, <2>3, CalmChain
<1>. HIDE DEF bare
<1>9. CASE Answer(mine)
  BY <1>7, <1>9 DEF Calmly
<1>10. CASE /\ Running(mine, v, "shield") => ~(d.cash[u] < BreakCost)
            /\ \/ Answer(open)
               \/ ~(open.energy[u] < PvEnergy) /\ Answer(Track(f, u, "attack", 1, draw))
  <2>1. Calm(mine, open) /\ Typed(open)
    BY <1>4, <1>8, <1>10, CalmSelf
  <2>. HIDE DEF open
  <2>2. Calm(db, open)
    BY <1>7, <2>1, CalmChain
  <2>3. CASE Answer(open)
    BY <2>2, <2>3 DEF Calmly
  <2>4. CASE ~(open.energy[u] < PvEnergy) /\ Answer(Track(f, u, "attack", 1, draw))
    <3>1. open.energy[u] \in Nat
      BY <2>1, GrowthColumns
    <3>2. open.energy[u] >= PvEnergy
      BY <1>2, <2>4, <3>1
    <3>3. Calm(open, f) /\ Typed(f)
      BY <1>2, <2>1, <3>2, FoughtCalm
    <3>. HIDE DEF f
    <3>4. Calm(db, f)
      BY <2>2, <3>3, CalmChain
    <3>5. 1 \in Nat
      OBVIOUS
    <3>. QED BY <2>4, <3>3, <3>4, <3>5, TrackStep
  <2>. QED BY <1>10, <2>3, <2>4
<1>. QED BY <1>3, <1>9, <1>10

-----------------------------------------------------------------------------
(* Administrators and the channel.                                         *)

LEMMA FlagsCalm ==
  ASSUME NEW d, Typed(d), NEW t \in {"hidden", "member", "left", "first"}, NEW u, NEW b
  PROVE  LET e == [d EXCEPT ![t] = [@ EXCEPT ![u] = b]] IN Calm(d, e) /\ Typed(e)
<1>. DEFINE f == [d[t] EXCEPT ![u] = b]
<1>1. d[t] = [k \in Users |-> d[t][k]]
  <2>1. /\ d.hidden = [k \in Users |-> d.hidden[k]] /\ d.first = [k \in Users |-> d.first[k]]
        /\ d.member = [k \in Users |-> d.member[k]] /\ d.left = [k \in Users |-> d.left[k]]
    BY OtherColumns, Zenon
  <2>. QED BY <2>1
<1>2. f = [k \in Users |-> f[k]]
  BY <1>1
<1>. HIDE DEF f
<1>3. OfType(t, f)
  <2>1. OfType("hidden", f) /\ OfType("first", f) /\ OfType("member", f) /\ OfType("left", f)
    BY <1>2, OtherColumns, Zenon
  <2>. QED BY <2>1
<1>4. t \in Columns \ Guarded
  BY ColumnNames DEF Guarded
<1>5. LET e == [d EXCEPT ![t] = f] IN Calm(d, e) /\ Typed(e) /\ Frame(d, e, {t}) /\ e[t] = f
  BY <1>3, <1>4, PutCalm
<1>. QED BY <1>5 DEF f

LEMMA PurseStep ==
  ASSUME Typed(db), NEW u \in Users, NEW n \in Nat,
         AddTp(u, n) \/ AddGem(u, n) \/ TakeTp(u, n) \/ GiveXp(u, n) \/ TakeXp(u, n) \/ HideBoard(u)
  PROVE  Calmly
<1>1. n \in Nat /\ db.cash[u] \in Nat /\ db.gems[u] \in Nat /\ db.xp[u] \in Nat
  BY PurseColumns, GrowthColumns
<1>2. CASE AddTp(u, n)
  <2>1. n \in Int /\ db.cash[u] + n \in Nat
    BY <1>1
  <2>. QED BY <1>2, <2>1, PayCalm DEF AddTp, Calmly
<1>3. CASE AddGem(u, n)
  <2>. DEFINE m == db.gems[u] + n
  <2>1. m \in Nat
    BY <1>1
  <2>2. Answer([db EXCEPT !.gems[u] = m])
    BY <1>3 DEF AddGem
  <2>. HIDE DEF m
  <2>. QED BY <2>1, <2>2, GemsCalm DEF Calmly
<1>4. CASE TakeTp(u, n)
  <2>. DEFINE m == Max({0, db.cash[u] - n})
              p == m - db.cash[u]
              e == Pay(db, u, p)
  <2>1. m \in Nat
    <3>1. db.cash[u] - n \in Int
      BY <1>1
    <3>. QED BY <3>1, ClippedNat, Zenon
  <2>2. [db EXCEPT !.cash[u] = Max({0, @ - n})] = [db EXCEPT !.cash[u] = m]
    OBVIOUS
  <2>. HIDE DEF m
  <2>3. p \in Int /\ db.cash[u] + p = m
    BY <1>1, <2>1
  <2>4. Answer([db EXCEPT !.cash[u] = m])
    BY <1>4, <2>2 DEF TakeTp
  <2>5. e = [db EXCEPT !.cash[u] = m]
    <3>. HIDE DEF p
    <3>. QED BY <2>3 DEF Pay
  <2>. HIDE DEF p
  <2>6. Calm(db, e)
    BY <2>1, <2>3, PayCalm
  <2>. HIDE DEF e
  <2>. QED BY <2>4, <2>5, <2>6 DEF Calmly
<1>5. CASE GiveXp(u, n)
  BY <1>1, <1>5, AddXpCalm DEF GiveXp, Calmly
<1>6. CASE TakeXp(u, n)
  <2>. DEFINE m == Max({0, db.xp[u] - n})
              f == [db.xp EXCEPT ![u] = m]
              e == [db EXCEPT !["xp"] = f]
  <2>1. m \in Nat
    <3>1. db.xp[u] - n \in Int
      BY <1>1
    <3>. QED BY <3>1, ClippedNat, Zenon
  <2>2. Answer(e)
    BY <1>6 DEF TakeXp
  <2>. HIDE DEF m
  <2>3. OfType("xp", f) /\ "xp" \in Columns \ Guarded
    <3>1. f \in [Users -> Nat]
      BY <2>1, GrowthColumns
    <3>. HIDE DEF f
    <3>. QED BY <3>1, GrowthColumns, ColumnNames DEF Guarded
  <2>. HIDE DEF f
  <2>4. Calm(db, e)
    BY <2>3, PutCalm
  <2>. QED BY <2>2, <2>4 DEF Calmly
<1>7. CASE HideBoard(u)
  <2>1. [db EXCEPT !.hidden[u] = ~@] = [db EXCEPT !["hidden"] = [@ EXCEPT ![u] = ~db.hidden[u]]]
    OBVIOUS
  <2>. DEFINE e == [db EXCEPT !["hidden"] = [@ EXCEPT ![u] = ~db.hidden[u]]]
  <2>2. Calm(db, e)
    BY FlagsCalm
  <2>3. Answer(e)
    BY <1>7, <2>1 DEF HideBoard
  <2>. HIDE DEF e
  <2>. QED BY <2>2, <2>3 DEF Calmly
<1>. QED BY <1>2, <1>3, <1>4, <1>5, <1>6, <1>7

LEMMA AddCropStep ==
  ASSUME Typed(db), NEW u \in Users, NEW c \in Crops, NEW n \in Amounts, NEW w \in Worths, AddCrop(u, c, n, w)
  PROVE  Calmly
<1>1. n \in Nat /\ w \in Nat
  BY AmountsNat, FarmAssumption
<1>2. w * n \in Nat
  BY <1>1, ProductNat
<1>. QED BY <1>1, <1>2, AddProductCalm DEF AddCrop, Calmly

\* Who gets his points again has spent points on stamina only.
LEMMA StaminaOnly ==
  ASSUME Typed(db), NEW u \in Users, SpentNone(u)
  PROVE  PointsSpent(db, u) = db.skill[u]["stamina"]
<1>. DEFINE f == db.skill[u]
            rest == Skills \ {"stamina"}
<1>1. f \in [Skills -> Nat] /\ IsFiniteSet(Skills) /\ "stamina" \in Skills /\ \A s \in rest : f[s] = 0
  BY GrowthColumns, AccountsAssumption DEF SpentNone
<1>. HIDE DEF f
<1>2. IsFiniteSet(rest) /\ \A s \in Skills : f[s] \in Nat
  BY <1>1, FS_RemoveElement
<1>3. SumFunctionOnSet(f, Skills) = f["stamina"] + SumFunctionOnSet(f, rest)
  <2>1. \A s \in Skills : f[s] \in Int
    BY <1>2
  <2>. QED BY <1>1, <2>1, SumRemove
<1>4. SumFunctionOnSet(f, rest) = 0
  BY <1>1, <1>2, SumZero
<1>5. SumFunctionOnSet(f, Skills) = f["stamina"]
  BY <1>1, <1>2, <1>3, <1>4
<1>. QED BY <1>5 DEF PointsSpent, f

LEMMA UpdateStep ==
  ASSUME Typed(db), UpdateCmd
  PROVE  Calmly
<1>. DEFINE p == [u \in Users |-> IF SpentNone(u) THEN ExpectedPoints(db.level[u]) ELSE db.points[u]]
            a == [u \in Users |-> IF SpentNone(u) THEN db.skill[u]["stamina"] ELSE db.again[u]]
            f == [u \in Users |-> IF Plots(u) # {} THEN db.first[u] \cup {"plot"} ELSE db.first[u]]
            e == [db EXCEPT !.points = p, !.again = a, !.first = f]
<1>1. Answer(e)
  BY DEF UpdateCmd
<1>2. ASSUME NEW u \in Users
      PROVE  /\ db.points[u] \in Nat /\ db.again[u] \in Nat /\ db.skill[u]["stamina"] \in Nat
             /\ ExpectedPoints(db.level[u]) \in Nat
  <2>1. "stamina" \in Skills
    BY AccountsAssumption
  <2>2. db.skill[u] \in [Skills -> Nat] /\ db.level[u] \in Levels /\ db.points[u] \in Nat /\ db.again[u] \in Nat
    BY GrowthColumns
  <2>. QED BY <2>1, <2>2, ExpectedGrows
<1>3. p \in [Users -> Nat] /\ a \in [Users -> Nat]
  BY <1>2
<1>4. ASSUME NEW u \in Users, Whole(db, u)
      PROVE  p[u] + PointsSpent(db, u) = ExpectedPoints(db.level[u]) + a[u]
  <2>1. CASE SpentNone(u)
    <3>1. p[u] = ExpectedPoints(db.level[u]) /\ a[u] = db.skill[u]["stamina"]
      BY <2>1
    <3>. QED BY <2>1, <3>1, StaminaOnly
  <2>2. CASE ~SpentNone(u)
    <3>1. p[u] = db.points[u] /\ a[u] = db.again[u]
      BY <2>2
    <3>. QED BY <1>4, <3>1 DEF Whole
  <2>. QED BY <2>1, <2>2
<1>5. f = [u \in Users |-> f[u]]
  OBVIOUS
<1>6. Frame(db, e, {"points", "again", "first"}) /\ e.points = p /\ e.again = a /\ e.first = f
  BY ColumnNames DEF Typed, Frame
<1>. HIDE DEF e, p, a, f
<1>7. \A t \in {"points", "again", "first"} : OfType(t, e[t])
  <2>1. OfType("points", p) /\ OfType("again", a)
    BY <1>3, GrowthColumns
  <2>2. OfType("first", f)
    BY <1>5, OtherColumns, Zenon
  <2>. QED BY <1>6, <2>1, <2>2
<1>8. Typed(e)
  BY <1>6, <1>7, FrameTyped
<1>9. \A t \in Guarded \ {"points", "again"} : e[t] = db[t]
  BY <1>6, ColumnNames DEF Frame, Guarded
<1>10. /\ e.skill = db.skill /\ e.level = db.level /\ e.bank = db.bank /\ e.vault = db.vault
       /\ e.hp = db.hp /\ e.fallen = db.fallen /\ e.ship = db.ship /\ e.life = db.life /\ e.clock = db.clock
  BY <1>9 DEF Guarded
<1>11. ASSUME NEW u \in Users, Whole(db, u) PROVE Whole(e, u)
  BY <1>4, <1>6, <1>10, <1>11 DEF Whole, PointsSpent
<1>12. Calm(db, e)
  BY <1>8, <1>10, <1>11 DEF Calm, Steady, Within, Bled
<1>. QED BY <1>1, <1>12 DEF Calmly

LEMMA ChannelStep ==
  ASSUME Typed(db), NEW u \in Users, NEW inside \in BOOLEAN, ChannelCheck(u, inside)
  PROVE  Calmly
<1>. DEFINE m(x) == [db EXCEPT !["member"] = [@ EXCEPT ![u] = x]]
            l(x, b) == [m(x) EXCEPT !["left"] = [@ EXCEPT ![u] = b]]
            e == Checked(db, u, inside)
<1>1. e \in {Stop(l(1, FALSE), u, "away"), m(0), Start(l(0, TRUE), u, "away")}
  <2>1. \A x, b : [db EXCEPT !.member[u] = x, !.left[u] = b] = l(x, b)
    BY ColumnNames DEF Typed
  <2>2. [db EXCEPT !.member[u] = 0] = m(0)
    OBVIOUS
  <2>. HIDE DEF m, l
  <2>. QED BY <2>1, <2>2 DEF Checked
<1>2. ASSUME NEW x PROVE Calm(db, m(x)) /\ Typed(m(x))
  BY FlagsCalm
<1>3. ASSUME NEW x, NEW b PROVE Calm(db, l(x, b)) /\ Typed(l(x, b))
  <2>1. Calm(db, m(x)) /\ Typed(m(x))
    BY <1>2
  <2>. HIDE DEF m
  <2>2. Calm(m(x), l(x, b)) /\ Typed(l(x, b))
    BY <2>1, FlagsCalm
  <2>. HIDE DEF l
  <2>. QED BY <2>1, <2>2, CalmChain
<1>. HIDE DEF m, l
<1>4. "away" \in Timers \ {"jail"}
  BY DEF Timers
<1>5. ASSUME NEW x, NEW b PROVE Calm(db, Stop(l(x, b), u, "away")) /\ Calm(db, Start(l(x, b), u, "away"))
  <2>. DEFINE y == Stop(l(x, b), u, "away")
              z == Start(l(x, b), u, "away")
  <2>1. Calm(db, l(x, b)) /\ Typed(l(x, b))
    BY <1>3
  <2>2. Calm(l(x, b), y) /\ Calm(l(x, b), z)
    BY <1>4, <2>1, StartCalm
  <2>. HIDE DEF y, z
  <2>3. Calm(db, y) /\ Calm(db, z)
    BY <2>1, <2>2, CalmChain
  <2>. QED BY <2>3 DEF y, z
<1>6. Calm(db, e)
  <2>. HIDE DEF e
  <2>. QED BY <1>1, <1>2, <1>5
<1>7. Answer(e)
  BY DEF ChannelCheck
<1>. HIDE DEF e
<1>. QED BY <1>6, <1>7 DEF Calmly

-----------------------------------------------------------------------------
(* The kinds of handlers.                                                  *)

\* Every account keeps what holds of it, or begins anew and it holds.
Accounted(d, e) ==
  \A u \in Users :
    \/ /\ e.life[u] = d.life[u]
       /\ Whole(d, u) => Whole(e, u)
       /\ Within(d, u) => Within(e, u)
       /\ Bled(d, u) => Bled(e, u)
    \/ e.life[u] = d.life[u] + 1 /\ Whole(e, u) /\ Within(e, u) /\ Bled(e, u)

\* No load is touched, or one sets out that there is room for.
Loading(d, e) ==
  \/ e.ship = d.ship
  \/ \E i \in Ships, row \in ShipRows :
       d.ship[i] = NULL /\ Cardinality(OnRoad(d, row.who)) < MaxShipments /\ e.ship = [d.ship EXCEPT ![i] = row]

\* The sentences: as they were, one more and noted, or one less for a bribe,
\* which writes no row that can be gone.
Jailed(d, u) == d.clock[<<u, "jail">>]
Sentenced(d, e, m) ==
  \/ m = mem /\ \A u \in Users : Jailed(e, u) = Jailed(d, u)
  \/ \E v \in Users : m = Noted(v) /\ \A u \in Users \ {v} : Jailed(e, u) = Jailed(d, u)
  \/ \E v \in Users : /\ m = [mem EXCEPT !.jail = @ \ {v}]
                      /\ Jailed(d, v) /\ ~Jailed(e, v) /\ \A u \in Users \ {v} : Jailed(e, u) = Jailed(d, u)
                      /\ (\A t \in Rows : e[t] = d[t]) /\ e.seed = d.seed

Handled(d, e, m) == Typed(e) /\ Accounted(d, e) /\ Loading(d, e) /\ Sentenced(d, e, m)
Handling == \E e, m : AnswerWith(e, m) /\ Handled(db, e, m)

LEMMA CalmHandles == ASSUME Calmly PROVE Handling
<1>1. PICK d : Calm(db, d) /\ Answer(d)
  BY DEF Calmly
<1>2. Handled(db, d, mem)
  BY <1>1 DEF Calm, Steady, Handled, Accounted, Loading, Sentenced, Jailed
<1>. QED BY <1>1, <1>2 DEF Handling, Answer

LEMMA LeastOf == ASSUME NEW S, S \subseteq Nat, S # {} PROVE Min(S) \in S
<1>1. PICK x \in S : \A y \in S : ~(<<y, x>> \in LessThan)
  BY LessThanIsWellFounded, WFMin
<1>2. ASSUME NEW y \in S PROVE x <= y
  <2>1. x \in Nat /\ y \in Nat /\ ~(y < x)
    BY <1>1, LessThanIsLess
  <2>. QED BY <2>1
<1>. QED BY <1>2 DEF Min

LEMMA SendShipmentStep ==
  ASSUME Typed(db), NEW u \in Users, NEW c \in Crops, NEW n \in Amounts, NEW fate \in Fates, NEW seize \in Seizes \cup {0},
         NEW draw \in QuestDraws, SendShipment(u, c, n, fate, seize, draw)
  PROVE  Handling
<1>. DEFINE free == {i \in Ships : db.ship[i] = NULL}
            i == Min(free)
            k == Taking(db, u, c, n)
            x == Rounded(k * seize, 100)
            pay == IF fate = "police" THEN k - x ELSE k
            q == Cheap(db, u, pay)
            row == [who |-> u, crop |-> c, qty |-> n, pay |-> q, fate |-> fate, hops |-> 0, due |-> FALSE]
            t == Took(db, u, c, n)
            s == [t EXCEPT !.ship[i] = row]
            d == FirstTime(s, u, "shipment")
            e == Track(d, u, "shipment", 1, draw)
<1>1. Cardinality(OnRoad(db, u)) < MaxShipments /\ CanTake(db, u, c, n) /\ free # {} /\ Answer(e)
  <2>1. Sent(db, u, c, n, fate, seize, i) = s
    BY DEF Sent
  <2>. HIDE DEF free, s, e
  <2>2. e = Track(FirstTime(s, u, "shipment"), u, "shipment", 1, draw)
    BY DEF e
  <2>3. free = {j \in Ships : db.ship[j] = NULL}
    BY DEF free
  <2>. QED BY <2>1, <2>2, <2>3 DEF SendShipment
<1>2. i \in Ships /\ db.ship[i] = NULL
  <2>1. free \subseteq Nat
    BY RoadsAssumption DEF Ships
  <2>2. i \in free
    <3>. HIDE DEF free
    <3>. QED BY <1>1, <2>1, LeastOf
  <2>. QED BY <2>2
<1>. HIDE DEF i
<1>3. n \in Nat
  BY AmountsNat
<1>4. Calm(db, t) /\ Typed(t) /\ Frame(db, t, {"good"})
  BY <1>1, <1>3, TookCalm
<1>5. row \in ShipRows
  <2>1. k \in Nat
    <3>1. Taking(db, u, c, n) \in 0 .. db.good[<<u, c>>].value /\ db.good[<<u, c>>].value \in Nat
      BY <1>3, TakingPart
    <3>. QED BY <3>1
  <2>. HIDE DEF k
  <2>2. x \in 0 .. k
    <3>1. seize \in 0 .. 100
      BY RoadsAssumption
    <3>. QED BY <2>1, <3>1, RoundedPart
  <2>. HIDE DEF x
  <2>3. pay \in Nat
    BY <2>1, <2>2
  <2>. HIDE DEF pay
  <2>4. q \in Nat
    BY <2>3, CheapNat
  <2>. HIDE DEF q
  <2>. QED BY <1>3, <2>4 DEF ShipRows, Fates
<1>6. row.who = u
  OBVIOUS
<1>. HIDE DEF row, t
<1>7. Typed(s) /\ Accounted(db, s) /\ (\A v \in Users : Jailed(s, v) = Jailed(db, v)) /\ s.ship = [db.ship EXCEPT ![i] = row]
  <2>1. t.ship = db.ship
    BY <1>4 DEF Calm, Steady
  <2>2. Frame(t, s, {"ship"}) /\ s.ship = [t.ship EXCEPT ![i] = row]
    BY <1>4, ColumnNames DEF Typed, Frame
  <2>3. OfType("ship", s.ship)
    <3>1. t.ship \in [Ships -> ShipRows \cup {NULL}]
      <4>. HIDE DEF ShipRows
      <4>. QED BY <1>4, ShippingColumns
    <3>2. s.ship \in [Ships -> ShipRows \cup {NULL}]
      <4>. HIDE DEF ShipRows, s
      <4>. QED BY <1>2, <1>5, <2>2, <3>1
    <3>. HIDE DEF s
    <3>. QED BY <3>2, ShippingColumns
  <2>. HIDE DEF s
  <2>4. Typed(s)
    <3>1. \A y \in {"ship"} : OfType(y, s[y])
      BY <2>3
    <3>. QED BY <1>4, <2>2, <3>1, FrameTyped
  <2>5. \A y \in Guarded \ {"ship"} : s[y] = t[y]
    BY <2>2, ColumnNames DEF Frame, Guarded
  <2>6. /\ s.points = t.points /\ s.again = t.again /\ s.skill = t.skill /\ s.level = t.level /\ s.bank = t.bank /\ s.vault = t.vault
        /\ s.hp = t.hp /\ s.fallen = t.fallen /\ s.life = t.life /\ s.clock = t.clock
    BY <2>5 DEF Guarded
  <2>7. Accounted(db, s)
    BY <1>4, <2>6 DEF Calm, Steady, Accounted, Whole, Within, Bled, PointsSpent
  <2>8. \A v \in Users : Jailed(s, v) = Jailed(db, v)
    BY <1>4, <2>6 DEF Calm, Steady, Jailed
  <2>. QED BY <2>1, <2>2, <2>4, <2>7, <2>8
<1>. HIDE DEF s
<1>8. Calm(s, d) /\ Typed(d)
  <2>1. "shipment" \in FirstTimes
    BY DEF FirstTimes
  <2>. QED BY <1>7, <2>1, FirstTimeCalm
<1>. HIDE DEF d
<1>9. Calm(d, e) /\ Typed(e)
  <2>1. 1 \in Nat
    OBVIOUS
  <2>. QED BY <1>8, <2>1, TrackCalm
<1>. HIDE DEF e
<1>10. Calm(s, e)
  BY <1>8, <1>9, CalmChain
<1>11. Accounted(db, e) /\ (\A v \in Users : Jailed(e, v) = Jailed(db, v)) /\ e.ship = [db.ship EXCEPT ![i] = row]
  BY <1>7, <1>10 DEF Calm, Steady, Accounted, Jailed
<1>12. Handled(db, e, mem)
  BY <1>1, <1>2, <1>5, <1>6, <1>9, <1>11 DEF Handled, Loading, Sentenced
<1>. QED BY <1>1, <1>12 DEF Handling, Answer

LEMMA SeizedCalm ==
  ASSUME NEW d, Typed(d), NEW v \in Users
  PROVE  LET e == Seized(d, v) IN Calm(d, e) /\ Typed(e)
<1>. DEFINE f == [x \in DOMAIN d.good |-> IF x[1] = v /\ d.good[x].value > 0 THEN NoGood ELSE d.good[x]]
            e == [d EXCEPT !["good"] = f]
<1>1. OfType("good", f)
  <2>1. d.good \in [Users \X Crops -> [qty : Nat, value : Nat]]
    BY LandColumns
  <2>2. NoGood \in [qty : Nat, value : Nat]
    BY DEF NoGood
  <2>3. f \in [Users \X Crops -> [qty : Nat, value : Nat]]
    BY <2>1, <2>2
  <2>. HIDE DEF f
  <2>. QED BY <2>3, LandColumns
<1>2. Seized(d, v) = e
  BY DEF Seized
<1>3. "good" \in Columns \ Guarded
  BY ColumnNames DEF Guarded
<1>. HIDE DEF f
<1>4. Calm(d, e) /\ Typed(e)
  BY <1>1, <1>3, PutCalm
<1>. HIDE DEF e
<1>. QED BY <1>2, <1>4

LEMMA CountedCalm ==
  ASSUME NEW d, Typed(d), NEW u \in Users
  PROVE  LET e == Counted(d, u) IN Calm(d, e) /\ Typed(e)
<1>. DEFINE n == (IF Running(d, u, "window") THEN d.snitched[u] ELSE 0) + 1
            a == Start(d, u, "snitch")
            b == Start(a, u, "window")
            put(m) == [b EXCEPT !["snitched"] = [@ EXCEPT ![u] = m]]
            e == Start(put(0), u, "khaye")
<1>1. Counted(d, u) \in {e, put(n)}
  BY DEF Counted
<1>2. n \in Nat
  <2>1. d.snitched[u] \in Nat
    BY MarksColumns
  <2>. QED BY <2>1
<1>. HIDE DEF n
<1>3. "snitch" \in Timers \ {"jail"} /\ "window" \in Timers \ {"jail"} /\ "khaye" \in Timers \ {"jail"}
  BY DEF Timers
<1>4. Calm(d, a) /\ Typed(a)
  BY <1>3, StartCalm
<1>. HIDE DEF a
<1>5. Calm(a, b) /\ Typed(b)
  BY <1>3, <1>4, StartCalm
<1>. HIDE DEF b
<1>6. ASSUME NEW m \in Nat PROVE Calm(b, put(m)) /\ Typed(put(m))
  <2>. DEFINE f == [b.snitched EXCEPT ![u] = m]
  <2>1. OfType("snitched", f) /\ "snitched" \in Columns \ Guarded
    <3>1. f \in [Users -> Nat]
      BY <1>5, MarksColumns
    <3>. HIDE DEF f
    <3>. QED BY <3>1, MarksColumns, ColumnNames DEF Guarded
  <2>2. put(m) = [b EXCEPT !["snitched"] = f]
    OBVIOUS
  <2>. HIDE DEF f, put
  <2>3. LET y == [b EXCEPT !["snitched"] = f] IN Calm(b, y) /\ Typed(y) /\ Frame(b, y, {"snitched"}) /\ y["snitched"] = f
    BY <1>5, <2>1, PutCalm
  <2>. QED BY <2>2, <2>3
<1>. HIDE DEF put
<1>7. Calm(b, put(0)) /\ Typed(put(0)) /\ Calm(b, put(n)) /\ Typed(put(n))
  BY <1>2, <1>6
<1>8. Calm(put(0), e) /\ Typed(e)
  BY <1>3, <1>7, StartCalm
<1>. HIDE DEF e
<1>9. Calm(d, e)
  BY <1>4, <1>5, <1>7, <1>8, CalmChain
<1>10. Calm(d, put(n))
  BY <1>4, <1>5, <1>7, CalmChain
<1>. HIDE DEF Counted
<1>. QED BY <1>1, <1>7, <1>8, <1>9, <1>10

\* Somebody is jailed or set free.
LEMMA JailStarts ==
  ASSUME NEW d, Typed(d), NEW v \in Users, NEW b \in BOOLEAN
  PROVE  LET e == [d EXCEPT !.clock[<<v, "jail">>] = b]
         IN  /\ Typed(e) /\ Accounted(d, e) /\ e.ship = d.ship /\ Frame(d, e, {"clock"})
             /\ Jailed(e, v) = b /\ \A u \in Users \ {v} : Jailed(e, u) = Jailed(d, u)
<1>. DEFINE f == [d.clock EXCEPT ![<<v, "jail">>] = b]
            e == [d EXCEPT !.clock[<<v, "jail">>] = b]
<1>1. f \in [Users \X Timers -> BOOLEAN] /\ f[<<v, "jail">>] = b /\ \A u \in Users \ {v} : f[<<u, "jail">>] = d.clock[<<u, "jail">>]
  <2>1. d.clock \in [Users \X Timers -> BOOLEAN] /\ "jail" \in Timers
    BY ClocksColumns DEF Timers
  <2>. HIDE DEF Timers
  <2>. QED BY <2>1
<1>2. Frame(d, e, {"clock"}) /\ e.clock = f
  BY ColumnNames DEF Typed, Frame
<1>. HIDE DEF e, f
<1>3. Typed(e)
  <2>1. \A t \in {"clock"} : OfType(t, e[t])
    BY <1>1, <1>2, ClocksColumns
  <2>. QED BY <1>2, <2>1, FrameTyped
<1>4. \A t \in Guarded \ {"clock"} : e[t] = d[t]
  BY <1>2, ColumnNames DEF Frame, Guarded
<1>5. /\ e.points = d.points /\ e.again = d.again /\ e.skill = d.skill /\ e.level = d.level /\ e.bank = d.bank /\ e.vault = d.vault
      /\ e.hp = d.hp /\ e.fallen = d.fallen /\ e.ship = d.ship /\ e.life = d.life
  BY <1>4 DEF Guarded
<1>6. Accounted(d, e)
  BY <1>5 DEF Accounted, Whole, Within, Bled, PointsSpent
<1>7. Jailed(e, v) = b /\ \A u \in Users \ {v} : Jailed(e, u) = Jailed(d, u)
  BY <1>1, <1>2 DEF Jailed
<1>. QED BY <1>2, <1>3, <1>5, <1>6, <1>7 DEF e

LEMMA SnitchStep ==
  ASSUME Typed(db), NEW u \in Users, NEW v \in Users, Snitch(u, v)
  PROVE  Handling
<1>. DEFINE d == Counted(db, u)
            n == SeizedWorth(d, v)
            p == Rounded(n * SnitchShare, 100) + SnitchBonus
            s == Seized(d, v)
            q == Pay(s, u, p)
            e == Start(q, v, "jail")
<1>1. Answer(d) \/ AnswerWith(e, Noted(v))
  BY DEF Snitch
<1>2. Calm(db, d) /\ Typed(d)
  BY CountedCalm
<1>3. CASE Answer(d)
  BY <1>2, <1>3, CalmHandles DEF Calmly
<1>4. CASE AnswerWith(e, Noted(v))
  <2>. HIDE DEF d
  <2>1. n \in Nat
    <3>1. IsFiniteSet(Crops)
      BY FarmAssumption
    <3>. DEFINE g == [c \in Crops |-> d.good[<<v, c>>].value]
    <3>2. \A c \in Crops : g[c] \in Nat
      <4>1. d.good \in [Users \X Crops -> [qty : Nat, value : Nat]]
        BY <1>2, LandColumns
      <4>. QED BY <4>1
    <3>3. n = SumFunctionOnSet(g, Crops)
      BY DEF SeizedWorth
    <3>. HIDE DEF g
    <3>. QED BY <3>1, <3>2, <3>3, SumIsNat
  <2>. HIDE DEF n
  <2>2. p \in Nat
    <3>1. SnitchShare \in Nat /\ SnitchBonus \in Nat
      BY StreetNumbers
    <3>2. n * SnitchShare \in Nat
      BY <2>1, <3>1, ProductNat
    <3>3. Rounded(n * SnitchShare, 100) \in Nat
      BY <3>2, RoundedNat
    <3>. QED BY <3>1, <3>3
  <2>. HIDE DEF p
  <2>3. Calm(d, s) /\ Typed(s)
    BY <1>2, SeizedCalm
  <2>. HIDE DEF s
  <2>4. Calm(s, q) /\ Typed(q)
    <3>1. p \in Int /\ s.cash[u] + p \in Nat
      BY <2>2, <2>3, PurseColumns
    <3>. QED BY <2>3, <3>1, PayCalm
  <2>. HIDE DEF q
  <2>5. Calm(db, q)
    BY <1>2, <2>3, <2>4, CalmChain
  <2>6. /\ Typed(e) /\ Accounted(q, e) /\ e.ship = q.ship
        /\ \A w \in Users \ {v} : Jailed(e, w) = Jailed(q, w)
    BY <2>4, JailStarts DEF Start
  <2>. HIDE DEF e
  <2>7. Handled(db, e, Noted(v))
    BY <2>5, <2>6 DEF Calm, Steady, Handled, Accounted, Loading, Sentenced, Jailed
  <2>. QED BY <1>4, <2>7 DEF Handling
<1>. QED BY <1>1, <1>3, <1>4

LEMMA BribeStep ==
  ASSUME Typed(db), NEW u \in Users, Bribe(u)
  PROVE  Handling
<1>. DEFINE q == Pay(db, u, -BribeCost)
            e == Stop(q, u, "jail")
            m == [mem EXCEPT !.jail = @ \ {u}]
<1>1. Jailed(db, u) /\ db.cash[u] >= BribeCost /\ AnswerWith(e, m)
  BY DEF Bribe, Running, Jailed
<1>2. -BribeCost \in Int /\ db.cash[u] + (-BribeCost) \in Nat
  <2>1. BribeCost \in Nat /\ db.cash[u] \in Nat
    BY StreetNumbers, PurseColumns
  <2>. QED BY <1>1, <2>1
<1>3. Calm(db, q) /\ Typed(q) /\ Frame(db, q, {"cash"})
  BY <1>2, PayCalm
<1>. HIDE DEF q
<1>4. /\ Typed(e) /\ Accounted(q, e) /\ e.ship = q.ship /\ Frame(q, e, {"clock"})
      /\ ~Jailed(e, u) /\ \A w \in Users \ {u} : Jailed(e, w) = Jailed(q, w)
  BY <1>3, JailStarts DEF Stop
<1>. HIDE DEF e, m
<1>5. (\A t \in Rows : e[t] = db[t]) /\ e.seed = db.seed
  <2>1. Rows \cup {"seed"} \subseteq Columns \ {"cash", "clock"}
    BY ColumnNames DEF Rows
  <2>2. \A t \in Rows \cup {"seed"} : e[t] = db[t]
    BY <1>3, <1>4, <2>1 DEF Frame
  <2>. QED BY <2>2
<1>6. Sentenced(db, e, m)
  <2>1. \A w \in Users \ {u} : Jailed(e, w) = Jailed(db, w)
    BY <1>3, <1>4 DEF Calm, Steady, Jailed
  <2>. QED BY <1>1, <1>4, <1>5, <2>1 DEF Sentenced, m
<1>7. Handled(db, e, m)
  BY <1>3, <1>4, <1>6 DEF Calm, Steady, Handled, Accounted, Loading
<1>. QED BY <1>1, <1>7 DEF Handling

-----------------------------------------------------------------------------
(* The wipe.                                                               *)

WipedColumns ==
  {"plot", "item", "dog", "seed", "level", "xp", "cash", "energy", "bank", "vault", "home", "res", "tool",
   "shift", "pend", "fallen", "quest", "points", "again", "skill", "wear", "fac", "first", "clock", "life"}

\* What the wipe leaves: e is d with the accounts of us as they began.
Blanked(d, us, e) ==
  LET all(column, x) == [u \in Users |-> IF u \in us THEN x ELSE column[u]]
      mine(table, x) == [k \in DOMAIN table |-> IF k[1] \in us THEN x ELSE table[k]]
  IN  /\ Frame(d, e, WipedColumns)
      /\ e.plot = mine(d.plot, NULL)
      /\ e.item = mine(d.item, NULL)
      /\ e.dog = mine(d.dog, NULL)
      /\ e.seed = mine(d.seed, 0)
      /\ e.level = all(d.level, 1)
      /\ e.xp = all(d.xp, 0)
      /\ e.cash = all(d.cash, StartCash)
      /\ e.energy = all(d.energy, MaxEnergy)
      /\ e.bank = all(d.bank, 0)
      /\ e.vault = all(d.vault, 1)
      /\ e.home = all(d.home, 0)
      /\ e.res = mine(d.res, 0)
      /\ e.tool = mine(d.tool, 1)
      /\ e.shift = all(d.shift, NULL)
      /\ e.pend = all(d.pend, NoAsk)
      /\ e.fallen = all(d.fallen, FALSE)
      /\ e.quest = all(d.quest, NULL)
      /\ e.points = all(d.points, 0)
      /\ e.again = all(d.again, 0)
      /\ e.skill = all(d.skill, StartSkill)
      /\ e.wear = all(d.wear, NoWear)
      /\ e.fac = [k \in DOMAIN d.fac |-> IF k[1] \in us THEN [d.fac[k] EXCEPT !.level = 0] ELSE d.fac[k]]
      /\ e.first = [u \in Users |-> IF u \in us THEN d.first[u] \cap {"shipment"} ELSE d.first[u]]
      /\ e.clock = [k \in DOMAIN d.clock |-> d.clock[k] /\ ~(k[1] \in us /\ k[2] \in Wiping)]
      /\ e.life = [u \in Users |-> IF u \in us THEN d.life[u] + 1 ELSE d.life[u]]

LEMMA BlankColumns == ASSUME NEW d, Typed(d), NEW us \in SUBSET Users PROVE Blanked(d, us, Blank(d, us))
<1>. DEFINE e == Blank(d, us)
<1>1. DOMAIN d = Columns
  BY DEF Typed
<1>2. Frame(d, e, WipedColumns)
  <2>1. e = [t \in Columns |-> e[t]]
    BY <1>1, ZenonT(90) DEF Blank
  <2>2. /\ e.gems = d.gems
        /\ e.parts = d.parts
        /\ e.hp = d.hp
        /\ e.saved = d.saved
        /\ e.hidden = d.hidden
        /\ e.good = d.good
        /\ e.ship = d.ship
        /\ e.world = d.world
        /\ e.snitched = d.snitched
        /\ e.member = d.member
        /\ e.left = d.left
    BY <1>1, ColumnNames DEF Blank
  <2>3. \A t \in Columns \ WipedColumns : t \in {"gems", "parts", "hp", "saved", "hidden", "good", "ship", "world", "snitched", "member", "left"}
    BY DEF Columns, NewTown, WipedColumns
  <2>. HIDE DEF e
  <2>. QED BY <2>1, <2>2, <2>3 DEF Frame
<1>. QED BY <1>1, <1>2, ColumnNames DEF Blank, Blanked

LEMMA BlankTyped ==
  ASSUME NEW d, Typed(d), NEW us \in SUBSET Users
  PROVE  Typed(Blank(d, us))
<1>. DEFINE e == Blank(d, us)
<1>0. Blanked(d, us, e)
  BY BlankColumns
<1>. HIDE DEF e
<1>1. /\ StartCash \in Nat /\ MaxEnergy \in Nat /\ 1 \in 1 .. VaultMax /\ 1 \in Levels /\ 1 \in 1 .. ToolMax /\ 0 \in 0 .. HomeMax
      /\ StartSkill \in [Skills -> Nat]
  <2>1. StartCash \in Nat /\ MaxEnergy \in Nat
    BY AccountsAssumption
  <2>2. ToolMax \in Nat \ {0}
    BY WorksAssumption
  <2>3. StartSkill \in [Skills -> {0}]
    BY TownAssumption
  <2>. QED BY <2>1, <2>2, <2>3, VaultNumbers, LevelNumbers, RoomNumbers
<1>2. Frame(d, e, WipedColumns)
  BY <1>0 DEF Blanked
<1>3. OfType("cash", e.cash) /\ OfType("bank", e.bank) /\ OfType("vault", e.vault)
  <2>1. /\ e.cash = [u \in Users |-> IF u \in us THEN StartCash ELSE d.cash[u]]
        /\ e.bank = [u \in Users |-> IF u \in us THEN 0 ELSE d.bank[u]]
        /\ e.vault = [u \in Users |-> IF u \in us THEN 1 ELSE d.vault[u]]
    BY <1>0 DEF Blanked
  <2>2. d.cash \in [Users -> Nat] /\ d.bank \in [Users -> Nat] /\ d.vault \in [Users -> 1 .. VaultMax]
    BY PurseColumns
  <2>3. e.cash \in [Users -> Nat] /\ e.bank \in [Users -> Nat] /\ e.vault \in [Users -> 1 .. VaultMax]
    BY <1>1, <2>1, <2>2
  <2>. QED BY <2>3, PurseColumns
<1>4. OfType("level", e.level) /\ OfType("xp", e.xp) /\ OfType("points", e.points) /\ OfType("again", e.again) /\ OfType("energy", e.energy)
      /\ OfType("skill", e.skill)
  <2>1. /\ e.level = [u \in Users |-> IF u \in us THEN 1 ELSE d.level[u]]
        /\ e.xp = [u \in Users |-> IF u \in us THEN 0 ELSE d.xp[u]]
        /\ e.points = [u \in Users |-> IF u \in us THEN 0 ELSE d.points[u]]
        /\ e.again = [u \in Users |-> IF u \in us THEN 0 ELSE d.again[u]]
        /\ e.energy = [u \in Users |-> IF u \in us THEN MaxEnergy ELSE d.energy[u]]
        /\ e.skill = [u \in Users |-> IF u \in us THEN StartSkill ELSE d.skill[u]]
    BY <1>0 DEF Blanked
  <2>2. d.level \in [Users -> Levels] /\ d.xp \in [Users -> Nat] /\ d.points \in [Users -> Nat] /\ d.energy \in [Users -> Nat]
        /\ d.again \in [Users -> Nat] /\ d.skill \in [Users -> [Skills -> Nat]]
    BY GrowthColumns
  <2>3. /\ e.level \in [Users -> Levels]
        /\ e.xp \in [Users -> Nat]
        /\ e.points \in [Users -> Nat]
        /\ e.again \in [Users -> Nat]
        /\ e.energy \in [Users -> Nat]
        /\ e.skill \in [Users -> [Skills -> Nat]]
    BY <1>1, <2>1, <2>2
  <2>. QED BY <2>3, GrowthColumns
<1>5. OfType("home", e.home) /\ OfType("res", e.res) /\ OfType("tool", e.tool) /\ OfType("shift", e.shift)
  <2>1. /\ e.home = [u \in Users |-> IF u \in us THEN 0 ELSE d.home[u]]
        /\ e.res = [k \in DOMAIN d.res |-> IF k[1] \in us THEN 0 ELSE d.res[k]]
        /\ e.tool = [k \in DOMAIN d.tool |-> IF k[1] \in us THEN 1 ELSE d.tool[k]]
        /\ e.shift = [u \in Users |-> IF u \in us THEN NULL ELSE d.shift[u]]
    BY <1>0 DEF Blanked
  <2>2. d.home \in [Users -> 0 .. HomeMax] /\ d.res \in [Users \X Res -> Nat] /\ d.tool \in [Users \X Tools -> 1 .. ToolMax]
        /\ d.shift \in [Users -> Nat \cup {NULL}]
    BY StoresColumns
  <2>3. e.home \in [Users -> 0 .. HomeMax] /\ e.shift \in [Users -> Nat \cup {NULL}]
    BY <1>1, <2>1, <2>2
  <2>4. e.res \in [Users \X Res -> Nat] /\ e.tool \in [Users \X Tools -> 1 .. ToolMax]
    BY <1>1, <2>1, <2>2
  <2>. QED BY <2>3, <2>4, StoresColumns
<1>6. OfType("fac", e.fac)
  <2>1. e.fac = [k \in DOMAIN d.fac |-> IF k[1] \in us THEN [d.fac[k] EXCEPT !.level = 0] ELSE d.fac[k]]
    BY <1>0 DEF Blanked
  <2>2. d.fac \in [Users \X Factories -> [level : 0 .. FacMax, stock : Nat]] /\ 0 \in 0 .. FacMax
    <3>1. d.fac \in [Users \X Factories -> [level : 0 .. FacMax, stock : Nat]]
      BY StoresColumns
    <3>2. 0 \in 0 .. FacMax
      BY FactoryNumbers
    <3>. QED BY <3>1, <3>2
  <2>3. \A r \in [level : 0 .. FacMax, stock : Nat] : [r EXCEPT !.level = 0] \in [level : 0 .. FacMax, stock : Nat]
    BY <2>2
  <2>. DEFINE R == [level : 0 .. FacMax, stock : Nat]
  <2>. HIDE DEF R
  <2>4. e.fac \in [Users \X Factories -> R]
    BY <2>1, <2>2, <2>3 DEF R
  <2>. QED BY <2>4, StoresColumns DEF R
<1>7. OfType("seed", e.seed) /\ OfType("plot", e.plot)
  <2>1. /\ e.seed = [k \in DOMAIN d.seed |-> IF k[1] \in us THEN 0 ELSE d.seed[k]]
        /\ e.plot = [k \in DOMAIN d.plot |-> IF k[1] \in us THEN NULL ELSE d.plot[k]]
    BY <1>0 DEF Blanked
  <2>. HIDE DEF PlotRows
  <2>2. d.seed \in [Users \X Crops -> Nat] /\ d.plot \in [Users \X (1 .. MaxPlots) -> PlotRows \cup {NULL}]
    BY LandColumns
  <2>3. e.seed \in [Users \X Crops -> Nat] /\ e.plot \in [Users \X (1 .. MaxPlots) -> PlotRows \cup {NULL}]
    BY <2>1, <2>2
  <2>. QED BY <2>3, LandColumns
<1>8. OfType("item", e.item) /\ OfType("wear", e.wear)
  <2>. DEFINE X == Users \X Things
  <2>1. /\ e.item = [k \in DOMAIN d.item |-> IF k[1] \in us THEN NULL ELSE d.item[k]]
        /\ e.wear = [u \in Users |-> IF u \in us THEN NoWear ELSE d.wear[u]]
    BY <1>0 DEF Blanked
  <2>2. /\ d.item = [x \in X |-> d.item[x]] /\ \A x \in X : d.item[x] \in ItemRows(x[2]) \cup {NULL}
        /\ d.wear \in [Users -> Worn]
    BY ArmsColumns DEF Things
  <2>3. NoWear \in Worn
    BY DEF NoWear, Worn
  <2>4. e.wear \in [Users -> Worn]
    BY <2>1, <2>2, <2>3
  <2>5. DOMAIN d.item = X
    BY <2>2
  <2>. HIDE DEF X
  <2>6. e.item = [x \in X |-> e.item[x]] /\ \A x \in X : e.item[x] \in ItemRows(x[2]) \cup {NULL}
    BY <2>1, <2>2, <2>5
  <2>. QED BY <2>4, <2>6, ArmsColumns DEF X, Things
<1>9. OfType("fallen", e.fallen) /\ OfType("quest", e.quest) /\ OfType("life", e.life)
  <2>1. /\ e.fallen = [u \in Users |-> IF u \in us THEN FALSE ELSE d.fallen[u]]
        /\ e.quest = [u \in Users |-> IF u \in us THEN NULL ELSE d.quest[u]]
        /\ e.life = [u \in Users |-> IF u \in us THEN d.life[u] + 1 ELSE d.life[u]]
    BY <1>0 DEF Blanked
  <2>2. d.fallen \in [Users -> BOOLEAN] /\ d.quest \in [Users -> Days \cup {NULL}] /\ d.life \in [Users -> Nat]
    BY HealthColumns, MarksColumns
  <2>3. e.fallen \in [Users -> BOOLEAN]
    BY <2>1, <2>2
  <2>4. e.quest \in [Users -> Days \cup {NULL}]
    <3>. HIDE DEF Days
    <3>. QED BY <2>1, <2>2
  <2>5. e.life \in [Users -> Nat]
    BY <2>1, <2>2
  <2>. QED BY <2>3, <2>4, <2>5, HealthColumns, MarksColumns
<1>10. OfType("pend", e.pend) /\ OfType("first", e.first)
  <2>1. /\ e.pend = [u \in Users |-> IF u \in us THEN NoAsk ELSE d.pend[u]]
        /\ e.first = [u \in Users |-> IF u \in us THEN d.first[u] \cap {"shipment"} ELSE d.first[u]]
    BY <1>0 DEF Blanked
  <2>2. e.pend = [u \in Users |-> e.pend[u]] /\ e.first = [u \in Users |-> e.first[u]]
    BY <2>1
  <2>. QED BY <2>2, OtherColumns, Zenon
<1>11. OfType("dog", e.dog)
  <2>1. e.dog = [k \in DOMAIN d.dog |-> IF k[1] \in us THEN NULL ELSE d.dog[k]]
    BY <1>0 DEF Blanked
  <2>2. DOMAIN d.dog = Users \X Dogs
    <3>1. d.dog = [k \in Users \X Dogs |-> d.dog[k]]
      BY OtherColumns, Zenon
    <3>. QED BY <3>1
  <2>3. e.dog = [k \in Users \X Dogs |-> e.dog[k]]
    BY <2>1, <2>2
  <2>. QED BY <2>3, OtherColumns, Zenon
<1>12. OfType("clock", e.clock)
  <2>1. e.clock = [k \in DOMAIN d.clock |-> d.clock[k] /\ ~(k[1] \in us /\ k[2] \in Wiping)]
    BY <1>0 DEF Blanked
  <2>2. DOMAIN d.clock = Users \X Timers
    BY ClocksColumns
  <2>3. e.clock \in [Users \X Timers -> BOOLEAN]
    <3>1. \A k \in DOMAIN d.clock : (d.clock[k] /\ ~(k[1] \in us /\ k[2] \in Wiping)) \in BOOLEAN
      OBVIOUS
    <3>. QED BY <2>1, <2>2, <3>1
  <2>. QED BY <2>3, ClocksColumns
<1>13. \A t \in WipedColumns : OfType(t, e[t])
  BY <1>3, <1>4, <1>5, <1>6, <1>7, <1>8, <1>9, <1>10, <1>11, <1>12 DEF WipedColumns
<1>14. Typed(e)
  BY <1>2, <1>13, FrameTyped
<1>. QED BY <1>14 DEF e

LEMMA WipedKept ==
  ASSUME NEW d, Typed(d), NEW us \in SUBSET Users
  PROVE  LET e == Wiped(d, us)
         IN  /\ Typed(e) /\ Accounted(d, e) /\ e.ship = d.ship
             /\ \A u \in Users : Jailed(e, u) = Jailed(d, u)
             /\ \A u \in Users : e.life[u] = d.life[u] => e.energy[u] = d.energy[u]
<1>. DEFINE b == Blank(d, us)
            h == [u \in Users |-> IF u \in us THEN HpMax(b, u) ELSE b.hp[u]]
            e == Wiped(d, us)
<1>1. Typed(b) /\ Blanked(d, us, b)
  BY BlankTyped, BlankColumns
<1>2. e = [b EXCEPT !["hp"] = h]
  BY DEF Wiped
<1>. HIDE DEF b
<1>3. h \in [Users -> Nat] /\ \A u \in Users : IF u \in us THEN h[u] # 0 ELSE h[u] = b.hp[u]
  <2>1. b.hp \in [Users -> Nat]
    BY <1>1, HealthColumns
  <2>2. \A u \in Users : HpMax(b, u) \in Nat \ {0}
    BY <1>1, RoomNat
  <2>. QED BY <2>1, <2>2
<1>. HIDE DEF h, e
<1>4. Frame(b, e, {"hp"}) /\ e.hp = h
  BY <1>1, <1>2, ColumnNames DEF Typed, Frame
<1>5. Typed(e)
  <2>1. OfType("hp", h)
    BY <1>3, HealthColumns
  <2>2. \A t \in {"hp"} : OfType(t, e[t])
    BY <1>4, <2>1
  <2>. QED BY <1>1, <1>4, <2>2, FrameTyped
<1>6. /\ e.ship = d.ship /\ e.life = b.life /\ e.energy = b.energy /\ e.clock = b.clock /\ e.points = b.points /\ e.again = b.again
      /\ e.skill = b.skill /\ e.level = b.level /\ e.bank = b.bank /\ e.vault = b.vault /\ e.fallen = b.fallen /\ b.hp = d.hp
  <2>1. \A t \in Columns \ {"hp"} : e[t] = b[t]
    BY <1>4 DEF Frame
  <2>2. \A t \in Columns \ WipedColumns : b[t] = d[t]
    BY <1>1 DEF Frame, Blanked
  <2>3. "hp" \notin WipedColumns /\ "ship" \notin WipedColumns
    BY DEF WipedColumns
  <2>. QED BY <2>1, <2>2, <2>3, ColumnNames
<1>7. \A u \in Users : Jailed(e, u) = Jailed(d, u)
  <2>1. b.clock = [k \in DOMAIN d.clock |-> d.clock[k] /\ ~(k[1] \in us /\ k[2] \in Wiping)]
    BY <1>1 DEF Blanked
  <2>2. d.clock \in [Users \X Timers -> BOOLEAN]
    BY ClocksColumns
  <2>3. "jail" \in Timers /\ "jail" \notin Wiping
    BY DEF Timers, Wiping
  <2>4. ASSUME NEW u \in Users PROVE b.clock[<<u, "jail">>] = d.clock[<<u, "jail">>]
    <3>1. <<u, "jail">> \in DOMAIN d.clock
      BY <2>2, <2>3
    <3>. QED BY <2>1, <2>2, <2>3, <3>1
  <2>. QED BY <1>6, <2>4 DEF Jailed
<1>8. /\ b.life = [u \in Users |-> IF u \in us THEN d.life[u] + 1 ELSE d.life[u]]
      /\ b.energy = [u \in Users |-> IF u \in us THEN MaxEnergy ELSE d.energy[u]]
      /\ b.points = [u \in Users |-> IF u \in us THEN 0 ELSE d.points[u]]
      /\ b.again = [u \in Users |-> IF u \in us THEN 0 ELSE d.again[u]]
      /\ b.skill = [u \in Users |-> IF u \in us THEN StartSkill ELSE d.skill[u]]
      /\ b.level = [u \in Users |-> IF u \in us THEN 1 ELSE d.level[u]]
      /\ b.bank = [u \in Users |-> IF u \in us THEN 0 ELSE d.bank[u]]
      /\ b.vault = [u \in Users |-> IF u \in us THEN 1 ELSE d.vault[u]]
      /\ b.fallen = [u \in Users |-> IF u \in us THEN FALSE ELSE d.fallen[u]]
  BY <1>1 DEF Blanked
<1>9. \A u \in Users : e.life[u] = d.life[u] => e.energy[u] = d.energy[u]
  <2>1. d.life \in [Users -> Nat]
    BY MarksColumns
  <2>. QED BY <1>6, <1>8, <2>1
<1>10. Accounted(d, e)
  <2>. SUFFICES ASSUME NEW u \in Users
                PROVE  \/ /\ e.life[u] = d.life[u]
                          /\ Whole(d, u) => Whole(e, u)
                          /\ Within(d, u) => Within(e, u)
                          /\ Bled(d, u) => Bled(e, u)
                       \/ e.life[u] = d.life[u] + 1 /\ Whole(e, u) /\ Within(e, u) /\ Bled(e, u)
    BY DEF Accounted
  <2>1. CASE u \in us
    <3>1. Whole(e, u)
      <4>1. e.skill[u] = StartSkill /\ e.points[u] = 0 /\ e.again[u] = 0 /\ e.level[u] = 1
        BY <1>6, <1>8, <2>1
      <4>2. StartSkill \in [Skills -> Int] /\ \A s \in Skills : StartSkill[s] = 0
        BY TownAssumption
      <4>3. IsFiniteSet(Skills) /\ ExpectedPoints(1) = 0
        BY AccountsAssumption, ExpectedGrows
      <4>4. PointsSpent(e, u) = 0
        BY <4>1, <4>2, <4>3, SumZero DEF PointsSpent
      <4>. QED BY <4>1, <4>3, <4>4 DEF Whole
    <3>2. Within(e, u)
      <4>1. e.bank[u] = 0 /\ e.vault[u] = 1
        BY <1>6, <1>8, <2>1
      <4>2. BankCap[1] \in Nat
        BY VaultNumbers
      <4>. QED BY <4>1, <4>2 DEF Within
    <3>3. Bled(e, u)
      BY <1>3, <1>4, <2>1 DEF Bled
    <3>. QED BY <1>6, <1>8, <2>1, <3>1, <3>2, <3>3
  <2>2. CASE u \notin us
    <3>1. /\ e.life[u] = d.life[u] /\ e.points[u] = d.points[u] /\ e.again[u] = d.again[u] /\ e.skill[u] = d.skill[u] /\ e.level[u] = d.level[u]
          /\ e.bank[u] = d.bank[u] /\ e.vault[u] = d.vault[u] /\ e.fallen[u] = d.fallen[u] /\ e.hp[u] = d.hp[u]
      BY <1>3, <1>4, <1>6, <1>8, <2>2
    <3>. QED BY <3>1 DEF Whole, Within, Bled, PointsSpent
  <2>. QED BY <2>1, <2>2
<1>. QED BY <1>5, <1>6, <1>7, <1>9, <1>10 DEF e

LEMMA ClearAccountStep == ASSUME Typed(db), NEW u \in Users, ClearAccount(u) PROVE Handling
<1>. DEFINE e == Wiped(db, {u})
<1>1. Answer(e)
  BY DEF ClearAccount
<1>2. /\ Typed(e) /\ Accounted(db, e) /\ e.ship = db.ship
      /\ \A v \in Users : Jailed(e, v) = Jailed(db, v)
  BY WipedKept
<1>. HIDE DEF e
<1>3. Handled(db, e, mem)
  BY <1>2 DEF Handled, Loading, Sentenced
<1>. QED BY <1>1, <1>3 DEF Handling, Answer

-----------------------------------------------------------------------------
(* The jobs.                                                               *)

\* No load sets out, and no energy is given or spent but by a wipe.
Unloading(d, e) == \A i \in Ships : e.ship[i] # NULL => d.ship[i] # NULL /\ e.ship[i].who = d.ship[i].who
Sparing(d, e)   == \A u \in Users : e.life[u] = d.life[u] => e.energy[u] = d.energy[u]
Worked(d, e) ==
  /\ Typed(e) /\ Accounted(d, e) /\ Unloading(d, e) /\ Sparing(d, e)
  /\ \A u \in Users : Jailed(e, u) = Jailed(d, u)

\* Who gives the loads that leave the road is paid what they carry, the delayed
\* ones on their second arrival.
Leaving(d, e) == {i \in Ships : d.ship[i] # NULL /\ e.ship[i] = NULL}
Payout(d, e, u) ==
  SumFunctionOnSet([i \in Leaving(d, e) |-> d.ship[i].pay], {i \in Leaving(d, e) : d.ship[i].who = u})
Due(d, e) == \A i \in Leaving(d, e) : d.ship[i].due /\ (d.ship[i].fate = "delayed" => d.ship[i].hops = 1)
Delivered(d, e) ==
  e.ship = d.ship \/ (Due(d, e) /\ \A u \in Users : e.cash[u] - d.cash[u] = Payout(d, e, u))
Working == \E e : Run(e) /\ Worked(db, e) /\ Delivered(db, e)

LEMMA CalmWorks ==
  ASSUME NEW d, NEW e, Calm(d, e), e.energy = d.energy
  PROVE  Worked(d, e)
BY DEF Calm, Steady, Worked, Accounted, Unloading, Sparing, Jailed

LEMMA PendingSweepStep == ASSUME Typed(db), PendingSweep PROVE Working
<1>. DEFINE late(u) == /\ db.pend[u].ask \in {"bankdep", "bankwd", "resbuy", "trf_to", "trf_amt"}
                       /\ ~Running(db, u, "pending")
            f == [u \in Users |-> IF late(u) THEN NoPending(db, u).pend[u] ELSE db.pend[u]]
            e == [db EXCEPT !["pend"] = f]
<1>1. Run(e)
  BY DEF PendingSweep
<1>2. OfType("pend", f)
  <2>1. f = [u \in Users |-> f[u]]
    OBVIOUS
  <2>. HIDE DEF f
  <2>. QED BY <2>1, OtherColumns, Zenon
<1>3. "pend" \in Columns \ Guarded
  BY ColumnNames DEF Guarded
<1>. HIDE DEF f
<1>4. Calm(db, e) /\ Frame(db, e, {"pend"})
  BY <1>2, <1>3, PutCalm
<1>. HIDE DEF e
<1>5. e.energy = db.energy
  BY <1>4, ColumnNames DEF Frame
<1>. QED BY <1>1, <1>4, <1>5, CalmWorks DEF Working, Delivered, Calm, Steady

LEMMA SmugglerJobStep == ASSUME Typed(db), NEW c \in Crops, NEW b \in Bonuses, SmugglerJob(c, b) PROVE Working
<1>. DEFINE d == Looked(db)
            e == Spawned(d, c, b)
<1>1. Run(e) \/ Run(d)
  BY DEF SmugglerJob
<1>2. Calm(db, d) /\ Typed(d) /\ Frame(db, d, {"world"})
  BY LookedCalm
<1>. HIDE DEF d
<1>3. Calm(d, e) /\ Typed(e) /\ Frame(d, e, {"world"})
  BY <1>2, SpawnedCalm
<1>. HIDE DEF e
<1>4. d.energy = db.energy /\ e.energy = db.energy
  BY <1>2, <1>3, ColumnNames DEF Frame
<1>5. Calm(db, e)
  BY <1>2, <1>3, CalmChain
<1>. QED BY <1>1, <1>2, <1>4, <1>5, CalmWorks DEF Working, Delivered, Calm, Steady

\* What the police take of n seeds is no more than there are.
LEMMA RaidedPart == \A n \in Nat, p \in 0 .. 100 : n - (n * p + 50) \div 100 \in Nat
<1>. SUFFICES ASSUME NEW n \in Nat, NEW p \in 0 .. 100 PROVE n - (n * p + 50) \div 100 \in Nat
  OBVIOUS
<1>. DEFINE m == n * p
<1>1. m \in Nat /\ m <= 100 * n
  <2>1. n * p \in Nat /\ n * p <= n * 100
    OBVIOUS
  <2>. QED BY <2>1
<1>. HIDE DEF m
<1>2. n - (m + 50) \div 100 \in Nat
  BY <1>1
<1>. QED BY <1>2 DEF m

LEMMA PoliceWaveStep == ASSUME Typed(db), NEW found \in SUBSET Users, PoliceWave(found) PROVE Working
<1>1. PICK p \in Raided :
        Run([db EXCEPT !.seed = [x \in DOMAIN @ |->
               IF x[1] \in found THEN @[x] - (@[x] * p + 50) \div 100 ELSE @[x]]])
  BY DEF PoliceWave
<1>. DEFINE f == [x \in DOMAIN db.seed |->
                   IF x[1] \in found THEN db.seed[x] - (db.seed[x] * p + 50) \div 100 ELSE db.seed[x]]
            e == [db EXCEPT !["seed"] = f]
<1>2. Run(e)
  BY <1>1
<1>3. OfType("seed", f)
  <2>1. p \in 0 .. 100
    BY FarmAssumption
  <2>2. db.seed \in [Users \X Crops -> Nat]
    BY LandColumns
  <2>3. \A x \in Users \X Crops : db.seed[x] - (db.seed[x] * p + 50) \div 100 \in Nat
    BY <2>1, <2>2, RaidedPart
  <2>4. f \in [Users \X Crops -> Nat]
    BY <2>2, <2>3
  <2>. HIDE DEF f
  <2>. QED BY <2>4, LandColumns
<1>4. "seed" \in Columns \ Guarded
  BY ColumnNames DEF Guarded
<1>. HIDE DEF f
<1>5. Calm(db, e) /\ Frame(db, e, {"seed"})
  BY <1>3, <1>4, PutCalm
<1>. HIDE DEF e
<1>6. e.energy = db.energy
  BY <1>5, ColumnNames DEF Frame
<1>. QED BY <1>2, <1>5, <1>6, CalmWorks DEF Working, Delivered, Calm, Steady

LEMMA WipeJobStep == ASSUME Typed(db), WipeJob PROVE Working
<1>. DEFINE gone == {u \in Users : Long(u)}
            d == Wiped(db, gone)
            m == [u \in Users |-> IF u \in gone THEN NULL ELSE d.member[u]]
            l == [u \in Users |-> d.left[u] /\ u \notin gone]
            f == [d EXCEPT !["member"] = m]
            e == [f EXCEPT !["left"] = l]
<1>1. Run([d EXCEPT !.member = m, !.left = l])
  BY DEF WipeJob
<1>2. /\ Typed(d) /\ Accounted(db, d) /\ d.ship = db.ship
      /\ \A v \in Users : Jailed(d, v) = Jailed(db, v)
      /\ Sparing(db, d)
  BY WipedKept DEF Sparing
<1>. HIDE DEF d
<1>3. [d EXCEPT !.member = m, !.left = l] = e
  BY <1>2, ColumnNames DEF Typed
<1>4. OfType("member", m) /\ OfType("left", l)
  <2>1. m = [u \in Users |-> m[u]] /\ l = [u \in Users |-> l[u]]
    OBVIOUS
  <2>. HIDE DEF m, l
  <2>. QED BY <2>1, OtherColumns, Zenon
<1>5. "member" \in Columns \ Guarded /\ "left" \in Columns \ Guarded
  BY ColumnNames DEF Guarded
<1>. HIDE DEF m, l
<1>6. Calm(d, f) /\ Typed(f) /\ Frame(d, f, {"member"})
  BY <1>2, <1>4, <1>5, PutCalm
<1>. HIDE DEF f
<1>7. Calm(f, e) /\ Frame(f, e, {"left"})
  BY <1>4, <1>5, <1>6, PutCalm
<1>. HIDE DEF e
<1>8. e.energy = d.energy
  BY <1>6, <1>7, ColumnNames DEF Frame
<1>9. Calm(d, e)
  BY <1>6, <1>7, CalmChain
<1>10. Worked(db, e)
  BY <1>2, <1>8, <1>9 DEF Calm, Steady, Worked, Accounted, Unloading, Sparing, Jailed
<1>11. Delivered(db, e)
  BY <1>2, <1>9 DEF Calm, Steady, Delivered
<1>. QED BY <1>1, <1>3, <1>10, <1>11 DEF Working

LEMMA ShipWorks ==
  ASSUME NEW d, Typed(d), NEW f \in [Ships -> ShipRows \cup {NULL}],
         \A j \in Ships : f[j] # NULL => d.ship[j] # NULL /\ f[j].who = d.ship[j].who
  PROVE  LET e == [d EXCEPT !["ship"] = f] IN Worked(d, e) /\ e.ship = f /\ e.life = d.life
<1>. DEFINE e == [d EXCEPT !["ship"] = f]
<1>1. Frame(d, e, {"ship"}) /\ e.ship = f
  BY ColumnNames DEF Typed, Frame
<1>2. Typed(e)
  <2>1. OfType("ship", f)
    <3>. HIDE DEF ShipRows
    <3>. QED BY ShippingColumns
  <2>2. \A t \in {"ship"} : OfType(t, e[t])
    BY <1>1, <2>1
  <2>. HIDE DEF e
  <2>. QED BY <1>1, <2>2, FrameTyped
<1>. HIDE DEF e
<1>3. \A t \in Columns \ {"ship"} : e[t] = d[t]
  BY <1>1 DEF Frame
<1>4. /\ e.points = d.points /\ e.again = d.again /\ e.skill = d.skill /\ e.level = d.level /\ e.bank = d.bank /\ e.vault = d.vault
      /\ e.hp = d.hp /\ e.fallen = d.fallen /\ e.life = d.life /\ e.clock = d.clock /\ e.energy = d.energy
  BY <1>3, ColumnNames
<1>5. Accounted(d, e)
  BY <1>4 DEF Accounted, Whole, Within, Bled, PointsSpent
<1>6. Unloading(d, e)
  BY <1>1 DEF Unloading
<1>7. Worked(d, e)
  BY <1>2, <1>4, <1>5, <1>6 DEF Worked, Sparing, Jailed
<1>. QED BY <1>1, <1>4, <1>7 DEF e

LEMMA WorkedOn ==
  ASSUME NEW d, NEW e, NEW f, Worked(d, e), Worked(e, f), f.life = e.life
  PROVE  Worked(d, f)
<1>1. \A u \in Users : e.life[u] \in Nat
  BY MarksColumns DEF Worked
<1>2. Accounted(d, f)
  BY <1>1 DEF Worked, Accounted
<1>3. Unloading(d, f)
  BY DEF Worked, Unloading
<1>4. Sparing(d, f)
  BY DEF Worked, Sparing
<1>. QED BY <1>2, <1>3, <1>4 DEF Worked

LEMMA ArrivedWorks ==
  ASSUME NEW d, Typed(d), NEW i \in Ships, d.ship[i] # NULL
  PROVE  LET e == Arrived(d, i)
         IN  Worked(d, e) /\ e.life = d.life /\ \A j \in Ships \ {i} : e.ship[j] = d.ship[j]
<1>1. d.ship[i] \in ShipRows
  <2>. HIDE DEF ShipRows
  <2>. QED BY ShippingColumns
<1>2. CASE d.ship[i].fate = "delayed" /\ d.ship[i].hops = 0
  <2>. DEFINE x == [d.ship[i] EXCEPT !.hops = 1, !.due = FALSE]
              f == [d.ship EXCEPT ![i] = x]
              e == [d EXCEPT !["ship"] = f]
  <2>1. Arrived(d, i) = e
    BY <1>2 DEF Arrived
  <2>2. x \in ShipRows /\ x.who = d.ship[i].who
    <3>1. \A s \in ShipRows : [s EXCEPT !.due = FALSE] \in ShipRows /\ [s EXCEPT !.due = FALSE].who = s.who
      BY DEF ShipRows
    <3>2. \A s \in ShipRows : [s EXCEPT !.hops = 1] \in ShipRows /\ [s EXCEPT !.hops = 1].who = s.who
      BY DEF ShipRows
    <3>3. x = [[d.ship[i] EXCEPT !.hops = 1] EXCEPT !.due = FALSE]
      OBVIOUS
    <3>. HIDE DEF ShipRows, x
    <3>. QED BY <1>1, <3>1, <3>2, <3>3
  <2>. HIDE DEF x
  <2>3. f \in [Ships -> ShipRows \cup {NULL}]
    <3>. HIDE DEF ShipRows
    <3>. QED BY <2>2, ShippingColumns
  <2>4. \A j \in Ships : IF j = i THEN f[j] = x ELSE f[j] = d.ship[j]
    <3>1. DOMAIN d.ship = Ships
      <4>. HIDE DEF ShipRows
      <4>. QED BY ShippingColumns
    <3>. QED BY <3>1
  <2>. HIDE DEF f
  <2>5. Worked(d, e) /\ e.ship = f /\ e.life = d.life
    BY <2>2, <2>3, <2>4, ShipWorks
  <2>. QED BY <2>1, <2>4, <2>5
<1>3. CASE ~(d.ship[i].fate = "delayed" /\ d.ship[i].hops = 0)
  <2>. DEFINE s == d.ship[i]
              p == Pay(d, s.who, s.pay)
              f == [p.ship EXCEPT ![i] = NULL]
              e == [p EXCEPT !["ship"] = f]
  <2>1. Arrived(d, i) = e
    BY <1>3 DEF Arrived
  <2>2. s.who \in Users /\ s.pay \in Int /\ d.cash[s.who] + s.pay \in Nat
    <3>1. s.who \in Users /\ s.pay \in Nat
      BY <1>1 DEF ShipRows
    <3>2. d.cash[s.who] \in Nat
      BY <3>1, PurseColumns
    <3>. QED BY <3>1, <3>2
  <2>. HIDE DEF s
  <2>3. Calm(d, p) /\ Typed(p) /\ Frame(d, p, {"cash"})
    BY <2>2, PayCalm
  <2>. HIDE DEF p
  <2>4. p.ship = d.ship /\ p.life = d.life /\ p.energy = d.energy
    BY <2>3, ColumnNames DEF Frame
  <2>5. Worked(d, p)
    BY <2>3, <2>4, CalmWorks
  <2>6. f \in [Ships -> ShipRows \cup {NULL}] /\ \A j \in Ships : IF j = i THEN f[j] = NULL ELSE f[j] = p.ship[j]
    <3>1. p.ship \in [Ships -> ShipRows \cup {NULL}]
      <4>. HIDE DEF ShipRows
      <4>. QED BY <2>3, ShippingColumns
    <3>. HIDE DEF ShipRows
    <3>. QED BY <3>1
  <2>. HIDE DEF f
  <2>7. Worked(p, e) /\ e.ship = f /\ e.life = p.life
    BY <2>3, <2>6, ShipWorks
  <2>. HIDE DEF e
  <2>8. Worked(d, e)
    BY <2>5, <2>7, WorkedOn
  <2>. QED BY <2>1, <2>4, <2>6, <2>7, <2>8
<1>. QED BY <1>2, <1>3

LEMMA ArrivedPays ==
  ASSUME NEW d, Typed(d), NEW i \in Ships, d.ship[i] # NULL
  PROVE  LET e == Arrived(d, i)
             s == d.ship[i]
         IN  /\ s.who \in Users /\ s.pay \in Nat /\ s.hops \in 0 .. 1
             /\ IF s.fate = "delayed" /\ s.hops = 0
                THEN e.ship[i] # NULL /\ e.cash = d.cash
                ELSE e.ship[i] = NULL /\ e.cash = [d.cash EXCEPT ![s.who] = @ + s.pay]
<1>. DEFINE s == d.ship[i]
            e == Arrived(d, i)
<1>0. DOMAIN d = Columns /\ DOMAIN d.ship = Ships
  <2>. HIDE DEF ShipRows
  <2>. QED BY ShippingColumns DEF Typed
<1>1. s \in ShipRows
  <2>. HIDE DEF ShipRows
  <2>. QED BY ShippingColumns
<1>2. s.who \in Users /\ s.pay \in Nat /\ s.hops \in 0 .. 1
  BY <1>1 DEF ShipRows
<1>3. CASE s.fate = "delayed" /\ s.hops = 0
  <2>. DEFINE x == [s EXCEPT !.hops = 1, !.due = FALSE]
  <2>1. e = [d EXCEPT !.ship[i] = x]
    BY <1>3 DEF Arrived
  <2>2. x # NULL
    <3>1. \A r \in ShipRows : [r EXCEPT !.hops = 1, !.due = FALSE] \in ShipRows
      <4>1. \A r \in ShipRows : [r EXCEPT !.hops = 1] \in ShipRows
        BY DEF ShipRows
      <4>2. \A r \in ShipRows : [r EXCEPT !.due = FALSE] \in ShipRows
        BY DEF ShipRows
      <4>3. \A r \in ShipRows : [r EXCEPT !.hops = 1, !.due = FALSE] = [[r EXCEPT !.hops = 1] EXCEPT !.due = FALSE]
        OBVIOUS
      <4>. HIDE DEF ShipRows
      <4>. QED BY <4>1, <4>2, <4>3
    <3>2. NULL \notin ShipRows
      BY RoadsAssumption DEF ShipRows
    <3>. HIDE DEF ShipRows, s
    <3>. QED BY <1>1, <3>1, <3>2
  <2>. HIDE DEF x, s
  <2>3. e.ship[i] = x /\ e.cash = d.cash
    BY <1>0, <2>1, ColumnNames
  <2>. QED BY <1>2, <1>3, <2>2, <2>3 DEF s
<1>4. CASE ~(s.fate = "delayed" /\ s.hops = 0)
  <2>. DEFINE p == Pay(d, s.who, s.pay)
  <2>1. e = [p EXCEPT !.ship[i] = NULL]
    BY <1>4 DEF Arrived
  <2>2. d.cash[s.who] + s.pay \in Nat
    BY <1>2, PurseColumns
  <2>. HIDE DEF s
  <2>3. Typed(p) /\ Frame(d, p, {"cash"}) /\ p.cash = [d.cash EXCEPT ![s.who] = @ + s.pay]
    BY <1>2, <2>2, PayCalm
  <2>. HIDE DEF p
  <2>4. p.ship = d.ship /\ DOMAIN p = Columns
    BY <2>3, ColumnNames DEF Frame, Typed
  <2>5. e.ship[i] = NULL /\ e.cash = p.cash
    BY <1>0, <2>1, <2>4, ColumnNames
  <2>. QED BY <1>2, <1>4, <2>3, <2>5 DEF s
<1>. HIDE DEF e
<1>. QED BY <1>2, <1>3, <1>4 DEF e

\* The purse of u while the first l slots of the road have been looked at.
PaidSoFar(d, e, l) ==
  /\ \A i \in Leaving(d, e) : i <= l
  /\ Due(d, e)
  /\ \A u \in Users : e.cash[u] - d.cash[u] = Payout(d, e, u)

LEMMA PayNone ==
  ASSUME NEW d, Typed(d), NEW e, e.cash = d.cash, Leaving(d, e) = {}, NEW l
  PROVE  PaidSoFar(d, e, l)
<1>1. ASSUME NEW u \in Users PROVE e.cash[u] - d.cash[u] = 0 /\ Payout(d, e, u) = 0
  <2>1. d.cash[u] \in Nat
    BY PurseColumns
  <2>2. {i \in Leaving(d, e) : d.ship[i].who = u} = {}
    OBVIOUS
  <2>3. \A f : SumFunctionOnSet(f, {}) = 0
    BY SumZero, FS_EmptySet
  <2>. HIDE DEF Leaving
  <2>. QED BY <2>1, <2>2, <2>3 DEF Payout
<1>. QED BY <1>1 DEF PaidSoFar, Due

\* One slot more.
LEMMA PayOne ==
  ASSUME NEW d, Typed(d), NEW c, Typed(c), NEW l \in Nat, LastShip \in Nat, PaidSoFar(d, c, l),
         NEW n \in Ships, n = l + 1, d.ship[n] # NULL, d.ship[n].due, c.ship[n] = d.ship[n]
  PROVE  PaidSoFar(d, Arrived(c, n), n)
<1>. DEFINE e == Arrived(c, n)
            s == d.ship[n]
<1>1. /\ s.who \in Users /\ s.pay \in Nat /\ s.hops \in 0 .. 1
      /\ IF s.fate = "delayed" /\ s.hops = 0
         THEN e.ship[n] # NULL /\ e.cash = c.cash
         ELSE e.ship[n] = NULL /\ e.cash = [c.cash EXCEPT ![s.who] = @ + s.pay]
  BY ArrivedPays
<1>2. \A j \in Ships \ {n} : e.ship[j] = c.ship[j]
  BY ArrivedWorks
<1>. HIDE DEF e
<1>3. \A i \in Leaving(d, c) : i <= n /\ i # n
  BY DEF Leaving, PaidSoFar, Ships
<1>4. CASE s.fate = "delayed" /\ s.hops = 0
  <2>1. Leaving(d, e) = Leaving(d, c)
    BY <1>1, <1>2, <1>4 DEF Leaving
  <2>2. \A u : Payout(d, e, u) = Payout(d, c, u)
    BY <2>1 DEF Payout
  <2>3. PaidSoFar(d, e, n)
    BY <1>1, <1>3, <1>4, <2>1, <2>2 DEF PaidSoFar, Due
  <2>. QED BY <2>3 DEF e
<1>5. CASE ~(s.fate = "delayed" /\ s.hops = 0)
  <2>1. Leaving(d, e) = Leaving(d, c) \cup {n}
    BY <1>1, <1>2, <1>5 DEF Leaving
  <2>2. \A i \in Leaving(d, e) : i <= n
    BY <1>3, <2>1 DEF Ships
  <2>3. Due(d, e)
    <3>1. Due(d, c)
      BY DEF PaidSoFar
    <3>2. s.fate = "delayed" => s.hops = 1
      BY <1>1, <1>5
    <3>. QED BY <2>1, <3>1, <3>2 DEF Due
  <2>4. ASSUME NEW u \in Users PROVE e.cash[u] - d.cash[u] = Payout(d, e, u)
    <3>. DEFINE f == [i \in Leaving(d, e) |-> d.ship[i].pay]
                g == [i \in Leaving(d, c) |-> d.ship[i].pay]
                S == {i \in Leaving(d, c) : d.ship[i].who = u}
                T == {i \in Leaving(d, e) : d.ship[i].who = u}
    <3>1. c.cash[u] - d.cash[u] = SumFunctionOnSet(g, S)
      BY DEF PaidSoFar, Payout
    <3>2. c.cash[u] \in Nat /\ d.cash[u] \in Nat /\ c.cash \in [Users -> Nat]
      BY PurseColumns
    <3>3. IsFiniteSet(S) /\ n \notin S
      <4>1. S \subseteq Ships /\ IsFiniteSet(Ships)
        BY FS_Interval DEF Leaving, Ships
      <4>. QED BY <1>3, <4>1, FS_Subset
    <3>4. \A i \in Leaving(d, e) : d.ship[i].pay \in Nat
      <4>1. \A i \in Ships : d.ship[i] # NULL => d.ship[i] \in ShipRows
        <5>. HIDE DEF ShipRows
        <5>. QED BY ShippingColumns
      <4>2. \A r \in ShipRows : r.pay \in Nat
        BY DEF ShipRows
      <4>. HIDE DEF ShipRows
      <4>. QED BY <4>1, <4>2 DEF Leaving
    <3>5. \A i \in S : f[i] \in Int /\ f[i] = g[i]
      BY <2>1, <3>4
    <3>6. CASE s.who = u
      <4>1. T = S \cup {n} /\ f[n] = s.pay
        BY <2>1, <3>6
      <4>2. e.cash[u] = c.cash[u] + s.pay
        BY <1>1, <1>5, <3>2, <3>6
      <4>. HIDE DEF f, g, S, T
      <4>3. SumFunctionOnSet(f, T) = s.pay + SumFunctionOnSet(g, S)
        BY <1>1, <3>3, <3>5, <4>1, SumMore
      <4>4. e.cash[u] - d.cash[u] = SumFunctionOnSet(f, T)
        BY <1>1, <3>1, <3>2, <4>2, <4>3
      <4>. QED BY <4>4 DEF Payout, f, T
    <3>7. CASE s.who # u
      <4>1. T = S
        BY <2>1, <3>7
      <4>2. e.cash[u] = c.cash[u]
        BY <1>1, <1>5, <3>2, <3>7
      <4>. HIDE DEF f, g, S, T
      <4>3. SumFunctionOnSet(f, T) = SumFunctionOnSet(g, S)
        BY <3>3, <3>5, <4>1, SumCongruence
      <4>4. e.cash[u] - d.cash[u] = SumFunctionOnSet(f, T)
        BY <3>1, <4>2, <4>3
      <4>. QED BY <4>4 DEF Payout, f, T
    <3>. QED BY <3>6, <3>7
  <2>5. PaidSoFar(d, e, n)
    BY <2>2, <2>3, <2>4 DEF PaidSoFar
  <2>. QED BY <2>5 DEF e
<1>. QED BY <1>4, <1>5

\* g[i]: what the first i shipments that arrive leave.
Arrives(g, S, m) ==
  g = [i \in 0 .. m |-> IF i = 0 THEN db ELSE IF i \in S THEN Arrived(g[i - 1], i) ELSE g[i - 1]]

LEMMA ArrivesExist ==
  ASSUME NEW S, NEW m \in Nat
  PROVE  \E g : Arrives(g, S, m)
<1>. DEFINE One(g, l) == IF l = 0 THEN db ELSE IF l \in S THEN Arrived(g[l - 1], l) ELSE g[l - 1]
            P(n) == \E g : g = [l \in 0 .. n |-> One(g, l)]
            N    == {n \in Nat : P(n)}
<1>1. P(0)
  <2>. DEFINE g == [l \in 0 .. 0 |-> db]
  <2>1. g = [l \in 0 .. 0 |-> One(g, l)]
    OBVIOUS
  <2>. QED BY <2>1
<1>2. ASSUME NEW n \in Nat, P(n) PROVE P(n + 1)
  <2>1. PICK g : g = [l \in 0 .. n |-> One(g, l)]
    BY <1>2
  <2>. DEFINE h == [l \in 0 .. n + 1 |-> One(g, l)]
  <2>2. \A l \in 0 .. n : h[l] = g[l]
    BY <2>1
  <2>3. ASSUME NEW l \in 0 .. n + 1 PROVE One(g, l) = One(h, l)
    <3>1. l # 0 => l - 1 \in 0 .. n
      OBVIOUS
    <3>. HIDE DEF h
    <3>. QED BY <2>2, <3>1
  <2>4. h = [l \in 0 .. n + 1 |-> One(h, l)]
    BY <2>3
  <2>. QED BY <2>4, Zenon
<1>3. m \in N
  <2>1. 0 \in N /\ \A n \in Nat : n \in N => n + 1 \in N
    <3>. HIDE DEF P
    <3>. QED BY <1>1, <1>2
  <2>2. \A n \in Nat : n \in N
    <3>. HIDE DEF N
    <3>. QED BY <2>1, NumberInduction
  <2>. QED BY <2>2
<1>. QED BY <1>3 DEF Arrives

LEMMA ShipmentJobStep == ASSUME Typed(db), ShipmentJob PROVE Working
<1>. DEFINE S == {i \in Ships : db.ship[i] # NULL /\ db.ship[i].due}
            P(g) == Arrives(g, S, LastShip)
            after == CHOOSE g : P(g)
            Good(e, l) == /\ Worked(db, e) /\ PaidSoFar(db, e, l)
                          /\ \A m \in Ships : m > l => e.ship[m] = db.ship[m]
            N == {l \in Nat : l <= LastShip => Good(after[l], l)}
<1>1. LastShip \in Nat
  BY RoadsAssumption
<1>2. \E g : P(g)
  BY <1>1, ArrivesExist
<1>3. P(after)
  BY <1>2, Zenon
<1>4. Run(after[LastShip])
  BY DEF ShipmentJob, Arrives
<1>. HIDE DEF after
<1>5. 0 \in N
  <2>1. after[0] = db
    BY <1>1, <1>3 DEF Arrives
  <2>2. Worked(db, db)
    BY CalmSelf, CalmWorks
  <2>3. PaidSoFar(db, db, 0)
    <3>1. Leaving(db, db) = {}
      BY DEF Leaving
    <3>. QED BY <3>1, PayNone
  <2>. QED BY <2>1, <2>2, <2>3
<1>6. ASSUME NEW l \in Nat, l \in N PROVE l + 1 \in N
  <2>1. SUFFICES ASSUME l + 1 <= LastShip PROVE Good(after[l + 1], l + 1)
    BY <1>6
  <2>. DEFINE c == after[l]
              n == l + 1
  <2>2. after[n] = IF n \in S THEN Arrived(c, n) ELSE c
    <3>1. l + 1 \in 0 .. LastShip /\ l + 1 # 0 /\ (l + 1) - 1 = l
      BY <1>1, <2>1
    <3>2. after[l + 1] = IF l + 1 = 0 THEN db
                         ELSE IF l + 1 \in S THEN Arrived(after[(l + 1) - 1], l + 1) ELSE after[(l + 1) - 1]
      BY <1>3, <3>1 DEF Arrives
    <3>. QED BY <3>1, <3>2
  <2>3. Good(c, l) /\ n \in Ships /\ n > l
    BY <1>1, <1>6, <2>1 DEF Ships
  <2>4. \A m \in Ships : m > n => m > l /\ m # n
    BY <2>3, <1>1 DEF Ships
  <2>. HIDE DEF c, n
  <2>5. CASE n \in S
    <3>. DEFINE e == Arrived(c, n)
    <3>1. c.ship[n] # NULL
      BY <2>3, <2>5
    <3>2. Worked(c, e) /\ e.life = c.life /\ \A j \in Ships \ {n} : e.ship[j] = c.ship[j]
      BY <2>3, <3>1, ArrivedWorks DEF Worked
    <3>. HIDE DEF e
    <3>3. Worked(db, e)
      BY <2>3, <3>2, WorkedOn
    <3>5. PaidSoFar(db, e, n)
      <4>1. c.ship[n] = db.ship[n] /\ db.ship[n] # NULL /\ db.ship[n].due
        BY <2>3, <2>5
      <4>. HIDE DEF S
      <4>. QED BY <1>1, <2>3, <4>1, PayOne DEF Worked, n, e
    <3>4. Good(e, n)
      BY <2>3, <2>4, <3>2, <3>3, <3>5
    <3>. QED BY <2>2, <2>5, <3>4 DEF e, n
  <2>6. CASE n \notin S
    <3>2. PaidSoFar(db, c, n)
      <4>1. \A i \in Leaving(db, c) : i <= l /\ i \in Int
        BY <2>3 DEF PaidSoFar, Leaving, Ships
      <4>2. \A i \in Leaving(db, c) : i <= n
        BY <1>6, <4>1 DEF n
      <4>. QED BY <2>3, <4>2 DEF PaidSoFar
    <3>1. Good(c, n)
      BY <2>3, <2>4, <3>2
    <3>. QED BY <2>2, <2>6, <3>1 DEF n
  <2>. QED BY <2>5, <2>6
<1>7. LastShip \in N
  <2>1. \A l \in Nat : l \in N
    <3>. HIDE DEF N
    <3>. QED BY <1>5, <1>6, NumberInduction
  <2>. QED BY <1>1, <2>1
<1>. QED BY <1>1, <1>4, <1>7 DEF Working, Delivered, PaidSoFar

-----------------------------------------------------------------------------
(* Time.                                                                   *)

\* What a load is stays what it is; it may become due.
Rolled(d, e) ==
  \A i \in Ships :
    /\ e.ship[i] = NULL <=> d.ship[i] = NULL
    /\ d.ship[i] # NULL =>
         /\ e.ship[i].who = d.ship[i].who /\ e.ship[i].pay = d.ship[i].pay
         /\ e.ship[i].fate = d.ship[i].fate /\ e.ship[i].hops = d.ship[i].hops
         /\ d.ship[i].due => e.ship[i].due

\* Time moves no number of an account, no load and nobody into jail.
Passed(d, e) ==
  /\ Typed(e)
  /\ e.points = d.points /\ e.again = d.again /\ e.skill = d.skill /\ e.level = d.level /\ e.bank = d.bank /\ e.vault = d.vault
  /\ e.hp = d.hp /\ e.fallen = d.fallen /\ e.life = d.life /\ e.energy = d.energy /\ e.cash = d.cash
  /\ Rolled(d, e)
  /\ \A u \in Users : Jailed(e, u) => Jailed(d, u)
Passing == Passed(db, db') /\ UNCHANGED <<mem, op, job, racing, raced, due>>

LEMMA PutPasses ==
  ASSUME NEW d, Typed(d), NEW t \in Columns \ (Guarded \cup {"energy", "cash"}), NEW f, OfType(t, f)
  PROVE  Passed(d, [d EXCEPT ![t] = f])
<1>. DEFINE e == [d EXCEPT ![t] = f]
<1>1. Typed(e) /\ Frame(d, e, {t})
  BY PutCalm
<1>. HIDE DEF e
<1>2. \A s \in Guarded \cup {"energy", "cash"} : e[s] = d[s]
  BY <1>1, ColumnNames DEF Frame, Guarded
<1>3. /\ e.points = d.points /\ e.again = d.again /\ e.skill = d.skill /\ e.level = d.level /\ e.bank = d.bank /\ e.vault = d.vault
      /\ e.hp = d.hp /\ e.fallen = d.fallen /\ e.life = d.life /\ e.energy = d.energy /\ e.cash = d.cash /\ e.ship = d.ship /\ e.clock = d.clock
  BY <1>2 DEF Guarded
<1>4. Passed(d, e)
  BY <1>1, <1>3 DEF Passed, Rolled, Jailed
<1>. QED BY <1>4 DEF e

LEMMA DayOverStep == ASSUME Typed(db), NEW u \in Users, DayOver(u) PROVE Passing
<1>. DEFINE f == [db.quest EXCEPT ![u] = NULL]
<1>1. OfType("quest", f)
  <2>. HIDE DEF Days
  <2>1. f \in [Users -> Days \cup {NULL}]
    BY MarksColumns
  <2>. QED BY <2>1, MarksColumns
<1>2. "quest" \in Columns \ (Guarded \cup {"energy", "cash"})
  BY ColumnNames DEF Guarded
<1>3. db' = [db EXCEPT !["quest"] = f]
  BY DEF DayOver
<1>. HIDE DEF f
<1>. QED BY <1>1, <1>2, <1>3, PutPasses DEF DayOver, Passing

LEMMA TickOverStep == ASSUME Typed(db), NEW u \in Users, TickOver(u) PROVE Passing
<1>. DEFINE f == [db.shift EXCEPT ![u] = @ + 1]
<1>1. OfType("shift", f)
  <2>1. f \in [Users -> Nat \cup {NULL}]
    BY StoresColumns DEF TickOver
  <2>. QED BY <2>1, StoresColumns
<1>2. "shift" \in Columns \ (Guarded \cup {"energy", "cash"})
  BY ColumnNames DEF Guarded
<1>3. db' = [db EXCEPT !["shift"] = f]
  BY DEF TickOver
<1>. HIDE DEF f
<1>. QED BY <1>1, <1>2, <1>3, PutPasses DEF TickOver, Passing

LEMMA PlotTimeStep == ASSUME Typed(db), NEW u \in Users, NEW n \in 1 .. MaxPlots, PlotTime(u, n) PROVE Passing
<1>. DEFINE p == db.plot[<<u, n>>]
            q == [p EXCEPT !.state = IF @ = "building" THEN "empty" ELSE "ready"]
            f == [db.plot EXCEPT ![<<u, n>>] = q]
<1>1. OfType("plot", f)
  <2>1. p \in PlotRows /\ p.state \in {"building", "growing"}
    <3>. HIDE DEF PlotRows
    <3>. QED BY LandColumns DEF PlotTime
  <2>. HIDE DEF p
  <2>2. q \in PlotRows
    BY <2>1 DEF PlotRows
  <2>. HIDE DEF PlotRows, q
  <2>3. f \in [Users \X (1 .. MaxPlots) -> PlotRows \cup {NULL}]
    BY <2>2, LandColumns
  <2>. QED BY <2>3, LandColumns
<1>2. "plot" \in Columns \ (Guarded \cup {"energy", "cash"})
  BY ColumnNames DEF Guarded
<1>3. db' = [db EXCEPT !["plot"] = f]
  BY DEF PlotTime
<1>. HIDE DEF f
<1>. QED BY <1>1, <1>2, <1>3, PutPasses DEF PlotTime, Passing

LEMMA FeedDayStep == ASSUME Typed(db), FeedDay PROVE Passing
<1>. DEFINE f == [x \in DOMAIN db.dog |-> IF db.dog[x] = NULL THEN NULL ELSE [db.dog[x] EXCEPT !.fed = 0]]
<1>1. OfType("dog", f)
  <2>1. DOMAIN db.dog = Users \X Dogs
    <3>1. db.dog = [k \in Users \X Dogs |-> db.dog[k]]
      BY OtherColumns, Zenon
    <3>. QED BY <3>1
  <2>2. f = [k \in Users \X Dogs |-> f[k]]
    BY <2>1
  <2>. HIDE DEF f
  <2>. QED BY <2>2, OtherColumns, Zenon
<1>2. "dog" \in Columns \ (Guarded \cup {"energy", "cash"})
  BY ColumnNames DEF Guarded
<1>3. db' = [db EXCEPT !["dog"] = f]
  BY DEF FeedDay
<1>. HIDE DEF f
<1>. QED BY <1>1, <1>2, <1>3, PutPasses DEF FeedDay, Passing

LEMMA CaravanTimeStep == ASSUME Typed(db), CaravanTime PROVE Passing
<1>. DEFINE f == [db.world EXCEPT !.stays = FALSE]
            g == [db.world EXCEPT !.rested = TRUE]
<1>1. OfType("world", f) /\ OfType("world", g)
  <2>1. db.world \in Worlds
    BY ShippingColumns DEF Worlds
  <2>2. f \in Worlds /\ g \in Worlds
    BY <2>1 DEF Worlds
  <2>. HIDE DEF f, g
  <2>. QED BY <2>2, ShippingColumns DEF Worlds
<1>2. "world" \in Columns \ (Guarded \cup {"energy", "cash"})
  BY ColumnNames DEF Guarded
<1>3. db' = [db EXCEPT !["world"] = f] \/ db' = [db EXCEPT !["world"] = g]
  BY DEF CaravanTime
<1>. HIDE DEF f, g
<1>. QED BY <1>1, <1>2, <1>3, PutPasses DEF CaravanTime, Passing

LEMMA RoadOverStep == ASSUME Typed(db), NEW i \in Ships, RoadOver(i) PROVE Passing
<1>. DEFINE x == [db.ship[i] EXCEPT !.due = TRUE]
            f == [db.ship EXCEPT ![i] = x]
            e == [db EXCEPT !["ship"] = f]
<1>1. db' = e
  BY DEF RoadOver
<1>2. /\ x \in ShipRows /\ db.ship[i] # NULL
      /\ x.who = db.ship[i].who /\ x.pay = db.ship[i].pay /\ x.fate = db.ship[i].fate /\ x.hops = db.ship[i].hops /\ x.due
  <2>1. db.ship[i] \in ShipRows /\ db.ship[i] # NULL
    <3>. HIDE DEF ShipRows
    <3>. QED BY ShippingColumns DEF RoadOver
  <2>2. \A s \in ShipRows : LET r == [s EXCEPT !.due = TRUE]
                            IN  r \in ShipRows /\ r.who = s.who /\ r.pay = s.pay /\ r.fate = s.fate /\ r.hops = s.hops /\ r.due
    BY DEF ShipRows
  <2>. HIDE DEF ShipRows
  <2>. QED BY <2>1, <2>2
<1>. HIDE DEF x
<1>3. x # NULL
  BY <1>2, RoadsAssumption DEF ShipRows
<1>4. f \in [Ships -> ShipRows \cup {NULL}] /\ \A j \in Ships : IF j = i THEN f[j] = x ELSE f[j] = db.ship[j]
  <2>. HIDE DEF ShipRows
  <2>. QED BY <1>2, ShippingColumns
<1>. HIDE DEF f
<1>5. Frame(db, e, {"ship"}) /\ e.ship = f
  BY ColumnNames DEF Typed, Frame
<1>6. Typed(e)
  <2>1. OfType("ship", f)
    <3>. HIDE DEF ShipRows
    <3>. QED BY <1>4, ShippingColumns
  <2>2. \A t \in {"ship"} : OfType(t, e[t])
    BY <1>5, <2>1
  <2>. HIDE DEF e
  <2>. QED BY <1>5, <2>2, FrameTyped
<1>. HIDE DEF e
<1>7. \A s \in Columns \ {"ship"} : e[s] = db[s]
  BY <1>5 DEF Frame
<1>8. /\ e.points = db.points /\ e.again = db.again /\ e.skill = db.skill /\ e.level = db.level /\ e.bank = db.bank /\ e.vault = db.vault
      /\ e.hp = db.hp /\ e.fallen = db.fallen /\ e.life = db.life /\ e.energy = db.energy /\ e.cash = db.cash /\ e.clock = db.clock
  BY <1>7, ColumnNames
<1>9. Passed(db, e)
  BY <1>2, <1>3, <1>4, <1>5, <1>6, <1>8 DEF Passed, Rolled, Jailed
<1>. QED BY <1>1, <1>9 DEF RoadOver, Passing

LEMMA ElapseStep == ASSUME Typed(db), NEW u \in Users, NEW k \in Timers, Elapse(u, k) PROVE Passing
<1>. DEFINE f == [db.clock EXCEPT ![<<u, k>>] = FALSE]
            e == [db EXCEPT !["clock"] = f]
<1>1. f \in [Users \X Timers -> BOOLEAN] /\ \A v \in Users : f[<<v, "jail">>] => db.clock[<<v, "jail">>]
  BY ClocksColumns DEF Timers
<1>2. Frame(db, e, {"clock"}) /\ e.clock = f
  BY ColumnNames DEF Typed, Frame
<1>3. db' = e
  BY DEF Elapse
<1>4. Typed(e)
  <2>1. OfType("clock", f)
    BY <1>1, ClocksColumns
  <2>2. \A t \in {"clock"} : OfType(t, e[t])
    BY <1>2, <2>1
  <2>. HIDE DEF e
  <2>. QED BY <1>2, <2>2, FrameTyped
<1>. HIDE DEF e, f
<1>5. \A s \in Columns \ {"clock"} : e[s] = db[s]
  BY <1>2 DEF Frame
<1>6. /\ e.points = db.points /\ e.again = db.again /\ e.skill = db.skill /\ e.level = db.level /\ e.bank = db.bank /\ e.vault = db.vault
      /\ e.hp = db.hp /\ e.fallen = db.fallen /\ e.life = db.life /\ e.energy = db.energy /\ e.cash = db.cash /\ e.ship = db.ship
  BY <1>5, ColumnNames
<1>7. Passed(db, e)
  BY <1>1, <1>2, <1>4, <1>6 DEF Passed, Rolled, Jailed
<1>. QED BY <1>3, <1>7 DEF Elapse, Passing

-----------------------------------------------------------------------------
(* Every step.                                                             *)

LEMMA MergeCells ==
  ASSUME NEW now, NEW read, NEW new, Typed(now), Typed(read), Typed(new)
  PROVE  LET e == Merge(now, read, new)
         IN  /\ Typed(e)
             /\ \A t \in Columns : \A k \in Keys(t) : e[t][k] = IF new[t][k] = read[t][k] THEN now[t][k] ELSE new[t][k]
<1>. DEFINE e == Merge(now, read, new)
            cells(t) == [k \in Keys(t) |-> IF new[t][k] = read[t][k] THEN now[t][k] ELSE new[t][k]]
<1>1. DOMAIN now = Columns
  BY DEF Typed
<1>2. ASSUME NEW t \in Columns PROVE DOMAIN now[t] = Keys(t)
  <2>1. OfType(t, now[t])
    BY DEF Typed
  <2>. QED BY <2>1 DEF OfType
<1>3. e = [t \in Columns |-> cells(t)]
  BY <1>1, <1>2 DEF Merge
<1>. HIDE DEF e
<1>4. ASSUME NEW t \in Columns PROVE OfType(t, e[t]) /\ e[t] = cells(t)
  <2>1. e[t] = cells(t)
    BY <1>3
  <2>2. OfType(t, now[t]) /\ OfType(t, new[t])
    BY DEF Typed
  <2>3. t \in DOMAIN Cells => \A k \in Keys(t) : e[t][k] \in Cells[t][k]
    <3>. SUFFICES ASSUME t \in DOMAIN Cells, NEW k \in Keys(t) PROVE e[t][k] \in Cells[t][k]
      OBVIOUS
    <3>1. now[t][k] \in Cells[t][k] /\ new[t][k] \in Cells[t][k]
      BY <2>2 DEF OfType
    <3>2. e[t][k] = IF new[t][k] = read[t][k] THEN now[t][k] ELSE new[t][k]
      BY <2>1
    <3>. QED BY <3>1, <3>2
  <2>4. e[t] = [k \in Keys(t) |-> e[t][k]]
    BY <2>1
  <2>. HIDE DEF cells
  <2>. QED BY <2>1, <2>3, <2>4 DEF OfType
<1>5. e = [t \in Columns |-> e[t]]
  BY <1>3
<1>6. Typed(e)
  BY <1>4, <1>5 DEF Typed
<1>. QED BY <1>4, <1>6 DEF e

\* The pulse: nobody loses energy by it, and what is given is owed.
Pulsing ==
  /\ \E f \in [Users -> Nat] :
       /\ db' = [db EXCEPT !.energy = f]
       /\ due' = [u \in Users |-> due[u] + f[u] - db.energy[u]]
       /\ \A u \in Users : f[u] >= db.energy[u]
  /\ UNCHANGED <<mem, op, job, racing, raced>>

LEMMA PulseStep == ASSUME Typed(db), Pulse PROVE Pulsing
<1>. DEFINE g(u) == Min({EnergyCap(db, u), db.energy[u] + PulseAmount})
            f == [u \in Users |-> IF db.energy[u] < EnergyCap(db, u) THEN g(u) ELSE db.energy[u]]
<1>1. /\ db' = [db EXCEPT !.energy = f]
      /\ due' = [u \in Users |-> due[u] + f[u] - db.energy[u]]
      /\ UNCHANGED <<mem, op, job, racing, raced>>
  BY DEF Pulse
<1>2. ASSUME NEW u \in Users PROVE f[u] \in Nat /\ f[u] >= db.energy[u]
  <2>1. EnergyCap(db, u) \in Nat /\ db.energy[u] \in Nat /\ PulseAmount \in Nat
    <3>1. EnergyCap(db, u) \in Nat
      BY RoomNat
    <3>2. db.energy[u] \in Nat
      BY GrowthColumns
    <3>3. PulseAmount \in Nat
      BY AccountsAssumption
    <3>. QED BY <3>1, <3>2, <3>3
  <2>2. EnergyCap(db, u) \in Int /\ db.energy[u] + PulseAmount \in Int
    BY <2>1
  <2>3. g(u) = IF EnergyCap(db, u) <= db.energy[u] + PulseAmount THEN EnergyCap(db, u) ELSE db.energy[u] + PulseAmount
    BY <2>2, Pairs
  <2>4. f[u] = IF db.energy[u] < EnergyCap(db, u) THEN g(u) ELSE db.energy[u]
    OBVIOUS
  <2>. HIDE DEF f, g
  <2>. QED BY <2>1, <2>3, <2>4
<1>3. f \in [Users -> Nat]
  BY <1>2
<1>. HIDE DEF f
<1>. QED BY <1>1, <1>2, <1>3 DEF Pulsing

LEMMA AccountStep ==
  ASSUME Typed(db), NEW u \in Users, NEW draw \in QuestDraws, Account(u, draw)
  PROVE  Calmly
<1>1. CASE QuestPage(u) \/ Page(u) \/ SkillReset(u) \/ \E s \in Skills : SkillUp(u, s)
  <2>1. "stamina" \in Skills
    BY AccountsAssumption
  <2>. QED BY <1>1, <2>1, SkillStep
<1>2. CASE BankUpgrade(u)
  BY <1>2, BankUpgradeStep
<1>3. CASE \E k \in Drinks : BuyDrink(u, k, draw)
  BY <1>3, BuyDrinkStep
<1>4. CASE \E n \in Amounts : DepositText(u, n) \/ WithdrawText(u, n)
  BY <1>4, BankStep, AmountsNat
<1>5. CASE \E n \in Amounts, v \in Users : Transfer(u, v, n)
  BY <1>5, TransferStep
<1>6. CASE \E ask \in {"bankdep", "bankwd", "trf_to"} : BankAsk(u, ask)
  BY <1>6, QuestionStep
<1>7. CASE \E half \in BOOLEAN : BankQuick(u, half)
  <2>1. PICK half \in BOOLEAN : BankQuick(u, half)
    BY <1>7
  <2>2. 0 \in Nat
    OBVIOUS
  <2>. QED BY <2>1, <2>2, BankStep
<1>. QED BY <1>1, <1>2, <1>3, <1>4, <1>5, <1>6, <1>7 DEF Account

LEMMA WorkStep ==
  ASSUME Typed(db), NEW u \in Users, NEW draw \in QuestDraws, Work(u, draw)
  PROVE  Calmly
<1>1. CASE CompanyPage(u)
  BY <1>1, PageStep
<1>2. CASE \E loot \in Loots : MineTrip(u, loot, draw)
  BY <1>2, MineTripStep
<1>3. CASE \E t \in Tools : UpgradeTool(u, t)
  BY <1>3, UpgradeToolStep
<1>4. CASE \E f \in Factories : Collect(u, f) \/ Build(u, f) \/ UpgradeFactory(u, f)
  BY <1>4, CollectStep, BuildStep
<1>5. CASE \E r \in Res, ask \in {"resbuy", "ressell"} : AskRes(u, ask, r)
  BY <1>5, QuestionStep
<1>6. CASE \E r \in Res, n \in Amounts : BuyRes(u, r, n)
  BY <1>6, ResourceStep
<1>7. CASE \E r \in Res, n \in Amounts : \E price \in ResPrice[r] : SellRes(u, r, n, price, draw)
  BY <1>7, ResourceStep
<1>. QED BY <1>1, <1>2, <1>3, <1>4, <1>5, <1>6, <1>7 DEF Work

LEMMA LandStep ==
  ASSUME Typed(db), NEW u \in Users, NEW draw \in QuestDraws, Land(u, draw)
  PROVE  Calmly
<1>1. CASE BuyPlot(u) \/ Search(u, draw) \/ UpgradeHome(u)
  BY <1>1, BuyPlotStep, SearchStep, UpgradeHomeStep
<1>2. CASE \E n \in 1 .. MaxPlots : UpgradePlot(u, n)
  BY <1>2, UpgradePlotStep
<1>3. CASE \E n \in 1 .. MaxPlots : \E c \in Crops : Plant(u, n, c, draw)
  BY <1>3, PlantStep
<1>4. CASE \E n \in 1 .. MaxPlots : \E gems \in SpeedUps, all \in BOOLEAN : SpeedUp(u, n, gems, all)
  BY <1>4, SpeedUpStep
<1>5. CASE \E q \in [1 .. MaxPlots -> Quantities], w \in Worths : Harvest(u, q, w, draw)
  BY <1>5, HarvestStep
<1>6. CASE \E c \in Crops : AskSeed(u, c)
  BY <1>6, QuestionStep
<1>7. CASE \E c \in Crops : \E n \in Amounts : BuySeed(u, c, n)
  BY <1>7, BuySeedStep
<1>. QED BY <1>1, <1>2, <1>3, <1>4, <1>5, <1>6, <1>7 DEF Land

LEMMA TradeStep ==
  ASSUME Typed(db), NEW u \in Users, NEW draw \in QuestDraws, Trade(u, draw)
  PROVE  Handling
<1>1. CASE AskCaravan(u) \/ \E c \in Crops : AskShip(u, c)
  BY <1>1, QuestionStep, CalmHandles
<1>2. CASE \E n \in Amounts : SellToCaravan(u, n)
  BY <1>2, SellToCaravanStep, CalmHandles
<1>3. CASE \E c \in Crops : \E n \in Amounts, fate \in Fates, seize \in Seizes \cup {0} : SendShipment(u, c, n, fate, seize, draw)
  BY <1>3, SendShipmentStep
<1>. QED BY <1>1, <1>2, <1>3 DEF Trade

LEMMA OutfitStep ==
  ASSUME Typed(db), NEW u \in Users, NEW draw \in QuestDraws, Outfit(u, draw)
  PROVE  Calmly
<1>0. DOMAIN Goods \subseteq Things
  BY GearAssumption DEF Things
<1>1. CASE \E k \in DOMAIN Goods : Buy(u, k)
  BY <1>1, BuyStep
<1>2. CASE \E k \in DOMAIN Goods : UpgradeGear(u, k)
  BY <1>0, <1>2, UpgradeGearStep
<1>3. CASE TakeOff(u) \/ \E k \in DOMAIN Goods : Wear(u, k)
  BY <1>3, WearStep
<1>4. CASE \E k \in DOMAIN Goods : Reload(u, k)
  BY <1>0, <1>4, ReloadStep
<1>5. CASE \E k \in Dogs : HoldDog(u, k)
  BY <1>5, QuestionStep
<1>6. CASE \E k \in Dogs : BuyDog(u, k) \/ Release(u, k)
  BY <1>6, DogStep
<1>7. CASE \E k \in Dogs : \E food \in DOMAIN Foods : Feed(u, k, food, draw)
  BY <1>7, FeedStep
<1>. QED BY <1>1, <1>2, <1>3, <1>4, <1>5, <1>6, <1>7 DEF Outfit

LEMMA ViolenceStep ==
  ASSUME Typed(db), NEW u \in Users, NEW draw \in QuestDraws, Violence(u, draw)
  PROVE  Handling
<1>1. CASE HealPage(u) \/ \E k \in DOMAIN Heals : Heal(u, k)
  BY <1>1, HealStep, CalmHandles
<1>2. CASE Reroll(u) \/ Spy(u)
  BY <1>2, PickStep, CalmHandles
<1>3. CASE \E v \in Users : Snitch(u, v)
  BY <1>3, SnitchStep
<1>4. CASE \E v \in Users : \E dmg \in Damages, p \in Steals \cup {0}, poisons \in BOOLEAN : Hit(u, v, dmg, p, poisons, draw)
  BY <1>4, HitStep, CalmHandles
<1>5. CASE \E v \in Users : \E breaks, drops, won \in BOOLEAN, p \in Steals : PvAttack(u, v, breaks, drops, won, p, draw)
  BY <1>5, PvAttackStep, CalmHandles
<1>. QED BY <1>1, <1>2, <1>3, <1>4, <1>5 DEF Violence

LEMMA AnswersStep ==
  ASSUME Typed(db), NEW u \in Users, Answers(u)
  PROVE  Handling
<1>1. CASE \E n \in Amounts : BankAmount(u, n)
  BY <1>1, BankStep, AmountsNat, CalmHandles
<1>2. CASE \/ \E n \in Amounts : TransferAmount(u, n) \/ ResAmount(u, n) \/ ShipQty(u, n) \/ CaravanQty(u, n)
           \/ (\E v \in Users : TransferTo(u, v)) \/ SeedAmount(u) \/ NameDog(u)
  BY <1>2, QuestionStep, CalmHandles
<1>3. CASE Bribe(u)
  BY <1>3, BribeStep
<1>. QED BY <1>1, <1>2, <1>3 DEF Answers

LEMMA AdminStep == ASSUME Typed(db), Admin PROVE Handling
<1>1. CASE \E u \in Users : ClearAccount(u)
  BY <1>1, ClearAccountStep
<1>2. CASE \E u \in Users : HideBoard(u)
  <2>1. 0 \in Nat
    OBVIOUS
  <2>. QED BY <1>2, <2>1, PurseStep, CalmHandles
<1>3. CASE \E u \in Users : \E n \in Amounts : AddTp(u, n) \/ AddGem(u, n) \/ TakeTp(u, n) \/ GiveXp(u, n) \/ TakeXp(u, n)
  BY <1>3, PurseStep, AmountsNat, CalmHandles
<1>4. CASE \E u \in Users : \E n \in Amounts : \E c \in Crops, w \in Worths : AddCrop(u, c, n, w)
  BY <1>4, AddCropStep, CalmHandles
<1>5. CASE UpdateCmd
  BY <1>5, UpdateStep, CalmHandles
<1>6. CASE \E c \in Crops, b \in Bonuses : AdminCaravan(c, b)
  BY <1>6, AdminCaravanStep, CalmHandles
<1>. QED BY <1>1, <1>2, <1>3, <1>4, <1>5, <1>6 DEF Admin

LEMMA JobsStep == ASSUME Typed(db), Jobs PROVE Working \/ Pulsing
<1>1. CASE Pulse
  BY <1>1, PulseStep
<1>2. CASE PendingSweep \/ ShipmentJob \/ WipeJob
  BY <1>2, PendingSweepStep, ShipmentJobStep, WipeJobStep
<1>3. CASE \E c \in Crops, b \in Bonuses : SmugglerJob(c, b)
  BY <1>3, SmugglerJobStep
<1>4. CASE \E found \in SUBSET Users : PoliceWave(found)
  BY <1>4, PoliceWaveStep
<1>. QED BY <1>1, <1>2, <1>3, <1>4 DEF Jobs

LEMMA TimeStep == ASSUME Typed(db), Time PROVE Passing \/ CacheOld
<1>1. CASE \E u \in Users : DayOver(u) \/ TickOver(u)
  BY <1>1, DayOverStep, TickOverStep
<1>2. CASE \E u \in Users : \E n \in 1 .. MaxPlots : PlotTime(u, n)
  BY <1>2, PlotTimeStep
<1>3. CASE \E u \in Users : \E k \in Timers : Elapse(u, k)
  BY <1>3, ElapseStep
<1>4. CASE FeedDay \/ CaravanTime
  BY <1>4, FeedDayStep, CaravanTimeStep
<1>5. CASE \E i \in Ships : RoadOver(i)
  BY <1>5, RoadOverStep
<1>. QED BY <1>1, <1>2, <1>3, <1>4, <1>5 DEF Time

\* The kinds of steps there are.
AnyStep ==
  \/ Handling \/ Working \/ Pulsing \/ Passing
  \/ GateReload \/ CacheOld \/ Commit \/ JobCommit \/ Crash(NoMemory) \/ UNCHANGED vars

LEMMA Steps == ASSUME Typed(db), [Next]_vars PROVE AnyStep
<1>1. ASSUME NEW u \in Users, Command(u) PROVE Handling
  <2>1. PICK draw \in QuestDraws :
          Account(u, draw) \/ Work(u, draw) \/ Land(u, draw) \/ Trade(u, draw) \/ Outfit(u, draw) \/ Violence(u, draw)
    BY <1>1 DEF Command
  <2>. QED BY <2>1, AccountStep, WorkStep, LandStep, TradeStep, OutfitStep, ViolenceStep, CalmHandles
<1>2. ASSUME NEW u \in Users, NEW inside \in BOOLEAN, ChannelCheck(u, inside) PROVE Handling
  BY <1>2, ChannelStep, CalmHandles
<1>3. CASE Next
  BY <1>1, <1>2, <1>3, AnswersStep, AdminStep, JobsStep, TimeStep DEF Next, AnyStep
<1>. QED BY <1>3 DEF AnyStep

-----------------------------------------------------------------------------
(* The types.                                                              *)

\* What a session has read and would commit are databases.
Session(s) == s # Idle => Typed(s.read) /\ Typed(s.new)
TypeInv ==
  /\ Typed(db) /\ Session(op) /\ Session(job)
  /\ mem \in [jail : SUBSET Users, fresh : BOOLEAN] /\ due \in [Users -> Int]
  /\ racing \in BOOLEAN /\ raced \in BOOLEAN /\ (~racing => op = Idle /\ job = Idle)

\* A handler or a job that opens its session, and one that is a single step.
Opens(e, m) ==
  /\ op = Idle /\ op' # Idle /\ op'.read = db /\ op'.new = e /\ mem' = m
  /\ raced' = (raced \/ job # Idle) /\ racing /\ UNCHANGED <<db, due, job, racing>>
Ends(e, m) ==
  db' = e /\ due' = Owed(e, db, e) /\ mem' = m /\ ~racing /\ op = Idle /\ UNCHANGED <<op, raced, job, racing>>
JobOpens(e) ==
  /\ job = Idle /\ job' # Idle /\ job'.read = db /\ job'.new = e
  /\ raced' = (raced \/ op # Idle) /\ racing /\ UNCHANGED <<db, due, mem, op, racing>>
JobEnds(e) ==
  db' = e /\ due' = Owed(e, db, e) /\ ~racing /\ op = Idle /\ job = Idle /\ UNCHANGED <<mem, op, raced, job, racing>>

LEMMA Opened == \A r, n : LET s == [pc |-> "open", read |-> r, new |-> n] IN s # Idle /\ s.read = r /\ s.new = n
BY DEF Idle

LEMMA HandlerSteps == ASSUME Handling PROVE \E e, m : Handled(db, e, m) /\ (Opens(e, m) \/ Ends(e, m))
<1>1. PICK e, m : AnswerWith(e, m) /\ Handled(db, e, m)
  BY DEF Handling
<1>2. CASE racing
  BY <1>1, <1>2, Opened DEF AnswerWith, Opens
<1>3. CASE ~racing
  BY <1>1, <1>3 DEF AnswerWith, Ends
<1>. QED BY <1>1, <1>2, <1>3

LEMMA JobSteps == ASSUME Working PROVE \E e : Worked(db, e) /\ Delivered(db, e) /\ (JobOpens(e) \/ JobEnds(e))
<1>1. PICK e : Run(e) /\ Worked(db, e) /\ Delivered(db, e)
  BY DEF Working
<1>2. CASE racing
  BY <1>1, <1>2, Opened DEF Run, JobOpens
<1>3. CASE ~racing
  BY <1>1, <1>3 DEF Run, JobEnds
<1>. QED BY <1>1, <1>2, <1>3

LEMMA OwedInt ==
  ASSUME NEW now, NEW read, NEW new, Typed(now), Typed(read), Typed(new), due \in [Users -> Int]
  PROVE  Owed(now, read, new) \in [Users -> Int]
<1>1. now.energy \in [Users -> Nat] /\ read.energy \in [Users -> Nat] /\ new.energy \in [Users -> Nat]
  BY GrowthColumns
<1>. QED BY <1>1 DEF Owed

LEMMA StartTyped == Typed(NewTown)
<1>1. /\ StartCash \in Nat /\ MaxEnergy \in Nat /\ 1 \in 1 .. VaultMax /\ 1 \in Levels /\ 1 \in 1 .. ToolMax /\ 0 \in 0 .. HomeMax
      /\ StartSkill \in [Skills -> Nat] /\ 0 \in 0 .. FacMax /\ HpTable[1] \in Nat
  <2>1. StartCash \in Nat /\ MaxEnergy \in Nat
    BY AccountsAssumption
  <2>2. ToolMax \in Nat \ {0}
    BY WorksAssumption
  <2>3. StartSkill \in [Skills -> {0}]
    BY TownAssumption
  <2>. QED BY <2>1, <2>2, <2>3, VaultNumbers, LevelNumbers, RoomNumbers, FactoryNumbers
<1>. DEFINE n == NewTown
<1>2. OfType("cash", n.cash) /\ OfType("gems", n.gems) /\ OfType("parts", n.parts) /\ OfType("bank", n.bank) /\ OfType("vault", n.vault)
  <2>1. /\ n.cash \in [Users -> Nat] /\ n.gems \in [Users -> Nat] /\ n.parts \in [Users -> Nat] /\ n.bank \in [Users -> Nat]
        /\ n.vault \in [Users -> 1 .. VaultMax]
    BY <1>1 DEF NewTown, Over
  <2>. HIDE DEF n
  <2>. QED BY <2>1, PurseColumns
<1>3. OfType("level", n.level) /\ OfType("xp", n.xp) /\ OfType("points", n.points) /\ OfType("again", n.again) /\ OfType("skill", n.skill) /\ OfType("energy", n.energy)
  <2>1. /\ n.level \in [Users -> Levels] /\ n.xp \in [Users -> Nat] /\ n.points \in [Users -> Nat] /\ n.again \in [Users -> Nat]
        /\ n.skill \in [Users -> [Skills -> Nat]] /\ n.energy \in [Users -> Nat]
    BY <1>1 DEF NewTown, Over
  <2>. HIDE DEF n
  <2>. QED BY <2>1, GrowthColumns
<1>4. OfType("hp", n.hp) /\ OfType("fallen", n.fallen) /\ OfType("quest", n.quest) /\ OfType("life", n.life) /\ OfType("snitched", n.snitched)
  <2>. HIDE DEF Days
  <2>1. /\ n.hp \in [Users -> Nat] /\ n.fallen \in [Users -> BOOLEAN] /\ n.quest \in [Users -> Days \cup {NULL}]
        /\ n.life \in [Users -> Nat] /\ n.snitched \in [Users -> Nat]
    BY <1>1 DEF NewTown, Over
  <2>. HIDE DEF n
  <2>. QED BY <2>1, HealthColumns, MarksColumns
<1>5. OfType("home", n.home) /\ OfType("res", n.res) /\ OfType("tool", n.tool) /\ OfType("fac", n.fac) /\ OfType("shift", n.shift)
  <2>1. /\ n.home \in [Users -> 0 .. HomeMax] /\ n.res \in [Users \X Res -> Nat] /\ n.tool \in [Users \X Tools -> 1 .. ToolMax]
        /\ n.fac \in [Users \X Factories -> [level : 0 .. FacMax, stock : Nat]] /\ n.shift \in [Users -> Nat \cup {NULL}]
    BY <1>1 DEF NewTown, Over
  <2>. HIDE DEF n
  <2>. QED BY <2>1, StoresColumns
<1>6. OfType("seed", n.seed) /\ OfType("good", n.good) /\ OfType("plot", n.plot)
  <2>. HIDE DEF PlotRows
  <2>1. /\ n.seed \in [Users \X Crops -> Nat] /\ n.good \in [Users \X Crops -> [qty : Nat, value : Nat]]
        /\ n.plot \in [Users \X (1 .. MaxPlots) -> PlotRows \cup {NULL}]
    BY DEF NewTown, Over, NoGood
  <2>. HIDE DEF n
  <2>. QED BY <2>1, LandColumns
<1>7. OfType("clock", n.clock) /\ OfType("ship", n.ship) /\ OfType("world", n.world)
  <2>. HIDE DEF ShipRows, Caravans
  <2>1. /\ n.clock \in [Users \X Timers -> BOOLEAN] /\ n.ship \in [Ships -> ShipRows \cup {NULL}]
        /\ n.world \in [caravan : Caravans \cup {NULL}, stays : BOOLEAN, rested : BOOLEAN]
    BY DEF NewTown, Over
  <2>. HIDE DEF n
  <2>. QED BY <2>1, ClocksColumns, ShippingColumns
<1>8. OfType("item", n.item) /\ OfType("wear", n.wear)
  <2>. DEFINE X == Users \X (Weapons \cup Armors \cup Artifacts)
  <2>1. n.item = [x \in X |-> NULL] /\ n.wear = [u \in Users |-> NoWear]
    BY DEF NewTown, Over
  <2>2. NoWear \in Worn
    BY DEF NoWear, Worn
  <2>. HIDE DEF n, Worn, ItemRows
  <2>3. n.wear \in [Users -> Worn]
    BY <2>1, <2>2
  <2>4. n.item = [x \in X |-> n.item[x]] /\ \A x \in X : n.item[x] \in ItemRows(x[2]) \cup {NULL}
    BY <2>1
  <2>. QED BY <2>3, <2>4, ArmsColumns
<1>9. /\ OfType("saved", n.saved) /\ OfType("hidden", n.hidden) /\ OfType("first", n.first) /\ OfType("pend", n.pend)
      /\ OfType("dog", n.dog) /\ OfType("member", n.member) /\ OfType("left", n.left)
  <2>1. /\ n.saved = [k \in Users |-> n.saved[k]] /\ n.hidden = [k \in Users |-> n.hidden[k]]
        /\ n.first = [k \in Users |-> n.first[k]] /\ n.pend = [k \in Users |-> n.pend[k]]
        /\ n.dog = [k \in Users \X Dogs |-> n.dog[k]] /\ n.member = [k \in Users |-> n.member[k]]
        /\ n.left = [k \in Users |-> n.left[k]]
    BY DEF NewTown, Over
  <2>. HIDE DEF n
  <2>. QED BY <2>1, OtherColumns, Zenon
<1>10. n = [t \in Columns |-> n[t]]
  BY DEF Columns, NewTown
<1>11. Columns \subseteq
        {"cash", "gems", "parts", "bank", "vault", "level", "xp", "points", "again", "skill", "energy", "hp", "fallen", "quest", "life",
         "snitched", "home", "res", "tool", "fac", "shift", "seed", "good", "plot", "clock", "ship", "world", "item", "wear",
         "saved", "hidden", "first", "pend", "dog", "member", "left"}
  BY DEF Columns, NewTown
<1>. HIDE DEF n
<1>12. \A t \in Columns : OfType(t, n[t])
  BY <1>2, <1>3, <1>4, <1>5, <1>6, <1>7, <1>8, <1>9, <1>11
<1>. QED BY <1>10, <1>12 DEF Typed, n

LEMMA TypeStep == ASSUME TypeInv, [Next]_vars PROVE TypeInv'
<1>1. AnyStep
  BY Steps DEF TypeInv
<1>2. CASE Handling
  <2>1. PICK e, m : Handled(db, e, m) /\ (Opens(e, m) \/ Ends(e, m))
    BY <1>2, HandlerSteps
  <2>2. m \in [jail : SUBSET Users, fresh : BOOLEAN]
    <3>1. m = mem \/ \E v \in Users : m = Noted(v) \/ m = [mem EXCEPT !.jail = @ \ {v}]
      BY <2>1 DEF Handled, Sentenced
    <3>. QED BY <3>1 DEF TypeInv, Noted
  <2>3. Typed(e)
    BY <2>1 DEF Handled
  <2>4. CASE Opens(e, m)
    BY <2>2, <2>3, <2>4 DEF TypeInv, Session, Opens
  <2>5. CASE Ends(e, m)
    BY <2>2, <2>3, <2>5, OwedInt DEF TypeInv, Session, Ends
  <2>. QED BY <2>1, <2>4, <2>5
<1>3. CASE Working
  <2>1. PICK e : Worked(db, e) /\ (JobOpens(e) \/ JobEnds(e))
    BY <1>3, JobSteps
  <2>3. Typed(e)
    BY <2>1 DEF Worked
  <2>4. CASE JobOpens(e)
    BY <2>3, <2>4 DEF TypeInv, Session, JobOpens
  <2>5. CASE JobEnds(e)
    BY <2>3, <2>5, OwedInt DEF TypeInv, Session, JobEnds
  <2>. QED BY <2>1, <2>4, <2>5
<1>4. CASE Pulsing
  <2>1. PICK f \in [Users -> Nat] :
          db' = [db EXCEPT !.energy = f] /\ due' = [u \in Users |-> due[u] + f[u] - db.energy[u]]
    BY <1>4 DEF Pulsing
  <2>2. Typed(db')
    <3>. DEFINE e == [db EXCEPT !["energy"] = f]
    <3>1. OfType("energy", f) /\ "energy" \in Columns \ Guarded
      BY GrowthColumns, ColumnNames DEF Guarded
    <3>2. Typed(e)
      BY <3>1, PutCalm DEF TypeInv
    <3>. QED BY <2>1, <3>2
  <2>3. due' \in [Users -> Int]
    <3>1. db.energy \in [Users -> Nat] /\ due \in [Users -> Int]
      BY GrowthColumns DEF TypeInv
    <3>. QED BY <2>1, <3>1
  <2>. QED BY <1>4, <2>2, <2>3 DEF TypeInv, Session, Pulsing
<1>5. CASE Passing
  BY <1>5 DEF TypeInv, Session, Passing, Passed
<1>6. CASE GateReload
  BY <1>6 DEF TypeInv, Session, GateReload
<1>7. CASE CacheOld
  BY <1>7 DEF TypeInv, Session, CacheOld
<1>8. CASE Commit
  <2>. DEFINE e == Merge(db, op.read, op.new)
  <2>1. Typed(op.read) /\ Typed(op.new)
    BY <1>8 DEF TypeInv, Session, Commit
  <2>2. Typed(e)
    BY <2>1, MergeCells DEF TypeInv
  <2>3. UNCHANGED <<db, due>> \/ (db' = e /\ due' = Owed(db', op.read, op.new))
    BY <1>8 DEF Commit
  <2>. HIDE DEF e
  <2>4. Typed(db') /\ due' \in [Users -> Int]
    BY <2>1, <2>2, <2>3, OwedInt DEF TypeInv
  <2>. QED BY <1>8, <2>4 DEF TypeInv, Session, Commit
<1>9. CASE JobCommit
  <2>. DEFINE e == Merge(db, job.read, job.new)
  <2>1. Typed(job.read) /\ Typed(job.new)
    BY <1>9 DEF TypeInv, Session, JobCommit
  <2>2. Typed(e)
    BY <2>1, MergeCells DEF TypeInv
  <2>3. UNCHANGED <<db, due>> \/ (db' = e /\ due' = Owed(db', job.read, job.new))
    BY <1>9 DEF JobCommit
  <2>. HIDE DEF e
  <2>4. Typed(db') /\ due' \in [Users -> Int]
    BY <2>1, <2>2, <2>3, OwedInt DEF TypeInv
  <2>. QED BY <1>9, <2>4 DEF TypeInv, Session, JobCommit
<1>10. CASE Crash(NoMemory)
  BY <1>10 DEF TypeInv, Session, Crash, NoMemory
<1>11. CASE UNCHANGED vars
  BY <1>11 DEF TypeInv, Session, vars
<1>. QED BY <1>1, <1>2, <1>3, <1>4, <1>5, <1>6, <1>7, <1>8, <1>9, <1>10, <1>11 DEF AnyStep

\* The types of the town: whatever the handlers, the jobs and the crashes, the
\* tables, what the open sessions read and would commit, and the jail's cache
\* hold what they are declared to hold.
THEOREM Types == Spec => []TypeInv
<1>1. Init => TypeInv
  <2>. SUFFICES ASSUME Init PROVE TypeInv
    OBVIOUS
  <2>1. Typed(db) /\ due = db.energy
    BY StartTyped DEF Init
  <2>2. due \in [Users -> Int]
    BY <2>1, GrowthColumns
  <2>. QED BY <2>1, <2>2 DEF Init, TypeInv, Session, NoMemory
<1>2. TypeInv /\ [Next]_vars => TypeInv'
  BY TypeStep
<1>. QED BY <1>1, <1>2, PTL DEF Spec

\* TownOK, the type invariant the run checks: no table loses a column or a key,
\* and no purse, bank, store, magazine or level leaves its range.
THEOREM TownIsOK == Spec => []TownOK
<1>1. TypeInv => TownOK
  <2>. SUFFICES ASSUME Typed(db) PROVE TownOK
    BY DEF TypeInv
  <2>1. DOMAIN db = Columns /\ \A t \in Columns : DOMAIN db[t] = Keys(t)
    BY DEF Typed, OfType
  <2>2. ASSUME NEW t \in {"cash", "gems", "parts", "bank", "xp", "points", "energy", "hp", "res", "seed", "snitched"},
               NEW k \in DOMAIN db[t]
        PROVE  db[t][k] \in Nat
    BY <2>2, PurseColumns, GrowthColumns, HealthColumns, StoresColumns, LandColumns, MarksColumns
  <2>3. ASSUME NEW u \in Users PROVE db.level[u] \in Levels /\ db.vault[u] \in 1 .. VaultMax
    BY PurseColumns, GrowthColumns
  <2>4. ASSUME NEW x \in DOMAIN db.good PROVE db.good[x].qty \in Nat /\ db.good[x].value \in Nat
    <3>1. db.good \in [Users \X Crops -> [qty : Nat, value : Nat]]
      BY LandColumns
    <3>. QED BY <3>1
  <2>5. ASSUME NEW x \in DOMAIN db.item, db.item[x] # NULL
        PROVE  db.item[x].level \in 1 .. GearMax /\ (x[2] \in Guns => Bullets(db, x[1], x[2]) \in 0 .. Full(db.item[x].level))
    <3>1. x \in Users \X Things
      <4>1. db.item = [y \in Users \X Things |-> db.item[y]]
        BY ArmsColumns DEF Things
      <4>. QED BY <2>5, <4>1
    <3>2. x = <<x[1], x[2]>> /\ x[1] \in Users /\ x[2] \in Things
      BY <3>1
    <3>3. Owns(db, x[1], x[2]) /\ db.item[<<x[1], x[2]>>] = db.item[x]
      BY <2>5, <3>2 DEF Owns
    <3>. HIDE DEF Full
    <3>. QED BY <3>2, <3>3, ItemRow
  <2>. QED BY <2>1, <2>2, <2>3, <2>4, <2>5 DEF TownOK, Columns, Keys
<1>. QED BY <1>1, Types, PTL

-----------------------------------------------------------------------------
(* The jail.                                                               *)

\* What a commit leaves of one cell.
LEMMA MergedJail ==
  ASSUME NEW now, NEW read, NEW new, Typed(now), Typed(read), Typed(new), NEW u \in Users
  PROVE  Jailed(Merge(now, read, new), u) = IF Jailed(new, u) = Jailed(read, u) THEN Jailed(now, u) ELSE Jailed(new, u)
<1>1. "clock" \in Columns /\ <<u, "jail">> \in Keys("clock")
  BY ColumnNames DEF Keys, NewTown, Over, Timers
<1>. QED BY <1>1, MergeCells DEF Jailed

\* While the cache is fresh, whoever the database has in jail is in it, or the
\* bribe that frees him is about to commit, and nothing can stop it: it writes
\* no row that could be gone.  A sentence about to commit is in it already.
JailOf(u) ==
  IF op = Idle THEN Jailed(db, u) => u \in mem.jail
  ELSE /\ Jailed(op.new, u) /\ ~Jailed(op.read, u) => u \in mem.jail
       /\ Jailed(db, u) /\ u \notin mem.jail =>
            /\ Jailed(op.read, u) /\ ~Jailed(op.new, u)
            /\ (\A t \in Rows : op.new[t] = op.read[t]) /\ op.new.seed = op.read.seed
JailInv ==
  /\ mem.fresh => \A u \in Users : JailOf(u)
  /\ job # Idle => \A u \in Users : Jailed(job.new, u) = Jailed(job.read, u)

LEMMA JailStep == ASSUME TypeInv, JailInv, [Next]_vars PROVE JailInv'
<1>1. AnyStep
  BY Steps DEF TypeInv
<1>0. mem \in [jail : SUBSET Users, fresh : BOOLEAN] /\ Typed(db)
  BY DEF TypeInv
<1>2. CASE Handling
  <2>1. PICK e, m : Handled(db, e, m) /\ (Opens(e, m) \/ Ends(e, m))
    BY <1>2, HandlerSteps
  <2>2. op = Idle /\ mem' = m /\ UNCHANGED job
    BY <2>1 DEF Opens, Ends
  <2>3. m.fresh = mem.fresh
    BY <1>0, <2>1 DEF Handled, Sentenced, Noted
  <2>4. SUFFICES ASSUME mem.fresh, NEW u \in Users PROVE JailOf(u)'
    BY <2>2, <2>3 DEF JailInv
  <2>5. \A w \in Users : Jailed(db, w) => w \in mem.jail
    BY <2>2, <2>4 DEF JailInv, JailOf
  <2>. DEFINE Kept == /\ Jailed(db, u) /\ u \notin m.jail =>
                           ~Jailed(e, u) /\ (\A t \in Rows : e[t] = db[t]) /\ e.seed = db.seed
                      /\ Jailed(e, u) => u \in m.jail
  <2>6. Kept
    <3>1. CASE m = mem /\ \A w \in Users : Jailed(e, w) = Jailed(db, w)
      BY <2>5, <3>1
    <3>2. ASSUME NEW v \in Users, m = Noted(v), \A w \in Users \ {v} : Jailed(e, w) = Jailed(db, w)
          PROVE  Kept
      <4>1. m.jail = mem.jail \cup {v}
        BY <1>0, <3>2 DEF Noted
      <4>. QED BY <2>5, <3>2, <4>1
    <3>3. ASSUME NEW v \in Users, m = [mem EXCEPT !.jail = @ \ {v}], Jailed(db, v), ~Jailed(e, v),
                 \A w \in Users \ {v} : Jailed(e, w) = Jailed(db, w),
                 (\A t \in Rows : e[t] = db[t]) /\ e.seed = db.seed
          PROVE  Kept
      <4>1. m.jail = mem.jail \ {v}
        BY <1>0, <3>3
      <4>. QED BY <2>5, <3>3, <4>1
    <3>. QED BY <2>1, <3>1, <3>2, <3>3 DEF Handled, Sentenced
  <2>7. CASE Opens(e, m)
    BY <2>2, <2>6, <2>7 DEF JailOf, Opens, Jailed
  <2>8. CASE Ends(e, m)
    BY <2>2, <2>6, <2>8 DEF JailOf, Ends, Jailed
  <2>. QED BY <2>1, <2>7, <2>8
<1>3. CASE Working
  <2>1. PICK e : Worked(db, e) /\ (JobOpens(e) \/ JobEnds(e))
    BY <1>3, JobSteps
  <2>2. \A u \in Users : Jailed(e, u) = Jailed(db, u)
    BY <2>1 DEF Worked
  <2>3. CASE JobOpens(e)
    BY <2>2, <2>3 DEF JailInv, JailOf, JobOpens, Jailed
  <2>4. CASE JobEnds(e)
    BY <2>2, <2>4 DEF JailInv, JailOf, JobEnds, Jailed
  <2>. QED BY <2>1, <2>3, <2>4
<1>4. CASE Pulsing
  <2>1. db'.clock = db.clock
    BY <1>4, ColumnNames DEF TypeInv, Typed, Pulsing
  <2>. QED BY <1>4, <2>1 DEF JailInv, JailOf, Pulsing, Jailed
<1>5. CASE Passing
  BY <1>5 DEF JailInv, JailOf, Passing, Passed, Jailed
<1>6. CASE GateReload
  BY <1>6 DEF JailInv, JailOf, GateReload, Jailed, Running
<1>7. CASE CacheOld
  BY <1>0, <1>7 DEF JailInv, CacheOld, Jailed
<1>8. CASE Commit
  <2>. DEFINE e == Merge(db, op.read, op.new)
  <2>1. op # Idle /\ op' = Idle /\ UNCHANGED <<mem, job>> /\ Typed(op.read) /\ Typed(op.new)
    BY <1>8 DEF TypeInv, Session, Commit
  <2>2. SUFFICES ASSUME mem.fresh, NEW u \in Users, Jailed(db', u) PROVE u \in mem.jail
    BY <2>1 DEF JailInv, JailOf
  <2>3. /\ Jailed(op.new, u) /\ ~Jailed(op.read, u) => u \in mem.jail
        /\ Jailed(db, u) /\ u \notin mem.jail =>
             /\ Jailed(op.read, u) /\ ~Jailed(op.new, u)
             /\ (\A t \in Rows : op.new[t] = op.read[t]) /\ op.new.seed = op.read.seed
    BY <2>1, <2>2 DEF JailInv, JailOf
  <2>4. Jailed(op.new, u) \in BOOLEAN /\ Jailed(op.read, u) \in BOOLEAN
    <3>1. <<u, "jail">> \in Users \X Timers
      BY DEF Timers
    <3>. QED BY <2>1, <3>1, ClocksColumns DEF Jailed
  <2>5. CASE Stale(db, op.read, op.new)
    <3>1. db' = db
      BY <1>8, <2>5 DEF Commit
    <3>2. ~((\A t \in Rows : op.new[t] = op.read[t]) /\ op.new.seed = op.read.seed)
      BY <2>5 DEF Stale
    <3>. QED BY <2>2, <2>3, <3>1, <3>2
  <2>6. CASE ~Stale(db, op.read, op.new)
    <3>1. Jailed(e, u)
      BY <1>8, <2>2, <2>6 DEF Commit
    <3>2. Jailed(e, u) = IF Jailed(op.new, u) = Jailed(op.read, u) THEN Jailed(db, u) ELSE Jailed(op.new, u)
      BY <1>0, <2>1, MergedJail
    <3>. HIDE DEF e
    <3>. QED BY <2>3, <2>4, <3>1, <3>2
  <2>. QED BY <2>5, <2>6
<1>9. CASE JobCommit
  <2>. DEFINE e == Merge(db, job.read, job.new)
  <2>1. job # Idle /\ job' = Idle /\ UNCHANGED <<mem, op>> /\ Typed(job.read) /\ Typed(job.new)
    BY <1>9 DEF TypeInv, Session, JobCommit
  <2>2. \A u \in Users : Jailed(e, u) = Jailed(db, u)
    BY <1>0, <2>1, MergedJail DEF JailInv
  <2>3. db' = db \/ db' = e
    BY <1>9 DEF JobCommit
  <2>. HIDE DEF e
  <2>4. \A u \in Users : Jailed(db', u) = Jailed(db, u)
    BY <2>2, <2>3
  <2>. QED BY <2>1, <2>4 DEF JailInv, JailOf, Jailed
<1>10. CASE Crash(NoMemory)
  BY <1>10 DEF JailInv, Crash, NoMemory
<1>11. CASE UNCHANGED vars
  BY <1>11 DEF JailInv, JailOf, vars, Jailed
<1>. QED BY <1>1, <1>2, <1>3, <1>4, <1>5, <1>6, <1>7, <1>8, <1>9, <1>10, <1>11 DEF AnyStep

\* JailHolds: between two updates the gate stops everyone the database has in
\* jail, though sentences and bribes touch the cache before they are committed
\* and jobs, restarts and commits that fail come in between.
THEOREM TheJailHolds == Spec => []JailHolds
<1>1. Init => JailInv
  BY DEF Init, NoMemory, JailInv
<1>2. TypeInv /\ JailInv /\ [Next]_vars => JailInv'
  BY JailStep
<1>3. JailInv => JailHolds
  BY DEF JailInv, JailOf, JailHolds, Jailed, Running, Passes
<1>. QED BY <1>1, <1>2, <1>3, Types, PTL DEF Spec

-----------------------------------------------------------------------------
(* The energy.                                                             *)

\* Two sessions that are open together race; each keeps the lives it read or
\* begins the next one; a job spends nothing but by a wipe.
Lives(s) == s # Idle => \A u \in Users : s.new.life[u] \in {s.read.life[u], s.read.life[u] + 1}
SessionInv ==
  /\ op # Idle /\ job # Idle => raced
  /\ Lives(op) /\ Lives(job)
  /\ job # Idle => Sparing(job.read, job.new)

\* An account that counts: without a race any, and with one those never wiped.
Counts(u) == raced => db.life[u] = 0
EnergyInv ==
  /\ SessionInv
  /\ \A u \in Users : Counts(u) => db.energy[u] <= due[u] /\ (op # Idle => op.read.energy[u] <= due[u])

LEMMA MergedEnergy ==
  ASSUME NEW now, NEW read, NEW new, Typed(now), Typed(read), Typed(new), NEW u \in Users,
         NEW e, e = Merge(now, read, new)
  PROVE  /\ e.energy[u] = IF new.energy[u] = read.energy[u] THEN now.energy[u] ELSE new.energy[u]
         /\ e.life[u] = IF new.life[u] = read.life[u] THEN now.life[u] ELSE new.life[u]
         /\ now.life[u] \in Nat /\ read.life[u] \in Nat /\ new.life[u] \in Nat
         /\ now.energy[u] \in Nat /\ read.energy[u] \in Nat /\ new.energy[u] \in Nat
<1>1. "energy" \in Columns /\ "life" \in Columns /\ u \in Keys("energy") /\ u \in Keys("life")
  BY ColumnNames DEF Keys, NewTown, Over
<1>2. \A t \in Columns : \A k \in Keys(t) : e[t][k] = IF new[t][k] = read[t][k] THEN now[t][k] ELSE new[t][k]
  BY MergeCells
<1>3. /\ e.energy[u] = IF new.energy[u] = read.energy[u] THEN now.energy[u] ELSE new.energy[u]
      /\ e.life[u] = IF new.life[u] = read.life[u] THEN now.life[u] ELSE new.life[u]
  BY <1>1, <1>2
<1>4. /\ now.life[u] \in Nat /\ read.life[u] \in Nat /\ new.life[u] \in Nat
      /\ now.energy[u] \in Nat /\ read.energy[u] \in Nat /\ new.energy[u] \in Nat
  BY GrowthColumns, MarksColumns
<1>. QED BY <1>3, <1>4

LEMMA AccountedLives ==
  ASSUME NEW d, NEW e, Accounted(d, e), NEW u \in Users
  PROVE  e.life[u] \in {d.life[u], d.life[u] + 1}
BY DEF Accounted

\* What one step owes, when its lives are those it read or the next.
LEMMA OwedAtOnce ==
  ASSUME Typed(db), NEW e, Typed(e), Accounted(db, e), NEW u \in Users, due \in [Users -> Int],
         db.energy[u] <= due[u]
  PROVE  e.energy[u] <= Owed(e, db, e)[u]
<1>1. e.energy[u] \in Nat /\ db.energy[u] \in Nat /\ due[u] \in Int
  BY GrowthColumns
<1>2. Owed(e, db, e)[u] = IF e.life[u] # db.life[u] THEN e.energy[u] ELSE due[u] + e.energy[u] - db.energy[u]
  BY DEF Owed
<1>. QED BY <1>1, <1>2

LEMMA EnergyStep == ASSUME TypeInv, EnergyInv, [Next]_vars PROVE EnergyInv'
<1>1. AnyStep
  BY Steps DEF TypeInv
<1>0. Typed(db) /\ due \in [Users -> Int] /\ raced \in BOOLEAN
      /\ \A u \in Users : db.energy[u] \in Nat /\ db.life[u] \in Nat /\ due[u] \in Int
  BY GrowthColumns, MarksColumns DEF TypeInv
<1>2. CASE Handling
  <2>1. PICK e, m : Handled(db, e, m) /\ (Opens(e, m) \/ Ends(e, m))
    BY <1>2, HandlerSteps
  <2>2. Typed(e) /\ Accounted(db, e) /\ \A u \in Users : e.life[u] \in {db.life[u], db.life[u] + 1}
    BY <2>1, AccountedLives DEF Handled
  <2>3. CASE Opens(e, m)
    <3>1. SessionInv'
      BY <2>2, <2>3 DEF EnergyInv, SessionInv, Lives, Opens
    <3>2. ASSUME NEW u \in Users, Counts(u)'
          PROVE  db'.energy[u] <= due'[u] /\ op'.read.energy[u] <= due'[u]
      BY <1>0, <2>3, <3>2 DEF EnergyInv, Counts, Opens
    <3>. QED BY <3>1, <3>2 DEF EnergyInv
  <2>4. CASE Ends(e, m)
    <3>1. SessionInv'
      BY <2>4 DEF EnergyInv, SessionInv, Lives, Ends
    <3>2. ~raced \/ raced
      OBVIOUS
    <3>3. ASSUME NEW u \in Users, Counts(u)' PROVE db'.energy[u] <= due'[u]
      <4>1. Counts(u)
        <5>1. raced => e.life[u] = 0
          BY <2>4, <3>3 DEF Counts, Ends
        <5>2. db.life[u] \in Nat /\ e.life[u] \in {db.life[u], db.life[u] + 1}
          BY <1>0, <2>2
        <5>. QED BY <5>1, <5>2 DEF Counts
      <4>2. db.energy[u] <= due[u]
        BY <4>1 DEF EnergyInv
      <4>3. e.energy[u] <= Owed(e, db, e)[u]
        BY <1>0, <2>2, <4>2, OwedAtOnce
      <4>. QED BY <2>4, <4>3 DEF Ends
    <3>. QED BY <2>4, <3>1, <3>3 DEF EnergyInv, Ends
  <2>. QED BY <2>1, <2>3, <2>4
<1>3. CASE Working
  <2>1. PICK e : Worked(db, e) /\ (JobOpens(e) \/ JobEnds(e))
    BY <1>3, JobSteps
  <2>2. Typed(e) /\ Accounted(db, e) /\ Sparing(db, e) /\ \A u \in Users : e.life[u] \in {db.life[u], db.life[u] + 1}
    BY <2>1, AccountedLives DEF Worked
  <2>3. CASE JobOpens(e)
    <3>1. SessionInv'
      BY <2>2, <2>3 DEF EnergyInv, SessionInv, Lives, JobOpens
    <3>2. ASSUME NEW u \in Users, Counts(u)'
          PROVE  db'.energy[u] <= due'[u] /\ (op' # Idle => op'.read.energy[u] <= due'[u])
      BY <2>3, <3>2 DEF EnergyInv, Counts, JobOpens
    <3>. QED BY <3>1, <3>2 DEF EnergyInv
  <2>4. CASE JobEnds(e)
    <3>1. SessionInv'
      BY <2>4 DEF EnergyInv, SessionInv, Lives, JobEnds
    <3>3. ASSUME NEW u \in Users, Counts(u)' PROVE db'.energy[u] <= due'[u]
      <4>1. Counts(u)
        <5>1. raced => e.life[u] = 0
          BY <2>4, <3>3 DEF Counts, JobEnds
        <5>2. db.life[u] \in Nat /\ e.life[u] \in {db.life[u], db.life[u] + 1}
          BY <1>0, <2>2
        <5>. QED BY <5>1, <5>2 DEF Counts
      <4>2. db.energy[u] <= due[u]
        BY <4>1 DEF EnergyInv
      <4>3. e.energy[u] <= Owed(e, db, e)[u]
        BY <1>0, <2>2, <4>2, OwedAtOnce
      <4>. QED BY <2>4, <4>3 DEF JobEnds
    <3>. QED BY <2>4, <3>1, <3>3 DEF EnergyInv, JobEnds
  <2>. QED BY <2>1, <2>3, <2>4
<1>4. CASE Pulsing
  <2>1. PICK f \in [Users -> Nat] :
          /\ db' = [db EXCEPT !.energy = f] /\ due' = [u \in Users |-> due[u] + f[u] - db.energy[u]]
          /\ \A u \in Users : f[u] >= db.energy[u]
    BY <1>4 DEF Pulsing
  <2>2. UNCHANGED <<op, job, raced>>
    BY <1>4 DEF Pulsing
  <2>3. db'.energy = f /\ db'.life = db.life
    BY <1>0, <2>1, ColumnNames DEF Typed
  <2>4. SessionInv'
    BY <2>2 DEF EnergyInv, SessionInv, Lives
  <2>5. ASSUME NEW u \in Users, Counts(u)'
        PROVE  db'.energy[u] <= due'[u] /\ (op' # Idle => op'.read.energy[u] <= due'[u])
    <3>1. db.energy[u] <= due[u] /\ (op # Idle => op.read.energy[u] <= due[u])
      BY <2>2, <2>3, <2>5 DEF EnergyInv, Counts
    <3>2. f[u] \in Nat /\ f[u] >= db.energy[u] /\ due'[u] = due[u] + f[u] - db.energy[u] /\ db'.energy[u] = f[u]
      BY <2>1, <2>3
    <3>3. op # Idle => op.read.energy[u] \in Nat
      BY GrowthColumns DEF TypeInv, Session
    <3>. QED BY <1>0, <2>2, <3>1, <3>2, <3>3
  <2>. QED BY <2>4, <2>5 DEF EnergyInv
<1>5. CASE Passing
  BY <1>5 DEF EnergyInv, SessionInv, Lives, Counts, Passing, Passed
<1>6. CASE GateReload
  BY <1>6 DEF EnergyInv, SessionInv, Lives, Counts, GateReload
<1>7. CASE CacheOld
  BY <1>7 DEF EnergyInv, SessionInv, Lives, Counts, CacheOld
<1>8. CASE Commit
  <2>. DEFINE r == op.read
              n == op.new
              e == Merge(db, r, n)
  <2>1. op # Idle /\ op' = Idle /\ UNCHANGED <<job, raced>> /\ Typed(r) /\ Typed(n)
        /\ (UNCHANGED <<db, due>> \/ (db' = e /\ due' = Owed(e, r, n)))
    BY <1>8 DEF TypeInv, Session, Commit
  <2>2. SessionInv'
    BY <2>1 DEF EnergyInv, SessionInv, Lives
  <2>3. ASSUME NEW u \in Users, Counts(u)' PROVE db'.energy[u] <= due'[u]
    <3>1. CASE UNCHANGED <<db, due>>
      BY <2>1, <2>3, <3>1 DEF EnergyInv, Counts
    <3>2. CASE db' = e /\ due' = Owed(e, r, n)
      <4>1. /\ e.energy[u] = IF n.energy[u] = r.energy[u] THEN db.energy[u] ELSE n.energy[u]
            /\ e.life[u] = IF n.life[u] = r.life[u] THEN db.life[u] ELSE n.life[u]
            /\ r.life[u] \in Nat /\ r.energy[u] \in Nat /\ n.energy[u] \in Nat
        <5>0. Typed(db) /\ Typed(r) /\ Typed(n) /\ e = Merge(db, r, n)
          BY <1>0, <2>1
        <5>. HIDE DEF e, r, n
        <5>. QED BY <5>0, MergedEnergy
      <4>2. n.life[u] \in {r.life[u], r.life[u] + 1}
        BY <2>1 DEF EnergyInv, SessionInv, Lives
      <4>3. due'[u] = IF n.life[u] # r.life[u] THEN e.energy[u] ELSE due[u] + n.energy[u] - r.energy[u]
        BY <3>2 DEF Owed
      <4>4. raced => e.life[u] = 0
        BY <2>1, <2>3, <3>2 DEF Counts
      <4>5. db'.energy[u] = e.energy[u]
        BY <3>2
      <4>. HIDE DEF e, r, n
      <4>6. CASE n.life[u] # r.life[u]
        BY <1>0, <4>1, <4>3, <4>5, <4>6
      <4>7. CASE n.life[u] = r.life[u]
        <5>1. Counts(u)
          BY <4>1, <4>4, <4>7 DEF Counts
        <5>2. db.energy[u] <= due[u] /\ r.energy[u] <= due[u]
          BY <2>1, <5>1 DEF EnergyInv, r
        <5>. QED BY <1>0, <4>1, <4>3, <4>5, <4>7, <5>2
      <4>. QED BY <4>6, <4>7
    <3>. QED BY <2>1, <3>1, <3>2
  <2>. QED BY <2>1, <2>2, <2>3 DEF EnergyInv
<1>9. CASE JobCommit
  <2>. DEFINE r == job.read
              n == job.new
              e == Merge(db, r, n)
  <2>1. job # Idle /\ job' = Idle /\ UNCHANGED <<op, raced>> /\ Typed(r) /\ Typed(n)
        /\ (UNCHANGED <<db, due>> \/ (db' = e /\ due' = Owed(e, r, n)))
    BY <1>9 DEF TypeInv, Session, JobCommit
  <2>2. SessionInv'
    BY <2>1 DEF EnergyInv, SessionInv, Lives
  <2>3. ASSUME NEW u \in Users, Counts(u)'
        PROVE  db'.energy[u] <= due'[u] /\ (op' # Idle => op'.read.energy[u] <= due'[u])
    <3>1. CASE UNCHANGED <<db, due>>
      BY <2>1, <2>3, <3>1 DEF EnergyInv, Counts
    <3>2. CASE db' = e /\ due' = Owed(e, r, n)
      <4>1. /\ e.energy[u] = IF n.energy[u] = r.energy[u] THEN db.energy[u] ELSE n.energy[u]
            /\ e.life[u] = IF n.life[u] = r.life[u] THEN db.life[u] ELSE n.life[u]
            /\ r.life[u] \in Nat /\ n.life[u] \in Nat /\ r.energy[u] \in Nat /\ n.energy[u] \in Nat
        <5>0. Typed(db) /\ Typed(r) /\ Typed(n) /\ e = Merge(db, r, n)
          BY <1>0, <2>1
        <5>. HIDE DEF e, r, n
        <5>. QED BY <5>0, MergedEnergy
      <4>2. n.life[u] \in {r.life[u], r.life[u] + 1} /\ (n.life[u] = r.life[u] => n.energy[u] = r.energy[u])
        BY <2>1 DEF EnergyInv, SessionInv, Lives, Sparing
      <4>3. due'[u] = IF n.life[u] # r.life[u] THEN e.energy[u] ELSE due[u] + n.energy[u] - r.energy[u]
        BY <3>2 DEF Owed
      <4>4. raced => e.life[u] = 0
        BY <2>1, <2>3, <3>2 DEF Counts
      <4>5. db'.energy[u] = e.energy[u] /\ op' = op
        BY <2>1, <3>2
      <4>6. op # Idle => raced
        BY <2>1 DEF EnergyInv, SessionInv
      <4>. HIDE DEF e, r, n
      <4>7. CASE n.life[u] # r.life[u]
        <5>1. e.life[u] # 0
          BY <4>1, <4>2, <4>7
        <5>2. op = Idle
          BY <4>4, <4>6, <5>1
        <5>. QED BY <1>0, <4>1, <4>3, <4>5, <4>7, <5>2
      <4>8. CASE n.life[u] = r.life[u]
        <5>1. Counts(u)
          BY <4>1, <4>4, <4>8 DEF Counts
        <5>2. db.energy[u] <= due[u] /\ (op # Idle => op.read.energy[u] <= due[u])
          BY <5>1 DEF EnergyInv
        <5>3. due'[u] = due[u] /\ db'.energy[u] = db.energy[u]
          BY <1>0, <4>1, <4>2, <4>3, <4>5, <4>8
        <5>. QED BY <4>5, <5>2, <5>3
      <4>. QED BY <4>7, <4>8
    <3>. QED BY <2>1, <3>1, <3>2
  <2>. QED BY <2>2, <2>3 DEF EnergyInv
<1>10. CASE Crash(NoMemory)
  BY <1>10 DEF EnergyInv, SessionInv, Lives, Counts, Crash
<1>11. CASE UNCHANGED vars
  BY <1>11 DEF EnergyInv, SessionInv, Lives, Counts, vars
<1>. QED BY <1>1, <1>2, <1>3, <1>4, <1>5, <1>6, <1>7, <1>8, <1>9, <1>10, <1>11 DEF AnyStep

\* EnergyIsEarned: a handler writes the energy it read less what it spent, the
\* pulse that came in between is overwritten or not, and nobody ends with more
\* than he was given; a wipe that races with it is the only thing that may.
THEOREM EnergyStaysEarned == Spec => []EnergyIsEarned
<1>1. Init => EnergyInv
  <2>. SUFFICES ASSUME Init PROVE EnergyInv
    OBVIOUS
  <2>1. op = Idle /\ job = Idle /\ due = db.energy /\ Typed(db)
    BY StartTyped DEF Init
  <2>2. \A u \in Users : db.energy[u] \in Nat
    BY <2>1, GrowthColumns
  <2>. QED BY <2>1, <2>2 DEF EnergyInv, SessionInv, Lives
<1>2. TypeInv /\ EnergyInv /\ [Next]_vars => EnergyInv'
  BY EnergyStep
<1>3. EnergyInv => EnergyIsEarned
  BY DEF EnergyInv, Counts, EnergyIsEarned
<1>. QED BY <1>1, <1>2, <1>3, Types, PTL DEF Spec

-----------------------------------------------------------------------------
(* The accounts.                                                           *)

Books == {"points", "again", "skill", "level", "bank", "vault", "hp", "fallen", "life"}
Same(d, e) == \A t \in Books : d[t] = e[t]
Sound(d, u) == Whole(d, u) /\ Within(d, u) /\ Bled(d, u)

\* Whatever a session that does not race read of the accounts is still so.
Alone(s) == s # Idle => /\ racing /\ Accounted(s.read, s.new)
                        /\ ~raced => Same(db, s.read)
AccountInv ==
  /\ Alone(op) /\ Alone(job)
  /\ op # Idle /\ job # Idle => raced
  /\ ~raced => \A u \in Users : Sound(db, u)

LEMMA SoundSame == ASSUME NEW d, NEW e, NEW u, Same(d, e), Sound(d, u) PROVE Sound(e, u)
<1>1. /\ e.points = d.points /\ e.again = d.again /\ e.skill = d.skill /\ e.level = d.level /\ e.bank = d.bank /\ e.vault = d.vault
      /\ e.hp = d.hp /\ e.fallen = d.fallen
  BY DEF Same, Books
<1>. QED BY <1>1 DEF Sound, Whole, Within, Bled, PointsSpent

LEMMA SoundStays == ASSUME NEW d, NEW e, NEW u \in Users, Accounted(d, e), Sound(d, u) PROVE Sound(e, u)
BY DEF Accounted, Sound

LEMMA MergedSame ==
  ASSUME NEW now, NEW read, NEW new, Typed(now), Typed(read), Typed(new), NEW e, e = Merge(now, read, new),
         Same(now, read)
  PROVE  Same(new, e)
<1>1. Typed(e) /\ \A t \in Columns : \A k \in Keys(t) : e[t][k] = IF new[t][k] = read[t][k] THEN now[t][k] ELSE new[t][k]
  BY MergeCells
<1>2. ASSUME NEW t \in Books PROVE new[t] = e[t]
  <2>1. t \in Columns
    BY ColumnNames DEF Books
  <2>2. e[t] = [k \in Keys(t) |-> e[t][k]] /\ new[t] = [k \in Keys(t) |-> new[t][k]]
    BY <1>1, <2>1 DEF Typed, OfType
  <2>3. \A k \in Keys(t) : e[t][k] = new[t][k]
    BY <1>1, <2>1 DEF Same
  <2>. QED BY <2>2, <2>3
<1>. QED BY <1>2 DEF Same

LEMMA SoundStep == ASSUME TypeInv, AccountInv, [Next]_vars PROVE AccountInv'
<1>1. AnyStep
  BY Steps DEF TypeInv
<1>0. Typed(db)
  BY DEF TypeInv
<1>2. CASE Handling
  <2>1. PICK e, m : Handled(db, e, m) /\ (Opens(e, m) \/ Ends(e, m))
    BY <1>2, HandlerSteps
  <2>2. Accounted(db, e)
    BY <2>1 DEF Handled
  <2>3. CASE Opens(e, m)
    BY <2>2, <2>3 DEF AccountInv, Alone, Same, Opens
  <2>4. CASE Ends(e, m)
    <3>1. op' = Idle /\ job' = Idle /\ UNCHANGED raced /\ db' = e
      BY <2>4 DEF AccountInv, Alone, Ends
    <3>2. ~raced => \A u \in Users : Sound(e, u)
      BY <2>2, SoundStays DEF AccountInv
    <3>. QED BY <3>1, <3>2 DEF AccountInv, Alone
  <2>. QED BY <2>1, <2>3, <2>4
<1>3. CASE Working
  <2>1. PICK e : Worked(db, e) /\ (JobOpens(e) \/ JobEnds(e))
    BY <1>3, JobSteps
  <2>2. Accounted(db, e)
    BY <2>1 DEF Worked
  <2>3. CASE JobOpens(e)
    BY <2>2, <2>3 DEF AccountInv, Alone, Same, JobOpens
  <2>4. CASE JobEnds(e)
    <3>1. op' = Idle /\ job' = Idle /\ UNCHANGED raced /\ db' = e
      BY <2>4 DEF JobEnds
    <3>2. ~raced => \A u \in Users : Sound(e, u)
      BY <2>2, SoundStays DEF AccountInv
    <3>. QED BY <3>1, <3>2 DEF AccountInv, Alone
  <2>. QED BY <2>1, <2>3, <2>4
<1>4. CASE Pulsing
  <2>1. Same(db, db') /\ UNCHANGED <<op, job, racing, raced>>
    BY <1>0, <1>4 DEF Pulsing, Same, Books, Typed
  <2>. QED BY <2>1, SoundSame DEF AccountInv, Alone, Same
<1>5. CASE Passing
  <2>1. Same(db, db') /\ UNCHANGED <<op, job, racing, raced>>
    BY <1>5 DEF Passing, Passed, Same, Books
  <2>. QED BY <2>1, SoundSame DEF AccountInv, Alone, Same
<1>6. CASE GateReload
  BY <1>6 DEF AccountInv, Alone, GateReload
<1>7. CASE CacheOld
  BY <1>7 DEF AccountInv, Alone, CacheOld
<1>8. CASE Commit
  <2>1. op # Idle /\ op' = Idle /\ UNCHANGED <<job, racing, raced>> /\ Typed(op.read) /\ Typed(op.new)
    BY <1>8 DEF TypeInv, Session, Commit
  <2>2. CASE raced
    BY <2>1, <2>2 DEF AccountInv, Alone
  <2>3. CASE ~raced
    <3>1. job = Idle /\ Accounted(op.read, op.new) /\ Same(db, op.read) /\ \A u \in Users : Sound(db, u)
      BY <2>1, <2>3 DEF AccountInv, Alone
    <3>2. \A u \in Users : Sound(op.new, u)
      BY <3>1, SoundSame, SoundStays
    <3>3. db' = db \/ Same(op.new, db')
      BY <1>0, <1>8, <2>1, <3>1, MergedSame DEF Commit
    <3>4. \A u \in Users : Sound(db', u)
      BY <3>1, <3>2, <3>3, SoundSame
    <3>. QED BY <2>1, <3>1, <3>4 DEF AccountInv, Alone
  <2>. QED BY <2>2, <2>3
<1>9. CASE JobCommit
  <2>1. job # Idle /\ job' = Idle /\ UNCHANGED <<op, racing, raced>> /\ Typed(job.read) /\ Typed(job.new)
    BY <1>9 DEF TypeInv, Session, JobCommit
  <2>2. CASE raced
    BY <2>1, <2>2 DEF AccountInv, Alone
  <2>3. CASE ~raced
    <3>1. op = Idle /\ Accounted(job.read, job.new) /\ Same(db, job.read) /\ \A u \in Users : Sound(db, u)
      BY <2>1, <2>3 DEF AccountInv, Alone
    <3>2. \A u \in Users : Sound(job.new, u)
      BY <3>1, SoundSame, SoundStays
    <3>3. db' = db \/ Same(job.new, db')
      BY <1>0, <1>9, <2>1, <3>1, MergedSame DEF JobCommit
    <3>4. \A u \in Users : Sound(db', u)
      BY <3>1, <3>2, <3>3, SoundSame
    <3>. QED BY <2>1, <3>1, <3>4 DEF AccountInv, Alone
  <2>. QED BY <2>2, <2>3
<1>10. CASE Crash(NoMemory)
  BY <1>10 DEF AccountInv, Alone, Crash
<1>11. CASE UNCHANGED vars
  BY <1>11 DEF AccountInv, Alone, vars
<1>. QED BY <1>1, <1>2, <1>3, <1>4, <1>5, <1>6, <1>7, <1>8, <1>9, <1>10, <1>11 DEF AnyStep

\* A new account has its points, an empty bank and all its blood.
LEMMA StartSound == \A u \in Users : Sound(NewTown, u)
<1>. SUFFICES ASSUME NEW u \in Users PROVE Sound(NewTown, u)
  OBVIOUS
<1>. DEFINE n == NewTown
<1>1. /\ n.points[u] = 0 /\ n.again[u] = 0 /\ n.level[u] = 1 /\ n.skill[u] = StartSkill /\ n.bank[u] = 0 /\ n.vault[u] = 1
      /\ n.hp[u] = HpTable[1]
  BY DEF NewTown, Over
<1>. HIDE DEF n
<1>2. Within(n, u)
  BY <1>1, VaultNumbers DEF Within
<1>3. Bled(n, u)
  BY <1>1, LevelNumbers DEF Bled
<1>4. SumFunctionOnSet(StartSkill, Skills) = 0
  <2>1. IsFiniteSet(Skills) /\ \A s \in Skills : StartSkill[s] = 0
    BY AccountsAssumption, TownAssumption
  <2>. QED BY <2>1, SumZero
<1>5. ExpectedPoints(1) = 0
  BY ExpectedGrows
<1>6. Whole(n, u)
  BY <1>1, <1>4, <1>5 DEF Whole, PointsSpent
<1>. QED BY <1>2, <1>3, <1>6 DEF Sound, n

\* AccountInv, for every town: unless two sessions raced, the points an account
\* has and spent are those its level gave, its bank fits its vault, and the
\* account without blood is marked dead.
THEOREM AccountsAreSound == Spec => []AccountInv
<1>1. Init => AccountInv
  BY StartSound DEF Init, AccountInv, Alone
<1>2. TypeInv /\ AccountInv /\ [Next]_vars => AccountInv'
  BY SoundStep
<1>. QED BY <1>1, <1>2, Types, PTL DEF Spec

\* FallenAreDead: no sequence of fights, raids, treatments, drinks and wipes
\* leaves an account at no blood that the death gate would let pass.
THEOREM TheFallenAreDead == Spec => []FallenAreDead
<1>1. TypeInv /\ AccountInv => FallenAreDead
  <2>. SUFFICES ASSUME TypeInv, AccountInv, ~raced, NEW u \in Users, db.hp[u] = 0 PROVE db.fallen[u]
    BY DEF FallenAreDead, TypeInv
  <2>. QED BY DEF AccountInv, Sound, Bled
<1>. QED BY <1>1, AccountsAreSound, Types, PTL

-----------------------------------------------------------------------------
(* The road.                                                               *)

\* A job only takes rows off the road and a handler puts one there, so a slot
\* that was free when a handler looked is still free, and a row a job read is
\* still there.
RoadInv ==
  /\ \A u \in Users : Cardinality(OnRoad(db, u)) <= MaxShipments
  /\ op # Idle => Unloading(op.read, db) /\ Loading(op.read, op.new)
  /\ job # Idle => Unloading(db, job.read) /\ Unloading(job.read, job.new)

LEMMA RoadNumbers ==
  ASSUME NEW d, NEW u
  PROVE  /\ OnRoad(d, u) \subseteq Ships /\ IsFiniteSet(OnRoad(d, u)) /\ Cardinality(OnRoad(d, u)) \in Nat
         /\ MaxShipments \in Nat
<1>1. MaxShipments \in Nat /\ LastShip \in Nat
  BY RoadsAssumption
<1>2. OnRoad(d, u) \subseteq Ships /\ IsFiniteSet(Ships)
  BY <1>1, FS_Interval DEF OnRoad, Ships
<1>. QED BY <1>1, <1>2, FS_Subset, FS_CardinalityType

LEMMA Emptier ==
  ASSUME NEW d, NEW e, NEW u, Unloading(d, e)
  PROVE  OnRoad(e, u) \subseteq OnRoad(d, u) /\ Cardinality(OnRoad(e, u)) <= Cardinality(OnRoad(d, u))
<1>1. OnRoad(e, u) \subseteq OnRoad(d, u)
  BY DEF OnRoad, Unloading
<1>. QED BY <1>1, RoadNumbers, FS_Subset

LEMMA UnloadingChain == ASSUME NEW d, NEW e, NEW f, Unloading(d, e), Unloading(e, f) PROVE Unloading(d, f)
BY DEF Unloading

LEMMA RowIsNoNull == NULL \notin ShipRows
BY RoadsAssumption DEF ShipRows

\* One more row on a road that is not full.
LEMMA OneMore ==
  ASSUME NEW d, NEW e, NEW old, Unloading(old, d), NEW i \in Ships, NEW row \in ShipRows,
         old.ship[i] = NULL, Cardinality(OnRoad(old, row.who)) < MaxShipments,
         e.ship[i] = row, \A j \in Ships \ {i} : e.ship[j] = d.ship[j],
         \A u \in Users : Cardinality(OnRoad(d, u)) <= MaxShipments
  PROVE  /\ \A u \in Users : Cardinality(OnRoad(e, u)) <= MaxShipments
         /\ Unloading(e, d)
<1>1. d.ship[i] = NULL
  BY DEF Unloading
<1>2. Unloading(e, d)
  BY <1>1 DEF Unloading
<1>3. ASSUME NEW u \in Users PROVE Cardinality(OnRoad(e, u)) <= MaxShipments
  <2>1. CASE row.who # u
    <3>1. OnRoad(e, u) = OnRoad(d, u)
      BY <1>1, <2>1 DEF OnRoad
    <3>. QED BY <3>1
  <2>2. CASE row.who = u
    <3>1. OnRoad(e, u) \subseteq OnRoad(d, u) \cup {i}
      BY DEF OnRoad
    <3>2. i \notin OnRoad(d, u)
      BY <1>1 DEF OnRoad
    <3>3. Cardinality(OnRoad(d, u) \cup {i}) = Cardinality(OnRoad(d, u)) + 1 /\ IsFiniteSet(OnRoad(d, u) \cup {i})
      BY <3>2, RoadNumbers, FS_AddElement
    <3>4. Cardinality(OnRoad(e, u)) <= Cardinality(OnRoad(d, u)) + 1
      BY <3>1, <3>3, FS_Subset
    <3>5. Cardinality(OnRoad(d, u)) <= Cardinality(OnRoad(old, u)) /\ Cardinality(OnRoad(old, u)) < MaxShipments
      BY <2>2, Emptier
    <3>. QED BY <3>4, <3>5, RoadNumbers
  <2>. QED BY <2>1, <2>2
<1>. QED BY <1>2, <1>3

\* A handler, seen from the session that read old while the road was emptied to d.
LEMMA LoadedAtCommit ==
  ASSUME NEW d, NEW e, NEW old, NEW new, Typed(d), Typed(old), Typed(new), Unloading(old, d), Loading(old, new),
         \A i \in Ships : e.ship[i] = IF new.ship[i] = old.ship[i] THEN d.ship[i] ELSE new.ship[i],
         \A u \in Users : Cardinality(OnRoad(d, u)) <= MaxShipments
  PROVE  /\ \A u \in Users : Cardinality(OnRoad(e, u)) <= MaxShipments
         /\ Unloading(e, d)
<1>1. CASE new.ship = old.ship
  <2>1. \A i \in Ships : e.ship[i] = d.ship[i]
    BY <1>1
  <2>2. \A u : OnRoad(e, u) = OnRoad(d, u)
    BY <2>1 DEF OnRoad
  <2>. QED BY <2>1, <2>2 DEF Unloading
<1>2. ASSUME NEW i \in Ships, NEW row \in ShipRows, old.ship[i] = NULL,
             Cardinality(OnRoad(old, row.who)) < MaxShipments, new.ship = [old.ship EXCEPT ![i] = row]
      PROVE  /\ \A u \in Users : Cardinality(OnRoad(e, u)) <= MaxShipments
             /\ Unloading(e, d)
  <2>1. DOMAIN old.ship = Ships
    <3>. HIDE DEF ShipRows
    <3>. QED BY ShippingColumns
  <2>2. new.ship[i] = row /\ \A j \in Ships \ {i} : new.ship[j] = old.ship[j]
    BY <1>2, <2>1
  <2>3. e.ship[i] = row /\ \A j \in Ships \ {i} : e.ship[j] = d.ship[j]
    BY <1>2, <2>2, RowIsNoNull
  <2>. HIDE DEF ShipRows
  <2>. QED BY <1>2, <2>3, OneMore
<1>. HIDE DEF ShipRows
<1>. QED BY <1>1, <1>2 DEF Loading

LEMMA MergedShips ==
  ASSUME NEW now, NEW read, NEW new, Typed(now), Typed(read), Typed(new), NEW e, e = Merge(now, read, new)
  PROVE  \A i \in Ships : e.ship[i] = IF new.ship[i] = read.ship[i] THEN now.ship[i] ELSE new.ship[i]
<1>1. "ship" \in Columns /\ Keys("ship") = Ships
  BY ColumnNames DEF Keys, NewTown, Over
<1>. QED BY <1>1, MergeCells

LEMMA RoadStep == ASSUME TypeInv, AccountInv, RoadInv, [Next]_vars PROVE RoadInv'
<1>1. AnyStep
  BY Steps DEF TypeInv
<1>0. Typed(db)
  BY DEF TypeInv
<1>2. CASE Handling
  <2>1. PICK e, m : Handled(db, e, m) /\ (Opens(e, m) \/ Ends(e, m))
    BY <1>2, HandlerSteps
  <2>2. Typed(e) /\ Loading(db, e) /\ Unloading(db, db)
    BY <2>1 DEF Handled, Unloading
  <2>3. CASE Opens(e, m)
    BY <2>2, <2>3 DEF RoadInv, Opens
  <2>4. CASE Ends(e, m)
    <3>1. op' = Idle /\ job' = Idle /\ db' = e
      BY <2>4 DEF AccountInv, Alone, Ends
    <3>2. \A i \in Ships : e.ship[i] = IF e.ship[i] = db.ship[i] THEN db.ship[i] ELSE e.ship[i]
      OBVIOUS
    <3>3. \A u \in Users : Cardinality(OnRoad(e, u)) <= MaxShipments
      BY <1>0, <2>2, <3>2, LoadedAtCommit DEF RoadInv
    <3>. QED BY <3>1, <3>3 DEF RoadInv
  <2>. QED BY <2>1, <2>3, <2>4
<1>3. CASE Working
  <2>1. PICK e : Worked(db, e) /\ (JobOpens(e) \/ JobEnds(e))
    BY <1>3, JobSteps
  <2>2. Unloading(db, e) /\ Unloading(db, db)
    BY <2>1 DEF Worked, Unloading
  <2>3. CASE JobOpens(e)
    BY <2>2, <2>3 DEF RoadInv, JobOpens
  <2>4. CASE JobEnds(e)
    <3>1. op' = Idle /\ job' = Idle /\ db' = e
      BY <2>4 DEF JobEnds
    <3>2. ASSUME NEW u \in Users PROVE Cardinality(OnRoad(e, u)) <= MaxShipments
      <4>1. Cardinality(OnRoad(e, u)) <= Cardinality(OnRoad(db, u)) /\ Cardinality(OnRoad(db, u)) <= MaxShipments
        BY <2>2, Emptier DEF RoadInv
      <4>. QED BY <4>1, RoadNumbers
    <3>. QED BY <3>1, <3>2 DEF RoadInv
  <2>. QED BY <2>1, <2>3, <2>4
<1>4. CASE Pulsing
  <2>1. db'.ship = db.ship /\ UNCHANGED <<op, job>>
    BY <1>0, <1>4, ColumnNames DEF Pulsing, Typed
  <2>. QED BY <2>1 DEF RoadInv, OnRoad, Unloading
<1>5. CASE Passing
  <2>1. UNCHANGED <<op, job>> /\ Unloading(db, db') /\ Unloading(db', db)
    BY <1>5 DEF Passing, Passed, Rolled, Unloading
  <2>2. \A u : OnRoad(db', u) = OnRoad(db, u)
    BY <2>1 DEF Unloading, OnRoad
  <2>. QED BY <2>1, <2>2, UnloadingChain DEF RoadInv
<1>6. CASE GateReload
  BY <1>6 DEF RoadInv, GateReload
<1>7. CASE CacheOld
  BY <1>7 DEF RoadInv, CacheOld
<1>8. CASE Commit
  <2>1. op # Idle /\ op' = Idle /\ UNCHANGED job /\ Typed(op.read) /\ Typed(op.new)
    BY <1>8 DEF TypeInv, Session, Commit
  <2>2. CASE db' = db
    BY <2>1, <2>2 DEF RoadInv
  <2>3. CASE db' = Merge(db, op.read, op.new)
    <3>1. \A i \in Ships : db'.ship[i] = IF op.new.ship[i] = op.read.ship[i] THEN db.ship[i] ELSE op.new.ship[i]
      BY <1>0, <2>1, <2>3, MergedShips
    <3>2. (\A u \in Users : Cardinality(OnRoad(db', u)) <= MaxShipments) /\ Unloading(db', db)
      BY <1>0, <2>1, <3>1, LoadedAtCommit DEF RoadInv
    <3>. QED BY <2>1, <3>2, UnloadingChain DEF RoadInv
  <2>. QED BY <1>8, <2>2, <2>3 DEF Commit
<1>9. CASE JobCommit
  <2>1. job # Idle /\ job' = Idle /\ UNCHANGED op /\ Typed(job.read) /\ Typed(job.new)
    BY <1>9 DEF TypeInv, Session, JobCommit
  <2>2. CASE db' = db
    BY <2>1, <2>2 DEF RoadInv
  <2>3. CASE db' = Merge(db, job.read, job.new)
    <3>1. \A i \in Ships : db'.ship[i] = IF job.new.ship[i] = job.read.ship[i] THEN db.ship[i] ELSE job.new.ship[i]
      BY <1>0, <2>1, <2>3, MergedShips
    <3>2. Unloading(db, db')
      BY <2>1, <3>1 DEF RoadInv, Unloading
    <3>3. ASSUME NEW u \in Users PROVE Cardinality(OnRoad(db', u)) <= MaxShipments
      <4>1. Cardinality(OnRoad(db', u)) <= Cardinality(OnRoad(db, u)) /\ Cardinality(OnRoad(db, u)) <= MaxShipments
        BY <3>2, Emptier DEF RoadInv
      <4>. QED BY <4>1, RoadNumbers
    <3>. QED BY <2>1, <3>2, <3>3, UnloadingChain DEF RoadInv
  <2>. QED BY <1>9, <2>2, <2>3 DEF JobCommit
<1>10. CASE Crash(NoMemory)
  BY <1>10 DEF RoadInv, Crash
<1>11. CASE UNCHANGED vars
  BY <1>11 DEF RoadInv, vars
<1>. QED BY <1>1, <1>2, <1>3, <1>4, <1>5, <1>6, <1>7, <1>8, <1>9, <1>10, <1>11 DEF AnyStep

LEMMA StartsEmpty == Init => RoadInv
<1>. SUFFICES ASSUME Init PROVE RoadInv
  OBVIOUS
<1>1. op = Idle /\ job = Idle /\ \A i \in Ships : db.ship[i] = NULL
  BY DEF Init, NewTown, Over
<1>2. \A u \in Users : OnRoad(db, u) = {}
  BY <1>1 DEF OnRoad
<1>. QED BY <1>1, <1>2, FS_EmptySet, RoadNumbers DEF RoadInv

\* TheRoadHolds: whatever sets out, arrives and commits together, no slot of the
\* road is lost or given twice, and nobody has too many loads on it.
THEOREM TheRoadHolds == Spec => []RoadInv
<1>1. TypeInv /\ AccountInv /\ RoadInv /\ [Next]_vars => RoadInv'
  BY RoadStep
<1>. QED BY <1>1, StartsEmpty, Types, AccountsAreSound, PTL DEF Spec

\* AccountsHold: two sessions that send loads at once, and the arrivals between
\* them, never put more of them on the road than MAX_ACTIVE_SHIPMENTS, and
\* unless two sessions raced the vault holds its bank and the points are whole.
THEOREM TheAccountsHold == Spec => []AccountsHold
<1>1. AccountInv /\ RoadInv => AccountsHold
  BY DEF AccountInv, RoadInv, AccountsHold, Sound, Whole, Within, VaultHolds, PointsAreWhole
<1>. QED BY <1>1, TheRoadHolds, AccountsAreSound, PTL

-----------------------------------------------------------------------------
(* The pay of the loads.                                                   *)

\* What a job that does not race read of the purses and the loads is still so,
\* but for loads that have become due.
PayInv ==
  job # Idle => /\ Delivered(job.read, job.new)
                /\ ~raced => db.cash = job.read.cash /\ Rolled(job.read, db)

Stays(d, e) == \A i \in Ships : d.ship[i] # NULL => e.ship[i] # NULL /\ e.ship[i].hops = d.ship[i].hops

LEMMA RolledOn == ASSUME NEW d, NEW e, NEW f, Rolled(d, e), Rolled(e, f) PROVE Rolled(d, f)
BY DEF Rolled

LEMMA RolledSelf == ASSUME NEW d PROVE Rolled(d, d)
BY DEF Rolled

LEMMA LoadingStays ==
  ASSUME NEW d, NEW e, NEW old, NEW new, Typed(old), Unloading(old, d), Loading(old, new),
         \A i \in Ships : e.ship[i] = IF new.ship[i] = old.ship[i] THEN d.ship[i] ELSE new.ship[i]
  PROVE  Stays(d, e)
<1>. HIDE DEF ShipRows
<1>1. CASE new.ship = old.ship
  BY <1>1 DEF Stays
<1>2. ASSUME NEW i \in Ships, NEW row \in ShipRows, old.ship[i] = NULL, new.ship = [old.ship EXCEPT ![i] = row]
      PROVE  Stays(d, e)
  <2>1. \A j \in Ships \ {i} : new.ship[j] = old.ship[j]
    BY <1>2, ShippingColumns
  <2>2. d.ship[i] = NULL
    BY <1>2 DEF Unloading
  <2>. QED BY <2>1, <2>2 DEF Stays
<1>. QED BY <1>1, <1>2 DEF Loading

LEMMA DeliveredAtCommit ==
  ASSUME NEW d, NEW e, NEW old, NEW new, Typed(d), Typed(old), Typed(new), Typed(e), Rolled(old, d), d.cash = old.cash,
         Delivered(old, new),
         \A i \in Ships : e.ship[i] = IF new.ship[i] = old.ship[i] THEN d.ship[i] ELSE new.ship[i],
         \A u \in Users : e.cash[u] = IF new.cash[u] = old.cash[u] THEN d.cash[u] ELSE new.cash[u]
  PROVE  Delivered(d, e)
<1>1. CASE new.ship = old.ship
  <2>1. \A i \in Ships : e.ship[i] = d.ship[i]
    BY <1>1
  <2>2. e.ship \in [Ships -> ShipRows \cup {NULL}] /\ d.ship \in [Ships -> ShipRows \cup {NULL}]
    <3>. HIDE DEF ShipRows
    <3>. QED BY ShippingColumns
  <2>3. e.ship = d.ship
    <3>. HIDE DEF ShipRows
    <3>. QED BY <2>1, <2>2
  <2>. QED BY <2>3 DEF Delivered
<1>2. CASE Due(old, new) /\ \A u \in Users : new.cash[u] - old.cash[u] = Payout(old, new, u)
  <2>1. Leaving(d, e) = Leaving(old, new)
    BY DEF Leaving, Rolled
  <2>2. Due(d, e)
    BY <1>2, <2>1 DEF Due, Rolled, Leaving
  <2>3. ASSUME NEW u \in Users PROVE e.cash[u] - d.cash[u] = Payout(d, e, u)
    <3>1. \A i \in Leaving(d, e) : d.ship[i].who = old.ship[i].who /\ d.ship[i].pay = old.ship[i].pay
      BY <2>1 DEF Leaving, Rolled
    <3>2. {i \in Leaving(d, e) : d.ship[i].who = u} = {i \in Leaving(old, new) : old.ship[i].who = u}
      BY <2>1, <3>1
    <3>3. [i \in Leaving(d, e) |-> d.ship[i].pay] = [i \in Leaving(old, new) |-> old.ship[i].pay]
      BY <2>1, <3>1
    <3>4. Payout(d, e, u) = Payout(old, new, u)
      BY <3>2, <3>3 DEF Payout
    <3>. QED BY <1>2, <3>4
  <2>. QED BY <2>2, <2>3 DEF Delivered
<1>. QED BY <1>1, <1>2 DEF Delivered

LEMMA MergedCash ==
  ASSUME NEW now, NEW read, NEW new, Typed(now), Typed(read), Typed(new), NEW e, e = Merge(now, read, new)
  PROVE  Typed(e) /\ \A u \in Users : e.cash[u] = IF new.cash[u] = read.cash[u] THEN now.cash[u] ELSE new.cash[u]
<1>1. "cash" \in Columns /\ Keys("cash") = Users
  BY ColumnNames DEF Keys, NewTown, Over
<1>. QED BY <1>1, MergeCells

\* A step moves no load, or delivers it, or is one of two that raced.
LEMMA PayStep ==
  ASSUME TypeInv, AccountInv, RoadInv, PayInv, [Next]_vars
  PROVE  PayInv' /\ (raced' \/ Stays(db, db') \/ Delivered(db, db'))
<1>1. AnyStep
  BY Steps DEF TypeInv
<1>0. Typed(db) /\ Stays(db, db) /\ Rolled(db, db)
  BY RolledSelf DEF TypeInv, Stays
<1>2. CASE Handling
  <2>1. PICK e, m : Handled(db, e, m) /\ (Opens(e, m) \/ Ends(e, m))
    BY <1>2, HandlerSteps
  <2>2. Typed(e) /\ Loading(db, e) /\ Unloading(db, db)
    BY <2>1 DEF Handled, Unloading
  <2>3. CASE Opens(e, m)
    BY <1>0, <2>3 DEF PayInv, Opens
  <2>4. CASE Ends(e, m)
    <3>1. job' = Idle /\ db' = e
      BY <2>4 DEF AccountInv, Alone, Ends
    <3>2. \A i \in Ships : e.ship[i] = IF e.ship[i] = db.ship[i] THEN db.ship[i] ELSE e.ship[i]
      OBVIOUS
    <3>3. Stays(db, e)
      BY <1>0, <2>2, <3>2, LoadingStays
    <3>. QED BY <3>1, <3>3 DEF PayInv
  <2>. QED BY <2>1, <2>3, <2>4
<1>3. CASE Working
  <2>1. PICK e : Worked(db, e) /\ Delivered(db, e) /\ (JobOpens(e) \/ JobEnds(e))
    BY <1>3, JobSteps
  <2>3. CASE JobOpens(e)
    BY <1>0, <2>1, <2>3 DEF PayInv, JobOpens
  <2>4. CASE JobEnds(e)
    BY <2>1, <2>4 DEF PayInv, JobEnds
  <2>. QED BY <2>1, <2>3, <2>4
<1>4. CASE Pulsing
  <2>1. db'.ship = db.ship /\ db'.cash = db.cash /\ UNCHANGED <<job, raced>>
    BY <1>0, <1>4, ColumnNames DEF Pulsing, Typed
  <2>. QED BY <1>0, <2>1 DEF PayInv, Rolled, Stays
<1>5. CASE Passing
  <2>1. UNCHANGED <<job, raced>> /\ Rolled(db, db') /\ db'.cash = db.cash
    BY <1>5 DEF Passing, Passed
  <2>2. Stays(db, db')
    BY <2>1 DEF Rolled, Stays
  <2>. QED BY <2>1, <2>2, RolledOn DEF PayInv
<1>6. CASE GateReload
  BY <1>0, <1>6 DEF PayInv, GateReload
<1>7. CASE CacheOld
  BY <1>0, <1>7 DEF PayInv, CacheOld
<1>8. CASE Commit
  <2>1. op # Idle /\ op' = Idle /\ UNCHANGED <<job, raced>> /\ Typed(op.read) /\ Typed(op.new)
    BY <1>8 DEF TypeInv, Session, Commit
  <2>0. PayInv'
    BY <2>1 DEF PayInv, AccountInv
  <2>2. CASE db' = db
    BY <1>0, <2>0, <2>2
  <2>3. CASE db' = Merge(db, op.read, op.new)
    <3>1. \A i \in Ships : db'.ship[i] = IF op.new.ship[i] = op.read.ship[i] THEN db.ship[i] ELSE op.new.ship[i]
      BY <1>0, <2>1, <2>3, MergedShips
    <3>2. Stays(db, db')
      BY <2>1, <3>1, LoadingStays DEF RoadInv
    <3>. QED BY <2>0, <3>2
  <2>. QED BY <1>8, <2>2, <2>3 DEF Commit
<1>9. CASE JobCommit
  <2>1. job # Idle /\ job' = Idle /\ UNCHANGED <<op, raced>> /\ Typed(job.read) /\ Typed(job.new)
    BY <1>9 DEF TypeInv, Session, JobCommit
  <2>0. PayInv'
    BY <2>1 DEF PayInv
  <2>2. CASE db' = db
    BY <1>0, <2>0, <2>2
  <2>3. CASE db' = Merge(db, job.read, job.new) /\ ~raced
    <3>1. \A i \in Ships : db'.ship[i] = IF job.new.ship[i] = job.read.ship[i] THEN db.ship[i] ELSE job.new.ship[i]
      BY <1>0, <2>1, <2>3, MergedShips
    <3>2. Typed(db') /\ \A u \in Users : db'.cash[u] = IF job.new.cash[u] = job.read.cash[u] THEN db.cash[u] ELSE job.new.cash[u]
      BY <1>0, <2>1, <2>3, MergedCash
    <3>3. Delivered(job.read, job.new) /\ db.cash = job.read.cash /\ Rolled(job.read, db)
      BY <2>1, <2>3 DEF PayInv
    <3>4. Delivered(db, db')
      BY <1>0, <2>1, <3>1, <3>2, <3>3, DeliveredAtCommit
    <3>. QED BY <2>0, <3>4
  <2>. QED BY <1>9, <2>0, <2>1, <2>2, <2>3 DEF JobCommit
<1>10. CASE Crash(NoMemory)
  BY <1>0, <1>10 DEF PayInv, Crash
<1>11. CASE UNCHANGED vars
  BY <1>0, <1>11 DEF PayInv, vars
<1>. QED BY <1>1, <1>2, <1>3, <1>4, <1>5, <1>6, <1>7, <1>8, <1>9, <1>10, <1>11 DEF AnyStep

LEMMA StayingIsPaid ==
  ASSUME Stays(db, db') \/ Delivered(db, db')
  PROVE  \/ Gone \cup Late = {}
         \/ /\ \A i \in Gone : db.ship[i].due /\ (db.ship[i].fate = "delayed" => db.ship[i].hops = 1)
            /\ \A u \in Users : db'.cash[u] - db.cash[u] =
                 SumFunctionOnSet([i \in Gone |-> db.ship[i].pay], {i \in Gone : db.ship[i].who = u})
<1>1. CASE Stays(db, db')
  BY <1>1 DEF Stays, Gone, Late
<1>2. CASE db'.ship = db.ship
  BY <1>2 DEF Gone, Late
<1>3. CASE Due(db, db') /\ \A u \in Users : db'.cash[u] - db.cash[u] = Payout(db, db', u)
  <2>1. Leaving(db, db') = Gone
    BY DEF Leaving, Gone
  <2>. QED BY <1>3, <2>1 DEF Due, Payout
<1>. QED BY <1>1, <1>2, <1>3 DEF Delivered

\* LoadsArePaid: whatever is bought, wiped or restarted between a load that
\* sets out and its arrival, the step that takes loads off the road pays each
\* owner the pay of those that are due, and a delayed one only the second time.
THEOREM TheLoadsArePaid == Spec => LoadsArePaid
<1>. DEFINE Paying == raced' \/ Gone \cup Late = {} \/
              /\ \A i \in Gone : db.ship[i].due /\ (db.ship[i].fate = "delayed" => db.ship[i].hops = 1)
              /\ \A u \in Users : db'.cash[u] - db.cash[u] =
                   SumFunctionOnSet([i \in Gone |-> db.ship[i].pay], {i \in Gone : db.ship[i].who = u})
<1>1. Init => PayInv
  BY DEF Init, PayInv
<1>2. TypeInv /\ AccountInv /\ RoadInv /\ PayInv /\ [Next]_vars => PayInv' /\ [Paying]_vars
  BY PayStep, StayingIsPaid
<1>3. [][Paying]_vars => LoadsArePaid
  BY DEF LoadsArePaid
<1>. HIDE DEF Paying
<1>. QED BY <1>1, <1>2, <1>3, Types, AccountsAreSound, TheRoadHolds, PTL DEF Spec
=============================================================================
