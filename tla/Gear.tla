---------------------------------- MODULE Gear ----------------------------------
(***************************************************************************)
(* What a player buys and carries: services/shop_svc.py with               *)
(* handlers/shop.py, handlers/gear.py, and the dogs of services/dogs.py.   *)
(*                                                                         *)
(* db.item[<<u, k>>] is a weapon, an armour or an artifact, NULL when it   *)
(* is not owned; ammo is NULL for what is no gun.  db.wear[u] is what is   *)
(* worn, by kind.  db.dog[<<u, k>>] is a dog.                              *)
(***************************************************************************)
EXTENDS Roads

CONSTANTS
  Weapons, Guns, Armors, Artifacts,
  Goods,                   \* Goods[k]: price, iron, legendary parts and level a thing takes
  Strength,                \* Strength[k]: gear_stat of level 1
  AmmoCap, AmmoPrice,
  GearMax, GearUp,         \* GearUp[l]: cash, iron and the player's level
  Dogs, DogGoods, MaxDogs, DogMax, DogNeed, Feeds, Foods

ASSUME GearAssumption ==
  /\ Guns \subseteq Weapons /\ Weapons \cap Armors = {} /\ IsFiniteSet(Weapons) /\ NULL \notin Weapons
  /\ Strength \in [Weapons \cup Armors -> Nat]
  /\ {AmmoCap, AmmoPrice, MaxDogs, DogMax, Feeds} \subseteq Nat /\ AmmoPrice > 0
  /\ DOMAIN Goods \subseteq Weapons \cup Armors \cup Artifacts
  /\ \A k \in DOMAIN Goods : Goods[k] \in [cash : Nat, iron : Nat, parts : Nat, level : Nat]
  /\ GearMax \in Nat \ {0} /\ GearUp \in [1 .. GearMax - 1 -> [cash : Nat, iron : Nat, level : Nat]]
  /\ DogGoods \in [Dogs -> [level : Nat, cash : Nat]]
  /\ \A food \in DOMAIN Foods : Foods[food] \in [xp : Nat, cash : Nat]

Owns(d, u, k) == d.item[<<u, k>>] # NULL
Full(l)       == AmmoCap * l
Bullets(d, u, k) ==
  LET i == d.item[<<u, k>>] IN IF i.ammo = NULL THEN Full(i.level) ELSE i.ammo

-----------------------------------------------------------------------------
(* combat.py: what a player fights with.                                   *)

Strongest(d, u, ks) ==
  CHOOSE k \in ks : \A j \in ks : Strength[k] * d.item[<<u, k>>].level >= Strength[j] * d.item[<<u, j>>].level

\* weapon_choice: the one worn if it can be used, or the strongest that can.
Weapon(d, u, loaded) ==
  LET usable == {k \in Weapons : Owns(d, u, k) /\ (k \in Guns /\ loaded => Bullets(d, u, k) > 0)}
  IN  IF d.wear[u].weapon \in usable THEN d.wear[u].weapon
      ELSE IF usable = {} THEN NULL ELSE Strongest(d, u, usable)

\* armor_choice
Armor(d, u) ==
  LET owned == {k \in Armors : Owns(d, u, k)}
  IN  IF d.wear[u].armor \in owned THEN d.wear[u].armor
      ELSE IF owned = {} THEN NULL ELSE Strongest(d, u, owned)

\* An empty gun is refused before a fight, though another weapon would do.
Loaded(d, u) ==
  LET k == Weapon(d, u, FALSE) IN k \in Guns => Bullets(d, u, k) > 0

\* consume_ammo, of the weapon the fight really takes
Shot(d, u) ==
  LET k == Weapon(d, u, TRUE)
  IN  IF k \in Guns THEN [d EXCEPT !.item[<<u, k>>].ammo = Max({0, Bullets(d, u, k) - 1})] ELSE d

-----------------------------------------------------------------------------
(* The shop and the gear.                                                  *)

\* buy_execute: one of a kind.
Buy(u, k) ==
  LET c == Goods[k]
      d == [Charged(db, u, c.cash, "iron", c.iron) EXCEPT
              !.parts[u] = @ - c.parts,
              !.item[<<u, k>>] = [level |-> 1, ammo |-> IF k \in Guns THEN Full(1) ELSE NULL]]
  IN  /\ db.level[u] >= c.level /\ ~Owns(db, u, k) /\ Costs(db, u, c.cash, "iron", c.iron)
      /\ db.parts[u] >= c.parts
      /\ Answer(d)

\* gear_up_execute: a gun comes back loaded.
UpgradeGear(u, k) ==
  /\ Owns(db, u, k) /\ db.item[<<u, k>>].level < GearMax
  /\ LET l == db.item[<<u, k>>].level
         c == GearUp[l]
     IN  /\ db.level[u] >= c.level /\ Costs(db, u, c.cash, "iron", c.iron)
         /\ Answer([Charged(db, u, c.cash, "iron", c.iron) EXCEPT
                      !.item[<<u, k>>] = [level |-> l + 1, ammo |-> IF k \in Guns THEN Full(l + 1) ELSE @.ammo]])

\* gear_equip_cb, gear_unequip_cb
Wear(u, k) ==
  /\ Owns(db, u, k)
  /\ \/ k \in Weapons /\ Answer([db EXCEPT !.wear[u].weapon = k])
     \/ k \in Armors /\ Answer([db EXCEPT !.wear[u].armor = k])
TakeOff(u) ==
  \/ Answer([db EXCEPT !.wear[u].weapon = NULL])
  \/ Answer([db EXCEPT !.wear[u].armor = NULL])

\* gear_reload_do_cb: as many as are missing and can be paid.
Reload(u, k) ==
  /\ k \in Guns /\ Owns(db, u, k)
  /\ LET n == Min({Full(db.item[<<u, k>>].level) - Bullets(db, u, k), db.cash[u] \div AmmoPrice})
     IN  /\ n > 0
         /\ Answer([Pay(db, u, -(n * AmmoPrice)) EXCEPT !.item[<<u, k>>].ammo = Bullets(db, u, k) + n])

-----------------------------------------------------------------------------
(* Dogs.                                                                   *)

Kennel(d, u) == {k \in Dogs : d.dog[<<u, k>>] # NULL}

\* _check_buyable
CanBuyDog(d, u, k) ==
  /\ k \notin Kennel(d, u) /\ Cardinality(Kennel(d, u)) < MaxDogs
  /\ d.level[u] >= DogGoods[k].level /\ d.cash[u] >= DogGoods[k].cash

\* hold_dog keeps the wish until the dog is named; capture, "dogname".
HoldDog(u, k) == db.pend[u].ask = "none" /\ CanBuyDog(db, u, k) /\ Answer(SetPending(db, u, "dogname", k))
NameDog(u)    == db.pend[u].ask = "dogname" /\ Answer(NoPending(db, u))

\* buy_dog, from the card of a name
BuyDog(u, k) ==
  /\ CanBuyDog(db, u, k)
  /\ Answer([Pay(db, u, -DogGoods[k].cash) EXCEPT !.dog[<<u, k>>] = [level |-> 1, xp |-> 0, fed |-> 0]])

\* The level loop of a dog.
DogLevel(g) ==
  IF g.level < DogMax /\ g.xp >= DogNeed[g.level]
  THEN [g EXCEPT !.level = @ + 1, !.xp = @ - DogNeed[g.level]] ELSE g
Grown(g, n) == FoldLeft(LAMBDA h, l : DogLevel(h), [g EXCEPT !.xp = @ + n], [l \in 1 .. DogMax |-> l])

\* add_battle_xp
DogsFought(d, u, n) ==
  [d EXCEPT !.dog = [x \in DOMAIN @ |-> IF x[1] = u /\ @[x] # NULL THEN Grown(@[x], n) ELSE @[x]]]

\* feed_execute
Feed(u, k, food, draw) ==
  /\ k \in Kennel(db, u)
  /\ LET g == Grown([db.dog[<<u, k>>] EXCEPT !.fed = @ + 1], Foods[food].xp)
         h == IF g.level = DogMax THEN [g EXCEPT !.xp = 0] ELSE g
     IN  /\ db.dog[<<u, k>>].fed < Feeds /\ db.dog[<<u, k>>].level < DogMax
         /\ db.cash[u] >= Foods[food].cash
         /\ Answer(Track([Pay(db, u, -Foods[food].cash) EXCEPT !.dog[<<u, k>>] = h], u, "feed", 1, draw))

\* release_execute
Release(u, k) == k \in Kennel(db, u) /\ Answer([db EXCEPT !.dog[<<u, k>>] = NULL])

\* Midnight: feed_day is no longer today.
FeedDay ==
  /\ \E x \in DOMAIN db.dog : db.dog[x] # NULL /\ db.dog[x].fed > 0
  /\ db' = [db EXCEPT !.dog = [x \in DOMAIN @ |-> IF @[x] = NULL THEN NULL ELSE [@[x] EXCEPT !.fed = 0]]]
  /\ UNCHANGED <<mem, op, job, racing, raced, due>>
=============================================================================
