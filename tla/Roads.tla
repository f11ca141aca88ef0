---------------------------------- MODULE Roads ----------------------------------
(***************************************************************************)
(* Products on the road: services/smuggle.py and handlers/smuggle.py.  A   *)
(* shipment takes products out of the store and pays when it arrives; the  *)
(* smuggler's caravan buys one crop while it stays.                        *)
(*                                                                         *)
(* db.ship[i] is a shipment, its fate rolled when it leaves; db.world      *)
(* keeps the caravan of game_meta, whether its time is still ahead, and    *)
(* whether the interval since the last one is over.                        *)
(* Nothing deletes the row of a user, so every shipment has one.           *)
(***************************************************************************)
EXTENDS Farm

CONSTANTS
  LastShip,                \* the ids of shipments: a bound
  MaxShipments,            \* SHIPMENT_MAX_ACTIVE
  Seizes, Malus,           \* percent the police may take, KHAYE_SELL_MALUS
  Bonuses                  \* percent a caravan may add

Ships == 1 .. LastShip
Fates == {"clean", "police", "delayed"}

ASSUME RoadsAssumption ==
  /\ LastShip \in Nat /\ MaxShipments \in Nat
  /\ Seizes \subseteq 0 .. 100 /\ Malus \in 0 .. 100 /\ Bonuses \subseteq Nat
  /\ NULL \notin [who : Users, crop : Crops, qty : Nat, pay : Nat, fate : Fates, hops : 0 .. 1, due : BOOLEAN]

-----------------------------------------------------------------------------
(* Products.                                                               *)

\* take_product: the part of the worth that goes with n of them.
Taking(d, u, c, n) ==
  LET g == d.good[<<u, c>>] IN IF n >= g.qty THEN g.value ELSE (g.value * n) \div g.qty

\* Mistake: the quantity of the card is believed.
CanTakeAny(d, u, c, n) == n > 0

CanTake(d, u, c, n) == n > 0 /\ d.good[<<u, c>>].qty >= n
Took(d, u, c, n) ==
  [d EXCEPT !.good[<<u, c>>] = [qty |-> @.qty - n, value |-> @.value - Taking(d, u, c, n)]]

\* sell_mult
Cheap(d, u, n) == IF Running(d, u, "khaye") THEN Rounded(n * (100 - Malus), 100) ELSE n

-----------------------------------------------------------------------------
(* Shipments.                                                              *)

OnRoad(d, u) == {i \in Ships : d.ship[i] # NULL /\ d.ship[i].who = u}

\* send_shipment
Sent(d, u, c, n, fate, seize, i) ==
  LET value == Taking(d, u, c, n)
      pay   == IF fate = "police" THEN value - Rounded(value * seize, 100) ELSE value
  IN  [Took(d, u, c, n) EXCEPT !.ship[i] =
         [who |-> u, crop |-> c, qty |-> n, pay |-> Cheap(d, u, pay), fate |-> fate, hops |-> 0, due |-> FALSE]]

\* ship_execute
SendShipment(u, c, n, fate, seize, draw) ==
  LET free == {i \in Ships : db.ship[i] = NULL}
      d    == FirstTime(Sent(db, u, c, n, fate, seize, Min(free)), u, "shipment")
  IN  /\ Cardinality(OnRoad(db, u)) < MaxShipments /\ CanTake(db, u, c, n) /\ free # {}
      /\ Answer(Track(d, u, "shipment", 1, draw))

\* The time a shipment was given is over.
RoadOver(i) ==
  /\ db.ship[i] # NULL /\ ~db.ship[i].due
  /\ db' = [db EXCEPT !.ship[i].due = TRUE]
  /\ UNCHANGED <<mem, op, job, racing, raced, due>>

\* Mistake: a delayed shipment is paid when its delay is announced.
ArrivedTwice(d, i) ==
  LET s == d.ship[i]
      e == Pay(d, s.who, s.pay)
  IN  IF s.fate = "delayed" /\ s.hops = 0
      THEN [e EXCEPT !.ship[i] = [@ EXCEPT !.hops = 1, !.due = FALSE]]
      ELSE [e EXCEPT !.ship[i] = NULL]

\* Mistake: the delay leaves hops alone.
ArrivedAgain(d, i) ==
  LET s == d.ship[i]
  IN  IF s.fate = "delayed" THEN [d EXCEPT !.ship[i] = [@ EXCEPT !.due = FALSE]]
      ELSE [Pay(d, s.who, s.pay) EXCEPT !.ship[i] = NULL]

\* One shipment of process_due_shipments: a delayed one sets out again.
Arrived(d, i) ==
  LET s == d.ship[i]
  IN  IF s.fate = "delayed" /\ s.hops = 0
      THEN [d EXCEPT !.ship[i] = [@ EXCEPT !.hops = 1, !.due = FALSE]]
      ELSE [Pay(d, s.who, s.pay) EXCEPT !.ship[i] = NULL]

\* shipment_job
ShipmentJob ==
  LET arriving == {i \in Ships : db.ship[i] # NULL /\ db.ship[i].due}
      after[i \in 0 .. LastShip] ==
        IF i = 0 THEN db ELSE IF i \in arriving THEN Arrived(after[i - 1], i) ELSE after[i - 1]
  IN  arriving # {} /\ Run(after[LastShip])

\* ship_ask_qty_cb; capture, "smqty": a quantity there is ends the question.
AskShip(u, c) == db.good[<<u, c>>].qty > 0 /\ Answer(SetPending(db, u, "smqty", c))
ShipQty(u, n) ==
  /\ db.pend[u].ask = "smqty" /\ CanTake(db, u, db.pend[u].value, n)
  /\ Answer(NoPending(db, u))

-----------------------------------------------------------------------------
(* The caravan.                                                            *)

\* get_caravan: one whose time is over is gone.
Looked(d) == IF d.world.caravan # NULL /\ ~d.world.stays THEN [d EXCEPT !.world.caravan = NULL] ELSE d

Spawned(d, c, b) ==
  [d EXCEPT !.world.caravan = [crop |-> c, bonus |-> b], !.world.stays = TRUE, !.world.rested = FALSE]

\* smuggler_job and caravan_tick: an old caravan goes, a new one may come.
SmugglerJob(c, b) ==
  LET d == Looked(db)
  IN  IF d.world.caravan = NULL /\ d.world.rested THEN Run(Spawned(d, c, b)) ELSE d # db /\ Run(d)

\* admin_spawn_text
AdminCaravan(c, b) == Looked(db).world.caravan = NULL /\ Answer(Spawned(Looked(db), c, b))

\* caravan_execute
SellToCaravan(u, n) ==
  LET d == Looked(db)
      v == d.world.caravan
  IN  /\ v # NULL /\ CanTake(d, u, v.crop, n)
      /\ Answer(Pay(Took(d, u, v.crop, n), u,
                    Cheap(d, u, Rounded(Taking(d, u, v.crop, n) * (100 + v.bonus), 100))))

\* caravan_ask_qty_cb; capture, "smcqty"
AskCaravan(u) ==
  LET d == Looked(db)
      v == d.world.caravan
  IN  v # NULL /\ d.good[<<u, v.crop>>].qty > 0 /\ Answer(SetPending(d, u, "smcqty", v.crop))
CaravanQty(u, n) ==
  LET d == Looked(db)
      v == d.world.caravan
  IN  /\ db.pend[u].ask = "smcqty" /\ (v # NULL => CanTake(d, u, v.crop, n))
      /\ Answer(NoPending(d, u))

\* A caravan's stay ends; the interval between two is over.
CaravanTime ==
  /\ \/ db.world.stays /\ db' = [db EXCEPT !.world.stays = FALSE]
     \/ ~db.world.stays /\ ~db.world.rested /\ db' = [db EXCEPT !.world.rested = TRUE]
  /\ UNCHANGED <<mem, op, job, racing, raced, due>>
=============================================================================
