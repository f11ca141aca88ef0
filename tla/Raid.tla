--------------------------------- MODULE Raid ---------------------------------
(***************************************************************************)
(* The fights of one group: caravan (services/world.py) and boss           *)
(* (services/boss.py), the hit buttons (handlers/world.py, boss.py) and    *)
(* the jobs that end and begin them (handlers/jobs.py).                    *)
(*                                                                         *)
(* The boards CARAVANS[chat] and BOSSES[chat] are in memory, the players'  *)
(* cash and bullets in the database.  Updates are handled one at a time;   *)
(* the two jobs run beside them.  A step is what runs between two awaits.  *)
(* Gems, seeds and parts are further columns of the rows that are paid.    *)
(***************************************************************************)
EXTENDS Integers, FiniteSets, Functions

CONSTANTS
  Users,
  Bullets0,     \* bullets of every player's gun in the beginning
  Health,       \* what a fight may have: CARAVAN_HP_TIERS, a boss's hp
  Damage,       \* what one hit may do, at least 1
  PerDamage,    \* CARAVAN_MONEY_PER_DMG, BOSS_MONEY_PER_DMG
  Top,          \* CARAVAN_TOP_REWARDS, BOSS_TOP_REWARDS
  Share,        \* Share[i]: a boss's reward times BOSS_RANK_PCT[i]
  KillerBonus,  \* a boss's reward times BOSS_KILLER_BONUS
  MaxFights,    \* bound on the fights that are planned
  MaxCrashes,   \* bound on the restarts
  NULL

Kinds  == {"caravan", "boss"}
Fights == 1 .. MaxFights

ASSUME RaidAssumption ==
  /\ NULL \notin Users \cup Nat /\ IsFiniteSet(Users)
  /\ Bullets0 \in Nat /\ PerDamage \in Nat \ {0}
  /\ Health \subseteq Nat \ {0} /\ Damage \subseteq Nat \ {0}
  /\ Top \in Nat \ {0} /\ Share \in [1 .. Top -> Nat \ {0}] /\ KillerBonus \in Nat
  /\ MaxFights \in Nat /\ MaxCrashes \in Nat

VARIABLES
  cash,      \* users.cash gained in fights
  bullets,   \* inventory_items.ammo of the player's gun
  board,     \* CARAVANS[chat], BOSSES[chat]
  cooling,   \* <<k, u>>: u's last hit is less than a minute old
  due,       \* kinds for which the job would begin a new fight
  op,        \* the handler that is running
  job,       \* caravan_job and boss_job
  fought,    \* history: the boards that have left, and what they owed
  planned,   \* fights planned so far
  overlap,   \* history: two sessions have been open together
  crashes

rows    == <<cash, bullets>>
history == <<fought, overlap>>
vars    == <<rows, board, cooling, due, op, job, planned, history, crashes>>

Board == [id : Fights, hp : Int, dmg : [Users -> Nat], late : BOOLEAN]
Gone  == [id : Fights, hp : Int, dmg : [Users -> Nat], pay : [Users -> Nat],
          end : {"killed", "fled", "lost"}]

ASSUME BoardAssumption == NULL \notin Board

\* What a session will write: rows it has yet to read, rows it has read,
\* and what it adds to them.
Bill   == [todo : SUBSET Users, view : [Users -> Nat \cup {NULL}], pay : [Users -> Nat]]
Nobody == [u \in Users |-> NULL]
Nought == [u \in Users |-> 0]

Idle == [pc |-> "idle"]
Ops  == {Idle}
        \cup [pc : {"aiming", "struck"}, k : Kinds, me : Users, bill : Bill]
        \cup [pc : {"closing"}, me : Users, shot : BOOLEAN, bill : Bill]
        \cup [pc : {"noting"}]
Off  == Idle
Jobs == {Off} \cup [pc : {"paying"}, bill : Bill]
        \cup [pc : {"planning", "spawning"}, id : Fights]

TypeOK ==
  /\ cash \in [Users -> Nat] /\ bullets \in [Users -> Nat]
  /\ board \in [Kinds -> Board \cup {NULL}]
  /\ cooling \subseteq Kinds \X Users /\ due \subseteq Kinds
  /\ op \in Ops /\ job \in [Kinds -> Jobs]
  /\ fought \subseteq Gone /\ overlap \in BOOLEAN
  /\ planned \in 0 .. MaxFights /\ crashes \in Nat

Init ==
  /\ cash = Nought /\ bullets = [u \in Users |-> Bullets0]
  /\ board = [k \in Kinds |-> NULL]
  /\ cooling = {} /\ due = {}
  /\ op = Idle /\ job = [k \in Kinds |-> Off]
  /\ fought = {} /\ overlap = FALSE
  /\ planned = 0 /\ crashes = 0

-----------------------------------------------------------------------------
\* caravan_active, active
Active(k) == board[k] # NULL /\ ~board[k].late /\ board[k].hp > 0

Hitters(b) == {u \in Users : b.dmg[u] > 0}

\* A board leaves the dict; what it owes is remembered.
Ended(b, end, pay) ==
  fought \cup (IF b = NULL THEN {}
               ELSE {[id |-> b.id, hp |-> b.hp, dmg |-> b.dmg, pay |-> pay, end |-> end]})

\* sorted(damages, key = -damage)[: Top]; equal damages are ordered by the
\* first hit, here in any way.
Rankings(b) ==
  LET n == IF Cardinality(Hitters(b)) < Top THEN Cardinality(Hitters(b)) ELSE Top
  IN  {r \in [1 .. n -> Hitters(b)] :
        /\ \A i, j \in 1 .. n : i < j => r[i] # r[j] /\ b.dmg[r[i]] >= b.dmg[r[j]]
        /\ \A u \in Hitters(b) : \/ \E i \in 1 .. n : r[i] = u
                                 \/ b.dmg[u] <= b.dmg[r[n]]}

\* The money that rank i of the board gets.
CaravanPrize(b, end, r, i) ==
  b.dmg[r[i]] * PerDamage * (IF end = "killed" /\ i = 1 THEN 3 ELSE 1)

BossPrize(r, i, killer) == Share[i] + IF r[i] = killer THEN KillerBonus ELSE 0

\* What each player is owed.
Prizes(k, b, end, r, killer) ==
  [u \in Users |->
     IF \E i \in DOMAIN r : r[i] = u
       THEN LET i == CHOOSE i \in DOMAIN r : r[i] = u
            IN  IF k = "boss" THEN BossPrize(r, i, killer) ELSE CaravanPrize(b, end, r, i)
       ELSE 0]

\* session.get of one more row.
ReadRow(bill, u) == [bill EXCEPT !.todo = @ \ {u}, !.view[u] = cash[u]]

\* The commit: the columns that were changed, as plain values.
Written(bill) == [u \in Users |-> IF bill.pay[u] > 0 THEN bill.view[u] + bill.pay[u]
                                                     ELSE cash[u]]

-----------------------------------------------------------------------------
(* The hit buttons.                                                        *)

\* The fight is there and the session reads the player's row.  The early
\* look at the cooldown asks for the Telegram id, the dict has the row's id:
\* it never finds one.
HitBegin(k, u) ==
  /\ op = Idle
  /\ Active(k)
  /\ op' = [pc |-> "aiming", k |-> k, me |-> u,
            bill |-> [todo |-> {}, view |-> [Nobody EXCEPT ![u] = cash[u]], pay |-> Nought]]
  /\ overlap' = (overlap \/ \E j \in Kinds : job[j] # Off)
  /\ UNCHANGED <<rows, board, cooling, due, job, planned, fought, crashes>>

\* Mistake: an empty gun is fired too.
ShotOfEmptyGun(u) == TRUE

\* The player's weapon is the gun as long as it is loaded.
Shot(u) == bullets[u] > 0

Closing(shot, bill) == [pc |-> "closing", me |-> op.me, shot |-> shot, bill |-> bill]

\* The fight is over, or the player hit it less than a minute ago.  The
\* caravan's handler has fired before it asks, the boss's fires afterwards.
Missed ==
  /\ op.pc = "aiming"
  /\ ~Active(op.k) \/ <<op.k, op.me>> \in cooling
  /\ op' = Closing(op.k = "caravan" /\ Shot(op.me), op.bill)
  /\ UNCHANGED <<rows, board, cooling, due, job, planned, history, crashes>>

\* The hit itself; the XP of the player's cartel is awaited after it.
Strike(d) ==
  /\ op.pc = "aiming"
  /\ Active(op.k) /\ <<op.k, op.me>> \notin cooling
  /\ cooling' = cooling \cup {<<op.k, op.me>>}
  /\ board' = [board EXCEPT ![op.k].hp = @ - d, ![op.k].dmg[op.me] = @ + d]
  /\ LET bill == [op.bill EXCEPT !.pay[op.me] = d * PerDamage]
     IN  op' = IF board[op.k].hp > d
                 THEN Closing(Shot(op.me), bill)
                 ELSE [pc |-> "struck", k |-> op.k, me |-> op.me, bill |-> bill]
  /\ UNCHANGED <<rows, due, job, planned, history, crashes>>

\* The killer's handler takes from the dict what is there by now, and adds
\* the prizes to its session.
Settle ==
  /\ op.pc = "struck"
  /\ board' = [board EXCEPT ![op.k] = NULL]
  /\ LET b == board[op.k]
     IN  IF b = NULL \/ Hitters(b) = {}
           THEN /\ fought' = Ended(b, "lost", Nought)
                /\ op' = Closing(Shot(op.me), op.bill)
           ELSE \E r \in Rankings(b) :
                  LET owed == Prizes(op.k, b, "killed", r, op.me)
                  IN  /\ fought' = Ended(b, "killed", owed)
                      /\ op' = Closing(Shot(op.me),
                           [op.bill EXCEPT !.todo = Hitters(b) \ {op.me},
                                           !.pay = [u \in Users |-> @[u] + owed[u]]])
  /\ UNCHANGED <<rows, cooling, due, job, planned, overlap, crashes>>

HitReadRow ==
  /\ op.pc = "closing"
  /\ \E u \in op.bill.todo : op' = [op EXCEPT !.bill = ReadRow(@, u)]
  /\ UNCHANGED <<rows, board, cooling, due, job, planned, history, crashes>>

HitCommit ==
  /\ op.pc = "closing" /\ op.bill.todo = {}
  /\ cash' = Written(op.bill)
  /\ bullets' = [bullets EXCEPT ![op.me] = @ - IF op.shot THEN 1 ELSE 0]
  /\ op' = Idle
  /\ UNCHANGED <<board, cooling, due, job, planned, history, crashes>>

-----------------------------------------------------------------------------
(* The jobs.                                                               *)

\* _caravan_settle for a caravan that leaves: its best hitters are paid too.
CaravanLeaves(b) ==
  /\ \E r \in Rankings(b) :
       LET owed == Prizes("caravan", b, "fled", r, NULL)
       IN  /\ fought' = Ended(b, "fled", owed)
           /\ job' = [job EXCEPT !["caravan"] =
                [pc |-> "paying",
                 bill |-> [todo |-> Hitters(b), view |-> Nobody, pay |-> owed]]]
  /\ overlap' = (overlap \/ op # Idle)
  /\ UNCHANGED <<rows, cooling, due, op, planned, crashes>>

\* Mistake: what the board owes is paid and the board stays.
CaravanExpireKeeps ==
  LET b == board["caravan"]
  IN  /\ job["caravan"] = Off
      /\ b # NULL /\ b.late /\ b.hp > 0
      /\ UNCHANGED board
      /\ CaravanLeaves(b)

\* Mistake: the job does not look at the health that is left.
CaravanExpireDead ==
  LET b == board["caravan"]
  IN  /\ job["caravan"] = Off
      /\ b # NULL /\ b.late
      /\ board' = [board EXCEPT !["caravan"] = NULL]
      /\ CaravanLeaves(b)

\* caravan_expire: only a caravan with health left; a dead one is the killer's.
CaravanExpire ==
  LET b == board["caravan"]
  IN  /\ job["caravan"] = Off
      /\ b # NULL /\ b.late /\ b.hp > 0
      /\ board' = [board EXCEPT !["caravan"] = NULL]
      /\ CaravanLeaves(b)

\* Mistake: a boss that nobody has hit is forgotten.
BossExpireHit ==
  LET b == board["boss"]
  IN  /\ job["boss"] = Off
      /\ b # NULL /\ b.late /\ b.hp > 0 /\ Hitters(b) # {}
      /\ board' = [board EXCEPT !["boss"] = NULL]
      /\ fought' = Ended(b, "fled", Nought)
      /\ UNCHANGED <<rows, cooling, due, op, job, planned, overlap, crashes>>

\* expire: a boss that leaves pays nothing.
BossExpire ==
  LET b == board["boss"]
  IN  /\ job["boss"] = Off
      /\ b # NULL /\ b.late /\ b.hp > 0
      /\ board' = [board EXCEPT !["boss"] = NULL]
      /\ fought' = Ended(b, "fled", Nought)
      /\ UNCHANGED <<rows, cooling, due, op, job, planned, overlap, crashes>>

JobReadRow(k) ==
  /\ job[k].pc = "paying"
  /\ \E u \in job[k].bill.todo : job' = [job EXCEPT ![k].bill = ReadRow(@, u)]
  /\ UNCHANGED <<rows, board, cooling, due, op, planned, history, crashes>>

JobCommit(k) ==
  /\ job[k].pc = "paying" /\ job[k].bill.todo = {}
  /\ cash' = Written(job[k].bill)
  /\ job' = [job EXCEPT ![k] = Off]
  /\ UNCHANGED <<bullets, board, cooling, due, op, planned, history, crashes>>

\* No fight is on and a new one is due: the job plans it in its session ...
Plan(k) ==
  /\ job[k] = Off
  /\ ~Active(k) /\ k \in due
  /\ planned < MaxFights
  /\ planned' = planned + 1
  /\ job' = [job EXCEPT ![k] = [pc |-> "planning", id |-> planned + 1]]
  /\ UNCHANGED <<rows, board, cooling, due, op, history, crashes>>

\* ... commits that it has begun ...
PlanCommit(k) ==
  /\ job[k].pc = "planning"
  /\ due' = due \ {k}
  /\ job' = [job EXCEPT ![k].pc = "spawning"]
  /\ UNCHANGED <<rows, board, cooling, op, planned, history, crashes>>

\* caravan_spawn, spawn: the dict's entry is overwritten.
Spawned(k, id, hp) ==
  /\ board' = [board EXCEPT ![k] = [id |-> id, hp |-> hp, dmg |-> Nought, late |-> FALSE]]
  /\ fought' = Ended(board[k], "lost", Nought)

\* ... and begins it after it has sent its other messages.
Spawn(k) ==
  /\ job[k].pc = "spawning"
  /\ \E hp \in Health : Spawned(k, job[k].id, hp)
  /\ job' = [job EXCEPT ![k] = Off]
  /\ UNCHANGED <<rows, cooling, due, op, planned, overlap, crashes>>

-----------------------------------------------------------------------------
(* The administrator's commands.                                           *)

\* caravan_spawn_cmd: not while a caravan is on; the time is noted afterwards.
AdminCaravan ==
  /\ op = Idle
  /\ ~Active("caravan")
  /\ planned < MaxFights
  /\ planned' = planned + 1
  /\ \E hp \in Health : Spawned("caravan", planned + 1, hp)
  /\ op' = [pc |-> "noting"]
  /\ UNCHANGED <<rows, cooling, due, job, overlap, crashes>>

AdminNote ==
  /\ op.pc = "noting"
  /\ due' = due \ {"caravan"}
  /\ op' = Idle
  /\ UNCHANGED <<rows, board, cooling, job, planned, history, crashes>>

\* admb:s: the boss is replaced, whether it is still fought or not.
AdminBoss ==
  /\ op = Idle
  /\ planned < MaxFights
  /\ planned' = planned + 1
  /\ \E hp \in Health : Spawned("boss", planned + 1, hp)
  /\ UNCHANGED <<rows, cooling, due, op, job, overlap, crashes>>

-----------------------------------------------------------------------------
(* Time and restarts.                                                      *)

\* The lifetime of a fight passes.
Late(k) == /\ board[k] # NULL /\ ~board[k].late
           /\ board' = [board EXCEPT ![k].late = TRUE]
           /\ UNCHANGED <<rows, cooling, due, op, job, planned, history, crashes>>

\* A minute after a hit.
CoolDown(k, u) == /\ <<k, u>> \in cooling
                  /\ cooling' = cooling \ {<<k, u>>}
                  /\ UNCHANGED <<rows, board, due, op, job, planned, history, crashes>>

\* A caravan is due three hours after the last one began, which is long
\* after it has ended; a boss at the times of its daily plan, which do not
\* move when an earlier one began late.
DueComes(k) == /\ k \notin due
               /\ planned < MaxFights   \* the bound: else nothing reads it
               /\ k = "caravan" => board[k] = NULL
               /\ due' = due \cup {k}
               /\ UNCHANGED <<rows, board, cooling, op, job, planned, history, crashes>>

\* A restart: the boards and the cooldowns are gone.
Crash ==
  /\ crashes < MaxCrashes
  /\ crashes' = crashes + 1
  /\ board' = [k \in Kinds |-> NULL]
  /\ fought' = UNION {Ended(board[k], "lost", Nought) : k \in Kinds}
  /\ cooling' = {}
  /\ op' = Idle /\ job' = [k \in Kinds |-> Off]
  /\ UNCHANGED <<rows, due, planned, overlap>>

-----------------------------------------------------------------------------
HandlerStep == \/ Missed \/ (\E d \in Damage : Strike(d))
               \/ Settle \/ HitReadRow \/ HitCommit \/ AdminNote

JobStep(k) == JobReadRow(k) \/ JobCommit(k) \/ PlanCommit(k) \/ Spawn(k)

Next ==
  \/ \E k \in Kinds, u \in Users : HitBegin(k, u) \/ CoolDown(k, u)
  \/ HandlerStep
  \/ CaravanExpire \/ BossExpire
  \/ \E k \in Kinds : JobStep(k) \/ Plan(k) \/ Late(k) \/ DueComes(k)
  \/ AdminCaravan \/ AdminBoss
  \/ Crash

Spec == Init /\ [][Next]_vars

(* Lifetimes pass, awaits return and JobQueue repeats the jobs; nobody has *)
(* to hit and the group need not stay active enough for a new fight.       *)
Fairness == /\ \A k \in Kinds : WF_vars(Late(k)) /\ WF_vars(JobStep(k))
            /\ WF_vars(CaravanExpire) /\ WF_vars(BossExpire)
            /\ WF_vars(HandlerStep)

FairSpec == Spec /\ Fairness

-----------------------------------------------------------------------------
(* Properties.                                                             *)

Quiet == op = Idle /\ \A k \in Kinds : job[k].pc # "paying"

\* The damage u has dealt to the boards that have left and to those there.
DealtIn(gone, u) == SumFunctionOnSet([f \in gone |-> f.dmg[u]], gone)
DealtTo(k, u)    == IF board[k] = NULL THEN 0 ELSE board[k].dmg[u]
Dealt(u)         == DealtIn(fought, u) + DealtTo("caravan", u) + DealtTo("boss", u)

OwedIn(gone, u)  == SumFunctionOnSet([f \in gone |-> f.pay[u]], gone)
Owed(u)          == OwedIn(fought, u)

\* Every hit and every prize is paid, and paid once: nobody is ever given
\* more than the boards say, and without a restart and overlapping sessions
\* everybody has been given all of it when nothing is running.
BoardsArePaid ==
  \A u \in Users :
    LET earned == PerDamage * Dealt(u) + Owed(u)
    IN  /\ cash[u] <= earned
        /\ Quiet /\ ~overlap /\ crashes = 0 => cash[u] = earned

\* No fight stays in its dict for ever, hit or not, and none blocks the next
\* ones of its group.
FightsLeave ==
  \A k \in Kinds, f \in Fights :
    (board[k] # NULL /\ board[k].id = f) ~> (board[k] = NULL \/ board[k].id # f)

\* Every hit on the caravan costs one bullet (handlers/world.py:403): no
\* bullet is spent without a hit, which deals at least one.
BulletsHit == \A u \in Users : Quiet => Bullets0 - bullets[u] <= Dealt(u)

-----------------------------------------------------------------------------
(* Every fight, as Fight promises it.                                      *)

OnBoard(f) == {k \in Kinds : board[k] # NULL /\ board[k].id = f}
Left(f)    == {g \in fought : g.id = f}

PhaseOf(f) == IF Left(f) # {} THEN (CHOOSE g \in Left(f) : TRUE).end
              ELSE IF OnBoard(f) # {} THEN "open" ELSE "absent"

HealthOf(f) == IF Left(f) # {} THEN (CHOOSE g \in Left(f) : TRUE).hp
               ELSE IF OnBoard(f) # {} THEN board[CHOOSE k \in OnBoard(f) : TRUE].hp
               ELSE 0

EachFight == INSTANCE Fight WITH
               phase <- [f \in Fights |-> PhaseOf(f)],
               health <- [f \in Fights |-> HealthOf(f)]

\* A kill is settled by the killer and an expiry by the job, never both,
\* and an end is final whatever the two race into.
ImplementsFight == EachFight!Spec
=============================================================================
