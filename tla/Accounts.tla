-------------------------------- MODULE Accounts --------------------------------
(***************************************************************************)
(* The accounts of the main bot: services/users.py, energy.py, bank.py and *)
(* quests.py with their handlers, and the sessions every handler works in. *)
(*                                                                         *)
(* db is the committed database.  It is a record of tables; a table maps   *)
(* the key of a row to what the row holds, the columns of users one table  *)
(* each.  Updates are handled one at a time, the jobs of the queue beside  *)
(* them.  A handler reads rows, works on its copy and commits the columns  *)
(* it changed, as the absolute values it computed: Answer and Commit.      *)
(* A job does the same: Run and JobCommit.  In a behaviour with racing     *)
(* FALSE the two do not overlap and each is one step.                      *)
(*                                                                         *)
(* A moment a column keeps (a cooldown, a shield, a sentence) is whether   *)
(* it is still ahead: clock[<<u, k>>]; time passes by Elapse.  The medals  *)
(* and the cartel's part of a handler are in Teams.                        *)
(***************************************************************************)
EXTENDS Integers, FiniteSets, FiniteSetsExt, Sequences, SequencesExt, Functions

CONSTANTS
  Users, NULL,
  StartCash, LevelReward,
  XpNeed,                   \* XpNeed[l]: xp_need(l); one more than its length is MAX_LEVEL
  HpTable,                  \* HP_TABLE
  MaxEnergy, PulseAmount, Stamina,   \* what a point of stamina adds
  Drinks, Drink,            \* Drink[k]: price, energy (NULL: a full tank), boost
  Skills, SkillMax, ResetCost,
  SkillPoints,              \* SkillPoints[l]: SKILL_BONUS_LEVELS.get(l, SKILL_POINT_PER_LEVEL)
  BankCap, BankPrice, BankMinLevel,  \* per level
  TrfMin, TrfMax,
  QuestDraws,               \* what a day may ask of a player
  SeedBase, SeedPerHome,    \* room for seeds: SHELTER_SEED_CAP_BASE, _PER_LEVEL
  ResCap,                   \* ResCap[r][h]: room for wood and iron with shelter level h
  FirstBonus, FirstGift     \* FIRST_*_BONUS; the wood and iron of the first harvest

QuestKinds == {"drink", "mine", "sellres", "plant", "harvest", "search", "shipment", "feed",
               "attack", "caravan"}
FirstTimes == {"mine", "plant", "harvest", "shipment", "plot"}

Timers == {"trf", "pending", "boost", "dead", "hit", "pv", "shield", "poison",
           "jail", "snitch", "window", "khaye", "search", "harvest", "mine", "away"}

VARIABLES
  db,
  mem,     \* what is kept in memory: see Streets
  op,      \* the handler that is between its reads and its commit
  job,     \* the job that is between its reads and its commit
  racing,  \* handlers and jobs overlap in this behaviour
  raced,   \* history: two sessions overlapped
  due      \* history: due[u], the energy u was given less what u spent

MaxLevel == Len(XpNeed) + 1
Levels   == 1 .. MaxLevel
VaultMax == Len(BankCap)
Idle     == [pc |-> "idle"]
Res      == {"wood", "iron"}

ASSUME AccountsAssumption ==
  /\ IsFiniteSet(Users) /\ NULL \notin Users \cup Nat
  /\ {StartCash, LevelReward, MaxEnergy, PulseAmount, Stamina, SkillMax,
      ResetCost, TrfMin, TrfMax, SeedBase, SeedPerHome} \subseteq Nat
  /\ XpNeed \in Seq(Nat \ {0}) /\ HpTable \in [Levels -> Nat \ {0}]
  /\ SkillPoints \in [2 .. MaxLevel -> Nat]
  /\ Drink \in [Drinks -> [price : Nat, energy : Nat \cup {NULL}, boost : BOOLEAN]]
  /\ BankCap \in Seq(Nat) /\ VaultMax > 0 /\ BankPrice \in Seq(Nat) /\ BankMinLevel \in Seq(Nat)
  /\ Len(BankPrice) = VaultMax - 1 /\ Len(BankMinLevel) = VaultMax
  /\ \A l \in 1 .. VaultMax - 1 : BankCap[l] <= BankCap[l + 1]
  /\ IsFiniteSet(Skills) /\ "stamina" \in Skills
  /\ \A r \in Res : \A h \in DOMAIN ResCap[r] : ResCap[r][h] \in Nat
  /\ FirstBonus \in [FirstTimes -> Nat] /\ FirstGift \in Nat

-----------------------------------------------------------------------------
(* Sessions.                                                               *)

\* What a commit writes: the rows its session changed.
Merge(now, read, new) ==
  [t \in DOMAIN now |->
    [k \in DOMAIN now[t] |-> IF new[t][k] = read[t][k] THEN now[t][k] ELSE new[t][k]]]

Rows == {"plot", "item", "dog", "ship"}   \* rows that are deleted

\* The UPDATE of a row another session deleted fails, and with it the commit;
\* a DELETE of it does not.
Stale(now, read, new) ==
  \/ \E t \in Rows : \E k \in DOMAIN now[t] :
       new[t][k] \notin {read[t][k], NULL} /\ read[t][k] # NULL /\ now[t][k] = NULL
  \/ \E x \in DOMAIN now.seed :
       /\ new.seed[x] # read.seed[x] /\ read.seed[x] > 0
       /\ now.life[x[1]] # read.life[x[1]] /\ new.life[x[1]] = read.life[x[1]]

\* now: the rows after the commit.  A wiped account begins with what it has.
Owed(now, read, new) ==
  [u \in Users |-> IF new.life[u] # read.life[u] THEN now.energy[u]
                   ELSE due[u] + new.energy[u] - read.energy[u]]

\* A handler that leaves memory m and would commit d.
AnswerWith(d, m) ==
  /\ op = Idle /\ mem' = m
  /\ IF racing
     THEN /\ op' = [pc |-> "open", read |-> db, new |-> d]
          /\ raced' = (raced \/ job # Idle)
          /\ UNCHANGED <<db, due>>
     ELSE db' = d /\ due' = Owed(d, db, d) /\ UNCHANGED <<op, raced>>
  /\ UNCHANGED <<job, racing>>

Answer(d) == AnswerWith(d, mem)

Commit ==
  /\ op # Idle /\ op' = Idle
  /\ IF Stale(db, op.read, op.new)
     THEN UNCHANGED <<db, due>>
     ELSE db' = Merge(db, op.read, op.new) /\ due' = Owed(db', op.read, op.new)
  /\ UNCHANGED <<mem, job, racing, raced>>

Run(d) ==
  /\ job = Idle
  /\ IF racing
     THEN /\ job' = [pc |-> "open", read |-> db, new |-> d]
          /\ raced' = (raced \/ op # Idle)
          /\ UNCHANGED <<db, due>>
     ELSE op = Idle /\ db' = d /\ due' = Owed(d, db, d) /\ UNCHANGED <<job, raced>>
  /\ UNCHANGED <<mem, op, racing>>

JobCommit ==
  /\ job # Idle /\ job' = Idle
  /\ IF Stale(db, job.read, job.new)
     THEN UNCHANGED <<db, due>>
     ELSE db' = Merge(db, job.read, job.new) /\ due' = Owed(db', job.read, job.new)
  /\ UNCHANGED <<mem, op, racing, raced>>

\* Time passes a moment some column keeps.
Elapse(u, k) ==
  /\ db.clock[<<u, k>>] /\ db' = [db EXCEPT !.clock[<<u, k>>] = FALSE]
  /\ UNCHANGED <<mem, op, job, racing, raced, due>>

\* The process dies: open sessions roll back, memory is lost.
Crash(m) ==
  /\ op' = Idle /\ job' = Idle /\ mem' = m
  /\ UNCHANGED <<db, racing, raced, due>>

\* round(n / m): half goes to the even neighbour.
Rounded(n, m) ==
  LET q == n \div m
      r == n % m
  IN  IF 2 * r > m \/ (2 * r = m /\ q % 2 = 1) THEN q + 1 ELSE q

Running(d, u, k) == d.clock[<<u, k>>]
Start(d, u, k)   == [d EXCEPT !.clock[<<u, k>>] = TRUE]
Stop(d, u, k)    == [d EXCEPT !.clock[<<u, k>>] = FALSE]

-----------------------------------------------------------------------------
(* Users.                                                                  *)

EnergyCap(d, u) == MaxEnergy + Stamina * d.skill[u]["stamina"]
HpMax(d, u)     == HpTable[d.level[u]]
FullHeal(d, u)  == [d EXCEPT !.hp[u] = HpMax(d, u)]
Pay(d, u, n)    == [d EXCEPT !.cash[u] = @ + n]

\* add_res: what has no room is lost.
ResRoom(d, u, r)   == Max({0, ResCap[r][d.home[u]] - d.res[<<u, r>>]})
Gained(d, u, r, n) == [d EXCEPT !.res[<<u, r>>] = @ + Min({n, ResRoom(d, u, r)})]

\* apply_energy_regen: a cap that fell takes what is above it.
Regen(d, u) == [d EXCEPT !.energy[u] = Min({@, EnergyCap(d, u)})]

SetPending(d, u, ask, value) ==
  [d EXCEPT !.pend[u] = [ask |-> ask, value |-> value], !.clock[<<u, "pending">>] = TRUE]
NoPending(d, u) ==
  [d EXCEPT !.pend[u] = [ask |-> "none", value |-> NULL], !.clock[<<u, "pending">>] = FALSE]

\* One level of add_xp: its points, its reward, a full tank and a full heal.
LevelUp(d, u) ==
  IF d.level[u] < MaxLevel /\ d.xp[u] >= XpNeed[d.level[u]]
  THEN LET l == d.level[u] + 1
           e == [d EXCEPT !.level[u] = l, !.xp[u] = @ - XpNeed[d.level[u]],
                          !.points[u] = @ + SkillPoints[l], !.cash[u] = @ + LevelReward * l]
       IN  FullHeal([e EXCEPT !.energy[u] = EnergyCap(e, u)], u)
  ELSE d

\* add_xp: as many levels as the experience is enough for.
AddXp(d, u, n) ==
  LET climb[l \in 0 .. MaxLevel] ==
        IF l = 0 THEN [d EXCEPT !.xp[u] = @ + n] ELSE LevelUp(climb[l - 1], u)
  IN  climb[MaxLevel]

CanSpendPoint(d, u, s) == d.points[u] >= 1 /\ d.skill[u][s] < SkillMax
SpendPoint(d, u, s)    == [d EXCEPT !.points[u] = @ - 1, !.skill[u][s] = @ + 1]

\* expected_skill_points
ExpectedPoints(l)    == SumFunctionOnSet(SkillPoints, 2 .. l)
PointsSpent(d, u)    == SumFunctionOnSet(d.skill[u], Skills)
CanResetSkills(d, u) == d.cash[u] >= ResetCost /\ PointsSpent(d, u) > 0
ResetSkills(d, u) ==
  [d EXCEPT !.cash[u] = @ - ResetCost, !.points[u] = @ + PointsSpent(d, u),
            !.skill[u] = [s \in Skills |-> 0]]

-----------------------------------------------------------------------------
(* Daily quests.  quest[u] maps what is asked to how much is left and what *)
(* it pays; dq_date has passed when quest[u] is NULL.                      *)

SeedRoom(d, u, c) == Max({0, SeedBase + SeedPerHome * d.home[u] - d.seed[<<u, c>>]})

\* try_add_seed
Seeded(d, u, c, n) == [d EXCEPT !.seed[<<u, c>>] = @ + Min({n, SeedRoom(d, u, c)})]

Reward(d, u, r) ==
  CASE r.type = "tp"   -> Pay(d, u, r.amount)
    [] r.type = "xp"   -> AddXp(d, u, r.amount)
    [] r.type = "seed" -> Seeded(d, u, r.crop, r.amount)

\* ensure_quests draws the day's quests the first time they are looked at.
Quested(d, u, draw) == IF d.quest[u] = NULL THEN [d EXCEPT !.quest[u] = draw] ELSE d

\* track, with the quests drawn
Progress(d, u, kind, n) ==
  IF kind \notin DOMAIN d.quest[u] \/ d.quest[u][kind].left = 0 THEN d
  ELSE LET q    == d.quest[u][kind]
           left == Max({0, q.left - n})
           e    == [d EXCEPT !.quest[u][kind].left = left]
       IN  IF left = 0 THEN Reward(e, u, q.pays) ELSE e

Track(d, u, kind, n, draw) == Progress(Quested(d, u, draw), u, kind, n)

\* render_dquests
QuestPage(u) == \E draw \in QuestDraws : db.quest[u] = NULL /\ Answer(Quested(db, u, draw))

\* Midnight: dq_date is no longer today.
DayOver(u) ==
  /\ op = Idle /\ job = Idle /\ db.quest[u] # NULL
  /\ db' = [db EXCEPT !.quest[u] = NULL]
  /\ UNCHANGED <<mem, op, job, racing, raced, due>>

-----------------------------------------------------------------------------
(* First times.                                                            *)

\* first_mine, first_plant, first_harvest, first_shipment, first_plot: the
\* gift of the first harvest does not look at the room.
FirstTime(d, u, k) ==
  IF k \in d.first[u] THEN d
  ELSE LET e == [Pay(d, u, FirstBonus[k]) EXCEPT !.first[u] = @ \cup {k}]
       IN  IF k # "harvest" THEN e
           ELSE [e EXCEPT !.res[<<u, "wood">>] = @ + FirstGift, !.res[<<u, "iron">>] = @ + FirstGift]

-----------------------------------------------------------------------------
(* Handlers of energy and skills.                                          *)

\* get_or_create and apply_energy_regen, all that a page commits
Page(u) == db.energy[u] > EnergyCap(db, u) /\ Answer(Regen(db, u))

Drunk(d, u, k) ==
  LET e == [d EXCEPT !.cash[u] = @ - Drink[k].price,
                     !.energy[u] = IF Drink[k].energy = NULL THEN EnergyCap(d, u)
                                   ELSE Min({EnergyCap(d, u), @ + Drink[k].energy})]
  IN  IF Drink[k].boost THEN Start(e, u, "boost") ELSE e

\* energy_buy_cb
BuyDrink(u, k, draw) ==
  LET d == Regen(db, u)
  IN  /\ Drink[k].energy # NULL => d.energy[u] < EnergyCap(d, u)
      /\ d.cash[u] >= Drink[k].price
      /\ Answer(Track(Drunk(d, u, k), u, "drink", 1, draw))

\* Mistake: the job reads the rows and writes them back.
PulseByRow ==
  Run([db EXCEPT !.energy =
         [u \in Users |-> Max({@[u], Min({EnergyCap(db, u), @[u] + PulseAmount})})]])

\* energy_pulse_job: one UPDATE of every row below its cap.
Pulse ==
  LET e == [u \in Users |->
             IF db.energy[u] < EnergyCap(db, u)
             THEN Min({EnergyCap(db, u), db.energy[u] + PulseAmount}) ELSE db.energy[u]]
  IN  /\ db' = [db EXCEPT !.energy = e]
      /\ due' = [u \in Users |-> due[u] + e[u] - db.energy[u]]
      /\ UNCHANGED <<mem, op, job, racing, raced>>

\* skill_up_cb
SkillUp(u, s) == CanSpendPoint(db, u, s) /\ Answer(SpendPoint(db, u, s))

\* skill_reset_execute: the cap falls, the energy above it stays until Regen.
SkillReset(u) == CanResetSkills(db, u) /\ Answer(ResetSkills(db, u))

-----------------------------------------------------------------------------
(* The bank.                                                               *)

VaultRoom(d, u) == Max({0, BankCap[d.vault[u]] - d.bank[u]})

CanDeposit(d, u, n)  == n > 0 /\ d.cash[u] >= n /\ d.bank[u] + n <= BankCap[d.vault[u]]
Deposited(d, u, n)   == [d EXCEPT !.cash[u] = @ - n, !.bank[u] = @ + n]
CanWithdraw(d, u, n) == n > 0 /\ d.bank[u] >= n
Withdrawn(d, u, n)   == [d EXCEPT !.bank[u] = @ - n, !.cash[u] = @ + n]

\* deposit_text and withdraw_text
DepositText(u, n)  == CanDeposit(db, u, n) /\ Answer(Deposited(db, u, n))
WithdrawText(u, n) == CanWithdraw(db, u, n) /\ Answer(Withdrawn(db, u, n))

\* bank_ask_cb and bank_transfer_start: nothing else is being asked.
BankAsk(u, ask) ==
  /\ db.pend[u].ask = "none"
  /\ ask = "trf_to" => ~Running(db, u, "trf")
  /\ Answer(SetPending(db, u, ask, NULL))

\* capture, "bankdep" and "bankwd": the question is over whatever comes of it.
BankAmount(u, n) ==
  LET d == NoPending(db, u)
  IN  \/ db.pend[u].ask = "bankdep" /\ Answer(IF CanDeposit(d, u, n) THEN Deposited(d, u, n) ELSE d)
      \/ db.pend[u].ask = "bankwd" /\ Answer(IF CanWithdraw(d, u, n) THEN Withdrawn(d, u, n) ELSE d)

\* bank_quick_cb: all of it, or half.
BankQuick(u, half) ==
  LET d == IF db.pend[u].ask \in {"bankdep", "bankwd"} THEN NoPending(db, u) ELSE db
      n == Min({d.cash[u], VaultRoom(d, u)})
      m == IF half THEN d.bank[u] \div 2 ELSE d.bank[u]
  IN  \/ Answer(IF CanDeposit(d, u, n) THEN Deposited(d, u, n) ELSE d)
      \/ Answer(IF CanWithdraw(d, u, m) THEN Withdrawn(d, u, m) ELSE d)

\* Mistake: the room of the other vault is not looked at.
CanTransferAnyway(d, u, v, n) ==
  v # u /\ n \in TrfMin .. TrfMax /\ ~Running(d, u, "trf") /\ d.bank[u] >= n

CanTransfer(d, u, v, n) ==
  /\ v # u /\ n > 0 /\ n \in TrfMin .. TrfMax
  /\ ~Running(d, u, "trf") /\ d.bank[u] >= n
  /\ n <= VaultRoom(d, v)

\* bank_transfer_execute.  Its cards stay in the chat: any may be pressed again.
Transfer(u, v, n) ==
  /\ CanTransfer(db, u, v, n)
  /\ Answer(Start([db EXCEPT !.bank[u] = @ - n, !.bank[v] = @ + n], u, "trf"))

\* capture, "trf_to": another player's account.
TransferTo(u, v) ==
  db.pend[u].ask = "trf_to" /\ u # v /\ Answer(SetPending(db, u, "trf_amt", v))

\* capture, "trf_amt": an amount that can be sent, or one that ends the question.
TransferAmount(u, n) ==
  /\ db.pend[u].ask = "trf_amt" /\ n \in TrfMin .. TrfMax
  /\ \/ Running(db, u, "trf")
     \/ n <= db.bank[u] /\ (n <= VaultRoom(db, db.pend[u].value) \/ VaultRoom(db, db.pend[u].value) = 0)
  /\ Answer(NoPending(db, u))

\* bank_upgrade_execute
BankUpgrade(u) ==
  LET l == db.vault[u]
  IN  /\ l < VaultMax /\ db.level[u] >= BankMinLevel[l + 1] /\ db.cash[u] >= BankPrice[l]
      /\ Answer([db EXCEPT !.cash[u] = @ - BankPrice[l], !.vault[u] = l + 1])

\* pending_sweep_job: numbers that were never given.
PendingSweep ==
  LET late(u) == /\ db.pend[u].ask \in {"bankdep", "bankwd", "resbuy", "trf_to", "trf_amt"}
                 /\ ~Running(db, u, "pending")
  IN  /\ \E u \in Users : late(u)
      /\ Run([db EXCEPT !.pend = [u \in Users |-> IF late(u) THEN NoPending(db, u).pend[u] ELSE @[u]]])

=============================================================================
