# teriaky: a TLA+ verification of the game's core

teriaky is a Persian Telegram game bot: players farm, trade, fight and form
cartels. It consists of two programs. The **main bot** (`bot.py`, `handlers/`,
`services/`, `models/`) runs on python-telegram-bot and SQLAlchemy; the
**cartel-war package** (`cartel_war/`) runs on aiogram, aiosqlite and
APScheduler. This directory models the parts in which several actors work on
shared state, checks them with TLC, and proves the most important results with
TLAPS.

Contents: [inventory](#inventory), [modules](#modules),
[runs](#runs), [bounds](#bounds), [fairness](#fairness-and-assumptions),
[proofs](#proofs), [divergences](#divergences-between-code-and-text),
[not modelled](#what-is-not-modelled), [plan](#plan).

## How the programs run

*Main bot.* `bot.py` builds the application without `concurrent_updates`, so
updates are handled **one at a time**. The JobQueue's jobs
(`handlers/jobs.py`) are tasks of their own on the same event loop: a job may
run between any two awaits of a handler and there is no lock anywhere. A
handler or job opens a SQLAlchemy session, reads a row at most once, keeps the
object, and the commit writes the **changed columns as plain values**. A DELETE
of a row that is already gone is only a warning. Much state (mines tables,
caravans, bosses, mining sessions, cooldowns, caches) lives in dictionaries and
is lost at a restart.

*Cartel war.* aiogram handles every update in a task of its own; each call
opens its own SQLite connection. A SELECT before the first DML statement runs in
autocommit, the DML up to `db.commit()` is one transaction. Only
`execute_attack` takes a lock, one `asyncio.Lock` per player. The jobs poll
once a minute with one instance each.

So in every module a **step is what runs between two awaits**: one read, one
transaction, or one change of an in-memory dictionary.

## Inventory

| component | state | operations | what is hard | what makes it correct | module |
|---|---|---|---|---|---|
| War lifecycle, `cartel_war/` | `cartel_wars` rows; `pending_war_id`, `daily_war_count`, `total_wars`, `war_wins` of cartels | request, accept, reject; expire, start and finish jobs; midnight reset | checks in one connection and writes by id in another; lists of due rows that go stale; restarts | one way through the lifecycle, one payment, no cartel blocked by a settled war | `CartelWar`, `WarPhases` |
| War attacks | score, `war_attack_logs`, cooldowns, medals, per-user locks | `execute_attack`, `finalize_war` | double taps, late attacks during the payout, members who change cartels, cut timestamps | cooldown, no attack lost, one side per player, medals once, right winner | `WarAttack` |
| Market, `services/market.py` | `market_listings`, cash and stock | offer, buy, cancel, gift, sweep | sweep beside handlers, reused ids, offers past their time | cash and goods conserved, offers return | `Market` |
| Mines, `services/mines.py` | dict `MINES`, cash, cooldown, `casino_tp` | arm, pick, cash out, cancel, sweep | dict and database change at different moments; the sweep's loop awaits; restart | stakes and payouts agree with results, nobody shut out | `Mines` |
| Teams, `services/teams.py` | teams, memberships, join requests, `TEAM_MINE_SESSIONS`, daily missions, weekly medals | create, join, accept, leave, kick, disband, mine together, rollover | capacity checked before insertion, sessions that outlive members, order of resets | one cartel per player, capacity, rewards once | `Teams` |
| Caravan and boss, `services/world.py`, `boss.py` | `CARAVANS`, `BOSSES`, hits | spawn, hit, settle, expire | the last hit awaits before it settles while a job looks for expired fights | a fight ends once and as what it was, hits and prizes paid once | `Raid`, `Fight` |
| Shipments, `services/smuggle.py` | `shipments`, cash, smuggler stock | load, deliver job, delay, seize | job beside handlers, second arrival of delayed loads, limit | paid once, limit | `Roads` |
| Accounts, bank, energy, `services/users.py`, `bank.py`, `energy.py` | users rows | transfer, deposit, upgrade, energy pulse, wipe, pending text input | bulk UPDATE against absolute writes; two rows of a transfer | capacity of the bank, skill points, no energy from nowhere | `Accounts`, `Town` |
| Player fights, `services/pvattack.py`, `battle.py`, `combat.py` | energy, shields, cooldowns, cash | attack, flee, shield | two rows of a fight beside jobs; blood, death and the dead flag apart | nobody stands without blood | `Streets` |
| Farm, mine, company, black market | plots, stock, tools, factories | plant, harvest, speed up, search, mine, build, collect, buy, sell | a plot or a seed wiped while a handler uses it | nothing counted falls below zero | `Works`, `Farm` |
| Dogs, shop, gear, quests, onboarding | users row | purchases, upgrades, feeding, rewards of the day | day keys, questions answered late | nothing counted falls below zero; quests that pay energy or experience | `Gear`, `Accounts` |
| Snitching and jail | `jailed_until`, jail cache | snitch, bail, gate | cache against transaction, restart | a prisoner is stopped | `Streets` |
| Engine, schema gate, backup | engine, `_schema_ready` | open, migrate, restore, merge | sessions wait 60 s and go on | no session on half a schema | none |
| Gates (`forcejoin`, `power`, `seen`) | `fj_member_status`, caches over `game_meta` | check, refresh, wipe | stale entries, the wipe beside handlers | grace kept, whole wipes | channel and jail gates: `Town`, `Streets` |
| Administration | none of its own | give, take, wipe, correct | beside everything else | the invariants of the rest | commands that change a player or a cartel: `Town`, `Teams` |
| Statistics, keyboards, texts | none of their own | rendering | none | out of scope | none |

Interaction: handlers call services inside one session; jobs call the same
services; services share `users` rows (cash, stock, medals) and the in-memory
dictionaries. The cartel-war package shares with the main bot the users' rows
only, and never writes `cartel_id`. `PROJECT.json` lists every hazard at its
line.

## Modules

**`WarPhases`**: the promise of the war lifecycle without tasks, clocks or
database: *absent, requested, answered, running, over*, and a credit of exactly
the two cartels at the last step.

**`CartelWar`** (`service.py`, `repository.py`, `scheduler.py`). The columns of
`cartel_wars` and `cartels` are functions. `op[h]` is what handler task `h` has
read; `expiring`, `starting`, `ending` are the row lists the jobs have fetched
and not yet worked through; `finalizing` is the war that `finalize_war` has
read. `InitiateReadOwn`/`InitiateReadTarget`/`InitiateCommit` are the three
database phases of `initiate_war_request`; `RespondRead` with `RespondDecline`
and `RespondAccept` those of `handle_war_response`; `FetchX`/`XOne` the jobs;
`MidnightReset` the reset. Deadlines are the flag `due[w]`: the code only ever
asks whether the deadline of the current status has passed. The winner is left
open here. Names, XP, leader notifications and menus are abstracted.

**`WarAttack`** (`execute_attack`, `finalize_war`). One active war with an
explicit clock; `Second` ticks make a second, so that the stored attack time,
cut by `strftime`, differs from `datetime.now()`. An attack is begin (lock, clock, war row),
check (player row, cooldown), draw (rosters, outcome), commit; a finalization is read,
two participant counts, commit. Opponent, combat power, TP and user
XP do not decide anything about the war and are left out; the outcome is a free
choice.

**`Market`**. `purse[u]` holds the columns of a user row the market touches,
`listing` the table by id, `op` what the handler's session has read, `sweep`
the sessions that run `sweep_expired` (the job's and the one of the market's
own pages) with the rows they hold and the columns they will write. `old` is
the set of offers past their 24 hours. Ids are given as SQLite gives them
without AUTOINCREMENT: one more than the largest in use. `overlaps` counts
sessions opened while another was open; conservation of goods is stated for
histories without overlap and conservation of cash for all.

**`Mines`**. `table` and `order` are the dict `MINES`, `cash`, `cooling`,
`casinoTp` the columns. `op` is the handler, `job` the sweep: the keys it has
still to look at, the row it awaits, the refunds its commit will write. `Resume` runs
the loop up to its next await and includes the `KeyError` of a key that is gone.
`StakesComeBack` and `CashMatchesHands` use the `casino_tp` statistic, kept only
for tracked players, as an independent record of each hand.

**`Fight`**: the promise of one group fight: it opens once, loses health while
it is open, and ends once, as *killed* without health, *fled* with some, or
*lost*.

**`Raid`**. One group with its caravan and its boss. `board[k]` is the entry of
`CARAVANS` or `BOSSES`, `cash` and `bullets` the rows, `cooling` the players
who have hit within the minute. A hit is begin (look at the board, read the row), strike or
miss, settlement of the last hit after an await, reading the rows of the
others, commit; a job expires (`CaravanExpire` pays the best hitters,
`BossExpire` nobody), plans, commits the plan and spawns after further awaits;
the administrator spawns at once. A session is a `Bill`: the rows to read, the
values read, what is added to them. The next spawn overwrites a board that
is killed but not yet settled; such a fight ends *lost*. Gems, seeds, parts and XP
are further columns of the same rows, the click debounce and the boards'
messages are left out.

**`Teams`** (`services/teams.py`, `handlers/team.py`). `db` is the committed
database: the columns of users, teams, memberships, requests, daily quests, chat
and `game_meta` that cartels use, one field each. `sess` and `renaming` are
`TEAM_MINE_SESSIONS` and `user_data`. A handler is one step, except
`RequestRead`/`RequestCommit` and `AcceptRead`/`AcceptCommit` (`op`), between
which the job that wipes an account (`WipeBegin`, `WipeCommit`; `job`) would
change what is written. `earned` and `paid` are histories: medals by week of
the present cartel, and payments of today's quests by id. A name waits in the
pending columns of the user between question and confirmation, as in the code.
`Migrate` is the change of the experience curve, `ShowTop` the ranking whose
page settles a finished week.

**`Accounts` ← `Works` ← `Farm` ← `Roads` ← `Gear` ← `Streets` ← `Town`**: the
rest of the main bot's accounts, one component a module. Each EXTENDS the one
before it, because all of them work on one database: `db` is a record of tables,
a table a function from the key of a row (or player) to what it holds.

- `Accounts`: sessions; energy, experience, skills, quests of the day, bank and
  transfers, questions that wait for a text (`pend`). `Works`: mine trips, tools,
  factories, the black market. `Farm`: plots, seeds, harvest, searches, the
  house. `Roads`: shipments and the smuggler's caravan. `Gear`: shop, upgrades,
  dogs. `Streets`: group hits, private attacks, shields, healing, snitching,
  jail and its gate. `Town`: the channel gate, the wipe of an account, the
  administrators' commands, `Next`.
- A handler computes the database it would commit and hands it to `Answer`;
  `Commit` writes the columns that differ from those read (`Merge`), and fails
  when it updates a deleted row (`Stale`). `Run` and `JobCommit` are the same for
  a job. With `racing` FALSE the two are one step each; with TRUE a job may run
  between a handler's reads and its commit. `raced` remembers that they did.
- A moment a column holds (cooldown, shield, sentence, poison) is the flag
  `clock[<<u, k>>]`, true while it is ahead; `Elapse` lets it pass. Random draws
  are parameters of the action.
- `life[u]` counts the wipes, so that a commit can tell the row's next life from
  its first. `mem` is the cache of the jail gate. `due[u]` is a
  history of the energy given to `u` less the energy spent since the last wipe.
- `Next` groups the actions: `Account`, `Work`, `Land`, `Trade`, `Outfit`,
  `Violence` behind the gate (`Passes`), `Answers` that pass it, `Admin`, `Jobs`,
  `Time`.

**`MC...`** modules give the constants of the small instances. In `MCTeams` and
`MCTown` a behaviour has a *theme*, which fixes the accounts it begins with (ones the
handlers can reach) and the handlers and jobs it uses; every step of theirs is a
step of `Teams` or `Town`.
**`...Proofs`** modules hold the theorems of the component they are named
after, and **`Sums`** what all of them use of sums over finite sets.

## Runs

| run | asks | shows |
|---|---|---|
| `cartel_war` | types; `PendingNamesLiveWar`; `LedgerMatchesWars`; `StartedWarRunsToItsEnd`; `ImplementsWarPhases`; `EveryWarSettles`; `CartelsAreReleased` | holds: late answers and stale job lists can change the verdict on a request, but never block a cartel, pay a war twice, call off a started war or leave one unsettled |
| `cartel_war_quota` | `QuotaPaidOnlyForWars` | violated, see below |
| `war_attack` | types; `CooldownRespected`; `ScoreMatchesLog`; `NeverBothSides`; `MedalsPaidOnce`; `WinnerLedTheScore` | holds; attacks that commit after the job has read the war stay in score and log but do not change the winner |
| `market` | types; `MoneyConserved`; `GoodsConserved`; `OffersLeaveTheTable` | holds; the sweep writes only stock columns, which is why a stale seller row loses no cash |
| `mines` | types; `CashMatchesHands`; `TablesAreCleared` | holds; a restart costs at most the stakes on the table |
| `mines_stake` | `StakesComeBack` | violated, see below |
| `raid` | types; `BoardsArePaid`; `ImplementsFight`; `FightsLeave` | holds: the killer and the expiry job never both settle a fight, nobody is paid more than the boards say, a fight nobody finishes leaves through its job |
| `raid_bullets` | `BulletsHit` | violated, see below |
| `teams` | types; `CartelsAreWhole`; `NamesDiffer`; `QuestsPayOnce`; `MiningIsDue`; `CountedWasEarned`; `RoomIsKept`; `LeadersStay`; `XpIsKept` | holds: neither waiting names, many open requests, returning ids nor members who come and go during a common mining break a cartel |
| `teams_week` | `MostMedalsWin` | violated, see below |
| `town` | `TownOK` (types and signs); `EnergyIsEarned`; `AccountsHold`; `FallenAreDead`; `JailHolds`; `LoadsArePaid`; `LoadsArrive` | holds: the bulk energy pulse gives no energy twice, loads are paid once and arrive in spite of restarts and wipes, no way of losing or regaining blood leaves a player standing without any, a sentence stops its player although the gate reads a cache |
| `town_update` | `SpendersStay` | violated, see below |

Some properties of `teams` and `town` exempt behaviours in which two sessions
overlapped (`raced`). There the code's absolute writes really do overwrite one
another (see the observations below), and no text of the repository promises
otherwise. What holds in spite of overlaps is stated without the exemption:
`TownOK`, `JailHolds`, the limit of `AccountsHold` on the road, `LoadsArrive`,
and `EnergyIsEarned` for players who were not wiped.

Every property of a passing run has a mutant in `PROJECT.json`: a plausible
mistake in one definition of the model under which TLC finds the property
violated. The mistaken forms stand, marked as such, before the right ones.

## Bounds

*CartelWar*: two cartels with a leader each and one player without a cartel,
two requests, two handler tasks, one restart (about 391,000 states). The races are pairwise: two
answers to one request, two crossing requests (each the other's target), an
answer and a job, a job and the next request of a released cartel. Two requests
over two cartels contain all of them, and requests may follow each other after
a midnight reset. Runs with a larger number of cartels are covered for the
safety properties by the proofs.

*WarAttack*: a player per side, two tasks, so two taps of one player or one of each;
one change of cartel, one restart; a clock of four ticks with a
cooldown of three and two ticks a second, which lets a player attack twice and
makes the cut second visible; the defender's cartel is five larger, so the 15%
balance applies (about 2.5 million states). The clock is bounded, so the run
allows deadlock.

*Market*: two players with one piece of each kind, one uncapped kind (`part`)
and one capped (`wood`, limit one), two ids, one open offer each, one overlap of
two sessions (about 182,000 states): a sale, a sweep and a cancellation of the
same offer, returning ids, a full store.

*Mines*: a tracked and an untracked player, two safe tiles paying less and more
than the stake, three hands, one restart (about 329,000 states). `MinesStake`
tracks both and has no restart.

*Raid*: two players and one place on the prize list, so one hitter goes without; health two and damage one or
two, so a kill by one hit, by two, and beyond zero; one bullet; two planned
fights, of one kind or of both; one restart (about 796,000 states). Fights are bounded, so the
run allows deadlock.

*Teams*: four players, two cartel ids, three names, places for two and four, two
levels, weeks of two days, three days, one restart (about 168,000 states over seven
themes): a third player joins a full cartel, an owner leaves or disbands and the id
comes back, a member earns before and after joining, a week turns, quests of
both levels are drawn and filled. The week's run uses its theme only. Days and
ids are bounded, so these runs allow deadlock.

*Town*: two players and sixteen themes (about 156,000 states). The third level gives two skill points. Three ids for
shipments, two of a player on the road at once, clean, delayed or met by the police; levels up to three, two kinds of
crops (one legendary), two weapons, two armours, a bank of two levels. The themes
`energy`, `roads`, `jail` and `channel`, in which a job meets a handler, have
overlapping sessions and restarts; the others take each session as one step,
as updates are handled one at a time. `MaxCash` bounds only how much an
administrator or a repeated trip may pile up, and `Unwiped` lets an account be
cleared once. A theme may run out of things to
do, so the run allows deadlock. `TownUpdate` uses the administrators' theme only.

## Fairness and assumptions

- *Deadlines pass* and *awaits return* (weak fairness of time and of steps that
  are in progress).
- *Jobs recur*: APScheduler intervals and JobQueue repeat for ever. In `Market`
  the sweep's start is strongly fair, because the bound on overlaps may disable
  it while a handler runs, which the code does not.
- *Nobody must press a button*: no player action is fair.
- `CartelWar` assumes that a response between its read and its commit, and one pass of the
  pending job, do not last the 30 minutes of the start delay
  (`StartTimeComes`). Without it a response of an hour ago could overwrite a
  war that is being fought.
- `Mines` assumes that the commit of the handler that arms a table does not last
  the table's time to live.
- `Raid`: a caravan is due again three hours after the last one began, long after the
  ten minutes it lives (`DueComes`); a boss is due by its daily plan, whatever
  became of the earlier one. Lifetimes, jobs and handlers in progress are fair,
  hits and new spawns are not.
- `WarAttack` assumes that a war is not longer than the membership an attack
  needs (6 h and 24 h) and that the cooldown is at least a second. The code
  has no writer of `cartel_id` inside `cartel_war/`; `ChangeCartel` models the
  host program as writing the membership date with it.
- `Town`: a handler goes on until it commits (weak fairness of `Commit`), and time
  passes on the road (`RoadOver`). The shipment job runs every minute and
  handlers cannot keep it from running for ever; a restart does not strike each
  time it commits (strong fairness of `ShipmentJob` and `JobCommit`).
- `Teams` and `Town` assume no fairness of players.
- Locks of the database delay commits and change nothing else. Failing commits
  are not modelled.

## Proofs

For **every** set of cartels, players, offers, requests and tasks and any
number of restarts. The constants only have the named assumptions of their
modules: ranges of the numbers, that `NULL` is none of the values it stands
beside, the relations listed above, and, where a property counts or adds up,
that the players are finitely many.

| theorem | states |
|---|---|
| `CartelWarProofs!TypeCorrect`, `PendingAlwaysLive`, `LedgerCorrect` | `TypeOK`, `PendingNamesLiveWar`, `LedgerMatchesWars` |
| `CartelWarProofs!StartedWarsFinish` | `StartedWarRunsToItsEnd` (action property) |
| `CartelWarProofs!WarPhasesImplemented` | `ImplementsWarPhases`: the jobs and handlers implement `WarPhases` |
| `WarAttackProofs!TypeCorrect`, `CooldownHolds`, `OneSidePerPlayer` | `TypeOK`, `CooldownRespected`, `NeverBothSides` |
| `WarAttackProofs!ScoreIsTheLog`, `MedalsAreEarned`, `WinnerLeadsTheScore` | `ScoreMatchesLog`, `MedalsPaidOnce`, `WinnerLedTheScore` |
| `MarketProofs!TypeCorrect`, `MoneyIsConserved`, `GoodsAreConserved` | `TypeOK`, `MoneyConserved`, `GoodsConserved` |
| `MinesProofs!TypeCorrect`, `CashAlwaysMatches` | `TypeOK`, `CashMatchesHands` |
| `MinesProofs!KeysAreTables` | the order of the dict names exactly the players with a table, each once |
| `RaidProofs!TypeCorrect`, `BoardsAlwaysPay` | `TypeOK`, `BoardsArePaid` |
| `RaidProofs!FightsAreFights` | `ImplementsFight`: caravans and bosses implement `Fight` |
| `TeamsProofs!TypeCorrect`, `NamesNeverMeet`, `QuestsArePaidOnce` | `TypeOK`, `NamesDiffer`, `QuestsPayOnce` |
| `TeamsProofs!CartelsStayWhole`, `MedalsWereEarned`, `MiningStaysDue` | `CartelsAreWhole`, `CountedWasEarned`, `MiningIsDue` |
| `TeamsProofs!RoomIsAlwaysKept`, `LeadersAlwaysStay`, `NoXpGetsLost` | `RoomIsKept`, `LeadersStay`, `XpIsKept` (action properties) |
| `TownProofs!Types`, `TownIsOK` | types of every table, session and cache; `TownOK` |
| `TownProofs!TheJailHolds`, `EnergyStaysEarned` | `JailHolds`, `EnergyIsEarned` |
| `TownProofs!AccountsAreSound`, `TheFallenAreDead` | points, vault and blood of every account fit together; `FallenAreDead` |
| `TownProofs!TheRoadHolds`, `TheAccountsHold`, `TheLoadsArePaid` | no slot of the road is lost or given twice; `AccountsHold`; `LoadsArePaid` (action property) |

*Sums.* The provers cannot instantiate an induction principle that has an
operator for a parameter, so induction is stated about sets: a set of numbers that has 0
and the successor of each of its members has every number
(`NumberInduction`, from the well-founded order of the naturals), and likewise for the
finite subsets of a set (`SetInduction`). With these the recursive function
behind `SumFunctionOnSet` gets its equation, the choice of the element it takes
first is shown not to matter (`SumRemove`), and the rest follows: one
summand changes, two sums add, one account pays another.

*CartelWar.* `PendingNamesLiveWar` is not inductive: a response or a job writes
by id on the strength of an old read. `IInv` adds what the old reads still
guarantee: a war in a response or in `expiring` has not started
(`StaleViewsInv`), wars in `starting` are scheduled and due
(`StartingInv`), wars in `ending` or `finalizing` are active and in one of them
only (`EndingInv`), and the two parties of a war differ (`PartiesInv`). `StaleViewsInv` is where the
assumption on the start delay is used. The action property and the refinement
follow from `IInv` and one lemma on how a step may change a status
(`StepShapes`); the ledger from a second invariant
(`LedgerInv`: a war that is not finished has no winner) and from facts on the cardinality of the
set of finished wars.

*WarAttack.* The cooldown needs `LockInv` (a task in flight holds its player's
lock, so a player has one), `WaitedInv` (the wait a task has checked still
holds at its commit), `LastInv` (no logged attack is newer than the stored time) and `StoredRange`
(cutting loses less than a second). `NeverBothSides` needs `ClockInv`,
`MoveInv` and `SideInv`: whoever has moved joined after the war began and
cannot reach the 24 hours within it. The books are `Tally` and `Settled`:
the score is the log's, what `finalize_war` has read is the score of the timely
attacks, a winner it has decided on leads in them, and a finalization in flight
means a war not yet finished. The last is what makes the bonus single.

*Market.* `TypeInv` adds to the types what a handler has checked
(`ChecksInv`: it gives no more than it read), that only open offers are old, and that a
sweep writes only columns of rows it holds. Cash needs one more fact
(`CashInv`): the sweep never writes cash, so the cash a handler has read is still
there. Goods, for histories without overlap, need `AloneInv`: one session at
a time, whose rows are the database's, and a balance over the rows *as they
will be when the open sweep commits* (`After`, `Left`) instead of as they are.

*Mines.* `Keys` relates the two halves of the dict. Without overlap (`Alone`)
one session runs; the handler's row is the database's; the sweep holds, beside
the tables it has still to look at, the refunds it owes, each the player's
cash and the stake with the table already gone; and `Balanced`, the property
with these refunds counted in, of which the property is the case of an idle bot.

*Raid.* Types need that every row a session will write has been or will be
read (`BillOk`) and that the handler of a click still has its bullet. The
refinement needs that a fight is in one place only, planned, on a board or left
(`Ids`), and that the board the killer's handler finds when it settles is killed, or one
nobody has hit, which it leaves alone (`Dead`); each action then moves at most one fight by a step of `Fight`. The
payment is a bound that stale reads cannot break (`Within`): whatever a
session has read, and whatever is in the row, plus all that is still to be
written, is at most what the boards say. Without overlap and restart (`Exact`) it
is exactly that.

*Teams.* One lemma says for every handler what it leaves alone (the *step
shapes*: names, seats, experience, medals), so that each property meets only
the few actions that can disturb it. Beside the types, `NameGiven` says that whoever
is asked to confirm a cartel has given its name. `QuestsPayOnce` needs that a payment is
marked in the cartel's day (`MarkedIsPaid`). `RoomIsKept` and `LeadersStay` are about one step and need what an
acceptance that waits for its commit has read (`SeatIsFree`); wholeness needs
the same for sessions and for the wiping job (`Remembered`). `XpIsKept` needs
that no cartel stands at a level whose points it has (`NoneWaits`). The medals need the
bound for every week, not only the one about to be settled, no bucket of a week to come, and that an
acceptance has read all the medals its player has (`MedalsAreOwn`).

*Town.* Some eighty actions share one record of thirty-six tables, so the proof is
about updates first and about actions last. A table is known by its column's
type (`Typed`); one lemma a helper says which columns it touches (`Frame`) and
that it is *calm*: types kept, no load set out, no sentence changed, and an account whose
points, vault and blood fitted together still fits (`Calm`; `Steady` where blood is
lost). A handler is a chain of such helpers and thereby calm; the few that are not
(levels, skills, the bank, blows, revivals, wipes, sentences, loads) get what they
really do. `Handled` and `Worked` say it once for all handlers and all jobs, and
`Steps` reduces `Next` to those two, the pulse, time, the gate's reloads, the
two commits and a restart; each property is then proved over these ten
cases.

- *Accounts.* What must be carried is what an open session knows: unless it
  races, the columns it read are the database's (`Alone`), so that a commit
  installs an account that fits because the one it read did.
- *Points.* `ExpectedPoints` is a sum over the levels; each rise adds its own
  summand (`ExpectedGrows`). The update command gives points to those who have
  spent on stamina only (`StaminaOnly`), so the history `again` is what they had spent.
- *Energy.* `EnergyIsEarned` is about racing sessions, where the commit subtracts
  from what it read and the pulse has raised the row meanwhile. `EnergyInv` bounds the
  row and what the open handler read by `due`; a wipe begins a new count, which is
  why racing accounts are only counted until their first wipe. A job gives or
  spends no energy except by wiping (`Sparing`).
- *Jail.* `JailInv` keeps two promises apart: a sentence about to commit is in
  the cache already; a prisoner missing from the cache is being freed by a
  commit that cannot fail, because the bribe writes no row that could be gone.
- *Road.* Handlers only put loads on free slots and jobs only take them off, so a slot found
  free stays free and a row a job read is still there (`RoadInv`); the limit
  follows by counting. `PayInv` adds that the job's purses are current unless it
  raced; the payment itself is an induction over the slots, whose sum grows by one load at a
  time.

The proof depends on details that no small instance shows: the count of
lives belongs to the row's identity, `due` starts again at a wipe, a vault's next level holds
no less (`AccountsAssumption`; `BANK_CAPS` of `config.py` grow), `NULL` is no row
of a shipment, and an attacker's own shield falls before the victim's is looked at.

*Only model-checked*: `EveryWarSettles`, `CartelsAreReleased`,
`OffersLeaveTheTable`, `TablesAreCleared`, `FightsLeave`, `LoadsArrive`
(liveness under fairness is outside this prover), and the properties the code
violates. Every invariant and action property of a passing run is
proved.

## Divergences between code and text

1. **A rejected request that costs the quota.** `service.py:147` says a
   rejection spends no daily quota. The accept and the reject button, pressed
   together, are two tasks that both read `PENDING`; the acceptance charges both
   cartels, the rejection then overwrites `SCHEDULED` (`cartel_war_quota`).
2. **Stakes that do not come back.** `mines.py:191` says expired tables get
   their whole stake back. `sweep_expired` walks over a copy of the keys and
   awaits in the loop; when a click has closed a later table meanwhile,
   `g = MINES[tg]` raises, the session is rolled back, and the tables already
   deleted from the dict are gone without a refund (`mines_stake`).
3. **Bullets without a hit.** `handlers/world.py:403` says every hit on the
   caravan costs one bullet. `caravan_hit_cb` takes the bullet before
   `caravan_attack` judges the hit and commits either way; its early look at the
   cooldown uses the Telegram id where the dict has the row's id, so a second
   click within the minute always gets that far (`raid_bullets`). The boss's
   handler takes the bullet after the hit.
4. **The weekly prize goes to those who were still idle.** `services/teams.py:970`
   says the first three cartels *by the medals of the week's members* get the
   prizes. The week is settled by the first handler that calls
   `maybe_weekly_rollover`, and counts the members' weekly buckets as they
   then are (`teams.py:985`). A member who earns a medal in the new week first
   turns the own bucket over (`services/users.py:359`), and
   harvesting, for one, awards them before it settles the week
   (`services/farming.py:281`), so that cartel loses what it earned (`teams_week`).
5. **Skill points given twice.** `handlers/admin.py:299` says the update brings
   the points of those who have spent none to what their level gives and leaves the
   others alone. Its query looks at four of the five skill columns
   (`skill_stamina` is missing), so who has spent on stamina only keeps the skill
   and gets all points again (`town_update`). `AccountsHold` counts these
   points apart (`again`), so that every other way of making or losing a
   point still breaks it.

Seen while modelling, where no text says otherwise or where it can be read either
way:

- `Market`: `buy_listing` does not look at the age of an offer, so a lapsed one is sold
  until the next sweep, at most five minutes later. `README.md:650` of the
  repository says a void offer is refused, which can also mean one that is gone.
  The model's buyer may take old offers too.
- `Raid`: between the killing blow and its settlement the job or the administrator
  may replace the board, and the prizes of the killed fight are lost.
- The jail gate looks at commands and buttons. A text that answers a question
  asked before the arrest (a bank transfer, an amount to sell) passes it.
- `pv_attack` drops the attacker's own shield and pays for breaking the victim's before its
  last refusals; the commit keeps both.
- `fj_wipe_job` wipes a player who comes back to the channel between its SELECT and its
  commit, and the wipe of one session overwrites or mixes with what another
  writes.
- `wipe_account` calls itself a complete reset. Products, shipments, gems, the stock of
  factories and the snitch's count stay.
- The upgrade button of a factory's old card builds the factory anew after a wipe, without
  the level that building it asks for.

## What is not modelled

- Formatting, texts, keyboards, paging, statistics and ranking pages: no state of
  their own. Numeric tables (prices, yields, multipliers of weapons) are
  constants, and chances are free choices.
- `tests_smoke.py`, `config.py` and the keyboards are more than two fifths of the
  source lines and hold no behaviour to model, which bounds the share of lines
  any model of this repository can stand for.
- Weather and the market's daily rates: they scale growth times, yields and prices, which
  the models leave open. The power gate, the `_SEEN` registry and the cache of
  memberships: they refuse or repeat reads and write nothing the models hold.
- Backup, restore, merge and the migration of the schema: tools over files, run while
  no handler works; the gate that waits for them is in the plan.
- Text commands that call the same services as a button, the renaming of a dog,
  congratulations.
- Telegram's delivery: the libraries hand over each update once.
- `WarAttack`'s and `Raid`'s opponents, combat power, parts and seeds: they
  decide nothing that the properties name.

## Plan

1. `SchemaGate`: sessions wait 60 s for the schema and go on without it.
2. Commits that fail in `Mines`, where the dict and the row then disagree.
3. The cards of the market whose offer's id has been given again.
4. What a refinement would say more of: a bank that refines one of whole
   transfers, and mines tables that refine a hand that is played once.
