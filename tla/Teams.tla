--------------------------------- MODULE Teams ---------------------------------
(***************************************************************************)
(* The cartels of the main bot: services/teams.py and handlers/team.py.    *)
(*                                                                         *)
(* db is the committed database: the columns of users, teams,              *)
(* team_members, team_requests, team_daily, team_chat_messages and         *)
(* game_meta that cartels use.  TEAM_MINE_SESSIONS and user_data are in    *)
(* memory.  Updates are handled one at a time, so a handler is one step,   *)
(* except where the job that wipes accounts (fj_wipe_job) can come between *)
(* its reads and its commit and would change what it writes.               *)
(* Texts, the buckets of the day and the points shown on boards are left   *)
(* out; legendary seeds of a quest are a further column of who is paid.    *)
(***************************************************************************)
EXTENDS Integers, FiniteSets, FiniteSetsExt, Functions, Sequences

CONSTANTS
  Users, Names, NULL,
  MaxId,        \* bound on teams.id
  StartCash, CreateCost, RenameCost,
  JoinLevel, CreateLevel,   \* TEAM_JOIN_MIN_LEVEL, TEAM_CREATE_MIN_LEVEL
  Cap,          \* TEAM_CAP_TABLE
  Need,         \* Need[l]: team_xp_need(l)
  OldNeed,      \* the same by TEAM_XP_CURVE_MIGRATION_FROM
  Quests,       \* keys of TEAM_QUESTS
  Drawn,        \* Drawn[<<t, d, l>>]: daily_quests(t, l, d), what each key asks and pays
  PerMiner,     \* TEAM_MINE_PER_MIN .. TEAM_MINE_PER_MAX
  WeekPrize,    \* TEAM_WEEKLY_PRIZES
  Price,        \* TEAM_BUILDING_PRICES
  History,      \* TEAM_CHAT_HISTORY
  DaysPerWeek,
  LastDay,      \* bound on the days
  MaxCrashes    \* bound on the restarts

Ids      == 1 .. MaxId
Days     == 0 .. LastDay
MaxLevel == Len(Cap)
Levels   == 1 .. MaxLevel
Week(d)  == d \div DaysPerWeek
Weeks    == 0 .. Week(LastDay)

Member  == [team : Ids, role : {"owner", "admin", "member"}, since : Days, base : Nat]
Team    == [name : Names, owner : Users, bank : Nat, level : Levels, xp : Nat,
            atk : Nat, def : Nat, cooling : BOOLEAN, hidden : BOOLEAN, bio : BOOLEAN]
Medals  == [all : Nat, week : Nat, id : Weeks \cup {NULL}]
Session == [who : SUBSET Users, needed : Nat, late : BOOLEAN]
Pending == [ask : {"none", "teamname", "teamcf", "teamkick", "teamchat"},
            name : Names \cup {NULL}]   \* pending_action, pending_value

ASSUME TeamsAssumption ==
  /\ IsFiniteSet(Users)
  /\ NULL \notin Users \cup Names \cup Nat \cup Member \cup Team \cup Session
  /\ {MaxId, StartCash, CreateCost, RenameCost, LastDay, MaxCrashes} \subseteq Nat
  /\ {JoinLevel, CreateLevel, DaysPerWeek, History} \subseteq Nat \ {0}
  /\ Cap \in Seq(Nat \ {0}) /\ MaxLevel \in Nat \ {0}
  /\ Need \in [Levels -> Nat \ {0}] /\ OldNeed \in [Levels -> Nat \ {0}]
  /\ Price \in Seq(Nat) /\ WeekPrize \in [1 .. 3 -> Nat] /\ PerMiner \subseteq Nat
  /\ \A x \in Ids \X Days \X Levels :
       \A k \in DOMAIN Drawn[x] :
         /\ k \in Quests
         /\ Drawn[x][k] \in [target : Nat \ {0}, reward : Nat, bank : Nat]

VARIABLES
  db,
  sess,      \* TEAM_MINE_SESSIONS
  renaming,  \* user_data["pending_team_rename"]
  op,        \* the handler that is between its reads and its commit
  job,       \* the player whose account fj_wipe_job is wiping
  today,     \* iran_today(); the week follows from it
  raced,     \* history: a handler and the job overlapped
  earned,    \* history: earned[u][w], medals of week w as a member of the present cartel
  paid,      \* history: paid[t][k], how often quest k of today was paid to cartel id t
  crashes

memory  == <<sess, renaming>>
history == <<raced, earned, paid>>
vars    == <<db, memory, op, job, today, history, crashes>>

Daily   == [prog : [Quests -> Nat], done : SUBSET Quests]
NewDay  == [prog |-> [k \in Quests |-> 0], done |-> {}]

Idle == [pc |-> "idle"]
Ops  == {Idle} \cup [pc : {"requesting"}, who : Users, team : Ids]
               \cup [pc : {"accepting"}, who : Users, team : Ids, base : Nat]

Database ==
  [cash     : [Users -> Nat],
   level    : [Users -> Nat \ {0}],
   medals   : [Users -> Medals],
   pend     : [Users -> Pending],
   team     : [Ids -> Team \cup {NULL}],
   member   : [Users -> Member \cup {NULL}],
   request  : SUBSET (Ids \X Users),
   daily    : [Ids -> Daily],
   chat     : [Ids -> {c \in Seq(Users) : Len(c) <= History}],
   weekKey  : Weeks \cup {NULL},
   regraded : BOOLEAN]

TypeOK ==
  /\ db \in Database
  /\ sess \in [Ids -> Session \cup {NULL}] /\ renaming \in [Users -> Names \cup {NULL}]
  /\ op \in Ops /\ job \in Users \cup {NULL} /\ today \in Days
  /\ raced \in BOOLEAN /\ earned \in [Users -> [Weeks -> Nat]]
  /\ paid \in [Ids -> [Quests -> Nat]] /\ crashes \in 0 .. MaxCrashes

Ask(a)   == [ask |-> a, name |-> NULL]
NoMedals == [all |-> 0, week |-> 0, id |-> NULL]

NewDb ==
  [cash     |-> [u \in Users |-> StartCash],
   level    |-> [u \in Users |-> 1],
   medals   |-> [u \in Users |-> NoMedals],
   pend     |-> [u \in Users |-> Ask("none")],
   team     |-> [t \in Ids |-> NULL],
   member   |-> [u \in Users |-> NULL],
   request  |-> {},
   daily    |-> [t \in Ids |-> NewDay],
   chat     |-> [t \in Ids |-> <<>>],
   weekKey  |-> NULL,
   regraded |-> FALSE]

InitMemory ==
  /\ sess = [t \in Ids |-> NULL] /\ renaming = [u \in Users |-> NULL]
  /\ op = Idle /\ job = NULL

InitHistory ==
  /\ raced = FALSE /\ earned = [u \in Users |-> [w \in Weeks |-> 0]]
  /\ paid = [t \in Ids |-> [k \in Quests |-> 0]]

Init == db = NewDb /\ InitMemory /\ InitHistory /\ today = 0 /\ crashes = 0

-----------------------------------------------------------------------------
(* Queries.  Each takes the database d as its session sees it.             *)

Members(d, t)   == {u \in Users : d.member[u] # NULL /\ d.member[u].team = t}
HasTeam(d, u)   == d.member[u] # NULL /\ d.team[d.member[u].team] # NULL
Owns(d, u)      == d.member[u] # NULL /\ d.member[u].role = "owner"
IsManager(d, u) == d.member[u] # NULL /\ d.member[u].role \in {"owner", "admin"}
Taken(d, n)     == \E t \in Ids : d.team[t] # NULL /\ d.team[t].name = n
Capacity(d, t)  == Cap[d.team[t].level]

\* An id of a deleted row that was the largest is given again.
NewId(d) == 1 + Max({0} \cup {t \in Ids : d.team[t] # NULL})

CanCreate(d, u) ==
  d.level[u] >= CreateLevel /\ d.member[u] = NULL /\ d.cash[u] >= CreateCost

\* Mistake: an admin may kick anyone.
CanKickAnyone(d, me, v) == TRUE

CanKick(d, me, v) ==
  d.member[v].role # "owner" /\ (d.member[me].role = "owner" \/ d.member[v].role = "member")

\* Mistake: the name is not looked up again at the confirmation.
CanRenameUnlooked(d, u, n) == Owns(d, u) /\ HasTeam(d, u) /\ d.cash[u] >= RenameCost

CanRename(d, u, n) ==
  /\ Owns(d, u) /\ HasTeam(d, u)
  /\ ~Taken(d, n)
  /\ d.cash[u] >= RenameCost

-----------------------------------------------------------------------------
(* What the services do to the database.                                   *)

Fire(d, us) == [d EXCEPT !.member = [u \in Users |-> IF u \in us THEN NULL ELSE @[u]]]

\* Mistake: the requests stay.
DisbandedRequestsStay(d, t) == [Fire(d, Members(d, t)) EXCEPT !.team[t] = NULL]

\* disband_team: members by cascade, requests by statement; team_daily and
\* the chat keep their rows.
Disbanded(d, t) ==
  [Fire(d, Members(d, t)) EXCEPT !.team[t] = NULL,
                                 !.request = {r \in @ : r[1] # t}]

\* wipe_account; the player's requests to other cartels stay.
Wiped(d, u) ==
  LET t    == d.member[u].team
      left == IF d.member[u] = NULL THEN d
              ELSE IF Owns(d, u) /\ HasTeam(d, u)
                THEN [Disbanded(d, t) EXCEPT !.daily[t] = NewDay]
                ELSE Fire(d, {u})
  IN  [left EXCEPT !.cash[u] = StartCash, !.level[u] = 1,
                   !.medals[u] = NoMedals, !.pend[u] = Ask("none")]

Newcomer(t, role, base) == [team |-> t, role |-> role, since |-> today, base |-> base]

Created(d, u, n) ==
  [d EXCEPT !.cash[u] = @ - CreateCost,
            !.team[NewId(d)] = [name |-> n, owner |-> u, bank |-> 0, level |-> 1, xp |-> 0,
                                atk |-> 0, def |-> 0, cooling |-> FALSE,
                                hidden |-> FALSE, bio |-> FALSE],
            !.member[u] = Newcomer(NewId(d), "owner", d.medals[u].all)]

Steps(need, l, k) == SumFunctionOnSet(need, l .. k - 1)

\* Mistake: a level is reached one point late.
ClimbLate(l, x) ==
  CHOOSE k \in l .. MaxLevel :
    /\ k = l \/ Steps(Need, l, k) < x
    /\ k = MaxLevel \/ Steps(Need, l, k + 1) >= x

\* How far x experience points reach from level l.
Climb(l, x) ==
  CHOOSE k \in l .. MaxLevel :
    Steps(Need, l, k) <= x /\ (k = MaxLevel \/ Steps(Need, l, k + 1) > x)

\* apply_team_xp
TeamXp(d, t, n) ==
  LET x == d.team[t].xp + n
      k == Climb(d.team[t].level, x)
  IN  [d EXCEPT !.team[t].level = k,
                !.team[t].xp = x - Steps(Need, d.team[t].level, k)]

\* migrate_team_levels, one cartel
Regrade(tm) ==
  LET total == tm.xp + Steps(OldNeed, 1, tm.level)
  IN  [tm EXCEPT !.level = Climb(1, total), !.xp = total - Steps(Need, 1, Climb(1, total))]

\* users.award_medals: the bucket of the week is emptied by the first medal
\* of another week.
Awarded(d, u, n) ==
  LET m == d.medals[u]
      w == Week(today)
  IN  [d EXCEPT !.medals[u] =
         [all |-> m.all + n, week |-> n + IF m.id = w THEN m.week ELSE 0, id |-> w]]

\* Mistake: what was earned before the player joined counts too.
CountedWhole(d, u, w) == IF d.medals[u].id = w THEN d.medals[u].week ELSE 0

\* _member_medals of a finished week
Counted(d, u, w) ==
  LET m     == d.member[u]
      fresh == IF d.medals[u].id = w THEN d.medals[u].week ELSE 0
      own   == d.medals[u].all - m.base
  IN  IF m.since >= w * DaysPerWeek THEN Max({0, Min({own, fresh})}) ELSE fresh

Total(d, t, w) == MapThenSumSet(LAMBDA u : Counted(d, u, w), Members(d, t))

\* top_teams_by_medals: the order of the board
Ahead(d, w, s, t) ==
  LET a == <<Total(d, s, w), Cardinality(Members(d, s))>>
      b == <<Total(d, t, w), Cardinality(Members(d, t))>>
  IN  a[1] > b[1] \/ (a[1] = b[1] /\ (a[2] > b[2] \/ (a[2] = b[2] /\ s < t)))

Prize(d, w, t) ==
  LET rank == 1 + Cardinality({s \in Ids : d.team[s] # NULL /\ Ahead(d, w, s, t)})
  IN  IF Total(d, t, w) > 0 /\ rank <= 3 THEN WeekPrize[rank] ELSE 0

Rewarded(d) ==
  [t \in Ids |-> IF d.team[t] = NULL \/ d.weekKey = NULL THEN d.team[t]
                 ELSE [d.team[t] EXCEPT !.bank = @ + Prize(d, d.weekKey, t)]]

RolloverDue(d) == d.weekKey # Week(today)

\* maybe_weekly_rollover
Rolled(d) ==
  IF RolloverDue(d) THEN [d EXCEPT !.weekKey = Week(today), !.team = Rewarded(d)] ELSE d

Offers(d, t) == Drawn[<<t, today, d.team[t].level>>]

\* Mistake: a fulfilled quest is paid again.
FulfilsAgain(d, t, k, n) ==
  k \in DOMAIN Offers(d, t) /\ d.daily[t].prog[k] + n >= Offers(d, t)[k].target

\* The progress reaches what today's quest asks and it is not paid yet.
Fulfils(d, t, k, n) ==
  /\ k \in DOMAIN Offers(d, t)
  /\ d.daily[t].prog[k] + n >= Offers(d, t)[k].target
  /\ k \notin d.daily[t].done

\* _record, after the rollover
Recorded(d, u, k, n) ==
  LET t    == d.member[u].team
      more == [d EXCEPT !.daily[t].prog[k] = @ + n]
      all  == Members(d, t)
  IN  IF ~HasTeam(d, u) THEN d
      ELSE IF ~Fulfils(d, t, k, n) THEN more
      ELSE [more EXCEPT
              !.daily[t].done = @ \cup {k},
              !.cash = [v \in Users |-> @[v] + IF v \in all THEN Offers(d, t)[k].reward ELSE 0],
              !.team[t].bank = @ + Offers(d, t)[k].bank]

Record(d, u, k, n) == Recorded(Rolled(d), u, k, n)

Deposited(d, u, n) ==
  [d EXCEPT !.cash[u] = @ - n, !.team[d.member[u].team].bank = @ + n]

-----------------------------------------------------------------------------
(* Steps.                                                                  *)

\* The commit of d, in which the player u was awarded medals.
Commit(d, u, medals) ==
  /\ db' = d
  /\ earned' = [v \in Users |-> [w \in Weeks |->
       IF db.member[v] = NULL \/ d.member[v] = NULL THEN 0
       ELSE earned[v][w] + IF v = u /\ w = Week(today) THEN medals ELSE 0]]

\* A handler that is one step.
Free == op = Idle /\ job = NULL

Do(d) ==
  /\ Free
  /\ Commit(d, NULL, 0)
  /\ UNCHANGED <<op, job, today, raced, crashes>>

DoDb(d) == Do(d) /\ UNCHANGED <<memory, paid>>

\* A handler that records n of quest k, after its award of medals.
DoRecord(d, u, k, n, medals) ==
  /\ Free
  /\ Commit(Record(d, u, k, n), u, medals)
  /\ paid' = LET r == Rolled(d)
                 t == d.member[u].team
             IN  IF HasTeam(d, u) /\ Fulfils(r, t, k, n)
                   THEN [paid EXCEPT ![t][k] = @ + 1] ELSE paid
  /\ UNCHANGED <<memory, op, job, today, raced, crashes>>

-----------------------------------------------------------------------------
(* Founding and naming.                                                    *)

\* create_team_text: the next message is the name.
AskName(u) ==
  CanCreate(db, u) /\ db.pend[u].ask = "none" /\ DoDb([db EXCEPT !.pend[u] = Ask("teamname")])

\* capture of a name; one that is taken leaves the question open.
GiveName(u, n) ==
  /\ db.pend[u].ask = "teamname" /\ ~Taken(db, n)
  /\ DoDb([db EXCEPT !.pend[u] = [ask |-> "teamcf", name |-> n]])

\* The yes button: everything is looked at again.
ConfirmCreate(u) ==
  LET n == db.pend[u].name
      d == IF CanCreate(db, u) /\ ~Taken(db, n) THEN Created(db, u, n) ELSE db
  IN  /\ db.pend[u].ask = "teamcf"
      /\ NewId(db) \in Ids
      /\ DoDb([d EXCEPT !.pend[u] = Ask("none")])

\* The no button, or the word that cancels any question.
Cancel(u) == db.pend[u].ask # "none" /\ DoDb([db EXCEPT !.pend[u] = Ask("none")])

\* rename_text: the new name waits in memory.
AskRename(u, n) ==
  /\ CanRename(db, u, n)
  /\ renaming' = [renaming EXCEPT ![u] = n]
  /\ Do(db) /\ UNCHANGED <<sess, paid>>

Renamed(d, u, n) ==
  IF CanRename(d, u, n)
    THEN [d EXCEPT !.cash[u] = @ - RenameCost, !.team[d.member[u].team].name = n]
    ELSE d

ConfirmRename(u) ==
  /\ renaming[u] # NULL
  /\ renaming' = [renaming EXCEPT ![u] = NULL]
  /\ Do(Renamed(db, u, renaming[u])) /\ UNCHANGED <<sess, paid>>

SetBio(u) ==
  Owns(db, u) /\ HasTeam(db, u) /\ DoDb([db EXCEPT !.team[db.member[u].team].bio = TRUE])

\* hide_team_text, of an administrator
ToggleHidden(t) ==
  db.team[t] # NULL /\ DoDb([db EXCEPT !.team[t].hidden = ~@])

-----------------------------------------------------------------------------
(* Joining and leaving.                                                    *)

\* request_join: looked at, then written.
RequestRead(u, t) ==
  /\ op = Idle
  /\ db.level[u] >= JoinLevel /\ db.member[u] = NULL /\ db.team[t] # NULL
  /\ Cardinality(Members(db, t)) < Capacity(db, t)
  /\ <<t, u>> \notin db.request
  /\ op' = [pc |-> "requesting", who |-> u, team |-> t]
  /\ raced' = (raced \/ job # NULL)
  /\ UNCHANGED <<db, memory, job, today, earned, paid, crashes>>

RequestCommit ==
  /\ op.pc = "requesting" /\ job = NULL
  /\ op' = Idle
  /\ db' = [db EXCEPT !.request = @ \cup {<<op.team, op.who>>}]
  /\ UNCHANGED <<memory, job, today, history, crashes>>

\* Mistake: the places are counted only when the request is made.
MayJoinFull(d, t, v) == d.member[v] = NULL

\* The list and the card of a manager.
MayJoin(d, t, v) ==
  d.member[v] = NULL /\ Cardinality(Members(d, t)) < Capacity(d, t)

Resolves(u, t) == IsManager(db, u) /\ HasTeam(db, u) /\ db.member[u].team = t

AcceptRead(u, t, v) ==
  /\ op = Idle
  /\ Resolves(u, t) /\ <<t, v>> \in db.request /\ MayJoin(db, t, v)
  /\ op' = [pc |-> "accepting", who |-> v, team |-> t, base |-> db.medals[v].all]
  /\ raced' = (raced \/ job # NULL)
  /\ UNCHANGED <<db, memory, job, today, earned, paid, crashes>>

AcceptCommit ==
  /\ op.pc = "accepting" /\ job = NULL
  /\ op' = Idle
  /\ db' = [db EXCEPT !.member[op.who] = Newcomer(op.team, "member", op.base),
                      !.request = @ \ {<<op.team, op.who>>}]
  /\ UNCHANGED <<memory, job, today, history, crashes>>

\* The reject buttons, and the accept buttons when the player is in a cartel
\* by now or the cartel is full.
Reject(u, t, v) ==
  /\ Resolves(u, t) /\ <<t, v>> \in db.request
  /\ DoDb([db EXCEPT !.request = @ \ {<<t, v>>}])

\* The confirmations are buttons of the player; what they do is looked at
\* when they are pressed.
Leave(u) ==
  db.member[u] # NULL /\ ~Owns(db, u) /\ DoDb(Fire(db, {u}))

Disband(u) ==
  LET t == db.member[u].team
  IN  /\ Owns(db, u) /\ HasTeam(db, u)
      /\ Do(Disbanded(db, t))
      /\ sess' = [sess EXCEPT ![t] = NULL]
      /\ UNCHANGED <<renaming, paid>>

\* team_kick_cb and the answer to it; team_kick_execute.
AskKick(u) ==
  IsManager(db, u) /\ HasTeam(db, u) /\ DoDb([db EXCEPT !.pend[u] = Ask("teamkick")])

SearchKick(u) == db.pend[u].ask = "teamkick" /\ DoDb([db EXCEPT !.pend[u] = Ask("none")])

Kick(u, v) ==
  /\ IsManager(db, u) /\ HasTeam(db, u)
  /\ v \in Members(db, db.member[u].team) /\ CanKick(db, u, v)
  /\ DoDb(Fire(db, {v}))

\* team_admin_confirm_cb, team_admin_text
ToggleAdmin(u, v) ==
  /\ Owns(db, u) /\ v \in Members(db, db.member[u].team) /\ ~Owns(db, v)
  /\ DoDb([db EXCEPT !.member[v].role = IF @ = "admin" THEN "member" ELSE "admin"])

-----------------------------------------------------------------------------
(* Treasury, level, quests, weeks.                                         *)

TeamDeposit(u, n, k) ==
  /\ HasTeam(db, u) /\ n <= db.cash[u]
  /\ DoRecord(Deposited(db, u, n), u, k, n, 0)

BuildingCost(l) == Price[Min({Max({l, 1}), Len(Price)})]

\* Mistake: the treasury is not asked.
UpgradeOnCredit(u, kind) ==
  LET t == db.member[u].team
      l == db.team[t][kind]
  IN  /\ Owns(db, u) /\ HasTeam(db, u)
      /\ l < Len(Price) /\ l + 1 <= db.team[t].level
      /\ DoDb([db EXCEPT !.team[t].bank = @ - BuildingCost(l + 1), !.team[t][kind] = @ + 1])

Upgrade(u, kind) ==
  LET t == db.member[u].team
      l == db.team[t][kind]
  IN  /\ Owns(db, u) /\ HasTeam(db, u)
      /\ l < Len(Price) /\ l + 1 <= db.team[t].level
      /\ db.team[t].bank >= BuildingCost(l + 1)
      /\ DoDb([db EXCEPT !.team[t].bank = @ - BuildingCost(l + 1), !.team[t][kind] = @ + 1])

\* What the other handlers call: users.add_xp with add_team_xp, and then
\* record_*; add_xp may raise the player's level.
Grown(d, u, n) ==
  LET a == Awarded(d, u, n)
  IN  IF HasTeam(d, u) THEN TeamXp(a, d.member[u].team, n) ELSE a

Earn(u, n) ==
  /\ Free
  /\ Commit(Grown(db, u, n), u, n)
  /\ UNCHANGED <<memory, paid, op, job, today, raced, crashes>>

EarnAndRecord(u, n, k) == DoRecord(Grown(db, u, n), u, k, 1, n)

RecordOnly(u, k) == DoRecord(db, u, k, 1, 0)

LevelUp(u) == DoDb([db EXCEPT !.level[u] = CreateLevel])

\* give_team_xp, of an administrator
GiveTeamXp(t, n) == db.team[t] # NULL /\ DoDb(TeamXp(db, t, n))

\* admin's /update
Migrate ==
  /\ ~db.regraded
  /\ DoDb([db EXCEPT !.regraded = TRUE,
                     !.team = [t \in Ids |-> IF @[t] = NULL THEN NULL ELSE Regrade(@[t])]])

\* The board of the cartels settles the week as well.
ShowTop == RolloverDue(db) /\ DoDb(Rolled(db))

PostChat(u) ==
  LET t == db.member[u].team
      d == [db EXCEPT !.pend[u] = Ask("none")]
  IN  /\ db.pend[u].ask = "teamchat"
      /\ DoDb(IF db.member[u] = NULL THEN d
              ELSE [d EXCEPT !.chat[t] =
                      LET c == Append(@, u)
                      IN  SubSeq(c, Max({1, Len(c) - History + 1}), Len(c))])

AskChat(u) == HasTeam(db, u) /\ DoDb([db EXCEPT !.pend[u] = Ask("teamchat")])

-----------------------------------------------------------------------------
(* The common mining.                                                      *)

\* mine_needed: 70 per cent, rounded up, and at least three.
MineNeeded(n) == Max({3, (7 * n + 9) \div 10})

\* Mistake: nobody looks when the cartel mined last.
RestedAlways(tm) == TRUE

\* The session one joins: a late one is thrown away, a new one needs the
\* cartel to have rested.
Rested(tm) == ~tm.cooling

Live(t) == sess[t] # NULL /\ ~sess[t].late

JoinedSession(t, n) ==
  IF Live(t) THEN sess[t] ELSE [who |-> {}, needed |-> MineNeeded(n), late |-> FALSE]

\* team_mine_join.  While the job holds the database's lock only the session
\* in memory can change, and the bank of a cartel it deletes gets nothing.
MineJoin(u, per) ==
  LET t == db.member[u].team
      d == Rolled(db)
      n == Cardinality(Members(d, t))
      s == JoinedSession(t, n)
      j == [s EXCEPT !.who = @ \cup {u}]
      full == Cardinality(j.who) >= j.needed
      doomed == job # NULL /\ Owns(db, job) /\ db.member[job].team = t
  IN  /\ op = Idle /\ (job = NULL \/ ~RolloverDue(db))
      /\ HasTeam(db, u) /\ n >= 3
      /\ Live(t) \/ Rested(db.team[t])
      /\ u \notin s.who
      /\ raced' = (raced \/ job # NULL)
      /\ sess' = [sess EXCEPT ![t] = IF full THEN NULL ELSE j]
      /\ db' = IF full /\ ~doomed
                 THEN [d EXCEPT !.team[t].bank = @ + per * Cardinality(j.who),
                                !.team[t].cooling = TRUE]
                 ELSE d
      /\ UNCHANGED <<renaming, op, job, today, earned, paid, crashes>>

\* Five minutes are over; an hour is over.
SessionLate(t) ==
  /\ Live(t)
  /\ sess' = [sess EXCEPT ![t].late = TRUE]
  /\ UNCHANGED <<db, renaming, op, job, today, history, crashes>>

HourOver(t) ==
  /\ db.team[t] # NULL /\ db.team[t].cooling
  /\ DoDb([db EXCEPT !.team[t].cooling = FALSE])

-----------------------------------------------------------------------------
(* Wipes, time, restarts.                                                  *)

\* The book of the day is deleted with the owner's cartel.
Reopened(u) ==
  [t \in Ids |-> IF Owns(db, u) /\ db.member[u].team = t THEN [k \in Quests |-> 0] ELSE paid[t]]

Unmined(u) ==
  [t \in Ids |-> IF Owns(db, u) /\ db.member[u].team = t THEN NULL ELSE sess[t]]

\* clearacc_cb, of an administrator
ClearAccount(u) ==
  /\ Do(Wiped(db, u))
  /\ sess' = Unmined(u) /\ paid' = Reopened(u)
  /\ UNCHANGED renaming

\* fj_wipe_job: the session leaves memory first; its first statement takes
\* the lock of the database, the commit shows the rest.
WipeBegin(u) ==
  /\ job = NULL
  /\ job' = u
  /\ sess' = Unmined(u)
  /\ raced' = (raced \/ op # Idle)
  /\ UNCHANGED <<db, renaming, op, today, earned, paid, crashes>>

WipeCommit ==
  /\ job # NULL
  /\ Commit(Wiped(db, job), job, 0)
  /\ paid' = Reopened(job)
  /\ job' = NULL
  /\ UNCHANGED <<memory, op, today, raced, crashes>>

NextDay ==
  /\ today < LastDay
  /\ today' = today + 1
  /\ db' = [db EXCEPT !.daily = [t \in Ids |-> NewDay]]
  /\ paid' = [t \in Ids |-> [k \in Quests |-> 0]]
  /\ UNCHANGED <<memory, op, job, raced, earned, crashes>>

Crash ==
  /\ crashes < MaxCrashes
  /\ crashes' = crashes + 1
  /\ sess' = [t \in Ids |-> NULL] /\ renaming' = [u \in Users |-> NULL]
  /\ op' = Idle /\ job' = NULL
  /\ UNCHANGED <<db, today, history>>

Next ==
  \/ \E u \in Users :
       \/ AskName(u) \/ ConfirmCreate(u) \/ Cancel(u) \/ ConfirmRename(u) \/ SetBio(u)
       \/ Leave(u) \/ Disband(u) \/ AskKick(u) \/ SearchKick(u) \/ LevelUp(u)
       \/ AskChat(u) \/ PostChat(u) \/ ClearAccount(u) \/ WipeBegin(u)
       \/ \E n \in Names : GiveName(u, n) \/ AskRename(u, n)
       \/ \E v \in Users : Kick(u, v) \/ ToggleAdmin(u, v)
       \/ \E t \in Ids : RequestRead(u, t)
       \/ \E t \in Ids, v \in Users :
            AcceptRead(u, t, v) \/ Reject(u, t, v)
       \/ \E k \in Quests : RecordOnly(u, k)
       \/ \E n \in Nat \ {0}, k \in Quests : TeamDeposit(u, n, k) \/ EarnAndRecord(u, n, k)
       \/ \E n \in Nat \ {0} : Earn(u, n)
       \/ \E per \in PerMiner : MineJoin(u, per)
       \/ \E kind \in {"atk", "def"} : Upgrade(u, kind)
  \/ \E t \in Ids : ToggleHidden(t) \/ SessionLate(t) \/ HourOver(t)
  \/ \E t \in Ids, n \in Nat : GiveTeamXp(t, n)
  \/ RequestCommit \/ AcceptCommit \/ WipeCommit
  \/ Migrate \/ ShowTop \/ NextDay \/ Crash

Spec == Init /\ [][Next]_vars

-----------------------------------------------------------------------------
(* Properties.                                                             *)

\* Every membership and every request names a living cartel, a living cartel
\* has exactly one leader and it is its owner, and a common mining belongs
\* to a living cartel, unless the job wiped an account between the reads and
\* the commit of a handler.
CartelsAreWhole ==
  ~raced =>
    /\ \A u \in Users : db.member[u] # NULL => HasTeam(db, u)
    /\ \A t \in Ids : db.team[t] # NULL =>
         {u \in Members(db, t) : Owns(db, u)} = {db.team[t].owner}
    /\ \A r \in db.request : db.team[r[1]] # NULL
    /\ \A t \in Ids : sess[t] # NULL => db.team[t] # NULL

\* Two cartels never have one name, although a name waits in users or in
\* memory between the question and the confirmation.
NamesDiffer ==
  \A s, t \in Ids : s # t /\ db.team[s] # NULL /\ db.team[t] # NULL =>
    db.team[s].name # db.team[t].name

\* A cartel never takes in a member beyond the places of its level, however
\* many requests were made while there was room.
RoomIsKept ==
  [][\A t \in Ids :
       db.team[t] # NULL /\ db'.team[t] # NULL /\ ~(Members(db', t) \subseteq Members(db, t))
         => Cardinality(Members(db', t)) <= Capacity(db', t)]_vars

\* A leader keeps the membership and the role until the cartel ends: nobody
\* kicks, degrades or replaces a leader.
LeadersStay ==
  [][\A u \in Users :
       Owns(db, u) /\ HasTeam(db, u) /\ db'.member[u] # db.member[u]
         => db'.team[db.member[u].team] = NULL]_vars

\* A quest of the day is paid to a cartel's id once, whatever levels the
\* cartel reaches and also when it is disbanded and its id given again.
QuestsPayOnce == \A t \in Ids, k \in Quests : paid[t][k] <= 1

\* The common mining that players can join is one the cartel has rested for,
\* lacks somebody, and needs three; so one that fills pays once an hour.
MiningIsDue ==
  \A t \in Ids : Live(t) =>
    /\ db.team[t] # NULL => ~db.team[t].cooling
    /\ sess[t].needed >= 3 /\ Cardinality(sess[t].who) < sess[t].needed

\* No experience of a cartel gets lost: awards only add, the migration keeps
\* what the old curve says was earned, and no level stays unreached.
Score(need, tm) == tm.xp + Steps(need, 1, tm.level)

XpIsKept ==
  [][\A t \in Ids : db.team[t] # NULL /\ db'.team[t] # NULL =>
       LET a == db.team[t]
           b == db'.team[t]
       IN  a # b =>
           /\ IF db'.regraded = db.regraded THEN Score(Need, b) >= Score(Need, a)
                                           ELSE Score(Need, b) = Score(OldNeed, a)
           /\ b.level < MaxLevel => b.xp < Need[b.level]]_vars

\* What a member would count for the cartel at the next settling of the week
\* was earned in that week and in this cartel: medals brought along from
\* elsewhere or from another week win no prize.
CountedWasEarned ==
  \A u \in Users : db.member[u] # NULL /\ db.weekKey # NULL =>
    Counted(db, u, db.weekKey) <= earned[u][db.weekKey]

\* maybe_weekly_rollover: the first three by the medals of the week's members
\* get the prizes.  The cartel whose members earned most gets the first.
EarnedBy(t, w) == MapThenSumSet(LAMBDA u : earned[u][w], Members(db, t))

MostMedalsWin ==
  [][LET w == db.weekKey
         alive == {t \in Ids : db.team[t] # NULL}
     IN  w # NULL /\ db'.weekKey # w =>
           \A t \in alive :
             (\A s \in alive \ {t} : EarnedBy(s, w) < EarnedBy(t, w))
               => db'.team[t].bank >= db.team[t].bank + WeekPrize[1]]_vars
=============================================================================
