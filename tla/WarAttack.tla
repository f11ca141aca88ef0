------------------------------ MODULE WarAttack ------------------------------
(***************************************************************************)
(* One active cartel war (cartel_war/service.py): players' attacks, cut at *)
(* their awaits, beside the job that ends the war, fixes the winner and    *)
(* pays the rewards.                                                       *)
(*                                                                         *)
(* Time is counted from starts_at in ticks; Second ticks make one second,  *)
(* so that the rounding of stored timestamps is visible: datetime.now()    *)
(* has microseconds, a stored time is cut to whole seconds by strftime.    *)
(***************************************************************************)
EXTENDS Integers, FiniteSets, Functions

CONSTANTS
  Users,          \* players who may press the attack button
  Member0,        \* Member0[u]: the side whose cartel u is in at starts_at
  Joined0,        \* Joined0[u]: cartel_joined_at at starts_at, or NULL
  Bench,          \* Bench[s]: members of side s who never attack
  Tasks,          \* handler tasks in flight at one time (bounds the overlap)
  Second,         \* ticks per second
  WarLen,         \* ends_at - starts_at
  Cooldown,       \* the 300 seconds between two attacks of a player
  MinMembership,  \* the 24 hours of membership an attack needs
  MaxTime,        \* bound on the clock
  MaxMoves,       \* bound on the changes of cartel
  MaxCrashes,     \* bound on the restarts
  NULL

Side == {"att", "def"}
Other(s) == IF s = "att" THEN "def" ELSE "att"

ASSUME WarAttackAssumption ==
  /\ NULL \notin Side \cup Tasks \cup Int
  /\ IsFiniteSet(Users)
  /\ Member0 \in [Users -> Side \cup {NULL}]
  /\ Joined0 \in [Users -> Int \cup {NULL}]
  /\ \A u \in Users : Joined0[u] # NULL => Joined0[u] <= 0
  /\ Bench \in [Side -> Nat]
  /\ Second \in Nat \ {0}
  /\ WarLen \in Nat /\ Cooldown \in Nat /\ MinMembership \in Nat
  /\ WarLen <= MinMembership
  /\ Second <= Cooldown
  /\ MaxTime \in Nat /\ MaxMoves \in Nat /\ MaxCrashes \in Nat

VARIABLES
  now,            \* the clock
  finished,       \* status is FINISHED (it was ACTIVE from the start)
  winner,         \* winner_cartel_id: a side, or NULL
  xp,             \* attacker_xp, defender_xp
  hits,           \* attacker_success_hits, defender_success_hits
  log,            \* war_attack_logs, each row with the time it was decided
  lastAttack,     \* war_attack_cooldowns.last_attack_at, or NULL
  member,         \* users.cartel_id, as a side of this war
  joined,         \* users.cartel_joined_at, or NULL
  medals,         \* users.war_medals gained in this war
  lock,           \* _user_locks[u]: the task that holds it, or NULL
  task,           \* what each attack task has read so far
  fin,            \* what finalize_war has read so far
  timely,         \* history: the log when finalize_war read the score
  moves, crashes  \* bounded counters

warRow  == <<finished, winner, xp, hits>>
people  == <<member, joined, moves>>
vars    == <<now, warRow, log, lastAttack, people, medals, lock, task, fin,
             timely, crashes>>

Idle     == [pc |-> "idle"]
Checking == [pc : {"checking"}, user : Users, now : Nat]
Matching == [pc : {"matching"}, user : Users, now : Nat, side : Side]
Fighting == [pc : {"fighting"}, user : Users, now : Nat,
             side : Side, win : BOOLEAN, xp : Nat]
Entry    == [user : Users, side : Side, time : Nat, win : BOOLEAN, xp : Nat]
Score    == [xp : [Side -> Nat], hits : [Side -> Nat]]
Finals   == [pc : {"idle"}]
            \cup [pc : {"scored"}, score : Score]
            \cup [pc : {"counted"}, score : Score, att : Nat]
            \cup [pc : {"decided"}, win : Side \cup {NULL}]

TypeOK ==
  /\ now \in Nat
  /\ finished \in BOOLEAN
  /\ winner \in Side \cup {NULL}
  /\ xp \in [Side -> Nat] /\ hits \in [Side -> Nat]
  /\ log \subseteq Entry /\ timely \subseteq Entry
  /\ lastAttack \in [Users -> Nat \cup {NULL}]
  /\ member \in [Users -> Side \cup {NULL}]
  /\ joined \in [Users -> Int \cup {NULL}]
  /\ medals \in [Users -> Nat]
  /\ lock \in [Users -> Tasks \cup {NULL}]
  /\ task \in [Tasks -> {Idle} \cup Checking \cup Matching \cup Fighting]
  /\ fin \in Finals
  /\ moves \in Nat /\ crashes \in Nat

Init ==
  /\ now = 0
  /\ finished = FALSE /\ winner = NULL
  /\ xp = [s \in Side |-> 0] /\ hits = [s \in Side |-> 0]
  /\ log = {} /\ timely = {}
  /\ lastAttack = [u \in Users |-> NULL]
  /\ member = Member0
  /\ joined = Joined0
  /\ medals = [u \in Users |-> 0]
  /\ lock = [u \in Users |-> NULL]
  /\ task = [t \in Tasks |-> Idle]
  /\ fin = Idle
  /\ moves = 0 /\ crashes = 0

-----------------------------------------------------------------------------
\* Mistake: a second is lost twice.
StoredEarlier(t) == t - (t % Second) - Second

\* What a timestamp is after strftime("%Y-%m-%d %H:%M:%S").
Stored(t) == t - (t % Second)

Size(s) == Bench[s] + Cardinality({u \in Users : member[u] = s})

\* get_balance_multiplier, in percent: only the smaller side is helped.
Multiplier(mine, theirs) ==
  LET diff == theirs - mine
  IN  CASE diff <= 4  -> 100
        [] diff > 4 /\ diff <= 9   -> 115
        [] diff > 9 /\ diff <= 14  -> 130
        [] diff > 14 -> 150

\* int(base_xp * balance_mult)
Gain(win, s) == ((IF win THEN 15 ELSE 5) * Multiplier(Size(s), Size(Other(s)))) \div 100

Medals(win) == IF win THEN 2 ELSE 1

-----------------------------------------------------------------------------
(* execute_attack, under the player's asyncio.Lock.                        *)

\* Mistake: the attack does not take the player's lock.
AttackBeginUnlocked(t, u) ==
  /\ task[t] = Idle
  /\ ~finished /\ now < WarLen
  /\ lock' = [lock EXCEPT ![u] = t]
  /\ task' = [task EXCEPT ![t] = [pc |-> "checking", user |-> u, now |-> now]]
  /\ UNCHANGED <<now, warRow, log, lastAttack, people, medals, fin, timely, crashes>>

\* The lock is taken, the clock is read and the war row is checked.
AttackBegin(t, u) ==
  /\ task[t] = Idle
  /\ lock[u] = NULL
  /\ ~finished /\ now < WarLen
  /\ lock' = [lock EXCEPT ![u] = t]
  /\ task' = [task EXCEPT ![t] = [pc |-> "checking", user |-> u, now |-> now]]
  /\ UNCHANGED <<now, warRow, log, lastAttack, people, medals, fin, timely, crashes>>

\* Mistake: a newcomer may attack at once.
MayAttackNewcomer(u, at) ==
  /\ member[u] # NULL
  /\ lastAttack[u] # NULL => at - lastAttack[u] >= Cooldown

\* A side of this war, 24 hours of membership (unless its date is missing)
\* and five minutes since the stored time of the last attack.
MayAttack(u, at) ==
  /\ member[u] # NULL
  /\ joined[u] # NULL => at - joined[u] >= MinMembership
  /\ lastAttack[u] # NULL => at - lastAttack[u] >= Cooldown

\* A refusal leaves the  async with  block, which releases the lock.
Refuse(t) == /\ task' = [task EXCEPT ![t] = Idle]
             /\ lock' = [lock EXCEPT ![task[t].user] = NULL]

\* The player's row and cooldown are read.
AttackCheck(t) ==
  /\ task[t].pc = "checking"
  /\ LET c == task[t] IN
     IF MayAttack(c.user, c.now)
       THEN /\ task' = [task EXCEPT ![t] = [pc |-> "matching", user |-> c.user,
                                            now |-> c.now, side |-> member[c.user]]]
            /\ UNCHANGED lock
       ELSE Refuse(t)
  /\ UNCHANGED <<now, warRow, log, lastAttack, people, medals, fin, timely, crashes>>

\* Both rosters are read and the fight is drawn; nobody to attack is a refusal.
AttackDraw(t) ==
  /\ task[t].pc = "matching"
  /\ LET m == task[t] IN
     IF Size(Other(m.side)) > 0
       THEN /\ \E win \in BOOLEAN :
                 task' = [task EXCEPT ![t] =
                   [pc |-> "fighting", user |-> m.user, now |-> m.now,
                    side |-> m.side, win |-> win, xp |-> Gain(win, m.side)]]
            /\ UNCHANGED lock
       ELSE Refuse(t)
  /\ UNCHANGED <<now, warRow, log, lastAttack, people, medals, fin, timely, crashes>>

\* Mistake: the XP of the fight replaces the score, it is not added.
AttackCommitOverwrites(t) ==
  /\ task[t].pc = "fighting"
  /\ LET f == task[t] IN
     /\ log' = log \cup {[user |-> f.user, side |-> f.side, time |-> f.now,
                          win |-> f.win, xp |-> f.xp]}
     /\ xp' = [xp EXCEPT ![f.side] = f.xp]
     /\ hits' = [hits EXCEPT ![f.side] = @ + IF f.win THEN 1 ELSE 0]
     /\ medals' = [medals EXCEPT ![f.user] = @ + Medals(f.win)]
     /\ lastAttack' = [lastAttack EXCEPT ![f.user] = Stored(f.now)]
     /\ lock' = [lock EXCEPT ![f.user] = NULL]
  /\ task' = [task EXCEPT ![t] = Idle]
  /\ UNCHANGED <<now, finished, winner, people, fin, timely, crashes>>

\* record_attack_result and COMMIT: the log row, the score added in SQL, the
\* medals and the cooldown.  The war's status is not read again.
AttackCommit(t) ==
  /\ task[t].pc = "fighting"
  /\ LET f == task[t] IN
     /\ log' = log \cup {[user |-> f.user, side |-> f.side, time |-> f.now,
                          win |-> f.win, xp |-> f.xp]}
     /\ xp' = [xp EXCEPT ![f.side] = @ + f.xp]
     /\ hits' = [hits EXCEPT ![f.side] = @ + IF f.win THEN 1 ELSE 0]
     /\ medals' = [medals EXCEPT ![f.user] = @ + Medals(f.win)]
     /\ lastAttack' = [lastAttack EXCEPT ![f.user] = Stored(f.now)]
     /\ lock' = [lock EXCEPT ![f.user] = NULL]
  /\ task' = [task EXCEPT ![t] = Idle]
  /\ UNCHANGED <<now, finished, winner, people, fin, timely, crashes>>

-----------------------------------------------------------------------------
(* job_check_active_wars and finalize_war.                                 *)

\* Mistake: a war that is over is settled again.
FinalizeReadAgain ==
  /\ fin = Idle
  /\ now >= WarLen
  /\ fin' = [pc |-> "scored", score |-> [xp |-> xp, hits |-> hits]]
  /\ timely' = log
  /\ UNCHANGED <<now, warRow, log, lastAttack, people, medals, lock, task, crashes>>

\* ends_at has passed and the row is still ACTIVE: the score is read.
FinalizeRead ==
  /\ fin = Idle
  /\ now >= WarLen
  /\ ~finished
  /\ fin' = [pc |-> "scored", score |-> [xp |-> xp, hits |-> hits]]
  /\ timely' = log
  /\ UNCHANGED <<now, warRow, log, lastAttack, people, medals, lock, task, crashes>>

\* SELECT COUNT(DISTINCT attacker_id) of one cartel, by present membership.
Participants(s) == Cardinality({u \in Users : member[u] = s /\ \E e \in log : e.user = u})

FinalizeCountAttackers ==
  /\ fin.pc = "scored"
  /\ fin' = [pc |-> "counted", score |-> fin.score, att |-> Participants("att")]
  /\ UNCHANGED <<now, warRow, log, lastAttack, people, medals, lock, task, timely,
                 crashes>>

\* Mistake: the number of active participants counts before the score.
WinnerByParticipants(score, part) ==
  LET Beats(s) == \/ part[s] > part[Other(s)]
                  \/ part[s] = part[Other(s)] /\ score.xp[s] > score.xp[Other(s)]
  IN  IF \E s \in Side : Beats(s) THEN CHOOSE s \in Side : Beats(s) ELSE NULL

\* XP first, then successful hits, then active participants, else a draw.
Winner(score, part) ==
  LET Beats(s) == \/ score.xp[s] > score.xp[Other(s)]
                  \/ /\ score.xp[s] = score.xp[Other(s)]
                     /\ \/ score.hits[s] > score.hits[Other(s)]
                        \/ /\ score.hits[s] = score.hits[Other(s)]
                           /\ part[s] > part[Other(s)]
  IN  IF \E s \in Side : Beats(s) THEN CHOOSE s \in Side : Beats(s) ELSE NULL

FinalizeCountDefenders ==
  /\ fin.pc = "counted"
  /\ LET part == [s \in Side |-> IF s = "att" THEN fin.att ELSE Participants("def")]
     IN  fin' = [pc |-> "decided", win |-> Winner(fin.score, part)]
  /\ UNCHANGED <<now, warRow, log, lastAttack, people, medals, lock, task, timely,
                 crashes>>

\* FINISHED, the winner, and a medal for everybody who is in the winner's
\* cartel at that moment.
FinalizeCommit ==
  /\ fin.pc = "decided"
  /\ finished' = TRUE
  /\ winner' = fin.win
  /\ medals' = [u \in Users |->
                  medals[u] + IF fin.win # NULL /\ member[u] = fin.win THEN 1 ELSE 0]
  /\ fin' = Idle
  /\ UNCHANGED <<now, xp, hits, log, lastAttack, people, lock, task, timely, crashes>>

-----------------------------------------------------------------------------
(* The environment.                                                        *)

Tick == /\ now < MaxTime
        /\ now' = now + 1
        /\ UNCHANGED <<warRow, log, lastAttack, people, medals, lock, task, fin,
                       timely, crashes>>

\* The host bot moves a player to a cartel (or out of all); nothing under
\* cartel_war/ writes users.cartel_id, it only reads cartel_joined_at.
ChangeCartel(u, s) ==
  /\ moves < MaxMoves
  /\ s # member[u]
  /\ moves' = moves + 1
  /\ member' = [member EXCEPT ![u] = s]
  /\ joined' = [joined EXCEPT ![u] = now]
  /\ UNCHANGED <<now, warRow, log, lastAttack, medals, lock, task, fin, timely,
                 crashes>>

\* A restart forgets the locks and the tasks; the cooldown is in the database.
Crash ==
  /\ crashes < MaxCrashes
  /\ crashes' = crashes + 1
  /\ lock' = [u \in Users |-> NULL]
  /\ task' = [t \in Tasks |-> Idle]
  /\ fin' = Idle
  /\ UNCHANGED <<now, warRow, log, lastAttack, people, medals, timely>>

-----------------------------------------------------------------------------
Attack(t) == \/ \E u \in Users : AttackBegin(t, u)
             \/ AttackCheck(t)
             \/ AttackDraw(t)
             \/ AttackCommit(t)

Finalize == \/ FinalizeRead \/ FinalizeCountAttackers
            \/ FinalizeCountDefenders \/ FinalizeCommit

Next == \/ \E t \in Tasks : Attack(t)
        \/ Finalize
        \/ Tick
        \/ \E u \in Users, s \in Side \cup {NULL} : ChangeCartel(u, s)
        \/ Crash

Spec == Init /\ [][Next]_vars

-----------------------------------------------------------------------------
(* Properties.                                                             *)

\* The cooldown of a player holds between any two attacks of the log, taps
\* that race and restarts included; the stored time is cut to the second,
\* so the wait is shorter than 300 seconds by less than one.
CooldownRespected ==
  \A e, f \in log :
    e # f /\ e.user = f.user =>
      \/ f.time - e.time > Cooldown - Second
      \/ e.time - f.time > Cooldown - Second

\* The score of the war is the sum of its log: no attack of the two cartels,
\* committed in any order and also after the war has ended, is lost.
Of(rows, s)  == {e \in rows : e.side = s}
XpOf(rows)   == SumFunctionOnSet([e \in rows |-> e.xp], rows)
HitsOf(rows) == Cardinality({e \in rows : e.win})

ScoreMatchesLog ==
  \A s \in Side : xp[s] = XpOf(Of(log, s)) /\ hits[s] = HitsOf(Of(log, s))

\* Nobody fights for both cartels of a war: a change of cartel costs 24
\* hours, a war takes six, and the side is fixed when the cooldown is read.
NeverBothSides == \A e, f \in log : e.user = f.user => e.side = f.side

\* Every attack is paid once and the victory bonus at most once and only
\* for a decided war, whatever finalize_war and late attacks interleave.
MedalsOf(rows)  == SumFunctionOnSet([e \in rows |-> Medals(e.win)], rows)
AttackMedals(u) == MedalsOf({e \in log : e.user = u})

MedalsPaidOnce ==
  \A u \in Users :
    medals[u] - AttackMedals(u) \in IF winner = NULL THEN {0} ELSE {0, 1}

\* The cartel that is paid as the winner is not behind in the XP of the
\* attacks recorded when the job read the war, nor behind in successful
\* hits when the XP are equal; a draw is one only when both are equal.
TimelyXp(s)   == XpOf(Of(timely, s))
TimelyHits(s) == HitsOf(Of(timely, s))

WinnerLedTheScore ==
  finished =>
    IF winner = NULL
      THEN TimelyXp("att") = TimelyXp("def") /\ TimelyHits("att") = TimelyHits("def")
      ELSE LET loser == Other(winner)
           IN  \/ TimelyXp(winner) > TimelyXp(loser)
               \/ /\ TimelyXp(winner) = TimelyXp(loser)
                  /\ TimelyHits(winner) >= TimelyHits(loser)
=============================================================================
