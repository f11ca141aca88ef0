------------------------------ MODULE CartelWar ------------------------------
(***************************************************************************)
(* The life of a cartel war (cartel_war/): request, answer, scheduled      *)
(* start, end and payout, with every handler and scheduler job cut at its  *)
(* database reads and at its commit.                                       *)
(*                                                                         *)
(* aiogram runs each update in a task of its own and APScheduler runs each *)
(* job beside them, every call on its own SQLite connection.  A SELECT     *)
(* before the first DML runs in autocommit and the DML statements up to    *)
(* db.commit() are one transaction, so a step of this module is one read   *)
(* or one transaction; anything may happen between two of them.            *)
(*                                                                         *)
(* Time is a flag per war: due[w] holds once the deadline of the war's     *)
(* present status (expires_at, starts_at or ends_at) has passed.           *)
(***************************************************************************)
EXTENDS Integers, FiniteSets

CONSTANTS
  Cartels,      \* ids of cartels
  Users,        \* ids of Telegram users
  CartelOf,     \* CartelOf[u]: users.cartel_id, NULL when u is in no cartel
  Leader,       \* Leader[c]: cartels.leader_id
  Wars,         \* ids AUTOINCREMENT can still hand out (bounds the requests)
  Handlers,     \* handler tasks in flight at one time (bounds the overlap)
  MaxCrashes,   \* bound on the process restarts of a behaviour
  NULL

ASSUME CartelWarAssumption ==
  /\ NULL \notin Cartels \cup Wars
  /\ CartelOf \in [Users -> Cartels \cup {NULL}]
  /\ Leader \in [Cartels -> Users]
  /\ IsFiniteSet(Wars)
  /\ MaxCrashes \in Nat

VARIABLES
  status,       \* cartel_wars.status; "absent" before the INSERT
  attacker,     \* cartel_wars.attacker_cartel_id
  defender,     \* cartel_wars.defender_cartel_id
  winner,       \* cartel_wars.winner_cartel_id
  due,          \* the deadline of the present status has passed
  pendingWar,   \* cartels.pending_war_id
  dailyCount,   \* cartels.daily_war_count
  totalWars,    \* cartels.total_wars
  warWins,      \* cartels.war_wins (war_trophies moves with it)
  op,           \* op[h]: what handler task h has read so far
  expiring,     \* job_check_pending_wars: rows fetched, not yet processed
  starting,     \* job_check_scheduled_wars: rows fetched, not yet processed
  ending,       \* job_check_active_wars: rows fetched, not yet processed
  finalizing,   \* the war finalize_war has read as ACTIVE, or NULL
  crashes       \* restarts so far

warRow   == <<status, attacker, defender, winner, due>>
parties  == <<attacker, defender>>
cartelRow == <<pendingWar, dailyCount, totalWars, warWins>>
jobs     == <<expiring, starting, ending, finalizing>>
vars     == <<warRow, cartelRow, op, jobs, crashes>>

-----------------------------------------------------------------------------
Live     == {"pending", "scheduled", "active"}
Answered == {"rejected", "expired", "scheduled"}
WarStatus == {"absent", "active", "finished"} \cup Live \cup Answered

Idle == [kind |-> "idle"]
Ops  == {Idle} \cup [kind : {"initiate"}, att : Cartels]
               \cup [kind : {"create"}, att : Cartels, def : Cartels]
               \cup [kind : {"respond"}, war : Wars, verdict : Answered]

\* A response to war w has read the row and has not committed yet.
Responding(w) == \E h \in Handlers : op[h].kind = "respond" /\ op[h].war = w

\* The parties of a war: what  id IN (attacker_cartel_id, defender_cartel_id)
\* selects.
Sides(w) == {attacker[w], defender[w]}

TypeOK ==
  /\ status \in [Wars -> WarStatus]
  /\ attacker \in [Wars -> Cartels \cup {NULL}]
  /\ defender \in [Wars -> Cartels \cup {NULL}]
  /\ winner \in [Wars -> Cartels \cup {NULL}]
  /\ due \in [Wars -> BOOLEAN]
  /\ pendingWar \in [Cartels -> Wars \cup {NULL}]
  /\ dailyCount \in [Cartels -> Nat]
  /\ totalWars \in [Cartels -> Nat]
  /\ warWins \in [Cartels -> Nat]
  /\ op \in [Handlers -> Ops]
  /\ expiring \subseteq Wars /\ starting \subseteq Wars /\ ending \subseteq Wars
  /\ finalizing \in Wars \cup {NULL}
  /\ crashes \in Nat

Init ==
  /\ status = [w \in Wars |-> "absent"]
  /\ attacker = [w \in Wars |-> NULL]
  /\ defender = [w \in Wars |-> NULL]
  /\ winner = [w \in Wars |-> NULL]
  /\ due = [w \in Wars |-> FALSE]
  /\ pendingWar = [c \in Cartels |-> NULL]
  /\ dailyCount = [c \in Cartels |-> 0]
  /\ totalWars = [c \in Cartels |-> 0]
  /\ warWins = [c \in Cartels |-> 0]
  /\ op = [h \in Handlers |-> Idle]
  /\ expiring = {} /\ starting = {} /\ ending = {}
  /\ finalizing = NULL
  /\ crashes = 0

-----------------------------------------------------------------------------
(* The repository's statements.                                            *)

\* update_war_status: one UPDATE of the row named by the id, whatever its
\* present status is; the new status starts a new deadline.
UpdateWarStatus(w, s) == /\ status' = [status EXCEPT ![w] = s]
                         /\ due' = [due EXCEPT ![w] = FALSE]

\* Mistake: only the cartel that asked for the war is released.
ClearedAttackerOnly(w) ==
  [c \in Cartels |-> IF pendingWar[c] = w /\ c = attacker[w] THEN NULL
                                                            ELSE pendingWar[c]]

\* clear_cartels_pending_war: the cartels that still name w are released.
ClearedPending(w) ==
  [c \in Cartels |-> IF pendingWar[c] = w THEN NULL ELSE pendingWar[c]]

\* create_war_request: the INSERT, and pending_war_id of both cartels is
\* overwritten whatever it holds.
CreateWarRequest(w, a, d) ==
  /\ status[w] = "absent"
  /\ UpdateWarStatus(w, "pending")
  /\ attacker' = [attacker EXCEPT ![w] = a]
  /\ defender' = [defender EXCEPT ![w] = d]
  /\ pendingWar' = [c \in Cartels |-> IF c \in {a, d} THEN w ELSE pendingWar[c]]

\* Mistake: the column is counted down, as a quota that is left.
DailyCountDown(w) ==
  [c \in Cartels |-> dailyCount[c] - IF c \in Sides(w) THEN 1 ELSE 0]

\* increment_daily_war_count for both cartels of w.
DailyCountUp(w) ==
  [c \in Cartels |-> dailyCount[c] + IF c \in Sides(w) THEN 1 ELSE 0]

\* A cartel may enter a new request: no request or war of its own, quota left.
Available(c) == pendingWar[c] = NULL /\ dailyCount[c] < 1

-----------------------------------------------------------------------------
(* initiate_war_request.  A failed check returns a message and changes     *)
(* nothing, so the operation simply does not go on.                        *)

\* The caller's row and the row of the caller's cartel are read and checked.
InitiateReadOwn(h, u) ==
  /\ op[h] = Idle
  /\ CartelOf[u] # NULL
  /\ Leader[CartelOf[u]] = u
  /\ Available(CartelOf[u])
  /\ op' = [op EXCEPT ![h] = [kind |-> "initiate", att |-> CartelOf[u]]]
  /\ UNCHANGED <<warRow, cartelRow, jobs, crashes>>

\* The target is looked up by name and checked; any refusal ends the call.
InitiateReadTarget(h, d) ==
  /\ op[h].kind = "initiate"
  /\ op' = [op EXCEPT ![h] =
              IF d # op[h].att /\ Available(d)
                THEN [kind |-> "create", att |-> op[h].att, def |-> d]
                ELSE Idle]
  /\ UNCHANGED <<warRow, cartelRow, jobs, crashes>>

\* INSERT, UPDATE cartels and COMMIT; the checks above are not repeated.
InitiateCommit(h, w) ==
  /\ op[h].kind = "create"
  /\ CreateWarRequest(w, op[h].att, op[h].def)
  /\ op' = [op EXCEPT ![h] = Idle]
  /\ UNCHANGED <<winner, dailyCount, totalWars, warWins, jobs, crashes>>

-----------------------------------------------------------------------------
(* handle_war_response.                                                    *)

\* The war is read: only its defender's leader, only while PENDING.  Past
\* expires_at either button expires the request.
RespondRead(h, u, w, accept) ==
  /\ op[h] = Idle
  /\ status[w] = "pending"
  /\ Leader[defender[w]] = u
  /\ op' = [op EXCEPT ![h] =
              [kind |-> "respond", war |-> w,
               verdict |-> IF due[w] THEN "expired"
                           ELSE IF accept THEN "scheduled" ELSE "rejected"]]
  /\ UNCHANGED <<warRow, cartelRow, jobs, crashes>>

\* The refusal or the expiry is written and the cartels are released.
RespondDecline(h) ==
  /\ op[h].kind = "respond"
  /\ op[h].verdict # "scheduled"
  /\ UpdateWarStatus(op[h].war, op[h].verdict)
  /\ pendingWar' = ClearedPending(op[h].war)
  /\ op' = [op EXCEPT ![h] = Idle]
  /\ UNCHANGED <<parties, winner, dailyCount, totalWars, warWins, jobs, crashes>>

\* The acceptance is written: SCHEDULED, and both cartels pay their quota.
\* Neither the status nor the quota is read again.
RespondAccept(h) ==
  /\ op[h].kind = "respond"
  /\ op[h].verdict = "scheduled"
  /\ UpdateWarStatus(op[h].war, "scheduled")
  /\ dailyCount' = DailyCountUp(op[h].war)
  /\ op' = [op EXCEPT ![h] = Idle]
  /\ UNCHANGED <<parties, winner, pendingWar, totalWars, warWins, jobs, crashes>>

-----------------------------------------------------------------------------
(* The scheduler jobs.  Each fetches its rows once and then works through  *)
(* the fetched list, sending messages between two rows; APScheduler runs   *)
(* one instance of a job at a time, so a new fetch waits for the old list. *)

DueWars(s) == {w \in Wars : status[w] = s /\ due[w]}

FetchExpired ==
  /\ expiring = {}
  /\ DueWars("pending") # {}
  /\ expiring' = DueWars("pending")
  /\ UNCHANGED <<warRow, cartelRow, op, starting, ending, finalizing, crashes>>

\* One row of job_check_pending_wars: EXPIRED by id, release, commit.
ExpireOne(w) ==
  /\ w \in expiring
  /\ expiring' = expiring \ {w}
  /\ UpdateWarStatus(w, "expired")
  /\ pendingWar' = ClearedPending(w)
  /\ UNCHANGED <<parties, winner, dailyCount, totalWars, warWins, op,
                 starting, ending, finalizing, crashes>>

\* Mistake: the query forgets that an unanswered request has no start time.
FetchScheduledOrPending ==
  /\ starting = {}
  /\ DueWars("scheduled") \cup DueWars("pending") # {}
  /\ starting' = DueWars("scheduled") \cup DueWars("pending")
  /\ UNCHANGED <<warRow, cartelRow, op, expiring, ending, finalizing, crashes>>

FetchScheduled ==
  /\ starting = {}
  /\ DueWars("scheduled") # {}
  /\ starting' = DueWars("scheduled")
  /\ UNCHANGED <<warRow, cartelRow, op, expiring, ending, finalizing, crashes>>

\* One row of job_check_scheduled_wars: ACTIVE by id, commit.
StartOne(w) ==
  /\ w \in starting
  /\ starting' = starting \ {w}
  /\ UpdateWarStatus(w, "active")
  /\ UNCHANGED <<parties, winner, cartelRow, op, expiring, ending, finalizing,
                 crashes>>

FetchEnding ==
  /\ ending = {} /\ finalizing = NULL
  /\ DueWars("active") # {}
  /\ ending' = DueWars("active")
  /\ UNCHANGED <<warRow, cartelRow, op, expiring, starting, finalizing, crashes>>

\* finalize_war reads the row; it returns at once unless the war is ACTIVE.
FinalizeRead(w) ==
  /\ w \in ending /\ finalizing = NULL
  /\ ending' = ending \ {w}
  /\ finalizing' = IF status[w] = "active" THEN w ELSE NULL
  /\ UNCHANGED <<warRow, cartelRow, op, expiring, starting, crashes>>

\* Mistake: the rewards are written, the row stays ACTIVE.
FinalizeCommitStillActive(win) ==
  LET w == finalizing
  IN  /\ w # NULL
      /\ win \in Sides(w) \cup {NULL}
      /\ finalizing' = NULL
      /\ winner' = [winner EXCEPT ![w] = IF win # NULL THEN win ELSE winner[w]]
      /\ pendingWar' = ClearedPending(w)
      /\ totalWars' =
           [c \in Cartels |-> totalWars[c] + IF c \in Sides(w) THEN 1 ELSE 0]
      /\ warWins' = [c \in Cartels |-> warWins[c] + IF c = win THEN 1 ELSE 0]
      /\ UNCHANGED <<status, due, parties, dailyCount, op, expiring, starting,
                     ending, crashes>>

\* Mistake: the cartels of a finished war keep their pending_war_id.
FinalizeCommitNoRelease(win) ==
  LET w == finalizing
  IN  /\ w # NULL
      /\ win \in Sides(w) \cup {NULL}
      /\ finalizing' = NULL
      /\ UpdateWarStatus(w, "finished")
      /\ winner' = [winner EXCEPT ![w] = IF win # NULL THEN win ELSE winner[w]]
      /\ totalWars' =
           [c \in Cartels |-> totalWars[c] + IF c \in Sides(w) THEN 1 ELSE 0]
      /\ warWins' = [c \in Cartels |-> warWins[c] + IF c = win THEN 1 ELSE 0]
      /\ UNCHANGED <<parties, pendingWar, dailyCount, op, expiring, starting,
                     ending, crashes>>

\* The transaction of finalize_war.  Which side won is WarAttack's subject;
\* here it is any of the two cartels or, for a draw, none.
FinalizeCommit(win) ==
  LET w == finalizing
  IN  /\ w # NULL
      /\ win \in Sides(w) \cup {NULL}
      /\ finalizing' = NULL
      /\ UpdateWarStatus(w, "finished")
      /\ winner' = [winner EXCEPT ![w] = IF win # NULL THEN win ELSE winner[w]]
      /\ pendingWar' = ClearedPending(w)
      /\ totalWars' =
           [c \in Cartels |-> totalWars[c] + IF c \in Sides(w) THEN 1 ELSE 0]
      /\ warWins' = [c \in Cartels |-> warWins[c] + IF c = win THEN 1 ELSE 0]
      /\ UNCHANGED <<parties, dailyCount, op, expiring, starting, ending,
                     crashes>>

\* job_daily_midnight_reset: every quota is given back, and a cartel whose
\* pending war is no longer live is released.
MidnightReset ==
  /\ dailyCount' = [c \in Cartels |-> 0]
  /\ pendingWar' = [c \in Cartels |->
                      IF pendingWar[c] # NULL /\ status[pendingWar[c]] \in Live
                        THEN pendingWar[c] ELSE NULL]
  /\ UNCHANGED <<warRow, totalWars, warWins, op, jobs, crashes>>

-----------------------------------------------------------------------------
(* Time and restarts.                                                      *)

\* expires_at passes.
RequestTimesOut(w) ==
  /\ status[w] = "pending" /\ ~due[w]
  /\ due' = [due EXCEPT ![w] = TRUE]
  /\ UNCHANGED <<status, parties, winner, cartelRow, op, jobs, crashes>>

\* Mistake: an accepted war may start at once, without the start delay.
StartWithoutDelay(w) ==
  /\ status[w] = "scheduled" /\ ~due[w]
  /\ due' = [due EXCEPT ![w] = TRUE]
  /\ UNCHANGED <<status, parties, winner, cartelRow, op, jobs, crashes>>

\* Mistake: the end of a war is never computed.
EndTimeNever(w) == FALSE /\ status[w] = "active" /\ UNCHANGED vars

\* starts_at passes.  The start delay is 30 minutes; a response that is
\* between its read and its commit, and a pass of the pending job over its
\* list, are assumed not to last that long.
StartTimeComes(w) ==
  /\ status[w] = "scheduled" /\ ~due[w]
  /\ ~Responding(w)
  /\ w \notin expiring
  /\ due' = [due EXCEPT ![w] = TRUE]
  /\ UNCHANGED <<status, parties, winner, cartelRow, op, jobs, crashes>>

\* ends_at passes.
EndTimeComes(w) ==
  /\ status[w] = "active" /\ ~due[w]
  /\ due' = [due EXCEPT ![w] = TRUE]
  /\ UNCHANGED <<status, parties, winner, cartelRow, op, jobs, crashes>>

\* The bot process stops and comes back: the rows stay, every task is gone
\* and an open transaction is rolled back.
Crash ==
  /\ crashes < MaxCrashes
  /\ crashes' = crashes + 1
  /\ op' = [h \in Handlers |-> Idle]
  /\ expiring' = {} /\ starting' = {} /\ ending' = {}
  /\ finalizing' = NULL
  /\ UNCHANGED <<warRow, cartelRow>>

-----------------------------------------------------------------------------
Initiate(h) ==
  \/ \E u \in Users : InitiateReadOwn(h, u)
  \/ \E d \in Cartels : InitiateReadTarget(h, d)
  \/ \E w \in Wars : InitiateCommit(h, w)

Respond(h) ==
  \/ \E u \in Users, w \in Wars, accept \in BOOLEAN : RespondRead(h, u, w, accept)
  \/ RespondDecline(h)
  \/ RespondAccept(h)

PendingJob   == FetchExpired \/ \E w \in Wars : ExpireOne(w)
ScheduledJob == FetchScheduled \/ \E w \in Wars : StartOne(w)
ActiveJob    == \/ FetchEnding
                \/ \E w \in Wars : FinalizeRead(w)
                \/ \E win \in Cartels \cup {NULL} : FinalizeCommit(win)

Time == \E w \in Wars : RequestTimesOut(w) \/ StartTimeComes(w) \/ EndTimeComes(w)

Next == \/ \E h \in Handlers : Initiate(h) \/ Respond(h)
        \/ PendingJob \/ ScheduledJob \/ ActiveJob
        \/ MidnightReset
        \/ Time
        \/ Crash

Spec == Init /\ [][Next]_vars

(* Deadlines pass and APScheduler's one-minute interval keeps each job     *)
(* running; a task that awaits SQLite is resumed by the event loop.  No    *)
(* leader is obliged to press a button.                                    *)
Fairness ==
  /\ \A w \in Wars : /\ WF_vars(RequestTimesOut(w))
                     /\ WF_vars(StartTimeComes(w))
                     /\ WF_vars(EndTimeComes(w))
  /\ WF_vars(PendingJob) /\ WF_vars(ScheduledJob) /\ WF_vars(ActiveJob)
  /\ \A h \in Handlers : /\ WF_vars(\E d \in Cartels : InitiateReadTarget(h, d))
                         /\ WF_vars(\E w \in Wars : InitiateCommit(h, w))
                         /\ WF_vars(RespondDecline(h))
                         /\ WF_vars(RespondAccept(h))

FairSpec == Spec /\ Fairness

-----------------------------------------------------------------------------
(* Properties.                                                             *)

\* A cartel is only ever blocked by a war that is still live and that it is
\* a party to: no lost race leaves pending_war_id on a settled war, which
\* would lock the cartel out (initiate_war_request refuses while it is set).
PendingNamesLiveWar ==
  \A c \in Cartels :
    pendingWar[c] # NULL => /\ status[pendingWar[c]] \in Live
                            /\ c \in Sides(pendingWar[c])

Finished(c) == {w \in Wars : status[w] = "finished" /\ c \in Sides(w)}

\* total_wars and war_wins agree with the FINISHED rows of cartel_wars, so
\* no war is paid twice or left unpaid by a stale row list, a repeated job
\* or a restart, and the win rate shown to players never exceeds 100%.
LedgerMatchesWars ==
  \A c \in Cartels :
    /\ totalWars[c] = Cardinality(Finished(c))
    /\ warWins[c] = Cardinality({w \in Finished(c) : winner[w] = c})

\* A war that has started is never called off and a finished one never
\* comes back, although accept, reject and the pending job write the status
\* by id without reading it again.
StartedWarRunsToItsEnd ==
  [][\A w \in Wars :
       /\ status[w] = "active" => status'[w] \in {"active", "finished"}
       /\ status[w] = "finished" => status'[w] = "finished"]_vars

\* Every request is settled and every accepted war is fought to its end,
\* across late answers, overlapping jobs and restarts.
EveryWarSettles ==
  \A w \in Wars :
    status[w] \in Live ~> status[w] \in {"rejected", "expired", "finished"}

\* No cartel is blocked for ever.
CartelsAreReleased ==
  \A c \in Cartels : pendingWar[c] # NULL ~> pendingWar[c] = NULL

\* What a party pays its daily quota for is a war that takes place: a
\* rejected or expired request costs nothing (service.py:147).
QuotaPaidOnlyForWars ==
  \A c \in Cartels :
    dailyCount[c] > 0 =>
      \E w \in Wars : /\ c \in Sides(w)
                     /\ status[w] \in {"scheduled", "active", "finished"}

-----------------------------------------------------------------------------
(* The lifecycle implements WarPhases.                                     *)

PhaseOf(s) == CASE s = "absent"   -> "absent"
                [] s = "pending"  -> "requested"
                [] s \in Answered -> "answered"
                [] s = "active"   -> "running"
                [] s = "finished" -> "over"

Phases == INSTANCE WarPhases WITH
            phase <- [w \in Wars |-> PhaseOf(status[w])],
            total <- totalWars,
            wins  <- warWins

\* Whatever the handlers and jobs race into, each war passes once through
\* requested, answered, running, over, and is credited at the last step.
ImplementsWarPhases == Phases!Spec
=============================================================================
