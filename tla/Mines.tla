-------------------------------- MODULE Mines --------------------------------
(***************************************************************************)
(* The mines game (services/mines.py, handlers/mines.py, pending_sweep_job *)
(* of handlers/jobs.py).  Tables live in the dict MINES, the stakes in the *)
(* users' rows: a handler or the sweep changes the dict at once and the    *)
(* database at its commit.                                                 *)
(*                                                                         *)
(* A step is what runs between two awaits.  Where the mine lies is drawn   *)
(* as tiles are opened: until the last safe tile both are still there.     *)
(***************************************************************************)
EXTENDS Integers, Sequences, FiniteSets

CONSTANTS
  Users,
  Tracked,     \* the users whose casino results tracklog records
  Cash0,       \* cash of every user in the beginning
  Bet,         \* the stake (one of MINES_BETS)
  SafeTiles,   \* tiles without a mine: TILES - 1
  Pay,         \* Pay[n] = payout_at(Bet, n), the stake times MINES_MULTS[n]
  MaxHands,    \* bound on the tables armed
  MaxCrashes,  \* bound on the restarts
  NULL

ASSUME MinesAssumption ==
  /\ Tracked \subseteq Users /\ NULL \notin Users \cup Nat
  /\ Cash0 \in Nat /\ Bet \in Nat \ {0} /\ SafeTiles \in Nat \ {0}
  /\ Pay \in [1 .. SafeTiles -> Nat]
  /\ MaxHands \in Nat /\ MaxCrashes \in Nat

VARIABLES
  cash,       \* users.cash
  cooling,    \* last_casino_at is less than MINES_COOLDOWN_SECONDS ago
  casinoTp,   \* the tracked net result, casino_tp
  table,      \* MINES[u]: safe tiles opened, expired or not; NULL: no table
  order,      \* the keys of MINES, oldest first
  op,         \* the handler that is running
  job,        \* the sweep that is running
  overlap,    \* history: a handler and the sweep have overlapped
  hands, crashes

rows    == <<cash, cooling, casinoTp>>
dict    == <<table, order>>
bounds  == <<hands, crashes>>
vars    == <<rows, dict, op, job, overlap, bounds>>

Table == [safe : 0 .. SafeTiles - 1, expired : BOOLEAN]

ASSUME TableAssumption == NULL \notin Table

Idle == [kind |-> "idle"]
Ops  == {Idle}
        \cup [kind : {"arm"}, me : Users, mine : Nat, cooling : BOOLEAN]
        \cup [kind : {"armed", "click"}, me : Users, mine : Nat]
        \cup [kind : {"settling"}, me : Users, mine : Nat, pay : Nat]
        \cup [kind : {"closing"}, me : Users, mine : Nat, pay : Nat, net : Int]

\* due: tables that had expired when the sweep began; todo: the keys not yet looked at; at:
\* the user whose row is awaited; held: that row's cash once it is read;
\* refunds: what the commit will write.
Off  == [todo |-> <<>>, due |-> {}, at |-> NULL, held |-> NULL,
         refunds |-> [u \in Users |-> NULL]]
Jobs == [todo : Seq(Users), due : SUBSET Users, at : Users \cup {NULL},
         held : Nat \cup {NULL}, refunds : [Users -> Nat \cup {NULL}]]

TypeOK ==
  /\ cash \in [Users -> Nat] /\ cooling \in [Users -> BOOLEAN]
  /\ casinoTp \in [Tracked -> Int]
  /\ table \in [Users -> Table \cup {NULL}] /\ order \in Seq(Users)
  /\ op \in Ops /\ job \in Jobs
  /\ overlap \in BOOLEAN /\ hands \in Nat /\ crashes \in Nat

Init ==
  /\ cash = [u \in Users |-> Cash0] /\ cooling = [u \in Users |-> FALSE]
  /\ casinoTp = [u \in Tracked |-> 0]
  /\ table = [u \in Users |-> NULL] /\ order = <<>>
  /\ op = Idle /\ job = Off
  /\ overlap = FALSE /\ hands = 0 /\ crashes = 0

-----------------------------------------------------------------------------
\* get(): an expired table counts as none.
Playing(u) == table[u] # NULL /\ ~table[u].expired

\* A key occurs once in a dict.
Without(keys, u) ==
  LET at == {i \in DOMAIN keys : keys[i] = u}
      i  == CHOOSE i \in at : TRUE
  IN  IF at = {} THEN keys ELSE SubSeq(keys, 1, i - 1) \o SubSeq(keys, i + 1, Len(keys))

\* MINES.pop(tg, None)
Popped(u) == /\ table' = [table EXCEPT ![u] = NULL]
             /\ order' = Without(order, u)

\* get_or_create has read the player's row.
Begin(session) == /\ op = Idle
                  /\ op' = session
                  /\ overlap' = (overlap \/ job # Off)
                  /\ UNCHANGED <<rows, dict, job, bounds>>

\* The handler ends without a change of the database.
Ends == op' = Idle /\ UNCHANGED <<rows, job, overlap, bounds>>

-----------------------------------------------------------------------------
(* arm: the table is in the dict before the stake has left the row.        *)

ArmBegin(u) ==
  Begin([kind |-> "arm", me |-> u, mine |-> cash[u], cooling |-> cooling[u]])

\* Mistake: arm does not look at the player's cash.
MayArmPoor == table[op.me] = NULL /\ ~op.cooling

MayArm == table[op.me] = NULL /\ ~op.cooling /\ op.mine >= Bet

Arm ==
  /\ op.kind = "arm"
  /\ hands < MaxHands
  /\ MayArm
  /\ table' = [table EXCEPT ![op.me] = [safe |-> 0, expired |-> FALSE]]
  /\ order' = Append(order, op.me)
  /\ hands' = hands + 1
  /\ op' = [kind |-> "armed", me |-> op.me, mine |-> op.mine]
  /\ job' = [job EXCEPT !.due = @ \ {op.me}]
  /\ UNCHANGED <<rows, overlap, crashes>>

\* busy, cd or poor
ArmRefused == op.kind = "arm" /\ (~MayArm \/ hands = MaxHands) /\ Ends /\ UNCHANGED dict

ArmCommit ==
  /\ op.kind = "armed"
  /\ cash' = [cash EXCEPT ![op.me] = op.mine - Bet]
  /\ cooling' = [cooling EXCEPT ![op.me] = TRUE]
  /\ op' = Idle
  /\ UNCHANGED <<casinoTp, dict, job, overlap, bounds>>

-----------------------------------------------------------------------------
(* pick, cashout and cancel.                                               *)

ClickBegin(u) == Begin([kind |-> "click", me |-> u, mine |-> cash[u]])

\* No table, another player's message, a tile already open, no safe tile to
\* be paid for, too late to cancel.
ClickIgnored == op.kind = "click" /\ Ends /\ UNCHANGED dict

\* The session's view of a closed table, before its commit.
Closing(pay, net) == [kind |-> "closing", me |-> op.me, mine |-> op.mine,
                      pay |-> pay, net |-> net]

\* _settle: a tracked player's statistics are awaited before the table goes.
Settle(pay) ==
  /\ IF op.me \in Tracked
       THEN /\ op' = [kind |-> "settling", me |-> op.me, mine |-> op.mine, pay |-> pay]
            /\ UNCHANGED dict
       ELSE op' = Closing(pay, pay - Bet) /\ Popped(op.me)
  /\ UNCHANGED <<rows, job, overlap, bounds>>

Settled == /\ op.kind = "settling"
           /\ op' = Closing(op.pay, op.pay - Bet)
           /\ Popped(op.me)
           /\ UNCHANGED <<rows, job, overlap, bounds>>

PickMine == op.kind = "click" /\ Playing(op.me) /\ Settle(0)

PickSafe ==
  /\ op.kind = "click" /\ Playing(op.me)
  /\ LET safe == table[op.me].safe + 1
     IN  IF safe = SafeTiles
           THEN Settle(Pay[safe])
           ELSE /\ table' = [table EXCEPT ![op.me].safe = safe]
                /\ Ends /\ UNCHANGED order

Cashout == /\ op.kind = "click" /\ Playing(op.me)
           /\ table[op.me].safe >= 1
           /\ Settle(Pay[table[op.me].safe])

\* Mistake: the stake goes back and the table stays.
RefundKeepsTable == /\ op' = Closing(Bet, 0)
                    /\ UNCHANGED <<rows, dict, job, overlap, bounds>>

\* The whole stake goes back: a cancelled table, or one that expires between
\* the handler's get() and the clock of pick or cashout.
Refund == /\ op' = Closing(Bet, 0)
          /\ Popped(op.me)
          /\ UNCHANGED <<rows, job, overlap, bounds>>

Cancel == op.kind = "click" /\ Playing(op.me) /\ table[op.me].safe = 0 /\ Refund

ExpiresUnderClick == op.kind = "click" /\ Playing(op.me) /\ Refund

ClickCommit ==
  /\ op.kind = "closing"
  /\ cash' = IF op.pay = 0 THEN cash ELSE [cash EXCEPT ![op.me] = op.mine + op.pay]
  /\ casinoTp' = [u \in Tracked |-> casinoTp[u] + IF u = op.me THEN op.net ELSE 0]
  /\ op' = Idle
  /\ UNCHANGED <<cooling, dict, job, overlap, bounds>>

-----------------------------------------------------------------------------
(* sweep_expired                                                           *)

\* The loop over the remaining keys up to its next await, its end, or the
\* KeyError of a key that a handler has removed meanwhile: an exception ends
\* the job, its session is rolled back, the dict stays as it is.
Resume(todo, due, tab, refunds) ==
  LET halts == {i \in DOMAIN todo : tab[todo[i]] = NULL \/ todo[i] \in due}
  IN  IF halts = {}
        THEN [Off EXCEPT !.refunds = refunds]
        ELSE LET i == CHOOSE i \in halts : \A j \in halts : i <= j
             IN  IF tab[todo[i]] = NULL
                   THEN Off
                   ELSE [todo |-> SubSeq(todo, i + 1, Len(todo)), due |-> due,
                         at |-> todo[i], held |-> NULL, refunds |-> refunds]

DueTables == {u \in Users : table[u] # NULL /\ table[u].expired}

\* Mistake: the sweep looks for tables that have not expired.
SweepBeginYoung ==
  /\ job = Off
  /\ \E u \in Users : Playing(u)
  /\ job' = Resume(order, {u \in Users : Playing(u)}, table, Off.refunds)
  /\ overlap' = (overlap \/ op # Idle)
  /\ UNCHANGED <<rows, dict, op, bounds>>

SweepBegin ==
  /\ job = Off
  /\ DueTables # {}
  /\ job' = Resume(order, DueTables, table, Off.refunds)
  /\ overlap' = (overlap \/ op # Idle)
  /\ UNCHANGED <<rows, dict, op, bounds>>

\* session.get: the row as it is now, unless the session holds it.
SweepRead ==
  /\ job.at # NULL /\ job.held = NULL
  /\ job' = [job EXCEPT !.held = cash[job.at]]
  /\ UNCHANGED <<rows, dict, op, overlap, bounds>>

\* The stake is added, the key deleted (KeyError if it is gone), and the
\* loop goes on.
SweepRefund ==
  /\ job.held # NULL
  /\ IF table[job.at] = NULL
       THEN job' = Off /\ UNCHANGED dict
       ELSE /\ Popped(job.at)
            /\ job' = Resume(job.todo, job.due, table',
                             [job.refunds EXCEPT ![job.at] = job.held + Bet])
  /\ UNCHANGED <<rows, op, overlap, bounds>>

SweepCommit ==
  /\ job # Off /\ job.at = NULL
  /\ cash' = [u \in Users |-> IF job.refunds[u] # NULL THEN job.refunds[u] ELSE cash[u]]
  /\ job' = Off
  /\ UNCHANGED <<cooling, casinoTp, dict, op, overlap, bounds>>

-----------------------------------------------------------------------------
\* MINES_TTL_SECONDS pass for a table.  Assumed: the commit of the handler
\* that armed it does not take as long.
Expire(u) == /\ Playing(u)
             /\ ~(op.kind = "armed" /\ op.me = u)
             /\ table' = [table EXCEPT ![u].expired = TRUE]
             /\ UNCHANGED <<rows, order, op, job, overlap, bounds>>

CoolDown(u) == /\ cooling[u]
               /\ cooling' = [cooling EXCEPT ![u] = FALSE]
               /\ UNCHANGED <<cash, casinoTp, dict, op, job, overlap, bounds>>

\* A restart: the dict is empty again and the stakes on it are gone.
Crash == /\ crashes < MaxCrashes
         /\ crashes' = crashes + 1
         /\ table' = [u \in Users |-> NULL] /\ order' = <<>>
         /\ op' = Idle /\ job' = Off
         /\ UNCHANGED <<rows, overlap, hands>>

HandlerBegin == \E u \in Users : ArmBegin(u) \/ ClickBegin(u)
HandlerStep  == \/ Arm \/ ArmRefused \/ ArmCommit
                \/ ClickIgnored \/ PickMine \/ PickSafe \/ Cashout \/ Cancel
                \/ ExpiresUnderClick \/ Settled \/ ClickCommit
JobStep      == SweepRead \/ SweepRefund \/ SweepCommit

Next == \/ HandlerBegin \/ HandlerStep
        \/ SweepBegin \/ JobStep
        \/ \E u \in Users : Expire(u) \/ CoolDown(u)
        \/ Crash

Spec == Init /\ [][Next]_vars

(* Tables expire, awaits return, and JobQueue repeats the sweep; players   *)
(* are free to stop.                                                       *)
Fairness == /\ \A u \in Users : WF_vars(Expire(u))
            /\ WF_vars(HandlerStep) /\ WF_vars(SweepBegin) /\ WF_vars(JobStep)

FairSpec == Spec /\ Fairness

-----------------------------------------------------------------------------
(* Properties.                                                             *)

Quiet    == op = Idle /\ job = Off
OnTable(u) == IF table[u] = NULL THEN 0 ELSE Bet

\* The dict and the database agree when nothing is running: what a tracked
\* player has in cash and on the table is what he began with and the net
\* result of his closed hands.  Cancelled and expired tables cost nothing;
\* a restart may cost the stake, never more, and never gives a stake back.
\* (A sweep that overlaps a handler breaks this: StakesComeBack.)
CashMatchesHands ==
  Quiet /\ ~overlap =>
    \A u \in Tracked :
      LET before == Cash0 + casinoTp[u]
          after  == cash[u] + OnTable(u)
      IN  after <= before /\ before - after <= crashes * Bet

\* Nobody is shut out by a table that is never closed: arm() refuses while
\* the dict has the key, and only the sweep removes an expired one, also
\* when a KeyError has cut earlier sweeps short.
TablesAreCleared == \A u \in Users : table[u] # NULL ~> table[u] = NULL

\* Without a restart, every expired table gives its whole stake back
\* (services/mines.py:191).
StakesComeBack ==
  Quiet /\ crashes = 0 =>
    \A u \in Tracked : cash[u] + OnTable(u) >= Cash0 + casinoTp[u]
=============================================================================
