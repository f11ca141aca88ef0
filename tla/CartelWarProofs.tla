--------------------------- MODULE CartelWarProofs ---------------------------
(***************************************************************************)
(* Proofs about CartelWar, for every set of cartels, users, war ids and    *)
(* handler tasks.                                                          *)
(***************************************************************************)
EXTENDS CartelWar, FiniteSetTheorems, TLAPS

-----------------------------------------------------------------------------
(* The inductive invariant.  The status of a war is written by id, without *)
(* being read again; what saves a started war is that every task that      *)
(* still holds an old view of it is older than the start delay.            *)

\* A task with an unanswered view of w can still write w's status: w has not
\* started and its start time has not come.
NotStarted(w) == /\ status[w] \in {"pending"} \cup Answered
                 /\ status[w] = "scheduled" => ~due[w]

PartiesInv ==
  /\ \A w \in Wars : status[w] # "absent" =>
       attacker[w] \in Cartels /\ defender[w] \in Cartels /\ attacker[w] # defender[w]
  /\ \A h \in Handlers : op[h].kind = "create" => op[h].att # op[h].def

StaleViewsInv ==
  /\ \A h \in Handlers : op[h].kind = "respond" => NotStarted(op[h].war)
  /\ \A w \in expiring : NotStarted(w)

StartingInv == \A w \in starting : status[w] = "scheduled" /\ due[w]

EndingInv ==
  /\ \A w \in ending : status[w] = "active"
  /\ finalizing # NULL => status[finalizing] = "active" /\ finalizing \notin ending

IInv == /\ TypeOK
        /\ PendingNamesLiveWar
        /\ PartiesInv
        /\ StaleViewsInv
        /\ StartingInv
        /\ EndingInv

-----------------------------------------------------------------------------
(* Lemmas about what a task has read.                                      *)

\* The kind of an operation tells which fields it carries.
LEMMA OpFields ==
  ASSUME NEW o \in Ops
  PROVE  /\ o.kind = "initiate" => o.att \in Cartels
         /\ o.kind = "create" => o.att \in Cartels /\ o.def \in Cartels
         /\ o.kind = "respond" => o.war \in Wars /\ o.verdict \in Answered
         /\ o.kind = "idle" => o = Idle
  BY DEF Ops, Idle

\* NULL is neither a cartel nor a war id, and every cartel has a leader.
LEMMA Constants ==
  /\ NULL \notin Cartels /\ NULL \notin Wars
  /\ CartelOf \in [Users -> Cartels \cup {NULL}]
  BY CartelWarAssumption

-----------------------------------------------------------------------------
(* Type correctness.                                                       *)

\* The initial database and tasks are well typed.
LEMMA TypeInit == Init => TypeOK
  BY CartelWarAssumption DEF Init, TypeOK, WarStatus, Live, Answered, Ops, Idle

\* The write of a status keeps the two columns it touches well typed.
LEMMA UpdateTypes ==
  ASSUME TypeOK, NEW w \in Wars, NEW s \in WarStatus, UpdateWarStatus(w, s)
  PROVE  status' \in [Wars -> WarStatus] /\ due' \in [Wars -> BOOLEAN]
  BY DEF TypeOK, UpdateWarStatus

\* Clearing pending_war_id leaves war ids or NULL in the column.
LEMMA ClearedTypes ==
  ASSUME TypeOK, NEW w
  PROVE  ClearedPending(w) \in [Cartels -> Wars \cup {NULL}]
  BY DEF TypeOK, ClearedPending

\* Every handler, job and restart step keeps the types.
LEMMA TypeStep == TypeOK /\ [Next]_vars => TypeOK'
  <1> SUFFICES ASSUME TypeOK, [Next]_vars PROVE TypeOK'
    OBVIOUS
  <1> USE Constants DEF vars, warRow, parties, cartelRow, jobs
  <1>1. ASSUME NEW h \in Handlers, NEW u \in Users, InitiateReadOwn(h, u)
        PROVE TypeOK'
    <2>1. [kind |-> "initiate", att |-> CartelOf[u]] \in Ops
      BY <1>1 DEF InitiateReadOwn, Ops
    <2>2. QED BY <1>1, <2>1 DEF InitiateReadOwn, TypeOK
  <1>2. ASSUME NEW h \in Handlers, NEW d \in Cartels, InitiateReadTarget(h, d)
        PROVE TypeOK'
    <2>1. op[h] \in Ops /\ op[h].att \in Cartels
      BY <1>2, OpFields DEF TypeOK, InitiateReadTarget
    <2>2. /\ [kind |-> "create", att |-> op[h].att, def |-> d] \in Ops
          /\ Idle \in Ops
      BY <2>1 DEF Ops
    <2>3. op' \in [Handlers -> Ops]
      BY <1>2, <2>2 DEF InitiateReadTarget, TypeOK
    <2>4. QED BY <1>2, <2>3 DEF InitiateReadTarget, TypeOK
  <1>3. ASSUME NEW h \in Handlers, NEW w \in Wars, InitiateCommit(h, w)
        PROVE TypeOK'
    <2>1. op[h].att \in Cartels /\ op[h].def \in Cartels
      BY <1>3, OpFields DEF TypeOK, InitiateCommit
    <2>2. status' \in [Wars -> WarStatus] /\ due' \in [Wars -> BOOLEAN]
      BY <1>3, UpdateTypes DEF InitiateCommit, CreateWarRequest, WarStatus, Live
    <2>3. Idle \in Ops
      BY DEF Ops
    <2>4. QED
      BY <1>3, <2>1, <2>2, <2>3 DEF InitiateCommit, CreateWarRequest, TypeOK
  <1>4. ASSUME NEW h \in Handlers, NEW u \in Users, NEW w \in Wars,
               NEW accept \in BOOLEAN, RespondRead(h, u, w, accept)
        PROVE TypeOK'
    <2> DEFINE v == IF due[w] THEN "expired"
                    ELSE IF accept THEN "scheduled" ELSE "rejected"
    <2>1. [kind |-> "respond", war |-> w, verdict |-> v] \in Ops
      BY DEF Ops, Answered
    <2>2. QED BY <1>4, <2>1 DEF RespondRead, TypeOK
  <1>5. ASSUME NEW h \in Handlers, RespondDecline(h)
        PROVE TypeOK'
    <2>1. op[h].war \in Wars /\ op[h].verdict \in WarStatus
      BY <1>5, OpFields DEF TypeOK, RespondDecline, WarStatus
    <2>2. status' \in [Wars -> WarStatus] /\ due' \in [Wars -> BOOLEAN]
      BY <1>5, <2>1, UpdateTypes DEF RespondDecline
    <2>3. pendingWar' \in [Cartels -> Wars \cup {NULL}]
      BY <1>5, ClearedTypes DEF RespondDecline
    <2>4. Idle \in Ops
      BY DEF Ops
    <2>5. QED BY <1>5, <2>2, <2>3, <2>4 DEF RespondDecline, TypeOK
  <1>6. ASSUME NEW h \in Handlers, RespondAccept(h)
        PROVE TypeOK'
    <2>1. op[h].war \in Wars
      BY <1>6, OpFields DEF TypeOK, RespondAccept
    <2>2. status' \in [Wars -> WarStatus] /\ due' \in [Wars -> BOOLEAN]
      BY <1>6, <2>1, UpdateTypes DEF RespondAccept, WarStatus, Live
    <2>3. dailyCount' \in [Cartels -> Nat]
      BY <1>6 DEF RespondAccept, DailyCountUp, TypeOK
    <2>4. Idle \in Ops
      BY DEF Ops
    <2>5. QED BY <1>6, <2>2, <2>3, <2>4 DEF RespondAccept, TypeOK
  <1>7. CASE FetchExpired
    BY <1>7 DEF FetchExpired, DueWars, TypeOK
  <1>8. ASSUME NEW w \in Wars, ExpireOne(w)
        PROVE TypeOK'
    <2>1. status' \in [Wars -> WarStatus] /\ due' \in [Wars -> BOOLEAN]
      BY <1>8, UpdateTypes DEF ExpireOne, WarStatus, Answered
    <2>2. pendingWar' \in [Cartels -> Wars \cup {NULL}]
      BY <1>8, ClearedTypes DEF ExpireOne
    <2>3. QED BY <1>8, <2>1, <2>2 DEF ExpireOne, TypeOK
  <1>9. CASE FetchScheduled
    BY <1>9 DEF FetchScheduled, DueWars, TypeOK
  <1>10. ASSUME NEW w \in Wars, StartOne(w)
         PROVE TypeOK'
    <2>1. status' \in [Wars -> WarStatus] /\ due' \in [Wars -> BOOLEAN]
      BY <1>10, UpdateTypes DEF StartOne, WarStatus
    <2>2. QED BY <1>10, <2>1 DEF StartOne, TypeOK
  <1>11. CASE FetchEnding
    BY <1>11 DEF FetchEnding, DueWars, TypeOK
  <1>12. ASSUME NEW w \in Wars, FinalizeRead(w)
         PROVE TypeOK'
    BY <1>12 DEF FinalizeRead, TypeOK
  <1>13. ASSUME NEW win \in Cartels \cup {NULL}, FinalizeCommit(win)
         PROVE TypeOK'
    <2>1. finalizing \in Wars
      BY <1>13 DEF FinalizeCommit, TypeOK
    <2>2. status' \in [Wars -> WarStatus] /\ due' \in [Wars -> BOOLEAN]
      BY <1>13, <2>1, UpdateTypes DEF FinalizeCommit, WarStatus
    <2>3. pendingWar' \in [Cartels -> Wars \cup {NULL}]
      BY <1>13, ClearedTypes DEF FinalizeCommit
    <2>4. /\ winner' \in [Wars -> Cartels \cup {NULL}]
          /\ totalWars' \in [Cartels -> Nat]
          /\ warWins' \in [Cartels -> Nat]
      BY <1>13, <2>1 DEF FinalizeCommit, TypeOK
    <2>5. QED BY <1>13, <2>2, <2>3, <2>4 DEF FinalizeCommit, TypeOK
  <1>14. CASE MidnightReset
    BY <1>14 DEF MidnightReset, TypeOK
  <1>15. ASSUME NEW w \in Wars,
                RequestTimesOut(w) \/ StartTimeComes(w) \/ EndTimeComes(w)
         PROVE TypeOK'
    BY <1>15 DEF RequestTimesOut, StartTimeComes, EndTimeComes, TypeOK
  <1>16. CASE Crash
    BY <1>16 DEF Crash, TypeOK, Ops
  <1>17. CASE UNCHANGED vars
    BY <1>17 DEF TypeOK
  <1>18. QED
    BY <1>1, <1>2, <1>3, <1>4, <1>5, <1>6, <1>7, <1>8, <1>9, <1>10, <1>11,
       <1>12, <1>13, <1>14, <1>15, <1>16, <1>17
       DEF Next, Initiate, Respond, PendingJob, ScheduledJob, ActiveJob, Time

\* Every column and every task-local value stays in its domain.
THEOREM TypeCorrect == Spec => []TypeOK
  BY TypeInit, TypeStep, PTL DEF Spec

-----------------------------------------------------------------------------
(* The invariant is inductive.                                             *)

\* The invariant holds of an empty war table.
LEMMA InitIInv == Init => IInv
  <1> SUFFICES ASSUME Init PROVE IInv
    OBVIOUS
  <1>1. TypeOK
    BY TypeInit
  <1>2. PendingNamesLiveWar /\ PartiesInv /\ StaleViewsInv /\ StartingInv /\ EndingInv
    BY CartelWarAssumption
       DEF Init, PendingNamesLiveWar, PartiesInv, StaleViewsInv, StartingInv,
           EndingInv, Idle
  <1>3. QED BY <1>1, <1>2 DEF IInv

\* A step that leaves the war rows, the parties and every task alone.
LEMMA SameWars ==
  ASSUME IInv, UNCHANGED <<status, attacker, defender, due>>
  PROVE  /\ op' = op => PartiesInv'
         /\ op' = op /\ expiring' = expiring => StaleViewsInv'
         /\ starting' = starting => StartingInv'
         /\ ending' = ending /\ finalizing' = finalizing => EndingInv'
         /\ pendingWar' = pendingWar => PendingNamesLiveWar'
  BY DEF IInv, PartiesInv, StaleViewsInv, NotStarted, StartingInv, EndingInv,
         PendingNamesLiveWar, Sides

\* Settling a war that has not started (reject, expire): every cartel that
\* names it is released and no other list mentions it.
LEMMA SettleStep ==
  ASSUME IInv, NEW w \in Wars, NEW s \in {"rejected", "expired"}, NotStarted(w),
         UpdateWarStatus(w, s), pendingWar' = ClearedPending(w),
         UNCHANGED <<attacker, defender, starting, ending, finalizing>>,
         expiring' \subseteq expiring,
         \A h \in Handlers : op'[h] \in {op[h], Idle}
  PROVE  PendingNamesLiveWar' /\ PartiesInv' /\ StaleViewsInv' /\ StartingInv'
         /\ EndingInv' /\ (status[w] # "absent")
  <1>1. TypeOK
    BY DEF IInv
  <1>2. /\ status' = [status EXCEPT ![w] = s]
        /\ due' = [due EXCEPT ![w] = FALSE]
    BY DEF UpdateWarStatus
  <1>3. PendingNamesLiveWar'
    BY <1>1, <1>2, CartelWarAssumption
       DEF IInv, PendingNamesLiveWar, ClearedPending, Sides, TypeOK
  <1>4. status[w] # "absent"
    BY DEF NotStarted, Answered
  <1>5. PartiesInv'
    BY <1>1, <1>2, <1>4 DEF IInv, PartiesInv, TypeOK, Idle
  <1>6. \A v \in Wars : NotStarted(v) => NotStarted(v)'
    BY <1>1, <1>2 DEF NotStarted, Answered, TypeOK
  <1>7. StaleViewsInv'
    <2>1. \A h \in Handlers : op'[h].kind = "respond" =>
            op'[h] = op[h] /\ op[h].war \in Wars
      BY <1>1, OpFields DEF TypeOK, Idle
    <2>2. expiring \subseteq Wars
      BY <1>1 DEF TypeOK
    <2>3. (\A h \in Handlers : op[h].kind = "respond" => NotStarted(op[h].war))'
      BY <1>6, <2>1 DEF IInv, StaleViewsInv
    <2>4. \A v \in expiring' : NotStarted(v)'
      BY <1>6, <2>2 DEF IInv, StaleViewsInv
    <2>5. QED BY <2>3, <2>4 DEF StaleViewsInv
  <1>8. w \notin starting /\ w \notin ending /\ w # finalizing
    BY CartelWarAssumption
       DEF IInv, StartingInv, EndingInv, NotStarted, Answered
  <1>9. StartingInv' /\ EndingInv'
    BY <1>1, <1>2, <1>8 DEF IInv, StartingInv, EndingInv, TypeOK
  <1>10. QED BY <1>3, <1>4, <1>5, <1>7, <1>9

\* Every step of the system keeps the invariant.
LEMMA NextIInv == IInv /\ [Next]_vars => IInv'
  <1> SUFFICES ASSUME IInv, [Next]_vars PROVE IInv'
    OBVIOUS
  <1> USE DEF vars, warRow, parties, cartelRow, jobs
  <1>t. TypeOK /\ TypeOK'
    BY TypeStep DEF IInv
  <1>c. NULL \notin Cartels /\ NULL \notin Wars
    BY CartelWarAssumption
  <1> DEFINE Rest == PendingNamesLiveWar /\ PartiesInv /\ StaleViewsInv
                     /\ StartingInv /\ EndingInv
  <1> SUFFICES Rest'
    BY <1>t DEF IInv
  <1>1. ASSUME NEW h \in Handlers, NEW u \in Users, InitiateReadOwn(h, u)
        PROVE Rest'
    <2>1. StartingInv' /\ EndingInv' /\ PendingNamesLiveWar'
      BY <1>1, SameWars DEF InitiateReadOwn
    <2>2. \A k \in Handlers : op'[k].kind \in {"create", "respond"} => op'[k] = op[k]
      BY <1>1, <1>t DEF InitiateReadOwn, TypeOK
    <2>3. PartiesInv' /\ StaleViewsInv'
      BY <1>1, <2>2
         DEF InitiateReadOwn, IInv, PartiesInv, StaleViewsInv, NotStarted
    <2>4. QED BY <2>1, <2>3
  <1>2. ASSUME NEW h \in Handlers, NEW d \in Cartels, InitiateReadTarget(h, d)
        PROVE Rest'
    <2>1. StartingInv' /\ EndingInv' /\ PendingNamesLiveWar'
      BY <1>2, SameWars DEF InitiateReadTarget
    <2>2. \A k \in Handlers \ {h} : op'[k] = op[k]
      BY <1>2, <1>t DEF InitiateReadTarget, TypeOK
    <2>3. /\ op'[h].kind # "respond"
          /\ op'[h].kind = "create" => op'[h].att # op'[h].def
      BY <1>2, <1>t DEF InitiateReadTarget, TypeOK, Idle
    <2>4. PartiesInv' /\ StaleViewsInv'
      BY <1>2, <2>2, <2>3
         DEF InitiateReadTarget, IInv, PartiesInv, StaleViewsInv, NotStarted
    <2>5. QED BY <2>1, <2>4
  <1>3. ASSUME NEW h \in Handlers, NEW w \in Wars, InitiateCommit(h, w)
        PROVE Rest'
    <2>1. /\ op[h].att \in Cartels /\ op[h].def \in Cartels
          /\ op[h].att # op[h].def
          /\ status[w] = "absent"
      BY <1>3, <1>t, OpFields
         DEF TypeOK, InitiateCommit, IInv, PartiesInv, CreateWarRequest
    <2>2. /\ status' = [status EXCEPT ![w] = "pending"]
          /\ due' = [due EXCEPT ![w] = FALSE]
          /\ attacker' = [attacker EXCEPT ![w] = op[h].att]
          /\ defender' = [defender EXCEPT ![w] = op[h].def]
          /\ pendingWar' = [c \in Cartels |-> IF c \in {op[h].att, op[h].def}
                                              THEN w ELSE pendingWar[c]]
          /\ op' = [op EXCEPT ![h] = Idle]
          /\ UNCHANGED jobs
      BY <1>3 DEF InitiateCommit, CreateWarRequest, UpdateWarStatus
    <2>3. PendingNamesLiveWar'
      <3>1. ASSUME NEW c \in Cartels, pendingWar'[c] # NULL
            PROVE  /\ status'[pendingWar'[c]] \in Live
                   /\ c \in {attacker'[pendingWar'[c]], defender'[pendingWar'[c]]}
        <4>1. CASE c \in {op[h].att, op[h].def}
          BY <2>2, <4>1, <1>t DEF TypeOK, Live
        <4>2. CASE c \notin {op[h].att, op[h].def}
          <5>1. pendingWar'[c] = pendingWar[c] /\ pendingWar[c] \in Wars
            BY <2>2, <3>1, <4>2, <1>t DEF TypeOK
          <5>2. pendingWar[c] # w
            BY <2>1, <5>1, <1>c DEF IInv, PendingNamesLiveWar, Live
          <5>3. QED
            BY <2>2, <5>1, <5>2, <1>c, <1>t
               DEF IInv, PendingNamesLiveWar, TypeOK, Sides
        <4>3. QED BY <4>1, <4>2
      <3>2. QED BY <3>1 DEF PendingNamesLiveWar, Sides
    <2>4. PartiesInv'
      BY <2>1, <2>2, <1>t DEF IInv, PartiesInv, TypeOK, Idle
    <2>5. \A v \in Wars : NotStarted(v) => v # w
      BY <2>1 DEF NotStarted, Answered
    <2>6. StaleViewsInv'
      <3>1. \A v \in Wars : NotStarted(v) => NotStarted(v)'
        BY <2>2, <2>5, <1>t DEF NotStarted, TypeOK
      <3>2. \A k \in Handlers : op'[k].kind = "respond" =>
              op'[k] = op[k] /\ op[k].war \in Wars
        BY <2>2, <1>t, OpFields DEF TypeOK, Idle
      <3>3. expiring \subseteq Wars
        BY <1>t DEF TypeOK
      <3>4. (\A k \in Handlers : op[k].kind = "respond" => NotStarted(op[k].war))'
        BY <3>1, <3>2 DEF IInv, StaleViewsInv
      <3>5. QED BY <2>2, <3>1, <3>3, <3>4 DEF IInv, StaleViewsInv
    <2>7. StartingInv' /\ EndingInv'
      BY <2>1, <2>2, <1>t DEF IInv, StartingInv, EndingInv, TypeOK
    <2>8. QED BY <2>3, <2>4, <2>6, <2>7
  <1>4. ASSUME NEW h \in Handlers, NEW u \in Users, NEW w \in Wars,
               NEW accept \in BOOLEAN, RespondRead(h, u, w, accept)
        PROVE Rest'
    <2>1. StartingInv' /\ EndingInv' /\ PendingNamesLiveWar'
      BY <1>4, SameWars DEF RespondRead
    <2>2. \A k \in Handlers \ {h} : op'[k] = op[k]
      BY <1>4, <1>t DEF RespondRead, TypeOK
    <2>3. op'[h].kind = "respond" /\ op'[h].war = w /\ NotStarted(w)
      BY <1>4, <1>t DEF RespondRead, TypeOK, NotStarted
    <2>4. PartiesInv' /\ StaleViewsInv'
      BY <1>4, <2>2, <2>3
         DEF RespondRead, IInv, PartiesInv, StaleViewsInv, NotStarted
    <2>5. QED BY <2>1, <2>4
  <1>5. ASSUME NEW h \in Handlers, RespondDecline(h)
        PROVE Rest'
    <2>1. /\ op[h].war \in Wars
          /\ op[h].verdict \in {"rejected", "expired"}
          /\ NotStarted(op[h].war)
      BY <1>5, <1>t, OpFields
         DEF RespondDecline, TypeOK, Answered, IInv, StaleViewsInv
    <2>2. \A k \in Handlers : op'[k] \in {op[k], Idle}
      BY <1>5, <1>t DEF RespondDecline, TypeOK
    <2>3. QED BY <1>5, <2>1, <2>2, SettleStep DEF RespondDecline
  <1>6. ASSUME NEW h \in Handlers, RespondAccept(h)
        PROVE Rest'
    <2> DEFINE w == op[h].war
    <2>1. w \in Wars /\ NotStarted(w)
      BY <1>6, <1>t, OpFields DEF RespondAccept, TypeOK, IInv, StaleViewsInv
    <2>2. /\ status' = [status EXCEPT ![w] = "scheduled"]
          /\ due' = [due EXCEPT ![w] = FALSE]
          /\ op' = [op EXCEPT ![h] = Idle]
          /\ UNCHANGED <<attacker, defender, pendingWar, jobs>>
      BY <1>6 DEF RespondAccept, UpdateWarStatus
    <2> HIDE DEF w
    <2>3. PendingNamesLiveWar'
      BY <2>1, <2>2, <1>t, <1>c
         DEF IInv, PendingNamesLiveWar, Sides, TypeOK, Live
    <2>4. PartiesInv'
      BY <2>1, <2>2, <1>t DEF IInv, PartiesInv, NotStarted, Answered, TypeOK, Idle
    <2>5. StaleViewsInv'
      <3>1. \A v \in Wars : NotStarted(v) => NotStarted(v)'
        BY <2>1, <2>2, <1>t DEF NotStarted, TypeOK, Answered
      <3>2. \A k \in Handlers : op'[k].kind = "respond" =>
              op'[k] = op[k] /\ op[k].war \in Wars
        BY <2>2, <1>t, OpFields DEF TypeOK, Idle
      <3>3. expiring \subseteq Wars
        BY <1>t DEF TypeOK
      <3>4. (\A k \in Handlers : op[k].kind = "respond" => NotStarted(op[k].war))'
        BY <3>1, <3>2 DEF IInv, StaleViewsInv
      <3>5. QED BY <2>2, <3>1, <3>3, <3>4 DEF IInv, StaleViewsInv
    <2>6. StartingInv' /\ EndingInv'
      BY <2>1, <2>2, <1>t
         DEF IInv, StartingInv, EndingInv, NotStarted, Answered, TypeOK
    <2>7. QED BY <2>3, <2>4, <2>5, <2>6
  <1>7. CASE FetchExpired
    <2>1. PartiesInv' /\ StartingInv' /\ EndingInv' /\ PendingNamesLiveWar'
      BY <1>7, SameWars DEF FetchExpired
    <2>2. StaleViewsInv'
      BY <1>7 DEF FetchExpired, IInv, StaleViewsInv, NotStarted, DueWars
    <2>3. QED BY <2>1, <2>2
  <1>8. ASSUME NEW w \in Wars, ExpireOne(w)
        PROVE Rest'
    <2>1. NotStarted(w)
      BY <1>8 DEF ExpireOne, IInv, StaleViewsInv
    <2>2. QED BY <1>8, <2>1, SettleStep DEF ExpireOne
  <1>9. CASE FetchScheduled
    <2>1. PartiesInv' /\ StaleViewsInv' /\ EndingInv' /\ PendingNamesLiveWar'
      BY <1>9, SameWars DEF FetchScheduled
    <2>2. StartingInv'
      BY <1>9 DEF FetchScheduled, StartingInv, DueWars
    <2>3. QED BY <2>1, <2>2
  <1>10. ASSUME NEW w \in Wars, StartOne(w)
         PROVE Rest'
    <2>1. /\ status[w] = "scheduled" /\ due[w]
          /\ status' = [status EXCEPT ![w] = "active"]
          /\ due' = [due EXCEPT ![w] = FALSE]
          /\ starting' = starting \ {w}
          /\ UNCHANGED <<attacker, defender, pendingWar, op, expiring, ending, finalizing>>
      BY <1>10 DEF StartOne, UpdateWarStatus, IInv, StartingInv
    <2>2. PendingNamesLiveWar'
      BY <2>1, <1>t, <1>c DEF IInv, PendingNamesLiveWar, Sides, TypeOK, Live
    <2>3. PartiesInv'
      BY <2>1, <1>t DEF IInv, PartiesInv, TypeOK
    <2>4. \A v \in Wars : NotStarted(v) => NotStarted(v)'
      BY <2>1, <1>t DEF NotStarted, TypeOK
    <2>5. StaleViewsInv'
      <3>1. \A k \in Handlers : op[k].kind = "respond" => op[k].war \in Wars
        BY <1>t, OpFields DEF TypeOK
      <3>2. expiring \subseteq Wars
        BY <1>t DEF TypeOK
      <3>3. QED BY <2>1, <2>4, <3>1, <3>2 DEF IInv, StaleViewsInv
    <2>6. StartingInv' /\ EndingInv'
      BY <2>1, <1>t DEF IInv, StartingInv, EndingInv, TypeOK
    <2>7. QED BY <2>2, <2>3, <2>5, <2>6
  <1>11. CASE FetchEnding
    <2>1. PartiesInv' /\ StaleViewsInv' /\ StartingInv' /\ PendingNamesLiveWar'
      BY <1>11, SameWars DEF FetchEnding
    <2>2. EndingInv'
      BY <1>11 DEF FetchEnding, EndingInv, DueWars
    <2>3. QED BY <2>1, <2>2
  <1>12. ASSUME NEW w \in Wars, FinalizeRead(w)
         PROVE Rest'
    <2>1. PartiesInv' /\ StaleViewsInv' /\ StartingInv' /\ PendingNamesLiveWar'
      BY <1>12, SameWars DEF FinalizeRead
    <2>2. EndingInv'
      BY <1>12 DEF FinalizeRead, IInv, EndingInv
    <2>3. QED BY <2>1, <2>2
  <1>13. ASSUME NEW win \in Cartels \cup {NULL}, FinalizeCommit(win)
         PROVE Rest'
    <2> DEFINE w == finalizing
    <2>1. /\ w \in Wars /\ status[w] = "active" /\ w \notin ending
          /\ status' = [status EXCEPT ![w] = "finished"]
          /\ due' = [due EXCEPT ![w] = FALSE]
          /\ pendingWar' = ClearedPending(w)
          /\ finalizing' = NULL
          /\ UNCHANGED <<attacker, defender, op, expiring, starting, ending>>
      BY <1>13, <1>t DEF FinalizeCommit, UpdateWarStatus, IInv, EndingInv, TypeOK
    <2> HIDE DEF w
    <2>2. PendingNamesLiveWar'
      BY <2>1, <1>t, <1>c
         DEF IInv, PendingNamesLiveWar, ClearedPending, Sides, TypeOK
    <2>3. PartiesInv'
      BY <2>1, <1>t DEF IInv, PartiesInv, TypeOK
    <2>4. \A v \in Wars : NotStarted(v) => NotStarted(v)'
      BY <2>1, <1>t DEF NotStarted, Answered, TypeOK
    <2>5. StaleViewsInv'
      <3>1. \A k \in Handlers : op[k].kind = "respond" => op[k].war \in Wars
        BY <1>t, OpFields DEF TypeOK
      <3>2. expiring \subseteq Wars
        BY <1>t DEF TypeOK
      <3>3. QED BY <2>1, <2>4, <3>1, <3>2 DEF IInv, StaleViewsInv
    <2>6. StartingInv' /\ EndingInv'
      BY <2>1, <1>t DEF IInv, StartingInv, EndingInv, TypeOK
    <2>7. QED BY <2>2, <2>3, <2>5, <2>6
  <1>14. CASE MidnightReset
    <2>1. PartiesInv' /\ StaleViewsInv' /\ StartingInv' /\ EndingInv'
      BY <1>14, SameWars DEF MidnightReset
    <2>2. PendingNamesLiveWar'
      BY <1>14, <1>t DEF MidnightReset, IInv, PendingNamesLiveWar, Sides, TypeOK
    <2>3. QED BY <2>1, <2>2
  <1>15. ASSUME NEW w \in Wars,
                RequestTimesOut(w) \/ StartTimeComes(w) \/ EndTimeComes(w)
         PROVE Rest'
    <2>1. /\ due' = [due EXCEPT ![w] = TRUE]
          /\ UNCHANGED <<status, attacker, defender, pendingWar, op, expiring,
                         starting, ending, finalizing>>
      BY <1>15 DEF RequestTimesOut, StartTimeComes, EndTimeComes
    <2>2. status[w] = "scheduled" => ~Responding(w) /\ w \notin expiring
      BY <1>15 DEF RequestTimesOut, StartTimeComes, EndTimeComes
    <2>3. PendingNamesLiveWar' /\ PartiesInv' /\ EndingInv'
      BY <2>1 DEF IInv, PendingNamesLiveWar, PartiesInv, EndingInv, Sides
    <2>4. StaleViewsInv'
      <3>1. ASSUME NEW v \in Wars, NotStarted(v), status[w] = "scheduled" => v # w
            PROVE NotStarted(v)'
        BY <2>1, <3>1, <1>t DEF NotStarted, TypeOK
      <3>2. \A k \in Handlers : op[k].kind = "respond" => op[k].war \in Wars
        BY <1>t, OpFields DEF TypeOK
      <3>3. \A k \in Handlers : op[k].kind = "respond" =>
              (status[w] = "scheduled" => op[k].war # w)
        BY <2>2 DEF Responding
      <3>4. (\A k \in Handlers : op[k].kind = "respond" => NotStarted(op[k].war))'
        BY <2>1, <3>1, <3>2, <3>3 DEF IInv, StaleViewsInv
      <3>5. (\A v \in expiring : NotStarted(v))'
        BY <2>1, <2>2, <3>1, <1>t DEF IInv, StaleViewsInv, TypeOK
      <3>6. QED BY <3>4, <3>5 DEF StaleViewsInv
    <2>5. StartingInv'
      BY <2>1, <1>t DEF IInv, StartingInv, TypeOK
    <2>6. QED BY <2>3, <2>4, <2>5
  <1>16. CASE Crash
    <2>1. PendingNamesLiveWar'
      BY <1>16, SameWars DEF Crash
    <2>2. PartiesInv' /\ StaleViewsInv' /\ StartingInv' /\ EndingInv'
      BY <1>16 DEF Crash, IInv, PartiesInv, StaleViewsInv, StartingInv, EndingInv, Idle
    <2>3. QED BY <2>1, <2>2
  <1>17. CASE UNCHANGED vars
    BY <1>17, SameWars
  <1>18. QED
    BY <1>1, <1>2, <1>3, <1>4, <1>5, <1>6, <1>7, <1>8, <1>9, <1>10, <1>11,
       <1>12, <1>13, <1>14, <1>15, <1>16, <1>17
       DEF Next, Initiate, Respond, PendingJob, ScheduledJob, ActiveJob, Time

\* The invariant holds in every state.
LEMMA IInvAlways == Spec => []IInv
  BY InitIInv, NextIInv, PTL DEF Spec

\* A cartel's pending_war_id always names one of its own live wars.
THEOREM PendingAlwaysLive == Spec => []PendingNamesLiveWar
  <1>1. IInv => PendingNamesLiveWar
    BY DEF IInv
  <1>2. QED BY <1>1, IInvAlways, PTL

-----------------------------------------------------------------------------
(* What a step can do to a war row.  The properties below look at a step   *)
(* only through these five shapes.                                         *)

ledger == <<winner, totalWars, warWins>>

\* No war row changes.
StaysPut == UNCHANGED <<status, attacker, defender, ledger>>

\* A new request is inserted.
IsRequested(w) ==
  /\ status[w] = "absent"
  /\ status' = [status EXCEPT ![w] = "pending"]
  /\ \E a, d \in Cartels : /\ attacker' = [attacker EXCEPT ![w] = a]
                           /\ defender' = [defender EXCEPT ![w] = d]
  /\ UNCHANGED ledger

\* An unstarted war is answered, perhaps once more.
IsAnswered(w) ==
  /\ status[w] \in {"pending"} \cup Answered
  /\ \E s \in Answered : status' = [status EXCEPT ![w] = s]
  /\ UNCHANGED <<attacker, defender, ledger>>

IsStarted(w) ==
  /\ status[w] = "scheduled"
  /\ status' = [status EXCEPT ![w] = "active"]
  /\ UNCHANGED <<attacker, defender, ledger>>

IsFinished(w, win) ==
  /\ status[w] = "active"
  /\ status' = [status EXCEPT ![w] = "finished"]
  /\ attacker[w] \in Cartels /\ defender[w] \in Cartels
  /\ attacker[w] # defender[w]
  /\ win \in {attacker[w], defender[w], NULL}
  /\ winner' = [winner EXCEPT ![w] = IF win # NULL THEN win ELSE winner[w]]
  /\ totalWars' = [c \in Cartels |->
                     totalWars[c] + IF c \in {attacker[w], defender[w]} THEN 1 ELSE 0]
  /\ warWins' = [c \in Cartels |-> warWins[c] + IF c = win THEN 1 ELSE 0]
  /\ UNCHANGED <<attacker, defender>>

\* A step moves at most one war, by one of four moves; every other step
\* leaves all statuses and the ledger of the cartels alone.
LEMMA StepShapes ==
  ASSUME IInv, [Next]_vars
  PROVE  \/ StaysPut
         \/ \E w \in Wars : \/ IsRequested(w) \/ IsAnswered(w) \/ IsStarted(w)
                           \/ \E win \in Cartels \cup {NULL} : IsFinished(w, win)
  <1> DEFINE Goal == \/ StaysPut
                     \/ \E w \in Wars :
                          \/ IsRequested(w) \/ IsAnswered(w) \/ IsStarted(w)
                          \/ \E win \in Cartels \cup {NULL} : IsFinished(w, win)
  <1> SUFFICES Goal
    OBVIOUS
  <1> USE DEF vars, warRow, parties, cartelRow, jobs, ledger
  <1>t. TypeOK
    BY DEF IInv
  <1>1. ASSUME NEW h \in Handlers, Initiate(h) PROVE Goal
    <2>1. ASSUME NEW w \in Wars, InitiateCommit(h, w) PROVE Goal
      <3>1. op[h].att \in Cartels /\ op[h].def \in Cartels
        BY <2>1, <1>t, OpFields DEF TypeOK, InitiateCommit
      <3>2. IsRequested(w)
        BY <2>1, <3>1
           DEF InitiateCommit, CreateWarRequest, UpdateWarStatus, IsRequested
      <3>3. QED BY <3>2
    <2>2. QED
      BY <1>1, <2>1 DEF Initiate, InitiateReadOwn, InitiateReadTarget, StaysPut
  <1>2. ASSUME NEW h \in Handlers, Respond(h) PROVE Goal
    <2>1. ASSUME RespondDecline(h) \/ RespondAccept(h) PROVE Goal
      <3>1. /\ op[h].war \in Wars /\ op[h].verdict \in Answered
            /\ NotStarted(op[h].war)
        BY <2>1, <1>t, OpFields
           DEF RespondDecline, RespondAccept, TypeOK, IInv, StaleViewsInv
      <3>2. IsAnswered(op[h].war)
        BY <2>1, <3>1
           DEF RespondDecline, RespondAccept, UpdateWarStatus, IsAnswered, NotStarted
      <3>3. QED BY <3>1, <3>2
    <2>2. QED BY <1>2, <2>1 DEF Respond, RespondRead, StaysPut
  <1>3. CASE PendingJob
    <2>1. ASSUME NEW w \in Wars, ExpireOne(w) PROVE IsAnswered(w)
      BY <2>1 DEF ExpireOne, UpdateWarStatus, IsAnswered, NotStarted, IInv,
                  StaleViewsInv, Answered
    <2>2. QED BY <1>3, <2>1 DEF PendingJob, FetchExpired, StaysPut
  <1>4. CASE ScheduledJob
    <2>1. ASSUME NEW w \in Wars, StartOne(w) PROVE IsStarted(w)
      BY <2>1 DEF StartOne, UpdateWarStatus, IsStarted, IInv, StartingInv
    <2>2. QED BY <1>4, <2>1 DEF ScheduledJob, FetchScheduled, StaysPut
  <1>5. CASE ActiveJob
    <2>1. ASSUME NEW win \in Cartels \cup {NULL}, FinalizeCommit(win) PROVE Goal
      <3> DEFINE w == finalizing
      <3>1. w \in Wars /\ status[w] = "active"
        BY <2>1, <1>t DEF FinalizeCommit, TypeOK, IInv, EndingInv
      <3>2. IsFinished(w, win)
        BY <2>1, <3>1
           DEF FinalizeCommit, UpdateWarStatus, IsFinished, Sides, IInv, PartiesInv
      <3>3. QED BY <3>1, <3>2
    <2>2. QED BY <1>5, <2>1 DEF ActiveJob, FetchEnding, FinalizeRead, StaysPut
  <1>6. CASE MidnightReset \/ Time \/ Crash \/ UNCHANGED vars
    BY <1>6 DEF MidnightReset, Time, RequestTimesOut, StartTimeComes,
                EndTimeComes, Crash, StaysPut
  <1>7. QED
    BY <1>1, <1>2, <1>3, <1>4, <1>5, <1>6 DEF Next

-----------------------------------------------------------------------------
(* A started war runs to its end.                                          *)

\* Once ACTIVE a war is only ever finished, and FINISHED is final.
THEOREM StartedWarsFinish == Spec => StartedWarRunsToItsEnd
  <1> DEFINE Act == \A w \in Wars :
               /\ status[w] = "active" => status'[w] \in {"active", "finished"}
               /\ status[w] = "finished" => status'[w] = "finished"
  <1>1. ASSUME IInv, [Next]_vars PROVE Act
    <2>1. TypeOK
      BY <1>1 DEF IInv
    <2>2. CASE StaysPut
      BY <2>2 DEF StaysPut
    <2>3. ASSUME NEW w \in Wars,
                 \/ IsRequested(w) \/ IsAnswered(w) \/ IsStarted(w)
                 \/ \E win \in Cartels \cup {NULL} : IsFinished(w, win)
          PROVE Act
      <3>1. \E s : status' = [status EXCEPT ![w] = s]
        BY <2>3 DEF IsRequested, IsAnswered, IsStarted, IsFinished
      <3>2. /\ status[w] = "active" => status'[w] = "finished"
            /\ status[w] # "finished"
        BY <2>1, <2>3
           DEF IsRequested, IsAnswered, IsStarted, IsFinished, Answered, TypeOK
      <3>3. QED BY <2>1, <3>1, <3>2 DEF TypeOK
    <2>4. QED BY <1>1, <2>2, <2>3, StepShapes
  <1>2. QED
    BY <1>1, IInvAlways, PTL DEF Spec, StartedWarRunsToItsEnd

-----------------------------------------------------------------------------
(* The lifecycle implements WarPhases.                                     *)

\* The phase of each status.
LEMMA PhaseOfAt ==
  /\ PhaseOf("absent") = "absent"
  /\ PhaseOf("pending") = "requested"
  /\ \A s \in Answered : PhaseOf(s) = "answered"
  /\ PhaseOf("active") = "running"
  /\ PhaseOf("finished") = "over"
  BY DEF PhaseOf, Answered

\* Every behaviour of the handlers and jobs, seen through the phases of the
\* wars and the totals of the cartels, is one of the abstract lifecycle.
THEOREM WarPhasesImplemented == Spec => ImplementsWarPhases
  <1> DEFINE ph == [w \in Wars |-> PhaseOf(status[w])]
  <1>1. Init => Phases!Init
    BY PhaseOfAt DEF Init, Phases!Init
  <1>2. ASSUME IInv, [Next]_vars PROVE [Phases!Next]_(Phases!vars)
    <2>t. TypeOK
      BY <1>2 DEF IInv
    <2>1. CASE StaysPut
      BY <2>1 DEF StaysPut, ledger, Phases!vars
    <2>2. ASSUME NEW w \in Wars, NEW s, NEW p,
                 PhaseOf(s) = p, status' = [status EXCEPT ![w] = s]
          PROVE  ph' = [ph EXCEPT ![w] = p]
      BY <2>t, <2>2 DEF TypeOK
    <2>3. ASSUME NEW w \in Wars, IsRequested(w) PROVE Phases!Next
      <3>a. ph[w] = "absent"
        BY <2>3, PhaseOfAt DEF IsRequested
      <3>b. ph' = [ph EXCEPT ![w] = "requested"]
        <4>1. \E s : PhaseOf(s) = "requested" /\ status' = [status EXCEPT ![w] = s]
          BY <2>3, PhaseOfAt DEF IsRequested
        <4>2. QED BY <4>1, <2>2
      <3>1. ph[w] = "absent" /\ ph' = [ph EXCEPT ![w] = "requested"]
        BY <3>a, <3>b
      <3>2. Phases!Request(w)
        BY <2>3, <3>1 DEF Phases!Request, Phases!Move, IsRequested, ledger
      <3>3. QED BY <3>2 DEF Phases!Next
    <2>4. ASSUME NEW w \in Wars, IsAnswered(w)
          PROVE  [Phases!Next]_(Phases!vars)
      <3>a. ph[w] \in {"requested", "answered"}
        BY <2>4, PhaseOfAt DEF IsAnswered
      <3>b. ph' = [ph EXCEPT ![w] = "answered"]
        <4>1. \E s : PhaseOf(s) = "answered" /\ status' = [status EXCEPT ![w] = s]
          BY <2>4, PhaseOfAt DEF IsAnswered
        <4>2. QED BY <4>1, <2>2
      <3>1. ph[w] \in {"requested", "answered"} /\ ph' = [ph EXCEPT ![w] = "answered"]
        BY <3>a, <3>b
      <3>2. CASE ph[w] = "requested"
        <4>1. Phases!Answer(w)
          BY <2>4, <3>1, <3>2 DEF Phases!Answer, Phases!Move, IsAnswered, ledger
        <4>2. QED BY <4>1 DEF Phases!Next
      <3>3. CASE ph[w] = "answered"
        BY <2>4, <3>1, <3>3 DEF Phases!vars, IsAnswered, ledger
      <3>4. QED BY <3>1, <3>2, <3>3
    <2>5. ASSUME NEW w \in Wars, IsStarted(w) PROVE Phases!Next
      <3>a. ph[w] = "answered"
        BY <2>5, PhaseOfAt DEF IsStarted, Answered
      <3>b. ph' = [ph EXCEPT ![w] = "running"]
        <4>1. \E s : PhaseOf(s) = "running" /\ status' = [status EXCEPT ![w] = s]
          BY <2>5, PhaseOfAt DEF IsStarted, Answered
        <4>2. QED BY <4>1, <2>2
      <3>1. ph[w] = "answered" /\ ph' = [ph EXCEPT ![w] = "running"]
        BY <3>a, <3>b
      <3>2. Phases!Run(w)
        BY <2>5, <3>1 DEF Phases!Run, Phases!Move, IsStarted, ledger
      <3>3. QED BY <3>2 DEF Phases!Next
    <2>6. ASSUME NEW w \in Wars, NEW win \in Cartels \cup {NULL}, IsFinished(w, win)
          PROVE Phases!Next
      <3> DEFINE a == attacker[w]
                 d == defender[w]
      <3>a. ph[w] = "running"
        BY <2>6, PhaseOfAt DEF IsFinished
      <3>b. ph' = [ph EXCEPT ![w] = "over"]
        <4>1. \E s : PhaseOf(s) = "over" /\ status' = [status EXCEPT ![w] = s]
          BY <2>6, PhaseOfAt DEF IsFinished
        <4>2. QED BY <4>1, <2>2
      <3>1. ph[w] = "running" /\ ph' = [ph EXCEPT ![w] = "over"]
        BY <3>a, <3>b
      <3>2. \E winners \in {{}, {a}, {d}} :
              warWins' = [c \in Cartels |->
                            warWins[c] + IF c \in winners THEN 1 ELSE 0]
        <4>1. CASE win = NULL
          <5>1. \A c \in Cartels : c # NULL
            BY CartelWarAssumption
          <5>2. warWins' = [c \in Cartels |->
                              warWins[c] + IF c \in {} THEN 1 ELSE 0]
            BY <2>6, <4>1, <5>1 DEF IsFinished
          <5>3. QED BY <5>2
        <4>2. CASE win # NULL
          BY <2>6, <4>2 DEF IsFinished
        <4>3. QED BY <4>1, <4>2
      <3>3. Phases!Finish(w, a, d)
        BY <2>6, <3>1, <3>2 DEF Phases!Finish, Phases!Move, IsFinished
      <3>4. a \in Cartels /\ d \in Cartels
        BY <2>6 DEF IsFinished
      <3>5. QED BY <3>3, <3>4 DEF Phases!Next
    <2>7. QED
      BY <1>2, <2>1, <2>3, <2>4, <2>5, <2>6, StepShapes
  <1>3. QED
    BY <1>1, <1>2, IInvAlways, PTL DEF Spec, ImplementsWarPhases, Phases!Spec

-----------------------------------------------------------------------------
(* The totals of the cartels agree with the finished wars.                 *)

WonBy(c) == {w \in Finished(c) : winner[w] = c}

LedgerInv == /\ LedgerMatchesWars
             /\ \A w \in Wars : status[w] # "finished" => winner[w] = NULL

\* The sets the ledger counts are finite.
LEMMA FinishedFinite ==
  ASSUME NEW c
  PROVE  /\ IsFiniteSet(Finished(c)) /\ IsFiniteSet(WonBy(c))
         /\ Cardinality(Finished(c)) \in Nat /\ Cardinality(WonBy(c)) \in Nat
  <1>1. /\ Finished(c) \subseteq Wars /\ WonBy(c) \subseteq Wars
        /\ IsFiniteSet(Wars)
    BY CartelWarAssumption DEF Finished, WonBy
  <1>2. QED BY <1>1, FS_Subset, FS_CardinalityType

\* A step that finishes no war keeps both counted sets.
LEMMA UncountedStep ==
  ASSUME LedgerInv, UNCHANGED <<winner, totalWars, warWins>>,
         \A w \in Wars :
           /\ status'[w] = "finished" <=> status[w] = "finished"
           /\ status[w] = "finished" => Sides(w)' = Sides(w)
  PROVE  LedgerInv'
  <1>1. \A c : Finished(c)' = Finished(c)
    BY DEF Finished
  <1>2. QED BY <1>1 DEF LedgerInv, LedgerMatchesWars

\* The step that finishes w adds w, and only w, to the sets of its parties.
LEMMA CountedStep ==
  ASSUME TypeOK, LedgerInv, NEW w \in Wars, NEW win \in Cartels \cup {NULL},
         IsFinished(w, win)
  PROVE  LedgerInv'
  <1>1. /\ status' = [status EXCEPT ![w] = "finished"] /\ status[w] = "active"
        /\ Sides(w) = {attacker[w], defender[w]}
        /\ \A v : Sides(v)' = Sides(v)
        /\ winner' = [winner EXCEPT ![w] = win]
        /\ win \in Sides(w) \cup {NULL}
    BY DEF IsFinished, LedgerInv, Sides
  <1>2. \A v \in Wars : status'[v] # "finished" => winner'[v] = NULL
    BY <1>1 DEF TypeOK, LedgerInv
  <1>3. ASSUME NEW c \in Cartels
        PROVE  /\ totalWars'[c] = Cardinality(Finished(c))'
               /\ warWins'[c] = Cardinality(WonBy(c))'
    <2>1. /\ totalWars[c] = Cardinality(Finished(c))
          /\ warWins[c] = Cardinality(WonBy(c))
          /\ totalWars[c] \in Nat /\ warWins[c] \in Nat
      BY DEF LedgerInv, LedgerMatchesWars, WonBy, TypeOK
    <2>2. w \notin Finished(c) /\ w \notin WonBy(c)
      BY <1>1 DEF Finished, WonBy
    <2>3. c # NULL
      BY CartelWarAssumption
    <2>4. CASE c \in Sides(w)
      <3>1. Finished(c)' = Finished(c) \cup {w}
        BY <1>1, <2>4 DEF Finished, TypeOK
      <3>2. totalWars'[c] = totalWars[c] + 1
        BY <1>1, <2>4 DEF IsFinished, TypeOK
      <3>3. Cardinality(Finished(c) \cup {w}) = Cardinality(Finished(c)) + 1
        BY <2>2, FinishedFinite, FS_AddElement
      <3>4. CASE c = win
        <4>1. WonBy(c)' = WonBy(c) \cup {w}
          BY <1>1, <3>1, <3>4, <2>2 DEF WonBy, TypeOK
        <4>2. Cardinality(WonBy(c) \cup {w}) = Cardinality(WonBy(c)) + 1
          BY <2>2, FinishedFinite, FS_AddElement
        <4>3. warWins'[c] = warWins[c] + 1
          BY <3>4 DEF IsFinished, TypeOK
        <4>4. QED BY <2>1, <3>1, <3>2, <3>3, <4>1, <4>2, <4>3
      <3>5. CASE c # win
        <4>1. WonBy(c)' = WonBy(c)
          BY <1>1, <3>1, <3>5, <2>2, <2>3 DEF WonBy, TypeOK, Finished
        <4>2. warWins'[c] = warWins[c]
          BY <3>5, <2>1 DEF IsFinished, TypeOK
        <4>3. QED BY <2>1, <3>1, <3>2, <3>3, <4>1, <4>2
      <3>6. QED BY <3>4, <3>5
    <2>5. CASE c \notin Sides(w)
      <3>1. Finished(c)' = Finished(c)
        BY <1>1, <2>5, <2>2 DEF Finished, TypeOK
      <3>2. WonBy(c)' = WonBy(c)
        BY <1>1, <3>1, <2>2 DEF WonBy, TypeOK, Finished
      <3>3. c # win
        BY <1>1, <2>3, <2>5
      <3>4. totalWars'[c] = totalWars[c] /\ warWins'[c] = warWins[c]
        BY <1>1, <2>1, <2>5, <3>3 DEF IsFinished, TypeOK
      <3>5. QED BY <2>1, <3>1, <3>2, <3>4
    <2>6. QED BY <2>4, <2>5
  <1>4. LedgerMatchesWars'
    BY <1>3 DEF LedgerMatchesWars, WonBy
  <1>5. QED BY <1>2, <1>4 DEF LedgerInv

\* Every finished war is counted once for each of its cartels and once for
\* its winner, whatever the jobs and restarts do.
THEOREM LedgerCorrect == Spec => []LedgerMatchesWars
  <1>1. Init => LedgerInv
    <2> SUFFICES ASSUME Init PROVE LedgerInv
      OBVIOUS
    <2>1. \A c : Finished(c) = {} /\ WonBy(c) = {}
      BY DEF Init, Finished, WonBy
    <2>2. Cardinality({}) = 0
      BY FS_EmptySet
    <2>3. QED BY <2>1, <2>2 DEF Init, LedgerInv, LedgerMatchesWars, WonBy
  <1>2. ASSUME IInv, LedgerInv, [Next]_vars PROVE LedgerInv'
    <2>1. TypeOK
      BY <1>2 DEF IInv
    <2>2. CASE StaysPut
      BY <1>2, <2>2, UncountedStep DEF StaysPut, ledger, Sides
    <2>3. ASSUME NEW w \in Wars, IsRequested(w) \/ IsAnswered(w) \/ IsStarted(w)
          PROVE LedgerInv'
      <3>1. \A v \in Wars :
              /\ status'[v] = "finished" <=> status[v] = "finished"
              /\ status[v] = "finished" => Sides(v)' = Sides(v)
        BY <2>1, <2>3
           DEF TypeOK, IsRequested, IsAnswered, IsStarted, Answered, Sides
      <3>2. UNCHANGED <<winner, totalWars, warWins>>
        BY <2>3 DEF IsRequested, IsAnswered, IsStarted, ledger
      <3>3. QED BY <1>2, <3>1, <3>2, UncountedStep
    <2>4. ASSUME NEW w \in Wars, NEW win \in Cartels \cup {NULL}, IsFinished(w, win)
          PROVE LedgerInv'
      BY <1>2, <2>1, <2>4, CountedStep
    <2>5. QED BY <1>2, <2>2, <2>3, <2>4, StepShapes
  <1>3. LedgerInv => LedgerMatchesWars
    BY DEF LedgerInv
  <1>4. QED BY <1>1, <1>2, <1>3, IInvAlways, PTL DEF Spec
=============================================================================
