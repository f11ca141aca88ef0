-------------------------- MODULE WarAttackProofs --------------------------
(***************************************************************************)
(* Proofs about WarAttack: type correctness, the cooldown of a player, the *)
(* one side a player fights for, and what the score, the medals and the    *)
(* winner have to do with the log.                                         *)
(***************************************************************************)
EXTENDS WarAttack, Sums

\* A stored time is the time less a part of a second.
LEMMA StoredRange ==
  ASSUME NEW t \in Nat
  PROVE  Stored(t) \in Nat /\ Stored(t) <= t /\ t - Stored(t) < Second
<1>1. Second \in Nat /\ Second > 0
  BY WarAttackAssumption
<1>2. t % Second \in 0 .. (Second - 1) /\ t % Second <= t
  BY <1>1, SMTT(30)
<1> QED BY <1>1, <1>2 DEF Stored

\* Roster sizes are natural numbers.
LEMMA SizeType ==
  ASSUME TypeOK, NEW s \in Side
  PROVE  Size(s) \in Nat
<1>1. Cardinality({u \in Users : member[u] = s}) \in Nat
  BY WarAttackAssumption, FS_Subset, FS_CardinalityType
<1>2. Bench[s] \in Nat
  BY WarAttackAssumption
<1> QED BY <1>1, <1>2 DEF Size

\* The multiplier is one of the four percentages of the table.
LEMMA MultiplierType ==
  ASSUME NEW a \in Nat, NEW b \in Nat
  PROVE  Multiplier(a, b) \in {100, 115, 130, 150}
<1> DEFINE diff == b - a
<1>1. diff \in Int
  OBVIOUS
<1>2. \/ diff <= 4 \/ (diff > 4 /\ diff <= 9) \/ (diff > 9 /\ diff <= 14) \/ diff > 14
  BY <1>1
<1> QED BY <1>1, <1>2 DEF Multiplier

\* The XP of a fight is a natural number.
LEMMA GainType ==
  ASSUME TypeOK, NEW s \in Side, NEW win \in BOOLEAN
  PROVE  Gain(win, s) \in Nat
<1>1. Other(s) \in Side
  BY DEF Other, Side
<1>2. Multiplier(Size(s), Size(Other(s))) \in {100, 115, 130, 150}
  BY <1>1, SizeType, MultiplierType
<1> DEFINE m == Multiplier(Size(s), Size(Other(s)))
<1>3. ((IF win THEN 15 ELSE 5) * m) \div 100 \in Nat
  <2> HIDE DEF m
  <2>1. m \in {100, 115, 130, 150}
    BY <1>2 DEF m
  <2> QED BY <2>1
<1> QED BY <1>3 DEF Gain

\* What is known of a task in each of its stages.
LEMMA TaskFields ==
  ASSUME TypeOK, NEW t \in Tasks
  PROVE  /\ task[t] # Idle => /\ task[t].user \in Users
                              /\ task[t].now \in Nat
                              /\ task[t].pc \in {"checking", "matching", "fighting"}
         /\ task[t].pc \in {"matching", "fighting"} => task[t].side \in Side
         /\ task[t].pc = "fighting" => task[t].win \in BOOLEAN /\ task[t].xp \in Nat
         /\ task[t].pc \in {"checking", "matching", "fighting"} => task[t] # Idle
BY DEF TypeOK, Idle, Checking, Matching, Fighting

\* The state at starts_at is well typed.
LEMMA TypeInit == Init => TypeOK
<1> SUFFICES ASSUME Init PROVE TypeOK
  OBVIOUS
<1>1. /\ xp \in [Side -> Nat] /\ hits \in [Side -> Nat]
     /\ log \subseteq Entry /\ timely \subseteq Entry
  BY DEF Init
<1>2. member \in [Users -> Side \cup {NULL}] /\ joined \in [Users -> Int \cup {NULL}]
  BY WarAttackAssumption DEF Init
<1>3. fin \in Finals
  BY DEF Init, Finals, Idle
<1> QED BY <1>1, <1>2, <1>3 DEF Init, TypeOK

\* Every action keeps the types.
LEMMA TypeStep == TypeOK /\ [Next]_vars => TypeOK'
<1> SUFFICES ASSUME TypeOK, [Next]_vars PROVE TypeOK'
  OBVIOUS
<1> USE DEF warRow, people
<1>1. ASSUME NEW t \in Tasks, NEW u \in Users, AttackBegin(t, u) PROVE TypeOK'
  <2>1. task' \in [Tasks -> {Idle} \cup Checking \cup Matching \cup Fighting]
    BY <1>1 DEF AttackBegin, TypeOK, Checking
  <2>2. lock' \in [Users -> Tasks \cup {NULL}]
    BY <1>1 DEF AttackBegin, TypeOK
  <2> QED BY <1>1, <2>1, <2>2 DEF AttackBegin, TypeOK
<1>2. ASSUME NEW t \in Tasks, AttackCheck(t) PROVE TypeOK'
  <2> DEFINE c == task[t]
  <2>1. c.user \in Users /\ c.now \in Nat
    BY <1>2, TaskFields DEF AttackCheck
  <2>2. CASE MayAttack(c.user, c.now)
    <3>1. member[c.user] \in Side
      BY <2>1, <2>2 DEF MayAttack, TypeOK
    <3>2. [pc |-> "matching", user |-> c.user, now |-> c.now,
           side |-> member[c.user]] \in Matching
      BY <2>1, <3>1 DEF Matching
    <3>3. task' \in [Tasks -> {Idle} \cup Checking \cup Matching \cup Fighting]
      BY <1>2, <2>2, <3>2 DEF AttackCheck, TypeOK
    <3> QED BY <1>2, <2>2, <3>3 DEF AttackCheck, TypeOK
  <2>3. CASE ~MayAttack(c.user, c.now)
    BY <1>2, <2>1, <2>3 DEF AttackCheck, Refuse, TypeOK
  <2> QED BY <2>2, <2>3
<1>3. ASSUME NEW t \in Tasks, AttackDraw(t) PROVE TypeOK'
  <2> DEFINE m == task[t]
  <2>1. m.user \in Users /\ m.now \in Nat /\ m.side \in Side
    BY <1>3, TaskFields DEF AttackDraw
  <2>2. CASE Size(Other(m.side)) > 0
    <3>1. PICK win \in BOOLEAN :
            task' = [task EXCEPT ![t] =
                      [pc |-> "fighting", user |-> m.user, now |-> m.now,
                       side |-> m.side, win |-> win, xp |-> Gain(win, m.side)]]
      BY <1>3, <2>2 DEF AttackDraw
    <3>2. Gain(win, m.side) \in Nat
      BY <2>1, GainType
    <3>3. [pc |-> "fighting", user |-> m.user, now |-> m.now, side |-> m.side,
           win |-> win, xp |-> Gain(win, m.side)] \in Fighting
      BY <2>1, <3>2 DEF Fighting
    <3>4. task' \in [Tasks -> {Idle} \cup Checking \cup Matching \cup Fighting]
      BY <3>1, <3>3 DEF TypeOK
    <3> QED BY <1>3, <2>2, <3>4 DEF AttackDraw, TypeOK
  <2>3. CASE ~(Size(Other(m.side)) > 0)
    BY <1>3, <2>1, <2>3 DEF AttackDraw, Refuse, TypeOK
  <2> QED BY <2>2, <2>3
<1>4. ASSUME NEW t \in Tasks, AttackCommit(t) PROVE TypeOK'
  <2> DEFINE f == task[t]
             e == [user |-> f.user, side |-> f.side, time |-> f.now,
                   win |-> f.win, xp |-> f.xp]
  <2>1. /\ f.user \in Users /\ f.now \in Nat /\ f.side \in Side
       /\ f.win \in BOOLEAN /\ f.xp \in Nat
    BY <1>4, TaskFields DEF AttackCommit
  <2>2. log' \subseteq Entry
    <3>1. log' = log \cup {e}
      BY <1>4 DEF AttackCommit
    <3>2. e \in Entry
      BY <2>1 DEF Entry
    <3> QED BY <3>1, <3>2 DEF TypeOK
  <2>3. xp' \in [Side -> Nat] /\ hits' \in [Side -> Nat]
    BY <1>4, <2>1 DEF AttackCommit, TypeOK
  <2>4. medals' \in [Users -> Nat]
    BY <1>4, <2>1 DEF AttackCommit, TypeOK, Medals
  <2>5. lastAttack' \in [Users -> Nat \cup {NULL}]
    <3>1. Stored(f.now) \in Nat
      BY <2>1, StoredRange
    <3> QED BY <1>4, <2>1, <3>1 DEF AttackCommit, TypeOK
  <2>6. /\ task' \in [Tasks -> {Idle} \cup Checking \cup Matching \cup Fighting]
       /\ lock' \in [Users -> Tasks \cup {NULL}]
    BY <1>4 DEF AttackCommit, TypeOK
  <2> QED BY <1>4, <2>2, <2>3, <2>4, <2>5, <2>6 DEF AttackCommit, TypeOK
<1>5. CASE FinalizeRead
  <2>1. fin' \in Finals
    <3>1. [xp |-> xp, hits |-> hits] \in Score
      BY DEF Score, TypeOK
    <3> QED BY <1>5, <3>1 DEF FinalizeRead, Finals
  <2> QED BY <1>5, <2>1 DEF FinalizeRead, TypeOK
<1>6. CASE FinalizeCountAttackers
  <2>1. fin.score \in Score
    BY <1>6 DEF FinalizeCountAttackers, Finals, TypeOK
  <2>2. Participants("att") \in Nat
    BY WarAttackAssumption, FS_Subset, FS_CardinalityType DEF Participants
  <2>3. fin' \in Finals
    BY <1>6, <2>1, <2>2 DEF FinalizeCountAttackers, Finals
  <2> QED BY <1>6, <2>3 DEF FinalizeCountAttackers, TypeOK
<1>7. CASE FinalizeCountDefenders
  <2>1. \A sc, part : Winner(sc, part) \in Side \cup {NULL}
    BY DEF Winner
  <2>2. fin' \in Finals
    BY <1>7, <2>1 DEF FinalizeCountDefenders, Finals
  <2> QED BY <1>7, <2>2 DEF FinalizeCountDefenders, TypeOK
<1>8. CASE FinalizeCommit
  <2>1. fin.win \in Side \cup {NULL}
    BY <1>8 DEF FinalizeCommit, Finals, TypeOK
  <2>2. fin' \in Finals
    BY <1>8 DEF FinalizeCommit, Finals, Idle
  <2>3. medals' \in [Users -> Nat]
    BY <1>8 DEF FinalizeCommit, TypeOK
  <2> QED BY <1>8, <2>1, <2>2, <2>3 DEF FinalizeCommit, TypeOK
<1>9. CASE Tick
  BY <1>9 DEF Tick, TypeOK
<1>10. ASSUME NEW u \in Users, NEW s \in Side \cup {NULL}, ChangeCartel(u, s)
       PROVE  TypeOK'
  BY <1>10 DEF ChangeCartel, TypeOK
<1>11. CASE Crash
  <2>1. fin' \in Finals
    BY <1>11 DEF Crash, Finals, Idle
  <2> QED BY <1>11, <2>1 DEF Crash, TypeOK
<1>12. CASE UNCHANGED vars
  BY <1>12 DEF vars, TypeOK
<1> QED BY <1>1, <1>2, <1>3, <1>4, <1>5, <1>6, <1>7, <1>8, <1>9, <1>10, <1>11,
           <1>12 DEF Next, Attack, Finalize

\* The types hold in every state.
THEOREM TypeCorrect == Spec => []TypeOK
<1>1. Init => TypeOK
  BY TypeInit
<1>2. TypeOK /\ [Next]_vars => TypeOK'
  BY TypeStep
<1> QED BY <1>1, <1>2, PTL DEF Spec

-----------------------------------------------------------------------------
(* The inductive invariant.                                                *)

\* A task in flight holds its player's lock, so a player has one at most.
LockInv == \A t \in Tasks : task[t] # Idle => lock[task[t].user] = t

\* A task's clock was read in the past and before ends_at.
ClockInv == \A t \in Tasks : task[t] # Idle => task[t].now <= now /\ task[t].now < WarLen

\* No row of the log is newer than the stored time of the last attack.
LastInv == \A e \in log : lastAttack[e.user] # NULL /\ Stored(e.time) <= lastAttack[e.user]

\* The cooldown that a task has checked still holds when it commits.
WaitedInv ==
  \A t \in Tasks :
    task[t].pc \in {"matching", "fighting"} =>
      (lastAttack[task[t].user] # NULL =>
        task[t].now - lastAttack[task[t].user] >= Cooldown)

\* Whoever has changed cartels has done so since the war began.
MoveInv == \A u \in Users : \/ member[u] = Member0[u] /\ joined[u] = Joined0[u]
                            \/ joined[u] \in Nat

\* Only the cartel of the war's beginning is fought for.
SideInv == /\ \A e \in log : e.side = Member0[e.user]
           /\ \A t \in Tasks : task[t].pc \in {"matching", "fighting"} =>
                                task[t].side = Member0[task[t].user]

IInv == /\ TypeOK
        /\ LockInv /\ ClockInv /\ LastInv /\ WaitedInv
        /\ MoveInv /\ SideInv
        /\ CooldownRespected

\* The invariant holds at the start of the war.
LEMMA InitIInv == Init => IInv
<1> SUFFICES ASSUME Init PROVE IInv
  OBVIOUS
<1>1. TypeOK
  BY TypeInit
<1>2. LockInv /\ ClockInv /\ WaitedInv
  BY DEF Init, LockInv, ClockInv, WaitedInv, Idle
<1>3. LastInv /\ CooldownRespected /\ MoveInv
  BY DEF Init, LastInv, CooldownRespected, MoveInv
<1>4. SideInv
  BY DEF Init, SideInv, Idle
<1> QED BY <1>1, <1>2, <1>3, <1>4 DEF IInv

\* The player of a passed check is on the side of the war's beginning: a
\* change of cartel since then is younger than the membership asked for.
LEMMA CheckedSide ==
  ASSUME TypeOK, MoveInv, NEW u \in Users, NEW at \in Nat, at < WarLen, MayAttack(u, at)
  PROVE  member[u] = Member0[u]
<1>1. CASE joined[u] \in Nat
  <2>1. joined[u] # NULL
    BY <1>1, WarAttackAssumption
  <2>2. at - joined[u] >= MinMembership
    BY <2>1 DEF MayAttack
  <2>3. FALSE
    BY <1>1, <2>2, WarAttackAssumption
  <2> QED BY <2>3
<1>2. CASE ~(joined[u] \in Nat)
  BY <1>2 DEF MoveInv
<1> QED BY <1>1, <1>2

\* The row a fight writes is later than every older row of the player by
\* the cooldown, rounding apart.
LEMMA CommitWaits ==
  ASSUME IInv, NEW t \in Tasks, task[t].pc = "fighting",
         NEW e \in log, e.user = task[t].user
  PROVE  task[t].now - e.time > Cooldown - Second
<1> DEFINE f == task[t]
           last == lastAttack[f.user]
<1>1. f.user \in Users /\ f.now \in Nat /\ e.time \in Nat
  BY TaskFields DEF IInv, TypeOK, Entry
<1>2. last # NULL /\ Stored(e.time) <= last
  BY DEF IInv, LastInv
<1>3. last \in Nat
  BY <1>1, <1>2 DEF IInv, TypeOK
<1>4. f.now - last >= Cooldown
  BY <1>2 DEF IInv, WaitedInv
<1>5. Stored(e.time) \in Nat /\ e.time - Stored(e.time) < Second
  BY <1>1, StoredRange
<1> QED BY <1>1, <1>2, <1>3, <1>4, <1>5, WarAttackAssumption

\* Every step keeps the invariant.
LEMMA NextIInv == IInv /\ [Next]_vars => IInv'
<1> SUFFICES ASSUME IInv, [Next]_vars PROVE IInv'
  OBVIOUS
<1>0. TypeOK /\ TypeOK'
  BY TypeStep DEF IInv
<1> USE <1>0
<1> USE DEF warRow, people
<1>1. ASSUME NEW t \in Tasks, NEW u \in Users, AttackBegin(t, u) PROVE IInv'
  <2>1. task'[t] = [pc |-> "checking", user |-> u, now |-> now]
       /\ \A r \in Tasks \ {t} : task'[r] = task[r]
    BY <1>1 DEF AttackBegin, TypeOK
  <2>2. LockInv'
    <3>1. lock'[u] = t /\ \A v \in Users \ {u} : lock'[v] = lock[v]
      BY <1>1 DEF AttackBegin, TypeOK
    <3>2. \A r \in Tasks \ {t} : task[r] # Idle => task[r].user # u
      BY <1>1, WarAttackAssumption DEF AttackBegin, IInv, LockInv
    <3> QED BY <2>1, <3>1, <3>2, TaskFields DEF IInv, LockInv
  <2>3. ClockInv'
    BY <1>1, <2>1 DEF AttackBegin, IInv, ClockInv, TypeOK
  <2>4. WaitedInv' /\ SideInv'
    BY <1>1, <2>1 DEF AttackBegin, IInv, WaitedInv, SideInv
  <2>5. LastInv' /\ MoveInv' /\ CooldownRespected'
    BY <1>1 DEF AttackBegin, IInv, LastInv, MoveInv, CooldownRespected, Stored
  <2> QED BY <2>2, <2>3, <2>4, <2>5 DEF IInv
<1>2. ASSUME NEW t \in Tasks, AttackCheck(t) PROVE IInv'
  <2> DEFINE c == task[t]
  <2>1. /\ c.user \in Users /\ c.now \in Nat
       /\ c.now <= now /\ c.now < WarLen /\ lock[c.user] = t
    BY <1>2, TaskFields DEF AttackCheck, IInv, ClockInv, LockInv
  <2>2. LastInv' /\ MoveInv' /\ CooldownRespected'
    BY <1>2 DEF AttackCheck, IInv, LastInv, MoveInv, CooldownRespected, Stored
  <2>3. CASE MayAttack(c.user, c.now)
    <3>1. task'[t] = [pc |-> "matching", user |-> c.user, now |-> c.now,
                      side |-> member[c.user]]
         /\ \A r \in Tasks \ {t} : task'[r] = task[r]
      BY <1>2, <2>3 DEF AttackCheck, TypeOK
    <3>2. LockInv' /\ ClockInv'
      BY <1>2, <2>1, <2>3, <3>1 DEF AttackCheck, IInv, LockInv, ClockInv
    <3>3. WaitedInv'
      BY <1>2, <2>3, <3>1 DEF AttackCheck, IInv, WaitedInv, MayAttack
    <3>4. member[c.user] = Member0[c.user]
      BY <2>1, <2>3, CheckedSide DEF IInv
    <3>5. SideInv'
      BY <1>2, <3>1, <3>4 DEF AttackCheck, IInv, SideInv
    <3> QED BY <2>2, <3>2, <3>3, <3>5 DEF IInv
  <2>4. CASE ~MayAttack(c.user, c.now)
    <3>1. task'[t] = Idle /\ \A r \in Tasks \ {t} : task'[r] = task[r]
      BY <1>2, <2>4 DEF AttackCheck, Refuse, TypeOK
    <3>2. \A r \in Tasks \ {t} : task[r] # Idle => task[r].user # c.user
      BY <2>1 DEF IInv, LockInv
    <3>3. \A v \in Users \ {c.user} : lock'[v] = lock[v]
      BY <1>2, <2>4 DEF AttackCheck, Refuse, TypeOK
    <3>4. LockInv'
      BY <3>1, <3>2, <3>3, TaskFields DEF IInv, LockInv
    <3>5. ClockInv' /\ WaitedInv' /\ SideInv'
      BY <1>2, <3>1 DEF AttackCheck, IInv, ClockInv, WaitedInv, SideInv, Idle
    <3> QED BY <2>2, <3>4, <3>5 DEF IInv
  <2> QED BY <2>3, <2>4
<1>3. ASSUME NEW t \in Tasks, AttackDraw(t) PROVE IInv'
  <2> DEFINE m == task[t]
  <2>1. /\ m.user \in Users /\ m.now \in Nat
       /\ m.now <= now /\ m.now < WarLen /\ lock[m.user] = t
    BY <1>3, TaskFields DEF AttackDraw, IInv, ClockInv, LockInv
  <2>2. LastInv' /\ MoveInv' /\ CooldownRespected'
    BY <1>3 DEF AttackDraw, IInv, LastInv, MoveInv, CooldownRespected, Stored
  <2>3. CASE Size(Other(m.side)) > 0
    <3>1. /\ task'[t].pc = "fighting" /\ task'[t].user = m.user
         /\ task'[t].now = m.now /\ task'[t].side = m.side
         /\ \A r \in Tasks \ {t} : task'[r] = task[r]
      BY <1>3, <2>3 DEF AttackDraw, TypeOK
    <3>2. LockInv' /\ ClockInv'
      BY <1>3, <2>1, <2>3, <3>1 DEF AttackDraw, IInv, LockInv, ClockInv
    <3>3. WaitedInv' /\ SideInv'
      BY <1>3, <3>1 DEF AttackDraw, IInv, WaitedInv, SideInv
    <3> QED BY <2>2, <3>2, <3>3 DEF IInv
  <2>4. CASE ~(Size(Other(m.side)) > 0)
    <3>1. task'[t] = Idle /\ \A r \in Tasks \ {t} : task'[r] = task[r]
      BY <1>3, <2>4 DEF AttackDraw, Refuse, TypeOK
    <3>2. \A r \in Tasks \ {t} : task[r] # Idle => task[r].user # m.user
      BY <2>1 DEF IInv, LockInv
    <3>3. \A v \in Users \ {m.user} : lock'[v] = lock[v]
      BY <1>3, <2>4 DEF AttackDraw, Refuse, TypeOK
    <3>4. LockInv'
      BY <3>1, <3>2, <3>3, TaskFields DEF IInv, LockInv
    <3>5. ClockInv' /\ WaitedInv' /\ SideInv'
      BY <1>3, <3>1 DEF AttackDraw, IInv, ClockInv, WaitedInv, SideInv, Idle
    <3> QED BY <2>2, <3>4, <3>5 DEF IInv
  <2> QED BY <2>3, <2>4
<1>4. ASSUME NEW t \in Tasks, AttackCommit(t) PROVE IInv'
  <2> DEFINE f == task[t]
             e == [user |-> f.user, side |-> f.side, time |-> f.now,
                   win |-> f.win, xp |-> f.xp]
  <2>1. /\ f.user \in Users /\ f.now \in Nat
       /\ f.now <= now /\ f.now < WarLen /\ lock[f.user] = t
    BY <1>4, TaskFields DEF AttackCommit, IInv, ClockInv, LockInv
  <2>2. log' = log \cup {e}
    BY <1>4 DEF AttackCommit
  <2>3. task'[t] = Idle /\ \A r \in Tasks \ {t} : task'[r] = task[r]
    BY <1>4 DEF AttackCommit, TypeOK
  <2>4. \A r \in Tasks \ {t} : task[r] # Idle => task[r].user # f.user
    BY <2>1 DEF IInv, LockInv
  <2>5. /\ lastAttack'[f.user] = Stored(f.now)
       /\ \A v \in Users \ {f.user} : lastAttack'[v] = lastAttack[v] /\ lock'[v] = lock[v]
    BY <1>4, <2>1 DEF AttackCommit, TypeOK
  <2>6. LockInv'
    BY <2>3, <2>4, <2>5, TaskFields DEF IInv, LockInv
  <2>7. ClockInv'
    BY <1>4, <2>3 DEF AttackCommit, IInv, ClockInv
  <2>8. \A g \in log : g.user = f.user => f.now - g.time > Cooldown - Second
    BY <1>4, CommitWaits DEF AttackCommit
  <2>9. LastInv'
    <3>1. Stored(f.now) \in Nat /\ Stored(f.now) # NULL
      BY <2>1, StoredRange, WarAttackAssumption
    <3>2. \A g \in log : g.user = f.user => Stored(g.time) <= Stored(f.now)
      <4> SUFFICES ASSUME NEW g \in log, g.user = f.user
                   PROVE  Stored(g.time) <= Stored(f.now)
        OBVIOUS
      <4>1. g.time \in Nat
        BY DEF TypeOK, Entry
      <4>2. /\ lastAttack[f.user] # NULL /\ Stored(g.time) <= lastAttack[f.user]
           /\ f.now - lastAttack[f.user] >= Cooldown
        BY <1>4 DEF AttackCommit, IInv, LastInv, WaitedInv
      <4>3. lastAttack[f.user] \in Nat
        BY <2>1, <4>2 DEF TypeOK
      <4>4. Stored(g.time) \in Nat
        BY <4>1, StoredRange
      <4>5. f.now - Stored(f.now) < Second
        BY <2>1, StoredRange
      <4> QED BY <2>1, <3>1, <4>2, <4>3, <4>4, <4>5, WarAttackAssumption
    <3>3. \A g \in log : g.user \in Users
      BY DEF TypeOK, Entry
    <3> QED BY <2>2, <2>5, <3>1, <3>2, <3>3, StoredRange, <2>1 DEF IInv, LastInv, Stored
  <2>10. WaitedInv'
    BY <2>3, <2>4, <2>5, TaskFields DEF IInv, WaitedInv, Idle
  <2>11. SideInv'
    BY <1>4, <2>2, <2>3 DEF AttackCommit, IInv, SideInv, Idle
  <2>12. MoveInv'
    BY <1>4 DEF AttackCommit, IInv, MoveInv
  <2>13. CooldownRespected'
    BY <2>2, <2>8 DEF IInv, CooldownRespected
  <2> QED BY <2>6, <2>7, <2>9, <2>10, <2>11, <2>12, <2>13 DEF IInv
<1>5. CASE Finalize
  BY <1>5 DEF Finalize, FinalizeRead, FinalizeCountAttackers, FinalizeCountDefenders,
              FinalizeCommit, IInv, LockInv, ClockInv, LastInv, WaitedInv, MoveInv,
              SideInv, CooldownRespected, Stored
<1>6. CASE Tick
  <2>1. ClockInv'
    BY <1>6, TaskFields DEF Tick, IInv, ClockInv, TypeOK
  <2> QED BY <1>6, <2>1 DEF Tick, IInv, LockInv, LastInv, WaitedInv, MoveInv,
                            SideInv, CooldownRespected, Stored
<1>7. ASSUME NEW u \in Users, NEW s \in Side \cup {NULL}, ChangeCartel(u, s) PROVE IInv'
  <2>1. MoveInv'
    BY <1>7 DEF ChangeCartel, IInv, MoveInv, TypeOK
  <2> QED BY <1>7, <2>1 DEF ChangeCartel, IInv, LockInv, ClockInv, LastInv, WaitedInv,
                            SideInv, CooldownRespected, Stored
<1>8. CASE Crash
  BY <1>8 DEF Crash, IInv, LockInv, ClockInv, LastInv, WaitedInv, MoveInv, SideInv,
              CooldownRespected, Stored, Idle
<1>9. CASE UNCHANGED vars
  BY <1>9 DEF vars, IInv, LockInv, ClockInv, LastInv, WaitedInv, MoveInv, SideInv,
              CooldownRespected, Stored
<1> QED BY <1>1, <1>2, <1>3, <1>4, <1>5, <1>6, <1>7, <1>8, <1>9 DEF Next, Attack

\* The invariant holds in every state.
LEMMA IInvAlways == Spec => []IInv
<1>1. Init => IInv
  BY InitIInv
<1>2. IInv /\ [Next]_vars => IInv'
  BY NextIInv
<1> QED BY <1>1, <1>2, PTL DEF Spec

\* Racing taps, late commits and restarts never shorten a player's cooldown
\* by a second or more.
THEOREM CooldownHolds == Spec => []CooldownRespected
<1>1. IInv => CooldownRespected
  BY DEF IInv
<1> QED BY <1>1, IInvAlways, PTL

\* However players change cartels, nobody fights on both sides of a war.
THEOREM OneSidePerPlayer == Spec => []NeverBothSides
<1>1. IInv => NeverBothSides
  BY DEF IInv, SideInv, NeverBothSides
<1> QED BY <1>1, IInvAlways, PTL

-----------------------------------------------------------------------------
(* The score, the medals and the winner.                                   *)

\* One row more in a finite log.
LEMMA OneMore ==
  ASSUME NEW rows \in SUBSET Entry, IsFiniteSet(rows), NEW e \in Entry, e \notin rows
  PROVE  /\ XpOf(rows \cup {e}) = XpOf(rows) + e.xp
         /\ MedalsOf(rows \cup {e}) = MedalsOf(rows) + Medals(e.win)
         /\ HitsOf(rows \cup {e}) = HitsOf(rows) + IF e.win THEN 1 ELSE 0
<1>1. \A x \in rows \cup {e} : x.xp \in Nat /\ Medals(x.win) \in Nat
  BY DEF Entry, Medals
<1>2. IsFiniteSet(rows \cup {e})
  BY FS_AddElement
<1>3. XpOf(rows \cup {e}) = e.xp + XpOf(rows) /\ XpOf(rows) \in Nat
  <2>. DEFINE f == [x \in rows \cup {e} |-> x.xp]
              g == [x \in rows |-> x.xp]
  <2>1. f[e] = e.xp /\ f[e] \in Int /\ \A y \in rows : f[y] \in Int /\ f[y] = g[y]
    BY <1>1
  <2>2. XpOf(rows \cup {e}) = SumFunctionOnSet(f, rows \cup {e}) /\ XpOf(rows) = SumFunctionOnSet(g, rows)
    BY DEF XpOf
  <2>. HIDE DEF f, g
  <2>3. SumFunctionOnSet(f, rows \cup {e}) = f[e] + SumFunctionOnSet(g, rows)
    BY <2>1, SumMore
  <2>4. SumFunctionOnSet(g, rows) \in Nat
    <3>. QED BY <1>1, SumIsNat DEF g
  <2>. QED BY <2>1, <2>2, <2>3, <2>4
<1>4. MedalsOf(rows \cup {e}) = Medals(e.win) + MedalsOf(rows) /\ MedalsOf(rows) \in Nat
  <2>. DEFINE f == [x \in rows \cup {e} |-> Medals(x.win)]
              g == [x \in rows |-> Medals(x.win)]
  <2>1. f[e] = Medals(e.win) /\ f[e] \in Int /\ \A y \in rows : f[y] \in Int /\ f[y] = g[y]
    BY <1>1
  <2>2. MedalsOf(rows \cup {e}) = SumFunctionOnSet(f, rows \cup {e}) /\ MedalsOf(rows) = SumFunctionOnSet(g, rows)
    BY DEF MedalsOf
  <2>. HIDE DEF f, g
  <2>3. SumFunctionOnSet(f, rows \cup {e}) = f[e] + SumFunctionOnSet(g, rows)
    BY <2>1, SumMore
  <2>4. SumFunctionOnSet(g, rows) \in Nat
    <3>. QED BY <1>1, SumIsNat DEF g
  <2>. QED BY <2>1, <2>2, <2>3, <2>4
<1>5. HitsOf(rows \cup {e}) = HitsOf(rows) + IF e.win THEN 1 ELSE 0
  <2>. DEFINE W == {x \in rows : x.win}
  <2>1. IsFiniteSet(W) /\ e \notin W
    BY FS_Subset
  <2>2. {x \in rows \cup {e} : x.win} = IF e.win THEN W \cup {e} ELSE W
    OBVIOUS
  <2>3. Cardinality(W \cup {e}) = Cardinality(W) + 1 /\ Cardinality(W) \in Nat
    BY <2>1, FS_AddElement, FS_CardinalityType
  <2>. HIDE DEF W
  <2>4. e.win \in BOOLEAN
    BY DEF Entry
  <2>5. HitsOf(rows) = Cardinality(W)
    BY DEF HitsOf, W
  <2>6. HitsOf(rows \cup {e}) = Cardinality(IF e.win THEN W \cup {e} ELSE W)
    BY <2>2 DEF HitsOf
  <2>. QED BY <2>3, <2>4, <2>5, <2>6
<1>6. e.xp \in Nat /\ Medals(e.win) \in Nat
  BY <1>1
<1>. QED BY <1>3, <1>4, <1>5, <1>6

LEMMA NoRows == XpOf({}) = 0 /\ HitsOf({}) = 0 /\ MedalsOf({}) = 0
<1>1. {e \in {} : e.win} = {}
  OBVIOUS
<1>. QED BY <1>1, SumEmpty, FS_EmptySet DEF XpOf, HitsOf, MedalsOf

LEMMA RowsType ==
  ASSUME NEW rows \in SUBSET Entry, IsFiniteSet(rows)
  PROVE  XpOf(rows) \in Nat /\ HitsOf(rows) \in Nat
<1>. DEFINE f == [x \in rows |-> x.xp]
<1>1. \A x \in rows : f[x] \in Nat
  BY DEF Entry
<1>2. XpOf(rows) = SumFunctionOnSet(f, rows)
  BY DEF XpOf
<1>3. HitsOf(rows) \in Nat
  BY FS_Subset, FS_CardinalityType DEF HitsOf
<1>. HIDE DEF f
<1>. QED BY <1>1, <1>2, <1>3, SumIsNat

\* What finalize_war has read is what the log says by then.
Read(score) == \A s \in Side : score.xp[s] = XpOf(Of(timely, s)) /\ score.hits[s] = HitsOf(Of(timely, s))

\* w is not behind, and a draw is one.
Leads(w) ==
  IF w = NULL
    THEN TimelyXp("att") = TimelyXp("def") /\ TimelyHits("att") = TimelyHits("def")
    ELSE \/ TimelyXp(w) > TimelyXp(Other(w))
         \/ TimelyXp(w) = TimelyXp(Other(w)) /\ TimelyHits(w) >= TimelyHits(Other(w))

Tally ==
  /\ IsFiniteSet(log)
  /\ ScoreMatchesLog
  /\ fin.pc \in {"scored", "counted"} => Read(fin.score)
  /\ fin.pc = "decided" => Leads(fin.win)
  /\ fin # Idle => ~finished

Settled ==
  /\ WinnerLedTheScore
  /\ MedalsPaidOnce
  /\ ~finished => winner = NULL

Books == Tally /\ Settled

\* The winner by XP, then by successful hits, is not behind in them.
LEMMA WinnerLeads ==
  ASSUME TypeOK, NEW score \in Score, NEW part, Read(score)
  PROVE  Leads(Winner(score, part))
<1>. DEFINE X == score.xp
            H == score.hits
            Beats(s) == \/ X[s] > X[Other(s)]
                        \/ /\ X[s] = X[Other(s)]
                           /\ \/ H[s] > H[Other(s)]
                              \/ /\ H[s] = H[Other(s)]
                                 /\ part[s] > part[Other(s)]
            w == Winner(score, part)
<1>1. X \in [Side -> Nat] /\ H \in [Side -> Nat] /\ \A s \in Side : Other(s) \in Side
  BY DEF Score, Other, Side
<1>2. w = IF \E s \in Side : Beats(s) THEN CHOOSE s \in Side : Beats(s) ELSE NULL
  BY DEF Winner
<1>3. \A s \in Side : TimelyXp(s) = X[s] /\ TimelyHits(s) = H[s]
  BY DEF Read, TimelyXp, TimelyHits
<1>4. NULL \notin Side /\ {"att", "def"} \subseteq Side /\ Other("att") = "def" /\ Other("def") = "att"
  BY WarAttackAssumption DEF Side, Other
<1>5. CASE \E s \in Side : Beats(s)
  <2>. HIDE DEF X, H, w
  <2>1. w \in Side /\ Beats(w)
    <3>. HIDE DEF Beats
    <3>. QED BY <1>2, <1>5
  <2>2. X[w] > X[Other(w)] \/ (X[w] = X[Other(w)] /\ H[w] >= H[Other(w)])
    BY <1>1, <2>1
  <2>3. Leads(w)
    BY <1>1, <1>3, <1>4, <2>1, <2>2 DEF Leads
  <2>. QED BY <2>3 DEF w
<1>6. CASE ~\E s \in Side : Beats(s)
  <2>1. w = NULL
    <3>. HIDE DEF Beats
    <3>. QED BY <1>2, <1>6
  <2>. HIDE DEF X, H, w
  <2>2. ~Beats("att") /\ ~Beats("def")
    BY <1>4, <1>6
  <2>3. X["att"] = X["def"]
    BY <1>1, <1>4, <2>2
  <2>4. H["att"] = H["def"]
    BY <1>1, <1>4, <2>2, <2>3
  <2>5. Leads(w)
    BY <1>3, <1>4, <2>1, <2>3, <2>4 DEF Leads
  <2>. QED BY <2>5 DEF w
<1>. QED BY <1>5, <1>6

LEMMA BooksInit == Init => Books
<1>. SUFFICES ASSUME Init PROVE Books
  OBVIOUS
<1>1. log = {} /\ timely = {} /\ xp = [s \in Side |-> 0] /\ hits = [s \in Side |-> 0]
      /\ medals = [u \in Users |-> 0] /\ winner = NULL /\ fin = Idle /\ ~finished
  BY DEF Init
<1>2. \A s \in Side : Of(log, s) = {}
  BY <1>1 DEF Of
<1>3. \A u \in Users : {e \in log : e.user = u} = {}
  BY <1>1
<1>4. Tally
  BY <1>1, <1>2, NoRows, FS_EmptySet DEF Tally, ScoreMatchesLog, Idle
<1>5. Settled
  BY <1>1, <1>3, NoRows DEF Settled, WinnerLedTheScore, MedalsPaidOnce, AttackMedals
<1>. QED BY <1>4, <1>5 DEF Books

\* A commit writes one row more and adds it everywhere.
LEMMA CommitAdds ==
  ASSUME IInv, Books, NEW t \in Tasks, AttackCommit(t)
  PROVE  /\ IsFiniteSet(log') /\ ScoreMatchesLog'
         /\ \A u \in Users : medals'[u] - AttackMedals(u)' = medals[u] - AttackMedals(u)
<1>. DEFINE f == task[t]
            e == [user |-> f.user, side |-> f.side, time |-> f.now, win |-> f.win, xp |-> f.xp]
<1>0. TypeOK /\ log \in SUBSET Entry /\ xp \in [Side -> Nat] /\ hits \in [Side -> Nat] /\ medals \in [Users -> Nat]
      /\ IsFiniteSet(log)
  BY DEF IInv, TypeOK, Books, Tally
<1>1. f.pc = "fighting" /\ log' = log \cup {e}
      /\ xp' = [xp EXCEPT ![f.side] = @ + f.xp]
      /\ hits' = [hits EXCEPT ![f.side] = @ + IF f.win THEN 1 ELSE 0]
      /\ medals' = [medals EXCEPT ![f.user] = @ + Medals(f.win)]
  BY DEF AttackCommit
<1>2. e \in Entry /\ f.side \in Side /\ f.user \in Users /\ f.xp \in Nat /\ f.win \in BOOLEAN
  BY <1>0, <1>1, TaskFields DEF Entry
<1>3. e \notin log
  <2>1. \A r \in log : r.user = f.user => f.now - r.time > Cooldown - Second
    BY <1>1, CommitWaits
  <2>2. f.now \in Nat /\ Cooldown - Second >= 0 /\ Cooldown - Second \in Int
    BY <1>0, <1>1, TaskFields, WarAttackAssumption
  <2>3. e.user = f.user /\ e.time = f.now
    OBVIOUS
  <2>. HIDE DEF e, f
  <2>. QED BY <2>1, <2>2, <2>3
<1>4. e.side = f.side /\ e.user = f.user /\ e.xp = f.xp /\ e.win = f.win
  OBVIOUS
<1>. HIDE DEF e, f
<1>5. \A s \in Side : Of(log, s) \in SUBSET Entry /\ IsFiniteSet(Of(log, s)) /\ e \notin Of(log, s)
  BY <1>0, <1>3, FS_Subset DEF Of
<1>6. \A s \in Side : Of(log', s) = IF s = f.side THEN Of(log, s) \cup {e} ELSE Of(log, s)
  BY <1>1, <1>4 DEF Of
<1>7. ASSUME NEW s \in Side PROVE xp'[s] = XpOf(Of(log', s)) /\ hits'[s] = HitsOf(Of(log', s))
  <2>0. xp[s] = XpOf(Of(log, s)) /\ hits[s] = HitsOf(Of(log, s))
    BY DEF Books, Tally, ScoreMatchesLog
  <2>1. CASE s = f.side
    <3>1. XpOf(Of(log', s)) = XpOf(Of(log, s)) + e.xp /\ HitsOf(Of(log', s)) = HitsOf(Of(log, s)) + IF e.win THEN 1 ELSE 0
      BY <1>2, <1>5, <1>6, <2>1, OneMore
    <3>2. xp'[s] = xp[s] + f.xp /\ hits'[s] = hits[s] + IF f.win THEN 1 ELSE 0
      BY <1>0, <1>1, <1>2, <2>1
    <3>. QED BY <1>4, <2>0, <3>1, <3>2
  <2>2. CASE s # f.side
    BY <1>0, <1>1, <1>2, <1>6, <2>0, <2>2
  <2>. QED BY <2>1, <2>2
<1>8. ASSUME NEW u \in Users PROVE medals'[u] - AttackMedals(u)' = medals[u] - AttackMedals(u)
  <2>. DEFINE L == {r \in log : r.user = u}
  <2>1. L \in SUBSET Entry /\ IsFiniteSet(L) /\ e \notin L
    BY <1>0, <1>3, FS_Subset
  <2>2. {r \in log' : r.user = u} = IF u = f.user THEN L \cup {e} ELSE L
    BY <1>1, <1>4
  <2>3. AttackMedals(u) = MedalsOf(L) /\ AttackMedals(u)' = MedalsOf(IF u = f.user THEN L \cup {e} ELSE L)
    BY <2>2 DEF AttackMedals
  <2>. HIDE DEF L
  <2>4. MedalsOf(L) \in Nat
    <3>. DEFINE g == [x \in L |-> Medals(x.win)]
    <3>1. \A x \in L : g[x] \in Nat
      BY DEF Medals
    <3>2. MedalsOf(L) = SumFunctionOnSet(g, L)
      BY DEF MedalsOf
    <3>. HIDE DEF g
    <3>. QED BY <2>1, <3>1, <3>2, SumIsNat
  <2>5. CASE u = f.user
    <3>1. MedalsOf(L \cup {e}) = MedalsOf(L) + Medals(e.win)
      BY <1>2, <2>1, OneMore
    <3>2. medals'[u] = medals[u] + Medals(f.win) /\ Medals(f.win) \in Nat /\ medals[u] \in Nat
      BY <1>0, <1>1, <1>2, <2>5 DEF Medals
    <3>. QED BY <1>4, <2>3, <2>4, <2>5, <3>1, <3>2
  <2>6. CASE u # f.user
    BY <1>0, <1>1, <1>2, <2>3, <2>6
  <2>. QED BY <2>5, <2>6
<1>9. IsFiniteSet(log')
  BY <1>0, <1>1, FS_AddElement
<1>. QED BY <1>7, <1>8, <1>9 DEF ScoreMatchesLog

\* Steps that leave the score, the log and what the job knows.
LEMMA BooksSame ==
  ASSUME Books, UNCHANGED <<warRow, log, medals, timely>>, fin' = fin \/ fin' = Idle
  PROVE  Books'
<1>. USE DEF warRow
<1>1. Tally'
  BY DEF Books, Tally, ScoreMatchesLog, Read, Leads, TimelyXp, TimelyHits, Idle
<1>2. WinnerLedTheScore'
  BY DEF Books, Settled, WinnerLedTheScore, TimelyXp, TimelyHits
<1>3. MedalsPaidOnce'
  BY DEF Books, Settled, MedalsPaidOnce, AttackMedals
<1>. QED BY <1>1, <1>2, <1>3 DEF Books, Settled

LEMMA BooksStep ==
  ASSUME IInv, Books, [Next]_vars
  PROVE  Books'
<1>0. TypeOK /\ TypeOK'
  BY TypeStep DEF IInv
<1>. USE DEF warRow, people
<1>1. CASE \E t \in Tasks : AttackCheck(t) \/ AttackDraw(t) \/ \E u \in Users : AttackBegin(t, u)
  <2>1. UNCHANGED <<warRow, log, medals, timely>> /\ fin' = fin
    BY <1>1 DEF AttackCheck, AttackDraw, AttackBegin
  <2>. QED BY <2>1, BooksSame
<1>2. CASE \E t \in Tasks : AttackCommit(t)
  <2>1. /\ IsFiniteSet(log') /\ ScoreMatchesLog'
        /\ \A u \in Users : medals'[u] - AttackMedals(u)' = medals[u] - AttackMedals(u)
    BY <1>2, CommitAdds
  <2>2. UNCHANGED <<finished, winner, timely, fin>>
    BY <1>2 DEF AttackCommit
  <2>3. Tally'
    BY <2>1, <2>2 DEF Books, Tally, Read, Leads, TimelyXp, TimelyHits
  <2>4. WinnerLedTheScore'
    BY <2>2 DEF Books, Settled, WinnerLedTheScore, TimelyXp, TimelyHits
  <2>5. MedalsPaidOnce'
    BY <2>1, <2>2 DEF Books, Settled, MedalsPaidOnce
  <2>. QED BY <2>2, <2>3, <2>4, <2>5 DEF Books, Settled
<1>3. CASE FinalizeRead
  <2>1. /\ fin' = [pc |-> "scored", score |-> [xp |-> xp, hits |-> hits]] /\ timely' = log /\ ~finished
        /\ UNCHANGED <<finished, winner, xp, hits, log, medals>>
    BY <1>3 DEF FinalizeRead
  <2>2. Read(fin.score)'
    BY <2>1 DEF Books, Tally, ScoreMatchesLog, Read
  <2>3. Tally'
    BY <2>1, <2>2 DEF Books, Tally, ScoreMatchesLog
  <2>4. MedalsPaidOnce'
    BY <2>1 DEF Books, Settled, MedalsPaidOnce, AttackMedals
  <2>. QED BY <2>1, <2>3, <2>4 DEF Books, Settled, WinnerLedTheScore
<1>4. CASE FinalizeCountAttackers
  <2>1. /\ fin.pc = "scored" /\ fin'.pc = "counted" /\ fin'.score = fin.score /\ fin # Idle
        /\ UNCHANGED <<finished, winner, xp, hits, log, medals, timely>>
    BY <1>4 DEF FinalizeCountAttackers, Idle
  <2>2. Tally'
    BY <2>1 DEF Books, Tally, ScoreMatchesLog, Read
  <2>3. MedalsPaidOnce' /\ WinnerLedTheScore'
    BY <2>1 DEF Books, Settled, MedalsPaidOnce, AttackMedals, WinnerLedTheScore, TimelyXp, TimelyHits
  <2>. QED BY <2>1, <2>2, <2>3 DEF Books, Settled
<1>5. CASE FinalizeCountDefenders
  <2>. DEFINE part == [s \in Side |-> IF s = "att" THEN fin.att ELSE Participants("def")]
  <2>1. /\ fin.pc = "counted" /\ fin'.pc = "decided" /\ fin'.win = Winner(fin.score, part) /\ fin # Idle
        /\ UNCHANGED <<finished, winner, xp, hits, log, medals, timely>>
    BY <1>5 DEF FinalizeCountDefenders, Idle
  <2>2. fin.score \in Score /\ Read(fin.score)
    BY <1>0, <2>1 DEF TypeOK, Finals, Books, Tally
  <2>. HIDE DEF part
  <2>3. Leads(fin'.win)
    BY <1>0, <2>1, <2>2, WinnerLeads
  <2>4. Leads(fin.win)'
    BY <2>1, <2>3 DEF Leads, TimelyXp, TimelyHits
  <2>5. Tally'
    BY <2>1, <2>4 DEF Books, Tally, ScoreMatchesLog
  <2>6. MedalsPaidOnce' /\ WinnerLedTheScore'
    BY <2>1 DEF Books, Settled, MedalsPaidOnce, AttackMedals, WinnerLedTheScore, TimelyXp, TimelyHits
  <2>. QED BY <2>1, <2>5, <2>6 DEF Books, Settled
<1>6. CASE FinalizeCommit
  <2>1. /\ fin.pc = "decided" /\ fin # Idle /\ finished' /\ winner' = fin.win /\ fin' = Idle
        /\ medals' = [u \in Users |-> medals[u] + IF fin.win # NULL /\ member[u] = fin.win THEN 1 ELSE 0]
        /\ UNCHANGED <<xp, hits, log, timely>>
    BY <1>6 DEF FinalizeCommit, Idle
  <2>2. ~finished /\ winner = NULL /\ Leads(fin.win)
    BY <2>1 DEF Books, Tally, Settled
  <2>3. Tally'
    BY <2>1 DEF Books, Tally, ScoreMatchesLog, Idle
  <2>4. WinnerLedTheScore'
    BY <2>1, <2>2 DEF WinnerLedTheScore, Leads, TimelyXp, TimelyHits
  <2>5. MedalsPaidOnce'
    <3>. SUFFICES ASSUME NEW u \in Users
                  PROVE  medals'[u] - AttackMedals(u) \in IF fin.win = NULL THEN {0} ELSE {0, 1}
      BY <2>1 DEF MedalsPaidOnce, AttackMedals
    <3>1. medals[u] - AttackMedals(u) = 0
      BY <2>2 DEF Books, Settled, MedalsPaidOnce
    <3>2. medals[u] \in Nat /\ AttackMedals(u) \in Int
      <4>. DEFINE L == {r \in log : r.user = u}
                  g == [x \in L |-> Medals(x.win)]
      <4>1. IsFiniteSet(L) /\ \A x \in L : g[x] \in Int
        BY FS_Subset DEF Books, Tally, Medals
      <4>2. AttackMedals(u) = SumFunctionOnSet(g, L)
        BY DEF AttackMedals, MedalsOf
      <4>. HIDE DEF L, g
      <4>. QED BY <1>0, <4>1, <4>2, SumIsInt DEF TypeOK
    <3>3. medals'[u] = medals[u] + IF fin.win # NULL /\ member[u] = fin.win THEN 1 ELSE 0
      BY <2>1
    <3>. QED BY <3>1, <3>2, <3>3
  <2>. QED BY <2>1, <2>3, <2>4, <2>5 DEF Books, Settled
<1>7. CASE Tick \/ Crash \/ \E u \in Users, s \in Side \cup {NULL} : ChangeCartel(u, s)
  <2>1. UNCHANGED <<warRow, log, medals, timely>> /\ (fin' = fin \/ fin' = Idle)
    BY <1>7 DEF Tick, Crash, ChangeCartel
  <2>. QED BY <2>1, BooksSame
<1>8. CASE UNCHANGED vars
  <2>1. UNCHANGED <<warRow, log, medals, timely>> /\ fin' = fin
    BY <1>8 DEF vars
  <2>. QED BY <2>1, BooksSame
<1>. QED BY <1>1, <1>2, <1>3, <1>4, <1>5, <1>6, <1>7, <1>8 DEF Next, Attack, Finalize

LEMMA BooksHold == Spec => []Books
BY BooksInit, BooksStep, IInvAlways, PTL DEF Spec

\* record_attack_result: the score is the sum of the log, attacks that commit
\* after the end of the war included.
THEOREM ScoreIsTheLog == Spec => []ScoreMatchesLog
<1>1. Books => ScoreMatchesLog
  BY DEF Books, Tally
<1>. QED BY <1>1, BooksHold, PTL

\* Every attack is paid once, and the victory at most once.
THEOREM MedalsAreEarned == Spec => []MedalsPaidOnce
<1>1. Books => MedalsPaidOnce
  BY DEF Books, Settled
<1>. QED BY <1>1, BooksHold, PTL

\* finalize_war: the winner led in what the job read.
THEOREM WinnerLeadsTheScore == Spec => []WinnerLedTheScore
<1>1. Books => WinnerLedTheScore
  BY DEF Books, Settled
<1>. QED BY <1>1, BooksHold, PTL
=============================================================================
