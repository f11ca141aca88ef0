------------------------------ MODULE RaidProofs ------------------------------
(***************************************************************************)
(* Theorems about the fights of a group: types, that every fight is what   *)
(* Fight promises, and that the players are paid what the boards say.      *)
(***************************************************************************)
EXTENDS Raid, Sums

-----------------------------------------------------------------------------
(* What a session will write.                                              *)

Billed == {"aiming", "struck", "closing"}

\* The rows that will be written have been read, or are still to be read.
BillOk(bill) == \A u \in Users : bill.pay[u] > 0 /\ u \notin bill.todo => bill.view[u] # NULL

OpInv ==
  /\ op.pc \in Billed => BillOk(op.bill) /\ op.bill.view[op.me] # NULL
  /\ op.pc = "aiming" => op.bill.pay = Nought /\ op.bill.todo = {}
  /\ op.pc = "struck" => op.bill.todo = {}
  /\ op.pc = "closing" /\ op.shot => bullets[op.me] > 0

JobInv ==
  /\ job["boss"].pc # "paying"
  /\ job["caravan"].pc = "paying" => BillOk(job["caravan"].bill)

TypeInv == TypeOK /\ OpInv /\ JobInv /\ IsFiniteSet(fought)

LEMMA OpShape ==
  ASSUME TypeOK
  PROVE  /\ op = Idle \/ op.pc \in Billed \cup {"noting"}
         /\ op.pc = "idle" <=> op = Idle
         /\ op.pc \in Billed => op.me \in Users /\ op.bill \in Bill
         /\ op.pc \in {"aiming", "struck"} => op.k \in Kinds
BY DEF TypeOK, Ops, Idle, Billed

LEMMA JobShape ==
  ASSUME TypeOK, NEW k \in Kinds
  PROVE  /\ job[k] \in Jobs
         /\ job[k] = Off \/ job[k].pc \in {"paying", "planning", "spawning"}
         /\ job[k].pc = "idle" <=> job[k] = Off
         /\ job[k].pc = "paying" => job[k].bill \in Bill
         /\ job[k].pc \in {"planning", "spawning"} => job[k].id \in Fights
BY DEF TypeOK, Jobs, Off, Idle

LEMMA BillShape ==
  ASSUME NEW bill \in Bill
  PROVE  /\ bill.todo \in SUBSET Users /\ bill.pay \in [Users -> Nat]
         /\ bill.view \in [Users -> Nat \cup {NULL}]
BY DEF Bill

LEMMA NoneIsIdle ==
  Idle \in Ops /\ Idle.pc = "idle" /\ Off \in Jobs /\ Off.pc = "idle" /\ Off = Idle
BY DEF Idle, Ops, Off, Jobs

LEMMA TwoKinds == Kinds = {"caravan", "boss"} /\ "caravan" \in Kinds /\ "boss" \in Kinds
BY DEF Kinds

LEMMA BoardShape ==
  ASSUME TypeOK, NEW k \in Kinds, board[k] # NULL
  PROVE  /\ board[k] \in Board /\ board[k].id \in Fights /\ board[k].hp \in Int
         /\ board[k].dmg \in [Users -> Nat] /\ board[k].late \in BOOLEAN
BY DEF TypeOK, Board

LEMMA ReadRowTyped ==
  ASSUME TypeOK, NEW bill \in Bill, NEW u \in Users, BillOk(bill)
  PROVE  LET b == ReadRow(bill, u)
         IN  /\ b \in Bill /\ BillOk(b) /\ b.pay = bill.pay /\ b.view[u] = cash[u]
             /\ \A v \in Users \ {u} : b.view[v] = bill.view[v]
             /\ \A v \in Users : bill.view[v] # NULL => b.view[v] # NULL
<1>. DEFINE b == ReadRow(bill, u)
<1>1. cash[u] \in Nat /\ cash[u] # NULL
  BY RaidAssumption DEF TypeOK
<1>2. b = [bill EXCEPT !.todo = bill.todo \ {u}, !.view = [bill.view EXCEPT ![u] = cash[u]]]
  BY DEF ReadRow
<1>. HIDE DEF b
<1>3. b.todo = bill.todo \ {u} /\ b.pay = bill.pay /\ b.view = [bill.view EXCEPT ![u] = cash[u]] /\ b \in Bill
  BY <1>1, <1>2 DEF Bill
<1>4. b.view[u] = cash[u] /\ \A v \in Users \ {u} : b.view[v] = bill.view[v]
  BY <1>3, BillShape
<1>. QED BY <1>1, <1>3, <1>4 DEF b, BillOk

LEMMA WrittenTyped ==
  ASSUME TypeOK, NEW bill \in Bill, BillOk(bill), bill.todo = {}
  PROVE  Written(bill) \in [Users -> Nat]
<1>. SUFFICES ASSUME NEW u \in Users
              PROVE  (IF bill.pay[u] > 0 THEN bill.view[u] + bill.pay[u] ELSE cash[u]) \in Nat
  BY DEF Written
<1>1. cash[u] \in Nat /\ bill.pay[u] \in Nat /\ bill.view[u] \in Nat \cup {NULL}
  BY BillShape DEF TypeOK
<1>2. bill.pay[u] > 0 => bill.view[u] # NULL
  BY DEF BillOk
<1>. QED BY <1>1, <1>2

\* What is owed is a number, and owed to those who have hit.
LEMMA PrizesTyped ==
  ASSUME NEW k \in Kinds, NEW b \in Board, NEW end, NEW r \in Rankings(b), NEW killer
  PROVE  /\ Prizes(k, b, end, r, killer) \in [Users -> Nat]
         /\ \A u \in Users : Prizes(k, b, end, r, killer)[u] > 0 => u \in Hitters(b)
<1>. DEFINE n == IF Cardinality(Hitters(b)) < Top THEN Cardinality(Hitters(b)) ELSE Top
            won(u) == \E i \in DOMAIN r : r[i] = u
            prize(u) == LET i == CHOOSE i \in DOMAIN r : r[i] = u
                        IN  IF k = "boss" THEN BossPrize(r, i, killer) ELSE CaravanPrize(b, end, r, i)
<1>1. Hitters(b) \subseteq Users /\ IsFiniteSet(Hitters(b)) /\ Cardinality(Hitters(b)) \in Nat
  <2>1. Hitters(b) \subseteq Users /\ IsFiniteSet(Users)
    BY RaidAssumption DEF Hitters
  <2>. QED BY <2>1, FS_Subset, FS_CardinalityType
<1>2. n \in Nat /\ n <= Top /\ Top \in Nat
  BY <1>1, RaidAssumption
<1>3. r \in [1 .. n -> Hitters(b)]
  BY DEF Rankings
<1>. HIDE DEF n
<1>4. \A i \in DOMAIN r : i \in 1 .. Top /\ r[i] \in Hitters(b) /\ r[i] \in Users
  BY <1>1, <1>2, <1>3
<1>5. \A i \in DOMAIN r : BossPrize(r, i, killer) \in Nat
  BY <1>4, RaidAssumption DEF BossPrize
<1>6. \A i \in DOMAIN r : CaravanPrize(b, end, r, i) \in Nat
  <2>. SUFFICES ASSUME NEW i \in DOMAIN r PROVE CaravanPrize(b, end, r, i) \in Nat
    OBVIOUS
  <2>1. b.dmg[r[i]] \in Nat /\ PerDamage \in Nat
    BY <1>4, RaidAssumption DEF Board
  <2>2. b.dmg[r[i]] * PerDamage \in Nat
    BY <2>1
  <2>. QED BY <2>2 DEF CaravanPrize
<1>7. ASSUME NEW u \in Users, won(u) PROVE prize(u) \in Nat /\ u \in Hitters(b)
  <2>1. PICK i \in DOMAIN r : r[i] = u
    BY <1>7
  <2>2. (CHOOSE j \in DOMAIN r : r[j] = u) \in DOMAIN r
    BY <2>1
  <2>. QED BY <1>4, <1>5, <1>6, <2>1, <2>2
<1>8. Prizes(k, b, end, r, killer) = [u \in Users |-> IF won(u) THEN prize(u) ELSE 0]
  BY DEF Prizes
<1>. HIDE DEF won, prize
<1>. QED BY <1>7, <1>8

LEMMA NoughtTyped == Nought \in [Users -> Nat] /\ \A u \in Users : Nought[u] = 0
BY DEF Nought

LEMMA EndedTyped ==
  ASSUME TypeOK, IsFiniteSet(fought), NEW k \in Kinds, NEW end \in {"killed", "fled", "lost"},
         NEW pay \in [Users -> Nat]
  PROVE  Ended(board[k], end, pay) \subseteq Gone /\ IsFiniteSet(Ended(board[k], end, pay))
<1>1. fought \subseteq Gone
  BY DEF TypeOK
<1>2. CASE board[k] = NULL
  BY <1>1, <1>2 DEF Ended
<1>3. CASE board[k] # NULL
  <2>. DEFINE b == board[k]
              g == [id |-> b.id, hp |-> b.hp, dmg |-> b.dmg, pay |-> pay, end |-> end]
  <2>1. g \in Gone
    BY <1>3, BoardShape DEF Gone
  <2>2. Ended(b, end, pay) = fought \cup {g}
    BY <1>3 DEF Ended
  <2>. HIDE DEF g
  <2>. QED BY <1>1, <2>1, <2>2, FS_AddElement
<1>. QED BY <1>2, <1>3

-----------------------------------------------------------------------------
(* Types.                                                                  *)

LEMMA TypeInit == Init => TypeInv
<1>. SUFFICES ASSUME Init PROVE TypeInv
  OBVIOUS
<1>1. cash \in [Users -> Nat] /\ bullets \in [Users -> Nat]
  BY RaidAssumption, NoughtTyped DEF Init
<1>2. board \in [Kinds -> Board \cup {NULL}] /\ cooling \subseteq Kinds \X Users /\ due \subseteq Kinds
  BY DEF Init
<1>3. op \in Ops /\ job \in [Kinds -> Jobs] /\ fought \subseteq Gone /\ overlap \in BOOLEAN
  BY NoneIsIdle DEF Init
<1>4. planned \in 0 .. MaxFights /\ crashes \in Nat
  BY RaidAssumption DEF Init
<1>5. OpInv /\ JobInv
  BY NoneIsIdle, TwoKinds DEF Init, OpInv, JobInv, Billed
<1>6. IsFiniteSet(fought)
  BY FS_EmptySet DEF Init
<1>. QED BY <1>1, <1>2, <1>3, <1>4, <1>5, <1>6 DEF TypeInv, TypeOK

\* A step of a handler that keeps its bill in memory.
LEMMA OpOnly ==
  ASSUME TypeInv, op' \in Ops, OpInv', overlap' \in BOOLEAN, cooling' \subseteq Kinds \X Users,
         board' \in [Kinds -> Board \cup {NULL}], fought' \subseteq Gone, IsFiniteSet(fought'),
         UNCHANGED <<rows, due, job, planned, crashes>>
  PROVE  TypeInv'
<1>1. TypeOK' /\ IsFiniteSet(fought')
  BY DEF TypeInv, TypeOK, rows
<1>2. JobInv'
  BY DEF TypeInv, JobInv
<1>. QED BY <1>1, <1>2 DEF TypeInv

\* A step that leaves handlers and rows alone.
LEMMA NotOp ==
  ASSUME TypeInv, UNCHANGED <<rows, op>>, board' \in [Kinds -> Board \cup {NULL}],
         cooling' \subseteq Kinds \X Users, due' \subseteq Kinds, job' \in [Kinds -> Jobs], JobInv',
         fought' \subseteq Gone, IsFiniteSet(fought'), overlap' \in BOOLEAN, planned' \in 0 .. MaxFights,
         crashes' \in Nat
  PROVE  TypeInv'
<1>1. OpInv'
  BY DEF TypeInv, OpInv, rows
<1>. QED BY <1>1 DEF TypeInv, TypeOK, rows

LEMMA SameHistory ==
  ASSUME TypeInv
  PROVE  /\ board \in [Kinds -> Board \cup {NULL}] /\ cooling \subseteq Kinds \X Users
         /\ due \subseteq Kinds /\ job \in [Kinds -> Jobs] /\ fought \subseteq Gone /\ IsFiniteSet(fought)
         /\ overlap \in BOOLEAN /\ planned \in 0 .. MaxFights /\ crashes \in Nat /\ TypeOK
BY DEF TypeInv, TypeOK

LEMMA HitBeginTyped ==
  ASSUME TypeInv, NEW k \in Kinds, NEW u \in Users, HitBegin(k, u)
  PROVE  TypeInv'
<1>. DEFINE view == [Nobody EXCEPT ![u] = cash[u]]
            bill == [todo |-> {}, view |-> view, pay |-> Nought]
<1>1. cash[u] \in Nat /\ cash[u] # NULL
  BY RaidAssumption DEF TypeInv, TypeOK
<1>2. view \in [Users -> Nat \cup {NULL}] /\ view[u] = cash[u]
  BY <1>1 DEF Nobody
<1>3. bill \in Bill
  BY <1>2, NoughtTyped DEF Bill
<1>4. BillOk(bill)
  BY NoughtTyped DEF BillOk
<1>5. op' = [pc |-> "aiming", k |-> k, me |-> u, bill |-> bill]
  BY DEF HitBegin
<1>6. bill.view[u] # NULL /\ bill.pay = Nought /\ bill.todo = {}
  BY <1>1, <1>2
<1>. HIDE DEF bill
<1>7. op' \in Ops
  BY <1>3, <1>5 DEF Ops
<1>8. OpInv'
  BY <1>4, <1>5, <1>6 DEF OpInv
<1>. QED BY <1>7, <1>8, SameHistory, OpOnly DEF HitBegin

LEMMA ShotShape ==
  ASSUME TypeOK, NEW u \in Users
  PROVE  Shot(u) \in BOOLEAN /\ (Shot(u) => bullets[u] > 0)
<1>1. Shot(u) <=> bullets[u] > 0
  BY DEF Shot
<1>. QED BY <1>1 DEF Shot

\* Closing keeps what the bill needs.
LEMMA ClosingTyped ==
  ASSUME TypeInv, op.pc \in Billed, NEW shot \in BOOLEAN, NEW bill \in Bill, BillOk(bill),
         bill.view = op.bill.view, shot => bullets[op.me] > 0, bullets' = bullets,
         op' = Closing(shot, bill)
  PROVE  op' \in Ops /\ OpInv'
<1>1. op.me \in Users /\ op.bill.view[op.me] # NULL
  BY OpShape DEF TypeInv, OpInv
<1>2. op' = [pc |-> "closing", me |-> op.me, shot |-> shot, bill |-> bill]
  BY DEF Closing
<1>. QED BY <1>1, <1>2 DEF Ops, OpInv

LEMMA MissedTyped == TypeInv /\ Missed => TypeInv'
<1>. SUFFICES ASSUME TypeInv, Missed PROVE TypeInv'
  OBVIOUS
<1>. DEFINE shot == op.k = "caravan" /\ Shot(op.me)
<1>1. op.pc \in Billed /\ op.bill \in Bill /\ BillOk(op.bill)
  BY OpShape DEF Missed, TypeInv, OpInv, Billed
<1>2. shot \in BOOLEAN /\ (shot => bullets[op.me] > 0) /\ op' = Closing(shot, op.bill) /\ bullets' = bullets
  BY DEF Missed, Shot, rows
<1>. HIDE DEF shot
<1>3. op' \in Ops /\ OpInv'
  BY <1>1, <1>2, ClosingTyped
<1>. QED BY <1>3, SameHistory, OpOnly DEF Missed, history

LEMMA ActiveBoard ==
  ASSUME TypeOK, NEW k \in Kinds, Active(k)
  PROVE  board[k] # NULL /\ board[k] \in Board /\ board[k].hp \in Int /\ board[k].hp > 0
         /\ board[k].id \in Fights /\ board[k].dmg \in [Users -> Nat]
BY BoardShape DEF Active

\* What a hit does to the board.
LEMMA StrikeBoard ==
  ASSUME TypeOK, NEW d \in Damage, Strike(d)
  PROVE  LET b == board[op.k]
             c == board'[op.k]
         IN  /\ op.k \in Kinds /\ op.me \in Users /\ d \in Nat \ {0}
             /\ b # NULL /\ c \in Board /\ c # NULL
             /\ c.id = b.id /\ c.hp = b.hp - d
             /\ c.dmg[op.me] = b.dmg[op.me] + d
             /\ \A v \in Users \ {op.me} : c.dmg[v] = b.dmg[v]
             /\ \A l \in Kinds \ {op.k} : board'[l] = board[l]
             /\ board' \in [Kinds -> Board \cup {NULL}]
<1>. DEFINE b == board[op.k]
            c == [b EXCEPT !.hp = b.hp - d, !.dmg = [b.dmg EXCEPT ![op.me] = b.dmg[op.me] + d]]
<1>1. op.k \in Kinds /\ op.me \in Users /\ d \in Nat \ {0}
  BY OpShape, RaidAssumption DEF Strike, Billed
<1>2. b # NULL /\ b \in Board /\ b.hp \in Int /\ b.dmg \in [Users -> Nat]
  BY <1>1, ActiveBoard DEF Strike
<1>3. board' = [board EXCEPT ![op.k] = c]
  BY DEF Strike
<1>4. b.dmg[op.me] + d \in Nat /\ b.hp - d \in Int
  BY <1>1, <1>2
<1>5. c \in Board /\ c.id = b.id /\ c.hp = b.hp - d /\ c.dmg = [b.dmg EXCEPT ![op.me] = b.dmg[op.me] + d]
  BY <1>2, <1>4 DEF Board
<1>6. c.dmg[op.me] = b.dmg[op.me] + d /\ \A v \in Users \ {op.me} : c.dmg[v] = b.dmg[v]
  BY <1>1, <1>2, <1>5
<1>7. c # NULL
  BY <1>5, BoardAssumption
<1>. HIDE DEF c
<1>8. board \in [Kinds -> Board \cup {NULL}]
  BY DEF TypeOK
<1>9. board'[op.k] = c /\ \A l \in Kinds \ {op.k} : board'[l] = board[l]
  BY <1>1, <1>3, <1>8
<1>10. board' \in [Kinds -> Board \cup {NULL}]
  BY <1>3, <1>5, <1>8
<1>. QED BY <1>1, <1>2, <1>5, <1>6, <1>7, <1>9, <1>10

\* What a hit does to the handler's bill.
LEMMA StrikeBill ==
  ASSUME TypeInv, NEW d \in Damage, Strike(d)
  PROVE  LET bill == op'.bill
         IN  /\ op'.pc \in {"closing", "struck"} /\ op'.me = op.me
             /\ op'.pc = "struck" => op'.k = op.k /\ board[op.k].hp <= d
             /\ op'.pc = "closing" => op'.shot = Shot(op.me)
             /\ bill \in Bill /\ BillOk(bill) /\ bill.todo = {} /\ bill.view = op.bill.view
             /\ bill.pay[op.me] = d * PerDamage
             /\ \A v \in Users \ {op.me} : bill.pay[v] = 0
             /\ op' \in Ops /\ OpInv'
<1>. DEFINE bill == [op.bill EXCEPT !.pay[op.me] = d * PerDamage]
<1>1. op.pc = "aiming" /\ op.me \in Users /\ op.bill \in Bill /\ op.k \in Kinds
  BY OpShape DEF Strike, Billed, TypeInv
<1>2. op.bill.pay = Nought /\ op.bill.todo = {} /\ op.bill.view[op.me] # NULL
  BY <1>1 DEF TypeInv, OpInv, Billed
<1>3. d * PerDamage \in Nat
  BY RaidAssumption
<1>4. bill = [todo |-> op.bill.todo, view |-> op.bill.view, pay |-> [op.bill.pay EXCEPT ![op.me] = d * PerDamage]]
  BY <1>1 DEF Bill
<1>. HIDE DEF bill
<1>5. bill.pay = [Nought EXCEPT ![op.me] = d * PerDamage]
  BY <1>2, <1>4
<1>6. bill.pay \in [Users -> Nat] /\ bill.pay[op.me] = d * PerDamage /\ \A v \in Users \ {op.me} : bill.pay[v] = 0
  BY <1>1, <1>3, <1>5, NoughtTyped
<1>7. bill.todo = {} /\ bill.view = op.bill.view /\ bill \in Bill
  BY <1>1, <1>2, <1>4, <1>6, BillShape DEF Bill
<1>8. BillOk(bill)
  BY <1>2, <1>6, <1>7 DEF BillOk
<1>9. board[op.k].hp \in Int /\ d \in Int
  BY <1>1, ActiveBoard, RaidAssumption DEF Strike, TypeInv
<1>10. op' = IF board[op.k].hp > d THEN Closing(Shot(op.me), bill)
                                  ELSE [pc |-> "struck", k |-> op.k, me |-> op.me, bill |-> bill]
  BY DEF Strike, bill
<1>11. CASE board[op.k].hp > d
  <2>1. op' = Closing(Shot(op.me), bill)
    BY <1>10, <1>11
  <2>2. op' = [pc |-> "closing", me |-> op.me, shot |-> Shot(op.me), bill |-> bill]
    BY <2>1 DEF Closing
  <2>3. op' \in Ops /\ OpInv'
    <3>1. bullets' = bullets /\ TypeOK
      BY DEF Strike, rows, TypeInv
    <3>2. Shot(op.me) \in BOOLEAN /\ (Shot(op.me) => bullets[op.me] > 0)
      BY <1>1, <3>1, ShotShape
    <3>. QED BY <1>1, <1>7, <1>8, <2>1, <3>1, <3>2, ClosingTyped DEF Billed
  <2>4. op'.bill = bill
    BY <2>2
  <2>. QED BY <1>6, <1>7, <1>8, <2>2, <2>3, <2>4
<1>12. CASE ~(board[op.k].hp > d)
  <2>1. op' = [pc |-> "struck", k |-> op.k, me |-> op.me, bill |-> bill] /\ board[op.k].hp <= d
    BY <1>9, <1>10, <1>12
  <2>2. op' \in Ops
    BY <1>1, <1>7, <2>1 DEF Ops
  <2>3. OpInv'
    BY <1>2, <1>7, <1>8, <2>1 DEF OpInv
  <2>4. op'.bill = bill
    BY <2>1
  <2>. QED BY <1>6, <1>7, <1>8, <2>1, <2>2, <2>3, <2>4
<1>. QED BY <1>11, <1>12

LEMMA StrikeTyped ==
  ASSUME TypeInv, NEW d \in Damage, Strike(d)
  PROVE  TypeInv'
<1>1. TypeOK /\ op.k \in Kinds /\ op.me \in Users /\ cooling \subseteq Kinds \X Users
  BY OpShape DEF Strike, Billed, TypeInv, TypeOK
<1>2. board' \in [Kinds -> Board \cup {NULL}]
  BY <1>1, StrikeBoard
<1>3. op' \in Ops /\ OpInv'
  BY StrikeBill
<1>4. cooling' \subseteq Kinds \X Users
  BY <1>1 DEF Strike
<1>5. fought' \subseteq Gone /\ IsFiniteSet(fought') /\ overlap' \in BOOLEAN
  BY SameHistory DEF Strike, history
<1>. QED BY <1>2, <1>3, <1>4, <1>5, OpOnly DEF Strike

\* The two outcomes of a settlement.
LEMMA SettleIs ==
  ASSUME TypeInv, Settle
  PROVE  LET b == board[op.k]
         IN  /\ op.pc = "struck" /\ op.k \in Kinds /\ op.me \in Users
             /\ board' = [board EXCEPT ![op.k] = NULL]
             /\ UNCHANGED <<rows, cooling, due, job, planned, overlap, crashes>>
             /\ op' \in Ops /\ OpInv' /\ op'.pc = "closing" /\ op'.me = op.me
             /\ op'.bill.view = op.bill.view
             /\ \/ /\ b = NULL \/ Hitters(b) = {}
                   /\ fought' = Ended(b, "lost", Nought) /\ op'.bill.pay = op.bill.pay
                \/ /\ b # NULL /\ Hitters(b) # {}
                   /\ \E owed \in [Users -> Nat] :
                        /\ fought' = Ended(b, "killed", owed)
                        /\ \A u \in Users : op'.bill.pay[u] = op.bill.pay[u] + owed[u]
<1>. DEFINE b == board[op.k]
<1>1. TypeOK /\ op.pc = "struck" /\ op.k \in Kinds /\ op.me \in Users /\ op.bill \in Bill
  BY OpShape DEF Settle, Billed, TypeInv
<1>2. op.bill.todo = {} /\ BillOk(op.bill) /\ op.bill.view[op.me] # NULL
  BY <1>1 DEF TypeInv, OpInv, Billed
<1>3. bullets' = bullets /\ Shot(op.me) \in BOOLEAN /\ (Shot(op.me) => bullets[op.me] > 0)
  BY <1>1, ShotShape DEF Settle, rows
<1>4. CASE b = NULL \/ Hitters(b) = {}
  <2>1. fought' = Ended(b, "lost", Nought) /\ op' = Closing(Shot(op.me), op.bill)
    BY <1>4 DEF Settle
  <2>2. op' \in Ops /\ OpInv'
    BY <1>1, <1>2, <1>3, <2>1, ClosingTyped DEF Billed
  <2>3. op'.pc = "closing" /\ op'.me = op.me /\ op'.bill = op.bill
    BY <2>1 DEF Closing
  <2>. QED BY <1>1, <1>4, <2>1, <2>2, <2>3 DEF Settle
<1>5. CASE ~(b = NULL \/ Hitters(b) = {})
  <2>1. PICK r \in Rankings(b) :
          LET owed == Prizes(op.k, b, "killed", r, op.me)
          IN  /\ fought' = Ended(b, "killed", owed)
              /\ op' = Closing(Shot(op.me), [op.bill EXCEPT !.todo = Hitters(b) \ {op.me},
                                                           !.pay = [u \in Users |-> @[u] + owed[u]]])
    BY <1>5 DEF Settle
  <2>. DEFINE owed == Prizes(op.k, b, "killed", r, op.me)
              bill == [op.bill EXCEPT !.todo = Hitters(b) \ {op.me},
                                      !.pay = [u \in Users |-> op.bill.pay[u] + owed[u]]]
  <2>2. b \in Board /\ Hitters(b) \subseteq Users
    BY <1>1, <1>5, BoardShape DEF Hitters
  <2>3. owed \in [Users -> Nat] /\ \A u \in Users : owed[u] > 0 => u \in Hitters(b)
    BY <1>1, <2>2, PrizesTyped
  <2>4. fought' = Ended(b, "killed", owed) /\ op' = Closing(Shot(op.me), bill)
    BY <2>1
  <2>. HIDE DEF owed
  <2>5. op.bill.pay \in [Users -> Nat]
    BY <1>1, BillShape
  <2>6. [u \in Users |-> op.bill.pay[u] + owed[u]] \in [Users -> Nat]
    BY <2>3, <2>5
  <2>. DEFINE pay  == [u \in Users |-> op.bill.pay[u] + owed[u]]
              todo == Hitters(b) \ {op.me}
  <2>7. bill = [todo |-> todo, view |-> op.bill.view, pay |-> pay]
    <3>1. bill = [op.bill EXCEPT !.todo = todo, !.pay = pay]
      OBVIOUS
    <3>. HIDE DEF bill, todo, pay
    <3>. QED BY <1>1, <3>1 DEF Bill
  <2>. HIDE DEF bill
  <2>8. bill.todo = Hitters(b) \ {op.me} /\ bill.view = op.bill.view
        /\ \A u \in Users : bill.pay[u] = op.bill.pay[u] + owed[u]
    BY <2>7
  <2>9. bill \in Bill
    BY <1>1, <2>2, <2>6, <2>7, BillShape DEF Bill
  <2>10. BillOk(bill)
    <3>. SUFFICES ASSUME NEW u \in Users, bill.pay[u] > 0, u \notin bill.todo PROVE bill.view[u] # NULL
      BY DEF BillOk
    <3>1. op.bill.pay[u] > 0 \/ owed[u] > 0
      BY <2>3, <2>5, <2>8
    <3>2. CASE op.bill.pay[u] > 0
      BY <1>2, <2>8, <3>2 DEF BillOk
    <3>3. CASE owed[u] > 0
      BY <1>2, <2>3, <2>8, <3>3
    <3>. QED BY <3>1, <3>2, <3>3
  <2>11. op' \in Ops /\ OpInv'
    BY <1>1, <1>3, <2>4, <2>8, <2>9, <2>10, ClosingTyped DEF Billed
  <2>12. op'.pc = "closing" /\ op'.me = op.me /\ op'.bill = bill
    BY <2>4 DEF Closing
  <2>. QED BY <1>1, <1>5, <2>3, <2>4, <2>8, <2>11, <2>12 DEF Settle
<1>. QED BY <1>4, <1>5

LEMMA SettleTyped == TypeInv /\ Settle => TypeInv'
<1>. SUFFICES ASSUME TypeInv, Settle PROVE TypeInv'
  OBVIOUS
<1>1. TypeOK /\ IsFiniteSet(fought) /\ board \in [Kinds -> Board \cup {NULL}]
  BY SameHistory
<1>2. op.k \in Kinds /\ op' \in Ops /\ OpInv' /\ board' = [board EXCEPT ![op.k] = NULL]
      /\ UNCHANGED <<rows, cooling, due, job, planned, overlap, crashes>>
  BY SettleIs
<1>3. fought' = Ended(board[op.k], "lost", Nought) \/ \E owed \in [Users -> Nat] : fought' = Ended(board[op.k], "killed", owed)
  BY SettleIs
<1>4. fought' \subseteq Gone /\ IsFiniteSet(fought')
  BY <1>1, <1>2, <1>3, EndedTyped, NoughtTyped
<1>5. board' \in [Kinds -> Board \cup {NULL}]
  BY <1>1, <1>2
<1>. QED BY <1>2, <1>4, <1>5, SameHistory, OpOnly

\* A handler reads one more row.
LEMMA HitReadIs ==
  ASSUME TypeInv, HitReadRow
  PROVE  /\ op.pc = "closing" /\ op'.pc = "closing" /\ op'.me = op.me /\ op' \in Ops /\ OpInv'
         /\ op.bill \in Bill /\ BillOk(op.bill)
         /\ \E u \in op.bill.todo : u \in Users /\ op'.bill = ReadRow(op.bill, u)
<1>1. TypeOK /\ op.pc = "closing" /\ op.me \in Users /\ op.bill \in Bill
  BY OpShape DEF HitReadRow, Billed, TypeInv
<1>2. BillOk(op.bill) /\ op.bill.view[op.me] # NULL /\ (op.shot => bullets[op.me] > 0)
  BY <1>1 DEF TypeInv, OpInv, Billed
<1>3. PICK u \in op.bill.todo : op' = [op EXCEPT !.bill = ReadRow(op.bill, u)]
  BY DEF HitReadRow
<1>4. u \in Users
  BY <1>1, BillShape
<1>. DEFINE b == ReadRow(op.bill, u)
<1>5. b \in Bill /\ BillOk(b) /\ b.view[op.me] # NULL
  BY <1>1, <1>2, <1>4, ReadRowTyped
<1>6. op \in [pc : {"closing"}, me : Users, shot : BOOLEAN, bill : Bill]
  BY <1>1 DEF TypeOK, Ops, Idle
<1>. HIDE DEF b
<1>7. op' = [op EXCEPT !.bill = b]
  BY <1>3 DEF b
<1>8. op'.pc = "closing" /\ op'.me = op.me /\ op'.shot = op.shot /\ op'.bill = b
      /\ op' \in [pc : {"closing"}, me : Users, shot : BOOLEAN, bill : Bill]
  BY <1>5, <1>6, <1>7
<1>9. op' \in Ops
  BY <1>8 DEF Ops
<1>10. OpInv'
  BY <1>2, <1>5, <1>8 DEF OpInv, HitReadRow, rows
<1>. QED BY <1>1, <1>2, <1>4, <1>8, <1>9, <1>10 DEF b

LEMMA HitCommitTyped == TypeInv /\ HitCommit => TypeInv'
<1>. SUFFICES ASSUME TypeInv, HitCommit PROVE TypeInv'
  OBVIOUS
<1>1. TypeOK /\ op.pc = "closing" /\ op.me \in Users /\ op.bill \in Bill
  BY OpShape DEF HitCommit, Billed, TypeInv
<1>2. BillOk(op.bill) /\ (op.shot => bullets[op.me] > 0)
  BY <1>1 DEF TypeInv, OpInv, Billed
<1>3. cash' \in [Users -> Nat]
  BY <1>1, <1>2, WrittenTyped DEF HitCommit
<1>4. bullets' \in [Users -> Nat]
  BY <1>1, <1>2 DEF HitCommit, TypeOK
<1>5. OpInv'
  BY NoneIsIdle DEF HitCommit, OpInv, Billed
<1>6. JobInv'
  BY DEF HitCommit, TypeInv, JobInv
<1>. QED BY <1>3, <1>4, <1>5, <1>6, NoneIsIdle DEF HitCommit, TypeInv, TypeOK, history

\* The caravan leaves: what the job's session will write.
LEMMA LeavesIs ==
  ASSUME TypeInv, CaravanExpire
  PROVE  LET b == board["caravan"]
         IN  /\ job["caravan"] = Off /\ b # NULL /\ b.hp > 0
             /\ board' = [board EXCEPT !["caravan"] = NULL]
             /\ job' \in [Kinds -> Jobs] /\ JobInv'
             /\ job'["boss"] = job["boss"] /\ job'["caravan"].pc = "paying"
             /\ \A u \in Users : job'["caravan"].bill.view[u] = NULL
             /\ \E owed \in [Users -> Nat] :
                  /\ fought' = Ended(b, "fled", owed)
                  /\ \A u \in Users : job'["caravan"].bill.pay[u] = owed[u]
<1>. DEFINE b == board["caravan"]
<1>1. job["caravan"] = Off /\ b # NULL /\ b.hp > 0 /\ board' = [board EXCEPT !["caravan"] = NULL]
      /\ CaravanLeaves(b)
  BY DEF CaravanExpire
<1>2. b \in Board /\ Hitters(b) \subseteq Users
  BY <1>1, BoardShape, TwoKinds DEF Hitters, TypeInv
<1>3. PICK r \in Rankings(b) :
        LET owed == Prizes("caravan", b, "fled", r, NULL)
        IN  /\ fought' = Ended(b, "fled", owed)
            /\ job' = [job EXCEPT !["caravan"] =
                 [pc |-> "paying", bill |-> [todo |-> Hitters(b), view |-> Nobody, pay |-> owed]]]
  BY <1>1 DEF CaravanLeaves
<1>. DEFINE owed == Prizes("caravan", b, "fled", r, NULL)
            bill == [todo |-> Hitters(b), view |-> Nobody, pay |-> owed]
<1>4. owed \in [Users -> Nat] /\ \A u \in Users : owed[u] > 0 => u \in Hitters(b)
  BY <1>2, PrizesTyped, TwoKinds
<1>5. fought' = Ended(b, "fled", owed) /\ job' = [job EXCEPT !["caravan"] = [pc |-> "paying", bill |-> bill]]
  BY <1>3
<1>. HIDE DEF owed
<1>6. bill \in Bill /\ BillOk(bill)
  BY <1>2, <1>4 DEF Bill, BillOk, Nobody
<1>7. bill.pay = owed /\ \A u \in Users : bill.view[u] = NULL
  BY DEF Nobody
<1>. HIDE DEF bill
<1>8. job \in [Kinds -> Jobs] /\ [pc |-> "paying", bill |-> bill] \in Jobs
  BY <1>6 DEF TypeInv, TypeOK, Jobs
<1>9. job' \in [Kinds -> Jobs] /\ job'["caravan"] = [pc |-> "paying", bill |-> bill] /\ job'["boss"] = job["boss"]
  BY <1>5, <1>8, TwoKinds
<1>10. JobInv'
  BY <1>6, <1>9 DEF TypeInv, JobInv
<1>. QED BY <1>1, <1>4, <1>5, <1>7, <1>9, <1>10

LEMMA ExpireTyped == TypeInv /\ (CaravanExpire \/ BossExpire) => TypeInv'
<1>. SUFFICES ASSUME TypeInv, CaravanExpire \/ BossExpire PROVE TypeInv'
  OBVIOUS
<1>1. TypeOK /\ IsFiniteSet(fought) /\ board \in [Kinds -> Board \cup {NULL}] /\ overlap \in BOOLEAN
  BY SameHistory
<1>2. CASE CaravanExpire
  <2>1. job' \in [Kinds -> Jobs] /\ JobInv' /\ board' = [board EXCEPT !["caravan"] = NULL]
        /\ \E owed \in [Users -> Nat] : fought' = Ended(board["caravan"], "fled", owed)
    BY <1>2, LeavesIs
  <2>2. fought' \subseteq Gone /\ IsFiniteSet(fought')
    BY <1>1, <2>1, TwoKinds, EndedTyped
  <2>3. board' \in [Kinds -> Board \cup {NULL}]
    BY <1>1, <2>1
  <2>4. overlap' \in BOOLEAN /\ UNCHANGED <<rows, cooling, due, op, planned, crashes>>
    BY <1>1, <1>2 DEF CaravanExpire, CaravanLeaves
  <2>. QED BY <2>1, <2>2, <2>3, <2>4, SameHistory, NotOp
<1>3. CASE BossExpire
  <2>1. fought' = Ended(board["boss"], "fled", Nought) /\ board' = [board EXCEPT !["boss"] = NULL]
        /\ UNCHANGED <<rows, cooling, due, op, job, planned, overlap, crashes>>
    BY <1>3 DEF BossExpire
  <2>2. fought' \subseteq Gone /\ IsFiniteSet(fought')
    BY <1>1, <2>1, TwoKinds, NoughtTyped, EndedTyped
  <2>3. board' \in [Kinds -> Board \cup {NULL}] /\ JobInv'
    BY <1>1, <2>1 DEF TypeInv, JobInv
  <2>. QED BY <2>1, <2>2, <2>3, SameHistory, NotOp
<1>. QED BY <1>2, <1>3

\* Only the caravan's job pays.
LEMMA JobReadIs ==
  ASSUME TypeInv, NEW k \in Kinds, JobReadRow(k)
  PROVE  /\ k = "caravan" /\ job["caravan"].pc = "paying" /\ job'["caravan"].pc = "paying"
         /\ job'["boss"] = job["boss"] /\ job' \in [Kinds -> Jobs] /\ JobInv'
         /\ job["caravan"].bill \in Bill /\ BillOk(job["caravan"].bill)
         /\ \E u \in job["caravan"].bill.todo :
              u \in Users /\ job'["caravan"].bill = ReadRow(job["caravan"].bill, u)
<1>1. k = "caravan" /\ job["caravan"].pc = "paying" /\ TypeOK
  BY TwoKinds DEF TypeInv, JobInv, JobReadRow
<1>2. job["caravan"].bill \in Bill /\ BillOk(job["caravan"].bill) /\ job \in [Kinds -> Jobs]
  BY <1>1, JobShape, TwoKinds DEF TypeInv, JobInv, TypeOK
<1>3. PICK u \in job["caravan"].bill.todo :
        job' = [job EXCEPT !["caravan"].bill = ReadRow(job["caravan"].bill, u)]
  BY <1>1 DEF JobReadRow
<1>4. u \in Users
  BY <1>2, BillShape
<1>. DEFINE b == ReadRow(job["caravan"].bill, u)
<1>5. b \in Bill /\ BillOk(b)
  BY <1>1, <1>2, <1>4, ReadRowTyped
<1>. HIDE DEF b
<1>6. job["caravan"] \in [pc : {"paying"}, bill : Bill]
  BY <1>1, <1>2, TwoKinds DEF Jobs, Off, Idle
<1>. DEFINE j == [job["caravan"] EXCEPT !.bill = b]
<1>7. j \in Jobs /\ j.pc = "paying" /\ j.bill = b
  BY <1>5, <1>6 DEF Jobs
<1>8. job' = [job EXCEPT !["caravan"] = j]
  BY <1>3 DEF b
<1>. HIDE DEF j
<1>9. job'["caravan"] = j /\ job'["boss"] = job["boss"] /\ job' \in [Kinds -> Jobs]
  BY <1>2, <1>7, <1>8, TwoKinds
<1>10. JobInv'
  BY <1>5, <1>7, <1>9 DEF JobInv, TypeInv
<1>. QED BY <1>1, <1>2, <1>4, <1>7, <1>9, <1>10 DEF b

LEMMA JobCommitTyped == TypeInv /\ (\E k \in Kinds : JobCommit(k)) => TypeInv'
<1>. SUFFICES ASSUME TypeInv, NEW k \in Kinds, JobCommit(k) PROVE TypeInv'
  OBVIOUS
<1>1. k = "caravan" /\ job[k].pc = "paying" /\ TypeOK /\ job[k].bill.todo = {}
  BY TwoKinds DEF TypeInv, JobInv, JobCommit
<1>2. job[k].bill \in Bill /\ BillOk(job[k].bill)
  BY <1>1, JobShape DEF TypeInv, JobInv
<1>3. cash' \in [Users -> Nat]
  BY <1>1, <1>2, WrittenTyped DEF JobCommit
<1>4. job \in [Kinds -> Jobs]
  BY <1>1 DEF TypeOK
<1>5. job' \in [Kinds -> Jobs] /\ job'["caravan"] = Off /\ job'["boss"] = job["boss"]
  BY <1>1, <1>4, NoneIsIdle, TwoKinds DEF JobCommit
<1>6. JobInv'
  BY <1>5, NoneIsIdle DEF TypeInv, JobInv
<1>7. OpInv'
  BY DEF TypeInv, OpInv, JobCommit
<1>. QED BY <1>3, <1>5, <1>6, <1>7 DEF TypeInv, TypeOK, JobCommit, history

\* A fight begins.
LEMMA SpawnedIs ==
  ASSUME TypeOK, IsFiniteSet(fought), NEW k \in Kinds, NEW id \in Fights, NEW hp \in Health, Spawned(k, id, hp)
  PROVE  /\ board' \in [Kinds -> Board \cup {NULL}] /\ fought' \subseteq Gone /\ IsFiniteSet(fought')
         /\ board'[k] # NULL /\ board'[k].id = id /\ board'[k].hp = hp /\ hp > 0
         /\ board'[k].dmg = Nought
         /\ \A l \in Kinds \ {k} : board'[l] = board[l]
         /\ fought' = Ended(board[k], "lost", Nought)
<1>. DEFINE b == [id |-> id, hp |-> hp, dmg |-> Nought, late |-> FALSE]
<1>1. hp \in Int /\ hp > 0
  BY RaidAssumption
<1>2. b \in Board
  BY <1>1, NoughtTyped DEF Board
<1>3. b # NULL
  BY <1>2, BoardAssumption
<1>4. board \in [Kinds -> Board \cup {NULL}] /\ board' = [board EXCEPT ![k] = b]
      /\ fought' = Ended(board[k], "lost", Nought)
  BY DEF Spawned, TypeOK
<1>5. fought' \subseteq Gone /\ IsFiniteSet(fought')
  BY <1>4, NoughtTyped, EndedTyped
<1>6. b.id = id /\ b.hp = hp /\ b.dmg = Nought
  OBVIOUS
<1>. HIDE DEF b
<1>. QED BY <1>1, <1>2, <1>3, <1>4, <1>5, <1>6

\* The next fight's number is one of Fights.
LEMMA NextFight ==
  ASSUME TypeOK, planned < MaxFights
  PROVE  planned + 1 \in Fights /\ planned + 1 \in 0 .. MaxFights /\ planned \in Nat
BY RaidAssumption DEF TypeOK, Fights

LEMMA PlanTyped ==
  ASSUME TypeInv, NEW k \in Kinds, Plan(k) \/ PlanCommit(k)
  PROVE  TypeInv'
<1>1. TypeOK /\ job \in [Kinds -> Jobs]
  BY SameHistory
<1>2. CASE Plan(k)
  <2>. DEFINE j == [pc |-> "planning", id |-> planned + 1]
  <2>1. planned + 1 \in Fights /\ planned' \in 0 .. MaxFights
    BY <1>1, <1>2, NextFight DEF Plan
  <2>2. j \in Jobs /\ j.pc = "planning"
    BY <2>1 DEF Jobs
  <2>3. job' = [job EXCEPT ![k] = j]
    BY <1>2 DEF Plan
  <2>. HIDE DEF j
  <2>4. job' \in [Kinds -> Jobs] /\ JobInv'
    BY <1>1, <2>2, <2>3, TwoKinds DEF TypeInv, JobInv
  <2>. QED BY <1>2, <2>1, <2>4, SameHistory, NotOp DEF Plan, history
<1>3. CASE PlanCommit(k)
  <2>. DEFINE j == [job[k] EXCEPT !.pc = "spawning"]
  <2>1. job[k] \in [pc : {"planning", "spawning"}, id : Fights]
    BY <1>1, <1>3 DEF PlanCommit, Jobs, Off, Idle
  <2>2. j \in Jobs /\ j.pc = "spawning"
    BY <2>1 DEF Jobs
  <2>3. job' = [job EXCEPT ![k] = j]
    BY <1>3 DEF PlanCommit
  <2>. HIDE DEF j
  <2>4. job' \in [Kinds -> Jobs] /\ JobInv'
    BY <1>1, <2>2, <2>3, TwoKinds DEF TypeInv, JobInv
  <2>5. due' \subseteq Kinds
    BY <1>1, <1>3 DEF PlanCommit, TypeOK
  <2>. QED BY <1>3, <2>4, <2>5, SameHistory, NotOp DEF PlanCommit, history
<1>. QED BY <1>2, <1>3

\* Where a fight begins: the job's, or an administrator's.
Begins(k, id) == \/ Spawn(k) /\ id = job[k].id
                 \/ AdminCaravan /\ k = "caravan" /\ id = planned + 1
                 \/ AdminBoss /\ k = "boss" /\ id = planned + 1

LEMMA BeginsIs ==
  ASSUME TypeInv, NEW k \in Kinds, NEW id, Begins(k, id)
  PROVE  /\ id \in Fights /\ \E hp \in Health : Spawned(k, id, hp)
         /\ op' = op \/ (op = Idle /\ op'.pc = "noting")
         /\ op' \in Ops /\ OpInv' /\ job' \in [Kinds -> Jobs] /\ JobInv'
         /\ planned' \in 0 .. MaxFights /\ UNCHANGED <<rows, cooling, due, overlap, crashes>>
         /\ job'["caravan"].pc = "paying" <=> job["caravan"].pc = "paying"
         /\ job["caravan"].pc = "paying" => job'["caravan"] = job["caravan"]
<1>1. TypeOK /\ job \in [Kinds -> Jobs] /\ planned \in 0 .. MaxFights
  BY SameHistory
<1>2. CASE Spawn(k) /\ id = job[k].id
  <2>1. id \in Fights /\ job[k].pc = "spawning"
    BY <1>1, <1>2, JobShape DEF Spawn
  <2>2. job' = [job EXCEPT ![k] = Off] /\ op' = op /\ planned' = planned
        /\ UNCHANGED <<rows, cooling, due, overlap, crashes>>
    BY <1>2 DEF Spawn
  <2>3. job' \in [Kinds -> Jobs] /\ job'[k] = Off /\ \A l \in Kinds \ {k} : job'[l] = job[l]
    BY <1>1, <2>2, NoneIsIdle
  <2>4. JobInv' /\ OpInv'
    BY <2>2, <2>3, TwoKinds, NoneIsIdle DEF TypeInv, JobInv, OpInv, rows
  <2>5. (job'["caravan"].pc = "paying" <=> job["caravan"].pc = "paying")
        /\ (job["caravan"].pc = "paying" => job'["caravan"] = job["caravan"])
    BY <2>1, <2>3, TwoKinds, NoneIsIdle
  <2>. QED BY <1>1, <1>2, <2>1, <2>2, <2>3, <2>4, <2>5 DEF Spawn, TypeOK
<1>3. CASE AdminCaravan /\ k = "caravan" /\ id = planned + 1
  <2>1. id \in Fights /\ planned' \in 0 .. MaxFights /\ op = Idle /\ op' = [pc |-> "noting"]
    BY <1>1, <1>3, NextFight DEF AdminCaravan
  <2>2. op' \in Ops /\ OpInv'
    BY <2>1 DEF Ops, OpInv, Billed
  <2>. QED BY <1>1, <1>3, <2>1, <2>2 DEF AdminCaravan, TypeInv, JobInv
<1>4. CASE AdminBoss /\ k = "boss" /\ id = planned + 1
  <2>1. id \in Fights /\ planned' \in 0 .. MaxFights /\ op' = op
    BY <1>1, <1>4, NextFight DEF AdminBoss
  <2>2. op' \in Ops /\ OpInv'
    BY <1>4, <2>1 DEF TypeInv, TypeOK, OpInv, AdminBoss, rows
  <2>. QED BY <1>1, <1>4, <2>1, <2>2 DEF AdminBoss, TypeInv, JobInv
<1>. QED BY <1>2, <1>3, <1>4 DEF Begins

LEMMA BeginsTyped ==
  ASSUME TypeInv, NEW k \in Kinds, NEW id, Begins(k, id)
  PROVE  TypeInv'
<1>1. id \in Fights /\ TypeOK /\ IsFiniteSet(fought)
  BY BeginsIs, SameHistory
<1>2. PICK hp \in Health : Spawned(k, id, hp)
  BY BeginsIs
<1>3. board' \in [Kinds -> Board \cup {NULL}] /\ fought' \subseteq Gone /\ IsFiniteSet(fought')
  BY <1>1, <1>2, SpawnedIs
<1>. QED BY <1>3, BeginsIs, SameHistory DEF TypeInv, TypeOK, rows

LEMMA LateIs ==
  ASSUME TypeOK, NEW k \in Kinds, Late(k)
  PROVE  /\ board' \in [Kinds -> Board \cup {NULL}]
         /\ \A l \in Kinds : board'[l] = NULL <=> board[l] = NULL
         /\ \A l \in Kinds : board[l] # NULL =>
              board'[l].id = board[l].id /\ board'[l].hp = board[l].hp /\ board'[l].dmg = board[l].dmg
<1>. DEFINE b == [board[k] EXCEPT !.late = TRUE]
<1>1. board[k] # NULL /\ board' = [board EXCEPT ![k] = b] /\ board \in [Kinds -> Board \cup {NULL}]
  BY DEF Late, TypeOK
<1>2. board[k] \in Board
  BY <1>1, BoardShape
<1>3. b \in Board /\ b.id = board[k].id /\ b.hp = board[k].hp /\ b.dmg = board[k].dmg
  BY <1>2 DEF Board
<1>4. b # NULL
  BY <1>3, BoardAssumption
<1>. HIDE DEF b
<1>. QED BY <1>1, <1>3, <1>4

LEMMA CrashIs ==
  ASSUME TypeInv, Crash
  PROVE  /\ fought' = Ended(board["caravan"], "lost", Nought) \cup Ended(board["boss"], "lost", Nought)
         /\ fought' \subseteq Gone /\ IsFiniteSet(fought')
         /\ \A k \in Kinds : board'[k] = NULL /\ job'[k] = Off
         /\ board' \in [Kinds -> Board \cup {NULL}] /\ job' \in [Kinds -> Jobs]
         /\ op' = Idle
<1>1. fought' = Ended(board["caravan"], "lost", Nought) \cup Ended(board["boss"], "lost", Nought)
  BY TwoKinds DEF Crash
<1>2. fought' \subseteq Gone /\ IsFiniteSet(fought')
  <2>1. /\ Ended(board["caravan"], "lost", Nought) \subseteq Gone
        /\ IsFiniteSet(Ended(board["caravan"], "lost", Nought))
        /\ Ended(board["boss"], "lost", Nought) \subseteq Gone
        /\ IsFiniteSet(Ended(board["boss"], "lost", Nought))
    BY TwoKinds, NoughtTyped, SameHistory, EndedTyped
  <2>. QED BY <1>1, <2>1, FS_Union
<1>. QED BY <1>1, <1>2, NoneIsIdle DEF Crash

\* The steps that only touch memory or time.
Clock == \/ AdminNote \/ (\E k \in Kinds, u \in Users : CoolDown(k, u)) \/ (\E k \in Kinds : DueComes(k))

LEMMA ClockTyped == TypeInv /\ Clock => TypeInv'
<1>. SUFFICES ASSUME TypeInv, Clock PROVE TypeInv'
  OBVIOUS
<1>1. CASE AdminNote
  <2>1. OpInv'
    BY <1>1, NoneIsIdle DEF AdminNote, OpInv, Billed
  <2>2. JobInv'
    BY <1>1 DEF AdminNote, TypeInv, JobInv
  <2>. QED BY <1>1, <2>1, <2>2, NoneIsIdle DEF AdminNote, TypeInv, TypeOK, rows, history
<1>2. CASE \E k \in Kinds, u \in Users : CoolDown(k, u)
  <2>1. cooling' \subseteq Kinds \X Users /\ UNCHANGED <<rows, board, due, op, job, planned, history, crashes>>
    BY <1>2 DEF CoolDown, TypeInv, TypeOK
  <2>2. JobInv'
    BY <2>1 DEF TypeInv, JobInv
  <2>. QED BY <2>1, <2>2, SameHistory, NotOp DEF history
<1>3. CASE \E k \in Kinds : DueComes(k)
  <2>1. due' \subseteq Kinds /\ UNCHANGED <<rows, board, cooling, op, job, planned, history, crashes>>
    BY <1>3 DEF DueComes, TypeInv, TypeOK
  <2>2. JobInv'
    BY <2>1 DEF TypeInv, JobInv
  <2>. QED BY <2>1, <2>2, SameHistory, NotOp DEF history
<1>. QED BY <1>1, <1>2, <1>3 DEF Clock

\* What a step can be.
LEMMA Steps ==
  ASSUME Next
  PROVE  \/ \E k \in Kinds, u \in Users : HitBegin(k, u)
         \/ Missed \/ (\E d \in Damage : Strike(d)) \/ Settle \/ HitReadRow \/ HitCommit
         \/ CaravanExpire \/ BossExpire
         \/ \E k \in Kinds : JobReadRow(k) \/ JobCommit(k) \/ Plan(k) \/ PlanCommit(k) \/ Late(k)
         \/ \E k \in Kinds : \E id : Begins(k, id)
         \/ Clock
         \/ Crash
BY TwoKinds DEF Next, HandlerStep, JobStep, Begins, Clock

LEMMA TypeStep == TypeInv /\ [Next]_vars => TypeInv'
<1>. SUFFICES ASSUME TypeInv, [Next]_vars PROVE TypeInv'
  OBVIOUS
<1>1. CASE HitReadRow
  <2>1. op' \in Ops /\ OpInv'
    BY <1>1, HitReadIs
  <2>. QED BY <1>1, <2>1, SameHistory, OpOnly DEF HitReadRow, history
<1>2. CASE \E k \in Kinds : JobReadRow(k)
  <2>1. job' \in [Kinds -> Jobs] /\ JobInv'
    BY <1>2, JobReadIs
  <2>. QED BY <1>2, <2>1, SameHistory, NotOp DEF JobReadRow, history
<1>3. CASE \E k \in Kinds : Late(k)
  <2>1. board' \in [Kinds -> Board \cup {NULL}]
    BY <1>3, SameHistory, LateIs
  <2>2. UNCHANGED <<rows, cooling, due, op, job, planned, history, crashes>>
    BY <1>3 DEF Late
  <2>3. JobInv'
    BY <2>2 DEF TypeInv, JobInv
  <2>. QED BY <2>1, <2>2, <2>3, SameHistory, NotOp DEF history
<1>4. CASE Crash
  <2>1. op' = Idle /\ \A k \in Kinds : job'[k] = Off
    BY <1>4, CrashIs
  <2>2. OpInv' /\ JobInv'
    BY <2>1, NoneIsIdle, TwoKinds DEF OpInv, JobInv, Billed
  <2>3. cooling' \subseteq Kinds \X Users /\ crashes' \in Nat /\ UNCHANGED <<rows, due, planned, overlap>>
    BY <1>4 DEF Crash, TypeInv, TypeOK
  <2>. QED BY <1>4, <2>1, <2>2, <2>3, CrashIs, NoneIsIdle DEF TypeInv, TypeOK, rows
<1>5. CASE UNCHANGED vars
  BY <1>5 DEF vars, rows, history, TypeInv, TypeOK, OpInv, JobInv
<1>. QED
  BY <1>1, <1>2, <1>3, <1>4, <1>5, Steps, HitBeginTyped, MissedTyped, StrikeTyped, SettleTyped, HitCommitTyped,
     ExpireTyped, JobCommitTyped, PlanTyped, BeginsTyped, ClockTyped

\* The variables have the types the program gives them, in every state the
\* fights of a group can come to; no gun is fired empty.
THEOREM TypeCorrect == Spec => []TypeOK
<1>1. TypeInv => TypeOK
  BY DEF TypeInv
<1>. QED BY TypeInit, TypeStep, <1>1, PTL DEF Spec

-----------------------------------------------------------------------------
(* Every fight that was planned is in one place: a job that will begin it, *)
(* a board, or history.                                                    *)

BoardHas(k, f) == board[k] # NULL /\ board[k].id = f
JobHas(k, f)   == job[k].pc \in {"planning", "spawning"} /\ job[k].id = f
GoneHas(f)     == \E g \in fought : g.id = f

OnePlace(f) ==
  /\ GoneHas(f) \/ (\E k \in Kinds : BoardHas(k, f) \/ JobHas(k, f)) => f <= planned
  /\ \A k, l \in Kinds : BoardHas(k, f) /\ BoardHas(l, f) => k = l
  /\ \A k, l \in Kinds : JobHas(k, f) /\ JobHas(l, f) => k = l
  /\ \A k, l \in Kinds : ~(JobHas(k, f) /\ BoardHas(l, f))
  /\ \A k \in Kinds : BoardHas(k, f) \/ JobHas(k, f) => ~GoneHas(f)
  /\ \A g, h \in fought : g.id = f /\ h.id = f => g = h

Ids == \A f \in Fights : OnePlace(f)

\* What Ended adds to history.
GoneBoard(b, end, pay) == [id |-> b.id, hp |-> b.hp, dmg |-> b.dmg, pay |-> pay, end |-> end]

LEMMA EndedIs ==
  ASSUME NEW b, NEW end, NEW pay
  PROVE  \A g : g \in Ended(b, end, pay) <=> g \in fought \/ (b # NULL /\ g = GoneBoard(b, end, pay))
BY DEF Ended, GoneBoard

\* The board of kind k goes into history and nothing else changes place.
Leaves(k, end, pay) ==
  /\ board'[k] = NULL /\ \A l \in Kinds \ {k} : board'[l] = board[l]
  /\ fought' = Ended(board[k], end, pay)

LEMMA LeavesPlaces ==
  ASSUME NEW k \in Kinds, NEW end, NEW pay, Leaves(k, end, pay), NEW f
  PROVE  /\ GoneHas(f)' <=> GoneHas(f) \/ BoardHas(k, f)
         /\ ~BoardHas(k, f)' /\ \A l \in Kinds \ {k} : BoardHas(l, f)' <=> BoardHas(l, f)
         /\ \A g \in fought' : g.id = f =>
              g \in fought \/ (BoardHas(k, f) /\ g = GoneBoard(board[k], end, pay))
<1>1. \A g : g \in fought' <=> g \in fought \/ (board[k] # NULL /\ g = GoneBoard(board[k], end, pay))
  BY EndedIs DEF Leaves
<1>2. GoneBoard(board[k], end, pay).id = board[k].id
  BY DEF GoneBoard
<1>3. GoneHas(f)' <=> GoneHas(f) \/ BoardHas(k, f)
  BY <1>1, <1>2 DEF GoneHas, BoardHas
<1>4. ~BoardHas(k, f)' /\ \A l \in Kinds \ {k} : BoardHas(l, f)' <=> BoardHas(l, f)
  BY DEF BoardHas, Leaves
<1>. QED BY <1>1, <1>2, <1>3, <1>4 DEF BoardHas

LEMMA LeavesIds ==
  ASSUME Ids, NEW k \in Kinds, NEW end, NEW pay, Leaves(k, end, pay), planned' = planned,
         \A l \in Kinds, f \in Fights : JobHas(l, f)' => JobHas(l, f)
  PROVE  Ids'
<1>. SUFFICES ASSUME NEW f \in Fights PROVE OnePlace(f)'
  BY DEF Ids
<1>1. OnePlace(f)
  BY DEF Ids
<1>2. /\ GoneHas(f)' <=> GoneHas(f) \/ BoardHas(k, f)
      /\ ~BoardHas(k, f)' /\ \A l \in Kinds \ {k} : BoardHas(l, f)' <=> BoardHas(l, f)
      /\ \A g \in fought' : g.id = f =>
           g \in fought \/ (BoardHas(k, f) /\ g = GoneBoard(board[k], end, pay))
  BY LeavesPlaces
<1>3. \A l \in Kinds : BoardHas(l, f)' => BoardHas(l, f) /\ l # k
  BY <1>2
<1>4. \A l \in Kinds : JobHas(l, f)' => JobHas(l, f)
  OBVIOUS
<1>5. \A l \in Kinds : BoardHas(l, f)' \/ JobHas(l, f)' => ~GoneHas(f)'
  BY <1>1, <1>2, <1>3, <1>4 DEF OnePlace
<1>6. \A g, h \in fought' : g.id = f /\ h.id = f => g = h
  BY <1>1, <1>2 DEF OnePlace, GoneHas
<1>7. GoneHas(f)' \/ (\E l \in Kinds : BoardHas(l, f)' \/ JobHas(l, f)') => f <= planned'
  BY <1>1, <1>2, <1>3, <1>4 DEF OnePlace
<1>8. /\ \A l, m \in Kinds : BoardHas(l, f)' /\ BoardHas(m, f)' => l = m
      /\ \A l, m \in Kinds : JobHas(l, f)' /\ JobHas(m, f)' => l = m
      /\ \A l, m \in Kinds : ~(JobHas(l, f)' /\ BoardHas(m, f)')
  BY <1>1, <1>3, <1>4 DEF OnePlace
<1>. QED BY <1>5, <1>6, <1>7, <1>8 DEF OnePlace

LEMMA SamePlaces ==
  ASSUME Ids, planned' = planned, fought' = fought,
         \A k \in Kinds, f \in Fights : BoardHas(k, f)' => BoardHas(k, f),
         \A k \in Kinds, f \in Fights : JobHas(k, f)' => JobHas(k, f)
  PROVE  Ids'
<1>. SUFFICES ASSUME NEW f \in Fights PROVE OnePlace(f)'
  BY DEF Ids
<1>1. OnePlace(f) /\ (GoneHas(f)' <=> GoneHas(f))
  BY DEF Ids, GoneHas
<1>. QED BY <1>1 DEF OnePlace

\* The places of a fight that begins, and of the others.
LEMMA BeginsPlaces ==
  ASSUME TypeInv, Ids, NEW k \in Kinds, NEW id, Begins(k, id)
  PROVE  /\ id \in Fights /\ ~GoneHas(id) /\ \A l \in Kinds : ~BoardHas(l, id)
         /\ planned <= planned' /\ id <= planned'
         /\ \A l \in Kinds, f \in Fights : JobHas(l, f)' => JobHas(l, f) /\ f # id
<1>1. TypeOK /\ id \in Fights /\ planned \in Nat /\ job \in [Kinds -> Jobs]
  BY BeginsIs, SameHistory
<1>2. id \in Nat
  BY <1>1 DEF Fights
<1>3. OnePlace(id)
  BY <1>1 DEF Ids
<1>4. CASE Spawn(k) /\ id = job[k].id
  <2>1. JobHas(k, id) /\ job' = [job EXCEPT ![k] = Off] /\ planned' = planned
    BY <1>4 DEF Spawn, JobHas
  <2>2. \A l \in Kinds : job'[l] = IF l = k THEN Off ELSE job[l]
    BY <1>1, <2>1
  <2>3. \A l \in Kinds, f \in Fights : JobHas(l, f)' => JobHas(l, f) /\ l # k
    BY <2>2, NoneIsIdle DEF JobHas
  <2>4. \A l \in Kinds : JobHas(l, id) => l = k
    BY <1>3, <2>1 DEF OnePlace
  <2>5. \A l \in Kinds, f \in Fights : JobHas(l, f)' => JobHas(l, f) /\ f # id
    BY <2>3, <2>4
  <2>. QED BY <1>1, <1>2, <1>3, <2>1, <2>5 DEF OnePlace
<1>5. CASE id = planned + 1 /\ planned' = planned + 1 /\ job' = job
  <2>1. ~(id <= planned)
    BY <1>1, <1>5
  <2>2. \A l \in Kinds, f \in Fights : JobHas(l, f)' => JobHas(l, f)
    BY <1>5 DEF JobHas
  <2>. QED BY <1>1, <1>2, <1>3, <1>5, <2>1, <2>2 DEF OnePlace
<1>. QED BY <1>4, <1>5 DEF Begins, AdminCaravan, AdminBoss

LEMMA BeginsBoards ==
  ASSUME TypeInv, Ids, NEW k \in Kinds, NEW id, Begins(k, id), NEW f \in Fights
  PROVE  /\ GoneHas(f)' <=> GoneHas(f) \/ BoardHas(k, f)
         /\ BoardHas(k, f)' <=> f = id
         /\ \A l \in Kinds \ {k} : board'[l] = board[l] /\ (BoardHas(l, f)' <=> BoardHas(l, f))
         /\ board'[k] # NULL /\ board'[k].hp > 0 /\ board'[k].dmg = Nought
         /\ \A g : g \in fought' <=> g \in fought \/ (board[k] # NULL /\ g = GoneBoard(board[k], "lost", Nought))
<1>1. id \in Fights /\ TypeOK /\ IsFiniteSet(fought)
  BY BeginsIs, SameHistory
<1>2. PICK hp \in Health : Spawned(k, id, hp)
  BY BeginsIs
<1>3. /\ board'[k] # NULL /\ board'[k].id = id /\ board'[k].hp > 0 /\ board'[k].dmg = Nought
      /\ \A l \in Kinds \ {k} : board'[l] = board[l]
      /\ fought' = Ended(board[k], "lost", Nought)
  BY <1>1, <1>2, SpawnedIs
<1>4. \A g : g \in fought' <=> g \in fought \/ (board[k] # NULL /\ g = GoneBoard(board[k], "lost", Nought))
  BY <1>3, EndedIs
<1>5. GoneBoard(board[k], "lost", Nought).id = board[k].id
  BY DEF GoneBoard
<1>. QED BY <1>3, <1>4, <1>5 DEF GoneHas, BoardHas

LEMMA BeginsIds ==
  ASSUME TypeInv, Ids, NEW k \in Kinds, NEW id, Begins(k, id)
  PROVE  Ids'
<1>. SUFFICES ASSUME NEW f \in Fights PROVE OnePlace(f)'
  BY DEF Ids
<1>1. OnePlace(f)
  BY DEF Ids
<1>2. /\ id \in Fights /\ ~GoneHas(id) /\ \A l \in Kinds : ~BoardHas(l, id)
      /\ planned <= planned' /\ id <= planned'
      /\ \A l \in Kinds : JobHas(l, f)' => JobHas(l, f) /\ f # id
  BY BeginsPlaces
<1>3. /\ GoneHas(f)' <=> GoneHas(f) \/ BoardHas(k, f)
      /\ BoardHas(k, f)' <=> f = id
      /\ \A l \in Kinds \ {k} : BoardHas(l, f)' <=> BoardHas(l, f)
      /\ \A g : g \in fought' <=> g \in fought \/ (board[k] # NULL /\ g = GoneBoard(board[k], "lost", Nought))
  BY BeginsBoards
<1>4. \A l \in Kinds : BoardHas(l, f)' => (l = k /\ f = id) \/ (l # k /\ BoardHas(l, f) /\ f # id)
  BY <1>2, <1>3
<1>5. f \in Nat /\ planned \in Nat /\ planned' \in Nat
  <2>1. planned' \in 0 .. MaxFights
    BY BeginsIs
  <2>. QED BY <2>1 DEF Fights, TypeInv, TypeOK
<1>6. GoneHas(f)' \/ (\E l \in Kinds : BoardHas(l, f)' \/ JobHas(l, f)') => f <= planned \/ f = id
  BY <1>1, <1>2, <1>3, <1>4 DEF OnePlace
<1>7. GoneHas(f)' \/ (\E l \in Kinds : BoardHas(l, f)' \/ JobHas(l, f)') => f <= planned'
  BY <1>2, <1>5, <1>6
<1>8. \A l, m \in Kinds : BoardHas(l, f)' /\ BoardHas(m, f)' => l = m
  BY <1>1, <1>4 DEF OnePlace
<1>9. \A l, m \in Kinds : JobHas(l, f)' /\ JobHas(m, f)' => l = m
  BY <1>1, <1>2 DEF OnePlace
<1>10. \A l, m \in Kinds : ~(JobHas(l, f)' /\ BoardHas(m, f)')
  BY <1>1, <1>2, <1>4 DEF OnePlace
<1>11. \A l \in Kinds : BoardHas(l, f)' \/ JobHas(l, f)' => ~GoneHas(f)'
  BY <1>1, <1>2, <1>3, <1>4 DEF OnePlace
<1>12. \A g, h \in fought' : g.id = f /\ h.id = f => g = h
  <2>1. GoneBoard(board[k], "lost", Nought).id = board[k].id
    BY DEF GoneBoard
  <2>. QED BY <1>1, <1>3, <2>1 DEF OnePlace, GoneHas, BoardHas
<1>. QED BY <1>7, <1>8, <1>9, <1>10, <1>11, <1>12 DEF OnePlace

LEMMA PlanIds ==
  ASSUME TypeInv, Ids, NEW k \in Kinds, Plan(k)
  PROVE  Ids'
<1>1. TypeOK /\ planned \in Nat /\ job \in [Kinds -> Jobs]
  BY SameHistory
<1>2. job' = [job EXCEPT ![k] = [pc |-> "planning", id |-> planned + 1]] /\ job[k] = Off
      /\ planned' = planned + 1 /\ board' = board /\ fought' = fought
  BY DEF Plan, history
<1>3. \A l \in Kinds : job'[l] = IF l = k THEN [pc |-> "planning", id |-> planned + 1] ELSE job[l]
  BY <1>1, <1>2
<1>. SUFFICES ASSUME NEW f \in Fights PROVE OnePlace(f)'
  BY DEF Ids
<1>4. OnePlace(f) /\ f \in Nat
  BY DEF Ids, Fights
<1>5. \A l \in Kinds : JobHas(l, f)' => (l = k /\ f = planned + 1) \/ (l # k /\ JobHas(l, f))
  BY <1>3 DEF JobHas
<1>6. (GoneHas(f)' <=> GoneHas(f)) /\ \A l \in Kinds : BoardHas(l, f)' <=> BoardHas(l, f)
  BY <1>2 DEF GoneHas, BoardHas
<1>7. f = planned + 1 => ~GoneHas(f) /\ \A l \in Kinds : ~BoardHas(l, f) /\ ~JobHas(l, f)
  BY <1>1, <1>4 DEF OnePlace
<1>8. f <= planned => f <= planned'
  BY <1>1, <1>2, <1>4
<1>9. GoneHas(f)' \/ (\E l \in Kinds : BoardHas(l, f)' \/ JobHas(l, f)') => f <= planned'
  BY <1>1, <1>2, <1>4, <1>5, <1>6, <1>8 DEF OnePlace
<1>10. /\ \A l, m \in Kinds : BoardHas(l, f)' /\ BoardHas(m, f)' => l = m
       /\ \A l, m \in Kinds : JobHas(l, f)' /\ JobHas(m, f)' => l = m
       /\ \A l, m \in Kinds : ~(JobHas(l, f)' /\ BoardHas(m, f)')
       /\ \A l \in Kinds : BoardHas(l, f)' \/ JobHas(l, f)' => ~GoneHas(f)'
  BY <1>4, <1>5, <1>6, <1>7 DEF OnePlace
<1>11. \A g, h \in fought' : g.id = f /\ h.id = f => g = h
  BY <1>2, <1>4 DEF OnePlace
<1>. QED BY <1>9, <1>10, <1>11 DEF OnePlace

LEMMA CrashIds == TypeInv /\ Ids /\ Crash => Ids'
<1>. SUFFICES ASSUME TypeInv, Ids, Crash, NEW f \in Fights PROVE OnePlace(f)'
  BY DEF Ids
<1>1. OnePlace(f) /\ planned' = planned
  BY DEF Ids, Crash
<1>2. \A k \in Kinds : ~BoardHas(k, f)' /\ ~JobHas(k, f)'
  BY CrashIs, NoneIsIdle DEF BoardHas, JobHas
<1>3. \A g : g \in fought' <=> \/ g \in fought
                               \/ \E k \in Kinds : board[k] # NULL /\ g = GoneBoard(board[k], "lost", Nought)
  <2>1. fought' = Ended(board["caravan"], "lost", Nought) \cup Ended(board["boss"], "lost", Nought)
    BY CrashIs
  <2>2. \A k \in Kinds : \A g : g \in Ended(board[k], "lost", Nought) <=>
          g \in fought \/ (board[k] # NULL /\ g = GoneBoard(board[k], "lost", Nought))
    BY EndedIs
  <2>. QED BY <2>1, <2>2, TwoKinds
<1>4. \A k \in Kinds : GoneBoard(board[k], "lost", Nought).id = board[k].id
  BY DEF GoneBoard
<1>5. GoneHas(f)' => GoneHas(f) \/ \E k \in Kinds : BoardHas(k, f)
  BY <1>3, <1>4 DEF GoneHas, BoardHas
<1>6. \A g, h \in fought' : g.id = f /\ h.id = f => g = h
  BY <1>1, <1>3, <1>4 DEF OnePlace, GoneHas, BoardHas
<1>. QED BY <1>1, <1>2, <1>5, <1>6 DEF OnePlace

\* The boards that leave, and why.
LEMMA SettleLeaves ==
  ASSUME TypeInv, Settle
  PROVE  LET b == board[op.k]
         IN  \/ Leaves(op.k, "lost", Nought)
             \/ /\ b # NULL /\ Hitters(b) # {}
                /\ \E owed \in [Users -> Nat] : Leaves(op.k, "killed", owed)
<1>1. op.k \in Kinds /\ board' = [board EXCEPT ![op.k] = NULL] /\ board \in [Kinds -> Board \cup {NULL}]
  BY SettleIs, SameHistory
<1>2. board'[op.k] = NULL /\ \A l \in Kinds \ {op.k} : board'[l] = board[l]
  BY <1>1
<1>. QED BY <1>2, SettleIs DEF Leaves

LEMMA ExpireLeaves ==
  ASSUME TypeInv
  PROVE  /\ CaravanExpire => board["caravan"] # NULL /\ board["caravan"].hp > 0
                             /\ \E owed \in [Users -> Nat] : Leaves("caravan", "fled", owed)
         /\ BossExpire => board["boss"] # NULL /\ board["boss"].hp > 0 /\ Leaves("boss", "fled", Nought)
<1>1. board \in [Kinds -> Board \cup {NULL}]
  BY SameHistory
<1>2. ASSUME CaravanExpire
      PROVE  board["caravan"] # NULL /\ board["caravan"].hp > 0
             /\ \E owed \in [Users -> Nat] : Leaves("caravan", "fled", owed)
  <2>1. board' = [board EXCEPT !["caravan"] = NULL]
    BY <1>2, LeavesIs
  <2>2. board'["caravan"] = NULL /\ \A l \in Kinds \ {"caravan"} : board'[l] = board[l]
    BY <1>1, <2>1, TwoKinds
  <2>. QED BY <1>2, <2>2, LeavesIs DEF Leaves
<1>3. ASSUME BossExpire
      PROVE  board["boss"] # NULL /\ board["boss"].hp > 0 /\ Leaves("boss", "fled", Nought)
  <2>1. board'["boss"] = NULL /\ \A l \in Kinds \ {"boss"} : board'[l] = board[l]
    BY <1>1, <1>3, TwoKinds DEF BossExpire
  <2>. QED BY <1>3, <2>1 DEF Leaves, BossExpire
<1>. QED BY <1>2, <1>3

LEMMA JobHasKept ==
  ASSUME TypeInv
  PROVE  /\ \A k \in Kinds : JobReadRow(k) \/ JobCommit(k) \/ PlanCommit(k) =>
              \A l \in Kinds, f \in Fights : JobHas(l, f)' => JobHas(l, f)
         /\ CaravanExpire => \A l \in Kinds, f \in Fights : JobHas(l, f)' => JobHas(l, f)
         /\ job' = job => \A l \in Kinds, f \in Fights : JobHas(l, f)' => JobHas(l, f)
<1>1. job \in [Kinds -> Jobs] /\ TypeOK
  BY SameHistory
<1>2. ASSUME NEW k \in Kinds, JobReadRow(k), NEW l \in Kinds, NEW f \in Fights, JobHas(l, f)' PROVE JobHas(l, f)
  <2>1. job'["caravan"].pc = "paying" /\ job'["boss"] = job["boss"]
    BY <1>2, JobReadIs
  <2>. QED BY <1>2, <2>1, TwoKinds DEF JobHas
<1>3. ASSUME NEW k \in Kinds, JobCommit(k), NEW l \in Kinds, NEW f \in Fights, JobHas(l, f)' PROVE JobHas(l, f)
  <2>1. job'[l] = IF l = k THEN Off ELSE job[l]
    BY <1>1, <1>3 DEF JobCommit
  <2>. QED BY <1>3, <2>1, NoneIsIdle DEF JobHas
<1>4. ASSUME NEW k \in Kinds, PlanCommit(k), NEW l \in Kinds, NEW f \in Fights, JobHas(l, f)' PROVE JobHas(l, f)
  <2>1. job[k] \in [pc : {"planning", "spawning"}, id : Fights] /\ job[k].pc = "planning"
    BY <1>1, <1>4 DEF PlanCommit, Jobs, Off, Idle
  <2>2. job' = [job EXCEPT ![k].pc = "spawning"]
    BY <1>4 DEF PlanCommit
  <2>3. job'[l] = IF l = k THEN [job[k] EXCEPT !.pc = "spawning"] ELSE job[l]
    BY <1>1, <2>2
  <2>. QED BY <1>4, <2>1, <2>3 DEF JobHas
<1>5. ASSUME CaravanExpire, NEW l \in Kinds, NEW f \in Fights, JobHas(l, f)' PROVE JobHas(l, f)
  <2>1. job'["caravan"].pc = "paying" /\ job'["boss"] = job["boss"]
    BY <1>5, LeavesIs
  <2>. QED BY <1>5, <2>1, TwoKinds DEF JobHas
<1>6. job' = job => \A l \in Kinds, f \in Fights : JobHas(l, f)' => JobHas(l, f)
  BY DEF JobHas
<1>. QED BY <1>2, <1>3, <1>4, <1>5, <1>6

LEMMA BoardHasKept ==
  ASSUME TypeInv
  PROVE  /\ \A k \in Kinds : Late(k) => \A l \in Kinds, f \in Fights : BoardHas(l, f)' <=> BoardHas(l, f)
         /\ \A d \in Damage : Strike(d) => \A l \in Kinds, f \in Fights : BoardHas(l, f)' <=> BoardHas(l, f)
         /\ board' = board => \A l \in Kinds, f \in Fights : BoardHas(l, f)' <=> BoardHas(l, f)
<1>1. TypeOK
  BY SameHistory
<1>2. ASSUME NEW k \in Kinds, Late(k), NEW l \in Kinds, NEW f \in Fights PROVE BoardHas(l, f)' <=> BoardHas(l, f)
  BY <1>1, <1>2, LateIs DEF BoardHas
<1>3. ASSUME NEW d \in Damage, Strike(d), NEW l \in Kinds, NEW f \in Fights PROVE BoardHas(l, f)' <=> BoardHas(l, f)
  <2>1. board[op.k] # NULL /\ board'[op.k] # NULL /\ board'[op.k].id = board[op.k].id
        /\ \A m \in Kinds \ {op.k} : board'[m] = board[m]
    BY <1>1, <1>3, StrikeBoard
  <2>. QED BY <2>1 DEF BoardHas
<1>4. board' = board => \A l \in Kinds, f \in Fights : BoardHas(l, f)' <=> BoardHas(l, f)
  BY DEF BoardHas
<1>. QED BY <1>2, <1>3, <1>4

\* The steps that leave every fight in its place.
InPlace ==
  \/ \E k \in Kinds, u \in Users : HitBegin(k, u)
  \/ Missed \/ HitReadRow \/ HitCommit
  \/ \E k \in Kinds : JobReadRow(k) \/ JobCommit(k) \/ PlanCommit(k)
  \/ Clock
  \/ UNCHANGED vars

LEMMA InPlaceIs ==
  ASSUME TypeInv, InPlace
  PROVE  board' = board /\ fought' = fought /\ planned' = planned
         /\ \A l \in Kinds, f \in Fights : JobHas(l, f)' => JobHas(l, f)
<1>1. board' = board /\ fought' = fought /\ planned' = planned
  BY DEF InPlace, HitBegin, Missed, HitReadRow, HitCommit, JobReadRow, JobCommit, PlanCommit, Clock, AdminNote,
         CoolDown, DueComes, vars, history
<1>2. job' = job \/ \E k \in Kinds : JobReadRow(k) \/ JobCommit(k) \/ PlanCommit(k)
  BY DEF InPlace, HitBegin, Missed, HitReadRow, HitCommit, Clock, AdminNote, CoolDown, DueComes, vars
<1>. QED BY <1>1, <1>2, JobHasKept

LEMMA IdsInit == Init => Ids
<1>. SUFFICES ASSUME Init, NEW f \in Fights PROVE OnePlace(f)
  BY DEF Ids
<1>1. ~GoneHas(f) /\ \A k \in Kinds : ~BoardHas(k, f) /\ ~JobHas(k, f)
  BY NoneIsIdle DEF Init, GoneHas, BoardHas, JobHas
<1>. QED BY <1>1 DEF OnePlace, Init

LEMMA IdsStep == TypeInv /\ Ids /\ [Next]_vars => Ids'
<1>. SUFFICES ASSUME TypeInv, Ids, [Next]_vars PROVE Ids'
  OBVIOUS
<1>1. CASE InPlace
  BY <1>1, InPlaceIs, BoardHasKept, SamePlaces
<1>2. CASE \E d \in Damage : Strike(d)
  <2>1. planned' = planned /\ fought' = fought /\ job' = job
    BY <1>2 DEF Strike, history
  <2>. QED BY <1>2, <2>1, BoardHasKept, JobHasKept, SamePlaces
<1>3. CASE \E k \in Kinds : Late(k)
  <2>1. planned' = planned /\ fought' = fought /\ job' = job
    BY <1>3 DEF Late, history
  <2>. QED BY <1>3, <2>1, BoardHasKept, JobHasKept, SamePlaces
<1>4. CASE Settle
  <2>1. op.k \in Kinds /\ planned' = planned /\ job' = job
    BY <1>4, SettleIs
  <2>2. \E end, pay : Leaves(op.k, end, pay)
    BY <1>4, SettleLeaves
  <2>. QED BY <2>1, <2>2, JobHasKept, LeavesIds
<1>5. CASE CaravanExpire
  <2>1. planned' = planned /\ \E end, pay : Leaves("caravan", end, pay)
    BY <1>5, ExpireLeaves DEF CaravanExpire, CaravanLeaves
  <2>. QED BY <1>5, <2>1, TwoKinds, JobHasKept, LeavesIds
<1>6. CASE BossExpire
  <2>1. planned' = planned /\ job' = job /\ Leaves("boss", "fled", Nought)
    BY <1>6, ExpireLeaves DEF BossExpire
  <2>. QED BY <2>1, TwoKinds, JobHasKept, LeavesIds
<1>7. CASE \E k \in Kinds : Plan(k)
  BY <1>7, PlanIds
<1>8. CASE \E k \in Kinds : \E id : Begins(k, id)
  BY <1>8, BeginsIds
<1>9. CASE Crash
  BY <1>9, CrashIds
<1>. QED BY <1>1, <1>2, <1>3, <1>4, <1>5, <1>6, <1>7, <1>8, <1>9, Steps DEF InPlace

-----------------------------------------------------------------------------
(* What the killer's handler finds when it settles: the board it has       *)
(* killed, or one that nobody has hit.                                     *)

Dead == op.pc = "struck" /\ board[op.k] # NULL => board[op.k].hp <= 0 \/ Hitters(board[op.k]) = {}

LEMMA DeadInit == Init => Dead
BY NoneIsIdle DEF Init, Dead

LEMMA DeadStep == TypeInv /\ Ids /\ Dead /\ [Next]_vars => Dead'
<1>. SUFFICES ASSUME TypeInv, Ids, Dead, [Next]_vars, op'.pc = "struck", board'[op'.k] # NULL
              PROVE  board'[op'.k].hp <= 0 \/ Hitters(board'[op'.k]) = {}
  BY DEF Dead
<1>1. TypeOK
  BY SameHistory
<1>2. CASE \E d \in Damage : Strike(d)
  <2>1. PICK d \in Damage : Strike(d)
    BY <1>2
  <2>2. op'.k = op.k /\ board[op.k].hp <= d
    BY <2>1, StrikeBill
  <2>3. op.k \in Kinds /\ d \in Nat /\ board[op.k] # NULL /\ board'[op.k].hp = board[op.k].hp - d
    BY <1>1, <2>1, StrikeBoard
  <2>4. board[op.k].hp \in Int
    BY <1>1, <2>3, BoardShape
  <2>. QED BY <2>2, <2>3, <2>4
<1>3. CASE op' = op /\ board' = board
  BY <1>3 DEF Dead
<1>4. CASE \E k \in Kinds : \E id : Begins(k, id)
  <2>1. PICK k \in Kinds : \E id : Begins(k, id)
    BY <1>4
  <2>2. PICK id : Begins(k, id)
    BY <2>1
  <2>3. op' = op
    BY <2>2, BeginsIs
  <2>4. op.k \in Kinds /\ id \in Fights
    BY <1>1, <2>2, <2>3, OpShape, BeginsIs
  <2>5. board'[k].dmg = Nought /\ \A l \in Kinds \ {k} : board'[l] = board[l]
    BY <2>2, <2>4, BeginsBoards
  <2>6. CASE op.k = k
    <3>1. Hitters(board'[k]) = {}
      BY <2>5, NoughtTyped DEF Hitters
    <3>. QED BY <2>3, <2>6, <3>1
  <2>7. CASE op.k # k
    <3>1. board'[op.k] = board[op.k]
      BY <2>4, <2>5, <2>7
    <3>. QED BY <2>3, <3>1 DEF Dead
  <2>. QED BY <2>6, <2>7
<1>5. CASE \E k \in Kinds : Late(k)
  <2>1. op' = op
    BY <1>5 DEF Late
  <2>2. op.k \in Kinds
    BY <1>1, <2>1, OpShape
  <2>3. board[op.k] # NULL /\ board'[op.k].hp = board[op.k].hp /\ board'[op.k].dmg = board[op.k].dmg
    BY <1>1, <1>5, <2>1, <2>2, LateIs
  <2>4. Hitters(board'[op.k]) = Hitters(board[op.k])
    BY <2>3 DEF Hitters
  <2>. QED BY <2>1, <2>3, <2>4 DEF Dead
<1>6. CASE CaravanExpire \/ BossExpire
  <2>1. op' = op /\ \E k \in Kinds : board'[k] = NULL /\ \A l \in Kinds \ {k} : board'[l] = board[l]
    BY <1>6, ExpireLeaves, TwoKinds DEF Leaves, CaravanExpire, CaravanLeaves, BossExpire
  <2>2. op.k \in Kinds
    BY <1>1, <2>1, OpShape
  <2>3. board'[op.k] = board[op.k]
    BY <2>1, <2>2
  <2>. QED BY <2>1, <2>3 DEF Dead
<1>7. CASE Settle \/ HitReadRow \/ Crash
  BY <1>7, SettleIs, HitReadIs, CrashIs, NoneIsIdle
<1>8. CASE Missed \/ HitCommit \/ AdminNote \/ \E k \in Kinds, u \in Users : HitBegin(k, u)
  BY <1>8, NoneIsIdle DEF Missed, Closing, HitCommit, AdminNote, HitBegin
<1>9. CASE \E k \in Kinds : JobReadRow(k) \/ JobCommit(k) \/ Plan(k) \/ PlanCommit(k)
  BY <1>3, <1>9 DEF JobReadRow, JobCommit, Plan, PlanCommit
<1>10. CASE Clock /\ ~AdminNote
  BY <1>3, <1>10 DEF Clock, CoolDown, DueComes
<1>11. CASE UNCHANGED vars
  BY <1>3, <1>11 DEF vars
<1>. QED BY <1>2, <1>4, <1>5, <1>6, <1>7, <1>8, <1>9, <1>10, <1>11, Steps

-----------------------------------------------------------------------------
(* Every fight is what Fight promises.                                     *)

\* Where a fight stands, read off its place.
Stands(f) ==
  /\ \A g \in fought : g.id = f => PhaseOf(f) = g.end /\ HealthOf(f) = g.hp
  /\ \A k \in Kinds : BoardHas(k, f) => PhaseOf(f) = "open" /\ HealthOf(f) = board[k].hp
  /\ ~GoneHas(f) /\ (\A k \in Kinds : ~BoardHas(k, f)) => PhaseOf(f) = "absent" /\ HealthOf(f) = 0

LEMMA StandsNow ==
  ASSUME Ids, NEW f \in Fights
  PROVE  Stands(f)
<1>1. OnePlace(f)
  BY DEF Ids
<1>2. ASSUME NEW g \in fought, g.id = f PROVE PhaseOf(f) = g.end /\ HealthOf(f) = g.hp
  <2>1. Left(f) # {} /\ (CHOOSE h \in Left(f) : TRUE) = g
    BY <1>1, <1>2 DEF OnePlace, Left
  <2>. QED BY <2>1 DEF PhaseOf, HealthOf
<1>3. ASSUME NEW k \in Kinds, BoardHas(k, f) PROVE PhaseOf(f) = "open" /\ HealthOf(f) = board[k].hp
  <2>1. Left(f) = {}
    BY <1>1, <1>3 DEF OnePlace, Left, GoneHas
  <2>2. OnBoard(f) # {} /\ (CHOOSE l \in OnBoard(f) : TRUE) = k
    BY <1>1, <1>3 DEF OnePlace, OnBoard, BoardHas
  <2>. QED BY <2>1, <2>2 DEF PhaseOf, HealthOf
<1>4. ASSUME ~GoneHas(f), \A k \in Kinds : ~BoardHas(k, f) PROVE PhaseOf(f) = "absent" /\ HealthOf(f) = 0
  <2>1. Left(f) = {} /\ OnBoard(f) = {}
    BY <1>4 DEF GoneHas, BoardHas, Left, OnBoard
  <2>. QED BY <2>1 DEF PhaseOf, HealthOf
<1>. QED BY <1>2, <1>3, <1>4 DEF Stands

LEMMA StandsNext ==
  ASSUME Ids', NEW f \in Fights
  PROVE  Stands(f)'
<1>1. OnePlace(f)'
  BY DEF Ids
<1>2. ASSUME NEW g \in fought', g.id = f PROVE PhaseOf(f)' = g.end /\ HealthOf(f)' = g.hp
  <2>1. Left(f)' # {} /\ (CHOOSE h \in Left(f)' : TRUE) = g
    BY <1>1, <1>2 DEF OnePlace, Left
  <2>. QED BY <2>1 DEF PhaseOf, HealthOf
<1>3. ASSUME NEW k \in Kinds, BoardHas(k, f)' PROVE PhaseOf(f)' = "open" /\ HealthOf(f)' = board'[k].hp
  <2>1. Left(f)' = {}
    BY <1>1, <1>3 DEF OnePlace, Left, GoneHas
  <2>2. OnBoard(f)' # {} /\ (CHOOSE l \in OnBoard(f)' : TRUE) = k
    BY <1>1, <1>3 DEF OnePlace, OnBoard, BoardHas
  <2>. QED BY <2>1, <2>2 DEF PhaseOf, HealthOf
<1>4. ASSUME ~GoneHas(f)', \A k \in Kinds : ~BoardHas(k, f)' PROVE PhaseOf(f)' = "absent" /\ HealthOf(f)' = 0
  <2>1. Left(f)' = {} /\ OnBoard(f)' = {}
    BY <1>4 DEF GoneHas, BoardHas, Left, OnBoard
  <2>. QED BY <2>1 DEF PhaseOf, HealthOf
<1>. QED BY <1>2, <1>3, <1>4 DEF Stands

\* What Fight lets happen to a fight in one step.
Promised(f) ==
  \/ PhaseOf(f)' = PhaseOf(f) /\ HealthOf(f)' = HealthOf(f)
  \/ PhaseOf(f) = "absent" /\ PhaseOf(f)' = "open" /\ HealthOf(f)' > 0
  \/ PhaseOf(f) = "open" /\ PhaseOf(f)' = "open" /\ HealthOf(f) > 0 /\ HealthOf(f)' < HealthOf(f)
  \/ /\ PhaseOf(f) = "open" /\ HealthOf(f)' = HealthOf(f)
     /\ \/ PhaseOf(f)' = "killed" /\ HealthOf(f) <= 0
        \/ PhaseOf(f)' = "fled" /\ HealthOf(f) > 0
        \/ PhaseOf(f)' = "lost"

\* Nothing is taken from history, and no board changes.
LEMMA Unmoved ==
  ASSUME Ids, Ids', NEW f \in Fights,
         GoneHas(f)' <=> GoneHas(f), \A g \in fought : g \in fought',
         \A k \in Kinds : BoardHas(k, f)' <=> BoardHas(k, f),
         \A k \in Kinds : BoardHas(k, f) => board'[k].hp = board[k].hp
  PROVE  Promised(f)
<1>1. Stands(f) /\ Stands(f)'
  BY StandsNow, StandsNext
<1>2. CASE GoneHas(f)
  <2>1. PICK g \in fought : g.id = f
    BY <1>2 DEF GoneHas
  <2>. QED BY <1>1, <2>1 DEF Stands, Promised
<1>3. CASE \E k \in Kinds : BoardHas(k, f)
  <2>1. PICK k \in Kinds : BoardHas(k, f)
    BY <1>3
  <2>2. PhaseOf(f) = "open" /\ HealthOf(f) = board[k].hp
    BY <1>1, <2>1 DEF Stands
  <2>3. PhaseOf(f)' = "open" /\ HealthOf(f)' = board'[k].hp
    BY <1>1, <2>1 DEF Stands
  <2>. QED BY <2>1, <2>2, <2>3 DEF Promised
<1>4. CASE ~GoneHas(f) /\ \A k \in Kinds : ~BoardHas(k, f)
  BY <1>1, <1>4 DEF Stands, Promised
<1>. QED BY <1>2, <1>3, <1>4

\* A board that goes into history ends its fight.
LEMMA EndPromised ==
  ASSUME TypeInv, Ids, Ids', NEW k \in Kinds, NEW f \in Fights, BoardHas(k, f), NEW end, NEW pay,
         GoneBoard(board[k], end, pay) \in fought',
         \/ end = "killed" /\ board[k].hp <= 0
         \/ end = "fled" /\ board[k].hp > 0
         \/ end = "lost"
  PROVE  Promised(f)
<1>1. Stands(f) /\ Stands(f)'
  BY StandsNow, StandsNext
<1>2. PhaseOf(f) = "open" /\ HealthOf(f) = board[k].hp
  BY <1>1 DEF Stands
<1>. DEFINE g == GoneBoard(board[k], end, pay)
<1>3. g.id = f /\ g.end = end /\ g.hp = board[k].hp
  BY DEF GoneBoard, BoardHas
<1>. HIDE DEF g
<1>4. g \in fought'
  BY DEF g
<1>5. PhaseOf(f)' = end /\ HealthOf(f)' = board[k].hp
  BY <1>1, <1>3, <1>4 DEF Stands
<1>. QED BY <1>2, <1>5 DEF Promised

LEMMA LeavesPromised ==
  ASSUME TypeInv, Ids, Ids', NEW k \in Kinds, NEW end, NEW pay, Leaves(k, end, pay),
         board[k] # NULL => \/ end = "killed" /\ board[k].hp <= 0
                            \/ end = "fled" /\ board[k].hp > 0
                            \/ end = "lost"
  PROVE  \A f \in Fights : Promised(f)
<1>. SUFFICES ASSUME NEW f \in Fights PROVE Promised(f)
  OBVIOUS
<1>1. \A g : g \in fought' <=> g \in fought \/ (board[k] # NULL /\ g = GoneBoard(board[k], end, pay))
  BY EndedIs DEF Leaves
<1>2. CASE BoardHas(k, f)
  <2>1. GoneBoard(board[k], end, pay) \in fought' /\ board[k] # NULL
    BY <1>1, <1>2 DEF BoardHas
  <2>. QED BY <1>2, <2>1, EndPromised
<1>3. CASE ~BoardHas(k, f)
  <2>1. /\ GoneHas(f)' <=> GoneHas(f)
        /\ \A l \in Kinds : BoardHas(l, f)' <=> BoardHas(l, f)
    BY <1>3, LeavesPlaces
  <2>2. \A l \in Kinds : BoardHas(l, f) => board'[l] = board[l]
    BY <1>3 DEF Leaves
  <2>3. \A g \in fought : g \in fought'
    BY <1>1
  <2>. QED BY <2>1, <2>2, <2>3, Unmoved
<1>. QED BY <1>2, <1>3

LEMMA BeginsPromised ==
  ASSUME TypeInv, Ids, Ids', NEW k \in Kinds, NEW id, Begins(k, id)
  PROVE  \A f \in Fights : Promised(f)
<1>. SUFFICES ASSUME NEW f \in Fights PROVE Promised(f)
  OBVIOUS
<1>1. /\ id \in Fights /\ ~GoneHas(id) /\ \A l \in Kinds : ~BoardHas(l, id)
  BY BeginsPlaces
<1>2. /\ GoneHas(f)' <=> GoneHas(f) \/ BoardHas(k, f)
      /\ BoardHas(k, f)' <=> f = id
      /\ \A l \in Kinds \ {k} : board'[l] = board[l] /\ (BoardHas(l, f)' <=> BoardHas(l, f))
      /\ board'[k].hp > 0
      /\ \A g : g \in fought' <=> g \in fought \/ (board[k] # NULL /\ g = GoneBoard(board[k], "lost", Nought))
  BY BeginsBoards
<1>3. Stands(f) /\ Stands(f)'
  BY StandsNow, StandsNext
<1>4. CASE f = id
  <2>1. PhaseOf(f) = "absent"
    BY <1>1, <1>3, <1>4 DEF Stands
  <2>2. PhaseOf(f)' = "open" /\ HealthOf(f)' = board'[k].hp
    BY <1>2, <1>3, <1>4 DEF Stands
  <2>. QED BY <1>2, <2>1, <2>2 DEF Promised
<1>5. CASE BoardHas(k, f)
  <2>1. GoneBoard(board[k], "lost", Nought) \in fought'
    BY <1>2, <1>5 DEF BoardHas
  <2>. QED BY <1>5, <2>1, EndPromised
<1>6. CASE f # id /\ ~BoardHas(k, f)
  <2>1. (GoneHas(f)' <=> GoneHas(f)) /\ \A l \in Kinds : BoardHas(l, f)' <=> BoardHas(l, f)
    BY <1>2, <1>6
  <2>2. \A l \in Kinds : BoardHas(l, f) => board'[l].hp = board[l].hp
    BY <1>2, <1>6
  <2>3. \A g \in fought : g \in fought'
    BY <1>2
  <2>. QED BY <2>1, <2>2, <2>3, Unmoved
<1>. QED BY <1>4, <1>5, <1>6

LEMMA StrikePromised ==
  ASSUME TypeInv, Ids, Ids', NEW d \in Damage, Strike(d)
  PROVE  \A f \in Fights : Promised(f)
<1>. SUFFICES ASSUME NEW f \in Fights PROVE Promised(f)
  OBVIOUS
<1>1. TypeOK /\ fought' = fought
  BY SameHistory DEF Strike, history
<1>2. op.k \in Kinds /\ d \in Nat \ {0} /\ board[op.k] # NULL /\ board'[op.k].hp = board[op.k].hp - d
      /\ \A l \in Kinds \ {op.k} : board'[l] = board[l]
  BY <1>1, StrikeBoard
<1>3. \A l \in Kinds : BoardHas(l, f)' <=> BoardHas(l, f)
  BY BoardHasKept
<1>4. CASE BoardHas(op.k, f)
  <2>1. Stands(f) /\ Stands(f)'
    BY StandsNow, StandsNext
  <2>2. PhaseOf(f) = "open" /\ HealthOf(f) = board[op.k].hp
    BY <1>2, <1>4, <2>1 DEF Stands
  <2>3. PhaseOf(f)' = "open" /\ HealthOf(f)' = board[op.k].hp - d
    <3>1. \A l \in Kinds : BoardHas(l, f)' => PhaseOf(f)' = "open" /\ HealthOf(f)' = board'[l].hp
      BY <2>1 DEF Stands
    <3>2. \A l \in Kinds : l = op.k => board'[l].hp = board[op.k].hp - d
      BY <1>2
    <3>3. \E l \in Kinds : l = op.k /\ BoardHas(l, f)'
      BY <1>2, <1>3, <1>4
    <3>. QED BY <3>1, <3>2, <3>3
  <2>4. board[op.k].hp \in Int /\ board[op.k].hp > 0
    BY <1>1, <1>2, ActiveBoard DEF Strike
  <2>. QED BY <1>2, <2>2, <2>3, <2>4 DEF Promised
<1>5. CASE ~BoardHas(op.k, f)
  <2>1. GoneHas(f)' <=> GoneHas(f)
    BY <1>1 DEF GoneHas
  <2>2. \A l \in Kinds : BoardHas(l, f) => board'[l].hp = board[l].hp
    BY <1>2, <1>5
  <2>. QED BY <1>1, <1>3, <2>1, <2>2, Unmoved
<1>. QED BY <1>4, <1>5

LEMMA CrashPromised ==
  ASSUME TypeInv, Ids, Ids', Crash
  PROVE  \A f \in Fights : Promised(f)
<1>. SUFFICES ASSUME NEW f \in Fights PROVE Promised(f)
  OBVIOUS
<1>1. \A g : g \in fought' <=> \/ g \in fought
                               \/ \E k \in Kinds : board[k] # NULL /\ g = GoneBoard(board[k], "lost", Nought)
  <2>1. fought' = Ended(board["caravan"], "lost", Nought) \cup Ended(board["boss"], "lost", Nought)
    BY CrashIs
  <2>2. \A k \in Kinds : \A g : g \in Ended(board[k], "lost", Nought) <=>
          g \in fought \/ (board[k] # NULL /\ g = GoneBoard(board[k], "lost", Nought))
    BY EndedIs
  <2>. QED BY <2>1, <2>2, TwoKinds
<1>2. CASE \E k \in Kinds : BoardHas(k, f)
  <2>1. PICK k \in Kinds : BoardHas(k, f)
    BY <1>2
  <2>2. GoneBoard(board[k], "lost", Nought) \in fought'
    BY <1>1, <2>1 DEF BoardHas
  <2>. QED BY <2>1, <2>2, EndPromised
<1>3. CASE \A k \in Kinds : ~BoardHas(k, f)
  <2>1. \A k \in Kinds : GoneBoard(board[k], "lost", Nought).id = board[k].id
    BY DEF GoneBoard
  <2>2. GoneHas(f)' <=> GoneHas(f)
    BY <1>1, <1>3, <2>1 DEF GoneHas, BoardHas
  <2>3. \A k \in Kinds : ~BoardHas(k, f)'
    BY CrashIs DEF BoardHas
  <2>. QED BY <1>1, <1>3, <2>2, <2>3, Unmoved
<1>. QED BY <1>2, <1>3

LEMMA StepPromised ==
  ASSUME TypeInv, Ids, Ids', Dead, [Next]_vars
  PROVE  \A f \in Fights : Promised(f)
<1>1. TypeOK
  BY SameHistory
<1>2. CASE InPlace \/ \E k \in Kinds : Plan(k)
  <2>1. board' = board /\ fought' = fought
    BY <1>2, InPlaceIs DEF Plan, history
  <2>. QED BY <2>1, Unmoved DEF BoardHas, GoneHas
<1>3. CASE \E k \in Kinds : Late(k)
  <2>1. fought' = fought
    BY <1>3 DEF Late, history
  <2>2. \A l \in Kinds, f \in Fights : BoardHas(l, f)' <=> BoardHas(l, f)
    BY <1>3, BoardHasKept
  <2>3. \A l \in Kinds : board[l] # NULL => board'[l].hp = board[l].hp
    BY <1>1, <1>3, LateIs
  <2>. QED BY <2>1, <2>2, <2>3, Unmoved DEF BoardHas, GoneHas
<1>4. CASE \E d \in Damage : Strike(d)
  BY <1>4, StrikePromised
<1>5. CASE Settle
  <2>1. op.k \in Kinds /\ op.pc = "struck"
    BY <1>5, SettleIs
  <2>2. CASE Leaves(op.k, "lost", Nought)
    BY <2>1, <2>2, LeavesPromised
  <2>3. CASE board[op.k] # NULL /\ Hitters(board[op.k]) # {} /\ \E owed \in [Users -> Nat] : Leaves(op.k, "killed", owed)
    <3>1. board[op.k].hp <= 0
      BY <2>1, <2>3 DEF Dead
    <3>. QED BY <2>1, <2>3, <3>1, LeavesPromised
  <2>. QED BY <1>5, <2>2, <2>3, SettleLeaves
<1>6. CASE CaravanExpire \/ BossExpire
  BY <1>6, ExpireLeaves, LeavesPromised, TwoKinds
<1>7. CASE \E k \in Kinds : \E id : Begins(k, id)
  BY <1>7, BeginsPromised
<1>8. CASE Crash
  BY <1>8, CrashPromised
<1>. QED BY <1>2, <1>3, <1>4, <1>5, <1>6, <1>7, <1>8, Steps DEF InPlace

Places == TypeInv /\ Ids /\ Dead

LEMMA PlacesHold == Spec => []Places
<1>1. Init => Places
  BY TypeInit, IdsInit, DeadInit DEF Places
<1>2. Places /\ [Next]_vars => Places'
  BY TypeStep, IdsStep, DeadStep DEF Places
<1>. QED BY <1>1, <1>2, PTL DEF Spec

\* Caravan and boss, whoever hits, kills, restarts or expires them, keep what
\* Fight promises: a fight opens once, loses health while it is open, and ends
\* once, killed by its killer's handler or fled by its job, never both.
THEOREM FightsAreFights == Spec => ImplementsFight
<1>1. Init => EachFight!Init
  <2>. SUFFICES ASSUME Init PROVE EachFight!Init
    OBVIOUS
  <2>1. ASSUME NEW f \in Fights PROVE PhaseOf(f) = "absent" /\ HealthOf(f) = 0
    <3>1. Left(f) = {} /\ OnBoard(f) = {}
      BY DEF Init, Left, OnBoard
    <3>. QED BY <3>1 DEF PhaseOf, HealthOf
  <2>. QED BY <2>1 DEF EachFight!Init
<1>2. Places /\ Places' /\ [Next]_vars => [EachFight!Next]_EachFight!vars
  <2>. SUFFICES ASSUME Places, Places', [Next]_vars PROVE EachFight!Next
    OBVIOUS
  <2>1. \A f \in Fights : Promised(f)
    BY StepPromised DEF Places
  <2>2. ASSUME NEW f \in Fights
        PROVE  EachFight!Stays(f) \/ EachFight!Opens(f) \/ EachFight!IsHit(f) \/ EachFight!Ends(f)
    BY <2>1 DEF Promised, EachFight!Stays, EachFight!Opens, EachFight!IsHit, EachFight!Ends
  <2>. QED BY <2>2 DEF EachFight!Next
<1>. QED BY <1>1, <1>2, PlacesHold, PTL DEF Spec, ImplementsFight, EachFight!Spec

-----------------------------------------------------------------------------
(* What the boards say a player has earned.                                *)

Earned(u) == PerDamage * Dealt(u) + Owed(u)

LEMMA SumsOfGone ==
  ASSUME NEW S, S \subseteq Gone, IsFiniteSet(S), NEW u \in Users
  PROVE  DealtIn(S, u) \in Nat /\ OwedIn(S, u) \in Nat
<1>1. \A f \in S : f.dmg[u] \in Nat /\ f.pay[u] \in Nat
  BY DEF Gone
<1>. DEFINE dmg == [f \in S |-> f.dmg[u]]
            pay == [f \in S |-> f.pay[u]]
<1>2. \A f \in S : dmg[f] \in Nat
  BY <1>1
<1>3. \A f \in S : pay[f] \in Nat
  BY <1>1
<1>4. SumFunctionOnSet(dmg, S) \in Nat
  <2>. HIDE DEF dmg
  <2>. QED BY <1>2, SumIsNat
<1>5. SumFunctionOnSet(pay, S) \in Nat
  <2>. HIDE DEF pay
  <2>. QED BY <1>3, SumIsNat
<1>. QED BY <1>4, <1>5 DEF DealtIn, OwedIn

LEMMA OneMoreGone ==
  ASSUME NEW S, S \subseteq Gone, IsFiniteSet(S), NEW g \in Gone, g \notin S, NEW u \in Users
  PROVE  /\ DealtIn(S \cup {g}, u) = DealtIn(S, u) + g.dmg[u]
         /\ OwedIn(S \cup {g}, u) = OwedIn(S, u) + g.pay[u]
<1>1. \A f \in S \cup {g} : f.dmg[u] \in Nat /\ f.pay[u] \in Nat
  BY DEF Gone
<1>2. DealtIn(S, u) \in Nat /\ OwedIn(S, u) \in Nat
  BY SumsOfGone
<1>3. DealtIn(S \cup {g}, u) = g.dmg[u] + DealtIn(S, u)
  <2>. DEFINE old == [f \in S |-> f.dmg[u]]
              new == [f \in S \cup {g} |-> f.dmg[u]]
  <2>1. new[g] \in Int /\ new[g] = g.dmg[u]
    BY <1>1
  <2>2. \A f \in S : new[f] \in Int /\ new[f] = old[f]
    BY <1>1
  <2>. HIDE DEF old, new
  <2>3. SumFunctionOnSet(new, S \cup {g}) = new[g] + SumFunctionOnSet(old, S)
    BY <2>1, <2>2, SumMore
  <2>. QED BY <2>1, <2>3 DEF DealtIn, old, new
<1>4. OwedIn(S \cup {g}, u) = g.pay[u] + OwedIn(S, u)
  <2>. DEFINE old == [f \in S |-> f.pay[u]]
              new == [f \in S \cup {g} |-> f.pay[u]]
  <2>1. new[g] \in Int /\ new[g] = g.pay[u]
    BY <1>1
  <2>2. \A f \in S : new[f] \in Int /\ new[f] = old[f]
    BY <1>1
  <2>. HIDE DEF old, new
  <2>3. SumFunctionOnSet(new, S \cup {g}) = new[g] + SumFunctionOnSet(old, S)
    BY <2>1, <2>2, SumMore
  <2>. QED BY <2>1, <2>3 DEF OwedIn, old, new
<1>. QED BY <1>1, <1>2, <1>3, <1>4

LEMMA EarnedTyped ==
  ASSUME TypeInv, NEW u \in Users
  PROVE  /\ Earned(u) \in Nat /\ Dealt(u) \in Nat /\ Owed(u) \in Nat
         /\ DealtIn(fought, u) \in Nat /\ \A k \in Kinds : DealtTo(k, u) \in Nat
<1>1. TypeOK /\ fought \subseteq Gone /\ IsFiniteSet(fought)
  BY SameHistory
<1>2. DealtIn(fought, u) \in Nat /\ OwedIn(fought, u) \in Nat
  BY <1>1, SumsOfGone
<1>3. \A k \in Kinds : DealtTo(k, u) \in Nat
  BY <1>1, BoardShape DEF DealtTo
<1>4. Dealt(u) \in Nat
  BY <1>2, <1>3, TwoKinds DEF Dealt
<1>5. PerDamage * Dealt(u) \in Nat
  BY <1>4, RaidAssumption
<1>. QED BY <1>2, <1>3, <1>4, <1>5 DEF Earned, Owed

LEMMA EarnedSame ==
  ASSUME fought' = fought, NEW u \in Users, \A k \in Kinds : DealtTo(k, u)' = DealtTo(k, u)
  PROVE  Earned(u)' = Earned(u)
BY TwoKinds DEF Earned, Dealt, Owed

\* A board that leaves takes its damage with it and adds what it owes.
LEMMA GoneBoardIs ==
  ASSUME TypeInv, Ids, NEW k \in Kinds, board[k] # NULL,
         NEW end \in {"killed", "fled", "lost"}, NEW pay \in [Users -> Nat]
  PROVE  LET g == GoneBoard(board[k], end, pay)
         IN  g \in Gone /\ g \notin fought /\ g.id = board[k].id /\ g.dmg = board[k].dmg /\ g.pay = pay
<1>. DEFINE g == GoneBoard(board[k], end, pay)
<1>1. board[k] \in Board /\ board[k].id \in Fights
  BY SameHistory, BoardShape
<1>2. g \in Gone /\ g.id = board[k].id /\ g.dmg = board[k].dmg /\ g.pay = pay
  BY <1>1 DEF GoneBoard, Gone, Board
<1>3. OnePlace(board[k].id) /\ BoardHas(k, board[k].id)
  BY <1>1 DEF Ids, BoardHas
<1>. HIDE DEF g
<1>4. g \notin fought
  BY <1>2, <1>3 DEF OnePlace, GoneHas
<1>. QED BY <1>2, <1>4 DEF g

LEMMA EarnedLeaves ==
  ASSUME TypeInv, Ids, NEW k \in Kinds, NEW end \in {"killed", "fled", "lost"}, NEW pay \in [Users -> Nat],
         fought' = Ended(board[k], end, pay),
         \A v \in Users : DealtTo(k, v)' = 0, \A l \in Kinds \ {k} : board'[l] = board[l]
  PROVE  \A u \in Users : Earned(u)' = Earned(u) + IF board[k] # NULL THEN pay[u] ELSE 0
<1>. SUFFICES ASSUME NEW u \in Users
              PROVE  Earned(u)' = Earned(u) + IF board[k] # NULL THEN pay[u] ELSE 0
  OBVIOUS
<1>1. /\ Earned(u) \in Nat /\ Dealt(u) \in Nat /\ Owed(u) \in Nat
      /\ DealtIn(fought, u) \in Nat /\ \A l \in Kinds : DealtTo(l, u) \in Nat
  BY EarnedTyped
<1>2. \A l \in Kinds \ {k} : DealtTo(l, u)' = DealtTo(l, u)
  BY DEF DealtTo
<1>3. CASE board[k] = NULL
  <2>1. fought' = fought /\ DealtTo(k, u) = 0
    BY <1>3 DEF Ended, DealtTo
  <2>. QED BY <1>1, <1>2, <1>3, <2>1, EarnedSame
<1>4. CASE board[k] # NULL
  <2>. DEFINE g == GoneBoard(board[k], end, pay)
  <2>1. g \in Gone /\ g \notin fought /\ g.dmg = board[k].dmg /\ g.pay = pay
    BY <1>4, GoneBoardIs
  <2>2. fought' = fought \cup {g}
    BY <1>4 DEF Ended, GoneBoard
  <2>. HIDE DEF g
  <2>3. fought \subseteq Gone /\ IsFiniteSet(fought)
    BY SameHistory
  <2>4. DealtIn(fought', u) = DealtIn(fought, u) + DealtTo(k, u) /\ OwedIn(fought', u) = OwedIn(fought, u) + pay[u]
    <3>1. /\ DealtIn(fought \cup {g}, u) = DealtIn(fought, u) + g.dmg[u]
          /\ OwedIn(fought \cup {g}, u) = OwedIn(fought, u) + g.pay[u]
      BY <2>1, <2>3, OneMoreGone
    <3>2. g.dmg[u] = DealtTo(k, u) /\ g.pay[u] = pay[u]
      BY <1>4, <2>1 DEF DealtTo
    <3>. QED BY <2>2, <3>1, <3>2
  <2>5. DealtIn(fought, u)' = DealtIn(fought', u) /\ OwedIn(fought, u)' = OwedIn(fought', u)
    BY DEF DealtIn, OwedIn
  <2>6. Dealt(u)' = Dealt(u)
    BY <1>1, <1>2, <2>4, <2>5, TwoKinds DEF Dealt
  <2>7. Owed(u)' = Owed(u) + pay[u]
    BY <2>4, <2>5 DEF Owed
  <2>8. PerDamage * Dealt(u) \in Nat /\ pay[u] \in Nat
    BY <1>1, RaidAssumption
  <2>. QED BY <1>1, <1>4, <2>6, <2>7, <2>8 DEF Earned
<1>. QED BY <1>3, <1>4

LEMMA LeavesEarns ==
  ASSUME TypeInv, Ids, NEW k \in Kinds, NEW end \in {"killed", "fled", "lost"}, NEW pay \in [Users -> Nat],
         Leaves(k, end, pay)
  PROVE  \A u \in Users : Earned(u)' = Earned(u) + IF board[k] # NULL THEN pay[u] ELSE 0
BY EarnedLeaves DEF Leaves, DealtTo

LEMMA BeginsEarns ==
  ASSUME TypeInv, Ids, NEW k \in Kinds, NEW id, Begins(k, id)
  PROVE  \A u \in Users : Earned(u)' = Earned(u)
<1>1. id \in Fights /\ TypeOK /\ IsFiniteSet(fought)
  BY BeginsIs, SameHistory
<1>2. PICK hp \in Health : Spawned(k, id, hp)
  BY BeginsIs
<1>3. /\ board'[k].dmg = Nought /\ \A l \in Kinds \ {k} : board'[l] = board[l]
      /\ fought' = Ended(board[k], "lost", Nought)
  BY <1>1, <1>2, SpawnedIs
<1>4. \A v \in Users : DealtTo(k, v)' = 0
  BY <1>3, NoughtTyped DEF DealtTo
<1>5. \A u \in Users : Earned(u)' = Earned(u) + IF board[k] # NULL THEN Nought[u] ELSE 0
  BY <1>3, <1>4, NoughtTyped, EarnedLeaves
<1>. QED BY <1>5, NoughtTyped, EarnedTyped

LEMMA StrikeEarns ==
  ASSUME TypeInv, NEW d \in Damage, Strike(d)
  PROVE  \A u \in Users : Earned(u)' = Earned(u) + IF u = op.me THEN d * PerDamage ELSE 0
<1>. SUFFICES ASSUME NEW u \in Users
              PROVE  Earned(u)' = Earned(u) + IF u = op.me THEN d * PerDamage ELSE 0
  OBVIOUS
<1>1. TypeOK /\ fought' = fought
  BY SameHistory DEF Strike, history
<1>2. /\ op.k \in Kinds /\ op.me \in Users /\ d \in Nat
      /\ board[op.k] # NULL /\ board'[op.k] # NULL
      /\ board'[op.k].dmg[op.me] = board[op.k].dmg[op.me] + d
      /\ \A v \in Users \ {op.me} : board'[op.k].dmg[v] = board[op.k].dmg[v]
      /\ \A l \in Kinds \ {op.k} : board'[l] = board[l]
  BY <1>1, StrikeBoard
<1>3. \A l \in Kinds : DealtTo(l, u)' = DealtTo(l, u) + IF l = op.k /\ u = op.me THEN d ELSE 0
  <2>. SUFFICES ASSUME NEW l \in Kinds PROVE DealtTo(l, u)' = DealtTo(l, u) + IF l = op.k /\ u = op.me THEN d ELSE 0
    OBVIOUS
  <2>1. DealtTo(l, u) \in Nat
    BY EarnedTyped
  <2>. QED BY <1>2, <2>1 DEF DealtTo
<1>4. /\ Earned(u) \in Nat /\ Dealt(u) \in Nat /\ Owed(u) \in Nat
      /\ DealtIn(fought, u) \in Nat /\ \A l \in Kinds : DealtTo(l, u) \in Nat
  BY EarnedTyped
<1>5. Owed(u)' = Owed(u) /\ DealtIn(fought, u)' = DealtIn(fought, u)
  BY <1>1 DEF Owed, DealtIn, OwedIn
<1>6. Dealt(u)' = Dealt(u) + IF u = op.me THEN d ELSE 0
  BY <1>2, <1>3, <1>4, <1>5, TwoKinds DEF Dealt
<1>7. CASE u # op.me
  <2>1. Dealt(u)' = Dealt(u)
    BY <1>4, <1>6, <1>7
  <2>. QED BY <1>4, <1>5, <1>7, <2>1 DEF Earned
<1>8. CASE u = op.me
  <2>1. Dealt(u)' = Dealt(u) + d
    BY <1>6, <1>8
  <2>2. PerDamage \in Nat
    BY RaidAssumption
  <2>3. PerDamage * (Dealt(u) + d) = PerDamage * Dealt(u) + d * PerDamage
        /\ PerDamage * Dealt(u) \in Nat /\ d * PerDamage \in Nat
    BY <1>2, <1>4, <2>2
  <2>. QED BY <1>4, <1>5, <1>8, <2>1, <2>3 DEF Earned
<1>. QED BY <1>7, <1>8

LEMMA CrashEarns ==
  ASSUME TypeInv, Ids, Crash
  PROVE  \A u \in Users : Earned(u)' = Earned(u)
<1>. SUFFICES ASSUME NEW u \in Users PROVE Earned(u)' = Earned(u)
  OBVIOUS
<1>. DEFINE b == board["caravan"]
            c == board["boss"]
            g == GoneBoard(b, "lost", Nought)
            h == GoneBoard(c, "lost", Nought)
            S == Ended(b, "lost", Nought)
<1>1. fought' = S \cup Ended(c, "lost", Nought)
  BY CrashIs
<1>2. fought \subseteq Gone /\ IsFiniteSet(fought) /\ Nought[u] = 0
  BY SameHistory, NoughtTyped
<1>3. S \subseteq Gone /\ IsFiniteSet(S)
  BY SameHistory, TwoKinds, NoughtTyped, EndedTyped
<1>4. DealtIn(fought, u) \in Nat /\ OwedIn(fought, u) \in Nat /\ DealtIn(S, u) \in Nat /\ OwedIn(S, u) \in Nat
      /\ DealtTo("caravan", u) \in Nat /\ DealtTo("boss", u) \in Nat
  BY <1>2, <1>3, SumsOfGone, EarnedTyped, TwoKinds
<1>5. DealtIn(S, u) = DealtIn(fought, u) + DealtTo("caravan", u) /\ OwedIn(S, u) = OwedIn(fought, u)
  <2>1. CASE b = NULL
    BY <1>4, <2>1 DEF Ended, DealtTo
  <2>2. CASE b # NULL
    <3>1. g \in Gone /\ g \notin fought /\ g.dmg = b.dmg /\ g.pay = Nought
      BY <2>2, TwoKinds, NoughtTyped, GoneBoardIs
    <3>2. S = fought \cup {g}
      BY <2>2 DEF Ended, GoneBoard
    <3>. HIDE DEF g, S
    <3>3. DealtIn(S, u) = DealtIn(fought, u) + g.dmg[u] /\ OwedIn(S, u) = OwedIn(fought, u) + g.pay[u]
      BY <1>2, <3>1, <3>2, OneMoreGone
    <3>. QED BY <1>2, <1>4, <2>2, <3>1, <3>3 DEF DealtTo
  <2>. QED BY <2>1, <2>2
<1>6. DealtIn(fought', u) = DealtIn(S, u) + DealtTo("boss", u) /\ OwedIn(fought', u) = OwedIn(S, u)
  <2>1. CASE c = NULL
    <3>1. fought' = S
      BY <1>1, <2>1 DEF Ended
    <3>. QED BY <1>4, <2>1, <3>1 DEF DealtTo
  <2>2. CASE c # NULL
    <3>1. h \in Gone /\ h \notin fought /\ h.id = c.id /\ h.dmg = c.dmg /\ h.pay = Nought
      BY <2>2, TwoKinds, NoughtTyped, GoneBoardIs
    <3>2. b # NULL => g.id = b.id /\ b.id # c.id
      <4>1. b # NULL => b.id \in Fights
        BY SameHistory, BoardShape, TwoKinds
      <4>2. b # NULL => ~(b.id = c.id)
        BY <2>2, <4>1, TwoKinds DEF Ids, OnePlace, BoardHas
      <4>. QED BY <4>2 DEF GoneBoard
    <3>3. S \cup Ended(c, "lost", Nought) = S \cup {h}
      <4>1. Ended(c, "lost", Nought) = fought \cup {h}
        BY <2>2 DEF Ended, GoneBoard
      <4>2. fought \subseteq S
        BY DEF Ended
      <4>. QED BY <4>1, <4>2
    <3>4. h \notin S
      <4>1. \A x : x \in S <=> x \in fought \/ (b # NULL /\ x = g)
        BY EndedIs
      <4>. HIDE DEF S, g, h, b, c
      <4>. QED BY <3>1, <3>2, <4>1
    <3>5. fought' = S \cup {h}
      BY <1>1, <3>3
    <3>. HIDE DEF h, S
    <3>6. DealtIn(S \cup {h}, u) = DealtIn(S, u) + h.dmg[u] /\ OwedIn(S \cup {h}, u) = OwedIn(S, u) + h.pay[u]
      BY <1>3, <3>1, <3>4, OneMoreGone
    <3>. QED BY <1>2, <1>4, <2>2, <3>1, <3>5, <3>6 DEF DealtTo
  <2>. QED BY <2>1, <2>2
<1>7. DealtTo("caravan", u)' = 0 /\ DealtTo("boss", u)' = 0
  BY CrashIs, TwoKinds DEF DealtTo
<1>8. DealtIn(fought, u)' = DealtIn(fought', u) /\ OwedIn(fought, u)' = OwedIn(fought', u)
  BY DEF DealtIn, OwedIn
<1>. HIDE DEF S
<1>. QED BY <1>4, <1>5, <1>6, <1>7, <1>8 DEF Earned, Dealt, Owed

-----------------------------------------------------------------------------
(* The books: what has been paid, and what the open sessions will pay.     *)

OpPay(u)   == IF op.pc \in Billed THEN op.bill.pay[u] ELSE 0
JobPay(u)  == IF job["caravan"].pc = "paying" THEN job["caravan"].bill.pay[u] ELSE 0
OpView(u)  == IF op.pc \in Billed THEN op.bill.view[u] ELSE NULL
JobView(u) == IF job["caravan"].pc = "paying" THEN job["caravan"].bill.view[u] ELSE NULL
Pend(u)    == OpPay(u) + JobPay(u)

\* Whatever row a session starts from, it does not pay too much.
Within(u) ==
  /\ cash[u] + Pend(u) <= Earned(u)
  /\ OpView(u) # NULL => OpView(u) + Pend(u) <= Earned(u)
  /\ JobView(u) # NULL => JobView(u) + Pend(u) <= Earned(u)

\* And sessions that do not overlap, without a restart, pay all of it.
Exact(u) ==
  /\ OpView(u) \in {NULL, cash[u]} /\ JobView(u) \in {NULL, cash[u]}
  /\ crashes = 0 => cash[u] + Pend(u) = Earned(u)

Paying == job["caravan"].pc = "paying"

Books == \A u \in Users : Within(u)
Apart == ~overlap => ~(op.pc \in Billed /\ Paying) /\ \A u \in Users : Exact(u)

LEMMA PendTyped ==
  ASSUME TypeInv, NEW u \in Users
  PROVE  /\ cash[u] \in Nat /\ OpPay(u) \in Nat /\ JobPay(u) \in Nat
         /\ OpView(u) \in Nat \cup {NULL} /\ JobView(u) \in Nat \cup {NULL}
         /\ Earned(u) \in Nat /\ NULL \notin Nat /\ crashes \in Nat
<1>1. TypeOK
  BY SameHistory
<1>2. op.pc \in Billed => op.bill.pay[u] \in Nat /\ op.bill.view[u] \in Nat \cup {NULL}
  BY <1>1, OpShape, BillShape
<1>3. Paying => job["caravan"].bill.pay[u] \in Nat /\ job["caravan"].bill.view[u] \in Nat \cup {NULL}
  BY <1>1, JobShape, TwoKinds, BillShape DEF Paying
<1>. QED BY <1>1, <1>2, <1>3, EarnedTyped, RaidAssumption DEF TypeOK, OpPay, JobPay, OpView, JobView, Paying

LEMMA PendTypedNext ==
  ASSUME TypeInv', NEW u \in Users
  PROVE  /\ cash'[u] \in Nat /\ OpPay(u)' \in Nat /\ JobPay(u)' \in Nat
         /\ OpView(u)' \in Nat \cup {NULL} /\ JobView(u)' \in Nat \cup {NULL}
<1>1. TypeOK'
  BY DEF TypeInv
<1>2. op'.pc \in Billed => op'.bill \in Bill
  BY <1>1 DEF TypeOK, Ops, Idle, Billed
<1>3. op'.pc \in Billed => op'.bill.pay[u] \in Nat /\ op'.bill.view[u] \in Nat \cup {NULL}
  BY <1>2, BillShape
<1>4. job'["caravan"] \in Jobs
  BY <1>1, TwoKinds DEF TypeOK
<1>5. job'["caravan"].pc = "paying" => job'["caravan"].bill \in Bill
  BY <1>4 DEF Jobs, Off, Idle
<1>6. job'["caravan"].pc = "paying" =>
        job'["caravan"].bill.pay[u] \in Nat /\ job'["caravan"].bill.view[u] \in Nat \cup {NULL}
  BY <1>5, BillShape
<1>. QED BY <1>1, <1>3, <1>6 DEF TypeOK, OpPay, JobPay, OpView, JobView

\* A step that writes no row: what becomes owed becomes pending.
Accrues(u) ==
  /\ Earned(u)' + Pend(u) = Earned(u) + Pend(u)'
  /\ OpView(u)' \in {NULL, cash[u], OpView(u)} /\ JobView(u)' \in {NULL, cash[u], JobView(u)}

LEMMA AccruesKeeps ==
  ASSUME TypeInv, TypeInv', Books, Apart, cash' = cash, crashes' = crashes,
         \A u \in Users : Accrues(u),
         ~overlap' => ~overlap /\ ~(op.pc \in Billed /\ Paying)'
  PROVE  Books' /\ Apart'
<1>1. ASSUME NEW u \in Users PROVE Within(u)' /\ (~overlap' => Exact(u)')
  <2>1. /\ cash[u] \in Nat /\ OpPay(u) \in Nat /\ JobPay(u) \in Nat
        /\ OpView(u) \in Nat \cup {NULL} /\ JobView(u) \in Nat \cup {NULL}
        /\ Earned(u) \in Nat /\ NULL \notin Nat /\ crashes \in Nat
    BY PendTyped
  <2>2. OpPay(u)' \in Nat /\ JobPay(u)' \in Nat
    BY PendTypedNext
  <2>3. Pend(u) \in Nat /\ Pend(u)' \in Nat
    BY <2>1, <2>2 DEF Pend
  <2>4. Earned(u)' + Pend(u) = Earned(u) + Pend(u)' /\ Earned(u)' \in Nat
    <3>1. Earned(u)' \in Nat
      <4>1. TypeOK' /\ fought' \subseteq Gone /\ IsFiniteSet(fought')
        BY DEF TypeInv, TypeOK
      <4>2. DealtIn(fought', u) \in Nat /\ OwedIn(fought', u) \in Nat
        BY <4>1, SumsOfGone
      <4>3. \A k \in Kinds : DealtTo(k, u)' \in Nat
        BY <4>1 DEF TypeOK, Board, DealtTo
      <4>4. Dealt(u)' \in Nat /\ Owed(u)' \in Nat /\ PerDamage \in Nat
        BY <4>2, <4>3, TwoKinds, RaidAssumption DEF Dealt, Owed, DealtIn, OwedIn
      <4>5. PerDamage * Dealt(u)' \in Nat
        BY <4>4
      <4>. QED BY <4>4, <4>5 DEF Earned
    <3>. QED BY <3>1 DEF Accrues
  <2>5. OpView(u)' \in {NULL, cash[u], OpView(u)} /\ JobView(u)' \in {NULL, cash[u], JobView(u)} /\ cash'[u] = cash[u]
    BY DEF Accrues
  <2>6. Within(u)
    BY DEF Books
  <2>7. Within(u)'
    BY <2>1, <2>3, <2>4, <2>5, <2>6 DEF Within
  <2>8. ~overlap' => Exact(u)'
    <3>. SUFFICES ASSUME ~overlap' PROVE Exact(u)'
      OBVIOUS
    <3>1. Exact(u)
      BY DEF Apart
    <3>. QED BY <2>1, <2>3, <2>4, <2>5, <3>1 DEF Exact
  <2>. QED BY <2>7, <2>8
<1>. QED BY <1>1 DEF Books, Apart

\* Nothing that the books look at.
LEMMA AccruesNothing ==
  ASSUME TypeInv, NEW u \in Users, Earned(u)' = Earned(u),
         OpPay(u)' = OpPay(u), OpView(u)' \in {NULL, cash[u], OpView(u)},
         JobPay(u)' = JobPay(u), JobView(u)' \in {NULL, cash[u], JobView(u)}
  PROVE  Accrues(u)
<1>1. Pend(u)' = Pend(u)
  BY DEF Pend
<1>. QED BY <1>1 DEF Accrues

LEMMA SameOp ==
  ASSUME op' = op
  PROVE  /\ \A u \in Users : OpPay(u)' = OpPay(u) /\ OpView(u)' = OpView(u)
         /\ (op.pc \in Billed)' <=> op.pc \in Billed
BY DEF OpPay, OpView

LEMMA SameJob ==
  ASSUME job'["caravan"] = job["caravan"]
  PROVE  /\ \A u \in Users : JobPay(u)' = JobPay(u) /\ JobView(u)' = JobView(u)
         /\ Paying' <=> Paying
BY DEF JobPay, JobView, Paying

LEMMA SameBoards ==
  ASSUME fought' = fought, \A k \in Kinds : board'[k] = board[k]
  PROVE  \A u \in Users : Earned(u)' = Earned(u)
BY EarnedSame DEF DealtTo

LEMMA HitBeginBooks ==
  ASSUME TypeInv, TypeInv', Books, Apart, NEW k \in Kinds, NEW u \in Users, HitBegin(k, u)
  PROVE  Books' /\ Apart'
<1>1. cash' = cash /\ crashes' = crashes /\ job' = job /\ board' = board /\ fought' = fought
  BY DEF HitBegin, rows
<1>2. op = Idle /\ op'.pc = "aiming" /\ op'.bill.pay = Nought /\ op'.bill.view = [Nobody EXCEPT ![u] = cash[u]]
  BY DEF HitBegin
<1>3. ASSUME NEW v \in Users PROVE Accrues(v)
  <2>1. OpPay(v) = 0 /\ OpPay(v)' = 0
    BY <1>2, NoneIsIdle, NoughtTyped DEF OpPay, Billed
  <2>2. OpView(v)' = IF v = u THEN cash[v] ELSE NULL
    BY <1>2 DEF OpView, Billed, Nobody
  <2>. QED BY <1>1, <2>1, <2>2, SameJob, SameBoards, AccruesNothing
<1>4. ~overlap' => ~overlap /\ ~Paying'
  BY <1>1, TwoKinds, NoneIsIdle DEF HitBegin, Paying
<1>. QED BY <1>1, <1>3, <1>4, AccruesKeeps

LEMMA MissedBooks == TypeInv /\ TypeInv' /\ Books /\ Apart /\ Missed => Books' /\ Apart'
<1>. SUFFICES ASSUME TypeInv, TypeInv', Books, Apart, Missed PROVE Books' /\ Apart'
  OBVIOUS
<1>1. cash' = cash /\ crashes' = crashes /\ job' = job /\ board' = board /\ fought' = fought /\ overlap' = overlap
  BY DEF Missed, rows, history
<1>2. op.pc = "aiming" /\ op'.pc = "closing" /\ op'.bill = op.bill
  BY DEF Missed, Closing
<1>3. ASSUME NEW v \in Users PROVE Accrues(v)
  <2>1. OpPay(v)' = OpPay(v) /\ OpView(v)' = OpView(v)
    BY <1>2 DEF OpPay, OpView, Billed
  <2>. QED BY <1>1, <2>1, SameJob, SameBoards, AccruesNothing
<1>4. ~overlap' => ~overlap /\ ~Paying'
  BY <1>1, <1>2 DEF Apart, Paying, Billed
<1>. QED BY <1>1, <1>3, <1>4, AccruesKeeps

LEMMA StrikeBooks ==
  ASSUME TypeInv, TypeInv', Books, Apart, NEW d \in Damage, Strike(d)
  PROVE  Books' /\ Apart'
<1>1. cash' = cash /\ crashes' = crashes /\ job' = job /\ overlap' = overlap /\ op.pc = "aiming" /\ op.me \in Users
  BY OpShape DEF Strike, rows, history, TypeInv, Billed
<1>2. /\ op'.pc \in {"closing", "struck"} /\ op'.bill.view = op.bill.view
      /\ op'.bill.pay[op.me] = d * PerDamage /\ \A v \in Users \ {op.me} : op'.bill.pay[v] = 0
  BY StrikeBill
<1>3. op.bill.pay = Nought
  BY <1>1 DEF TypeInv, OpInv
<1>4. ASSUME NEW v \in Users PROVE Accrues(v)
  <2>1. OpPay(v) = 0 /\ OpPay(v)' = IF v = op.me THEN d * PerDamage ELSE 0
    BY <1>1, <1>2, <1>3, NoughtTyped DEF OpPay, Billed
  <2>2. OpView(v)' = OpView(v)
    BY <1>1, <1>2 DEF OpView, Billed
  <2>3. Earned(v)' = Earned(v) + IF v = op.me THEN d * PerDamage ELSE 0
    BY StrikeEarns
  <2>4. Earned(v) \in Nat /\ JobPay(v) \in Nat /\ d * PerDamage \in Nat
    BY PendTyped, RaidAssumption
  <2>5. JobPay(v)' = JobPay(v) /\ JobView(v)' = JobView(v)
    BY <1>1, SameJob
  <2>6. Earned(v)' + Pend(v) = Earned(v) + Pend(v)'
    BY <2>1, <2>3, <2>4, <2>5 DEF Pend
  <2>. QED BY <2>2, <2>5, <2>6 DEF Accrues
<1>5. ~overlap' => ~overlap /\ ~Paying'
  BY <1>1 DEF Apart, Paying, Billed
<1>. QED BY <1>1, <1>4, <1>5, AccruesKeeps

LEMMA SettleBooks ==
  ASSUME TypeInv, TypeInv', Ids, Books, Apart, Settle
  PROVE  Books' /\ Apart'
<1>. DEFINE b == board[op.k]
<1>1. /\ cash' = cash /\ crashes' = crashes /\ job' = job /\ overlap' = overlap
      /\ op.pc = "struck" /\ op.k \in Kinds /\ op'.pc = "closing" /\ op'.bill.view = op.bill.view
      /\ board' = [board EXCEPT ![op.k] = NULL]
  BY SettleIs DEF rows
<1>2. \E owed \in [Users -> Nat] :
        \A v \in Users : /\ op'.bill.pay[v] = op.bill.pay[v] + owed[v]
                        /\ Earned(v)' = Earned(v) + owed[v]
  <2>1. board'[op.k] = NULL /\ \A l \in Kinds \ {op.k} : board'[l] = board[l]
    BY <1>1, SameHistory
  <2>2. CASE (b = NULL \/ Hitters(b) = {}) /\ fought' = Ended(b, "lost", Nought) /\ op'.bill.pay = op.bill.pay
    <3>1. Leaves(op.k, "lost", Nought)
      BY <2>1, <2>2 DEF Leaves
    <3>2. \A v \in Users : Earned(v)' = Earned(v) + IF b # NULL THEN Nought[v] ELSE 0
      BY <1>1, <3>1, NoughtTyped, LeavesEarns
    <3>3. \A v \in Users : Earned(v) \in Nat /\ op.bill.pay[v] \in Nat /\ Nought[v] = 0
      BY <1>1, PendTyped, NoughtTyped, OpShape, BillShape DEF TypeInv, Billed
    <3>4. \A v \in Users : op'.bill.pay[v] = op.bill.pay[v] + Nought[v] /\ Earned(v)' = Earned(v) + Nought[v]
      BY <2>2, <3>2, <3>3
    <3>. QED BY <3>4, NoughtTyped
  <2>3. ASSUME NEW owed \in [Users -> Nat], b # NULL, fought' = Ended(b, "killed", owed),
               \A v \in Users : op'.bill.pay[v] = op.bill.pay[v] + owed[v]
        PROVE  \A v \in Users : op'.bill.pay[v] = op.bill.pay[v] + owed[v] /\ Earned(v)' = Earned(v) + owed[v]
    <3>1. Leaves(op.k, "killed", owed)
      BY <2>1, <2>3 DEF Leaves
    <3>. QED BY <1>1, <2>3, <3>1, LeavesEarns
  <2>. QED BY <2>2, <2>3, SettleIs
<1>3. PICK owed \in [Users -> Nat] :
        \A v \in Users : /\ op'.bill.pay[v] = op.bill.pay[v] + owed[v]
                        /\ Earned(v)' = Earned(v) + owed[v]
  BY <1>2
<1>4. ASSUME NEW v \in Users PROVE Accrues(v)
  <2>1. OpPay(v)' = OpPay(v) + owed[v] /\ OpView(v)' = OpView(v)
    BY <1>1, <1>3 DEF OpPay, OpView, Billed
  <2>2. Earned(v) \in Nat /\ JobPay(v) \in Nat /\ OpPay(v) \in Nat /\ owed[v] \in Nat
    BY PendTyped
  <2>3. JobPay(v)' = JobPay(v) /\ JobView(v)' = JobView(v)
    BY <1>1, SameJob
  <2>4. Earned(v)' + Pend(v) = Earned(v) + Pend(v)'
    BY <1>3, <2>1, <2>2, <2>3 DEF Pend
  <2>. QED BY <2>1, <2>3, <2>4 DEF Accrues
<1>5. ~overlap' => ~overlap /\ ~Paying'
  BY <1>1 DEF Apart, Paying, Billed
<1>. QED BY <1>1, <1>4, <1>5, AccruesKeeps

LEMMA HitReadBooks ==
  ASSUME TypeInv, TypeInv', Books, Apart, HitReadRow
  PROVE  Books' /\ Apart'
<1>1. cash' = cash /\ crashes' = crashes /\ job' = job /\ overlap' = overlap /\ board' = board /\ fought' = fought
  BY DEF HitReadRow, rows, history
<1>2. op.pc = "closing" /\ op'.pc = "closing" /\ op.bill \in Bill /\ BillOk(op.bill) /\ TypeOK
  BY HitReadIs, SameHistory
<1>3. PICK u \in Users : op'.bill = ReadRow(op.bill, u)
  BY HitReadIs
<1>4. op'.bill.pay = op.bill.pay /\ op'.bill.view[u] = cash[u] /\ \A v \in Users \ {u} : op'.bill.view[v] = op.bill.view[v]
  BY <1>2, <1>3, ReadRowTyped
<1>5. ASSUME NEW v \in Users PROVE Accrues(v)
  <2>1. OpPay(v)' = OpPay(v) /\ OpView(v)' \in {cash[v], OpView(v)}
    BY <1>2, <1>4 DEF OpPay, OpView, Billed
  <2>. QED BY <1>1, <2>1, SameJob, SameBoards, AccruesNothing
<1>6. ~overlap' => ~overlap /\ ~Paying'
  BY <1>1, <1>2 DEF Apart, Paying, Billed
<1>. QED BY <1>1, <1>5, <1>6, AccruesKeeps

LEMMA JobReadBooks ==
  ASSUME TypeInv, TypeInv', Books, Apart, NEW k \in Kinds, JobReadRow(k)
  PROVE  Books' /\ Apart'
<1>1. cash' = cash /\ crashes' = crashes /\ op' = op /\ overlap' = overlap /\ board' = board /\ fought' = fought
  BY DEF JobReadRow, rows, history
<1>2. Paying /\ Paying' /\ job["caravan"].bill \in Bill /\ BillOk(job["caravan"].bill) /\ TypeOK
  BY JobReadIs, SameHistory DEF Paying
<1>3. PICK u \in Users : job'["caravan"].bill = ReadRow(job["caravan"].bill, u)
  BY JobReadIs
<1>4. /\ job'["caravan"].bill.pay = job["caravan"].bill.pay /\ job'["caravan"].bill.view[u] = cash[u]
      /\ \A v \in Users \ {u} : job'["caravan"].bill.view[v] = job["caravan"].bill.view[v]
  BY <1>2, <1>3, ReadRowTyped
<1>5. ASSUME NEW v \in Users PROVE Accrues(v)
  <2>1. JobPay(v)' = JobPay(v) /\ JobView(v)' \in {cash[v], JobView(v)}
    BY <1>2, <1>4 DEF JobPay, JobView, Paying
  <2>. QED BY <1>1, <2>1, SameOp, SameBoards, AccruesNothing
<1>6. ~overlap' => ~overlap /\ ~(op'.pc \in Billed)
  BY <1>1, <1>2 DEF Apart
<1>. QED BY <1>1, <1>5, <1>6, AccruesKeeps

LEMMA ExpireBooks ==
  ASSUME TypeInv, TypeInv', Ids, Books, Apart, CaravanExpire \/ BossExpire
  PROVE  Books' /\ Apart'
<1>1. CASE CaravanExpire
  <2>1. cash' = cash /\ crashes' = crashes /\ op' = op
    BY <1>1 DEF CaravanExpire, CaravanLeaves, rows
  <2>2. /\ job["caravan"] = Off /\ board["caravan"] # NULL /\ job'["caravan"].pc = "paying"
        /\ board' = [board EXCEPT !["caravan"] = NULL]
        /\ \A v \in Users : job'["caravan"].bill.view[v] = NULL
    BY <1>1, LeavesIs
  <2>3. PICK owed \in [Users -> Nat] :
          fought' = Ended(board["caravan"], "fled", owed) /\ \A v \in Users : job'["caravan"].bill.pay[v] = owed[v]
    BY <1>1, LeavesIs
  <2>4. board'["caravan"] = NULL /\ \A l \in Kinds \ {"caravan"} : board'[l] = board[l]
    BY <2>2, SameHistory, TwoKinds
  <2>5. \A v \in Users : Earned(v)' = Earned(v) + owed[v]
    <3>1. Leaves("caravan", "fled", owed)
      BY <2>3, <2>4 DEF Leaves
    <3>. QED BY <2>2, <3>1, TwoKinds, LeavesEarns
  <2>6. ASSUME NEW v \in Users PROVE Accrues(v)
    <3>1. JobPay(v) = 0 /\ JobPay(v)' = owed[v] /\ JobView(v)' = NULL
      BY <2>2, <2>3, NoneIsIdle DEF JobPay, JobView
    <3>2. OpPay(v)' = OpPay(v) /\ OpView(v)' = OpView(v)
      BY <2>1, SameOp
    <3>3. Earned(v) \in Nat /\ OpPay(v) \in Nat /\ owed[v] \in Nat
      BY PendTyped
    <3>4. Earned(v)' + Pend(v) = Earned(v) + Pend(v)'
      BY <2>5, <3>1, <3>2, <3>3 DEF Pend
    <3>. QED BY <3>1, <3>2, <3>4 DEF Accrues
  <2>7. ~overlap' => ~overlap /\ ~(op'.pc \in Billed)
    BY <1>1, NoneIsIdle DEF CaravanExpire, CaravanLeaves, Billed
  <2>. QED BY <2>1, <2>6, <2>7, AccruesKeeps
<1>2. CASE BossExpire
  <2>1. cash' = cash /\ crashes' = crashes /\ op' = op /\ job' = job /\ overlap' = overlap
    BY <1>2 DEF BossExpire, rows
  <2>2. \A v \in Users : Earned(v)' = Earned(v)
    <3>1. Leaves("boss", "fled", Nought)
      BY <1>2, ExpireLeaves
    <3>2. \A v \in Users : Earned(v)' = Earned(v) + IF board["boss"] # NULL THEN Nought[v] ELSE 0
      BY <3>1, TwoKinds, NoughtTyped, LeavesEarns
    <3>. QED BY <3>2, NoughtTyped, PendTyped
  <2>3. \A v \in Users : Accrues(v)
    BY <2>1, <2>2, SameOp, SameJob, AccruesNothing
  <2>4. ~overlap' => ~overlap /\ ~(op.pc \in Billed /\ Paying)'
    BY <2>1, SameJob DEF Apart
  <2>. QED BY <2>1, <2>3, <2>4, AccruesKeeps
<1>. QED BY <1>1, <1>2

LEMMA BeginsBooks ==
  ASSUME TypeInv, TypeInv', Ids, Books, Apart, NEW k \in Kinds, NEW id, Begins(k, id)
  PROVE  Books' /\ Apart'
<1>1. /\ cash' = cash /\ crashes' = crashes /\ overlap' = overlap
      /\ op' = op \/ (op = Idle /\ op'.pc = "noting")
      /\ job'["caravan"].pc = "paying" <=> job["caravan"].pc = "paying"
      /\ job["caravan"].pc = "paying" => job'["caravan"] = job["caravan"]
  BY BeginsIs DEF rows
<1>2. ASSUME NEW v \in Users PROVE Accrues(v)
  <2>1. OpPay(v)' = OpPay(v) /\ OpView(v)' = OpView(v)
    BY <1>1, NoneIsIdle DEF OpPay, OpView, Billed
  <2>2. JobPay(v)' = JobPay(v) /\ JobView(v)' = JobView(v)
    BY <1>1 DEF JobPay, JobView
  <2>3. Earned(v)' = Earned(v)
    BY BeginsEarns
  <2>. QED BY <2>1, <2>2, <2>3, AccruesNothing
<1>3. ~overlap' => ~overlap /\ ~(op.pc \in Billed /\ Paying)'
  BY <1>1 DEF Apart, Paying, Billed
<1>. QED BY <1>1, <1>2, <1>3, AccruesKeeps

\* A step that no session and no board takes part in.
LEMMA AsideBooks ==
  ASSUME TypeInv, TypeInv', Books, Apart,
         \/ \E k \in Kinds : Plan(k) \/ PlanCommit(k) \/ Late(k)
         \/ Clock
         \/ UNCHANGED vars
  PROVE  Books' /\ Apart'
<1>1. TypeOK /\ job \in [Kinds -> Jobs] /\ job' \in [Kinds -> Jobs]
  BY SameHistory DEF TypeInv, TypeOK
<1>2. cash' = cash /\ crashes' = crashes /\ overlap' = overlap /\ fought' = fought
  BY DEF Plan, PlanCommit, Late, Clock, AdminNote, CoolDown, DueComes, vars, rows, history
<1>3. op' = op \/ (op.pc = "noting" /\ op' = Idle)
  BY DEF Plan, PlanCommit, Late, Clock, AdminNote, CoolDown, DueComes, vars
<1>4. \/ job' = job
      \/ \E k \in Kinds : Plan(k) \/ PlanCommit(k)
  BY DEF Late, Clock, AdminNote, CoolDown, DueComes, vars
<1>5. job'["caravan"] = job["caravan"] \/ (~Paying /\ ~Paying')
  <2>1. ASSUME NEW k \in Kinds, Plan(k)
        PROVE  job'["caravan"] = job["caravan"] \/ (job["caravan"].pc # "paying" /\ job'["caravan"].pc # "paying")
    <3>1. job' = [job EXCEPT ![k] = [pc |-> "planning", id |-> planned + 1]] /\ job[k] = Off
      BY <2>1 DEF Plan
    <3>. QED BY <1>1, <3>1, TwoKinds, NoneIsIdle
  <2>2. ASSUME NEW k \in Kinds, PlanCommit(k)
        PROVE  job'["caravan"] = job["caravan"] \/ (job["caravan"].pc # "paying" /\ job'["caravan"].pc # "paying")
    <3>1. job' = [job EXCEPT ![k].pc = "spawning"] /\ job[k].pc = "planning"
      BY <2>2 DEF PlanCommit
    <3>2. job[k] \in [pc : {"planning", "spawning"}, id : Fights]
      BY <1>1, <3>1 DEF Jobs, Off, Idle
    <3>. QED BY <1>1, <3>1, <3>2, TwoKinds
  <2>. QED BY <1>4, <2>1, <2>2 DEF Paying
<1>6. \A u \in Users : Earned(u)' = Earned(u)
  <2>1. CASE \E k \in Kinds : Late(k)
    <3>1. \A u \in Users, l \in Kinds : DealtTo(l, u)' = DealtTo(l, u)
      BY <1>1, <2>1, LateIs DEF DealtTo
    <3>. QED BY <1>2, <3>1, EarnedSame
  <2>2. CASE board' = board
    BY <1>2, <2>2, SameBoards
  <2>. QED BY <2>1, <2>2 DEF Plan, PlanCommit, Clock, AdminNote, CoolDown, DueComes, vars
<1>7. ASSUME NEW v \in Users PROVE Accrues(v)
  <2>1. OpPay(v)' = OpPay(v) /\ OpView(v)' = OpView(v)
    BY <1>3, NoneIsIdle DEF OpPay, OpView, Billed
  <2>2. JobPay(v)' = JobPay(v) /\ JobView(v)' = JobView(v)
    BY <1>5 DEF JobPay, JobView, Paying
  <2>. QED BY <1>6, <2>1, <2>2, AccruesNothing
<1>8. ~overlap' => ~overlap /\ ~(op.pc \in Billed /\ Paying)'
  BY <1>2, <1>3, <1>5, NoneIsIdle DEF Apart, Paying, Billed
<1>. QED BY <1>2, <1>7, <1>8, AccruesKeeps

-----------------------------------------------------------------------------
(* The commits.                                                            *)

LEMMA HitCommitBooks ==
  ASSUME TypeInv, TypeInv', Books, Apart, HitCommit
  PROVE  Books' /\ Apart'
<1>1. op.pc = "closing" /\ op' = Idle /\ job' = job /\ board' = board /\ fought' = fought
      /\ overlap' = overlap /\ crashes' = crashes /\ op.bill.todo = {}
      /\ cash' = [u \in Users |-> IF op.bill.pay[u] > 0 THEN op.bill.view[u] + op.bill.pay[u] ELSE cash[u]]
  BY DEF HitCommit, Written, history
<1>2. ASSUME NEW u \in Users PROVE Within(u)' /\ (~overlap' => Exact(u)')
  <2>1. /\ cash[u] \in Nat /\ OpPay(u) \in Nat /\ JobPay(u) \in Nat
        /\ OpView(u) \in Nat \cup {NULL} /\ JobView(u) \in Nat \cup {NULL}
        /\ Earned(u) \in Nat /\ NULL \notin Nat /\ crashes \in Nat
    BY PendTyped
  <2>2. OpPay(u) = op.bill.pay[u] /\ OpView(u) = op.bill.view[u] /\ OpPay(u)' = 0 /\ OpView(u)' = NULL
    BY <1>1, NoneIsIdle DEF OpPay, OpView, Billed
  <2>3. JobPay(u)' = JobPay(u) /\ JobView(u)' = JobView(u) /\ Earned(u)' = Earned(u)
    BY <1>1, SameJob, SameBoards
  <2>4. cash'[u] = IF OpPay(u) > 0 THEN OpView(u) + OpPay(u) ELSE cash[u]
    BY <1>1, <2>2
  <2>5. OpPay(u) > 0 => OpView(u) # NULL
    BY <1>1, <2>2 DEF TypeInv, OpInv, BillOk, Billed
  <2>6. Within(u)
    BY DEF Books
  <2>7. Within(u)'
    BY <2>1, <2>2, <2>3, <2>4, <2>5, <2>6 DEF Within, Pend
  <2>8. ASSUME ~overlap' PROVE Exact(u)'
    <3>1. Exact(u) /\ ~Paying
      BY <1>1, <2>8 DEF Apart, Billed
    <3>2. JobPay(u) = 0 /\ JobView(u) = NULL
      BY <3>1 DEF JobPay, JobView, Paying
    <3>3. OpView(u) \in {NULL, cash[u]} /\ (crashes = 0 => cash[u] + OpPay(u) = Earned(u))
      BY <2>1, <3>1, <3>2 DEF Exact, Pend
    <3>4. crashes' = 0 => cash'[u] + Pend(u)' = Earned(u)'
      BY <1>1, <2>1, <2>2, <2>3, <2>4, <2>5, <3>2, <3>3 DEF Pend
    <3>. QED BY <2>2, <2>3, <3>2, <3>4 DEF Exact
  <2>. QED BY <2>7, <2>8
<1>3. ~(op.pc \in Billed)'
  BY <1>1, NoneIsIdle DEF Billed
<1>. QED BY <1>2, <1>3 DEF Books, Apart

LEMMA JobCommitBooks ==
  ASSUME TypeInv, TypeInv', Books, Apart, NEW k \in Kinds, JobCommit(k)
  PROVE  Books' /\ Apart'
<1>. DEFINE bill == job["caravan"].bill
<1>1. k = "caravan" /\ Paying
  BY TwoKinds DEF JobCommit, TypeInv, JobInv, Paying
<1>2. /\ op' = op /\ board' = board /\ fought' = fought /\ overlap' = overlap /\ crashes' = crashes
      /\ bill.todo = {}
      /\ cash' = [u \in Users |-> IF bill.pay[u] > 0 THEN bill.view[u] + bill.pay[u] ELSE cash[u]]
  BY <1>1 DEF JobCommit, Written, history
<1>3. job'["caravan"] = Off
  BY <1>1, SameHistory, TwoKinds DEF JobCommit
<1>4. ~Paying'
  BY <1>3, NoneIsIdle DEF Paying
<1>5. BillOk(bill)
  BY <1>1 DEF TypeInv, JobInv, Paying
<1>6. ASSUME NEW u \in Users PROVE Within(u)' /\ (~overlap' => Exact(u)')
  <2>1. /\ cash[u] \in Nat /\ OpPay(u) \in Nat /\ JobPay(u) \in Nat
        /\ OpView(u) \in Nat \cup {NULL} /\ JobView(u) \in Nat \cup {NULL}
        /\ Earned(u) \in Nat /\ NULL \notin Nat /\ crashes \in Nat
    BY PendTyped
  <2>2. JobPay(u) = bill.pay[u] /\ JobView(u) = bill.view[u] /\ JobPay(u)' = 0 /\ JobView(u)' = NULL
    BY <1>1, <1>4 DEF JobPay, JobView, Paying
  <2>3. OpPay(u)' = OpPay(u) /\ OpView(u)' = OpView(u) /\ Earned(u)' = Earned(u)
    BY <1>2, SameOp, SameBoards
  <2>4. cash'[u] = IF JobPay(u) > 0 THEN JobView(u) + JobPay(u) ELSE cash[u]
    BY <1>2, <2>2
  <2>5. JobPay(u) > 0 => JobView(u) # NULL
    BY <1>2, <1>5, <2>2 DEF BillOk
  <2>6. Within(u)
    BY DEF Books
  <2>7. Within(u)'
    BY <2>1, <2>2, <2>3, <2>4, <2>5, <2>6 DEF Within, Pend
  <2>8. ASSUME ~overlap' PROVE Exact(u)'
    <3>1. Exact(u) /\ ~(op.pc \in Billed)
      BY <1>1, <1>2, <2>8 DEF Apart
    <3>2. OpPay(u) = 0 /\ OpView(u) = NULL
      BY <3>1 DEF OpPay, OpView
    <3>3. JobView(u) \in {NULL, cash[u]} /\ (crashes = 0 => cash[u] + JobPay(u) = Earned(u))
      BY <2>1, <3>1, <3>2 DEF Exact, Pend
    <3>4. crashes' = 0 => cash'[u] + Pend(u)' = Earned(u)'
      BY <1>2, <2>1, <2>2, <2>3, <2>4, <2>5, <3>2, <3>3 DEF Pend
    <3>. QED BY <2>2, <2>3, <3>2, <3>4 DEF Exact
  <2>. QED BY <2>7, <2>8
<1>. QED BY <1>4, <1>6 DEF Books, Apart

LEMMA CrashBooks ==
  ASSUME TypeInv, TypeInv', Ids, Books, Apart, Crash
  PROVE  Books' /\ Apart'
<1>1. op' = Idle /\ job'["caravan"] = Off /\ cash' = cash /\ crashes' = crashes + 1
  BY CrashIs, TwoKinds DEF Crash, rows
<1>2. ASSUME NEW u \in Users PROVE Within(u)' /\ Exact(u)'
  <2>1. /\ cash[u] \in Nat /\ OpPay(u) \in Nat /\ JobPay(u) \in Nat /\ Earned(u) \in Nat /\ crashes \in Nat
    BY PendTyped
  <2>2. OpPay(u)' = 0 /\ JobPay(u)' = 0 /\ OpView(u)' = NULL /\ JobView(u)' = NULL
    BY <1>1, NoneIsIdle DEF OpPay, OpView, JobPay, JobView, Billed
  <2>3. Earned(u)' = Earned(u) /\ Within(u)
    BY CrashEarns DEF Books
  <2>4. crashes' # 0
    BY <1>1, <2>1
  <2>. QED BY <1>1, <2>1, <2>2, <2>3, <2>4 DEF Within, Exact, Pend
<1>3. ~(op.pc \in Billed)'
  BY <1>1, NoneIsIdle DEF Billed
<1>. QED BY <1>2, <1>3 DEF Books, Apart

LEMMA BooksInit == Init => Books /\ Apart
<1>. SUFFICES ASSUME Init PROVE Books /\ Apart
  OBVIOUS
<1>1. op = Idle /\ job["caravan"] = Off /\ fought = {} /\ \A k \in Kinds : board[k] = NULL
  BY TwoKinds DEF Init
<1>2. ASSUME NEW u \in Users PROVE Within(u) /\ Exact(u)
  <2>1. OpPay(u) = 0 /\ JobPay(u) = 0 /\ OpView(u) = NULL /\ JobView(u) = NULL /\ cash[u] = 0
    BY <1>1, NoneIsIdle, NoughtTyped DEF OpPay, OpView, JobPay, JobView, Billed, Init
  <2>2. DealtIn(fought, u) = 0 /\ OwedIn(fought, u) = 0
    BY <1>1, SumEmpty DEF DealtIn, OwedIn
  <2>3. Dealt(u) = 0 /\ Owed(u) = 0
    BY <1>1, <2>2, TwoKinds DEF Dealt, Owed, DealtTo
  <2>4. Earned(u) = 0
    BY <2>3, RaidAssumption DEF Earned
  <2>. QED BY <2>1, <2>4 DEF Within, Exact, Pend
<1>3. ~(op.pc \in Billed)
  BY <1>1, NoneIsIdle DEF Billed
<1>. QED BY <1>2, <1>3 DEF Books, Apart

LEMMA BooksStep ==
  ASSUME TypeInv, TypeInv', Ids, Books, Apart, [Next]_vars
  PROVE  Books' /\ Apart'
BY Steps, HitBeginBooks, MissedBooks, StrikeBooks, SettleBooks, HitReadBooks, HitCommitBooks, ExpireBooks,
   JobReadBooks, JobCommitBooks, BeginsBooks, AsideBooks, CrashBooks

\* Every hit and every prize is paid once: nobody ever has more than the boards
\* say, whatever sessions race, and exactly that as long as none did and the
\* bot was not restarted.
THEOREM BoardsAlwaysPay == Spec => []BoardsArePaid
<1>1. Init => Places /\ Books /\ Apart
  BY TypeInit, IdsInit, DeadInit, BooksInit DEF Places
<1>2. Places /\ Books /\ Apart /\ [Next]_vars => (Places /\ Books /\ Apart)'
  <2>. SUFFICES ASSUME Places, Books, Apart, [Next]_vars PROVE (Places /\ Books /\ Apart)'
    OBVIOUS
  <2>1. Places'
    BY TypeStep, IdsStep, DeadStep DEF Places
  <2>. QED BY <2>1, BooksStep DEF Places
<1>3. Places /\ Books /\ Apart => BoardsArePaid
  <2>. SUFFICES ASSUME Places, Books, Apart, NEW u \in Users
                PROVE  /\ cash[u] <= Earned(u)
                       /\ Quiet /\ ~overlap /\ crashes = 0 => cash[u] = Earned(u)
    BY DEF BoardsArePaid, Earned
  <2>1. cash[u] \in Nat /\ OpPay(u) \in Nat /\ JobPay(u) \in Nat /\ Earned(u) \in Nat
    BY PendTyped DEF Places
  <2>2. cash[u] + Pend(u) <= Earned(u)
    BY DEF Books, Within
  <2>3. Quiet => OpPay(u) = 0 /\ JobPay(u) = 0
    BY TwoKinds, NoneIsIdle DEF Quiet, OpPay, JobPay, Billed
  <2>4. ~overlap /\ crashes = 0 => cash[u] + Pend(u) = Earned(u)
    BY DEF Apart, Exact
  <2>. QED BY <2>1, <2>2, <2>3, <2>4 DEF Pend
<1>. QED BY <1>1, <1>2, <1>3, PTL DEF Spec
=============================================================================
