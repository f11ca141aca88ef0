------------------------------ MODULE MinesProofs ------------------------------
(***************************************************************************)
(* Theorems about the mines game: types, and what cash, stakes and the     *)
(* tracked results have to do with each other.                             *)
(***************************************************************************)
EXTENDS Mines, Sums, SequenceTheorems

-----------------------------------------------------------------------------
(* Keys of the dict.                                                       *)

Distinct(s) == \A i, j \in DOMAIN s : s[i] = s[j] => i = j
Has(s, u)   == \E i \in DOMAIN s : s[i] = u

LEMMA SequenceFacts ==
  ASSUME NEW s \in Seq(Users)
  PROVE  /\ Len(s) \in Nat /\ DOMAIN s = 1 .. Len(s)
         /\ \A i \in DOMAIN s : s[i] \in Users
<1>1. Len(s) \in Nat /\ s \in [1 .. Len(s) -> Users]
  BY LenProperties
<1>. QED BY <1>1

\* What follows a key.
LEMMA RestIs ==
  ASSUME NEW s \in Seq(Users), NEW i \in DOMAIN s
  PROVE  LET r == SubSeq(s, i + 1, Len(s))
         IN  /\ r \in Seq(Users) /\ Len(r) = Len(s) - i
             /\ \A j \in DOMAIN r : r[j] = s[i + j] /\ i + j \in DOMAIN s
<1>. DEFINE r == SubSeq(s, i + 1, Len(s))
            n == Len(s)
<1>1. n \in Nat /\ i \in Nat /\ i >= 1 /\ i <= n /\ DOMAIN s = 1 .. n
  BY SequenceFacts
<1>2. \A k \in i + 1 .. n : s[k] \in Users
  BY <1>1, SequenceFacts
<1>3. i + 1 \in Int /\ n \in Int
  BY <1>1
<1>. HIDE DEF n
<1>4. /\ SubSeq(s, i + 1, n) \in Seq(Users)
      /\ Len(SubSeq(s, i + 1, n)) = IF i + 1 <= n THEN n - (i + 1) + 1 ELSE 0
      /\ \A j \in 1 .. n - (i + 1) + 1 : SubSeq(s, i + 1, n)[j] = s[(i + 1) + j - 1]
  BY <1>2, <1>3, SubSeqProperties
<1>5. r = SubSeq(s, i + 1, n)
  BY DEF n
<1>. HIDE DEF r
<1>6. r \in Seq(Users) /\ Len(r) = n - i /\ \A j \in 1 .. n - i : r[j] = s[i + j]
  <2>1. n - (i + 1) + 1 = n - i /\ \A j \in 1 .. n - i : (i + 1) + j - 1 = i + j
    BY <1>1
  <2>. QED BY <1>1, <1>4, <1>5, <2>1
<1>7. DOMAIN r = 1 .. n - i
  BY <1>6, SequenceFacts
<1>8. \A j \in 1 .. n - i : i + j \in 1 .. n
  BY <1>1
<1>. QED BY <1>1, <1>6, <1>7, <1>8 DEF r, n

LEMMA WithoutIs ==
  ASSUME NEW s \in Seq(Users), NEW u
  PROVE  LET w == Without(s, u)
         IN  /\ w \in Seq(Users)
             /\ Distinct(s) => Distinct(w) /\ \A v : Has(w, v) <=> v # u /\ Has(s, v)
<1>. DEFINE at == {i \in DOMAIN s : s[i] = u}
            k  == CHOOSE i \in at : TRUE
            n  == Len(s)
            w  == Without(s, u)
<1>1. n \in Nat /\ DOMAIN s = 1 .. n /\ \A i \in 1 .. n : s[i] \in Users
  BY SequenceFacts
<1>2. CASE at = {}
  <2>1. w = s /\ ~Has(s, u)
    BY <1>2 DEF Without, Has
  <2>. QED BY <2>1
<1>3. CASE at # {}
  <2>. DEFINE a == SubSeq(s, 1, k - 1)
              b == SubSeq(s, k + 1, n)
  <2>1. k \in 1 .. n /\ s[k] = u
    BY <1>1, <1>3
  <2>2. w = a \o b
    BY <1>3 DEF Without
  <2>. HIDE DEF k, n, at, w
  <2>3. k \in Nat /\ k - 1 \in Int /\ k - 1 \in Nat /\ \A i \in 1 .. k - 1 : s[i] \in Users
    BY <1>1, <2>1
  <2>4. a \in Seq(Users) /\ Len(a) = k - 1 /\ \A i \in 1 .. k - 1 : a[i] = s[i]
    <3>1. /\ a \in Seq(Users) /\ Len(a) = IF 1 <= k - 1 THEN k - 1 - 1 + 1 ELSE 0
          /\ \A i \in 1 .. k - 1 - 1 + 1 : a[i] = s[1 + i - 1]
      <4>. HIDE DEF a
      <4>. QED BY <2>3, SubSeqProperties DEF a
    <3>. QED BY <2>3, <3>1
  <2>5. b \in Seq(Users) /\ Len(b) = n - k /\ \A j \in 1 .. n - k : b[j] = s[k + j]
    <3>1. k \in DOMAIN s
      BY <1>1, <2>1
    <3>2. b \in Seq(Users) /\ Len(b) = n - k /\ \A j \in DOMAIN b : b[j] = s[k + j]
      BY <3>1, RestIs DEF n
    <3>. QED BY <3>2, SequenceFacts
  <2>. HIDE DEF a, b
  <2>6. /\ a \o b \in Seq(Users) /\ Len(a \o b) = Len(a) + Len(b)
        /\ \A i \in 1 .. Len(a) + Len(b) : (a \o b)[i] = IF i <= Len(a) THEN a[i] ELSE b[i - Len(a)]
    BY <2>4, <2>5, ConcatProperties
  <2>7. /\ w \in Seq(Users) /\ Len(w) = n - 1
        /\ \A i \in 1 .. n - 1 : w[i] = IF i < k THEN s[i] ELSE s[i + 1]
    <3>1. Len(a) + Len(b) = n - 1
      BY <1>1, <2>1, <2>4, <2>5
    <3>2. ASSUME NEW i \in 1 .. n - 1 PROVE w[i] = IF i < k THEN s[i] ELSE s[i + 1]
      <4>1. w[i] = IF i <= Len(a) THEN a[i] ELSE b[i - Len(a)]
        BY <2>2, <2>6, <3>1
      <4>2. CASE i < k
        <5>1. i <= Len(a) /\ i \in 1 .. k - 1
          BY <2>3, <2>4, <4>2
        <5>. QED BY <2>4, <4>1, <4>2, <5>1
      <4>3. CASE ~(i < k)
        <5>1. ~(i <= Len(a)) /\ i - Len(a) \in 1 .. n - k /\ k + (i - Len(a)) = i + 1
          BY <1>1, <2>1, <2>3, <2>4, <4>3
        <5>. QED BY <2>5, <4>1, <4>3, <5>1
      <4>. QED BY <4>2, <4>3
    <3>. QED BY <2>2, <2>6, <3>1, <3>2
  <2>8. DOMAIN w = 1 .. n - 1
    BY <2>7, SequenceFacts
  <2>9. ASSUME Distinct(s) PROVE Distinct(w) /\ \A v : Has(w, v) <=> v # u /\ Has(s, v)
    <3>1. \A i, j \in 1 .. n : s[i] = s[j] => i = j
      BY <1>1, <2>9 DEF Distinct
    <3>2. Distinct(w)
      <4>. SUFFICES ASSUME NEW i \in 1 .. n - 1, NEW j \in 1 .. n - 1, w[i] = w[j] PROVE i = j
        BY <2>8 DEF Distinct
      <4>1. w[i] = s[IF i < k THEN i ELSE i + 1] /\ w[j] = s[IF j < k THEN j ELSE j + 1]
        BY <2>7
      <4>2. (IF i < k THEN i ELSE i + 1) \in 1 .. n /\ (IF j < k THEN j ELSE j + 1) \in 1 .. n
        BY <1>1, <2>1
      <4>3. (IF i < k THEN i ELSE i + 1) = (IF j < k THEN j ELSE j + 1)
        BY <3>1, <4>1, <4>2
      <4>. QED BY <1>1, <2>1, <4>3
    <3>3. ASSUME NEW v, Has(w, v) PROVE v # u /\ Has(s, v)
      <4>1. PICK i \in 1 .. n - 1 : w[i] = v
        BY <2>8, <3>3 DEF Has
      <4>. DEFINE j == IF i < k THEN i ELSE i + 1
      <4>2. j \in 1 .. n /\ j # k /\ s[j] = v
        BY <1>1, <2>1, <2>7, <4>1
      <4>. HIDE DEF j
      <4>. QED BY <1>1, <2>1, <3>1, <4>2 DEF Has
    <3>4. ASSUME NEW v, v # u, Has(s, v) PROVE Has(w, v)
      <4>1. PICK j \in 1 .. n : s[j] = v
        BY <1>1, <3>4 DEF Has
      <4>2. j # k
        BY <2>1, <3>4, <4>1
      <4>3. CASE j < k
        <5>1. j \in 1 .. n - 1 /\ w[j] = v
          BY <1>1, <2>1, <2>7, <4>1, <4>3
        <5>. QED BY <2>8, <5>1 DEF Has
      <4>4. CASE j > k
        <5>1. j - 1 \in 1 .. n - 1 /\ w[j - 1] = s[(j - 1) + 1] /\ (j - 1) + 1 = j
          BY <1>1, <2>1, <2>7, <4>4
        <5>. QED BY <2>8, <4>1, <5>1 DEF Has
      <4>. QED BY <2>1, <4>2, <4>3, <4>4
    <3>. QED BY <3>2, <3>3, <3>4
  <2>. QED BY <2>7, <2>9 DEF w
<1>. QED BY <1>2, <1>3

\* The least of the keys at which the sweep's loop halts.
LEMMA LeastIs ==
  ASSUME NEW H \in SUBSET Nat, H # {}
  PROVE  (CHOOSE i \in H : \A j \in H : i <= j) \in H
<1>1. PICK i \in H : \A j \in H : <<j, i>> \notin LessThan
  BY LessThanIsWellFounded, WFMin
<1>2. \A j \in H : i <= j
  <2>. TAKE j \in H
  <2>1. i \in Nat /\ j \in Nat /\ ~(j < i)
    BY <1>1, LessThanIsLess
  <2>. QED BY <2>1
<1>. QED BY <1>2

\* What the loop of the sweep comes to.
LEMMA ResumeIs ==
  ASSUME NEW todo \in Seq(Users), NEW due, NEW tab, NEW refunds
  PROVE  LET r == Resume(todo, due, tab, refunds)
         IN  \/ r = [Off EXCEPT !.refunds = refunds]
             \/ r = Off /\ \E i \in DOMAIN todo : tab[todo[i]] = NULL
             \/ \E i \in DOMAIN todo :
                  /\ tab[todo[i]] # NULL
                  /\ r = [todo |-> SubSeq(todo, i + 1, Len(todo)), due |-> due,
                          at |-> todo[i], held |-> NULL, refunds |-> refunds]
<1>. DEFINE H == {i \in DOMAIN todo : tab[todo[i]] = NULL \/ todo[i] \in due}
            k == CHOOSE i \in H : \A j \in H : i <= j
            r == Resume(todo, due, tab, refunds)
<1>1. H \in SUBSET Nat
  BY SequenceFacts
<1>2. r = IF H = {} THEN [Off EXCEPT !.refunds = refunds]
          ELSE IF tab[todo[k]] = NULL THEN Off
               ELSE [todo |-> SubSeq(todo, k + 1, Len(todo)), due |-> due,
                     at |-> todo[k], held |-> NULL, refunds |-> refunds]
  BY DEF Resume
<1>3. H # {} => k \in H
  <2>. HIDE DEF H
  <2>. QED BY <1>1, LeastIs
<1>. HIDE DEF k, r
<1>. QED BY <1>2, <1>3 DEF r

LEMMA ResumeTyped ==
  ASSUME NEW todo \in Seq(Users), NEW due \in SUBSET Users, NEW tab,
         NEW refunds \in [Users -> Nat \cup {NULL}]
  PROVE  LET r == Resume(todo, due, tab, refunds)
         IN  r \in Jobs /\ r.held = NULL
<1>. DEFINE r == Resume(todo, due, tab, refunds)
<1>1. Off \in Jobs /\ [Off EXCEPT !.refunds = refunds] \in Jobs
      /\ Off.held = NULL /\ [Off EXCEPT !.refunds = refunds].held = NULL
  BY EmptySeq DEF Off, Jobs
<1>2. ASSUME NEW i \in DOMAIN todo,
             r = [todo |-> SubSeq(todo, i + 1, Len(todo)), due |-> due,
                  at |-> todo[i], held |-> NULL, refunds |-> refunds]
      PROVE  r \in Jobs /\ r.held = NULL
  <2>1. SubSeq(todo, i + 1, Len(todo)) \in Seq(Users) /\ todo[i] \in Users
    BY RestIs, SequenceFacts
  <2>. QED BY <1>2, <2>1 DEF Jobs
<1>3. \/ r = [Off EXCEPT !.refunds = refunds]
      \/ r = Off
      \/ \E i \in DOMAIN todo :
           r = [todo |-> SubSeq(todo, i + 1, Len(todo)), due |-> due,
                at |-> todo[i], held |-> NULL, refunds |-> refunds]
  BY ResumeIs
<1>. HIDE DEF r
<1>4. r \in Jobs /\ r.held = NULL
  BY <1>1, <1>2, <1>3
<1>. QED BY <1>4 DEF r

-----------------------------------------------------------------------------
(* Types.  A handler that has armed had the stake; the sweep holds the row *)
(* of the user it is at.                                                   *)

Kinds == {"arm", "armed", "click", "settling", "closing"}

TypeInv ==
  /\ TypeOK
  /\ op.kind = "armed" => op.mine >= Bet
  /\ job.held # NULL => job.at # NULL

LEMMA OpShape ==
  ASSUME TypeOK
  PROVE  /\ op = Idle \/ op.kind \in Kinds
         /\ op.kind = "idle" <=> op = Idle
         /\ op.kind \in Kinds => op.me \in Users /\ op.mine \in Nat
         /\ op.kind \in {"settling", "closing"} => op.pay \in Nat
         /\ op.kind = "closing" => op.net \in Int
BY DEF TypeOK, Ops, Idle, Kinds

LEMMA JobShape ==
  ASSUME TypeOK
  PROVE  /\ job.todo \in Seq(Users) /\ job.due \in SUBSET Users
         /\ job.at \in Users \cup {NULL} /\ job.held \in Nat \cup {NULL}
         /\ job.refunds \in [Users -> Nat \cup {NULL}]
         /\ NULL \notin Users /\ NULL \notin Nat /\ Bet \in Nat
BY MinesAssumption DEF TypeOK, Jobs

LEMMA NoneIsIdle == Idle \in Ops /\ Idle.kind = "idle" /\ Off \in Jobs /\ Off.held = NULL
BY EmptySeq DEF Idle, Ops, Off, Jobs

LEMMA TypeInit == Init => TypeInv
<1>. SUFFICES ASSUME Init PROVE TypeInv
  OBVIOUS
<1>1. TypeOK
  <2>1. cash \in [Users -> Nat] /\ cooling \in [Users -> BOOLEAN] /\ casinoTp \in [Tracked -> Int]
    BY MinesAssumption DEF Init
  <2>2. table \in [Users -> Table \cup {NULL}] /\ order \in Seq(Users)
    BY EmptySeq DEF Init
  <2>3. op \in Ops /\ job \in Jobs
    BY NoneIsIdle DEF Init
  <2>4. overlap \in BOOLEAN /\ hands \in Nat /\ crashes \in Nat
    BY DEF Init
  <2>. QED BY <2>1, <2>2, <2>3, <2>4 DEF TypeOK
<1>. QED BY <1>1, NoneIsIdle DEF Init, TypeInv

\* What a step that leaves rows and dict alone has to keep.
LEMMA OpOnly ==
  ASSUME TypeInv, op' \in Ops, op'.kind = "armed" => op'.mine >= Bet,
         UNCHANGED <<rows, dict, job, bounds>>, overlap' \in BOOLEAN
  PROVE  TypeInv'
BY DEF TypeInv, TypeOK, rows, dict, bounds

LEMMA PoppedTyped ==
  ASSUME TypeOK, NEW u \in Users, Popped(u)
  PROVE  (table \in [Users -> Table \cup {NULL}] /\ order \in Seq(Users))'
<1>1. order \in Seq(Users) /\ table \in [Users -> Table \cup {NULL}]
  BY DEF TypeOK
<1>2. Without(order, u) \in Seq(Users)
  BY <1>1, WithoutIs
<1>. QED BY <1>1, <1>2 DEF Popped

LEMMA CloseTyped ==
  ASSUME TypeInv, op.kind \in Kinds, NEW pay \in Nat, NEW net \in Int,
         op' = Closing(pay, net), Popped(op.me), UNCHANGED <<rows, job, overlap, bounds>>
  PROVE  TypeInv'
<1>1. TypeOK /\ op.me \in Users /\ op.mine \in Nat
  BY OpShape DEF TypeInv
<1>2. op' \in Ops /\ op'.kind = "closing"
  BY <1>1 DEF Closing, Ops
<1>3. (table \in [Users -> Table \cup {NULL}] /\ order \in Seq(Users))'
  BY <1>1, PoppedTyped
<1>. QED BY <1>2, <1>3 DEF TypeInv, TypeOK, rows, bounds

LEMMA SettleTyped ==
  ASSUME TypeInv, op.kind = "click", NEW pay \in Nat, Settle(pay)
  PROVE  TypeInv'
<1>1. TypeOK /\ op.me \in Users /\ op.mine \in Nat /\ overlap \in BOOLEAN
  BY OpShape DEF TypeInv, TypeOK, Kinds
<1>2. CASE op.me \in Tracked
  <2>1. op' = [kind |-> "settling", me |-> op.me, mine |-> op.mine, pay |-> pay]
        /\ UNCHANGED <<rows, dict, job, bounds>> /\ overlap' = overlap
    BY <1>2 DEF Settle
  <2>2. op' \in Ops /\ op'.kind = "settling"
    BY <1>1, <2>1 DEF Ops
  <2>. QED BY <1>1, <2>1, <2>2, OpOnly
<1>3. CASE op.me \notin Tracked
  <2>1. pay - Bet \in Int
    BY MinesAssumption
  <2>2. op' = Closing(pay, pay - Bet) /\ Popped(op.me) /\ UNCHANGED <<rows, job, overlap, bounds>>
    BY <1>3 DEF Settle
  <2>. QED BY <2>1, <2>2, CloseTyped DEF Kinds
<1>. QED BY <1>2, <1>3

LEMMA RefundTyped ==
  ASSUME TypeInv, op.kind = "click", Refund
  PROVE  TypeInv'
BY CloseTyped, MinesAssumption DEF Refund, Kinds

\* The table a click finds.
LEMMA PlayingHas ==
  ASSUME TypeOK, NEW u \in Users, Playing(u)
  PROVE  table[u] \in Table /\ table[u].safe \in 0 .. SafeTiles - 1
BY DEF TypeOK, Playing, Table

LEMMA TypeStep == TypeInv /\ [Next]_vars => TypeInv'
<1>. SUFFICES ASSUME TypeInv, [Next]_vars PROVE TypeInv'
  OBVIOUS
<1>1. TypeOK /\ overlap \in BOOLEAN
  BY DEF TypeInv, TypeOK
<1>2. CASE HandlerBegin
  <2>1. PICK u \in Users : ArmBegin(u) \/ ClickBegin(u)
    BY <1>2 DEF HandlerBegin
  <2>2. cash[u] \in Nat /\ cooling[u] \in BOOLEAN
    BY <1>1 DEF TypeOK
  <2>3. op' \in Ops /\ op'.kind \in {"arm", "click"}
    BY <2>1, <2>2 DEF ArmBegin, ClickBegin, Begin, Ops
  <2>4. UNCHANGED <<rows, dict, job, bounds>> /\ overlap' \in BOOLEAN
    BY <1>1, <2>1 DEF ArmBegin, ClickBegin, Begin
  <2>. QED BY <2>3, <2>4, OpOnly
<1>3. CASE Arm
  <2>1. op.me \in Users /\ op.mine \in Nat
    BY <1>1, <1>3, OpShape DEF Arm, Kinds
  <2>2. op' \in Ops /\ op'.kind = "armed" /\ op'.mine >= Bet
    BY <1>3, <2>1 DEF Arm, MayArm, Ops
  <2>3. [safe |-> 0, expired |-> FALSE] \in Table
    BY MinesAssumption DEF Table
  <2>4. table' \in [Users -> Table \cup {NULL}]
    BY <1>1, <1>3, <2>3 DEF Arm, TypeOK
  <2>5. order' \in Seq(Users)
    BY <1>1, <1>3, <2>1, AppendProperties DEF Arm, TypeOK
  <2>6. job' \in Jobs /\ job'.held = job.held /\ job'.at = job.at
    BY <1>1, <1>3 DEF Arm, Jobs, TypeOK
  <2>7. hands' \in Nat
    BY <1>1, <1>3 DEF Arm, TypeOK
  <2>. QED BY <1>3, <2>2, <2>4, <2>5, <2>6, <2>7 DEF TypeInv, TypeOK, Arm, rows
<1>4. CASE ArmRefused \/ ClickIgnored
  BY <1>1, <1>4, NoneIsIdle, OpOnly DEF ArmRefused, ClickIgnored, Ends
<1>5. CASE ArmCommit
  <2>1. op.me \in Users /\ op.mine - Bet \in Nat
    BY <1>1, <1>5, OpShape, MinesAssumption DEF ArmCommit, TypeInv, Kinds
  <2>2. (cash \in [Users -> Nat] /\ cooling \in [Users -> BOOLEAN])'
    BY <1>1, <1>5, <2>1 DEF ArmCommit, TypeOK
  <2>. QED BY <1>5, <2>2, NoneIsIdle DEF TypeInv, TypeOK, ArmCommit, dict, bounds
<1>6. CASE PickMine
  BY <1>6, SettleTyped DEF PickMine
<1>7. CASE PickSafe
  <2>. DEFINE safe == table[op.me].safe + 1
  <2>1. op.me \in Users
    BY <1>1, <1>7, OpShape DEF PickSafe, Kinds
  <2>2. table[op.me] \in Table /\ safe \in 1 .. SafeTiles
    BY <1>1, <1>7, <2>1, PlayingHas, MinesAssumption DEF PickSafe
  <2>3. CASE safe = SafeTiles
    <3>1. Pay[safe] \in Nat
      BY <2>2, MinesAssumption
    <3>2. op.kind = "click" /\ Settle(Pay[safe])
      BY <1>7, <2>3 DEF PickSafe
    <3>. QED BY <3>1, <3>2, SettleTyped
  <2>4. CASE safe # SafeTiles
    <3>1. table' = [table EXCEPT ![op.me].safe = safe] /\ Ends /\ UNCHANGED order
      BY <1>7, <2>4 DEF PickSafe
    <3>2. [table[op.me] EXCEPT !.safe = safe] \in Table
      BY <2>2, <2>4, MinesAssumption DEF Table
    <3>3. table' \in [Users -> Table \cup {NULL}]
      BY <1>1, <3>1, <3>2 DEF TypeOK
    <3>. QED BY <3>1, <3>3, NoneIsIdle DEF TypeInv, TypeOK, Ends, rows, bounds
  <2>. QED BY <2>3, <2>4
<1>8. CASE Cashout
  <2>1. op.me \in Users
    BY <1>1, <1>8, OpShape DEF Cashout, Kinds
  <2>2. table[op.me].safe \in 1 .. SafeTiles
    BY <1>1, <1>8, <2>1, PlayingHas, MinesAssumption DEF Cashout
  <2>3. Pay[table[op.me].safe] \in Nat
    BY <2>2, MinesAssumption
  <2>. QED BY <1>8, <2>3, SettleTyped DEF Cashout
<1>9. CASE Cancel \/ ExpiresUnderClick
  BY <1>9, RefundTyped DEF Cancel, ExpiresUnderClick
<1>10. CASE Settled
  <2>1. op.pay \in Nat /\ op.pay - Bet \in Int
    BY <1>1, <1>10, OpShape, MinesAssumption DEF Settled
  <2>. QED BY <1>10, <2>1, CloseTyped DEF Settled, Kinds
<1>11. CASE ClickCommit
  <2>1. op.me \in Users /\ op.mine \in Nat /\ op.pay \in Nat /\ op.net \in Int
    BY <1>1, <1>11, OpShape DEF ClickCommit, Kinds
  <2>2. cash' \in [Users -> Nat]
    BY <1>1, <1>11, <2>1 DEF ClickCommit, TypeOK
  <2>3. casinoTp' \in [Tracked -> Int]
    BY <1>1, <1>11, <2>1 DEF ClickCommit, TypeOK
  <2>. QED BY <1>11, <2>2, <2>3, NoneIsIdle DEF TypeInv, TypeOK, ClickCommit, dict, bounds
<1>12. CASE SweepBegin
  <2>1. DueTables \in SUBSET Users /\ order \in Seq(Users)
    BY <1>1 DEF DueTables, TypeOK
  <2>2. Off.refunds \in [Users -> Nat \cup {NULL}]
    BY DEF Off
  <2>3. job' \in Jobs /\ job'.held = NULL
    BY <1>12, <2>1, <2>2, ResumeTyped DEF SweepBegin
  <2>4. overlap' \in BOOLEAN
    BY <1>1, <1>12 DEF SweepBegin
  <2>. QED BY <1>12, <2>3, <2>4 DEF SweepBegin, TypeInv, TypeOK, rows, dict, bounds
<1>13. CASE SweepRead
  <2>1. job.at \in Users /\ cash[job.at] \in Nat
    BY <1>1, <1>13, JobShape DEF SweepRead, TypeOK
  <2>2. job' \in Jobs /\ job'.at # NULL
    BY <1>1, <1>13, <2>1, JobShape DEF SweepRead, Jobs, TypeOK
  <2>. QED BY <1>13, <2>2 DEF SweepRead, TypeInv, TypeOK, rows, dict, bounds
<1>14. CASE SweepRefund
  <2>1. CASE table[job.at] = NULL
    <3>1. job' = Off /\ UNCHANGED dict
      BY <1>14, <2>1 DEF SweepRefund
    <3>. QED BY <1>14, <3>1, NoneIsIdle DEF SweepRefund, TypeInv, TypeOK, rows, dict, bounds
  <2>2. CASE table[job.at] # NULL
    <3>. DEFINE refunds == [job.refunds EXCEPT ![job.at] = job.held + Bet]
    <3>1. Popped(job.at) /\ job' = Resume(job.todo, job.due, table', refunds)
      BY <1>14, <2>2 DEF SweepRefund
    <3>2. job.at \in Users /\ job.held \in Nat
      BY <1>1, <1>14, JobShape DEF SweepRefund, TypeInv
    <3>3. refunds \in [Users -> Nat \cup {NULL}]
      BY <1>1, <3>2, JobShape
    <3>. HIDE DEF refunds
    <3>4. job' \in Jobs /\ job'.held = NULL
      BY <1>1, <3>1, <3>3, JobShape, ResumeTyped
    <3>5. (table \in [Users -> Table \cup {NULL}] /\ order \in Seq(Users))'
      BY <1>1, <3>1, <3>2, PoppedTyped
    <3>. QED BY <1>14, <3>4, <3>5 DEF SweepRefund, TypeInv, TypeOK, rows, bounds
  <2>. QED BY <2>1, <2>2
<1>15. CASE SweepCommit
  <2>1. cash' \in [Users -> Nat]
    BY <1>1, <1>15, JobShape DEF SweepCommit, TypeOK
  <2>. QED BY <1>15, <2>1, NoneIsIdle DEF SweepCommit, TypeInv, TypeOK, dict, bounds
<1>16. CASE \E u \in Users : Expire(u)
  <2>1. PICK u \in Users : Expire(u)
    BY <1>16
  <2>2. [table[u] EXCEPT !.expired = TRUE] \in Table
    BY <1>1, <2>1, PlayingHas DEF Expire, Table
  <2>3. table' \in [Users -> Table \cup {NULL}]
    BY <1>1, <2>1, <2>2 DEF Expire, TypeOK
  <2>. QED BY <2>1, <2>3 DEF Expire, TypeInv, TypeOK, rows, bounds
<1>17. CASE \E u \in Users : CoolDown(u)
  BY <1>17 DEF CoolDown, TypeInv, TypeOK, dict, bounds
<1>18. CASE Crash
  <2>1. (table \in [Users -> Table \cup {NULL}] /\ order \in Seq(Users))' /\ crashes' \in Nat
    BY <1>1, <1>18, EmptySeq DEF Crash, TypeOK
  <2>. QED BY <1>18, <2>1, NoneIsIdle DEF Crash, TypeInv, TypeOK, rows
<1>19. CASE UNCHANGED vars
  BY <1>19 DEF TypeInv, TypeOK, vars, rows, dict, bounds
<1>. QED
  BY <1>2, <1>3, <1>4, <1>5, <1>6, <1>7, <1>8, <1>9, <1>10, <1>11, <1>12, <1>13, <1>14,
     <1>15, <1>16, <1>17, <1>18, <1>19 DEF Next, HandlerStep, JobStep

\* The variables have the types the program gives them, in every state a game
\* can come to.
THEOREM TypeCorrect == Spec => []TypeOK
<1>1. TypeInv => TypeOK
  BY DEF TypeInv
<1>. QED BY TypeInit, TypeStep, <1>1, PTL DEF Spec

-----------------------------------------------------------------------------
(* The dict: one key for every table.                                      *)

Keys == Distinct(order) /\ \A u \in Users : table[u] # NULL <=> Has(order, u)

LEMMA AppendIs ==
  ASSUME NEW s \in Seq(Users), NEW u \in Users
  PROVE  LET a == Append(s, u)
         IN  /\ \A v : Has(a, v) <=> v = u \/ Has(s, v)
             /\ Distinct(s) /\ ~Has(s, u) => Distinct(a)
<1>. DEFINE a == Append(s, u)
            n == Len(s)
<1>1. n \in Nat /\ DOMAIN s = 1 .. n
  BY SequenceFacts
<1>2. a \in Seq(Users) /\ Len(a) = n + 1 /\ a[n + 1] = u /\ \A i \in 1 .. n : a[i] = s[i]
  BY AppendProperties
<1>3. DOMAIN a = 1 .. n + 1
  BY <1>2, SequenceFacts
<1>. HIDE DEF a, n
<1>4. ASSUME NEW v PROVE Has(a, v) <=> v = u \/ Has(s, v)
  <2>1. ASSUME Has(a, v) PROVE v = u \/ Has(s, v)
    <3>1. PICK i \in 1 .. n + 1 : a[i] = v
      BY <1>3, <2>1 DEF Has
    <3>2. i = n + 1 \/ i \in 1 .. n
      BY <1>1
    <3>. QED BY <1>1, <1>2, <3>1, <3>2 DEF Has
  <2>2. ASSUME v = u PROVE Has(a, v)
    <3>1. n + 1 \in 1 .. n + 1
      BY <1>1
    <3>. QED BY <1>2, <1>3, <2>2, <3>1 DEF Has
  <2>3. ASSUME Has(s, v) PROVE Has(a, v)
    <3>1. PICK i \in 1 .. n : s[i] = v
      BY <1>1, <2>3 DEF Has
    <3>2. i \in 1 .. n + 1
      BY <1>1
    <3>. QED BY <1>2, <1>3, <3>1, <3>2 DEF Has
  <2>. QED BY <2>1, <2>2, <2>3
<1>5. ASSUME Distinct(s), ~Has(s, u) PROVE Distinct(a)
  <2>1. \A i, j \in 1 .. n : s[i] = s[j] => i = j
    BY <1>1, <1>5 DEF Distinct
  <2>2. \A i \in 1 .. n : s[i] # u
    BY <1>1, <1>5 DEF Has
  <2>3. \A i \in 1 .. n + 1 : i = n + 1 \/ i \in 1 .. n
    BY <1>1
  <2>. QED BY <1>2, <1>3, <2>1, <2>2, <2>3 DEF Distinct
<1>. QED BY <1>4, <1>5 DEF a

LEMMA PoppedKeys ==
  ASSUME TypeOK, Keys, NEW u \in Users, Popped(u)
  PROVE  Keys' /\ table'[u] = NULL /\ \A v \in Users \ {u} : table'[v] = table[v]
<1>1. order \in Seq(Users) /\ table \in [Users -> Table \cup {NULL}]
  BY DEF TypeOK
<1>2. order' = Without(order, u) /\ table' = [table EXCEPT ![u] = NULL]
  BY DEF Popped
<1>3. Distinct(order) /\ \A v \in Users : table[v] # NULL <=> Has(order, v)
  BY DEF Keys
<1>4. Distinct(order') /\ \A v : Has(order', v) <=> v # u /\ Has(order, v)
  BY <1>1, <1>2, <1>3, WithoutIs
<1>5. table'[u] = NULL /\ \A v \in Users \ {u} : table'[v] = table[v]
  BY <1>1, <1>2
<1>6. \A v \in Users : table'[v] # NULL <=> Has(order', v)
  BY <1>3, <1>4, <1>5
<1>. QED BY <1>4, <1>5, <1>6 DEF Keys

\* What a handler does that closes a table, or only begins to.
Closes == PickMine \/ Cashout \/ Cancel \/ ExpiresUnderClick \/ Settled
          \/ (PickSafe /\ table[op.me].safe + 1 = SafeTiles)

LEMMA ClosesIs ==
  ASSUME TypeInv, Closes
  PROVE  /\ op.kind \in {"click", "settling"}
         /\ op.kind = "click" => table[op.me] # NULL
         /\ UNCHANGED <<rows, job, overlap, bounds>>
         /\ \/ /\ UNCHANGED dict /\ op.kind = "click"
               /\ \E pay : op' = [kind |-> "settling", me |-> op.me, mine |-> op.mine, pay |-> pay]
            \/ /\ Popped(op.me)
               /\ \E pay \in Nat : op' = Closing(pay, pay - Bet)
<1>1. TypeOK /\ Bet \in Nat /\ Bet - Bet = 0
  BY MinesAssumption DEF TypeInv
<1>. DEFINE Goal ==
       /\ UNCHANGED <<rows, job, overlap, bounds>>
       /\ \/ /\ UNCHANGED dict /\ op.kind = "click"
             /\ \E pay : op' = [kind |-> "settling", me |-> op.me, mine |-> op.mine, pay |-> pay]
          \/ /\ Popped(op.me)
             /\ \E pay \in Nat : op' = Closing(pay, pay - Bet)
<1>2. ASSUME NEW pay \in Nat, Settle(pay), op.kind = "click" PROVE Goal
  <2>1. UNCHANGED <<rows, job, overlap, bounds>>
    BY <1>2 DEF Settle
  <2>2. \/ UNCHANGED dict /\ op' = [kind |-> "settling", me |-> op.me, mine |-> op.mine, pay |-> pay]
        \/ Popped(op.me) /\ op' = Closing(pay, pay - Bet)
    BY <1>2 DEF Settle
  <2>. QED BY <1>2, <2>1, <2>2
<1>3. CASE PickMine
  BY <1>2, <1>3 DEF PickMine, Playing
<1>4. CASE PickSafe /\ table[op.me].safe + 1 = SafeTiles
  <2>1. op.kind = "click" /\ Playing(op.me) /\ Settle(Pay[SafeTiles])
    BY <1>4 DEF PickSafe
  <2>2. Pay[SafeTiles] \in Nat
    BY MinesAssumption
  <2>. QED BY <1>2, <2>1, <2>2 DEF Playing
<1>5. CASE Cashout
  <2>1. op.kind = "click" /\ Playing(op.me) /\ Settle(Pay[table[op.me].safe]) /\ op.me \in Users
    BY <1>1, <1>5, OpShape DEF Cashout, Kinds
  <2>2. table[op.me].safe \in 1 .. SafeTiles
    BY <1>1, <1>5, <2>1, PlayingHas, MinesAssumption DEF Cashout
  <2>3. Pay[table[op.me].safe] \in Nat
    BY <2>2, MinesAssumption
  <2>. QED BY <1>2, <2>1, <2>3 DEF Playing
<1>6. CASE Cancel \/ ExpiresUnderClick
  <2>1. op.kind = "click" /\ Playing(op.me) /\ Refund
    BY <1>6 DEF Cancel, ExpiresUnderClick
  <2>2. Popped(op.me) /\ op' = Closing(Bet, Bet - Bet) /\ UNCHANGED <<rows, job, overlap, bounds>>
    BY <1>1, <2>1 DEF Refund
  <2>. QED BY <1>1, <2>1, <2>2 DEF Playing
<1>7. CASE Settled
  <2>1. op.kind = "settling" /\ op.pay \in Nat
    BY <1>1, <1>7, OpShape DEF Settled
  <2>2. Popped(op.me) /\ op' = Closing(op.pay, op.pay - Bet) /\ UNCHANGED <<rows, job, overlap, bounds>>
    BY <1>7 DEF Settled
  <2>. QED BY <2>1, <2>2
<1>. QED BY <1>3, <1>4, <1>5, <1>6, <1>7 DEF Closes

\* A table of which a field changes is still a table.
LEMMA SameTables ==
  ASSUME TypeInv,
         \/ PickSafe /\ table[op.me].safe + 1 # SafeTiles
         \/ \E u \in Users : Expire(u)
  PROVE  order' = order /\ \A v \in Users : table'[v] = NULL <=> table[v] = NULL
<1>1. TypeOK
  BY DEF TypeInv
<1>2. \E u \in Users, t \in Table : table[u] # NULL /\ table' = [table EXCEPT ![u] = t] /\ order' = order
  <2>1. CASE PickSafe /\ table[op.me].safe + 1 # SafeTiles
    <3>1. op.me \in Users /\ Playing(op.me)
      BY <1>1, <2>1, OpShape DEF PickSafe, Kinds
    <3>2. table[op.me] \in Table /\ table[op.me].safe + 1 \in 0 .. SafeTiles - 1
      BY <1>1, <2>1, <3>1, PlayingHas, MinesAssumption
    <3>. DEFINE t == [table[op.me] EXCEPT !.safe = table[op.me].safe + 1]
    <3>3. t \in Table
      BY <3>2 DEF Table
    <3>4. table' = [table EXCEPT ![op.me] = t] /\ order' = order
      BY <1>1, <2>1 DEF PickSafe
    <3>. QED BY <3>1, <3>3, <3>4 DEF Playing
  <2>2. CASE \E u \in Users : Expire(u)
    <3>1. PICK u \in Users : Expire(u)
      BY <2>2
    <3>. DEFINE t == [table[u] EXCEPT !.expired = TRUE]
    <3>2. t \in Table
      BY <1>1, <3>1, PlayingHas DEF Expire, Table
    <3>3. table' = [table EXCEPT ![u] = t] /\ order' = order
      BY <3>1 DEF Expire
    <3>. QED BY <3>1, <3>2, <3>3 DEF Expire, Playing
  <2>. QED BY <2>1, <2>2
<1>. QED BY <1>1, <1>2, TableAssumption DEF TypeOK

LEMMA ArmKeys ==
  ASSUME TypeInv, Keys, Arm
  PROVE  Keys' /\ table'[op.me] # NULL /\ table[op.me] = NULL
         /\ \A v \in Users \ {op.me} : table'[v] = table[v]
<1>1. TypeOK /\ op.me \in Users /\ order \in Seq(Users) /\ table \in [Users -> Table \cup {NULL}]
  BY OpShape DEF TypeInv, TypeOK, Arm, Kinds
<1>2. table[op.me] = NULL /\ order' = Append(order, op.me)
      /\ table' = [table EXCEPT ![op.me] = [safe |-> 0, expired |-> FALSE]]
  BY DEF Arm, MayArm
<1>3. [safe |-> 0, expired |-> FALSE] # NULL
  <2>1. [safe |-> 0, expired |-> FALSE] \in Table
    BY MinesAssumption DEF Table
  <2>. QED BY <2>1, TableAssumption
<1>4. table'[op.me] # NULL /\ \A v \in Users \ {op.me} : table'[v] = table[v]
  BY <1>1, <1>2, <1>3
<1>5. Distinct(order) /\ \A v \in Users : table[v] # NULL <=> Has(order, v)
  BY DEF Keys
<1>6. ~Has(order, op.me)
  BY <1>1, <1>2, <1>5
<1>7. Distinct(order') /\ \A v : Has(order', v) <=> v = op.me \/ Has(order, v)
  BY <1>1, <1>2, <1>5, <1>6, AppendIs
<1>8. \A v \in Users : table'[v] # NULL <=> Has(order', v)
  BY <1>4, <1>5, <1>7
<1>. QED BY <1>2, <1>4, <1>7, <1>8 DEF Keys

LEMMA KeysInit == Init => Keys
BY EmptySeq DEF Init, Keys, Distinct, Has

LEMMA KeysStep == TypeInv /\ Keys /\ [Next]_vars => Keys'
<1>. SUFFICES ASSUME TypeInv, Keys, [Next]_vars PROVE Keys'
  OBVIOUS
<1>1. TypeOK
  BY DEF TypeInv
<1>2. CASE UNCHANGED dict
  BY <1>2 DEF Keys, dict
<1>3. CASE Arm
  BY <1>3, ArmKeys
<1>4. CASE Closes
  <2>1. op.me \in Users
    BY <1>1, <1>4, ClosesIs, OpShape DEF Kinds
  <2>2. UNCHANGED dict \/ Popped(op.me)
    BY <1>4, ClosesIs
  <2>. QED BY <1>1, <1>2, <2>1, <2>2, PoppedKeys
<1>5. CASE (PickSafe /\ table[op.me].safe + 1 # SafeTiles) \/ \E u \in Users : Expire(u)
  <2>1. order' = order /\ \A v \in Users : table'[v] = NULL <=> table[v] = NULL
    BY <1>5, SameTables
  <2>. QED BY <2>1 DEF Keys
<1>6. CASE SweepRefund
  <2>1. job.at \in Users
    BY <1>1, <1>6, JobShape DEF SweepRefund, TypeInv
  <2>2. UNCHANGED dict \/ Popped(job.at)
    BY <1>6 DEF SweepRefund
  <2>. QED BY <1>1, <1>2, <2>1, <2>2, PoppedKeys
<1>7. CASE Crash
  BY <1>7, EmptySeq DEF Crash, Keys, Distinct, Has
<1>8. Next => \/ UNCHANGED dict \/ Arm \/ Closes \/ SweepRefund \/ Crash
              \/ PickSafe /\ table[op.me].safe + 1 # SafeTiles
              \/ \E u \in Users : Expire(u)
  BY DEF Next, HandlerBegin, HandlerStep, JobStep, Closes, ArmBegin, ClickBegin, Begin, ArmRefused, ArmCommit,
         ClickIgnored, ClickCommit, SweepBegin, SweepRead, SweepCommit, CoolDown
<1>9. vars' = vars => UNCHANGED dict
  BY DEF vars
<1>. QED BY <1>2, <1>3, <1>4, <1>5, <1>6, <1>7, <1>8, <1>9

-----------------------------------------------------------------------------
(* Cash, stakes and results, as long as the sweep has not overlapped a     *)
(* handler.                                                                *)

\* What a player has on the table, or is getting back.
Stake(u) ==
  IF op.kind = "armed" /\ op.me = u THEN 0
  ELSE IF (op.kind = "closing" /\ op.me = u) \/ job.refunds[u] # NULL THEN Bet
  ELSE OnTable(u)

Balance(u) == cash[u] + Stake(u) - casinoTp[u]

\* The sweep has only keys of tables before it, each once.
RunOn(todo, tab) == Distinct(todo) /\ \A i \in DOMAIN todo : tab[todo[i]] # NULL

OneRuns == op = Idle \/ job = Off

HandlerHolds ==
  /\ op # Idle => op.mine = cash[op.me]
  /\ op.kind \in {"armed", "settling"} => table[op.me] # NULL
  /\ op.kind = "closing" => table[op.me] = NULL /\ op.net = op.pay - Bet

SweepHolds ==
  /\ RunOn(job.todo, table)
  /\ job.at # NULL => table[job.at] # NULL /\ ~Has(job.todo, job.at)
  /\ job.held # NULL => job.held = cash[job.at]
  /\ \A u \in Users : job.refunds[u] # NULL => job.refunds[u] = cash[u] + Bet /\ table[u] = NULL

\* Only a restart costs a player anything, and never more than the stake.
Balanced == \A u \in Tracked : Balance(u) <= Cash0 /\ Cash0 - Balance(u) <= crashes * Bet

Alone == OneRuns /\ HandlerHolds /\ SweepHolds /\ Balanced

Inv == TypeInv /\ Keys /\ (~overlap => Alone)

LEMMA OffIs ==
  /\ Off.todo = <<>> /\ Off.due = {} /\ Off.at = NULL /\ Off.held = NULL
  /\ \A u \in Users : Off.refunds[u] = NULL
BY DEF Off

LEMMA NoTodo == \A tab : RunOn(<<>>, tab)
BY EmptySeq DEF RunOn, Distinct

LEMMA OffHolds == job = Off => SweepHolds
BY OffIs, NoTodo DEF SweepHolds

LEMMA ResumeAlone ==
  ASSUME NEW todo \in Seq(Users), NEW due, NEW tab, NEW refunds, RunOn(todo, tab)
  PROVE  LET r == Resume(todo, due, tab, refunds)
         IN  /\ r.refunds = refunds /\ r.held = NULL /\ RunOn(r.todo, tab)
             /\ r.at # NULL => tab[r.at] # NULL /\ ~Has(r.todo, r.at)
<1>. DEFINE r == Resume(todo, due, tab, refunds)
<1>1. \/ r = [Off EXCEPT !.refunds = refunds]
      \/ \E i \in DOMAIN todo :
           /\ tab[todo[i]] # NULL
           /\ r = [todo |-> SubSeq(todo, i + 1, Len(todo)), due |-> due,
                   at |-> todo[i], held |-> NULL, refunds |-> refunds]
  BY ResumeIs DEF RunOn
<1>. HIDE DEF r
<1>2. CASE r = [Off EXCEPT !.refunds = refunds]
  <2>1. r.refunds = refunds /\ r.held = NULL /\ r.todo = <<>> /\ r.at = NULL
    BY <1>2 DEF Off
  <2>. QED BY <2>1, NoTodo DEF r
<1>3. ASSUME NEW i \in DOMAIN todo, tab[todo[i]] # NULL,
             r = [todo |-> SubSeq(todo, i + 1, Len(todo)), due |-> due,
                  at |-> todo[i], held |-> NULL, refunds |-> refunds]
      PROVE  /\ r.refunds = refunds /\ r.held = NULL /\ RunOn(r.todo, tab)
             /\ r.at # NULL => tab[r.at] # NULL /\ ~Has(r.todo, r.at)
  <2>. DEFINE rest == SubSeq(todo, i + 1, Len(todo))
  <2>1. i \in Nat /\ DOMAIN todo = 1 .. Len(todo)
    BY SequenceFacts
  <2>2. rest \in Seq(Users) /\ \A j \in DOMAIN rest : rest[j] = todo[i + j] /\ i + j \in DOMAIN todo
    BY RestIs
  <2>3. DOMAIN rest = 1 .. Len(rest)
    BY <2>2, SequenceFacts
  <2>. HIDE DEF rest
  <2>4. \A j \in DOMAIN rest : j \in Nat /\ j # 0
    BY <2>3
  <2>5. \A j, k \in DOMAIN todo : todo[j] = todo[k] => j = k
    BY DEF RunOn, Distinct
  <2>6. Distinct(rest)
    <3>. SUFFICES ASSUME NEW j \in DOMAIN rest, NEW k \in DOMAIN rest, rest[j] = rest[k] PROVE j = k
      BY DEF Distinct
    <3>1. i + j = i + k
      BY <2>2, <2>5
    <3>. QED BY <2>1, <2>4, <3>1
  <2>7. ~Has(rest, todo[i])
    <3>. SUFFICES ASSUME NEW j \in DOMAIN rest, rest[j] = todo[i] PROVE FALSE
      BY DEF Has
    <3>1. i + j = i
      BY <2>2, <2>5
    <3>. QED BY <2>1, <2>4, <3>1
  <2>8. \A j \in DOMAIN rest : tab[rest[j]] # NULL
    BY <2>2 DEF RunOn
  <2>9. r.refunds = refunds /\ r.held = NULL /\ r.todo = rest /\ r.at = todo[i]
    BY <1>3 DEF rest
  <2>. QED BY <1>3, <2>6, <2>7, <2>8, <2>9 DEF RunOn
<1>. QED BY <1>1, <1>2, <1>3 DEF r

\* If no stake changes without the cash or the result that balances it.
LEMMA BalanceKept ==
  ASSUME Balanced, crashes' = crashes, \A u \in Tracked : Balance(u)' = Balance(u)
  PROVE  Balanced'
BY DEF Balanced

LEMMA RowsAreNumbers ==
  ASSUME TypeOK, NEW u \in Tracked
  PROVE  u \in Users /\ cash[u] \in Nat /\ casinoTp[u] \in Int /\ Bet \in Nat /\ Bet # 0
BY MinesAssumption DEF TypeOK

LEMMA AloneInit == Init => Alone
<1>. SUFFICES ASSUME Init PROVE Alone
  OBVIOUS
<1>1. op = Idle /\ job = Off
  BY DEF Init
<1>2. HandlerHolds
  BY <1>1, NoneIsIdle DEF HandlerHolds
<1>3. ASSUME NEW u \in Tracked PROVE Balance(u) = Cash0
  <2>1. u \in Users /\ cash[u] = Cash0 /\ casinoTp[u] = 0 /\ table[u] = NULL /\ Cash0 \in Nat
    BY <1>3, MinesAssumption DEF Init
  <2>2. Stake(u) = 0
    BY <1>1, <2>1, NoneIsIdle, OffIs DEF Stake, OnTable
  <2>. QED BY <2>1, <2>2 DEF Balance
<1>4. Balanced
  <2>1. crashes = 0 /\ Cash0 \in Nat /\ Bet \in Nat
    BY MinesAssumption DEF Init
  <2>2. crashes * Bet = 0
    BY <2>1
  <2>. QED BY <1>3, <2>1, <2>2 DEF Balanced
<1>. QED BY <1>1, <1>2, <1>4, OffHolds DEF Alone, OneRuns

-----------------------------------------------------------------------------
(* A handler's steps: the sweep is off, before and after.                  *)

LEMMA HandlerKeeps ==
  ASSUME job' = Off, HandlerHolds', Balanced, crashes' = crashes,
         \A u \in Tracked : Balance(u)' = Balance(u)
  PROVE  Alone'
<1>1. OneRuns'
  BY DEF OneRuns
<1>2. SweepHolds'
  BY OffIs, NoTodo DEF SweepHolds
<1>3. Balanced'
  BY BalanceKept
<1>. QED BY <1>1, <1>2, <1>3 DEF Alone

\* With the sweep off, a stake is the table's or the handler's.
LEMMA StakeWhenOff ==
  ASSUME job = Off
  PROVE  \A u \in Users : Stake(u) = IF op.kind = "armed" /\ op.me = u THEN 0
                                    ELSE IF op.kind = "closing" /\ op.me = u THEN Bet
                                    ELSE OnTable(u)
BY OffIs DEF Stake

LEMMA StakeWhenOffNext ==
  ASSUME job' = Off
  PROVE  \A u \in Users : Stake(u)' = IF op'.kind = "armed" /\ op'.me = u THEN 0
                                     ELSE IF op'.kind = "closing" /\ op'.me = u THEN Bet
                                     ELSE OnTable(u)'
BY OffIs DEF Stake

LEMMA BeginAlone ==
  ASSUME TypeInv, Alone, HandlerBegin, ~overlap'
  PROVE  Alone'
<1>1. PICK u \in Users : ArmBegin(u) \/ ClickBegin(u)
  BY DEF HandlerBegin
<1>2. job = Off /\ job' = Off /\ op = Idle /\ UNCHANGED <<rows, dict, bounds>>
  BY <1>1 DEF ArmBegin, ClickBegin, Begin
<1>3. op'.kind \in {"arm", "click"} /\ op'.me = u /\ op'.mine = cash[u]
  BY <1>1 DEF ArmBegin, ClickBegin, Begin
<1>4. HandlerHolds'
  BY <1>2, <1>3 DEF HandlerHolds, rows
<1>5. ASSUME NEW v \in Tracked PROVE Balance(v)' = Balance(v)
  <2>1. Stake(v) = OnTable(v) /\ Stake(v)' = OnTable(v)'
    BY <1>2, <1>3, StakeWhenOff, StakeWhenOffNext, NoneIsIdle, MinesAssumption
  <2>. QED BY <1>2, <2>1 DEF Balance, OnTable, rows, dict
<1>. QED BY <1>2, <1>4, <1>5, HandlerKeeps DEF Alone, bounds

LEMMA ArmAlone ==
  ASSUME TypeInv, Keys, Alone, Arm
  PROVE  Alone'
<1>1. TypeOK /\ op # Idle /\ op.me \in Users
  BY NoneIsIdle, OpShape DEF Arm, TypeInv, Kinds
<1>2. job = Off /\ op.mine = cash[op.me]
  BY <1>1 DEF Alone, OneRuns, HandlerHolds
<1>3. job' = Off
  <2>1. job' = [Off EXCEPT !.due = Off.due \ {op.me}]
    BY <1>2 DEF Arm
  <2>. QED BY <2>1 DEF Off
<1>4. op' = [kind |-> "armed", me |-> op.me, mine |-> op.mine] /\ UNCHANGED <<rows, crashes>>
  BY DEF Arm
<1>5. table'[op.me] # NULL /\ table[op.me] = NULL /\ \A v \in Users \ {op.me} : table'[v] = table[v]
  BY ArmKeys
<1>6. HandlerHolds'
  BY <1>2, <1>4, <1>5, NoneIsIdle DEF HandlerHolds, rows
<1>7. ASSUME NEW v \in Tracked PROVE Balance(v)' = Balance(v)
  <2>1. v \in Users /\ op.kind = "arm" /\ op'.kind = "armed" /\ op'.me = op.me
    BY <1>4, MinesAssumption DEF Arm
  <2>2. Stake(v) = OnTable(v) /\ Stake(v)' = IF op.me = v THEN 0 ELSE OnTable(v)'
    BY <1>2, <1>3, <2>1, StakeWhenOff, StakeWhenOffNext
  <2>. QED BY <1>4, <1>5, <2>1, <2>2 DEF Balance, OnTable, rows
<1>. QED BY <1>3, <1>4, <1>6, <1>7, HandlerKeeps DEF Alone

\* The handler ends and has changed at most what is on a table.
LEMMA EndsAlone ==
  ASSUME TypeInv, Alone, op.kind \in {"arm", "click"}, Ends,
         \A v \in Users : table'[v] = NULL <=> table[v] = NULL
  PROVE  Alone'
<1>1. job = Off /\ job' = Off /\ op' = Idle /\ UNCHANGED <<rows, bounds>>
  BY NoneIsIdle DEF Alone, OneRuns, Ends
<1>2. HandlerHolds'
  BY <1>1, NoneIsIdle DEF HandlerHolds
<1>3. ASSUME NEW v \in Tracked PROVE Balance(v)' = Balance(v)
  <2>1. Stake(v) = OnTable(v) /\ Stake(v)' = OnTable(v)'
    BY <1>1, StakeWhenOff, StakeWhenOffNext, NoneIsIdle, MinesAssumption
  <2>2. OnTable(v)' = OnTable(v)
    BY MinesAssumption DEF OnTable
  <2>. QED BY <1>1, <2>1, <2>2 DEF Balance, rows
<1>. QED BY <1>1, <1>2, <1>3, HandlerKeeps DEF Alone, bounds

LEMMA ArmCommitAlone ==
  ASSUME TypeInv, Alone, ArmCommit
  PROVE  Alone'
<1>1. TypeOK /\ op # Idle /\ op.kind = "armed" /\ op.me \in Users
  BY NoneIsIdle, OpShape DEF ArmCommit, TypeInv, Kinds
<1>2. job = Off /\ job' = Off /\ op.mine = cash[op.me] /\ table[op.me] # NULL
  BY <1>1 DEF Alone, OneRuns, HandlerHolds, ArmCommit
<1>3. op' = Idle /\ cash' = [cash EXCEPT ![op.me] = cash[op.me] - Bet] /\ UNCHANGED <<casinoTp, dict, bounds>>
  BY <1>2 DEF ArmCommit
<1>4. HandlerHolds'
  BY <1>3, NoneIsIdle DEF HandlerHolds
<1>5. ASSUME NEW v \in Tracked PROVE Balance(v)' = Balance(v)
  <2>1. v \in Users /\ cash[v] \in Nat /\ casinoTp[v] \in Int /\ Bet \in Nat
    BY <1>1, RowsAreNumbers
  <2>2. OnTable(v)' = OnTable(v) /\ casinoTp'[v] = casinoTp[v]
    BY <1>3 DEF OnTable, dict
  <2>3. Stake(v) = (IF op.me = v THEN 0 ELSE OnTable(v)) /\ Stake(v)' = OnTable(v)'
    BY <1>1, <1>2, <1>3, <2>1, StakeWhenOff, StakeWhenOffNext, NoneIsIdle
  <2>4. cash'[v] = IF op.me = v THEN cash[v] - Bet ELSE cash[v]
    BY <1>1, <1>3, <2>1 DEF TypeOK
  <2>5. OnTable(v) \in Nat /\ (op.me = v => OnTable(v) = Bet)
    BY <1>2, <2>1 DEF OnTable
  <2>. QED BY <2>1, <2>2, <2>3, <2>4, <2>5 DEF Balance
<1>. QED BY <1>2, <1>3, <1>4, <1>5, HandlerKeeps DEF Alone, bounds

LEMMA ClosesAlone ==
  ASSUME TypeInv, Keys, Alone, Closes
  PROVE  Alone'
<1>1. /\ op.kind \in {"click", "settling"}
      /\ op.kind = "click" => table[op.me] # NULL
      /\ UNCHANGED <<rows, job, overlap, bounds>>
      /\ \/ /\ UNCHANGED dict /\ op.kind = "click"
            /\ \E pay : op' = [kind |-> "settling", me |-> op.me, mine |-> op.mine, pay |-> pay]
         \/ /\ Popped(op.me)
            /\ \E pay \in Nat : op' = Closing(pay, pay - Bet)
  BY ClosesIs
<1>2. TypeOK /\ op # Idle /\ op.me \in Users
  BY <1>1, NoneIsIdle, OpShape DEF TypeInv, Kinds
<1>3. job = Off /\ job' = Off /\ op.mine = cash[op.me] /\ table[op.me] # NULL
  BY <1>1, <1>2 DEF Alone, OneRuns, HandlerHolds
<1>4. CASE UNCHANGED dict /\ \E pay : op' = [kind |-> "settling", me |-> op.me, mine |-> op.mine, pay |-> pay]
  <2>1. op'.kind = "settling" /\ op'.me = op.me /\ op'.mine = op.mine
    BY <1>4
  <2>2. HandlerHolds'
    BY <1>1, <1>3, <1>4, <2>1 DEF HandlerHolds, rows, dict
  <2>3. ASSUME NEW v \in Tracked PROVE Balance(v)' = Balance(v)
    <3>1. Stake(v) = OnTable(v) /\ Stake(v)' = OnTable(v)'
      BY <1>1, <1>3, <2>1, StakeWhenOff, StakeWhenOffNext, MinesAssumption
    <3>. QED BY <1>1, <1>4, <3>1 DEF Balance, OnTable, rows, dict
  <2>. QED BY <1>1, <1>3, <2>2, <2>3, HandlerKeeps DEF Alone, bounds
<1>5. CASE Popped(op.me) /\ \E pay \in Nat : op' = Closing(pay, pay - Bet)
  <2>1. op'.kind = "closing" /\ op'.me = op.me /\ op'.mine = op.mine /\ op'.net = op'.pay - Bet
    BY <1>5 DEF Closing
  <2>2. table'[op.me] = NULL /\ \A v \in Users \ {op.me} : table'[v] = table[v]
    BY <1>2, <1>5, PoppedKeys
  <2>3. HandlerHolds'
    BY <1>1, <1>3, <2>1, <2>2 DEF HandlerHolds, rows
  <2>4. ASSUME NEW v \in Tracked PROVE Balance(v)' = Balance(v)
    <3>1. v \in Users
      BY MinesAssumption
    <3>2. Stake(v) = OnTable(v) /\ Stake(v)' = IF op.me = v THEN Bet ELSE OnTable(v)'
      BY <1>1, <1>3, <2>1, <3>1, StakeWhenOff, StakeWhenOffNext
    <3>. QED BY <1>1, <1>3, <2>2, <3>1, <3>2 DEF Balance, OnTable, rows
  <2>. QED BY <1>1, <1>3, <2>3, <2>4, HandlerKeeps DEF Alone, bounds
<1>. QED BY <1>1, <1>4, <1>5

LEMMA ClickCommitAlone ==
  ASSUME TypeInv, Alone, ClickCommit
  PROVE  Alone'
<1>1. TypeOK /\ op # Idle /\ op.kind = "closing" /\ op.me \in Users /\ op.pay \in Nat
  BY NoneIsIdle, OpShape DEF ClickCommit, TypeInv, Kinds
<1>2. job = Off /\ job' = Off /\ op.mine = cash[op.me] /\ table[op.me] = NULL /\ op.net = op.pay - Bet
  BY <1>1 DEF Alone, OneRuns, HandlerHolds, ClickCommit
<1>3. op' = Idle /\ UNCHANGED <<dict, bounds>>
      /\ cash' = (IF op.pay = 0 THEN cash ELSE [cash EXCEPT ![op.me] = cash[op.me] + op.pay])
      /\ casinoTp' = [u \in Tracked |-> casinoTp[u] + IF u = op.me THEN op.net ELSE 0]
  BY <1>2 DEF ClickCommit
<1>4. HandlerHolds'
  BY <1>3, NoneIsIdle DEF HandlerHolds
<1>5. ASSUME NEW v \in Tracked PROVE Balance(v)' = Balance(v)
  <2>1. v \in Users /\ cash[v] \in Nat /\ casinoTp[v] \in Int /\ Bet \in Nat
    BY <1>1, RowsAreNumbers
  <2>2. OnTable(v)' = OnTable(v) /\ OnTable(v) \in Nat /\ (op.me = v => OnTable(v) = 0)
    BY <1>2, <1>3, <2>1 DEF OnTable, dict
  <2>3. Stake(v) = (IF op.me = v THEN Bet ELSE OnTable(v)) /\ Stake(v)' = OnTable(v)'
    BY <1>1, <1>2, <1>3, <2>1, StakeWhenOff, StakeWhenOffNext, NoneIsIdle
  <2>4. cash'[v] = IF op.me = v THEN cash[v] + op.pay ELSE cash[v]
    BY <1>1, <1>3, <2>1 DEF TypeOK
  <2>5. casinoTp'[v] = IF op.me = v THEN casinoTp[v] + (op.pay - Bet) ELSE casinoTp[v]
    BY <1>2, <1>3, <2>1
  <2>. QED BY <1>1, <2>1, <2>2, <2>3, <2>4, <2>5 DEF Balance
<1>. QED BY <1>2, <1>3, <1>4, <1>5, HandlerKeeps DEF Alone, bounds

-----------------------------------------------------------------------------
(* The sweep's steps: no handler runs, before and after.                   *)

LEMMA SweepKeeps ==
  ASSUME op' = Idle, SweepHolds', Balanced, crashes' = crashes,
         \A u \in Tracked : Balance(u)' = Balance(u)
  PROVE  Alone'
<1>1. OneRuns' /\ HandlerHolds'
  BY NoneIsIdle DEF OneRuns, HandlerHolds
<1>2. Balanced'
  BY BalanceKept
<1>. QED BY <1>1, <1>2 DEF Alone

LEMMA StakeWhenIdle ==
  ASSUME op = Idle
  PROVE  \A u \in Users : Stake(u) = IF job.refunds[u] # NULL THEN Bet ELSE OnTable(u)
BY NoneIsIdle DEF Stake

LEMMA StakeWhenIdleNext ==
  ASSUME op' = Idle
  PROVE  \A u \in Users : Stake(u)' = IF job'.refunds[u] # NULL THEN Bet ELSE OnTable(u)'
BY NoneIsIdle DEF Stake

LEMMA SweepBeginAlone ==
  ASSUME TypeInv, Keys, Alone, SweepBegin, ~overlap'
  PROVE  Alone'
<1>1. op = Idle /\ op' = Idle /\ job = Off /\ UNCHANGED <<rows, dict, bounds>>
      /\ job' = Resume(order, DueTables, table, Off.refunds)
  BY DEF SweepBegin
<1>2. order \in Seq(Users) /\ RunOn(order, table)
  <2>1. order \in Seq(Users) /\ \A i \in DOMAIN order : order[i] \in Users
    BY SequenceFacts DEF TypeInv, TypeOK
  <2>. QED BY <2>1 DEF Keys, RunOn, Has
<1>3. /\ job'.refunds = Off.refunds /\ job'.held = NULL /\ RunOn(job'.todo, table)
      /\ job'.at # NULL => table[job'.at] # NULL /\ ~Has(job'.todo, job'.at)
  BY <1>1, <1>2, ResumeAlone
<1>4. SweepHolds'
  BY <1>1, <1>3, OffIs DEF SweepHolds, dict
<1>5. ASSUME NEW v \in Tracked PROVE Balance(v)' = Balance(v)
  <2>1. v \in Users
    BY MinesAssumption
  <2>2. Stake(v) = OnTable(v) /\ Stake(v)' = OnTable(v)'
    BY <1>1, <1>3, <2>1, OffIs, StakeWhenIdle, StakeWhenIdleNext
  <2>. QED BY <1>1, <2>2 DEF Balance, OnTable, rows, dict
<1>. QED BY <1>1, <1>4, <1>5, SweepKeeps DEF Alone, bounds

LEMMA SweepReadAlone ==
  ASSUME TypeInv, Alone, SweepRead
  PROVE  Alone'
<1>1. job.at # NULL /\ op = Idle /\ op' = Idle /\ UNCHANGED <<rows, dict, bounds>>
  BY OffIs DEF SweepRead, Alone, OneRuns
<1>2. job'.todo = job.todo /\ job'.at = job.at /\ job'.held = cash[job.at] /\ job'.refunds = job.refunds
  BY DEF SweepRead, TypeInv, TypeOK, Jobs
<1>3. SweepHolds'
  BY <1>1, <1>2 DEF SweepHolds, Alone, rows, dict
<1>4. ASSUME NEW v \in Tracked PROVE Balance(v)' = Balance(v)
  <2>1. v \in Users
    BY MinesAssumption
  <2>2. Stake(v)' = Stake(v)
    BY <1>1, <1>2, <2>1, StakeWhenIdle, StakeWhenIdleNext DEF OnTable, dict
  <2>. QED BY <1>1, <2>2 DEF Balance, rows
<1>. QED BY <1>1, <1>3, <1>4, SweepKeeps DEF Alone, bounds

LEMMA SweepRefundAlone ==
  ASSUME TypeInv, Keys, Alone, SweepRefund
  PROVE  Alone'
<1>. DEFINE u == job.at
            refunds == [job.refunds EXCEPT ![u] = job.held + Bet]
<1>1. TypeOK /\ u \in Users /\ job.held \in Nat
  BY JobShape DEF SweepRefund, TypeInv
<1>2. op = Idle /\ op' = Idle /\ UNCHANGED <<rows, bounds>> /\ job.held = cash[u]
      /\ table[u] # NULL /\ ~Has(job.todo, u) /\ RunOn(job.todo, table)
      /\ \A v \in Users : job.refunds[v] # NULL => job.refunds[v] = cash[v] + Bet /\ table[v] = NULL
  BY <1>1, OffIs, MinesAssumption DEF SweepRefund, Alone, OneRuns, SweepHolds
<1>3. Popped(u) /\ job' = Resume(job.todo, job.due, table', refunds)
  BY <1>2 DEF SweepRefund
<1>4. table'[u] = NULL /\ \A v \in Users \ {u} : table'[v] = table[v]
  BY <1>1, <1>3, PoppedKeys
<1>5. job.todo \in Seq(Users) /\ job.refunds \in [Users -> Nat \cup {NULL}]
  BY <1>1, JobShape
<1>6. refunds[u] = cash[u] + Bet /\ \A v \in Users \ {u} : refunds[v] = job.refunds[v]
  BY <1>1, <1>2, <1>5
<1>. HIDE DEF u, refunds
<1>7. RunOn(job.todo, table')
  <2>1. \A i \in DOMAIN job.todo : job.todo[i] \in Users
    BY <1>5, SequenceFacts
  <2>. QED BY <1>2, <1>4, <2>1 DEF RunOn, Has
<1>8. /\ job'.refunds = refunds /\ job'.held = NULL /\ RunOn(job'.todo, table')
      /\ job'.at # NULL => table'[job'.at] # NULL /\ ~Has(job'.todo, job'.at)
  BY <1>3, <1>5, <1>7, ResumeAlone
<1>9. SweepHolds'
  BY <1>1, <1>2, <1>4, <1>6, <1>8 DEF SweepHolds, rows
<1>10. ASSUME NEW v \in Tracked PROVE Balance(v)' = Balance(v)
  <2>1. v \in Users /\ cash[v] + Bet # NULL
    BY <1>1, RowsAreNumbers, MinesAssumption
  <2>2. Stake(v) = (IF job.refunds[v] # NULL THEN Bet ELSE OnTable(v))
        /\ Stake(v)' = (IF refunds[v] # NULL THEN Bet ELSE OnTable(v)')
    BY <1>2, <1>8, <2>1, StakeWhenIdle, StakeWhenIdleNext
  <2>3. Stake(v)' = Stake(v)
    BY <1>2, <1>4, <1>6, <2>1, <2>2 DEF OnTable
  <2>. QED BY <1>2, <2>3 DEF Balance, rows
<1>. QED BY <1>2, <1>9, <1>10, SweepKeeps DEF Alone, bounds

LEMMA SweepCommitAlone ==
  ASSUME TypeInv, Alone, SweepCommit
  PROVE  Alone'
<1>1. op = Idle /\ op' = Idle /\ job' = Off /\ UNCHANGED <<casinoTp, dict, bounds>>
      /\ cash' = [v \in Users |-> IF job.refunds[v] # NULL THEN job.refunds[v] ELSE cash[v]]
  BY DEF SweepCommit, Alone, OneRuns
<1>2. \A v \in Users : job.refunds[v] # NULL => job.refunds[v] = cash[v] + Bet /\ table[v] = NULL
  BY DEF Alone, SweepHolds
<1>3. SweepHolds'
  BY <1>1, OffIs, NoTodo DEF SweepHolds
<1>4. ASSUME NEW v \in Tracked PROVE Balance(v)' = Balance(v)
  <2>1. v \in Users /\ cash[v] \in Nat /\ casinoTp[v] \in Int /\ Bet \in Nat
    BY RowsAreNumbers DEF TypeInv
  <2>2. OnTable(v)' = OnTable(v) /\ OnTable(v) \in Nat /\ (job.refunds[v] # NULL => OnTable(v) = 0)
    BY <1>1, <1>2, <2>1 DEF OnTable, dict
  <2>3. Stake(v) = (IF job.refunds[v] # NULL THEN Bet ELSE OnTable(v)) /\ Stake(v)' = OnTable(v)'
    BY <1>1, <2>1, OffIs, StakeWhenIdle, StakeWhenIdleNext
  <2>4. cash'[v] = IF job.refunds[v] # NULL THEN cash[v] + Bet ELSE cash[v]
    BY <1>1, <1>2, <2>1
  <2>. QED BY <1>1, <2>1, <2>2, <2>3, <2>4 DEF Balance
<1>. QED BY <1>1, <1>3, <1>4, SweepKeeps DEF Alone, bounds

-----------------------------------------------------------------------------
(* The other steps.                                                        *)

LEMMA ExpireAlone ==
  ASSUME TypeInv, Alone, \E u \in Users : Expire(u)
  PROVE  Alone'
<1>1. UNCHANGED <<rows, op, job, bounds>>
  BY DEF Expire
<1>2. \A v \in Users : table'[v] = NULL <=> table[v] = NULL
  BY SameTables
<1>3. TypeOK
  BY DEF TypeInv
<1>4. HandlerHolds'
  BY <1>1, <1>2, <1>3, OpShape DEF HandlerHolds, Alone, rows, Kinds
<1>5. SweepHolds'
  <2>1. \A i \in DOMAIN job.todo : job.todo[i] \in Users
    BY <1>3, JobShape, SequenceFacts
  <2>2. job.at \in Users \cup {NULL}
    BY <1>3, JobShape
  <2>. QED BY <1>1, <1>2, <2>1, <2>2 DEF SweepHolds, RunOn, Alone, rows
<1>6. ASSUME NEW v \in Tracked PROVE Balance(v)' = Balance(v)
  <2>1. OnTable(v)' = OnTable(v)
    BY <1>2, MinesAssumption DEF OnTable
  <2>. QED BY <1>1, <2>1 DEF Balance, Stake, rows
<1>7. Balanced'
  BY <1>1, <1>6, BalanceKept DEF Alone, bounds
<1>. QED BY <1>1, <1>4, <1>5, <1>7 DEF Alone, OneRuns

LEMMA CrashAlone ==
  ASSUME TypeInv, Alone, Crash
  PROVE  Alone'
<1>1. op' = Idle /\ job' = Off /\ UNCHANGED rows /\ crashes' = crashes + 1
      /\ table' = [u \in Users |-> NULL]
  BY DEF Crash
<1>2. HandlerHolds' /\ OneRuns' /\ SweepHolds'
  BY <1>1, NoneIsIdle, OffIs, NoTodo DEF HandlerHolds, OneRuns, SweepHolds
<1>3. Balanced'
  <2>. SUFFICES ASSUME NEW v \in Tracked
                PROVE  (Balance(v) <= Cash0 /\ Cash0 - Balance(v) <= crashes * Bet)'
    BY DEF Balanced
  <2>1. v \in Users /\ cash[v] \in Nat /\ casinoTp[v] \in Int /\ Bet \in Nat
    BY RowsAreNumbers DEF TypeInv
  <2>2. Stake(v)' = 0
    BY <1>1, <2>1, OffIs, StakeWhenIdleNext DEF OnTable
  <2>3. Stake(v) \in {0, Bet}
    BY DEF Stake, OnTable
  <2>4. Balance(v)' = cash[v] - casinoTp[v] /\ Balance(v) = cash[v] + Stake(v) - casinoTp[v]
    BY <1>1, <2>1, <2>2 DEF Balance, rows
  <2>5. Balance(v) <= Cash0 /\ Cash0 - Balance(v) <= crashes * Bet
    BY DEF Alone, Balanced
  <2>6. Cash0 \in Nat /\ crashes \in Nat /\ crashes * Bet \in Nat
        /\ crashes' * Bet = crashes * Bet + Bet
    <3>1. Cash0 \in Nat /\ crashes \in Nat
      BY MinesAssumption DEF TypeInv, TypeOK
    <3>. QED BY <1>1, <2>1, <3>1
  <2>. HIDE DEF Balanced
  <2>. QED BY <2>1, <2>3, <2>4, <2>5, <2>6
<1>. QED BY <1>2, <1>3 DEF Alone

LEMMA AloneStep ==
  ASSUME TypeInv, Keys, ~overlap => Alone, [Next]_vars, ~overlap'
  PROVE  Alone'
<1>1. CASE HandlerBegin
  <2>1. ~overlap
    BY <1>1 DEF HandlerBegin, ArmBegin, ClickBegin, Begin
  <2>. QED BY <1>1, <2>1, BeginAlone
<1>2. CASE SweepBegin
  <2>1. ~overlap
    BY <1>2 DEF SweepBegin
  <2>. QED BY <1>2, <2>1, SweepBeginAlone
<1>3. CASE ~HandlerBegin /\ ~SweepBegin
  <2>1. overlap' = overlap
    BY <1>3 DEF Next, HandlerStep, JobStep, Arm, ArmRefused, Ends, ArmCommit, ClickIgnored, PickMine, PickSafe,
                Cashout, Cancel, ExpiresUnderClick, Settle, Settled, Refund, ClickCommit, SweepRead,
                SweepRefund, SweepCommit, Expire, CoolDown, Crash, vars
  <2>2. Alone
    BY <2>1
  <2>3. CASE ArmRefused \/ ClickIgnored
    BY <2>2, <2>3, EndsAlone DEF ArmRefused, ClickIgnored, dict
  <2>4. CASE PickSafe /\ table[op.me].safe + 1 # SafeTiles
    <3>1. \A v \in Users : table'[v] = NULL <=> table[v] = NULL
      BY <2>4, SameTables
    <3>2. op.kind = "click" /\ Ends
      BY <2>4 DEF PickSafe
    <3>. QED BY <2>2, <3>1, <3>2, EndsAlone
  <2>5. CASE \E u \in Users : CoolDown(u)
    BY <2>2, <2>5 DEF CoolDown, Alone, OneRuns, HandlerHolds, SweepHolds, Balanced, Balance, Stake, OnTable,
                      dict, bounds
  <2>6. CASE UNCHANGED vars
    BY <2>2, <2>6 DEF vars, rows, Alone, OneRuns, HandlerHolds, SweepHolds, Balanced, Balance, Stake, OnTable,
                      dict, bounds
  <2>7. \/ Arm \/ ArmCommit \/ Closes \/ ClickCommit \/ SweepRead \/ SweepRefund \/ SweepCommit
        \/ \E u \in Users : Expire(u)
        \/ Crash
        \/ ArmRefused \/ ClickIgnored
        \/ PickSafe /\ table[op.me].safe + 1 # SafeTiles
        \/ \E u \in Users : CoolDown(u)
        \/ UNCHANGED vars
    BY <1>3 DEF Next, HandlerStep, JobStep, Closes
  <2>. QED
    BY <2>2, <2>3, <2>4, <2>5, <2>6, <2>7, ArmAlone, ArmCommitAlone, ClosesAlone, ClickCommitAlone,
       SweepReadAlone, SweepRefundAlone, SweepCommitAlone, ExpireAlone, CrashAlone
<1>. QED BY <1>1, <1>2, <1>3

\* The dict has one key for every table and a table for every key, whatever
\* handlers and the sweep do to it in between.
THEOREM KeysAreTables == Spec => []Keys
BY TypeInit, TypeStep, KeysInit, KeysStep, PTL DEF Spec

\* While no sweep has overlapped a handler, a tracked player's cash and stake
\* are what he began with and the results of his hands, but for one stake a
\* restart.
THEOREM CashAlwaysMatches == Spec => []CashMatchesHands
<1>1. Init => Inv
  BY TypeInit, KeysInit, AloneInit DEF Inv
<1>2. Inv /\ [Next]_vars => Inv'
  BY TypeStep, KeysStep, AloneStep DEF Inv
<1>3. Inv => CashMatchesHands
  <2>. SUFFICES ASSUME Inv, Quiet, ~overlap, NEW u \in Tracked
                PROVE  LET before == Cash0 + casinoTp[u]
                           after  == cash[u] + OnTable(u)
                       IN  after <= before /\ before - after <= crashes * Bet
    BY DEF CashMatchesHands
  <2>1. u \in Users /\ cash[u] \in Nat /\ casinoTp[u] \in Int /\ Bet \in Nat /\ Cash0 \in Nat
    BY RowsAreNumbers, MinesAssumption DEF Inv, TypeInv
  <2>2. OnTable(u) \in Nat /\ Stake(u) = OnTable(u)
    BY <2>1, OffIs, StakeWhenIdle DEF Quiet, OnTable
  <2>3. Balance(u) <= Cash0 /\ Cash0 - Balance(u) <= crashes * Bet
    BY DEF Inv, Alone, Balanced
  <2>4. crashes * Bet \in Nat
    BY <2>1 DEF Inv, TypeInv, TypeOK
  <2>. QED BY <2>1, <2>2, <2>3, <2>4 DEF Balance
<1>. QED BY <1>1, <1>2, <1>3, PTL DEF Spec
=============================================================================
