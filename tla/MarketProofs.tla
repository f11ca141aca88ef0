------------------------------ MODULE MarketProofs ------------------------------
(***************************************************************************)
(* Theorems about the player market: types, and that the market neither    *)
(* makes nor loses cash and goods, for any players, items and offers.      *)
(***************************************************************************)
EXTENDS Market, Sums

-----------------------------------------------------------------------------
(* What a handler and a sweep hold.                                        *)

Handlers == {"buyer", "owner", "priced", "refund", "paying", "offering", "counted", "giver", "giving"}

LEMMA OpShape ==
  ASSUME TypeOK
  PROVE  /\ op = Idle \/ op.kind \in Handlers
         /\ op.kind = "idle" <=> op = Idle
         /\ op.kind \in Handlers => op.me \in Users /\ op.mine \in Purse
         /\ op.kind \in {"buyer", "owner", "priced", "refund", "paying"} => op.id \in Ids
         /\ op.kind \in {"priced", "refund", "paying"} => op.row \in Listing
         /\ op.kind \in {"paying", "giving"} => op.theirs \in Purse
         /\ op.kind \in {"offering", "counted"} => op.offer \in Offer
         /\ op.kind \in {"giver", "giving"} => op.qty \in Quantities
         /\ op.kind = "giving" => op.to \in Users
BY DEF TypeOK, Ops, Idle, Handlers

LEMMA OfferShape ==
  /\ \A o \in Offer : o.item \in Items /\ o.qty \in Nat \ {0} /\ o.price \in Nat \ {0}
  /\ \A row \in Listing : row.seller \in Users /\ row.offer \in Offer
  /\ Quantities \subseteq Nat \ {0}
  /\ NULL \notin Listing /\ NULL \notin Purse
  /\ "part" \in Columns /\ "part" \in Items /\ "cash" \in Columns /\ "cash" \notin Items
  /\ Items \subseteq Columns
BY MarketAssumption DEF Offer, Listing, Columns

\* The checks a handler made before it waited still bind what it writes; what
\* is old is on the table; a sweep writes only columns of rows it holds.
ChecksInv ==
  /\ op.kind = "counted" => op.mine[op.offer.item] >= op.offer.qty
  /\ op.kind = "giving" => op.mine["part"] >= op.qty /\ op.to # op.me
  /\ op.kind \in {"priced", "paying"} => op.mine["cash"] >= op.row.offer.price /\ op.row.seller # op.me
OldInv   == old \subseteq Open
SweepInv == \A s \in Sweepers : \A x \in sweep[s].dirty : sweep[s].view[x[1]] # NULL

TypeInv == TypeOK /\ ChecksInv /\ OldInv /\ SweepInv

LEMMA SweepShape ==
  ASSUME TypeOK, NEW s \in Sweepers
  PROVE  /\ sweep[s] \in Sweeps
         /\ sweep[s].todo \subseteq Ids \X Listing
         /\ sweep[s].done \subseteq Ids
         /\ sweep[s].view \in [Users -> Purse \cup {NULL}]
         /\ sweep[s].dirty \subseteq Users \X Items
BY DEF TypeOK, Sweeps

LEMMA TypeInit == Init => TypeInv
<1>. SUFFICES ASSUME Init PROVE TypeInv
  OBVIOUS
<1>1. TypeOK
  BY MarketAssumption DEF Init, TypeOK, Ops, Idle, Off, Sweeps
<1>. QED BY <1>1 DEF Init, TypeInv, ChecksInv, OldInv, SweepInv, Idle, Off, Open

-----------------------------------------------------------------------------
(* Every step keeps TypeInv.                                               *)

\* What a handler that begins, goes on or ends without a write disturbs.
LEMMA OpOnly ==
  ASSUME TypeInv, op' \in Ops, ChecksInv', overlaps' \in Nat, UNCHANGED <<purse, listing, old, sweep>>
  PROVE  TypeInv'
BY DEF TypeInv, TypeOK, OldInv, SweepInv, Open

LEMMA BeginTyped ==
  ASSUME TypeInv, NEW u \in Users,
         \/ \E l \in Ids : BuyBegin(u, l) \/ CancelBegin(u, l)
         \/ \E o \in Offer : OfferBegin(u, o)
         \/ \E n \in Quantities : GiftBegin(u, n)
  PROVE  TypeInv'
<1>1. purse[u] \in Purse /\ overlaps \in Nat
  BY DEF TypeInv, TypeOK
<1>. USE DEF Begin, Opening, Ops, ChecksInv
<1>2. CASE \E l \in Ids : BuyBegin(u, l) \/ CancelBegin(u, l)
  BY <1>1, <1>2, OpOnly DEF BuyBegin, CancelBegin
<1>3. CASE \E o \in Offer : OfferBegin(u, o)
  BY <1>1, <1>3, OpOnly DEF OfferBegin
<1>4. CASE \E n \in Quantities : GiftBegin(u, n)
  BY <1>1, <1>4, OpOnly DEF GiftBegin
<1>. QED BY <1>2, <1>3, <1>4

LEMMA ProceedTyped ==
  ASSUME TypeInv,
         BuyReadRow \/ BuyReadSeller \/ CancelReadRow \/ OfferCount \/ \E v \in Users : GiftReadFriend(v)
  PROVE  TypeInv'
<1>1. TypeOK /\ overlaps \in Nat /\ purse \in [Users -> Purse] /\ listing \in [Ids -> Listing \cup {NULL}]
  BY DEF TypeInv, TypeOK
<1>2. Idle \in Ops
  BY DEF Ops
<1>3. CASE BuyReadRow
  <2>. DEFINE row == listing[op.id]
  <2>1. op.me \in Users /\ op.mine \in Purse /\ op.id \in Ids
    BY <1>1, <1>3, OpShape DEF BuyReadRow, Handlers
  <2>2. CASE row # NULL /\ MayBuy(op, row)
    <3>1. op' = [kind |-> "priced", me |-> op.me, mine |-> op.mine, id |-> op.id, row |-> row]
      BY <1>3, <2>2 DEF BuyReadRow, Proceed
    <3>2. op' \in Ops /\ ChecksInv'
      BY <1>1, <2>1, <2>2, <3>1 DEF Ops, ChecksInv, MayBuy
    <3>. QED BY <1>1, <1>3, <3>2, OpOnly DEF BuyReadRow, Proceed
  <2>3. CASE ~(row # NULL /\ MayBuy(op, row))
    <3>1. op' = Idle
      BY <1>3, <2>3 DEF BuyReadRow, Proceed
    <3>2. ChecksInv'
      BY <3>1 DEF ChecksInv, Idle
    <3>. QED BY <1>1, <1>2, <1>3, <3>1, <3>2, OpOnly DEF BuyReadRow, Proceed
  <2>. QED BY <2>2, <2>3
<1>4. CASE BuyReadSeller
  <2>1. op.me \in Users /\ op.mine \in Purse /\ op.id \in Ids /\ op.row \in Listing
    BY <1>1, <1>4, OpShape DEF BuyReadSeller, Handlers
  <2>2. purse[op.row.seller] \in Purse
    BY <1>1, <2>1, OfferShape
  <2>3. op' = [kind |-> "paying", me |-> op.me, mine |-> op.mine, id |-> op.id,
               row |-> op.row, theirs |-> purse[op.row.seller]]
    BY <1>4 DEF BuyReadSeller, Proceed
  <2>4. op' \in Ops /\ ChecksInv'
    BY <1>4, <2>1, <2>2, <2>3 DEF Ops, ChecksInv, BuyReadSeller, TypeInv
  <2>. QED BY <1>1, <1>4, <2>4, OpOnly DEF BuyReadSeller, Proceed
<1>5. CASE CancelReadRow
  <2>. DEFINE row == listing[op.id]
  <2>1. op.me \in Users /\ op.mine \in Purse /\ op.id \in Ids
    BY <1>1, <1>5, OpShape DEF CancelReadRow, Handlers
  <2>2. \/ row # NULL /\ op' = [kind |-> "refund", me |-> op.me, mine |-> op.mine, id |-> op.id, row |-> row]
        \/ op' = Idle
    BY <1>5 DEF CancelReadRow, Proceed
  <2>3. op' \in Ops /\ ChecksInv'
    BY <1>1, <1>2, <2>1, <2>2 DEF Ops, ChecksInv, Idle
  <2>. QED BY <1>1, <1>5, <2>3, OpOnly DEF CancelReadRow, Proceed
<1>6. CASE OfferCount
  <2>1. op.me \in Users /\ op.mine \in Purse /\ op.offer \in Offer
    BY <1>1, <1>6, OpShape DEF OfferCount, Handlers
  <2>2. op \in [kind : {"offering", "counted"}, me : Users, mine : Purse, offer : Offer]
    BY <1>1, <1>6 DEF OfferCount, TypeOK, Ops, Idle
  <2>3. \/ op' = [op EXCEPT !.kind = "counted"] /\ op.mine[op.offer.item] >= op.offer.qty
        \/ op' = Idle
    BY <1>6 DEF OfferCount, Proceed
  <2>4. op' \in Ops /\ ChecksInv'
    BY <1>2, <2>1, <2>2, <2>3 DEF Ops, ChecksInv, Idle
  <2>. QED BY <1>1, <1>6, <2>4, OpOnly DEF OfferCount, Proceed
<1>7. CASE \E v \in Users : GiftReadFriend(v)
  <2>1. PICK v \in Users : GiftReadFriend(v)
    BY <1>7
  <2>2. op.me \in Users /\ op.mine \in Purse /\ op.qty \in Quantities /\ purse[v] \in Purse
    BY <1>1, <2>1, OpShape DEF GiftReadFriend, Handlers
  <2>3. \/ /\ op' = [kind |-> "giving", me |-> op.me, mine |-> op.mine, qty |-> op.qty, to |-> v, theirs |-> purse[v]]
           /\ v # op.me /\ op.mine["part"] >= op.qty
        \/ op' = Idle
    BY <2>1 DEF GiftReadFriend, Proceed
  <2>4. op' \in Ops /\ ChecksInv'
    BY <1>2, <2>2, <2>3 DEF Ops, ChecksInv, Idle
  <2>. QED BY <1>1, <2>1, <2>4, OpOnly DEF GiftReadFriend, Proceed
<1>. QED BY <1>3, <1>4, <1>5, <1>6, <1>7

\* The rows and the offers a commit leaves are well typed.
LEMMA CommitTyped ==
  ASSUME TypeInv, purse' \in [Users -> Purse], listing' \in [Ids -> Listing \cup {NULL}],
         op' = Idle, old' \subseteq old, \A l \in old' : listing'[l] # NULL, UNCHANGED <<sweep, overlaps>>
  PROVE  TypeInv'
<1>1. op' \in Ops /\ ChecksInv'
  BY DEF Ops, ChecksInv, Idle
<1>. QED BY <1>1 DEF TypeInv, TypeOK, OldInv, SweepInv, Open

LEMMA DeleteTyped ==
  ASSUME TypeInv, NEW ids, Delete(ids)
  PROVE  /\ listing' \in [Ids -> Listing \cup {NULL}]
         /\ old' \subseteq old /\ \A l \in old' : listing'[l] # NULL
BY DEF TypeInv, TypeOK, OldInv, Open, Delete

LEMMA BuyCommitTyped == TypeInv /\ BuyCommit => TypeInv'
<1>. SUFFICES ASSUME TypeInv, BuyCommit PROVE TypeInv'
  OBVIOUS
<1>1. /\ purse \in [Users -> Purse]
      /\ op.me \in Users /\ op.mine \in Purse /\ op.row \in Listing /\ op.theirs \in Purse
      /\ op.mine["cash"] >= op.row.offer.price
  BY OpShape DEF BuyCommit, TypeInv, TypeOK, Handlers, ChecksInv
<1>. DEFINE o == op.row.offer
<1>2. o \in Offer /\ o.item \in Columns /\ o.qty \in Nat /\ o.price \in Nat /\ op.row.seller \in Users
  BY <1>1, OfferShape
<1>3. /\ op.mine["cash"] - o.price \in Nat /\ op.mine[o.item] + o.qty \in Nat
      /\ op.theirs["cash"] + o.price \in Nat
  <2>1. op.mine["cash"] \in Nat /\ op.mine[o.item] \in Nat /\ op.theirs["cash"] \in Nat
    BY <1>1, <1>2, OfferShape DEF Purse
  <2>. QED BY <1>1, <1>2, <2>1
<1>4. purse' \in [Users -> Purse]
  BY <1>1, <1>2, <1>3, OfferShape DEF BuyCommit, Purse
<1>. QED BY <1>4, DeleteTyped, CommitTyped DEF BuyCommit

LEMMA CancelCommitTyped == TypeInv /\ CancelCommit => TypeInv'
<1>. SUFFICES ASSUME TypeInv, CancelCommit PROVE TypeInv'
  OBVIOUS
<1>1. purse \in [Users -> Purse] /\ op.me \in Users /\ op.mine \in Purse /\ op.row \in Listing
  BY OpShape DEF CancelCommit, TypeInv, TypeOK, Handlers
<1>2. op.row.offer.item \in Columns /\ op.row.offer.qty \in Nat
  BY <1>1, OfferShape
<1>3. purse' \in [Users -> Purse]
  BY <1>1, <1>2 DEF CancelCommit, Purse
<1>. QED BY <1>3, DeleteTyped, CommitTyped DEF CancelCommit

LEMMA OfferCommitTyped == TypeInv /\ OfferCommit => TypeInv'
<1>. SUFFICES ASSUME TypeInv, OfferCommit PROVE TypeInv'
  OBVIOUS
<1>1. /\ purse \in [Users -> Purse] /\ listing \in [Ids -> Listing \cup {NULL}]
      /\ op.me \in Users /\ op.mine \in Purse /\ op.offer \in Offer
      /\ op.mine[op.offer.item] >= op.offer.qty
  BY OpShape DEF OfferCommit, TypeInv, TypeOK, Handlers, ChecksInv
<1>2. op.offer.item \in Columns /\ op.offer.qty \in Nat
  BY <1>1, OfferShape
<1>3. op.mine[op.offer.item] - op.offer.qty \in Nat
  BY <1>1, <1>2 DEF Purse
<1>4. purse' \in [Users -> Purse]
  BY <1>1, <1>2, <1>3 DEF OfferCommit, Purse
<1>5. listing' \in [Ids -> Listing \cup {NULL}] /\ \A l \in Ids : listing[l] # NULL => listing'[l] # NULL
  <2>. DEFINE new == [seller |-> op.me, offer |-> op.offer]
  <2>1. new \in Listing
    BY <1>1 DEF Listing
  <2>2. listing' = [listing EXCEPT ![NewId] = new]
    BY DEF OfferCommit
  <2>. HIDE DEF new
  <2>. QED BY <1>1, <2>1, <2>2, OfferShape
<1>6. old \subseteq Open
  BY DEF TypeInv, OldInv
<1>. QED BY <1>4, <1>5, <1>6, CommitTyped DEF OfferCommit, Open

LEMMA GiftCommitTyped == TypeInv /\ GiftCommit => TypeInv'
<1>. SUFFICES ASSUME TypeInv, GiftCommit PROVE TypeInv'
  OBVIOUS
<1>1. /\ purse \in [Users -> Purse] /\ listing \in [Ids -> Listing \cup {NULL}]
      /\ op.me \in Users /\ op.mine \in Purse /\ op.qty \in Nat /\ op.to \in Users /\ op.theirs \in Purse
      /\ op.mine["part"] >= op.qty
  BY OpShape, OfferShape DEF GiftCommit, TypeInv, TypeOK, Handlers, ChecksInv
<1>2. op.mine["part"] - op.qty \in Nat /\ op.theirs["part"] + op.qty \in Nat
  BY <1>1, OfferShape DEF Purse
<1>3. purse' \in [Users -> Purse]
  BY <1>1, <1>2, OfferShape DEF GiftCommit, Purse
<1>4. old \subseteq Open
  BY DEF TypeInv, OldInv
<1>. QED BY <1>1, <1>3, <1>4, CommitTyped DEF GiftCommit, Open

LEMMA SweepStepTyped ==
  ASSUME TypeInv, NEW s \in Sweepers, SweepFetch(s) \/ SweepRow(s) \/ SweepCommit(s)
  PROVE  TypeInv'
<1>1. /\ purse \in [Users -> Purse] /\ listing \in [Ids -> Listing \cup {NULL}] /\ overlaps \in Nat
      /\ sweep \in [Sweepers -> Sweeps]
  BY DEF TypeInv, TypeOK
<1>2. sweep[s].todo \subseteq Ids \X Listing /\ sweep[s].done \subseteq Ids
      /\ sweep[s].view \in [Users -> Purse \cup {NULL}] /\ sweep[s].dirty \subseteq Users \X Items
  BY SweepShape DEF TypeInv
<1>3. CASE SweepFetch(s)
  <2>1. overlaps' \in Nat
    BY <1>1, <1>3 DEF SweepFetch, SweepOpening, Opening
  <2>2. \A l \in old : l \in Ids /\ listing[l] \in Listing
    BY <1>1 DEF TypeInv, OldInv, Open
  <2>3. {<<l, listing[l]>> : l \in old} \subseteq Ids \X Listing
    BY <2>2
  <2>4. sweep' \in [Sweepers -> Sweeps]
    BY <1>1, <1>3, <2>3 DEF SweepFetch, Sweeps
  <2>5. SweepInv'
    BY <1>1, <1>3 DEF SweepFetch, SweepInv, TypeInv, Sweeps
  <2>6. ChecksInv' /\ OldInv'
    BY <1>3 DEF SweepFetch, ChecksInv, OldInv, TypeInv, Open
  <2>. QED BY <1>3, <2>1, <2>4, <2>5, <2>6 DEF TypeInv, TypeOK, SweepFetch
<1>4. CASE SweepRow(s)
  <2>. DEFINE w == sweep[s]
  <2>1. PICK row \in w.todo :
          LET u == row[2].seller
              o == row[2].offer
              held == IF w.view[u] = NULL THEN purse[u] ELSE w.view[u]
          IN  sweep' = [sweep EXCEPT ![s] =
                [todo  |-> w.todo \ {row},
                 done  |-> w.done \cup {row[1]},
                 view  |-> [w.view EXCEPT ![u] = [held EXCEPT ![o.item] = @ + o.qty]],
                 dirty |-> w.dirty \cup {<<u, o.item>>}]]
    BY <1>4 DEF SweepRow
  <2>. DEFINE u == row[2].seller
              o == row[2].offer
              held == IF w.view[u] = NULL THEN purse[u] ELSE w.view[u]
              new == [held EXCEPT ![o.item] = @ + o.qty]
  <2>2. row[1] \in Ids /\ u \in Users /\ o.item \in Items /\ o.item \in Columns /\ o.qty \in Nat
    BY <1>2, OfferShape
  <2>3. held \in Purse
    BY <1>1, <1>2, <2>2
  <2>4. new \in Purse /\ new # NULL
    BY <2>2, <2>3, OfferShape DEF Purse
  <2>. DEFINE v == [w.view EXCEPT ![u] = new]
              n == [todo |-> w.todo \ {row}, done |-> w.done \cup {row[1]}, view |-> v,
                    dirty |-> w.dirty \cup {<<u, o.item>>}]
  <2>5. v \in [Users -> Purse \cup {NULL}] /\ \A x \in Users : w.view[x] # NULL \/ x = u => v[x] # NULL
    BY <1>2, <2>2, <2>4
  <2>6. n \in Sweeps
    <3>1. w.todo \ {row} \in SUBSET (Ids \X Listing) /\ w.done \cup {row[1]} \in SUBSET Ids
          /\ w.dirty \cup {<<u, o.item>>} \in SUBSET (Users \X Items)
      BY <1>2, <2>2
    <3>. HIDE DEF v, u, o
    <3>. QED BY <2>5, <3>1 DEF Sweeps
  <2>7. sweep' = [sweep EXCEPT ![s] = n]
    BY <2>1
  <2>8. sweep' \in [Sweepers -> Sweeps]
    BY <1>1, <2>6, <2>7
  <2>9. \A x \in n.dirty : n.view[x[1]] # NULL
    <3>1. \A x \in w.dirty : w.view[x[1]] # NULL
      BY DEF TypeInv, SweepInv
    <3>2. \A x \in w.dirty : x[1] \in Users
      BY <1>2
    <3>3. \A x \in n.dirty : x \in w.dirty \/ x = <<u, o.item>>
      OBVIOUS
    <3>. HIDE DEF v, u, o
    <3>. QED BY <2>2, <2>5, <3>1, <3>2, <3>3
  <2>10. SweepInv'
    <3>. HIDE DEF n
    <3>. QED BY <1>1, <2>7, <2>9 DEF TypeInv, SweepInv
  <2>11. ChecksInv' /\ OldInv'
    BY <1>4 DEF SweepRow, ChecksInv, OldInv, TypeInv, Open
  <2>. QED BY <1>4, <2>8, <2>10, <2>11 DEF TypeInv, TypeOK, SweepRow
<1>5. CASE SweepCommit(s)
  <2>. DEFINE w == sweep[s]
  <2>1. \A u \in Users, c \in Columns :
          (IF <<u, c>> \in w.dirty THEN w.view[u][c] ELSE purse[u][c]) \in Nat
    <3>. SUFFICES ASSUME NEW u \in Users, NEW c \in Columns
                  PROVE  (IF <<u, c>> \in w.dirty THEN w.view[u][c] ELSE purse[u][c]) \in Nat
      OBVIOUS
    <3>1. CASE <<u, c>> \in w.dirty
      <4>1. w.view[u] # NULL
        BY <3>1 DEF TypeInv, SweepInv
      <4>. QED BY <1>2, <3>1, <4>1 DEF Purse
    <3>2. CASE <<u, c>> \notin w.dirty
      BY <1>1, <3>2 DEF Purse
    <3>. QED BY <3>1, <3>2
  <2>2. purse' \in [Users -> Purse]
    BY <1>5, <2>1 DEF SweepCommit, Purse
  <2>3. Off \in Sweeps
    BY DEF Off, Sweeps
  <2>4. sweep' \in [Sweepers -> Sweeps] /\ SweepInv'
    BY <1>1, <1>5, <2>3 DEF SweepCommit, SweepInv, TypeInv, Off
  <2>5. listing' \in [Ids -> Listing \cup {NULL}] /\ old' \subseteq old /\ \A l \in old' : listing'[l] # NULL
    BY <1>5, DeleteTyped DEF SweepCommit
  <2>6. ChecksInv'
    BY <1>5 DEF SweepCommit, ChecksInv, TypeInv
  <2>. QED BY <1>5, <2>2, <2>4, <2>5, <2>6 DEF TypeInv, TypeOK, OldInv, Open, SweepCommit
<1>. QED BY <1>3, <1>4, <1>5

LEMMA AgeTyped == ASSUME TypeInv, NEW l \in Ids, Age(l) PROVE TypeInv'
BY DEF Age, TypeInv, TypeOK, ChecksInv, OldInv, SweepInv, Open

LEMMA TypeStep == TypeInv /\ [Next]_vars => TypeInv'
<1>. SUFFICES ASSUME TypeInv, [Next]_vars PROVE TypeInv'
  OBVIOUS
<1>1. "cmd" \in Sweepers /\ "job" \in Sweepers
  BY DEF Sweepers
<1>2. CASE HandlerBegin
  BY <1>1, <1>2, BeginTyped, SweepStepTyped DEF HandlerBegin
<1>3. CASE HandlerStep
  BY <1>1, <1>3, ProceedTyped, BuyCommitTyped, CancelCommitTyped, OfferCommitTyped, GiftCommitTyped,
     SweepStepTyped DEF HandlerStep
<1>4. CASE SweepFetch("job") \/ JobStep
  BY <1>1, <1>4, SweepStepTyped DEF JobStep
<1>5. CASE \E l \in Ids : Age(l)
  BY <1>5, AgeTyped
<1>6. CASE UNCHANGED vars
  BY <1>6 DEF vars, TypeInv, TypeOK, ChecksInv, OldInv, SweepInv, Open
<1>. QED BY <1>2, <1>3, <1>4, <1>5, <1>6 DEF Next

LEMMA TypeInvariant == Spec => []TypeInv
BY TypeInit, TypeStep, PTL DEF Spec

\* Every row, offer and session keeps its type: no stock and no cash of a
\* player falls below zero, although commits write what was read before.
THEOREM TypeCorrect == Spec => []TypeOK
<1>1. TypeInv => TypeOK
  BY DEF TypeInv
<1>. QED BY <1>1, TypeInvariant, PTL

-----------------------------------------------------------------------------
(* Cash.                                                                   *)

\* While a handler runs, nobody else writes a cash column, so what it has
\* read is what is there.
CashInv ==
  /\ op.kind \in Handlers => op.mine["cash"] = purse[op.me]["cash"]
  /\ op.kind = "paying" => op.theirs["cash"] = purse[op.row.seller]["cash"]

MoneyInv == TypeInv /\ CashInv /\ MoneyConserved

LEMMA MoneyInit == Init => MoneyInv
<1>. SUFFICES ASSUME Init PROVE MoneyInv
  OBVIOUS
<1>1. CashInv
  BY DEF Init, CashInv, Idle, Handlers
<1>. QED BY <1>1, TypeInit DEF Init, MoneyInv, MoneyConserved

LEMMA SameCash ==
  ASSUME TypeInv, MoneyConserved, \A u \in Users : purse'[u]["cash"] = purse[u]["cash"]
  PROVE  MoneyConserved'
BY DEF MoneyConserved, Total

LEMMA BuyMoney == MoneyInv /\ BuyCommit => MoneyConserved'
<1>. SUFFICES ASSUME MoneyInv, BuyCommit PROVE MoneyConserved'
  OBVIOUS
<1>1. /\ purse \in [Users -> Purse] /\ purse' \in [Users -> Purse]
      /\ op.me \in Users /\ op.row \in Listing /\ op.row.seller # op.me
      /\ op.mine["cash"] = purse[op.me]["cash"] /\ op.theirs["cash"] = purse[op.row.seller]["cash"]
  <2>1. TypeInv'
    BY BuyCommitTyped DEF MoneyInv
  <2>. QED BY <2>1, OpShape DEF BuyCommit, MoneyInv, TypeInv, TypeOK, Handlers, ChecksInv, CashInv
<1>. DEFINE me == op.me
            seller == op.row.seller
            o == op.row.offer
            f == [u \in Users |-> purse[u]["cash"]]
            g == [u \in Users |-> purse'[u]["cash"]]
<1>2. seller \in Users /\ o.item \in Items /\ o.item # "cash" /\ o.item \in Columns
      /\ o.price \in Nat /\ "cash" \in Columns
  BY <1>1, OfferShape
<1>3. /\ purse'[me]["cash"] = purse[me]["cash"] - o.price
      /\ purse'[seller]["cash"] = purse[seller]["cash"] + o.price
      /\ \A u \in Users \ {me, seller} : purse'[u] = purse[u]
  BY <1>1, <1>2 DEF BuyCommit, Purse
<1>4. \A u \in Users : f[u] \in Int /\ g[u] \in Int
  BY <1>1, <1>2 DEF Purse
<1>5. g[me] = f[me] - o.price /\ g[seller] = f[seller] + o.price /\ \A u \in Users \ {me, seller} : g[u] = f[u]
  BY <1>1, <1>2, <1>3
<1>6. SumFunctionOnSet(g, Users) = SumFunctionOnSet(f, Users)
  <2>. HIDE DEF f, g, o
  <2>1. IsFiniteSet(Users) /\ o.price \in Int /\ me \in Users /\ seller \in Users /\ me # seller
    BY <1>1, <1>2, MarketAssumption
  <2>. HIDE DEF me, seller
  <2>. QED BY <1>4, <1>5, <2>1, SumTransfer
<1>. QED BY <1>6 DEF MoneyInv, MoneyConserved, Total

LEMMA CashStep == MoneyInv /\ [Next]_vars => CashInv' /\ MoneyConserved'
<1>. SUFFICES ASSUME MoneyInv, [Next]_vars PROVE CashInv' /\ MoneyConserved'
  OBVIOUS
<1>1. TypeInv /\ TypeOK /\ TypeInv' /\ TypeOK' /\ purse \in [Users -> Purse] /\ purse' \in [Users -> Purse]
  BY TypeStep DEF MoneyInv, TypeInv, TypeOK
<1>2. ASSUME op' = Idle PROVE CashInv'
  BY <1>2 DEF CashInv, Idle, Handlers
<1>3. ASSUME UNCHANGED purse PROVE MoneyConserved'
  BY <1>3 DEF MoneyInv, MoneyConserved
<1>4. ASSUME UNCHANGED op, \A u \in Users : purse'[u]["cash"] = purse[u]["cash"]
      PROVE  CashInv' /\ MoneyConserved'
  <2>1. op.kind = "paying" => op.row.seller \in Users
    BY <1>1, OpShape, OfferShape
  <2>2. CashInv'
    BY <1>1, <1>4, <2>1, OpShape DEF MoneyInv, CashInv
  <2>. QED BY <1>1, <1>4, <2>2, SameCash DEF MoneyInv
<1>5. CASE HandlerBegin
  <2>1. CASE SweepFetch("cmd")
    BY <1>4, <2>1 DEF SweepFetch
  <2>2. CASE ~SweepFetch("cmd")
    BY <1>3, <1>5, <2>2 DEF HandlerBegin, BuyBegin, CancelBegin, OfferBegin, GiftBegin, Begin, CashInv, Handlers
  <2>. QED BY <2>1, <2>2
<1>6. CASE BuyReadRow \/ BuyReadSeller \/ CancelReadRow \/ OfferCount \/ \E v \in Users : GiftReadFriend(v)
  <2>1. UNCHANGED purse
    BY <1>6 DEF BuyReadRow, BuyReadSeller, CancelReadRow, OfferCount, GiftReadFriend, Proceed
  <2>2. /\ op'.kind \in Handlers => op'.me = op.me /\ op'.mine = op.mine /\ op.kind \in Handlers
        /\ op'.kind = "paying" => op'.theirs = purse[op'.row.seller]
    <3>1. CASE op' = Idle
      BY <3>1 DEF Idle, Handlers
    <3>2. CASE BuyReadRow /\ op' # Idle
      BY <3>2 DEF BuyReadRow, Proceed, Handlers
    <3>3. CASE BuyReadSeller
      BY <3>3 DEF BuyReadSeller, Proceed, Handlers
    <3>4. CASE CancelReadRow /\ op' # Idle
      BY <3>4 DEF CancelReadRow, Proceed, Handlers
    <3>5. CASE OfferCount /\ op' # Idle
      <4>1. op \in [kind : {"offering", "counted"}, me : Users, mine : Purse, offer : Offer]
        BY <1>1, <3>5 DEF OfferCount, TypeOK, Ops, Idle
      <4>2. op' = [op EXCEPT !.kind = "counted"]
        BY <3>5 DEF OfferCount, Proceed
      <4>. QED BY <4>1, <4>2 DEF Handlers
    <3>6. CASE (\E v \in Users : GiftReadFriend(v)) /\ op' # Idle
      BY <3>6 DEF GiftReadFriend, Proceed, Handlers
    <3>. QED BY <1>6, <3>1, <3>2, <3>3, <3>4, <3>5, <3>6
  <2>. QED BY <1>3, <2>1, <2>2 DEF MoneyInv, CashInv
<1>7. CASE BuyCommit
  BY <1>2, <1>7, BuyMoney DEF BuyCommit
<1>8. CASE CancelCommit \/ OfferCommit \/ GiftCommit
  <2>1. op' = Idle
    BY <1>8 DEF CancelCommit, OfferCommit, GiftCommit
  <2>2. \A u \in Users : purse'[u]["cash"] = purse[u]["cash"]
    <3>1. CASE CancelCommit
      <4>1. op.row.offer.item # "cash" /\ op.me \in Users
        BY <1>1, <3>1, OpShape, OfferShape DEF CancelCommit, Handlers
      <4>. QED BY <1>1, <3>1, <4>1, OfferShape DEF CancelCommit, Purse
    <3>2. CASE OfferCommit
      <4>1. op.offer.item # "cash" /\ op.me \in Users
        BY <1>1, <3>2, OpShape, OfferShape DEF OfferCommit, Handlers
      <4>. QED BY <1>1, <3>2, <4>1, OfferShape DEF OfferCommit, Purse
    <3>3. CASE GiftCommit
      <4>1. op.me \in Users /\ op.to \in Users
        BY <1>1, <3>3, OpShape DEF GiftCommit, Handlers
      <4>. QED BY <1>1, <3>3, <4>1, OfferShape DEF GiftCommit, Purse
    <3>. QED BY <1>8, <3>1, <3>2, <3>3
  <2>. QED BY <1>1, <1>2, <2>1, <2>2, SameCash DEF MoneyInv
<1>9. CASE \E s \in Sweepers : SweepRow(s) \/ SweepFetch(s)
  BY <1>4, <1>9 DEF SweepRow, SweepFetch
<1>10. CASE \E s \in Sweepers : SweepCommit(s)
  <2>1. PICK s \in Sweepers : SweepCommit(s)
    BY <1>10
  <2>2. sweep[s].dirty \subseteq Users \X Items
    BY <1>1, SweepShape
  <2>3. \A u \in Users : <<u, "cash">> \notin sweep[s].dirty
    BY <2>2, OfferShape
  <2>. QED BY <1>4, <2>1, <2>3, OfferShape DEF SweepCommit
<1>11. CASE \E l \in Ids : Age(l)
  BY <1>4, <1>11 DEF Age
<1>12. CASE UNCHANGED vars
  BY <1>4, <1>12 DEF vars
<1>. QED BY <1>5, <1>6, <1>7, <1>8, <1>9, <1>10, <1>11, <1>12 DEF Next, HandlerStep, JobStep, Sweepers

\* The market makes and loses no cash, whatever sessions overlap.
THEOREM MoneyIsConserved == Spec => []MoneyConserved
<1>1. MoneyInv /\ [Next]_vars => MoneyInv'
  BY TypeStep, CashStep DEF MoneyInv
<1>2. MoneyInv => MoneyConserved
  BY DEF MoneyInv
<1>. QED BY <1>1, <1>2, MoneyInit, PTL DEF Spec

-----------------------------------------------------------------------------
(* Goods.                                                                  *)

\* While no two sessions have overlapped, one session is open at a time and
\* sees the rows as they are, or with what it has changed itself.
OneSession ==
  /\ op # Idle => sweep["cmd"] = Off /\ sweep["job"] = Off
  /\ sweep["cmd"] = Off \/ sweep["job"] = Off
FreshOp ==
  /\ op.kind \in Handlers => op.mine = purse[op.me]
  /\ op.kind \in {"priced", "refund", "paying"} => op.row = listing[op.id]
  /\ op.kind = "paying" => op.theirs = purse[op.row.seller]
  /\ op.kind = "giving" => op.theirs = purse[op.to]
  /\ op.kind \in {"offering", "counted"} => NewId \in Ids
FreshSweep ==
  \A s \in Sweepers :
    /\ \A row \in sweep[s].todo : row[2] = listing[row[1]] /\ row[1] \notin sweep[s].done
    /\ \A u \in Users : sweep[s].view[u] # NULL =>
         \A c \in Columns : <<u, c>> \notin sweep[s].dirty => sweep[s].view[u][c] = purse[u][c]

\* The stock and the offers as they will be when the open sweep has committed.
After(u, c) ==
  IF <<u, c>> \in sweep["cmd"].dirty THEN sweep["cmd"].view[u][c]
  ELSE IF <<u, c>> \in sweep["job"].dirty THEN sweep["job"].view[u][c]
  ELSE purse[u][c]
Left(l, i) == IF l \in sweep["cmd"].done \cup sweep["job"].done THEN 0 ELSE Lying(l, i)

Balanced ==
  \A i \in Items :
    SumFunctionOnSet([u \in Users |-> After(u, i)], Users)
      + SumFunctionOnSet([l \in Ids |-> Left(l, i)], Ids) = Total(i, Purse0)

AloneInv == overlaps = 0 => OneSession /\ FreshOp /\ FreshSweep /\ Balanced
GoodsInv == TypeInv /\ AloneInv /\ GoodsConserved

LEMMA NewIdIsFree == ASSUME TypeOK PROVE NewId \in Nat /\ NewId \notin Open
<1>. DEFINE S == {0} \cup Open
<1>1. S \subseteq Nat /\ IsFiniteSet(S) /\ S # {}
  <2>1. Open \subseteq Ids /\ Ids \subseteq Nat /\ IsFiniteSet(Ids)
    BY MarketAssumption DEF Open
  <2>2. IsFiniteSet(Open)
    BY <2>1, FS_Subset
  <2>3. IsFiniteSet({0}) /\ IsFiniteSet({0} \cup Open)
    BY <2>2, FS_Singleton, FS_Union
  <2>. QED BY <2>1, <2>3
<1>2. Max(S) \in Nat /\ \A x \in S : x <= Max(S)
  BY <1>1, MaxOfFinite
<1>3. NewId = 1 + Max(S)
  BY DEF NewId
<1>. HIDE DEF S
<1>4. NewId \in Nat /\ NewId \notin S
  BY <1>1, <1>2, <1>3
<1>. QED BY <1>4 DEF S

LEMMA OffShape ==
  /\ Off.todo = {} /\ Off.done = {} /\ Off.dirty = {} /\ \A u \in Users : Off.view[u] = NULL
  /\ "cmd" \in Sweepers /\ "job" \in Sweepers /\ Sweepers = {"cmd", "job"}
BY DEF Off, Sweepers

LEMMA LyingIsInt == ASSUME TypeOK PROVE \A l \in Ids : \A i \in Items : Lying(l, i) \in Int
<1>1. \A l \in Ids : listing[l] # NULL => listing[l] \in Listing
  BY DEF TypeOK
<1>. QED BY <1>1, OfferShape DEF Lying

LEMMA AfterIsInt == ASSUME TypeOK, SweepInv PROVE \A u \in Users : \A i \in Items : After(u, i) \in Int
<1>1. \A s \in Sweepers : \A u \in Users, i \in Items :
        <<u, i>> \in sweep[s].dirty => sweep[s].view[u] \in Purse
  BY SweepShape DEF SweepInv
<1>2. \A r \in Purse : \A i \in Items : r[i] \in Int
  BY OfferShape DEF Purse
<1>3. \A u \in Users : purse[u] \in Purse
  BY DEF TypeOK
<1>. QED BY <1>1, <1>2, <1>3, OffShape DEF After

\* What a handler's commit has to show: one piece of goods goes from the table
\* to a stock (n > 0) or back, or nothing changes.
LEMMA StockAndTable ==
  ASSUME TypeOK, TypeOK', NEW u \in Users, NEW l \in Ids, NEW k \in Items, NEW n \in Int,
         \A x \in Users : \A i \in Items : purse'[x][i] = purse[x][i] + (IF x = u /\ i = k THEN n ELSE 0),
         \A m \in Ids : \A i \in Items : Lying(m, i)' = Lying(m, i) - (IF m = l /\ i = k THEN n ELSE 0),
         GoodsConserved, overlaps = 0
  PROVE  GoodsConserved'
<1>1. SUFFICES ASSUME NEW i \in Items PROVE Total(i, purse') + OnTable(i)' = Total(i, purse) + OnTable(i)
  BY DEF GoodsConserved
<1>. DEFINE had == [x \in Users |-> purse[x][i]]
            has == [x \in Users |-> purse'[x][i]]
            lay == [m \in Ids |-> Lying(m, i)]
            lies == [m \in Ids |-> Lying(m, i)']
            d == IF i = k THEN n ELSE 0
<1>2. \A m \in Users : had[m] \in Int /\ has[m] \in Int
  BY OfferShape DEF TypeOK, Purse
<1>3. \A m \in Ids : lay[m] \in Int /\ lies[m] \in Int
  <2>1. \A m \in Ids : Lying(m, i) \in Int
    BY LyingIsInt
  <2>. QED BY <2>1
<1>4. has[u] = had[u] + d /\ (\A m \in Users \ {u} : has[m] = had[m]) /\ lies[l] = lay[l] - d /\ \A m \in Ids \ {l} : lies[m] = lay[m]
  BY <1>2, <1>3
<1>5. SumFunctionOnSet(has, Users) + SumFunctionOnSet(lies, Ids) = SumFunctionOnSet(had, Users) + SumFunctionOnSet(lay, Ids)
  <2>1. d \in Int /\ IsFiniteSet(Users) /\ IsFiniteSet(Ids) /\ u \in Users /\ l \in Ids
    BY MarketAssumption
  <2>. HIDE DEF had, has, lay, lies, d
  <2>2. SumFunctionOnSet(has, Users) = SumFunctionOnSet(had, Users) - had[u] + has[u]
    <3>1. \A m \in Users \ {u} : has[m] = had[m]
      BY ONLY <1>4
    <3>. QED BY ONLY <1>2, <2>1, <3>1, SumChange, SMTT(60)
  <2>3. SumFunctionOnSet(lies, Ids) = SumFunctionOnSet(lay, Ids) - lay[l] + lies[l]
    <3>1. \A m \in Ids \ {l} : lies[m] = lay[m]
      BY ONLY <1>4
    <3>. QED BY ONLY <1>3, <2>1, <3>1, SumChange
  <2>4. SumFunctionOnSet(had, Users) \in Int /\ SumFunctionOnSet(lay, Ids) \in Int /\ had[u] \in Int /\ lay[l] \in Int
    BY <1>2, <1>3, <2>1, SumIsInt
  <2>. QED BY ONLY <1>4, <2>1, <2>2, <2>3, <2>4
<1>. QED BY <1>5 DEF Total, OnTable

\* With no sweep open, what will be is what is.
IdleIsBalanced ==
  sweep["cmd"] = Off /\ sweep["job"] = Off =>
    (Balanced <=> \A i \in Items : Total(i, purse) + OnTable(i) = Total(i, Purse0))

LEMMA IdleBalance == IdleIsBalanced /\ IdleIsBalanced'
<1>1. IdleIsBalanced
  <2>. SUFFICES ASSUME sweep["cmd"] = Off, sweep["job"] = Off
                PROVE  Balanced <=> \A i \in Items : Total(i, purse) + OnTable(i) = Total(i, Purse0)
    BY DEF IdleIsBalanced
  <2>1. \A i : [u \in Users |-> After(u, i)] = [u \in Users |-> purse[u][i]]
    BY OffShape DEF After
  <2>2. \A i : [l \in Ids |-> Left(l, i)] = [l \in Ids |-> Lying(l, i)]
    BY OffShape DEF Left
  <2>. QED BY <2>1, <2>2 DEF Balanced, Total, OnTable
<1>. QED BY <1>1, PTL

LEMMA GoodsInit == Init => GoodsInv
<1>. SUFFICES ASSUME Init PROVE GoodsInv
  OBVIOUS
<1>1. TypeInv /\ op = Idle /\ sweep["cmd"] = Off /\ sweep["job"] = Off
  BY TypeInit, OffShape DEF Init
<1>2. OneSession /\ FreshOp /\ FreshSweep
  BY <1>1, OffShape DEF OneSession, FreshOp, FreshSweep, Handlers, Idle
<1>3. \A i \in Items : Total(i, purse) + OnTable(i) = Total(i, Purse0)
  <2>. SUFFICES ASSUME NEW i \in Items PROVE Total(i, purse) + OnTable(i) = Total(i, Purse0)
    OBVIOUS
  <2>1. \A l \in Ids : Lying(l, i) = 0
    BY DEF Init, Lying
  <2>2. OnTable(i) = 0
    <3>. DEFINE lay == [l \in Ids |-> Lying(l, i)]
    <3>1. \A l \in Ids : lay[l] = 0
      BY <2>1
    <3>. HIDE DEF lay
    <3>2. SumFunctionOnSet(lay, Ids) = 0
      BY <3>1, SumZero, MarketAssumption
    <3>. QED BY <3>2 DEF lay, OnTable
  <2>3. Total(i, Purse0) \in Int
    <3>. DEFINE had == [u \in Users |-> Purse0[u][i]]
    <3>1. \A u \in Users : had[u] \in Int
      BY MarketAssumption, OfferShape DEF Purse
    <3>. HIDE DEF had
    <3>2. SumFunctionOnSet(had, Users) \in Int
      BY <3>1, SumIsInt, MarketAssumption
    <3>. QED BY <3>2 DEF had, Total
  <2>. QED BY <2>2, <2>3 DEF Init
<1>. QED BY <1>1, <1>2, <1>3, IdleBalance DEF GoodsInv, AloneInv, IdleIsBalanced, GoodsConserved

\* A step that opens a handler's session or lets it read.
LEMMA ReadsKeepGoods ==
  ASSUME GoodsInv, overlaps = 0, OneSession', FreshOp', UNCHANGED <<purse, listing, sweep>>
  PROVE  AloneInv' /\ GoodsConserved'
<1>1. FreshSweep' /\ Balanced'
  BY DEF GoodsInv, AloneInv, FreshSweep, Balanced, After, Left, Lying
<1>2. GoodsConserved'
  BY DEF GoodsInv, GoodsConserved, OnTable, Lying
<1>. QED BY <1>1, <1>2 DEF AloneInv

LEMMA BeginKeepsGoods ==
  ASSUME GoodsInv, overlaps' = 0, NEW u \in Users,
         \/ \E l \in Ids : BuyBegin(u, l) \/ CancelBegin(u, l)
         \/ \E o \in Offer : OfferBegin(u, o)
         \/ \E n \in Quantities : GiftBegin(u, n)
  PROVE  AloneInv' /\ GoodsConserved'
<1>1. overlaps \in Nat
  BY DEF GoodsInv, TypeInv, TypeOK
<1>2. ~HandlerBusy /\ ~JobBusy /\ overlaps = 0 /\ UNCHANGED <<purse, listing, sweep>>
  BY <1>1 DEF BuyBegin, CancelBegin, OfferBegin, GiftBegin, Begin, Opening
<1>3. OneSession'
  BY <1>2 DEF OneSession, HandlerBusy, JobBusy
<1>4. NewId' = NewId
  BY <1>2 DEF NewId, Open
<1>5. FreshOp'
  BY <1>2, <1>4 DEF FreshOp, BuyBegin, CancelBegin, OfferBegin, GiftBegin, Begin
<1>. QED BY <1>2, <1>3, <1>5, ReadsKeepGoods

LEMMA ProceedKeepsGoods ==
  ASSUME GoodsInv, overlaps' = 0,
         BuyReadRow \/ BuyReadSeller \/ CancelReadRow \/ OfferCount \/ \E v \in Users : GiftReadFriend(v)
  PROVE  AloneInv' /\ GoodsConserved'
<1>1. UNCHANGED <<purse, listing, sweep, overlaps>> /\ op.kind \in Handlers
  BY DEF BuyReadRow, BuyReadSeller, CancelReadRow, OfferCount, GiftReadFriend, Proceed, Handlers
<1>2. OneSession /\ FreshOp
  BY <1>1 DEF GoodsInv, AloneInv
<1>3. OneSession'
  BY <1>1, <1>2 DEF OneSession, Handlers, Idle
<1>4. NewId' = NewId
  BY <1>1 DEF NewId, Open
<1>5. FreshOp'
  <2>1. CASE op' = Idle
    BY <2>1 DEF FreshOp, Idle, Handlers
  <2>2. CASE BuyReadRow /\ op' # Idle
    BY <1>1, <1>2, <2>2 DEF BuyReadRow, Proceed, FreshOp
  <2>3. CASE BuyReadSeller
    BY <1>1, <1>2, <2>3 DEF BuyReadSeller, Proceed, FreshOp
  <2>4. CASE CancelReadRow /\ op' # Idle
    BY <1>1, <1>2, <2>4 DEF CancelReadRow, Proceed, FreshOp
  <2>5. CASE OfferCount /\ op' # Idle
    <3>1. op \in [kind : {"offering", "counted"}, me : Users, mine : Purse, offer : Offer]
      BY <2>5 DEF OfferCount, GoodsInv, TypeInv, TypeOK, Ops, Idle
    <3>2. op' = [op EXCEPT !.kind = "counted"]
      BY <2>5 DEF OfferCount, Proceed
    <3>. QED BY <1>1, <1>2, <1>4, <3>1, <3>2 DEF FreshOp
  <2>6. CASE (\E v \in Users : GiftReadFriend(v)) /\ op' # Idle
    BY <1>1, <1>2, <2>6 DEF GiftReadFriend, Proceed, FreshOp
  <2>. QED BY <2>1, <2>2, <2>3, <2>4, <2>5, <2>6
<1>. QED BY <1>1, <1>3, <1>5, ReadsKeepGoods

LEMMA CommitKeepsAlone ==
  ASSUME GoodsInv, overlaps = 0, op.kind \in Handlers, op' = Idle, UNCHANGED <<sweep, overlaps>>, GoodsConserved'
  PROVE  AloneInv'
<1>1. sweep["cmd"] = Off /\ sweep["job"] = Off
  BY DEF GoodsInv, AloneInv, OneSession, Handlers, Idle
<1>2. OneSession' /\ FreshOp' /\ FreshSweep'
  BY <1>1, OffShape DEF OneSession, FreshOp, FreshSweep, Handlers, Idle
<1>3. Balanced'
  BY <1>1, IdleBalance DEF IdleIsBalanced, GoodsConserved
<1>. QED BY <1>2, <1>3 DEF AloneInv

LEMMA DeletedLies ==
  ASSUME TypeOK, NEW l \in Ids, listing[l] # NULL, Delete({l})
  PROVE  \A m \in Ids : \A i \in Items :
           Lying(m, i)' = Lying(m, i) - (IF m = l /\ i = listing[l].offer.item THEN listing[l].offer.qty ELSE 0)
<1>. SUFFICES ASSUME NEW m \in Ids, NEW i \in Items
              PROVE  Lying(m, i)' = Lying(m, i) - (IF m = l /\ i = listing[l].offer.item
                                                     THEN listing[l].offer.qty ELSE 0)
  OBVIOUS
<1>1. Lying(m, i) \in Int
  BY LyingIsInt
<1>2. CASE m = l
  <2>1. listing'[m] = NULL
    BY <1>2 DEF Delete
  <2>2. listing[l].offer.qty \in Int
    BY OfferShape DEF TypeOK
  <2>. QED BY <1>2, <2>1, <2>2 DEF Lying
<1>3. CASE m # l
  BY <1>1, <1>3 DEF Delete, Lying
<1>. QED BY <1>2, <1>3

LEMMA BuyKeepsGoods == ASSUME GoodsInv, overlaps = 0, BuyCommit PROVE GoodsConserved'
<1>1. /\ TypeOK /\ TypeOK' /\ GoodsConserved
      /\ purse \in [Users -> Purse] /\ purse' \in [Users -> Purse]
      /\ op.me \in Users /\ op.id \in Ids /\ op.row \in Listing /\ op.row.seller # op.me
      /\ op.mine = purse[op.me] /\ op.row = listing[op.id]
  <2>1. TypeInv'
    BY BuyCommitTyped DEF GoodsInv
  <2>. QED BY <2>1, OpShape DEF BuyCommit, GoodsInv, AloneInv, FreshOp, TypeInv, TypeOK, Handlers, ChecksInv
<1>. DEFINE o == op.row.offer
<1>2. op.row # NULL /\ op.row.seller \in Users /\ o.item \in Items /\ o.qty \in Int
  BY <1>1, OfferShape
<1>3. \A x \in Users : \A i \in Items :
        purse'[x][i] = purse[x][i] + (IF x = op.me /\ i = o.item THEN o.qty ELSE 0)
  <2>. SUFFICES ASSUME NEW x \in Users, NEW i \in Items
                PROVE  purse'[x][i] = purse[x][i] + (IF x = op.me /\ i = o.item THEN o.qty ELSE 0)
    OBVIOUS
  <2>1. i # "cash" /\ i \in Columns /\ o.item # "cash" /\ purse[x][i] \in Nat
    BY <1>1, <1>2, OfferShape DEF Purse
  <2>2. purse[op.me] \in [Columns -> Nat] /\ purse[op.row.seller] \in [Columns -> Nat] /\ o.item \in Columns
    BY <1>1, <1>2, OfferShape DEF Purse
  <2>. DEFINE me == op.me
              seller == op.row.seller
              paid == op.mine["cash"] - o.price
              got == op.theirs["cash"] + o.price
              n == op.mine[o.item] + o.qty
  <2>3. /\ purse' = [purse EXCEPT ![me]["cash"] = paid, ![me][o.item] = n, ![seller]["cash"] = got]
        /\ me \in Users /\ seller \in Users /\ me # seller /\ n = purse[me][o.item] + o.qty
    BY <1>1, <1>2 DEF BuyCommit
  <2>. HIDE DEF me, seller, paid, got, n
  <2>4. /\ purse'[me] = [purse[me] EXCEPT !["cash"] = paid, ![o.item] = n]
        /\ purse'[seller] = [purse[seller] EXCEPT !["cash"] = got]
        /\ x \notin {me, seller} => purse'[x] = purse[x]
    BY <1>1, <2>3
  <2>5. CASE x = me
    BY <2>1, <2>2, <2>3, <2>4, <2>5 DEF me
  <2>6. CASE x # me
    BY <2>1, <2>2, <2>3, <2>4, <2>6 DEF me, seller
  <2>. QED BY <2>5, <2>6
<1>4. \A m \in Ids : \A i \in Items :
        Lying(m, i)' = Lying(m, i) - (IF m = op.id /\ i = o.item THEN o.qty ELSE 0)
  BY <1>1, <1>2, DeletedLies DEF BuyCommit
<1>. HIDE DEF o
<1>. QED BY <1>1, <1>2, <1>3, <1>4, StockAndTable

LEMMA CancelKeepsGoods == ASSUME GoodsInv, overlaps = 0, CancelCommit PROVE GoodsConserved'
<1>1. /\ TypeOK /\ TypeOK' /\ GoodsConserved
      /\ purse \in [Users -> Purse] /\ purse' \in [Users -> Purse]
      /\ op.me \in Users /\ op.id \in Ids /\ op.row \in Listing
      /\ op.mine = purse[op.me] /\ op.row = listing[op.id]
  <2>1. TypeInv'
    BY CancelCommitTyped DEF GoodsInv
  <2>. QED BY <2>1, OpShape DEF CancelCommit, GoodsInv, AloneInv, FreshOp, TypeInv, TypeOK, Handlers
<1>. DEFINE o == op.row.offer
<1>2. op.row # NULL /\ o.item \in Items /\ o.qty \in Int
  BY <1>1, OfferShape
<1>3. \A x \in Users : \A i \in Items :
        purse'[x][i] = purse[x][i] + (IF x = op.me /\ i = o.item THEN o.qty ELSE 0)
  BY <1>1, <1>2, OfferShape DEF CancelCommit, Purse
<1>4. \A m \in Ids : \A i \in Items :
        Lying(m, i)' = Lying(m, i) - (IF m = op.id /\ i = o.item THEN o.qty ELSE 0)
  BY <1>1, <1>2, DeletedLies DEF CancelCommit
<1>. HIDE DEF o
<1>. QED BY <1>1, <1>2, <1>3, <1>4, StockAndTable

LEMMA OfferKeepsGoods == ASSUME GoodsInv, overlaps = 0, OfferCommit PROVE GoodsConserved'
<1>1. /\ TypeOK /\ TypeOK' /\ GoodsConserved
      /\ purse \in [Users -> Purse] /\ purse' \in [Users -> Purse]
      /\ op.me \in Users /\ op.offer \in Offer /\ op.mine = purse[op.me] /\ NewId \in Ids
  <2>1. TypeInv'
    BY OfferCommitTyped DEF GoodsInv
  <2>. QED BY <2>1, OpShape DEF OfferCommit, GoodsInv, AloneInv, FreshOp, TypeInv, TypeOK, Handlers
<1>. DEFINE o == op.offer
            new == [seller |-> op.me, offer |-> o]
            l == NewId
<1>2. o.item \in Items /\ o.qty \in Int /\ -o.qty \in Int /\ new # NULL /\ new.offer = o
  <2>1. new \in Listing
    BY <1>1 DEF Listing
  <2>. QED BY <1>1, <2>1, OfferShape
<1>3. \A x \in Users : \A i \in Items :
        purse'[x][i] = purse[x][i] + (IF x = op.me /\ i = o.item THEN -o.qty ELSE 0)
  BY <1>1, <1>2, OfferShape DEF OfferCommit, Purse
<1>4. listing[l] = NULL
  BY <1>1, NewIdIsFree DEF Open
<1>5. \A m \in Ids : \A i \in Items :
        Lying(m, i)' = Lying(m, i) - (IF m = l /\ i = o.item THEN -o.qty ELSE 0)
  <2>1. listing' = [listing EXCEPT ![l] = new] /\ listing \in [Ids -> Listing \cup {NULL}]
    BY <1>1 DEF OfferCommit, TypeOK
  <2>. SUFFICES ASSUME NEW m \in Ids, NEW i \in Items
                PROVE  Lying(m, i)' = Lying(m, i) - (IF m = l /\ i = o.item THEN -o.qty ELSE 0)
    OBVIOUS
  <2>2. Lying(m, i) \in Int
    BY <1>1, LyingIsInt
  <2>3. CASE m = l
    <3>1. listing'[m] = new /\ listing[m] = NULL
      BY <1>1, <1>4, <2>1, <2>3
    <3>. HIDE DEF new, o, l
    <3>. QED BY <1>2, <2>3, <3>1 DEF Lying
  <2>4. CASE m # l
    <3>1. listing'[m] = listing[m]
      BY <2>1, <2>4
    <3>. HIDE DEF new, o, l
    <3>. QED BY <2>2, <2>4, <3>1 DEF Lying
  <2>. QED BY <2>3, <2>4
<1>. HIDE DEF o, new
<1>. QED BY <1>1, <1>2, <1>3, <1>5, StockAndTable

LEMMA GiftKeepsGoods == ASSUME GoodsInv, overlaps = 0, GiftCommit PROVE GoodsConserved'
<1>1. /\ TypeOK /\ TypeOK' /\ purse \in [Users -> Purse] /\ purse' \in [Users -> Purse]
      /\ op.me \in Users /\ op.to \in Users /\ op.to # op.me /\ op.qty \in Int
      /\ op.mine = purse[op.me] /\ op.theirs = purse[op.to]
  <2>1. TypeInv /\ TypeInv' /\ FreshOp /\ op.kind = "giving"
    BY GiftCommitTyped DEF GoodsInv, AloneInv, GiftCommit
  <2>2. TypeOK /\ TypeOK' /\ purse \in [Users -> Purse] /\ purse' \in [Users -> Purse]
    BY <2>1 DEF TypeInv, TypeOK
  <2>3. op.me \in Users /\ op.to \in Users /\ op.to # op.me /\ op.qty \in Quantities
    BY <2>1, <2>2, OpShape DEF TypeInv, ChecksInv, Handlers
  <2>4. op.mine = purse[op.me] /\ op.theirs = purse[op.to]
    BY <2>1 DEF FreshOp, Handlers
  <2>5. op.qty \in Int
    <3>1. \A n \in Quantities : n \in Int
      BY OfferShape
    <3>2. op.qty \in Quantities
      BY <2>3
    <3>. QED BY <3>1, <3>2
  <2>. QED BY <2>2, <2>3, <2>4, <2>5
<1>2. \A i : OnTable(i)' = OnTable(i)
  BY DEF GiftCommit, OnTable, Lying
<1>3. ASSUME NEW i \in Items PROVE Total(i, purse') = Total(i, purse)
  <2>. DEFINE had == [u \in Users |-> purse[u][i]]
              has == [u \in Users |-> purse'[u][i]]
  <2>1. \A u \in Users : had[u] \in Int /\ has[u] \in Int
    BY <1>1, OfferShape DEF Purse
  <2>2. CASE i = "part"
    <3>1. /\ has[op.me] = had[op.me] - op.qty /\ has[op.to] = had[op.to] + op.qty
          /\ \A u \in Users \ {op.me, op.to} : has[u] = had[u]
      BY <1>1, <2>2, OfferShape DEF GiftCommit, Purse
    <3>. HIDE DEF had, has
    <3>2. IsFiniteSet(Users)
      BY MarketAssumption
    <3>. DEFINE me == op.me
                to == op.to
                n == op.qty
    <3>3. me \in Users /\ to \in Users /\ me # to /\ n \in Int
      BY <1>1
    <3>4. has[me] = had[me] - n /\ has[to] = had[to] + n /\ \A u \in Users \ {me, to} : has[u] = had[u]
      BY <3>1
    <3>. HIDE DEF me, to, n
    <3>5. SumFunctionOnSet(has, Users) = SumFunctionOnSet(had, Users)
      BY ONLY <2>1, <3>2, <3>3, <3>4, SumTransfer, SMTT(60)
    <3>. QED BY <3>5 DEF had, has, Total
  <2>3. CASE i # "part"
    <3>1. has = had
      BY <1>1, <2>3, OfferShape DEF GiftCommit, Purse
    <3>. QED BY <3>1 DEF Total
  <2>. QED BY <2>2, <2>3
<1>. QED BY <1>2, <1>3 DEF GiftCommit, GoodsInv, GoodsConserved

\* With one sweep open, what will be is what it holds beside what is.
OneSweepSees ==
  \A s \in Sweepers : (\A t \in Sweepers \ {s} : sweep[t] = Off) =>
    /\ \A u \in Users, i \in Items :
         After(u, i) = IF <<u, i>> \in sweep[s].dirty THEN sweep[s].view[u][i] ELSE purse[u][i]
    /\ \A l \in Ids, i \in Items : Left(l, i) = IF l \in sweep[s].done THEN 0 ELSE Lying(l, i)

LEMMA SweepSees == OneSweepSees /\ OneSweepSees'
<1>1. OneSweepSees
  BY OffShape DEF OneSweepSees, After, Left
<1>. QED BY <1>1, PTL

LEMMA FetchKeepsGoods ==
  ASSUME GoodsInv, overlaps' = 0, NEW s \in Sweepers, SweepFetch(s)
  PROVE  AloneInv' /\ GoodsConserved'
<1>1. overlaps \in Nat /\ sweep \in [Sweepers -> Sweeps]
  BY DEF GoodsInv, TypeInv, TypeOK
<1>2. ~HandlerBusy /\ ~JobBusy /\ overlaps = 0 /\ UNCHANGED <<purse, listing, op>>
  BY <1>1 DEF SweepFetch, SweepOpening, Opening
<1>3. op = Idle /\ sweep["cmd"] = Off /\ sweep["job"] = Off
  BY <1>2 DEF HandlerBusy, JobBusy
<1>4. /\ \A t \in Sweepers : sweep[t] = Off
      /\ \A t \in Sweepers \ {s} : sweep'[t] = Off
      /\ sweep'[s].dirty = {} /\ sweep'[s].done = {} /\ \A u \in Users : sweep'[s].view[u] = NULL
      /\ sweep'[s].todo = {<<l, listing[l]>> : l \in old}
  <2>1. \A t \in Sweepers : sweep[t] = Off
    BY <1>3, OffShape
  <2>2. sweep'[s] = [Off EXCEPT !.todo = {<<l, listing[l]>> : l \in old}]
    BY <1>1, <2>1 DEF SweepFetch
  <2>3. \A t \in Sweepers \ {s} : sweep'[t] = Off
    BY <1>1, <2>1 DEF SweepFetch
  <2>. QED BY <2>1, <2>2, <2>3 DEF Off
<1>5. OneSession' /\ FreshOp' /\ FreshSweep'
  <2>1. \A t \in Sweepers \ {s} : sweep'[t].todo = {} /\ \A u \in Users : sweep'[t].view[u] = NULL
    BY <1>4, OffShape
  <2>2. FreshSweep'
    BY <1>2, <1>4, <2>1 DEF FreshSweep
  <2>3. OneSession'
    BY <1>2, <1>3, <1>4, OffShape DEF OneSession
  <2>. QED BY <1>2, <1>3, <2>2, <2>3 DEF FreshOp, Idle, Handlers
<1>6. Balanced'
  <2>1. \A l : \A i : Lying(l, i)' = Lying(l, i)
    BY <1>2 DEF Lying
  <2>2. /\ \A u \in Users, i \in Items : After(u, i)' = After(u, i)
        /\ \A l \in Ids, i \in Items : Left(l, i)' = Left(l, i)
    <3>1. /\ \A u \in Users, i \in Items : After(u, i) = purse[u][i]
          /\ \A l \in Ids, i \in Items : Left(l, i) = Lying(l, i)
      BY <1>4, SweepSees, OffShape DEF OneSweepSees
    <3>2. /\ \A u \in Users, i \in Items : After(u, i)' = purse'[u][i]
          /\ \A l \in Ids, i \in Items : Left(l, i)' = Lying(l, i)'
      <4>1. \A t \in Sweepers \ {s} : sweep'[t] = Off
        BY <1>4
      <4>2. \A u \in Users, i \in Items :
              After(u, i)' = IF <<u, i>> \in sweep'[s].dirty THEN sweep'[s].view[u][i] ELSE purse'[u][i]
        BY <4>1, SweepSees DEF OneSweepSees
      <4>3. \A l \in Ids, i \in Items : Left(l, i)' = IF l \in sweep'[s].done THEN 0 ELSE Lying(l, i)'
        BY <4>1, SweepSees DEF OneSweepSees
      <4>. QED BY <1>4, <4>2, <4>3
    <3>. QED BY <1>2, <2>1, <3>1, <3>2
  <2>. QED BY <1>2, <2>2 DEF GoodsInv, AloneInv, Balanced
<1>7. GoodsConserved'
  BY <1>2 DEF GoodsInv, GoodsConserved, OnTable, Lying
<1>. QED BY <1>5, <1>6, <1>7 DEF AloneInv

LEMMA SweepCommitKeepsGoods ==
  ASSUME GoodsInv, overlaps = 0, NEW s \in Sweepers, SweepCommit(s)
  PROVE  AloneInv' /\ GoodsConserved'
<1>1. OneSession /\ Balanced /\ sweep \in [Sweepers -> Sweeps]
  BY DEF GoodsInv, AloneInv, TypeInv, TypeOK
<1>2. sweep[s] # Off /\ op = Idle /\ \A t \in Sweepers \ {s} : sweep[t] = Off
  BY <1>1, OffShape DEF SweepCommit, OneSession
<1>3. sweep'["cmd"] = Off /\ sweep'["job"] = Off /\ op' = Idle
  BY <1>1, <1>2, OffShape DEF SweepCommit
<1>4. \A u \in Users, i \in Items : purse'[u][i] = After(u, i)
  <2>1. \A u \in Users, i \in Items :
          After(u, i) = IF <<u, i>> \in sweep[s].dirty THEN sweep[s].view[u][i] ELSE purse[u][i]
    BY <1>2, SweepSees DEF OneSweepSees
  <2>. QED BY <2>1, OfferShape DEF SweepCommit
<1>5. \A l \in Ids, i \in Items : Lying(l, i)' = Left(l, i)
  BY <1>2, SweepSees DEF OneSweepSees, SweepCommit, Delete, Lying
<1>6. \A i \in Items : Total(i, purse') + OnTable(i)' = Total(i, Purse0)
  BY <1>1, <1>4, <1>5 DEF Balanced, Total, OnTable
<1>7. Balanced'
  BY <1>3, <1>6, IdleBalance DEF IdleIsBalanced
<1>8. OneSession' /\ FreshOp' /\ FreshSweep'
  BY <1>3, OffShape DEF OneSession, FreshOp, FreshSweep, Handlers, Idle
<1>. QED BY <1>6, <1>7, <1>8 DEF AloneInv, GoodsConserved

LEMMA RowKeepsGoods ==
  ASSUME GoodsInv, overlaps = 0, NEW s \in Sweepers, SweepRow(s)
  PROVE  AloneInv' /\ GoodsConserved'
<1>. DEFINE w == sweep[s]
<1>1. PICK row \in w.todo :
        LET u == row[2].seller
            o == row[2].offer
            held == IF w.view[u] = NULL THEN purse[u] ELSE w.view[u]
        IN  sweep' = [sweep EXCEPT ![s] =
              [todo  |-> w.todo \ {row},
               done  |-> w.done \cup {row[1]},
               view  |-> [w.view EXCEPT ![u] = [held EXCEPT ![o.item] = @ + o.qty]],
               dirty |-> w.dirty \cup {<<u, o.item>>}]]
  BY DEF SweepRow
<1>. DEFINE u == row[2].seller
            o == row[2].offer
            k == o.item
            l == row[1]
            held == IF w.view[u] = NULL THEN purse[u] ELSE w.view[u]
            new == [held EXCEPT ![k] = @ + o.qty]
<1>2. /\ OneSession /\ FreshSweep /\ Balanced /\ SweepInv /\ TypeOK
      /\ purse \in [Users -> Purse] /\ sweep \in [Sweepers -> Sweeps]
      /\ UNCHANGED <<purse, listing, op>>
  BY DEF GoodsInv, AloneInv, TypeInv, TypeOK, SweepRow
<1>3. /\ w.todo \subseteq Ids \X Listing /\ w.done \subseteq Ids
      /\ w.view \in [Users -> Purse \cup {NULL}] /\ w.dirty \subseteq Users \X Items
  BY <1>2, SweepShape
<1>4. /\ l \in Ids /\ row[2] \in Listing /\ row[2] = listing[l] /\ l \notin w.done
      /\ u \in Users /\ k \in Items /\ k \in Columns /\ o.qty \in Nat /\ listing[l] # NULL
  BY <1>2, <1>3, OfferShape DEF FreshSweep
<1>5. op = Idle /\ op' = Idle /\ \A t \in Sweepers \ {s} : sweep[t] = Off /\ sweep'[t] = Off
  BY <1>1, <1>2, OffShape DEF OneSession
<1>6. held \in Purse /\ new \in [Columns -> Int] /\ new[k] = held[k] + o.qty
      /\ \A c \in Columns \ {k} : new[c] = held[c]
  <2>1. held \in Purse
    BY <1>2, <1>3, <1>4
  <2>2. held \in [Columns -> Int] /\ held[k] \in Int /\ o.qty \in Int
    BY <1>4, <2>1 DEF Purse
  <2>. HIDE DEF held, k, o
  <2>. QED BY <1>4, <2>1, <2>2
<1>7. /\ sweep'[s].todo = w.todo \ {row} /\ sweep'[s].done = w.done \cup {l}
      /\ sweep'[s].dirty = w.dirty \cup {<<u, k>>}
      /\ sweep'[s].view = [w.view EXCEPT ![u] = new]
  BY <1>1, <1>2
<1>8. /\ sweep'[s].view[u] = new /\ \A x \in Users \ {u} : sweep'[s].view[x] = w.view[x]
  BY <1>3, <1>4, <1>7
<1>9. FreshSweep'
  <2>1. \A t \in Sweepers \ {s} : sweep'[t].todo = {} /\ \A x \in Users : sweep'[t].view[x] = NULL
    BY <1>5, OffShape
  <2>2. ASSUME NEW r \in w.todo \ {row} PROVE r[2] = listing[r[1]] /\ r[1] \notin w.done \cup {l}
    <3>1. r[2] = listing[r[1]] /\ r[1] \notin w.done /\ r \in Ids \X Listing /\ row \in Ids \X Listing
      BY <1>2, <1>3 DEF FreshSweep
    <3>. QED BY <1>4, <3>1
  <2>3. ASSUME NEW x \in Users, sweep'[s].view[x] # NULL, NEW c \in Columns, <<x, c>> \notin sweep'[s].dirty
        PROVE  sweep'[s].view[x][c] = purse[x][c]
    <3>1. \A y \in Users : w.view[y] # NULL =>
            \A b \in Columns : <<y, b>> \notin w.dirty => w.view[y][b] = purse[y][b]
      BY <1>2 DEF FreshSweep
    <3>. HIDE DEF new, held, w
    <3>2. CASE x = u
      <4>1. c # k /\ <<x, c>> \notin w.dirty
        BY <1>7, <2>3, <3>2
      <4>. QED BY <1>6, <1>8, <3>1, <3>2, <4>1 DEF held
    <3>3. CASE x # u
      BY <1>7, <1>8, <2>3, <3>1, <3>3
    <3>. QED BY <3>2, <3>3
  <2>4. \A r \in sweep'[s].todo : r[2] = listing'[r[1]] /\ r[1] \notin sweep'[s].done
    BY <1>2, <1>7, <2>2
  <2>. QED BY <1>2, <2>1, <2>3, <2>4 DEF FreshSweep
<1>10. OneSession' /\ FreshOp'
  BY <1>5, OffShape DEF OneSession, FreshOp, Handlers, Idle
<1>11. ASSUME NEW x \in Users, NEW i \in Items
       PROVE  After(x, i)' = After(x, i) + (IF x = u /\ i = k THEN o.qty ELSE 0)
  <2>1. After(x, i) = IF <<x, i>> \in w.dirty THEN w.view[x][i] ELSE purse[x][i]
    BY <1>5, SweepSees DEF OneSweepSees
  <2>2. After(x, i)' = IF <<x, i>> \in sweep'[s].dirty THEN sweep'[s].view[x][i] ELSE purse[x][i]
    BY <1>2, <1>5, SweepSees DEF OneSweepSees
  <2>3. i \in Columns /\ After(x, i) \in Int
    BY <1>2, OfferShape, AfterIsInt
  <2>4. <<x, i>> \in w.dirty => w.view[x] # NULL
    BY <1>2 DEF SweepInv
  <2>5. w.view[x] # NULL /\ <<x, i>> \notin w.dirty => w.view[x][i] = purse[x][i]
    BY <1>2, <2>3 DEF FreshSweep
  <2>. HIDE DEF new, w, k, u
  <2>6. CASE x = u
    <3>1. held[i] = After(x, i)
      BY <2>1, <2>4, <2>5, <2>6
    <3>2. CASE i = k
      BY <1>6, <1>7, <1>8, <2>2, <2>6, <3>1, <3>2
    <3>3. CASE i # k
      <4>1. new[i] = held[i] /\ (<<x, i>> \in sweep'[s].dirty <=> <<x, i>> \in w.dirty)
        BY <1>6, <1>7, <2>3, <3>3
      <4>. QED BY <1>8, <2>1, <2>2, <2>3, <2>6, <3>1, <3>3, <4>1
    <3>. QED BY <3>2, <3>3
  <2>7. CASE x # u
    <3>1. <<x, i>> \in sweep'[s].dirty <=> <<x, i>> \in w.dirty
      BY <1>7, <2>7
    <3>. QED BY <1>8, <2>1, <2>2, <2>3, <2>7, <3>1
  <2>. QED BY <2>6, <2>7
<1>12. ASSUME NEW m \in Ids, NEW i \in Items
       PROVE  /\ Left(m, i)' = Left(m, i) - (IF m = l /\ i = k THEN o.qty ELSE 0)
              /\ Left(m, i) \in Int
  <2>1. Left(m, i) = IF m \in w.done THEN 0 ELSE Lying(m, i)
    BY <1>5, SweepSees DEF OneSweepSees
  <2>2. Left(m, i)' = IF m \in sweep'[s].done THEN 0 ELSE Lying(m, i)'
    BY <1>5, SweepSees DEF OneSweepSees
  <2>3. Lying(m, i) \in Int /\ Lying(m, i)' = Lying(m, i)
    BY <1>2, LyingIsInt DEF Lying
  <2>4. Lying(l, i) = IF i = k THEN o.qty ELSE 0
    BY <1>4 DEF Lying
  <2>. HIDE DEF w, l, k, o
  <2>. QED BY <1>4, <1>7, <2>1, <2>2, <2>3, <2>4
<1>13. Balanced'
  <2>. SUFFICES ASSUME NEW i \in Items
                PROVE  SumFunctionOnSet([x \in Users |-> After(x, i)'], Users)
                         + SumFunctionOnSet([m \in Ids |-> Left(m, i)'], Ids)
                       = SumFunctionOnSet([x \in Users |-> After(x, i)], Users)
                         + SumFunctionOnSet([m \in Ids |-> Left(m, i)], Ids)
    BY <1>2 DEF Balanced
  <2>. DEFINE had == [x \in Users |-> After(x, i)]
              has == [x \in Users |-> After(x, i)']
              lay == [m \in Ids |-> Left(m, i)]
              lies == [m \in Ids |-> Left(m, i)']
              n == IF i = k THEN o.qty ELSE 0
  <2>1. \A x \in Users : After(x, i) \in Int
    BY <1>2, AfterIsInt
  <2>2. \A x \in Users : After(x, i)' = After(x, i) + (IF x = u THEN n ELSE 0)
    BY <1>11, <2>1
  <2>3. \A m \in Ids : Left(m, i) \in Int /\ Left(m, i)' = Left(m, i) - (IF m = l THEN n ELSE 0)
    BY <1>12
  <2>4. n \in Int /\ IsFiniteSet(Users) /\ IsFiniteSet(Ids) /\ u \in Users /\ l \in Ids
    BY <1>4, MarketAssumption
  <2>. HIDE DEF n, u, l
  <2>5. (\A x \in Users : had[x] \in Int /\ has[x] \in Int) /\ \A x \in Users \ {u} : has[x] = had[x]
    BY <2>1, <2>2, <2>4
  <2>6. (\A m \in Ids : lay[m] \in Int /\ lies[m] \in Int) /\ \A m \in Ids \ {l} : lies[m] = lay[m]
    BY <2>3, <2>4
  <2>7. has[u] = had[u] + n /\ lies[l] = lay[l] - n
    BY <2>1, <2>2, <2>3, <2>4
  <2>. HIDE DEF had, has, lay, lies
  <2>8. SumFunctionOnSet(has, Users) = SumFunctionOnSet(had, Users) - had[u] + has[u]
    BY ONLY <2>4, <2>5, SumChange, SMTT(60)
  <2>9. SumFunctionOnSet(lies, Ids) = SumFunctionOnSet(lay, Ids) - lay[l] + lies[l]
    BY ONLY <2>4, <2>6, SumChange, SMTT(60)
  <2>10. SumFunctionOnSet(had, Users) \in Int /\ SumFunctionOnSet(lay, Ids) \in Int /\ had[u] \in Int /\ lay[l] \in Int
    BY <2>4, <2>5, <2>6, SumIsInt
  <2>11. SumFunctionOnSet(has, Users) + SumFunctionOnSet(lies, Ids)
         = SumFunctionOnSet(had, Users) + SumFunctionOnSet(lay, Ids)
    BY ONLY <2>4, <2>7, <2>8, <2>9, <2>10
  <2>. QED BY <2>11 DEF had, has, lay, lies
<1>14. GoodsConserved'
  BY <1>2 DEF SweepRow, GoodsInv, GoodsConserved, OnTable, Lying
<1>. QED BY <1>9, <1>10, <1>13, <1>14 DEF AloneInv

LEMMA GoodsStep == GoodsInv /\ [Next]_vars => GoodsInv'
<1>. SUFFICES ASSUME GoodsInv, [Next]_vars PROVE AloneInv' /\ GoodsConserved'
  BY TypeStep DEF GoodsInv
<1>1. CASE overlaps' # 0
  BY <1>1 DEF AloneInv, GoodsConserved
<1>2. CASE overlaps' = 0
  <2>. USE <1>2
  <2>1. CASE HandlerBegin
    BY <2>1, BeginKeepsGoods, FetchKeepsGoods, OffShape DEF HandlerBegin
  <2>2. CASE BuyReadRow \/ BuyReadSeller \/ CancelReadRow \/ OfferCount \/ \E v \in Users : GiftReadFriend(v)
    BY <2>2, ProceedKeepsGoods
  <2>3. CASE BuyCommit \/ CancelCommit \/ OfferCommit \/ GiftCommit
    <3>1. op.kind \in Handlers /\ op' = Idle /\ UNCHANGED <<sweep, overlaps>>
      BY <2>3 DEF BuyCommit, CancelCommit, OfferCommit, GiftCommit, Handlers
    <3>. QED BY <2>3, <3>1, BuyKeepsGoods, CancelKeepsGoods, OfferKeepsGoods, GiftKeepsGoods, CommitKeepsAlone
  <2>4. CASE \E s \in Sweepers : SweepFetch(s) \/ SweepRow(s) \/ SweepCommit(s)
    BY <2>4, FetchKeepsGoods, RowKeepsGoods, SweepCommitKeepsGoods DEF SweepRow, SweepCommit
  <2>5. CASE (\E l \in Ids : Age(l)) \/ UNCHANGED vars
    <3>1. UNCHANGED <<purse, listing, op, sweep, overlaps>>
      BY <2>5 DEF Age, vars
    <3>2. OneSession' /\ FreshOp'
      BY <3>1 DEF GoodsInv, AloneInv, OneSession, FreshOp, NewId, Open
    <3>. QED BY <3>1, <3>2, ReadsKeepGoods
  <2>. QED BY <2>1, <2>2, <2>3, <2>4, <2>5, OffShape DEF Next, HandlerStep, JobStep
<1>. QED BY <1>1, <1>2

\* While no two sessions have overlapped, every piece of goods is in a stock or
\* on the table.
THEOREM GoodsAreConserved == Spec => []GoodsConserved
<1>1. GoodsInv => GoodsConserved
  BY DEF GoodsInv
<1>. QED BY <1>1, GoodsInit, GoodsStep, PTL DEF Spec
=============================================================================
