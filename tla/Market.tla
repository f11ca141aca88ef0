-------------------------------- MODULE Market --------------------------------
(***************************************************************************)
(* The player market (services/market.py, handlers/market.py and the sweep *)
(* job of handlers/jobs.py): offers, purchases, cancellations, gifts and   *)
(* the return of offers that have passed their 24 hours.                   *)
(*                                                                         *)
(* Updates are handled one at a time, but a job is a task of its own: it   *)
(* may run between any two awaits of a handler.  Each opens an ORM session *)
(* that reads a row once, keeps it, and at commit writes the columns it    *)
(* changed as plain values, so a step here is one read or one commit.  The *)
(* database's locks only delay a commit and are left out; a DELETE of a    *)
(* row that is gone is a warning.                                          *)
(***************************************************************************)
EXTENDS Integers, FiniteSets, FiniteSetsExt, Functions

CONSTANTS
  Users,
  Items,        \* the keys of MARKET_ITEMS; gifts are in "part"
  Capped,       \* the items whose stock res_cap limits: wood and iron
  Cap,          \* that limit (the shelter's level stays the same here)
  Quantities,   \* quantities an offer or a gift may have
  Prices,       \* prices an offer may have
  Purse0,       \* Purse0[u]: cash and stock of u in the beginning
  Ids,          \* 1 .. n: bounds the offers open at one time
  MaxPerUser,   \* MARKET_MAX_PER_USER
  MaxOverlaps,  \* bound on the sessions opened while another one is open
  NULL

Columns == {"cash"} \cup Items
Purse   == [Columns -> Nat]
Offer   == [item : Items, qty : Quantities, price : Prices]
Listing == [seller : Users, offer : Offer]

ASSUME MarketAssumption ==
  /\ "part" \in Items /\ "cash" \notin Items
  /\ Capped \subseteq Items /\ "part" \notin Capped
  /\ Cap \in Nat /\ MaxPerUser \in Nat /\ MaxOverlaps \in Nat
  /\ Quantities \subseteq Nat \ {0} /\ Prices \subseteq Nat \ {0}
  /\ Purse0 \in [Users -> Purse]
  /\ IsFiniteSet(Users)
  /\ Ids \subseteq Nat \ {0} /\ IsFiniteSet(Ids)
  /\ NULL \notin Purse \cup Listing

VARIABLES
  purse,     \* users: cash, legendary_parts, wood, iron
  listing,   \* market_listings by id, NULL where there is no row
  old,       \* the ids of rows created more than MARKET_TTL_HOURS ago
  op,        \* what the session of the running handler has read
  sweep,     \* the sessions that sweep: a handler's ("cmd"), the job's
  overlaps   \* sessions opened beside another one so far

vars == <<purse, listing, old, op, sweep, overlaps>>

Sweepers == {"cmd", "job"}

Idle == [kind |-> "idle"]
Ops ==
  {Idle}
  \cup [kind : {"buyer", "owner"}, me : Users, mine : Purse, id : Ids]
  \cup [kind : {"priced", "refund"}, me : Users, mine : Purse, id : Ids, row : Listing]
  \cup [kind : {"paying"}, me : Users, mine : Purse, id : Ids, row : Listing,
        theirs : Purse]
  \cup [kind : {"offering", "counted"}, me : Users, mine : Purse, offer : Offer]
  \cup [kind : {"giver"}, me : Users, mine : Purse, qty : Quantities]
  \cup [kind : {"giving"}, me : Users, mine : Purse, qty : Quantities,
        to : Users, theirs : Purse]

\* A sweep: the rows fetched and not yet worked on, the ids to delete, the
\* sellers' rows as the session sees them, and the columns it has changed.
Off    == [todo |-> {}, done |-> {}, view |-> [u \in Users |-> NULL], dirty |-> {}]
Sweeps == [todo : SUBSET (Ids \X Listing), done : SUBSET Ids,
           view : [Users -> Purse \cup {NULL}], dirty : SUBSET (Users \X Items)]

TypeOK ==
  /\ purse \in [Users -> Purse]
  /\ listing \in [Ids -> Listing \cup {NULL}]
  /\ old \subseteq Ids
  /\ op \in Ops
  /\ sweep \in [Sweepers -> Sweeps]
  /\ overlaps \in Nat

Init ==
  /\ purse = Purse0
  /\ listing = [l \in Ids |-> NULL]
  /\ old = {}
  /\ op = Idle
  /\ sweep = [s \in Sweepers |-> Off]
  /\ overlaps = 0

-----------------------------------------------------------------------------
Open == {l \in Ids : listing[l] # NULL}
OpenOf(u) == {l \in Open : listing[l].seller = u}

\* One update at a time; the job's session may be open meanwhile.
HandlerBusy == op # Idle \/ sweep["cmd"] # Off
JobBusy     == sweep["job"] # Off
Opening(beside) == overlaps' = overlaps + (IF beside THEN 1 ELSE 0)
                   /\ overlaps' <= MaxOverlaps

\* A handler begins: get_or_create reads the player's row.
Begin(session) ==
  /\ ~HandlerBusy
  /\ Opening(JobBusy)
  /\ op' = session
  /\ UNCHANGED <<purse, listing, old, sweep>>

\* A handler goes on with what it has read, or ends with a refusal.
Proceed(session) == /\ op' = session
                    /\ UNCHANGED <<purse, listing, old, sweep, overlaps>>

\* Rows leave the table.
Delete(ids) == /\ listing' = [l \in Ids |-> IF l \in ids THEN NULL ELSE listing[l]]
               /\ old' = old \ ids

-----------------------------------------------------------------------------
(* buy_listing: the age of the offer is not looked at.                     *)

BuyBegin(u, l) == Begin([kind |-> "buyer", me |-> u, mine |-> purse[u], id |-> l])

MayBuy(b, row) ==
  LET o == row.offer
  IN  /\ row.seller # b.me
      /\ b.mine["cash"] >= o.price
      /\ o.item \in Capped => b.mine[o.item] + o.qty <= Cap

BuyReadRow ==
  /\ op.kind = "buyer"
  /\ LET row == listing[op.id]
     IN  Proceed(IF row # NULL /\ MayBuy(op, row)
                   THEN [kind |-> "priced", me |-> op.me, mine |-> op.mine,
                         id |-> op.id, row |-> row]
                   ELSE Idle)

BuyReadSeller ==
  /\ op.kind = "priced"
  /\ Proceed([kind |-> "paying", me |-> op.me, mine |-> op.mine, id |-> op.id,
              row |-> op.row, theirs |-> purse[op.row.seller]])

BuyCommit ==
  /\ op.kind = "paying"
  /\ LET o == op.row.offer
     IN  purse' = [purse EXCEPT
                     ![op.me]["cash"] = op.mine["cash"] - o.price,
                     ![op.me][o.item] = op.mine[o.item] + o.qty,
                     ![op.row.seller]["cash"] = op.theirs["cash"] + o.price]
  /\ Delete({op.id})
  /\ op' = Idle
  /\ UNCHANGED <<sweep, overlaps>>

-----------------------------------------------------------------------------
(* cancel_listing                                                          *)

CancelBegin(u, l) == Begin([kind |-> "owner", me |-> u, mine |-> purse[u], id |-> l])

CancelReadRow ==
  /\ op.kind = "owner"
  /\ LET row == listing[op.id]
     IN  Proceed(IF row # NULL /\ row.seller = op.me
                   THEN [kind |-> "refund", me |-> op.me, mine |-> op.mine,
                         id |-> op.id, row |-> row]
                   ELSE Idle)

\* Mistake: the goods are given back, the offer stays.
CancelCommitKeepsRow ==
  /\ op.kind = "refund"
  /\ LET o == op.row.offer
     IN  purse' = [purse EXCEPT ![op.me][o.item] = op.mine[o.item] + o.qty]
  /\ op' = Idle
  /\ UNCHANGED <<listing, old, sweep, overlaps>>

CancelCommit ==
  /\ op.kind = "refund"
  /\ LET o == op.row.offer
     IN  purse' = [purse EXCEPT ![op.me][o.item] = op.mine[o.item] + o.qty]
  /\ Delete({op.id})
  /\ op' = Idle
  /\ UNCHANGED <<sweep, overlaps>>

-----------------------------------------------------------------------------
(* create_listing: the goods leave the stock and lie on the table.         *)

\* The id SQLite gives a new row: one more than the largest in use, so the
\* id of a deleted offer may come back.
NewId == 1 + Max({0} \cup Open)

OfferBegin(u, o) ==
  /\ NewId \in Ids   \* the bound; only this handler makes rows
  /\ Begin([kind |-> "offering", me |-> u, mine |-> purse[u], offer |-> o])

\* Mistake: the stock is not checked.
OfferCountNoStock ==
  /\ op.kind = "offering"
  /\ Proceed(IF Cardinality(OpenOf(op.me)) < MaxPerUser
               THEN [op EXCEPT !.kind = "counted"]
               ELSE Idle)

OfferCount ==
  /\ op.kind = "offering"
  /\ Proceed(IF /\ Cardinality(OpenOf(op.me)) < MaxPerUser
                /\ op.mine[op.offer.item] >= op.offer.qty
               THEN [op EXCEPT !.kind = "counted"]
               ELSE Idle)

OfferCommit ==
  /\ op.kind = "counted"
  /\ purse' = [purse EXCEPT ![op.me][op.offer.item] =
                              op.mine[op.offer.item] - op.offer.qty]
  /\ listing' = [listing EXCEPT ![NewId] = [seller |-> op.me, offer |-> op.offer]]
  /\ op' = Idle
  /\ UNCHANGED <<old, sweep, overlaps>>

-----------------------------------------------------------------------------
(* gift_parts                                                              *)

GiftBegin(u, n) == Begin([kind |-> "giver", me |-> u, mine |-> purse[u], qty |-> n])

\* The friend's row is read; nobody gives to himself or more than he has.
GiftReadFriend(v) ==
  /\ op.kind = "giver"
  /\ Proceed(IF v # op.me /\ op.mine["part"] >= op.qty
               THEN [kind |-> "giving", me |-> op.me, mine |-> op.mine,
                     qty |-> op.qty, to |-> v, theirs |-> purse[v]]
               ELSE Idle)

GiftCommit ==
  /\ op.kind = "giving"
  /\ purse' = [purse EXCEPT ![op.me]["part"] = op.mine["part"] - op.qty,
                            ![op.to]["part"] = op.theirs["part"] + op.qty]
  /\ op' = Idle
  /\ UNCHANGED <<listing, old, sweep, overlaps>>

-----------------------------------------------------------------------------
(* sweep_expired, run by the job and by the market's own pages.            *)

SweepOpening(s) == IF s = "job" THEN ~JobBusy /\ Opening(HandlerBusy)
                                ELSE ~HandlerBusy /\ Opening(JobBusy)

\* Mistake: the cutoff is compared the wrong way round.
SweepFetchYoung(s) ==
  /\ Open \ old # {}
  /\ SweepOpening(s)
  /\ sweep' = [sweep EXCEPT ![s].todo = {<<l, listing[l]>> : l \in Open \ old}]
  /\ UNCHANGED <<purse, listing, old, op>>

SweepFetch(s) ==
  /\ old # {}
  /\ SweepOpening(s)
  /\ sweep' = [sweep EXCEPT ![s].todo = {<<l, listing[l]>> : l \in old}]
  /\ UNCHANGED <<purse, listing, old, op>>

\* One fetched row: the seller's row is read unless the session holds it,
\* and the goods are added to what the session holds.
SweepRow(s) ==
  /\ \E row \in sweep[s].todo :
       LET w == sweep[s]
           u == row[2].seller
           o == row[2].offer
           held == IF w.view[u] = NULL THEN purse[u] ELSE w.view[u]
       IN  sweep' = [sweep EXCEPT ![s] =
             [todo  |-> w.todo \ {row},
              done  |-> w.done \cup {row[1]},
              view  |-> [w.view EXCEPT ![u] = [held EXCEPT ![o.item] = @ + o.qty]],
              dirty |-> w.dirty \cup {<<u, o.item>>}]]
  /\ UNCHANGED <<purse, listing, old, op, overlaps>>

\* Mistake: the commit writes the whole rows it has read.
SweepCommitWholeRow(s) ==
  LET w == sweep[s]
  IN  /\ w.todo = {} /\ w.done # {}
      /\ purse' = [u \in Users |-> IF w.view[u] # NULL THEN w.view[u] ELSE purse[u]]
      /\ Delete(w.done)
      /\ sweep' = [sweep EXCEPT ![s] = Off]
      /\ UNCHANGED <<op, overlaps>>

SweepCommit(s) ==
  LET w == sweep[s]
  IN  /\ w.todo = {} /\ w.done # {}
      /\ purse' = [u \in Users |->
                     [c \in Columns |-> IF <<u, c>> \in w.dirty THEN w.view[u][c]
                                                               ELSE purse[u][c]]]
      /\ Delete(w.done)
      /\ sweep' = [sweep EXCEPT ![s] = Off]
      /\ UNCHANGED <<op, overlaps>>

\* 24 hours pass for an offer.
Age(l) ==
  /\ l \in Open \ old
  /\ old' = old \cup {l}
  /\ UNCHANGED <<purse, listing, op, sweep, overlaps>>

-----------------------------------------------------------------------------
HandlerStep == \/ BuyReadRow \/ BuyReadSeller \/ BuyCommit
               \/ CancelReadRow \/ CancelCommit
               \/ OfferCount \/ OfferCommit
               \/ \E v \in Users : GiftReadFriend(v)
               \/ GiftCommit
               \/ SweepRow("cmd") \/ SweepCommit("cmd")

HandlerBegin == \/ \E u \in Users, l \in Ids : BuyBegin(u, l) \/ CancelBegin(u, l)
                \/ \E u \in Users, o \in Offer : OfferBegin(u, o)
                \/ \E u \in Users, n \in Quantities : GiftBegin(u, n)
                \/ SweepFetch("cmd")

JobStep == SweepRow("job") \/ SweepCommit("job")

Next == \/ HandlerBegin \/ HandlerStep
        \/ SweepFetch("job") \/ JobStep
        \/ \E l \in Ids : Age(l)

Spec == Init /\ [][Next]_vars

(* Time passes, what awaits the database goes on, and JobQueue starts the  *)
(* sweep every five minutes; strongly fair, since the bound on overlaps    *)
(* can hold the job back while a handler runs.                             *)
Fairness == /\ \A l \in Ids : WF_vars(Age(l))
            /\ WF_vars(HandlerStep) /\ WF_vars(JobStep)
            /\ SF_vars(SweepFetch("job"))

FairSpec == Spec /\ Fairness

-----------------------------------------------------------------------------
(* Properties.                                                             *)

Total(c, rows) == SumFunctionOnSet([u \in Users |-> rows[u][c]], Users)
Lying(l, i)    == IF listing[l] # NULL /\ listing[l].offer.item = i
                    THEN listing[l].offer.qty ELSE 0
OnTable(i)     == SumFunctionOnSet([l \in Ids |-> Lying(l, i)], Ids)

\* The market makes and loses no cash, whatever sessions overlap: a sweep
\* that holds a stale row of a seller writes the column of the goods only.
MoneyConserved == Total("cash", purse) = Total("cash", Purse0)

\* While no two sessions have overlapped, every piece of goods is in a stock
\* or on the table: nothing is doubled or lost by sales, returns, gifts and
\* ids that come back.  (Overlapping sessions do double and lose goods.)
GoodsConserved ==
  overlaps = 0 =>
    \A i \in Items : Total(i, purse) + OnTable(i) = Total(i, Purse0)

\* Every offer leaves the table: sold, cancelled or returned by the sweep.
OffersLeaveTheTable == \A l \in Ids : listing[l] # NULL ~> listing[l] = NULL
=============================================================================
