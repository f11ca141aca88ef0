------------------------------ MODULE TeamsProofs ------------------------------
(***************************************************************************)
(* Theorems about the cartels.                                             *)
(***************************************************************************)
EXTENDS Teams, Sums, SequenceTheorems

-----------------------------------------------------------------------------
(* The database after an assignment to one of its columns.                 *)

LEMMA Constants ==
  /\ MaxId \in Nat /\ StartCash \in Nat /\ CreateCost \in Nat /\ RenameCost \in Nat /\ LastDay \in Nat
  /\ MaxCrashes \in Nat /\ CreateLevel \in Nat \ {0} /\ JoinLevel \in Nat \ {0}
  /\ DaysPerWeek \in Nat \ {0} /\ History \in Nat \ {0}
  /\ MaxLevel \in Nat \ {0} /\ Levels \subseteq Nat \ {0} /\ 1 \in Levels
  /\ IsFiniteSet(Users) /\ Ids \subseteq Nat \ {0} /\ Days \subseteq Nat
  /\ NULL \notin Users /\ NULL \notin Names /\ NULL \notin Nat
  /\ NULL \notin Team /\ NULL \notin Member /\ NULL \notin Session
<1>1. /\ MaxId \in Nat /\ StartCash \in Nat /\ CreateCost \in Nat /\ RenameCost \in Nat /\ LastDay \in Nat
      /\ MaxCrashes \in Nat /\ CreateLevel \in Nat \ {0} /\ JoinLevel \in Nat \ {0}
      /\ DaysPerWeek \in Nat \ {0} /\ History \in Nat \ {0} /\ MaxLevel \in Nat \ {0} /\ IsFiniteSet(Users)
  BY TeamsAssumption
<1>2. /\ NULL \notin Users /\ NULL \notin Names /\ NULL \notin Nat
      /\ NULL \notin Team /\ NULL \notin Member /\ NULL \notin Session
  BY TeamsAssumption
<1>. QED BY <1>1, <1>2 DEF Levels, Ids, Days

LEMMA Fields ==
  ASSUME NEW d \in Database
  PROVE  /\ d.cash \in [Users -> Nat] /\ d.level \in [Users -> Nat \ {0}]
         /\ d.medals \in [Users -> Medals] /\ d.pend \in [Users -> Pending]
         /\ d.team \in [Ids -> Team \cup {NULL}] /\ d.member \in [Users -> Member \cup {NULL}]
         /\ d.request \subseteq Ids \X Users /\ d.daily \in [Ids -> Daily]
         /\ d.chat \in [Ids -> {c \in Seq(Users) : Len(c) <= History}]
         /\ d.weekKey \in Weeks \cup {NULL} /\ d.regraded \in BOOLEAN
BY DEF Database

LEMMA FireTyped == ASSUME NEW d \in Database, NEW us PROVE Fire(d, us) \in Database
BY DEF Database, Fire

LEMMA DisbandedTyped == ASSUME NEW d \in Database, NEW t \in Ids PROVE Disbanded(d, t) \in Database
BY DEF Database, Fire, Disbanded

LEMMA WipedTyped == ASSUME NEW d \in Database, NEW u \in Users PROVE Wiped(d, u) \in Database
<1>. DEFINE t == d.member[u].team
            left == IF d.member[u] = NULL THEN d
                    ELSE IF Owns(d, u) /\ HasTeam(d, u)
                      THEN [Disbanded(d, t) EXCEPT !.daily[t] = NewDay]
                      ELSE Fire(d, {u})
<1>1. left \in Database
  <2>1. CASE d.member[u] # NULL
    <3>1. t \in Ids
      BY <2>1, Fields DEF Member
    <3>2. NewDay \in Daily
      BY DEF NewDay, Daily
    <3>3. [Disbanded(d, t) EXCEPT !.daily[t] = NewDay] \in Database
      BY <3>1, <3>2, DisbandedTyped DEF Database
    <3>. QED BY <2>1, <3>3, FireTyped
  <2>. QED BY <2>1
<1>2. NoMedals \in Medals /\ Ask("none") \in Pending /\ StartCash \in Nat
  BY Constants DEF NoMedals, Medals, Ask, Pending
<1>3. Wiped(d, u) = [left EXCEPT !.cash[u] = StartCash, !.level[u] = 1,
                                 !.medals[u] = NoMedals, !.pend[u] = Ask("none")]
  BY DEF Wiped
<1>. HIDE DEF left
<1>4. /\ [left.cash EXCEPT ![u] = StartCash] \in [Users -> Nat]
      /\ [left.level EXCEPT ![u] = 1] \in [Users -> Nat \ {0}]
      /\ [left.medals EXCEPT ![u] = NoMedals] \in [Users -> Medals]
      /\ [left.pend EXCEPT ![u] = Ask("none")] \in [Users -> Pending]
  BY <1>1, <1>2, Fields
<1>. QED BY <1>1, <1>3, <1>4 DEF Database

-----------------------------------------------------------------------------
(* Levels.                                                                 *)

Needs == {Need, OldNeed}

LEMMA StepsIsNat ==
  ASSUME NEW need \in Needs, NEW l \in Levels, NEW k \in l .. MaxLevel
  PROVE  Steps(need, l, k) \in Nat /\ Steps(need, l, l) = 0
<1>1. need \in [Levels -> Nat \ {0}] /\ MaxLevel \in Nat
  BY TeamsAssumption DEF Needs
<1>2. l \in Nat /\ k \in Nat /\ k - 1 \in Int
  BY <1>1 DEF Levels
<1>3. IsFiniteSet(l .. k - 1)
  BY <1>2, FS_Interval
<1>4. \A i \in l .. k - 1 : need[i] \in Nat
  BY <1>1, <1>2 DEF Levels
<1>5. SumFunctionOnSet(need, l .. k - 1) \in Nat
  BY <1>3, <1>4, SumIsNat
<1>6. l .. l - 1 = {}
  BY <1>2
<1>. QED BY <1>5, <1>6, SumEmpty DEF Steps

LEMMA StepsNext ==
  ASSUME NEW need \in Needs, NEW l \in Levels, NEW k \in l .. MaxLevel, k + 1 \in l .. MaxLevel
  PROVE  Steps(need, l, k + 1) = Steps(need, l, k) + need[k]
<1>1. need \in [Levels -> Nat \ {0}] /\ MaxLevel \in Nat
  BY TeamsAssumption DEF Needs
<1>2. l \in Nat /\ l >= 1 /\ k \in Nat /\ k - 1 \in Int /\ k \in Levels
  BY <1>1 DEF Levels
<1>3. IsFiniteSet(l .. k - 1) /\ k \notin l .. k - 1 /\ (l .. k - 1) \cup {k} = l .. (k + 1) - 1
  <2>1. IsFiniteSet(l .. k - 1)
    BY <1>2, FS_Interval
  <2>2. (k + 1) - 1 = k /\ k \in l .. k
    BY <1>2
  <2>3. ASSUME NEW i PROVE i \in (l .. k - 1) \cup {k} <=> i \in l .. k
    BY <1>2
  <2>4. (l .. k - 1) \cup {k} = l .. k
    BY <2>3
  <2>. QED BY <1>2, <2>1, <2>2, <2>4
<1>4. \A i \in (l .. k - 1) \cup {k} : need[i] \in Int
  BY <1>1, <1>2 DEF Levels
<1>5. SumFunctionOnSet(need, (l .. k - 1) \cup {k}) = need[k] + SumFunctionOnSet(need, l .. k - 1)
  BY <1>3, <1>4, SumAdd
<1>6. Steps(need, l, k) \in Nat /\ need[k] \in Nat
  BY <1>1, <1>2, StepsIsNat
<1>7. Steps(need, l, k + 1) = SumFunctionOnSet(need, (l .. k - 1) \cup {k})
  BY <1>3 DEF Steps
<1>. QED BY <1>5, <1>6, <1>7 DEF Steps

LEMMA StepsSplit ==
  ASSUME NEW need \in Needs, NEW l \in Levels, NEW k \in l .. MaxLevel
  PROVE  Steps(need, 1, k) = Steps(need, 1, l) + Steps(need, l, k)
<1>. DEFINE N == {n \in Nat : l + n <= MaxLevel =>
                    Steps(need, 1, l + n) = Steps(need, 1, l) + Steps(need, l, l + n)}
<1>1. l \in Nat /\ MaxLevel \in Nat /\ l \in 1 .. MaxLevel /\ 1 \in Levels /\ l \in l .. MaxLevel
  BY Constants DEF Levels
<1>2. Steps(need, 1, l) \in Nat /\ Steps(need, l, l) = 0
  BY <1>1, StepsIsNat
<1>3. 0 \in N
  BY <1>1, <1>2
<1>4. ASSUME NEW n \in Nat, n \in N PROVE n + 1 \in N
  <2>. SUFFICES ASSUME l + (n + 1) <= MaxLevel
                PROVE  Steps(need, 1, l + (n + 1)) = Steps(need, 1, l) + Steps(need, l, l + (n + 1))
    OBVIOUS
  <2>1. /\ l + n \in l .. MaxLevel /\ (l + n) + 1 \in l .. MaxLevel /\ l + (n + 1) = (l + n) + 1
        /\ l + n \in 1 .. MaxLevel /\ (l + n) + 1 \in 1 .. MaxLevel /\ l + n <= MaxLevel /\ l + n \in Levels
    BY <1>1 DEF Levels
  <2>2. Steps(need, 1, (l + n) + 1) = Steps(need, 1, l + n) + need[l + n]
    BY <1>1, <2>1, StepsNext
  <2>3. Steps(need, l, (l + n) + 1) = Steps(need, l, l + n) + need[l + n]
    BY <2>1, StepsNext
  <2>4. Steps(need, l, l + n) \in Nat /\ need[l + n] \in Nat
    <3>1. need \in [Levels -> Nat \ {0}]
      BY TeamsAssumption DEF Needs
    <3>. QED BY <2>1, <3>1, StepsIsNat
  <2>5. Steps(need, 1, l + n) = Steps(need, 1, l) + Steps(need, l, l + n)
    BY <1>4, <2>1
  <2>. QED BY <1>2, <2>1, <2>2, <2>3, <2>4, <2>5
<1>5. \A n \in Nat : n \in N
  <2>. HIDE DEF N
  <2>. QED BY <1>3, <1>4, NumberInduction
<1>6. k - l \in Nat /\ l + (k - l) = k /\ k <= MaxLevel
  BY <1>1
<1>7. k - l \in N
  BY <1>5, <1>6
<1>. QED BY <1>6, <1>7

LEMMA ClimbIsReached ==
  ASSUME NEW l \in Levels, NEW x \in Nat
  PROVE  /\ Climb(l, x) \in l .. MaxLevel /\ Climb(l, x) \in Levels
         /\ Steps(Need, l, Climb(l, x)) <= x
         /\ Climb(l, x) = MaxLevel \/ Steps(Need, l, Climb(l, x) + 1) > x
<1>. DEFINE R == {k \in l .. MaxLevel : Steps(Need, l, k) <= x}
<1>1. l \in Nat \ {0} /\ l <= MaxLevel /\ MaxLevel \in Nat /\ l \in l .. MaxLevel
  BY TeamsAssumption DEF Levels
<1>2. l \in R
  BY <1>1, StepsIsNat DEF Needs
<1>3. R \subseteq l .. MaxLevel /\ R \subseteq Nat /\ IsFiniteSet(R)
  <2>1. IsFiniteSet(l .. MaxLevel)
    BY <1>1, FS_Interval
  <2>. QED BY <1>1, <2>1, FS_Subset
<1>4. Max(R) \in R /\ \A k \in R : k <= Max(R)
  <2>. HIDE DEF R
  <2>. QED BY <1>2, <1>3, MaxOfFinite
<1>5. PICK m \in R : m = Max(R)
  BY <1>4
<1>6. m = MaxLevel \/ Steps(Need, l, m + 1) > x
  <2>. SUFFICES ASSUME m # MaxLevel PROVE Steps(Need, l, m + 1) > x
    OBVIOUS
  <2>1. m + 1 \in l .. MaxLevel /\ m + 1 \notin R
    BY <1>1, <1>4, <1>5
  <2>2. Steps(Need, l, m + 1) \in Nat
    BY <2>1, StepsIsNat DEF Needs
  <2>. QED BY <2>1, <2>2
<1>7. \E k \in l .. MaxLevel : Steps(Need, l, k) <= x /\ (k = MaxLevel \/ Steps(Need, l, k + 1) > x)
  BY <1>5, <1>6
<1>. QED BY <1>1, <1>7 DEF Climb, Levels

TeamAfterXp(tm, n) ==
  LET x == tm.xp + n
      k == Climb(tm.level, x)
  IN  [tm EXCEPT !.level = k, !.xp = x - Steps(Need, tm.level, k)]

LEMMA TeamXpIs ==
  ASSUME NEW d \in Database, NEW t \in Ids, d.team[t] # NULL, NEW n \in Nat
  PROVE  /\ TeamAfterXp(d.team[t], n) \in Team
         /\ TeamXp(d, t, n) = [d EXCEPT !.team = [d.team EXCEPT ![t] = TeamAfterXp(d.team[t], n)]]
<1>. DEFINE l == d.team[t].level
            x == d.team[t].xp + n
            k == Climb(l, x)
            r == x - Steps(Need, l, k)
            new == [d.team[t] EXCEPT !.level = k, !.xp = r]
            teams == [d.team EXCEPT ![t].level = k, ![t].xp = r]
<1>1. l \in Levels /\ x \in Nat
  BY Fields DEF Team
<1>2. k \in l .. MaxLevel /\ k \in Levels /\ Steps(Need, l, k) <= x
  BY <1>1, ClimbIsReached
<1>3. Steps(Need, l, k) \in Nat
  BY <1>1, <1>2, StepsIsNat DEF Needs
<1>4. r \in Nat
  BY <1>1, <1>2, <1>3
<1>5. TeamXp(d, t, n) = [d EXCEPT !.team = teams] /\ TeamAfterXp(d.team[t], n) = new
  BY DEF TeamXp, TeamAfterXp
<1>. HIDE DEF k, r
<1>6. d.team[t] \in Team /\ d.team \in [Ids -> Team \cup {NULL}]
  BY Fields
<1>7. new \in Team
  BY <1>2, <1>4, <1>6 DEF Team
<1>8. teams = [d.team EXCEPT ![t] = new]
  BY <1>6
<1>. HIDE DEF new, teams
<1>. QED BY <1>5, <1>7, <1>8

LEMMA TeamXpTyped ==
  ASSUME NEW d \in Database, NEW t \in Ids, d.team[t] # NULL, NEW n \in Nat
  PROVE  TeamXp(d, t, n) \in Database
<1>. DEFINE teams == [d.team EXCEPT ![t] = TeamAfterXp(d.team[t], n)]
<1>1. teams \in [Ids -> Team \cup {NULL}]
  BY TeamXpIs, Fields
<1>2. TeamXp(d, t, n) = [d EXCEPT !.team = teams]
  BY TeamXpIs
<1>. HIDE DEF teams
<1>. QED BY <1>1, <1>2 DEF Database

LEMMA RegradeTyped ==
  ASSUME NEW tm \in Team
  PROVE  Regrade(tm) \in Team
<1>. DEFINE x == tm.xp + Steps(OldNeed, 1, tm.level)
            k == Climb(1, x)
            r == x - Steps(Need, 1, k)
<1>1. 1 \in Levels /\ tm.level \in 1 .. MaxLevel /\ tm.xp \in Nat
  BY Constants DEF Team, Levels
<1>2. x \in Nat
  BY <1>1, StepsIsNat DEF Needs
<1>3. k \in 1 .. MaxLevel /\ k \in Levels /\ Steps(Need, 1, k) <= x
  BY <1>1, <1>2, ClimbIsReached
<1>4. Steps(Need, 1, k) \in Nat
  BY <1>1, <1>3, StepsIsNat DEF Needs
<1>5. r \in Nat
  BY <1>2, <1>3, <1>4
<1>6. Regrade(tm) = [tm EXCEPT !.level = k, !.xp = r]
  BY DEF Regrade
<1>. HIDE DEF k, r
<1>. QED BY <1>3, <1>5, <1>6 DEF Team

-----------------------------------------------------------------------------
(* Weeks, medals, prizes and quests.                                       *)

LEMMA WeekOrder ==
  /\ \A a, b \in Nat : a <= b => Week(a) <= Week(b)
  /\ \A a \in Nat : Week(a) \in Nat
  /\ \A a, w \in Nat : a >= w * DaysPerWeek <=> Week(a) >= w
<1>1. DaysPerWeek \in Nat \ {0}
  BY Constants
<1>2. ASSUME NEW a \in Nat
      PROVE  Week(a) \in Nat /\ Week(a) * DaysPerWeek <= a /\ a < Week(a) * DaysPerWeek + DaysPerWeek
  BY <1>1 DEF Week
<1>3. ASSUME NEW x \in Nat, NEW y \in Nat, x <= y
      PROVE  x * DaysPerWeek <= y * DaysPerWeek
  BY <1>1, <1>3
<1>4. ASSUME NEW a \in Nat, NEW w \in Nat PROVE a >= w * DaysPerWeek <=> Week(a) >= w
  <2>1. Week(a) >= w => a >= w * DaysPerWeek
    <3>1. Week(a) >= w => w * DaysPerWeek <= Week(a) * DaysPerWeek
      BY <1>2, <1>3
    <3>2. w * DaysPerWeek \in Int /\ Week(a) * DaysPerWeek \in Int /\ Week(a) * DaysPerWeek <= a
      BY <1>1, <1>2
    <3>. QED BY <3>1, <3>2
  <2>2. Week(a) < w => a < w * DaysPerWeek
    <3>1. Week(a) < w => (Week(a) + 1) * DaysPerWeek <= w * DaysPerWeek
      BY <1>2, <1>3
    <3>2. (Week(a) + 1) * DaysPerWeek = Week(a) * DaysPerWeek + DaysPerWeek
      BY <1>1, <1>2
    <3>. QED BY <1>1, <1>2, <3>1, <3>2
  <2>. QED BY <1>1, <1>2, <2>1, <2>2
<1>5. ASSUME NEW a \in Nat, NEW b \in Nat, a <= b PROVE Week(a) <= Week(b)
  BY <1>1, <1>2, <1>4, <1>5
<1>. QED BY <1>2, <1>4, <1>5

LEMMA TodaysWeek == ASSUME NEW a \in Days PROVE Week(a) \in Weeks
BY WeekOrder, Constants DEF Days, Weeks

LEMMA AwardedTyped ==
  ASSUME NEW d \in Database, NEW u \in Users, NEW n \in Nat, today \in Days
  PROVE  Awarded(d, u, n) \in Database
<1>1. d.medals[u] \in Medals /\ Week(today) \in Weeks
  BY Fields, TodaysWeek
<1>2. [all |-> d.medals[u].all + n, week |-> n + IF d.medals[u].id = Week(today) THEN d.medals[u].week ELSE 0,
       id |-> Week(today)] \in Medals
  BY <1>1 DEF Medals
<1>. QED BY <1>2 DEF Awarded, Database

LEMMA GrownTyped ==
  ASSUME NEW d \in Database, NEW u \in Users, NEW n \in Nat, today \in Days
  PROVE  Grown(d, u, n) \in Database
<1>1. Awarded(d, u, n) \in Database
  BY AwardedTyped
<1>2. Awarded(d, u, n).team = d.team
  BY DEF Awarded, Database
<1>3. HasTeam(d, u) => d.member[u].team \in Ids /\ d.team[d.member[u].team] # NULL
  BY Fields DEF HasTeam, Member
<1>. QED BY <1>1, <1>2, <1>3, TeamXpTyped DEF Grown

LEMMA PrizeIsNat == ASSUME NEW d, NEW w, NEW t PROVE Prize(d, w, t) \in Nat
<1>. DEFINE S == {s \in Ids : d.team[s] # NULL /\ Ahead(d, w, s, t)}
<1>1. IsFiniteSet(S)
  <2>1. IsFiniteSet(Ids)
    BY Constants, FS_Interval DEF Ids
  <2>. QED BY <2>1, FS_Subset
<1>2. Cardinality(S) \in Nat
  BY <1>1, FS_CardinalityType
<1>3. WeekPrize \in [1 .. 3 -> Nat]
  BY TeamsAssumption
<1>. HIDE DEF S
<1>4. 1 + Cardinality(S) <= 3 => WeekPrize[1 + Cardinality(S)] \in Nat
  BY <1>2, <1>3
<1>. QED BY <1>4 DEF Prize, S

LEMMA BankTyped == ASSUME NEW tm \in Team, NEW n \in Nat PROVE [tm EXCEPT !.bank = @ + n] \in Team
BY DEF Team

LEMMA RolledTyped ==
  ASSUME NEW d \in Database, today \in Days
  PROVE  Rolled(d) \in Database
<1>1. Week(today) \in Weeks
  BY TodaysWeek
<1>2. Rewarded(d) \in [Ids -> Team \cup {NULL}]
  BY Fields, PrizeIsNat, BankTyped DEF Rewarded
<1>. QED BY <1>1, <1>2 DEF Rolled, Database

LEMMA OfferShape ==
  ASSUME NEW d \in Database, NEW t \in Ids, d.team[t] # NULL, today \in Days
  PROVE  \A k \in DOMAIN Offers(d, t) :
           k \in Quests /\ Offers(d, t)[k].reward \in Nat /\ Offers(d, t)[k].bank \in Nat
<1>1. d.team[t].level \in Levels
  BY Fields DEF Team
<1>2. <<t, today, d.team[t].level>> \in Ids \X Days \X Levels
  BY <1>1
<1>. QED BY <1>2, TeamsAssumption DEF Offers

-----------------------------------------------------------------------------
(* What the services leave alone.                                          *)

\* Max and Min of two numbers.
LEMMA PairMax == ASSUME NEW a \in Int, NEW b \in Int, b <= a PROVE Max({a, b}) = a
<1>1. a \in {a, b} /\ \A y \in {a, b} : a >= y
  OBVIOUS
<1>2. \A x \in {a, b} : (\A y \in {a, b} : x >= y) => x = a
  OBVIOUS
<1>. QED BY <1>1, <1>2 DEF Max

LEMMA PairMin == ASSUME NEW a \in Int, NEW b \in Int, a <= b PROVE Min({a, b}) = a
<1>1. a \in {a, b} /\ \A y \in {a, b} : a <= y
  OBVIOUS
<1>2. \A x \in {a, b} : (\A y \in {a, b} : x <= y) => x = a
  OBVIOUS
<1>. QED BY <1>1, <1>2 DEF Min

\* The same cartels with the same people: only banks, levels and the like may
\* have changed.
SameTeam(a, b)    == b.name = a.name /\ b.owner = a.owner /\ b.cooling = a.cooling
SameTeams(d, e)   == \A t \in Ids : /\ e.team[t] = NULL <=> d.team[t] = NULL
                                    /\ d.team[t] # NULL => SameTeam(d.team[t], e.team[t])
SamePeople(d, e)  == e.member = d.member /\ e.request = d.request /\ e.pend = d.pend

\* No experience is lost and no level stays unreached.
Reached(tm)       == tm.level < MaxLevel => tm.xp < Need[tm.level]
MoreXp(a, b)      == (b.level = a.level /\ b.xp = a.xp) \/ (Reached(b) /\ Score(Need, b) >= Score(Need, a))
XpKept(d, e)      == /\ e.regraded = d.regraded
                     /\ \A t \in Ids : d.team[t] # NULL /\ e.team[t] # NULL => MoreXp(d.team[t], e.team[t])

SameCartels(d, e) == SameTeams(d, e) /\ SamePeople(d, e) /\ XpKept(d, e)

LEMMA ScoreIsNat ==
  ASSUME NEW tm \in Team
  PROVE  Score(Need, tm) \in Nat /\ Score(OldNeed, tm) \in Nat
<1>1. 1 \in Levels /\ tm.level \in 1 .. MaxLevel /\ tm.xp \in Nat
  BY Constants DEF Team, Levels
<1>. QED BY <1>1, StepsIsNat DEF Score, Needs

\* What is left over after a climb is too little for the next level.
LEMMA ClimbLeaves ==
  ASSUME NEW l \in Levels, NEW x \in Nat
  PROVE  LET k == Climb(l, x)
             r == x - Steps(Need, l, k)
         IN  /\ k < MaxLevel => r < Need[k]
             /\ r + Steps(Need, 1, k) = x + Steps(Need, 1, l)
<1>. DEFINE k == Climb(l, x)
<1>1. /\ k \in l .. MaxLevel /\ k \in Levels
      /\ k = MaxLevel \/ Steps(Need, l, k + 1) > x
  BY ClimbIsReached
<1>2. Need \in Needs /\ MaxLevel \in Nat /\ k \in Nat /\ Need[k] \in Nat /\ l \in 1 .. MaxLevel /\ 1 \in Levels
  BY <1>1, TeamsAssumption, Constants DEF Needs, Levels
<1>. HIDE DEF k
<1>3. Steps(Need, l, k) \in Nat /\ Steps(Need, 1, l) \in Nat
  BY <1>1, <1>2, StepsIsNat
<1>4. Steps(Need, 1, k) = Steps(Need, 1, l) + Steps(Need, l, k)
  BY <1>1, <1>2, StepsSplit
<1>5. ASSUME k < MaxLevel PROVE x - Steps(Need, l, k) < Need[k]
  <2>1. k + 1 \in l .. MaxLevel
    BY <1>1, <1>2, <1>5
  <2>2. Steps(Need, l, k + 1) = Steps(Need, l, k) + Need[k]
    BY <1>1, <1>2, <2>1, StepsNext
  <2>. QED BY <1>1, <1>2, <1>3, <1>5, <2>2
<1>. QED BY <1>2, <1>3, <1>4, <1>5 DEF k

LEMMA XpAdds ==
  ASSUME NEW tm \in Team, NEW n \in Nat, TeamAfterXp(tm, n) \in Team
  PROVE  MoreXp(tm, TeamAfterXp(tm, n))
<1>. DEFINE l == tm.level
            x == tm.xp + n
            k == Climb(l, x)
            r == x - Steps(Need, l, k)
            b == TeamAfterXp(tm, n)
<1>1. l \in Levels /\ x \in Nat /\ tm.xp \in Nat /\ l \in 1 .. MaxLevel /\ 1 \in Levels
  BY Constants DEF Team, Levels
<1>2. b.level = k /\ b.xp = r
  BY DEF TeamAfterXp, Team
<1>3. (k < MaxLevel => r < Need[k]) /\ r + Steps(Need, 1, k) = x + Steps(Need, 1, l)
  BY <1>1, ClimbLeaves
<1>4. Steps(Need, 1, l) \in Nat
  BY <1>1, StepsIsNat DEF Needs
<1>. HIDE DEF k, r, b
<1>5. Score(Need, b) = Score(Need, tm) + n /\ Score(Need, tm) \in Nat
  BY <1>1, <1>2, <1>3, <1>4 DEF Score
<1>. QED BY <1>2, <1>3, <1>5 DEF MoreXp, Reached, b

LEMMA XpKeptTwice ==
  ASSUME NEW d \in Database, NEW e \in Database, NEW f \in Database, XpKept(d, e), XpKept(e, f),
         \A t \in Ids : d.team[t] # NULL => e.team[t] # NULL
  PROVE  XpKept(d, f)
<1>1. ASSUME NEW t \in Ids, d.team[t] # NULL, f.team[t] # NULL PROVE MoreXp(d.team[t], f.team[t])
  <2>1. e.team[t] # NULL /\ MoreXp(d.team[t], e.team[t]) /\ MoreXp(e.team[t], f.team[t])
    BY <1>1 DEF XpKept
  <2>2. d.team[t] \in Team /\ e.team[t] \in Team /\ f.team[t] \in Team
    BY <1>1, <2>1, Fields
  <2>3. Score(Need, d.team[t]) \in Nat /\ Score(Need, e.team[t]) \in Nat /\ Score(Need, f.team[t]) \in Nat
    BY <2>2, ScoreIsNat
  <2>. QED BY <2>1, <2>3 DEF MoreXp, Reached, Score
<1>. QED BY <1>1 DEF XpKept

LEMMA SameIsTransitive ==
  ASSUME NEW d \in Database, NEW e \in Database, NEW f \in Database, SameCartels(d, e), SameCartels(e, f)
  PROVE  SameCartels(d, f)
<1>1. SameTeams(d, f) /\ SamePeople(d, f)
  BY DEF SameCartels, SameTeams, SamePeople, SameTeam
<1>2. XpKept(d, f)
  BY XpKeptTwice DEF SameCartels, SameTeams
<1>. QED BY <1>1, <1>2 DEF SameCartels

LEMMA SameIsReflexive == ASSUME NEW d PROVE SameCartels(d, d)
BY DEF SameCartels, SameTeams, SamePeople, SameTeam, XpKept, MoreXp

LEMMA SameHasTeam ==
  ASSUME NEW d \in Database, NEW e, SameCartels(d, e), NEW u \in Users
  PROVE  HasTeam(e, u) <=> HasTeam(d, u)
BY Fields DEF SameCartels, SameTeams, SamePeople, HasTeam, Member

\* A step that writes the row of one cartel.
LEMMA OneTeam ==
  ASSUME NEW d \in Database, NEW t \in Ids, d.team[t] # NULL, NEW b \in Team
  PROVE  LET e == [d EXCEPT !.team = [d.team EXCEPT ![t] = b]]
         IN  /\ e \in Database /\ SamePeople(d, e)
             /\ SameTeam(d.team[t], b) /\ MoreXp(d.team[t], b) => SameCartels(d, e)
             /\ e.team[t] = b /\ \A s \in Ids \ {t} : e.team[s] = d.team[s]
             /\ e.daily = d.daily /\ e.medals = d.medals /\ e.weekKey = d.weekKey
<1>. DEFINE e == [d EXCEPT !.team = [d.team EXCEPT ![t] = b]]
<1>1. /\ e \in Database /\ SamePeople(d, e) /\ e.team = [d.team EXCEPT ![t] = b]
      /\ e.daily = d.daily /\ e.medals = d.medals /\ e.weekKey = d.weekKey /\ e.regraded = d.regraded
  BY DEF Database, SamePeople
<1>. HIDE DEF e
<1>2. e.team[t] = b /\ \A s \in Ids \ {t} : e.team[s] = d.team[s]
  BY <1>1, Fields
<1>3. SameTeam(d.team[t], b) => SameTeams(d, e)
  BY <1>2, Constants DEF SameTeams, SameTeam
<1>4. MoreXp(d.team[t], b) => XpKept(d, e)
  BY <1>1, <1>2 DEF XpKept, MoreXp
<1>. QED BY <1>1, <1>2, <1>3, <1>4 DEF SameCartels, e

LEMMA TeamXpFrame ==
  ASSUME NEW d \in Database, NEW t \in Ids, d.team[t] # NULL, NEW n \in Nat
  PROVE  LET e == TeamXp(d, t, n)
         IN  /\ SameCartels(d, e)
             /\ e.daily = d.daily /\ e.medals = d.medals /\ e.weekKey = d.weekKey
<1>. DEFINE new == TeamAfterXp(d.team[t], n)
<1>1. SameTeam(d.team[t], new)
  <2>1. d.team[t] \in Team
    BY Fields
  <2>. QED BY <2>1 DEF TeamAfterXp, SameTeam, Team
<1>2. new \in Team /\ TeamXp(d, t, n) = [d EXCEPT !.team = [d.team EXCEPT ![t] = new]]
  BY TeamXpIs
<1>3. MoreXp(d.team[t], new)
  BY <1>2, Fields, XpAdds
<1>. HIDE DEF new
<1>. QED BY <1>1, <1>2, <1>3, OneTeam

LEMMA AwardedFrame ==
  ASSUME NEW d \in Database, NEW u \in Users, NEW n \in Nat
  PROVE  LET e == Awarded(d, u, n)
         IN  /\ SameCartels(d, e) /\ e.team = d.team
             /\ e.daily = d.daily /\ e.weekKey = d.weekKey
             /\ e.medals = [d.medals EXCEPT ![u] =
                  [all |-> d.medals[u].all + n,
                   week |-> n + IF d.medals[u].id = Week(today) THEN d.medals[u].week ELSE 0,
                   id |-> Week(today)]]
BY DEF Awarded, Database, SameCartels, SameTeams, SamePeople, SameTeam, XpKept, MoreXp

LEMMA GrownFrame ==
  ASSUME NEW d \in Database, NEW u \in Users, NEW n \in Nat, today \in Days
  PROVE  LET e == Grown(d, u, n)
         IN  /\ SameCartels(d, e) /\ e.daily = d.daily /\ e.weekKey = d.weekKey
             /\ e.medals = Awarded(d, u, n).medals
<1>. DEFINE a == Awarded(d, u, n)
            t == d.member[u].team
<1>1. a \in Database /\ SameCartels(d, a) /\ a.team = d.team /\ a.daily = d.daily /\ a.weekKey = d.weekKey
  BY AwardedTyped, AwardedFrame
<1>2. HasTeam(d, u) => t \in Ids /\ d.team[t] # NULL
  BY Fields DEF HasTeam, Member
<1>3. Grown(d, u, n) = IF HasTeam(d, u) THEN TeamXp(a, t, n) ELSE a
  BY DEF Grown
<1>. HIDE DEF a, t
<1>4. CASE HasTeam(d, u)
  <2>1. Grown(d, u, n) = TeamXp(a, t, n) /\ t \in Ids /\ a.team[t] # NULL
    BY <1>1, <1>2, <1>3, <1>4
  <2>2. SameCartels(a, TeamXp(a, t, n)) /\ TeamXp(a, t, n).daily = a.daily /\ TeamXp(a, t, n).medals = a.medals
        /\ TeamXp(a, t, n).weekKey = a.weekKey
    BY <1>1, <2>1, TeamXpFrame
  <2>3. TeamXp(a, t, n) \in Database
    BY <1>1, <2>1, TeamXpTyped
  <2>. QED BY <1>1, <2>1, <2>2, <2>3, SameIsTransitive DEF a
<1>5. CASE ~HasTeam(d, u)
  BY <1>1, <1>3, <1>5 DEF a
<1>. QED BY <1>4, <1>5

LEMMA RolledFrame ==
  ASSUME NEW d \in Database
  PROVE  LET e == Rolled(d)
         IN  /\ SameCartels(d, e) /\ e.daily = d.daily /\ e.medals = d.medals
             /\ \A t \in Ids : d.team[t] # NULL => e.team[t].level = d.team[t].level
             /\ e.weekKey = IF RolloverDue(d) THEN Week(today) ELSE d.weekKey
<1>1. CASE ~RolloverDue(d)
  BY <1>1, SameIsReflexive DEF Rolled
<1>2. CASE RolloverDue(d)
  <2>1. \A t \in Ids : /\ Rewarded(d)[t] = NULL <=> d.team[t] = NULL
                       /\ d.team[t] # NULL => /\ SameTeam(d.team[t], Rewarded(d)[t])
                                              /\ Rewarded(d)[t].level = d.team[t].level
                                              /\ Rewarded(d)[t].xp = d.team[t].xp
    <3>. SUFFICES ASSUME NEW t \in Ids
                  PROVE  /\ Rewarded(d)[t] = NULL <=> d.team[t] = NULL
                         /\ d.team[t] # NULL => /\ SameTeam(d.team[t], Rewarded(d)[t])
                                                /\ Rewarded(d)[t].level = d.team[t].level
                                                /\ Rewarded(d)[t].xp = d.team[t].xp
      OBVIOUS
    <3>1. CASE d.team[t] = NULL \/ d.weekKey = NULL
      BY <3>1 DEF Rewarded, SameTeam
    <3>2. CASE ~(d.team[t] = NULL \/ d.weekKey = NULL)
      <4>. DEFINE n == Prize(d, d.weekKey, t)
                  b == [d.team[t] EXCEPT !.bank = @ + n]
      <4>1. d.team[t] \in Team /\ n \in Nat
        BY <3>2, Fields, PrizeIsNat
      <4>2. Rewarded(d)[t] = b
        BY <3>2 DEF Rewarded
      <4>. HIDE DEF n
      <4>3. b \in Team /\ SameTeam(d.team[t], b) /\ b.level = d.team[t].level /\ b.xp = d.team[t].xp
        BY <4>1 DEF Team, SameTeam
      <4>. QED BY <3>2, <4>2, <4>3, Constants
    <3>. QED BY <3>1, <3>2
  <2>2. Rolled(d) = [d EXCEPT !.weekKey = Week(today), !.team = Rewarded(d)]
    BY <1>2 DEF Rolled
  <2>3. /\ Rolled(d).team = Rewarded(d) /\ Rolled(d).weekKey = Week(today) /\ Rolled(d).daily = d.daily
        /\ Rolled(d).medals = d.medals /\ SamePeople(d, Rolled(d)) /\ Rolled(d).regraded = d.regraded
    BY <2>2 DEF Database, SamePeople
  <2>. QED BY <1>2, <2>1, <2>3 DEF SameCartels, SameTeams, XpKept, MoreXp
<1>. QED BY <1>1, <1>2

LEMMA Progress ==
  ASSUME NEW d \in Database, NEW t \in Ids, NEW k \in Quests, NEW n \in Nat
  PROVE  LET e == [d EXCEPT !.daily[t].prog[k] = @ + n]
         IN  /\ e \in Database /\ SameCartels(d, e) /\ e.medals = d.medals /\ e.weekKey = d.weekKey
             /\ e.team = d.team /\ \A s \in Ids : e.daily[s].done = d.daily[s].done
<1>. DEFINE new == [d.daily[t] EXCEPT !.prog = [d.daily[t].prog EXCEPT ![k] = @ + n]]
            e == [d EXCEPT !.daily = [d.daily EXCEPT ![t] = new]]
<1>1. d.daily \in [Ids -> Daily] /\ d.daily[t] \in Daily
  BY Fields
<1>2. [d.daily[t].prog EXCEPT ![k] = @ + n] \in [Quests -> Nat]
  BY <1>1 DEF Daily
<1>3. new \in Daily /\ new.done = d.daily[t].done
  BY <1>1, <1>2 DEF Daily
<1>4. [d EXCEPT !.daily[t].prog[k] = @ + n] = e
  OBVIOUS
<1>. HIDE DEF new
<1>5. /\ e \in Database /\ SameCartels(d, e) /\ e.medals = d.medals /\ e.weekKey = d.weekKey
      /\ e.team = d.team /\ e.daily = [d.daily EXCEPT ![t] = new]
  BY <1>3 DEF Database, SameCartels, SameTeams, SamePeople, SameTeam, XpKept, MoreXp
<1>. HIDE DEF e
<1>6. \A s \in Ids : e.daily[s].done = d.daily[s].done
  BY <1>1, <1>3, <1>5
<1>. QED BY <1>4, <1>5, <1>6

LEMMA RecordedTyped ==
  ASSUME NEW d \in Database, NEW u \in Users, NEW k \in Quests, NEW n \in Nat, today \in Days
  PROVE  Recorded(d, u, k, n) \in Database
<1>. DEFINE t == d.member[u].team
            more == [d EXCEPT !.daily[t].prog[k] = @ + n]
<1>. SUFFICES ASSUME HasTeam(d, u) PROVE Recorded(d, u, k, n) \in Database
  BY DEF Recorded
<1>1. t \in Ids /\ d.team[t] \in Team /\ d.team[t] # NULL
  BY Fields DEF HasTeam, Member
<1>2. more \in Database
  BY <1>1, Progress
<1>3. CASE Fulfils(d, t, k, n)
  <2>. DEFINE pay == Offers(d, t)[k].reward
              gift == Offers(d, t)[k].bank
              fee == [v \in Users |-> IF v \in Members(d, t) THEN pay ELSE 0]
  <2>1. pay \in Nat /\ gift \in Nat
    BY <1>1, <1>3, OfferShape DEF Fulfils
  <2>2. Recorded(d, u, k, n) =
          [more EXCEPT !.daily[t].done = @ \cup {k},
                       !.cash = [v \in Users |-> @[v] + IF v \in Members(d, t) THEN pay ELSE 0],
                       !.team[t].bank = @ + gift]
    BY <1>3 DEF Recorded
  <2>3. more.team = d.team
    BY DEF Database
  <2>. HIDE DEF more, pay, gift
  <2>. DEFINE cash == [v \in Users |-> more.cash[v] + IF v \in Members(d, t) THEN pay ELSE 0]
              done == [more.daily EXCEPT ![t].done = @ \cup {k}]
              teams == [more.team EXCEPT ![t].bank = @ + gift]
  <2>4. cash \in [Users -> Nat]
    BY <1>2, <2>1, Fields
  <2>5. done \in [Ids -> Daily]
    <3>1. more.daily \in [Ids -> Daily]
      BY <1>2, Fields
    <3>. QED BY <3>1 DEF Daily
  <2>6. teams \in [Ids -> Team \cup {NULL}]
    <3>1. more.team \in [Ids -> Team \cup {NULL}] /\ more.team[t] \in Team
      BY <1>1, <1>2, <2>3, Fields
    <3>. QED BY <2>1, <3>1, BankTyped
  <2>7. Recorded(d, u, k, n) = [more EXCEPT !.daily = done, !.cash = cash, !.team = teams]
    BY <2>2
  <2>. HIDE DEF cash, done, teams
  <2>. QED BY <1>2, <2>4, <2>5, <2>6, <2>7 DEF Database
<1>4. CASE ~Fulfils(d, t, k, n)
  BY <1>2, <1>4 DEF Recorded
<1>. QED BY <1>3, <1>4

\* A record moves money and the quest's row of the day, nothing else.
LEMMA RecordedFrame ==
  ASSUME NEW d \in Database, NEW u \in Users, NEW k \in Quests, NEW n \in Nat, today \in Days
  PROVE  LET e == Recorded(d, u, k, n)
             t == d.member[u].team
         IN  /\ SameCartels(d, e) /\ e.medals = d.medals /\ e.weekKey = d.weekKey
             /\ \A s \in Ids : e.daily[s].done =
                  d.daily[s].done \cup
                    IF HasTeam(d, u) /\ Fulfils(d, t, k, n) /\ s = t THEN {k} ELSE {}
<1>. DEFINE t == d.member[u].team
            more == [d EXCEPT !.daily[t].prog[k] = @ + n]
<1>0. CASE ~HasTeam(d, u)
  BY <1>0, SameIsReflexive DEF Recorded
<1>5. CASE HasTeam(d, u)
  <2>1. t \in Ids /\ d.team[t] \in Team /\ d.team[t] # NULL
    BY <1>5, Fields DEF HasTeam, Member
  <2>2. more \in Database /\ SameCartels(d, more) /\ more.medals = d.medals /\ more.weekKey = d.weekKey
        /\ more.team = d.team /\ \A s \in Ids : more.daily[s].done = d.daily[s].done
    BY <2>1, Progress
  <2>6. CASE ~Fulfils(d, t, k, n)
    <3>1. Recorded(d, u, k, n) = more
      BY <1>5, <2>6 DEF Recorded
    <3>. HIDE DEF more, t
    <3>. QED BY <2>2, <2>6, <3>1 DEF t
  <2>7. CASE Fulfils(d, t, k, n)
    <3>. DEFINE pay == Offers(d, t)[k].reward
                gift == Offers(d, t)[k].bank
    <3>1. Recorded(d, u, k, n) =
            [more EXCEPT !.daily[t].done = @ \cup {k},
                         !.cash = [v \in Users |-> @[v] + IF v \in Members(d, t) THEN pay ELSE 0],
                         !.team[t].bank = @ + gift]
      BY <1>5, <2>7 DEF Recorded
    <3>. HIDE DEF more, pay, gift
    <3>. DEFINE e == Recorded(d, u, k, n)
    <3>2. /\ e.medals = d.medals /\ e.weekKey = d.weekKey /\ SamePeople(d, e) /\ e.regraded = d.regraded
          /\ e.team = [d.team EXCEPT ![t].bank = @ + gift]
          /\ e.daily = [more.daily EXCEPT ![t].done = @ \cup {k}]
      BY <2>2, <3>1 DEF SamePeople, SameCartels, XpKept, Database
    <3>. HIDE DEF e
    <3>3. SameTeams(d, e) /\ XpKept(d, e)
      <4>1. e.team[t] = [d.team[t] EXCEPT !.bank = @ + gift] /\ \A s \in Ids \ {t} : e.team[s] = d.team[s]
        BY <2>1, <3>2, Fields
      <4>2. gift \in Nat
        BY <2>1, <2>7, OfferShape DEF Fulfils, gift
      <4>3. e.team[t] \in Team /\ SameTeam(d.team[t], e.team[t]) /\ MoreXp(d.team[t], e.team[t])
        BY <2>1, <4>1, <4>2 DEF Team, SameTeam, MoreXp
      <4>. QED BY <2>1, <3>2, <4>1, <4>3, Constants DEF SameTeams, SameTeam, XpKept, MoreXp
    <3>4. \A s \in Ids : e.daily[s].done = d.daily[s].done \cup IF s = t THEN {k} ELSE {}
      <4>1. e.daily[t].done = more.daily[t].done \cup {k} /\ \A s \in Ids \ {t} : e.daily[s] = more.daily[s]
        <5>1. more.daily \in [Ids -> Daily] /\ more.daily[t] \in Daily
          BY <2>1, <2>2, Fields
        <5>. QED BY <2>1, <3>2, <5>1 DEF Daily
      <4>. QED BY <2>2, <4>1
    <3>. QED BY <1>5, <2>7, <3>2, <3>3, <3>4 DEF SameCartels, e
  <2>. QED BY <2>6, <2>7
<1>. QED BY <1>0, <1>5

LEMMA RecordFrame ==
  ASSUME NEW d \in Database, NEW u \in Users, NEW k \in Quests, NEW n \in Nat, today \in Days
  PROVE  LET e == Record(d, u, k, n)
             t == d.member[u].team
         IN  /\ e \in Database /\ SameCartels(d, e) /\ e.medals = d.medals
             /\ e.weekKey = IF RolloverDue(d) THEN Week(today) ELSE d.weekKey
             /\ \A s \in Ids : e.daily[s].done =
                  d.daily[s].done \cup
                    IF HasTeam(d, u) /\ Fulfils(Rolled(d), t, k, n) /\ s = t THEN {k} ELSE {}
<1>. DEFINE r == Rolled(d)
<1>1. /\ r \in Database /\ SameCartels(d, r) /\ r.daily = d.daily /\ r.medals = d.medals
      /\ r.weekKey = IF RolloverDue(d) THEN Week(today) ELSE d.weekKey
  BY RolledTyped, RolledFrame
<1>2. r.member = d.member /\ (HasTeam(r, u) <=> HasTeam(d, u))
  BY <1>1, SameHasTeam DEF SameCartels, SamePeople
<1>. HIDE DEF r
<1>3. Recorded(r, u, k, n) \in Database /\ SameCartels(r, Recorded(r, u, k, n))
  BY <1>1, RecordedTyped, RecordedFrame
<1>4. SameCartels(d, Recorded(r, u, k, n))
  BY <1>1, <1>3, SameIsTransitive
<1>. QED BY <1>1, <1>2, <1>3, <1>4, RecordedFrame DEF Record, r

LEMMA DepositedFrame ==
  ASSUME NEW d \in Database, NEW u \in Users, HasTeam(d, u), NEW n \in Nat, n <= d.cash[u]
  PROVE  LET e == Deposited(d, u, n)
         IN  /\ e \in Database /\ SameCartels(d, e) /\ e.daily = d.daily /\ e.medals = d.medals
             /\ e.weekKey = d.weekKey
<1>. DEFINE t == d.member[u].team
            cash == [d.cash EXCEPT ![u] = @ - n]
            b == [d.team[t] EXCEPT !.bank = @ + n]
            a == [d EXCEPT !.cash = cash]
            e == [a EXCEPT !.team = [a.team EXCEPT ![t] = b]]
<1>1. t \in Ids /\ d.team[t] # NULL /\ d.team[t] \in Team /\ cash \in [Users -> Nat]
  BY Fields DEF HasTeam, Member
<1>2. a \in Database /\ a.team = d.team /\ SameCartels(d, a) /\ a.daily = d.daily /\ a.medals = d.medals
      /\ a.weekKey = d.weekKey
  <2>. HIDE DEF cash
  <2>. QED BY <1>1 DEF Database, SameCartels, SameTeams, SamePeople, SameTeam, XpKept, MoreXp
<1>3. b \in Team /\ SameTeam(d.team[t], b) /\ MoreXp(d.team[t], b)
  BY <1>1, BankTyped DEF Team, SameTeam, MoreXp
<1>4. Deposited(d, u, n) = e
  BY <1>2 DEF Deposited
<1>. HIDE DEF a, b, t
<1>5. e \in Database /\ SameCartels(a, e) /\ e.daily = a.daily /\ e.medals = a.medals /\ e.weekKey = a.weekKey
  BY <1>1, <1>2, <1>3, OneTeam
<1>6. SameCartels(d, e)
  BY <1>2, <1>5, SameIsTransitive
<1>. QED BY <1>2, <1>4, <1>5, <1>6

-----------------------------------------------------------------------------
(* Types.                                                                  *)

\* Who is asked to confirm a cartel has given its name.
NameGiven(d) == \A u \in Users : d.pend[u].ask = "teamcf" => d.pend[u].name \in Names
TypeInv == TypeOK /\ NameGiven(db)

LEMMA TypeInit == Init => TypeInv
<1>. SUFFICES ASSUME Init PROVE TypeInv
  OBVIOUS
<1>1. NewDb \in Database /\ NameGiven(NewDb)
  <2>1. NoMedals \in Medals /\ Ask("none") \in Pending /\ NewDay \in Daily /\ StartCash \in Nat
    BY Constants DEF NoMedals, Medals, Ask, Pending, NewDay, Daily
  <2>2. <<>> \in {c \in Seq(Users) : Len(c) <= History}
    BY Constants
  <2>3. NameGiven(NewDb)
    BY DEF NameGiven, NewDb, Ask
  <2>. QED BY <2>1, <2>2, <2>3 DEF NewDb, Database
<1>2. today \in Days /\ crashes \in 0 .. MaxCrashes
  BY Constants DEF Init, Days
<1>. QED BY <1>1, <1>2 DEF Init, InitMemory, InitHistory, TypeInv, TypeOK, Ops, Idle

LEMMA CommitTyped ==
  ASSUME TypeOK, NEW d \in Database, NEW u, NEW n \in Nat, Commit(d, u, n)
  PROVE  db' = d /\ earned' \in [Users -> [Weeks -> Nat]]
BY DEF TypeOK, Commit

LEMMA DoTyped ==
  ASSUME TypeInv, NEW d \in Database, NameGiven(d), Do(d),
         sess' \in [Ids -> Session \cup {NULL}], renaming' \in [Users -> Names \cup {NULL}],
         paid' \in [Ids -> [Quests -> Nat]]
  PROVE  TypeInv'
<1>1. db' = d /\ earned' \in [Users -> [Weeks -> Nat]] /\ UNCHANGED <<op, job, today, raced, crashes>>
  BY CommitTyped DEF Do, TypeInv
<1>. QED BY <1>1 DEF TypeInv, TypeOK, NameGiven

LEMMA DoDbTyped == ASSUME TypeInv, NEW d \in Database, NameGiven(d), DoDb(d) PROVE TypeInv'
BY DoTyped DEF DoDb, memory, TypeInv, TypeOK

LEMMA RecordTyped ==
  ASSUME TypeInv, NEW d \in Database, SameCartels(db, d), NEW u \in Users, NEW k \in Quests, NEW n \in Nat,
         NEW m \in Nat, DoRecord(d, u, k, n, m)
  PROVE  TypeInv'
<1>1. today \in Days /\ TypeOK
  BY DEF TypeInv, TypeOK
<1>2. Record(d, u, k, n) \in Database /\ SameCartels(d, Record(d, u, k, n))
  BY <1>1, RecordFrame
<1>3. db' = Record(d, u, k, n) /\ earned' \in [Users -> [Weeks -> Nat]]
  BY <1>1, <1>2, CommitTyped DEF DoRecord
<1>4. NameGiven(db')
  BY <1>2, <1>3 DEF TypeInv, NameGiven, SameCartels, SamePeople
<1>5. paid' \in [Ids -> [Quests -> Nat]]
  <2>. DEFINE t == d.member[u].team
  <2>1. HasTeam(d, u) => t \in Ids
    BY Fields DEF HasTeam, Member
  <2>2. paid \in [Ids -> [Quests -> Nat]]
    BY <1>1 DEF TypeOK
  <2>3. paid' = paid \/ (HasTeam(d, u) /\ paid' = [paid EXCEPT ![t][k] = @ + 1])
    BY DEF DoRecord
  <2>. HIDE DEF t
  <2>. QED BY <2>1, <2>2, <2>3
<1>. QED BY <1>2, <1>3, <1>4, <1>5 DEF DoRecord, memory, TypeInv, TypeOK

LEMMA SameNameGiven ==
  ASSUME TypeInv, NEW d, SameCartels(db, d) \/ d.pend = db.pend
  PROVE  NameGiven(d)
BY DEF TypeInv, NameGiven, SameCartels, SamePeople


-----------------------------------------------------------------------------
(* Founding, naming, and other handlers that leave the people alone.       *)

LEMMA NewIdIsFree ==
  ASSUME NEW d \in Database, NewId(d) \in Ids
  PROVE  d.team[NewId(d)] = NULL
<1>. DEFINE T == {t \in Ids : d.team[t] # NULL}
            S == {0} \cup T
<1>1. S \subseteq Nat /\ IsFiniteSet(S) /\ S # {}
  <2>1. IsFiniteSet(Ids) /\ T \subseteq Ids
    BY Constants, FS_Interval DEF Ids
  <2>2. IsFiniteSet(T)
    BY <2>1, FS_Subset
  <2>3. IsFiniteSet({0}) /\ IsFiniteSet({0} \cup T)
    BY <2>2, FS_Singleton, FS_Union
  <2>4. S \subseteq Nat
    <3>. HIDE DEF T
    <3>. QED BY <2>1, Constants
  <2>. QED BY <2>3, <2>4
<1>2. Max(S) \in Nat /\ \A x \in S : x <= Max(S)
  BY <1>1, MaxOfFinite
<1>3. NewId(d) = 1 + Max(S)
  BY DEF NewId
<1>. HIDE DEF S
<1>4. NewId(d) \notin S
  BY <1>1, <1>2, <1>3
<1>. QED BY <1>4 DEF S

NewTeamRow(u, n) ==
  [name |-> n, owner |-> u, bank |-> 0, level |-> 1, xp |-> 0, atk |-> 0, def |-> 0,
   cooling |-> FALSE, hidden |-> FALSE, bio |-> FALSE]

LEMMA CreatedFrame ==
  ASSUME NEW d \in Database, NEW u \in Users, NEW n \in Names, CanCreate(d, u), NewId(d) \in Ids, today \in Days
  PROVE  LET e == Created(d, u, n)
         IN  /\ e \in Database /\ NewTeamRow(u, n) \in Team
             /\ e.team = [d.team EXCEPT ![NewId(d)] = NewTeamRow(u, n)]
             /\ e.member = [d.member EXCEPT ![u] = Newcomer(NewId(d), "owner", d.medals[u].all)]
             /\ e.request = d.request /\ e.pend = d.pend /\ e.daily = d.daily /\ e.medals = d.medals
             /\ e.regraded = d.regraded
<1>. DEFINE cash == [d.cash EXCEPT ![u] = @ - CreateCost]
            row == NewTeamRow(u, n)
            m == Newcomer(NewId(d), "owner", d.medals[u].all)
<1>1. cash \in [Users -> Nat]
  BY Constants, Fields DEF CanCreate
<1>2. row \in Team
  BY Constants DEF NewTeamRow, Team
<1>3. m \in Member
  BY Fields DEF Newcomer, Member, Medals
<1>4. Created(d, u, n) = [d EXCEPT !.cash = cash, !.team = [d.team EXCEPT ![NewId(d)] = row],
                                   !.member = [d.member EXCEPT ![u] = m]]
  BY DEF Created, NewTeamRow, Database
<1>. HIDE DEF cash, row, m
<1>5. [d.team EXCEPT ![NewId(d)] = row] \in [Ids -> Team \cup {NULL}]
      /\ [d.member EXCEPT ![u] = m] \in [Users -> Member \cup {NULL}]
  BY <1>2, <1>3, Fields
<1>6. Created(d, u, n) \in Database /\ row = NewTeamRow(u, n)
      /\ m = Newcomer(NewId(d), "owner", d.medals[u].all)
  BY <1>1, <1>4, <1>5 DEF Database, row, m
<1>. QED BY <1>2, <1>4, <1>6 DEF Database

LEMMA RenamedFrame ==
  ASSUME NEW d \in Database, NEW u \in Users, NEW n \in Names, CanRename(d, u, n)
  PROVE  LET e == Renamed(d, u, n)
             t == d.member[u].team
         IN  /\ e \in Database /\ t \in Ids /\ d.team[t] # NULL
             /\ SamePeople(d, e) /\ XpKept(d, e)
             /\ [d.team[t] EXCEPT !.name = n] \in Team
             /\ e.team = [d.team EXCEPT ![t] = [d.team[t] EXCEPT !.name = n]]
             /\ e.daily = d.daily /\ e.medals = d.medals
<1>. DEFINE t == d.member[u].team
            cash == [d.cash EXCEPT ![u] = @ - RenameCost]
            b == [d.team[t] EXCEPT !.name = n]
            e == [d EXCEPT !.cash = cash, !.team = [d.team EXCEPT ![t] = b]]
<1>1. t \in Ids /\ d.team[t] # NULL /\ d.team[t] \in Team
  BY Fields DEF CanRename, HasTeam, Member
<1>2. cash \in [Users -> Nat]
  BY Constants, Fields DEF CanRename
<1>3. b \in Team /\ MoreXp(d.team[t], b)
  BY <1>1 DEF Team, MoreXp
<1>4. Renamed(d, u, n) = e
  BY DEF Renamed, Database
<1>. HIDE DEF cash, b, t
<1>5. [d.team EXCEPT ![t] = b] \in [Ids -> Team \cup {NULL}]
  BY <1>1, <1>3, Fields
<1>6. /\ e \in Database /\ SamePeople(d, e) /\ e.team = [d.team EXCEPT ![t] = b]
      /\ e.daily = d.daily /\ e.medals = d.medals /\ e.regraded = d.regraded
  BY <1>2, <1>5 DEF Database, SamePeople
<1>. HIDE DEF e
<1>7. XpKept(d, e)
  BY <1>1, <1>3, <1>6, Fields DEF XpKept, MoreXp
<1>. QED BY <1>1, <1>3, <1>4, <1>6, <1>7 DEF t, b

\* A handler after which the same people are in the same cartels.
SameRows(d, e) == SameTeams(d, e) /\ e.member = d.member /\ e.request = d.request

Quiet ==
  /\ TypeInv' /\ SameRows(db, db') /\ db'.daily = db.daily /\ db'.medals = db.medals
  /\ Free /\ Commit(db', NULL, 0)
  /\ UNCHANGED <<op, job, today, raced, sess, paid>>

LEMMA DoDbQuiet ==
  ASSUME TypeInv, NEW d \in Database, NameGiven(d), DoDb(d),
         SameRows(db, d), d.daily = db.daily, d.medals = db.medals
  PROVE  Quiet /\ db' = d
<1>1. TypeInv'
  BY DoDbTyped
<1>2. db' = d /\ Free /\ Commit(d, NULL, 0) /\ UNCHANGED <<op, job, today, raced, sess, paid>>
  BY DEF DoDb, Do, Commit, memory
<1>. QED BY <1>1, <1>2 DEF Quiet

LEMMA AskedFrame ==
  ASSUME TypeInv, NEW u \in Users, NEW p \in Pending, p.ask = "teamcf" => p.name \in Names
  PROVE  LET e == [db EXCEPT !.pend[u] = p]
         IN  /\ e \in Database /\ NameGiven(e) /\ SameRows(db, e) /\ XpKept(db, e)
             /\ e.daily = db.daily /\ e.medals = db.medals
<1>1. db \in Database /\ db.pend \in [Users -> Pending]
  BY DEF TypeInv, TypeOK, Database
<1>2. [db.pend EXCEPT ![u] = p] \in [Users -> Pending]
      /\ \A v \in Users : [db.pend EXCEPT ![u] = p][v].ask = "teamcf" => [db.pend EXCEPT ![u] = p][v].name \in Names
  BY <1>1 DEF TypeInv, NameGiven
<1>. QED BY <1>1, <1>2 DEF Database, NameGiven, SameRows, SameTeams, SameTeam, XpKept, MoreXp

LEMMA AskTyped ==
  \A a \in {"none", "teamname", "teamkick", "teamchat"} :
    Ask(a) \in Pending /\ (Ask(a).ask = "teamcf" => Ask(a).name \in Names)
BY DEF Ask, Pending

\* A handler that only changes what is asked of a player.
LEMMA AskQuiet ==
  ASSUME TypeInv, NEW u \in Users, NEW p \in Pending, p.ask = "teamcf" => p.name \in Names,
         DoDb([db EXCEPT !.pend[u] = p])
  PROVE  Quiet /\ XpKept(db, db')
<1>. DEFINE e == [db EXCEPT !.pend[u] = p]
<1>1. /\ e \in Database /\ NameGiven(e) /\ SameRows(db, e) /\ XpKept(db, e)
      /\ e.daily = db.daily /\ e.medals = db.medals
  BY AskedFrame
<1>2. DoDb(e)
  OBVIOUS
<1>. HIDE DEF e
<1>. QED BY <1>1, <1>2, DoDbQuiet

\* A handler that writes the row of one cartel.
LEMMA RowQuiet ==
  ASSUME TypeInv, NEW t \in Ids, db.team[t] # NULL, NEW b \in Team,
         SameTeam(db.team[t], b), MoreXp(db.team[t], b),
         DoDb([db EXCEPT !.team = [db.team EXCEPT ![t] = b]])
  PROVE  Quiet /\ XpKept(db, db')
<1>. DEFINE e == [db EXCEPT !.team = [db.team EXCEPT ![t] = b]]
<1>0. db \in Database
  BY DEF TypeInv, TypeOK
<1>1. e \in Database /\ SameCartels(db, e) /\ e.daily = db.daily /\ e.medals = db.medals
  BY <1>0, OneTeam
<1>2. DoDb(e)
  OBVIOUS
<1>. HIDE DEF e
<1>3. NameGiven(e)
  BY <1>1, SameNameGiven
<1>. QED BY <1>1, <1>2, <1>3, DoDbQuiet DEF SameCartels, SamePeople, SameRows

LEMMA QuestionsAreQuiet ==
  ASSUME TypeInv, NEW u \in Users,
         \/ AskName(u) \/ Cancel(u) \/ AskKick(u) \/ SearchKick(u) \/ AskChat(u)
         \/ \E n \in Names : GiveName(u, n)
  PROVE  Quiet /\ XpKept(db, db')
<1>1. CASE \E n \in Names : GiveName(u, n)
  <2>1. PICK n \in Names : GiveName(u, n)
    BY <1>1
  <2>2. [ask |-> "teamcf", name |-> n] \in Pending
    BY DEF Pending
  <2>. QED BY <2>1, <2>2, AskQuiet DEF GiveName
<1>. QED BY <1>1, AskTyped, AskQuiet DEF AskName, Cancel, AskKick, SearchKick, AskChat

LEMMA CostIsNat == ASSUME NEW l \in Nat, l < Len(Price) PROVE BuildingCost(l + 1) \in Nat
<1>1. Price \in Seq(Nat) /\ Len(Price) \in Nat
  BY TeamsAssumption
<1>2. Max({l + 1, 1}) = l + 1 /\ Min({l + 1, Len(Price)}) = l + 1
  BY <1>1, PairMax, PairMin
<1>3. BuildingCost(l + 1) = Price[l + 1]
  BY <1>2 DEF BuildingCost
<1>. QED BY <1>1, <1>3

LEMMA UpgradeFrame ==
  ASSUME NEW tm \in Team, NEW c \in Nat, tm.bank >= c, NEW kind \in {"atk", "def"}
  PROVE  LET b == [tm EXCEPT !.bank = @ - c, ![kind] = @ + 1]
         IN  b \in Team /\ SameTeam(tm, b) /\ MoreXp(tm, b)
<1>1. tm.bank - c \in Nat /\ tm.atk + 1 \in Nat /\ tm.def + 1 \in Nat
  BY DEF Team
<1>2. ASSUME NEW x \in Nat, NEW y \in Nat
      PROVE  /\ LET b == [tm EXCEPT !.bank = x, !.atk = y]
                IN  b \in Team /\ SameTeam(tm, b) /\ MoreXp(tm, b)
             /\ LET b == [tm EXCEPT !.bank = x, !.def = y]
                IN  b \in Team /\ SameTeam(tm, b) /\ MoreXp(tm, b)
  BY DEF Team, SameTeam, MoreXp
<1>3. CASE kind = "atk"
  <2>1. [tm EXCEPT !.bank = @ - c, ![kind] = @ + 1] = [tm EXCEPT !.bank = tm.bank - c, !.atk = tm.atk + 1]
    BY <1>3 DEF Team
  <2>. QED BY <1>1, <1>2, <2>1
<1>4. CASE kind = "def"
  <2>1. [tm EXCEPT !.bank = @ - c, ![kind] = @ + 1] = [tm EXCEPT !.bank = tm.bank - c, !.def = tm.def + 1]
    BY <1>4 DEF Team
  <2>. QED BY <1>1, <1>2, <2>1
<1>. QED BY <1>3, <1>4

LEMMA RowsAreQuiet ==
  ASSUME TypeInv,
         \/ \E u \in Users : SetBio(u) \/ \E kind \in {"atk", "def"} : Upgrade(u, kind)
         \/ \E t \in Ids : ToggleHidden(t)
  PROVE  Quiet /\ XpKept(db, db')
<1>0. /\ db \in Database
      /\ \A u \in Users : HasTeam(db, u) => db.member[u].team \in Ids /\ db.team[db.member[u].team] # NULL
  BY Fields DEF HasTeam, Member, TypeInv, TypeOK
<1>1. CASE \E u \in Users : SetBio(u)
  <2>0. PICK u \in Users : SetBio(u)
    BY <1>1
  <2>. DEFINE t == db.member[u].team
              b == [db.team[t] EXCEPT !.bio = TRUE]
  <2>1. t \in Ids /\ db.team[t] # NULL /\ db.team[t] \in Team
    BY <1>0, <2>0, Fields DEF SetBio
  <2>2. b \in Team /\ SameTeam(db.team[t], b) /\ MoreXp(db.team[t], b)
    BY <2>1 DEF Team, SameTeam, MoreXp
  <2>3. DoDb([db EXCEPT !.team = [db.team EXCEPT ![t] = b]])
    BY <2>0 DEF SetBio
  <2>. HIDE DEF t, b
  <2>. QED BY <2>1, <2>2, <2>3, RowQuiet
<1>2. CASE \E t \in Ids : ToggleHidden(t)
  <2>0. PICK t \in Ids : ToggleHidden(t)
    BY <1>2
  <2>. DEFINE b == [db.team[t] EXCEPT !.hidden = ~@]
  <2>1. db.team[t] # NULL /\ db.team[t] \in Team
    BY <1>0, <2>0, Fields DEF ToggleHidden
  <2>2. b \in Team /\ SameTeam(db.team[t], b) /\ MoreXp(db.team[t], b)
    BY <2>1 DEF Team, SameTeam, MoreXp
  <2>3. DoDb([db EXCEPT !.team = [db.team EXCEPT ![t] = b]])
    BY <2>0 DEF ToggleHidden
  <2>. HIDE DEF b
  <2>. QED BY <2>1, <2>2, <2>3, RowQuiet
<1>3. CASE \E u \in Users, kind \in {"atk", "def"} : Upgrade(u, kind)
  <2>0. PICK u \in Users, kind \in {"atk", "def"} : Upgrade(u, kind)
    BY <1>3
  <2>. DEFINE t == db.member[u].team
              cost == BuildingCost(db.team[t][kind] + 1)
              b == [db.team[t] EXCEPT !.bank = @ - cost, ![kind] = @ + 1]
  <2>1. t \in Ids /\ db.team[t] # NULL /\ db.team[t] \in Team
    BY <1>0, <2>0, Fields DEF Upgrade
  <2>2. cost \in Nat
    <3>1. db.team[t][kind] \in Nat /\ db.team[t][kind] < Len(Price)
      BY <2>0, <2>1 DEF Team, Upgrade
    <3>. HIDE DEF t
    <3>. QED BY <3>1, CostIsNat
  <2>3. db.team[t].bank >= cost
    BY <2>0 DEF Upgrade
  <2>4. DoDb([db EXCEPT !.team = [db.team EXCEPT ![t] = b]])
    BY <2>0, <2>1 DEF Upgrade
  <2>. HIDE DEF cost
  <2>5. b \in Team /\ SameTeam(db.team[t], b) /\ MoreXp(db.team[t], b)
    <3>. HIDE DEF t
    <3>. QED BY <2>1, <2>2, <2>3, UpgradeFrame
  <2>. HIDE DEF t, b
  <2>. QED BY <2>1, <2>4, <2>5, RowQuiet
<1>. QED BY <1>1, <1>2, <1>3

\* The chat keeps the last History messages.
LEMMA ShortHistory ==
  ASSUME NEW c \in Seq(Users), Len(c) <= History + 1, Len(c) >= 1
  PROVE  LET short == SubSeq(c, Max({1, Len(c) - History + 1}), Len(c))
         IN  short \in Seq(Users) /\ Len(short) <= History
<1>. DEFINE m == Max({1, Len(c) - History + 1})
<1>1. History \in Nat \ {0} /\ Len(c) \in Nat
  BY Constants
<1>2. Len(c) - History + 1 \in Int
  BY <1>1
<1>3. m \in 1 .. 2 /\ m <= Len(c) /\ Len(c) - m + 1 <= History
  <2>1. CASE Len(c) - History + 1 <= 1
    BY <1>1, <1>2, <2>1, PairMax
  <2>2. CASE Len(c) - History + 1 > 1
    <3>1. {1, Len(c) - History + 1} = {Len(c) - History + 1, 1}
      OBVIOUS
    <3>2. Max({Len(c) - History + 1, 1}) = Len(c) - History + 1
      BY <1>2, <2>2, PairMax
    <3>3. m = Len(c) - History + 1
      BY <3>1, <3>2
    <3>. HIDE DEF m
    <3>. QED BY <1>1, <1>2, <2>2, <3>3
  <2>. QED BY <1>2, <2>1, <2>2
<1>. HIDE DEF m
<1>4. SubSeq(c, m, Len(c)) \in Seq(Users) /\ Len(SubSeq(c, m, Len(c))) = Len(c) - m + 1
  BY <1>1, <1>3, SubSeqProperties
<1>. QED BY <1>3, <1>4 DEF m

LEMMA OthersAreQuiet ==
  ASSUME TypeInv,
         (\E u \in Users : LevelUp(u) \/ PostChat(u)) \/ ShowTop \/ \E t \in Ids, n \in Nat : GiveTeamXp(t, n)
  PROVE  Quiet /\ XpKept(db, db')
<1>0. db \in Database /\ today \in Days
  BY DEF TypeInv, TypeOK
<1>1. CASE \E u \in Users : LevelUp(u)
  <2>0. PICK u \in Users : LevelUp(u)
    BY <1>1
  <2>. DEFINE e == [db EXCEPT !.level[u] = CreateLevel]
  <2>1. e \in Database /\ SameCartels(db, e) /\ e.daily = db.daily /\ e.medals = db.medals
    BY <1>0, Constants, SameIsReflexive DEF Database, SameCartels, SameTeams, SamePeople, XpKept
  <2>2. DoDb(e)
    BY <2>0 DEF LevelUp
  <2>. HIDE DEF e
  <2>3. NameGiven(e)
    BY <2>1, SameNameGiven
  <2>. QED BY <2>1, <2>2, <2>3, DoDbQuiet DEF SameCartels, SamePeople, SameRows
<1>2. CASE ShowTop
  <2>1. Rolled(db) \in Database /\ SameCartels(db, Rolled(db)) /\ Rolled(db).daily = db.daily /\ Rolled(db).medals = db.medals
    BY <1>0, RolledTyped, RolledFrame
  <2>2. NameGiven(Rolled(db))
    BY <2>1, SameNameGiven
  <2>. QED BY <1>2, <2>1, <2>2, DoDbQuiet DEF SameCartels, SamePeople, SameRows, ShowTop
<1>3. CASE \E t \in Ids, n \in Nat : GiveTeamXp(t, n)
  <2>0. PICK t \in Ids, n \in Nat : GiveTeamXp(t, n)
    BY <1>3
  <2>. DEFINE e == TeamXp(db, t, n)
  <2>1. e \in Database /\ SameCartels(db, e) /\ e.daily = db.daily /\ e.medals = db.medals
    BY <1>0, <2>0, TeamXpTyped, TeamXpFrame DEF GiveTeamXp
  <2>2. DoDb(e)
    BY <2>0 DEF GiveTeamXp
  <2>. HIDE DEF e
  <2>3. NameGiven(e)
    BY <2>1, SameNameGiven
  <2>. QED BY <2>1, <2>2, <2>3, DoDbQuiet DEF SameCartels, SamePeople, SameRows
<1>4. CASE \E u \in Users : PostChat(u)
  <2>0. PICK u \in Users : PostChat(u)
    BY <1>4
  <2>. DEFINE p == Ask("none")
              d == [db EXCEPT !.pend[u] = p]
              t == db.member[u].team
              c == Append(db.chat[t], u)
              short == SubSeq(c, Max({1, Len(c) - History + 1}), Len(c))
              e == [d EXCEPT !.chat = [db.chat EXCEPT ![t] = short]]
  <2>1. p \in Pending /\ (p.ask = "teamcf" => p.name \in Names)
    BY AskTyped
  <2>2. /\ d \in Database /\ NameGiven(d) /\ SameRows(db, d) /\ XpKept(db, d)
        /\ d.daily = db.daily /\ d.medals = db.medals
    <3>. HIDE DEF p
    <3>. QED BY <2>1, AskedFrame
  <2>3. CASE db.member[u] = NULL
    <3>1. DoDb(d)
      BY <2>0, <2>3 DEF PostChat
    <3>. HIDE DEF d
    <3>. QED BY <2>2, <3>1, DoDbQuiet
  <2>4. CASE db.member[u] # NULL
    <3>1. t \in Ids /\ db.chat[t] \in Seq(Users) /\ Len(db.chat[t]) <= History
      BY <1>0, <2>4, Fields DEF Member
    <3>2. c \in Seq(Users) /\ Len(c) \in Nat /\ Len(c) <= History + 1 /\ Len(c) >= 1
      BY <3>1, Constants
    <3>3. short \in Seq(Users) /\ Len(short) <= History
      <4>. HIDE DEF c
      <4>. QED BY <3>2, ShortHistory
    <3>4. [db.chat EXCEPT ![t] = short] \in [Ids -> {s \in Seq(Users) : Len(s) <= History}]
      <4>. HIDE DEF short, t
      <4>. QED BY <1>0, <3>1, <3>3, Fields
    <3>5. DoDb(e)
      <4>1. d.chat = db.chat
        BY <1>0 DEF Database
      <4>. QED BY <2>0, <2>4, <4>1 DEF PostChat
    <3>. DEFINE chat == [db.chat EXCEPT ![t] = short]
    <3>. HIDE DEF chat, d
    <3>6. [d EXCEPT !.chat = chat] \in Database
      BY <2>2, <3>4 DEF Database, chat
    <3>7. LET f == [d EXCEPT !.chat = chat]
          IN  NameGiven(f) /\ SameRows(db, f) /\ XpKept(db, f) /\ f.daily = db.daily /\ f.medals = db.medals
      BY <2>2 DEF Database, NameGiven, SameRows, SameTeams, XpKept
    <3>8. e = [d EXCEPT !.chat = chat]
      BY DEF chat
    <3>. HIDE DEF e
    <3>. QED BY <3>5, <3>6, <3>7, <3>8, DoDbQuiet
  <2>. QED BY <2>3, <2>4
<1>. QED BY <1>1, <1>2, <1>3, <1>4

LEMMA RegradeFrame ==
  ASSUME NEW tm \in Team
  PROVE  /\ SameTeam(tm, Regrade(tm)) /\ Reached(Regrade(tm))
         /\ Score(Need, Regrade(tm)) = Score(OldNeed, tm)
<1>. DEFINE x == tm.xp + Steps(OldNeed, 1, tm.level)
            k == Climb(1, x)
            r == x - Steps(Need, 1, k)
            b == Regrade(tm)
<1>1. 1 \in Levels /\ 1 \in 1 .. MaxLevel /\ tm.level \in 1 .. MaxLevel /\ tm.xp \in Nat
  BY Constants DEF Team, Levels
<1>2. x \in Nat /\ x = Score(OldNeed, tm) /\ Steps(Need, 1, 1) = 0
  BY <1>1, StepsIsNat DEF Needs, Score
<1>3. (k < MaxLevel => r < Need[k]) /\ r + Steps(Need, 1, k) = x + Steps(Need, 1, 1)
  BY <1>1, <1>2, ClimbLeaves
<1>4. b = [tm EXCEPT !.level = k, !.xp = r]
  BY DEF Regrade
<1>. HIDE DEF k, r, b, x
<1>5. b.level = k /\ b.xp = r /\ SameTeam(tm, b)
  BY <1>4 DEF Team, SameTeam
<1>. QED BY <1>2, <1>3, <1>5 DEF Reached, Score, b

\* The migration is the only handler that lets the score of a cartel change
\* its meaning.
LEMMA MigrateIsQuiet ==
  ASSUME TypeInv, Migrate
  PROVE  /\ Quiet /\ db'.regraded # db.regraded
         /\ \A t \in Ids : db.team[t] # NULL =>
              Reached(db'.team[t]) /\ Score(Need, db'.team[t]) = Score(OldNeed, db.team[t])
<1>. DEFINE teams == [t \in Ids |-> IF db.team[t] = NULL THEN NULL ELSE Regrade(db.team[t])]
            e == [db EXCEPT !.regraded = TRUE, !.team = teams]
<1>1. db \in Database
  BY DEF TypeInv, TypeOK
<1>2. teams \in [Ids -> Team \cup {NULL}] /\ \A t \in Ids : db.team[t] # NULL =>
        /\ teams[t] \in Team /\ SameTeam(db.team[t], teams[t]) /\ Reached(teams[t])
        /\ Score(Need, teams[t]) = Score(OldNeed, db.team[t])
  BY <1>1, Fields, RegradeTyped, RegradeFrame
<1>3. \A t \in Ids : teams[t] = NULL <=> db.team[t] = NULL
  BY <1>2, Constants
<1>4. DoDb(e) /\ ~db.regraded
  BY DEF Migrate
<1>. HIDE DEF teams
<1>5. e \in Database /\ e.team = teams /\ e.member = db.member /\ e.request = db.request /\ e.pend = db.pend
      /\ e.daily = db.daily /\ e.medals = db.medals /\ e.regraded = TRUE
  BY <1>1, <1>2 DEF Database
<1>. HIDE DEF e
<1>6. NameGiven(e) /\ SameRows(db, e)
  BY <1>2, <1>3, <1>5 DEF NameGiven, TypeInv, SameRows, SameTeams
<1>. QED BY <1>2, <1>4, <1>5, <1>6, DoDbQuiet

-----------------------------------------------------------------------------
(* Handlers that record progress of a quest or award medals.               *)

\* A quest is paid when it is marked as done, and not before.
PaysMarked ==
  \/ paid' = paid /\ \A s \in Ids : db'.daily[s].done = db.daily[s].done
  \/ \E t \in Ids, k \in Quests :
       /\ k \notin db.daily[t].done
       /\ paid' = [paid EXCEPT ![t] = [paid[t] EXCEPT ![k] = @ + 1]]
       /\ \A s \in Ids : db'.daily[s].done = db.daily[s].done \cup IF s = t THEN {k} ELSE {}

\* What such a handler does, with the medals n it awards to the player u.
Recording(u, n) ==
  /\ TypeInv' /\ SameCartels(db, db') /\ PaysMarked
  /\ db'.weekKey = db.weekKey \/ db'.weekKey = Week(today)
  /\ (n = 0 /\ db'.medals = db.medals) \/ db'.medals = Awarded(db, u, n).medals
  /\ Free /\ Commit(db', u, n)
  /\ UNCHANGED <<op, job, today, raced, sess, crashes>>

LEMMA DoRecordShape ==
  ASSUME TypeInv, NEW d \in Database, SameCartels(db, d), d.daily = db.daily, d.weekKey = db.weekKey,
         NEW u \in Users, NEW k \in Quests, NEW n \in Nat, NEW m \in Nat,
         (m = 0 /\ d.medals = db.medals) \/ d.medals = Awarded(db, u, m).medals,
         DoRecord(d, u, k, n, m)
  PROVE  Recording(u, m)
<1>. DEFINE e == Record(d, u, k, n)
            t == d.member[u].team
            pays == HasTeam(d, u) /\ Fulfils(Rolled(d), t, k, n)
<1>1. db \in Database /\ today \in Days /\ paid \in [Ids -> [Quests -> Nat]]
  BY DEF TypeInv, TypeOK
<1>2. /\ e \in Database /\ SameCartels(d, e) /\ e.medals = d.medals
      /\ e.weekKey = d.weekKey \/ e.weekKey = Week(today)
      /\ \A s \in Ids : e.daily[s].done = d.daily[s].done \cup IF pays /\ s = t THEN {k} ELSE {}
  BY <1>1, RecordFrame
<1>3. TypeInv'
  BY RecordTyped
<1>4. db' = e /\ Free /\ Commit(e, u, m) /\ UNCHANGED <<op, job, today, raced, sess, crashes>>
  BY DEF DoRecord, Commit, memory
<1>5. SameCartels(db, e)
  BY <1>1, <1>2, SameIsTransitive
<1>6. PaysMarked
  <2>1. HasTeam(d, u) => t \in Ids
    BY Fields DEF HasTeam, Member
  <2>2. IF pays THEN paid' = [paid EXCEPT ![t][k] = @ + 1] ELSE paid' = paid
    BY DEF DoRecord
  <2>3. pays => k \notin db.daily[t].done
    <3>1. Rolled(d).daily = d.daily
      BY RolledFrame
    <3>. QED BY <3>1 DEF Fulfils
  <2>. HIDE DEF e
  <2>4. CASE pays
    <3>1. t \in Ids /\ k \notin db.daily[t].done
      BY <2>1, <2>3, <2>4
    <3>. HIDE DEF t
    <3>2. paid' = [paid EXCEPT ![t] = [paid[t] EXCEPT ![k] = @ + 1]]
      BY <2>2, <2>4
    <3>. QED BY <1>2, <1>4, <2>4, <3>1, <3>2 DEF PaysMarked
  <2>5. CASE ~pays
    <3>. HIDE DEF pays, t
    <3>. QED BY <1>2, <1>4, <2>2, <2>5 DEF PaysMarked
  <2>. QED BY <2>4, <2>5
<1>. HIDE DEF e
<1>. QED BY <1>2, <1>3, <1>4, <1>5, <1>6 DEF Recording

Records(u) ==
  \/ \E k \in Quests : RecordOnly(u, k)
  \/ \E n \in Nat \ {0}, k \in Quests : TeamDeposit(u, n, k) \/ EarnAndRecord(u, n, k)
  \/ \E n \in Nat \ {0} : Earn(u, n)

LEMMA RecordsShape ==
  ASSUME TypeInv, NEW u \in Users, Records(u)
  PROVE  \E n \in Nat : Recording(u, n)
<1>0. db \in Database /\ today \in Days
  BY DEF TypeInv, TypeOK
<1>1. CASE \E k \in Quests : RecordOnly(u, k)
  BY <1>0, <1>1, DoRecordShape, SameIsReflexive DEF RecordOnly
<1>2. ASSUME NEW n \in Nat \ {0}, NEW k \in Quests, TeamDeposit(u, n, k)
      PROVE  Recording(u, 0)
  <2>. DEFINE d == Deposited(db, u, n)
  <2>1. d \in Database /\ SameCartels(db, d) /\ d.daily = db.daily /\ d.medals = db.medals /\ d.weekKey = db.weekKey
    BY <1>0, <1>2, DepositedFrame DEF TeamDeposit
  <2>2. DoRecord(d, u, k, n, 0)
    BY <1>2 DEF TeamDeposit
  <2>. HIDE DEF d
  <2>. QED BY <2>1, <2>2, DoRecordShape
<1>3. ASSUME NEW n \in Nat \ {0}, NEW k \in Quests, EarnAndRecord(u, n, k)
      PROVE  Recording(u, n)
  <2>. DEFINE d == Grown(db, u, n)
  <2>1. /\ d \in Database /\ SameCartels(db, d) /\ d.daily = db.daily /\ d.weekKey = db.weekKey
        /\ d.medals = Awarded(db, u, n).medals
    BY <1>0, GrownTyped, GrownFrame
  <2>2. DoRecord(d, u, k, 1, n)
    BY <1>3 DEF EarnAndRecord
  <2>. HIDE DEF d
  <2>. QED BY <2>1, <2>2, DoRecordShape
<1>4. ASSUME NEW n \in Nat \ {0}, Earn(u, n)
      PROVE  Recording(u, n)
  <2>. DEFINE d == Grown(db, u, n)
  <2>1. /\ d \in Database /\ SameCartels(db, d) /\ d.daily = db.daily /\ d.weekKey = db.weekKey
        /\ d.medals = Awarded(db, u, n).medals
    BY <1>0, GrownTyped, GrownFrame
  <2>2. Free /\ Commit(d, u, n) /\ UNCHANGED <<memory, paid, op, job, today, raced, crashes>>
    BY <1>4 DEF Earn
  <2>. HIDE DEF d
  <2>3. NameGiven(d)
    BY <2>1, SameNameGiven
  <2>4. db' = d /\ earned' \in [Users -> [Weeks -> Nat]]
    BY <2>1, <2>2, CommitTyped DEF TypeInv
  <2>5. TypeInv'
    BY <2>1, <2>2, <2>3, <2>4 DEF TypeInv, TypeOK, NameGiven, memory
  <2>. QED BY <2>1, <2>2, <2>4, <2>5 DEF Recording, PaysMarked, memory
<1>. QED BY <1>1, <1>2, <1>3, <1>4 DEF Records

-----------------------------------------------------------------------------
(* What the steps do to the cartels.                                       *)

SameSeats(d, e) ==
  /\ \A t \in Ids : /\ e.team[t] = NULL <=> d.team[t] = NULL
                    /\ d.team[t] # NULL => /\ e.team[t].owner = d.team[t].owner
                                           /\ e.team[t].cooling => d.team[t].cooling
  /\ e.member = d.member /\ e.request = d.request

\* At most one cartel takes a new name, which no other has.
NamesApart(d, e) ==
  \A t \in Ids : d.team[t] # NULL =>
    \/ e.team[t].name = d.team[t].name
    \/ /\ ~Taken(d, e.team[t].name)
       /\ \A s \in Ids \ {t} : d.team[s] # NULL => e.team[s].name = d.team[s].name

XpStep(d, e) ==
  \/ XpKept(d, e)
  \/ /\ e.regraded # d.regraded
     /\ \A t \in Ids : d.team[t] # NULL =>
          Reached(e.team[t]) /\ Score(Need, e.team[t]) = Score(OldNeed, d.team[t])

\* A handler after which everybody is where they were.
Seated ==
  /\ TypeInv' /\ SameSeats(db, db') /\ NamesApart(db, db') /\ XpStep(db, db')
  /\ db'.daily = db.daily /\ db'.medals = db.medals
  /\ Free /\ Commit(db', NULL, 0)
  /\ UNCHANGED <<op, job, today, raced, sess, paid>>

Sits ==
  \/ \E u \in Users :
       \/ AskName(u) \/ Cancel(u) \/ AskKick(u) \/ SearchKick(u) \/ AskChat(u) \/ SetBio(u)
       \/ LevelUp(u) \/ PostChat(u) \/ ConfirmRename(u)
       \/ \E n \in Names : GiveName(u, n) \/ AskRename(u, n)
       \/ \E kind \in {"atk", "def"} : Upgrade(u, kind)
  \/ \E t \in Ids : ToggleHidden(t) \/ HourOver(t)
  \/ \E t \in Ids, n \in Nat : GiveTeamXp(t, n)
  \/ Migrate \/ ShowTop

LEMMA QuietIsSeated ==
  ASSUME Quiet, XpStep(db, db')
  PROVE  Seated
BY DEF Quiet, Seated, SameRows, SameTeams, SameTeam, SameSeats, NamesApart

\* A handler that commits d and touches the names that wait in memory.
LEMMA DoSeated ==
  ASSUME TypeInv, NEW d \in Database, NameGiven(d), Do(d), UNCHANGED <<sess, paid>>,
         renaming' \in [Users -> Names \cup {NULL}],
         SameSeats(db, d), NamesApart(db, d), XpKept(db, d), d.daily = db.daily, d.medals = db.medals
  PROVE  Seated
<1>1. sess' \in [Ids -> Session \cup {NULL}] /\ paid' \in [Ids -> [Quests -> Nat]]
  BY DEF TypeInv, TypeOK
<1>2. TypeInv'
  BY <1>1, DoTyped
<1>3. db' = d /\ Free /\ Commit(d, NULL, 0) /\ UNCHANGED <<op, job, today, raced>>
  BY DEF Do, Commit
<1>. QED BY <1>2, <1>3 DEF Seated, XpStep

LEMMA SitsShape ==
  ASSUME TypeInv, Sits
  PROVE  Seated
<1>0. db \in Database /\ NameGiven(db) /\ renaming \in [Users -> Names \cup {NULL}]
  BY DEF TypeInv, TypeOK
<1>1. CASE \E u \in Users : \/ AskName(u) \/ Cancel(u) \/ AskKick(u) \/ SearchKick(u) \/ AskChat(u)
                            \/ \E n \in Names : GiveName(u, n)
  BY <1>1, QuestionsAreQuiet, QuietIsSeated DEF XpStep
<1>2. CASE \/ \E u \in Users : SetBio(u) \/ \E kind \in {"atk", "def"} : Upgrade(u, kind)
           \/ \E t \in Ids : ToggleHidden(t)
  BY <1>2, RowsAreQuiet, QuietIsSeated DEF XpStep
<1>3. CASE (\E u \in Users : LevelUp(u) \/ PostChat(u)) \/ ShowTop \/ \E t \in Ids, n \in Nat : GiveTeamXp(t, n)
  BY <1>3, OthersAreQuiet, QuietIsSeated DEF XpStep
<1>4. CASE Migrate
  BY <1>4, MigrateIsQuiet, QuietIsSeated DEF XpStep
<1>5. CASE \E u \in Users, n \in Names : AskRename(u, n)
  <2>1. SameSeats(db, db) /\ NamesApart(db, db) /\ XpKept(db, db)
    BY DEF SameSeats, NamesApart, XpKept, MoreXp
  <2>. QED BY <1>0, <1>5, <2>1, DoSeated DEF AskRename
<1>6. CASE \E u \in Users : ConfirmRename(u)
  <2>0. PICK u \in Users : ConfirmRename(u)
    BY <1>6
  <2>. DEFINE n == renaming[u]
              t == db.member[u].team
              d == Renamed(db, u, n)
              b == [db.team[t] EXCEPT !.name = n]
  <2>1. n \in Names /\ renaming' \in [Users -> Names \cup {NULL}] /\ UNCHANGED <<sess, paid>> /\ Do(d)
    BY <1>0, <2>0 DEF ConfirmRename
  <2>2. CASE CanRename(db, u, n)
    <3>1. /\ d \in Database /\ t \in Ids /\ db.team[t] # NULL /\ SamePeople(db, d) /\ XpKept(db, d)
          /\ b \in Team /\ d.team = [db.team EXCEPT ![t] = b] /\ d.daily = db.daily /\ d.medals = db.medals
      BY <1>0, <2>1, <2>2, RenamedFrame
    <3>2. b.name = n /\ b.owner = db.team[t].owner /\ b.cooling = db.team[t].cooling /\ ~Taken(db, n)
      <4>1. db.team[t] \in Team
        BY <1>0, <3>1, Fields
      <4>. QED BY <2>2, <4>1 DEF Team, CanRename
    <3>. HIDE DEF n, t, d, b
    <3>3. d.team[t] = b /\ \A s \in Ids \ {t} : d.team[s] = db.team[s]
      BY <1>0, <3>1, Fields
    <3>4. SameSeats(db, d) /\ NamesApart(db, d)
      BY <3>1, <3>2, <3>3, Constants DEF SameSeats, NamesApart, SamePeople
    <3>5. NameGiven(d)
      BY <1>0, <3>1 DEF NameGiven, SamePeople
    <3>. QED BY <2>1, <3>1, <3>4, <3>5, DoSeated
  <2>3. CASE ~CanRename(db, u, n)
    <3>1. d = db
      BY <2>3 DEF Renamed
    <3>2. SameSeats(db, db) /\ NamesApart(db, db) /\ XpKept(db, db)
      BY DEF SameSeats, NamesApart, XpKept, MoreXp
    <3>. HIDE DEF d
    <3>. QED BY <1>0, <2>1, <3>1, <3>2, DoSeated
  <2>. QED BY <2>2, <2>3
<1>7. CASE \E t \in Ids : HourOver(t)
  <2>0. PICK t \in Ids : HourOver(t)
    BY <1>7
  <2>. DEFINE b == [db.team[t] EXCEPT !.cooling = FALSE]
              d == [db EXCEPT !.team = [db.team EXCEPT ![t] = b]]
  <2>1. db.team[t] # NULL /\ db.team[t] \in Team
    BY <1>0, <2>0, Fields DEF HourOver
  <2>2. b \in Team /\ b.name = db.team[t].name /\ b.owner = db.team[t].owner /\ b.cooling = FALSE
        /\ MoreXp(db.team[t], b)
    BY <2>1 DEF Team, MoreXp
  <2>3. Do(d) /\ UNCHANGED <<sess, paid, renaming>>
    BY <2>0 DEF HourOver, DoDb, memory
  <2>. HIDE DEF b
  <2>4. d \in Database /\ SamePeople(db, d) /\ d.daily = db.daily /\ d.medals = db.medals /\ d.regraded = db.regraded
        /\ d.team[t] = b /\ \A s \in Ids \ {t} : d.team[s] = db.team[s]
    <3>1. d.regraded = db.regraded
      BY <1>0 DEF Database
    <3>. QED BY <1>0, <2>1, <2>2, <3>1, OneTeam
  <2>. HIDE DEF d
  <2>5. SameSeats(db, d) /\ NamesApart(db, d) /\ XpKept(db, d)
    BY <2>1, <2>2, <2>4, Constants DEF SameSeats, NamesApart, SamePeople, XpKept, MoreXp
  <2>6. NameGiven(d)
    BY <1>0, <2>4 DEF NameGiven, SamePeople
  <2>. QED BY <1>0, <2>3, <2>4, <2>5, <2>6, DoSeated
<1>. QED BY <1>1, <1>2, <1>3, <1>4, <1>5, <1>6, <1>7 DEF Sits

\* The player u founds a cartel with the name n.
Founds(u, n) ==
  /\ TypeInv' /\ CanCreate(db, u) /\ ~Taken(db, n) /\ NewId(db) \in Ids
  /\ db.team[NewId(db)] = NULL /\ NewTeamRow(u, n) \in Team
  /\ db'.team = [db.team EXCEPT ![NewId(db)] = NewTeamRow(u, n)]
  /\ db'.member = [db.member EXCEPT ![u] = Newcomer(NewId(db), "owner", db.medals[u].all)]
  /\ db'.request = db.request /\ db'.daily = db.daily /\ db'.medals = db.medals
  /\ db'.regraded = db.regraded
  /\ Free /\ Commit(db', NULL, 0)
  /\ UNCHANGED <<op, job, today, raced, sess, paid>>

LEMMA ConfirmCreateShape ==
  ASSUME TypeInv, NEW u \in Users, ConfirmCreate(u)
  PROVE  Seated \/ \E n \in Names : Founds(u, n)
<1>. DEFINE n == db.pend[u].name
            c == Created(db, u, n)
            p == Ask("none")
<1>1. db \in Database /\ today \in Days /\ NewId(db) \in Ids /\ n \in Names
  BY DEF TypeInv, TypeOK, NameGiven, ConfirmCreate
<1>2. p \in Pending /\ p.ask # "teamcf"
  BY DEF Ask, Pending
<1>3. CASE CanCreate(db, u) /\ ~Taken(db, n)
  <2>. DEFINE e == [c EXCEPT !.pend[u] = p]
  <2>1. /\ c \in Database /\ NewTeamRow(u, n) \in Team
        /\ c.team = [db.team EXCEPT ![NewId(db)] = NewTeamRow(u, n)]
        /\ c.member = [db.member EXCEPT ![u] = Newcomer(NewId(db), "owner", db.medals[u].all)]
        /\ c.request = db.request /\ c.pend = db.pend /\ c.daily = db.daily /\ c.medals = db.medals
        /\ c.regraded = db.regraded
    BY <1>1, <1>3, CreatedFrame
  <2>2. DoDb(e)
    BY <1>3 DEF ConfirmCreate
  <2>. HIDE DEF c, p
  <2>3. /\ e \in Database /\ e.team = c.team /\ e.member = c.member /\ e.request = c.request
        /\ e.daily = c.daily /\ e.medals = c.medals /\ e.regraded = c.regraded
        /\ e.pend = [c.pend EXCEPT ![u] = p]
    BY <1>2, <2>1 DEF Database
  <2>. HIDE DEF e
  <2>4. NameGiven(e)
    <3>1. db.pend \in [Users -> Pending] /\ NameGiven(db)
      BY <1>1, Fields DEF TypeInv
    <3>. QED BY <1>2, <2>1, <2>3, <3>1 DEF NameGiven
  <2>5. TypeInv'
    BY <2>2, <2>3, <2>4, DoDbTyped
  <2>6. db' = e /\ Free /\ Commit(e, NULL, 0) /\ UNCHANGED <<op, job, today, raced, sess, paid>>
    BY <2>2 DEF DoDb, Do, Commit, memory
  <2>7. db.team[NewId(db)] = NULL
    BY <1>1, NewIdIsFree
  <2>. QED BY <1>1, <1>3, <2>1, <2>3, <2>5, <2>6, <2>7 DEF Founds
<1>4. CASE ~(CanCreate(db, u) /\ ~Taken(db, n))
  <2>1. DoDb([db EXCEPT !.pend[u] = p])
    BY <1>4 DEF ConfirmCreate
  <2>. HIDE DEF p
  <2>. QED BY <1>2, <2>1, AskQuiet, QuietIsSeated DEF XpStep
<1>. QED BY <1>3, <1>4

-----------------------------------------------------------------------------
(* The other steps and their types.                                        *)

LEMMA MembersAreUsers ==
  ASSUME NEW d \in Database, NEW t \in Ids
  PROVE  Members(d, t) \subseteq Users /\ IsFiniteSet(Members(d, t)) /\ Cardinality(Members(d, t)) \in Nat
BY Constants, FS_Subset, FS_CardinalityType DEF Members

\* The steps of a request between its reads and its commit.
LEMMA RequestTyped ==
  ASSUME TypeInv,
         \/ RequestCommit \/ AcceptCommit
         \/ \E u, v \in Users, t \in Ids : RequestRead(u, t) \/ AcceptRead(u, t, v)
  PROVE  TypeInv'
<1>0. db \in Database /\ op \in Ops /\ today \in Days /\ TypeOK /\ NameGiven(db)
  BY DEF TypeInv, TypeOK
<1>1. CASE \E u \in Users, t \in Ids : RequestRead(u, t)
  BY <1>0, <1>1 DEF RequestRead, Ops, memory, TypeInv, TypeOK
<1>2. CASE \E u, v \in Users, t \in Ids : AcceptRead(u, t, v)
  <2>1. \A v \in Users : db.medals[v].all \in Nat
    BY <1>0, Fields DEF Medals
  <2>. QED BY <1>0, <1>2, <2>1 DEF AcceptRead, Ops, memory, TypeInv, TypeOK
<1>3. CASE RequestCommit
  <2>1. op.who \in Users /\ op.team \in Ids
    BY <1>0, <1>3 DEF RequestCommit, Ops, Idle
  <2>. DEFINE q == db.request \cup {<<op.team, op.who>>}
  <2>4. q \subseteq Ids \X Users
    BY <1>0, <2>1, Fields
  <2>5. db' = [db EXCEPT !.request = q]
    BY <1>3 DEF RequestCommit
  <2>. HIDE DEF q
  <2>2. db' \in Database /\ db'.pend = db.pend
    BY <1>0, <2>4, <2>5 DEF Database
  <2>3. op' \in Ops /\ UNCHANGED <<memory, job, today, history, crashes>>
    BY <1>3 DEF RequestCommit, Ops
  <2>. QED BY <1>0, <2>2, <2>3 DEF memory, history, TypeInv, TypeOK, NameGiven
<1>4. CASE AcceptCommit
  <2>1. op.who \in Users /\ op.team \in Ids /\ op.base \in Nat
    BY <1>0, <1>4 DEF AcceptCommit, Ops, Idle
  <2>. DEFINE m == Newcomer(op.team, "member", op.base)
  <2>2. m \in Member
    BY <1>0, <2>1 DEF Newcomer, Member
  <2>5. db' = [db EXCEPT !.member[op.who] = m, !.request = @ \ {<<op.team, op.who>>}]
    BY <1>4 DEF AcceptCommit
  <2>. HIDE DEF m
  <2>3. db' \in Database /\ db'.pend = db.pend
    BY <1>0, <2>1, <2>2, <2>5 DEF Database
  <2>4. op' \in Ops /\ UNCHANGED <<memory, job, today, history, crashes>>
    BY <1>4 DEF AcceptCommit, Ops
  <2>. QED BY <1>0, <2>3, <2>4 DEF memory, history, TypeInv, TypeOK, NameGiven
<1>. QED BY <1>1, <1>2, <1>3, <1>4

LEMMA PeopleTyped ==
  ASSUME TypeInv, NEW u \in Users, NEW v \in Users,
         (\E t \in Ids : Reject(u, t, v)) \/ Leave(u) \/ Kick(u, v) \/ ToggleAdmin(u, v) \/ Disband(u)
  PROVE  TypeInv'
<1>0. db \in Database /\ TypeOK /\ NameGiven(db)
  BY DEF TypeInv, TypeOK
<1>1. CASE \E t \in Ids : Reject(u, t, v)
  <2>0. PICK t \in Ids : Reject(u, t, v)
    BY <1>1
  <2>. DEFINE d == [db EXCEPT !.request = @ \ {<<t, v>>}]
  <2>1. d \in Database /\ d.pend = db.pend
    BY <1>0 DEF Database
  <2>2. DoDb(d)
    BY <2>0 DEF Reject
  <2>. HIDE DEF d
  <2>. QED BY <2>1, <2>2, SameNameGiven, DoDbTyped
<1>2. CASE Leave(u) \/ Kick(u, v)
  <2>1. PICK w : DoDb(Fire(db, {w}))
    BY <1>2 DEF Leave, Kick
  <2>2. Fire(db, {w}) \in Database /\ Fire(db, {w}).pend = db.pend
    BY <1>0, FireTyped DEF Fire, Database
  <2>. QED BY <2>1, <2>2, SameNameGiven, DoDbTyped
<1>3. CASE ToggleAdmin(u, v)
  <2>. DEFINE m == [db.member[v] EXCEPT !.role = IF @ = "admin" THEN "member" ELSE "admin"]
              d == [db EXCEPT !.member[v] = m]
  <2>1. db.member[v] \in Member
    BY <1>0, <1>3, Fields DEF ToggleAdmin, Members
  <2>2. m \in Member
    BY <2>1 DEF Member
  <2>3. DoDb(d)
    BY <1>3 DEF ToggleAdmin
  <2>. HIDE DEF m
  <2>4. d \in Database /\ d.pend = db.pend
    BY <1>0, <2>2 DEF Database
  <2>. HIDE DEF d
  <2>. QED BY <2>3, <2>4, SameNameGiven, DoDbTyped
<1>4. CASE Disband(u)
  <2>. DEFINE s == db.member[u].team
              d == Disbanded(db, s)
  <2>1. s \in Ids
    BY <1>0, <1>4, Fields DEF Disband, HasTeam, Member
  <2>2. d \in Database /\ d.pend = db.pend
    BY <1>0, <2>1, DisbandedTyped DEF Disbanded, Fire, Database
  <2>3. Do(d) /\ sess' = [sess EXCEPT ![s] = NULL] /\ UNCHANGED <<renaming, paid>>
    BY <1>4 DEF Disband
  <2>. HIDE DEF s, d
  <2>4. sess' \in [Ids -> Session \cup {NULL}] /\ renaming' \in [Users -> Names \cup {NULL}]
        /\ paid' \in [Ids -> [Quests -> Nat]]
    BY <1>0, <2>3 DEF TypeOK
  <2>. QED BY <2>2, <2>3, <2>4, SameNameGiven, DoTyped
<1>. QED BY <1>1, <1>2, <1>3, <1>4

LEMMA WipedFrame ==
  ASSUME NEW d \in Database, NEW u \in Users, NameGiven(d)
  PROVE  NameGiven(Wiped(d, u))
<1>. DEFINE left == IF d.member[u] = NULL THEN d
                    ELSE IF Owns(d, u) /\ HasTeam(d, u)
                      THEN [Disbanded(d, d.member[u].team) EXCEPT !.daily[d.member[u].team] = NewDay]
                      ELSE Fire(d, {u})
<1>1. left.pend = d.pend
  BY DEF Disbanded, Fire, Database
<1>2. Wiped(d, u) = [left EXCEPT !.cash[u] = StartCash, !.level[u] = 1,
                                 !.medals[u] = NoMedals, !.pend[u] = Ask("none")]
  BY DEF Wiped
<1>3. DOMAIN left = DOMAIN d
  BY DEF Disbanded, Fire, Database
<1>. HIDE DEF left
<1>4. Wiped(d, u).pend = [d.pend EXCEPT ![u] = Ask("none")]
  BY <1>1, <1>2, <1>3 DEF Database
<1>. QED BY <1>4, Fields DEF NameGiven, Ask

LEMMA WipesTyped ==
  ASSUME TypeInv, WipeCommit \/ \E u \in Users : ClearAccount(u) \/ WipeBegin(u)
  PROVE  TypeInv'
<1>0. db \in Database /\ TypeOK /\ NameGiven(db) /\ job \in Users \cup {NULL}
  BY DEF TypeInv, TypeOK
<1>1. \A u \in Users : Wiped(db, u) \in Database /\ NameGiven(Wiped(db, u))
  BY <1>0, WipedTyped, WipedFrame
<1>2. \A u \in Users : Unmined(u) \in [Ids -> Session \cup {NULL}] /\ Reopened(u) \in [Ids -> [Quests -> Nat]]
  BY <1>0 DEF TypeOK, Unmined, Reopened
<1>3. CASE \E u \in Users : ClearAccount(u)
  BY <1>0, <1>1, <1>2, <1>3, DoTyped DEF ClearAccount, TypeOK
<1>4. CASE \E u \in Users : WipeBegin(u)
  BY <1>0, <1>2, <1>4 DEF WipeBegin, TypeInv, TypeOK
<1>5. CASE WipeCommit
  <2>1. job \in Users /\ Commit(Wiped(db, job), job, 0) /\ paid' = Reopened(job) /\ job' = NULL
        /\ UNCHANGED <<memory, op, today, raced, crashes>>
    BY <1>0, <1>5 DEF WipeCommit
  <2>2. db' = Wiped(db, job) /\ earned' \in [Users -> [Weeks -> Nat]]
    BY <1>0, <1>1, <2>1, CommitTyped
  <2>. QED BY <1>0, <1>1, <1>2, <2>1, <2>2 DEF TypeInv, TypeOK, memory
<1>. QED BY <1>3, <1>4, <1>5

LEMMA TimeTyped ==
  ASSUME TypeInv, NextDay \/ Crash \/ \E t \in Ids : SessionLate(t)
  PROVE  TypeInv'
<1>0. db \in Database /\ TypeOK /\ NameGiven(db)
  BY DEF TypeInv, TypeOK
<1>1. CASE NextDay
  <2>1. NewDay \in Daily
    BY DEF NewDay, Daily
  <2>2. db' \in Database /\ db'.pend = db.pend
    BY <1>0, <1>1, <2>1 DEF NextDay, Database
  <2>3. today' \in Days
    BY <1>0, <1>1, Constants DEF NextDay, TypeOK, Days
  <2>4. paid' \in [Ids -> [Quests -> Nat]] /\ UNCHANGED <<memory, op, job, raced, earned, crashes>>
    BY <1>1 DEF NextDay
  <2>. QED BY <1>0, <2>2, <2>3, <2>4 DEF TypeInv, TypeOK, NameGiven, memory
<1>2. CASE Crash
  <2>1. crashes' \in 0 .. MaxCrashes
    BY <1>0, <1>2, Constants DEF Crash, TypeOK
  <2>. QED BY <1>0, <1>2, <2>1 DEF Crash, TypeInv, TypeOK, history, Ops
<1>3. CASE \E t \in Ids : SessionLate(t)
  <2>0. PICK t \in Ids : SessionLate(t)
    BY <1>3
  <2>1. sess[t] \in Session /\ sess' = [sess EXCEPT ![t] = [sess[t] EXCEPT !.late = TRUE]]
    BY <1>0, <2>0 DEF SessionLate, Live, TypeOK
  <2>2. [sess[t] EXCEPT !.late = TRUE] \in Session
    BY <2>1 DEF Session
  <2>3. sess' \in [Ids -> Session \cup {NULL}]
    BY <1>0, <2>1, <2>2 DEF TypeOK
  <2>. QED BY <1>0, <2>0, <2>3 DEF SessionLate, TypeInv, TypeOK, history
<1>. QED BY <1>1, <1>2, <1>3

LEMMA MineNeededIs == ASSUME NEW n \in Nat PROVE MineNeeded(n) \in Nat /\ MineNeeded(n) >= 3
<1>. DEFINE m == (7 * n + 9) \div 10
<1>1. m \in Int
  OBVIOUS
<1>. HIDE DEF m
<1>2. CASE m <= 3
  <2>1. Max({3, m}) = 3
    BY <1>1, <1>2, PairMax
  <2>. QED BY <2>1 DEF MineNeeded, m
<1>3. CASE m > 3
  <2>1. Max({m, 3}) = m /\ {m, 3} = {3, m}
    BY <1>1, <1>3, PairMax
  <2>2. Max({3, m}) = m
    BY <2>1
  <2>. QED BY <1>1, <1>3, <2>2 DEF MineNeeded, m
<1>. QED BY <1>1, <1>2, <1>3

SameTeamButRest(a, b) == b.name = a.name /\ b.owner = a.owner /\ MoreXp(a, b)

\* What a player's joining of the common mining does.
Mines(t) ==
  /\ TypeInv' /\ t \in Ids /\ db.team[t] # NULL
  /\ SamePeople(db, db') /\ XpKept(db, db') /\ db'.daily = db.daily /\ db'.medals = db.medals
  /\ \A s \in Ids : /\ db'.team[s] = NULL <=> db.team[s] = NULL
                    /\ db.team[s] # NULL =>
                           /\ db'.team[s].name = db.team[s].name
                           /\ db'.team[s].owner = db.team[s].owner
                           /\ \/ db'.team[s].cooling = db.team[s].cooling
                              \/ s = t /\ sess'[t] = NULL
  /\ \E j \in Session \cup {NULL} :
       /\ sess' = [sess EXCEPT ![t] = j]
       /\ j # NULL => /\ Live(t) \/ ~db.team[t].cooling
                      /\ sess[t] # NULL /\ ~Live(t) => ~j.late
                      /\ ~j.late => (Live(t) => j.needed = sess[t].needed) /\ (~Live(t) => j.needed >= 3)
                      /\ Cardinality(j.who) < j.needed
  /\ op = Idle /\ op' = op
  /\ UNCHANGED <<job, today, earned, paid>>
  /\ raced' = (raced \/ job # NULL)

LEMMA MineJoinShape ==
  ASSUME TypeInv, NEW u \in Users, NEW per \in PerMiner, MineJoin(u, per)
  PROVE  \E t \in Ids : Mines(t)
<1>. DEFINE t == db.member[u].team
            d == Rolled(db)
            n == Cardinality(Members(d, t))
            x == JoinedSession(t, n)
            j == [x EXCEPT !.who = @ \cup {u}]
            full == Cardinality(j.who) >= j.needed
            k == Cardinality(j.who)
            b == [d.team[t] EXCEPT !.bank = @ + per * k, !.cooling = TRUE]
<1>0. /\ db \in Database /\ TypeOK /\ NameGiven(db) /\ today \in Days /\ sess \in [Ids -> Session \cup {NULL}]
      /\ per \in Nat
  BY TeamsAssumption DEF TypeInv, TypeOK
<1>1. t \in Ids /\ db.team[t] # NULL
  BY <1>0, Fields DEF MineJoin, HasTeam, Member
<1>2. /\ d \in Database /\ SameCartels(db, d) /\ d.daily = db.daily /\ d.medals = db.medals
  BY <1>0, RolledTyped, RolledFrame
<1>3. d.team[t] \in Team /\ d.team[t] # NULL
  BY <1>1, <1>2, Fields DEF SameCartels, SameTeams
<1>4. n \in Nat
  BY <1>1, <1>2, MembersAreUsers
<1>5. /\ x \in Session /\ ~x.late /\ (Live(t) => x = sess[t]) /\ (~Live(t) => x.needed >= 3)
  <2>1. MineNeeded(n) \in Nat /\ MineNeeded(n) >= 3
    BY <1>4, MineNeededIs
  <2>. HIDE DEF n, t
  <2>2. CASE Live(t)
    BY <1>0, <1>1, <2>2 DEF JoinedSession, Live
  <2>3. CASE ~Live(t)
    BY <2>1, <2>3 DEF JoinedSession, Session
  <2>. QED BY <2>2, <2>3
<1>6. /\ op = Idle /\ (Live(t) \/ ~db.team[t].cooling)
      /\ raced' = (raced \/ job # NULL)
      /\ sess' = [sess EXCEPT ![t] = IF full THEN NULL ELSE j]
      /\ db' = d \/ (full /\ db' = [d EXCEPT !.team[t].bank = @ + per * Cardinality(j.who), !.team[t].cooling = TRUE])
      /\ UNCHANGED <<renaming, op, job, today, earned, paid, crashes>>
  BY DEF MineJoin, Rested
<1>. HIDE DEF n, x
<1>7. j \in Session /\ j.needed = x.needed /\ ~j.late /\ k \in Nat
  <2>1. j \in Session /\ j.needed = x.needed /\ ~j.late
    BY <1>5 DEF Session
  <2>2. IsFiniteSet(j.who)
    BY <2>1, Constants, FS_Subset DEF Session
  <2>. QED BY <2>1, <2>2, FS_CardinalityType
<1>8. full \/ k < j.needed
  BY <1>7 DEF Session
<1>9. b \in Team /\ SameTeamButRest(d.team[t], b)
  <2>. DEFINE gift == d.team[t].bank + per * k
  <2>1. gift \in Nat
    <3>1. d.team[t].bank \in Nat
      BY <1>3 DEF Team
    <3>. HIDE DEF k
    <3>. QED BY <1>0, <1>7, <3>1
  <2>2. b = [d.team[t] EXCEPT !.bank = gift, !.cooling = TRUE]
    BY <1>3 DEF Team
  <2>. HIDE DEF gift, b
  <2>. QED BY <1>3, <2>1, <2>2 DEF Team, SameTeamButRest, MoreXp
<1>. DEFINE e == [d EXCEPT !.team = [d.team EXCEPT ![t] = b]]
<1>10. db' = d \/ (full /\ db' = e)
  <2>. HIDE DEF d, t, j
  <2>1. [d EXCEPT !.team[t].bank = @ + per * Cardinality(j.who), !.team[t].cooling = TRUE] = e
    BY <1>1, <1>2, <1>3, Fields
  <2>. QED BY <1>6, <2>1
<1>. HIDE DEF t, b, j, full, k, d
<1>11. /\ e \in Database /\ SamePeople(d, e) /\ e.team[t] = b /\ \A s \in Ids \ {t} : e.team[s] = d.team[s]
       /\ e.daily = d.daily /\ e.medals = d.medals
  BY <1>1, <1>2, <1>3, <1>9, OneTeam
<1>12. e.regraded = d.regraded
  BY <1>2 DEF Database
<1>. HIDE DEF e
<1>13. XpKept(d, e)
  BY <1>9, <1>11, <1>12 DEF XpKept, MoreXp, SameTeamButRest
<1>14. XpKept(db, e)
  BY <1>2, <1>11, <1>12, <1>13, <1>0, XpKeptTwice DEF SameCartels, SameTeams
<1>15. /\ db' \in Database /\ SamePeople(db, db') /\ XpKept(db, db') /\ db'.daily = db.daily /\ db'.medals = db.medals
  BY <1>2, <1>10, <1>11, <1>14 DEF SameCartels, SamePeople
<1>16. \A s \in Ids : /\ db'.team[s] = NULL <=> db.team[s] = NULL
                      /\ db.team[s] # NULL =>
                           /\ db'.team[s].name = db.team[s].name
                           /\ db'.team[s].owner = db.team[s].owner
                           /\ \/ db'.team[s].cooling = db.team[s].cooling
                              \/ s = t /\ full
  BY <1>1, <1>2, <1>3, <1>9, <1>10, <1>11, Constants DEF SameCartels, SameTeams, SameTeam, SameTeamButRest
<1>17. sess' \in [Ids -> Session \cup {NULL}] /\ sess'[t] = IF full THEN NULL ELSE j
  BY <1>0, <1>1, <1>6, <1>7
<1>18. TypeInv'
  <2>1. NameGiven(db')
    BY <1>0, <1>15 DEF NameGiven, SamePeople
  <2>2. raced' \in BOOLEAN
    BY <1>0, <1>6 DEF TypeOK
  <2>. QED BY <1>0, <1>6, <1>15, <1>17, <2>1, <2>2 DEF TypeInv, TypeOK
<1>. DEFINE y == IF full THEN NULL ELSE j
<1>19. /\ y \in Session \cup {NULL} /\ sess' = [sess EXCEPT ![t] = y]
       /\ y # NULL => /\ Live(t) \/ ~db.team[t].cooling
                      /\ sess[t] # NULL /\ ~Live(t) => ~y.late
                      /\ ~y.late => (Live(t) => y.needed = sess[t].needed) /\ (~Live(t) => y.needed >= 3)
                      /\ Cardinality(y.who) < y.needed
  BY <1>5, <1>6, <1>7, <1>8 DEF k
<1>20. \E z \in Session \cup {NULL} :
         /\ sess' = [sess EXCEPT ![t] = z]
         /\ z # NULL => /\ Live(t) \/ ~db.team[t].cooling
                        /\ sess[t] # NULL /\ ~Live(t) => ~z.late
                        /\ ~z.late => (Live(t) => z.needed = sess[t].needed) /\ (~Live(t) => z.needed >= 3)
                        /\ Cardinality(z.who) < z.needed
  BY <1>19
<1>. QED BY <1>1, <1>6, <1>15, <1>16, <1>17, <1>18, <1>20 DEF Mines

-----------------------------------------------------------------------------
(* Type correctness.                                                       *)

Moves ==
  \/ \E u \in Users :
       \/ Leave(u) \/ Disband(u) \/ ClearAccount(u) \/ WipeBegin(u)
       \/ \E v \in Users : Kick(u, v) \/ ToggleAdmin(u, v)
       \/ \E t \in Ids : RequestRead(u, t)
       \/ \E t \in Ids, v \in Users : AcceptRead(u, t, v) \/ Reject(u, t, v)
  \/ \E t \in Ids : SessionLate(t)
  \/ RequestCommit \/ AcceptCommit \/ WipeCommit \/ NextDay \/ Crash

Shapes ==
  \/ Seated
  \/ \E u \in Users, n \in Nat : Recording(u, n)
  \/ \E u \in Users, n \in Names : Founds(u, n)
  \/ \E t \in Ids : Mines(t)
  \/ Moves

LEMMA NextSplits ==
  ASSUME Next
  PROVE  \/ Sits \/ Moves
         \/ \E u \in Users : Records(u) \/ ConfirmCreate(u) \/ \E per \in PerMiner : MineJoin(u, per)
BY Zenon DEF Next, Sits, Moves, Records

LEMMA StepShapes ==
  ASSUME TypeInv, Next
  PROVE  Shapes
<1>1. CASE Sits
  BY <1>1, SitsShape DEF Shapes
<1>2. CASE \E u \in Users : Records(u)
  BY <1>2, RecordsShape DEF Shapes
<1>3. CASE \E u \in Users : ConfirmCreate(u)
  BY <1>3, ConfirmCreateShape DEF Shapes
<1>4. CASE \E u \in Users, per \in PerMiner : MineJoin(u, per)
  BY <1>4, MineJoinShape DEF Shapes
<1>5. CASE Moves
  BY <1>5 DEF Shapes
<1>. QED BY <1>1, <1>2, <1>3, <1>4, <1>5, NextSplits

LEMMA MovesTyped == ASSUME TypeInv, Moves PROVE TypeInv'
<1>1. CASE \/ RequestCommit \/ AcceptCommit
           \/ \E u, v \in Users, t \in Ids : RequestRead(u, t) \/ AcceptRead(u, t, v)
  BY <1>1, RequestTyped
<1>2. CASE WipeCommit \/ \E u \in Users : ClearAccount(u) \/ WipeBegin(u)
  BY <1>2, WipesTyped
<1>3. CASE NextDay \/ Crash \/ \E t \in Ids : SessionLate(t)
  BY <1>3, TimeTyped
<1>4. CASE \E u, v \in Users : Leave(u) \/ Kick(u, v) \/ ToggleAdmin(u, v) \/ Disband(u)
  BY <1>4, PeopleTyped
<1>5. CASE \E u, v \in Users, t \in Ids : Reject(u, t, v)
  BY <1>5, PeopleTyped
<1>. QED BY <1>1, <1>2, <1>3, <1>4, <1>5 DEF Moves

LEMMA StepTyped == ASSUME TypeInv, Shapes PROVE TypeInv'
BY MovesTyped DEF Shapes, Seated, Recording, Founds, Mines

LEMMA TypeStep == ASSUME TypeInv, [Next]_vars PROVE TypeInv'
<1>1. CASE Next
  BY <1>1, StepShapes, StepTyped
<1>2. CASE UNCHANGED vars
  BY <1>2 DEF vars, memory, history, TypeInv, TypeOK, NameGiven
<1>. QED BY <1>1, <1>2

LEMMA TypeInvHolds == Spec => []TypeInv
BY TypeInit, TypeStep, PTL DEF Spec

\* Every column of users, teams and team_members that cartels use, and the
\* sessions and names in memory, stay what they are meant to hold: no treasury
\* and no wallet goes below zero, no level leaves the table.
THEOREM TypeCorrect == Spec => []TypeOK
BY TypeInvHolds, PTL DEF TypeInv

-----------------------------------------------------------------------------
(* What the steps that move people write.                                  *)

LEMMA WipedTeams ==
  ASSUME NEW d \in Database, NEW u \in Users
  PROVE  /\ \A t \in Ids : Wiped(d, u).team[t] = d.team[t] \/ Wiped(d, u).team[t] = NULL
         /\ Wiped(d, u).regraded = d.regraded
<1>. DEFINE left == IF d.member[u] = NULL THEN d
                    ELSE IF Owns(d, u) /\ HasTeam(d, u)
                      THEN [Disbanded(d, d.member[u].team) EXCEPT !.daily[d.member[u].team] = NewDay]
                      ELSE Fire(d, {u})
<1>1. left.regraded = d.regraded /\ \A t \in Ids : left.team[t] = d.team[t] \/ left.team[t] = NULL
  BY Fields DEF Disbanded, Fire, Database
<1>2. Wiped(d, u) = [left EXCEPT !.cash[u] = StartCash, !.level[u] = 1,
                                 !.medals[u] = NoMedals, !.pend[u] = Ask("none")]
  BY DEF Wiped
<1>. HIDE DEF left
<1>3. Wiped(d, u).team = left.team /\ Wiped(d, u).regraded = left.regraded
  BY <1>2
<1>. QED BY <1>1, <1>3

\* No step but a founding or a change of name writes the names.
LEMMA MovesKeepRows ==
  ASSUME TypeInv, Moves
  PROVE  \A t \in Ids : db'.team[t] = db.team[t] \/ db'.team[t] = NULL
<1>0. db \in Database /\ job \in Users \cup {NULL}
  BY DEF TypeInv, TypeOK
<1>1. CASE db'.team = db.team
  BY <1>1
<1>2. CASE \E u \in Users : Disband(u)
  <2>1. PICK t : db' = Disbanded(db, t)
    BY <1>2 DEF Disband, Do, Commit
  <2>. QED BY <1>0, <2>1, Fields DEF Disbanded, Fire, Database
<1>3. CASE WipeCommit \/ \E u \in Users : ClearAccount(u)
  <2>1. PICK u \in Users : db' = Wiped(db, u)
    BY <1>0, <1>3 DEF WipeCommit, ClearAccount, Do, Commit
  <2>. QED BY <1>0, <2>1, WipedTeams
<1>4. CASE \/ \E u \in Users :
                 \/ Leave(u) \/ WipeBegin(u)
                 \/ \E v \in Users : Kick(u, v) \/ ToggleAdmin(u, v)
                 \/ \E t \in Ids, v \in Users : AcceptRead(u, t, v) \/ Reject(u, t, v)
                 \/ \E t \in Ids : RequestRead(u, t)
           \/ \E t \in Ids : SessionLate(t)
           \/ RequestCommit \/ AcceptCommit \/ NextDay \/ Crash
  <2>1. db'.team = db.team
    BY <1>0, <1>4 DEF Database, Leave, WipeBegin, Kick, ToggleAdmin, AcceptRead, Reject, RequestRead, SessionLate,
         RequestCommit, AcceptCommit, NextDay, Crash, DoDb, Do, Commit, Fire
  <2>. QED BY <2>1
<1>. QED BY <1>1, <1>2, <1>3, <1>4 DEF Moves

LEMMA MovesKeepCurve == ASSUME TypeInv, Moves PROVE db'.regraded = db.regraded
<1>0. db \in Database /\ job \in Users \cup {NULL}
  BY DEF TypeInv, TypeOK
<1>1. CASE WipeCommit \/ \E u \in Users : ClearAccount(u)
  <2>1. PICK u \in Users : db' = Wiped(db, u)
    BY <1>0, <1>1 DEF WipeCommit, ClearAccount, Do, Commit
  <2>. QED BY <1>0, <2>1, WipedTeams
<1>2. CASE ~(WipeCommit \/ \E u \in Users : ClearAccount(u))
  BY <1>0, <1>2 DEF Moves, Database, Leave, WipeBegin, Kick, ToggleAdmin, AcceptRead, Reject, RequestRead, SessionLate,
       RequestCommit, AcceptCommit, NextDay, Crash, DoDb, Do, Commit, Fire, Disband, Disbanded
<1>. QED BY <1>1, <1>2

-----------------------------------------------------------------------------
(* Names.                                                                  *)

LEMMA NamesStep ==
  ASSUME TypeInv, NamesDiffer, [Next]_vars
  PROVE  NamesDiffer'
<1>. SUFFICES ASSUME NEW s \in Ids, NEW t \in Ids, s # t, db'.team[s] # NULL, db'.team[t] # NULL
              PROVE  db'.team[s].name # db'.team[t].name
  BY DEF NamesDiffer
<1>0. db \in Database
  BY DEF TypeInv, TypeOK
<1>1. CASE Seated
  <2>1. db.team[s] # NULL /\ db.team[t] # NULL /\ db.team[s].name # db.team[t].name
    BY <1>1 DEF Seated, SameSeats, NamesDiffer
  <2>. QED BY <1>1, <2>1 DEF Seated, NamesApart, Taken
<1>2. CASE \E u \in Users, n \in Nat : Recording(u, n)
  BY <1>2 DEF Recording, SameCartels, SameTeams, SameTeam, NamesDiffer
<1>3. CASE \E u \in Users, n \in Names : Founds(u, n)
  <2>. PICK u \in Users, n \in Names : Founds(u, n)
    BY <1>3
  <2>. DEFINE k == NewId(db)
  <2>1. k \in Ids /\ db'.team = [db.team EXCEPT ![k] = NewTeamRow(u, n)] /\ ~Taken(db, n)
    BY DEF Founds
  <2>. HIDE DEF k
  <2>2. db'.team[k] = NewTeamRow(u, n) /\ \A x \in Ids \ {k} : db'.team[x] = db.team[x]
    BY <1>0, <2>1, Fields
  <2>3. NewTeamRow(u, n).name = n
    BY DEF NewTeamRow
  <2>. QED BY <2>1, <2>2, <2>3 DEF Taken, NamesDiffer
<1>4. CASE \E k \in Ids : Mines(k)
  <2>0. PICK k \in Ids : Mines(k)
    BY <1>4
  <2>1. \A x \in Ids :
          /\ db'.team[x] = NULL <=> db.team[x] = NULL
          /\ db.team[x] # NULL => db'.team[x].name = db.team[x].name
    BY <2>0 DEF Mines
  <2>. QED BY <2>1 DEF NamesDiffer
<1>5. CASE Moves
  BY <1>5, MovesKeepRows DEF NamesDiffer
<1>6. CASE UNCHANGED vars
  BY <1>6 DEF vars, NamesDiffer
<1>. QED BY <1>1, <1>2, <1>3, <1>4, <1>5, <1>6, StepShapes DEF Shapes

\* _name_taken at the questions and again at the confirmations is enough: two
\* cartels never have one name.
THEOREM NamesNeverMeet == Spec => []NamesDiffer
<1>1. Init => NamesDiffer
  BY DEF Init, NewDb, NamesDiffer
<1>. QED BY <1>1, NamesStep, TypeInvHolds, PTL DEF Spec

-----------------------------------------------------------------------------
(* Experience.                                                             *)

\* No cartel stands at a level whose points it has.
NoneWaits == \A t \in Ids : db.team[t] # NULL => Reached(db.team[t])

NoneFounded(d, e) == \A t \in Ids : d.team[t] = NULL => e.team[t] = NULL

RowsStay(d, e) ==
  /\ e.regraded = d.regraded
  /\ \A t \in Ids :
       \/ e.team[t] = d.team[t]
       \/ e.team[t] = NULL
       \/ d.team[t] = NULL /\ e.team[t].level = 1 /\ e.team[t].xp = 0

LEMMA XpOfSteps ==
  ASSUME TypeInv, [Next]_vars
  PROVE  (XpStep(db, db') /\ NoneFounded(db, db')) \/ RowsStay(db, db')
<1>0. db \in Database /\ job \in Users \cup {NULL}
  BY DEF TypeInv, TypeOK
<1>1. CASE Seated
  BY <1>1 DEF Seated, SameSeats, NoneFounded
<1>2. CASE \E u \in Users, n \in Nat : Recording(u, n)
  BY <1>2 DEF Recording, SameCartels, SameTeams, NoneFounded, XpStep
<1>3. CASE \E u \in Users, n \in Names : Founds(u, n)
  <2>. PICK u \in Users, n \in Names : Founds(u, n)
    BY <1>3
  <2>. DEFINE k == NewId(db)
  <2>1. k \in Ids /\ db'.team = [db.team EXCEPT ![k] = NewTeamRow(u, n)] /\ db.team[k] = NULL
        /\ db'.regraded = db.regraded
    BY DEF Founds
  <2>. HIDE DEF k
  <2>2. db'.team[k] = NewTeamRow(u, n) /\ \A x \in Ids \ {k} : db'.team[x] = db.team[x]
    BY <1>0, <2>1, Fields
  <2>3. NewTeamRow(u, n).level = 1 /\ NewTeamRow(u, n).xp = 0
    BY DEF NewTeamRow
  <2>. QED BY <2>1, <2>2, <2>3 DEF RowsStay
<1>4. CASE \E k \in Ids : Mines(k)
  BY <1>4 DEF Mines, NoneFounded, XpStep
<1>5. CASE Moves
  BY <1>5, MovesKeepRows, MovesKeepCurve DEF RowsStay
<1>6. CASE UNCHANGED vars
  BY <1>6 DEF vars, RowsStay
<1>. QED BY <1>1, <1>2, <1>3, <1>4, <1>5, <1>6, StepShapes DEF Shapes

LEMMA NoneWaitsStep ==
  ASSUME TypeInv, NoneWaits, [Next]_vars
  PROVE  NoneWaits'
<1>. SUFFICES ASSUME NEW t \in Ids, db'.team[t] # NULL PROVE Reached(db'.team[t])
  BY DEF NoneWaits
<1>1. Need[1] \in Nat \ {0}
  BY TeamsAssumption, Constants
<1>2. ASSUME db'.team[t].level = 1, db'.team[t].xp = 0 PROVE Reached(db'.team[t])
  BY <1>1, <1>2 DEF Reached
<1>. QED BY <1>2, XpOfSteps DEF NoneWaits, NoneFounded, RowsStay, XpStep, XpKept, MoreXp, Reached

\* apply_team_xp and migrate_team_levels lose nothing: awards only add, the
\* migration keeps what the old curve says was earned, and whoever writes a
\* cartel's experience leaves no level unreached.
THEOREM NoXpGetsLost == Spec => XpIsKept
<1>1. Init => NoneWaits
  BY DEF Init, NewDb, NoneWaits
<1>2. ASSUME TypeInv, NoneWaits, [Next]_vars, TypeInv', NoneWaits',
             NEW t \in Ids, db.team[t] # NULL, db'.team[t] # NULL, db'.team[t] # db.team[t]
      PROVE  /\ IF db'.regraded = db.regraded
                  THEN Score(Need, db'.team[t]) >= Score(Need, db.team[t])
                  ELSE Score(Need, db'.team[t]) = Score(OldNeed, db.team[t])
             /\ db'.team[t].level < MaxLevel => db'.team[t].xp < Need[db'.team[t].level]
  <2>1. Score(Need, db.team[t]) \in Nat
    <3>1. db.team[t] \in Team
      BY <1>2, Fields DEF TypeInv, TypeOK
    <3>. QED BY <3>1, ScoreIsNat
  <2>2. Reached(db'.team[t])
    BY <1>2 DEF NoneWaits
  <2>3. \/ db'.regraded = db.regraded /\ MoreXp(db.team[t], db'.team[t])
        \/ db'.regraded # db.regraded /\ Score(Need, db'.team[t]) = Score(OldNeed, db.team[t])
    BY <1>2, XpOfSteps DEF XpStep, XpKept, RowsStay
  <2>. QED BY <2>1, <2>2, <2>3 DEF Reached, MoreXp, Score
<1>3. TypeInv /\ NoneWaits /\ [Next]_vars /\ TypeInv' /\ NoneWaits' =>
        \A t \in Ids : db.team[t] # NULL /\ db'.team[t] # NULL =>
          LET a == db.team[t]
              b == db'.team[t]
          IN  a # b =>
              /\ IF db'.regraded = db.regraded THEN Score(Need, b) >= Score(Need, a)
                                              ELSE Score(Need, b) = Score(OldNeed, a)
              /\ b.level < MaxLevel => b.xp < Need[b.level]
  BY <1>2
<1>. QED BY <1>1, <1>3, NoneWaitsStep, TypeInvHolds, PTL DEF Spec, XpIsKept

-----------------------------------------------------------------------------
(* Quests.                                                                 *)

\* Only what is marked as done today was paid.
MarkedIsPaid ==
  \A t \in Ids, k \in Quests :
    paid[t][k] <= 1 /\ (k \notin db.daily[t].done => paid[t][k] = 0)

LEMMA WipedDaily ==
  ASSUME NEW d \in Database, NEW u \in Users, NEW t \in Ids
  PROVE  \/ Wiped(d, u).daily[t] = d.daily[t]
         \/ Wiped(d, u).daily[t] = NewDay /\ Owns(d, u) /\ d.member[u].team = t
<1>. DEFINE s == d.member[u].team
            left == IF d.member[u] = NULL THEN d
                    ELSE IF Owns(d, u) /\ HasTeam(d, u)
                      THEN [Disbanded(d, s) EXCEPT !.daily[s] = NewDay]
                      ELSE Fire(d, {u})
<1>1. left.daily[t] = d.daily[t] \/ (left.daily[t] = NewDay /\ Owns(d, u) /\ s = t)
  <2>1. CASE d.member[u] # NULL /\ Owns(d, u) /\ HasTeam(d, u)
    <3>1. left = [Disbanded(d, s) EXCEPT !.daily[s] = NewDay]
      BY <2>1
    <3>2. left.daily = [d.daily EXCEPT ![s] = NewDay]
      BY <3>1 DEF Disbanded, Fire, Database
    <3>. QED BY <2>1, <3>2, Fields
  <2>2. CASE ~(d.member[u] # NULL /\ Owns(d, u) /\ HasTeam(d, u))
    BY <2>2 DEF Fire, Database
  <2>. QED BY <2>1, <2>2
<1>2. Wiped(d, u) = [left EXCEPT !.cash[u] = StartCash, !.level[u] = 1,
                                 !.medals[u] = NoMedals, !.pend[u] = Ask("none")]
  BY DEF Wiped
<1>. HIDE DEF left
<1>3. Wiped(d, u).daily = left.daily
  BY <1>2
<1>. QED BY <1>1, <1>3

LEMMA MarkedStep ==
  ASSUME TypeInv, MarkedIsPaid, [Next]_vars
  PROVE  MarkedIsPaid'
<1>0. db \in Database /\ job \in Users \cup {NULL} /\ paid \in [Ids -> [Quests -> Nat]]
  BY DEF TypeInv, TypeOK
<1>1. CASE paid' = paid /\ \A t \in Ids : db'.daily[t].done = db.daily[t].done
  BY <1>1 DEF MarkedIsPaid
<1>2. CASE Seated \/ (\E u \in Users, n \in Names : Founds(u, n)) \/ \E t \in Ids : Mines(t)
  BY <1>1, <1>2 DEF Seated, Founds, Mines
<1>3. CASE \E u \in Users, n \in Nat : Recording(u, n)
  <2>1. PaysMarked
    BY <1>3 DEF Recording
  <2>2. CASE \E t \in Ids, k \in Quests :
               /\ k \notin db.daily[t].done
               /\ paid' = [paid EXCEPT ![t] = [paid[t] EXCEPT ![k] = @ + 1]]
               /\ \A s \in Ids : db'.daily[s].done = db.daily[s].done \cup IF s = t THEN {k} ELSE {}
    <3>1. PICK t \in Ids, k \in Quests :
               /\ k \notin db.daily[t].done
               /\ paid' = [paid EXCEPT ![t] = [paid[t] EXCEPT ![k] = @ + 1]]
               /\ \A s \in Ids : db'.daily[s].done = db.daily[s].done \cup IF s = t THEN {k} ELSE {}
      BY <2>2
    <3>2. paid[t][k] = 0 /\ paid[t] \in [Quests -> Nat]
      BY <1>0, <3>1 DEF MarkedIsPaid
    <3>3. paid'[t][k] = 1 /\ k \in db'.daily[t].done
      BY <1>0, <3>1, <3>2
    <3>4. ASSUME NEW s \in Ids, NEW q \in Quests, s # t \/ q # k
          PROVE  paid'[s][q] = paid[s][q] /\ (q \in db.daily[s].done => q \in db'.daily[s].done)
      BY <1>0, <3>1, <3>2, <3>4
    <3>. QED BY <3>3, <3>4 DEF MarkedIsPaid
  <2>. QED BY <1>1, <2>1, <2>2 DEF PaysMarked
<1>4. CASE WipeCommit \/ \E u \in Users : ClearAccount(u)
  <2>1. PICK u \in Users : db' = Wiped(db, u) /\ paid' = Reopened(u)
    BY <1>0, <1>4 DEF WipeCommit, ClearAccount, Do, Commit
  <2>2. SUFFICES ASSUME NEW t \in Ids, NEW k \in Quests
                 PROVE  paid'[t][k] <= 1 /\ (k \notin db'.daily[t].done => paid'[t][k] = 0)
    BY DEF MarkedIsPaid
  <2>3. CASE Owns(db, u) /\ db.member[u].team = t
    BY <2>1, <2>3 DEF Reopened
  <2>4. CASE ~(Owns(db, u) /\ db.member[u].team = t)
    <3>1. paid'[t] = paid[t]
      BY <2>1, <2>4 DEF Reopened
    <3>2. db'.daily[t] = db.daily[t]
      BY <1>0, <2>1, <2>4, WipedDaily
    <3>. QED BY <3>1, <3>2 DEF MarkedIsPaid
  <2>. QED BY <2>3, <2>4
<1>5. CASE NextDay
  BY <1>5 DEF NextDay, MarkedIsPaid
<1>6. CASE Moves /\ ~(WipeCommit \/ \E u \in Users : ClearAccount(u)) /\ ~NextDay
  <2>1. paid' = paid /\ db'.daily = db.daily
    BY <1>0, <1>6 DEF Moves, Database, Leave, WipeBegin, Kick, ToggleAdmin, AcceptRead, Reject, RequestRead, SessionLate,
       RequestCommit, AcceptCommit, Crash, DoDb, Do, Commit, Fire, Disband, Disbanded, history
  <2>. QED BY <1>1, <2>1
<1>7. CASE UNCHANGED vars
  BY <1>7 DEF vars, history, MarkedIsPaid
<1>. QED BY <1>2, <1>3, <1>4, <1>5, <1>6, <1>7, StepShapes DEF Shapes

\* team_daily keeps which quests of the day were paid through levels, and
\* through the end of a cartel and the founding of another with its id.
THEOREM QuestsArePaidOnce == Spec => []QuestsPayOnce
<1>1. Init => MarkedIsPaid
  BY DEF Init, InitHistory, NewDb, NewDay, MarkedIsPaid
<1>2. MarkedIsPaid => QuestsPayOnce
  BY DEF MarkedIsPaid, QuestsPayOnce
<1>. QED BY <1>1, <1>2, MarkedStep, TypeInvHolds, PTL DEF Spec

-----------------------------------------------------------------------------
(* Who sits where.                                                         *)

\* The cartel t ends; the player v goes.
Ends(d, e, t) ==
  /\ e.team = [d.team EXCEPT ![t] = NULL]
  /\ e.member = [v \in Users |-> IF v \in Members(d, t) THEN NULL ELSE d.member[v]]
  /\ e.request = {r \in d.request : r[1] # t}

Goes(d, e, v) ==
  e.team = d.team /\ e.member = [d.member EXCEPT ![v] = NULL] /\ e.request = d.request

Leads(d, u) == Owns(d, u) /\ HasTeam(d, u)

LEMMA FireGoes ==
  ASSUME NEW d \in Database, NEW v \in Users
  PROVE  Goes(d, Fire(d, {v}), v) /\ Fire(d, {v}).medals = d.medals
<1>1. [u \in Users |-> IF u \in {v} THEN NULL ELSE d.member[u]] = [d.member EXCEPT ![v] = NULL]
  BY Fields
<1>. QED BY <1>1 DEF Fire, Goes, Database

LEMMA DisbandedEnds ==
  ASSUME NEW d \in Database, NEW t
  PROVE  Ends(d, Disbanded(d, t), t) /\ Disbanded(d, t).medals = d.medals
BY DEF Disbanded, Fire, Ends, Database

LEMMA WipedMoves ==
  ASSUME NEW d \in Database, NEW u \in Users
  PROVE  /\ IF Leads(d, u) THEN Ends(d, Wiped(d, u), d.member[u].team) ELSE Goes(d, Wiped(d, u), u)
         /\ Wiped(d, u).medals = [d.medals EXCEPT ![u] = NoMedals]
<1>. DEFINE s == d.member[u].team
            left == IF d.member[u] = NULL THEN d
                    ELSE IF Owns(d, u) /\ HasTeam(d, u)
                      THEN [Disbanded(d, s) EXCEPT !.daily[s] = NewDay]
                      ELSE Fire(d, {u})
<1>1. left.medals = d.medals /\ IF Leads(d, u) THEN Ends(d, left, s) ELSE Goes(d, left, u)
  <2>1. CASE Leads(d, u)
    <3>1. left = [Disbanded(d, s) EXCEPT !.daily[s] = NewDay]
      BY <2>1 DEF Leads, Owns
    <3>2. /\ left.team = Disbanded(d, s).team /\ left.member = Disbanded(d, s).member
          /\ left.request = Disbanded(d, s).request /\ left.medals = Disbanded(d, s).medals
      BY <3>1 DEF Disbanded, Fire, Database
    <3>. HIDE DEF left, s
    <3>3. Ends(d, Disbanded(d, s), s) /\ Disbanded(d, s).medals = d.medals
      BY DisbandedEnds
    <3>4. Ends(d, left, s)
      BY <3>2, <3>3 DEF Ends
    <3>. QED BY <2>1, <3>2, <3>3, <3>4
  <2>2. CASE ~Leads(d, u) /\ d.member[u] # NULL
    BY <2>2, FireGoes DEF Leads
  <2>3. CASE d.member[u] = NULL
    <3>1. [d.member EXCEPT ![u] = NULL] = d.member
      BY <2>3, Fields
    <3>. QED BY <2>3, <3>1 DEF Goes, Leads, Owns
  <2>. QED BY <2>1, <2>2, <2>3
<1>2. Wiped(d, u) = [left EXCEPT !.cash[u] = StartCash, !.level[u] = 1,
                                 !.medals[u] = NoMedals, !.pend[u] = Ask("none")]
  BY DEF Wiped
<1>3. DOMAIN left = DOMAIN d
  BY DEF Disbanded, Fire, Database
<1>. HIDE DEF left
<1>4. /\ Wiped(d, u).team = left.team /\ Wiped(d, u).member = left.member /\ Wiped(d, u).request = left.request
      /\ Wiped(d, u).medals = [left.medals EXCEPT ![u] = NoMedals]
  BY <1>2, <1>3 DEF Database
<1>. QED BY <1>1, <1>4 DEF Ends, Goes

\* What the steps of Moves do to cartels, memberships and requests.
NobodyMoves == db'.team = db.team /\ db'.member = db.member /\ db'.request = db.request /\ db'.medals = db.medals

LEMMA MoveShapes ==
  ASSUME TypeInv, Moves
  PROVE  \/ NobodyMoves /\ (NextDay \/ Crash \/ (\E t \in Ids : SessionLate(t)) \/ \E u \in Users : WipeBegin(u))
         \/ NobodyMoves /\ \E u, v \in Users, t \in Ids : RequestRead(u, t) \/ AcceptRead(u, t, v)
         \/ RequestCommit \/ AcceptCommit
         \/ \E u, v \in Users, t \in Ids : Reject(u, t, v)
         \/ \E u, v \in Users : ToggleAdmin(u, v)
         \/ \E u \in Users : Disband(u) /\ Leads(db, u) /\ Ends(db, db', db.member[u].team)
         \/ \E v \in Users : /\ Leave(v) \/ \E u \in Users : Kick(u, v)
                             /\ ~Owns(db, v) /\ Goes(db, db', v)
         \/ \E u \in Users : ClearAccount(u) \/ (WipeCommit /\ u = job)
<1>0. db \in Database /\ job \in Users \cup {NULL}
  BY DEF TypeInv, TypeOK
<1>1. CASE NextDay \/ Crash \/ (\E t \in Ids : SessionLate(t)) \/ \E u \in Users : WipeBegin(u)
  BY <1>0, <1>1 DEF NextDay, Crash, SessionLate, WipeBegin, NobodyMoves, Database
<1>2. CASE \E u, v \in Users, t \in Ids : RequestRead(u, t) \/ AcceptRead(u, t, v)
  BY <1>2 DEF RequestRead, AcceptRead, NobodyMoves
<1>3. CASE \E u \in Users : Disband(u)
  <2>1. PICK u \in Users : Disband(u)
    BY <1>3
  <2>2. Leads(db, u) /\ db' = Disbanded(db, db.member[u].team)
    BY <2>1 DEF Disband, Do, Commit, Leads
  <2>. QED BY <1>0, <2>1, <2>2, DisbandedEnds
<1>4. CASE \E u \in Users : Leave(u)
  <2>1. PICK u \in Users : Leave(u)
    BY <1>4
  <2>2. ~Owns(db, u) /\ db' = Fire(db, {u})
    BY <2>1 DEF Leave, DoDb, Do, Commit
  <2>. QED BY <1>0, <2>1, <2>2, FireGoes
<1>5. CASE \E u, v \in Users : Kick(u, v)
  <2>1. PICK u \in Users, v \in Users : Kick(u, v)
    BY <1>5
  <2>2. ~Owns(db, v) /\ db' = Fire(db, {v})
    BY <2>1 DEF Kick, CanKick, Owns, DoDb, Do, Commit
  <2>. QED BY <1>0, <2>1, <2>2, FireGoes
<1>6. CASE WipeCommit
  <2>1. job \in Users
    BY <1>0, <1>6 DEF WipeCommit
  <2>. QED BY <1>6, <2>1
<1>. QED BY <1>1, <1>2, <1>3, <1>4, <1>5, <1>6 DEF Moves

\* The member v becomes or stops being an admin.
Toggled(v) ==
  /\ ~Owns(db, v) /\ db.member[v] # NULL
  /\ db'.team = db.team /\ db'.request = db.request /\ db'.medals = db.medals
  /\ \E m \in Member :
       /\ db'.member = [db.member EXCEPT ![v] = m]
       /\ m.role # "owner" /\ m.team = db.member[v].team
       /\ m.since = db.member[v].since /\ m.base = db.member[v].base

LEMMA ToggledShape ==
  ASSUME TypeInv, \E u, v \in Users : ToggleAdmin(u, v)
  PROVE  \E v \in Users : Toggled(v)
<1>0. db \in Database
  BY DEF TypeInv, TypeOK
<1>1. PICK u \in Users, v \in Users : ToggleAdmin(u, v)
  OBVIOUS
<1>. DEFINE m == [db.member[v] EXCEPT !.role = IF @ = "admin" THEN "member" ELSE "admin"]
<1>2. db.member[v] \in Member /\ db.member[v] # NULL /\ ~Owns(db, v)
  BY <1>0, <1>1, Fields DEF ToggleAdmin, Members
<1>3. /\ m \in Member /\ m.role # "owner" /\ m.team = db.member[v].team
      /\ m.since = db.member[v].since /\ m.base = db.member[v].base
  BY <1>2 DEF Member
<1>4. db' = [db EXCEPT !.member[v] = m]
  BY <1>1 DEF ToggleAdmin, DoDb, Do, Commit
<1>. HIDE DEF m
<1>5. db'.member = [db.member EXCEPT ![v] = m] /\ db'.team = db.team /\ db'.request = db.request /\ db'.medals = db.medals
  BY <1>0, <1>4 DEF Database
<1>. QED BY <1>2, <1>3, <1>5 DEF Toggled

-----------------------------------------------------------------------------
(* The handler that waits for its commit.                                  *)

\* Who is being taken in is in no cartel, and there is room.
SeatIsFree ==
  op.pc = "accepting" =>
    /\ db.member[op.who] = NULL
    /\ db.team[op.team] # NULL => Cardinality(Members(db, op.team)) < Capacity(db, op.team)

LEMMA CapacityIsNat == ASSUME NEW tm \in Team PROVE Cap[tm.level] \in Nat \ {0}
<1>1. tm.level \in 1 .. Len(Cap)
  BY DEF Team, Levels, MaxLevel
<1>. QED BY <1>1, TeamsAssumption

LEMMA Fewer ==
  ASSUME NEW d \in Database, NEW e \in Database, NEW t \in Ids, e.team[t] = d.team[t],
         \A u \in Users : e.member[u] = d.member[u] \/ e.member[u] = NULL
  PROVE  /\ Cardinality(Members(e, t)) <= Cardinality(Members(d, t))
         /\ Capacity(e, t) = Capacity(d, t)
<1>1. Members(e, t) \subseteq Members(d, t)
  BY DEF Members
<1>2. IsFiniteSet(Members(d, t))
  BY MembersAreUsers
<1>. QED BY <1>1, <1>2, FS_Subset DEF Capacity

LEMMA SeatIsFreeStep ==
  ASSUME TypeInv, SeatIsFree, [Next]_vars, TypeInv'
  PROVE  SeatIsFree'
<1>0. db \in Database /\ job \in Users \cup {NULL} /\ db' \in Database /\ op \in Ops
  BY DEF TypeInv, TypeOK
<1>1. CASE op'.pc # "accepting"
  BY <1>1 DEF SeatIsFree
<1>2. CASE op' = op /\ op = Idle
  BY <1>2 DEF SeatIsFree, Idle
<1>3. CASE /\ op' = op
           /\ \A t \in Ids : db'.team[t] = db.team[t] \/ db'.team[t] = NULL
           /\ \A u \in Users : db'.member[u] = db.member[u] \/ db'.member[u] = NULL
  <2>. SUFFICES ASSUME op.pc = "accepting"
                PROVE  /\ db'.member[op.who] = NULL
                       /\ db'.team[op.team] # NULL =>
                            Cardinality(Members(db', op.team)) < Capacity(db', op.team)
    BY <1>3 DEF SeatIsFree, Members, Capacity
  <2>1. op.who \in Users /\ op.team \in Ids
    BY <1>0 DEF Ops, Idle
  <2>2. db'.member[op.who] = NULL
    BY <1>3, <2>1 DEF SeatIsFree
  <2>3. ASSUME db'.team[op.team] # NULL
        PROVE  Cardinality(Members(db', op.team)) < Capacity(db', op.team)
    <3>1. db'.team[op.team] = db.team[op.team] /\ Cardinality(Members(db, op.team)) < Capacity(db, op.team)
      BY <1>3, <2>1, <2>3 DEF SeatIsFree
    <3>2. Cardinality(Members(db', op.team)) <= Cardinality(Members(db, op.team))
          /\ Capacity(db', op.team) = Capacity(db, op.team)
      BY <1>0, <1>3, <2>1, <3>1, Fewer
    <3>3. Cardinality(Members(db', op.team)) \in Nat /\ Cardinality(Members(db, op.team)) \in Nat
          /\ Capacity(db, op.team) \in Nat
      <4>1. db.team[op.team] \in Team
        BY <1>0, <2>1, <2>3, <3>1, Fields
      <4>2. Capacity(db, op.team) \in Nat
        BY <4>1, CapacityIsNat DEF Capacity
      <4>. QED BY <1>0, <2>1, <4>2, MembersAreUsers
    <3>. QED BY <3>1, <3>2, <3>3
  <2>. QED BY <2>2, <2>3
<1>4. CASE \E u, v \in Users, t \in Ids : AcceptRead(u, t, v)
  BY <1>4 DEF AcceptRead, MayJoin, SeatIsFree, Members, Capacity
<1>5. CASE WipeCommit
  <2>1. op' = op /\ job \in Users /\ db' = Wiped(db, job)
    BY <1>0, <1>5 DEF WipeCommit, Commit
  <2>2. IF Leads(db, job) THEN Ends(db, db', db.member[job].team) ELSE Goes(db, db', job)
    BY <1>0, <2>1, WipedMoves
  <2>3. \A u \in Users : db'.member[u] = db.member[u] \/ db'.member[u] = NULL
    BY <1>0, <2>1, <2>2, Fields DEF Ends, Goes
  <2>4. \A t \in Ids : db'.team[t] = db.team[t] \/ db'.team[t] = NULL
    BY <1>0, <2>1, WipedTeams
  <2>. QED BY <1>3, <2>1, <2>3, <2>4
<1>6. CASE Seated \/ (\E u \in Users, n \in Nat : Recording(u, n)) \/ (\E u \in Users, n \in Names : Founds(u, n))
           \/ \E t \in Ids : Mines(t)
  BY <1>2, <1>6 DEF Seated, Recording, Founds, Mines, Free
<1>7. CASE NextDay \/ (\E t \in Ids : SessionLate(t)) \/ \E u \in Users : WipeBegin(u)
  <2>1. op' = op /\ db'.team = db.team /\ db'.member = db.member
    BY <1>0, <1>7 DEF NextDay, SessionLate, WipeBegin, Database
  <2>. QED BY <1>3, <2>1
<1>8. CASE Crash \/ RequestCommit \/ AcceptCommit \/ \E u \in Users, t \in Ids : RequestRead(u, t)
  <2>1. CASE Crash \/ RequestCommit \/ AcceptCommit
    <3>1. op' = Idle
      BY <2>1 DEF Crash, RequestCommit, AcceptCommit
    <3>. QED BY <1>1, <3>1 DEF Idle
  <2>2. CASE \E u \in Users, t \in Ids : RequestRead(u, t)
    BY <1>1, <2>2 DEF RequestRead
  <2>. QED BY <1>8, <2>1, <2>2
<1>9. CASE \E u \in Users : \/ Leave(u) \/ Disband(u) \/ ClearAccount(u)
                           \/ \E v \in Users : Kick(u, v) \/ ToggleAdmin(u, v) \/ \E t \in Ids : Reject(u, t, v)
  BY <1>2, <1>9 DEF Leave, Disband, ClearAccount, Kick, ToggleAdmin, Reject, DoDb, Do, Free
<1>10. CASE Moves
  BY <1>4, <1>5, <1>7, <1>8, <1>9, <1>10 DEF Moves
<1>11. CASE UNCHANGED vars
  <2>1. op' = op /\ db' = db
    BY <1>11 DEF vars
  <2>. QED BY <1>3, <2>1
<1>. QED BY <1>6, <1>10, <1>11, StepShapes DEF Shapes

LEMMA SeatIsFreeHolds == Spec => [](TypeInv /\ SeatIsFree)
<1>1. Init => SeatIsFree
  BY DEF Init, InitMemory, Idle, SeatIsFree
<1>. QED BY <1>1, SeatIsFreeStep, TypeInvHolds, PTL DEF Spec

\* A move takes nobody into a cartel, except the commit of an acceptance.
LEMMA MovesOut ==
  ASSUME TypeInv, Moves, ~AcceptCommit, NEW u \in Users
  PROVE  \/ db'.member[u] = db.member[u]
         \/ db'.member[u] = NULL
         \/ db.member[u] # NULL /\ db'.member[u] # NULL /\ db'.member[u].team = db.member[u].team
<1>0. db \in Database /\ job \in Users \cup {NULL}
  BY DEF TypeInv, TypeOK
<1>1. CASE NobodyMoves
  BY <1>1 DEF NobodyMoves
<1>2. CASE RequestCommit \/ \E x, v \in Users, t \in Ids : Reject(x, t, v)
  BY <1>0, <1>2 DEF RequestCommit, Reject, DoDb, Do, Commit, Database
<1>3. CASE \E x, v \in Users : ToggleAdmin(x, v)
  <2>1. PICK v \in Users : Toggled(v)
    BY <1>3, ToggledShape
  <2>. QED BY <1>0, <2>1, Fields DEF Toggled
<1>4. CASE \E x \in Users : Ends(db, db', db.member[x].team)
  BY <1>4 DEF Ends
<1>5. CASE \E v \in Users : Goes(db, db', v)
  BY <1>0, <1>5, Fields DEF Goes
<1>6. CASE \E x \in Users : ClearAccount(x) \/ (WipeCommit /\ x = job)
  <2>1. PICK x \in Users : db' = Wiped(db, x)
    BY <1>6 DEF ClearAccount, WipeCommit, Do, Commit
  <2>. QED BY <1>0, <1>4, <1>5, <2>1, WipedMoves
<1>. QED BY <1>1, <1>2, <1>3, <1>4, <1>5, <1>6, MoveShapes

\* The places are counted and taken in two steps, and only the wipe of an
\* account comes between them: a cartel never takes in a member beyond the
\* places of its level.
THEOREM RoomIsAlwaysKept == Spec => RoomIsKept
<1>1. ASSUME TypeInv, SeatIsFree, [Next]_vars, TypeInv',
             NEW t \in Ids, db.team[t] # NULL, db'.team[t] # NULL, ~(Members(db', t) \subseteq Members(db, t))
      PROVE  Cardinality(Members(db', t)) <= Capacity(db', t)
  <2>0. db \in Database /\ db' \in Database /\ op \in Ops /\ job \in Users \cup {NULL}
    BY <1>1 DEF TypeInv, TypeOK
  <2>1. ~(\A u \in Users : db'.member[u] = db.member[u] \/ db'.member[u] = NULL)
    BY <1>1 DEF Members
  <2>2. CASE AcceptCommit
    <3>1. op.who \in Users /\ op.team \in Ids
      BY <2>0, <2>2 DEF Ops, Idle, AcceptCommit
    <3>. DEFINE m == Newcomer(op.team, "member", op.base)
    <3>2. db'.member = [db.member EXCEPT ![op.who] = m] /\ m.team = op.team /\ db'.team = db.team
      BY <2>0, <2>2 DEF AcceptCommit, Database, Newcomer
    <3>. HIDE DEF m
    <3>3. db'.member[op.who] = m /\ \A u \in Users \ {op.who} : db'.member[u] = db.member[u]
      BY <2>0, <3>1, <3>2, Fields
    <3>4. t = op.team /\ Members(db', t) \subseteq Members(db, t) \cup {op.who}
      BY <1>1, <3>2, <3>3 DEF Members
    <3>5. Cardinality(Members(db, t)) < Capacity(db, t) /\ Capacity(db', t) = Capacity(db, t)
      BY <1>1, <2>2, <3>2, <3>4 DEF SeatIsFree, AcceptCommit, Capacity
    <3>6. Cardinality(Members(db', t)) <= Cardinality(Members(db, t)) + 1
      <4>1. IsFiniteSet(Members(db, t)) /\ Cardinality(Members(db, t)) \in Nat
        BY <1>1, <2>0, MembersAreUsers
      <4>2. IsFiniteSet(Members(db, t) \cup {op.who})
            /\ Cardinality(Members(db, t) \cup {op.who}) \in {Cardinality(Members(db, t)), Cardinality(Members(db, t)) + 1}
        BY <4>1, FS_AddElement
      <4>3. Cardinality(Members(db', t)) <= Cardinality(Members(db, t) \cup {op.who})
        BY <3>4, <4>2, FS_Subset
      <4>4. Cardinality(Members(db', t)) \in Nat
        BY <1>1, <2>0, MembersAreUsers
      <4>. QED BY <4>1, <4>2, <4>3, <4>4
    <3>7. Cardinality(Members(db', t)) \in Nat /\ Cardinality(Members(db, t)) \in Nat /\ Capacity(db, t) \in Nat
      <4>1. Capacity(db, t) \in Nat
        BY <1>1, <2>0, Fields, CapacityIsNat DEF Capacity
      <4>. QED BY <1>1, <2>0, <4>1, MembersAreUsers
    <3>. QED BY <3>5, <3>6, <3>7
  <2>3. CASE \E u \in Users, n \in Names : Founds(u, n)
    <3>. PICK u \in Users, n \in Names : Founds(u, n)
      BY <2>3
    <3>. DEFINE k == NewId(db)
                m == Newcomer(k, "owner", db.medals[u].all)
    <3>1. k \in Ids /\ db.team[k] = NULL /\ db'.member = [db.member EXCEPT ![u] = m] /\ m.team = k
      BY DEF Founds, Newcomer
    <3>. HIDE DEF k, m
    <3>2. db'.member[u] = m /\ \A v \in Users \ {u} : db'.member[v] = db.member[v]
      BY <2>0, <3>1, Fields
    <3>3. t = k
      BY <1>1, <3>1, <3>2 DEF Members
    <3>. QED BY <1>1, <3>1, <3>3
  <2>4. CASE Moves /\ ~AcceptCommit
    <3>1. \A u \in Users :
            \/ db'.member[u] = db.member[u]
            \/ db'.member[u] = NULL
            \/ db.member[u] # NULL /\ db'.member[u] # NULL /\ db'.member[u].team = db.member[u].team
      BY <1>1, <2>4, MovesOut
    <3>. QED BY <1>1, <3>1 DEF Members
  <2>5. CASE Seated \/ (\E u \in Users, n \in Nat : Recording(u, n)) \/ \E k \in Ids : Mines(k)
    BY <2>1, <2>5 DEF Seated, SameSeats, Recording, SameCartels, SamePeople, Mines
  <2>6. CASE UNCHANGED vars
    BY <2>1, <2>6 DEF vars
  <2>. QED BY <1>1, <2>2, <2>3, <2>4, <2>5, <2>6, StepShapes DEF Shapes
<1>2. TypeInv /\ SeatIsFree /\ [Next]_vars /\ TypeInv' =>
        \A t \in Ids :
          db.team[t] # NULL /\ db'.team[t] # NULL /\ ~(Members(db', t) \subseteq Members(db, t))
            => Cardinality(Members(db', t)) <= Capacity(db', t)
  BY <1>1
<1>. QED BY <1>2, SeatIsFreeHolds, PTL DEF Spec, RoomIsKept

\* What an ending or a wiped account does to a leader.
LEMMA LeaderEnds ==
  ASSUME NEW d \in Database, NEW e, NEW u \in Users, Leads(d, u), e.member[u] # d.member[u],
         NEW x \in Users,
         IF Leads(d, x) THEN Ends(d, e, d.member[x].team) ELSE Goes(d, e, x)
  PROVE  e.team[d.member[u].team] = NULL
<1>1. d.member[u].team \in Ids
  BY Fields DEF Leads, HasTeam, Member
<1>2. CASE Leads(d, x)
  <2>1. u \in Members(d, d.member[x].team)
    BY <1>2 DEF Ends
  <2>2. d.member[u].team = d.member[x].team
    BY <2>1 DEF Members
  <2>. QED BY <1>1, <1>2, <2>2, Fields DEF Ends
<1>3. CASE ~Leads(d, x)
  BY <1>3, Fields DEF Goes
<1>. QED BY <1>2, <1>3

\* Nobody kicks, degrades or replaces a leader, not even a request that was
\* accepted meanwhile: who leads stays in the cartel until it ends.
THEOREM LeadersAlwaysStay == Spec => LeadersStay
<1>1. ASSUME TypeInv, SeatIsFree, [Next]_vars, TypeInv',
             NEW u \in Users, Leads(db, u), db'.member[u] # db.member[u]
      PROVE  db'.team[db.member[u].team] = NULL
  <2>0. db \in Database /\ op \in Ops /\ job \in Users \cup {NULL} /\ db.member[u] # NULL
    BY <1>1 DEF TypeInv, TypeOK, Leads, Owns
  <2>1. CASE Seated \/ (\E v \in Users, n \in Nat : Recording(v, n)) \/ \E k \in Ids : Mines(k)
    BY <1>1, <2>1 DEF Seated, SameSeats, Recording, SameCartels, SamePeople, Mines
  <2>2. CASE \E v \in Users, n \in Names : Founds(v, n)
    BY <1>1, <2>0, <2>2, Fields DEF Founds, CanCreate
  <2>3. CASE AcceptCommit
    <3>1. db.member[op.who] = NULL
      BY <1>1, <2>3 DEF SeatIsFree, AcceptCommit
    <3>2. \E m : db'.member = [db.member EXCEPT ![op.who] = m]
      BY <2>0, <2>3 DEF AcceptCommit, Database
    <3>. QED BY <1>1, <2>0, <3>1, <3>2, Fields
  <2>4. CASE NobodyMoves \/ RequestCommit \/ \E x, v \in Users, t \in Ids : Reject(x, t, v)
    BY <1>1, <2>0, <2>4 DEF NobodyMoves, RequestCommit, Reject, DoDb, Do, Commit, Database
  <2>5. CASE \E x, v \in Users : ToggleAdmin(x, v)
    BY <1>1, <2>0, <2>5, ToggledShape, Fields DEF Toggled, Leads
  <2>6. CASE \E x \in Users : Leads(db, x) /\ Ends(db, db', db.member[x].team)
    BY <1>1, <2>0, <2>6, LeaderEnds
  <2>7. CASE \E v \in Users : ~Owns(db, v) /\ Goes(db, db', v)
    BY <1>1, <2>0, <2>7, LeaderEnds DEF Leads
  <2>8. CASE \E x \in Users : ClearAccount(x) \/ (WipeCommit /\ x = job)
    <3>1. PICK x \in Users : db' = Wiped(db, x)
      BY <2>8 DEF ClearAccount, WipeCommit, Do, Commit
    <3>2. IF Leads(db, x) THEN Ends(db, db', db.member[x].team) ELSE Goes(db, db', x)
      BY <2>0, <3>1, WipedMoves
    <3>. QED BY <1>1, <2>0, <3>2, LeaderEnds
  <2>9. CASE Moves
    BY <1>1, <2>3, <2>4, <2>5, <2>6, <2>7, <2>8, <2>9, MoveShapes
  <2>10. CASE UNCHANGED vars
    BY <1>1, <2>10 DEF vars
  <2>. QED BY <1>1, <2>1, <2>2, <2>9, <2>10, StepShapes DEF Shapes
<1>2. TypeInv /\ SeatIsFree /\ [Next]_vars /\ TypeInv' =>
        \A u \in Users :
          Owns(db, u) /\ HasTeam(db, u) /\ db'.member[u] # db.member[u]
            => db'.team[db.member[u].team] = NULL
  BY <1>1 DEF Leads
<1>. QED BY <1>2, SeatIsFreeHolds, PTL DEF Spec, LeadersStay

-----------------------------------------------------------------------------
(* Medals.                                                                 *)

\* No bucket is of a week to come, and a member counts for no week more than
\* was earned in it as a member.
MedalsAreOwn ==
  \A u \in Users :
    /\ db.medals[u].id = NULL \/ db.medals[u].id <= Week(today)
    /\ db.member[u] # NULL => \A w \in Weeks : Counted(db, u, w) <= earned[u][w]
    /\ op.pc = "accepting" /\ op.who = u => db.medals[u].all <= op.base

LEMMA CountedIs ==
  ASSUME NEW d \in Database, NEW u \in Users, d.member[u] # NULL, NEW w \in Weeks
  PROVE  LET fresh == IF d.medals[u].id = w THEN d.medals[u].week ELSE 0
             own   == d.medals[u].all - d.member[u].base
         IN  /\ fresh \in Nat /\ own \in Int
             /\ Counted(d, u, w) = IF Week(d.member[u].since) < w THEN fresh
                                   ELSE IF own <= 0 THEN 0 ELSE IF own <= fresh THEN own ELSE fresh
<1>. DEFINE m     == d.member[u]
            fresh == IF d.medals[u].id = w THEN d.medals[u].week ELSE 0
            own   == d.medals[u].all - m.base
<1>1. m.since \in Nat /\ w \in Nat /\ fresh \in Nat /\ own \in Int
  <2>1. m \in Member /\ d.medals[u] \in Medals
    BY Fields
  <2>2. Weeks \subseteq Nat
    BY Constants DEF Weeks
  <2>3. m.since \in Nat /\ m.base \in Nat
    BY <2>1, Constants DEF Member
  <2>4. d.medals[u].all \in Nat /\ d.medals[u].week \in Nat
    BY <2>1 DEF Medals
  <2>. HIDE DEF m
  <2>. QED BY <2>2, <2>3, <2>4
<1>2. (m.since >= w * DaysPerWeek) <=> ~(Week(m.since) < w)
  BY <1>1, WeekOrder
<1>3. Counted(d, u, w) = IF m.since >= w * DaysPerWeek THEN Max({0, Min({own, fresh})}) ELSE fresh
  BY DEF Counted
<1>. HIDE DEF m, fresh, own
<1>4. Min({own, fresh}) = IF own <= fresh THEN own ELSE fresh
  <2>1. {own, fresh} = {fresh, own}
    OBVIOUS
  <2>2. CASE own <= fresh
    BY <1>1, <2>2, PairMin
  <2>3. CASE fresh < own
    <3>1. Min({fresh, own}) = fresh
      BY <1>1, <2>3, PairMin
    <3>. QED BY <1>1, <2>1, <2>3, <3>1
  <2>. QED BY <1>1, <2>2, <2>3
<1>5. \A i \in Int : Max({0, i}) = IF i <= 0 THEN 0 ELSE i
  <2>. TAKE i \in Int
  <2>1. {0, i} = {i, 0}
    OBVIOUS
  <2>2. CASE i <= 0
    BY <2>2, PairMax
  <2>3. CASE 0 < i
    <3>1. Max({i, 0}) = i
      BY <2>3, PairMax
    <3>. QED BY <2>1, <2>3, <3>1
  <2>. QED BY <2>2, <2>3
<1>6. Min({own, fresh}) \in Int
  BY <1>1, <1>4
<1>7. Max({0, Min({own, fresh})}) = IF own <= 0 THEN 0 ELSE IF own <= fresh THEN own ELSE fresh
  <2>. DEFINE n == Min({own, fresh})
  <2>1. n \in Int /\ n = (IF own <= fresh THEN own ELSE fresh) /\ Max({0, n}) = IF n <= 0 THEN 0 ELSE n
    BY <1>4, <1>5, <1>6
  <2>. HIDE DEF n
  <2>2. Max({0, n}) = IF own <= 0 THEN 0 ELSE IF own <= fresh THEN own ELSE fresh
    BY <1>1, <2>1
  <2>. QED BY <2>2 DEF n
<1>8. Counted(d, u, w) = IF Week(m.since) < w THEN fresh
                         ELSE IF own <= 0 THEN 0 ELSE IF own <= fresh THEN own ELSE fresh
  BY <1>2, <1>3, <1>7
<1>. QED BY <1>1, <1>8 DEF m, fresh, own

\* Counting looks at the two rows of the player alone.
LEMMA CountedSame ==
  ASSUME NEW d, NEW e, NEW u \in Users, d.member[u] # NULL, e.member[u] # NULL, e.medals[u] = d.medals[u],
         e.member[u].since = d.member[u].since, e.member[u].base = d.member[u].base
  PROVE  \A w \in Weeks : Counted(e, u, w) = Counted(d, u, w)
BY DEF Counted

\* Who comes in brings nothing along.
LEMMA NewcomerCounts ==
  ASSUME NEW d \in Database, NEW u \in Users, d.member[u] # NULL, today \in Days,
         d.member[u].since = today, d.medals[u].all <= d.member[u].base,
         d.medals[u].id = NULL \/ d.medals[u].id <= Week(today)
  PROVE  \A w \in Weeks : Counted(d, u, w) = 0
<1>. TAKE w \in Weeks
<1>. DEFINE fresh == IF d.medals[u].id = w THEN d.medals[u].week ELSE 0
            own   == d.medals[u].all - d.member[u].base
<1>1. /\ fresh \in Nat /\ own \in Int
      /\ Counted(d, u, w) = IF Week(d.member[u].since) < w THEN fresh
                            ELSE IF own <= 0 THEN 0 ELSE IF own <= fresh THEN own ELSE fresh
  BY CountedIs
<1>2. own <= 0
  <2>1. d.medals[u] \in Medals /\ d.member[u] \in Member
    BY Fields
  <2>2. d.medals[u].all \in Nat /\ d.member[u].base \in Nat
    BY <2>1 DEF Medals, Member
  <2>. QED BY <2>2
<1>3. Week(today) < w => fresh = 0
  <2>1. w \in Nat /\ Week(today) \in Nat /\ w # NULL
    BY Constants, WeekOrder DEF Weeks, Days
  <2>. QED BY <2>1
<1>. HIDE DEF fresh, own
<1>. QED BY <1>1, <1>2, <1>3

OwnOf(u) ==
  /\ db.medals[u].id = NULL \/ db.medals[u].id <= Week(today)
  /\ db.member[u] # NULL => \A w \in Weeks : Counted(db, u, w) <= earned[u][w]
  /\ op.pc = "accepting" /\ op.who = u => db.medals[u].all <= op.base

Keeps(u) == db'.member[u] = NULL \/ \A w \in Weeks : earned[u][w] <= earned'[u][w]

\* Who stays in the cartel loses none of what was earned.
LEMMA EarnedStays ==
  ASSUME TypeInv, NEW x, NEW n \in Nat, Commit(db', x, n), NEW u \in Users,
         db.member[u] # NULL \/ db'.member[u] = NULL
  PROVE  Keeps(u)
<1>. SUFFICES ASSUME db.member[u] # NULL, db'.member[u] # NULL, NEW w \in Weeks
              PROVE  earned[u][w] <= earned'[u][w]
  BY DEF Keeps
<1>1. earned[u][w] \in Nat
  BY DEF TypeInv, TypeOK
<1>2. earned'[u][w] = earned[u][w] + IF u = x /\ w = Week(today) THEN n ELSE 0
  BY DEF Commit
<1>. QED BY <1>1, <1>2

LEMMA NothingEarned ==
  ASSUME TypeInv, Commit(db', NULL, 0), NEW u \in Users, db.member[u] # NULL \/ db'.member[u] = NULL
  PROVE  Keeps(u)
<1>. 0 \in Nat
  OBVIOUS
<1>. QED BY EarnedStays

\* A step that leaves a player's medals and membership, or ends them.
LEMMA OwnIsKept ==
  ASSUME TypeInv, TypeInv', NEW u \in Users, OwnOf(u), today <= today',
         \/ db'.medals[u] = db.medals[u]
         \/ db'.medals[u] = NoMedals /\ db'.member[u] = NULL,
         \/ db'.member[u] = NULL
         \/ /\ db.member[u] # NULL
            /\ db'.member[u].since = db.member[u].since /\ db'.member[u].base = db.member[u].base
            /\ \A w \in Weeks : earned[u][w] <= earned'[u][w],
         op' = op \/ op'.pc # "accepting"
  PROVE  OwnOf(u)'
<1>0. /\ db \in Database /\ db' \in Database /\ op \in Ops /\ op' \in Ops /\ today \in Days /\ today' \in Days
      /\ earned \in [Users -> [Weeks -> Nat]] /\ earned' \in [Users -> [Weeks -> Nat]]
  BY DEF TypeInv, TypeOK
<1>1. Week(today) <= Week(today') /\ Week(today) \in Nat /\ Week(today') \in Nat
  BY <1>0, WeekOrder, Constants
<1>2. db.medals[u] \in Medals /\ (db.medals[u].id # NULL => db.medals[u].id \in Nat)
  BY <1>0, Fields, Constants DEF Medals, Weeks
<1>3. db'.medals[u].id = NULL \/ db'.medals[u].id <= Week(today')
  BY <1>1, <1>2 DEF OwnOf, NoMedals
<1>4. ASSUME db'.member[u] # NULL
      PROVE  \A w \in Weeks : Counted(db', u, w) <= earned'[u][w]
  <2>. TAKE w \in Weeks
  <2>1. Counted(db', u, w) = Counted(db, u, w)
    BY <1>4, CountedSame
  <2>2. Counted(db, u, w) <= earned[u][w] /\ earned[u][w] <= earned'[u][w]
    BY <1>4 DEF OwnOf
  <2>3. Counted(db, u, w) \in Int
    BY <1>0, <1>4, CountedIs
  <2>. QED BY <1>0, <2>1, <2>2, <2>3
<1>5. ASSUME op'.pc = "accepting", op'.who = u PROVE db'.medals[u].all <= op'.base
  <2>1. op' = op /\ op.base \in Nat
    BY <1>0, <1>5 DEF Ops, Idle
  <2>. QED BY <1>5, <2>1 DEF OwnOf, NoMedals
<1>. QED BY <1>3, <1>4, <1>5 DEF OwnOf

LEMMA OwnIsGone ==
  ASSUME TypeInv, TypeInv', NEW u \in Users, OwnOf(u), today <= today', Keeps(u),
         \/ db'.medals[u] = db.medals[u]
         \/ db'.medals[u] = NoMedals /\ db'.member[u] = NULL,
         db'.member[u] = NULL \/ db'.member[u] = db.member[u],
         op' = op \/ op'.pc # "accepting"
  PROVE  OwnOf(u)'
BY OwnIsKept DEF Keeps

LEMMA OwnIsSame ==
  ASSUME TypeInv, TypeInv', NEW u \in Users, OwnOf(u), today <= today', Keeps(u),
         db'.medals[u] = db.medals[u], db'.member[u] = db.member[u],
         op' = op \/ op'.pc # "accepting"
  PROVE  OwnOf(u)'
BY OwnIsKept DEF Keeps

LEMMA AwardedMedals ==
  ASSUME NEW d \in Database, NEW u \in Users, NEW n \in Nat, NEW e, e = Awarded(d, u, n).medals
  PROVE  /\ e[u].all = d.medals[u].all + n
         /\ e[u].week = n + IF d.medals[u].id = Week(today) THEN d.medals[u].week ELSE 0
         /\ e[u].id = Week(today)
         /\ \A v \in Users : v # u => e[v] = d.medals[v]
<1>. DEFINE m == [all |-> d.medals[u].all + n,
                  week |-> n + IF d.medals[u].id = Week(today) THEN d.medals[u].week ELSE 0,
                  id |-> Week(today)]
<1>1. e = [d.medals EXCEPT ![u] = m]
  BY DEF Awarded, Database
<1>2. e[u] = m /\ \A v \in Users : v # u => e[v] = d.medals[v]
  BY <1>1, Fields
<1>. QED BY <1>2

\* award_medals: the bucket of another week is emptied.
LEMMA OwnIsAwarded ==
  ASSUME TypeInv, NEW u \in Users, OwnOf(u), NEW n \in Nat, Recording(u, n),
         db'.medals = Awarded(db, u, n).medals
  PROVE  OwnOf(u)'
<1>. DEFINE W == Week(today)
            x == db.medals[u]
            y == db'.medals[u]
<1>0. /\ db \in Database /\ db' \in Database /\ today \in Days /\ W \in Weeks /\ W \in Nat
      /\ today' = today /\ op' = Idle /\ db'.member = db.member /\ Commit(db', u, n)
      /\ earned \in [Users -> [Weeks -> Nat]]
  BY TodaysWeek, WeekOrder, Constants DEF TypeInv, TypeOK, Recording, SameCartels, SamePeople, Free
<1>1. x \in Medals /\ x.all \in Nat /\ x.week \in Nat
  BY <1>0, Fields DEF Medals
<1>2. y.all = x.all + n /\ y.week = (n + IF x.id = W THEN x.week ELSE 0) /\ y.id = W
  BY <1>0, AwardedMedals
<1>3. ASSUME db'.member[u] # NULL
      PROVE  \A w \in Weeks : Counted(db', u, w) <= earned'[u][w]
  <2>. TAKE w \in Weeks
  <2>. DEFINE m     == db.member[u]
              old   == IF x.id = w THEN x.week ELSE 0
              fresh == IF y.id = w THEN y.week ELSE 0
              own   == x.all - m.base
              own2  == y.all - m.base
              c     == Counted(db, u, w)
              e     == earned[u][w]
              late  == Week(m.since) < w
  <2>1. /\ old \in Nat /\ own \in Int
        /\ c = IF late THEN old ELSE IF own <= 0 THEN 0 ELSE IF own <= old THEN own ELSE old
    BY <1>0, <1>3, CountedIs
  <2>2. /\ fresh \in Nat /\ own2 \in Int
        /\ Counted(db', u, w) = IF late THEN fresh ELSE IF own2 <= 0 THEN 0 ELSE IF own2 <= fresh THEN own2 ELSE fresh
    BY <1>0, <1>3, CountedIs
  <2>3. e \in Nat /\ e <= earned'[u][w] /\ (w = W => earned'[u][w] = e + n) /\ earned'[u][w] \in Int
    <3>1. earned'[u][w] = earned[u][w] + IF w = W THEN n ELSE 0
      BY <1>0, <1>3 DEF Commit
    <3>. QED BY <1>0, <3>1
  <2>4. c <= e
    BY <1>0, <1>3 DEF OwnOf
  <2>5. own2 = own + n
    <3>1. m \in Member
      BY <1>0, <1>3, Fields
    <3>2. m.base \in Int
      BY <3>1 DEF Member
    <3>. HIDE DEF m, x, y
    <3>. QED BY <1>1, <1>2, <3>2
  <2>6. (w = W => fresh = old + n) /\ (w # W => fresh = 0)
    BY <1>1, <1>2
  <2>. HIDE DEF m, old, fresh, own, own2, c, e, late
  <2>7. CASE w = W
    BY <2>1, <2>2, <2>3, <2>4, <2>5, <2>6, <2>7
  <2>8. CASE w # W
    BY <2>2, <2>3, <2>6, <2>8
  <2>. QED BY <2>7, <2>8
<1>4. y.id <= Week(today')
  BY <1>0, <1>2
<1>. QED BY <1>0, <1>3, <1>4 DEF OwnOf, Idle

\* A player comes into a cartel.
LEMMA OwnIsNone ==
  ASSUME TypeInv, TypeInv', NEW u \in Users, OwnOf(u), today' = today, op' = Idle,
         db'.medals = db.medals, db'.member[u] # NULL,
         db'.member[u].since = today, db.medals[u].all <= db'.member[u].base
  PROVE  OwnOf(u)'
<1>0. db' \in Database /\ today' \in Days /\ earned' \in [Users -> [Weeks -> Nat]]
  BY DEF TypeInv, TypeOK
<1>1. db'.medals[u].id = NULL \/ db'.medals[u].id <= Week(today')
  BY DEF OwnOf
<1>2. \A w \in Weeks : Counted(db', u, w) = 0
  BY <1>0, <1>1, NewcomerCounts
<1>. QED BY <1>0, <1>1, <1>2 DEF OwnOf, Idle

LEMMA MedalsStep ==
  ASSUME TypeInv, TypeInv', MedalsAreOwn, SeatIsFree, [Next]_vars
  PROVE  MedalsAreOwn'
<1>. SUFFICES ASSUME NEW u \in Users PROVE OwnOf(u)'
  BY DEF MedalsAreOwn, OwnOf
<1>0. /\ db \in Database /\ db' \in Database /\ op \in Ops /\ today \in Days /\ today \in Nat /\ OwnOf(u)
      /\ job \in Users \cup {NULL} /\ earned \in [Users -> [Weeks -> Nat]] /\ \A w \in Weeks : earned[u][w] <= earned[u][w]
  BY Constants DEF TypeInv, TypeOK, MedalsAreOwn, OwnOf
<1>1. CASE Seated
  <2>1. db'.member = db.member /\ db'.medals = db.medals /\ today' = today /\ op' = op /\ Commit(db', NULL, 0)
    BY <1>1 DEF Seated, SameSeats
  <2>2. Keeps(u)
    BY <2>1, NothingEarned
  <2>. QED BY <1>0, <2>1, <2>2, OwnIsSame
<1>2. CASE \E v \in Users, n \in Nat : Recording(v, n)
  <2>0. PICK v \in Users, n \in Nat : Recording(v, n)
    BY <1>2
  <2>1. db'.member = db.member /\ today' = today /\ op' = op /\ Commit(db', v, n)
    BY <2>0 DEF Recording, SameCartels, SamePeople
  <2>2. CASE u = v /\ db'.medals = Awarded(db, v, n).medals
    BY <1>0, <2>0, <2>2, OwnIsAwarded
  <2>3. CASE ~(u = v /\ db'.medals = Awarded(db, v, n).medals)
    <3>1. db'.medals[u] = db.medals[u]
      <4>1. CASE db'.medals = db.medals
        BY <4>1
      <4>2. CASE db'.medals = Awarded(db, v, n).medals
        <5>1. u # v
          BY <2>3, <4>2
        <5>. QED BY <1>0, <4>2, <5>1, AwardedMedals
      <4>. QED BY <2>0, <4>1, <4>2 DEF Recording
    <3>2. Keeps(u)
      BY <2>1, EarnedStays
    <3>. QED BY <1>0, <2>1, <3>1, <3>2, OwnIsSame
  <2>. QED BY <2>2, <2>3
<1>3. CASE \E v \in Users, n \in Names : Founds(v, n)
  <2>0. PICK v \in Users, n \in Names : Founds(v, n)
    BY <1>3
  <2>. DEFINE k == NewId(db)
              m == Newcomer(k, "owner", db.medals[v].all)
  <2>1. /\ db'.member = [db.member EXCEPT ![v] = m] /\ m.since = today /\ m.base = db.medals[v].all
        /\ db'.medals = db.medals /\ today' = today /\ op' = op /\ op' = Idle /\ Commit(db', NULL, 0)
        /\ NewId(db) \in Ids
    BY <2>0 DEF Founds, Newcomer, Free
  <2>2. m # NULL
    <3>1. m \in Member
      BY <1>0, <2>1, Fields DEF Newcomer, Member, Medals
    <3>. QED BY <3>1, Constants
  <2>. HIDE DEF k, m
  <2>3. db'.member[v] = m /\ (u # v => db'.member[u] = db.member[u])
    BY <1>0, <2>1, Fields
  <2>4. CASE u = v
    <3>1. db.medals[u].all <= db.medals[u].all
      BY <1>0, Fields DEF Medals
    <3>. QED BY <1>0, <2>1, <2>2, <2>3, <2>4, <3>1, OwnIsNone
  <2>5. CASE u # v
    <3>1. Keeps(u)
      BY <2>1, <2>3, <2>5, EarnedStays
    <3>. QED BY <1>0, <2>1, <2>3, <2>5, <3>1, OwnIsSame
  <2>. QED BY <2>4, <2>5
<1>4. CASE \E k \in Ids : Mines(k)
  <2>1. db'.member = db.member /\ db'.medals = db.medals /\ today' = today /\ op' = op /\ earned' = earned
    BY <1>4 DEF Mines, SamePeople
  <2>2. Keeps(u)
    BY <1>0, <2>1 DEF Keeps
  <2>. QED BY <1>0, <2>1, <2>2, OwnIsSame
<1>5. CASE NobodyMoves /\ (NextDay \/ Crash \/ (\E t \in Ids : SessionLate(t)) \/ \E v \in Users : WipeBegin(v))
  <2>1. today <= today' /\ earned' = earned /\ (op' = op \/ op' = Idle)
    BY <1>0, <1>5 DEF NextDay, Crash, SessionLate, WipeBegin, history
  <2>. QED BY <1>0, <1>5, <2>1, OwnIsKept DEF NobodyMoves, Idle
<1>6. CASE NobodyMoves /\ \E v, x \in Users, t \in Ids : RequestRead(v, t) \/ AcceptRead(v, t, x)
  <2>1. CASE \E v \in Users, t \in Ids : RequestRead(v, t)
    <3>1. today <= today' /\ earned' = earned /\ op'.pc # "accepting"
      BY <1>0, <2>1 DEF RequestRead
    <3>. QED BY <1>0, <1>6, <3>1, OwnIsKept DEF NobodyMoves
  <2>2. CASE \E v, x \in Users, t \in Ids : AcceptRead(v, t, x)
    <3>0. PICK v \in Users, x \in Users, t \in Ids : AcceptRead(v, t, x)
      BY <2>2
    <3>1. db' = db /\ today' = today /\ earned' = earned /\ op' = [pc |-> "accepting", who |-> x, team |-> t, base |-> db.medals[x].all]
      BY <3>0 DEF AcceptRead
    <3>2. op'.who = u => db'.medals[u].all <= op'.base
      <4>1. db.medals[u].all \in Nat
        BY <1>0, Fields DEF Medals
      <4>. QED BY <3>1, <4>1
    <3>3. Week(today') = Week(today) /\ \A w \in Weeks : Counted(db', u, w) = Counted(db, u, w)
      BY <3>1
    <3>. QED BY <1>0, <3>1, <3>2, <3>3 DEF OwnOf
  <2>. QED BY <1>6, <2>1, <2>2
<1>7. CASE RequestCommit
  <2>1. db'.member = db.member /\ db'.medals = db.medals /\ today' = today /\ op' = Idle /\ earned' = earned
    BY <1>0, <1>7 DEF RequestCommit, Database, history
  <2>. QED BY <1>0, <2>1, OwnIsKept DEF Idle
<1>8. CASE AcceptCommit
  <2>1. op.who \in Users /\ op.team \in Ids /\ op.base \in Nat
    BY <1>0, <1>8 DEF Ops, Idle, AcceptCommit
  <2>. DEFINE m == Newcomer(op.team, "member", op.base)
  <2>2. /\ db'.member = [db.member EXCEPT ![op.who] = m] /\ m.since = today /\ m.base = op.base
        /\ db'.medals = db.medals /\ today' = today /\ op' = Idle /\ earned' = earned
    BY <1>0, <1>8 DEF AcceptCommit, Database, Newcomer, history
  <2>3. m # NULL
    <3>1. m \in Member
      BY <1>0, <2>1 DEF Newcomer, Member
    <3>. QED BY <3>1, Constants
  <2>. HIDE DEF m
  <2>4. db'.member[op.who] = m /\ (u # op.who => db'.member[u] = db.member[u])
    BY <1>0, <2>1, <2>2, Fields
  <2>5. CASE u = op.who
    <3>1. db.medals[u].all <= op.base
      BY <1>0, <1>8, <2>5 DEF AcceptCommit, OwnOf
    <3>. QED BY <1>0, <2>2, <2>3, <2>4, <2>5, <3>1, OwnIsNone
  <2>6. CASE u # op.who
    BY <1>0, <2>2, <2>4, <2>6, OwnIsKept DEF Idle
  <2>. QED BY <2>5, <2>6
<1>9. CASE \E v, x \in Users, t \in Ids : Reject(v, t, x)
  <2>1. db'.member = db.member /\ db'.medals = db.medals /\ today' = today /\ op' = op /\ Commit(db', NULL, 0)
    BY <1>0, <1>9 DEF Reject, DoDb, Do, Commit, Database
  <2>2. Keeps(u)
    BY <1>0, <2>1, NothingEarned
  <2>. QED BY <1>0, <2>1, <2>2, OwnIsSame
<1>10. CASE \E v, x \in Users : ToggleAdmin(v, x)
  <2>1. today' = today /\ op' = op /\ Commit(db', NULL, 0)
    BY <1>10 DEF ToggleAdmin, DoDb, Do, Commit
  <2>2. PICK v \in Users : Toggled(v)
    BY <1>10, ToggledShape
  <2>3. /\ db'.medals = db.medals
        /\ db.member[u] = NULL => db'.member[u] = NULL
        /\ db.member[u] # NULL =>
             db'.member[u].since = db.member[u].since /\ db'.member[u].base = db.member[u].base
    BY <1>0, <2>2, Fields DEF Toggled
  <2>4. Keeps(u)
    BY <2>1, <2>3, NothingEarned
  <2>. QED BY <1>0, <2>1, <2>3, <2>4, OwnIsKept DEF Keeps
<1>11. CASE \/ \E v \in Users : Disband(v) /\ Leads(db, v) /\ Ends(db, db', db.member[v].team)
           \/ \E v \in Users : /\ Leave(v) \/ \E x \in Users : Kick(x, v)
                               /\ ~Owns(db, v) /\ Goes(db, db', v)
  <2>1. today' = today /\ op' = op /\ Commit(db', NULL, 0) /\ db'.medals = db.medals
    <3>1. CASE \E v \in Users : Disband(v)
      BY <1>0, <3>1, DisbandedEnds DEF Disband, Do, Commit
    <3>2. CASE \E v \in Users : Leave(v) \/ \E x \in Users : Kick(x, v)
      <4>1. PICK v \in Users : Leave(v) \/ \E x \in Users : Kick(x, v)
        BY <3>2
      <4>2. /\ today' = today /\ op' = op /\ Commit(db', NULL, 0) /\ db' = Fire(db, {v})
        BY <4>1 DEF Leave, Kick, DoDb, Do, Commit
      <4>. QED BY <1>0, <4>2, FireGoes
    <3>. QED BY <1>11, <3>1, <3>2
  <2>2. db'.member[u] = NULL \/ db'.member[u] = db.member[u]
    BY <1>0, <1>11, Fields DEF Ends, Goes
  <2>3. Keeps(u)
    BY <1>0, <2>1, <2>2, NothingEarned DEF Keeps
  <2>. QED BY <1>0, <2>1, <2>2, <2>3, OwnIsGone
<1>12. CASE \E v \in Users : ClearAccount(v) \/ (WipeCommit /\ v = job)
  <2>0. PICK v \in Users : ClearAccount(v) \/ (WipeCommit /\ v = job)
    BY <1>12
  <2>1. /\ today' = today /\ op' = op /\ db' = Wiped(db, v)
        /\ Commit(db', NULL, 0) \/ Commit(db', job, 0)
    BY <2>0 DEF ClearAccount, WipeCommit, Do, Commit
  <2>2. /\ IF Leads(db, v) THEN Ends(db, db', db.member[v].team) ELSE Goes(db, db', v)
        /\ db'.medals = [db.medals EXCEPT ![v] = NoMedals]
    BY <1>0, <2>1, WipedMoves
  <2>3. (db'.member[u] = NULL \/ db'.member[u] = db.member[u]) /\ db'.member[v] = NULL
    <3>1. CASE Leads(db, v)
      <4>1. v \in Members(db, db.member[v].team) /\ Ends(db, db', db.member[v].team)
        BY <2>2, <3>1 DEF Leads, Owns, Members
      <4>. QED BY <4>1 DEF Ends
    <3>2. CASE ~Leads(db, v)
      <4>1. Goes(db, db', v)
        BY <2>2, <3>2
      <4>. QED BY <1>0, <4>1, Fields DEF Goes
    <3>. QED BY <3>1, <3>2
  <2>4. db'.medals[u] = db.medals[u] \/ (db'.medals[u] = NoMedals /\ db'.member[u] = NULL)
    BY <1>0, <2>2, <2>3, Fields
  <2>5. Keeps(u)
    <3>. 0 \in Nat /\ (db.member[u] # NULL \/ db'.member[u] = NULL)
      BY <2>3
    <3>. QED BY <2>1, EarnedStays
  <2>. QED BY <1>0, <2>1, <2>3, <2>4, <2>5, OwnIsGone
<1>13. CASE Moves
  BY <1>5, <1>6, <1>7, <1>8, <1>9, <1>10, <1>11, <1>12, <1>13, MoveShapes
<1>14. CASE UNCHANGED vars
  BY <1>0, <1>14, OwnIsKept DEF vars, history
<1>. QED BY <1>1, <1>2, <1>3, <1>4, <1>13, <1>14, StepShapes DEF Shapes

\* _member_medals: what a member counts at the settling of a week was earned
\* in that week and as a member, although the account keeps one number and
\* one bucket only.
THEOREM MedalsWereEarned == Spec => []CountedWasEarned
<1>1. Init => MedalsAreOwn
  BY DEF Init, InitMemory, NewDb, NoMedals, Idle, MedalsAreOwn
<1>2. TypeInv /\ MedalsAreOwn => CountedWasEarned
  BY DEF TypeInv, TypeOK, Database, MedalsAreOwn, CountedWasEarned
<1>. QED BY <1>1, <1>2, MedalsStep, SeatIsFreeHolds, PTL DEF Spec

-----------------------------------------------------------------------------
(* Whole cartels.  Nobody is named by a row that outlives what it names, and *)
(* while no wipe overlaps a handler, what memory holds is alive too.         *)

LeadsIn(d, u, t) == d.member[u] # NULL /\ d.member[u].team = t /\ d.member[u].role = "owner"

WholeDb(d) ==
  /\ \A u \in Users : d.member[u] # NULL => d.team[d.member[u].team] # NULL
  /\ \A t \in Ids : d.team[t] # NULL => \A u \in Users : LeadsIn(d, u, t) <=> u = d.team[t].owner
  /\ \A r \in d.request : d.team[r[1]] # NULL

Remembered ==
  /\ \A t \in Ids : sess[t] # NULL => db.team[t] # NULL
  /\ op # Idle => db.team[op.team] # NULL
  /\ job # NULL => op = Idle /\ (Owns(db, job) => sess[db.member[job].team] = NULL)

Whole == ~raced => WholeDb(db) /\ Remembered

\* The same cartels, owners, members and requests.
SameBooks(d, e) ==
  /\ \A t \in Ids : e.team[t] = NULL <=> d.team[t] = NULL
  /\ \A t \in Ids : d.team[t] # NULL => e.team[t].owner = d.team[t].owner
  /\ e.member = d.member /\ e.request = d.request

LEMMA WholeSame ==
  ASSUME NEW d \in Database, NEW e \in Database, WholeDb(d), SameBooks(d, e)
  PROVE  WholeDb(e)
<1>1. \A u \in Users : d.member[u] # NULL => d.member[u].team \in Ids
  BY Fields DEF Member
<1>2. \A r \in d.request : r[1] \in Ids
  BY Fields
<1>. QED BY <1>1, <1>2 DEF WholeDb, SameBooks, LeadsIn

LEMMA WholeGoes ==
  ASSUME NEW d \in Database, NEW e \in Database, NEW v \in Users, WholeDb(d), Goes(d, e, v), ~Owns(d, v)
  PROVE  WholeDb(e)
<1>1. e.team = d.team /\ e.request = d.request
  BY DEF Goes
<1>2. e.member[v] = NULL /\ \A u \in Users : u # v => e.member[u] = d.member[u]
  BY Fields DEF Goes
<1>3. \A t \in Ids : d.team[t] # NULL => \A u \in Users : LeadsIn(e, u, t) <=> LeadsIn(d, u, t)
  BY <1>2 DEF LeadsIn, Owns
<1>. QED BY <1>1, <1>2, <1>3 DEF WholeDb

LEMMA WholeEnds ==
  ASSUME NEW d \in Database, NEW e \in Database, NEW t \in Ids, WholeDb(d), Ends(d, e, t)
  PROVE  WholeDb(e)
<1>1. e.team[t] = NULL /\ \A s \in Ids : s # t => e.team[s] = d.team[s]
  BY Fields DEF Ends
<1>2. \A u \in Users : IF d.member[u] # NULL /\ d.member[u].team = t THEN e.member[u] = NULL
                                                                    ELSE e.member[u] = d.member[u]
  BY DEF Ends, Members
<1>3. \A u \in Users : d.member[u] # NULL => d.member[u].team \in Ids
  BY Fields DEF Member
<1>4. \A r \in e.request : r \in d.request /\ r[1] \in Ids /\ r[1] # t
  BY Fields DEF Ends
<1>5. \A s \in Ids : s # t => \A u \in Users : LeadsIn(e, u, s) <=> LeadsIn(d, u, s)
  BY <1>2 DEF LeadsIn
<1>. QED BY <1>1, <1>2, <1>3, <1>4, <1>5 DEF WholeDb

LEMMA WholeFounds ==
  ASSUME TypeInv, NEW u \in Users, NEW n \in Names, WholeDb(db), Founds(u, n)
  PROVE  WholeDb(db')
<1>. DEFINE k == NewId(db)
            m == Newcomer(k, "owner", db.medals[u].all)
<1>0. db \in Database /\ db' \in Database /\ k \in Ids
  BY DEF Founds, TypeInv, TypeOK
<1>1. m \in Member /\ m # NULL /\ m.team = k /\ m.role = "owner"
  <2>1. db.medals[u].all \in Nat /\ today \in Days
    BY <1>0, Fields DEF Medals, TypeInv, TypeOK
  <2>. QED BY <1>0, <2>1, Constants DEF Newcomer, Member
<1>2. db'.team[k] # NULL /\ db'.team[k].owner = u /\ db.team[k] = NULL
      /\ \A s \in Ids : s # k => db'.team[s] = db.team[s]
  <2>1. NewTeamRow(u, n) # NULL /\ NewTeamRow(u, n).owner = u
    BY Constants DEF Founds, NewTeamRow
  <2>. QED BY <1>0, <2>1, Fields DEF Founds
<1>3. db'.member[u] = m /\ db.member[u] = NULL /\ db'.request = db.request
      /\ \A x \in Users : x # u => db'.member[x] = db.member[x]
  BY <1>0, Fields DEF Founds, CanCreate
<1>. HIDE DEF k, m
<1>4. \A x \in Users : db.member[x] # NULL => db.member[x].team \in Ids /\ db.member[x].team # k
  BY <1>0, <1>2, Fields DEF WholeDb, Member
<1>5. \A r \in db.request : r[1] \in Ids /\ r[1] # k
  BY <1>0, <1>2, Fields DEF WholeDb
<1>6. \A x \in Users : LeadsIn(db', x, k) <=> x = u
  BY <1>1, <1>3, <1>4 DEF LeadsIn
<1>7. \A s \in Ids : s # k => \A x \in Users : LeadsIn(db', x, s) <=> LeadsIn(db, x, s)
  BY <1>1, <1>3 DEF LeadsIn
<1>8. \A x \in Users : db'.member[x] # NULL => db'.team[db'.member[x].team] # NULL
  BY <1>0, <1>1, <1>2, <1>3, <1>4 DEF WholeDb
<1>9. \A s \in Ids : db'.team[s] # NULL => \A x \in Users : LeadsIn(db', x, s) <=> x = db'.team[s].owner
  BY <1>2, <1>6, <1>7 DEF WholeDb
<1>. QED BY <1>2, <1>3, <1>5, <1>8, <1>9 DEF WholeDb

\* One player's row is another one of the same cartel, or the first of it;
\* who leads is not touched.
LEMMA WholeSeat ==
  ASSUME NEW d \in Database, NEW e \in Database, NEW v \in Users, NEW m \in Member, WholeDb(d),
         e.team = d.team, e.member = [d.member EXCEPT ![v] = m], e.request \subseteq d.request,
         ~Owns(d, v), m.role # "owner", d.team[m.team] # NULL
  PROVE  WholeDb(e)
<1>1. e.member[v] = m /\ m # NULL /\ \A u \in Users : u # v => e.member[u] = d.member[u]
  BY Fields, Constants
<1>2. \A t \in Ids, u \in Users : LeadsIn(e, u, t) <=> LeadsIn(d, u, t)
  BY <1>1 DEF LeadsIn, Owns
<1>. QED BY <1>1, <1>2 DEF WholeDb

LEMMA RememberedSame ==
  ASSUME TypeInv, Remembered, db'.member = db.member, \A t \in Ids : db'.team[t] = NULL <=> db.team[t] = NULL,
         op' = op \/ op' = Idle, job' = job \/ job' = NULL,
         \A t \in Ids : sess[t] = NULL => sess'[t] = NULL
  PROVE  Remembered'
<1>0. db \in Database /\ op \in Ops /\ job \in Users \cup {NULL}
  BY DEF TypeInv, TypeOK
<1>1. op # Idle => op.team \in Ids
  BY <1>0 DEF Ops, Idle
<1>2. \A u \in Users : db.member[u] # NULL => db.member[u].team \in Ids
  BY <1>0, Fields DEF Member
<1>. QED BY <1>0, <1>1, <1>2 DEF Remembered, Owns

\* Between updates there is only the common mining to remember.
LEMMA RememberedFree ==
  ASSUME op' = Idle, job' = NULL, \A t \in Ids : sess'[t] # NULL => db'.team[t] # NULL
  PROVE  Remembered'
BY DEF Remembered

LEMMA WholeStep ==
  ASSUME TypeInv, TypeInv', SeatIsFree, Whole, [Next]_vars
  PROVE  Whole'
<1>. SUFFICES ASSUME ~raced' PROVE WholeDb(db') /\ Remembered'
  BY DEF Whole
<1>0. /\ db \in Database /\ db' \in Database /\ op \in Ops /\ job \in Users \cup {NULL} /\ NULL \notin Users
      /\ sess \in [Ids -> Session \cup {NULL}] /\ raced \in BOOLEAN
  BY Constants DEF TypeInv, TypeOK
<1>. USE DEF history
<1>1. CASE Seated
  <2>1. WholeDb(db) /\ Remembered /\ SameBooks(db, db')
    BY <1>1 DEF Seated, Whole, SameSeats, SameBooks
  <2>2. db'.member = db.member /\ op' = op /\ job' = job /\ sess' = sess /\ \A t \in Ids : db'.team[t] = NULL <=> db.team[t] = NULL
    BY <1>1, <2>1 DEF Seated, SameBooks
  <2>. QED BY <1>0, <2>1, <2>2, WholeSame, RememberedSame
<1>2. CASE \E u \in Users, n \in Nat : Recording(u, n)
  <2>1. WholeDb(db) /\ Remembered /\ SameBooks(db, db')
    BY <1>2 DEF Recording, Whole, SameCartels, SameTeams, SameTeam, SamePeople, SameBooks
  <2>2. db'.member = db.member /\ op' = op /\ job' = job /\ sess' = sess /\ \A t \in Ids : db'.team[t] = NULL <=> db.team[t] = NULL
    BY <1>2, <2>1 DEF Recording, SameBooks
  <2>. QED BY <1>0, <2>1, <2>2, WholeSame, RememberedSame
<1>3. CASE \E u \in Users, n \in Names : Founds(u, n)
  <2>0. PICK u \in Users, n \in Names : Founds(u, n)
    BY <1>3
  <2>1. WholeDb(db) /\ Remembered
    BY <2>0 DEF Founds, Whole
  <2>2. \A t \in Ids : db.team[t] # NULL => db'.team[t] # NULL
    BY <1>0, <2>0, Fields DEF Founds
  <2>3. op' = Idle /\ job' = NULL /\ sess' = sess
    BY <2>0 DEF Founds, Free
  <2>. QED BY <2>0, <2>1, <2>2, <2>3, WholeFounds, RememberedFree DEF Remembered
<1>4. CASE \E k \in Ids : Mines(k)
  <2>0. PICK k \in Ids : Mines(k)
    BY <1>4
  <2>1. WholeDb(db) /\ Remembered /\ SameBooks(db, db')
    BY <2>0 DEF Mines, Whole, SamePeople, SameBooks
  <2>2. op' = Idle /\ job' = NULL
    BY <1>0, <2>0 DEF Mines
  <2>3. db.team[k] # NULL /\ \A t \in Ids : t # k => sess'[t] = sess[t]
    BY <1>0, <2>0 DEF Mines
  <2>4. \A t \in Ids : sess'[t] # NULL => db'.team[t] # NULL
    BY <2>1, <2>3 DEF Remembered, SameBooks
  <2>. QED BY <1>0, <2>1, <2>2, <2>4, WholeSame, RememberedFree
<1>5. CASE NobodyMoves /\ (NextDay \/ Crash \/ (\E t \in Ids : SessionLate(t)) \/ \E u \in Users : WipeBegin(u))
  <2>1. WholeDb(db) /\ Remembered /\ SameBooks(db, db')
    <3>1. ~raced
      BY <1>5 DEF NextDay, Crash, SessionLate, WipeBegin
    <3>. QED BY <1>5, <3>1 DEF Whole, NobodyMoves, SameBooks
  <2>2. WholeDb(db')
    BY <1>0, <2>1, WholeSame
  <2>3. CASE NextDay \/ Crash
    <3>1. /\ op' = op \/ op' = Idle
          /\ job' = job \/ job' = NULL
          /\ \A t \in Ids : sess[t] = NULL => sess'[t] = NULL
      BY <2>3 DEF NextDay, Crash, memory
    <3>. QED BY <1>5, <2>1, <2>2, <3>1, RememberedSame DEF NobodyMoves
  <2>4. CASE \E t \in Ids : SessionLate(t)
    <3>1. op' = op /\ job' = job /\ \A t \in Ids : sess[t] = NULL => sess'[t] = NULL
      BY <1>0, <2>4 DEF SessionLate, Live
    <3>. QED BY <1>5, <2>1, <2>2, <3>1, RememberedSame DEF NobodyMoves
  <2>5. CASE \E u \in Users : WipeBegin(u)
    <3>0. PICK u \in Users : WipeBegin(u)
      BY <2>5
    <3>1. op = Idle /\ op' = Idle /\ job' = u /\ sess' = Unmined(u) /\ db' = db
      BY <3>0 DEF WipeBegin
    <3>2. \A t \in Ids : sess'[t] = IF Owns(db, u) /\ db.member[u].team = t THEN NULL ELSE sess[t]
      BY <3>1 DEF Unmined
    <3>3. Owns(db, u) => db.member[u].team \in Ids
      BY <1>0, Fields DEF Owns, Member
    <3>. QED BY <2>1, <2>2, <3>1, <3>2, <3>3 DEF Remembered, Owns
  <2>. QED BY <1>5, <2>3, <2>4, <2>5
<1>6. CASE NobodyMoves /\ \E u, v \in Users, t \in Ids : RequestRead(u, t) \/ AcceptRead(u, t, v)
  <2>0. PICK u \in Users, v \in Users, t \in Ids : RequestRead(u, t) \/ AcceptRead(u, t, v)
    BY <1>6
  <2>1. ~raced /\ job = NULL /\ job' = NULL /\ db' = db /\ sess' = sess
    BY <1>0, <2>0 DEF RequestRead, AcceptRead, memory
  <2>2. op'.team = t /\ db.team[t] # NULL
    BY <2>0 DEF RequestRead, AcceptRead, Resolves, HasTeam
  <2>. QED BY <2>1, <2>2 DEF Whole, Remembered
<1>7. CASE RequestCommit
  <2>1. op # Idle /\ op.team \in Ids /\ op.who \in Users
    BY <1>0, <1>7 DEF Ops, Idle, RequestCommit
  <2>2. /\ WholeDb(db) /\ Remembered /\ db'.team = db.team /\ db'.member = db.member
        /\ db'.request = db.request \cup {<<op.team, op.who>>}
        /\ op' = Idle /\ job' = NULL /\ sess' = sess
    BY <1>0, <1>7 DEF RequestCommit, Whole, Database, memory
  <2>3. WholeDb(db')
    BY <2>1, <2>2 DEF WholeDb, LeadsIn, Remembered
  <2>. QED BY <2>2, <2>3, RememberedFree DEF Remembered
<1>8. CASE AcceptCommit
  <2>. DEFINE m == Newcomer(op.team, "member", op.base)
  <2>1. op # Idle /\ op.team \in Ids /\ op.who \in Users /\ op.base \in Nat /\ today \in Days /\ op.pc = "accepting"
    BY <1>0, <1>8 DEF Ops, Idle, AcceptCommit, TypeInv, TypeOK
  <2>2. /\ WholeDb(db) /\ Remembered /\ db'.team = db.team /\ db'.member = [db.member EXCEPT ![op.who] = m]
        /\ db'.request \subseteq db.request
        /\ op' = Idle /\ job' = NULL /\ sess' = sess
    BY <1>0, <1>8 DEF AcceptCommit, Whole, Database, memory
  <2>3. m \in Member /\ m.role # "owner" /\ m.team = op.team
    BY <2>1 DEF Newcomer, Member
  <2>. HIDE DEF m
  <2>4. ~Owns(db, op.who) /\ db.team[op.team] # NULL
    BY <2>1, <2>2 DEF SeatIsFree, Owns, Remembered
  <2>5. WholeDb(db')
    BY <1>0, <2>1, <2>2, <2>3, <2>4, WholeSeat
  <2>. QED BY <2>2, <2>5, RememberedFree DEF Remembered
<1>9. CASE \E u, v \in Users, t \in Ids : Reject(u, t, v)
  <2>1. /\ WholeDb(db) /\ Remembered /\ db'.team = db.team /\ db'.member = db.member /\ db'.request \subseteq db.request
        /\ op' = op /\ job' = job /\ sess' = sess
    BY <1>0, <1>9 DEF Reject, DoDb, Do, Commit, Whole, Database, memory
  <2>2. WholeDb(db')
    BY <2>1 DEF WholeDb, LeadsIn
  <2>. QED BY <2>1, <2>2, RememberedSame
<1>10. CASE \E u, v \in Users : ToggleAdmin(u, v)
  <2>0. PICK v \in Users : Toggled(v)
    BY <1>10, ToggledShape
  <2>1. /\ WholeDb(db) /\ Remembered /\ op' = Idle /\ job' = NULL /\ sess' = sess
    BY <1>10 DEF ToggleAdmin, DoDb, Do, Whole, memory, Free
  <2>2. PICK m \in Member : /\ db'.member = [db.member EXCEPT ![v] = m]
                            /\ m.role # "owner" /\ m.team = db.member[v].team
    BY <2>0 DEF Toggled
  <2>3. db'.team = db.team /\ db'.request = db.request /\ ~Owns(db, v) /\ db.team[m.team] # NULL
    BY <2>0, <2>1, <2>2 DEF Toggled, WholeDb
  <2>4. WholeDb(db')
    BY <1>0, <2>1, <2>2, <2>3, WholeSeat
  <2>. QED BY <2>1, <2>3, <2>4, RememberedFree DEF Remembered
<1>11. CASE \E u \in Users : Disband(u) /\ Leads(db, u) /\ Ends(db, db', db.member[u].team)
  <2>0. PICK u \in Users : Disband(u) /\ Leads(db, u) /\ Ends(db, db', db.member[u].team)
    BY <1>11
  <2>. DEFINE t == db.member[u].team
  <2>1. t \in Ids
    BY <1>0, <2>0, Fields DEF Leads, Owns, Member
  <2>2. WholeDb(db) /\ Remembered /\ op' = Idle /\ job' = NULL /\ sess' = [sess EXCEPT ![t] = NULL]
    BY <2>0 DEF Disband, Do, Whole, Free
  <2>3. WholeDb(db') /\ \A s \in Ids : s # t => db'.team[s] = db.team[s]
    BY <1>0, <2>0, <2>1, <2>2, WholeEnds, Fields DEF Ends
  <2>. HIDE DEF t
  <2>. QED BY <1>0, <2>1, <2>2, <2>3, RememberedFree DEF Remembered
<1>12. CASE \E v \in Users : /\ Leave(v) \/ \E u \in Users : Kick(u, v)
                            /\ ~Owns(db, v) /\ Goes(db, db', v)
  <2>0. PICK v \in Users : /\ Leave(v) \/ \E u \in Users : Kick(u, v)
                           /\ ~Owns(db, v) /\ Goes(db, db', v)
    BY <1>12
  <2>1. WholeDb(db) /\ Remembered /\ op' = Idle /\ job' = NULL /\ sess' = sess /\ db'.team = db.team
    BY <2>0 DEF Leave, Kick, DoDb, Do, Whole, Free, memory, Goes
  <2>2. WholeDb(db')
    BY <1>0, <2>0, <2>1, WholeGoes
  <2>. QED BY <2>1, <2>2, RememberedFree DEF Remembered
<1>13. CASE \E u \in Users : ClearAccount(u) \/ (WipeCommit /\ u = job)
  <2>0. PICK u \in Users : ClearAccount(u) \/ (WipeCommit /\ u = job)
    BY <1>13
  <2>1. ~raced /\ WholeDb(db) /\ Remembered /\ db' = Wiped(db, u)
    BY <2>0 DEF ClearAccount, WipeCommit, Do, Commit, Whole
  <2>2. /\ op' = Idle /\ job' = NULL
        /\ \A t \in Ids : sess'[t] # NULL => sess[t] # NULL /\ ~(Owns(db, u) /\ db.member[u].team = t)
    <3>1. CASE ClearAccount(u)
      BY <3>1 DEF ClearAccount, Do, Free, Unmined
    <3>2. CASE WipeCommit /\ u = job
      BY <2>1, <3>2 DEF WipeCommit, Remembered, memory
    <3>. QED BY <2>0, <3>1, <3>2
  <2>3. CASE Leads(db, u)
    <3>. DEFINE t == db.member[u].team
    <3>0. Owns(db, u) /\ Ends(db, db', t)
      BY <1>0, <2>1, <2>3, WipedMoves DEF Leads
    <3>1. t \in Ids /\ Ends(db, db', t) /\ Owns(db, u)
      BY <1>0, <3>0, Fields DEF Owns, Member
    <3>2. WholeDb(db') /\ \A s \in Ids : s # t => db'.team[s] = db.team[s]
      BY <1>0, <2>1, <3>1, WholeEnds, Fields DEF Ends
    <3>. HIDE DEF t
    <3>3. \A s \in Ids : sess'[s] # NULL => s # t
      BY <2>2, <3>1 DEF t
    <3>. QED BY <2>1, <2>2, <3>2, <3>3, RememberedFree DEF Remembered
  <2>4. CASE ~Leads(db, u)
    <3>1. Goes(db, db', u) /\ ~Owns(db, u)
      BY <1>0, <2>1, <2>4, WipedMoves DEF Leads, Owns, HasTeam, WholeDb
    <3>2. WholeDb(db') /\ db'.team = db.team
      BY <1>0, <2>1, <3>1, WholeGoes DEF Goes
    <3>. QED BY <2>1, <2>2, <3>2, RememberedFree DEF Remembered
  <2>. QED BY <2>3, <2>4
<1>14. CASE Moves
  BY <1>5, <1>6, <1>7, <1>8, <1>9, <1>10, <1>11, <1>12, <1>13, <1>14, MoveShapes
<1>15. CASE UNCHANGED vars
  BY <1>15 DEF vars, memory, Whole, Remembered
<1>. QED BY <1>1, <1>2, <1>3, <1>4, <1>14, <1>15, StepShapes DEF Shapes

LEMMA WholeNames == TypeInv /\ Whole => CartelsAreWhole
<1>. SUFFICES ASSUME TypeInv, ~raced, WholeDb(db), Remembered PROVE CartelsAreWhole
  BY DEF Whole, CartelsAreWhole
<1>0. db \in Database
  BY DEF TypeInv, TypeOK
<1>1. \A t \in Ids : db.team[t] # NULL => {u \in Members(db, t) : Owns(db, u)} = {db.team[t].owner}
  <2>. TAKE t \in Ids
  <2>. HAVE db.team[t] # NULL
  <2>1. db.team[t].owner \in Users
    BY <1>0, Fields DEF Team
  <2>2. \A u \in Users : (u \in Members(db, t) /\ Owns(db, u)) <=> u = db.team[t].owner
    BY DEF WholeDb, LeadsIn, Members, Owns
  <2>. QED BY <2>1, <2>2 DEF Members
<1>. QED BY <1>1 DEF WholeDb, Remembered, CartelsAreWhole, HasTeam

\* disband_team, wipe_account, create_team and the requests together: every
\* membership, request and common mining names a living cartel, and a living
\* cartel is led by its owner alone, unless a wipe overlapped a handler.
THEOREM CartelsStayWhole == Spec => []CartelsAreWhole
<1>1. Init => Whole
  BY DEF Init, InitMemory, NewDb, Idle, Whole, WholeDb, Remembered
<1>2. TypeInv /\ TypeInv' /\ SeatIsFree /\ Whole /\ [Next]_vars => Whole'
  BY WholeStep
<1>3. TypeInv /\ Whole => CartelsAreWhole
  BY WholeNames
<1>. QED BY <1>1, <1>2, <1>3, SeatIsFreeHolds, PTL DEF Spec

-----------------------------------------------------------------------------
(* The common mining.                                                      *)

DueAt(t) ==
  Live(t) => /\ db.team[t] # NULL => ~db.team[t].cooling
             /\ sess[t].needed >= 3 /\ Cardinality(sess[t].who) < sess[t].needed

\* No session begins, and no rested cartel grows tired.
LEMMA DueSame ==
  ASSUME TypeInv, NEW t \in Ids, DueAt(t), sess'[t] # NULL /\ ~sess'[t].late => sess'[t] = sess[t],
         db'.team[t] # NULL =>
           (db.team[t] # NULL /\ (db'.team[t].cooling => db.team[t].cooling)) \/ ~db'.team[t].cooling
  PROVE  DueAt(t)'
BY DEF DueAt, Live

LEMMA DueStep ==
  ASSUME TypeInv, TypeInv', MiningIsDue, [Next]_vars
  PROVE  MiningIsDue'
<1>. SUFFICES ASSUME NEW t \in Ids PROVE DueAt(t)'
  BY DEF MiningIsDue, DueAt, Live
<1>0. /\ db \in Database /\ db' \in Database /\ DueAt(t) /\ sess \in [Ids -> Session \cup {NULL}]
      /\ \A s \in Ids : db.team[s] # NULL => db.team[s] \in Team
  <2>1. db \in Database /\ db' \in Database /\ sess \in [Ids -> Session \cup {NULL}]
    BY DEF TypeInv, TypeOK
  <2>. QED BY <2>1, Fields DEF MiningIsDue, DueAt
<1>1. CASE Seated
  <2>1. sess' = sess /\ (db'.team[t] # NULL => db.team[t] # NULL /\ (db'.team[t].cooling => db.team[t].cooling))
    BY <1>1 DEF Seated, SameSeats
  <2>. QED BY <1>0, <2>1, DueSame
<1>2. CASE \E u \in Users, n \in Nat : Recording(u, n)
  <2>1. sess' = sess /\ (db'.team[t] # NULL => db.team[t] # NULL /\ db'.team[t].cooling = db.team[t].cooling)
    BY <1>2 DEF Recording, SameCartels, SameTeams, SameTeam
  <2>. QED BY <1>0, <2>1, DueSame
<1>3. CASE \E u \in Users, n \in Names : Founds(u, n)
  <2>0. PICK u \in Users, n \in Names : Founds(u, n)
    BY <1>3
  <2>1. sess' = sess /\ (db'.team[t] = db.team[t] \/ db'.team[t] = NewTeamRow(u, n))
    BY <1>0, <2>0, Fields DEF Founds
  <2>2. ~NewTeamRow(u, n).cooling
    BY DEF NewTeamRow
  <2>. QED BY <1>0, <2>1, <2>2, DueSame
<1>4. CASE \E k \in Ids : Mines(k)
  <2>0. PICK k \in Ids : Mines(k)
    BY <1>4
  <2>1. PICK j \in Session \cup {NULL} :
          /\ sess' = [sess EXCEPT ![k] = j]
          /\ j # NULL => /\ Live(k) \/ ~db.team[k].cooling
                         /\ sess[k] # NULL /\ ~Live(k) => ~j.late
                         /\ ~j.late => (Live(k) => j.needed = sess[k].needed) /\ (~Live(k) => j.needed >= 3)
                         /\ Cardinality(j.who) < j.needed
    BY <2>0 DEF Mines
  <2>2. /\ db'.team[t] = NULL <=> db.team[t] = NULL
        /\ db'.team[t] # NULL =>
             \/ db'.team[t].cooling = db.team[t].cooling
             \/ t = k /\ sess'[k] = NULL
    BY <2>0 DEF Mines
  <2>3. CASE t # k
    <3>1. sess'[t] = sess[t] /\ (db'.team[t] # NULL => db'.team[t].cooling = db.team[t].cooling)
      BY <1>0, <2>1, <2>2, <2>3
    <3>. QED BY <1>0, <2>2, <3>1, DueSame
  <2>4. CASE t = k
    <3>1. sess'[k] = j /\ db.team[k] # NULL /\ db'.team[k] # NULL
      BY <1>0, <2>0, <2>1, <2>2, <2>4 DEF Mines
    <3>2. CASE j = NULL \/ j.late
      BY <2>4, <3>1, <3>2 DEF DueAt, Live
    <3>3. CASE j # NULL /\ ~j.late
      <4>1. ~db'.team[k].cooling
        BY <1>0, <2>1, <2>2, <2>4, <3>1, <3>3 DEF DueAt
      <4>2. j.needed >= 3 /\ Cardinality(j.who) < j.needed
        BY <1>0, <2>1, <2>4, <3>3 DEF DueAt
      <4>. QED BY <2>4, <3>1, <4>1, <4>2 DEF DueAt
    <3>. QED BY <3>2, <3>3
  <2>. QED BY <2>3, <2>4
<1>5. CASE Moves
  <2>1. sess'[t] # NULL /\ ~sess'[t].late => sess'[t] = sess[t]
    <3>. USE DEF memory
    <3>1. CASE \E k \in Ids : SessionLate(k)
      <4>1. PICK k \in Ids : SessionLate(k)
        BY <3>1
      <4>2. sess[k] \in Session /\ sess' = [sess EXCEPT ![k] = [sess[k] EXCEPT !.late = TRUE]]
        BY <1>0, <4>1 DEF SessionLate, Live
      <4>3. [sess[k] EXCEPT !.late = TRUE].late
        BY <4>2 DEF Session
      <4>. QED BY <1>0, <4>2, <4>3
    <3>2. CASE \E u \in Users : Disband(u)
      BY <1>0, <3>2 DEF Disband
    <3>3. CASE \E u \in Users : ClearAccount(u) \/ WipeBegin(u)
      BY <3>3 DEF ClearAccount, WipeBegin, Unmined
    <3>4. CASE Crash
      BY <3>4 DEF Crash
    <3>5. CASE \/ \E u \in Users : \/ Leave(u)
                                   \/ \E v \in Users : Kick(u, v) \/ ToggleAdmin(u, v)
                                   \/ \E k \in Ids : RequestRead(u, k)
                                   \/ \E k \in Ids, v \in Users : AcceptRead(u, k, v) \/ Reject(u, k, v)
               \/ RequestCommit \/ AcceptCommit \/ WipeCommit \/ NextDay
      <4>1. sess' = sess
        BY <3>5 DEF Leave, Kick, ToggleAdmin, RequestRead, AcceptRead, Reject, RequestCommit, AcceptCommit,
                    WipeCommit, NextDay, DoDb
      <4>. QED BY <4>1
    <3>. QED BY <1>5, <3>1, <3>2, <3>3, <3>4, <3>5 DEF Moves
  <2>2. db'.team[t] = db.team[t] \/ db'.team[t] = NULL
    BY <1>5, MovesKeepRows
  <2>. QED BY <1>0, <2>1, <2>2, DueSame
<1>6. CASE UNCHANGED vars
  <2>1. sess' = sess /\ db' = db
    BY <1>6 DEF vars, memory
  <2>. QED BY <1>0, <2>1, DueSame
<1>. QED BY <1>1, <1>2, <1>3, <1>4, <1>5, <1>6, StepShapes DEF Shapes

\* team_mine_join: a mining that players can join is one the cartel has
\* rested for, and lacks somebody of at least three.
THEOREM MiningStaysDue == Spec => []MiningIsDue
<1>1. Init => MiningIsDue
  BY DEF Init, InitMemory, MiningIsDue, Live
<1>2. TypeInv /\ TypeInv' /\ MiningIsDue /\ [Next]_vars => MiningIsDue'
  BY DueStep
<1>. QED BY <1>1, <1>2, TypeInvHolds, PTL DEF Spec
=============================================================================
