-------------------------------- MODULE MCTeams --------------------------------
(***************************************************************************)
(* Teams with two cartels and four players.  A behaviour is about one      *)
(* theme, which bounds who plays and which handlers they use; it begins    *)
(* with the cartels that theme needs, which the handlers of Teams can      *)
(* found.                                                                  *)
(***************************************************************************)
EXTENDS Teams, TLC

CONSTANTS ali, sara, reza, nima, day, caravan, Themes

VARIABLE theme

MCCap   == <<2, 4>>
MCNeed  == <<2, 3>>
MCOld   == <<1, 1>>
MCPrice == <<1, 2>>
MCPrize == <<3, 2, 1>>
Offer(l, b) == [target |-> l, reward |-> 1, bank |-> b]
MCDrawn == [x \in Ids \X Days \X Levels |->
             IF x[3] = 1 THEN (day :> Offer(1, 1)) ELSE (day :> Offer(2, 1)) @@ (caravan :> Offer(1, 0))]

NewTeam(n, u, l) ==
  [name |-> n, owner |-> u, bank |-> 0, level |-> l, xp |-> 0, atk |-> 0, def |-> 0,
   cooling |-> FALSE, hidden |-> FALSE, bio |-> FALSE]
In(t, r) == [team |-> t, role |-> r, since |-> 0, base |-> 0]
Grownup  == [NewDb EXCEPT !.level = [u \in Users |-> CreateLevel]]
Two      == [Grownup EXCEPT !.team = 1 :> NewTeam("red", ali, 1) @@ 2 :> NewTeam("blue", sara, 1),
                            !.member[ali] = In(1, "owner"), !.member[sara] = In(2, "owner")]
Big      == [Grownup EXCEPT !.team[1] = NewTeam("red", ali, 2),
                            !.member = ali :> In(1, "owner") @@ sara :> In(1, "admin")
                                         @@ reza :> In(1, "member") @@ nima :> In(1, "member")]
Week0    == [Two EXCEPT !.weekKey = 0, !.member[reza] = In(1, "member")]

First(x) == CASE x = "names"  -> Grownup
              [] x = "people" -> Two
              [] x = "mine"   -> [Big EXCEPT !.weekKey = 0, !.cash = [u \in Users |-> CreateCost]]
              [] x = "week"   -> Week0
              [] x = "quests" -> [Two EXCEPT !.weekKey = 0, !.member[reza] = In(1, "member"), !.cash[ali] = CreateCost]
              [] x = "levels" -> [Two EXCEPT !.weekKey = 0]
              [] x = "talk"   -> Two

MCInit ==
  /\ theme \in Themes
  /\ db = First(theme)
  /\ InitMemory /\ InitHistory /\ today = 0 /\ crashes = 0

Founding(us) ==
  \E u \in us : \/ AskName(u) \/ ConfirmCreate(u) \/ Cancel(u)
                \/ \E n \in Names : GiveName(u, n)

Joining(us, guests) ==
  \/ \E v \in guests, t \in Ids :
       RequestRead(v, t) \/ \E u \in us : AcceptRead(u, t, v) \/ Reject(u, t, v)
  \/ RequestCommit \/ AcceptCommit
  \/ \E v \in guests : Leave(v)

Few(u)     == db.medals[u].all < 2
Room(u, k) == HasTeam(db, u) => db.daily[db.member[u].team].prog[k] < 2

MCNext ==
  /\ theme' = theme
  /\ \/ /\ theme = "names"
        /\ \/ Founding({ali, sara})
           \/ \E u \in {ali, sara} :
                \/ ConfirmRename(u) \/ Disband(u)
                \/ \E n \in Names : AskRename(u, n)
           \/ Crash
     \/ /\ theme = "people"
        /\ \/ Joining({ali, sara, reza}, Users)
           \/ \E u \in {ali, sara, reza} :
                \/ Disband(u) \/ LevelUp(u) \/ ClearAccount(u) \/ WipeBegin(u)
                \/ \E v \in Users : Kick(u, v) \/ ToggleAdmin(u, v)
           \/ WipeCommit
           \/ \E t \in Ids : db.team[t] # NULL /\ db.team[t].level = 1 /\ GiveTeamXp(t, 2)
     \/ /\ theme = "mine"
        /\ \/ Founding({ali})
           \/ \E u \in Users : (\E per \in PerMiner : MineJoin(u, per)) \/ Leave(u)
           \/ \E t \in Ids : SessionLate(t) \/ (db.team[t] # NULL /\ db.team[t].bank < 4 /\ HourOver(t))
           \/ Joining({ali, sara}, {sara})
           \/ Disband(ali) \/ WipeBegin(ali) \/ WipeCommit \/ Crash
     \/ /\ theme = "week"
        /\ \/ Joining({ali, sara}, {reza})
           \/ \E u \in {reza, sara} : Few(u) /\ Earn(u, 1)
           \/ Few(reza) /\ EarnAndRecord(reza, 1, caravan)
           \/ ShowTop \/ NextDay
     \/ /\ theme = "quests"
        /\ \/ Founding({ali})
           \/ \E k \in Quests :
                \/ Room(sara, k) /\ RecordOnly(sara, k)
                \/ Room(ali, k) /\ TeamDeposit(ali, 1, k)
           \/ Disband(ali) \/ ClearAccount(ali) \/ NextDay
           \/ \E t \in Ids : db.team[t] # NULL /\ db.team[t].level = 1 /\ GiveTeamXp(t, 2)
     \/ /\ theme = "levels"
        /\ \/ \/ Few(ali) /\ Earn(ali, 1)
              \/ Few(ali) /\ EarnAndRecord(ali, 2, day)
              \/ TeamDeposit(ali, 1, caravan)
              \/ \E kind \in {"atk", "def"} : Upgrade(ali, kind)
           \/ \E n \in {0, 1, 5} : db.team[1].xp < 6 /\ GiveTeamXp(1, n)
           \/ Migrate
     \/ /\ theme = "talk"
        /\ \/ \E u \in {ali, sara, reza} :
                \/ AskChat(u) \/ PostChat(u) \/ AskKick(u) \/ SearchKick(u) \/ SetBio(u) \/ Cancel(u)
                \/ Kick(ali, u) \/ Leave(u)
           \/ \E t \in Ids : ToggleHidden(t)
           \/ Disband(sara) \/ Founding({sara})

MCSpec == MCInit /\ [][MCNext]_<<vars, theme>>
=============================================================================
