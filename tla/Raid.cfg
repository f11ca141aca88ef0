CONSTANTS
  ali = ali
  sara = sara
  NULL = NULL
  Users = {ali, sara}
  Bullets0 = 1
  Health = {2}
  Damage = {1, 2}
  PerDamage = 2
  Top = 1
  Share <- MCShare
  KillerBonus = 1
  MaxFights = 2
  MaxCrashes = 1

SPECIFICATION FairSpec

CHECK_DEADLOCK FALSE

INVARIANTS
  TypeOK
  BoardsArePaid
PROPERTIES
  ImplementsFight
  FightsLeave
