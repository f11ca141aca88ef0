CONSTANTS
  ali = ali
  sara = sara
  NULL = NULL
  Users = {ali, sara}
  Bullets0 = 1
  Health = {2}
  Damage = {1, 2}
  PerDamage = 2
  Top = 1
  Share <- MCShare
  KillerBonus = 1
  MaxFights = 2
  MaxCrashes = 1

SPECIFICATION Spec

CHECK_DEADLOCK FALSE

INVARIANT BulletsHit
