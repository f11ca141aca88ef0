CONSTANTS
  anna = anna
  reza = reza
  NULL = NULL
  Users <- MCUsers
  Member0 <- MCMember0
  Joined0 <- MCJoined0
  Bench <- MCBench
  Tasks = {t1, t2}
  Second = 2
  WarLen = 4
  Cooldown = 3
  MinMembership = 4
  MaxTime = 4
  MaxMoves = 1
  MaxCrashes = 1

SPECIFICATION Spec

CHECK_DEADLOCK FALSE

INVARIANTS
  TypeOK
  CooldownRespected
  ScoreMatchesLog
  NeverBothSides
  MedalsPaidOnce
  WinnerLedTheScore
