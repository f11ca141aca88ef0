CONSTANTS
  ali = ali
  sara = sara
  reza = reza
  nima = nima
  day = day
  caravan = caravan
  NULL = NULL
  Users = {ali, sara, reza, nima}
  Names = {"red", "blue", "gold"}
  MaxId = 2
  StartCash = 3
  CreateCost = 2
  RenameCost = 1
  JoinLevel = 1
  CreateLevel = 2
  Cap <- MCCap
  Need <- MCNeed
  OldNeed <- MCOld
  Quests = {day, caravan}
  Drawn <- MCDrawn
  PerMiner = {1, 2}
  WeekPrize <- MCPrize
  Price <- MCPrice
  History = 2
  DaysPerWeek = 2
  LastDay = 2
  MaxCrashes = 1
  Themes = {"week"}

SPECIFICATION MCSpec

CHECK_DEADLOCK FALSE

PROPERTIES
  MostMedalsWin
