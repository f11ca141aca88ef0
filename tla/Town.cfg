CONSTANTS
  ali = ali
  sara = sara
  wheat = wheat
  saffron = saffron
  knife = knife
  gun = gun
  vest = vest
  cloak = cloak
  ring = ring
  rex = rex
  bo = bo
  NULL = NULL
  Users = {ali, sara}
  MaxCash = 4
  StartCash = 3
  LevelReward = 1
  XpNeed <- MCXpNeed
  HpTable <- MCHp
  MaxEnergy = 3
  PulseAmount = 2
  Stamina = 1
  Drinks = {"tea", "red"}
  Drink <- MCDrink
  Skills = {"stamina", "luck"}
  SkillMax = 1
  SkillPoints <- MCPoints
  ResetCost = 1
  BankCap <- MCBankCap
  BankPrice <- MCBankPrice
  BankMinLevel <- MCOnes
  TrfMin = 1
  TrfMax = 2
  QuestDraws <- MCQuests
  SeedBase = 1
  SeedPerHome = 1
  ResCap <- MCResCap
  FirstBonus <- MCBonus
  FirstGift = 1
  Loots <- MCLoots
  ToolMax = 2
  ToolGain = 100
  ToolCost <- MCToolCost
  FacMax = 2
  FacCost <- MCFacCost
  FacMinLevel = 2
  FacRate = 1
  FillTicks = 2
  Slow = 50
  ResPrice <- MCResPrice
  ResUnit <- MCResUnit
  Crops = {wheat, saffron}
  Legendary = {saffron}
  CropPrice <- MCCropPrice
  CropMinLevel <- MCCropOne
  CropXp <- MCCropPrice
  Worths = {1, 2}
  LegendCap = 1
  Quantities = {1, 2}
  ProductCap = 2
  MaxPlots = 2
  PlotCost <- MCPlotCost
  SpeedUps = {1}
  PlotMax = 2
  PlotUp <- MCPlotUp
  HomeMax = 1
  HomeCost <- MCOne
  HomeMinLevel <- MCOne
  Thefts = {50}
  Finds = {1}
  Raided = {50}
  LastShip = 3
  MaxShipments = 2
  Seizes = {50}
  Malus = 50
  Bonuses = {50}
  Weapons = {knife, gun}
  Guns = {gun}
  Armors = {vest, cloak}
  Artifacts = {ring}
  Goods <- MCGoods
  Strength <- MCStrength
  AmmoCap = 2
  AmmoPrice = 1
  GearMax = 2
  GearUp <- MCGearUp
  Dogs = {rex, bo}
  DogGoods <- MCDogGoods
  MaxDogs = 1
  DogMax = 2
  DogNeed <- MCOne
  Feeds = 1
  Foods <- MCFoods
  HitEnergy = 1
  PvEnergy = 2
  Damages = {0, 1, 2}
  HitXp = 1
  DogXp = 1
  Steals = {50}
  Ability <- MCAbility
  Leech = 50
  Reflect = 50
  GodHp = 50
  Heals <- MCHeals
  BreakCost = 1
  PickCost = 1
  Penalty = 50
  WinXp = 1
  LoseXp = 0
  VictimXp = 0
  LootShare = 50
  SnitchLimit = 2
  SnitchShare = 50
  SnitchBonus = 0
  BribeCost = 1
  StartSkill <- MCSkill
  Amounts = {1, 2}
  Themes = {"energy", "quests", "bank", "roads", "caravan", "asks", "farm", "home", "works", "gear", "dogs", "hits", "attacks", "jail", "channel", "admin"}

SPECIFICATION MCSpec

CHECK_DEADLOCK FALSE

INVARIANTS
  TownOK
  EnergyIsEarned
  AccountsHold
  FallenAreDead
  JailHolds
PROPERTIES
  LoadsArePaid
  LoadsArrive
