CONSTANTS
  ali = ali
  sara = sara
  NULL = NULL
  Users <- MCUsers
  Items <- MCItems
  Purse0 <- MCPurse0
  Capped = {"wood"}
  Cap = 1
  Quantities = {1}
  Prices = {1}
  Ids = {1, 2}
  MaxPerUser = 1
  MaxOverlaps = 1

SPECIFICATION FairSpec

INVARIANTS
  TypeOK
  MoneyConserved
  GoodsConserved
PROPERTY
  OffersLeaveTheTable
