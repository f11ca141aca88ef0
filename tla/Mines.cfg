CONSTANTS
  ali = ali
  sara = sara
  NULL = NULL
  Users = {ali, sara}
  Tracked = {ali}
  Cash0 = 2
  Bet = 2
  SafeTiles = 2
  Pay <- MCPay
  MaxHands = 3
  MaxCrashes = 1

SPECIFICATION FairSpec

INVARIANTS
  TypeOK
  CashMatchesHands
PROPERTY
  TablesAreCleared
