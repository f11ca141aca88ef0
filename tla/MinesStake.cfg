CONSTANTS
  ali = ali
  sara = sara
  NULL = NULL
  Users = {ali, sara}
  Tracked = {ali, sara}
  Cash0 = 2
  Bet = 2
  SafeTiles = 2
  Pay <- MCPay
  MaxHands = 2
  MaxCrashes = 0

SPECIFICATION FairSpec

INVARIANT StakesComeBack
