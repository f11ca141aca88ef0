CONSTANTS
  wolves = wolves
  hawks = hawks
  anna = anna
  reza = reza
  guest = guest
  NULL = NULL
  Cartels <- MCCartels
  Users <- MCUsers
  Leader <- MCLeader
  CartelOf <- MCCartelOf
  Wars = {1, 2}
  Handlers = {h1, h2}
  MaxCrashes = 1

SPECIFICATION Spec

INVARIANT
  QuotaPaidOnlyForWars
