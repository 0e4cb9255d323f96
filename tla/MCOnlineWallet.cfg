SPECIFICATION FairSpec
CONSTANTS
  l1 = l1
  l2 = l2
  Lot <- MCLot
  Payout = {p1, p2}
  Refund = {r1}
  Payable <- MCPayable
  Reserve <- MCReserve
  Liquidity = 2
INVARIANTS
  TypeOK
  BalancesMatchLots
  PayoutsAreCovered
  FrozenMoneyStaysBack
PROPERTIES
  HoldsAreReleased
CHECK_DEADLOCK FALSE
