SPECIFICATION OpenDSpec
CONSTANTS
  stock = stock
  plus = plus
  etf = etf
  NoTable = NoTable
  NoRow = NoRow
  NotGiven = NotGiven
  NoSnapshot = NoSnapshot
  Assets <- MCAssets
  Pooled <- MCPooled
  QuotedType <- MCQuotedType
  NamedType <- MCNamedType
  Values = {0, 1}
  CashAmounts <- MCCash
  FundAmounts = {0, 1}
  Spendable = 2
  MaxMoves = 1
INVARIANTS
  ShownIsReal
  ReadBackAgrees
  PartsAddUp
CHECK_DEADLOCK FALSE
