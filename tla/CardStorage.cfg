SPECIFICATION Spec
CONSTANTS
  MaxLists = 2
  MaxCards = 2
  MaxPlace = 0
  Sizes = {1, 2}
  Keys = {k1}
  Plans = {"free", "pro"}
  Limits <- MCLimits
  NoKey = NoKey
  Keep = Keep
INVARIANTS TypeOK UsageIsExact KeyFindsItsCard
PROPERTIES StorageIsBounded
