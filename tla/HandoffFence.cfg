CONSTANTS
  s1 = s1
  s2 = s2
  Shards <- TwoShards
  Events <- AllEvents
  SlowHandoffs = TRUE
  MaxEpoch = 2
  MaxGen = 1
  MaxHandoffs = 1
  MaxLogins = 1
SPECIFICATION Spec
SYMMETRY Symmetry
INVARIANTS TypeOK EpochsMinted
PROPERTIES SaveFence ClaimSupersedes OwnerNeverEvicted
