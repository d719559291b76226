CONSTANTS
  s1 = s1
  s2 = s2
  Shards <- TwoShards
  Events <- AllEvents
  SlowHandoffs = FALSE
  MaxEpoch = 2
  MaxGen = 1
  MaxHandoffs = 1
  MaxLogins = 1
SPECIFICATION Spec
SYMMETRY Symmetry
INVARIANT EpochExclusive
