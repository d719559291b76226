SPECIFICATION FairSpec
CONSTANTS
  s1 = s1
  s2 = s2
  None = None
  Shards <- TwoShards
  Home <- NoHome
  MaxClock = 4
  MaxHandovers = 1
  MaxAdoptions = 1
INVARIANTS
  TypeOK
  GenNamesOneOwner
  GenProvesOwner
  ConsumedNeverAccepted
PROPERTIES
  ImplementsFencedLease
  NoSteal
  AdoptionResolves
