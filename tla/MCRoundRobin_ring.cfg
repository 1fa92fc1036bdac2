\* Four servers.
CONSTANTS
  Server = {s1, s2, s3, s4}
  Null = Null
SPECIFICATION FairSpec
INVARIANTS
  TypeOK
PROPERTIES
  DealsInTurns
  EveryServerHasItsTurn
