SPECIFICATION FairSpec
CONSTANTS
  Conns = {k1, k2, x}
  Calls = {k1, k2}
  NoCall = NoCall
  MaxHeaders = 6
  MaxInput = 7
  MaxAttempts = 2
  FixtureAttempts = 2
  Clients = {c1, c2}
  NoClient = NoClient
INVARIANTS
  TypeOK
  FailClosed
  HeaderScanExact
PROPERTIES
  BootDecides
  SoundBootServes
  ShutdownCompletes
  ClientsNotStarved
