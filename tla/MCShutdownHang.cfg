SPECIFICATION FairSpec
CONSTANTS
  Conns = {}
  Calls = {}
  NoCall = NoCall
  MaxHeaders = 4
  MaxInput = 5
  MaxAttempts = 1
  FixtureAttempts = 1
  Clients = {c1}
  NoClient = NoClient
PROPERTY ShutdownEndsProcess
