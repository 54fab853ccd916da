SPECIFICATION Spec
CONSTANTS
  Conns = {}
  MaxHeaders = 4
  MaxInput = 5
  Tries = 3
PROPERTY GivesUpOnFailedRelay
CHECK_DEADLOCK FALSE
