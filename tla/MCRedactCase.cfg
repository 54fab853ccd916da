SPECIFICATION Spec
CONSTANTS
  Alphabet = {1, 2, 5}
  Lower <- Capital
  Lead = 8
  Cont = 9
  Patterns <- OneShort
  Capacities = {4}
  MaxChunk = 3
  MaxFed = 6
INVARIANT StreamMatchesWhole
CHECK_DEADLOCK FALSE
