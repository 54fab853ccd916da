SPECIFICATION Spec
CONSTANTS
  Alphabet = {1, 2, 3, 8, 9}
  Lower <- SameCase
  Lead = 8
  Cont = 9
  Patterns <- ShortAndLong
  Capacities = {3, 5}
  MaxChunk = 4
  MaxFed = 7
INVARIANTS
  TypeOK
  StreamMatchesWhole
  HeldBackBounded
  FailureReleasesPrefix
  Utf8Exact
CHECK_DEADLOCK FALSE
