SPECIFICATION Spec
CONSTANTS
  Alphabet = {1, 2}
  Marker <- MCMarker
  MaxChunk = 4
  MaxFed = 4
  MaxBody = 1
  MaxPiece = 2
INVARIANT RequestHashExact
CHECK_DEADLOCK FALSE
