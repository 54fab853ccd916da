SPECIFICATION Spec
CONSTANTS
  Alphabet = {1, 2}
  Marker <- MCMarker
  MaxChunk = 4
  MaxFed = 7
  MaxBody = 1
  MaxPiece = 2
INVARIANT ReceiptHashesPayload
CHECK_DEADLOCK FALSE
