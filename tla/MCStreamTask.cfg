SPECIFICATION Spec
CONSTANTS
  Alphabet = {1, 2}
  Marker <- MCMarker
  MaxChunk = 4
  MaxFed = 6
  MaxBody = 1
  MaxPiece = 2
INVARIANTS
  TypeOK
  OneReceipt
  PassThrough
  MarkerNeverMissed
  ProbeInBounds
  ReceiptExactForShortSegments
  LoggedOnlyWhole
  OnlyAdmittedBytesSent
  RequestHashExactIfReadFirst
CHECK_DEADLOCK FALSE
