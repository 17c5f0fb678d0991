CONSTANTS
  bufLen = 2
  MaxRequest = 4
  MaxBytes = 7
  MaxDescriptors = 5
  Words = {"http", "a"}
  Codes = {32, 37, 43, 48, 65, 71, 200}
  MaxValue = 3
  CR = CR
  LF = LF
  Other = Other
  HexDigit = {0, 2}
  MaxHexCount = 2
  MaxMessage = 8
  MaxCall = 3
  SP = SP
  Colon = Colon
  Letter = Letter
  Digit = Digit
  Version = Version
  Control = Control
  Beginning <- StartLines
  Arriving <- AnyCharacter
  MaxHeaders = 2
  MaxInput = 12
  MaxPiece = 2
  HTTP_BUF_SIZE = 21
  ReplyHeads <- Replies
  Requests <- Calls
  MaxGets = 2
SPECIFICATION MCSpec
INVARIANTS BytesInOrder OnlyFailedOpensLeak UrlsReadBack PiecesMakeNoDifference ReplyReadBack
PROPERTY GetReturns
CHECK_DEADLOCK FALSE
