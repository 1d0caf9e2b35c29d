CONSTANTS
  JsonEncode <- JsonCodecEncode
  JsonDecode <- JsonCodecDecode
  MsgPackEncode <- MsgPackCodecEncode
  MsgPackDecode <- MsgPackCodecDecode
  JsonKeeps <- WithFiniteNumbers
  NestedTooDeeply <- BeyondMaxDepth
  MaxDepth = 5
  MaxFixString = 0
  MaxFixArray = 1
  ByteMod = 2
  Width = 8
  Polynomial = {2, 3, 7}
  GroupNames <- MCGroupNames
  ReceiverGroup <- MCReceiverGroup
  Name <- MCName
  Values <- MCValues
  Strays <- MCStrays
  MaxRetries = 1
  MaxMessages = 2
  MaxChanges = 1
  NaN = NaN
  Inf = Inf
SPECIFICATION Spec
INVARIANTS
  TypeOK
  UnderstoodAsSaid
  TruncatedIsIgnored
  EqualsIsIdentity
  GroupsKeptApart
  CodecsAgree
PROPERTIES
  ImplementsWire
CHECK_DEADLOCK FALSE
