CONSTANTS
  a = a
  b = b
  first = first
  second = second
  third = third
  Endpoints = {a, b}
  Messages = {first, second}
  Source <- MCSource
  Destination <- MCDestination
  MessageType <- MCMessageType
  MaxRetries <- MCRetries
  IdMod = 1
  TimeMod = 12
  ExpiryPeriod = 2
  ReceptionTimes <- MCTimes
  DefaultReceptionTime = 4
  PacketLifetime = 1
  Interruptible = {b}
  MaxRestarts <- NoRestarts
SPECIFICATION FairSpec
INVARIANTS
  TypeOK
  AtMostOnce
  ReceptionMemoryBounded
PROPERTIES
  ImplementsTransport
  EventuallySettled
