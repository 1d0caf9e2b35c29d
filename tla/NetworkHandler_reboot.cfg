CONSTANTS
  a = a
  b = b
  first = first
  second = second
  third = third
  Endpoints = {a, b}
  Messages = {second, third}
  Source <- MCSource
  Destination <- MCDestination
  MessageType <- MCMessageType
  MaxRetries <- MCRetries
  IdMod = 2
  TimeMod = 4
  ExpiryPeriod = 2
  ReceptionTimes <- MCTight1
  DefaultReceptionTime = 3
  PacketLifetime = 1
  Interruptible = {}
  MaxRestarts <- EveryoneOnce
SPECIFICATION Spec
INVARIANTS
  AtMostOnce
  SuccessMeansDelivered
  RetryBudget
PROPERTIES
  PromiseOutlivesReboots
