CONSTANTS
  SeqModulus = 4
  Window = 1
  Lenient = FALSE
  Octets = {"a", "b", "c", "d", "e", "A", "B", "C", "D", "E"}
  RetryCount = 1
  CounterModulus = 256
  MaxApduSize = 0
  MaxInformation = 0
  CodecLimit = 9
  DefaultReassemblyLimit = 9
  ReadFailures = {}
  WriteFailures = {}
  Fragmented = FALSE
  WireCapacity = 3
  ClientApdus <- FiveRequests
  ServerApdus <- FiveReplies
  MaxConnects = 1
  Disconnects = FALSE
  RequestReply = TRUE
  Lossy = FALSE
SPECIFICATION FairSpec
PROPERTIES
  AllDelivered
CHECK_DEADLOCK FALSE
