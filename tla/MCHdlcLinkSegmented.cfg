CONSTANTS
  SeqModulus = 4
  Window = 1
  Lenient = FALSE
  Octets = {"a", "b", "c", "x"}
  RetryCount = 1
  CounterModulus = 256
  MaxApduSize = 0
  MaxInformation = 2
  CodecLimit = 9
  DefaultReassemblyLimit = 9
  ReadFailures = {}
  WriteFailures = {}
  Fragmented = FALSE
  WireCapacity = 3
  ClientApdus <- LongApdu
  ServerApdus <- NoApdus
  MaxConnects = 1
  Disconnects = FALSE
  RequestReply = FALSE
  Lossy = FALSE
SPECIFICATION FairSpec
PROPERTIES
  SegmentedSendReturns
CHECK_DEADLOCK FALSE
