CONSTANTS
  SeqModulus = 4
  Window = 1
  Lenient = FALSE
  Octets = {"a", "b", "c", "x"}
  RetryCount = 1
  CounterModulus = 256
  MaxApduSize = 0
  MaxInformation = 0
  CodecLimit = 9
  DefaultReassemblyLimit = 9
  ReadFailures = {"Timeout"}
  WriteFailures = {}
  Fragmented = FALSE
  WireCapacity = 3
  ClientApdus <- TwoApdus
  ServerApdus <- ReplyApdu
  MaxConnects = 1
  Disconnects = FALSE
  RequestReply = TRUE
  Lossy = TRUE
SPECIFICATION Spec
INVARIANTS
  TakenInIsReceived
