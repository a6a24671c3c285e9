CONSTANTS
  SeqModulus = 4
  Window = 2
  Lenient = FALSE
  Octets = {"a", "b", "c", "x"}
  RetryCount = 1
  CounterModulus = 256
  MaxApduSize = 0
  MaxInformation = 0
  CodecLimit = 9
  DefaultReassemblyLimit = 9
  ReadFailures = {"Timeout"}
  WriteFailures = {}
  Fragmented = FALSE
  WireCapacity = 3
  ClientApdus <- TwoApdus
  ServerApdus <- NoApdus
  MaxConnects = 1
  Disconnects = FALSE
  RequestReply = FALSE
  Lossy = FALSE
SPECIFICATION Spec
INVARIANTS
  SendCompletesWhenTaken
