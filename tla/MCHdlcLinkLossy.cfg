CONSTANTS
  SeqModulus = 4
  Window = 1
  Lenient = FALSE
  Octets = {"a", "b", "c", "x"}
  RetryCount = 1
  CounterModulus = 256
  MaxApduSize = 0
  MaxInformation = 0
  CodecLimit = 9
  DefaultReassemblyLimit = 9
  ReadFailures = {"Timeout"}
  WriteFailures = {"WriteFailed"}
  Fragmented = TRUE
  WireCapacity = 2
  ClientApdus <- TwoApdus
  ServerApdus <- ReplyApdu
  MaxConnects = 2
  Disconnects = TRUE
  RequestReply = FALSE
  Lossy = TRUE
SPECIFICATION Spec
INVARIANTS
  SendOkMeansTaken
PROPERTIES
  DeliveryToServer
  DeliveryToClient
