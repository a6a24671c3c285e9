CONSTANTS
  SeqModulus = 2
  Window = 1
  Lenient = FALSE
  Octets = {"a", "b"}
  Role = "Client"
  UseSession = TRUE
  AddressesValid = TRUE
  RetryCount = 1
  CounterModulus = 2
  MaxApduSize = 2
  MaxInformation = 2
  CodecLimit = 9
  DefaultReassemblyLimit = 2
  Capacities = {0, 9}
  ReadFailures = {"Timeout"}
  WriteFailures = {}
  StreamFailures = {}
  SleepFailures = {}
  LineNoise = FALSE
  Fragmented = TRUE
  WireCapacity = 1
  Backlog = 2
  Apdus <- LongApdu
  PeerFrames <- ServerFrames
SPECIFICATION Spec
INVARIANTS
  SetupBeforeTransfer
