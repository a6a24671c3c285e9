CONSTANTS
  SeqModulus = 2
  Window = 1
  Lenient = TRUE
  Octets = {"a", "b"}
  Role = "Server"
  UseSession = TRUE
  AddressesValid = TRUE
  RetryCount = 1
  CounterModulus = 2
  MaxApduSize = 1
  MaxInformation = 2
  CodecLimit = 9
  DefaultReassemblyLimit = 3
  Capacities = {0, 2}
  ReadFailures = {"Timeout"}
  WriteFailures = {"WriteFailed"}
  StreamFailures = {"OpenFailed"}
  SleepFailures = {"InternalError"}
  LineNoise = TRUE
  Fragmented = TRUE
  WireCapacity = 1
  Backlog = 2
  Apdus <- OneApdu
  PeerFrames <- ClientFrames
SPECIFICATION Spec
INVARIANTS
  NothingOutlivesClose
  OneApduPending
  RetryBound
  LinkResultMatchesSession
  
PROPERTIES
  ApduLeavesByDelivery
