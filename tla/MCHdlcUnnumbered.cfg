CONSTANTS
  SeqModulus = 2
  Window = 1
  Lenient = FALSE
  Octets = {"a", "b"}
  Role = "Client"
  UseSession = FALSE
  AddressesValid = TRUE
  RetryCount = 1
  CounterModulus = 2
  MaxApduSize = 1
  MaxInformation = 2
  CodecLimit = 2
  DefaultReassemblyLimit = 2
  Capacities = {0, 9}
  ReadFailures = {"Timeout"}
  WriteFailures = {"WriteFailed"}
  StreamFailures = {}
  SleepFailures = {}
  LineNoise = TRUE
  Fragmented = TRUE
  WireCapacity = 1
  Backlog = 2
  Apdus <- UnnumberedApdus
  PeerFrames <- UnnumberedFrames
SPECIFICATION Spec
INVARIANTS
  NothingOutlivesClose
  OneApduPending
PROPERTIES
  ApduLeavesByDelivery
