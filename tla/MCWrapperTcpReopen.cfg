CONSTANTS
  Lengths <- TwoLengths
  Malformed = {}
  MaxApduSize = 2
  CodecLimit = 9
  ScratchSize = 4
  Capacities = {1, 9}
  OutgoingSizes = {1, 3}
  ReadFailures = {"Timeout"}
  WriteFailures = {"WriteFailed"}
  StreamFailures = {"OpenFailed"}
  WireCapacity = 1
  CloseFirst = FALSE
  Backlog = 6
SPECIFICATION Spec
INVARIANTS
  ByteIdentical
