CONSTANTS
  a = a
  b = b
  Channels = {a, b}
  Peer <- OtherEnd
  Lengths <- SomeLengths
  Octets <- SomeOctets
  Malformed = {4}
  HeaderSize = 8
  CodecLimit = 65535
  Capacities = {2, 9}
  COptions <- SomeOptions
  CallbackAnswers = {"Ok", "WouldBlock", "NeedMoreData"}
  TransportAnswers = {"Ok", "WriteFailed"}
  Results = {"Ok", "PayloadTooLarge"}
  MadeAt <- SomeHandles
  Senders = {a}
  MaxArrivals = 2
SPECIFICATION Spec
INVARIANTS
  TypeOK
  
  StatusComesBack
PROPERTIES
  ServiceToPeer
  TakenIsNotAwaited
