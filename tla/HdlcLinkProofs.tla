--------------------------- MODULE HdlcLinkProofs ---------------------------
(***************************************************************************)
(* Theorems of HdlcLink, for every value of its constants.  C and S are    *)
(* the lemmas about one channel, of the client and of the server.          *)
(***************************************************************************)
EXTENDS HdlcLink, SequenceTheorems, TLAPS

C == INSTANCE HdlcLinkEndProofs WITH
  Role <- "Client", UseSession <- TRUE, AddressesValid <- TRUE,
  LineNoise <- FALSE, Capacities <- {AnyCapacity},
  StreamFailures <- {}, SleepFailures <- {},
  rx <- s2c, tx <- c2s, open <- cOpen, session <- cSession,
  partial <- cPartial, segments <- cSegments,
  pendingHdlcFrames <- cPendingFrames, pendingApdus <- cPendingApdus,
  call <- cCall, writes <- cWrites, linked <- cLinked,
  Apdus <- {ClientApdus[i] : i \in 1..Len(ClientApdus)},
  PeerFrames <- {}, Backlog <- 0

S == INSTANCE HdlcLinkEndProofs WITH
  Role <- "Server", UseSession <- TRUE, AddressesValid <- TRUE,
  LineNoise <- FALSE, Capacities <- {AnyCapacity},
  StreamFailures <- {}, SleepFailures <- {},
  rx <- c2s, tx <- s2c, open <- sOpen, session <- sSession,
  partial <- sPartial, segments <- sSegments,
  pendingHdlcFrames <- sPendingFrames, pendingApdus <- sPendingApdus,
  call <- sCall, writes <- sWrites, linked <- sLinked,
  Apdus <- {ServerApdus[i] : i \in 1..Len(ServerApdus)},
  PeerFrames <- {}, Backlog <- 0

-----------------------------------------------------------------------------
(* The assumptions of both channels.                                       *)

LEMMA EndAssumptions ==
  /\ C!SessionAssumption /\ C!ChannelAssumption /\ C!EndpointAssumption
  /\ S!SessionAssumption /\ S!ChannelAssumption /\ S!EndpointAssumption
<1>1. Client!SessionAssumption /\ Client!ChannelAssumption /\ Server!ChannelAssumption
  BY LinkAssumption DEF LinkAssumption
<1>2. /\ {ClientApdus[i] : i \in 1..Len(ClientApdus)} \subseteq Seq(Octets)
      /\ {ServerApdus[i] : i \in 1..Len(ServerApdus)} \subseteq Seq(Octets)
  <2>1. ClientApdus \in Seq(Seq(Octets)) /\ ServerApdus \in Seq(Seq(Octets))
    BY LinkAssumption DEF LinkAssumption
  <2>2. /\ \A i \in 1..Len(ClientApdus) : ClientApdus[i] \in Seq(Octets)
        /\ \A i \in 1..Len(ServerApdus) : ServerApdus[i] \in Seq(Octets)
    BY <2>1, ElementOfSeq
  <2>3. QED
    BY <2>2
<1>3. C!SessionAssumption /\ S!SessionAssumption
  BY <1>1 DEF C!SessionAssumption, S!SessionAssumption, Client!SessionAssumption
<1>4. C!ChannelAssumption /\ S!ChannelAssumption
  <2>1. MaxApduSize \in Nat
    BY <1>1 DEF Client!ChannelAssumption
  <2>2. Len(ClientApdus) \in Nat /\ Len(ServerApdus) \in Nat
    BY LinkAssumption, LenProperties DEF LinkAssumption
  <2>3. AnyCapacity \in Nat
    BY <2>1, <2>2 DEF AnyCapacity
  <2>4. QED
    BY <1>1, <2>3 DEF C!ChannelAssumption, S!ChannelAssumption, Client!ChannelAssumption,
     Server!ChannelAssumption, C!ProfileStatus, S!ProfileStatus, Client!ProfileStatus,
     Server!ProfileStatus
<1>5. C!EndpointAssumption /\ S!EndpointAssumption
  BY <1>2 DEF C!EndpointAssumption, S!EndpointAssumption
<1>6. QED
  BY <1>3, <1>4, <1>5

(* Client and C are two instances of the same channel: every operator of   *)
(* one is that of the other, so the actions of HdlcLink are those the      *)
(* lemmas are about.                                                       *)
LEMMA ClientActions ==
  /\ Client!Step => C!Step
  /\ Client!ConnectDataLink => C!ConnectDataLink
  /\ Client!DisconnectDataLink => C!DisconnectDataLink
  /\ \A apdu : Client!SendApdu(apdu) => C!SendApdu(apdu)
  /\ \A capacity : Client!ReceiveApdu(capacity) => C!ReceiveApdu(capacity)
<1> USE DEF C!CodecStatus, Client!CodecStatus, C!MapLlcStatus, Client!MapLlcStatus,
     C!MapHdlcStatus, Client!MapHdlcStatus, C!LlcHeader, Client!LlcHeader,
     C!Parameters, Client!Parameters, C!UFrame, Client!UFrame, C!UIFrame,
     Client!UIFrame, C!NewSession, Client!NewSession, C!InState, Client!InState,
     C!Refusal, Client!Refusal, C!Accepted, Client!Accepted, C!Refused,
     Client!Refused, C!Distance, Client!Distance, C!CanSendInformationFrame,
     Client!CanSendInformationFrame, C!AcksSentFrame, Client!AcksSentFrame,
     C!BuildConnectRequest, Client!BuildConnectRequest, C!BuildConnectResponse,
     Client!BuildConnectResponse, C!BuildDisconnectRequest,
     Client!BuildDisconnectRequest, C!BuildInformationFrame,
     Client!BuildInformationFrame, C!IFrame, Client!IFrame, C!RRFrame,
     Client!RRFrame, C!BuildReceiveReadyFrame, Client!BuildReceiveReadyFrame,
     C!Unexpected, Client!Unexpected, C!ReceiveInformation,
     Client!ReceiveInformation, C!ReceiveReady, Client!ReceiveReady,
     C!ReceiveFrame, Client!ReceiveFrame, C!Pushed, Client!Pushed, C!PushFrame,
     Client!PushFrame, C!EncodeLpdu, Client!EncodeLpdu, C!DecodeLpduStatuses,
     Client!DecodeLpduStatuses, C!DecodeLpdu, Client!DecodeLpdu, C!stream,
     Client!stream, C!buffers, Client!buffers, C!NoFrame, Client!NoFrame,
     C!Returned, Client!Returned, C!Idle, Client!Idle, C!Return, Client!Return,
     C!Enter, Client!Enter, C!Goto, Client!Goto, C!StartWrite, Client!StartWrite,
     C!Undecoded, Client!Undecoded, C!ResetDecoder, Client!ResetDecoder,
     C!WriteAll, Client!WriteAll, C!WriteFails, Client!WriteFails, C!NextFrame,
     Client!NextFrame, C!FrameDecoded, Client!FrameDecoded, C!NoFrameDecoded,
     Client!NoFrameDecoded, C!ReadStatuses, Client!ReadStatuses,
     C!IsRetriableReceiveStatus, Client!IsRetriableReceiveStatus, C!LinkStatus,
     Client!LinkStatus, C!EnsuredSession, Client!EnsuredSession, C!EnsureSession,
     Client!EnsureSession, C!Refuse, Client!Refuse, C!ConnectDataLink,
     Client!ConnectDataLink, C!AcceptDataLink, Client!AcceptDataLink,
     C!ConnectAnswer, Client!ConnectAnswer, C!AwaitConnectRequest,
     Client!AwaitConnectRequest, C!DisconnectDataLink, Client!DisconnectDataLink,
     C!BuildFrameStatus, Client!BuildFrameStatus, C!SendStatus, Client!SendStatus,
     C!SendApdu, Client!SendApdu, C!AwaitWindow, Client!AwaitWindow, C!ChunkSize,
     Client!ChunkSize, C!ChunkFrame, Client!ChunkFrame,
     C!BuildSessionInformationFrame, Client!BuildSessionInformationFrame,
     C!AfterWrite, Client!AfterWrite, C!WriteFrameBytes, Client!WriteFrameBytes,
     C!AfterAnswer, Client!AfterAnswer, C!AfterNoAnswer, Client!AfterNoAnswer,
     C!ReceiveSessionControlFrameWithRetry,
     Client!ReceiveSessionControlFrameWithRetry, C!SleepBeforeRetry,
     Client!SleepBeforeRetry, C!ReceiveApdu, Client!ReceiveApdu, C!DecodeStatuses,
     Client!DecodeStatuses, C!QueueApdu, Client!QueueApdu, C!ReassemblyLimit,
     Client!ReassemblyLimit, C!NoApdu, Client!NoApdu, C!ReceiveUnnumbered,
     Client!ReceiveUnnumbered, C!SendReceiveReady, Client!SendReceiveReady,
     C!ReceiveLpdu, Client!ReceiveLpdu, C!ReceiveCompleted,
     Client!ReceiveCompleted, C!ReceiveNumbered, Client!ReceiveNumbered,
     C!NeedsApdu, Client!NeedsApdu, C!ReceiveNextApdu, Client!ReceiveNextApdu,
     C!TakeIf, Client!TakeIf, C!CopyFirstPendingApdu, Client!CopyFirstPendingApdu
<1>1. Client!Step => C!Step
  BY Zenon DEF C!Step, Client!Step
<1>2. Client!ConnectDataLink => C!ConnectDataLink
  BY Zenon
<1>3. Client!DisconnectDataLink => C!DisconnectDataLink
  BY Zenon
<1>4. \A apdu : Client!SendApdu(apdu) => C!SendApdu(apdu)
  BY Zenon
<1>5. \A capacity : Client!ReceiveApdu(capacity) => C!ReceiveApdu(capacity)
  BY Zenon
<1>6. QED
  BY <1>1, <1>2, <1>3, <1>4, <1>5

(* Server and S likewise.                                                  *)
LEMMA ServerActions ==
  /\ Server!Step => S!Step
  /\ Server!AcceptDataLink => S!AcceptDataLink
  /\ \A apdu : Server!SendApdu(apdu) => S!SendApdu(apdu)
  /\ \A capacity : Server!ReceiveApdu(capacity) => S!ReceiveApdu(capacity)
<1> USE DEF S!CodecStatus, Server!CodecStatus, S!MapLlcStatus, Server!MapLlcStatus,
     S!MapHdlcStatus, Server!MapHdlcStatus, S!LlcHeader, Server!LlcHeader,
     S!Parameters, Server!Parameters, S!UFrame, Server!UFrame, S!UIFrame,
     Server!UIFrame, S!NewSession, Server!NewSession, S!InState, Server!InState,
     S!Refusal, Server!Refusal, S!Accepted, Server!Accepted, S!Refused,
     Server!Refused, S!Distance, Server!Distance, S!CanSendInformationFrame,
     Server!CanSendInformationFrame, S!AcksSentFrame, Server!AcksSentFrame,
     S!BuildConnectRequest, Server!BuildConnectRequest, S!BuildConnectResponse,
     Server!BuildConnectResponse, S!BuildDisconnectRequest,
     Server!BuildDisconnectRequest, S!BuildInformationFrame,
     Server!BuildInformationFrame, S!IFrame, Server!IFrame, S!RRFrame,
     Server!RRFrame, S!BuildReceiveReadyFrame, Server!BuildReceiveReadyFrame,
     S!Unexpected, Server!Unexpected, S!ReceiveInformation,
     Server!ReceiveInformation, S!ReceiveReady, Server!ReceiveReady,
     S!ReceiveFrame, Server!ReceiveFrame, S!Pushed, Server!Pushed, S!PushFrame,
     Server!PushFrame, S!EncodeLpdu, Server!EncodeLpdu, S!DecodeLpduStatuses,
     Server!DecodeLpduStatuses, S!DecodeLpdu, Server!DecodeLpdu, S!stream,
     Server!stream, S!buffers, Server!buffers, S!NoFrame, Server!NoFrame,
     S!Returned, Server!Returned, S!Idle, Server!Idle, S!Return, Server!Return,
     S!Enter, Server!Enter, S!Goto, Server!Goto, S!StartWrite, Server!StartWrite,
     S!Undecoded, Server!Undecoded, S!ResetDecoder, Server!ResetDecoder,
     S!WriteAll, Server!WriteAll, S!WriteFails, Server!WriteFails, S!NextFrame,
     Server!NextFrame, S!FrameDecoded, Server!FrameDecoded, S!NoFrameDecoded,
     Server!NoFrameDecoded, S!ReadStatuses, Server!ReadStatuses,
     S!IsRetriableReceiveStatus, Server!IsRetriableReceiveStatus, S!LinkStatus,
     Server!LinkStatus, S!EnsuredSession, Server!EnsuredSession, S!EnsureSession,
     Server!EnsureSession, S!Refuse, Server!Refuse, S!ConnectDataLink,
     Server!ConnectDataLink, S!AcceptDataLink, Server!AcceptDataLink,
     S!ConnectAnswer, Server!ConnectAnswer, S!AwaitConnectRequest,
     Server!AwaitConnectRequest, S!DisconnectDataLink, Server!DisconnectDataLink,
     S!BuildFrameStatus, Server!BuildFrameStatus, S!SendStatus, Server!SendStatus,
     S!SendApdu, Server!SendApdu, S!AwaitWindow, Server!AwaitWindow, S!ChunkSize,
     Server!ChunkSize, S!ChunkFrame, Server!ChunkFrame,
     S!BuildSessionInformationFrame, Server!BuildSessionInformationFrame,
     S!AfterWrite, Server!AfterWrite, S!WriteFrameBytes, Server!WriteFrameBytes,
     S!AfterAnswer, Server!AfterAnswer, S!AfterNoAnswer, Server!AfterNoAnswer,
     S!ReceiveSessionControlFrameWithRetry,
     Server!ReceiveSessionControlFrameWithRetry, S!SleepBeforeRetry,
     Server!SleepBeforeRetry, S!ReceiveApdu, Server!ReceiveApdu, S!DecodeStatuses,
     Server!DecodeStatuses, S!QueueApdu, Server!QueueApdu, S!ReassemblyLimit,
     Server!ReassemblyLimit, S!NoApdu, Server!NoApdu, S!ReceiveUnnumbered,
     Server!ReceiveUnnumbered, S!SendReceiveReady, Server!SendReceiveReady,
     S!ReceiveLpdu, Server!ReceiveLpdu, S!ReceiveCompleted,
     Server!ReceiveCompleted, S!ReceiveNumbered, Server!ReceiveNumbered,
     S!NeedsApdu, Server!NeedsApdu, S!ReceiveNextApdu, Server!ReceiveNextApdu,
     S!TakeIf, Server!TakeIf, S!CopyFirstPendingApdu, Server!CopyFirstPendingApdu
<1>1. Server!Step => S!Step
  BY Zenon DEF S!Step, Server!Step
<1>2. Server!AcceptDataLink => S!AcceptDataLink
  BY Zenon
<1>3. \A apdu : Server!SendApdu(apdu) => S!SendApdu(apdu)
  BY Zenon
<1>4. \A capacity : Server!ReceiveApdu(capacity) => S!ReceiveApdu(capacity)
  BY Zenon
<1>5. QED
  BY <1>1, <1>2, <1>3, <1>4

-----------------------------------------------------------------------------
(* Both channels and the wires have their types.                           *)

Sequence(s) == \E T : s \in Seq(T)

LinkOK ==
  /\ C!ChannelOK /\ S!ChannelOK
  /\ connects \in Nat
  /\ sGot \in Seq(S!Information) /\ Sequence(cSent) /\ Sequence(sSent)

(* Both ends write and read the same frames.                               *)
LEMMA SameFrames == C!Frame = S!Frame /\ C!Information = S!Information
BY DEF C!Frame, S!Frame, C!SeqNumbers, S!SeqNumbers, C!Information, S!Information,
   C!LlcHeader, S!LlcHeader, C!Parameters, S!Parameters

(* What one channel writes and reads leaves the other one its type.        *)
LEMMA ServerIsFed ==
  ASSUME S!ChannelOK, UNCHANGED sVars, c2s' \in Seq(C!Frame), s2c' \in Seq(C!Frame),
         sPartial => c2s' # <<>>
  PROVE  S!ChannelOK'
BY SameFrames DEF sVars, S!ChannelOK, S!ReadOK, S!CallOK

LEMMA ClientIsFed ==
  ASSUME C!ChannelOK, UNCHANGED cVars, c2s' \in Seq(C!Frame), s2c' \in Seq(C!Frame),
         cPartial => s2c' # <<>>
  PROVE  C!ChannelOK'
BY SameFrames DEF cVars, C!ChannelOK, C!ReadOK, C!CallOK

(* A wire on which a frame is written is not empty afterwards.             *)
LEMMA StillThere ==
  ASSUME NEW T, NEW s \in Seq(T), s # <<>>, NEW r,
         r = s \/ \E f \in T : r = Append(s, f)
  PROVE  r # <<>>
BY AppendProperties

(* A log stays a sequence, whatever is appended to it.                     *)
LEMMA LogIsSequence ==
  ASSUME NEW log, Sequence(log), NEW x
  PROVE  Sequence(Append(log, x)) /\ Append(log, x) # <<>>
<1>1. PICK T : log \in Seq(T)
  BY DEF Sequence
<1>2. log \in Seq(T \cup {x})
  BY <1>1, SeqMonotonic
<1>3. Append(log, x) \in Seq(T \cup {x}) /\ Append(log, x) # <<>>
  BY <1>2, AppendProperties
<1>4. QED
  BY <1>3 DEF Sequence

ClientCallOrStep ==
  \/ C!Step \/ C!ConnectDataLink \/ C!DisconnectDataLink
  \/ (\E i \in 1..Len(ClientApdus) : C!SendApdu(ClientApdus[i]))
  \/ C!ReceiveApdu(AnyCapacity)

ServerCallOrStep ==
  \/ S!Step \/ S!AcceptDataLink
  \/ (\E i \in 1..Len(ServerApdus) : S!SendApdu(ServerApdus[i]))
  \/ S!ReceiveApdu(AnyCapacity)

(* A step or a call of the client keeps the types of both channels.        *)
LEMMA ClientKeepsType ==
  ASSUME LinkOK, ClientCallOrStep, UNCHANGED sVars
  PROVE  C!ChannelOK' /\ S!ChannelOK'
<1>1. C!ChannelOK'
  <2>1. \A i \in 1..Len(ClientApdus) : ClientApdus[i] \in Seq(Octets)
    BY LinkAssumption, ElementOfSeq DEF LinkAssumption
  <2>2. CASE \E i \in 1..Len(ClientApdus) : C!SendApdu(ClientApdus[i])
    BY <2>1, <2>2, C!SendKeepsType, EndAssumptions DEF LinkOK
  <2>3. CASE C!ReceiveApdu(AnyCapacity)
    BY <2>3, C!ReceiveCallKeepsType, EndAssumptions DEF LinkOK
  <2>4. QED
    BY <2>2, <2>3, C!StepKeepsType, C!ConnectKeepsType, C!DisconnectKeepsType,
       EndAssumptions DEF LinkOK, ClientCallOrStep
<1>2. C!OnlyWrites
  BY C!ChannelOnlyWrites, EndAssumptions DEF LinkOK, ClientCallOrStep, C!DataLinkCall
<1>3. c2s \in Seq(C!Frame) /\ c2s' \in Seq(C!Frame) /\ s2c' \in Seq(C!Frame)
  BY <1>1 DEF C!ChannelOK, C!ReadOK, LinkOK
<1>4. sPartial => c2s' # <<>>
  <2>1. sPartial => c2s # <<>>
    BY DEF LinkOK, S!ChannelOK, S!ReadOK
  <2>2. c2s' = c2s \/ \E f \in C!Frame : c2s' = Append(c2s, f)
    BY <1>2 DEF C!OnlyWrites
  <2>3. QED
    BY <1>3, <2>1, <2>2, StillThere
<1>5. S!ChannelOK'
  BY <1>3, <1>4, ServerIsFed DEF LinkOK
<1>6. QED
  BY <1>1, <1>5

(* A step or a call of the server keeps the types of both channels.        *)
LEMMA ServerKeepsType ==
  ASSUME LinkOK, ServerCallOrStep, UNCHANGED cVars
  PROVE  S!ChannelOK' /\ C!ChannelOK'
<1>1. S!ChannelOK'
  <2>1. \A i \in 1..Len(ServerApdus) : ServerApdus[i] \in Seq(Octets)
    BY LinkAssumption, ElementOfSeq DEF LinkAssumption
  <2>2. CASE \E i \in 1..Len(ServerApdus) : S!SendApdu(ServerApdus[i])
    BY <2>1, <2>2, S!SendKeepsType, EndAssumptions DEF LinkOK
  <2>3. CASE S!ReceiveApdu(AnyCapacity)
    BY <2>3, S!ReceiveCallKeepsType, EndAssumptions DEF LinkOK
  <2>4. QED
    BY <2>2, <2>3, S!StepKeepsType, S!AcceptKeepsType, EndAssumptions
       DEF LinkOK, ServerCallOrStep
<1>2. S!OnlyWrites
  BY S!ChannelOnlyWrites, EndAssumptions DEF LinkOK, ServerCallOrStep, S!DataLinkCall
<1>3. s2c \in Seq(C!Frame) /\ c2s' \in Seq(C!Frame) /\ s2c' \in Seq(C!Frame)
  BY <1>1, SameFrames DEF S!ChannelOK, S!ReadOK, C!ChannelOK, C!ReadOK, LinkOK
<1>4. cPartial => s2c' # <<>>
  <2>1. cPartial => s2c # <<>>
    BY DEF LinkOK, C!ChannelOK, C!ReadOK
  <2>2. s2c' = s2c \/ \E f \in C!Frame : s2c' = Append(s2c, f)
    BY <1>2, SameFrames DEF S!OnlyWrites
  <2>3. QED
    BY <1>3, <2>1, <2>2, StillThere
<1>5. C!ChannelOK'
  BY <1>3, <1>4, ClientIsFed DEF LinkOK
<1>6. QED
  BY <1>1, <1>5

(* A step of either side is a step of its channel, and the other side      *)
(* stays as it is.                                                         *)
LEMMA ClientMoves ==
  ASSUME LinkOK, ClientNext
  PROVE  /\ ClientCallOrStep /\ UNCHANGED <<sVars, sSent, sGot>>
         /\ connects' \in {connects, connects + 1}
<1>1. UNCHANGED <<sVars, sSent, sGot>>
  BY DEF ClientNext, ClientLog
<1>2. CASE ClientConnects
  BY <1>1, <1>2, ClientActions DEF ClientConnects, ClientCallOrStep
<1>3. CASE ClientDisconnects
  BY <1>1, <1>3, ClientActions DEF ClientDisconnects, ClientCallOrStep
<1>4. CASE ClientSends
  <2>1. Len(cSent) \in Nat
    BY LenProperties DEF LinkOK, Sequence
  <2>2. Len(ClientApdus) \in Nat
    BY LinkAssumption, LenProperties DEF LinkAssumption
  <2>3. Len(cSent) + 1 \in 1..Len(ClientApdus)
    BY <1>4, <2>1, <2>2 DEF ClientSends
  <2>4. QED
    BY <1>1, <1>4, <2>3, ClientActions DEF ClientSends, ClientCallOrStep
<1>5. CASE ClientReceives
  BY <1>1, <1>5, ClientActions DEF ClientReceives, ClientCallOrStep
<1>6. CASE ClientStep
  BY <1>1, <1>6, ClientActions DEF ClientStep, ClientCallOrStep
<1>7. QED
  BY <1>2, <1>3, <1>4, <1>5, <1>6 DEF ClientNext

LEMMA ServerMoves ==
  ASSUME LinkOK, ServerNext
  PROVE  /\ ServerCallOrStep /\ UNCHANGED <<cVars, connects, cSent, cGot>>
<1>1. UNCHANGED <<cVars, connects, cSent, cGot>>
  BY DEF ServerNext, ServerLog
<1>2. CASE ServerAccepts
  BY <1>1, <1>2, ServerActions DEF ServerAccepts, ServerCallOrStep
<1>3. CASE ServerSends
  <2>1. Len(sSent) \in Nat
    BY LenProperties DEF LinkOK, Sequence
  <2>2. Len(ServerApdus) \in Nat
    BY LinkAssumption, LenProperties DEF LinkAssumption
  <2>3. Len(sSent) + 1 \in 1..Len(ServerApdus)
    BY <1>3, <2>1, <2>2 DEF ServerSends
  <2>4. QED
    BY <1>1, <1>3, <2>3, ServerActions DEF ServerSends, ServerCallOrStep
<1>4. CASE ServerReceives
  BY <1>1, <1>4, ServerActions DEF ServerReceives, ServerCallOrStep
<1>5. CASE Server!Step
  BY <1>1, <1>5, ServerActions DEF ServerCallOrStep
<1>6. QED
  BY <1>2, <1>3, <1>4, <1>5 DEF ServerNext

(* A lost frame is cut out of its wire, and is not the one half read.      *)
LEMMA LostFrame ==
  ASSUME NEW T, NEW wire \in Seq(T), NEW i \in 1..Len(wire)
  PROVE  /\ Without(wire, i) \in Seq(T) /\ Len(Without(wire, i)) = Len(wire) - 1
         /\ \A j \in 1..Len(Without(wire, i)) :
              Without(wire, i)[j] = wire[IF j < i THEN j ELSE j + 1]
         /\ i # 1 => Without(wire, i) # <<>>
<1> DEFINE before == SubSeq(wire, 1, i - 1)
           after == SubSeq(wire, i + 1, Len(wire))
<1>1. Len(wire) \in Nat
  BY LenProperties
<1>2. before \in Seq(T) /\ Len(before) = i - 1 /\ \A j \in 1..(i - 1) : before[j] = wire[j]
  BY <1>1, SubSeqProperties
<1>3. /\ after \in Seq(T) /\ Len(after) = Len(wire) - i
      /\ \A j \in 1..(Len(wire) - i) : after[j] = wire[i + j]
  <2>1. CASE i = Len(wire)
    BY <1>1, <2>1, SubSeqProperties
  <2>2. CASE i < Len(wire)
    BY <1>1, <2>2, SubSeqProperties
  <2>3. QED
    BY <1>1, <2>1, <2>2
<1> HIDE DEF before, after
<1>4. /\ before \o after \in Seq(T) /\ Len(before \o after) = Len(wire) - 1
      /\ \A j \in 1..(Len(wire) - 1) :
           (before \o after)[j] = IF j <= i - 1 THEN before[j] ELSE after[j - (i - 1)]
  <2>1. /\ before \o after \in Seq(T) /\ Len(before \o after) = Len(before) + Len(after)
        /\ \A j \in 1..(Len(before) + Len(after)) :
             (before \o after)[j] = IF j <= Len(before) THEN before[j] ELSE after[j - Len(before)]
    BY <1>2, <1>3, ConcatProperties
  <2>2. Len(before) + Len(after) = Len(wire) - 1
    BY <1>1, <1>2, <1>3
  <2>3. QED
    BY <1>2, <2>1, <2>2
<1>5. \A j \in 1..(Len(wire) - 1) :
        (before \o after)[j] = wire[IF j < i THEN j ELSE j + 1]
  <2> TAKE j \in 1..(Len(wire) - 1)
  <2>1. CASE j < i
    BY <1>1, <1>2, <1>4, <2>1
  <2>2. CASE ~(j < i)
    <3>1. j - (i - 1) \in 1..(Len(wire) - i) /\ i + (j - (i - 1)) = j + 1
      BY <1>1, <2>2
    <3>2. QED
      BY <1>1, <1>3, <1>4, <2>2, <3>1
  <2>3. QED
    BY <2>1, <2>2
<1>6. i # 1 => before \o after # <<>>
  BY <1>1, <1>4
<1>7. Without(wire, i) = before \o after
  BY DEF Without, before, after
<1>8. QED
  BY <1>4, <1>5, <1>6, <1>7

(* The loss of a frame keeps the types.                                    *)
LEMMA LossKeepsType ==
  ASSUME LinkOK, LoseFrame
  PROVE  LinkOK'
<1>1. c2s \in Seq(C!Frame) /\ s2c \in Seq(C!Frame)
  BY SameFrames DEF LinkOK, C!ChannelOK, C!ReadOK
<1>2. UNCHANGED <<cVars, sVars, connects, cSent, sSent, cGot, sGot>>
  BY DEF LoseFrame
<1>3. /\ c2s' \in Seq(C!Frame) /\ s2c' \in Seq(C!Frame)
      /\ sPartial => c2s' # <<>>
      /\ cPartial => s2c' # <<>>
  <2>1. (sPartial => c2s # <<>>) /\ (cPartial => s2c # <<>>)
    BY DEF LinkOK, C!ChannelOK, C!ReadOK, S!ChannelOK, S!ReadOK
  <2>2. CASE UNCHANGED s2c /\ \E i \in 1..Len(c2s) : ~(i = 1 /\ sPartial) /\ c2s' = Without(c2s, i)
    BY <1>1, <2>1, <2>2, LostFrame
  <2>3. CASE UNCHANGED c2s /\ \E i \in 1..Len(s2c) : ~(i = 1 /\ cPartial) /\ s2c' = Without(s2c, i)
    BY <1>1, <2>1, <2>3, LostFrame
  <2>4. QED
    BY <2>2, <2>3 DEF LoseFrame
<1>4. C!ChannelOK' /\ S!ChannelOK'
  BY <1>2, <1>3, ServerIsFed, ClientIsFed DEF LinkOK
<1>5. QED
  BY <1>2, <1>4 DEF LinkOK, Sequence

(* What the server has taken is a sequence.                                *)
LEMMA TakenAreApdus ==
  ASSUME LinkOK
  PROVE  sPendingApdus \in Seq(S!Information) /\ TakenByServer \in Seq(S!Information)
<1>1. sPendingApdus \in Seq(S!Information) /\ sGot \in Seq(S!Information)
  BY DEF LinkOK, S!ChannelOK
<1>2. QED
  BY <1>1, ConcatProperties DEF TakenByServer

(* LinkOK is inductive.                                                    *)
LEMMA LinkKeepsType ==
  ASSUME LinkOK, [Next]_vars
  PROVE  LinkOK'
<1>1. CASE ClientNext
  <2>1. C!ChannelOK' /\ S!ChannelOK'
    BY <1>1, ClientMoves, ClientKeepsType
  <2>2. connects' \in Nat /\ sGot' = sGot /\ sSent' = sSent
    BY <1>1, ClientMoves DEF LinkOK
  <2>3. Sequence(cSent)'
    <3>1. \/ cSent' = cSent
          \/ \E x : cSent' = Append(cSent, x)
      BY <1>1 DEF ClientNext, ClientLog, SentLog
    <3>2. QED
      BY <3>1, LogIsSequence DEF LinkOK, Sequence
  <2>4. QED
    BY <2>1, <2>2, <2>3 DEF LinkOK, Sequence
<1>2. CASE ServerNext
  <2>1. C!ChannelOK' /\ S!ChannelOK'
    BY <1>2, ServerMoves, ServerKeepsType
  <2>2. connects' \in Nat /\ cSent' = cSent
    BY <1>2, ServerMoves DEF LinkOK
  <2>3. sGot' \in Seq(S!Information)
    <3>1. sGot \in Seq(S!Information) /\ sPendingApdus \in Seq(S!Information)
      BY TakenAreApdus DEF LinkOK
    <3>2. \/ sGot' = sGot
          \/ sPendingApdus # <<>> /\ sGot' = Append(sGot, Head(sPendingApdus))
      BY <1>2 DEF ServerNext, ServerLog, GotLog
    <3>3. sPendingApdus # <<>> => Head(sPendingApdus) \in S!Information
      BY <3>1, HeadTailProperties
    <3>4. QED
      BY <3>1, <3>2, <3>3, AppendProperties
  <2>4. Sequence(sSent)'
    <3>1. \/ sSent' = sSent
          \/ \E x : sSent' = Append(sSent, x)
      BY <1>2 DEF ServerNext, ServerLog, SentLog
    <3>2. QED
      BY <3>1, LogIsSequence DEF LinkOK, Sequence
  <2>5. QED
    BY <2>1, <2>2, <2>3, <2>4 DEF LinkOK, Sequence
<1>3. CASE LoseFrame
  BY <1>3, LossKeepsType
<1>4. CASE UNCHANGED vars
  <2>1. UNCHANGED <<c2s, s2c, cVars, sVars, connects, cSent, sSent, sGot>>
    BY <1>4 DEF vars
  <2>2. /\ c2s' \in Seq(C!Frame) /\ s2c' \in Seq(C!Frame)
        /\ sPartial => c2s' # <<>>
        /\ cPartial => s2c' # <<>>
    BY <2>1, SameFrames DEF LinkOK, C!ChannelOK, C!ReadOK, S!ChannelOK, S!ReadOK
  <2>3. C!ChannelOK' /\ S!ChannelOK'
    BY <2>1, <2>2, ServerIsFed, ClientIsFed DEF LinkOK
  <2>4. QED
    BY <2>1, <2>3 DEF LinkOK, Sequence
<1>5. QED
  BY <1>1, <1>2, <1>3, <1>4 DEF Next

(* LinkOK holds at the start.                                              *)
LEMMA LinkStartsTyped ==
  ASSUME Init
  PROVE  LinkOK
<1>1. C!ReadOK /\ S!ReadOK
  <2>1. <<>> \in Seq(C!Frame) /\ <<>> \in Seq(S!Frame)
    OBVIOUS
  <2>2. QED
    BY <2>1 DEF Init, C!ReadOK, S!ReadOK
<1>2. C!CallOK /\ S!CallOK
  <2>1. cCall = C!Returned("Open", "Ok") /\ sCall = S!Returned("Open", "Ok")
    BY DEF Init, Client!Returned, Server!Returned, C!Returned, S!Returned, Client!NoFrame,
       Server!NoFrame, C!NoFrame, S!NoFrame, Client!UFrame, Server!UFrame, C!UFrame, S!UFrame
  <2>2. "Open" \in C!Operations /\ "Open" \in S!Operations
    BY DEF C!Operations, S!Operations
  <2>3. "Ok" \in C!Statuses /\ "Ok" \in S!Statuses
    BY DEF C!Statuses, S!Statuses, C!ProfileStatus, S!ProfileStatus
  <2>4. cCall \in C!Call /\ sCall \in S!Call
    BY <2>1, <2>2, <2>3, C!ReturnedCall, S!ReturnedCall, EndAssumptions
  <2>5. QED
    BY <2>4 DEF Init, C!CallOK, S!CallOK
<1>3. cSession \in C!Session /\ sSession \in S!Session
  BY EndAssumptions DEF Init, Client!NewSession, Server!NewSession, C!Session, S!Session,
     C!SeqNumbers, S!SeqNumbers, C!SessionAssumption, S!SessionAssumption
<1>4. <<>> \in C!Reassembly /\ <<>> \in S!Reassembly
  BY DEF C!Reassembly, S!Reassembly
<1>5. Sequence(<<>>)
  <2>1. <<>> \in Seq({})
    OBVIOUS
  <2>2. QED
    BY <2>1 DEF Sequence
<1>6. QED
  BY <1>1, <1>2, <1>3, <1>4, <1>5 DEF Init, LinkOK, C!ChannelOK, S!ChannelOK

-----------------------------------------------------------------------------
(* The frames on the wires.  Up and Down are the frames that the server    *)
(* and the client have not decided about; vs and va are those of the       *)
(* client, the server builds no I-frame.                                   *)

Up == S!Incoming
Down == C!Incoming

Newest == cSent[Len(cSent)]
AllTaken == TakenByServer = cSent

(* The I-frame of the newest APDU, or its first segment.                   *)
NewFrame(f) ==
  /\ f.kind = "I" /\ f.nr = 0 /\ cSent # <<>>
  /\ (f.ns + 1) % SeqModulus = cSession.vs
  /\ f.segmented = ~C!Whole(Newest)
  /\ C!Whole(Newest) => f.information = C!EncodeLpdu(Newest)

(* A copy of the last I-frame that was acknowledged.                       *)
OldFrame(f) ==
  f.kind = "I" /\ f.nr = 0 /\ ~f.segmented /\ (f.ns + 1) % SeqModulus = cSession.va

SetUp(f) == f.kind = "SNRM" /\ f.information = <<C!Parameters>>

UpFrame(f) ==
  \/ SetUp(f) /\ TakenByServer = <<>> /\ cSession.va = 0
  \/ OldFrame(f) /\ ~AllTaken
  \/ NewFrame(f)

(* Copies of SNRM go before I-frames, and old I-frames before new ones.    *)
UpInv ==
  /\ \A i \in 1..Len(Up) : UpFrame(Up[i])
  /\ \A i, j \in 1..Len(Up) : i < j =>
       (SetUp(Up[j]) => SetUp(Up[i])) /\ (NewFrame(Up[i]) => NewFrame(Up[j]))

(* The acknowledgement of all that was built, and not heard yet.           *)
Ack(f) ==
  /\ f.kind = "RR" /\ f.nr = cSession.vs /\ f.information = <<>>
  /\ cSession.va # cSession.vs /\ AllTaken

(* At most one acknowledgement is under way or about to be written.        *)
DownInv ==
  /\ \A i \in 1..Len(Down) : Down[i].kind = "UA" \/ Ack(Down[i])
  /\ \A i, j \in 1..Len(Down) : i < j => Down[i].kind = "UA" \/ Down[j].kind = "UA"
  /\ sCall.frame.kind = "RR" =>
       Ack(sCall.frame) /\ \A i \in 1..Len(Down) : Down[i].kind = "UA"

(* The server has all that was sent, or all but the newest APDU, of which  *)
(* the I-frame is then not acknowledged.                                   *)
Progress ==
  \/ /\ AllTaken
     /\ cSent # <<>> => C!Whole(Newest)
     /\ cSent = <<>> => cSession.vs = 0 /\ cSession.va = 0
  \/ /\ cSent # <<>> /\ cSent = Append(TakenByServer, Newest)
     /\ cSession.vs = (cSession.va + 1) % SeqModulus

SentFits ==
  cSent \in Seq(Seq(Octets)) /\ (cSent # <<>> => C!Fits(Newest))

(* V(R) of the server is V(S) of the client or the number before it, and   *)
(* only segments of the newest APDU are gathered.                          *)
ServerFollows ==
  /\ sSession.state = "Connected" =>
       sSession.vr = IF AllTaken THEN cSession.vs ELSE cSession.va
  /\ sSegments # <<>> =>
       ~AllTaken /\ ~C!Whole(Newest) /\ \A i \in 1..Len(Up) : NewFrame(Up[i])

Line == SentFits /\ Progress /\ UpInv /\ DownInv /\ ServerFollows

(* The frames under way and the sequence variables are in range.           *)
LEMMA LineTypes ==
  ASSUME LinkOK
  PROVE  /\ Up \in Seq(S!Frame) /\ Down \in Seq(C!Frame)
         /\ cSession.vs \in C!SeqNumbers /\ cSession.va \in C!SeqNumbers
         /\ sSession.vr \in C!SeqNumbers
         /\ C!SeqNumbers = S!SeqNumbers
<1>1. Up \in Seq(S!Frame) /\ Down \in Seq(C!Frame)
  BY C!IncomingFrames, S!IncomingFrames, EndAssumptions
     DEF LinkOK, C!ChannelOK, S!ChannelOK, Up, Down
<1>2. C!SeqNumbers = S!SeqNumbers
  BY DEF C!SeqNumbers, S!SeqNumbers
<1>3. QED
  BY <1>1, <1>2 DEF LinkOK, C!ChannelOK, S!ChannelOK, C!Session, S!Session

(* The APDUs that were sent, one more than the server took.                *)
LEMMA OneMoreIsNotTaken ==
  ASSUME LinkOK, cSent = Append(TakenByServer, Newest)
  PROVE  ~AllTaken
<1>1. Len(TakenByServer) \in Nat /\ Len(cSent) = Len(TakenByServer) + 1
  BY TakenAreApdus, AppendProperties
<1>2. QED
  BY <1>1 DEF AllTaken

(* The newest APDU was accepted by SendApdu.                               *)
LEMMA NewestIsApdu ==
  ASSUME SentFits, cSent # <<>>
  PROVE  Newest \in Seq(Octets) /\ C!Fits(Newest)
<1>1. cSent \in Seq(Seq(Octets)) /\ Len(cSent) \in Nat
  BY LenProperties DEF SentFits
<1>2. Len(cSent) \in 1..Len(cSent)
  BY <1>1, EmptySeq
<1>3. cSent[Len(cSent)] \in Seq(Octets)
  BY <1>1, <1>2, ElementOfSeq
<1>4. QED
  BY <1>3 DEF Newest, SentFits

(* While an acknowledgement is not heard yet, all frames to the server are *)
(* copies of the frame it acknowledges.                                    *)
LEMMA UnheardIsNew ==
  ASSUME LinkOK, Line, cSession.va # cSession.vs, AllTaken
  PROVE  /\ cSent # <<>> /\ C!Whole(Newest)
         /\ \A i \in 1..Len(Up) : NewFrame(Up[i])
<1>1. cSent # <<>> /\ C!Whole(Newest)
  BY OneMoreIsNotTaken DEF Line, Progress
<1>2. QED
  BY <1>1 DEF Line, UpInv, UpFrame, AllTaken

(* Frames are lost, and the server may drop its session or its segments.   *)
LEMMA LineQuiet ==
  ASSUME LinkOK, LinkOK', Line,
         cSession'.vs = cSession.vs, cSession'.va = cSession.va, cSent' = cSent,
         TakenByServer' = TakenByServer,
         S!Thinned(Up, Up'), C!Thinned(Down, Down'),
         sSession' = sSession \/ sSession'.state # "Connected",
         sSegments' \in {sSegments, <<>>},
         sCall'.frame.kind = "RR" => sCall'.frame = sCall.frame
  PROVE  Line'
<1>1. (AllTaken' <=> AllTaken) /\ Newest' = Newest
  BY DEF AllTaken, Newest
<1>2. SentFits' /\ Progress'
  BY <1>1 DEF Line, SentFits, Progress
<1>3. PICK g \in [1..Len(Up') -> 1..Len(Up)] :
        /\ \A i \in 1..Len(Up') : Up'[i] = Up[g[i]]
        /\ \A i, j \in 1..Len(Up') : i < j => g[i] < g[j]
  BY DEF S!Thinned
<1>4. PICK h \in [1..Len(Down') -> 1..Len(Down)] :
        /\ \A i \in 1..Len(Down') : Down'[i] = Down[h[i]]
        /\ \A i, j \in 1..Len(Down') : i < j => h[i] < h[j]
  BY DEF C!Thinned
<1>5. UpInv'
  <2>1. \A f : NewFrame(f)' <=> NewFrame(f)
    BY <1>1 DEF NewFrame
  <2>2. \A f : SetUp(f)' <=> SetUp(f)
    BY DEF SetUp
  <2>3. \A f : UpFrame(f)' <=> UpFrame(f)
    BY <1>1, <2>1, <2>2 DEF UpFrame, OldFrame
  <2>4. \A i \in 1..Len(Up') : UpFrame(Up'[i])
    BY <1>3 DEF Line, UpInv
  <2>5. \A i, j \in 1..Len(Up') : i < j =>
          (SetUp(Up'[j]) => SetUp(Up'[i])) /\ (NewFrame(Up'[i]) => NewFrame(Up'[j]))
    BY <1>3 DEF Line, UpInv
  <2>6. QED
    BY <2>1, <2>2, <2>3, <2>4, <2>5 DEF UpInv
<1>6. DownInv'
  <2>1. \A i \in 1..Len(Down') : Down'[i].kind = "UA" \/ Ack(Down'[i])
    BY <1>4 DEF Line, DownInv
  <2>2. \A i, j \in 1..Len(Down') : i < j => Down'[i].kind = "UA" \/ Down'[j].kind = "UA"
    BY <1>4 DEF Line, DownInv
  <2>3. sCall'.frame.kind = "RR" =>
          Ack(sCall.frame) /\ \A i \in 1..Len(Down') : Down'[i].kind = "UA"
    BY <1>4 DEF Line, DownInv
  <2>4. \A f : Ack(f) => Ack(f)'
    BY <1>1 DEF Ack
  <2>5. QED
    BY <2>1, <2>2, <2>3, <2>4 DEF DownInv, Ack
<1>7. ServerFollows'
  BY <1>1, <1>3 DEF Line, ServerFollows, NewFrame
<1>8. QED
  BY <1>2, <1>5, <1>6, <1>7 DEF Line

(* The client hears the acknowledgement.                                   *)
LEMMA LineAck ==
  ASSUME LinkOK, LinkOK', Line,
         Down # <<>>, Head(Down).kind = "RR", Down' = Tail(Down), S!Thinned(Up, Up'),
         cSession' = [cSession EXCEPT !.va = cSession.vs], cSent' = cSent,
         TakenByServer' = TakenByServer, UNCHANGED <<sSession, sSegments, sCall>>
  PROVE  Line'
<1>1. /\ Len(Down) \in Nat \ {0} /\ Down[1] = Head(Down) /\ Len(Down') = Len(Down) - 1
      /\ \A i \in 1..Len(Down') : Down'[i] = Down[i + 1]
  BY LineTypes, EndAssumptions, C!FirstTaken
<1>2. Ack(Down[1])
  BY <1>1 DEF Line, DownInv
<1>3. cSent # <<>> /\ C!Whole(Newest) /\ \A i \in 1..Len(Up) : NewFrame(Up[i])
  BY <1>2, UnheardIsNew DEF Ack
<1>4. AllTaken /\ AllTaken' /\ Newest' = Newest /\ cSession'.vs = cSession.vs
      /\ cSession'.va = cSession.vs
  <2>1. cSession'.vs = cSession.vs /\ cSession'.va = cSession.vs
    BY DEF LinkOK, C!ChannelOK, C!Session
  <2>2. QED
    BY <1>2, <2>1 DEF Ack, AllTaken, Newest
<1>5. SentFits' /\ Progress'
  BY <1>3, <1>4 DEF Line, SentFits, Progress
<1>6. \A i \in 1..Len(Up') : NewFrame(Up'[i])
  BY <1>3 DEF S!Thinned
<1>7. \A f : NewFrame(f) => NewFrame(f)'
  BY <1>4 DEF NewFrame
<1>8. UpInv'
  <2>1. \A f : NewFrame(f) => ~SetUp(f)'
    BY DEF NewFrame, SetUp
  <2>2. \A f : NewFrame(f) => UpFrame(f)'
    BY <1>7 DEF UpFrame
  <2>3. QED
    BY <1>6, <1>7, <2>1, <2>2 DEF UpInv
<1>9. DownInv'
  <2>1. \A i \in 1..Len(Down') : Down'[i].kind = "UA"
    <3> TAKE i \in 1..Len(Down')
    <3>1. 1 \in 1..Len(Down) /\ i + 1 \in 1..Len(Down) /\ 1 < i + 1
      BY <1>1
    <3>2. Down[1].kind = "UA" \/ Down[i + 1].kind = "UA"
      BY <3>1 DEF Line, DownInv
    <3>3. QED
      BY <1>1, <1>2, <3>2 DEF Ack
  <2>2. sCall'.frame.kind # "RR"
    <3>1. 1 \in 1..Len(Down)
      BY <1>1
    <3>2. QED
      BY <1>1, <1>2, <3>1 DEF Line, DownInv, Ack
  <2>3. QED
    BY <2>1, <2>2 DEF DownInv
<1>10. ServerFollows'
  BY <1>4 DEF Line, ServerFollows
<1>11. QED
  BY <1>5, <1>8, <1>9, <1>10 DEF Line

(* The client builds the first I-frame of an APDU.                         *)
LEMMA LineBuilt ==
  ASSUME LinkOK, LinkOK', Line, cSession.va = cSession.vs,
         cSession' = [cSession EXCEPT !.vs = (@ + 1) % SeqModulus],
         NEW apdu \in Seq(Octets), C!Fits(apdu), cSent' = Append(cSent, apdu),
         Up' = Up, Down' = Down,
         TakenByServer' = TakenByServer, UNCHANGED <<sSession, sSegments, sCall>>
  PROVE  Line' /\ cSent' # <<>> /\ Newest' = apdu
<1>1. cSession'.vs = (cSession.vs + 1) % SeqModulus /\ cSession'.va = cSession.vs
  BY DEF LinkOK, C!ChannelOK, C!Session
<1>2. cSession'.vs # cSession.vs
  BY <1>1, LineTypes, EndAssumptions, C!NextDiffers
<1>3. AllTaken /\ (cSent # <<>> => C!Whole(Newest))
  <2>1. (cSession.va + 1) % SeqModulus # cSession.va
    BY LineTypes, EndAssumptions, C!NextDiffers
  <2>2. QED
    BY <2>1 DEF Line, Progress
<1>4. cSent \in Seq(Seq(Octets))
  BY DEF Line, SentFits
<1>5. cSent' \in Seq(Seq(Octets)) /\ cSent' # <<>> /\ Newest' = apdu
  BY <1>4, AppendProperties DEF Newest
<1>6. cSent' = Append(TakenByServer', Newest')
  BY <1>3, <1>5 DEF AllTaken
<1>7. ~AllTaken'
  <2>1. TakenByServer' = cSent /\ Len(cSent) \in Nat /\ Len(cSent') = Len(cSent) + 1
    BY <1>3, <1>4, AppendProperties, LenProperties DEF AllTaken
  <2>2. QED
    BY <2>1 DEF AllTaken
<1>8. SentFits' /\ Progress'
  BY <1>1, <1>5, <1>6 DEF SentFits, Progress
<1>9. \A i \in 1..Len(Up) :
        \/ SetUp(Up[i]) /\ TakenByServer = <<>> /\ cSession.va = 0
        \/ (Up[i].ns + 1) % SeqModulus = cSession.vs /\ OldFrame(Up[i])
  BY <1>3 DEF Line, UpInv, UpFrame, NewFrame, OldFrame
<1>10. \A i \in 1..Len(Up) : UpFrame(Up[i])'
  <2>1. \A f : SetUp(f)' <=> SetUp(f)
    BY DEF SetUp
  <2>2. \A f : OldFrame(f) => OldFrame(f)'
    BY <1>1 DEF OldFrame
  <2>3. QED
    BY <1>1, <1>7, <1>9, <2>1, <2>2 DEF UpFrame
<1>11. \A i \in 1..Len(Up) : ~NewFrame(Up[i])'
  BY <1>1, <1>2, <1>9 DEF NewFrame, SetUp
<1>12. UpInv'
  <2>1. \A f : SetUp(f)' <=> SetUp(f)
    BY DEF SetUp
  <2>2. QED
    BY <1>10, <1>11, <2>1 DEF Line, UpInv
<1>13. DownInv'
  BY DEF Line, DownInv, Ack
<1>14. ServerFollows'
  BY <1>1, <1>3, <1>7 DEF Line, ServerFollows
<1>15. QED
  BY <1>5, <1>8, <1>12, <1>13, <1>14 DEF Line

(* The client writes its frame.                                            *)
LEMMA LinePutUp ==
  ASSUME LinkOK, LinkOK', Line, NEW f, Up' = Append(Up, f),
         NewFrame(f) \/ (SetUp(f) /\ cSent = <<>>),
         Down' = Down, cSession' = cSession, cSent' = cSent,
         TakenByServer' = TakenByServer, UNCHANGED <<sSession, sSegments, sCall>>
  PROVE  Line'
<1>1. (AllTaken' <=> AllTaken) /\ Newest' = Newest
  BY DEF AllTaken, Newest
<1>2. SentFits' /\ Progress'
  BY <1>1 DEF Line, SentFits, Progress
<1>3. /\ Len(Up) \in Nat /\ Len(Up') = Len(Up) + 1
      /\ \A i \in 1..Len(Up) : Up'[i] = Up[i]
      /\ Up'[Len(Up) + 1] = f
  BY LineTypes, AppendProperties, LenProperties
<1>4. /\ \A x : NewFrame(x)' <=> NewFrame(x)
      /\ \A x : SetUp(x)' <=> SetUp(x)
      /\ \A x : UpFrame(x)' <=> UpFrame(x)
  <2>1. \A x : NewFrame(x)' <=> NewFrame(x)
    BY <1>1 DEF NewFrame
  <2>2. \A x : SetUp(x)' <=> SetUp(x)
    BY DEF SetUp
  <2>3. QED
    BY <1>1, <2>1, <2>2 DEF UpFrame, OldFrame
<1>5. UpFrame(f) /\ (SetUp(f) => AllTaken /\ cSent = <<>>)
  <2>1. CASE NewFrame(f)
    BY <2>1 DEF UpFrame, NewFrame, SetUp
  <2>2. CASE SetUp(f) /\ cSent = <<>>
    BY <2>2 DEF Line, Progress, UpFrame, AllTaken
  <2>3. QED
    BY <2>1, <2>2
<1>6. SetUp(f) => \A i \in 1..Len(Up) : SetUp(Up[i]) /\ ~NewFrame(Up[i])
  BY <1>5 DEF Line, UpInv, UpFrame, NewFrame
<1>7. UpInv'
  <2>1. \A i \in 1..Len(Up') : UpFrame(Up'[i])
    BY <1>3, <1>5 DEF Line, UpInv
  <2>2. ASSUME NEW i \in 1..Len(Up'), NEW j \in 1..Len(Up'), i < j
        PROVE  (SetUp(Up'[j]) => SetUp(Up'[i])) /\ (NewFrame(Up'[i]) => NewFrame(Up'[j]))
    <3>1. i \in 1..Len(Up)
      BY <1>3, <2>2
    <3>2. CASE j \in 1..Len(Up)
      BY <1>3, <2>2, <3>1, <3>2 DEF Line, UpInv
    <3>3. CASE j = Len(Up) + 1
      BY <1>3, <1>6, <3>1, <3>3
    <3>4. QED
      BY <1>3, <3>2, <3>3
  <2>3. QED
    BY <1>4, <2>1, <2>2 DEF UpInv
<1>8. DownInv'
  <2>1. \A x : Ack(x)' <=> Ack(x)
    BY <1>1 DEF Ack
  <2>2. QED
    BY <2>1 DEF Line, DownInv
<1>9. ServerFollows'
  <2>1. sSegments # <<>> => NewFrame(f)
    BY <1>5 DEF Line, ServerFollows
  <2>2. sSegments # <<>> => \A i \in 1..Len(Up') : NewFrame(Up'[i])
    BY <1>3, <2>1 DEF Line, ServerFollows
  <2>3. QED
    BY <1>1, <1>4, <2>2 DEF Line, ServerFollows
<1>10. QED
  BY <1>2, <1>7, <1>8, <1>9 DEF Line

(* Of the frames that are left once the server has decided about one.      *)
LEMMA UpAfterFirst ==
  ASSUME LinkOK, Line, Up # <<>>, Up' = Tail(Up)
  PROVE  /\ Len(Up) \in Nat \ {0} /\ UpFrame(Head(Up)) /\ Head(Up) = Up[1]
         /\ \A i \in 1..Len(Up') : UpFrame(Up'[i])
         /\ \A i, j \in 1..Len(Up') : i < j =>
              (SetUp(Up'[j]) => SetUp(Up'[i])) /\ (NewFrame(Up'[i]) => NewFrame(Up'[j]))
         /\ NewFrame(Head(Up)) => \A i \in 1..Len(Up') : NewFrame(Up'[i])
<1>1. /\ Len(Up) \in Nat \ {0} /\ Up[1] = Head(Up) /\ Len(Up') = Len(Up) - 1
      /\ \A i \in 1..Len(Up') : Up'[i] = Up[i + 1]
  BY LineTypes, EndAssumptions, S!FirstTaken
<1>2. \A i \in 1..Len(Up') : i + 1 \in 1..Len(Up)
  BY <1>1
<1>3. 1 \in 1..Len(Up)
  BY <1>1
<1>4. \A i \in 1..Len(Up') : UpFrame(Up'[i])
  BY <1>1, <1>2 DEF Line, UpInv
<1>5. ASSUME NEW i \in 1..Len(Up'), NEW j \in 1..Len(Up'), i < j
      PROVE  (SetUp(Up'[j]) => SetUp(Up'[i])) /\ (NewFrame(Up'[i]) => NewFrame(Up'[j]))
  <2>1. i + 1 < j + 1
    BY <1>5
  <2>2. QED
    BY <1>1, <1>2, <2>1 DEF Line, UpInv
<1>6. ASSUME NewFrame(Head(Up)), NEW i \in 1..Len(Up')
      PROVE  NewFrame(Up'[i])
  <2>1. 1 < i + 1
    BY <1>6
  <2>2. QED
    BY <1>1, <1>2, <1>3, <1>6, <2>1 DEF Line, UpInv
<1>7. QED
  BY <1>1, <1>3, <1>4, <1>5, <1>6 DEF Line, UpInv

(* What the frames say stays true while vs, va and the APDUs do.           *)
LEMMA FramesKeep ==
  ASSUME cSession' = cSession, cSent' = cSent, TakenByServer' = TakenByServer
  PROVE  /\ (AllTaken' <=> AllTaken) /\ Newest' = Newest
         /\ \A x : NewFrame(x)' <=> NewFrame(x)
         /\ \A x : SetUp(x)' <=> SetUp(x)
         /\ \A x : UpFrame(x)' <=> UpFrame(x)
         /\ \A x : Ack(x)' <=> Ack(x)
<1>1. (AllTaken' <=> AllTaken) /\ Newest' = Newest
  BY DEF AllTaken, Newest
<1>2. \A x : NewFrame(x)' <=> NewFrame(x)
  BY <1>1 DEF NewFrame
<1>3. \A x : SetUp(x)' <=> SetUp(x)
  BY DEF SetUp
<1>4. \A x : UpFrame(x)' <=> UpFrame(x)
  BY <1>1, <1>2, <1>3 DEF UpFrame, OldFrame
<1>5. \A x : Ack(x)' <=> Ack(x)
  BY <1>1 DEF Ack
<1>6. QED
  BY <1>1, <1>2, <1>3, <1>4, <1>5

(* SNRM starts the session of the server anew.                             *)
LEMMA LineRestart ==
  ASSUME LinkOK, LinkOK', Line,
         Up # <<>>, Head(Up).kind = "SNRM", Up' = Tail(Up), Down' = Down,
         sSession' \in {S!InState("ConnectRequested"), S!InState("Connected")},
         sSegments' = sSegments, sCall'.frame.kind # "RR",
         cSession' = cSession, cSent' = cSent, TakenByServer' = TakenByServer
  PROVE  Line'
<1>1. TakenByServer = <<>> /\ cSession.va = 0 /\ ~NewFrame(Head(Up)) /\ Head(Up) = Up[1]
      /\ 1 \in 1..Len(Up)
  BY UpAfterFirst DEF UpFrame, OldFrame, NewFrame
<1>2. SentFits' /\ Progress'
  BY FramesKeep DEF Line, SentFits, Progress
<1>3. UpInv'
  BY UpAfterFirst, FramesKeep DEF UpInv
<1>4. DownInv'
  BY FramesKeep DEF Line, DownInv
<1>5. sSegments = <<>>
  BY <1>1 DEF Line, ServerFollows
<1>6. AllTaken => cSession.vs = 0
  BY <1>1, OneMoreIsNotTaken DEF Line, Progress, AllTaken
<1>7. sSession'.vr = 0
  BY DEF S!InState, S!NewSession
<1>8. ServerFollows'
  BY <1>1, <1>5, <1>6, <1>7, FramesKeep DEF ServerFollows
<1>9. QED
  BY <1>2, <1>3, <1>4, <1>8 DEF Line

(* A segment reaches the reassembler of the server.                        *)
LEMMA LineGathered ==
  ASSUME LinkOK, LinkOK', Line,
         Up # <<>>, Head(Up).kind = "I", Head(Up).segmented, Up' = Tail(Up), Down' = Down,
         sSession' = sSession, sCall'.frame.kind # "RR",
         cSession' = cSession, cSent' = cSent, TakenByServer' = TakenByServer
  PROVE  Line'
<1>1. NewFrame(Head(Up)) /\ ~C!Whole(Newest) /\ cSent # <<>>
  BY UpAfterFirst DEF UpFrame, OldFrame, NewFrame, SetUp
<1>2. ~AllTaken
  BY <1>1, OneMoreIsNotTaken DEF Line, Progress
<1>3. SentFits' /\ Progress'
  BY FramesKeep DEF Line, SentFits, Progress
<1>4. UpInv'
  BY UpAfterFirst, FramesKeep DEF UpInv
<1>5. DownInv'
  BY FramesKeep DEF Line, DownInv
<1>6. \A i \in 1..Len(Up') : NewFrame(Up'[i])
  BY <1>1, UpAfterFirst
<1>7. ServerFollows'
  BY <1>1, <1>2, <1>6, FramesKeep DEF Line, ServerFollows
<1>8. QED
  BY <1>3, <1>4, <1>5, <1>7 DEF Line

(* A whole I-frame in sequence is the newest APDU, which was not taken.    *)
LEMMA InSequenceIsNewest ==
  ASSUME LinkOK, Line, NEW f, f \in S!Frame, UpFrame(f), f.kind = "I", ~f.segmented,
         sSession.state = "Connected", f.ns = sSession.vr
  PROVE  /\ NewFrame(f) /\ C!Whole(Newest) /\ f.information = C!EncodeLpdu(Newest)
         /\ ~AllTaken /\ sSession.vr = cSession.va /\ cSent # <<>>
         /\ cSent = Append(TakenByServer, Newest)
         /\ cSession.vs = (cSession.va + 1) % SeqModulus
<1>1. f.ns \in C!SeqNumbers
  BY LineTypes DEF S!Frame
<1>2. (f.ns + 1) % SeqModulus # f.ns
  BY <1>1, C!NextDiffers, EndAssumptions
<1>3. NewFrame(f)
  <2>1. ~(OldFrame(f) /\ ~AllTaken)
    BY <1>2 DEF OldFrame, Line, ServerFollows
  <2>2. QED
    BY <2>1 DEF UpFrame, SetUp
<1>4. ~AllTaken
  BY <1>2, <1>3 DEF NewFrame, Line, ServerFollows
<1>5. QED
  BY <1>3, <1>4 DEF NewFrame, Line, ServerFollows, Progress

(* The server takes an APDU, and has an acknowledgement to write.          *)
LEMMA LineTaken ==
  ASSUME LinkOK, LinkOK', Line,
         Up # <<>>, Head(Up).kind = "I", ~Head(Up).segmented, Up' = Tail(Up), Down' = Down,
         sSession.state = "Connected", Head(Up).ns = sSession.vr,
         sSession' = [sSession EXCEPT !.vr = (@ + 1) % SeqModulus],
         sSegments' = <<>>, sCall'.frame = S!RRFrame(sSession'),
         cSession' = cSession, cSent' = cSent,
         TakenByServer' = Append(TakenByServer, S!DecodeLpdu(Head(Up).information))
  PROVE  Line'
<1>1. /\ NewFrame(Head(Up)) /\ C!Whole(Newest) /\ Head(Up).information = C!EncodeLpdu(Newest)
      /\ ~AllTaken /\ sSession.vr = cSession.va /\ cSent # <<>>
      /\ cSent = Append(TakenByServer, Newest)
      /\ cSession.vs = (cSession.va + 1) % SeqModulus
  <2>1. Head(Up) \in S!Frame
    BY LineTypes, HeadTailProperties
  <2>2. QED
    BY <2>1, UpAfterFirst, InSequenceIsNewest
<1>2. Newest' = Newest /\ AllTaken'
  <2>1. Newest \in Seq(Octets)
    BY <1>1, NewestIsApdu DEF Line
  <2>2. \A apdu \in Seq(Octets) : C!DecodeLpdu(C!EncodeLpdu(apdu)) = apdu
    BY EndAssumptions, C!LpduRoundTrip
  <2>3. \A lpdu : S!DecodeLpdu(lpdu) = C!DecodeLpdu(lpdu)
    BY DEF S!DecodeLpdu, C!DecodeLpdu
  <2>4. S!DecodeLpdu(Head(Up).information) = Newest
    BY <1>1, <2>1, <2>2, <2>3
  <2>5. QED
    BY <1>1, <2>4 DEF AllTaken, Newest
<1>3. sSession'.vr = cSession.vs
  BY <1>1 DEF LinkOK, S!ChannelOK, S!Session
<1>4. SentFits' /\ Progress'
  BY <1>1, <1>2 DEF Line, SentFits, Progress
<1>5. UpInv'
  <2>1. \A i \in 1..Len(Up') : NewFrame(Up'[i])
    BY <1>1, UpAfterFirst
  <2>2. \A f : NewFrame(f) => NewFrame(f)' /\ UpFrame(f)' /\ ~SetUp(f)'
    BY <1>2 DEF NewFrame, UpFrame, SetUp
  <2>3. QED
    BY <2>1, <2>2 DEF UpInv
<1>6. DownInv'
  <2>1. \A i \in 1..Len(Down) : Down[i].kind = "UA"
    BY <1>1 DEF Line, DownInv, Ack
  <2>2. cSession.va # cSession.vs
    BY <1>1, LineTypes, C!NextDiffers, EndAssumptions
  <2>3. Ack(sCall.frame)'
    BY <1>2, <1>3, <2>2 DEF Ack, S!RRFrame
  <2>4. QED
    BY <2>1, <2>3 DEF DownInv
<1>7. ServerFollows'
  BY <1>2, <1>3 DEF ServerFollows
<1>8. QED
  BY <1>4, <1>5, <1>6, <1>7 DEF Line

(* The server writes UA or the acknowledgement.                            *)
LEMMA LinePutDown ==
  ASSUME LinkOK, LinkOK', Line,
         Up' = Up, Down' = Append(Down, sCall.frame),
         sCall.frame.kind \in {"UA", "RR"}, sCall'.frame.kind # "RR",
         cSession' = cSession, cSent' = cSent, TakenByServer' = TakenByServer,
         UNCHANGED <<sSession, sSegments>>
  PROVE  Line'
<1>1. SentFits' /\ Progress'
  BY FramesKeep DEF Line, SentFits, Progress
<1>2. UpInv'
  BY FramesKeep DEF Line, UpInv
<1>3. /\ Len(Down) \in Nat /\ Len(Down') = Len(Down) + 1
      /\ \A i \in 1..Len(Down) : Down'[i] = Down[i]
      /\ Down'[Len(Down) + 1] = sCall.frame
  BY LineTypes, AppendProperties, LenProperties
<1>4. DownInv'
  <2>1. \A i \in 1..Len(Down') : Down'[i].kind = "UA" \/ Ack(Down'[i])
    BY <1>3 DEF Line, DownInv
  <2>2. ASSUME NEW i \in 1..Len(Down'), NEW j \in 1..Len(Down'), i < j
        PROVE  Down'[i].kind = "UA" \/ Down'[j].kind = "UA"
    <3>1. i \in 1..Len(Down)
      BY <1>3, <2>2
    <3>2. CASE j \in 1..Len(Down)
      BY <1>3, <2>2, <3>1, <3>2 DEF Line, DownInv
    <3>3. CASE j = Len(Down) + 1
      BY <1>3, <3>1, <3>3 DEF Line, DownInv
    <3>4. QED
      BY <1>3, <3>2, <3>3
  <2>3. QED
    BY <2>1, <2>2, FramesKeep DEF DownInv
<1>5. ServerFollows'
  BY FramesKeep DEF Line, ServerFollows
<1>6. QED
  BY <1>1, <1>2, <1>4, <1>5 DEF Line

-----------------------------------------------------------------------------
(* The steps of the two sides, as changes of Up and Down.                  *)

(* A frame that is written comes after all that are under way.             *)
LEMMA QueuedBeforeWritten ==
  ASSUME NEW T, NEW queue \in Seq(T), NEW wire \in Seq(T), NEW f \in T
  PROVE  queue \o Append(wire, f) = Append(queue \o wire, f)
<1>1. queue \o wire \in Seq(T) /\ <<f>> \in Seq(T)
  BY ConcatProperties
<1>2. Append(wire, f) = wire \o <<f>> /\ Append(queue \o wire, f) = (queue \o wire) \o <<f>>
  BY <1>1, AppendIsConcat
<1>3. QED
  BY <1>1, <1>2, ConcatAssociative

(* A frame lost on the wire is missing from those not decided about.       *)
LEMMA LossThins ==
  ASSUME NEW T, NEW queue \in Seq(T), NEW wire \in Seq(T), NEW i \in 1..Len(wire)
  PROVE  /\ C!Thinned(queue \o wire, queue \o Without(wire, i))
         /\ S!Thinned(queue \o wire, queue \o Without(wire, i))
<1> DEFINE rest == Without(wire, i)
<1>1. /\ rest \in Seq(T) /\ Len(rest) = Len(wire) - 1
      /\ \A j \in 1..Len(rest) : rest[j] = wire[IF j < i THEN j ELSE j + 1]
      /\ Len(queue) \in Nat /\ Len(wire) \in Nat
  BY LostFrame, LenProperties
<1> HIDE DEF rest
<1>2. /\ queue \o wire \in Seq(T) /\ queue \o rest \in Seq(T)
      /\ Len(queue \o wire) = Len(queue) + Len(wire)
      /\ Len(queue \o rest) = Len(queue) + Len(rest)
      /\ \A j \in 1..(Len(queue) + Len(wire)) :
           (queue \o wire)[j] = IF j <= Len(queue) THEN queue[j] ELSE wire[j - Len(queue)]
      /\ \A j \in 1..(Len(queue) + Len(rest)) :
           (queue \o rest)[j] = IF j <= Len(queue) THEN queue[j] ELSE rest[j - Len(queue)]
  BY <1>1, ConcatProperties
<1>3. ASSUME NEW j \in 1..Len(queue \o rest)
      PROVE  (queue \o rest)[j] = (queue \o wire)[IF j < Len(queue) + i THEN j ELSE j + 1]
  <2>1. CASE j <= Len(queue)
    BY <1>1, <1>2, <2>1
  <2>2. CASE j > Len(queue)
    <3>1. j - Len(queue) \in 1..Len(rest)
      BY <1>1, <1>2, <2>2
    <3>2. (queue \o rest)[j] =
            wire[IF j - Len(queue) < i THEN j - Len(queue) ELSE j - Len(queue) + 1]
      <4>1. (queue \o rest)[j] = rest[j - Len(queue)]
        BY <1>1, <1>2, <2>2
      <4>2. QED
        BY <1>1, <3>1, <4>1
    <3>3. CASE j < Len(queue) + i
      BY <1>1, <1>2, <2>2, <3>1, <3>2, <3>3
    <3>4. CASE ~(j < Len(queue) + i)
      <4>1. /\ j + 1 \in 1..(Len(queue) + Len(wire)) /\ ~(j + 1 <= Len(queue))
            /\ j + 1 - Len(queue) = j - Len(queue) + 1
            /\ ~(j - Len(queue) < i)
        BY <1>1, <1>2, <2>2, <3>4
      <4>2. QED
        BY <1>2, <3>2, <3>4, <4>1
    <3>5. QED
      BY <3>3, <3>4
  <2>3. QED
    BY <1>1, <1>2, <2>1, <2>2
<1>4. Len(queue) + i \in Nat /\ Len(queue \o rest) + 1 = Len(queue \o wire)
  BY <1>1, <1>2
<1>5. C!Thinned(queue \o wire, queue \o rest)
  <2>1. /\ \A j \in 1..Len(queue \o rest) :
             (queue \o rest)[j] = (queue \o wire)[IF j < Len(queue) + i THEN j ELSE j + 1]
        /\ queue \o wire \in Seq(T) /\ queue \o rest \in Seq(T)
    BY <1>2, <1>3
  <2>2. ASSUME NEW line \in Seq(T), NEW short \in Seq(T), NEW c \in Nat,
               Len(short) + 1 = Len(line),
               \A j \in 1..Len(short) : short[j] = line[IF j < c THEN j ELSE j + 1]
        PROVE  C!Thinned(line, short)
    BY <2>2, EndAssumptions, C!OneCutOut
  <2>3. QED
    BY <1>4, <2>1, <2>2
<1>6. S!Thinned(queue \o wire, queue \o rest)
  BY <1>5 DEF C!Thinned, S!Thinned
<1>7. QED
  BY <1>5, <1>6 DEF rest

(* What the server took changes when an APDU is queued, not when it is     *)
(* handed to the application.                                              *)
LEMMA ServerTakenLog ==
  ASSUME LinkOK, ServerNext, S!OneApduPending
  PROVE  /\ sPendingApdus' = sPendingApdus => TakenByServer' = TakenByServer
         /\ sPendingApdus # <<>> /\ sPendingApdus' = Tail(sPendingApdus) =>
              TakenByServer' = TakenByServer
         /\ \A x : sPendingApdus = <<>> /\ sPendingApdus' = <<x>> =>
              TakenByServer' = Append(TakenByServer, x)
<1>1. sGot' = GotLog(sGot, sPendingApdus, sPendingApdus')
  BY DEF ServerNext, ServerLog
<1>2. sGot \in Seq(S!Information) /\ sPendingApdus \in Seq(S!Information)
  BY TakenAreApdus DEF LinkOK
<1>3. ASSUME sPendingApdus' = sPendingApdus
      PROVE  TakenByServer' = TakenByServer
  BY <1>1, <1>3 DEF GotLog, TakenByServer
<1>4. ASSUME sPendingApdus # <<>>, sPendingApdus' = Tail(sPendingApdus)
      PROVE  TakenByServer' = TakenByServer
  <2>1. Len(sPendingApdus) = 1
    <3>1. Len(sPendingApdus) \in Nat /\ Len(sPendingApdus) # 0
      BY <1>2, <1>4, EndAssumptions, S!FirstTaken
    <3>2. Len(sPendingApdus) <= 1
      BY DEF S!OneApduPending
    <3>3. \A n \in Nat : n # 0 /\ n <= 1 => n = 1
      OBVIOUS
    <3>4. QED
      BY <3>1, <3>2, <3>3, Zenon
  <2>2. sPendingApdus = <<Head(sPendingApdus)>> /\ sPendingApdus' = <<>>
        /\ Head(sPendingApdus) \in S!Information
    BY <1>2, <1>4, <2>1, HeadTailProperties, EmptySeq
  <2>3. sGot' = Append(sGot, Head(sPendingApdus))
    BY <1>1, <1>4, <2>2 DEF GotLog
  <2>4. sGot' = sGot \o sPendingApdus /\ sGot' \in Seq(S!Information)
    BY <1>2, <2>2, <2>3, AppendIsConcat, AppendProperties
  <2>5. QED
    BY <2>2, <2>4, ConcatEmptySeq DEF TakenByServer
<1>5. ASSUME NEW x, sPendingApdus = <<>>, sPendingApdus' = <<x>>
      PROVE  TakenByServer' = Append(TakenByServer, x)
  <2>1. sGot' = sGot
    BY <1>1, <1>5 DEF GotLog
  <2>2. TakenByServer = sGot /\ TakenByServer' = sGot \o <<x>>
    BY <1>2, <1>5, <2>1, ConcatEmptySeq DEF TakenByServer
  <2>3. Append(sGot, x) = sGot \o <<x>>
    BY <1>2, SeqMonotonic, AppendIsConcat
  <2>4. QED
    BY <2>2, <2>3
<1>6. QED
  BY <1>3, <1>4, <1>5

-----------------------------------------------------------------------------
(* The invariant on the first link, while the server sends no APDU.        *)

(* The frame that SendApdu of the client waits to have answered.           *)
ClientFrame ==
  cCall.op = "SendApdu" /\ cCall.pc \in C!Asking =>
    NewFrame(cCall.frame) /\ (C!Whole(Newest) => cCall.unsent = <<>>)

Calm ==
  /\ C!ClientEnd /\ S!ServerEnd /\ Line /\ ClientFrame
  /\ cSession.state # "Connected" => cSent = <<>>
  /\ cSession.state # "Disconnected" => connects # 0

(* What the client reads is UA or the acknowledgement it waits for.        *)
LEMMA HeadIsAnswer ==
  ASSUME LinkOK, Calm, Down # <<>>
  PROVE  C!AnswerOnly(Head(Down))
<1>1. 1 \in 1..Len(Down) /\ Down[1] = Head(Down)
  BY LineTypes, EndAssumptions, C!FirstTaken
<1>2. CASE Head(Down).kind = "UA"
  BY <1>2 DEF C!AnswerOnly
<1>3. CASE Ack(Head(Down))
  <2>1. C!Whole(Newest) /\ cSent # <<>>
    BY <1>3, UnheardIsNew DEF Calm, Ack
  <2>2. cCall.pc \in C!Asking => cCall.unsent = <<>>
    BY <2>1, EndAssumptions, C!ClientPlaces DEF Calm, ClientFrame, C!ClientEnd
  <2>3. QED
    BY <1>3, <2>2 DEF C!AnswerOnly, Ack
<1>4. QED
  BY <1>1, <1>2, <1>3 DEF Calm, Line, DownInv

(* What the server reads is SNRM or an I-frame it can take in or refuse.   *)
LEMMA HeadIsRequest ==
  ASSUME LinkOK, Calm, Up # <<>>
  PROVE  S!RequestOnly(Head(Up))
<1>0. PICK f \in S!Frame : f = Head(Up)
  BY LineTypes, HeadTailProperties
<1>1. f = Up[1] /\ 1 \in 1..Len(Up)
  BY <1>0, LineTypes, EndAssumptions, S!FirstTaken
<1>2. UpFrame(f) /\ Line
  BY <1>1 DEF Calm, Line, UpInv
<1>3. ASSUME SetUp(f) PROVE S!RequestOnly(f)
  BY <1>3 DEF SetUp, S!RequestOnly, C!Parameters, S!Parameters
<1>4. ASSUME ~SetUp(f) PROVE S!RequestOnly(f)
  <2>1. f.kind = "I" /\ f.nr = 0
    BY <1>2, <1>4 DEF UpFrame, OldFrame, NewFrame
  <2>2. ~f.segmented => sSegments = <<>>
    <3>1. sSegments # <<>> => NewFrame(f) /\ ~C!Whole(Newest)
      BY <1>1 DEF Calm, Line, ServerFollows
    <3>2. QED
      BY <3>1 DEF NewFrame
  <2>3. ASSUME ~f.segmented, sSession.state = "Connected", f.ns = sSession.vr
        PROVE  S!WholeLpdu(f)
    <3>1. f.information = C!EncodeLpdu(Newest) /\ cSent # <<>>
      BY <1>1, <1>2, <2>1, <2>3, InSequenceIsNewest
    <3>2. Newest \in Seq(Octets) /\ C!Fits(Newest)
      BY <1>2, <3>1, NewestIsApdu DEF Line
    <3>3. \A apdu : C!EncodeLpdu(apdu) = S!EncodeLpdu(apdu) /\ (C!Fits(apdu) => S!Fits(apdu))
      BY DEF C!EncodeLpdu, S!EncodeLpdu, C!Fits, S!Fits, C!LlcHeader, S!LlcHeader
    <3>4. QED
      BY <3>1, <3>2, <3>3 DEF S!WholeLpdu
  <2>4. QED
    BY <2>1, <2>2, <2>3 DEF S!RequestOnly
<1>5. QED
  BY <1>0, <1>3, <1>4

(* A step of the client leaves the ends of the server as they are.         *)
LEMMA ServerWaits ==
  ASSUME S!ServerEnd, UNCHANGED <<sVars, sGot>>
  PROVE  S!ServerEnd' /\ TakenByServer' = TakenByServer
BY DEF sVars, S!ServerEnd, S!ServerSession, S!ServerCall, S!OneApduPending, TakenByServer

(* A client that goes on asking keeps its frame.                           *)
LEMMA FrameIsKept ==
  ASSUME ClientFrame, C!KeepsFrame \/ cCall'.pc \notin C!Asking \/ cCall'.op # "SendApdu",
         cSession'.vs = cSession.vs, cSent' = cSent
  PROVE  ClientFrame'
<1>1. Newest' = Newest /\ \A f : NewFrame(f)' <=> NewFrame(f)
  <2>1. Newest' = Newest
    BY DEF Newest
  <2>2. QED
    BY <2>1 DEF NewFrame
<1>2. QED
  BY <1>1 DEF ClientFrame, C!KeepsFrame

(* No I-frame is built but in the places where SendApdu builds one.        *)
LEMMA NothingBuilt ==
  ASSUME ClientNext, C!KeepsFrame \/ cCall.pc = "idle"
  PROVE  cSent' = cSent
<1>1. cSent' = SentLog(cSent, cCall, cCall')
  BY DEF ClientNext, ClientLog
<1>2. ~(cCall.pc \in {"send", "build"} /\ cCall'.pc = "write")
  BY DEF C!KeepsFrame, C!Asking
<1>3. QED
  BY <1>1, <1>2 DEF SentLog

(* Everything but the line and the end of the client, after a step of it   *)
(* that keeps V(S) and V(A) and writes nothing.                            *)
LEMMA ClientQuiet ==
  ASSUME LinkOK, LinkOK', Calm, ClientNext, cSent' = cSent, C!ClientEnd',
         c2s' = c2s, C!Thinned(Down, Down'),
         cSession'.vs = cSession.vs, cSession'.va = cSession.va,
         C!KeepsFrame \/ cCall'.pc \notin C!Asking \/ cCall'.op # "SendApdu",
         cSession'.state = "Connected" \/ cSession.state # "Connected",
         cSession'.state # "Disconnected" => connects' # 0
  PROVE  Calm'
<1>1. UNCHANGED <<sVars, sSent, sGot>>
  BY DEF ClientNext, ClientLog
<1>2. S!ServerEnd' /\ TakenByServer' = TakenByServer
  BY <1>1, ServerWaits DEF Calm
<1>3. S!Thinned(Up, Up')
  <2>1. Up' = Up
    BY <1>1 DEF Up, S!Incoming, sVars
  <2>2. QED
    BY <2>1, LineTypes, EndAssumptions, S!NothingLost
<1>4. sSession' = sSession /\ sSegments' = sSegments /\ sCall' = sCall
  BY <1>1 DEF sVars
<1>5. Line'
  BY <1>2, <1>3, <1>4, LineQuiet DEF Calm
<1>6. ClientFrame'
  BY FrameIsKept DEF Calm
<1>7. QED
  BY <1>2, <1>5, <1>6 DEF Calm

(* The steps of the calls of the client.                                   *)
LEMMA CalmClientStep ==
  ASSUME LinkOK, LinkOK', Calm, Window = 1, ~Lenient, ClientNext, C!Step,
         connects' = connects
  PROVE  Calm'
<1>1. UNCHANGED <<sVars, sSent, sGot>>
  BY DEF ClientNext, ClientLog
<1>2. C!ClientEvent /\ C!ClientEnd'
  <2>1. C!Incoming # <<>> => C!AnswerOnly(Head(C!Incoming))
    BY HeadIsAnswer DEF Down
  <2>2. C!ChannelOK /\ C!ClientEnd
    BY DEF LinkOK, Calm
  <2>3. QED
    BY <2>1, <2>2, C!ClientSteps, EndAssumptions
<1>3. S!ServerEnd' /\ TakenByServer' = TakenByServer
  BY <1>1, ServerWaits DEF Calm
<1>4. /\ sSession' = sSession /\ sSegments' = sSegments /\ sCall' = sCall
      /\ sPendingFrames' = sPendingFrames
  BY <1>1 DEF sVars
<1>5. CASE C!ClientIgnores
  BY <1>2, <1>5, ClientQuiet, NothingBuilt DEF C!ClientIgnores, Down, Calm
<1>6. CASE C!ClientLinksUp
  <2>1. cSession.vs = 0 /\ cSession.va = 0 /\ cSession'.vs = 0 /\ cSession'.va = 0
        /\ cSession'.state = "Connected"
    BY <1>6 DEF Calm, C!ClientLinksUp, C!ClientEnd, C!ClientSession, C!InState, C!NewSession
  <2>2. QED
    BY <1>2, <1>6, <2>1, ClientQuiet, NothingBuilt DEF C!ClientLinksUp, Down, Calm
<1>7. CASE C!ClientHearsAck
  <2>1. /\ Down # <<>> /\ Head(Down).kind = "RR" /\ Down' = Tail(Down) /\ C!KeepsFrame
        /\ cSession' = [cSession EXCEPT !.va = cSession.vs] /\ cSession.state = "Connected"
        /\ c2s' = c2s
    BY <1>7 DEF C!ClientHearsAck, Down
  <2>2. cSent' = cSent
    BY <2>1, NothingBuilt
  <2>3. S!Thinned(Up, Up')
    <3>1. Up' = Up
      BY <1>4, <2>1 DEF Up, S!Incoming
    <3>2. QED
      BY <3>1, LineTypes, EndAssumptions, S!NothingLost
  <2>4. Line'
    BY <1>3, <1>4, <2>1, <2>2, <2>3, LineAck DEF Calm
  <2>5. cSession'.vs = cSession.vs /\ cSession'.state = cSession.state
    BY <2>1 DEF LinkOK, C!ChannelOK, C!Session
  <2>6. ClientFrame'
    BY <2>1, <2>2, <2>5, FrameIsKept DEF Calm
  <2>7. QED
    BY <1>2, <1>3, <2>1, <2>2, <2>4, <2>5, <2>6 DEF Calm
<1>8. CASE C!ClientBuilds
  <2>1. /\ cCall.op = "SendApdu" /\ cCall.pc \in {"send", "build"}
        /\ cSession.state = "Connected" /\ cSession.va = cSession.vs
        /\ cSession' = [cSession EXCEPT !.vs = (@ + 1) % SeqModulus]
        /\ c2s' = c2s /\ Down' = Down
        /\ cCall'.op = "SendApdu" /\ cCall'.pc = "write"
        /\ cCall'.frame = C!ChunkFrame(cSession, cCall.unsent)
        /\ cCall'.unsent =
             SubSeq(cCall.unsent, C!ChunkSize(cCall.unsent) + 1, Len(cCall.unsent))
    BY <1>8 DEF C!ClientBuilds, Down
  <2>2. PICK apdu \in Seq(Octets) : C!Fits(apdu) /\ cCall.unsent = C!EncodeLpdu(apdu)
    <3>1. {ClientApdus[i] : i \in 1..Len(ClientApdus)} \subseteq Seq(Octets)
      BY EndAssumptions DEF C!EndpointAssumption
    <3>2. \E apdu \in {ClientApdus[i] : i \in 1..Len(ClientApdus)} :
            C!Fits(apdu) /\ cCall.unsent = C!EncodeLpdu(apdu)
      BY <2>1 DEF Calm, C!ClientEnd, C!ClientCall, C!Asking
    <3>3. QED
      BY <3>1, <3>2
  <2>3. cSent' = Append(cSent, apdu)
    <3>1. /\ C!EncodeLpdu(apdu) # <<>> /\ Head(C!EncodeLpdu(apdu)) = C!LlcHeader
          /\ C!DecodeLpdu(C!EncodeLpdu(apdu)) = apdu
      BY EndAssumptions, C!LpduRoundTrip
    <3>2. Head(cCall.unsent) = Client!LlcHeader /\ Client!DecodeLpdu(cCall.unsent) = apdu
      BY <2>2, <3>1 DEF C!LlcHeader, Client!LlcHeader, C!DecodeLpdu, Client!DecodeLpdu
    <3>3. cSent' = SentLog(cSent, cCall, cCall')
      BY DEF ClientNext, ClientLog
    <3>4. QED
      BY <2>1, <3>2, <3>3 DEF SentLog
  <2>4. Up' = Up
    BY <1>4, <2>1 DEF Up, S!Incoming
  <2>5. Line' /\ cSent' # <<>> /\ Newest' = apdu
    BY <1>3, <1>4, <2>1, <2>2, <2>3, <2>4, LineBuilt DEF Calm
  <2>6. /\ cSession'.vs = (cSession.vs + 1) % SeqModulus /\ cSession'.state = "Connected"
        /\ cSession.vr = 0
    BY <2>1 DEF LinkOK, Calm, C!ChannelOK, C!Session, C!ClientEnd, C!ClientSession
  <2>7. LET f == C!ChunkFrame(cSession, cCall.unsent)
            rest == SubSeq(cCall.unsent, C!ChunkSize(cCall.unsent) + 1, Len(cCall.unsent))
        IN /\ f.kind = "I" /\ f.ns = cSession.vs /\ f.nr = cSession.vr
           /\ f.segmented = ~C!Whole(apdu)
           /\ C!Whole(apdu) => f.information = cCall.unsent /\ rest = <<>>
    BY <2>2, EndAssumptions, C!FirstFrame
  <2>8. ClientFrame'
    BY <2>1, <2>2, <2>5, <2>6, <2>7 DEF ClientFrame, NewFrame
  <2>9. QED
    BY <1>2, <1>3, <2>1, <2>5, <2>6, <2>8 DEF Calm
<1>9. CASE C!ClientPuts
  <2>1. /\ cCall.pc = "write" /\ cSession' = cSession /\ c2s' = Append(c2s, cCall.frame)
        /\ Down' = Down /\ C!KeepsFrame
    BY <1>9 DEF C!ClientPuts, Down
  <2>2. cSent' = cSent
    BY <2>1, NothingBuilt
  <2>3. NewFrame(cCall.frame) \/ (SetUp(cCall.frame) /\ cSent = <<>>)
    <3>1. \/ cCall.op = "SendApdu" /\ cCall.pc \in C!Asking
          \/ cSession.state = "Connecting" /\ cCall.frame = C!UFrame("SNRM")
      BY <2>1, EndAssumptions, C!ClientPlaces DEF Calm, C!ClientEnd, C!Asking
    <3>2. QED
      BY <3>1 DEF Calm, ClientFrame, SetUp, C!UFrame
  <2>4. Up' = Append(Up, cCall.frame)
    <3>1. sPendingFrames \in Seq(S!Frame) /\ c2s \in Seq(S!Frame)
      BY DEF LinkOK, S!ChannelOK, S!ReadOK
    <3>2. cCall.frame \in S!Frame
      BY SameFrames DEF LinkOK, C!ChannelOK, C!CallOK, C!Call
    <3>3. QED
      BY <1>4, <2>1, <3>1, <3>2, QueuedBeforeWritten DEF Up, S!Incoming
  <2>5. Line'
    BY <1>3, <1>4, <2>1, <2>2, <2>3, <2>4, LinePutUp DEF Calm
  <2>6. ClientFrame'
    BY <2>1, <2>2, FrameIsKept DEF Calm
  <2>7. QED
    BY <1>2, <1>3, <2>1, <2>2, <2>5, <2>6 DEF Calm
<1>10. QED
  BY <1>2, <1>5, <1>6, <1>7, <1>8, <1>9 DEF C!ClientEvent

(* The calls of the client.  A second ConnectDataLink starts a second      *)
(* link, and DisconnectDataLink ends the first one.                        *)
LEMMA CalmClient ==
  ASSUME LinkOK, LinkOK', Calm, Window = 1, ~Lenient, ClientNext
  PROVE  Calm' \/ (C!ClientDone' /\ connects' = 1) \/ connects' > 1
<1>1. C!ChannelOK /\ C!ClientEnd /\ connects \in Nat
  BY DEF LinkOK, Calm
<1>2. CASE ClientConnects
  <2>1. C!ConnectDataLink /\ cSession.state # "Connected" /\ connects' = connects + 1
    BY <1>2, ClientActions DEF ClientConnects
  <2>2. CASE connects # 0
    BY <1>1, <2>1, <2>2
  <2>3. CASE connects = 0
    <3>1. cSession.state = "Disconnected" /\ cSession.vs = 0 /\ cSession.va = 0
      BY <2>3 DEF Calm, C!ClientEnd, C!ClientSession
    <3>2. /\ C!ClientEnd' /\ cCall'.op = "ConnectDataLink" /\ cSession'.state # "Connected"
          /\ c2s' = c2s /\ C!Thinned(Down, Down')
      BY <1>1, <2>1, EndAssumptions, C!ClientConnectsLink DEF Down
    <3>3. cSession'.vs = 0 /\ cSession'.va = 0
      BY <3>2 DEF C!ClientEnd, C!ClientSession
    <3>4. cSent' = cSent
      BY <2>1, NothingBuilt DEF C!ConnectDataLink, C!Idle
    <3>5. QED
      BY <2>1, <2>3, <3>1, <3>2, <3>3, <3>4, ClientQuiet
  <2>4. QED
    BY <2>2, <2>3
<1>3. CASE ClientDisconnects
  <2>1. C!DisconnectDataLink /\ connects' = connects
    BY <1>3, ClientActions DEF ClientDisconnects
  <2>2. \/ C!ClientDone' /\ cSession.state # "Disconnected"
        \/ /\ C!ClientEnd' /\ cCall'.op = "DisconnectDataLink"
           /\ cSession' = cSession /\ c2s' = c2s /\ C!Thinned(Down, Down')
    BY <1>1, <2>1, EndAssumptions, C!ClientDisconnectsLink DEF Down
  <2>3. CASE C!ClientDone' /\ cSession.state # "Disconnected"
    BY <1>1, <2>1, <2>3 DEF Calm
  <2>4. CASE /\ C!ClientEnd' /\ cCall'.op = "DisconnectDataLink"
             /\ cSession' = cSession /\ c2s' = c2s /\ C!Thinned(Down, Down')
    <3>1. cSent' = cSent
      BY <2>1, NothingBuilt DEF C!DisconnectDataLink, C!Refuse, C!Idle
    <3>2. QED
      BY <2>1, <2>4, <3>1, ClientQuiet DEF Calm
  <2>5. QED
    BY <2>2, <2>3, <2>4
<1>4. CASE ClientSends
  <2>1. PICK i \in 1..Len(ClientApdus) : C!SendApdu(ClientApdus[i]) /\ connects' = connects
    <3>1. Len(cSent) \in Nat /\ Len(ClientApdus) \in Nat
      BY LenProperties, LinkAssumption DEF LinkOK, Sequence, LinkAssumption
    <3>2. Len(cSent) + 1 \in 1..Len(ClientApdus)
      BY <1>4, <3>1 DEF ClientSends
    <3>3. QED
      BY <1>4, <3>2, ClientActions DEF ClientSends
  <2>2. /\ C!ClientEnd' /\ cCall'.pc \notin C!Asking
        /\ cSession' = cSession /\ c2s' = c2s /\ C!Thinned(Down, Down')
    BY <1>1, <2>1, EndAssumptions, C!ClientSendsApdu DEF Down
  <2>3. cSent' = cSent
    BY <2>1, NothingBuilt DEF C!SendApdu, C!Idle
  <2>4. QED
    BY <2>1, <2>2, <2>3, ClientQuiet DEF Calm
<1>5. CASE ClientReceives
  <2>1. C!ReceiveApdu(AnyCapacity) /\ cSession.state = "Connected" /\ connects' = connects
    BY <1>5, ClientActions DEF ClientReceives
  <2>2. /\ C!ClientEnd' /\ cCall'.pc \notin C!Asking
        /\ cSession' = cSession /\ c2s' = c2s /\ C!Thinned(Down, Down')
    BY <1>1, <2>1, EndAssumptions, C!ClientReceivesApdu DEF Down
  <2>3. cSent' = cSent
    BY <2>1, NothingBuilt DEF C!ReceiveApdu, C!Idle
  <2>4. QED
    BY <2>1, <2>2, <2>3, ClientQuiet DEF Calm
<1>6. CASE ClientStep
  BY <1>6, CalmClientStep, ClientActions DEF ClientStep
<1>7. QED
  BY <1>2, <1>3, <1>4, <1>5, <1>6 DEF ClientNext

(* The steps and calls of the server, as long as it sends no APDU.         *)
LEMMA CalmServer ==
  ASSUME LinkOK, LinkOK', Calm, Window = 1, ~Lenient, ServerNext
  PROVE  Calm' \/ sSent' # <<>>
<1>1. UNCHANGED <<cVars, connects, cSent, cGot>> /\ ServerCallOrStep
  BY ServerMoves
<1>2. /\ cSession' = cSession /\ cCall' = cCall /\ cPendingFrames' = cPendingFrames
      /\ connects' = connects /\ cSent' = cSent
  BY <1>1 DEF cVars
<1>3. C!ClientEnd' /\ ClientFrame'
  <2>1. C!ClientEnd'
    BY <1>2 DEF Calm, C!ClientEnd, C!ClientSession, C!ClientCall, C!SentIsAcknowledged
  <2>2. Newest' = Newest /\ \A f : NewFrame(f)' <=> NewFrame(f)
    BY <1>2 DEF Newest, NewFrame
  <2>3. QED
    BY <1>2, <2>1, <2>2 DEF Calm, ClientFrame
<1>4. S!ServerBuilds \/ (S!ServerEvent /\ S!ServerEnd')
  <2>1. S!ChannelOK /\ S!ServerEnd
    BY DEF LinkOK, Calm
  <2>2. CASE S!Step
    <3>1. S!Incoming # <<>> => S!RequestOnly(Head(S!Incoming))
      BY HeadIsRequest DEF Up
    <3>2. QED
      BY <2>1, <2>2, <3>1, EndAssumptions, S!ServerSteps
  <2>3. CASE ServerAccepts
    BY <2>1, <2>3, EndAssumptions, S!ServerAcceptsLink, ServerActions DEF ServerAccepts
  <2>4. CASE \E i \in 1..Len(ServerApdus) : S!SendApdu(ServerApdus[i])
    BY <2>1, <2>4, EndAssumptions, S!ServerSendsApdu
  <2>5. CASE S!ReceiveApdu(AnyCapacity)
    BY <2>1, <2>5, EndAssumptions, S!ServerReceivesApdu
  <2>6. CASE ServerSends
    <3>1. Len(sSent) \in Nat /\ Len(ServerApdus) \in Nat
      BY LenProperties, LinkAssumption DEF LinkOK, Sequence, LinkAssumption
    <3>2. Len(sSent) + 1 \in 1..Len(ServerApdus)
      BY <2>6, <3>1 DEF ServerSends
    <3>3. QED
      BY <2>4, <2>6, <3>2, ServerActions DEF ServerSends
  <2>7. QED
    BY <2>2, <2>3, <2>5, <2>6, ServerActions DEF ServerNext, ServerReceives
<1>5. CASE S!ServerBuilds
  <2>1. sSent' = Append(sSent, Client!DecodeLpdu(sCall.unsent))
    BY <1>5 DEF S!ServerBuilds, ServerNext, ServerLog, SentLog, S!LlcHeader, Client!LlcHeader
  <2>2. QED
    BY <2>1, LogIsSequence DEF LinkOK
<1>6. CASE S!ServerEvent /\ S!ServerEnd'
  <2>1. S!OneApduPending
    BY DEF Calm, S!ServerEnd
  <2>2. s2c' = s2c => Down' = Down
    BY <1>2 DEF Down, C!Incoming
  <2>3. Down' = Down => C!Thinned(Down, Down')
    BY LineTypes, EndAssumptions, C!NothingLost
  <2>4. CASE S!ServerIgnores
    <3>1. /\ sSession' = sSession \/ sSession'.state # "Connected"
          /\ s2c' = s2c /\ S!Thinned(Up, Up') /\ sSegments' \in {sSegments, <<>>}
          /\ sPendingApdus' = sPendingApdus /\ sCall'.frame.kind # "RR"
      BY <2>4 DEF S!ServerIgnores, Up
    <3>2. TakenByServer' = TakenByServer
      BY <2>1, <3>1, ServerTakenLog
    <3>3. Line'
      BY <1>2, <2>2, <2>3, <3>1, <3>2, LineQuiet DEF Calm
    <3>4. QED
      BY <1>2, <1>3, <1>6, <3>3 DEF Calm
  <2>5. CASE S!ServerRestarts
    <3>1. /\ Up # <<>> /\ Head(Up).kind = "SNRM" /\ Up' = Tail(Up) /\ s2c' = s2c
          /\ sSession' \in {S!InState("ConnectRequested"), S!InState("Connected")}
          /\ sSegments' = sSegments /\ sPendingApdus' = sPendingApdus
          /\ sCall'.frame.kind # "RR"
      BY <2>5 DEF S!ServerRestarts, Up
    <3>2. TakenByServer' = TakenByServer
      BY <2>1, <3>1, ServerTakenLog
    <3>3. Line'
      BY <1>2, <2>2, <3>1, <3>2, LineRestart DEF Calm
    <3>4. QED
      BY <1>2, <1>3, <1>6, <3>3 DEF Calm
  <2>6. CASE S!ServerGathers
    <3>1. /\ Up # <<>> /\ Head(Up).kind = "I" /\ Head(Up).segmented /\ Up' = Tail(Up)
          /\ s2c' = s2c /\ sSession' = sSession /\ sPendingApdus' = sPendingApdus
          /\ sCall'.frame.kind # "RR"
      BY <2>6 DEF S!ServerGathers, Up
    <3>2. TakenByServer' = TakenByServer
      BY <2>1, <3>1, ServerTakenLog
    <3>3. Line'
      BY <1>2, <2>2, <3>1, <3>2, LineGathered DEF Calm
    <3>4. QED
      BY <1>2, <1>3, <1>6, <3>3 DEF Calm
  <2>7. CASE S!ServerTakes
    <3>1. /\ Up # <<>> /\ Head(Up).kind = "I" /\ ~Head(Up).segmented /\ Up' = Tail(Up)
          /\ s2c' = s2c /\ sSession.state = "Connected" /\ Head(Up).ns = sSession.vr
          /\ sSession' = [sSession EXCEPT !.vr = (@ + 1) % SeqModulus]
          /\ sSegments' = <<>> /\ sCall'.frame = S!RRFrame(sSession')
          /\ sPendingApdus = <<>>
          /\ sPendingApdus' = <<S!DecodeLpdu(Head(Up).information)>>
      BY <2>7 DEF S!ServerTakes, Up
    <3>2. TakenByServer' = Append(TakenByServer, S!DecodeLpdu(Head(Up).information))
      BY <2>1, <3>1, ServerTakenLog
    <3>3. Line'
      BY <1>2, <2>2, <3>1, <3>2, LineTaken DEF Calm
    <3>4. QED
      BY <1>2, <1>3, <1>6, <3>3 DEF Calm
  <2>8. CASE S!ServerHands
    <3>1. /\ sSession' = sSession /\ s2c' = s2c /\ Up' = Up /\ sSegments' = sSegments
          /\ sPendingApdus # <<>> /\ sPendingApdus' = Tail(sPendingApdus)
          /\ sCall'.frame.kind # "RR"
      BY <2>8 DEF S!ServerHands, Up
    <3>2. TakenByServer' = TakenByServer
      BY <2>1, <3>1, ServerTakenLog
    <3>3. S!Thinned(Up, Up')
      BY <3>1, LineTypes, EndAssumptions, S!NothingLost
    <3>4. Line'
      BY <1>2, <2>2, <2>3, <3>1, <3>2, <3>3, LineQuiet DEF Calm
    <3>5. QED
      BY <1>2, <1>3, <1>6, <3>4 DEF Calm
  <2>9. CASE S!ServerPuts
    <3>1. /\ sCall.frame.kind \in {"UA", "RR"} /\ s2c' = Append(s2c, sCall.frame)
          /\ sSession' = sSession /\ Up' = Up /\ sSegments' = sSegments
          /\ sPendingApdus' = sPendingApdus /\ sCall'.frame.kind # "RR"
      BY <2>9 DEF S!ServerPuts, Up, S!UFrame
    <3>2. TakenByServer' = TakenByServer
      BY <2>1, <3>1, ServerTakenLog
    <3>3. Down' = Append(Down, sCall.frame)
      <4>1. cPendingFrames \in Seq(C!Frame) /\ s2c \in Seq(C!Frame)
        BY DEF LinkOK, C!ChannelOK, C!ReadOK
      <4>2. sCall.frame \in C!Frame
        BY SameFrames DEF LinkOK, S!ChannelOK, S!CallOK, S!Call
      <4>3. QED
        BY <1>2, <3>1, <4>1, <4>2, QueuedBeforeWritten DEF Down, C!Incoming
    <3>4. Line'
      BY <1>2, <3>1, <3>2, <3>3, LinePutDown DEF Calm
    <3>5. QED
      BY <1>2, <1>3, <1>6, <3>4 DEF Calm
  <2>10. QED
    BY <1>6, <2>4, <2>5, <2>6, <2>7, <2>8, <2>9 DEF S!ServerEvent
<1>7. QED
  BY <1>4, <1>5, <1>6

(* The loss of a frame.                                                    *)
LEMMA CalmLoss ==
  ASSUME LinkOK, LinkOK', Calm, LoseFrame
  PROVE  Calm'
<1>1. UNCHANGED <<cVars, sVars, connects, cSent, sSent, cGot, sGot>>
  BY DEF LoseFrame
<1>2. /\ cSession' = cSession /\ cCall' = cCall /\ cPendingFrames' = cPendingFrames
      /\ sSession' = sSession /\ sCall' = sCall /\ sPendingFrames' = sPendingFrames
      /\ sSegments' = sSegments
  BY <1>1 DEF cVars, sVars
<1>3. /\ sPendingFrames \in Seq(S!Frame) /\ c2s \in Seq(S!Frame)
      /\ cPendingFrames \in Seq(C!Frame) /\ s2c \in Seq(C!Frame)
  BY DEF LinkOK, S!ChannelOK, S!ReadOK, C!ChannelOK, C!ReadOK
<1>4. S!Thinned(Up, Up') /\ C!Thinned(Down, Down')
  <2>1. S!Thinned(Up, Up) /\ C!Thinned(Down, Down)
    BY LineTypes, EndAssumptions, S!NothingLost, C!NothingLost
  <2>2. CASE UNCHANGED s2c /\ \E i \in 1..Len(c2s) : c2s' = Without(c2s, i)
    BY <1>2, <1>3, <2>1, <2>2, LossThins DEF Up, Down, S!Incoming, C!Incoming
  <2>3. CASE UNCHANGED c2s /\ \E i \in 1..Len(s2c) : s2c' = Without(s2c, i)
    BY <1>2, <1>3, <2>1, <2>3, LossThins DEF Up, Down, S!Incoming, C!Incoming
  <2>4. QED
    BY <2>2, <2>3 DEF LoseFrame
<1>5. S!ServerEnd' /\ TakenByServer' = TakenByServer
  BY <1>1, ServerWaits DEF Calm
<1>6. C!ClientEnd'
  BY <1>2 DEF Calm, C!ClientEnd, C!ClientSession, C!ClientCall, C!SentIsAcknowledged
<1>7. Line'
  BY <1>1, <1>2, <1>4, <1>5, LineQuiet DEF Calm
<1>8. ClientFrame'
  <2>1. Newest' = Newest /\ \A f : NewFrame(f)' <=> NewFrame(f)
    BY <1>1, <1>2 DEF Newest, NewFrame
  <2>2. QED
    BY <1>2, <2>1 DEF Calm, ClientFrame
<1>9. QED
  BY <1>1, <1>2, <1>5, <1>6, <1>7, <1>8 DEF Calm

-----------------------------------------------------------------------------
(* The inductive invariant.  A second link may begin with frames of the    *)
(* first one under way, and an I-frame of the server acknowledges by its   *)
(* N(R): neither is described.                                             *)

FirstLink ==
  \/ connects > 1 \/ sSent # <<>>
  \/ C!ClientDone /\ connects = 1
  \/ Calm

FirstLinkInv == LinkOK /\ (~Lenient /\ Window = 1 => FirstLink)

(* FirstLinkInv holds at the start.                                             *)
LEMMA LinkStarts ==
  ASSUME Init
  PROVE  FirstLinkInv
<1>1. LinkOK
  BY LinkStartsTyped
<1>2. cSession = C!NewSession /\ sSession = S!NewSession
  BY DEF Init, Client!NewSession, Server!NewSession, C!NewSession, S!NewSession
<1>3. C!ClientEnd
  BY <1>2 DEF Init, Client!Returned, C!ClientEnd, C!ClientSession, C!ClientCall,
     C!SentIsAcknowledged, C!NewSession
<1>4. sCall.frame.kind # "RR" /\ sCall.pc = "idle"
  BY DEF Init, Server!Returned, Server!NoFrame, Server!UFrame
<1>5. S!ServerEnd
  BY <1>2, <1>4 DEF Init, S!ServerEnd, S!ServerSession, S!ServerCall, S!OneApduPending,
     S!NewSession
<1>6. Up = <<>> /\ Down = <<>> /\ TakenByServer = <<>> /\ cSent = <<>> /\ sSegments = <<>>
  <2>1. <<>> \o <<>> = <<>>
    OBVIOUS
  <2>2. QED
    BY <2>1 DEF Init, Up, Down, S!Incoming, C!Incoming, TakenByServer
<1>7. Line
  <2>1. SentFits
    BY <1>6 DEF SentFits
  <2>2. Progress
    BY <1>2, <1>6 DEF Progress, AllTaken, C!NewSession
  <2>3. UpInv
    BY <1>6 DEF UpInv
  <2>4. DownInv
    BY <1>4, <1>6 DEF DownInv
  <2>5. ServerFollows
    BY <1>2, <1>6 DEF ServerFollows, S!NewSession
  <2>6. QED
    BY <2>1, <2>2, <2>3, <2>4, <2>5 DEF Line
<1>8. ClientFrame /\ cSession.state = "Disconnected"
  BY <1>2 DEF Init, ClientFrame, Client!Returned, C!Asking, C!NewSession
<1>9. QED
  BY <1>1, <1>3, <1>5, <1>6, <1>7, <1>8 DEF FirstLinkInv, FirstLink, Calm

(* Once there was a second link or an I-frame of the server, there was.    *)
LEMMA PastIsPast ==
  ASSUME LinkOK, Next, connects > 1 \/ sSent # <<>>
  PROVE  connects' > 1 \/ sSent' # <<>>
<1>1. CASE ClientNext
  BY <1>1, ClientMoves DEF LinkOK
<1>2. CASE ServerNext
  <2>1. connects' = connects
    BY <1>2, ServerMoves
  <2>2. sSent' = sSent \/ \E x : sSent' = Append(sSent, x)
    BY <1>2 DEF ServerNext, ServerLog, SentLog
  <2>3. QED
    BY <2>1, <2>2, LogIsSequence DEF LinkOK
<1>3. CASE LoseFrame
  BY <1>3 DEF LoseFrame
<1>4. QED
  BY <1>1, <1>2, <1>3 DEF Next

(* A client that has disconnected stays so until it connects again.        *)
LEMMA ClientStaysAway ==
  ASSUME LinkOK, Next, ~Lenient, C!ClientDone, connects = 1
  PROVE  connects' > 1 \/ (C!ClientDone' /\ connects' = 1)
<1>1. C!ChannelOK
  BY DEF LinkOK
<1>2. CASE ClientNext
  <2>1. CASE ClientConnects
    BY <2>1 DEF ClientConnects
  <2>2. CASE ClientDisconnects
    <3>1. C!DisconnectDataLink /\ connects' = connects
      BY <2>2, ClientActions DEF ClientDisconnects
    <3>2. C!ClientDone' \/ (cCall'.op = "DisconnectDataLink" /\ cCall'.pc = "idle"
                            /\ cSession' = cSession)
      BY <1>1, <3>1, EndAssumptions, C!ClientDisconnectsLink
    <3>3. QED
      BY <3>1, <3>2 DEF C!ClientDone
  <2>3. CASE ClientSends \/ ClientReceives
    BY <2>3 DEF ClientSends, ClientReceives, C!ClientDone
  <2>4. CASE ClientStep
    BY <1>1, <2>4, EndAssumptions, C!ClientStaysDone, ClientActions DEF ClientStep
  <2>5. QED
    BY <1>2, <2>1, <2>2, <2>3, <2>4 DEF ClientNext
<1>3. CASE ServerNext
  BY <1>3 DEF ServerNext, ServerLog, cVars, C!ClientDone
<1>4. CASE LoseFrame
  BY <1>4 DEF LoseFrame, cVars, C!ClientDone
<1>5. QED
  BY <1>2, <1>3, <1>4 DEF Next

(* FirstLinkInv is inductive.                                                   *)
LEMMA LinkGoesOn ==
  ASSUME FirstLinkInv, [Next]_vars
  PROVE  FirstLinkInv'
<1>1. LinkOK /\ LinkOK'
  BY LinkKeepsType DEF FirstLinkInv
<1>2. ASSUME Next, ~Lenient, Window = 1
      PROVE  FirstLink'
  <2>1. CASE connects > 1 \/ sSent # <<>>
    BY <1>1, <1>2, <2>1, PastIsPast DEF FirstLink
  <2>2. CASE C!ClientDone /\ connects = 1
    BY <1>1, <1>2, <2>2, ClientStaysAway DEF FirstLink
  <2>3. CASE Calm
    BY <1>1, <1>2, <2>3, CalmClient, CalmServer, CalmLoss DEF Next, FirstLink
  <2>4. QED
    BY <1>2, <2>1, <2>2, <2>3 DEF FirstLinkInv, FirstLink
<1>3. ASSUME UNCHANGED vars, ~Lenient, Window = 1
      PROVE  FirstLink'
  <2>1. FirstLink
    BY <1>3 DEF FirstLinkInv
  <2>2. UNCHANGED <<c2s, s2c, cOpen, cSession, cPartial, cSegments, cPendingFrames,
                    cPendingApdus, cCall, cWrites, cLinked, sOpen, sSession, sPartial,
                    sSegments, sPendingFrames, sPendingApdus, sCall, sWrites, sLinked,
                    connects, cSent, sSent, cGot, sGot>>
    BY <1>3 DEF vars, cVars, sVars
  <2>3. (C!ClientEnd' <=> C!ClientEnd) /\ (C!ClientDone' <=> C!ClientDone)
    BY <2>2 DEF C!ClientEnd, C!ClientSession, C!ClientCall, C!SentIsAcknowledged, C!ClientDone
  <2>4. ASSUME Calm
        PROVE  Calm'
    <3>1. TakenByServer' = TakenByServer /\ Up' = Up /\ Down' = Down
      BY <2>2 DEF TakenByServer, Up, Down, C!Incoming, S!Incoming
    <3>2. S!Thinned(Up, Up') /\ C!Thinned(Down, Down')
      BY <1>1, <3>1, LineTypes, EndAssumptions, S!NothingLost, C!NothingLost
    <3>3. Line'
      BY <1>1, <2>2, <2>4, <3>1, <3>2, LineQuiet DEF Calm
    <3>4. S!ServerEnd'
      BY <2>2, <2>4, ServerWaits DEF Calm, sVars
    <3>5. ClientFrame'
      <4>1. Newest' = Newest /\ \A f : NewFrame(f)' <=> NewFrame(f)
        BY <2>2 DEF Newest, NewFrame
      <4>2. QED
        BY <2>2, <2>4, <4>1 DEF Calm, ClientFrame
    <3>6. QED
      BY <2>2, <2>3, <2>4, <3>3, <3>4, <3>5 DEF Calm
  <2>5. QED
    BY <2>1, <2>2, <2>3, <2>4 DEF FirstLink
<1>4. QED
  BY <1>1, <1>2, <1>3 DEF FirstLinkInv

-----------------------------------------------------------------------------
(* Both channels keep their types, whatever the two wires do to frames,    *)
(* and a decoder holds the first bytes of a frame only while the rest of   *)
(* it is on the wire.                                                      *)
THEOREM LinkTypeCorrect == Spec => []LinkOK
<1>1. Init => LinkOK
  BY LinkStartsTyped
<1>2. LinkOK /\ [Next]_vars => LinkOK'
  BY LinkKeepsType
<1>3. QED
  BY <1>1, <1>2, PTL DEF Spec

(* With a window of 1, on the first link and while the server sends no     *)
(* APDU, SendApdu of the client returns Ok only when the server has queued *)
(* the APDU and every one before it, if the session of the library refuses *)
(* the frames its state does not expect: with one that accepts them a      *)
(* repeated UA would end the wait for the acknowledgement.                 *)
THEOREM SendIsTaken == Spec => [](~Lenient => SendOkMeansTaken)
<1>1. FirstLinkInv => (~Lenient => SendOkMeansTaken)
  <2>1. SUFFICES ASSUME FirstLinkInv, ~Lenient, cCall.op = "SendApdu", cCall.status = "Ok",
                        Window = 1, connects = 1, sSent = <<>>
                 PROVE  TakenByServer = cSent
    BY DEF SendOkMeansTaken
  <2>2. LinkOK /\ Calm
    BY <2>1 DEF FirstLinkInv, FirstLink, C!ClientDone
  <2>3. cSession.va = cSession.vs
    BY <2>1, <2>2 DEF Calm, C!ClientEnd, C!SentIsAcknowledged
  <2>4. (cSession.va + 1) % SeqModulus # cSession.va
    BY <2>2, LineTypes, EndAssumptions, C!NextDiffers
  <2>5. QED
    BY <2>2, <2>3, <2>4 DEF Calm, Line, Progress, AllTaken
<1>2. QED
  BY <1>1, LinkStarts, LinkGoesOn, PTL DEF Spec
=============================================================================
