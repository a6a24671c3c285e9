------------------------------ MODULE HdlcLink ------------------------------
(***************************************************************************)
(* A client and a server HdlcProfileChannel joined by two streams of       *)
(* frames, on which frames may be lost.  The applications set the link up  *)
(* whenever their session is not connected, and send and receive over it;  *)
(* the streams stay open.                                                  *)
(***************************************************************************)
EXTENDS Integers, Sequences

CONSTANTS
  SeqModulus, Window, Lenient, Octets,
  RetryCount, CounterModulus, MaxApduSize, MaxInformation, CodecLimit,
  DefaultReassemblyLimit, ReadFailures, WriteFailures, Fragmented, WireCapacity,
  ClientApdus,   \* the sequence of APDUs the client sends
  ServerApdus,   \* the sequence of APDUs the server sends
  MaxConnects,   \* bound on the calls of ConnectDataLink
  Disconnects,   \* whether the client may call DisconnectDataLink
  RequestReply,  \* whether each side waits for its turn, as COSEM peers do
  Lossy          \* whether the wires lose frames

VARIABLES
  c2s, s2c,
  cOpen, cSession, cPartial, cSegments, cPendingFrames, cPendingApdus,
  cCall, cWrites, cLinked,
  sOpen, sSession, sPartial, sSegments, sPendingFrames, sPendingApdus,
  sCall, sWrites, sLinked,
  connects,      \* how often ConnectDataLink was called
  cSent, sSent,  \* history: the APDUs of which an I-frame was built
  cGot, sGot     \* history: the APDUs handed to the application

Client ==
  INSTANCE HdlcProfileChannel WITH
    Role <- "Client", UseSession <- TRUE, AddressesValid <- TRUE,
    LineNoise <- FALSE, Capacities <- {},
    StreamFailures <- {}, SleepFailures <- {},
    rx <- s2c, tx <- c2s, open <- cOpen, session <- cSession,
    partial <- cPartial, segments <- cSegments,
    pendingHdlcFrames <- cPendingFrames, pendingApdus <- cPendingApdus,
    call <- cCall, writes <- cWrites, linked <- cLinked

Server ==
  INSTANCE HdlcProfileChannel WITH
    Role <- "Server", UseSession <- TRUE, AddressesValid <- TRUE,
    LineNoise <- FALSE, Capacities <- {},
    StreamFailures <- {}, SleepFailures <- {},
    rx <- c2s, tx <- s2c, open <- sOpen, session <- sSession,
    partial <- sPartial, segments <- sSegments,
    pendingHdlcFrames <- sPendingFrames, pendingApdus <- sPendingApdus,
    call <- sCall, writes <- sWrites, linked <- sLinked

(* The parameters of each channel are in range, and APDUs are octets.      *)
ASSUME LinkAssumption ==
  /\ Client!SessionAssumption /\ Client!ChannelAssumption /\ Server!ChannelAssumption
  /\ ClientApdus \in Seq(Seq(Octets)) /\ ServerApdus \in Seq(Seq(Octets))

cVars == <<cOpen, cSession, cPartial, cSegments, cPendingFrames, cPendingApdus,
           cCall, cWrites, cLinked>>
sVars == <<sOpen, sSession, sPartial, sSegments, sPendingFrames, sPendingApdus,
           sCall, sWrites, sLinked>>
vars == <<c2s, s2c, cVars, sVars, connects, cSent, sSent, cGot, sGot>>

-----------------------------------------------------------------------------
Init ==
  /\ c2s = <<>> /\ s2c = <<>>
  /\ cOpen = TRUE /\ sOpen = TRUE
  /\ cSession = Client!NewSession /\ sSession = Server!NewSession
  /\ cPartial = FALSE /\ sPartial = FALSE
  /\ cSegments = <<>> /\ sSegments = <<>>
  /\ cPendingFrames = <<>> /\ sPendingFrames = <<>>
  /\ cPendingApdus = <<>> /\ sPendingApdus = <<>>
  /\ cCall = Client!Returned("Open", "Ok") /\ sCall = Server!Returned("Open", "Ok")
  /\ cWrites = 0 /\ sWrites = 0
  /\ cLinked = FALSE /\ sLinked = FALSE
  /\ connects = 0
  /\ cSent = <<>> /\ sSent = <<>> /\ cGot = <<>> /\ sGot = <<>>

(* An APDU counts as sent when the first of its I-frames is built.         *)
SentLog(sent, before, after) ==
  IF /\ before.pc \in {"send", "build"}
     /\ after.pc = "write"
     /\ Head(before.unsent) = Client!LlcHeader
  THEN Append(sent, Client!DecodeLpdu(before.unsent)) ELSE sent

GotLog(got, before, after) ==
  IF before # <<>> /\ after = <<>> THEN Append(got, Head(before)) ELSE got

ClientLog ==
  /\ Client!LinkHistory
  /\ cSent' = SentLog(cSent, cCall, cCall')
  /\ cGot' = GotLog(cGot, cPendingApdus, cPendingApdus')
  /\ UNCHANGED <<sVars, sSent, sGot>>

ServerLog ==
  /\ Server!LinkHistory
  /\ sSent' = SentLog(sSent, sCall, sCall')
  /\ sGot' = GotLog(sGot, sPendingApdus, sPendingApdus')
  /\ UNCHANGED <<cVars, cSent, cGot, connects>>

-----------------------------------------------------------------------------
(* The applications: set up the link, then send and receive over it, at    *)
(* will or, as RequestReply, one request and its reply at a time.          *)

ReplyOwed == Len(sSent) < Len(sGot)
RequestOpen == Len(cGot) < Len(cSent)

AnyCapacity == MaxApduSize + Len(ClientApdus) + Len(ServerApdus) + 9

ClientConnects ==
  /\ cSession.state # "Connected"
  /\ connects < MaxConnects
  /\ connects' = connects + 1
  /\ Client!ConnectDataLink

ClientDisconnects ==
  Disconnects /\ Client!DisconnectDataLink /\ UNCHANGED connects

ClientSends ==
  /\ cSession.state = "Connected"
  /\ Len(cSent) < Len(ClientApdus)
  /\ RequestReply => ~RequestOpen
  /\ Client!SendApdu(ClientApdus[Len(cSent) + 1])
  /\ cCall'.pc # "idle"
  /\ UNCHANGED connects

ClientReceives ==
  /\ cSession.state = "Connected"
  /\ Len(ServerApdus) > 0
  /\ RequestReply => RequestOpen
  /\ Client!ReceiveApdu(AnyCapacity)
  /\ cCall'.pc # "idle"
  /\ UNCHANGED connects

ClientStep == Client!Step /\ UNCHANGED connects

ServerAccepts == sSession.state # "Connected" /\ Server!AcceptDataLink

ServerSends ==
  /\ sSession.state = "Connected"
  /\ Len(sSent) < Len(ServerApdus)
  /\ RequestReply => ReplyOwed
  /\ Server!SendApdu(ServerApdus[Len(sSent) + 1])
  /\ sCall'.pc # "idle"

ServerReceives ==
  /\ sSession.state = "Connected"
  /\ RequestReply => ~ReplyOwed
  /\ Server!ReceiveApdu(AnyCapacity)
  /\ sCall'.pc # "idle"

ClientNext ==
  /\ \/ ClientConnects \/ ClientDisconnects \/ ClientSends \/ ClientReceives
     \/ ClientStep
  /\ ClientLog

ServerNext ==
  /\ \/ ServerAccepts \/ ServerSends \/ ServerReceives \/ Server!Step
  /\ ServerLog

(* A frame that is not half-read is lost.                                  *)
Without(wire, i) == SubSeq(wire, 1, i - 1) \o SubSeq(wire, i + 1, Len(wire))

LoseFrame ==
  /\ Lossy
  /\ \/ /\ \E i \in 1..Len(c2s) : ~(i = 1 /\ sPartial) /\ c2s' = Without(c2s, i)
        /\ UNCHANGED s2c
     \/ /\ \E i \in 1..Len(s2c) : ~(i = 1 /\ cPartial) /\ s2c' = Without(s2c, i)
        /\ UNCHANGED c2s
  /\ UNCHANGED <<cVars, sVars, connects, cSent, sSent, cGot, sGot>>

Next == ClientNext \/ ServerNext \/ LoseFrame

Spec == Init /\ [][Next]_vars

(* Both applications keep calling, and a call that was made runs on.       *)
FairSpec == Spec /\ WF_vars(ClientNext) /\ WF_vars(ServerNext)

-----------------------------------------------------------------------------
(* The positions in sequence all of the APDUs in got; 0 for one that is    *)
(* not there, such as an APDU put together from the segments of two.       *)
Positions(got, all) ==
  [k \in 1..Len(got) |->
     IF \E i \in 1..Len(all) : all[i] = got[k]
     THEN CHOOSE i \in 1..Len(all) : all[i] = got[k] ELSE 0]

ToServer == INSTANCE ApduDelivery WITH
  Apdus <- {ClientApdus[i] : i \in 1..Len(ClientApdus)},
  sent <- cSent, delivered <- Positions(sGot, ClientApdus)

ToClient == INSTANCE ApduDelivery WITH
  Apdus <- {ServerApdus[i] : i \in 1..Len(ServerApdus)},
  sent <- sSent, delivered <- Positions(cGot, ServerApdus)

(* Two channels implement ApduDelivery in both directions: whatever frames *)
(* are lost, repeated after a timeout or left over from an earlier link,   *)
(* ReceiveApdu returns the APDUs given to SendApdu unchanged, in order and *)
(* none of them twice.                                                     *)
DeliveryToServer == ToServer!Spec
DeliveryToClient == ToClient!Spec

TakenByServer == sGot \o sPendingApdus

TakenLast == TakenByServer # <<>> /\ TakenByServer[Len(TakenByServer)] = cSent[Len(cSent)]

(* With a window of 1, on the first link, and as long as the server has no *)
(* APDU of its own, SendApdu of the client returns Ok only when the server *)
(* has queued the APDU and every one before it: no late or repeated answer *)
(* is mistaken for its acknowledgement, and no frame whose retries went    *)
(* unanswered, with V(S) past it, is forgotten when the next is sent.      *)
SendOkMeansTaken ==
  /\ cCall.op = "SendApdu" /\ cCall.status = "Ok"
  /\ Window = 1 /\ connects = 1 /\ sSent = <<>>
  => TakenByServer = cSent

(* On wires that lose nothing, with reads that wait for whole frames, the  *)
(* link comes up and every request and reply is delivered, with sequence   *)
(* numbers that wrap: the two ends never wait on each other for good.      *)
AllDelivered == <>(sGot = ClientApdus /\ cGot = ServerApdus)

-----------------------------------------------------------------------------
(* What the documents say and the code does not keep.                      *)

(* docs/00_profile_requirements.md:55: "HDLC session send completes only   *)
(* after the peer acknowledges the emitted I-frame sequence".  With a      *)
(* window of 2 the late RR of an APDU whose send timed out ends the wait   *)
(* of the next SendApdu, which returns Ok with its frame unacknowledged.   *)
SendCompletesWhenTaken ==
  cCall.op = "SendApdu" /\ cCall.status = "Ok" => TakenLast

(* docs/00_profile_requirements.md:44: "transparent reliable/segmented     *)
(* DL-DATA service".  On a first link with unsegmented APDUs, what the     *)
(* session took in is what ReceiveApdu returned or will return.  But when  *)
(* the RR for a request is lost, the reply ends the wait of SendApdu: the  *)
(* session takes it in, refuses it when it is repeated, and no ReceiveApdu *)
(* ever returns it.                                                        *)
TakenInIsReceived ==
  cSession.state = "Connected" =>
    cSession.vr = (Len(cGot) + Len(cPendingApdus)) % SeqModulus

(* The same sentence, of a segmented APDU: the receiving channel writes RR *)
(* for the last segment only, and the sending one waits for an answer to   *)
(* the first, each waiting for the other.                                  *)
SegmentedSendReturns == cCall.op = "SendApdu" /\ cCall.pc # "idle" ~> cCall.pc = "idle"
=============================================================================
