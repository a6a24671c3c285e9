---------------------- MODULE WrapperUdpProfileChannel ----------------------
(***************************************************************************)
(* WrapperUdpProfileChannel (src/src/profile/                              *)
(* wrapper_udp_profile_channel.cpp): each APDU is one WPDU in one datagram. *)
(* Each channel is the end of an association, on a transport of its own;   *)
(* what it sends comes to the transport of its Peer.  A call of a channel  *)
(* makes at most one call of the transport and is one action, given the    *)
(* answer of the transport.                                                *)
(***************************************************************************)
EXTENDS ProfileTypes, Integers, Sequences

CONSTANTS
  Channels,    \* the channels
  Peer,        \* the channel at the other end of each
  Lengths,     \* the APDU length that the header of each datagram announces
  Octets,      \* how many octets each datagram has
  Malformed,   \* the datagrams whose header has a wrong version or port
  HeaderSize,  \* kWrapperHeaderSize
  CodecLimit,  \* maximumDataSize of DefaultWrapperCodecLimits
  Capacities   \* sizes of the caller's output buffers

Datagrams == 1..Len(Lengths)

ASSUME DatagramAssumption ==
  /\ Peer \in [Channels -> Channels]
  /\ Lengths \in Seq(Nat) /\ Octets \in [Datagrams -> Nat]
  /\ Malformed \subseteq Datagrams
  /\ {HeaderSize, CodecLimit} \cup Capacities \subseteq Nat

VARIABLES
  open,      \* datagram_.IsOpen()
  network,   \* how many copies of each datagram are under way to each channel
  options,   \* options_, those of them that matter to this channel
  call       \* the last call, what the transport answered, its status, and the
             \* APDU it handed over: how many octets, of which datagram

channelVars == <<open, network, options, call>>

-----------------------------------------------------------------------------
(* The datagrams that EncodeWpdu makes.                                    *)
WellFormed == {d \in Datagrams \ Malformed : Octets[d] = HeaderSize + Lengths[d]}

MaximumDataSize(c) ==
  LET maximum == options[c].maximumApduSize
  IN IF maximum # 0 /\ maximum < CodecLimit THEN maximum ELSE CodecLimit

ScratchSize(c) ==
  IF options[c].scratchBufferSize = 0 THEN 2048 ELSE options[c].scratchBufferSize

(* What the wrapper library says of the first n octets of a datagram.      *)
DecodeWpdu(d, n, limit) ==
  IF n < HeaderSize THEN "NeedMoreData"
  ELSE IF d \in Malformed THEN "InvalidVersion"
  ELSE IF Lengths[d] > limit THEN "DataTooLarge"
  ELSE IF n < HeaderSize + Lengths[d] THEN "NeedMoreData"
  ELSE IF n > HeaderSize + Lengths[d] THEN "InvalidLength"
  ELSE "Ok"

-----------------------------------------------------------------------------
Nothing == [datagram |-> 0, size |-> 0]

Returned(op, answer, status) ==
  [op |-> op, answer |-> answer, status |-> status, apdu |-> Nothing]
Return(op, answer, status) == call' = Returned(op, answer, status)

OptionsRead(given) ==
  [maximumApduSize |-> given.maximumApduSize, scratchBufferSize |-> given.scratchBufferSize]

NewChannel(c, given) == options' = [options EXCEPT ![c] = OptionsRead(given)]

Open(c, answer) ==
  /\ open' = [open EXCEPT ![c] = @ \/ answer = "Ok"]
  /\ Return("Open", answer, MapTransportStatus(answer))
  /\ UNCHANGED <<network, options>>

Close(c, answer) ==
  /\ open' = [open EXCEPT ![c] = @ /\ answer # "Ok"]
  /\ Return("Close", answer, MapTransportStatus(answer))
  /\ UNCHANGED <<network, options>>

SendStatus(c, size) ==
  IF options[c].maximumApduSize # 0 /\ size > options[c].maximumApduSize
  THEN "PayloadTooLarge"
  ELSE MapWrapperStatus(IF size > MaximumDataSize(c) THEN "DataTooLarge" ELSE "Ok")

(* The answer is "none" when the call ends before it comes to the          *)
(* transport.  A transport that reports a failure may have sent the        *)
(* datagram or not.                                                        *)
SendApdu(c, d, answer) ==
  /\ \/ /\ answer = "none"
        /\ \/ Return("SendApdu", "none", "InvalidArgument")
           \/ /\ SendStatus(c, Lengths[d]) # "Ok"
              /\ Return("SendApdu", "none", SendStatus(c, Lengths[d]))
           \/ SendStatus(c, Lengths[d]) = "Ok" /\ Return("SendApdu", "none", "exception")
        /\ UNCHANGED network
     \/ /\ answer # "none" /\ SendStatus(c, Lengths[d]) = "Ok"
        /\ answer = "Ok" => open[c]
        /\ Return("SendApdu", answer, MapTransportStatus(answer))
        /\ \/ network' = [network EXCEPT ![<<Peer[c], d>>] = @ + 1]
           \/ answer # "Ok" /\ UNCHANGED network
  /\ UNCHANGED <<open, options>>

(* A slip: a truncated datagram is reported as the decoder does.           *)
FrameStatusAsIs(c, d, n) == MapWrapperStatus(DecodeWpdu(d, n, MaximumDataSize(c)))

(* The first n octets of a datagram were read, over what older ones left   *)
(* in readBuffer_, and only those are decoded.                             *)
FrameStatus(c, d, n) ==
  LET status == MapWrapperStatus(DecodeWpdu(d, n, MaximumDataSize(c)))
  IN IF status = "NeedMoreData" /\ n # 0 THEN "InvalidLength" ELSE status

HandOver(d, size) ==
  call' = [Returned("ReceiveApdu", "Ok", "Ok") EXCEPT !.apdu = [datagram |-> d, size |-> size]]

(* A slip: as much of the APDU is copied as the buffer takes.              *)
CopyWhatFits(d) ==
  \E capacity \in Capacities :
    HandOver(d, IF capacity < Lengths[d] THEN capacity ELSE Lengths[d])

CopyFrameData(d) ==
  \E capacity \in Capacities :
    \/ capacity < Lengths[d] /\ Return("ReceiveApdu", "Ok", "OutputBufferTooSmall")
    \/ capacity >= Lengths[d] /\ HandOver(d, Lengths[d])

(* The transport cuts a datagram that is longer than readBuffer_.          *)
ReceiveFrame(c, d) ==
  LET n == IF Octets[d] < ScratchSize(c) THEN Octets[d] ELSE ScratchSize(c)
      status == FrameStatus(c, d, n)
  IN IF status # "Ok" THEN Return("ReceiveApdu", "Ok", status)
     ELSE Return("ReceiveApdu", "Ok", "exception") \/ CopyFrameData(d)

ReceiveApdu(c, answer) ==
  /\ \/ /\ answer = "none" /\ Return("ReceiveApdu", "none", "InvalidArgument")
        /\ UNCHANGED network
     \/ /\ answer \notin {"none", "Ok"}
        /\ Return("ReceiveApdu", answer, MapTransportStatus(answer))
        /\ UNCHANGED network
     \/ /\ answer = "Ok" /\ open[c]
        /\ Return("ReceiveApdu", "Ok", "NeedMoreData")
        /\ UNCHANGED network
     \/ /\ answer = "Ok" /\ open[c]
        /\ \E d \in Datagrams :
             /\ network[<<c, d>>] > 0
             /\ network' = [network EXCEPT ![<<c, d>>] = @ - 1]
             /\ ReceiveFrame(c, d)
  /\ UNCHANGED <<open, options>>

ChannelInit ==
  /\ open = [c \in Channels |-> FALSE]
  /\ network = [p \in Channels \X Datagrams |-> 0]
  /\ options = [c \in Channels |-> OptionsRead(DefaultApduChannelOptions)]
  /\ call = Returned("none", "none", "Ok")
=============================================================================
