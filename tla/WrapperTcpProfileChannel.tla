---------------------- MODULE WrapperTcpProfileChannel ----------------------
(***************************************************************************)
(* WrapperTcpProfileChannel (src/src/profile/                              *)
(* wrapper_tcp_profile_channel.cpp): APDUs as WPDUs on a byte stream that  *)
(* may be split anywhere.  ReceiveApdu is a sequence of reads, between     *)
(* which the peer writes and the stream may break.  The trace sink is not  *)
(* modelled: it is given copies of what happens and answers nothing.       *)
(***************************************************************************)
EXTENDS ProfileTypes, Integers, Sequences

CONSTANTS
  Lengths,       \* the APDU length that the header of each WPDU announces
  Malformed,     \* the WPDUs whose header has a wrong version or port
  MaxApduSize,   \* options_.maximumApduSize, 0 for no maximum
  CodecLimit,    \* maximumDataSize of DefaultWrapperCodecLimits
  ScratchSize,   \* readBuffer_.size()
  Capacities,    \* sizes of the caller's output buffers
  OutgoingSizes, \* sizes of the APDUs the application sends
  ReadFailures,  \* statuses of a failing ReadSome; NeedMoreData for 0 bytes
  WriteFailures, \* statuses of a failing WriteAll
  StreamFailures, \* statuses of a failing stream Open or Close
  WireCapacity   \* bound on the written WPDUs the peer has not read

ASSUME ChannelAssumption ==
  /\ Lengths \in Seq(Nat)
  /\ {MaxApduSize, CodecLimit} \cup Capacities \cup OutgoingSizes \subseteq Nat
  /\ ScratchSize \in Nat \ {0}
  /\ ReadFailures \cup WriteFailures \cup StreamFailures
       \subseteq ProfileStatus \ {"Ok", "InvalidFrame", "PayloadTooLarge"}
  /\ WireCapacity \in Nat

VARIABLES
  rx,             \* the octets under way to this channel
  tx,             \* the sizes of the APDUs in the WPDUs under way to the peer
  open,           \* stream_.IsOpen()
  decoder,        \* decoder_: the octets kept for the next Push
  pendingFrames,  \* pendingFrames_: the APDUs in it
  call            \* the call in progress, or the last one and its status

stream == <<rx, tx, open>>
channelVars == <<stream, decoder, pendingFrames, call>>

-----------------------------------------------------------------------------
(* WPDUs.  Octet <<i, j>> is the j-th of the APDU in WPDU i; <<i, 0>>      *)
(* stands for its header, of whose octets only all together tell anything. *)

Wpdus == 1..Len(Lengths)
Octet == {o \in Wpdus \X Nat : o[2] <= Lengths[o[1]]}
Wpdu(i) == [k \in 1..(Lengths[i] + 1) |-> <<i, k - 1>>]
Apdu(i) == Tail(Wpdu(i))

MaximumDataSize ==
  IF MaxApduSize # 0 /\ MaxApduSize < CodecLimit THEN MaxApduSize ELSE CodecLimit

IsHeader(octet) ==
  octet[2] = 0 /\ octet[1] \notin Malformed /\ Lengths[octet[1]] <= MaximumDataSize

(* WrapperStreamDecoder: the frames in octets, what is left behind them,   *)
(* and whether that begins with something that is no header.               *)
Decoded(octets) ==
  LET left(n) == SubSeq(octets, Len(octets) - n + 1, Len(octets))
      D[n \in 0..Len(octets)] ==
        LET header == left(n)[1]
            size == 1 + Lengths[header[1]]
        IN IF n = 0 \/ ~IsHeader(header) \/ n < size
           THEN [frames |-> <<>>, rest |-> left(n), bad |-> n > 0 /\ ~IsHeader(header)]
           ELSE [D[n - size] EXCEPT !.frames = <<SubSeq(left(n), 2, size)>> \o @]
  IN D[Len(octets)]

DecodeErrors == {MapWrapperStatus(s) : s \in {"InvalidVersion", "DataTooLarge"}}
DecodeError(octet) ==
  MapWrapperStatus(IF octet[2] = 0 /\ octet[1] \notin Malformed
                   THEN "DataTooLarge" ELSE "InvalidVersion")

(* An error behind complete frames may be reported at once, without them,  *)
(* or by the next Push.                                                    *)
Push(octets) ==
  LET d == Decoded(octets)
      good == [status |-> IF d.frames = <<>> THEN "NeedMoreData" ELSE "Ok",
               frames |-> d.frames, rest |-> d.rest]
      error == [status |-> DecodeError(d.rest[1]), frames |-> <<>>, rest |-> <<>>]
  IN IF ~d.bad THEN {good} ELSE IF d.frames = <<>> THEN {error} ELSE {good, error}

-----------------------------------------------------------------------------
Returned(op, status) == [op |-> op, pc |-> "idle", status |-> status, capacity |-> 0]
Idle == call.pc = "idle"
Return(op, status) == call' = Returned(op, status)

Open ==
  /\ Idle
  /\ \/ open /\ Return("Open", "AlreadyOpen") /\ UNCHANGED open
     \/ ~open /\ Return("Open", "Ok") /\ open' = TRUE
     \/ ~open /\ (\E s \in StreamFailures : Return("Open", s)) /\ UNCHANGED open
  /\ UNCHANGED <<rx, tx, decoder, pendingFrames>>

(* A slip: Close leaves the decoder as it is.                              *)
ClearKeepingDecoder == pendingFrames' = <<>> /\ UNCHANGED decoder
Clear == decoder' = <<>> /\ pendingFrames' = <<>>

Close ==
  /\ Idle
  /\ Clear
  /\ \/ Return("Close", "Ok") /\ open' = FALSE /\ rx' = <<>>
     \/ (\E s \in StreamFailures : Return("Close", s)) /\ UNCHANGED <<open, rx>>
  /\ UNCHANGED tx

SendStatus(size) ==
  IF (MaxApduSize # 0 /\ size > MaxApduSize) \/ size > MaximumDataSize
  THEN "PayloadTooLarge" ELSE IF ~open THEN "NotOpen" ELSE "Ok"

SendApdu(size) ==
  /\ Idle
  /\ \/ \E s \in {"InvalidArgument", SendStatus(size)} :
          s # "Ok" /\ Return("SendApdu", s) /\ UNCHANGED tx
     \/ /\ SendStatus(size) = "Ok"
        /\ \/ /\ Len(tx) < WireCapacity
              /\ Return("SendApdu", "Ok") /\ tx' = Append(tx, size)
           \/ (\E s \in WriteFailures : Return("SendApdu", s)) /\ UNCHANGED tx
  /\ UNCHANGED <<rx, open, decoder, pendingFrames>>

ReceiveApdu(capacity) ==
  /\ Idle
  /\ \/ Return("ReceiveApdu", "InvalidArgument")
     \/ call' = [op |-> "ReceiveApdu", pc |-> "receive", status |-> "Pending",
                 capacity |-> capacity]
  /\ UNCHANGED <<stream, decoder, pendingFrames>>

(* A slip: what is left behind the last complete frame is dropped.         *)
KeepNothing(p) == decoder' = <<>>
KeepRest(p) == decoder' = p.rest

(* A slip: octets that cannot be decoded are skipped.                      *)
AfterPushReadOn(status) == UNCHANGED call
AfterPush(status) ==
  IF status \in {"Ok", "NeedMoreData"} THEN UNCHANGED call ELSE Return("ReceiveApdu", status)

(* The sink is shown the frames before they are queued.  When it closes    *)
(* the channel they are queued all the same, behind what Close cleared.    *)
SinkCloses(p) == open' = FALSE /\ rx' = <<>> /\ decoder' = <<>>

(* One round of ReceiveNextFrame: the octets of one read are decoded, and  *)
(* the loop ends with a frame or an error.  When the sink throws, the      *)
(* frames are dropped and the decoder is reset.                            *)
ReadAndDecode ==
  \E n \in 1..Len(rx) :
    /\ n <= ScratchSize
    /\ \E p \in Push(decoder \o SubSeq(rx, 1, n)) :
         \/ /\ \/ KeepRest(p) /\ rx' = SubSeq(rx, n + 1, Len(rx)) /\ UNCHANGED open
               \/ p.frames # <<>> /\ SinkCloses(p)
            /\ pendingFrames' = pendingFrames \o p.frames
            /\ AfterPush(p.status)
         \/ /\ p.frames # <<>> /\ Clear /\ Return("ReceiveApdu", "InternalError")
            /\ rx' = SubSeq(rx, n + 1, Len(rx)) /\ UNCHANGED open

ReceiveNextFrame ==
  /\ call.pc = "receive"
  /\ pendingFrames = <<>>
  /\ \/ open /\ ReadAndDecode
     \/ /\ \E s \in IF open THEN ReadFailures ELSE {"NotOpen"} : Return("ReceiveApdu", s)
        /\ UNCHANGED <<rx, open, decoder, pendingFrames>>
  /\ UNCHANGED tx

(* Slips: a frame that does not fit is consumed all the same; a frame that *)
(* was copied is not.                                                      *)
TakeAlways(fits) == pendingFrames' = Tail(pendingFrames)
TakeNever(fits) == UNCHANGED pendingFrames
TakeIf(fits) == pendingFrames' = IF fits THEN Tail(pendingFrames) ELSE pendingFrames

CopyFirstPendingFrame ==
  /\ call.pc = "receive"
  /\ pendingFrames # <<>>
  /\ LET fits == Len(Head(pendingFrames)) <= call.capacity
     IN /\ TakeIf(fits)
        /\ Return("ReceiveApdu", IF fits THEN "Ok" ELSE "OutputBufferTooSmall")
  /\ UNCHANGED <<stream, decoder>>

ChannelInit ==
  /\ rx = <<>> /\ tx = <<>> /\ open = FALSE
  /\ decoder = <<>> /\ pendingFrames = <<>>
  /\ call = Returned("Open", "Pending")
=============================================================================
