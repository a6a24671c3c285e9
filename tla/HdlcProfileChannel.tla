------------------------- MODULE HdlcProfileChannel -------------------------
(***************************************************************************)
(* One HdlcProfileChannel (src/src/profile/hdlc_profile_channel.cpp) over  *)
(* a byte stream that carries whole frames.  A call of the channel is a    *)
(* sequence of steps with at most one stream or timer call each, so the    *)
(* peer and the wire move between any two of them.  The channel itself is  *)
(* single-threaded: a call starts only when the last one has returned.     *)
(***************************************************************************)
EXTENDS HdlcSession

CONSTANTS
  Role,            \* options_.hdlcRole
  UseSession,      \* options_.hdlcUseSession
  AddressesValid,  \* whether the HDLC addresses of options_ can be encoded
  RetryCount,      \* options_.hdlcRetryCount
  CounterModulus,  \* 2^8 in the code: the range of the uint8_t attempt counter
  MaxApduSize,     \* options_.maximumApduSize, 0 for no maximum
  MaxInformation,  \* negotiated maxInformationFieldLengthTransmit, 0 for none
  CodecLimit,      \* hdlcLimits_.maximumInformationFieldSize without a session
  DefaultReassemblyLimit,
  Capacities,      \* sizes of the caller's output buffers
  ReadFailures,    \* statuses of a failing ReadSome; NeedMoreData for 0 bytes
  WriteFailures,   \* statuses of a failing WriteAll
  StreamFailures,  \* statuses of a failing stream Open or Close
  SleepFailures,   \* statuses of a failing timer SleepFor
  Fragmented,      \* whether a read may end within a frame
  LineNoise,       \* whether received bytes may be damaged
  WireCapacity     \* bound on the written frames the peer has not read

ASSUME ChannelAssumption ==
  /\ Role \in {"Client", "Server"}
  /\ {UseSession, AddressesValid, Fragmented, LineNoise} \subseteq BOOLEAN
  /\ CounterModulus \in Nat \ {0}
  /\ RetryCount \in 0..(CounterModulus - 1)
  /\ {MaxApduSize, MaxInformation, CodecLimit, DefaultReassemblyLimit} \subseteq Nat
  /\ Capacities \subseteq Nat
  /\ ReadFailures \cup WriteFailures \cup StreamFailures \cup SleepFailures
       \subseteq ProfileStatus \ {"Ok"}

VARIABLES
  rx, tx,             \* frames under way to and from this channel
  open,               \* stream_.IsOpen()
  session,            \* session_
  partial,            \* decoder_ holds the first bytes of Head(rx)
  segments,           \* reassembler_
  pendingHdlcFrames,
  pendingApdus,
  call,               \* the call in progress, or the last one and its status
  writes,             \* history: how often call.frame was given to WriteAll
  linked              \* history: a set-up completed since the stream opened

stream == <<rx, tx, open>>
buffers == <<partial, segments, pendingHdlcFrames, pendingApdus>>
vars == <<stream, session, buffers, call, writes, linked>>

-----------------------------------------------------------------------------
(* Calls.  pc is where the call stands: about to write call.frame, waiting *)
(* for the answer, about to sleep before a retry, about to build the next  *)
(* I-frame ("send", or "build" once the window was waited for), waiting    *)
(* for SNRM ("accept"), or in the receive loop.                            *)

NoFrame == UFrame("DISC")

Returned(op, status) ==
  [op |-> op, pc |-> "idle", status |-> status, frame |-> NoFrame,
   attempt |-> 0, unsent |-> <<>>, capacity |-> 0]

Idle == call.pc = "idle"

Return(op, status) == call' = Returned(op, status) /\ writes' = 0

Enter(op, pc) == call' = [Returned(op, "Pending") EXCEPT !.pc = pc] /\ writes' = 0

Goto(pc) == call' = [call EXCEPT !.pc = pc] /\ UNCHANGED writes

StartWrite(op, f, unsent) ==
  /\ call' = [Returned(op, "Pending") EXCEPT
                !.pc = "write", !.frame = f, !.unsent = unsent]
  /\ writes' = 0

-----------------------------------------------------------------------------
(* The stream and the decoder.                                             *)

Undecoded == IF partial THEN Tail(rx) ELSE rx

ResetDecoder == partial' = FALSE /\ rx' = Undecoded

WriteAll(f) ==
  /\ open
  /\ Len(tx) < WireCapacity
  /\ tx' = Append(tx, f)

WriteFails(status) ==
  \/ ~open /\ status = "NotOpen" /\ UNCHANGED tx
  \/ open /\ status \in WriteFailures /\ UNCHANGED tx

NextFrame == Head(pendingHdlcFrames \o rx)

(* A frame is decoded: a queued one, or the first of the n frames that one *)
(* read completes; the read may end within the frame after them.           *)
FrameDecoded ==
  \/ /\ pendingHdlcFrames # <<>>
     /\ pendingHdlcFrames' = Tail(pendingHdlcFrames)
     /\ UNCHANGED <<rx, partial>>
  \/ /\ pendingHdlcFrames = <<>>
     /\ open
     /\ \E n \in 1..Len(rx) :
          /\ pendingHdlcFrames' = SubSeq(rx, 2, n)
          /\ rx' = SubSeq(rx, n + 1, Len(rx))
          /\ partial' \in {b \in BOOLEAN : b => Fragmented /\ n < Len(rx)}

(* No frame: the stream is closed, the read fails (after reads that gave   *)
(* part of a frame, perhaps), a read gives part of a frame only, or the    *)
(* bytes of n frames are damaged and all of them are dropped.              *)
NoFrameDecoded(status) ==
  /\ pendingHdlcFrames = <<>>
  /\ UNCHANGED pendingHdlcFrames
  /\ \/ ~open /\ status = "NotOpen" /\ UNCHANGED <<rx, partial>>
     \/ /\ open /\ status \in ReadFailures
        /\ partial' \in {b \in BOOLEAN :
             (partial => b) /\ (b => partial \/ (Fragmented /\ rx # <<>>))}
        /\ UNCHANGED rx
     \/ /\ open /\ Fragmented /\ rx # <<>> /\ status = "NeedMoreData"
        /\ partial' = TRUE
        /\ UNCHANGED rx
     \/ /\ open /\ LineNoise /\ status = Refusal
        /\ partial' = FALSE
        /\ \E n \in 1..Len(rx) : rx' = SubSeq(rx, n + 1, Len(rx))

ReadStatuses == {"NotOpen", "NeedMoreData", Refusal} \cup ReadFailures

IsRetriableReceiveStatus(status) == status \in {"WouldBlock", "Timeout", "NeedMoreData"}

-----------------------------------------------------------------------------
(* Open and Close.  Close clears all but the session.                      *)

Open ==
  /\ Idle
  /\ \/ open /\ Return("Open", "AlreadyOpen") /\ UNCHANGED open
     \/ ~open /\ Return("Open", "Ok") /\ open' = TRUE
     \/ ~open /\ (\E s \in StreamFailures : Return("Open", s)) /\ UNCHANGED open
  /\ UNCHANGED <<rx, tx, session, buffers>>

(* A slip: Close forgets pendingHdlcFrames_.                               *)
ClearKeepingFrames ==
  partial' = FALSE /\ segments' = <<>> /\ pendingApdus' = <<>> /\ UNCHANGED pendingHdlcFrames

ClearBuffers ==
  /\ partial' = FALSE
  /\ segments' = <<>>
  /\ pendingHdlcFrames' = <<>>
  /\ pendingApdus' = <<>>

Close ==
  /\ Idle
  /\ ClearBuffers
  /\ \/ Return("Close", "Ok") /\ open' = FALSE /\ rx' = <<>>
     \/ (\E s \in StreamFailures : Return("Close", s)) /\ open' = open /\ rx' = Undecoded
  /\ UNCHANGED <<tx, session>>

-----------------------------------------------------------------------------
(* ConnectDataLink, AcceptDataLink and DisconnectDataLink.                 *)

LinkStatus(role) ==
  IF ~UseSession THEN "UnsupportedFeature"
  ELSE IF ~open THEN "NotOpen"
  ELSE IF Role # role THEN "UnsupportedFeature"
  ELSE IF ~AddressesValid THEN "InvalidAddress" ELSE "Ok"

EnsuredSession == IF session.state = "Disconnected" THEN NewSession ELSE session

EnsureSession ==
  IF session.state = "Disconnected"
  THEN ResetDecoder /\ segments' = <<>> /\ pendingHdlcFrames' = <<>>
  ELSE UNCHANGED <<partial, rx, segments, pendingHdlcFrames>>

Refuse(op, status) ==
  /\ status # "Ok"
  /\ Return(op, status)
  /\ UNCHANGED <<stream, session, buffers>>

ConnectDataLink ==
  /\ Idle
  /\ \/ Refuse("ConnectDataLink", LinkStatus("Client"))
     \/ /\ LinkStatus("Client") = "Ok"
        /\ EnsureSession
        /\ \E o \in BuildConnectRequest(EnsuredSession) :
             /\ session' = o.session
             /\ IF o.status = "Ok"
                THEN StartWrite("ConnectDataLink", UFrame("SNRM"), <<>>)
                ELSE Return("ConnectDataLink", o.status)
        /\ UNCHANGED <<tx, open, pendingApdus>>

AcceptDataLink ==
  /\ Idle
  /\ \/ Refuse("AcceptDataLink", LinkStatus("Server"))
     \/ /\ LinkStatus("Server") = "Ok"
        /\ EnsureSession
        /\ session' = EnsuredSession
        /\ Enter("AcceptDataLink", "accept")
        /\ UNCHANGED <<tx, open, pendingApdus>>

(* A slip: any frame the session accepts is answered with UA.              *)
ConnectAnswerToAny(o) == o

(* An accepted frame is answered if it left a set-up to answer.            *)
ConnectAnswer(o) == IF o.status = "Ok" THEN BuildConnectResponse(o.session) ELSE o

AwaitConnectRequest ==
  /\ call.pc = "accept"
  /\ \/ /\ \E s \in ReadStatuses : NoFrameDecoded(s) /\ Return("AcceptDataLink", s)
        /\ UNCHANGED session
     \/ /\ FrameDecoded
        /\ \E o \in ReceiveFrame(Role, session, NextFrame) :
             LET answer == ConnectAnswer(o)
             IN /\ session' = answer.session
                /\ IF answer.status = "Ok"
                   THEN StartWrite("AcceptDataLink", UFrame("UA"), <<>>)
                   ELSE Return("AcceptDataLink", answer.status)
  /\ UNCHANGED <<tx, open, segments, pendingApdus>>

DisconnectDataLink ==
  /\ Idle
  /\ \/ ~UseSession /\ Refuse("DisconnectDataLink", "UnsupportedFeature")
     \/ UseSession /\ ~open /\ Refuse("DisconnectDataLink", "NotOpen")
     \/ /\ UseSession /\ open
        /\ \E o \in BuildDisconnectRequest(session) :
             /\ session' = o.session
             /\ IF o.status = "Ok"
                THEN StartWrite("DisconnectDataLink", UFrame("DISC"), <<>>)
                ELSE Return("DisconnectDataLink", o.status)
        /\ UNCHANGED <<stream, buffers>>

-----------------------------------------------------------------------------
(* SendApdu.  Neither path looks at open before the write.                 *)

BuildFrameStatus(lpdu) ==
  IF ~AddressesValid THEN "InvalidAddress"
  ELSE IF Len(lpdu) > CodecLimit THEN "PayloadTooLarge" ELSE "Ok"

SendStatus(apdu) ==
  IF MaxApduSize # 0 /\ Len(apdu) > MaxApduSize THEN "PayloadTooLarge"
  ELSE IF ~UseSession THEN BuildFrameStatus(EncodeLpdu(apdu))
  ELSE IF session.state # "Connected" THEN "NotOpen" ELSE "Ok"

SendApdu(apdu) ==
  /\ Idle
  /\ \/ Refuse("SendApdu", "InvalidArgument")
     \/ Refuse("SendApdu", SendStatus(apdu))
     \/ /\ SendStatus(apdu) = "Ok"
        /\ IF UseSession
           THEN /\ call' = [Returned("SendApdu", "Pending") EXCEPT
                              !.pc = "send", !.unsent = EncodeLpdu(apdu)]
                /\ writes' = 0
           ELSE StartWrite("SendApdu", UIFrame(EncodeLpdu(apdu)), <<>>)
        /\ UNCHANGED <<stream, session, buffers>>

(* The window is full: one control frame is taken in, and then the next   *)
(* I-frame is built, whether or not the window has opened.                 *)
AwaitWindow ==
  /\ call.pc = "send"
  /\ ~CanSendInformationFrame(session)
  /\ \/ /\ \E s \in ReadStatuses : NoFrameDecoded(s) /\ Return("SendApdu", s)
        /\ UNCHANGED session
     \/ /\ FrameDecoded
        /\ \E o \in ReceiveFrame(Role, session, NextFrame) :
             /\ session' = o.session
             /\ IF o.status = "Ok" THEN Goto("build") ELSE Return("SendApdu", o.status)
  /\ UNCHANGED <<tx, open, segments, pendingApdus>>

ChunkSize(unsent) ==
  IF MaxInformation = 0 \/ Len(unsent) < MaxInformation THEN Len(unsent) ELSE MaxInformation

(* A slip: the frame gets the V(S) from after it is built.                 *)
ChunkFrameAfter(s, unsent) ==
  IFrame(BuildInformationFrame(s).session, FALSE, SubSeq(unsent, 1, ChunkSize(unsent)))

(* The frame of the next chunk, numbered V(S); every chunk but the last is *)
(* marked segmented.                                                       *)
ChunkFrame(s, unsent) ==
  IFrame(s, ChunkSize(unsent) < Len(unsent), SubSeq(unsent, 1, ChunkSize(unsent)))

BuildSessionInformationFrame ==
  /\ \/ call.pc = "build"
     \/ call.pc = "send" /\ CanSendInformationFrame(session)
  /\ LET built == BuildInformationFrame(session)
     IN /\ session' = built.session
        /\ IF built.status = "Ok"
           THEN StartWrite("SendApdu", ChunkFrame(session, call.unsent),
                           SubSeq(call.unsent, ChunkSize(call.unsent) + 1, Len(call.unsent)))
           ELSE Return("SendApdu", built.status)
  /\ UNCHANGED <<stream, buffers>>

-----------------------------------------------------------------------------
(* WriteFrameBytes, and what each call does once the frame is written.     *)

(* A slip: no call waits for the answer.                                   *)
AfterWriteUnanswered ==
  IF call.op = "ReceiveApdu"
  THEN call' = [call EXCEPT !.pc = "receive", !.frame = NoFrame] /\ writes' = 0
  ELSE Return(call.op, "Ok")

AfterWrite ==
  CASE call.op = "AcceptDataLink" -> Return(call.op, "Ok")
    [] call.op = "SendApdu" /\ ~UseSession -> Return(call.op, "Ok")
    [] call.op = "ReceiveApdu" ->
         call' = [call EXCEPT !.pc = "receive", !.frame = NoFrame] /\ writes' = 0
    [] OTHER -> call' = [call EXCEPT !.pc = "await"] /\ writes' = writes + 1

WriteFrameBytes ==
  /\ call.pc = "write"
  /\ \/ WriteAll(call.frame) /\ AfterWrite
     \/ \E s \in {"NotOpen"} \cup WriteFailures : WriteFails(s) /\ Return(call.op, s)
  /\ UNCHANGED <<rx, open, session, buffers>>

-----------------------------------------------------------------------------
(* ReceiveSessionControlFrameWithRetry.  Whatever frame the session takes  *)
(* in counts as the answer.                                                *)

AfterAnswer ==
  IF call.unsent # <<>> THEN Goto("send") ELSE Return(call.op, "Ok")

(* Slips: one attempt too many; a silent peer read from without end; the   *)
(* last failure taken for an answer.                                       *)
AfterNoAnswerOnceMore(status) ==
  IF IsRetriableReceiveStatus(status) /\ call.attempt <= RetryCount
  THEN Goto("retry") ELSE Return(call.op, status)

AfterNoAnswerReadOn(status) ==
  IF IsRetriableReceiveStatus(status) THEN Goto("await") ELSE Return(call.op, status)

AfterNoAnswerOk(status) ==
  IF IsRetriableReceiveStatus(status) /\ call.attempt < RetryCount
  THEN Goto("retry") ELSE Return(call.op, "Ok")

AfterNoAnswer(status) ==
  IF IsRetriableReceiveStatus(status) /\ call.attempt < RetryCount
  THEN Goto("retry") ELSE Return(call.op, status)

ReceiveSessionControlFrameWithRetry ==
  /\ call.pc = "await"
  /\ \/ /\ \E s \in ReadStatuses : NoFrameDecoded(s) /\ AfterNoAnswer(s)
        /\ UNCHANGED session
     \/ /\ FrameDecoded
        /\ \E o \in ReceiveFrame(Role, session, NextFrame) :
             /\ session' = o.session
             /\ IF o.status = "Ok" THEN AfterAnswer ELSE AfterNoAnswer(o.status)
  /\ UNCHANGED <<tx, open, segments, pendingApdus>>

(* A slip: the attempts are counted down from zero.                        *)
SleepAndCountDown ==
  /\ call.pc = "retry"
  /\ call' = [call EXCEPT !.pc = "write", !.attempt = @ - 1]
  /\ UNCHANGED <<writes, stream, session, buffers>>

SleepBeforeRetry ==
  /\ call.pc = "retry"
  /\ \/ /\ call' = [call EXCEPT !.pc = "write",
                                !.attempt = (@ + 1) % CounterModulus]
        /\ UNCHANGED writes
     \/ \E s \in SleepFailures : Return(call.op, s)
  /\ UNCHANGED <<stream, session, buffers>>

-----------------------------------------------------------------------------
(* ReceiveApdu.                                                            *)

ReceiveApdu(capacity) ==
  /\ Idle
  /\ \/ Refuse("ReceiveApdu", "InvalidArgument")
     \/ /\ call' = [Returned("ReceiveApdu", "Pending") EXCEPT
                      !.pc = "receive", !.capacity = capacity]
        /\ writes' = 0
        /\ UNCHANGED <<stream, session, buffers>>

DecodeStatuses(information) ==
  IF DecodeLpduStatuses(information) # {"Ok"} THEN DecodeLpduStatuses(information)
  ELSE IF MaxApduSize # 0 /\ Len(DecodeLpdu(information)) > MaxApduSize
  THEN {"PayloadTooLarge"} ELSE {"Ok"}

QueueApdu(information) == pendingApdus' = Append(pendingApdus, DecodeLpdu(information))

ReassemblyLimit ==
  IF MaxApduSize + 3 > DefaultReassemblyLimit /\ MaxApduSize # 0
  THEN MaxApduSize + 3 ELSE DefaultReassemblyLimit

(* A frame that gives no APDU: the loop goes on after NeedMoreData, as if  *)
(* the frame had not come, and ReceiveApdu returns any other status.       *)
NoApdu(status) ==
  /\ status # "Ok"
  /\ IF status = "NeedMoreData" THEN Goto("receive") ELSE Return("ReceiveApdu", status)
  /\ UNCHANGED pendingApdus

(* A frame without a session is an LPDU, or is refused.                    *)
ReceiveUnnumbered(f) ==
  /\ \E status \in (IF f.segmented THEN {"UnsupportedFeature"}
                    ELSE DecodeStatuses(f.information)) :
       \/ status = "Ok" /\ QueueApdu(f.information) /\ Goto("receive")
       \/ NoApdu(status)
  /\ UNCHANGED <<segments, session>>

(* A slip: no RR for a received LPDU.                                      *)
SendNothing(s) == Goto("receive")

SendReceiveReady(s) ==
  LET built == BuildReceiveReadyFrame(s)
  IN IF built.status = "Ok"
     THEN call' = [call EXCEPT !.pc = "write", !.frame = RRFrame(s)] /\ UNCHANGED writes
     ELSE Return("ReceiveApdu", built.status)

(* An LPDU is queued before its RR is written; without an APDU there is no *)
(* RR, although the session has taken the frame in.                        *)
ReceiveLpdu(information, s) ==
  \E status \in DecodeStatuses(information) :
    \/ status = "Ok" /\ QueueApdu(information) /\ SendReceiveReady(s)
    \/ NoApdu(status)

(* A slip: what the session says of the frame is ignored.                  *)
ReceiveCompletedAnyway(f, has) ==
  \E o \in ReceiveFrame(Role, session, f) :
    /\ session' = o.session
    /\ IF has /\ f.information # <<>> THEN ReceiveLpdu(f.information, o.session)
                                     ELSE Goto("receive") /\ UNCHANGED pendingApdus

(* What becomes of the frame the reassembler hands on: the session must    *)
(* take it in, and only an LPDU is answered.                               *)
ReceiveCompleted(f, has) ==
  \E o \in ReceiveFrame(Role, session, f) :
    /\ session' = o.session
    /\ IF o.status # "Ok" THEN NoApdu(o.status)
       ELSE IF has /\ f.information # <<>> THEN ReceiveLpdu(f.information, o.session)
       ELSE Goto("receive") /\ UNCHANGED pendingApdus

ReceiveNumbered(f) ==
  \E p \in PushFrame(segments, f, ReassemblyLimit) :
    \/ /\ p.status = "Ok"
       /\ segments' = p.segments
       /\ ReceiveCompleted(p.completed, p.hasCompleted)
    \/ /\ NoApdu(p.status) /\ UNCHANGED session
       /\ segments' = IF p.status = "NeedMoreData" THEN p.segments ELSE <<>>

(* A slip: the loop reads on with an APDU queued.                          *)
NeedsApduAlways == TRUE
NeedsApdu == pendingApdus = <<>>

ReceiveNextApdu ==
  /\ call.pc = "receive"
  /\ NeedsApdu
  /\ \/ /\ \E s \in ReadStatuses : NoFrameDecoded(s) /\ Return("ReceiveApdu", s)
        /\ UNCHANGED <<session, segments, pendingApdus>>
     \/ /\ FrameDecoded
        /\ IF UseSession THEN ReceiveNumbered(NextFrame) ELSE ReceiveUnnumbered(NextFrame)
  /\ UNCHANGED <<tx, open>>

(* A slip: an APDU that does not fit is consumed all the same.             *)
TakeAlways(fits) == pendingApdus' = Tail(pendingApdus)
TakeIf(fits) == pendingApdus' = IF fits THEN Tail(pendingApdus) ELSE pendingApdus

CopyFirstPendingApdu ==
  /\ call.pc = "receive"
  /\ pendingApdus # <<>>
  /\ LET fits == Len(Head(pendingApdus)) <= call.capacity
     IN /\ TakeIf(fits)
        /\ Return("ReceiveApdu", IF fits THEN "Ok" ELSE "OutputBufferTooSmall")
  /\ UNCHANGED <<stream, session, partial, segments, pendingHdlcFrames>>

-----------------------------------------------------------------------------
LinkHistory ==
  linked' = (open' /\ (linked \/ (session.state # "Connected" /\ session'.state = "Connected")))

(* A step of a call that has been made.                                    *)
Step ==
  \/ AwaitConnectRequest
  \/ AwaitWindow
  \/ BuildSessionInformationFrame
  \/ WriteFrameBytes
  \/ ReceiveSessionControlFrameWithRetry
  \/ SleepBeforeRetry
  \/ ReceiveNextApdu
  \/ CopyFirstPendingApdu

DataLinkCall == ConnectDataLink \/ AcceptDataLink \/ DisconnectDataLink

ChannelInit ==
  /\ open = FALSE
  /\ session = NewSession
  /\ partial = FALSE
  /\ segments = <<>>
  /\ pendingHdlcFrames = <<>>
  /\ pendingApdus = <<>>
  /\ call = Returned("Open", "Pending")
  /\ writes = 0
  /\ linked = FALSE
=============================================================================
