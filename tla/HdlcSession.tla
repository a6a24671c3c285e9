----------------------------- MODULE HdlcSession -----------------------------
(***************************************************************************)
(* The dlms-hdlc and dlms-llc libraries, as far as HdlcProfileChannel      *)
(* depends on them: frames, the HdlcSession state machine, HdlcReassembler *)
(* and the LLC codec.  Their code is not in this repository; every         *)
(* operator is modelled from the calls in                                  *)
(* src/src/profile/hdlc_profile_channel.cpp, from the peer of              *)
(* src/test/profile/test_profile_channels.cpp (lines 176-194) and from     *)
(* docs/01_profile_api.md.  An operation whose result those leave open is  *)
(* a SET of outcomes, and the channel has to cope with each of them.       *)
(***************************************************************************)
EXTENDS ProfileTypes, Integers, Sequences

CONSTANTS
  SeqModulus, \* modulus of the send and receive sequence numbers
  Window,     \* negotiated transmit window
  Lenient,    \* whether the session may also take in, and ignore, a frame
              \* that its state does not expect
  Octets      \* the payload octets of APDUs

ASSUME SessionAssumption ==
  /\ SeqModulus \in Nat \ {0}
  /\ Window \in 1..(SeqModulus - 1)
  /\ Lenient \in BOOLEAN

-----------------------------------------------------------------------------
(* Frames.  LlcHeader stands for the three octets LlcEncode puts before    *)
(* an APDU, Parameters for the negotiation parameters of SNRM and UA.      *)

LlcHeader == "LLC header"
Parameters == "parameters"
Information == Seq(Octets \cup {LlcHeader, Parameters})

SeqNumbers == 0..(SeqModulus - 1)

Frame == [kind : {"SNRM", "UA", "DISC", "RR", "I", "UI"},
          ns : SeqNumbers, nr : SeqNumbers,
          segmented : BOOLEAN, information : Information]

UFrame(kind) ==
  [kind |-> kind, ns |-> 0, nr |-> 0, segmented |-> FALSE,
   information |-> IF kind = "DISC" THEN <<>> ELSE <<Parameters>>]

UIFrame(information) ==
  [kind |-> "UI", ns |-> 0, nr |-> 0, segmented |-> FALSE,
   information |-> information]

-----------------------------------------------------------------------------
(* HdlcSession: the state and the sequence variables V(S), V(A), V(R).     *)

Session == [state : {"Disconnected", "Connecting", "ConnectRequested",
                     "Connected", "Disconnecting"},
            vs : SeqNumbers, va : SeqNumbers, vr : SeqNumbers]

NewSession == [state |-> "Disconnected", vs |-> 0, va |-> 0, vr |-> 0]
InState(state) == [NewSession EXCEPT !.state = state]

(* The profile status of whatever error the library gives: it is none of  *)
(* Ok, WouldBlock, Timeout and NeedMoreData.                               *)
Refusal == "InvalidFrame"

Accepted(s) == [status |-> "Ok", session |-> s]
Refused(s) == [status |-> Refusal, session |-> s]

Distance(from, to) == (to - from + SeqModulus) % SeqModulus

CanSendInformationFrame(s) == Distance(s.va, s.vs) < Window

AcksSentFrame(s, nr) == Distance(s.va, nr) <= Distance(s.va, s.vs)

(* The request is sure to be built in the state EnsureSession provides.    *)
BuildConnectRequest(s) ==
  {Accepted(InState("Connecting"))} \cup
    (IF s.state = "Disconnected" THEN {} ELSE {Refused(s)})

BuildConnectResponse(s) ==
  IF s.state = "ConnectRequested" THEN Accepted(InState("Connected"))
                                  ELSE Refused(s)

BuildDisconnectRequest(s) ==
  CASE s.state = "Connected"     -> {Accepted([s EXCEPT !.state = "Disconnecting"])}
    [] s.state = "Disconnecting" -> {Accepted(s), Refused(s)}
    [] OTHER                     -> {Refused(s)}

(* V(S) advances when the frame is built, whether or not it is written.    *)
BuildInformationFrame(s) ==
  IF s.state = "Connected" /\ CanSendInformationFrame(s)
  THEN Accepted([s EXCEPT !.vs = (@ + 1) % SeqModulus])
  ELSE Refused(s)

IFrame(s, segmented, information) ==
  [kind |-> "I", ns |-> s.vs, nr |-> s.vr, segmented |-> segmented,
   information |-> information]

RRFrame(s) ==
  [kind |-> "RR", ns |-> 0, nr |-> s.vr, segmented |-> FALSE,
   information |-> <<>>]

BuildReceiveReadyFrame(s) == IF s.state = "Connected" THEN Accepted(s) ELSE Refused(s)

Unexpected(s) ==
  {Refused(s)} \cup (IF Lenient THEN {Accepted(s)} ELSE {})

(* An I-frame is taken in sequence only, and its N(R) acknowledges.        *)
ReceiveInformation(s, f) ==
  IF s.state = "Connected" /\ f.ns = s.vr /\ AcksSentFrame(s, f.nr)
  THEN {Accepted([s EXCEPT !.vr = (@ + 1) % SeqModulus, !.va = f.nr])}
  ELSE {Refused(s)}

ReceiveReady(s, f) ==
  IF s.state # "Connected" THEN Unexpected(s)
  ELSE IF AcksSentFrame(s, f.nr) THEN {Accepted([s EXCEPT !.va = f.nr])}
  ELSE {Refused(s)}

(* A repeated SNRM may restart the set-up or be refused.                   *)
ReceiveFrame(role, s, f) ==
  CASE f.kind = "SNRM" /\ role = "Server" ->
         {Accepted(InState("ConnectRequested"))} \cup
           (IF s.state = "Disconnected" THEN {} ELSE Unexpected(s))
    [] f.kind = "UA" /\ s.state = "Connecting" -> {Accepted(InState("Connected"))}
    [] f.kind = "UA" /\ s.state = "Disconnecting" -> {Accepted(NewSession)}
    [] f.kind = "DISC" /\ s.state = "Connected" -> {Accepted(NewSession)}
    [] f.kind = "I" -> ReceiveInformation(s, f)
    [] f.kind = "RR" -> ReceiveReady(s, f)
    [] OTHER -> Unexpected(s)

-----------------------------------------------------------------------------
(* HdlcReassembler: <<>>, or <<f>> with f the header of the first segment  *)
(* and the information gathered so far.  Whether the completed frame has   *)
(* the control field of its first or of its last segment, and whether a    *)
(* segment that does not fit is noticed, is open.                          *)

Reassembly == {gathered \in Seq(Frame) : Len(gathered) <= 1}

Pushed(status, segments, completed, has) ==
  [status |-> status, segments |-> segments, completed |-> completed,
   hasCompleted |-> has]

PushFrame(segments, f, limit) ==
  LET whole == IF segments = <<>> THEN f.information
               ELSE segments[1].information \o f.information
      first == IF segments = <<>> THEN f ELSE segments[1]
      done(header) == [header EXCEPT !.segmented = FALSE, !.information = whole]
      unfit == IF segments = <<>> THEN {} ELSE {Pushed(Refusal, segments, f, FALSE)}
  IN CASE f.kind # "I" ->
            {Pushed("Ok", segments, f, has) : has \in BOOLEAN}
       [] f.kind = "I" /\ Len(whole) > limit ->
            {Pushed(MapHdlcStatus("SegmentationOverflow"), segments, f, FALSE)}
       [] f.kind = "I" /\ Len(whole) <= limit /\ f.segmented ->
            unfit \cup {Pushed(MapHdlcStatus("SegmentationIncomplete"),
                               <<[first EXCEPT !.information = whole]>>, f, FALSE)}
       [] OTHER ->
            unfit \cup {Pushed("Ok", <<>>, done(header), TRUE) : header \in {first, f}}

-----------------------------------------------------------------------------
(* The LLC codec: the header goes before the APDU and is required back.    *)
(* Whether an LPDU without it is wrong or only too short is open.          *)

EncodeLpdu(apdu) == <<LlcHeader>> \o apdu
DecodeLpduStatuses(information) ==
  IF information # <<>> /\ Head(information) = LlcHeader
  THEN {"Ok"} ELSE {MapLlcStatus("InvalidHeader"), MapLlcStatus("NeedMoreData")}
DecodeLpdu(information) == Tail(information)
=============================================================================
