------------------------- MODULE HdlcEndpointProofs -------------------------
(***************************************************************************)
(* Theorems of HdlcEndpoint, for every value of its constants: every role, *)
(* retry count, window, size limit and set of frames the peer may send.    *)
(***************************************************************************)
EXTENDS HdlcEndpoint, SequenceTheorems, TLAPS

-----------------------------------------------------------------------------
(* The operators of HdlcSession: whatever outcome the session and the      *)
(* reassembler have, their results are frames and sessions.                *)

Status == {"Ok", "NeedMoreData", "PayloadTooLarge", Refusal}

(* A number taken modulo SeqModulus is a sequence number.                  *)
LEMMA ModuloIsSeqNumber ==
  ASSUME NEW a \in Int
  PROVE  a % SeqModulus \in SeqNumbers
BY SessionAssumption DEF SessionAssumption, SeqNumbers

(* The information fields the channel and the library build.               *)
LEMMA InformationFacts ==
  /\ <<>> \in Information
  /\ <<Parameters>> \in Information
  /\ \A i, j \in Information : i \o j \in Information
  /\ \A i \in Information : Len(i) \in Nat
  /\ \A i \in Information : i # <<>> => Tail(i) \in Information
<1> DEFINE S == Octets \cup {LlcHeader, Parameters}
<1>1. <<>> \in Seq(S) /\ <<Parameters>> \in Seq(S)
  OBVIOUS
<1>2. \A i, j \in Seq(S) : i \o j \in Seq(S)
  BY ConcatProperties
<1>3. \A i \in Seq(S) : Len(i) \in Nat
  BY LenProperties
<1>4. \A i \in Seq(S) : i # <<>> => Tail(i) \in Seq(S)
  BY HeadTailProperties
<1>5. QED
  BY <1>1, <1>2, <1>3, <1>4 DEF Information

(* A part of an information field is an information field.                 *)
LEMMA PartIsInformation ==
  ASSUME NEW i \in Information, NEW m \in 1..(Len(i) + 1), NEW n \in 0..Len(i)
  PROVE  SubSeq(i, m, n) \in Information
<1> DEFINE S == Octets \cup {LlcHeader, Parameters}
<1>1. \A k \in m..n : i[k] \in S
  BY ElementOfSeq, LenProperties DEF Information
<1>2. m \in Int /\ n \in Int
  BY InformationFacts
<1>3. QED
  BY <1>1, <1>2, SubSeqProperties DEF Information

(* Zero is a sequence number, and the frames the channel builds are frames. *)
LEMMA BuiltFrames ==
  /\ 0 \in SeqNumbers
  /\ \A kind \in {"SNRM", "UA", "DISC"} : UFrame(kind) \in Frame
  /\ \A i \in Information : UIFrame(i) \in Frame
  /\ \A s \in Session : RRFrame(s) \in Frame
  /\ \A s \in Session, segmented \in BOOLEAN, i \in Information :
       IFrame(s, segmented, i) \in Frame
<1>1. 0 \in SeqNumbers
  BY SessionAssumption DEF SessionAssumption, SeqNumbers
<1>2. QED
  BY <1>1, InformationFacts DEF UFrame, UIFrame, RRFrame, IFrame, Frame, Session

(* A session that is (re)started is a session.                             *)
LEMMA StartedSession ==
  /\ NewSession \in Session
  /\ \A state \in {"Disconnected", "Connecting", "ConnectRequested",
                   "Connected", "Disconnecting"} : InState(state) \in Session
BY BuiltFrames DEF NewSession, InState, Session

(* Every outcome of a build leaves a session and is Ok or a refusal.       *)
LEMMA BuildOutcome ==
  ASSUME NEW s \in Session
  PROVE  /\ \A o \in BuildConnectRequest(s) \cup BuildDisconnectRequest(s) :
              o.session \in Session /\ o.status \in {"Ok", Refusal}
         /\ BuildConnectResponse(s).session \in Session
         /\ BuildConnectResponse(s).status \in {"Ok", Refusal}
         /\ BuildInformationFrame(s).session \in Session
         /\ BuildInformationFrame(s).status \in {"Ok", Refusal}
         /\ BuildReceiveReadyFrame(s).status \in {"Ok", Refusal}
<1>1. (s.vs + 1) % SeqModulus \in SeqNumbers
  BY ModuloIsSeqNumber DEF Session, SeqNumbers
<1>2. [s EXCEPT !.vs = (@ + 1) % SeqModulus] \in Session
  BY <1>1 DEF Session
<1>3. \A state \in {"Disconnecting"} : [s EXCEPT !.state = state] \in Session
  BY DEF Session
<1>4. \A o \in BuildConnectRequest(s) : o.session \in Session /\ o.status \in {"Ok", Refusal}
  BY StartedSession DEF BuildConnectRequest, Accepted, Refused
<1>5. \A o \in BuildDisconnectRequest(s) : o.session \in Session /\ o.status \in {"Ok", Refusal}
  BY <1>3 DEF BuildDisconnectRequest, Accepted, Refused
<1>6. /\ BuildConnectResponse(s).session \in Session
      /\ BuildConnectResponse(s).status \in {"Ok", Refusal}
  BY StartedSession DEF BuildConnectResponse, Accepted, Refused
<1>7. /\ BuildInformationFrame(s).session \in Session
      /\ BuildInformationFrame(s).status \in {"Ok", Refusal}
  BY <1>2 DEF BuildInformationFrame, Accepted, Refused
<1>8. BuildReceiveReadyFrame(s).status \in {"Ok", Refusal}
  BY DEF BuildReceiveReadyFrame, Accepted, Refused
<1>9. QED
  BY <1>4, <1>5, <1>6, <1>7, <1>8

(* Every outcome of receiving a frame leaves a session.                    *)
LEMMA ReceiveOutcome ==
  ASSUME NEW s \in Session, NEW f \in Frame, NEW role,
         NEW o \in ReceiveFrame(role, s, f)
  PROVE  o.session \in Session /\ o.status \in {"Ok", Refusal}
<1> DEFINE Fine(x) == x.session \in Session /\ x.status \in {"Ok", Refusal}
<1>1. f.nr \in SeqNumbers /\ (s.vr + 1) % SeqModulus \in SeqNumbers
  BY ModuloIsSeqNumber DEF Session, Frame, SeqNumbers
<1>2. \A x \in Unexpected(s) : Fine(x)
  BY DEF Unexpected, Accepted, Refused
<1>3. \A x \in ReceiveInformation(s, f) : Fine(x)
  <2>1. [s EXCEPT !.vr = (@ + 1) % SeqModulus, !.va = f.nr] \in Session
    BY <1>1 DEF Session
  <2>2. QED
    BY <2>1 DEF ReceiveInformation, Accepted, Refused
<1>4. \A x \in ReceiveReady(s, f) : Fine(x)
  <2>1. [s EXCEPT !.va = f.nr] \in Session
    BY <1>1 DEF Session
  <2>2. QED
    BY <1>2, <2>1 DEF ReceiveReady, Accepted, Refused
<1>5. \A state \in {"ConnectRequested", "Connected"} : Fine(Accepted(InState(state)))
  BY StartedSession DEF Accepted
<1>6. Fine(Accepted(NewSession))
  BY StartedSession DEF Accepted
<1> HIDE DEF Fine
<1>7. Fine(o)
  BY <1>2, <1>3, <1>4, <1>5, <1>6 DEF ReceiveFrame
<1>8. QED
  BY <1>7 DEF Fine

(* Every outcome of the reassembler gives back a frame and a reassembly.   *)
LEMMA PushOutcome ==
  ASSUME NEW gathered \in Reassembly, NEW f \in Frame, NEW limit \in Nat,
         NEW p \in PushFrame(gathered, f, limit)
  PROVE  /\ p.segments \in Reassembly
         /\ p.completed \in Frame
         /\ p.status \in Status
         /\ p.hasCompleted \in BOOLEAN
<1> DEFINE whole == IF gathered = <<>> THEN f.information
                    ELSE gathered[1].information \o f.information
           first == IF gathered = <<>> THEN f ELSE gathered[1]
           done(header) == [header EXCEPT !.segmented = FALSE, !.information = whole]
           Fine(x) == /\ x.segments \in Reassembly /\ x.completed \in Frame
                      /\ x.status \in Status /\ x.hasCompleted \in BOOLEAN
<1>0. /\ MapHdlcStatus("SegmentationOverflow") = "PayloadTooLarge"
      /\ MapHdlcStatus("SegmentationIncomplete") = "NeedMoreData"
  BY DEF MapHdlcStatus, CodecStatus
<1>1. first \in Frame
  <2>1. CASE gathered = <<>>
    BY <2>1
  <2>2. CASE gathered # <<>>
    <3>1. gathered \in Seq(Frame) /\ Len(gathered) \in Nat \ {0}
      BY <2>2, EmptySeq DEF Reassembly
    <3>2. QED
      BY <2>2, <3>1, ElementOfSeq
  <2>3. QED
    BY <2>1, <2>2
<1>2. whole \in Information
  BY <1>1, InformationFacts DEF Frame
<1>3. \A header \in {first, f} : done(header) \in Frame
  BY <1>1, <1>2 DEF Frame
<1>4. [first EXCEPT !.information = whole] \in Frame
  BY <1>1, <1>2 DEF Frame
<1>5. <<>> \in Reassembly /\ \A g \in Frame : <<g>> \in Reassembly
  BY DEF Reassembly
<1>6. \/ p \in {Pushed(Refusal, gathered, f, FALSE), Pushed("PayloadTooLarge", gathered, f, FALSE)}
      \/ p \in {Pushed("Ok", gathered, f, has) : has \in BOOLEAN}
      \/ p = Pushed("NeedMoreData", <<[first EXCEPT !.information = whole]>>, f, FALSE)
      \/ p \in {Pushed("Ok", <<>>, done(header), TRUE) : header \in {first, f}}
  BY <1>0 DEF PushFrame
<1> HIDE DEF whole, first, done
<1>7. \A status \in Status, g \in Reassembly, c \in Frame, has \in BOOLEAN :
        Fine(Pushed(status, g, c, has))
  BY DEF Pushed
<1>8. TRUE \in BOOLEAN /\ FALSE \in BOOLEAN
  OBVIOUS
<1>9. {"Ok", "NeedMoreData", "PayloadTooLarge", Refusal} \subseteq Status
  BY DEF Status
<1> HIDE DEF Fine
<1>10. Fine(p)
  <2>1. CASE p \in {Pushed(Refusal, gathered, f, FALSE), Pushed("PayloadTooLarge", gathered, f, FALSE)}
    BY <1>7, <1>8, <1>9, <2>1, Zenon
  <2>2. CASE p \in {Pushed("Ok", gathered, f, has) : has \in BOOLEAN}
    BY <1>7, <1>9, <2>2, Zenon
  <2>3. CASE p = Pushed("NeedMoreData", <<[first EXCEPT !.information = whole]>>, f, FALSE)
    BY <1>4, <1>5, <1>7, <1>8, <1>9, <2>3, Zenon
  <2>4. CASE p \in {Pushed("Ok", <<>>, done(header), TRUE) : header \in {first, f}}
    BY <1>3, <1>5, <1>7, <1>8, <1>9, <2>4, Zenon
  <2>5. QED
    BY <1>6, <2>1, <2>2, <2>3, <2>4
<1>11. QED
  BY <1>10 DEF Fine

-----------------------------------------------------------------------------
(* The types of the channel's variables.                                   *)

CallOK == call \in Call /\ writes \in Nat
ReadOK == /\ rx \in Seq(Frame) /\ pendingHdlcFrames \in Seq(Frame)
          /\ partial \in BOOLEAN /\ (partial => rx # <<>>)

(* Type correctness with what it rests on: the decoder holds the first     *)
(* bytes of a frame only if the rest of it is still to come.               *)
ChannelOK ==
  /\ ReadOK /\ CallOK
  /\ tx \in Seq(Frame) /\ open \in BOOLEAN
  /\ session \in Session
  /\ segments \in Reassembly
  /\ pendingApdus \in Seq(Information)

TypeInv == ChannelOK /\ linked \in BOOLEAN

-----------------------------------------------------------------------------
(* Calls.                                                                  *)

LEMMA ReturnedCall ==
  ASSUME NEW op \in Operations, NEW status \in Statuses
  PROVE  Returned(op, status) \in Call
<1>1. 0 \in 0..(CounterModulus - 1)
  BY ChannelAssumption DEF ChannelAssumption
<1>2. NoFrame \in Frame
  BY BuiltFrames DEF NoFrame
<1>3. "idle" \in Places /\ <<>> \in Information
  BY InformationFacts DEF Places
<1>4. QED
  BY <1>1, <1>2, <1>3 DEF Returned, Call

(* Each way a step leaves the call keeps its type.                         *)
LEMMA ReturnKeepsType ==
  ASSUME NEW op \in Operations, NEW status \in Statuses, Return(op, status)
  PROVE  CallOK'
BY ReturnedCall DEF Return, CallOK

LEMMA EnterKeepsType ==
  ASSUME NEW op \in Operations, NEW pc \in Places, Enter(op, pc)
  PROVE  CallOK'
<1>1. Returned(op, "Pending") \in Call
  BY ReturnedCall DEF Statuses
<1>2. QED
  BY <1>1 DEF Enter, CallOK, Call

LEMMA StartWriteKeepsType ==
  ASSUME NEW op \in Operations, NEW f \in Frame, NEW unsent \in Information,
         StartWrite(op, f, unsent)
  PROVE  CallOK'
<1>1. Returned(op, "Pending") \in Call /\ "write" \in Places
  BY ReturnedCall DEF Statuses, Places
<1>2. QED
  BY <1>1 DEF StartWrite, CallOK, Call

LEMMA GotoKeepsType ==
  ASSUME CallOK, NEW pc \in Places, Goto(pc)
  PROVE  CallOK'
BY DEF Goto, CallOK, Call

LEMMA StatusesCovered ==
  /\ ReadStatuses \cup WriteFailures \cup StreamFailures \cup SleepFailures \subseteq Statuses
  /\ Status \subseteq Statuses
  /\ {"Ok", "Pending", "NotOpen", "AlreadyOpen", "InvalidArgument", "InvalidAddress",
      "PayloadTooLarge", "UnsupportedFeature", "OutputBufferTooSmall"} \subseteq Statuses
BY ChannelAssumption
   DEF ChannelAssumption, ReadStatuses, Status, Statuses, ProfileStatus, Refusal

-----------------------------------------------------------------------------
(* The stream and the decoder.                                             *)

LEMMA PartOfFrames ==
  ASSUME NEW s \in Seq(Frame), NEW m \in Nat \ {0}, NEW n \in 0..Len(s)
  PROVE  SubSeq(s, m, n) \in Seq(Frame) /\ (m <= n => SubSeq(s, m, n) # <<>>)
<1>1. \A k \in m..n : s[k] \in Frame
  BY ElementOfSeq, LenProperties
<1>2. m \in Int /\ n \in Int
  BY LenProperties
<1>3. /\ SubSeq(s, m, n) \in Seq(Frame)
      /\ Len(SubSeq(s, m, n)) = IF m <= n THEN n - m + 1 ELSE 0
  BY <1>1, <1>2, SubSeqProperties
<1>4. QED
  BY <1>2, <1>3, EmptySeq

LEMMA DecodingKeepsType ==
  ASSUME ReadOK, FrameDecoded
  PROVE  ReadOK' /\ NextFrame \in Frame
<1>1. CASE pendingHdlcFrames # <<>>
  <2>1. pendingHdlcFrames' = Tail(pendingHdlcFrames) /\ UNCHANGED <<rx, partial>>
    BY <1>1 DEF FrameDecoded
  <2>2. pendingHdlcFrames' \in Seq(Frame)
    BY <1>1, <2>1, HeadTailProperties DEF ReadOK
  <2>3. pendingHdlcFrames \o rx \in Seq(Frame) /\ pendingHdlcFrames \o rx # <<>>
    BY <1>1, ConcatProperties, ConcatEqualIffEmpty DEF ReadOK
  <2>4. NextFrame \in Frame
    BY <2>3, HeadTailProperties DEF NextFrame
  <2>5. QED
    BY <2>1, <2>2, <2>4 DEF ReadOK
<1>2. CASE pendingHdlcFrames = <<>>
  <2>1. PICK n \in 1..Len(rx) :
          /\ pendingHdlcFrames' = SubSeq(rx, 2, n)
          /\ rx' = SubSeq(rx, n + 1, Len(rx))
          /\ partial' \in {b \in BOOLEAN : b => Fragmented /\ n < Len(rx)}
    BY <1>2 DEF FrameDecoded
  <2>2. Len(rx) \in Nat /\ n \in Nat \ {0} /\ n <= Len(rx)
    BY LenProperties DEF ReadOK
  <2>3. pendingHdlcFrames' \in Seq(Frame)
    BY <2>1, <2>2, PartOfFrames DEF ReadOK
  <2>4. rx' \in Seq(Frame) /\ (n < Len(rx) => rx' # <<>>)
    <3>1. n + 1 \in Nat \ {0} /\ Len(rx) \in 0..Len(rx) /\ rx \in Seq(Frame)
      BY <2>2 DEF ReadOK
    <3>2. SubSeq(rx, n + 1, Len(rx)) \in Seq(Frame)
          /\ (n + 1 <= Len(rx) => SubSeq(rx, n + 1, Len(rx)) # <<>>)
      BY <3>1, PartOfFrames
    <3>3. QED
      BY <2>1, <2>2, <3>2
  <2>5. partial' \in BOOLEAN /\ (partial' => n < Len(rx))
    BY <2>1, Zenon
  <2>6. rx # <<>>
    BY <2>2, EmptySeq
  <2>7. pendingHdlcFrames \o rx \in Seq(Frame) /\ pendingHdlcFrames \o rx # <<>>
    BY <1>2, <2>6, ConcatProperties, ConcatEqualIffEmpty DEF ReadOK
  <2>8. NextFrame \in Frame
    BY <2>7, HeadTailProperties DEF NextFrame
  <2>9. QED
    BY <2>3, <2>4, <2>5, <2>8 DEF ReadOK
<1>3. QED
  BY <1>1, <1>2

LEMMA FailedReadKeepsType ==
  ASSUME ReadOK, NEW status, NoFrameDecoded(status)
  PROVE  ReadOK'
<1>1. pendingHdlcFrames' \in Seq(Frame)
  BY DEF NoFrameDecoded, ReadOK
<1>2. CASE UNCHANGED rx /\ partial' \in BOOLEAN /\ (partial' => rx # <<>>)
  BY <1>1, <1>2 DEF ReadOK
<1>3. CASE partial' = FALSE /\ \E n \in 1..Len(rx) : rx' = SubSeq(rx, n + 1, Len(rx))
  <2>1. PICK n \in 1..Len(rx) : rx' = SubSeq(rx, n + 1, Len(rx))
    BY <1>3
  <2>2. Len(rx) \in Nat /\ n + 1 \in Nat \ {0}
    BY LenProperties DEF ReadOK
  <2>3. rx' \in Seq(Frame)
    BY <2>1, <2>2, PartOfFrames DEF ReadOK
  <2>4. QED
    BY <1>1, <1>3, <2>3 DEF ReadOK
<1>4. CASE open /\ status \in ReadFailures /\ UNCHANGED rx
           /\ partial' \in {b \in BOOLEAN :
                (partial => b) /\ (b => partial \/ (Fragmented /\ rx # <<>>))}
  <2>1. partial' \in BOOLEAN /\ (partial' => partial \/ rx # <<>>)
    BY <1>4, Zenon
  <2>2. QED
    BY <1>2, <1>4, <2>1 DEF ReadOK
<1>5. CASE ~open /\ status = "NotOpen" /\ UNCHANGED <<rx, partial>>
  BY <1>2, <1>5 DEF ReadOK
<1>6. CASE open /\ rx # <<>> /\ partial' = TRUE /\ UNCHANGED rx
  BY <1>2, <1>6
<1>7. QED
  BY <1>3, <1>4, <1>5, <1>6 DEF NoFrameDecoded

LEMMA ResetKeepsType ==
  ASSUME ReadOK
  PROVE  Undecoded \in Seq(Frame)
BY HeadTailProperties DEF ReadOK, Undecoded

LEMMA EnsureSessionKeepsType ==
  ASSUME ReadOK, segments \in Reassembly, session \in Session, EnsureSession
  PROVE  ReadOK' /\ segments' \in Reassembly /\ EnsuredSession \in Session
<1>1. <<>> \in Seq(Frame) /\ <<>> \in Reassembly
  BY DEF Reassembly
<1>2. EnsuredSession \in Session
  BY StartedSession DEF EnsuredSession
<1>3. QED
  BY <1>1, <1>2, ResetKeepsType DEF EnsureSession, ResetDecoder, ReadOK

-----------------------------------------------------------------------------
(* The operations of the application.                                      *)

LEMMA RefusalKeepsType ==
  ASSUME ChannelOK, NEW op \in Operations, NEW status \in Statuses, Refuse(op, status)
  PROVE  ChannelOK'
<1>1. CallOK'
  BY ReturnKeepsType DEF Refuse
<1>2. QED
  BY <1>1 DEF Refuse, ChannelOK, ReadOK, stream, buffers

LEMMA OpenKeepsType ==
  ASSUME ChannelOK, Open
  PROVE  ChannelOK'
<1>1. \E s \in {"AlreadyOpen", "Ok"} \cup StreamFailures : Return("Open", s)
  BY DEF Open
<1>2. CallOK'
  BY <1>1, ReturnKeepsType, StatusesCovered DEF Operations
<1>3. open' \in BOOLEAN
  BY DEF Open, ChannelOK
<1>4. QED
  BY <1>2, <1>3 DEF Open, ChannelOK, ReadOK, buffers

LEMMA CloseKeepsType ==
  ASSUME ChannelOK, Close
  PROVE  ChannelOK'
<1>1. \E s \in {"Ok"} \cup StreamFailures : Return("Close", s)
  BY DEF Close
<1>2. CallOK'
  BY <1>1, ReturnKeepsType, StatusesCovered DEF Operations
<1>3. rx' \in Seq(Frame) /\ open' \in BOOLEAN
  <2>1. ReadOK /\ open \in BOOLEAN
    BY DEF ChannelOK
  <2>2. \/ open' = FALSE /\ rx' = <<>>
        \/ open' = open /\ rx' = Undecoded
    BY DEF Close
  <2>3. rx' \in Seq(Frame)
    <3>1. <<>> \in Seq(Frame) /\ Undecoded \in Seq(Frame)
      BY <2>1, ResetKeepsType
    <3>2. QED
      BY <2>2, <3>1, Zenon
  <2>4. open' \in BOOLEAN
    BY <2>1, <2>2, Zenon
  <2>5. QED
    BY <2>3, <2>4
<1>4. <<>> \in Seq(Frame) /\ <<>> \in Reassembly /\ <<>> \in Seq(Information)
  BY DEF Reassembly
<1>5. QED
  BY <1>2, <1>3, <1>4 DEF Close, ClearBuffers, ChannelOK, ReadOK

LEMMA ConnectKeepsType ==
  ASSUME ChannelOK, ConnectDataLink
  PROVE  ChannelOK'
<1> DEFINE op == "ConnectDataLink"
<1>1. op \in Operations
  BY DEF Operations
<1>2. CASE Refuse(op, LinkStatus("Client"))
  <2>1. LinkStatus("Client") \in Statuses
    BY StatusesCovered DEF LinkStatus
  <2>2. QED
    BY <1>1, <1>2, <2>1, RefusalKeepsType
<1>3. CASE /\ EnsureSession
           /\ \E o \in BuildConnectRequest(EnsuredSession) :
                /\ session' = o.session
                /\ IF o.status = "Ok" THEN StartWrite(op, UFrame("SNRM"), <<>>)
                                     ELSE Return(op, o.status)
           /\ UNCHANGED <<tx, open, pendingApdus>>
  <2>1. ReadOK' /\ segments' \in Reassembly /\ EnsuredSession \in Session
    BY <1>3, EnsureSessionKeepsType DEF ChannelOK
  <2>2. PICK o \in BuildConnectRequest(EnsuredSession) :
          /\ session' = o.session
          /\ IF o.status = "Ok" THEN StartWrite(op, UFrame("SNRM"), <<>>)
                                ELSE Return(op, o.status)
    BY <1>3
  <2>3. o.session \in Session /\ o.status \in {"Ok", Refusal}
    BY <2>1, BuildOutcome
  <2>4. CallOK'
    <3>1. o.status \in Statuses
      BY <2>3, StatusesCovered DEF Status
    <3>2. UFrame("SNRM") \in Frame /\ <<>> \in Information
      BY BuiltFrames, InformationFacts
    <3>3. QED
      BY <1>1, <2>2, <3>1, <3>2, StartWriteKeepsType, ReturnKeepsType
  <2>5. QED
    BY <1>3, <2>1, <2>2, <2>3, <2>4 DEF ChannelOK
<1>4. QED
  BY <1>2, <1>3 DEF ConnectDataLink

LEMMA AcceptKeepsType ==
  ASSUME ChannelOK, AcceptDataLink
  PROVE  ChannelOK'
<1> DEFINE op == "AcceptDataLink"
<1>1. op \in Operations
  BY DEF Operations
<1>2. CASE Refuse(op, LinkStatus("Server"))
  <2>1. LinkStatus("Server") \in Statuses
    BY StatusesCovered DEF LinkStatus
  <2>2. QED
    BY <1>1, <1>2, <2>1, RefusalKeepsType
<1>3. CASE /\ EnsureSession
           /\ session' = EnsuredSession
           /\ Enter(op, "accept")
           /\ UNCHANGED <<tx, open, pendingApdus>>
  <2>1. ReadOK' /\ segments' \in Reassembly /\ EnsuredSession \in Session
    BY <1>3, EnsureSessionKeepsType DEF ChannelOK
  <2>2. CallOK'
    BY <1>1, <1>3, EnterKeepsType DEF Places
  <2>3. QED
    BY <1>3, <2>1, <2>2 DEF ChannelOK
<1>4. QED
  BY <1>2, <1>3 DEF AcceptDataLink

LEMMA DisconnectKeepsType ==
  ASSUME ChannelOK, DisconnectDataLink
  PROVE  ChannelOK'
<1> DEFINE op == "DisconnectDataLink"
<1>1. op \in Operations
  BY DEF Operations
<1>2. CASE \E s \in {"UnsupportedFeature", "NotOpen"} : Refuse(op, s)
  BY <1>1, <1>2, RefusalKeepsType, StatusesCovered
<1>3. CASE /\ \E o \in BuildDisconnectRequest(session) :
                /\ session' = o.session
                /\ IF o.status = "Ok" THEN StartWrite(op, UFrame("DISC"), <<>>)
                                     ELSE Return(op, o.status)
           /\ UNCHANGED <<stream, buffers>>
  <2>1. PICK o \in BuildDisconnectRequest(session) :
          /\ session' = o.session
          /\ IF o.status = "Ok" THEN StartWrite(op, UFrame("DISC"), <<>>)
                                ELSE Return(op, o.status)
    BY <1>3
  <2>2. o.session \in Session /\ o.status \in {"Ok", Refusal}
    BY BuildOutcome DEF ChannelOK
  <2>3. CallOK'
    <3>1. o.status \in Statuses
      BY <2>2, StatusesCovered DEF Status
    <3>2. UFrame("DISC") \in Frame /\ <<>> \in Information
      BY BuiltFrames, InformationFacts
    <3>3. QED
      BY <1>1, <2>1, <3>1, <3>2, StartWriteKeepsType, ReturnKeepsType
  <2>4. QED
    BY <1>3, <2>1, <2>2, <2>3 DEF ChannelOK, ReadOK, stream, buffers
<1>4. QED
  BY <1>2, <1>3 DEF DisconnectDataLink

LEMMA EncodedApdu ==
  ASSUME NEW apdu \in Seq(Octets)
  PROVE  EncodeLpdu(apdu) \in Information
<1> DEFINE S == Octets \cup {LlcHeader, Parameters}
<1>1. apdu \in Seq(S)
  <2>1. \A k \in 1..Len(apdu) : apdu[k] \in S
    BY ElementOfSeq
  <2>2. Len(apdu) \in Nat /\ apdu = [k \in 1..Len(apdu) |-> apdu[k]]
    BY LenProperties
  <2>3. QED
    BY <2>1, <2>2, SeqDef
<1>2. <<LlcHeader>> \in Seq(S)
  OBVIOUS
<1>3. QED
  BY <1>1, <1>2, ConcatProperties DEF EncodeLpdu, Information

LEMMA SendKeepsType ==
  ASSUME ChannelOK, NEW apdu \in Seq(Octets), SendApdu(apdu)
  PROVE  ChannelOK'
<1>1. "SendApdu" \in Operations /\ "send" \in Places
  BY DEF Operations, Places
<1>2. CASE Refuse("SendApdu", "InvalidArgument") \/ Refuse("SendApdu", SendStatus(apdu))
  <2>1. SendStatus(apdu) \in Statuses
    BY StatusesCovered DEF SendStatus, BuildFrameStatus
  <2>2. QED
    BY <1>1, <1>2, <2>1, RefusalKeepsType, StatusesCovered
<1>3. CASE /\ IF UseSession
              THEN /\ call' = [Returned("SendApdu", "Pending") EXCEPT
                                !.pc = "send", !.unsent = EncodeLpdu(apdu)]
                   /\ writes' = 0
              ELSE StartWrite("SendApdu", UIFrame(EncodeLpdu(apdu)), <<>>)
           /\ UNCHANGED <<stream, session, buffers>>
  <2>1. EncodeLpdu(apdu) \in Information /\ <<>> \in Information
        /\ UIFrame(EncodeLpdu(apdu)) \in Frame
    BY EncodedApdu, BuiltFrames, InformationFacts
  <2>2. Returned("SendApdu", "Pending") \in Call
    BY <1>1, ReturnedCall, StatusesCovered
  <2>3. CASE UseSession
    <3>1. CallOK'
      <4> DEFINE lpdu == EncodeLpdu(apdu)
      <4>1. /\ call' = [Returned("SendApdu", "Pending") EXCEPT
                           !.pc = "send", !.unsent = lpdu]
            /\ writes' = 0
        BY <1>3, <2>3
      <4>2. lpdu \in Information
        BY <2>1
      <4> HIDE DEF lpdu
      <4>3. QED
        BY <1>1, <2>2, <4>1, <4>2 DEF CallOK, Call
    <3>2. QED
      BY <1>3, <3>1 DEF ChannelOK, ReadOK, stream, buffers
  <2>4. CASE ~UseSession
    <3>1. CallOK'
      BY <1>1, <1>3, <2>1, <2>4, StartWriteKeepsType
    <3>2. QED
      BY <1>3, <3>1 DEF ChannelOK, ReadOK, stream, buffers
  <2>5. QED
    BY <2>3, <2>4
<1>4. QED
  BY <1>2, <1>3 DEF SendApdu

LEMMA ReceiveCallKeepsType ==
  ASSUME ChannelOK, NEW capacity \in Capacities, ReceiveApdu(capacity)
  PROVE  ChannelOK'
<1>1. "ReceiveApdu" \in Operations /\ "receive" \in Places /\ capacity \in Nat
  BY ChannelAssumption DEF Operations, Places, ChannelAssumption
<1>2. CASE Refuse("ReceiveApdu", "InvalidArgument")
  BY <1>1, <1>2, RefusalKeepsType, StatusesCovered
<1>3. CASE /\ call' = [Returned("ReceiveApdu", "Pending") EXCEPT
                         !.pc = "receive", !.capacity = capacity]
           /\ writes' = 0
           /\ UNCHANGED <<stream, session, buffers>>
  <2>1. Returned("ReceiveApdu", "Pending") \in Call
    BY <1>1, ReturnedCall, StatusesCovered
  <2>2. CallOK'
    BY <1>1, <1>3, <2>1 DEF CallOK, Call
  <2>3. QED
    BY <1>3, <2>2 DEF ChannelOK, ReadOK, stream, buffers
<1>4. QED
  BY <1>2, <1>3 DEF ReceiveApdu

-----------------------------------------------------------------------------
(* The steps of a call.                                                    *)

(* What the session says of a frame that was decoded.                      *)
LEMMA SessionFrame ==
  ASSUME ChannelOK, FrameDecoded, NEW o \in ReceiveFrame(Role, session, NextFrame)
  PROVE  /\ o.session \in Session
         /\ o.status \in {"Ok", Refusal}
         /\ o.status \in Statuses
<1>1. NextFrame \in Frame /\ session \in Session
  BY DecodingKeepsType DEF ChannelOK
<1>2. o.session \in Session /\ o.status \in {"Ok", Refusal}
  BY <1>1, ReceiveOutcome
<1>3. QED
  BY <1>2, StatusesCovered DEF Status

(* A read that fails changes the call and the decoder only.                *)
LEMMA FailedReadStep ==
  ASSUME ChannelOK, NEW s \in ReadStatuses, NoFrameDecoded(s), CallOK',
         UNCHANGED <<tx, open, session, segments, pendingApdus>>
  PROVE  ChannelOK'
<1>1. ReadOK'
  BY FailedReadKeepsType DEF ChannelOK
<1>2. QED
  BY <1>1 DEF ChannelOK

(* A frame given to the session changes the session, the decoder and the   *)
(* call only.                                                              *)
LEMMA SessionFrameStep ==
  ASSUME ChannelOK, FrameDecoded, session' \in Session, CallOK',
         UNCHANGED <<tx, open, segments, pendingApdus>>
  PROVE  ChannelOK'
<1>1. ReadOK'
  BY DecodingKeepsType DEF ChannelOK
<1>2. QED
  BY <1>1 DEF ChannelOK

LEMMA CallFields ==
  ASSUME ChannelOK
  PROVE  /\ CallOK /\ call \in Call
         /\ call.op \in Operations /\ call.frame \in Frame
         /\ call.attempt \in 0..(CounterModulus - 1)
         /\ call.unsent \in Information /\ call.capacity \in Nat
BY DEF ChannelOK, CallOK, Call

LEMMA AwaitConnectKeepsType ==
  ASSUME ChannelOK, AwaitConnectRequest
  PROVE  ChannelOK'
<1>1. "AcceptDataLink" \in Operations
  BY DEF Operations
<1>2. CASE (\E s \in ReadStatuses : NoFrameDecoded(s) /\ Return("AcceptDataLink", s))
           /\ UNCHANGED session
  <2>1. PICK s \in ReadStatuses : NoFrameDecoded(s) /\ Return("AcceptDataLink", s)
    BY <1>2
  <2>2. CallOK'
    BY <1>1, <2>1, ReturnKeepsType, StatusesCovered
  <2>3. QED
    BY <1>2, <2>1, <2>2, FailedReadStep DEF AwaitConnectRequest
<1>3. CASE /\ FrameDecoded
           /\ \E o \in ReceiveFrame(Role, session, NextFrame) :
                LET answer == ConnectAnswer(o)
                IN /\ session' = answer.session
                   /\ IF answer.status = "Ok"
                      THEN StartWrite("AcceptDataLink", UFrame("UA"), <<>>)
                      ELSE Return("AcceptDataLink", answer.status)
  <2>1. PICK o \in ReceiveFrame(Role, session, NextFrame) :
          /\ session' = ConnectAnswer(o).session
          /\ IF ConnectAnswer(o).status = "Ok"
             THEN StartWrite("AcceptDataLink", UFrame("UA"), <<>>)
             ELSE Return("AcceptDataLink", ConnectAnswer(o).status)
    BY <1>3
  <2>2. o.session \in Session /\ o.status \in {"Ok", Refusal}
    BY <1>3, SessionFrame
  <2>3. ConnectAnswer(o).session \in Session /\ ConnectAnswer(o).status \in {"Ok", Refusal}
    BY <2>2, BuildOutcome DEF ConnectAnswer
  <2>4. CallOK'
    <3>1. ConnectAnswer(o).status \in Statuses
      BY <2>3, StatusesCovered DEF Status
    <3>2. UFrame("UA") \in Frame /\ <<>> \in Information
      BY BuiltFrames, InformationFacts
    <3>3. QED
      BY <1>1, <2>1, <3>1, <3>2, StartWriteKeepsType, ReturnKeepsType
  <2>5. QED
    BY <1>3, <2>1, <2>3, <2>4, SessionFrameStep DEF AwaitConnectRequest
<1>4. QED
  BY <1>2, <1>3 DEF AwaitConnectRequest

LEMMA AwaitWindowKeepsType ==
  ASSUME ChannelOK, AwaitWindow
  PROVE  ChannelOK'
<1>1. "SendApdu" \in Operations /\ "build" \in Places
  BY DEF Operations, Places
<1>2. CASE (\E s \in ReadStatuses : NoFrameDecoded(s) /\ Return("SendApdu", s))
           /\ UNCHANGED session
  <2>1. PICK s \in ReadStatuses : NoFrameDecoded(s) /\ Return("SendApdu", s)
    BY <1>2
  <2>2. CallOK'
    BY <1>1, <2>1, ReturnKeepsType, StatusesCovered
  <2>3. QED
    BY <1>2, <2>1, <2>2, FailedReadStep DEF AwaitWindow
<1>3. CASE /\ FrameDecoded
           /\ \E o \in ReceiveFrame(Role, session, NextFrame) :
                /\ session' = o.session
                /\ IF o.status = "Ok" THEN Goto("build") ELSE Return("SendApdu", o.status)
  <2>1. PICK o \in ReceiveFrame(Role, session, NextFrame) :
          /\ session' = o.session
          /\ IF o.status = "Ok" THEN Goto("build") ELSE Return("SendApdu", o.status)
    BY <1>3
  <2>2. o.session \in Session /\ o.status \in Statuses
    BY <1>3, SessionFrame
  <2>3. CallOK'
    BY <1>1, <2>1, <2>2, CallFields, GotoKeepsType, ReturnKeepsType
  <2>4. QED
    BY <1>3, <2>1, <2>2, <2>3, SessionFrameStep DEF AwaitWindow
<1>4. QED
  BY <1>2, <1>3 DEF AwaitWindow

(* A chunk is cut from the front of what is unsent.                        *)
LEMMA ChunkFacts ==
  ASSUME NEW unsent \in Information
  PROVE  /\ ChunkSize(unsent) \in 0..Len(unsent)
         /\ SubSeq(unsent, 1, ChunkSize(unsent)) \in Information
         /\ SubSeq(unsent, ChunkSize(unsent) + 1, Len(unsent)) \in Information
<1>1. Len(unsent) \in Nat /\ MaxInformation \in Nat
  BY InformationFacts, ChannelAssumption DEF ChannelAssumption
<1>2. ChunkSize(unsent) \in 0..Len(unsent)
  BY <1>1 DEF ChunkSize
<1> DEFINE m == ChunkSize(unsent)
<1> HIDE DEF m
<1>3. m \in 0..Len(unsent) /\ 1 \in 1..(Len(unsent) + 1) /\ m + 1 \in 1..(Len(unsent) + 1)
      /\ Len(unsent) \in 0..Len(unsent)
  BY <1>1, <1>2 DEF m
<1>4. SubSeq(unsent, 1, m) \in Information /\ SubSeq(unsent, m + 1, Len(unsent)) \in Information
  BY <1>3, PartIsInformation
<1>5. QED
  BY <1>2, <1>4 DEF m

LEMMA BuildKeepsType ==
  ASSUME ChannelOK, BuildSessionInformationFrame
  PROVE  ChannelOK'
<1> DEFINE built == BuildInformationFrame(session)
           rest == SubSeq(call.unsent, ChunkSize(call.unsent) + 1, Len(call.unsent))
<1>1. "SendApdu" \in Operations /\ call.unsent \in Information /\ session \in Session
  BY CallFields DEF Operations, ChannelOK
<1>2. built.session \in Session /\ built.status \in {"Ok", Refusal}
  BY <1>1, BuildOutcome
<1>3. rest \in Information
  BY <1>1, ChunkFacts
<1>4. ChunkFrame(session, call.unsent) \in Frame
  <2>1. (ChunkSize(call.unsent) < Len(call.unsent)) \in BOOLEAN
    OBVIOUS
  <2>2. SubSeq(call.unsent, 1, ChunkSize(call.unsent)) \in Information
    BY <1>1, ChunkFacts
  <2>3. QED
    BY <1>1, <2>1, <2>2, BuiltFrames DEF ChunkFrame
<1>5. /\ session' = built.session
      /\ IF built.status = "Ok"
         THEN StartWrite("SendApdu", ChunkFrame(session, call.unsent), rest)
         ELSE Return("SendApdu", built.status)
      /\ UNCHANGED <<stream, buffers>>
  BY DEF BuildSessionInformationFrame
<1> HIDE DEF built, rest
<1>6. built.status \in Statuses
  BY <1>2, StatusesCovered DEF Status
<1>7. CallOK'
  BY <1>1, <1>3, <1>4, <1>5, <1>6, StartWriteKeepsType, ReturnKeepsType
<1>8. QED
  BY <1>2, <1>5, <1>7 DEF ChannelOK, ReadOK, stream, buffers

LEMMA WriteKeepsType ==
  ASSUME ChannelOK, WriteFrameBytes
  PROVE  ChannelOK'
<1>1. CallOK /\ call.op \in Operations /\ call.frame \in Frame
  BY CallFields
<1>2. tx' \in Seq(Frame) /\ CallOK'
  <2>1. CASE WriteAll(call.frame) /\ AfterWrite
    <3>1. tx' \in Seq(Frame)
      BY <1>1, <2>1, AppendProperties DEF WriteAll, ChannelOK
    <3>2. CASE Return(call.op, "Ok")
      BY <1>1, <3>1, <3>2, ReturnKeepsType, StatusesCovered
    <3>3. CASE call' = [call EXCEPT !.pc = "receive", !.frame = NoFrame] /\ writes' = 0
      <4>1. NoFrame \in Frame /\ "receive" \in Places
        BY BuiltFrames DEF NoFrame, Places
      <4>2. QED
        BY <1>1, <3>1, <3>3, <4>1 DEF CallOK, Call
    <3>4. CASE call' = [call EXCEPT !.pc = "await"] /\ writes' = writes + 1
      <4>1. "await" \in Places
        BY DEF Places
      <4>2. QED
        BY <1>1, <3>1, <3>4, <4>1 DEF CallOK, Call
    <3>5. QED
      BY <2>1, <3>2, <3>3, <3>4 DEF AfterWrite
  <2>2. CASE \E s \in {"NotOpen"} \cup WriteFailures : WriteFails(s) /\ Return(call.op, s)
    <3>1. PICK s \in {"NotOpen"} \cup WriteFailures : WriteFails(s) /\ Return(call.op, s)
      BY <2>2
    <3>2. CallOK'
      BY <1>1, <3>1, ReturnKeepsType, StatusesCovered
    <3>3. QED
      BY <3>1, <3>2 DEF WriteFails, ChannelOK
  <2>3. QED
    BY <2>1, <2>2 DEF WriteFrameBytes
<1>3. QED
  BY <1>2 DEF WriteFrameBytes, ChannelOK, ReadOK, buffers

LEMMA NoAnswerKeepsType ==
  ASSUME ChannelOK, NEW status \in Statuses, AfterNoAnswer(status)
  PROVE  CallOK'
<1>1. "retry" \in Places
  BY DEF Places
<1>2. QED
  BY <1>1, CallFields, GotoKeepsType, ReturnKeepsType DEF AfterNoAnswer

LEMMA AwaitAnswerKeepsType ==
  ASSUME ChannelOK, ReceiveSessionControlFrameWithRetry
  PROVE  ChannelOK'
<1>1. CASE (\E s \in ReadStatuses : NoFrameDecoded(s) /\ AfterNoAnswer(s))
           /\ UNCHANGED session
  <2>1. PICK s \in ReadStatuses : NoFrameDecoded(s) /\ AfterNoAnswer(s)
    BY <1>1
  <2>2. CallOK'
    BY <2>1, NoAnswerKeepsType, StatusesCovered
  <2>3. QED
    BY <1>1, <2>1, <2>2, FailedReadStep DEF ReceiveSessionControlFrameWithRetry
<1>2. CASE /\ FrameDecoded
           /\ \E o \in ReceiveFrame(Role, session, NextFrame) :
                /\ session' = o.session
                /\ IF o.status = "Ok" THEN AfterAnswer ELSE AfterNoAnswer(o.status)
  <2>1. PICK o \in ReceiveFrame(Role, session, NextFrame) :
          /\ session' = o.session
          /\ IF o.status = "Ok" THEN AfterAnswer ELSE AfterNoAnswer(o.status)
    BY <1>2
  <2>2. o.session \in Session /\ o.status \in Statuses
    BY <1>2, SessionFrame
  <2>3. AfterAnswer => CallOK'
    <3>1. "send" \in Places /\ "Ok" \in Statuses
      BY StatusesCovered DEF Places
    <3>2. QED
      BY <3>1, CallFields, GotoKeepsType, ReturnKeepsType DEF AfterAnswer
  <2>4. CallOK'
    BY <2>1, <2>2, <2>3, NoAnswerKeepsType
  <2>5. QED
    BY <1>2, <2>1, <2>2, <2>4, SessionFrameStep DEF ReceiveSessionControlFrameWithRetry
<1>3. QED
  BY <1>1, <1>2 DEF ReceiveSessionControlFrameWithRetry

LEMMA SleepKeepsType ==
  ASSUME ChannelOK, SleepBeforeRetry
  PROVE  ChannelOK'
<1>1. CASE /\ call' = [call EXCEPT !.pc = "write", !.attempt = (@ + 1) % CounterModulus]
           /\ UNCHANGED writes
  <2>1. "write" \in Places /\ (call.attempt + 1) % CounterModulus \in 0..(CounterModulus - 1)
    BY CallFields, ChannelAssumption DEF Places, ChannelAssumption
  <2>2. CallOK'
    BY <1>1, <2>1, CallFields DEF CallOK, Call
  <2>3. QED
    BY <2>2 DEF SleepBeforeRetry, ChannelOK, ReadOK, stream, buffers
<1>2. CASE \E s \in SleepFailures : Return(call.op, s)
  <2>1. CallOK'
    BY <1>2, CallFields, ReturnKeepsType, StatusesCovered
  <2>2. QED
    BY <2>1 DEF SleepBeforeRetry, ChannelOK, ReadOK, stream, buffers
<1>3. QED
  BY <1>1, <1>2 DEF SleepBeforeRetry

-----------------------------------------------------------------------------
(* The receive loop.                                                       *)

(* What one decoded frame may change, whichever way it is dealt with.      *)
ReceivedOK == /\ CallOK' /\ session' \in Session /\ segments' \in Reassembly
              /\ pendingApdus' \in Seq(Information)

LEMMA DecodeStatusesCovered ==
  ASSUME NEW information \in Information
  PROVE  /\ DecodeStatuses(information) \subseteq Statuses
         /\ "Ok" \in DecodeStatuses(information) => DecodeLpdu(information) \in Information
<1>1. DecodeLpduStatuses(information) \subseteq Statuses
  BY StatusesCovered DEF DecodeLpduStatuses, Status, Refusal, MapLlcStatus, CodecStatus
<1>2. DecodeStatuses(information) \subseteq Statuses
  BY <1>1, StatusesCovered DEF DecodeStatuses
<1>3. "Ok" \in DecodeStatuses(information) => information # <<>>
  BY DEF DecodeStatuses, DecodeLpduStatuses, MapLlcStatus, CodecStatus
<1>4. QED
  BY <1>2, <1>3, InformationFacts DEF DecodeLpdu

LEMMA QueueKeepsType ==
  ASSUME ChannelOK, NEW information \in Information,
         "Ok" \in DecodeStatuses(information), QueueApdu(information)
  PROVE  pendingApdus' \in Seq(Information)
<1>1. DecodeLpdu(information) \in Information
  BY DecodeStatusesCovered
<1>2. QED
  BY <1>1, AppendProperties DEF QueueApdu, ChannelOK

LEMMA NoApduKeepsType ==
  ASSUME ChannelOK, NEW status \in Statuses, NoApdu(status)
  PROVE  CallOK' /\ pendingApdus' \in Seq(Information)
<1>1. "ReceiveApdu" \in Operations /\ "receive" \in Places
  BY DEF Operations, Places
<1>2. CallOK'
  BY <1>1, CallFields, GotoKeepsType, ReturnKeepsType DEF NoApdu
<1>3. QED
  BY <1>2 DEF NoApdu, ChannelOK

LEMMA SendReceiveReadyKeepsType ==
  ASSUME ChannelOK, NEW s \in Session, SendReceiveReady(s)
  PROVE  CallOK'
<1> DEFINE built == BuildReceiveReadyFrame(s)
<1>1. built.status \in Statuses
  <2>1. built.status \in {"Ok", Refusal}
    BY BuildOutcome
  <2>2. QED
    BY <2>1, StatusesCovered DEF Status
<1>2. CASE call' = [call EXCEPT !.pc = "write", !.frame = RRFrame(s)] /\ UNCHANGED writes
  <2>1. "write" \in Places /\ RRFrame(s) \in Frame
    BY BuiltFrames DEF Places
  <2>2. QED
    BY <1>2, <2>1, CallFields DEF CallOK, Call
<1>3. CASE Return("ReceiveApdu", built.status)
  BY <1>1, <1>3, ReturnKeepsType DEF Operations
<1>4. QED
  BY <1>2, <1>3 DEF SendReceiveReady

LEMMA ReceiveUnnumberedKeepsType ==
  ASSUME ChannelOK, NEW f \in Frame, ReceiveUnnumbered(f)
  PROVE  ReceivedOK
<1>1. f.information \in Information
  BY DEF Frame
<1>2. CASE \E status \in Statuses : NoApdu(status)
  BY <1>2, NoApduKeepsType DEF ReceiveUnnumbered, ReceivedOK, ChannelOK
<1>3. CASE "Ok" \in DecodeStatuses(f.information) /\ QueueApdu(f.information) /\ Goto("receive")
  <2>1. CallOK' /\ pendingApdus' \in Seq(Information)
    BY <1>1, <1>3, CallFields, GotoKeepsType, QueueKeepsType DEF Places
  <2>2. QED
    BY <2>1 DEF ReceiveUnnumbered, ReceivedOK, ChannelOK
<1>4. QED
  <2>1. PICK status \in (IF f.segmented THEN {"UnsupportedFeature"}
                         ELSE DecodeStatuses(f.information)) :
          \/ status = "Ok" /\ QueueApdu(f.information) /\ Goto("receive")
          \/ NoApdu(status)
    BY DEF ReceiveUnnumbered
  <2>2. status \in Statuses /\ (status = "Ok" => "Ok" \in DecodeStatuses(f.information))
    BY <1>1, <2>1, DecodeStatusesCovered, StatusesCovered
  <2>3. QED
    BY <1>2, <1>3, <2>1, <2>2

LEMMA ReceiveLpduKeepsType ==
  ASSUME ChannelOK, NEW information \in Information, NEW s \in Session,
         ReceiveLpdu(information, s)
  PROVE  CallOK' /\ pendingApdus' \in Seq(Information)
<1>1. PICK status \in DecodeStatuses(information) :
        \/ status = "Ok" /\ QueueApdu(information) /\ SendReceiveReady(s)
        \/ NoApdu(status)
  BY DEF ReceiveLpdu
<1>2. CASE status = "Ok" /\ QueueApdu(information) /\ SendReceiveReady(s)
  BY <1>1, <1>2, QueueKeepsType, SendReceiveReadyKeepsType
<1>3. CASE NoApdu(status)
  BY <1>1, <1>3, DecodeStatusesCovered, NoApduKeepsType
<1>4. QED
  BY <1>1, <1>2, <1>3

LEMMA ReceiveCompletedKeepsType ==
  ASSUME ChannelOK, NEW f \in Frame, NEW has \in BOOLEAN, ReceiveCompleted(f, has)
  PROVE  CallOK' /\ session' \in Session /\ pendingApdus' \in Seq(Information)
<1>1. PICK o \in ReceiveFrame(Role, session, f) :
        /\ session' = o.session
        /\ IF o.status # "Ok" THEN NoApdu(o.status)
           ELSE IF has /\ f.information # <<>> THEN ReceiveLpdu(f.information, o.session)
           ELSE Goto("receive") /\ UNCHANGED pendingApdus
  BY DEF ReceiveCompleted
<1>2. session \in Session /\ f.information \in Information
  BY DEF ChannelOK, Frame
<1>3. o.session \in Session /\ o.status \in Statuses
  <2>1. o.session \in Session /\ o.status \in {"Ok", Refusal}
    BY <1>2, ReceiveOutcome
  <2>2. QED
    BY <2>1, StatusesCovered DEF Status
<1>4. CASE NoApdu(o.status)
  BY <1>1, <1>3, <1>4, NoApduKeepsType
<1>5. CASE ReceiveLpdu(f.information, o.session)
  BY <1>1, <1>2, <1>3, <1>5, ReceiveLpduKeepsType
<1>6. CASE Goto("receive") /\ UNCHANGED pendingApdus
  <2>1. CallOK'
    BY <1>6, CallFields, GotoKeepsType DEF Places
  <2>2. QED
    BY <1>1, <1>3, <1>6, <2>1 DEF ChannelOK
<1>7. QED
  BY <1>1, <1>4, <1>5, <1>6

LEMMA ReceiveNumberedKeepsType ==
  ASSUME ChannelOK, NEW f \in Frame, ReceiveNumbered(f)
  PROVE  ReceivedOK
<1>1. ReassemblyLimit \in Nat
  BY ChannelAssumption DEF ReassemblyLimit, ChannelAssumption
<1>2. PICK p \in PushFrame(segments, f, ReassemblyLimit) :
        \/ segments' = p.segments /\ ReceiveCompleted(p.completed, p.hasCompleted)
        \/ /\ NoApdu(p.status) /\ UNCHANGED session
           /\ segments' = IF p.status = "NeedMoreData" THEN p.segments ELSE <<>>
  BY DEF ReceiveNumbered
<1>3. /\ p.segments \in Reassembly /\ p.completed \in Frame
      /\ p.status \in Statuses /\ p.hasCompleted \in BOOLEAN
  BY <1>1, PushOutcome, StatusesCovered DEF ChannelOK
<1>4. CASE segments' = p.segments /\ ReceiveCompleted(p.completed, p.hasCompleted)
  BY <1>3, <1>4, ReceiveCompletedKeepsType DEF ReceivedOK
<1>5. CASE /\ NoApdu(p.status) /\ UNCHANGED session
           /\ segments' = IF p.status = "NeedMoreData" THEN p.segments ELSE <<>>
  <2>1. CallOK' /\ pendingApdus' \in Seq(Information)
    BY <1>3, <1>5, NoApduKeepsType
  <2>2. <<>> \in Reassembly
    BY DEF Reassembly
  <2>3. QED
    BY <1>3, <1>5, <2>1, <2>2 DEF ReceivedOK, ChannelOK
<1>6. QED
  BY <1>2, <1>4, <1>5

LEMMA ReceiveNextKeepsType ==
  ASSUME ChannelOK, ReceiveNextApdu
  PROVE  ChannelOK'
<1>1. CASE /\ \E s \in ReadStatuses : NoFrameDecoded(s) /\ Return("ReceiveApdu", s)
           /\ UNCHANGED <<session, segments, pendingApdus>>
  <2>1. PICK s \in ReadStatuses : NoFrameDecoded(s) /\ Return("ReceiveApdu", s)
    BY <1>1
  <2>2. CallOK'
    BY <2>1, ReturnKeepsType, StatusesCovered DEF Operations
  <2>3. QED
    BY <1>1, <2>1, <2>2, FailedReadStep DEF ReceiveNextApdu
<1>2. CASE /\ FrameDecoded
           /\ IF UseSession THEN ReceiveNumbered(NextFrame) ELSE ReceiveUnnumbered(NextFrame)
  <2>1. ReadOK' /\ NextFrame \in Frame
    BY <1>2, DecodingKeepsType DEF ChannelOK
  <2>2. ReceivedOK
    BY <1>2, <2>1, ReceiveNumberedKeepsType, ReceiveUnnumberedKeepsType
  <2>3. QED
    BY <2>1, <2>2 DEF ReceivedOK, ReceiveNextApdu, ChannelOK
<1>3. QED
  BY <1>1, <1>2 DEF ReceiveNextApdu

LEMMA CopyKeepsType ==
  ASSUME ChannelOK, CopyFirstPendingApdu
  PROVE  ChannelOK'
<1>1. pendingApdus \in Seq(Information) /\ pendingApdus # <<>>
  BY DEF CopyFirstPendingApdu, ChannelOK
<1>2. Tail(pendingApdus) \in Seq(Information)
  BY <1>1, HeadTailProperties
<1>3. pendingApdus' \in Seq(Information)
  BY <1>1, <1>2 DEF CopyFirstPendingApdu, TakeIf
<1>4. \E status \in {"Ok", "OutputBufferTooSmall"} : Return("ReceiveApdu", status)
  BY DEF CopyFirstPendingApdu
<1>5. CallOK'
  BY <1>4, ReturnKeepsType, StatusesCovered DEF Operations
<1>6. QED
  BY <1>3, <1>5 DEF CopyFirstPendingApdu, ChannelOK, ReadOK, stream

-----------------------------------------------------------------------------
(* Type correctness.                                                       *)

LEMMA ApplicationKeepsType ==
  ASSUME ChannelOK, Application
  PROVE  ChannelOK'
<1>1. CASE Open
  BY <1>1, OpenKeepsType
<1>2. CASE Close
  BY <1>2, CloseKeepsType
<1>3. CASE DataLinkCall
  BY <1>3, ConnectKeepsType, AcceptKeepsType, DisconnectKeepsType DEF DataLinkCall
<1>4. CASE \E apdu \in Apdus : SendApdu(apdu)
  <2>1. PICK apdu \in Apdus : SendApdu(apdu)
    BY <1>4
  <2>2. apdu \in Seq(Octets)
    BY <2>1, EndpointAssumption DEF EndpointAssumption
  <2>3. QED
    BY <2>1, <2>2, SendKeepsType
<1>5. CASE \E capacity \in Capacities : ReceiveApdu(capacity)
  BY <1>5, ReceiveCallKeepsType
<1>6. QED
  BY <1>1, <1>2, <1>3, <1>4, <1>5 DEF Application

LEMMA StepKeepsType ==
  ASSUME ChannelOK, Step
  PROVE  ChannelOK'
BY AwaitConnectKeepsType, AwaitWindowKeepsType, BuildKeepsType, WriteKeepsType,
   AwaitAnswerKeepsType, SleepKeepsType, ReceiveNextKeepsType, CopyKeepsType DEF Step

LEMMA PeerKeepsType ==
  ASSUME ChannelOK, PeerSends \/ PeerReads
  PROVE  ChannelOK'
<1>1. CASE PeerSends
  <2>1. PICK f \in PeerFrames : rx' = Append(rx, f)
    BY <1>1 DEF PeerSends
  <2>2. f \in Frame /\ rx \in Seq(Frame)
    BY <2>1, EndpointAssumption DEF EndpointAssumption, ChannelOK, ReadOK
  <2>3. rx' \in Seq(Frame) /\ rx' # <<>>
    BY <2>1, <2>2, AppendProperties, EmptySeq
  <2>4. QED
    BY <1>1, <2>3 DEF PeerSends, ChannelOK, ReadOK, CallOK, buffers
<1>2. CASE PeerReads
  <2>1. tx' \in Seq(Frame)
    BY <1>2, HeadTailProperties DEF PeerReads, ChannelOK
  <2>2. QED
    BY <1>2, <2>1 DEF PeerReads, ChannelOK, ReadOK, CallOK, buffers
<1>3. QED
  BY <1>1, <1>2

LEMMA NextKeepsType ==
  ASSUME TypeInv, [Next]_vars
  PROVE  TypeInv'
<1>1. CASE Next
  <2>1. ChannelOK'
    BY <1>1, ApplicationKeepsType, StepKeepsType, PeerKeepsType DEF Next, TypeInv
  <2>2. linked' \in BOOLEAN
    BY <1>1, Zenon DEF Next, LinkHistory
  <2>3. QED
    BY <2>1, <2>2 DEF TypeInv
<1>2. CASE UNCHANGED vars
  BY <1>2 DEF vars, stream, buffers, TypeInv, ChannelOK, ReadOK, CallOK
<1>3. QED
  BY <1>1, <1>2

LEMMA InitHasType ==
  ASSUME Init
  PROVE  TypeInv
<1>1. call \in Call
  BY ReturnedCall, StatusesCovered DEF Init, ChannelInit, Operations
<1>2. <<>> \in Seq(Frame) /\ <<>> \in Seq(Information) /\ <<>> \in Reassembly
  BY DEF Reassembly
<1>3. QED
  BY <1>1, <1>2, StartedSession
     DEF Init, ChannelInit, TypeInv, ChannelOK, ReadOK, CallOK

(* The inductive invariant.                                                *)
THEOREM TypeInvariant == Spec => []TypeInv
<1>1. Init => TypeInv
  BY InitHasType
<1>2. TypeInv /\ [Next]_vars => TypeInv'
  BY NextKeepsType
<1>3. QED
  BY <1>1, <1>2, PTL DEF Spec

(* The channel's members and the locals of its calls keep their types; in  *)
(* particular the attempt counter stays a uint8_t and every frame written  *)
(* or queued is a frame.                                                   *)
THEOREM TypeCorrect == Spec => []TypeOK
<1>1. TypeInv => TypeOK
  BY DEF TypeInv, ChannelOK, ReadOK, CallOK, TypeOK
<1>2. QED
  BY <1>1, TypeInvariant, PTL
=============================================================================
