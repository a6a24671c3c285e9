-------------------------- MODULE HdlcLinkEndProofs --------------------------
(***************************************************************************)
(* What a client and a server do to the frames of the wires between them:  *)
(* lemmas about one channel, for the proofs about HdlcLink.  A step of a   *)
(* call is one of a few events, and the lemmas say which.                  *)
(***************************************************************************)
EXTENDS HdlcEndpointSafetyProofs

(* The frames the channel has not decided about yet, in order.             *)
Incoming == pendingHdlcFrames \o rx

(* The frames of line, in their order, perhaps without some of them.       *)
Thinned(line, rest) ==
  \E g \in [1..Len(rest) -> 1..Len(line)] :
    /\ \A i \in 1..Len(rest) : rest[i] = line[g[i]]
    /\ \A i, j \in 1..Len(rest) : i < j => g[i] < g[j]

-----------------------------------------------------------------------------
(* Frames that get lost.                                                   *)

(* The k elements from the c-th on are cut out.                            *)
LEMMA CutOut ==
  ASSUME NEW S, NEW line \in Seq(S), NEW rest \in Seq(S),
         NEW c \in Nat, NEW k \in Nat, Len(rest) + k = Len(line),
         \A i \in 1..Len(rest) : rest[i] = line[IF i < c THEN i ELSE i + k]
  PROVE  Thinned(line, rest)
<1> DEFINE g == [i \in 1..Len(rest) |-> IF i < c THEN i ELSE i + k]
<1>1. Len(rest) \in Nat /\ Len(line) \in Nat
  BY LenProperties
<1>2. g \in [1..Len(rest) -> 1..Len(line)]
  BY <1>1
<1>3. \A i \in 1..Len(rest) : rest[i] = line[g[i]]
  OBVIOUS
<1>4. \A i, j \in 1..Len(rest) : i < j => g[i] < g[j]
  BY <1>1
<1> HIDE DEF g
<1>5. QED
  BY <1>2, <1>3, <1>4 DEF Thinned

LEMMA OneCutOut ==
  ASSUME NEW S, NEW line \in Seq(S), NEW rest \in Seq(S), NEW c \in Nat,
         Len(rest) + 1 = Len(line),
         \A i \in 1..Len(rest) : rest[i] = line[IF i < c THEN i ELSE i + 1]
  PROVE  Thinned(line, rest)
BY CutOut

LEMMA NothingLost ==
  ASSUME NEW S, NEW line \in Seq(S)
  PROVE  Thinned(line, line)
<1>1. Len(line) \in Nat
  BY LenProperties
<1>2. \A i \in 1..Len(line) : line[i] = line[IF i < 0 THEN i ELSE i + 0]
  BY <1>1
<1>3. QED
  BY <1>1, <1>2, CutOut

LEMMA FirstTaken ==
  ASSUME NEW S, NEW line \in Seq(S), line # <<>>
  PROVE  /\ Thinned(line, Tail(line)) /\ Tail(line) \in Seq(S)
         /\ Len(line) \in Nat \ {0} /\ line[1] = Head(line)
         /\ Len(Tail(line)) = Len(line) - 1
         /\ \A i \in 1..Len(Tail(line)) : Tail(line)[i] = line[i + 1]
<1>1. Len(line) \in Nat \ {0}
  BY LenProperties, EmptySeq
<1>2. /\ Tail(line) \in Seq(S) /\ Len(Tail(line)) = Len(line) - 1
      /\ \A i \in 1..Len(Tail(line)) : Tail(line)[i] = line[i + 1]
      /\ line[1] = Head(line)
  BY HeadTailProperties
<1>3. \A i \in 1..Len(Tail(line)) : Tail(line)[i] = line[IF i < 1 THEN i ELSE i + 1]
  BY <1>1, <1>2
<1>4. Thinned(line, Tail(line))
  <2>1. Len(Tail(line)) + 1 = Len(line)
    BY <1>1, <1>2
  <2>2. QED
    BY <1>2, <1>3, <2>1, CutOut
<1>5. QED
  BY <1>1, <1>2, <1>4

-----------------------------------------------------------------------------
(* Reads.                                                                  *)

LEMMA IncomingFrames ==
  ASSUME ReadOK
  PROVE  Incoming \in Seq(Frame)
BY ConcatProperties DEF ReadOK, Incoming

LEMMA TailOfConcat ==
  ASSUME NEW S, NEW s \in Seq(S), NEW t \in Seq(S), s # <<>>
  PROVE  Tail(s) \o t = Tail(s \o t) /\ Head(s) = Head(s \o t)
<1>1. /\ s \o t \in Seq(S) /\ s \o t # <<>> /\ Len(s \o t) = Len(s) + Len(t)
      /\ \A i \in 1..(Len(s) + Len(t)) :
           (s \o t)[i] = IF i <= Len(s) THEN s[i] ELSE t[i - Len(s)]
  BY ConcatProperties, ConcatEqualIffEmpty
<1>2. Len(s) \in Nat \ {0} /\ Len(t) \in Nat
  BY LenProperties, EmptySeq
<1>3. /\ Tail(s) \in Seq(S) /\ Len(Tail(s)) = Len(s) - 1
      /\ \A i \in 1..Len(Tail(s)) : Tail(s)[i] = s[i + 1]
  BY HeadTailProperties
<1>4. /\ Tail(s \o t) \in Seq(S) /\ Len(Tail(s \o t)) = Len(s \o t) - 1
      /\ \A i \in 1..Len(Tail(s \o t)) : Tail(s \o t)[i] = (s \o t)[i + 1]
  BY <1>1, HeadTailProperties
<1>5. /\ Tail(s) \o t \in Seq(S) /\ Len(Tail(s) \o t) = Len(Tail(s)) + Len(t)
      /\ \A i \in 1..(Len(Tail(s)) + Len(t)) :
           (Tail(s) \o t)[i] = IF i <= Len(Tail(s)) THEN Tail(s)[i] ELSE t[i - Len(Tail(s))]
  BY <1>3, ConcatProperties
<1>6. Len(Tail(s) \o t) = Len(Tail(s \o t))
  BY <1>1, <1>2, <1>3, <1>4, <1>5
<1>7. ASSUME NEW i \in 1..Len(Tail(s) \o t)
      PROVE  (Tail(s) \o t)[i] = Tail(s \o t)[i]
  <2>1. i \in 1..(Len(s) - 1 + Len(t)) /\ i + 1 \in 1..(Len(s) + Len(t))
    BY <1>2, <1>3, <1>5
  <2>2. Tail(s \o t)[i] = IF i + 1 <= Len(s) THEN s[i + 1] ELSE t[i + 1 - Len(s)]
    BY <1>1, <1>2, <1>4, <2>1
  <2>3. (Tail(s) \o t)[i] = IF i <= Len(s) - 1 THEN s[i + 1] ELSE t[i - (Len(s) - 1)]
    BY <1>2, <1>3, <1>5, <2>1
  <2>4. QED
    BY <1>2, <2>1, <2>2, <2>3
<1>8. Tail(s) \o t = Tail(s \o t)
  BY <1>4, <1>5, <1>6, <1>7, SeqEqual
<1>9. Head(s) = s[1] /\ Head(s \o t) = (s \o t)[1]
  OBVIOUS
<1>10. QED
  BY <1>1, <1>2, <1>8, <1>9

LEMMA ReadTakesFirst ==
  ASSUME ReadOK, FrameDecoded
  PROVE  /\ Incoming # <<>> /\ NextFrame = Head(Incoming) /\ Incoming' = Tail(Incoming)
<1>1. pendingHdlcFrames \in Seq(Frame) /\ rx \in Seq(Frame)
  BY DEF ReadOK
<1>2. CASE pendingHdlcFrames # <<>>
  <2>1. pendingHdlcFrames' = Tail(pendingHdlcFrames) /\ rx' = rx
    BY <1>2 DEF FrameDecoded
  <2>2. Incoming # <<>>
    BY <1>1, <1>2, ConcatEqualIffEmpty DEF Incoming
  <2>3. Tail(pendingHdlcFrames) \o rx = Tail(pendingHdlcFrames \o rx)
    BY <1>1, <1>2, TailOfConcat
  <2>4. QED
    BY <2>1, <2>2, <2>3 DEF Incoming, NextFrame
<1>3. CASE pendingHdlcFrames = <<>>
  <2>1. PICK n \in 1..Len(rx) :
          pendingHdlcFrames' = SubSeq(rx, 2, n) /\ rx' = SubSeq(rx, n + 1, Len(rx))
    BY <1>3 DEF FrameDecoded
  <2>2. Len(rx) \in Nat /\ n \in Nat \ {0} /\ n <= Len(rx)
    BY <1>1, LenProperties
  <2>3. Incoming = rx /\ rx # <<>>
    BY <1>1, <1>3, <2>2, ConcatEmptySeq, EmptySeq DEF Incoming
  <2>4. SubSeq(rx, 2, n) \o SubSeq(rx, n + 1, Len(rx)) = SubSeq(rx, 2, Len(rx))
    <3>1. 2 \in 1..(Len(rx) + 1) /\ n \in (2 - 1)..Len(rx) /\ Len(rx) \in n..Len(rx)
      BY <2>2
    <3>2. QED
      BY <1>1, <3>1, ConcatAdjacentSubSeq
  <2>5. Tail(rx) = SubSeq(rx, 2, Len(rx))
    BY <1>1, <2>3, TailIsSubSeq
  <2>6. QED
    BY <2>1, <2>3, <2>4, <2>5 DEF Incoming, NextFrame
<1>4. QED
  BY <1>2, <1>3

LEMMA FailedReadTakesNone ==
  ASSUME ~LineNoise, NEW status, NoFrameDecoded(status)
  PROVE  Incoming' = Incoming
BY DEF NoFrameDecoded, Incoming

(* A new session drops what was decoded, and the frame that was half read. *)
LEMMA NewSessionDrops ==
  ASSUME ReadOK, EnsureSession
  PROVE  Thinned(Incoming, Incoming') /\ segments' \in {segments, <<>>}
<1>1. pendingHdlcFrames \in Seq(Frame) /\ rx \in Seq(Frame)
      /\ (partial => rx # <<>>)
  BY DEF ReadOK
<1>2. CASE UNCHANGED <<partial, rx, segments, pendingHdlcFrames>>
  BY <1>2, NothingLost, IncomingFrames DEF Incoming
<1>3. CASE ResetDecoder /\ segments' = <<>> /\ pendingHdlcFrames' = <<>>
  <2>1. Undecoded \in Seq(Frame)
    BY ResetKeepsType
  <2>2. Incoming' = Undecoded
    BY <1>3, <2>1, ConcatEmptySeq DEF ResetDecoder, Incoming
  <2> DEFINE k == IF partial THEN Len(pendingHdlcFrames) + 1 ELSE Len(pendingHdlcFrames)
  <2>3. Len(rx) \in Nat /\ Len(pendingHdlcFrames) \in Nat /\ (partial => Len(rx) > 0)
    BY <1>1, LenProperties, EmptySeq
  <2>4. k \in Nat /\ 0 \in Nat
    BY <2>3
  <2>5. /\ Len(Incoming) = Len(pendingHdlcFrames) + Len(rx)
        /\ \A i \in 1..Len(rx) : Incoming[Len(pendingHdlcFrames) + i] = rx[i]
    BY <1>1, <2>3, ConcatProperties DEF Incoming
  <2>6. /\ Len(Undecoded) = IF partial THEN Len(rx) - 1 ELSE Len(rx)
        /\ \A i \in 1..Len(Undecoded) : Undecoded[i] = rx[IF partial THEN i + 1 ELSE i]
    BY <1>1, <2>3, HeadTailProperties DEF Undecoded
  <2>7. Len(Undecoded) + k = Len(Incoming)
    BY <2>3, <2>5, <2>6
  <2>8. \A i \in 1..Len(Undecoded) : Undecoded[i] = Incoming[i + k]
    BY <2>3, <2>5, <2>6
  <2>9. \A i \in 1..Len(Undecoded) : Undecoded[i] = Incoming[IF i < 0 THEN i ELSE i + k]
    BY <2>8, <2>3, <2>6
  <2> HIDE DEF k
  <2>10. Thinned(Incoming, Undecoded)
    BY <2>1, <2>4, <2>7, <2>9, IncomingFrames, CutOut
  <2>11. QED
    BY <1>3, <2>2, <2>10
<1>4. QED
  BY <1>2, <1>3 DEF EnsureSession

-----------------------------------------------------------------------------
(* Sequence numbers, of which there are at least two.                      *)

LEMMA NextDiffers ==
  ASSUME NEW n \in SeqNumbers
  PROVE  (n + 1) % SeqModulus # n
BY SessionAssumption DEF SessionAssumption, SeqNumbers

LEMMA WindowOfOne ==
  ASSUME Window = 1, NEW s \in Session
  PROVE  CanSendInformationFrame(s) <=> s.vs = s.va
<1>1. s.vs \in 0..(SeqModulus - 1) /\ s.va \in 0..(SeqModulus - 1) /\ SeqModulus \in Nat \ {0}
  BY SessionAssumption DEF SessionAssumption, Session, SeqNumbers
<1> DEFINE d == s.vs - s.va
<1>2. d \in Int /\ -SeqModulus < d /\ d < SeqModulus
  BY <1>1
<1> HIDE DEF d
<1>3. d = 0 => (d + SeqModulus) % SeqModulus = 0
  BY <1>1, <1>2
<1>4. d > 0 => (d + SeqModulus) % SeqModulus = d
  BY <1>1, <1>2
<1>5. d < 0 => (d + SeqModulus) % SeqModulus = d + SeqModulus
  BY <1>1, <1>2
<1>6. (d + SeqModulus) % SeqModulus < 1 <=> d = 0
  BY <1>1, <1>2, <1>3, <1>4, <1>5
<1>7. d = 0 <=> s.vs = s.va
  BY <1>1 DEF d
<1>8. QED
  BY <1>6, <1>7 DEF CanSendInformationFrame, Distance, d

-----------------------------------------------------------------------------
(* The client, on a link that is not disconnected.                         *)

Asking == {"write", "await", "retry"}

Fits(apdu) == MaxApduSize = 0 \/ Len(apdu) <= MaxApduSize

(* Nothing the peer sends counts V(R) up, and at most one I-frame is not   *)
(* acknowledged.                                                           *)
ClientSession ==
  /\ session.vr = 0
  /\ \/ session.state \in {"Disconnected", "Connecting"} /\ session.vs = 0 /\ session.va = 0
     \/ session.state = "Connected" /\ session.vs \in {session.va, (session.va + 1) % SeqModulus}

ClientCall ==
  \/ call.pc = "idle"
  \/ /\ call.op = "ConnectDataLink" /\ call.pc \in Asking
     /\ call.frame = UFrame("SNRM") /\ call.unsent = <<>>
     /\ session.state = "Connecting"
  \/ /\ call.op = "SendApdu" /\ call.pc \in {"send", "build"}
     /\ \E apdu \in Apdus : Fits(apdu) /\ call.unsent = EncodeLpdu(apdu)
     /\ session.state = "Connected"
  \/ call.op = "SendApdu" /\ call.pc \in Asking /\ session.state = "Connected"
  \/ call.op = "ReceiveApdu" /\ call.pc = "receive" /\ session.state = "Connected"

SentIsAcknowledged ==
  call.op = "SendApdu" /\ call.status = "Ok" => session.va = session.vs

ClientEnd == ClientSession /\ ClientCall /\ SentIsAcknowledged

(* What the server may have on the way: UA, and the RR that acknowledges   *)
(* all that was built.                                                     *)
AnswerOnly(f) ==
  \/ f.kind = "UA"
  \/ /\ f.kind = "RR" /\ f.nr = session.vs /\ f.information = <<>>
     /\ call.pc \in Asking => call.unsent = <<>>

(* A call that waits for an answer keeps its frame.                        *)
KeepsFrame ==
  call'.pc \in Asking =>
    /\ call.pc \in Asking /\ call'.op = call.op
    /\ call'.frame = call.frame /\ call'.unsent = call.unsent

(* What a step of the client does to its session and to the two lines.     *)
ClientIgnores ==
  session' = session /\ tx' = tx /\ Thinned(Incoming, Incoming') /\ KeepsFrame

ClientLinksUp ==
  /\ session.state = "Connecting" /\ session' = InState("Connected")
  /\ tx' = tx /\ Thinned(Incoming, Incoming') /\ KeepsFrame

ClientHearsAck ==
  /\ Incoming # <<>> /\ Head(Incoming).kind = "RR" /\ session.state = "Connected"
  /\ session' = [session EXCEPT !.va = session.vs]
  /\ tx' = tx /\ Thinned(Incoming, Incoming') /\ Incoming' = Tail(Incoming) /\ KeepsFrame

ClientBuilds ==
  /\ call.op = "SendApdu" /\ call.pc \in {"send", "build"} /\ session.state = "Connected"
  /\ session.va = session.vs
  /\ session' = [session EXCEPT !.vs = (@ + 1) % SeqModulus]
  /\ tx' = tx /\ Incoming' = Incoming
  /\ call'.op = "SendApdu" /\ call'.pc = "write"
  /\ call'.frame = ChunkFrame(session, call.unsent)
  /\ call'.unsent = SubSeq(call.unsent, ChunkSize(call.unsent) + 1, Len(call.unsent))

ClientPuts ==
  /\ call.pc = "write"
  /\ session' = session /\ tx' = Append(tx, call.frame) /\ Incoming' = Incoming /\ KeepsFrame

ClientEvent == ClientIgnores \/ ClientLinksUp \/ ClientHearsAck \/ ClientBuilds \/ ClientPuts

(* What the two answers do to the session.                                 *)
LEMMA AnswerTaken ==
  ASSUME ~Lenient, Role = "Client", session \in Session, ClientSession,
         NEW f, AnswerOnly(f), NEW o \in ReceiveFrame(Role, session, f)
  PROVE  \/ o.status = Refusal /\ o.session = session
         \/ /\ o.status = "Ok" /\ session.state = "Connecting"
            /\ o.session = InState("Connected")
         \/ /\ o.status = "Ok" /\ f.kind = "RR" /\ session.state = "Connected"
            /\ o.session = [session EXCEPT !.va = session.vs]
<1>1. Unexpected(session) = {Refused(session)}
  BY DEF Unexpected
<1>2. Refused(session).status = Refusal /\ Refused(session).session = session
  BY DEF Refused
<1>3. \A s : Accepted(s).status = "Ok" /\ Accepted(s).session = s
  BY DEF Accepted
<1>4. CASE f.kind = "UA"
  <2>1. session.state # "Disconnecting"
    BY DEF ClientSession
  <2>2. \/ o = Accepted(InState("Connected")) /\ session.state = "Connecting"
        \/ o = Refused(session)
    BY <1>1, <1>4, <2>1 DEF ReceiveFrame
  <2>3. QED
    BY <1>2, <1>3, <2>2
<1>5. CASE f.kind = "RR" /\ f.nr = session.vs
  <2>1. o \in ReceiveReady(session, f)
    BY <1>5 DEF ReceiveFrame
  <2>2. \/ o = Refused(session)
        \/ session.state = "Connected" /\ o = Accepted([session EXCEPT !.va = session.vs])
    BY <1>1, <1>5, <2>1 DEF ReceiveReady
  <2>3. QED
    BY <1>2, <1>3, <1>5, <2>2
<1>6. QED
  BY <1>4, <1>5 DEF AnswerOnly

(* An answer that is read is an event, whatever becomes of the call.       *)
LEMMA AnswerIsEvent ==
  ASSUME ~Lenient, Role = "Client", ChannelOK, ClientSession, FrameDecoded,
         AnswerOnly(NextFrame), tx' = tx, KeepsFrame,
         NEW o \in ReceiveFrame(Role, session, NextFrame), session' = o.session
  PROVE  /\ ClientEvent /\ ClientSession' /\ o.status \in {"Ok", Refusal}
         /\ IF o.status = "Ok" THEN session'.state = "Connected" /\ session'.va = session'.vs
                               ELSE session' = session
<1>1. ReadOK /\ session \in Session
  BY DEF ChannelOK
<1>2. Incoming # <<>> /\ NextFrame = Head(Incoming) /\ Incoming' = Tail(Incoming)
  BY <1>1, ReadTakesFirst
<1>3. Thinned(Incoming, Incoming')
  BY <1>1, <1>2, IncomingFrames, FirstTaken
<1>4. CASE o.status = Refusal /\ o.session = session
  BY <1>3, <1>4 DEF ClientSession, ClientEvent, ClientIgnores, Refusal
<1>5. CASE o.status = "Ok" /\ session.state = "Connecting" /\ o.session = InState("Connected")
  <2>1. /\ session'.state = "Connected" /\ session'.vr = 0
        /\ session'.vs = 0 /\ session'.va = 0
    BY <1>5 DEF InState, NewSession
  <2>2. ClientLinksUp
    BY <1>3, <1>5 DEF ClientLinksUp
  <2>3. QED
    BY <1>5, <2>1, <2>2 DEF ClientSession, ClientEvent
<1>6. CASE /\ o.status = "Ok" /\ NextFrame.kind = "RR" /\ session.state = "Connected"
           /\ o.session = [session EXCEPT !.va = session.vs]
  <2>1. /\ session'.state = "Connected" /\ session'.vr = session.vr
        /\ session'.vs = session.vs /\ session'.va = session.vs
    BY <1>1, <1>6 DEF Session
  <2>2. ClientHearsAck
    BY <1>2, <1>3, <1>6 DEF ClientHearsAck
  <2>3. QED
    BY <1>6, <2>1, <2>2 DEF ClientSession, ClientEvent
<1>7. QED
  BY <1>1, <1>4, <1>5, <1>6, AnswerTaken

LEMMA FailedReadIsEvent ==
  ASSUME ~LineNoise, ChannelOK, NEW status, NoFrameDecoded(status),
         session' = session, tx' = tx, KeepsFrame
  PROVE  ClientEvent
<1>1. Incoming' = Incoming /\ ReadOK
  BY FailedReadTakesNone DEF ChannelOK
<1>2. Thinned(Incoming, Incoming')
  BY <1>1, IncomingFrames, NothingLost
<1>3. QED
  BY <1>2 DEF ClientEvent, ClientIgnores

(* A call that returns keeps no frame to be answered.                      *)
LEMMA ClientReturns ==
  ASSUME NEW op, NEW status, Return(op, status)
  PROVE  /\ ClientCall' /\ KeepsFrame
         /\ op # "SendApdu" \/ status # "Ok" \/ session'.va = session'.vs => SentIsAcknowledged'
<1>1. call'.op = op /\ call'.pc = "idle" /\ call'.status = status
  BY DEF Return, Returned
<1>2. QED
  BY <1>1 DEF ClientCall, KeepsFrame, SentIsAcknowledged, Asking

LEMMA CallGoesOn ==
  ASSUME ChannelOK, NEW pc, Goto(pc)
  PROVE  /\ call'.op = call.op /\ call'.pc = pc /\ call'.status = call.status
         /\ call'.frame = call.frame /\ call'.unsent = call.unsent
BY CallFields DEF Goto, Call

LEMMA RefusalIsNotOk == Refusal # "Ok" /\ Refusal # "NeedMoreData"
BY DEF Refusal

-----------------------------------------------------------------------------
(* The steps of the client.                                                *)

(* The call the client is in, by its place.                                *)
LEMMA ClientPlaces ==
  ASSUME ClientCall
  PROVE  /\ call.pc # "accept"
         /\ call.pc \in {"send", "build"} =>
              call.op = "SendApdu" /\ session.state = "Connected"
         /\ call.pc \in Asking =>
              \/ call.op = "SendApdu" /\ session.state = "Connected"
              \/ /\ call.op = "ConnectDataLink" /\ session.state = "Connecting"
                 /\ call.unsent = <<>> /\ call.frame = UFrame("SNRM")
         /\ call.pc = "receive" => call.op = "ReceiveApdu" /\ session.state = "Connected"
BY DEF ClientCall, Asking

LEMMA ClientAwaitsWindow ==
  ASSUME ~Lenient, ~LineNoise, Role = "Client", ChannelOK, ClientEnd,
         Incoming # <<>> => AnswerOnly(Head(Incoming)), AwaitWindow
  PROVE  ClientEvent /\ ClientEnd'
<1>1. /\ call.pc = "send" /\ call.op = "SendApdu" /\ session.state = "Connected"
      /\ session \in Session /\ tx' = tx /\ ReadOK
  BY ClientPlaces DEF AwaitWindow, ClientEnd, ChannelOK
<1>2. CASE /\ \E s \in ReadStatuses : NoFrameDecoded(s) /\ Return("SendApdu", s)
           /\ UNCHANGED session
  <2>1. PICK s \in ReadStatuses : NoFrameDecoded(s) /\ Return("SendApdu", s)
    BY <1>2
  <2>2. s # "Ok"
    BY <2>1, ReadStatusesFail
  <2>3. ClientCall' /\ KeepsFrame /\ SentIsAcknowledged'
    BY <2>1, <2>2, ClientReturns
  <2>4. QED
    BY <1>1, <1>2, <2>1, <2>3, FailedReadIsEvent DEF ClientEnd, ClientSession
<1>3. CASE /\ FrameDecoded
           /\ \E o \in ReceiveFrame(Role, session, NextFrame) :
                /\ session' = o.session
                /\ IF o.status = "Ok" THEN Goto("build") ELSE Return("SendApdu", o.status)
  <2>1. PICK o \in ReceiveFrame(Role, session, NextFrame) :
          /\ session' = o.session
          /\ IF o.status = "Ok" THEN Goto("build") ELSE Return("SendApdu", o.status)
    BY <1>3
  <2>2. AnswerOnly(NextFrame)
    BY <1>1, <1>3, ReadTakesFirst
  <2>3. KeepsFrame
    BY <2>1, ClientReturns, CallGoesOn DEF KeepsFrame, Asking
  <2>4. /\ ClientEvent /\ ClientSession'
        /\ IF o.status = "Ok" THEN session'.state = "Connected" /\ session'.va = session'.vs
                              ELSE session' = session
    BY <1>1, <1>3, <2>1, <2>2, <2>3, AnswerIsEvent DEF ClientEnd
  <2>5. ClientCall' /\ SentIsAcknowledged'
    <3>1. CASE o.status # "Ok"
      BY <2>1, <3>1, ClientReturns
    <3>2. CASE o.status = "Ok"
      <4>1. /\ call'.op = "SendApdu" /\ call'.pc = "build" /\ call'.unsent = call.unsent
            /\ session'.va = session'.vs /\ session'.state = "Connected"
        BY <1>1, <2>1, <2>4, <3>2, CallGoesOn
      <4>2. \E apdu \in Apdus : Fits(apdu) /\ call.unsent = EncodeLpdu(apdu)
        BY <1>1 DEF ClientEnd, ClientCall, Asking
      <4>3. QED
        BY <4>1, <4>2 DEF ClientCall, SentIsAcknowledged
    <3>3. QED
      BY <3>1, <3>2
  <2>6. QED
    BY <2>4, <2>5 DEF ClientEnd
<1>4. QED
  BY <1>2, <1>3 DEF AwaitWindow

LEMMA ClientBuildsFrame ==
  ASSUME Window = 1, ChannelOK, ClientEnd, BuildSessionInformationFrame
  PROVE  ClientEvent /\ ClientEnd'
<1> DEFINE built == BuildInformationFrame(session)
           rest == SubSeq(call.unsent, ChunkSize(call.unsent) + 1, Len(call.unsent))
<1>1. /\ call.pc \in {"send", "build"} /\ session \in Session /\ ReadOK
      /\ session' = built.session
      /\ IF built.status = "Ok" THEN StartWrite("SendApdu", ChunkFrame(session, call.unsent), rest)
                                ELSE Return("SendApdu", built.status)
      /\ UNCHANGED <<stream, buffers>>
  BY DEF BuildSessionInformationFrame, ChannelOK
<1>2. call.op = "SendApdu" /\ session.state = "Connected" /\ ClientSession
  BY <1>1, ClientPlaces DEF ClientEnd
<1>3. tx' = tx /\ Incoming' = Incoming
  BY <1>1 DEF stream, buffers, Incoming
<1>4. Thinned(Incoming, Incoming')
  BY <1>1, <1>3, IncomingFrames, NothingLost
<1>5. CASE ~CanSendInformationFrame(session)
  <2>1. built.status # "Ok" /\ built.session = session
    BY <1>5 DEF BuildInformationFrame, Refused, Refusal
  <2>2. ClientCall' /\ KeepsFrame /\ SentIsAcknowledged'
    BY <1>1, <2>1, ClientReturns
  <2>3. session' = session
    BY <1>1, <2>1
  <2>4. QED
    BY <1>3, <1>4, <2>2, <2>3
       DEF ClientEvent, ClientIgnores, ClientEnd, ClientSession
<1>6. CASE CanSendInformationFrame(session)
  <2>1. session.vs = session.va
    BY <1>1, <1>6, WindowOfOne
  <2>2. built.status = "Ok" /\ built.session = [session EXCEPT !.vs = (@ + 1) % SeqModulus]
    BY <1>2, <1>6 DEF BuildInformationFrame, Accepted
  <2>3. /\ call'.op = "SendApdu" /\ call'.pc = "write" /\ call'.status = "Pending"
        /\ call'.frame = ChunkFrame(session, call.unsent) /\ call'.unsent = rest
    BY <1>1, <2>2 DEF StartWrite, Returned
  <2>4. /\ session'.state = "Connected" /\ session'.vr = session.vr /\ session'.va = session.va
        /\ session'.vs = (session.va + 1) % SeqModulus
    BY <1>1, <1>2, <2>1, <2>2 DEF Session
  <2>5. ClientBuilds
    BY <1>1, <1>2, <1>3, <2>1, <2>2, <2>3 DEF ClientBuilds
  <2>6. QED
    BY <1>2, <2>3, <2>4, <2>5
       DEF ClientEvent, ClientEnd, ClientSession, ClientCall, SentIsAcknowledged, Asking
<1>7. QED
  BY <1>5, <1>6

LEMMA ClientWrites ==
  ASSUME UseSession, ChannelOK, ClientEnd, WriteFrameBytes
  PROVE  ClientEvent /\ ClientEnd'
<1>1. /\ call.pc = "write" /\ session' = session /\ session \in Session
      /\ UNCHANGED <<rx, open, session, buffers>> /\ ReadOK
  BY DEF WriteFrameBytes, ChannelOK
<1>2. /\ Incoming' = Incoming /\ Thinned(Incoming, Incoming')
      /\ ClientSession' /\ SentIsAcknowledged
  BY <1>1, IncomingFrames, NothingLost DEF buffers, Incoming, ClientEnd, ClientSession
<1>3. CASE WriteAll(call.frame) /\ AfterWrite
  <2>1. call.op \in {"SendApdu", "ConnectDataLink"}
    BY <1>1, ClientPlaces DEF Asking, ClientEnd
  <2>2. call' = [call EXCEPT !.pc = "await"]
    BY <1>3, <2>1 DEF AfterWrite
  <2>3. /\ call'.op = call.op /\ call'.pc = "await" /\ call'.status = call.status
        /\ call'.frame = call.frame /\ call'.unsent = call.unsent
    BY <2>2, CallFields DEF Call
  <2>4. KeepsFrame /\ ClientCall' /\ SentIsAcknowledged'
    BY <1>1, <1>2, <2>3, ClientPlaces
       DEF KeepsFrame, Asking, ClientCall, SentIsAcknowledged, ClientEnd
  <2>5. ClientPuts
    BY <1>1, <1>2, <1>3, <2>4 DEF ClientPuts, WriteAll
  <2>6. QED
    BY <1>2, <2>4, <2>5 DEF ClientEvent, ClientEnd
<1>4. CASE \E s \in {"NotOpen"} \cup WriteFailures : WriteFails(s) /\ Return(call.op, s)
  <2>1. PICK s \in {"NotOpen"} \cup WriteFailures : WriteFails(s) /\ Return(call.op, s)
    BY <1>4
  <2>2. s # "Ok" /\ tx' = tx
    BY <2>1, ReadStatusesFail DEF WriteFails
  <2>3. ClientCall' /\ KeepsFrame /\ SentIsAcknowledged'
    BY <2>1, <2>2, ClientReturns
  <2>4. QED
    BY <1>1, <1>2, <2>2, <2>3 DEF ClientEvent, ClientIgnores, ClientEnd
<1>5. QED
  BY <1>3, <1>4 DEF WriteFrameBytes

LEMMA ClientHasNoAnswer ==
  ASSUME ChannelOK, ClientEnd, call.pc \in Asking, session' = session,
         NEW status, status # "Ok", AfterNoAnswer(status)
  PROVE  KeepsFrame /\ ClientEnd'
<1>1. ClientSession' /\ SentIsAcknowledged
  BY DEF ClientEnd, ClientSession
<1>2. CASE Goto("retry")
  <2>1. /\ call'.op = call.op /\ call'.pc = "retry" /\ call'.status = call.status
        /\ call'.frame = call.frame /\ call'.unsent = call.unsent
    BY <1>2, CallGoesOn
  <2>2. QED
    BY <1>1, <2>1, ClientPlaces
       DEF KeepsFrame, Asking, ClientCall, SentIsAcknowledged, ClientEnd
<1>3. CASE Return(call.op, status)
  BY <1>1, <1>3, ClientReturns DEF ClientEnd
<1>4. QED
  BY <1>2, <1>3 DEF AfterNoAnswer

LEMMA ClientAwaitsAnswer ==
  ASSUME ~Lenient, ~LineNoise, Role = "Client", ChannelOK, ClientEnd,
         Incoming # <<>> => AnswerOnly(Head(Incoming)),
         ReceiveSessionControlFrameWithRetry
  PROVE  ClientEvent /\ ClientEnd'
<1>1. /\ call.pc = "await" /\ call.pc \in Asking /\ tx' = tx
      /\ session \in Session /\ ReadOK
  BY DEF ReceiveSessionControlFrameWithRetry, ChannelOK, Asking
<1>2. CASE (\E s \in ReadStatuses : NoFrameDecoded(s) /\ AfterNoAnswer(s)) /\ UNCHANGED session
  <2>1. PICK s \in ReadStatuses : NoFrameDecoded(s) /\ AfterNoAnswer(s)
    BY <1>2
  <2>2. s # "Ok"
    BY <2>1, ReadStatusesFail
  <2>3. KeepsFrame /\ ClientEnd'
    BY <1>1, <1>2, <2>1, <2>2, ClientHasNoAnswer
  <2>4. QED
    BY <1>1, <1>2, <2>1, <2>3, FailedReadIsEvent
<1>3. CASE /\ FrameDecoded
           /\ \E o \in ReceiveFrame(Role, session, NextFrame) :
                /\ session' = o.session
                /\ IF o.status = "Ok" THEN AfterAnswer ELSE AfterNoAnswer(o.status)
  <2>1. PICK o \in ReceiveFrame(Role, session, NextFrame) :
          /\ session' = o.session
          /\ IF o.status = "Ok" THEN AfterAnswer ELSE AfterNoAnswer(o.status)
    BY <1>3
  <2>2. AnswerOnly(NextFrame)
    BY <1>1, <1>3, ReadTakesFirst
  <2>3. \/ o.status = Refusal /\ o.session = session
        \/ o.status = "Ok" /\ session.state = "Connecting"
        \/ o.status = "Ok" /\ NextFrame.kind = "RR"
    BY <1>1, <2>1, <2>2, AnswerTaken DEF ClientEnd
  <2>4. CASE o.status = Refusal /\ o.session = session
    <3>1. KeepsFrame /\ ClientEnd'
      BY <1>1, <2>1, <2>4, RefusalIsNotOk, ClientHasNoAnswer
    <3>2. QED
      BY <1>1, <1>3, <2>1, <2>2, <3>1, AnswerIsEvent DEF ClientEnd
  <2>5. CASE o.status = "Ok"
    <3>1. call.unsent = <<>>
      <4>1. CASE session.state = "Connecting"
        BY <1>1, <4>1, ClientPlaces DEF ClientEnd
      <4>2. CASE NextFrame.kind = "RR"
        BY <1>1, <2>2, <4>2 DEF AnswerOnly
      <4>3. QED
        BY <2>3, <2>5, <4>1, <4>2, RefusalIsNotOk
    <3>2. Return(call.op, "Ok")
      BY <2>1, <2>5, <3>1 DEF AfterAnswer
    <3>3. KeepsFrame /\ ClientCall' /\ (session'.va = session'.vs => SentIsAcknowledged')
      BY <3>2, ClientReturns
    <3>4. ClientEvent /\ ClientSession' /\ session'.va = session'.vs
      BY <1>1, <1>3, <2>1, <2>2, <2>5, <3>3, AnswerIsEvent DEF ClientEnd
    <3>5. QED
      BY <3>3, <3>4 DEF ClientEnd
  <2>6. QED
    BY <2>3, <2>4, <2>5
<1>4. QED
  BY <1>2, <1>3 DEF ReceiveSessionControlFrameWithRetry

LEMMA ClientSleeps ==
  ASSUME ChannelOK, ClientEnd, SleepBeforeRetry
  PROVE  ClientEvent /\ ClientEnd'
<1>1. /\ call.pc = "retry" /\ call.pc \in Asking /\ session' = session /\ tx' = tx /\ Incoming' = Incoming
      /\ ReadOK
  BY DEF SleepBeforeRetry, stream, buffers, Incoming, ChannelOK, Asking
<1>2. Thinned(Incoming, Incoming') /\ ClientSession' /\ SentIsAcknowledged
  BY <1>1, IncomingFrames, NothingLost DEF ClientEnd, ClientSession
<1>3. CASE call' = [call EXCEPT !.pc = "write", !.attempt = (@ + 1) % CounterModulus]
  <2>1. /\ call'.op = call.op /\ call'.pc = "write" /\ call'.status = call.status
        /\ call'.frame = call.frame /\ call'.unsent = call.unsent
    BY <1>3, CallFields DEF Call
  <2>2. KeepsFrame /\ ClientCall' /\ SentIsAcknowledged'
    BY <1>1, <1>2, <2>1, ClientPlaces
       DEF KeepsFrame, Asking, ClientCall, SentIsAcknowledged, ClientEnd
  <2>3. QED
    BY <1>1, <1>2, <2>2 DEF ClientEvent, ClientIgnores, ClientEnd
<1>4. CASE \E s \in SleepFailures : Return(call.op, s)
  <2>1. PICK s \in SleepFailures : Return(call.op, s)
    BY <1>4
  <2>2. s # "Ok"
    BY <2>1, ReadStatusesFail
  <2>3. ClientCall' /\ KeepsFrame /\ SentIsAcknowledged'
    BY <2>1, <2>2, ClientReturns
  <2>4. QED
    BY <1>1, <1>2, <2>3 DEF ClientEvent, ClientIgnores, ClientEnd
<1>5. QED
  BY <1>3, <1>4 DEF SleepBeforeRetry

(* Frames other than I-frames pass the reassembler as they are.            *)
LEMMA PassedOn ==
  ASSUME NEW f, f.kind # "I", NEW limit, NEW p \in PushFrame(segments, f, limit)
  PROVE  /\ p.status = "Ok" /\ p.segments = segments /\ p.completed = f
         /\ p.hasCompleted \in BOOLEAN
<1>1. p \in {Pushed("Ok", segments, f, has) : has \in BOOLEAN}
  BY DEF PushFrame
<1>2. QED
  BY <1>1 DEF Pushed

LEMMA ClientReceivesNext ==
  ASSUME UseSession, ~Lenient, ~LineNoise, Role = "Client", ChannelOK, ClientEnd,
         Incoming # <<>> => AnswerOnly(Head(Incoming)), ReceiveNextApdu
  PROVE  ClientEvent /\ ClientEnd'
<1>1. /\ call.pc = "receive" /\ call.op = "ReceiveApdu" /\ session.state = "Connected"
      /\ tx' = tx /\ session \in Session /\ ReadOK
  BY ClientPlaces DEF ReceiveNextApdu, ClientEnd, ChannelOK
<1>2. CASE /\ \E s \in ReadStatuses : NoFrameDecoded(s) /\ Return("ReceiveApdu", s)
           /\ UNCHANGED <<session, segments, pendingApdus>>
  <2>1. PICK s \in ReadStatuses : NoFrameDecoded(s) /\ Return("ReceiveApdu", s)
    BY <1>2
  <2>2. ClientCall' /\ KeepsFrame /\ SentIsAcknowledged'
    BY <2>1, ClientReturns
  <2>3. QED
    BY <1>1, <1>2, <2>1, <2>2, FailedReadIsEvent DEF ClientEnd, ClientSession
<1>3. CASE FrameDecoded /\ ReceiveNumbered(NextFrame)
  <2>1. AnswerOnly(NextFrame) /\ NextFrame.kind # "I"
    BY <1>1, <1>3, ReadTakesFirst DEF AnswerOnly
  <2>2. PICK p \in PushFrame(segments, NextFrame, ReassemblyLimit) :
          \/ p.status = "Ok" /\ ReceiveCompleted(p.completed, p.hasCompleted)
          \/ p.status # "Ok"
    BY <1>3 DEF ReceiveNumbered, NoApdu
  <2>3. ReceiveCompleted(NextFrame, p.hasCompleted)
    BY <2>1, <2>2, PassedOn
  <2>4. PICK o \in ReceiveFrame(Role, session, NextFrame) :
          /\ session' = o.session
          /\ IF o.status # "Ok" THEN NoApdu(o.status)
             ELSE IF p.hasCompleted /\ NextFrame.information # <<>>
             THEN ReceiveLpdu(NextFrame.information, o.session)
             ELSE Goto("receive")
    BY <2>3 DEF ReceiveCompleted
  <2>5. \/ o.status = Refusal
        \/ o.status = "Ok" /\ NextFrame.kind = "RR"
    BY <1>1, <2>1, <2>4, AnswerTaken DEF ClientEnd
  <2>6. \/ Return("ReceiveApdu", Refusal)
        \/ o.status = "Ok" /\ Goto("receive")
    <3>1. NextFrame.kind = "RR" => NextFrame.information = <<>>
      BY <2>1 DEF AnswerOnly
    <3>2. QED
      BY <2>4, <2>5, <3>1, RefusalIsNotOk DEF NoApdu
  <2>7. KeepsFrame
    BY <2>6, ClientReturns, CallGoesOn DEF KeepsFrame, Asking
  <2>8. /\ ClientEvent /\ ClientSession'
        /\ o.status = "Ok" => session'.state = "Connected"
    BY <1>1, <1>3, <2>1, <2>4, <2>7, AnswerIsEvent DEF ClientEnd
  <2>9. ClientCall' /\ SentIsAcknowledged'
    <3>1. CASE Return("ReceiveApdu", Refusal)
      BY <3>1, ClientReturns
    <3>2. CASE o.status = "Ok" /\ Goto("receive")
      <4>1. call'.op = "ReceiveApdu" /\ call'.pc = "receive"
        BY <1>1, <3>2, CallGoesOn
      <4>2. QED
        BY <2>8, <3>2, <4>1 DEF ClientCall, SentIsAcknowledged
    <3>3. QED
      BY <2>6, <3>1, <3>2
  <2>10. QED
    BY <2>8, <2>9 DEF ClientEnd
<1>4. QED
  BY <1>2, <1>3 DEF ReceiveNextApdu

LEMMA ClientCopies ==
  ASSUME ChannelOK, ClientEnd, CopyFirstPendingApdu
  PROVE  ClientEvent /\ ClientEnd'
<1>1. /\ session' = session /\ tx' = tx /\ Incoming' = Incoming /\ ReadOK
      /\ \E status : Return("ReceiveApdu", status)
  BY DEF CopyFirstPendingApdu, stream, Incoming, ChannelOK
<1>2. Thinned(Incoming, Incoming') /\ ClientSession'
  BY <1>1, IncomingFrames, NothingLost DEF ClientEnd, ClientSession
<1>3. ClientCall' /\ KeepsFrame /\ SentIsAcknowledged'
  BY <1>1, ClientReturns
<1>4. QED
  BY <1>1, <1>2, <1>3 DEF ClientEvent, ClientIgnores, ClientEnd

(* Every step of a call of the client is one of its events.                *)
LEMMA ClientSteps ==
  ASSUME UseSession, Window = 1, ~Lenient, ~LineNoise, Role = "Client", ChannelOK, ClientEnd,
         Incoming # <<>> => AnswerOnly(Head(Incoming)), Step
  PROVE  ClientEvent /\ ClientEnd'
<1>1. ~AwaitConnectRequest
  BY ClientPlaces DEF AwaitConnectRequest, ClientEnd
<1>2. QED
  BY <1>1, ClientAwaitsWindow, ClientBuildsFrame, ClientWrites, ClientAwaitsAnswer,
     ClientSleeps, ClientReceivesNext, ClientCopies DEF Step

-----------------------------------------------------------------------------
(* The calls of the client.                                                *)

LEMMA RefusedCall ==
  ASSUME ReadOK, NEW op, NEW status, Refuse(op, status)
  PROVE  /\ status # "Ok" /\ Return(op, status) /\ call'.op = op /\ call'.pc = "idle"
         /\ session' = session /\ tx' = tx /\ Thinned(Incoming, Incoming')
         /\ segments' = segments /\ pendingApdus' = pendingApdus
<1>1. /\ status # "Ok" /\ Return(op, status) /\ session' = session /\ tx' = tx
      /\ Incoming' = Incoming /\ segments' = segments /\ pendingApdus' = pendingApdus
  BY DEF Refuse, stream, buffers, Incoming
<1>2. QED
  BY <1>1, IncomingFrames, NothingLost DEF Return, Returned

(* A call that is refused leaves the client as it is.                      *)
LEMMA ClientIsRefused ==
  ASSUME ReadOK, ClientEnd, NEW op, NEW status, Refuse(op, status)
  PROVE  /\ ClientEnd' /\ call'.op = op /\ call'.pc = "idle"
         /\ session' = session /\ tx' = tx /\ Thinned(Incoming, Incoming')
<1>1. /\ call'.op = op /\ call'.pc = "idle" /\ status # "Ok" /\ Return(op, status)
      /\ session' = session /\ tx' = tx /\ Thinned(Incoming, Incoming')
  BY RefusedCall
<1>2. ClientCall' /\ SentIsAcknowledged'
  BY <1>1, ClientReturns
<1>3. QED
  BY <1>1, <1>2 DEF ClientEnd, ClientSession

(* Setting up a link that is not up starts from new sequence numbers.      *)
LEMMA ClientConnectsLink ==
  ASSUME ChannelOK, ClientEnd, session.state # "Connected", ConnectDataLink
  PROVE  /\ ClientEnd' /\ call'.op = "ConnectDataLink"
         /\ session'.state # "Connected"
         /\ tx' = tx /\ Thinned(Incoming, Incoming')
<1>1. ReadOK /\ session \in Session /\ ClientSession
  BY DEF ChannelOK, ClientEnd
<1>2. CASE Refuse("ConnectDataLink", LinkStatus("Client"))
  BY <1>1, <1>2, ClientIsRefused
<1>3. CASE /\ EnsureSession
           /\ \E o \in BuildConnectRequest(EnsuredSession) :
                /\ session' = o.session
                /\ IF o.status = "Ok"
                   THEN StartWrite("ConnectDataLink", UFrame("SNRM"), <<>>)
                   ELSE Return("ConnectDataLink", o.status)
           /\ UNCHANGED <<tx, open, pendingApdus>>
  <2>1. PICK o \in BuildConnectRequest(EnsuredSession) :
          /\ session' = o.session
          /\ IF o.status = "Ok"
             THEN StartWrite("ConnectDataLink", UFrame("SNRM"), <<>>)
             ELSE Return("ConnectDataLink", o.status)
    BY <1>3
  <2>2. Thinned(Incoming, Incoming') /\ tx' = tx
    BY <1>1, <1>3, NewSessionDrops
  <2>3. CASE o = Accepted(InState("Connecting"))
    <3>1. o.status = "Ok" /\ o.session = InState("Connecting")
      BY <2>3 DEF Accepted
    <3>2. /\ session'.state = "Connecting" /\ session'.vr = 0
          /\ session'.vs = 0 /\ session'.va = 0
      BY <2>1, <3>1 DEF InState, NewSession
    <3>3. /\ call'.op = "ConnectDataLink" /\ call'.pc = "write"
          /\ call'.frame = UFrame("SNRM") /\ call'.unsent = <<>>
      BY <2>1, <3>1 DEF StartWrite, Returned
    <3>4. QED
      BY <2>2, <3>2, <3>3 DEF ClientEnd, ClientSession, ClientCall, SentIsAcknowledged, Asking
  <2>4. CASE o = Refused(EnsuredSession) /\ EnsuredSession.state # "Disconnected"
    <3>1. EnsuredSession = session
      BY <2>4 DEF EnsuredSession, NewSession
    <3>2. o.status # "Ok" /\ session' = session
      BY <2>1, <2>4, <3>1 DEF Refused, Refusal
    <3>3. Return("ConnectDataLink", o.status)
      BY <2>1, <3>2
    <3>4. ClientCall' /\ SentIsAcknowledged' /\ call'.op = "ConnectDataLink"
      BY <3>2, <3>3, ClientReturns DEF Return, Returned
    <3>5. QED
      BY <1>1, <2>2, <3>2, <3>4 DEF ClientEnd, ClientSession
  <2>5. QED
    BY <2>1, <2>3, <2>4 DEF BuildConnectRequest
<1>4. QED
  BY <1>2, <1>3 DEF ConnectDataLink

LEMMA ClientSendsApdu ==
  ASSUME UseSession, ChannelOK, ClientEnd, NEW apdu \in Apdus, SendApdu(apdu)
  PROVE  /\ ClientEnd' /\ call'.pc \notin Asking
         /\ session' = session /\ tx' = tx /\ Thinned(Incoming, Incoming')
<1>1. ReadOK /\ ClientSession
  BY DEF ChannelOK, ClientEnd
<1>2. CASE \E status : Refuse("SendApdu", status)
  BY <1>1, <1>2, ClientIsRefused DEF Asking
<1>3. CASE /\ SendStatus(apdu) = "Ok"
           /\ call' = [Returned("SendApdu", "Pending") EXCEPT
                         !.pc = "send", !.unsent = EncodeLpdu(apdu)]
           /\ UNCHANGED <<stream, session, buffers>>
  <2>1. session.state = "Connected" /\ Fits(apdu)
    <3>1. ~(MaxApduSize # 0 /\ Len(apdu) > MaxApduSize) /\ session.state = "Connected"
      BY <1>3 DEF SendStatus
    <3>2. apdu \in Seq(Octets) /\ MaxApduSize \in Nat
      BY EndpointAssumption, ChannelAssumption DEF EndpointAssumption, ChannelAssumption
    <3>3. Len(apdu) \in Nat
      BY <3>2, LenProperties
    <3>4. QED
      BY <3>1, <3>2, <3>3 DEF Fits
  <2>2. /\ call'.op = "SendApdu" /\ call'.pc = "send" /\ call'.status = "Pending"
        /\ call'.unsent = EncodeLpdu(apdu)
    BY <1>3 DEF Returned
  <2>3. session' = session /\ tx' = tx /\ Incoming' = Incoming
    BY <1>3 DEF stream, buffers, Incoming
  <2>4. Thinned(Incoming, Incoming')
    BY <1>1, <2>3, IncomingFrames, NothingLost
  <2>5. ClientEnd'
    BY <1>1, <2>1, <2>2, <2>3 DEF ClientEnd, ClientSession, ClientCall, SentIsAcknowledged
  <2>6. QED
    BY <2>2, <2>3, <2>4, <2>5 DEF Asking
<1>4. QED
  BY <1>2, <1>3 DEF SendApdu

LEMMA ClientReceivesApdu ==
  ASSUME ChannelOK, ClientEnd, session.state = "Connected",
         NEW capacity, ReceiveApdu(capacity)
  PROVE  /\ ClientEnd' /\ call'.pc \notin Asking
         /\ session' = session /\ tx' = tx /\ Thinned(Incoming, Incoming')
<1>1. ReadOK /\ ClientSession
  BY DEF ChannelOK, ClientEnd
<1>2. CASE \E status : Refuse("ReceiveApdu", status)
  BY <1>1, <1>2, ClientIsRefused DEF Asking
<1>3. CASE /\ call' = [Returned("ReceiveApdu", "Pending") EXCEPT
                         !.pc = "receive", !.capacity = capacity]
           /\ UNCHANGED <<stream, session, buffers>>
  <2>1. call'.op = "ReceiveApdu" /\ call'.pc = "receive"
    BY <1>3 DEF Returned
  <2>2. session' = session /\ tx' = tx /\ Incoming' = Incoming
    BY <1>3 DEF stream, buffers, Incoming
  <2>3. Thinned(Incoming, Incoming')
    BY <1>1, <2>2, IncomingFrames, NothingLost
  <2>4. ClientEnd'
    BY <1>1, <2>1, <2>2 DEF ClientEnd, ClientSession, ClientCall, SentIsAcknowledged
  <2>5. QED
    BY <2>1, <2>2, <2>3, <2>4 DEF Asking
<1>4. QED
  BY <1>2, <1>3 DEF ReceiveApdu

(* A client that disconnects has done with its link.                       *)
ClientDone ==
  /\ call.op = "DisconnectDataLink" /\ session.state # "Connected"
  /\ call.pc # "idle" =>
       call.pc \in Asking /\ call.unsent = <<>> /\ session.state = "Disconnecting"

LEMMA ClientDisconnectsLink ==
  ASSUME ChannelOK, ClientEnd \/ ClientDone, DisconnectDataLink
  PROVE  \/ ClientDone' /\ (ClientEnd => session.state # "Disconnected")
         \/ /\ ClientEnd /\ ClientEnd' /\ call'.op = "DisconnectDataLink" /\ call'.pc = "idle"
            /\ session' = session /\ tx' = tx /\ Thinned(Incoming, Incoming')
<1>1. ReadOK /\ session \in Session
  BY DEF ChannelOK
<1>2. CASE \E status : Refuse("DisconnectDataLink", status)
  <2>1. CASE ClientEnd
    BY <1>1, <1>2, <2>1, ClientIsRefused
  <2>2. CASE ClientDone /\ ~ClientEnd
    BY <1>1, <1>2, <2>2, RefusedCall DEF ClientDone
  <2>3. QED
    BY <2>1, <2>2
<1>3. CASE /\ \E o \in BuildDisconnectRequest(session) :
                /\ session' = o.session
                /\ IF o.status = "Ok"
                   THEN StartWrite("DisconnectDataLink", UFrame("DISC"), <<>>)
                   ELSE Return("DisconnectDataLink", o.status)
           /\ UNCHANGED <<stream, buffers>>
  <2>1. PICK o \in BuildDisconnectRequest(session) :
          /\ session' = o.session
          /\ IF o.status = "Ok"
             THEN StartWrite("DisconnectDataLink", UFrame("DISC"), <<>>)
             ELSE Return("DisconnectDataLink", o.status)
    BY <1>3
  <2>2. \/ /\ o.status = "Ok" /\ o.session.state = "Disconnecting"
           /\ session.state # "Disconnected"
        \/ o.status = Refusal /\ o.session = session /\ session.state # "Connected"
    BY <1>1, <2>1 DEF BuildDisconnectRequest, Accepted, Refused, Session
  <2>3. CASE /\ o.status = "Ok" /\ o.session.state = "Disconnecting"
             /\ session.state # "Disconnected"
    BY <2>1, <2>3 DEF StartWrite, Returned, ClientDone, Asking
  <2>4. CASE o.status = Refusal /\ o.session = session /\ session.state # "Connected"
    <3>1. Return("DisconnectDataLink", Refusal) /\ session' = session
      BY <2>1, <2>4, RefusalIsNotOk
    <3>2. CASE ClientEnd
      <4>1. ClientEnd'
        BY <3>1, <3>2, ClientReturns DEF ClientEnd, ClientSession
      <4>2. tx' = tx /\ Thinned(Incoming, Incoming')
        <5>1. Incoming' = Incoming /\ tx' = tx
          BY <1>3 DEF Incoming, stream, buffers
        <5>2. QED
          BY <1>1, <5>1, IncomingFrames, NothingLost
      <4>3. QED
        BY <3>1, <3>2, <4>1, <4>2 DEF Return, Returned
    <3>3. CASE ClientDone /\ ~ClientEnd
      BY <2>4, <3>1, <3>3 DEF Return, Returned, ClientDone
    <3>4. QED
      BY <3>2, <3>3
  <2>5. QED
    BY <2>2, <2>3, <2>4
<1>4. QED
  BY <1>2, <1>3 DEF DisconnectDataLink

LEMMA ClientStaysDone ==
  ASSUME ~Lenient, Role = "Client", ChannelOK, ClientDone, Step
  PROVE  ClientDone'
<1>1. session \in Session /\ call.op = "DisconnectDataLink" /\ session.state # "Connected"
  BY DEF ChannelOK, ClientDone
<1>2. \A status : Return(call.op, status) /\ session'.state # "Connected" => ClientDone'
  BY <1>1 DEF Return, Returned, ClientDone
<1>3. CASE WriteFrameBytes
  <2>1. session' = session /\ call.pc = "write"
    BY <1>3 DEF WriteFrameBytes
  <2>2. CASE AfterWrite
    <3>1. call' = [call EXCEPT !.pc = "await"]
      BY <1>1, <2>2 DEF AfterWrite
    <3>2. call'.op = call.op /\ call'.pc = "await" /\ call'.unsent = call.unsent
      BY <3>1, CallFields DEF Call
    <3>3. QED
      BY <2>1, <3>2 DEF ClientDone, Asking
  <2>3. QED
    BY <1>1, <1>2, <1>3, <2>1, <2>2 DEF WriteFrameBytes
<1>4. CASE SleepBeforeRetry
  <2>1. session' = session /\ call.pc = "retry"
    BY <1>4 DEF SleepBeforeRetry
  <2>2. CASE call' = [call EXCEPT !.pc = "write", !.attempt = (@ + 1) % CounterModulus]
    <3>1. call'.op = call.op /\ call'.pc = "write" /\ call'.unsent = call.unsent
      BY <2>2, CallFields DEF Call
    <3>2. QED
      BY <2>1, <3>1 DEF ClientDone, Asking
  <2>3. QED
    BY <1>1, <1>2, <1>4, <2>1, <2>2 DEF SleepBeforeRetry
<1>5. CASE ReceiveSessionControlFrameWithRetry
  <2>1. call.pc = "await" /\ call.unsent = <<>> /\ session.state = "Disconnecting"
    BY <1>5 DEF ReceiveSessionControlFrameWithRetry, ClientDone
  <2>2. ASSUME NEW status, AfterNoAnswer(status), session' = session PROVE ClientDone'
    <3>1. CASE Goto("retry")
      BY <2>1, <2>2, <3>1, CallGoesOn DEF ClientDone, Asking
    <3>2. QED
      BY <1>1, <1>2, <2>2, <3>1 DEF AfterNoAnswer
  <2>3. CASE \E o \in ReceiveFrame(Role, session, NextFrame) :
               /\ session' = o.session
               /\ IF o.status = "Ok" THEN AfterAnswer ELSE AfterNoAnswer(o.status)
    <3>1. PICK o \in ReceiveFrame(Role, session, NextFrame) :
            /\ session' = o.session
            /\ IF o.status = "Ok" THEN AfterAnswer ELSE AfterNoAnswer(o.status)
      BY <2>3
    <3>2. IF o.status = "Ok" THEN o.session.state # "Connected" ELSE o.session = session
      BY <1>1, <2>1, AnswerToRequest
    <3>3. QED
      BY <1>2, <2>1, <2>2, <3>1, <3>2 DEF AfterAnswer
  <2>4. QED
    BY <1>5, <2>2, <2>3 DEF ReceiveSessionControlFrameWithRetry
<1>6. QED
  BY <1>3, <1>4, <1>5
     DEF ClientDone, Asking, Step, AwaitConnectRequest, AwaitWindow,
         BuildSessionInformationFrame, ReceiveNextApdu, CopyFirstPendingApdu

-----------------------------------------------------------------------------
(* The server, as long as it has built no I-frame.                         *)

ServerSession ==
  /\ session.vs = 0 /\ session.va = 0
  /\ session.state \in {"Disconnected", "ConnectRequested", "Connected"}

ServerCall ==
  /\ call.frame.kind = "RR" => call.pc = "write"
  /\ \/ call.pc = "idle"
     \/ call.op = "AcceptDataLink" /\ call.pc = "accept" /\ session.state # "Connected"
     \/ call.op = "AcceptDataLink" /\ call.pc = "write" /\ call.frame = UFrame("UA")
     \/ call.op = "ReceiveApdu" /\ call.pc = "receive"
     \/ call.op = "ReceiveApdu" /\ call.pc = "write" /\ call.frame.kind = "RR"
     \/ /\ call.op = "SendApdu" /\ call.pc = "send"
        /\ call.unsent # <<>> /\ Head(call.unsent) = LlcHeader

ServerEnd == ServerSession /\ ServerCall /\ OneApduPending

(* What the client may have on the way: SNRM, and I-frames of which one    *)
(* that is in sequence and whole is the LPDU of an APDU that is not too    *)
(* long.                                                                   *)
WholeLpdu(f) ==
  \E apdu \in Seq(Octets) : Fits(apdu) /\ f.information = EncodeLpdu(apdu)

RequestOnly(f) ==
  \/ f.kind = "SNRM" /\ f.information = <<Parameters>>
  \/ /\ f.kind = "I" /\ f.nr = 0
     /\ ~f.segmented => segments = <<>>
     /\ ~f.segmented /\ session.state = "Connected" /\ f.ns = session.vr => WholeLpdu(f)

(* What a step of the server does to its session, its queue and the lines. *)
ServerIgnores ==
  /\ session' = session \/ session'.state # "Connected"
  /\ tx' = tx /\ Thinned(Incoming, Incoming')
  /\ segments' \in {segments, <<>>} /\ pendingApdus' = pendingApdus
  /\ call'.frame.kind # "RR"

ServerRestarts ==
  /\ Incoming # <<>> /\ Head(Incoming).kind = "SNRM"
  /\ session' \in {InState("ConnectRequested"), InState("Connected")}
  /\ tx' = tx /\ Incoming' = Tail(Incoming) /\ Thinned(Incoming, Incoming')
  /\ segments' = segments /\ pendingApdus' = pendingApdus
  /\ call'.frame.kind # "RR"

ServerGathers ==
  /\ Incoming # <<>> /\ Head(Incoming).kind = "I" /\ Head(Incoming).segmented
  /\ session' = session
  /\ tx' = tx /\ Incoming' = Tail(Incoming) /\ Thinned(Incoming, Incoming')
  /\ pendingApdus' = pendingApdus
  /\ call'.frame.kind # "RR"

ServerTakes ==
  /\ Incoming # <<>> /\ Head(Incoming).kind = "I" /\ ~Head(Incoming).segmented
  /\ session.state = "Connected" /\ Head(Incoming).ns = session.vr
  /\ session' = [session EXCEPT !.vr = (@ + 1) % SeqModulus]
  /\ tx' = tx /\ Incoming' = Tail(Incoming) /\ Thinned(Incoming, Incoming')
  /\ segments' = <<>>
  /\ pendingApdus = <<>> /\ pendingApdus' = <<DecodeLpdu(Head(Incoming).information)>>
  /\ call'.frame = RRFrame(session')

ServerHands ==
  /\ session' = session /\ tx' = tx /\ Incoming' = Incoming /\ segments' = segments
  /\ pendingApdus # <<>> /\ pendingApdus' = Tail(pendingApdus)
  /\ call'.frame.kind # "RR"

ServerPuts ==
  /\ call.pc = "write"
  /\ call.frame = UFrame("UA") \/ call.frame.kind = "RR"
  /\ session' = session /\ tx' = Append(tx, call.frame) /\ Incoming' = Incoming
  /\ segments' = segments /\ pendingApdus' = pendingApdus
  /\ call'.frame.kind # "RR"

ServerEvent ==
  \/ ServerIgnores \/ ServerRestarts \/ ServerGathers \/ ServerTakes
  \/ ServerHands \/ ServerPuts

(* The server builds an I-frame of its own.                                *)
ServerBuilds ==
  /\ call.pc = "send" /\ call'.pc = "write"
  /\ Head(call.unsent) = LlcHeader

LEMMA FrameKindsOfCalls ==
  /\ NoFrame.kind = "DISC" /\ UFrame("UA").kind = "UA" /\ UFrame("SNRM").kind = "SNRM"
  /\ \A s : RRFrame(s).kind = "RR"
BY DEF NoFrame, UFrame, RRFrame

LEMMA ServerReturns ==
  ASSUME NEW op, NEW status, Return(op, status)
  PROVE  ServerCall' /\ call'.frame.kind # "RR"
<1>1. call'.pc = "idle" /\ call'.frame = NoFrame
  BY DEF Return, Returned
<1>2. QED
  BY <1>1, FrameKindsOfCalls DEF ServerCall

LEMMA ServerPlaces ==
  ASSUME ServerEnd
  PROVE  /\ call.pc \notin {"build", "await", "retry"}
         /\ call.pc # "write" => call.frame.kind # "RR"
         /\ call.pc = "accept" => session.state # "Connected"
         /\ call.pc = "receive" => call.op = "ReceiveApdu"
         /\ call.pc = "send" => call.op = "SendApdu" /\ Head(call.unsent) = LlcHeader
         /\ call.pc = "write" =>
              \/ call.op = "AcceptDataLink" /\ call.frame = UFrame("UA")
              \/ call.op = "ReceiveApdu" /\ call.frame.kind = "RR"
BY DEF ServerEnd, ServerCall

LEMMA ServerKeepsSession ==
  ASSUME ServerEnd, session' = session, pendingApdus' = pendingApdus, ServerCall'
  PROVE  ServerEnd'
BY DEF ServerEnd, ServerSession, OneApduPending

(* A frame that is read and refused, or that does not come.                *)
LEMMA ServerReadsNothing ==
  ASSUME ~LineNoise, ChannelOK, ServerEnd, NEW status, NoFrameDecoded(status),
         NEW op, Return(op, status),
         UNCHANGED <<tx, open, session, segments, pendingApdus>>
  PROVE  ServerEvent /\ ServerEnd'
<1>1. Incoming' = Incoming /\ ReadOK
  BY FailedReadTakesNone DEF ChannelOK
<1>2. Thinned(Incoming, Incoming')
  BY <1>1, IncomingFrames, NothingLost
<1>3. ServerCall' /\ call'.frame.kind # "RR"
  BY ServerReturns
<1>4. QED
  BY <1>2, <1>3, ServerKeepsSession DEF ServerEvent, ServerIgnores

LEMMA ServerRefusesFrame ==
  ASSUME ChannelOK, ServerEnd, FrameDecoded, NEW op, NEW status, Return(op, status),
         UNCHANGED <<tx, open, session, pendingApdus>>, segments' \in {segments, <<>>}
  PROVE  ServerEvent /\ ServerEnd'
<1>1. ReadOK
  BY DEF ChannelOK
<1>2. Thinned(Incoming, Incoming')
  BY <1>1, ReadTakesFirst, IncomingFrames, FirstTaken
<1>3. ServerCall' /\ call'.frame.kind # "RR"
  BY ServerReturns
<1>4. QED
  BY <1>2, <1>3, ServerKeepsSession DEF ServerEvent, ServerIgnores

(* SNRM starts the session anew, or is refused.                            *)
LEMMA ServerHearsRequest ==
  ASSUME ~Lenient, Role = "Server", NEW f, f.kind = "SNRM",
         NEW o \in ReceiveFrame(Role, session, f)
  PROVE  \/ o.status = Refusal /\ o.session = session
         \/ o.status = "Ok" /\ o.session = InState("ConnectRequested")
<1>1. Unexpected(session) = {Refused(session)}
  BY DEF Unexpected
<1>2. o \in {Accepted(InState("ConnectRequested")), Refused(session)}
  BY <1>1 DEF ReceiveFrame
<1>3. QED
  BY <1>2 DEF Accepted, Refused

(* An I-frame is taken in when it is in sequence, or is refused.           *)
LEMMA ServerHearsInformation ==
  ASSUME session \in Session, ServerSession, NEW f, f.kind = "I", f.nr = 0,
         NEW o \in ReceiveFrame(Role, session, f)
  PROVE  \/ o.status = Refusal /\ o.session = session
         \/ /\ o.status = "Ok" /\ session.state = "Connected" /\ f.ns = session.vr
            /\ o.session = [session EXCEPT !.vr = (@ + 1) % SeqModulus]
<1>1. o \in ReceiveInformation(session, f)
  BY DEF ReceiveFrame
<1>2. \/ o = Refused(session)
      \/ /\ session.state = "Connected" /\ f.ns = session.vr
         /\ o = Accepted([session EXCEPT !.vr = (@ + 1) % SeqModulus, !.va = f.nr])
  BY <1>1 DEF ReceiveInformation
<1>3. [session EXCEPT !.vr = (@ + 1) % SeqModulus, !.va = f.nr]
        = [session EXCEPT !.vr = (@ + 1) % SeqModulus]
  BY DEF ServerSession, Session
<1>4. QED
  BY <1>2, <1>3 DEF Accepted, Refused

LEMMA ServerAwaitsRequest ==
  ASSUME ~Lenient, ~LineNoise, Role = "Server", ChannelOK, ServerEnd,
         Incoming # <<>> => RequestOnly(Head(Incoming)), AwaitConnectRequest
  PROVE  ServerEvent /\ ServerEnd'
<1>1. /\ session \in Session /\ ServerSession /\ session.state # "Connected" /\ ReadOK
      /\ UNCHANGED <<tx, open, segments, pendingApdus>>
  BY ServerPlaces DEF AwaitConnectRequest, ChannelOK, ServerEnd
<1>2. CASE /\ \E s \in ReadStatuses : NoFrameDecoded(s) /\ Return("AcceptDataLink", s)
           /\ UNCHANGED session
  BY <1>1, <1>2, ServerReadsNothing
<1>3. CASE /\ FrameDecoded
           /\ \E o \in ReceiveFrame(Role, session, NextFrame) :
                LET answer == ConnectAnswer(o)
                IN /\ session' = answer.session
                   /\ IF answer.status = "Ok"
                      THEN StartWrite("AcceptDataLink", UFrame("UA"), <<>>)
                      ELSE Return("AcceptDataLink", answer.status)
  <2>1. PICK o \in ReceiveFrame(Role, session, NextFrame) :
          /\ session' = ConnectAnswer(o).session
          /\ IF ConnectAnswer(o).status = "Ok"
             THEN StartWrite("AcceptDataLink", UFrame("UA"), <<>>)
             ELSE Return("AcceptDataLink", ConnectAnswer(o).status)
    BY <1>3
  <2>2. /\ Incoming # <<>> /\ NextFrame = Head(Incoming) /\ Incoming' = Tail(Incoming)
        /\ RequestOnly(NextFrame)
    BY <1>1, <1>3, ReadTakesFirst
  <2>3. Thinned(Incoming, Incoming')
    BY <1>1, <2>2, IncomingFrames, FirstTaken
  <2>4. \/ o.status = Refusal /\ o.session = session
        \/ /\ NextFrame.kind = "SNRM" /\ o.status = "Ok"
           /\ o.session = InState("ConnectRequested")
    BY <1>1, <2>1, <2>2, ServerHearsRequest, ServerHearsInformation DEF RequestOnly
  <2>5. CASE o.status = Refusal /\ o.session = session
    <3>1. session' = session /\ Return("AcceptDataLink", Refusal)
      BY <2>1, <2>5, RefusalIsNotOk DEF ConnectAnswer
    <3>2. QED
      BY <1>1, <1>3, <3>1, ServerRefusesFrame
  <2>6. CASE /\ NextFrame.kind = "SNRM" /\ o.status = "Ok"
             /\ o.session = InState("ConnectRequested")
    <3>1. ConnectAnswer(o) = Accepted(InState("Connected"))
      BY <2>6 DEF ConnectAnswer, BuildConnectResponse, InState, NewSession
    <3>2. /\ session' = InState("Connected")
          /\ StartWrite("AcceptDataLink", UFrame("UA"), <<>>)
      BY <2>1, <3>1 DEF Accepted
    <3>3. /\ call'.op = "AcceptDataLink" /\ call'.pc = "write" /\ call'.frame = UFrame("UA")
          /\ call'.frame.kind # "RR"
      BY <3>2, FrameKindsOfCalls DEF StartWrite, Returned
    <3>4. ServerRestarts
      BY <1>1, <2>2, <2>3, <2>6, <3>2, <3>3 DEF ServerRestarts
    <3>5. ServerSession' /\ ServerCall' /\ OneApduPending'
      BY <1>1, <3>2, <3>3
         DEF ServerSession, InState, NewSession, ServerCall, OneApduPending, ServerEnd
    <3>6. QED
      BY <3>4, <3>5 DEF ServerEvent, ServerEnd
  <2>7. QED
    BY <2>4, <2>5, <2>6
<1>4. QED
  BY <1>2, <1>3 DEF AwaitConnectRequest

LEMMA ServerHasWindow ==
  ASSUME Window = 1, ChannelOK, ServerEnd
  PROVE  CanSendInformationFrame(session)
BY WindowOfOne DEF ChannelOK, ServerEnd, ServerSession

LEMMA ServerBuildsFrame ==
  ASSUME Window = 1, ChannelOK, ServerEnd, BuildSessionInformationFrame
  PROVE  ServerBuilds \/ (ServerEvent /\ ServerEnd')
<1> DEFINE built == BuildInformationFrame(session)
<1>1. /\ call.pc = "send" /\ Head(call.unsent) = LlcHeader /\ ReadOK
      /\ session' = built.session
      /\ \/ built.status = "Ok" /\ call'.pc = "write"
         \/ built.status # "Ok" /\ Return("SendApdu", built.status)
      /\ UNCHANGED <<stream, buffers>>
  BY ServerPlaces
     DEF BuildSessionInformationFrame, ChannelOK, StartWrite, Returned
<1>2. CASE built.status = "Ok"
  BY <1>1, <1>2 DEF ServerBuilds
<1>3. CASE built.status # "Ok"
  <2>1. session' = session
    BY <1>1, <1>3 DEF BuildInformationFrame, Accepted, Refused
  <2>2. tx' = tx /\ Incoming' = Incoming /\ segments' = segments /\ pendingApdus' = pendingApdus
    BY <1>1 DEF stream, buffers, Incoming
  <2>3. Thinned(Incoming, Incoming')
    BY <1>1, <2>2, IncomingFrames, NothingLost
  <2>4. ServerCall' /\ call'.frame.kind # "RR"
    BY <1>1, <1>3, ServerReturns
  <2>5. QED
    BY <2>1, <2>2, <2>3, <2>4, ServerKeepsSession DEF ServerEvent, ServerIgnores
<1>4. QED
  BY <1>2, <1>3

-----------------------------------------------------------------------------
(* LPDUs.                                                                  *)

LEMMA LpduRoundTrip ==
  ASSUME NEW apdu \in Seq(Octets)
  PROVE  /\ EncodeLpdu(apdu) # <<>> /\ Head(EncodeLpdu(apdu)) = LlcHeader
         /\ DecodeLpdu(EncodeLpdu(apdu)) = apdu
<1> DEFINE S == Octets \cup {LlcHeader}
<1>1. apdu \in Seq(S) /\ <<LlcHeader>> \in Seq(S) /\ <<LlcHeader>> # <<>>
  BY SeqMonotonic
<1> HIDE DEF S
<1>2. /\ Tail(<<LlcHeader>>) \o apdu = Tail(<<LlcHeader>> \o apdu)
      /\ Head(<<LlcHeader>>) = Head(<<LlcHeader>> \o apdu)
  BY <1>1, TailOfConcat
<1>3. Tail(<<LlcHeader>>) = <<>> /\ Head(<<LlcHeader>>) = LlcHeader
  OBVIOUS
<1>4. Tail(<<LlcHeader>>) \o apdu = apdu
  BY <1>1, <1>3, ConcatEmptySeq
<1>5. <<LlcHeader>> \o apdu # <<>>
  BY <1>1, ConcatEqualIffEmpty
<1>6. QED
  BY <1>2, <1>3, <1>4, <1>5 DEF EncodeLpdu, DecodeLpdu

LEMMA ServerWrites ==
  ASSUME ChannelOK, ServerEnd, WriteFrameBytes
  PROVE  ServerEvent /\ ServerEnd'
<1>1. /\ call.pc = "write" /\ session' = session /\ Incoming' = Incoming
      /\ segments' = segments /\ pendingApdus' = pendingApdus /\ ReadOK
  BY DEF WriteFrameBytes, buffers, Incoming, ChannelOK
<1>2. \/ call.op = "AcceptDataLink" /\ call.frame = UFrame("UA")
      \/ call.op = "ReceiveApdu" /\ call.frame.kind = "RR"
  BY <1>1, ServerPlaces
<1>3. CASE WriteAll(call.frame) /\ AfterWrite
  <2>1. ServerCall' /\ call'.frame.kind # "RR"
    <3>1. CASE call.op = "AcceptDataLink"
      <4>1. Return(call.op, "Ok")
        BY <1>3, <3>1 DEF AfterWrite
      <4>2. QED
        BY <4>1, ServerReturns
    <3>2. CASE call.op = "ReceiveApdu"
      <4>1. call' = [call EXCEPT !.pc = "receive", !.frame = NoFrame]
        BY <1>3, <3>2 DEF AfterWrite
      <4>2. call'.op = "ReceiveApdu" /\ call'.pc = "receive" /\ call'.frame = NoFrame
        BY <3>2, <4>1, CallFields DEF Call
      <4>3. QED
        BY <4>2, FrameKindsOfCalls DEF ServerCall
    <3>3. QED
      BY <1>2, <3>1, <3>2
  <2>2. ServerPuts
    BY <1>1, <1>2, <1>3, <2>1 DEF ServerPuts, WriteAll
  <2>3. QED
    BY <1>1, <2>1, <2>2, ServerKeepsSession DEF ServerEvent
<1>4. CASE \E s \in {"NotOpen"} \cup WriteFailures : WriteFails(s) /\ Return(call.op, s)
  <2>1. tx' = tx /\ ServerCall' /\ call'.frame.kind # "RR"
    BY <1>4, ServerReturns DEF WriteFails
  <2>2. Thinned(Incoming, Incoming')
    BY <1>1, IncomingFrames, NothingLost
  <2>3. QED
    BY <1>1, <2>1, <2>2, ServerKeepsSession DEF ServerEvent, ServerIgnores
<1>5. QED
  BY <1>3, <1>4 DEF WriteFrameBytes

(* A segment is gathered or refused, and the session does not see it.      *)
LEMMA SegmentIsGathered ==
  ASSUME segments \in Reassembly, NEW f \in Frame, f.kind = "I", f.segmented,
         NEW p \in PushFrame(segments, f, ReassemblyLimit)
  PROVE  p.status # "Ok"
<1> DEFINE whole == IF segments = <<>> THEN f.information
                    ELSE segments[1].information \o f.information
           first == IF segments = <<>> THEN f ELSE segments[1]
<1>1. Len(whole) \in Nat
  <2>1. CASE segments = <<>>
    BY <2>1, InformationFacts DEF Frame
  <2>2. CASE segments # <<>>
    <3>1. segments \in Seq(Frame) /\ Len(segments) \in Nat \ {0}
      BY <2>2, EmptySeq DEF Reassembly
    <3>2. segments[1] \in Frame
      BY <3>1, ElementOfSeq
    <3>3. whole \in Information
      BY <2>2, <3>2, InformationFacts DEF Frame
    <3>4. QED
      BY <3>3, InformationFacts
  <2>3. QED
    BY <2>1, <2>2
<1>2. ReassemblyLimit \in Nat
  BY ChannelAssumption DEF ReassemblyLimit, ChannelAssumption
<1> DEFINE n == Len(whole)
<1>3. n > ReassemblyLimit \/ n <= ReassemblyLimit
  <2> HIDE DEF n
  <2>1. n \in Nat
    BY <1>1 DEF n
  <2>2. QED
    BY <1>2, <2>1
<1>4. /\ MapHdlcStatus("SegmentationOverflow") = "PayloadTooLarge"
      /\ MapHdlcStatus("SegmentationIncomplete") = "NeedMoreData"
  BY DEF MapHdlcStatus, CodecStatus
<1>5. \/ p = Pushed(Refusal, segments, f, FALSE)
      \/ p = Pushed("PayloadTooLarge", segments, f, FALSE)
      \/ p = Pushed("NeedMoreData", <<[first EXCEPT !.information = whole]>>, f, FALSE)
  BY <1>3, <1>4 DEF PushFrame
<1> HIDE DEF first, whole
<1>6. QED
  BY <1>5 DEF Pushed, Refusal

(* A whole frame is handed on as it is, or is too long.                    *)
LEMMA WholeFrameIsHandedOn ==
  ASSUME segments = <<>>, NEW f \in Frame, f.kind = "I", ~f.segmented,
         NEW p \in PushFrame(segments, f, ReassemblyLimit)
  PROVE  \/ p.status \notin {"Ok", "NeedMoreData"}
         \/ p.status = "Ok" /\ p.segments = <<>> /\ p.completed = f /\ p.hasCompleted
<1>1. MapHdlcStatus("SegmentationOverflow") = "PayloadTooLarge"
  BY DEF MapHdlcStatus, CodecStatus
<1>2. [f EXCEPT !.segmented = FALSE, !.information = f.information] = f
  BY DEF Frame
<1>3. \/ p = Pushed("PayloadTooLarge", segments, f, FALSE)
      \/ p = Pushed("Ok", <<>>, [f EXCEPT !.segmented = FALSE, !.information = f.information], TRUE)
  BY <1>1 DEF PushFrame
<1>4. QED
  BY <1>2, <1>3 DEF Pushed

(* The LPDU of an APDU that is not too long is decoded.                    *)
LEMMA WholeLpduIsDecoded ==
  ASSUME NEW f, WholeLpdu(f)
  PROVE  f.information # <<>> /\ DecodeStatuses(f.information) = {"Ok"}
<1>1. PICK apdu \in Seq(Octets) : Fits(apdu) /\ f.information = EncodeLpdu(apdu)
  BY DEF WholeLpdu
<1>2. /\ EncodeLpdu(apdu) # <<>> /\ Head(EncodeLpdu(apdu)) = LlcHeader
      /\ DecodeLpdu(EncodeLpdu(apdu)) = apdu
  BY LpduRoundTrip
<1>3. Len(apdu) \in Nat /\ MaxApduSize \in Nat
  BY LenProperties, ChannelAssumption DEF ChannelAssumption
<1>4. DecodeLpduStatuses(f.information) = {"Ok"}
  BY <1>1, <1>2 DEF DecodeLpduStatuses
<1>5. ~(MaxApduSize # 0 /\ Len(DecodeLpdu(f.information)) > MaxApduSize)
  BY <1>1, <1>2, <1>3 DEF Fits
<1>6. QED
  BY <1>1, <1>2, <1>4, <1>5 DEF DecodeStatuses

(* The parameters of SNRM are no LPDU.                                     *)
LEMMA ParametersAreNoLpdu == "Ok" \notin DecodeStatuses(<<Parameters>>)
<1>1. Head(<<Parameters>>) # LlcHeader
  BY DEF Parameters, LlcHeader
<1>2. MapLlcStatus("InvalidHeader") # "Ok" /\ MapLlcStatus("NeedMoreData") # "Ok"
  BY DEF MapLlcStatus, CodecStatus
<1>3. DecodeLpduStatuses(<<Parameters>>)
        = {MapLlcStatus("InvalidHeader"), MapLlcStatus("NeedMoreData")}
  BY <1>1 DEF DecodeLpduStatuses
<1>4. QED
  BY <1>2, <1>3 DEF DecodeStatuses

LEMMA ServerReceivesRequest ==
  ASSUME ~Lenient, Role = "Server", ChannelOK, ServerEnd,
         UNCHANGED <<tx, open>>, FrameDecoded, call.pc = "receive",
         NextFrame.kind = "SNRM", NextFrame.information = <<Parameters>>,
         ReceiveNumbered(NextFrame)
  PROVE  ServerEvent /\ ServerEnd'
<1>1. /\ session \in Session /\ call.op = "ReceiveApdu" /\ ReadOK
      /\ ServerSession /\ OneApduPending /\ call.frame.kind # "RR"
  BY ServerPlaces DEF ChannelOK, ServerEnd
<1>2. /\ Incoming # <<>> /\ NextFrame = Head(Incoming) /\ Incoming' = Tail(Incoming)
      /\ Thinned(Incoming, Incoming')
  BY <1>1, ReadTakesFirst, IncomingFrames, FirstTaken
<1>3. PICK p \in PushFrame(segments, NextFrame, ReassemblyLimit) :
        \/ /\ p.status = "Ok" /\ segments' = p.segments
           /\ ReceiveCompleted(p.completed, p.hasCompleted)
        \/ p.status # "Ok"
  BY DEF ReceiveNumbered, NoApdu
<1>4. segments' = segments /\ ReceiveCompleted(NextFrame, p.hasCompleted)
  BY <1>3, PassedOn
<1>5. PICK o \in ReceiveFrame(Role, session, NextFrame) :
        /\ session' = o.session
        /\ IF o.status # "Ok" THEN NoApdu(o.status)
           ELSE IF p.hasCompleted /\ NextFrame.information # <<>>
           THEN ReceiveLpdu(NextFrame.information, o.session)
           ELSE Goto("receive") /\ UNCHANGED pendingApdus
  BY <1>4 DEF ReceiveCompleted
<1>6. CASE o.status = Refusal /\ o.session = session
  <2>1. Return("ReceiveApdu", Refusal) /\ UNCHANGED pendingApdus
    BY <1>5, <1>6, RefusalIsNotOk DEF NoApdu
  <2>2. QED
    BY <1>4, <1>5, <1>6, <2>1, ServerRefusesFrame
<1>7. CASE o.status = "Ok" /\ o.session = InState("ConnectRequested")
  <2>1. \/ \E status : NoApdu(status)
        \/ Goto("receive") /\ UNCHANGED pendingApdus
    <3>1. ASSUME ReceiveLpdu(<<Parameters>>, o.session) PROVE \E status : NoApdu(status)
      BY <3>1, ParametersAreNoLpdu DEF ReceiveLpdu
    <3>2. QED
      BY <1>5, <1>7, <3>1
  <2>2. /\ pendingApdus' = pendingApdus
        /\ Goto("receive") \/ \E status : Return("ReceiveApdu", status)
    BY <2>1 DEF NoApdu
  <2>3. ServerCall' /\ call'.frame.kind # "RR"
    <3>1. CASE Goto("receive")
      <4>1. call'.op = "ReceiveApdu" /\ call'.pc = "receive" /\ call'.frame.kind # "RR"
        BY <1>1, <3>1, CallGoesOn
      <4>2. QED
        BY <4>1 DEF ServerCall
    <3>2. QED
      BY <2>2, <3>1, ServerReturns
  <2>4. ServerRestarts
    BY <1>2, <1>4, <1>5, <1>7, <2>2, <2>3 DEF ServerRestarts
  <2>5. ServerSession' /\ OneApduPending'
    BY <1>1, <1>5, <1>7, <2>2 DEF ServerSession, InState, NewSession, OneApduPending
  <2>6. QED
    BY <2>3, <2>4, <2>5 DEF ServerEvent, ServerEnd
<1>8. QED
  BY <1>5, <1>6, <1>7, ServerHearsRequest

LEMMA ServerReceivesSegment ==
  ASSUME ChannelOK, ServerEnd, UNCHANGED <<tx, open>>, FrameDecoded, call.pc = "receive",
         NextFrame.kind = "I", NextFrame.segmented, ReceiveNumbered(NextFrame)
  PROVE  ServerEvent /\ ServerEnd'
<1>1. /\ call.op = "ReceiveApdu" /\ ReadOK /\ segments \in Reassembly /\ NextFrame \in Frame
      /\ call.frame.kind # "RR"
  BY ServerPlaces, DecodingKeepsType DEF ChannelOK
<1>2. /\ Incoming # <<>> /\ NextFrame = Head(Incoming) /\ Incoming' = Tail(Incoming)
      /\ Thinned(Incoming, Incoming')
  BY <1>1, ReadTakesFirst, IncomingFrames, FirstTaken
<1>3. PICK p \in PushFrame(segments, NextFrame, ReassemblyLimit) :
        p.status = "Ok" \/ (NoApdu(p.status) /\ UNCHANGED session)
  BY DEF ReceiveNumbered
<1>4. NoApdu(p.status) /\ session' = session
  BY <1>1, <1>3, SegmentIsGathered
<1>5. /\ pendingApdus' = pendingApdus
      /\ Goto("receive") \/ \E status : Return("ReceiveApdu", status)
  BY <1>4 DEF NoApdu
<1>6. ServerCall' /\ call'.frame.kind # "RR"
  <2>1. CASE Goto("receive")
    <3>1. call'.op = "ReceiveApdu" /\ call'.pc = "receive" /\ call'.frame.kind # "RR"
      BY <1>1, <2>1, CallGoesOn
    <3>2. QED
      BY <3>1 DEF ServerCall
  <2>2. QED
    BY <1>5, <2>1, ServerReturns
<1>7. ServerGathers
  BY <1>2, <1>4, <1>5, <1>6 DEF ServerGathers
<1>8. QED
  BY <1>4, <1>5, <1>6, <1>7, ServerKeepsSession DEF ServerEvent

LEMMA ServerReceivesWhole ==
  ASSUME ChannelOK, ServerEnd, UNCHANGED <<tx, open>>, FrameDecoded, call.pc = "receive",
         pendingApdus = <<>>, segments = <<>>,
         NextFrame.kind = "I", ~NextFrame.segmented, NextFrame.nr = 0,
         session.state = "Connected" /\ NextFrame.ns = session.vr => WholeLpdu(NextFrame),
         ReceiveNumbered(NextFrame)
  PROVE  ServerEvent /\ ServerEnd'
<1>1. /\ session \in Session /\ call.op = "ReceiveApdu" /\ ReadOK /\ NextFrame \in Frame
      /\ ServerSession
  BY ServerPlaces, DecodingKeepsType DEF ChannelOK, ServerEnd
<1>2. /\ Incoming # <<>> /\ NextFrame = Head(Incoming) /\ Incoming' = Tail(Incoming)
      /\ Thinned(Incoming, Incoming')
  BY <1>1, ReadTakesFirst, IncomingFrames, FirstTaken
<1>3. PICK p \in PushFrame(segments, NextFrame, ReassemblyLimit) :
        \/ /\ p.status = "Ok" /\ segments' = p.segments
           /\ ReceiveCompleted(p.completed, p.hasCompleted)
        \/ /\ NoApdu(p.status) /\ UNCHANGED session
           /\ segments' = IF p.status = "NeedMoreData" THEN p.segments ELSE <<>>
  BY DEF ReceiveNumbered
<1>4. CASE p.status \notin {"Ok", "NeedMoreData"}
  <2>1. Return("ReceiveApdu", p.status) /\ pendingApdus' = pendingApdus /\ segments' = <<>>
        /\ session' = session
    BY <1>3, <1>4 DEF NoApdu
  <2>2. QED
    BY <2>1, ServerRefusesFrame
<1>5. CASE p.status = "Ok" /\ p.segments = <<>> /\ p.completed = NextFrame /\ p.hasCompleted
  <2>1. segments' = <<>> /\ ReceiveCompleted(NextFrame, p.hasCompleted)
    BY <1>3, <1>5 DEF NoApdu
  <2>2. PICK o \in ReceiveFrame(Role, session, NextFrame) :
          /\ session' = o.session
          /\ IF o.status # "Ok" THEN NoApdu(o.status)
             ELSE IF p.hasCompleted /\ NextFrame.information # <<>>
             THEN ReceiveLpdu(NextFrame.information, o.session)
             ELSE Goto("receive") /\ UNCHANGED pendingApdus
    BY <2>1 DEF ReceiveCompleted
  <2>3. CASE o.status = Refusal /\ o.session = session
    <3>1. Return("ReceiveApdu", Refusal) /\ UNCHANGED pendingApdus
      BY <2>2, <2>3, RefusalIsNotOk DEF NoApdu
    <3>2. QED
      BY <2>1, <2>2, <2>3, <3>1, ServerRefusesFrame
  <2>4. CASE /\ o.status = "Ok" /\ session.state = "Connected" /\ NextFrame.ns = session.vr
             /\ o.session = [session EXCEPT !.vr = (@ + 1) % SeqModulus]
    <3>1. NextFrame.information # <<>> /\ DecodeStatuses(NextFrame.information) = {"Ok"}
      BY <2>4, WholeLpduIsDecoded
    <3>2. ReceiveLpdu(NextFrame.information, session')
      BY <1>5, <2>2, <2>4, <3>1
    <3>3. QueueApdu(NextFrame.information) /\ SendReceiveReady(session')
      BY <3>1, <3>2 DEF ReceiveLpdu, NoApdu
    <3>4. /\ session'.state = "Connected" /\ session'.vs = session.vs
          /\ session'.va = session.va
      BY <1>1, <2>2, <2>4 DEF Session
    <3>5. call' = [call EXCEPT !.pc = "write", !.frame = RRFrame(session')]
      BY <3>3, <3>4 DEF SendReceiveReady, BuildReceiveReadyFrame, Accepted
    <3>6. call'.op = "ReceiveApdu" /\ call'.pc = "write" /\ call'.frame = RRFrame(session')
      BY <1>1, <3>5, CallFields DEF Call
    <3>7. pendingApdus' = <<DecodeLpdu(NextFrame.information)>>
      BY <3>3 DEF QueueApdu
    <3>8. ServerTakes
      BY <1>2, <2>1, <2>2, <2>4, <3>6, <3>7 DEF ServerTakes
    <3>9. ServerSession' /\ ServerCall' /\ OneApduPending'
      BY <1>1, <3>4, <3>6, <3>7, FrameKindsOfCalls
         DEF ServerSession, ServerCall, OneApduPending
    <3>10. QED
      BY <3>8, <3>9 DEF ServerEvent, ServerEnd
  <2>5. QED
    BY <1>1, <2>2, <2>3, <2>4, ServerHearsInformation
<1>6. QED
  BY <1>1, <1>3, <1>4, <1>5, WholeFrameIsHandedOn

LEMMA ServerReceivesNext ==
  ASSUME UseSession, ~Lenient, ~LineNoise, Role = "Server", ChannelOK, ServerEnd,
         Incoming # <<>> => RequestOnly(Head(Incoming)), ReceiveNextApdu
  PROVE  ServerEvent /\ ServerEnd'
<1>1. call.pc = "receive" /\ pendingApdus = <<>> /\ UNCHANGED <<tx, open>> /\ ReadOK
  BY DEF ReceiveNextApdu, NeedsApdu, ChannelOK
<1>2. CASE /\ \E s \in ReadStatuses : NoFrameDecoded(s) /\ Return("ReceiveApdu", s)
           /\ UNCHANGED <<session, segments, pendingApdus>>
  BY <1>1, <1>2, ServerReadsNothing
<1>3. CASE FrameDecoded /\ ReceiveNumbered(NextFrame)
  <2>1. RequestOnly(NextFrame)
    BY <1>1, <1>3, ReadTakesFirst
  <2>2. CASE NextFrame.kind = "SNRM" /\ NextFrame.information = <<Parameters>>
    BY <1>1, <1>3, <2>2, ServerReceivesRequest
  <2>3. CASE NextFrame.kind = "I" /\ NextFrame.segmented
    BY <1>1, <1>3, <2>3, ServerReceivesSegment
  <2>4. CASE /\ NextFrame.kind = "I" /\ ~NextFrame.segmented /\ NextFrame.nr = 0
             /\ segments = <<>>
             /\ session.state = "Connected" /\ NextFrame.ns = session.vr => WholeLpdu(NextFrame)
    BY <1>1, <1>3, <2>4, ServerReceivesWhole
  <2>5. QED
    BY <2>1, <2>2, <2>3, <2>4 DEF RequestOnly
<1>4. QED
  BY <1>2, <1>3 DEF ReceiveNextApdu

LEMMA ServerCopies ==
  ASSUME ChannelOK, ServerEnd, CopyFirstPendingApdu
  PROVE  ServerEvent /\ ServerEnd'
<1>1. /\ session' = session /\ tx' = tx /\ Incoming' = Incoming /\ segments' = segments
      /\ pendingApdus # <<>> /\ pendingApdus' \in {pendingApdus, Tail(pendingApdus)}
      /\ \E status : Return("ReceiveApdu", status)
      /\ ReadOK /\ pendingApdus \in Seq(Information)
  BY DEF CopyFirstPendingApdu, TakeIf, stream, Incoming, ChannelOK
<1>2. Thinned(Incoming, Incoming')
  BY <1>1, IncomingFrames, NothingLost
<1>3. ServerCall' /\ call'.frame.kind # "RR"
  BY <1>1, ServerReturns
<1>4. OneApduPending'
  <2>1. Len(pendingApdus) \in Nat /\ Len(Tail(pendingApdus)) = Len(pendingApdus) - 1
    BY <1>1, LenProperties, HeadTailProperties
  <2>2. QED
    BY <1>1, <2>1 DEF OneApduPending, ServerEnd
<1>5. ServerIgnores \/ ServerHands
  BY <1>1, <1>2, <1>3 DEF ServerIgnores, ServerHands
<1>6. QED
  BY <1>1, <1>3, <1>4, <1>5 DEF ServerEvent, ServerEnd, ServerSession

(* Every step of a call of the server is one of its events.                *)
LEMMA ServerSteps ==
  ASSUME UseSession, Window = 1, ~Lenient, ~LineNoise, Role = "Server", ChannelOK, ServerEnd,
         Incoming # <<>> => RequestOnly(Head(Incoming)), Step
  PROVE  ServerBuilds \/ (ServerEvent /\ ServerEnd')
<1>1. ~AwaitWindow
  BY ServerHasWindow DEF AwaitWindow
<1>2. ~ReceiveSessionControlFrameWithRetry /\ ~SleepBeforeRetry
  BY ServerPlaces DEF ReceiveSessionControlFrameWithRetry, SleepBeforeRetry
<1>3. QED
  BY <1>1, <1>2, ServerAwaitsRequest, ServerBuildsFrame, ServerWrites, ServerReceivesNext,
     ServerCopies DEF Step

-----------------------------------------------------------------------------
(* The calls of the server.                                                *)

LEMMA ServerIsRefused ==
  ASSUME ReadOK, ServerEnd, NEW op, NEW status, Refuse(op, status)
  PROVE  ServerEvent /\ ServerEnd'
<1>1. /\ Return(op, status) /\ session' = session /\ tx' = tx /\ Thinned(Incoming, Incoming')
      /\ segments' = segments /\ pendingApdus' = pendingApdus
  BY RefusedCall
<1>2. ServerCall' /\ call'.frame.kind # "RR"
  BY <1>1, ServerReturns
<1>3. QED
  BY <1>1, <1>2, ServerKeepsSession DEF ServerEvent, ServerIgnores

LEMMA ServerAcceptsLink ==
  ASSUME ChannelOK, ServerEnd, session.state # "Connected", AcceptDataLink
  PROVE  ServerEvent /\ ServerEnd'
<1>1. ReadOK /\ ServerSession /\ OneApduPending
  BY DEF ChannelOK, ServerEnd
<1>2. CASE \E status : Refuse("AcceptDataLink", status)
  BY <1>1, <1>2, ServerIsRefused
<1>3. CASE /\ EnsureSession /\ session' = EnsuredSession
           /\ Enter("AcceptDataLink", "accept")
           /\ UNCHANGED <<tx, open, pendingApdus>>
  <2>1. Thinned(Incoming, Incoming') /\ segments' \in {segments, <<>>}
    BY <1>1, <1>3, NewSessionDrops
  <2>2. session'.state # "Connected" /\ ServerSession'
    BY <1>1, <1>3 DEF EnsuredSession, NewSession, ServerSession
  <2>3. call'.op = "AcceptDataLink" /\ call'.pc = "accept" /\ call'.frame = NoFrame
    BY <1>3 DEF Enter, Returned
  <2>4. QED
    BY <1>1, <1>3, <2>1, <2>2, <2>3, FrameKindsOfCalls
       DEF ServerEvent, ServerIgnores, ServerEnd, ServerCall, OneApduPending
<1>4. QED
  BY <1>2, <1>3 DEF AcceptDataLink

LEMMA ServerSendsApdu ==
  ASSUME UseSession, ChannelOK, ServerEnd, NEW apdu \in Apdus, SendApdu(apdu)
  PROVE  ServerEvent /\ ServerEnd'
<1>1. ReadOK
  BY DEF ChannelOK
<1>2. CASE \E status : Refuse("SendApdu", status)
  BY <1>1, <1>2, ServerIsRefused
<1>3. CASE /\ call' = [Returned("SendApdu", "Pending") EXCEPT
                         !.pc = "send", !.unsent = EncodeLpdu(apdu)]
           /\ UNCHANGED <<stream, session, buffers>>
  <2>1. /\ call'.op = "SendApdu" /\ call'.pc = "send" /\ call'.frame = NoFrame
        /\ call'.unsent = EncodeLpdu(apdu)
    BY <1>3 DEF Returned
  <2>2. /\ session' = session /\ tx' = tx /\ Incoming' = Incoming
        /\ segments' = segments /\ pendingApdus' = pendingApdus
    BY <1>3 DEF stream, buffers, Incoming
  <2>3. Thinned(Incoming, Incoming')
    BY <1>1, <2>2, IncomingFrames, NothingLost
  <2>4. EncodeLpdu(apdu) # <<>> /\ Head(EncodeLpdu(apdu)) = LlcHeader
    BY EndpointAssumption, LpduRoundTrip DEF EndpointAssumption
  <2>5. ServerCall' /\ call'.frame.kind # "RR"
    BY <2>1, <2>4, FrameKindsOfCalls DEF ServerCall
  <2>6. QED
    BY <2>2, <2>3, <2>5, ServerKeepsSession DEF ServerEvent, ServerIgnores
<1>4. QED
  BY <1>2, <1>3 DEF SendApdu

LEMMA ServerReceivesApdu ==
  ASSUME ChannelOK, ServerEnd, NEW capacity, ReceiveApdu(capacity)
  PROVE  ServerEvent /\ ServerEnd'
<1>1. ReadOK
  BY DEF ChannelOK
<1>2. CASE \E status : Refuse("ReceiveApdu", status)
  BY <1>1, <1>2, ServerIsRefused
<1>3. CASE /\ call' = [Returned("ReceiveApdu", "Pending") EXCEPT
                         !.pc = "receive", !.capacity = capacity]
           /\ UNCHANGED <<stream, session, buffers>>
  <2>1. call'.op = "ReceiveApdu" /\ call'.pc = "receive" /\ call'.frame = NoFrame
    BY <1>3 DEF Returned
  <2>2. /\ session' = session /\ tx' = tx /\ Incoming' = Incoming
        /\ segments' = segments /\ pendingApdus' = pendingApdus
    BY <1>3 DEF stream, buffers, Incoming
  <2>3. Thinned(Incoming, Incoming')
    BY <1>1, <2>2, IncomingFrames, NothingLost
  <2>4. ServerCall' /\ call'.frame.kind # "RR"
    BY <2>1, FrameKindsOfCalls DEF ServerCall
  <2>5. QED
    BY <2>2, <2>3, <2>4, ServerKeepsSession DEF ServerEvent, ServerIgnores
<1>4. QED
  BY <1>2, <1>3 DEF ReceiveApdu

(* The first I-frame of an APDU carries its LPDU, or the first segment.    *)
Whole(apdu) == ChunkSize(EncodeLpdu(apdu)) = Len(EncodeLpdu(apdu))

LEMMA FirstFrame ==
  ASSUME NEW apdu \in Seq(Octets), NEW s, NEW unsent, unsent = EncodeLpdu(apdu)
  PROVE  LET f == ChunkFrame(s, unsent)
             rest == SubSeq(unsent, ChunkSize(unsent) + 1, Len(unsent))
         IN /\ f.kind = "I" /\ f.ns = s.vs /\ f.nr = s.vr
            /\ f.segmented = ~Whole(apdu)
            /\ Whole(apdu) => f.information = unsent /\ rest = <<>>
<1>1. unsent \in Information
  BY EncodedApdu
<1>2. ChunkSize(unsent) \in 0..Len(unsent) /\ Len(unsent) \in Nat
  BY <1>1, ChunkFacts, InformationFacts
<1>3. ChunkFrame(s, unsent).segmented = (ChunkSize(unsent) < Len(unsent))
  BY DEF ChunkFrame, IFrame
<1>4. (ChunkSize(unsent) < Len(unsent)) = ~Whole(apdu)
  BY <1>2 DEF Whole
<1>5. ASSUME Whole(apdu)
      PROVE  /\ ChunkFrame(s, unsent).information = unsent
             /\ SubSeq(unsent, ChunkSize(unsent) + 1, Len(unsent)) = <<>>
  <2>1. ChunkSize(unsent) = Len(unsent)
    BY <1>5 DEF Whole
  <2>2. SubSeq(unsent, 1, Len(unsent)) = unsent
    BY <1>1, SubSeqFull DEF Information
  <2>3. SubSeq(unsent, Len(unsent) + 1, Len(unsent)) = <<>>
    BY <1>2, SubSeqEmpty
  <2>4. QED
    BY <2>1, <2>2, <2>3 DEF ChunkFrame, IFrame
<1>6. /\ ChunkFrame(s, unsent).kind = "I" /\ ChunkFrame(s, unsent).ns = s.vs
      /\ ChunkFrame(s, unsent).nr = s.vr
  BY DEF ChunkFrame, IFrame
<1>7. QED
  BY <1>3, <1>4, <1>5, <1>6

-----------------------------------------------------------------------------
(* All that a channel does to its own stream is to add frames.             *)
OnlyWrites == tx' = tx \/ \E f \in Frame : tx' = Append(tx, f)

LEMMA ChannelOnlyWrites ==
  ASSUME ChannelOK, Step \/ DataLinkCall \/ (\E apdu : SendApdu(apdu))
                      \/ (\E capacity : ReceiveApdu(capacity))
  PROVE  OnlyWrites
<1>1. \A op, status : Refuse(op, status) => OnlyWrites
  BY DEF Refuse, stream, OnlyWrites
<1>2. WriteFrameBytes => OnlyWrites
  BY CallFields DEF WriteFrameBytes, WriteAll, WriteFails, OnlyWrites
<1>3. Step => OnlyWrites
  BY <1>2 DEF Step, AwaitConnectRequest, AwaitWindow, BuildSessionInformationFrame,
     ReceiveSessionControlFrameWithRetry, SleepBeforeRetry, ReceiveNextApdu,
     CopyFirstPendingApdu, stream, OnlyWrites
<1>4. DataLinkCall => OnlyWrites
  BY <1>1 DEF DataLinkCall, ConnectDataLink, AcceptDataLink, DisconnectDataLink, stream,
     OnlyWrites
<1>5. \A apdu : SendApdu(apdu) => OnlyWrites
  BY <1>1 DEF SendApdu, stream, OnlyWrites
<1>6. \A capacity : ReceiveApdu(capacity) => OnlyWrites
  BY <1>1 DEF ReceiveApdu, stream, OnlyWrites
<1>7. QED
  BY <1>3, <1>4, <1>5, <1>6
-----------------------------------------------------------------------------
(* Either end as a sender of unsegmented APDUs, for any window, role and   *)
(* session.                                                                *)

Unbuilt == {"send", "build"}

(* The I-frame that a call may still write, once or once more.             *)
OnTheWay ==
  IF call.frame.kind = "I" /\ call.pc \in Asking THEN <<call.frame>> ELSE <<>>

Unnumbered(f) == f.information \in {<<>>, <<Parameters>>}

(* Only SendApdu has an I-frame, and one frame is all of its LPDU.         *)
SenderCall ==
  /\ IF call.pc \in Unbuilt
     THEN call.op = "SendApdu" /\ \E apdu \in Apdus : call.unsent = EncodeLpdu(apdu)
     ELSE call.unsent = <<>>
  /\ IF call.frame.kind = "I" THEN call.op = "SendApdu" ELSE Unnumbered(call.frame)

(* What a step of a call does to the line of the frames it writes.         *)
SenderRests ==
  /\ tx' = tx /\ OnTheWay' \in {OnTheWay, <<>>}
  /\ ~(call.pc \in Unbuilt /\ call'.pc = "write")
  /\ call'.pc \in Unbuilt => call.pc \in Unbuilt /\ call'.unsent = call.unsent

SenderBuilds ==
  /\ call.pc \in Unbuilt /\ call'.pc = "write" /\ tx' = tx
  /\ OnTheWay' = <<call'.frame>> /\ call'.frame \in Frame
  /\ call'.frame.kind = "I" /\ ~call'.frame.segmented
  /\ call'.frame.information = call.unsent

SenderPuts ==
  /\ call.pc = "write" /\ call'.pc \notin Unbuilt
  /\ tx' = Append(tx, call.frame) /\ OnTheWay' \in {OnTheWay, <<>>}

SenderEvent == SenderRests \/ SenderBuilds \/ SenderPuts

LEMMA SenderReturns ==
  ASSUME NEW op, NEW status, Return(op, status)
  PROVE  /\ SenderCall' /\ OnTheWay' = <<>> /\ call'.pc = "idle"
         /\ tx' = tx => SenderRests
<1>1. /\ call'.pc = "idle" /\ call'.frame.kind = "DISC" /\ call'.frame.information = <<>>
      /\ call'.unsent = <<>>
  BY DEF Return, Returned, NoFrame, UFrame
<1>2. QED
  BY <1>1 DEF SenderCall, OnTheWay, Unbuilt, Unnumbered, SenderRests

LEMMA SenderGoesOn ==
  ASSUME ChannelOK, SenderCall, NEW pc, Goto(pc), tx' = tx,
         pc \in Unbuilt <=> call.pc \in Unbuilt, pc # "write",
         pc \in Asking => call.pc \in Asking
  PROVE  SenderCall' /\ SenderRests
<1>1. /\ call'.op = call.op /\ call'.pc = pc
      /\ call'.frame = call.frame /\ call'.unsent = call.unsent
  BY CallGoesOn
<1>2. QED
  BY <1>1 DEF SenderCall, OnTheWay, SenderRests

(* A frame of the link is written, and no I-frame is under way.            *)
LEMMA SenderStartsLink ==
  ASSUME NEW op, NEW kind \in {"SNRM", "UA", "DISC"}, StartWrite(op, UFrame(kind), <<>>),
         tx' = tx, call.pc \notin Unbuilt
  PROVE  SenderCall' /\ SenderRests
<1>1. /\ call'.op = op /\ call'.pc = "write" /\ call'.frame = UFrame(kind)
      /\ call'.unsent = <<>>
  BY DEF StartWrite, Returned
<1>2. UFrame(kind).kind # "I" /\ Unnumbered(UFrame(kind))
  BY DEF UFrame, Unnumbered
<1>3. QED
  BY <1>1, <1>2 DEF SenderCall, OnTheWay, Unbuilt, SenderRests

LEMMA SenderAwaitsRequest ==
  ASSUME AwaitConnectRequest
  PROVE  SenderEvent /\ SenderCall'
<1>1. call.pc = "accept" /\ tx' = tx
  BY DEF AwaitConnectRequest
<1>2. \/ \E s : Return("AcceptDataLink", s)
      \/ StartWrite("AcceptDataLink", UFrame("UA"), <<>>)
  BY DEF AwaitConnectRequest
<1>3. QED
  BY <1>1, <1>2, SenderReturns, SenderStartsLink DEF SenderEvent, Unbuilt

LEMMA SenderAwaitsWindow ==
  ASSUME ChannelOK, SenderCall, AwaitWindow
  PROVE  SenderEvent /\ SenderCall'
<1>1. call.pc = "send" /\ tx' = tx
  BY DEF AwaitWindow
<1>2. (\E s : Return("SendApdu", s)) \/ Goto("build")
  BY DEF AwaitWindow
<1>3. QED
  BY <1>1, <1>2, SenderReturns, SenderGoesOn DEF SenderEvent, Unbuilt, Asking

LEMMA SenderBuildsFrame ==
  ASSUME ChannelOK, SenderCall, \A apdu \in Apdus : Whole(apdu),
         BuildSessionInformationFrame
  PROVE  SenderEvent /\ SenderCall'
<1> DEFINE f == ChunkFrame(session, call.unsent)
           rest == SubSeq(call.unsent, ChunkSize(call.unsent) + 1, Len(call.unsent))
<1>1. call.pc \in Unbuilt /\ tx' = tx
  BY DEF BuildSessionInformationFrame, stream, Unbuilt
<1>2. StartWrite("SendApdu", f, rest) \/ \E s : Return("SendApdu", s)
  BY DEF BuildSessionInformationFrame
<1>3. PICK apdu \in Apdus : call.unsent = EncodeLpdu(apdu)
  BY <1>1 DEF SenderCall
<1>4. f.kind = "I" /\ ~f.segmented /\ f.information = call.unsent /\ rest = <<>>
  <2>1. apdu \in Seq(Octets)
    BY EndpointAssumption DEF EndpointAssumption
  <2>2. Whole(apdu)
    OBVIOUS
  <2>3. /\ f.kind = "I" /\ f.segmented = ~Whole(apdu)
        /\ Whole(apdu) => f.information = call.unsent /\ rest = <<>>
    BY <1>3, <2>1, FirstFrame
  <2>4. QED
    BY <2>2, <2>3
<1>5. CASE StartWrite("SendApdu", f, rest)
  <2>1. CallOK'
    BY BuildKeepsType DEF ChannelOK
  <2>2. /\ call'.op = "SendApdu" /\ call'.pc = "write" /\ call'.frame = f
        /\ call'.unsent = <<>>
    BY <1>4, <1>5 DEF StartWrite, Returned
  <2>3. call'.frame \in Frame
    BY <2>1 DEF CallOK, Call
  <2>4. SenderBuilds
    BY <1>1, <1>4, <2>2, <2>3 DEF SenderBuilds, OnTheWay, Asking
  <2>5. SenderCall'
    BY <1>4, <2>2 DEF SenderCall, Unbuilt
  <2>6. QED
    BY <2>4, <2>5 DEF SenderEvent
<1>6. QED
  BY <1>1, <1>2, <1>5, SenderReturns DEF SenderEvent

LEMMA SenderWrites ==
  ASSUME UseSession, ChannelOK, SenderCall, WriteFrameBytes
  PROVE  SenderEvent /\ SenderCall'
<1>1. call.pc = "write" /\ call.pc \notin Unbuilt /\ call.pc \in Asking
  BY DEF WriteFrameBytes, Unbuilt, Asking
<1>2. CASE WriteAll(call.frame) /\ AfterWrite
  <2>1. tx' = Append(tx, call.frame)
    BY <1>2 DEF WriteAll
  <2>2. CASE Return(call.op, "Ok")
    <3>1. SenderCall' /\ OnTheWay' = <<>> /\ call'.pc \notin Unbuilt
      BY <2>2, SenderReturns DEF Unbuilt
    <3>2. QED
      BY <1>1, <2>1, <3>1 DEF SenderPuts, SenderEvent
  <2>3. CASE call' = [call EXCEPT !.pc = "receive", !.frame = NoFrame]
    <3>1. /\ call'.pc = "receive" /\ call'.unsent = call.unsent /\ call'.frame = NoFrame
      BY <2>3, CallFields DEF Call
    <3>2. NoFrame.kind # "I" /\ Unnumbered(NoFrame)
      BY DEF NoFrame, UFrame, Unnumbered
    <3>3. SenderCall' /\ OnTheWay' = <<>> /\ call'.pc \notin Unbuilt
      BY <1>1, <3>1, <3>2 DEF SenderCall, OnTheWay, Unbuilt
    <3>4. QED
      BY <1>1, <2>1, <3>3 DEF SenderPuts, SenderEvent
  <2>4. CASE call' = [call EXCEPT !.pc = "await"]
    <3>1. /\ call'.pc = "await" /\ call'.unsent = call.unsent /\ call'.frame = call.frame
          /\ call'.op = call.op
      BY <2>4, CallFields DEF Call
    <3>2. SenderCall' /\ OnTheWay' = OnTheWay /\ call'.pc \notin Unbuilt
      BY <1>1, <3>1 DEF SenderCall, OnTheWay, Unbuilt, Asking
    <3>3. QED
      BY <1>1, <2>1, <3>2 DEF SenderPuts, SenderEvent
  <2>5. QED
    BY <1>2, <2>2, <2>3, <2>4 DEF AfterWrite
<1>3. CASE \E s \in {"NotOpen"} \cup WriteFailures : WriteFails(s) /\ Return(call.op, s)
  BY <1>3, SenderReturns DEF WriteFails, SenderEvent
<1>4. QED
  BY <1>2, <1>3 DEF WriteFrameBytes

LEMMA SenderAwaitsAnswer ==
  ASSUME ChannelOK, SenderCall, ReceiveSessionControlFrameWithRetry
  PROVE  SenderEvent /\ SenderCall'
<1>1. call.pc = "await" /\ tx' = tx
  BY DEF ReceiveSessionControlFrameWithRetry
<1>2. call.unsent = <<>>
  BY <1>1 DEF SenderCall, Unbuilt
<1>3. (\E s : Return(call.op, s)) \/ Goto("retry")
  BY <1>2 DEF ReceiveSessionControlFrameWithRetry, AfterAnswer, AfterNoAnswer
<1>4. QED
  BY <1>1, <1>3, SenderReturns, SenderGoesOn DEF SenderEvent, Unbuilt, Asking

LEMMA SenderSleeps ==
  ASSUME ChannelOK, SenderCall, SleepBeforeRetry
  PROVE  SenderEvent /\ SenderCall'
<1>1. call.pc = "retry" /\ tx' = tx
  BY DEF SleepBeforeRetry, stream
<1>2. CASE call' = [call EXCEPT !.pc = "write", !.attempt = (@ + 1) % CounterModulus]
  <2>1. /\ call'.pc = "write" /\ call'.unsent = call.unsent /\ call'.frame = call.frame
        /\ call'.op = call.op
    BY <1>2, CallFields DEF Call
  <2>2. QED
    BY <1>1, <2>1 DEF SenderCall, OnTheWay, Unbuilt, Asking, SenderRests, SenderEvent
<1>3. QED
  BY <1>1, <1>2, SenderReturns DEF SleepBeforeRetry, SenderEvent

LEMMA SenderReceives ==
  ASSUME ChannelOK, SenderCall, ReceiveNextApdu
  PROVE  SenderEvent /\ SenderCall'
<1>1. call.pc = "receive" /\ call.pc \notin Unbuilt /\ call.pc \notin Asking /\ tx' = tx
  BY DEF ReceiveNextApdu, Unbuilt, Asking
<1>2. CASE \E s : call' = [call EXCEPT !.pc = "write", !.frame = RRFrame(s)]
  <2>1. PICK s : call' = [call EXCEPT !.pc = "write", !.frame = RRFrame(s)]
    BY <1>2
  <2>2. /\ call'.pc = "write" /\ call'.unsent = call.unsent /\ call'.frame = RRFrame(s)
    BY <2>1, CallFields DEF Call
  <2>3. RRFrame(s).kind # "I" /\ Unnumbered(RRFrame(s))
    BY DEF RRFrame, Unnumbered
  <2>4. QED
    BY <1>1, <2>2, <2>3 DEF SenderCall, OnTheWay, Unbuilt, SenderRests, SenderEvent
<1>3. QED
  BY <1>1, <1>2, ReceiveLoopCall, SenderReturns, SenderGoesOn DEF SenderEvent, Unbuilt, Asking

LEMMA SenderCopies ==
  ASSUME CopyFirstPendingApdu
  PROVE  SenderEvent /\ SenderCall'
BY SenderReturns DEF CopyFirstPendingApdu, stream, SenderEvent

(* Every step of a call is one of its events.                              *)
LEMMA SenderSteps ==
  ASSUME UseSession, ChannelOK, SenderCall, \A apdu \in Apdus : Whole(apdu), Step
  PROVE  SenderEvent /\ SenderCall'
BY SenderAwaitsRequest, SenderAwaitsWindow, SenderBuildsFrame, SenderWrites,
   SenderAwaitsAnswer, SenderSleeps, SenderReceives, SenderCopies DEF Step

(* A call other than SendApdu puts no I-frame under way.                   *)
LEMMA SenderCalls ==
  ASSUME DataLinkCall \/ \E capacity : ReceiveApdu(capacity)
  PROVE  SenderRests /\ SenderCall'
<1>1. call.pc = "idle" /\ call.pc \notin Unbuilt /\ call.pc \notin Asking /\ tx' = tx
  BY DEF DataLinkCall, ConnectDataLink, AcceptDataLink, DisconnectDataLink, ReceiveApdu,
     Idle, Refuse, stream, Unbuilt, Asking
<1>2. \/ \E op, status : Return(op, status)
      \/ \E op : \E kind \in {"SNRM", "UA", "DISC"} : StartWrite(op, UFrame(kind), <<>>)
      \/ Enter("AcceptDataLink", "accept")
      \/ \E capacity : call' = [Returned("ReceiveApdu", "Pending") EXCEPT
                                  !.pc = "receive", !.capacity = capacity]
  BY DEF DataLinkCall, ConnectDataLink, AcceptDataLink, DisconnectDataLink, ReceiveApdu,
     Refuse
<1>3. ASSUME call'.pc \in {"accept", "receive"}, call'.frame = NoFrame, call'.unsent = <<>>
      PROVE  SenderRests /\ SenderCall'
  BY <1>1, <1>3 DEF SenderRests, SenderCall, OnTheWay, Unbuilt, Unnumbered, Asking, NoFrame, UFrame
<1>4. CASE Enter("AcceptDataLink", "accept")
  BY <1>3, <1>4 DEF Enter, Returned
<1>5. CASE \E capacity : call' = [Returned("ReceiveApdu", "Pending") EXCEPT
                                    !.pc = "receive", !.capacity = capacity]
  BY <1>3, <1>5 DEF Returned
<1>6. QED
  BY <1>1, <1>2, <1>4, <1>5, SenderReturns, SenderStartsLink

(* SendApdu sets out to send its APDU, or is refused.                      *)
LEMMA SenderAsked ==
  ASSUME UseSession, NEW apdu \in Apdus, SendApdu(apdu)
  PROVE  /\ SenderCall' /\ call.pc = "idle" /\ tx' = tx /\ OnTheWay' = <<>>
         /\ call'.pc # "write"
         /\ call'.pc \in Unbuilt => call'.unsent = EncodeLpdu(apdu)
<1>1. call.pc = "idle" /\ tx' = tx
  BY DEF SendApdu, Idle, Refuse, stream
<1>2. \/ \E op, status : Return(op, status)
      \/ call' = [Returned("SendApdu", "Pending") EXCEPT
                    !.pc = "send", !.unsent = EncodeLpdu(apdu)]
  BY DEF SendApdu, Refuse
<1>3. CASE call' = [Returned("SendApdu", "Pending") EXCEPT
                      !.pc = "send", !.unsent = EncodeLpdu(apdu)]
  <2>1. /\ call'.pc = "send" /\ call'.op = "SendApdu" /\ call'.unsent = EncodeLpdu(apdu)
        /\ call'.frame.kind = "DISC" /\ call'.frame.information = <<>>
    BY <1>3 DEF Returned, NoFrame, UFrame
  <2>2. QED
    BY <1>1, <2>1 DEF SenderCall, OnTheWay, Unbuilt, Unnumbered, Asking
<1>4. QED
  BY <1>1, <1>2, <1>3, SenderReturns DEF Unbuilt

-----------------------------------------------------------------------------
(* Either end as a receiver of unsegmented APDUs.                          *)

Unsegmented(f) == IF f.kind = "I" THEN ~f.segmented ELSE Unnumbered(f)

(* What a step does to the frames that have come and to the APDUs queued.  *)
ReceiverPasses ==
  /\ Thinned(Incoming, Incoming') /\ pendingApdus' = pendingApdus
  /\ session'.state = "Connected" => session.state = "Connected" /\ session'.vr = session.vr

ReceiverHears ==
  /\ Incoming # <<>> /\ Head(Incoming).kind # "I"
  /\ Incoming' = Tail(Incoming) /\ pendingApdus' = pendingApdus

ReceiverTakes ==
  /\ Incoming # <<>> /\ Head(Incoming).kind = "I" /\ Incoming' = Tail(Incoming)
  /\ session.state = "Connected" /\ Head(Incoming).ns = session.vr
  /\ session'.vr = (session.vr + 1) % SeqModulus
  /\ \/ pendingApdus' = pendingApdus
     \/ pendingApdus = <<>> /\ pendingApdus' = <<DecodeLpdu(Head(Incoming).information)>>

ReceiverHands ==
  /\ Incoming' = Incoming /\ session' = session
  /\ pendingApdus # <<>> /\ pendingApdus' = Tail(pendingApdus)

ReceiverEvent == ReceiverPasses \/ ReceiverHears \/ ReceiverTakes \/ ReceiverHands

LEMMA ReceiverKeepsOne ==
  ASSUME ChannelOK, OneApduPending, ReceiverEvent
  PROVE  OneApduPending'
<1>1. pendingApdus \in Seq(Information)
  BY DEF ChannelOK
<1>2. pendingApdus # <<>> => Len(Tail(pendingApdus)) = Len(pendingApdus) - 1
  BY <1>1, HeadTailProperties
<1>3. Len(pendingApdus) \in Nat
  BY <1>1, LenProperties
<1>4. CASE pendingApdus' = pendingApdus
  BY <1>4 DEF OneApduPending
<1>5. CASE \E x : pendingApdus' = <<x>>
  BY <1>5 DEF OneApduPending
<1>6. CASE pendingApdus # <<>> /\ pendingApdus' = Tail(pendingApdus)
  BY <1>2, <1>3, <1>6 DEF OneApduPending
<1>7. QED
  BY <1>4, <1>5, <1>6
     DEF ReceiverEvent, ReceiverPasses, ReceiverHears, ReceiverTakes, ReceiverHands

(* Nothing is read, and the session stays in or leaves its state.          *)
LEMMA ReceiverWaits ==
  ASSUME ReadOK, Incoming' = Incoming, pendingApdus' = pendingApdus,
         session'.state = "Connected" =>
           session.state = "Connected" /\ session'.vr = session.vr
  PROVE  ReceiverEvent
BY IncomingFrames, NothingLost DEF ReceiverEvent, ReceiverPasses

LEMMA ReceiverReadsNothing ==
  ASSUME ~LineNoise, ChannelOK, NEW status, NoFrameDecoded(status),
         session' = session, pendingApdus' = pendingApdus
  PROVE  ReceiverEvent
BY FailedReadTakesNone, ReceiverWaits DEF ChannelOK

(* The session takes an I-frame in only when it is in sequence.            *)
LEMMA InformationTaken ==
  ASSUME session \in Session, NEW f, f.kind = "I", NEW o \in ReceiveFrame(Role, session, f)
  PROVE  \/ o = Refused(session)
         \/ /\ o.status = "Ok" /\ session.state = "Connected" /\ f.ns = session.vr
            /\ o.session.state = "Connected"
            /\ o.session.vr = (session.vr + 1) % SeqModulus
<1>1. o \in ReceiveInformation(session, f)
  BY DEF ReceiveFrame
<1>2. \/ o = Refused(session)
      \/ /\ session.state = "Connected" /\ f.ns = session.vr
         /\ o = Accepted([session EXCEPT !.vr = (@ + 1) % SeqModulus, !.va = f.nr])
  BY <1>1 DEF ReceiveInformation
<1> DEFINE taken == [session EXCEPT !.vr = (@ + 1) % SeqModulus, !.va = f.nr]
<1>3. /\ taken.state = session.state
      /\ taken.vr = (session.vr + 1) % SeqModulus
  BY DEF Session
<1> HIDE DEF taken
<1>4. Accepted(taken).status = "Ok" /\ Accepted(taken).session = taken
  BY DEF Accepted
<1>5. QED
  BY <1>2, <1>3, <1>4 DEF taken

(* A frame that leads to no APDU in the queue.                             *)
LEMMA ReceiverReads ==
  ASSUME ChannelOK, FrameDecoded, pendingApdus' = pendingApdus,
         NEW o \in ReceiveFrame(Role, session, NextFrame),
         session' = o.session \/ session' = ConnectAnswer(o).session
  PROVE  ReceiverEvent
<1>1. /\ Incoming # <<>> /\ NextFrame = Head(Incoming) /\ Incoming' = Tail(Incoming)
      /\ Thinned(Incoming, Incoming') /\ session \in Session
  BY ReadTakesFirst, IncomingFrames, FirstTaken DEF ChannelOK
<1>2. CASE NextFrame.kind # "I"
  BY <1>1, <1>2 DEF ReceiverEvent, ReceiverHears
<1>3. CASE NextFrame.kind = "I" /\ o = Refused(session)
  <2>1. session' = session
    BY <1>3, RefusalIsNotOk DEF Refused, ConnectAnswer
  <2>2. QED
    BY <1>1, <2>1 DEF ReceiverEvent, ReceiverPasses
<1>4. CASE /\ NextFrame.kind = "I" /\ o.status = "Ok" /\ session.state = "Connected"
           /\ NextFrame.ns = session.vr /\ o.session.state = "Connected"
           /\ o.session.vr = (session.vr + 1) % SeqModulus
  <2>1. ConnectAnswer(o) = Refused(o.session)
    BY <1>4 DEF ConnectAnswer, BuildConnectResponse
  <2>2. session' = o.session
    BY <2>1 DEF Refused
  <2>3. QED
    BY <1>1, <1>4, <2>2 DEF ReceiverEvent, ReceiverTakes
<1>5. QED
  BY <1>1, <1>2, <1>3, <1>4, InformationTaken

LEMMA ReceiverAwaits ==
  ASSUME ~LineNoise, ChannelOK, segments = <<>>,
         AwaitConnectRequest \/ AwaitWindow \/ ReceiveSessionControlFrameWithRetry
  PROVE  ReceiverEvent /\ segments' = <<>>
<1>1. segments' = <<>> /\ pendingApdus' = pendingApdus
  BY DEF AwaitConnectRequest, AwaitWindow, ReceiveSessionControlFrameWithRetry
<1>2. \/ session' = session /\ \E s : NoFrameDecoded(s)
      \/ /\ FrameDecoded
         /\ \E o \in ReceiveFrame(Role, session, NextFrame) :
              session' = o.session \/ session' = ConnectAnswer(o).session
  BY DEF AwaitConnectRequest, AwaitWindow, ReceiveSessionControlFrameWithRetry
<1>3. QED
  BY <1>1, <1>2, ReceiverReadsNothing, ReceiverReads

LEMMA ReceiverBuilds ==
  ASSUME ChannelOK, segments = <<>>, BuildSessionInformationFrame
  PROVE  ReceiverEvent /\ segments' = <<>>
<1>1. Incoming' = Incoming /\ segments' = <<>> /\ pendingApdus' = pendingApdus /\ ReadOK
      /\ session' = BuildInformationFrame(session).session /\ session \in Session
  BY DEF BuildSessionInformationFrame, stream, buffers, Incoming, ChannelOK
<1>2. \/ session' = session
      \/ session' = [session EXCEPT !.vs = (@ + 1) % SeqModulus]
  BY <1>1 DEF BuildInformationFrame, Accepted, Refused
<1>3. session'.state = session.state /\ session'.vr = session.vr
  BY <1>1, <1>2 DEF Session
<1>4. QED
  BY <1>1, <1>3, ReceiverWaits

LEMMA ReceiverOnlyWaits ==
  ASSUME ChannelOK, segments = <<>>, WriteFrameBytes \/ SleepBeforeRetry
  PROVE  ReceiverEvent /\ segments' = <<>>
<1>1. Incoming' = Incoming /\ segments' = <<>> /\ pendingApdus' = pendingApdus
      /\ session' = session /\ ReadOK
  BY DEF WriteFrameBytes, SleepBeforeRetry, stream, buffers, Incoming, ChannelOK
<1>2. QED
  BY <1>1, ReceiverWaits

(* An unsegmented frame in the receive loop, with no APDU queued.          *)
LEMMA ReceiverLoops ==
  ASSUME ChannelOK, segments = <<>>, pendingApdus = <<>>, FrameDecoded,
         Unsegmented(NextFrame), ReceiveNumbered(NextFrame)
  PROVE  ReceiverEvent /\ segments' = <<>>
<1>1. /\ Incoming # <<>> /\ NextFrame = Head(Incoming) /\ Incoming' = Tail(Incoming)
      /\ Thinned(Incoming, Incoming') /\ session \in Session /\ NextFrame \in Frame
  BY ReadTakesFirst, IncomingFrames, FirstTaken, DecodingKeepsType DEF ChannelOK
<1>2. PICK p \in PushFrame(segments, NextFrame, ReassemblyLimit) :
        \/ /\ p.status = "Ok" /\ segments' = p.segments
           /\ ReceiveCompleted(p.completed, p.hasCompleted)
        \/ /\ NoApdu(p.status) /\ UNCHANGED session
           /\ segments' = IF p.status = "NeedMoreData" THEN p.segments ELSE <<>>
  BY DEF ReceiveNumbered
<1>3. \/ p.status \notin {"Ok", "NeedMoreData"}
      \/ p.status = "Ok" /\ p.segments = <<>> /\ p.completed = NextFrame
  <2>1. CASE NextFrame.kind = "I"
    BY <1>1, <2>1, WholeFrameIsHandedOn DEF Unsegmented
  <2>2. CASE NextFrame.kind # "I"
    BY <2>2, PassedOn
  <2>3. QED
    BY <2>1, <2>2
<1>4. CASE p.status \notin {"Ok", "NeedMoreData"}
  <2>1. session' = session /\ pendingApdus' = pendingApdus /\ segments' = <<>>
    BY <1>2, <1>4 DEF NoApdu
  <2>2. QED
    BY <1>1, <2>1 DEF ReceiverEvent, ReceiverPasses
<1>5. CASE p.status = "Ok" /\ p.segments = <<>> /\ p.completed = NextFrame
  <2>1. segments' = <<>> /\ ReceiveCompleted(NextFrame, p.hasCompleted)
    BY <1>2, <1>5 DEF NoApdu
  <2>2. PICK o \in ReceiveFrame(Role, session, NextFrame) :
          /\ session' = o.session
          /\ IF o.status # "Ok" THEN NoApdu(o.status)
             ELSE IF p.hasCompleted /\ NextFrame.information # <<>>
             THEN ReceiveLpdu(NextFrame.information, o.session)
             ELSE Goto("receive") /\ UNCHANGED pendingApdus
    BY <2>1 DEF ReceiveCompleted
  <2>3. CASE pendingApdus' = pendingApdus
    BY <1>1, <2>1, <2>2, <2>3, ReceiverReads
  <2>4. CASE pendingApdus' # pendingApdus
    <3>1. /\ o.status = "Ok" /\ NextFrame.information # <<>>
          /\ ReceiveLpdu(NextFrame.information, o.session)
      BY <2>2, <2>4 DEF NoApdu
    <3>2. "Ok" \in DecodeStatuses(NextFrame.information) /\ QueueApdu(NextFrame.information)
      BY <2>4, <3>1 DEF ReceiveLpdu, NoApdu
    <3>3. NextFrame.kind = "I"
      BY <3>1, <3>2, ParametersAreNoLpdu DEF Unsegmented, Unnumbered
    <3>4. pendingApdus' = <<DecodeLpdu(NextFrame.information)>>
      BY <3>2 DEF QueueApdu
    <3>5. o # Refused(session)
      BY <3>1, RefusalIsNotOk DEF Refused
    <3>6. /\ session.state = "Connected" /\ NextFrame.ns = session.vr
          /\ session'.vr = (session.vr + 1) % SeqModulus
      BY <1>1, <2>2, <3>3, <3>5, InformationTaken
    <3>7. QED
      BY <1>1, <2>1, <3>3, <3>4, <3>6 DEF ReceiverEvent, ReceiverTakes
  <2>5. QED
    BY <2>3, <2>4
<1>6. QED
  BY <1>3, <1>4, <1>5

LEMMA ReceiverReceives ==
  ASSUME UseSession, ~LineNoise, ChannelOK, segments = <<>>,
         Incoming # <<>> => Unsegmented(Head(Incoming)), ReceiveNextApdu
  PROVE  ReceiverEvent /\ segments' = <<>>
<1>1. pendingApdus = <<>> /\ ReadOK
  BY DEF ReceiveNextApdu, NeedsApdu, ChannelOK
<1>2. CASE /\ \E s \in ReadStatuses : NoFrameDecoded(s) /\ Return("ReceiveApdu", s)
           /\ UNCHANGED <<session, segments, pendingApdus>>
  BY <1>2, ReceiverReadsNothing
<1>3. CASE FrameDecoded /\ ReceiveNumbered(NextFrame)
  <2>1. Unsegmented(NextFrame)
    BY <1>1, <1>3, ReadTakesFirst
  <2>2. QED
    BY <1>1, <1>3, <2>1, ReceiverLoops
<1>4. QED
  BY <1>2, <1>3 DEF ReceiveNextApdu

LEMMA ReceiverCopies ==
  ASSUME ChannelOK, segments = <<>>, CopyFirstPendingApdu
  PROVE  ReceiverEvent /\ segments' = <<>>
<1>1. /\ session' = session /\ Incoming' = Incoming /\ segments' = segments /\ ReadOK
      /\ pendingApdus # <<>> /\ pendingApdus' \in {pendingApdus, Tail(pendingApdus)}
  BY DEF CopyFirstPendingApdu, TakeIf, stream, Incoming, ChannelOK
<1>2. CASE pendingApdus' = pendingApdus
  BY <1>1, <1>2, ReceiverWaits
<1>3. QED
  BY <1>1, <1>2 DEF ReceiverEvent, ReceiverHands

(* Every step of a call is one of the receiver's events.                   *)
LEMMA ReceiverSteps ==
  ASSUME UseSession, ~LineNoise, ChannelOK, segments = <<>>,
         Incoming # <<>> => Unsegmented(Head(Incoming)), Step
  PROVE  ReceiverEvent /\ segments' = <<>>
BY ReceiverAwaits, ReceiverBuilds, ReceiverOnlyWaits, ReceiverReceives, ReceiverCopies
   DEF Step

(* A call reads no frame, and leaves a link that is up as it is.           *)
LEMMA ReceiverCalls ==
  ASSUME UseSession, ChannelOK, segments = <<>>,
         DataLinkCall \/ (\E apdu : SendApdu(apdu)) \/ (\E capacity : ReceiveApdu(capacity))
  PROVE  ReceiverEvent /\ segments' = <<>>
<1>1. ReadOK /\ session \in Session
  BY DEF ChannelOK
<1>2. CASE /\ UNCHANGED <<rx, buffers>>
           /\ session' = session \/ session'.state # "Connected"
  <2>1. Incoming' = Incoming /\ segments' = <<>> /\ pendingApdus' = pendingApdus
    BY <1>2 DEF buffers, Incoming
  <2>2. QED
    BY <1>1, <1>2, <2>1, ReceiverWaits
<1>3. CASE /\ EnsureSession /\ pendingApdus' = pendingApdus
           /\ session' = EnsuredSession \/ session'.state # "Connected"
  <2>1. Thinned(Incoming, Incoming') /\ segments' = <<>>
    BY <1>1, <1>3, NewSessionDrops
  <2>2. session'.state = "Connected" => session' = session
    BY <1>3 DEF EnsuredSession, NewSession
  <2>3. QED
    BY <1>3, <2>1, <2>2 DEF ReceiverEvent, ReceiverPasses
<1>4. ASSUME NEW op, NEW status, Refuse(op, status)
      PROVE  UNCHANGED <<rx, buffers>> /\ session' = session
  BY <1>4 DEF Refuse, stream
<1>5. CASE ConnectDataLink
  <2>1. \A o \in BuildConnectRequest(EnsuredSession) :
          o.session = EnsuredSession \/ o.session.state # "Connected"
    BY DEF BuildConnectRequest, Accepted, Refused, InState, NewSession
  <2>2. QED
    BY <1>2, <1>3, <1>4, <1>5, <2>1 DEF ConnectDataLink
<1>6. CASE AcceptDataLink
  BY <1>2, <1>3, <1>4, <1>6 DEF AcceptDataLink
<1>7. CASE DisconnectDataLink
  <2>1. \A o \in BuildDisconnectRequest(session) :
          o.session = session \/ o.session.state # "Connected"
    BY <1>1 DEF BuildDisconnectRequest, Accepted, Refused, Session
  <2>2. QED
    BY <1>2, <1>4, <1>7, <2>1 DEF DisconnectDataLink, stream
<1>8. CASE \E apdu : SendApdu(apdu)
  BY <1>2, <1>4, <1>8 DEF SendApdu, stream
<1>9. CASE \E capacity : ReceiveApdu(capacity)
  BY <1>2, <1>4, <1>9 DEF ReceiveApdu, stream
<1>10. QED
  BY <1>5, <1>6, <1>7, <1>8, <1>9 DEF DataLinkCall
=============================================================================
