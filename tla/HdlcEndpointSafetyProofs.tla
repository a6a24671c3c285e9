---------------------- MODULE HdlcEndpointSafetyProofs ----------------------
(***************************************************************************)
(* The safety properties of HdlcEndpoint, proved for every value of its    *)
(* constants from inductive invariants of their own.                       *)
(***************************************************************************)
EXTENDS HdlcEndpointProofs

-----------------------------------------------------------------------------
(* Retries.  A frame about to be written was written at most once per      *)
(* attempt that is over, and a call sleeps only with attempts left: the    *)
(* counter is below its maximum when it is incremented and never wraps.    *)

RetryInv ==
  /\ call.attempt <= RetryCount
  /\ writes <= call.attempt + 1
  /\ call.pc \in {"write", "receive"} => writes <= call.attempt
  /\ call.pc = "retry" => call.attempt < RetryCount

(* A call that starts or returns has attempted nothing.                    *)
Fresh == call'.attempt = 0 /\ call'.pc # "retry" /\ writes' = 0

LEMMA FreshCall ==
  /\ \A op, status : Return(op, status) => Fresh
  /\ \A op : Enter(op, "accept") => Fresh
  /\ \A op, f, unsent : StartWrite(op, f, unsent) => Fresh
  /\ Fresh => RetryInv'
<1>1. 0 \in Nat /\ RetryCount \in Nat
  BY ChannelAssumption DEF ChannelAssumption
<1>2. ASSUME NEW op, NEW status, Return(op, status) PROVE Fresh
  BY <1>2 DEF Return, Returned, Fresh
<1>3. ASSUME NEW op, Enter(op, "accept") PROVE Fresh
  BY <1>3 DEF Enter, Returned, Fresh
<1>4. ASSUME NEW op, NEW f, NEW unsent, StartWrite(op, f, unsent) PROVE Fresh
  BY <1>4 DEF StartWrite, Returned, Fresh
<1>5. ASSUME Fresh PROVE RetryInv'
  BY <1>1, <1>5 DEF Fresh, RetryInv
<1>6. QED
  BY <1>2, <1>3, <1>4, <1>5

(* Every call of the application starts or returns.                        *)
LEMMA ApplicationIsFresh ==
  ASSUME Application
  PROVE  Fresh
<1>1. \A op, status : Refuse(op, status) => Fresh
  BY FreshCall DEF Refuse
<1>2. Open \/ Close => Fresh
  BY FreshCall DEF Open, Close
<1>3. DataLinkCall => Fresh
  BY <1>1, FreshCall DEF DataLinkCall, ConnectDataLink, AcceptDataLink, DisconnectDataLink
<1>4. \A apdu : SendApdu(apdu) => Fresh
  <2>1. SUFFICES ASSUME NEW apdu, SendApdu(apdu) PROVE Fresh
    OBVIOUS
  <2>2. CASE /\ call' = [Returned("SendApdu", "Pending") EXCEPT
                          !.pc = "send", !.unsent = EncodeLpdu(apdu)]
             /\ writes' = 0
    BY <2>2 DEF Returned, Fresh
  <2>3. QED
    BY <1>1, <2>1, <2>2, FreshCall DEF SendApdu
<1>5. \A capacity : ReceiveApdu(capacity) => Fresh
  <2>1. SUFFICES ASSUME NEW capacity, ReceiveApdu(capacity) PROVE Fresh
    OBVIOUS
  <2>2. CASE /\ call' = [Returned("ReceiveApdu", "Pending") EXCEPT
                          !.pc = "receive", !.capacity = capacity]
             /\ writes' = 0
    BY <2>2 DEF Returned, Fresh
  <2>3. QED
    BY <1>1, <2>1, <2>2 DEF ReceiveApdu
<1>6. QED
  BY <1>2, <1>3, <1>4, <1>5 DEF Application

(* A step that goes on elsewhere in the call keeps the counts.             *)
LEMMA GotoKeepsRetries ==
  ASSUME ChannelOK, RetryInv, NEW pc, Goto(pc),
         pc \in {"write", "receive"} => writes <= call.attempt,
         pc = "retry" => call.attempt < RetryCount
  PROVE  RetryInv'
BY DEF Goto, RetryInv, ChannelOK, CallOK, Call

LEMMA WriteKeepsRetries ==
  ASSUME ChannelOK, RetryInv, WriteFrameBytes
  PROVE  RetryInv'
<1>1. call.pc = "write" /\ writes <= call.attempt
  BY DEF WriteFrameBytes, RetryInv
<1>2. CallOK /\ call.attempt \in Nat /\ writes \in Nat /\ RetryCount \in Nat
  BY CallFields, ChannelAssumption DEF ChannelAssumption, CallOK
<1>3. CASE \E status : Return(call.op, status)
  BY <1>3, FreshCall
<1>4. CASE call' = [call EXCEPT !.pc = "receive", !.frame = NoFrame] /\ writes' = 0
  BY <1>2, <1>4 DEF RetryInv, CallOK, Call
<1>5. CASE call' = [call EXCEPT !.pc = "await"] /\ writes' = writes + 1
  BY <1>1, <1>2, <1>5 DEF RetryInv, CallOK, Call
<1>6. QED
  BY <1>3, <1>4, <1>5 DEF WriteFrameBytes, AfterWrite

LEMMA AwaitAnswerKeepsRetries ==
  ASSUME ChannelOK, RetryInv, ReceiveSessionControlFrameWithRetry
  PROVE  RetryInv'
<1>1. CASE \E status : AfterNoAnswer(status)
  <2>1. PICK status : AfterNoAnswer(status)
    BY <1>1
  <2>2. CASE Goto("retry") /\ call.attempt < RetryCount
    BY <2>2, GotoKeepsRetries
  <2>3. CASE Return(call.op, status)
    BY <2>3, FreshCall
  <2>4. QED
    BY <2>1, <2>2, <2>3 DEF AfterNoAnswer
<1>2. CASE AfterAnswer
  <2>1. Goto("send") => RetryInv'
    BY GotoKeepsRetries
  <2>2. QED
    BY <1>2, <2>1, FreshCall DEF AfterAnswer
<1>3. QED
  BY <1>1, <1>2 DEF ReceiveSessionControlFrameWithRetry

LEMMA SleepKeepsRetries ==
  ASSUME ChannelOK, RetryInv, SleepBeforeRetry
  PROVE  RetryInv'
<1>1. CASE /\ call' = [call EXCEPT !.pc = "write", !.attempt = (@ + 1) % CounterModulus]
           /\ UNCHANGED writes
  <2>1. /\ call.attempt \in Nat /\ writes \in Nat /\ call.attempt < RetryCount
        /\ writes <= call.attempt + 1
    BY CallFields DEF SleepBeforeRetry, RetryInv, CallOK
  <2>2. (call.attempt + 1) % CounterModulus = call.attempt + 1
    BY <2>1, ChannelAssumption DEF ChannelAssumption
  <2>3. call'.attempt = call.attempt + 1 /\ call'.pc = "write" /\ writes' = writes
    BY <1>1, <2>2, CallFields DEF Call
  <2>4. RetryCount \in Nat
    BY ChannelAssumption DEF ChannelAssumption
  <2>5. QED
    BY <2>1, <2>3, <2>4 DEF RetryInv
<1>2. QED
  BY <1>1, FreshCall DEF SleepBeforeRetry

(* How the receive loop leaves the call, whatever frame it decoded.        *)
LEMMA ReceiveLoopCall ==
  ASSUME ReceiveNextApdu
  PROVE  \/ \E status : Return("ReceiveApdu", status)
         \/ Goto("receive")
         \/ \E s : call' = [call EXCEPT !.pc = "write", !.frame = RRFrame(s)]
                  /\ UNCHANGED writes
<1> DEFINE Left == \/ \E status : Return("ReceiveApdu", status)
                   \/ Goto("receive")
                   \/ \E s : call' = [call EXCEPT !.pc = "write", !.frame = RRFrame(s)]
                            /\ UNCHANGED writes
<1>1. \A s : SendReceiveReady(s) => Left
  BY DEF SendReceiveReady
<1>2. \A status : NoApdu(status) => Left
  BY DEF NoApdu
<1>3. \A information, s : ReceiveLpdu(information, s) => Left
  BY <1>1, <1>2 DEF ReceiveLpdu
<1>4. \A f, has : ReceiveCompleted(f, has) => Left
  BY <1>2, <1>3 DEF ReceiveCompleted
<1>5. \A f : ReceiveNumbered(f) \/ ReceiveUnnumbered(f) => Left
  BY <1>2, <1>4 DEF ReceiveNumbered, ReceiveUnnumbered
<1>6. QED
  BY <1>5 DEF ReceiveNextApdu

LEMMA StepKeepsRetries ==
  ASSUME ChannelOK, RetryInv, Step
  PROVE  RetryInv'
<1>1. CASE AwaitConnectRequest
  BY <1>1, FreshCall DEF AwaitConnectRequest
<1>2. CASE AwaitWindow
  <2>1. Goto("build") => RetryInv'
    BY GotoKeepsRetries
  <2>2. QED
    BY <1>2, <2>1, FreshCall DEF AwaitWindow
<1>3. CASE BuildSessionInformationFrame
  BY <1>3, FreshCall DEF BuildSessionInformationFrame
<1>4. CASE WriteFrameBytes
  BY <1>4, WriteKeepsRetries
<1>5. CASE ReceiveSessionControlFrameWithRetry
  BY <1>5, AwaitAnswerKeepsRetries
<1>6. CASE SleepBeforeRetry
  BY <1>6, SleepKeepsRetries
<1>7. CASE ReceiveNextApdu
  <2>1. writes <= call.attempt
    BY <1>7 DEF ReceiveNextApdu, RetryInv
  <2>2. CASE Goto("receive")
    BY <2>1, <2>2, GotoKeepsRetries
  <2>3. CASE \E s : call' = [call EXCEPT !.pc = "write", !.frame = RRFrame(s)]
                   /\ UNCHANGED writes
    BY <2>1, <2>3, CallFields DEF RetryInv, Call
  <2>4. QED
    BY <1>7, <2>2, <2>3, ReceiveLoopCall, FreshCall
<1>8. CASE CopyFirstPendingApdu
  BY <1>8, FreshCall DEF CopyFirstPendingApdu
<1>9. QED
  BY <1>1, <1>2, <1>3, <1>4, <1>5, <1>6, <1>7, <1>8 DEF Step

(* However the answers and the failures come, a frame is written at most   *)
(* hdlcRetryCount + 1 times, for every retry count a uint8_t can hold.     *)
THEOREM RetriesBounded == Spec => []RetryBound
<1>1. Init => RetryInv
  BY ChannelAssumption DEF Init, ChannelInit, Returned, RetryInv, ChannelAssumption
<1>2. TypeInv /\ RetryInv /\ [Next]_vars => RetryInv'
  <2>1. SUFFICES ASSUME TypeInv, RetryInv, [Next]_vars PROVE RetryInv'
    OBVIOUS
  <2>2. CASE Application
    BY <2>2, ApplicationIsFresh, FreshCall
  <2>3. CASE Step
    BY <2>1, <2>3, StepKeepsRetries DEF TypeInv
  <2>4. CASE UNCHANGED <<call, writes>>
    BY <2>1, <2>4 DEF RetryInv
  <2>5. QED
    BY <2>1, <2>2, <2>3, <2>4 DEF Next, PeerSends, PeerReads, vars
<1>3. TypeInv /\ RetryInv => RetryBound
  <2>1. SUFFICES ASSUME TypeInv, RetryInv PROVE RetryBound
    OBVIOUS
  <2>2. writes \in Nat /\ call.attempt \in Nat /\ RetryCount \in Nat
    BY <2>1, CallFields, ChannelAssumption DEF TypeInv, CallOK, ChannelAssumption
  <2>3. QED
    BY <2>1, <2>2 DEF RetryInv, RetryBound
<1>4. QED
  BY <1>1, <1>2, <1>3, TypeInvariant, PTL DEF Spec

-----------------------------------------------------------------------------
(* Close.  A closed channel reads nothing, so its buffers stay empty.      *)

LEMMA ClosedReadsNothing ==
  ASSUME ~open, pendingHdlcFrames = <<>>
  PROVE  /\ ~FrameDecoded
         /\ \A s : NoFrameDecoded(s) => UNCHANGED <<partial, pendingHdlcFrames>>
BY DEF FrameDecoded, NoFrameDecoded

LEMMA ClosedApplication ==
  ASSUME ~open, ~open', Application
  PROVE  UNCHANGED buffers \/ ClearBuffers
<1>1. \A op, status : Refuse(op, status) => UNCHANGED buffers
  BY DEF Refuse
<1>2. LinkStatus("Client") # "Ok" /\ LinkStatus("Server") # "Ok"
  BY DEF LinkStatus
<1>3. Open => UNCHANGED buffers
  BY DEF Open
<1>4. Close => ClearBuffers
  BY DEF Close
<1>5. DataLinkCall => UNCHANGED buffers
  BY <1>1, <1>2 DEF DataLinkCall, ConnectDataLink, AcceptDataLink, DisconnectDataLink
<1>6. \A apdu : SendApdu(apdu) => UNCHANGED buffers
  BY <1>1 DEF SendApdu
<1>7. \A capacity : ReceiveApdu(capacity) => UNCHANGED buffers
  BY <1>1 DEF ReceiveApdu
<1>8. QED
  BY <1>3, <1>4, <1>5, <1>6, <1>7 DEF Application

LEMMA ClosedStep ==
  ASSUME ~open, NothingOutlivesClose, Step
  PROVE  UNCHANGED buffers
<1>1. /\ pendingHdlcFrames = <<>> /\ pendingApdus = <<>>
      /\ ~FrameDecoded
      /\ \A s : NoFrameDecoded(s) => UNCHANGED <<partial, pendingHdlcFrames>>
  BY ClosedReadsNothing DEF NothingOutlivesClose
<1>2. AwaitConnectRequest \/ AwaitWindow \/ ReceiveSessionControlFrameWithRetry
        => UNCHANGED buffers
  BY <1>1 DEF AwaitConnectRequest, AwaitWindow, ReceiveSessionControlFrameWithRetry, buffers
<1>3. BuildSessionInformationFrame \/ WriteFrameBytes \/ SleepBeforeRetry
        => UNCHANGED buffers
  BY DEF BuildSessionInformationFrame, WriteFrameBytes, SleepBeforeRetry
<1>4. ReceiveNextApdu => UNCHANGED buffers
  BY <1>1 DEF ReceiveNextApdu, buffers
<1>5. ~CopyFirstPendingApdu
  BY <1>1 DEF CopyFirstPendingApdu
<1>6. QED
  BY <1>2, <1>3, <1>4, <1>5 DEF Step

(* Whatever a call left half done when it failed, nothing of the old       *)
(* stream is there for the next one: Close is the only way to close, and   *)
(* no call fills a buffer of a closed channel.                             *)
THEOREM CloseClears == Spec => []NothingOutlivesClose
<1>1. Init => NothingOutlivesClose
  BY DEF Init, ChannelInit, NothingOutlivesClose
<1>2. NothingOutlivesClose /\ [Next]_vars => NothingOutlivesClose'
  <2>1. SUFFICES ASSUME NothingOutlivesClose, [Next]_vars, ~open'
                 PROVE  NothingOutlivesClose'
    BY DEF NothingOutlivesClose
  <2>2. CASE ClearBuffers
    BY <2>2 DEF ClearBuffers, NothingOutlivesClose
  <2>3. CASE ~open /\ UNCHANGED buffers
    BY <2>1, <2>3 DEF NothingOutlivesClose, buffers
  <2>4. CASE ~open
    <3>1. Application \/ Step => UNCHANGED buffers \/ ClearBuffers
      BY <2>1, <2>4, ClosedApplication, ClosedStep
    <3>2. QED
      BY <2>1, <2>2, <2>3, <2>4, <3>1 DEF Next, PeerSends, PeerReads, vars
  <2>5. CASE open
    <3>1. ~Step /\ ~PeerSends /\ ~PeerReads /\ ~UNCHANGED vars
      BY <2>1, <2>5
         DEF Step, AwaitConnectRequest, AwaitWindow, BuildSessionInformationFrame,
             WriteFrameBytes, ReceiveSessionControlFrameWithRetry, SleepBeforeRetry,
             ReceiveNextApdu, CopyFirstPendingApdu, PeerSends, PeerReads, vars, stream
    <3>2. ~Open
      BY <2>1, <2>5 DEF Open
    <3>3. ~DataLinkCall
      BY <2>1, <2>5
         DEF DataLinkCall, ConnectDataLink, AcceptDataLink, DisconnectDataLink, Refuse, stream
    <3>4. (\A apdu : ~SendApdu(apdu)) /\ (\A capacity : ~ReceiveApdu(capacity))
      BY <2>1, <2>5 DEF SendApdu, ReceiveApdu, Refuse, stream
    <3>5. Close
      BY <2>1, <3>1, <3>2, <3>3, <3>4 DEF Next, Application
    <3>6. QED
      BY <2>2, <3>5 DEF Close
  <2>6. QED
    BY <2>4, <2>5
<1>3. QED
  BY <1>1, <1>2, PTL DEF Spec

-----------------------------------------------------------------------------
(* The queue of APDUs.                                                     *)

(* Which steps touch the queue.                                            *)
LEMMA ApduQueueSteps ==
  ASSUME [Next]_vars
  PROVE  \/ UNCHANGED pendingApdus
         \/ Close
         \/ ReceiveNextApdu
         \/ CopyFirstPendingApdu
<1>1. \A op, status : Refuse(op, status) => UNCHANGED pendingApdus
  BY DEF Refuse, buffers
<1>2. Open => UNCHANGED pendingApdus
  BY DEF Open, buffers
<1>3. DataLinkCall => UNCHANGED pendingApdus
  BY <1>1 DEF DataLinkCall, ConnectDataLink, AcceptDataLink, DisconnectDataLink, buffers
<1>4. \A apdu : SendApdu(apdu) => UNCHANGED pendingApdus
  BY <1>1 DEF SendApdu, buffers
<1>5. \A capacity : ReceiveApdu(capacity) => UNCHANGED pendingApdus
  BY <1>1 DEF ReceiveApdu, buffers
<1>6. AwaitConnectRequest \/ AwaitWindow \/ ReceiveSessionControlFrameWithRetry
        => UNCHANGED pendingApdus
  BY DEF AwaitConnectRequest, AwaitWindow, ReceiveSessionControlFrameWithRetry
<1>7. BuildSessionInformationFrame \/ WriteFrameBytes \/ SleepBeforeRetry
        => UNCHANGED pendingApdus
  BY DEF BuildSessionInformationFrame, WriteFrameBytes, SleepBeforeRetry, buffers
<1>8. PeerSends \/ PeerReads => UNCHANGED pendingApdus
  BY DEF PeerSends, PeerReads, buffers
<1>9. QED
  BY <1>2, <1>3, <1>4, <1>5, <1>6, <1>7, <1>8 DEF Next, Application, Step, vars, buffers

(* The receive loop adds at most one APDU.                                 *)
LEMMA ReceiveLoopQueue ==
  ASSUME ReceiveNextApdu
  PROVE  UNCHANGED pendingApdus \/ \E a : pendingApdus' = Append(pendingApdus, a)
<1> DEFINE Grown == UNCHANGED pendingApdus \/ \E a : pendingApdus' = Append(pendingApdus, a)
<1>1. \A information : QueueApdu(information) => Grown
  BY DEF QueueApdu
<1>2. \A status : NoApdu(status) => Grown
  BY DEF NoApdu
<1>3. \A information, s : ReceiveLpdu(information, s) => Grown
  BY <1>1, <1>2 DEF ReceiveLpdu
<1>4. \A f, has : ReceiveCompleted(f, has) => Grown
  BY <1>2, <1>3 DEF ReceiveCompleted
<1>5. \A f : ReceiveNumbered(f) \/ ReceiveUnnumbered(f) => Grown
  BY <1>1, <1>2, <1>4 DEF ReceiveNumbered, ReceiveUnnumbered
<1>6. QED
  BY <1>5 DEF ReceiveNextApdu

(* One read may bring many frames; the loop stops at the first APDU, and   *)
(* the frames behind it wait undecoded.                                    *)
THEOREM AtMostOneApdu == Spec => []OneApduPending
<1>1. Init => OneApduPending
  BY EmptySeq DEF Init, ChannelInit, OneApduPending
<1>2. TypeInv /\ TypeInv' /\ OneApduPending /\ [Next]_vars => OneApduPending'
  <2>1. SUFFICES ASSUME TypeInv, TypeInv', OneApduPending, [Next]_vars
                 PROVE  OneApduPending'
    OBVIOUS
  <2>2. pendingApdus \in Seq(Information) /\ Len(pendingApdus) \in Nat
    BY <2>1, LenProperties DEF TypeInv, ChannelOK
  <2>3. CASE Close
    BY <2>3, EmptySeq DEF Close, ClearBuffers, OneApduPending
  <2>4. CASE ReceiveNextApdu
    <3>1. pendingApdus = <<>>
      BY <2>4 DEF ReceiveNextApdu, NeedsApdu
    <3>2. CASE \E a : pendingApdus' = Append(pendingApdus, a)
      <4>1. PICK a : pendingApdus' = <<a>>
        BY <3>1, <3>2
      <4>2. QED
        BY <4>1 DEF OneApduPending
    <3>3. QED
      BY <2>1, <2>4, <3>2, ReceiveLoopQueue DEF OneApduPending
  <2>5. CASE CopyFirstPendingApdu
    <3>1. Len(Tail(pendingApdus)) = Len(pendingApdus) - 1
      BY <2>2, <2>5, HeadTailProperties DEF CopyFirstPendingApdu
    <3>2. pendingApdus' = Tail(pendingApdus) \/ UNCHANGED pendingApdus
      BY <2>5 DEF CopyFirstPendingApdu, TakeIf
    <3>3. QED
      BY <2>1, <2>2, <3>1, <3>2 DEF OneApduPending
  <2>6. QED
    BY <2>1, <2>3, <2>4, <2>5, ApduQueueSteps DEF OneApduPending
<1>3. QED
  BY <1>1, <1>2, TypeInvariant, PTL DEF Spec

(* Nothing but a delivery that fits the caller's buffer, or Close, takes   *)
(* an APDU from the queue: an RR that fails, a new link or a too small     *)
(* buffer leaves it for the next ReceiveApdu.                              *)
THEOREM ApdusLeaveByDelivery == Spec => ApduLeavesByDelivery
<1> DEFINE Leaves ==
      pendingApdus # <<>> /\ pendingApdus' # pendingApdus =>
        \/ call'.op = "Close"
        \/ /\ call'.op = "ReceiveApdu" /\ call'.status = "Ok"
           /\ pendingApdus' = Tail(pendingApdus)
           /\ Len(Head(pendingApdus)) <= call.capacity
<1>1. [Next]_vars => Leaves
  <2>1. SUFFICES ASSUME [Next]_vars, pendingApdus # <<>>, pendingApdus' # pendingApdus
                 PROVE  \/ call'.op = "Close"
                        \/ /\ call'.op = "ReceiveApdu" /\ call'.status = "Ok"
                           /\ pendingApdus' = Tail(pendingApdus)
                           /\ Len(Head(pendingApdus)) <= call.capacity
    OBVIOUS
  <2>2. CASE Close
    BY <2>2 DEF Close, Return, Returned
  <2>3. CASE CopyFirstPendingApdu
    <3>1. Len(Head(pendingApdus)) <= call.capacity
      BY <2>1, <2>3 DEF CopyFirstPendingApdu, TakeIf
    <3>2. pendingApdus' = Tail(pendingApdus) /\ Return("ReceiveApdu", "Ok")
      BY <2>3, <3>1 DEF CopyFirstPendingApdu, TakeIf
    <3>3. QED
      BY <3>1, <3>2 DEF Return, Returned
  <2>4. ~ReceiveNextApdu
    BY <2>1 DEF ReceiveNextApdu, NeedsApdu
  <2>5. QED
    BY <2>1, <2>2, <2>3, <2>4, ApduQueueSteps
<1>2. QED
  BY <1>1, PTL DEF Spec, ApduLeavesByDelivery

-----------------------------------------------------------------------------
(* The frame in the call and the session.                                  *)

(* A received frame brings a session up only from Connecting, and leaves   *)
(* V(S) of a session that stays up.                                        *)
Follows(s, t) ==
  /\ t.state = "Connecting" => s.state = "Connecting"
  /\ t.state = "Connected" => \/ s.state = "Connecting"
                              \/ s.state = "Connected" /\ t.vs = s.vs

LEMMA ReceivedFollows ==
  ASSUME NEW s \in Session, NEW f, NEW role, NEW o \in ReceiveFrame(role, s, f)
  PROVE  Follows(s, o.session)
<1>1. Follows(s, s)
  BY DEF Follows
<1>2. \A x \in Unexpected(s) : Follows(s, x.session)
  BY <1>1 DEF Unexpected, Accepted, Refused
<1>3. \A x \in ReceiveInformation(s, f) : Follows(s, x.session)
  <2>1. s.state = "Connected"
          => Follows(s, [s EXCEPT !.vr = (@ + 1) % SeqModulus, !.va = f.nr])
    BY DEF Follows, Session
  <2>2. QED
    BY <1>1, <2>1 DEF ReceiveInformation, Accepted, Refused
<1>4. \A x \in ReceiveReady(s, f) : Follows(s, x.session)
  BY <1>1, <1>2 DEF ReceiveReady, Accepted, Refused, Follows, Session
<1>5. Follows(s, InState("ConnectRequested")) /\ Follows(s, NewSession)
  BY DEF Follows, InState, NewSession
<1>6. s.state = "Connecting" => Follows(s, InState("Connected"))
  BY DEF Follows, InState, NewSession
<1>7. QED
  BY <1>2, <1>3, <1>4, <1>5, <1>6 DEF ReceiveFrame, Accepted

(* While an I-frame waits for its answer no set-up is under way, and the   *)
(* frame has the number before V(S) as long as the link is up.             *)
RepeatInv ==
  call.frame.kind = "I" =>
    /\ session.state # "Connecting"
    /\ session.state = "Connected" => (call.frame.ns + 1) % SeqModulus = session.vs

LEMMA FrameKinds ==
  /\ \A op, status : Return(op, status) => call'.frame.kind # "I"
  /\ \A op, f, unsent : StartWrite(op, f, unsent) => call'.frame = f
  /\ \A op, pc : Enter(op, pc) => call'.frame.kind # "I"
  /\ \A kind \in {"SNRM", "UA", "DISC"} : UFrame(kind).kind # "I"
  /\ \A i : UIFrame(i).kind # "I"
  /\ \A s : RRFrame(s).kind # "I"
<1>1. \A kind \in {"SNRM", "UA", "DISC"} : UFrame(kind).kind # "I"
  BY DEF UFrame
<1>2. \A op, status : Returned(op, status).frame.kind # "I"
  BY <1>1 DEF Returned, NoFrame
<1>3. ASSUME NEW op, NEW f, NEW unsent, StartWrite(op, f, unsent)
      PROVE  call'.frame = f
  BY <1>3 DEF StartWrite, Returned
<1>4. ASSUME NEW op, NEW pc, Enter(op, pc)
      PROVE  call'.frame.kind # "I"
  BY <1>1, <1>4 DEF Enter, Returned, NoFrame
<1>5. QED
  BY <1>1, <1>2, <1>3, <1>4 DEF Return, UIFrame, RRFrame

(* A call of the application leaves no I-frame: SendApdu builds its frames *)
(* in later steps.                                                         *)
LEMMA ApplicationHasNoIFrame ==
  ASSUME Application
  PROVE  call'.frame.kind # "I"
<1>1. \A op, status : Refuse(op, status) => call'.frame.kind # "I"
  BY FrameKinds DEF Refuse
<1>2. Open \/ Close => call'.frame.kind # "I"
  BY FrameKinds DEF Open, Close
<1>3. ConnectDataLink => call'.frame.kind # "I"
  BY <1>1, FrameKinds DEF ConnectDataLink
<1>4. AcceptDataLink \/ DisconnectDataLink => call'.frame.kind # "I"
  BY <1>1, FrameKinds DEF AcceptDataLink, DisconnectDataLink
<1>5. \A op, status : Returned(op, status).frame.kind # "I"
  BY DEF Returned, NoFrame, UFrame
<1>6. ASSUME NEW apdu, SendApdu(apdu) PROVE call'.frame.kind # "I"
  <2>1. CASE call' = [Returned("SendApdu", "Pending") EXCEPT
                        !.pc = "send", !.unsent = EncodeLpdu(apdu)]
    BY <1>5, <2>1 DEF Returned
  <2>2. QED
    BY <1>1, <1>6, <2>1, FrameKinds DEF SendApdu
<1>7. ASSUME NEW capacity, ReceiveApdu(capacity) PROVE call'.frame.kind # "I"
  <2>1. CASE call' = [Returned("ReceiveApdu", "Pending") EXCEPT
                        !.pc = "receive", !.capacity = capacity]
    BY <1>5, <2>1 DEF Returned
  <2>2. QED
    BY <1>1, <1>7, <2>1 DEF ReceiveApdu
<1>8. QED
  BY <1>2, <1>3, <1>4, <1>6, <1>7 DEF Application, DataLinkCall

(* A session that is unchanged or was given a frame.                       *)
LEMMA FollowsItself ==
  ASSUME session' = session
  PROVE  Follows(session, session')
BY DEF Follows

LEMMA LoopFollows ==
  ASSUME session \in Session, ReceiveNextApdu
  PROVE  Follows(session, session')
<1>1. ASSUME NEW f, NEW has, ReceiveCompleted(f, has) PROVE Follows(session, session')
  BY <1>1, ReceivedFollows DEF ReceiveCompleted
<1>2. ASSUME NEW f, ReceiveNumbered(f) PROVE Follows(session, session')
  BY <1>1, <1>2, FollowsItself DEF ReceiveNumbered
<1>3. ASSUME NEW f, ReceiveUnnumbered(f) PROVE Follows(session, session')
  BY <1>3, FollowsItself DEF ReceiveUnnumbered
<1>4. QED
  BY <1>2, <1>3, FollowsItself DEF ReceiveNextApdu

LEMMA BuildKeepsRepeat ==
  ASSUME ChannelOK, BuildSessionInformationFrame
  PROVE  RepeatInv'
<1> DEFINE built == BuildInformationFrame(session)
<1>1. session \in Session
  BY DEF ChannelOK
<1>2. CASE built.status = "Ok"
  <2>1. built.session = [session EXCEPT !.vs = (@ + 1) % SeqModulus]
        /\ session.state = "Connected"
    BY <1>2 DEF BuildInformationFrame, Accepted, Refused, Refusal
  <2>2. call'.frame = ChunkFrame(session, call.unsent) /\ session' = built.session
    BY <1>2, FrameKinds DEF BuildSessionInformationFrame
  <2>3. call'.frame.ns = session.vs
    BY <2>2 DEF ChunkFrame, IFrame
  <2>4. session'.vs = (session.vs + 1) % SeqModulus /\ session'.state = "Connected"
    BY <1>1, <2>1, <2>2 DEF Session
  <2>5. QED
    BY <2>3, <2>4 DEF RepeatInv
<1>3. CASE built.status # "Ok"
  BY <1>3, FrameKinds DEF BuildSessionInformationFrame, RepeatInv
<1>4. QED
  BY <1>2, <1>3

LEMMA StepKeepsRepeat ==
  ASSUME ChannelOK, RepeatInv, Step
  PROVE  RepeatInv'
<1>1. call \in Call /\ session \in Session
  BY CallFields DEF ChannelOK
<1>2. CASE call'.frame.kind # "I"
  BY <1>2 DEF RepeatInv
<1>3. CASE call'.frame = call.frame /\ Follows(session, session')
  BY <1>3 DEF RepeatInv, Follows
<1>4. \A pc : Goto(pc) => call'.frame = call.frame
  BY <1>1 DEF Goto, Call
<1>5. CASE AwaitConnectRequest
  BY <1>2, <1>5, FrameKinds DEF AwaitConnectRequest
<1>6. CASE AwaitWindow
  <2>1. Follows(session, session')
    BY <1>1, <1>6, ReceivedFollows, FollowsItself DEF AwaitWindow
  <2>2. call'.frame.kind # "I" \/ call'.frame = call.frame
    BY <1>4, <1>6, FrameKinds DEF AwaitWindow
  <2>3. QED
    BY <1>2, <1>3, <2>1, <2>2
<1>7. CASE BuildSessionInformationFrame
  BY <1>7, BuildKeepsRepeat
<1>8. CASE WriteFrameBytes
  <2>1. Follows(session, session')
    BY <1>8, FollowsItself DEF WriteFrameBytes
  <2>2. \/ call' = [call EXCEPT !.pc = "receive", !.frame = NoFrame]
        \/ call' = [call EXCEPT !.pc = "await"]
        \/ \E status : Return(call.op, status)
    BY <1>8 DEF WriteFrameBytes, AfterWrite
  <2>3. call'.frame.kind # "I" \/ call'.frame = call.frame
    BY <1>1, <2>2, FrameKinds DEF Call, NoFrame
  <2>4. QED
    BY <1>2, <1>3, <2>1, <2>3
<1>9. CASE ReceiveSessionControlFrameWithRetry
  <2>1. Follows(session, session')
    BY <1>1, <1>9, ReceivedFollows, FollowsItself DEF ReceiveSessionControlFrameWithRetry
  <2>2. call'.frame.kind # "I" \/ call'.frame = call.frame
    BY <1>4, <1>9, FrameKinds
       DEF ReceiveSessionControlFrameWithRetry, AfterAnswer, AfterNoAnswer
  <2>3. QED
    BY <1>2, <1>3, <2>1, <2>2
<1>10. CASE SleepBeforeRetry
  <2>1. Follows(session, session')
    BY <1>10, FollowsItself DEF SleepBeforeRetry
  <2>2. call'.frame.kind # "I" \/ call'.frame = call.frame
    BY <1>1, <1>10, FrameKinds DEF SleepBeforeRetry, Call
  <2>3. QED
    BY <1>2, <1>3, <2>1, <2>2
<1>11. CASE ReceiveNextApdu
  <2>1. Follows(session, session')
    BY <1>1, <1>11, LoopFollows
  <2>2. call'.frame.kind # "I" \/ call'.frame = call.frame
    <3>1. ASSUME NEW s, call' = [call EXCEPT !.pc = "write", !.frame = RRFrame(s)]
          PROVE  call'.frame.kind # "I"
      <4>1. call'.frame = RRFrame(s)
        BY <1>1, <3>1 DEF Call
      <4>2. QED
        BY <4>1, FrameKinds
    <3>2. QED
      BY <1>4, <1>11, <3>1, ReceiveLoopCall, FrameKinds
  <2>3. QED
    BY <1>2, <1>3, <2>1, <2>2
<1>12. CASE CopyFirstPendingApdu
  BY <1>2, <1>12, FrameKinds DEF CopyFirstPendingApdu
<1>13. QED
  BY <1>5, <1>6, <1>7, <1>8, <1>9, <1>10, <1>11, <1>12 DEF Step

(* SendApdu repeats the frame it built, byte for byte, and no received     *)
(* frame moves V(S) under it: the number on the line is the session's.     *)
THEOREM RepeatsLastFrame == Spec => []RepeatedFrameIsLastBuilt
<1>1. Init => RepeatInv
  BY DEF Init, ChannelInit, Returned, NoFrame, UFrame, RepeatInv
<1>2. TypeInv /\ RepeatInv /\ [Next]_vars => RepeatInv'
  <2>1. SUFFICES ASSUME TypeInv, RepeatInv, [Next]_vars PROVE RepeatInv'
    OBVIOUS
  <2>2. CASE Application
    BY <2>2, ApplicationHasNoIFrame DEF RepeatInv
  <2>3. CASE Step
    BY <2>1, <2>3, StepKeepsRepeat DEF TypeInv
  <2>4. CASE UNCHANGED <<call, session>>
    BY <2>1, <2>4 DEF RepeatInv
  <2>5. QED
    BY <2>1, <2>2, <2>3, <2>4 DEF Next, PeerSends, PeerReads, vars
<1>3. RepeatInv => RepeatedFrameIsLastBuilt
  BY DEF RepeatInv, RepeatedFrameIsLastBuilt
<1>4. QED
  BY <1>1, <1>2, <1>3, TypeInvariant, PTL DEF Spec

-----------------------------------------------------------------------------
(* The result of a call for the data link, and the session.                *)

LinkCalls == {"ConnectDataLink", "AcceptDataLink", "DisconnectDataLink"}

(* A call for the link writes, waits and retries in the one state of the   *)
(* session from which the answer it waits for leads where Ok promises.     *)
LinkInv ==
  /\ LinkResultMatchesSession
  /\ call.op = "ConnectDataLink" /\ ~Idle =>
       /\ call.pc \in {"write", "await", "retry"} /\ call.unsent = <<>>
       /\ session.state = "Connecting" /\ Role = "Client"
  /\ call.op = "AcceptDataLink" /\ ~Idle =>
       /\ call.pc \in {"accept", "write"}
       /\ call.pc = "write" => session.state = "Connected"
  /\ call.op = "DisconnectDataLink" /\ ~Idle =>
       /\ call.pc \in {"write", "await", "retry"} /\ call.unsent = <<>>
       /\ session.state = "Disconnecting"

(* A call that is none of them, or has failed, promises nothing.           *)
LEMMA NothingPromised ==
  /\ call'.op \notin LinkCalls => LinkInv'
  /\ \A op, status : Return(op, status) /\ status # "Ok" => LinkInv'
<1>1. call'.op \notin LinkCalls => LinkInv'
  BY DEF LinkCalls, LinkInv, LinkResultMatchesSession
<1>2. ASSUME NEW op, NEW status, Return(op, status), status # "Ok" PROVE LinkInv'
  BY <1>2 DEF Return, Returned, LinkInv, LinkResultMatchesSession, Idle
<1>3. QED
  BY <1>1, <1>2

LEMMA OperationOfCall ==
  /\ \A op, status : Return(op, status) => call'.op = op
  /\ \A op, f, unsent : StartWrite(op, f, unsent) =>
       call'.op = op /\ call'.pc = "write" /\ call'.unsent = unsent
  /\ \A op, pc : Enter(op, pc) => call'.op = op /\ call'.pc = pc
  /\ \A pc : ChannelOK /\ Goto(pc) =>
       call'.op = call.op /\ call'.pc = pc /\ call'.unsent = call.unsent
<1>1. ASSUME NEW pc, ChannelOK, Goto(pc)
      PROVE  call'.op = call.op /\ call'.pc = pc /\ call'.unsent = call.unsent
  BY <1>1, CallFields DEF ChannelOK, Goto, Call
<1>2. ASSUME NEW op, NEW status, Return(op, status) PROVE call'.op = op
  BY <1>2 DEF Return, Returned
<1>3. ASSUME NEW op, NEW f, NEW unsent, StartWrite(op, f, unsent)
      PROVE  call'.op = op /\ call'.pc = "write" /\ call'.unsent = unsent
  BY <1>3 DEF StartWrite, Returned
<1>4. ASSUME NEW op, NEW pc, Enter(op, pc) PROVE call'.op = op /\ call'.pc = pc
  BY <1>4 DEF Enter, Returned
<1>5. QED
  BY <1>1, <1>2, <1>3, <1>4

LEMMA ReadStatusesFail == "Ok" \notin ReadStatuses \cup SleepFailures \cup WriteFailures
BY ChannelAssumption DEF ChannelAssumption, ReadStatuses, Refusal

(* What an answer to SNRM or to DISC does to the session that waits.       *)
LEMMA AnswerToRequest ==
  ASSUME NEW role, NEW s \in Session, NEW f, NEW o \in ReceiveFrame(role, s, f)
  PROVE  /\ s.state = "Connecting" /\ role = "Client" /\ ~Lenient =>
              IF o.status = "Ok" THEN o.session.state = "Connected" ELSE o.session = s
         /\ s.state = "Disconnecting" =>
              IF o.status = "Ok" THEN o.session.state # "Connected" ELSE o.session = s
<1>1. \A x \in Unexpected(s) :
        IF x.status = "Ok" THEN Lenient /\ x.session = s ELSE x.session = s
  BY DEF Unexpected, Accepted, Refused, Refusal
<1>2. s.state # "Connected" =>
        /\ ReceiveInformation(s, f) = {Refused(s)}
        /\ ReceiveReady(s, f) = Unexpected(s)
  BY DEF ReceiveInformation, ReceiveReady
<1>3. /\ Refused(s).status # "Ok" /\ Refused(s).session = s
      /\ \A t : Accepted(t).status = "Ok" /\ Accepted(t).session = t
  BY DEF Refused, Accepted, Refusal
<1>4. /\ InState("ConnectRequested").state = "ConnectRequested"
      /\ InState("Connected").state = "Connected"
      /\ NewSession.state = "Disconnected"
  BY DEF InState, NewSession
<1>5. CASE s.state = "Connecting"
  BY <1>1, <1>2, <1>3, <1>4, <1>5 DEF ReceiveFrame
<1>6. CASE s.state = "Disconnecting"
  BY <1>1, <1>2, <1>3, <1>4, <1>6 DEF ReceiveFrame
<1>7. QED
  BY <1>5, <1>6

LEMMA ApplicationKeepsLink ==
  ASSUME ChannelOK, Application
  PROVE  LinkInv'
<1>1. \A op, status : Refuse(op, status) => LinkInv'
  BY NothingPromised DEF Refuse
<1>2. CASE Open \/ Close
  BY <1>2, NothingPromised, OperationOfCall DEF Open, Close, LinkCalls
<1>3. CASE ConnectDataLink
  <2>1. SUFFICES ASSUME LinkStatus("Client") = "Ok",
                        NEW o \in BuildConnectRequest(EnsuredSession),
                        session' = o.session, o.status = "Ok",
                        StartWrite("ConnectDataLink", UFrame("SNRM"), <<>>)
                 PROVE  LinkInv'
    BY <1>1, <1>3, NothingPromised DEF ConnectDataLink
  <2>2. Role = "Client"
    BY <2>1 DEF LinkStatus
  <2>3. session'.state = "Connecting"
    BY <2>1 DEF BuildConnectRequest, Accepted, Refused, Refusal, InState, NewSession
  <2>4. call'.op = "ConnectDataLink" /\ call'.pc = "write" /\ call'.unsent = <<>>
    BY <2>1, OperationOfCall
  <2>5. QED
    BY <2>2, <2>3, <2>4 DEF LinkInv, LinkResultMatchesSession, Idle
<1>4. CASE AcceptDataLink
  <2>1. SUFFICES ASSUME Enter("AcceptDataLink", "accept") PROVE LinkInv'
    BY <1>1, <1>4 DEF AcceptDataLink
  <2>2. call'.op = "AcceptDataLink" /\ call'.pc = "accept"
    BY <2>1, OperationOfCall
  <2>3. QED
    BY <2>2 DEF LinkInv, LinkResultMatchesSession, Idle
<1>5. CASE DisconnectDataLink
  <2>1. SUFFICES ASSUME NEW o \in BuildDisconnectRequest(session),
                        session' = o.session, o.status = "Ok",
                        StartWrite("DisconnectDataLink", UFrame("DISC"), <<>>)
                 PROVE  LinkInv'
    BY <1>1, <1>5, NothingPromised DEF DisconnectDataLink
  <2>2. session'.state = "Disconnecting"
    <3>1. session \in Session
      BY DEF ChannelOK
    <3>2. [session EXCEPT !.state = "Disconnecting"].state = "Disconnecting"
      BY <3>1 DEF Session
    <3>3. /\ \A t : Accepted(t).session = t
          /\ Refused(session).status # "Ok"
      BY DEF Accepted, Refused, Refusal
    <3>4. CASE session.state = "Connected"
      <4>1. o = Accepted([session EXCEPT !.state = "Disconnecting"])
        BY <2>1, <3>4 DEF BuildDisconnectRequest
      <4>2. QED
        BY <2>1, <3>2, <3>3, <4>1
    <3>5. CASE session.state = "Disconnecting"
      <4>1. o \in {Accepted(session), Refused(session)}
        BY <2>1, <3>5 DEF BuildDisconnectRequest
      <4>2. QED
        BY <2>1, <3>3, <3>5, <4>1
    <3>6. CASE session.state \notin {"Connected", "Disconnecting"}
      <4>1. o = Refused(session)
        BY <2>1, <3>6 DEF BuildDisconnectRequest
      <4>2. QED
        BY <2>1, <3>3, <4>1
    <3>7. QED
      BY <3>4, <3>5, <3>6
  <2>3. call'.op = "DisconnectDataLink" /\ call'.pc = "write" /\ call'.unsent = <<>>
    BY <2>1, OperationOfCall
  <2>4. QED
    BY <2>2, <2>3 DEF LinkInv, LinkResultMatchesSession, Idle
<1>6. ASSUME NEW apdu, SendApdu(apdu) PROVE LinkInv'
  <2>1. CASE call' = [Returned("SendApdu", "Pending") EXCEPT
                        !.pc = "send", !.unsent = EncodeLpdu(apdu)]
    BY <2>1, NothingPromised DEF Returned, LinkCalls
  <2>2. QED
    BY <1>1, <1>6, <2>1, NothingPromised, OperationOfCall DEF SendApdu, LinkCalls
<1>7. ASSUME NEW capacity, ReceiveApdu(capacity) PROVE LinkInv'
  <2>1. CASE call' = [Returned("ReceiveApdu", "Pending") EXCEPT
                        !.pc = "receive", !.capacity = capacity]
    BY <2>1, NothingPromised DEF Returned, LinkCalls
  <2>2. QED
    BY <1>1, <1>7, <2>1 DEF ReceiveApdu
<1>8. QED
  BY <1>2, <1>3, <1>4, <1>5, <1>6, <1>7 DEF Application, DataLinkCall

LEMMA AnswerKeepsLink ==
  ASSUME ~Lenient \/ Role = "Server", ChannelOK, LinkInv, ReceiveSessionControlFrameWithRetry
  PROVE  LinkInv'
<1>1. call.pc = "await" /\ ~Idle /\ session \in Session /\ call.op # "AcceptDataLink"
  BY DEF ReceiveSessionControlFrameWithRetry, LinkInv, Idle, ChannelOK
<1>2. \A status : AfterNoAnswer(status) => call'.op = call.op
  BY OperationOfCall DEF AfterNoAnswer
<1>3. AfterAnswer => call'.op = call.op
  BY OperationOfCall DEF AfterAnswer
<1>4. CASE call.op \notin LinkCalls
  <2>1. call'.op = call.op
    BY <1>2, <1>3 DEF ReceiveSessionControlFrameWithRetry
  <2>2. QED
    BY <1>4, <2>1, NothingPromised
<1>5. CASE call.op \in LinkCalls
  <2>1. /\ call.op \in {"ConnectDataLink", "DisconnectDataLink"} /\ call.unsent = <<>>
        /\ call.op = "ConnectDataLink" =>
             session.state = "Connecting" /\ Role = "Client" /\ ~Lenient
        /\ call.op = "DisconnectDataLink" => session.state = "Disconnecting"
    BY <1>1, <1>5 DEF LinkInv, LinkCalls
  <2>2. ASSUME NEW status, AfterNoAnswer(status), status # "Ok", session' = session
        PROVE  LinkInv'
    <3>1. CASE Return(call.op, status)
      BY <2>2, <3>1, NothingPromised
    <3>2. CASE Goto("retry")
      <4>1. call'.op = call.op /\ call'.pc = "retry" /\ call'.unsent = <<>>
        BY <2>1, <3>2, OperationOfCall
      <4>2. QED
        BY <2>1, <2>2, <4>1 DEF LinkInv, LinkResultMatchesSession, Idle
    <3>3. QED
      BY <2>2, <3>1, <3>2 DEF AfterNoAnswer
  <2>3. CASE \E s \in ReadStatuses : AfterNoAnswer(s) /\ UNCHANGED session
    BY <2>2, <2>3, ReadStatusesFail
  <2>4. CASE \E o \in ReceiveFrame(Role, session, NextFrame) :
               /\ session' = o.session
               /\ IF o.status = "Ok" THEN AfterAnswer ELSE AfterNoAnswer(o.status)
    <3>1. PICK o \in ReceiveFrame(Role, session, NextFrame) :
            /\ session' = o.session
            /\ IF o.status = "Ok" THEN AfterAnswer ELSE AfterNoAnswer(o.status)
      BY <2>4
    <3>2. /\ call.op = "ConnectDataLink" =>
               IF o.status = "Ok" THEN o.session.state = "Connected" ELSE o.session = session
          /\ call.op = "DisconnectDataLink" =>
               IF o.status = "Ok" THEN o.session.state # "Connected" ELSE o.session = session
      BY <1>1, <2>1, AnswerToRequest
    <3>3. CASE o.status = "Ok"
      <4>1. Return(call.op, "Ok")
        BY <2>1, <3>1, <3>3 DEF AfterAnswer
      <4>2. call'.op = call.op /\ call'.pc = "idle"
        BY <4>1 DEF Return, Returned
      <4>3. QED
        BY <2>1, <3>1, <3>2, <3>3, <4>2 DEF LinkInv, LinkResultMatchesSession, Idle
    <3>4. CASE o.status # "Ok"
      <4>1. session' = session /\ AfterNoAnswer(o.status)
        BY <2>1, <3>1, <3>2, <3>4
      <4>2. QED
        BY <2>2, <3>4, <4>1
    <3>5. QED
      BY <3>3, <3>4
  <2>5. QED
    BY <2>3, <2>4 DEF ReceiveSessionControlFrameWithRetry
<1>6. QED
  BY <1>4, <1>5

LEMMA StepKeepsLink ==
  ASSUME ~Lenient \/ Role = "Server", ChannelOK, LinkInv, Step
  PROVE  LinkInv'
<1>1. call \in Call
  BY CallFields DEF ChannelOK
<1>2. CASE AwaitConnectRequest
  <2>1. SUFFICES ASSUME NEW o \in ReceiveFrame(Role, session, NextFrame),
                        o.status = "Ok",
                        BuildConnectResponse(o.session).status = "Ok",
                        session' = BuildConnectResponse(o.session).session,
                        StartWrite("AcceptDataLink", UFrame("UA"), <<>>)
                 PROVE  LinkInv'
    BY <1>2, NothingPromised, ReadStatusesFail DEF AwaitConnectRequest, ConnectAnswer
  <2>2. session'.state = "Connected"
    BY <2>1 DEF BuildConnectResponse, Accepted, Refused, Refusal, InState, NewSession
  <2>3. call'.op = "AcceptDataLink" /\ call'.pc = "write"
    BY <2>1, OperationOfCall
  <2>4. QED
    BY <2>2, <2>3 DEF LinkInv, LinkResultMatchesSession, Idle
<1>3. CASE AwaitWindow
  <2>1. call.op \notin LinkCalls
    BY <1>3 DEF AwaitWindow, LinkInv, LinkCalls, Idle
  <2>2. call'.op \in {"SendApdu", call.op}
    BY <1>3, OperationOfCall DEF AwaitWindow
  <2>3. QED
    BY <2>1, <2>2, NothingPromised DEF LinkCalls
<1>4. CASE BuildSessionInformationFrame
  BY <1>4, NothingPromised, OperationOfCall DEF BuildSessionInformationFrame, LinkCalls
<1>5. CASE WriteFrameBytes
  <2>1. CASE \E s \in {"NotOpen"} \cup WriteFailures : Return(call.op, s)
    BY <2>1, NothingPromised, ReadStatusesFail
  <2>2. CASE AfterWrite /\ call.op = "AcceptDataLink"
    <3>1. call'.op = "AcceptDataLink" /\ call'.pc = "idle"
      BY <2>2 DEF AfterWrite, Return, Returned
    <3>2. session'.state = "Connected"
      BY <1>5, <2>2 DEF WriteFrameBytes, LinkInv, Idle
    <3>3. QED
      BY <3>1, <3>2 DEF LinkInv, LinkResultMatchesSession, Idle
  <2>3. CASE AfterWrite /\ call.op \in {"ConnectDataLink", "DisconnectDataLink"}
    <3>1. call' = [call EXCEPT !.pc = "await"]
      BY <2>3 DEF AfterWrite
    <3>2. call'.op = call.op /\ call'.pc = "await" /\ call'.unsent = call.unsent
      BY <1>1, <3>1 DEF Call
    <3>3. session' = session /\ call.pc = "write"
      BY <1>5 DEF WriteFrameBytes
    <3>4. QED
      BY <2>3, <3>2, <3>3 DEF LinkInv, LinkResultMatchesSession, Idle
  <2>4. CASE AfterWrite /\ call.op \notin LinkCalls
    <3>1. \/ call' = [call EXCEPT !.pc = "receive", !.frame = NoFrame]
          \/ call' = [call EXCEPT !.pc = "await"]
          \/ Return(call.op, "Ok")
      BY <2>4 DEF AfterWrite
    <3>2. call'.op = call.op
      BY <1>1, <3>1, OperationOfCall DEF Call
    <3>3. QED
      BY <2>4, <3>2, NothingPromised
  <2>5. QED
    BY <1>5, <2>1, <2>2, <2>3, <2>4 DEF WriteFrameBytes, LinkCalls
<1>6. CASE ReceiveSessionControlFrameWithRetry
  BY <1>6, AnswerKeepsLink
<1>7. CASE SleepBeforeRetry
  <2>1. CASE \E s \in SleepFailures : Return(call.op, s)
    BY <2>1, NothingPromised, ReadStatusesFail
  <2>2. CASE call' = [call EXCEPT !.pc = "write", !.attempt = (@ + 1) % CounterModulus]
    <3>1. call'.op = call.op /\ call'.pc = "write" /\ call'.unsent = call.unsent
      BY <1>1, <2>2 DEF Call
    <3>2. session' = session /\ call.pc = "retry"
      BY <1>7 DEF SleepBeforeRetry
    <3>3. QED
      BY <3>1, <3>2 DEF LinkInv, LinkResultMatchesSession, Idle
  <2>3. QED
    BY <1>7, <2>1, <2>2 DEF SleepBeforeRetry
<1>8. CASE ReceiveNextApdu
  <2>1. call.op \notin LinkCalls
    BY <1>8 DEF ReceiveNextApdu, LinkInv, LinkCalls, Idle
  <2>2. ASSUME NEW s, call' = [call EXCEPT !.pc = "write", !.frame = RRFrame(s)]
        PROVE  call'.op = call.op
    BY <1>1, <2>2 DEF Call
  <2>3. call'.op \in {"ReceiveApdu", call.op}
    BY <1>8, <2>2, ReceiveLoopCall, OperationOfCall
  <2>4. QED
    BY <2>1, <2>3, NothingPromised DEF LinkCalls
<1>9. CASE CopyFirstPendingApdu
  BY <1>9, NothingPromised, OperationOfCall DEF CopyFirstPendingApdu, LinkCalls
<1>10. QED
  BY <1>2, <1>3, <1>4, <1>5, <1>6, <1>7, <1>8, <1>9 DEF Step

(* Any accepted frame ends the wait of a call for the link, and yet, of a  *)
(* server always and of a client whose session refuses what it does not    *)
(* expect, Ok tells the truth: late, repeated and foreign frames do not    *)
(* end a set-up that did not succeed, nor a release that did not.          *)
THEOREM LinkResults ==
  ASSUME ~Lenient \/ Role = "Server"
  PROVE  Spec => []LinkResultMatchesSession
<1>1. Init => LinkInv
  BY DEF Init, ChannelInit, Returned, LinkInv, LinkResultMatchesSession
<1>2. TypeInv /\ LinkInv /\ [Next]_vars => LinkInv'
  <2>1. SUFFICES ASSUME TypeInv, LinkInv, [Next]_vars PROVE LinkInv'
    OBVIOUS
  <2>2. CASE Application
    BY <2>1, <2>2, ApplicationKeepsLink DEF TypeInv
  <2>3. CASE Step
    BY <2>1, <2>3, StepKeepsLink DEF TypeInv
  <2>4. CASE UNCHANGED <<call, session>>
    BY <2>1, <2>4 DEF LinkInv, LinkResultMatchesSession, Idle
  <2>5. QED
    BY <2>1, <2>2, <2>3, <2>4 DEF Next, PeerSends, PeerReads, vars
<1>3. LinkInv => LinkResultMatchesSession
  BY DEF LinkInv
<1>4. QED
  BY <1>1, <1>2, <1>3, TypeInvariant, PTL DEF Spec
=============================================================================
