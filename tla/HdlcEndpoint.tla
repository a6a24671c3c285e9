---------------------------- MODULE HdlcEndpoint ----------------------------
(***************************************************************************)
(* One HdlcProfileChannel facing a peer that may send any of PeerFrames at *)
(* any time: late answers, repeated frames, frames of an earlier link.     *)
(* What holds here holds whatever the peer does.                           *)
(***************************************************************************)
EXTENDS HdlcProfileChannel

CONSTANTS
  Apdus,       \* the APDUs the application may send
  PeerFrames,  \* the frames the peer may send
  Backlog      \* bound on the frames the channel has not read

ASSUME EndpointAssumption ==
  /\ Apdus \subseteq Seq(Octets)
  /\ PeerFrames \subseteq Frame
  /\ Backlog \in Nat

PeerSends ==
  /\ open
  /\ Len(rx) < Backlog
  /\ \E f \in PeerFrames : rx' = Append(rx, f)
  /\ UNCHANGED <<tx, open, session, buffers, call, writes>>

PeerReads ==
  /\ tx # <<>>
  /\ tx' = Tail(tx)
  /\ UNCHANGED <<rx, open, session, buffers, call, writes>>

Init == rx = <<>> /\ tx = <<>> /\ ChannelInit

Application ==
  \/ Open
  \/ Close
  \/ DataLinkCall
  \/ \E apdu \in Apdus : SendApdu(apdu)
  \/ \E capacity \in Capacities : ReceiveApdu(capacity)

Next == (Application \/ Step \/ PeerSends \/ PeerReads) /\ LinkHistory

(* A call that was made runs on, and the peer's stream drains; the         *)
(* application need not call and the peer need not send.                   *)
Fairness == WF_vars(Step /\ LinkHistory) /\ WF_vars(PeerReads /\ LinkHistory)

Spec == Init /\ [][Next]_vars
FairSpec == Spec /\ Fairness

-----------------------------------------------------------------------------
Operations == {"Open", "Close", "ConnectDataLink", "AcceptDataLink",
               "DisconnectDataLink", "SendApdu", "ReceiveApdu"}
Places == {"idle", "accept", "send", "build", "write", "await", "retry", "receive"}
Statuses == ProfileStatus \cup {"Pending"}

Call == [op : Operations, pc : Places, status : Statuses, frame : Frame,
         attempt : 0..(CounterModulus - 1), unsent : Information, capacity : Nat]

(* The type of every variable: the members of HdlcProfileChannel and the   *)
(* locals of the call in progress.                                         *)
TypeOK ==
  /\ rx \in Seq(Frame) /\ tx \in Seq(Frame) /\ open \in BOOLEAN
  /\ session \in Session
  /\ partial \in BOOLEAN
  /\ segments \in Reassembly
  /\ pendingHdlcFrames \in Seq(Frame)
  /\ pendingApdus \in Seq(Information)
  /\ call \in Call
  /\ writes \in Nat
  /\ linked \in BOOLEAN

(* ReceiveSessionControlFrameWithRetry gives a frame to WriteAll at most   *)
(* hdlcRetryCount times more than once, also where the uint8_t attempt     *)
(* counter is about to wrap.                                               *)
RetryBound == writes <= RetryCount + 1

(* Close leaves nothing of the old stream behind that a later Open could   *)
(* mix with new bytes: no half-decoded frame, no segment, no queued frame  *)
(* and no APDU.                                                            *)
NothingOutlivesClose ==
  ~open => /\ ~partial
           /\ segments = <<>>
           /\ pendingHdlcFrames = <<>>
           /\ pendingApdus = <<>>

(* ReceiveNextApdu is called only while pendingApdus_ is empty, so however *)
(* many frames a read brings and whatever fails after an APDU was queued,  *)
(* the queue never holds two.                                              *)
OneApduPending == Len(pendingApdus) <= 1

(* ConnectDataLink or AcceptDataLink that returns Ok left the link up, and *)
(* DisconnectDataLink that returns Ok did not, although any accepted frame *)
(* ends their wait.  It takes a session that refuses unexpected frames.    *)
LinkResultMatchesSession ==
  Idle /\ call.status = "Ok" =>
    /\ call.op \in {"ConnectDataLink", "AcceptDataLink"} => session.state = "Connected"
    /\ call.op = "DisconnectDataLink" => session.state # "Connected"

(* The frame that is repeated until it is answered is the last I-frame the *)
(* session built, whatever was received meanwhile: its N(S) stays V(S) - 1 *)
(* as long as the link is up.                                              *)
RepeatedFrameIsLastBuilt ==
  call.frame.kind = "I" /\ session.state = "Connected" =>
    (call.frame.ns + 1) % SeqModulus = session.vs

(* A queued APDU leaves the queue by being handed to the caller or by      *)
(* Close: not when the RR for it cannot be written, not when the buffer is *)
(* too small, not when another call or a new link comes in between.        *)
ApduLeavesByDelivery ==
  [][pendingApdus # <<>> /\ pendingApdus' # pendingApdus =>
       \/ call'.op = "Close"
       \/ /\ call'.op = "ReceiveApdu" /\ call'.status = "Ok"
          /\ pendingApdus' = Tail(pendingApdus)
          /\ Len(Head(pendingApdus)) <= call.capacity]_vars

(* ConnectDataLink, AcceptDataLink, DisconnectDataLink and SendApdu return *)
(* once the peer's stream takes bytes and reads time out, whatever frames  *)
(* arrive.                                                                 *)
CallTerminates == (~Idle /\ call.op # "ReceiveApdu") ~> Idle
-----------------------------------------------------------------------------
(* What the documents say and the code does not keep.                      *)

(* docs/00_profile_requirements.md:53: "HDLC session mode performs SNRM/UA *)
(* before APDU transfer".  Close leaves session_ Connected, and after the  *)
(* next Open SendApdu puts I-frames on the new stream without a set-up.    *)
SetupBeforeTransfer ==
  open /\ call.pc = "write" /\ call.frame.kind = "I" => linked
=============================================================================
