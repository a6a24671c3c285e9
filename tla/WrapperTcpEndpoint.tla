------------------------- MODULE WrapperTcpEndpoint -------------------------
(***************************************************************************)
(* A WrapperTcpProfileChannel, an application, and a peer that writes the  *)
(* WPDUs of Lengths in turn, over a stream that may break at any time and  *)
(* be opened again.                                                        *)
(***************************************************************************)
EXTENDS WrapperTcpProfileChannel

CONSTANTS
  CloseFirst,  \* whether the application calls Close before it opens again
  Backlog      \* bound on the octets the channel has not read

ASSUME EndpointAssumption == CloseFirst \in BOOLEAN /\ Backlog \in Nat

VARIABLES
  sent,    \* how many WPDUs the peer has written
  got,     \* history: the APDUs handed to the application
  broken,  \* the stream broke and Close has not been called since
  intact,  \* history: no octet was discarded since the stream opened
  handed   \* history: how many WPDUs were handed over, or sent before that

vars == <<channelVars, sent, got, broken, intact, handed>>

Init ==
  /\ ChannelInit
  /\ sent = 0 /\ got = <<>> /\ broken = FALSE
  /\ intact = FALSE /\ handed = 0

-----------------------------------------------------------------------------
PeerSends ==
  /\ open /\ sent < Len(Lengths)
  /\ Len(rx) + Len(Wpdu(sent + 1)) <= Backlog
  /\ rx' = rx \o Wpdu(sent + 1)
  /\ sent' = sent + 1
  /\ UNCHANGED <<tx, open, decoder, pendingFrames, call, got, broken, intact, handed>>

PeerReads ==
  /\ tx # <<>> /\ tx' = Tail(tx)
  /\ UNCHANGED <<rx, open, decoder, pendingFrames, call, sent, got, broken, intact, handed>>

StreamBreaks ==
  /\ open /\ open' = FALSE /\ rx' = <<>>
  /\ broken' = TRUE /\ intact' = FALSE
  /\ UNCHANGED <<tx, decoder, pendingFrames, call, sent, got, handed>>

ApplicationOpens ==
  /\ CloseFirst => ~broken
  /\ Open
  /\ IF open' # open
     THEN intact' = (decoder \o rx \o pendingFrames = <<>>) /\ handed' = sent
     ELSE UNCHANGED <<intact, handed>>
  /\ UNCHANGED <<sent, got, broken>>

ApplicationCloses ==
  /\ Close
  /\ broken' = FALSE /\ intact' = FALSE
  /\ UNCHANGED <<sent, got, handed>>

ApplicationCalls ==
  /\ \/ \E size \in OutgoingSizes : SendApdu(size)
     \/ \E capacity \in Capacities : ReceiveApdu(capacity)
  /\ UNCHANGED <<sent, got, broken, intact, handed>>

Receives ==
  /\ ReceiveNextFrame
  /\ intact' = (intact /\ open' = open
                 /\ call'.status \notin DecodeErrors \cup {"InternalError"})
  /\ UNCHANGED <<sent, got, broken, handed>>

Delivers ==
  /\ CopyFirstPendingFrame
  /\ IF call'.status = "Ok"
     THEN /\ got' = Append(got, Head(pendingFrames))
          /\ handed' = IF intact THEN handed + 1 ELSE handed
     ELSE UNCHANGED <<got, handed>>
  /\ UNCHANGED <<sent, broken, intact>>

Step == Receives \/ Delivers
Next ==
  \/ ApplicationOpens \/ ApplicationCloses \/ ApplicationCalls
  \/ Step \/ PeerSends \/ PeerReads \/ StreamBreaks

Spec == Init /\ [][Next]_vars

(* A call that was made runs on: a read returns what has come, and a read  *)
(* of nothing may wait for good.  Peer and application need do nothing.    *)
FairSpec ==
  Spec /\ WF_vars(Delivers) /\ WF_vars(Receives /\ (open => rx' # rx))

-----------------------------------------------------------------------------
Call == [op : {"Open", "Close", "SendApdu", "ReceiveApdu"}, pc : {"idle", "receive"},
         status : ProfileStatus \cup {"Pending"}, capacity : Nat]

(* The type of every variable: the members of WrapperTcpProfileChannel and *)
(* the locals of the call in progress.                                     *)
TypeOK ==
  /\ rx \in Seq(Octet) /\ tx \in Seq(OutgoingSizes) /\ open \in BOOLEAN
  /\ decoder \in Seq(Octet)
  /\ pendingFrames \in Seq(Seq(Octet))
  /\ call \in Call
  /\ sent \in 0..Len(Lengths) /\ handed \in 0..sent
  /\ got \in Seq(Seq(Octet))
  /\ broken \in BOOLEAN /\ intact \in BOOLEAN

Following(octet) ==
  IF octet[2] < Lengths[octet[1]] THEN <<octet[1], octet[2] + 1>> ELSE <<octet[1] + 1, 0>>

(* The octets of the WPDUs k to n, no more and no less.                    *)
Runs(octets, k, n) ==
  IF k > n THEN octets = <<>>
  ELSE /\ octets # <<>>
       /\ octets[1] = <<k, 0>>
       /\ octets[Len(octets)] = <<n, Lengths[n]>>
       /\ \A m \in 1..(Len(octets) - 1) : octets[m + 1] = Following(octets[m])

(* On one stream, until a WPDU is damaged or the trace sink throws,        *)
(* ReceiveApdu loses nothing: however the reads split it, whichever of     *)
(* them fail, whatever else is called meanwhile and whichever buffers are  *)
(* too small, every octet the peer wrote is handed over, in a queued       *)
(* frame, kept by the decoder, or still to be read.                        *)
Accounted ==
  intact =>
    /\ pendingFrames = [m \in 1..Len(pendingFrames) |-> Apdu(handed + m)]
    /\ Runs(decoder \o rx, handed + Len(pendingFrames) + 1, sent)

(* The number of the WPDU an APDU came in, 0 if it is not one as sent.     *)
Positions ==
  [k \in 1..Len(got) |->
     IF \E i \in Wpdus : Apdu(i) = got[k]
     THEN CHOOSE i \in Wpdus : Apdu(i) = got[k] ELSE 0]

Delivery == INSTANCE ApduDelivery WITH
  Apdus <- Wpdus, sent <- [i \in 1..sent |-> i], delivered <- Positions

(* With Close before each new Open, the channel implements ApduDelivery    *)
(* across broken streams, damaged WPDUs and failed calls: an APDU is       *)
(* handed over byte by byte as it was sent, in order and at most once.     *)
DeliveryFromPeer == Delivery!Spec

Complete(octets) == Decoded(octets).frames # <<>> \/ Decoded(octets).bad

(* ReceiveApdu returns when a WPDU has arrived, in however many reads, or  *)
(* what has arrived is no WPDU.                                            *)
ReceiveReturns == (~Idle /\ (pendingFrames # <<>> \/ Complete(decoder \o rx))) ~> Idle

-----------------------------------------------------------------------------
(* What the documents say and the code does not keep.                      *)

(* docs/00_profile_requirements.md:49: "APDU bytes are byte-identical      *)
(* after crossing a profile channel".  Open does not reset decoder_: when  *)
(* the stream broke within a WPDU and is opened again without Close, the   *)
(* next WPDU, header and all, fills up the APDU of the broken one.         *)
ByteIdentical == \A k \in 1..Len(got) : \E i \in Wpdus : got[k] = Apdu(i)
=============================================================================
