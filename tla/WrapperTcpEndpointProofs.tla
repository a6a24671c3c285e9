---------------------- MODULE WrapperTcpEndpointProofs ----------------------
(***************************************************************************)
(* Theorems of WrapperTcpEndpoint, for every value of its constants: every *)
(* sequence of WPDUs, malformed or not, every size of the buffers and      *)
(* limits, and every set of failures.                                      *)
(***************************************************************************)
EXTENDS WrapperTcpDecodingProofs

-----------------------------------------------------------------------------
(* Calls and reads.                                                        *)

Operations == {"Open", "Close", "SendApdu", "ReceiveApdu"}

LEMMA DecodeErrorFacts ==
  /\ DecodeErrors = {"InvalidFrame", "PayloadTooLarge"}
  /\ \A octet : DecodeError(octet) \in DecodeErrors
<1>1. MapWrapperStatus("InvalidVersion") = "InvalidFrame"
  BY DEF MapWrapperStatus, CodecStatus
<1>2. MapWrapperStatus("DataTooLarge") = "PayloadTooLarge"
  BY DEF MapWrapperStatus, CodecStatus
<1>3. QED
  BY <1>1, <1>2 DEF DecodeErrors, DecodeError

LEMMA StatusesCovered ==
  /\ ReadFailures \cup WriteFailures \cup StreamFailures \subseteq ProfileStatus
  /\ DecodeErrors \subseteq ProfileStatus
  /\ {"Ok", "NotOpen", "AlreadyOpen", "InvalidArgument", "PayloadTooLarge",
      "InternalError", "OutputBufferTooSmall"} \subseteq ProfileStatus
BY ChannelAssumption, DecodeErrorFacts DEF ChannelAssumption, ProfileStatus

LEMMA ReturnKeepsType ==
  ASSUME NEW op \in Operations, NEW status \in ProfileStatus \cup {"Pending"},
         Return(op, status)
  PROVE  call' \in Call
BY DEF Return, Returned, Call, Operations

(* What the decoder hands to the channel.                                  *)
LEMMA PushFacts ==
  ASSUME NEW octets \in Seq(Octet), NEW p \in Push(octets)
  PROVE  /\ p.frames \in Seq(Seq(Octet)) /\ p.rest \in Seq(Octet)
         /\ \/ /\ p.status \in {"Ok", "NeedMoreData"}
               /\ p.frames = Decoded(octets).frames /\ p.rest = Decoded(octets).rest
            \/ p.status \in DecodeErrors /\ p.frames = <<>> /\ p.rest = <<>>
<1> DEFINE d == Decoded(octets)
           good == [status |-> IF d.frames = <<>> THEN "NeedMoreData" ELSE "Ok",
                    frames |-> d.frames, rest |-> d.rest]
           error == [status |-> DecodeError(d.rest[1]), frames |-> <<>>, rest |-> <<>>]
<1>1. d \in Decoding
  BY DecodedIsSound DEF Sound
<1>2. p = good \/ p = error
  BY DEF Push
<1>3. d.frames \in Seq(Seq(Octet)) /\ d.rest \in Seq(Octet)
  BY <1>1 DEF Decoding
<1> HIDE DEF d
<1>4. CASE p = good
  BY <1>3, <1>4 DEF d
<1>5. CASE p = error
  <2>1. p.status \in DecodeErrors /\ p.frames = <<>> /\ p.rest = <<>>
    BY <1>5, DecodeErrorFacts
  <2>2. QED
    BY <2>1
<1>6. QED
  BY <1>2, <1>4, <1>5

(* A read takes the first octets that are under way.                       *)
LEMMA ReadFacts ==
  ASSUME NEW n \in 1..Len(rx), rx \in Seq(Octet), decoder \in Seq(Octet)
  PROVE  /\ decoder \o SubSeq(rx, 1, n) \in Seq(Octet)
         /\ SubSeq(rx, n + 1, Len(rx)) \in Seq(Octet)
         /\ decoder \o rx = (decoder \o SubSeq(rx, 1, n)) \o SubSeq(rx, n + 1, Len(rx))
<1>1. Len(rx) \in Nat /\ n \in Nat \ {0} /\ n <= Len(rx)
  BY LenProperties
<1>2. \A i \in 1..Len(rx) : rx[i] \in Octet
  BY ElementOfSeq
<1>3. SubSeq(rx, 1, n) \in Seq(Octet)
  <2>1. 1 \in Int /\ n \in Int /\ \A i \in 1..n : rx[i] \in Octet
    BY <1>1, <1>2
  <2>2. QED
    BY <2>1, SubSeqProperties
<1>4. SubSeq(rx, n + 1, Len(rx)) \in Seq(Octet)
  <2>1. n + 1 \in Int /\ Len(rx) \in Int /\ \A i \in (n + 1)..Len(rx) : rx[i] \in Octet
    BY <1>1, <1>2
  <2>2. QED
    BY <2>1, SubSeqProperties
<1>5. SubSeq(rx, 1, n) \o SubSeq(rx, n + 1, Len(rx)) = rx
  <2>1. 1 \in 1..(Len(rx) + 1) /\ n \in (1 - 1)..Len(rx) /\ Len(rx) \in n..Len(rx)
    BY <1>1
  <2>2. SubSeq(rx, 1, n) \o SubSeq(rx, n + 1, Len(rx)) = SubSeq(rx, 1, Len(rx))
    BY <2>1, ConcatAdjacentSubSeq
  <2>3. QED
    BY <2>2, SubSeqFull
<1>6. decoder \o SubSeq(rx, 1, n) \in Seq(Octet)
  BY <1>3, ConcatProperties
<1>7. decoder \o (SubSeq(rx, 1, n) \o SubSeq(rx, n + 1, Len(rx)))
        = (decoder \o SubSeq(rx, 1, n)) \o SubSeq(rx, n + 1, Len(rx))
  <2> DEFINE first == SubSeq(rx, 1, n)
             more == SubSeq(rx, n + 1, Len(rx))
  <2>1. first \in Seq(Octet) /\ more \in Seq(Octet)
    BY <1>3, <1>4
  <2> HIDE DEF first, more
  <2>2. decoder \o (first \o more) = (decoder \o first) \o more
    BY <2>1, Associative
  <2>3. QED
    BY <2>2 DEF first, more
<1>8. QED
  BY <1>4, <1>5, <1>6, <1>7

(* The octets that were sent but not yet decoded.                          *)
Kept == decoder \o rx

(* What Receives does: a read that fails changes nothing; otherwise the    *)
(* octets that were read are decoded, and the frames are queued, unless    *)
(* there is an error or the sink throws or closes.                         *)
LEMMA ReceivesFacts ==
  ASSUME TypeOK, Receives
  PROVE  /\ pendingFrames = <<>>
         /\ UNCHANGED <<tx, sent, got, broken, handed>>
         /\ call' \in Call
         /\ intact' \in BOOLEAN /\ (intact' => intact /\ open' = open)
         /\ \/ UNCHANGED <<rx, open, decoder, pendingFrames>>
            \/ \E octets \in Seq(Octet), more \in Seq(Octet) :
                 /\ open /\ Kept = octets \o more
                 /\ \/ /\ decoder' = Decoded(octets).rest /\ rx' = more /\ open' = open
                       /\ pendingFrames' = Decoded(octets).frames
                    \/ /\ decoder' = <<>> /\ rx' = more /\ open' = open
                       /\ pendingFrames' = <<>> /\ ~intact'
                    \/ /\ decoder' = <<>> /\ rx' = <<>> /\ open' = FALSE
                       /\ pendingFrames' = Decoded(octets).frames /\ ~intact'
<1>1. /\ pendingFrames = <<>> /\ UNCHANGED <<tx, sent, got, broken, handed>>
      /\ call.pc = "receive"
  BY DEF Receives, ReceiveNextFrame
<1>2. /\ intact' = (intact /\ open' = open
                     /\ call'.status \notin DecodeErrors \cup {"InternalError"})
      /\ intact \in BOOLEAN
  BY DEF Receives, TypeOK
<1>3. CASE /\ \E s \in IF open THEN ReadFailures ELSE {"NotOpen"} : Return("ReceiveApdu", s)
           /\ UNCHANGED <<rx, open, decoder, pendingFrames>>
  <2>1. call' \in Call
    BY <1>3, ReturnKeepsType, StatusesCovered DEF Operations
  <2>2. QED
    BY <1>1, <1>2, <1>3, <2>1
<1>4. CASE open /\ ReadAndDecode
  <2>1. PICK n \in 1..Len(rx) :
          \E p \in Push(decoder \o SubSeq(rx, 1, n)) :
            \/ /\ \/ KeepRest(p) /\ rx' = SubSeq(rx, n + 1, Len(rx)) /\ UNCHANGED open
                  \/ p.frames # <<>> /\ SinkCloses(p)
               /\ pendingFrames' = pendingFrames \o p.frames
               /\ AfterPush(p.status)
            \/ /\ p.frames # <<>> /\ Clear /\ Return("ReceiveApdu", "InternalError")
               /\ rx' = SubSeq(rx, n + 1, Len(rx)) /\ UNCHANGED open
    BY <1>4 DEF ReadAndDecode
  <2> DEFINE octets == decoder \o SubSeq(rx, 1, n)
             more == SubSeq(rx, n + 1, Len(rx))
  <2>2. octets \in Seq(Octet) /\ more \in Seq(Octet) /\ Kept = octets \o more
    BY ReadFacts DEF TypeOK, Kept
  <2>3. PICK p \in Push(octets) :
          \/ /\ \/ KeepRest(p) /\ rx' = more /\ UNCHANGED open
                \/ p.frames # <<>> /\ SinkCloses(p)
             /\ pendingFrames' = pendingFrames \o p.frames
             /\ AfterPush(p.status)
          \/ /\ p.frames # <<>> /\ Clear /\ Return("ReceiveApdu", "InternalError")
             /\ rx' = more /\ UNCHANGED open
    BY <2>1
  <2> HIDE DEF octets, more
  <2>4. /\ p.frames \in Seq(Seq(Octet)) /\ p.rest \in Seq(Octet)
        /\ \/ /\ p.status \in {"Ok", "NeedMoreData"}
              /\ p.frames = Decoded(octets).frames /\ p.rest = Decoded(octets).rest
           \/ p.status \in DecodeErrors /\ p.frames = <<>> /\ p.rest = <<>>
    BY <2>2, PushFacts
  <2>5. pendingFrames \o p.frames = p.frames
    BY <1>1, <2>4, ConcatEmptySeq
  <2>6. /\ AfterPush(p.status) => call' \in Call
        /\ AfterPush(p.status) /\ p.status \in DecodeErrors => call'.status = p.status
        /\ Return("ReceiveApdu", "InternalError") =>
             call' \in Call /\ call'.status = "InternalError"
    <3>1. \A s \in ProfileStatus :
            Return("ReceiveApdu", s) => call' \in Call /\ call'.status = s
      BY ReturnKeepsType DEF Operations, Return, Returned
    <3>2. AfterPush(p.status) =>
            \/ UNCHANGED call /\ p.status \notin DecodeErrors
            \/ p.status \in DecodeErrors /\ Return("ReceiveApdu", p.status)
      BY <2>4, DecodeErrorFacts DEF AfterPush
    <3>3. QED
      BY <3>1, <3>2, StatusesCovered DEF TypeOK
  <2>7. CASE /\ KeepRest(p) /\ rx' = more /\ UNCHANGED open
             /\ pendingFrames' = pendingFrames \o p.frames
             /\ AfterPush(p.status)
    <3>1. decoder' = p.rest /\ rx' = more /\ open' = open /\ pendingFrames' = p.frames
      BY <2>5, <2>7 DEF KeepRest
    <3>2. CASE p.status \in DecodeErrors
      <4>1. call'.status \in DecodeErrors
        BY <2>6, <2>7, <3>2
      <4>2. p.frames = <<>> /\ p.rest = <<>>
        BY <2>4, <3>2, DecodeErrorFacts
      <4>3. QED
        BY <1>1, <1>2, <1>4, <2>2, <2>6, <2>7, <3>1, <4>1, <4>2
    <3>3. CASE p.status \notin DecodeErrors
      <4>1. p.frames = Decoded(octets).frames /\ p.rest = Decoded(octets).rest
        BY <2>4, <3>3
      <4>2. QED
        BY <1>1, <1>2, <1>4, <2>2, <2>6, <2>7, <3>1, <4>1
    <3>4. QED
      BY <3>2, <3>3
  <2>8. CASE /\ p.frames # <<>> /\ SinkCloses(p)
             /\ pendingFrames' = pendingFrames \o p.frames
             /\ AfterPush(p.status)
    <3>1. decoder' = <<>> /\ rx' = <<>> /\ open' = FALSE /\ pendingFrames' = p.frames
      BY <2>5, <2>8 DEF SinkCloses
    <3>2. p.frames = Decoded(octets).frames
      BY <2>4, <2>8
    <3>3. QED
      BY <1>1, <1>2, <1>4, <2>2, <2>6, <2>8, <3>1, <3>2
  <2>9. CASE /\ p.frames # <<>> /\ Clear /\ Return("ReceiveApdu", "InternalError")
             /\ rx' = more /\ UNCHANGED open
    <3>1. decoder' = <<>> /\ rx' = more /\ open' = open /\ pendingFrames' = <<>>
      BY <2>9 DEF Clear
    <3>2. QED
      BY <1>1, <1>2, <1>4, <2>2, <2>6, <2>9, <3>1
  <2>10. QED
    BY <2>3, <2>7, <2>8, <2>9
<1>5. QED
  BY <1>3, <1>4 DEF Receives, ReceiveNextFrame

-----------------------------------------------------------------------------
(* Type correctness.                                                       *)

(* Nothing is missing among the octets that were sent but not yet decoded, *)
(* and on an open stream they reach to the end of the last WPDU.           *)
Orderly == Ordered(Kept, sent) /\ (open => EndsWith(Kept, sent))

(* So it is where octets are lost only together with all that come before  *)
(* the next opening.                                                       *)
StreamInv ==
  /\ CloseFirst \/ intact => Orderly
  /\ ~open => rx = <<>>
  /\ CloseFirst => (broken => ~open) /\ (~open /\ ~broken => decoder = <<>>)
  /\ intact => open

(* The queue holds the WPDUs behind those that were handed over, and what  *)
(* is kept begins with the one behind them.                                *)
AccountInv ==
  intact =>
    /\ pendingFrames = [m \in 1..Len(pendingFrames) |-> Apdu(handed + m)]
    /\ handed + Len(pendingFrames) <= sent
    /\ IF Kept = <<>> THEN handed + Len(pendingFrames) = sent
       ELSE Kept[1] = <<handed + Len(pendingFrames) + 1, 0>>

Inv == TypeOK /\ StreamInv /\ AccountInv

LEMMA InitInv == Init => Inv
<1> SUFFICES ASSUME Init PROVE Inv
  OBVIOUS
<1>1. TypeOK
  <2>1. call \in Call
    BY DEF Init, ChannelInit, Returned, Call
  <2>2. 0 \in 0..Len(Lengths) /\ 0 \in 0..0
    BY OctetFacts
  <2>3. \A S : <<>> \in Seq(S)
    BY EmptySeq
  <2>4. QED
    BY <2>1, <2>2, <2>3 DEF Init, ChannelInit, TypeOK
<1>2. Kept = <<>>
  BY EmptySeq, ConcatEmptySeq DEF Init, ChannelInit, Kept
<1>3. StreamInv
  <2>1. Len(Kept) = 0
    BY <1>2
  <2>2. Orderly
    BY <1>2, <2>1 DEF Init, ChannelInit, Orderly, Ordered, Contiguous, EndsWith
  <2>3. QED
    BY <2>2 DEF Init, ChannelInit, StreamInv
<1>4. QED
  BY <1>1, <1>3 DEF Init, Inv, AccountInv

LEMMA TypeKeptByPeer ==
  ASSUME TypeOK, PeerSends \/ PeerReads \/ StreamBreaks
  PROVE  TypeOK'
<1>1. CASE PeerSends
  <2>1. sent + 1 \in Wpdus /\ sent + 1 \in 0..Len(Lengths) /\ handed \in 0..(sent + 1)
    BY <1>1, OctetFacts DEF PeerSends, TypeOK, Wpdus
  <2>2. rx \o Wpdu(sent + 1) \in Seq(Octet)
    BY <2>1, WpduFacts, ConcatProperties DEF TypeOK
  <2>3. QED
    BY <1>1, <2>1, <2>2 DEF PeerSends, TypeOK
<1>2. CASE PeerReads
  <2>1. Tail(tx) \in Seq(OutgoingSizes)
    BY <1>2, HeadTailProperties DEF PeerReads, TypeOK
  <2>2. QED
    BY <1>2, <2>1 DEF PeerReads, TypeOK
<1>3. CASE StreamBreaks
  BY <1>3, EmptySeq DEF StreamBreaks, TypeOK
<1>4. QED
  BY <1>1, <1>2, <1>3

LEMMA TypeKeptByApplication ==
  ASSUME TypeOK, ApplicationOpens \/ ApplicationCloses \/ ApplicationCalls
  PROVE  TypeOK'
<1>1. \A op \in Operations, s \in ProfileStatus : Return(op, s) => call' \in Call
  BY ReturnKeepsType
<1>2. sent \in Nat /\ sent \in 0..sent
  BY OctetFacts DEF TypeOK
<1>3. CASE ApplicationOpens
  <2>1. /\ UNCHANGED <<rx, tx, decoder, pendingFrames, sent, got, broken>>
        /\ \E s \in ProfileStatus : Return("Open", s)
        /\ open' \in BOOLEAN /\ intact' \in BOOLEAN /\ handed' \in 0..sent
    BY <1>2, <1>3, StatusesCovered DEF ApplicationOpens, Open, TypeOK
  <2>2. call' \in Call
    BY <1>1, <2>1 DEF Operations
  <2>3. QED
    BY <2>1, <2>2 DEF TypeOK
<1>4. CASE ApplicationCloses
  <2>1. /\ UNCHANGED <<tx, sent, got, handed>>
        /\ decoder' = <<>> /\ pendingFrames' = <<>> /\ broken' = FALSE /\ intact' = FALSE
        /\ \E s \in ProfileStatus : Return("Close", s)
        /\ open' \in BOOLEAN /\ (rx' = <<>> \/ rx' = rx)
    BY <1>4, StatusesCovered DEF ApplicationCloses, Close, Clear, TypeOK
  <2>2. call' \in Call
    BY <1>1, <2>1 DEF Operations
  <2>3. QED
    BY <2>1, <2>2, EmptySeq DEF TypeOK
<1>5. CASE ApplicationCalls
  <2>1. CASE \E size \in OutgoingSizes : SendApdu(size)
    <3>1. PICK size \in OutgoingSizes : SendApdu(size)
      BY <2>1
    <3>2. SendStatus(size) \in {"Ok", "NotOpen", "PayloadTooLarge"}
      BY DEF SendStatus
    <3>3. \E s \in ProfileStatus : Return("SendApdu", s)
      BY <3>1, <3>2, StatusesCovered DEF SendApdu
    <3>4. tx' = tx \/ tx' = Append(tx, size)
      BY <3>1 DEF SendApdu
    <3>5. tx' \in Seq(OutgoingSizes)
      <4>1. tx \in Seq(OutgoingSizes) /\ Append(tx, size) \in Seq(OutgoingSizes)
        BY AppendProperties DEF TypeOK
      <4>2. QED
        BY <3>4, <4>1
    <3>6. UNCHANGED <<rx, open, decoder, pendingFrames, sent, got, broken, intact, handed>>
      BY <1>5, <3>1 DEF ApplicationCalls, SendApdu
    <3>7. call' \in Call
      BY <1>1, <3>3 DEF Operations
    <3>8. QED
      BY <3>5, <3>6, <3>7 DEF TypeOK
  <2>2. CASE \E capacity \in Capacities : ReceiveApdu(capacity)
    <3>1. PICK capacity \in Capacities : ReceiveApdu(capacity)
      BY <2>2
    <3>2. capacity \in Nat
      BY ChannelAssumption DEF ChannelAssumption
    <3>3. CASE Return("ReceiveApdu", "InvalidArgument")
      BY <1>1, <1>5, <3>1, <3>3, StatusesCovered
      DEF Operations, ApplicationCalls, ReceiveApdu, stream, TypeOK
    <3>4. CASE call' = [op |-> "ReceiveApdu", pc |-> "receive", status |-> "Pending",
                        capacity |-> capacity]
      <4>1. call' \in Call
        BY <3>2, <3>4 DEF Call
      <4>2. QED
        BY <1>5, <3>1, <4>1 DEF ApplicationCalls, ReceiveApdu, stream, TypeOK
    <3>5. QED
      BY <3>1, <3>3, <3>4 DEF ReceiveApdu
  <2>3. QED
    BY <1>5, <2>1, <2>2 DEF ApplicationCalls
<1>6. QED
  BY <1>3, <1>4, <1>5

LEMMA TypeKeptByReceiving ==
  ASSUME TypeOK, AccountInv, Receives \/ Delivers
  PROVE  TypeOK'
<1>1. CASE Receives
  <2>1. ASSUME NEW octets \in Seq(Octet)
        PROVE  Decoded(octets).frames \in Seq(Seq(Octet)) /\ Decoded(octets).rest \in Seq(Octet)
    BY DecodedIsSound DEF Sound, Decoding
  <2>2. <<>> \in Seq(Octet) /\ <<>> \in Seq(Seq(Octet))
    BY EmptySeq
  <2>3. /\ rx' \in Seq(Octet) /\ decoder' \in Seq(Octet)
        /\ pendingFrames' \in Seq(Seq(Octet)) /\ open' \in BOOLEAN
    BY <1>1, <2>1, <2>2, ReceivesFacts DEF TypeOK
  <2>4. UNCHANGED <<tx, sent, got, broken, handed>> /\ call' \in Call /\ intact' \in BOOLEAN
    BY <1>1, ReceivesFacts
  <2>5. QED
    BY <2>3, <2>4 DEF TypeOK
<1>2. CASE Delivers
  <2>1. /\ pendingFrames # <<>> /\ pendingFrames \in Seq(Seq(Octet))
        /\ Head(pendingFrames) \in Seq(Octet) /\ Tail(pendingFrames) \in Seq(Seq(Octet))
        /\ Len(pendingFrames) \in Nat \ {0}
    <3>1. pendingFrames # <<>> /\ pendingFrames \in Seq(Seq(Octet))
      BY <1>2 DEF Delivers, CopyFirstPendingFrame, TypeOK
    <3>2. QED
      BY <3>1, HeadTailProperties, LenProperties, EmptySeq
  <2>2. \E s \in {"Ok", "OutputBufferTooSmall"} : Return("ReceiveApdu", s)
    BY <1>2 DEF Delivers, CopyFirstPendingFrame
  <2>3. call' \in Call
    BY <2>2, ReturnKeepsType, StatusesCovered DEF Operations
  <2>4. pendingFrames' \in Seq(Seq(Octet))
    BY <1>2, <2>1 DEF Delivers, CopyFirstPendingFrame, TakeIf
  <2>5. got' \in Seq(Seq(Octet))
    <3>1. got \in Seq(Seq(Octet)) /\ Append(got, Head(pendingFrames)) \in Seq(Seq(Octet))
      BY <2>1, AppendProperties DEF TypeOK
    <3>2. got' = got \/ got' = Append(got, Head(pendingFrames))
      BY <1>2 DEF Delivers
    <3>3. QED
      BY <3>1, <3>2
  <2>6. handed' \in 0..sent
    <3>1. intact => handed + Len(pendingFrames) <= sent
      BY DEF AccountInv
    <3>2. handed \in 0..sent /\ sent \in Nat
      BY OctetFacts DEF TypeOK
    <3>3. handed' = handed \/ (intact /\ handed' = handed + 1)
      BY <1>2, Zenon DEF Delivers
    <3>4. QED
      BY <2>1, <3>1, <3>2, <3>3
  <2>7. QED
    BY <1>2, <2>3, <2>4, <2>5, <2>6
    DEF Delivers, CopyFirstPendingFrame, stream, TypeOK
<1>3. QED
  BY <1>1, <1>2

-----------------------------------------------------------------------------
(* The octets on the stream and in the queue.                              *)

LEMMA KeptFacts ==
  ASSUME TypeOK
  PROVE  /\ Kept \in Seq(Octet) /\ sent \in Nat /\ handed \in Nat
         /\ Len(pendingFrames) \in Nat /\ (pendingFrames = <<>> <=> Len(pendingFrames) = 0)
         /\ Kept = <<>> <=> decoder = <<>> /\ rx = <<>>
<1>1. rx \in Seq(Octet) /\ decoder \in Seq(Octet) /\ pendingFrames \in Seq(Seq(Octet))
  BY DEF TypeOK
<1>2. sent \in Nat /\ handed \in Nat
  BY OctetFacts DEF TypeOK
<1>3. Len(pendingFrames) \in Nat /\ (pendingFrames = <<>> <=> Len(pendingFrames) = 0)
  BY <1>1, LenProperties, EmptySeq
<1>4. Kept \in Seq(Octet) /\ (Kept = <<>> <=> decoder = <<>> /\ rx = <<>>)
  BY <1>1, Joined DEF Kept
<1>5. QED
  BY <1>2, <1>3, <1>4

LEMMA NothingKept ==
  ASSUME NEW n
  PROVE  Ordered(<<>>, n) /\ EndsWith(<<>>, n)
<1>1. Len(<<>>) = 0
  OBVIOUS
<1>2. QED
  BY <1>1 DEF Ordered, Contiguous, EndsWith

(* A WPDU of the peer.                                                     *)
LEMMA PeerSendsFacts ==
  ASSUME TypeOK, PeerSends
  PROVE  /\ Kept' = Kept \o Wpdu(sent + 1) /\ sent' = sent + 1
         /\ sent \in Nat /\ sent + 1 \in Wpdus /\ open
         /\ UNCHANGED <<open, decoder, pendingFrames, call, got, broken, intact, handed>>
<1>1. /\ open /\ sent' = sent + 1 /\ sent < Len(Lengths)
      /\ rx' = rx \o Wpdu(sent + 1)
      /\ UNCHANGED <<open, decoder, pendingFrames, call, got, broken, intact, handed>>
  BY DEF PeerSends
<1>2. sent \in Nat /\ sent + 1 \in Wpdus
  <2>1. sent \in Nat /\ Len(Lengths) \in Nat
    BY OctetFacts DEF TypeOK
  <2>2. QED
    BY <1>1, <2>1 DEF Wpdus
<1> DEFINE w == Wpdu(sent + 1)
<1>3. w \in Seq(Octet)
  BY <1>2, WpduFacts
<1> HIDE DEF w
<1>4. decoder \o (rx \o w) = (decoder \o rx) \o w
  <2>1. decoder \in Seq(Octet) /\ rx \in Seq(Octet)
    BY DEF TypeOK
  <2>2. QED
    BY <1>3, <2>1, Associative
<1>5. QED
  BY <1>1, <1>2, <1>4 DEF Kept, w

(* An opening that succeeds.                                               *)
LEMMA OpensFacts ==
  ASSUME TypeOK, ApplicationOpens
  PROVE  /\ UNCHANGED <<rx, decoder, pendingFrames, sent, got, broken>>
         /\ \/ open' = open /\ UNCHANGED <<intact, handed>>
            \/ /\ ~open /\ open' /\ handed' = sent
               /\ CloseFirst => ~broken
               /\ intact' => Kept = <<>> /\ pendingFrames = <<>>
<1>1. /\ UNCHANGED <<rx, decoder, pendingFrames, sent, got, broken>>
      /\ CloseFirst => ~broken
      /\ \/ open' = open
         \/ ~open /\ open' = TRUE
  BY DEF ApplicationOpens, Open
<1>2. IF open' # open
      THEN intact' = (decoder \o rx \o pendingFrames = <<>>) /\ handed' = sent
      ELSE UNCHANGED <<intact, handed>>
  BY DEF ApplicationOpens
<1>3. decoder \o rx \o pendingFrames = <<>> => Kept = <<>> /\ pendingFrames = <<>>
  <2> DEFINE Both == Octet \cup Seq(Octet)
  <2>1. \A S, T : S \subseteq T => Seq(S) \subseteq Seq(T)
    BY SeqDef
  <2>2. Kept \in Seq(Both) /\ pendingFrames \in Seq(Both)
    <3>1. Seq(Octet) \subseteq Seq(Both) /\ Seq(Seq(Octet)) \subseteq Seq(Both)
      BY <2>1
    <3>2. QED
      BY <3>1, KeptFacts DEF TypeOK
  <2> HIDE DEF Both
  <2>3. Kept \o pendingFrames = <<>> => Kept = <<>> /\ pendingFrames = <<>>
    BY <2>2, Joined
  <2>4. QED
    BY <2>3 DEF Kept
<1>4. QED
  BY <1>1, <1>2, <1>3

LEMMA ClosesFacts ==
  ASSUME ApplicationCloses
  PROVE  /\ UNCHANGED <<sent, got, handed>>
         /\ decoder' = <<>> /\ pendingFrames' = <<>> /\ ~broken' /\ ~intact'
         /\ \/ ~open' /\ rx' = <<>>
            \/ open' = open /\ rx' = rx
BY DEF ApplicationCloses, Close, Clear

LEMMA DeliversFacts ==
  ASSUME TypeOK, Delivers
  PROVE  /\ UNCHANGED <<rx, open, decoder, sent, broken, intact>>
         /\ pendingFrames # <<>>
         /\ Head(pendingFrames) \in Seq(Octet) /\ Tail(pendingFrames) \in Seq(Seq(Octet))
         /\ \/ /\ got' = Append(got, Head(pendingFrames))
               /\ pendingFrames' = Tail(pendingFrames)
               /\ handed' = IF intact THEN handed + 1 ELSE handed
            \/ UNCHANGED <<got, pendingFrames, handed>>
<1>1. /\ UNCHANGED <<rx, open, decoder, sent, broken, intact>> /\ pendingFrames # <<>>
  BY DEF Delivers, CopyFirstPendingFrame, stream
<1>2. Head(pendingFrames) \in Seq(Octet) /\ Tail(pendingFrames) \in Seq(Seq(Octet))
  BY <1>1, HeadTailProperties DEF TypeOK
<1> DEFINE fits == Len(Head(pendingFrames)) <= call.capacity
<1>3. /\ pendingFrames' = IF fits THEN Tail(pendingFrames) ELSE pendingFrames
      /\ call'.status = IF fits THEN "Ok" ELSE "OutputBufferTooSmall"
  BY DEF Delivers, CopyFirstPendingFrame, TakeIf, Return, Returned
<1>4. IF call'.status = "Ok"
      THEN /\ got' = Append(got, Head(pendingFrames))
           /\ handed' = IF intact THEN handed + 1 ELSE handed
      ELSE UNCHANGED <<got, handed>>
  BY Zenon DEF Delivers
<1> HIDE DEF fits
<1>5. QED
  BY <1>1, <1>2, <1>3, <1>4

(* What a read leaves.  It is ordered if what was kept before is; and on   *)
(* the stream that was read it reaches as far.                             *)
LEMMA ReceivingKeepsOrder ==
  ASSUME TypeOK, Receives, Ordered(Kept, sent)
  PROVE  /\ Ordered(Kept', sent)
         /\ open' /\ EndsWith(Kept, sent) => EndsWith(Kept', sent)
<1>1. CASE UNCHANGED <<rx, open, decoder, pendingFrames>>
  BY <1>1 DEF Kept
<1>2. CASE ~UNCHANGED <<rx, open, decoder, pendingFrames>>
  <2>1. PICK octets \in Seq(Octet), more \in Seq(Octet) :
          /\ open /\ Kept = octets \o more
          /\ \/ /\ decoder' = Decoded(octets).rest /\ rx' = more /\ open' = open
                /\ pendingFrames' = Decoded(octets).frames
             \/ /\ decoder' = <<>> /\ rx' = more /\ open' = open
                /\ pendingFrames' = <<>> /\ ~intact'
             \/ /\ decoder' = <<>> /\ rx' = <<>> /\ open' = FALSE
                /\ pendingFrames' = Decoded(octets).frames /\ ~intact'
    BY <1>2, ReceivesFacts
  <2>2. /\ Ordered(Decoded(octets).rest \o more, sent)
        /\ EndsWith(Kept, sent) => EndsWith(Decoded(octets).rest \o more, sent)
    BY <2>1, DecodedOnStream
  <2>3. /\ Ordered(more, sent)
        /\ EndsWith(Kept, sent) => EndsWith(more, sent)
    BY <2>1, OrderedParts
  <2>4. <<>> \o more = more /\ <<>> \o <<>> = <<>>
    BY ConcatEmptySeq
  <2>5. \/ Kept' = Decoded(octets).rest \o more
        \/ Kept' = more
        \/ Kept' = <<>>
    BY <2>1, <2>4 DEF Kept
  <2>6. QED
    BY <2>2, <2>3, <2>5, NothingKept
<1>3. QED
  BY <1>1, <1>2

LEMMA StreamInvPreserved ==
  ASSUME TypeOK, StreamInv, [Next]_vars
  PROVE  StreamInv'
<1>1. CASE PeerSends
  <2>1. CloseFirst \/ intact => Orderly'
    <3>1. SUFFICES ASSUME CloseFirst \/ intact PROVE Orderly'
      OBVIOUS
    <3>2. Ordered(Kept, sent) /\ EndsWith(Kept, sent)
      BY <1>1, <3>1, PeerSendsFacts DEF StreamInv, Orderly
    <3>3. Ordered(Kept \o Wpdu(sent + 1), sent + 1) /\ EndsWith(Kept \o Wpdu(sent + 1), sent + 1)
      BY <1>1, <3>2, PeerSendsFacts, KeptFacts, OrderedMore
    <3>4. QED
      BY <1>1, <3>3, PeerSendsFacts DEF Orderly
  <2>2. QED
    BY <1>1, <2>1, PeerSendsFacts DEF StreamInv
<1>2. CASE StreamBreaks
  <2>1. CloseFirst => Ordered(decoder, sent)
    <3>1. CloseFirst => Ordered(Kept, sent)
      BY DEF StreamInv, Orderly
    <3>2. QED
      BY <3>1, OrderedParts DEF Kept, TypeOK
  <2>2. /\ ~open' /\ rx' = <<>> /\ broken' /\ ~intact'
        /\ UNCHANGED <<decoder, sent>>
    BY <1>2 DEF StreamBreaks
  <2>3. Kept' = decoder
    BY <2>2, ConcatEmptySeq DEF Kept, TypeOK
  <2>4. QED
    BY <2>1, <2>2, <2>3 DEF StreamInv, Orderly
<1>3. CASE ApplicationOpens
  <2>1. CASE open' = open /\ UNCHANGED <<intact, handed>>
    BY <1>3, <2>1, OpensFacts DEF StreamInv, Orderly, Kept
  <2>2. CASE /\ ~open /\ open' /\ handed' = sent
             /\ CloseFirst => ~broken
             /\ intact' => Kept = <<>> /\ pendingFrames = <<>>
    <3>1. UNCHANGED <<rx, decoder, sent, broken>> /\ Kept' = Kept
      BY <1>3, OpensFacts DEF Kept
    <3>2. CloseFirst \/ intact' => Kept = <<>>
      BY <2>2, KeptFacts DEF StreamInv
    <3>3. CloseFirst \/ intact' => Orderly'
      BY <3>1, <3>2, NothingKept DEF Orderly
    <3>4. QED
      BY <2>2, <3>1, <3>3 DEF StreamInv
  <2>3. QED
    BY <1>3, <2>1, <2>2, OpensFacts
<1>4. CASE ApplicationCloses
  <2>1. CloseFirst => Ordered(rx, sent) /\ (open => EndsWith(rx, sent))
    <3>1. CloseFirst => Ordered(Kept, sent) /\ (open => EndsWith(Kept, sent))
      BY DEF StreamInv, Orderly
    <3>2. QED
      BY <3>1, OrderedParts DEF Kept, TypeOK
  <2>2. Kept' = rx'
    <3>1. <<>> \o rx = rx /\ <<>> \o <<>> = <<>>
      BY ConcatEmptySeq DEF TypeOK
    <3>2. QED
      BY <1>4, <3>1, ClosesFacts DEF Kept
  <2>3. CloseFirst => Orderly'
    BY <1>4, <2>1, <2>2, ClosesFacts, NothingKept DEF Orderly
  <2>4. QED
    BY <1>4, <2>3, ClosesFacts DEF StreamInv
<1>5. CASE Receives
  <2>1. UNCHANGED <<sent, broken>> /\ (intact' => intact /\ open' = open)
    BY <1>5, ReceivesFacts
  <2>2. CloseFirst \/ intact' => Orderly'
    <3>1. CloseFirst \/ intact' => Orderly
      BY <2>1 DEF StreamInv
    <3>2. open' => open
      BY <1>5, ReceivesFacts
    <3>3. QED
      BY <1>5, <2>1, <3>1, <3>2, ReceivingKeepsOrder DEF Orderly
  <2>3. /\ ~open' => rx' = <<>>
        /\ CloseFirst => (broken => ~open') /\ (~open' /\ ~broken => decoder' = <<>>)
    <3>1. /\ ~open => rx = <<>>
          /\ CloseFirst => (broken => ~open) /\ (~open /\ ~broken => decoder = <<>>)
      BY DEF StreamInv
    <3>2. \/ UNCHANGED <<rx, open, decoder>>
          \/ open /\ open' = open
          \/ open /\ decoder' = <<>> /\ rx' = <<>> /\ open' = FALSE
      BY <1>5, ReceivesFacts
    <3>3. QED
      BY <3>1, <3>2
  <2>4. intact' => open'
    BY <2>1 DEF StreamInv
  <2>5. QED
    BY <2>1, <2>2, <2>3, <2>4 DEF StreamInv
<1>6. CASE Delivers
  BY <1>6, DeliversFacts DEF StreamInv, Orderly, Kept
<1>7. CASE PeerReads \/ ApplicationCalls \/ UNCHANGED vars
  <2>1. UNCHANGED <<rx, open, decoder, sent, broken, intact>>
    BY <1>7 DEF PeerReads, ApplicationCalls, SendApdu, ReceiveApdu, vars, channelVars, stream
  <2>2. QED
    BY <2>1 DEF StreamInv, Orderly, Kept
<1>8. QED
  BY <1>1, <1>2, <1>3, <1>4, <1>5, <1>6, <1>7 DEF Next, Step

LEMMA AccountInvPreserved ==
  ASSUME TypeOK, StreamInv, AccountInv, [Next]_vars
  PROVE  AccountInv'
<1> USE KeptFacts
<1>1. CASE PeerSends
  <2>1. SUFFICES ASSUME intact PROVE AccountInv'
    BY <1>1, PeerSendsFacts DEF AccountInv
  <2>2. Ordered(Kept, sent) /\ EndsWith(Kept, sent)
    BY <1>1, <2>1, PeerSendsFacts DEF StreamInv, Orderly
  <2>3. /\ Kept' # <<>>
        /\ Kept'[1] = IF Kept = <<>> THEN <<sent + 1, 0>> ELSE Kept[1]
    <3>1. Kept' = Kept \o Wpdu(sent + 1) /\ sent + 1 \in Wpdus
      BY <1>1, PeerSendsFacts
    <3>2. Kept \in Seq(Octet) /\ sent \in Nat
      OBVIOUS
    <3>3. /\ Kept \o Wpdu(sent + 1) # <<>>
          /\ (Kept \o Wpdu(sent + 1))[1] = IF Kept = <<>> THEN <<sent + 1, 0>> ELSE Kept[1]
      BY <2>2, <3>1, <3>2, OrderedMore
    <3>4. QED
      BY <3>1, <3>3
  <2>4. /\ pendingFrames' = [m \in 1..Len(pendingFrames') |-> Apdu(handed' + m)]
        /\ handed' + Len(pendingFrames') <= sent'
    <3>1. /\ sent' = sent + 1 /\ sent \in Nat
          /\ pendingFrames' = pendingFrames /\ handed' = handed
      BY <1>1, PeerSendsFacts
    <3>2. /\ pendingFrames = [m \in 1..Len(pendingFrames) |-> Apdu(handed + m)]
          /\ handed + Len(pendingFrames) <= sent
      BY <2>1 DEF AccountInv
    <3>3. handed \in Nat /\ Len(pendingFrames) \in Nat
      BY LenProperties DEF TypeOK
    <3>4. handed + Len(pendingFrames) <= sent + 1
      BY <3>1, <3>2, <3>3
    <3>5. QED
      BY <3>1, <3>2, <3>4
  <2>5. Kept'[1] = <<handed' + Len(pendingFrames') + 1, 0>>
    BY <1>1, <2>1, <2>3, PeerSendsFacts DEF AccountInv
  <2>6. QED
    BY <2>3, <2>4, <2>5 DEF AccountInv
<1>2. CASE StreamBreaks \/ ApplicationCloses
  <2>1. ~intact'
    BY <1>2, ClosesFacts DEF StreamBreaks
  <2>2. QED
    BY <2>1 DEF AccountInv
<1>3. CASE ApplicationOpens
  <2>1. UNCHANGED <<pendingFrames, sent>> /\ Kept' = Kept
    BY <1>3, OpensFacts DEF Kept
  <2>2. CASE UNCHANGED <<intact, handed>>
    BY <2>1, <2>2 DEF AccountInv
  <2>3. CASE handed' = sent /\ (intact' => Kept = <<>> /\ pendingFrames = <<>>)
    <3>1. SUFFICES ASSUME intact' PROVE AccountInv'
      BY DEF AccountInv
    <3>2. Kept' = <<>> /\ pendingFrames' = <<>> /\ Len(pendingFrames') = 0
      BY <2>1, <2>3, <3>1
    <3>3. handed' + 0 = sent'
      BY <2>1, <2>3
    <3>4. pendingFrames' = [m \in 1..Len(pendingFrames') |-> Apdu(handed' + m)]
      <4>1. <<>> = [m \in 1..0 |-> Apdu(handed' + m)]
        OBVIOUS
      <4>2. QED
        BY <3>2, <4>1
    <3>5. handed' + Len(pendingFrames') <= sent'
      BY <2>1, <2>3, <3>2
    <3>6. QED
      BY <2>1, <2>3, <3>2, <3>3, <3>4, <3>5 DEF AccountInv
  <2>4. QED
    BY <1>3, <2>2, <2>3, OpensFacts
<1>4. CASE Receives
  <2>1. SUFFICES ASSUME intact' PROVE AccountInv'
    BY DEF AccountInv
  <2>2. /\ intact /\ open' = open /\ open
        /\ pendingFrames = <<>> /\ Len(pendingFrames) = 0
        /\ UNCHANGED <<sent, handed>>
    BY <1>4, <2>1, ReceivesFacts DEF StreamInv
  <2>3. /\ handed <= sent
        /\ IF Kept = <<>> THEN handed = sent ELSE Kept[1] = <<handed + 1, 0>>
    BY <2>2 DEF AccountInv
  <2>4. CASE UNCHANGED <<rx, open, decoder, pendingFrames>>
    BY <2>2, <2>4 DEF AccountInv, Kept
  <2>5. CASE ~UNCHANGED <<rx, open, decoder, pendingFrames>>
    <3>1. PICK octets \in Seq(Octet), more \in Seq(Octet) :
            /\ Kept = octets \o more
            /\ decoder' = Decoded(octets).rest /\ rx' = more
            /\ pendingFrames' = Decoded(octets).frames
      BY <1>4, <2>1, <2>2, <2>5, ReceivesFacts
    <3>2. Ordered(Kept, sent) /\ EndsWith(Kept, sent)
      BY <2>2 DEF StreamInv, Orderly
    <3>3. /\ TakenFrom(Kept, pendingFrames', Kept', sent)
          /\ pendingFrames' \in Seq(Seq(Octet))
      BY <3>1, <3>2, DecodedOnStream DEF Kept
    <3>4. CASE pendingFrames' = <<>>
      <4>1. Kept' = Kept
        BY <3>3, <3>4 DEF TakenFrom
      <4>2. QED
        BY <2>2, <3>4, <4>1 DEF AccountInv
    <3>5. CASE pendingFrames' # <<>>
      <4>1. PICK q \in Wpdus, last \in Wpdus :
              /\ Kept # <<>> /\ Kept[1] = <<q, 0>>
              /\ last = q + Len(pendingFrames') - 1 /\ last <= sent
              /\ \A m \in 1..Len(pendingFrames') : pendingFrames'[m] = Apdu(q + m - 1)
              /\ Kept' = <<>> /\ EndsWith(Kept, sent) => last = sent
              /\ Kept' # <<>> => Kept'[1] = <<last + 1, 0>>
        BY <3>3, <3>5 DEF TakenFrom
      <4>2. q = handed + 1 /\ Len(pendingFrames') \in Nat
        BY <2>3, <3>3, <4>1, LenProperties
      <4>3. last = handed' + Len(pendingFrames') /\ last <= sent'
        BY <2>2, <4>1, <4>2
      <4>4. pendingFrames' = [m \in 1..Len(pendingFrames') |-> Apdu(handed' + m)]
        <5> DEFINE f == [m \in 1..Len(pendingFrames') |-> Apdu(handed' + m)]
        <5>1. ASSUME NEW m \in 1..Len(pendingFrames') PROVE pendingFrames'[m] = f[m]
          <6>1. q + m - 1 = handed' + m
            BY <2>2, <4>2
          <6>2. pendingFrames'[m] = Apdu(q + m - 1) /\ f[m] = Apdu(handed' + m)
            BY <4>1
          <6>3. QED
            BY <6>1, <6>2
        <5>2. pendingFrames' = [m \in 1..Len(pendingFrames') |-> pendingFrames'[m]]
          BY <3>3, <4>2
        <5>3. QED
          BY <5>1, <5>2, Zenon
      <4>5. IF Kept' = <<>> THEN handed' + Len(pendingFrames') = sent'
            ELSE Kept'[1] = <<handed' + Len(pendingFrames') + 1, 0>>
        BY <2>2, <3>2, <4>1, <4>3
      <4>6. QED
        BY <4>3, <4>4, <4>5 DEF AccountInv
    <3>6. QED
      BY <3>4, <3>5
  <2>6. QED
    BY <2>4, <2>5
<1>5. CASE Delivers
  <2>1. SUFFICES ASSUME intact' PROVE AccountInv'
    BY DEF AccountInv
  <2>2. UNCHANGED sent /\ Kept' = Kept /\ intact
    BY <1>5, <2>1, DeliversFacts DEF Kept
  <2>3. CASE UNCHANGED <<pendingFrames, handed>>
    BY <2>2, <2>3 DEF AccountInv
  <2>4. CASE pendingFrames' = Tail(pendingFrames) /\ handed' = handed + 1
    <3>1. /\ pendingFrames = [m \in 1..Len(pendingFrames) |-> Apdu(handed + m)]
          /\ handed + Len(pendingFrames) <= sent
          /\ IF Kept = <<>> THEN handed + Len(pendingFrames) = sent
             ELSE Kept[1] = <<handed + Len(pendingFrames) + 1, 0>>
      BY <2>2 DEF AccountInv
    <3>2. pendingFrames # <<>> /\ pendingFrames \in Seq(Seq(Octet))
      BY <1>5, DeliversFacts DEF TypeOK
    <3>3. /\ pendingFrames' \in Seq(Seq(Octet))
          /\ Len(pendingFrames') = Len(pendingFrames) - 1
          /\ \A m \in 1..Len(pendingFrames') : pendingFrames'[m] = pendingFrames[m + 1]
      BY <2>4, <3>2, HeadTailProperties
    <3>4. /\ Len(pendingFrames') \in Nat
          /\ handed' + Len(pendingFrames') = handed + Len(pendingFrames)
      <4>1. handed \in Nat /\ Len(pendingFrames) \in Nat \ {0}
        BY <3>2
      <4>2. \A h, n \in Nat : n # 0 => n - 1 \in Nat /\ (h + 1) + (n - 1) = h + n
        OBVIOUS
      <4>3. QED
        BY <2>4, <3>3, <4>1, <4>2
    <3>5. pendingFrames' = [m \in 1..Len(pendingFrames') |-> Apdu(handed' + m)]
      <4> DEFINE f == [m \in 1..Len(pendingFrames') |-> Apdu(handed' + m)]
      <4>1. ASSUME NEW m \in 1..Len(pendingFrames') PROVE pendingFrames'[m] = f[m]
        <5>1. m + 1 \in 1..Len(pendingFrames) /\ handed + (m + 1) = handed' + m
          BY <2>4, <3>3, <3>4
        <5>2. pendingFrames[m + 1] = Apdu(handed + (m + 1))
          BY <3>1, <5>1, Zenon
        <5>3. f[m] = Apdu(handed' + m)
          OBVIOUS
        <5>4. QED
          BY <3>3, <5>1, <5>2, <5>3
      <4>2. pendingFrames' = [m \in 1..Len(pendingFrames') |-> pendingFrames'[m]]
        BY <3>3, <3>4
      <4>3. QED
        BY <4>1, <4>2, Zenon
    <3>6. QED
      BY <2>2, <3>1, <3>4, <3>5 DEF AccountInv
  <2>5. QED
    BY <1>5, <2>2, <2>3, <2>4, DeliversFacts
<1>6. CASE PeerReads \/ ApplicationCalls \/ UNCHANGED vars
  <2>1. UNCHANGED <<rx, decoder, pendingFrames, sent, intact, handed>>
    BY <1>6 DEF PeerReads, ApplicationCalls, SendApdu, ReceiveApdu, vars, channelVars, stream
  <2>2. QED
    BY <2>1 DEF AccountInv, Kept
<1>7. QED
  BY <1>1, <1>2, <1>3, <1>4, <1>5, <1>6 DEF Next, Step

LEMMA InvPreserved == Inv /\ [Next]_vars => Inv'
<1> SUFFICES ASSUME Inv, [Next]_vars PROVE Inv'
  OBVIOUS
<1>1. TypeOK /\ StreamInv /\ AccountInv
  BY DEF Inv
<1>2. TypeOK'
  <2>1. CASE UNCHANGED vars
    BY <1>1, <2>1 DEF TypeOK, vars, channelVars, stream
  <2>2. CASE Next
    BY <1>1, <2>2, TypeKeptByPeer, TypeKeptByApplication, TypeKeptByReceiving DEF Next, Step
  <2>3. QED
    BY <2>1, <2>2
<1>3. StreamInv' /\ AccountInv'
  BY <1>1, StreamInvPreserved, AccountInvPreserved
<1>4. QED
  BY <1>2, <1>3 DEF Inv

LEMMA AlwaysInv == Spec => []Inv
BY InitInv, InvPreserved, PTL DEF Spec

(* Every variable of the channel and its histories keeps its type; that no *)
(* more WPDUs are counted as handed over than were sent rests on the       *)
(* account of the queue.                                                   *)
THEOREM TcpTypeCorrect == Spec => []TypeOK
<1>1. Inv => TypeOK
  BY DEF Inv
<1>2. QED
  BY <1>1, AlwaysInv, PTL

(* On one stream, until a WPDU is damaged or the sink throws, ReceiveApdu  *)
(* loses no octet and makes none up: for every sequence of WPDUs, however  *)
(* the reads split them, whichever fail and whichever buffers are small.   *)
THEOREM OctetsAccounted == Spec => []Accounted
<1>1. ASSUME Inv PROVE Accounted
  <2>1. SUFFICES ASSUME intact PROVE Accounted
    BY DEF Accounted
  <2> DEFINE k == handed + Len(pendingFrames) + 1
  <2>2. /\ pendingFrames = [m \in 1..Len(pendingFrames) |-> Apdu(handed + m)]
        /\ k <= sent + 1 /\ k \in Nat /\ sent \in Nat /\ Kept \in Seq(Octet)
        /\ IF Kept = <<>> THEN k = sent + 1 ELSE Kept[1] = <<k, 0>>
    <3>1. /\ handed + Len(pendingFrames) <= sent
          /\ IF Kept = <<>> THEN handed + Len(pendingFrames) = sent ELSE Kept[1] = <<k, 0>>
      BY <1>1, <2>1 DEF Inv, AccountInv
    <3>2. /\ handed \in Nat /\ Len(pendingFrames) \in Nat /\ sent \in Nat
          /\ Kept \in Seq(Octet)
      BY <1>1, KeptFacts DEF Inv
    <3>3. pendingFrames = [m \in 1..Len(pendingFrames) |-> Apdu(handed + m)]
      BY <1>1, <2>1 DEF Inv, AccountInv
    <3>4. QED
      BY <3>1, <3>2, <3>3
  <2>3. Ordered(Kept, sent) /\ EndsWith(Kept, sent)
    BY <1>1, <2>1 DEF Inv, StreamInv, Orderly
  <2>4. Runs(Kept, k, sent)
    <3> HIDE DEF k
    <3>1. CASE Kept = <<>>
      BY <2>2, <3>1 DEF Runs
    <3>2. CASE Kept # <<>>
      <4>1. 1 \in 1..Len(Kept)
        BY <2>2, <3>2, LenProperties, EmptySeq
      <4>2. k <= sent
        BY <2>2, <2>3, <3>2, <4>1 DEF Ordered
      <4>3. QED
        BY <2>2, <2>3, <3>2, <4>2 DEF Runs, Ordered, Contiguous, EndsWith
    <3>3. QED
      BY <3>1, <3>2
  <2>5. QED
    BY <2>2, <2>4 DEF Accounted, Kept
<1>2. QED
  BY <1>1, AlwaysInv, PTL

-----------------------------------------------------------------------------
(* The APDUs that are handed over, seen from the peer.                     *)

(* APDUs are told apart by their octets; of empty ones there is one.       *)
Distinguishable ==
  \A i, j \in Wpdus : Lengths[i] = 0 /\ Lengths[j] = 0 => i = j

PositionOf(apdu) ==
  IF \E i \in Wpdus : Apdu(i) = apdu THEN CHOOSE i \in Wpdus : Apdu(i) = apdu ELSE 0

(* The APDUs in the order in which the application gets them.              *)
Queue == got \o pendingFrames

InOrder(queue, n) ==
  /\ \A k \in 1..Len(queue) : PositionOf(queue[k]) \in 1..n
  /\ \A k, l \in 1..Len(queue) : k < l => PositionOf(queue[k]) < PositionOf(queue[l])

Before(queue, octets) ==
  octets # <<>> => \A k \in 1..Len(queue) : PositionOf(queue[k]) < octets[1][1]

(* They are in the order sent, and all before what is kept.                *)
OrderInv == InOrder(Queue, sent) /\ Before(Queue, Kept)

LEMMA PositionOfApdu ==
  ASSUME Distinguishable, NEW i \in Wpdus
  PROVE  PositionOf(Apdu(i)) = i
<1>1. ASSUME NEW j \in Wpdus, Apdu(j) = Apdu(i) PROVE j = i
  <2>1. Lengths[i] \in Nat /\ Lengths[j] \in Nat /\ Lengths[j] = Lengths[i]
    BY <1>1, OctetFacts, WpduFacts
  <2>2. CASE Lengths[i] = 0
    BY <2>1, <2>2 DEF Distinguishable
  <2>3. CASE Lengths[i] # 0
    <3>1. 1 \in 1..Lengths[i] /\ 1 \in 1..Lengths[j]
      BY <2>1, <2>3
    <3>2. Apdu(i)[1] = <<i, 1>> /\ Apdu(j)[1] = <<j, 1>>
      BY <3>1, WpduFacts
    <3>3. QED
      BY <1>1, <3>2
  <2>4. QED
    BY <2>2, <2>3
<1>2. QED
  BY <1>1 DEF PositionOf

LEMMA InOrderPrefix ==
  ASSUME NEW S, NEW a \in Seq(S), NEW b \in Seq(S), NEW n, InOrder(a \o b, n)
  PROVE  InOrder(a, n)
<1> DEFINE c == a \o b
<1>1. /\ Len(a) \in Nat /\ Len(b) \in Nat /\ Len(c) = Len(a) + Len(b)
      /\ \A m \in 1..Len(a) : c[m] = a[m]
  BY Joined
<1>2. InOrder(c, n)
  OBVIOUS
<1> HIDE DEF c
<1>3. \A m \in 1..Len(a) : m \in 1..Len(c)
  BY <1>1
<1>4. QED
  BY <1>1, <1>2, <1>3 DEF InOrder

LEMMA BeforePrefix ==
  ASSUME NEW S, NEW a \in Seq(S), NEW b \in Seq(S), NEW octets, Before(a \o b, octets)
  PROVE  Before(a, octets)
<1> DEFINE c == a \o b
<1>1. /\ Len(a) \in Nat /\ Len(b) \in Nat /\ Len(c) = Len(a) + Len(b)
      /\ \A m \in 1..Len(a) : c[m] = a[m]
  BY Joined
<1>2. Before(c, octets)
  OBVIOUS
<1> HIDE DEF c
<1>3. \A m \in 1..Len(a) : m \in 1..Len(c)
  BY <1>1
<1>4. QED
  BY <1>1, <1>2, <1>3 DEF Before

(* What is before some octets is before those behind them.                 *)
LEMMA BeforeRest ==
  ASSUME NEW a \in Seq(Octet), NEW b \in Seq(Octet), Contiguous(a \o b),
         NEW queue, NEW n, InOrder(queue, n), Before(queue, a \o b)
  PROVE  Before(queue, b)
<1> DEFINE c == a \o b
<1>1. /\ c \in Seq(Octet)
      /\ Len(a) \in Nat /\ Len(b) \in Nat /\ Len(c) = Len(a) + Len(b)
      /\ \A m \in 1..Len(b) : c[Len(a) + m] = b[m]
      /\ c = <<>> <=> a = <<>> /\ b = <<>>
  BY Joined
<1>2. Contiguous(c) /\ Before(queue, c)
  OBVIOUS
<1> HIDE DEF c
<1>3. SUFFICES ASSUME b # <<>>, NEW k \in 1..Len(queue)
               PROVE  PositionOf(queue[k]) < b[1][1]
  BY DEF Before
<1>4. PositionOf(queue[k]) \in Int /\ PositionOf(queue[k]) < c[1][1]
  BY <1>1, <1>2, <1>3 DEF Before, InOrder
<1>5. 1 \in 1..Len(b) /\ Len(a) + 1 \in 1..Len(c) /\ 1 \in 1..Len(c)
  BY <1>1, <1>3, EmptySeq
<1>6. c[1][1] <= c[Len(a) + 1][1] /\ c[Len(a) + 1] = b[1]
  BY <1>1, <1>2, <1>5, Monotone
<1>7. c[1][1] \in Nat /\ b[1][1] \in Nat
  <2>1. c[1] \in Octet /\ b[1] \in Octet
    BY <1>1, <1>5, ElementOfSeq
  <2>2. c[1][1] \in Wpdus /\ b[1][1] \in Wpdus
    BY <2>1, OctetFacts
  <2>3. QED
    BY <2>2 DEF Wpdus
<1>8. QED
  BY <1>4, <1>6, <1>7

(* Frames that were taken from what is kept come behind the queue.         *)
LEMMA QueueGrows ==
  ASSUME Distinguishable, NEW queue \in Seq(Seq(Octet)), NEW frames \in Seq(Seq(Octet)),
         NEW n \in Nat, NEW octets \in Seq(Octet), NEW left,
         InOrder(queue, n), Before(queue, octets), TakenFrom(octets, frames, left, n)
  PROVE  InOrder(queue \o frames, n) /\ Before(queue \o frames, left)
<1> DEFINE c == queue \o frames
<1>1. /\ Len(queue) \in Nat /\ Len(frames) \in Nat /\ Len(c) = Len(queue) + Len(frames)
      /\ \A m \in 1..Len(queue) : c[m] = queue[m]
      /\ \A m \in 1..Len(frames) : c[Len(queue) + m] = frames[m]
  BY Joined
<1>2. CASE frames = <<>>
  <2>1. c = queue /\ left = octets
    BY <1>2, ConcatEmptySeq DEF TakenFrom
  <2>2. QED
    BY <2>1
<1>3. CASE frames # <<>>
  <2> HIDE DEF c
  <2>1. PICK q \in Wpdus, last \in Wpdus :
          /\ octets # <<>> /\ octets[1] = <<q, 0>>
          /\ last = q + Len(frames) - 1 /\ last <= n
          /\ \A m \in 1..Len(frames) : frames[m] = Apdu(q + m - 1)
          /\ left # <<>> => left[1] = <<last + 1, 0>>
    BY <1>3 DEF TakenFrom
  <2>2. q \in Nat \ {0} /\ last \in Nat /\ q <= last /\ last <= Len(Lengths)
    <3>1. Len(frames) # 0
      BY <1>3, EmptySeq
    <3>2. QED
      BY <1>1, <2>1, <3>1, OctetFacts DEF Wpdus
  <2>3. \A m \in 1..Len(queue) : /\ PositionOf(c[m]) \in 1..n
                                 /\ PositionOf(c[m]) < q
    BY <1>1, <2>1 DEF InOrder, Before
  <2>4. ASSUME NEW m \in 1..Len(frames)
        PROVE  PositionOf(c[Len(queue) + m]) = q + m - 1 /\ q + m - 1 \in q..last
    <3>1. q + m - 1 \in Wpdus /\ q + m - 1 \in q..last
      <4>1. m \in Nat /\ 1 <= m /\ m <= Len(frames) /\ Len(frames) \in Nat
        BY <1>1
      <4>2. /\ q + m - 1 \in Nat /\ q <= q + m - 1
            /\ q + m - 1 <= q + Len(frames) - 1
        BY <2>2, <4>1
      <4>3. q + m - 1 \in 1..Len(Lengths) /\ q + m - 1 \in q..last
        <5> DEFINE i == q + m - 1
        <5>1. i \in Nat /\ q <= i /\ i <= last
          BY <2>1, <4>2
        <5>2. Len(Lengths) \in Nat
          BY OctetFacts
        <5> HIDE DEF i
        <5>3. i \in 1..Len(Lengths) /\ i \in q..last
          BY <2>2, <5>1, <5>2
        <5>4. QED
          BY <5>3 DEF i
      <4>4. QED
        BY <4>3 DEF Wpdus
    <3>2. c[Len(queue) + m] = Apdu(q + m - 1)
      BY <1>1, <2>1
    <3>3. QED
      BY <3>1, <3>2, PositionOfApdu
  <2>5. ASSUME NEW k \in 1..Len(c)
        PROVE  \/ k \in 1..Len(queue)
               \/ /\ k > Len(queue) /\ k - Len(queue) \in 1..Len(frames)
                  /\ PositionOf(c[k]) = q + (k - Len(queue)) - 1
                  /\ PositionOf(c[k]) \in q..last
    <3>1. CASE k > Len(queue)
      <4>1. /\ k - Len(queue) \in 1..Len(frames)
            /\ Len(queue) + (k - Len(queue)) = k
        BY <1>1, <3>1
      <4>2. QED
        BY <2>4, <3>1, <4>1
    <3>2. QED
      BY <1>1, <3>1
  <2>6. ASSUME NEW k \in 1..Len(c)
        PROVE  PositionOf(c[k]) \in 1..n /\ PositionOf(c[k]) <= last
    <3>1. CASE k \in 1..Len(queue)
      <4>1. PositionOf(c[k]) \in 1..n /\ PositionOf(c[k]) < q
        BY <2>3, <3>1
      <4>2. QED
        BY <2>2, <4>1
    <3>2. CASE PositionOf(c[k]) \in q..last
      BY <2>1, <2>2, <3>2
    <3>3. QED
      BY <2>5, <3>1, <3>2
  <2>7. ASSUME NEW k \in 1..Len(c), NEW l \in 1..Len(c), k < l
        PROVE  PositionOf(c[k]) < PositionOf(c[l])
    <3>1. CASE l \in 1..Len(queue)
      <4>1. k \in 1..Len(queue)
        BY <1>1, <2>7, <3>1
      <4>2. QED
        BY <1>1, <2>7, <3>1, <4>1 DEF InOrder
    <3>2. CASE l \notin 1..Len(queue) /\ k \in 1..Len(queue)
      BY <2>2, <2>3, <2>5, <3>2
    <3>3. CASE l \notin 1..Len(queue) /\ k \notin 1..Len(queue)
      BY <1>1, <2>2, <2>5, <2>7, <3>3
    <3>4. QED
      BY <3>1, <3>2, <3>3
  <2>8. InOrder(c, n)
    BY <2>6, <2>7 DEF InOrder
  <2>9. Before(c, left)
    BY <2>1, <2>2, <2>6 DEF Before
  <2>10. QED
    BY <2>8, <2>9 DEF c
<1>4. QED
  BY <1>2, <1>3

LEMMA NothingQueued == InOrder(<<>>, 0) /\ \A octets : Before(<<>>, octets)
<1>1. Len(<<>>) = 0
  OBVIOUS
<1>2. QED
  BY <1>1 DEF InOrder, Before

LEMMA HeadMovesOver ==
  ASSUME NEW S, NEW a \in Seq(S), NEW b \in Seq(S), b # <<>>
  PROVE  Append(a, Head(b)) \o Tail(b) = a \o b
OBVIOUS

LEMMA OrderInvPreserved ==
  ASSUME CloseFirst, Distinguishable, TypeOK, StreamInv, OrderInv, [Next]_vars
  PROVE  OrderInv'
<1> USE KeptFacts
<1>1. /\ Ordered(Kept, sent) /\ Contiguous(Kept)
      /\ got \in Seq(Seq(Octet)) /\ pendingFrames \in Seq(Seq(Octet))
      /\ Queue \in Seq(Seq(Octet))
      /\ InOrder(Queue, sent) /\ Before(Queue, Kept)
  <2>1. got \in Seq(Seq(Octet)) /\ pendingFrames \in Seq(Seq(Octet))
    BY DEF TypeOK
  <2>2. Queue \in Seq(Seq(Octet))
    BY <2>1, ConcatProperties DEF Queue
  <2>3. QED
    BY <2>1, <2>2 DEF StreamInv, Orderly, Ordered, OrderInv
<1>2. InOrder(got, sent) /\ Before(got, Kept)
  BY <1>1, InOrderPrefix, BeforePrefix DEF Queue
<1>3. CASE PeerSends
  <2>1. Ordered(Kept, sent) /\ EndsWith(Kept, sent)
    BY <1>1, <1>3, PeerSendsFacts DEF StreamInv, Orderly
  <2>2. Kept'[1] = IF Kept = <<>> THEN <<sent + 1, 0>> ELSE Kept[1]
    <3>1. sent \in Nat /\ sent + 1 \in Wpdus /\ Kept' = Kept \o Wpdu(sent + 1)
      BY <1>3, PeerSendsFacts
    <3>2. (Kept \o Wpdu(sent + 1))[1] = IF Kept = <<>> THEN <<sent + 1, 0>> ELSE Kept[1]
      BY <2>1, <3>1, OrderedMore
    <3>3. QED
      BY <3>1, <3>2
  <2>3. Queue' = Queue /\ sent' = sent + 1
    BY <1>3, PeerSendsFacts DEF Queue
  <2>4. \A k \in 1..Len(Queue) : PositionOf(Queue[k]) \in 1..(sent + 1)
                                 /\ PositionOf(Queue[k]) < sent + 1
    BY <1>1 DEF InOrder
  <2>5. \A k \in 1..Len(Queue) : PositionOf(Queue[k]) < Kept'[1][1]
    BY <1>1, <2>2, <2>4 DEF Before
  <2>6. InOrder(Queue, sent + 1)
    BY <1>1, <2>4 DEF InOrder
  <2>7. QED
    BY <2>3, <2>5, <2>6 DEF OrderInv, Before
<1>4. CASE StreamBreaks
  <2>1. UNCHANGED <<decoder, pendingFrames, got, sent>> /\ rx' = <<>>
    BY <1>4 DEF StreamBreaks
  <2>2. Kept' = decoder /\ Queue' = Queue
    BY <2>1, ConcatEmptySeq DEF Kept, Queue, TypeOK
  <2>3. decoder # <<>> => Kept # <<>> /\ Kept[1] = decoder[1]
    <3>1. decoder \in Seq(Octet) /\ rx \in Seq(Octet)
      BY DEF TypeOK
    <3>2. \A m \in 1..Len(decoder) : Kept[m] = decoder[m]
      BY <3>1, Joined DEF Kept
    <3>3. decoder # <<>> => 1 \in 1..Len(decoder)
      BY <3>1, EmptySeq, LenProperties
    <3>4. QED
      BY <3>2, <3>3
  <2>4. QED
    BY <1>1, <2>1, <2>2, <2>3 DEF OrderInv, Before
<1>5. CASE ApplicationCloses
  <2>1. Queue' = got /\ UNCHANGED <<got, sent>>
    BY <1>1, <1>5, ClosesFacts, ConcatEmptySeq DEF Queue
  <2>2. Kept' = rx \/ Kept' = <<>>
    <3>1. <<>> \o rx = rx /\ <<>> \o <<>> = <<>>
      BY ConcatEmptySeq DEF TypeOK
    <3>2. QED
      BY <1>5, <3>1, ClosesFacts DEF Kept
  <2>3. Before(got, rx) /\ Before(got, <<>>)
    <3>1. decoder \in Seq(Octet) /\ rx \in Seq(Octet)
      BY DEF TypeOK
    <3>2. Contiguous(decoder \o rx) /\ Before(got, decoder \o rx)
      BY <1>1, <1>2 DEF Kept
    <3>3. QED
      BY <1>2, <3>1, <3>2, BeforeRest DEF Before
  <2>4. QED
    BY <1>2, <2>1, <2>2, <2>3 DEF OrderInv
<1>6. CASE Receives
  <2>1. CASE UNCHANGED <<rx, open, decoder, pendingFrames>>
    BY <1>1, <1>6, <2>1, ReceivesFacts DEF OrderInv, Queue, Kept
  <2>2. CASE ~UNCHANGED <<rx, open, decoder, pendingFrames>>
    <3>1. PICK octets \in Seq(Octet), more \in Seq(Octet) :
            /\ open /\ Kept = octets \o more
            /\ \/ /\ decoder' = Decoded(octets).rest /\ rx' = more /\ open' = open
                  /\ pendingFrames' = Decoded(octets).frames
               \/ /\ decoder' = <<>> /\ rx' = more /\ open' = open
                  /\ pendingFrames' = <<>> /\ ~intact'
               \/ /\ decoder' = <<>> /\ rx' = <<>> /\ open' = FALSE
                  /\ pendingFrames' = Decoded(octets).frames /\ ~intact'
      BY <1>6, <2>2, ReceivesFacts
    <3>2. UNCHANGED <<got, sent>>
      BY <1>6, ReceivesFacts
    <3> DEFINE frames == Decoded(octets).frames
               left == Decoded(octets).rest \o more
    <3>3. /\ frames \in Seq(Seq(Octet))
          /\ TakenFrom(Kept, frames, left, sent)
      BY <1>1, <3>1, DecodedOnStream
    <3> HIDE DEF frames
    <3>4. InOrder(got \o frames, sent) /\ Before(got \o frames, left)
      BY <1>1, <1>2, <3>3, QueueGrows
    <3>5. Before(got, more)
      BY <1>1, <1>2, <3>1, BeforeRest
    <3>6. got \o <<>> = got /\ <<>> \o more = more /\ <<>> \o <<>> = <<>>
      BY <1>1, ConcatEmptySeq
    <3>7. CASE decoder' = Decoded(octets).rest /\ rx' = more /\ pendingFrames' = frames
      BY <3>2, <3>4, <3>7 DEF OrderInv, Queue, Kept
    <3>8. CASE decoder' = <<>> /\ rx' = more /\ pendingFrames' = <<>>
      BY <1>2, <3>2, <3>5, <3>6, <3>8 DEF OrderInv, Queue, Kept
    <3>9. CASE decoder' = <<>> /\ rx' = <<>> /\ pendingFrames' = frames
      <4>1. Before(got \o frames, <<>>)
        BY DEF Before
      <4>2. QED
        BY <3>2, <3>4, <3>6, <3>9, <4>1 DEF OrderInv, Queue, Kept
    <3>10. QED
      BY <3>1, <3>7, <3>8, <3>9 DEF frames
  <2>3. QED
    BY <2>1, <2>2
<1>7. CASE Delivers
  <2>1. Queue' = Queue
    <3>1. CASE UNCHANGED <<got, pendingFrames>>
      BY <3>1 DEF Queue
    <3>2. CASE /\ got' = Append(got, Head(pendingFrames))
               /\ pendingFrames' = Tail(pendingFrames)
      BY <1>1, <1>7, <3>2, DeliversFacts, HeadMovesOver DEF Queue
    <3>3. QED
      BY <1>7, <3>1, <3>2, DeliversFacts
  <2>2. Kept' = Kept /\ sent' = sent
    BY <1>7, DeliversFacts DEF Kept
  <2>3. QED
    BY <1>1, <2>1, <2>2 DEF OrderInv
<1>8. CASE ApplicationOpens \/ PeerReads \/ ApplicationCalls \/ UNCHANGED vars
  <2>1. UNCHANGED <<rx, decoder, pendingFrames, got, sent>>
    BY <1>8, OpensFacts
    DEF PeerReads, ApplicationCalls, SendApdu, ReceiveApdu, vars, channelVars, stream
  <2>2. QED
    BY <1>1, <2>1 DEF OrderInv, Queue, Kept
<1>9. QED
  BY <1>3, <1>4, <1>5, <1>6, <1>7, <1>8 DEF Next, Step

(* What was handed over, and the next of the queue.                        *)
LEMMA PositionsInOrder ==
  ASSUME TypeOK, OrderInv, Delivers, got' # got
  PROVE  \E i \in 1..sent : /\ \A k \in 1..Len(Positions) : Positions[k] < i
                            /\ Positions' = Append(Positions, i)
<1> DEFINE first == Head(pendingFrames)
           i == PositionOf(first)
<1>1. /\ got' = Append(got, first) /\ first \in Seq(Octet) /\ pendingFrames # <<>>
      /\ got \in Seq(Seq(Octet)) /\ pendingFrames \in Seq(Seq(Octet))
      /\ first = pendingFrames[1]
  BY DeliversFacts, HeadTailProperties DEF TypeOK
<1>2. /\ Len(got) \in Nat /\ Len(pendingFrames) \in Nat \ {0}
      /\ Len(Queue) = Len(got) + Len(pendingFrames)
      /\ \A m \in 1..Len(got) : Queue[m] = got[m]
      /\ \A m \in 1..Len(pendingFrames) : Queue[Len(got) + m] = pendingFrames[m]
  BY <1>1, Joined, EmptySeq DEF Queue
<1> HIDE DEF first
<1>3. Queue[Len(got) + 1] = first /\ Len(got) + 1 \in 1..Len(Queue)
  <2>1. 1 \in 1..Len(pendingFrames)
    BY <1>2
  <2>2. QED
    BY <1>1, <1>2, <2>1
<1>4. i \in 1..sent /\ \A k \in 1..Len(got) : PositionOf(got[k]) < i
  <2>1. InOrder(Queue, sent)
    BY DEF OrderInv
  <2>2. \A k \in 1..Len(got) : k \in 1..Len(Queue) /\ k < Len(got) + 1
    BY <1>2
  <2>3. QED
    BY <1>2, <1>3, <2>1, <2>2 DEF InOrder
<1>5. /\ Positions = [k \in 1..Len(got) |-> PositionOf(got[k])]
      /\ Positions' = [k \in 1..Len(got') |-> PositionOf(got'[k])]
  BY Zenon DEF Positions, PositionOf
<1> HIDE DEF i
<1>6. /\ Len(got') = Len(got) + 1
      /\ \A k \in 1..Len(got) : got'[k] = got[k]
      /\ got'[Len(got) + 1] = first
  BY <1>1, AppendProperties
<1>7. /\ Positions \in Seq(Nat) /\ Len(Positions) = Len(got)
      /\ i \in Nat
  <2>1. i \in Nat
    BY <1>4
  <2>2. \A k \in 1..Len(got) : PositionOf(got[k]) \in Nat
    <3>1. \A k \in 1..Len(got) : k \in 1..Len(Queue) /\ Queue[k] = got[k]
      BY <1>2
    <3>2. QED
      BY <3>1 DEF OrderInv, InOrder
  <2>3. Positions \in [1..Len(got) -> Nat]
    BY <1>5, <2>2
  <2>4. Positions \in Seq(Nat)
    BY <1>2, <2>3, SeqDef
  <2>5. QED
    BY <1>2, <1>5, <2>1, <2>4, LenProperties
<1>8. Positions' = Append(Positions, i)
  <2>1. /\ Append(Positions, i) \in Seq(Nat)
        /\ Len(Append(Positions, i)) = Len(got) + 1
        /\ \A k \in 1..Len(got) : Append(Positions, i)[k] = Positions[k]
        /\ Append(Positions, i)[Len(got) + 1] = i
    BY <1>7, AppendProperties
  <2>2. ASSUME NEW k \in 1..(Len(got) + 1)
        PROVE  Positions'[k] = Append(Positions, i)[k] /\ Positions'[k] \in Nat
    <3>1. CASE k <= Len(got)
      <4>1. k \in 1..Len(got)
        BY <1>2, <3>1
      <4>2. Positions'[k] = Positions[k]
        BY <1>5, <1>6, <4>1
      <4>3. Positions[k] \in Nat
        BY <1>7, <4>1, ElementOfSeq
      <4>4. QED
        BY <2>1, <4>1, <4>2, <4>3
    <3>2. CASE ~(k <= Len(got))
      <4>1. k = Len(got) + 1
        BY <1>2, <3>2
      <4>2. Positions'[k] = i
        BY <1>5, <1>6, <4>1 DEF i
      <4>3. QED
        BY <1>7, <2>1, <4>1, <4>2
    <3>3. QED
      BY <3>1, <3>2
  <2>3. Positions' \in Seq(Nat) /\ Len(Positions') = Len(got) + 1
    <3>1. Positions' \in [1..(Len(got) + 1) -> Nat]
      BY <1>5, <1>6, <2>2
    <3>2. Positions' \in Seq(Nat)
      BY <1>2, <3>1, SeqDef
    <3>3. QED
      BY <1>2, <1>5, <1>6, <3>2, LenProperties
  <2>4. QED
    BY <2>1, <2>2, <2>3, SeqEqual
<1>9. QED
  BY <1>4, <1>5, <1>7, <1>8 DEF i

LEMMA SentAppended ==
  ASSUME NEW n \in Nat
  PROVE  [i \in 1..(n + 1) |-> i] = Append([i \in 1..n |-> i], n + 1)
<1> DEFINE s == [i \in 1..n |-> i]
<1>1. s \in Seq(Nat) /\ Len(s) = n /\ \A k \in 1..n : s[k] = k
  <2>1. s \in [1..n -> Nat]
    OBVIOUS
  <2>2. s \in Seq(Nat)
    BY <2>1, SeqDef
  <2>3. QED
    BY <2>2, LenProperties
<1> HIDE DEF s
<1>2. /\ Append(s, n + 1) \in Seq(Nat) /\ Len(Append(s, n + 1)) = n + 1
      /\ \A k \in 1..n : Append(s, n + 1)[k] = k
      /\ Append(s, n + 1)[n + 1] = n + 1
  BY <1>1, AppendProperties
<1> DEFINE t == [i \in 1..(n + 1) |-> i]
<1>3. t \in Seq(Nat) /\ Len(t) = n + 1 /\ \A k \in 1..(n + 1) : t[k] = k
  <2>1. t \in [1..(n + 1) -> Nat]
    OBVIOUS
  <2>2. t \in Seq(Nat)
    BY <2>1, SeqDef
  <2>3. QED
    BY <2>2, LenProperties
<1> HIDE DEF t
<1>4. \A k \in 1..(n + 1) : t[k] = Append(s, n + 1)[k]
  BY <1>2, <1>3
<1>5. t = Append(s, n + 1)
  BY <1>2, <1>3, <1>4, SeqEqual
<1>6. QED
  BY <1>5 DEF s, t

(* The peer's WPDU is the abstract Send, an APDU copied to the caller the  *)
(* abstract Deliver; nothing else is seen.                                 *)
LEMMA StepImplements ==
  ASSUME TypeOK, OrderInv, [Next]_vars
  PROVE  [Delivery!Next]_<<[i \in 1..sent |-> i], Positions>>
<1>1. CASE PeerSends
  <2>1. sent \in Nat /\ sent + 1 \in Wpdus /\ sent' = sent + 1 /\ got' = got
    BY <1>1, PeerSendsFacts
  <2>2. [i \in 1..sent' |-> i] = Append([i \in 1..sent |-> i], sent + 1)
    BY <2>1, SentAppended
  <2>3. Positions' = Positions
    BY <2>1 DEF Positions
  <2>4. Delivery!Send
    BY <2>1, <2>2, <2>3 DEF Delivery!Send
  <2>5. QED
    BY <2>4 DEF Delivery!Next
<1>2. CASE Delivers /\ got' # got
  <2>1. PICK i \in 1..sent : /\ \A k \in 1..Len(Positions) : Positions[k] < i
                             /\ Positions' = Append(Positions, i)
    BY <1>2, PositionsInOrder
  <2>2. sent' = sent /\ sent \in Nat
    BY <1>2, DeliversFacts, KeptFacts
  <2>3. Len([n \in 1..sent |-> n]) = sent
    <3>1. [n \in 1..sent |-> n] \in Seq(Nat)
      BY <2>2, SeqDef
    <3>2. QED
      BY <2>2, <3>1, LenProperties
  <2>4. Delivery!Deliver
    BY <2>1, <2>2, <2>3 DEF Delivery!Deliver
  <2>5. QED
    BY <2>4 DEF Delivery!Next
<1>3. CASE sent' = sent /\ got' = got
  BY <1>3 DEF Positions
<1>4. ApplicationOpens \/ ApplicationCloses \/ ApplicationCalls \/ Receives
        \/ Delivers \/ PeerReads \/ StreamBreaks \/ UNCHANGED vars
      => sent' = sent
  BY DEF ApplicationOpens, ApplicationCloses, ApplicationCalls, Receives, Delivers,
         PeerReads, StreamBreaks, vars
<1>5. ApplicationOpens \/ ApplicationCloses \/ ApplicationCalls \/ Receives
        \/ PeerReads \/ StreamBreaks \/ UNCHANGED vars
      => got' = got
  BY DEF ApplicationOpens, ApplicationCloses, ApplicationCalls, Receives,
         PeerReads, StreamBreaks, vars
<1>6. QED
  BY <1>1, <1>2, <1>3, <1>4, <1>5 DEF Next, Step

(* With Close before each new Open, across broken streams, damaged WPDUs,  *)
(* failed calls and buffers that are too small, every APDU is handed over  *)
(* byte by byte as the peer sent it, in the order sent and at most once.   *)
THEOREM TcpImplementsApduDelivery ==
  ASSUME CloseFirst, Distinguishable
  PROVE  Spec => DeliveryFromPeer
<1>1. Init => OrderInv /\ Delivery!Init
  <2> SUFFICES ASSUME Init PROVE OrderInv /\ Delivery!Init
    OBVIOUS
  <2>1. got = <<>> /\ sent = 0 /\ pendingFrames = <<>>
    BY DEF Init, ChannelInit
  <2>2. Queue = <<>>
    BY <2>1, EmptySeq, ConcatEmptySeq DEF Queue
  <2>3. [i \in 1..sent |-> i] = <<>> /\ Positions = <<>>
    BY <2>1 DEF Positions
  <2>4. QED
    BY <2>1, <2>2, <2>3, NothingQueued DEF OrderInv, Delivery!Init
<1>2. TypeOK /\ StreamInv /\ OrderInv /\ [Next]_vars => OrderInv'
  BY OrderInvPreserved
<1>3. TypeOK /\ OrderInv /\ [Next]_vars
        => [Delivery!Next]_<<[i \in 1..sent |-> i], Positions>>
  BY StepImplements
<1>4. Inv => TypeOK /\ StreamInv
  BY DEF Inv
<1>5. QED
  BY <1>1, <1>2, <1>3, <1>4, AlwaysInv, PTL DEF Spec, DeliveryFromPeer, Delivery!Spec

-----------------------------------------------------------------------------
(* The bytes of what is handed over.                                       *)

ApdusQueued == \A k \in 1..Len(Queue) : \E i \in Wpdus : Queue[k] = Apdu(i)

(* How the queue changes.                                                  *)
LEMMA QueueFacts ==
  ASSUME TypeOK, [Next]_vars
  PROVE  \/ Queue' = Queue
         \/ Queue' = got
         \/ \E octets \in Seq(Octet), more \in Seq(Octet) :
              Kept = octets \o more /\ Queue' = got \o Decoded(octets).frames
<1>1. got \in Seq(Seq(Octet)) /\ pendingFrames \in Seq(Seq(Octet)) /\ got \o <<>> = got
  BY ConcatEmptySeq DEF TypeOK
<1>2. CASE ApplicationCloses
  BY <1>1, <1>2, ClosesFacts DEF Queue
<1>3. CASE Receives
  <2>1. got' = got
    BY <1>3, ReceivesFacts
  <2>2. CASE pendingFrames' = pendingFrames \/ pendingFrames' = <<>>
    BY <1>1, <2>1, <2>2 DEF Queue
  <2>3. CASE ~(pendingFrames' = pendingFrames \/ pendingFrames' = <<>>)
    <3>1. PICK octets \in Seq(Octet), more \in Seq(Octet) :
            Kept = octets \o more /\ pendingFrames' = Decoded(octets).frames
      BY <1>3, <2>3, ReceivesFacts
    <3>2. Queue' = got \o Decoded(octets).frames
      BY <2>1, <3>1 DEF Queue
    <3>3. QED
      BY <3>1, <3>2
  <2>4. QED
    BY <2>2, <2>3
<1>4. CASE Delivers
  BY <1>1, <1>4, DeliversFacts, HeadMovesOver DEF Queue
<1>5. CASE PeerSends \/ StreamBreaks \/ ApplicationOpens \/ PeerReads \/ ApplicationCalls
             \/ UNCHANGED vars
  <2>1. UNCHANGED <<got, pendingFrames>>
    BY <1>5, OpensFacts, PeerSendsFacts
    DEF StreamBreaks, PeerReads, ApplicationCalls, SendApdu, ReceiveApdu,
        vars, channelVars, stream
  <2>2. QED
    BY <2>1 DEF Queue
<1>6. QED
  BY <1>2, <1>3, <1>4, <1>5 DEF Next, Step

LEMMA ApdusQueuedPreserved ==
  ASSUME CloseFirst, TypeOK, StreamInv, ApdusQueued, [Next]_vars
  PROVE  ApdusQueued'
<1>1. got \in Seq(Seq(Octet)) /\ pendingFrames \in Seq(Seq(Octet)) /\ Ordered(Kept, sent)
  BY DEF TypeOK, StreamInv, Orderly
<1>2. /\ Len(got) \in Nat
      /\ \A k \in 1..Len(got) : \E i \in Wpdus : got[k] = Apdu(i)
  <2>1. /\ Len(got) \in Nat /\ Len(pendingFrames) \in Nat
        /\ Len(Queue) = Len(got) + Len(pendingFrames)
        /\ \A m \in 1..Len(got) : Queue[m] = got[m]
    BY <1>1, Joined DEF Queue
  <2>2. \A k \in 1..Len(got) : k \in 1..Len(Queue)
    BY <2>1
  <2>3. QED
    BY <2>1, <2>2 DEF ApdusQueued
<1>3. CASE Queue' = Queue
  BY <1>3 DEF ApdusQueued
<1>4. CASE Queue' = got
  BY <1>2, <1>4 DEF ApdusQueued
<1>5. ASSUME NEW octets \in Seq(Octet), NEW more \in Seq(Octet), Kept = octets \o more,
             Queue' = got \o Decoded(octets).frames
      PROVE  ApdusQueued'
  <2> DEFINE frames == Decoded(octets).frames
  <2>1. /\ frames \in Seq(Seq(Octet))
        /\ TakenFrom(Kept, frames, Decoded(octets).rest \o more, sent)
    BY <1>1, <1>5, DecodedOnStream
  <2>2. Queue' = got \o frames
    BY <1>5
  <2> HIDE DEF frames
  <2>3. /\ Len(frames) \in Nat /\ Len(got \o frames) = Len(got) + Len(frames)
        /\ \A m \in 1..Len(got) : (got \o frames)[m] = got[m]
        /\ \A m \in 1..Len(frames) : (got \o frames)[Len(got) + m] = frames[m]
    BY <1>1, <2>1, Joined
  <2>4. ASSUME NEW m \in 1..Len(frames) PROVE \E i \in Wpdus : frames[m] = Apdu(i)
    <3>1. frames # <<>>
      BY <2>3, <2>4, EmptySeq
    <3>2. PICK q \in Wpdus, last \in Wpdus :
            /\ last = q + Len(frames) - 1
            /\ \A j \in 1..Len(frames) : frames[j] = Apdu(q + j - 1)
      BY <2>1, <3>1 DEF TakenFrom
    <3>3. q + m - 1 \in Wpdus
      <4>1. q \in Nat \ {0} /\ last \in Nat /\ last <= Len(Lengths) /\ Len(Lengths) \in Nat
        BY OctetFacts DEF Wpdus
      <4>2. m \in Nat /\ 1 <= m /\ m <= Len(frames)
        BY <2>3
      <4> DEFINE i == q + m - 1
      <4>3. i \in Nat /\ 1 <= i /\ i <= last
        BY <2>3, <3>2, <4>1, <4>2
      <4> HIDE DEF i
      <4>4. i \in 1..Len(Lengths)
        BY <4>1, <4>3
      <4>5. QED
        BY <4>4 DEF Wpdus, i
    <3>4. QED
      BY <3>2, <3>3
  <2>5. ASSUME NEW k \in 1..Len(got \o frames)
        PROVE  \E i \in Wpdus : (got \o frames)[k] = Apdu(i)
    <3>1. CASE k <= Len(got)
      <4>1. k \in 1..Len(got)
        BY <1>2, <3>1
      <4>2. QED
        BY <1>2, <2>3, <4>1
    <3>2. CASE ~(k <= Len(got))
      <4>1. k - Len(got) \in 1..Len(frames) /\ Len(got) + (k - Len(got)) = k
        BY <1>2, <2>3, <3>2
      <4>2. QED
        BY <2>3, <2>4, <4>1
    <3>3. QED
      BY <3>1, <3>2
  <2>6. QED
    BY <2>2, <2>5 DEF ApdusQueued
<1>6. QED
  BY <1>3, <1>4, <1>5, QueueFacts

(* docs/00_profile_requirements.md:49, which the run "reopen" refutes,     *)
(* does hold of an application that calls Close before it opens again,     *)
(* whatever the APDUs are.                                                 *)
THEOREM ByteIdenticalWithClose ==
  ASSUME CloseFirst
  PROVE  Spec => []ByteIdentical
<1>1. Init => ApdusQueued
  <2> SUFFICES ASSUME Init PROVE ApdusQueued
    OBVIOUS
  <2>1. Queue = <<>>
    BY EmptySeq, ConcatEmptySeq DEF Init, ChannelInit, Queue
  <2>2. Len(Queue) = 0
    BY <2>1
  <2>3. QED
    BY <2>2 DEF ApdusQueued
<1>2. TypeOK /\ StreamInv /\ ApdusQueued /\ [Next]_vars => ApdusQueued'
  BY ApdusQueuedPreserved
<1>3. ASSUME TypeOK, ApdusQueued PROVE ByteIdentical
  <2>1. /\ Len(got) \in Nat /\ Len(pendingFrames) \in Nat
        /\ Len(Queue) = Len(got) + Len(pendingFrames)
        /\ \A m \in 1..Len(got) : Queue[m] = got[m]
    BY <1>3, Joined DEF TypeOK, Queue
  <2>2. \A k \in 1..Len(got) : k \in 1..Len(Queue)
    BY <2>1
  <2>3. QED
    BY <1>3, <2>1, <2>2 DEF ApdusQueued, ByteIdentical
<1>4. Inv => TypeOK /\ StreamInv
  BY DEF Inv
<1>5. QED
  BY <1>1, <1>2, <1>3, <1>4, AlwaysInv, PTL DEF Spec
=============================================================================
