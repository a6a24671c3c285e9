----------------------------- MODULE ProfileCApi -----------------------------
(***************************************************************************)
(* The C API (src/src/profile/profile_c_api.cpp): handles that own a       *)
(* channel and, when made from callbacks, the adapter it runs on.  The UDP *)
(* channel of a handle is WrapperUdpProfileChannel; of a TCP or an HDLC    *)
(* channel the C API sees only statuses.  An association has one handle at *)
(* each end, and a network between them that loses, repeats and reorders.  *)
(***************************************************************************)
EXTENDS WrapperUdpProfileChannel, FiniteSets

CONSTANTS
  COptions,          \* the options that callers of create give, or NullOptions
  CallbackAnswers,   \* what the C callbacks of a transport return
  TransportAnswers,  \* what a C++ transport returns
  Results,           \* what the calls of a TCP or an HDLC channel return
  MadeAt,            \* the handles made at each end: class, and if by callbacks
  Senders,           \* the channels whose applications send
  MaxArrivals        \* bound on the datagrams that ever come under way

ASSUME CApiAssumption ==
  /\ IsFiniteSet(Channels)
  /\ \A given \in COptions \ {[null |-> TRUE]} :
       {given.maximumApduSize, given.scratchBufferSize} \subseteq Nat
  /\ CallbackAnswers \subseteq ProfileStatus
  /\ TransportAnswers \subseteq TransportStatus
  /\ Results \subseteq ProfileStatus
  /\ MadeAt \in [Channels -> SUBSET [class : {"tcp", "udp", "hdlc"}, callbacks : BOOLEAN]]
  /\ Senders \subseteq Channels
  /\ MaxArrivals \in Nat

VARIABLES
  handles,   \* the handle at each end: dlms_profile_channel_t, or NoHandle
  heap,      \* how many objects of each kind are allocated
  result,    \* what the last call of the C API returned
  answered,  \* history: what the callback or the transport of it returned
  arrivals,  \* history: how many datagrams have come under way
  got        \* history: how often each APDU was handed to each application

vars == <<channelVars, handles, heap, result, answered, arrivals, got>>

-----------------------------------------------------------------------------
(* The statuses in the order of their numbers in the two headers, each by  *)
(* its C++ name.                                                           *)

CppOrder ==
  <<"Ok", "NeedMoreData", "OutputBufferTooSmall", "InvalidArgument", "NotOpen",
    "AlreadyOpen", "OpenFailed", "ReadFailed", "WriteFailed", "Timeout",
    "ConnectionClosed", "WouldBlock", "InvalidFrame", "InvalidLength",
    "InvalidAddress", "PayloadTooLarge", "UnsupportedFeature", "InternalError">>

COrder ==
  <<"Ok", "NeedMoreData", "OutputBufferTooSmall", "InvalidArgument", "NotOpen",
    "AlreadyOpen", "OpenFailed", "ReadFailed", "WriteFailed", "Timeout",
    "ConnectionClosed", "WouldBlock", "InvalidFrame", "InvalidLength",
    "InvalidAddress", "PayloadTooLarge", "UnsupportedFeature", "InternalError">>

ToCStatus(status) == COrder[CHOOSE n \in 1..Len(CppOrder) : CppOrder[n] = status]

(* A slip: WOULD_BLOCK falls into the cases that become InternalError.     *)
ToTransportStatusStrict(status) ==
  IF status \in TransportStatus \ {"WouldBlock"} THEN status ELSE "InternalError"
ToTransportStatus(status) ==
  IF status \in TransportStatus THEN status ELSE "InternalError"

(* What a call of the C API returns when the channel returns or throws.    *)
ToResult(status) == IF status = "exception" THEN "InternalError" ELSE ToCStatus(status)

NullOptions == [null |-> TRUE]

(* Any other value is taken for the default one, in both directions.       *)
ToCppDirection(direction) == IF direction = "ServerToClient" THEN direction ELSE "ClientToServer"
ToCppRole(role) == IF role = "Server" THEN role ELSE "Client"

dlms_profile_default_channel_options ==
  LET defaults == DefaultApduChannelOptions
  IN [field \in DOMAIN defaults \ {"wrapperTcpTraceSink"} |->
        CASE field = "hdlcUseSession" -> IF defaults.hdlcUseSession THEN 1 ELSE 0
          [] field = "hdlcDirection" -> ToCppDirection(defaults.hdlcDirection)
          [] field = "hdlcRole" -> ToCppRole(defaults.hdlcRole)
          [] OTHER -> defaults[field]]

ToCppOptions(given) ==
  IF given = NullOptions THEN DefaultApduChannelOptions
  ELSE [field \in DOMAIN DefaultApduChannelOptions |->
          CASE field = "wrapperTcpTraceSink" -> DefaultApduChannelOptions[field]
            [] field = "hdlcUseSession" -> given[field] # 0
            [] field = "hdlcDirection" -> ToCppDirection(given[field])
            [] field = "hdlcRole" -> ToCppRole(given[field])
            [] OTHER -> given[field]]

-----------------------------------------------------------------------------
(* Allocation.  A handle made from callbacks owns an adapter, one made for *)
(* a C++ transport borrows that.                                           *)

Classes == {"tcp", "udp", "hdlc"}
Kinds == {"stream adapter", "datagram adapter", "channel", "handle"}

Adapter(class) == IF class = "udp" THEN "datagram adapter" ELSE "stream adapter"

(* What create allocates, in turn.                                         *)
Allocations(class, callbacks) ==
  IF callbacks THEN <<Adapter(class), "channel", "handle">> ELSE <<"channel", "handle">>

NoHandle == [class |-> "none", callbacks |-> FALSE, owned |-> {}]
Live == {h \in Channels : handles[h] # NoHandle}

(* A slip: create keeps its hold on the adapter when it hands it over.     *)
AfterCreateWithGet(class, callbacks, allocated) ==
  IF "handle" \in allocated THEN {"channel", "handle"} ELSE {}
(* A slip: the catch of WrapChannelWithOwned forgets the datagram adapter. *)
AfterCreateKeepingAdapter(class, callbacks, allocated) ==
  IF "handle" \in allocated THEN allocated
  ELSE IF "channel" \in allocated THEN allocated \ {"channel", "stream adapter"} ELSE {}

(* What is left of the objects that create allocated: everything once the  *)
(* handle exists; before that the unique_ptrs, or the catch of             *)
(* WrapChannelWithOwned, delete what was made.                             *)
AfterCreate(class, callbacks, allocated) ==
  IF "handle" \in allocated THEN allocated ELSE {}

One(kinds) == [kind \in Kinds |-> IF kind \in kinds THEN 1 ELSE 0]

(* The allocation after the first n may fail.                              *)
Create(h, class, callbacks, given) ==
  /\ handles[h] = NoHandle
  /\ \E n \in 0..Len(Allocations(class, callbacks)) :
       LET objects == Allocations(class, callbacks)
           left == AfterCreate(class, callbacks, {objects[i] : i \in 1..n})
       IN /\ heap' = [kind \in Kinds |-> heap[kind] + One(left)[kind]]
          /\ IF n = Len(objects)
             THEN /\ handles' = [handles EXCEPT ![h] =
                       [class |-> class, callbacks |-> callbacks,
                        owned |-> {o \in {objects[i] : i \in 1..n} : o = Adapter(class)}]]
                  /\ NewChannel(h, ToCppOptions(given))
                  /\ result' = "created"
             ELSE result' = "null" /\ UNCHANGED <<handles, options>>
  /\ Return("none", "none", "Ok") /\ answered' = "none"
  /\ UNCHANGED <<open, network, arrivals, got>>

CreateWithoutTransport ==
  /\ result' = "null"
  /\ Return("none", "none", "Ok") /\ answered' = "none"
  /\ UNCHANGED <<open, network, options, handles, heap, arrivals, got>>

Deleted(h) == {"channel", "handle"} \cup handles[h].owned

Destroy(h) ==
  /\ handles[h] # NoHandle
  /\ heap' = [kind \in Kinds |-> heap[kind] - One(Deleted(h))[kind]]
  /\ handles' = [handles EXCEPT ![h] = NoHandle]
  /\ NewChannel(h, DefaultApduChannelOptions)
  /\ result' = "none"
  /\ Return("none", "none", "Ok") /\ answered' = "none"
  /\ UNCHANGED <<open, network, arrivals, got>>

-----------------------------------------------------------------------------
(* The APDUs that may be handed over at a receiver: those of the datagrams *)
(* that hold all the octets they announce, and 0 for anything else.        *)

Receivers == {Peer[sender] : sender \in Senders}
Carriers == {d \in Datagrams \ Malformed : Octets[d] >= HeaderSize + Lengths[d]}
Apdus == Receivers \X (Carriers \cup {0})

Whole(apdu) ==
  IF apdu.datagram \in Carriers /\ apdu.size = Lengths[apdu.datagram]
  THEN apdu.datagram ELSE 0

-----------------------------------------------------------------------------
(* The calls of a handle, given the answer of its transport.  An adapter   *)
(* passes on what the callback returned as a status of a transport.        *)

Answers(h) == IF handles[h].callbacks THEN CallbackAnswers ELSE TransportAnswers
Heard(h, answer) ==
  IF answer # "none" /\ handles[h].callbacks THEN ToTransportStatus(answer) ELSE answer

Report(answer) ==
  /\ answered' = answer
  /\ result' = ToResult(call'.status)
  /\ UNCHANGED <<handles, heap>>

OpenOrClose(h, answer) ==
  /\ answer # "none"
  /\ Open(h, Heard(h, answer)) \/ Close(h, Heard(h, answer))
  /\ Report(answer)
  /\ UNCHANGED <<arrivals, got>>

SendByUdp(h, answer) ==
  /\ handles[h].class = "udp" /\ h \in Senders
  /\ \E d \in WellFormed : SendApdu(h, d, Heard(h, answer))
  /\ Report(answer)
  /\ arrivals' = arrivals + (IF network' # network THEN 1 ELSE 0)
  /\ arrivals' <= MaxArrivals
  /\ UNCHANGED got

ReceiveByUdp(h, answer) ==
  /\ handles[h].class = "udp"
  /\ ReceiveApdu(h, Heard(h, answer))
  /\ Report(answer)
  /\ got' = IF call'.apdu = Nothing THEN got
            ELSE [got EXCEPT ![<<h, Whole(call'.apdu)>>] = @ + 1]
  /\ UNCHANGED arrivals

(* What a TCP or an HDLC channel does in between is in its own module.     *)
CallOther(h) ==
  /\ \E op \in {"SendApdu", "ReceiveApdu", "ConnectDataLink", "AcceptDataLink",
               "DisconnectDataLink"},
        status \in Results \cup {"exception"} :
       /\ handles[h].class \in {"hdlc"} \cup IF op \in {"SendApdu", "ReceiveApdu"} THEN {"tcp"} ELSE {}
       /\ Return(op, "none", status)
  /\ Report("none")
  /\ UNCHANGED <<open, network, options, arrivals, got>>

(* The data link calls of a channel that has no data link to set up, and   *)
(* any call without a handle.                                              *)
Refuse(h) ==
  /\ \/ handles[h].class \in {"tcp", "udp"} /\ Return("ConnectDataLink", "none", "UnsupportedFeature")
     \/ handles[h] = NoHandle /\ Return("none", "none", "InvalidArgument")
  /\ Report("none")
  /\ UNCHANGED <<open, network, options, arrivals, got>>

-----------------------------------------------------------------------------
(* The network.                                                            *)

Arrives(c, d) ==
  /\ arrivals < MaxArrivals
  /\ d \in WellFormed => network[<<c, d>>] > 0
  /\ network' = [network EXCEPT ![<<c, d>>] = @ + 1]
  /\ arrivals' = arrivals + 1
  /\ UNCHANGED <<open, options, call, handles, heap, result, answered, got>>

Lose(c, d) ==
  /\ network[<<c, d>>] > 0
  /\ network' = [network EXCEPT ![<<c, d>>] = @ - 1]
  /\ UNCHANGED <<open, options, call, handles, heap, result, answered, arrivals, got>>

Init ==
  /\ ChannelInit
  /\ handles = [h \in Channels |-> NoHandle]
  /\ heap = [kind \in Kinds |-> 0]
  /\ result = "none" /\ answered = "none" /\ arrivals = 0
  /\ got = [p \in Apdus |-> 0]

Next ==
  \/ CreateWithoutTransport
  \/ \E h \in Channels :
       \/ \E made \in MadeAt[h], given \in COptions :
            /\ made.class # "udp" => given = NullOptions
            /\ Create(h, made.class, made.callbacks, given)
       \/ Destroy(h) \/ Refuse(h) \/ CallOther(h)
       \/ handles[h] # NoHandle /\ \E answer \in Answers(h) \cup {"none"} :
            OpenOrClose(h, answer) \/ SendByUdp(h, answer) \/ ReceiveByUdp(h, answer)
  \/ \E c \in Receivers, d \in Datagrams : Arrives(c, d) \/ Lose(c, d)

Spec == Init /\ [][Next]_vars

-----------------------------------------------------------------------------
(* The types, and that no object is deleted more often than allocated.     *)
TypeOK ==
  /\ open \in [Channels -> BOOLEAN]
  /\ network \in [Channels \X Datagrams -> Nat]
  /\ options \in [Channels -> [maximumApduSize : Nat, scratchBufferSize : Nat]]
  /\ call.status \in ProfileStatus \cup {"exception"}
  /\ handles \in [Channels -> [class : Classes \cup {"none"}, callbacks : BOOLEAN,
                              owned : SUBSET Kinds]]
  /\ heap \in [Kinds -> Nat]
  /\ result \in ProfileStatus \cup {"none", "created", "null"}
  /\ answered \in ProfileStatus \cup {"none"}
  /\ arrivals \in 0..MaxArrivals
  /\ got \in [Apdus -> Nat]

(* Whichever allocation of a create fails, and however handles are created *)
(* and destroyed, what is allocated is what the live handles need: each    *)
(* its channel, and its adapter if its transport is made of callbacks.     *)
Needs(h) ==
  {"channel", "handle"} \cup IF handles[h].callbacks THEN {Adapter(handles[h].class)} ELSE {}
Users(kind) == {h \in Live : kind \in Needs(h)}
HeapIsOwned == \A kind \in Kinds : heap[kind] = Cardinality(Users(kind))

(* docs/02_profile_c_api.md:52: the status that a callback or a transport  *)
(* gives comes back to the caller of the C API as it is, through two       *)
(* conversions and the numbers of two headers; one that a transport does   *)
(* not have comes back as InternalError, never as a success.               *)
StatusComesBack ==
  (call.answer # "none" /\ result \in ProfileStatus) =>
    \/ result = IF answered \in TransportStatus THEN answered ELSE "InternalError"
    \/ call.op = "ReceiveApdu" /\ answered = "Ok"

Service == INSTANCE DatagramDelivery WITH
  underWay <- [p \in Apdus |-> IF p[2] \in Datagrams THEN network[p] ELSE 0],
  delivered <- got

(* Two UDP channels over a network that loses, repeats, reorders and       *)
(* damages implement DatagramDelivery: an APDU is handed over whole, and   *)
(* once for each copy that arrived, whatever the scratch and output        *)
(* buffers hold and whichever handle is destroyed and made anew.           *)
ServiceToPeer == Service!Spec

(* A datagram that was taken is never reported as if none had come yet:    *)
(* the caller would wait for what it has lost.                             *)
TakenIsNotAwaited ==
  [][(call' # call /\ call'.status \in {"NeedMoreData", "WouldBlock", "Timeout"}) =>
       \A c \in Channels, d \in Datagrams : Octets[d] > 0 => network'[<<c, d>>] >= network[<<c, d>>]]_vars
=============================================================================
