-------------------------- MODULE ProfileCApiProofs --------------------------
(***************************************************************************)
(* Proofs about the statuses of the profile layer and about ProfileCApi.   *)
(***************************************************************************)
EXTENDS ProfileCApi, FiniteSetTheorems, TLAPS

(* The conversions of profile_types.cpp give a ProfileStatus for whatever  *)
(* they are given, and Ok for the Ok of a library only: no failure below,  *)
(* and no status unknown to them, is reported as a success.                *)
THEOREM FailuresStayFailures ==
  ASSUME NEW status
  PROVE  /\ MapTransportStatus(status) \in ProfileStatus
         /\ MapWrapperStatus(status) \in ProfileStatus
         /\ MapLlcStatus(status) \in ProfileStatus
         /\ MapHdlcStatus(status) \in ProfileStatus
         /\ "Ok" \in {MapTransportStatus(status), MapWrapperStatus(status),
                      MapLlcStatus(status), MapHdlcStatus(status)} => status = "Ok"
<1>1. /\ MapTransportStatus(status) \in ProfileStatus
      /\ MapTransportStatus(status) = "Ok" => status = "Ok"
  BY DEF MapTransportStatus, TransportStatus, ProfileStatus
<1>2. /\ MapWrapperStatus(status) \in ProfileStatus
      /\ MapWrapperStatus(status) = "Ok" => status = "Ok"
  BY DEF MapWrapperStatus, CodecStatus, ProfileStatus
<1>3. /\ MapLlcStatus(status) \in ProfileStatus
      /\ MapLlcStatus(status) = "Ok" => status = "Ok"
  BY DEF MapLlcStatus, CodecStatus, ProfileStatus
<1>4. /\ MapHdlcStatus(status) \in ProfileStatus
      /\ MapHdlcStatus(status) = "Ok" => status = "Ok"
  BY DEF MapHdlcStatus, CodecStatus, ProfileStatus
<1> QED  BY <1>1, <1>2, <1>3, <1>4

(* The numbers of the two headers agree: a ProfileStatus keeps its name on *)
(* its way through static_cast.                                            *)
THEOREM StatusesMirror ==
  ASSUME NEW status \in ProfileStatus
  PROVE  ToCStatus(status) = status
<1>1. /\ Len(CppOrder) = 18
      /\ \A n \in 1..18 : COrder[n] = CppOrder[n]
  BY DEF CppOrder, COrder
<1>2. \E n \in 1..18 : CppOrder[n] = status
  BY DEF CppOrder, ProfileStatus
<1> QED  BY <1>1, <1>2 DEF ToCStatus

(* The defaults that the C API gives out, given back to create, are those  *)
(* that create takes for NULL: no field is dropped or converted one way.   *)
THEOREM DefaultsRoundTrip ==
  \A field \in DOMAIN DefaultApduChannelOptions :
    ToCppOptions(dlms_profile_default_channel_options)[field] = ToCppOptions(NullOptions)[field]
<1> DEFINE default == dlms_profile_default_channel_options
           fields == DOMAIN DefaultApduChannelOptions
<1>1. ToCppOptions(NullOptions) = DefaultApduChannelOptions
  BY DEF ToCppOptions
<1>2. default # NullOptions
  <2>1. "hdlcRole" \in DOMAIN default /\ "hdlcRole" \notin DOMAIN NullOptions
    BY DEF dlms_profile_default_channel_options, DefaultApduChannelOptions, NullOptions
  <2> QED  BY <2>1
<1>3. default = [field \in fields \ {"wrapperTcpTraceSink"} |->
        CASE field = "hdlcUseSession" -> IF DefaultApduChannelOptions.hdlcUseSession THEN 1 ELSE 0
          [] field = "hdlcDirection" -> ToCppDirection(DefaultApduChannelOptions.hdlcDirection)
          [] field = "hdlcRole" -> ToCppRole(DefaultApduChannelOptions.hdlcRole)
          [] OTHER -> DefaultApduChannelOptions[field]]
  BY Zenon DEF dlms_profile_default_channel_options
<1>4. /\ DefaultApduChannelOptions.hdlcUseSession = FALSE
      /\ DefaultApduChannelOptions.hdlcDirection = "ClientToServer"
      /\ DefaultApduChannelOptions.hdlcRole = "Client"
      /\ {"hdlcUseSession", "hdlcDirection", "hdlcRole", "wrapperTcpTraceSink"} \subseteq fields
  BY DEF DefaultApduChannelOptions
<1> HIDE DEF default, fields
<1>5. /\ default["hdlcUseSession"] = 0
      /\ default["hdlcDirection"] = "ClientToServer"
      /\ default["hdlcRole"] = "Client"
      /\ \A field \in fields \ {"wrapperTcpTraceSink", "hdlcUseSession", "hdlcDirection", "hdlcRole"} :
           default[field] = DefaultApduChannelOptions[field]
  BY <1>3, <1>4 DEF ToCppDirection, ToCppRole
<1>6. ToCppOptions(default) =
        [field \in fields |->
           CASE field = "wrapperTcpTraceSink" -> DefaultApduChannelOptions[field]
             [] field = "hdlcUseSession" -> default[field] # 0
             [] field = "hdlcDirection" -> ToCppDirection(default[field])
             [] field = "hdlcRole" -> ToCppRole(default[field])
             [] OTHER -> default[field]]
  BY <1>2, Zenon DEF ToCppOptions, fields
<1>7. \A field \in fields : ToCppOptions(default)[field] = DefaultApduChannelOptions[field]
  BY <1>4, <1>5, <1>6 DEF ToCppDirection, ToCppRole
<1> QED  BY <1>1, <1>7, Zenon DEF default, fields

-----------------------------------------------------------------------------
(* What a call with an answer of the transport returns.                    *)

LEMMA ResultIsStatus ==
  ASSUME NEW status \in ProfileStatus
  PROVE  ToResult(status) = status
<1>1. status # "exception"
  BY DEF ProfileStatus
<1> QED  BY <1>1, StatusesMirror DEF ToResult

(* What comes of the answer of a callback or of a transport.               *)
LEMMA AnswerComesBack ==
  ASSUME NEW h \in Channels, NEW answer \in Answers(h)
  PROVE  /\ MapTransportStatus(Heard(h, answer)) \in ProfileStatus
         /\ MapTransportStatus(Heard(h, answer)) =
              IF answer \in TransportStatus THEN answer ELSE "InternalError"
         /\ Heard(h, answer) = "Ok" => answer = "Ok"
<1>1. MapTransportStatus(Heard(h, answer)) \in ProfileStatus
  BY FailuresStayFailures
<1>2. CASE handles[h].callbacks
  BY <1>1, <1>2, CApiAssumption
     DEF Answers, Heard, ToTransportStatus, MapTransportStatus, TransportStatus, ProfileStatus
<1>3. CASE ~handles[h].callbacks
  BY <1>1, <1>3, CApiAssumption
     DEF Answers, Heard, MapTransportStatus, TransportStatus
<1> QED  BY <1>2, <1>3

(* What a call of a UDP channel returns.                                   *)
LEMMA CallOfUdp ==
  ASSUME NEW h \in Channels, NEW answer, NEW d,
         Open(h, answer) \/ Close(h, answer) \/ SendApdu(h, d, answer) \/ ReceiveApdu(h, answer)
  PROVE  /\ call'.answer = answer
         /\ call'.status \in ProfileStatus \cup {"exception"}
         /\ answer # "none" =>
              \/ call'.status = MapTransportStatus(answer)
              \/ call'.op = "ReceiveApdu" /\ answer = "Ok"
<1>1. CASE Open(h, answer) \/ Close(h, answer)
  BY <1>1, FailuresStayFailures DEF Open, Close, Return, Returned
<1>2. CASE SendApdu(h, d, answer)
  <2>1. SendStatus(h, Lengths[d]) \in ProfileStatus
    BY FailuresStayFailures DEF SendStatus, ProfileStatus
  <2>2. {"InvalidArgument"} \subseteq ProfileStatus
    BY DEF ProfileStatus
  <2> QED  BY <1>2, <2>1, <2>2, FailuresStayFailures DEF SendApdu, Return, Returned
<1>3. CASE ReceiveApdu(h, answer)
  <2>1. \A e, n : FrameStatus(h, e, n) \in ProfileStatus
    BY FailuresStayFailures DEF FrameStatus, ProfileStatus
  <2>2. {"InvalidArgument", "NeedMoreData", "OutputBufferTooSmall", "Ok"} \subseteq ProfileStatus
    BY DEF ProfileStatus
  <2>3. ASSUME NEW e \in Datagrams, ReceiveFrame(h, e)
        PROVE  /\ call'.answer = "Ok" /\ call'.op = "ReceiveApdu"
               /\ call'.status \in ProfileStatus \cup {"exception"}
    BY <2>1, <2>2, <2>3 DEF ReceiveFrame, CopyFrameData, HandOver, Return, Returned
  <2>4. \/ answer = "none" /\ Return("ReceiveApdu", "none", "InvalidArgument")
        \/ answer # "none" /\ Return("ReceiveApdu", answer, MapTransportStatus(answer))
        \/ answer = "Ok" /\ Return("ReceiveApdu", "Ok", "NeedMoreData")
        \/ answer = "Ok" /\ \E e \in Datagrams : ReceiveFrame(h, e)
    BY <1>3 DEF ReceiveApdu
  <2> QED  BY <2>2, <2>3, <2>4, FailuresStayFailures DEF Return, Returned
<1> QED  BY <1>1, <1>2, <1>3

-----------------------------------------------------------------------------
(* No status of a callback or of a transport is changed on its way back,   *)
(* whatever the channel, the handle and the transport (StatusComesBack).   *)

LEMMA StatusOfCall ==
  ASSUME NEW h \in Channels, NEW answer \in Answers(h) \cup {"none"}, NEW d,
         LET heard == Heard(h, answer)
         IN Open(h, heard) \/ Close(h, heard) \/ SendApdu(h, d, heard) \/ ReceiveApdu(h, heard),
         Report(answer)
  PROVE  StatusComesBack'
<1>1. /\ call'.answer = Heard(h, answer)
      /\ call'.status \in ProfileStatus \cup {"exception"}
      /\ Heard(h, answer) # "none" =>
           \/ call'.status = MapTransportStatus(Heard(h, answer))
           \/ call'.op = "ReceiveApdu" /\ Heard(h, answer) = "Ok"
  BY CallOfUdp
<1>2. answered' = answer /\ result' = ToResult(call'.status)
  BY DEF Report
<1>3. CASE answer = "none"
  BY <1>1, <1>3 DEF Heard, StatusComesBack
<1>4. CASE answer # "none"
  <2>1. answer \in Answers(h)
    BY <1>4
  <2>2. \/ result' = IF answer \in TransportStatus THEN answer ELSE "InternalError"
        \/ call'.op = "ReceiveApdu" /\ answer = "Ok"
        \/ Heard(h, answer) = "none"
    BY <1>1, <1>2, <2>1, AnswerComesBack, ResultIsStatus
  <2> QED  BY <1>1, <1>2, <2>2 DEF StatusComesBack
<1> QED  BY <1>3, <1>4

THEOREM StatusesComeBack == Spec => []StatusComesBack
<1>1. Init => StatusComesBack
  BY DEF Init, ChannelInit, Returned, StatusComesBack
<1>2. StatusComesBack /\ [Next]_vars => StatusComesBack'
  <2> SUFFICES ASSUME StatusComesBack, [Next]_vars
               PROVE  StatusComesBack'
    OBVIOUS
  <2>1. CASE UNCHANGED vars
    BY <2>1 DEF vars, channelVars, StatusComesBack
  <2>2. CASE CreateWithoutTransport
    BY <2>2 DEF CreateWithoutTransport, Return, Returned, StatusComesBack
  <2>3. ASSUME NEW h \in Channels, NEW class, NEW callbacks, NEW given,
               Create(h, class, callbacks, given)
        PROVE  StatusComesBack'
    BY <2>3 DEF Create, Return, Returned, StatusComesBack
  <2>4. ASSUME NEW h \in Channels, Destroy(h) \/ Refuse(h) \/ CallOther(h)
        PROVE  StatusComesBack'
    BY <2>4 DEF Destroy, Refuse, CallOther, Return, Returned, StatusComesBack
  <2>5. ASSUME NEW h \in Channels, NEW answer \in Answers(h) \cup {"none"},
               OpenOrClose(h, answer) \/ SendByUdp(h, answer) \/ ReceiveByUdp(h, answer)
        PROVE  StatusComesBack'
    <3>1. \E d : /\ LET heard == Heard(h, answer)
                    IN Open(h, heard) \/ Close(h, heard) \/ SendApdu(h, d, heard) \/ ReceiveApdu(h, heard)
                 /\ Report(answer)
      BY <2>5 DEF OpenOrClose, SendByUdp, ReceiveByUdp
    <3> QED  BY <3>1, StatusOfCall
  <2>6. ASSUME NEW c, NEW d, Arrives(c, d) \/ Lose(c, d)
        PROVE  StatusComesBack'
    BY <2>6 DEF Arrives, Lose, StatusComesBack
  <2> QED  BY <2>1, <2>2, <2>3, <2>4, <2>5, <2>6 DEF Next
<1> QED  BY <1>1, <1>2, PTL DEF Spec

-----------------------------------------------------------------------------
(* What is allocated is what the live handles own (HeapIsOwned): by the    *)
(* invariant HeapInvariant, that a handle owns the adapter that it needs.  *)

HandleInvariant ==
  /\ handles \in [Channels -> [class : Classes \cup {"none"}, callbacks : BOOLEAN,
                              owned : SUBSET Kinds]]
  /\ \A h \in Channels : handles[h] # NoHandle => Deleted(h) = Needs(h)
HeapInvariant == HandleInvariant /\ heap \in [Kinds -> Nat] /\ HeapIsOwned

LEMMA UsersAreFinite ==
  ASSUME NEW kind
  PROVE  IsFiniteSet(Users(kind)) /\ Cardinality(Users(kind)) \in Nat
<1>1. Users(kind) \subseteq Channels
  BY DEF Users, Live
<1> QED  BY <1>1, FS_Subset, FS_CardinalityType, CApiAssumption

(* The objects of create are those that the new handle needs.              *)
LEMMA AllocatedIsNeeded ==
  ASSUME NEW class \in Classes, NEW callbacks \in BOOLEAN
  PROVE  LET objects == Allocations(class, callbacks)
             all == {objects[i] : i \in 1..Len(objects)}
         IN /\ Len(objects) \in Nat
            /\ "handle" \in all
            /\ all = {"channel", "handle"} \cup IF callbacks THEN {Adapter(class)} ELSE {}
            /\ \A n \in 0..Len(objects) : n # Len(objects) => "handle" \notin {objects[i] : i \in 1..n}
            /\ {o \in all : o = Adapter(class)} = IF callbacks THEN {Adapter(class)} ELSE {}
            /\ all \subseteq Kinds
<1>1. Adapter(class) \in Kinds \ {"channel", "handle"}
  BY DEF Adapter, Kinds, Classes
<1>2. {"channel", "handle"} \subseteq Kinds
  BY DEF Kinds
<1> DEFINE objects == Allocations(class, callbacks)
           all == {objects[i] : i \in 1..Len(objects)}
<1>3. CASE callbacks
  <2>1. objects = <<Adapter(class), "channel", "handle">> /\ Len(objects) = 3
    BY <1>3 DEF Allocations
  <2>2. 1..3 = {1, 2, 3} /\ 0..3 = {0, 1, 2, 3}
    OBVIOUS
  <2>3. all = {Adapter(class), "channel", "handle"}
    BY <2>1, <2>2
  <2>4. \A n \in 0..3 : n # 3 => "handle" \notin {objects[i] : i \in 1..n}
    BY <1>1, <2>1, <2>2
  <2> QED  BY <1>1, <1>2, <1>3, <2>1, <2>3, <2>4
<1>4. CASE ~callbacks
  <2>1. objects = <<"channel", "handle">> /\ Len(objects) = 2
    BY <1>4 DEF Allocations
  <2>2. 1..2 = {1, 2} /\ 0..2 = {0, 1, 2}
    OBVIOUS
  <2>3. all = {"channel", "handle"}
    BY <2>1, <2>2
  <2>4. \A n \in 0..2 : n # 2 => "handle" \notin {objects[i] : i \in 1..n}
    BY <2>1, <2>2
  <2> QED  BY <1>1, <1>2, <1>4, <2>1, <2>3, <2>4
<1> QED  BY <1>3, <1>4

LEMMA CreateKeepsHeap ==
  ASSUME HeapInvariant, NEW h \in Channels, NEW class \in Classes, NEW callbacks \in BOOLEAN,
         NEW given, Create(h, class, callbacks, given)
  PROVE  HeapInvariant'
<1> DEFINE objects == Allocations(class, callbacks)
           all == {objects[i] : i \in 1..Len(objects)}
           owned == {o \in all : o = Adapter(class)}
           made == [class |-> class, callbacks |-> callbacks, owned |-> owned]
<1>1. PICK n \in 0..Len(objects) :
        LET left == AfterCreate(class, callbacks, {objects[i] : i \in 1..n})
        IN /\ heap' = [kind \in Kinds |-> heap[kind] + One(left)[kind]]
           /\ IF n = Len(objects) THEN handles' = [handles EXCEPT ![h] = made]
              ELSE handles' = handles
  BY DEF Create
<1>2. handles[h] = NoHandle
  BY DEF Create
<1>3. heap \in [Kinds -> Nat] /\ HandleInvariant /\ HeapIsOwned
  BY DEF HeapInvariant
<1>4. CASE n # Len(objects)
  <2>1. AfterCreate(class, callbacks, {objects[i] : i \in 1..n}) = {}
    BY <1>4, AllocatedIsNeeded DEF AfterCreate
  <2>2. handles' = handles /\ heap' = heap
    BY <1>1, <1>3, <1>4, <2>1 DEF One
  <2> QED  BY <1>3, <2>2 DEF HeapInvariant, HandleInvariant, HeapIsOwned, Users, Live, Needs, Deleted
<1>5. CASE n = Len(objects)
  <2>1. AfterCreate(class, callbacks, all) = all
    BY AllocatedIsNeeded DEF AfterCreate
  <2>2. /\ handles' = [handles EXCEPT ![h] = made]
        /\ heap' = [kind \in Kinds |-> heap[kind] + One(all)[kind]]
    BY <1>1, <1>5, <2>1
  <2>3. owned \subseteq Kinds /\ made # NoHandle
    BY AllocatedIsNeeded DEF NoHandle, Classes
  <2>4. Needs(h)' = all /\ Deleted(h)' = all
    <3>1. handles'[h] = made
      BY <1>3, <2>2 DEF HandleInvariant
    <3>2. all = {"channel", "handle"} \cup IF callbacks THEN {Adapter(class)} ELSE {}
      BY AllocatedIsNeeded
    <3>3. owned = IF callbacks THEN {Adapter(class)} ELSE {}
      BY AllocatedIsNeeded
    <3>4. Needs(h)' = {"channel", "handle"} \cup IF callbacks THEN {Adapter(class)} ELSE {}
      BY <3>1 DEF Needs
    <3>5. Deleted(h)' = {"channel", "handle"} \cup owned
      BY <3>1 DEF Deleted
    <3> QED  BY <3>2, <3>3, <3>4, <3>5
  <2>5. \A k \in Channels \ {h} : /\ handles'[k] = handles[k]
                                  /\ Needs(k)' = Needs(k) /\ Deleted(k)' = Deleted(k)
    BY <1>3, <2>2 DEF HandleInvariant, Needs, Deleted
  <2>6. HandleInvariant'
    BY <1>3, <2>2, <2>3, <2>4, <2>5 DEF HandleInvariant
  <2>7. ASSUME NEW kind \in Kinds
        PROVE  heap'[kind] = Cardinality(Users(kind)') /\ heap'[kind] \in Nat
    <3>1. heap[kind] = Cardinality(Users(kind)) /\ heap[kind] \in Nat
      BY <1>3 DEF HeapIsOwned
    <3>2. h \notin Users(kind)
      BY <1>2 DEF Users, Live
    <3>3. CASE kind \in all
      <4>1. Users(kind)' = Users(kind) \cup {h}
        BY <1>3, <2>2, <2>3, <2>4, <2>5, <3>3 DEF HandleInvariant, Users, Live
      <4>2. heap'[kind] = heap[kind] + 1
        BY <2>2, <3>3 DEF One
      <4>3. Cardinality(Users(kind) \cup {h}) = Cardinality(Users(kind)) + 1
        BY <3>2, UsersAreFinite, FS_AddElement
      <4> QED  BY <3>1, <4>1, <4>2, <4>3
    <3>4. CASE kind \notin all
      <4>1. Users(kind)' = Users(kind)
        BY <1>2, <1>3, <2>2, <2>4, <2>5, <3>4 DEF HandleInvariant, Users, Live
      <4>2. heap'[kind] = heap[kind]
        BY <2>2, <3>1, <3>4 DEF One
      <4> QED  BY <3>1, <4>1, <4>2
    <3> QED  BY <3>3, <3>4
  <2>8. heap' \in [Kinds -> Nat]
    BY <2>2, <2>7
  <2> QED  BY <2>6, <2>7, <2>8 DEF HeapInvariant, HeapIsOwned
<1> QED  BY <1>4, <1>5

LEMMA DestroyKeepsHeap ==
  ASSUME HeapInvariant, NEW h \in Channels, Destroy(h)
  PROVE  HeapInvariant'
<1>1. heap \in [Kinds -> Nat] /\ HandleInvariant /\ HeapIsOwned
  BY DEF HeapInvariant
<1>2. /\ handles[h] # NoHandle
      /\ handles' = [handles EXCEPT ![h] = NoHandle]
      /\ heap' = [kind \in Kinds |-> heap[kind] - One(Needs(h))[kind]]
  BY <1>1 DEF Destroy, HandleInvariant
<1>3. \A k \in Channels \ {h} : /\ handles'[k] = handles[k]
                                /\ Needs(k)' = Needs(k) /\ Deleted(k)' = Deleted(k)
  BY <1>1, <1>2 DEF HandleInvariant, Needs, Deleted
<1>4. HandleInvariant'
  <2>1. NoHandle \in [class : Classes \cup {"none"}, callbacks : BOOLEAN, owned : SUBSET Kinds]
    BY DEF NoHandle
  <2> QED  BY <1>1, <1>2, <1>3, <2>1 DEF HandleInvariant
<1>5. ASSUME NEW kind \in Kinds
      PROVE  heap'[kind] = Cardinality(Users(kind)') /\ heap'[kind] \in Nat
  <2>1. heap[kind] = Cardinality(Users(kind)) /\ heap[kind] \in Nat
    BY <1>1 DEF HeapIsOwned
  <2>2. Users(kind)' = Users(kind) \ {h}
    BY <1>1, <1>2, <1>3 DEF HandleInvariant, Users, Live
  <2>3. CASE kind \in Needs(h)
    <3>1. h \in Users(kind)
      BY <1>2, <2>3 DEF Users, Live
    <3>2. heap'[kind] = heap[kind] - 1
      BY <1>2, <2>3 DEF One
    <3>3. Cardinality(Users(kind) \ {h}) = Cardinality(Users(kind)) - 1
      BY <3>1, UsersAreFinite, FS_RemoveElement
    <3>4. Cardinality(Users(kind) \ {h}) \in Nat
      BY UsersAreFinite, FS_RemoveElement, FS_CardinalityType
    <3> QED  BY <2>1, <2>2, <3>2, <3>3, <3>4
  <2>4. CASE kind \notin Needs(h)
    <3>1. Users(kind) \ {h} = Users(kind)
      BY <2>4 DEF Users
    <3>2. heap'[kind] = heap[kind]
      BY <1>2, <2>1, <2>4 DEF One
    <3> QED  BY <2>1, <2>2, <3>1, <3>2
  <2> QED  BY <2>3, <2>4
<1>6. heap' \in [Kinds -> Nat]
  BY <1>2, <1>5
<1> QED  BY <1>4, <1>5, <1>6 DEF HeapInvariant, HeapIsOwned

LEMMA HeapInvariantHolds == Spec => []HeapInvariant
<1>1. Init => HeapInvariant
  <2> SUFFICES ASSUME Init PROVE HeapInvariant
    OBVIOUS
  <2>1. HandleInvariant
    BY DEF Init, HandleInvariant, NoHandle
  <2>2. heap = [kind \in Kinds |-> 0] /\ \A kind : Users(kind) = {}
    BY DEF Init, Users, Live
  <2> QED  BY <2>1, <2>2, FS_EmptySet DEF HeapInvariant, HeapIsOwned
<1>2. HeapInvariant /\ [Next]_vars => HeapInvariant'
  <2> SUFFICES ASSUME HeapInvariant, [Next]_vars
               PROVE  HeapInvariant'
    OBVIOUS
  <2>1. CASE handles' = handles /\ heap' = heap
    BY <2>1 DEF HeapInvariant, HandleInvariant, HeapIsOwned, Users, Live, Needs, Deleted
  <2>2. ASSUME NEW h \in Channels, NEW made \in MadeAt[h], NEW given,
               Create(h, made.class, made.callbacks, given)
        PROVE  HeapInvariant'
    <3>1. made.class \in Classes /\ made.callbacks \in BOOLEAN
      BY CApiAssumption DEF Classes
    <3> QED  BY <2>2, <3>1, CreateKeepsHeap
  <2>3. ASSUME NEW h \in Channels, Destroy(h)
        PROVE  HeapInvariant'
    BY <2>3, DestroyKeepsHeap
  <2>4. CASE UNCHANGED vars \/ CreateWithoutTransport
    BY <2>1, <2>4 DEF vars, CreateWithoutTransport
  <2>5. ASSUME NEW h \in Channels, Refuse(h) \/ CallOther(h)
        PROVE  HeapInvariant'
    BY <2>1, <2>5 DEF Refuse, CallOther, Report
  <2>6. ASSUME NEW h \in Channels, NEW answer,
               OpenOrClose(h, answer) \/ SendByUdp(h, answer) \/ ReceiveByUdp(h, answer)
        PROVE  HeapInvariant'
    BY <2>1, <2>6 DEF OpenOrClose, SendByUdp, ReceiveByUdp, Report
  <2>7. ASSUME NEW c, NEW d, Arrives(c, d) \/ Lose(c, d)
        PROVE  HeapInvariant'
    BY <2>1, <2>7 DEF Arrives, Lose
  <2> QED  BY <2>2, <2>3, <2>4, <2>5, <2>6, <2>7 DEF Next
<1> QED  BY <1>1, <1>2, PTL DEF Spec

THEOREM HeapAlwaysOwned == Spec => []HeapIsOwned
<1>1. HeapInvariant => HeapIsOwned
  BY DEF HeapInvariant
<1> QED  BY <1>1, HeapInvariantHolds, PTL

-----------------------------------------------------------------------------
(* The types of the state (TypeOK); those of handles and heap, and with    *)
(* them that nothing is deleted twice, are part of HeapInvariant.          *)

CallTypeOK ==
  /\ open \in [Channels -> BOOLEAN]
  /\ network \in [Channels \X Datagrams -> Nat]
  /\ call.status \in ProfileStatus \cup {"exception"}

LEMMA UdpTypes ==
  ASSUME CallTypeOK, NEW h \in Channels, NEW answer, NEW d,
         Open(h, answer) \/ Close(h, answer) \/ SendApdu(h, d, answer) \/ ReceiveApdu(h, answer)
  PROVE  CallTypeOK' /\ options' = options
<1>1. call'.status \in ProfileStatus \cup {"exception"}
  BY CallOfUdp
<1>2. open' \in [Channels -> BOOLEAN]
  <2>1. CASE Open(h, answer)
    BY <2>1 DEF CallTypeOK, Open
  <2>2. CASE Close(h, answer)
    BY <2>2 DEF CallTypeOK, Close
  <2>3. CASE SendApdu(h, d, answer) \/ ReceiveApdu(h, answer)
    BY <2>3 DEF CallTypeOK, SendApdu, ReceiveApdu
  <2> QED  BY <2>1, <2>2, <2>3
<1>3. network' \in [Channels \X Datagrams -> Nat]
  <2>1. CASE Open(h, answer) \/ Close(h, answer)
    BY <2>1 DEF CallTypeOK, Open, Close
  <2>2. CASE SendApdu(h, d, answer)
    <3>1. network' = network \/ network' = [network EXCEPT ![<<Peer[h], d>>] = @ + 1]
      BY <2>2 DEF SendApdu
    <3> QED  BY <3>1 DEF CallTypeOK
  <2>3. CASE ReceiveApdu(h, answer)
    <3>1. \/ network' = network
          \/ \E e \in Datagrams : network[<<h, e>>] > 0
                                /\ network' = [network EXCEPT ![<<h, e>>] = @ - 1]
      BY <2>3 DEF ReceiveApdu
    <3>2. ASSUME NEW e \in Datagrams, network[<<h, e>>] > 0,
                 network' = [network EXCEPT ![<<h, e>>] = @ - 1]
          PROVE  network' \in [Channels \X Datagrams -> Nat]
      <4>1. <<h, e>> \in Channels \X Datagrams
        OBVIOUS
      <4>2. network[<<h, e>>] \in Nat /\ network[<<h, e>>] - 1 \in Nat
        BY <3>2, <4>1 DEF CallTypeOK
      <4> QED  BY <3>2, <4>2 DEF CallTypeOK
    <3> QED  BY <3>1, <3>2 DEF CallTypeOK
  <2> QED  BY <2>1, <2>2, <2>3
<1>4. options' = options
  BY DEF Open, Close, SendApdu, ReceiveApdu
<1> QED  BY <1>1, <1>2, <1>3, <1>4 DEF CallTypeOK

LEMMA ReportTypes ==
  ASSUME NEW h \in Channels, NEW answer \in Answers(h) \cup {"none"},
         call'.status \in ProfileStatus \cup {"exception"}, Report(answer)
  PROVE  result' \in ProfileStatus /\ answered' \in ProfileStatus \cup {"none"}
<1>1. result' \in ProfileStatus
  BY ResultIsStatus DEF Report, ToResult, ProfileStatus
<1>2. answer \in ProfileStatus \cup {"none"}
  BY CApiAssumption DEF Answers, TransportStatus, ProfileStatus
<1> QED  BY <1>1, <1>2 DEF Report

LEMMA OptionTypes ==
  ASSUME NEW given \in COptions
  PROVE  OptionsRead(ToCppOptions(given)) \in [maximumApduSize : Nat, scratchBufferSize : Nat]
<1>1. CASE given = NullOptions
  BY <1>1 DEF ToCppOptions, OptionsRead, DefaultApduChannelOptions
<1>2. CASE given # NullOptions
  <2>1. {given.maximumApduSize, given.scratchBufferSize} \subseteq Nat
    BY <1>2, CApiAssumption DEF NullOptions
  <2>2. {"maximumApduSize", "scratchBufferSize"} \subseteq DOMAIN DefaultApduChannelOptions
    BY DEF DefaultApduChannelOptions
  <2>3. /\ ToCppOptions(given).maximumApduSize = given.maximumApduSize
        /\ ToCppOptions(given).scratchBufferSize = given.scratchBufferSize
    BY <1>2, <2>2 DEF ToCppOptions
  <2> QED  BY <2>1, <2>3 DEF OptionsRead
<1> QED  BY <1>1, <1>2

THEOREM TypeCorrect == Spec => []TypeOK
<1>1. Init => TypeOK
  <2> SUFFICES ASSUME Init PROVE TypeOK
    OBVIOUS
  <2>1. OptionsRead(DefaultApduChannelOptions) \in [maximumApduSize : Nat, scratchBufferSize : Nat]
    BY DEF OptionsRead, DefaultApduChannelOptions
  <2>2. "Ok" \in ProfileStatus
    BY DEF ProfileStatus
  <2> QED  BY <2>1, <2>2, CApiAssumption DEF Init, ChannelInit, Returned, NoHandle, TypeOK
<1>2. TypeOK /\ HeapInvariant' /\ [Next]_vars => TypeOK'
  <2> SUFFICES ASSUME TypeOK, HeapInvariant', [Next]_vars
               PROVE  TypeOK'
    OBVIOUS
  <2>0. /\ handles' \in [Channels -> [class : Classes \cup {"none"}, callbacks : BOOLEAN,
                                     owned : SUBSET Kinds]]
        /\ heap' \in [Kinds -> Nat]
        /\ {"Ok", "UnsupportedFeature", "InvalidArgument"} \subseteq ProfileStatus
        /\ CallTypeOK
    BY DEF HeapInvariant, HandleInvariant, ProfileStatus, TypeOK, CallTypeOK
  <2>1. CASE UNCHANGED vars
    BY <2>1 DEF vars, channelVars, TypeOK
  <2>2. CASE CreateWithoutTransport
    BY <2>0, <2>2 DEF CreateWithoutTransport, Return, Returned, TypeOK
  <2>3. ASSUME NEW h \in Channels, NEW class, NEW callbacks, NEW given \in COptions,
               Create(h, class, callbacks, given)
        PROVE  TypeOK'
    <3>1. options' \in [Channels -> [maximumApduSize : Nat, scratchBufferSize : Nat]]
      <4>1. options' = options \/ options' = [options EXCEPT ![h] = OptionsRead(ToCppOptions(given))]
        BY <2>3 DEF Create, NewChannel
      <4> QED  BY <4>1, OptionTypes DEF TypeOK
    <3>2. result' \in {"created", "null"} /\ answered' = "none" /\ call'.status = "Ok"
      BY <2>3 DEF Create, Return, Returned
    <3>3. UNCHANGED <<open, network, arrivals, got>>
      BY <2>3 DEF Create
    <3> QED  BY <2>0, <3>1, <3>2, <3>3 DEF TypeOK
  <2>4. ASSUME NEW h \in Channels, Destroy(h)
        PROVE  TypeOK'
    <3>1. OptionsRead(DefaultApduChannelOptions) \in [maximumApduSize : Nat, scratchBufferSize : Nat]
      BY DEF OptionsRead, DefaultApduChannelOptions
    <3>2. options' \in [Channels -> [maximumApduSize : Nat, scratchBufferSize : Nat]]
      BY <2>4, <3>1 DEF Destroy, NewChannel, TypeOK
    <3> QED  BY <2>0, <2>4, <3>2 DEF Destroy, Return, Returned, TypeOK
  <2>5. ASSUME NEW h \in Channels, Refuse(h) \/ CallOther(h)
        PROVE  TypeOK'
    <3>1. call'.status \in ProfileStatus \cup {"exception"}
      BY <2>0, <2>5, CApiAssumption DEF Refuse, CallOther, Return, Returned
    <3>2. result' \in ProfileStatus /\ answered' \in ProfileStatus \cup {"none"}
      BY <2>5, <3>1, ReportTypes DEF Refuse, CallOther
    <3> QED  BY <2>0, <2>5, <3>1, <3>2 DEF Refuse, CallOther, TypeOK
  <2>6. ASSUME NEW h \in Channels, NEW answer \in Answers(h) \cup {"none"},
               OpenOrClose(h, answer) \/ SendByUdp(h, answer) \/ ReceiveByUdp(h, answer)
        PROVE  TypeOK'
    <3>1. CallTypeOK' /\ options' = options /\ Report(answer)
      <4>1. CASE OpenOrClose(h, answer)
        <5>1. (Open(h, Heard(h, answer)) \/ Close(h, Heard(h, answer))) /\ Report(answer)
          BY <4>1 DEF OpenOrClose
        <5>2. open' \in [Channels -> BOOLEAN] /\ UNCHANGED <<network, options>>
          <6>1. CASE Open(h, Heard(h, answer))
            BY <2>0, <6>1 DEF CallTypeOK, Open
          <6>2. CASE Close(h, Heard(h, answer))
            BY <2>0, <6>2 DEF CallTypeOK, Close
          <6> QED  BY <5>1, <6>1, <6>2
        <5>3. call'.status \in ProfileStatus \cup {"exception"}
          BY <5>1, CallOfUdp
        <5> QED  BY <2>0, <5>1, <5>2, <5>3 DEF CallTypeOK
      <4>2. CASE SendByUdp(h, answer)
        <5>1. \E d : SendApdu(h, d, Heard(h, answer))
          BY <4>2 DEF SendByUdp
        <5> QED  BY <2>0, <4>2, <5>1, UdpTypes DEF SendByUdp
      <4>3. CASE ReceiveByUdp(h, answer)
        <5>1. ReceiveApdu(h, Heard(h, answer)) /\ Report(answer)
          BY <4>3 DEF ReceiveByUdp
        <5> QED  BY <2>0, <5>1, UdpTypes
      <4> QED  BY <2>6, <4>1, <4>2, <4>3
    <3>2. result' \in ProfileStatus /\ answered' \in ProfileStatus \cup {"none"}
      BY <3>1, ReportTypes DEF CallTypeOK
    <3>3. arrivals' \in 0..MaxArrivals
      BY <2>6, CApiAssumption DEF OpenOrClose, SendByUdp, ReceiveByUdp, TypeOK
    <3>4. got' \in [Apdus -> Nat]
      <4>1. got' = got \/ \E p : got' = [got EXCEPT ![p] = got[p] + 1]
        BY <2>6 DEF OpenOrClose, SendByUdp, ReceiveByUdp
      <4>2. ASSUME NEW p, got' = [got EXCEPT ![p] = got[p] + 1]
            PROVE  got' \in [Apdus -> Nat]
        <5>1. got \in [Apdus -> Nat]
          BY DEF TypeOK
        <5>2. CASE p \in Apdus
          BY <4>2, <5>1, <5>2
        <5>3. CASE p \notin Apdus
          BY <4>2, <5>1, <5>3
        <5> QED  BY <5>2, <5>3
      <4>3. CASE got' = got
        BY <4>3 DEF TypeOK
      <4> QED  BY <4>1, <4>2, <4>3, Zenon
    <3> QED  BY <2>0, <3>1, <3>2, <3>3, <3>4 DEF CallTypeOK, TypeOK
  <2>7. ASSUME NEW c \in Receivers, NEW d \in Datagrams, Arrives(c, d) \/ Lose(c, d)
        PROVE  TypeOK'
    <3>1. <<c, d>> \in Channels \X Datagrams
      BY DatagramAssumption, CApiAssumption DEF Receivers
    <3>2. network' \in [Channels \X Datagrams -> Nat]
      <4>1. network[<<c, d>>] \in Nat
        BY <3>1 DEF TypeOK
      <4>2. \/ network' = [network EXCEPT ![<<c, d>>] = network[<<c, d>>] + 1]
            \/ /\ network[<<c, d>>] > 0
               /\ network' = [network EXCEPT ![<<c, d>>] = network[<<c, d>>] - 1]
        BY <2>7 DEF Arrives, Lose
      <4>3. \E m \in Nat : network' = [network EXCEPT ![<<c, d>>] = m]
        BY <4>1, <4>2
      <4> QED  BY <4>3 DEF TypeOK
    <3>3. arrivals' \in 0..MaxArrivals
      BY <2>7, CApiAssumption DEF Arrives, Lose, TypeOK
    <3> QED  BY <2>0, <2>7, <3>2, <3>3 DEF Arrives, Lose, TypeOK
  <2> QED  BY <2>1, <2>2, <2>3, <2>4, <2>5, <2>6, <2>7 DEF Next
<1> QED  BY <1>1, <1>2, HeapInvariantHolds, PTL DEF Spec

-----------------------------------------------------------------------------
(* A datagram that ReceiveApdu took is never reported as if none had come  *)
(* (TakenIsNotAwaited), whatever the scratch buffer and the datagram hold. *)

Awaiting == {"NeedMoreData", "WouldBlock", "Timeout"}
NoneTaken ==
  \A c \in Channels, d \in Datagrams : Octets[d] > 0 => network'[<<c, d>>] >= network[<<c, d>>]

LEMMA TakenIsReported ==
  ASSUME TypeOK, NEW h \in Channels, NEW d \in Datagrams, Octets[d] > 0, ReceiveFrame(h, d)
  PROVE  call'.status \notin Awaiting
<1> DEFINE n == IF Octets[d] < ScratchSize(h) THEN Octets[d] ELSE ScratchSize(h)
<1>1. n # 0
  <2>1. Octets[d] \in Nat
    BY DatagramAssumption
  <2>2. options[h].scratchBufferSize \in Nat
    BY DEF TypeOK
  <2>3. ScratchSize(h) \in Nat /\ ScratchSize(h) > 0
    BY <2>2 DEF ScratchSize
  <2> QED  BY <2>1, <2>3
<1>2. \A status : MapWrapperStatus(status) \notin {"WouldBlock", "Timeout"}
  BY DEF MapWrapperStatus, CodecStatus
<1>3. FrameStatus(h, d, n) \notin Awaiting
  BY <1>1, <1>2 DEF FrameStatus, Awaiting
<1>4. \/ call'.status = FrameStatus(h, d, n)
      \/ call'.status \in {"exception", "OutputBufferTooSmall", "Ok"}
  BY DEF ReceiveFrame, CopyFrameData, HandOver, Return, Returned
<1> QED  BY <1>3, <1>4 DEF Awaiting

THEOREM TakenIsNeverAwaited == Spec => TakenIsNotAwaited
<1>1. TypeOK /\ [Next]_vars =>
        [call' # call /\ call'.status \in Awaiting => NoneTaken]_vars
  <2> SUFFICES ASSUME TypeOK, Next, call' # call, call'.status \in Awaiting
               PROVE  NoneTaken
    OBVIOUS
  <2>1. network \in [Channels \X Datagrams -> Nat]
    BY DEF TypeOK
  <2>2. CASE network' = network
    BY <2>1, <2>2 DEF NoneTaken
  <2>3. CASE CreateWithoutTransport
    BY <2>2, <2>3 DEF CreateWithoutTransport
  <2>4. ASSUME NEW h \in Channels, NEW class, NEW callbacks, NEW given,
               \/ Create(h, class, callbacks, given)
               \/ Destroy(h) \/ Refuse(h) \/ CallOther(h)
        PROVE  NoneTaken
    BY <2>2, <2>4 DEF Create, Destroy, Refuse, CallOther
  <2>5. ASSUME NEW h \in Channels, NEW answer, OpenOrClose(h, answer)
        PROVE  NoneTaken
    BY <2>2, <2>5 DEF OpenOrClose, Open, Close
  <2>6. ASSUME NEW h \in Channels, NEW answer, SendByUdp(h, answer)
        PROVE  NoneTaken
    <3>1. network' = network \/ \E p : network' = [network EXCEPT ![p] = network[p] + 1]
      BY <2>6 DEF SendByUdp, SendApdu
    <3>2. ASSUME NEW p, network' = [network EXCEPT ![p] = network[p] + 1]
          PROVE  NoneTaken
      <4>1. \A q \in Channels \X Datagrams : network[q] \in Nat /\ network'[q] >= network[q]
        BY <2>1, <3>2
      <4> QED  BY <4>1 DEF NoneTaken
    <3> QED  BY <2>2, <3>1, <3>2
  <2>7. ASSUME NEW h \in Channels, NEW answer, ReceiveByUdp(h, answer)
        PROVE  NoneTaken
    <3>1. \/ network' = network
          \/ \E e \in Datagrams : /\ network' = [network EXCEPT ![<<h, e>>] = network[<<h, e>>] - 1]
                                /\ ReceiveFrame(h, e)
      BY <2>7 DEF ReceiveByUdp, ReceiveApdu
    <3>2. ASSUME NEW e \in Datagrams, ReceiveFrame(h, e),
                 network' = [network EXCEPT ![<<h, e>>] = network[<<h, e>>] - 1]
          PROVE  NoneTaken
      <4>1. ~(Octets[e] > 0)
        BY <3>2, TakenIsReported
      <4>2. ASSUME NEW c \in Channels, NEW d \in Datagrams, Octets[d] > 0
            PROVE  network'[<<c, d>>] >= network[<<c, d>>]
        <5>1. <<c, d>> # <<h, e>> /\ <<c, d>> \in Channels \X Datagrams
          BY <4>1, <4>2
        <5>2. network'[<<c, d>>] = network[<<c, d>>] /\ network[<<c, d>>] \in Nat
          BY <2>1, <3>2, <5>1
        <5> QED  BY <5>2
      <4> QED  BY <4>2 DEF NoneTaken
    <3> QED  BY <2>2, <3>1, <3>2
  <2>8. ASSUME NEW c, NEW d, Arrives(c, d) \/ Lose(c, d)
        PROVE  FALSE
    BY <2>8 DEF Arrives, Lose
  <2> QED  BY <2>3, <2>4, <2>5, <2>6, <2>7, <2>8 DEF Next
<1>2. [call' # call /\ call'.status \in Awaiting => NoneTaken]_vars =>
        [(call' # call /\ call'.status \in {"NeedMoreData", "WouldBlock", "Timeout"}) =>
           \A c \in Channels, d \in Datagrams :
             Octets[d] > 0 => network'[<<c, d>>] >= network[<<c, d>>]]_vars
  BY DEF Awaiting, NoneTaken
<1> QED  BY <1>1, <1>2, TypeCorrect, PTL DEF Spec, TakenIsNotAwaited

-----------------------------------------------------------------------------
(* The UDP channels implement DatagramDelivery (ServiceToPeer).            *)

UnderWay == [p \in Apdus |-> IF p[2] \in Datagrams THEN network[p] ELSE 0]

(* What is handed over is an APDU as it was announced and sent.            *)
LEMMA HandedOverWhole ==
  ASSUME TypeOK, NEW h \in Channels, NEW d \in Datagrams, ReceiveFrame(h, d),
         call'.apdu # Nothing
  PROVE  d \in Carriers /\ Whole(call'.apdu) = d
<1> DEFINE n == IF Octets[d] < ScratchSize(h) THEN Octets[d] ELSE ScratchSize(h)
<1>1. call'.apdu = [datagram |-> d, size |-> Lengths[d]] /\ FrameStatus(h, d, n) = "Ok"
  <2>1. CopyFrameData(d) => \/ call' = [op |-> "ReceiveApdu", answer |-> "Ok",
                                        status |-> "OutputBufferTooSmall", apdu |-> Nothing]
                            \/ HandOver(d, Lengths[d])
    BY DEF CopyFrameData, Return, Returned
  <2>2. HandOver(d, Lengths[d]) => call'.apdu = [datagram |-> d, size |-> Lengths[d]]
    BY DEF HandOver, Returned
  <2> QED  BY <2>1, <2>2 DEF ReceiveFrame, Return, Returned
<1>2. DecodeWpdu(d, n, MaximumDataSize(h)) = "Ok"
  BY <1>1 DEF FrameStatus, MapWrapperStatus, CodecStatus
<1>3. n \in Nat /\ Octets[d] \in Nat /\ HeaderSize \in Nat /\ Lengths[d] \in Nat /\ n <= Octets[d]
  <2>1. Octets[d] \in Nat /\ HeaderSize \in Nat /\ Lengths[d] \in Nat
    BY DatagramAssumption DEF Datagrams
  <2>2. options[h].scratchBufferSize \in Nat
    BY DEF TypeOK
  <2>3. ScratchSize(h) \in Nat
    BY <2>2 DEF ScratchSize
  <2> QED  BY <2>1, <2>3
<1>4. Octets[d] >= HeaderSize + Lengths[d] /\ d \notin Malformed
  <2> HIDE DEF n
  <2>1. ~(n < HeaderSize) /\ d \notin Malformed /\ ~(n < HeaderSize + Lengths[d])
    BY <1>2 DEF DecodeWpdu
  <2> QED  BY <1>3, <2>1
<1>5. d \in Carriers
  BY <1>4 DEF Carriers
<1> QED  BY <1>1, <1>5 DEF Whole

LEMMA UdpServiceInit == Init => Service!Init
<1> SUFFICES ASSUME Init PROVE Service!Init
  OBVIOUS
<1>1. got = [p \in Apdus |-> 0] /\ network = [p \in Channels \X Datagrams |-> 0]
  BY DEF Init, ChannelInit
<1>2. \A p \in Apdus : p[2] \in Datagrams => p \in Channels \X Datagrams
  BY DatagramAssumption, CApiAssumption DEF Apdus, Receivers
<1> QED  BY <1>1, <1>2 DEF Service!Init

(* One more copy of a datagram, or one less, under way to channel c.       *)
LEMMA CopiesOfOne ==
  ASSUME TypeOK, NEW c \in Channels, NEW d \in Datagrams, NEW m \in Nat,
         network' = [network EXCEPT ![<<c, d>>] = m]
  PROVE  /\ <<c, d>> \in Apdus => UnderWay' = [UnderWay EXCEPT ![<<c, d>>] = m]
         /\ <<c, d>> \in Apdus => UnderWay[<<c, d>>] = network[<<c, d>>]
         /\ <<c, d>> \notin Apdus => UnderWay' = UnderWay
<1>1. network \in [Channels \X Datagrams -> Nat]
  BY DEF TypeOK
<1>2. <<c, d>> \in Channels \X Datagrams
  OBVIOUS
<1>3. \A p \in Apdus : /\ p[2] \in Datagrams => p \in Channels \X Datagrams
                      /\ p = <<p[1], p[2]>>
  BY DatagramAssumption, CApiAssumption DEF Apdus, Receivers
<1>4. network'[<<c, d>>] = m
  BY <1>1, <1>2
<1>5. \A p \in Channels \X Datagrams : p # <<c, d>> => network'[p] = network[p]
  BY <1>1
<1>6. \A p \in Apdus : UnderWay'[p] = IF p = <<c, d>> THEN m ELSE UnderWay[p]
  BY <1>3, <1>4, <1>5 DEF UnderWay
<1>7. DOMAIN UnderWay = Apdus /\ DOMAIN UnderWay' = Apdus
  BY DEF UnderWay
<1>8. UnderWay = [p \in Apdus |-> UnderWay[p]] /\ UnderWay' = [p \in Apdus |-> UnderWay'[p]]
  BY DEF UnderWay
<1>9. <<c, d>> \in Apdus => UnderWay[<<c, d>>] = network[<<c, d>>]
  BY DEF UnderWay
<1> QED  BY <1>6, <1>7, <1>8, <1>9

LEMMA ArrivingImplements ==
  ASSUME TypeOK, NEW c \in Channels, NEW d \in Datagrams, got' = got,
         network' = [network EXCEPT ![<<c, d>>] = network[<<c, d>>] + 1]
  PROVE  [Service!Next]_<<UnderWay, got>>
<1>1. network[<<c, d>>] \in Nat /\ network[<<c, d>>] + 1 \in Nat
  BY DEF TypeOK
<1>2. CASE <<c, d>> \in Apdus
  <2>1. UnderWay' = [UnderWay EXCEPT ![<<c, d>>] = UnderWay[<<c, d>>] + 1]
    BY <1>1, <1>2, CopiesOfOne
  <2>2. Service!SendOrRepeat(<<c, d>>)
    BY <2>1 DEF Service!SendOrRepeat, UnderWay
  <2> QED  BY <1>2, <2>2 DEF Service!Next
<1>3. CASE <<c, d>> \notin Apdus
  BY <1>1, <1>3, CopiesOfOne
<1> QED  BY <1>2, <1>3

LEMMA LosingImplements ==
  ASSUME TypeOK, NEW c \in Channels, NEW d \in Datagrams, got' = got,
         network[<<c, d>>] > 0,
         network' = [network EXCEPT ![<<c, d>>] = network[<<c, d>>] - 1]
  PROVE  [Service!Next]_<<UnderWay, got>>
<1>1. network[<<c, d>>] \in Nat /\ network[<<c, d>>] - 1 \in Nat
  <2>1. network[<<c, d>>] \in Nat
    BY DEF TypeOK
  <2> QED  BY <2>1
<1>2. CASE <<c, d>> \in Apdus
  <2>1. /\ UnderWay[<<c, d>>] > 0
        /\ UnderWay' = [UnderWay EXCEPT ![<<c, d>>] = UnderWay[<<c, d>>] - 1]
    BY <1>1, <1>2, CopiesOfOne
  <2>2. Service!Lose(<<c, d>>)
    BY <2>1 DEF Service!Lose, UnderWay
  <2> QED  BY <1>2, <2>2 DEF Service!Next
<1>3. CASE <<c, d>> \notin Apdus
  BY <1>1, <1>3, CopiesOfOne
<1> QED  BY <1>2, <1>3

LEMMA ReceivingImplements ==
  ASSUME TypeOK, NEW h \in Channels, NEW d \in Datagrams, ReceiveFrame(h, d),
         network[<<h, d>>] > 0,
         network' = [network EXCEPT ![<<h, d>>] = network[<<h, d>>] - 1],
         got' = IF call'.apdu = Nothing THEN got
                ELSE [got EXCEPT ![<<h, Whole(call'.apdu)>>] = got[<<h, Whole(call'.apdu)>>] + 1]
  PROVE  [Service!Next]_<<UnderWay, got>>
<1>1. CASE call'.apdu = Nothing
  BY <1>1, LosingImplements
<1>2. CASE call'.apdu # Nothing
  <2>1. d \in Carriers /\ Whole(call'.apdu) = d
    BY <1>2, HandedOverWhole
  <2>2. got' = [got EXCEPT ![<<h, d>>] = got[<<h, d>>] + 1]
    BY <1>2, <2>1
  <2>3. network[<<h, d>>] \in Nat /\ network[<<h, d>>] - 1 \in Nat
    <3>1. network[<<h, d>>] \in Nat
      BY DEF TypeOK
    <3> QED  BY <3>1
  <2>4. CASE <<h, d>> \in Apdus
    <3>1. /\ UnderWay[<<h, d>>] > 0
          /\ UnderWay' = [UnderWay EXCEPT ![<<h, d>>] = UnderWay[<<h, d>>] - 1]
      BY <2>3, <2>4, CopiesOfOne
    <3>2. Service!Deliver(<<h, d>>)
      BY <2>2, <3>1 DEF Service!Deliver, UnderWay
    <3> QED  BY <2>4, <3>2 DEF Service!Next
  <2>5. CASE <<h, d>> \notin Apdus
    <3>1. got \in [Apdus -> Nat]
      BY DEF TypeOK
    <3>2. got' = got
      BY <2>2, <2>5, <3>1
    <3>3. UnderWay' = UnderWay
      BY <2>3, <2>5, CopiesOfOne
    <3> QED  BY <3>2, <3>3
  <2> QED  BY <2>4, <2>5
<1> QED  BY <1>1, <1>2

THEOREM UdpImplementsDatagramDelivery == Spec => ServiceToPeer
<1>1. TypeOK /\ [Next]_vars => [Service!Next]_<<UnderWay, got>>
  <2> SUFFICES ASSUME TypeOK, [Next]_vars
               PROVE  [Service!Next]_<<UnderWay, got>>
    OBVIOUS
  <2>1. CASE network' = network /\ got' = got
    BY <2>1 DEF UnderWay
  <2>2. CASE UNCHANGED vars \/ CreateWithoutTransport
    BY <2>1, <2>2 DEF vars, channelVars, CreateWithoutTransport
  <2>3. ASSUME NEW h \in Channels, NEW class, NEW callbacks, NEW given,
               \/ Create(h, class, callbacks, given)
               \/ Destroy(h) \/ Refuse(h) \/ CallOther(h)
        PROVE  [Service!Next]_<<UnderWay, got>>
    BY <2>1, <2>3 DEF Create, Destroy, Refuse, CallOther
  <2>4. ASSUME NEW h \in Channels, NEW answer, OpenOrClose(h, answer)
        PROVE  [Service!Next]_<<UnderWay, got>>
    BY <2>1, <2>4 DEF OpenOrClose, Open, Close
  <2>5. ASSUME NEW h \in Channels, NEW answer, SendByUdp(h, answer)
        PROVE  [Service!Next]_<<UnderWay, got>>
    <3>1. /\ got' = got
          /\ \/ network' = network
             \/ \E d \in Datagrams :
                  network' = [network EXCEPT ![<<Peer[h], d>>] = network[<<Peer[h], d>>] + 1]
      BY <2>5 DEF SendByUdp, SendApdu, WellFormed
    <3>2. Peer[h] \in Channels
      BY DatagramAssumption
    <3> QED  BY <2>1, <3>1, <3>2, ArrivingImplements
  <2>6. ASSUME NEW h \in Channels, NEW answer, ReceiveByUdp(h, answer)
        PROVE  [Service!Next]_<<UnderWay, got>>
    <3>1. \/ network' = network /\ call'.apdu = Nothing
          \/ \E d \in Datagrams :
               /\ network[<<h, d>>] > 0
               /\ network' = [network EXCEPT ![<<h, d>>] = network[<<h, d>>] - 1]
               /\ ReceiveFrame(h, d)
      <4>1. \A status, heard : Return("ReceiveApdu", heard, status) => call'.apdu = Nothing
        BY DEF Return, Returned
      <4> QED  BY <2>6, <4>1 DEF ReceiveByUdp, ReceiveApdu
    <3>2. got' = IF call'.apdu = Nothing THEN got
                 ELSE [got EXCEPT ![<<h, Whole(call'.apdu)>>] = got[<<h, Whole(call'.apdu)>>] + 1]
      BY <2>6 DEF ReceiveByUdp
    <3> QED  BY <2>1, <3>1, <3>2, ReceivingImplements
  <2>7. ASSUME NEW c \in Receivers, NEW d \in Datagrams, Arrives(c, d) \/ Lose(c, d)
        PROVE  [Service!Next]_<<UnderWay, got>>
    <3>1. c \in Channels
      BY DatagramAssumption, CApiAssumption DEF Receivers
    <3>2. CASE Arrives(c, d)
      BY <3>1, <3>2, ArrivingImplements DEF Arrives
    <3>3. CASE Lose(c, d)
      BY <3>1, <3>3, LosingImplements DEF Lose
    <3> QED  BY <2>7, <3>2, <3>3
  <2> QED  BY <2>2, <2>3, <2>4, <2>5, <2>6, <2>7 DEF Next
<1>2. [Service!Next]_<<UnderWay, got>> =>
        [Service!Next]_<<[p \in Apdus |-> IF p[2] \in Datagrams THEN network[p] ELSE 0], got>>
  BY DEF UnderWay
<1> QED  BY <1>1, <1>2, UdpServiceInit, TypeCorrect, PTL DEF Spec, ServiceToPeer, Service!Spec
=============================================================================
