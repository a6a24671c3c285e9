---------------------------- MODULE ProfileTypes ----------------------------
(***************************************************************************)
(* The statuses of the profile layer (src/include/dlms/profile/            *)
(* profile_types.hpp) and what the statuses of the libraries below become  *)
(* in it (src/src/profile/profile_types.cpp).                              *)
(***************************************************************************)
EXTENDS Naturals

ProfileStatus ==
  {"Ok", "NeedMoreData", "OutputBufferTooSmall", "InvalidArgument", "NotOpen",
   "AlreadyOpen", "OpenFailed", "ReadFailed", "WriteFailed", "Timeout",
   "ConnectionClosed", "WouldBlock", "InvalidFrame", "InvalidLength",
   "InvalidAddress", "PayloadTooLarge", "UnsupportedFeature", "InternalError"}

(* The statuses of a transport, and those that every other library has.    *)
TransportStatus ==
  {"Ok", "InvalidArgument", "NotOpen", "AlreadyOpen", "OpenFailed", "ReadFailed",
   "WriteFailed", "Timeout", "ConnectionClosed", "WouldBlock",
   "OutputBufferTooSmall", "UnsupportedFeature", "InternalError"}

CodecStatus ==
  {"Ok", "NeedMoreData", "OutputBufferTooSmall", "InvalidArgument",
   "UnsupportedFeature", "InternalError"}

(* Any status that a conversion does not know becomes InternalError.       *)
MapTransportStatus(status) ==
  IF status \in TransportStatus THEN status ELSE "InternalError"

MapWrapperStatus(status) ==
  CASE status \in {"InvalidVersion", "InvalidSourcePort", "InvalidDestinationPort"}
         -> "InvalidFrame"
    [] status \in {"DataTooLarge", "FrameTooLarge"} -> "PayloadTooLarge"
    [] status \in CodecStatus \cup {"InvalidLength"} -> status
    [] OTHER -> "InternalError"

MapLlcStatus(status) ==
  CASE status \in {"InvalidHeader", "InvalidDsap", "InvalidSsap", "InvalidControl"}
         -> "InvalidFrame"
    [] status = "InvalidLpduLength" -> "InvalidLength"
    [] status = "LsduTooLarge" -> "PayloadTooLarge"
    [] status \in {"BroadcastEncodeForbidden", "UnsupportedAddress", "UnsupportedControl"}
         -> "UnsupportedFeature"
    [] status \in CodecStatus -> status
    [] OTHER -> "InternalError"

MapHdlcStatus(status) ==
  CASE status = "SegmentationIncomplete" -> "NeedMoreData"
    [] status \in {"InvalidFlag", "InvalidFrameFormat", "InvalidFrameType",
                   "InvalidControlField", "InvalidHeaderChecksum",
                   "InvalidFrameChecksum", "SegmentationError"} -> "InvalidFrame"
    [] status = "InvalidFrameLength" -> "InvalidLength"
    [] status \in {"FrameTooLarge", "InformationFieldTooLarge", "SegmentationOverflow"}
         -> "PayloadTooLarge"
    [] status \in {"UnsupportedFrame", "UnsupportedAddress"} -> "UnsupportedFeature"
    [] status \in CodecStatus \cup {"InvalidAddress"} -> status
    [] OTHER -> "InternalError"

DefaultApduChannelOptions ==
  [localWrapperPort |-> "public client", remoteWrapperPort |-> "management device",
   wrapperTcpTraceSink |-> "none",
   hdlcClientAddress |-> 16, hdlcLogicalDeviceAddress |-> 1, hdlcPhysicalDeviceAddress |-> 0,
   hdlcDirection |-> "ClientToServer", hdlcRole |-> "Client", hdlcUseSession |-> FALSE,
   hdlcMaxInformationFieldLengthTransmit |-> 0, hdlcMaxInformationFieldLengthReceive |-> 0,
   hdlcWindowSizeTransmit |-> 0, hdlcWindowSizeReceive |-> 0,
   hdlcRetryCount |-> 3, hdlcRetryDelayMilliseconds |-> 10,
   maximumApduSize |-> 65535, scratchBufferSize |-> 2048]
=============================================================================
