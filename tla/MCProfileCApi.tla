---------------------------- MODULE MCProfileCApi ----------------------------
(* A small instance of ProfileCApi: two ends, one of which sends.           *)
EXTENDS ProfileCApi

CONSTANTS a, b

OtherEnd == [c \in Channels |-> CHOOSE p \in Channels : p # c]

(* WPDUs of two and of three octets of APDU; a truncated one, a malformed   *)
(* one, one with an octet too many, and an empty datagram.                  *)
SomeLengths == <<2, 3, 2, 1, 1, 0>>
SomeOctets == <<10, 11, 9, 9, 10, 0>>

(* The defaults, and options for which an APDU of three octets is too long, *)
(* and a datagram of ten is longer than the scratch buffer.                 *)
SomeOptions ==
  {NullOptions,
   [dlms_profile_default_channel_options EXCEPT
      !.maximumApduSize = 2, !.scratchBufferSize = 9]}

Made(class, callbacks) == [class |-> class, callbacks |-> callbacks]
SomeHandles == [c \in Channels |->
  {Made("udp", TRUE), Made("udp", FALSE),
   IF c = a THEN Made("hdlc", TRUE) ELSE Made("tcp", FALSE)}]
=============================================================================
