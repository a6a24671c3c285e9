---------------------------- MODULE MCWrapperTcp ----------------------------
(* Small instances of WrapperTcpEndpoint: what the peer sends.              *)
EXTENDS WrapperTcpEndpoint

TwoLengths == <<2, 1>>

(* One empty APDU, and one, the third, longer than MaxApduSize.             *)
SomeLengths == <<2, 0, 3, 2, 1>>
=============================================================================
