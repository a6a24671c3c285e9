-------------------------- MODULE DatagramDelivery --------------------------
(***************************************************************************)
(* What a datagram service promises: an APDU is handed over, whole, for a  *)
(* copy of it that was under way.  Copies may come in any order, be lost,  *)
(* and be repeated by the network, but not by the service.                 *)
(***************************************************************************)
EXTENDS Naturals

CONSTANT Apdus

VARIABLES
  underWay,   \* how many copies of each APDU the network holds
  delivered   \* how often each APDU was handed over

Init ==
  /\ underWay = [apdu \in Apdus |-> 0]
  /\ delivered = [apdu \in Apdus |-> 0]

SendOrRepeat(apdu) ==
  underWay' = [underWay EXCEPT ![apdu] = @ + 1] /\ UNCHANGED delivered

Lose(apdu) ==
  /\ underWay[apdu] > 0
  /\ underWay' = [underWay EXCEPT ![apdu] = @ - 1]
  /\ UNCHANGED delivered

Deliver(apdu) ==
  /\ underWay[apdu] > 0
  /\ underWay' = [underWay EXCEPT ![apdu] = @ - 1]
  /\ delivered' = [delivered EXCEPT ![apdu] = @ + 1]

Next == \E apdu \in Apdus : SendOrRepeat(apdu) \/ Lose(apdu) \/ Deliver(apdu)

Spec == Init /\ [][Next]_<<underWay, delivered>>
=============================================================================
