---------------------------- MODULE ApduDelivery ----------------------------
(***************************************************************************)
(* What a session promises for one direction: the APDUs sent are handed to *)
(* the other application in the order sent and at most once each.  An APDU *)
(* may be lost (its send reports an error, or the link is set up anew).    *)
(***************************************************************************)
EXTENDS Naturals, Sequences

CONSTANT Apdus

VARIABLES
  sent,       \* the APDUs put on the wire, in order
  delivered   \* the positions in sent of the APDUs handed over, in order

Init == sent = <<>> /\ delivered = <<>>

Send ==
  /\ \E apdu \in Apdus : sent' = Append(sent, apdu)
  /\ UNCHANGED delivered

Deliver ==
  /\ \E i \in 1..Len(sent) :
       /\ \A k \in 1..Len(delivered) : delivered[k] < i
       /\ delivered' = Append(delivered, i)
  /\ UNCHANGED sent

Next == Send \/ Deliver

Spec == Init /\ [][Next]_<<sent, delivered>>
=============================================================================
