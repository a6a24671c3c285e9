--------------------------- MODULE MCHdlcEndpoint ---------------------------
(* Small instances of HdlcEndpoint: the frames and APDUs of each.           *)
EXTENDS HdlcEndpoint

Numbered(kind, ns, nr, segmented, information) ==
  [kind |-> kind, ns |-> ns, nr |-> nr, segmented |-> segmented,
   information |-> information]

OneApdu == {<<"a">>}
LongApdu == {<<"a", "b">>}

Ready(nr) == Numbered("RR", 0, nr, FALSE, <<>>)
Lpdu(ns, segmented) == Numbered("I", ns, 0, segmented, <<LlcHeader, "a">>)
Headless == Numbered("I", 0, 0, FALSE, <<"a">>)

(* The answers and an APDU of a server; what a client may send.             *)
ServerFrames == {UFrame("UA"), Ready(1), Lpdu(0, FALSE)}
ClientFrames ==
  {UFrame("SNRM"), UFrame("DISC"), Lpdu(0, FALSE), Lpdu(0, TRUE), Headless}

(* Unnumbered exchange: LPDUs, one too long, one without an LLC header.     *)
UnnumberedApdus == {<<>>, <<"a">>, <<"a", "b">>}
UnnumberedFrames ==
  {UIFrame(<<LlcHeader, "a">>), UIFrame(<<LlcHeader, "a", "a">>), UIFrame(<<"a">>),
   [UIFrame(<<LlcHeader, "a">>) EXCEPT !.segmented = TRUE]}
=============================================================================
