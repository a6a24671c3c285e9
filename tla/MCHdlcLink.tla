----------------------------- MODULE MCHdlcLink -----------------------------
(* Small instances of HdlcLink: the APDUs each side sends.                  *)
EXTENDS HdlcLink

NoApdus == <<>>
TwoApdus == << <<"a">>, <<"b">> >>
FiveRequests == << <<"a">>, <<"b">>, <<"c">>, <<"d">>, <<"e">> >>
FiveReplies == << <<"A">>, <<"B">>, <<"C">>, <<"D">>, <<"E">> >>
LongApdu == << <<"a", "b">> >>
ReplyApdu == << <<"x">> >>
=============================================================================
