--------------------------- MODULE MCRestClient ---------------------------
(* Three calls, one or two names, one message with an id and one without.  *)
(* Sizes are scaled down: eight bytes for the encoded name of a publish,   *)
(* twenty for the others, fourteen for a cursor, which of the two sizes of *)
(* the paged name's links the shorter fits and the longer does not.        *)
EXTENDS RestClient

ShortNames == {<<"u">>, <<"e", "e">>}
ShortName == <<"e", "e">>
LongNames == {<<"e", "e", "u">>}
LongName == <<"e", "e", "u">>
TwoPages == [n \in Names |-> [i \in 1 .. 3 |-> [data |-> <<"s1", "s2", "s3">>[i], id |-> None]]]
=============================================================================
