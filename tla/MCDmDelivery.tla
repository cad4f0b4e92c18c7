---------------------------- MODULE MCDmDelivery ----------------------------
EXTENDS DmDelivery, TLC
CONSTANTS s1, s2, a, b

TwoSenders == {s1, s2}
(* Two contacts asked the same: the texts agree, the recipients do not; to  *)
(* the first the reply has a second part.                                  *)
TwoReplies == (s1 :> a @@ s2 :> b)
SameText == (s1 :> <<"x", "y">> @@ s2 :> <<"x">>)
=============================================================================
