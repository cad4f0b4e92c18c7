-------------------------- MODULE MCChannelDelivery --------------------------
(* Small instances of ChannelDelivery on one channel.                       *)
EXTENDS ChannelDelivery, TLC

CONSTANTS s1, s2, f1

OneSender == {s1}
TwoSenders == {s1, s2}
Symmetry == Permutations(TwoSenders)

OneForeign == {f1}
OnFirst == [f \in OneForeign |-> 0]
OneChannel == {0}
OneHashOf == (0 :> "a1")
OneTable == {0 :> "Public"}
SomeTables == {0 :> "Public", 0 :> NoTag}

(* A packet known by its hash, by its name, and a bare slot number.        *)
HashOnly == [hash |-> TRUE, name |-> FALSE, idx |-> FALSE, key |-> TRUE]
NameOnly == [hash |-> FALSE, name |-> TRUE, idx |-> FALSE, key |-> TRUE]
Keyless == [hash |-> FALSE, name |-> FALSE, idx |-> TRUE, key |-> FALSE]

NamedShapes == {NameOnly}
KeyShapes == {NameOnly, Keyless}
HashShapes == {HashOnly}
=============================================================================
