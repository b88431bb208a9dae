----------------------------- MODULE MCConnector -----------------------------
(* Instances of Connector for TLC. *)
EXTENDS Connector

CONSTANTS c1, c2, k1, k2, v1, v2, sk

RefreshOnly   == {"refreshToken"}
NameAndToken  == {"connectorName", "refreshToken"}
FirstConfig   == [f \in Fields |-> v1]
DistinctKeys  == [cfg \in [Fields -> Values] |-> [hash |-> cfg]]
OneSecret     == [c \in Connectors |-> IF c = c1 THEN sk ELSE NoSecret]
NoSecrets     == [c \in Connectors |-> NoSecret]
FromFirst     == {FirstConfig}
=============================================================================
