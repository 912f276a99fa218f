--------------------------- MODULE MCWeixinGateway ---------------------------
(* Small instances of WeixinGateway: one conversation with a /stop in its    *)
(* middle, or two conversations of which the other has the first message.   *)
EXTENDS WeixinGateway

CONSTANTS s1, s2

MCSessions == {s1, s2}
OneConversation == [m \in Messages |-> s1]
NoStops == {}
StopSecond == {2}
FirstElsewhere == [m \in Messages |-> IF m = 1 THEN s2 ELSE s1]
=============================================================================
