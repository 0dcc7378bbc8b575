------------------------------ MODULE MCWsHub ------------------------------
(* Two connections on one topic, one of them rude, an admin's publish to    *)
(* the topic and a kill of it.                                              *)
EXTENDS WsHub, TLC

CONSTANTS polite, rude, admin, topic, other

MCTopicOf == polite :> topic @@ rude :> topic
MCAdminTopic == admin :> topic
=============================================================================
