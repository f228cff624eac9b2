----------------------------- MODULE MCConnector -----------------------------
(***************************************************************************)
(* Five arrivals in three channels, two of them with one stamp, one without  *)
(* a sender; batches of two, so that a poll can find more than it may fetch,  *)
(* and slack more channels than it may list.                                *)
(***************************************************************************)
EXTENDS Connector

MCServices == {"gmail", "slack", "discord", "telegram", "wa"}
MCStamp == <<1, 2, 2, 3, 4>>
MCPlace == <<"a", "b", "a", "c", "a">>
MCSender == <<"friend", "friend", "friend", "friend", "friend">>
MCNobody == {3}
MCChannels == <<"a", "b", "c">>
=============================================================================
