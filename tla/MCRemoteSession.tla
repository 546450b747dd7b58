---------------------------- MODULE MCRemoteSession ----------------------------
(* Two clients that may write; channels for one element. *)
EXTENDS RemoteSession

CONSTANTS c1, c2

MCWriters == {c1, c2}
MCNobody == {}
=============================================================================
