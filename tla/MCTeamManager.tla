---------------------------- MODULE MCTeamManager ----------------------------
(* Two teams, one name for teammates, inboxes for one message. *)
EXTENDS TeamManager
=============================================================================
