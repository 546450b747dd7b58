---------------------------- MODULE MCLspManager ----------------------------
(* LspManager with two callers, one file and three calls. *)
EXTENDS LspManager
=============================================================================
