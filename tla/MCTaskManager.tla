---------------------------- MODULE MCTaskManager ----------------------------
(* Two tasks, the second one surviving its kill, and a channel for one. *)
EXTENDS TaskManager

MCTasks == 1 .. 2
MCStubborn == {2}
=============================================================================
