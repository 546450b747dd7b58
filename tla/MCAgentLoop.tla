----------------------------- MODULE MCAgentLoop -----------------------------
(* AgentLoop with a small tool set, two turns and answers of two calls. *)
EXTENDS AgentLoop

MCTools == {"WebFetch", "Write", "EnterPlanMode", "ExitPlanMode"}
MCSafe == {"WebFetch"}
MCReadOnly == {"WebFetch"}
MCNeedsApproval == {"WebFetch", "Write", "ExitPlanMode"}
MCReminding == {"Write"}

Base == [tools |-> {}, mode |-> "default", rules |-> {}, asks |-> TRUE, turns |-> 2,
         backup |-> FALSE, compacts |-> FALSE, hooks |-> FALSE, memory |-> FALSE, mail |-> {}]

\* A run that asks for permission, hooked runs, runs that enter and leave plan
\* mode, a long run without tools that meets every provider error, and a run
\* that compacts its conversation and gets mail.
MCConfigs ==
  { [Base EXCEPT !.tools = {"WebFetch", "Write"}],
    [Base EXCEPT !.tools = {"Write"}, !.mode = "strict", !.hooks = TRUE],
    [Base EXCEPT !.tools = {"EnterPlanMode", "ExitPlanMode", "Write"}, !.mode = "bypass"],
    [Base EXCEPT !.turns = 5, !.backup = TRUE],
    [Base EXCEPT !.compacts = TRUE, !.memory = TRUE, !.mail = {"task", "inbox"}] }

\* A run in strict mode.
MCStrict == {[Base EXCEPT !.tools = {"WebFetch", "Write"}, !.mode = "strict"]}
=============================================================================
