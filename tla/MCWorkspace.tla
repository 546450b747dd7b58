------------------------------ MODULE MCWorkspace ------------------------------
(* Workspace with two names for worktrees: commits and removals in some       *)
(* behaviours, several snapshots in others, sub-agents in the rest.           *)
EXTENDS Workspace

CONSTANTS v, w, x, y, z

\* The bounds named are commits, snapshots, prompts, agents and calls.
Behaviours(settings, texts, trees, c, s, p, a, k) ==
  {[remote |-> r, ignored |-> i, texts |-> texts, trees |-> trees, commits |-> c, saves |-> s,
    prompts |-> p, agents |-> a, calls |-> k] : <<r, i>> \in settings}
plain == <<FALSE, FALSE>>
MCPlans ==
  Behaviours({plain}, {x, y}, {<<w>>}, 0, 1, 1, 1, 1)
    \cup Behaviours({plain}, {z}, {}, 0, 2, 1, 1, 0)
    \cup Behaviours({<<TRUE, FALSE>>, <<FALSE, TRUE>>}, {z}, {<<w>>}, 2, 0, 1, 1, 1)
    \cup Behaviours({plain, <<FALSE, TRUE>>}, {z}, {<<w>>, <<w, v>>}, 0, 0, 2, 1, 2)
    \cup Behaviours({plain}, {}, {<<v>>, <<w>>, <<w, v>>}, 0, 0, 2, 2, 2)
Symmetry == Permutations({x, y})
===============================================================================
