---------------------------- MODULE MCMcpManager ----------------------------
(* A server whose tools change from one connection to the next, and one     *)
(* that lists a tool whose full name is that of one of the first's.         *)
EXTENDS McpManager, TLC

MCOffers == [s \in Servers |-> IF s = "web-git" THEN {{"log", "show"}, {"log"}}
                               ELSE {{"show"}}]

CallersAlike == Permutations(Callers)
=============================================================================
