-------------------------------- MODULE MCRepl --------------------------------
(* Repl with two sessions, two models, two prompts, two turns in all and three  *)
(* configurations; sessions and models are alike.                              *)
EXTENDS Repl, TLC

Alike == Permutations(Sessions) \cup Permutations(Models)
===============================================================================
