----------------------------- MODULE PromptServer -----------------------------
(***************************************************************************)
(* What a remote session promises the clients that share it: accepted      *)
(* prompts are worked on one at a time and in the order in which they were *)
(* accepted, none is lost and none is worked on twice.                     *)
(***************************************************************************)
EXTENDS Naturals, Sequences

CONSTANTS
  Prompt,    \* what a client may send
  Capacity   \* prompts that may wait

VARIABLES
  waiting,   \* accepted prompts nobody works on yet
  serving,   \* the prompts being worked on, at most one
  served     \* the prompts whose turn is over, in order

vars == <<waiting, serving, served>>

Init == waiting = << >> /\ serving = {} /\ served = << >>

Accept(p) ==
  /\ Len(waiting) < Capacity
  /\ waiting' = Append(waiting, p)
  /\ UNCHANGED <<serving, served>>

Begin ==
  /\ waiting # << >> /\ serving = {}
  /\ serving' = {Head(waiting)}
  /\ waiting' = Tail(waiting)
  /\ UNCHANGED served

End ==
  /\ \E p \in serving : served' = Append(served, p)
  /\ serving' = {}
  /\ UNCHANGED waiting

Next == (\E p \in Prompt : Accept(p)) \/ Begin \/ End

Spec == Init /\ [][Next]_vars
=============================================================================
