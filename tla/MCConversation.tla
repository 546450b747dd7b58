--------------------------- MODULE MCConversation ---------------------------
(* Conversation with two chats and two compactions, in four mixtures. *)
EXTENDS Conversation, TLC

CONSTANTS c1, c2, k1, k2

Made(n1, n2, ks, who) ==
  [turns |-> c1 :> n1 @@ c2 :> n2, stateless |-> {}, compacts |-> ks, leavers |-> who]

\* A stateless chat; a chat whose client may leave, and two compactions; two
\* chats that store at the same time; both and a compaction.
MCPlans ==
  {[Made(2, 0, {}, {c1}) EXCEPT !.stateless = {c1}],
   Made(2, 0, {k1, k2}, {c1}), Made(2, 1, {}, {}), Made(1, 1, {k1}, {})}
=============================================================================
