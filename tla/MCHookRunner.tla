---------------------------- MODULE MCHookRunner ----------------------------
(* Hooks with and without Once before and behind each other, in groups for   *)
(* one tool and for all, waited for and in the background.                   *)
EXTENDS HookRunner

H(id, once, back, cond) == [id |-> id, once |-> once, back |-> back, cond |-> cond]

MCHooks == {H(1, TRUE, FALSE, "any"), H(2, FALSE, FALSE, "any"), H(3, TRUE, TRUE, "any"),
            H(4, TRUE, FALSE, "rm"), H(5, TRUE, FALSE, "any"), H(6, TRUE, FALSE, "rm")}
Get(id) == CHOOSE h \in MCHooks : h.id = id
Group(tools, ids) == [matcher |-> tools, hooks |-> [i \in 1 .. Len(ids) |-> Get(ids[i])]]

File(submit, pre, post, failure, stop) ==
  [e \in Events |-> CASE e = "UserPromptSubmit" -> submit [] e = "PreToolUse" -> pre
                      [] e = "PostToolUse" -> post [] e = "PostToolUseFailure" -> failure
                      [] OTHER -> stop]

MCSettings ==
  {File(<< >>, <<Group(Tools, <<1, 2, 3>>), Group({"Bash"}, <<4>>)>>, << >>, << >>, << >>),
   File(<<Group({}, <<1>>)>>, << >>, <<Group(Tools, <<6, 3>>)>>, <<Group(Tools, <<5>>)>>,
        <<Group({}, <<2, 4>>)>>)}
=============================================================================
