----------------------------- MODULE HookRunner -----------------------------
(***************************************************************************)
(* The hooks of .edoc/settings.json (hook/runner.go) and the places where  *)
(* a prompt asks them: before the run (UserPromptSubmit), before and after *)
(* each tool call and before the answer is final (agent/loop.go).  Each    *)
(* prompt builds a runner of its own from the settings; the goroutine of   *)
(* the loop is the only one that asks it.                                  *)
(*                                                                         *)
(* A hook is reduced to what matching and removal look at; what its        *)
(* command, request or model says is a choice.  The events whose result    *)
(* nobody reads (PermissionDenied, PreCompact, PostCompact) and those that *)
(* nobody raises are left out, as is the text hooks add.                   *)
(***************************************************************************)
EXTENDS Naturals, Sequences, SequencesExt, FiniteSets

CONSTANTS
  Tools,      \* names of tools
  Safe,       \* tools that are concurrency-safe: they run while the answer streams
  Inputs,     \* inputs of a call, as far as hooks tell them apart
  Malformed,  \* inputs that are not JSON: they cannot be marshalled for a hook
  Hooks,      \* the hooks the settings may name
  Settings,   \* the contents settings.json may have
  MaxCalls,   \* bound: tool calls in one answer
  MaxTurns,   \* Config.MaxTurns
  MaxPrompts  \* bound: prompts

Events == {"UserPromptSubmit", "PreToolUse", "PostToolUse", "PostToolUseFailure", "Stop"}

\* once: Once; back: Async or AsyncRewake, nobody waits for the result; cond:
\* the input the pattern of If selects, or "any".
Hook == [id : Nat, once : BOOLEAN, back : BOOLEAN, cond : Inputs \cup {"any"}]

ASSUME ToolsAssumption == Safe \subseteq Tools /\ Malformed \subseteq Inputs /\ "any" \notin Inputs
ASSUME HooksAssumption ==
  /\ Hooks \subseteq Hook
  /\ \A g, h \in Hooks : g.id = h.id => g = h

HookMatcher == [matcher : SUBSET Tools, hooks : Seq(Hooks)]

\* A hook is an entry of the settings, told apart by id: two that read alike are two.
ASSUME SettingsAssumption ==
  \A s \in Settings :
    /\ s \in [Events -> Seq(HookMatcher)]
    /\ \A d, e \in Events : \A i \in 1 .. Len(s[d]), j \in 1 .. Len(s[e]) :
         \A m \in 1 .. Len(s[d][i].hooks), n \in 1 .. Len(s[e][j].hooks) :
           s[d][i].hooks[m] = s[e][j].hooks[n] => d = e /\ i = j /\ m = n

ASSUME BoundsAssumption == MaxCalls \in Nat /\ MaxTurns \in Nat /\ MaxPrompts \in Nat

VARIABLES
  settings,  \* the contents of settings.json
  config,    \* Runner.Config of the prompt that runs
  asked,     \* the event the loop waits for
  pc,        \* where the prompt is
  prompts,   \* prompts so far
  turn,      \* turns of this prompt
  calls,     \* the tool calls of the answer
  at,        \* the call the loop is at
  fired      \* how often each hook with Once was started by this runner

vars == <<settings, config, asked, pc, prompts, turn, calls, at, fired>>

None == "none"
OnceHooksOf == {h \in Hooks : h.once}
NotAsked == [event |-> None, todo |-> {}, once |-> << >>,
             decision |-> "", errors |-> FALSE, updated |-> None]

-----------------------------------------------------------------------------
(* The runner.                                                             *)

\* The group and place of every hook of an event, and their order.
Places(groups) == UNION {{g} \X (1 .. Len(groups[g].hooks)) : g \in 1 .. Len(groups)}
Before(p, q) == p[1] < q[1] \/ (p[1] = q[1] /\ p[2] < q[2])
HookAt(groups, p) == groups[p[1]].hooks[p[2]]

\* checkIfCondition: events without a tool carry no input and the pattern is
\* not looked at; PostToolUse and PostToolUseFailure carry an empty one.
Condition(hook, event, input) ==
  \/ hook.cond = "any"
  \/ event \in {"UserPromptSubmit", "Stop"}
  \/ event = "PreToolUse" /\ hook.cond = input

\* getMatchingHooks: the hooks, each with its place.
getMatchingHooks(groups, event, tool, input) ==
  {[hook |-> HookAt(groups, p), place |-> p] :
     p \in {q \in Places(groups) : /\ tool # None => tool \in groups[q[1]].matcher
                                  /\ Condition(HookAt(groups, q), event, input)}}

\* The loop calls run; an input that cannot be marshalled ends it before any
\* hook starts, with an error that lets the call through.
Ask(cfg, event, tool, input) ==
  [NotAsked EXCEPT !.event = event,
                   !.todo = IF input \in Malformed THEN {}
                            ELSE getMatchingHooks(cfg[event], event, tool, input)]

\* What a hook that is waited for may say: a decision, an error text, a new
\* input.  A block always has a text; a time-out has a text and no decision;
\* a failed command, request or evaluation has neither.
HookResults == {r \in [decision : {"", "approve", "ask", "block"}, error : BOOLEAN,
                       updated : Inputs \cup {None}] : r.decision = "block" => r.error}

\* Mutant of MergedDecision: the first decision stays.
FirstDecision(old, new) == IF old # "" THEN old ELSE IF new = "ask" THEN "" ELSE new

\* Mutant of MergedDecision: the last decision stays, whatever it is.
LastDecision(old, new) == IF new = "" THEN old ELSE new

\* mergeResult: block wins over approve; "ask" is not a decision.
MergedDecision(old, new) ==
  IF new = "block" THEN "block"
  ELSE IF new = "approve" /\ old = "" THEN "approve" ELSE old

\* The hooks are through, or one of them blocked.
Finished == asked.todo = {} \/ asked.decision = "block"

\* The call a PreToolUse event is about learns what its hooks said (for the
\* properties only).
Heard(r) ==
  IF pc = "gate"
  THEN calls' = [calls EXCEPT ![at].refused = @ \/ r.decision = "block",
                              ![at].wanted = IF r.updated = None THEN @ ELSE r.updated]
  ELSE UNCHANGED calls

\* Hooks run in the order of their places.
First(todo) == CHOOSE m \in todo : \A other \in todo \ {m} : Before(m.place, other.place)

\* The next hook of the event: started and forgotten, or waited for.
HookRuns ==
  /\ asked.event # None /\ ~Finished
  /\ LET match == First(asked.todo)
         hook == match.hook
         next == [asked EXCEPT !.todo = @ \ {match},
                               !.once = IF hook.once THEN Append(@, match.place) ELSE @]
     IN /\ fired' = IF hook.once THEN [fired EXCEPT ![hook] = @ + 1] ELSE fired
        /\ IF hook.back
           THEN asked' = next /\ UNCHANGED calls
           ELSE \E r \in HookResults :
                  /\ asked' = [next EXCEPT !.decision = MergedDecision(@, r.decision),
                                           !.errors = @ \/ r.error,
                                           !.updated = IF r.updated = None THEN @ ELSE r.updated]
                  /\ Heard(r)
  /\ UNCHANGED <<settings, config, pc, prompts, turn, at>>

\* One hook goes; a place that is not there any more is skipped.
DropHook(groups, p) ==
  IF p[1] <= Len(groups) /\ p[2] <= Len(groups[p[1]].hooks)
  THEN [groups EXCEPT ![p[1]].hooks = RemoveAt(@, p[2])] ELSE groups

\* Mutant of removeOnceHooks: from the first to the last.
removeOnceForward(groups, places) ==
  LET left[i \in 0 .. Len(places)] ==
        IF i = 0 THEN groups ELSE DropHook(left[i - 1], places[i])
  IN  left[Len(places)]

\* removeOnceHooks: from the last to the first, so that places stay right.
removeOnceHooks(groups, places) ==
  LET left[i \in 0 .. Len(places)] ==
        IF i = Len(places) THEN groups ELSE DropHook(left[i + 1], places[i + 1])
  IN  left[0]

\* The configuration after the event, when run returns to the loop.
Left == IF asked.event = None THEN config
        ELSE [config EXCEPT ![asked.event] = removeOnceHooks(@, asked.once)]

-----------------------------------------------------------------------------
(* The prompt.                                                             *)

NoCall == [tool |-> None, input |-> None, verdict |-> "open", ran |-> None,
           failed |-> FALSE, refused |-> FALSE, wanted |-> None]

Init ==
  /\ settings \in Settings
  /\ config = [e \in Events |-> << >>]
  /\ asked = NotAsked /\ pc = "idle"
  /\ prompts = 0 /\ turn = 0 /\ calls = << >> /\ at = 1
  /\ fired = [h \in OnceHooksOf |-> 0]

\* runREPL and buildAgentConfig: the settings are read again for every prompt.
Submit ==
  /\ pc = "idle" /\ prompts < MaxPrompts
  /\ prompts' = prompts + 1 /\ turn' = 0
  /\ config' = settings
  /\ fired' = [h \in OnceHooksOf |-> 0]
  /\ asked' = Ask(settings, "UserPromptSubmit", None, None)
  /\ pc' = "submit" /\ calls' = << >> /\ at' = 1
  /\ UNCHANGED settings

\* A block keeps the prompt from the agent.
Submitted ==
  /\ pc = "submit" /\ Finished
  /\ config' = Left /\ asked' = NotAsked
  /\ pc' = IF asked.decision = "block" THEN "idle" ELSE "turn"
  /\ UNCHANGED <<settings, prompts, turn, calls, at, fired>>

\* An answer: its safe calls ran while it streamed (consumeStream).
Answer ==
  /\ pc = "turn" /\ turn < MaxTurns
  /\ turn' = turn + 1 /\ at' = 1
  /\ \E n \in 0 .. MaxCalls : \E tool \in [1 .. n -> Tools], input \in [1 .. n -> Inputs] :
       /\ calls' = [i \in 1 .. n |->
                      [NoCall EXCEPT !.tool = tool[i], !.input = input[i], !.wanted = input[i],
                                     !.ran = IF tool[i] \in Safe THEN input[i] ELSE None]]
       /\ IF n = 0
          THEN pc' = "stop" /\ asked' = Ask(config, "Stop", None, None)
          ELSE pc' = "gate" /\ asked' = Ask(config, "PreToolUse", tool[1], input[1])
  /\ UNCHANGED <<settings, config, prompts, fired>>

\* The turn limit, an error of the provider or an interrupt ends the run.
GiveUp ==
  /\ pc = "turn"
  /\ pc' = "idle" /\ calls' = << >> /\ at' = 1
  /\ UNCHANGED <<settings, config, asked, prompts, turn, fired>>

\* The call after its hooks: blocked, or allowed with its new input.
Gated(c) ==
  IF asked.decision = "block" THEN [c EXCEPT !.verdict = "blocked"]
  ELSE [c EXCEPT !.verdict = "allowed", !.input = IF asked.updated = None THEN @ ELSE asked.updated]

\* 11: the PreToolUse hooks of one call have answered; when none is left over,
\* the next turn begins.
Gate ==
  /\ pc = "gate" /\ Finished
  /\ config' = Left
  /\ calls' = [calls EXCEPT ![at] = Gated(@)]
  /\ IF at < Len(calls)
     THEN /\ at' = at + 1
          /\ asked' = Ask(Left, "PreToolUse", calls[at + 1].tool, calls[at + 1].input)
          /\ UNCHANGED pc
     ELSE /\ asked' = NotAsked /\ UNCHANGED at
          /\ pc' = IF \E i \in 1 .. Len(calls) : calls'[i].verdict = "allowed"
                   THEN "exec" ELSE "turn"
  /\ UNCHANGED <<settings, prompts, turn, fired>>

\* The first allowed call from the given place on, or 0.
NextResult(i) ==
  LET left == {j \in i .. Len(calls) : calls[j].verdict = "allowed"}
  IN IF left = {} THEN 0 ELSE CHOOSE j \in left : \A other \in left : j <= other

PostEvent(c) == IF c.failed THEN "PostToolUseFailure" ELSE "PostToolUse"

\* 12: executeToolsWithEarly runs the allowed calls that have not run yet.
Execute ==
  /\ pc = "exec"
  /\ \E failed \in [1 .. Len(calls) -> BOOLEAN] :
       calls' = [i \in 1 .. Len(calls) |->
                   IF calls[i].verdict # "allowed" THEN calls[i]
                   ELSE [calls[i] EXCEPT !.failed = failed[i],
                                         !.ran = IF @ = None THEN calls[i].input ELSE @]]
  /\ at' = NextResult(1)
  /\ asked' = Ask(config, PostEvent(calls'[at']), calls[at'].tool, None)
  /\ pc' = "post"
  /\ UNCHANGED <<settings, config, prompts, turn, fired>>

\* 13: the hooks of one result have answered; what they say is only text.
Posted ==
  /\ pc = "post" /\ Finished
  /\ config' = Left
  /\ LET i == NextResult(at + 1) IN
     IF i # 0
     THEN /\ at' = i /\ UNCHANGED pc
          /\ asked' = Ask(Left, PostEvent(calls[i]), calls[i].tool, None)
     ELSE asked' = NotAsked /\ pc' = "turn" /\ UNCHANGED at
  /\ UNCHANGED <<settings, prompts, turn, calls, fired>>

\* 9: a text of a Stop hook, be it of one that timed out, continues the run.
Stopped ==
  /\ pc = "stop" /\ Finished
  /\ config' = Left /\ asked' = NotAsked
  /\ pc' = IF asked.errors THEN "turn" ELSE "idle"
  /\ UNCHANGED <<settings, prompts, turn, calls, at, fired>>

Over == pc = "idle" /\ prompts = MaxPrompts /\ UNCHANGED vars

Next ==
  \/ HookRuns \/ Submit \/ Submitted \/ Answer \/ GiveUp
  \/ Gate \/ Execute \/ Posted \/ Stopped \/ Over

Spec == Init /\ [][Next]_vars

-----------------------------------------------------------------------------
(* Properties.                                                             *)

\* The runner and the prompt have the shape the code gives them, and a hook is
\* only ever looked up at a place its event has.
TypeOK ==
  /\ settings \in Settings /\ config \in [Events -> Seq(HookMatcher)]
  /\ asked.event \in Events \cup {None}
  /\ asked.decision \in {"", "approve", "block"} /\ asked.errors \in BOOLEAN
  /\ asked.updated \in Inputs \cup {None}
  /\ \A m \in asked.todo : /\ m.place \in Places(config[asked.event])
                           /\ m.hook = HookAt(config[asked.event], m.place)
  /\ pc \in {"idle", "submit", "turn", "gate", "exec", "post", "stop"}
  /\ prompts \in 0 .. MaxPrompts /\ turn \in 0 .. MaxTurns
  /\ Len(calls) <= MaxCalls
  /\ pc \in {"gate", "post"} => at \in 1 .. Len(calls)
  /\ fired \in [OnceHooksOf -> Nat]

Started == {h \in OnceHooksOf : fired[h] > 0}

\* rest has the hooks of list without those that are gone, in their order.
Without(rest, list, gone) ==
  /\ ToSet(rest) = ToSet(list) \ gone
  /\ \A i, j \in 1 .. Len(rest) : i < j =>
       \E k, l \in 1 .. Len(list) : k < l /\ rest[i] = list[k] /\ rest[j] = list[l]

\* hook.go:11 "once (removed after one execution)": a runner starts such a hook
\* at most once, and between events it has exactly the hooks of the settings
\* without those, in their order: the removal by place hits no other hook.
OnceHooks ==
  /\ \A h \in OnceHooksOf : fired[h] <= 1
  /\ prompts > 0 /\ asked.once = << >> =>
       \A e \in Events :
         /\ Len(config[e]) = Len(settings[e])
         /\ \A g \in 1 .. Len(config[e]) :
              /\ config[e][g].matcher = settings[e][g].matcher
              /\ Without(config[e][g].hooks, settings[e][g].hooks, Started)

\* What the loop executes after the gate is what the hooks left: no call one of
\* its PreToolUse hooks blocked, and each with the last input they gave it.
\* Safe calls ran before the gate, with the input of the model.
GateHolds ==
  \A i \in 1 .. Len(calls) :
    calls[i].tool \notin Safe /\ calls[i].ran # None =>
      ~calls[i].refused /\ calls[i].ran = calls[i].wanted
=============================================================================
