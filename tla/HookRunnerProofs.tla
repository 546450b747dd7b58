-------------------------- MODULE HookRunnerProofs --------------------------
(***************************************************************************)
(* Theorems about HookRunner, for any tools, inputs, hooks and settings:   *)
(* what the loop executes after the gate is what the hooks left of it, a   *)
(* hook with once is started once, and its removal by place takes out no   *)
(* other hook.                                                             *)
(*                                                                         *)
(* While the hooks of a call are asked, what they said so far is in two    *)
(* places: the result that is merged (asked) and what the call heard.      *)
(* Asking says that the two agree, Judged what is left when they are       *)
(* through.                                                                *)
(*                                                                         *)
(* While an event is asked, the once hooks it has started are still in the *)
(* configuration, at the places it remembers (Pending).  Books says that   *)
(* these places are in order and before those still to be asked, and that  *)
(* the configuration is the settings without the started hooks but for     *)
(* those: so a hook that comes next was not started, and when the event is *)
(* over removeOnceHooks makes up the difference.  That it takes out the    *)
(* right hooks (RemovalSpares) rests on its order, from the last place to  *)
(* the first: what it removes leaves the places before it as they were.    *)
(***************************************************************************)
EXTENDS HookRunner, SequenceTheorems, WellFoundedInduction, TLAPS

Call == [tool : Tools, input : Inputs, verdict : {"open", "blocked", "allowed"},
         ran : Inputs \cup {None}, failed : BOOLEAN, refused : BOOLEAN, wanted : Inputs]

-----------------------------------------------------------------------------
(* The inductive invariant.                                                *)

Calls == calls \in Seq(Call)

\* What an event collects is a record of these fields.
Result(a) == a = [event |-> a.event, todo |-> a.todo, once |-> a.once,
                  decision |-> a.decision, errors |-> a.errors, updated |-> a.updated]

Merged == Result(asked) /\ asked.updated \in Inputs \cup {None}

\* A call whose hooks are through.
Judged(c) == c.verdict = "allowed" => ~c.refused /\ c.input = c.wanted

Unheard(c) == ~c.refused /\ c.input = c.wanted

\* The call whose hooks are asked has heard what was merged.
Asking(a, c) ==
  /\ c.refused => a.decision = "block"
  /\ c.wanted = IF a.updated = None THEN c.input ELSE a.updated

\* Calls that are not safe wait for the gate.
Waiting == \A i \in 1 .. Len(calls) : calls[i].tool \notin Safe => calls[i].ran = None

AtGate ==
  /\ at \in 1 .. Len(calls) /\ Waiting
  /\ \A i \in 1 .. Len(calls) :
       /\ i < at => Judged(calls[i])
       /\ i = at => Asking(asked, calls[i])
       /\ i > at => Unheard(calls[i])

AtExec == Waiting /\ \A i \in 1 .. Len(calls) : Judged(calls[i])

GateInv ==
  /\ Calls /\ Merged /\ GateHolds
  /\ pc = "gate" => AtGate
  /\ pc = "exec" => AtExec

-----------------------------------------------------------------------------
(* Lemmas.                                                                 *)

\* A new question has no answer yet.
Asked(e, hooks) == [event |-> e, todo |-> hooks, once |-> << >>, decision |-> "",
                    errors |-> FALSE, updated |-> None]

LEMMA AskIs ==
  ASSUME NEW cfg, NEW event, NEW tool, NEW input
  PROVE  Ask(cfg, event, tool, input) =
           Asked(event, IF input \in Malformed THEN {}
                        ELSE getMatchingHooks(cfg[event], event, tool, input))
<1> DEFINE todo == IF input \in Malformed THEN {}
                   ELSE getMatchingHooks(cfg[event], event, tool, input)
<1>1. Ask(cfg, event, tool, input) =
        [[[event |-> None, todo |-> {}, once |-> << >>, decision |-> "",
           errors |-> FALSE, updated |-> None] EXCEPT !.event = event] EXCEPT !.todo = todo]
  BY DEF Ask, NotAsked
<1> HIDE DEF todo
<1>2. Ask(cfg, event, tool, input) = Asked(event, todo)
  BY <1>1 DEF Asked
<1> QED
  BY <1>2 DEF todo

LEMMA AskIsNew ==
  \A cfg, event, tool, input :
    LET a == Ask(cfg, event, tool, input)
    IN  Result(a) /\ a.decision = "" /\ a.updated = None
<1> SUFFICES ASSUME NEW cfg, NEW event, NEW tool, NEW input
             PROVE  /\ Result(Ask(cfg, event, tool, input))
                    /\ Ask(cfg, event, tool, input).decision = ""
                    /\ Ask(cfg, event, tool, input).updated = None
  OBVIOUS
<1>1. PICK hooks : Ask(cfg, event, tool, input) = Asked(event, hooks)
  BY AskIs
<1>2. /\ Result(Asked(event, hooks)) /\ Asked(event, hooks).decision = ""
      /\ Asked(event, hooks).updated = None
  BY DEF Asked, Result
<1> QED
  BY <1>1, <1>2

LEMMA NoneIsNew == Result(NotAsked) /\ NotAsked.decision = "" /\ NotAsked.updated = None
  BY DEF NotAsked, Result

\* HookRuns goes on to the next hook.
Moved(a, n, o) == [a EXCEPT !.todo = n, !.once = o]

LEMMA NextResultOf ==
  ASSUME NEW a, Result(a), NEW n, NEW o
  PROVE  Moved(a, n, o) = [event |-> a.event, todo |-> n, once |-> o,
                           decision |-> a.decision, errors |-> a.errors, updated |-> a.updated]
<1>1. PICK c : c = [a EXCEPT !.todo = n]
  OBVIOUS
<1>2. PICK b : b = [c EXCEPT !.once = o]
  OBVIOUS
<1>3. b = Moved(a, n, o)
  BY <1>1, <1>2 DEF Moved
<1>4. c = [event |-> a.event, todo |-> n, once |-> a.once,
           decision |-> a.decision, errors |-> a.errors, updated |-> a.updated]
  BY <1>1 DEF Result
<1>5. b = [event |-> a.event, todo |-> n, once |-> o,
           decision |-> a.decision, errors |-> a.errors, updated |-> a.updated]
  BY <1>2, <1>4
<1> QED
  BY <1>3, <1>5

\* HookRuns merges what a hook said.
Told(a, d, e, u) == [a EXCEPT !.decision = d, !.errors = e, !.updated = u]

LEMMA MergedResultOf ==
  ASSUME NEW a, Result(a), NEW d, NEW e, NEW u
  PROVE  Told(a, d, e, u) = [event |-> a.event, todo |-> a.todo, once |-> a.once,
                             decision |-> d, errors |-> e, updated |-> u]
<1>1. PICK c : c = [a EXCEPT !.decision = d]
  OBVIOUS
<1>2. PICK b : b = [c EXCEPT !.errors = e]
  OBVIOUS
<1>3. PICK r : r = [b EXCEPT !.updated = u]
  OBVIOUS
<1>4. r = Told(a, d, e, u)
  BY <1>1, <1>2, <1>3 DEF Told
<1>5. c = [event |-> a.event, todo |-> a.todo, once |-> a.once,
           decision |-> d, errors |-> a.errors, updated |-> a.updated]
  BY <1>1 DEF Result
<1>6. b = [event |-> a.event, todo |-> a.todo, once |-> a.once,
           decision |-> d, errors |-> e, updated |-> a.updated]
  BY <1>2, <1>5
<1>7. r = [event |-> a.event, todo |-> a.todo, once |-> a.once,
           decision |-> d, errors |-> e, updated |-> u]
  BY <1>3, <1>6
<1> QED
  BY <1>4, <1>7

\* Once a hook has blocked, the decision stays.
LEMMA BlockWins ==
  ASSUME NEW old, NEW new
  PROVE  /\ new = "block" => MergedDecision(old, new) = "block"
         /\ old = "block" => MergedDecision(old, new) = "block"
  BY DEF MergedDecision

LEMMA GateInit == Init => GateInv
<1> SUFFICES ASSUME Init PROVE GateInv
  OBVIOUS
<1>1. calls = << >> /\ Len(calls) = 0 /\ calls \in Seq(Call)
  BY DEF Init
<1>2. Calls /\ GateHolds
  BY <1>1 DEF Calls, GateHolds
<1>3. asked = NotAsked /\ pc = "idle"
  BY DEF Init
<1>4. Merged
  BY <1>3, NoneIsNew DEF Merged
<1> QED
  BY <1>2, <1>3, <1>4 DEF GateInv

LEMMA RunsKeeps ==
  ASSUME GateInv, HookRuns
  PROVE  GateInv'
<1> DEFINE match == First(asked.todo)
           hook == match.hook
           once == IF hook.once THEN Append(asked.once, match.place) ELSE asked.once
           next == Moved(asked, asked.todo \ {match}, once)
<1>1. Result(next) /\ next.decision = asked.decision /\ next.updated = asked.updated
  <2> HIDE DEF once
  <2>1. Result(asked)
    BY DEF GateInv, Merged
  <2> QED
    BY <2>1, NextResultOf DEF Result
<1>2. pc' = pc /\ at' = at
  BY DEF HookRuns
<1>3. CASE asked' = next /\ UNCHANGED calls
  <2> HIDE DEF next
  <2>1. Merged'
    BY <1>1, <1>3 DEF GateInv, Merged
  <2>2. AtGate => AtGate'
    BY <1>1, <1>2, <1>3 DEF AtGate, Waiting, Judged, Asking, Unheard
  <2>3. AtExec => AtExec'
    BY <1>3 DEF AtExec, Waiting, Judged
  <2> QED
    BY <2>1, <2>2, <2>3, <1>2, <1>3 DEF GateInv, Calls, GateHolds
<1>4. ASSUME NEW r \in HookResults,
             asked' = Told(next, MergedDecision(next.decision, r.decision),
                           next.errors \/ r.error,
                           IF r.updated = None THEN next.updated ELSE r.updated),
             Heard(r)
      PROVE  GateInv'
  <2> HIDE DEF next
  <2>1. r.updated \in Inputs \cup {None}
    BY DEF HookResults
  <2>2. /\ asked'.decision = MergedDecision(asked.decision, r.decision)
        /\ asked'.updated = IF r.updated = None THEN asked.updated ELSE r.updated
        /\ Merged'
    <3> DEFINE d == MergedDecision(asked.decision, r.decision)
               e == next.errors \/ r.error
               u == IF r.updated = None THEN asked.updated ELSE r.updated
    <3>1. asked' = Told(next, d, e, u)
      BY <1>1, <1>4
    <3>2. u \in Inputs \cup {None}
      BY <2>1 DEF GateInv, Merged
    <3> HIDE DEF d, e, u
    <3>3. Result(asked') /\ asked'.decision = d /\ asked'.updated = u
      BY <1>1, <3>1, MergedResultOf DEF Result
    <3>4. Merged'
      BY <3>2, <3>3 DEF Merged, Result
    <3> QED
      BY <3>3, <3>4 DEF d, u
  <2>3. CASE pc # "gate"
    <3>1. UNCHANGED calls
      BY <1>4, <2>3 DEF Heard
    <3> QED
      BY <1>2, <2>2, <2>3, <3>1 DEF GateInv, Calls, GateHolds, AtExec, Waiting, Judged
  <2>4. CASE pc = "gate"
    <3>1. AtGate /\ calls \in Seq(Call) /\ at \in 1 .. Len(calls)
      BY <2>4 DEF GateInv, AtGate, Calls
    <3> DEFINE c == [calls[at] EXCEPT !.refused = @ \/ r.decision = "block",
                                      !.wanted = IF r.updated = None THEN @ ELSE r.updated]
    <3>2. calls' = [calls EXCEPT ![at] = c]
      BY <1>4, <2>4, <3>1 DEF Heard
    <3>3. calls[at] \in Call
      BY <3>1
    <3>4. /\ c.wanted = IF r.updated = None THEN calls[at].wanted ELSE r.updated
          /\ c.tool = calls[at].tool /\ c.ran = calls[at].ran /\ c.input = calls[at].input
      BY <3>3 DEF Call
    <3>5. c.refused => calls[at].refused \/ r.decision = "block"
      BY <3>3 DEF Call
    <3>6. c \in Call
      <4>1. (calls[at].refused \/ r.decision = "block") \in BOOLEAN
        OBVIOUS
      <4>2. (IF r.updated = None THEN calls[at].wanted ELSE r.updated) \in Inputs
        BY <2>1, <3>3 DEF Call
      <4> QED
        BY <3>3, <4>1, <4>2 DEF Call
    <3> HIDE DEF c
    <3>7. calls' \in Seq(Call) /\ Len(calls') = Len(calls)
          /\ \A i \in 1 .. Len(calls) : calls'[i] = IF i = at THEN c ELSE calls[i]
      BY <3>1, <3>2, <3>6
    <3>8. Asking(asked', c)
      <4>1. Asking(asked, calls[at])
        BY <3>1 DEF AtGate
      <4>2. c.refused => asked'.decision = "block"
        BY <4>1, <3>5, <2>2, BlockWins DEF Asking
      <4>3. c.wanted = IF asked'.updated = None THEN c.input ELSE asked'.updated
        BY <4>1, <3>4, <2>2 DEF Asking
      <4> QED
        BY <4>2, <4>3 DEF Asking
    <3>9. AtGate'
      <4>1. Waiting'
        BY <3>1, <3>4, <3>7 DEF AtGate, Waiting
      <4>2. \A i \in 1 .. Len(calls) : i # at => calls'[i] = calls[i]
        BY <3>7
      <4>3. calls'[at] = c
        BY <3>1, <3>7
      <4> QED
        BY <4>1, <4>2, <4>3, <3>1, <3>7, <3>8, <1>2 DEF AtGate
    <3>10. GateHolds'
      BY <3>9 DEF AtGate, Waiting, GateHolds
    <3> QED
      BY <3>7, <3>9, <3>10, <2>2, <2>4, <1>2 DEF GateInv, Calls
  <2> QED
    BY <2>3, <2>4
<1> QED
  BY <1>3, <1>4 DEF HookRuns, Moved, Told

-----------------------------------------------------------------------------
(* The other actions.                                                      *)

\* Outside the gate nothing but the calls matters.
LEMMA Elsewhere ==
  ASSUME GateInv, Merged', pc' \notin {"gate", "exec"}, calls' = calls \/ calls' = << >>
  PROVE  GateInv'
<1>1. CASE calls' = calls
  BY <1>1 DEF GateInv, Calls, GateHolds
<1>2. CASE calls' = << >>
  <2>1. calls' \in Seq(Call) /\ Len(calls') = 0
    BY <1>2
  <2> QED
    BY <2>1 DEF GateInv, Calls, GateHolds
<1> QED
  BY <1>1, <1>2

LEMMA SubmitKeeps == ASSUME GateInv, Submit PROVE GateInv'
<1>1. asked' = Ask(settings, "UserPromptSubmit", None, None)
  BY DEF Submit
<1>2. Merged'
  BY <1>1, AskIsNew DEF Merged
<1> QED
  BY <1>2, Elsewhere DEF Submit

LEMMA SubmittedKeeps == ASSUME GateInv, Submitted PROVE GateInv'
<1>1. Merged'
  BY NoneIsNew DEF Submitted, Merged
<1> QED
  BY <1>1, Elsewhere DEF Submitted

LEMMA GiveUpKeeps == ASSUME GateInv, GiveUp PROVE GateInv'
<1>1. Merged'
  BY DEF GiveUp, GateInv, Merged
<1> QED
  BY <1>1, Elsewhere DEF GiveUp

LEMMA StoppedKeeps == ASSUME GateInv, Stopped PROVE GateInv'
<1>1. Merged'
  BY NoneIsNew DEF Stopped, Merged
<1> QED
  BY <1>1, Elsewhere DEF Stopped

LEMMA PostedKeeps == ASSUME GateInv, Posted PROVE GateInv'
<1> DEFINE i == NextResult(at + 1)
<1>1. CASE i # 0
  <2>1. asked' = Ask(Left, PostEvent(calls[i]), calls[i].tool, None) /\ pc' = "post"
    BY <1>1 DEF Posted
  <2>2. Merged'
    BY <2>1, AskIsNew DEF Merged
  <2> QED
    BY <2>1, <2>2, Elsewhere DEF Posted
<1>2. CASE i = 0
  <2>1. Merged'
    BY <1>2, NoneIsNew DEF Posted, Merged
  <2> QED
    BY <1>2, <2>1, Elsewhere DEF Posted
<1> QED
  BY <1>1, <1>2

\* A call as the model made it.
Made(t, x) == [NoCall EXCEPT !.tool = t, !.input = x, !.wanted = x,
                             !.ran = IF t \in Safe THEN x ELSE None]

LEMMA NewCall ==
  ASSUME NEW t \in Tools, NEW x \in Inputs
  PROVE  /\ Made(t, x) \in Call /\ Unheard(Made(t, x))
         /\ Made(t, x).tool \notin Safe => Made(t, x).ran = None
<1> DEFINE r == IF t \in Safe THEN x ELSE None
<1>1. r \in Inputs \cup {None} /\ (t \notin Safe => r = None)
  OBVIOUS
<1>2. Made(t, x) = [tool |-> t, input |-> x, verdict |-> "open", ran |-> r,
                    failed |-> FALSE, refused |-> FALSE, wanted |-> x]
  <2>1. PICK a : a = [NoCall EXCEPT !.tool = t]
    OBVIOUS
  <2>2. PICK b : b = [a EXCEPT !.input = x]
    OBVIOUS
  <2>3. PICK c : c = [b EXCEPT !.wanted = x]
    OBVIOUS
  <2>4. PICK d : d = [c EXCEPT !.ran = r]
    OBVIOUS
  <2>5. Made(t, x) = d
    BY <2>1, <2>2, <2>3, <2>4 DEF Made
  <2>6. a = [tool |-> t, input |-> None, verdict |-> "open", ran |-> None,
             failed |-> FALSE, refused |-> FALSE, wanted |-> None]
    BY <2>1 DEF NoCall
  <2>7. b = [tool |-> t, input |-> x, verdict |-> "open", ran |-> None,
             failed |-> FALSE, refused |-> FALSE, wanted |-> None]
    BY <2>2, <2>6
  <2>8. c = [tool |-> t, input |-> x, verdict |-> "open", ran |-> None,
             failed |-> FALSE, refused |-> FALSE, wanted |-> x]
    BY <2>3, <2>7
  <2> HIDE DEF r
  <2> QED
    BY <2>4, <2>5, <2>8
<1> HIDE DEF r
<1> QED
  BY <1>1, <1>2 DEF Call, Unheard

LEMMA AnswerKeeps == ASSUME GateInv, Answer PROVE GateInv'
<1>1. PICK n \in 0 .. MaxCalls : \E tool \in [1 .. n -> Tools], input \in [1 .. n -> Inputs] :
        /\ calls' = [i \in 1 .. n |->
                       [NoCall EXCEPT !.tool = tool[i], !.input = input[i], !.wanted = input[i],
                                      !.ran = IF tool[i] \in Safe THEN input[i] ELSE None]]
        /\ IF n = 0
           THEN pc' = "stop" /\ asked' = Ask(config, "Stop", None, None)
           ELSE pc' = "gate" /\ asked' = Ask(config, "PreToolUse", tool[1], input[1])
  BY DEF Answer
<1>2. PICK tool \in [1 .. n -> Tools], input \in [1 .. n -> Inputs] :
        /\ calls' = [i \in 1 .. n |->
                       [NoCall EXCEPT !.tool = tool[i], !.input = input[i], !.wanted = input[i],
                                      !.ran = IF tool[i] \in Safe THEN input[i] ELSE None]]
        /\ IF n = 0
           THEN pc' = "stop" /\ asked' = Ask(config, "Stop", None, None)
           ELSE pc' = "gate" /\ asked' = Ask(config, "PreToolUse", tool[1], input[1])
  BY <1>1
<1>3. \A i \in 1 .. n : /\ calls'[i] \in Call /\ Unheard(calls'[i])
                        /\ calls'[i].tool \notin Safe => calls'[i].ran = None
  <2> SUFFICES ASSUME NEW i \in 1 .. n
               PROVE  /\ calls'[i] \in Call /\ Unheard(calls'[i])
                      /\ calls'[i].tool \notin Safe => calls'[i].ran = None
    OBVIOUS
  <2>1. tool[i] \in Tools /\ input[i] \in Inputs
    OBVIOUS
  <2>2. calls'[i] = Made(tool[i], input[i])
    BY <1>2 DEF Made
  <2> QED
    BY <2>1, <2>2, NewCall
<1>4. n \in Nat /\ calls' \in Seq(Call) /\ Len(calls') = n
  <2>1. n \in Nat
    BY BoundsAssumption
  <2> DEFINE f == [i \in 1 .. n |-> calls'[i]]
  <2>2. calls' = f
    BY <1>2
  <2>3. f \in Seq(Call) /\ Len(f) = n
    BY <1>3, <2>1
  <2> QED
    BY <2>1, <2>2, <2>3
<1>5. Merged' /\ asked'.updated = None
  <2>1. \E e, t, x : asked' = Ask(config, e, t, x)
    BY <1>2
  <2> QED
    BY <2>1, AskIsNew DEF Merged
<1>6. Waiting' /\ GateHolds'
  BY <1>3, <1>4 DEF Waiting, GateHolds
<1>7. pc' = "gate" => AtGate'
  <2> SUFFICES ASSUME pc' = "gate" PROVE AtGate'
    OBVIOUS
  <2>1. n # 0 /\ at' = 1
    BY <1>2 DEF Answer
  <2>2. Unheard(calls'[1])
    BY <1>3, <1>4, <2>1
  <2>3. Asking(asked', calls'[1])
    BY <1>5, <2>2 DEF Asking, Unheard
  <2> QED
    BY <1>3, <1>4, <1>6, <2>1, <2>3 DEF AtGate
<1>8. pc' # "exec"
  BY <1>2
<1> QED
  BY <1>4, <1>5, <1>6, <1>7, <1>8 DEF GateInv, Calls

\* The hooks of one call are through.
LEMMA GatedIsJudged ==
  ASSUME NEW c \in Call, Merged, Asking(asked, c)
  PROVE  /\ Gated(c) \in Call /\ Judged(Gated(c))
         /\ Gated(c).tool = c.tool /\ Gated(c).ran = c.ran
<1>1. CASE asked.decision = "block"
  <2>1. Gated(c) = [c EXCEPT !.verdict = "blocked"]
    BY <1>1 DEF Gated
  <2> QED
    BY <2>1 DEF Call, Judged
<1>2. CASE asked.decision # "block"
  <2> DEFINE x == IF asked.updated = None THEN c.input ELSE asked.updated
  <2>1. x = c.wanted /\ ~c.refused /\ x \in Inputs
    BY <1>2 DEF Asking, Merged, Call
  <2>2. Gated(c) = [c EXCEPT !.verdict = "allowed", !.input = x]
    BY <1>2 DEF Gated, Call
  <2> HIDE DEF x
  <2> QED
    BY <2>1, <2>2 DEF Call, Judged
<1> QED
  BY <1>1, <1>2

LEMMA GateKeeps == ASSUME GateInv, Gate PROVE GateInv'
<1> DEFINE c == Gated(calls[at])
<1>1. AtGate /\ calls \in Seq(Call) /\ at \in 1 .. Len(calls) /\ Merged
  BY DEF Gate, GateInv, AtGate, Calls
<1>2. calls[at] \in Call /\ Asking(asked, calls[at])
  BY <1>1 DEF AtGate
<1>3. /\ c \in Call /\ Judged(c)
      /\ c.tool = calls[at].tool /\ c.ran = calls[at].ran
  BY <1>1, <1>2, GatedIsJudged
<1>4. calls' = [calls EXCEPT ![at] = c]
  BY DEF Gate
<1> HIDE DEF c
<1>5. calls' \in Seq(Call) /\ Len(calls') = Len(calls)
      /\ \A i \in 1 .. Len(calls) : calls'[i] = IF i = at THEN c ELSE calls[i]
  BY <1>1, <1>3, <1>4
<1>6. Waiting' /\ GateHolds'
  BY <1>1, <1>3, <1>5 DEF AtGate, Waiting, GateHolds
<1>7. Merged'
  <2>1. CASE at < Len(calls)
    <3>1. asked' = Ask(Left, "PreToolUse", calls[at + 1].tool, calls[at + 1].input)
      BY <2>1 DEF Gate
    <3> QED
      BY <3>1, AskIsNew DEF Merged
  <2>2. CASE ~(at < Len(calls))
    BY <2>2, NoneIsNew DEF Gate, Merged
  <2> QED
    BY <2>1, <2>2
<1>8. CASE at < Len(calls)
  <2>1. /\ at' = at + 1 /\ pc' = "gate"
        /\ asked' = Ask(Left, "PreToolUse", calls[at + 1].tool, calls[at + 1].input)
    BY <1>8 DEF Gate
  <2>2. asked'.updated = None
    BY <2>1, AskIsNew
  <2>3. at + 1 \in 1 .. Len(calls) /\ Unheard(calls[at + 1]) /\ calls'[at + 1] = calls[at + 1]
    BY <1>1, <1>5, <1>8 DEF AtGate
  <2>4. Asking(asked', calls'[at + 1])
    BY <2>2, <2>3 DEF Asking, Unheard
  <2>5. \A i \in 1 .. Len(calls) : /\ i < at + 1 => Judged(calls'[i])
                                   /\ i > at + 1 => Unheard(calls'[i])
    BY <1>1, <1>3, <1>5 DEF AtGate
  <2>6. AtGate'
    BY <1>5, <1>6, <2>1, <2>3, <2>4, <2>5 DEF AtGate
  <2> QED
    BY <1>5, <1>6, <1>7, <2>1, <2>6 DEF GateInv, Calls
<1>9. CASE ~(at < Len(calls))
  <2>1. pc' # "gate" /\ at = Len(calls)
    BY <1>1, <1>9 DEF Gate
  <2>2. \A i \in 1 .. Len(calls) : Judged(calls'[i])
    BY <1>1, <1>3, <1>5, <2>1 DEF AtGate
  <2>3. AtExec'
    BY <1>5, <1>6, <2>2 DEF AtExec
  <2> QED
    BY <1>5, <1>6, <1>7, <2>1, <2>3 DEF GateInv, Calls
<1> QED
  BY <1>8, <1>9

\* A call that is allowed and runs now, or is told that it failed.
LEMMA RanIsWanted ==
  ASSUME NEW c \in Call, Judged(c), c.tool \notin Safe => c.ran = None, NEW fails \in BOOLEAN,
         NEW d,
         d = IF c.verdict # "allowed" THEN c
             ELSE [c EXCEPT !.failed = fails, !.ran = IF @ = None THEN c.input ELSE @]
  PROVE  /\ d \in Call
         /\ d.tool \notin Safe /\ d.ran # None => ~d.refused /\ d.ran = d.wanted
<1>1. CASE c.verdict # "allowed"
  BY <1>1
<1>2. CASE c.verdict = "allowed"
  <2> DEFINE x == IF c.ran = None THEN c.input ELSE c.ran
  <2>1. x \in Inputs \cup {None} /\ ~c.refused /\ c.input = c.wanted
    BY <1>2 DEF Call, Judged
  <2>2. d = [c EXCEPT !.failed = fails, !.ran = x]
    BY <1>2 DEF Call
  <2>3. c.tool \notin Safe => x = c.wanted
    BY <2>1
  <2> HIDE DEF x
  <2> QED
    BY <2>1, <2>2, <2>3 DEF Call
<1> QED
  BY <1>1, <1>2

LEMMA ExecuteKeeps == ASSUME GateInv, Execute PROVE GateInv'
<1>1. AtExec /\ calls \in Seq(Call) /\ Len(calls) \in Nat
  <2>1. pc = "exec"
    BY DEF Execute
  <2>2. calls \in Seq(Call)
    BY DEF GateInv, Calls
  <2> QED
    BY <2>1, <2>2 DEF GateInv
<1>2. PICK failed \in [1 .. Len(calls) -> BOOLEAN] :
        calls' = [i \in 1 .. Len(calls) |->
                    IF calls[i].verdict # "allowed" THEN calls[i]
                    ELSE [calls[i] EXCEPT !.failed = failed[i],
                                          !.ran = IF @ = None THEN calls[i].input ELSE @]]
  BY DEF Execute
<1>3. \A i \in 1 .. Len(calls) :
        /\ calls'[i] \in Call
        /\ calls'[i].tool \notin Safe /\ calls'[i].ran # None =>
             ~calls'[i].refused /\ calls'[i].ran = calls'[i].wanted
  <2> SUFFICES ASSUME NEW i \in 1 .. Len(calls)
               PROVE  /\ calls'[i] \in Call
                      /\ calls'[i].tool \notin Safe /\ calls'[i].ran # None =>
                           ~calls'[i].refused /\ calls'[i].ran = calls'[i].wanted
    OBVIOUS
  <2>1. calls[i] \in Call /\ failed[i] \in BOOLEAN
    BY <1>1
  <2>2. Judged(calls[i]) /\ (calls[i].tool \notin Safe => calls[i].ran = None)
    BY <1>1 DEF AtExec, Waiting
  <2>3. calls'[i] = IF calls[i].verdict # "allowed" THEN calls[i]
                    ELSE [calls[i] EXCEPT !.failed = failed[i],
                                          !.ran = IF @ = None THEN calls[i].input ELSE @]
    BY <1>2
  <2>4. PICK c \in Call, fails \in BOOLEAN : c = calls[i] /\ fails = failed[i]
    BY <2>1
  <2>5. Judged(c) /\ (c.tool \notin Safe => c.ran = None)
    BY <2>2, <2>4
  <2>6. calls'[i] = IF c.verdict # "allowed" THEN c
                    ELSE [c EXCEPT !.failed = fails, !.ran = IF @ = None THEN c.input ELSE @]
    BY <2>3, <2>4
  <2> QED
    BY <2>5, <2>6, RanIsWanted
<1>4. calls' \in Seq(Call) /\ Len(calls') = Len(calls)
  <2> DEFINE f == [i \in 1 .. Len(calls) |-> calls'[i]]
  <2>1. calls' = f
    BY <1>2
  <2>2. f \in Seq(Call) /\ Len(f) = Len(calls)
    BY <1>1, <1>3
  <2> QED
    BY <2>1, <2>2
<1>5. GateHolds'
  BY <1>3, <1>4 DEF GateHolds
<1>6. Merged' /\ pc' = "post"
  <2>1. asked' = Ask(config, PostEvent(calls'[at']), calls[at'].tool, None) /\ pc' = "post"
    BY DEF Execute
  <2> QED
    BY <2>1, AskIsNew DEF Merged
<1> QED
  BY <1>4, <1>5, <1>6 DEF GateInv, Calls

LEMMA StandingKeeps == ASSUME GateInv, UNCHANGED vars PROVE GateInv'
  BY DEF vars, GateInv, Calls, Merged, Result, GateHolds, AtGate, AtExec, Waiting, Asking,
         Judged, Unheard

LEMMA GateStep == GateInv /\ [Next]_vars => GateInv'
<1> SUFFICES ASSUME GateInv, [Next]_vars PROVE GateInv'
  OBVIOUS
<1>1. CASE HookRuns
  BY <1>1, RunsKeeps
<1>2. CASE Submit \/ Submitted \/ GiveUp \/ Stopped
  BY <1>2, SubmitKeeps, SubmittedKeeps, GiveUpKeeps, StoppedKeeps
<1>3. CASE Answer \/ Posted
  BY <1>3, AnswerKeeps, PostedKeeps
<1>4. CASE Gate \/ Execute
  BY <1>4, GateKeeps, ExecuteKeeps
<1>5. CASE Over \/ UNCHANGED vars
  BY <1>5, StandingKeeps DEF Over
<1> QED
  BY <1>1, <1>2, <1>3, <1>4, <1>5 DEF Next

\* Whatever hooks say and in whatever order, and whichever of them run in the
\* background, a call that is executed after the gate of loop.go was blocked by
\* none of its PreToolUse hooks and has the last input they gave it.
THEOREM GateIsKept == Spec => []GateHolds
<1>1. GateInv => GateHolds
  BY DEF GateInv
<1> QED
  BY <1>1, GateInit, GateStep, PTL DEF Spec

-----------------------------------------------------------------------------
(* Least elements, and lists with some of their elements left out.         *)

LEMMA LeastIsThere ==
  ASSUME NEW S \in SUBSET Nat, S # {}
  PROVE  \E b \in S : \A c \in S : b <= c
<1>1. PICK b \in S : \A c \in S : ~(<<c, b>> \in OpToRel(<, Nat))
  BY NatLessThanWellFounded, WFMin
<1>2. \A c \in S : ~(c < b)
  BY <1>1 DEF OpToRel
<1> QED
  BY <1>2

\* The first place of a match is there.
LEMMA FirstIsThere ==
  ASSUME NEW todo, todo # {}, \A m \in todo : m.place \in Nat \X Nat,
         \A m, o \in todo : m.place = o.place => m = o
  PROVE  First(todo) \in todo /\ \A o \in todo \ {First(todo)} : Before(First(todo).place, o.place)
<1>1. \A m \in todo : m.place[1] \in Nat /\ m.place[2] \in Nat
  OBVIOUS
<1> DEFINE Gs == {m.place[1] : m \in todo}
<1>2. PICK g \in Gs : \A h \in Gs : g <= h
  <2>1. Gs \in SUBSET Nat /\ Gs # {}
    BY <1>1
  <2> QED
    BY <2>1, LeastIsThere
<1> DEFINE Hs == {m.place[2] : m \in {x \in todo : x.place[1] = g}}
<1>3. PICK h \in Hs : \A k \in Hs : h <= k
  <2>1. Hs \in SUBSET Nat /\ Hs # {}
    BY <1>1
  <2> QED
    BY <2>1, LeastIsThere
<1>4. PICK m \in todo : m.place[1] = g /\ m.place[2] = h
  OBVIOUS
<1>5. \A o \in todo \ {m} : Before(m.place, o.place)
  <2> SUFFICES ASSUME NEW o \in todo \ {m} PROVE Before(m.place, o.place)
    OBVIOUS
  <2>1. m.place[1] <= o.place[1] /\ m.place # o.place
    BY <1>2, <1>4
  <2>2. o.place[1] = g => h <= o.place[2]
    BY <1>3
  <2>3. o.place[1] = g => h # o.place[2]
    BY <1>4, <2>1
  <2> QED
    BY <1>1, <1>4, <2>1, <2>2, <2>3 DEF Before
<1> QED
  BY <1>5 DEF First

LEMMA RemoveAtIs ==
  ASSUME NEW S, NEW s \in Seq(S), NEW k \in 1 .. Len(s)
  PROVE  /\ RemoveAt(s, k) \in Seq(S) /\ Len(RemoveAt(s, k)) = Len(s) - 1
         /\ \A i \in 1 .. Len(s) - 1 : RemoveAt(s, k)[i] = IF i < k THEN s[i] ELSE s[i + 1]
<1> DEFINE a == SubSeq(s, 1, k - 1)
           b == SubSeq(s, k + 1, Len(s))
<1>0. Len(s) \in Nat /\ k \in Int /\ k >= 1 /\ k <= Len(s)
  OBVIOUS
<1>1. a \in Seq(S) /\ Len(a) = k - 1 /\ \A i \in 1 .. k - 1 : a[i] = s[i]
  <2>1. \A i \in 1 .. k - 1 : s[i] \in S
    BY <1>0
  <2> QED
    BY <1>0, <2>1, SubSeqProperties
<1>2. b \in Seq(S) /\ Len(b) = Len(s) - k /\ \A i \in 1 .. Len(s) - k : b[i] = s[k + i]
  <2>1. \A i \in k + 1 .. Len(s) : s[i] \in S
    BY <1>0
  <2>2. \A i \in 1 .. Len(s) - (k + 1) + 1 : b[i] = s[(k + 1) + i - 1]
    BY <1>0, <2>1, SubSeqProperties
  <2>3. b \in Seq(S) /\ Len(b) = IF k + 1 <= Len(s) THEN Len(s) - (k + 1) + 1 ELSE 0
    BY <1>0, <2>1, SubSeqProperties
  <2> QED
    BY <1>0, <2>2, <2>3
<1>3. RemoveAt(s, k) = a \o b
  BY DEF RemoveAt
<1> HIDE DEF a, b
<1> DEFINE t == a \o b
<1>4. /\ t \in Seq(S) /\ Len(t) = Len(a) + Len(b)
      /\ \A i \in 1 .. Len(a) + Len(b) : t[i] = IF i <= Len(a) THEN a[i] ELSE b[i - Len(a)]
  BY <1>1, <1>2, ConcatProperties
<1> HIDE DEF t
<1>5. Len(t) = Len(s) - 1
  BY <1>0, <1>1, <1>2, <1>4
<1>6. ASSUME NEW i \in 1 .. Len(s) - 1 PROVE t[i] = IF i < k THEN s[i] ELSE s[i + 1]
  <2>1. i \in 1 .. Len(a) + Len(b) /\ i \in Int
    BY <1>0, <1>1, <1>2
  <2>2. CASE i < k
    <3>1. i <= Len(a) /\ i \in 1 .. k - 1
      BY <1>0, <1>1, <2>1, <2>2
    <3> QED
      BY <1>1, <1>4, <2>1, <2>2, <3>1
  <2>3. CASE ~(i < k)
    <3>1. ~(i <= Len(a)) /\ i - Len(a) \in 1 .. Len(s) - k /\ k + (i - Len(a)) = i + 1
      BY <1>0, <1>1, <2>1, <2>3
    <3>2. t[i] = b[i - Len(a)] /\ b[i - Len(a)] = s[k + (i - Len(a))]
      BY <1>2, <1>4, <2>1, <3>1
    <3> QED
      BY <2>3, <3>1, <3>2
  <2> QED
    BY <2>2, <2>3
<1>7. RemoveAt(s, k) = t
  BY <1>3 DEF t
<1> QED
  BY <1>4, <1>5, <1>6, <1>7

Distinct(t) == \A i, j \in 1 .. Len(t) : t[i] = t[j] => i = j

LEMMA InList == ASSUME NEW S, NEW t \in Seq(S)
                PROVE  \A x : x \in ToSet(t) <=> \E i \in 1 .. Len(t) : t[i] = x
  BY DEF ToSet

LEMMA WithoutNothing == ASSUME NEW S, NEW t \in Seq(S) PROVE Without(t, t, {})
  BY DEF Without

LEMMA WithoutDistinct ==
  ASSUME NEW S, NEW s \in Seq(S), NEW t \in Seq(S), NEW D, Distinct(t), Without(s, t, D)
  PROVE  Distinct(s)
<1> SUFFICES ASSUME NEW i \in 1 .. Len(s), NEW j \in 1 .. Len(s), i < j, s[i] = s[j] PROVE FALSE
  BY DEF Distinct
<1>1. PICK k, l \in 1 .. Len(t) : k < l /\ s[i] = t[k] /\ s[j] = t[l]
  BY DEF Without
<1>2. t[k] = t[l]
  BY <1>1
<1>3. k = l
  BY <1>2, Zenon DEF Distinct
<1>4. k \in Int
  OBVIOUS
<1> QED
  BY <1>1, <1>3, <1>4

LEMMA WithoutOne ==
  ASSUME NEW S, NEW s \in Seq(S), NEW k \in 1 .. Len(s), Distinct(s)
  PROVE  Without(RemoveAt(s, k), s, {s[k]})
<1> DEFINE r == RemoveAt(s, k)
<1>0. Len(s) \in Nat
  OBVIOUS
<1>1. /\ r \in Seq(S) /\ Len(r) = Len(s) - 1 /\ Len(s) \in Nat
      /\ \A i \in 1 .. Len(s) - 1 : r[i] = IF i < k THEN s[i] ELSE s[i + 1]
  BY <1>0, RemoveAtIs, Zenon
<1> HIDE DEF r
<1>2. \A x : x \in ToSet(r) <=> x \in ToSet(s) \ {s[k]}
  <2> SUFFICES ASSUME NEW x PROVE x \in ToSet(r) <=> x \in ToSet(s) \ {s[k]}
    OBVIOUS
  <2>1. ASSUME NEW i \in 1 .. Len(r), r[i] = x PROVE x \in ToSet(s) \ {s[k]}
    <3>1. PICK j \in 1 .. Len(s) : j # k /\ s[j] = x
      BY <1>1, <2>1
    <3> QED
      BY <3>1, InList DEF Distinct
  <2>2. ASSUME NEW j \in 1 .. Len(s), s[j] = x, j # k PROVE x \in ToSet(r)
    <3>1. PICK i \in 1 .. Len(r) : r[i] = x
      <4>1. CASE j < k
        BY <1>1, <2>2, <4>1
      <4>2. CASE j > k
        <5>1. j - 1 \in 1 .. Len(r) /\ r[j - 1] = s[j]
          BY <1>1, <4>2
        <5> QED
          BY <2>2, <5>1
      <4> QED
        BY <2>2, <4>1, <4>2
    <3> QED
      BY <1>1, <3>1, InList
  <2> QED
    BY <1>1, <2>1, <2>2, InList
<1>3. \A i, j \in 1 .. Len(r) : i < j =>
        \E m, l \in 1 .. Len(s) : m < l /\ r[i] = s[m] /\ r[j] = s[l]
  <2> SUFFICES ASSUME NEW i \in 1 .. Len(r), NEW j \in 1 .. Len(r), i < j
               PROVE  \E m, l \in 1 .. Len(s) : m < l /\ r[i] = s[m] /\ r[j] = s[l]
    OBVIOUS
  <2>0. \A h \in 1 .. Len(r) : \E l \in 1 .. Len(s) : r[h] = s[l] /\ l = IF h < k THEN h ELSE h + 1
    <3> SUFFICES ASSUME NEW h \in 1 .. Len(r)
                 PROVE  \E l \in 1 .. Len(s) : r[h] = s[l] /\ l = IF h < k THEN h ELSE h + 1
      OBVIOUS
    <3>1. CASE h < k
      BY <1>1, <3>1
    <3>2. CASE ~(h < k)
      <4>1. h + 1 \in 1 .. Len(s) /\ r[h] = s[h + 1]
        BY <1>1, <3>2
      <4> QED
        BY <3>2, <4>1
    <3> QED
      BY <3>1, <3>2
  <2>1. PICK m \in 1 .. Len(s) : r[i] = s[m] /\ m = IF i < k THEN i ELSE i + 1
    BY <2>0
  <2>2. PICK l \in 1 .. Len(s) : r[j] = s[l] /\ l = IF j < k THEN j ELSE j + 1
    BY <2>0
  <2> QED
    BY <2>1, <2>2
<1> QED
  BY <1>2, <1>3 DEF Without, r

LEMMA WithoutTwice ==
  ASSUME NEW r, NEW s, NEW t, NEW D, NEW B, Without(r, s, D), Without(s, t, B)
  PROVE  Without(r, t, B \cup D)
<1>1. ToSet(r) = ToSet(t) \ (B \cup D)
  BY DEF Without
<1>2. \A i, j \in 1 .. Len(r) : i < j =>
        \E k, l \in 1 .. Len(t) : k < l /\ r[i] = t[k] /\ r[j] = t[l]
  <2> SUFFICES ASSUME NEW i \in 1 .. Len(r), NEW j \in 1 .. Len(r), i < j
               PROVE  \E k, l \in 1 .. Len(t) : k < l /\ r[i] = t[k] /\ r[j] = t[l]
    OBVIOUS
  <2>1. PICK k, l \in 1 .. Len(s) : k < l /\ r[i] = s[k] /\ r[j] = s[l]
    BY DEF Without
  <2> QED
    BY <2>1 DEF Without
<1> QED
  BY <1>1, <1>2 DEF Without

LEMMA WithoutSame ==
  ASSUME NEW s, NEW t, NEW D, NEW B, Without(s, t, D), ToSet(t) \ D = ToSet(t) \ B
  PROVE  Without(s, t, B)
  BY DEF Without

-----------------------------------------------------------------------------
(* The removal of once hooks.                                              *)

\* The loop of removeOnceHooks, from the last place to the first.
LEMMA RemovalLoop ==
  ASSUME NEW groups, NEW places, Len(places) \in Nat
  PROVE  \E left : /\ left[Len(places)] = groups
                   /\ \A i \in 0 .. Len(places) - 1 :
                        left[i] = DropHook(left[i + 1], places[i + 1])
                   /\ removeOnceHooks(groups, places) = left[0]
<1> DEFINE n == Len(places)
           Loop(k, f) == f = [i \in n - k .. n |-> IF i = n THEN groups
                                                   ELSE DropHook(f[i + 1], places[i + 1])]
           Bad == {k \in 0 .. n : ~ \E f : Loop(k, f)}
<1>1. Bad = {}
  <2> SUFFICES ASSUME Bad # {} PROVE FALSE
    OBVIOUS
  <2>0. Bad \subseteq 0 .. n /\ n \in Nat
    OBVIOUS
  <2>1. PICK k \in Bad : \A j \in Bad : k <= j
    <3> HIDE DEF Bad
    <3>1. Bad \in SUBSET Nat
      BY <2>0
    <3> QED
      BY <3>1, LeastIsThere
  <2>2. k # 0
    <3> DEFINE f == [i \in n - 0 .. n |-> groups]
    <3>1. \A i \in n - 0 .. n : i = n
      OBVIOUS
    <3>2. Loop(0, f)
      BY <3>1
    <3> QED
      BY <3>2
  <2>3. k \in 1 .. n /\ k - 1 \in 0 .. n /\ k - 1 \notin Bad
    <3> HIDE DEF Bad
    <3>1. k \in 0 .. n /\ \A j \in Bad : k <= j
      BY <2>0, <2>1
    <3> QED
      BY <2>0, <2>2, <3>1
  <2>4. PICK f : Loop(k - 1, f)
    BY <2>3
  <2> DEFINE h == [i \in n - k .. n |-> IF i = n - k THEN DropHook(f[i + 1], places[i + 1])
                                        ELSE f[i]]
  <2>5. \A i \in n - k .. n :
          h[i] = IF i = n THEN groups ELSE DropHook(h[i + 1], places[i + 1])
    <3> SUFFICES ASSUME NEW i \in n - k .. n
                 PROVE  h[i] = IF i = n THEN groups ELSE DropHook(h[i + 1], places[i + 1])
      OBVIOUS
    <3>1. i # n => i + 1 \in n - k .. n /\ i + 1 # n - k /\ h[i + 1] = f[i + 1]
      BY <2>3
    <3>2. CASE i = n - k
      BY <2>3, <3>1, <3>2
    <3>3. CASE i # n - k
      <4>1. i \in n - (k - 1) .. n
        BY <2>3, <3>3
      <4>2. f[i] = IF i = n THEN groups ELSE DropHook(f[i + 1], places[i + 1])
        BY <2>4, <4>1
      <4> QED
        BY <3>1, <3>3, <4>2
    <3> QED
      BY <3>2, <3>3
  <2>6. Loop(k, h)
    <3> DEFINE e == [i \in n - k .. n |-> IF i = n THEN groups
                                          ELSE DropHook(h[i + 1], places[i + 1])]
    <3>1. \A i \in n - k .. n : h[i] = e[i]
      BY <2>5
    <3> QED
      BY <3>1
  <2> QED
    BY <2>1, <2>6
<1>2. PICK f : f = [i \in 0 .. n |-> IF i = n THEN groups ELSE DropHook(f[i + 1], places[i + 1])]
  <2>1. n \in 0 .. n /\ n - n = 0
    OBVIOUS
  <2>2. PICK f : Loop(n, f)
    BY <1>1, <2>1
  <2> QED
    BY <2>1, <2>2
<1> DEFINE left == CHOOSE g : g = [i \in 0 .. n |-> IF i = n THEN groups
                                                    ELSE DropHook(g[i + 1], places[i + 1])]
<1>3. left = [i \in 0 .. n |-> IF i = n THEN groups ELSE DropHook(left[i + 1], places[i + 1])]
  BY <1>2
<1>4. removeOnceHooks(groups, places) = left[0]
  BY DEF removeOnceHooks
<1> HIDE DEF left
<1>5. left[n] = groups /\ \A i \in 0 .. n - 1 : left[i] = DropHook(left[i + 1], places[i + 1])
  BY <1>3
<1> QED
  BY <1>4, <1>5

\* The places of hooks, in their order.
Listed(groups, places) ==
  /\ places \in Seq(Nat \X Nat)
  /\ \A i \in 1 .. Len(places) : places[i] \in Places(groups)
  /\ \A i, j \in 1 .. Len(places) : i < j => Before(places[i], places[j])

\* The hooks of group g at the places behind the first i.
Behind(groups, places, i, g) ==
  {HookAt(groups, places[j]) : j \in {k \in i + 1 .. Len(places) : places[k][1] = g}}

\* The removal when the first i places are left to do.
Partial(rest, groups, places, i) ==
  /\ rest \in Seq(HookMatcher) /\ Len(rest) = Len(groups)
  /\ \A g \in 1 .. Len(groups) :
       /\ rest[g].matcher = groups[g].matcher
       /\ Without(rest[g].hooks, groups[g].hooks, Behind(groups, places, i, g))
  /\ \A q \in Places(groups) : i = Len(places) \/ Before(q, places[i + 1]) =>
       q \in Places(rest) /\ HookAt(rest, q) = HookAt(groups, q)

LEMMA PlacesAre ==
  ASSUME NEW groups \in Seq(HookMatcher)
  PROVE  \A p : p \in Places(groups) <=>
           \E g \in 1 .. Len(groups) : \E h \in 1 .. Len(groups[g].hooks) : p = <<g, h>>
  BY DEF Places

LEMMA HooksOf ==
  ASSUME NEW groups \in Seq(HookMatcher), NEW g \in 1 .. Len(groups)
  PROVE  groups[g] \in HookMatcher /\ groups[g].hooks \in Seq(Hooks)
<1>1. groups[g] \in HookMatcher
  OBVIOUS
<1> QED
  BY <1>1 DEF HookMatcher

\* One hook goes from its group, and no other.
LEMMA DropHookDrops ==
  ASSUME NEW rest \in Seq(HookMatcher), NEW p \in Places(rest),
         Distinct(rest[p[1]].hooks)
  PROVE  /\ DropHook(rest, p) \in Seq(HookMatcher) /\ Len(DropHook(rest, p)) = Len(rest)
         /\ \A g \in 1 .. Len(rest) :
              /\ DropHook(rest, p)[g].matcher = rest[g].matcher
              /\ g # p[1] => DropHook(rest, p)[g] = rest[g]
         /\ Without(DropHook(rest, p)[p[1]].hooks, rest[p[1]].hooks, {HookAt(rest, p)})
         /\ \A q \in Places(rest) : Before(q, p) =>
              q \in Places(DropHook(rest, p)) /\ HookAt(DropHook(rest, p), q) = HookAt(rest, q)
<1>1. PICK g \in 1 .. Len(rest) : \E h \in 1 .. Len(rest[g].hooks) : p = <<g, h>>
  BY PlacesAre
<1>2. PICK h \in 1 .. Len(rest[g].hooks) : p = <<g, h>>
  BY <1>1
<1>3. rest[g] \in HookMatcher /\ rest[g].hooks \in Seq(Hooks) /\ p[1] = g /\ p[2] = h
  BY <1>2, HooksOf
<1> DEFINE s == RemoveAt(rest[g].hooks, h)
<1>4. /\ s \in Seq(Hooks) /\ Without(s, rest[g].hooks, {rest[g].hooks[h]})
      /\ Len(s) = Len(rest[g].hooks) - 1
      /\ \A i \in 1 .. Len(rest[g].hooks) - 1 : i < h => s[i] = rest[g].hooks[i]
  <2>1. Distinct(rest[g].hooks)
    BY <1>3
  <2> QED
    BY <1>3, <2>1, RemoveAtIs, WithoutOne
<1> DEFINE d == DropHook(rest, p)
<1>5. d = [rest EXCEPT ![g] = [rest[g] EXCEPT !.hooks = s]]
  <2>1. p[1] <= Len(rest) /\ p[2] <= Len(rest[p[1]].hooks)
    BY <1>3
  <2>2. d = [rest EXCEPT ![p[1]].hooks = RemoveAt(@, p[2])]
    BY <2>1 DEF DropHook
  <2> QED
    BY <1>3, <2>2
<1> HIDE DEF s, d
<1> DEFINE m == [rest[g] EXCEPT !.hooks = s]
<1>6. m \in HookMatcher /\ m.hooks = s /\ m.matcher = rest[g].matcher
  BY <1>3, <1>4 DEF HookMatcher
<1> HIDE DEF m
<1>7. d \in Seq(HookMatcher) /\ Len(d) = Len(rest)
      /\ \A k \in 1 .. Len(rest) : d[k] = IF k = g THEN m ELSE rest[k]
  BY <1>5, <1>6 DEF m
<1>8. \A k \in 1 .. Len(rest) : d[k].matcher = rest[k].matcher /\ (k # p[1] => d[k] = rest[k])
  BY <1>3, <1>6, <1>7
<1>9. Without(d[p[1]].hooks, rest[p[1]].hooks, {HookAt(rest, p)})
  BY <1>3, <1>4, <1>6, <1>7 DEF HookAt
<1>10. ASSUME NEW q \in Places(rest), Before(q, p)
       PROVE  q \in Places(d) /\ HookAt(d, q) = HookAt(rest, q)
  <2>0. PICK a \in 1 .. Len(rest) : \E b \in 1 .. Len(rest[a].hooks) : q = <<a, b>>
    BY PlacesAre
  <2>1. PICK b \in 1 .. Len(rest[a].hooks) : q = <<a, b>>
    BY <2>0
  <2>2. a < g \/ (a = g /\ b < h)
    BY <1>3, <1>10, <2>1 DEF Before
  <2>3. CASE a # g
    <3>1. d[a] = rest[a]
      BY <1>7, <2>3
    <3> QED
      BY <1>7, <2>1, <3>1, PlacesAre DEF HookAt
  <2>4. CASE a = g
    <3>1. d[a].hooks = s /\ b < h
      BY <1>6, <1>7, <2>2, <2>4
    <3>2. b \in 1 .. Len(s) /\ s[b] = rest[a].hooks[b]
      BY <1>3, <1>4, <2>1, <2>4, <3>1
    <3> QED
      BY <1>7, <2>1, <3>1, <3>2, PlacesAre DEF HookAt
  <2> QED
    BY <2>3, <2>4
<1> QED
  BY <1>7, <1>8, <1>9, <1>10 DEF d

LEMMA BehindHere ==
  ASSUME NEW groups, NEW places, Len(places) \in Nat, NEW i \in 0 .. Len(places) - 1
  PROVE  Behind(groups, places, i, places[i + 1][1]) =
           Behind(groups, places, i + 1, places[i + 1][1]) \cup {HookAt(groups, places[i + 1])}
<1>1. i + 1 .. Len(places) = (i + 2 .. Len(places)) \cup {i + 1} /\ (i + 1) + 1 = i + 2
  OBVIOUS
<1> QED
  BY <1>1 DEF Behind

LEMMA BehindElsewhere ==
  ASSUME NEW groups, NEW places, Len(places) \in Nat, NEW i \in 0 .. Len(places) - 1, NEW g,
         places[i + 1][1] # g
  PROVE  Behind(groups, places, i, g) = Behind(groups, places, i + 1, g)
<1>1. i + 1 .. Len(places) = (i + 2 .. Len(places)) \cup {i + 1} /\ (i + 1) + 1 = i + 2
  OBVIOUS
<1> QED
  BY <1>1 DEF Behind

LEMMA RemovalStep ==
  ASSUME NEW groups \in Seq(HookMatcher), NEW places, Listed(groups, places),
         \A g \in 1 .. Len(groups) : Distinct(groups[g].hooks),
         NEW i \in 0 .. Len(places) - 1, NEW rest, Partial(rest, groups, places, i + 1)
  PROVE  Partial(DropHook(rest, places[i + 1]), groups, places, i)
<1> DEFINE p == places[i + 1]
           d == DropHook(rest, p)
<1>0. Len(places) \in Nat /\ i + 1 \in 1 .. Len(places) /\ (i + 1) + 1 = i + 2
  BY DEF Listed
<1>1. p \in Places(groups) /\ (i + 1 = Len(places) \/ Before(p, places[i + 2]))
  BY <1>0 DEF Listed
<1>2. p \in Places(rest) /\ HookAt(rest, p) = HookAt(groups, p)
  BY <1>0, <1>1 DEF Partial
<1>3. PICK g \in 1 .. Len(groups) : p[1] = g
  BY <1>1, PlacesAre
<1>4. rest \in Seq(HookMatcher) /\ Len(rest) = Len(groups)
  BY DEF Partial
<1>5. /\ rest[g].hooks \in Seq(Hooks) /\ groups[g].hooks \in Seq(Hooks)
      /\ Without(rest[g].hooks, groups[g].hooks, Behind(groups, places, i + 1, g))
  BY <1>4, HooksOf DEF Partial
<1>6. Distinct(rest[g].hooks)
  BY <1>5, WithoutDistinct
<1>7. /\ d \in Seq(HookMatcher) /\ Len(d) = Len(rest)
      /\ \A k \in 1 .. Len(rest) : /\ d[k].matcher = rest[k].matcher
                                   /\ k # g => d[k] = rest[k]
      /\ Without(d[g].hooks, rest[g].hooks, {HookAt(groups, p)})
      /\ \A q \in Places(rest) : Before(q, p) =>
           q \in Places(d) /\ HookAt(d, q) = HookAt(rest, q)
  BY <1>2, <1>3, <1>4, <1>6, DropHookDrops
<1> HIDE DEF d
<1>8. ASSUME NEW k \in 1 .. Len(groups)
      PROVE  /\ d[k].matcher = groups[k].matcher
             /\ Without(d[k].hooks, groups[k].hooks, Behind(groups, places, i, k))
  <2>1. d[k].matcher = groups[k].matcher
    BY <1>4, <1>7 DEF Partial
  <2>2. CASE k = g
    <3>1. Behind(groups, places, i, k) = Behind(groups, places, i + 1, k) \cup {HookAt(groups, p)}
      <4>1. Len(places) \in Nat /\ places[i + 1][1] = k
        BY <1>0, <1>3, <2>2
      <4>2. Behind(groups, places, i, places[i + 1][1]) =
              Behind(groups, places, i + 1, places[i + 1][1]) \cup {HookAt(groups, places[i + 1])}
        BY <4>1, BehindHere
      <4> QED
        BY <4>1, <4>2
    <3>2. Without(d[k].hooks, groups[k].hooks,
                  Behind(groups, places, i + 1, k) \cup {HookAt(groups, p)})
      BY <1>5, <1>7, <2>2, WithoutTwice
    <3> QED
      BY <2>1, <3>1, <3>2
  <2>3. CASE k # g
    <3>1. Behind(groups, places, i, k) = Behind(groups, places, i + 1, k)
      <4>1. Len(places) \in Nat /\ places[i + 1][1] # k
        BY <1>0, <1>3, <2>3
      <4> QED
        BY <4>1, BehindElsewhere
    <3> QED
      BY <1>4, <1>7, <2>1, <2>3, <3>1 DEF Partial
  <2> QED
    BY <2>2, <2>3
<1>9. ASSUME NEW q \in Places(groups), Before(q, p)
      PROVE  q \in Places(d) /\ HookAt(d, q) = HookAt(groups, q)
  <2>1. i + 1 = Len(places) \/ Before(q, places[i + 2])
    <3>1. \A x \in Places(groups) : x[1] \in Nat /\ x[2] \in Nat
      BY PlacesAre
    <3>2. i + 1 = Len(places) \/ places[i + 2] \in Places(groups)
      BY <1>0 DEF Listed
    <3> QED
      BY <1>1, <1>9, <3>1, <3>2 DEF Before
  <2>2. q \in Places(rest) /\ HookAt(rest, q) = HookAt(groups, q)
    BY <1>0, <2>1 DEF Partial
  <2> QED
    BY <1>7, <1>9, <2>2
<1>10. i # Len(places)
  BY <1>0
<1> QED
  BY <1>4, <1>7, <1>8, <1>9, <1>10 DEF Partial, d

\* removeOnceHooks takes out the hooks at the places and no others.
LEMMA RemovalSpares ==
  ASSUME NEW groups \in Seq(HookMatcher), NEW places, Listed(groups, places),
         \A g \in 1 .. Len(groups) : Distinct(groups[g].hooks)
  PROVE  Partial(removeOnceHooks(groups, places), groups, places, 0)
<1>0. Len(places) \in Nat
  BY DEF Listed
<1>1. PICK left : /\ left[Len(places)] = groups
                  /\ \A i \in 0 .. Len(places) - 1 : left[i] = DropHook(left[i + 1], places[i + 1])
                  /\ removeOnceHooks(groups, places) = left[0]
  BY <1>0, RemovalLoop
<1> DEFINE Bad == {k \in 0 .. Len(places) :
                     ~ Partial(left[Len(places) - k], groups, places, Len(places) - k)}
<1>2. Bad = {}
  <2> SUFFICES ASSUME Bad # {} PROVE FALSE
    OBVIOUS
  <2>1. Bad \in SUBSET Nat
    BY <1>0
  <2>2. PICK k \in Bad : \A j \in Bad : k <= j
    <3> HIDE DEF Bad
    <3> QED
      BY <2>1, LeastIsThere
  <2>3. k \in 0 .. Len(places) /\ ~ Partial(left[Len(places) - k], groups, places, Len(places) - k)
    OBVIOUS
  <2>4. k # 0
    <3>1. Partial(groups, groups, places, Len(places))
      <4>1. ASSUME NEW g \in 1 .. Len(groups)
            PROVE  Without(groups[g].hooks, groups[g].hooks, Behind(groups, places, Len(places), g))
        <5>1. groups[g].hooks \in Seq(Hooks)
          BY HooksOf
        <5>2. Behind(groups, places, Len(places), g) = {}
          <6>1. Len(places) + 1 .. Len(places) = {}
            BY <1>0
          <6> QED
            BY <6>1 DEF Behind
        <5> QED
          BY <5>1, <5>2, WithoutNothing
      <4> QED
        BY <4>1 DEF Partial
    <3>2. Len(places) - 0 = Len(places)
      BY <1>0
    <3> QED
      BY <1>1, <2>3, <3>1, <3>2
  <2>5. PICK i \in 0 .. Len(places) - 1 : i = Len(places) - k
    <3>1. k \in Int /\ k >= 1 /\ k <= Len(places)
      <4>1. k \in 0 .. Len(places)
        BY <2>3
      <4> HIDE DEF Bad
      <4> QED
        BY <1>0, <2>4, <4>1
    <3> HIDE DEF Bad
    <3>2. Len(places) - k \in 0 .. Len(places) - 1
      BY <1>0, <3>1
    <3> QED
      BY <3>2
  <2>6. k - 1 \in 0 .. Len(places) /\ Len(places) - (k - 1) = i + 1
    BY <1>0, <2>3, <2>4, <2>5
  <2>7. k - 1 \notin Bad
    <3> HIDE DEF Bad
    <3> QED
      BY <1>0, <2>2, <2>3
  <2>8. Partial(left[i + 1], groups, places, i + 1)
    BY <2>6, <2>7
  <2>9. left[i] = DropHook(left[i + 1], places[i + 1])
    BY <1>1
  <2> QED
    BY <2>3, <2>5, <2>8, <2>9, RemovalStep
<1>3. Len(places) \in 0 .. Len(places) /\ Len(places) - Len(places) = 0
  BY <1>0
<1> QED
  BY <1>1, <1>2, <1>3

\* The hooks at some places.
HooksAt(groups, places) == {HookAt(groups, places[i]) : i \in 1 .. Len(places)}

\* Groups without the hooks that are gone.
Spared(rest, list, gone) ==
  /\ rest \in Seq(HookMatcher) /\ Len(rest) = Len(list)
  /\ \A g \in 1 .. Len(rest) :
       /\ rest[g].matcher = list[g].matcher
       /\ Without(rest[g].hooks, list[g].hooks, gone)

\* A hook of settings is in one group of one event, once.
NamedOnce(s, d, e, i, j) ==
  \A m \in 1 .. Len(s[d][i].hooks), n \in 1 .. Len(s[e][j].hooks) :
    s[d][i].hooks[m] = s[e][j].hooks[n] => d = e /\ i = j /\ m = n

LEMMA SettingsName ==
  ASSUME NEW s \in Settings
  PROVE  \A d, e \in Events : \A i \in 1 .. Len(s[d]), j \in 1 .. Len(s[e]) :
           NamedOnce(s, d, e, i, j)
  BY SettingsAssumption, Zenon DEF NamedOnce

LEMMA HooksApart ==
  ASSUME NEW s \in Settings, NEW d \in Events, NEW e \in Events,
         NEW i \in 1 .. Len(s[d]), NEW j \in 1 .. Len(s[e]), NEW x,
         x \in ToSet(s[d][i].hooks), x \in ToSet(s[e][j].hooks)
  PROVE  d = e /\ i = j
<1>1. s[d] \in Seq(HookMatcher) /\ s[e] \in Seq(HookMatcher)
  BY SettingsAssumption
<1>2. s[d][i].hooks \in Seq(Hooks) /\ s[e][j].hooks \in Seq(Hooks)
  BY <1>1, HooksOf
<1>3. PICK m \in 1 .. Len(s[d][i].hooks) : s[d][i].hooks[m] = x
  BY <1>2, InList
<1>4. PICK n \in 1 .. Len(s[e][j].hooks) : s[e][j].hooks[n] = x
  BY <1>2, InList
<1>5. s[d][i].hooks[m] = s[e][j].hooks[n]
  BY <1>3, <1>4
<1>6. NamedOnce(s, d, e, i, j)
  BY SettingsName, Zenon
<1> QED
  BY <1>5, <1>6, Zenon DEF NamedOnce

LEMMA SettingsDistinct ==
  ASSUME NEW s \in Settings, NEW e \in Events, NEW g \in 1 .. Len(s[e])
  PROVE  s[e][g].hooks \in Seq(Hooks) /\ Distinct(s[e][g].hooks)
<1>1. s[e] \in Seq(HookMatcher)
  BY SettingsAssumption
<1>2. s[e][g].hooks \in Seq(Hooks)
  BY <1>1, HooksOf
<1>3. NamedOnce(s, e, e, g, g)
  BY SettingsName, Zenon
<1>4. Distinct(s[e][g].hooks)
  BY <1>3, Zenon DEF NamedOnce, Distinct
<1> QED
  BY <1>2, <1>4

\* What is left of the settings: the hook at a place is one of the same group
\* there, is not gone, and is at no other place.
LEMMA SparedHook ==
  ASSUME NEW s \in Settings, NEW e \in Events, NEW rest, NEW gone, Spared(rest, s[e], gone),
         NEW p \in Places(rest)
  PROVE  /\ p[1] \in 1 .. Len(s[e]) /\ HookAt(rest, p) \in ToSet(s[e][p[1]].hooks)
         /\ HookAt(rest, p) \in Hooks /\ HookAt(rest, p) \notin gone
<1>1. rest \in Seq(HookMatcher) /\ Len(rest) = Len(s[e])
  BY DEF Spared
<1>2. PICK g \in 1 .. Len(rest) : \E h \in 1 .. Len(rest[g].hooks) : p = <<g, h>>
  BY <1>1, PlacesAre
<1>3. PICK h \in 1 .. Len(rest[g].hooks) : p = <<g, h>>
  BY <1>2
<1>4. rest[g].hooks \in Seq(Hooks) /\ p[1] = g /\ HookAt(rest, p) = rest[g].hooks[h]
  BY <1>1, <1>3, HooksOf DEF HookAt
<1>5. rest[g].hooks[h] \in ToSet(rest[g].hooks)
  BY <1>4, InList
<1>6. ToSet(rest[g].hooks) = ToSet(s[e][g].hooks) \ gone
  BY <1>1 DEF Spared, Without
<1> QED
  BY <1>1, <1>4, <1>5, <1>6

LEMMA SparedDistinct ==
  ASSUME NEW s \in Settings, NEW e \in Events, NEW rest, NEW gone, Spared(rest, s[e], gone)
  PROVE  \A g \in 1 .. Len(rest) : Distinct(rest[g].hooks)
<1> SUFFICES ASSUME NEW g \in 1 .. Len(rest) PROVE Distinct(rest[g].hooks)
  OBVIOUS
<1>1. /\ rest \in Seq(HookMatcher) /\ g \in 1 .. Len(s[e])
      /\ Without(rest[g].hooks, s[e][g].hooks, gone)
  BY DEF Spared
<1>2. rest[g].hooks \in Seq(Hooks)
  BY <1>1, HooksOf
<1>3. s[e][g].hooks \in Seq(Hooks) /\ Distinct(s[e][g].hooks)
  BY <1>1, SettingsDistinct
<1> QED
  BY <1>1, <1>2, <1>3, WithoutDistinct

LEMMA SparedApart ==
  ASSUME NEW s \in Settings, NEW e \in Events, NEW rest, NEW gone, Spared(rest, s[e], gone),
         NEW p \in Places(rest), NEW q \in Places(rest), HookAt(rest, p) = HookAt(rest, q)
  PROVE  p = q
<1>1. p[1] = q[1]
  <2>1. /\ p[1] \in 1 .. Len(s[e]) /\ HookAt(rest, p) \in ToSet(s[e][p[1]].hooks)
        /\ q[1] \in 1 .. Len(s[e]) /\ HookAt(rest, q) \in ToSet(s[e][q[1]].hooks)
    BY SparedHook
  <2> QED
    BY <2>1, HooksApart
<1>2. rest \in Seq(HookMatcher)
  BY DEF Spared
<1>3. PICK g \in 1 .. Len(rest) : \E h \in 1 .. Len(rest[g].hooks) : p = <<g, h>>
  BY <1>2, PlacesAre
<1>4. PICK h \in 1 .. Len(rest[g].hooks) : p = <<g, h>>
  BY <1>3
<1>5. PICK f \in 1 .. Len(rest) : \E k \in 1 .. Len(rest[f].hooks) : q = <<f, k>>
  BY <1>2, PlacesAre
<1>6. PICK k \in 1 .. Len(rest[f].hooks) : q = <<f, k>>
  BY <1>5
<1>7. f = g /\ rest[g].hooks[h] = rest[g].hooks[k] /\ k \in 1 .. Len(rest[g].hooks)
  BY <1>1, <1>4, <1>6 DEF HookAt
<1>8. Distinct(rest[g].hooks)
  BY SparedDistinct
<1>9. h = k
  BY <1>7, <1>8 DEF Distinct
<1> QED
  BY <1>4, <1>6, <1>7, <1>9

LEMMA SparedSame ==
  ASSUME NEW rest, NEW list, NEW gone, NEW others, Spared(rest, list, gone),
         \A g \in 1 .. Len(list) : ToSet(list[g].hooks) \ gone = ToSet(list[g].hooks) \ others
  PROVE  Spared(rest, list, others)
<1>1. ASSUME NEW g \in 1 .. Len(rest) PROVE Without(rest[g].hooks, list[g].hooks, others)
  <2>1. /\ Without(rest[g].hooks, list[g].hooks, gone)
        /\ ToSet(list[g].hooks) \ gone = ToSet(list[g].hooks) \ others
    BY DEF Spared
  <2> QED
    BY <2>1, WithoutSame
<1> QED
  BY <1>1 DEF Spared

\* When an event is over, the once hooks that were started for it go, and
\* then all that were started are gone.
LEMMA SparedLeft ==
  ASSUME NEW s \in Settings, NEW e \in Events, NEW rest, NEW gone, NEW places,
         Spared(rest, s[e], gone \ HooksAt(rest, places)),
         Listed(rest, places), HooksAt(rest, places) \subseteq gone
  PROVE  Spared(removeOnceHooks(rest, places), s[e], gone)
<1> DEFINE left == removeOnceHooks(rest, places)
<1>1. rest \in Seq(HookMatcher) /\ Len(rest) = Len(s[e])
  BY DEF Spared
<1>2. \A g \in 1 .. Len(rest) : Distinct(rest[g].hooks)
  BY SparedDistinct
<1>3. Partial(left, rest, places, 0)
  BY <1>1, <1>2, RemovalSpares
<1> HIDE DEF left
<1>4. ASSUME NEW g \in 1 .. Len(rest)
      PROVE  Without(left[g].hooks, s[e][g].hooks, gone)
  <2> DEFINE B == Behind(rest, places, 0, g)
             A == HooksAt(rest, places)
  <2>1. Without(left[g].hooks, rest[g].hooks, B)
    BY <1>3 DEF Partial
  <2>2. Without(rest[g].hooks, s[e][g].hooks, gone \ A)
    BY DEF Spared
  <2>3. Without(left[g].hooks, s[e][g].hooks, (gone \ A) \cup B)
    BY <2>1, <2>2, WithoutTwice
  <2>4. \A i \in 1 .. Len(places) : places[i] \in Places(rest)
    BY DEF Listed
  <2>5. B \subseteq A
    <3>1. 0 + 1 .. Len(places) = 1 .. Len(places)
      OBVIOUS
    <3> QED
      BY <3>1 DEF Behind, HooksAt
  <2>6. ASSUME NEW x \in A, x \in ToSet(s[e][g].hooks) PROVE x \in B
    <3>1. PICK i \in 1 .. Len(places) : x = HookAt(rest, places[i])
      BY DEF HooksAt
    <3>2. /\ places[i][1] \in 1 .. Len(s[e])
          /\ HookAt(rest, places[i]) \in ToSet(s[e][places[i][1]].hooks)
      BY <2>4, SparedHook
    <3>3. places[i][1] = g
      BY <1>1, <2>6, <3>1, <3>2, HooksApart
    <3>4. i \in 0 + 1 .. Len(places)
      OBVIOUS
    <3> QED
      BY <3>1, <3>3, <3>4 DEF Behind
  <2>7. A \subseteq gone
    OBVIOUS
  <2> HIDE DEF A, B
  <2>8. ToSet(s[e][g].hooks) \ ((gone \ A) \cup B) = ToSet(s[e][g].hooks) \ gone
    BY <2>5, <2>6, <2>7
  <2> QED
    BY <2>3, <2>8, WithoutSame
<1>5. /\ left \in Seq(HookMatcher) /\ Len(left) = Len(s[e])
      /\ \A g \in 1 .. Len(rest) : left[g].matcher = s[e][g].matcher
  BY <1>1, <1>3 DEF Partial, Spared
<1> QED
  BY <1>1, <1>4, <1>5 DEF Spared, left

-----------------------------------------------------------------------------
(* The books of the runner: what is asked, what was started, what is left.  *)

StartedOf(f) == {h \in OnceHooksOf : f[h] > 0}

\* Hooks of groups, each with its place.
Placed(todo, groups) ==
  \A m \in todo : /\ m = [hook |-> HookAt(groups, m.place), place |-> m.place]
                  /\ m.place \in Places(groups)

\* What an event still asks and has started, with its groups.
Asks(a, groups) ==
  /\ Placed(a.todo, groups)
  /\ Listed(groups, a.once)
  /\ \A i \in 1 .. Len(a.once) : \A m \in a.todo : Before(a.once[i], m.place)

\* The once hooks of an event that were started and are not removed yet.
Pending(c, a, e) == IF e = a.event THEN HooksAt(c[e], a.once) ELSE {}

Books(s, c, a, f) ==
  /\ a.event # None => Asks(a, c[a.event]) /\ HooksAt(c[a.event], a.once) \subseteq StartedOf(f)
  /\ \A e \in Events : Spared(c[e], s[e], StartedOf(f) \ Pending(c, a, e))

\* An event that was not asked a hook yet.
Fresh(a, c) ==
  /\ a.event \in Events \cup {None} /\ a.once = << >>
  /\ a.decision = "" /\ a.errors \in BOOLEAN
  /\ a.event = None => a.todo = {}
  /\ a.event # None => Placed(a.todo, c[a.event])

LEMMA EventsAreNamed == None \notin Events
  BY DEF None, Events

LEMMA FreshAsks ==
  ASSUME NEW c, NEW a, Fresh(a, c), a.event # None
  PROVE  Asks(a, c[a.event])
<1>1. a.once = << >> /\ Placed(a.todo, c[a.event])
  BY Zenon DEF Fresh
<1>2. Len(a.once) = 0 /\ a.once \in Seq(Nat \X Nat)
  BY <1>1
<1>3. Listed(c[a.event], a.once)
  BY <1>2 DEF Listed
<1> QED
  BY <1>1, <1>2, <1>3 DEF Asks

LEMMA NothingPending ==
  ASSUME NEW c, NEW a, a.once = << >>, NEW e
  PROVE  Pending(c, a, e) = {} /\ HooksAt(c[e], a.once) = {}
<1>1. 1 .. Len(a.once) = {}
  OBVIOUS
<1> QED
  BY <1>1 DEF Pending, HooksAt

\* The event is over and the next one, if any, has not begun.
LEMMA BooksLeave ==
  ASSUME NEW s \in Settings, NEW c \in [Events -> Seq(HookMatcher)], NEW a, NEW f,
         a.event \in Events \cup {None}, Books(s, c, a, f),
         NEW l, l = IF a.event = None THEN c
                    ELSE [c EXCEPT ![a.event] = removeOnceHooks(@, a.once)],
         NEW b, Fresh(b, l)
  PROVE  l \in [Events -> Seq(HookMatcher)] /\ Books(s, l, b, f)
<1>1. \A e \in Events : Spared(l[e], s[e], StartedOf(f))
  <2> SUFFICES ASSUME NEW e \in Events PROVE Spared(l[e], s[e], StartedOf(f))
    OBVIOUS
  <2>1. Spared(c[e], s[e], StartedOf(f) \ Pending(c, a, e))
    BY DEF Books
  <2>2. CASE e # a.event
    <3>1. l[e] = c[e]
      BY <2>2
    <3>2. StartedOf(f) \ Pending(c, a, e) = StartedOf(f)
      BY <2>2 DEF Pending
    <3> QED
      BY <2>1, <3>1, <3>2
  <2>3. CASE e = a.event
    <3>1. a.event # None
      BY <2>3, EventsAreNamed
    <3>2. l[e] = removeOnceHooks(c[e], a.once)
      BY <2>3, <3>1
    <3>3. Listed(c[e], a.once) /\ HooksAt(c[e], a.once) \subseteq StartedOf(f)
      BY <2>3, <3>1 DEF Books, Asks
    <3>4. Spared(c[e], s[e], StartedOf(f) \ HooksAt(c[e], a.once))
      BY <2>1, <2>3 DEF Pending
    <3>5. Spared(removeOnceHooks(c[e], a.once), s[e], StartedOf(f))
      BY <3>3, <3>4, SparedLeft
    <3> QED
      BY <3>2, <3>5
  <2> QED
    BY <2>2, <2>3
<1>2. l \in [Events -> Seq(HookMatcher)]
  <2>1. \A e \in Events : l[e] \in Seq(HookMatcher)
    BY <1>1 DEF Spared
  <2>2. CASE a.event = None
    BY <2>2
  <2>3. CASE a.event # None
    <3>1. l = [c EXCEPT ![a.event] = removeOnceHooks(c[a.event], a.once)]
      BY <2>3
    <3>2. l = [e \in Events |-> l[e]]
      BY <3>1
    <3> QED
      BY <2>1, <3>2
  <2> QED
    BY <2>2, <2>3
<1>3. b.once = << >>
  BY DEF Fresh
<1>4. \A e \in Events : Spared(l[e], s[e], StartedOf(f) \ Pending(l, b, e))
  <2> SUFFICES ASSUME NEW e \in Events
               PROVE  Spared(l[e], s[e], StartedOf(f) \ Pending(l, b, e))
    OBVIOUS
  <2>1. Pending(l, b, e) = {}
    BY <1>3, NothingPending
  <2>2. StartedOf(f) \ Pending(l, b, e) = StartedOf(f)
    BY <2>1
  <2> QED
    BY <1>1, <2>2
<1>5. b.event # None => Asks(b, l[b.event]) /\ HooksAt(l[b.event], b.once) \subseteq StartedOf(f)
  BY <1>3, FreshAsks, NothingPending
<1> QED
  BY <1>2, <1>4, <1>5 DEF Books

\* One more place behind those that are listed.
LEMMA ListedAppend ==
  ASSUME NEW groups \in Seq(HookMatcher), NEW places, Listed(groups, places),
         NEW p \in Places(groups), \A i \in 1 .. Len(places) : Before(places[i], p)
  PROVE  /\ Listed(groups, Append(places, p))
         /\ HooksAt(groups, Append(places, p)) = HooksAt(groups, places) \cup {HookAt(groups, p)}
         /\ \A i \in 1 .. Len(Append(places, p)) :
              \/ Append(places, p)[i] = p
              \/ \E j \in 1 .. Len(places) : Append(places, p)[i] = places[j]
<1> DEFINE q == Append(places, p)
<1>1. places \in Seq(Nat \X Nat) /\ p \in Nat \X Nat
  BY PlacesAre DEF Listed
<1>2. /\ q \in Seq(Nat \X Nat) /\ Len(q) = Len(places) + 1 /\ Len(places) \in Nat
      /\ \A i \in 1 .. Len(q) : q[i] = IF i = Len(places) + 1 THEN p ELSE places[i]
  BY <1>1
<1> HIDE DEF q
<1>3. \A i \in 1 .. Len(q) : i = Len(places) + 1 \/ i \in 1 .. Len(places)
  BY <1>2
<1>4. \A i \in 1 .. Len(q) : q[i] \in Places(groups)
  BY <1>2, <1>3 DEF Listed
<1>5. ASSUME NEW i \in 1 .. Len(q), NEW j \in 1 .. Len(q), i < j PROVE Before(q[i], q[j])
  <2>1. i \in 1 .. Len(places) /\ q[i] = places[i]
    <3>1. i \in 1 .. Len(places) /\ i # Len(places) + 1
      <4>1. i \in Int /\ j \in Int /\ i >= 1 /\ j <= Len(places) + 1 /\ Len(places) \in Nat
        BY <1>2
      <4>2. i <= Len(places)
        BY <1>5, <4>1
      <4> QED
        BY <4>1, <4>2
    <3> QED
      BY <1>2, <3>1
  <2>2. CASE j = Len(places) + 1
    BY <1>2, <2>1, <2>2
  <2>3. CASE j \in 1 .. Len(places)
    <3>1. q[j] = places[j]
      BY <1>2, <2>3
    <3> QED
      BY <1>5, <2>1, <2>3, <3>1 DEF Listed
  <2> QED
    BY <1>3, <2>2, <2>3
<1>6. HooksAt(groups, q) = HooksAt(groups, places) \cup {HookAt(groups, p)}
  <2>1. 1 .. Len(q) = (1 .. Len(places)) \cup {Len(places) + 1} /\ q[Len(places) + 1] = p
        /\ \A i \in 1 .. Len(places) : q[i] = places[i]
    BY <1>2
  <2> QED
    BY <2>1 DEF HooksAt
<1>7. \A i \in 1 .. Len(q) : q[i] = p \/ \E j \in 1 .. Len(places) : q[i] = places[j]
  BY <1>2, <1>3
<1> QED
  BY <1>2, <1>4, <1>5, <1>6, <1>7 DEF Listed, q

\* What HookRuns does to the event and to the count of once hooks.
Starts(a, f, b, g) ==
  LET m == First(a.todo)
  IN  /\ b.event = a.event /\ b.todo = a.todo \ {m}
      /\ b.once = IF m.hook.once THEN Append(a.once, m.place) ELSE a.once
      /\ g = IF m.hook.once THEN [f EXCEPT ![m.hook] = @ + 1] ELSE f

\* The next hook is started: it was not started before, and no other event has it.
LEMMA BooksRun ==
  ASSUME NEW s \in Settings, NEW c, NEW a, NEW f \in [OnceHooksOf -> Nat],
         a.event \in Events, a.todo # {}, Books(s, c, a, f), \A h \in OnceHooksOf : f[h] <= 1,
         NEW b, NEW g, Starts(a, f, b, g)
  PROVE  /\ g \in [OnceHooksOf -> Nat] /\ \A h \in OnceHooksOf : g[h] <= 1
         /\ Books(s, c, b, g)
<1> SUFFICES ASSUME NEW m, m = First(a.todo), b.event = a.event, b.todo = a.todo \ {m},
                    b.once = IF m.hook.once THEN Append(a.once, m.place) ELSE a.once,
                    g = IF m.hook.once THEN [f EXCEPT ![m.hook] = @ + 1] ELSE f
             PROVE  /\ g \in [OnceHooksOf -> Nat] /\ \A h \in OnceHooksOf : g[h] <= 1
                    /\ Books(s, c, b, g)
  BY DEF Starts
<1> DEFINE e == a.event
           groups == c[a.event]
           pending == HooksAt(groups, a.once)
<1>1. /\ groups \in Seq(HookMatcher) /\ Asks(a, groups) /\ pending \subseteq StartedOf(f)
      /\ Spared(groups, s[e], StartedOf(f) \ pending)
  <2>1. a.event # None
    BY EventsAreNamed
  <2>2. Spared(groups, s[e], StartedOf(f) \ pending)
    BY DEF Books, Pending
  <2> QED
    BY <2>1, <2>2 DEF Books, Spared
<1>2. m \in a.todo /\ \A o \in a.todo \ {m} : Before(m.place, o.place)
  <2>1. \A o \in a.todo : o.place \in Nat \X Nat
    BY <1>1, PlacesAre DEF Asks, Placed
  <2>2. \A o, n \in a.todo : o.place = n.place => o = n
    BY <1>1 DEF Asks, Placed
  <2> QED
    BY <2>1, <2>2, FirstIsThere
<1> DEFINE p == m.place
           hook == m.hook
<1>3. p \in Places(groups) /\ hook = HookAt(groups, p)
      /\ Listed(groups, a.once) /\ \A i \in 1 .. Len(a.once) : Before(a.once[i], p)
  BY <1>1, <1>2 DEF Asks, Placed
<1>4. hook \in Hooks /\ hook \notin StartedOf(f) \ pending
      /\ p[1] \in 1 .. Len(s[e]) /\ hook \in ToSet(s[e][p[1]].hooks)
  <2> HIDE DEF groups, pending, e, p, hook
  <2>1. e \in Events
    BY DEF e
  <2>2. /\ p[1] \in 1 .. Len(s[e]) /\ HookAt(groups, p) \in ToSet(s[e][p[1]].hooks)
        /\ HookAt(groups, p) \in Hooks /\ HookAt(groups, p) \notin StartedOf(f) \ pending
    BY <1>1, <1>3, <2>1, SparedHook
  <2> QED
    BY <1>3, <2>2
<1>5. hook \notin pending
  <2> SUFFICES ASSUME NEW i \in 1 .. Len(a.once), hook = HookAt(groups, a.once[i]) PROVE FALSE
    BY DEF HooksAt
  <2>1. a.once[i] \in Places(groups)
    BY <1>3 DEF Listed
  <2>2. a.once[i] = p
    BY <1>1, <1>3, <2>1, SparedApart
  <2>3. Before(p, p) /\ p \in Nat \X Nat
    BY <1>1, <1>3, <2>2, PlacesAre
  <2> QED
    BY <2>3 DEF Before
<1>6. hook \notin StartedOf(f)
  BY <1>4, <1>5
<1>7. CASE ~ hook.once
  <2>1. g = f /\ b.once = a.once
    BY <1>7
  <2>2. Asks(b, groups)
    BY <1>1, <2>1 DEF Asks, Placed
  <2>3. \A d \in Events : Pending(c, b, d) = Pending(c, a, d)
    BY <2>1 DEF Pending
  <2> QED
    BY <1>1, <2>1, <2>2, <2>3 DEF Books
<1>8. CASE hook.once
  <2>1. hook \in OnceHooksOf /\ f[hook] = 0
    BY <1>4, <1>6, <1>8 DEF OnceHooksOf, StartedOf
  <2>2. g = [f EXCEPT ![hook] = 1] /\ b.once = Append(a.once, p)
    BY <1>8, <2>1
  <2>3. g \in [OnceHooksOf -> Nat] /\ \A h \in OnceHooksOf : g[h] = IF h = hook THEN 1 ELSE f[h]
    BY <2>1, <2>2
  <2>4. StartedOf(g) = StartedOf(f) \cup {hook}
    BY <2>1, <2>3 DEF StartedOf
  <2>5. /\ Listed(groups, b.once) /\ HooksAt(groups, b.once) = pending \cup {hook}
        /\ \A i \in 1 .. Len(b.once) :
             b.once[i] = p \/ \E j \in 1 .. Len(a.once) : b.once[i] = a.once[j]
    BY <1>1, <1>3, <2>2, ListedAppend
  <2> HIDE DEF pending, groups, p, hook
  <2>6. Asks(b, groups)
    <3>1. \A i \in 1 .. Len(b.once) : \A o \in b.todo : Before(b.once[i], o.place)
      <4> SUFFICES ASSUME NEW i \in 1 .. Len(b.once), NEW o \in b.todo
                   PROVE  Before(b.once[i], o.place)
        OBVIOUS
      <4>1. o \in a.todo \ {m}
        OBVIOUS
      <4>2. Before(p, o.place)
        BY <1>2, <4>1 DEF p
      <4>3. \A j \in 1 .. Len(a.once) : Before(a.once[j], o.place)
        BY <1>1, <4>1 DEF Asks
      <4> QED
        BY <2>5, <4>2, <4>3
    <3> QED
      BY <1>1, <2>5, <3>1 DEF Asks, Placed
  <2>7. ASSUME NEW d \in Events PROVE Spared(c[d], s[d], StartedOf(g) \ Pending(c, b, d))
    <3>1. CASE d = e
      <4>1. Pending(c, b, d) = pending \cup {hook}
        BY <2>5, <3>1 DEF Pending, groups
      <4>2. StartedOf(g) \ Pending(c, b, d) = StartedOf(f) \ pending
        BY <1>6, <2>4, <4>1
      <4> QED
        BY <1>1, <3>1, <4>2 DEF groups
    <3>2. CASE d # e
      <4>1. Pending(c, b, d) = {} /\ Pending(c, a, d) = {}
        BY <3>2 DEF Pending
      <4>2. Spared(c[d], s[d], StartedOf(f))
        <5>1. StartedOf(f) \ Pending(c, a, d) = StartedOf(f)
          BY <4>1
        <5> QED
          BY <5>1 DEF Books
      <4>3. ASSUME NEW i \in 1 .. Len(s[d])
            PROVE  ToSet(s[d][i].hooks) \ StartedOf(f) = ToSet(s[d][i].hooks) \ StartedOf(g)
        <5>1. hook \notin ToSet(s[d][i].hooks)
          BY <1>4, <3>2, HooksApart
        <5> QED
          BY <2>4, <5>1
      <4>4. Spared(c[d], s[d], StartedOf(g))
        BY <4>2, <4>3, SparedSame
      <4>5. StartedOf(g) \ Pending(c, b, d) = StartedOf(g)
        BY <4>1
      <4> QED
        BY <4>4, <4>5
    <3> QED
      BY <3>1, <3>2
  <2>8. HooksAt(groups, b.once) \subseteq StartedOf(g)
    BY <1>1, <2>4, <2>5
  <2>9. c[b.event] = groups
    BY DEF groups
  <2>10. \A h \in OnceHooksOf : g[h] <= 1
    BY <2>3
  <2> QED
    BY <2>3, <2>6, <2>7, <2>8, <2>9, <2>10 DEF Books
<1> QED
  BY <1>7, <1>8

-----------------------------------------------------------------------------
(* The invariant of the runner, and the actions.                           *)

Prompt ==
  /\ settings \in Settings /\ config \in [Events -> Seq(HookMatcher)]
  /\ pc \in {"idle", "submit", "turn", "gate", "exec", "post", "stop"}
  /\ prompts \in 0 .. MaxPrompts /\ turn \in 0 .. MaxTurns
  /\ Len(calls) <= MaxCalls
  /\ pc \in {"gate", "post"} => at \in 1 .. Len(calls)
  /\ pc = "exec" => \E i \in 1 .. Len(calls) : calls[i].verdict = "allowed"
  /\ pc # "idle" => prompts > 0

Event ==
  /\ asked.event \in Events \cup {None}
  /\ asked.decision \in {"", "approve", "block"} /\ asked.errors \in BOOLEAN
  /\ asked.event = None => asked.todo = {} /\ asked.once = << >>
  /\ pc \in {"idle", "turn", "exec"} => asked.event = None

Kept ==
  /\ fired \in [OnceHooksOf -> Nat] /\ \A h \in OnceHooksOf : fired[h] <= 1
  /\ prompts > 0 => Books(settings, config, asked, fired)

RunnerInv == Prompt /\ Event /\ Kept

LEMMA AskIsFresh ==
  ASSUME NEW cfg, NEW e \in Events, NEW tool, NEW input
  PROVE  Fresh(Ask(cfg, e, tool, input), cfg) /\ Ask(cfg, e, tool, input).event = e
<1>1. PICK hooks : hooks = IF input \in Malformed THEN {}
                           ELSE getMatchingHooks(cfg[e], e, tool, input)
  OBVIOUS
<1>2. Placed(hooks, cfg[e])
  BY <1>1 DEF getMatchingHooks, Placed
<1>3. Ask(cfg, e, tool, input) = Asked(e, hooks)
  BY <1>1, AskIs
<1>4. e # None
  BY EventsAreNamed
<1> DEFINE a == Asked(e, hooks)
<1>5. /\ a.event = e /\ a.todo = hooks /\ a.once = << >> /\ a.decision = ""
      /\ a.errors \in BOOLEAN
  BY DEF Asked
<1> HIDE DEF a
<1>6. Fresh(a, cfg)
  BY <1>2, <1>4, <1>5 DEF Fresh
<1>7. Ask(cfg, e, tool, input) = a
  BY <1>3 DEF a
<1> QED
  BY <1>5, <1>6, <1>7

LEMMA NoneIsFresh ==
  ASSUME NEW cfg
  PROVE  Fresh(NotAsked, cfg) /\ NotAsked.event = None
  BY DEF NotAsked, Fresh

LEMMA RunnerInit == Init => RunnerInv
<1> SUFFICES ASSUME Init PROVE RunnerInv
  OBVIOUS
<1>1. Len(calls) = 0 /\ << >> \in Seq(HookMatcher)
  BY DEF Init
<1>2. Prompt
  BY <1>1, BoundsAssumption DEF Init, Prompt
<1>3. Event
  <2>1. asked = NotAsked
    BY DEF Init
  <2>2. Fresh(asked, config) /\ asked.event = None
    BY <2>1, NoneIsFresh
  <2> QED
    BY <2>2 DEF Event, Fresh
<1>4. Kept
  BY DEF Init, Kept
<1> QED
  BY <1>2, <1>3, <1>4 DEF RunnerInv

\* run returns to the loop, which goes on without an event or with a new one.
LEMMA LeavingKeeps ==
  ASSUME RunnerInv, prompts > 0, config' = Left, UNCHANGED <<settings, prompts, fired>>,
         Fresh(asked', config')
  PROVE  config' \in [Events -> Seq(HookMatcher)] /\ Kept'
<1>1. /\ settings \in Settings /\ config \in [Events -> Seq(HookMatcher)]
      /\ asked.event \in Events \cup {None} /\ Books(settings, config, asked, fired)
  BY DEF RunnerInv, Prompt, Event, Kept
<1>2. config' = IF asked.event = None THEN config
                ELSE [config EXCEPT ![asked.event] = removeOnceHooks(@, asked.once)]
  BY DEF Left
<1>3. PICK l, b : l = config' /\ b = asked'
  OBVIOUS
<1>4. Fresh(b, l)
  BY <1>3
<1>5. l \in [Events -> Seq(HookMatcher)] /\ Books(settings, l, b, fired)
  <2>1. l = IF asked.event = None THEN config
            ELSE [config EXCEPT ![asked.event] = removeOnceHooks(@, asked.once)]
    BY <1>2, <1>3
  <2> QED
    BY <1>1, <1>4, <2>1, BooksLeave
<1> QED
  BY <1>3, <1>5 DEF RunnerInv, Kept

\* The loop stays away from hooks when it asked for none.
LEMMA NoEventLeaves ==
  ASSUME RunnerInv, pc \in {"idle", "turn", "exec"}
  PROVE  Left = config
  BY DEF RunnerInv, Event, Left

LEMMA FreshIsEvent ==
  ASSUME Fresh(asked', config'),
         pc' \in {"idle", "turn", "exec"} => asked'.event = None
  PROVE  Event'
  BY DEF Fresh, Event

LEMMA SubmitRuns == ASSUME RunnerInv, Submit PROVE RunnerInv'
<1>1. /\ settings \in Settings /\ config' = settings /\ settings' = settings
      /\ settings \in [Events -> Seq(HookMatcher)]
  BY SettingsAssumption DEF RunnerInv, Prompt, Submit
<1>2. asked' = Ask(settings, "UserPromptSubmit", None, None)
  BY DEF Submit
<1>3. Fresh(asked', settings) /\ asked'.event # None
  <2>1. "UserPromptSubmit" \in Events
    BY DEF Events
  <2>2. PICK e \in Events : e = "UserPromptSubmit"
    BY <2>1
  <2>3. asked' = Ask(settings, e, None, None)
    BY <1>2, <2>2
  <2>4. Fresh(asked', settings) /\ asked'.event = e
    BY <2>3, AskIsFresh
  <2> QED
    BY <2>4, EventsAreNamed
<1>4. Prompt'
  <2>1. Len(calls') = 0
    BY DEF Submit
  <2> QED
    BY <1>1, <2>1, BoundsAssumption DEF RunnerInv, Prompt, Submit
<1>5. Event'
  BY <1>1, <1>3, FreshIsEvent DEF Submit
<1>6. Kept'
  <2>1. fired' = [h \in OnceHooksOf |-> 0]
    BY DEF Submit
  <2>2. PICK f : f = fired'
    OBVIOUS
  <2>3. PICK b : b = asked'
    OBVIOUS
  <2>4. StartedOf(f) = {}
    BY <2>1, <2>2 DEF StartedOf
  <2>5. ASSUME NEW e \in Events
        PROVE  Spared(settings[e], settings[e], StartedOf(f) \ Pending(settings, b, e))
    <3>1. settings[e] \in Seq(HookMatcher)
      BY <1>1
    <3>2. \A g \in 1 .. Len(settings[e]) :
            Without(settings[e][g].hooks, settings[e][g].hooks, {})
      BY <3>1, HooksOf, WithoutNothing
    <3>3. StartedOf(f) \ Pending(settings, b, e) = {}
      BY <2>4
    <3> QED
      BY <3>1, <3>2, <3>3 DEF Spared
  <2>6. b.event # None => Asks(b, settings[b.event])
    BY <1>3, <2>3, FreshAsks
  <2>7. HooksAt(settings[b.event], b.once) = {}
    BY <1>3, <2>3, NothingPending DEF Fresh
  <2>8. Books(settings, settings, b, f)
    BY <2>5, <2>6, <2>7 DEF Books
  <2>9. f \in [OnceHooksOf -> Nat] /\ \A h \in OnceHooksOf : f[h] <= 1
    BY <2>1, <2>2
  <2> QED
    BY <1>1, <2>2, <2>3, <2>8, <2>9 DEF Kept
<1> QED
  BY <1>4, <1>5, <1>6 DEF RunnerInv

\* Back to the loop without a new event.
LEMMA ReturnRuns ==
  ASSUME RunnerInv, Submitted \/ Stopped
  PROVE  RunnerInv'
<1>1. /\ config' = Left /\ asked' = NotAsked /\ pc \notin {"idle"}
      /\ pc' \in {"idle", "turn"} /\ UNCHANGED <<settings, prompts, turn, calls, at, fired>>
  BY DEF Submitted, Stopped
<1>2. prompts > 0
  BY <1>1 DEF RunnerInv, Prompt
<1>3. Fresh(asked', config') /\ asked'.event = None
  BY <1>1, NoneIsFresh
<1>4. config' \in [Events -> Seq(HookMatcher)] /\ Kept'
  BY <1>1, <1>2, <1>3, LeavingKeeps
<1>5. Prompt'
  BY <1>1, <1>2, <1>4 DEF RunnerInv, Prompt
<1>6. Event'
  BY <1>3, FreshIsEvent
<1> QED
  BY <1>4, <1>5, <1>6 DEF RunnerInv

LEMMA GiveUpRuns == ASSUME RunnerInv, GiveUp PROVE RunnerInv'
<1>1. Len(calls') = 0
  BY DEF GiveUp
<1>2. Prompt'
  BY <1>1, BoundsAssumption DEF RunnerInv, Prompt, GiveUp
<1>3. Event' /\ Kept'
  BY DEF RunnerInv, Event, Kept, GiveUp
<1> QED
  BY <1>2, <1>3 DEF RunnerInv

LEMMA AnswerRuns == ASSUME GateInv', RunnerInv, Answer PROVE RunnerInv'
<1>1. PICK n \in 0 .. MaxCalls : \E tool \in [1 .. n -> Tools], input \in [1 .. n -> Inputs] :
        /\ DOMAIN calls' = 1 .. n
        /\ IF n = 0
           THEN pc' = "stop" /\ asked' = Ask(config, "Stop", None, None)
           ELSE pc' = "gate" /\ asked' = Ask(config, "PreToolUse", tool[1], input[1])
  BY DEF Answer
<1>2. /\ pc = "turn" /\ turn < MaxTurns /\ turn' = turn + 1 /\ at' = 1
      /\ UNCHANGED <<settings, config, prompts, fired>>
  BY DEF Answer
<1>3. Len(calls') = n /\ n \in Nat
  <2>1. calls' \in Seq(Call) /\ n \in Nat
    BY BoundsAssumption DEF GateInv, Calls
  <2> QED
    BY <1>1, <2>1
<1>4. PICK e \in Events : \E t, x : asked' = Ask(config, e, t, x)
  <2>1. "Stop" \in Events /\ "PreToolUse" \in Events
    BY DEF Events
  <2> QED
    BY <1>1, <2>1
<1>5. Fresh(asked', config') /\ prompts > 0 /\ config' = Left
  <2>1. Fresh(asked', config)
    BY <1>4, AskIsFresh
  <2> QED
    BY <1>2, <2>1, NoEventLeaves DEF RunnerInv, Prompt
<1>6. config' \in [Events -> Seq(HookMatcher)] /\ Kept'
  BY <1>2, <1>5, LeavingKeeps
<1>7. pc' \in {"stop", "gate"} /\ (pc' = "gate" => n # 0)
  BY <1>1
<1>8. Prompt'
  BY <1>2, <1>3, <1>5, <1>6, <1>7, BoundsAssumption DEF RunnerInv, Prompt
<1>9. Event'
  BY <1>5, <1>7, FreshIsEvent
<1> QED
  BY <1>6, <1>8, <1>9 DEF RunnerInv

LEMMA GateRuns == ASSUME GateInv, RunnerInv, Gate PROVE RunnerInv'
<1>1. /\ pc = "gate" /\ config' = Left /\ calls' = [calls EXCEPT ![at] = Gated(calls[at])]
      /\ UNCHANGED <<settings, prompts, turn, fired>>
  BY DEF Gate
<1>2. calls \in Seq(Call) /\ at \in 1 .. Len(calls) /\ prompts > 0
  BY <1>1 DEF GateInv, Calls, RunnerInv, Prompt
<1>3. Len(calls') = Len(calls) /\ Len(calls) \in Nat
  BY <1>1, <1>2
<1>4. CASE at < Len(calls)
  <2>1. /\ at' = at + 1 /\ pc' = "gate"
        /\ asked' = Ask(Left, "PreToolUse", calls[at + 1].tool, calls[at + 1].input)
    BY <1>1, <1>4 DEF Gate
  <2>2. PICK e \in Events : e = "PreToolUse"
    BY DEF Events
  <2>3. asked' = Ask(config', e, calls[at + 1].tool, calls[at + 1].input)
    BY <1>1, <2>1, <2>2
  <2>4. Fresh(asked', config')
    BY <2>3, AskIsFresh
  <2>5. config' \in [Events -> Seq(HookMatcher)] /\ Kept'
    BY <1>1, <1>2, <2>4, LeavingKeeps
  <2>6. at' \in 1 .. Len(calls')
    BY <1>2, <1>3, <1>4, <2>1
  <2>7. Prompt'
    BY <1>1, <1>2, <1>3, <2>1, <2>5, <2>6 DEF RunnerInv, Prompt
  <2>8. Event'
    BY <2>1, <2>4, FreshIsEvent
  <2> QED
    BY <2>5, <2>7, <2>8 DEF RunnerInv
<1>5. CASE ~(at < Len(calls))
  <2>1. /\ asked' = NotAsked
        /\ pc' = IF \E i \in 1 .. Len(calls) : calls'[i].verdict = "allowed"
                 THEN "exec" ELSE "turn"
    BY <1>5 DEF Gate
  <2>2. Fresh(asked', config') /\ asked'.event = None
    BY <2>1, NoneIsFresh
  <2>3. config' \in [Events -> Seq(HookMatcher)] /\ Kept'
    BY <1>1, <1>2, <2>2, LeavingKeeps
  <2>4. Prompt'
    BY <1>1, <1>2, <1>3, <2>1, <2>3 DEF RunnerInv, Prompt
  <2>5. Event'
    BY <2>2, FreshIsEvent
  <2> QED
    BY <2>3, <2>4, <2>5 DEF RunnerInv
<1> QED
  BY <1>4, <1>5

\* The next result there is, is one of the calls.
LEMMA NextResultIs ==
  ASSUME calls \in Seq(Call), NEW i \in Nat \ {0},
         NextResult(i) # 0 \/ \E j \in i .. Len(calls) : calls[j].verdict = "allowed"
  PROVE  NextResult(i) \in 1 .. Len(calls)
<1> DEFINE left == {j \in i .. Len(calls) : calls[j].verdict = "allowed"}
<1>1. left # {}
  BY DEF NextResult
<1>2. left \in SUBSET Nat /\ left \subseteq 1 .. Len(calls)
  OBVIOUS
<1>3. NextResult(i) = CHOOSE j \in left : \A other \in left : j <= other
  BY <1>1 DEF NextResult
<1> HIDE DEF left
<1>4. \E j \in left : \A other \in left : j <= other
  BY <1>1, <1>2, LeastIsThere
<1>5. NextResult(i) \in left
  BY <1>3, <1>4
<1> QED
  BY <1>2, <1>5

LEMMA ExecuteRuns == ASSUME GateInv, GateInv', RunnerInv, Execute PROVE RunnerInv'
<1>1. /\ pc = "exec" /\ pc' = "post" /\ at' = NextResult(1)
      /\ UNCHANGED <<settings, config, prompts, turn, fired>>
  BY DEF Execute
<1>2. calls \in Seq(Call) /\ calls' \in Seq(Call) /\ prompts > 0
  BY <1>1 DEF GateInv, Calls, RunnerInv, Prompt
<1>3. Len(calls') = Len(calls)
  <2>1. DOMAIN calls' = 1 .. Len(calls)
    BY DEF Execute
  <2> QED
    BY <1>2, <2>1
<1>4. at' \in 1 .. Len(calls')
  <2>1. \E i \in 1 .. Len(calls) : calls[i].verdict = "allowed"
    BY <1>1 DEF RunnerInv, Prompt
  <2>2. NextResult(1) \in 1 .. Len(calls)
    BY <1>2, <2>1, NextResultIs
  <2> QED
    BY <1>1, <1>3, <2>2
<1>5. PICK e \in Events : \E t : asked' = Ask(config, e, t, None)
  <2>1. PostEvent(calls'[at']) \in Events
    BY DEF PostEvent, Events
  <2> QED
    BY <2>1 DEF Execute
<1>6. Fresh(asked', config') /\ config' = Left
  <2>1. Fresh(asked', config)
    BY <1>5, AskIsFresh
  <2> QED
    BY <1>1, <2>1, NoEventLeaves
<1>7. config' \in [Events -> Seq(HookMatcher)] /\ Kept'
  BY <1>1, <1>2, <1>6, LeavingKeeps
<1>8. Prompt'
  BY <1>1, <1>2, <1>3, <1>4, <1>7 DEF RunnerInv, Prompt
<1>9. Event'
  BY <1>1, <1>6, FreshIsEvent
<1> QED
  BY <1>7, <1>8, <1>9 DEF RunnerInv

LEMMA PostedRuns == ASSUME GateInv, RunnerInv, Posted PROVE RunnerInv'
<1> DEFINE i == NextResult(at + 1)
<1>1. /\ pc = "post" /\ config' = Left /\ UNCHANGED <<settings, prompts, turn, calls, fired>>
  BY DEF Posted
<1>2. calls \in Seq(Call) /\ at \in 1 .. Len(calls) /\ prompts > 0
  BY <1>1 DEF GateInv, Calls, RunnerInv, Prompt
<1>3. CASE i # 0
  <2>1. /\ at' = i /\ pc' = "post"
        /\ asked' = Ask(Left, PostEvent(calls[i]), calls[i].tool, None)
    BY <1>1, <1>3 DEF Posted
  <2>2. i \in 1 .. Len(calls)
    <3>1. at + 1 \in Nat \ {0}
      BY <1>2
    <3> QED
      BY <1>2, <1>3, <3>1, NextResultIs
  <2> HIDE DEF i
  <2>3. PICK e \in Events : e = PostEvent(calls[i])
    BY DEF PostEvent, Events
  <2>4. asked' = Ask(config', e, calls[i].tool, None)
    BY <1>1, <2>1, <2>3
  <2>5. Fresh(asked', config')
    BY <2>4, AskIsFresh
  <2>6. config' \in [Events -> Seq(HookMatcher)] /\ Kept'
    BY <1>1, <1>2, <2>5, LeavingKeeps
  <2>7. Prompt'
    BY <1>1, <1>2, <2>1, <2>2, <2>6 DEF RunnerInv, Prompt
  <2>8. Event'
    BY <2>1, <2>5, FreshIsEvent
  <2> QED
    BY <2>6, <2>7, <2>8 DEF RunnerInv
<1>4. CASE i = 0
  <2>1. asked' = NotAsked /\ pc' = "turn"
    BY <1>4 DEF Posted
  <2>2. Fresh(asked', config') /\ asked'.event = None
    BY <2>1, NoneIsFresh
  <2>3. config' \in [Events -> Seq(HookMatcher)] /\ Kept'
    BY <1>1, <1>2, <2>2, LeavingKeeps
  <2>4. Prompt'
    BY <1>1, <1>2, <2>1, <2>3 DEF RunnerInv, Prompt
  <2>5. Event'
    BY <2>2, FreshIsEvent
  <2> QED
    BY <2>3, <2>4, <2>5 DEF RunnerInv
<1> QED
  BY <1>3, <1>4

\* What a hook that is waited for says is merged into what the event collects.
Tells(a, b) ==
  /\ b.event = a.event /\ b.todo = a.todo /\ b.once = a.once
  /\ b.decision \in {"", "approve", "block"} /\ b.errors \in BOOLEAN

LEMMA TellKeeps ==
  ASSUME NEW a, Result(a), a.decision \in {"", "approve", "block"}, a.errors \in BOOLEAN,
         NEW r \in HookResults
  PROVE  Tells(a, Told(a, MergedDecision(a.decision, r.decision), a.errors \/ r.error,
                       IF r.updated = None THEN a.updated ELSE r.updated))
<1>1. PICK d : d = MergedDecision(a.decision, r.decision)
  OBVIOUS
<1>2. PICK e \in BOOLEAN : e = (a.errors \/ r.error)
  OBVIOUS
<1>3. PICK u : u = IF r.updated = None THEN a.updated ELSE r.updated
  OBVIOUS
<1>4. d \in {"", "approve", "block"}
  BY <1>1 DEF MergedDecision
<1> DEFINE b == [event |-> a.event, todo |-> a.todo, once |-> a.once,
                 decision |-> d, errors |-> e, updated |-> u]
<1>5. Told(a, d, e, u) = b
  BY MergedResultOf
<1>6. Tells(a, b)
  BY <1>4 DEF Tells
<1> QED
  BY <1>1, <1>2, <1>3, <1>5, <1>6

\* The next hook of an event: started, and perhaps waited for.
LEMMA HookRunsRuns == ASSUME GateInv, RunnerInv, HookRuns PROVE RunnerInv'
<1> DEFINE match == First(asked.todo)
           once == IF match.hook.once THEN Append(asked.once, match.place) ELSE asked.once
           next == Moved(asked, asked.todo \ {match}, once)
           Going(b) == /\ b.event = asked.event /\ b.todo = asked.todo \ {match}
                       /\ b.once = once /\ b.decision \in {"", "approve", "block"}
                       /\ b.errors \in BOOLEAN
<1>1. /\ asked.event \in Events /\ asked.todo # {} /\ pc \notin {"idle", "turn", "exec"}
      /\ asked.decision \in {"", "approve", "block"} /\ asked.errors \in BOOLEAN
      /\ Result(asked) /\ calls \in Seq(Call)
  BY DEF HookRuns, Finished, RunnerInv, Event, GateInv, Merged, Calls
<1>2. /\ settings \in Settings /\ fired \in [OnceHooksOf -> Nat]
      /\ \A h \in OnceHooksOf : fired[h] <= 1
      /\ prompts > 0 /\ Books(settings, config, asked, fired)
  BY <1>1 DEF RunnerInv, Prompt, Kept
<1>3. Going(next) /\ Result(next)
  <2>1. PICK o, n : o = once /\ n = asked.todo \ {match}
    OBVIOUS
  <2>2. next = Moved(asked, n, o)
    BY <2>1
  <2> HIDE DEF next, once
  <2>3. next = [event |-> asked.event, todo |-> n, once |-> o, decision |-> asked.decision,
                errors |-> asked.errors, updated |-> asked.updated]
    BY <1>1, <2>2, NextResultOf
  <2>4. Result(next)
    BY <2>3 DEF Result
  <2>5. /\ next.event = asked.event /\ next.todo = n /\ next.once = o
        /\ next.decision = asked.decision /\ next.errors = asked.errors
    BY <2>3
  <2> QED
    BY <1>1, <2>1, <2>4, <2>5
<1>4. /\ UNCHANGED <<settings, config, pc, prompts, turn, at>>
      /\ fired' = IF match.hook.once THEN [fired EXCEPT ![match.hook] = @ + 1] ELSE fired
  BY DEF HookRuns
<1>5. Going(asked') /\ Len(calls') = Len(calls)
  <2>1. CASE asked' = next /\ UNCHANGED calls
    <3> HIDE DEF next
    <3>1. PICK b : b = next
      OBVIOUS
    <3> QED
      BY <1>3, <2>1
  <2>2. ASSUME NEW r \in HookResults,
               asked' = Told(next, MergedDecision(next.decision, r.decision),
                             next.errors \/ r.error,
                             IF r.updated = None THEN next.updated ELSE r.updated),
               Heard(r)
        PROVE  Going(asked') /\ Len(calls') = Len(calls)
    <3> HIDE DEF next, once, match
    <3>1. /\ next.decision \in {"", "approve", "block"} /\ next.errors \in BOOLEAN
          /\ next.event = asked.event /\ next.todo = asked.todo \ {match} /\ next.once = once
      BY <1>3
    <3>2. Tells(next, asked')
      BY <1>3, <2>2, <3>1, TellKeeps
    <3>3. Len(calls') = Len(calls)
      <4>1. CASE pc = "gate"
        <5> DEFINE c == [calls[at] EXCEPT !.refused = @ \/ r.decision = "block",
                                          !.wanted = IF r.updated = None THEN @ ELSE r.updated]
        <5>1. at \in 1 .. Len(calls)
          BY <4>1 DEF RunnerInv, Prompt
        <5>2. calls' = [calls EXCEPT ![at] = c]
          BY <1>1, <2>2, <4>1, <5>1 DEF Heard
        <5> HIDE DEF c
        <5>3. calls \in Seq(Call)
          BY <1>1
        <5> QED
          BY <5>1, <5>2, <5>3
      <4>2. CASE pc # "gate"
        BY <2>2, <4>2 DEF Heard
      <4> QED
        BY <4>1, <4>2
    <3> QED
      BY <3>1, <3>2, <3>3 DEF Tells
  <2> QED
    BY <2>1, <2>2 DEF HookRuns, Moved, Told
<1> HIDE DEF next
<1>6. PICK b, g : b = asked' /\ g = fired'
  OBVIOUS
<1>7. /\ g \in [OnceHooksOf -> Nat] /\ \A h \in OnceHooksOf : g[h] <= 1
      /\ Books(settings, config, b, g)
  <2>1. Starts(asked, fired, b, g)
    BY <1>4, <1>5, <1>6 DEF Starts
  <2> HIDE DEF match, once
  <2> QED
    BY <1>1, <1>2, <2>1, BooksRun
<1>8. Kept'
  BY <1>4, <1>6, <1>7 DEF Kept
<1>9. Prompt'
  <2> HIDE DEF match, once
  <2> QED
    BY <1>1, <1>4, <1>5 DEF RunnerInv, Prompt
<1>10. Event'
  <2> HIDE DEF match, once
  <2> QED
    BY <1>1, <1>4, <1>5, EventsAreNamed DEF Event
<1> QED
  BY <1>8, <1>9, <1>10 DEF RunnerInv

LEMMA RestRuns ==
  ASSUME RunnerInv, UNCHANGED vars
  PROVE  RunnerInv'
  BY DEF vars, RunnerInv, Prompt, Event, Kept

HookInv == GateInv /\ RunnerInv

LEMMA HookInit == Init => HookInv
  BY GateInit, RunnerInit DEF HookInv

LEMMA HookStep == HookInv /\ [Next]_vars => HookInv'
<1> SUFFICES ASSUME GateInv, RunnerInv, [Next]_vars PROVE GateInv' /\ RunnerInv'
  BY DEF HookInv
<1>1. GateInv'
  BY GateStep
<1>2. CASE HookRuns
  BY <1>1, <1>2, HookRunsRuns
<1>3. CASE Submit \/ Submitted \/ GiveUp \/ Stopped
  BY <1>1, <1>3, SubmitRuns, ReturnRuns, GiveUpRuns
<1>4. CASE Answer \/ Posted
  BY <1>1, <1>4, AnswerRuns, PostedRuns
<1>5. CASE Gate \/ Execute
  BY <1>1, <1>5, GateRuns, ExecuteRuns
<1>6. CASE Over \/ UNCHANGED vars
  BY <1>1, <1>6, RestRuns DEF Over
<1> QED
  BY <1>1, <1>2, <1>3, <1>4, <1>5, <1>6 DEF Next

-----------------------------------------------------------------------------
(* Theorems.                                                               *)

LEMMA HookIsTyped == HookInv => TypeOK
<1> SUFFICES ASSUME GateInv, RunnerInv PROVE TypeOK
  BY DEF HookInv
<1>1. /\ settings \in Settings /\ config \in [Events -> Seq(HookMatcher)]
      /\ pc \in {"idle", "submit", "turn", "gate", "exec", "post", "stop"}
      /\ prompts \in 0 .. MaxPrompts /\ turn \in 0 .. MaxTurns
      /\ Len(calls) <= MaxCalls /\ (pc \in {"gate", "post"} => at \in 1 .. Len(calls))
      /\ fired \in [OnceHooksOf -> Nat]
  BY DEF RunnerInv, Prompt, Kept
<1>2. /\ asked.event \in Events \cup {None}
      /\ asked.decision \in {"", "approve", "block"} /\ asked.errors \in BOOLEAN
  BY DEF RunnerInv, Event
<1>3. asked.updated \in Inputs \cup {None}
  BY DEF GateInv, Merged
<1>4. ASSUME NEW m \in asked.todo
      PROVE  /\ m.place \in Places(config[asked.event])
             /\ m.hook = HookAt(config[asked.event], m.place)
  <2>1. asked.event # None /\ prompts > 0
    BY DEF RunnerInv, Prompt, Event
  <2>2. Placed(asked.todo, config[asked.event])
    BY <2>1 DEF RunnerInv, Kept, Books, Asks
  <2> QED
    BY <2>2 DEF Placed
<1> QED
  BY <1>1, <1>2, <1>3, <1>4 DEF TypeOK

\* The configuration of a runner has the groups of the settings, what it asks
\* of an event are hooks of that event at their places, and the calls stay
\* within the answer, for any settings.
THEOREM HooksTypeCorrect == Spec => []TypeOK
  BY HookInit, HookStep, HookIsTyped, PTL DEF Spec

LEMMA HookIsOnce == HookInv => OnceHooks
<1> SUFFICES ASSUME RunnerInv PROVE OnceHooks
  BY DEF HookInv
<1>1. \A h \in OnceHooksOf : fired[h] <= 1
  BY DEF RunnerInv, Kept
<1>2. ASSUME prompts > 0, asked.once = << >>, NEW e \in Events
      PROVE  /\ Len(config[e]) = Len(settings[e])
             /\ \A g \in 1 .. Len(config[e]) :
                  /\ config[e][g].matcher = settings[e][g].matcher
                  /\ Without(config[e][g].hooks, settings[e][g].hooks, Started)
  <2>1. Pending(config, asked, e) = {}
    BY <1>2, NothingPending
  <2>2. Started = StartedOf(fired)
    BY DEF Started, StartedOf
  <2>3. StartedOf(fired) \ Pending(config, asked, e) = Started
    BY <2>1, <2>2
  <2>4. Spared(config[e], settings[e], Started)
    BY <1>2, <2>3 DEF RunnerInv, Kept, Books
  <2> QED
    BY <2>4 DEF Spared
<1> QED
  BY <1>1, <1>2 DEF OnceHooks

\* hook.go:11 for any settings: a runner starts a hook with once at most once,
\* and removeOnceHooks, which counts places while it takes hooks out, leaves of
\* every group exactly the other hooks, in their order.
THEOREM OnceMeansOnce == Spec => []OnceHooks
  BY HookInit, HookStep, HookIsOnce, PTL DEF Spec
=============================================================================
