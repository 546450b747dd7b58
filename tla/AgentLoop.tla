------------------------------ MODULE AgentLoop ------------------------------
(***************************************************************************)
(* One run of the agent loop (agent/loop.go): the goroutine that asks the  *)
(* model, streams its answer, gates and executes the tool calls in it and  *)
(* writes the conversation to the session store, together with the tools   *)
(* that run beside it, the caller that may cancel it at any moment and the *)
(* background goroutine that extracts memories after a compaction.         *)
(*                                                                         *)
(* A message keeps what the properties tell apart: its kind, the tool      *)
(* calls it makes or answers, and the model whose signed thinking blocks   *)
(* it carries.  Tool results appended one after the other are one message  *)
(* answering a set of calls.                                               *)
(***************************************************************************)
EXTENDS Naturals, Sequences, FiniteSets

CONSTANTS
  Tools,          \* names of tools
  Safe,           \* tools whose IsConcurrencySafe is true
  ReadOnly,       \* tools whose IsReadOnly is true
  NeedsApproval,  \* tools whose NeedsApproval is true
  Reminding,      \* tools for which SnippetsForTool returns a reminder
  Configs,        \* the agent.Config values a run may be started with
  MaxCalls,       \* bound: tool calls in one answer
  MaxMail         \* bound: notifications, and teammate messages, per run

ASSUME ToolsAssumption ==
  /\ Safe \subseteq Tools /\ ReadOnly \subseteq Tools
  /\ NeedsApproval \subseteq Tools /\ Reminding \subseteq Tools
  /\ Safe \cap {"EnterPlanMode", "ExitPlanMode"} = {}

ASSUME BoundsAssumption == MaxCalls \in Nat /\ MaxMail \in Nat

Modes == {"default", "accept-edits", "bypass", "strict"}

\* tools: Registry; mode, rules: PermissionMode and AllowRules; asks:
\* PermissionCallback # nil; turns: MaxTurns, 0 for no limit; backup: ModelBackup is set;
\* compacts: AutoCompactThreshold > 0; hooks: HookRunner # nil; memory:
\* MemoryDir is set; mail: which of TaskNotifier and TeamInbox are set.
Config == [tools : SUBSET Tools, mode : Modes, rules : SUBSET Tools, asks : BOOLEAN,
           turns : Nat, backup : BOOLEAN, compacts : BOOLEAN, hooks : BOOLEAN,
           memory : BOOLEAN, mail : SUBSET {"task", "inbox"}]

ASSUME ConfigsAssumption == Configs \subseteq Config

maxOutputTokensRecoveryLimit == 3
maxServerErrorRetries == 3
refreshEvery == 5   \* CoreRefreshSnippet: every fifth turn

VARIABLES
  cfg,        \* the configuration of this run
  pc,         \* where the loop goroutine is
  ctx,        \* the caller has cancelled the context
  st,         \* the counters and flags of agent.State
  model,      \* currentModel
  msgs,       \* state.Messages
  prev,       \* prevMsgCount
  blocks,     \* toolUseBlocks: the calls of the answer still to be executed
  reqs,       \* StreamChat calls made; it makes the ids of tool calls fresh
  running,    \* calls whose tool is executing now
  ran,        \* calls whose tool was started, in order
  store,      \* the rows of the session in the store
  lost,       \* an append to the store failed or was cut short
  events,     \* terminal events sent to the caller
  mail,       \* pending task notifications and teammate messages
  extracting, \* the memory extraction goroutine is running
  panicked    \* it sent on the closed event channel

vars == <<cfg, pc, ctx, st, model, msgs, prev, blocks, reqs, running, ran,
          store, lost, events, mail, extracting, panicked>>

Call == [req : Nat, k : Nat, tool : Tools]
RefusalKinds == {"denied", "interrupted"}
ResultKinds == RefusalKinds \cup {"result"}
Message == [kind : {"prompt", "text", "nudge", "summary", "assistant", "cut"} \cup ResultKinds,
            calls : SUBSET Call, by : {"none", "primary", "backup"}]
State == [turn : Nat, plan : BOOLEAN, fallback : BOOLEAN, compacted : BOOLEAN,
          retries : 0 .. maxServerErrorRetries,
          recoveries : 0 .. maxOutputTokensRecoveryLimit]

Plain(kind) == [kind |-> kind, calls |-> {}, by |-> "none"]
Text(n) == [i \in 1 .. n |-> Plain("text")]

\* The results of a set of calls, as zero or one message.
Results(kind, calls) ==
  IF calls = {} THEN << >> ELSE <<[kind |-> kind, calls |-> calls, by |-> "none"]>>

\* Mutant of StripThinking: the fallback keeps the history as it is.
StripNothing(s, keep) == s

\* StripThinkingBlocks(messages, keep): thinking signed by another model goes.
StripThinking(s, keep) ==
  [i \in 1 .. Len(s) |-> IF s[i].by = keep THEN s[i] ELSE [s[i] EXCEPT !.by = "none"]]

\* CheckPermission: "allow" or "ask"; no rule denies outright.
CheckPermission(t) ==
  IF \/ t \in cfg.rules
     \/ cfg.mode = "bypass"
     \/ cfg.mode = "accept-edits" /\ t # "Bash"
     \/ cfg.mode = "default" /\ t \notin NeedsApproval
  THEN "allow" ELSE "ask"

-----------------------------------------------------------------------------
(* Persistence: AppendMessages inserts the rows one by one, outside a      *)
(* transaction, under the loop's own context.                              *)

\* The proper beginnings of a list of rows, a batch of results cut anywhere.
Cuts(rows) ==
  UNION {{SubSeq(rows, 1, k - 1) \o Results(rows[k].kind, part) :
            part \in IF rows[k].kind \in ResultKinds
                     THEN SUBSET rows[k].calls \ {rows[k].calls} ELSE {{}}}
         : k \in 1 .. Len(rows)}

\* persistNewMessages for the messages list[prev+1 ..]: a cancelled context
\* fails the first query; a cancellation or a database error while the rows
\* go in leaves a beginning of them; the loop carries on either way.
Persist(list) ==
  LET rows == SubSeq(list, prev + 1, Len(list)) IN
  \/ /\ ~ctx \/ rows = << >>
     /\ store' = store \o rows
     /\ UNCHANGED <<ctx, lost>>
  \/ /\ ctx /\ rows # << >>
     /\ lost' = TRUE
     /\ UNCHANGED <<ctx, store>>
  \/ /\ ~ctx
     /\ \E part \in Cuts(rows) : store' = store \o part
     /\ lost' = TRUE
     /\ ctx' \in BOOLEAN

End(event) ==
  /\ pc' = "done"
  /\ events' = IF event = "none" THEN events ELSE Append(events, event)

-----------------------------------------------------------------------------
(* The top of the loop.                                                    *)

Init ==
  /\ cfg \in Configs
  /\ pc = "top" /\ ctx = FALSE
  /\ st = [turn |-> 0, plan |-> FALSE, fallback |-> FALSE, compacted |-> FALSE,
           retries |-> 0, recoveries |-> 0]
  /\ model = "primary"
  /\ msgs = <<Plain("prompt")>> /\ prev = 1
  /\ blocks = {} /\ reqs = 0 /\ running = {} /\ ran = << >>
  /\ store = << >> /\ lost = FALSE /\ events = << >>
  /\ mail = [task |-> 0, inbox |-> 0]
  /\ extracting = FALSE /\ panicked = FALSE

\* Messages after the non-blocking receives of steps 1.5 and 1.6.
AfterMail == msgs \o Text(Cardinality({c \in DOMAIN mail : mail[c] > 0}))

TakeMail ==
  mail' = [c \in DOMAIN mail |-> IF mail[c] > 0 THEN mail[c] - 1 ELSE 0]

\* 1: the context is checked before anything else.
TopCancelled ==
  /\ pc = "top" /\ ctx
  /\ End("error")
  /\ UNCHANGED <<cfg, ctx, st, model, msgs, prev, blocks, reqs, running, ran,
                 store, lost, mail, extracting, panicked>>

\* 2: the turn limit; the mail just taken is dropped with the run.
TopLimit ==
  /\ pc = "top" /\ ~ctx
  /\ cfg.turns > 0 /\ st.turn >= cfg.turns
  /\ msgs' = AfterMail /\ TakeMail
  /\ End("max_turns_reached")
  /\ UNCHANGED <<cfg, ctx, st, model, prev, blocks, reqs, running, ran, store,
                 lost, extracting, panicked>>

\* Steps 1.5 to 2.5: mail, turn count, what is new from here on, reminder.
TopTurn ==
  /\ pc = "top" /\ ~ctx
  /\ cfg.turns = 0 \/ st.turn < cfg.turns
  /\ LET turn == st.turn + 1 IN
     /\ st' = [st EXCEPT !.turn = turn]
     /\ msgs' = AfterMail \o Text(IF turn % refreshEvery = 0 THEN 1 ELSE 0)
  /\ prev' = Len(AfterMail)
  /\ TakeMail
  /\ pc' = IF cfg.compacts THEN "compact" ELSE "request"
  /\ UNCHANGED <<cfg, ctx, model, blocks, reqs, running, ran, store, lost, events,
                 extracting, panicked>>

Summary == <<Plain("summary"), Plain("summary")>>

\* Memories are extracted from a conversation of at least four messages.
Extracts == cfg.memory /\ Len(msgs) >= 4

\* Mutant of AutoCompact: prevMsgCount is not reset.
AutoCompactKeepsPrev ==
  /\ pc = "compact"
  /\ pc' = "request"
  /\ Len(msgs) >= 2 /\ msgs' = Summary
  /\ extracting' = (extracting \/ Extracts)
  /\ UNCHANGED <<cfg, ctx, st, model, prev, blocks, reqs, running, ran, store, lost,
                 events, mail, panicked>>

\* 4: automatic compaction, when the estimate is over the threshold and the
\* summary request succeeds; otherwise the loop goes on uncompacted.
AutoCompact ==
  /\ pc = "compact"
  /\ pc' = "request"
  /\ \/ /\ Len(msgs) >= 2
        /\ msgs' = Summary /\ prev' = 0
        /\ extracting' = (extracting \/ Extracts)
     \/ UNCHANGED <<msgs, prev, extracting>>
  /\ UNCHANGED <<cfg, ctx, st, model, blocks, reqs, running, ran, store, lost, events,
                 mail, panicked>>

\* The extraction goroutine reports on the run's event channel, which the
\* end of the run closes.
MemoryExtracted ==
  /\ extracting /\ ~panicked
  /\ extracting' = FALSE
  /\ panicked' \in {FALSE, pc = "done"}
  /\ UNCHANGED <<cfg, pc, ctx, st, model, msgs, prev, blocks, reqs, running, ran,
                 store, lost, events, mail>>

-----------------------------------------------------------------------------
(* The provider request and its failures.                                  *)

\* 5: StreamChat; the answer gets fresh call ids.
Request ==
  /\ pc = "request"
  /\ pc' = "stream"
  /\ reqs' = reqs + 1 /\ blocks' = {}
  /\ UNCHANGED <<cfg, ctx, st, model, msgs, prev, running, ran, store, lost, events,
                 mail, extracting, panicked>>

\* handleProviderError, from StreamChat or from an error event in the stream.
\* Tools started for this answer are not waited for.
Asking == pc \in {"request", "stream"}
ErrorFrame ==
  /\ blocks' = {}
  /\ UNCHANGED <<cfg, ctx, prev, reqs, running, ran, store, lost, mail, extracting, panicked>>

RateLimited ==
  /\ Asking
  /\ IF cfg.backup /\ ~st.fallback
     THEN /\ st' = [st EXCEPT !.fallback = TRUE]
          /\ model' = "backup"
          /\ msgs' = StripThinking(msgs, "backup")
          /\ pc' = "top" /\ UNCHANGED events
     ELSE End("error") /\ UNCHANGED <<st, model, msgs>>
  /\ ErrorFrame

PromptTooLong ==
  /\ Asking
  /\ st' = [st EXCEPT !.compacted = TRUE]
  /\ \/ /\ ~st.compacted /\ Len(msgs) >= 2
        /\ msgs' = Summary
        /\ pc' = "top" /\ UNCHANGED events
     \/ End("error") /\ UNCHANGED msgs
  /\ UNCHANGED model /\ ErrorFrame

\* Mutant of ServerError: the attempts are not limited.
ServerErrorUnlimited ==
  /\ Asking
  /\ st' = [st EXCEPT !.retries = @ + 1]
  /\ pc' = "backoff"
  /\ UNCHANGED <<model, msgs, events>> /\ ErrorFrame

ServerError ==
  /\ Asking
  /\ IF st.retries < maxServerErrorRetries
     THEN /\ st' = [st EXCEPT !.retries = @ + 1]
          /\ pc' = "backoff" /\ UNCHANGED events
     ELSE End("error") /\ UNCHANGED st
  /\ UNCHANGED <<model, msgs>> /\ ErrorFrame

\* Authentication, unknown errors, and the context error of a cancelled call.
FatalError ==
  /\ Asking
  /\ End("error")
  /\ UNCHANGED <<st, model, msgs>> /\ ErrorFrame

\* Mutant of Backoff: the request is repeated without a new turn.
BackoffSameTurn ==
  /\ pc = "backoff"
  /\ \/ pc' = "request" /\ UNCHANGED events
     \/ ctx /\ End("none")
  /\ UNCHANGED <<st, model, msgs>> /\ ErrorFrame

\* Mutant of Backoff: only a cancellation ends the wait.
BackoffNoTimer ==
  /\ pc = "backoff" /\ ctx
  /\ End("none")
  /\ UNCHANGED <<st, model, msgs>> /\ ErrorFrame

\* The select between the delay and ctx.Done: cancelled, the run returns at
\* once and sends nothing.
Backoff ==
  /\ pc = "backoff"
  /\ \/ pc' = "top" /\ UNCHANGED events
     \/ ctx /\ End("none")
  /\ UNCHANGED <<st, model, msgs>> /\ ErrorFrame

-----------------------------------------------------------------------------
(* 6: the streamed answer.                                                 *)

\* A tool_use event: a concurrency-safe tool starts at once.
StreamToolUse(t) ==
  /\ pc = "stream" /\ Cardinality(blocks) < MaxCalls
  /\ LET call == [req |-> reqs, k |-> Cardinality(blocks) + 1, tool |-> t] IN
     /\ blocks' = blocks \cup {call}
     /\ IF t \in Safe
        THEN running' = running \cup {call} /\ ran' = Append(ran, call)
        ELSE UNCHANGED <<running, ran>>
  /\ UNCHANGED <<cfg, pc, ctx, st, model, msgs, prev, reqs, store, lost, events, mail,
                 extracting, panicked>>

\* The tool of a call returns.
ToolReturns(call) ==
  /\ call \in running
  /\ running' = running \ {call}
  /\ UNCHANGED <<cfg, pc, ctx, st, model, msgs, prev, blocks, reqs, ran, store, lost,
                 events, mail, extracting, panicked>>

\* earlyWg.Wait at the end of the stream.
Joined == running \cap blocks = {}
AnswerFrame == UNCHANGED <<cfg, model, prev, reqs, running, ran, mail, extracting, panicked>>

\* The stream ends without message_complete (the OpenAI provider, at EOF):
\* nothing is sent unless the run was also cancelled with calls pending.
StreamEmpty ==
  /\ pc = "stream" /\ Joined
  /\ IF ctx /\ blocks # {}
     THEN /\ msgs' = msgs \o Results("interrupted", blocks)
          /\ Persist(msgs') /\ End("error")
     ELSE End("none") /\ UNCHANGED <<msgs, store, ctx, lost>>
  /\ blocks' = {} /\ UNCHANGED st /\ AnswerFrame

\* Mutant of Interrupted: the results are stored under a context of their own.
InterruptedDetached ==
  /\ pc = "stream" /\ Joined /\ ctx
  /\ msgs' = msgs \o Results("interrupted", blocks)
  /\ store' = store \o SubSeq(msgs', prev + 1, Len(msgs'))
  /\ End("error")
  /\ blocks' = {} /\ UNCHANGED <<st, ctx, lost>> /\ AnswerFrame

\* 7: cancelled while the answer streamed; its calls are answered without
\* the answer itself being kept.
Interrupted ==
  /\ pc = "stream" /\ Joined /\ ctx
  /\ msgs' = msgs \o Results("interrupted", blocks)
  /\ Persist(msgs') /\ End("error")
  /\ blocks' = {} /\ UNCHANGED st /\ AnswerFrame

Answer(kind) == Append(msgs, [kind |-> kind, calls |-> blocks, by |-> model])

\* 8: an answer cut at the output limit is continued, its calls dropped.
Truncated ==
  /\ pc = "stream" /\ Joined /\ ~ctx
  /\ st.recoveries < maxOutputTokensRecoveryLimit
  /\ st' = [st EXCEPT !.recoveries = @ + 1]
  /\ msgs' = Append(Answer("cut"), Plain("nudge"))
  /\ Persist(msgs')
  /\ pc' = "top" /\ blocks' = {}
  /\ UNCHANGED events /\ AnswerFrame

\* 9: no tool call; a blocking Stop hook keeps the run going.
Completed ==
  /\ pc = "stream" /\ Joined /\ ~ctx /\ blocks = {}
  /\ \/ /\ msgs' = Answer("assistant")
        /\ Persist(msgs') /\ End("turn_complete")
     \/ /\ cfg.hooks
        /\ msgs' = Answer("assistant") \o Text(1)
        /\ Persist(msgs')
        /\ pc' = "top" /\ UNCHANGED events
  /\ UNCHANGED <<st, blocks>> /\ AnswerFrame

Answered ==
  /\ pc = "stream" /\ Joined /\ ~ctx /\ blocks # {}
  /\ msgs' = Answer("assistant")
  /\ pc' = "permission"
  /\ UNCHANGED <<st, blocks, store, ctx, lost, events>> /\ AnswerFrame

-----------------------------------------------------------------------------
(* The gates between the answer and the execution of its calls.            *)

GateFrame == UNCHANGED <<cfg, st, model, prev, reqs, running, ran, mail, extracting,
                         panicked>>

\* Calls that permission lets through only if the user agrees.
Asked == IF cfg.mode = "bypass" \/ ~cfg.asks THEN {}
         ELSE {b \in blocks : CheckPermission(b.tool) = "ask"}

\* Mutant of Permission: the refused calls stay in toolUseBlocks.
PermissionKeepsRefused ==
  /\ pc = "permission"
  /\ \E no \in SUBSET Asked : msgs' = msgs \o Results("denied", no)
  /\ pc' = "plan"
  /\ UNCHANGED <<blocks, store, ctx, lost, events>> /\ GateFrame

\* The permission callback refuses the calls in no (or fails for them).
Permission ==
  /\ pc = "permission"
  /\ \E no \in SUBSET Asked :
       /\ blocks' = blocks \ no
       /\ msgs' = msgs \o Results("denied", no)
       /\ IF blocks' = {}
          THEN Persist(msgs') /\ End("turn_complete")
          ELSE pc' = "plan" /\ UNCHANGED <<store, ctx, lost, events>>
  /\ GateFrame

\* Mutant of PlanBlocked: plan mode stops nothing.
PlanBlocksNothing == {}

\* 10: in plan mode only read-only tools and the plan mode tools pass.
PlanBlocked == IF st.plan
               THEN {b \in blocks : b.tool \notin ReadOnly \cup {"EnterPlanMode", "ExitPlanMode"}}
               ELSE {}

\* Mutant of PlanGate: nothing is stored when every call is blocked.
PlanGateUnsaved ==
  /\ pc = "plan"
  /\ blocks' = blocks \ PlanBlocked
  /\ msgs' = msgs \o Results("denied", PlanBlocked)
  /\ pc' = IF blocks' = {} THEN "top" ELSE "hook"
  /\ UNCHANGED <<store, ctx, lost, events>> /\ GateFrame

PlanGate ==
  /\ pc = "plan"
  /\ blocks' = blocks \ PlanBlocked
  /\ msgs' = msgs \o Results("denied", PlanBlocked)
  /\ IF blocks' = {}
     THEN Persist(msgs') /\ pc' = "top" /\ UNCHANGED events
     ELSE pc' = "hook" /\ UNCHANGED <<store, ctx, lost, events>>
  /\ GateFrame

\* SnippetsForTool for the calls about to run, joined into one message.
Reminders(calls) == Text(IF \E b \in calls : b.tool \in Reminding THEN 1 ELSE 0)

\* Mutant of HookGate: blocked calls get no result.
HookGateSilent ==
  /\ pc = "hook"
  /\ \E no \in IF cfg.hooks THEN SUBSET blocks ELSE {{}} :
       /\ blocks' = blocks \ no
       /\ msgs' = msgs \o Reminders(blocks')
       /\ pc' = IF blocks' = {} THEN "top" ELSE "exec"
  /\ UNCHANGED <<store, ctx, lost, events>> /\ GateFrame

\* 11 and 11.5: PreToolUse hooks block calls or add context; then the
\* reminders for the calls about to run.
HookGate ==
  /\ pc = "hook"
  /\ \E no \in IF cfg.hooks THEN SUBSET blocks ELSE {{}} :
     \E notes \in IF cfg.hooks /\ no # blocks THEN {0, 1} ELSE {0} :
       LET left == blocks \ no
       IN /\ blocks' = left
          /\ msgs' = msgs \o Results("denied", no) \o Text(notes) \o Reminders(left)
          /\ IF left = {}
             THEN Persist(msgs') /\ pc' = "top" /\ UNCHANGED events
             ELSE pc' = "exec" /\ UNCHANGED <<store, ctx, lost, events>>
  /\ GateFrame

-----------------------------------------------------------------------------
(* 12: execution.                                                          *)

\* What StreamToolUse has not executed already.
Remaining == {b \in blocks : b.tool \notin Safe}
Started == {ran[i] : i \in 1 .. Len(ran)}

\* Mutant of Execute: the early results are not consulted.
ExecuteEarlyAgain ==
  /\ pc = "exec" /\ Joined
  /\ \E b \in blocks :
       /\ Cardinality({i \in 1 .. Len(ran) : ran[i] = b}) < IF b.tool \in Safe THEN 2 ELSE 1
       /\ running' = running \cup {b}
       /\ ran' = Append(ran, b)
  /\ UNCHANGED <<cfg, pc, ctx, st, model, msgs, prev, blocks, reqs, store, lost, events,
                 mail, extracting, panicked>>

\* The next tool in the order of the answer, once the previous one is back.
Execute ==
  /\ pc = "exec" /\ Joined
  /\ \E b \in Remaining \ Started :
       /\ \A other \in Remaining \ Started : b.k <= other.k
       /\ running' = running \cup {b}
       /\ ran' = Append(ran, b)
  /\ UNCHANGED <<cfg, pc, ctx, st, model, msgs, prev, blocks, reqs, store, lost, events,
                 mail, extracting, panicked>>

\* Plan mode after the results of the given calls, in the order of the answer.
PlanAfter(calls, plan) ==
  LET switches == {b \in calls : b.tool \in {"EnterPlanMode", "ExitPlanMode"}} IN
  IF switches = {} THEN plan
  ELSE \E last \in switches : /\ \A b \in switches : b.k <= last.k
                              /\ last.tool = "EnterPlanMode"

\* The results go into the conversation; PostToolUse hooks and inline skills
\* may add text; a tool that failed does not switch plan mode.
Collect ==
  /\ pc = "exec" /\ Joined /\ Remaining \subseteq Started
  /\ \E ok \in SUBSET {b \in blocks : b.tool = "ExitPlanMode"}, notes \in {0, 1} :
       /\ notes = 1 => cfg.hooks
       /\ st' = [st EXCEPT !.recoveries = 0,
                           !.plan = PlanAfter(ok \cup {b \in blocks : b.tool = "EnterPlanMode"}, @)]
       /\ msgs' = msgs \o Results("result", blocks) \o Text(notes)
  /\ Persist(msgs')
  /\ pc' = "top" /\ blocks' = {}
  /\ UNCHANGED <<cfg, model, prev, reqs, running, ran, events, mail, extracting, panicked>>

-----------------------------------------------------------------------------
(* The environment.                                                        *)

Cancel ==
  /\ pc # "done" /\ ~ctx
  /\ ctx' = TRUE
  /\ UNCHANGED <<cfg, pc, st, model, msgs, prev, blocks, reqs, running, ran, store, lost,
                 events, mail, extracting, panicked>>

\* A task finishes or a teammate writes.
MailArrives(c) ==
  /\ pc # "done" /\ c \in cfg.mail /\ mail[c] < MaxMail
  /\ mail' = [mail EXCEPT ![c] = @ + 1]
  /\ UNCHANGED <<cfg, pc, ctx, st, model, msgs, prev, blocks, reqs, running, ran, store,
                 lost, events, extracting, panicked>>

LoopStep ==
  \/ TopCancelled \/ TopLimit \/ TopTurn \/ AutoCompact \/ Request
  \/ RateLimited \/ PromptTooLong \/ ServerError \/ FatalError \/ Backoff
  \/ StreamEmpty \/ Interrupted \/ Truncated \/ Completed \/ Answered
  \/ Permission \/ PlanGate \/ HookGate \/ Execute \/ Collect

\* The run is over and nothing it started is left: it may stay so for ever.
Over == pc = "done" /\ running = {} /\ ~extracting /\ UNCHANGED vars

Next ==
  \/ LoopStep
  \/ \E t \in cfg.tools : StreamToolUse(t)
  \/ \E call \in running : ToolReturns(call)
  \/ MemoryExtracted
  \/ Cancel
  \/ \E c \in DOMAIN mail : MailArrives(c)
  \/ Over

\* The provider ends every stream, the permission callback answers and tools
\* return; nobody has to cancel or to write.
Spec ==
  /\ Init /\ [][Next]_vars
  /\ WF_vars(LoopStep)
  /\ WF_vars(\E call \in running : ToolReturns(call))

-----------------------------------------------------------------------------
(* Properties.                                                             *)

Points == {"top", "compact", "request", "stream", "permission", "plan", "hook", "exec",
           "backoff", "done"}

\* persistNewMessages slices Messages at prevMsgCount: while an iteration can
\* still save, compactions included, the index is inside the slice.
SliceInRange ==
  pc \notin {"top", "backoff", "done"} => prev <= Len(msgs)

\* The loop's state has the shape the code gives it; retries and recoveries
\* stay within their limits, and prevMsgCount inside the conversation.
TypeOK ==
  /\ SliceInRange
  /\ cfg \in Configs /\ pc \in Points /\ ctx \in BOOLEAN
  /\ st \in State /\ model \in {"primary", "backup"}
  /\ msgs \in Seq(Message) /\ store \in Seq(Message) /\ prev \in Nat
  /\ reqs \in Nat
  /\ blocks \subseteq Call /\ running \subseteq Call /\ ran \in Seq(Call)
  /\ events \in Seq({"error", "turn_complete", "max_turns_reached"})
  /\ mail \in [{"task", "inbox"} -> Nat]
  /\ lost \in BOOLEAN /\ extracting \in BOOLEAN /\ panicked \in BOOLEAN

\* Every result in s answers calls of one earlier answer in s.
ResultsFollowCalls(s) ==
  \A j \in 1 .. Len(s) : s[j].kind \in ResultKinds =>
    \E i \in 1 .. j - 1 : s[i].kind = "assistant" /\ s[j].calls \subseteq s[i].calls

\* A request sent to the provider (loop.go 196-204) answers each call of a
\* completed answer exactly once and behind it, whichever gates the call went
\* through, and answers nothing else.  The calls of an answer cut at the output
\* limit (loop.go 244-259) are in it, too, and no request ever answers them.
RequestAnswered ==
  pc = "request" =>
    /\ ResultsFollowCalls(msgs)
    /\ \A i \in 1 .. Len(msgs) : msgs[i].kind = "assistant" =>
         \A c \in msgs[i].calls :
           Cardinality({j \in i + 1 .. Len(msgs) :
                          msgs[j].kind \in ResultKinds /\ c \in msgs[j].calls}) = 1
    /\ \A i, j \in 1 .. Len(msgs) : msgs[i].kind = "cut" /\ msgs[j].kind \in ResultKinds =>
         msgs[i].calls \cap msgs[j].calls = {}

\* Whatever is cancelled or fails while rows are inserted, a stored result
\* comes after the stored answer that made the call, so a resumed session
\* never starts with results of unknown calls.
StoreReplayable == ResultsFollowCalls(store)

\* Back at the top of the loop with no failed append, every answer and every
\* result of the conversation is in the store: each way round the loop saves.
TurnPersisted ==
  pc = "top" /\ ~lost =>
    \A i \in 1 .. Len(msgs) : msgs[i].kind \in {"assistant", "cut"} \cup ResultKinds =>
      \E j \in 1 .. Len(store) : /\ store[j].kind = msgs[i].kind
                                 /\ store[j].calls = msgs[i].calls

\* What loop.go and AppendMessages leave in the store can be resumed, and misses
\* nothing while no append failed.
StoreFaithful == StoreReplayable /\ TurnPersisted

\* A tool that is not concurrency-safe never runs for a call the model was
\* told is denied, blocked or interrupted.
DeniedNeverRan ==
  \A i \in 1 .. Len(msgs) : msgs[i].kind \in RefusalKinds =>
    \A c \in msgs[i].calls : c.tool \notin Safe => c \notin Started

\* While plan mode is on, no tool outside the read-only ones, the early
\* concurrency-safe ones and the plan mode tools starts.
PlanModeHolds ==
  [][st.plan => \A c \in Started' \ Started :
       c.tool \in Safe \cup ReadOnly \cup {"EnterPlanMode", "ExitPlanMode"}]_vars

\* No call is executed twice, early execution and retries included.
RunOnce ==
  \A i, j \in 1 .. Len(ran) : ran[i] = ran[j] => i = j

\* Each call of an answer is executed at most once, and a refused one not at all.
CallsHonoured == RunOnce /\ DeniedNeverRan

\* Thinking blocks are bound to the model that signed them: no request to the
\* fallback model carries one of the primary model.
ThinkingMatches ==
  pc = "request" /\ model = "backup" =>
    \A i \in 1 .. Len(msgs) : msgs[i].by # "primary"

\* Retries, fallbacks, recoveries and hooks that continue a run all count as
\* turns: MaxTurns bounds the requests of a run.
RequestsBounded == reqs <= st.turn /\ (cfg.turns > 0 => st.turn <= cfg.turns)

\* A request is one the configuration allows: within its turns, and signed by
\* the model it is sent to.
RequestsLegal == RequestsBounded /\ ThinkingMatches

\* A run with a turn limit ends, whatever the provider does: nothing loops or
\* waits for ever.
RunEnds == cfg.turns > 0 ~> pc = "done"

\* strict mode: "All tools need approval" (tool/permission.go): a call the user
\* or a gate refused was never started.
DeniedMeansNotRun ==
  \A i \in 1 .. Len(msgs) : msgs[i].kind = "denied" =>
    \A c \in msgs[i].calls : c \notin Started
=============================================================================
