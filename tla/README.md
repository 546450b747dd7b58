# TLA+ models of the edoc backend

edoc is an AI coding agent: a Go backend that runs conversations between a user, a language
model and a set of tools. Each conversation is driven by an *agent loop*; around it are background
tasks, teams of agents, sessions that several clients share, language servers, MCP servers, hooks,
the store of sessions with its HTTP API, the interactive loop, and the working trees the tools change.
This directory models these parts in TLA+, checks them with TLC and proves safety theorems about
each of them with TLAPS. Paths below are relative to `src/backend/internal/` unless they start with
`src/` or `cmd/` (`src/backend/cmd/`).

Run everything from this directory:

    tlc -workers 2 -config MCAgentLoop.cfg MCAgentLoop
    tlapm AgentLoopProofs.tla

1. [Inventory](#1-inventory) - 2. [Modules](#2-modules-and-the-code) - 3. [Runs](#3-runs) -
4. [Fairness](#4-fairness) - 5. [Proofs](#5-proofs) - 6. [Findings](#6-findings) -
7. [What is not modelled](#7-what-is-not-modelled) - 8. [Plan](#8-plan)

## 1. Inventory

### 1.1 Components

**Agent loop** (`agent/loop.go`, `agent/state.go`). State: the conversation `Messages`, counters of
turns, retries and recoveries, plan mode, the current model, results of tools that were started
early, the index `prevMsgCount` after which messages are unsaved. One run is a goroutine; each
iteration takes mail (task notifications, teammate messages), checks the limit of turns, may compact
the conversation, sends a request, consumes the stream, passes tool calls through permission, plan
mode and hooks, executes them and saves. *Hard:* concurrency-safe tools start while the answer still
streams, before any gate; cancellation falls anywhere; a save is several inserts; four kinds of
provider errors each restart the turn in their own way; compaction replaces the list the index points
into. *Correct when* every request answers every tool call of a completed answer exactly once (those of an
answer cut at the output limit are never answered, see [6](#6-findings)), no call runs twice, a refused call does not
run, what is stored can be replayed, and the run is bounded and ends.

**Permissions and plan mode** (`tool/permission.go`, `tool/plan.go`). State: the mode, the allow
rules, the plan flag. Gates of the loop. *Correct when* plan mode keeps everything but reading out.

**Background tasks** (`task/`, `tool/task_output.go`, `tool/task_stop.go`). State: a map of tasks with
status, output buffer, `done` channel and cancel function; a notification channel of capacity 16. A
goroutine per task runs the command, records the status, notifies and closes `done`, in that order.
*Hard:* tool calls fall between these steps; a kill races with the command's end; a process may survive
its kill; the turn's context cancels the task. *Correct when* a final status is final and faithful, is
reported once, and nobody waits for ever.

**Teams** (`team/`, `tool/team_create.go`, `tool/team_delete.go`, `tool/send_message.go`,
`tool/agent.go`). State: teams and members, one context and inbox per teammate, the lead's inbox, the
manager's lock. *Hard:* `DeleteTeam` waits for goroutines while it holds the lock their tools need;
teammates spawn teammates, also into other teams; contexts are nested by who spawned whom. *Correct
when* nobody runs outside a team, deletion cancels its own and those end.

**Remote sessions** (`remote/`). State: clients with bounded queues, `promptCh`, `running`, `cancelFn`,
the pending permission requests. Connections start the agent goroutine, send prompts, answer
permission requests, interrupt, leave. *Hard:* any two connections do this at once; the cancel function
is called outside the lock; the wait for an answer looks at another context than the turn's. *Correct
when* there is one agent, prompts are served in order and once, a request is answered once.

**Language servers** (`lsp/`, `tool/lsp.go`). State: the client's state machine, pending requests, the
process, the set of opened files. The LSP tool queries (several calls at once); the loop reports edited
files. *Hard:* lazy start and restart under a lock, handshakes that time out and are answered late, a
process that dies, stops reading, or leaves its stderr to a child, closing channels a read loop sends on. *Correct
when* there is one process, the protocol's order is kept and calls return, but for waits the code does not limit.

**Session store and HTTP API** (`session/store.go`, `api/`, `compact/compact.go`). State: the row of a
session, its messages with a number each, unique per session; per request a run, its event channel of
64 and a reader. `AppendMessages` reads the largest number and inserts row by row, without a
transaction; `ReplaceMessages` deletes and inserts in one. *Hard:* chats and compactions of one session
at once, a compaction that summarises what it read before a long request, clients that leave at any
point, statements that fail or block on another transaction's rows. *Correct when* rows keep the order of
their conversation, chats lose nothing of each other's, and a run ends.

**REPL** (`cmd/edoc/main.go`). State: the history, the current session, the models, the configuration
of the run, the MCP and team managers that are open; while a run is on, its list of messages. Commands
(`/new`, `/resume`, `/compact`, `/model`, reviews, ...) change them between prompts; resume mode is a loop of its own, whose runs share the array of the
history. *Hard:* what the history and the rows hold after runs that were cut off or compacted themselves, changed
sessions and summaries. *Correct when* what is sent belongs to the current session and what is remembered can be
resumed.

**Hooks** (`hook/`, asked by `agent/loop.go` and the REPL). State: the runner's configuration, from which
`once` hooks remove themselves by the places they had when they were matched. *Hard:* some hooks of an event
are skipped after a block, some run in the background; decisions and inputs of several hooks are merged.
*Correct when* a once hook runs once, removal hits no other, and what runs is what the hooks left.

**MCP servers** (`mcp/`). State: the map from servers to clients and the index from tools to clients.
*Hard:* calls hold no lock across a request; each that fails takes its server out, connects anew and looks
its tool up again while others do the same; two configured names may be one to the tools (`normalizeName`). *Correct when* the maps
fit together and a retry goes to a new client of the same server.

**Snapshots, worktrees, file tools, Bash** (`snapshot/`, `tool/worktree.go`, `tool/write.go`,
`tool/edit.go`, `tool/bash.go`). State: working trees with their HEADs, branches, the snapshots with their blobs, the
worktree session (a global of the process), the directories of the tools (built anew for each prompt).
*Hard:* the session, the directories and git change at different times, and sub-agents have a hand in all of them;
teammates work in the same trees between a snapshot and its write, between a check and a removal, and during a
rewind; git and the disk may fail. *Correct when* a rewind brings back what was, Bash is
where the session says, and no work of the session is deleted unasked.

**Compaction in a run and extraction of memories** (`compact/`), **sub-agents** (`agent/subagent.go`: another
run of the loop that its caller waits for) and **providers** (`provider/`: a stream of events or an error)
are seen from the loop. The other tools, cron, memory, skills, prompts, configuration, the database pool and the
frontend keep no concurrent state of their own.

### 1.2 How they interact

    REPL / HTTP API ---- Run, RunWithMessages ---->  AGENT LOOP  ---- save ---->  session store
          ^  events (channel of 64)                   |   ^  |
    REMOTE SESSION -- prompts, interrupts,            |   |  +-- stream -------  provider
          ^           permission answers --> one turn |   |  +-- gates --------  permissions, plan, hooks
    WebSocket clients                                 |   |
                                                tools |   | mail (polled at the top of the loop)
                                                      v   |
                      BACKGROUND TASKS -- notifyCh ---+---+--- leadInbox -- TEAMS (each teammate
                      LANGUAGE SERVERS <-- edits, queries                   runs an agent loop)
                      MCP SERVERS <------- calls, reconnections
                      WORKING TREES <----- Write, Edit, Bash, worktrees; snapshots, /rewind

The loop never blocks on its mail: both channels are polled, and their senders drop what does not fit.
A turn's context reaches everything started in it: background commands, teammates, hooks.

## 2. Modules and the code

| Module | Models | Role |
|---|---|---|
| `AgentLoop` | one run of the loop with its gates, saves, recoveries and compaction | component |
| `AgentLoopProofs` | | theorems about it |
| `TaskManager` | background tasks, `TaskOutput`, `TaskStop` | component |
| `PromptServer` | what a remote session promises its clients | abstract specification |
| `RemoteSession` | one session, its connections and its agent goroutine | component, implements `PromptServer` |
| `RemoteSessionProofs` | | theorems about it, the refinement included |
| `TeamManager` | teams, teammates and the lead's operations | component |
| `TeamManagerProofs` | | theorems about it |
| `LspManager` | one language server and its callers | component |
| `LspManagerProofs` | | theorems about it |
| `Conversation` | one stored session, its chats, compactions and readers | composition of the store, the HTTP API, a run reduced to its turns |
| `ConversationProofs` | | theorems about it |
| `Repl` | the interactive loop: history, sessions, models | composition of the REPL, the store, a run reduced to its turns |
| `HookRunner` | hooks of a prompt and the loop that asks them | component, with the gate of the loop |
| `McpManager` | connections to MCP servers and calls that reconnect | component |
| `ReplProofs` | | theorems about `Repl` and `McpManager`, whose managers the REPL opens |
| `HookRunnerProofs` | | theorems about it |
| `Workspace` | working trees, snapshots, worktree sessions, directories of tools | composition of the tools that change them |
| `ToolProofs` | | theorems about `Workspace` and `TaskManager`, what tools leave behind |
| `MC...` | | instances for TLC |

`ReplProofs` and `ToolProofs` extend two components each, which share no state; to keep their names apart the
specifications of `Repl` and `Workspace` are called `ReplSpec` and `WorkspaceSpec` (with `ReplInit`, `ReplTypeOK`, ...).

Definitions named `X` followed by a plausible slip (`PermissionKeepsRefused`, `StopReturnDone`, ...)
are not part of a specification. Each stands before the definition it varies and shows, put in its
place, that a property notices the slip.

### 2.1 AgentLoop

`pc` is the place in `loop()`: `top` (mail, limits, the new turn), `compact`, `request`, `stream`
(`consumeStream`), `permission`, `plan`, `hook` (the gates), `exec` (`executeToolsWithEarly`, results,
save), `backoff`, `done`. A message is a record of its kind, the calls it makes or answers, and the
model that signed its thinking. A call is named by its request, its place in the answer and its tool.
Tools run as elements of `running`; `ran` remembers which were started. `ctx` says the context is
cancelled, and `Cancel` may happen at any point.

`Persist` is `persistNewMessages` with `AppendMessages` behind it: all rows are stored; or the context
was already cancelled and none is; or a beginning of the rows is (`Cuts`), because the context ended
or the database failed in the middle, and the loop carries on either way. Since a batch of results is
one message each in the code and one set in the model, a cut may fall inside it.

`Configs` is the set of runs to look at: the tools offered, permission mode, allow rules, whether there
is someone to ask, limit of turns, fallback model, compaction, hooks, memory directory, mail. What a
provider answers, what hooks and users decide, and whether a tool's result carries a reminder or an
error are choices. Warnings and progress events are left out; the terminal events are kept. The reader
of the event channel is taken to read.

### 2.2 TaskManager

Each task's goroutine is at `run`, `exited`, `notify`, `close` or `end`: the steps of
`startShellTask`. `StopCheck`, `StopCancel`, `StopReturn` are the three steps of `Stop`; `ReadContent`
and `ReadDone` the two halves of `ReadOutput`, repeated by a blocking `TaskOutput`. `CancelTurn` is the
context the tasks inherit. `Stubborn` tasks do not end when killed: their descendants keep the output
pipe open and `cmd.Run` waits for it.

### 2.3 RemoteSession and PromptServer

A connection `c` is `Connect`ed, starts an agent goroutine of the same name (`StartAgent`, `Claim`:
the look at `running` and its setting are one section of the lock), and may send prompts, answers
and interrupts until it leaves. `interrupt` is two steps, `ReadCancelFn` under the lock and
`CallCancelFn` outside. A turn is seen from outside: it may ask for permission and it ends;
`AgentLoop` is its inside. `Close` is modelled although nothing calls it yet; `MayClose` turns it off.

`PromptServer` has three actions: accept a prompt if there is room, begin the oldest if none is being
served, end. The refinement maps `waiting` to `promptCh`, `serving` to the prompts in the hands of busy
agent goroutines, `served` to the prompts whose turn is over.

### 2.4 TeamManager

`lead.at` is the operation the lead is in. `TeamDelete` looks at its members (`Look`), then
`DeleteTeam` takes the lock, cancels, and waits for each member (`WaitFor`: ended, or five seconds are
over); while it waits nobody else gets the lock. A teammate is running, in a call that needs the lock,
idle, or at its end; `above[k]` is the set of teammates whose context encloses that of `k`. Messages are
counted, not named: no property tells them apart.

### 2.5 LspManager

`pc[c]` is the place of a caller in `EnsureServerStarted`, `Start`, `Initialize`, `Shutdown`,
`ensureFileOpen`, `OpenFile`, `ChangeFile`, `SaveFile` or a query. `SendRequest` registers an id in
`pending` and gives it to the process; `Receive` is the read loop taking an entry out of `pending`,
`Deliver` its send on the channel; `TimeOut` is the timer of a request that has one. `Die` is the
process dying unnoticed: the client's state stays as it was, as in the code.

`jams` is what holds a pipe up: `Jam("stdin")` is a live server that does not read, so that no write to it ends
(`client.go:364` writes before it looks at a context), `Jam("stderr")` a child of the server that keeps its stderr, so
that `cmd.Wait` in `Reap` does not end. Both may end (`Unjam`).

### 2.6 Conversation

A request `r` is a chat or a compaction. A chat is at `max` and `insert` while `AppendMessages` stores
(`ReadMax`, then one `Insert` per row, which fails on a number that is taken and waits for a transaction that
holds it), at `touch`, and in its run at `run` (top of the loop), `stream` and `end`. The run is `AgentLoop`
reduced to turns: a call and its result, or an answer. `Send` puts an event into the channel and waits while
it is full; `Read` is `sseResponse`, which leaves with its client. A compaction reads (`SessionCompactSSE`),
asks for the summary, and replaces in two steps, `ReplaceDelete` (the rows it saw) and `ReplaceCommit`, under READ
COMMITTED: PostgreSQL is external. `stored`, `seen` and `mixed` are history for the properties: what was
stored ever, what a summary stands for, and whether a compaction and a chat were under way together.

### 2.7 Repl

One action per command that changes state. A run is begun by `Build` (the managers and `agentCfg`) and `Begins`. It is
the loop of `AgentLoop` with what it does to its list `conv` and to the rows of its session, at `place`: `Turn`
sets `prev` (`prevMsgCount`) and may compact the list first, which makes all of it new to the database; `Answer` is the
stream, whose answer the REPL gets as an event before the run keeps it (`Keep`); `AddResults` and `Save` end
the turn; `Retry` is a provider error that is recovered from, with a compaction or a copy of the list in some cases;
`Fail`, `Interrupt` and the last `Save` end the run. `Hear` is `handleReplEvent`, at any time after its event, and
`EndRun` what resume mode reloads. `Stores` is a save that may be incomplete.

In resume mode the history and the list of the run are slices of one array (`shared`). `Appends` is Go's append to
such a slice: in place, over what the other slice has there, if the array has room, else into a new array.

Three variables are history for the properties. `strayed`: a session was resumed whose messages could not be
loaded, and the history is still another's. `mixed`: sessions whose rows got a summary of a strayed history. `lost`:
messages that were never stored, because a save failed, the run ended or retried first, or they were written over.

### 2.8 HookRunner

`asked` is the event the loop waits for: the hooks still to run, each with its place in the configuration, which is the
order they run in (`First`), and what was merged. `HookRuns` is one of them; `Left` the configuration without the once hooks that ran, removed by
place (`removeOnceHooks`). Around it is a prompt: `Submit` reads the settings, `Answer` brings calls, `Gate` is
block 11 of `loop.go`, `Execute` block 12, `Posted` 13 and `Stopped` 9. What a command, a request or a prompt hook
says is a choice (`HookResults`). `refused` and `wanted` of a call remember what its hooks said, for `GateHolds`.

### 2.9 McpManager

`at[g]` is the place of a goroutine: one per server in `Connect`, and one per caller of a tool. `Discover` creates a
client, which may offer other tools than the one before; `Register` puts it into both maps. A call that fails goes
through `ReadServer`, `Clean`, a connection and `LookupAgain`. A manager without the server makes `ReadServer` read a
configuration through a nil pointer; the model records it as `panicked` and stops there.

### 2.10 Workspace

Trees are the main one, worktrees inside it and worktrees inside those; each has one file and, if git knows it, a HEAD.
`head[t]` are the commits of that HEAD and `on[t]` where it is: on the worktree's own branch (`branch[n]`, by the
name alone, as `worktreeBranchName` makes it), on some other one, or detached. `files` is the directory, `tracked` the
last commit, `Hidden` what git ignores. What Bash can do to these is changing the file, committing and checking out a
branch or an older commit.

`Save` is the snapshot alone: the store is unlocked after it, and the call is in `writing` until it `Writes` (all of its
text or part of it) or `WriteFails`; an Edit reads the file in between (`EditReads`). `how` says whether git stored the
file as it was, through a filter, or failed. `Rewind` takes the snapshots and `RestoreNext` restores one of them,
while others go on writing; it may fail, and leave the file torn. `snaps` is a set, ordered by the ids: the store
appends with ascending ids and searches by them.

The lead and its sub-agents, one inside the other's call (`depth`), share tools, directories and the session. The calls
of an agent's answer run first, and the directories in their results (`pending[d]`) are applied after (`Results`), as in
`loop.go:472`. `mixed` says that an Enter, or a sub-agent's Exit, came while some answer had a directory still to apply.
`ExitCheck` and `ExitRemove` are the two halves of a removal: the first looks at HEAD and git status, the second
removes the directory and deletes the branch of that name, either of which may fail. `Restart` ends the process: the
session is gone and the snapshots that reached the disk are loaded. `late` and `lost` record the work done after a check
and the work a removal without `discard_changes` deleted.

## 3. Runs

| Run | Question | Bounds |
|---|---|---|
| `agent_loop` | Does one run stay answerable, replayable and bounded under every interleaving? | five configurations, 2 turns (5 without tools), answers of 2 calls, 1 message of mail per channel |
| `agent_strict` | Does strict mode keep refused calls from running? (violated) | one configuration |
| `task_manager` | Do statuses, notifications and waiting callers agree? | 2 tasks, one stubborn, 1 caller, channel of 1, 1 write |
| `remote_session` | Do any two writers see a prompt server? | 2 connections, channels of 1, 2 prompts, 1 permission request, `Close` |
| `team_manager` | Do deletion, spawning and closing leave nobody behind? | 2 teams, 1 name, 2 teammates, inboxes of 1 |
| `lsp` | Do two callers and a server that fails or blocks keep the protocol? | 2 callers, 1 file, 3 calls, 1 restart |
| `conversation` | Do chats, compactions and leaving clients keep the store whole, and do runs end? | four plans of 2 chats and 2 compactions, 1 delta per turn, channel of 1 |
| `repl` | Is what the REPL sends the conversation of its session, and can it be resumed? | 2 sessions, 2 models (both symmetric), 2 prompts, 2 turns, 3 configurations built |
| `hooks` | Do once hooks, blocks and new inputs take effect exactly where they should? | 2 settings files, 6 hooks, 2 tools, 3 inputs, 2 calls, 2 turns, 2 prompts |
| `mcp` | Do reconnections that mix leave the maps and the retries sound? | 2 servers (one changes its tools, the other's tool has the full name of one of the first's), 2 callers, 5 clients, callers symmetric |
| `workspace` | Do rewinds, directories and removals follow the sessions? | 2 names, 2 levels of worktrees, five kinds of plans: 1 snapshot beside worktrees; 2 snapshots; 2 commits, with an origin or ignored files; 2 prompts with a worktree inside another; 2 prompts with sub-agents, 2 worktree calls in an answer |
| `workspace_remove` | Does a removal without `discard_changes` refuse to delete commits? (violated) | the same |

Why the bounds are enough:

* `agent_loop`: two turns let the results of one answer be answered by another request, which is where
  saving, compaction and retries meet; two calls in an answer are needed for one to be refused and the
  other to run, or one to be early and the other not. Five turns without tools go through two server
  errors, a fallback, a long prompt and a truncated answer in every order. The configurations are chosen
  so that each action fires; their product would add no interleaving of one run.
* Capacities of one make every channel full and empty. Two tasks and a channel for one is the smallest
  case in which a notification is dropped.
* `remote_session`: two connections are needed for each race the code has (two agents, two answers to one
  request, one leaves while the other stays). Two prompts give a turn that follows another.
* `team_manager`: with one name and two teams a teammate's id is taken again, and with two teammates one
  is spawned by the other, in its own team or the other one.
* `lsp`: two callers meet at each lock; three calls let a server die, be replaced and be asked again.
* `conversation`: two chats meet at the reading of the largest number and at each insert; two compactions
  meet in the locks of their deletes, or the second summarises the first. A chat of two turns fills a channel
  of one and has a save during the other's. One plan has everything a single mixture would, in four
  parts small enough to check.
* `repl`: with two sessions one can leave and come back; the second prompt is sent with what the first
  left, and two turns are a call and an answer in one run or a run of one turn for each prompt: enough for a
  summary that the next turn stores, for a summary of one prompt in the rows of the other, and for an event that is
  read after the next append. Three configurations let one with its managers be replaced twice.
* `hooks`: once hooks stand before, behind and between hooks that stay, in two groups, so that every wrong
  order of removal hits another hook; two prompts build a runner again; malformed input is one of three.
* `mcp`: two callers fail on one client and reconnect one after the other, in either order; five clients
  allow a start and three reconnections; one server loses a tool when it comes back.
* `workspace`: one worktree can be created, kept, resumed, removed and become a plain directory; two
  names and two levels let one be inside another and two be entered in one answer; two snapshots of one path are the
  least for the order of a rewind to matter and for two writes to follow two saves, two commits for a checkout to leave
  one behind, and two prompts for directories to be built anew inside a session. The product of the five kinds of
  plans is too large; snapshots with one worktree are in the first kind, commits and files with removals in the
  third. The proofs take any plan.
Deadlock is checked for the agent loop (its end is an explicit stutter), tasks, remote sessions, hooks and
MCP. The team run stops when `Close` is over, the LSP runs when `MaxCalls` calls are made, a conversation when
its requests are done (or a run is left with a full channel), the REPL when it is quit or out of prompts and
the workspace when its plan is used up; these say `CHECK_DEADLOCK FALSE`.

What the properties say, apart from the types (`TypeOK`, `ReplTypeOK`, `WorkspaceTypeOK`: once per module, with the limits of
counters and channels; in `AgentLoop` also that the index of the first unsaved message never points behind the
list, in `Repl` that the model shown is the one used):

*Agent loop.* `RequestAnswered`: a request answers each call of a completed answer exactly once, whichever gates
the calls went through, and no call of an answer that was cut. `StoreFaithful`: a stored result follows the stored answer with its call, whatever
fails in a save, and with no failed save everything is saved when an iteration begins. `CallsHonoured`: no
call runs twice, and a refused one not at all, unless its tool is concurrency-safe. `RequestsLegal`: the
limit of turns bounds everything that repeats, and after a fallback no request carries thinking of the
first model. `RunEnds`: a limited run ends. `PlanModeHolds`.

*Tasks.* `StatusFaithful`: a task is done when and as its status says, is called killed only if it was
cancelled, and is reported once. `StatusSettles`: a final status is final. `CallersAnswered`: a stop answers; a
`TaskOutput` that reads a finished task returns and says that it is finished, whether or not its turn is over; one whose
turn is cancelled returns. `CancelledTasksEnd`.

*Remote.* `SharedOnce`: one agent, one answer to a request. `InterruptsAim`, `ImplementsPromptServer`, and
`PromptsServed`: an accepted prompt is served unless the session closes or a permission request stays
unanswered for ever.

*Teams.* `MatesFound`: nobody runs uncancelled outside a team, and an id has one teammate.
`DeletionsReach`: who runs uncancelled was spawned, through any number of others, by nobody who is cancelled or whose team
is gone. `CancelledMatesEnd`.

*LSP.* `ProcessSound`: one process, and no send on a closed channel. `OpenedInOrder`: the handshake, then the
opening, then anything else about a file. `CallsReturn`: a call returns unless it waits for the tool's own request,
which has no timeout, or it, or the holder of the lock it needs, is blocked on a pipe: writing to a server that does not
read, or reaping one whose stderr is still open.

*Conversation.* `StoreSound`: messages are loaded in the order they were made, a summary before what was not
summarised; and as long as no compaction overlapped a chat, nothing stored is lost. `RunsEnd`: a run ends, except one
whose client left it with a full channel.

*REPL.* `HistoryOfSession`: what is sent is the current session's, and so are a session's rows, except for a history
that `/resume` failed to replace and for rows with a summary of one. `HistoryRecoverable`: at the prompt, the answers
and results that are remembered, in themselves or in a summary, are in their session's rows or named `lost`; prompts are
exempt, since no run stores its own.

*Hooks.* `OnceHooks`: a runner starts a once hook once, and between events has exactly the hooks of the settings
without those that ran. `GateHolds`: a call that is executed after the gate was blocked by none of its hooks and
has the last input they gave it.

*MCP.* `ReconnectSound`: the two maps fit together, and a retry never goes to the client that failed the call, nor to
another server; tools whose full name two servers share are exempt from what the code cannot keep apart.

*Workspace.* `RewindRestores`: in and after a rewind, a file it restored and nobody changed since is what it was when
the oldest of its restored snapshots was saved, unless git failed or filtered it. It does not say that the *last* write
is undone: after two saves and two writes it is not. `BashFollows`: when all results are applied, Bash is in the worktree
the prompt entered, and in the main tree without one, except in a session that is `mixed`. `SessionWorkKept`: a removal
without `discard_changes` deletes nothing but what came after its check, was there before the session, or the check
cannot see (`Unseen`: commits that HEAD is not on, ignored files, worktrees in an ignored directory).

An exemption is part of a property where the code breaks the sentence without it; each has its finding in section 6.

## 4. Fairness

Go runs every goroutine that can run, so steps of the program's own goroutines are weakly fair, and
nothing a user, a client, a model or a process *may* do is.

* `AgentLoop`: the loop's next step and the return of a running tool. It stands for: a stream ends, the
  permission callback returns, a tool returns. Cancellation, mail and the extraction are not fair.
* `TaskManager`: a goroutine's steps after the command, the exit of a *cancelled* command that is not
  stubborn, and the caller's steps. A command may run for ever.
* `RemoteSession`: agent steps, the end of a turn that is not waiting for an answer, the pending
  call of a cancel function, the start of the agent. Clients are not fair; in particular no answer to a
  permission request is.
* `TeamManager`: weak for the manager's steps. Strong for a teammate's tool call, which waits for a lock
  that other operations take and release (Go's `RWMutex` does not starve readers or writers), for the end
  of its run (a run is limited), and for the `ctx.Done()` case of its `select`, which is chosen among
  ready cases at random.
* `LspManager`: strong for callers, weak for the read loop's send. What a caller may wait for again and again is the
  lock (`sync.Mutex` has a starvation mode), and a pipe that moves from time to time (whoever waits for it is woken when
  it moves). The server's answers, its death, and when its pipes block or move are not fair.
* `Conversation`: weak for each chat's, reader's and compaction's steps. They stand for: the database and the
  provider answer or fail, under a context or a limit of time. Clients are not fair: they may stay or leave.
* `Repl`, `HookRunner`, `McpManager` and `Workspace` state safety only, and no fairness.

## 5. Proofs

The proofs hold for any sets and any values of the constants that satisfy the assumptions the modules name, all
of which TLC evaluates in the runs. They say that bounds are natural numbers and capacities positive
(`BoundsAssumption`, `CapsAssumption`, `LimitsAssumption`, ...), that inputs have their types (`ConfigsAssumption`,
`OffersAssumption`, `HooksAssumption`, ...), and that what the code tells apart by construction is apart: a chat is no
compaction (`RequestsAssumption`), the lock's being free is no caller (`CallersAssumption`), no team is no team
(`TeamsAssumption`). No theorem takes a bound of an instance.

Every module of proofs has the same plan: the inductive invariant in named parts; lemmas about operators; one
lemma per part (or per group of actions) that a step preserves it; the theorems.

**`AgentLoopProofs`**. The state is large, so variables are grouped, and for each group one lemma says
which actions touch it (`ListSteps`, `SteadySteps`, `QuietSteps`, ...). Types come first: messages
(`Lists`), control and counters (`Control`), calls (`CallTypes`), flags. Then:

* `BoundedRequests`: `RequestsBounded` is not inductive, since a retry sends again without a new turn if
  one forgets that it goes through the top. `Paid` adds that before a request fewer requests were made
  than turns begun.
* `SlicesInRange`: the index is inside the list at the points where it is used; it is stale only at the top
  and in a backoff, before the next assignment.
* `CallsRunOnce` and `RefusedNeverRuns`: which calls can have been started at each point. Calls of the
  last answer that are not concurrency-safe have not been started before `exec`, early ones leave the
  list of calls left to run, and a refused call leaves it for good; calls carry the number of their
  request, so that a repeated request makes new ones.
* `SignaturesMatch`: from the fallback on no message in the conversation is signed by the first model.
* `PlanModeKept`: an action property, from the types and the invariant on the calls of the last answer.
* `RequestsAreAnswered` (of the calls of completed answers) and `StoreIsFaithful` relate places in two lists, the conversation and the store. Neither
  property is inductive: that every call has one result is false while the gates have an answer, and the
  store is replayable because of what the *next* save takes. `Kept` says so point by point. `Balance`: between
  requests every call has one result after it, and inside a turn all but those still to be gated or executed.
  `Unsaved`: behind the index are no answers or results before an answer is complete, and from then on exactly
  that answer, followed by results of its calls. `Saved`: with no failed save, everything before the
  index is stored. `StoreReplayable`: a stored result follows its call. A save that is cut off takes a beginning of
  `Unsaved`, hence a result only with its call before it.
* `CallsAreHonoured` and `RequestsAreLegal` put these together as the properties the run checks.

**`RemoteSessionProofs`**. One invariant per group of variables. `PromptInv` is `OneAgent` with `InHand`:
an agent has a prompt exactly while it is busy; the refinement rests on it too, since "at most one busy
agent" is what makes `serving` at most one prompt. `InterruptInv`: a cancel function that was read
belongs to a turn not later than the current one, and to the current one only if an interrupt arrived
since it began. `AskInv` and `DeliveryInv` give the permission requests and the queues.

**`TeamManagerProofs`**. `MatesFound` fails unless a deletion that gives up its lock leaves nobody of its team
uncancelled. `Cleared` says that of the whole time it waits: a teammate spawned before the lock was taken is a
member (`Membership`) and was cancelled with it, and none is spawned while it is held. `DeletionsReachAll` needs that
contexts are nested (`Nested`: those who enclose a spawner enclose whom it spawns, and are not cancelled without it)
and that whoever is not cancelled is a member of a team that exists, running or not (`Kept`).

**`LspManagerProofs`**. `Exclusive`: whoever is between the points that start or stop the process holds the
lock, and the lock is free only in a state that needs no more work. So there is one process at most
(`Process`), and an id is in one place at most (`Channels`), which is why no closed channel is sent on. `Documents` is
the reason `OpenedInOrder` survives other callers: a server that runs is not stopped by anyone, so what a caller found
out about a file stays true until it uses it; the points after that check exist only while it runs.

**`ConversationProofs`**. `LoadedInOrder` is about every pair of rows, and `StoreSound` asks that nothing is lost as long
as no compaction overlapped a chat. `Turns` says what a chat's batch can be at each point and that what it stored before
is of earlier turns (`Saves`); `Rows` that its rows end at the number it found or gave last, so that the
next insert is behind them. A chat that reads a largest number which another one then takes fails in its insert
rather than slip in between, which is what the uniqueness of numbers in `Rows` is for. `Whole` ties the rows to
what a summary stands for. `MaxIsThere` (a bounded set of numbers has a largest) rests on the library's
well-founded induction.

**`ReplProofs`, `Repl`**. Both properties follow from invariants on `Known`, which is what the REPL and the run remember
and the events that are still to be read. `Kept`: each message of it is stored, lost or a prompt, or the run is still to
store it (`Unsaved`), and what the rows recall, also in summaries, is itself accounted for. `Owned`: what is known
belongs to the current session, and what a session's rows recall to that session, apart from the strayed and the mixed.
A step changes what is known in one of four ways: it is forgotten (`Forgets`), loaded from the rows of
the session that becomes the current one (`Loads`), kept while another session becomes the current one (`Strays`), or it
gains messages of the current session that are unsaved or lost (`Gains`); compactions change it not at all, since a
summary recalls what it replaces. Only a save changes rows (`RowsNext`), and what it stores is the part of the
list behind `prev` (`Lists`): messages of its own session and summaries of what is known. `UnsavedGoes` says that
nothing leaves `Unsaved` but by being stored or lost, also when an append writes over it.

**`ReplProofs`, `McpManager`**. `RetryFresh` says that the client a caller looks up again is not the one that
failed it. It is not inductive: some other goroutine might put the failed client back. `Fresh` says why none does:
a client enters the maps once, by the goroutine that made it, and until then nobody else names it. So
a client that was taken out stays out (`GoneForGood`), and `LookupAgain` finds another. `Indexed` says that the client
behind a tool has listed it; with two clients that list one tool this gives one server, or a tool that is `Shared`. No
assumption is made about the tools that servers offer.

**`ToolProofs`, `Workspace`**. `Follows` generalises `BashFollows` to the moments at which results are still to be
applied: unless sessions are mixed, one agent at most has such results, the last of them is where the session is, and a
session was entered from the main tree. `Checked` is what a removal knows between its check and its
deletion: each commit of the tree's HEAD is older than the session or `late`, and a change that git shows is `late`; each
tool that a teammate may use meanwhile keeps that (`CheckedMeanwhile`). `RewindRestores` needs `Snapshots`: a blob is what the file was if git
stored it exactly, and ids name one snapshot each, also after a restart that lost some; and `Rewinding`: what is
still to be restored is older than what was, so that the last restored of a path is its oldest, and a file that nobody
touched since holds its blob.

**`ToolProofs`, `TaskManager`**. `IInv` gives the status that goes with every point of a task's goroutine
(`StatusByPoint`): without it `StatusFaithful` and `StatusSettles` do not follow from what they say.
`NotifiedOnce` adds `NotifiedPast`: a notification exists only once its task is past the send.

**`HookRunnerProofs`**. `GateHolds` compares what a call was executed with to what its hooks said. While they are
asked this is in two places, the merged result (`asked`) and the call itself; `Asking` says that they agree, `Judged`
what holds of a call whose hooks are through, `Unheard` of one whose turn has not come, and `AtGate` puts them at their
places. A block once merged stays (`BlockWins`).

`OnceHooks` looks at the configuration between events only. During an event the once hooks that were started are still
in it; `Books` says where (`Pending`, at the places in `asked.once`), that these places are in order and before the ones
still to run, and that the configuration is the settings without the started hooks but for the pending ones. So the hook
that comes next has not been started (`BooksRun`), which also needs that a hook is one
entry of the settings (`SettingsAssumption`: entries that read alike are two hooks). `removeOnceHooks` is a loop over places that shift as it goes; `RemovalSpares` unrolls it
(`RemovalLoop`) and steps through it with `Partial`: what is not done yet lies before the last removal, where places are
as they were. The mutant that removes forward breaks exactly this.

Only model-checked: all liveness properties (`RunEnds`, `CallersAnswered`, `CancelledTasksEnd`, `PromptsServed`,
`CancelledMatesEnd`, `CallsReturn`, `RunsEnd`), which rest on facts of `ENABLED` that TLAPS cannot establish.

## 6. Findings

Two runs end in a counterexample to something a comment says.

* `agent_strict`: a concurrency-safe tool that needs approval (`WebFetch`) runs before the user is asked.
* `workspace_remove`: a worktree that is entered again takes its own HEAD as the base, so the check of a
  removal finds no work in commits it already has, and they are deleted without `discard_changes`.

Others are exemptions of properties that pass, by which the property says that the code goes wrong there and
nowhere else. Each was confirmed by checking the property without its exemption.

* `RequestAnswered`: an answer cut at the output limit keeps its calls in the conversation, is continued, and is sent
  again without results for them (`agent/loop.go:244`).
* `CallsReturn`: a server that is started and does not read blocks `Initialize` under the lock, whose timeout is looked
  at after the write (`lsp/client.go:281`), although `StartupTimeout` is described as the limit of the
  initialization; so does `cmd.Wait` while a child has the stderr.
* `BashFollows`: an Enter after an Exit in one answer, or of a sub-agent, takes a directory that results are still to
  change as the place to return to (`tool/worktree.go:284`).
* `RewindRestores`: when git fails, the snapshot of a file says that there was none, and a rewind removes the file; when
  a filter applies, it writes the filtered text (`snapshot/snapshot.go:72`).
* `SessionWorkKept`: the check looks at HEAD and git status, the removal deletes a branch by its name and a directory with
  what git ignores (`tool/worktree.go:162`, 147, 419).
* `HistoryRecoverable`: a comment says that a resumed session's new prompt is stored first; no run stores its prompt
  (`agent/loop.go:70`). And the array that resume mode shares with its run is written to from both sides
  (`cmd/edoc/main.go:1016`), so that an answer that is heard late replaces results that are not yet stored.
* `HistoryOfSession`: after a `/resume` that could not load, prompts send one session's conversation and store in
  another's rows, and a compaction in such a run leaves its summary there for good (`cmd/edoc/main.go:751`).

Met while modelling; the models have these as the code does, and no run is about them:

*Runs.* The extraction of memories sends on a closed channel if the run ended first: a panic (`loop.go:168`).
A cancelled backoff and a stream without an answer end a run without the error event that
`loop.go:630` promises. Micro compaction never matches a tool name (its names are lower-case).
With several edits in one answer the language server is told of the first one only (`loop.go:521`).
`/fast` and `/effort` change the configuration that all later prompts share.

*Tasks, sessions, teams.* An output marked complete lacks what was written between two reads
(`task/manager.go:85`). An interrupted turn keeps waiting for a permission answer (`remote/runner.go:63`). A
teammate that becomes active between the two lock sections of a deletion is cancelled at work; one whose loop
fails stays active for ever; the report of a failure is dropped when the lead's inbox is full; broadcasts go to
every team.

*LSP and MCP.* Two concurrent queries both open a file. `restartCount` is always 1 after a restart, so its limit
is not reached. Two calls of one MCP server that fail at once end in a nil pointer (`mcp/manager.go:281`); the
client that failed is never closed, a reconnection that fails leaves the server out for good, and the retry may
execute a call for the second time. The REPL builds the managers of MCP servers and teams anew for each prompt.

*Store.* A compaction loses the rows a chat stored during its request (`api/handler.go:656`): `mixed` marks it in
`NothingLost`. The REPL's history holds neither prompts nor results of calls (`cmd/edoc/main.go:965`), so that
after a tool ran the next request has calls without results.

*Hooks.* A condition `Tool(pattern)` never fires after a tool, whose events carry no input. `PreventContinue` is
never read and `OnAsyncRewake` never set. The settings are read again for each prompt, so that once hooks come back.
A hook that times out, an HTTP hook's `ask` and a malformed input let the call through; the text of a Stop hook
that timed out continues the run. Notification, session and subagent events are never raised.

*Trees.* Two agents that save and then write one file in the same order leave a newest snapshot that is not what the
last write replaced (`tool/write.go:56`). A write that fails after it opened its file leaves it cut short, in a
rewind also (`snapshot.go:132`).

## 7. What is not modelled

* Contents: text of messages, arguments and output of tools, wire formats, prompts, token counts. Where
  the code decides on them the models choose.
* How Edit finds the text to replace, and search, web access, memory files, skills, configuration, cron (its jobs
  never fire), the tool registry (read-only after start), the frontend.
* The OAuth flow of MCP, hooks nobody waits for or raises, commands of the
  REPL that only print, the lists and look-ups of the store.
* Several servers in `LspManager`, a read loop that outlives the killed process, the registry of remote
  sessions (a map under a lock), events other than terminal ones in `AgentLoop`.
* Memory-model effects: shared variables are read and written in whole. The one unsynchronised read
  among the modelled ones, of a task's status in `Stop`, is discussed at `StopCheck`.
* In `Repl`: messages of tasks, teammates and reminders that join a run, except that "result" stands for all a run adds
  after an answer; a run that reaches its limit of turns ends like one that fails; the extraction of memories.
* In `Workspace`: worktrees more than two levels deep and branches of main; one flag decides whether git ignores both a
  file and worktrees inside worktrees; the truncation and the write of one file are one step, whose outcome may be torn;
  clocks that go back (a rewind sorts by time, which is taken to be the order of the ids).
* Planned parts, see below.

## 8. Plan

In order of importance. 1 to 9 are done, theorems included.

1. `AgentLoop` with `AgentLoopProofs`: the core that everything else starts or serves.
2. `TaskManager` (in `ToolProofs`).
3. `PromptServer`, `RemoteSession` with `RemoteSessionProofs`.
4. `TeamManager` with `TeamManagerProofs`.
5. `LspManager` with `LspManagerProofs`.
6. `Conversation` with `ConversationProofs` and `Repl` (in `ReplProofs`): the users of the session store.
7. `McpManager` (in `ReplProofs`).
8. `HookRunner` with `HookRunnerProofs`.
9. `Workspace` (in `ToolProofs`): snapshots and worktrees with the tools that change the same trees.
10. The composition of `AgentLoop`'s edits with `LspManager` (which file the loop names), and operators for pure
    algorithms: the matching of edits, permission rules, reminders.

Theorems planned next: abstract specifications for `TaskManager` (a table of tasks, each reported at most once) and
`Conversation` (a list that grows at its end), with the present invariants as the base of their refinement.
