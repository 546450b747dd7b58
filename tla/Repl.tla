-------------------------------- MODULE Repl --------------------------------
(***************************************************************************)
(* The interactive loop of cmd/edoc/main.go: the history it keeps between  *)
(* prompts, the sessions it creates and resumes, the model it shows, what  *)
(* it builds anew for each prompt, and what it hears of a run.  A run is   *)
(* the agent loop with what it does to its list of messages and to the     *)
(* rows of its session: turns, compactions, saves that fail part way,      *)
(* interrupts, errors and retries.  Commands that only print are left out. *)
(***************************************************************************)
EXTENDS Naturals, Sequences, SequencesExt, Functions

CONSTANTS
  Sessions,    \* ids the database may give to sessions
  Models,      \* models that can be named
  MaxPrompts,  \* bound: prompts and reviews
  MaxBuilds,   \* bound: configurations built
  MaxTurns     \* bound: turns of all runs

ASSUME BoundAssumption == MaxPrompts \in Nat /\ MaxBuilds \in Nat /\ MaxTurns \in Nat

none == "none"
Ids == Sessions \cup {none}

VARIABLES
  mode,      \* "main", "resume" (runAgentLoop) or "quit"
  current,   \* currentSessionID
  history,   \* the messages the REPL keeps
  db,        \* db[s]: the stored messages of session s
  created,   \* sessions that exist
  prompts,   \* prompts so far
  models,    \* [shown, used, backup]: currentModel, and those of cfg.Provider
  open,      \* [configured, held, mcp, teams]: there are MCP servers; replMcpMgr is
             \* set; managers of MCP servers and of teams that are not closed yet
  place,     \* where the run is: "idle" when there is none
  config,    \* SessionID of agentCfg, which stays for resume mode
  conv,      \* state.Messages: what the next request sends
  shared,    \* conv and history are slices of one array
  prev,      \* prevMsgCount
  turns,     \* turns so far, of all runs
  reply,     \* the answer that is not yet appended, if any
  events,    \* message_complete events that the REPL has not read
  strayed,   \* a resumed session could not be loaded: the history is another's
  mixed,     \* sessions that got a summary of a strayed history
  lost       \* messages that were not stored, for an error, an interrupt or a retry

runVars == <<place, config, conv, shared, prev, turns, reply, events>>
ghosts == <<strayed, mixed, lost>>
replVars == <<mode, current, history, db, created, prompts, models, open, runVars, ghosts>>

running == place # "idle"

\* A message, by the session of its run and the number of its prompt.  A call
\* is an answer after which the run goes on, its result all that the run adds.
Plain == [session : Ids, prompt : 1 .. MaxPrompts, kind : {"prompt", "call", "result", "answer"}]
\* What a compaction leaves: a boundary and a summary.
Message == Plain \cup [kind : {"boundary", "summary"}, of : SUBSET Plain]

Msg(kind) == [session |-> config, prompt |-> prompts, kind |-> kind]

\* The messages that are in a list or summarised in it.
Recalled(h) ==
  UNION {IF m \in Plain THEN {m} ELSE m.of : m \in ToSet(h)}

\* NewMessages of compact.Compact.
Summary(h) ==
  <<[kind |-> "boundary", of |-> {}], [kind |-> "summary", of |-> Recalled(h)]>>

-----------------------------------------------------------------------------
(* The start, and commands between prompts.                                *)

\* The REPL creates a session, which may fail.
ReplInit ==
  /\ mode = "main" /\ place = "idle" /\ config = none
  /\ \/ current = none /\ created = {}
     \/ \E s \in Sessions : current = s /\ created = {s}
  /\ history = <<>> /\ conv = <<>> /\ db = [s \in Sessions |-> <<>>]
  /\ shared = FALSE /\ prev = 0 /\ turns = 0 /\ reply = none /\ events = <<>>
  /\ prompts = 0
  /\ \E m \in Models, b \in Models \cup {none} : models = [shown |-> m, used |-> m, backup |-> b]
  /\ \E b \in BOOLEAN : open = [configured |-> b, held |-> FALSE, mcp |-> 0, teams |-> 0]
  /\ strayed = FALSE /\ mixed = {} /\ lost = {}

AtPrompt == mode = "main" /\ ~running

Clear ==
  /\ AtPrompt
  /\ history' = <<>> /\ strayed' = FALSE
  /\ UNCHANGED <<mode, runVars, current, db, created, prompts, models, open, mixed, lost>>

\* Compact refuses fewer than two messages, and the provider may fail, which
\* changes nothing.
Compact ==
  /\ AtPrompt /\ Len(history) >= 2
  /\ history' = Summary(history)
  /\ UNCHANGED <<mode, runVars, current, db, created, prompts, models, open, ghosts>>

\* A new session; the history goes even if it cannot be created.
New ==
  /\ AtPrompt
  /\ history' = <<>> /\ strayed' = FALSE
  /\ \/ \E s \in Sessions \ created : current' = s /\ created' = created \cup {s}
     \/ UNCHANGED <<current, created>>
  /\ UNCHANGED <<mode, runVars, db, prompts, models, open, mixed, lost>>

\* Mutant of SwitchModel: only the REPL's own name is set.
SwitchModelShown ==
  /\ AtPrompt
  /\ \E m \in Models : models' = [models EXCEPT !.shown = m]
  /\ UNCHANGED <<mode, runVars, current, history, db, created, prompts, open, ghosts>>

SwitchModel ==
  /\ AtPrompt
  /\ \E m \in Models : models' = [models EXCEPT !.shown = m, !.used = m]
  /\ UNCHANGED <<mode, runVars, current, history, db, created, prompts, open, ghosts>>

\* /fast swaps the model with its backup; without one nothing changes.
Fast ==
  /\ AtPrompt /\ models.backup # none
  /\ models' = [shown |-> models.backup, used |-> models.backup, backup |-> models.used]
  /\ UNCHANGED <<mode, runVars, current, history, db, created, prompts, open, ghosts>>

\* /effort low takes the backup and forgets the model; other levels keep it.
Effort ==
  /\ AtPrompt /\ models.backup # none
  /\ models' = [models EXCEPT !.shown = models.backup, !.used = models.backup]
  /\ UNCHANGED <<mode, runVars, current, history, db, created, prompts, open, ghosts>>

\* /quit leaves resume mode for the main one, or ends the REPL, whose deferred
\* calls close the MCP manager it holds and the team managers of all prompts.
Quit ==
  /\ ~running /\ mode # "quit"
  /\ mode' = IF mode = "resume" THEN "main" ELSE "quit"
  /\ open' = IF mode = "resume" THEN open
             ELSE [open EXCEPT !.teams = 0, !.mcp = IF open.held THEN @ - 1 ELSE @]
  /\ UNCHANGED <<runVars, current, history, db, created, prompts, models, ghosts>>

-----------------------------------------------------------------------------
(* The start of a run.                                                     *)

\* buildAgentConfig: tasks and snapshots are passed in; the tools, hooks, LSP
\* servers and the team manager are new.  The MCP servers are connected unless
\* their manager is passed in, and the caller may hold on to it.
Build(session, holds) ==
  /\ open.teams < MaxBuilds
  /\ config' = session
  /\ LET connects == open.configured /\ ~open.held
     IN  open' = [open EXCEPT !.teams = @ + 1, !.mcp = IF connects THEN @ + 1 ELSE @,
                              !.held = @ \/ (connects /\ holds)]

\* loop begins: it counts no message as new, so that the prompt, which is in
\* msgs, is never stored.
Begins(msgs) ==
  /\ place' = "turn"
  /\ conv' = msgs /\ prev' = Len(msgs)
  /\ UNCHANGED <<turns, reply, events>>

NewPrompt(session) == [session |-> session, prompt |-> prompts + 1, kind |-> "prompt"]

\* A prompt of the main loop: the hooks may block it; the run gets a copy of
\* the history with the prompt, the history does not get the prompt.
Prompt ==
  /\ AtPrompt /\ prompts < MaxPrompts
  /\ Build(current, FALSE)
  /\ prompts' = prompts + 1
  /\ \/ Begins(Append(history, NewPrompt(current)))
     \/ UNCHANGED <<place, conv, prev, turns, reply, events>>
  /\ UNCHANGED <<mode, current, history, db, created, models, shared, ghosts>>

\* /review: a run with the diff as its only message.
Review ==
  /\ AtPrompt /\ prompts < MaxPrompts
  /\ Build(current, FALSE)
  /\ prompts' = prompts + 1
  /\ Begins(<<NewPrompt(current)>>)
  /\ UNCHANGED <<mode, current, history, db, created, models, shared, ghosts>>

\* Mutant of Resume: the configuration is built for the session that was left.
ResumeBuildsFirst ==
  /\ AtPrompt
  /\ \E s \in created :
       /\ current' = s /\ history' = db[s] /\ strayed' = FALSE
       /\ Build(current, TRUE) /\ mode' = "resume"
  /\ UNCHANGED <<place, conv, shared, prev, turns, reply, events, db, created, prompts, models,
                 mixed, lost>>

\* /resume: the session is found (by its id or a prefix of it) and becomes the
\* current one; if its messages cannot be loaded the history stays.
Resume ==
  /\ AtPrompt
  /\ \E s \in created :
       /\ current' = s
       /\ \/ history' = db[s] /\ strayed' = FALSE
             /\ Build(s, TRUE) /\ mode' = "resume"
          \/ strayed' = (strayed \/ (s # current /\ history # <<>>))
             /\ UNCHANGED <<history, config, open, mode>>
  /\ UNCHANGED <<place, conv, shared, prev, turns, reply, events, db, created, prompts, models,
                 mixed, lost>>

\* A prompt in resume mode: no hooks, the same configuration, the prompt joins
\* the history, and the run gets the same slice; its array may have room.
ResumePrompt ==
  /\ mode = "resume" /\ ~running /\ prompts < MaxPrompts
  /\ prompts' = prompts + 1
  /\ history' = Append(history, NewPrompt(config))
  /\ Begins(history')
  /\ shared' = TRUE
  /\ UNCHANGED <<mode, current, config, db, created, models, open, ghosts>>

-----------------------------------------------------------------------------
(* A run, and the REPL that hears it.                                      *)

\* append(mine, m): in place if the array has room, which writes over what the
\* other slice of that array has there; else into an array of its own.
Appends(mine, other, m) ==
  /\ mine' = Append(mine, m)
  /\ \/ /\ shared /\ shared' = TRUE
        /\ other' = IF Len(mine) < Len(other) THEN [other EXCEPT ![Len(mine) + 1] = m] ELSE other
     \/ /\ ~(shared /\ Len(mine) < Len(other)) /\ shared' = FALSE
        /\ other' = other

\* What the run has said or added in this turn and not yet tried to store.
Unsaved ==
  CASE place = "append" -> {Msg(reply)} \cup {conv[i] : i \in prev + 1 .. Len(conv)}
    [] place \in {"tools", "save", "last"} -> {conv[i] : i \in prev + 1 .. Len(conv)}
    [] OTHER -> {}

replFrame == <<mode, current, created, prompts, models, open, config>>

\* Compact in a run: boundary and summary take the place of all messages.
Summarises ==
  Len(conv) >= 2 /\ conv' = Summary(conv) /\ shared' = FALSE

\* A turn begins; above the threshold the messages are compacted first, and
\* what is left is new to the database.
Turn ==
  /\ place = "turn" /\ turns < MaxTurns
  /\ turns' = turns + 1 /\ place' = "ask"
  /\ \/ prev' = Len(conv) /\ UNCHANGED <<conv, shared>>
     \/ prev' = 0 /\ Summarises
  /\ UNCHANGED <<replFrame, history, db, reply, events, ghosts>>

\* The whole answer has come: the REPL gets it before the run has kept it.
Answer ==
  /\ place = "ask"
  /\ \E kind \in {"call", "answer"} : reply' = kind /\ events' = Append(events, kind)
  /\ place' = "append"
  /\ UNCHANGED <<replFrame, history, db, conv, shared, prev, turns, ghosts>>

\* The stream may fail after its answer, which only the REPL keeps.
Discards ==
  \/ UNCHANGED <<events, lost>>
  \/ \E kind \in {"call", "answer"} :
       events' = Append(events, kind) /\ lost' = lost \cup {Msg(kind)}

\* handleProviderError recovers: the request is made again in a new turn, after
\* a compaction if it was too long, or to another model, for which the list is
\* copied.
Retry ==
  /\ place = "ask" /\ place' = "turn"
  /\ Discards
  /\ \/ conv' = conv /\ shared' \in {shared, FALSE}
     \/ Summarises
  /\ UNCHANGED <<replFrame, history, db, prev, turns, reply, strayed, mixed>>

\* An error, an interrupt between turns, or the limit of turns.
Fail ==
  /\ place' = "over"
  /\ \/ place = "ask" /\ Discards
     \/ place = "turn" /\ UNCHANGED <<events, lost>>
  /\ UNCHANGED <<replFrame, history, db, conv, shared, prev, turns, reply, strayed, mixed>>

\* Mutant of Keep: the messages of a turn are counted after its answer.
KeepCounts ==
  /\ place = "append"
  /\ Appends(conv, history, Msg(reply))
  /\ place' = IF reply = "call" THEN "tools" ELSE "last"
  /\ reply' = none /\ prev' = Len(conv')
  /\ UNCHANGED <<replFrame, db, turns, events, ghosts>>

\* The run keeps the answer: the last one, or one that calls tools.
Keep ==
  /\ place = "append"
  /\ Appends(conv, history, Msg(reply))
  /\ place' = IF reply = "call" THEN "tools" ELSE "last"
  /\ reply' = none
  /\ UNCHANGED <<replFrame, db, prev, turns, events, ghosts>>

\* The results; a run whose calls were all refused ends with them.
AddResults ==
  /\ place = "tools"
  /\ Appends(conv, history, Msg("result"))
  /\ place' \in {"save", "last"}
  /\ UNCHANGED <<replFrame, db, prev, turns, reply, events, ghosts>>

\* The run is interrupted while the answer comes: the answer is not kept, its
\* calls, if it has any, are answered.
Interrupt ==
  /\ place \in {"ask", "append"} /\ place' = "last"
  /\ \/ reply # "answer" /\ Appends(conv, history, Msg("result"))
     \/ reply # "call" /\ UNCHANGED <<conv, history, shared>>
  /\ lost' = IF place = "append" THEN lost \cup {Msg(reply)} ELSE lost
  /\ reply' = none
  /\ UNCHANGED <<replFrame, db, prev, turns, events, strayed, mixed>>

\* AppendMessages stores ms, or only the first of them.
Stores(ms) ==
  IF config = none THEN UNCHANGED <<db, mixed, lost>>
  ELSE \E n \in 0 .. Len(ms) :
         /\ db' = [db EXCEPT ![config] = @ \o SubSeq(ms, 1, n)]
         /\ lost' = lost \cup {ms[i] : i \in n + 1 .. Len(ms)}
         /\ mixed' = IF strayed /\ \E i \in 1 .. n : ms[i] \notin Plain
                     THEN mixed \cup {config} ELSE mixed

\* persistNewMessages, at the end of a turn.
Save ==
  /\ place \in {"save", "last"}
  /\ Stores(SubSeq(conv, prev + 1, Len(conv)))
  /\ place' = IF place = "save" THEN "turn" ELSE "over"
  /\ UNCHANGED <<replFrame, history, conv, shared, prev, turns, reply, events, strayed>>

\* handleReplEvent adds an answer to the history; where it writes over what the
\* run has not stored, that is lost.
Hear ==
  /\ events # <<>> /\ events' = Tail(events)
  /\ UNCHANGED <<place, prev, turns, reply, replFrame, db, strayed, mixed>>
  /\ Appends(history, conv, Msg(Head(events)))
  /\ lost' = lost \cup (Unsaved \ Unsaved')

\* The channel is closed and empty: the main loop goes on with what it heard;
\* resume mode reloads the history from the database, if it can.
EndRun ==
  /\ place = "over" /\ events = <<>>
  /\ place' = "idle" /\ conv' = <<>> /\ shared' = FALSE
  /\ prev' = 0
  /\ \/ mode = "resume" /\ config # none /\ history' = db[config]
     \/ UNCHANGED history
  /\ UNCHANGED <<replFrame, db, turns, reply, events, ghosts>>

RunNext ==
  \/ Turn \/ Answer \/ Retry \/ Fail \/ Keep \/ AddResults \/ Interrupt \/ Save \/ Hear \/ EndRun

ReplNext ==
  \/ Clear \/ Compact \/ New \/ SwitchModel \/ Fast \/ Effort \/ Quit
  \/ Prompt \/ Review \/ Resume \/ ResumePrompt \/ RunNext

ReplSpec == ReplInit /\ [][ReplNext]_replVars

-----------------------------------------------------------------------------
(* Properties.                                                             *)

\* The shape of the state: what a turn stores begins inside the list, only
\* resume mode shares its history with a run, and the model that is shown is
\* the one that prompts use.
ReplTypeOK ==
  /\ mode \in {"main", "resume", "quit"}
  /\ place \in {"idle", "turn", "ask", "append", "tools", "save", "last", "over"}
  /\ current \in Ids /\ config \in Ids
  /\ \A s \in Sessions : \A m \in ToSet(db[s]) : m \in Plain \/ m.kind \in {"boundary", "summary"}
  /\ \A m \in ToSet(history \o conv) : m \in Plain \/ m.kind \in {"boundary", "summary"}
  /\ prev \in Nat /\ (place \in {"ask", "append", "tools", "save", "last"} => prev <= Len(conv))
  /\ shared \in BOOLEAN /\ (shared => mode = "resume")
  /\ reply \in {"call", "answer", none} /\ (reply # none <=> place = "append")
  /\ ToSet(events) \subseteq {"call", "answer"}
  /\ turns \in 0 .. MaxTurns
  /\ created \subseteq Sessions /\ current # none => current \in created
  /\ prompts \in 0 .. MaxPrompts
  /\ models.shown \in Models /\ models.backup \in Models \cup {none}
  /\ models.shown = models.used
  /\ {open.mcp, open.teams} \subseteq Nat /\ {open.configured, open.held} \subseteq BOOLEAN
  /\ mode = "quit" => open.teams = 0
  /\ strayed \in BOOLEAN /\ mixed \subseteq Sessions

\* Through new sessions, resumed ones and summaries, made by the user or in a
\* run, what the REPL keeps and what a request sends is the conversation of the
\* current session and of no other, and so are the rows it would be loaded
\* from: except while the history is one that /resume failed to replace, and
\* for sessions whose rows got a summary of such a history.
HistoryOfSession ==
  /\ ~strayed /\ current \notin mixed =>
       \A m \in Recalled(history) \cup Recalled(conv) : m.session = current
  /\ \A s \in Sessions \ mixed : \A m \in Recalled(db[s]) : m.session = s

\* At the prompt, what the REPL remembers, in itself or in a summary, is in the
\* session in which it was said, so that /resume finds it again, unless saving
\* it failed, was cut off or never tried (lost).  Prompts are exempt: no run
\* stores the prompt it began with.
HistoryRecoverable ==
  ~running => \A m \in Recalled(history) :
    \/ m.kind = "prompt" \/ m.session = none
    \/ m \in ToSet(db[m.session]) \/ m \in lost
=============================================================================
