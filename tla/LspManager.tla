----------------------------- MODULE LspManager -----------------------------
(***************************************************************************)
(* One language server behind lsp/manager.go and lsp/client.go.  Its       *)
(* callers are the goroutines of the LSP tool, which is concurrency-safe   *)
(* and so runs several at a time, and the agent loop, which reports edited *)
(* files.  The first caller starts the server under the instance's lock;   *)
(* a read loop matches answers to waiting requests; the process may die at *)
(* any moment.  Manager.Shutdown, which nothing calls, is left out.        *)
(***************************************************************************)
EXTENDS Naturals, FiniteSets

CONSTANTS
  Callers,      \* goroutines that use the manager
  Files,        \* files of the server's language
  MaxRestarts,  \* ServerConfig.MaxRestarts
  MaxCalls      \* bound: calls made

ASSUME LimitsAssumption == MaxRestarts \in Nat \ {0} /\ MaxCalls \in Nat

free == "free"

ASSUME CallersAssumption == free \notin Callers

VARIABLES
  pc,           \* pc[c]: where caller c is
  file,         \* file[c]: the file it asks about
  op,           \* op[c]: "query" (LSPTool) or "change" (ChangeFile and SaveFile)
  goal,         \* goal[c]: where it goes on once the server runs
  req,          \* req[c]: the id of its request
  lock,         \* the caller that holds ServerInstance.mu
  state,        \* Client.state; IsHealthy is "running"
  restartCount, \* Client.restartCount
  restarts,     \* clients made to replace a failed one
  proc,         \* the number of the process started last
  alive,        \* the processes that live
  shook,        \* what the process has of the handshake
  inbox,        \* ids of the requests it works on
  jams,         \* its pipes that block: "stdin", full and not read, and
                \* "stderr", which a descendant of the process holds open
  pending,      \* Client.pending: ids that wait for an answer
  reading,      \* id the read loop took out of pending and not yet sent on, or 0
  sent,         \* ids whose channel got an answer
  closed,       \* ids whose channel was closed
  opened,       \* Manager.openedFiles
  didOpen,      \* didOpen[f]: didOpen messages the process got for f
  used,         \* files the process was asked about or told changes of
  nextID,       \* Client.nextID
  calls         \* calls made

procVars == <<proc, alive, shook, inbox, jams>>
chanVars == <<pending, reading, sent, closed, nextID>>
docVars == <<opened, didOpen, used>>
instVars == <<lock, state, restartCount, restarts>>
callVars == <<file, op, calls>>
vars == <<pc, goal, req, procVars, chanVars, docVars, instVars, callVars>>

Alive == proc \in alive
IsHealthy == state = "running"

\* A write to the process comes to its end; a write to a dead one fails.
Writes == "stdin" \notin jams

Init ==
  /\ pc = [c \in Callers |-> "idle"] /\ goal = [c \in Callers |-> "none"]
  /\ file \in [Callers -> Files] /\ op = [c \in Callers |-> "query"]
  /\ req = [c \in Callers |-> 0]
  /\ lock = free /\ state = "stopped" /\ restartCount = 0 /\ restarts = 0
  /\ proc = 0 /\ alive = {} /\ shook = "none" /\ inbox = {} /\ jams = {}
  /\ pending = {} /\ reading = 0 /\ sent = {} /\ closed = {} /\ nextID = 0
  /\ opened = {} /\ didOpen = [f \in Files |-> 0] /\ used = {}
  /\ calls = 0

Goto(c, point) == pc' = [pc EXCEPT ![c] = point]

\* The call fails: the LSP tool returns the error, the agent loop ignores that
\* of ChangeFile and goes on to SaveFile.
Failed(c) == IF op[c] = "query" THEN "idle" ELSE "didSave"

\* EnsureServerStarted, then on to the point given.
Ensure(c, point) == Goto(c, "ensure") /\ goal' = [goal EXCEPT ![c] = point]

-----------------------------------------------------------------------------
(* Calls and the lock.                                                     *)

\* The LSP tool asks about f; the agent loop reports that f has changed.
Call(c, f, kind) ==
  /\ pc[c] = "idle" /\ calls < MaxCalls
  /\ calls' = calls + 1
  /\ file' = [file EXCEPT ![c] = f] /\ op' = [op EXCEPT ![c] = kind]
  /\ IF kind = "query" THEN Ensure(c, "check")
     ELSE IF f \in opened /\ IsHealthy
     THEN Goto(c, "didChange") /\ UNCHANGED goal
     ELSE Ensure(c, "open")
  /\ UNCHANGED <<req, procVars, chanVars, docVars, instVars>>

\* Mutant of Lock: the instance's mutex is not taken.
LockFree(c) ==
  /\ pc[c] = "ensure" /\ lock' = c
  /\ Goto(c, IF IsHealthy THEN goal[c] ELSE IF state = "error" THEN "restart" ELSE "start")
  /\ UNCHANGED <<goal, req, procVars, chanVars, docVars, state, restartCount, restarts,
                 callVars>>

\* EnsureServerStarted takes the lock and looks at the state.
Lock(c) ==
  /\ pc[c] = "ensure" /\ lock = free
  /\ CASE IsHealthy -> Goto(c, goal[c]) /\ UNCHANGED lock
       [] state = "error" /\ restartCount >= MaxRestarts -> Goto(c, Failed(c)) /\ UNCHANGED lock
       [] state = "error" /\ restartCount < MaxRestarts -> Goto(c, "restart") /\ lock' = c
       [] state \notin {"running", "error"} -> Goto(c, "start") /\ lock' = c
  /\ UNCHANGED <<goal, req, procVars, chanVars, docVars, state, restartCount, restarts,
                 callVars>>

\* Client.Start: the command runs, with new pipes, or cannot be run.
Start(c) ==
  /\ pc[c] = "start"
  /\ \/ /\ proc' = proc + 1 /\ alive' = alive \cup {proc'}
        /\ shook' = "none" /\ inbox' = {}
        /\ state' = "starting"
        /\ Goto(c, "initialize") /\ UNCHANGED lock
     \/ /\ state' = "error"
        /\ Goto(c, Failed(c)) /\ lock' = free
        /\ UNCHANGED <<proc, alive, shook, inbox>>
  /\ jams' = {}
  /\ UNCHANGED <<goal, req, chanVars, docVars, restartCount, restarts, callVars>>

-----------------------------------------------------------------------------
(* Requests.                                                               *)

\* Mutant of SendRequest: the id is read before the counter moves on.
SendRequestOld(c, waiting, failed) ==
  /\ Writes
  /\ nextID' = nextID + 1
  /\ IF Alive
     THEN /\ req' = [req EXCEPT ![c] = nextID]
          /\ pending' = pending \cup {nextID} /\ inbox' = inbox \cup {nextID}
          /\ Goto(c, waiting)
     ELSE Goto(c, failed) /\ UNCHANGED <<req, pending, inbox>>
  /\ UNCHANGED <<reading, sent, closed, proc, alive, jams>>

\* sendRequestCtx: registered and written, in front of any timeout: the write
\* to a process that does not read blocks.  If it fails, the request is forgotten.
SendRequest(c, waiting, failed) ==
  /\ Writes
  /\ nextID' = nextID + 1
  /\ IF Alive
     THEN /\ req' = [req EXCEPT ![c] = nextID']
          /\ pending' = pending \cup {nextID'} /\ inbox' = inbox \cup {nextID'}
          /\ Goto(c, waiting)
     ELSE Goto(c, failed) /\ UNCHANGED <<req, pending, inbox>>
  /\ UNCHANGED <<reading, sent, closed, proc, alive, jams>>

\* Client.Initialize: the handshake, under a timeout.
Initialize(c) ==
  /\ pc[c] = "initialize"
  /\ SendRequest(c, "initializing", "failed")
  /\ shook' = IF Alive THEN "asked" ELSE shook
  /\ UNCHANGED <<goal, docVars, instVars, callVars>>

\* The answer of the handshake is a result or an error.
HandshakeAnswered(c) ==
  /\ pc[c] = "initializing" /\ req[c] \in sent
  /\ Goto(c, "initialized") \/ Goto(c, "failed")
  /\ UNCHANGED <<goal, req, procVars, chanVars, docVars, instVars, callVars>>

\* The initialized notification is written, without a timeout, and the server
\* runs; or the write fails.
Initialized(c) ==
  /\ pc[c] = "initialized" /\ Writes
  /\ IF Alive
     THEN /\ shook' = "done" /\ state' = "running" /\ lock' = free
          /\ Goto(c, goal[c])
     ELSE Goto(c, "failed") /\ UNCHANGED <<shook, state, lock>>
  /\ UNCHANGED <<goal, req, proc, alive, inbox, jams, chanVars, docVars, restartCount, restarts,
                 callVars>>

\* Mutant of TimeOut: the handshake has none.
TimeOutStopping(c) ==
  /\ pc[c] = "stopping"
  /\ pending' = pending \ {req[c]}
  /\ Goto(c, "exit")
  /\ UNCHANGED <<goal, req, procVars, reading, sent, closed, nextID, docVars, instVars,
                 callVars>>

\* The context of a handshake or of a shutdown request runs out.
TimeOut(c) ==
  /\ pc[c] \in {"initializing", "stopping"}
  /\ pending' = pending \ {req[c]}
  /\ Goto(c, IF pc[c] = "initializing" THEN "failed" ELSE "exit")
  /\ UNCHANGED <<goal, req, procVars, reading, sent, closed, nextID, docVars, instVars,
                 callVars>>

\* The tool's own request, without a timeout.
Query(c) ==
  /\ pc[c] = "query"
  /\ IF IsHealthy
     THEN /\ SendRequest(c, "wait", "idle")
          /\ used' = IF Alive THEN used \cup {file[c]} ELSE used
     ELSE Goto(c, "idle") /\ UNCHANGED <<req, used, inbox, proc, alive, jams, chanVars>>
  /\ UNCHANGED <<goal, shook, opened, didOpen, instVars, callVars>>

\* An answer, or the closing of its channel, ends the wait.
Answered(c) ==
  /\ pc[c] = "wait" /\ req[c] \in sent \cup closed
  /\ Goto(c, "idle")
  /\ UNCHANGED <<goal, req, procVars, chanVars, docVars, instVars, callVars>>

-----------------------------------------------------------------------------
(* Shutdown: after a failed handshake, or of the client that a new one     *)
(* replaces.                                                               *)

\* The client is stopped; the shutdown request has a timeout.  The state of a
\* failed handshake, StateError, is seen by nobody under the lock.
Shutdown(c) ==
  /\ pc[c] \in {"failed", "restart"}
  /\ state' = "stopping"
  /\ SendRequest(c, "stopping", "exit")
  /\ goal' = IF pc[c] = "restart" THEN goal ELSE [goal EXCEPT ![c] = "none"]
  /\ UNCHANGED <<shook, docVars, lock, restartCount, restarts, callVars>>

StopAnswered(c) ==
  /\ pc[c] = "stopping" /\ req[c] \in sent
  /\ Goto(c, "exit")
  /\ UNCHANGED <<goal, req, procVars, chanVars, docVars, instVars, callVars>>

\* Mutant of Kill: Shutdown trusts the exit notification.
KillNothing(c) ==
  /\ pc[c] = "exit" /\ Writes
  /\ Goto(c, "reap")
  /\ UNCHANGED <<goal, req, procVars, chanVars, docVars, instVars, callVars>>

\* The exit notification, without a timeout, three seconds at most for the read
\* loop to end, and Kill.
Kill(c) ==
  /\ pc[c] = "exit" /\ Writes
  /\ alive' = alive \ {proc} /\ inbox' = {}
  /\ Goto(c, "reap")
  /\ UNCHANGED <<goal, req, proc, shook, jams, chanVars, docVars, instVars, callVars>>

\* cmd.Wait, without a timeout: it waits for the end of the process's stderr too.
Reap(c) ==
  /\ pc[c] = "reap" /\ "stderr" \notin jams
  /\ Goto(c, "drain")
  /\ UNCHANGED <<goal, req, procVars, chanVars, docVars, instVars, callVars>>

\* Pending channels are closed; a failed start ends here, a restart goes on
\* with a new client, which has its own counter.
Drain(c) ==
  /\ pc[c] = "drain"
  /\ closed' = closed \cup pending /\ pending' = {}
  /\ state' = "stopped"
  /\ IF goal[c] = "none"
     THEN Goto(c, Failed(c)) /\ lock' = free /\ UNCHANGED <<restartCount, restarts>>
     ELSE /\ Goto(c, "start")
          /\ restartCount' = 1 /\ restarts' = restarts + 1
          /\ UNCHANGED lock
  /\ UNCHANGED <<goal, req, procVars, reading, sent, nextID, docVars, callVars>>

-----------------------------------------------------------------------------
(* Documents.                                                              *)

\* ensureFileOpen: an unopened file is read, which may fail, and opened.
Check(c) ==
  /\ pc[c] = "check"
  /\ IF file[c] \in opened
     THEN Goto(c, "query") /\ UNCHANGED goal
     ELSE Ensure(c, "open") \/ (Goto(c, "idle") /\ UNCHANGED goal)
  /\ UNCHANGED <<req, procVars, chanVars, docVars, instVars, callVars>>

\* Where a call goes on once its file is open.
AfterOpen(c) == IF op[c] = "query" THEN "query" ELSE "didSave"

\* OpenFile looks into openedFiles under m.mu ...
OpenCheck(c) ==
  /\ pc[c] = "open"
  /\ Goto(c, IF file[c] \in opened THEN AfterOpen(c) ELSE "didOpen")
  /\ UNCHANGED <<goal, req, procVars, chanVars, docVars, instVars, callVars>>

\* Mutant of DidOpen: the file is recorded before it is sent.
DidOpenLate(c) ==
  /\ pc[c] = "didOpen"
  /\ opened' = opened \cup {file[c]}
  /\ Goto(c, "record")
  /\ UNCHANGED <<goal, req, procVars, chanVars, didOpen, used, instVars, callVars>>

\* ... sends didOpen without the lock ...
DidOpen(c) ==
  /\ pc[c] = "didOpen" /\ Writes
  /\ IF Alive
     THEN didOpen' = [didOpen EXCEPT ![file[c]] = @ + 1] /\ Goto(c, "record")
     ELSE Goto(c, Failed(c)) /\ UNCHANGED didOpen
  /\ UNCHANGED <<goal, req, procVars, chanVars, opened, used, instVars, callVars>>

\* ... and records it under the lock again.
RecordOpen(c) ==
  /\ pc[c] = "record"
  /\ opened' = opened \cup {file[c]}
  /\ Goto(c, AfterOpen(c))
  /\ UNCHANGED <<goal, req, procVars, chanVars, didOpen, used, instVars, callVars>>

\* The didChange of ChangeFile; a failed write is ignored by the loop.
DidChange(c) ==
  /\ pc[c] = "didChange" /\ Writes
  /\ used' = IF Alive THEN used \cup {file[c]} ELSE used
  /\ Goto(c, "didSave")
  /\ UNCHANGED <<goal, req, procVars, chanVars, opened, didOpen, instVars, callVars>>

\* SaveFile, for a file that is open in a server that runs.
DidSave(c) ==
  /\ pc[c] = "didSave"
  /\ IF IsHealthy /\ file[c] \in opened
     THEN Writes /\ used' = IF Alive THEN used \cup {file[c]} ELSE used
     ELSE UNCHANGED used
  /\ Goto(c, "idle")
  /\ UNCHANGED <<goal, req, procVars, chanVars, opened, didOpen, instVars, callVars>>

-----------------------------------------------------------------------------
(* The read loop and the process.                                          *)

\* Mutant of Receive: the entry stays in pending until it is sent on.
ReceiveKeeps(id) ==
  /\ Alive /\ reading = 0
  /\ id \in inbox /\ inbox' = inbox \ {id}
  /\ reading' = IF id \in pending THEN id ELSE 0
  /\ UNCHANGED <<pc, goal, req, proc, alive, shook, jams, pending, sent, closed, nextID, docVars,
                 instVars, callVars>>

\* The server answers and the read loop looks the request up, removing it
\* under the lock.  A server may also fall silent, or send what ends the loop.
Receive(id) ==
  /\ Alive /\ reading = 0
  /\ id \in inbox /\ inbox' = inbox \ {id}
  /\ pending' = pending \ {id}
  /\ reading' = IF id \in pending THEN id ELSE 0
  /\ UNCHANGED <<pc, goal, req, proc, alive, shook, jams, sent, closed, nextID, docVars,
                 instVars, callVars>>

\* It sends the answer on, outside the lock.
Deliver ==
  /\ reading # 0
  /\ sent' = sent \cup {reading} /\ reading' = 0
  /\ UNCHANGED <<pc, goal, req, procVars, pending, closed, nextID, docVars, instVars,
                 callVars>>

\* The process dies; nothing tells the client.
Die ==
  /\ Alive
  /\ alive' = alive \ {proc} /\ inbox' = {}
  /\ UNCHANGED <<pc, goal, req, proc, shook, jams, chanVars, docVars, instVars, callVars>>

\* The process stops reading its input and the pipe is full, or one that it has
\* started keeps a pipe open, which may outlive it.
Jam(pipe) ==
  /\ Alive /\ pipe \notin jams
  /\ jams' = jams \cup {pipe}
  /\ UNCHANGED <<pc, goal, req, proc, alive, shook, inbox, chanVars, docVars, instVars, callVars>>

Unjam(pipe) ==
  /\ pipe \in jams
  /\ jams' = jams \ {pipe}
  /\ UNCHANGED <<pc, goal, req, proc, alive, shook, inbox, chanVars, docVars, instVars, callVars>>

CallerStep(c) ==
  \/ Lock(c) \/ Start(c) \/ Initialize(c) \/ HandshakeAnswered(c) \/ Initialized(c) \/ TimeOut(c)
  \/ Query(c) \/ Answered(c) \/ Shutdown(c) \/ StopAnswered(c) \/ Kill(c) \/ Reap(c) \/ Drain(c)
  \/ Check(c) \/ OpenCheck(c) \/ DidOpen(c) \/ RecordOpen(c) \/ DidChange(c) \/ DidSave(c)

Next ==
  \/ \E c \in Callers : CallerStep(c)
  \/ \E c \in Callers, f \in Files, kind \in {"query", "change"} : Call(c, f, kind)
  \/ \E id \in inbox : Receive(id)
  \/ Deliver \/ Die
  \/ \E pipe \in {"stdin", "stderr"} : Jam(pipe) \/ Unjam(pipe)

\* Callers run, timers fire, mutexes are fair, whoever waits for a pipe is woken
\* when it moves, and the read loop goes on; the server answers, stops reading
\* or dies as it likes.
Spec ==
  /\ Init /\ [][Next]_vars
  /\ \A c \in Callers : SF_vars(CallerStep(c))
  /\ WF_vars(Deliver)

-----------------------------------------------------------------------------
(* Properties.                                                             *)

Points == {"idle", "ensure", "start", "initialize", "initializing", "initialized", "failed",
           "restart", "stopping", "exit", "reap", "drain", "check", "open", "didOpen", "record", "didChange",
           "didSave", "query", "wait", "none"}

\* The shape of the state.
TypeOK ==
  /\ pc \in [Callers -> Points] /\ goal \in [Callers -> Points]
  /\ file \in [Callers -> Files] /\ op \in [Callers -> {"query", "change"}]
  /\ req \in [Callers -> Nat] /\ lock \in Callers \cup {free}
  /\ state \in {"stopped", "starting", "running", "stopping", "error"}
  /\ restartCount \in Nat /\ restarts \in Nat
  /\ proc \in Nat /\ alive \subseteq 1 .. proc /\ shook \in {"none", "asked", "done"}
  /\ jams \subseteq {"stdin", "stderr"}
  /\ inbox \subseteq 1 .. nextID /\ pending \subseteq 1 .. nextID
  /\ reading \in 0 .. nextID /\ sent \subseteq 1 .. nextID /\ closed \subseteq 1 .. nextID
  /\ opened \subseteq Files /\ used \subseteq Files /\ didOpen \in [Files -> Nat]
  /\ nextID \in Nat /\ calls \in 0 .. MaxCalls

\* However many callers find the server stopped at once, and however often
\* its start fails, there is one process at most.
OneProcess == Cardinality(alive) <= 1

\* A channel that Shutdown closes is never sent on: the read loop takes an
\* entry out of pending before it sends, and Shutdown closes what is left.
NoSendOnClosed == reading \notin closed /\ sent \cap closed = {}

\* One process and its channels, whoever starts and stops it.
ProcessSound == OneProcess /\ NoSendOnClosed

\* No file is mentioned to the process before the handshake with it is over.
HandshakeFirst == shook # "done" => used = {} /\ \A f \in Files : didOpen[f] = 0

\* The process is asked about, or told changes of, files that it was told to
\* open, although callers see a file as open on the word of another caller.
OpenedFirst == \A f \in used : didOpen[f] > 0

\* The server hears of a file after the handshake and its opening.
OpenedInOrder == HandshakeFirst /\ OpenedFirst

\* Blocked on a pipe: no timeout of the code is about that.
Blocked(c) ==
  \/ "stdin" \in jams /\ pc[c] \in {"initialize", "initialized", "failed", "restart", "exit", "query",
                                   "didOpen", "didChange", "didSave"}
  \/ "stderr" \in jams /\ pc[c] = "reap"

\* Every call returns, but for three things that the server can do: it does not
\* answer the tool's own request; it stops reading, and the call, or the one
\* that holds the lock it needs, is writing; a process it has started keeps its
\* stderr, and the call, or the holder of the lock, is reaping it.  A server
\* that fails the handshake, answers late or dies holds nobody up.
CallsReturn ==
  \A c \in Callers : \/ []<>(pc[c] = "idle")
                     \/ <>[](pc[c] = "wait" /\ req[c] \in pending)
                     \/ <>[]Blocked(c)
                     \/ <>[](pc[c] = "ensure" /\ lock # free /\ Blocked(lock))
=============================================================================
