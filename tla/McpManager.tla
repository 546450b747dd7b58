----------------------------- MODULE McpManager -----------------------------
(***************************************************************************)
(* The connections to MCP servers (mcp/manager.go): connecting to all of   *)
(* them at start, the index from a tool's full name to the client that     *)
(* serves it, and calls that reconnect once when they fail.  The callers   *)
(* are the tools of one answer that run side by side and the teammates     *)
(* that share the lead's tools (mcp/tool.go); they hold no lock across a   *)
(* request, so that their reconnections mix.                               *)
(*                                                                         *)
(* A server is what answers over a transport: it may offer other tools     *)
(* when it is connected again, and may fail any request.                   *)
(***************************************************************************)
EXTENDS Naturals, Sequences

CONSTANTS
  Servers,    \* names of the configured servers
  Callers,    \* goroutines that may have a tool call in progress
  Tools,      \* full names of tools (buildToolName)
  Offers,     \* Offers[s]: the sets of tools a server may list
  MaxClients  \* bound: clients created

ASSUME OffersAssumption == Offers \in [Servers -> SUBSET (SUBSET Tools)]

ASSUME CallersAssumption ==
  Servers \cap Callers = {} /\ "none" \notin Tools /\ MaxClients \in Nat

VARIABLES
  servers,    \* Manager.servers: the client of each server, or None
  toolIndex,  \* Manager.toolIndex: the client of each tool, or None
  clients,    \* what each client was connected to, and the tools it found
  closed,     \* clients that were closed
  at,         \* where each goroutine is
  aim,        \* the tool a caller calls, or NoTool
  via,        \* the client it calls it with, or the one it is connecting
  failedOn,   \* the client that failed this call, or None
  registry,   \* the tools that were registered with the agent
  ended,      \* Close was called
  panicked    \* a goroutine read the configuration of a missing server

vars == <<servers, toolIndex, clients, closed, at, aim, via, failedOn, registry,
          ended, panicked>>

None == 0            \* no client
NoTool == "none"
Goroutines == Servers \cup Callers   \* Connect starts one for each server

\* The server a goroutine connects: a caller, that of the client which failed it.
Target(g) == IF g \in Servers THEN g ELSE clients[failedOn[g]].server
Made == 1 .. Len(clients)

Init ==
  /\ servers = [s \in Servers |-> None]
  /\ toolIndex = [t \in Tools |-> None]
  /\ clients = << >> /\ closed = {}
  /\ at = [g \in Goroutines |-> IF g \in Servers THEN "connect" ELSE "wait"]
  /\ aim = [c \in Callers |-> NoTool]
  /\ via = [g \in Goroutines |-> None]
  /\ failedOn = [c \in Callers |-> None]
  /\ registry = {} /\ ended = FALSE /\ panicked = FALSE

-----------------------------------------------------------------------------
(* connectOne, for Connect and for a reconnection.                         *)

ConnectFrame == UNCHANGED <<aim, failedOn, registry, ended, panicked>>

\* Back from a call, whatever its result: MCPTool.Execute turns errors into one.
Idle(c) == /\ at' = [at EXCEPT ![c] = "idle"]
           /\ aim' = [aim EXCEPT ![c] = NoTool]
           /\ via' = [via EXCEPT ![c] = None]
           /\ failedOn' = [failedOn EXCEPT ![c] = None]

\* The transport does not start, the server does not answer Initialize within
\* 30 s or ListTools within 15 s.  A client that was created is closed.
ConnectFails(g) ==
  /\ at[g] = "connect" /\ ~panicked
  /\ IF g \in Callers THEN Idle(g)
     ELSE at' = [at EXCEPT ![g] = "done"] /\ UNCHANGED <<aim, via, failedOn>>
  /\ UNCHANGED <<servers, toolIndex, clients, closed, registry, ended, panicked>>

\* Connected, initialized and listed: a client nobody else knows of.
Discover(g) ==
  /\ at[g] = "connect" /\ ~panicked
  /\ Len(clients) < MaxClients
  /\ \E tools \in Offers[Target(g)] :
       clients' = Append(clients, [server |-> Target(g), tools |-> tools])
  /\ via' = [via EXCEPT ![g] = Len(clients')]
  /\ at' = [at EXCEPT ![g] = "register"]
  /\ UNCHANGED <<servers, toolIndex, closed>> /\ ConnectFrame

\* Mutant of Register: tools that are in the index already are left.
RegisterNew(g) ==
  /\ at[g] = "register" /\ ~panicked
  /\ servers' = [servers EXCEPT ![Target(g)] = via[g]]
  /\ toolIndex' = [t \in Tools |->
       IF t \in clients[via[g]].tools /\ toolIndex[t] = None THEN via[g] ELSE toolIndex[t]]
  /\ at' = [at EXCEPT ![g] = IF g \in Callers THEN "again" ELSE "done"]
  /\ UNCHANGED <<clients, closed, via>> /\ ConnectFrame

\* The server and its tools enter the maps together.
Register(g) ==
  /\ at[g] = "register" /\ ~panicked
  /\ servers' = [servers EXCEPT ![Target(g)] = via[g]]
  /\ toolIndex' = [t \in Tools |->
       IF t \in clients[via[g]].tools THEN via[g] ELSE toolIndex[t]]
  /\ at' = [at EXCEPT ![g] = IF g \in Callers THEN "again" ELSE "done"]
  /\ UNCHANGED <<clients, closed, via>> /\ ConnectFrame

\* Connect has waited for all its goroutines; RegisterTools hands AllTools to
\* the agent.
Connected ==
  /\ \A s \in Servers : at[s] = "done"
  /\ \A c \in Callers : at[c] = "wait"
  /\ registry' = UNION {clients[servers[s]].tools : s \in {r \in Servers : servers[r] # None}}
  /\ at' = [g \in Goroutines |-> IF g \in Callers THEN "idle" ELSE "done"]
  /\ UNCHANGED <<servers, toolIndex, clients, closed, aim, via, failedOn, ended, panicked>>

-----------------------------------------------------------------------------
(* CallTool.                                                               *)

MapFrame == UNCHANGED <<servers, toolIndex, clients, closed, registry, ended>>

\* A tool that is not in the index is not found.
CallTool(c, t) ==
  /\ at[c] = "idle" /\ t \in registry /\ ~panicked
  /\ toolIndex[t] # None
  /\ at' = [at EXCEPT ![c] = "call"]
  /\ aim' = [aim EXCEPT ![c] = t]
  /\ via' = [via EXCEPT ![c] = toolIndex[t]]
  /\ UNCHANGED <<failedOn, panicked>> /\ MapFrame

\* callMCPTool answers; a closed client cannot.
CallAnswered(c) ==
  /\ at[c] \in {"call", "retry"} /\ ~panicked
  /\ via[c] \notin closed
  /\ Idle(c)
  /\ UNCHANGED panicked /\ MapFrame

\* The first request fails, because the process of the server died, the
\* connection broke or the answer was an error of the protocol; the server may
\* have executed it.
CallFails(c) ==
  /\ at[c] = "call" /\ ~panicked
  /\ at' = [at EXCEPT ![c] = "failed"]
  /\ failedOn' = [failedOn EXCEPT ![c] = via[c]]
  /\ UNCHANGED <<aim, via, panicked>> /\ MapFrame

\* reconnectServer reads srv.Config before it looks whether there was a server.
ReadServer(c) ==
  /\ at[c] = "failed" /\ ~panicked
  /\ IF servers[Target(c)] = None
     THEN panicked' = TRUE /\ UNCHANGED at
     ELSE at' = [at EXCEPT ![c] = "clean"] /\ UNCHANGED panicked
  /\ UNCHANGED <<aim, via, failedOn>> /\ MapFrame

\* Mutant of Clean: the tools stay in the index.
CleanServerOnly(c) ==
  /\ at[c] = "clean" /\ ~panicked
  /\ servers' = [servers EXCEPT ![Target(c)] = None]
  /\ at' = [at EXCEPT ![c] = "connect"]
  /\ UNCHANGED <<toolIndex, clients, closed, via>> /\ ConnectFrame

\* The server and its tools leave the maps together; its client stays open.
Clean(c) ==
  /\ at[c] = "clean" /\ ~panicked
  /\ toolIndex' = [t \in Tools |->
       IF toolIndex[t] # None /\ clients[toolIndex[t]].server = Target(c)
       THEN None ELSE toolIndex[t]]
  /\ servers' = [servers EXCEPT ![Target(c)] = None]
  /\ at' = [at EXCEPT ![c] = "connect"]
  /\ UNCHANGED <<clients, closed, via>> /\ ConnectFrame

\* Mutant of LookupAgain: what the index has is not looked at.
LookupAgainUnchecked(c) ==
  /\ at[c] = "again" /\ ~panicked
  /\ at' = [at EXCEPT ![c] = "retry"]
  /\ via' = [via EXCEPT ![c] = toolIndex[aim[c]]]
  /\ UNCHANGED <<aim, failedOn, panicked>> /\ MapFrame

\* The tool is looked up again; the new server may not have it.
LookupAgain(c) ==
  /\ at[c] = "again" /\ ~panicked
  /\ IF toolIndex[aim[c]] = None THEN Idle(c)
     ELSE /\ at' = [at EXCEPT ![c] = "retry"]
          /\ via' = [via EXCEPT ![c] = toolIndex[aim[c]]]
          /\ UNCHANGED <<aim, failedOn>>
  /\ UNCHANGED panicked /\ MapFrame

\* A second failure is the answer.
RetryFails(c) ==
  /\ at[c] = "retry" /\ ~panicked
  /\ Idle(c)
  /\ UNCHANGED panicked /\ MapFrame

\* Close: every client that is registered now.
Close ==
  /\ \A c \in Callers : at[c] # "wait"
  /\ ~ended /\ ~panicked
  /\ ended' = TRUE
  /\ closed' = closed \cup ({servers[s] : s \in Servers} \ {None})
  /\ servers' = [s \in Servers |-> None]
  /\ toolIndex' = [t \in Tools |-> None]
  /\ UNCHANGED <<clients, at, aim, via, failedOn, registry, panicked>>

\* Nothing is in progress, or the process is gone.
Over == /\ panicked \/ \A g \in Goroutines : at[g] \in {"idle", "done"}
        /\ UNCHANGED vars

Next ==
  \/ \E g \in Goroutines : ConnectFails(g) \/ Discover(g) \/ Register(g)
  \/ Connected \/ Close \/ Over
  \/ \E c \in Callers : \E t \in registry : CallTool(c, t)
  \/ \E c \in Callers : \/ CallAnswered(c) \/ CallFails(c) \/ ReadServer(c) \/ Clean(c)
                        \/ LookupAgain(c) \/ RetryFails(c)

Spec == Init /\ [][Next]_vars

-----------------------------------------------------------------------------
(* Properties.                                                             *)

ClientOrNone == Made \cup {None}

\* Clients in the maps and in use exist; a goroutine registers a client of the
\* server it connects, and calls what its client has listed.
TypeOK ==
  /\ servers \in [Servers -> ClientOrNone] /\ toolIndex \in [Tools -> ClientOrNone]
  /\ \A c \in Made : clients[c].tools \in Offers[clients[c].server]
  /\ closed \subseteq Made
  /\ at \in [Goroutines -> {"wait", "connect", "register", "done", "idle", "call", "failed",
                            "clean", "again", "retry"}]
  /\ aim \in [Callers -> registry \cup {NoTool}] /\ registry \subseteq Tools
  /\ via \in [Goroutines -> ClientOrNone] /\ failedOn \in [Callers -> ClientOrNone]
  /\ \A g \in Goroutines :
       at[g] = "register" => via[g] # None /\ clients[via[g]].server = Target(g)
  /\ \A c \in Callers :
       at[c] \in {"call", "retry"} => via[c] # None /\ aim[c] \in clients[via[c]].tools
  /\ ended \in BOOLEAN /\ panicked \in BOOLEAN

\* Two servers may list the tool: normalizeName has made their names one.
Shared(t) == \E r, s \in Servers : r # s /\ t \in UNION Offers[r] /\ t \in UNION Offers[s]

\* The two maps of the manager (manager.go:206-217, 287-294) fit together
\* however reconnections mix: the tools of a registered server are indexed to
\* the client it is registered with, unless another server may list them too,
\* and no tool is indexed to a client whose server is gone, so that no call
\* finds a server the manager has given up.
McpIndexed ==
  /\ \A s \in Servers : servers[s] # None =>
       /\ clients[servers[s]].server = s
       /\ \A t \in clients[servers[s]].tools : toolIndex[t] = servers[s] \/ Shared(t)
  /\ \A t \in Tools : toolIndex[t] # None => servers[clients[toolIndex[t]].server] # None

\* CallTool "attempts one reconnect on failure" (manager.go:248): the second
\* request of a call never goes to the client that failed the first one, also
\* when other callers reconnect the server at the same time; and it goes to the
\* same server, unless another one may list the tool too.
RetryFresh ==
  \A c \in Callers : at[c] = "retry" =>
    /\ via[c] # failedOn[c]
    /\ clients[via[c]].server = clients[failedOn[c]].server \/ Shared(aim[c])

\* Reconnections that mix leave the manager and each call with clients that are
\* to be used.
ReconnectSound == McpIndexed /\ RetryFresh
=============================================================================
