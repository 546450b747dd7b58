----------------------------- MODULE RemoteSession -----------------------------
(***************************************************************************)
(* One remote session (internal/remote): clients on WebSocket connections, *)
(* the agent goroutines (RunAgent) that they start, the prompt channel     *)
(* between them, the broadcast of envelopes, permission requests and       *)
(* interrupts.  Every connection has its own id, and the goroutine a       *)
(* connection starts carries that id.  An agent turn (runOneTurn) is seen  *)
(* from outside: it may ask for permission and it ends; AgentLoop is its   *)
(* inside.                                                                 *)
(***************************************************************************)
EXTENDS Naturals, Sequences, FiniteSets

CONSTANTS
  Clients,     \* connections
  Viewers,     \* those that are viewer-only
  PromptCap,   \* capacity of promptCh (8 in the code)
  SendCap,     \* capacity of a client's sendCh (64 in the code)
  MaxPrompts,  \* bound: prompts sent
  MaxAsks,     \* bound: permission requests made
  MayClose     \* whether RemoteSession.Close is called (no caller does so far)

ASSUME ClientsAssumption == Viewers \subseteq Clients /\ MayClose \in BOOLEAN
ASSUME CapsAssumption == /\ PromptCap \in Nat \ {0} /\ SendCap \in Nat \ {0}
                         /\ MaxPrompts \in Nat /\ MaxAsks \in Nat

VARIABLES
  client,     \* client[c]: where Connect is for c
  sendCh,     \* sendCh[c]: envelopes on their way to c
  seen,       \* seen[c]: permission requests c has received
  fn,         \* fn[c]: the turn whose cancel function interrupt has read, or 0
  agent,      \* agent[a]: where RunAgent is
  running,    \* sess.running
  promptCh,   \* sess.promptCh
  sent,       \* prompts sent so far
  current,    \* current[a]: the prompt a works on, or 0
  served,     \* prompts whose turn is over
  turn,       \* turns begun so far; the latest one's number
  cancelFn,   \* the turn that sess.cancelFn cancels, or 0 for nil
  cancelled,  \* an interrupt has cancelled the loopCtx of the latest turn
  aimed,      \* an interrupt has arrived since that turn began
  asks,       \* permission requests made so far; the latest one's number
  pending,    \* sess.permRequests
  replies,    \* replies[r]: what was sent to ReplyCh of request r
  closed      \* the session's context is cancelled

vars == <<client, sendCh, seen, fn, agent, running, promptCh, sent, current, served,
          turn, cancelFn, cancelled, aimed, asks, pending, replies, closed>>

clientVars == <<client, seen, fn>>
promptVars == <<promptCh, sent>>
turnVars == <<current, served, turn, cancelFn>>
interruptVars == <<cancelled, aimed>>
askVars == <<asks, pending, replies>>

Note == 0               \* any envelope but a permission request
Requests == 1 .. MaxAsks
Prompts == 1 .. MaxPrompts

Init ==
  /\ client = [c \in Clients |-> "none"]
  /\ sendCh = [c \in Clients |-> << >>]
  /\ seen = [c \in Clients |-> {}]
  /\ fn = [c \in Clients |-> 0]
  /\ agent = [a \in Clients |-> "none"]
  /\ running = FALSE
  /\ promptCh = << >> /\ sent = 0
  /\ current = [a \in Clients |-> 0]
  /\ served = << >> /\ turn = 0 /\ cancelFn = 0
  /\ cancelled = FALSE /\ aimed = FALSE
  /\ asks = 0 /\ pending = {} /\ replies = [r \in Requests |-> {}]
  /\ closed = FALSE

-----------------------------------------------------------------------------
(* Envelopes.                                                              *)

Registered == {c \in Clients : client[c] \in {"added", "on"}}

\* Mutant of Queued: the capacity is not respected.
QueuedAlways(queue, envelope) == Append(queue, envelope)

\* Client.send: never blocks; an envelope for a full queue is dropped.
Queued(queue, envelope) ==
  IF Len(queue) < SendCap THEN Append(queue, envelope) ELSE queue

Send(c, envelope) == sendCh' = [sendCh EXCEPT ![c] = Queued(@, envelope)]

\* broadcast, to the clients that are registered, under the read lock.
Broadcast(to, envelope) ==
  sendCh' = [c \in Clients |-> IF c \in to THEN Queued(sendCh[c], envelope) ELSE sendCh[c]]

\* writePump: the next envelope reaches the client.
Deliver(c) ==
  /\ client[c] = "on" /\ sendCh[c] # << >>
  /\ sendCh' = [sendCh EXCEPT ![c] = Tail(@)]
  /\ seen' = [seen EXCEPT ![c] = @ \cup ({Head(sendCh[c])} \ {Note})]
  /\ UNCHANGED <<client, fn, agent, running, closed>>
  /\ UNCHANGED <<promptVars, turnVars, interruptVars, askVars>>

-----------------------------------------------------------------------------
(* Handler.Connect and the messages of a client (readPump).                *)

\* The connection is registered and welcomed.
Connect(c) ==
  /\ client[c] = "none"
  /\ client' = [client EXCEPT ![c] = "added"]
  /\ Send(c, Note)
  /\ UNCHANGED <<seen, fn, agent, running, closed>>
  /\ UNCHANGED <<promptVars, turnVars, interruptVars, askVars>>

\* Mutant of StartAgent: only the first connection starts an agent.
StartAgentFirst(c) ==
  /\ client[c] = "added"
  /\ client' = [client EXCEPT ![c] = "on"]
  /\ agent' = IF c \in Viewers \/ Registered # {c} THEN agent ELSE [agent EXCEPT ![c] = "start"]
  /\ UNCHANGED <<sendCh, seen, fn, running, closed>>
  /\ UNCHANGED <<promptVars, turnVars, interruptVars, askVars>>

\* sess.running is looked at, the lock released, an agent started if need be;
\* then the pumps start.
StartAgent(c) ==
  /\ client[c] = "added"
  /\ client' = [client EXCEPT ![c] = "on"]
  /\ agent' = IF c \in Viewers \/ running THEN agent ELSE [agent EXCEPT ![c] = "start"]
  /\ UNCHANGED <<sendCh, seen, fn, running, closed>>
  /\ UNCHANGED <<promptVars, turnVars, interruptVars, askVars>>

\* A message that is only answered: a ping, an invalid message, an empty
\* prompt, anything but a ping from a viewer.
Answered(c) ==
  /\ client[c] = "on"
  /\ Send(c, Note)
  /\ UNCHANGED <<agent, running, closed>>
  /\ UNCHANGED <<clientVars, promptVars, turnVars, interruptVars, askVars>>

Talks(c) == client[c] = "on" /\ c \notin Viewers

\* Mutant of SendPrompt: a full channel loses its oldest prompt.
SendPromptDropsOldest(c) ==
  /\ Talks(c) /\ sent < MaxPrompts
  /\ sent' = sent + 1
  /\ promptCh' = Append(IF Len(promptCh) < PromptCap THEN promptCh ELSE Tail(promptCh), sent')
  /\ UNCHANGED <<sendCh, agent, running, closed>>
  /\ UNCHANGED <<clientVars, turnVars, interruptVars, askVars>>

\* sendPrompt: a prompt that finds the channel full is refused.
SendPrompt(c) ==
  /\ Talks(c) /\ sent < MaxPrompts
  /\ sent' = sent + 1
  /\ IF Len(promptCh) < PromptCap
     THEN promptCh' = Append(promptCh, sent') /\ UNCHANGED sendCh
     ELSE Send(c, Note) /\ UNCHANGED promptCh
  /\ UNCHANGED <<agent, running, closed>>
  /\ UNCHANGED <<clientVars, turnVars, interruptVars, askVars>>

\* Mutant of Reply: the request stays in permRequests.
ReplyKeepsRequest(c, r, allow) ==
  /\ Talks(c) /\ r \in seen[c] /\ r \in pending
  /\ replies' = [replies EXCEPT ![r] = @ \cup {<<c, allow>>}]
  /\ UNCHANGED <<sendCh, agent, running, asks, pending, closed>>
  /\ UNCHANGED <<clientVars, promptVars, turnVars, interruptVars>>

\* replyPermRequest, for a request the client has received: the one that finds
\* it in permRequests owns it, and the buffered ReplyCh takes the answer.
Reply(c, r, allow) ==
  /\ Talks(c) /\ r \in seen[c]
  /\ IF r \in pending
     THEN /\ pending' = pending \ {r}
          /\ replies' = [replies EXCEPT ![r] = @ \cup {<<c, allow>>}]
          /\ UNCHANGED sendCh
     ELSE Send(c, Note) /\ UNCHANGED <<pending, replies>>
  /\ UNCHANGED <<agent, running, asks, closed>>
  /\ UNCHANGED <<clientVars, promptVars, turnVars, interruptVars>>

\* interrupt, first half: cancelFn is read under the lock.
ReadCancelFn(c) ==
  /\ Talks(c) /\ fn[c] = 0 /\ cancelFn # 0
  /\ fn' = [fn EXCEPT ![c] = cancelFn]
  /\ aimed' = TRUE
  /\ UNCHANGED <<client, sendCh, seen, agent, running, cancelled, closed>>
  /\ UNCHANGED <<promptVars, turnVars, askVars>>

\* Mutant of CallCancelFn: cancelFn is read again when it is called.
CallLatestCancelFn(c) ==
  /\ fn[c] # 0
  /\ cancelled' = TRUE
  /\ fn' = [fn EXCEPT ![c] = 0]
  /\ UNCHANGED <<client, sendCh, seen, agent, running, aimed, closed>>
  /\ UNCHANGED <<promptVars, turnVars, askVars>>

\* interrupt, second half: the function read is called, whatever turn it is now.
CallCancelFn(c) ==
  /\ fn[c] # 0
  /\ cancelled' = (cancelled \/ fn[c] = turn)
  /\ fn' = [fn EXCEPT ![c] = 0]
  /\ UNCHANGED <<client, sendCh, seen, agent, running, aimed, closed>>
  /\ UNCHANGED <<promptVars, turnVars, askVars>>

\* The connection ends: the client is removed and the others are told.
Leave(c) ==
  /\ client[c] = "on" /\ fn[c] = 0
  /\ client' = [client EXCEPT ![c] = "left"]
  /\ sendCh' = [d \in Clients |-> IF d = c THEN << >>
                                  ELSE IF d \in Registered THEN Queued(sendCh[d], Note)
                                  ELSE sendCh[d]]
  /\ seen' = [seen EXCEPT ![c] = {}]
  /\ UNCHANGED <<fn, agent, running, closed>>
  /\ UNCHANGED <<promptVars, turnVars, interruptVars, askVars>>

-----------------------------------------------------------------------------
(* RunAgent.                                                               *)

\* Mutant of Claim: running is not looked at again.
ClaimUnchecked(a) ==
  /\ agent[a] = "start"
  /\ agent' = [agent EXCEPT ![a] = "idle"]
  /\ running' = TRUE
  /\ UNCHANGED <<sendCh, closed>>
  /\ UNCHANGED <<clientVars, promptVars, turnVars, interruptVars, askVars>>

\* Under the lock: only one agent runs.
Claim(a) ==
  /\ agent[a] = "start"
  /\ agent' = [agent EXCEPT ![a] = IF running THEN "end" ELSE "idle"]
  /\ running' = TRUE
  /\ IF running THEN Broadcast(Registered, Note) ELSE UNCHANGED sendCh
  /\ UNCHANGED closed
  /\ UNCHANGED <<clientVars, promptVars, turnVars, interruptVars, askVars>>

\* A prompt is received.
TakePrompt(a) ==
  /\ agent[a] = "idle" /\ promptCh # << >>
  /\ agent' = [agent EXCEPT ![a] = "took"]
  /\ promptCh' = Tail(promptCh)
  /\ current' = [current EXCEPT ![a] = Head(promptCh)]
  /\ UNCHANGED <<sendCh, running, sent, served, turn, cancelFn, closed>>
  /\ UNCHANGED <<clientVars, interruptVars, askVars>>

\* runOneTurn: a context of its own, whose cancel function is published.
StartTurn(a) ==
  /\ agent[a] = "took"
  /\ agent' = [agent EXCEPT ![a] = "turn"]
  /\ turn' = turn + 1 /\ cancelFn' = turn'
  /\ cancelled' = FALSE /\ aimed' = FALSE
  /\ Broadcast(Registered, Note)
  /\ UNCHANGED <<running, current, served, closed>>
  /\ UNCHANGED <<clientVars, promptVars, askVars>>

\* The permission callback: the request is registered and broadcast.
Ask(a) ==
  /\ agent[a] = "turn" /\ asks < MaxAsks
  /\ agent' = [agent EXCEPT ![a] = "ask"]
  /\ asks' = asks + 1
  /\ pending' = pending \cup {asks'}
  /\ Broadcast(Registered, asks')
  /\ UNCHANGED <<running, replies, closed>>
  /\ UNCHANGED <<clientVars, promptVars, turnVars, interruptVars>>

\* The callback waits for the reply or for the end of the session (its ctx is
\* the session's, not the turn's).
TakeReply(a) ==
  /\ agent[a] = "ask"
  /\ replies[asks] # {} \/ closed
  /\ agent' = [agent EXCEPT ![a] = "turn"]
  /\ UNCHANGED <<sendCh, running, closed>>
  /\ UNCHANGED <<clientVars, promptVars, turnVars, interruptVars, askVars>>

\* The turn is over: its context is cancelled, cancelFn keeps pointing to it.
EndTurn(a) ==
  /\ agent[a] = "turn"
  /\ agent' = [agent EXCEPT ![a] = "idle"]
  /\ current' = [current EXCEPT ![a] = 0]
  /\ served' = Append(served, current[a])
  /\ Broadcast(Registered, Note)
  /\ UNCHANGED <<running, turn, cancelFn, closed>>
  /\ UNCHANGED <<clientVars, promptVars, interruptVars, askVars>>

\* RunAgent returns once the session is closed.
Stop(a) ==
  /\ agent[a] = "idle" /\ closed
  /\ agent' = [agent EXCEPT ![a] = "end"]
  /\ running' = FALSE /\ cancelFn' = 0
  /\ UNCHANGED <<sendCh, current, served, turn, closed>>
  /\ UNCHANGED <<clientVars, promptVars, interruptVars, askVars>>

Close ==
  /\ MayClose /\ closed' = TRUE
  /\ UNCHANGED <<sendCh, agent, running>>
  /\ UNCHANGED <<clientVars, promptVars, turnVars, interruptVars, askVars>>

-----------------------------------------------------------------------------

ClientStep(c) ==
  \/ Connect(c) \/ StartAgent(c) \/ Answered(c) \/ SendPrompt(c)
  \/ ReadCancelFn(c) \/ CallCancelFn(c) \/ Leave(c) \/ Deliver(c)
  \/ \E r \in Requests, allow \in BOOLEAN : Reply(c, r, allow)

AgentStep(a) ==
  \/ Claim(a) \/ TakePrompt(a) \/ StartTurn(a) \/ Ask(a) \/ TakeReply(a) \/ EndTurn(a)
  \/ Stop(a)

Next == \/ \E c \in Clients : ClientStep(c) \/ AgentStep(c)
        \/ Close

\* The server's own goroutines run, and a turn that does not wait for an answer
\* ends; clients connect, write, answer and leave as they like.
Spec ==
  /\ Init /\ [][Next]_vars
  /\ \A c \in Clients : /\ WF_vars(AgentStep(c)) /\ WF_vars(EndTurn(c))
                        /\ WF_vars(CallCancelFn(c)) /\ WF_vars(StartAgent(c))

-----------------------------------------------------------------------------
(* Properties.                                                             *)

AgentPoints == {"none", "start", "idle", "took", "turn", "ask", "end"}

\* The shape of the state; the queues respect their capacities.
TypeOK ==
  /\ client \in [Clients -> {"none", "added", "on", "left"}]
  /\ sendCh \in [Clients -> Seq({Note} \cup Requests)]
  /\ \A c \in Clients : Len(sendCh[c]) <= SendCap
  /\ seen \in [Clients -> SUBSET Requests] /\ fn \in [Clients -> Nat]
  /\ agent \in [Clients -> AgentPoints] /\ running \in BOOLEAN
  /\ promptCh \in Seq(Prompts) /\ Len(promptCh) <= PromptCap /\ sent \in 0 .. MaxPrompts
  /\ current \in [Clients -> 0 .. MaxPrompts] /\ served \in Seq(Prompts)
  /\ turn \in Nat /\ cancelFn \in Nat /\ cancelled \in BOOLEAN /\ aimed \in BOOLEAN
  /\ asks \in 0 .. MaxAsks /\ pending \subseteq Requests
  /\ replies \in [Requests -> SUBSET (Clients \X BOOLEAN)]
  /\ closed \in BOOLEAN

Active == {a \in Clients : agent[a] \in {"idle", "took", "turn", "ask"}}
Busy == {a \in Clients : agent[a] \in {"took", "turn", "ask"}}

\* However many connections look at running at the same time, one agent at
\* most gets past Claim, and running says whether there is one.
OneAgent ==
  /\ \A a, b \in Active : a = b
  /\ running <=> Active # {}

\* The goroutines together behave like one server of prompts.
Server == INSTANCE PromptServer WITH
  Prompt <- Prompts, Capacity <- PromptCap, waiting <- promptCh, serving <- {current[a] : a \in Busy},
  served <- served
ImplementsPromptServer == Server!Spec

\* A permission request is answered once, however many clients answer it, and
\* only by a client that may answer; it is in permRequests exactly until then.
AnsweredOnce ==
  /\ \A r \in Requests : \A x, y \in replies[r] : x = y
  /\ \A r \in Requests : \A x \in replies[r] : x[1] \notin Viewers
  /\ pending = {r \in 1 .. asks : replies[r] = {}}

\* Clients that prompt and answer at once share one agent and one answer.
SharedOnce == OneAgent /\ AnsweredOnce

\* An interrupt never hits a turn that began after it arrived, although the
\* function it read is called outside the lock.
InterruptsAim == cancelled => aimed

\* An accepted prompt gets its turn, unless the session is closed or a
\* permission request is left waiting for ever.
PromptsServed ==
  []<>(\A a \in Clients : agent[a] # "ask") =>
    \A p \in Prompts : (\E i \in 1 .. Len(promptCh) : promptCh[i] = p)
                         ~> (\E i \in 1 .. Len(served) : served[i] = p) \/ closed
=============================================================================
