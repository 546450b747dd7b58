------------------------- MODULE RemoteSessionProofs -------------------------
(***************************************************************************)
(* RemoteSession's safety, for any set of connections and viewers, any     *)
(* capacities and bounds, and with or without Close.  The state falls into *)
(* groups that hardly touch each other, so there is an invariant for each: *)
(* the agent goroutines and their prompts, the interrupts, the permission  *)
(* requests.  The first one also carries the refinement of PromptServer.   *)
(***************************************************************************)
EXTENDS RemoteSession, TLAPS

-----------------------------------------------------------------------------
(* The agent goroutines and the prompts.                                   *)

promptGroup == <<agent, running, promptCh, sent, current, served>>

PromptTypes ==
  /\ agent \in [Clients -> AgentPoints] /\ running \in BOOLEAN
  /\ promptCh \in Seq(Prompts) /\ Len(promptCh) <= PromptCap /\ sent \in 0 .. MaxPrompts
  /\ current \in [Clients -> 0 .. MaxPrompts] /\ served \in Seq(Prompts)

\* An agent has a prompt in hand exactly while it is busy with it.
InHand == \A a \in Clients : current[a] # 0 <=> a \in Busy

PromptInv == PromptTypes /\ OneAgent /\ InHand

\* Facts about the points of an agent goroutine.
LEMMA PromptPoints ==
  /\ "start" \notin {"took", "turn", "ask"} /\ "end" \notin {"took", "turn", "ask"}
  /\ "idle" \notin {"took", "turn", "ask"} /\ "none" \notin {"took", "turn", "ask"}
  OBVIOUS

LEMMA PromptInit == Init => PromptInv
<1> SUFFICES ASSUME Init PROVE PromptInv
  OBVIOUS
<1>1. PromptTypes
  <2>1. 0 \in 0 .. MaxPrompts /\ << >> \in Seq(Prompts) /\ Len(<< >>) = 0 /\ 0 <= PromptCap
    BY CapsAssumption
  <2> QED
    BY <2>1 DEF Init, PromptTypes, AgentPoints
<1>2. OneAgent /\ InHand
  BY DEF Init, OneAgent, InHand, Active, Busy
<1> QED
  BY <1>1, <1>2 DEF PromptInv

\* The steps that touch the group.
PromptStep(a) ==
  \/ StartAgent(a) \/ SendPrompt(a) \/ Claim(a) \/ TakePrompt(a) \/ StartTurn(a)
  \/ Ask(a) \/ TakeReply(a) \/ EndTurn(a) \/ Stop(a)

LEMMA PromptSteps == [Next]_vars => UNCHANGED promptGroup \/ \E a \in Clients : PromptStep(a)
<1> SUFFICES ASSUME [Next]_vars, ~ \E a \in Clients : PromptStep(a)
             PROVE  UNCHANGED promptGroup
  OBVIOUS
<1> USE DEF promptGroup, promptVars, turnVars
<1>1. CASE UNCHANGED vars
  BY <1>1 DEF vars
<1>2. CASE Close
  BY <1>2 DEF Close
<1>3. ASSUME NEW c \in Clients, ClientStep(c)
      PROVE  UNCHANGED promptGroup
  <2>1. CASE Connect(c) \/ Answered(c) \/ Leave(c) \/ Deliver(c)
    BY <2>1 DEF Connect, Answered, Leave, Deliver
  <2>2. CASE ReadCancelFn(c) \/ CallCancelFn(c)
    BY <2>2 DEF ReadCancelFn, CallCancelFn
  <2>3. ASSUME NEW r \in Requests, NEW allow \in BOOLEAN, Reply(c, r, allow)
        PROVE  UNCHANGED promptGroup
    BY <2>3 DEF Reply
  <2> QED
    BY <1>3, <2>1, <2>2, <2>3 DEF ClientStep, PromptStep
<1>4. ASSUME NEW a \in Clients, AgentStep(a)
      PROVE  UNCHANGED promptGroup
  BY <1>4 DEF AgentStep, PromptStep
<1> QED
  BY <1>1, <1>2, <1>3, <1>4 DEF Next

\* What a step does to the group, without the rest of the state.
LEMMA PromptNext == PromptInv /\ [Next]_vars => PromptInv'
<1> SUFFICES ASSUME PromptInv, [Next]_vars
             PROVE  PromptInv'
  OBVIOUS
<1>1. CASE UNCHANGED promptGroup
  BY <1>1 DEF promptGroup, PromptInv, PromptTypes, OneAgent, InHand, Active, Busy
<1>2. ASSUME NEW a \in Clients, PromptStep(a)
      PROVE  PromptInv'
  <2> USE DEF PromptInv, PromptTypes, OneAgent, InHand, Active, Busy, AgentPoints
  <2>1. CASE StartAgent(a)
    BY <2>1 DEF StartAgent, promptVars, turnVars
  <2>2. CASE SendPrompt(a)
    <3>1. sent' = sent + 1 /\ sent' \in Prompts
      BY <2>2, CapsAssumption DEF SendPrompt, Prompts
    <3>2. promptCh' \in Seq(Prompts) /\ Len(promptCh') <= PromptCap
      <4>1. CASE Len(promptCh) < PromptCap
        <5>1. promptCh' = Append(promptCh, sent')
          BY <2>2, <4>1 DEF SendPrompt
        <5>2. Len(promptCh') = Len(promptCh) + 1 /\ promptCh' \in Seq(Prompts)
          BY <3>1, <5>1
        <5> QED
          BY <4>1, <5>2, CapsAssumption
      <4>2. CASE ~(Len(promptCh) < PromptCap)
        BY <2>2, <4>2 DEF SendPrompt
      <4> QED
        BY <4>1, <4>2
    <3>3. UNCHANGED <<agent, running, current, served>>
      BY <2>2 DEF SendPrompt, turnVars
    <3>4. PromptTypes'
      BY <3>1, <3>2, <3>3 DEF Prompts
    <3>5. OneAgent' /\ InHand'
      BY <3>3
    <3> QED
      BY <3>4, <3>5
  <2>3. CASE Claim(a)
    BY <2>3 DEF Claim, promptVars, turnVars
  <2>4. CASE TakePrompt(a)
    <3>1. /\ Head(promptCh) \in Prompts /\ Tail(promptCh) \in Seq(Prompts)
          /\ Len(Tail(promptCh)) <= PromptCap
      BY <2>4, CapsAssumption DEF TakePrompt
    <3>2. /\ current' = [current EXCEPT ![a] = Head(promptCh)]
          /\ Head(promptCh) # 0 /\ Head(promptCh) \in 0 .. MaxPrompts
      <4>1. Head(promptCh) # 0 /\ Head(promptCh) \in 0 .. MaxPrompts
        BY ONLY <3>1, CapsAssumption DEF Prompts
      <4> QED
        BY <2>4, <4>1 DEF TakePrompt
    <3>3. PromptTypes'
      BY <2>4, <3>1, <3>2 DEF TakePrompt
    <3>4. OneAgent' /\ InHand'
      BY <2>4, <3>2 DEF TakePrompt
    <3> QED
      BY <3>3, <3>4
  <2>5. CASE StartTurn(a) \/ Ask(a) \/ TakeReply(a)
    BY <2>5 DEF StartTurn, Ask, TakeReply, promptVars, turnVars
  <2>6. CASE EndTurn(a)
    <3>1. current[a] \in Prompts
      BY <2>6, CapsAssumption DEF EndTurn, Prompts
    <3> QED
      BY <2>6, <3>1, CapsAssumption DEF EndTurn, promptVars
  <2>7. CASE Stop(a)
    <3>1. Active = {a} /\ agent[a] = "idle"
      BY <2>7 DEF Stop
    <3>2. agent' = [agent EXCEPT ![a] = "end"] /\ running' = FALSE
      BY <2>7 DEF Stop
    <3>3. Active' = {} /\ Busy' = Busy
      BY <3>1, <3>2
    <3> QED
      BY <2>7, <3>2, <3>3 DEF Stop, promptVars
  <2> QED
    BY <1>2, <2>1, <2>2, <2>3, <2>4, <2>5, <2>6, <2>7 DEF PromptStep
<1> QED
  BY <1>1, <1>2, PromptSteps

LEMMA PromptInvariant == Spec => []PromptInv
  BY PromptInit, PromptNext, PTL DEF Spec

\* However many connections find running to be false at the same time, at most
\* one agent works, and running says whether there is one.
THEOREM OneAgentRuns == Spec => []OneAgent
<1>1. PromptInv => OneAgent
  BY DEF PromptInv
<1> QED
  BY <1>1, PromptInvariant, PTL

-----------------------------------------------------------------------------
(* The refinement.                                                         *)

serving == {current[a] : a \in Busy}

\* A step of the group is a step of the abstract server, or none.
LEMMA ServerStep == PromptInv /\ [Next]_vars => [Server!Next]_(Server!vars)
<1> SUFFICES ASSUME PromptInv, [Next]_vars
             PROVE  [Server!Next]_(Server!vars)
  OBVIOUS
<1> USE DEF serving, Server!vars
<1>1. CASE UNCHANGED promptGroup
  BY <1>1 DEF promptGroup, Busy
<1>2. ASSUME NEW a \in Clients, StartAgent(a) \/ Claim(a) \/ StartTurn(a) \/ Ask(a) \/ TakeReply(a)
                                \/ Stop(a)
      PROVE  UNCHANGED <<promptCh, serving, served>>
  <2>1. UNCHANGED <<promptCh, current, served>>
    BY <1>2 DEF StartAgent, Claim, StartTurn, Ask, TakeReply, Stop, promptVars, turnVars
  <2>2. Busy' = Busy
    <3>1. agent \in [Clients -> AgentPoints]
      BY DEF PromptInv, PromptTypes
    <3>2. CASE agent' = agent
      BY <3>2 DEF Busy
    <3>3. CASE ~running /\ agent' = [agent EXCEPT ![a] = "start"]
      <4>1. agent[a] \notin {"took", "turn", "ask"}
        BY <3>3 DEF PromptInv, OneAgent, Active
      <4> QED
        BY <3>1, <3>3, <4>1, PromptPoints DEF Busy
    <3>4. ASSUME NEW p \in {"idle", "end"}, agent[a] \in {"start", "idle"},
                 agent' = [agent EXCEPT ![a] = p]
          PROVE  Busy' = Busy
      BY <3>1, <3>4, PromptPoints DEF Busy
    <3>5. ASSUME NEW p \in {"took", "turn", "ask"}, agent[a] \in {"took", "turn", "ask"},
                 agent' = [agent EXCEPT ![a] = p]
          PROVE  Busy' = Busy
      BY <3>1, <3>5 DEF Busy
    <3>6. CASE StartAgent(a)
      BY <3>2, <3>3, <3>6 DEF StartAgent
    <3>7. CASE Claim(a)
      BY <3>4, <3>7 DEF Claim
    <3>8. CASE StartTurn(a) \/ Ask(a) \/ TakeReply(a)
      BY <3>5, <3>8 DEF StartTurn, Ask, TakeReply
    <3>9. CASE Stop(a)
      BY <3>4, <3>9 DEF Stop
    <3> QED
      BY <1>2, <3>6, <3>7, <3>8, <3>9
  <2> QED
    BY <2>1, <2>2
<1>3. ASSUME NEW a \in Clients, SendPrompt(a)
      PROVE  Server!Next \/ UNCHANGED <<promptCh, serving, served>>
  <2>1. sent' \in Prompts
    BY <1>3, CapsAssumption DEF SendPrompt, Prompts, PromptInv, PromptTypes
  <2>2. UNCHANGED <<serving, served>>
    BY <1>3 DEF SendPrompt, turnVars, Busy
  <2>3. CASE Len(promptCh) < PromptCap
    <3>1. Server!Accept(sent')
      BY <1>3, <2>2, <2>3 DEF SendPrompt, Server!Accept
    <3> QED
      BY <2>1, <3>1 DEF Server!Next
  <2>4. CASE ~(Len(promptCh) < PromptCap)
    BY <1>3, <2>2, <2>4 DEF SendPrompt
  <2> QED
    BY <2>3, <2>4
<1>4. ASSUME NEW a \in Clients, TakePrompt(a)
      PROVE  Server!Begin
  <2>1. Busy = {}
    BY <1>4 DEF TakePrompt, PromptInv, OneAgent, Active, Busy
  <2>2. agent' = [agent EXCEPT ![a] = "took"] /\ agent \in [Clients -> AgentPoints]
    BY <1>4 DEF TakePrompt, PromptInv, PromptTypes
  <2>3. Busy' = {a}
    BY <2>1, <2>2 DEF Busy
  <2>4. current'[a] = Head(promptCh)
    BY <1>4 DEF TakePrompt, PromptInv, PromptTypes
  <2>5. serving = {} /\ serving' = {Head(promptCh)}
    BY <2>1, <2>3, <2>4
  <2> QED
    BY <1>4, <2>5 DEF TakePrompt, Server!Begin
<1>5. ASSUME NEW a \in Clients, EndTurn(a)
      PROVE  Server!End
  <2>1. Busy = {a}
    BY <1>5 DEF EndTurn, PromptInv, OneAgent, Active, Busy
  <2>2. agent' = [agent EXCEPT ![a] = "idle"] /\ agent \in [Clients -> AgentPoints]
    BY <1>5 DEF EndTurn, PromptInv, PromptTypes
  <2>3. Busy' = {}
    BY <2>1, <2>2 DEF Busy
  <2>4. serving = {current[a]} /\ serving' = {}
    BY <2>1, <2>3
  <2> QED
    BY <1>5, <2>4 DEF EndTurn, promptVars, Server!End
<1> QED
  BY <1>1, <1>2, <1>3, <1>4, <1>5, PromptSteps DEF PromptStep, Server!Next

\* The goroutines together behave like one server that takes the accepted
\* prompts one at a time, in order, each of them once.
THEOREM Implementation == Spec => ImplementsPromptServer
<1>1. Init => Server!Init
  BY DEF Init, Server!Init, Busy
<1> QED
  BY <1>1, ServerStep, PromptInvariant, PTL DEF Spec, ImplementsPromptServer, Server!Spec

-----------------------------------------------------------------------------
(* Interrupts.                                                             *)

\* A cancel function that has been read belongs to a turn that has begun; if
\* it is the latest turn, an interrupt has been aimed at it.
InterruptInv ==
  /\ fn \in [Clients -> Nat] /\ turn \in Nat /\ cancelFn \in Nat /\ cancelFn <= turn
  /\ \A c \in Clients : fn[c] <= turn /\ (fn[c] # 0 /\ fn[c] = turn => aimed)
  /\ cancelled => aimed

interruptGroup == <<fn, turn, cancelFn, cancelled, aimed>>

InterruptStep(a) == ReadCancelFn(a) \/ CallCancelFn(a) \/ StartTurn(a) \/ Stop(a)

LEMMA InterruptSteps ==
  [Next]_vars => UNCHANGED interruptGroup \/ \E a \in Clients : InterruptStep(a)
<1> SUFFICES ASSUME [Next]_vars, ~ \E a \in Clients : InterruptStep(a)
             PROVE  UNCHANGED interruptGroup
  OBVIOUS
<1> USE DEF interruptGroup, clientVars, turnVars, interruptVars
<1>1. CASE UNCHANGED vars
  BY <1>1 DEF vars
<1>2. CASE Close
  BY <1>2 DEF Close
<1>3. ASSUME NEW c \in Clients, ClientStep(c)
      PROVE  UNCHANGED interruptGroup
  <2>1. CASE Connect(c) \/ StartAgent(c) \/ Answered(c) \/ SendPrompt(c) \/ Leave(c) \/ Deliver(c)
    BY <2>1 DEF Connect, StartAgent, Answered, SendPrompt, Leave, Deliver
  <2>2. ASSUME NEW r \in Requests, NEW allow \in BOOLEAN, Reply(c, r, allow)
        PROVE  UNCHANGED interruptGroup
    BY <2>2 DEF Reply
  <2> QED
    BY <1>3, <2>1, <2>2 DEF ClientStep, InterruptStep
<1>4. ASSUME NEW a \in Clients, AgentStep(a)
      PROVE  UNCHANGED interruptGroup
  <2>1. CASE Claim(a) \/ TakePrompt(a) \/ Ask(a) \/ TakeReply(a) \/ EndTurn(a)
    BY <2>1 DEF Claim, TakePrompt, Ask, TakeReply, EndTurn
  <2> QED
    BY <1>4, <2>1 DEF AgentStep, InterruptStep
<1> QED
  BY <1>1, <1>2, <1>3, <1>4 DEF Next

LEMMA InterruptInvariant == Spec => []InterruptInv
<1>1. Init => InterruptInv
  <2> SUFFICES ASSUME Init PROVE InterruptInv
    OBVIOUS
  <2>1. fn = [c \in Clients |-> 0] /\ turn = 0 /\ cancelFn = 0 /\ cancelled = FALSE /\ aimed = FALSE
    BY DEF Init
  <2> QED
    BY <2>1 DEF InterruptInv
<1>2. InterruptInv /\ [Next]_vars => InterruptInv'
  <2> SUFFICES ASSUME InterruptInv, [Next]_vars
               PROVE  InterruptInv'
    OBVIOUS
  <2> USE DEF InterruptInv
  <2>1. CASE UNCHANGED interruptGroup
    BY <2>1 DEF interruptGroup
  <2>2. ASSUME NEW a \in Clients, ReadCancelFn(a)
        PROVE  InterruptInv'
    BY <2>2 DEF ReadCancelFn, turnVars
  <2>3. ASSUME NEW a \in Clients, CallCancelFn(a)
        PROVE  InterruptInv'
    <3>1. fn' = [fn EXCEPT ![a] = 0] /\ UNCHANGED <<turn, cancelFn, aimed>>
      BY <2>3 DEF CallCancelFn, turnVars
    <3>2. cancelled' => cancelled \/ (fn[a] # 0 /\ fn[a] = turn)
      BY <2>3 DEF CallCancelFn
    <3>3. cancelled' => aimed'
      BY <3>1, <3>2
    <3>4. /\ fn' \in [Clients -> Nat]
          /\ \A c \in Clients : fn'[c] = 0 \/ fn'[c] = fn[c]
      BY <3>1
    <3> QED
      BY <3>1, <3>3, <3>4
  <2>4. ASSUME NEW a \in Clients, StartTurn(a)
        PROVE  InterruptInv'
    <3>1. /\ turn' = turn + 1 /\ cancelFn' = turn' /\ cancelled' = FALSE /\ aimed' = FALSE
          /\ fn' = fn
      BY <2>4 DEF StartTurn, clientVars
    <3> QED
      BY <3>1
  <2>5. ASSUME NEW a \in Clients, Stop(a)
        PROVE  InterruptInv'
    BY <2>5 DEF Stop, clientVars, interruptVars
  <2> QED
    BY <2>1, <2>2, <2>3, <2>4, <2>5, InterruptSteps DEF InterruptStep
<1> QED
  BY <1>1, <1>2, PTL DEF Spec

\* An interrupt never hits a turn that began after it arrived, although the
\* function it read is called outside the lock.
THEOREM InterruptsAimWell == Spec => []InterruptsAim
<1>1. InterruptInv => InterruptsAim
  BY DEF InterruptInv, InterruptsAim
<1> QED
  BY <1>1, InterruptInvariant, PTL

-----------------------------------------------------------------------------
(* Permission requests.                                                    *)

askGroup == <<asks, pending, replies>>

AskInv ==
  /\ asks \in 0 .. MaxAsks
  /\ replies \in [Requests -> SUBSET (Clients \X BOOLEAN)]
  /\ \A r \in Requests : replies[r] # {} => r <= asks
  /\ AnsweredOnce

LEMMA AskSteps ==
  [Next]_vars => \/ UNCHANGED askGroup
                 \/ \E a \in Clients : \/ Ask(a)
                                       \/ \E r \in Requests, allow \in BOOLEAN : Reply(a, r, allow)
<1> SUFFICES ASSUME [Next]_vars,
                    ~ \E a \in Clients : \/ Ask(a)
                                         \/ \E r \in Requests, allow \in BOOLEAN : Reply(a, r, allow)
             PROVE  UNCHANGED askGroup
  OBVIOUS
<1> USE DEF askGroup, askVars
<1>1. CASE UNCHANGED vars
  BY <1>1 DEF vars
<1>2. CASE Close
  BY <1>2 DEF Close
<1>3. ASSUME NEW c \in Clients, ClientStep(c)
      PROVE  UNCHANGED askGroup
  <2>1. CASE Connect(c) \/ StartAgent(c) \/ Answered(c) \/ SendPrompt(c) \/ Leave(c) \/ Deliver(c)
    BY <2>1 DEF Connect, StartAgent, Answered, SendPrompt, Leave, Deliver
  <2>2. CASE ReadCancelFn(c) \/ CallCancelFn(c)
    BY <2>2 DEF ReadCancelFn, CallCancelFn
  <2> QED
    BY <1>3, <2>1, <2>2 DEF ClientStep
<1>4. ASSUME NEW a \in Clients, AgentStep(a)
      PROVE  UNCHANGED askGroup
  <2>1. CASE Claim(a) \/ TakePrompt(a) \/ StartTurn(a) \/ TakeReply(a) \/ EndTurn(a) \/ Stop(a)
    BY <2>1 DEF Claim, TakePrompt, StartTurn, TakeReply, EndTurn, Stop
  <2> QED
    BY <1>4, <2>1 DEF AgentStep
<1> QED
  BY <1>1, <1>2, <1>3, <1>4 DEF Next

\* A new request has no answer yet; the one who answers takes it off pending.
LEMMA AskNext == AskInv /\ [Next]_vars => AskInv'
<1> SUFFICES ASSUME AskInv, [Next]_vars
             PROVE  AskInv'
  OBVIOUS
<1> USE CapsAssumption DEF AskInv, AnsweredOnce
<1>1. CASE UNCHANGED askGroup
  BY <1>1 DEF askGroup
<1>2. ASSUME NEW a \in Clients, Ask(a)
      PROVE  AskInv'
  <2>1. /\ asks' = asks + 1 /\ asks < MaxAsks /\ replies' = replies
        /\ pending' = pending \cup {asks'}
    BY <1>2 DEF Ask
  <2>2. asks' \in Requests /\ asks' \in 0 .. MaxAsks
    BY <2>1 DEF Requests
  <2>3. replies[asks'] = {}
    BY <2>1, <2>2
  <2>4. 1 .. asks' = (1 .. asks) \cup {asks'}
    BY <2>1
  <2> QED
    BY <2>1, <2>2, <2>3, <2>4
<1>3. ASSUME NEW c \in Clients, NEW r \in Requests, NEW allow \in BOOLEAN, Reply(c, r, allow)
      PROVE  AskInv'
  <2>1. CASE r \in pending
    <3>1. /\ pending' = pending \ {r} /\ asks' = asks
          /\ replies' = [replies EXCEPT ![r] = @ \cup {<<c, allow>>}]
          /\ c \notin Viewers
      BY <1>3, <2>1 DEF Reply, Talks
    <3>2. r \in 1 .. asks /\ replies[r] = {}
      BY <2>1
    <3>3. replies' = [replies EXCEPT ![r] = {<<c, allow>>}]
      BY <3>1, <3>2
    <3>4. replies' \in [Requests -> SUBSET (Clients \X BOOLEAN)]
      BY <3>3
    <3>5. \A q \in Requests : replies'[q] = IF q = r THEN {<<c, allow>>} ELSE replies[q]
      BY <3>3
    <3>6. pending' = {q \in 1 .. asks' : replies'[q] = {}}
      <4>1. \A q \in 1 .. asks : q \in Requests
        BY DEF Requests
      <4>2. <<c, allow>> \in {<<c, allow>>}
        OBVIOUS
      <4>3. \A q \in 1 .. asks : replies'[q] = {} <=> (q # r /\ replies[q] = {})
        BY <3>5, <4>1, <4>2
      <4> QED
        BY <3>1, <3>2, <4>3
    <3>7. \A q \in Requests : replies'[q] # {} => q <= asks'
      BY <3>1, <3>2, <3>5
    <3>8. \A q \in Requests : \A x, y \in replies'[q] : x = y
      BY <3>5
    <3>9. \A q \in Requests : \A x \in replies'[q] : x[1] \notin Viewers
      BY <3>1, <3>5
    <3> QED
      BY <3>1, <3>4, <3>6, <3>7, <3>8, <3>9
  <2>2. CASE r \notin pending
    BY <1>3, <2>2 DEF Reply
  <2> QED
    BY <2>1, <2>2
<1> QED
  BY <1>1, <1>2, <1>3, AskSteps

LEMMA AskInvariant == Spec => []AskInv
<1>1. Init => AskInv
  <2> SUFFICES ASSUME Init PROVE AskInv
    OBVIOUS
  <2>1. asks = 0 /\ pending = {} /\ replies = [r \in Requests |-> {}]
    BY DEF Init
  <2> QED
    BY <2>1, CapsAssumption DEF AskInv, AnsweredOnce
<1> QED
  BY <1>1, AskNext, PTL DEF Spec

\* A permission request is answered once, however many clients answer it, by a
\* client that may answer, and it is in permRequests exactly until then.
THEOREM AnswersAreUnique == Spec => []AnsweredOnce
<1>1. AskInv => AnsweredOnce
  BY DEF AskInv
<1> QED
  BY <1>1, AskInvariant, PTL

-----------------------------------------------------------------------------
(* Envelopes, and the shape of the whole state.                            *)

Envelopes == {Note} \cup Requests
QueueOK(q) == q \in Seq(Envelopes) /\ Len(q) <= SendCap

DeliveryInv ==
  /\ client \in [Clients -> {"none", "added", "on", "left"}]
  /\ sendCh \in [Clients -> Seq(Envelopes)] /\ \A c \in Clients : QueueOK(sendCh[c])
  /\ seen \in [Clients -> SUBSET Requests]
  /\ cancelled \in BOOLEAN /\ aimed \in BOOLEAN /\ closed \in BOOLEAN

LEMMA QueuedOK == ASSUME NEW q, QueueOK(q), NEW e \in Envelopes
                  PROVE  QueueOK(Queued(q, e))
  BY CapsAssumption DEF QueueOK, Queued

LEMMA TailOK == ASSUME NEW q, QueueOK(q), q # << >>
                PROVE  QueueOK(Tail(q)) /\ Head(q) \in Envelopes
  BY CapsAssumption DEF QueueOK

\* What a step may do to the queues.
Shuffled ==
  /\ DOMAIN sendCh' = Clients /\ sendCh' = [c \in Clients |-> sendCh'[c]]
  /\ \A c \in Clients : \/ sendCh'[c] = sendCh[c] \/ sendCh'[c] = << >>
                        \/ \E e \in Envelopes : sendCh'[c] = Queued(sendCh[c], e)
                        \/ sendCh[c] # << >> /\ sendCh'[c] = Tail(sendCh[c])

LEMMA ShuffledOK ==
  ASSUME DeliveryInv, Shuffled
  PROVE  sendCh' \in [Clients -> Seq(Envelopes)] /\ \A c \in Clients : QueueOK(sendCh'[c])
<1>1. ASSUME NEW c \in Clients
      PROVE  QueueOK(sendCh'[c])
  <2>1. QueueOK(sendCh[c])
    BY DEF DeliveryInv
  <2>2. QueueOK(<< >>)
    BY CapsAssumption DEF QueueOK
  <2> QED
    BY <2>1, <2>2, QueuedOK, TailOK DEF Shuffled
<1> QED
  BY <1>1 DEF Shuffled, QueueOK

LEMMA SendShuffles ==
  ASSUME DeliveryInv, NEW c \in Clients, Send(c, Note)
  PROVE  Shuffled
  BY DEF DeliveryInv, Send, Shuffled, Envelopes

LEMMA BroadcastShuffles ==
  ASSUME DeliveryInv, NEW to, NEW e \in Envelopes, Broadcast(to, e)
  PROVE  Shuffled
  BY DEF DeliveryInv, Broadcast, Shuffled

LEMMA StillShuffles ==
  ASSUME DeliveryInv, UNCHANGED sendCh
  PROVE  Shuffled
  BY DEF DeliveryInv, Shuffled

\* A step that only shuffles the queues as far as this group is concerned.
LEMMA OnlyShuffles ==
  ASSUME DeliveryInv, Shuffled,
         client' \in [Clients -> {"none", "added", "on", "left"}],
         seen' \in [Clients -> SUBSET Requests],
         cancelled' \in BOOLEAN, aimed' \in BOOLEAN, closed' \in BOOLEAN
  PROVE  DeliveryInv'
  BY ShuffledOK DEF DeliveryInv, QueueOK

LEMMA ClientStepDelivery ==
  ASSUME DeliveryInv, NEW c \in Clients, ClientStep(c)
  PROVE  DeliveryInv'
<1> USE DEF clientVars, interruptVars
<1>0. /\ client \in [Clients -> {"none", "added", "on", "left"}]
      /\ seen \in [Clients -> SUBSET Requests]
      /\ cancelled \in BOOLEAN /\ aimed \in BOOLEAN /\ closed \in BOOLEAN
  BY DEF DeliveryInv
<1>1. CASE Connect(c)
  BY <1>0, <1>1, SendShuffles, OnlyShuffles DEF Connect
<1>2. CASE StartAgent(c)
  BY <1>0, <1>2, StillShuffles, OnlyShuffles DEF StartAgent
<1>3. CASE Answered(c)
  BY <1>0, <1>3, SendShuffles, OnlyShuffles DEF Answered
<1>4. CASE SendPrompt(c)
  BY <1>0, <1>4, SendShuffles, StillShuffles, OnlyShuffles DEF SendPrompt
<1>5. CASE ReadCancelFn(c)
  BY <1>0, <1>5, StillShuffles, OnlyShuffles DEF ReadCancelFn
<1>6. CASE CallCancelFn(c)
  BY <1>0, <1>6, StillShuffles, OnlyShuffles DEF CallCancelFn
<1>7. CASE Leave(c)
  <2>1. Note \in Envelopes
    BY DEF Envelopes
  <2>2. Shuffled
    BY <1>7, <2>1 DEF Leave, Shuffled
  <2> QED
    BY <1>0, <1>7, <2>2, OnlyShuffles DEF Leave
<1>8. CASE Deliver(c)
  <2>1. sendCh[c] # << >> /\ QueueOK(sendCh[c])
    BY <1>8 DEF Deliver, DeliveryInv
  <2>2. Head(sendCh[c]) \in Envelopes
    BY <2>1, TailOK
  <2>3. Shuffled
    BY <1>8, <2>1 DEF Deliver, DeliveryInv, Shuffled
  <2>4. {Head(sendCh[c])} \ {Note} \subseteq Requests
    BY <2>2 DEF Envelopes
  <2>5. seen' \in [Clients -> SUBSET Requests]
    BY <1>0, <1>8, <2>4 DEF Deliver
  <2> QED
    BY <1>0, <1>8, <2>3, <2>5, OnlyShuffles DEF Deliver
<1>9. ASSUME NEW r \in Requests, NEW allow \in BOOLEAN, Reply(c, r, allow)
      PROVE  DeliveryInv'
  BY <1>0, <1>9, SendShuffles, StillShuffles, OnlyShuffles DEF Reply
<1> QED
  BY <1>1, <1>2, <1>3, <1>4, <1>5, <1>6, <1>7, <1>8, <1>9 DEF ClientStep

LEMMA AgentStepDelivery ==
  ASSUME DeliveryInv, AskInv, NEW a \in Clients, AgentStep(a)
  PROVE  DeliveryInv'
<1> USE DEF clientVars, interruptVars
<1>0. /\ client \in [Clients -> {"none", "added", "on", "left"}]
      /\ seen \in [Clients -> SUBSET Requests]
      /\ cancelled \in BOOLEAN /\ aimed \in BOOLEAN /\ closed \in BOOLEAN
      /\ Note \in Envelopes
  BY DEF DeliveryInv, Envelopes
<1>1. CASE Claim(a)
  BY <1>0, <1>1, BroadcastShuffles, StillShuffles, OnlyShuffles DEF Claim
<1>2. CASE TakePrompt(a)
  BY <1>0, <1>2, StillShuffles, OnlyShuffles DEF TakePrompt
<1>3. CASE StartTurn(a)
  BY <1>0, <1>3, BroadcastShuffles, OnlyShuffles DEF StartTurn
<1>4. CASE Ask(a)
  <2>1. asks' \in Envelopes
    BY <1>4, CapsAssumption DEF Ask, AskInv, Envelopes, Requests
  <2> QED
    BY <1>0, <1>4, <2>1, BroadcastShuffles, OnlyShuffles DEF Ask
<1>5. CASE TakeReply(a)
  BY <1>0, <1>5, StillShuffles, OnlyShuffles DEF TakeReply
<1>6. CASE EndTurn(a)
  BY <1>0, <1>6, BroadcastShuffles, OnlyShuffles DEF EndTurn
<1>7. CASE Stop(a)
  BY <1>0, <1>7, StillShuffles, OnlyShuffles DEF Stop
<1> QED
  BY <1>1, <1>2, <1>3, <1>4, <1>5, <1>6, <1>7 DEF AgentStep

LEMMA DeliveryNext == DeliveryInv /\ AskInv /\ [Next]_vars => DeliveryInv'
<1> SUFFICES ASSUME DeliveryInv, AskInv, [Next]_vars
             PROVE  DeliveryInv'
  OBVIOUS
<1>1. CASE Close
  BY <1>1, StillShuffles, OnlyShuffles DEF Close, clientVars, interruptVars, DeliveryInv
<1>2. CASE UNCHANGED vars
  BY <1>2 DEF vars, DeliveryInv
<1> QED
  BY <1>1, <1>2, ClientStepDelivery, AgentStepDelivery DEF Next

\* The shape of the state; no queue exceeds its capacity.
THEOREM TypeCorrect == Spec => []TypeOK
<1>1. Init => DeliveryInv
  <2>1. QueueOK(<< >>)
    BY CapsAssumption DEF QueueOK
  <2> QED
    BY <2>1 DEF Init, DeliveryInv, QueueOK
<1>2. PromptInv /\ InterruptInv /\ AskInv /\ DeliveryInv => TypeOK
  <2> SUFFICES ASSUME PromptInv, InterruptInv, AskInv, DeliveryInv
               PROVE  TypeOK
    OBVIOUS
  <2>1. pending \subseteq Requests
    BY CapsAssumption DEF AskInv, AnsweredOnce, Requests
  <2> QED
    BY <2>1 DEF TypeOK, PromptInv, PromptTypes, InterruptInv, AskInv, DeliveryInv, QueueOK,
                Envelopes
<1> QED
  BY <1>1, <1>2, PromptInvariant, InterruptInvariant, AskInvariant, DeliveryNext, PTL DEF Spec

\* One agent and one answer for a session, however many clients prompt and
\* answer (remote/runner.go 16-44, session.go 179-192).
THEOREM SessionIsShared == Spec => []SharedOnce
  BY OneAgentRuns, AnswersAreUnique, PTL DEF SharedOnce
=============================================================================
