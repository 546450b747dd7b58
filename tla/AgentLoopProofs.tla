--------------------------- MODULE AgentLoopProofs ---------------------------
(***************************************************************************)
(* Safety of one run of the agent loop, for any tools, any configurations  *)
(* and any bounds.  The type invariant comes first, one group of variables *)
(* at a time, from lemmas about the operators that build messages; the     *)
(* safety theorems strengthen it with what they need.  The last part is    *)
(* about the conversation: what is answered in it and what is stored of it.*)
(***************************************************************************)
EXTENDS AgentLoop, FiniteSetTheorems, TLAPS

-----------------------------------------------------------------------------
(* The operators that build messages.                                      *)

Kinds == {"prompt", "text", "nudge", "summary", "assistant", "cut"} \cup ResultKinds

LEMMA PlainType == ASSUME NEW k \in Kinds PROVE Plain(k) \in Message
BY DEF Plain, Message, Kinds

LEMMA TextType ==
  ASSUME NEW n \in Nat
  PROVE  Text(n) \in Seq(Message) /\ Len(Text(n)) = n
<1>1. Plain("text") \in Message
  BY PlainType DEF Kinds
<1> QED
  BY <1>1 DEF Text

\* Reminders, notes of hooks and the refresh are no message or one.
LEMMA TextIf ==
  ASSUME NEW P PROVE Text(IF P THEN 1 ELSE 0) \in Seq(Message)
BY TextType

LEMMA ResultsType ==
  ASSUME NEW kind \in ResultKinds, NEW calls \in SUBSET Call
  PROVE  Results(kind, calls) \in Seq(Message)
<1>1. [kind |-> kind, calls |-> calls, by |-> "none"] \in Message
  BY DEF Message
<1> QED
  BY <1>1 DEF Results

LEMMA StripType ==
  ASSUME NEW s \in Seq(Message), NEW keep
  PROVE  StripThinking(s, keep) \in Seq(Message) /\ Len(StripThinking(s, keep)) = Len(s)
<1>1. ASSUME NEW i \in 1 .. Len(s)
      PROVE  (IF s[i].by = keep THEN s[i] ELSE [s[i] EXCEPT !.by = "none"]) \in Message
  <2>1. s[i] \in Message
    OBVIOUS
  <2>2. [s[i] EXCEPT !.by = "none"] \in Message
    BY <2>1 DEF Message
  <2> QED
    BY <2>1, <2>2
<1> QED
  BY <1>1 DEF StripThinking

LEMMA CutsType ==
  ASSUME NEW rows \in Seq(Message), NEW part \in Cuts(rows)
  PROVE  part \in Seq(Message)
<1>1. PICK k \in 1 .. Len(rows) :
        part \in {SubSeq(rows, 1, k - 1) \o Results(rows[k].kind, calls) :
                    calls \in IF rows[k].kind \in ResultKinds
                              THEN SUBSET rows[k].calls \ {rows[k].calls} ELSE {{}}}
  BY DEF Cuts
<1>2. PICK calls \in SUBSET rows[k].calls :
        /\ part = SubSeq(rows, 1, k - 1) \o Results(rows[k].kind, calls)
        /\ rows[k].kind \in ResultKinds \/ calls = {}
  BY <1>1
<1>3. SubSeq(rows, 1, k - 1) \in Seq(Message)
  OBVIOUS
<1>4. Results(rows[k].kind, calls) \in Seq(Message)
  <2>1. rows[k] \in Message
    OBVIOUS
  <2>2. rows[k].calls \subseteq Call
    BY <2>1 DEF Message
  <2>3. CASE calls = {}
    BY <2>3 DEF Results
  <2>4. CASE rows[k].kind \in ResultKinds
    BY <1>2, <2>2, <2>4, ResultsType
  <2> QED
    BY <1>2, <2>3, <2>4
<1> QED
  BY <1>2, <1>3, <1>4

Lists == msgs \in Seq(Message) /\ store \in Seq(Message) /\ prev \in Nat

\* What a save leaves in the store.
LEMMA PersistType ==
  ASSUME NEW list \in Seq(Message), Lists, Persist(list)
  PROVE  store' \in Seq(Message)
<1> DEFINE rows == SubSeq(list, prev + 1, Len(list))
<1>1. rows \in Seq(Message)
  BY DEF Lists
<1>2. CASE store' = store \o rows
  BY <1>1, <1>2 DEF Lists
<1>3. CASE store' = store
  BY <1>3 DEF Lists
<1>4. ASSUME NEW part \in Cuts(rows), store' = store \o part
      PROVE  store' \in Seq(Message)
  <2>1. part \in Seq(Message)
    BY <1>1, <1>4, CutsType
  <2> QED
    BY <1>4, <2>1 DEF Lists
<1> QED
  BY <1>2, <1>3, <1>4 DEF Persist

LEMMA AfterMailType ==
  ASSUME msgs \in Seq(Message), mail \in [{"task", "inbox"} -> Nat]
  PROVE  AfterMail \in Seq(Message)
<1> DEFINE some == {c \in DOMAIN mail : mail[c] > 0}
<1>1. IsFiniteSet({"task", "inbox"})
  <2>1. IsFiniteSet({"task"} \cup {"inbox"})
    BY FS_Singleton, FS_AddElement
  <2>2. {"task", "inbox"} = {"task"} \cup {"inbox"}
    OBVIOUS
  <2> QED
    BY <2>1, <2>2
<1>2. IsFiniteSet(some)
  BY <1>1, FS_Subset, some \subseteq {"task", "inbox"}
<1>3. Cardinality(some) \in Nat
  BY <1>2, FS_CardinalityType
<1> HIDE DEF some
<1>4. Text(Cardinality(some)) \in Seq(Message)
  BY <1>3, TextType
<1> QED
  BY <1>4 DEF AfterMail, some

LEMMA AnswerType ==
  ASSUME msgs \in Seq(Message), blocks \subseteq Call, model \in {"primary", "backup"},
         NEW kind \in {"assistant", "cut"}
  PROVE  Answer(kind) \in Seq(Message)
<1>1. [kind |-> kind, calls |-> blocks, by |-> model] \in Message
  BY DEF Message
<1> QED
  BY <1>1 DEF Answer

-----------------------------------------------------------------------------
(* The type invariant.                                                     *)

LEMMA ListsInit == Init => Lists
<1>1. Plain("prompt") \in Message
  BY PlainType DEF Kinds
<1> QED
  BY <1>1 DEF Init, Lists

ListStep ==
  \/ TopLimit \/ TopTurn \/ AutoCompact \/ RateLimited \/ PromptTooLong \/ StreamEmpty
  \/ Interrupted \/ Truncated \/ Completed \/ Answered \/ Permission \/ PlanGate
  \/ HookGate \/ Collect

LEMMA ListSteps == [Next]_vars => UNCHANGED <<msgs, store, prev>> \/ ListStep
<1> SUFFICES ASSUME [Next]_vars, ~ListStep PROVE UNCHANGED <<msgs, store, prev>>
  OBVIOUS
<1>1. CASE UNCHANGED vars
  BY <1>1 DEF vars
<1>2. CASE LoopStep
  BY <1>2 DEF LoopStep, ListStep, TopCancelled, Request, ServerError, FatalError, Backoff,
              Execute, ErrorFrame
<1>3. CASE MemoryExtracted \/ Cancel \/ Over
  BY <1>3 DEF MemoryExtracted, Cancel, Over, vars
<1>4. ASSUME NEW t \in cfg.tools, StreamToolUse(t) PROVE UNCHANGED <<msgs, store, prev>>
  BY <1>4 DEF StreamToolUse
<1>5. ASSUME NEW call \in running, ToolReturns(call) PROVE UNCHANGED <<msgs, store, prev>>
  BY <1>5 DEF ToolReturns
<1>6. ASSUME NEW c \in DOMAIN mail, MailArrives(c) PROVE UNCHANGED <<msgs, store, prev>>
  BY <1>6 DEF MailArrives
<1> QED
  BY <1>1, <1>2, <1>3, <1>4, <1>5, <1>6 DEF Next

\* What the lists need to know of the other variables.
Around ==
  /\ mail \in [{"task", "inbox"} -> Nat] /\ model \in {"primary", "backup"}
  /\ blocks \in SUBSET Call

LEMMA ListsNext == Lists /\ Around /\ [Next]_vars => Lists'
<1> SUFFICES ASSUME Lists, Around, ListStep PROVE Lists'
  BY ListSteps DEF Lists
<1>a. msgs \in Seq(Message) /\ store \in Seq(Message) /\ prev \in Nat
  BY DEF Lists
<1>b. mail \in [{"task", "inbox"} -> Nat] /\ model \in {"primary", "backup"}
      /\ blocks \in SUBSET Call
  BY DEF Around
<1>c. AfterMail \in Seq(Message) /\ Text(1) \in Seq(Message)
  BY <1>a, <1>b, AfterMailType, TextType
<1>d. Summary \in Seq(Message)
  <2>1. Plain("summary") \in Message
    BY PlainType DEF Kinds
  <2> QED
    BY <2>1 DEF Summary
<1>e. ASSUME msgs' \in Seq(Message), Persist(msgs'), UNCHANGED prev
      PROVE  Lists'
  BY <1>a, <1>e, PersistType DEF Lists
<1>f. ASSUME msgs' \in Seq(Message), UNCHANGED <<store, prev>>
      PROVE  Lists'
  BY <1>a, <1>f DEF Lists
<1>1. CASE TopLimit
  BY <1>1, <1>c, <1>f DEF TopLimit
<1>2. CASE TopTurn
  <2>1. PICK n \in {0, 1} : msgs' = AfterMail \o Text(n)
    BY <1>2 DEF TopTurn
  <2>2. msgs' \in Seq(Message)
    BY <2>1, <1>c, TextType
  <2>3. Len(AfterMail) \in Nat
    BY <1>c
  <2> QED
    BY <1>2, <1>a, <2>2, <2>3 DEF TopTurn, Lists
<1>3. CASE AutoCompact
  BY <1>3, <1>a, <1>d DEF AutoCompact, Lists
<1>4. CASE RateLimited
  <2>1. msgs' = msgs \/ msgs' = StripThinking(msgs, "backup")
    BY <1>4 DEF RateLimited
  <2> QED
    BY <1>4, <2>1, <1>a, <1>f, StripType DEF RateLimited, ErrorFrame
<1>5. CASE PromptTooLong
  BY <1>5, <1>a, <1>d, <1>f DEF PromptTooLong, ErrorFrame
<1>6. CASE StreamEmpty \/ Interrupted
  <2>1. msgs \o Results("interrupted", blocks) \in Seq(Message)
    BY <1>a, <1>b, ResultsType DEF ResultKinds, RefusalKinds
  <2> QED
    BY <1>6, <2>1, <1>a, <1>e, <1>f DEF StreamEmpty, Interrupted, AnswerFrame
<1>7. CASE Truncated
  <2>1. Plain("nudge") \in Message
    BY PlainType DEF Kinds
  <2>2. Append(Answer("cut"), Plain("nudge")) \in Seq(Message)
    BY <2>1, <1>a, <1>b, AnswerType
  <2> QED
    BY <1>7, <2>2, <1>e DEF Truncated, AnswerFrame
<1>8. CASE Completed
  <2>1. Answer("assistant") \in Seq(Message) /\ Answer("assistant") \o Text(1) \in Seq(Message)
    BY <1>a, <1>b, <1>c, AnswerType
  <2> QED
    BY <1>8, <2>1, <1>e DEF Completed, AnswerFrame
<1>9. CASE Answered
  BY <1>9, <1>a, <1>b, <1>f, AnswerType DEF Answered, AnswerFrame
<1>10. CASE Permission
  <2>1. PICK no \in SUBSET Asked : msgs' = msgs \o Results("denied", no)
    BY <1>10 DEF Permission
  <2>2. msgs' \in Seq(Message)
    <3>1. no \in SUBSET Call
      BY <1>b DEF Asked
    <3> QED
      BY <2>1, <3>1, <1>a, ResultsType DEF ResultKinds, RefusalKinds
  <2> QED
    BY <1>10, <2>2, <1>e, <1>f DEF Permission, GateFrame
<1>11. CASE PlanGate
  <2>1. PlanBlocked \in SUBSET Call
    BY <1>b DEF PlanBlocked
  <2>2. msgs' \in Seq(Message)
    BY <1>11, <2>1, <1>a, ResultsType DEF PlanGate, ResultKinds, RefusalKinds
  <2> QED
    BY <1>11, <2>2, <1>e, <1>f DEF PlanGate, GateFrame
<1>12. CASE HookGate
  <2>1. PICK no \in SUBSET blocks, notes \in {0, 1} :
          msgs' = msgs \o Results("denied", no) \o Text(notes) \o Reminders(blocks \ no)
    BY <1>12 DEF HookGate
  <2>2. msgs' \in Seq(Message)
    <3>1. msgs \o Results("denied", no) \in Seq(Message)
      <4>1. no \in SUBSET Call /\ "denied" \in ResultKinds
        BY <1>b DEF ResultKinds, RefusalKinds
      <4>2. Results("denied", no) \in Seq(Message)
        BY <4>1, ResultsType
      <4> QED
        BY <1>a, <4>2
    <3>2. Text(notes) \in Seq(Message) /\ Reminders(blocks \ no) \in Seq(Message)
      BY TextType, TextIf DEF Reminders
    <3>3. msgs \o Results("denied", no) \o Text(notes) \in Seq(Message)
      BY <3>1, <3>2
    <3>4. ASSUME NEW s \in Seq(Message), NEW t \in Seq(Message) PROVE s \o t \in Seq(Message)
      OBVIOUS
    <3> QED
      BY <2>1, <3>2, <3>3, <3>4, Zenon
  <2> QED
    BY <1>12, <2>2, <1>e, <1>f DEF HookGate, GateFrame
<1>13. CASE Collect
  <2>1. PICK notes \in {0, 1} : msgs' = msgs \o Results("result", blocks) \o Text(notes)
    BY <1>13 DEF Collect
  <2>2. msgs' \in Seq(Message)
    <3>1. Results("result", blocks) \in Seq(Message)
      BY <1>b, ResultsType DEF ResultKinds
    <3>2. msgs \o Results("result", blocks) \in Seq(Message)
      BY <1>a, <3>1
    <3>3. Text(notes) \in Seq(Message)
      BY TextType
    <3> QED
      BY <2>1, <3>2, <3>3
  <2> QED
    BY <1>13, <2>2, <1>e DEF Collect
<1> QED
  BY <1>1, <1>2, <1>3, <1>4, <1>5, <1>6, <1>7, <1>8, <1>9, <1>10, <1>11, <1>12, <1>13
     DEF ListStep

\* The counters of the run and where it is.
Control == cfg \in Configs /\ pc \in Points /\ st \in State /\ reqs \in Nat

LEMMA ControlInit == Init => Control
<1> SUFFICES ASSUME Init PROVE Control
  OBVIOUS
<1>1. st \in State
  BY DEF Init, State, maxServerErrorRetries, maxOutputTokensRecoveryLimit
<1> QED
  BY <1>1 DEF Init, Control, Points

Requesting == {"compact", "request"}

\* What most steps do to these variables: they move on, but not to a request.
Steady ==
  /\ UNCHANGED <<cfg, reqs, st>>
  /\ pc' \in Points /\ (pc' \in Requesting => pc \in Requesting)

StateStep == RateLimited \/ PromptTooLong \/ ServerError \/ Truncated \/ Collect

LEMMA SteadySteps ==
  ASSUME Control, [Next]_vars
  PROVE  Steady \/ StateStep \/ TopTurn \/ Request
<1> SUFFICES ASSUME ~StateStep, ~TopTurn, ~Request PROVE Steady
  OBVIOUS
<1> USE DEF Steady, Points, Requesting
<1>0. pc \in Points
  BY DEF Control
<1>1. CASE UNCHANGED vars
  BY <1>0, <1>1 DEF vars
<1>2. CASE TopCancelled \/ TopLimit \/ FatalError \/ Backoff
  BY <1>0, <1>2 DEF TopCancelled, TopLimit, FatalError, Backoff, ErrorFrame, End
<1>3. CASE AutoCompact \/ Execute
  BY <1>0, <1>3 DEF AutoCompact, Execute
<1>4. CASE StreamEmpty \/ Interrupted \/ Completed \/ Answered
  BY <1>0, <1>4 DEF StreamEmpty, Interrupted, Completed, Answered, AnswerFrame, End
<1>5. CASE Permission
  BY <1>0, <1>5 DEF Permission, GateFrame, End
<1>6. CASE PlanGate \/ HookGate
  BY <1>0, <1>6 DEF PlanGate, HookGate, GateFrame
<1>7. CASE MemoryExtracted \/ Cancel \/ Over
  BY <1>0, <1>7 DEF MemoryExtracted, Cancel, Over, vars
<1>8. ASSUME NEW t \in cfg.tools, StreamToolUse(t) PROVE Steady
  BY <1>0, <1>8 DEF StreamToolUse
<1>9. ASSUME NEW call \in running, ToolReturns(call) PROVE Steady
  BY <1>0, <1>9 DEF ToolReturns
<1>10. ASSUME NEW c \in DOMAIN mail, MailArrives(c) PROVE Steady
  BY <1>0, <1>10 DEF MailArrives
<1> QED
  BY <1>1, <1>2, <1>3, <1>4, <1>5, <1>6, <1>7, <1>8, <1>9, <1>10
     DEF Next, LoopStep, StateStep

\* The five steps that update agent.State leave the number of turns alone.
LEMMA StateSteps ==
  ASSUME Control, StateStep
  PROVE  /\ st' \in State /\ st'.turn = st.turn
         /\ UNCHANGED <<cfg, reqs>>
         /\ pc' \in Points \ Requesting
<1> USE DEF Points, Requesting
<1>0. st \in State
  BY DEF Control
<1>1. CASE RateLimited
  <2>1. st' = st \/ st' = [st EXCEPT !.fallback = TRUE]
    BY <1>1 DEF RateLimited
  <2>2. st' \in State /\ st'.turn = st.turn
    BY <1>0, <2>1 DEF State
  <2> QED
    BY <1>1, <2>2 DEF RateLimited, ErrorFrame, End
<1>2. CASE PromptTooLong
  <2>1. st' \in State /\ st'.turn = st.turn
    BY <1>0, <1>2 DEF PromptTooLong, State
  <2> QED
    BY <1>2, <2>1 DEF PromptTooLong, ErrorFrame, End
<1>3. CASE ServerError
  <2>1. CASE st.retries < maxServerErrorRetries
    <3>1. st' = [st EXCEPT !.retries = st.retries + 1]
      BY <1>3, <2>1 DEF ServerError
    <3>2. st.retries + 1 \in 0 .. maxServerErrorRetries
      BY <1>0, <2>1 DEF State, maxServerErrorRetries
    <3>3. st' \in State /\ st'.turn = st.turn
      BY <1>0, <3>1, <3>2 DEF State
    <3> QED
      BY <1>3, <3>3 DEF ServerError, ErrorFrame, End
  <2>2. CASE ~(st.retries < maxServerErrorRetries)
    BY <1>0, <1>3, <2>2 DEF ServerError, ErrorFrame, End
  <2> QED
    BY <2>1, <2>2
<1>4. CASE Truncated
  <2>1. st' = [st EXCEPT !.recoveries = st.recoveries + 1]
    BY <1>4 DEF Truncated
  <2>2. st.recoveries + 1 \in 0 .. maxOutputTokensRecoveryLimit
    BY <1>0, <1>4 DEF Truncated, State, maxOutputTokensRecoveryLimit
  <2>3. st' \in State /\ st'.turn = st.turn
    BY <1>0, <2>1, <2>2 DEF State
  <2> QED
    BY <1>4, <2>3 DEF Truncated, AnswerFrame
<1>5. CASE Collect
  <2>1. PICK plan : st' = [st EXCEPT !.recoveries = 0, !.plan = plan] /\ plan \in BOOLEAN
    <3>1. PICK calls : st' = [st EXCEPT !.recoveries = 0, !.plan = PlanAfter(calls, st.plan)]
      BY <1>5 DEF Collect
    <3>2. PlanAfter(calls, st.plan) \in BOOLEAN
      BY <1>0 DEF PlanAfter, State
    <3> QED
      BY <3>1, <3>2
  <2>2. 0 \in 0 .. maxOutputTokensRecoveryLimit
    BY DEF maxOutputTokensRecoveryLimit
  <2>3. st' \in State /\ st'.turn = st.turn
    BY <1>0, <2>1, <2>2 DEF State
  <2> QED
    BY <1>5, <2>3 DEF Collect
<1> QED
  BY <1>1, <1>2, <1>3, <1>4, <1>5 DEF StateStep

LEMMA ControlNext == Control /\ [Next]_vars => Control'
<1> SUFFICES ASSUME Control, [Next]_vars PROVE Control'
  OBVIOUS
<1>1. CASE Steady
  BY <1>1 DEF Steady, Control
<1>2. CASE StateStep
  BY <1>2, StateSteps DEF Control
<1>3. CASE TopTurn
  <2>1. st' = [st EXCEPT !.turn = st.turn + 1]
    BY <1>3 DEF TopTurn
  <2>2. st' \in State
    BY <2>1 DEF Control, State
  <2> QED
    BY <1>3, <2>2 DEF TopTurn, Control, Points
<1>4. CASE Request
  BY <1>4 DEF Request, Control, Points
<1> QED
  BY <1>1, <1>2, <1>3, <1>4, SteadySteps

\* A turn pays for one request: before it is made there is one turn to spare.
Paid ==
  /\ RequestsBounded
  /\ pc \in Requesting => reqs < st.turn

LEMMA PaidNext == Control /\ Paid /\ [Next]_vars => Paid'
<1> SUFFICES ASSUME Control, Paid, [Next]_vars PROVE Paid'
  OBVIOUS
<1> USE DEF Paid, RequestsBounded
<1>0. st \in State /\ st.turn \in Nat /\ reqs \in Nat /\ cfg.turns \in Nat
  BY ConfigsAssumption DEF Control, State, Config
<1>1. CASE Steady
  BY <1>1 DEF Steady
<1>2. CASE StateStep
  BY <1>2, StateSteps
<1>3. CASE TopTurn
  <2>1. st'.turn = st.turn + 1 /\ UNCHANGED <<cfg, reqs>>
    BY <1>0, <1>3 DEF TopTurn, State
  <2>2. cfg.turns > 0 => st.turn < cfg.turns
    BY <1>0, <1>3 DEF TopTurn
  <2> QED
    BY <1>0, <2>1, <2>2
<1>4. CASE Request
  BY <1>0, <1>4 DEF Request, Requesting
<1> QED
  BY <1>1, <1>2, <1>3, <1>4, SteadySteps

\* However the run retries, falls back, recovers, compacts or is kept going by
\* hooks, it makes at most as many provider requests as it has turns, and no
\* more turns than MaxTurns (loop.go 105-117).
THEOREM BoundedRequests == Spec => []RequestsBounded
<1>1. Init => Control /\ Paid
  <2>1. Init => Paid
    BY ConfigsAssumption DEF Init, Paid, RequestsBounded, Requesting, Config
  <2> QED
    BY <2>1, ControlInit
<1>2. Control /\ Paid /\ [Next]_vars => (Control /\ Paid)'
  BY ControlNext, PaidNext
<1>3. Paid => RequestsBounded
  BY DEF Paid
<1> QED
  BY <1>1, <1>2, <1>3, PTL DEF Spec

-----------------------------------------------------------------------------
(* Calls: what is waiting, running and has run.                            *)

CallTypes ==
  /\ blocks \in SUBSET Call /\ IsFiniteSet(blocks)
  /\ running \in SUBSET Call /\ ran \in Seq(Call)

LEMMA CallInit == Init => CallTypes
BY FS_EmptySet DEF Init, CallTypes

\* Where the calls of the last answer are still on their way to execution.
Streamed == {"stream", "permission", "plan", "hook"}

\* Apart from a request and the steps that start or end a tool, the calls of
\* the last answer only get fewer, and none while it streams.
Shrinks == blocks' \subseteq blocks /\ UNCHANGED <<running, ran>>
Quiet ==
  /\ Shrinks /\ UNCHANGED reqs
  /\ pc' \in Streamed => pc \in Streamed
  /\ pc' = "stream" => pc = "stream" /\ UNCHANGED blocks

LEMMA QuietSteps ==
  ASSUME [Next]_vars
  PROVE  \/ Quiet \/ Request \/ Execute
         \/ \E t \in cfg.tools : StreamToolUse(t)
         \/ \E call \in running : ToolReturns(call)
<1> SUFFICES ASSUME ~Request, ~Execute, ~(\E t \in cfg.tools : StreamToolUse(t)),
                    ~(\E call \in running : ToolReturns(call))
             PROVE  Quiet
  OBVIOUS
<1> USE DEF Quiet, Shrinks, Streamed
<1>1. CASE UNCHANGED vars
  BY <1>1 DEF vars
<1>2. CASE TopCancelled \/ TopLimit \/ TopTurn \/ AutoCompact
  BY <1>2 DEF TopCancelled, TopLimit, TopTurn, AutoCompact, End
<1>3. CASE RateLimited \/ PromptTooLong \/ ServerError \/ FatalError \/ Backoff
  BY <1>3 DEF RateLimited, PromptTooLong, ServerError, FatalError, Backoff, ErrorFrame, End
<1>4. CASE StreamEmpty \/ Interrupted \/ Truncated \/ Completed \/ Answered
  BY <1>4 DEF StreamEmpty, Interrupted, Truncated, Completed, Answered, AnswerFrame, End
<1>5. CASE Permission \/ PlanGate \/ HookGate
  BY <1>5 DEF Permission, PlanGate, HookGate, GateFrame, End
<1>6. CASE Collect
  BY <1>6 DEF Collect
<1>7. CASE MemoryExtracted \/ Cancel \/ Over
  BY <1>7 DEF MemoryExtracted, Cancel, Over, vars
<1>8. ASSUME NEW c \in DOMAIN mail, MailArrives(c) PROVE Quiet
  BY <1>8 DEF MailArrives
<1> QED
  BY <1>1, <1>2, <1>3, <1>4, <1>5, <1>6, <1>7, <1>8 DEF Next, LoopStep

\* The call of a tool_use event, numbered by its place in the answer.
NextCall(t) == [req |-> reqs, k |-> Cardinality(blocks) + 1, tool |-> t]

LEMMA NextCallType ==
  ASSUME Control, CallTypes, NEW t \in cfg.tools
  PROVE  NextCall(t) \in Call
<1>1. t \in Tools
  BY ConfigsAssumption DEF Control, Config
<1>2. Cardinality(blocks) \in Nat
  BY FS_CardinalityType DEF CallTypes
<1> QED
  BY <1>1, <1>2 DEF NextCall, Call, Control

LEMMA CallNext == Control /\ CallTypes /\ [Next]_vars => CallTypes'
<1> SUFFICES ASSUME Control, CallTypes, [Next]_vars PROVE CallTypes'
  OBVIOUS
<1> USE DEF CallTypes
<1>1. CASE Quiet \/ Request
  <2>1. Shrinks
    BY <1>1 DEF Quiet, Request, Shrinks
  <2>2. IsFiniteSet(blocks')
    BY <2>1, FS_Subset DEF Shrinks
  <2> QED
    BY <2>1, <2>2 DEF Shrinks
<1>2. CASE Execute
  BY <1>2 DEF Execute, Remaining
<1>3. ASSUME NEW t \in cfg.tools, StreamToolUse(t) PROVE CallTypes'
  <2>1. NextCall(t) \in Call
    BY NextCallType
  <2>2. /\ blocks' = blocks \cup {NextCall(t)}
        /\ \/ running' = running \cup {NextCall(t)} /\ ran' = Append(ran, NextCall(t))
           \/ UNCHANGED <<running, ran>>
    BY <1>3 DEF StreamToolUse, NextCall
  <2>3. IsFiniteSet(blocks')
    BY <2>2, FS_AddElement
  <2> QED
    BY <2>1, <2>2, <2>3
<1>4. ASSUME NEW call \in running, ToolReturns(call) PROVE CallTypes'
  BY <1>4 DEF ToolReturns
<1> QED
  BY <1>1, <1>2, <1>3, <1>4, QuietSteps

-----------------------------------------------------------------------------
(* The remaining variables, and the type invariant as a whole.             *)

Flags == ctx \in BOOLEAN /\ lost \in BOOLEAN /\ extracting \in BOOLEAN /\ panicked \in BOOLEAN

Rest ==
  /\ model \in {"primary", "backup"}
  /\ mail \in [{"task", "inbox"} -> Nat]
  /\ events \in Seq({"error", "turn_complete", "max_turns_reached"})

LEMMA FlagsNext == Flags /\ [Next]_vars => Flags'
<1> SUFFICES ASSUME Flags, [Next]_vars PROVE Flags'
  OBVIOUS
<1> USE DEF Flags
<1>a. ASSUME NEW list, Persist(list), UNCHANGED <<extracting, panicked>> PROVE Flags'
  BY <1>a, Zenon DEF Persist
<1>b. ASSUME UNCHANGED <<ctx, lost, extracting, panicked>> PROVE Flags'
  BY <1>b
<1>1. CASE UNCHANGED vars
  BY <1>1, <1>b DEF vars
<1>2. CASE TopCancelled \/ TopLimit \/ TopTurn \/ Request \/ Execute
  BY <1>2, <1>b DEF TopCancelled, TopLimit, TopTurn, Request, Execute
<1>3. CASE AutoCompact
  BY <1>3, Zenon DEF AutoCompact, Extracts
<1>4. CASE RateLimited \/ PromptTooLong \/ ServerError \/ FatalError \/ Backoff
  BY <1>4, <1>b DEF RateLimited, PromptTooLong, ServerError, FatalError, Backoff, ErrorFrame
<1>5. CASE StreamEmpty \/ Interrupted \/ Truncated \/ Completed \/ Answered
  BY <1>5, <1>a, <1>b, Zenon
     DEF StreamEmpty, Interrupted, Truncated, Completed, Answered, AnswerFrame
<1>6. CASE Permission \/ PlanGate \/ HookGate
  BY <1>6, <1>a, <1>b, Zenon DEF Permission, PlanGate, HookGate, GateFrame
<1>7. CASE Collect
  BY <1>7, <1>a, Zenon DEF Collect
<1>8. CASE MemoryExtracted \/ Cancel
  BY <1>8, Zenon DEF MemoryExtracted, Cancel
<1>9. ASSUME NEW t \in cfg.tools, StreamToolUse(t) PROVE Flags'
  BY <1>9, <1>b DEF StreamToolUse
<1>10. ASSUME NEW call \in running, ToolReturns(call) PROVE Flags'
  BY <1>10, <1>b DEF ToolReturns
<1>11. ASSUME NEW c \in DOMAIN mail, MailArrives(c) PROVE Flags'
  BY <1>11, <1>b DEF MailArrives
<1> QED
  BY <1>1, <1>2, <1>3, <1>4, <1>5, <1>6, <1>7, <1>8, <1>9, <1>10, <1>11
     DEF Next, LoopStep, Over

LEMMA RestNext == Rest /\ [Next]_vars => Rest'
<1> SUFFICES ASSUME Rest, [Next]_vars PROVE Rest'
  OBVIOUS
<1> USE DEF Rest
<1>a. ASSUME NEW e \in {"none", "error", "turn_complete", "max_turns_reached"}, End(e),
             UNCHANGED <<model, mail>>
      PROVE  Rest'
  BY <1>a DEF End
<1>b. ASSUME UNCHANGED <<events, model, mail>> PROVE Rest'
  BY <1>b
<1>c. ASSUME TakeMail, UNCHANGED model, UNCHANGED events \/ End("max_turns_reached") PROVE Rest'
  <2>1. mail' \in [{"task", "inbox"} -> Nat]
    BY <1>c DEF TakeMail
  <2> QED
    BY <1>c, <2>1 DEF End
<1>1. CASE UNCHANGED vars
  BY <1>1, <1>b DEF vars
<1>2. CASE TopCancelled
  BY <1>2, <1>a DEF TopCancelled
<1>3. CASE TopLimit \/ TopTurn
  BY <1>3, <1>c DEF TopLimit, TopTurn
<1>4. CASE AutoCompact \/ Request \/ Execute
  BY <1>4, <1>b DEF AutoCompact, Request, Execute
<1>5. CASE RateLimited
  BY <1>5, <1>a DEF RateLimited, ErrorFrame
<1>6. CASE PromptTooLong \/ ServerError \/ FatalError \/ Backoff
  BY <1>6, <1>a, <1>b DEF PromptTooLong, ServerError, FatalError, Backoff, ErrorFrame
<1>7. CASE StreamEmpty \/ Interrupted \/ Truncated \/ Completed \/ Answered
  BY <1>7, <1>a, <1>b DEF StreamEmpty, Interrupted, Truncated, Completed, Answered, AnswerFrame
<1>8. CASE Permission \/ PlanGate \/ HookGate
  BY <1>8, <1>a, <1>b DEF Permission, PlanGate, HookGate, GateFrame
<1>9. CASE Collect \/ MemoryExtracted \/ Cancel
  BY <1>9, <1>b DEF Collect, MemoryExtracted, Cancel
<1>10. ASSUME NEW t \in cfg.tools, StreamToolUse(t) PROVE Rest'
  BY <1>10, <1>b DEF StreamToolUse
<1>11. ASSUME NEW call \in running, ToolReturns(call) PROVE Rest'
  BY <1>11, <1>b DEF ToolReturns
<1>12. ASSUME NEW c \in DOMAIN mail, MailArrives(c) PROVE Rest'
  BY <1>12 DEF MailArrives
<1> QED
  BY <1>1, <1>2, <1>3, <1>4, <1>5, <1>6, <1>7, <1>8, <1>9, <1>10, <1>11, <1>12
     DEF Next, LoopStep, Over

Types == Control /\ Lists /\ CallTypes /\ Rest /\ Flags

LEMMA TypesInit == Init => Types
<1> SUFFICES ASSUME Init PROVE Types
  OBVIOUS
<1>1. Control /\ Lists /\ CallTypes
  BY ControlInit, ListsInit, CallInit
<1>2. Rest
  BY DEF Init, Rest
<1>3. Flags
  BY DEF Init, Flags
<1> QED
  BY <1>1, <1>2, <1>3 DEF Types

LEMMA TypesNext == Types /\ [Next]_vars => Types'
<1> SUFFICES ASSUME Types, [Next]_vars PROVE Types'
  OBVIOUS
<1>1. Control' /\ CallTypes' /\ Rest' /\ Flags'
  BY ControlNext, CallNext, RestNext, FlagsNext DEF Types
<1>2. Around
  BY DEF Around, Types, Rest, CallTypes
<1>3. Lists'
  BY <1>2, ListsNext DEF Types
<1> QED
  BY <1>1, <1>3 DEF Types

-----------------------------------------------------------------------------
(* The slice that a save takes.                                            *)

Resting == {"top", "backoff", "done"}

\* An append to the conversation that keeps prevMsgCount.
Grows == prev' = prev /\ \E s \in Seq(Message) : msgs' = msgs \o s

LEMMA GrowSteps ==
  ASSUME Types, [Next]_vars, pc' \notin Resting
  PROVE  \/ TopTurn \/ AutoCompact
         \/ pc \notin Resting /\ Grows
<1> SUFFICES ASSUME ~TopTurn, ~AutoCompact PROVE pc \notin Resting /\ Grows
  OBVIOUS
<1> USE DEF Resting
<1>a. msgs \in Seq(Message) /\ blocks \in SUBSET Call /\ model \in {"primary", "backup"}
  BY DEF Types, Lists, CallTypes, Rest
<1>b. ASSUME UNCHANGED <<msgs, prev>> PROVE Grows
  <2>1. << >> \in Seq(Message) /\ msgs = msgs \o << >>
    BY <1>a
  <2> QED
    BY <1>b, <2>1 DEF Grows
<1>c. "denied" \in ResultKinds
  BY DEF ResultKinds, RefusalKinds
<1>1. CASE UNCHANGED vars
  BY <1>1, <1>b DEF vars
<1>2. CASE Request \/ Execute
  BY <1>2, <1>b DEF Request, Execute
<1>3. CASE Answered
  <2>1. PICK m \in Message : msgs' = Append(msgs, m)
    <3>1. [kind |-> "assistant", calls |-> blocks, by |-> model] \in Message
      BY <1>a DEF Message
    <3> QED
      BY <1>3, <3>1 DEF Answered, Answer
  <2>2. <<m>> \in Seq(Message) /\ msgs' = msgs \o <<m>>
    BY <1>a, <2>1
  <2>3. pc = "stream" /\ prev' = prev
    BY <1>3 DEF Answered, AnswerFrame
  <2> QED
    BY <2>2, <2>3 DEF Grows
<1>4. CASE Permission
  <2>1. PICK no \in SUBSET Asked : msgs' = msgs \o Results("denied", no)
    BY <1>4 DEF Permission
  <2>2. Results("denied", no) \in Seq(Message)
    <3>1. no \in SUBSET Call
      BY <1>a DEF Asked
    <3> QED
      BY <1>c, <3>1, ResultsType
  <2> QED
    BY <1>4, <2>1, <2>2 DEF Permission, GateFrame, Grows
<1>5. CASE PlanGate
  <2>1. Results("denied", PlanBlocked) \in Seq(Message)
    <3>1. PlanBlocked \in SUBSET Call
      BY <1>a DEF PlanBlocked
    <3> QED
      BY <1>c, <3>1, ResultsType
  <2> QED
    BY <1>5, <2>1 DEF PlanGate, GateFrame, Grows
<1>6. CASE HookGate
  <2>1. PICK no \in SUBSET blocks, notes \in {0, 1} :
          msgs' = msgs \o Results("denied", no) \o Text(notes) \o Reminders(blocks \ no)
    BY <1>6 DEF HookGate
  <2>2. Results("denied", no) \in Seq(Message)
    <3>1. no \in SUBSET Call
      BY <1>a
    <3> QED
      BY <1>c, <3>1, ResultsType
  <2>3. Text(notes) \in Seq(Message) /\ Reminders(blocks \ no) \in Seq(Message)
    BY TextType, TextIf DEF Reminders
  <2>4. ASSUME NEW r \in Seq(Message), NEW s \in Seq(Message), NEW t \in Seq(Message)
        PROVE  \E u \in Seq(Message) : msgs \o r \o s \o t = msgs \o u
    <3>1. r \o s \o t \in Seq(Message) /\ msgs \o r \o s \o t = msgs \o (r \o s \o t)
      BY <1>a
    <3> QED
      BY <3>1
  <2>5. \E u \in Seq(Message) : msgs' = msgs \o u
    BY <2>1, <2>2, <2>3, <2>4, Zenon
  <2> QED
    BY <1>6, <2>5 DEF HookGate, GateFrame, Grows
<1>7. CASE MemoryExtracted \/ Cancel
  BY <1>7, <1>b DEF MemoryExtracted, Cancel
<1>8. ASSUME NEW t \in cfg.tools, StreamToolUse(t) PROVE pc \notin Resting /\ Grows
  BY <1>8, <1>b DEF StreamToolUse
<1>9. ASSUME NEW call \in running, ToolReturns(call) PROVE pc \notin Resting /\ Grows
  BY <1>9, <1>b DEF ToolReturns
<1>10. ASSUME NEW c \in DOMAIN mail, MailArrives(c) PROVE pc \notin Resting /\ Grows
  BY <1>10, <1>b DEF MailArrives
<1>11. ~(TopCancelled \/ TopLimit \/ Truncated \/ Interrupted \/ Completed \/ StreamEmpty \/ Collect)
  BY DEF TopCancelled, TopLimit, Truncated, Interrupted, Completed, StreamEmpty, Collect, End
<1>12. ~(RateLimited \/ PromptTooLong \/ ServerError \/ FatalError \/ Backoff)
  BY DEF RateLimited, PromptTooLong, ServerError, FatalError, Backoff, End
<1> QED
  BY <1>1, <1>2, <1>3, <1>4, <1>5, <1>6, <1>7, <1>8, <1>9, <1>10, <1>11, <1>12
     DEF Next, LoopStep, Over

LEMMA SliceNext == Types /\ SliceInRange /\ [Next]_vars => SliceInRange'
<1> SUFFICES ASSUME Types, SliceInRange, [Next]_vars, pc' \notin Resting
             PROVE  prev' <= Len(msgs')
  BY DEF SliceInRange, Resting
<1>a. msgs \in Seq(Message) /\ prev \in Nat /\ mail \in [{"task", "inbox"} -> Nat]
  BY DEF Types, Lists, Rest
<1>1. CASE TopTurn
  <2>1. PICK n \in {0, 1} : msgs' = AfterMail \o Text(n)
    BY <1>1 DEF TopTurn
  <2>2. AfterMail \in Seq(Message) /\ Text(n) \in Seq(Message)
    BY <1>a, AfterMailType, TextType
  <2>3. Len(AfterMail) <= Len(AfterMail \o Text(n))
    BY <2>2
  <2> QED
    BY <1>1, <2>1, <2>3 DEF TopTurn
<1>2. CASE AutoCompact
  BY <1>2, <1>a DEF AutoCompact, SliceInRange, Resting, Summary
<1>3. CASE pc \notin Resting /\ Grows
  <2>1. PICK s \in Seq(Message) : msgs' = msgs \o s
    BY <1>3 DEF Grows
  <2>2. Len(msgs) <= Len(msgs') /\ Len(msgs) \in Nat /\ Len(msgs') \in Nat
    BY <1>a, <2>1
  <2> QED
    BY <1>3, <1>a, <2>2 DEF Grows, SliceInRange, Resting
<1> QED
  BY <1>1, <1>2, <1>3, GrowSteps

\* persistNewMessages slices Messages[prevMsgCount:] (loop.go 546-557): the
\* index is inside the slice wherever an iteration can still save, so the
\* loop never panics there, compactions and failed requests included.
THEOREM SlicesInRange == Spec => []SliceInRange
<1>1. Init => SliceInRange
  BY DEF Init, SliceInRange
<1> QED
  BY <1>1, TypesInit, TypesNext, SliceNext, PTL DEF Spec

\* The loop's state keeps the shape the code gives it, and retries and
\* recoveries stay within their limits (loop.go 23-25, 244, 684).
THEOREM TypeCorrect == Spec => []TypeOK
<1>1. Types /\ SliceInRange => TypeOK
  BY DEF Types, TypeOK, Control, Lists, CallTypes, Rest, Flags
<1> QED
  BY <1>1, TypesInit, TypesNext, SlicesInRange, PTL DEF Spec

-----------------------------------------------------------------------------
(* Each call runs once.                                                    *)

\* Calls carry the number of their request and their place in the answer.
\* While an answer is on its way to execution, only concurrency-safe calls of
\* it have run.
Numbered ==
  /\ \A b \in blocks : b.req = reqs
  /\ \A c \in Started : c.req <= reqs
  /\ pc = "stream" =>
       \A c \in blocks \cup Started : c.req = reqs => c.k <= Cardinality(blocks)
  /\ pc \in Streamed => \A c \in Started : c.req = reqs => c.tool \in Safe

LEMMA StartedAppend ==
  ASSUME NEW s \in Seq(Call), NEW c \in Call
  PROVE  {Append(s, c)[i] : i \in 1 .. Len(Append(s, c))} = {s[i] : i \in 1 .. Len(s)} \cup {c}
<1>1. Len(Append(s, c)) = Len(s) + 1 /\ Len(s) \in Nat
  OBVIOUS
<1>2. /\ \A i \in 1 .. Len(s) : i \in 1 .. Len(s) + 1 /\ Append(s, c)[i] = s[i]
      /\ Append(s, c)[Len(s) + 1] = c /\ Len(s) + 1 \in 1 .. Len(s) + 1
  OBVIOUS
<1>3. \A i \in 1 .. Len(s) + 1 : i \in 1 .. Len(s) \/ i = Len(s) + 1
  BY <1>1
<1> QED
  BY <1>1, <1>2, <1>3

\* What running one more call does.
LEMMA StartNext ==
  ASSUME CallTypes, NEW c \in Call, ran' = Append(ran, c)
  PROVE  /\ Started' = Started \cup {c}
         /\ RunOnce /\ c \notin Started => RunOnce'
<1>1. ran \in Seq(Call)
  BY DEF CallTypes
<1>2. Started' = Started \cup {c}
  BY <1>1, StartedAppend DEF Started
<1>3. ASSUME RunOnce, c \notin Started PROVE RunOnce'
  <2> SUFFICES ASSUME NEW i \in 1 .. Len(ran'), NEW j \in 1 .. Len(ran'), ran'[i] = ran'[j]
               PROVE  i = j
    BY DEF RunOnce
  <2>1. Len(ran') = Len(ran) + 1 /\ Len(ran) \in Nat
    BY <1>1
  <2>2. \A k \in 1 .. Len(ran) : ran'[k] = ran[k] /\ ran[k] # c
    BY <1>1, <1>3 DEF Started
  <2>3. ran'[Len(ran) + 1] = c
    BY <1>1
  <2> QED
    BY <1>3, <2>1, <2>2, <2>3 DEF RunOnce
<1> QED
  BY <1>2, <1>3

Once == Numbered /\ RunOnce

LEMMA OnceNext == Types /\ Once /\ [Next]_vars => Once'
<1> SUFFICES ASSUME Types, Once, [Next]_vars PROVE Once'
  OBVIOUS
<1>a. CallTypes /\ Control /\ reqs \in Nat /\ Cardinality(blocks) \in Nat
  BY FS_CardinalityType DEF Types, CallTypes, Control
<1>b. blocks \in SUBSET Call /\ Started \in SUBSET Call
  BY <1>a DEF CallTypes, Started
<1>1. CASE Quiet
  <2>1. Started' = Started /\ RunOnce'
    BY <1>1 DEF Quiet, Shrinks, Started, Once, RunOnce
  <2>2. pc' = "stream" => Cardinality(blocks') = Cardinality(blocks)
    BY <1>1 DEF Quiet
  <2> QED
    BY <1>1, <2>1, <2>2 DEF Once, Numbered, Quiet, Shrinks
<1>2. CASE Request
  <2>1. Started' = Started /\ RunOnce' /\ reqs' = reqs + 1 /\ blocks' = {}
    BY <1>2 DEF Request, Started, Once, RunOnce
  <2>2. \A c \in Started : c.req <= reqs /\ c.req \in Nat
    BY <1>b DEF Once, Numbered, Call
  <2>3. \A c \in Started : c.req <= reqs' /\ c.req # reqs'
    BY <1>a, <2>1, <2>2
  <2> QED
    BY <2>1, <2>3 DEF Once, Numbered
<1>3. CASE Execute
  <2>1. PICK b \in Remaining \ Started : ran' = Append(ran, b)
    BY <1>3 DEF Execute
  <2>2. b \in blocks /\ b \in Call /\ b \notin Started
    BY <1>b, <2>1 DEF Remaining
  <2>3. Started' = Started \cup {b} /\ RunOnce'
    BY <1>a, <2>1, <2>2, StartNext DEF Once
  <2>4. pc' = "exec" /\ UNCHANGED <<blocks, reqs>>
    BY <1>3 DEF Execute
  <2> QED
    BY <1>a, <2>2, <2>3, <2>4 DEF Once, Numbered, Streamed
<1>4. ASSUME NEW t \in cfg.tools, StreamToolUse(t) PROVE Once'
  <2> DEFINE c == NextCall(t)
  <2>1. c \in Call /\ c.req = reqs /\ c.k = Cardinality(blocks) + 1 /\ c.tool = t
    BY <1>a, NextCallType DEF NextCall
  <2>2. /\ blocks' = blocks \cup {c} /\ UNCHANGED <<pc, reqs>> /\ pc = "stream"
        /\ IF t \in Safe THEN ran' = Append(ran, c) ELSE UNCHANGED ran
    BY <1>4 DEF StreamToolUse, NextCall
  <2> HIDE DEF c
  <2>3. c \notin blocks /\ c \notin Started
    BY <1>a, <2>1, <2>2 DEF Once, Numbered
  <2>4. Cardinality(blocks') = Cardinality(blocks) + 1
    BY <1>a, <2>2, <2>3, FS_AddElement DEF CallTypes
  <2>5. \A d \in blocks \cup Started : d.req = reqs => d.k <= Cardinality(blocks) /\ d.k \in Nat
    BY <1>b, <2>2 DEF Once, Numbered, Call
  <2>6. CASE t \in Safe
    <3>1. Started' = Started \cup {c} /\ RunOnce'
      BY <1>a, <2>1, <2>2, <2>3, <2>6, StartNext DEF Once
    <3> QED
      BY <1>a, <2>1, <2>2, <2>4, <2>5, <2>6, <3>1 DEF Once, Numbered
  <2>7. CASE t \notin Safe
    <3>1. Started' = Started /\ RunOnce'
      BY <2>2, <2>7 DEF Started, Once, RunOnce
    <3> QED
      BY <1>a, <2>1, <2>2, <2>4, <2>5, <3>1 DEF Once, Numbered
  <2> QED
    BY <2>6, <2>7
<1>5. ASSUME NEW call \in running, ToolReturns(call) PROVE Once'
  BY <1>5 DEF ToolReturns, Once, Numbered, RunOnce, Started
<1> QED
  BY <1>1, <1>2, <1>3, <1>4, <1>5, QuietSteps

LEMMA OnceInit == Init => Once
<1> SUFFICES ASSUME Init PROVE Once
  OBVIOUS
<1>1. Started = {} /\ blocks = {} /\ pc = "top" /\ ran = << >>
  BY DEF Init, Started
<1> QED
  BY <1>1 DEF Once, Numbered, RunOnce, Streamed

\* No tool call is executed twice: not by the early execution and the
\* execution phase (loop.go 735-754), not after a failed request or a
\* truncated answer.
THEOREM CallsRunOnce == Spec => []RunOnce
<1>1. Once => RunOnce
  BY DEF Once
<1> QED
  BY <1>1, TypesInit, TypesNext, OnceInit, OnceNext, PTL DEF Spec

-----------------------------------------------------------------------------
(* Calls that were refused.                                                *)

\* The calls that the results of a conversation refuse.
RefusedIn(s) == UNION {s[i].calls : i \in {j \in 1 .. Len(s) : s[j].kind \in RefusalKinds}}
Refused == RefusedIn(msgs)

LEMMA RefusedConcat ==
  ASSUME NEW s \in Seq(Message), NEW t \in Seq(Message)
  PROVE  RefusedIn(s \o t) = RefusedIn(s) \cup RefusedIn(t)
<1>1. /\ Len(s) \in Nat /\ Len(t) \in Nat /\ Len(s \o t) = Len(s) + Len(t)
      /\ \A i \in 1 .. Len(s) : (s \o t)[i] = s[i]
      /\ \A i \in 1 .. Len(t) : (s \o t)[Len(s) + i] = t[i]
  OBVIOUS
<1>2. ASSUME NEW c PROVE c \in RefusedIn(s \o t) <=> c \in RefusedIn(s) \/ c \in RefusedIn(t)
  <2>1. ASSUME NEW i \in 1 .. Len(s \o t), (s \o t)[i].kind \in RefusalKinds,
               c \in (s \o t)[i].calls
        PROVE  c \in RefusedIn(s) \/ c \in RefusedIn(t)
    <3>1. CASE i \in 1 .. Len(s)
      BY <2>1, <1>1, <3>1 DEF RefusedIn
    <3>2. CASE i \notin 1 .. Len(s)
      <4>1. i - Len(s) \in 1 .. Len(t) /\ Len(s) + (i - Len(s)) = i
        BY <1>1, <3>2
      <4>2. (s \o t)[i] = t[i - Len(s)]
        BY <1>1, <4>1
      <4> QED
        BY <2>1, <4>1, <4>2 DEF RefusedIn
    <3> QED
      BY <3>1, <3>2
  <2>2. ASSUME NEW i \in 1 .. Len(s), s[i].kind \in RefusalKinds, c \in s[i].calls
        PROVE  c \in RefusedIn(s \o t)
    <3>1. i \in 1 .. Len(s \o t)
      BY <1>1
    <3> QED
      BY <1>1, <2>2, <3>1 DEF RefusedIn
  <2>3. ASSUME NEW i \in 1 .. Len(t), t[i].kind \in RefusalKinds, c \in t[i].calls
        PROVE  c \in RefusedIn(s \o t)
    <3>1. Len(s) + i \in 1 .. Len(s \o t)
      BY <1>1
    <3> QED
      BY <1>1, <2>3, <3>1 DEF RefusedIn
  <2> QED
    BY <2>1, <2>2, <2>3 DEF RefusedIn
<1> QED
  BY <1>2

LEMMA RefusedStrip ==
  ASSUME NEW s \in Seq(Message), NEW keep
  PROVE  RefusedIn(StripThinking(s, keep)) = RefusedIn(s)
<1> DEFINE u == StripThinking(s, keep)
<1>1. Len(u) = Len(s)
  BY StripType
<1>2. ASSUME NEW i \in 1 .. Len(s) PROVE u[i].kind = s[i].kind /\ u[i].calls = s[i].calls
  <2>1. s[i] \in Message
    OBVIOUS
  <2>2. u[i] = s[i] \/ u[i] = [s[i] EXCEPT !.by = "none"]
    BY DEF StripThinking
  <2> QED
    BY <2>1, <2>2 DEF Message
<1> HIDE DEF u
<1> QED
  BY <1>1, <1>2 DEF RefusedIn, u

\* What a step appends: messages of the current model or of none, that refuse
\* calls of a set only.
Fresh(t, calls) ==
  /\ t \in Seq(Message)
  /\ \A i \in 1 .. Len(t) : /\ t[i].by \in {"none", model}
                            /\ t[i].kind \in RefusalKinds => t[i].calls \subseteq calls

LEMMA FreshText ==
  ASSUME NEW n \in Nat, NEW calls PROVE Fresh(Text(n), calls)
<1>1. "text" \notin RefusalKinds
  BY DEF RefusalKinds
<1>2. Text(n) \in Seq(Message)
  BY TextType
<1>3. \A i \in 1 .. Len(Text(n)) : Text(n)[i] = Plain("text")
  BY DEF Text
<1> QED
  BY <1>1, <1>2, <1>3 DEF Fresh, Plain

LEMMA FreshConcat ==
  ASSUME NEW calls, NEW s, NEW t, Fresh(s, calls), Fresh(t, calls)
  PROVE  Fresh(s \o t, calls)
<1>1. s \in Seq(Message) /\ t \in Seq(Message)
  BY DEF Fresh
<1>2. s \o t \in Seq(Message)
  BY <1>1
<1>3. ASSUME NEW i \in 1 .. Len(s \o t)
      PROVE  \/ \E j \in 1 .. Len(s) : (s \o t)[i] = s[j]
             \/ \E j \in 1 .. Len(t) : (s \o t)[i] = t[j]
  <2>1. Len(s \o t) = Len(s) + Len(t) /\ Len(s) \in Nat /\ Len(t) \in Nat
    BY <1>1
  <2>2. CASE i <= Len(s)
    <3>1. i \in 1 .. Len(s) /\ (s \o t)[i] = s[i]
      BY <1>1, <2>1, <2>2
    <3> QED
      BY <3>1
  <2>3. CASE ~(i <= Len(s))
    <3>1. i - Len(s) \in 1 .. Len(t) /\ (s \o t)[i] = t[i - Len(s)]
      BY <1>1, <2>1, <2>3
    <3> QED
      BY <3>1
  <2> QED
    BY <2>2, <2>3
<1> QED
  BY <1>2, <1>3, Zenon DEF Fresh

LEMMA FreshSingle ==
  ASSUME NEW calls, NEW m \in Message, m.by \in {"none", model},
         m.kind \in RefusalKinds => m.calls \subseteq calls
  PROVE  Fresh(<<m>>, calls)
BY DEF Fresh

LEMMA FreshResults ==
  ASSUME NEW kind \in ResultKinds, NEW calls \in SUBSET Call
  PROVE  Fresh(Results(kind, calls), calls)
<1>1. CASE calls = {}
  BY <1>1 DEF Results, Fresh
<1>2. CASE calls # {}
  <2> DEFINE m == [kind |-> kind, calls |-> calls, by |-> "none"]
  <2>1. m \in Message /\ m.calls = calls /\ m.by = "none"
    BY DEF Message
  <2>2. Results(kind, calls) = <<m>>
    BY <1>2 DEF Results
  <2> HIDE DEF m
  <2> QED
    BY <2>1, <2>2, FreshSingle
<1> QED
  BY <1>1, <1>2

LEMMA FreshMore ==
  ASSUME NEW calls, NEW more, calls \subseteq more, NEW t, Fresh(t, calls)
  PROVE  Fresh(t, more)
BY DEF Fresh

LEMMA FreshAnswer ==
  ASSUME msgs \in Seq(Message), blocks \subseteq Call, model \in {"primary", "backup"},
         NEW kind \in {"assistant", "cut"}, NEW calls
  PROVE  \E t : Fresh(t, calls) /\ Answer(kind) = msgs \o t
<1> DEFINE m == [kind |-> kind, calls |-> blocks, by |-> model]
<1>1. m \in Message /\ m.by = model /\ m.kind \notin RefusalKinds
  BY DEF Message, RefusalKinds
<1>2. Answer(kind) = Append(msgs, m)
  BY DEF Answer
<1> HIDE DEF m
<1>3. Append(msgs, m) = msgs \o <<m>>
  BY <1>1
<1>4. Fresh(<<m>>, calls)
  BY <1>1, FreshSingle
<1> QED
  BY <1>2, <1>3, <1>4

LEMMA ConcatAssoc ==
  ASSUME NEW r \in Seq(Message), NEW s \in Seq(Message), NEW t \in Seq(Message)
  PROVE  r \o s \o t = r \o (s \o t)
OBVIOUS

\* Appends that refuse a set of calls still waiting.
Appends(calls) == \E t : Fresh(t, calls) /\ msgs' = msgs \o t
Refuses(calls) ==
  /\ calls \subseteq blocks /\ Appends(calls)
  /\ pc \in Streamed /\ pc' # "stream" /\ calls \cap blocks' = {}

\* What a step can do to the conversation.
LEMMA MessageSteps ==
  ASSUME Types, [Next]_vars
  PROVE  \/ msgs' = Summary /\ UNCHANGED model
         \/ msgs' = StripThinking(msgs, "backup") /\ model' = "backup"
         \/ Appends({}) /\ UNCHANGED model
         \/ (\E calls : Refuses(calls)) /\ UNCHANGED model
<1> DEFINE Goal == \/ msgs' = Summary /\ UNCHANGED model
                   \/ msgs' = StripThinking(msgs, "backup") /\ model' = "backup"
                   \/ Appends({}) /\ UNCHANGED model
                   \/ (\E calls : Refuses(calls)) /\ UNCHANGED model
<1>a. /\ msgs \in Seq(Message) /\ blocks \in SUBSET Call /\ model \in {"primary", "backup"}
      /\ mail \in [{"task", "inbox"} -> Nat]
  BY DEF Types, Lists, CallTypes, Rest
<1>b. ASSUME UNCHANGED <<msgs, model>> PROVE Goal
  <2>1. Fresh(<< >>, {}) /\ msgs = msgs \o << >>
    BY <1>a DEF Fresh
  <2> QED
    BY <1>b, <2>1 DEF Appends
<1>c. "denied" \in ResultKinds /\ "interrupted" \in ResultKinds /\ "result" \in ResultKinds
  BY DEF ResultKinds, RefusalKinds
<1>d. ASSUME NEW s, NEW t, NEW calls, Fresh(s, calls), Fresh(t, calls)
      PROVE  msgs \o s \o t = msgs \o (s \o t) /\ Fresh(s \o t, calls)
  <2>1. s \in Seq(Message) /\ t \in Seq(Message)
    BY <1>d DEF Fresh
  <2>2. msgs \o s \o t = msgs \o (s \o t)
    BY <1>a, <2>1, ConcatAssoc
  <2> QED
    BY <1>d, <2>2, FreshConcat
<1>1. CASE UNCHANGED vars
  BY <1>1, <1>b DEF vars
<1>2. CASE TopLimit \/ TopTurn
  <2> DEFINE n == Cardinality({c \in DOMAIN mail : mail[c] > 0})
  <2>1. n \in Nat
    <3>1. IsFiniteSet({"task"} \cup {"inbox"})
      BY FS_Singleton, FS_AddElement
    <3>2. DOMAIN mail = {"task"} \cup {"inbox"}
      BY <1>a
    <3> QED
      BY <3>1, <3>2, FS_Subset, FS_CardinalityType
  <2>2. AfterMail = msgs \o Text(n)
    BY DEF AfterMail
  <2> HIDE DEF n
  <2>3. Fresh(Text(n), {}) /\ Fresh(Text(0), {}) /\ Fresh(Text(1), {})
    BY <2>1, FreshText
  <2>4. CASE TopLimit
    BY <2>2, <2>3, <2>4 DEF TopLimit, Appends
  <2>5. CASE TopTurn
    <3>1. PICK k \in {0, 1} : msgs' = msgs \o Text(n) \o Text(k)
      BY <2>2, <2>5 DEF TopTurn
    <3>2. Fresh(Text(k), {})
      BY <2>3
    <3>3. msgs' = msgs \o (Text(n) \o Text(k)) /\ Fresh(Text(n) \o Text(k), {})
      BY <2>3, <3>1, <3>2, <1>d
    <3>4. Appends({}) /\ UNCHANGED model
      BY <2>5, <3>3 DEF TopTurn, Appends
    <3> QED
      BY <3>4
  <2> QED
    BY <1>2, <2>4, <2>5
<1>3. CASE AutoCompact \/ PromptTooLong
  BY <1>3, <1>b DEF AutoCompact, PromptTooLong
<1>4. CASE RateLimited
  BY <1>4, <1>b DEF RateLimited
<1>5. CASE TopCancelled \/ Request \/ Execute
  BY <1>5, <1>b DEF TopCancelled, Request, Execute
<1>6. CASE ServerError \/ FatalError \/ Backoff
  BY <1>6, <1>b DEF ServerError, FatalError, Backoff
<1>7. CASE StreamEmpty \/ Interrupted
  <2>1. CASE UNCHANGED msgs
    BY <1>7, <1>b, <2>1 DEF StreamEmpty, Interrupted, AnswerFrame
  <2>2. CASE msgs' = msgs \o Results("interrupted", blocks)
    <3>1. Fresh(Results("interrupted", blocks), blocks)
      BY <1>a, <1>c, FreshResults
    <3>2. pc = "stream" /\ pc' = "done" /\ blocks' = {} /\ UNCHANGED model
      BY <1>7, <2>2 DEF StreamEmpty, Interrupted, AnswerFrame, End
    <3>3. Refuses(blocks)
      BY <2>2, <3>1, <3>2 DEF Refuses, Appends, Streamed
    <3> QED
      BY <3>2, <3>3
  <2> QED
    BY <1>7, <2>1, <2>2 DEF StreamEmpty, Interrupted
<1>8. CASE Truncated \/ Completed \/ Answered
  <2>1. PICK kind \in {"assistant", "cut"} :
          \/ msgs' = Answer(kind)
          \/ msgs' = Answer(kind) \o Text(1)
          \/ msgs' = Append(Answer(kind), Plain("nudge"))
    BY <1>8 DEF Truncated, Completed, Answered
  <2>2. PICK s : Fresh(s, {}) /\ Answer(kind) = msgs \o s
    BY <1>a, FreshAnswer
  <2>3. CASE msgs' = Answer(kind)
    BY <1>8, <2>2, <2>3 DEF Appends, Truncated, Completed, Answered, AnswerFrame
  <2>4. ASSUME NEW t, Fresh(t, {}), msgs' = Answer(kind) \o t PROVE Goal
    <3>1. msgs' = msgs \o (s \o t) /\ Fresh(s \o t, {})
      BY <2>2, <2>4, <1>d
    <3>2. UNCHANGED model
      BY <1>8 DEF Truncated, Completed, Answered, AnswerFrame
    <3> QED
      BY <3>1, <3>2 DEF Appends
  <2>5. CASE msgs' = Answer(kind) \o Text(1)
    BY <2>4, <2>5, FreshText
  <2>6. CASE msgs' = Append(Answer(kind), Plain("nudge"))
    <3>1. Plain("nudge") \in Message /\ Plain("nudge").by = "none"
          /\ Plain("nudge").kind \notin RefusalKinds
      BY PlainType DEF Kinds, Plain, RefusalKinds
    <3>2. Answer(kind) \in Seq(Message)
      BY <1>a, AnswerType
    <3>3. Append(Answer(kind), Plain("nudge")) = Answer(kind) \o <<Plain("nudge")>>
      BY <3>1, <3>2
    <3>4. Fresh(<<Plain("nudge")>>, {})
      BY <3>1, FreshSingle
    <3> QED
      BY <2>4, <2>6, <3>3, <3>4
  <2> QED
    BY <2>1, <2>3, <2>5, <2>6
<1>9. CASE Permission
  <2>1. PICK no \in SUBSET Asked : msgs' = msgs \o Results("denied", no) /\ blocks' = blocks \ no
    BY <1>9 DEF Permission
  <2>2. no \in SUBSET blocks
    BY DEF Asked
  <2>3. Fresh(Results("denied", no), no)
    BY <1>a, <1>c, <2>2, FreshResults
  <2>4. pc = "permission" /\ pc' # "stream" /\ UNCHANGED model
    BY <1>9 DEF Permission, GateFrame, End
  <2>5. Refuses(no)
    BY <2>1, <2>2, <2>3, <2>4 DEF Refuses, Appends, Streamed
  <2> QED
    BY <2>4, <2>5
<1>10. CASE PlanGate
  <2>1. PlanBlocked \in SUBSET blocks
    BY DEF PlanBlocked
  <2>2. Fresh(Results("denied", PlanBlocked), PlanBlocked)
    BY <1>a, <1>c, <2>1, FreshResults
  <2>3. pc = "plan" /\ pc' # "stream" /\ UNCHANGED model
    BY <1>10 DEF PlanGate, GateFrame
  <2>4. Refuses(PlanBlocked)
    BY <1>10, <2>1, <2>2, <2>3 DEF PlanGate, Refuses, Appends, Streamed
  <2> QED
    BY <2>3, <2>4
<1>11. CASE HookGate
  <2>1. PICK no \in SUBSET blocks, notes \in {0, 1} :
          /\ msgs' = msgs \o Results("denied", no) \o Text(notes) \o Reminders(blocks \ no)
          /\ blocks' = blocks \ no
    BY <1>11 DEF HookGate
  <2>2. Fresh(Results("denied", no), no)
    BY <1>a, <1>c, FreshResults
  <2>3. Fresh(Text(notes), no) /\ Fresh(Reminders(blocks \ no), no)
    BY FreshText DEF Reminders
  <2>4. Appends(no)
    <3> DEFINE r == Results("denied", no)
               s == Text(notes)
               t == Reminders(blocks \ no)
    <3>1. Fresh(r, no) /\ Fresh(s, no) /\ Fresh(t, no) /\ msgs' = msgs \o r \o s \o t
      BY <2>1, <2>2, <2>3
    <3> HIDE DEF r, s, t
    <3>2. msgs \o r \o s = msgs \o (r \o s) /\ Fresh(r \o s, no)
      BY <1>d, <3>1
    <3>3. msgs \o (r \o s) \o t = msgs \o (r \o s \o t) /\ Fresh(r \o s \o t, no)
      BY <1>d, <3>1, <3>2
    <3> QED
      BY <3>1, <3>2, <3>3, Zenon DEF Appends
  <2>5. pc = "hook" /\ pc' # "stream" /\ UNCHANGED model
    BY <1>11 DEF HookGate, GateFrame
  <2>6. Refuses(no)
    BY <2>1, <2>4, <2>5 DEF Refuses, Streamed
  <2> QED
    BY <2>5, <2>6
<1>12. CASE Collect
  <2>1. PICK notes \in {0, 1} : msgs' = msgs \o Results("result", blocks) \o Text(notes)
    BY <1>12 DEF Collect
  <2>2. Fresh(Results("result", blocks), {})
    <3>1. Fresh(Results("result", blocks), blocks)
      BY <1>a, <1>c, FreshResults
    <3>2. \A i \in 1 .. Len(Results("result", blocks)) :
            Results("result", blocks)[i].kind \notin RefusalKinds
      BY DEF Results, RefusalKinds
    <3> QED
      BY <3>1, <3>2 DEF Fresh
  <2>3. Fresh(Text(notes), {})
    BY FreshText
  <2> DEFINE u == Results("result", blocks) \o Text(notes)
  <2>4. msgs' = msgs \o u /\ Fresh(u, {})
    BY <1>d, <2>1, <2>2, <2>3
  <2> HIDE DEF u
  <2>5. Appends({}) /\ UNCHANGED model
    BY <1>12, <2>4 DEF Collect, Appends
  <2> QED
    BY <2>5
<1>13. CASE MemoryExtracted \/ Cancel
  BY <1>13, <1>b DEF MemoryExtracted, Cancel
<1>14. ASSUME NEW t \in cfg.tools, StreamToolUse(t) PROVE Goal
  BY <1>14, <1>b DEF StreamToolUse
<1>15. ASSUME NEW call \in running, ToolReturns(call) PROVE Goal
  BY <1>15, <1>b DEF ToolReturns
<1>16. ASSUME NEW c \in DOMAIN mail, MailArrives(c) PROVE Goal
  BY <1>16, <1>b DEF MailArrives
<1> QED
  BY <1>1, <1>2, <1>3, <1>4, <1>5, <1>6, <1>7, <1>8, <1>9, <1>10, <1>11, <1>12, <1>13,
     <1>14, <1>15, <1>16 DEF Next, LoopStep, Over

\* Refused calls belong to an answer of the past, or have left the calls of
\* the present one; those that are not concurrency-safe never started.
RefusedOut ==
  /\ \A c \in Refused : c.req <= reqs /\ (c.tool \notin Safe => c \notin Started)
  /\ pc = "stream" => \A c \in Refused : c.req # reqs
  /\ Refused \cap blocks = {}

\* What a step adds to the refused calls.
LEMMA RefusedSteps ==
  ASSUME Types, [Next]_vars
  PROVE  Refused' \subseteq Refused \/ \E calls : Refuses(calls) /\ Refused' \subseteq Refused \cup calls
<1>a. msgs \in Seq(Message)
  BY DEF Types, Lists
<1>b. ASSUME NEW t, NEW calls, Fresh(t, calls), msgs' = msgs \o t
      PROVE  Refused' \subseteq Refused \cup calls
  <2>1. t \in Seq(Message) /\ RefusedIn(t) \subseteq calls
    BY <1>b DEF Fresh, RefusedIn
  <2>2. RefusedIn(msgs \o t) = RefusedIn(msgs) \cup RefusedIn(t)
    BY <1>a, <2>1, RefusedConcat
  <2> QED
    BY <1>b, <2>1, <2>2 DEF Refused
<1>1. CASE msgs' = Summary
  <2>1. \A i \in 1 .. Len(Summary) : Summary[i].kind \notin RefusalKinds
    BY DEF Summary, Plain, RefusalKinds
  <2>2. RefusedIn(Summary) = {}
    BY <2>1 DEF RefusedIn
  <2> QED
    BY <1>1, <2>2 DEF Refused
<1>2. CASE msgs' = StripThinking(msgs, "backup")
  BY <1>a, <1>2, RefusedStrip DEF Refused
<1>3. CASE Appends({})
  BY <1>3, <1>b DEF Appends
<1>4. ASSUME NEW calls, Refuses(calls)
      PROVE  \E c : Refuses(c) /\ Refused' \subseteq Refused \cup c
  BY <1>4, <1>b DEF Refuses, Appends
<1> QED
  BY <1>1, <1>2, <1>3, <1>4, MessageSteps

LEMMA RefusedOutNext == Types /\ Once /\ RefusedOut /\ [Next]_vars => RefusedOut'
<1> SUFFICES ASSUME Types, Once, RefusedOut, [Next]_vars PROVE RefusedOut'
  OBVIOUS
<1> USE DEF RefusedOut
<1>a. CallTypes /\ Control /\ reqs \in Nat /\ blocks \in SUBSET Call
  BY DEF Types, CallTypes, Control
<1>b. PICK calls : /\ calls \subseteq blocks /\ Refused' \subseteq Refused \cup calls
                   /\ \/ calls = {}
                      \/ pc \in Streamed /\ pc' # "stream" /\ calls \cap blocks' = {}
  BY RefusedSteps DEF Refuses
<1>c. \A c \in calls : c.req = reqs
  BY <1>b DEF Once, Numbered
<1>1. CASE Quiet
  <2>1. Started' = Started /\ reqs' = reqs /\ blocks' \subseteq blocks
        /\ (pc' = "stream" => pc = "stream")
    BY <1>1 DEF Quiet, Shrinks, Started
  <2>2. \A c \in calls : c.tool \notin Safe => c \notin Started
    BY <1>b, <1>c DEF Once, Numbered
  <2> QED
    BY <1>a, <1>b, <1>c, <2>1, <2>2
<1>2. CASE Request
  <2>1. Started' = Started /\ reqs' = reqs + 1 /\ blocks' = {} /\ calls = {}
    BY <1>2, <1>b DEF Request, Started, Streamed
  <2>2. msgs \in Seq(Message) /\ msgs' = msgs
    BY <1>2 DEF Request, Types, Lists
  <2>3. \A c \in Refused : c.req \in Nat
    <3>1. \A i \in 1 .. Len(msgs) : msgs[i].calls \subseteq Call
      <4>1. \A i \in 1 .. Len(msgs) : msgs[i] \in Message
        BY <2>2
      <4> QED
        BY <4>1 DEF Message
    <3>2. Refused \subseteq Call
      BY <3>1 DEF Refused, RefusedIn
    <3> QED
      BY <3>2 DEF Call
  <2>4. \A c \in Refused : c.req <= reqs' /\ c.req # reqs'
    BY <1>a, <2>1, <2>3
  <2> QED
    BY <1>b, <2>1, <2>4
<1>3. CASE Execute
  <2>1. PICK b \in Remaining \ Started : ran' = Append(ran, b)
    BY <1>3 DEF Execute
  <2>2. b \in blocks /\ b \in Call
    BY <1>a, <2>1 DEF Remaining
  <2>3. Started' = Started \cup {b}
    BY <1>a, <2>1, <2>2, StartNext
  <2>4. calls = {} /\ pc' # "stream" /\ UNCHANGED <<blocks, reqs>>
    BY <1>3, <1>b DEF Execute, Streamed
  <2> QED
    BY <1>b, <2>2, <2>3, <2>4
<1>4. ASSUME NEW t \in cfg.tools, StreamToolUse(t) PROVE RefusedOut'
  <2> DEFINE c == NextCall(t)
  <2>1. c \in Call /\ c.req = reqs /\ c.tool = t
    BY <1>a, NextCallType DEF NextCall
  <2>2. /\ blocks' = blocks \cup {c} /\ UNCHANGED <<pc, reqs>> /\ pc = "stream"
        /\ IF t \in Safe THEN ran' = Append(ran, c) ELSE UNCHANGED ran
    BY <1>4 DEF StreamToolUse, NextCall
  <2> HIDE DEF c
  <2>3. calls = {}
    BY <1>b, <2>2
  <2>4. c \notin Refused
    BY <2>1, <2>2
  <2>5. Started' = Started \/ (t \in Safe /\ Started' = Started \cup {c})
    <3>1. CASE t \in Safe
      BY <1>a, <2>1, <2>2, <3>1, StartNext
    <3>2. CASE t \notin Safe
      BY <2>2, <3>2 DEF Started
    <3> QED
      BY <3>1, <3>2
  <2> QED
    BY <1>b, <2>1, <2>2, <2>3, <2>4, <2>5
<1>5. ASSUME NEW call \in running, ToolReturns(call) PROVE RefusedOut'
  BY <1>5 DEF ToolReturns, Refused, RefusedIn, Started
<1> QED
  BY <1>1, <1>2, <1>3, <1>4, <1>5, QuietSteps

LEMMA RefusedOutInit == Init => RefusedOut
<1> SUFFICES ASSUME Init PROVE RefusedOut
  OBVIOUS
<1>1. Refused = {}
  BY DEF Init, Refused, RefusedIn, Plain, RefusalKinds
<1> QED
  BY <1>1 DEF Init, RefusedOut

\* Permission, plan mode, the PreToolUse hooks and a cancellation keep their
\* word: what was refused in the conversation never ran, early execution of
\* concurrency-safe tools apart (loop.go 289-416).
THEOREM RefusedNeverRuns == Spec => []DeniedNeverRan
<1>1. RefusedOut => DeniedNeverRan
  BY DEF RefusedOut, DeniedNeverRan, Refused, RefusedIn
<1> QED
  BY <1>1, TypesInit, TypesNext, OnceInit, OnceNext, RefusedOutInit, RefusedOutNext, PTL DEF Spec

\* Each call of an answer (loop.go 561-628, 737-796) is executed at most once,
\* and one that was refused not at all unless it is concurrency-safe.
THEOREM CallsAreHonoured == Spec => []CallsHonoured
  BY CallsRunOnce, RefusedNeverRuns, PTL DEF CallsHonoured

-----------------------------------------------------------------------------
(* The model that signed.                                                  *)

\* After the fallback nothing is left that the primary model signed.
Resigned == model = "backup" => \A i \in 1 .. Len(msgs) : msgs[i].by # "primary"

LEMMA ResignedNext == Types /\ Resigned /\ [Next]_vars => Resigned'
<1> SUFFICES ASSUME Types, Resigned, [Next]_vars, model' = "backup",
                    NEW i \in 1 .. Len(msgs')
             PROVE  msgs'[i].by # "primary"
  BY DEF Resigned
<1>a. msgs \in Seq(Message)
  BY DEF Types, Lists
<1>1. CASE msgs' = Summary
  BY <1>1 DEF Summary, Plain
<1>2. CASE msgs' = StripThinking(msgs, "backup")
  <2>1. i \in 1 .. Len(msgs) /\ msgs[i] \in Message
    BY <1>a, <1>2, StripType
  <2>2. msgs'[i] = IF msgs[i].by = "backup" THEN msgs[i] ELSE [msgs[i] EXCEPT !.by = "none"]
    BY <1>2, <2>1 DEF StripThinking
  <2> QED
    BY <2>1, <2>2 DEF Message
<1>3. ASSUME NEW calls, Appends(calls), UNCHANGED model
      PROVE  msgs'[i].by # "primary"
  <2>1. PICK t : Fresh(t, calls) /\ msgs' = msgs \o t
    BY <1>3 DEF Appends
  <2>2. t \in Seq(Message) /\ \A j \in 1 .. Len(t) : t[j].by \in {"none", "backup"}
    BY <1>3, <2>1 DEF Fresh
  <2>3. CASE i <= Len(msgs)
    <3>1. i \in 1 .. Len(msgs) /\ msgs'[i] = msgs[i]
      BY <1>a, <2>1, <2>2, <2>3
    <3> QED
      BY <1>3, <3>1 DEF Resigned
  <2>4. CASE ~(i <= Len(msgs))
    <3>1. i - Len(msgs) \in 1 .. Len(t) /\ msgs'[i] = t[i - Len(msgs)]
      BY <1>a, <2>1, <2>2, <2>4
    <3> QED
      BY <2>2, <3>1
  <2> QED
    BY <2>3, <2>4
<1> QED
  BY <1>1, <1>2, <1>3, MessageSteps DEF Refuses

\* Thinking blocks are bound to the model that signed them: the request to the
\* fallback model carries none of the primary model's (loop.go 637-653).
THEOREM SignaturesMatch == Spec => []ThinkingMatches
<1>1. Init => Resigned
  BY DEF Init, Resigned
<1>2. Resigned => ThinkingMatches
  BY DEF Resigned, ThinkingMatches
<1> QED
  BY <1>1, <1>2, TypesInit, TypesNext, ResignedNext, PTL DEF Spec

\* Every request (loop.go 196-204) is within the turns of its run and carries no
\* thinking block another model signed.
THEOREM RequestsAreLegal == Spec => []RequestsLegal
  BY BoundedRequests, SignaturesMatch, PTL DEF RequestsLegal

-----------------------------------------------------------------------------
(* Plan mode.                                                              *)

PlanTools == ReadOnly \cup {"EnterPlanMode", "ExitPlanMode"}

\* Past the gate, plan mode has only calls it allows.
PlanKept == pc \in {"hook", "exec"} /\ st.plan => \A b \in blocks : b.tool \in PlanTools

LEMMA PlanNext == Types /\ PlanKept /\ [Next]_vars => PlanKept'
<1> SUFFICES ASSUME Types, PlanKept, [Next]_vars, pc' \in {"hook", "exec"}, st'.plan
             PROVE  \A b \in blocks' : b.tool \in PlanTools
  BY DEF PlanKept
<1>1. CASE PlanGate
  <2>1. st' = st /\ blocks' = blocks \ PlanBlocked
    BY <1>1 DEF PlanGate, GateFrame
  <2> QED
    BY <2>1 DEF PlanBlocked, PlanTools
<1>2. CASE ~PlanGate
  <2>1. pc \in {"hook", "exec"} /\ st' = st /\ blocks' \subseteq blocks
    <3>1. CASE UNCHANGED vars
      BY <3>1 DEF vars
    <3>2. CASE LoopStep
      <4>1. HookGate \/ Execute
        BY <1>2, <3>2 DEF LoopStep, TopCancelled, TopLimit, TopTurn, AutoCompact, Request,
           RateLimited, PromptTooLong, ServerError, FatalError, Backoff, StreamEmpty,
           Interrupted, Truncated, Completed, Answered, Permission, Collect, End
      <4> QED
        BY <4>1 DEF HookGate, Execute, GateFrame
    <3>3. CASE MemoryExtracted \/ Cancel
      BY <3>3 DEF MemoryExtracted, Cancel
    <3>4. ~ \E t \in cfg.tools : StreamToolUse(t)
      BY DEF StreamToolUse
    <3>5. ASSUME NEW call \in running, ToolReturns(call)
          PROVE  pc \in {"hook", "exec"} /\ st' = st /\ blocks' \subseteq blocks
      BY <3>5 DEF ToolReturns
    <3>6. ASSUME NEW c \in DOMAIN mail, MailArrives(c)
          PROVE  pc \in {"hook", "exec"} /\ st' = st /\ blocks' \subseteq blocks
      BY <3>6 DEF MailArrives
    <3> QED
      BY <3>1, <3>2, <3>3, <3>4, <3>5, <3>6 DEF Next, Over
  <2> QED
    BY <2>1 DEF PlanKept
<1> QED
  BY <1>1, <1>2

\* While plan mode is on, only read-only tools, the plan mode tools and the
\* early concurrency-safe ones start (loop.go 338-363, tool/plan.go).
THEOREM PlanModeKept == Spec => PlanModeHolds
<1>1. Init => PlanKept
  BY DEF Init, PlanKept
<1>2. Types /\ PlanKept /\ [Next]_vars =>
        [st.plan => \A c \in Started' \ Started :
           c.tool \in Safe \cup ReadOnly \cup {"EnterPlanMode", "ExitPlanMode"}]_vars
  <2> SUFFICES ASSUME Types, PlanKept, [Next]_vars, st.plan, NEW c \in Started' \ Started
               PROVE  c.tool \in Safe \cup PlanTools
    BY DEF PlanTools
  <2>a. CallTypes /\ Control
    BY DEF Types
  <2>1. CASE Execute
    <3>1. PICK b \in Remaining \ Started : ran' = Append(ran, b)
      BY <2>1 DEF Execute
    <3>2. b \in Call /\ b \in blocks
      BY <2>a, <3>1 DEF Remaining, CallTypes
    <3>3. c = b
      BY <2>a, <3>1, <3>2, StartNext
    <3> QED
      BY <2>1, <3>2, <3>3 DEF Execute, PlanKept
  <2>2. ASSUME NEW t \in cfg.tools, StreamToolUse(t)
        PROVE  c.tool \in Safe \cup PlanTools
    <3>1. CASE t \in Safe
      <4>1. NextCall(t) \in Call /\ NextCall(t).tool = t /\ ran' = Append(ran, NextCall(t))
        BY <2>a, <2>2, <3>1, NextCallType DEF StreamToolUse, NextCall
      <4>2. c = NextCall(t)
        BY <2>a, <4>1, StartNext
      <4> QED
        BY <3>1, <4>1, <4>2
    <3>2. CASE t \notin Safe
      BY <2>2, <3>2 DEF StreamToolUse, Started
    <3> QED
      BY <3>1, <3>2
  <2>3. ran' # ran
    BY DEF Started
  <2>4. ~(Quiet \/ Request \/ \E call \in running : ToolReturns(call))
    BY <2>3 DEF Quiet, Shrinks, Request, ToolReturns
  <2> QED
    BY <2>1, <2>2, <2>4, QuietSteps
<1> QED
  BY <1>1, <1>2, TypesInit, TypesNext, PlanNext, PTL DEF Spec, PlanModeHolds

-----------------------------------------------------------------------------
(* Answers and results.                                                    *)

Replies(m, c) == m.kind \in ResultKinds /\ c \in m.calls

\* An answer that was cut shares no call with a completed one.
CutApart(s) ==
  \A i, j \in 1 .. Len(s) :
    s[i].kind = "cut" /\ s[j].kind = "assistant" => s[i].calls \cap s[j].calls = {}

\* Results follow their calls in s, and each call has one result; the open
\* calls have none yet.
Balanced(s, open) ==
  /\ ResultsFollowCalls(s)
  /\ CutApart(s)
  /\ \A i \in 1 .. Len(s) : s[i].kind = "assistant" =>
       \A c \in s[i].calls :
         IF c \in open THEN \A j \in 1 .. Len(s) : ~Replies(s[j], c)
         ELSE \E j \in i + 1 .. Len(s) :
                Replies(s[j], c) /\ \A k \in 1 .. Len(s) : Replies(s[k], c) => k = j

Gates == {"permission", "plan", "hook", "exec"}
Talking == {"top", "compact", "request", "stream", "backoff"}

\* The gates and the execution have the calls of the last answer open; a new
\* answer has new calls.
Balance ==
  /\ pc \in Talking => Balanced(msgs, {})
  /\ pc \in Gates => Balanced(msgs, blocks)
  /\ \A i \in 1 .. Len(msgs) : \A c \in msgs[i].calls :
       c.req <= reqs /\ (pc = "stream" => c.req # reqs)

Records == {"assistant", "cut"} \cup ResultKinds

\* What the next save takes: nothing to speak of before the answer is
\* complete, then the answer and results of its calls.
Unsaved ==
  /\ pc \in {"compact", "request", "stream"} =>
       \A j \in prev + 1 .. Len(msgs) : msgs[j].kind \notin Records
  /\ pc \in Gates =>
       \E a \in prev + 1 .. Len(msgs) :
         /\ msgs[a].kind = "assistant" /\ blocks \subseteq msgs[a].calls
         /\ \A j \in prev + 1 .. Len(msgs) : msgs[j].kind \in ResultKinds =>
              a < j /\ msgs[j].calls \subseteq msgs[a].calls

InStore(m) == \E j \in 1 .. Len(store) : store[j].kind = m.kind /\ store[j].calls = m.calls

\* What the earlier saves took: all before prevMsgCount, or all there is.
Saved ==
  ~lost => \A i \in 1 .. Len(msgs) :
             msgs[i].kind \in Records /\ (pc \in {"top", "backoff"} \/ (pc # "done" /\ i <= prev))
               => InStore(msgs[i])

Kept == Balance /\ Unsaved /\ Saved /\ StoreReplayable

-----------------------------------------------------------------------------
(* Conversations that get longer.                                          *)

LEMMA ConcatAt ==
  ASSUME NEW s \in Seq(Message), NEW t \in Seq(Message)
  PROVE  /\ s \o t \in Seq(Message) /\ Len(s) \in Nat /\ Len(t) \in Nat
         /\ Len(s \o t) = Len(s) + Len(t)
         /\ \A i \in 1 .. Len(s) : i \in 1 .. Len(s \o t) /\ (s \o t)[i] = s[i]
         /\ \A i \in 1 .. Len(t) : /\ Len(s) + i \in 1 .. Len(s \o t)
                                   /\ (s \o t)[Len(s) + i] = t[i]
         /\ \A i \in 1 .. Len(s \o t) :
              i \notin 1 .. Len(s) => i - Len(s) \in 1 .. Len(t) /\ (s \o t)[i] = t[i - Len(s)]
                                      /\ i > Len(s) /\ Len(s) + (i - Len(s)) = i
<1>1. /\ s \o t \in Seq(Message) /\ Len(s) \in Nat /\ Len(t) \in Nat
      /\ Len(s \o t) = Len(s) + Len(t)
      /\ \A i \in 1 .. Len(s) : i \in 1 .. Len(s \o t) /\ (s \o t)[i] = s[i]
      /\ \A i \in 1 .. Len(t) : Len(s) + i \in 1 .. Len(s \o t) /\ (s \o t)[Len(s) + i] = t[i]
  OBVIOUS
<1>2. ASSUME NEW i \in 1 .. Len(s \o t), i \notin 1 .. Len(s)
      PROVE  i - Len(s) \in 1 .. Len(t) /\ (s \o t)[i] = t[i - Len(s)]
             /\ i > Len(s) /\ Len(s) + (i - Len(s)) = i
  <2>1. i - Len(s) \in 1 .. Len(t) /\ i > Len(s) /\ Len(s) + (i - Len(s)) = i
    BY <1>1, <1>2
  <2> QED
    BY <1>1, <2>1
<1> QED
  BY <1>1, <1>2

\* What is appended without results, and without calls to answer.
Loose(t) ==
  /\ t \in Seq(Message)
  /\ \A i \in 1 .. Len(t) : /\ t[i].kind \notin ResultKinds
                            /\ t[i].kind = "assistant" => t[i].calls = {}

\* What a gate or the execution appends: the results of some calls, at once.
Closing(t, calls) ==
  /\ t \in Seq(Message)
  /\ \A i \in 1 .. Len(t) : /\ t[i].kind \notin {"assistant", "cut"}
                            /\ t[i].calls \subseteq calls
                            /\ t[i].kind \in ResultKinds => t[i].calls = calls /\ calls # {}
  /\ \A i, j \in 1 .. Len(t) :
       t[i].kind \in ResultKinds /\ t[j].kind \in ResultKinds => i = j
  /\ calls # {} => \E i \in 1 .. Len(t) : t[i].kind \in ResultKinds

LEMMA BalancedLoose ==
  ASSUME NEW s \in Seq(Message), NEW open, Balanced(s, open), NEW t, Loose(t),
         \A i \in 1 .. Len(t) : \A j \in 1 .. Len(s) :
           t[i].kind = "cut" => t[i].calls \cap s[j].calls = {}
  PROVE  Balanced(s \o t, open)
<1> DEFINE u == s \o t
<1>1. t \in Seq(Message)
  BY DEF Loose
<1>2. /\ u \in Seq(Message) /\ Len(s) \in Nat /\ Len(u) \in Nat
      /\ \A i \in 1 .. Len(s) : i \in 1 .. Len(u) /\ u[i] = s[i]
      /\ \A i \in 1 .. Len(u) : i \notin 1 .. Len(s) =>
           /\ i > Len(s) /\ u[i].kind \notin ResultKinds
           /\ u[i].kind = "assistant" => u[i].calls = {}
  BY <1>1, ConcatAt DEF Loose
<1>5. \A i \in 1 .. Len(u) : \A j \in 1 .. Len(s) :
        i \notin 1 .. Len(s) /\ u[i].kind = "cut" => u[i].calls \cap s[j].calls = {}
  BY <1>1, ConcatAt
<1> HIDE DEF u
<1>6. CutApart(u)
  <2> SUFFICES ASSUME NEW i \in 1 .. Len(u), NEW j \in 1 .. Len(u),
                      u[i].kind = "cut", u[j].kind = "assistant"
               PROVE  u[i].calls \cap u[j].calls = {}
    BY DEF CutApart
  <2>1. CASE j \notin 1 .. Len(s)
    BY <1>2, <2>1
  <2>2. CASE j \in 1 .. Len(s) /\ i \notin 1 .. Len(s)
    BY <1>2, <1>5, <2>2
  <2>3. CASE j \in 1 .. Len(s) /\ i \in 1 .. Len(s)
    <3>1. u[i] = s[i] /\ u[j] = s[j]
      BY <1>2, <2>3
    <3> QED
      BY <2>3, <3>1 DEF Balanced, CutApart
  <2> QED
    BY <2>1, <2>2, <2>3
<1>3. ResultsFollowCalls(u)
  <2> SUFFICES ASSUME NEW j \in 1 .. Len(u), u[j].kind \in ResultKinds
               PROVE  \E i \in 1 .. j - 1 : u[i].kind = "assistant" /\ u[j].calls \subseteq u[i].calls
    BY DEF ResultsFollowCalls
  <2>1. j \in 1 .. Len(s) /\ u[j] = s[j]
    BY <1>2
  <2>2. PICK i \in 1 .. j - 1 : s[i].kind = "assistant" /\ s[j].calls \subseteq s[i].calls
    BY <2>1 DEF Balanced, ResultsFollowCalls
  <2>3. i \in 1 .. Len(s)
    BY <1>2, <2>1
  <2> QED
    BY <1>2, <2>1, <2>2, <2>3
<1>4. ASSUME NEW i \in 1 .. Len(u), u[i].kind = "assistant", NEW c \in u[i].calls
      PROVE  IF c \in open THEN \A j \in 1 .. Len(u) : ~Replies(u[j], c)
             ELSE \E j \in i + 1 .. Len(u) :
                    Replies(u[j], c) /\ \A k \in 1 .. Len(u) : Replies(u[k], c) => k = j
  <2>1. i \in 1 .. Len(s) /\ u[i] = s[i]
    BY <1>2, <1>4
  <2>2. \A k \in 1 .. Len(u) : Replies(u[k], c) => k \in 1 .. Len(s) /\ Replies(s[k], c)
    BY <1>2 DEF Replies
  <2>3. CASE c \in open
    BY <1>4, <2>1, <2>2, <2>3 DEF Balanced
  <2>4. CASE c \notin open
    <3>1. PICK j \in i + 1 .. Len(s) :
            Replies(s[j], c) /\ \A k \in 1 .. Len(s) : Replies(s[k], c) => k = j
      BY <1>4, <2>1, <2>4 DEF Balanced
    <3>2. j \in 1 .. Len(s) /\ j \in i + 1 .. Len(u) /\ Replies(u[j], c)
      BY <1>2, <2>1, <3>1
    <3> QED
      BY <2>2, <2>4, <3>1, <3>2
  <2> QED
    BY <2>3, <2>4
<1> QED
  BY <1>3, <1>4, <1>6 DEF Balanced, u

LEMMA BalancedClosing ==
  ASSUME NEW s \in Seq(Message), NEW open, Balanced(s, open), NEW calls \in SUBSET open,
         NEW t, Closing(t, calls),
         NEW a \in 1 .. Len(s), s[a].kind = "assistant", open \subseteq s[a].calls
  PROVE  Balanced(s \o t, open \ calls)
<1> DEFINE u == s \o t
<1>1. t \in Seq(Message)
  BY DEF Closing
<1>2. /\ u \in Seq(Message) /\ Len(s) \in Nat /\ Len(u) \in Nat
      /\ \A i \in 1 .. Len(s) : i \in 1 .. Len(u) /\ u[i] = s[i]
      /\ \A i \in 1 .. Len(u) : i \notin 1 .. Len(s) =>
           /\ i > Len(s) /\ u[i].kind \notin {"assistant", "cut"}
           /\ u[i].kind \in ResultKinds => u[i].calls = calls
  BY <1>1, ConcatAt DEF Closing
<1>3. \A i, j \in 1 .. Len(u) :
        i \notin 1 .. Len(s) /\ j \notin 1 .. Len(s)
        /\ u[i].kind \in ResultKinds /\ u[j].kind \in ResultKinds => i = j
  <2> SUFFICES ASSUME NEW i \in 1 .. Len(u), NEW j \in 1 .. Len(u),
                      i \notin 1 .. Len(s), j \notin 1 .. Len(s),
                      u[i].kind \in ResultKinds, u[j].kind \in ResultKinds
               PROVE  i = j
    OBVIOUS
  <2>1. i - Len(s) \in 1 .. Len(t) /\ j - Len(s) \in 1 .. Len(t)
        /\ t[i - Len(s)].kind \in ResultKinds /\ t[j - Len(s)].kind \in ResultKinds
    BY <1>1, ConcatAt
  <2>2. i - Len(s) = j - Len(s)
    BY <2>1 DEF Closing
  <2> QED
    BY <1>2, <2>2
<1>4. calls # {} => \E j \in 1 .. Len(u) : j \notin 1 .. Len(s) /\ u[j].kind \in ResultKinds
  <2> SUFFICES ASSUME calls # {}
               PROVE  \E j \in 1 .. Len(u) : j \notin 1 .. Len(s) /\ u[j].kind \in ResultKinds
    OBVIOUS
  <2>1. PICK i \in 1 .. Len(t) : t[i].kind \in ResultKinds
    BY DEF Closing
  <2>2. Len(s) + i \in 1 .. Len(u) /\ u[Len(s) + i] = t[i] /\ Len(s) + i \notin 1 .. Len(s)
    BY <1>1, <1>2, ConcatAt
  <2> QED
    BY <2>1, <2>2
<1> HIDE DEF u
<1>5. ResultsFollowCalls(u)
  <2> SUFFICES ASSUME NEW j \in 1 .. Len(u), u[j].kind \in ResultKinds
               PROVE  \E i \in 1 .. j - 1 : u[i].kind = "assistant" /\ u[j].calls \subseteq u[i].calls
    BY DEF ResultsFollowCalls
  <2>1. CASE j \in 1 .. Len(s)
    <3>1. PICK i \in 1 .. j - 1 : s[i].kind = "assistant" /\ s[j].calls \subseteq s[i].calls
      BY <1>2, <2>1 DEF Balanced, ResultsFollowCalls
    <3>2. i \in 1 .. Len(s)
      BY <1>2, <2>1
    <3> QED
      BY <1>2, <2>1, <3>1, <3>2
  <2>2. CASE j \notin 1 .. Len(s)
    <3>1. u[j].calls = calls /\ a \in 1 .. j - 1 /\ u[a] = s[a]
      BY <1>2, <2>2
    <3> QED
      BY <3>1
  <2> QED
    BY <2>1, <2>2
<1>7. CutApart(u)
  <2> SUFFICES ASSUME NEW i \in 1 .. Len(u), NEW j \in 1 .. Len(u),
                      u[i].kind = "cut", u[j].kind = "assistant"
               PROVE  u[i].calls \cap u[j].calls = {}
    BY DEF CutApart
  <2>1. i \in 1 .. Len(s) /\ j \in 1 .. Len(s) /\ u[i] = s[i] /\ u[j] = s[j]
    BY <1>2
  <2> QED
    BY <2>1 DEF Balanced, CutApart
<1>6. ASSUME NEW i \in 1 .. Len(u), u[i].kind = "assistant", NEW c \in u[i].calls
      PROVE  IF c \in open \ calls THEN \A j \in 1 .. Len(u) : ~Replies(u[j], c)
             ELSE \E j \in i + 1 .. Len(u) :
                    Replies(u[j], c) /\ \A k \in 1 .. Len(u) : Replies(u[k], c) => k = j
  <2>1. i \in 1 .. Len(s) /\ u[i] = s[i]
    BY <1>2, <1>6
  <2>2. \A k \in 1 .. Len(u) : Replies(u[k], c) =>
          IF k \in 1 .. Len(s) THEN Replies(s[k], c) ELSE c \in calls
    BY <1>2 DEF Replies
  <2>3. CASE c \in open \ calls
    <3>1. \A j \in 1 .. Len(s) : ~Replies(s[j], c)
      BY <1>6, <2>1, <2>3 DEF Balanced
    <3> QED
      BY <2>2, <2>3, <3>1
  <2>4. CASE c \in calls
    <3>1. \A j \in 1 .. Len(s) : ~Replies(s[j], c)
      BY <1>6, <2>1, <2>4 DEF Balanced
    <3>2. PICK j \in 1 .. Len(u) : j \notin 1 .. Len(s) /\ u[j].kind \in ResultKinds
      BY <1>4, <2>4
    <3>3. j \in i + 1 .. Len(u) /\ Replies(u[j], c)
      BY <1>2, <2>1, <2>4, <3>2 DEF Replies
    <3>4. \A k \in 1 .. Len(u) : Replies(u[k], c) => k = j
      <4> SUFFICES ASSUME NEW k \in 1 .. Len(u), Replies(u[k], c) PROVE k = j
        OBVIOUS
      <4>1. k \notin 1 .. Len(s)
        BY <2>2, <3>1
      <4> QED
        BY <1>3, <3>2, <4>1 DEF Replies
    <3> QED
      BY <2>4, <3>3, <3>4
  <2>5. CASE c \notin open
    <3>1. PICK j \in i + 1 .. Len(s) :
            Replies(s[j], c) /\ \A k \in 1 .. Len(s) : Replies(s[k], c) => k = j
      BY <1>6, <2>1, <2>5 DEF Balanced
    <3>2. j \in 1 .. Len(s) /\ j \in i + 1 .. Len(u) /\ Replies(u[j], c)
      BY <1>2, <2>1, <3>1
    <3> QED
      BY <2>2, <2>5, <3>1, <3>2
  <2> QED
    BY <2>3, <2>4, <2>5
<1> QED
  BY <1>5, <1>6, <1>7 DEF Balanced, u

LEMMA BalancedAnswer ==
  ASSUME NEW s \in Seq(Message), Balanced(s, {}), NEW m \in Message, m.kind = "assistant",
         \A i \in 1 .. Len(s) : s[i].calls \cap m.calls = {}
  PROVE  Balanced(Append(s, m), m.calls)
<1> DEFINE u == Append(s, m)
<1>1. /\ u \in Seq(Message) /\ Len(s) \in Nat /\ Len(u) = Len(s) + 1
      /\ \A i \in 1 .. Len(s) : u[i] = s[i]
      /\ u[Len(s) + 1] = m
  OBVIOUS
<1>2. "assistant" \notin ResultKinds
  BY DEF ResultKinds, RefusalKinds
<1> HIDE DEF u
<1>3. ResultsFollowCalls(u)
  <2> SUFFICES ASSUME NEW j \in 1 .. Len(u), u[j].kind \in ResultKinds
               PROVE  \E i \in 1 .. j - 1 : u[i].kind = "assistant" /\ u[j].calls \subseteq u[i].calls
    BY DEF ResultsFollowCalls
  <2>1. j \in 1 .. Len(s) /\ u[j] = s[j]
    BY <1>1, <1>2
  <2>2. PICK i \in 1 .. j - 1 : s[i].kind = "assistant" /\ s[j].calls \subseteq s[i].calls
    BY <2>1 DEF Balanced, ResultsFollowCalls
  <2>3. i \in 1 .. Len(s)
    BY <1>1, <2>1
  <2> QED
    BY <1>1, <2>1, <2>2, <2>3
<1>5. CutApart(u)
  <2> SUFFICES ASSUME NEW i \in 1 .. Len(u), NEW j \in 1 .. Len(u),
                      u[i].kind = "cut", u[j].kind = "assistant"
               PROVE  u[i].calls \cap u[j].calls = {}
    BY DEF CutApart
  <2>1. i \in 1 .. Len(s) /\ u[i] = s[i]
    BY <1>1
  <2>2. CASE j \in 1 .. Len(s)
    BY <1>1, <2>1, <2>2 DEF Balanced, CutApart
  <2>3. CASE j = Len(s) + 1
    BY <1>1, <2>1, <2>3
  <2> QED
    BY <1>1, <2>2, <2>3
<1>4. ASSUME NEW i \in 1 .. Len(u), u[i].kind = "assistant", NEW c \in u[i].calls
      PROVE  IF c \in m.calls THEN \A j \in 1 .. Len(u) : ~Replies(u[j], c)
             ELSE \E j \in i + 1 .. Len(u) :
                    Replies(u[j], c) /\ \A k \in 1 .. Len(u) : Replies(u[k], c) => k = j
  <2>1. \A k \in 1 .. Len(u) : Replies(u[k], c) => k \in 1 .. Len(s) /\ Replies(s[k], c)
    BY <1>1, <1>2 DEF Replies
  <2>2. CASE c \in m.calls
    BY <2>1, <2>2 DEF Replies
  <2>3. CASE c \notin m.calls
    <3>1. i \in 1 .. Len(s) /\ u[i] = s[i]
      BY <1>1, <1>4, <2>3
    <3>2. PICK j \in i + 1 .. Len(s) :
            Replies(s[j], c) /\ \A k \in 1 .. Len(s) : Replies(s[k], c) => k = j
      BY <1>4, <3>1 DEF Balanced
    <3>3. j \in 1 .. Len(s) /\ j \in i + 1 .. Len(u) /\ Replies(u[j], c)
      BY <1>1, <3>1, <3>2
    <3> QED
      BY <2>1, <2>3, <3>2, <3>3
  <2> QED
    BY <2>2, <2>3
<1> QED
  BY <1>3, <1>4, <1>5 DEF Balanced, u

LEMMA StripAt ==
  ASSUME NEW s \in Seq(Message), NEW keep
  PROVE  /\ Len(StripThinking(s, keep)) = Len(s)
         /\ \A i \in 1 .. Len(s) : /\ StripThinking(s, keep)[i].kind = s[i].kind
                                   /\ StripThinking(s, keep)[i].calls = s[i].calls
<1>1. Len(StripThinking(s, keep)) = Len(s)
  BY StripType
<1>2. ASSUME NEW i \in 1 .. Len(s)
      PROVE  /\ StripThinking(s, keep)[i].kind = s[i].kind
             /\ StripThinking(s, keep)[i].calls = s[i].calls
  <2>1. s[i] \in Message
    OBVIOUS
  <2>2. StripThinking(s, keep)[i] = IF s[i].by = keep THEN s[i] ELSE [s[i] EXCEPT !.by = "none"]
    BY DEF StripThinking
  <2>3. [s[i] EXCEPT !.by = "none"].kind = s[i].kind /\ [s[i] EXCEPT !.by = "none"].calls = s[i].calls
    BY <2>1 DEF Message
  <2> QED
    BY <2>2, <2>3
<1> QED
  BY <1>1, <1>2

\* What counts of a message is its kind and its calls.
LEMMA BalancedAlike ==
  ASSUME NEW s, NEW u, NEW open, Balanced(s, open), Len(u) = Len(s), Len(s) \in Nat,
         \A i \in 1 .. Len(s) : u[i].kind = s[i].kind /\ u[i].calls = s[i].calls
  PROVE  Balanced(u, open)
<1>1. ResultsFollowCalls(u)
  <2> SUFFICES ASSUME NEW j \in 1 .. Len(s), s[j].kind \in ResultKinds
               PROVE  \E i \in 1 .. j - 1 : u[i].kind = "assistant" /\ u[j].calls \subseteq u[i].calls
    BY DEF ResultsFollowCalls
  <2>1. PICK i \in 1 .. j - 1 : s[i].kind = "assistant" /\ s[j].calls \subseteq s[i].calls
    BY DEF Balanced, ResultsFollowCalls
  <2>2. i \in 1 .. Len(s)
    OBVIOUS
  <2> QED
    BY <2>1, <2>2
<1>2. ASSUME NEW i \in 1 .. Len(s), s[i].kind = "assistant", NEW c \in s[i].calls
      PROVE  IF c \in open THEN \A j \in 1 .. Len(s) : ~Replies(u[j], c)
             ELSE \E j \in i + 1 .. Len(s) :
                    Replies(u[j], c) /\ \A k \in 1 .. Len(s) : Replies(u[k], c) => k = j
  <2>1. \A k \in 1 .. Len(s) : Replies(u[k], c) <=> Replies(s[k], c)
    BY DEF Replies
  <2>2. CASE c \in open
    BY <1>2, <2>1, <2>2 DEF Balanced
  <2>3. CASE c \notin open
    <3>1. PICK j \in i + 1 .. Len(s) :
            Replies(s[j], c) /\ \A k \in 1 .. Len(s) : Replies(s[k], c) => k = j
      BY <1>2, <2>3 DEF Balanced
    <3>2. j \in 1 .. Len(s)
      BY <3>1
    <3> QED
      BY <2>1, <2>3, <3>1, <3>2
  <2> QED
    BY <2>2, <2>3
<1>3. ASSUME NEW i \in 1 .. Len(u), u[i].kind = "assistant", NEW c \in u[i].calls
      PROVE  IF c \in open THEN \A j \in 1 .. Len(u) : ~Replies(u[j], c)
             ELSE \E j \in i + 1 .. Len(u) :
                    Replies(u[j], c) /\ \A k \in 1 .. Len(u) : Replies(u[k], c) => k = j
  <2>1. i \in 1 .. Len(s) /\ s[i].kind = "assistant" /\ c \in s[i].calls
    BY <1>3
  <2> QED
    BY <1>2, <2>1
<1>4. CutApart(u)
  BY DEF Balanced, CutApart
<1> QED
  BY <1>1, <1>3, <1>4 DEF Balanced

-----------------------------------------------------------------------------
(* The pieces that steps append.                                           *)

LEMMA TextAt ==
  ASSUME NEW n \in Nat
  PROVE  /\ Text(n) \in Seq(Message)
         /\ \A i \in 1 .. Len(Text(n)) : Text(n)[i].kind = "text" /\ Text(n)[i].calls = {}
BY TextType DEF Text, Plain

LEMMA KindsApart ==
  /\ {"prompt", "text", "nudge", "summary", "assistant", "cut"} \cap ResultKinds = {}
  /\ "denied" \in ResultKinds /\ "interrupted" \in ResultKinds /\ "result" \in ResultKinds
BY DEF ResultKinds, RefusalKinds

\* Texts are loose and close nothing.
LEMMA TextCloses ==
  ASSUME NEW n \in Nat
  PROVE  Closing(Text(n), {}) /\ Loose(Text(n))
BY TextAt, KindsApart DEF Closing, Loose

LEMMA ClosingLoose ==
  ASSUME NEW t, Closing(t, {})
  PROVE  Loose(t)
BY DEF Closing, Loose

LEMMA ResultsClose ==
  ASSUME NEW kind \in ResultKinds, NEW calls \in SUBSET Call
  PROVE  Closing(Results(kind, calls), calls)
<1>1. CASE calls = {}
  BY <1>1 DEF Results, Closing
<1>2. CASE calls # {}
  <2> DEFINE m == [kind |-> kind, calls |-> calls, by |-> "none"]
  <2>1. m \in Message /\ m.kind = kind /\ m.calls = calls
    BY DEF Message
  <2>2. Results(kind, calls) = <<m>>
    BY <1>2 DEF Results
  <2> HIDE DEF m
  <2>3. <<m>> \in Seq(Message) /\ Len(<<m>>) = 1 /\ <<m>>[1] = m
    BY <2>1
  <2>4. kind \notin {"assistant", "cut"}
    BY KindsApart
  <2>5. Closing(<<m>>, calls)
    BY <1>2, <2>1, <2>3, <2>4 DEF Closing
  <2> QED
    BY <2>2, <2>5
<1> QED
  BY <1>1, <1>2

\* Results, then texts.
LEMMA ClosingConcat ==
  ASSUME NEW s, NEW calls, Closing(s, calls), NEW t, Closing(t, {})
  PROVE  Closing(s \o t, calls)
<1> DEFINE u == s \o t
<1>1. s \in Seq(Message) /\ t \in Seq(Message)
  BY DEF Closing
<1>2. /\ u \in Seq(Message)
      /\ \A i \in 1 .. Len(s) : i \in 1 .. Len(u) /\ u[i] = s[i]
      /\ \A i \in 1 .. Len(u) : i \notin 1 .. Len(s) =>
           u[i].kind \notin {"assistant", "cut"} \cup ResultKinds /\ u[i].calls = {}
  BY <1>1, ConcatAt DEF Closing
<1> HIDE DEF u
<1>3. \A i \in 1 .. Len(u) : u[i].kind \in ResultKinds => i \in 1 .. Len(s) /\ u[i] = s[i]
  BY <1>2
<1>4. \A i \in 1 .. Len(u) : /\ u[i].kind \notin {"assistant", "cut"}
                             /\ u[i].calls \subseteq calls
                             /\ u[i].kind \in ResultKinds => u[i].calls = calls /\ calls # {}
  <2> SUFFICES ASSUME NEW i \in 1 .. Len(u)
               PROVE  /\ u[i].kind \notin {"assistant", "cut"}
                      /\ u[i].calls \subseteq calls
                      /\ u[i].kind \in ResultKinds => u[i].calls = calls /\ calls # {}
    OBVIOUS
  <2>1. CASE i \in 1 .. Len(s)
    BY <1>2, <2>1 DEF Closing
  <2>2. CASE i \notin 1 .. Len(s)
    BY <1>2, <2>2
  <2> QED
    BY <2>1, <2>2
<1>5. \A i, j \in 1 .. Len(u) :
        u[i].kind \in ResultKinds /\ u[j].kind \in ResultKinds => i = j
  BY <1>3 DEF Closing
<1>6. calls # {} => \E i \in 1 .. Len(u) : u[i].kind \in ResultKinds
  BY <1>2 DEF Closing
<1> QED
  BY <1>2, <1>4, <1>5, <1>6 DEF Closing, u

\* The calls of the messages of s \o t are those of the messages of s and t.
LEMMA NewCalls ==
  ASSUME NEW s \in Seq(Message), NEW t \in Seq(Message), NEW old, NEW new,
         \A i \in 1 .. Len(s) : s[i].calls \subseteq old,
         \A i \in 1 .. Len(t) : t[i].calls \subseteq new
  PROVE  \A i \in 1 .. Len(s \o t) : (s \o t)[i].calls \subseteq old \cup new
<1> SUFFICES ASSUME NEW i \in 1 .. Len(s \o t)
             PROVE  (s \o t)[i].calls \subseteq old \cup new
  OBVIOUS
<1>1. CASE i \in 1 .. Len(s)
  BY <1>1, ConcatAt
<1>2. CASE i \notin 1 .. Len(s)
  BY <1>2, ConcatAt
<1> QED
  BY <1>1, <1>2

-----------------------------------------------------------------------------
(* Saves.                                                                  *)

\* The rows of a save are the messages from prevMsgCount on.
LEMMA RowsAt ==
  ASSUME NEW list \in Seq(Message), NEW n \in Nat, NEW rows, rows = SubSeq(list, n + 1, Len(list))
  PROVE  /\ rows \in Seq(Message)
         /\ \A i \in 1 .. Len(rows) : n + i \in n + 1 .. Len(list) /\ rows[i] = list[n + i]
         /\ \A i \in n + 1 .. Len(list) : i - n \in 1 .. Len(rows) /\ rows[i - n] = list[i]
<1>1. rows \in Seq(Message) /\ Len(list) \in Nat
  OBVIOUS
<1>2. Len(rows) = IF n + 1 <= Len(list) THEN Len(list) - n ELSE 0
  OBVIOUS
<1>3. \A i \in 1 .. Len(rows) : rows[i] = list[n + i]
  <2> SUFFICES ASSUME NEW i \in 1 .. Len(rows) PROVE rows[i] = list[n + i]
    OBVIOUS
  <2>1. n + 1 <= Len(list) /\ i \in 1 .. Len(list) - n
    BY <1>1, <1>2
  <2>2. rows[i] = list[n + 1 + i - 1]
    BY <1>1, <2>1
  <2> QED
    BY <2>2
<1>4. \A i \in 1 .. Len(rows) : n + i \in n + 1 .. Len(list)
  BY <1>1, <1>2
<1>5. \A i \in n + 1 .. Len(list) : i - n \in 1 .. Len(rows) /\ n + (i - n) = i
  BY <1>1, <1>2
<1> QED
  BY <1>1, <1>3, <1>4, <1>5

\* In the rows to be saved results follow their calls.
Saveable(list) ==
  \A j \in prev + 1 .. Len(list) : list[j].kind \in ResultKinds =>
    \E i \in prev + 1 .. j - 1 : list[i].kind = "assistant" /\ list[j].calls \subseteq list[i].calls

LEMMA RowsFollow ==
  ASSUME NEW list \in Seq(Message), Lists, Saveable(list)
  PROVE  ResultsFollowCalls(SubSeq(list, prev + 1, Len(list)))
<1> DEFINE rows == SubSeq(list, prev + 1, Len(list))
<1>1. /\ rows \in Seq(Message) /\ prev \in Nat
      /\ \A i \in 1 .. Len(rows) : prev + i \in prev + 1 .. Len(list) /\ rows[i] = list[prev + i]
  BY RowsAt DEF Lists
<1> HIDE DEF rows
<1>2. ASSUME NEW j \in 1 .. Len(rows), rows[j].kind \in ResultKinds
      PROVE  \E i \in 1 .. j - 1 : rows[i].kind = "assistant" /\ rows[j].calls \subseteq rows[i].calls
  <2>1. prev + j \in prev + 1 .. Len(list) /\ rows[j] = list[prev + j]
    BY <1>1
  <2>2. PICK k \in prev + 1 .. (prev + j) - 1 :
               list[k].kind = "assistant" /\ rows[j].calls \subseteq list[k].calls
    BY <1>2, <2>1 DEF Saveable
  <2>3. k - prev \in 1 .. j - 1 /\ k - prev \in 1 .. Len(rows) /\ prev + (k - prev) = k
    BY <1>1, <2>2
  <2>4. rows[k - prev] = list[k]
    BY <1>1, <2>3
  <2> QED
    BY <2>2, <2>3, <2>4
<1> QED
  BY <1>2 DEF ResultsFollowCalls, rows

LEMMA FollowConcat ==
  ASSUME NEW s \in Seq(Message), NEW t \in Seq(Message), ResultsFollowCalls(s), ResultsFollowCalls(t)
  PROVE  ResultsFollowCalls(s \o t)
<1> DEFINE u == s \o t
<1> SUFFICES ASSUME NEW j \in 1 .. Len(u), u[j].kind \in ResultKinds
             PROVE  \E i \in 1 .. j - 1 : u[i].kind = "assistant" /\ u[j].calls \subseteq u[i].calls
  BY DEF ResultsFollowCalls
<1>1. Len(s) \in Nat
  OBVIOUS
<1>2. CASE j \in 1 .. Len(s)
  <2>1. u[j] = s[j]
    BY <1>2, ConcatAt
  <2>2. PICK i \in 1 .. j - 1 : s[i].kind = "assistant" /\ s[j].calls \subseteq s[i].calls
    BY <1>2, <2>1 DEF ResultsFollowCalls
  <2>3. i \in 1 .. Len(s) /\ u[i] = s[i]
    BY <1>1, <1>2, <2>2, ConcatAt
  <2> QED
    BY <2>1, <2>2, <2>3
<1>3. CASE j \notin 1 .. Len(s)
  <2>1. j - Len(s) \in 1 .. Len(t) /\ u[j] = t[j - Len(s)]
    BY <1>3, ConcatAt
  <2>2. PICK i \in 1 .. j - Len(s) - 1 :
          t[i].kind = "assistant" /\ u[j].calls \subseteq t[i].calls
    BY <2>1 DEF ResultsFollowCalls
  <2>3. i \in 1 .. Len(t)
    BY <1>1, <2>1, <2>2
  <2>4. u[Len(s) + i] = t[i] /\ Len(s) + i \in 1 .. j - 1
    BY <1>1, <2>1, <2>2, <2>3, ConcatAt
  <2> QED
    BY <2>2, <2>4
<1> QED
  BY <1>2, <1>3

\* A save cut short is one of fewer rows, the results of the last one cut.
LEMMA CutsFollow ==
  ASSUME NEW rows \in Seq(Message), ResultsFollowCalls(rows), NEW part \in Cuts(rows)
  PROVE  part \in Seq(Message) /\ ResultsFollowCalls(part)
<1>1. PICK k \in 1 .. Len(rows) :
        part \in {SubSeq(rows, 1, k - 1) \o Results(rows[k].kind, calls) :
                    calls \in IF rows[k].kind \in ResultKinds
                              THEN SUBSET rows[k].calls \ {rows[k].calls} ELSE {{}}}
  BY DEF Cuts
<1>2. PICK calls \in SUBSET rows[k].calls :
        /\ part = SubSeq(rows, 1, k - 1) \o Results(rows[k].kind, calls)
        /\ rows[k].kind \in ResultKinds \/ calls = {}
  BY <1>1
<1> DEFINE s == SubSeq(rows, 1, k - 1)
           t == Results(rows[k].kind, calls)
<1>3. s \in Seq(Message) /\ Len(s) = k - 1 /\ \A i \in 1 .. k - 1 : s[i] = rows[i]
  OBVIOUS
<1>4. part \in Seq(Message)
  BY CutsType
<1>5. ResultsFollowCalls(s)
  <2> SUFFICES ASSUME NEW j \in 1 .. k - 1, rows[j].kind \in ResultKinds
               PROVE  \E i \in 1 .. j - 1 : s[i].kind = "assistant" /\ s[j].calls \subseteq s[i].calls
    BY <1>3 DEF ResultsFollowCalls
  <2>1. PICK i \in 1 .. j - 1 : rows[i].kind = "assistant" /\ rows[j].calls \subseteq rows[i].calls
    BY DEF ResultsFollowCalls
  <2>2. i \in 1 .. k - 1
    OBVIOUS
  <2> QED
    BY <1>3, <2>1, <2>2
<1>6. CASE calls = {}
  <2>1. part = s
    BY <1>2, <1>3, <1>6 DEF Results
  <2> QED
    BY <1>4, <1>5, <2>1
<1>7. CASE calls # {} /\ rows[k].kind \in ResultKinds
  <2> DEFINE m == [kind |-> rows[k].kind, calls |-> calls, by |-> "none"]
  <2>1. PICK i \in 1 .. k - 1 : rows[i].kind = "assistant" /\ rows[k].calls \subseteq rows[i].calls
    BY <1>7 DEF ResultsFollowCalls
  <2>2. part = s \o <<m>> /\ m.calls = calls
    BY <1>2, <1>7 DEF Results
  <2>3. rows[k] \in Message
    OBVIOUS
  <2>4. rows[k].calls \subseteq Call
    BY <2>3 DEF Message
  <2>5. m \in Message
    BY <1>7, <2>4 DEF Message
  <2> HIDE DEF s, m
  <2>6. Len(part) = k /\ part[k] = m /\ \A j \in 1 .. k - 1 : part[j] = s[j]
    BY <1>3, <2>2, <2>5
  <2>7. ResultsFollowCalls(part)
    <3> SUFFICES ASSUME NEW j \in 1 .. k, part[j].kind \in ResultKinds
                 PROVE  \E h \in 1 .. j - 1 :
                          part[h].kind = "assistant" /\ part[j].calls \subseteq part[h].calls
      BY <2>6 DEF ResultsFollowCalls
    <3>1. CASE j = k
      <4>1. i \in 1 .. j - 1 /\ i \in 1 .. k - 1 /\ part[i] = s[i] /\ s[i] = rows[i]
        BY <1>3, <2>1, <2>6, <3>1
      <4>2. part[j].calls = calls /\ calls \subseteq rows[k].calls
        BY <2>2, <2>6, <3>1
      <4> QED
        BY <2>1, <4>1, <4>2
    <3>2. CASE j # k
      <4>1. j \in 1 .. k - 1 /\ j \in 1 .. Len(s) /\ part[j] = s[j]
        BY <1>3, <2>6, <3>2
      <4>2. PICK h \in 1 .. j - 1 : s[h].kind = "assistant" /\ s[j].calls \subseteq s[h].calls
        BY <1>5, <4>1 DEF ResultsFollowCalls
      <4>3. h \in 1 .. k - 1
        BY <4>1
      <4> QED
        BY <2>6, <4>1, <4>2, <4>3
    <3> QED
      BY <3>1, <3>2
  <2> QED
    BY <1>4, <2>7
<1> QED
  BY <1>2, <1>6, <1>7

\* A save, whole, failed or cut short, keeps what is stored replayable ...
LEMMA PersistReplayable ==
  ASSUME NEW list \in Seq(Message), Lists, Persist(list), StoreReplayable, Saveable(list)
  PROVE  StoreReplayable'
<1> DEFINE rows == SubSeq(list, prev + 1, Len(list))
<1>1. rows \in Seq(Message) /\ ResultsFollowCalls(rows) /\ store \in Seq(Message)
  BY RowsFollow DEF Lists
<1> HIDE DEF rows
<1>2. \/ store' = store \o rows
      \/ store' = store
      \/ \E part \in Cuts(rows) : store' = store \o part
  BY DEF Persist, rows
<1>3. CASE store' = store \o rows
  BY <1>1, <1>3, FollowConcat DEF StoreReplayable
<1>4. CASE store' = store
  BY <1>4 DEF StoreReplayable
<1>5. ASSUME NEW part \in Cuts(rows), store' = store \o part PROVE StoreReplayable'
  BY <1>1, <1>5, CutsFollow, FollowConcat DEF StoreReplayable
<1> QED
  BY <1>2, <1>3, <1>4, <1>5

\* ... and, if nothing was lost, has taken every row.
LEMMA PersistSaves ==
  ASSUME NEW list \in Seq(Message), Lists, Persist(list), ~lost'
  PROVE  /\ ~lost
         /\ \A i \in prev + 1 .. Len(list) :
              \E j \in 1 .. Len(store') : store'[j] = list[i]
         /\ \A j \in 1 .. Len(store) : j \in 1 .. Len(store') /\ store'[j] = store[j]
<1> DEFINE rows == SubSeq(list, prev + 1, Len(list))
<1>1. /\ rows \in Seq(Message) /\ store \in Seq(Message)
      /\ \A i \in prev + 1 .. Len(list) : i - prev \in 1 .. Len(rows) /\ rows[i - prev] = list[i]
  BY RowsAt DEF Lists
<1>2. store' = store \o rows /\ lost' = lost
  BY DEF Persist
<1> HIDE DEF rows
<1>3. /\ \A j \in 1 .. Len(store) : j \in 1 .. Len(store') /\ store'[j] = store[j]
      /\ \A j \in 1 .. Len(rows) : /\ Len(store) + j \in 1 .. Len(store')
                                   /\ store'[Len(store) + j] = rows[j]
  BY <1>1, <1>2, ConcatAt
<1>4. ASSUME NEW i \in prev + 1 .. Len(list)
      PROVE  \E j \in 1 .. Len(store') : store'[j] = list[i]
  <2>1. i - prev \in 1 .. Len(rows) /\ rows[i - prev] = list[i]
    BY <1>1
  <2> QED
    BY <1>3, <2>1
<1> QED
  BY <1>2, <1>3, <1>4

\* A save that takes the rest of the conversation leaves all of it stored.
LEMMA PersistAll ==
  ASSUME Lists, Saved, prev <= Len(msgs), pc \notin {"top", "backoff", "done"},
         NEW t \in Seq(Message), msgs' = msgs \o t, Persist(msgs'), ~lost',
         NEW i \in 1 .. Len(msgs'), msgs'[i].kind \in Records
  PROVE  \E j \in 1 .. Len(store') :
           store'[j].kind = msgs'[i].kind /\ store'[j].calls = msgs'[i].calls
<1>1. /\ msgs \in Seq(Message) /\ msgs' \in Seq(Message) /\ prev \in Nat
      /\ Len(msgs) \in Nat /\ Len(msgs') \in Nat
      /\ \A h \in 1 .. Len(msgs) : msgs'[h] = msgs[h]
  BY ConcatAt DEF Lists
<1>2. /\ ~lost
      /\ \A h \in prev + 1 .. Len(msgs') : \E j \in 1 .. Len(store') : store'[j] = msgs'[h]
      /\ \A j \in 1 .. Len(store) : j \in 1 .. Len(store') /\ store'[j] = store[j]
  BY <1>1, PersistSaves
<1>3. CASE i <= prev
  <2>1. i \in 1 .. Len(msgs) /\ msgs'[i] = msgs[i]
    BY <1>1, <1>3
  <2>2. PICK j \in 1 .. Len(store) : store[j].kind = msgs[i].kind /\ store[j].calls = msgs[i].calls
    BY <1>2, <1>3, <2>1 DEF Saved, InStore
  <2> QED
    BY <1>2, <2>1, <2>2
<1>4. CASE ~(i <= prev)
  <2>1. i \in prev + 1 .. Len(msgs')
    BY <1>1, <1>4
  <2> QED
    BY <1>2, <2>1
<1> QED
  BY <1>3, <1>4

-----------------------------------------------------------------------------
(* Steps.                                                                  *)

\* The calls in the conversation are of requests up to the n-th.
UpTo(s, n) == \A i \in 1 .. Len(s) : \A c \in s[i].calls : c.req <= n

LEMMA KeptDone ==
  ASSUME pc' = "done", UpTo(msgs', reqs'), StoreReplayable'
  PROVE  Kept'
BY DEF Kept, Balance, Unsaved, Saved, UpTo, Talking, Gates

LEMMA KeptTop ==
  ASSUME pc' \in {"top", "backoff"}, UpTo(msgs', reqs'), StoreReplayable', Balanced(msgs', {}),
         ~lost' => \A i \in 1 .. Len(msgs') : msgs'[i].kind \in Records =>
           \E j \in 1 .. Len(store') :
             store'[j].kind = msgs'[i].kind /\ store'[j].calls = msgs'[i].calls
  PROVE  Kept'
BY DEF Kept, Balance, Unsaved, Saved, InStore, UpTo, Talking, Gates

LEMMA UpToConcat ==
  ASSUME NEW s \in Seq(Message), NEW t \in Seq(Message), NEW n, UpTo(s, n),
         \A i \in 1 .. Len(t) : \A c \in t[i].calls : c.req <= n
  PROVE  UpTo(s \o t, n)
<1> SUFFICES ASSUME NEW i \in 1 .. Len(s \o t), NEW c \in (s \o t)[i].calls
             PROVE  c.req <= n
  BY DEF UpTo
<1>1. CASE i \in 1 .. Len(s)
  BY <1>1, ConcatAt DEF UpTo
<1>2. CASE i \notin 1 .. Len(s)
  <2>1. i - Len(s) \in 1 .. Len(t) /\ (s \o t)[i] = t[i - Len(s)]
    BY <1>2, ConcatAt
  <2> QED
    BY <2>1
<1> QED
  BY <1>1, <1>2

Saving == {"stream", "permission", "plan", "hook", "exec"}

\* The end of an answer: the rest of the conversation is saved.
LEMMA KeptSave ==
  ASSUME Types, Numbered, SliceInRange, Kept, pc \in Saving,
         NEW t \in Seq(Message), \A i \in 1 .. Len(t) : t[i].calls \subseteq blocks,
         msgs' = msgs \o t, Persist(msgs'), Saveable(msgs'), UNCHANGED reqs,
         pc' = "done" \/ (pc' = "top" /\ Balanced(msgs', {}))
  PROVE  Kept'
<1>1. Lists /\ reqs \in Nat /\ msgs \in Seq(Message)
  BY DEF Types, Control, Lists
<1>2. msgs' \in Seq(Message)
  BY <1>1
<1>3. StoreReplayable'
  BY <1>1, <1>2, PersistReplayable DEF Kept
<1>4. UpTo(msgs', reqs')
  <2>1. UpTo(msgs, reqs)
    BY DEF Kept, Balance, UpTo
  <2>2. \A i \in 1 .. Len(t) : \A c \in t[i].calls : c.req <= reqs
    BY <1>1 DEF Numbered
  <2> QED
    BY <1>1, <2>1, <2>2, UpToConcat
<1>5. ~lost' => \A i \in 1 .. Len(msgs') : msgs'[i].kind \in Records =>
        \E j \in 1 .. Len(store') :
          store'[j].kind = msgs'[i].kind /\ store'[j].calls = msgs'[i].calls
  BY <1>1, PersistAll DEF Kept, SliceInRange, Saving
<1> QED
  BY <1>3, <1>4, <1>5, KeptDone, KeptTop

\* Steps that leave the conversation and the store alone.
Still ==
  /\ UNCHANGED <<msgs, store, prev, lost>>
  /\ \/ UNCHANGED <<pc, reqs>> /\ (pc = "stream" \/ UNCHANGED blocks)
     \/ UNCHANGED reqs /\ pc \in {"request", "stream", "backoff"} /\ pc' \in {"top", "backoff"}
     \/ UNCHANGED reqs /\ pc' = "done"
     \/ pc = "compact" /\ pc' = "request" /\ UNCHANGED <<reqs, blocks>>
     \/ pc = "request" /\ pc' = "stream" /\ reqs' = reqs + 1

LEMMA KeptStill ==
  ASSUME Types, Kept, Still
  PROVE  Kept'
<1>1. /\ UNCHANGED <<msgs, store, prev, lost>> /\ reqs \in Nat /\ prev \in Nat /\ Len(msgs) \in Nat
      /\ msgs \in Seq(Message)
  BY DEF Types, Control, Lists, Still
<1>2. StoreReplayable'
  BY <1>1 DEF Kept, StoreReplayable
<1>3. CASE UNCHANGED <<pc, reqs>> /\ (pc = "stream" \/ UNCHANGED blocks)
  <2>1. Balance'
    BY <1>1, <1>3 DEF Kept, Balance, Talking, Gates
  <2>2. Unsaved'
    BY <1>1, <1>3 DEF Kept, Unsaved, Gates
  <2>3. Saved'
    BY <1>1, <1>3 DEF Kept, Saved, InStore
  <2> QED
    BY <1>2, <2>1, <2>2, <2>3 DEF Kept
<1>4. CASE UNCHANGED reqs /\ pc \in {"request", "stream", "backoff"} /\ pc' \in {"top", "backoff"}
  <2>1. Balanced(msgs', {}) /\ UpTo(msgs', reqs')
    BY <1>1, <1>4 DEF Kept, Balance, Talking, UpTo
  <2>2. ASSUME ~lost, NEW i \in 1 .. Len(msgs), msgs[i].kind \in Records
        PROVE  InStore(msgs[i])
    <3>1. CASE i <= prev \/ pc = "backoff"
      BY <1>4, <2>2, <3>1 DEF Kept, Saved
    <3>2. CASE ~(i <= prev) /\ pc # "backoff"
      <4>1. i \in prev + 1 .. Len(msgs)
        BY <1>1, <3>2
      <4> QED
        BY <1>4, <2>2, <3>2, <4>1 DEF Kept, Unsaved
    <3> QED
      BY <3>1, <3>2
  <2> QED
    BY <1>1, <1>2, <1>4, <2>1, <2>2, KeptTop DEF InStore
<1>5. CASE UNCHANGED reqs /\ pc' = "done"
  BY <1>1, <1>2, <1>5, KeptDone DEF Kept, Balance, UpTo
<1>6. CASE pc = "compact" /\ pc' = "request" /\ UNCHANGED <<reqs, blocks>>
  <2>1. Balance'
    BY <1>1, <1>6 DEF Kept, Balance, Talking, Gates
  <2>2. Unsaved'
    BY <1>1, <1>6 DEF Kept, Unsaved, Gates
  <2>3. Saved'
    BY <1>1, <1>6 DEF Kept, Saved, InStore
  <2> QED
    BY <1>2, <2>1, <2>2, <2>3 DEF Kept
<1>7. CASE pc = "request" /\ pc' = "stream" /\ reqs' = reqs + 1
  <2>1. Balance'
    <3>1. ASSUME NEW i \in 1 .. Len(msgs), NEW c \in msgs[i].calls
          PROVE  c.req <= reqs' /\ c.req # reqs'
      <4>1. c \in Call
        <5>1. msgs[i] \in Message
          BY <1>1
        <5> QED
          BY <5>1 DEF Message
      <4>2. c.req \in Nat /\ c.req <= reqs
        BY <4>1 DEF Call, Kept, Balance
      <4> QED
        BY <1>1, <1>7, <4>2
    <3> QED
      BY <1>1, <1>7, <3>1 DEF Kept, Balance, Talking, Gates
  <2>2. Unsaved'
    BY <1>1, <1>7 DEF Kept, Unsaved, Gates
  <2>3. Saved'
    BY <1>1, <1>7 DEF Kept, Saved, InStore
  <2> QED
    BY <1>2, <2>1, <2>2, <2>3 DEF Kept
<1> QED
  BY <1>3, <1>4, <1>5, <1>6, <1>7 DEF Still

\* The mail, the turn limit and the refresh add texts.
LEMMA KeptTopTurn ==
  ASSUME Types, Kept, TopLimit \/ TopTurn
  PROVE  Kept'
<1>1. /\ msgs \in Seq(Message) /\ reqs \in Nat /\ prev \in Nat
      /\ mail \in [{"task", "inbox"} -> Nat]
  BY DEF Types, Control, Lists, Rest
<1>2. /\ UNCHANGED <<store, lost, reqs>> /\ pc = "top"
      /\ UpTo(msgs, reqs) /\ Balanced(msgs, {}) /\ StoreReplayable /\ StoreReplayable'
  BY DEF TopLimit, TopTurn, Kept, Balance, Talking, UpTo, StoreReplayable
<1> DEFINE n == Cardinality({c \in DOMAIN mail : mail[c] > 0})
           m == IF (st.turn + 1) % refreshEvery = 0 THEN 1 ELSE 0
<1>3. n \in Nat
  <2>1. IsFiniteSet({"task"} \cup {"inbox"})
    BY FS_Singleton, FS_AddElement
  <2>2. DOMAIN mail = {"task"} \cup {"inbox"}
    BY <1>1
  <2> QED
    BY <2>1, <2>2, FS_Subset, FS_CardinalityType
<1>4. AfterMail = msgs \o Text(n)
  BY DEF AfterMail
<1>5. TopTurn => msgs' = AfterMail \o Text(m)
  BY DEF TopTurn
<1>6. m \in Nat
  OBVIOUS
<1> HIDE DEF n, m
<1>10. ASSUME NEW k \in Nat, NEW s \in Seq(Message), Balanced(s, {})
       PROVE  Balanced(s \o Text(k), {})
  <2>1. \A i \in 1 .. Len(Text(k)) : Text(k)[i].kind # "cut"
    BY TextAt
  <2> QED
    BY <1>10, <2>1, TextCloses, BalancedLoose
<1>7. /\ AfterMail \in Seq(Message) /\ Len(AfterMail) \in Nat
      /\ UpTo(AfterMail, reqs) /\ Balanced(AfterMail, {})
  BY <1>1, <1>2, <1>3, <1>4, <1>10, TextAt, UpToConcat, ConcatAt
<1>8. CASE TopLimit
  <2>1. pc' = "done" /\ msgs' = AfterMail
    BY <1>8 DEF TopLimit, End
  <2> QED
    BY <1>2, <1>7, <2>1, KeptDone
<1>9. CASE TopTurn
  <2>1. /\ msgs' = AfterMail \o Text(m) /\ prev' = Len(AfterMail)
        /\ pc' \in {"compact", "request"}
    BY <1>5, <1>9 DEF TopTurn
  <2>2. UpTo(msgs', reqs') /\ Balanced(msgs', {})
    BY <1>2, <1>6, <1>7, <1>10, <2>1, TextAt, UpToConcat
  <2>3. Balance'
    BY <2>1, <2>2 DEF Balance, UpTo, Gates
  <2>4. \A i \in 1 .. Len(msgs') :
          /\ i \in 1 .. Len(AfterMail) => msgs'[i] = AfterMail[i]
          /\ i \notin 1 .. Len(AfterMail) => msgs'[i].kind = "text"
    BY <1>6, <1>7, <2>1, TextAt, ConcatAt
  <2>5. \A i \in 1 .. Len(AfterMail) :
          /\ i \in 1 .. Len(msgs) => AfterMail[i] = msgs[i]
          /\ i \notin 1 .. Len(msgs) => AfterMail[i].kind = "text"
    <3>1. Text(n) \in Seq(Message) /\ \A i \in 1 .. Len(Text(n)) : Text(n)[i].kind = "text"
      BY <1>3, TextAt
    <3> QED
      BY <1>1, <1>4, <3>1, ConcatAt
  <2>6. "text" \notin Records
    BY DEF Records, ResultKinds, RefusalKinds
  <2>7. Unsaved'
    <3>1. \A j \in prev' + 1 .. Len(msgs') : j \in 1 .. Len(msgs') /\ j \notin 1 .. Len(AfterMail)
      BY <1>7, <2>1
    <3> QED
      BY <2>1, <2>4, <2>6, <3>1 DEF Unsaved, Gates
  <2>8. Saved'
    <3> SUFFICES ASSUME ~lost, NEW i \in 1 .. Len(msgs'), msgs'[i].kind \in Records, i <= prev'
                 PROVE  \E j \in 1 .. Len(store) :
                          store[j].kind = msgs'[i].kind /\ store[j].calls = msgs'[i].calls
      BY <1>2, <2>1 DEF Saved, InStore
    <3>1. i \in 1 .. Len(AfterMail)
      BY <1>7, <2>1
    <3>2. i \in 1 .. Len(msgs) /\ msgs'[i] = msgs[i]
      BY <2>4, <2>5, <2>6, <3>1
    <3> QED
      BY <1>2, <3>2 DEF Kept, Saved, InStore
  <2> QED
    BY <1>2, <2>3, <2>7, <2>8 DEF Kept
<1> QED
  BY <1>8, <1>9

\* A compaction leaves texts only.
LEMMA SummaryAt ==
  /\ Summary \in Seq(Message) /\ Balanced(Summary, {})
  /\ \A n : UpTo(Summary, n)
  /\ \A i \in 1 .. Len(Summary) : Summary[i].kind \notin Records
<1>1. Plain("summary") \in Message
  BY PlainType DEF Kinds
<1>2. /\ Summary \in Seq(Message)
      /\ \A i \in 1 .. Len(Summary) : Summary[i].kind = "summary" /\ Summary[i].calls = {}
  BY <1>1 DEF Summary, Plain
<1>3. "summary" \notin Records /\ "summary" \notin ResultKinds
  BY DEF Records, ResultKinds, RefusalKinds
<1> HIDE DEF Summary
<1>4. Balanced(Summary, {})
  BY <1>2, <1>3 DEF Balanced, ResultsFollowCalls, CutApart
<1> QED
  BY <1>2, <1>3, <1>4 DEF UpTo

LEMMA KeptCompact ==
  ASSUME Types, Kept, AutoCompact \/ PromptTooLong
  PROVE  Kept'
<1>1. UNCHANGED <<store, lost, reqs>> /\ StoreReplayable'
  BY DEF AutoCompact, PromptTooLong, ErrorFrame, Kept, StoreReplayable
<1>2. CASE AutoCompact /\ msgs' = Summary /\ prev' = 0
  <2>1. pc' = "request" /\ Balanced(msgs', {}) /\ UpTo(msgs', reqs')
    BY <1>2, SummaryAt DEF AutoCompact
  <2>2. Balance'
    BY <2>1 DEF Balance, UpTo, Gates
  <2>3. Unsaved'
    <3>1. \A j \in prev' + 1 .. Len(msgs') : j \in 1 .. Len(msgs')
      BY <1>2
    <3> QED
      BY <1>2, <2>1, <3>1, SummaryAt DEF Unsaved, Gates
  <2>4. Saved'
    BY <1>2, <2>1, SummaryAt DEF Saved
  <2> QED
    BY <1>1, <2>2, <2>3, <2>4 DEF Kept
<1>3. CASE AutoCompact /\ UNCHANGED <<msgs, prev>>
  <2>1. Still
    BY <1>3 DEF AutoCompact, Still
  <2> QED
    BY <2>1, KeptStill
<1>4. CASE PromptTooLong /\ msgs' = Summary /\ pc' = "top"
  BY <1>1, <1>4, SummaryAt, KeptTop
<1>5. CASE PromptTooLong /\ UNCHANGED msgs /\ pc' = "done"
  <2>1. Still
    BY <1>5 DEF PromptTooLong, ErrorFrame, Still
  <2> QED
    BY <2>1, KeptStill
<1> QED
  BY <1>2, <1>3, <1>4, <1>5 DEF AutoCompact, PromptTooLong, End

LEMMA KeptRateLimited ==
  ASSUME Types, Kept, RateLimited
  PROVE  Kept'
<1>1. /\ msgs \in Seq(Message) /\ prev \in Nat /\ Len(msgs) \in Nat
      /\ UNCHANGED <<store, lost, reqs>> /\ StoreReplayable' /\ pc \in {"request", "stream"}
  BY DEF Types, Lists, RateLimited, Asking, ErrorFrame, Kept, StoreReplayable
<1>2. CASE UNCHANGED msgs /\ pc' = "done"
  <2>1. Still
    BY <1>2 DEF RateLimited, ErrorFrame, Still
  <2> QED
    BY <2>1, KeptStill
<1>3. CASE msgs' = StripThinking(msgs, "backup") /\ pc' = "top"
  <2>1. Len(msgs') = Len(msgs)
        /\ \A i \in 1 .. Len(msgs) : msgs'[i].kind = msgs[i].kind /\ msgs'[i].calls = msgs[i].calls
    BY <1>1, <1>3, StripAt
  <2>2. Balanced(msgs, {}) /\ UpTo(msgs, reqs)
    BY <1>1 DEF Kept, Balance, Talking, UpTo
  <2>3. Balanced(msgs', {})
    BY <1>1, <2>1, <2>2, BalancedAlike
  <2>4. UpTo(msgs', reqs')
    BY <1>1, <2>1, <2>2 DEF UpTo
  <2>5. ASSUME ~lost, NEW i \in 1 .. Len(msgs), msgs[i].kind \in Records
        PROVE  InStore(msgs[i])
    <3>1. i <= prev
      <4> SUFFICES ASSUME ~(i <= prev) PROVE FALSE
        OBVIOUS
      <4>1. i \in prev + 1 .. Len(msgs)
        BY <1>1
      <4> QED
        BY <1>1, <2>5, <4>1 DEF Kept, Unsaved
    <3> QED
      BY <1>1, <2>5, <3>1 DEF Kept, Saved
  <2>6. ~lost' => \A i \in 1 .. Len(msgs') : msgs'[i].kind \in Records =>
          \E j \in 1 .. Len(store') :
            store'[j].kind = msgs'[i].kind /\ store'[j].calls = msgs'[i].calls
    BY <1>1, <2>1, <2>5 DEF InStore
  <2> QED
    BY <1>1, <1>3, <2>3, <2>4, <2>6, KeptTop
<1> QED
  BY <1>2, <1>3 DEF RateLimited, End

LEMMA ResultsAt ==
  ASSUME NEW kind \in ResultKinds, NEW calls \in SUBSET Call
  PROVE  /\ Results(kind, calls) \in Seq(Message)
         /\ \A i \in 1 .. Len(Results(kind, calls)) :
              Results(kind, calls)[i].kind = kind /\ Results(kind, calls)[i].calls = calls
BY ResultsType DEF Results

\* The calls of an answer that was interrupted are answered without it: a
\* cancelled context keeps those answers out of the store.
LEMMA KeptInterrupted ==
  ASSUME Types, Numbered, Kept, StreamEmpty \/ Interrupted
  PROVE  Kept'
<1>1. /\ msgs \in Seq(Message) /\ store \in Seq(Message) /\ blocks \in SUBSET Call
      /\ "interrupted" \in ResultKinds
  BY KindsApart DEF Types, Lists, CallTypes
<1>2. UNCHANGED reqs /\ pc' = "done" /\ UpTo(msgs, reqs)
  BY DEF StreamEmpty, Interrupted, AnswerFrame, End, Kept, Balance, UpTo
<1>3. CASE UNCHANGED <<msgs, store>>
  BY <1>2, <1>3, KeptDone DEF Kept, StoreReplayable
<1>4. CASE ctx /\ Persist(msgs') /\ msgs' = msgs \o Results("interrupted", blocks)
  <2>1. store' = store
    <3>1. store' = store \/ store' = store \o << >>
      BY <1>4 DEF Persist
    <3> QED
      BY <1>1, <3>1
  <2>2. \A i \in 1 .. Len(Results("interrupted", blocks)) :
          \A c \in Results("interrupted", blocks)[i].calls : c.req <= reqs
    <3>1. reqs \in Nat
      BY DEF Types, Control
    <3>2. \A c \in blocks : c.req <= reqs
      BY <3>1 DEF Numbered
    <3> QED
      BY <1>1, <3>2, ResultsAt
  <2>3. UpTo(msgs', reqs')
    BY <1>1, <1>2, <1>4, <2>2, ResultsAt, UpToConcat
  <2> QED
    BY <1>2, <2>1, <2>3, KeptDone DEF Kept, StoreReplayable
<1> QED
  BY <1>3, <1>4 DEF StreamEmpty, Interrupted

\* Nothing that a save takes needs an answer.
LEMMA SaveableLoose ==
  ASSUME Types, Kept, pc = "stream", NEW t, Loose(t), msgs' = msgs \o t
  PROVE  Saveable(msgs')
<1>1. t \in Seq(Message) /\ msgs \in Seq(Message) /\ prev \in Nat /\ Len(msgs) \in Nat
  BY DEF Types, Lists, Loose
<1>2. ASSUME NEW j \in prev + 1 .. Len(msgs') PROVE msgs'[j].kind \notin ResultKinds
  <2>0. j \in 1 .. Len(msgs')
    BY <1>1
  <2>1. CASE j \in 1 .. Len(msgs)
    <3>1. j \in prev + 1 .. Len(msgs) /\ msgs'[j] = msgs[j]
      BY <1>1, <2>1, ConcatAt
    <3> QED
      BY <3>1 DEF Kept, Unsaved, Records
  <2>2. CASE j \notin 1 .. Len(msgs)
    <3>1. j - Len(msgs) \in 1 .. Len(t) /\ msgs'[j] = t[j - Len(msgs)]
      BY <1>1, <2>0, <2>2, ConcatAt
    <3> QED
      BY <3>1 DEF Loose
  <2> QED
    BY <2>1, <2>2
<1> QED
  BY <1>2 DEF Saveable

LEMMA AnswerAt ==
  ASSUME Types, NEW kind \in {"assistant", "cut"}
  PROVE  \E m \in Message : m.kind = kind /\ m.calls = blocks /\ Answer(kind) = msgs \o <<m>>
<1> DEFINE m == [kind |-> kind, calls |-> blocks, by |-> model]
<1>1. msgs \in Seq(Message) /\ blocks \in SUBSET Call /\ model \in {"primary", "backup"}
  BY DEF Types, Lists, CallTypes, Rest
<1>2. m \in Message
  BY <1>1 DEF Message
<1>3. Append(msgs, m) = msgs \o <<m>>
  BY <1>1, <1>2
<1> QED
  BY <1>2, <1>3 DEF Answer

\* An answer cut at the limit, and one without calls.
LEMMA KeptLoose ==
  ASSUME Types, Numbered, SliceInRange, Kept, Truncated \/ Completed
  PROVE  Kept'
<1>1. msgs \in Seq(Message) /\ pc = "stream" /\ Balanced(msgs, {})
  BY DEF Types, Lists, Truncated, Completed, Kept, Balance, Talking
<1>2. UNCHANGED reqs /\ Persist(msgs') /\ pc' \in {"top", "done"}
  BY DEF Truncated, Completed, AnswerFrame, End
<1>3. \E t : /\ Loose(t) /\ msgs' = msgs \o t
             /\ \A i \in 1 .. Len(t) : t[i].calls \subseteq blocks
  <2>1. CASE Truncated
    <3>1. PICK m \in Message : m.kind = "cut" /\ m.calls = blocks /\ Answer("cut") = msgs \o <<m>>
      BY AnswerAt
    <3> DEFINE n == Plain("nudge")
    <3>2. n \in Message /\ n.kind = "nudge" /\ n.calls = {}
      BY PlainType DEF Kinds, Plain
    <3>3. msgs' = Append(Answer("cut"), n)
      BY <2>1 DEF Truncated
    <3> HIDE DEF n
    <3>4. msgs' = msgs \o <<m, n>>
      BY <1>1, <3>1, <3>2, <3>3
    <3>5. Loose(<<m, n>>)
      BY <3>1, <3>2, KindsApart DEF Loose
    <3>6. \A i \in 1 .. Len(<<m, n>>) : <<m, n>>[i].calls \subseteq blocks
      BY <3>1, <3>2
    <3> QED
      BY <3>4, <3>5, <3>6
  <2>2. CASE Completed
    <3>1. PICK m \in Message :
            m.kind = "assistant" /\ m.calls = blocks /\ Answer("assistant") = msgs \o <<m>>
      BY AnswerAt
    <3>2. blocks = {}
      BY <2>2 DEF Completed
    <3>3. Loose(<<m>>)
      BY <3>1, <3>2, KindsApart DEF Loose
    <3>4. CASE msgs' = Answer("assistant")
      <4>1. \A i \in 1 .. Len(<<m>>) : <<m>>[i].calls \subseteq blocks
        BY <3>1
      <4> QED
        BY <3>1, <3>3, <3>4, <4>1
    <3>5. CASE msgs' = Answer("assistant") \o Text(1)
      <4> DEFINE n == Plain("text")
      <4>1. n \in Message /\ n.kind = "text" /\ n.calls = {}
        BY PlainType DEF Kinds, Plain
      <4>2. Text(1) = <<n>>
        BY DEF Text
      <4> HIDE DEF n
      <4>3. msgs' = msgs \o <<m, n>>
        <5>1. msgs \o <<m>> \in Seq(Message)
          BY <1>1, <3>1
        <5>2. msgs' = Append(msgs \o <<m>>, n)
          <6>1. \A s \in Seq(Message) : s \o <<n>> = Append(s, n)
            BY <4>1
          <6>2. msgs' = (msgs \o <<m>>) \o <<n>>
            BY <3>1, <3>5, <4>2
          <6> QED
            BY <5>1, <6>1, <6>2
        <5> QED
          BY <1>1, <3>1, <4>1, <5>2
      <4>4. Loose(<<m, n>>)
        BY <3>1, <3>2, <4>1, KindsApart DEF Loose
      <4>5. \A i \in 1 .. Len(<<m, n>>) : <<m, n>>[i].calls \subseteq blocks
        BY <3>1, <4>1
      <4> QED
        BY <4>3, <4>4, <4>5
    <3> QED
      BY <2>2, <3>4, <3>5 DEF Completed
  <2> QED
    BY <2>1, <2>2
<1>4. PICK t : /\ Loose(t) /\ msgs' = msgs \o t
               /\ \A i \in 1 .. Len(t) : t[i].calls \subseteq blocks
  BY <1>3
<1>5. t \in Seq(Message)
  BY <1>4 DEF Loose
<1>6. Saveable(msgs')
  BY <1>1, <1>4, SaveableLoose
<1>7. Balanced(msgs', {})
  <2>1. \A j \in 1 .. Len(msgs) : msgs[j].calls \cap blocks = {}
    BY <1>1 DEF Kept, Balance, Numbered
  <2>2. \A i \in 1 .. Len(t) : \A j \in 1 .. Len(msgs) :
          t[i].kind = "cut" => t[i].calls \cap msgs[j].calls = {}
    BY <1>4, <2>1
  <2> QED
    BY <1>1, <1>4, <2>2, BalancedLoose
<1> QED
  BY <1>1, <1>2, <1>4, <1>5, <1>6, <1>7, KeptSave DEF Saving

\* The answer whose calls go through the gates.
LEMMA KeptAnswered ==
  ASSUME Types, Numbered, SliceInRange, Kept, Answered
  PROVE  Kept'
<1>1. /\ msgs \in Seq(Message) /\ prev \in Nat /\ Len(msgs) \in Nat /\ reqs \in Nat
      /\ blocks \in SUBSET Call /\ prev <= Len(msgs)
  BY DEF Types, Control, Lists, CallTypes, SliceInRange, Answered
<1>2. /\ pc = "stream" /\ pc' = "permission" /\ UNCHANGED <<store, lost, prev, reqs, blocks>>
      /\ Balanced(msgs, {}) /\ UpTo(msgs, reqs) /\ StoreReplayable'
      /\ \A i \in 1 .. Len(msgs) : \A c \in msgs[i].calls : c.req # reqs
  BY DEF Answered, AnswerFrame, Kept, Balance, Talking, UpTo, StoreReplayable
<1>3. PICK m \in Message : m.kind = "assistant" /\ m.calls = blocks /\ msgs' = msgs \o <<m>>
  BY AnswerAt DEF Answered
<1>4. /\ Len(msgs') = Len(msgs) + 1 /\ msgs'[Len(msgs) + 1] = m
      /\ \A i \in 1 .. Len(msgs) : msgs'[i] = msgs[i]
  BY <1>1, <1>3
<1>5. Balanced(msgs', blocks)
  <2>1. \A i \in 1 .. Len(msgs) : msgs[i].calls \cap m.calls = {}
    BY <1>2, <1>3 DEF Numbered
  <2>2. Balanced(Append(msgs, m), m.calls)
    BY <1>1, <1>2, <1>3, <2>1, BalancedAnswer
  <2>3. msgs' = Append(msgs, m)
    BY <1>1, <1>3
  <2> QED
    BY <1>3, <2>2, <2>3
<1>6. UpTo(msgs', reqs)
  <2> SUFFICES ASSUME NEW i \in 1 .. Len(msgs'), NEW c \in msgs'[i].calls PROVE c.req <= reqs
    BY DEF UpTo
  <2>1. CASE i \in 1 .. Len(msgs)
    BY <1>2, <1>4, <2>1 DEF UpTo
  <2>2. CASE i = Len(msgs) + 1
    BY <1>1, <1>3, <1>4, <2>2 DEF Numbered
  <2> QED
    BY <1>1, <1>4, <2>1, <2>2
<1>7. Balance'
  BY <1>2, <1>5, <1>6 DEF Balance, UpTo, Talking
<1>8. Unsaved'
  <2> DEFINE a == Len(msgs) + 1
  <2>1. a \in prev' + 1 .. Len(msgs') /\ msgs'[a].kind = "assistant" /\ blocks' \subseteq msgs'[a].calls
    BY <1>1, <1>2, <1>3, <1>4
  <2>2. \A j \in prev' + 1 .. Len(msgs') : msgs'[j].kind \notin ResultKinds
    <3> SUFFICES ASSUME NEW j \in prev + 1 .. Len(msgs') PROVE msgs'[j].kind \notin ResultKinds
      BY <1>2
    <3>1. CASE j = Len(msgs) + 1
      BY <1>3, <1>4, <3>1, KindsApart
    <3>2. CASE j # Len(msgs) + 1
      <4>1. j \in prev + 1 .. Len(msgs) /\ j \in 1 .. Len(msgs)
        BY <1>1, <1>4, <3>2
      <4> QED
        BY <1>2, <1>4, <4>1 DEF Kept, Unsaved, Records
    <3> QED
      BY <3>1, <3>2
  <2> HIDE DEF a
  <2> QED
    BY <1>2, <2>1, <2>2 DEF Unsaved
<1>9. Saved'
  <2> SUFFICES ASSUME ~lost, NEW i \in 1 .. Len(msgs'), msgs'[i].kind \in Records, i <= prev
               PROVE  \E j \in 1 .. Len(store) :
                        store[j].kind = msgs'[i].kind /\ store[j].calls = msgs'[i].calls
    BY <1>2 DEF Saved, InStore
  <2>1. i \in 1 .. Len(msgs) /\ msgs'[i] = msgs[i]
    BY <1>1, <1>4
  <2> QED
    BY <1>2, <2>1 DEF Kept, Saved, InStore
<1> QED
  BY <1>2, <1>7, <1>8, <1>9 DEF Kept

-----------------------------------------------------------------------------
(* The gates and the execution close calls.                                *)

\* Results of the calls that a gate takes out, or of all of them; the loop
\* goes to the next gate, or saves and starts over or ends.
Closes(calls) ==
  /\ pc \in Gates /\ calls \subseteq blocks /\ blocks' = blocks \ calls
  /\ UNCHANGED <<prev, reqs>>
  /\ \E t : Closing(t, calls) /\ msgs' = msgs \o t
  /\ \/ pc' \in Gates /\ UNCHANGED <<store, lost>>
     \/ pc' \in {"top", "done"} /\ blocks' = {} /\ Persist(msgs')

LEMMA GateCloses ==
  ASSUME Types, Permission \/ PlanGate \/ HookGate \/ Collect
  PROVE  \E calls : Closes(calls)
<1>1. msgs \in Seq(Message) /\ blocks \in SUBSET Call
  BY DEF Types, Lists, CallTypes
<1>2. ASSUME NEW kind \in ResultKinds, NEW calls \in SUBSET blocks
      PROVE  Closing(Results(kind, calls), calls)
  BY <1>1, ResultsClose
<1>3. \A n \in {0, 1} : Closing(Text(n), {}) /\ Text(n) \in Seq(Message)
  BY TextCloses DEF Closing
<1>4. CASE Permission
  <2>1. PICK no \in SUBSET Asked :
          /\ blocks' = blocks \ no
          /\ msgs' = msgs \o Results("denied", no)
          /\ IF blocks' = {}
             THEN Persist(msgs') /\ End("turn_complete")
             ELSE pc' = "plan" /\ UNCHANGED <<store, ctx, lost, events>>
    BY <1>4 DEF Permission
  <2>2. no \in SUBSET blocks /\ Closing(Results("denied", no), no)
    BY <1>2, KindsApart DEF Asked
  <2>3. \/ pc' \in Gates /\ UNCHANGED <<store, lost>>
        \/ pc' \in {"top", "done"} /\ blocks' = {} /\ Persist(msgs')
    BY <2>1 DEF End, Gates
  <2> QED
    BY <1>4, <2>1, <2>2, <2>3 DEF Closes, Permission, GateFrame, Gates
<1>5. CASE PlanGate
  <2>1. PlanBlocked \in SUBSET blocks /\ Closing(Results("denied", PlanBlocked), PlanBlocked)
    BY <1>2, KindsApart DEF PlanBlocked
  <2>2. \/ pc' \in Gates /\ UNCHANGED <<store, lost>>
        \/ pc' \in {"top", "done"} /\ blocks' = {} /\ Persist(msgs')
    BY <1>5 DEF PlanGate, Gates
  <2> QED
    BY <1>5, <2>1, <2>2 DEF Closes, PlanGate, GateFrame, Gates
<1>6. CASE HookGate
  <2>1. PICK no \in SUBSET blocks, n \in {0, 1}, m \in {0, 1} :
          /\ blocks' = blocks \ no
          /\ msgs' = msgs \o Results("denied", no) \o Text(n) \o Text(m)
          /\ IF blocks \ no = {}
             THEN Persist(msgs') /\ pc' = "top" /\ UNCHANGED events
             ELSE pc' = "exec" /\ UNCHANGED <<store, ctx, lost, events>>
    BY <1>6 DEF HookGate, Reminders
  <2> DEFINE r == Results("denied", no)
             t == r \o Text(n) \o Text(m)
  <2>2. Closing(r, no)
    BY <1>2, KindsApart
  <2>3. Closing(r \o Text(n), no)
    BY <1>3, <2>2, ClosingConcat
  <2>4. Closing(t, no)
    BY <1>3, <2>3, ClosingConcat
  <2>5. msgs' = msgs \o t
    <3>1. r \in Seq(Message) /\ r \o Text(n) \in Seq(Message)
      BY <2>2, <2>3 DEF Closing
    <3>2. msgs \o r \o Text(n) = msgs \o (r \o Text(n))
      BY <1>1, <1>3, <3>1, ConcatAssoc
    <3>3. msgs \o (r \o Text(n)) \o Text(m) = msgs \o (r \o Text(n) \o Text(m))
      BY <1>1, <1>3, <3>1, ConcatAssoc
    <3> QED
      BY <2>1, <3>2, <3>3
  <2>6. \/ pc' \in Gates /\ UNCHANGED <<store, lost>>
        \/ pc' \in {"top", "done"} /\ blocks' = {} /\ Persist(msgs')
    BY <2>1 DEF Gates
  <2> HIDE DEF t
  <2> QED
    BY <1>6, <2>1, <2>4, <2>5, <2>6 DEF Closes, HookGate, GateFrame, Gates
<1>7. CASE Collect
  <2>1. PICK n \in {0, 1} : msgs' = msgs \o Results("result", blocks) \o Text(n)
    BY <1>7 DEF Collect
  <2> DEFINE r == Results("result", blocks)
  <2>2. Closing(r, blocks)
    BY <1>2, KindsApart
  <2>3. Closing(r \o Text(n), blocks)
    BY <1>3, <2>2, ClosingConcat
  <2>4. msgs' = msgs \o (r \o Text(n))
    <3>1. r \in Seq(Message)
      BY <2>2 DEF Closing
    <3> QED
      BY <1>1, <1>3, <2>1, <3>1, ConcatAssoc
  <2> HIDE DEF r
  <2>5. blocks' = blocks \ blocks
    BY <1>7 DEF Collect
  <2> QED
    BY <1>7, <2>3, <2>4, <2>5 DEF Closes, Collect, Gates
<1> QED
  BY <1>4, <1>5, <1>6, <1>7

LEMMA KeptCloses ==
  ASSUME Types, Numbered, SliceInRange, Kept, NEW calls, Closes(calls)
  PROVE  Kept'
<1>1. /\ msgs \in Seq(Message) /\ prev \in Nat /\ Len(msgs) \in Nat /\ reqs \in Nat
      /\ blocks \in SUBSET Call /\ prev <= Len(msgs)
  BY DEF Types, Control, Lists, CallTypes, SliceInRange, Closes, Gates
<1>2. PICK t : Closing(t, calls) /\ msgs' = msgs \o t
  BY DEF Closes
<1>3. PICK a \in prev + 1 .. Len(msgs) :
        /\ msgs[a].kind = "assistant" /\ blocks \subseteq msgs[a].calls
        /\ \A j \in prev + 1 .. Len(msgs) : msgs[j].kind \in ResultKinds =>
             a < j /\ msgs[j].calls \subseteq msgs[a].calls
  BY DEF Kept, Unsaved, Closes
<1>4. /\ t \in Seq(Message) /\ a \in 1 .. Len(msgs) /\ calls \subseteq blocks
      /\ \A i \in 1 .. Len(t) : t[i].calls \subseteq calls
  BY <1>1, <1>2 DEF Closing, Closes
<1>5. /\ Len(msgs') \in Nat /\ Len(msgs') >= Len(msgs)
      /\ \A i \in 1 .. Len(msgs) : msgs'[i] = msgs[i]
      /\ \A i \in 1 .. Len(msgs') : i \notin 1 .. Len(msgs) =>
           i > Len(msgs) /\ msgs'[i].calls \subseteq calls
  <2>1. \A i \in 1 .. Len(msgs') : i \notin 1 .. Len(msgs) =>
          i > Len(msgs) /\ i - Len(msgs) \in 1 .. Len(t) /\ msgs'[i] = t[i - Len(msgs)]
    BY <1>1, <1>2, <1>4, ConcatAt
  <2>2. /\ Len(msgs') = Len(msgs) + Len(t) /\ Len(t) \in Nat
        /\ \A i \in 1 .. Len(msgs) : msgs'[i] = msgs[i]
    BY <1>1, <1>2, <1>4, ConcatAt
  <2> QED
    BY <1>1, <1>4, <2>1, <2>2
<1>6. Balanced(msgs', blocks \ calls)
  <2>1. Balanced(msgs, blocks)
    BY DEF Kept, Balance, Closes
  <2> QED
    BY <1>1, <1>2, <1>3, <1>4, <2>1, BalancedClosing
<1>7. /\ a \in prev + 1 .. Len(msgs') /\ msgs'[a].kind = "assistant"
      /\ blocks \subseteq msgs'[a].calls
      /\ \A j \in prev + 1 .. Len(msgs') : msgs'[j].kind \in ResultKinds =>
           a < j /\ msgs'[j].calls \subseteq msgs'[a].calls
  <2>1. a \in prev + 1 .. Len(msgs') /\ msgs'[a] = msgs[a]
    BY <1>1, <1>3, <1>4, <1>5
  <2>2. ASSUME NEW j \in prev + 1 .. Len(msgs'), msgs'[j].kind \in ResultKinds
        PROVE  a < j /\ msgs'[j].calls \subseteq msgs'[a].calls
    <3>1. j \in 1 .. Len(msgs')
      BY <1>1
    <3>2. CASE j \in 1 .. Len(msgs)
      <4>1. j \in prev + 1 .. Len(msgs) /\ msgs'[j] = msgs[j]
        BY <1>5, <2>2, <3>2
      <4> QED
        BY <1>3, <2>1, <2>2, <4>1
    <3>3. CASE j \notin 1 .. Len(msgs)
      <4>1. j > Len(msgs) /\ msgs'[j].calls \subseteq calls
        BY <1>5, <3>1, <3>3
      <4>2. a < j
        BY <1>1, <1>4, <3>1, <4>1
      <4> QED
        BY <1>3, <1>4, <2>1, <4>1, <4>2
    <3> QED
      BY <3>2, <3>3
  <2> QED
    BY <1>3, <2>1, <2>2
<1>8. CASE pc' \in Gates /\ UNCHANGED <<store, lost>>
  <2>1. UpTo(msgs', reqs')
    <3>1. UpTo(msgs, reqs) /\ UNCHANGED reqs
      BY DEF Kept, Balance, UpTo, Closes
    <3>2. \A i \in 1 .. Len(t) : \A c \in t[i].calls : c.req <= reqs
      BY <1>1, <1>4 DEF Numbered
    <3> QED
      BY <1>1, <1>2, <1>4, <3>1, <3>2, UpToConcat
  <2>2. Balance'
    BY <1>6, <1>8, <2>1 DEF Balance, UpTo, Talking, Gates, Closes
  <2>3. Unsaved'
    <3>1. blocks' \subseteq blocks /\ prev' = prev
      BY DEF Closes
    <3>2. pc' \notin {"compact", "request", "stream"}
      BY <1>8 DEF Gates
    <3> QED
      BY <1>7, <3>1, <3>2 DEF Unsaved
  <2>4. Saved'
    <3> SUFFICES ASSUME ~lost, NEW i \in 1 .. Len(msgs'), msgs'[i].kind \in Records, i <= prev
                 PROVE  \E j \in 1 .. Len(store) :
                          store[j].kind = msgs'[i].kind /\ store[j].calls = msgs'[i].calls
      BY <1>8 DEF Saved, InStore, Gates, Closes
    <3>1. i \in 1 .. Len(msgs) /\ msgs'[i] = msgs[i]
      BY <1>1, <1>5
    <3> QED
      BY <3>1 DEF Kept, Saved, InStore, Closes, Gates
  <2>5. StoreReplayable'
    BY <1>8 DEF Kept, StoreReplayable
  <2> QED
    BY <2>2, <2>3, <2>4, <2>5 DEF Kept
<1>9. CASE pc' \in {"top", "done"} /\ blocks' = {} /\ Persist(msgs')
  <2>1. Saveable(msgs')
    <3> SUFFICES ASSUME NEW j \in prev + 1 .. Len(msgs'), msgs'[j].kind \in ResultKinds
                 PROVE  \E i \in prev + 1 .. j - 1 :
                          msgs'[i].kind = "assistant" /\ msgs'[j].calls \subseteq msgs'[i].calls
      BY DEF Saveable
    <3>1. a < j /\ a \in prev + 1 .. j - 1
      BY <1>1, <1>7
    <3> QED
      BY <1>7, <3>1
  <2>2. pc \in Saving /\ UNCHANGED reqs
    BY DEF Closes, Gates, Saving
  <2>3. Balanced(msgs', {})
    BY <1>6, <1>9 DEF Closes
  <2>4. \A i \in 1 .. Len(t) : t[i].calls \subseteq blocks
    BY <1>4
  <2> QED
    BY <1>2, <1>4, <1>9, <2>1, <2>2, <2>3, <2>4, KeptSave
<1> QED
  BY <1>8, <1>9 DEF Closes

-----------------------------------------------------------------------------
(* The two theorems.                                                       *)

LEMMA KeptInit == Init => Kept
<1> SUFFICES ASSUME Init PROVE Kept
  OBVIOUS
<1>1. /\ Len(msgs) = 1 /\ msgs[1].kind = "prompt" /\ msgs[1].calls = {}
      /\ pc = "top" /\ store = << >>
  BY DEF Init, Plain
<1>2. "prompt" \notin Records /\ "prompt" \notin ResultKinds
  BY DEF Records, ResultKinds, RefusalKinds
<1>3. \A i \in 1 .. Len(msgs) : msgs[i].kind = "prompt" /\ msgs[i].calls = {}
  BY <1>1
<1>4. Balanced(msgs, {})
  BY <1>2, <1>3 DEF Balanced, ResultsFollowCalls, CutApart
<1>5. StoreReplayable
  BY <1>1 DEF StoreReplayable, ResultsFollowCalls
<1> QED
  BY <1>1, <1>2, <1>3, <1>4, <1>5 DEF Kept, Balance, Unsaved, Saved, Gates

LEMMA StillSteps ==
  ASSUME [Next]_vars, ~ListStep
  PROVE  Still
<1>1. CASE UNCHANGED vars
  BY <1>1 DEF vars, Still
<1>2. CASE TopCancelled \/ Execute
  BY <1>2 DEF TopCancelled, Execute, End, Still
<1>3. CASE Request
  BY <1>3 DEF Request, Still
<1>4. CASE ServerError \/ FatalError \/ Backoff
  BY <1>4 DEF ServerError, FatalError, Backoff, Asking, ErrorFrame, End, Still
<1>5. CASE MemoryExtracted \/ Cancel \/ Over
  BY <1>5 DEF MemoryExtracted, Cancel, Over, vars, Still
<1>6. ASSUME NEW t \in cfg.tools, StreamToolUse(t) PROVE Still
  BY <1>6 DEF StreamToolUse, Still
<1>7. ASSUME NEW call \in running, ToolReturns(call) PROVE Still
  BY <1>7 DEF ToolReturns, Still
<1>8. ASSUME NEW c \in DOMAIN mail, MailArrives(c) PROVE Still
  BY <1>8 DEF MailArrives, Still
<1> QED
  BY <1>1, <1>2, <1>3, <1>4, <1>5, <1>6, <1>7, <1>8 DEF Next, LoopStep, ListStep

LEMMA KeptNext == Types /\ Once /\ SliceInRange /\ Kept /\ [Next]_vars => Kept'
<1> SUFFICES ASSUME Types, Numbered, SliceInRange, Kept, [Next]_vars PROVE Kept'
  BY DEF Once
<1>1. CASE ~ListStep
  BY <1>1, StillSteps, KeptStill
<1>2. CASE TopLimit \/ TopTurn
  BY <1>2, KeptTopTurn
<1>3. CASE AutoCompact \/ PromptTooLong
  BY <1>3, KeptCompact
<1>4. CASE RateLimited
  BY <1>4, KeptRateLimited
<1>5. CASE StreamEmpty \/ Interrupted
  BY <1>5, KeptInterrupted
<1>6. CASE Truncated \/ Completed
  BY <1>6, KeptLoose
<1>7. CASE Answered
  BY <1>7, KeptAnswered
<1>8. CASE Permission \/ PlanGate \/ HookGate \/ Collect
  BY <1>8, GateCloses, KeptCloses
<1> QED
  BY <1>1, <1>2, <1>3, <1>4, <1>5, <1>6, <1>7, <1>8 DEF ListStep

LEMMA KeptAlways == Spec => []Kept
<1>1. Types /\ Once /\ SliceInRange /\ Kept /\ [Next]_vars => Kept'
  BY KeptNext
<1>2. Types /\ Once /\ [Next]_vars => Types' /\ Once'
  BY TypesNext, OnceNext
<1> QED
  BY <1>1, <1>2, KeptInit, TypesInit, OnceInit, SlicesInRange, PTL DEF Spec

LEMMA BalanceAnswers == Balance => RequestAnswered
<1> SUFFICES ASSUME Balance, pc = "request"
             PROVE  RequestAnswered
  BY DEF RequestAnswered
<1>1. Balanced(msgs, {})
  BY DEF Balance, Talking
<1>2. ASSUME NEW i \in 1 .. Len(msgs), msgs[i].kind = "assistant", NEW c \in msgs[i].calls
      PROVE  Cardinality({j \in i + 1 .. Len(msgs) :
                            msgs[j].kind \in ResultKinds /\ c \in msgs[j].calls}) = 1
  <2>1. PICK j \in i + 1 .. Len(msgs) :
          Replies(msgs[j], c) /\ \A k \in 1 .. Len(msgs) : Replies(msgs[k], c) => k = j
    BY <1>1, <1>2 DEF Balanced
  <2>2. \A k \in i + 1 .. Len(msgs) : k \in 1 .. Len(msgs)
    OBVIOUS
  <2>3. {k \in i + 1 .. Len(msgs) : msgs[k].kind \in ResultKinds /\ c \in msgs[k].calls} = {j}
    BY <2>1, <2>2 DEF Replies
  <2> QED
    BY <2>3, FS_Singleton
<1>3. ASSUME NEW i \in 1 .. Len(msgs), NEW j \in 1 .. Len(msgs),
             msgs[i].kind = "cut", msgs[j].kind \in ResultKinds
      PROVE  msgs[i].calls \cap msgs[j].calls = {}
  <2>1. PICK k \in 1 .. j - 1 : msgs[k].kind = "assistant" /\ msgs[j].calls \subseteq msgs[k].calls
    BY <1>1, <1>3 DEF Balanced, ResultsFollowCalls
  <2>2. k \in 1 .. Len(msgs)
    BY <2>1
  <2>3. msgs[i].calls \cap msgs[k].calls = {}
    BY <1>1, <1>3, <2>1, <2>2 DEF Balanced, CutApart
  <2> QED
    BY <2>1, <2>3
<1> QED
  BY <1>1, <1>2, <1>3 DEF RequestAnswered, Balanced

\* Whatever way the calls of an answer went - refused at a gate, blocked by
\* plan mode or a hook, run early or in order, or interrupted - the
\* next request (loop.go 196-204) holds one result for each of them, after
\* the answer, and no result of anything else; those of an answer that was cut
\* and continued are the exception: no request holds a result of them.
THEOREM RequestsAreAnswered == Spec => []RequestAnswered
  BY KeptAlways, BalanceAnswers, PTL DEF Kept

\* The store can be replayed after any cancellation or failed append, and
\* misses no answer and no result while no append failed (loop.go
\* persistNewMessages, session AppendMessages).
THEOREM StoreIsFaithful == Spec => []StoreFaithful
<1>1. Kept => StoreFaithful
  BY DEF Kept, Saved, InStore, StoreFaithful, TurnPersisted, Records
<1> QED
  BY <1>1, KeptAlways, PTL
=============================================================================
