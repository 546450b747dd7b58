-------------------------- MODULE LspManagerProofs --------------------------
(***************************************************************************)
(* Theorems about LspManager, for any callers, files and limits: the state *)
(* has its shape, there is one process at most and no closed channel is    *)
(* sent on, and the server hears of a file after the handshake and its     *)
(* opening.                                                                *)
(*                                                                         *)
(* The argument: whoever starts or stops the server holds its lock         *)
(* (Exclusive), so that the lock is only free when no process is half      *)
(* started or half stopped; and a server that runs is never stopped, so    *)
(* that what one caller found out about it stays true for the others       *)
(* (Documents).                                                            *)
(***************************************************************************)
EXTENDS LspManager, FiniteSetTheorems, TLAPS

\* The points of a call between EnsureServerStarted's lock and unlock ...
Locked == {"start", "initialize", "initializing", "initialized", "failed", "restart", "stopping",
           "exit", "reap", "drain"}

\* ... and those that only a server that runs lets it reach.
Served == {"check", "open", "didOpen", "record", "query", "wait", "didChange"}

-----------------------------------------------------------------------------
(* The inductive invariant.                                                *)

Goals == {"none", "check", "open"}

\* The parts of the state's shape, by the variables that share a frame.
PcShape == pc \in [Callers -> Points]
GoalShape == goal \in [Callers -> Goals]
ReqShape == req \in [Callers -> Nat]
ProcShape ==
  /\ proc \in Nat /\ alive \subseteq 1 .. proc /\ shook \in {"none", "asked", "done"}
  /\ jams \subseteq {"stdin", "stderr"}
ChanShape ==
  /\ inbox \subseteq 1 .. nextID /\ pending \subseteq 1 .. nextID
  /\ reading \in 0 .. nextID /\ sent \subseteq 1 .. nextID /\ closed \subseteq 1 .. nextID
  /\ nextID \in Nat
DocShape == opened \subseteq Files /\ used \subseteq Files /\ didOpen \in [Files -> Nat]
InstShape ==
  /\ lock \in Callers \cup {free}
  /\ state \in {"stopped", "starting", "running", "stopping", "error"}
  /\ restartCount \in Nat /\ restarts \in Nat
CallShape ==
  /\ file \in [Callers -> Files] /\ op \in [Callers -> {"query", "change"}]
  /\ calls \in 0 .. MaxCalls

Shape == PcShape /\ GoalShape /\ ReqShape /\ ProcShape /\ ChanShape /\ DocShape /\ InstShape
         /\ CallShape

\* An id is in one place at most: pending, with the read loop, or done with.
Channels ==
  /\ reading \notin pending /\ reading \notin sent /\ reading \notin closed
  /\ pending \cap sent = {} /\ pending \cap closed = {} /\ sent \cap closed = {}

\* Whoever is about to start or stop the server holds the lock, and nobody
\* takes it from a server that runs.
Exclusive ==
  /\ \A c \in Callers : pc[c] \in Locked => lock = c
  /\ IF lock = free THEN state \in {"stopped", "running", "error"} ELSE state # "running"

\* The process started last is the only one, and there is none when one is
\* about to be started.
Process ==
  /\ alive \subseteq {proc}
  /\ \A c \in Callers : pc[c] \in {"start", "reap", "drain"} => alive = {}
  /\ lock = free /\ state = "stopped" => alive = {}

\* Files are the business of a server that runs, which is one whose handshake
\* is over; what is recorded as open was sent, and what is asked about is open.
Documents ==
  /\ shook = "done" <=> state = "running"
  /\ state # "running" =>
       /\ opened = {} /\ \A f \in Files : didOpen[f] = 0
       /\ \A c \in Callers : pc[c] \notin Served
  /\ used \subseteq opened
  /\ \A f \in opened : didOpen[f] > 0
  /\ \A c \in Callers : pc[c] = "record" => didOpen[file[c]] > 0
  /\ \A c \in Callers : pc[c] \in {"query", "didChange"} => file[c] \in opened

IInv == Shape /\ Channels /\ Exclusive /\ Process /\ Documents

-----------------------------------------------------------------------------
(* Shape.                                                                  *)

LEMMA Targets == \A c \in Callers : /\ Failed(c) \in {"idle", "didSave"}
                                    /\ AfterOpen(c) \in {"query", "didSave"}
  BY DEF Failed, AfterOpen

LEMMA Shaped == Shape => TypeOK
<1>1. GoalShape => goal \in [Callers -> Points]
  BY DEF GoalShape, Goals, Points
<1> QED
  BY <1>1 DEF Shape, TypeOK, PcShape, ReqShape, ProcShape, ChanShape, DocShape, InstShape,
              CallShape

LEMMA Going ==
  ASSUME Shape, NEW c \in Callers, NEW point \in Points, Goto(c, point)
  PROVE  /\ pc' \in [Callers -> Points] /\ pc'[c] = point
         /\ \A d \in Callers : d # c => pc'[d] = pc[d]
  BY DEF Shape, PcShape, Goto

LEMMA Sending ==
  ASSUME Shape, NEW c \in Callers, NEW waiting \in Points, NEW failed \in Points,
         SendRequest(c, waiting, failed)
  PROVE  /\ pc' \in [Callers -> Points] /\ pc'[c] = IF Alive THEN waiting ELSE failed
         /\ \A d \in Callers : d # c => pc'[d] = pc[d]
         /\ req' \in [Callers -> Nat] /\ nextID' \in Nat
         /\ inbox' \subseteq 1 .. nextID' /\ pending' \subseteq 1 .. nextID'
         /\ reading' \in 0 .. nextID' /\ sent' \subseteq 1 .. nextID'
         /\ closed' \subseteq 1 .. nextID'
<1>1. nextID \in Nat /\ nextID' = nextID + 1 /\ 1 .. nextID \subseteq 1 .. nextID'
      /\ nextID' \in 1 .. nextID'
  BY DEF Shape, ChanShape, SendRequest
<1>2. reading' \in 0 .. nextID' /\ sent' \subseteq 1 .. nextID' /\ closed' \subseteq 1 .. nextID'
  BY <1>1 DEF Shape, ChanShape, SendRequest
<1>3. CASE Alive
  <2>1. pc' \in [Callers -> Points] /\ pc'[c] = waiting
        /\ \A d \in Callers : d # c => pc'[d] = pc[d]
    BY <1>3, Going DEF SendRequest
  <2>2. req' \in [Callers -> Nat]
    BY <1>1, <1>3 DEF SendRequest, Shape, ReqShape, ChanShape
  <2>3. inbox' \subseteq 1 .. nextID' /\ pending' \subseteq 1 .. nextID'
    BY <1>1, <1>3 DEF SendRequest, Shape, ReqShape, ChanShape
  <2> QED
    BY <1>1, <1>2, <1>3, <2>1, <2>2, <2>3
<1>4. CASE ~Alive
  <2>1. pc' \in [Callers -> Points] /\ pc'[c] = failed
        /\ \A d \in Callers : d # c => pc'[d] = pc[d]
    BY <1>4, Going DEF SendRequest
  <2>2. req' = req /\ pending' = pending /\ inbox' = inbox
    BY <1>4 DEF SendRequest
  <2>3. req' \in [Callers -> Nat] /\ inbox' \subseteq 1 .. nextID' /\ pending' \subseteq 1 .. nextID'
    BY <1>1, <2>2 DEF Shape, ReqShape, ChanShape
  <2> QED
    BY <1>1, <1>2, <1>4, <2>1, <2>3
<1> QED
  BY <1>3, <1>4

LEMMA ShapeStep == ASSUME Shape, [Next]_vars PROVE Shape'
<1> USE DEF Shape
<1>1. ASSUME NEW c \in Callers, CallerStep(c) PROVE Shape'
  <2> USE DEF procVars, chanVars, docVars, instVars, callVars
  <2>1. CASE Lock(c)
    <3>1. goal[c] \in Points /\ Failed(c) \in Points /\ "start" \in Points /\ "restart" \in Points
      BY Targets DEF GoalShape, Goals, Points
    <3>2. PcShape' /\ lock' \in Callers \cup {free}
      <4>1. CASE IsHealthy
        BY <2>1, <3>1, <4>1, Going DEF Lock, PcShape, InstShape, IsHealthy
      <4>2. CASE state = "error" /\ restartCount >= MaxRestarts
        BY <2>1, <3>1, <4>2, Going, LimitsAssumption DEF Lock, PcShape, InstShape, IsHealthy
      <4>3. CASE state = "error" /\ restartCount < MaxRestarts
        BY <2>1, <3>1, <4>3, Going, LimitsAssumption DEF Lock, PcShape, InstShape, IsHealthy
      <4>4. CASE state \notin {"running", "error"}
        BY <2>1, <3>1, <4>4, Going DEF Lock, PcShape, InstShape, IsHealthy
      <4> QED
        BY <4>1, <4>2, <4>3, <4>4, LimitsAssumption DEF IsHealthy, InstShape
    <3> QED
      BY <2>1, <3>2 DEF Lock, GoalShape, ReqShape, ProcShape, ChanShape, DocShape, InstShape,
                        CallShape
  <2>2. CASE Start(c)
    <3>1. Failed(c) \in Points /\ "initialize" \in Points
      BY Targets DEF Points
    <3>2. PcShape'
      BY <2>2, <3>1, Going DEF Start, PcShape
    <3>3. ProcShape' /\ InstShape' /\ inbox' \subseteq 1 .. nextID'
      <4>1. CASE state' = "error"
        BY <2>2, <4>1 DEF Start, ProcShape, InstShape, ChanShape
      <4>2. CASE state' # "error"
        <5>1. proc' = proc + 1 /\ alive' = alive \cup {proc'} /\ shook' = "none" /\ inbox' = {}
              /\ jams' = {}
          BY <2>2, <4>2 DEF Start
        <5>2. proc' \in Nat /\ 1 .. proc \subseteq 1 .. proc' /\ proc' \in 1 .. proc'
          BY <5>1 DEF ProcShape
        <5>3. InstShape'
          BY <2>2, <4>2 DEF Start, InstShape
        <5> QED
          BY <5>1, <5>2, <5>3 DEF ProcShape
      <4> QED
        BY <4>1, <4>2
    <3> QED
      BY <2>2, <3>2, <3>3 DEF Start, GoalShape, ReqShape, ChanShape, DocShape, CallShape
  <2>3. CASE Initialize(c) \/ Query(c) \/ Shutdown(c)
    <3>1. {"initializing", "failed", "wait", "idle", "stopping", "exit"} \subseteq Points
      BY DEF Points
    <3>2. PcShape' /\ ReqShape' /\ ChanShape'
      <4>1. CASE Query(c) /\ ~IsHealthy
        BY <2>3, <3>1, <4>1, Going DEF Query, PcShape, ReqShape, ChanShape
      <4>2. CASE Query(c) /\ IsHealthy
        BY <2>3, <3>1, <4>2, Sending DEF Query, PcShape, ReqShape, ChanShape
      <4>3. CASE Initialize(c)
        BY <2>3, <3>1, <4>3, Sending DEF Initialize, PcShape, ReqShape, ChanShape
      <4>4. CASE Shutdown(c)
        BY <2>3, <3>1, <4>4, Sending DEF Shutdown, PcShape, ReqShape, ChanShape
      <4> QED
        BY <2>3, <4>1, <4>2, <4>3, <4>4
    <3>3. ProcShape'
      BY <2>3 DEF Query, Initialize, Shutdown, SendRequest, ProcShape
    <3>4. DocShape'
      BY <2>3 DEF Query, Initialize, Shutdown, DocShape, CallShape
    <3>5. GoalShape' /\ InstShape'
      BY <2>3 DEF Query, Initialize, Shutdown, GoalShape, Goals, InstShape
    <3>6. CallShape'
      BY <2>3 DEF Query, Initialize, Shutdown, CallShape
    <3> QED
      BY <3>2, <3>3, <3>4, <3>5, <3>6
  <2>4. CASE Initialized(c)
    <3>1. goal[c] \in Points /\ "failed" \in Points
      BY DEF GoalShape, Goals, Points
    <3>2. PcShape'
      BY <2>4, <3>1, Going DEF Initialized, PcShape
    <3> QED
      BY <2>4, <3>2 DEF Initialized, GoalShape, ReqShape, ProcShape, ChanShape, DocShape,
                        InstShape, CallShape
  <2>5. CASE HandshakeAnswered(c) \/ TimeOut(c) \/ Answered(c) \/ StopAnswered(c) \/ Kill(c)
             \/ Reap(c)
    <3>1. {"initialized", "failed", "exit", "idle", "reap", "drain"} \subseteq Points
      BY DEF Points
    <3>2. PcShape'
      BY <2>5, <3>1, Going DEF HandshakeAnswered, TimeOut, Answered, StopAnswered, Kill, Reap, PcShape
    <3> QED
      BY <2>5, <3>2 DEF HandshakeAnswered, TimeOut, Answered, StopAnswered, Kill, Reap, GoalShape, ReqShape, ProcShape,
                        ChanShape, DocShape, InstShape, CallShape
  <2>6. CASE Drain(c)
    <3>1. Failed(c) \in Points /\ "start" \in Points
      BY Targets DEF Points
    <3>2. PcShape'
      BY <2>6, <3>1, Going DEF Drain, PcShape
    <3> QED
      BY <2>6, <3>2 DEF Drain, GoalShape, ReqShape, ProcShape, ChanShape, DocShape, InstShape,
                        CallShape
  <2>7. CASE Check(c) \/ OpenCheck(c) \/ DidOpen(c) \/ RecordOpen(c) \/ DidChange(c)
             \/ DidSave(c)
    <3>1. Failed(c) \in Points /\ AfterOpen(c) \in Points
          /\ {"query", "ensure", "idle", "didOpen", "record", "didSave"} \subseteq Points
      BY Targets DEF Points
    <3>2. PcShape'
      BY <2>7, <3>1, Going DEF Check, Ensure, OpenCheck, DidOpen, RecordOpen, DidChange, DidSave,
                               PcShape
    <3>3. GoalShape'
      BY <2>7 DEF Check, Ensure, OpenCheck, DidOpen, RecordOpen, DidChange, DidSave, GoalShape,
                  Goals
    <3>4. DocShape'
      BY <2>7 DEF Check, OpenCheck, DidOpen, RecordOpen, DidChange, DidSave, DocShape, CallShape
    <3> QED
      BY <2>7, <3>2, <3>3, <3>4 DEF Check, OpenCheck, DidOpen, RecordOpen, DidChange, DidSave,
         ReqShape, ProcShape, ChanShape, InstShape, CallShape
  <2> QED
    BY <1>1, <2>1, <2>2, <2>3, <2>4, <2>5, <2>6, <2>7 DEF CallerStep
<1>2. ASSUME NEW c \in Callers, NEW f \in Files, NEW kind \in {"query", "change"},
             Call(c, f, kind)
      PROVE  Shape'
  <2> USE DEF procVars, chanVars, docVars, instVars
  <2>1. "ensure" \in Points /\ "didChange" \in Points /\ MaxCalls \in Nat
    BY LimitsAssumption DEF Points
  <2>2. PcShape'
    BY <1>2, <2>1, Going DEF Call, Ensure, PcShape
  <2>3. GoalShape'
    BY <1>2 DEF Call, Ensure, GoalShape, Goals
  <2>4. CallShape'
    BY <1>2, <2>1 DEF Call, CallShape
  <2> QED
    BY <1>2, <2>2, <2>3, <2>4 DEF Call, ReqShape, ProcShape, ChanShape, DocShape, InstShape
<1>3. ASSUME NEW id \in inbox, Receive(id) PROVE Shape'
  BY <1>3 DEF Receive, docVars, instVars, callVars, PcShape, GoalShape, ReqShape, ProcShape,
              ChanShape, DocShape, InstShape, CallShape
<1>4. CASE Deliver
  <2>1. ChanShape'
    BY <1>4 DEF Deliver, procVars, ChanShape
  <2> QED
    BY <1>4, <2>1 DEF Deliver, procVars, docVars, instVars, callVars, PcShape, GoalShape, ReqShape,
                      ProcShape, DocShape, InstShape, CallShape
<1>5. CASE Die
  <2>1. ChanShape' /\ ProcShape'
    BY <1>5 DEF Die, chanVars, ChanShape, ProcShape
  <2> QED
    BY <1>5, <2>1 DEF Die, docVars, instVars, callVars, PcShape, GoalShape, ReqShape, DocShape,
                      InstShape, CallShape
<1>6. CASE UNCHANGED vars
  BY <1>6 DEF vars, procVars, chanVars, docVars, instVars, callVars, PcShape, GoalShape, ReqShape,
              ProcShape, ChanShape, DocShape, InstShape, CallShape
<1>7. ASSUME NEW pipe \in {"stdin", "stderr"}, Jam(pipe) \/ Unjam(pipe) PROVE Shape'
  BY <1>7 DEF Jam, Unjam, chanVars, docVars, instVars, callVars, PcShape, GoalShape, ReqShape,
              ProcShape, ChanShape, DocShape, InstShape, CallShape
<1> QED
  BY <1>1, <1>2, <1>3, <1>4, <1>5, <1>6, <1>7 DEF Next

-----------------------------------------------------------------------------
(* Channels.                                                               *)

\* What Lock comes to.
LEMMA Locking ==
  ASSUME Shape, NEW c \in Callers, Lock(c)
  PROVE  /\ \A d \in Callers : d # c => pc'[d] = pc[d]
         /\ \/ IsHealthy /\ pc'[c] = goal[c] /\ lock' = lock
            \/ ~IsHealthy /\ pc'[c] = Failed(c) /\ lock' = lock
            \/ state = "error" /\ pc'[c] = "restart" /\ lock' = c
            \/ state \notin {"running", "error"} /\ pc'[c] = "start" /\ lock' = c
<1> USE DEF Shape, PcShape, InstShape, Goto, IsHealthy
<1>1. restartCount >= MaxRestarts <=> ~(restartCount < MaxRestarts)
  BY LimitsAssumption
<1>2. CASE IsHealthy
  BY <1>2 DEF Lock
<1>3. CASE state = "error" /\ restartCount >= MaxRestarts
  <2>1. ~(restartCount < MaxRestarts)
    BY <1>1, <1>3
  <2>2. Goto(c, Failed(c)) /\ UNCHANGED lock
    BY <1>3, <2>1 DEF Lock
  <2> QED
    BY <1>3, <2>2
<1>4. CASE state = "error" /\ restartCount < MaxRestarts
  <2>1. ~(restartCount >= MaxRestarts)
    BY <1>1, <1>4
  <2>2. Goto(c, "restart") /\ lock' = c
    BY <1>4, <2>1 DEF Lock
  <2> QED
    BY <1>4, <2>2
<1>5. CASE state \notin {"running", "error"}
  BY <1>5 DEF Lock
<1> QED
  BY <1>1, <1>2, <1>3, <1>4, <1>5

\* A step of a caller moves no other one.
LEMMA OthersStay ==
  ASSUME Shape, NEW c \in Callers, CallerStep(c)
  PROVE  \A d \in Callers : d # c => pc'[d] = pc[d]
<1> USE DEF Shape, PcShape, Goto, Ensure, SendRequest
<1>1. CASE Lock(c) \/ Start(c) \/ Initialize(c) \/ HandshakeAnswered(c) \/ Initialized(c)
           \/ TimeOut(c)
  BY <1>1, Locking DEF Start, Initialize, HandshakeAnswered, Initialized, TimeOut
<1>2. CASE Query(c) \/ Answered(c) \/ Shutdown(c) \/ StopAnswered(c) \/ Kill(c) \/ Reap(c)
           \/ Drain(c)
  BY <1>2 DEF Query, Answered, Shutdown, StopAnswered, Kill, Reap, Drain
<1>3. CASE Check(c) \/ OpenCheck(c) \/ DidOpen(c) \/ RecordOpen(c) \/ DidChange(c) \/ DidSave(c)
  BY <1>3 DEF Check, OpenCheck, DidOpen, RecordOpen, DidChange, DidSave
<1> QED
  BY <1>1, <1>2, <1>3 DEF CallerStep

LEMMA ChannelsStep == ASSUME Shape, Channels, [Next]_vars PROVE Channels'
<1> USE DEF Channels
<1>1. nextID \in Nat /\ nextID + 1 \notin pending /\ nextID + 1 \notin sent
      /\ nextID + 1 \notin closed /\ nextID + 1 # reading
  BY DEF Shape, ChanShape
<1>2. ASSUME NEW c \in Callers, CallerStep(c) PROVE Channels'
  <2>1. CASE Initialize(c) \/ Query(c) \/ Shutdown(c)
    <3>1. /\ pending' = pending \/ pending' = pending \cup {nextID + 1}
          /\ UNCHANGED <<reading, sent, closed>>
      BY <2>1 DEF Initialize, Query, Shutdown, SendRequest, chanVars
    <3> QED
      BY <1>1, <3>1
  <2>2. CASE TimeOut(c)
    BY <2>2 DEF TimeOut
  <2>3. CASE Drain(c)
    BY <2>3 DEF Drain
  <2>4. CASE Lock(c) \/ Start(c) \/ HandshakeAnswered(c) \/ Initialized(c) \/ Answered(c)
             \/ StopAnswered(c) \/ Kill(c) \/ Reap(c) \/ Check(c) \/ OpenCheck(c) \/ DidOpen(c) \/ RecordOpen(c) \/ DidChange(c)
             \/ DidSave(c)
    <3>1. UNCHANGED chanVars
      BY <2>4 DEF Lock, Start, HandshakeAnswered, Initialized, Answered, StopAnswered, Kill, Reap,
                  Check, OpenCheck, DidOpen, RecordOpen, DidChange, DidSave
    <3> QED
      BY <3>1 DEF chanVars
  <2> QED
    BY <1>2, <2>1, <2>2, <2>3, <2>4 DEF CallerStep
<1>3. ASSUME NEW id \in inbox, Receive(id) PROVE Channels'
  <2>1. 0 \notin pending /\ 0 \notin sent /\ 0 \notin closed
    BY DEF Shape, ChanShape
  <2> QED
    BY <1>3, <2>1 DEF Receive
<1>4. CASE Deliver
  <2>1. 0 \notin pending /\ 0 \notin sent /\ 0 \notin closed
    BY DEF Shape, ChanShape
  <2> QED
    BY <1>4, <2>1 DEF Deliver
<1>5. ASSUME \/ Die
             \/ \E pipe \in {"stdin", "stderr"} : Jam(pipe) \/ Unjam(pipe)
             \/ \E c \in Callers, f \in Files, kind \in {"query", "change"} : Call(c, f, kind)
             \/ UNCHANGED vars
      PROVE  Channels'
  BY <1>5 DEF Die, Jam, Unjam, Call, vars, chanVars
<1> QED
  BY <1>2, <1>3, <1>4, <1>5 DEF Next

-----------------------------------------------------------------------------
(* The lock and the process.                                               *)

LEMMA ExclusiveStep == ASSUME Shape, Exclusive, [Next]_vars PROVE Exclusive'
<1>1. ASSUME NEW c \in Callers, CallerStep(c) PROVE Exclusive'
  <2>1. \A d \in Callers : d # c => pc'[d] = pc[d]
    BY <1>1, OthersStay
  <2>2. c # free /\ pc \in [Callers -> Points]
    BY CallersAssumption DEF Shape, PcShape
  <2>3. CASE Lock(c)
    <3>1. goal[c] \notin Locked /\ Failed(c) \notin Locked
      BY Targets DEF Locked, Shape, GoalShape, Goals
    <3>2. CASE UNCHANGED lock
      <4>1. pc'[c] \notin Locked
        BY <2>2, <2>3, <3>1, <3>2, Locking DEF Lock
      <4> QED
        BY <2>1, <2>3, <3>2, <4>1 DEF Exclusive, Lock
    <3>3. CASE lock' # lock
      <4>1. lock = free /\ lock' = c /\ ~IsHealthy /\ state' = state
        BY <2>3, <3>3, Locking DEF Lock, IsHealthy
      <4>2. \A d \in Callers : pc[d] \notin Locked
        BY <4>1, CallersAssumption DEF Exclusive
      <4> QED
        BY <2>1, <2>2, <4>1, <4>2 DEF Exclusive, IsHealthy
    <3> QED
      BY <3>2, <3>3
  <2>4. CASE Start(c)
    <3>1. lock = c
      BY <2>4 DEF Start, Exclusive, Locked
    <3>2. \A d \in Callers : d # c => pc[d] \notin Locked
      BY <3>1 DEF Exclusive
    <3>3. CASE state' = "error"
      <4>1. lock' = free /\ pc'[c] \notin Locked
        BY <2>2, <2>4, <3>3, Targets DEF Start, Goto, Locked
      <4> QED
        BY <2>1, <3>2, <3>3, <4>1 DEF Exclusive
    <3>4. CASE state' # "error"
      <4>1. state' = "starting" /\ lock' = c
        BY <2>4, <3>1, <3>4 DEF Start
      <4> QED
        BY <2>1, <2>2, <3>2, <4>1 DEF Exclusive
    <3> QED
      BY <3>3, <3>4
  <2>5. CASE Initialize(c) \/ HandshakeAnswered(c) \/ Shutdown(c) \/ TimeOut(c)
             \/ StopAnswered(c) \/ Kill(c) \/ Reap(c)
    <3>1. pc[c] \in Locked
      BY <2>5 DEF Initialize, HandshakeAnswered, Shutdown, TimeOut, StopAnswered, Kill, Reap, Locked
    <3>2. lock = c /\ state # "running"
      BY <2>2, <3>1 DEF Exclusive
    <3>3. lock' = lock /\ state' # "running"
      BY <2>5, <3>2 DEF Initialize, HandshakeAnswered, Shutdown, TimeOut, StopAnswered, Kill, Reap,
                        instVars
    <3> QED
      BY <2>1, <2>2, <3>2, <3>3 DEF Exclusive
  <2>6. CASE Initialized(c)
    <3>1. lock = c /\ state # "running"
      BY <2>2, <2>6 DEF Initialized, Exclusive, Locked
    <3>2. \A d \in Callers : d # c => pc[d] \notin Locked
      BY <3>1 DEF Exclusive
    <3>3. CASE state' = state
      BY <2>1, <2>2, <2>6, <3>1, <3>2, <3>3 DEF Exclusive, Initialized
    <3>4. CASE state' # state
      <4>1. state' = "running" /\ lock' = free /\ pc'[c] = goal[c]
        BY <2>2, <2>6, <3>4 DEF Initialized, Goto
      <4>2. goal[c] \notin Locked
        BY DEF Shape, GoalShape, Goals, Locked
      <4> QED
        BY <2>1, <3>2, <4>1, <4>2 DEF Exclusive
    <3> QED
      BY <3>3, <3>4
  <2>7. CASE Drain(c)
    <3>1. lock = c
      BY <2>7 DEF Drain, Exclusive, Locked
    <3>2. \A d \in Callers : d # c => pc[d] \notin Locked
      BY <3>1 DEF Exclusive
    <3>3. state' = "stopped"
      BY <2>7 DEF Drain
    <3>4. \/ lock' = c
          \/ lock' = free /\ pc'[c] \notin Locked
      BY <2>2, <2>7, <3>1, Targets DEF Drain, Goto, Locked
    <3> QED
      BY <2>1, <2>2, <3>2, <3>3, <3>4 DEF Exclusive
  <2>8. CASE Query(c) \/ Answered(c) \/ Check(c) \/ OpenCheck(c) \/ DidOpen(c) \/ RecordOpen(c)
             \/ DidChange(c) \/ DidSave(c)
    <3>1. UNCHANGED instVars
      BY <2>8 DEF Query, Answered, Check, OpenCheck, DidOpen, RecordOpen, DidChange, DidSave
    <3>2. Failed(c) \notin Locked /\ AfterOpen(c) \notin Locked
          /\ {"wait", "idle", "query", "ensure", "didOpen", "record", "didSave"} \cap Locked = {}
      BY Targets DEF Locked
    <3>3. pc'[c] \notin Locked
      <4>1. CASE Query(c) \/ Answered(c) \/ Check(c)
        BY <2>2, <3>2, <4>1 DEF Query, SendRequest, Answered, Check, Ensure, Goto
      <4>2. CASE OpenCheck(c) \/ DidOpen(c) \/ RecordOpen(c) \/ DidChange(c) \/ DidSave(c)
        BY <2>2, <3>2, <4>2 DEF OpenCheck, DidOpen, RecordOpen, DidChange, DidSave, Goto
      <4> QED
        BY <2>8, <4>1, <4>2
    <3> QED
      BY <2>1, <3>1, <3>3 DEF Exclusive, instVars
  <2> QED
    BY <1>1, <2>3, <2>4, <2>5, <2>6, <2>7, <2>8 DEF CallerStep
<1>2. ASSUME NEW c \in Callers, NEW f \in Files, NEW kind \in {"query", "change"},
             Call(c, f, kind)
      PROVE  Exclusive'
  <2>1. pc'[c] \notin Locked /\ \A d \in Callers : d # c => pc'[d] = pc[d]
    BY <1>2 DEF Call, Ensure, Goto, Shape, PcShape, Locked
  <2> QED
    BY <1>2, <2>1 DEF Call, instVars, Exclusive
<1>3. ASSUME \/ (\E id \in inbox : Receive(id)) \/ Deliver \/ Die \/ UNCHANGED vars
             \/ \E pipe \in {"stdin", "stderr"} : Jam(pipe) \/ Unjam(pipe)
      PROVE  Exclusive'
  BY <1>3 DEF Receive, Deliver, Die, Jam, Unjam, vars, instVars, Exclusive
<1> QED
  BY <1>1, <1>2, <1>3 DEF Next

LEMMA ProcessStep == ASSUME Shape, Exclusive, Process, [Next]_vars PROVE Process'
<1>1. ASSUME NEW c \in Callers, CallerStep(c) PROVE Process'
  <2>1. \A d \in Callers : d # c => pc'[d] = pc[d]
    BY <1>1, OthersStay
  <2>2. c # free /\ pc \in [Callers -> Points]
    BY CallersAssumption DEF Shape, PcShape
  <2>3. pc[c] \in Locked => /\ lock = c
                            /\ \A d \in Callers : d # c => pc[d] \notin Locked
    BY DEF Exclusive
  <2>4. CASE Lock(c)
    <3>1. alive' = alive /\ proc' = proc /\ state' = state
      BY <2>4 DEF Lock, procVars
    <3>2. CASE UNCHANGED lock
      <4>1. pc'[c] \notin {"start", "reap", "drain"}
        BY <2>2, <2>4, <3>2, Locking, Targets DEF Lock, Shape, GoalShape, Goals
      <4> QED
        BY <2>1, <3>1, <3>2, <4>1 DEF Process
    <3>3. CASE lock' # lock
      <4>1. lock = free /\ lock' = c
        BY <2>4, <3>3, Locking DEF Lock
      <4>2. CASE state = "error"
        <5>1. pc'[c] = "restart"
          BY <2>2, <2>4, <3>3, <4>2, Locking DEF IsHealthy
        <5> QED
          BY <2>1, <2>2, <3>1, <4>1, <5>1 DEF Process
      <4>3. CASE state # "error"
        <5>1. state = "stopped"
          BY <2>4, <3>3, <4>1, <4>3 DEF Lock, Exclusive, IsHealthy
        <5> QED
          BY <2>2, <3>1, <4>1, <5>1 DEF Process
      <4> QED
        BY <4>2, <4>3
    <3> QED
      BY <3>2, <3>3
  <2>5. CASE Start(c)
    <3>1. alive = {} /\ \A d \in Callers : d # c => pc[d] \notin {"start", "reap", "drain"}
      BY <2>3, <2>5 DEF Start, Process, Locked
    <3>2. pc'[c] \notin {"start", "reap", "drain"}
      BY <2>2, <2>5, Targets DEF Start, Goto
    <3>3. state' # "stopped" /\ alive' \subseteq {proc'}
      BY <2>5, <3>1 DEF Start, procVars
    <3> QED
      BY <2>1, <3>1, <3>2, <3>3 DEF Process
  <2>6. CASE Initialize(c) \/ HandshakeAnswered(c) \/ Shutdown(c) \/ TimeOut(c)
             \/ StopAnswered(c) \/ Kill(c) \/ Reap(c) \/ Initialized(c)
    <3>1. pc[c] \in Locked
      BY <2>6 DEF Initialize, HandshakeAnswered, Shutdown, TimeOut, StopAnswered, Kill, Reap,
                  Initialized, Locked
    <3>2. \A d \in Callers : d # c => pc'[d] \notin {"start", "reap", "drain"}
      BY <2>1, <2>3, <3>1 DEF Locked
    <3>3. (lock' = c /\ lock' # free) \/ state' = "running"
      BY <2>2, <2>3, <2>6, <3>1 DEF Initialize, HandshakeAnswered, Shutdown, TimeOut, StopAnswered,
                                    Kill, Reap, Initialized, instVars
    <3>4. CASE Kill(c) \/ Reap(c)
      <4>1. alive' = {}
        BY <3>4 DEF Process, Kill, Reap, procVars
      <4> QED
        BY <4>1 DEF Process
    <3>5. CASE Initialize(c) \/ HandshakeAnswered(c) \/ Shutdown(c) \/ TimeOut(c)
               \/ StopAnswered(c) \/ Initialized(c)
      <4>1. alive' = alive /\ proc' = proc
        BY <3>5 DEF Initialize, HandshakeAnswered, Shutdown, TimeOut, StopAnswered, Initialized, SendRequest, procVars
      <4>2. pc'[c] \notin {"start", "reap", "drain"}
        BY <2>2, <3>5 DEF Initialize, HandshakeAnswered, Shutdown, TimeOut, StopAnswered, Initialized,
                          SendRequest, Goto, Shape, GoalShape, Goals
      <4> QED
        BY <3>2, <3>3, <4>1, <4>2 DEF Process
    <3> QED
      BY <2>6, <3>4, <3>5
  <2>7. CASE Drain(c)
    <3>1. alive = {} /\ alive' = {}
      BY <2>7 DEF Drain, Process, procVars
    <3> QED
      BY <3>1 DEF Process
  <2>8. CASE Query(c) \/ Answered(c) \/ Check(c) \/ OpenCheck(c) \/ DidOpen(c) \/ RecordOpen(c)
             \/ DidChange(c) \/ DidSave(c)
    <3>1. lock' = lock /\ state' = state /\ alive' = alive /\ proc' = proc
      BY <2>8 DEF Query, SendRequest, Answered, Check, OpenCheck, DidOpen, RecordOpen, DidChange,
                  DidSave, instVars, procVars
    <3>2. pc'[c] \notin {"start", "reap", "drain"}
      <4>1. CASE Query(c) \/ Answered(c) \/ Check(c)
        BY <2>2, <4>1 DEF Query, SendRequest, Answered, Check, Ensure, Goto
      <4>2. CASE OpenCheck(c) \/ DidOpen(c) \/ RecordOpen(c) \/ DidChange(c) \/ DidSave(c)
        BY <2>2, <4>2, Targets DEF OpenCheck, DidOpen, RecordOpen, DidChange, DidSave, Goto
      <4> QED
        BY <2>8, <4>1, <4>2
    <3> QED
      BY <2>1, <3>1, <3>2 DEF Process
  <2> QED
    BY <1>1, <2>4, <2>5, <2>6, <2>7, <2>8 DEF CallerStep
<1>2. ASSUME NEW c \in Callers, NEW f \in Files, NEW kind \in {"query", "change"},
             Call(c, f, kind)
      PROVE  Process'
  <2>1. pc'[c] \notin {"start", "reap", "drain"} /\ \A d \in Callers : d # c => pc'[d] = pc[d]
    BY <1>2 DEF Call, Ensure, Goto, Shape, PcShape
  <2> QED
    BY <1>2, <2>1 DEF Call, instVars, procVars, Process
<1>3. ASSUME \/ (\E id \in inbox : Receive(id)) \/ Deliver \/ Die \/ UNCHANGED vars
             \/ \E pipe \in {"stdin", "stderr"} : Jam(pipe) \/ Unjam(pipe)
      PROVE  Process'
  BY <1>3 DEF Receive, Deliver, Die, Jam, Unjam, vars, instVars, procVars, Process
<1> QED
  BY <1>1, <1>2, <1>3 DEF Next

-----------------------------------------------------------------------------
(* Documents.                                                              *)

LEMMA DocumentsStep == ASSUME Shape, Exclusive, Documents, [Next]_vars PROVE Documents'
<1>1. ASSUME NEW c \in Callers, CallerStep(c) PROVE Documents'
  <2>1. \A d \in Callers : d # c => pc'[d] = pc[d]
    BY <1>1, OthersStay
  <2>2. c # free /\ pc \in [Callers -> Points] /\ file \in [Callers -> Files]
        /\ didOpen \in [Files -> Nat]
    BY CallersAssumption DEF Shape, PcShape, CallShape, DocShape
  <2>3. pc[c] \in Locked => state # "running"
    BY <2>2 DEF Exclusive
  <2>4. pc[c] \in Served => state = "running"
    BY DEF Documents
  <2>5. goal[c] \in Goals /\ Goals \cap {"record", "query", "didChange"} = {}
    BY DEF Shape, GoalShape, Goals
  <2>6. Failed(c) \notin Served
    BY Targets DEF Served
  <2>7. CASE Lock(c)
    <3>1. UNCHANGED <<state, shook, opened, didOpen, used, file>>
      BY <2>7 DEF Lock, procVars, docVars, callVars
    <3>2. pc'[c] \notin {"record", "query", "didChange"} /\ (state # "running" => pc'[c] \notin Served)
      BY <2>5, <2>6, <2>7, Locking, Targets DEF IsHealthy, Served
    <3> QED
      BY <2>1, <3>1, <3>2 DEF Documents
  <2>8. CASE Start(c) \/ Initialize(c) \/ HandshakeAnswered(c) \/ Shutdown(c) \/ TimeOut(c)
             \/ StopAnswered(c) \/ Kill(c) \/ Reap(c) \/ Drain(c)
             \/ (Initialized(c) /\ state' = state)
    <3>1. pc[c] \in Locked
      BY <2>8 DEF Start, Initialize, HandshakeAnswered, Shutdown, TimeOut, StopAnswered, Kill, Reap,
                  Drain, Initialized, Locked
    <3>2. state # "running" /\ shook # "done"
      BY <2>3, <3>1 DEF Documents
    <3>3. state' # "running" /\ shook' # "done"
      BY <2>8, <3>2 DEF Start, Initialize, HandshakeAnswered, Shutdown, TimeOut, StopAnswered, Kill,
                        Reap, Drain, Initialized, instVars, procVars
    <3>4. UNCHANGED <<opened, didOpen, used, file>>
      BY <2>8 DEF Start, Initialize, HandshakeAnswered, Shutdown, TimeOut, StopAnswered, Kill, Reap,
                  Drain, Initialized, docVars, callVars
    <3>5. pc'[c] \notin Served
      <4>1. CASE Start(c) \/ Drain(c)
        BY <2>2, <2>6, <4>1 DEF Start, Drain, Goto, Served
      <4>2. CASE Initialize(c) \/ Shutdown(c)
        BY <2>2, <4>2 DEF Initialize, Shutdown, SendRequest, Goto, Served
      <4>3. CASE HandshakeAnswered(c) \/ TimeOut(c) \/ StopAnswered(c) \/ Kill(c) \/ Reap(c)
                 \/ (Initialized(c) /\ state' = state)
        BY <2>2, <3>2, <4>3 DEF HandshakeAnswered, Reap, TimeOut, StopAnswered, Kill, Initialized, Goto, Served
      <4> QED
        BY <2>8, <4>1, <4>2, <4>3
    <3>6. pc'[c] \notin {"record", "query", "didChange"}
      BY <3>5 DEF Served
    <3> QED
      BY <2>1, <3>2, <3>3, <3>4, <3>5, <3>6 DEF Documents
  <2>9. CASE Initialized(c) /\ state' # state
    <3>1. state' = "running" /\ shook' = "done" /\ UNCHANGED <<opened, didOpen, used, file>>
      BY <2>9 DEF Initialized, docVars, callVars
    <3>2. pc'[c] \notin {"record", "query", "didChange"}
      BY <2>2, <2>5, <2>9 DEF Initialized, Goto
    <3> QED
      BY <2>1, <3>1, <3>2 DEF Documents
  <2>10. CASE Query(c) \/ DidChange(c)
    <3>1. state = "running" /\ file[c] \in opened
      BY <2>4, <2>10 DEF Query, DidChange, Served, Documents
    <3>2. UNCHANGED <<state, shook, opened, didOpen, file>> /\ used' \subseteq used \cup {file[c]}
      BY <2>10 DEF Query, DidChange, instVars, procVars, callVars
    <3>3. pc'[c] \notin {"record", "query", "didChange"}
      BY <2>2, <2>10 DEF Query, SendRequest, DidChange, Goto
    <3> QED
      BY <2>1, <3>1, <3>2, <3>3 DEF Documents
  <2>11. CASE Answered(c) \/ Check(c) \/ OpenCheck(c)
    <3>1. state = "running" /\ UNCHANGED <<state, shook, opened, didOpen, used, file>>
      BY <2>4, <2>11 DEF Answered, Check, OpenCheck, instVars, procVars, docVars, callVars, Served
    <3>2. pc'[c] \notin {"record", "didChange"} /\ (pc'[c] = "query" => file[c] \in opened)
      BY <2>2, <2>11, Targets DEF Answered, Check, Ensure, OpenCheck, Goto
    <3> QED
      BY <2>1, <3>1, <3>2 DEF Documents
  <2>12. CASE DidOpen(c)
    <3>1. state = "running" /\ UNCHANGED <<state, shook, opened, used, file>>
      BY <2>4, <2>12 DEF DidOpen, instVars, procVars, callVars, Served
    <3>2. CASE Alive
      <4>1. didOpen' = [didOpen EXCEPT ![file[c]] = @ + 1] /\ pc'[c] = "record"
        BY <2>2, <2>12, <3>2 DEF DidOpen, Goto
      <4>2. file[c] \in Files /\ didOpen'[file[c]] > 0
            /\ \A f \in Files : didOpen[f] > 0 => didOpen'[f] > 0
        BY <2>2, <4>1
      <4>3. opened \subseteq Files
        BY DEF Shape, DocShape
      <4> QED
        BY <2>1, <2>2, <3>1, <4>1, <4>2, <4>3 DEF Documents
    <3>3. CASE ~Alive
      <4>1. didOpen' = didOpen /\ pc'[c] \notin {"record", "query", "didChange"}
        BY <2>2, <2>12, <3>3, Targets DEF DidOpen, Goto
      <4> QED
        BY <2>1, <3>1, <4>1 DEF Documents
    <3> QED
      BY <3>2, <3>3
  <2>13. CASE RecordOpen(c)
    <3>1. state = "running" /\ UNCHANGED <<state, shook, didOpen, used, file>>
          /\ opened' = opened \cup {file[c]}
      BY <2>4, <2>13 DEF RecordOpen, instVars, procVars, callVars, Served
    <3>2. didOpen[file[c]] > 0
      BY <2>13 DEF RecordOpen, Documents
    <3>3. pc'[c] \notin {"record", "didChange"}
      BY <2>2, <2>13, Targets DEF RecordOpen, Goto
    <3> QED
      BY <2>1, <3>1, <3>2, <3>3 DEF Documents
  <2>14. CASE DidSave(c)
    <3>1. UNCHANGED <<state, shook, opened, didOpen, file>> /\ used' \subseteq opened
      BY <2>14 DEF DidSave, instVars, procVars, callVars, Documents
    <3>2. pc'[c] \notin Served /\ pc'[c] \notin {"record", "query", "didChange"}
      BY <2>2, <2>14 DEF DidSave, Goto, Served
    <3> QED
      BY <2>1, <3>1, <3>2 DEF Documents
  <2> QED
    BY <1>1, <2>7, <2>8, <2>9, <2>10, <2>11, <2>12, <2>13, <2>14 DEF CallerStep
<1>2. ASSUME NEW c \in Callers, NEW f \in Files, NEW kind \in {"query", "change"},
             Call(c, f, kind)
      PROVE  Documents'
  <2>1. \A d \in Callers : d # c => pc'[d] = pc[d] /\ file'[d] = file[d]
    BY <1>2 DEF Call, Ensure, Goto, Shape, PcShape, CallShape
  <2>2. UNCHANGED <<state, shook, opened, didOpen, used>>
    BY <1>2 DEF Call, instVars, procVars, docVars
  <2>3. \/ pc'[c] = "ensure"
        \/ pc'[c] = "didChange" /\ file'[c] \in opened /\ state = "running"
    BY <1>2 DEF Call, Ensure, Goto, Shape, PcShape, CallShape, IsHealthy
  <2>4. "ensure" \notin Served
    BY DEF Served
  <2> QED
    BY <2>1, <2>2, <2>3, <2>4 DEF Documents
<1>3. ASSUME \/ (\E id \in inbox : Receive(id)) \/ Deliver \/ Die \/ UNCHANGED vars
             \/ \E pipe \in {"stdin", "stderr"} : Jam(pipe) \/ Unjam(pipe)
      PROVE  Documents'
  <2>1. UNCHANGED <<pc, file, state, shook, opened, didOpen, used>>
    BY <1>3 DEF Receive, Deliver, Die, Jam, Unjam, vars, procVars, docVars, instVars, callVars
  <2> QED
    BY <2>1 DEF Documents
<1> QED
  BY <1>1, <1>2, <1>3 DEF Next

-----------------------------------------------------------------------------
(* The theorems.                                                           *)

LEMMA InvInit == Init => IInv
<1> SUFFICES ASSUME Init PROVE IInv
  OBVIOUS
<1> USE DEF Init
<1>1. PcShape /\ GoalShape /\ ReqShape /\ ProcShape /\ ChanShape /\ DocShape /\ InstShape
  BY DEF PcShape, GoalShape, ReqShape, ProcShape, ChanShape, DocShape, InstShape, Points, Goals
<1>2. CallShape
  BY LimitsAssumption DEF CallShape
<1>3. Channels /\ Exclusive /\ Process /\ Documents
  BY DEF Channels, Exclusive, Process, Documents, Locked, Served
<1> QED
  BY <1>1, <1>2, <1>3 DEF IInv, Shape

LEMMA Inductive == Spec => []IInv
<1>1. IInv /\ [Next]_vars => IInv'
  BY ShapeStep, ChannelsStep, ExclusiveStep, ProcessStep, DocumentsStep DEF IInv
<1> QED
  BY InvInit, <1>1, PTL DEF Spec

\* Callers, requests, files and the instance have their shapes (manager.go,
\* client.go): no id above the counter waits anywhere, no process is alive
\* that was not started.
THEOREM TypeCorrect == Spec => []TypeOK
<1>1. IInv => TypeOK
  BY Shaped DEF IInv
<1> QED
  BY <1>1, Inductive, PTL

\* However many callers find the server stopped, failed or silent, and however
\* its starts and ends mix with late answers, one process lives at most and no
\* channel is both closed by Shutdown and sent on by the read loop.
THEOREM ProcessIsSound == Spec => []ProcessSound
<1>1. IInv => ProcessSound
  <2> SUFFICES ASSUME IInv PROVE ProcessSound
    OBVIOUS
  <2>1. alive = {} \/ alive = {proc}
    BY DEF IInv, Process
  <2>2. Cardinality({}) = 0 /\ Cardinality({proc}) = 1
    BY FS_EmptySet, FS_Singleton
  <2>3. Cardinality(alive) <= 1
    BY <2>1, <2>2
  <2>4. NoSendOnClosed
    BY DEF IInv, Channels, NoSendOnClosed
  <2> QED
    BY <2>3, <2>4 DEF ProcessSound, OneProcess
<1> QED
  BY <1>1, Inductive, PTL

\* No file is mentioned to a process before the handshake with it is over, and
\* every file it is asked about, or told changes of, was opened with it
\* before, although callers go by what other callers have recorded
\* (manager.go: OpenFile, ChangeFile, SaveFile; tool/lsp.go: ensureFileOpen).
THEOREM OpenedFirstAlways == Spec => []OpenedInOrder
<1>1. IInv => OpenedInOrder
  BY DEF IInv, Documents, OpenedInOrder, HandshakeFirst, OpenedFirst
<1> QED
  BY <1>1, Inductive, PTL
=============================================================================
