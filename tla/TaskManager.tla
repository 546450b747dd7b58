----------------------------- MODULE TaskManager -----------------------------
(***************************************************************************)
(* Background shell tasks (internal/task) and the two tools that reach     *)
(* them from the agent loop, TaskOutput and TaskStop.  Every task has a    *)
(* goroutine that runs the command, records how it ended, notifies the     *)
(* agent loop and closes the task's done channel, in four separate steps;  *)
(* tool calls and cancellations fall between any two of them.              *)
(***************************************************************************)
EXTENDS Naturals, Sequences, FiniteSets

CONSTANTS
  Tasks,       \* the ids the manager will hand out: 1 .. n
  Stubborn,    \* tasks whose descendants keep the output pipe open when killed
  Callers,     \* concurrent callers of the two tools
  NotifyCap,   \* capacity of notifyCh (16 in the code)
  MaxOutput    \* bound: writes a command makes

ASSUME TasksAssumption ==
  /\ Tasks \subseteq Nat /\ Stubborn \subseteq Tasks
  /\ NotifyCap \in Nat \ {0} /\ MaxOutput \in Nat

VARIABLES
  at,        \* at[t]: the point the goroutine of t has reached
  status,    \* status[t]: entry.task.Status
  failed,    \* failed[t]: cmd.Run returned an error
  ctx,       \* ctx[t]: childCtx is cancelled
  out,       \* out[t]: how much entry.output holds
  done,      \* done[t]: entry.done is closed
  notifyCh,  \* the notification channel
  heard,     \* notifications the agent loop has received
  turnOver,  \* the context of the current agent turn is cancelled
  call       \* call[c]: the tool call that c is making, or its result

vars == <<at, status, failed, ctx, out, done, notifyCh, heard, turnOver, call>>

Terminal == {"completed", "failed", "killed"}
Statuses == Terminal \cup {"none", "running"}
Points == {"idle", "run", "exited", "notify", "close", "end"}
Notification == [task : Tasks, status : Terminal]

\* op: the tool; at: where Execute is; got: the output read last; final: the
\* done flag it returns; waited: Stop gave up after five seconds.
CallPoints == {"none", "read", "poll", "check", "cancel", "wait", "back", "refused"}
ToolCall == [op : {"none", "output", "stop"}, at : CallPoints, task : Tasks \cup {0},
             blocking : BOOLEAN, got : 0 .. MaxOutput, final : BOOLEAN]
NoCall == [op |-> "none", at |-> "none", task |-> 0, blocking |-> FALSE, got |-> 0,
           final |-> FALSE]

Init ==
  /\ at = [t \in Tasks |-> "idle"]
  /\ status = [t \in Tasks |-> "none"]
  /\ failed = [t \in Tasks |-> FALSE]
  /\ ctx = [t \in Tasks |-> FALSE]
  /\ out = [t \in Tasks |-> 0]
  /\ done = [t \in Tasks |-> FALSE]
  /\ notifyCh = << >> /\ heard = {}
  /\ turnOver = FALSE
  /\ call = [c \in Callers |-> NoCall]

-----------------------------------------------------------------------------
(* The task goroutine (shell_task.go).                                     *)

\* startShellTask: the next id, a context under the caller's turn, the
\* goroutine.
Start(t) ==
  /\ at[t] = "idle"
  /\ \A u \in Tasks : u < t => at[u] # "idle"
  /\ at' = [at EXCEPT ![t] = "run"]
  /\ status' = [status EXCEPT ![t] = "running"]
  /\ ctx' = [ctx EXCEPT ![t] = turnOver]
  /\ UNCHANGED <<failed, out, done, notifyCh, heard, turnOver, call>>

\* The command writes to entry.output.
WriteOutput(t) ==
  /\ at[t] = "run" /\ out[t] < MaxOutput
  /\ out' = [out EXCEPT ![t] = @ + 1]
  /\ UNCHANGED <<at, status, failed, ctx, done, notifyCh, heard, turnOver, call>>

\* cmd.Run returns, with or without an error.
Exit(t) ==
  /\ at[t] = "run"
  /\ at' = [at EXCEPT ![t] = "exited"]
  /\ \E err \in BOOLEAN : failed' = [failed EXCEPT ![t] = err]
  /\ UNCHANGED <<status, ctx, out, done, notifyCh, heard, turnOver, call>>

\* Mutant of Outcome: any error counts as a kill.
OutcomeKilled(t) == IF failed[t] THEN "killed" ELSE "completed"

Outcome(t) == IF ~failed[t] THEN "completed"
              ELSE IF ctx[t] THEN "killed" ELSE "failed"

\* Mutant of Record: done is closed first, as with the defer moved up.
RecordAfterClose(t) ==
  /\ at[t] = "exited"
  /\ at' = [at EXCEPT ![t] = "notify"]
  /\ done' = [done EXCEPT ![t] = TRUE]
  /\ UNCHANGED <<status, failed, ctx, out, notifyCh, heard, turnOver, call>>

\* Under the lock, the outcome becomes the status.
Record(t) ==
  /\ at[t] = "exited"
  /\ at' = [at EXCEPT ![t] = "notify"]
  /\ status' = [status EXCEPT ![t] = Outcome(t)]
  /\ UNCHANGED <<failed, ctx, out, done, notifyCh, heard, turnOver, call>>

\* Mutant of Notify: the send waits for room.
NotifyBlocks(t) ==
  /\ at[t] = "notify" /\ Len(notifyCh) < NotifyCap
  /\ at' = [at EXCEPT ![t] = "close"]
  /\ notifyCh' = Append(notifyCh, [task |-> t, status |-> status[t]])
  /\ UNCHANGED <<status, failed, ctx, out, done, heard, turnOver, call>>

\* Mutant of Notify: the capacity is not respected.
NotifyUnbounded(t) ==
  /\ at[t] = "notify"
  /\ at' = [at EXCEPT ![t] = "close"]
  /\ notifyCh' = Append(notifyCh, [task |-> t, status |-> status[t]])
  /\ UNCHANGED <<status, failed, ctx, out, done, heard, turnOver, call>>

\* Mutant of Notify: the notification is sent again until there is room.
NotifyRepeats(t) ==
  /\ at[t] = "notify"
  /\ at' \in {at, [at EXCEPT ![t] = "close"]}
  /\ notifyCh' = IF Len(notifyCh) < NotifyCap
                 THEN Append(notifyCh, [task |-> t, status |-> status[t]]) ELSE notifyCh
  /\ UNCHANGED <<status, failed, ctx, out, done, heard, turnOver, call>>

\* The non-blocking send: a full channel loses the notification.
Notify(t) ==
  /\ at[t] = "notify"
  /\ at' = [at EXCEPT ![t] = "close"]
  /\ notifyCh' = IF Len(notifyCh) < NotifyCap
                 THEN Append(notifyCh, [task |-> t, status |-> status[t]]) ELSE notifyCh
  /\ UNCHANGED <<status, failed, ctx, out, done, heard, turnOver, call>>

\* The deferred close of entry.done.
CloseDone(t) ==
  /\ at[t] = "close"
  /\ at' = [at EXCEPT ![t] = "end"]
  /\ done' = [done EXCEPT ![t] = TRUE]
  /\ UNCHANGED <<status, failed, ctx, out, notifyCh, heard, turnOver, call>>

-----------------------------------------------------------------------------
(* The agent side.                                                         *)

\* The loop receives one notification per iteration (loop.go 83-91).
Receive ==
  /\ notifyCh # << >>
  /\ heard' = heard \cup {Head(notifyCh)}
  /\ notifyCh' = Tail(notifyCh)
  /\ UNCHANGED <<at, status, failed, ctx, out, done, turnOver, call>>

Known == {t \in Tasks : at[t] # "idle"}

\* The host cancels the turn's context, by an interrupt or because the turn
\* is over; every task was started under this turn's context or an earlier
\* one's.
CancelTurn ==
  /\ ~turnOver /\ turnOver' = TRUE
  /\ ctx' = [t \in Tasks |-> ctx[t] \/ t \in Known]
  /\ UNCHANGED <<at, status, failed, out, done, notifyCh, heard, call>>

\* The next prompt gets a context of its own.
NextTurn ==
  /\ turnOver /\ turnOver' = FALSE
  /\ \A c \in Callers : call[c].at \in {"none", "back", "refused"}
  /\ UNCHANGED <<at, status, failed, ctx, out, done, notifyCh, heard, call>>

\* Manager.Close at exit cancels what is not finished.
Close ==
  /\ ctx' = [t \in Tasks |-> ctx[t] \/ status[t] = "running"]
  /\ UNCHANGED <<at, status, failed, out, done, notifyCh, heard, turnOver, call>>

\* A caller that is free makes a call; GetBrief finds the task.
Begin(c, op, first, t, blocking) ==
  /\ call[c].at \in {"none", "back", "refused"}
  /\ t \in Known
  /\ call' = [call EXCEPT ![c] = [op |-> op, at |-> first, task |-> t,
                                  blocking |-> blocking, got |-> 0, final |-> FALSE]]
  /\ UNCHANGED <<at, status, failed, ctx, out, done, notifyCh, heard, turnOver>>

CallFrame == UNCHANGED <<at, status, failed, out, done, notifyCh, heard, turnOver>>

\* ReadOutput, first half: the content.
ReadContent(c) ==
  /\ call[c].at = "read"
  /\ call' = [call EXCEPT ![c].at = "poll", ![c].got = out[call[c].task]]
  /\ UNCHANGED ctx /\ CallFrame

\* Mutant of ReadDone: a blocking call ignores its context.
ReadDoneDeaf(c) ==
  /\ call[c].at = "poll"
  /\ LET finished == done[call[c].task] IN
     call' = [call EXCEPT ![c].final = finished,
                          ![c].at = IF finished \/ ~call[c].blocking THEN "back" ELSE "read"]
  /\ UNCHANGED ctx /\ CallFrame

\* Mutant of ReadDone: a blocking call waits for its context only.
ReadDoneBlind(c) ==
  /\ call[c].at = "poll"
  /\ LET finished == done[call[c].task] IN
     call' = [call EXCEPT ![c].final = finished,
                          ![c].at = IF ~call[c].blocking \/ turnOver THEN "back" ELSE "read"]
  /\ UNCHANGED ctx /\ CallFrame

\* ReadOutput, second half: is done closed?  A blocking call polls again until
\* it is or the turn is cancelled (its select waits 100 ms for the next poll, so
\* a context that is cancelled already always wins).
ReadDone(c) ==
  /\ call[c].at = "poll"
  /\ LET finished == done[call[c].task] IN
     \/ /\ finished \/ ~call[c].blocking \/ turnOver
        /\ call' = [call EXCEPT ![c].final = finished, ![c].at = "back"]
     \/ /\ ~finished /\ call[c].blocking /\ ~turnOver
        /\ call' = [call EXCEPT ![c].at = "read"]
  /\ UNCHANGED ctx /\ CallFrame

\* Stop, the unlocked look at the status: a finished task is an error.  (A read
\* that races with Record may mix two strings; the mixture equals no terminal
\* status, so that it counts as "running".)
StopCheck(c) ==
  /\ call[c].at = "check"
  /\ call' = [call EXCEPT ![c].at = IF status[call[c].task] \in Terminal
                                    THEN "refused" ELSE "cancel"]
  /\ UNCHANGED ctx /\ CallFrame

\* Mutant of StopCancel: Stop writes the status itself.
StopCancelMarks(c) ==
  /\ call[c].at = "cancel"
  /\ ctx' = [ctx EXCEPT ![call[c].task] = TRUE]
  /\ status' = [status EXCEPT ![call[c].task] = "killed"]
  /\ call' = [call EXCEPT ![c].at = "wait"]
  /\ UNCHANGED <<at, failed, out, done, notifyCh, heard, turnOver>>

\* The context is cancelled, whatever happened since the look.
StopCancel(c) ==
  /\ call[c].at = "cancel"
  /\ ctx' = [ctx EXCEPT ![call[c].task] = TRUE]
  /\ call' = [call EXCEPT ![c].at = "wait"]
  /\ CallFrame

\* Mutant of StopReturn: no timeout.
StopReturnDone(c) ==
  /\ call[c].at = "wait" /\ done[call[c].task]
  /\ call' = [call EXCEPT ![c].at = "back", ![c].final = TRUE]
  /\ UNCHANGED ctx /\ CallFrame

\* Stop returns when done is closed, or after five seconds without it.
StopReturn(c) ==
  /\ call[c].at = "wait"
  /\ call' = [call EXCEPT ![c].at = "back", ![c].final = done[call[c].task]]
  /\ UNCHANGED ctx /\ CallFrame

CallStep(c) == ReadContent(c) \/ ReadDone(c) \/ StopCheck(c) \/ StopCancel(c) \/ StopReturn(c)

Next ==
  \/ \E t \in Tasks : \/ Start(t) \/ WriteOutput(t) \/ Exit(t) \/ Record(t) \/ Notify(t)
                      \/ CloseDone(t)
  \/ Receive \/ CancelTurn \/ NextTurn \/ Close
  \/ \E c \in Callers, t \in Tasks :
       \/ \E blocking \in BOOLEAN : Begin(c, "output", "read", t, blocking)
       \/ Begin(c, "stop", "check", t, FALSE)
  \/ \E c \in Callers : CallStep(c)

\* Go runs every goroutine; a killed command exits unless it is stubborn; a
\* command left alone may run for ever.
Spec ==
  /\ Init /\ [][Next]_vars
  /\ \A t \in Tasks : /\ WF_vars(Record(t)) /\ WF_vars(Notify(t)) /\ WF_vars(CloseDone(t))
                      /\ WF_vars(t \notin Stubborn /\ ctx[t] /\ Exit(t))
  /\ \A c \in Callers : WF_vars(CallStep(c))

-----------------------------------------------------------------------------
(* Properties.                                                             *)

\* The shape of the state.
TypeOK ==
  /\ at \in [Tasks -> Points] /\ status \in [Tasks -> Statuses]
  /\ failed \in [Tasks -> BOOLEAN] /\ ctx \in [Tasks -> BOOLEAN]
  /\ out \in [Tasks -> 0 .. MaxOutput] /\ done \in [Tasks -> BOOLEAN]
  /\ notifyCh \in Seq(Notification) /\ Len(notifyCh) <= NotifyCap
  /\ heard \subseteq Notification /\ turnOver \in BOOLEAN
  /\ call \in [Callers -> ToolCall]

\* Whoever sees done closed (ReadOutput, Stop) finds the final status.
DoneMeansTerminal == \A t \in Tasks : done[t] => status[t] \in Terminal

\* A task is reported killed only if its context was cancelled, by a stop, by
\* the end of the turn or at exit; a failure of its own is not a kill.
KilledWasCancelled == \A t \in Tasks : status[t] = "killed" => ctx[t]

\* The agent hears of a task at most once, and what it hears, now or later,
\* is the final status the manager reports for the task.
InChannel(t) == {i \in 1 .. Len(notifyCh) : notifyCh[i].task = t}
NotifiedOnceFaithfully ==
  /\ \A i \in 1 .. Len(notifyCh) :
       /\ notifyCh[i].status = status[notifyCh[i].task]
       /\ \A j \in 1 .. Len(notifyCh) : notifyCh[j].task = notifyCh[i].task => j = i
       /\ \A n \in heard : n.task # notifyCh[i].task
  /\ \A n \in heard : n.status = status[n.task]

\* What a task's status, its channel and its notification say is true and agrees.
StatusFaithful == DoneMeansTerminal /\ KilledWasCancelled /\ NotifiedOnceFaithfully

\* A final status never changes, whoever cancels or stops the task later.
StatusSettles ==
  [][\A t \in Tasks : status[t] \in Terminal => status'[t] = status[t]]_vars

\* TaskStop answers even for a task that survives its kill.
StopAnswers ==
  \A c \in Callers : call[c].op = "stop" ~> call[c].at \in {"none", "back", "refused"}

\* A TaskOutput that reads a task which is done returns and says so, in the turn
\* or after it; one that waits while its turn is cancelled returns, done or not.
Reading(c) == call[c].op = "output" /\ call[c].at \in {"read", "poll"}
OutputAnswers ==
  \A c \in Callers :
    /\ Reading(c) /\ done[call[c].task] ~> call[c].at = "back" /\ call[c].final
    /\ Reading(c) /\ turnOver ~> call[c].at = "back"

\* Nobody who uses a task from the turn is left waiting for it.
CallersAnswered == StopAnswers /\ OutputAnswers

\* A cancelled task that can be killed reaches its final status and closes
\* done, so that waiting for it ends.
CancelledTasksEnd ==
  \A t \in Tasks \ Stubborn : at[t] = "run" /\ ctx[t] ~> done[t]
=============================================================================
