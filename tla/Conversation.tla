---------------------------- MODULE Conversation ----------------------------
(***************************************************************************)
(* One stored session and the HTTP requests that use it at the same time:  *)
(* chats, whose runs store their messages row by row (session/store.go)    *)
(* and send events to a reader that leaves with its client                 *)
(* (api/handler.go), and compactions, which replace the messages by a      *)
(* summary of those they read before a long request (compact/compact.go).  *)
(* The run of a chat is AgentLoop without its gates: turns of a call and   *)
(* its result, then an answer.  PostgreSQL is external: READ COMMITTED,    *)
(* with the locks of uncommitted rows.                                     *)
(***************************************************************************)
EXTENDS Naturals, Sequences, FiniteSets, FiniteSetsExt

CONSTANTS
  Chats,     \* requests POST /sessions/:id/chat and POST /chat
  Compacts,  \* requests POST /sessions/:id/compact
  Plans,     \* bounds: which requests are made, and how much each does
  Deltas,    \* bound: events a turn sends while it streams
  EventCap   \* capacity of the event channel (64, loop.go)

Requests == Chats \cup Compacts

ASSUME RequestsAssumption == Chats \cap Compacts = {}

\* turns[r]: turns of r's run at most; r is not made if there are none.
Plan == [turns : [Chats -> Nat], stateless : SUBSET Chats, compacts : SUBSET Compacts,
         leavers : SUBSET Requests]

ASSUME BoundsAssumption ==
  /\ \A plan \in Plans : plan \in Plan
  /\ Deltas \in Nat /\ EventCap \in Nat \ {0}

VARIABLES
  plan,     \* the bounds of this behaviour
  session,  \* the row of the session: "none", "live" or "deleted"
  table,    \* rows of messages: [seq, msg]
  pc,       \* pc[r]: where request r is
  gone,     \* requests whose client has left: their context is cancelled
  kept,     \* chats that use the session (the others are stateless)
  turn,     \* turn[r]: turns of r's run, 0 while its prompt is stored
  answered, \* runs whose last turn was an answer without calls
  batch,    \* batch[r]: messages AppendMessages has still to insert
  max,      \* max[r]: the seq it gave last
  ev,       \* ev[r]: events r's run has to send before it goes on
  unread,   \* unread[r]: events in its channel
  reader,   \* reader[r]: sseResponse, "off", "on", "left" or "done"
  seen,     \* seen[k]: the chats' messages in what compaction k summarises
  victims,  \* victims[k]: rows the uncommitted DELETE of k has taken
  stored,   \* messages of chats that were ever stored
  mixed     \* a compaction and a chat of the session were once under way together

runVars == <<turn, answered, ev, unread, reader>>
saveVars == <<batch, max>>
compVars == <<seen, victims>>
vars == <<plan, session, table, pc, gone, kept, runVars, saveVars, compVars, stored, mixed>>

Message == [by : Chats, turn : Nat, kind : {"prompt", "call", "result", "answer"}]
Summary == [by : Compacts, kind : {"boundary", "summary"}]
Row == [seq : Nat \ {0}, msg : Message \cup Summary]

Init ==
  /\ plan \in Plans
  /\ session = "none" /\ table = {}
  /\ pc = [r \in Requests |-> "idle"] /\ gone = {} /\ kept = {}
  /\ turn = [r \in Chats |-> 0] /\ answered = {}
  /\ batch = [r \in Chats |-> <<>>] /\ max = [r \in Chats |-> 0]
  /\ ev = [r \in Chats |-> 0] /\ unread = [r \in Chats |-> 0]
  /\ reader = [r \in Chats |-> "off"]
  /\ seen = [k \in Compacts |-> {}] /\ victims = [k \in Compacts |-> {}]
  /\ stored = {} /\ mixed = FALSE

Goto(r, point) == pc' = [pc EXCEPT ![r] = point]
Seqs(rows) == {row.seq : row \in rows}
Msgs(rows) == {row.msg : row \in rows}
MaxSeq == IF table = {} THEN 0 ELSE Max(Seqs(table))

\* The chats' messages that are in the table or behind a summary in it.
Kept == (Msgs(table) \cap Message) \cup
        UNION {seen[k] : k \in {m.by : m \in Msgs(table) \cap Summary}}

Chatting == {r \in kept : pc[r] # "done"}
Compacting == {k \in Compacts : pc[k] \notin {"idle", "done"}}

-----------------------------------------------------------------------------
(* The session's own requests.                                             *)

CreateSession ==
  /\ session = "none" /\ session' = "live"
  /\ UNCHANGED <<plan, table, pc, gone, kept, runVars, saveVars, compVars, stored, mixed>>

\* DELETE cascades to the messages; it waits for a transaction that has
\* their locks.
DeleteSession ==
  /\ session = "live" /\ \A k \in Compacts : pc[k] # "commit"
  /\ session' = "deleted" /\ table' = {}
  /\ UNCHANGED <<plan, pc, gone, kept, runVars, saveVars, compVars, stored, mixed>>

\* The client of a request goes away: its context is cancelled.
Leave(r) ==
  /\ pc[r] \notin {"idle", "done"} /\ r \in plan.leavers \ gone
  /\ gone' = gone \cup {r}
  /\ UNCHANGED <<plan, session, table, pc, kept, runVars, saveVars, compVars, stored, mixed>>

-----------------------------------------------------------------------------
(* AppendMessages.                                                         *)

\* The largest seq of the session, in a statement of its own.
ReadMax(r) ==
  /\ pc[r] = "max" /\ ev[r] = 0 /\ r \notin gone
  /\ max' = [max EXCEPT ![r] = MaxSeq]
  /\ Goto(r, "insert")
  /\ UNCHANGED <<plan, session, table, gone, kept, runVars, batch, compVars, stored, mixed>>

\* The next message becomes a row of its own.
NextRow(r) ==
  /\ max' = [max EXCEPT ![r] = @ + 1]
  /\ batch' = [batch EXCEPT ![r] = Tail(@)]
  /\ stored' = stored \cup {Head(batch[r])}
  /\ Goto(r, IF Len(batch[r]) = 1 THEN "touch" ELSE "insert")
  /\ UNCHANGED <<plan, session, gone, kept, runVars, compVars, mixed>>

\* Mutant of Insert: a row with the same seq is overwritten (an upsert).
InsertOverwrites(r) ==
  LET row == [seq |-> max[r] + 1, msg |-> Head(batch[r])]
  IN  /\ pc[r] = "insert" /\ r \notin gone /\ session = "live"
      /\ table' = {row} \cup {old \in table : old.seq # row.seq}
      /\ NextRow(r)

\* Mutant of Insert: nothing makes seq unique.
InsertDuplicates(r) ==
  LET row == [seq |-> max[r] + 1, msg |-> Head(batch[r])]
  IN  /\ pc[r] = "insert" /\ r \notin gone /\ session = "live"
      /\ table' = table \cup {row}
      /\ NextRow(r)

\* UNIQUE(session_id, seq) and the reference to the session let the insert
\* fail; it waits while a transaction holds its seq.
Insert(r) ==
  LET row == [seq |-> max[r] + 1, msg |-> Head(batch[r])]
  IN  /\ pc[r] = "insert" /\ r \notin gone /\ session = "live"
      /\ row.seq \notin Seqs(table)
      /\ \A k \in Compacts : pc[k] = "commit" => row.seq \notin Seqs(victims[k]) \cup 1 .. 2
      /\ table' = table \cup {row}
      /\ NextRow(r)

\* After a save: the prompt starts the run, with a reader for its events; a
\* turn ends the run with its last event or goes on.
GoOn(r) ==
  IF turn[r] = 0
  THEN Goto(r, "run") /\ reader' = [reader EXCEPT ![r] = "on"] /\ UNCHANGED ev
  ELSE /\ Goto(r, IF r \in answered THEN "end" ELSE "run")
       /\ ev' = [ev EXCEPT ![r] = IF r \in answered THEN 1 ELSE 0]
       /\ UNCHANGED reader

\* The session's updated_at.
Touch(r) ==
  /\ pc[r] = "touch" /\ r \notin gone
  /\ GoOn(r)
  /\ UNCHANGED <<plan, session, table, gone, kept, turn, answered, unread, saveVars, compVars,
                 stored, mixed>>

\* A statement fails, by itself or because the client has left: the prompt is
\* answered with a 500, a turn with a warning.
SaveFails(r) ==
  /\ pc[r] \in {"max", "insert", "touch"} /\ ev[r] = 0
  /\ batch' = [batch EXCEPT ![r] = <<>>]
  /\ IF turn[r] = 0
     THEN Goto(r, "done") /\ UNCHANGED ev
     ELSE /\ Goto(r, IF r \in answered THEN "end" ELSE "run")
          /\ ev' = [ev EXCEPT ![r] = IF r \in answered THEN 2 ELSE 1]
  /\ UNCHANGED <<plan, session, table, gone, kept, turn, answered, unread, reader, max, compVars,
                 stored, mixed>>

-----------------------------------------------------------------------------
(* Chats.                                                                  *)

\* POST /chat: the run has no session.
ChatSSE(r) ==
  /\ pc[r] = "idle" /\ plan.turns[r] > 0 /\ r \in plan.stateless
  /\ Goto(r, "run") /\ reader' = [reader EXCEPT ![r] = "on"]
  /\ UNCHANGED <<plan, session, table, gone, kept, turn, answered, ev, unread, saveVars, compVars,
                 stored, mixed>>

\* POST /sessions/:id/chat: Get, LoadMessages and the prompt to store.
SessionChatSSE(r) ==
  /\ pc[r] = "idle" /\ plan.turns[r] > 0 /\ r \notin plan.stateless /\ session # "none"
  /\ IF session = "live"
     THEN /\ Goto(r, "max") /\ kept' = kept \cup {r}
          /\ batch' = [batch EXCEPT ![r] = <<[by |-> r, turn |-> 0, kind |-> "prompt"]>>]
          /\ mixed' = (mixed \/ Compacting # {})
     ELSE Goto(r, "done") /\ UNCHANGED <<kept, batch, mixed>>
  /\ UNCHANGED <<plan, session, table, gone, runVars, max, compVars, stored>>

\* The top of the loop: a cancelled run ends with an error event.
StartTurn(r) ==
  /\ pc[r] = "run" /\ ev[r] = 0
  /\ IF r \in gone
     THEN Goto(r, "end") /\ ev' = [ev EXCEPT ![r] = 1] /\ UNCHANGED turn
     ELSE /\ turn[r] < plan.turns[r]
          /\ Goto(r, "stream") /\ turn' = [turn EXCEPT ![r] = @ + 1]
          /\ ev' = [ev EXCEPT ![r] = Deltas]
  /\ UNCHANGED <<plan, session, table, gone, kept, answered, unread, reader, saveVars, compVars,
                 stored, mixed>>

\* The turn is over: calls and their results, or the answer that ends the run
\* and that the model gives in the last turn of the bound.
Reply(r) ==
  LET msg(kind) == [by |-> r, turn |-> turn[r], kind |-> kind]
  IN  /\ pc[r] = "stream" /\ ev[r] = 0 /\ r \notin gone
      /\ \/ /\ turn[r] < plan.turns[r] /\ UNCHANGED answered
            /\ batch' = [batch EXCEPT ![r] = IF r \in kept THEN <<msg("call"), msg("result")>> ELSE @]
            /\ Goto(r, IF r \in kept THEN "max" ELSE "run") /\ UNCHANGED ev
         \/ /\ answered' = answered \cup {r}
            /\ batch' = [batch EXCEPT ![r] = IF r \in kept THEN <<msg("answer")>> ELSE @]
            /\ Goto(r, IF r \in kept THEN "max" ELSE "end")
            /\ ev' = [ev EXCEPT ![r] = IF r \in kept THEN 0 ELSE 1]
      /\ UNCHANGED <<plan, session, table, gone, kept, turn, unread, reader, max, compVars, stored,
                     mixed>>

\* The stream breaks, or the client has left: an error event is the last,
\* after the warning of a save under the cancelled context.
BreakOff(r) ==
  /\ pc[r] = "stream" /\ ev[r] = 0
  /\ Goto(r, "end") /\ \E n \in 1 .. 2 : ev' = [ev EXCEPT ![r] = n]
  /\ UNCHANGED <<plan, session, table, gone, kept, turn, answered, unread, reader, saveVars,
                 compVars, stored, mixed>>

\* The run returns and its channel is closed.
End(r) ==
  /\ pc[r] = "end" /\ ev[r] = 0
  /\ Goto(r, "done")
  /\ UNCHANGED <<plan, session, table, gone, kept, runVars, saveVars, compVars, stored, mixed>>

\* The run sends an event; it blocks while the channel is full.
Send(r) ==
  /\ ev[r] > 0 /\ unread[r] < EventCap
  /\ ev' = [ev EXCEPT ![r] = @ - 1] /\ unread' = [unread EXCEPT ![r] = @ + 1]
  /\ UNCHANGED <<plan, session, table, pc, gone, kept, turn, answered, reader, saveVars, compVars,
                 stored, mixed>>

\* Mutant of Read: a response that was flushed once is taken to be over.
ReadOnce(r) ==
  /\ reader[r] = "on" /\ unread[r] > 0
  /\ unread' = [unread EXCEPT ![r] = @ - 1]
  /\ reader' = [reader EXCEPT ![r] = "left"]
  /\ UNCHANGED <<plan, session, table, pc, gone, kept, turn, answered, ev, saveVars, compVars,
                 stored, mixed>>

\* sseResponse writes an event and then looks whether its client has left.
Read(r) ==
  /\ reader[r] = "on" /\ unread[r] > 0
  /\ unread' = [unread EXCEPT ![r] = @ - 1]
  /\ reader' = [reader EXCEPT ![r] = IF r \in gone THEN "left" ELSE @]
  /\ UNCHANGED <<plan, session, table, pc, gone, kept, turn, answered, ev, saveVars, compVars,
                 stored, mixed>>

\* The channel is closed and empty: [DONE].
ReadEnd(r) ==
  /\ reader[r] = "on" /\ unread[r] = 0 /\ pc[r] = "done"
  /\ reader' = [reader EXCEPT ![r] = "done"]
  /\ UNCHANGED <<plan, session, table, pc, gone, kept, turn, answered, ev, unread, saveVars,
                 compVars, stored, mixed>>

-----------------------------------------------------------------------------
(* Compactions.                                                            *)

\* Get and LoadMessages; fewer than two messages are refused.
SessionCompactSSE(k) ==
  /\ pc[k] = "idle" /\ k \in plan.compacts /\ session # "none"
  /\ IF session = "live" /\ Cardinality(table) >= 2
     THEN /\ Goto(k, "summarise")
          /\ seen' = [seen EXCEPT ![k] = Kept]
          /\ mixed' = (mixed \/ Chatting # {})
     ELSE Goto(k, "done") /\ UNCHANGED <<seen, mixed>>
  /\ UNCHANGED <<plan, session, table, gone, kept, runVars, saveVars, victims, stored>>

\* The request for the summary.
Compact(k) ==
  /\ pc[k] = "summarise" /\ k \notin gone
  /\ Goto(k, "replace")
  /\ UNCHANGED <<plan, session, table, gone, kept, runVars, saveVars, compVars, stored, mixed>>

\* ReplaceMessages deletes the rows its statement sees ...
ReplaceDelete(k) ==
  /\ pc[k] = "replace" /\ k \notin gone
  /\ victims' = [victims EXCEPT ![k] = table]
  /\ Goto(k, "commit")
  /\ UNCHANGED <<plan, session, table, gone, kept, runVars, saveVars, seen, stored, mixed>>

\* The rows of the new messages.
NewRows(k) == {[seq |-> 1, msg |-> [by |-> k, kind |-> "boundary"]],
               [seq |-> 2, msg |-> [by |-> k, kind |-> "summary"]]}

\* Mutant of ReplaceCommit: the new rows go behind what is there.
ReplaceCommitLast(k) ==
  LET rest == table \ victims[k]
      last == IF rest = {} THEN 0 ELSE Max(Seqs(rest))
  IN  /\ pc[k] = "commit" /\ k \notin gone /\ session = "live"
      /\ table' = rest \cup {[row EXCEPT !.seq = @ + last] : row \in NewRows(k)}
      /\ victims' = [victims EXCEPT ![k] = {}]
      /\ Goto(k, "done")
      /\ UNCHANGED <<plan, session, gone, kept, runVars, saveVars, seen, stored, mixed>>

\* ... and inserts the new messages from seq 1 in the same transaction: a row
\* that came in since the DELETE stays, or lets the transaction fail.
ReplaceCommit(k) ==
  LET rest == table \ victims[k]
  IN  /\ pc[k] = "commit" /\ k \notin gone /\ session = "live"
      /\ Seqs(rest) \cap 1 .. 2 = {}
      /\ table' = rest \cup NewRows(k)
      /\ victims' = [victims EXCEPT ![k] = {}]
      /\ Goto(k, "done")
      /\ UNCHANGED <<plan, session, gone, kept, runVars, saveVars, seen, stored, mixed>>

\* The provider, a statement or the commit fails, or the client has left:
\* the transaction is rolled back.
CompactFails(k) ==
  /\ pc[k] \in {"summarise", "replace", "commit"}
  /\ victims' = [victims EXCEPT ![k] = {}]
  /\ Goto(k, "done")
  /\ UNCHANGED <<plan, session, table, gone, kept, runVars, saveVars, seen, stored, mixed>>

-----------------------------------------------------------------------------
ChatStep(r) ==
  \/ ReadMax(r) \/ Insert(r) \/ Touch(r) \/ SaveFails(r)
  \/ StartTurn(r) \/ Reply(r) \/ BreakOff(r) \/ End(r) \/ Send(r)

CompactStep(k) == Compact(k) \/ ReplaceDelete(k) \/ ReplaceCommit(k) \/ CompactFails(k)

ReaderStep(r) == Read(r) \/ ReadEnd(r)

Next ==
  \/ CreateSession \/ DeleteSession
  \/ \E r \in Requests : Leave(r)
  \/ \E r \in Chats : ChatSSE(r) \/ SessionChatSSE(r) \/ ChatStep(r) \/ ReaderStep(r)
  \/ \E k \in Compacts : SessionCompactSSE(k) \/ CompactStep(k)

\* Goroutines run; providers, tools and the database answer or fail.
Spec ==
  /\ Init /\ [][Next]_vars
  /\ \A r \in Chats : WF_vars(ChatStep(r)) /\ WF_vars(ReaderStep(r))
  /\ \A k \in Compacts : WF_vars(CompactStep(k))

-----------------------------------------------------------------------------
(* Properties.                                                             *)

Points == {"idle", "max", "insert", "touch", "run", "stream", "end", "summarise", "replace",
           "commit", "done"}

\* The shape of the state; a seq is given to one row.
TypeOK ==
  /\ plan \in Plans
  /\ session \in {"none", "live", "deleted"}
  /\ table \subseteq Row
  /\ \A row, other \in table : row.seq = other.seq => row = other
  /\ pc \in [Requests -> Points] /\ gone \subseteq Requests /\ kept \subseteq Chats
  /\ turn \in [Chats -> Nat] /\ answered \subseteq Chats
  /\ batch \in [Chats -> Seq(Message)] /\ max \in [Chats -> Nat]
  /\ ev \in [Chats -> 0 .. Deltas + 2] /\ unread \in [Chats -> 0 .. EventCap]
  /\ reader \in [Chats -> {"off", "on", "left", "done"}]
  /\ \A k \in Compacts : seen[k] \subseteq Message
  /\ \A k \in Compacts : victims[k] \subseteq Row
  /\ stored \subseteq Message /\ mixed \in BOOLEAN

\* m precedes n in the conversation of one chat.
Precedes(m, n) ==
  m.by = n.by /\ (m.turn < n.turn \/ (m.turn = n.turn /\ m.kind = "call" /\ n.kind = "result"))

\* Whatever compactions leave of the rows and however saves interleave, the
\* messages of a chat are loaded in the order they were made, and a summary
\* before all that was not summarised.
LoadedInOrder ==
  \A row, other \in table :
    \/ row.msg \in Message /\ other.msg \in Message /\ Precedes(row.msg, other.msg)
    \/ row.msg \in Summary /\ other.msg \in Message
    => row.seq < other.seq

\* Chats that store at the same time may lose a save to each other, but never
\* a row that was stored: while no compaction was under way together with a
\* chat, each stored message is in the table or behind a summary, and no
\* result was stored without its call.
NothingLost ==
  ~mixed =>
    /\ session = "live" => stored \subseteq Kept
    /\ \A m \in stored : m.kind = "result" => [m EXCEPT !.kind = "call"] \in stored

\* What is in the store is the conversation: in its order, and with nothing lost.
StoreSound == LoadedInOrder /\ NothingLost

\* A run ends, except one whose reader has left it with a full channel: it
\* blocks for ever (the handler does not drain the channel it leaves).
RunsEnd ==
  \A r \in Chats : reader[r] = "on" ~> \/ pc[r] = "done"
                                       \/ reader[r] = "left" /\ r \in gone /\ unread[r] = EventCap
=============================================================================
