-------------------------- MODULE ConversationProofs --------------------------
(***************************************************************************)
(* Type correctness of a stored session and its requests, and that what is *)
(* stored is the conversation: in its order, and with nothing lost.  For   *)
(* any chats and compactions and any plan of turns, saves that interleave  *)
(* or fail at any statement, clients that leave and a session that is      *)
(* deleted under them.                                                     *)
(***************************************************************************)
EXTENDS Conversation, WellFoundedInduction, TLAPS

ChatPoints == {"idle", "max", "insert", "touch", "run", "stream", "end", "done"}
CompactPoints == {"idle", "summarise", "replace", "commit", "done"}

\* What Points allows for all requests, told apart for chats and compactions.
Places ==
  /\ pc \in [Requests -> Points]
  /\ \A r \in Chats : pc[r] \in ChatPoints
  /\ \A k \in Compacts : pc[k] \in CompactPoints
  /\ kept \subseteq Chats
  /\ \A r \in Chats : /\ pc[r] \in {"max", "insert", "touch"} => r \in kept
                      /\ pc[r] = "idle" => r \notin kept

\* Chats, readers and what is fixed.
Runs ==
  /\ plan \in Plans /\ session \in {"none", "live", "deleted"}
  /\ gone \subseteq Requests /\ mixed \in BOOLEAN
  /\ turn \in [Chats -> Nat] /\ answered \subseteq Chats
  /\ ev \in [Chats -> 0 .. Deltas + 2] /\ unread \in [Chats -> 0 .. EventCap]
  /\ reader \in [Chats -> {"off", "on", "left", "done"}]

Msg(r, kind) == [by |-> r, turn |-> turn[r], kind |-> kind]

\* Before a chat saves, it has stored messages of earlier turns only; a save
\* puts in the prompt, or the messages of the turn in their order.
Saves(r) ==
  /\ pc[r] \in {"idle", "stream", "max"} =>
       \A m \in stored : m.by = r => m.turn < turn[r]
  /\ pc[r] \in {"max", "insert"} =>
       \/ batch[r] = <<Msg(r, "prompt")>>
       \/ batch[r] = <<Msg(r, "call"), Msg(r, "result")>>
       \/ batch[r] = <<Msg(r, "answer")>>
       \/ pc[r] = "insert" /\ batch[r] = <<Msg(r, "result")>> /\ Msg(r, "call") \in stored
  /\ pc[r] = "insert" =>
       \A m \in stored : m.by = r =>
         m.turn < turn[r] \/ (m = Msg(r, "call") /\ batch[r] = <<Msg(r, "result")>>)
  /\ \A m \in stored : m.by = r => m.turn <= turn[r]
  /\ pc[r] = "idle" => turn[r] = 0

Turns ==
  /\ batch \in [Chats -> Seq(Message)] /\ max \in [Chats -> Nat]
  /\ stored \subseteq Message
  /\ \A r \in Chats : Saves(r)
  /\ \A m \in stored : m.kind = "result" => [m EXCEPT !.kind = "call"] \in stored

\* The rows: each seq once, the messages among those stored, and those of a
\* chat that is inserting not beyond the seq it found or gave last.  A summary
\* is there with both its rows, the first two.
Rows ==
  /\ table \subseteq Row
  /\ \A row, other \in table : row.seq = other.seq => row = other
  /\ \E n \in Nat : \A row \in table : row.seq <= n
  /\ Msgs(table) \cap Message \subseteq stored
  /\ \A r \in Chats : pc[r] = "insert" =>
       \A row \in table : row.msg \in Message /\ row.msg.by = r => row.seq <= max[r]
  /\ \A row \in table : row.msg \in Summary =>
       /\ row \in NewRows(row.msg.by) /\ NewRows(row.msg.by) \subseteq table
       /\ pc[row.msg.by] = "done"

Views ==
  /\ \A k \in Compacts : seen[k] \subseteq Message
  /\ \A k \in Compacts : victims[k] \subseteq Row
  /\ DOMAIN seen = Compacts /\ DOMAIN victims = Compacts

Whole ==
  /\ session = "none" => stored = {}
  /\ ~mixed => Chatting = {} \/ Compacting = {}
  /\ ~mixed /\ session = "live" =>
       stored \subseteq Kept /\ \A k \in Compacting : stored \subseteq seen[k]

IInv == Places /\ Runs /\ Turns /\ Rows /\ LoadedInOrder /\ Views /\ Whole

-----------------------------------------------------------------------------
(* The largest seq.                                                        *)

LEMMA MaxIsThere ==
  ASSUME NEW S \in SUBSET Nat, S # {}, NEW n \in Nat, \A s \in S : s <= n
  PROVE  Max(S) \in S /\ \A s \in S : s <= Max(S)
<1> DEFINE B == {b \in Nat : \A s \in S : s <= b}
<1>1. n \in B /\ B \subseteq Nat
  OBVIOUS
<1>2. PICK b \in B : \A c \in B : ~(<<c, b>> \in OpToRel(<, Nat))
  BY <1>1, NatLessThanWellFounded, WFMin
<1>3. \A c \in B : ~(c < b)
  BY <1>1, <1>2 DEF OpToRel
<1>4. b \in S
  <2> SUFFICES ASSUME b \notin S PROVE FALSE
    OBVIOUS
  <2>1. \A s \in S : s <= b - 1
    OBVIOUS
  <2>2. PICK s \in S : TRUE
    OBVIOUS
  <2>3. b - 1 \in Nat
    BY <2>1, <2>2
  <2>4. b - 1 \in B
    BY <2>1, <2>3
  <2> QED
    BY <1>3, <2>4
<1>5. \A s \in S : b >= s
  OBVIOUS
<1> HIDE DEF B
<1>6. \E x \in S : \A y \in S : x >= y
  BY <1>4, <1>5
<1>7. Max(S) \in S /\ \A y \in S : Max(S) >= y
  BY <1>6 DEF Max
<1> QED
  BY <1>7

LEMMA MaxSeqAt ==
  ASSUME Rows
  PROVE  MaxSeq \in Nat /\ \A row \in table : row.seq <= MaxSeq
<1>1. table \subseteq Row /\ \A row \in table : row.seq \in Nat
  BY DEF Rows, Row
<1>2. PICK n \in Nat : \A row \in table : row.seq <= n
  BY DEF Rows
<1>3. CASE table = {}
  BY <1>3 DEF MaxSeq
<1>4. CASE table # {}
  <2>1. Seqs(table) \in SUBSET Nat /\ Seqs(table) # {} /\ \A s \in Seqs(table) : s <= n
    BY <1>1, <1>2, <1>4 DEF Seqs
  <2>2. Max(Seqs(table)) \in Seqs(table) /\ \A s \in Seqs(table) : s <= Max(Seqs(table))
    BY <2>1, MaxIsThere
  <2>3. MaxSeq = Max(Seqs(table))
    BY <1>4 DEF MaxSeq
  <2> QED
    BY <2>1, <2>2, <2>3 DEF Seqs
<1> QED
  BY <1>3, <1>4

-----------------------------------------------------------------------------
(* Where the requests are.                                                 *)

ChatMoves(r) ==
  \E p \in ChatPoints \ {"idle"} :
    /\ Goto(r, p)
    /\ p \in {"max", "insert", "touch"} => r \in kept'
    /\ kept' = kept \/ kept' = kept \cup {r}

CompactMoves(k) == UNCHANGED kept /\ \E p \in CompactPoints \ {"idle"} : Goto(k, p)

LEMMA PlaceSteps ==
  ASSUME Places, [Next]_vars
  PROVE  \/ UNCHANGED <<pc, kept>>
         \/ \E r \in Chats : ChatMoves(r)
         \/ \E k \in Compacts : CompactMoves(k)
<1>1. CASE UNCHANGED vars
  BY <1>1 DEF vars
<1>2. CASE CreateSession \/ DeleteSession
  BY <1>2 DEF CreateSession, DeleteSession
<1>3. ASSUME NEW r \in Requests, Leave(r) PROVE UNCHANGED <<pc, kept>>
  BY <1>3 DEF Leave
<1>4. ASSUME NEW r \in Chats, ChatSSE(r) \/ SessionChatSSE(r) \/ ChatStep(r) \/ ReaderStep(r)
      PROVE  UNCHANGED <<pc, kept>> \/ ChatMoves(r)
  <2> USE DEF ChatMoves, ChatPoints
  <2>0. pc[r] \in {"max", "insert", "touch"} => r \in kept
    BY DEF Places
  <2>1. CASE ChatSSE(r)
    BY <2>1 DEF ChatSSE
  <2>2. CASE SessionChatSSE(r)
    <3>1. CASE session = "live"
      BY <2>2, <3>1 DEF SessionChatSSE
    <3>2. CASE session # "live"
      BY <2>2, <3>2 DEF SessionChatSSE
    <3> QED
      BY <3>1, <3>2
  <2>3. CASE ReadMax(r)
    BY <2>0, <2>3 DEF ReadMax
  <2>4. CASE Insert(r)
    <3>1. CASE Len(batch[r]) = 1
      BY <2>0, <2>4, <3>1 DEF Insert, NextRow
    <3>2. CASE Len(batch[r]) # 1
      BY <2>0, <2>4, <3>2 DEF Insert, NextRow
    <3> QED
      BY <3>1, <3>2
  <2>5. CASE Touch(r)
    <3>1. Goto(r, "run") \/ Goto(r, "end")
      BY <2>5 DEF Touch, GoOn
    <3> QED
      BY <2>5, <3>1 DEF Touch
  <2>6. CASE SaveFails(r)
    <3>1. Goto(r, "run") \/ Goto(r, "end") \/ Goto(r, "done")
      BY <2>6 DEF SaveFails
    <3> QED
      BY <2>6, <3>1 DEF SaveFails
  <2>7. CASE StartTurn(r)
    <3>1. Goto(r, "end") \/ Goto(r, "stream")
      BY <2>7 DEF StartTurn
    <3> QED
      BY <2>7, <3>1 DEF StartTurn
  <2>8. CASE Reply(r)
    <3>1. (Goto(r, "max") /\ r \in kept) \/ Goto(r, "run") \/ Goto(r, "end")
      BY <2>8 DEF Reply
    <3>2. UNCHANGED kept
      BY <2>8 DEF Reply
    <3> QED
      BY <3>1, <3>2
  <2>9. CASE BreakOff(r) \/ End(r)
    BY <2>9 DEF BreakOff, End
  <2>10. CASE Send(r) \/ ReaderStep(r)
    BY <2>10 DEF Send, ReaderStep, Read, ReadEnd
  <2> QED
    BY <1>4, <2>1, <2>2, <2>3, <2>4, <2>5, <2>6, <2>7, <2>8, <2>9, <2>10 DEF ChatStep
<1>5. ASSUME NEW k \in Compacts, SessionCompactSSE(k) \/ CompactStep(k)
      PROVE  CompactMoves(k)
  <2>1. \E p \in CompactPoints \ {"idle"} : Goto(k, p)
    BY <1>5 DEF SessionCompactSSE, CompactStep, Compact, ReplaceDelete, ReplaceCommit, CompactFails,
                CompactPoints
  <2>2. UNCHANGED kept
    BY <1>5 DEF SessionCompactSSE, CompactStep, Compact, ReplaceDelete, ReplaceCommit, CompactFails
  <2> QED
    BY <2>1, <2>2 DEF CompactMoves
<1> QED
  BY <1>1, <1>2, <1>3, <1>4, <1>5 DEF Next

LEMMA PlacesNext == Places /\ [Next]_vars => Places'
<1> SUFFICES ASSUME Places, [Next]_vars PROVE Places'
  OBVIOUS
<1> USE RequestsAssumption DEF Requests, Places, Goto
<1>1. CASE UNCHANGED <<pc, kept>>
  BY <1>1
<1>2. ASSUME NEW r \in Chats, ChatMoves(r) PROVE Places'
  BY <1>2 DEF ChatMoves, ChatPoints, Points
<1>3. ASSUME NEW k \in Compacts, CompactMoves(k) PROVE Places'
  BY <1>3 DEF CompactMoves, CompactPoints, Points
<1> QED
  BY <1>1, <1>2, <1>3, PlaceSteps

-----------------------------------------------------------------------------
(* The runs, their channels and readers.                                   *)

LEMMA RunsNext == Runs /\ [Next]_vars => Runs'
<1> SUFFICES ASSUME Runs, [Next]_vars PROVE Runs'
  OBVIOUS
<1>a. Deltas \in Nat /\ EventCap \in Nat
  BY BoundsAssumption
<1>1. CASE UNCHANGED vars
  BY <1>1 DEF Runs, vars, runVars
<1>2. CASE CreateSession \/ DeleteSession
  BY <1>2 DEF CreateSession, DeleteSession, Runs, runVars
<1>3. ASSUME NEW r \in Requests, Leave(r) PROVE Runs'
  BY <1>3 DEF Leave, Runs, runVars
<1>4. ASSUME NEW r \in Chats, ChatSSE(r) \/ SessionChatSSE(r) \/ ChatStep(r) \/ ReaderStep(r)
      PROVE  Runs'
  <2>1. CASE ChatSSE(r)
    BY <2>1 DEF ChatSSE, Runs
  <2>2. CASE SessionChatSSE(r)
    <3>1. UNCHANGED <<plan, session, gone, runVars>> /\ mixed' \in BOOLEAN
      BY <2>2, Zenon DEF SessionChatSSE, Runs
    <3> QED
      BY <3>1 DEF Runs, runVars
  <2>3. CASE ReadMax(r) \/ End(r)
    BY <2>3 DEF ReadMax, End, Runs, runVars
  <2>4. CASE Insert(r)
    BY <2>4 DEF Insert, NextRow, Runs, runVars
  <2>5. CASE Touch(r)
    <3>1. \/ reader' = [reader EXCEPT ![r] = "on"] /\ UNCHANGED ev
          \/ UNCHANGED reader /\ ev' = [ev EXCEPT ![r] = 1]
          \/ UNCHANGED reader /\ ev' = [ev EXCEPT ![r] = 0]
      BY <2>5 DEF Touch, GoOn
    <3>2. UNCHANGED <<plan, session, gone, mixed, turn, answered, unread>>
      BY <2>5 DEF Touch
    <3> QED
      BY <1>a, <3>1, <3>2 DEF Runs
  <2>6. CASE SaveFails(r)
    <3>1. UNCHANGED ev \/ ev' = [ev EXCEPT ![r] = 2] \/ ev' = [ev EXCEPT ![r] = 1]
      BY <2>6 DEF SaveFails
    <3>2. UNCHANGED <<plan, session, gone, mixed, turn, answered, unread, reader>>
      BY <2>6 DEF SaveFails
    <3> QED
      BY <1>a, <3>1, <3>2 DEF Runs
  <2>7. CASE StartTurn(r)
    <3>1. \/ ev' = [ev EXCEPT ![r] = 1] /\ UNCHANGED turn
          \/ ev' = [ev EXCEPT ![r] = Deltas] /\ turn' = [turn EXCEPT ![r] = @ + 1]
      BY <2>7 DEF StartTurn
    <3>2. UNCHANGED <<plan, session, gone, mixed, answered, unread, reader>>
      BY <2>7 DEF StartTurn
    <3> QED
      BY <1>a, <3>1, <3>2 DEF Runs
  <2>8. CASE Reply(r)
    <3>1. /\ answered' = answered \/ answered' = answered \cup {r}
          /\ UNCHANGED ev \/ ev' = [ev EXCEPT ![r] = 0] \/ ev' = [ev EXCEPT ![r] = 1]
      BY <2>8 DEF Reply
    <3>2. UNCHANGED <<plan, session, gone, mixed, turn, unread, reader>>
      BY <2>8 DEF Reply
    <3> QED
      BY <1>a, <3>1, <3>2 DEF Runs
  <2>9. CASE BreakOff(r)
    <3>1. PICK n \in 1 .. 2 : ev' = [ev EXCEPT ![r] = n]
      BY <2>9 DEF BreakOff
    <3>2. UNCHANGED <<plan, session, gone, mixed, turn, answered, unread, reader>>
      BY <2>9 DEF BreakOff
    <3> QED
      BY <1>a, <3>1, <3>2 DEF Runs
  <2>10. CASE Send(r)
    BY <1>a, <2>10 DEF Send, Runs
  <2>11. CASE ReaderStep(r)
    <3>1. \/ unread[r] > 0 /\ unread' = [unread EXCEPT ![r] = @ - 1]
          \/ UNCHANGED unread
      BY <2>11 DEF ReaderStep, Read, ReadEnd
    <3>2. \/ reader' = [reader EXCEPT ![r] = "left"]
          \/ reader' = [reader EXCEPT ![r] = reader[r]]
          \/ reader' = [reader EXCEPT ![r] = "done"]
      BY <2>11 DEF ReaderStep, Read, ReadEnd
    <3>3. UNCHANGED <<plan, session, gone, mixed, turn, answered, ev>>
      BY <2>11 DEF ReaderStep, Read, ReadEnd
    <3>4. unread' \in [Chats -> 0 .. EventCap]
      BY <1>a, <3>1 DEF Runs
    <3>5. reader' \in [Chats -> {"off", "on", "left", "done"}]
      BY <3>2 DEF Runs
    <3> QED
      BY <3>3, <3>4, <3>5 DEF Runs
  <2> QED
    BY <1>4, <2>1, <2>2, <2>3, <2>4, <2>5, <2>6, <2>7, <2>8, <2>9, <2>10, <2>11 DEF ChatStep
<1>5. ASSUME NEW k \in Compacts, SessionCompactSSE(k) \/ CompactStep(k) PROVE Runs'
  <2>1. UNCHANGED <<plan, session, gone, runVars>>
    BY <1>5 DEF SessionCompactSSE, CompactStep, Compact, ReplaceDelete, ReplaceCommit, CompactFails
  <2>2. mixed' \in BOOLEAN
    BY <1>5, Zenon DEF SessionCompactSSE, CompactStep, Compact, ReplaceDelete, ReplaceCommit,
                       CompactFails, Runs
  <2> QED
    BY <2>1, <2>2 DEF Runs, runVars
<1> QED
  BY <1>1, <1>2, <1>3, <1>4, <1>5 DEF Next

-----------------------------------------------------------------------------
(* What the chats have saved.                                              *)

TurnVars == <<turn, batch, max, stored>>

LEMMA MsgType ==
  ASSUME Runs, NEW r \in Chats, NEW kind \in {"prompt", "call", "result", "answer"}
  PROVE  /\ Msg(r, kind) \in Message
         /\ Msg(r, kind).by = r /\ Msg(r, kind).turn = turn[r] /\ Msg(r, kind).kind = kind
<1>1. turn[r] \in Nat
  BY DEF Runs
<1> QED
  BY <1>1 DEF Msg, Message

\* A step of one chat leaves the saves of the others as they are.
LEMMA OthersSave ==
  ASSUME Turns, NEW r \in Chats, NEW s \in Chats, r # s,
         pc'[s] = pc[s], turn'[s] = turn[s], batch'[s] = batch[s],
         stored \subseteq stored', \A m \in stored' : m.by = s => m \in stored
  PROVE  Saves(s)'
<1>1. Saves(s)
  BY DEF Turns
<1>2. \A kind : Msg(s, kind)' = Msg(s, kind)
  BY DEF Msg
<1> QED
  BY <1>1, <1>2 DEF Saves

\* A step that stores nothing, seen from its chat.
LEMMA TurnsKept ==
  ASSUME Turns, Runs, Places, NEW r \in Chats,
         NEW p \in ChatPoints, Goto(r, p), UNCHANGED <<max, stored>>,
         UNCHANGED turn \/ turn' = [turn EXCEPT ![r] = @ + 1],
         UNCHANGED batch \/ \E b \in Seq(Message) : batch' = [batch EXCEPT ![r] = b],
         Saves(r)'
  PROVE  Turns'
<1>1. \A s \in Chats : s # r => pc'[s] = pc[s] /\ turn'[s] = turn[s] /\ batch'[s] = batch[s]
  BY DEF Goto, Places, Requests, Runs, Turns
<1>2. \A s \in Chats : Saves(s)'
  BY <1>1, OthersSave
<1>3. batch' \in [Chats -> Seq(Message)]
  BY DEF Turns
<1> QED
  BY <1>2, <1>3 DEF Turns

LEMMA TurnsStill ==
  ASSUME Turns, UNCHANGED TurnVars, \A r \in Chats : pc'[r] = pc[r]
  PROVE  Turns'
<1>1. \A r \in Chats : \A kind : Msg(r, kind)' = Msg(r, kind)
  BY DEF Msg, TurnVars
<1>2. ASSUME NEW r \in Chats PROVE Saves(r)'
  BY <1>1 DEF Turns, Saves, TurnVars
<1> QED
  BY <1>2 DEF Turns, TurnVars

LEMMA TurnsSaveStarts ==
  ASSUME Turns, Runs, Places, NEW r \in Chats, SessionChatSSE(r) \/ Reply(r)
  PROVE  Turns'
<1>1. /\ UNCHANGED <<turn, max, stored>> /\ pc'[r] \in ChatPoints
      /\ Saves(r) /\ turn[r] \in Nat
  BY DEF SessionChatSSE, Reply, Turns, Runs, runVars, Goto, Places, Requests, ChatPoints
<1>2. \A kind : Msg(r, kind)' = Msg(r, kind)
  BY <1>1 DEF Msg
<1>3. \A kind \in {"prompt", "call", "result", "answer"} : Msg(r, kind) \in Message
  BY MsgType
<1>4. \A m \in stored : m.by = r => m.turn < turn[r]
  BY DEF SessionChatSSE, Reply, Turns, Saves
<1>5. pc[r] \in {"idle", "stream"} /\ (pc[r] = "idle" => turn[r] = 0)
  BY DEF SessionChatSSE, Reply, Turns, Saves
<1> DEFINE Starts(b) == /\ b \in Seq(Message)
                        /\ b \in {<<Msg(r, "prompt")>>, <<Msg(r, "call"), Msg(r, "result")>>,
                                  <<Msg(r, "answer")>>}
<1>6. ASSUME NEW b, Starts(b), batch' = [batch EXCEPT ![r] = b], Goto(r, "max") PROVE Turns'
  <2>1. pc'[r] = "max" /\ batch'[r] = b
    BY <1>6 DEF Goto, Places, Requests, Turns
  <2>2. Saves(r)'
    BY <1>1, <1>2, <1>4, <1>6, <2>1 DEF Saves
  <2> QED
    BY <1>1, <1>6, <2>2, TurnsKept DEF ChatPoints
<1>7. ASSUME UNCHANGED batch, NEW p \in {"run", "end", "done"}, Goto(r, p) PROVE Turns'
  <2>1. pc'[r] = p
    BY <1>7 DEF Goto, Places, Requests
  <2>2. Saves(r)'
    BY <1>1, <1>7, <2>1 DEF Saves
  <2> QED
    BY <1>1, <1>7, <2>2, TurnsKept DEF ChatPoints
<1>8. CASE SessionChatSSE(r)
  <2>1. CASE session = "live"
    <3>1. turn[r] = 0
      BY <1>5, <1>8 DEF SessionChatSSE
    <3>2. Starts(<<Msg(r, "prompt")>>)
      BY <1>3
    <3>3. batch' = [batch EXCEPT ![r] = <<Msg(r, "prompt")>>] /\ Goto(r, "max")
      BY <1>8, <2>1, <3>1 DEF SessionChatSSE, Msg
    <3> QED
      BY <1>6, <3>2, <3>3
  <2>2. CASE session # "live"
    BY <1>7, <1>8, <2>2 DEF SessionChatSSE
  <2> QED
    BY <2>1, <2>2
<1>9. CASE Reply(r)
  <2>1. Starts(<<Msg(r, "call"), Msg(r, "result")>>) /\ Starts(<<Msg(r, "answer")>>)
    BY <1>3
  <2>2. \/ /\ batch' = [batch EXCEPT ![r] = IF r \in kept THEN <<Msg(r, "call"), Msg(r, "result")>> ELSE @]
           /\ Goto(r, IF r \in kept THEN "max" ELSE "run")
        \/ /\ batch' = [batch EXCEPT ![r] = IF r \in kept THEN <<Msg(r, "answer")>> ELSE @]
           /\ Goto(r, IF r \in kept THEN "max" ELSE "end")
    BY <1>9 DEF Reply, Msg
  <2> HIDE DEF Starts
  <2>3. CASE r \in kept
    BY <1>6, <2>1, <2>2, <2>3
  <2>4. CASE r \notin kept
    <3>1. UNCHANGED batch
      BY <2>2, <2>4 DEF Turns
    <3> QED
      BY <1>7, <2>2, <2>4, <3>1
  <2> QED
    BY <2>3, <2>4
<1> QED
  BY <1>8, <1>9

LEMMA TurnsReadMax ==
  ASSUME Turns, Runs, Places, Rows, NEW r \in Chats, ReadMax(r)
  PROVE  Turns'
<1>1. /\ UNCHANGED <<turn, batch, stored>> /\ pc[r] = "max" /\ Goto(r, "insert")
      /\ max' = [max EXCEPT ![r] = MaxSeq]
  BY DEF ReadMax, runVars
<1>2. \A s \in Chats : s # r => pc'[s] = pc[s] /\ turn'[s] = turn[s] /\ batch'[s] = batch[s]
  BY <1>1 DEF Goto, Places, Requests
<1>3. Saves(r)'
  <2>1. pc'[r] = "insert" /\ \A kind : Msg(r, kind)' = Msg(r, kind)
    BY <1>1 DEF Goto, Places, Requests, Msg
  <2>2. Saves(r)
    BY DEF Turns
  <2> QED
    BY <1>1, <2>1, <2>2 DEF Saves
<1>4. \A s \in Chats : Saves(s)'
  BY <1>1, <1>2, <1>3, OthersSave
<1> QED
  BY <1>1, <1>4, MaxSeqAt DEF Turns

\* The first message of a save becomes a row.
LEMMA HeadAt ==
  ASSUME Turns, Runs, Places, NEW r \in Chats, pc[r] = "insert"
  PROVE  /\ Head(batch[r]) \in Message /\ Head(batch[r]).by = r
         /\ Head(batch[r]).turn = turn[r]
         /\ \A m \in stored : m.by = r =>
              ~Precedes(Head(batch[r]), m) /\ Head(batch[r]) # m
<1>1. Saves(r) /\ turn[r] \in Nat /\ stored \subseteq Message
  BY DEF Turns, Runs
<1>2. \A kind \in {"prompt", "call", "result", "answer"} :
        /\ Msg(r, kind) \in Message
        /\ Msg(r, kind).by = r /\ Msg(r, kind).turn = turn[r] /\ Msg(r, kind).kind = kind
  BY MsgType
<1>3. PICK kind \in {"prompt", "call", "result", "answer"} :
        /\ Head(batch[r]) = Msg(r, kind)
        /\ batch[r] = <<Msg(r, "result")>> => kind = "result"
  BY <1>1, <1>2 DEF Saves
<1>4. ASSUME NEW m \in stored, m.by = r
      PROVE  ~Precedes(Msg(r, kind), m) /\ Msg(r, kind) # m
  <2>1. m.turn < turn[r] \/ (m = Msg(r, "call") /\ kind = "result")
    BY <1>1, <1>3, <1>4 DEF Saves
  <2>2. m.turn \in Nat
    BY <1>1 DEF Message
  <2> QED
    BY <1>1, <1>2, <2>1, <2>2 DEF Precedes
<1> QED
  BY <1>2, <1>3, <1>4

LEMMA TurnsInsert ==
  ASSUME Turns, Runs, Places, NEW r \in Chats, Insert(r)
  PROVE  Turns'
<1> DEFINE m == Head(batch[r])
<1>1. /\ pc[r] = "insert" /\ UNCHANGED turn /\ stored' = stored \cup {m}
      /\ max' = [max EXCEPT ![r] = @ + 1] /\ batch' = [batch EXCEPT ![r] = Tail(@)]
      /\ Goto(r, IF Len(batch[r]) = 1 THEN "touch" ELSE "insert")
  BY DEF Insert, NextRow, runVars
<1>2. m \in Message /\ m.by = r /\ m.turn = turn[r]
  BY <1>1, HeadAt
<1>3. Saves(r) /\ turn[r] \in Nat /\ batch[r] \in Seq(Message)
  BY DEF Turns, Runs
<1>4. \A kind : Msg(r, kind)' = Msg(r, kind)
  BY <1>1 DEF Msg
<1>5. /\ pc'[r] = IF Len(batch[r]) = 1 THEN "touch" ELSE "insert"
      /\ batch'[r] = Tail(batch[r])
      /\ \A s \in Chats : s # r => pc'[s] = pc[s] /\ turn'[s] = turn[s] /\ batch'[s] = batch[s]
  BY <1>1 DEF Goto, Places, Requests, Turns
<1>6. (\E n \in Message : batch[r] = <<n>>) \/ batch[r] = <<Msg(r, "call"), Msg(r, "result")>>
  <2>1. \A kind \in {"prompt", "call", "result", "answer"} : Msg(r, kind) \in Message
    BY MsgType
  <2> QED
    BY <1>1, <1>3, <2>1 DEF Saves
<1>7. Saves(r)'
  <2>1. CASE \E n \in Message : batch[r] = <<n>>
    <3>1. pc'[r] = "touch"
      BY <1>5, <2>1
    <3> QED
      BY <1>1, <1>2, <1>3, <3>1 DEF Saves
  <2>2. CASE batch[r] = <<Msg(r, "call"), Msg(r, "result")>>
    <3>1. m = Msg(r, "call") /\ Tail(batch[r]) = <<Msg(r, "result")>> /\ Len(batch[r]) = 2
      BY <2>2
    <3>2. <<Msg(r, "result")>> # batch[r]
      BY <2>2
    <3>3. pc'[r] = "insert" /\ batch'[r] = <<Msg(r, "result")>> /\ Msg(r, "call") \in stored'
      <4>1. pc'[r] = "insert"
        BY <1>5, <3>1
      <4>2. batch'[r] = <<Msg(r, "result")>>
        BY <1>5, <3>1
      <4>3. Msg(r, "call") \in stored'
        BY <1>1, <3>1
      <4> QED
        BY <4>1, <4>2, <4>3
    <3>4. \A n \in stored' : n.by = r => n.turn < turn[r] \/ n = Msg(r, "call")
      BY <1>1, <1>3, <3>1, <3>2 DEF Saves
    <3>5. \A n \in stored' : n.by = r => n.turn <= turn[r]
      BY <1>1, <1>2, <1>3 DEF Saves
    <3> HIDE DEF m
    <3> QED
      BY <1>1, <1>4, <3>3, <3>4, <3>5 DEF Saves
  <2> QED
    BY <1>6, <2>1, <2>2
<1>8. \A s \in Chats : Saves(s)'
  <2>1. \A s \in Chats : s # r => \A n \in stored' : n.by = s => n \in stored
    BY <1>1, <1>2
  <2> QED
    BY <1>1, <1>5, <1>7, <2>1, OthersSave
<1>9. \A n \in stored' : n.kind = "result" => [n EXCEPT !.kind = "call"] \in stored'
  <2>1. ASSUME m.kind = "result" PROVE [m EXCEPT !.kind = "call"] \in stored
    <3>1. \A kind \in {"prompt", "call", "result", "answer"} : Msg(r, kind).kind = kind
      BY MsgType
    <3>2. m = Msg(r, "result") /\ Msg(r, "call") \in stored
      BY <1>1, <1>3, <2>1, <3>1 DEF Saves
    <3>3. [Msg(r, "result") EXCEPT !.kind = "call"] = Msg(r, "call")
      BY DEF Msg
    <3> QED
      BY <3>2, <3>3
  <2> HIDE DEF m
  <2> QED
    BY <1>1, <2>1 DEF Turns
<1>10. batch' \in [Chats -> Seq(Message)] /\ max' \in [Chats -> Nat] /\ stored' \subseteq Message
  <2>1. Tail(batch[r]) \in Seq(Message)
    <3>1. batch[r] # << >>
      BY <1>6
    <3> QED
      BY <1>3, <3>1
  <2> QED
    BY <1>1, <1>2, <2>1 DEF Turns
<1> QED
  BY <1>8, <1>9, <1>10 DEF Turns

\* The steps in which a chat stores nothing and fetches nothing to store.
LEMMA TurnsGoOn ==
  ASSUME Turns, Runs, Places, NEW r \in Chats,
         ChatSSE(r) \/ Touch(r) \/ SaveFails(r) \/ StartTurn(r) \/ BreakOff(r) \/ End(r)
  PROVE  Turns'
<1>1. UNCHANGED <<max, stored>> /\ Saves(r) /\ turn[r] \in Nat /\ stored \subseteq Message
  BY DEF ChatSSE, Touch, SaveFails, StartTurn, BreakOff, End, saveVars, Turns, Runs
<1>2. << >> \in Seq(Message)
  OBVIOUS
<1>3. ASSUME NEW p \in {"run", "end", "done"}, Goto(r, p), UNCHANGED turn,
             UNCHANGED batch \/ batch' = [batch EXCEPT ![r] = << >>]
      PROVE  Turns'
  <2>1. pc'[r] = p
    BY <1>3 DEF Goto, Places, Requests
  <2>2. Saves(r)'
    BY <1>1, <1>3, <2>1 DEF Saves
  <2> QED
    BY <1>1, <1>2, <1>3, <2>2, TurnsKept DEF ChatPoints
<1>4. CASE ChatSSE(r)
  BY <1>3, <1>4 DEF ChatSSE, saveVars
<1>5. CASE Touch(r)
  BY <1>3, <1>5 DEF Touch, GoOn, saveVars
<1>6. CASE SaveFails(r)
  BY <1>3, <1>6 DEF SaveFails
<1>7. CASE BreakOff(r) \/ End(r)
  BY <1>3, <1>7 DEF BreakOff, End, saveVars, runVars
<1>8. CASE StartTurn(r)
  <2>1. CASE r \in gone
    BY <1>3, <1>8, <2>1 DEF StartTurn, saveVars
  <2>2. CASE r \notin gone
    <3>1. Goto(r, "stream") /\ turn' = [turn EXCEPT ![r] = @ + 1] /\ UNCHANGED batch
      BY <1>8, <2>2 DEF StartTurn, saveVars
    <3>2. pc'[r] = "stream" /\ turn'[r] = turn[r] + 1
      BY <3>1 DEF Goto, Places, Requests, Runs
    <3>3. \A m \in stored : m.by = r => m.turn \in Nat /\ m.turn <= turn[r]
      BY <1>1 DEF Saves, Message
    <3>4. Saves(r)'
      BY <1>1, <3>2, <3>3 DEF Saves
    <3> QED
      BY <1>1, <3>1, <3>4, TurnsKept DEF ChatPoints
  <2> QED
    BY <2>1, <2>2
<1> QED
  BY <1>4, <1>5, <1>6, <1>7, <1>8

LEMMA TurnsNext == Turns /\ Runs /\ Places /\ Rows /\ [Next]_vars => Turns'
<1> SUFFICES ASSUME Turns, Runs, Places, Rows, [Next]_vars PROVE Turns'
  OBVIOUS
<1>1. CASE UNCHANGED vars
  BY <1>1, TurnsStill DEF vars, runVars, saveVars, TurnVars
<1>2. CASE CreateSession \/ DeleteSession
  BY <1>2, TurnsStill DEF CreateSession, DeleteSession, runVars, saveVars, TurnVars
<1>3. ASSUME NEW r \in Requests, Leave(r) PROVE Turns'
  BY <1>3, TurnsStill DEF Leave, runVars, saveVars, TurnVars
<1>4. ASSUME NEW r \in Chats, ChatSSE(r) \/ SessionChatSSE(r) \/ ChatStep(r) \/ ReaderStep(r)
      PROVE  Turns'
  <2>1. CASE SessionChatSSE(r) \/ Reply(r)
    BY <2>1, TurnsSaveStarts
  <2>2. CASE ReadMax(r)
    BY <2>2, TurnsReadMax
  <2>3. CASE Insert(r)
    BY <2>3, TurnsInsert
  <2>4. CASE ChatSSE(r) \/ Touch(r) \/ SaveFails(r) \/ StartTurn(r) \/ BreakOff(r) \/ End(r)
    BY <2>4, TurnsGoOn
  <2>5. CASE Send(r) \/ ReaderStep(r)
    BY <2>5, TurnsStill DEF Send, ReaderStep, Read, ReadEnd, saveVars, TurnVars
  <2> QED
    BY <1>4, <2>1, <2>2, <2>3, <2>4, <2>5 DEF ChatStep
<1>5. ASSUME NEW k \in Compacts, SessionCompactSSE(k) \/ CompactStep(k) PROVE Turns'
  <2>1. \E p \in CompactPoints : Goto(k, p)
    BY <1>5 DEF SessionCompactSSE, CompactStep, Compact, ReplaceDelete, ReplaceCommit, CompactFails,
                CompactPoints
  <2>2. \A r \in Chats : pc'[r] = pc[r]
    BY <2>1, RequestsAssumption DEF Goto, Places, Requests
  <2>3. UNCHANGED TurnVars
    BY <1>5 DEF SessionCompactSSE, CompactStep, Compact, ReplaceDelete, ReplaceCommit, CompactFails,
                runVars, saveVars, TurnVars
  <2> QED
    BY <2>2, <2>3, TurnsStill
<1> QED
  BY <1>1, <1>2, <1>3, <1>4, <1>5 DEF Next

-----------------------------------------------------------------------------
(* The rows.                                                               *)

LEMMA KindsApart == Message \cap Summary = {}
BY DEF Message, Summary

LEMMA NewRowsAt ==
  ASSUME NEW k \in Compacts
  PROVE  /\ NewRows(k) \subseteq Row
         /\ \A row \in NewRows(k) : /\ row.seq \in 1 .. 2 /\ row.msg.by = k
                                    /\ row.msg \in Summary /\ row.msg \notin Message
         /\ \A row, other \in NewRows(k) : row.seq = other.seq => row = other
         /\ \A n \in 1 .. 2 : \E row \in NewRows(k) : row.seq = n
<1> DEFINE b == [by |-> k, kind |-> "boundary"]
           s == [by |-> k, kind |-> "summary"]
<1>1. b \in Summary /\ s \in Summary /\ b.by = k /\ s.by = k
  BY DEF Summary
<1>2. b \notin Message /\ s \notin Message
  BY <1>1, KindsApart
<1>3. NewRows(k) = {[seq |-> 1, msg |-> b], [seq |-> 2, msg |-> s]}
  BY DEF NewRows
<1> HIDE DEF b, s
<1> QED
  BY <1>1, <1>2, <1>3 DEF Row

\* Steps that leave the rows alone and let no chat begin to insert.
LEMMA RowsStill ==
  ASSUME Rows, Places, UNCHANGED <<table, stored, max>>,
         \A r \in Chats : pc'[r] = "insert" => pc[r] = "insert",
         \A k \in Compacts : pc[k] = "done" => pc'[k] = "done"
  PROVE  Rows'
<1>1. \A row \in table : row.msg \in Summary => row.msg.by \in Compacts
  BY DEF Summary
<1> QED
  BY <1>1 DEF Rows, Msgs

LEMMA RowsReadMax ==
  ASSUME Rows, Places, Turns, NEW r \in Chats, ReadMax(r)
  PROVE  Rows'
<1>1. /\ UNCHANGED <<table, stored>> /\ max' = [max EXCEPT ![r] = MaxSeq]
      /\ pc' = [pc EXCEPT ![r] = "insert"]
  BY DEF ReadMax, Goto
<1>2. /\ \A s \in Chats : s # r => pc'[s] = pc[s] /\ max'[s] = max[s]
      /\ \A k \in Compacts : pc'[k] = pc[k]
  BY <1>1, RequestsAssumption DEF Places, Requests, Turns
<1>3. \A s \in Chats : pc'[s] = "insert" =>
        \A row \in table : row.msg \in Message /\ row.msg.by = s => row.seq <= max'[s]
  <2>1. max'[r] = MaxSeq
    BY <1>1 DEF Turns
  <2> QED
    BY <1>2, <2>1, MaxSeqAt DEF Rows
<1>4. \A row \in table : row.msg \in Summary => row.msg.by \in Compacts
  BY DEF Summary
<1> QED
  BY <1>1, <1>2, <1>3, <1>4 DEF Rows, Msgs

LEMMA RowsInsert ==
  ASSUME Rows, Places, Runs, Turns, NEW r \in Chats, Insert(r)
  PROVE  Rows'
<1> DEFINE row == [seq |-> max[r] + 1, msg |-> Head(batch[r])]
           p == IF Len(batch[r]) = 1 THEN "touch" ELSE "insert"
<1>1. /\ pc[r] = "insert" /\ row.seq \notin Seqs(table) /\ table' = table \cup {row}
      /\ stored' = stored \cup {row.msg} /\ max' = [max EXCEPT ![r] = @ + 1]
      /\ pc' = [pc EXCEPT ![r] = p]
  BY DEF Insert, NextRow, Goto
<1>2. row.msg \in Message /\ row.msg.by = r /\ row.seq = max[r] + 1
  BY <1>1, HeadAt
<1>3. max[r] \in Nat /\ row \in Row
  BY <1>2 DEF Turns, Row
<1>4. /\ \A s \in Chats : s # r => pc'[s] = pc[s] /\ max'[s] = max[s]
      /\ \A k \in Compacts : pc'[k] = pc[k]
      /\ max'[r] = max[r] + 1
  BY <1>1, RequestsAssumption DEF Places, Requests, Turns
<1> HIDE DEF row, p
<1>5. row.msg \notin Summary
  BY <1>2, KindsApart
<1>6. table' \subseteq Row /\ \A one, other \in table' : one.seq = other.seq => one = other
  BY <1>1, <1>3 DEF Rows, Seqs
<1>7. \E n \in Nat : \A one \in table' : one.seq <= n
  <2>1. PICK n \in Nat : \A one \in table : one.seq <= n
    BY DEF Rows
  <2>2. \A one \in table : one.seq \in Nat
    BY DEF Rows, Row
  <2>3. n + row.seq \in Nat /\ \A one \in table' : one.seq <= n + row.seq
    BY <1>1, <1>2, <1>3, <2>1, <2>2
  <2> QED
    BY <2>3
<1>8. Msgs(table') \cap Message \subseteq stored'
  BY <1>1 DEF Rows, Msgs
<1>9. ASSUME NEW s \in Chats, pc'[s] = "insert", NEW one \in table',
             one.msg \in Message, one.msg.by = s
      PROVE  one.seq <= max'[s]
  <2>1. CASE s = r
    <3>1. CASE one = row
      BY <1>2, <1>3, <1>4, <2>1, <3>1
    <3>2. CASE one # row
      <4>1. one \in table /\ one.seq \in Nat
        BY <1>1, <3>2 DEF Rows, Row
      <4>2. one.seq <= max[r]
        BY <1>1, <1>9, <2>1, <4>1 DEF Rows
      <4> QED
        BY <1>3, <1>4, <2>1, <4>1, <4>2
    <3> QED
      BY <3>1, <3>2
  <2>2. CASE s # r
    BY <1>1, <1>2, <1>4, <1>9, <2>2 DEF Rows
  <2> QED
    BY <2>1, <2>2
<1>10. \A one \in table' : one.msg \in Summary =>
         /\ one \in NewRows(one.msg.by) /\ NewRows(one.msg.by) \subseteq table'
         /\ pc'[one.msg.by] = "done"
  <2>1. \A one \in table : one.msg \in Summary => one.msg.by \in Compacts
    BY DEF Summary
  <2> QED
    BY <1>1, <1>4, <1>5, <2>1 DEF Rows
<1> QED
  BY <1>6, <1>7, <1>8, <1>9, <1>10 DEF Rows

LEMMA RowsCommit ==
  ASSUME Rows, Places, NEW k \in Compacts, ReplaceCommit(k)
  PROVE  Rows'
<1> DEFINE rest == table \ victims[k]
<1>1. /\ Seqs(rest) \cap 1 .. 2 = {} /\ table' = rest \cup NewRows(k)
      /\ UNCHANGED <<stored, max>> /\ pc' = [pc EXCEPT ![k] = "done"]
  BY DEF ReplaceCommit, Goto, saveVars
<1>2. rest \subseteq table /\ \A row \in rest : row.seq \notin 1 .. 2
  BY <1>1 DEF Seqs
<1> HIDE DEF rest
<1>3. /\ \A r \in Chats : pc'[r] = pc[r]
      /\ pc'[k] = "done"
  BY <1>1, RequestsAssumption DEF Places, Requests
<1>4. table' \subseteq Row /\ \A row, other \in table' : row.seq = other.seq => row = other
  BY <1>1, <1>2, NewRowsAt DEF Rows
<1>5. \E n \in Nat : \A row \in table' : row.seq <= n
  <2>1. PICK n \in Nat : \A row \in table : row.seq <= n
    BY DEF Rows
  <2>2. \A row \in table : row.seq \in Nat
    BY DEF Rows, Row
  <2>3. n + 2 \in Nat /\ \A row \in table' : row.seq <= n + 2
    BY <1>1, <1>2, <2>1, <2>2, NewRowsAt
  <2> QED
    BY <2>3
<1>6. Msgs(table') \cap Message \subseteq stored'
  BY <1>1, <1>2, NewRowsAt DEF Rows, Msgs
<1>7. \A r \in Chats : pc'[r] = "insert" =>
        \A row \in table' : row.msg \in Message /\ row.msg.by = r => row.seq <= max'[r]
  BY <1>1, <1>2, <1>3, NewRowsAt DEF Rows
<1>8. ASSUME NEW row \in table', row.msg \in Summary
      PROVE  /\ row \in NewRows(row.msg.by) /\ NewRows(row.msg.by) \subseteq table'
             /\ pc'[row.msg.by] = "done"
  <2>1. row \notin rest
    <3> SUFFICES ASSUME row \in rest PROVE FALSE
      OBVIOUS
    <3>1. row \in NewRows(row.msg.by) /\ row.msg.by \in Compacts
      BY <1>2, <1>8 DEF Rows, Summary
    <3> QED
      BY <1>2, <3>1, NewRowsAt
  <2>2. row \in NewRows(k) /\ row.msg.by = k
    BY <1>1, <2>1, NewRowsAt
  <2> QED
    BY <1>1, <1>3, <2>2
<1> QED
  BY <1>4, <1>5, <1>6, <1>7, <1>8 DEF Rows

\* What else a step can do to the rows.
LEMMA RowSteps ==
  ASSUME Places, [Next]_vars
  PROVE  \/ \E r \in Chats : ReadMax(r) \/ Insert(r)
         \/ \E k \in Compacts : ReplaceCommit(k)
         \/ DeleteSession
         \/ /\ UNCHANGED <<table, stored, max>>
            /\ \A r \in Chats : pc'[r] = "insert" => pc[r] = "insert"
            /\ \A k \in Compacts : pc[k] = "done" => pc'[k] = "done"
<1> USE RequestsAssumption DEF Places, Requests, Goto
<1> DEFINE Quiet == /\ UNCHANGED <<table, stored, max>>
                    /\ \A r \in Chats : pc'[r] = "insert" => pc[r] = "insert"
                    /\ \A k \in Compacts : pc[k] = "done" => pc'[k] = "done"
<1>1. CASE UNCHANGED vars
  BY <1>1 DEF vars, saveVars
<1>2. CASE CreateSession
  BY <1>2 DEF CreateSession, saveVars
<1>3. ASSUME NEW r \in Requests, Leave(r) PROVE Quiet
  BY <1>3 DEF Leave, saveVars
<1>4. ASSUME NEW r \in Chats, ChatSSE(r) \/ SessionChatSSE(r) \/ ChatStep(r) \/ ReaderStep(r),
             ~ReadMax(r), ~Insert(r)
      PROVE  Quiet
  <2>1. UNCHANGED <<table, stored, max>>
    BY <1>4 DEF ChatSSE, SessionChatSSE, ChatStep, Touch, SaveFails, StartTurn, Reply, BreakOff, End,
                Send, ReaderStep, Read, ReadEnd, saveVars
  <2>2. UNCHANGED pc \/ \E p \in ChatPoints \ {"insert"} : pc' = [pc EXCEPT ![r] = p]
    <3>1. CASE ChatSSE(r) \/ SessionChatSSE(r)
      BY <3>1 DEF ChatSSE, SessionChatSSE, ChatPoints
    <3>2. CASE Touch(r) \/ SaveFails(r)
      BY <3>2 DEF Touch, GoOn, SaveFails, ChatPoints
    <3>3. CASE StartTurn(r) \/ BreakOff(r) \/ End(r)
      BY <3>3 DEF StartTurn, BreakOff, End, ChatPoints
    <3>4. CASE Reply(r)
      BY <3>4 DEF Reply, ChatPoints
    <3>5. CASE Send(r) \/ ReaderStep(r)
      BY <3>5 DEF Send, ReaderStep, Read, ReadEnd
    <3> QED
      BY <1>4, <3>1, <3>2, <3>3, <3>4, <3>5 DEF ChatStep
  <2>3. \A s \in Chats : pc'[s] = "insert" => pc[s] = "insert"
    BY <2>2
  <2>4. \A k \in Compacts : pc[k] = "done" => pc'[k] = "done"
    BY <2>2
  <2> QED
    BY <2>1, <2>3, <2>4
<1>5. ASSUME NEW k \in Compacts, SessionCompactSSE(k) \/ CompactStep(k), ~ReplaceCommit(k)
      PROVE  Quiet
  <2>1. UNCHANGED <<table, stored, max>>
    BY <1>5 DEF SessionCompactSSE, CompactStep, Compact, ReplaceDelete, CompactFails, saveVars
  <2>2. pc[k] # "done" /\ \E p \in CompactPoints : pc' = [pc EXCEPT ![k] = p]
    BY <1>5 DEF SessionCompactSSE, CompactStep, Compact, ReplaceDelete, CompactFails, CompactPoints
  <2>3. \A r \in Chats : pc'[r] = "insert" => pc[r] = "insert"
    BY <2>2
  <2>4. \A l \in Compacts : pc[l] = "done" => pc'[l] = "done"
    BY <2>2
  <2> QED
    BY <2>1, <2>3, <2>4
<1> QED
  BY <1>1, <1>2, <1>3, <1>4, <1>5 DEF Next, CompactStep, ChatStep

LEMMA RowsNext == Rows /\ Places /\ Runs /\ Turns /\ [Next]_vars => Rows'
<1> SUFFICES ASSUME Rows, Places, Runs, Turns, [Next]_vars PROVE Rows'
  OBVIOUS
<1>1. CASE DeleteSession
  <2>1. table' = {} /\ stored' = stored
    BY <1>1 DEF DeleteSession
  <2>2. 0 \in Nat
    OBVIOUS
  <2> QED
    BY <2>1, <2>2 DEF Rows, Msgs
<1> QED
  BY <1>1, RowSteps, RowsReadMax, RowsInsert, RowsCommit, RowsStill

LEMMA OrderNext ==
  Rows /\ Places /\ Runs /\ Turns /\ LoadedInOrder /\ [Next]_vars => LoadedInOrder'
<1> SUFFICES ASSUME Rows, Places, Runs, Turns, LoadedInOrder, [Next]_vars PROVE LoadedInOrder'
  OBVIOUS
<1> USE DEF LoadedInOrder
<1>1. CASE UNCHANGED table
  BY <1>1
<1>2. CASE DeleteSession
  BY <1>2 DEF DeleteSession
<1>3. ASSUME NEW r \in Chats, Insert(r) PROVE LoadedInOrder'
  <2> DEFINE row == [seq |-> max[r] + 1, msg |-> Head(batch[r])]
  <2>1. /\ pc[r] = "insert" /\ row.seq \notin Seqs(table) /\ table' = table \cup {row}
        /\ row.msg = Head(batch[r]) /\ row.seq = max[r] + 1
    BY <1>3 DEF Insert
  <2>2. /\ row.msg \in Message /\ row.msg.by = r /\ row.msg.turn = turn[r]
        /\ \A m \in stored : m.by = r => ~Precedes(row.msg, m)
    BY <2>1, HeadAt
  <2> HIDE DEF row
  <2>3. max[r] \in Nat /\ row.msg \notin Summary
    BY <2>2, KindsApart DEF Turns
  <2>4. ASSUME NEW one \in table, one.msg \in Summary PROVE one.seq < row.seq
    <3>1. /\ one \in NewRows(one.msg.by) /\ NewRows(one.msg.by) \subseteq table
          /\ one.msg.by \in Compacts
      BY <2>4 DEF Rows, Summary
    <3>2. one.seq \in 1 .. 2 /\ row.seq \notin 1 .. 2
      BY <2>1, <3>1, NewRowsAt DEF Seqs
    <3> QED
      BY <2>1, <2>3, <3>2
  <2>5. ASSUME NEW one \in table, one.msg \in Message, one.msg.by = r PROVE one.seq < row.seq
    <3>1. one.seq \in Nat /\ one.seq <= max[r]
      BY <2>1, <2>5 DEF Rows, Row
    <3> QED
      BY <2>1, <2>3, <3>1
  <2>6. ASSUME NEW one \in table, one.msg \in Message PROVE ~Precedes(row.msg, one.msg)
    <3>1. one.msg \in stored
      BY <2>6 DEF Rows, Msgs
    <3> QED
      BY <2>2, <3>1 DEF Precedes
  <2>7. ~Precedes(row.msg, row.msg)
    <3>1. turn[r] \in Nat
      BY DEF Runs
    <3> QED
      BY <2>2, <3>1 DEF Precedes
  <2>8. \A one, other \in table' :
          \/ one.msg \in Message /\ other.msg \in Message /\ Precedes(one.msg, other.msg)
          \/ one.msg \in Summary /\ other.msg \in Message
          => one.seq < other.seq
    <3> SUFFICES ASSUME NEW one \in table', NEW other \in table', other.msg \in Message,
                        \/ one.msg \in Message /\ Precedes(one.msg, other.msg)
                        \/ one.msg \in Summary
                 PROVE  one.seq < other.seq
      OBVIOUS
    <3>1. CASE one \in table /\ other \in table
      BY <3>1
    <3>2. CASE one = row
      BY <2>1, <2>3, <2>6, <2>7, <3>2
    <3>3. CASE one \in table /\ other = row
      <4>1. CASE one.msg \in Summary
        BY <2>4, <3>3, <4>1
      <4>2. CASE one.msg \in Message /\ Precedes(one.msg, other.msg)
        BY <2>2, <2>5, <3>3, <4>2 DEF Precedes
      <4> QED
        BY <4>1, <4>2
    <3> QED
      BY <2>1, <3>1, <3>2, <3>3
  <2> QED
    BY <2>8
<1>4. ASSUME NEW k \in Compacts, ReplaceCommit(k) PROVE LoadedInOrder'
  <2> DEFINE rest == table \ victims[k]
  <2>1. Seqs(rest) \cap 1 .. 2 = {} /\ table' = rest \cup NewRows(k)
    BY <1>4 DEF ReplaceCommit
  <2>2. \A row \in rest : row \in table /\ row.seq \in Nat /\ row.seq > 2
    BY <2>1 DEF Seqs, Rows, Row
  <2> HIDE DEF rest
  <2>3. \A row \in NewRows(k) : row.seq \in 1 .. 2 /\ row.msg \notin Message
    BY NewRowsAt
  <2> SUFFICES ASSUME NEW one \in table', NEW other \in table', other.msg \in Message,
                      \/ one.msg \in Message /\ Precedes(one.msg, other.msg)
                      \/ one.msg \in Summary
               PROVE  one.seq < other.seq
    OBVIOUS
  <2>4. other \in rest
    BY <2>1, <2>3
  <2>5. CASE one \in rest
    BY <2>2, <2>4, <2>5
  <2>6. CASE one \in NewRows(k)
    BY <2>2, <2>3, <2>4, <2>6
  <2> QED
    BY <2>1, <2>5, <2>6
<1> QED
  BY <1>1, <1>2, <1>3, <1>4, RowSteps DEF ReadMax

-----------------------------------------------------------------------------
(* What compactions have read, and that nothing is lost.                   *)

LEMMA KeptType == Views => Kept \subseteq Message
BY DEF Views, Kept, Summary

LEMMA ViewsNext == Views /\ Rows /\ [Next]_vars => Views'
<1> SUFFICES ASSUME Views, Rows, [Next]_vars PROVE Views'
  OBVIOUS
<1> USE DEF Views
<1>1. CASE UNCHANGED <<seen, victims>>
  BY <1>1
<1>2. ASSUME NEW k \in Compacts, SessionCompactSSE(k) PROVE Views'
  <2>1. UNCHANGED victims /\ (UNCHANGED seen \/ seen' = [seen EXCEPT ![k] = Kept])
    BY <1>2 DEF SessionCompactSSE
  <2> QED
    BY <2>1, KeptType
<1>3. ASSUME NEW k \in Compacts, ReplaceDelete(k) \/ ReplaceCommit(k) \/ CompactFails(k) PROVE Views'
  <2>1. UNCHANGED seen /\ (victims' = [victims EXCEPT ![k] = table]
                           \/ victims' = [victims EXCEPT ![k] = {}])
    BY <1>3 DEF ReplaceDelete, ReplaceCommit, CompactFails
  <2> QED
    BY <2>1 DEF Rows
<1>4. [Next]_vars => \/ UNCHANGED <<seen, victims>>
                     \/ \E k \in Compacts : \/ SessionCompactSSE(k) \/ ReplaceDelete(k)
                                            \/ ReplaceCommit(k) \/ CompactFails(k)
  BY DEF Next, vars, CreateSession, DeleteSession, Leave, ChatSSE, SessionChatSSE, ChatStep, ReadMax,
         Insert, NextRow, Touch, SaveFails, StartTurn, Reply, BreakOff, End, Send, ReaderStep, Read,
         ReadEnd, CompactStep, Compact, compVars
<1> QED
  BY <1>1, <1>2, <1>3, <1>4

\* Of the steps that leave what is stored and read alone, none starts a chat
\* or a compaction.
WholeStill ==
  /\ UNCHANGED <<table, stored, seen, mixed>>
  /\ Chatting' \subseteq Chatting /\ Compacting' \subseteq Compacting
  /\ session' = session \/ session' = "deleted" \/ (session = "none" /\ session' = "live")

LEMMA WholeStays ==
  ASSUME Whole, WholeStill
  PROVE  Whole'
<1>1. Kept' = Kept
  BY DEF WholeStill, Kept
<1> QED
  BY <1>1 DEF Whole, WholeStill

LEMMA WholeSteps ==
  ASSUME Places, [Next]_vars
  PROVE  \/ WholeStill
         \/ \E r \in Chats : SessionChatSSE(r) \/ Insert(r)
         \/ \E k \in Compacts : SessionCompactSSE(k) \/ ReplaceCommit(k)
         \/ DeleteSession
<1> USE DEF WholeStill
<1>a. ASSUME UNCHANGED <<pc, kept>> PROVE Chatting' = Chatting /\ Compacting' = Compacting
  BY <1>a DEF Chatting, Compacting
<1>1. CASE UNCHANGED vars
  BY <1>1, <1>a DEF vars, compVars
<1>2. CASE CreateSession
  BY <1>2, <1>a DEF CreateSession, compVars
<1>3. ASSUME NEW r \in Requests, Leave(r) PROVE WholeStill
  BY <1>3, <1>a DEF Leave, compVars
<1>4. ASSUME NEW r \in Chats, ChatSSE(r) \/ SessionChatSSE(r) \/ ChatStep(r) \/ ReaderStep(r),
             ~SessionChatSSE(r), ~Insert(r)
      PROVE  WholeStill
  <2>1. UNCHANGED <<table, stored, seen, mixed, session, kept>>
    BY <1>4 DEF ChatSSE, ChatStep, ReadMax, Touch, SaveFails, StartTurn, Reply, BreakOff, End,
                Send, ReaderStep, Read, ReadEnd, compVars
  <2>2. CASE UNCHANGED pc
    BY <1>a, <2>1, <2>2
  <2>3. CASE pc' # pc
    <3>1. \E p \in ChatPoints : Goto(r, p)
      <4>1. ChatMoves(r) \/ UNCHANGED <<pc, kept>>
        <5>1. CASE ReadMax(r) \/ Touch(r) \/ SaveFails(r)
          BY <5>1 DEF ReadMax, Touch, GoOn, SaveFails, ChatMoves, ChatPoints, Places
        <5>2. CASE ChatSSE(r) \/ StartTurn(r) \/ BreakOff(r) \/ End(r)
          BY <5>2 DEF ChatSSE, StartTurn, BreakOff, End, ChatMoves, ChatPoints
        <5>3. CASE Reply(r)
          <6>1. (Goto(r, "max") /\ r \in kept) \/ Goto(r, "run") \/ Goto(r, "end")
            BY <5>3 DEF Reply
          <6> QED
            BY <2>1, <6>1 DEF ChatMoves, ChatPoints
        <5>4. CASE Send(r) \/ ReaderStep(r)
          BY <5>4 DEF Send, ReaderStep, Read, ReadEnd
        <5> QED
          BY <1>4, <5>1, <5>2, <5>3, <5>4 DEF ChatStep
      <4> QED
        BY <2>3, <4>1 DEF ChatMoves
    <3>2. pc[r] # "done"
      BY <1>4, <2>3 DEF ChatSSE, ChatStep, ReadMax, Touch, SaveFails, StartTurn, Reply, BreakOff,
                        End, Send, ReaderStep, Read, ReadEnd
    <3>3. /\ \A s \in Chats : s # r => pc'[s] = pc[s]
          /\ \A k \in Compacts : pc'[k] = pc[k]
      BY <3>1, RequestsAssumption DEF Goto, Places, Requests
    <3>4. Chatting' \subseteq Chatting
      BY <2>1, <3>2, <3>3 DEF Chatting, Places
    <3>5. Compacting' = Compacting
      BY <3>3 DEF Compacting
    <3> QED
      BY <2>1, <3>4, <3>5
  <2> QED
    BY <2>2, <2>3
<1>5. ASSUME NEW k \in Compacts, SessionCompactSSE(k) \/ CompactStep(k),
             ~SessionCompactSSE(k), ~ReplaceCommit(k)
      PROVE  WholeStill
  <2>1. UNCHANGED <<table, stored, seen, mixed, session, kept>>
    BY <1>5 DEF CompactStep, Compact, ReplaceDelete, CompactFails, compVars
  <2>2. pc[k] \notin {"idle", "done"} /\ \E p \in CompactPoints : Goto(k, p)
    BY <1>5 DEF CompactStep, Compact, ReplaceDelete, CompactFails, CompactPoints
  <2>3. /\ \A r \in Chats : pc'[r] = pc[r]
        /\ \A l \in Compacts : l # k => pc'[l] = pc[l]
    BY <2>2, RequestsAssumption DEF Goto, Places, Requests
  <2>4. Chatting' = Chatting
    BY <2>1, <2>3 DEF Chatting, Places
  <2>5. Compacting' \subseteq Compacting
    BY <2>2, <2>3 DEF Compacting
  <2> QED
    BY <2>1, <2>4, <2>5
<1> QED
  BY <1>1, <1>2, <1>3, <1>4, <1>5 DEF Next, ChatStep, CompactStep

LEMMA WholeNext == Places /\ Rows /\ Runs /\ Turns /\ Views /\ Whole /\ [Next]_vars => Whole'
<1> SUFFICES ASSUME Places, Rows, Runs, Turns, Views, Whole, [Next]_vars PROVE Whole'
  OBVIOUS
<1>1. CASE DeleteSession
  <2>1. UNCHANGED <<pc, kept, mixed>> /\ session' = "deleted"
    BY <1>1 DEF DeleteSession
  <2> QED
    BY <2>1 DEF Whole, Chatting, Compacting
<1>2. ASSUME NEW r \in Chats, SessionChatSSE(r) PROVE Whole'
  <2>1. UNCHANGED <<table, stored, seen, session>> /\ \E p \in ChatPoints : Goto(r, p)
    BY <1>2 DEF SessionChatSSE, compVars, ChatPoints
  <2>2. Kept' = Kept
    BY <2>1 DEF Kept
  <2>3. /\ \A s \in Chats : s # r => pc'[s] = pc[s]
        /\ \A k \in Compacts : pc'[k] = pc[k]
    BY <2>1, RequestsAssumption DEF Goto, Places, Requests
  <2>4. Compacting' = Compacting
    BY <2>3 DEF Compacting
  <2>5. CASE session = "live"
    <3>1. mixed' = (mixed \/ Compacting # {})
      BY <1>2, <2>5 DEF SessionChatSSE
    <3> QED
      BY <2>1, <2>2, <2>4, <3>1 DEF Whole
  <2>6. CASE session # "live"
    <3>1. UNCHANGED <<kept, mixed>> /\ r \notin kept
      BY <1>2, <2>6 DEF SessionChatSSE, Places
    <3>2. Chatting' = Chatting
      BY <2>3, <3>1 DEF Chatting, Places
    <3> QED
      BY <2>1, <2>2, <2>4, <3>1, <3>2 DEF Whole
  <2> QED
    BY <2>5, <2>6
<1>3. ASSUME NEW r \in Chats, Insert(r) PROVE Whole'
  <2> DEFINE m == Head(batch[r])
             row == [seq |-> max[r] + 1, msg |-> m]
  <2>1. /\ pc[r] = "insert" /\ session = "live" /\ table' = table \cup {row}
        /\ stored' = stored \cup {m} /\ UNCHANGED <<session, seen, mixed, kept>> /\ row.msg = m
        /\ \E p \in {"touch", "insert"} : Goto(r, p)
    BY <1>3 DEF Insert, NextRow, compVars
  <2>2. m \in Message
    BY <2>1, HeadAt
  <2> HIDE DEF m, row
  <2>3. r \in Chatting
    BY <2>1 DEF Chatting, Places
  <2>4. /\ \A s \in Chats : s # r => pc'[s] = pc[s]
        /\ \A k \in Compacts : pc'[k] = pc[k]
        /\ pc'[r] # "done"
    BY <2>1, RequestsAssumption DEF Goto, Places, Requests
  <2>5. Compacting' = Compacting
    BY <2>4 DEF Compacting
  <2>6. Kept \cup {m} \subseteq Kept'
    <3>1. Msgs(table) \cup {m} \subseteq Msgs(table')
      BY <2>1 DEF Msgs
    <3>2. Kept' = (Msgs(table') \cap Message) \cup
                  UNION {seen[k] : k \in {n.by : n \in Msgs(table') \cap Summary}}
      BY <2>1 DEF Kept
    <3> QED
      BY <2>2, <3>1, <3>2 DEF Kept
  <2> QED
    BY <2>1, <2>3, <2>5, <2>6 DEF Whole
<1>4. ASSUME NEW k \in Compacts, SessionCompactSSE(k) PROVE Whole'
  <2>1. /\ pc[k] = "idle" /\ session # "none" /\ UNCHANGED <<table, stored, session, kept>>
        /\ \E p \in CompactPoints : Goto(k, p)
    BY <1>4 DEF SessionCompactSSE, CompactPoints
  <2>2. /\ \A r \in Chats : pc'[r] = pc[r]
        /\ \A l \in Compacts : l # k => pc'[l] = pc[l]
    BY <2>1, RequestsAssumption DEF Goto, Places, Requests
  <2>3. Chatting' = Chatting
    BY <2>1, <2>2 DEF Chatting, Places
  <2>4. \A l \in Compacts : l # k => seen'[l] = seen[l]
    BY <1>4 DEF SessionCompactSSE, Views
  <2>5. k \notin {m.by : m \in Msgs(table) \cap Summary}
    BY <2>1 DEF Rows, Msgs
  <2>6. Kept' = Kept
    <3>1. \A m \in Msgs(table) \cap Summary : m.by \in Compacts /\ m.by # k
      BY <2>5 DEF Summary
    <3>2. \A l \in {m.by : m \in Msgs(table) \cap Summary} : seen'[l] = seen[l]
      BY <2>4, <3>1
    <3>3. Kept' = (Msgs(table) \cap Message) \cup
                  UNION {seen'[l] : l \in {m.by : m \in Msgs(table) \cap Summary}}
      BY <2>1 DEF Kept
    <3> QED
      BY <3>2, <3>3 DEF Kept
  <2>7. CASE session = "live" /\ Cardinality(table) >= 2
    <3>1. seen'[k] = Kept /\ mixed' = (mixed \/ Chatting # {})
      BY <1>4, <2>7 DEF SessionCompactSSE, Views
    <3>2. \A l \in Compacting' : l # k => l \in Compacting
      BY <2>2 DEF Compacting
    <3>3. ASSUME ~mixed' PROVE ~mixed /\ Chatting' = {}
      BY <2>3, <3>1, <3>3
    <3>4. ASSUME ~mixed', session' = "live", NEW l \in Compacting' PROVE stored' \subseteq seen'[l]
      <4>1. CASE l = k
        BY <2>1, <3>1, <3>3, <3>4, <4>1 DEF Whole
      <4>2. CASE l # k
        BY <2>1, <2>4, <3>2, <3>3, <3>4, <4>2 DEF Whole, Compacting
      <4> QED
        BY <4>1, <4>2
    <3> QED
      BY <2>1, <2>6, <3>3, <3>4 DEF Whole
  <2>8. CASE ~(session = "live" /\ Cardinality(table) >= 2)
    <3>1. UNCHANGED <<seen, mixed>> /\ Goto(k, "done")
      BY <1>4, <2>8 DEF SessionCompactSSE
    <3>2. pc'[k] = "done"
      BY <3>1 DEF Goto, Places, Requests
    <3>3. Compacting' \subseteq Compacting
      BY <2>2, <3>2 DEF Compacting
    <3> QED
      BY <2>1, <2>3, <3>1, <3>3, WholeStays DEF WholeStill
  <2> QED
    BY <2>7, <2>8
<1>5. ASSUME NEW k \in Compacts, ReplaceCommit(k) PROVE Whole'
  <2>1. /\ pc[k] = "commit" /\ session = "live" /\ NewRows(k) \subseteq table'
        /\ UNCHANGED <<stored, session, seen, mixed, kept>> /\ Goto(k, "done")
    BY <1>5 DEF ReplaceCommit
  <2>2. k \in Compacting
    BY <2>1 DEF Compacting
  <2>3. /\ \A r \in Chats : pc'[r] = pc[r]
        /\ \A l \in Compacts : l # k => pc'[l] = pc[l]
        /\ pc'[k] = "done"
    BY <2>1, RequestsAssumption DEF Goto, Places, Requests
  <2>4. Chatting' = Chatting /\ Compacting' \subseteq Compacting
    BY <2>1, <2>3 DEF Chatting, Compacting, Places
  <2>5. seen[k] \subseteq Kept'
    <3>1. PICK row \in NewRows(k) : row.msg.by = k /\ row.msg \in Summary
      <4>1. 1 \in 1 .. 2
        OBVIOUS
      <4> QED
        BY <4>1, NewRowsAt
    <3>2. row.msg \in Msgs(table') \cap Summary
      BY <2>1, <3>1 DEF Msgs
    <3>3. k \in {m.by : m \in Msgs(table') \cap Summary}
      BY <3>1, <3>2
    <3>4. Kept' = (Msgs(table') \cap Message) \cup
                  UNION {seen[l] : l \in {m.by : m \in Msgs(table') \cap Summary}}
      BY <2>1 DEF Kept
    <3> QED
      BY <3>3, <3>4
  <2> QED
    BY <2>1, <2>2, <2>4, <2>5 DEF Whole
<1> QED
  BY <1>1, <1>2, <1>3, <1>4, <1>5, WholeSteps, WholeStays

-----------------------------------------------------------------------------
(* The theorems.                                                           *)

LEMMA InvInit == Init => IInv
<1> SUFFICES ASSUME Init PROVE IInv
  OBVIOUS
<1> USE DEF Init
<1>1. Places
  BY DEF Places, Requests, Points, ChatPoints, CompactPoints
<1>2. Runs
  <2>1. Deltas \in Nat /\ EventCap \in Nat
    BY BoundsAssumption
  <2>2. 0 \in 0 .. Deltas + 2 /\ 0 \in 0 .. EventCap /\ 0 \in Nat
    BY <2>1
  <2>3. ev \in [Chats -> 0 .. Deltas + 2] /\ unread \in [Chats -> 0 .. EventCap] /\ turn \in [Chats -> Nat]
    BY <2>2
  <2>4. reader \in [Chats -> {"off", "on", "left", "done"}]
    OBVIOUS
  <2> QED
    BY <2>3, <2>4 DEF Runs
<1>3. Turns
  <2>1. \A r \in Chats : pc[r] = "idle" /\ turn[r] = 0
    BY DEF Requests
  <2>2. << >> \in Seq(Message)
    OBVIOUS
  <2> QED
    BY <2>1, <2>2 DEF Turns, Saves
<1>4. Rows
  <2>1. 0 \in Nat
    OBVIOUS
  <2> QED
    BY <2>1 DEF Rows, Msgs
<1>5. LoadedInOrder /\ Views
  BY DEF LoadedInOrder, Views
<1>6. Whole
  BY DEF Whole, Chatting
<1> QED
  BY <1>1, <1>2, <1>3, <1>4, <1>5, <1>6 DEF IInv

LEMMA InvNext == IInv /\ [Next]_vars => IInv'
<1> SUFFICES ASSUME IInv, [Next]_vars PROVE IInv'
  OBVIOUS
<1>1. Places /\ Runs /\ Turns /\ Rows /\ LoadedInOrder /\ Views /\ Whole
  BY DEF IInv
<1>2. Places' /\ Runs' /\ Turns' /\ Rows' /\ LoadedInOrder' /\ Views' /\ Whole'
  BY <1>1, PlacesNext, RunsNext, TurnsNext, RowsNext, OrderNext, ViewsNext, WholeNext
<1> QED
  BY <1>2 DEF IInv

\* The state of a session and its requests keeps its shape; no seq is given
\* to two rows, and a channel never holds more than its capacity.
THEOREM TypeCorrect == Spec => []TypeOK
<1>1. IInv => TypeOK
  BY DEF IInv, Places, Runs, Turns, Rows, Views, TypeOK
<1> QED
  BY <1>1, InvInit, InvNext, PTL DEF Spec

\* A session is loaded as its conversations were made, a summary first,
\* whichever saves and compactions interleaved or failed (AppendMessages and
\* ReplaceMessages, session/store.go 94-221), and chats among themselves, or
\* compactions among themselves, lose nothing that was stored.
THEOREM StoreIsSound == Spec => []StoreSound
<1>1. IInv => StoreSound
  BY DEF IInv, Turns, Whole, StoreSound, NothingLost
<1> QED
  BY <1>1, InvInit, InvNext, PTL DEF Spec
=============================================================================
