------------------------------ MODULE ReplProofs ------------------------------
(***************************************************************************)
(* Theorems about the REPL, and about the managers of MCP servers it opens *)
(* for its prompts.                                                        *)
(*                                                                         *)
(* Repl, for any sessions, models and numbers of prompts, configurations   *)
(* and turns: the state has its shape, what is kept, sent and stored is of *)
(* its session, and what the history recalls is stored or known to be      *)
(* lost.  The argument: a step gains messages of the current session, or   *)
(* takes the history from a session's rows, or gives it up (MessagesNext); *)
(* what a run says is not stored, then stored or lost (Kept); and the rows *)
(* of a session grow by what a run of it knows (RowsNext).                 *)
(*                                                                         *)
(* McpManager, for any servers, callers, tools and offers: the state has   *)
(* its shape, the two maps fit together, and a retry never goes to the     *)
(* client that failed the call.  The argument for the last one: a client   *)
(* enters the maps once, by the goroutine that made it (Fresh), so that a  *)
(* client which was taken out stays out (GoneForGood).                     *)
(***************************************************************************)
EXTENDS Repl, McpManager, TLAPS

-----------------------------------------------------------------------------
(* The inductive invariant of the REPL.                                    *)

Kinds == {"call", "answer"}
\* Between a request and the save of its turn, prevMsgCount counts the list.
Counted == {"ask", "append", "tools", "save", "last"}
Places == Counted \cup {"idle", "turn", "over"}

\* What the REPL is at; a run is of a prompt, and of the current session.
Modes ==
  /\ mode \in {"main", "resume", "quit"} /\ place \in Places
  /\ current \in Ids /\ config \in Ids
  /\ created \subseteq Sessions /\ (current # none => current \in created)
  /\ prompts \in 0 .. MaxPrompts /\ (running => prompts > 0 /\ mode # "quit")
  /\ running \/ mode = "resume" => config = current
  /\ shared \in BOOLEAN /\ (shared => mode = "resume" /\ running)
  /\ reply \in Kinds \cup {none} /\ (reply # none <=> place = "append")
  /\ prev \in Nat /\ turns \in 0 .. MaxTurns
  /\ strayed \in BOOLEAN /\ mixed \subseteq Sessions

Modelling ==
  /\ models \in [shown : Models, used : Models, backup : Models \cup {none}]
  /\ models.shown = models.used

\* A manager that is held is one of those that are open, until the end.
Opened ==
  /\ open \in [configured : BOOLEAN, held : BOOLEAN, mcp : Nat, teams : Nat]
  /\ mode # "quit" /\ open.held => open.mcp > 0
  /\ mode = "quit" => open.teams = 0

\* A turn stores what a compaction left and what the run said or added.
Lists ==
  /\ history \in Seq(Message) /\ conv \in Seq(Message)
  /\ db \in [Sessions -> Seq(Message)] /\ events \in Seq(Kinds) /\ lost \subseteq Message
  /\ ~running => conv = << >> /\ events = << >>
  /\ place \in Counted =>
       /\ prev <= Len(conv)
       /\ \A i \in prev + 1 .. Len(conv) : conv[i] \in Plain => conv[i].session = config

\* What the REPL has not read yet, and what it and the run know.
Said == {Msg(events[i]) : i \in 1 .. Len(events)}
Known == Recalled(history) \cup Recalled(conv) \cup Said

\* A message that need not, or that can be found again, or is known to be lost.
Accounted(m) ==
  m.kind = "prompt" \/ m.session = none \/ m \in ToSet(db[m.session]) \/ m \in lost

Kept ==
  /\ \A m \in Known : Accounted(m) \/ m \in Unsaved
  /\ \A s \in Sessions : \A m \in Recalled(db[s]) : Accounted(m)

Owned ==
  /\ ~strayed /\ current \notin mixed => \A m \in Known : m.session = current
  /\ \A s \in Sessions \ mixed : \A m \in Recalled(db[s]) : m.session = s

ReplInv == Modes /\ Modelling /\ Opened /\ Lists /\ Kept /\ Owned

-----------------------------------------------------------------------------
(* What is recalled.                                                       *)

\* What a message of a list stands for.
Meant(m) == IF m \in Plain THEN {m} ELSE m.of

LEMMA MeantIsPlain == \A m \in Message : Meant(m) \subseteq Plain
  BY DEF Message, Meant

LEMMA RecalledAre ==
  ASSUME NEW h \in Seq(Message)
  PROVE  /\ Recalled(h) \subseteq Plain
         /\ \A m : m \in Recalled(h) <=> \E i \in 1 .. Len(h) : m \in Meant(h[i])
<1>1. DOMAIN h = 1 .. Len(h)
  OBVIOUS
<1>2. \A m : m \in Recalled(h) <=> \E i \in 1 .. Len(h) : m \in Meant(h[i])
  BY <1>1 DEF Recalled, ToSet, Meant
<1>3. \A i \in 1 .. Len(h) : h[i] \in Message
  OBVIOUS
<1> QED
  BY <1>2, <1>3, MeantIsPlain

LEMMA NothingRecalled == << >> \in Seq(Message) /\ Recalled(<< >>) = {}
  BY DEF Recalled, ToSet

LEMMA RecalledJoined ==
  ASSUME NEW h \in Seq(Message), NEW k \in Seq(Message)
  PROVE  h \o k \in Seq(Message) /\ Recalled(h \o k) = Recalled(h) \cup Recalled(k)
<1> DEFINE g == h \o k
<1>1. g \in Seq(Message) /\ Len(g) = Len(h) + Len(k) /\ Len(h) \in Nat /\ Len(k) \in Nat
      /\ (\A i \in 1 .. Len(h) : g[i] = h[i]) /\ (\A i \in 1 .. Len(k) : g[Len(h) + i] = k[i])
  OBVIOUS
<1> HIDE DEF g
<1>2. \A i \in 1 .. Len(g) :
        (i \in 1 .. Len(h) /\ g[i] = h[i])
        \/ (i - Len(h) \in 1 .. Len(k) /\ g[i] = k[i - Len(h)])
  <2> TAKE i \in 1 .. Len(g)
  <2>1. CASE i \in 1 .. Len(h)
    BY <1>1, <2>1
  <2>2. CASE i \notin 1 .. Len(h)
    <3>1. i - Len(h) \in 1 .. Len(k) /\ Len(h) + (i - Len(h)) = i
      BY <1>1, <2>2
    <3> QED
      BY <1>1, <3>1
  <2> QED
    BY <2>1, <2>2
<1>3. \A i \in 1 .. Len(h) : i \in 1 .. Len(g)
  BY <1>1
<1>4. \A i \in 1 .. Len(k) : Len(h) + i \in 1 .. Len(g)
  BY <1>1
<1>5. ASSUME NEW x PROVE x \in Recalled(g) <=> x \in Recalled(h) \/ x \in Recalled(k)
  <2>1. x \in Recalled(g) <=> \E i \in 1 .. Len(g) : x \in Meant(g[i])
    BY <1>1, RecalledAre
  <2>2. x \in Recalled(h) <=> \E i \in 1 .. Len(h) : x \in Meant(h[i])
    BY RecalledAre
  <2>3. x \in Recalled(k) <=> \E i \in 1 .. Len(k) : x \in Meant(k[i])
    BY RecalledAre
  <2>4. ASSUME x \in Recalled(g) PROVE x \in Recalled(h) \/ x \in Recalled(k)
    <3>1. PICK i \in 1 .. Len(g) : x \in Meant(g[i])
      BY <2>1, <2>4
    <3> QED
      BY <1>2, <2>2, <2>3, <3>1
  <2>5. ASSUME x \in Recalled(h) PROVE x \in Recalled(g)
    <3>1. PICK i \in 1 .. Len(h) : x \in Meant(h[i])
      BY <2>2, <2>5
    <3> QED
      BY <1>1, <1>3, <2>1, <3>1
  <2>6. ASSUME x \in Recalled(k) PROVE x \in Recalled(g)
    <3>1. PICK i \in 1 .. Len(k) : x \in Meant(k[i])
      BY <2>3, <2>6
    <3> QED
      BY <1>1, <1>4, <2>1, <3>1
  <2> QED
    BY <2>4, <2>5, <2>6
<1>6. Recalled(g) = Recalled(h) \cup Recalled(k)
  BY <1>5
<1> QED
  BY <1>1, <1>6 DEF g

LEMMA OneRecalled ==
  ASSUME NEW m \in Plain
  PROVE  <<m>> \in Seq(Message) /\ Recalled(<<m>>) = {m}
<1>1. m \in Message /\ Meant(m) = {m}
  BY DEF Message, Meant
<1> DEFINE h == <<m>>
<1>2. h \in Seq(Message) /\ Len(h) = 1 /\ h[1] = m
  BY <1>1
<1> HIDE DEF h
<1>3. \A x : x \in Recalled(h) <=> \E i \in 1 .. 1 : x \in Meant(h[i])
  BY <1>2, RecalledAre
<1>4. \A x : x \in Recalled(h) <=> x = m
  BY <1>1, <1>2, <1>3
<1>5. Recalled(h) = {m}
  BY <1>4
<1> QED
  BY <1>2, <1>5 DEF h

LEMMA RecalledMore ==
  ASSUME NEW h \in Seq(Message), NEW m \in Plain
  PROVE  Append(h, m) \in Seq(Message) /\ Recalled(Append(h, m)) = Recalled(h) \cup {m}
<1>1. <<m>> \in Seq(Message) /\ Recalled(<<m>>) = {m}
  BY OneRecalled
<1>2. Append(h, m) = h \o <<m>>
  BY <1>1
<1>3. h \o <<m>> \in Seq(Message) /\ Recalled(h \o <<m>>) = Recalled(h) \cup Recalled(<<m>>)
  BY <1>1, RecalledJoined
<1> QED
  BY <1>1, <1>2, <1>3

\* A message written over another one.
LEMMA RecalledWritten ==
  ASSUME NEW h \in Seq(Message), NEW m \in Plain, NEW k \in 1 .. Len(h)
  PROVE  LET g == [h EXCEPT ![k] = m] IN
         /\ g \in Seq(Message) /\ Len(g) = Len(h) /\ Recalled(g) \subseteq Recalled(h) \cup {m}
         /\ \A i \in 1 .. Len(h) : g[i] = h[i] \/ g[i] = m
<1> DEFINE g == [h EXCEPT ![k] = m]
<1>1. m \in Message /\ Meant(m) = {m}
  BY DEF Message, Meant
<1>2. g \in Seq(Message) /\ Len(g) = Len(h) /\ \A i \in 1 .. Len(h) : g[i] = h[i] \/ g[i] = m
  BY <1>1
<1> HIDE DEF g
<1>3. ASSUME NEW x \in Recalled(g) PROVE x \in Recalled(h) \/ x = m
  <2>1. PICK i \in 1 .. Len(g) : x \in Meant(g[i])
    BY <1>2, RecalledAre
  <2>2. x \in Meant(h[i]) \/ x \in Meant(m)
    BY <1>2, <2>1
  <2>3. i \in 1 .. Len(h)
    BY <1>2
  <2> QED
    BY <1>1, <2>2, <2>3, RecalledAre
<1>4. Recalled(g) \subseteq Recalled(h) \cup {m}
  BY <1>3
<1> QED
  BY <1>2, <1>4 DEF g

\* A part of a list recalls no more than the list.
LEMMA RecalledOfPart ==
  ASSUME NEW h \in Seq(Message), NEW k \in Seq(Message),
         \A i \in 1 .. Len(k) : \E j \in 1 .. Len(h) : k[i] = h[j]
  PROVE  Recalled(k) \subseteq Recalled(h)
<1> SUFFICES ASSUME NEW x \in Recalled(k) PROVE x \in Recalled(h)
  OBVIOUS
<1>1. PICK i \in 1 .. Len(k) : x \in Meant(k[i])
  BY RecalledAre
<1>2. PICK j \in 1 .. Len(h) : k[i] = h[j]
  OBVIOUS
<1>3. x \in Meant(h[j])
  BY <1>1, <1>2
<1> QED
  BY <1>3, RecalledAre

\* A summary recalls what it was made of.
LEMMA SummaryRecalls ==
  ASSUME NEW h \in Seq(Message)
  PROVE  /\ Summary(h) \in Seq(Message) /\ Recalled(Summary(h)) = Recalled(h)
         /\ Len(Summary(h)) = 2 /\ \A i \in 1 .. 2 : Summary(h)[i] \notin Plain
<1> DEFINE R == Recalled(h)
           a == [kind |-> "boundary", of |-> {}]
           b == [kind |-> "summary", of |-> R]
           g == <<a, b>>
<1>0. R \in SUBSET Plain
  BY RecalledAre
<1> HIDE DEF R
<1>1. a \in Message /\ b \in Message /\ a.of = {} /\ b.of = R
  BY <1>0 DEF Message
<1>2. a \notin Plain /\ b \notin Plain
  BY DEF Plain
<1>3. Meant(a) = {} /\ Meant(b) = R
  BY <1>1, <1>2 DEF Meant
<1>z. Summary(h) = g
  BY DEF Summary, R
<1> HIDE DEF a, b
<1>4. g \in Seq(Message) /\ Len(g) = 2 /\ g[1] = a /\ g[2] = b
  BY <1>1
<1> HIDE DEF g
<1>5. \A m : m \in Recalled(g) <=> \E i \in 1 .. 2 : m \in Meant(g[i])
  BY <1>4, RecalledAre
<1>6. \A m : m \in Recalled(g) <=> m \in R
  BY <1>3, <1>4, <1>5
<1>7. Recalled(g) = R
  BY <1>6
<1> QED
  BY <1>2, <1>4, <1>7, <1>z DEF R

\* Two lists before and after one of them got m: the other one may have it
\* in the place of one of its own.
Grown(h, c, g, d, m) ==
  /\ g \in Seq(Message) /\ Len(g) = Len(h) + 1 /\ g[Len(h) + 1] = m
  /\ \A i \in 1 .. Len(h) : g[i] = h[i]
  /\ Recalled(g) = Recalled(h) \cup {m}
  /\ d \in Seq(Message) /\ Len(d) = Len(c) /\ Recalled(d) \subseteq Recalled(c) \cup {m}
  /\ \A i \in 1 .. Len(c) : d[i] = c[i] \/ d[i] = m

LEMMA Growing ==
  ASSUME NEW h \in Seq(Message), NEW c \in Seq(Message), NEW m \in Plain, NEW g, NEW d,
         g = Append(h, m),
         \/ d = c
         \/ \E k \in 1 .. Len(c) : d = [c EXCEPT ![k] = m]
  PROVE  Grown(h, c, g, d, m)
<1>1. m \in Message
  BY DEF Message
<1>2. g \in Seq(Message) /\ Len(g) = Len(h) + 1 /\ g[Len(h) + 1] = m
      /\ \A i \in 1 .. Len(h) : g[i] = h[i]
  BY <1>1
<1>3. Recalled(g) = Recalled(h) \cup {m}
  BY RecalledMore
<1>4. /\ d \in Seq(Message) /\ Len(d) = Len(c) /\ Recalled(d) \subseteq Recalled(c) \cup {m}
      /\ \A i \in 1 .. Len(c) : d[i] = c[i] \/ d[i] = m
  <2>1. CASE d = c
    BY <2>1
  <2>2. CASE \E k \in 1 .. Len(c) : d = [c EXCEPT ![k] = m]
    <3>1. PICK k \in 1 .. Len(c) : d = [c EXCEPT ![k] = m]
      BY <2>2
    <3> DEFINE e == [c EXCEPT ![k] = m]
    <3>2. /\ e \in Seq(Message) /\ Len(e) = Len(c) /\ Recalled(e) \subseteq Recalled(c) \cup {m}
          /\ \A i \in 1 .. Len(c) : e[i] = c[i] \/ e[i] = m
      BY RecalledWritten
    <3>3. d = e
      BY <3>1
    <3> HIDE DEF e
    <3> QED
      BY <3>2, <3>3
  <2> QED
    BY <2>1, <2>2
<1> QED
  BY <1>2, <1>3, <1>4 DEF Grown

LEMMA ConvGrows ==
  ASSUME Lists, NEW m \in Plain, Appends(conv, history, m)
  PROVE  Grown(conv, history, conv', history', m)
<1>1. history \in Seq(Message) /\ conv \in Seq(Message)
  BY DEF Lists
<1>2. /\ conv' = Append(conv, m)
      /\ \/ history' = history
         \/ \E k \in 1 .. Len(history) : history' = [history EXCEPT ![k] = m]
  <2>1. Len(conv) \in Nat /\ Len(history) \in Nat
    BY <1>1
  <2>2. Len(conv) < Len(history) => Len(conv) + 1 \in 1 .. Len(history)
    BY <2>1
  <2> QED
    BY <2>2 DEF Appends
<1> QED
  BY <1>1, <1>2, Growing

LEMMA HistoryGrows ==
  ASSUME Lists, NEW m \in Plain, Appends(history, conv, m)
  PROVE  Grown(history, conv, history', conv', m)
<1>1. history \in Seq(Message) /\ conv \in Seq(Message)
  BY DEF Lists
<1>2. /\ history' = Append(history, m)
      /\ \/ conv' = conv
         \/ \E k \in 1 .. Len(conv) : conv' = [conv EXCEPT ![k] = m]
  <2>1. Len(conv) \in Nat /\ Len(history) \in Nat
    BY <1>1
  <2>2. Len(history) < Len(conv) => Len(history) + 1 \in 1 .. Len(conv)
    BY <2>1
  <2> QED
    BY <2>2 DEF Appends
<1> QED
  BY <1>1, <1>2, Growing

-----------------------------------------------------------------------------
(* The steps of the variables that carry no messages.                      *)

\* What a step of a run leaves alone.
LEMMA RunLeaves ==
  ASSUME Modes, Lists, RunNext
  PROVE  /\ running /\ UNCHANGED <<mode, current, created, prompts, models, open, config, strayed>>
         /\ place' \in Places
         /\ mixed' = mixed \/ (config # none /\ mixed' = mixed \cup {config})
<1> USE DEF replFrame, ghosts, running, Places, Counted, Modes
<1>1. CASE Turn
  BY <1>1 DEF Turn
<1>2. CASE Answer
  BY <1>2 DEF Answer
<1>3. CASE Retry
  BY <1>3 DEF Retry
<1>4. CASE Fail
  BY <1>4 DEF Fail
<1>5. CASE Keep
  BY <1>5 DEF Keep
<1>6. CASE AddResults
  BY <1>6 DEF AddResults
<1>7. CASE Interrupt
  BY <1>7 DEF Interrupt
<1>8. CASE Save
  <2>1. /\ place \in {"save", "last"} /\ place' \in {"turn", "over"}
        /\ UNCHANGED <<replFrame, strayed>>
        /\ Stores(SubSeq(conv, prev + 1, Len(conv)))
    BY <1>8 DEF Save
  <2>2. mixed' = mixed \/ (config # none /\ mixed' = mixed \cup {config})
    BY <2>1 DEF Stores
  <2> QED
    BY <2>1, <2>2
<1>9. CASE Hear
  BY <1>9 DEF Hear, Lists
<1>10. CASE EndRun
  BY <1>10 DEF EndRun
<1> QED
  BY <1>1, <1>2, <1>3, <1>4, <1>5, <1>6, <1>7, <1>8, <1>9, <1>10 DEF RunNext

\* Where a run is with its answer, its counts and its slice.
LEMMA RunCounts ==
  ASSUME Modes, Lists, RunNext
  PROVE  /\ reply' \in Kinds \cup {none} /\ (reply' # none <=> place' = "append")
         /\ shared' \in {shared, FALSE} /\ (place' = "idle" => shared' = FALSE)
         /\ prev' \in Nat /\ turns' \in 0 .. MaxTurns
<1> USE DEF ghosts, running, Places, Counted, Modes, Kinds, none
<1>1. CASE Turn
  <2>1. /\ place = "turn" /\ place' = "ask" /\ turns < MaxTurns /\ turns' = turns + 1
        /\ UNCHANGED reply /\ (prev' = Len(conv) \/ prev' = 0) /\ shared' \in {shared, FALSE}
    BY <1>1 DEF Turn, Summarises
  <2>2. Len(conv) \in Nat
    BY DEF Lists
  <2>3. turns' \in 0 .. MaxTurns
    BY <2>1, BoundAssumption
  <2>4. prev' \in Nat
    BY <2>1, <2>2
  <2>5. reply' = none
    BY <2>1
  <2> QED
    BY <2>1, <2>3, <2>4, <2>5
<1>2. CASE Answer
  BY <1>2 DEF Answer
<1>3. CASE Retry
  BY <1>3 DEF Retry, Summarises
<1>4. CASE Fail
  BY <1>4 DEF Fail
<1>5. CASE Keep
  BY <1>5 DEF Keep, Appends
<1>6. CASE AddResults
  BY <1>6 DEF AddResults, Appends
<1>7. CASE Interrupt
  BY <1>7 DEF Interrupt, Appends
<1>8. CASE Save
  BY <1>8 DEF Save
<1>9. CASE Hear
  BY <1>9, RunLeaves DEF Hear, Appends
<1>10. CASE EndRun
  BY <1>10 DEF EndRun
<1> QED
  BY <1>1, <1>2, <1>3, <1>4, <1>5, <1>6, <1>7, <1>8, <1>9, <1>10 DEF RunNext

LEMMA ModesNext == Modes /\ Lists /\ [ReplNext]_replVars => Modes'
<1> SUFFICES ASSUME Modes, Lists, [ReplNext]_replVars PROVE Modes'
  OBVIOUS
<1> USE DEF Ids
<1>1. CASE UNCHANGED replVars
  BY <1>1 DEF replVars, runVars, ghosts, Modes, running
<1>2. CASE Clear \/ Compact \/ SwitchModel \/ Fast \/ Effort
  <2>1. UNCHANGED <<mode, runVars, current, created, prompts, mixed>>
        /\ (strayed' = FALSE \/ strayed' = strayed)
    BY <1>2 DEF Clear, Compact, SwitchModel, Fast, Effort, ghosts
  <2> QED
    BY <2>1 DEF runVars, Modes, running
<1>3. CASE Quit
  <2>1. UNCHANGED <<runVars, current, created, prompts, ghosts>>
        /\ ~running /\ (mode' = "main" \/ mode' = "quit")
    BY <1>3 DEF Quit
  <2> QED
    BY <2>1 DEF runVars, ghosts, Modes, running
<1>4. CASE New
  BY <1>4 DEF New, AtPrompt, runVars, ghosts, Modes, running
<1>5. CASE Prompt \/ Review
  <2>1. /\ UNCHANGED <<mode, current, created, shared, reply, turns, ghosts>> /\ config' = current
        /\ mode = "main" /\ ~running /\ prompts < MaxPrompts /\ prompts' = prompts + 1
    BY <1>5 DEF Prompt, Review, Build, AtPrompt, Begins
  <2>2. /\ place' = "turn" \/ place' = place
        /\ prev' = prev \/ prev' = Len(Append(history, NewPrompt(current)))
                       \/ prev' = Len(<<NewPrompt(current)>>)
    BY <1>5 DEF Prompt, Review, Begins
  <2>3. prompts' \in 0 .. MaxPrompts /\ prompts' > 0
    BY <2>1, BoundAssumption DEF Modes
  <2>4. prev' \in Nat
    <3> DEFINE m == NewPrompt(current)
    <3>1. m \in Message \cup {m} /\ history \in Seq(Message \cup {m})
      BY DEF Lists
    <3> HIDE DEF m
    <3>2. Len(Append(history, m)) \in Nat /\ Len(<<m>>) \in Nat
      BY <3>1
    <3> QED
      BY <2>2, <3>2 DEF Modes, m
  <2>5. mode' \in {"main", "resume", "quit"} /\ place' \in Places /\ (place' = "append" <=> place = "append")
    BY <2>1, <2>2 DEF Modes, running, Places, Counted
  <2> QED
    BY <2>1, <2>3, <2>4, <2>5 DEF ghosts, Modes, running
<1>6. CASE Resume
  BY <1>6 DEF Resume, Build, AtPrompt, Modes, running
<1>7. CASE ResumePrompt
  <2>1. /\ UNCHANGED <<mode, current, config, created, reply, turns, ghosts>>
        /\ mode = "resume" /\ ~running /\ prompts < MaxPrompts /\ prompts' = prompts + 1
        /\ place' = "turn" /\ shared' = TRUE
        /\ prev' = Len(Append(history, NewPrompt(config)))
    BY <1>7 DEF ResumePrompt, Begins
  <2>2. prompts' \in 0 .. MaxPrompts /\ prompts' > 0
    BY <2>1, BoundAssumption DEF Modes
  <2>3. prev' \in Nat
    <3> DEFINE m == NewPrompt(config)
    <3>1. m \in Message \cup {m} /\ history \in Seq(Message \cup {m})
      BY DEF Lists
    <3> HIDE DEF m
    <3>2. Len(Append(history, m)) \in Nat
      BY <3>1
    <3> QED
      BY <2>1, <3>2 DEF m
  <2>4. place' \in Places /\ place' # "append" /\ place # "append"
    BY <2>1 DEF Places, running
  <2> QED
    BY <2>1, <2>2, <2>3, <2>4 DEF ghosts, Modes, running
<1>8. CASE RunNext
  <2>1. /\ running /\ UNCHANGED <<mode, current, created, prompts, models, open, config, strayed>>
        /\ place' \in Places
        /\ mixed' = mixed \/ (config # none /\ mixed' = mixed \cup {config})
    BY <1>8, RunLeaves
  <2>2. /\ reply' \in Kinds \cup {none} /\ (reply' # none <=> place' = "append")
        /\ shared' \in {shared, FALSE} /\ (place' = "idle" => shared' = FALSE)
        /\ prev' \in Nat /\ turns' \in 0 .. MaxTurns
    BY <1>8, RunCounts
  <2>3. mixed' \subseteq Sessions
    BY <2>1 DEF Modes
  <2>4. shared' => shared /\ place' # "idle"
    BY <2>2
  <2>5. shared' \in BOOLEAN /\ (shared' => mode' = "resume" /\ running')
    BY <2>1, <2>2, <2>4 DEF Modes, running
  <2> HIDE DEF Ids
  <2> QED
    BY <2>1, <2>2, <2>3, <2>5 DEF Modes, running
<1> QED
  BY <1>1, <1>2, <1>3, <1>4, <1>5, <1>6, <1>7, <1>8 DEF ReplNext

LEMMA ModellingNext == Modelling /\ Modes /\ Lists /\ [ReplNext]_replVars => Modelling'
<1> SUFFICES ASSUME Modelling, Modes, Lists, [ReplNext]_replVars PROVE Modelling'
  OBVIOUS
<1>a. models = [shown |-> models.shown, used |-> models.used, backup |-> models.backup]
  BY DEF Modelling
<1>1. CASE SwitchModel \/ Fast \/ Effort
  <2>1. \E m \in Models, b \in Models \cup {none} :
          models' = [shown |-> m, used |-> m, backup |-> b]
    <3>1. CASE SwitchModel
      <4>1. PICK m \in Models : models' = [models EXCEPT !.shown = m, !.used = m]
        BY <3>1 DEF SwitchModel
      <4>2. models' = [shown |-> m, used |-> m, backup |-> models.backup]
        BY <1>a, <4>1
      <4> QED
        BY <4>2 DEF Modelling
    <3>2. CASE Fast
      BY <3>2 DEF Fast, Modelling
    <3>3. CASE Effort
      <4>1. models' = [shown |-> models.backup, used |-> models.backup, backup |-> models.backup]
        BY <1>a, <3>3 DEF Effort
      <4>2. models.backup \in Models
        BY <3>3 DEF Effort, Modelling
      <4> QED
        BY <4>1, <4>2
    <3> QED
      BY <1>1, <3>1, <3>2, <3>3
  <2> QED
    BY <2>1 DEF Modelling
<1>2. CASE ~(SwitchModel \/ Fast \/ Effort)
  <2>1. UNCHANGED models
    BY <1>2, RunLeaves DEF ReplNext, replVars, Clear, Compact, New, Quit, Prompt, Review, Resume,
                           ResumePrompt
  <2> QED
    BY <2>1 DEF Modelling
<1> QED
  BY <1>1, <1>2

LEMMA Building ==
  ASSUME Opened, mode # "quit", NEW s, NEW holds \in BOOLEAN, Build(s, holds)
  PROVE  /\ open' \in [configured : BOOLEAN, held : BOOLEAN, mcp : Nat, teams : Nat]
         /\ open'.held => open'.mcp > 0
<1> DEFINE connects == open.configured /\ ~open.held
           more == IF connects THEN open.mcp + 1 ELSE open.mcp
           held == open.held \/ (connects /\ holds)
<1>1. open' = [open EXCEPT !.teams = open.teams + 1, !.mcp = more, !.held = held]
  BY DEF Build
<1>2. more \in Nat /\ held \in BOOLEAN /\ open.teams + 1 \in Nat /\ (held => more > 0)
  BY DEF Opened
<1> HIDE DEF more, held
<1>3. open' = [configured |-> open.configured, held |-> held, mcp |-> more,
               teams |-> open.teams + 1]
  BY <1>1 DEF Opened
<1> QED
  BY <1>2, <1>3 DEF Opened

LEMMA OpenedNext == Opened /\ Modes /\ Lists /\ [ReplNext]_replVars => Opened'
<1> SUFFICES ASSUME Opened, Modes, Lists, [ReplNext]_replVars PROVE Opened'
  OBVIOUS
<1>1. CASE Prompt \/ Review
  <2>1. Build(current, FALSE) /\ mode = "main" /\ mode' = "main"
    BY <1>1 DEF Prompt, Review, AtPrompt
  <2> QED
    BY <2>1, Building DEF Opened
<1>2. CASE Resume
  <2>1. /\ mode = "main"
        /\ \E s \in created : (Build(s, TRUE) /\ mode' = "resume") \/ UNCHANGED <<open, mode>>
    BY <1>2 DEF Resume, AtPrompt
  <2>2. ASSUME NEW s \in created, Build(s, TRUE), mode' = "resume" PROVE Opened'
    BY <2>1, <2>2, Building DEF Opened
  <2> QED
    BY <2>1, <2>2 DEF Opened
<1>3. CASE Quit
  <2>1. CASE mode = "resume"
    BY <1>3, <2>1 DEF Quit, Opened
  <2>2. CASE mode # "resume"
    <3> DEFINE rest == IF open.held THEN open.mcp - 1 ELSE open.mcp
    <3>1. open' = [open EXCEPT !.teams = 0, !.mcp = rest]
      BY <1>3, <2>2 DEF Quit
    <3>2. rest \in Nat /\ mode' = "quit"
      BY <1>3, <2>2 DEF Quit, Opened
    <3> HIDE DEF rest
    <3>3. open' = [configured |-> open.configured, held |-> open.held, mcp |-> rest, teams |-> 0]
      BY <3>1 DEF Opened
    <3> QED
      BY <3>2, <3>3 DEF Opened
  <2> QED
    BY <2>1, <2>2
<1>4. CASE ~(Prompt \/ Review \/ Resume \/ Quit)
  <2>1. UNCHANGED <<open, mode>>
    BY <1>4, RunLeaves DEF ReplNext, replVars, Clear, Compact, New, SwitchModel, Fast, Effort,
                           ResumePrompt
  <2> QED
    BY <2>1 DEF Opened
<1> QED
  BY <1>1, <1>2, <1>3, <1>4

-----------------------------------------------------------------------------
(* Messages.                                                               *)

\* A message of the run that is under way.
LEMMA NewMessage ==
  ASSUME Modes, running, NEW kind \in {"prompt", "call", "result", "answer"}
  PROVE  Msg(kind) \in Plain /\ Msg(kind).session = current /\ Msg(kind).kind = kind
<1>1. prompts \in 1 .. MaxPrompts /\ config \in Ids /\ config = current
  BY DEF Modes
<1> QED
  BY <1>1 DEF Msg, Plain

\* The messages of the list that the turn has not tried to store.
Slice == {conv[i] : i \in prev + 1 .. Len(conv)}

LEMMA UnsavedIs ==
  /\ place = "append" => Unsaved = {Msg(reply)} \cup Slice
  /\ place \in {"tools", "save", "last"} => Unsaved = Slice
  /\ place \notin {"append", "tools", "save", "last"} => Unsaved = {}
  BY DEF Unsaved, Slice

LEMMA UnsavedNow ==
  /\ place' = "append" => Unsaved' = {Msg(reply)'} \cup Slice'
  /\ place' \in {"tools", "save", "last"} => Unsaved' = Slice'
  /\ place' \notin {"append", "tools", "save", "last"} => Unsaved' = {}
  BY DEF Unsaved, Slice

LEMMA KnownIsPlain ==
  ASSUME Modes, Lists
  PROVE  Known \subseteq Plain /\ (~running => Known = Recalled(history) /\ Unsaved = {})
<1>1. Recalled(history) \subseteq Plain /\ Recalled(conv) \subseteq Plain
  BY RecalledAre DEF Lists
<1>2. Said \subseteq Plain
  <2>1. CASE running
    <3>1. \A i \in 1 .. Len(events) : events[i] \in Kinds
      BY DEF Lists
    <3>2. \A i \in 1 .. Len(events) : Msg(events[i]) \in Plain
      BY <2>1, <3>1, NewMessage DEF Kinds
    <3> QED
      BY <3>2 DEF Said
  <2>2. CASE ~running
    BY <2>2 DEF Lists, Said
  <2> QED
    BY <2>1, <2>2
<1>3. ~running => Recalled(conv) = {} /\ Said = {} /\ Unsaved = {}
  BY NothingRecalled, UnsavedIs DEF Lists, Said, running
<1> QED
  BY <1>1, <1>2, <1>3 DEF Known

LEMMA SaidNext ==
  ASSUME Lists, UNCHANGED <<config, prompts>>
  PROVE  /\ events' = events => Said' = Said
         /\ \A kind \in Kinds : events' = Append(events, kind) =>
              events' \in Seq(Kinds) /\ Said' = Said \cup {Msg(kind)}
         /\ events # << >> /\ events' = Tail(events) =>
              events' \in Seq(Kinds) /\ Said' \subseteq Said /\ Head(events) \in Kinds
<1>1. events \in Seq(Kinds) /\ \A kind : Msg(kind)' = Msg(kind)
  BY DEF Lists, Msg
<1>2. Said' = {Msg(events'[i]) : i \in 1 .. Len(events')}
  BY <1>1 DEF Said, Msg
<1>3. ASSUME NEW kind \in Kinds, events' = Append(events, kind)
      PROVE  events' \in Seq(Kinds) /\ Said' = Said \cup {Msg(kind)}
  <2>1. /\ events' \in Seq(Kinds) /\ Len(events') = Len(events) + 1
        /\ events'[Len(events) + 1] = kind /\ \A i \in 1 .. Len(events) : events'[i] = events[i]
    BY <1>1, <1>3
  <2>2. Len(events) \in Nat
    BY <1>1
  <2>3. ASSUME NEW m PROVE m \in Said' <=> m \in Said \/ m = Msg(kind)
    <3>1. m \in Said' <=> \E i \in 1 .. Len(events) + 1 : m = Msg(events'[i])
      BY <1>2, <2>1
    <3>2. m \in Said <=> \E i \in 1 .. Len(events) : m = Msg(events[i])
      BY DEF Said
    <3> QED
      BY <2>1, <2>2, <3>1, <3>2
  <2> QED
    BY <2>1, <2>3
<1>4. ASSUME events # << >>, events' = Tail(events)
      PROVE  events' \in Seq(Kinds) /\ Said' \subseteq Said /\ Head(events) \in Kinds
  <2>1. /\ events' \in Seq(Kinds) /\ Len(events') = Len(events) - 1 /\ Len(events) \in Nat
        /\ \A i \in 1 .. Len(events') : events'[i] = events[i + 1]
    BY <1>1, <1>4
  <2>2. Head(events) \in Kinds
    BY <1>1, <1>4
  <2>3. \A i \in 1 .. Len(events') : i + 1 \in 1 .. Len(events)
    BY <2>1
  <2>4. Said' \subseteq Said
    BY <1>2, <2>1, <2>3 DEF Said
  <2> QED
    BY <2>1, <2>2, <2>4
<1>5. events' = events => Said' = Said
  BY <1>2 DEF Said
<1> QED
  BY <1>3, <1>4, <1>5

-----------------------------------------------------------------------------
(* The ways in which what is known, and whose it is, can change.           *)

Forgets == Known' = {}
Loads == UNCHANGED db /\ \E s \in Sessions : current' = s /\ Known' \subseteq Recalled(db[s])
Strays ==
  /\ UNCHANGED db /\ Known' = Known
  /\ ~strayed' => Known = {} \/ (current' = current /\ ~strayed)
\* Messages of the current session, each of which need not be stored, is lost,
\* or is yet to be stored.
Gains(N) ==
  /\ UNCHANGED <<current, strayed>> /\ Known' \subseteq Known \cup N
  /\ \A m \in N : /\ m \in Plain /\ m.session = current
                  /\ m.kind = "prompt" \/ m \in lost' \/ m \in Unsaved'

\* What was yet to be stored still is, or is stored or lost.
UnsavedGoes == \A m \in Unsaved : m \in Plain => m \in Unsaved' \/ Accounted(m)'

\* The list of a turn that goes on.
LEMMA SliceNext ==
  ASSUME Modes, Lists, running, place \in Counted, UNCHANGED <<prev, config>>, NEW m \in Plain,
         m.session = current, NEW h, NEW g, Grown(conv, h, conv', g, m)
  PROVE  /\ prev' <= Len(conv') /\ m \in Slice' /\ Slice \subseteq Slice'
         /\ \A i \in prev' + 1 .. Len(conv') : conv'[i] \in Plain => conv'[i].session = config'
<1>1. /\ Len(conv') = Len(conv) + 1 /\ conv'[Len(conv) + 1] = m
      /\ \A i \in 1 .. Len(conv) : conv'[i] = conv[i]
  BY DEF Grown
<1>2. prev \in Nat /\ Len(conv) \in Nat /\ prev <= Len(conv) /\ config = current
  BY DEF Modes, Lists
<1>3. \A i \in prev + 1 .. Len(conv') : i \in prev + 1 .. Len(conv) \/ i = Len(conv) + 1
  BY <1>1, <1>2
<1>4. \A i \in prev + 1 .. Len(conv) : conv[i] \in Plain => conv[i].session = config
  BY DEF Lists
<1>5. \A i \in prev + 1 .. Len(conv) : i \in 1 .. Len(conv) /\ i \in prev + 1 .. Len(conv')
  BY <1>1, <1>2
<1>6. Len(conv) + 1 \in prev + 1 .. Len(conv') /\ prev' <= Len(conv')
  BY <1>1, <1>2
<1>7. \A i \in prev' + 1 .. Len(conv') : conv'[i] \in Plain => conv'[i].session = config'
  BY <1>1, <1>2, <1>3, <1>4, <1>5
<1>8. m \in Slice'
  BY <1>1, <1>6 DEF Slice
<1>9. Slice \subseteq Slice'
  BY <1>1, <1>5 DEF Slice
<1> QED
  BY <1>6, <1>7, <1>8, <1>9

-----------------------------------------------------------------------------
(* The steps of a run.                                                     *)

RunStep(N) == Lists' /\ Gains(N) /\ UnsavedGoes

\* A summary of the list recalls what the list did.
LEMMA Summarising ==
  ASSUME Lists, Summarises
  PROVE  /\ conv' \in Seq(Message) /\ Recalled(conv') = Recalled(conv) /\ Len(conv') = 2
         /\ \A i \in 1 .. 2 : conv'[i] \notin Plain
  BY SummaryRecalls DEF Lists, Summarises

LEMMA TurnNext ==
  ASSUME Modes, Lists, Turn
  PROVE  RunStep({})
<1>1. /\ place = "turn" /\ place' = "ask"
      /\ UNCHANGED <<current, strayed, config, prompts, history, db, events, lost>>
      /\ (prev' = Len(conv) /\ conv' = conv) \/ (prev' = 0 /\ Summarises)
  BY DEF Turn, replFrame, ghosts
<1>2. /\ conv' \in Seq(Message) /\ Recalled(conv') = Recalled(conv) /\ prev' <= Len(conv')
      /\ \A i \in prev' + 1 .. Len(conv') : conv'[i] \notin Plain
  <2>1. CASE prev' = Len(conv) /\ conv' = conv
    <3>1. conv \in Seq(Message) /\ Len(conv) \in Nat
      BY DEF Lists
    <3> QED
      BY <2>1, <3>1
  <2>2. CASE prev' = 0 /\ Summarises
    <3>1. /\ conv' \in Seq(Message) /\ Recalled(conv') = Recalled(conv) /\ Len(conv') = 2
          /\ \A i \in 1 .. 2 : conv'[i] \notin Plain
      BY <2>2, Summarising
    <3> QED
      BY <2>2, <3>1
  <2> QED
    BY <1>1, <2>1, <2>2
<1>3. Said' = Said
  BY <1>1, SaidNext
<1>4. Lists'
  BY <1>1, <1>2 DEF Lists, running
<1>5. Gains({})
  BY <1>1, <1>2, <1>3 DEF Gains, Known
<1>6. UnsavedGoes
  BY <1>1, UnsavedIs DEF UnsavedGoes
<1> QED
  BY <1>4, <1>5, <1>6 DEF RunStep

LEMMA AnswerNext ==
  ASSUME Modes, Lists, Answer
  PROVE  \E N : RunStep(N)
<1>1. /\ place = "ask" /\ place' = "append"
      /\ UNCHANGED <<current, strayed, config, prompts, history, db, conv, prev, lost>>
  BY DEF Answer, replFrame, ghosts
<1>2. PICK kind \in Kinds : reply' = kind /\ events' = Append(events, kind)
  BY DEF Answer, Kinds
<1> DEFINE m == Msg(kind)
<1>3. m \in Plain /\ m.session = current
  BY <1>1, NewMessage DEF running, Kinds
<1>4. events' \in Seq(Kinds) /\ Said' = Said \cup {m}
  BY <1>1, <1>2, SaidNext
<1>5. m \in Unsaved'
  <2>1. Msg(reply)' = m
    BY <1>1, <1>2 DEF Msg
  <2> QED
    BY <1>1, <2>1, UnsavedNow
<1> HIDE DEF m
<1>6. Lists'
  BY <1>1, <1>4 DEF Lists, running, Counted
<1>7. Gains({m})
  BY <1>1, <1>3, <1>4, <1>5 DEF Gains, Known
<1>8. UnsavedGoes
  BY <1>1, UnsavedIs DEF UnsavedGoes
<1> QED
  BY <1>6, <1>7, <1>8 DEF RunStep

\* What the REPL hears of an answer that the run gave up is lost.
LEMMA Discarding ==
  ASSUME Modes, Lists, running, UNCHANGED <<config, prompts>>, Discards
  PROVE  \E N : /\ events' \in Seq(Kinds) /\ Said' = Said \cup N /\ lost' = lost \cup N
                /\ \A m \in N : m \in Plain /\ m.session = current
<1>1. CASE UNCHANGED <<events, lost>>
  <2>1. Said' = Said /\ events' \in Seq(Kinds)
    BY <1>1, SaidNext DEF Lists
  <2>2. Said' = Said \cup {} /\ lost' = lost \cup {}
    BY <1>1, <2>1
  <2> QED
    BY <2>1, <2>2
<1>2. ASSUME NEW kind \in Kinds, events' = Append(events, kind), lost' = lost \cup {Msg(kind)}
      PROVE  \E N : /\ events' \in Seq(Kinds) /\ Said' = Said \cup N /\ lost' = lost \cup N
                    /\ \A m \in N : m \in Plain /\ m.session = current
  <2>1. Msg(kind) \in Plain /\ Msg(kind).session = current
    BY NewMessage DEF Kinds
  <2>2. events' \in Seq(Kinds) /\ Said' = Said \cup {Msg(kind)}
    BY <1>2, SaidNext
  <2> DEFINE N == {Msg(kind)}
  <2>3. \A m \in N : m \in Plain /\ m.session = current
    BY <2>1
  <2>4. events' \in Seq(Kinds) /\ Said' = Said \cup N /\ lost' = lost \cup N
    BY <1>2, <2>2
  <2> HIDE DEF N
  <2> QED
    BY <2>3, <2>4
<1> QED
  BY <1>1, <1>2 DEF Discards, Kinds

\* Retry and Fail.
LEMMA GivingUp ==
  ASSUME Modes, Lists, Retry \/ Fail
  PROVE  \E N : RunStep(N)
<1>1. /\ place \in {"turn", "ask"} /\ place' \in {"turn", "over"} /\ Discards
      /\ UNCHANGED <<current, strayed, config, prompts, history, db>>
      /\ conv' = conv \/ Summarises
  BY DEF Retry, Fail, Discards, replFrame
<1>2. PICK N : /\ events' \in Seq(Kinds) /\ Said' = Said \cup N /\ lost' = lost \cup N
               /\ \A m \in N : m \in Plain /\ m.session = current
  BY <1>1, Discarding DEF running
<1>3. conv' \in Seq(Message) /\ Recalled(conv') = Recalled(conv)
  BY <1>1, Summarising DEF Lists
<1>4. lost' \subseteq Message
  BY <1>2 DEF Lists, Message
<1>5. Lists'
  BY <1>1, <1>2, <1>3, <1>4 DEF Lists, running, Counted
<1>6. Gains(N)
  BY <1>1, <1>2, <1>3 DEF Gains, Known
<1>7. UnsavedGoes
  BY <1>1, UnsavedIs DEF UnsavedGoes
<1> QED
  BY <1>5, <1>6, <1>7 DEF RunStep

LEMMA KeepNext ==
  ASSUME Modes, Lists, Keep
  PROVE  \E N : RunStep(N)
<1> DEFINE m == Msg(reply)
<1>1. /\ place = "append" /\ place' \in {"tools", "last"} /\ Appends(conv, history, m)
      /\ UNCHANGED <<current, strayed, config, prompts, db, prev, events, lost>>
  BY DEF Keep, replFrame, ghosts
<1>2. m \in Plain /\ m.session = current
  BY <1>1, NewMessage DEF running, Kinds, Modes
<1> HIDE DEF m
<1>3. Grown(conv, history, conv', history', m)
  BY <1>1, <1>2, ConvGrows
<1>4. /\ prev' <= Len(conv') /\ m \in Slice' /\ Slice \subseteq Slice'
      /\ \A i \in prev' + 1 .. Len(conv') : conv'[i] \in Plain => conv'[i].session = config'
  BY <1>1, <1>2, <1>3, SliceNext DEF running, Counted
<1>5. Unsaved = {m} \cup Slice /\ Unsaved' = Slice'
  BY <1>1, UnsavedIs, UnsavedNow DEF m
<1>6. Said' = Said
  BY <1>1, SaidNext
<1>7. Lists'
  BY <1>1, <1>3, <1>4 DEF Lists, Grown, running
<1>8. Gains({m})
  BY <1>1, <1>2, <1>3, <1>4, <1>5, <1>6 DEF Gains, Known, Grown
<1>9. UnsavedGoes
  BY <1>4, <1>5 DEF UnsavedGoes
<1> QED
  BY <1>7, <1>8, <1>9 DEF RunStep

LEMMA AddResultsNext ==
  ASSUME Modes, Lists, AddResults
  PROVE  \E N : RunStep(N)
<1> DEFINE m == Msg("result")
<1>1. /\ place = "tools" /\ place' \in {"save", "last"} /\ Appends(conv, history, m)
      /\ UNCHANGED <<current, strayed, config, prompts, db, prev, events, lost>>
  BY DEF AddResults, replFrame, ghosts
<1>2. m \in Plain /\ m.session = current
  BY <1>1, NewMessage DEF running
<1> HIDE DEF m
<1>3. Grown(conv, history, conv', history', m)
  BY <1>1, <1>2, ConvGrows
<1>4. /\ prev' <= Len(conv') /\ m \in Slice' /\ Slice \subseteq Slice'
      /\ \A i \in prev' + 1 .. Len(conv') : conv'[i] \in Plain => conv'[i].session = config'
  BY <1>1, <1>2, <1>3, SliceNext DEF running, Counted
<1>5. Unsaved = Slice /\ Unsaved' = Slice'
  BY <1>1, UnsavedIs, UnsavedNow
<1>6. Said' = Said
  BY <1>1, SaidNext
<1>7. Lists'
  BY <1>1, <1>3, <1>4 DEF Lists, Grown, running
<1>8. Gains({m})
  BY <1>1, <1>2, <1>3, <1>4, <1>5, <1>6 DEF Gains, Known, Grown
<1>9. UnsavedGoes
  BY <1>4, <1>5 DEF UnsavedGoes
<1> QED
  BY <1>7, <1>8, <1>9 DEF RunStep

LEMMA InterruptNext ==
  ASSUME Modes, Lists, Interrupt
  PROVE  \E N : RunStep(N)
<1> DEFINE m == Msg("result")
<1>1. /\ place \in {"ask", "append"} /\ place' = "last"
      /\ UNCHANGED <<current, strayed, config, prompts, db, prev, events>>
      /\ Appends(conv, history, m) \/ UNCHANGED <<conv, history>>
      /\ lost' = IF place = "append" THEN lost \cup {Msg(reply)} ELSE lost
  BY DEF Interrupt, replFrame
<1>2. m \in Plain /\ m.session = current
  BY <1>1, NewMessage DEF running
<1>3. place = "append" => Msg(reply) \in Message
  BY <1>1, NewMessage DEF running, Modes, Kinds, Message
<1> HIDE DEF m
<1>4. Said' = Said /\ Unsaved' = Slice' /\ Unsaved \subseteq Slice \cup lost' /\ lost' \subseteq Message
  <2>1. CASE place = "append"
    BY <1>1, <1>3, <2>1, SaidNext, UnsavedIs, UnsavedNow DEF Lists
  <2>2. CASE place = "ask"
    BY <1>1, <2>2, SaidNext, UnsavedIs, UnsavedNow DEF Lists
  <2> QED
    BY <1>1, <2>1, <2>2
<1>5. CASE Appends(conv, history, m)
  <2>1. Grown(conv, history, conv', history', m)
    BY <1>2, <1>5, ConvGrows
  <2>2. /\ prev' <= Len(conv') /\ m \in Slice' /\ Slice \subseteq Slice'
        /\ \A i \in prev' + 1 .. Len(conv') : conv'[i] \in Plain => conv'[i].session = config'
    BY <1>1, <1>2, <2>1, SliceNext DEF running, Counted
  <2>3. Lists'
    BY <1>1, <1>4, <2>1, <2>2 DEF Lists, Grown, running
  <2>4. Gains({m})
    BY <1>1, <1>2, <1>4, <2>1, <2>2 DEF Gains, Known, Grown
  <2>5. UnsavedGoes
    BY <1>4, <2>2 DEF UnsavedGoes, Accounted
  <2> QED
    BY <2>3, <2>4, <2>5 DEF RunStep
<1>6. CASE UNCHANGED <<conv, history>>
  <2>1. Slice' = Slice
    BY <1>1, <1>6 DEF Slice
  <2>2. Lists'
    BY <1>1, <1>4, <1>6 DEF Lists, running, Counted
  <2>3. Gains({})
    BY <1>1, <1>4, <1>6 DEF Gains, Known
  <2>4. UnsavedGoes
    BY <1>4, <2>1 DEF UnsavedGoes, Accounted
  <2> QED
    BY <2>2, <2>3, <2>4 DEF RunStep
<1> QED
  BY <1>1, <1>5, <1>6

LEMMA HearNext ==
  ASSUME Modes, Lists, Hear
  PROVE  \E N : RunStep(N)
<1> DEFINE m == Msg(Head(events))
<1>1. /\ events # << >> /\ events' = Tail(events) /\ Appends(history, conv, m)
      /\ UNCHANGED <<place, prev, reply, current, strayed, config, prompts, db>>
      /\ lost' = lost \cup (Unsaved \ Unsaved')
  BY DEF Hear, replFrame
<1>2. running
  BY <1>1 DEF Lists
<1>3. Head(events) \in Kinds /\ events' \in Seq(Kinds) /\ Said' \subseteq Said
  BY <1>1, SaidNext
<1>4. m \in Plain /\ m.session = current /\ m \in Known
  <2>1. m \in Said
    <3>1. events \in Seq(Kinds)
      BY DEF Lists
    <3>2. 1 \in 1 .. Len(events) /\ Head(events) = events[1]
      BY <1>1, <3>1
    <3> QED
      BY <3>2 DEF Said
  <2> QED
    BY <1>2, <1>3, <2>1, NewMessage DEF Kinds, Known
<1> HIDE DEF m
<1>5. Grown(history, conv, history', conv', m)
  BY <1>1, <1>4, HistoryGrows
<1>6. lost' \subseteq Message
  <2>1. Slice \subseteq Message
    <3>1. conv \in Seq(Message) /\ prev \in Nat /\ Len(conv) \in Nat
      BY DEF Lists, Modes
    <3>2. \A i \in prev + 1 .. Len(conv) : i \in 1 .. Len(conv)
      BY <3>1
    <3> QED
      BY <3>1, <3>2 DEF Slice
  <2>2. place = "append" => Msg(reply) \in Message
    BY NewMessage DEF running, Modes, Kinds, Message
  <2>3. Unsaved \subseteq Message
    BY <2>1, <2>2, UnsavedIs
  <2> QED
    BY <1>1, <2>3 DEF Lists
<1>7. place \in Counted =>
        /\ prev' <= Len(conv')
        /\ \A i \in prev' + 1 .. Len(conv') : conv'[i] \in Plain => conv'[i].session = config'
  <2> SUFFICES ASSUME place \in Counted
               PROVE  /\ prev <= Len(conv')
                      /\ \A i \in prev + 1 .. Len(conv') : conv'[i] \in Plain => conv'[i].session = config
    BY <1>1
  <2>1. /\ prev <= Len(conv) /\ prev \in Nat /\ Len(conv) \in Nat /\ config = current
        /\ \A i \in prev + 1 .. Len(conv) : conv[i] \in Plain => conv[i].session = config
    BY <1>2 DEF Lists, Modes
  <2>2. /\ Len(conv') = Len(conv)
        /\ \A i \in 1 .. Len(conv) : conv'[i] = conv[i] \/ conv'[i] = m
    BY <1>5 DEF Grown
  <2>3. \A i \in prev + 1 .. Len(conv) : i \in 1 .. Len(conv)
    BY <2>1
  <2> QED
    BY <1>4, <2>1, <2>2, <2>3
<1>8. Lists'
  BY <1>1, <1>2, <1>3, <1>5, <1>6, <1>7 DEF Lists, Grown, running
<1>9. Gains({})
  <2>1. Known' \subseteq Known
    BY <1>3, <1>4, <1>5 DEF Known, Grown
  <2> QED
    BY <1>1, <2>1 DEF Gains
<1>10. UnsavedGoes
  BY <1>1 DEF UnsavedGoes, Accounted
<1> QED
  BY <1>8, <1>9, <1>10 DEF RunStep

\* AppendMessages: what of the list it stores, and what it loses.
LEMMA Storing ==
  ASSUME Modes, Lists, place \in {"save", "last"}, Stores(SubSeq(conv, prev + 1, Len(conv)))
  PROVE  /\ db' \in [Sessions -> Seq(Message)] /\ lost' \subseteq Message
         /\ lost \subseteq lost' /\ mixed \subseteq mixed'
         /\ \A s \in Sessions : ToSet(db[s]) \subseteq ToSet(db'[s])
         /\ \A m \in Slice : config = none \/ m \in ToSet(db'[config]) \/ m \in lost'
         /\ \A s \in Sessions : \A m \in Recalled(db'[s]) :
              \/ m \in Recalled(db[s])
              \/ /\ s = config /\ m \in Recalled(conv)
                 /\ strayed /\ s \notin mixed' => m.session = s
<1>1. CASE config = none
  BY <1>1 DEF Stores, Lists
<1>2. CASE config # none
  <2> DEFINE ms == SubSeq(conv, prev + 1, Len(conv))
  <2>1. config \in Sessions
    BY <1>2 DEF Modes, Ids
  <2>2. PICK n \in 0 .. Len(ms) :
          /\ db' = [db EXCEPT ![config] = @ \o SubSeq(ms, 1, n)]
          /\ lost' = lost \cup {ms[i] : i \in n + 1 .. Len(ms)}
          /\ mixed' = IF strayed /\ \E i \in 1 .. n : ms[i] \notin Plain
                      THEN mixed \cup {config} ELSE mixed
    BY <1>2 DEF Stores
  <2>3. conv \in Seq(Message) /\ prev \in Nat /\ Len(conv) \in Nat /\ prev <= Len(conv)
    BY DEF Modes, Lists, Counted
  <2>4. /\ ms \in Seq(Message) /\ Len(ms) = Len(conv) - prev
        /\ \A i \in 1 .. Len(ms) : prev + i \in prev + 1 .. Len(conv) /\ ms[i] = conv[prev + i]
    BY <2>3
  <2>5. /\ \A i \in 1 .. Len(ms) : prev + i \in 1 .. Len(conv)
        /\ \A j \in prev + 1 .. Len(conv) : j - prev \in 1 .. Len(ms) /\ prev + (j - prev) = j
    <3>1. Len(ms) = Len(conv) - prev /\ prev \in Nat /\ Len(conv) \in Nat /\ prev <= Len(conv)
      BY <2>3, <2>4
    <3> HIDE DEF ms
    <3>2. \A i \in 1 .. Len(ms) : prev + i \in 1 .. Len(conv)
      BY <3>1
    <3>3. \A j \in prev + 1 .. Len(conv) : j - prev \in 1 .. Len(ms) /\ prev + (j - prev) = j
      BY <3>1
    <3> QED
      BY <3>2, <3>3
  <2> HIDE DEF ms
  <2> DEFINE part == SubSeq(ms, 1, n)
             old == db[config]
             new == old \o part
  <2>6. n \in Nat /\ n <= Len(ms) /\ Len(ms) \in Nat
    BY <2>4
  <2>7. part \in Seq(Message) /\ Len(part) = n /\ \A i \in 1 .. n : part[i] = ms[i]
    BY <2>4, <2>6
  <2> HIDE DEF part
  <2>8. old \in Seq(Message)
    BY <2>1 DEF Lists
  <2> HIDE DEF old
  <2>9. /\ new \in Seq(Message) /\ Len(new) = Len(old) + n /\ Len(old) \in Nat
        /\ \A i \in 1 .. Len(old) : new[i] = old[i]
        /\ \A i \in 1 .. n : new[Len(old) + i] = part[i]
    BY <2>7, <2>8
  <2>10. Recalled(new) = Recalled(old) \cup Recalled(part)
    BY <2>7, <2>8, RecalledJoined
  <2>11. DOMAIN old = 1 .. Len(old) /\ DOMAIN new = 1 .. Len(new)
    BY <2>8, <2>9
  <2>12. db' = [db EXCEPT ![config] = new]
    BY <2>2 DEF old, part
  <2> HIDE DEF new
  <2>13. db' \in [Sessions -> Seq(Message)] /\ db'[config] = new
         /\ \A s \in Sessions : s # config => db'[s] = db[s]
    BY <2>1, <2>9, <2>12 DEF Lists
  <2>14. ToSet(old) \subseteq ToSet(new)
    <3>1. \A i \in 1 .. Len(old) : i \in 1 .. Len(new)
      BY <2>6, <2>9
    <3> QED
      BY <2>9, <2>11, <3>1 DEF ToSet
  <2>15. \A i \in 1 .. n : ms[i] \in ToSet(new)
    <3>1. \A i \in 1 .. n : Len(old) + i \in 1 .. Len(new)
      BY <2>6, <2>9
    <3> QED
      BY <2>7, <2>9, <2>11, <3>1 DEF ToSet
  <2>16. \A m \in Slice : m \in ToSet(new) \/ m \in lost'
    <3>1. SUFFICES ASSUME NEW j \in prev + 1 .. Len(conv)
                   PROVE  conv[j] \in ToSet(new) \/ conv[j] \in lost'
      BY DEF Slice
    <3>2. PICK i \in 1 .. Len(ms) : ms[i] = conv[j]
      BY <2>4, <2>5
    <3>3. CASE i \in 1 .. n
      BY <2>15, <3>2, <3>3
    <3>4. CASE i \notin 1 .. n
      <4>1. i \in n + 1 .. Len(ms)
        BY <2>6, <3>4
      <4> QED
        BY <2>2, <3>2, <4>1
    <3> QED
      BY <3>3, <3>4
  <2>17. lost' \subseteq Message /\ lost \subseteq lost' /\ mixed \subseteq mixed'
    <3>1. \A i \in n + 1 .. Len(ms) : i \in 1 .. Len(ms)
      BY <2>6
    <3>2. \A i \in n + 1 .. Len(ms) : ms[i] \in Message
      BY <2>4, <3>1
    <3> QED
      BY <2>2, <3>2 DEF Lists
  <2>18. ASSUME NEW m \in Recalled(part)
         PROVE  m \in Recalled(conv) /\ (strayed /\ config \notin mixed' => m.session = config)
    <3>1. PICK i \in 1 .. n : m \in Meant(ms[i])
      BY <2>7, RecalledAre
    <3>2. i \in 1 .. Len(ms)
      BY <2>6
    <3>3. prev + i \in 1 .. Len(conv) /\ prev + i \in prev + 1 .. Len(conv) /\ ms[i] = conv[prev + i]
      BY <2>4, <2>5, <3>2
    <3>4. m \in Recalled(conv)
      BY <2>3, <3>1, <3>3, RecalledAre
    <3>5. ASSUME strayed, config \notin mixed' PROVE m.session = config
      <4>1. ms[i] \in Plain
        BY <2>2, <3>5
      <4>2. conv[prev + i] \in Plain => conv[prev + i].session = config
        BY <3>3 DEF Lists, Counted
      <4>3. m = ms[i]
        BY <3>1, <4>1 DEF Meant
      <4> QED
        BY <3>3, <4>1, <4>2, <4>3
    <3> QED
      BY <3>4, <3>5
  <2>19. ASSUME NEW s \in Sessions, NEW m \in Recalled(db'[s])
         PROVE  \/ m \in Recalled(db[s])
                \/ /\ s = config /\ m \in Recalled(conv)
                   /\ strayed /\ s \notin mixed' => m.session = s
    <3>1. CASE s = config
      <4>1. m \in Recalled(old) \/ m \in Recalled(part)
        BY <2>10, <2>13, <2>19, <3>1
      <4> QED
        BY <2>18, <3>1, <4>1 DEF old
    <3>2. CASE s # config
      BY <2>13, <2>19, <3>2
    <3> QED
      BY <3>1, <3>2
  <2>20. \A s \in Sessions : ToSet(db[s]) \subseteq ToSet(db'[s])
    BY <2>13, <2>14 DEF old
  <2> QED
    BY <2>13, <2>16, <2>17, <2>19, <2>20
<1> QED
  BY <1>1, <1>2

LEMMA SaveNext ==
  ASSUME Modes, Lists, Save
  PROVE  RunStep({})
<1>1. /\ place \in {"save", "last"} /\ place' \in {"turn", "over"}
      /\ UNCHANGED <<current, strayed, config, prompts, history, conv, events>>
      /\ Stores(SubSeq(conv, prev + 1, Len(conv)))
  BY DEF Save, replFrame
<1>2. /\ db' \in [Sessions -> Seq(Message)] /\ lost' \subseteq Message
      /\ \A m \in Slice : config = none \/ m \in ToSet(db'[config]) \/ m \in lost'
  BY <1>1, Storing
<1>3. Said' = Said
  BY <1>1, SaidNext
<1>4. Lists'
  BY <1>1, <1>2 DEF Lists, running, Counted
<1>5. Gains({})
  BY <1>1, <1>3 DEF Gains, Known
<1>6. UnsavedGoes
  <2>1. Unsaved = Slice
    BY <1>1, UnsavedIs
  <2>2. \A m \in Slice : m \in Plain => m.session = config
    BY <1>1 DEF Slice, Lists, Counted
  <2> QED
    BY <1>2, <2>1, <2>2 DEF UnsavedGoes, Accounted
<1> QED
  BY <1>4, <1>5, <1>6 DEF RunStep

LEMMA EndRunNext ==
  ASSUME Modes, Lists, EndRun
  PROVE  Lists' /\ UnsavedGoes /\ (Loads \/ Gains({}))
<1>1. /\ place = "over" /\ place' = "idle" /\ events = << >> /\ conv' = << >>
      /\ UNCHANGED <<current, strayed, config, prompts, db, events, lost>>
      /\ (config # none /\ history' = db[config]) \/ history' = history
  BY DEF EndRun, replFrame, ghosts
<1>2. config = current /\ (config # none => config \in Sessions)
  BY <1>1 DEF Modes, running, Ids
<1>3. Recalled(conv') = {} /\ conv' \in Seq(Message) /\ Said' = {}
  BY <1>1, NothingRecalled DEF Said
<1>4. Lists'
  BY <1>1, <1>2, <1>3 DEF Lists, running, Counted
<1>5. UnsavedGoes
  BY <1>1, UnsavedIs DEF UnsavedGoes
<1>6. CASE config # none /\ history' = db[config]
  <2>1. Loads
    BY <1>1, <1>2, <1>3, <1>6 DEF Loads, Known
  <2> QED
    BY <1>4, <1>5, <2>1
<1>7. CASE history' = history
  <2>1. Gains({})
    BY <1>1, <1>3, <1>7 DEF Gains, Known
  <2> QED
    BY <1>4, <1>5, <2>1
<1> QED
  BY <1>1, <1>6, <1>7

LEMMA RunMessages ==
  ASSUME Modes, Lists, RunNext
  PROVE  Lists' /\ UnsavedGoes /\ (Loads \/ \E N : Gains(N))
<1>1. CASE Turn
  BY <1>1, TurnNext DEF RunStep
<1>2. CASE Answer
  BY <1>2, AnswerNext DEF RunStep
<1>3. CASE Retry \/ Fail
  BY <1>3, GivingUp DEF RunStep
<1>4. CASE Keep
  BY <1>4, KeepNext DEF RunStep
<1>5. CASE AddResults
  BY <1>5, AddResultsNext DEF RunStep
<1>6. CASE Interrupt
  BY <1>6, InterruptNext DEF RunStep
<1>7. CASE Save
  BY <1>7, SaveNext DEF RunStep
<1>8. CASE Hear
  BY <1>8, HearNext DEF RunStep
<1>9. CASE EndRun
  BY <1>9, EndRunNext
<1> QED
  BY <1>1, <1>2, <1>3, <1>4, <1>5, <1>6, <1>7, <1>8, <1>9 DEF RunNext

-----------------------------------------------------------------------------
(* The steps between runs.                                                 *)

\* A prompt joins the list of its run, and perhaps the history.
LEMMA PromptJoins ==
  ASSUME Modes, Lists, ~running, prompts < MaxPrompts, NEW h \in {history, << >>}
  PROVE  LET m == NewPrompt(current) IN
         /\ m \in Plain /\ m.session = current /\ m.kind = "prompt"
         /\ Append(h, m) \in Seq(Message) /\ Recalled(Append(h, m)) \subseteq Known \cup {m}
<1> DEFINE m == NewPrompt(current)
<1>1. m \in Plain /\ m.session = current /\ m.kind = "prompt"
  <2>1. prompts + 1 \in 1 .. MaxPrompts
    BY BoundAssumption DEF Modes
  <2> QED
    BY <2>1 DEF NewPrompt, Plain, Modes
<1> HIDE DEF m
<1>2. h \in Seq(Message) /\ Recalled(h) \subseteq Known
  BY NothingRecalled DEF Lists, Known
<1>3. Append(h, m) \in Seq(Message) /\ Recalled(Append(h, m)) = Recalled(h) \cup {m}
  BY <1>1, <1>2, RecalledMore
<1> QED
  BY <1>1, <1>2, <1>3 DEF m

LEMMA BetweenRuns ==
  ASSUME Modes, Lists, ~running
  PROVE  Known = Recalled(history) /\ conv = << >> /\ events = << >> /\ Unsaved = {}
  BY KnownIsPlain DEF Lists

\* What is known when no run begins.
LEMMA StillIdle ==
  ASSUME Modes, Lists, ~running, UNCHANGED <<place, conv, events>>
  PROVE  Known' = Recalled(history')
<1>1. conv' = << >> /\ events' = << >>
  BY DEF Lists
<1>2. Recalled(conv') = {} /\ Said' = {}
  BY <1>1, NothingRecalled DEF Said
<1> QED
  BY <1>2 DEF Known

LEMMA StillLists ==
  ASSUME Modes, Lists, ~running, UNCHANGED <<place, conv, events, db, lost>>,
         history' \in Seq(Message)
  PROVE  Lists'
<1>1. place \notin Counted
  BY DEF running, Counted
<1> QED
  BY <1>1 DEF Lists, running

LEMMA ResumeMessages ==
  ASSUME Modes, Lists, Resume
  PROVE  Lists' /\ (Loads \/ Strays) /\ UNCHANGED <<db, lost, mixed>> /\ Unsaved = {}
<1>1. /\ ~running /\ UNCHANGED <<place, conv, events, db, lost, mixed>>
  BY DEF Resume, AtPrompt
<1>2. PICK s \in created :
        /\ current' = s
        /\ \/ history' = db[s]
           \/ strayed' = (strayed \/ (s # current /\ history # << >>)) /\ history' = history
  BY DEF Resume
<1>3. s \in Sessions
  BY DEF Modes
<1>4. Known' = Recalled(history') /\ Known = Recalled(history) /\ Unsaved = {}
  BY <1>1, BetweenRuns, StillIdle
<1>5. CASE history' = db[s]
  <2>1. history' \in Seq(Message)
    BY <1>3, <1>5 DEF Lists
  <2>2. Loads
    BY <1>1, <1>2, <1>3, <1>4, <1>5 DEF Loads
  <2> QED
    BY <1>1, <1>4, <2>1, <2>2, StillLists
<1>6. CASE strayed' = (strayed \/ (s # current /\ history # << >>)) /\ history' = history
  <2>1. history' \in Seq(Message)
    BY <1>6 DEF Lists
  <2>2. Strays
    BY <1>1, <1>2, <1>4, <1>6, NothingRecalled DEF Strays
  <2> QED
    BY <1>1, <1>4, <2>1, <2>2, StillLists
<1> QED
  BY <1>2, <1>5, <1>6

\* A run begins with the messages of h and a prompt.
LEMMA Beginning ==
  ASSUME Modes, Lists, ~running, prompts < MaxPrompts, NEW h \in {history, << >>},
         Begins(Append(h, NewPrompt(current))), config' = current,
         UNCHANGED <<current, strayed, db, lost>>,
         history' \in {history, Append(history, NewPrompt(current))}
  PROVE  Lists' /\ \E N : Gains(N)
<1> DEFINE m == NewPrompt(current)
<1>1. /\ m \in Plain /\ m.session = current /\ m.kind = "prompt"
      /\ Append(h, m) \in Seq(Message) /\ Recalled(Append(h, m)) \subseteq Known \cup {m}
      /\ Append(history, m) \in Seq(Message)
      /\ Recalled(Append(history, m)) \subseteq Known \cup {m}
  BY PromptJoins
<1>2. place' = "turn" /\ conv' = Append(h, m) /\ events' = events
      /\ (history' = history \/ history' = Append(history, m))
  BY DEF Begins
<1> HIDE DEF m
<1>3. events' = << >> /\ Known = Recalled(history)
  BY <1>2, BetweenRuns
<1>4. Lists'
  BY <1>1, <1>2 DEF Lists, running, Counted
<1>5. Said' = {}
  BY <1>3 DEF Said
<1>6. Gains({m})
  BY <1>1, <1>2, <1>3, <1>5 DEF Gains, Known
<1> QED
  BY <1>4, <1>6

LEMMA PromptMessages ==
  ASSUME Modes, Lists, Prompt \/ Review \/ ResumePrompt
  PROVE  /\ Lists' /\ (\E N : Gains(N)) /\ UNCHANGED <<db, lost, mixed>> /\ Unsaved = {}
<1>1. /\ ~running /\ prompts < MaxPrompts /\ UNCHANGED <<current, strayed, db, lost, mixed>>
      /\ config' = current
  BY DEF Prompt, Review, ResumePrompt, AtPrompt, Build, ghosts, Modes
<1>2. Unsaved = {}
  BY <1>1, BetweenRuns
<1>3. CASE Prompt /\ UNCHANGED <<place, conv, prev, turns, reply, events>>
  <2>1. history' = history /\ history \in Seq(Message)
    BY <1>3 DEF Prompt, Lists
  <2>2. Known' = Known
    BY <1>1, <1>3, <2>1, BetweenRuns, StillIdle
  <2>3. Gains({})
    BY <1>1, <2>2 DEF Gains
  <2> QED
    BY <1>1, <1>2, <1>3, <2>1, <2>3, StillLists
<1>4. CASE Prompt /\ Begins(Append(history, NewPrompt(current)))
  <2>1. history' = history
    BY <1>4 DEF Prompt
  <2> QED
    BY <1>1, <1>2, <1>4, <2>1, Beginning
<1>5. CASE Review
  <2>1. history' = history /\ Begins(<<NewPrompt(current)>>)
    BY <1>5 DEF Review
  <2>2. <<NewPrompt(current)>> = Append(<< >>, NewPrompt(current))
    OBVIOUS
  <2>3. Begins(Append(<< >>, NewPrompt(current)))
    BY <2>1, <2>2
  <2> QED
    BY <1>1, <1>2, <2>1, <2>3, Beginning
<1>6. CASE ResumePrompt
  <2>1. config = current
    BY <1>6 DEF ResumePrompt, Modes
  <2>2. history' = Append(history, NewPrompt(current)) /\ Begins(history')
    BY <1>6, <2>1 DEF ResumePrompt
  <2>3. Begins(Append(history, NewPrompt(current)))
    BY <2>2 DEF Begins
  <2> QED
    BY <1>1, <1>2, <2>2, <2>3, Beginning
<1> QED
  BY <1>3, <1>4, <1>5, <1>6 DEF Prompt

\* The commands.
LEMMA CommandMessages ==
  ASSUME Modes, Lists, Clear \/ Compact \/ New \/ SwitchModel \/ Fast \/ Effort \/ Quit
  PROVE  /\ Lists' /\ (Forgets \/ \E N : Gains(N)) /\ UNCHANGED <<db, lost, mixed>>
         /\ Unsaved = {}
<1>1. ~running /\ UNCHANGED <<place, conv, events, db, lost, mixed>>
  BY DEF Clear, Compact, New, SwitchModel, Fast, Effort, Quit, AtPrompt, runVars, ghosts
<1>2. Known' = Recalled(history') /\ Known = Recalled(history) /\ Unsaved = {}
  BY <1>1, BetweenRuns, StillIdle
<1>3. CASE Clear \/ New
  <2>1. history' = << >> /\ history' \in Seq(Message) /\ Forgets
    BY <1>2, <1>3, NothingRecalled DEF Clear, New, Forgets
  <2> QED
    BY <1>1, <1>2, <2>1, StillLists
<1>4. CASE ~(Clear \/ New)
  <2>1. UNCHANGED <<current, strayed>> /\ history' \in {history, Summary(history)}
    BY <1>4 DEF Compact, SwitchModel, Fast, Effort, Quit, ghosts
  <2>2. history' \in Seq(Message) /\ Recalled(history') = Recalled(history)
    BY <2>1, SummaryRecalls DEF Lists
  <2>3. Gains({})
    BY <1>2, <2>1, <2>2 DEF Gains
  <2> QED
    BY <1>1, <1>2, <2>2, <2>3, StillLists
<1> QED
  BY <1>3, <1>4

-----------------------------------------------------------------------------
(* All steps.                                                              *)

LEMMA MessagesNext ==
  ASSUME Modes, Lists, [ReplNext]_replVars
  PROVE  /\ Lists' /\ UnsavedGoes
         /\ Forgets \/ Loads \/ Strays \/ \E N : Gains(N)
<1>1. CASE UNCHANGED replVars
  <2>1. UNCHANGED <<place, config, prompts, conv, history, db, events, lost, prev, reply, current,
                    strayed>>
    BY <1>1 DEF replVars, runVars, ghosts
  <2>2. Known' = Known /\ Unsaved' = Unsaved /\ Lists'
    BY <2>1 DEF Known, Said, Msg, Unsaved, Lists, running
  <2>3. Gains({}) /\ UnsavedGoes
    BY <2>1, <2>2 DEF Gains, UnsavedGoes
  <2> QED
    BY <2>2, <2>3
<1>2. CASE RunNext
  BY <1>2, RunMessages
<1>3. CASE Resume
  BY <1>3, ResumeMessages DEF UnsavedGoes
<1>4. CASE Prompt \/ Review \/ ResumePrompt
  BY <1>4, PromptMessages DEF UnsavedGoes
<1>5. CASE Clear \/ Compact \/ New \/ SwitchModel \/ Fast \/ Effort \/ Quit
  BY <1>5, CommandMessages DEF UnsavedGoes
<1> QED
  BY <1>1, <1>2, <1>3, <1>4, <1>5 DEF ReplNext

\* What a step does to the rows, and to what is known to be lost or mixed.
LEMMA RowsNext ==
  ASSUME Modes, Lists, [ReplNext]_replVars
  PROVE  /\ lost \subseteq lost' /\ mixed \subseteq mixed'
         /\ \A s \in Sessions : ToSet(db[s]) \subseteq ToSet(db'[s])
         /\ \A s \in Sessions : \A m \in Recalled(db'[s]) :
              \/ m \in Recalled(db[s])
              \/ /\ s = current /\ m \in Known /\ Unsaved' = {}
                 /\ UNCHANGED <<current, strayed>>
                 /\ strayed /\ s \notin mixed' => m.session = s
<1>1. CASE Save
  <2>1. /\ place \in {"save", "last"} /\ place' \in {"turn", "over"}
        /\ UNCHANGED <<current, strayed>>
        /\ Stores(SubSeq(conv, prev + 1, Len(conv)))
    BY <1>1 DEF Save, replFrame
  <2>2. Unsaved' = {} /\ config = current
    BY <2>1, UnsavedNow DEF Modes, running
  <2>3. Recalled(conv) \subseteq Known
    BY DEF Known
  <2> QED
    BY <2>1, <2>2, <2>3, Storing
<1>2. CASE ~Save
  <2>1. UNCHANGED <<db, mixed>> /\ lost \subseteq lost'
    <3>1. CASE RunNext
      BY <1>2, <3>1 DEF RunNext, Turn, Answer, Retry, Fail, Discards, Keep, AddResults, Interrupt,
                        Hear, EndRun, ghosts
    <3>2. CASE Resume
      BY <3>2, ResumeMessages
    <3>3. CASE Prompt \/ Review \/ ResumePrompt
      BY <3>3, PromptMessages
    <3>4. CASE Clear \/ Compact \/ New \/ SwitchModel \/ Fast \/ Effort \/ Quit
      BY <3>4, CommandMessages
    <3>5. CASE UNCHANGED replVars
      BY <3>5 DEF replVars, ghosts
    <3> QED
      BY <3>1, <3>2, <3>3, <3>4, <3>5 DEF ReplNext
  <2> QED
    BY <2>1
<1> QED
  BY <1>1, <1>2

LEMMA KeptNext ==
  ASSUME Modes, Lists, Kept, Modes', [ReplNext]_replVars
  PROVE  Kept'
<1>1. /\ Lists' /\ UnsavedGoes
      /\ Forgets \/ Loads \/ Strays \/ \E N : Gains(N)
  BY MessagesNext
<1>2. /\ lost \subseteq lost'
      /\ \A s \in Sessions : ToSet(db[s]) \subseteq ToSet(db'[s])
      /\ \A s \in Sessions : \A m \in Recalled(db'[s]) :
           m \in Recalled(db[s]) \/ (m \in Known /\ Unsaved' = {})
  BY RowsNext
<1>3. \A m \in Plain : Accounted(m) => Accounted(m)'
  <2> SUFFICES ASSUME NEW m \in Plain, Accounted(m) PROVE Accounted(m)'
    OBVIOUS
  <2>1. m.session \in Sessions \/ m.session = none
    BY DEF Plain, Ids
  <2> QED
    BY <1>2, <2>1 DEF Accounted
<1>4. Known \subseteq Plain
  BY KnownIsPlain
<1>5. \A m \in Known : Accounted(m)' \/ m \in Unsaved'
  BY <1>1, <1>3, <1>4 DEF Kept, UnsavedGoes
<1>6. \A s \in Sessions : \A m \in Recalled(db[s]) : m \in Plain
  BY RecalledAre DEF Lists
<1>7. \A s \in Sessions : \A m \in Recalled(db[s]) : Accounted(m)'
  BY <1>3, <1>6 DEF Kept
<1>8. \A s \in Sessions : \A m \in Recalled(db'[s]) : Accounted(m)'
  BY <1>2, <1>5, <1>7
<1>9. \A m \in Known' : Accounted(m)' \/ m \in Unsaved'
  <2>1. CASE Forgets
    BY <2>1 DEF Forgets
  <2>2. CASE Loads
    BY <1>7, <2>2 DEF Loads
  <2>3. CASE Strays
    BY <1>5, <2>3 DEF Strays
  <2>4. ASSUME NEW N, Gains(N) PROVE \A m \in Known' : Accounted(m)' \/ m \in Unsaved'
    <3>1. Known' \subseteq Known \cup N
          /\ \A m \in N : m.kind = "prompt" \/ m \in lost' \/ m \in Unsaved'
      BY <2>4 DEF Gains
    <3>2. \A m \in N : Accounted(m)' \/ m \in Unsaved'
      BY <3>1 DEF Accounted
    <3> QED
      BY <1>5, <3>1, <3>2
  <2> QED
    BY <1>1, <2>1, <2>2, <2>3, <2>4
<1> QED
  BY <1>8, <1>9 DEF Kept

LEMMA OwnedNext ==
  ASSUME Modes, Lists, Owned, [ReplNext]_replVars
  PROVE  Owned'
<1>1. Forgets \/ Loads \/ Strays \/ \E N : Gains(N)
  BY MessagesNext
<1>2. /\ mixed \subseteq mixed'
      /\ \A s \in Sessions : \A m \in Recalled(db'[s]) :
           \/ m \in Recalled(db[s])
           \/ /\ s = current /\ m \in Known /\ UNCHANGED <<current, strayed>>
              /\ strayed /\ s \notin mixed' => m.session = s
  BY RowsNext
<1>3. ASSUME NEW s \in Sessions \ mixed', NEW m \in Recalled(db'[s]) PROVE m.session = s
  <2>1. s \in Sessions \ mixed
    BY <1>2
  <2>2. CASE m \in Recalled(db[s])
    BY <2>1, <2>2 DEF Owned
  <2>3. CASE s = current /\ m \in Known /\ (strayed /\ s \notin mixed' => m.session = s)
    <3>1. CASE strayed
      BY <1>3, <2>3, <3>1
    <3>2. CASE ~strayed
      BY <2>1, <2>3, <3>2 DEF Owned
    <3> QED
      BY <3>1, <3>2
  <2> QED
    BY <1>2, <1>3, <2>2, <2>3
<1>4. ASSUME ~strayed', current' \notin mixed', NEW m \in Known' PROVE m.session = current'
  <2>1. current' \notin mixed
    BY <1>2, <1>4
  <2>2. CASE Forgets
    BY <1>4, <2>2 DEF Forgets
  <2>3. CASE Loads
    <3>1. PICK s \in Sessions : current' = s /\ Known' \subseteq Recalled(db[s])
      BY <2>3 DEF Loads
    <3> QED
      BY <1>4, <2>1, <3>1 DEF Owned
  <2>4. CASE Strays
    BY <1>4, <2>1, <2>4 DEF Strays, Owned
  <2>5. ASSUME NEW N, Gains(N) PROVE m.session = current'
    <3>1. /\ UNCHANGED <<current, strayed>> /\ (m \in Known \/ m \in N)
          /\ \A x \in N : x.session = current
      BY <1>4, <2>5 DEF Gains
    <3>2. m \in Known => m.session = current
      BY <1>4, <2>1, <3>1 DEF Owned
    <3> QED
      BY <3>1, <3>2
  <2> QED
    BY <1>1, <2>2, <2>3, <2>4, <2>5
<1> QED
  BY <1>3, <1>4 DEF Owned

LEMMA ReplInvInit == ReplInit => ReplInv
<1> SUFFICES ASSUME ReplInit PROVE ReplInv
  OBVIOUS
<1>1. /\ history = << >> /\ conv = << >> /\ db = [s \in Sessions |-> << >>]
      /\ events = << >> /\ lost = {} /\ place = "idle"
  BY DEF ReplInit
<1>2. Modes
  <2>1. prompts = 0 /\ prompts \in 0 .. MaxPrompts /\ turns \in 0 .. MaxTurns
    BY BoundAssumption DEF ReplInit
  <2>2. current \in Ids /\ created \subseteq Sessions /\ (current # none => current \in created)
    BY DEF ReplInit, Ids
  <2>3. ~running /\ place \in Places /\ place # "append"
    BY <1>1 DEF running, Places
  <2> QED
    BY <2>1, <2>2, <2>3 DEF ReplInit, Modes, Ids
<1>3. Modelling /\ Opened
  BY DEF ReplInit, Modelling, Opened
<1>4. Lists
  BY <1>1 DEF Lists, Counted
<1>5. Known = {} /\ \A s \in Sessions : Recalled(db[s]) = {}
  BY <1>1, NothingRecalled DEF Known, Said
<1>6. Kept /\ Owned
  BY <1>5 DEF Kept, Owned
<1> QED
  BY <1>2, <1>3, <1>4, <1>6 DEF ReplInv

LEMMA ReplInvNext == ReplInv /\ [ReplNext]_replVars => ReplInv'
<1> SUFFICES ASSUME ReplInv, [ReplNext]_replVars PROVE ReplInv'
  OBVIOUS
<1>1. Modes' /\ Modelling' /\ Opened'
  BY ModesNext, ModellingNext, OpenedNext DEF ReplInv
<1>2. Lists'
  BY MessagesNext DEF ReplInv
<1>3. Kept' /\ Owned'
  BY <1>1, KeptNext, OwnedNext DEF ReplInv
<1> QED
  BY <1>1, <1>2, <1>3 DEF ReplInv

LEMMA ReplInvAlways == ReplSpec => []ReplInv
  BY ReplInvInit, ReplInvNext, PTL DEF ReplSpec

\* The REPL's variables keep their types through every order of commands and of
\* the steps of runs: what a turn stores begins inside the list, only resume
\* mode shares its history with a run, the model that is shown is the one that
\* prompts use, and after /quit no manager of teams is open.
THEOREM ReplTypeCorrect == ReplSpec => []ReplTypeOK
<1>1. ReplInv => ReplTypeOK
  <2> SUFFICES ASSUME ReplInv PROVE ReplTypeOK
    OBVIOUS
  <2>1. \A h \in Seq(Message) :
          \A m \in ToSet(h) : m \in Plain \/ m.kind \in {"boundary", "summary"}
    BY DEF ToSet, Message
  <2>2. \A s \in Sessions : \A m \in ToSet(db[s]) :
          m \in Plain \/ m.kind \in {"boundary", "summary"}
    BY <2>1 DEF ReplInv, Lists
  <2>3. \A m \in ToSet(history \o conv) : m \in Plain \/ m.kind \in {"boundary", "summary"}
    <3>1. history \o conv \in Seq(Message)
      BY DEF ReplInv, Lists
    <3> QED
      BY <2>1, <3>1
  <2>4. open.mcp \in Nat /\ open.teams \in Nat
        /\ open.configured \in BOOLEAN /\ open.held \in BOOLEAN
        /\ (mode = "quit" => open.teams = 0)
    BY DEF ReplInv, Opened
  <2>5. ToSet(events) \subseteq {"call", "answer"}
    BY DEF ReplInv, Lists, ToSet, Kinds
  <2>6. place \in {"ask", "append", "tools", "save", "last"} => prev <= Len(conv)
    BY DEF ReplInv, Lists, Counted
  <2>7. place \in {"idle", "turn", "ask", "append", "tools", "save", "last", "over"}
    BY DEF ReplInv, Modes, Places, Counted
  <2>8. models.shown \in Models /\ models.backup \in Models \cup {none} /\ models.shown = models.used
    BY DEF ReplInv, Modelling
  <2>9. reply \in {"call", "answer", none}
    BY DEF ReplInv, Modes, Kinds
  <2> QED
    BY <2>2, <2>3, <2>4, <2>5, <2>6, <2>7, <2>8, <2>9 DEF ReplInv, ReplTypeOK, Modes
<1> QED
  BY <1>1, ReplInvAlways, PTL

\* What main.go keeps and sends to the model, and the rows it would load, are
\* of one session each, through /new, /resume and /compact in any order and
\* through runs that compact, fail, retry or are interrupted: except while the
\* history is one that /resume failed to replace, and in the sessions whose
\* rows got a summary of such a history.
THEOREM HistoryIsItsSessions == ReplSpec => []HistoryOfSession
<1>1. ReplInv => HistoryOfSession
  BY DEF ReplInv, Owned, Known, HistoryOfSession
<1> QED
  BY <1>1, ReplInvAlways, PTL

\* Between runs, what the REPL remembers, be it in a summary, is among the rows
\* of the session in which it was said, unless it is a prompt, there was no
\* session, or it was lost: by a save that failed or was cut off, an interrupt,
\* a retry, or a write into the array that resume mode shares with its run.
THEOREM HistoryIsStored == ReplSpec => []HistoryRecoverable
<1>1. ReplInv => HistoryRecoverable
  <2> SUFFICES ASSUME ReplInv, ~running, NEW m \in Recalled(history) PROVE Accounted(m)
    BY DEF HistoryRecoverable, Accounted
  <2>1. m \in Known /\ Unsaved = {}
    BY KnownIsPlain DEF ReplInv, Known
  <2> QED
    BY <2>1 DEF ReplInv, Kept
<1> QED
  BY <1>1, ReplInvAlways, PTL

-----------------------------------------------------------------------------
(* The managers of MCP servers.                                            *)

Client == [server : Servers, tools : SUBSET Tools]
Steps == {"wait", "connect", "register", "done", "idle", "call", "failed", "clean", "again", "retry"}

-----------------------------------------------------------------------------
(* The inductive invariant.                                                *)

Shape ==
  /\ clients \in Seq(Client)
  /\ servers \in [Servers -> Nat] /\ toolIndex \in [Tools -> Nat]
  /\ at \in [Goroutines -> Steps]
  /\ aim \in [Callers -> Tools \cup {NoTool}]
  /\ via \in [Goroutines -> Nat] /\ failedOn \in [Callers -> Nat]

\* Every client that is named anywhere exists.
Named ==
  /\ \A s \in Servers : servers[s] <= Len(clients)
  /\ \A t \in Tools : toolIndex[t] <= Len(clients)
  /\ \A g \in Goroutines : via[g] <= Len(clients)
  /\ \A c \in Callers : failedOn[c] <= Len(clients)
  /\ closed \subseteq Made

Offered == \A i \in 1 .. Len(clients) : clients[i].tools \in Offers[clients[i].server]

\* What is registered was offered, and who calls has something to call.
Aims ==
  /\ \A t \in registry : t \in Tools /\ \E s \in Servers : t \in UNION Offers[s]
  /\ \A c \in Callers :
       IF at[c] \in {"wait", "idle"} THEN aim[c] = NoTool ELSE aim[c] \in registry

\* What a goroutine registers is of the server it connects; what a caller calls,
\* or has called, has listed the tool.
Users ==
  /\ \A g \in Goroutines : at[g] = "register" => via[g] # None /\ clients[via[g]].server = Target(g)
  /\ \A c \in Callers : at[c] \in {"call", "retry"} =>
       via[c] # None /\ aim[c] \in clients[via[c]].tools
  /\ \A c \in Callers :
       at[c] \in {"failed", "clean", "connect", "register", "again", "retry"} =>
         failedOn[c] # None /\ aim[c] \in clients[failedOn[c]].tools

\* The client behind a tool has listed it.
Indexed == \A t \in Tools : toolIndex[t] # None => t \in clients[toolIndex[t]].tools

\* Nobody else knows a client before it is registered.
Fresh ==
  \A g \in Goroutines : at[g] = "register" =>
    /\ \A t \in Tools : toolIndex[t] # via[g]
    /\ \A c \in Callers : failedOn[c] # via[g]
    /\ \A h \in Goroutines : h # g => via[h] # via[g]

\* What failed this caller has left the index, and stays out of it.
GoneForGood ==
  \A c \in Callers : at[c] \in {"connect", "register", "again"} =>
    \A t \in Tools : toolIndex[t] # failedOn[c]

IInv == /\ Shape /\ Named /\ Offered /\ Aims /\ Users /\ Indexed
        /\ McpIndexed /\ Fresh /\ GoneForGood /\ RetryFresh

-----------------------------------------------------------------------------
(* Lemmas.                                                                 *)

LEMMA CallersApart == \A c \in Callers : c \in Goroutines /\ c \notin Servers
  BY CallersAssumption DEF Goroutines

\* A goroutine that connects is about a server of the configuration.
LEMMA TargetServer ==
  ASSUME Shape, Named, Users, NEW g \in Goroutines,
         g \in Callers => at[g] \in {"failed", "clean", "connect", "register"}
  PROVE  Target(g) \in Servers
<1>1. CASE g \in Servers
  BY <1>1 DEF Target
<1>2. CASE g \notin Servers
  <2>1. g \in Callers
    BY <1>2 DEF Goroutines
  <2>2. failedOn[g] \in 1 .. Len(clients)
    BY <2>1 DEF Users, Named, Shape, None
  <2>3. clients[failedOn[g]] \in Client
    BY <2>2 DEF Shape
  <2> QED
    BY <1>2, <2>3 DEF Target, Client
<1> QED
  BY <1>1, <1>2

\* The tools of a client were offered by its server.
LEMMA ClientTools ==
  ASSUME Shape, Offered, NEW i \in 1 .. Len(clients)
  PROVE  /\ clients[i] \in Client /\ clients[i].server \in Servers
         /\ \A t \in clients[i].tools : t \in Tools /\ t \in UNION Offers[clients[i].server]
<1>1. clients[i] \in Client
  BY DEF Shape
<1>2. clients[i].server \in Servers /\ clients[i].tools \subseteq Tools
  BY <1>1 DEF Client
<1>3. \A t \in clients[i].tools : t \in UNION Offers[clients[i].server]
  BY DEF Offered
<1> QED
  BY <1>1, <1>2, <1>3

\* A tool that clients of two servers list is shared.
LEMMA ListedTwice ==
  ASSUME Shape, Offered, NEW i \in 1 .. Len(clients), NEW j \in 1 .. Len(clients),
         clients[i].server # clients[j].server,
         NEW t \in clients[i].tools, t \in clients[j].tools
  PROVE  Shared(t)
<1>1. clients[i].server \in Servers /\ t \in UNION Offers[clients[i].server]
  BY ClientTools
<1>2. clients[j].server \in Servers /\ t \in UNION Offers[clients[j].server]
  BY ClientTools
<1> QED
  BY <1>1, <1>2 DEF Shared

-----------------------------------------------------------------------------
(* The invariant holds at first and is kept.                               *)

LEMMA InvInit == Init => IInv
<1> SUFFICES ASSUME Init PROVE IInv
  OBVIOUS
<1> USE DEF Init, None, NoTool
<1>1. Shape
  <2>1. << >> \in Seq(Client) /\ "connect" \in Steps /\ "wait" \in Steps
    BY DEF Steps
  <2> QED
    BY <2>1 DEF Shape
<1>2. Named /\ Offered
  <2>1. Len(clients) = 0 /\ clients = << >>
    OBVIOUS
  <2> QED
    BY <2>1, CallersApart DEF Named, Offered, Goroutines
<1>3. Aims /\ Users /\ GoneForGood
  BY CallersApart DEF Aims, Users, GoneForGood, Goroutines
<1>4. Indexed /\ McpIndexed /\ Fresh /\ RetryFresh
  BY CallersApart DEF Indexed, McpIndexed, Fresh, RetryFresh, Goroutines
<1> QED
  BY <1>1, <1>2, <1>3, <1>4 DEF IInv

\* Back to idle: nothing but the caller's own state changes.
LEMMA IdleKeeps ==
  ASSUME IInv, NEW c \in Callers, at[c] \notin {"wait"}, Idle(c),
         UNCHANGED <<servers, toolIndex, clients, closed, registry>>
  PROVE  IInv'
<1> USE DEF Idle, IInv
<1> c \in Goroutines
  BY CallersApart
<1>1. Shape'
  BY DEF Shape, Steps, None
<1>2. Named' /\ Offered'
  BY DEF Named, Offered, Shape, Made, None
<1>3. Aims'
  BY CallersApart DEF Aims, Shape
<1>4. Users'
  BY CallersApart DEF Users, Shape, Target
<1>5. Indexed' /\ McpIndexed'
  BY DEF Indexed, McpIndexed
<1>6. Fresh'
  BY DEF Fresh, Shape, Users, None
<1>7. GoneForGood' /\ RetryFresh'
  BY CallersApart DEF GoneForGood, RetryFresh, Shape
<1> QED
  BY <1>1, <1>2, <1>3, <1>4, <1>5, <1>6, <1>7

\* The maps stay, and no client is made.
LEMMA Connecting ==
  ASSUME IInv, NEW g \in Goroutines, ConnectFails(g)
  PROVE  IInv'
<1>1. CASE g \in Callers
  BY <1>1, IdleKeeps DEF ConnectFails
<1>2. CASE g \notin Callers
  <2> USE <1>2 DEF ConnectFails, IInv
  <2>1. Shape' /\ Named' /\ Offered'
    BY DEF Shape, Steps, Named, Offered, Made
  <2>2. \A c \in Callers : at'[c] = at[c]
    BY CallersApart DEF Shape
  <2>3. Aims' /\ GoneForGood' /\ RetryFresh'
    BY <2>2 DEF Aims, GoneForGood, RetryFresh
  <2>4. Users'
    BY <2>2 DEF Users, Target, Shape
  <2>5. Indexed' /\ McpIndexed'
    BY DEF Indexed, McpIndexed
  <2>6. Fresh'
    BY DEF Fresh, Shape
  <2> QED
    BY <2>1, <2>3, <2>4, <2>5, <2>6
<1> QED
  BY <1>1, <1>2

LEMMA Discovering ==
  ASSUME IInv, NEW g \in Goroutines, Discover(g)
  PROVE  IInv'
<1> USE DEF IInv, Discover, ConnectFrame
<1>1. PICK tools \in Offers[Target(g)] :
        clients' = Append(clients, [server |-> Target(g), tools |-> tools])
  OBVIOUS
<1>2. Target(g) \in Servers
  BY TargetServer
<1>3. tools \in SUBSET Tools
  BY <1>1, <1>2, OffersAssumption
<1> DEFINE new == [server |-> Target(g), tools |-> tools]
<1>4. new \in Client
  BY <1>2, <1>3 DEF Client
<1>5. /\ clients' \in Seq(Client) /\ Len(clients') = Len(clients) + 1
      /\ Len(clients) \in Nat
      /\ \A i \in 1 .. Len(clients) : clients'[i] = clients[i]
      /\ clients'[Len(clients')] = new
  BY <1>1, <1>4 DEF Shape
<1> HIDE DEF new
<1>6. Shape'
  BY <1>5 DEF Shape, Steps
<1>7. Named'
  BY <1>5 DEF Named, Shape, Made
<1>8. Offered'
  <2>1. new.server = Target(g) /\ new.tools \in Offers[Target(g)]
    BY <1>1 DEF new
  <2>2. \A i \in 1 .. Len(clients') : i \in 1 .. Len(clients) \/ i = Len(clients')
    BY <1>5
  <2> QED
    BY <1>5, <2>1, <2>2 DEF Offered
<1>9. Aims'
  BY CallersApart DEF Aims, Shape
<1>10. Users'
  <2>1. new.server = Target(g)
    BY DEF new
  <2>2. ASSUME NEW h \in Goroutines, h \in Callers => failedOn[h] \in 1 .. Len(clients)
        PROVE  Target(h)' = Target(h)
    <3>1. CASE h \in Servers
      BY <3>1 DEF Target
    <3>2. CASE h \notin Servers
      <4>1. failedOn[h] \in 1 .. Len(clients)
        BY <2>2, <3>2 DEF Goroutines
      <4> QED
        BY <3>2, <4>1, <1>5 DEF Target
    <3> QED
      BY <3>1, <3>2
  <2>3. ASSUME NEW c \in Callers,
               at'[c] \in {"failed", "clean", "connect", "register", "again", "retry"}
        PROVE  /\ failedOn[c] \in 1 .. Len(clients)
               /\ failedOn'[c] # None /\ aim'[c] \in clients'[failedOn'[c]].tools
    <3>1. at[c] \in {"failed", "clean", "connect", "register", "again", "retry"}
      BY <2>3, CallersApart DEF Shape
    <3>2. failedOn[c] \in 1 .. Len(clients)
      BY <3>1, <1>5 DEF Users, Named, Shape, None
    <3> QED
      BY <3>1, <3>2, <1>5, CallersApart DEF Users
  <2>4. ASSUME NEW h \in Goroutines, at'[h] = "register"
        PROVE  via'[h] # None /\ clients'[via'[h]].server = Target(h)'
    <3>1. Target(h)' = Target(h)
      BY <2>2, <2>3, <2>4
    <3>2. CASE h = g
      BY <3>1, <3>2, <2>1, <1>5 DEF Shape, None
    <3>3. CASE h # g
      <4>1. at[h] = "register" /\ via'[h] = via[h]
        BY <3>3, <2>4 DEF Shape
      <4>2. via[h] \in 1 .. Len(clients) /\ clients[via[h]].server = Target(h)
        BY <4>1, <1>5 DEF Users, Named, Shape, None
      <4> QED
        BY <3>1, <4>1, <4>2, <1>5 DEF None
    <3> QED
      BY <3>2, <3>3
  <2>5. ASSUME NEW c \in Callers, at'[c] \in {"call", "retry"}
        PROVE  via'[c] # None /\ aim'[c] \in clients'[via'[c]].tools
    <3>1. at[c] \in {"call", "retry"} /\ via'[c] = via[c]
      BY <2>5, CallersApart DEF Shape
    <3>2. via[c] \in 1 .. Len(clients)
      BY <3>1, <1>5, CallersApart DEF Users, Named, Shape, None
    <3> QED
      BY <3>1, <3>2, <1>5 DEF Users
  <2> QED
    BY <2>3, <2>4, <2>5 DEF Users
<1>11. Indexed'
  <2>1. \A t \in Tools : toolIndex[t] # None => toolIndex[t] \in 1 .. Len(clients)
    BY <1>5 DEF Shape, Named, None
  <2> QED
    BY <2>1, <1>5 DEF Indexed
<1>12. McpIndexed'
  <2>1. \A s \in Servers : servers[s] # None => servers[s] \in 1 .. Len(clients)
    BY <1>5 DEF Shape, Named, None
  <2>2. \A t \in Tools : toolIndex[t] # None => toolIndex[t] \in 1 .. Len(clients)
    BY <1>5 DEF Shape, Named, None
  <2> QED
    BY <2>1, <2>2, <1>5 DEF McpIndexed
<1>13. Fresh'
  <2>1. /\ \A t \in Tools : toolIndex[t] # Len(clients')
        /\ \A c \in Callers : failedOn[c] # Len(clients')
        /\ \A h \in Goroutines : via[h] # Len(clients')
    BY <1>5 DEF Named, Shape
  <2> QED
    BY <2>1 DEF Fresh, Shape
<1>14. GoneForGood'
  BY CallersApart DEF GoneForGood, Shape
<1>15. RetryFresh'
  <2> SUFFICES ASSUME NEW c \in Callers, at'[c] = "retry"
               PROVE  /\ via'[c] # failedOn'[c]
                      /\ clients'[via'[c]].server = clients'[failedOn'[c]].server \/ Shared(aim'[c])
    BY DEF RetryFresh
  <2>1. at[c] = "retry" /\ via'[c] = via[c]
    BY CallersApart DEF Shape
  <2>2. via[c] \in 1 .. Len(clients) /\ failedOn[c] \in 1 .. Len(clients)
    BY <2>1, <1>5, CallersApart DEF Users, Named, Shape, None
  <2> QED
    BY <2>1, <2>2, <1>5 DEF RetryFresh
<1> QED
  BY <1>6, <1>7, <1>8, <1>9, <1>10, <1>11, <1>12, <1>13, <1>14, <1>15

LEMMA Registering ==
  ASSUME IInv, NEW g \in Goroutines, Register(g)
  PROVE  IInv'
<1> USE DEF IInv, Register, ConnectFrame
<1> DEFINE v == via[g]
<1>1. Target(g) \in Servers
  BY TargetServer
<1>2. v \in 1 .. Len(clients) /\ clients[v].server = Target(g)
  BY DEF Users, Named, Shape, None
<1>3. \A t \in clients[v].tools : t \in Tools
  BY <1>2, ClientTools
<1>4. \A t \in Tools : toolIndex'[t] = IF t \in clients[v].tools THEN v ELSE toolIndex[t]
  OBVIOUS
<1>5. \A s \in Servers : servers'[s] = IF s = Target(g) THEN v ELSE servers[s]
  BY <1>1 DEF Shape
<1>6. Shape'
  BY <1>1, <1>2 DEF Shape, Steps
<1>7. Named' /\ Offered'
  BY <1>2, <1>4, <1>5 DEF Named, Offered, Shape, Made
<1>8. Aims'
  BY CallersApart DEF Aims, Shape
<1>9. Users'
  BY CallersApart DEF Users, Shape, Target
<1>10. Indexed'
  BY <1>4 DEF Indexed
<1>11. McpIndexed'
  <2>1. ASSUME NEW s \in Servers, servers'[s] # None
        PROVE  /\ clients[servers'[s]].server = s
               /\ \A t \in clients[servers'[s]].tools : toolIndex'[t] = servers'[s] \/ Shared(t)
    <3>1. CASE s = Target(g)
      BY <3>1, <1>2, <1>3, <1>4, <1>5
    <3>2. CASE s # Target(g)
      <4>1. servers'[s] = servers[s] /\ servers[s] \in 1 .. Len(clients)
        BY <3>2, <2>1, <1>5 DEF Named, Shape, None
      <4>2. /\ clients[servers[s]].server = s
            /\ \A t \in clients[servers[s]].tools : toolIndex[t] = servers[s] \/ Shared(t)
        BY <2>1, <4>1 DEF McpIndexed
      <4>3. ASSUME NEW t \in clients[servers[s]].tools PROVE toolIndex'[t] = servers[s] \/ Shared(t)
        <5>1. t \in Tools
          BY <4>1, ClientTools
        <5>2. CASE t \in clients[v].tools
          BY <5>2, <3>2, <4>1, <4>2, <1>2, ListedTwice
        <5>3. CASE t \notin clients[v].tools
          BY <5>1, <5>3, <4>2, <1>4
        <5> QED
          BY <5>2, <5>3
      <4> QED
        BY <4>1, <4>2, <4>3
    <3> QED
      BY <3>1, <3>2
  <2>2. ASSUME NEW t \in Tools, toolIndex'[t] # None
        PROVE  servers'[clients[toolIndex'[t]].server] # None
    <3>1. CASE t \in clients[v].tools
      <4>1. toolIndex'[t] = v
        BY <3>1, <1>4
      <4> QED
        BY <4>1, <1>1, <1>2, <1>5 DEF None
    <3>2. CASE t \notin clients[v].tools
      <4>1. toolIndex'[t] = toolIndex[t] /\ toolIndex[t] \in 1 .. Len(clients)
        BY <3>2, <2>2, <1>4 DEF Shape, Named, None
      <4>2. clients[toolIndex[t]].server \in Servers /\ servers[clients[toolIndex[t]].server] # None
        BY <2>2, <4>1, ClientTools DEF McpIndexed
      <4> QED
        BY <4>1, <4>2, <1>2, <1>5 DEF None
    <3> QED
      BY <3>1, <3>2
  <2> QED
    BY <2>1, <2>2 DEF McpIndexed
<1>12. Fresh'
  BY <1>4 DEF Fresh, Shape
<1>13. GoneForGood'
  BY <1>4, CallersApart DEF GoneForGood, Fresh, Shape
<1>14. RetryFresh'
  BY CallersApart DEF RetryFresh, Shape
<1> QED
  BY <1>6, <1>7, <1>8, <1>9, <1>10, <1>11, <1>12, <1>13, <1>14

LEMMA Handing ==
  ASSUME IInv, Connected
  PROVE  IInv'
<1> USE DEF IInv, Connected
<1>1. \A c \in Callers : at[c] = "wait" /\ at'[c] = "idle"
  BY CallersApart
<1>2. \A s \in Servers : at[s] = "done" /\ at'[s] = "done"
  BY CallersApart DEF Goroutines
<1>3. \A g \in Goroutines : at'[g] \in {"idle", "done"}
  BY <1>1, <1>2 DEF Goroutines
<1>4. Shape'
  BY <1>3 DEF Shape, Steps
<1>5. Named' /\ Offered'
  BY DEF Named, Offered, Made
<1>6. Aims'
  <2>1. ASSUME NEW t \in registry' PROVE t \in Tools /\ \E s \in Servers : t \in UNION Offers[s]
    <3>1. PICK s \in Servers : servers[s] # None /\ t \in clients[servers[s]].tools
      OBVIOUS
    <3>2. servers[s] \in 1 .. Len(clients)
      BY <3>1 DEF Named, Shape, None
    <3>3. clients[servers[s]] \in Client
      BY <3>2, ClientTools
    <3>4. clients[servers[s]].server \in Servers /\ clients[servers[s]].tools \subseteq Tools
      BY <3>3 DEF Client
    <3> QED
      BY <3>1, <3>2, <3>4 DEF Offered
  <2> QED
    BY <2>1, <1>1 DEF Aims
<1>7. Users' /\ Fresh' /\ GoneForGood' /\ RetryFresh'
  BY <1>3, CallersApart DEF Users, Fresh, GoneForGood, RetryFresh
<1>8. Indexed' /\ McpIndexed'
  BY DEF Indexed, McpIndexed
<1> QED
  BY <1>4, <1>5, <1>6, <1>7, <1>8

-----------------------------------------------------------------------------
(* The steps of a call.                                                    *)

LEMMA Calling ==
  ASSUME IInv, NEW c \in Callers, NEW t \in registry, CallTool(c, t)
  PROVE  IInv'
<1> USE DEF IInv, CallTool, MapFrame
<1> c \in Goroutines
  BY CallersApart
<1>1. t \in Tools
  BY DEF Aims
<1>2. Shape'
  BY <1>1 DEF Shape, Steps
<1>3. Named' /\ Offered'
  BY <1>1 DEF Named, Offered, Shape, Made
<1>4. Aims'
  BY <1>1, CallersApart DEF Aims, Shape
<1>5. Users'
  <2>1. t \in clients[via'[c]].tools /\ via'[c] # None /\ aim'[c] = t
    BY <1>1, CallersApart DEF Indexed, Shape
  <2>2. \A g \in Goroutines : g # c => Target(g)' = Target(g) /\ via'[g] = via[g] /\ at'[g] = at[g]
    BY CallersApart DEF Target, Shape, Goroutines
  <2> QED
    BY <2>1, <2>2, CallersApart DEF Users, Shape
<1>6. Indexed' /\ McpIndexed'
  BY DEF Indexed, McpIndexed
<1>7. Fresh'
  BY <1>1 DEF Fresh, Shape
<1>8. GoneForGood' /\ RetryFresh'
  BY CallersApart DEF GoneForGood, RetryFresh, Shape
<1> QED
  BY <1>2, <1>3, <1>4, <1>5, <1>6, <1>7, <1>8

LEMMA Failing ==
  ASSUME IInv, NEW c \in Callers, CallFails(c)
  PROVE  IInv'
<1> USE DEF IInv, CallFails, MapFrame
<1> c \in Goroutines
  BY CallersApart
<1>1. Shape'
  BY DEF Shape, Steps
<1>2. Named' /\ Offered'
  BY DEF Named, Offered, Shape, Made
<1>3. Aims'
  BY CallersApart DEF Aims, Shape
<1>4. Users'
  BY CallersApart DEF Users, Shape, Target
<1>5. Indexed' /\ McpIndexed'
  BY DEF Indexed, McpIndexed
<1>6. Fresh'
  BY DEF Fresh, Shape
<1>7. GoneForGood' /\ RetryFresh'
  BY CallersApart DEF GoneForGood, RetryFresh, Shape
<1> QED
  BY <1>1, <1>2, <1>3, <1>4, <1>5, <1>6, <1>7

LEMMA Reading ==
  ASSUME IInv, NEW c \in Callers, ReadServer(c)
  PROVE  IInv'
<1> USE DEF IInv, ReadServer, MapFrame
<1> c \in Goroutines
  BY CallersApart
<1>1. CASE UNCHANGED at
  BY <1>1 DEF Shape, Named, Offered, Aims, Users, Indexed, McpIndexed, Fresh, GoneForGood,
              RetryFresh, Made, Target
<1>2. CASE at' = [at EXCEPT ![c] = "clean"]
  <2> USE <1>2
  <2>1. Shape' /\ Named' /\ Offered'
    BY DEF Shape, Steps, Named, Offered, Made
  <2>2. Aims' /\ GoneForGood' /\ RetryFresh'
    BY CallersApart DEF Aims, GoneForGood, RetryFresh, Shape
  <2>3. Users'
    BY CallersApart DEF Users, Shape, Target
  <2>4. Indexed' /\ McpIndexed' /\ Fresh'
    BY DEF Indexed, McpIndexed, Fresh, Shape
  <2> QED
    BY <2>1, <2>2, <2>3, <2>4
<1> QED
  BY <1>1, <1>2

LEMMA Cleaning ==
  ASSUME IInv, NEW c \in Callers, Clean(c)
  PROVE  IInv'
<1> USE DEF IInv, Clean, ConnectFrame
<1> c \in Goroutines
  BY CallersApart
<1>1. Target(c) \in Servers
  BY TargetServer
<1>2. \A t \in Tools :
        \/ toolIndex'[t] = None
        \/ toolIndex'[t] = toolIndex[t] /\ clients[toolIndex[t]].server # Target(c)
  OBVIOUS
<1>3. \A s \in Servers : servers'[s] = IF s = Target(c) THEN None ELSE servers[s]
  BY <1>1 DEF Shape
<1>4. Shape'
  BY <1>1 DEF Shape, Steps, None
<1>5. Named' /\ Offered'
  BY <1>2, <1>3 DEF Named, Offered, Shape, Made, None
<1>6. Aims'
  BY CallersApart DEF Aims, Shape
<1>7. Users'
  BY CallersApart DEF Users, Shape, Target
<1>8. Indexed'
  BY <1>2 DEF Indexed
<1>9. McpIndexed'
  <2>1. ASSUME NEW s \in Servers, servers'[s] # None
        PROVE  /\ clients[servers'[s]].server = s
               /\ \A t \in clients[servers'[s]].tools : toolIndex'[t] = servers'[s] \/ Shared(t)
    <3>1. s # Target(c) /\ servers'[s] = servers[s] /\ servers[s] \in 1 .. Len(clients)
      BY <2>1, <1>3 DEF Named, Shape, None
    <3>2. /\ clients[servers[s]].server = s
          /\ \A t \in clients[servers[s]].tools : toolIndex[t] = servers[s] \/ Shared(t)
      BY <2>1, <3>1 DEF McpIndexed
    <3>3. \A t \in clients[servers[s]].tools : t \in Tools
      BY <3>1, ClientTools
    <3>4. \A t \in Tools : toolIndex[t] = servers[s] => toolIndex'[t] = servers[s]
      BY <3>1, <3>2
    <3> QED
      BY <3>1, <3>2, <3>3, <3>4
  <2>2. ASSUME NEW t \in Tools, toolIndex'[t] # None
        PROVE  servers'[clients[toolIndex'[t]].server] # None
    <3>1. toolIndex'[t] = toolIndex[t] /\ clients[toolIndex[t]].server # Target(c)
          /\ toolIndex[t] \in 1 .. Len(clients)
      BY <2>2, <1>2 DEF Shape, Named, None
    <3>2. clients[toolIndex[t]].server \in Servers /\ servers[clients[toolIndex[t]].server] # None
      BY <2>2, <3>1, ClientTools DEF McpIndexed
    <3> QED
      BY <3>1, <3>2, <1>3
  <2> QED
    BY <2>1, <2>2 DEF McpIndexed
<1>10. Fresh'
  BY <1>2 DEF Fresh, Shape, Users, None
<1>11. GoneForGood'
  <2>1. failedOn[c] # None /\ clients[failedOn[c]].server = Target(c)
    BY CallersApart DEF Users, Target
  <2>2. ASSUME NEW d \in Callers, at'[d] \in {"connect", "register", "again"}, NEW t \in Tools
        PROVE  toolIndex'[t] # failedOn[d]
    <3>1. CASE d = c
      BY <3>1, <2>1, <1>2 DEF None
    <3>2. CASE d # c
      <4>1. toolIndex[t] # failedOn[d] /\ failedOn[d] # None
        BY <3>2, <2>2, CallersApart DEF GoneForGood, Users, Shape
      <4> QED
        BY <4>1, <1>2
    <3> QED
      BY <3>1, <3>2
  <2> QED
    BY <2>2 DEF GoneForGood
<1>12. RetryFresh'
  BY CallersApart DEF RetryFresh, Shape
<1> QED
  BY <1>4, <1>5, <1>6, <1>7, <1>8, <1>9, <1>10, <1>11, <1>12

LEMMA LookingAgain ==
  ASSUME IInv, NEW c \in Callers, LookupAgain(c)
  PROVE  IInv'
<1> USE DEF LookupAgain, MapFrame
<1> c \in Goroutines
  BY CallersApart
<1>1. CASE toolIndex[aim[c]] = None
  BY <1>1, IdleKeeps
<1>2. CASE toolIndex[aim[c]] # None
  <2> USE <1>2 DEF IInv
  <2>1. aim[c] \in Tools
    BY DEF Aims
  <2>2. toolIndex[aim[c]] \in Nat /\ toolIndex[aim[c]] <= Len(clients)
    BY <2>1 DEF Shape, Named
  <2>3. Shape'
    BY <2>2 DEF Shape, Steps
  <2>4. Named' /\ Offered'
    BY <2>2 DEF Named, Offered, Shape, Made
  <2>5. Aims'
    BY CallersApart DEF Aims, Shape
  <2>6. Users'
    <3>1. aim[c] \in clients[via'[c]].tools /\ via'[c] # None
      BY <2>1, CallersApart DEF Indexed, Shape
    <3> QED
      BY <3>1, CallersApart DEF Users, Shape, Target
  <2>7. Indexed' /\ McpIndexed'
    BY DEF Indexed, McpIndexed
  <2>8. Fresh'
    BY <2>1 DEF Fresh, Shape
  <2>9. GoneForGood'
    BY CallersApart DEF GoneForGood, Shape
  <2>10. RetryFresh'
    <3>1. via'[c] = toolIndex[aim[c]] /\ failedOn'[c] = failedOn[c] /\ aim'[c] = aim[c]
      BY DEF Shape
    <3>2. via'[c] # failedOn[c]
      BY <2>1, <3>1 DEF GoneForGood
    <3>3. via'[c] \in 1 .. Len(clients) /\ aim[c] \in clients[via'[c]].tools
      BY <2>1, <2>2, <3>1 DEF Indexed, None
    <3>4. failedOn[c] \in 1 .. Len(clients) /\ aim[c] \in clients[failedOn[c]].tools
      BY DEF Users, Named, Shape, None
    <3>5. clients[via'[c]].server = clients[failedOn[c]].server \/ Shared(aim[c])
      BY <3>3, <3>4, ListedTwice
    <3>6. \A d \in Callers : d # c => at'[d] = at[d] /\ via'[d] = via[d]
      BY CallersApart DEF Shape
    <3> QED
      BY <3>1, <3>2, <3>5, <3>6 DEF RetryFresh
  <2> QED
    BY <2>3, <2>4, <2>5, <2>6, <2>7, <2>8, <2>9, <2>10
<1> QED
  BY <1>1, <1>2

LEMMA Closing ==
  ASSUME IInv, Close
  PROVE  IInv'
<1> USE DEF IInv, Close
<1>1. /\ \A s \in Servers : servers'[s] = None
      /\ \A t \in Tools : toolIndex'[t] = None
  OBVIOUS
<1>2. Shape'
  BY DEF Shape, None
<1>3. Named' /\ Offered'
  <2>1. Len(clients) \in Nat
    BY DEF Shape
  <2>2. {servers[s] : s \in Servers} \ {None} \subseteq Made
    BY DEF Named, Shape, Made, None
  <2>3. Offered'
    BY DEF Offered
  <2>4. closed' \subseteq Made'
    BY <2>2 DEF Named, Made
  <2> QED
    BY <1>1, <2>1, <2>3, <2>4 DEF Named, None
<1>4. Aims' /\ Users'
  BY DEF Aims, Users, Target
<1>5. Indexed' /\ McpIndexed'
  BY <1>1 DEF Indexed, McpIndexed
<1>6. Fresh'
  BY <1>1 DEF Fresh, Users
<1>7. GoneForGood' /\ RetryFresh'
  BY <1>1, CallersApart DEF GoneForGood, RetryFresh, Users
<1> QED
  BY <1>2, <1>3, <1>4, <1>5, <1>6, <1>7

LEMMA Standing == ASSUME IInv, UNCHANGED vars PROVE IInv'
  BY DEF vars, IInv, Shape, Named, Offered, Aims, Users, Indexed, McpIndexed, Fresh, GoneForGood,
         RetryFresh, Made, Target

LEMMA InvStep == IInv /\ [Next]_vars => IInv'
<1> SUFFICES ASSUME IInv, [Next]_vars PROVE IInv'
  OBVIOUS
<1>1. ASSUME NEW g \in Goroutines, ConnectFails(g) \/ Discover(g) \/ Register(g)
      PROVE  IInv'
  BY <1>1, Connecting, Discovering, Registering
<1>2. ASSUME NEW c \in Callers, NEW t \in registry, CallTool(c, t)
      PROVE  IInv'
  BY <1>2, Calling
<1>3. ASSUME NEW c \in Callers, CallAnswered(c) \/ RetryFails(c)
      PROVE  IInv'
  BY <1>3, IdleKeeps DEF CallAnswered, RetryFails, MapFrame
<1>4. ASSUME NEW c \in Callers, CallFails(c) \/ ReadServer(c) \/ Clean(c) \/ LookupAgain(c)
      PROVE  IInv'
  BY <1>4, Failing, Reading, Cleaning, LookingAgain
<1>5. CASE Connected \/ Close \/ UNCHANGED vars
  BY <1>5, Handing, Closing, Standing
<1> QED
  BY <1>1, <1>2, <1>3, <1>4, <1>5 DEF Next, Over

LEMMA Inductive == Spec => []IInv
  BY InvInit, InvStep, PTL DEF Spec

-----------------------------------------------------------------------------
(* The theorems.                                                           *)

\* Whatever reconnections mix, no tool is indexed to a client whose server is
\* gone, the tools of a registered server are indexed to its client, and the
\* second request of a call goes to another client than the first, of the same
\* server: the last two unless another server may list the tool, too, which is
\* so when normalizeName (manager.go) makes their names one.
THEOREM ReconnectionsAreSound == Spec => []ReconnectSound
<1>1. IInv => ReconnectSound
  BY DEF IInv, ReconnectSound
<1> QED
  BY <1>1, Inductive, PTL

\* The two flags are switches, and nothing else but the state's shape.
LEMMA Flags == Spec => [](ended \in BOOLEAN /\ panicked \in BOOLEAN)
<1>1. Init => ended \in BOOLEAN /\ panicked \in BOOLEAN
  BY DEF Init
<1>2. (ended \in BOOLEAN /\ panicked \in BOOLEAN) /\ [Next]_vars
        => (ended \in BOOLEAN /\ panicked \in BOOLEAN)'
  BY DEF Next, vars, ConnectFails, Discover, Register, Connected, Close, Over, CallTool,
         CallAnswered, CallFails, ReadServer, Clean, LookupAgain, RetryFails, ConnectFrame, MapFrame
<1> QED
  BY <1>1, <1>2, PTL DEF Spec

\* Goroutines connect, call and retry with clients that exist and that belong
\* to the server they are about (manager.go: connectOne, CallTool).
THEOREM TypeCorrect == Spec => []TypeOK
<1>1. IInv /\ ended \in BOOLEAN /\ panicked \in BOOLEAN => TypeOK
  <2> SUFFICES ASSUME IInv, ended \in BOOLEAN, panicked \in BOOLEAN PROVE TypeOK
    OBVIOUS
  <2> USE DEF IInv
  <2>1. servers \in [Servers -> ClientOrNone] /\ toolIndex \in [Tools -> ClientOrNone]
    BY DEF Shape, Named, ClientOrNone, Made, None
  <2>2. via \in [Goroutines -> ClientOrNone] /\ failedOn \in [Callers -> ClientOrNone]
    BY DEF Shape, Named, ClientOrNone, Made, None
  <2>3. \A i \in Made : clients[i].tools \in Offers[clients[i].server]
    BY DEF Offered, Made
  <2>4. aim \in [Callers -> registry \cup {NoTool}] /\ registry \subseteq Tools
    BY DEF Aims, Shape
  <2>5. closed \subseteq Made /\ at \in [Goroutines -> Steps]
    BY DEF Named, Shape
  <2> QED
    BY <2>1, <2>2, <2>3, <2>4, <2>5 DEF TypeOK, Users, Steps
<1> QED
  BY <1>1, Inductive, Flags, PTL
=============================================================================
