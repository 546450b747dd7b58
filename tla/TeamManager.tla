----------------------------- MODULE TeamManager -----------------------------
(***************************************************************************)
(* Teams of agents (internal/team) and the tools that reach them: the lead *)
(* creates and deletes teams, the lead and the teammates spawn teammates   *)
(* and write to them.  A teammate is a goroutine: it runs an agent loop,   *)
(* becomes idle, waits for a message and runs again.  DeleteTeam and Close *)
(* keep the manager's lock while they wait for the goroutines they cancel; *)
(* every other operation keeps it for one step.                            *)
(***************************************************************************)
EXTENDS Naturals, FiniteSets

CONSTANTS
  Teams,      \* names of teams
  Names,      \* names of teammates
  MaxSpawns,  \* bound: teammates spawned
  InboxCap,   \* capacity of a teammate's inbox (16 in the code)
  LeadCap     \* capacity of leadInbox (32 in the code)

ASSUME BoundsAssumption == /\ MaxSpawns \in Nat /\ InboxCap \in Nat \ {0}
                           /\ LeadCap \in Nat \ {0}

VARIABLES
  teams,      \* m.teams
  members,    \* members[t]: the teammates in t.Members
  mates,      \* teammates spawned so far; the latest one's number
  who,        \* who[k]: the agent id of teammate k, a name and a team
  above,      \* above[k]: k and the teammates whose context encloses that of k
  ctx,        \* ctx[k]: the context of k is cancelled
  at,         \* at[k]: the point runTeammate has reached; "end" closes Done
  active,     \* active[k]: member.IsActive
  inbox,      \* inbox[k]: messages in member.Inbox
  leadInbox,  \* messages in m.leadInbox
  turn,       \* the lead is in a turn
  lead        \* the operation the lead is in

vars == <<teams, members, mates, who, above, ctx, at, active, inbox, leadInbox, turn, lead>>

spawned == <<mates, who, above>>
registry == <<teams, members>>

Mates == 1 .. MaxSpawns
Ids == Names \X Teams
Live == {k \in Mates : at[k] \notin {"none", "end"}}

\* at "look", TeamDelete reads IsActive of left under the read lock; at
\* "looked" it holds no lock; at "wait", DeleteTeam or Close holds the lock
\* and waits for left; rest is what Close has still to cancel.
LeadPoints == {"free", "look", "looked", "wait", "closed"}
NoTeam == "none"

ASSUME TeamsAssumption == NoTeam \notin Teams

Free == [at |-> "free", team |-> NoTeam, left |-> {}, rest |-> {}]
Locked == lead.at = "wait"
ReadLocked == lead.at \in {"look", "wait"}

Init ==
  /\ teams = {} /\ members = [t \in Teams |-> {}]
  /\ mates = 0 /\ who = [k \in Mates |-> <<NoTeam, NoTeam>>]
  /\ above = [k \in Mates |-> {}]
  /\ ctx = [k \in Mates |-> FALSE]
  /\ at = [k \in Mates |-> "none"]
  /\ active = [k \in Mates |-> FALSE]
  /\ inbox = [k \in Mates |-> 0] /\ leadInbox = 0
  /\ turn = TRUE /\ lead = Free

-----------------------------------------------------------------------------
(* What the lead's and the teammates' tools do under the lock.             *)

\* Mutant of Cancelled: only the contexts themselves.
CancelledAlone(set) == [k \in Mates |-> ctx[k] \/ k \in set]

\* Cancelling a context cancels those derived from it.
Cancelled(set) == [k \in Mates |-> ctx[k] \/ above[k] \cap set # {}]

\* Mutant of Spawn: the agent id may be taken.
SpawnTwice(n, t, by) ==
  /\ ~ReadLocked /\ mates < MaxSpawns /\ t \in teams
  /\ mates' = mates + 1
  /\ who' = [who EXCEPT ![mates'] = <<n, t>>]
  /\ above' = [above EXCEPT ![mates'] = {mates'} \cup (IF by = 0 THEN {} ELSE above[by])]
  /\ ctx' = [ctx EXCEPT ![mates'] = IF by = 0 THEN ~turn ELSE ctx[by]]
  /\ members' = [members EXCEPT ![t] = @ \cup {mates'}]
  /\ active' = [active EXCEPT ![mates'] = TRUE]
  /\ UNCHANGED <<teams, inbox, leadInbox, turn, lead>>

\* Mutant of Spawn: without the lock.
SpawnUnlocked(n, t, by) ==
  /\ mates < MaxSpawns /\ t \in teams
  /\ \A k \in members[t] : who[k] # <<n, t>>
  /\ mates' = mates + 1
  /\ who' = [who EXCEPT ![mates'] = <<n, t>>]
  /\ above' = [above EXCEPT ![mates'] = {mates'} \cup (IF by = 0 THEN {} ELSE above[by])]
  /\ ctx' = [ctx EXCEPT ![mates'] = IF by = 0 THEN ~turn ELSE ctx[by]]
  /\ members' = [members EXCEPT ![t] = @ \cup {mates'}]
  /\ active' = [active EXCEPT ![mates'] = TRUE]
  /\ UNCHANGED <<teams, inbox, leadInbox, turn, lead>>

\* SpawnTeammate, by teammate number by or the lead (0): the context is a
\* child of the caller's.
Spawn(n, t, by) ==
  /\ ~ReadLocked /\ mates < MaxSpawns /\ t \in teams
  /\ \A k \in members[t] : who[k] # <<n, t>>
  /\ mates' = mates + 1
  /\ who' = [who EXCEPT ![mates'] = <<n, t>>]
  /\ above' = [above EXCEPT ![mates'] = {mates'} \cup (IF by = 0 THEN {} ELSE above[by])]
  /\ ctx' = [ctx EXCEPT ![mates'] = IF by = 0 THEN ~turn ELSE ctx[by]]
  /\ members' = [members EXCEPT ![t] = @ \cup {mates'}]
  /\ active' = [active EXCEPT ![mates'] = TRUE]
  /\ UNCHANGED <<teams, inbox, leadInbox, turn, lead>>

Everyone == UNION {members[t] : t \in teams}

\* Mutant of Put: the capacity is not respected.
PutAlways(n) == n + 1

\* Sends never block; the message for a full inbox is dropped.
Put(n) == IF n < InboxCap THEN n + 1 ELSE n

\* SendMessage: any member of that name, in whichever team it is met first.
SendMessage(name) ==
  /\ ~Locked
  /\ \E k \in Everyone : /\ who[k][1] = name
                         /\ inbox' = [inbox EXCEPT ![k] = Put(@)]
  /\ UNCHANGED <<registry, spawned, ctx, active, leadInbox, turn, lead>>

\* Broadcast: to the members of all teams but those with the sender's name.
Broadcast(from) ==
  /\ ~Locked
  /\ inbox' = [k \in Mates |-> IF k \in Everyone /\ who[k][1] # from
                               THEN Put(inbox[k]) ELSE inbox[k]]
  /\ UNCHANGED <<registry, spawned, ctx, active, leadInbox, turn, lead>>

\* The call finds no team, no recipient, or an id that is taken.
Refused == ~Locked /\ UNCHANGED <<registry, spawned, ctx, active, inbox, leadInbox, turn, lead>>

-----------------------------------------------------------------------------
(* The lead.                                                               *)

LeadActs == turn /\ lead.at = "free"

CreateTeam(t) ==
  /\ LeadActs /\ t \notin teams
  /\ teams' = teams \cup {t}
  /\ members' = [members EXCEPT ![t] = {}]
  /\ UNCHANGED <<spawned, ctx, at, active, inbox, leadInbox, turn, lead>>

LeadSpawns(n, t) ==
  /\ LeadActs /\ Spawn(n, t, 0)
  /\ at' = [at EXCEPT ![mates'] = "run"]

LeadSends ==
  /\ LeadActs
  /\ (\E n \in Names : SendMessage(n)) \/ Broadcast(NoTeam)
  /\ UNCHANGED at

\* The lead's agent loop takes a message at the top of an iteration.
LeadReads ==
  /\ LeadActs /\ leadInbox > 0
  /\ leadInbox' = leadInbox - 1
  /\ UNCHANGED <<registry, spawned, ctx, at, active, inbox, turn, lead>>

\* TeamDelete, the tool: GetTeamInfo reads IsActive, which the goroutines write
\* without the lock, of one member after the other.
TeamDelete(t) ==
  /\ LeadActs /\ t \in teams
  /\ lead' = [at |-> "look", team |-> t, left |-> members[t], rest |-> {}]
  /\ UNCHANGED <<registry, spawned, ctx, at, active, inbox, leadInbox, turn>>

Look ==
  /\ lead.at = "look"
  /\ \/ \E k \in lead.left : lead' = IF active[k] THEN Free ELSE [lead EXCEPT !.left = @ \ {k}]
     \/ lead.left = {} /\ lead' = [lead EXCEPT !.at = "looked"]
  /\ UNCHANGED <<registry, spawned, ctx, at, active, inbox, leadInbox, turn>>

\* DeleteTeam, with the lock: the members are cancelled.
DeleteTeam ==
  /\ lead.at = "looked"
  /\ ctx' = Cancelled(members[lead.team])
  /\ lead' = [lead EXCEPT !.at = "wait", !.left = members[lead.team]]
  /\ UNCHANGED <<registry, spawned, at, active, inbox, leadInbox, turn>>

\* Mutant of WaitFor: no timeout.
WaitForEver(k) ==
  /\ lead.at = "wait" /\ k \in lead.left /\ at[k] = "end"
  /\ lead' = [lead EXCEPT !.left = @ \ {k}]
  /\ UNCHANGED <<registry, spawned, ctx, at, active, inbox, leadInbox, turn>>

\* Done is closed, or the five seconds are over and the goroutine is left alone.
WaitFor(k) ==
  /\ lead.at = "wait" /\ k \in lead.left
  /\ lead' = [lead EXCEPT !.left = @ \ {k}]
  /\ UNCHANGED <<registry, spawned, ctx, at, active, inbox, leadInbox, turn>>

\* DeleteTeam returns.
Deleted ==
  /\ lead.at = "wait" /\ lead.team # NoTeam /\ lead.left = {}
  /\ teams' = teams \ {lead.team}
  /\ members' = [members EXCEPT ![lead.team] = {}]
  /\ lead' = Free
  /\ UNCHANGED <<spawned, ctx, at, active, inbox, leadInbox, turn>>

\* The turn ends, or is interrupted, and with it the context that encloses all
\* others; a tool that is running finishes first.
EndTurn ==
  /\ LeadActs
  /\ turn' = FALSE
  /\ ctx' = [k \in Mates |-> ctx[k] \/ k <= mates]
  /\ UNCHANGED <<registry, spawned, at, active, inbox, leadInbox, lead>>

NextTurn ==
  /\ ~turn /\ lead.at = "free"
  /\ turn' = TRUE
  /\ UNCHANGED <<registry, spawned, ctx, at, active, inbox, leadInbox, lead>>

\* Close, with the lock: team after team is cancelled and waited for.
Close ==
  /\ ~turn /\ lead.at = "free"
  /\ lead' = [Free EXCEPT !.at = "wait", !.rest = teams]
  /\ UNCHANGED <<registry, spawned, ctx, at, active, inbox, leadInbox, turn>>

CloseTeam(t) ==
  /\ lead.at = "wait" /\ lead.team = NoTeam /\ lead.left = {} /\ t \in lead.rest
  /\ ctx' = Cancelled(members[t])
  /\ lead' = [lead EXCEPT !.left = members[t], !.rest = @ \ {t}]
  /\ UNCHANGED <<registry, spawned, at, active, inbox, leadInbox, turn>>

Closed ==
  /\ lead.at = "wait" /\ lead.team = NoTeam /\ lead.left = {} /\ lead.rest = {}
  /\ lead' = [Free EXCEPT !.at = "closed"]
  /\ UNCHANGED <<registry, spawned, ctx, at, active, inbox, leadInbox, turn>>

-----------------------------------------------------------------------------
(* A teammate (runTeammate).                                               *)

NotifyLead(n) == leadInbox' = IF leadInbox + n < LeadCap THEN leadInbox + n ELSE LeadCap

\* The agent loop starts a tool that needs the manager's lock.
Calls(k) ==
  /\ at[k] = "run"
  /\ at' = [at EXCEPT ![k] = "call"]
  /\ UNCHANGED <<registry, spawned, ctx, active, inbox, leadInbox, turn, lead>>

MateSpawns(k, n, t) ==
  /\ at[k] = "call" /\ Spawn(n, t, k)
  /\ at' = [at EXCEPT ![k] = "run", ![mates'] = "run"]

MateSends(k) ==
  /\ at[k] = "call"
  /\ (\E n \in Names : SendMessage(n)) \/ Broadcast(who[k][1]) \/ Refused
  /\ at' = [at EXCEPT ![k] = "run"]

\* The agent loop is over, after max_turns with a warning first.
BecomesIdle(k) ==
  /\ at[k] = "run"
  /\ at' = [at EXCEPT ![k] = "idle"]
  /\ active' = [active EXCEPT ![k] = FALSE]
  /\ \E warnings \in {0, 1} : NotifyLead(warnings + 1)
  /\ UNCHANGED <<registry, spawned, ctx, inbox, turn, lead>>

\* The agent loop fails: runTeammate returns and IsActive keeps its value.
Fails(k) ==
  /\ at[k] = "run"
  /\ at' = [at EXCEPT ![k] = "end"]
  /\ NotifyLead(1)
  /\ UNCHANGED <<registry, spawned, ctx, active, inbox, turn, lead>>

\* A message is the next prompt.
Wakes(k) ==
  /\ at[k] = "idle" /\ inbox[k] > 0
  /\ at' = [at EXCEPT ![k] = "run"]
  /\ inbox' = [inbox EXCEPT ![k] = @ - 1]
  /\ active' = [active EXCEPT ![k] = TRUE]
  /\ UNCHANGED <<registry, spawned, ctx, leadInbox, turn, lead>>

Quits(k) ==
  /\ at[k] = "idle" /\ ctx[k]
  /\ at' = [at EXCEPT ![k] = "end"]
  /\ UNCHANGED <<registry, spawned, ctx, active, inbox, leadInbox, turn, lead>>

-----------------------------------------------------------------------------

LeadStep ==
  \/ \E t \in Teams : CreateTeam(t) \/ TeamDelete(t) \/ CloseTeam(t)
  \/ \E n \in Names, t \in Teams : LeadSpawns(n, t)
  \/ LeadSends \/ LeadReads \/ Look \/ DeleteTeam \/ Deleted \/ Close \/ Closed
  \/ \E k \in Mates : WaitFor(k)
  \/ EndTurn \/ NextTurn

MateStep(k) ==
  \/ Calls(k) \/ MateSends(k) \/ BecomesIdle(k) \/ Fails(k) \/ Wakes(k) \/ Quits(k)
  \/ \E n \in Names, t \in Teams : MateSpawns(k, n, t)

Next == LeadStep \/ \E k \in Mates : MateStep(k)

\* The manager's own steps are taken.  Waiting readers get the lock when a
\* writer lets it go; an agent loop has a limit of turns; of the ready cases of
\* a select Go takes any, so none is passed over for ever.
Spec ==
  /\ Init /\ [][Next]_vars
  /\ WF_vars(\/ Look \/ DeleteTeam \/ Deleted \/ Closed
             \/ \E t \in Teams : CloseTeam(t) \/ \E k \in Mates : WaitFor(k))
  /\ \A k \in Mates : /\ SF_vars(MateSends(k)) /\ SF_vars(BecomesIdle(k) \/ Fails(k))
                      /\ SF_vars(Quits(k))

-----------------------------------------------------------------------------
(* Properties.                                                             *)

\* The shape of the state; the inboxes respect their capacities.
TypeOK ==
  /\ teams \subseteq Teams /\ members \in [Teams -> SUBSET Mates]
  /\ mates \in 0 .. MaxSpawns
  /\ who \in [Mates -> Ids \cup {<<NoTeam, NoTeam>>}]
  /\ above \in [Mates -> SUBSET Mates] /\ ctx \in [Mates -> BOOLEAN]
  /\ at \in [Mates -> {"none", "run", "call", "idle", "end"}]
  /\ active \in [Mates -> BOOLEAN]
  /\ inbox \in [Mates -> 0 .. InboxCap] /\ leadInbox \in 0 .. LeadCap
  /\ turn \in BOOLEAN
  /\ lead \in [at : LeadPoints, team : Teams \cup {NoTeam}, left : SUBSET Mates,
               rest : SUBSET Teams]

\* A teammate that DeleteTeam gave up waiting for, or that was spawned while a
\* deletion was under way, is never left running uncancelled: whoever is not
\* cancelled is a member of a team that exists.
NoOrphans == \A k \in Live : ctx[k] \/ (who[k][2] \in teams /\ k \in members[who[k][2]])

\* Although an id can be taken again while a teammate that had it still runs,
\* at most one teammate that is not cancelled has it.
OneMatePerId == \A j, k \in Live : who[j] = who[k] /\ ~ctx[j] /\ ~ctx[k] => j = k

\* A running teammate that is not cancelled can be found: it is a member of a
\* team, alone under its id.
MatesFound == NoOrphans /\ OneMatePerId

\* A deletion reaches all that its members spawned, directly or through others,
\* into whichever team, also those whose spawners ended long before: if a
\* teammate runs uncancelled, then all who stand between it and the lead are
\* uncancelled, and still members of teams that exist.
DeletionsReach ==
  \A k \in Live : ~ctx[k] =>
    \A j \in above[k] : ~ctx[j] /\ who[j][2] \in teams /\ j \in members[who[j][2]]

\* A cancelled teammate ends, even if it waits for the lock that the one who
\* cancelled it keeps while waiting for its end.  (MaxSpawns bounds the
\* cancellations, so after the last of them nobody cancelled remains.)
CancelledMatesEnd == <>[](\A k \in Live : ~ctx[k])
=============================================================================
