-------------------------- MODULE TeamManagerProofs --------------------------
(***************************************************************************)
(* Theorems about TeamManager, for any teams, names and capacities: the    *)
(* state has its shape, a teammate that runs uncancelled can be found, and *)
(* a deletion reaches all that its members spawned.                        *)
(*                                                                         *)
(* The argument: a member is found where its id says (Membership), and     *)
(* when the lock of DeleteTeam is given up the team is let go only after   *)
(* all that bear its name were cancelled (Cleared): a teammate spawned     *)
(* before the lock was taken is a member, one cannot be spawned after.     *)
(* The spawners of a teammate's spawners are its own (Nested), so what     *)
(* cancels one of them cancels it too.  All of this is said of whoever was *)
(* ever spawned, as one whose spawner has ended may run.                   *)
(***************************************************************************)
EXTENDS TeamManager, TLAPS

-----------------------------------------------------------------------------
(* The inductive invariant.                                                *)

\* The numbers up to mates are in use, those above are not.
Numbered ==
  \A k \in Mates : /\ at[k] = "none" <=> k > mates
                   /\ k <= mates => k \in above[k]

\* Members are in the team of their id, and their ids differ.
Membership ==
  \A t \in Teams :
    /\ \A k \in members[t] : k <= mates /\ who[k][2] = t
    /\ \A j, k \in members[t] : who[j] = who[k] => j = k

\* Those who enclose the context of a spawner enclose those of the teammates it
\* spawned, and none of them is cancelled unless these are.
Nested ==
  \A k \in Mates : \A j \in above[k] :
    k <= mates /\ j <= mates /\ above[j] \subseteq above[k] /\ (ctx[j] => ctx[k])

\* Running or not: who is not cancelled is a member of a team that exists.
Kept == \A k \in Mates : k <= mates /\ ~ctx[k] => who[k][2] \in teams /\ k \in members[who[k][2]]

\* A deletion is about a team; while it waits, nobody of the team is left that
\* is not cancelled.
Cleared ==
  /\ lead.at \in {"look", "looked"} => lead.team \in Teams
  /\ lead.at = "wait" /\ lead.team # NoTeam =>
       \A k \in Mates : k <= mates /\ who[k][2] = lead.team => ctx[k]

Found == Numbered /\ Membership /\ Nested /\ Kept /\ Cleared

IInv == TypeOK /\ Found

-----------------------------------------------------------------------------
(* What the operations under the lock do.                                  *)

LEMMA Putting == \A n \in 0 .. InboxCap : Put(n) \in 0 .. InboxCap
  BY BoundsAssumption DEF Put

LEMMA Notifying ==
  ASSUME TypeOK, NEW n \in Nat, NotifyLead(n)
  PROVE  leadInbox' \in 0 .. LeadCap
<1>1. leadInbox \in Nat /\ LeadCap \in Nat
  BY BoundsAssumption DEF TypeOK
<1> QED
  BY <1>1 DEF NotifyLead

\* Messages move nothing but the inboxes.
LEMMA Sending ==
  ASSUME TypeOK, NEW from,
         (\E n \in Names : SendMessage(n)) \/ Broadcast(from) \/ Refused
  PROVE  /\ ~Locked /\ inbox' \in [Mates -> 0 .. InboxCap]
         /\ UNCHANGED <<teams, members, mates, who, above, ctx, active, leadInbox, turn, lead>>
<1> USE DEF registry, spawned
<1>1. CASE \E n \in Names : SendMessage(n)
  <2>1. PICK k \in Everyone : inbox' = [inbox EXCEPT ![k] = Put(@)]
    BY <1>1 DEF SendMessage
  <2>2. k \in Mates
    BY DEF Everyone, TypeOK
  <2>3. inbox' \in [Mates -> 0 .. InboxCap]
    BY <2>1, <2>2, Putting DEF TypeOK
  <2> QED
    BY <1>1, <2>3 DEF SendMessage
<1>2. CASE Broadcast(from)
  <2>1. inbox' \in [Mates -> 0 .. InboxCap]
    BY <1>2, Putting DEF Broadcast, TypeOK
  <2> QED
    BY <1>2, <2>1 DEF Broadcast
<1>3. CASE Refused
  BY <1>3 DEF Refused, TypeOK
<1> QED
  BY <1>1, <1>2, <1>3

\* A new teammate, and what it is born with; nothing else changes.
LEMMA Spawning ==
  ASSUME TypeOK, NEW n \in Names, NEW t \in Teams, NEW by \in Mates \cup {0}, Spawn(n, t, by)
  PROVE  /\ mates' = mates + 1 /\ mates' \in Mates /\ t \in teams
         /\ lead.at \notin {"look", "wait"}
         /\ \A k \in members[t] : who[k] # <<n, t>>
         /\ UNCHANGED <<teams, inbox, leadInbox, turn, lead>>
         /\ who' \in [Mates -> Ids \cup {<<NoTeam, NoTeam>>}] /\ who'[mates'] = <<n, t>>
         /\ above' \in [Mates -> SUBSET Mates] /\ mates' \in above'[mates']
         /\ by = 0 => above'[mates'] = {mates'}
         /\ by # 0 => above'[mates'] = {mates'} \cup above[by] /\ ctx'[mates'] = ctx[by]
         /\ ctx' \in [Mates -> BOOLEAN] /\ active' \in [Mates -> BOOLEAN]
         /\ \A k \in Mates : k # mates' => who'[k] = who[k] /\ above'[k] = above[k] /\ ctx'[k] = ctx[k]
         /\ members' \in [Teams -> SUBSET Mates] /\ members'[t] = members[t] \cup {mates'}
         /\ \A u \in Teams : u # t => members'[u] = members[u]
<1>1. mates' = mates + 1 /\ mates' \in Mates
  BY BoundsAssumption DEF Spawn, TypeOK, Mates
<1>2. lead.at \notin {"look", "wait"} /\ t \in teams /\ \A k \in members[t] : who[k] # <<n, t>>
  BY DEF Spawn, ReadLocked
<1>3. UNCHANGED <<teams, inbox, leadInbox, turn, lead>>
  BY DEF Spawn
<1>4. who' \in [Mates -> Ids \cup {<<NoTeam, NoTeam>>}] /\ who'[mates'] = <<n, t>>
      /\ \A k \in Mates : k # mates' => who'[k] = who[k]
  BY <1>1 DEF Spawn, TypeOK, Ids
<1>5. above' \in [Mates -> SUBSET Mates] /\ mates' \in above'[mates']
      /\ (by = 0 => above'[mates'] = {mates'})
      /\ (by # 0 => above'[mates'] = {mates'} \cup above[by])
      /\ \A k \in Mates : k # mates' => above'[k] = above[k]
  <2> DEFINE outer == IF by = 0 THEN {} ELSE above[by]
  <2>1. outer \in SUBSET Mates
    BY DEF TypeOK
  <2>2. above' = [above EXCEPT ![mates'] = {mates'} \cup outer]
    BY DEF Spawn
  <2>3. (by = 0 => outer = {}) /\ (by # 0 => outer = above[by])
    OBVIOUS
  <2> HIDE DEF outer
  <2> QED
    BY <1>1, <2>1, <2>2, <2>3 DEF TypeOK
<1>6. ctx' \in [Mates -> BOOLEAN] /\ (by # 0 => ctx'[mates'] = ctx[by])
      /\ \A k \in Mates : k # mates' => ctx'[k] = ctx[k]
  <2> DEFINE born == IF by = 0 THEN ~turn ELSE ctx[by]
  <2>1. born \in BOOLEAN
    <3>1. CASE by = 0
      BY <3>1 DEF TypeOK
    <3>2. CASE by # 0
      <4>1. ctx[by] \in BOOLEAN
        BY <3>2 DEF TypeOK
      <4> QED
        BY <3>2, <4>1
    <3> QED
      BY <3>1, <3>2
  <2>2. ctx' = [ctx EXCEPT ![mates'] = born]
    BY DEF Spawn
  <2>3. by # 0 => born = ctx[by]
    OBVIOUS
  <2> HIDE DEF born
  <2> QED
    BY <1>1, <2>1, <2>2, <2>3 DEF TypeOK
<1>7. active' \in [Mates -> BOOLEAN]
  BY <1>1 DEF Spawn, TypeOK
<1>8. members' \in [Teams -> SUBSET Mates] /\ members'[t] = members[t] \cup {mates'}
      /\ \A u \in Teams : u # t => members'[u] = members[u]
  BY <1>1 DEF Spawn, TypeOK
<1> QED
  BY <1>1, <1>2, <1>3, <1>4, <1>5, <1>6, <1>7, <1>8

LEMMA Cancelling ==
  ASSUME TypeOK, NEW set \in SUBSET Mates, ctx' = Cancelled(set)
  PROVE  /\ ctx' \in [Mates -> BOOLEAN]
         /\ \A k \in Mates : ctx'[k] <=> (ctx[k] \/ above[k] \cap set # {})
  BY DEF Cancelled, TypeOK

-----------------------------------------------------------------------------
(* The type invariant.                                                     *)

LeadShape == [at : LeadPoints, team : Teams \cup {NoTeam}, left : SUBSET Mates,
              rest : SUBSET Teams]

LEMMA TypeStep == ASSUME TypeOK, Cleared, [Next]_vars PROVE TypeOK'
<1> USE DEF registry, spawned
<1>1. ASSUME NEW t \in Teams, CreateTeam(t) PROVE TypeOK'
  BY <1>1 DEF CreateTeam, TypeOK
<1>2. ASSUME NEW t \in Teams, TeamDelete(t) PROVE TypeOK'
  <2>1. lead' \in LeadShape
    BY <1>2 DEF TeamDelete, TypeOK, LeadShape, LeadPoints
  <2> QED
    BY <1>2, <2>1 DEF TeamDelete, TypeOK, LeadShape
<1>3. ASSUME NEW t \in Teams, CloseTeam(t) PROVE TypeOK'
  <2>1. members[t] \in SUBSET Mates
    BY DEF TypeOK
  <2>2. lead' \in LeadShape
    BY <1>3, <2>1 DEF CloseTeam, TypeOK, LeadShape
  <2>3. ctx' \in [Mates -> BOOLEAN]
    BY <1>3, <2>1, Cancelling DEF CloseTeam
  <2> QED
    BY <1>3, <2>2, <2>3 DEF CloseTeam, TypeOK, LeadShape
<1>4. ASSUME NEW n \in Names, NEW t \in Teams, LeadSpawns(n, t) PROVE TypeOK'
  <2>1. Spawn(n, t, 0)
    BY <1>4 DEF LeadSpawns
  <2>2. at' \in [Mates -> {"none", "run", "call", "idle", "end"}]
    BY <1>4, <2>1, Spawning DEF LeadSpawns, TypeOK
  <2>3. mates' \in 0 .. MaxSpawns
    BY <2>1, Spawning DEF Mates
  <2> QED
    BY <2>1, <2>2, <2>3, Spawning DEF TypeOK
<1>5. CASE LeadSends
  <2>1. inbox' \in [Mates -> 0 .. InboxCap]
        /\ UNCHANGED <<teams, members, mates, who, above, ctx, active, leadInbox, turn, lead>>
    BY <1>5, Sending DEF LeadSends
  <2> QED
    BY <1>5, <2>1 DEF LeadSends, TypeOK
<1>6. CASE LeadReads
  BY <1>6, BoundsAssumption DEF LeadReads, TypeOK
<1>7. CASE Look \/ Closed
  <2>1. lead' \in LeadShape
    BY <1>7 DEF Look, Closed, Free, TypeOK, LeadShape, LeadPoints
  <2> QED
    BY <1>7, <2>1 DEF Look, Closed, TypeOK, LeadShape
<1>8. CASE DeleteTeam
  <2>1. members[lead.team] \in SUBSET Mates
    BY <1>8 DEF DeleteTeam, Cleared, TypeOK
  <2>2. lead' \in LeadShape
    BY <1>8, <2>1 DEF DeleteTeam, TypeOK, LeadShape, LeadPoints
  <2>3. ctx' \in [Mates -> BOOLEAN]
    BY <1>8, <2>1, Cancelling DEF DeleteTeam
  <2> QED
    BY <1>8, <2>2, <2>3 DEF DeleteTeam, TypeOK, LeadShape
<1>9. CASE Deleted
  <2>1. lead.team \in Teams /\ Free \in LeadShape
    BY <1>9 DEF Deleted, TypeOK, Free, LeadShape, LeadPoints
  <2>2. teams' \subseteq Teams /\ members' \in [Teams -> SUBSET Mates]
    BY <1>9, <2>1 DEF Deleted, TypeOK
  <2> QED
    BY <1>9, <2>1, <2>2 DEF Deleted, TypeOK, LeadShape
<1>10. CASE Close
  <2>1. lead' \in LeadShape
    BY <1>10 DEF Close, Free, TypeOK, LeadShape, LeadPoints
  <2> QED
    BY <1>10, <2>1 DEF Close, TypeOK, LeadShape
<1>11. ASSUME NEW k \in Mates, WaitFor(k) PROVE TypeOK'
  <2>1. lead' \in LeadShape
    BY <1>11 DEF WaitFor, TypeOK, LeadShape
  <2> QED
    BY <1>11, <2>1 DEF WaitFor, TypeOK, LeadShape
<1>12. CASE EndTurn \/ NextTurn
  <2>1. ctx' \in [Mates -> BOOLEAN]
    BY <1>12 DEF EndTurn, NextTurn, TypeOK
  <2> QED
    BY <1>12, <2>1 DEF EndTurn, NextTurn, TypeOK
<1>13. ASSUME NEW k \in Mates, MateStep(k) PROVE TypeOK'
  <2>1. CASE Calls(k) \/ Quits(k)
    BY <2>1 DEF Calls, Quits, TypeOK
  <2>2. CASE MateSends(k)
    <3>1. inbox' \in [Mates -> 0 .. InboxCap]
          /\ UNCHANGED <<teams, members, mates, who, above, ctx, active, leadInbox, turn, lead>>
      BY <2>2, Sending DEF MateSends
    <3> QED
      BY <2>2, <3>1 DEF MateSends, TypeOK
  <2>3. CASE BecomesIdle(k)
    <3>1. leadInbox' \in 0 .. LeadCap
      BY <2>3, Notifying DEF BecomesIdle
    <3> QED
      BY <2>3, <3>1 DEF BecomesIdle, TypeOK
  <2>4. CASE Fails(k)
    <3>1. leadInbox' \in 0 .. LeadCap
      BY <2>4, Notifying DEF Fails
    <3> QED
      BY <2>4, <3>1 DEF Fails, TypeOK
  <2>5. CASE Wakes(k)
    <3>1. inbox' \in [Mates -> 0 .. InboxCap]
      BY <2>5, BoundsAssumption DEF Wakes, TypeOK
    <3> QED
      BY <2>5, <3>1 DEF Wakes, TypeOK
  <2>6. ASSUME NEW n \in Names, NEW t \in Teams, MateSpawns(k, n, t) PROVE TypeOK'
    <3>1. Spawn(n, t, k)
      BY <2>6 DEF MateSpawns
    <3>2. at' \in [Mates -> {"none", "run", "call", "idle", "end"}]
      BY <2>6, <3>1, Spawning DEF MateSpawns, TypeOK
    <3>3. mates' \in 0 .. MaxSpawns
      BY <3>1, Spawning DEF Mates
    <3> QED
      BY <3>1, <3>2, <3>3, Spawning DEF TypeOK
  <2> QED
    BY <1>13, <2>1, <2>2, <2>3, <2>4, <2>5, <2>6 DEF MateStep
<1>14. CASE UNCHANGED vars
  BY <1>14 DEF vars, TypeOK
<1> QED
  BY <1>1, <1>2, <1>3, <1>4, <1>5, <1>6, <1>7, <1>8, <1>9, <1>10, <1>11, <1>12, <1>13, <1>14
     DEF Next, LeadStep

-----------------------------------------------------------------------------
(* Who can be found.                                                       *)

\* Steps of goroutines that neither start nor cancel any.
LEMMA Going ==
  ASSUME TypeOK, Found, UNCHANGED <<teams, members, mates, who, above, ctx, lead>>,
         at' \in [Mates -> {"none", "run", "call", "idle", "end"}],
         \A k \in Mates : at'[k] = "none" <=> at[k] = "none"
  PROVE  Found'
<1>1. Numbered' /\ Membership'
  BY DEF Found, Numbered, Membership
<1>2. Nested' /\ Kept'
  BY DEF Found, Nested, Kept
<1>3. Cleared'
  BY DEF Found, Cleared
<1> QED
  BY <1>1, <1>2, <1>3 DEF Found

\* Steps of the lead that start nobody; they may cancel some.
LEMMA Leading ==
  ASSUME TypeOK, Found, UNCHANGED <<teams, members, mates, who, above, at>>,
         \A k \in Mates : ctx[k] => ctx'[k],
         \A k \in Mates : \A j \in above[k] : ctx'[j] => ctx'[k],
         Cleared'
  PROVE  Found'
<1>1. Numbered' /\ Membership'
  BY DEF Found, Numbered, Membership
<1>2. Nested'
  BY DEF Found, Nested
<1>3. Kept'
  BY DEF Found, Kept
<1> QED
  BY <1>1, <1>2, <1>3 DEF Found

\* A deletion cancels along the chains of spawners.
LEMMA CancelsDown ==
  ASSUME TypeOK, Found, NEW set \in SUBSET Mates, ctx' = Cancelled(set)
  PROVE  /\ \A k \in Mates : ctx[k] => ctx'[k]
         /\ \A k \in Mates : \A j \in above[k] : ctx'[j] => ctx'[k]
<1>1. \A k \in Mates : ctx'[k] <=> (ctx[k] \/ above[k] \cap set # {})
  BY Cancelling
<1>2. ASSUME NEW k \in Mates, NEW j \in above[k], ctx'[j] PROVE ctx'[k]
  <2>1. j \in Mates /\ above[j] \subseteq above[k] /\ (ctx[j] => ctx[k])
    BY DEF Found, Nested, TypeOK
  <2>2. ctx[j] \/ above[j] \cap set # {}
    BY <1>1, <1>2, <2>1
  <2>3. ctx[k] \/ above[k] \cap set # {}
    BY <2>1, <2>2
  <2> QED
    BY <1>1, <2>3
<1> QED
  BY <1>1, <1>2

LEMMA NewMate ==
  ASSUME TypeOK, Found, TypeOK', NEW n \in Names, NEW t \in Teams, NEW by \in Mates \cup {0},
         Spawn(n, t, by), by # 0 => at[by] = "call",
         \A k \in Mates : at'[k] = IF k = mates' \/ k = by THEN "run" ELSE at[k]
  PROVE  Found'
<1>1. mates' = mates + 1 /\ mates' \in Mates /\ t \in teams /\ mates \in Nat
      /\ UNCHANGED <<teams, lead>> /\ lead.at \notin {"look", "wait"}
      /\ \A k \in members[t] : who[k] # <<n, t>>
  BY Spawning DEF TypeOK
<1>2. who'[mates'] = <<n, t>> /\ mates' \in above'[mates'] /\ members'[t] = members[t] \cup {mates'}
  BY Spawning
<1>3. /\ \A k \in Mates : k # mates' => who'[k] = who[k] /\ above'[k] = above[k] /\ ctx'[k] = ctx[k]
      /\ \A u \in Teams : u # t => members'[u] = members[u]
  BY Spawning
<1>4. at[mates'] = "none" /\ by # mates'
  BY <1>1 DEF Found, Numbered, Mates
<1>5. \A k \in Mates : k # mates' => (k <= mates' <=> k <= mates)
  BY <1>1 DEF Mates
<1>6. Numbered'
  <2> SUFFICES ASSUME NEW k \in Mates
               PROVE  /\ at'[k] = "none" <=> k > mates'
                      /\ k <= mates' => k \in above'[k]
    BY DEF Numbered
  <2>1. CASE k = mates'
    BY <1>1, <1>2, <2>1 DEF Mates
  <2>2. CASE k # mates'
    <3>1. at'[k] = "none" <=> at[k] = "none"
      BY <1>4, <2>2 DEF Mates
    <3>2. k > mates' <=> k > mates
      BY <1>1, <2>2 DEF Mates
    <3> QED
      BY <1>3, <1>5, <2>2, <3>1, <3>2 DEF Found, Numbered
  <2> QED
    BY <2>1, <2>2
<1>7. \A u \in Teams : \A k \in members[u] : k \in Mates /\ k # mates' /\ k <= mates
  <2>1. \A u \in Teams : \A k \in members[u] : k \in Mates /\ k <= mates
    BY DEF Found, Membership, TypeOK
  <2> QED
    BY <1>1, <2>1 DEF Mates
<1>8. Membership'
  <2> SUFFICES ASSUME NEW u \in Teams
               PROVE  /\ \A k \in members'[u] : k <= mates' /\ who'[k][2] = u
                      /\ \A j, k \in members'[u] : who'[j] = who'[k] => j = k
    BY DEF Membership
  <2>1. \A k \in members[u] : k <= mates' /\ who'[k] = who[k] /\ who[k][2] = u
    BY <1>3, <1>5, <1>7 DEF Found, Membership
  <2>2. \A j, k \in members[u] : who'[j] = who'[k] => j = k
    BY <2>1 DEF Found, Membership
  <2>3. CASE u # t
    BY <1>3, <2>1, <2>2, <2>3
  <2>4. CASE u = t
    <3>1. mates' <= mates' /\ who'[mates'][2] = t
      BY <1>1, <1>2
    <3>2. \A k \in members[t] : who'[k] # who'[mates']
      BY <1>1, <1>2, <2>1, <2>4
    <3> QED
      BY <1>2, <2>1, <2>2, <2>4, <3>1, <3>2
  <2> QED
    BY <2>3, <2>4
<1>9. Cleared'
  <2>1. CASE lead.at # "wait"
    BY <1>1, <2>1 DEF Found, Cleared
  <2> QED
    BY <1>1, <2>1
<1>10. Kept'
  <2> SUFFICES ASSUME NEW k \in Mates, k <= mates', ~ctx'[k]
               PROVE  who'[k][2] \in teams' /\ k \in members'[who'[k][2]]
    BY DEF Kept
  <2>1. CASE k = mates'
    BY <1>1, <1>2, <2>1
  <2>2. CASE k # mates'
    <3>1. k <= mates /\ ~ctx[k] /\ who'[k] = who[k]
      BY <1>3, <1>5, <2>2
    <3>2. who[k][2] \in teams /\ k \in members[who[k][2]] /\ who[k][2] \in Teams
      BY <3>1 DEF Found, Kept, TypeOK
    <3> QED
      BY <1>1, <1>2, <1>3, <3>1, <3>2
  <2> QED
    BY <2>1, <2>2
<1>11. Nested'
  <2> SUFFICES ASSUME NEW k \in Mates, NEW j \in above'[k]
               PROVE  k <= mates' /\ j <= mates' /\ above'[j] \subseteq above'[k] /\ (ctx'[j] => ctx'[k])
    BY DEF Nested
  <2>1. ASSUME NEW i \in Mates, NEW h \in above[i]
        PROVE  /\ h \in Mates /\ i <= mates /\ h <= mates /\ i # mates' /\ h # mates'
               /\ above[h] \subseteq above[i] /\ (ctx[h] => ctx[i])
    <3>1. h \in Mates /\ i <= mates /\ h <= mates /\ above[h] \subseteq above[i] /\ (ctx[h] => ctx[i])
      BY DEF Found, Nested, TypeOK
    <3> QED
      BY <1>1, <3>1 DEF Mates
  <2>2. CASE k # mates'
    <3>1. j \in above[k]
      BY <1>3, <2>2
    <3>2. above'[j] = above[j] /\ ctx'[j] = ctx[j] /\ above'[k] = above[k] /\ ctx'[k] = ctx[k]
      BY <1>3, <2>1, <3>1
    <3> QED
      BY <1>5, <2>1, <3>1, <3>2
  <2>3. CASE k = mates' /\ j = mates'
    BY <1>1, <2>3 DEF Mates
  <2>4. CASE k = mates' /\ j # mates'
    <3>1. by \in Mates /\ j \in above[by] /\ above'[k] = {mates'} \cup above[by] /\ ctx'[k] = ctx[by]
      BY <2>4, Spawning
    <3>2. j \in Mates /\ j <= mates /\ above[j] \subseteq above[by] /\ (ctx[j] => ctx[by])
      BY <2>1, <3>1
    <3>3. above'[j] = above[j] /\ ctx'[j] = ctx[j]
      BY <1>3, <2>4, <3>2
    <3>4. k <= mates' /\ j <= mates'
      BY <1>1, <1>5, <2>4, <3>2 DEF Mates
    <3> QED
      BY <3>1, <3>2, <3>3, <3>4
  <2> QED
    BY <2>2, <2>3, <2>4
<1> QED
  BY <1>6, <1>8, <1>9, <1>10, <1>11 DEF Found

LEMMA FoundStep == ASSUME TypeOK, Found, TypeOK', [Next]_vars PROVE Found'
<1> USE DEF registry, spawned
<1>1. ASSUME NEW t \in Teams, CreateTeam(t) PROVE Found'
  <2>1. /\ t \notin teams /\ teams' = teams \cup {t} /\ members'[t] = {}
        /\ \A u \in Teams : u # t => members'[u] = members[u]
        /\ UNCHANGED <<mates, who, above, ctx, at, lead>>
    BY <1>1 DEF CreateTeam, TypeOK
  <2>2. Numbered' /\ Cleared' /\ Nested'
    BY <2>1 DEF Found, Numbered, Cleared, Nested
  <2>3. Membership'
    BY <2>1 DEF Found, Membership
  <2>4. Kept'
    <3> SUFFICES ASSUME NEW k \in Mates, k <= mates, ~ctx[k]
                 PROVE  who[k][2] \in teams' /\ k \in members'[who[k][2]]
      BY <2>1 DEF Kept
    <3>1. who[k][2] \in teams /\ k \in members[who[k][2]]
      BY DEF Found, Kept
    <3> QED
      BY <2>1, <3>1 DEF TypeOK
  <2> QED
    BY <2>2, <2>3, <2>4 DEF Found
<1>2. ASSUME NEW n \in Names, NEW t \in Teams, LeadSpawns(n, t) PROVE Found'
  <2>1. Spawn(n, t, 0) /\ at' = [at EXCEPT ![mates'] = "run"] /\ mates' \in Mates
    BY <1>2, Spawning DEF LeadSpawns
  <2>2. \A k \in Mates : at'[k] = IF k = mates' \/ k = 0 THEN "run" ELSE at[k]
    BY <2>1 DEF TypeOK, Mates
  <2> QED
    BY <2>1, <2>2, NewMate
<1>3. ASSUME NEW k \in Mates, NEW n \in Names, NEW t \in Teams, MateSpawns(k, n, t)
      PROVE  Found'
  <2>1. Spawn(n, t, k) /\ at' = [at EXCEPT ![k] = "run", ![mates'] = "run"] /\ mates' \in Mates
        /\ at[k] = "call"
    BY <1>3, Spawning DEF MateSpawns
  <2>2. \A j \in Mates : at'[j] = IF j = mates' \/ j = k THEN "run" ELSE at[j]
    BY <2>1 DEF TypeOK, Mates
  <2> QED
    BY <2>1, <2>2, NewMate
<1>4. ASSUME NEW k \in Mates,
             Calls(k) \/ MateSends(k) \/ BecomesIdle(k) \/ Fails(k) \/ Wakes(k) \/ Quits(k)
      PROVE  Found'
  <2>1. UNCHANGED <<teams, members, mates, who, above, ctx, lead>>
    <3>1. CASE MateSends(k)
      BY <3>1, Sending DEF MateSends
    <3> QED
      BY <1>4, <3>1 DEF Calls, BecomesIdle, Fails, Wakes, Quits
  <2>2. at[k] \notin {"none", "end"} /\ \E p \in {"run", "call", "idle", "end"} :
                                          at' = [at EXCEPT ![k] = p]
    BY <1>4 DEF Calls, MateSends, BecomesIdle, Fails, Wakes, Quits
  <2>3. \A j \in Mates : at'[j] = "none" <=> at[j] = "none"
    BY <2>2 DEF TypeOK
  <2> QED
    BY <2>1, <2>3, Going DEF TypeOK
<1>5. CASE LeadSends \/ LeadReads \/ UNCHANGED vars
  <2>1. UNCHANGED <<teams, members, mates, who, above, ctx, lead, at>>
    <3>1. CASE LeadSends
      BY <3>1, Sending DEF LeadSends
    <3> QED
      BY <1>5, <3>1 DEF LeadReads, vars
  <2> QED
    BY <2>1, Going DEF TypeOK
<1>6. ASSUME NEW t \in Teams, TeamDelete(t) PROVE Found'
  <2>1. Cleared'
    BY <1>6 DEF TeamDelete, Cleared
  <2> QED
    BY <1>6, <2>1, Leading DEF TeamDelete, Found, Nested
<1>7. CASE Look
  <2>1. Cleared'
    <3>1. CASE lead' = Free
      BY <3>1 DEF Cleared, Free
    <3>2. CASE lead' # Free
      <4>1. lead'.at \in {"look", "looked"} /\ lead'.team = lead.team /\ lead.at = "look"
        BY <1>7, <3>2 DEF Look, TypeOK
      <4> QED
        BY <4>1 DEF Found, Cleared
    <3> QED
      BY <3>1, <3>2
  <2> QED
    BY <1>7, <2>1, Leading DEF Look, Found, Nested
<1>8. CASE DeleteTeam
  <2> DEFINE t == lead.team
  <2>1. t \in Teams /\ members[t] \in SUBSET Mates
    BY <1>8 DEF DeleteTeam, Found, Cleared, TypeOK
  <2>2. /\ \A k \in Mates : ctx'[k] <=> (ctx[k] \/ above[k] \cap members[t] # {})
        /\ lead'.at = "wait" /\ lead'.team = t
        /\ UNCHANGED <<teams, members, mates, who, above, at>>
    BY <1>8, <2>1, Cancelling DEF DeleteTeam, TypeOK
  <2>3. ASSUME NEW k \in Mates, k <= mates, who[k][2] = t PROVE ctx'[k]
    <3>1. CASE ctx[k]
      BY <2>2, <3>1
    <3>2. CASE ~ctx[k]
      <4>1. k \in members[t]
        BY <2>3, <3>2 DEF Found, Kept
      <4>2. k \in above[k]
        BY <2>3 DEF Found, Numbered
      <4> QED
        BY <2>2, <4>1, <4>2
    <3> QED
      BY <3>1, <3>2
  <2>4. Cleared'
    BY <2>2, <2>3 DEF Cleared
  <2>5. /\ \A k \in Mates : ctx[k] => ctx'[k]
        /\ \A k \in Mates : \A j \in above[k] : ctx'[j] => ctx'[k]
    BY <1>8, <2>1, CancelsDown DEF DeleteTeam
  <2> QED
    BY <2>2, <2>4, <2>5, Leading
<1>9. ASSUME NEW k \in Mates, WaitFor(k) PROVE Found'
  <2>1. lead'.at = "wait" /\ lead.at = "wait" /\ lead'.team = lead.team
        /\ UNCHANGED <<teams, members, mates, who, above, ctx, at>>
    BY <1>9 DEF WaitFor, TypeOK
  <2>2. Cleared'
    BY <2>1 DEF Found, Cleared
  <2> QED
    BY <2>1, <2>2, Leading DEF Found, Nested
<1>10. CASE Deleted
  <2> DEFINE t == lead.team
  <2>1. t \in Teams /\ lead.at = "wait" /\ t # NoTeam /\ lead' = Free
    BY <1>10 DEF Deleted, TypeOK
  <2>2. /\ teams' = teams \ {t} /\ members'[t] = {}
        /\ \A u \in Teams : u # t => members'[u] = members[u]
        /\ UNCHANGED <<mates, who, above, ctx, at>>
    BY <1>10, <2>1 DEF Deleted, TypeOK
  <2>3. Numbered' /\ Cleared' /\ Nested'
    BY <2>1, <2>2 DEF Found, Numbered, Cleared, Nested, Free
  <2>4. Membership'
    BY <2>2 DEF Found, Membership
  <2>5. Kept'
    <3> SUFFICES ASSUME NEW k \in Mates, k <= mates, ~ctx[k]
                 PROVE  who[k][2] \in teams' /\ k \in members'[who[k][2]]
      BY <2>2 DEF Kept
    <3>1. who[k][2] \in teams /\ k \in members[who[k][2]]
      BY DEF Found, Kept
    <3>2. who[k][2] # t
      BY <2>1 DEF Found, Cleared
    <3> QED
      BY <2>2, <3>1, <3>2 DEF TypeOK
  <2> QED
    BY <2>3, <2>4, <2>5 DEF Found
<1>11. CASE EndTurn \/ NextTurn
  <2>1. \A k \in Mates : ctx[k] => ctx'[k]
    BY <1>11 DEF EndTurn, NextTurn, TypeOK
  <2>2. lead.at = "free" /\ lead' = lead
    BY <1>11 DEF EndTurn, NextTurn, LeadActs
  <2>3. Cleared'
    BY <2>2 DEF Cleared
  <2>4. \A k \in Mates : \A j \in above[k] : ctx'[j] => ctx'[k]
    <3>1. \A k \in Mates : \A j \in above[k] : j \in Mates /\ k <= mates /\ (ctx[j] => ctx[k])
      BY DEF Found, Nested, TypeOK
    <3>2. CASE EndTurn
      BY <3>1, <3>2 DEF EndTurn
    <3>3. CASE NextTurn
      BY <3>1, <3>3 DEF NextTurn
    <3> QED
      BY <1>11, <3>2, <3>3
  <2> QED
    BY <1>11, <2>1, <2>3, <2>4, Leading DEF EndTurn, NextTurn
<1>12. CASE Close \/ Closed
  <2>1. lead'.at \in {"wait", "closed"} /\ lead'.team = NoTeam
    BY <1>12 DEF Close, Closed, Free
  <2>2. Cleared'
    BY <2>1 DEF Cleared
  <2> QED
    BY <1>12, <2>2, Leading DEF Close, Closed, Found, Nested
<1>13. ASSUME NEW t \in Teams, CloseTeam(t) PROVE Found'
  <2>1. /\ \A k \in Mates : ctx[k] => ctx'[k]
        /\ \A k \in Mates : \A j \in above[k] : ctx'[j] => ctx'[k]
    BY <1>13, CancelsDown DEF CloseTeam, TypeOK
  <2>2. lead'.at = "wait" /\ lead'.team = NoTeam
    BY <1>13 DEF CloseTeam, TypeOK
  <2>3. Cleared'
    BY <2>2 DEF Cleared
  <2> QED
    BY <1>13, <2>1, <2>3, Leading DEF CloseTeam
<1> QED
  BY <1>1, <1>2, <1>3, <1>4, <1>5, <1>6, <1>7, <1>8, <1>9, <1>10, <1>11, <1>12, <1>13
     DEF Next, LeadStep, MateStep

-----------------------------------------------------------------------------
(* The theorems.                                                           *)

LEMMA InvInit == Init => IInv
<1> SUFFICES ASSUME Init PROVE IInv
  OBVIOUS
<1> USE DEF Init
<1>1. TypeOK
  BY BoundsAssumption DEF TypeOK, Free, LeadPoints
<1>2. Numbered /\ Membership /\ Cleared
  BY DEF Numbered, Membership, Cleared, Free, Mates
<1>3. Nested /\ Kept
  BY DEF Nested, Kept, Mates
<1> QED
  BY <1>1, <1>2, <1>3 DEF IInv, Found

LEMMA Inductive == Spec => []IInv
<1>1. IInv /\ [Next]_vars => IInv'
  BY TypeStep, FoundStep DEF IInv, Found
<1> QED
  BY InvInit, <1>1, PTL DEF Spec

\* Teams, teammates and the lead keep their shapes and the inboxes their
\* capacities; what DeleteTeam works on is a team (manager.go: DeleteTeam,
\* SendMessage, Broadcast, notifyLead).
THEOREM TypeCorrect == Spec => []TypeOK
<1>1. IInv => TypeOK
  BY DEF IInv
<1> QED
  BY <1>1, Inductive, PTL

\* Whatever is spawned before, between and after the steps of a deletion, a
\* running teammate that is not cancelled is a member of a team that exists,
\* the only one under its id (manager.go: SpawnTeammate, DeleteTeam).
THEOREM MatesAreFound == Spec => []MatesFound
<1>1. ASSUME IInv PROVE MatesFound
  <2>1. \A k \in Live : k \in Mates /\ k <= mates
    BY <1>1 DEF IInv, Found, Numbered, Live, TypeOK, Mates
  <2>2. NoOrphans
    BY <1>1, <2>1 DEF IInv, Found, Kept, NoOrphans
  <2>3. OneMatePerId
    <3> SUFFICES ASSUME NEW j \in Live, NEW k \in Live, who[j] = who[k], ~ctx[j], ~ctx[k]
                 PROVE  j = k
      BY DEF OneMatePerId
    <3>1. j \in members[who[j][2]] /\ k \in members[who[j][2]] /\ who[j][2] \in Teams
      BY <1>1, <2>2 DEF NoOrphans, IInv, TypeOK
    <3> QED
      BY <1>1, <3>1 DEF IInv, Found, Membership
  <2> QED
    BY <2>2, <2>3 DEF MatesFound
<1> QED
  BY <1>1, Inductive, PTL

\* Whoever stands between the lead and a teammate that runs uncancelled is
\* uncancelled itself and a member of a team that exists: no deletion of a team
\* leaves running what its members spawned, directly or through others, into
\* that team or another (manager.go: SpawnTeammate, DeleteTeam, Close).
THEOREM DeletionsReachAll == Spec => []DeletionsReach
<1>1. ASSUME IInv PROVE DeletionsReach
  <2> SUFFICES ASSUME NEW k \in Live, ~ctx[k], NEW j \in above[k]
               PROVE  ~ctx[j] /\ who[j][2] \in teams /\ j \in members[who[j][2]]
    BY DEF DeletionsReach
  <2>1. k \in Mates /\ j \in Mates
    BY <1>1 DEF IInv, TypeOK, Live
  <2>2. j <= mates /\ ~ctx[j]
    BY <1>1, <2>1 DEF IInv, Found, Nested
  <2> QED
    BY <1>1, <2>1, <2>2 DEF IInv, Found, Kept
<1> QED
  BY <1>1, Inductive, PTL
=============================================================================
