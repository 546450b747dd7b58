----------------------------- MODULE ToolProofs ------------------------------
(***************************************************************************)
(* The safety properties of what tools leave behind them: the working      *)
(* trees they write to (Workspace) and the background tasks they start     *)
(* (TaskManager), which share no state.  For any names, contents and       *)
(* bounds: rewinds restore, removals spare the work of their session that  *)
(* git shows, Bash follows the session.  For any tasks, callers and        *)
(* capacity: what a task's status, channel and notification say is true    *)
(* and agrees.                                                             *)
(***************************************************************************)
EXTENDS Workspace, TaskManager, WellFoundedInduction, TLAPS

-----------------------------------------------------------------------------
(* The inductive invariant of the working trees.                           *)

Held == Contents \cup {absent, torn}
Ways == {"exact", "filtered", "failed"}
Snapshot == [id : Nat, path : Trees, was : Held, how : Ways, blob : Held]
WriteCall == [id : Nat, tool : {"Write", "Edit"}, path : Trees, text : Held \cup {"unread"}]

Repository ==
  /\ plan \in Plans /\ made \in 0 .. plan.commits
  /\ wt \in [Trees -> {"none", "tree", "plain"}] /\ wt[main] = "tree"
  /\ on \in [Trees -> {"own", "other", "detached"}]
  /\ head \in [Trees -> SUBSET (upstream .. made)]
  /\ branch \in [Names -> SUBSET (upstream .. made)] /\ safe \in SUBSET (upstream .. made)
  /\ files \in [Trees -> Held] /\ tracked \in [Trees -> Held]

\* What is no worktree has no HEAD, and what is no directory has no file.
Bare ==
  \A t \in Trees :
    /\ wt[t] # "tree" => head[t] = {}
    /\ wt[t] = "none" => files[t] = absent /\ tracked[t] = absent

\* A blob is what the file was, if git stored it as it is.
Exact(s) == s.how = "exact" \/ s.was = absent => s.blob = s.was
Snapshots ==
  /\ snaps \subseteq Snapshot /\ writing \subseteq WriteCall
  /\ \A s \in snaps : s.id <= plan.saves /\ Exact(s)
  /\ \A s, o \in snaps : s.id = o.id => s = o

\* A rewind goes from the newest snapshot to the oldest, so the one it restored
\* last of a file is the oldest it restored.
First(s) == \A o \in rewound : o.path = s.path => s.id <= o.id
Rewinding ==
  /\ todo \subseteq snaps /\ rewound \subseteq Snapshot
  /\ \A s \in rewound : Exact(s) /\ \A o \in todo : o.id < s.id
  /\ \A s \in rewound : First(s) /\ s.path \notin touched => files[s.path] = s.blob

\* Where the agents are: a run is over when its results are applied, and the
\* tools are there while it runs.
Lead ==
  /\ phase \in {"idle", "calls", "removing", "rewinding"} /\ prompts \in Nat
  /\ depth \in Levels /\ pending \in [Levels -> Seq(Trees)] /\ dirs \in Seq(Trees)
  /\ session \in [tree : Trees, base : SUBSET Nat, from : Trees, prompt : 0 .. prompts]
  /\ Exists(session.tree)
  /\ phase = "removing" => InSession
  /\ phase \in {"calls", "removing"} => dirs # << >>
  /\ \A d \in Levels : phase \in {"idle", "rewinding"} \/ d > depth => pending[d] = << >>
  /\ phase \in {"idle", "rewinding"} => depth = 1

\* As long as each directory is taken when no result is still to change it, one
\* agent has results to apply, and the last of them is where the session is.
Applied == \A d \in Levels : pending[d] = << >>
Follows ==
  ~mixed =>
    /\ InSession => session.from = main
    /\ \A d, e \in Levels : pending[d] # << >> /\ pending[e] # << >> => d = e
    /\ \A d \in Levels : pending[d] # << >> => Last(pending[d]) = session.tree
    /\ Applied /\ dirs # << >> /\ (InSession => session.prompt = prompts) => Dir = session.tree

\* What a removal that was checked is about to delete, and git shows, came
\* after the check or is older than the session.
Checked ==
  phase = "removing" =>
    /\ head[Repo(session.tree)] \subseteq session.base \cup late
    /\ Changed(session.tree) => uncommitted \in late
    /\ plan.ignored \/ Nested(Repo(session.tree)) = {}

Lateness == late \subseteq upstream .. uncommitted /\ lost \subseteq upstream .. uncommitted

TreesInv ==
  Repository /\ Bare /\ Snapshots /\ Rewinding /\ Lead /\ Follows /\ Checked /\ Lateness

-----------------------------------------------------------------------------
(* Operators.                                                              *)

LEMMA TreeShape ==
  /\ main \in Trees /\ main \notin Worktrees /\ Worktrees \subseteq Trees
  /\ Trees = {main} \cup Worktrees
  /\ \A t \in Trees : t \in Seq(Names) /\ Parent(t) \in Trees
  /\ \A t \in Worktrees : Name(t) \in Names
<1>1. main \in Trees /\ main \notin Worktrees /\ Trees = {main} \cup Worktrees
  BY DEF Trees, Worktrees
<1>2. ASSUME NEW n \in Names PROVE <<n>> \in Seq(Names) /\ Parent(<<n>>) = main /\ Name(<<n>>) = n
  BY DEF Parent, Name
<1>3. ASSUME NEW m \in Names, NEW n \in Names
      PROVE  <<m, n>> \in Seq(Names) /\ Parent(<<m, n>>) = <<m>> /\ Name(<<m, n>>) = n
  BY DEF Parent, Name
<1>4. main \in Seq(Names) /\ Parent(main) = main
  BY DEF main, Parent
<1>5. ASSUME NEW t \in Worktrees PROVE t \in Seq(Names) /\ Parent(t) \in Trees /\ Name(t) \in Names
  <2>1. CASE \E n \in Names : t = <<n>>
    BY <1>1, <1>2, <2>1
  <2>2. CASE \E m, n \in Names : t = <<m, n>>
    <3>1. PICK m \in Names, n \in Names : t = <<m, n>>
      BY <2>2
    <3>2. <<m>> \in Trees
      BY DEF Trees
    <3> QED
      BY <1>3, <3>1, <3>2
  <2> QED
    BY <2>1, <2>2 DEF Worktrees, Trees
<1> QED
  BY <1>1, <1>4, <1>5

LEMMA RepoIsTree == \A t \in Trees : Repo(t) \in Trees
  BY TreeShape DEF Repo

LEMMA RepoIsGit ==
  ASSUME Repository
  PROVE  \A t \in Trees : wt[Repo(t)] = "tree"
  BY DEF Repo, Repository

LEMMA TargetShape ==
  ASSUME Repository, NEW n \in Names, Dir \in Trees, Target(n) \in plan.trees
  PROVE  Target(n) \in Worktrees /\ Name(Target(n)) = n
<1>1. plan.trees \subseteq Worktrees
  BY PlansAssumption DEF Repository
<1>2. Repo(Dir) \in Seq(Names)
  BY TreeShape, RepoIsTree
<1>3. Name(Append(Repo(Dir), n)) = n
  BY <1>2 DEF Name
<1> QED
  BY <1>1, <1>3 DEF Target

\* The smallest number of a set.
LEMMA LeastIsThere ==
  ASSUME NEW S \in SUBSET Nat, S # {}
  PROVE  \E x \in S : \A y \in S : x <= y
<1>1. PICK x \in S : \A y \in S : ~(<<y, x>> \in OpToRel(<, Nat))
  BY NatLessThanWellFounded, WFMin
<1>2. \A y \in S : ~(y < x)
  BY <1>1 DEF OpToRel
<1> QED
  BY <1>2

LEMMA LastIdAt ==
  ASSUME Snapshots, plan.saves \in Nat
  PROVE  LastId \in Nat /\ \A s \in snaps : s.id <= LastId
<1> DEFINE S == {s.id : s \in snaps} \cup {0}
           B == {b \in Nat : \A i \in S : i <= b}
<1>1. S \in SUBSET Nat /\ plan.saves \in B
  BY DEF Snapshots, Snapshot
<1>2. B \in SUBSET Nat /\ B # {}
  BY <1>1
<1>3. PICK b \in B : \A c \in B : b <= c
  BY <1>2, LeastIsThere
<1>4. b \in S
  <2> SUFFICES ASSUME b \notin S PROVE FALSE
    OBVIOUS
  <2>1. b # 0 /\ b \in Nat
    OBVIOUS
  <2>2. \A i \in S : i <= b - 1
    BY <1>1
  <2>3. b - 1 \in B
    BY <2>1, <2>2
  <2> QED
    BY <1>3, <2>1, <2>3
<1>5. \E x \in S : \A y \in S : x >= y
  BY <1>1, <1>4
<1> HIDE DEF B
<1>6. Max(S) \in S /\ \A y \in S : Max(S) >= y
  <2> HIDE DEF S
  <2> QED
    BY <1>5 DEF Max
<1> QED
  BY <1>1, <1>6 DEF LastId

-----------------------------------------------------------------------------
(* The repository.                                                         *)

\* Steps that change a tree, and those that change what the agents are at.
TreeStep ==
  \/ \E t \in Trees : BashChange(t) \/ BashCommit(t) \/ BashCheckout(t)
  \/ \E w \in writing : Writes(w)
  \/ \E n \in Names : Merge(n) \/ EnterCreates(n)
  \/ ExitRemove \/ ExitDiscard \/ RestoreNext
LeadStep ==
  \/ \E n \in Names : EnterResumes(n) \/ EnterCreates(n)
  \/ ExitKeep \/ ExitCheck \/ ExitRemove \/ ExitDiscard
  \/ Rewind \/ RewindEnds \/ Prompt \/ Delegates \/ Results \/ EndRun \/ Restart

LEMMA PlanIsKept ==
  ASSUME [WorkspaceNext]_workspaceVars
  PROVE  UNCHANGED plan
  BY DEF WorkspaceNext, workspaceVars, Save, BashChange, BashCommit, BashCheckout, EditReads, Writes,
         WriteFails, Merge, EnterResumes, EnterCreates, Enters, ExitKeep, ExitCheck, ExitRemove,
         ExitDiscard, Leaves, Rewind, RestoreNext, Restore, RewindEnds, Prompt, Delegates, Results,
         EndRun, Restart

LEMMA TreesStay ==
  ASSUME [WorkspaceNext]_workspaceVars
  PROVE  TreeStep \/ UNCHANGED <<gitVars, files>>
  BY DEF WorkspaceNext, TreeStep, workspaceVars, Save, EditReads, WriteFails, EnterResumes, ExitKeep,
         ExitCheck, Rewind, RewindEnds, Prompt, Delegates, Results, EndRun, Restart

LEMMA LeadStays ==
  ASSUME [WorkspaceNext]_workspaceVars
  PROVE  LeadStep \/ UNCHANGED leadVars
  BY DEF WorkspaceNext, LeadStep, workspaceVars, Save, BashChange, BashCommit, BashCheckout, EditReads,
         Writes, WriteFails, Merge, RestoreNext, Restore

LEMMA Bounds ==
  ASSUME Repository
  PROVE  plan.commits \in Nat /\ plan.saves \in Nat /\ uncommitted \in Nat /\ made \in Nat
         /\ made < uncommitted /\ plan.texts \subseteq Contents
  BY PlansAssumption DEF Repository, uncommitted

\* A directory that is made is no worktree.
LEMMA Making ==
  ASSUME Repository, NEW t \in Trees, MkdirAll(t)
  PROVE  /\ wt' \in [Trees -> {"none", "tree", "plain"}]
         /\ \A x \in Trees : wt[x] # "none" => wt'[x] = wt[x]
         /\ \A x \in Trees : wt'[x] = "tree" => wt[x] = "tree"
         /\ wt'[t] # "none"
  BY DEF MkdirAll, Repository

LEMMA RepositoryNext ==
  ASSUME Repository, Snapshots, Lead, Rewinding, [WorkspaceNext]_workspaceVars
  PROVE  Repository'
<1>a. UNCHANGED plan /\ Held = Contents \cup {absent, torn} /\ plan.texts \subseteq Contents
      /\ made \in Nat
  BY PlanIsKept, Bounds DEF Held
<1>b. \A t \in Trees : Repo(t) \in Trees
  BY RepoIsTree
<1>1. ASSUME NEW t \in Trees, BashChange(t) PROVE Repository'
  <2>1. files' \in [Trees -> Held] /\ UNCHANGED <<wt, head, on, branch, safe, tracked, made>>
    BY <1>1, <1>a DEF BashChange, Repository, gitVars
  <2> QED
    BY <1>a, <2>1 DEF Repository
<1>2. ASSUME NEW t \in Trees, BashCommit(t) PROVE Repository'
  <2>1. made' = made + 1 /\ made' \in 0 .. plan.commits /\ UNCHANGED <<wt, on, files>>
    BY <1>2, Bounds DEF BashCommit, Repository
  <2>2. upstream .. made \subseteq upstream .. made' /\ made' \in upstream .. made'
    BY <1>a, <2>1 DEF upstream
  <2> HIDE DEF upstream
  <2>3. head' \in [Trees -> SUBSET (upstream .. made')]
    <3>1. head' = [head EXCEPT ![Repo(t)] = head[Repo(t)] \cup {made'}]
      BY <1>2 DEF BashCommit
    <3>2. head[Repo(t)] \cup {made'} \in SUBSET (upstream .. made')
      BY <1>b, <2>2 DEF Repository
    <3>3. \A x \in Trees : head[x] \in SUBSET (upstream .. made')
      BY <2>2 DEF Repository
    <3> QED
      BY <3>1, <3>2, <3>3 DEF Repository
  <2>4. branch' \in [Names -> SUBSET (upstream .. made')]
    <3>1. head'[Repo(t)] \in SUBSET (upstream .. made')
      BY <1>b, <2>3
    <3>2. \A n \in Names : branch[n] \in SUBSET (upstream .. made')
      BY <2>2 DEF Repository
    <3>3. branch' = [n \in Names |-> IF Repo(t) # main /\ n = Name(Repo(t)) /\ on[Repo(t)] = "own"
                                     THEN head'[Repo(t)] ELSE branch[n]]
      BY <1>2 DEF BashCommit
    <3> QED
      BY <3>1, <3>2, <3>3
  <2>5. safe' \in SUBSET (upstream .. made')
    BY <1>2, <2>2 DEF BashCommit, Repository
  <2>6. tracked' \in [Trees -> Held]
    BY <1>2 DEF BashCommit, Repository
  <2> QED
    BY <1>a, <2>1, <2>3, <2>4, <2>5, <2>6 DEF Repository
<1>3. ASSUME NEW t \in Trees, BashCheckout(t) PROVE Repository'
  <2>1. Repo(t) \in Trees /\ Name(Repo(t)) \in Names /\ UNCHANGED <<wt, branch, made>>
    BY <1>b, <1>3, TreeShape DEF BashCheckout
  <2>2. files' \in [Trees -> Held] /\ tracked' \in [Trees -> Held]
    <3>1. CASE UNCHANGED <<files, tracked>>
      BY <3>1 DEF Repository
    <3>2. CASE \E c \in plan.texts \cup {absent} :
                 /\ files' = [files EXCEPT ![Repo(t)] = c]
                 /\ tracked' = [tracked EXCEPT ![Repo(t)] = c]
      BY <1>a, <3>2 DEF Repository
    <3> QED
      BY <1>3, <3>1, <3>2 DEF BashCheckout
  <2>3. /\ head' \in [Trees -> SUBSET (upstream .. made)] /\ on' \in [Trees -> {"own", "other", "detached"}]
        /\ safe' \in SUBSET (upstream .. made)
    <3>1. CASE /\ head' = [head EXCEPT ![Repo(t)] = branch[Name(Repo(t))]]
               /\ on' = [on EXCEPT ![Repo(t)] = "own"] /\ UNCHANGED safe
      BY <2>1, <3>1 DEF Repository
    <3>2. ASSUME NEW last \in 0 .. made, NEW where \in {"detached", "other"},
                 head' = [head EXCEPT ![Repo(t)] = {c \in @ : c <= last}],
                 on' = [on EXCEPT ![Repo(t)] = where],
                 safe' = IF where = "other" THEN safe \cup head'[Repo(t)] ELSE safe
          PROVE  <2>3
      <4>1. {c \in head[Repo(t)] : c <= last} \in SUBSET (upstream .. made)
        BY <2>1 DEF Repository
      <4>2. head' \in [Trees -> SUBSET (upstream .. made)]
        BY <3>2, <4>1 DEF Repository
      <4> QED
        BY <2>1, <3>2, <4>2 DEF Repository
    <3> QED
      BY <1>3, <3>1, <3>2 DEF BashCheckout
  <2> QED
    BY <1>a, <2>1, <2>2, <2>3 DEF Repository
<1>4. ASSUME NEW w \in writing, Writes(w) PROVE Repository'
  <2>1. w.path \in Trees
    BY DEF Snapshots, WriteCall
  <2>2. PICK c \in (plan.texts \ {w.text}) \cup {torn} : files' = [files EXCEPT ![w.path] = c]
    BY <1>4 DEF Writes
  <2>3. files' \in [Trees -> Held]
    BY <1>a, <2>2 DEF Repository
  <2>4. MkdirAll(w.path) /\ UNCHANGED <<head, on, branch, safe, tracked, made>>
    BY <1>4 DEF Writes
  <2>5. wt' \in [Trees -> {"none", "tree", "plain"}] /\ wt'[main] = "tree"
    BY <2>1, <2>4, Making, TreeShape DEF Repository
  <2> QED
    BY <1>a, <2>3, <2>4, <2>5 DEF Repository
<1>5. ASSUME NEW n \in Names, Merge(n) PROVE Repository'
  <2>1. /\ head' = [head EXCEPT ![main] = head[main] \cup branch[n]] /\ safe' = safe \cup branch[n]
        /\ UNCHANGED <<wt, on, branch, files, tracked, made>>
    BY <1>5 DEF Merge
  <2>2. head[main] \cup branch[n] \in SUBSET (upstream .. made)
    BY TreeShape DEF Repository
  <2> QED
    BY <1>a, <2>1, <2>2 DEF Repository
<1>6. ASSUME NEW n \in Names, EnterCreates(n) PROVE Repository'
  <2>1. Dir \in Trees /\ Target(n) \in plan.trees
    BY <1>6 DEF EnterCreates, MayEnter, Calls, Lead, Dir
  <2>2. PICK t \in Worktrees : t = Target(n)
    BY <2>1, TargetShape
  <2>3. Repo(Dir) \in Trees /\ t \in Trees /\ t # main /\ upstream \in upstream .. made
    BY <1>a, <1>b, <2>1, TreeShape DEF upstream
  <2>4. PICK h : h = IF plan.remote THEN {upstream} ELSE head[Repo(Dir)]
    OBVIOUS
  <2>5. h \in SUBSET (upstream .. made)
    BY <2>3, <2>4 DEF Repository
  <2>6. head' = [head EXCEPT ![t] = h]
    BY <1>6, <2>2, <2>4 DEF EnterCreates
  <2>7. head' \in [Trees -> SUBSET (upstream .. made)] /\ head'[t] = h
    BY <2>3, <2>5, <2>6 DEF Repository
  <2>8. branch' = [branch EXCEPT ![n] = head'[t]]
    BY <1>6, <2>2 DEF EnterCreates
  <2>9. branch' \in [Names -> SUBSET (upstream .. made)]
    BY <2>5, <2>7, <2>8 DEF Repository
  <2>10. wt' \in [Trees -> {"none", "tree", "plain"}] /\ wt'[main] = "tree"
         /\ on' \in [Trees -> {"own", "other", "detached"}] /\ UNCHANGED <<safe, made>>
    BY <1>6, <2>2, <2>3, TreeShape DEF EnterCreates, Repository
  <2>11. files' \in [Trees -> Held] /\ tracked' \in [Trees -> Held]
    BY <1>6, <2>2, <2>3 DEF EnterCreates, Repository
  <2> QED
    BY <1>a, <2>7, <2>9, <2>10, <2>11 DEF Repository
<1>7. CASE ExitRemove \/ ExitDiscard
  <2>1. PICK t \in Trees : t = session.tree
    BY DEF Lead
  <2>2. Removes(t) /\ t \in Worktrees
    BY <1>7, <2>1, TreeShape DEF ExitRemove, ExitDiscard, Lead, InSession
  <2>3. /\ RemovesDir(t) \/ UNCHANGED <<wt, head, files, tracked>>
        /\ DeletesBranch(t) \/ UNCHANGED branch
        /\ UNCHANGED <<on, safe, made>>
    BY <2>2 DEF Removes
  <2>4. /\ wt' \in [Trees -> {"none", "tree", "plain"}] /\ wt'[main] = "tree"
        /\ head' \in [Trees -> SUBSET (upstream .. made)]
        /\ files' \in [Trees -> Held] /\ tracked' \in [Trees -> Held]
    <3>1. CASE RemovesDir(t)
      <4>1. main \notin Doomed(t) /\ main \in Trees
        BY TreeShape DEF Doomed
      <4> QED
        BY <1>a, <3>1, <4>1 DEF RemovesDir, Repository
    <3>2. CASE UNCHANGED <<wt, head, files, tracked>>
      BY <3>2 DEF Repository
    <3> QED
      BY <2>3, <3>1, <3>2
  <2>5. branch' \in [Names -> SUBSET (upstream .. made)]
    BY <2>3 DEF DeletesBranch, Repository
  <2> QED
    BY <1>a, <2>3, <2>4, <2>5 DEF Repository
<1>8. CASE RestoreNext
  <2>1. PICK s \in todo : Restore(s)
    BY <1>8 DEF RestoreNext
  <2>2. s \in Snapshot
    BY DEF Rewinding, Snapshots
  <2>3. files' \in {files, [files EXCEPT ![s.path] = s.blob], [files EXCEPT ![s.path] = torn]}
        /\ UNCHANGED <<head, on, branch, safe, tracked, made>> /\ (wt' = wt \/ MkdirAll(s.path))
    BY <2>1 DEF Restore
  <2>4. s.path \in Trees /\ s.blob \in Held
    BY <2>2 DEF Snapshot
  <2>5. files' \in [Trees -> Held]
    BY <1>a, <2>3, <2>4 DEF Repository
  <2>6. wt' \in [Trees -> {"none", "tree", "plain"}] /\ wt'[main] = "tree"
    BY <2>3, <2>4, Making, TreeShape DEF Repository
  <2> QED
    BY <1>a, <2>3, <2>5, <2>6 DEF Repository
<1>9. CASE UNCHANGED <<gitVars, files>>
  BY <1>9, <1>a DEF gitVars, Repository
<1> QED
  BY <1>1, <1>2, <1>3, <1>4, <1>5, <1>6, <1>7, <1>8, <1>9, TreesStay DEF TreeStep

LEMMA BareNext ==
  ASSUME Repository, Bare, Snapshots, Lead, Rewinding, [WorkspaceNext]_workspaceVars
  PROVE  Bare'
<1>a. (\A t \in Trees : Repo(t) \in Trees) /\ \A t \in Trees : wt[Repo(t)] = "tree"
  BY RepoIsTree, RepoIsGit
<1>b. /\ \A t \in Trees : wt[t] # "tree" => head[t] = {}
      /\ \A t \in Trees : wt[t] = "none" => files[t] = absent /\ tracked[t] = absent
  BY DEF Bare
<1>1. ASSUME NEW t \in Trees, BashChange(t) PROVE Bare'
  <2>1. wt[t] # "none" /\ UNCHANGED <<wt, head, tracked>>
    BY <1>1 DEF BashChange, BashDir, Exists, gitVars
  <2>2. \A x \in Trees : x # t => files'[x] = files[x]
    BY <1>1 DEF BashChange, Repository
  <2> QED
    BY <1>b, <2>1, <2>2 DEF Bare
<1>2. ASSUME NEW t \in Trees, BashCommit(t) PROVE Bare'
  <2>1. /\ UNCHANGED <<wt, files>>
        /\ head' = [head EXCEPT ![Repo(t)] = head[Repo(t)] \cup {made'}]
        /\ tracked' = [x \in Trees |-> IF x \in Inside(t) /\ ~Hidden(x) THEN files[x] ELSE tracked[x]]
    BY <1>2 DEF BashCommit
  <2>2. \A x \in Trees : x # Repo(t) => head'[x] = head[x]
    BY <2>1 DEF Repository
  <2>3. \A x \in Trees : tracked'[x] \in {files[x], tracked[x]}
    BY <2>1
  <2> QED
    BY <1>a, <1>b, <2>1, <2>2, <2>3 DEF Bare
<1>3. ASSUME NEW t \in Trees, BashCheckout(t) PROVE Bare'
  <2>1. UNCHANGED wt /\ wt[Repo(t)] = "tree"
    BY <1>a, <1>3 DEF BashCheckout
  <2>2. \A x \in Trees : x # Repo(t) => head'[x] = head[x]
    BY <1>3 DEF BashCheckout, Repository
  <2>3. \A x \in Trees : x # Repo(t) => files'[x] = files[x] /\ tracked'[x] = tracked[x]
    BY <1>3 DEF BashCheckout, Repository
  <2> QED
    BY <1>b, <2>1, <2>2, <2>3 DEF Bare
<1>4. ASSUME NEW w \in writing, Writes(w) PROVE Bare'
  <2>1. w.path \in Trees /\ MkdirAll(w.path) /\ UNCHANGED <<head, tracked>>
    BY <1>4 DEF Writes, Snapshots, WriteCall
  <2>2. \A x \in Trees : x # w.path => files'[x] = files[x]
    BY <1>4 DEF Writes, Repository
  <2>3. /\ \A x \in Trees : wt[x] # "none" => wt'[x] = wt[x]
        /\ wt'[w.path] # "none"
    BY <2>1, Making
  <2> QED
    BY <1>b, <2>1, <2>2, <2>3 DEF Bare
<1>5. ASSUME NEW n \in Names, Merge(n) PROVE Bare'
  <2>1. head' = [head EXCEPT ![main] = head[main] \cup branch[n]] /\ UNCHANGED <<wt, files, tracked>>
    BY <1>5 DEF Merge
  <2>2. \A x \in Trees : x # main => head'[x] = head[x]
    BY <2>1 DEF Repository
  <2> QED
    BY <1>b, <2>1, <2>2 DEF Bare, Repository
<1>6. ASSUME NEW n \in Names, EnterCreates(n) PROVE Bare'
  <2>1. Dir \in Trees /\ Target(n) \in plan.trees
    BY <1>6 DEF EnterCreates, MayEnter, Calls, Lead, Dir
  <2>2. PICK t \in Trees : t = Target(n)
    BY <2>1, TargetShape, TreeShape
  <2>3. wt' = [wt EXCEPT ![t] = "tree"]
    BY <1>6, <2>2 DEF EnterCreates
  <2>4. wt'[t] = "tree" /\ \A x \in Trees : x # t => wt'[x] = wt[x]
    BY <2>3 DEF Repository
  <2>5. \A x \in Trees : x # t => head'[x] = head[x] /\ files'[x] = files[x] /\ tracked'[x] = tracked[x]
    BY <1>6, <2>2 DEF EnterCreates, Repository
  <2> QED
    BY <1>b, <2>4, <2>5 DEF Bare
<1>7. CASE ExitRemove \/ ExitDiscard
  <2>1. PICK t : Removes(t)
    BY <1>7 DEF ExitRemove, ExitDiscard
  <2>2. CASE RemovesDir(t)
    <3>1. \A x \in Trees : x \in Doomed(t) => head'[x] = {} /\ files'[x] = absent /\ tracked'[x] = absent
      BY <2>2 DEF RemovesDir
    <3>2. \A x \in Trees : x \notin Doomed(t) => /\ head'[x] = head[x] /\ files'[x] = files[x]
                                                 /\ tracked'[x] = tracked[x] /\ wt'[x] = wt[x]
      BY <2>2 DEF RemovesDir
    <3> QED
      BY <1>b, <3>1, <3>2 DEF Bare
  <2>3. CASE UNCHANGED <<wt, head, files, tracked>>
    BY <2>3 DEF Bare
  <2> QED
    BY <2>1, <2>2, <2>3 DEF Removes
<1>8. CASE RestoreNext
  <2>1. PICK s \in todo : Restore(s)
    BY <1>8 DEF RestoreNext
  <2>2. s.path \in Trees /\ UNCHANGED <<head, tracked>>
    BY <2>1 DEF Rewinding, Snapshots, Snapshot, Restore
  <2>3. \A x \in Trees : x # s.path => files'[x] = files[x]
    BY <2>1 DEF Restore, Repository
  <2>4. /\ \A x \in Trees : wt[x] # "none" => wt'[x] = wt[x]
        /\ files'[s.path] = absent \/ wt'[s.path] # "none"
    BY <2>1, <2>2, Making DEF Restore
  <2> QED
    BY <1>b, <2>2, <2>3, <2>4 DEF Bare
<1>9. CASE UNCHANGED <<gitVars, files>>
  BY <1>9 DEF gitVars, Bare
<1> QED
  BY <1>1, <1>2, <1>3, <1>4, <1>5, <1>6, <1>7, <1>8, <1>9, TreesStay DEF TreeStep

-----------------------------------------------------------------------------
(* The snapshots and the rewinds.                                          *)

LEMMA StoreStays ==
  ASSUME [WorkspaceNext]_workspaceVars
  PROVE  \/ \E t \in Trees : \E tool \in {"Write", "Edit"} : Save(t, tool)
         \/ \E w \in writing : EditReads(w) \/ Writes(w) \/ WriteFails(w)
         \/ Restart \/ UNCHANGED storeVars
  BY DEF WorkspaceNext, workspaceVars, BashChange, BashCommit, BashCheckout, Merge, EnterResumes,
         EnterCreates, Enters, ExitKeep, ExitCheck, ExitRemove, ExitDiscard, Leaves, Rewind,
         RestoreNext, Restore, RewindEnds, Prompt, Delegates, Results, EndRun

LEMMA Blobbing ==
  ASSUME NEW held \in Held, NEW how \in Ways, NEW blob \in Blobs(held, how)
  PROVE  blob \in Held \/ \E c \in plan.texts : blob = c
  BY DEF Blobs, Held

LEMMA Saving ==
  ASSUME Repository, Snapshots, NEW t \in Trees, NEW tool \in {"Write", "Edit"}, Save(t, tool)
  PROVE  Snapshots' /\ snaps \subseteq snaps'
<1>0. UNCHANGED plan
  BY DEF Save
<1>1. plan.saves \in Nat /\ LastId \in Nat /\ (\A s \in snaps : s.id <= LastId) /\ LastId < plan.saves
  BY Bounds, LastIdAt DEF Save
<1>2. files[t] \in Held /\ absent \in Held /\ plan.texts \subseteq Held
  BY Bounds DEF Repository, Held
<1>3. PICK how \in Ways : \E blob \in Blobs(files[t], how) :
        snaps' = snaps \cup {[id |-> LastId + 1, path |-> t, was |-> files[t], how |-> how, blob |-> blob]}
  BY DEF Save, Ways
<1>i. PICK blob \in Blobs(files[t], how) :
        snaps' = snaps \cup {[id |-> LastId + 1, path |-> t, was |-> files[t], how |-> how, blob |-> blob]}
  BY <1>3
<1>4. blob \in Held
  BY <1>2, Blobbing
<1>5. how = "exact" \/ files[t] = absent => blob = files[t]
  <2>1. CASE files[t] = absent
    BY <2>1 DEF Blobs
  <2>2. CASE how = "exact" /\ files[t] # absent
    BY <2>2 DEF Blobs
  <2> QED
    BY <2>1, <2>2
<1> DEFINE new == [id |-> LastId + 1, path |-> t, was |-> files[t], how |-> how, blob |-> blob]
<1>6. new \in Snapshot /\ Exact(new)
  BY <1>1, <1>2, <1>4, <1>5 DEF Snapshot, Exact
<1>7. new.id = LastId + 1 /\ snaps' = snaps \cup {new}
  BY <1>i
<1> HIDE DEF new
<1>8. \A s \in snaps : s.id \in Nat
  BY DEF Snapshots, Snapshot
<1>9. new.id <= plan.saves /\ \A s \in snaps : s.id # new.id
  BY <1>1, <1>7, <1>8
<1>10. writing' \subseteq WriteCall
  BY <1>1 DEF Save, Snapshots, WriteCall
<1> QED
  BY <1>0, <1>6, <1>7, <1>9, <1>10 DEF Snapshots

LEMMA SnapshotsNext ==
  ASSUME Repository, Snapshots, [WorkspaceNext]_workspaceVars
  PROVE  Snapshots' /\ (~Restart => snaps \subseteq snaps')
<1>a. UNCHANGED plan
  BY PlanIsKept
<1>1. ASSUME NEW t \in Trees, NEW tool \in {"Write", "Edit"}, Save(t, tool)
      PROVE  Snapshots' /\ snaps \subseteq snaps'
  BY <1>1, Saving
<1>2. ASSUME NEW w \in writing, EditReads(w) \/ Writes(w) \/ WriteFails(w)
      PROVE  Snapshots' /\ snaps \subseteq snaps'
  <2>1. UNCHANGED snaps
    BY <1>2 DEF EditReads, Writes, WriteFails
  <2>2. w \in WriteCall
    BY DEF Snapshots
  <2>3. CASE EditReads(w)
    <3>1. files[w.path] \in Held
      BY <2>2 DEF Repository, WriteCall
    <3>2. [w EXCEPT !.text = files[w.path]] \in WriteCall
      BY <2>2, <3>1 DEF WriteCall
    <3> QED
      BY <1>a, <2>1, <2>3, <3>2 DEF EditReads, Snapshots
  <2>4. CASE Writes(w) \/ WriteFails(w)
    BY <1>a, <2>1, <2>4 DEF Writes, WriteFails, Snapshots
  <2> QED
    BY <1>2, <2>3, <2>4
<1>3. CASE Restart
  BY <1>a, <1>3 DEF Restart, Snapshots
<1>4. CASE UNCHANGED storeVars
  BY <1>a, <1>4 DEF storeVars, Snapshots
<1> QED
  BY <1>1, <1>2, <1>3, <1>4, StoreStays

\* A step that restores nothing: what it changes was touched.
LEMMA Untouched ==
  ASSUME Repository, Rewinding, UNCHANGED rewound, Touched({})
  PROVE  \A s \in rewound : First(s)' /\ s.path \notin touched' => files'[s.path] = s.blob
<1> SUFFICES ASSUME NEW s \in rewound, First(s)', s.path \notin touched'
             PROVE  files'[s.path] = s.blob
  OBVIOUS
<1>1. s.path \in Trees /\ First(s)
  BY DEF Rewinding, Snapshot, First
<1>2. s.path \notin touched /\ files'[s.path] = files[s.path]
  BY <1>1 DEF Touched
<1> QED
  BY <1>1, <1>2 DEF Rewinding

LEMMA RewindingNext ==
  ASSUME Repository, Snapshots, Rewinding, [WorkspaceNext]_workspaceVars
  PROVE  Rewinding'
<1>a. Snapshots' /\ (~Restart => snaps \subseteq snaps')
  BY SnapshotsNext
<1>1. CASE Restart
  BY <1>1 DEF Restart, Rewinding
<1>2. CASE Rewind
  BY <1>2, <1>a DEF Rewind, Rewinding, storeVars
<1>3. CASE RestoreNext
  <2>1. PICK s \in todo : (\A o \in todo : o.id <= s.id) /\ Restore(s)
    BY <1>3 DEF RestoreNext
  <2>2. todo' = todo \ {s} /\ UNCHANGED snaps
    BY <2>1 DEF Restore, storeVars
  <2>3. todo \subseteq snaps /\ snaps \subseteq Snapshot /\ s \in Snapshot /\ s \in snaps
    BY DEF Rewinding, Snapshots
  <2>4. \A o \in snaps : o.id \in Nat /\ (o.id = s.id => o = s)
    BY <2>3 DEF Snapshots, Snapshot
  <2>5. \A o \in todo' : o.id < s.id
    BY <2>1, <2>2, <2>3, <2>4
  <2>6. CASE rewound' = rewound /\ Touched({})
    <3>1. \A r \in rewound : First(r)' /\ r.path \notin touched' => files'[r.path] = r.blob
      BY <2>6, Untouched
    <3> QED
      BY <2>2, <2>3, <2>6, <3>1 DEF Rewinding, Exact
  <2>7. CASE /\ files' = [files EXCEPT ![s.path] = s.blob] /\ rewound' = rewound \cup {s}
             /\ Touched({s.path})
    <3>1. \A r \in rewound : s.id < r.id /\ r \in Snapshot
      BY DEF Rewinding
    <3>2. s.path \in Trees /\ s.id \in Nat
      BY <2>3 DEF Snapshot
    <3>3. ASSUME NEW r \in rewound, First(r)', r.path \notin touched' PROVE files'[r.path] = r.blob
      <4>1. s \in rewound'
        BY <2>7
      <4>2. r.path # s.path
        <5>1. r.id \in Nat /\ s.id < r.id
          BY <3>1 DEF Snapshot
        <5>2. s.path = r.path => r.id <= s.id
          BY <3>3, <4>1 DEF First
        <5> QED
          BY <3>2, <5>1, <5>2
      <4>3. r.path \in Trees /\ First(r)
        BY <2>7, <3>1, <3>3 DEF First, Snapshot
      <4>4. files'[r.path] = files[r.path]
        BY <2>7, <4>2, <4>3 DEF Repository
      <4>5. r.path \notin touched
        BY <2>7, <3>3, <4>2 DEF Touched
      <4> QED
        BY <4>3, <4>4, <4>5 DEF Rewinding
    <3>4. files'[s.path] = s.blob
      BY <2>7, <3>2 DEF Repository
    <3>5. Exact(s)
      BY <2>3 DEF Snapshots
    <3>6. \A r \in rewound' : Exact(r) /\ \A o \in todo' : o.id < r.id
      BY <2>2, <2>5, <2>7, <3>5 DEF Rewinding
    <3>7. \A r \in rewound' : First(r)' /\ r.path \notin touched' => files'[r.path] = r.blob
      BY <2>7, <3>3, <3>4
    <3>8. todo' \subseteq snaps' /\ rewound' \subseteq Snapshot
      BY <2>2, <2>3, <2>7 DEF Rewinding
    <3> QED
      BY <3>6, <3>7, <3>8 DEF Rewinding, Exact
  <2> QED
    BY <2>1, <2>6, <2>7 DEF Restore
<1>4. CASE ~Restart /\ UNCHANGED rewindVars /\ (Touched({}) \/ UNCHANGED <<files, touched>>)
  <2>1. \A r \in rewound : First(r)' /\ r.path \notin touched' => files'[r.path] = r.blob
    <3>1. CASE Touched({})
      BY <1>4, <3>1, Untouched DEF rewindVars
    <3>2. CASE UNCHANGED <<files, touched>>
      BY <1>4, <3>2 DEF rewindVars, Rewinding, First
    <3> QED
      BY <1>4, <3>1, <3>2
  <2> QED
    BY <1>4, <1>a, <2>1 DEF rewindVars, Rewinding, Exact
<1>5. CASE ~Restart /\ ~Rewind /\ ~RestoreNext
  <2>1. UNCHANGED rewindVars
    BY <1>5 DEF WorkspaceNext, workspaceVars, Save, BashChange, BashCommit, BashCheckout, EditReads,
                Writes, WriteFails, Merge, EnterResumes, EnterCreates, Enters, ExitKeep, ExitCheck,
                ExitRemove, ExitDiscard, Leaves, RewindEnds, Prompt, Delegates, Results, EndRun
  <2>2. Touched({}) \/ UNCHANGED <<files, touched>>
    BY <1>5 DEF WorkspaceNext, workspaceVars, Save, BashChange, BashCommit, BashCheckout, EditReads,
                Writes, WriteFails, Merge, EnterResumes, EnterCreates, ExitKeep, ExitCheck,
                ExitRemove, ExitDiscard, Removes, RewindEnds, Prompt, Delegates, Results, EndRun
  <2> QED
    BY <1>4, <1>5, <2>1, <2>2
<1> QED
  BY <1>1, <1>2, <1>3, <1>5


-----------------------------------------------------------------------------
(* The agents and the session.                                             *)

\* Only a removal takes directories away.
LEMMA Growing ==
  ASSUME Repository, Snapshots, Lead, Rewinding, [WorkspaceNext]_workspaceVars, ~ExitRemove, ~ExitDiscard
  PROVE  \A x \in Trees : wt[x] # "none" => wt'[x] = wt[x]
<1>1. ASSUME NEW w \in writing, Writes(w) PROVE \A x \in Trees : wt[x] # "none" => wt'[x] = wt[x]
  <2>1. w.path \in Trees /\ MkdirAll(w.path)
    BY <1>1 DEF Writes, Snapshots, WriteCall
  <2> QED
    BY <2>1, Making
<1>2. CASE RestoreNext
  <2>1. PICK s \in todo : Restore(s)
    BY <1>2 DEF RestoreNext
  <2>2. s.path \in Trees /\ (wt' = wt \/ MkdirAll(s.path))
    BY <2>1 DEF Rewinding, Snapshots, Snapshot, Restore
  <2> QED
    BY <2>2, Making
<1>3. ASSUME NEW n \in Names, EnterCreates(n) PROVE \A x \in Trees : wt[x] # "none" => wt'[x] = wt[x]
  BY <1>3 DEF EnterCreates, Exists, Repository
<1>4. ASSUME NEW t \in Trees, BashChange(t) \/ BashCommit(t) \/ BashCheckout(t) PROVE UNCHANGED wt
  BY <1>4 DEF BashChange, BashCommit, BashCheckout, gitVars
<1>5. ASSUME NEW n \in Names, Merge(n) PROVE UNCHANGED wt
  BY <1>5 DEF Merge
<1>6. CASE UNCHANGED <<gitVars, files>>
  BY <1>6 DEF gitVars
<1> QED
  BY <1>1, <1>2, <1>3, <1>4, <1>5, <1>6, TreesStay DEF TreeStep

LEMMA Answering ==
  ASSUME Lead, NEW t \in Trees, Answers(t)
  PROVE  /\ pending' \in [Levels -> Seq(Trees)]
         /\ pending'[depth] # << >> /\ Last(pending'[depth]) = t
         /\ \A d \in Levels : d # depth => pending'[d] = pending[d]
<1>1. depth \in Levels /\ pending \in [Levels -> Seq(Trees)]
  BY DEF Lead
<1>2. pending' = [pending EXCEPT ![depth] = Append(pending[depth], t)]
  BY DEF Answers
<1>3. PICK p \in Seq(Trees) : p = pending[depth]
  BY <1>1
<1>4. PICK a : a = Append(p, t)
  OBVIOUS
<1>5. a \in Seq(Trees) /\ a # << >> /\ Last(a) = t
  BY <1>4 DEF Last
<1>6. pending' = [pending EXCEPT ![depth] = a]
  BY <1>2, <1>3, <1>4
<1> QED
  BY <1>1, <1>5, <1>6

LEMMA Entering ==
  ASSUME Repository, Lead, NEW n \in Names, EnterResumes(n) \/ EnterCreates(n)
  PROVE  \E t \in Worktrees : \E base \in SUBSET Nat :
           /\ t = Target(n) /\ Dir \in Trees /\ ~InSession /\ phase = "calls"
           /\ session' = [tree |-> t, base |-> base, from |-> Dir, prompt |-> prompts]
           /\ session' \in [tree : Trees, base : SUBSET Nat, from : Trees, prompt : 0 .. prompts]
           /\ Exists(t)' /\ Answers(t)
           /\ mixed' = (mixed \/ \E d \in Levels : pending[d] # << >>)
           /\ UNCHANGED <<plan, phase, depth, dirs, prompts>>
<1>1. MayEnter(n)
  BY DEF EnterResumes, EnterCreates
<1>2. Dir \in Trees /\ Target(n) \in plan.trees /\ phase = "calls" /\ ~InSession
  BY <1>1 DEF MayEnter, Calls, Lead, Dir
<1>3. PICK t \in Worktrees : t = Target(n)
  BY <1>2, TargetShape
<1>4. t \in Trees /\ Repo(t) \in Trees /\ Repo(Dir) \in Trees
  BY <1>2, TreeShape, RepoIsTree
<1>5. \A x \in Trees : head[x] \in SUBSET Nat
  BY Bounds DEF Repository, upstream
<1>6. \E base \in SUBSET Nat : Enters(n, base)
  <2>1. CASE EnterResumes(n)
    BY <1>3, <1>4, <1>5, <2>1 DEF EnterResumes
  <2>2. CASE EnterCreates(n)
    BY <1>4, <1>5, <2>2 DEF EnterCreates
  <2> QED
    BY <2>1, <2>2
<1>7. PICK base \in SUBSET Nat : Enters(n, base)
  BY <1>6
<1>8. Exists(t)'
  <2>1. CASE EnterResumes(n)
    BY <1>3, <2>1 DEF EnterResumes, gitVars, Exists
  <2>2. CASE EnterCreates(n)
    BY <1>3, <1>4, <2>2 DEF EnterCreates, Exists, Repository
  <2> QED
    BY <2>1, <2>2
<1>9. session' = [tree |-> t, base |-> base, from |-> Dir, prompt |-> prompts]
  BY <1>3, <1>7 DEF Enters
<1>10. prompts \in 0 .. prompts
  BY DEF Lead
<1>11. session' \in [tree : Trees, base : SUBSET Nat, from : Trees, prompt : 0 .. prompts]
  BY <1>2, <1>4, <1>9, <1>10
<1>12. /\ Answers(t) /\ mixed' = (mixed \/ \E d \in Levels : pending[d] # << >>)
       /\ UNCHANGED <<plan, phase, depth, dirs, prompts>>
  BY <1>3, <1>7 DEF Enters
<1> QED
  BY <1>2, <1>3, <1>8, <1>9, <1>11, <1>12

LEMMA Leaving ==
  ASSUME Lead, ExitKeep \/ ExitRemove \/ ExitDiscard
  PROVE  /\ Leaves /\ InSession /\ phase \in {"calls", "removing"} /\ phase' = "calls"
         /\ session.from \in Trees /\ session' = NoSession /\ ~InSession' /\ Answers(session.from)
         /\ mixed' = (mixed \/ \E d \in Levels : d < depth /\ pending[d] # << >>)
         /\ UNCHANGED <<plan, depth, dirs, prompts>>
<1>1. Leaves /\ phase \in {"calls", "removing"} /\ phase' = "calls" /\ InSession
  BY DEF ExitKeep, ExitRemove, ExitDiscard, Calls, Lead
<1>2. session.from \in Trees
  BY DEF Lead
<1>3. session' = NoSession /\ ~InSession'
  BY <1>1 DEF Leaves, InSession, NoSession
<1> QED
  BY <1>1, <1>2, <1>3 DEF Leaves

LEMMA LeadNext ==
  ASSUME Repository, Snapshots, Lead, Rewinding, [WorkspaceNext]_workspaceVars
  PROVE  Lead'
<1>a. UNCHANGED plan /\ Levels' = Levels /\ main \in Trees
  BY PlanIsKept, TreeShape DEF Levels
<1>b. Exists(main)' /\ 1 \in Levels /\ Levels \subseteq Nat
  <2>1. Repository'
    BY RepositoryNext
  <2>2. plan.agents \in Nat \ {0}
    BY PlansAssumption DEF Repository
  <2> QED
    BY <2>1, <2>2 DEF Repository, Exists, Levels
<1>c. NoSession.tree = main
      /\ NoSession \in [tree : Trees, base : SUBSET Nat, from : Trees, prompt : 0 .. prompts]
  BY <1>a DEF NoSession, Lead
<1>d. ~ExitRemove /\ ~ExitDiscard => \A x \in Trees : Exists(x) => Exists(x)'
  BY Growing DEF Exists
<1>1. CASE UNCHANGED leadVars /\ ~ExitRemove /\ ~ExitDiscard
  BY <1>1, <1>a, <1>d DEF leadVars, Lead, InSession
<1>2. ASSUME NEW n \in Names, EnterResumes(n) \/ EnterCreates(n) PROVE Lead'
  <2>1. PICK t \in Worktrees, base \in SUBSET Nat :
          /\ ~InSession /\ phase = "calls"
          /\ session' = [tree |-> t, base |-> base, from |-> Dir, prompt |-> prompts]
          /\ session' \in [tree : Trees, base : SUBSET Nat, from : Trees, prompt : 0 .. prompts]
          /\ Exists(t)' /\ Answers(t)
          /\ UNCHANGED <<plan, phase, depth, dirs, prompts>>
    BY <1>2, Entering
  <2>2. t \in Trees /\ session'.tree = t
    BY <2>1, TreeShape
  <2>3. pending' \in [Levels -> Seq(Trees)] /\ \A d \in Levels : d # depth => pending'[d] = pending[d]
    BY <2>1, <2>2, Answering
  <2>4. \A d \in Levels : d > depth => d # depth
    BY <1>b DEF Lead
  <2> QED
    BY <1>a, <2>1, <2>2, <2>3, <2>4 DEF Lead
<1>3. CASE ExitKeep \/ ExitRemove \/ ExitDiscard
  <2>1. /\ InSession /\ phase \in {"calls", "removing"} /\ phase' = "calls"
        /\ session.from \in Trees /\ session' = NoSession /\ ~InSession' /\ Answers(session.from)
        /\ UNCHANGED <<plan, depth, dirs, prompts>>
    BY <1>3, Leaving
  <2>3. pending' \in [Levels -> Seq(Trees)] /\ \A d \in Levels : d # depth => pending'[d] = pending[d]
    BY <2>1, Answering
  <2>4. \A d \in Levels : d > depth => d # depth
    BY <1>b DEF Lead
  <2> QED
    BY <1>a, <1>b, <1>c, <2>1, <2>3, <2>4 DEF Lead
<1>4. CASE ExitCheck
  BY <1>4, <1>a DEF ExitCheck, Calls, Lead, InSession, Exists, gitVars
<1>5. CASE Rewind \/ RewindEnds
  BY <1>5, <1>a DEF Rewind, RewindEnds, Lead, InSession, Exists, gitVars
<1>6. CASE Prompt
  <2>1. /\ UNCHANGED <<wt, session, depth, pending>> /\ phase = "idle" /\ phase' = "calls"
        /\ prompts' = prompts + 1 /\ dirs' = Append(dirs, main)
    BY <1>6 DEF Prompt, gitVars
  <2>2. session \in [tree : Trees, base : SUBSET Nat, from : Trees, prompt : 0 .. prompts']
    <3>1. 0 .. prompts \subseteq 0 .. prompts'
      BY <2>1 DEF Lead
    <3> QED
      BY <3>1 DEF Lead
  <2>3. dirs' \in Seq(Trees) /\ dirs' # << >> /\ prompts' \in Nat
    BY <1>a, <2>1 DEF Lead
  <2> QED
    BY <1>a, <2>1, <2>2, <2>3 DEF Lead, Exists
<1>7. CASE Delegates
  <2>1. /\ UNCHANGED <<wt, session, phase, pending, dirs, prompts>> /\ phase = "calls"
        /\ depth < plan.agents /\ depth' = depth + 1
    BY <1>7 DEF Delegates, gitVars
  <2>2. depth' \in Levels
    BY <2>1, PlansAssumption DEF Lead, Levels, Repository
  <2>3. \A d \in Levels : d > depth' => d > depth
    BY <1>b, <2>1 DEF Lead
  <2> QED
    BY <1>a, <2>1, <2>2, <2>3 DEF Lead, InSession, Exists
<1>8. CASE Results
  <2>1. /\ UNCHANGED <<wt, session, phase, depth, prompts>> /\ phase = "calls" /\ pending[depth] # << >>
        /\ dirs' = [dirs EXCEPT ![Len(dirs)] = Last(pending[depth])]
        /\ pending' = [pending EXCEPT ![depth] = << >>]
    BY <1>8 DEF Results, gitVars
  <2>2. pending[depth] \in Seq(Trees)
    BY DEF Lead
  <2>3. Last(pending[depth]) \in Trees
    BY <2>1, <2>2 DEF Last
  <2>4. dirs' \in Seq(Trees) /\ dirs' # << >>
    BY <2>1, <2>3 DEF Lead
  <2>5. pending' \in [Levels -> Seq(Trees)] /\ \A d \in Levels : pending'[d] \in {pending[d], << >>}
    BY <2>1 DEF Lead
  <2> QED
    BY <1>a, <2>1, <2>4, <2>5 DEF Lead, InSession, Exists
<1>9. CASE EndRun
  <2>1. /\ UNCHANGED <<wt, session, pending, dirs, prompts>> /\ phase = "calls" /\ pending[depth] = << >>
    BY <1>9 DEF EndRun, gitVars
  <2>2. CASE depth > 1
    <3>1. depth' = depth - 1 /\ phase' = "calls"
      BY <1>9, <2>1, <2>2 DEF EndRun
    <3>2. depth' \in Levels
      BY <2>2, <3>1, PlansAssumption DEF Lead, Levels, Repository
    <3>3. \A d \in Levels : d > depth' => d = depth \/ d > depth
      BY <1>b, <3>1 DEF Lead
    <3> QED
      BY <1>a, <2>1, <3>1, <3>2, <3>3 DEF Lead, InSession, Exists
  <2>3. CASE ~(depth > 1)
    <3>1. depth' = depth /\ phase' = "idle" /\ depth = 1
      BY <1>9, <1>b, <2>1, <2>3 DEF EndRun, Lead, Levels
    <3>2. \A d \in Levels : d = depth \/ d > depth
      BY <3>1 DEF Levels
    <3> QED
      BY <1>a, <2>1, <3>1, <3>2 DEF Lead, InSession, Exists
  <2> QED
    BY <2>2, <2>3
<1>10. CASE Restart
  <2>1. /\ session' = NoSession /\ phase' = "idle" /\ depth' = 1 /\ dirs' = << >>
        /\ pending' = [d \in Levels |-> << >>] /\ prompts' = prompts
    BY <1>10 DEF Restart
  <2>2. pending' \in [Levels -> Seq(Trees)] /\ dirs' \in Seq(Trees)
    BY <2>1
  <2>3. \A d \in Levels : pending'[d] = << >>
    BY <2>1
  <2> QED
    BY <1>a, <1>b, <1>c, <2>1, <2>2, <2>3 DEF Lead
<1> QED
  BY <1>1, <1>2, <1>3, <1>4, <1>5, <1>6, <1>7, <1>8, <1>9, <1>10, LeadStays DEF LeadStep

\* The directory of Bash.
LEMMA FollowsNext ==
  ASSUME Repository, Lead, Follows, [WorkspaceNext]_workspaceVars
  PROVE  Follows'
<1>a. Levels' = Levels /\ depth \in Levels /\ Levels \subseteq Nat /\ prompts \in Nat
  BY PlanIsKept DEF Levels, Lead
<1>b. NoSession.tree = main /\ (~InSession => session.tree = main)
  BY DEF NoSession, InSession
<1>1. CASE UNCHANGED <<session, pending, dirs, prompts, mixed>>
  BY <1>1, <1>a DEF Follows, Applied, InSession, Dir
<1>2. ASSUME NEW n \in Names, EnterResumes(n) \/ EnterCreates(n) PROVE Follows'
  <2>1. PICK t \in Worktrees, base \in SUBSET Nat :
          /\ ~InSession /\ phase = "calls"
          /\ session' = [tree |-> t, base |-> base, from |-> Dir, prompt |-> prompts]
          /\ Answers(t) /\ mixed' = (mixed \/ \E d \in Levels : pending[d] # << >>)
    BY <1>2, Entering
  <2>2. session'.tree = t /\ session'.from = Dir /\ t \in Trees
    BY <2>1, TreeShape
  <2>3. SUFFICES ASSUME ~mixed' PROVE Follows'
    BY DEF Follows
  <2>4. ~mixed /\ \A d \in Levels : pending[d] = << >>
    BY <2>1, <2>3
  <2>5. Dir = main
    BY <1>b, <2>1, <2>4 DEF Follows, Applied, Lead
  <2>6. /\ pending'[depth] # << >> /\ Last(pending'[depth]) = t
        /\ \A d \in Levels : d # depth => pending'[d] = << >>
    BY <2>1, <2>2, <2>4, Answering
  <2> QED
    BY <1>a, <2>2, <2>5, <2>6 DEF Follows, Applied
<1>3. CASE ExitKeep \/ ExitRemove \/ ExitDiscard
  <2>1. /\ InSession /\ session.from \in Trees /\ session' = NoSession /\ ~InSession'
        /\ Answers(session.from)
        /\ mixed' = (mixed \/ \E d \in Levels : d < depth /\ pending[d] # << >>)
    BY <1>3, Leaving
  <2>2. SUFFICES ASSUME ~mixed' PROVE Follows'
    BY DEF Follows
  <2>3. ~mixed /\ \A d \in Levels : d # depth => pending[d] = << >>
    <3>1. \A d \in Levels : d # depth => d < depth \/ d > depth
      BY <1>a
    <3> QED
      BY <2>1, <2>2, <3>1 DEF Lead
  <2>4. session.from = main
    BY <2>1, <2>3 DEF Follows
  <2>5. /\ pending'[depth] # << >> /\ Last(pending'[depth]) = main
        /\ \A d \in Levels : d # depth => pending'[d] = << >>
    BY <2>1, <2>3, <2>4, Answering
  <2>6. session'.tree = main
    BY <1>b, <2>1
  <2> QED
    BY <1>a, <2>1, <2>5, <2>6 DEF Follows, Applied
<1>4. CASE ExitCheck \/ Rewind \/ RewindEnds \/ Delegates \/ EndRun
  BY <1>1, <1>4 DEF ExitCheck, Rewind, RewindEnds, Delegates, EndRun
<1>5. CASE Prompt
  <2>1. /\ UNCHANGED <<session, pending>> /\ phase = "idle" /\ prompts' = prompts + 1
        /\ dirs' = Append(dirs, main) /\ mixed' = (mixed /\ InSession)
    BY <1>5 DEF Prompt
  <2>2. \A d \in Levels : pending[d] = << >>
    BY <2>1 DEF Lead
  <2>3. Dir' = main
    BY <2>1 DEF Dir, Lead
  <2>4. session.prompt \in 0 .. prompts /\ session.prompt # prompts'
    BY <1>a, <2>1 DEF Lead
  <2>5. InSession' = InSession
    BY <2>1 DEF InSession
  <2> QED
    BY <1>a, <1>b, <2>1, <2>2, <2>3, <2>4, <2>5 DEF Follows, Applied
<1>6. CASE Results
  <2>1. /\ UNCHANGED <<session, prompts, mixed>> /\ phase = "calls" /\ pending[depth] # << >>
        /\ dirs' = [dirs EXCEPT ![Len(dirs)] = Last(pending[depth])]
        /\ pending' = [pending EXCEPT ![depth] = << >>]
    BY <1>6 DEF Results
  <2>2. dirs # << >> /\ dirs \in Seq(Trees) /\ pending \in [Levels -> Seq(Trees)]
    BY <2>1 DEF Lead
  <2>3. PICK t : t = Last(pending[depth])
    OBVIOUS
  <2>4. Len(dirs') = Len(dirs) /\ dirs'[Len(dirs)] = t
    BY <2>1, <2>2, <2>3
  <2>5. Dir' = t
    BY <2>4 DEF Dir
  <2>6. SUFFICES ASSUME ~mixed' PROVE Follows'
    BY DEF Follows
  <2>7. ~mixed
    BY <2>1, <2>6
  <2>8. t = session.tree /\ \A d \in Levels : d # depth => pending[d] = << >>
    BY <1>a, <2>1, <2>3, <2>7 DEF Follows
  <2>9. \A d \in Levels : pending'[d] = << >>
    BY <2>1, <2>2, <2>8
  <2>10. InSession' = InSession
    BY <2>1 DEF InSession
  <2> QED
    BY <1>a, <2>1, <2>5, <2>7, <2>8, <2>9, <2>10 DEF Follows, Applied
<1>7. CASE Restart
  <2>1. session' = NoSession /\ dirs' = << >> /\ pending' = [d \in Levels |-> << >>]
    BY <1>7 DEF Restart
  <2>2. ~InSession' /\ \A d \in Levels : pending'[d] = << >>
    BY <1>b, <2>1 DEF InSession
  <2> QED
    BY <1>a, <2>1, <2>2 DEF Follows, Applied
<1>8. CASE UNCHANGED leadVars
  BY <1>1, <1>8 DEF leadVars
<1> QED
  BY <1>2, <1>3, <1>4, <1>5, <1>6, <1>7, <1>8, LeadStays DEF LeadStep

-----------------------------------------------------------------------------
(* Removals.                                                               *)

\* Where git sees a repository, and what is in it.
LEMMA SameTrees ==
  ASSUME \A x \in Trees : wt'[x] = "tree" <=> wt[x] = "tree"
  PROVE  \A t \in Trees : Repo(t)' = Repo(t) /\ Nested(t)' = Nested(t)
<1> SUFFICES ASSUME NEW t \in Trees PROVE Repo(t)' = Repo(t) /\ Nested(t)' = Nested(t)
  OBVIOUS
<1>1. Parent(t) \in Trees /\ Worktrees \subseteq Trees
  BY TreeShape
<1> QED
  BY <1>1 DEF Repo, Nested

LEMMA SameInside ==
  ASSUME UNCHANGED wt
  PROVE  \A t \in Trees : Inside(t)' = Inside(t)
<1>1. \A t \in Trees : Repo(t)' = Repo(t) /\ Exists(t)' = Exists(t)
  BY SameTrees DEF Exists
<1> QED
  BY <1>1 DEF Inside

\* What git sees of a file changes, or no file differs from git that did not.
LEMMA SameChanges ==
  ASSUME UNCHANGED <<plan, wt>>,
         \A x \in Trees : files'[x] # tracked'[x] => files[x] # tracked[x] /\ tracked'[x] = tracked[x]
  PROVE  \A t \in Trees : Changed(t)' => Changed(t)
<1> SUFFICES ASSUME NEW t \in Trees, Changed(t)' PROVE Changed(t)
  OBVIOUS
<1>1. Inside(t)' = Inside(t)
  BY SameInside
<1>2. PICK x \in Inside(t) : files'[x] # tracked'[x] /\ ~Hidden(x)'
  BY <1>1 DEF Changed
<1>3. x \in Trees
  BY DEF Inside
<1> QED
  BY <1>2, <1>3 DEF Changed, Hidden

\* The steps that may come between the check of a removal and the removal.
LEMMA MeanwhileSteps ==
  ASSUME [WorkspaceNext]_workspaceVars, phase = "removing", phase' = "removing"
  PROVE  /\ UNCHANGED leadVars
         /\ \/ \E t \in Trees : BashChange(t) \/ BashCommit(t) \/ BashCheckout(t)
            \/ \E w \in writing : Writes(w)
            \/ UNCHANGED <<gitVars, files, late>>
<1>1. UNCHANGED leadVars
  BY LeadStays DEF LeadStep, EnterResumes, EnterCreates, MayEnter, Calls, ExitKeep, ExitCheck, ExitRemove,
     ExitDiscard, Rewind, RewindEnds, Prompt, Delegates, Results, EndRun, Restart
<1>2. \/ \E t \in Trees : BashChange(t) \/ BashCommit(t) \/ BashCheckout(t)
      \/ \E w \in writing : Writes(w)
      \/ UNCHANGED <<gitVars, files, late>>
  BY DEF WorkspaceNext, workspaceVars, Save, EditReads, WriteFails, Merge, EnterResumes, EnterCreates,
         MayEnter, Calls, ExitKeep, ExitCheck, ExitRemove, ExitDiscard, Rewind, RestoreNext,
         RewindEnds, Prompt, Delegates, Results, EndRun, Restart
<1> QED
  BY <1>1, <1>2

LEMMA CheckedMeanwhile ==
  ASSUME Repository, Snapshots, Lead, Checked, [WorkspaceNext]_workspaceVars,
         phase = "removing", phase' = "removing"
  PROVE  Checked'
<1>0. PICK n : n = session.tree
  OBVIOUS
<1>1. n \in Trees /\ Repo(n) \in Trees
  BY <1>0, RepoIsTree DEF Lead
<1>2. UNCHANGED <<plan, session>> /\ uncommitted' = uncommitted /\ session'.tree = n
  BY <1>0, MeanwhileSteps, PlanIsKept DEF leadVars, uncommitted
<1>3. /\ head[Repo(n)] \subseteq session.base \cup late /\ (Changed(n) => uncommitted \in late)
      /\ plan.ignored \/ Nested(Repo(n)) = {}
  BY <1>0 DEF Checked
<1>4. ASSUME \A x \in Trees : wt'[x] = "tree" <=> wt[x] = "tree",
             head'[Repo(n)] \subseteq session.base \cup late',
             Changed(n)' => uncommitted \in late'
      PROVE  Checked'
  <2>1. Repo(n)' = Repo(n) /\ Nested(Repo(n))' = Nested(Repo(n))
    <3>1. Repo(n)' = Repo(n)
      BY <1>1, <1>4, SameTrees
    <3>2. PICK r \in Trees : r = Repo(n)
      BY <1>1
    <3>3. Nested(r)' = Nested(r)
      BY <1>4, SameTrees
    <3>4. Nested(Repo(n))' = Nested(r)'
      BY <3>1, <3>2 DEF Nested
    <3> QED
      BY <3>1, <3>2, <3>3, <3>4
  <2>2. head'[Repo(n)'] \subseteq session'.base \cup late'
    BY <1>2, <1>4, <2>1
  <2>3. plan'.ignored \/ Nested(Repo(n))' = {}
    BY <1>2, <1>3, <2>1
  <2>4. Changed(n)' => uncommitted' \in late'
    BY <1>2, <1>4
  <2> QED
    BY <1>2, <2>2, <2>3, <2>4 DEF Checked
<1>5. ASSUME NEW t \in Trees, BashChange(t) PROVE Checked'
  <2>1. UNCHANGED <<wt, head>> /\ late' = late \cup {uncommitted}
    BY <1>5 DEF BashChange, Late, gitVars
  <2> QED
    BY <1>3, <1>4, <2>1
<1>6. ASSUME NEW w \in writing, Writes(w) PROVE Checked'
  <2>1. UNCHANGED head /\ late' = late \cup {uncommitted} /\ MkdirAll(w.path) /\ w.path \in Trees
    BY <1>6 DEF Writes, Late, Snapshots, WriteCall
  <2>2. \A x \in Trees : wt'[x] = "tree" <=> wt[x] = "tree"
    BY <2>1, Making
  <2> QED
    BY <1>3, <1>4, <2>1, <2>2
<1>7. ASSUME NEW t \in Trees, BashCommit(t) PROVE Checked'
  <2>1. /\ head' = [head EXCEPT ![Repo(t)] = head[Repo(t)] \cup {made'}]
        /\ tracked' = [x \in Trees |-> IF x \in Inside(t) /\ ~Hidden(x) THEN files[x] ELSE tracked[x]]
        /\ late' = late \cup {made'} /\ UNCHANGED <<wt, files>>
    BY <1>7 DEF BashCommit, Late
  <2>2. head'[Repo(n)] \subseteq head[Repo(n)] \cup {made'}
    BY <1>1, <2>1 DEF Repository
  <2>3. \A x \in Trees : files'[x] # tracked'[x] => files[x] # tracked[x] /\ tracked'[x] = tracked[x]
    BY <2>1
  <2>4. Changed(n)' => Changed(n)
    BY <1>1, <1>2, <2>1, <2>3, SameChanges
  <2> QED
    BY <1>3, <1>4, <2>1, <2>2, <2>4
<1>8. ASSUME NEW t \in Trees, BashCheckout(t) PROVE Checked'
  <2>1. PICK r \in Trees : r = Repo(t)
    BY RepoIsTree
  <2>2. UNCHANGED wt /\ late' = late \cup head'[r]
    BY <1>8, <2>1 DEF BashCheckout, Late
  <2>3. \A x \in Trees : x # r => head'[x] = head[x]
    BY <1>8, <2>1 DEF BashCheckout, Repository
  <2>4. \A x \in Trees : files'[x] # tracked'[x] => files[x] # tracked[x] /\ tracked'[x] = tracked[x]
    <3>1. CASE UNCHANGED <<files, tracked>>
      BY <3>1
    <3>2. CASE \E c \in plan.texts \cup {absent} :
                 files' = [files EXCEPT ![r] = c] /\ tracked' = [tracked EXCEPT ![r] = c]
      BY <3>2 DEF Repository
    <3> QED
      BY <1>8, <2>1, <3>1, <3>2 DEF BashCheckout
  <2>5. Changed(n)' => Changed(n)
    BY <1>1, <1>2, <2>2, <2>4, SameChanges
  <2>6. head'[Repo(n)] \subseteq session.base \cup late'
    BY <1>1, <1>3, <2>2, <2>3
  <2> QED
    BY <1>3, <1>4, <2>2, <2>5, <2>6
<1>9. CASE UNCHANGED <<gitVars, files, late>>
  <2>1. UNCHANGED <<wt, head, files, tracked, late>>
    BY <1>9 DEF gitVars
  <2>2. Changed(n)' => Changed(n)
    BY <1>1, <1>2, <2>1, SameChanges
  <2> QED
    BY <1>3, <1>4, <2>1, <2>2
<1> QED
  BY <1>5, <1>6, <1>7, <1>8, <1>9, MeanwhileSteps

LEMMA CheckedNext ==
  ASSUME Repository, Snapshots, Lead, Checked, [WorkspaceNext]_workspaceVars
  PROVE  Checked'
<1>1. CASE phase' # "removing"
  BY <1>1 DEF Checked
<1>2. CASE phase = "removing" /\ phase' = "removing"
  BY <1>2, CheckedMeanwhile
<1>3. CASE phase # "removing" /\ phase' = "removing"
  <2>1. ExitCheck
    BY <1>3, LeadStays DEF LeadStep, leadVars, EnterResumes, EnterCreates, MayEnter, Enters, Calls,
       ExitKeep, Leaves, ExitRemove, ExitDiscard, Rewind, RewindEnds, Prompt, Delegates, Results,
       EndRun, Restart
  <2>2. PICK n \in Trees : n = session.tree
    BY DEF Lead
  <2>3. UNCHANGED <<plan, wt, head, files, tracked, session, late>>
    BY <2>1 DEF ExitCheck, gitVars
  <2>4. ~Changed(n) /\ head[Repo(n)] \subseteq session.base /\ (plan.ignored \/ Nested(Repo(n)) = {})
    BY <2>1, <2>2 DEF ExitCheck, Listed
  <2>5. Changed(n)' => Changed(n)
    BY <2>3, SameChanges
  <2>6. Repo(n)' = Repo(n) /\ Nested(Repo(n))' = Nested(Repo(n))
    BY <2>3 DEF Repo, Nested
  <2> QED
    BY <2>2, <2>3, <2>4, <2>5, <2>6 DEF Checked
<1> QED
  BY <1>1, <1>2, <1>3

LEMMA ReachableHas ==
  \A work : work \in Reachable <=> \/ work \in safe
                                   \/ \E n \in Names : work \in branch[n]
                                   \/ \E t \in Trees : work \in head[t]
<1>1. \A work : work \in UNION {branch[n] : n \in Names} <=> \E n \in Names : work \in branch[n]
  OBVIOUS
<1>2. \A work : work \in UNION {head[t] : t \in Trees} <=> \E t \in Trees : work \in head[t]
  OBVIOUS
<1> QED
  BY <1>1, <1>2 DEF Reachable

LEMMA ReachableIs ==
  ASSUME Repository
  PROVE  Reachable \subseteq upstream .. made
<1> HIDE DEF upstream
<1>1. /\ safe \subseteq upstream .. made /\ \A n \in Names : branch[n] \subseteq upstream .. made
      /\ \A t \in Trees : head[t] \subseteq upstream .. made
  BY DEF Repository
<1> QED
  BY <1>1, ReachableHas

LEMMA LatenessNext ==
  ASSUME Repository, Repository', Lead, Lateness, [WorkspaceNext]_workspaceVars
  PROVE  Lateness'
<1>a. uncommitted' = uncommitted
  BY PlanIsKept DEF uncommitted
<1>b. /\ plan.commits \in Nat /\ uncommitted = plan.commits + 1 /\ made \in 0 .. plan.commits
      /\ made' \in 0 .. plan.commits
  BY Bounds, PlanIsKept DEF Repository, uncommitted
<1>c. /\ uncommitted \in upstream .. uncommitted /\ made' \in upstream .. uncommitted
      /\ upstream .. made \subseteq upstream .. uncommitted
      /\ upstream .. made' \subseteq upstream .. uncommitted
  BY <1>b DEF upstream
<1>d. \A t \in Trees : head'[t] \subseteq upstream .. made'
  BY DEF Repository, upstream
<1> HIDE DEF upstream
<1>1. late' \subseteq upstream .. uncommitted
  <2>1. ASSUME NEW t \in Trees, BashChange(t) \/ BashCommit(t)
        PROVE  late' \subseteq late \cup {uncommitted, made'}
    BY <2>1 DEF BashChange, BashCommit, Late
  <2>2. ASSUME NEW t \in Trees, BashCheckout(t) PROVE late' \subseteq late \cup head'[Repo(t)]
    BY <2>2 DEF BashCheckout, Late
  <2>3. ASSUME NEW w \in writing, Writes(w) PROVE late' \subseteq late \cup {uncommitted}
    BY <2>3 DEF Writes, Late
  <2>4. CASE late' \in {late, {}}
    BY <2>4, <1>a DEF Lateness
  <2>5. \/ \E t \in Trees : BashChange(t) \/ BashCommit(t) \/ BashCheckout(t)
        \/ \E w \in writing : Writes(w)
        \/ late' \in {late, {}}
    BY DEF WorkspaceNext, workspaceVars, Save, EditReads, WriteFails, Merge, EnterResumes, EnterCreates,
           Enters, ExitKeep, ExitCheck, ExitRemove, ExitDiscard, Leaves, Rewind, RestoreNext, Restore,
           RewindEnds, Prompt, Delegates, Results, EndRun, Restart
  <2>6. late \subseteq upstream .. uncommitted
    BY DEF Lateness
  <2> QED
    BY <1>c, <1>d, <2>1, <2>2, <2>3, <2>4, <2>5, <2>6, RepoIsTree
<1>2. lost' \subseteq upstream .. uncommitted
  <2>1. CASE ExitRemove
    <3>1. PICK W \in SUBSET {uncommitted} : lost' = lost \cup (Reachable \ Reachable') \cup W
      BY <2>1 DEF ExitRemove, Loses
    <3>2. Reachable \subseteq upstream .. uncommitted
      BY <1>c, ReachableIs
    <3> QED
      BY <1>c, <3>1, <3>2 DEF Lateness
  <2>2. CASE ~ExitRemove
    <3>1. lost' = lost
      BY <2>2 DEF WorkspaceNext, workspaceVars, Save, BashChange, BashCommit, BashCheckout, EditReads,
                  Writes, WriteFails, Merge, EnterResumes, EnterCreates, Enters, ExitKeep, ExitCheck,
                  ExitDiscard, Rewind, RestoreNext, Restore, RewindEnds, Prompt, Delegates, Results,
                  EndRun, Restart
    <3> QED
      BY <3>1 DEF Lateness
  <2> QED
    BY <2>1, <2>2
<1> QED
  BY <1>a, <1>1, <1>2 DEF Lateness

-----------------------------------------------------------------------------
(* The invariant and the theorems.                                         *)

LEMMA TreesInit == WorkspaceInit => TreesInv
<1> SUFFICES ASSUME WorkspaceInit PROVE TreesInv
  OBVIOUS
<1>0. /\ plan \in Plans /\ plan.commits \in Nat /\ plan.agents \in Nat \ {0}
      /\ plan.texts \subseteq Contents /\ main \in Trees
  BY PlansAssumption, TreeShape DEF WorkspaceInit
<1>1. Repository
  <2>1. PICK c \in plan.texts \cup {absent} :
          files = [t \in Trees |-> IF t = main THEN c ELSE absent]
    BY DEF WorkspaceInit
  <2>2. files \in [Trees -> Held]
    BY <1>0, <2>1 DEF Held
  <2>3. tracked \in [Trees -> Held]
    BY <2>2 DEF WorkspaceInit, Held
  <2> QED
    BY <1>0, <2>2, <2>3 DEF WorkspaceInit, Repository, upstream
<1>2. Bare
  BY DEF WorkspaceInit, Bare
<1>3. Snapshots /\ Rewinding
  BY DEF WorkspaceInit, Snapshots, Rewinding
<1>4. Lead
  <2>1. session \in [tree : Trees, base : SUBSET Nat, from : Trees, prompt : 0 .. prompts]
    BY <1>0 DEF WorkspaceInit, NoSession
  <2>2. depth \in Levels /\ pending \in [Levels -> Seq(Trees)] /\ dirs \in Seq(Trees)
    BY <1>0 DEF WorkspaceInit, Levels
  <2>3. Exists(session.tree)
    BY <1>0 DEF WorkspaceInit, NoSession, Exists
  <2> QED
    BY <2>1, <2>2, <2>3 DEF WorkspaceInit, Lead
<1>5. Follows /\ Checked /\ Lateness
  BY DEF WorkspaceInit, Follows, Checked, Lateness, InSession, NoSession
<1> QED
  BY <1>1, <1>2, <1>3, <1>4, <1>5 DEF TreesInv

LEMMA TreesNext == TreesInv /\ [WorkspaceNext]_workspaceVars => TreesInv'
<1> SUFFICES ASSUME TreesInv, [WorkspaceNext]_workspaceVars PROVE TreesInv'
  OBVIOUS
<1> USE DEF TreesInv
<1>1. Repository' /\ Bare'
  BY RepositoryNext, BareNext
<1>2. Snapshots' /\ Rewinding' /\ Lead' /\ Follows' /\ Checked'
  BY SnapshotsNext, RewindingNext, LeadNext, FollowsNext, CheckedNext
<1>3. Lateness'
  BY <1>1, LatenessNext
<1> QED
  BY <1>1, <1>2, <1>3

LEMMA TreesAlways == WorkspaceSpec => []TreesInv
  BY TreesInit, TreesNext, PTL DEF WorkspaceSpec

\* The trees, sessions and directories keep their types, the directory of a
\* session is there, and the ids of snapshots name one each, through restarts
\* that lose some of them and count on from the rest (snapshot.go: load).
THEOREM WorkspaceTypeCorrect == WorkspaceSpec => []WorkspaceTypeOK
<1>1. TreesInv => WorkspaceTypeOK
  <2> SUFFICES ASSUME TreesInv PROVE WorkspaceTypeOK
    OBVIOUS
  <2>1. {files[t] : t \in Trees} \cup {tracked[t] : t \in Trees} \subseteq Contents \cup {absent, torn}
    BY DEF TreesInv, Repository, Held
  <2>2. ToSet(dirs) \subseteq Trees /\ \A d \in Levels : ToSet(pending[d]) \subseteq Trees
    <3>1. \A q \in Seq(Trees) : ToSet(q) \subseteq Trees
      BY DEF ToSet
    <3> QED
      BY <3>1 DEF TreesInv, Lead
  <2>3. rewound \cap todo = {}
    BY DEF TreesInv, Rewinding, Snapshot
  <2>4. (UNION {head[t] : t \in Trees}) \cup (UNION {branch[n] : n \in Names}) \cup safe \subseteq upstream .. made
    <3>1. Repository
      BY DEF TreesInv
    <3> QED
      BY <3>1, ReachableIs DEF Reachable
  <2>5. /\ plan \in Plans /\ made \in 0 .. plan.commits
        /\ wt \in [Trees -> {"none", "tree", "plain"}] /\ on \in [Trees -> {"own", "other", "detached"}]
    BY DEF TreesInv, Repository
  <2>6. /\ session.tree \in Trees /\ session.from \in Trees /\ Exists(session.tree)
        /\ phase \in {"idle", "calls", "removing", "rewinding"} /\ depth \in Levels
    BY DEF TreesInv, Lead
  <2>7. \A s, o \in snaps : s.id = o.id => s = o
    BY DEF TreesInv, Snapshots
  <2>8. late \cup lost \subseteq upstream .. uncommitted
    BY DEF TreesInv, Lateness
  <2> QED
    BY <2>1, <2>2, <2>3, <2>4, <2>5, <2>6, <2>7, <2>8 DEF WorkspaceTypeOK
<1> QED
  BY <1>1, TreesAlways, PTL

\* When the results of all answers were applied, Bash is in the worktree that
\* this prompt entered, and in the main tree without a session, whatever else
\* the answers kept, removed or entered, unless one entered a worktree, or a
\* sub-agent left one, while an answer had a directory still to apply (loop.go:
\* the directories in the results; worktree.go, tool/agent.go).
THEOREM BashFollowsTheSession == WorkspaceSpec => []BashFollows
<1>1. TreesInv => BashFollows
  <2> SUFFICES ASSUME TreesInv, dirs # << >>, \A d \in Levels : pending[d] = << >>, ~mixed
               PROVE  /\ ~InSession => Dir = main
                      /\ InSession /\ session.prompt = prompts => Dir = session.tree
    BY DEF BashFollows
  <2>1. (InSession => session.prompt = prompts) => Dir = session.tree
    BY DEF TreesInv, Follows, Applied
  <2>2. ~InSession => session.tree = main
    BY DEF InSession
  <2> QED
    BY <2>1, <2>2
<1> QED
  BY <1>1, TreesAlways, PTL

\* In and after a rewind, whichever of its restores fail and whatever tools
\* write between them, a file it restored and nobody changed since is what it
\* was before the oldest of the changes, unless git could not store that as it
\* was (snapshot.go: Save, RewindN, Restore).
THEOREM RewindsRestore == WorkspaceSpec => []RewindRestores
<1>1. TreesInv => RewindRestores
  BY DEF TreesInv, Rewinding, First, Exact, RewindRestores
<1> QED
  BY <1>1, TreesAlways, PTL

\* A removal without discard_changes deletes no work of its own session that
\* git shows, whatever its agents and teammates write, commit and check out,
\* except what came after its check (worktree.go: countWorktreeChanges).
THEOREM SessionWorkIsKept == WorkspaceSpec => SessionWorkKept
<1> DEFINE Spared == \A work \in lost' \ lost : work \in late \cup session.base \cup Unseen(session.tree)
<1>1. TreesInv /\ [WorkspaceNext]_workspaceVars => [Spared]_workspaceVars
  <2> SUFFICES ASSUME TreesInv, [WorkspaceNext]_workspaceVars, NEW work \in lost' \ lost
               PROVE  work \in late \cup session.base \cup Unseen(session.tree)
    OBVIOUS
  <2>1. ExitRemove
    BY DEF WorkspaceNext, workspaceVars, Save, BashChange, BashCommit, BashCheckout, EditReads,
           Writes, WriteFails, Merge, EnterResumes, EnterCreates, Enters, ExitKeep, ExitCheck,
           ExitDiscard, Rewind, RestoreNext, Restore, RewindEnds, Prompt, Delegates, Results,
           EndRun, Restart
  <2>2. PICK t \in Trees : t = session.tree
    BY DEF TreesInv, Lead
  <2>3. Removes(t) /\ Loses(t) /\ phase = "removing"
    BY <2>1, <2>2 DEF ExitRemove
  <2>4. /\ head[Repo(t)] \subseteq session.base \cup late /\ (Changed(t) => uncommitted \in late)
        /\ plan.ignored \/ Nested(Repo(t)) = {}
    BY <2>2, <2>3 DEF TreesInv, Checked
  <2>5. \A x \in Trees : (wt[x] # "tree" => head[x] = {})
                         /\ (wt[x] = "none" => files[x] = absent /\ tracked[x] = absent)
    BY DEF TreesInv, Bare
  <2>6. wt[t] = "tree" => Repo(t) = t
    BY DEF Repo
  <2>7. Worktrees \subseteq Trees
    BY TreeShape
  <2>8. ASSUME NEW n \in Names, work \in branch[n], work \notin branch'[n]
        PROVE  work \in late \cup session.base \cup Unseen(t)
    <3>1. n = Name(t)
      BY <2>3, <2>8 DEF Removes, DeletesBranch, TreesInv, Repository
    <3> QED
      BY <2>4, <2>8, <3>1 DEF Unseen
  <2>9. ASSUME NEW x \in Trees, work \in head[x], work \notin head'[x]
        PROVE  work \in late \cup session.base \cup Unseen(t)
    <3>1. RemovesDir(t)
      BY <2>3, <2>9 DEF Removes
    <3>2. x \in Doomed(t) /\ wt[t] = "tree"
      BY <2>9, <3>1 DEF RemovesDir
    <3>3. CASE x = t
      BY <2>4, <2>6, <2>9, <3>2, <3>3
    <3>4. CASE x # t
      <4>1. x \in Nested(t)
        BY <2>5, <2>9, <3>2, <3>4 DEF Doomed, Nested
      <4>2. plan.ignored
        BY <2>4, <2>6, <3>2, <4>1
      <4> QED
        BY <2>9, <4>1, <4>2 DEF Unseen
    <3> QED
      BY <3>3, <3>4
  <2>10. CASE work \in Reachable \ Reachable'
    <3>1. UNCHANGED safe
      BY <2>3 DEF Removes
    <3>2. \/ \E n \in Names : work \in branch[n] /\ work \notin branch'[n]
          \/ \E x \in Trees : work \in head[x] /\ work \notin head'[x]
      BY <2>10, <3>1 DEF Reachable
    <3> QED
      BY <2>2, <2>8, <2>9, <3>2
  <2>11. ASSUME work = uncommitted, wt' # wt, NEW x \in Doomed(t), files[x] # tracked[x]
         PROVE  work \in late \cup session.base \cup Unseen(t)
    <3>1. wt[t] = "tree"
      BY <2>3, <2>11 DEF Removes, RemovesDir
    <3>2. x \in Trees /\ x \in Worktrees /\ (x = t \/ Parent(x) = t)
      BY <2>7 DEF Doomed
    <3>3. CASE Hidden(x)
      BY <2>11, <3>3 DEF Unseen
    <3>4. CASE x # t /\ wt[x] = "tree"
      <4>1. x \in Nested(t)
        BY <3>2, <3>4 DEF Nested
      <4>2. plan.ignored
        BY <2>4, <2>6, <3>1, <4>1
      <4> QED
        BY <2>11, <4>1, <4>2 DEF Unseen
    <3>5. CASE ~Hidden(x) /\ (x = t \/ wt[x] # "tree")
      <4>1. wt[x] # "none"
        BY <2>5, <2>11, <3>2
      <4>2. Repo(x) = Repo(t)
        BY <2>6, <3>1, <3>2, <3>5 DEF Repo
      <4>3. x \in Inside(t)
        BY <3>2, <4>1, <4>2 DEF Inside, Exists
      <4>4. Changed(t)
        BY <2>11, <3>5, <4>3 DEF Changed
      <4> QED
        BY <2>4, <2>11, <4>4
    <3> QED
      BY <3>3, <3>4, <3>5
  <2>12. \/ work \in Reachable \ Reachable'
         \/ work = uncommitted /\ wt' # wt /\ \E x \in Doomed(t) : files[x] # tracked[x]
    BY <2>3 DEF Loses
  <2> QED
    BY <2>2, <2>10, <2>11, <2>12
<1> QED
  BY <1>1, TreesAlways, PTL DEF WorkspaceSpec, SessionWorkKept

-----------------------------------------------------------------------------
(* Background tasks.  The invariant says, for every point of a task's      *)
(* goroutine, which status goes with it, and that a notification exists    *)
(* only once its task is past the send.                                    *)

\* The status that goes with every point of the goroutine, and what a closed
\* done channel and a kill imply.
StatusByPoint ==
  \A t \in Tasks :
    /\ at[t] = "idle" => status[t] = "none"
    /\ at[t] \in {"run", "exited"} => status[t] = "running"
    /\ at[t] \in {"notify", "close", "end"} => status[t] \in Terminal
    /\ done[t] => at[t] = "end"
    /\ status[t] = "killed" => ctx[t]

\* A call that has begun is about a task the manager knows.
CallsKnown == \A c \in Callers : call[c].at = "none" \/ call[c].task \in Tasks

\* Notifications are about tasks that are past the send, carry their status,
\* and there is one of them per task.
NotifiedPast ==
  /\ \A i \in 1 .. Len(notifyCh) : at[notifyCh[i].task] \in {"close", "end"}
  /\ \A n \in heard : at[n.task] \in {"close", "end"}

IInv == TypeOK /\ StatusByPoint /\ CallsKnown
FullInv == IInv /\ NotifiedPast /\ NotifiedOnceFaithfully

-----------------------------------------------------------------------------

\* The invariant holds at the start.
LEMMA InitIInv == Init => IInv
<1> SUFFICES ASSUME Init PROVE IInv
  OBVIOUS
<1>1. NoCall \in ToolCall /\ NoCall.at = "none"
  BY TasksAssumption DEF NoCall, ToolCall, CallPoints
<1>2. call \in [Callers -> ToolCall] /\ CallsKnown
  BY <1>1 DEF Init, CallsKnown
<1>3. /\ notifyCh \in Seq(Notification) /\ Len(notifyCh) <= NotifyCap
      /\ out \in [Tasks -> 0 .. MaxOutput]
  BY TasksAssumption DEF Init
<1>4. StatusByPoint
  BY DEF Init, StatusByPoint
<1> QED
  BY <1>2, <1>3, <1>4 DEF Init, IInv, TypeOK, Points, Statuses

\* Every step of a task's goroutine preserves it.
LEMMA TaskStepIInv ==
  ASSUME IInv, NEW t \in Tasks,
         Start(t) \/ WriteOutput(t) \/ Exit(t) \/ Record(t) \/ Notify(t) \/ CloseDone(t)
  PROVE  IInv'
<1> USE TasksAssumption DEF IInv
<1>1. CASE Start(t)
  BY <1>1 DEF Start, TypeOK, StatusByPoint, CallsKnown, Points, Statuses, Terminal
<1>2. CASE WriteOutput(t)
  BY <1>2 DEF WriteOutput, TypeOK, StatusByPoint, CallsKnown
<1>3. CASE Exit(t)
  BY <1>3 DEF Exit, TypeOK, StatusByPoint, CallsKnown, Points
<1>4. CASE Record(t)
  BY <1>4 DEF Record, Outcome, TypeOK, StatusByPoint, CallsKnown, Points, Statuses, Terminal
<1>5. CASE Notify(t)
  <2>1. [task |-> t, status |-> status[t]] \in Notification
    BY <1>5 DEF Notify, TypeOK, StatusByPoint, Notification
  <2>2. notifyCh' \in Seq(Notification) /\ Len(notifyCh') <= NotifyCap
    BY <1>5, <2>1 DEF Notify, TypeOK
  <2> QED
    BY <1>5, <2>2 DEF Notify, TypeOK, StatusByPoint, CallsKnown, Points
<1>6. CASE CloseDone(t)
  BY <1>6 DEF CloseDone, TypeOK, StatusByPoint, CallsKnown, Points
<1> QED
  BY <1>1, <1>2, <1>3, <1>4, <1>5, <1>6

\* So does every step of the agent loop and of the host.
LEMMA HostStepIInv ==
  ASSUME IInv, Receive \/ CancelTurn \/ NextTurn \/ Close
  PROVE  IInv'
<1> USE TasksAssumption DEF IInv
<1>1. CASE Receive
  <2>1. Head(notifyCh) \in Notification /\ Tail(notifyCh) \in Seq(Notification)
        /\ Len(Tail(notifyCh)) <= NotifyCap
    BY <1>1 DEF Receive, TypeOK
  <2> QED
    BY <1>1, <2>1 DEF Receive, TypeOK, StatusByPoint, CallsKnown
<1>2. CASE CancelTurn
  BY <1>2 DEF CancelTurn, TypeOK, StatusByPoint, CallsKnown
<1>3. CASE NextTurn
  BY <1>3 DEF NextTurn, TypeOK, StatusByPoint, CallsKnown
<1>4. CASE Close
  BY <1>4 DEF Close, TypeOK, StatusByPoint, CallsKnown
<1> QED
  BY <1>1, <1>2, <1>3, <1>4

\* A tool call moves on within its record: it keeps its shape and its task.
LEMMA CallMoves ==
  ASSUME IInv, NEW c \in Callers, NEW v \in ToolCall,
         v.at = "none" \/ v.task \in Tasks,
         call' = [call EXCEPT ![c] = v]
  PROVE  call' \in [Callers -> ToolCall] /\ CallsKnown'
  BY DEF IInv, TypeOK, CallsKnown

\* So does every step of a tool call.
LEMMA CallStepIInv ==
  ASSUME IInv, NEW c \in Callers,
         \/ CallStep(c)
         \/ \E t \in Tasks : \/ \E blocking \in BOOLEAN : Begin(c, "output", "read", t, blocking)
                             \/ Begin(c, "stop", "check", t, FALSE)
  PROVE  IInv'
<1> USE TasksAssumption DEF IInv
<1>1. ASSUME NEW t \in Tasks, NEW blocking \in BOOLEAN, Begin(c, "output", "read", t, blocking)
      PROVE  IInv'
  BY <1>1 DEF Begin, TypeOK, StatusByPoint, CallsKnown, ToolCall, CallPoints
<1>2. ASSUME NEW t \in Tasks, Begin(c, "stop", "check", t, FALSE)
      PROVE  IInv'
  BY <1>2 DEF Begin, TypeOK, StatusByPoint, CallsKnown, ToolCall, CallPoints
<1>3. CASE ReadContent(c)
  <2> DEFINE v == [call[c] EXCEPT !.at = "poll", !.got = out[call[c].task]]
  <2>1. v \in ToolCall /\ v.task \in Tasks
    BY <1>3 DEF ReadContent, TypeOK, CallsKnown, ToolCall, CallPoints
  <2>2. call' = [call EXCEPT ![c] = v]
    BY <1>3 DEF ReadContent, TypeOK, ToolCall
  <2>3. call' \in [Callers -> ToolCall] /\ CallsKnown'
    BY <2>1, <2>2, CallMoves
  <2> QED
    BY <1>3, <2>3 DEF ReadContent, CallFrame, TypeOK, StatusByPoint
<1>4. CASE ReadDone(c)
  <2>1. PICK v \in ToolCall : v.task \in Tasks /\ call' = [call EXCEPT ![c] = v]
    <3> DEFINE back == [call[c] EXCEPT !.final = done[call[c].task], !.at = "back"]
               again == [call[c] EXCEPT !.at = "read"]
    <3>1. /\ back \in ToolCall /\ back.task \in Tasks
          /\ again \in ToolCall /\ again.task \in Tasks
      BY <1>4 DEF ReadDone, TypeOK, CallsKnown, ToolCall, CallPoints
    <3>2. call' = [call EXCEPT ![c] = back] \/ call' = [call EXCEPT ![c] = again]
      BY <1>4 DEF ReadDone, TypeOK, ToolCall
    <3> QED
      BY <3>1, <3>2
  <2>2. call' \in [Callers -> ToolCall] /\ CallsKnown'
    BY <2>1, CallMoves
  <2> QED
    BY <1>4, <2>2 DEF ReadDone, CallFrame, TypeOK, StatusByPoint
<1>5. CASE StopCheck(c)
  <2>1. PICK p \in {"refused", "cancel"} : call' = [call EXCEPT ![c].at = p]
    BY <1>5 DEF StopCheck
  <2>2. [call[c] EXCEPT !.at = p] \in ToolCall /\ [call[c] EXCEPT !.at = p].task \in Tasks
    BY <1>5 DEF StopCheck, TypeOK, CallsKnown, ToolCall, CallPoints
  <2>3. call' \in [Callers -> ToolCall] /\ CallsKnown'
    BY <2>1, <2>2, CallMoves
  <2> QED
    BY <1>5, <2>3 DEF StopCheck, CallFrame, TypeOK, StatusByPoint
<1>6. CASE StopCancel(c)
  <2>1. [call[c] EXCEPT !.at = "wait"] \in ToolCall /\ call[c].task \in Tasks
    BY <1>6 DEF StopCancel, TypeOK, CallsKnown, ToolCall, CallPoints
  <2>2. call' \in [Callers -> ToolCall] /\ CallsKnown'
    BY <1>6, <2>1, CallMoves DEF StopCancel, ToolCall
  <2> QED
    BY <1>6, <2>1, <2>2 DEF StopCancel, CallFrame, TypeOK, StatusByPoint
<1>7. CASE StopReturn(c)
  <2> DEFINE v == [call[c] EXCEPT !.at = "back", !.final = done[call[c].task]]
  <2>1. v \in ToolCall /\ v.task \in Tasks
    BY <1>7 DEF StopReturn, TypeOK, CallsKnown, ToolCall, CallPoints
  <2>2. call' = [call EXCEPT ![c] = v]
    BY <1>7 DEF StopReturn, TypeOK, ToolCall
  <2>3. call' \in [Callers -> ToolCall] /\ CallsKnown'
    BY <2>1, <2>2, CallMoves
  <2> QED
    BY <1>7, <2>3 DEF StopReturn, CallFrame, TypeOK, StatusByPoint
<1> QED
  BY <1>1, <1>2, <1>3, <1>4, <1>5, <1>6, <1>7 DEF CallStep

\* So does a step that changes nothing.
LEMMA StutterIInv == IInv /\ UNCHANGED vars => IInv'
  BY DEF IInv, vars, TypeOK, StatusByPoint, CallsKnown

\* All steps together.
LEMMA NextIInv == IInv /\ [Next]_vars => IInv'
  BY TaskStepIInv, HostStepIInv, CallStepIInv, StutterIInv DEF Next

\* The inductive invariant, hence the shape of the state.
THEOREM Inductive == Spec => []IInv
  BY InitIInv, NextIInv, PTL DEF Spec

\* The shape of the state.
THEOREM TypeCorrect == Spec => []TypeOK
  BY Inductive, PTL DEF IInv

\* Whoever sees the done channel closed (ReadOutput, Stop) finds the final
\* status.
THEOREM DoneIsTerminal == Spec => []DoneMeansTerminal
<1>1. IInv => DoneMeansTerminal
  BY DEF IInv, StatusByPoint, DoneMeansTerminal
<1> QED
  BY <1>1, Inductive, PTL

\* A task is reported killed only if its context was cancelled.
THEOREM KilledIsCancelled == Spec => []KilledWasCancelled
<1>1. IInv => KilledWasCancelled
  BY DEF IInv, StatusByPoint, KilledWasCancelled
<1> QED
  BY <1>1, Inductive, PTL

\* Notifications stay with tasks past the send, one per task.
LEMMA NotifyingInit == Init => NotifiedPast /\ NotifiedOnceFaithfully
  BY DEF Init, NotifiedPast, NotifiedOnceFaithfully

\* Only Notify and Receive change the channel or what was heard.
LEMMA NotifyingNext == FullInv /\ [Next]_vars => (NotifiedPast /\ NotifiedOnceFaithfully)'
<1> SUFFICES ASSUME FullInv, [Next]_vars
             PROVE  (NotifiedPast /\ NotifiedOnceFaithfully)'
  OBVIOUS
<1> USE DEF FullInv, IInv
<1>0. /\ \A i \in 1 .. Len(notifyCh) : notifyCh[i].task \in Tasks
      /\ \A m \in heard : m.task \in Tasks
  <2>1. \A i \in 1 .. Len(notifyCh) : notifyCh[i] \in Notification
    BY DEF TypeOK
  <2>2. \A m \in Notification : m.task \in Tasks
    BY DEF Notification
  <2> QED
    BY <2>1, <2>2 DEF TypeOK
<1>1. ASSUME NEW t \in Tasks, Notify(t)
      PROVE  (NotifiedPast /\ NotifiedOnceFaithfully)'
  <2>1. CASE Len(notifyCh) < NotifyCap
    <3> DEFINE n == [task |-> t, status |-> status[t]]
    <3>1. /\ notifyCh' = Append(notifyCh, n)
          /\ at' = [at EXCEPT ![t] = "close"] /\ at[t] = "notify"
          /\ UNCHANGED <<status, heard>>
      BY <1>1, <2>1 DEF Notify
    <3>2. n \in Notification
      BY <3>1 DEF TypeOK, StatusByPoint, Notification
    <3>3. /\ \A i \in 1 .. Len(notifyCh) : notifyCh[i].task \in Tasks /\ notifyCh[i].task # t
          /\ \A m \in heard : m.task \in Tasks /\ m.task # t
      BY <1>0, <3>1 DEF NotifiedPast
    <3>4. /\ Len(notifyCh') = Len(notifyCh) + 1
          /\ \A i \in 1 .. Len(notifyCh) : notifyCh'[i] = notifyCh[i]
          /\ notifyCh'[Len(notifyCh) + 1] = n
          /\ Len(notifyCh) \in Nat
      BY <3>1, <3>2 DEF TypeOK
    <3>5. NotifiedPast'
      BY <3>1, <3>3, <3>4 DEF NotifiedPast, TypeOK
    <3>6. NotifiedOnceFaithfully'
      BY <3>1, <3>3, <3>4 DEF NotifiedOnceFaithfully
    <3> QED
      BY <3>5, <3>6
  <2>2. CASE ~(Len(notifyCh) < NotifyCap)
    BY <1>1, <2>2 DEF Notify, NotifiedPast, NotifiedOnceFaithfully, TypeOK, Notification
  <2> QED
    BY <2>1, <2>2
<1>2. CASE Receive
  <2>1. /\ Len(notifyCh) \in Nat /\ Len(notifyCh) > 0
        /\ Len(notifyCh') = Len(notifyCh) - 1
        /\ \A i \in 1 .. Len(notifyCh') : notifyCh'[i] = notifyCh[i + 1]
        /\ heard' = heard \cup {notifyCh[1]}
        /\ UNCHANGED <<at, status>>
    BY <1>2 DEF Receive, TypeOK
  <2>2. NotifiedPast'
    BY <2>1 DEF NotifiedPast
  <2>3. \A i \in 1 .. Len(notifyCh') : notifyCh'[i].task # notifyCh[1].task
    BY <2>1 DEF NotifiedOnceFaithfully
  <2>4. \A i \in 1 .. Len(notifyCh') :
          /\ notifyCh'[i].status = status'[notifyCh'[i].task]
          /\ \A j \in 1 .. Len(notifyCh') : notifyCh'[j].task = notifyCh'[i].task => j = i
    <3> SUFFICES ASSUME NEW i \in 1 .. Len(notifyCh')
                 PROVE  /\ notifyCh'[i].status = status'[notifyCh'[i].task]
                        /\ \A j \in 1 .. Len(notifyCh') :
                             notifyCh'[j].task = notifyCh'[i].task => j = i
      OBVIOUS
    <3>1. i + 1 \in 1 .. Len(notifyCh) /\ notifyCh'[i] = notifyCh[i + 1]
      BY <2>1
    <3>2. notifyCh'[i].status = status'[notifyCh'[i].task]
      BY <2>1, <3>1 DEF NotifiedOnceFaithfully
    <3>3. ASSUME NEW j \in 1 .. Len(notifyCh'), notifyCh'[j].task = notifyCh'[i].task
          PROVE  j = i
      <4>1. j + 1 \in 1 .. Len(notifyCh) /\ notifyCh'[j] = notifyCh[j + 1]
        BY <2>1
      <4>2. j + 1 = i + 1
        BY <3>1, <3>3, <4>1 DEF NotifiedOnceFaithfully
      <4> QED
        BY <2>1, <4>2
    <3> QED
      BY <3>2, <3>3
  <2>5. \A i \in 1 .. Len(notifyCh') : \A m \in heard' : m.task # notifyCh'[i].task
    <3> SUFFICES ASSUME NEW i \in 1 .. Len(notifyCh'), NEW m \in heard'
                 PROVE  m.task # notifyCh'[i].task
      OBVIOUS
    <3>1. i + 1 \in 1 .. Len(notifyCh) /\ notifyCh'[i] = notifyCh[i + 1]
      BY <2>1
    <3> QED
      BY <2>1, <2>3, <3>1 DEF NotifiedOnceFaithfully
  <2>6. \A m \in heard' : m.status = status'[m.task]
    BY <2>1 DEF NotifiedOnceFaithfully
  <2>7. NotifiedOnceFaithfully'
    BY <2>4, <2>5, <2>6 DEF NotifiedOnceFaithfully
  <2> QED
    BY <2>2, <2>7
<1>3. ASSUME NEW t \in Tasks, Start(t) \/ WriteOutput(t) \/ Exit(t) \/ Record(t) \/ CloseDone(t)
      PROVE  (NotifiedPast /\ NotifiedOnceFaithfully)'
  <2>1. /\ UNCHANGED <<notifyCh, heard>>
        /\ \A u \in Tasks : at[u] \in {"close", "end"} =>
                             at'[u] \in {"close", "end"} /\ status'[u] = status[u]
    BY <1>3 DEF Start, WriteOutput, Exit, Record, CloseDone, TypeOK
  <2> QED
    BY <1>0, <2>1 DEF NotifiedPast, NotifiedOnceFaithfully
<1>4. CASE UNCHANGED <<at, status, notifyCh, heard>>
  BY <1>4 DEF NotifiedPast, NotifiedOnceFaithfully
<1>5. ASSUME NEW c \in Callers,
             \/ CallStep(c)
             \/ \E t \in Tasks : \/ \E blocking \in BOOLEAN : Begin(c, "output", "read", t, blocking)
                                 \/ Begin(c, "stop", "check", t, FALSE)
      PROVE  UNCHANGED <<at, status, notifyCh, heard>>
  BY <1>5 DEF CallStep, Begin, ReadContent, ReadDone, StopCheck, StopCancel, StopReturn, CallFrame
<1>6. CASE CancelTurn \/ NextTurn \/ Close \/ UNCHANGED vars
  BY <1>4, <1>6 DEF CancelTurn, NextTurn, Close, vars
<1> QED
  BY <1>1, <1>2, <1>3, <1>4, <1>5, <1>6 DEF Next

\* The agent hears of a task at most once, and what it hears, now or later,
\* is the final status the manager reports for it.
THEOREM NotifiedOnce == Spec => []NotifiedOnceFaithfully
<1>1. Init => FullInv
  BY InitIInv, NotifyingInit DEF FullInv
<1>2. FullInv /\ [Next]_vars => FullInv'
  BY NextIInv, NotifyingNext DEF FullInv
<1>3. FullInv => NotifiedOnceFaithfully
  BY DEF FullInv
<1> QED
  BY <1>1, <1>2, <1>3, PTL DEF Spec

\* Status, channel and notification of a task agree (task/shell_task.go 35-74).
THEOREM StatusIsFaithful == Spec => []StatusFaithful
  BY DoneIsTerminal, KilledIsCancelled, NotifiedOnce, PTL DEF StatusFaithful

\* A final status never changes, whoever cancels or stops the task later.
THEOREM StatusIsSettled == Spec => StatusSettles
<1>1. IInv /\ [Next]_vars =>
        [\A t \in Tasks : status[t] \in Terminal => status'[t] = status[t]]_vars
  <2> SUFFICES ASSUME IInv, Next, NEW u \in Tasks, status[u] \in Terminal
               PROVE  status'[u] = status[u]
    OBVIOUS
  <2> USE DEF IInv
  <2>1. at[u] \in {"notify", "close", "end"}
    BY DEF TypeOK, StatusByPoint, Points, Terminal
  <2>2. ASSUME NEW t \in Tasks, Start(t) \/ Record(t)
        PROVE  status'[u] = status[u]
    BY <2>1, <2>2 DEF Start, Record, TypeOK
  <2>3. ASSUME NEW t \in Tasks, WriteOutput(t) \/ Exit(t) \/ Notify(t) \/ CloseDone(t)
        PROVE  UNCHANGED status
    BY <2>3 DEF WriteOutput, Exit, Notify, CloseDone
  <2>4. ASSUME NEW c \in Callers,
               \/ CallStep(c)
               \/ \E t \in Tasks : \/ \E blocking \in BOOLEAN :
                                         Begin(c, "output", "read", t, blocking)
                                   \/ Begin(c, "stop", "check", t, FALSE)
        PROVE  UNCHANGED status
    BY <2>4 DEF CallStep, Begin, ReadContent, ReadDone, StopCheck, StopCancel, StopReturn,
       CallFrame
  <2>5. CASE Receive \/ CancelTurn \/ NextTurn \/ Close
    BY <2>5 DEF Receive, CancelTurn, NextTurn, Close
  <2> QED
    BY <2>2, <2>3, <2>4, <2>5 DEF Next
<1> QED
  BY <1>1, Inductive, PTL DEF Spec, StatusSettles
=============================================================================
