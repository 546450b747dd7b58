------------------------------- MODULE Workspace -------------------------------
(***************************************************************************)
(* What the tools do to the working trees of a repository: Write and Edit  *)
(* with the snapshots they save, /rewind, Bash in its directory, and the   *)
(* worktree session of EnterWorktree and ExitWorktree, which is a global   *)
(* of the process while the directories belong to the tools, which are     *)
(* built anew for each prompt.  An agent's calls of one answer run first   *)
(* and their results are applied after; the lead's sub-agents run inside   *)
(* one of its calls, with its tools, and its teammates share all of them   *)
(* but the worktree ones.  Each tree has one file, and paths are trees.    *)
(***************************************************************************)
EXTENDS Naturals, Sequences, SequencesExt, FiniteSetsExt

CONSTANTS
  Names,       \* names for worktrees
  Contents,    \* what a file may hold, besides absent and torn
  Plans        \* what a behaviour has one of: whether there is an origin with a default
               \* branch, whether git ignores a file it does not track and worktrees, and
               \* bounds: texts of files, trees besides the main one, commits, snapshots,
               \* prompts, agents inside one another, worktree calls in an answer

absent == "absent"
torn == "torn"                   \* cut short by a write that failed

\* The main tree, the worktrees inside it and those inside one of them (bound:
\* no deeper).  A worktree's branch has its name, wherever it is.
main == << >>
Trees == {main} \cup {<<n>> : n \in Names} \cup {<<m, n>> : m \in Names, n \in Names}
Worktrees == Trees \ {main}
Parent(t) == IF Len(t) = 2 THEN <<t[1]>> ELSE main
Name(t) == t[Len(t)]

ASSUME PlansAssumption ==
  Plans \subseteq [remote : BOOLEAN, ignored : BOOLEAN, texts : SUBSET Contents, trees : SUBSET Worktrees,
                   commits : Nat, saves : Nat, prompts : Nat, agents : Nat \ {0}, calls : Nat]

upstream == 0                    \* the commits origin is ahead by

VARIABLES
  plan,      \* the plan of this behaviour
  wt,        \* wt[t]: "none", a "tree" of git, or a "plain" directory
  head,      \* head[t]: the commits of t's HEAD
  on,        \* on[t]: HEAD is on its "own" branch, on some "other", or "detached"
  branch,    \* branch[n]: the commits of branch worktree-n
  safe,      \* commits of main and of branches with other names
  files,     \* files[t]: the file in t's directory
  tracked,   \* tracked[t]: the same file in HEAD
  made,      \* commits so far
  session,   \* currentWorktreeSession: [tree, base, from, prompt], or one with tree main
  phase,     \* the lead: "idle", "calls", "removing" (in ExitWorktree) or "rewinding"
  depth,     \* agents that run: the lead and sub-agents, one inside the other
  pending,   \* pending[d]: directories in results of the d-th one's answer
  dirs,      \* dirs[p]: directory of the tools of prompt p
  prompts,   \* prompts so far
  mixed,     \* a directory was taken while a result was still to change it
  snaps,     \* the snapshots of the store; their ids are their order
  kept,      \* ids of snapshots in .edoc/snapshots
  writing,   \* calls of Write and Edit that saved: [id, tool, path, text]
  todo,      \* snapshots the rewind has still to restore
  rewound,   \* snapshots it restored
  touched,   \* those of its files that changed since they were restored
  late,      \* work done after the check of a removal
  lost       \* work deleted by a removal without discard_changes

gitVars == <<wt, head, on, branch, safe, tracked, made>>
leadVars == <<session, phase, depth, pending, dirs, prompts, mixed>>
storeVars == <<snaps, kept, writing>>
rewindVars == <<todo, rewound>>
workspaceVars == <<plan, gitVars, files, leadVars, storeVars, rewindVars, touched, late, lost>>

uncommitted == plan.commits + 1    \* counts like a commit when it is lost
Levels == 1 .. plan.agents

NoSession == [tree |-> main, base |-> {}, from |-> main, prompt |-> 0]
InSession == session.tree # main
Exists(t) == wt[t] # "none"

\* The repository git finds in a directory: its own, or the one around it.
Repo(t) ==
  IF wt[t] = "tree" THEN t ELSE IF wt[Parent(t)] = "tree" THEN Parent(t) ELSE main
Inside(t) == {x \in Trees : Exists(x) /\ Repo(x) = Repo(t)}
Nested(t) == {x \in Worktrees : wt[x] = "tree" /\ Parent(x) = t}

\* What git status shows of the files, and all it shows: a worktree inside
\* another one is an untracked directory of it.
Hidden(x) == plan.ignored /\ tracked[x] = absent
Changed(t) == \E x \in Inside(t) : files[x] # tracked[x] /\ ~Hidden(x)
Listed(t) == Changed(t) \/ (~plan.ignored /\ Nested(Repo(t)) # {})

WorkspaceInit ==
  /\ plan \in Plans
  /\ wt = [t \in Trees |-> IF t = main THEN "tree" ELSE "none"]
  /\ head = [t \in Trees |-> {}] /\ on = [t \in Trees |-> "other"]
  /\ branch = [n \in Names |-> {}] /\ safe = {upstream}
  /\ \E c \in plan.texts \cup {absent} : files = [t \in Trees |-> IF t = main THEN c ELSE absent]
  /\ tracked \in {files} \cup (IF plan.ignored THEN {[t \in Trees |-> absent]} ELSE {})
  /\ made = 0
  /\ session = NoSession /\ phase = "idle" /\ depth = 1 /\ pending = [d \in Levels |-> << >>]
  /\ dirs = << >> /\ prompts = 0 /\ mixed = FALSE
  /\ snaps = {} /\ kept = {} /\ writing = {} /\ todo = {} /\ rewound = {}
  /\ touched = {} /\ late = {} /\ lost = {}

\* Work done while a removal is under way is late for its check.
Late(work) == late' = IF phase = "removing" THEN late \cup work ELSE late

\* Files of the last rewind that change, but for those this step restores.
Touched(restored) ==
  touched' = {t \in {s.path : s \in rewound} : t \in touched \/ files'[t] # files[t]} \ restored

-----------------------------------------------------------------------------
(* Write and Edit, of the lead and its teammates at any time, and /rewind. *)

\* MkdirAll makes plain directories where a worktree is no more.
MkdirAll(t) ==
  wt' = [x \in Trees |-> IF wt[x] = "none" /\ x \in {t, Parent(t)} THEN "plain" ELSE wt[x]]

LastId == Max({s.id : s \in snaps} \cup {0})

\* What a file holds becomes a git blob, through the filters of the
\* repository; if git fails there is none, as if the file did not exist.
Blobs(held, how) ==
  IF held = absent \/ how = "failed" THEN {absent}
  ELSE IF how = "filtered" THEN plan.texts \cup {torn} ELSE {held}

\* The record may not get to the disk.  The store is unlocked when Save is over.
Save(t, tool) ==
  /\ dirs # << >> /\ LastId < plan.saves /\ t \in plan.trees \cup {main}
  /\ \E how \in {"exact", "filtered", "failed"} : \E blob \in Blobs(files[t], how) :
       snaps' = snaps \cup {[id |-> LastId + 1, path |-> t, was |-> files[t], how |-> how, blob |-> blob]}
  /\ kept' \in {kept, kept \cup {LastId + 1}}
  /\ writing' = writing \cup {[id |-> LastId + 1, tool |-> tool, path |-> t, text |-> "unread"]}
  /\ UNCHANGED <<plan, gitVars, files, leadVars, rewindVars, touched, late, lost>>

\* An Edit reads the file again; it may not find it, or its string.
EditReads(w) ==
  /\ w \in writing /\ w.tool = "Edit" /\ w.text = "unread" /\ files[w.path] # absent
  /\ writing' = (writing \ {w}) \cup {[w EXCEPT !.text = files[w.path]]}
  /\ UNCHANGED <<plan, gitVars, files, leadVars, snaps, kept, rewindVars, touched, late, lost>>

\* Either writes all of its text or part of it.
Writes(w) ==
  /\ w \in writing /\ (w.tool = "Edit" => w.text # "unread")
  /\ \E c \in (plan.texts \ {w.text}) \cup {torn} : files' = [files EXCEPT ![w.path] = c]
  /\ MkdirAll(w.path)
  /\ writing' = writing \ {w}
  /\ Touched({}) /\ Late({uncommitted})
  /\ UNCHANGED <<plan, head, on, branch, safe, tracked, made, leadVars, snaps, kept, rewindVars, lost>>

\* It fails before it opens its file.
WriteFails(w) ==
  /\ w \in writing /\ writing' = writing \ {w}
  /\ UNCHANGED <<plan, gitVars, files, leadVars, snaps, kept, rewindVars, touched, late, lost>>

\* /rewind n restores the n newest snapshots.  They all stay in the store.
Rewind ==
  /\ phase = "idle"
  /\ \E s \in snaps : todo' = {o \in snaps : o.id >= s.id}
  /\ phase' = "rewinding" /\ rewound' = {} /\ touched' = {}
  /\ UNCHANGED <<plan, gitVars, files, session, depth, pending, dirs, prompts, mixed, storeVars, late, lost>>

\* Restore: a snapshot without a blob removes the file.  It may fail, and leave
\* part of the file.
Restore(s) ==
  /\ \/ /\ files' = [files EXCEPT ![s.path] = s.blob] /\ rewound' = rewound \cup {s}
        /\ Touched({s.path})
     \/ /\ files' \in {files, [files EXCEPT ![s.path] = torn]} /\ UNCHANGED rewound
        /\ Touched({})
  /\ IF files'[s.path] = absent THEN UNCHANGED wt ELSE MkdirAll(s.path)
  /\ todo' = todo \ {s}
  /\ UNCHANGED <<plan, head, on, branch, safe, tracked, made, leadVars, storeVars, late, lost>>

\* Mutant of RestoreNext: the oldest snapshot is restored first.
RestoreOldest ==
  /\ phase = "rewinding"
  /\ \E s \in todo : (\A o \in todo : o.id >= s.id) /\ Restore(s)

\* The newest snapshot is restored first.
RestoreNext ==
  /\ phase = "rewinding"
  /\ \E s \in todo : (\A o \in todo : o.id <= s.id) /\ Restore(s)

RewindEnds ==
  /\ phase = "rewinding" /\ todo = {}
  /\ phase' = "idle"
  /\ UNCHANGED <<plan, gitVars, files, session, depth, pending, dirs, prompts, mixed, storeVars,
                 rewindVars, touched, late, lost>>

-----------------------------------------------------------------------------
(* Bash.                                                                   *)

\* Where the lead's Bash runs, and that of a teammate of any prompt.
BashDir == {t \in ToSet(dirs) : Exists(t)}

BashChange(t) ==
  /\ t \in BashDir
  /\ \E c \in (plan.texts \cup {absent}) \ {files[t]} : files' = [files EXCEPT ![t] = c]
  /\ Touched({}) /\ Late({uncommitted})
  /\ UNCHANGED <<plan, gitVars, leadVars, storeVars, rewindVars, lost>>

\* git commit, of all that changed in the repository.
BashCommit(t) ==
  /\ t \in BashDir /\ Changed(t) /\ made < plan.commits
  /\ made' = made + 1
  /\ head' = [head EXCEPT ![Repo(t)] = @ \cup {made'}]
  /\ branch' = [n \in Names |-> IF Repo(t) # main /\ n = Name(Repo(t)) /\ on[Repo(t)] = "own"
                                THEN head'[Repo(t)] ELSE branch[n]]
  /\ safe' = IF on[Repo(t)] = "other" THEN safe \cup {made'} ELSE safe
  /\ tracked' = [x \in Trees |-> IF x \in Inside(t) /\ ~Hidden(x) THEN files[x] ELSE tracked[x]]
  /\ Late({made'})
  /\ UNCHANGED <<plan, wt, on, files, leadVars, storeVars, rewindVars, touched, lost>>

\* Git checks a branch out in one tree only.
Free(n) == \A x \in Worktrees : wt[x] = "tree" /\ Name(x) = n => on[x] # "own"

\* git checkout in a worktree, of its branch or of an older commit, with or
\* without a new branch there.  The commits that HEAD gets are work, too.
BashCheckout(t) ==
  /\ t \in BashDir /\ Repo(t) # main /\ made > 0
  /\ \/ /\ Free(Name(Repo(t)))
        /\ head' = [head EXCEPT ![Repo(t)] = branch[Name(Repo(t))]] /\ on' = [on EXCEPT ![Repo(t)] = "own"]
        /\ UNCHANGED safe
     \/ \E last \in 0 .. made, where \in {"detached", "other"} :
          /\ head' = [head EXCEPT ![Repo(t)] = {c \in @ : c <= last}] /\ on' = [on EXCEPT ![Repo(t)] = where]
          /\ safe' = IF where = "other" THEN safe \cup head'[Repo(t)] ELSE safe
  /\ \/ UNCHANGED <<files, tracked>>
     \/ /\ files[Repo(t)] = tracked[Repo(t)]
        /\ \E c \in plan.texts \cup {absent} :
             files' = [files EXCEPT ![Repo(t)] = c] /\ tracked' = [tracked EXCEPT ![Repo(t)] = c]
  /\ Touched({}) /\ Late(head'[Repo(t)])
  /\ UNCHANGED <<plan, wt, branch, made, leadVars, storeVars, rewindVars, lost>>

\* The user merges a worktree's branch.
Merge(n) ==
  /\ phase = "idle" /\ ~ branch[n] \subseteq head[main]
  /\ head' = [head EXCEPT ![main] = @ \cup branch[n]] /\ safe' = safe \cup branch[n]
  /\ UNCHANGED <<plan, wt, on, branch, files, tracked, made, leadVars, storeVars, rewindVars,
                 touched, late, lost>>

-----------------------------------------------------------------------------
(* The worktree session, of the innermost agent.                           *)

Dir == dirs[Len(dirs)]

\* A call whose result will change the directory.
Calls == phase = "calls" /\ Len(pending[depth]) < plan.calls
Answers(t) == pending' = [pending EXCEPT ![depth] = Append(@, t)]

\* The tools of an Enter have the directory of the results applied so far,
\* and the name is one for their repository.
Target(n) == Append(Repo(Dir), n)
MayEnter(n) == Calls /\ ~InSession /\ Exists(Dir) /\ Target(n) \in plan.trees

Enters(n, base) ==
  /\ session' = [tree |-> Target(n), base |-> base, from |-> Dir, prompt |-> prompts]
  /\ Answers(Target(n))
  /\ mixed' = (mixed \/ \E d \in Levels : pending[d] # << >>)
  /\ late' = {}
  /\ UNCHANGED <<plan, phase, depth, dirs, prompts, storeVars, rewindVars, lost>>

\* A directory of that name in which git answers is resumed; its HEAD is the
\* base of what will count as work.
EnterResumes(n) ==
  /\ MayEnter(n) /\ Exists(Target(n))
  /\ Enters(n, head[Repo(Target(n))])
  /\ UNCHANGED <<gitVars, files, touched>>

\* git worktree add -B, from origin's default branch if there is one; the
\* base is the HEAD of the repository around.
EnterCreates(n) ==
  /\ MayEnter(n) /\ ~Exists(Target(n)) /\ Free(n)
  /\ Enters(n, head[Repo(Dir)])
  /\ wt' = [wt EXCEPT ![Target(n)] = "tree"]
  /\ head' = [head EXCEPT ![Target(n)] = IF plan.remote THEN {upstream} ELSE head[Repo(Dir)]]
  /\ on' = [on EXCEPT ![Target(n)] = "own"]
  /\ branch' = [branch EXCEPT ![n] = head'[Target(n)]]
  /\ files' = [files EXCEPT ![Target(n)] = tracked[Repo(Dir)]]
  /\ tracked' = [tracked EXCEPT ![Target(n)] = tracked[Repo(Dir)]]
  /\ Touched({})
  /\ UNCHANGED <<safe, made>>

\* Mutant of Leaves: the session outlives its worktree.
LeavesOpen ==
  /\ Answers(session.from) /\ UNCHANGED <<session, mixed>>
  /\ UNCHANGED <<plan, depth, dirs, prompts, storeVars, rewindVars, late>>

\* Each way out ends the session and brings the tools back to where they were.
Leaves ==
  /\ session' = NoSession
  /\ Answers(session.from)
  /\ mixed' = (mixed \/ \E d \in Levels : d < depth /\ pending[d] # << >>)
  /\ UNCHANGED <<plan, depth, dirs, prompts, storeVars, rewindVars, late>>

ExitKeep ==
  /\ Calls /\ InSession
  /\ Leaves
  /\ UNCHANGED <<gitVars, files, phase, touched, lost>>

\* Mutant of ExitCheck: only commits are counted.
ExitCheckCommits ==
  /\ Calls /\ InSession
  /\ head[Repo(session.tree)] \subseteq session.base
  /\ phase' = "removing"
  /\ UNCHANGED <<plan, gitVars, files, session, depth, pending, dirs, prompts, mixed, storeVars,
                 rewindVars, touched, late, lost>>

\* countWorktreeChanges: git status lists nothing, and HEAD has no commit since
\* the base.  Otherwise the removal is refused.
ExitCheck ==
  /\ Calls /\ InSession
  /\ ~Listed(session.tree) /\ head[Repo(session.tree)] \subseteq session.base
  /\ phase' = "removing"
  /\ UNCHANGED <<plan, gitVars, files, session, depth, pending, dirs, prompts, mixed, storeVars,
                 rewindVars, touched, late, lost>>

\* git worktree remove --force, which takes the directory with all that is in
\* it, and git branch -D of the worktree's name, wherever HEAD is: git deletes no
\* branch that is checked out.  Either may fail, and neither is looked at.
Doomed(t) == {x \in Worktrees : x = t \/ Parent(x) = t}
RemovesDir(t) ==
  /\ wt[t] = "tree" /\ Exists(session.from)
  /\ wt' = [x \in Trees |-> IF x \in Doomed(t) THEN "none" ELSE wt[x]]
  /\ head' = [x \in Trees |-> IF x \in Doomed(t) THEN {} ELSE head[x]]
  /\ files' = [x \in Trees |-> IF x \in Doomed(t) THEN absent ELSE files[x]]
  /\ tracked' = [x \in Trees |-> IF x \in Doomed(t) THEN absent ELSE tracked[x]]
DeletesBranch(t) ==
  /\ \A x \in Worktrees : wt'[x] = "tree" /\ Name(x) = Name(t) => on[x] # "own"
  /\ branch' = [branch EXCEPT ![Name(t)] = {}]
Removes(t) ==
  /\ RemovesDir(t) \/ UNCHANGED <<wt, head, files, tracked>>
  /\ DeletesBranch(t) \/ UNCHANGED branch
  /\ Touched({})
  /\ UNCHANGED <<on, safe, made>>

\* The commits some branch or HEAD still has, and what else goes with a tree.
Reachable ==
  safe \cup (UNION {branch[n] : n \in Names}) \cup (UNION {head[t] : t \in Trees})
Loses(t) ==
  lost' = lost \cup (Reachable \ Reachable')
               \cup {w \in {uncommitted} : wt' # wt /\ \E x \in Doomed(t) : files[x] # tracked[x]}

ExitRemove ==
  /\ phase = "removing" /\ phase' = "calls"
  /\ Removes(session.tree) /\ Leaves /\ Loses(session.tree)

\* discard_changes: no check.
ExitDiscard ==
  /\ Calls /\ InSession
  /\ Removes(session.tree) /\ Leaves
  /\ UNCHANGED <<phase, lost>>

-----------------------------------------------------------------------------
(* The agents and their process.                                           *)

\* A prompt of the REPL: new tools, in the directory of the REPL.
Prompt ==
  /\ phase = "idle" /\ prompts < plan.prompts
  /\ phase' = "calls" /\ prompts' = prompts + 1 /\ dirs' = Append(dirs, main)
  /\ mixed' = (mixed /\ InSession)
  /\ UNCHANGED <<plan, gitVars, files, session, depth, pending, storeVars, rewindVars, touched, late, lost>>

\* A call of Agent: a sub-agent with the same tools.
Delegates ==
  /\ phase = "calls" /\ depth < plan.agents
  /\ depth' = depth + 1
  /\ UNCHANGED <<plan, gitVars, files, session, phase, pending, dirs, prompts, mixed, storeVars,
                 rewindVars, touched, late, lost>>

\* Mutant of Results: the first of several results decides.
ResultsFirst ==
  /\ phase = "calls" /\ pending[depth] # << >>
  /\ dirs' = [dirs EXCEPT ![Len(dirs)] = Head(pending[depth])]
  /\ pending' = [pending EXCEPT ![depth] = << >>]
  /\ UNCHANGED <<plan, gitVars, files, session, phase, depth, prompts, mixed, storeVars,
                 rewindVars, touched, late, lost>>

\* The loop of an agent applies the results of its answer in their order.
Results ==
  /\ phase = "calls" /\ pending[depth] # << >>
  /\ dirs' = [dirs EXCEPT ![Len(dirs)] = Last(pending[depth])]
  /\ pending' = [pending EXCEPT ![depth] = << >>]
  /\ UNCHANGED <<plan, gitVars, files, session, phase, depth, prompts, mixed, storeVars,
                 rewindVars, touched, late, lost>>

\* The innermost run ends: a sub-agent's, or the lead's.
EndRun ==
  /\ phase = "calls" /\ pending[depth] = << >>
  /\ IF depth > 1 THEN depth' = depth - 1 /\ UNCHANGED phase
     ELSE phase' = "idle" /\ UNCHANGED depth
  /\ UNCHANGED <<plan, gitVars, files, session, pending, dirs, prompts, mixed, storeVars,
                 rewindVars, touched, late, lost>>

\* The process ends and starts again: the session is gone, the store loads
\* what is on disk and counts on from its largest id.
Restart ==
  /\ dirs # << >>
  /\ session' = NoSession /\ phase' = "idle" /\ depth' = 1 /\ dirs' = << >> /\ mixed' = FALSE
  /\ pending' = [d \in Levels |-> << >>]
  /\ snaps' = {s \in snaps : s.id \in kept}
  /\ writing' = {} /\ todo' = {} /\ rewound' = {}
  /\ touched' = {}
  /\ UNCHANGED <<plan, gitVars, files, prompts, kept, late, lost>>

WorkspaceNext ==
  \/ \E t \in Trees : \/ \E tool \in {"Write", "Edit"} : Save(t, tool)
                      \/ BashChange(t) \/ BashCommit(t) \/ BashCheckout(t)
  \/ \E w \in writing : EditReads(w) \/ Writes(w) \/ WriteFails(w)
  \/ \E n \in Names : Merge(n) \/ EnterResumes(n) \/ EnterCreates(n)
  \/ ExitKeep \/ ExitCheck \/ ExitRemove \/ ExitDiscard
  \/ Rewind \/ RestoreNext \/ RewindEnds
  \/ Prompt \/ Delegates \/ Results \/ EndRun \/ Restart

WorkspaceSpec == WorkspaceInit /\ [][WorkspaceNext]_workspaceVars

-----------------------------------------------------------------------------
(* Properties.                                                             *)

\* The shape of the state; the directory of a session is there, and ids name
\* one snapshot each, through restarts that lose some of them.
WorkspaceTypeOK ==
  /\ plan \in Plans /\ made \in 0 .. plan.commits
  /\ wt \in [Trees -> {"none", "tree", "plain"}] /\ on \in [Trees -> {"own", "other", "detached"}]
  /\ (UNION {head[t] : t \in Trees}) \cup (UNION {branch[n] : n \in Names}) \cup safe \subseteq upstream .. made
  /\ {files[t] : t \in Trees} \cup {tracked[t] : t \in Trees} \subseteq Contents \cup {absent, torn}
  /\ session.tree \in Trees /\ session.from \in Trees /\ Exists(session.tree)
  /\ phase \in {"idle", "calls", "removing", "rewinding"} /\ depth \in Levels
  /\ ToSet(dirs) \cup (UNION {ToSet(pending[d]) : d \in Levels}) \subseteq Trees
  /\ \A s, o \in snaps : s.id = o.id => s = o
  /\ rewound \cap todo = {} /\ late \cup lost \subseteq upstream .. uncommitted

\* "Restore: restore the file to its state at the time of the snapshot"
\* (snapshot.go): while and after a rewind, whichever of its restores failed
\* and whatever was written in between, a file it restored, and nobody changed
\* since, is what it was when the oldest of its snapshots that was restored was
\* saved, unless git could not store it or a filter changed it.
RewindRestores ==
  \A s \in rewound :
    (\A o \in rewound : o.path = s.path => s.id <= o.id)
      /\ s.path \notin touched /\ (s.how = "exact" \/ s.was = absent)
    => files[s.path] = s.was

\* What the check of a removal cannot see: commits of the branch that HEAD is
\* not on, what git ignores, and worktrees in a directory it ignores.
Unseen(t) ==
  (branch[Name(t)] \ head[Repo(t)])
    \cup {work \in {uncommitted} : \E x \in Doomed(t) : Hidden(x)}
    \cup (IF plan.ignored /\ Nested(t) # {}
          THEN {uncommitted} \cup (UNION {head[x] : x \in Nested(t)}) ELSE {})

\* A removal without discard_changes, of a worktree or one inside another,
\* deletes no commit on its HEAD and nothing git status lists that is the
\* session's own, however Bash, Write and Edit came between, except what came
\* after the check.
SessionWorkKept ==
  [][\A work \in lost' \ lost :
       work \in late \cup session.base \cup Unseen(session.tree)]_workspaceVars

\* When all results are applied, Bash is where the session says it is: in the
\* worktree, if this prompt entered it, and in the main tree without a session.
\* The exceptions are a session entered in an answer, of the agent or of one it
\* works for, that has a directory still to apply, and one that a sub-agent
\* leaves in such an answer of another.
BashFollows ==
  dirs # << >> /\ (\A d \in Levels : pending[d] = << >>) /\ ~mixed =>
    /\ ~InSession => Dir = main
    /\ InSession /\ session.prompt = prompts => Dir = session.tree

\* "discard_changes: required true when removing a worktree with uncommitted
\* files or unmerged commits" (worktree.go): without it, what a removal is about
\* to delete came after its check.
RemovalChecked ==
  phase = "removing" =>
    /\ head[Repo(session.tree)] \subseteq safe \cup head[main] \cup late
    /\ Changed(session.tree) => uncommitted \in late
=============================================================================
