---------------------------- MODULE GitWorkspaces ----------------------------
(***************************************************************************)
(* One project's repository: its primary checkout, its worktrees, its      *)
(* branches and its stash, the conversations that work in them, and the    *)
(* Git operations of the web server, one at a time (repository admission). *)
(* The agents use Git too, whenever their turn runs, and ask nobody.       *)
(*                                                                         *)
(* A step of an operation is its code between two Git commands, or one Git *)
(* command; what happens between a check and the command it guards is      *)
(* therefore any agent's move.  Branches and workspaces hold sets of work; *)
(* other people's commits are left out.                                    *)
(***************************************************************************)
EXTENDS Naturals, Sequences

CONSTANTS
    Session, NoSession,
    Checkout,   \* the primary checkout, and the primary branch
    Branch,     \* the other branches; a worktree is named for its first branch
    Gone,       \* no worktree there
    Feature,    \* the branch that starts with a worktree
    Moved,      \* the conversations that start there
    Early,      \* the conversations that start in the checkout
    MaxWork,    \* bound: pieces of work and faults together
    MaxOps,     \* bound: operations of the server, and conversations forked
    MaxTurns,   \* bound: turns
    MaxFaults   \* bound: failing commands and restarts

ASSUME GitAssumption ==
    /\ Checkout \notin Branch /\ Gone \notin Branch \cup {Checkout} /\ NoSession \notin Session
    /\ Feature \in Branch /\ Moved \subseteq Session /\ Early \subseteq Session \ Moved
    /\ {MaxWork, MaxOps, MaxTurns, MaxFaults} \subseteq Nat

Main == Checkout
Path == Branch \cup {Checkout}
Work == 1..MaxWork
NoBranch == {0}

VARIABLES
    at,         \* the branch checked out in each workspace, or Gone
    tip,        \* the work each branch has, or NoBranch
    dirty,      \* the uncommitted work of each workspace
    stash,      \* the stash, shared by all workspaces: the latest first
    home,       \* the workspace of each conversation, or Gone: not open
    forking,    \* the workspace each conversation is being forked into, or Gone
    running,    \* the conversations in a turn
    synced,     \* the conversations that are synchronized
    op,         \* the admitted operation
    answer,     \* how the last operation ended
    made,       \* number of pieces of work made
    asked,      \* number of requests so far
    turns,      \* number of turns so far
    faults,     \* number of faults so far
    given,      \* history: work the user agreed to lose
    late,       \* history: work merged into its own branch, or committed there after the
                \* merge, or stashed by an agent during a fork
    strays      \* history: conversations whose fork found its workspace on the way out or gone

git == <<at, tip, dirty, stash>>
history == <<given, late, strays>>
vars == <<git, home, forking, running, synced, op, answer, made, asked, turns, faults, history>>

NoOp == [kind |-> "none"]
Operations == [kind : {"merge", "delete", "create", "move", "switch", "fork", "remote"},
    by : Session \cup {NoSession},
    path : Path \cup {Gone},    \* the workspace it removes, forks from or moves to
    from : Path \cup {Gone},    \* the workspace of the conversation that asked
    branch : Branch \cup {Main},
    step : {"prepare", "switching", "fetch", "merge", "merging", "gather", "rehome", "remove", "removing",
            "delete", "deleting", "add", "adding", "settle", "stash", "ref", "branch", "apply", "restore",
            "list", "drop", "child", "cleanup", "quit", "remote"},
    moving : SUBSET Session,    \* conversations still to be moved
    force : BOOLEAN, failed : BOOLEAN,
    done : BOOLEAN,         \* merge: the branch is merged; fork: the worktree is added
    had : SUBSET Work,      \* fork: the uncommitted work of the parent
    ref : SUBSET Work,      \* fork: the stash entry it believes its own
    index : Nat,            \* fork: where it found that entry in the stash
    raced : BOOLEAN]        \* fork: see Races

TypeOK ==
    /\ at \in [Path -> Branch \cup {Main, Gone}] /\ at[Checkout] # Gone
    /\ tip \in [Branch \cup {Main} -> (SUBSET Work) \cup {NoBranch}]
    /\ \A p \in Path : at[p] # Gone => tip[at[p]] # NoBranch
    /\ dirty \in [Path -> SUBSET Work] /\ stash \in Seq(SUBSET Work)
    /\ home \in [Session -> Path \cup {Gone}] /\ forking \in [Session -> Path \cup {Gone}]
    /\ running \subseteq Session /\ synced \subseteq Session
    /\ op \in Operations \cup {NoOp} /\ answer \in {"none", "ok", "failed", "kept"}
    /\ made \in 0..MaxWork /\ asked \in 0..MaxOps /\ turns \in 0..MaxTurns /\ faults \in 0..MaxFaults
    /\ given \subseteq Work /\ late \subseteq Work /\ strays \subseteq Session

Init ==
    /\ at = [p \in Path |-> IF p \in {Checkout, Feature} THEN p ELSE Gone]
    /\ \E B \in SUBSET Branch : tip = [b \in Branch \cup {Main} |-> IF b \in {Main, Feature} \cup B THEN {} ELSE NoBranch]
    /\ made \in {0, 1} \cap 0..MaxWork
    /\ dirty = [p \in Path |-> IF p = Feature THEN 1..made ELSE {}] /\ stash = <<>>
    /\ home = [s \in Session |-> IF s \in Moved THEN Feature ELSE IF s \in Early THEN Checkout ELSE Gone]
    /\ forking = [s \in Session |-> Gone] /\ running = {} /\ synced \in {{}, Early}
    /\ op = NoOp /\ answer = "none" /\ asked = 0 /\ turns = 0 /\ faults = 0
    /\ given = {} /\ late = {} /\ strays = {}

Fault == faults < MaxFaults /\ made + faults < MaxWork /\ faults' = faults + 1
Works == UNCHANGED faults
budget == <<asked, turns>>

(***************************************************************************)
(* What the operations ask about workspaces and conversations.             *)
(***************************************************************************)
At(p) == {s \in Session : p # Gone /\ home[s] = p}      \* sessionsUsingWorkspace
Where(b) == {p \in Path : at[p] = b}
Exists(b) == tip[b] # NoBranch
Idle(S) == S \cap running = {}
Local(S) == S \cap synced = {}

Is(kinds, step) == op # NoOp /\ op.kind \in kinds /\ op.step = step
Go(step) == op' = [op EXCEPT !.step = step] /\ UNCHANGED answer
End(how) == op' = NoOp /\ answer' = how
Steady == UNCHANGED <<git, home, forking, running, synced, made, history>>
\* A check that fails ends the operation.
Check(holds, step) == IF holds THEN Go(step) ELSE End("failed")

\* withRepositoryAdmission
Admitted == op = NoOp
Start(kind, s, path, branch, step) ==
    /\ Admitted /\ answer' = "none"
    /\ op' = [kind |-> kind, by |-> s, path |-> path, from |-> IF s = NoSession THEN Gone ELSE home[s],
              branch |-> branch, step |-> step, moving |-> {}, force |-> FALSE, done |-> FALSE,
              failed |-> FALSE, had |-> {}, ref |-> {}, index |-> 0, raced |-> FALSE]

\* validateMerge
MergeValid ==
    /\ dirty[op.path] = {} /\ dirty[Checkout] = {}
    /\ Idle(At(op.path) \cup At(Checkout)) /\ Local(At(op.path) \cup At(Checkout))
    /\ home[op.by] = op.path

\* validateDeletion, which also stops the turns in the checkout that it will switch.
DeleteValid ==
    /\ op.path # Gone => /\ dirty[op.path] = {} \/ (op.force /\ op.path # Checkout)
                         /\ Local(At(op.path))
    /\ at[Checkout] # Main => /\ Local(At(Checkout)) /\ dirty[Checkout] = {}
                              /\ Idle(At(Checkout)) \/ op.path = Checkout
Stopped == IF op.kind = "delete" /\ at[Checkout] # Main THEN running \ At(Checkout) ELSE running

Valid == CASE op.kind = "merge" -> MergeValid [] op.kind = "delete" -> DeleteValid [] OTHER -> TRUE

(***************************************************************************)
(* prepareMainAsync: the checkout is put on the primary branch.            *)
(***************************************************************************)
AfterMain == CASE op.kind = "merge" -> "fetch"
               [] op.kind = "delete" -> "gather"
               [] op.branch = Main -> "settle"
               [] OTHER -> "fetch"

Prepare ==
    /\ op # NoOp /\ op.step = "prepare" /\ Works
    /\ IF at[Checkout] = Main
       THEN Check(Where(Main) = {Checkout}, AfterMain) /\ UNCHANGED running
       ELSE /\ Check(Where(Main) = {} /\ dirty[Checkout] = {} /\ Valid, "switching")
            /\ running' = IF Valid THEN Stopped ELSE running
    /\ UNCHANGED <<git, home, synced, made, history>>

\* git switch refuses a branch that another workspace has checked out.
CanSwitch(p, b) == Where(b) \subseteq {p} /\ Exists(b) /\ at[p] # Gone

Target == IF op.kind = "switch" THEN op.branch ELSE Main
Switching ==
    /\ op # NoOp /\ op.step = "switching"
    /\ LET p == IF op.kind = "switch" THEN op.path ELSE Checkout
       IN \/ /\ Works /\ CanSwitch(p, Target) /\ at' = [at EXCEPT ![p] = Target]
             /\ IF op.kind # "switch" THEN Go(AfterMain) ELSE IF p = op.from THEN End("ok") ELSE Go("settle")
          \/ UNCHANGED at /\ End("failed") /\ ((~CanSwitch(p, Target) /\ Works) \/ Fault)
    /\ UNCHANGED <<tip, dirty, stash, home, running, synced, made, history>>

\* git fetch, and the fast-forward of the primary branch.
Fetch ==
    /\ op # NoOp /\ op.step = "fetch"
    /\ \/ Works /\ Check(dirty[Checkout] = {} /\ Valid, IF op.kind = "merge" THEN "merge" ELSE "add")
       \/ Fault /\ End("failed")
    /\ Steady

(***************************************************************************)
(* POST /sessions/:id/merge-local and DELETE /projects/:id/branches/:branch *)
(***************************************************************************)
MergeAsked(s) ==
    /\ home[s] # Gone /\ at[home[s]] \notin {Gone, Main}
    /\ Start("merge", s, home[s], at[home[s]], "prepare")
    /\ dirty[home[s]] = {} /\ dirty[Checkout] = {}
    /\ Idle(At(home[s]) \cup At(Checkout)) /\ Local(At(home[s]))
    /\ Works /\ Steady

DeleteAsked(b, force) ==
    /\ Admitted /\ Exists(b) /\ answer' = "none"
    /\ LET p == CHOOSE q \in Path \cup {Gone} : IF Where(b) = {} THEN q = Gone ELSE q \in Where(b)
       IN /\ p # Gone => Local(At(p)) /\ (dirty[p] = {} \/ (force /\ p # Checkout))
          /\ op' = [kind |-> "delete", by |-> NoSession, path |-> p, from |-> Gone, branch |-> b,
                    step |-> "prepare", moving |-> {}, force |-> force, done |-> FALSE, failed |-> FALSE,
                    had |-> {}, ref |-> {}, index |-> 0, raced |-> FALSE]
    /\ Works /\ Steady

\* The checkout's branch is not looked at again.
Merge == Is({"merge"}, "merge") /\ Works /\ Check(Valid, "merging") /\ Steady

\* git merge --no-ff, into whatever the checkout is on; aborted if it fails.
Merging ==
    /\ Is({"merge"}, "merging")
    /\ \/ /\ Works /\ tip' = [tip EXCEPT ![at[Checkout]] = @ \cup tip[op.branch]]
          /\ op' = [op EXCEPT !.step = "gather", !.done = TRUE] /\ UNCHANGED answer
          /\ late' = IF at[Checkout] = op.branch THEN late \cup tip[op.branch] ELSE late
       \/ Fault /\ End("failed") /\ UNCHANGED <<tip, late>>
    /\ UNCHANGED <<at, dirty, stash, home, running, synced, made, given, strays>>

\* The conversations of the workspace, listed once more before they are moved.
Gather ==
    /\ Is({"merge", "delete"}, "gather") /\ Works
    /\ LET S == At(op.path)
       IN IF (IF op.kind = "merge" THEN Local(S) /\ Idle(S) ELSE DeleteValid)
          THEN op' = [op EXCEPT !.step = "rehome", !.moving = S] /\ UNCHANGED answer
          ELSE End("failed")
    /\ running' = IF op.kind = "delete" /\ DeleteValid THEN Stopped ELSE running
    /\ UNCHANGED <<git, home, synced, made, history>>

\* rehome and bindRehomedSession, for one of them; closing it is an option of delete.
Rehome(s) ==
    /\ Is({"merge", "delete"}, "rehome") /\ Works /\ s \in op.moving
    /\ IF home[s] = op.path /\ ~(Local({s}) /\ (op.kind = "merge" => Idle({s})))
       THEN End("failed") /\ UNCHANGED <<home, running>>
       ELSE /\ op' = [op EXCEPT !.moving = @ \ {s}] /\ UNCHANGED answer
            /\ IF home[s] # op.path THEN UNCHANGED <<home, running>>
               ELSE /\ running' = running \ {s}
                    /\ \E p \in IF op.kind = "delete" THEN {Checkout, Gone} ELSE {Checkout} : home' = [home EXCEPT ![s] = p]
    /\ UNCHANGED <<git, synced, made, history>>
Rehomed == Is({"merge", "delete"}, "rehome") /\ op.moving = {} /\ Works /\ Go("remove") /\ Steady

\* validateCleanup
Vacated == op.path \notin {Gone, Checkout} => At(op.path) = {}

\* removeWorkspaceAsync
Remove ==
    /\ Is({"merge", "delete"}, "remove") /\ Works
    /\ IF op.path \in {Gone, Checkout} THEN Go("delete")
       ELSE Check(at[op.path] \notin {Main, Gone} /\ (op.force \/ dirty[op.path] = {}) /\ Vacated, "removing")
    /\ Steady

\* Mutant: git is always told to force.
CanRemoveForced(p, force) == at[p] # Gone
CanRemove(p, force) == at[p] # Gone /\ (force \/ dirty[p] = {})
\* git worktree remove, which itself refuses a worktree with uncommitted work.
Removing ==
    /\ Is({"merge", "delete"}, "removing")
    /\ \/ /\ Works /\ CanRemove(op.path, op.force) /\ Go("delete")
          /\ at' = [at EXCEPT ![op.path] = Gone] /\ dirty' = [dirty EXCEPT ![op.path] = {}]
          /\ given' = IF op.force THEN given \cup dirty[op.path] ELSE given
       \/ UNCHANGED <<at, dirty, given>> /\ End("failed") /\ ((~CanRemove(op.path, op.force) /\ Works) \/ Fault)
    /\ UNCHANGED <<tip, stash, home, running, synced, made, late, strays>>

Delete == Is({"merge", "delete"}, "delete") /\ Works /\ Check(Vacated, "deleting") /\ Steady

\* Mutant: the reference is deleted without asking git branch.
CanDeleteBranchAny(b) == Exists(b)
CanDeleteBranch(b) == Exists(b) /\ Where(b) = {}
\* git branch -D, merged or not; it refuses a branch that is checked out.
Deleting ==
    /\ Is({"merge", "delete"}, "deleting")
    /\ \/ /\ Works /\ CanDeleteBranch(op.branch) /\ End("ok")
          /\ tip' = [tip EXCEPT ![op.branch] = NoBranch]
          /\ given' = IF op.kind = "delete" THEN given \cup tip[op.branch] ELSE given
       \/ UNCHANGED <<tip, given>> /\ End("failed") /\ ((~CanDeleteBranch(op.branch) /\ Works) \/ Fault)
    /\ UNCHANGED <<at, dirty, stash, home, running, synced, made, late, strays>>

(***************************************************************************)
(* A conversation is created on a branch, moved to one, or its workspace   *)
(* is switched to one.                                                     *)
(***************************************************************************)
\* ensureBranchContext
FirstStep(b) == IF b = Main THEN "prepare"
                ELSE IF Where(b) # {} THEN "add"
                ELSE IF Exists(b) THEN "add" ELSE "prepare"

\* POST /projects/:id/sessions
CreateAsked(s, b) ==
    /\ home[s] = Gone /\ forking[s] = Gone /\ Start("create", s, Checkout, b, FirstStep(b)) /\ Works /\ Steady

\* POST /sessions/:id/branch-context and /worktree
MoveAsked(s, b) ==
    /\ home[s] # Gone /\ at[home[s]] # b /\ Idle({s})
    /\ Start("move", s, Checkout, b, FirstStep(b)) /\ Works /\ Steady

\* ensureWorkspaceAsync: a workspace that has the branch is used as it is.
Add ==
    /\ Is({"create", "move"}, "add") /\ Works /\ UNCHANGED answer
    /\ op' = IF Where(op.branch) = {} THEN [op EXCEPT !.path = op.branch, !.step = "adding"]
             ELSE [op EXCEPT !.path = CHOOSE p \in Where(op.branch) : TRUE, !.step = "settle"]
    /\ Steady

CanAdd(b) == at[b] = Gone /\ Where(b) = {}
\* git worktree add
Adding ==
    /\ Is({"create", "move"}, "adding")
    /\ \/ /\ Works /\ CanAdd(op.branch) /\ Go("settle")
          /\ at' = [at EXCEPT ![op.branch] = op.branch]
          /\ tip' = [tip EXCEPT ![op.branch] = IF @ = NoBranch THEN tip[Main] ELSE @]
       \/ UNCHANGED <<at, tip>> /\ End("failed") /\ ((~CanAdd(op.branch) /\ Works) \/ Fault)
    /\ UNCHANGED <<dirty, stash, home, running, synced, made, history>>

\* createSession, or rehome of an idle conversation that is still where it was.
Settle ==
    /\ Is({"create", "move", "switch"}, "settle") /\ Works
    /\ IF op.kind # "create" => home[op.by] = op.from /\ Idle({op.by})
       THEN home' = [home EXCEPT ![op.by] = op.path] /\ End("ok")
       ELSE End("failed") /\ UNCHANGED home
    /\ UNCHANGED <<git, running, synced, made, history>>

\* POST /sessions/:id/switch: the workspace itself is switched; to the primary
\* branch only the checkout is, and the conversation moves there.
SwitchAsked(s, b) ==
    /\ home[s] # Gone /\ at[home[s]] \notin {Gone, b}
    /\ LET p == IF b = Main THEN Checkout ELSE home[s]
       IN /\ Exists(b) /\ Where(b) \subseteq {p}
          /\ Start("switch", s, p, b, IF at[p] = b THEN "settle" ELSE "switching")
          /\ at[p] # b => dirty[p] = {} /\ Local(At(p) \ {s}) /\ Idle(At(p))
    /\ Idle({s}) /\ Works /\ Steady

(***************************************************************************)
(* forkWorkspaceAsync: a new branch and worktree that get the parent's     *)
(* uncommitted work by way of the stash, which gives it back to the parent. *)
(***************************************************************************)
ForkAsked(s, c, b) ==
    /\ home[s] # Gone /\ at[home[s]] # Gone /\ ~Exists(b) /\ c \in Session /\ home[c] = Gone /\ forking[c] = Gone
    /\ Idle({s}) /\ (dirty[home[s]] # {} => home[s] # Checkout)
    /\ Admitted /\ answer' = "none"
    /\ op' = [kind |-> "fork", by |-> s, path |-> home[s], from |-> home[s], branch |-> b,
              step |-> IF dirty[home[s]] = {} THEN "branch" ELSE "stash", moving |-> {c}, force |-> FALSE,
              done |-> FALSE, failed |-> FALSE, had |-> dirty[home[s]], ref |-> {}, index |-> 0, raced |-> FALSE]
    /\ Works /\ Steady

\* validateSource
SourceValid ==
    /\ Local(At(op.path) \ {op.by}) /\ home[op.by] = op.path
    /\ Idle(At(op.path) \cup {op.by})

\* git stash push, which keeps nothing of a clean workspace.
StashPush ==
    /\ Is({"fork"}, "stash") /\ Works
    /\ IF SourceValid
       THEN /\ op' = [op EXCEPT !.step = "ref", !.had = dirty[op.path]] /\ UNCHANGED answer
            /\ stash' = IF dirty[op.path] = {} THEN stash ELSE <<dirty[op.path]>> \o stash
            /\ dirty' = [dirty EXCEPT ![op.path] = {}]
       ELSE End("failed") /\ UNCHANGED <<stash, dirty>>
    /\ UNCHANGED <<at, tip, home, running, synced, made, history>>

\* git rev-parse refs/stash: the latest entry, whoever made it.
StashRef ==
    /\ Is({"fork"}, "ref") /\ Works
    /\ IF stash = <<>> THEN End("failed")
       ELSE op' = [op EXCEPT !.step = "branch", !.ref = Head(stash)] /\ UNCHANGED answer
    /\ Steady

\* What follows a failure: the stash, if there is one, goes back to the parent.
Undo == IF op.ref = {} THEN End("failed")
        ELSE op' = [op EXCEPT !.step = "restore", !.failed = TRUE] /\ UNCHANGED answer

\* git worktree add -b, at the commit of the parent
AddFork ==
    /\ Is({"fork"}, "branch")
    /\ LET can == SourceValid /\ CanAdd(op.branch) /\ ~Exists(op.branch) /\ at[op.path] # Gone
       IN \/ /\ Works /\ can
             /\ at' = [at EXCEPT ![op.branch] = op.branch]
             /\ tip' = [tip EXCEPT ![op.branch] = tip[at[op.path]]]
             /\ op' = [op EXCEPT !.done = TRUE, !.step = IF op.ref = {} THEN "child" ELSE "apply"]
             /\ UNCHANGED answer
          \/ UNCHANGED <<at, tip>> /\ Undo /\ ((~can /\ Works) \/ Fault)
    /\ UNCHANGED <<dirty, stash, home, running, synced, made, history>>

\* Mutant: what the failure of the new worktree is followed by is the cleanup.
FailedApplyCleansUp == op' = [op EXCEPT !.step = "cleanup", !.failed = TRUE] /\ UNCHANGED answer
FailedApply == Undo
\* git stash apply, in the new worktree
Apply ==
    /\ Is({"fork"}, "apply")
    /\ \/ Works /\ Go("restore") /\ dirty' = [dirty EXCEPT ![op.branch] = @ \cup op.ref]
       \/ Fault /\ FailedApply /\ UNCHANGED dirty
    /\ UNCHANGED <<at, tip, stash, home, running, synced, made, history>>

\* git stash apply, in the parent, whose own new work can be in the way.  The
\* entry is then kept, and so is the new worktree.
Restore ==
    /\ Is({"fork"}, "restore")
    /\ \/ Works /\ at[op.path] # Gone /\ Go("list") /\ dirty' = [dirty EXCEPT ![op.path] = @ \cup op.ref]
       \/ End("kept") /\ UNCHANGED dirty /\ ((dirty[op.path] # {} /\ Works) \/ Fault)
    /\ UNCHANGED <<at, tip, stash, home, running, synced, made, history>>

Forked == IF ~op.failed THEN "child" ELSE IF op.done THEN "cleanup" ELSE "quit"
\* git stash list: the place of the entry.
StashList ==
    /\ Is({"fork"}, "list")
    /\ \/ /\ Works
          /\ \E i \in DOMAIN stash :
                /\ stash[i] = op.ref /\ \A j \in 1..i - 1 : stash[j] # op.ref
                /\ op' = [op EXCEPT !.step = "drop", !.index = i]
       \/ /\ (Works /\ ~\E i \in DOMAIN stash : stash[i] = op.ref) \/ Fault
          /\ op' = [op EXCEPT !.step = Forked]
    /\ UNCHANGED answer /\ Steady

\* git stash drop: what is at that place now.
StashDrop ==
    /\ Is({"fork"}, "drop") /\ op' = [op EXCEPT !.step = Forked] /\ UNCHANGED answer
    /\ \/ /\ Works
          /\ stash' = [i \in 1..Len(stash) - 1 |-> stash[IF i < op.index THEN i ELSE i + 1]]
       \/ Fault /\ UNCHANGED stash
    /\ UNCHANGED <<at, tip, dirty, home, running, synced, made, history>>

\* The conversation is forked into the new worktree.
ForkChild(c) ==
    /\ Is({"fork"}, "child") /\ Works /\ c \in op.moving
    /\ IF SourceValid /\ home[c] = Gone
       THEN home' = [home EXCEPT ![c] = op.branch] /\ End("ok")
       ELSE Go("cleanup") /\ UNCHANGED home
    /\ UNCHANGED <<git, running, synced, made, history>>

\* cleanupUnusedFork; its failures are passed over.
Cleanup ==
    /\ Is({"fork"}, "cleanup") /\ End("failed")
    /\ \/ /\ Works /\ At(op.branch) = {}
          /\ at' = [at EXCEPT ![op.branch] = Gone] /\ dirty' = [dirty EXCEPT ![op.branch] = {}]
          /\ tip' = IF Where(op.branch) \subseteq {op.branch} THEN [tip EXCEPT ![op.branch] = NoBranch] ELSE tip
       \/ /\ (At(op.branch) # {} /\ Works) \/ Fault
          /\ UNCHANGED <<at, dirty, tip>>
    /\ UNCHANGED <<stash, home, running, synced, made, history>>
Quit == Is({"fork"}, "quit") /\ End("failed") /\ Works /\ Steady

(***************************************************************************)
(* Fetch, pull and push: no local work is touched.                         *)
(***************************************************************************)
RemoteAsked == Start("remote", NoSession, Gone, Main, "remote") /\ Works /\ Steady
Remote == Is({"remote"}, "remote") /\ ((Works /\ End("ok")) \/ (Fault /\ End("failed"))) /\ Steady

(***************************************************************************)
(* The agents, and what else is not admitted.                              *)
(***************************************************************************)
\* POST /sessions/:id/fork: the copy, whose id is its own, is to work where the original does.
ConversationFork(s, c) ==
    /\ home[s] # Gone /\ at[home[s]] # Gone /\ s \notin running
    /\ home[c] = Gone /\ forking[c] = Gone /\ (op # NoOp => c \notin op.moving \cup {op.by})
    /\ forking' = [forking EXCEPT ![c] = home[s]]
    /\ Works /\ UNCHANGED <<git, home, running, synced, op, answer, made, history>>

Leaving(p) == at[p] = Gone \/ (op # NoOp /\ op.step = "removing" /\ op.path = p)
\* fork: the source is looked up first, then the copy made.
ConversationForked(c) ==
    /\ forking[c] # Gone
    /\ home' = [home EXCEPT ![c] = forking[c]] /\ forking' = [forking EXCEPT ![c] = Gone]
    /\ strays' = IF Leaving(forking[c]) THEN strays \cup {c} ELSE strays
    /\ Works /\ UNCHANGED <<git, running, synced, op, answer, made, given, late>>

TurnStarts(s) ==
    /\ home[s] # Gone /\ at[home[s]] # Gone /\ s \notin running /\ running' = running \cup {s}
    /\ Works /\ UNCHANGED <<git, home, synced, op, answer, made, history>>
TurnEnds(s) ==
    /\ s \in running /\ running' = running \ {s}
    /\ Works /\ UNCHANGED <<git, home, forking, synced, op, answer, made, history>>

Agent(s) == s \in running /\ at[home[s]] # Gone /\ Works /\ UNCHANGED <<home, forking, running, synced, answer, given, strays>>
AgentEdits(s) ==
    /\ Agent(s) /\ made + faults < MaxWork /\ made' = made + 1
    /\ dirty' = [dirty EXCEPT ![home[s]] = @ \cup {made + 1}]
    /\ UNCHANGED <<at, tip, stash, op, late>>
AgentCommits(s) ==
    /\ Agent(s) /\ dirty[home[s]] # {}
    /\ dirty' = [dirty EXCEPT ![home[s]] = {}]
    /\ tip' = [tip EXCEPT ![at[home[s]]] = @ \cup dirty[home[s]]]
    /\ late' = IF op # NoOp /\ op.kind = "merge" /\ op.done /\ at[home[s]] = op.branch
               THEN late \cup dirty[home[s]] ELSE late
    /\ UNCHANGED <<at, stash, op, made>>
AgentSwitches(s, b) ==
    /\ Agent(s) /\ CanSwitch(home[s], b) /\ at' = [at EXCEPT ![home[s]] = b]
    /\ UNCHANGED <<tip, dirty, stash, op, made, late>>
\* An entry that comes between a fork's git stash push and its git rev-parse
\* refs/stash, or that takes what the fork has given back from the parent.
Races(s) == op.step = "ref" \/ home[s] = op.path
AgentStashes(s) ==
    /\ Agent(s) /\ dirty[home[s]] # {} /\ Len(stash) < MaxWork
    /\ stash' = <<dirty[home[s]]>> \o stash /\ dirty' = [dirty EXCEPT ![home[s]] = {}]
    /\ IF op # NoOp /\ op.kind = "fork"
       THEN late' = late \cup dirty[home[s]] /\ op' = IF Races(s) THEN [op EXCEPT !.raced = TRUE] ELSE op
       ELSE UNCHANGED <<op, late>>
    /\ UNCHANGED <<at, tip, made>>

\* The web server restarts: the turns and the operation end where they are.
Restart ==
    /\ Fault /\ op' = NoOp /\ answer' = "none" /\ running' = {} /\ forking' = [s \in Session |-> Gone]
    /\ UNCHANGED <<git, home, synced, made, history>>

Step ==
    /\ UNCHANGED <<budget, forking>>
    /\ \/ Prepare \/ Switching \/ Fetch \/ Merge \/ Merging \/ Gather \/ Rehomed
       \/ Remove \/ Removing \/ Delete \/ Deleting \/ Add \/ Adding \/ Settle
       \/ StashPush \/ StashRef \/ AddFork \/ Apply \/ Restore \/ StashList \/ StashDrop
       \/ Cleanup \/ Quit \/ Remote
       \/ \E s \in Session : Rehome(s) \/ ForkChild(s)

Request ==
    \/ RemoteAsked
    \/ \E b \in Branch, force \in BOOLEAN : DeleteAsked(b, force)
    \/ \E s \in Session :
        \/ MergeAsked(s)
        \/ \E b \in Branch \cup {Main} : CreateAsked(s, b) \/ MoveAsked(s, b) \/ SwitchAsked(s, b)
        \/ \E c \in Session : ConversationFork(s, c) \/ \E b \in Branch : ForkAsked(s, c, b)

Turn ==
    \E s \in Session :
        \/ ConversationForked(s)
        \/ TurnEnds(s) \/ AgentEdits(s) \/ AgentCommits(s) \/ AgentStashes(s)
        \/ \E b \in Branch \cup {Main} : AgentSwitches(s, b)

Next ==
    \/ Step
    \/ asked < MaxOps /\ asked' = asked + 1 /\ UNCHANGED turns /\ Request
    \/ turns < MaxTurns /\ turns' = turns + 1 /\ UNCHANGED <<asked, forking>> /\ \E s \in Session : TurnStarts(s)
    \/ UNCHANGED budget /\ (Turn \/ Restart)

Spec == Init /\ [][Next]_vars

(***************************************************************************)
(* Properties.                                                             *)
(***************************************************************************)
\* No operation, in any of its failures and whatever the agents do meanwhile,
\* loses work: each piece is committed on some branch, uncommitted in some
\* workspace or in the stash, unless the user deleted its branch, or an agent
\* committed it to a branch after its merge, had put the checkout on that branch
\* before the merge, or stashed it while a fork was using the stash.
WorkKept ==
    \A w \in 1..made :
        \/ w \in given \cup late
        \/ \E b \in Branch \cup {Main} : tip[b] # NoBranch /\ w \in tip[b]
        \/ \E p \in Path : w \in dirty[p]
        \/ \E i \in DOMAIN stash : w \in stash[i]

\* A workspace is removed when no conversation is in it any more, the ones that
\* came during the merge or the deletion included; only a conversation whose
\* fork was under way at the last look is left in a workspace that is gone.
HomesExist == \A s \in Session \ strays : home[s] # Gone => at[home[s]] # Gone

\* The repository's promise: neither work nor a conversation's workspace is lost.
RepositoryKept == WorkKept /\ HomesExist

\* A fork that has answered, with success or with an error other than
\* stash_restore_failed, has given the parent its uncommitted work back, or its agent
\* has committed it.  Agents of other workspaces may use the stash meanwhile,
\* except between the fork's push and its reading of refs/stash: there the code
\* takes the other entry for its own, which is a known defect that this property
\* leaves out, as it does a stash by the parent's own agent.
ParentRestored ==
    [][op # NoOp /\ op.kind = "fork" /\ op' = NoOp /\ answer' \in {"ok", "failed"} /\ ~op.raced
       => \A w \in op.had : w \in dirty'[op.path]
                           \/ \E b \in Branch \cup {Main} : tip'[b] # NoBranch /\ w \in tip'[b]]_vars
=============================================================================
