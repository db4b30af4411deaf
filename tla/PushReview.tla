----------------------------- MODULE PushReview -----------------------------
(***************************************************************************)
(* The push of a branch, reviewed first: public/js/session-picker.js and   *)
(* dialogs.js show the commits that server/workspaces.js, pushPreview,     *)
(* finds; POST /sessions/:id/push looks again before it runs git push.     *)
(* Meanwhile the agent works in the checkout, other tabs pull and push,    *)
(* and others push to the remote.                                          *)
(*                                                                         *)
(* A ref is the set of commits it reaches beyond the default branch of the *)
(* remote; equal sets are equal heads.                                     *)
(***************************************************************************)
EXTENDS Naturals, FiniteSets

CONSTANTS
    Tab,         \* pages that show the conversation
    Topic,       \* branches
    NoRef,       \* no such ref
    MaxCommits   \* bound: commits, all of them made here or by others

ASSUME PushAssumption ==
    /\ Topic # {} /\ MaxCommits \in Nat
    /\ NoRef \notin Topic /\ \A r \in SUBSET (1..MaxCommits) : NoRef # r

VARIABLES
    onTopic,   \* the branch checked out
    heads,     \* [Topic -> local branch]
    tracked,   \* [Topic -> remote-tracking branch]
    upstream,  \* branches with a configured upstream
    remote,    \* [Topic -> branch of the remote]
    commits,   \* commits made so far
    tabs       \* [Tab -> what it shows or waits for, and the server's look for it]

pushVars == <<onTopic, heads, tracked, upstream, remote, commits, tabs>>

Hash == 1..MaxCommits
BranchRef == (SUBSET Hash) \cup {NoRef}
\* step: what pushPreview has read.
LookRecord ==
    [step : {"none", "branch", "head", "list"}, base : Topic \cup {NoRef}, head : SUBSET Hash, list : SUBSET Hash]
\* mixed, moved: HEAD became another one while the review was made, or since the server
\* looked at it for the push.
TabRecord ==
    [at : {"idle", "preview", "review", "push", "pushing"}, look : LookRecord, mixed : BOOLEAN, moved : BOOLEAN,
     head : SUBSET Hash, baseHead : BranchRef, list : SUBSET Hash,
     branch : Topic \cup {NoRef}]

PushTypeOK ==
    /\ onTopic \in Topic /\ heads \in [Topic -> SUBSET Hash]
    /\ {tracked, remote} \subseteq [Topic -> BranchRef]
    /\ upstream \subseteq Topic
    /\ commits \in 0..MaxCommits
    /\ tabs \in [Tab -> TabRecord]

NoLook == [step |-> "none", base |-> NoRef, head |-> {}, list |-> {}]
NoTab == [at |-> "idle", look |-> NoLook, mixed |-> FALSE, moved |-> FALSE, head |-> {}, baseHead |-> NoRef, list |-> {},
          branch |-> NoRef]

PushInit ==
    /\ onTopic = CHOOSE b \in Topic : TRUE
    /\ heads = [b \in Topic |-> {}]
    /\ tracked = [b \in Topic |-> NoRef] /\ remote = tracked
    /\ upstream = {} /\ commits = 0
    /\ tabs = [t \in Tab |-> NoTab]

Of(r) == IF r = NoRef THEN {} ELSE r
SetTab(t, r) == tabs' = [tabs EXCEPT ![t] = r]
OnlyTab(t, r) == SetTab(t, r) /\ UNCHANGED <<onTopic, heads, tracked, upstream, remote, commits>>

-----------------------------------------------------------------------------
(* The agent in the checkout, and others at the remote.                    *)

HeadRead(t) == tabs[t].look.step \in {"head", "list"}

HeadMoves ==
    tabs' = [t \in Tab |->
        [tabs[t] EXCEPT !.mixed = @ \/ (tabs[t].at = "preview" /\ HeadRead(t)),
                        !.moved = @ \/ tabs[t].at = "pushing" \/ (tabs[t].at = "push" /\ HeadRead(t))]]

NewCommit(n) == n = commits + 1 /\ n \in Hash /\ commits' = n

Commits(n) ==
    /\ NewCommit(n)
    /\ heads' = [heads EXCEPT ![onTopic] = @ \cup {n}]
    /\ HeadMoves
    /\ UNCHANGED <<onTopic, tracked, upstream, remote>>

\* commit --amend, reset, rebase of one that is not pushed.
Amends(c, n) ==
    /\ c \in heads[onTopic] \ UNION {Of(remote[b]) : b \in Topic}
    /\ \/ n = c /\ heads' = [heads EXCEPT ![onTopic] = @ \ {c}] /\ UNCHANGED commits
       \/ NewCommit(n) /\ heads' = [heads EXCEPT ![onTopic] = (@ \ {c}) \cup {n}]
    /\ HeadMoves
    /\ UNCHANGED <<onTopic, tracked, upstream, remote>>

Switches(b) ==
    /\ b # onTopic
    /\ onTopic' = b
    /\ HeadMoves
    /\ UNCHANGED <<heads, tracked, upstream, remote, commits>>

OtherPushes(b, n) ==
    /\ NewCommit(n)
    /\ remote' = [remote EXCEPT ![b] = Of(@) \cup {n}]
    /\ UNCHANGED <<onTopic, heads, tracked, upstream, tabs>>

\* pullWorkspace, of this page or another, or the agent's: a fetch, and a fast-forward
\* if that is enough.
Pulls ==
    /\ onTopic \in upstream
    /\ tracked' = [tracked EXCEPT ![onTopic] = remote[onTopic]]
    /\ IF heads[onTopic] \subseteq Of(remote[onTopic]) /\ heads[onTopic] # Of(remote[onTopic])
       THEN heads' = [heads EXCEPT ![onTopic] = Of(remote[onTopic])] /\ HeadMoves
       ELSE UNCHANGED <<heads, tabs>>
    /\ UNCHANGED <<onTopic, upstream, remote, commits>>

\* What git push does to the branch b.
GitPush(b) ==
    /\ Of(remote[b]) \subseteq heads[b]
    /\ remote' = [remote EXCEPT ![b] = heads[b]]
    /\ tracked' = [tracked EXCEPT ![b] = heads[b]]
    /\ upstream' = upstream \cup {b}
    /\ UNCHANGED <<onTopic, heads, commits>>

AgentPushes == GitPush(onTopic) /\ remote' # remote /\ UNCHANGED tabs

-----------------------------------------------------------------------------
(* pushPreview: for the page, and again for the server's push.             *)

\* push of the picker.
ReviewAsked(t) ==
    /\ tabs[t].at = "idle"
    /\ OnlyTab(t, [NoTab EXCEPT !.at = "preview"])

SetLook(t, l) == OnlyTab(t, [tabs[t] EXCEPT !.look = l])

\* The first candidate that exists: the upstream, the branch of the same name, the
\* default branch of the remote, which is NoRef here.
LooksAtBranch(t) ==
    /\ tabs[t].at \in {"preview", "push"} /\ tabs[t].look.step = "none"
    /\ SetLook(t, [NoLook EXCEPT !.step = "branch", !.base = IF tracked[onTopic] = NoRef THEN NoRef ELSE onTopic])

LooksAtHead(t) ==
    /\ tabs[t].at \in {"preview", "push"} /\ tabs[t].look.step = "branch"
    /\ SetLook(t, [tabs[t].look EXCEPT !.step = "head", !.head = heads[onTopic]])

BaseOf(l) == IF l.base = NoRef THEN NoRef ELSE tracked[l.base]

\* rev-list and log of base..HEAD; the push makes no use of them.
Lists(t) ==
    /\ tabs[t].look.step = "head"
    /\ SetLook(t, [tabs[t].look EXCEPT !.step = "list",
                       !.list = IF tabs[t].at = "preview" THEN heads[onTopic] \ Of(BaseOf(tabs[t].look)) ELSE {}])

\* Last it reads where the base is: the review is shown.
Reviewed(t) ==
    /\ tabs[t].at = "preview" /\ tabs[t].look.step = "list"
    /\ LET l == tabs[t].look IN
       OnlyTab(t, [NoTab EXCEPT !.at = "review", !.mixed = tabs[t].mixed,
                                !.head = l.head, !.baseHead = BaseOf(l), !.list = l.list])

\* The preview fails, or the question is dismissed.
Dismissed(t) ==
    /\ tabs[t].at \in {"preview", "review"}
    /\ OnlyTab(t, NoTab)

\* go of the confirm dialog; one operation of a repository at a time.
PushConfirmed(t) ==
    /\ tabs[t].at = "review"
    /\ \A o \in Tab : tabs[o].at \notin {"push", "pushing"}
    /\ OnlyTab(t, [tabs[t] EXCEPT !.at = "push", !.look = NoLook, !.moved = FALSE])

\* A bug to catch: whatever the branch has by now is pushed.
AsReviewedBase(t) == BaseOf(tabs[t].look) = tabs[t].baseHead

\* The server finds what the page was shown.
AsReviewed(t) == tabs[t].look.head = tabs[t].head /\ BaseOf(tabs[t].look) = tabs[t].baseHead

\* push_preview_stale: the question stays, with the error.
Stale(t) ==
    /\ tabs[t].at = "push" /\ tabs[t].look.step = "list" /\ ~AsReviewed(t)
    /\ OnlyTab(t, [tabs[t] EXCEPT !.at = "review", !.look = NoLook])

\* pushWorkspace: the branch and its upstream; without one the branch is named.
PushBegins(t) ==
    /\ tabs[t].at = "push" /\ tabs[t].look.step = "list" /\ AsReviewed(t)
    /\ OnlyTab(t, [tabs[t] EXCEPT !.at = "pushing", !.look = NoLook, !.branch = IF onTopic \in upstream THEN NoRef ELSE onTopic])

\* git push, of the branch named or else the one checked out.
Pushed(t) ==
    /\ tabs[t].at = "pushing"
    /\ GitPush(IF tabs[t].branch # NoRef THEN tabs[t].branch ELSE onTopic)
    /\ SetTab(t, NoTab)

\* Not a fast-forward, no network, or not even begun.
PushRefused(t) ==
    /\ tabs[t].at \in {"push", "pushing"}
    /\ OnlyTab(t, [tabs[t] EXCEPT !.at = "review", !.look = NoLook, !.branch = NoRef])

PushNext ==
    \/ \E n \in Hash : \/ Commits(n)
                         \/ \E c \in Hash : Amends(c, n)
                         \/ \E b \in Topic : OtherPushes(b, n)
    \/ \E b \in Topic : Switches(b)
    \/ Pulls \/ AgentPushes
    \/ \E t \in Tab :
          \/ ReviewAsked(t) \/ LooksAtBranch(t) \/ LooksAtHead(t) \/ Lists(t)
          \/ Reviewed(t) \/ Dismissed(t) \/ PushConfirmed(t) \/ Stale(t) \/ PushBegins(t) \/ Pushed(t) \/ PushRefused(t)

PushSpec == PushInit /\ [][PushNext]_pushVars

-----------------------------------------------------------------------------
(* Properties.                                                             *)

OnRemote == UNION {Of(remote[b]) : b \in Topic}

\* Only commits the user was shown reach the remote, unless the agent moved HEAD while
\* the review was made or after the server's last look at it.
PushedAsReviewed ==
    [][\A t \in Tab :
          tabs[t].at = "pushing" /\ tabs'[t].at = "idle" /\ ~tabs[t].mixed /\ ~tabs[t].moved
          => OnRemote' \ OnRemote \subseteq tabs[t].list]_pushVars
=============================================================================
