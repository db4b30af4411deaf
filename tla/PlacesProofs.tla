---------------------------- MODULE PlacesProofs ----------------------------
(***************************************************************************)
(* What is proved of where conversations work, for every value of the      *)
(* constants: of the review before a push, of the files that say which     *)
(* projects and conversations there are, and of the repository.            *)
(***************************************************************************)
EXTENDS Workplaces, TLAPS

(***************************************************************************)
(* The review before a push.                                               *)
(***************************************************************************)

TrackedIsRemote == \A b \in Topic : Of(tracked[b]) \subseteq Of(remote[b])
\* What the server has read of the head still holds, and the review lists what the
\* remote lacks of it.
LookSound(t) ==
    LET l == tabs[t].look IN
    /\ tabs[t].at = "preview" /\ ~tabs[t].mixed /\ l.step \in {"head", "list"} => l.head = heads[onTopic]
    /\ tabs[t].at = "preview" /\ ~tabs[t].mixed /\ l.step = "list" => l.head \ OnRemote \subseteq l.list
    /\ tabs[t].at = "push" /\ ~tabs[t].moved /\ l.step \in {"head", "list"} => l.head = heads[onTopic]
ListFull(t) == tabs[t].at \in {"review", "push", "pushing"} /\ ~tabs[t].mixed => tabs[t].head \ OnRemote \subseteq tabs[t].list
HeadCompared(t) ==
    tabs[t].at = "pushing" /\ ~tabs[t].moved => tabs[t].head = heads[onTopic] /\ tabs[t].branch \in {NoRef, onTopic}

PushInv == PushTypeOK /\ TrackedIsRemote /\ \A t \in Tab : LookSound(t) /\ ListFull(t) /\ HeadCompared(t)

LEMMA NoTabTyped == NoTab \in TabRecord /\ NoLook \in LookRecord
BY DEF NoTab, NoLook, TabRecord, LookRecord, BranchRef

LEMMA OfTyped == ASSUME NEW r \in BranchRef PROVE Of(r) \in SUBSET Hash
BY DEF Of, BranchRef

LEMMA BaseTyped == ASSUME PushTypeOK, NEW l \in LookRecord PROVE BaseOf(l) \in BranchRef
BY DEF PushTypeOK, BaseOf, LookRecord, BranchRef

LEMMA PushStarts == PushInit => PushInv
<1> SUFFICES ASSUME PushInit PROVE PushInv
  OBVIOUS
<1>1. \A t \in Tab : tabs[t] = NoTab
  BY DEF PushInit
<1>2. PushTypeOK
  BY NoTabTyped, PushAssumption DEF PushInit, PushTypeOK, BranchRef
<1>3. \A t \in Tab : tabs[t].at = "idle"
  BY <1>1 DEF NoTab
<1>4. QED
  BY <1>2, <1>3 DEF PushInit, PushInv, TrackedIsRemote, Of, LookSound, ListFull, HeadCompared

\* Steps of the tabs.
LEMMA TabStep ==
    ASSUME PushInv, NEW t \in Tab, NEW r \in TabRecord, OnlyTab(t, r),
           LookSound(t)', ListFull(t)', HeadCompared(t)'
    PROVE  PushInv'
<1>1. /\ tabs' = [tabs EXCEPT ![t] = r] /\ tabs \in [Tab -> TabRecord]
      /\ UNCHANGED <<onTopic, heads, tracked, upstream, remote, commits>>
  BY DEF OnlyTab, SetTab, PushInv, PushTypeOK
<1>2. \A o \in Tab : o # t => tabs'[o] = tabs[o]
  BY <1>1
<1>3. OnRemote' = OnRemote
  BY <1>1 DEF OnRemote, Of
<1>4. ASSUME NEW o \in Tab, o # t PROVE LookSound(o)' /\ ListFull(o)' /\ HeadCompared(o)'
  BY <1>1, <1>2, <1>3, <1>4 DEF PushInv, LookSound, ListFull, HeadCompared
<1>5. QED
  BY <1>1, <1>4 DEF PushInv, PushTypeOK, TrackedIsRemote, Of

\* The agent's and others' steps: the remote only gains, and who moves the head is seen.
LEMMA OutsideStep ==
    ASSUME PushInv, PushTypeOK', TrackedIsRemote', OnRemote \subseteq OnRemote',
           \/ HeadMoves
           \/ UNCHANGED <<tabs, onTopic>> /\ heads'[onTopic] = heads[onTopic]
    PROVE  PushInv'
<1>1. CASE HeadMoves
  <2> SUFFICES ASSUME NEW t \in Tab PROVE LookSound(t)' /\ ListFull(t)' /\ HeadCompared(t)'
    BY DEF PushInv
  <2>0. tabs[t] \in TabRecord /\ tabs[t].mixed \in BOOLEAN /\ tabs[t].moved \in BOOLEAN
    BY DEF PushInv, PushTypeOK, TabRecord
  <2>1. PICK mixed \in BOOLEAN, moved \in BOOLEAN :
           /\ mixed <=> tabs[t].mixed \/ (tabs[t].at = "preview" /\ HeadRead(t))
           /\ moved <=> tabs[t].moved \/ tabs[t].at = "pushing" \/ (tabs[t].at = "push" /\ HeadRead(t))
    OBVIOUS
  <2>2. tabs'[t] = [tabs[t] EXCEPT !.mixed = mixed, !.moved = moved]
    <3>1. /\ mixed = (tabs[t].mixed \/ (tabs[t].at = "preview" /\ HeadRead(t)))
          /\ moved = (tabs[t].moved \/ tabs[t].at = "pushing" \/ (tabs[t].at = "push" /\ HeadRead(t)))
      BY <2>0, <2>1
    <3>2. QED
      BY <1>1, <3>1, Zenon DEF HeadMoves
  <2>3. /\ tabs'[t].at = tabs[t].at /\ tabs'[t].look = tabs[t].look /\ tabs'[t].head = tabs[t].head
        /\ tabs'[t].list = tabs[t].list /\ tabs'[t].mixed = mixed /\ tabs'[t].moved = moved
    BY <2>0, <2>2 DEF TabRecord
  <2>4. ListFull(t)'
    BY <2>1, <2>3 DEF PushInv, ListFull
  <2>5. QED
    BY <2>1, <2>3, <2>4 DEF HeadRead, LookSound, HeadCompared
<1>2. CASE UNCHANGED <<tabs, onTopic>> /\ heads'[onTopic] = heads[onTopic]
  BY <1>2 DEF PushInv, LookSound, ListFull, HeadCompared
<1>3. QED
  BY <1>1, <1>2

LEMMA HeadMovesTyped == PushTypeOK /\ HeadMoves => tabs' \in [Tab -> TabRecord]
<1> SUFFICES ASSUME PushTypeOK, HeadMoves, NEW t \in Tab PROVE tabs'[t] \in TabRecord
  BY DEF HeadMoves
<1>1. tabs[t] \in TabRecord
  BY DEF PushTypeOK
<1>2. PICK mixed \in BOOLEAN, moved \in BOOLEAN :
         /\ mixed = (tabs[t].mixed \/ (tabs[t].at = "preview" /\ HeadRead(t)))
         /\ moved = (tabs[t].moved \/ tabs[t].at = "pushing" \/ (tabs[t].at = "push" /\ HeadRead(t)))
  BY <1>1 DEF TabRecord
<1>3. tabs'[t] = [tabs[t] EXCEPT !.mixed = mixed, !.moved = moved]
  BY <1>2, Zenon DEF HeadMoves
<1>4. QED
  BY <1>1, <1>3 DEF TabRecord

LEMMA GitPushGains ==
    ASSUME PushInv, NEW b \in Topic, GitPush(b)
    PROVE  /\ {tracked', remote'} \subseteq [Topic -> BranchRef] /\ upstream' \subseteq Topic
           /\ UNCHANGED <<onTopic, heads, commits>>
           /\ TrackedIsRemote' /\ OnRemote \subseteq OnRemote' /\ OnRemote' \subseteq OnRemote \cup heads[b]
<1>1. /\ heads \in [Topic -> SUBSET Hash] /\ {tracked, remote} \subseteq [Topic -> BranchRef] /\ upstream \subseteq Topic
      /\ TrackedIsRemote
  BY DEF PushInv, PushTypeOK
<1>2. /\ remote' = [remote EXCEPT ![b] = heads[b]] /\ tracked' = [tracked EXCEPT ![b] = heads[b]]
      /\ Of(remote[b]) \subseteq heads[b] /\ UNCHANGED <<onTopic, heads, commits>> /\ upstream' = upstream \cup {b}
  BY DEF GitPush
<1>3. {tracked', remote'} \subseteq [Topic -> BranchRef] /\ upstream' \subseteq Topic
  BY <1>1, <1>2 DEF BranchRef
<1>4. Of(heads[b]) = heads[b]
  BY <1>1, PushAssumption DEF Of, Hash
<1>5. \A c \in Topic : c # b => remote'[c] = remote[c] /\ tracked'[c] = tracked[c]
  BY <1>1, <1>2
<1>6. remote'[b] = heads[b] /\ tracked'[b] = heads[b]
  BY <1>1, <1>2
<1>7. TrackedIsRemote'
  BY <1>1, <1>5, <1>6 DEF TrackedIsRemote, Of
<1>8. Of(remote'[b]) = heads[b] /\ \A c \in Topic : c # b => Of(remote'[c]) = Of(remote[c])
  BY <1>4, <1>5, <1>6
<1>9. OnRemote' = UNION {Of(remote'[c]) : c \in Topic}
  BY DEF OnRemote, Of
<1>10. OnRemote' \subseteq OnRemote \cup heads[b] /\ OnRemote \subseteq OnRemote'
  BY <1>2, <1>8, <1>9 DEF OnRemote
<1>11. QED
  BY <1>2, <1>3, <1>7, <1>10

LEMMA PushStep == PushInv /\ [PushNext]_pushVars => PushInv'
<1> SUFFICES ASSUME PushInv, [PushNext]_pushVars PROVE PushInv'
  OBVIOUS
<1>1. /\ PushTypeOK /\ TrackedIsRemote /\ \A t \in Tab : LookSound(t) /\ ListFull(t) /\ HeadCompared(t)
      /\ onTopic \in Topic /\ heads \in [Topic -> SUBSET Hash] /\ {tracked, remote} \subseteq [Topic -> BranchRef]
      /\ upstream \subseteq Topic /\ tabs \in [Tab -> TabRecord] /\ commits \in 0..MaxCommits
  BY DEF PushInv, PushTypeOK
<1>2. CASE UNCHANGED pushVars
  BY <1>1, <1>2 DEF pushVars, PushInv, PushTypeOK, TrackedIsRemote, Of, LookSound, ListFull, HeadCompared, OnRemote, HeadRead
<1>3. ASSUME HeadMoves, heads' \in [Topic -> SUBSET Hash], onTopic' \in Topic, commits' \in 0..MaxCommits,
             tracked' \in [Topic -> BranchRef], TrackedIsRemote', UNCHANGED <<upstream, remote>>
      PROVE  PushInv'
  <2>1. PushTypeOK'
    BY <1>1, <1>3, HeadMovesTyped DEF PushTypeOK
  <2>2. OnRemote' = OnRemote
    BY <1>3 DEF OnRemote, Of
  <2>3. QED
    BY <1>3, <2>1, <2>2, OutsideStep
<1>4. ASSUME NEW n \in Hash, Commits(n) PROVE PushInv'
  <2>1. heads' = [heads EXCEPT ![onTopic] = heads[onTopic] \cup {n}] /\ commits' = n /\ HeadMoves
        /\ UNCHANGED <<onTopic, tracked, upstream, remote>>
    BY <1>4 DEF Commits, NewCommit
  <2>2. heads' \in [Topic -> SUBSET Hash] /\ commits' \in 0..MaxCommits
    BY <1>1, <2>1, PushAssumption DEF Hash
  <2>3. QED
    BY <1>1, <1>3, <2>1, <2>2 DEF TrackedIsRemote, Of
<1>5. ASSUME NEW n \in Hash, NEW c \in Hash, Amends(c, n) PROVE PushInv'
  <2>1. /\ HeadMoves /\ UNCHANGED <<onTopic, tracked, upstream, remote>> /\ commits' \in {commits, n}
        /\ heads' \in {[heads EXCEPT ![onTopic] = heads[onTopic] \ {c}],
                       [heads EXCEPT ![onTopic] = (heads[onTopic] \ {c}) \cup {n}]}
    BY <1>5 DEF Amends, NewCommit
  <2>2. heads' \in [Topic -> SUBSET Hash] /\ commits' \in 0..MaxCommits
    BY <1>1, <2>1, PushAssumption DEF Hash
  <2>3. QED
    BY <1>1, <1>3, <2>1, <2>2 DEF TrackedIsRemote, Of
<1>6. ASSUME NEW b \in Topic, Switches(b) PROVE PushInv'
  BY <1>1, <1>3, <1>6 DEF Switches, TrackedIsRemote, Of
<1>7. ASSUME NEW b \in Topic, NEW n \in Hash, OtherPushes(b, n) PROVE PushInv'
  <2>1. /\ remote' = [remote EXCEPT ![b] = Of(remote[b]) \cup {n}] /\ commits' = n
        /\ UNCHANGED <<onTopic, heads, tracked, upstream, tabs>>
    BY <1>7 DEF OtherPushes, NewCommit
  <2>2. Of(remote[b]) \cup {n} \in SUBSET Hash
    BY <1>1, OfTyped
  <2>3. remote' \in [Topic -> BranchRef] /\ commits' \in 0..MaxCommits
    BY <1>1, <2>1, <2>2, PushAssumption DEF BranchRef, Hash
  <2>4. \A c \in Topic : Of(remote[c]) \subseteq Of(remote'[c])
    <3>1. Of(Of(remote[b]) \cup {n}) = Of(remote[b]) \cup {n}
      BY <2>2, PushAssumption DEF Of, Hash
    <3>2. QED
      BY <1>1, <2>1, <3>1
  <2>5. OnRemote' = UNION {Of(remote'[c]) : c \in Topic} /\ TrackedIsRemote'
    BY <1>1, <2>1, <2>4 DEF OnRemote, Of, TrackedIsRemote
  <2>6. OnRemote \subseteq OnRemote'
    BY <2>4, <2>5 DEF OnRemote
  <2>7. PushTypeOK'
    BY <1>1, <2>1, <2>3 DEF PushTypeOK
  <2>8. QED
    BY <2>1, <2>5, <2>6, <2>7, OutsideStep
<1>8. CASE Pulls
  <2>1. /\ tracked' = [tracked EXCEPT ![onTopic] = remote[onTopic]] /\ UNCHANGED <<onTopic, upstream, remote, commits>>
        /\ \/ heads' = [heads EXCEPT ![onTopic] = Of(remote[onTopic])] /\ HeadMoves
           \/ UNCHANGED <<heads, tabs>>
    BY <1>8 DEF Pulls
  <2>2. tracked' \in [Topic -> BranchRef] /\ Of(remote[onTopic]) \in SUBSET Hash
    BY <1>1, <2>1, OfTyped
  <2>3. TrackedIsRemote'
    BY <1>1, <2>1 DEF TrackedIsRemote, Of
  <2>4. CASE heads' = [heads EXCEPT ![onTopic] = Of(remote[onTopic])] /\ HeadMoves
    BY <1>1, <1>3, <2>1, <2>2, <2>3, <2>4
  <2>5. CASE UNCHANGED <<heads, tabs>>
    <3>1. PushTypeOK' /\ OnRemote' = OnRemote
      BY <1>1, <2>1, <2>2, <2>5 DEF PushTypeOK, OnRemote, Of
    <3>2. QED
      BY <2>1, <2>3, <2>5, <3>1, OutsideStep
  <2>6. QED
    BY <2>1, <2>4, <2>5
<1>9. CASE AgentPushes
  <2>1. GitPush(onTopic) /\ UNCHANGED tabs
    BY <1>9 DEF AgentPushes
  <2>2. PushTypeOK'
    BY <1>1, <2>1, GitPushGains DEF PushTypeOK
  <2>3. QED
    BY <1>1, <2>1, <2>2, GitPushGains, OutsideStep
<1>10. ASSUME NEW t \in Tab, ReviewAsked(t) \/ Dismissed(t) PROVE PushInv'
  <2>1. PICK r \in TabRecord : OnlyTab(t, r) /\ r.at \in {"idle", "preview"} /\ r.look = NoLook
    <3>1. CASE ReviewAsked(t)
      <4> DEFINE r == [NoTab EXCEPT !.at = "preview"]
      <4>1. r \in TabRecord /\ r.at = "preview" /\ r.look = NoLook
        BY NoTabTyped DEF NoTab, TabRecord
      <4>2. QED
        BY <3>1, <4>1 DEF ReviewAsked
    <3>2. CASE Dismissed(t)
      BY <3>2, NoTabTyped DEF Dismissed, NoTab
    <3>3. QED
      BY <1>10, <3>1, <3>2
  <2>2. tabs'[t] = r
    BY <1>1, <2>1 DEF OnlyTab, SetTab
  <2>3. NoLook.step = "none"
    BY DEF NoLook
  <2>4. LookSound(t)' /\ ListFull(t)' /\ HeadCompared(t)'
    BY <2>1, <2>2, <2>3 DEF LookSound, ListFull, HeadCompared
  <2>5. QED
    BY <2>1, <2>4, TabStep
<1>11. ASSUME NEW t \in Tab, LooksAtBranch(t) \/ LooksAtHead(t) \/ Lists(t) PROVE PushInv'
  <2>1. PICK l \in LookRecord :
           /\ SetLook(t, l)
           /\ l.step \in {"head", "list"} /\ tabs[t].at \in {"preview", "push"} =>
                \/ l.head = heads[onTopic]
                \/ tabs[t].look.step \in {"head", "list"} /\ l.head = tabs[t].look.head
           /\ l.step = "list" /\ tabs[t].at = "preview" =>
                tabs[t].look.step = "head" /\ l.list = heads[onTopic] \ Of(BaseOf(tabs[t].look))
    <3>1. tabs[t] \in TabRecord /\ tabs[t].look \in LookRecord
      BY <1>1 DEF TabRecord
    <3>2. CASE LooksAtBranch(t)
      <4> DEFINE base == IF tracked[onTopic] = NoRef THEN NoRef ELSE onTopic
      <4> DEFINE l == [NoLook EXCEPT !.step = "branch", !.base = base]
      <4>1. base \in Topic \cup {NoRef} /\ SetLook(t, l)
        BY <1>1, <3>2 DEF LooksAtBranch
      <4> HIDE DEF base
      <4>2. l \in LookRecord /\ l.step = "branch"
        BY <4>1, NoTabTyped DEF LookRecord
      <4>3. QED
        BY <4>1, <4>2
    <3>3. CASE LooksAtHead(t)
      <4> DEFINE l == [tabs[t].look EXCEPT !.step = "head", !.head = heads[onTopic]]
      <4>1. l \in LookRecord /\ l.step = "head" /\ l.head = heads[onTopic]
        BY <1>1, <3>1 DEF LookRecord
      <4>2. SetLook(t, l)
        BY <3>3 DEF LooksAtHead
      <4>3. QED
        BY <4>1, <4>2
    <3>4. CASE Lists(t)
      <4> DEFINE list == IF tabs[t].at = "preview" THEN heads[onTopic] \ Of(BaseOf(tabs[t].look)) ELSE {}
      <4> DEFINE l == [tabs[t].look EXCEPT !.step = "list", !.list = list]
      <4>1. list \in SUBSET Hash /\ SetLook(t, l) /\ tabs[t].look.step = "head"
        BY <1>1, <3>4 DEF Lists
      <4>2. tabs[t].at = "preview" => list = heads[onTopic] \ Of(BaseOf(tabs[t].look))
        OBVIOUS
      <4> HIDE DEF list
      <4>3. l \in LookRecord /\ l.step = "list" /\ l.head = tabs[t].look.head /\ l.list = list
        BY <3>1, <4>1 DEF LookRecord
      <4>4. QED
        BY <4>1, <4>2, <4>3
    <3>5. QED
      BY <1>11, <3>2, <3>3, <3>4
  <2> DEFINE r == [tabs[t] EXCEPT !.look = l]
  <2>2. /\ r \in TabRecord /\ r.look = l /\ r.at = tabs[t].at /\ r.mixed = tabs[t].mixed /\ r.moved = tabs[t].moved
        /\ r.head = tabs[t].head /\ r.list = tabs[t].list /\ r.branch = tabs[t].branch
    BY <1>1 DEF TabRecord
  <2>3. OnlyTab(t, r)
    BY <2>1 DEF SetLook
  <2> HIDE DEF r
  <2>4. tabs'[t] = r /\ UNCHANGED <<onTopic, heads, tracked, remote>>
    BY <1>1, <2>3 DEF OnlyTab, SetTab
  <2>5. OnRemote' = OnRemote
    BY <2>4 DEF OnRemote, Of
  <2>6. ListFull(t)' /\ HeadCompared(t)'
    BY <1>1, <2>2, <2>4, <2>5 DEF ListFull, HeadCompared
  <2>7. Of(BaseOf(tabs[t].look)) \subseteq OnRemote
    <3>1. tabs[t].look.base \in Topic \cup {NoRef}
      BY <1>1 DEF TabRecord, LookRecord
    <3>2. CASE tabs[t].look.base = NoRef
      BY <3>2 DEF BaseOf, Of
    <3>3. CASE tabs[t].look.base # NoRef
      BY <1>1, <3>1, <3>3 DEF BaseOf, TrackedIsRemote, OnRemote
    <3>4. QED
      BY <3>2, <3>3
  <2>8. LookSound(t)'
    BY <1>1, <2>1, <2>2, <2>4, <2>5, <2>7 DEF LookSound
  <2>9. QED
    BY <2>2, <2>3, <2>6, <2>8, TabStep
<1>12. ASSUME NEW t \in Tab, Reviewed(t) PROVE PushInv'
  <2> DEFINE l == tabs[t].look
  <2> DEFINE r == [NoTab EXCEPT !.at = "review", !.mixed = tabs[t].mixed,
                                !.head = l.head, !.baseHead = BaseOf(l), !.list = l.list]
  <2>1. tabs[t] \in TabRecord /\ l \in LookRecord /\ l.head \in SUBSET Hash /\ l.list \in SUBSET Hash
        /\ tabs[t].mixed \in BOOLEAN /\ BaseOf(l) \in BranchRef
    BY <1>1, BaseTyped DEF TabRecord, LookRecord
  <2>2. /\ r \in TabRecord /\ r.at = "review" /\ r.mixed = tabs[t].mixed /\ r.head = l.head /\ r.list = l.list
    BY <2>1, NoTabTyped DEF TabRecord
  <2>3. OnlyTab(t, r) /\ tabs[t].at = "preview" /\ l.step = "list"
    BY <1>12 DEF Reviewed
  <2>4. ~tabs[t].mixed => l.head \ OnRemote \subseteq l.list
    BY <1>1, <2>3 DEF LookSound
  <2> HIDE DEF r, l
  <2>5. tabs'[t] = r /\ UNCHANGED remote
    BY <1>1, <2>3 DEF OnlyTab, SetTab
  <2>6. OnRemote' = OnRemote
    BY <2>5 DEF OnRemote, Of
  <2>7. LookSound(t)' /\ ListFull(t)' /\ HeadCompared(t)'
    BY <2>2, <2>4, <2>5, <2>6 DEF LookSound, ListFull, HeadCompared
  <2>8. QED
    BY <2>2, <2>3, <2>7, TabStep
<1>13. ASSUME NEW t \in Tab, PushConfirmed(t) \/ Stale(t) \/ PushRefused(t) PROVE PushInv'
  <2>1. PICK r \in TabRecord :
           /\ OnlyTab(t, r) /\ r.at \in {"review", "push"} /\ r.look = NoLook /\ r.mixed = tabs[t].mixed
           /\ r.head = tabs[t].head /\ r.list = tabs[t].list /\ tabs[t].at \in {"review", "push", "pushing"}
    <3>1. tabs[t] \in TabRecord
      BY <1>1
    <3>2. CASE PushConfirmed(t)
      <4> DEFINE r == [tabs[t] EXCEPT !.at = "push", !.look = NoLook, !.moved = FALSE]
      <4>1. /\ r \in TabRecord /\ r.at = "push" /\ r.look = NoLook /\ r.mixed = tabs[t].mixed /\ r.head = tabs[t].head
            /\ r.list = tabs[t].list
        BY <3>1, NoTabTyped DEF TabRecord
      <4>2. QED
        BY <3>2, <4>1 DEF PushConfirmed
    <3>3. CASE Stale(t)
      <4> DEFINE r == [tabs[t] EXCEPT !.at = "review", !.look = NoLook]
      <4>1. /\ r \in TabRecord /\ r.at = "review" /\ r.look = NoLook /\ r.mixed = tabs[t].mixed /\ r.head = tabs[t].head
            /\ r.list = tabs[t].list
        BY <3>1, NoTabTyped DEF TabRecord
      <4>2. QED
        BY <3>3, <4>1 DEF Stale
    <3>4. CASE PushRefused(t)
      <4> DEFINE r == [tabs[t] EXCEPT !.at = "review", !.look = NoLook, !.branch = NoRef]
      <4>1. /\ r \in TabRecord /\ r.at = "review" /\ r.look = NoLook /\ r.mixed = tabs[t].mixed /\ r.head = tabs[t].head
            /\ r.list = tabs[t].list
        BY <3>1, NoTabTyped DEF TabRecord
      <4>2. QED
        BY <3>4, <4>1 DEF PushRefused
    <3>5. QED
      BY <1>13, <3>2, <3>3, <3>4
  <2>2. tabs'[t] = r /\ UNCHANGED remote /\ NoLook.step = "none"
    BY <1>1, <2>1 DEF OnlyTab, SetTab, NoLook
  <2>3. OnRemote' = OnRemote
    BY <2>2 DEF OnRemote, Of
  <2>4. LookSound(t)' /\ ListFull(t)' /\ HeadCompared(t)'
    BY <1>1, <2>1, <2>2, <2>3 DEF LookSound, ListFull, HeadCompared
  <2>5. QED
    BY <2>1, <2>4, TabStep
<1>14. ASSUME NEW t \in Tab, PushBegins(t) PROVE PushInv'
  <2> DEFINE branch == IF onTopic \in upstream THEN NoRef ELSE onTopic
  <2> DEFINE r == [tabs[t] EXCEPT !.at = "pushing", !.look = NoLook, !.branch = branch]
  <2>1. tabs[t] \in TabRecord /\ branch \in Topic \cup {NoRef} /\ branch \in {NoRef, onTopic}
    BY <1>1
  <2>2. /\ OnlyTab(t, r) /\ tabs[t].at = "push" /\ tabs[t].look.step = "list" /\ tabs[t].look.head = tabs[t].head
    BY <1>14 DEF PushBegins, AsReviewed
  <2> HIDE DEF branch
  <2>3. /\ r \in TabRecord /\ r.at = "pushing" /\ r.look = NoLook /\ r.mixed = tabs[t].mixed /\ r.moved = tabs[t].moved
        /\ r.head = tabs[t].head /\ r.list = tabs[t].list /\ r.branch = branch
    BY <2>1, NoTabTyped DEF TabRecord
  <2> HIDE DEF r
  <2>4. tabs'[t] = r /\ UNCHANGED <<remote, onTopic, heads>> /\ NoLook.step = "none"
    BY <1>1, <2>2 DEF OnlyTab, SetTab, NoLook
  <2>5. OnRemote' = OnRemote
    BY <2>4 DEF OnRemote, Of
  <2>6. LookSound(t)' /\ ListFull(t)' /\ HeadCompared(t)'
    BY <1>1, <2>1, <2>2, <2>3, <2>4, <2>5 DEF LookSound, ListFull, HeadCompared
  <2>7. QED
    BY <2>2, <2>3, <2>6, TabStep
<1>15. ASSUME NEW t \in Tab, Pushed(t) PROVE PushInv'
  <2>1. PICK b \in Topic : GitPush(b)
    <3>1. tabs[t].branch \in Topic \cup {NoRef}
      BY <1>1 DEF TabRecord
    <3>2. QED
      BY <1>1, <1>15, <3>1 DEF Pushed
  <2>2. tabs' = [tabs EXCEPT ![t] = NoTab]
    BY <1>15 DEF Pushed, SetTab
  <2>3. PushTypeOK'
    BY <1>1, <2>1, <2>2, NoTabTyped, GitPushGains DEF PushTypeOK
  <2>4. NoTab.at = "idle" /\ UNCHANGED <<onTopic, heads>> /\ OnRemote \subseteq OnRemote' /\ TrackedIsRemote'
    BY <2>1, GitPushGains DEF NoTab
  <2>5. ASSUME NEW o \in Tab PROVE LookSound(o)' /\ ListFull(o)' /\ HeadCompared(o)'
    <3>1. tabs'[o] = NoTab \/ tabs'[o] = tabs[o]
      BY <1>1, <2>2
    <3>2. QED
      BY <1>1, <2>4, <3>1 DEF LookSound, ListFull, HeadCompared
  <2>6. QED
    BY <2>3, <2>4, <2>5 DEF PushInv
<1>16. QED
  BY <1>2, <1>4, <1>5, <1>6, <1>7, <1>8, <1>9, <1>10, <1>11, <1>12, <1>13, <1>14, <1>15 DEF PushNext

LEMMA PushOfPlaces == (PlacesInit => PushInit) /\ ([PlacesNext]_placeVars => [PushNext]_pushVars)
BY DEF PlacesInit, PlacesNext, placeVars

\* public/js/session-picker.js, dialogs.js and the push of server/workspaces.js: a push
\* brings nothing to the remote that the user was not shown, unless HEAD moved while the
\* review was made or after the server's last look.
THEOREM PushedAsReviewedCorrect == PlacesSpec => PushedAsReviewed
<1>1. PushInv /\ [PushNext]_pushVars =>
        [\A t \in Tab : tabs[t].at = "pushing" /\ tabs'[t].at = "idle" /\ ~tabs[t].mixed /\ ~tabs[t].moved
                        => OnRemote' \ OnRemote \subseteq tabs[t].list]_pushVars
  <2> SUFFICES ASSUME PushInv, PushNext, NEW t \in Tab, tabs[t].at = "pushing", tabs'[t].at = "idle",
                      ~tabs[t].mixed, ~tabs[t].moved
               PROVE  OnRemote' \ OnRemote \subseteq tabs[t].list
    BY DEF pushVars
  <2>1. tabs \in [Tab -> TabRecord] /\ onTopic \in Topic
    BY DEF PushInv, PushTypeOK
  <2>2. CASE Pushed(t)
    <3>1. tabs[t].head = heads[onTopic] /\ tabs[t].branch \in {NoRef, onTopic} /\ tabs[t].head \ OnRemote \subseteq tabs[t].list
      BY DEF PushInv, HeadCompared, ListFull
    <3>2. GitPush(onTopic)
      BY <2>2, <3>1 DEF Pushed
    <3>3. QED
      BY <2>1, <3>1, <3>2, GitPushGains
  <2>3. CASE ~Pushed(t)
    <3>1. AgentPushes => tabs' = tabs
      BY DEF AgentPushes
    <3>2. \A b \in Topic, n \in Hash : OtherPushes(b, n) => tabs' = tabs
      BY DEF OtherPushes
    <3>3. \A o \in Tab : o # t /\ Pushed(o) => tabs'[t] = tabs[t]
      BY <2>1 DEF Pushed, SetTab
    <3>4. (\E n \in Hash : Commits(n) \/ \E c \in Hash : Amends(c, n)) \/ (\E b \in Topic : Switches(b)) \/ Pulls
          => UNCHANGED remote
      BY DEF Commits, Amends, Switches, Pulls
    <3>5. ASSUME NEW o \in Tab, \/ ReviewAsked(o) \/ LooksAtBranch(o) \/ LooksAtHead(o) \/ Lists(o) \/ Reviewed(o)
                               \/ Dismissed(o) \/ PushConfirmed(o) \/ Stale(o) \/ PushBegins(o) \/ PushRefused(o)
          PROVE  UNCHANGED remote
      BY <3>5 DEF ReviewAsked, LooksAtBranch, LooksAtHead, Lists, Reviewed, Dismissed, PushConfirmed, Stale, PushBegins,
         PushRefused, SetLook, OnlyTab
    <3>6. UNCHANGED remote
      BY <2>3, <3>1, <3>2, <3>3, <3>4, <3>5 DEF PushNext
    <3>7. QED
      BY <3>6 DEF OnRemote, Of
  <2>4. QED
    BY <2>2, <2>3
<1>2. QED
  BY <1>1, PushStarts, PushStep, PushOfPlaces, PTL DEF PlacesSpec, PushedAsReviewed

(***************************************************************************)
(* The server's files.                                                     *)
(***************************************************************************)

RequestTrue(r) ==
    /\ appReq[r].kind = "add" => appReq[r].of \in Repo
    /\ appReq[r].kind = "close" => appReq[r].of \in DOMAIN parent /\ appReq[r].tree \subseteq DOMAIN parent
AppInv == AppTypeOK /\ \A r \in AppReq : RequestTrue(r)

RequestRecord == [kind : {"rest", "add", "model", "close", "move", "replace"},
    of : Repo \cup Entry \cup {NoEntry}, to : Entry \cup {NoEntry}, place : 0..MaxMoves + 1,
    target : 0..MaxMoves + 1, config : SUBSET (Repo \cup Setting),
    tree : SUBSET Entry, step : {"begun", "cloned", "read"}]

LEMMA AtRestTyped == AtRest \in RequestRecord /\ AtRest.kind = "rest" /\ AtRest.tree = {}
BY AppStateAssumption DEF AtRest, RequestRecord

\* A step of one request that leaves the files and the conversations as they are.
LEMMA RequestStep ==
    ASSUME AppInv, NEW r \in AppReq, NEW q \in RequestRecord,
           appReq' = [appReq EXCEPT ![r] = q],
           config' \subseteq Repo \cup Setting, bindings' \in [Entry -> 0..MaxMoves + 1],
           clones' \subseteq Repo, DOMAIN parent \subseteq DOMAIN parent', DOMAIN parent' \subseteq Entry,
           \A s \in DOMAIN parent' : parent'[s] \in DOMAIN parent' \cup {NoEntry},
           closed' \subseteq DOMAIN parent, moves' \in 0..MaxMoves, trouble' \in 0..MaxTrouble,
           q.kind = "add" => q.of \in Repo,
           q.kind = "close" => q.of \in DOMAIN parent /\ q.tree \subseteq DOMAIN parent
    PROVE  AppInv'
<1>1. appReq' \in [AppReq -> RequestRecord]
  BY DEF AppInv, AppTypeOK, RequestRecord
<1>2. AppTypeOK'
  BY <1>1 DEF AppTypeOK, RequestRecord
<1>3. ASSUME NEW o \in AppReq PROVE RequestTrue(o)'
  <2>1. appReq'[o] = IF o = r THEN q ELSE appReq[o]
    BY DEF AppInv, AppTypeOK
  <2>2. QED
    BY <2>1 DEF AppInv, RequestTrue
<1>4. QED
  BY <1>2, <1>3 DEF AppInv

LEMMA AppStarts == AppInit => AppInv
<1> SUFFICES ASSUME AppInit PROVE AppInv
  OBVIOUS
<1>1. PICK first \in Entry : /\ parent = [s \in {first} |-> NoEntry]
                             /\ bindings = [s \in Entry |-> IF s = first THEN 1 ELSE 0]
  BY AppStateAssumption DEF AppInit
<1>2. appReq \in [AppReq -> RequestRecord] /\ \A r \in AppReq : appReq[r].kind = "rest"
  BY AtRestTyped DEF AppInit
<1>3. AppTypeOK
  BY <1>1, <1>2, AppStateAssumption DEF AppInit, AppTypeOK, RequestRecord
<1>4. QED
  BY <1>2, <1>3 DEF AppInv, RequestTrue

LEMMA NewEntryIsNew ==
    ASSUME AppInv, DOMAIN parent # Entry PROVE NewEntry \in Entry /\ NewEntry \notin DOMAIN parent
<1>1. \E c \in Entry : c \notin DOMAIN parent
  BY DEF AppInv, AppTypeOK
<1>2. QED
  BY <1>1 DEF NewEntry

LEMMA AppStep == AppInv /\ [ConfigNext \/ EntriesNext]_appVars => AppInv'
<1> SUFFICES ASSUME AppInv, [ConfigNext \/ EntriesNext]_appVars PROVE AppInv'
  OBVIOUS
<1>1. /\ AppTypeOK /\ (\A r \in AppReq : RequestTrue(r)) /\ appReq \in [AppReq -> RequestRecord]
      /\ MaxMoves \in Nat /\ MaxTrouble \in Nat
  BY AppStateAssumption DEF AppInv, AppTypeOK, RequestRecord
<1>2. CASE UNCHANGED appVars
  BY <1>2 DEF appVars, AppInv, AppTypeOK, RequestTrue
<1>3. CASE ChangeOther
  BY <1>3 DEF ChangeOther, AppInv, AppTypeOK, RequestTrue, Setting
<1>4. CASE Stop
  <2>1. appReq' = [r \in AppReq |-> AtRest] /\ UNCHANGED <<files, clones, parent, moves>> /\ trouble' \in 0..MaxTrouble
    BY <1>1, <1>4 DEF Stop, Trouble, AppTypeOK
  <2>2. QED
    BY <2>1, AtRestTyped DEF AppInv, AppTypeOK, RequestTrue, RequestRecord, files
<1>5. ASSUME NEW r \in AppReq, Fails(r) PROVE AppInv'
  <2>1. appReq' = [appReq EXCEPT ![r] = AtRest] /\ UNCHANGED <<files, clones, parent, moves>> /\ trouble' \in 0..MaxTrouble
    BY <1>1, <1>5 DEF Fails, EndRequest, Trouble, AppTypeOK
  <2>2. QED
    BY <1>1, <2>1, AtRestTyped, RequestStep DEF AppTypeOK, files
<1>6. ASSUME NEW r \in AppReq, NEW repo \in Repo, AddProject(r, repo) PROVE AppInv'
  <2> DEFINE q == [AtRest EXCEPT !.kind = "add", !.of = repo, !.config = config]
  <2>1. q \in RequestRecord /\ q.kind = "add" /\ q.of \in Repo
    BY <1>1, AtRestTyped DEF AppTypeOK, RequestRecord
  <2>2. appReq' = [appReq EXCEPT ![r] = q] /\ UNCHANGED <<files, clones, parent, moves, trouble>>
    BY <1>6 DEF AddProject, BeginRequest
  <2> HIDE DEF q
  <2>3. QED
    BY <1>1, <2>1, <2>2, RequestStep DEF AppTypeOK, files
<1>7. ASSUME NEW r \in AppReq, Cloned(r) PROVE AppInv'
  <2> DEFINE q == [appReq[r] EXCEPT !.step = "cloned"]
  <2>1. q \in RequestRecord /\ q.kind = "add" /\ q.of = appReq[r].of /\ q.of \in Repo
    BY <1>1, <1>7 DEF Cloned, Busy, RequestRecord, RequestTrue
  <2>2. appReq' = [appReq EXCEPT ![r] = q] /\ UNCHANGED <<files, parent, moves, trouble>> /\ clones' = clones \cup {appReq[r].of}
    BY <1>7 DEF Cloned
  <2> HIDE DEF q
  <2>3. QED
    BY <1>1, <2>1, <2>2, RequestStep DEF AppTypeOK, files
<1>8. ASSUME NEW r \in AppReq, ChangeModel(r) PROVE AppInv'
  <2> DEFINE q == [AtRest EXCEPT !.kind = "model", !.config = config]
  <2>1. q \in RequestRecord /\ q.kind = "model"
    BY <1>1, AtRestTyped DEF AppTypeOK, RequestRecord
  <2>2. appReq' = [appReq EXCEPT ![r] = q] /\ UNCHANGED <<files, clones, parent, moves, trouble>>
    BY <1>8 DEF ChangeModel, BeginRequest
  <2> HIDE DEF q
  <2>3. QED
    BY <1>1, <2>1, <2>2, RequestStep DEF AppTypeOK, files
<1>9. ASSUME NEW r \in AppReq, SaveConfig(r) PROVE AppInv'
  <2>1. appReq' = [appReq EXCEPT ![r] = AtRest] /\ UNCHANGED <<bindings, closed, clones, parent, moves, trouble>>
    BY <1>9 DEF SaveConfig, EndRequest
  <2>2. config' \subseteq Repo \cup Setting
    BY <1>1, <1>9 DEF SaveConfig, ConfigSaved, Busy, RequestRecord, RequestTrue, Setting
  <2>3. QED
    BY <1>1, <2>1, <2>2, AtRestTyped, RequestStep DEF AppTypeOK
<1>10. ASSUME NEW r \in AppReq, Listed(r) PROVE AppInv'
  <2> DEFINE tree == Descendants(appReq[r].of, parent)
  <2> DEFINE q == [appReq[r] EXCEPT !.tree = tree, !.step = "read"]
  <2>1. tree \subseteq DOMAIN parent
    BY DEF Descendants
  <2>2. appReq' = [appReq EXCEPT ![r] = q] /\ UNCHANGED <<files, clones, parent, moves, trouble>> /\ appReq[r].kind = "close"
    BY <1>1, <1>10 DEF Listed, Busy
  <2> HIDE DEF tree
  <2>3. q \in RequestRecord /\ q.kind = "close" /\ q.of \in DOMAIN parent /\ q.tree = tree
    BY <1>1, <2>1, <2>2 DEF RequestRecord, RequestTrue, AppTypeOK
  <2> HIDE DEF q
  <2>4. QED
    BY <1>1, <2>1, <2>2, <2>3, RequestStep DEF AppTypeOK, files
<1>11. ASSUME NEW r \in AppReq, SaveClosed(r) PROVE AppInv'
  <2>1. /\ appReq' = [appReq EXCEPT ![r] = AtRest] /\ UNCHANGED <<config, bindings, clones, parent, moves, trouble>>
        /\ closed' = closed \cup {appReq[r].of} \cup appReq[r].tree /\ appReq[r].kind = "close"
    BY <1>11 DEF SaveClosed, EndRequest, Busy
  <2>2. closed' \subseteq DOMAIN parent
    BY <1>1, <2>1 DEF AppTypeOK, RequestTrue
  <2>3. QED
    BY <1>1, <2>1, <2>2, AtRestTyped, RequestStep DEF AppTypeOK
<1>12. ASSUME NEW r \in AppReq, EntryMoved(r) PROVE AppInv'
  <2>1. /\ appReq' = [appReq EXCEPT ![r] = AtRest] /\ UNCHANGED <<config, closed, clones, parent, moves, trouble>>
        /\ bindings' \in {bindings, [bindings EXCEPT ![appReq[r].of] = appReq[r].target]}
    BY <1>12 DEF EntryMoved, EndRequest
  <2>2. bindings' \in [Entry -> 0..MaxMoves + 1]
    BY <1>1, <2>1 DEF AppTypeOK, RequestRecord
  <2>3. QED
    BY <1>1, <2>1, <2>2, AtRestTyped, RequestStep DEF AppTypeOK
<1>13. ASSUME NEW r \in AppReq, Commit(r) PROVE AppInv'
  <2>1. /\ UNCHANGED <<config, clones, parent, moves>> /\ trouble' \in 0..MaxTrouble
        /\ bindings' = [bindings EXCEPT ![appReq[r].to] = appReq[r].place] /\ closed' \subseteq closed
        /\ \/ appReq' = [appReq EXCEPT ![r] = AtRest]
           \/ appReq' = [q \in AppReq |-> AtRest]
    BY <1>1, <1>13 DEF Commit, EndRequest, BoundFirst, Trouble, AppTypeOK
  <2>2. bindings' \in [Entry -> 0..MaxMoves + 1] /\ closed' \subseteq DOMAIN parent
    BY <1>1, <2>1 DEF AppTypeOK, RequestRecord
  <2>3. CASE appReq' = [appReq EXCEPT ![r] = AtRest]
    BY <1>1, <2>1, <2>2, <2>3, AtRestTyped, RequestStep DEF AppTypeOK
  <2>4. CASE appReq' = [q \in AppReq |-> AtRest]
    BY <1>1, <2>1, <2>2, <2>4, AtRestTyped DEF AppInv, AppTypeOK, RequestTrue, RequestRecord
  <2>5. QED
    BY <2>1, <2>3, <2>4
<1>14. ASSUME NEW r \in AppReq, NEW s \in Entry, Close(r, s) PROVE AppInv'
  <2> DEFINE q == [AtRest EXCEPT !.kind = "close", !.of = s]
  <2>1. q \in RequestRecord /\ q.kind = "close" /\ q.of = s /\ q.tree = {} /\ s \in DOMAIN parent
    BY <1>1, <1>14, AtRestTyped DEF Close, RequestRecord
  <2>2. appReq' = [appReq EXCEPT ![r] = q] /\ UNCHANGED <<files, clones, parent, moves, trouble>>
    BY <1>14 DEF Close, BeginRequest
  <2> HIDE DEF q
  <2>3. QED
    BY <1>1, <2>1, <2>2, RequestStep DEF AppTypeOK, files
<1>15. ASSUME NEW r \in AppReq, NEW s \in Entry, Move(r, s) PROVE AppInv'
  <2> DEFINE place == bindings[s]
  <2> DEFINE target == moves + 2
  <2> DEFINE q == [AtRest EXCEPT !.kind = "move", !.of = s, !.place = place, !.target = target]
  <2>1. /\ appReq' = [appReq EXCEPT ![r] = q] /\ UNCHANGED <<files, clones, parent, trouble>>
        /\ moves' = moves + 1 /\ moves < MaxMoves
    BY <1>15 DEF Move, BeginRequest
  <2>2. place \in 0..MaxMoves + 1 /\ target \in 0..MaxMoves + 1 /\ moves' \in 0..MaxMoves
    BY <1>1, <2>1 DEF AppTypeOK
  <2> HIDE DEF place, target
  <2>3. q \in RequestRecord /\ q.kind = "move"
    BY <2>2, AtRestTyped DEF RequestRecord
  <2> HIDE DEF q
  <2>4. QED
    BY <1>1, <2>1, <2>2, <2>3, RequestStep DEF AppTypeOK, files
<1>16. ASSUME NEW r \in AppReq, NEW s \in Entry, NEW t \in Entry, Replace(r, s, t) PROVE AppInv'
  <2> DEFINE place == bindings[s]
  <2> DEFINE q == [AtRest EXCEPT !.kind = "replace", !.of = s, !.to = t, !.place = place]
  <2>1. /\ appReq' = [appReq EXCEPT ![r] = q] /\ UNCHANGED <<files, clones, moves, trouble>>
        /\ parent' = [d \in DOMAIN parent \cup {t} |-> IF d \in DOMAIN parent THEN parent[d] ELSE NoEntry]
    BY <1>16 DEF Replace, BeginRequest
  <2>2. place \in 0..MaxMoves + 1
    BY <1>1 DEF AppTypeOK
  <2> HIDE DEF place
  <2>3. q \in RequestRecord /\ q.kind = "replace"
    BY <2>2, AtRestTyped DEF RequestRecord
  <2> HIDE DEF q
  <2>4. DOMAIN parent' = DOMAIN parent \cup {t} /\ \A d \in DOMAIN parent' : parent'[d] \in DOMAIN parent' \cup {NoEntry}
    BY <1>1, <2>1 DEF AppTypeOK
  <2>5. QED
    BY <1>1, <2>1, <2>3, <2>4, RequestStep DEF AppTypeOK, files
<1>17. ASSUME NEW s \in Entry, NEW c \in Entry, Fork(s, c) PROVE AppInv'
  <2>1. /\ parent' = [d \in DOMAIN parent \cup {c} |-> IF d = c THEN s ELSE parent[d]] /\ s \in DOMAIN parent
        /\ bindings' = [bindings EXCEPT ![c] = bindings[s]] /\ UNCHANGED <<config, closed, clones, appReq, moves, trouble>>
    BY <1>17 DEF Fork
  <2>2. DOMAIN parent' = DOMAIN parent \cup {c} /\ \A d \in DOMAIN parent' : parent'[d] \in DOMAIN parent' \cup {NoEntry}
    BY <1>1, <2>1 DEF AppTypeOK
  <2>3. AppTypeOK'
    BY <1>1, <2>1, <2>2 DEF AppTypeOK
  <2>4. QED
    BY <1>1, <2>1, <2>2, <2>3 DEF AppInv, RequestTrue
<1>18. QED
  BY <1>2, <1>3, <1>4, <1>5, <1>6, <1>7, <1>8, <1>9, <1>10, <1>11, <1>12, <1>13, <1>14, <1>15, <1>16, <1>17
  DEF ConfigNext, EntriesNext

LEMMA AppOfPlaces == (PlacesInit => AppInit) /\ ([PlacesNext]_placeVars => [ConfigNext \/ EntriesNext]_appVars)
BY DEF PlacesInit, PlacesNext, placeVars

\* server/config.js, bindings.js and routes: what one request wrote into the server's
\* files, no other undoes, except a project being added or the model being changed, which
\* write back the configuration they began with.
THEOREM StateKeptCorrect == PlacesSpec => StateKept
<1> DEFINE ConfigKept == config \ config' # {} => \E r \in Busy({"add", "model"}) : appReq'[r].kind = "rest"
           ClosedKept == \A s \in closed \ closed' : \E r \in Busy({"replace"}) :
                            appReq[r].to = s /\ appReq'[r].kind = "rest" /\ bindings'[s] = appReq[r].place
           BindingsKept == \A s \in DOMAIN parent : bindings'[s] # bindings[s] =>
                            \E r \in AppReq : appReq'[r].kind = "rest" /\
                                \/ appReq[r].kind = "move" /\ appReq[r].of = s /\ appReq[r].place = bindings[s]
                                \/ appReq[r].kind = "replace" /\ appReq[r].to = s
<1>1. AppInv /\ [ConfigNext \/ EntriesNext]_appVars => [ConfigKept /\ ClosedKept /\ BindingsKept]_appVars
  <2> SUFFICES ASSUME AppInv, ConfigNext \/ EntriesNext PROVE ConfigKept /\ ClosedKept /\ BindingsKept
    BY DEF appVars
  <2>1. /\ appReq \in [AppReq -> RequestRecord] /\ AtRest.kind = "rest" /\ DOMAIN parent \subseteq Entry
        /\ bindings \in [Entry -> 0..MaxMoves + 1] /\ closed \subseteq DOMAIN parent
    BY AtRestTyped DEF AppInv, AppTypeOK, RequestRecord
  <2>2. CASE ChangeOther
    BY <2>2 DEF ChangeOther
  <2>3. CASE Stop
    BY <2>3 DEF Stop, files
  <2>4. ASSUME NEW r \in AppReq,
               \/ Fails(r) \/ Cloned(r) \/ ChangeModel(r) \/ Listed(r)
               \/ \E repo \in Repo : AddProject(r, repo)
               \/ \E s \in Entry : Close(r, s) \/ Move(r, s) \/ \E t \in Entry : Replace(r, s, t)
        PROVE  UNCHANGED files
    BY <2>4 DEF Fails, Cloned, ChangeModel, Listed, AddProject, Close, Move, Replace, files
  <2>5. ASSUME NEW r \in AppReq, SaveConfig(r) PROVE ConfigKept /\ ClosedKept /\ BindingsKept
    <3>1. r \in Busy({"add", "model"}) /\ appReq'[r].kind = "rest" /\ UNCHANGED <<bindings, closed>>
      BY <2>1, <2>5 DEF SaveConfig, ConfigSaved, EndRequest, Busy
    <3>2. QED
      BY <3>1
  <2>6. ASSUME NEW r \in AppReq, SaveClosed(r) PROVE ConfigKept /\ ClosedKept /\ BindingsKept
    BY <2>6 DEF SaveClosed
  <2>7. ASSUME NEW r \in AppReq, EntryMoved(r) PROVE ConfigKept /\ ClosedKept /\ BindingsKept
    <3>1. appReq[r].kind = "move" /\ appReq'[r].kind = "rest" /\ UNCHANGED <<config, closed>>
      BY <2>1, <2>7 DEF EntryMoved, EndRequest, Busy
    <3>2. ASSUME NEW s \in DOMAIN parent, bindings'[s] # bindings[s] PROVE appReq[r].of = s /\ appReq[r].place = bindings[s]
      BY <2>1, <2>7, <3>2 DEF EntryMoved, StillThere
    <3>3. QED
      BY <3>1, <3>2
  <2>8. ASSUME NEW r \in AppReq, Commit(r) PROVE ConfigKept /\ ClosedKept /\ BindingsKept
    <3>1. /\ r \in Busy({"replace"}) /\ appReq'[r].kind = "rest" /\ UNCHANGED config
          /\ bindings' = [bindings EXCEPT ![appReq[r].to] = appReq[r].place] /\ closed' \in {closed, closed \ {appReq[r].to}}
      BY <2>1, <2>8 DEF Commit, EndRequest, BoundFirst
    <3>2. r \in AppReq /\ appReq[r].kind = "replace"
      BY <3>1 DEF Busy
    <3>3. ClosedKept
      BY <2>1, <3>1
    <3>4. BindingsKept
      BY <2>1, <3>1, <3>2
    <3>5. QED
      BY <3>1, <3>3, <3>4
  <2>9. ASSUME NEW s \in Entry, NEW c \in Entry, Fork(s, c) PROVE ConfigKept /\ ClosedKept /\ BindingsKept
    <3>1. c \notin DOMAIN parent /\ bindings' = [bindings EXCEPT ![c] = bindings[s]] /\ UNCHANGED <<config, closed>>
      BY <2>9, NewEntryIsNew DEF Fork
    <3>2. QED
      BY <2>1, <3>1
  <2>10. UNCHANGED files => ConfigKept /\ ClosedKept /\ BindingsKept
    BY DEF files
  <2>11. QED
    BY <2>2, <2>3, <2>4, <2>5, <2>6, <2>7, <2>8, <2>9, <2>10 DEF ConfigNext, EntriesNext
<1>2. QED
  BY <1>1, AppStarts, AppStep, AppOfPlaces, PTL DEF PlacesSpec, StateKept

(***************************************************************************)
(* The repository and its conversations: where an operation is and what    *)
(* it may rely on there.                                                   *)
(***************************************************************************)

MergeShape ==
    op.kind = "merge" =>
        /\ op.by \in Session /\ op.path \in Path /\ op.branch # Main /\ Exists(op.branch) /\ ~op.force
        /\ op.step \in {"prepare", "switching", "fetch", "merge", "merging", "gather", "rehome", "remove",
                        "removing", "delete", "deleting"}
        /\ op.step \in {"gather", "rehome", "remove", "removing", "delete", "deleting"} => op.done
DeleteShape ==
    op.kind = "delete" =>
        /\ op.branch \in Branch /\ (op.path = Gone => op.moving = {})
        /\ op.step \in {"prepare", "switching", "gather", "rehome", "remove", "removing", "delete", "deleting"}
ContextShape ==
    op.kind \in {"create", "move"} =>
        /\ op.by \in Session /\ op.path \in Path /\ (op.branch = Main => op.path = Checkout)
        /\ op.step \in {"prepare", "switching", "fetch", "add", "adding", "settle"}
        /\ op.step \in {"fetch", "add", "adding"} => op.branch \in Branch
        /\ op.step = "adding" => op.path = op.branch
        /\ op.step = "settle" => at[op.path] # Gone
        /\ op.kind = "create" => forking[op.by] = Gone
        /\ op.kind = "move" => op.from # Gone
SwitchShape ==
    op.kind = "switch" =>
        op.by \in Session /\ op.path \in Path /\ at[op.path] # Gone /\ op.from # Gone /\ op.step \in {"switching", "settle"}
ForkShape ==
    op.kind = "fork" =>
        /\ op.by \in Session /\ op.path \in Path /\ op.branch \in Branch /\ \A c \in op.moving : forking[c] = Gone
        /\ op.step \in {"stash", "ref", "branch", "apply", "restore", "list", "drop", "child", "cleanup", "quit"}
        /\ op.step \in {"stash", "ref", "branch"} => ~op.done /\ ~op.failed
        /\ op.step \in {"apply", "child", "cleanup"} => op.done
        /\ (op.step \in {"restore", "list", "drop"} /\ ~op.failed) => op.done
        /\ op.step \in {"apply", "restore", "list", "drop"} => op.ref # {}
        /\ op.done => at[op.branch] # Gone /\ op.path # op.branch
        /\ ~op.done => ~Exists(op.branch)
RemoteShape == op.kind = "remote" => op.step = "remote"
OpShape ==
    /\ MergeShape /\ DeleteShape /\ ContextShape /\ SwitchShape /\ ForkShape /\ RemoteShape
    /\ op.step = "removing" => op.path \notin {Gone, Checkout}

\* A worktree that is not there holds no work; a conversation being forked has no
\* workspace yet, and one in a turn has one.
NoDirt == \A p \in Path : at[p] = Gone => dirty[p] = {}
Single == \A s \in Session : home[s] # Gone => forking[s] = Gone
AtWork == \A s \in running : home[s] # Gone
TypeInv == TypeOK /\ Exists(Main) /\ NoDirt /\ Single /\ AtWork /\ (op # NoOp => OpShape)

LEMMA NoOpKind == NoOp.kind = "none" /\ (op \in Operations => op # NoOp)
BY DEF NoOp, Operations

LEMMA Started == TypeInv /\ op # NoOp => op \in Operations /\ OpShape
BY DEF TypeInv, TypeOK

LEMMA RepositoryStarts == Init => TypeInv
<1> SUFFICES ASSUME Init PROVE TypeInv
  OBVIOUS
<1>1. /\ Checkout \notin Branch /\ Gone \notin Branch \cup {Checkout} /\ Feature \in Branch
      /\ {MaxWork, MaxOps, MaxTurns, MaxFaults} \subseteq Nat /\ Moved \subseteq Session /\ Early \subseteq Session
  BY GitAssumption
<1>2. /\ at = [p \in Path |-> IF p \in {Checkout, Feature} THEN p ELSE Gone]
      /\ home = [s \in Session |-> IF s \in Moved THEN Feature ELSE IF s \in Early THEN Checkout ELSE Gone]
      /\ dirty = [p \in Path |-> IF p = Feature THEN 1..made ELSE {}] /\ stash = <<>> /\ made \in {0, 1} \cap 0..MaxWork
      /\ forking = [s \in Session |-> Gone] /\ running = {} /\ synced \in {{}, Early}
      /\ op = NoOp /\ answer = "none" /\ asked = 0 /\ turns = 0 /\ faults = 0
      /\ given = {} /\ late = {} /\ strays = {}
  BY DEF Init
<1>3. PICK B \in SUBSET Branch : tip = [b \in Branch \cup {Main} |-> IF b \in {Main, Feature} \cup B THEN {} ELSE NoBranch]
  BY DEF Init
<1>4. {} # NoBranch
  BY DEF NoBranch
<1>5. /\ tip \in [Branch \cup {Main} -> (SUBSET Work) \cup {NoBranch}] /\ Exists(Main)
      /\ \A p \in Path : at[p] # Gone => tip[at[p]] # NoBranch
  <2>1. tip \in [Branch \cup {Main} -> (SUBSET Work) \cup {NoBranch}]
    BY <1>3
  <2>2. tip[Main] = {} /\ tip[Feature] = {}
    BY <1>1, <1>3
  <2>3. \A p \in Path : at[p] # Gone => at[p] \in {Main, Feature}
    BY <1>2 DEF Main
  <2>4. QED
    BY <1>4, <2>1, <2>2, <2>3 DEF Exists
<1>6. at \in [Path -> Branch \cup {Main, Gone}] /\ at[Checkout] # Gone /\ NoDirt
  BY <1>1, <1>2 DEF Path, Main, NoDirt
<1>7. dirty \in [Path -> SUBSET Work] /\ stash \in Seq(SUBSET Work) /\ made \in 0..MaxWork
  BY <1>1, <1>2 DEF Path, Work
<1>8. home \in [Session -> Path \cup {Gone}] /\ forking \in [Session -> Path \cup {Gone}] /\ Single /\ synced \subseteq Session
  BY <1>1, <1>2 DEF Path, Single
<1>9. QED
  BY <1>1, <1>2, <1>5, <1>6, <1>7, <1>8 DEF TypeInv, TypeOK, AtWork

\* A request uses no Git and moves nobody.
LEMMA RequestFrame == Request => UNCHANGED <<git, home, running, synced, made, history, faults>>
<1>1. RemoteAsked => Steady /\ Works
  BY DEF RemoteAsked
<1>2. \A b \in Branch, force \in BOOLEAN : DeleteAsked(b, force) => Steady /\ Works
  BY DEF DeleteAsked
<1>3. \A s \in Session : MergeAsked(s) => Steady /\ Works
  BY DEF MergeAsked
<1>4. \A s \in Session, b \in Branch \cup {Main} : CreateAsked(s, b) \/ MoveAsked(s, b) \/ SwitchAsked(s, b) => Steady /\ Works
  BY DEF CreateAsked, MoveAsked, SwitchAsked
<1>5. \A s, c \in Session, b \in Branch : ForkAsked(s, c, b) => Steady /\ Works
  BY DEF ForkAsked
<1>6. \A s, c \in Session : ConversationFork(s, c) => UNCHANGED <<git, home, running, synced, made, history, faults>>
  BY DEF ConversationFork, Works
<1>7. QED
  BY <1>1, <1>2, <1>3, <1>4, <1>5, <1>6 DEF Request, Steady, Works

\* Which steps use Git, and which move conversations.
LEMMA GitFrame ==
    [Next]_vars => \/ UNCHANGED git
                   \/ Switching \/ Merging \/ Removing \/ Deleting \/ Adding
                   \/ StashPush \/ AddFork \/ Apply \/ Restore \/ StashDrop \/ Cleanup
                   \/ \E s \in Session : AgentEdits(s) \/ AgentCommits(s) \/ AgentStashes(s)
                                         \/ \E b \in Branch \cup {Main} : AgentSwitches(s, b)
<1>1. Prepare \/ Fetch \/ Merge \/ Gather \/ Rehomed \/ Remove \/ Delete \/ Add \/ Settle \/ StashRef \/ StashList
      \/ Quit \/ Remote => UNCHANGED git
  BY DEF Prepare, Fetch, Merge, Gather, Rehomed, Remove, Delete, Add, Settle, StashRef, StashList, Quit, Remote, Steady
<1>2. \A s \in Session : Rehome(s) \/ ForkChild(s) => UNCHANGED git
  BY DEF Rehome, ForkChild
<1>3. Request => UNCHANGED git
  BY RequestFrame
<1>4. (\E s \in Session : ConversationForked(s) \/ TurnEnds(s) \/ TurnStarts(s)) \/ Restart => UNCHANGED git
  BY DEF ConversationForked, TurnEnds, TurnStarts, Restart
<1>5. QED
  BY <1>1, <1>2, <1>3, <1>4 DEF Next, Step, Turn, vars

LEMMA HomeFrame ==
    [Next]_vars => \/ UNCHANGED <<home, forking>>
                   \/ (Settle \/ \E s \in Session : Rehome(s) \/ ForkChild(s)) /\ UNCHANGED forking
                   \/ Restart \/ \E s \in Session : ConversationForked(s)
                   \/ \E s, c \in Session : ConversationFork(s, c)
<1>1. Step => UNCHANGED forking /\ (UNCHANGED home \/ Settle \/ \E s \in Session : Rehome(s) \/ ForkChild(s))
  BY DEF Step, Prepare, Switching, Fetch, Merge, Merging, Gather, Rehomed, Remove, Removing, Delete, Deleting, Add, Adding,
     StashPush, StashRef, AddFork, Apply, Restore, StashList, StashDrop, Cleanup, Quit, Remote, Steady
<1>2. Request => UNCHANGED <<home, forking>> \/ \E s, c \in Session : ConversationFork(s, c)
  BY DEF Request, RemoteAsked, DeleteAsked, MergeAsked, CreateAsked, MoveAsked, SwitchAsked, ForkAsked, Steady
<1>3. Turn => UNCHANGED <<home, forking>> \/ \E s \in Session : ConversationForked(s)
  BY DEF Turn, TurnEnds, AgentEdits, AgentCommits, AgentStashes, AgentSwitches, Agent
<1>4. \A s \in Session : TurnStarts(s) /\ UNCHANGED forking => UNCHANGED <<home, forking>>
  BY DEF TurnStarts
<1>5. QED
  BY <1>1, <1>2, <1>3, <1>4 DEF Next, vars

RepositoryOK ==
    /\ at \in [Path -> Branch \cup {Main, Gone}] /\ at[Checkout] # Gone
    /\ tip \in [Branch \cup {Main} -> (SUBSET Work) \cup {NoBranch}] /\ Exists(Main)
    /\ \A p \in Path : at[p] # Gone => tip[at[p]] # NoBranch
    /\ dirty \in [Path -> SUBSET Work] /\ stash \in Seq(SUBSET Work) /\ NoDirt

LEMMA Names == Gone \notin Path /\ Main \notin Branch /\ Checkout \in Path /\ Branch \cup {Main} = Path /\ Main = Checkout /\ Gone # Main
BY GitAssumption DEF Path, Main

LEMMA NoBranchIsNoWork == NoBranch \notin SUBSET Work
BY GitAssumption DEF NoBranch, Work

LEMMA RepositoryTyped == TypeInv /\ [Next]_vars => RepositoryOK'
<1> SUFFICES ASSUME TypeInv, [Next]_vars PROVE RepositoryOK'
  OBVIOUS
<1>1. RepositoryOK /\ (op # NoOp => op \in Operations /\ OpShape)
  BY Started DEF TypeInv, TypeOK, RepositoryOK
<1>2. \A b \in Branch \cup {Main} : Exists(b) => tip[b] \in SUBSET Work
  BY <1>1 DEF Exists, RepositoryOK
<1>3. CASE UNCHANGED git
  BY <1>1, <1>3 DEF git, RepositoryOK, NoDirt, Exists
<1>4. CASE Switching
  <2>1. CASE UNCHANGED at
    BY <1>1, <1>4, <2>1 DEF Switching, RepositoryOK, NoDirt, Exists
  <2>2. CASE ~UNCHANGED at
    <3>1. PICK p \in Path, b \in Branch \cup {Main} : CanSwitch(p, b) /\ at' = [at EXCEPT ![p] = b] /\ UNCHANGED <<tip, dirty, stash>>
      <4>1. op # NoOp /\ op.step = "switching" /\ UNCHANGED <<tip, dirty, stash>>
        BY <1>4 DEF Switching
      <4>2. op.kind = "switch" => op.path \in Path
        BY <1>1, <4>1 DEF OpShape, SwitchShape
      <4>3. op.branch \in Branch \cup {Main}
        BY <1>1, <4>1 DEF Operations
      <4>4. QED
        BY <1>4, <2>2, <4>1, <4>2, <4>3, Names DEF Switching, Target
    <3>2. b # Gone /\ tip[b] # NoBranch /\ at[p] # Gone
      BY <3>1, Names DEF CanSwitch, Exists, Path
    <3>3. at' \in [Path -> Branch \cup {Main, Gone}]
      BY <1>1, <3>1 DEF RepositoryOK
    <3>4. \A q \in Path : at'[q] = IF q = p THEN b ELSE at[q]
      BY <1>1, <3>1 DEF RepositoryOK
    <3>5. QED
      BY <1>1, <3>1, <3>2, <3>3, <3>4, Names DEF RepositoryOK, NoDirt, Exists
  <2>3. QED
    BY <2>1, <2>2
<1>5. CASE Merging
  <2>1. UNCHANGED <<at, dirty, stash>> /\ op # NoOp /\ op.kind = "merge"
    BY <1>5 DEF Merging, Is
  <2>2. op.branch \in Branch \cup {Main} /\ Exists(op.branch) /\ at[Checkout] \in Branch \cup {Main} /\ Exists(at[Checkout])
    BY <1>1, <2>1, Names DEF Operations, OpShape, MergeShape, RepositoryOK, Exists
  <2>3. tip' \in {tip, [tip EXCEPT ![at[Checkout]] = @ \cup tip[op.branch]]}
    BY <1>5 DEF Merging
  <2>4. tip' \in [Branch \cup {Main} -> (SUBSET Work) \cup {NoBranch}] /\ \A b \in Branch \cup {Main} : Exists(b)' <=> Exists(b)
    <3>1. tip[at[Checkout]] \cup tip[op.branch] \in SUBSET Work
      BY <1>2, <2>2
    <3>2. QED
      BY <1>1, <2>2, <2>3, <3>1, NoBranchIsNoWork DEF RepositoryOK, Exists
  <2>5. QED
    BY <1>1, <2>1, <2>4, Names DEF RepositoryOK, NoDirt, Exists
<1>6. CASE Removing
  <2>1. UNCHANGED <<tip, stash>> /\ op # NoOp /\ op.step = "removing" /\ op.path \in Path \ {Checkout}
    BY <1>1, <1>6 DEF Removing, Is, OpShape, Operations
  <2>2. \/ UNCHANGED <<at, dirty>>
        \/ at' = [at EXCEPT ![op.path] = Gone] /\ dirty' = [dirty EXCEPT ![op.path] = {}]
    BY <1>6 DEF Removing
  <2>3. CASE UNCHANGED <<at, dirty>>
    BY <1>1, <2>1, <2>3 DEF RepositoryOK, NoDirt, Exists
  <2>4. CASE at' = [at EXCEPT ![op.path] = Gone] /\ dirty' = [dirty EXCEPT ![op.path] = {}]
    <3>1. at' \in [Path -> Branch \cup {Main, Gone}] /\ dirty' \in [Path -> SUBSET Work] /\ at'[Checkout] = at[Checkout]
      BY <1>1, <2>1, <2>4, Names DEF RepositoryOK
    <3>2. \A p \in Path : \/ at'[p] = Gone /\ dirty'[p] = {}
                          \/ at'[p] = at[p] /\ dirty'[p] = dirty[p]
      BY <1>1, <2>1, <2>4 DEF RepositoryOK
    <3>3. QED
      BY <1>1, <2>1, <3>1, <3>2 DEF RepositoryOK, NoDirt, Exists
  <2>5. QED
    BY <2>2, <2>3, <2>4
<1>7. CASE Deleting
  <2>1. UNCHANGED <<at, dirty, stash>> /\ op # NoOp /\ op.kind \in {"merge", "delete"}
    BY <1>7 DEF Deleting, Is
  <2>2. op.branch \in Branch
    BY <1>1, <2>1, Names DEF Operations, OpShape, MergeShape, DeleteShape
  <2>3. \/ UNCHANGED tip
        \/ tip' = [tip EXCEPT ![op.branch] = NoBranch] /\ Where(op.branch) = {}
    BY <1>7 DEF Deleting, CanDeleteBranch
  <2>4. CASE UNCHANGED tip
    BY <1>1, <2>1, <2>4 DEF RepositoryOK, NoDirt, Exists
  <2>5. CASE tip' = [tip EXCEPT ![op.branch] = NoBranch] /\ Where(op.branch) = {}
    <3>1. \A p \in Path : at[p] # op.branch
      BY <2>5 DEF Where
    <3>2. QED
      BY <1>1, <2>1, <2>2, <2>5, <3>1, Names DEF RepositoryOK, NoDirt, Exists
  <2>6. QED
    BY <2>3, <2>4, <2>5
<1>8. CASE Adding
  <2>1. UNCHANGED <<dirty, stash>> /\ op # NoOp /\ op.kind \in {"create", "move"} /\ op.step = "adding"
    BY <1>8 DEF Adding, Is
  <2>2. op.branch \in Branch /\ op.branch \in Path /\ op.branch # Checkout /\ op.branch # Gone
    BY <1>1, <2>1, Names DEF OpShape, ContextShape
  <2>3. \/ UNCHANGED <<at, tip>>
        \/ /\ at' = [at EXCEPT ![op.branch] = op.branch]
           /\ tip' = [tip EXCEPT ![op.branch] = IF @ = NoBranch THEN tip[Main] ELSE @]
    BY <1>8 DEF Adding
  <2>4. CASE UNCHANGED <<at, tip>>
    BY <1>1, <2>1, <2>4 DEF RepositoryOK, NoDirt, Exists
  <2>5. CASE /\ at' = [at EXCEPT ![op.branch] = op.branch]
             /\ tip' = [tip EXCEPT ![op.branch] = IF @ = NoBranch THEN tip[Main] ELSE @]
    <3>1. tip' \in [Branch \cup {Main} -> (SUBSET Work) \cup {NoBranch}]
      BY <1>1, <2>2, <2>5 DEF RepositoryOK, Exists
    <3>2. \A b \in Branch \cup {Main} : tip[b] # NoBranch \/ b = op.branch => tip'[b] # NoBranch
      BY <1>1, <2>2, <2>5 DEF RepositoryOK, Exists
    <3>3. at' \in [Path -> Branch \cup {Main, Gone}] /\ at'[Checkout] # Gone /\ \A p \in Path : at'[p] = IF p = op.branch THEN op.branch ELSE at[p]
      BY <1>1, <2>2, <2>5 DEF RepositoryOK
    <3>4. QED
      BY <1>1, <2>1, <2>2, <3>1, <3>2, <3>3, Names DEF RepositoryOK, NoDirt, Exists
  <2>6. QED
    BY <2>3, <2>4, <2>5
<1>9. CASE StashPush
  <2>1. UNCHANGED <<at, tip>> /\ op # NoOp /\ op.kind = "fork"
    BY <1>9 DEF StashPush, Is
  <2>2. op.path \in Path
    BY <1>1, <2>1 DEF OpShape, ForkShape
  <2>3. (stash' = stash \/ stash' = <<dirty[op.path]>> \o stash) /\ dirty' \in {dirty, [dirty EXCEPT ![op.path] = {}]}
    BY <1>9 DEF StashPush
  <2>4. dirty[op.path] \in SUBSET Work
    BY <1>1, <2>2 DEF RepositoryOK
  <2>5. stash' \in Seq(SUBSET Work)
    <3>1. ASSUME stash' = <<dirty[op.path]>> \o stash PROVE stash' \in Seq(SUBSET Work)
      BY <1>1, <2>4, <3>1 DEF RepositoryOK
    <3>2. QED
      BY <1>1, <2>3, <3>1 DEF RepositoryOK
  <2>6. QED
    BY <1>1, <2>1, <2>2, <2>3, <2>5 DEF RepositoryOK, NoDirt, Exists
<1>10. CASE AddFork
  <2>1. UNCHANGED <<dirty, stash>> /\ op # NoOp /\ op.kind = "fork"
    BY <1>10 DEF AddFork, Is
  <2>2. op.branch \in Branch /\ op.branch \in Path /\ op.branch # Checkout /\ op.branch # Gone /\ op.path \in Path
    BY <1>1, <2>1, Names DEF OpShape, ForkShape
  <2>3. \/ UNCHANGED <<at, tip>>
        \/ /\ at' = [at EXCEPT ![op.branch] = op.branch] /\ at[op.path] # Gone
           /\ tip' = [tip EXCEPT ![op.branch] = tip[at[op.path]]]
    BY <1>10 DEF AddFork
  <2>4. CASE UNCHANGED <<at, tip>>
    BY <1>1, <2>1, <2>4 DEF RepositoryOK, NoDirt, Exists
  <2>5. CASE /\ at' = [at EXCEPT ![op.branch] = op.branch] /\ at[op.path] # Gone
             /\ tip' = [tip EXCEPT ![op.branch] = tip[at[op.path]]]
    <3>0. tip[at[op.path]] \in SUBSET Work /\ tip[at[op.path]] # NoBranch
      BY <1>1, <1>2, <2>2, <2>5 DEF RepositoryOK, Exists
    <3>1. tip' \in [Branch \cup {Main} -> (SUBSET Work) \cup {NoBranch}]
      BY <1>1, <2>2, <2>5, <3>0 DEF RepositoryOK
    <3>2. \A b \in Branch \cup {Main} : tip[b] # NoBranch \/ b = op.branch => tip'[b] # NoBranch
      BY <1>1, <2>2, <2>5, <3>0 DEF RepositoryOK
    <3>3. at' \in [Path -> Branch \cup {Main, Gone}] /\ at'[Checkout] # Gone /\ \A p \in Path : at'[p] = IF p = op.branch THEN op.branch ELSE at[p]
      BY <1>1, <2>2, <2>5 DEF RepositoryOK
    <3>4. QED
      BY <1>1, <2>1, <2>2, <3>1, <3>2, <3>3, Names DEF RepositoryOK, NoDirt, Exists
  <2>6. QED
    BY <2>3, <2>4, <2>5
<1>11. CASE Apply \/ Restore
  <2>1. UNCHANGED <<at, tip, stash>> /\ op # NoOp /\ op.kind = "fork" /\ op.step \in {"apply", "restore"}
    BY <1>11 DEF Apply, Restore, Is
  <2>2. PICK p \in Path : at[p] # Gone /\ dirty' \in {dirty, [dirty EXCEPT ![p] = @ \cup op.ref]}
    <3>1. op.branch \in Path /\ op.path \in Path /\ (op.step = "apply" => at[op.branch] # Gone)
      BY <1>1, <2>1, Names DEF OpShape, ForkShape
    <3>2. Apply => dirty' = dirty \/ dirty' = [dirty EXCEPT ![op.branch] = @ \cup op.ref]
      BY DEF Apply
    <3>3. Restore => dirty' = dirty \/ (at[op.path] # Gone /\ dirty' = [dirty EXCEPT ![op.path] = @ \cup op.ref])
      BY DEF Restore
    <3>4. Apply => op.step = "apply"
      BY DEF Apply, Is
    <3>5. QED
      BY <1>1, <1>11, <3>1, <3>2, <3>3, <3>4, Names DEF RepositoryOK
  <2>3. op.ref \in SUBSET Work
    BY <1>1, <2>1 DEF Operations
  <2>4. dirty' \in [Path -> SUBSET Work] /\ \A q \in Path : q # p => dirty'[q] = dirty[q]
    BY <1>1, <2>2, <2>3 DEF RepositoryOK
  <2>5. QED
    BY <1>1, <2>1, <2>2, <2>4 DEF RepositoryOK, NoDirt, Exists
<1>12. CASE StashDrop
  <2>1. UNCHANGED <<at, tip, dirty>> /\ \/ UNCHANGED stash
                                        \/ stash' = [i \in 1..Len(stash) - 1 |-> stash[IF i < op.index THEN i ELSE i + 1]]
    BY <1>12 DEF StashDrop
  <2>2. CASE stash' = [i \in 1..Len(stash) - 1 |-> stash[IF i < op.index THEN i ELSE i + 1]]
    <3>1. stash \in Seq(SUBSET Work) /\ Len(stash) \in Nat /\ \A i \in 1..Len(stash) : stash[i] \in SUBSET Work
      BY <1>1 DEF RepositoryOK
    <3>2. \A i \in 1..Len(stash) - 1 : (IF i < op.index THEN i ELSE i + 1) \in 1..Len(stash)
      BY <3>1
    <3>3. DOMAIN stash' = 1..Len(stash) - 1 /\ \A i \in 1..Len(stash) - 1 : stash'[i] \in SUBSET Work
      BY <2>2, <3>1, <3>2
    <3>4. stash' \in Seq(SUBSET Work)
      <4>1. CASE Len(stash) = 0
        BY <2>2, <4>1, <3>3
      <4>2. CASE Len(stash) # 0
        <5> DEFINE n == Len(stash) - 1
        <5>1. n \in Nat
          BY <3>1, <4>2
        <5>2. stash' \in [1..n -> SUBSET Work]
          BY <2>2, <3>1, <3>2
        <5> HIDE DEF n
        <5>3. QED
          BY <5>1, <5>2
      <4>3. QED
        BY <4>1, <4>2
    <3>5. QED
      BY <1>1, <2>1, <3>4 DEF RepositoryOK, NoDirt, Exists
  <2>3. QED
    BY <1>1, <2>1, <2>2 DEF RepositoryOK, NoDirt, Exists
<1>13. CASE Cleanup
  <2>1. UNCHANGED stash /\ op # NoOp /\ op.kind = "fork"
    BY <1>13 DEF Cleanup, Is
  <2>2. op.branch \in Branch /\ op.branch \in Path /\ op.branch # Checkout /\ op.branch # Gone /\ op.branch # Main
    BY <1>1, <2>1, Names DEF OpShape, ForkShape
  <2>3. \/ UNCHANGED <<at, dirty, tip>>
        \/ /\ at' = [at EXCEPT ![op.branch] = Gone] /\ dirty' = [dirty EXCEPT ![op.branch] = {}]
           /\ tip' = IF Where(op.branch) \subseteq {op.branch} THEN [tip EXCEPT ![op.branch] = NoBranch] ELSE tip
    BY <1>13 DEF Cleanup
  <2>4. CASE UNCHANGED <<at, dirty, tip>>
    BY <1>1, <2>1, <2>4 DEF RepositoryOK, NoDirt, Exists
  <2>5. CASE /\ at' = [at EXCEPT ![op.branch] = Gone] /\ dirty' = [dirty EXCEPT ![op.branch] = {}]
             /\ tip' = IF Where(op.branch) \subseteq {op.branch} THEN [tip EXCEPT ![op.branch] = NoBranch] ELSE tip
    <3>1. at' \in [Path -> Branch \cup {Main, Gone}] /\ at'[Checkout] # Gone /\ dirty' \in [Path -> SUBSET Work] /\ NoDirt'
      BY <1>1, <2>2, <2>5 DEF RepositoryOK, NoDirt
    <3>2. tip' \in [Branch \cup {Main} -> (SUBSET Work) \cup {NoBranch}] /\ Exists(Main)'
      BY <1>1, <2>2, <2>5 DEF RepositoryOK, Exists
    <3>3. ASSUME NEW p \in Path, at'[p] # Gone PROVE tip'[at'[p]] # NoBranch
      <4>1. p # op.branch /\ at'[p] = at[p] /\ at[p] \in Branch \cup {Main}
        BY <1>1, <2>2, <2>5, <3>3 DEF RepositoryOK
      <4>2. Where(op.branch) \subseteq {op.branch} => at[p] # op.branch
        BY <4>1 DEF Where
      <4>3. tip'[at[p]] = tip[at[p]]
        BY <1>1, <2>2, <2>5, <4>1, <4>2 DEF RepositoryOK
      <4>4. tip[at[p]] # NoBranch
        BY <1>1, <3>3, <4>1 DEF RepositoryOK
      <4>5. QED
        BY <4>1, <4>3, <4>4
    <3>4. QED
      BY <1>1, <2>1, <3>1, <3>2, <3>3 DEF RepositoryOK
  <2>6. QED
    BY <2>3, <2>4, <2>5
<1>14. ASSUME NEW s \in Session, AgentEdits(s) \/ AgentCommits(s) \/ AgentStashes(s) \/ \E b \in Branch \cup {Main} : AgentSwitches(s, b)
       PROVE  RepositoryOK'
  <2>1. home[s] \in Path /\ at[home[s]] # Gone /\ at[home[s]] \in Branch \cup {Main} /\ Exists(at[home[s]])
    <3>1. s \in running /\ at[home[s]] # Gone /\ home[s] \in Path \cup {Gone}
      BY <1>14 DEF AgentEdits, AgentCommits, AgentStashes, AgentSwitches, Agent, TypeInv, TypeOK
    <3>2. home[s] # Gone
      BY <3>1 DEF TypeInv, AtWork
    <3>3. QED
      BY <1>1, <3>1, <3>2 DEF RepositoryOK, Exists
  <2>2. CASE AgentEdits(s)
    <3>1. UNCHANGED <<at, tip, stash>> /\ dirty' = [dirty EXCEPT ![home[s]] = @ \cup {made + 1}]
      BY <2>2 DEF AgentEdits
    <3>2. made + 1 \in Work
      BY <2>2, GitAssumption DEF AgentEdits, TypeInv, TypeOK, Work
    <3>3. QED
      BY <1>1, <2>1, <3>1, <3>2 DEF RepositoryOK, NoDirt, Exists
  <2>3. CASE AgentCommits(s)
    <3>1. /\ UNCHANGED <<at, stash>> /\ dirty' = [dirty EXCEPT ![home[s]] = {}]
          /\ tip' = [tip EXCEPT ![at[home[s]]] = @ \cup dirty[home[s]]]
      BY <2>3 DEF AgentCommits
    <3>2. tip[at[home[s]]] \cup dirty[home[s]] \in SUBSET Work
      BY <1>1, <1>2, <2>1 DEF RepositoryOK
    <3>3. tip' \in [Branch \cup {Main} -> (SUBSET Work) \cup {NoBranch}] /\ \A b \in Branch \cup {Main} : Exists(b)' <=> Exists(b)
      BY <1>1, <2>1, <3>1, <3>2, NoBranchIsNoWork DEF RepositoryOK, Exists
    <3>4. QED
      BY <1>1, <2>1, <3>1, <3>3, Names DEF RepositoryOK, NoDirt, Exists
  <2>4. CASE AgentStashes(s)
    <3>1. UNCHANGED <<at, tip>> /\ dirty' = [dirty EXCEPT ![home[s]] = {}] /\ stash' = <<dirty[home[s]]>> \o stash
      BY <2>4 DEF AgentStashes
    <3>2. dirty[home[s]] \in SUBSET Work
      BY <1>1, <2>1 DEF RepositoryOK
    <3>3. stash' \in Seq(SUBSET Work)
      BY <1>1, <3>1, <3>2 DEF RepositoryOK
    <3>4. QED
      BY <1>1, <2>1, <3>1, <3>3 DEF RepositoryOK, NoDirt, Exists
  <2>5. ASSUME NEW b \in Branch \cup {Main}, AgentSwitches(s, b) PROVE RepositoryOK'
    <3>1. UNCHANGED <<tip, dirty, stash>> /\ at' = [at EXCEPT ![home[s]] = b] /\ tip[b] # NoBranch /\ b # Gone
      BY <2>5, Names DEF AgentSwitches, CanSwitch, Exists, Path
    <3>2. \A q \in Path : at'[q] = IF q = home[s] THEN b ELSE at[q]
      BY <1>1, <2>1, <3>1 DEF RepositoryOK
    <3>3. at' \in [Path -> Branch \cup {Main, Gone}]
      BY <1>1, <3>1 DEF RepositoryOK
    <3>4. QED
      BY <1>1, <2>1, <3>1, <3>2, <3>3, Names DEF RepositoryOK, NoDirt, Exists
  <2>6. QED
    BY <1>14, <2>2, <2>3, <2>4, <2>5
<1>15. QED
  BY <1>3, <1>4, <1>5, <1>6, <1>7, <1>8, <1>9, <1>10, <1>11, <1>12, <1>13, <1>14, GitFrame

PeopleOK ==
    /\ home \in [Session -> Path \cup {Gone}] /\ forking \in [Session -> Path \cup {Gone}]
    /\ running \subseteq Session /\ synced \subseteq Session /\ Single /\ AtWork

LEMMA TurnFrame == TypeInv /\ [Next]_vars => UNCHANGED synced /\ (running' \subseteq running \/ \E s \in Session : TurnStarts(s))
<1>1. Step => UNCHANGED synced /\ running' \subseteq running
  <2>1. Prepare \/ Gather => UNCHANGED synced /\ running' \subseteq running
    BY DEF Prepare, Gather, Stopped
  <2>2. \A s \in Session : Rehome(s) => UNCHANGED synced /\ running' \subseteq running
    BY DEF Rehome
  <2>3. Switching \/ Fetch \/ Merge \/ Merging \/ Rehomed \/ Remove \/ Removing \/ Delete \/ Deleting \/ Add \/ Adding \/ Settle
        \/ StashPush \/ StashRef \/ AddFork \/ Apply \/ Restore \/ StashList \/ StashDrop \/ Cleanup \/ Quit \/ Remote
        \/ (\E s \in Session : ForkChild(s)) => UNCHANGED <<synced, running>>
    BY DEF Switching, Fetch, Merge, Merging, Rehomed, Remove, Removing, Delete, Deleting, Add, Adding, Settle,
       StashPush, StashRef, AddFork, Apply, Restore, StashList, StashDrop, Cleanup, Quit, Remote, ForkChild, Steady
  <2>4. QED
    BY <2>1, <2>2, <2>3 DEF Step
<1>2. Request => UNCHANGED <<synced, running>>
  BY RequestFrame DEF history
<1>3. Turn => UNCHANGED synced /\ running' \subseteq running
  BY DEF Turn, ConversationForked, TurnEnds, AgentEdits, AgentCommits, AgentStashes, AgentSwitches, Agent
<1>4. (\E s \in Session : TurnStarts(s)) \/ Restart => UNCHANGED synced
  BY DEF TurnStarts, Restart
<1>5. Restart => running' \subseteq running
  BY DEF Restart
<1>6. QED
  BY <1>1, <1>2, <1>3, <1>4, <1>5 DEF Next, vars

\* A conversation's workspace changes from one to another, or to none, with its turn ended.
LEMMA PeopleTyped == TypeInv /\ [Next]_vars => PeopleOK'
<1> SUFFICES ASSUME TypeInv, [Next]_vars PROVE PeopleOK'
  OBVIOUS
<1>1. PeopleOK /\ (op # NoOp => op \in Operations /\ OpShape)
  BY Started DEF TypeInv, TypeOK, PeopleOK
<1>2. UNCHANGED synced /\ (running' \subseteq running \/ \E s \in Session : TurnStarts(s))
  BY TurnFrame
<1>3. running' \subseteq Session
  BY <1>1, <1>2 DEF PeopleOK, TurnStarts
<1>4. SUFFICES home' \in [Session -> Path \cup {Gone}] /\ forking' \in [Session -> Path \cup {Gone}] /\ Single' /\ AtWork'
  BY <1>1, <1>2, <1>3 DEF PeopleOK
<1>5. CASE UNCHANGED <<home, forking>>
  BY <1>1, <1>2, <1>5 DEF PeopleOK, Single, AtWork, TurnStarts
<1>6. ASSUME running' \subseteq running, \A s \in Session : home[s] # Gone => home'[s] # Gone PROVE AtWork'
  BY <1>1, <1>6 DEF PeopleOK, AtWork
<1>7. CASE Settle /\ UNCHANGED forking
  <2>1. op # NoOp /\ op.kind \in {"create", "move", "switch"} /\ op.step = "settle" /\ UNCHANGED running
    BY <1>7 DEF Settle, Is
  <2>2. \/ UNCHANGED home
        \/ home' = [home EXCEPT ![op.by] = op.path] /\ (op.kind # "create" => home[op.by] = op.from)
    BY <1>7 DEF Settle
  <2>3. op.by \in Session /\ op.path \in Path /\ (op.kind = "create" => forking[op.by] = Gone) /\ (op.kind # "create" => op.from # Gone)
    BY <1>1, <2>1 DEF OpShape, ContextShape, SwitchShape
  <2>4. CASE UNCHANGED home
    BY <1>1, <1>7, <2>1, <2>4 DEF PeopleOK, Single, AtWork
  <2>5. CASE home' = [home EXCEPT ![op.by] = op.path] /\ (op.kind # "create" => home[op.by] = op.from)
    <3>1. forking[op.by] = Gone
      BY <1>1, <2>3, <2>5 DEF PeopleOK, Single
    <3>2. home' \in [Session -> Path \cup {Gone}] /\ \A s \in Session : home'[s] = IF s = op.by THEN op.path ELSE home[s]
      BY <1>1, <2>3, <2>5 DEF PeopleOK
    <3>3. QED
      BY <1>1, <1>6, <1>7, <2>1, <2>3, <3>1, <3>2, Names DEF PeopleOK, Single
  <2>6. QED
    BY <2>2, <2>4, <2>5
<1>8. CASE Restart
  <2>1. forking' = [s \in Session |-> Gone] /\ running' = {} /\ UNCHANGED home
    BY <1>8 DEF Restart
  <2>2. QED
    BY <1>1, <2>1 DEF PeopleOK, Single, AtWork
<1>9. ASSUME NEW s \in Session, Rehome(s) /\ UNCHANGED forking
      PROVE  home' \in [Session -> Path \cup {Gone}] /\ forking' \in [Session -> Path \cup {Gone}] /\ Single' /\ AtWork'
  <2>1. op # NoOp /\ op.kind \in {"merge", "delete"} /\ s \in op.moving
    BY <1>9 DEF Rehome, Is
  <2>2. op.path # Gone
    BY <1>1, <2>1, Names DEF OpShape, MergeShape, DeleteShape
  <2>3. CASE UNCHANGED <<home, running>>
    BY <1>1, <1>9, <2>3 DEF PeopleOK, Single, AtWork
  <2>4. CASE ~UNCHANGED <<home, running>>
    <3>1. PICK p \in {Checkout, Gone} : home' = [home EXCEPT ![s] = p] /\ running' = running \ {s} /\ home[s] = op.path
      BY <1>9, <2>4 DEF Rehome
    <3>2. QED
      BY <1>1, <1>9, <2>2, <3>1, Names DEF PeopleOK, Single, AtWork
  <2>5. QED
    BY <2>3, <2>4
<1>10. ASSUME NEW c \in Session, ForkChild(c) /\ UNCHANGED forking
       PROVE  home' \in [Session -> Path \cup {Gone}] /\ forking' \in [Session -> Path \cup {Gone}] /\ Single' /\ AtWork'
  <2>1. op # NoOp /\ op.kind = "fork" /\ c \in op.moving /\ UNCHANGED running /\ (UNCHANGED home \/ home' = [home EXCEPT ![c] = op.branch])
    BY <1>10 DEF ForkChild, Is
  <2>2. forking[c] = Gone /\ op.branch \in Path
    BY <1>1, <2>1, Names DEF OpShape, ForkShape
  <2>3. QED
    BY <1>1, <1>6, <1>10, <2>1, <2>2, Names DEF PeopleOK, Single
<1>11. ASSUME NEW c \in Session, ConversationForked(c)
       PROVE  home' \in [Session -> Path \cup {Gone}] /\ forking' \in [Session -> Path \cup {Gone}] /\ Single' /\ AtWork'
  <2>1. /\ forking[c] # Gone /\ home' = [home EXCEPT ![c] = forking[c]] /\ forking' = [forking EXCEPT ![c] = Gone]
        /\ UNCHANGED running
    BY <1>11 DEF ConversationForked
  <2>2. QED
    BY <1>1, <1>6, <2>1 DEF PeopleOK, Single
<1>12. ASSUME NEW s \in Session, NEW c \in Session, ConversationFork(s, c)
       PROVE  home' \in [Session -> Path \cup {Gone}] /\ forking' \in [Session -> Path \cup {Gone}] /\ Single' /\ AtWork'
  <2>1. home[c] = Gone /\ forking' = [forking EXCEPT ![c] = home[s]] /\ UNCHANGED <<home, running>>
    BY <1>12 DEF ConversationFork
  <2>2. QED
    BY <1>1, <2>1 DEF PeopleOK, Single, AtWork
<1>13. QED
  BY <1>5, <1>7, <1>8, <1>9, <1>10, <1>11, <1>12, HomeFrame

LEMMA HistoryFrame ==
    [Next]_vars => \/ UNCHANGED <<made, history>>
                   \/ Merging \/ Removing \/ Deleting
                   \/ \E s \in Session : ConversationForked(s) \/ AgentEdits(s) \/ AgentCommits(s) \/ AgentStashes(s)
<1>1. Step => UNCHANGED <<made, history>> \/ Merging \/ Removing \/ Deleting
  BY DEF Step, Prepare, Switching, Fetch, Merge, Gather, Rehome, Rehomed, Remove, Delete, Add, Adding,
     Settle, StashPush, StashRef, AddFork, Apply, Restore, StashList, StashDrop, ForkChild, Cleanup, Quit, Remote, Steady
<1>2. Request => UNCHANGED <<made, history>>
  BY RequestFrame DEF history
<1>3. Turn => UNCHANGED <<made, history>>
                \/ \E s \in Session : ConversationForked(s) \/ AgentEdits(s) \/ AgentCommits(s) \/ AgentStashes(s)
  BY DEF Turn, TurnEnds, AgentSwitches, Agent, history
<1>4. (\E s \in Session : TurnStarts(s)) \/ Restart => UNCHANGED <<made, history>>
  BY DEF TurnStarts, Restart
<1>5. QED
  BY <1>1, <1>2, <1>3, <1>4 DEF Next, vars

CountsOK ==
    /\ answer \in {"none", "ok", "failed", "kept"}
    /\ made \in 0..MaxWork /\ asked \in 0..MaxOps /\ turns \in 0..MaxTurns /\ faults \in 0..MaxFaults
    /\ given \subseteq Work /\ late \subseteq Work /\ strays \subseteq Session

LEMMA CountsTyped == TypeInv /\ [Next]_vars => CountsOK'
<1> SUFFICES ASSUME TypeInv, [Next]_vars PROVE CountsOK'
  OBVIOUS
<1>1. CountsOK /\ RepositoryOK /\ PeopleOK /\ (op # NoOp => op \in Operations /\ OpShape)
  BY Started DEF TypeInv, TypeOK, CountsOK, RepositoryOK, PeopleOK
<1>2. faults' = faults \/ Fault
  <2>1. Step => faults' = faults \/ Fault
    BY DEF Step, Prepare, Switching, Fetch, Merge, Merging, Gather, Rehome, Rehomed, Remove, Removing, Delete,
        Deleting, Add, Adding,
       Settle, StashPush, StashRef, AddFork, Apply, Restore, StashList, StashDrop, ForkChild, Cleanup, Quit, Remote, Works
  <2>2. Request => faults' = faults
    BY RequestFrame DEF history
  <2>3. Turn => faults' = faults
    BY DEF Turn, ConversationForked, TurnEnds, AgentEdits, AgentCommits, AgentStashes, AgentSwitches, Agent, Works
  <2>4. (\E s \in Session : TurnStarts(s)) => faults' = faults
    BY DEF TurnStarts, Works
  <2>5. Restart => Fault
    BY DEF Restart
  <2>6. QED
    BY <2>1, <2>2, <2>3, <2>4, <2>5 DEF Next, vars
<1>3. answer' \in {answer, "none", "ok", "failed", "kept"}
  <2>1. Step => answer' \in {answer, "none", "ok", "failed", "kept"}
    BY DEF Step, Prepare, Switching, Fetch, Merge, Merging, Gather, Rehome, Rehomed, Remove, Removing, Delete,
        Deleting, Add, Adding,
       Settle, StashPush, StashRef, AddFork, Apply, Restore, StashList, StashDrop, ForkChild, Cleanup, Quit, Remote, Check, Go, End,
       Undo, FailedApply
  <2>2. Request => answer' = answer \/ answer' = "none"
    <3>1. ASSUME NEW s \in Session,
                 \/ MergeAsked(s) \/ RemoteAsked
                 \/ \E b \in Branch \cup {Main} : CreateAsked(s, b) \/ MoveAsked(s, b) \/ SwitchAsked(s, b)
          PROVE  answer' = "none"
      BY <3>1 DEF RemoteAsked, MergeAsked, CreateAsked, MoveAsked, SwitchAsked, Start
    <3>2. (\E b \in Branch, force \in BOOLEAN : DeleteAsked(b, force)) \/ RemoteAsked => answer' = "none"
      BY DEF DeleteAsked, RemoteAsked, Start
    <3>3. \A s, c \in Session : ConversationFork(s, c) => answer' = answer
      BY DEF ConversationFork
    <3>4. \A s, c \in Session, b \in Branch : ForkAsked(s, c, b) => answer' = "none"
      BY DEF ForkAsked
    <3>5. QED
      BY <3>1, <3>2, <3>3, <3>4 DEF Request
  <2>3. Turn => answer' = answer
    BY DEF Turn, ConversationForked, TurnEnds, AgentEdits, AgentCommits, AgentStashes, AgentSwitches, Agent
  <2>4. (\E s \in Session : TurnStarts(s)) => answer' = answer
    BY DEF TurnStarts
  <2>5. Restart => answer' = "none"
    BY DEF Restart
  <2>6. QED
    BY <2>1, <2>2, <2>3, <2>4, <2>5 DEF Next, vars
<1>4. \/ UNCHANGED <<made, history>>
      \/ Merging \/ Removing \/ Deleting
      \/ \E s \in Session : ConversationForked(s) \/ AgentEdits(s) \/ AgentCommits(s) \/ AgentStashes(s)
  BY HistoryFrame
<1>5. \/ UNCHANGED <<asked, turns>>
      \/ asked < MaxOps /\ asked' = asked + 1 /\ UNCHANGED turns
      \/ turns < MaxTurns /\ turns' = turns + 1 /\ UNCHANGED asked
  BY DEF Next, Step, vars, budget
<1>6. faults' \in 0..MaxFaults /\ asked' \in 0..MaxOps /\ turns' \in 0..MaxTurns /\ answer' \in {"none", "ok", "failed", "kept"}
  BY <1>1, <1>2, <1>3, <1>5, GitAssumption DEF CountsOK, Fault
<1>7. ASSUME UNCHANGED <<made, history>> PROVE CountsOK'
  BY <1>1, <1>6, <1>7 DEF CountsOK, history
<1>8. \A b \in Branch \cup {Main} : Exists(b) => tip[b] \in SUBSET Work
  BY <1>1 DEF RepositoryOK, Exists
<1>9. CASE Merging \/ Deleting
  <2>1. UNCHANGED <<made, strays>> /\ op # NoOp /\ op.branch \in Branch \cup {Main}
    BY <1>1, <1>9 DEF Merging, Deleting, Is, Operations
  <2>2. /\ given' = given \/ (Exists(op.branch) /\ given' = given \cup tip[op.branch])
        /\ late' = late \/ (Exists(op.branch) /\ late' = late \cup tip[op.branch])
    <3>1. op.kind = "merge" => Exists(op.branch)
      BY <1>1, <2>1 DEF OpShape, MergeShape
    <3>2. QED
      BY <1>9, <3>1 DEF Merging, Deleting, CanDeleteBranch, Is
  <2>3. QED
    BY <1>1, <1>6, <1>8, <2>1, <2>2 DEF CountsOK
<1>10. CASE Removing
  <2>1. UNCHANGED <<made, late, strays>> /\ op # NoOp /\ op.path \in Path /\ given' \in {given, given \cup dirty[op.path]}
    BY <1>1, <1>10 DEF Removing, Is, OpShape, Operations
  <2>2. dirty[op.path] \in SUBSET Work
    BY <1>1, <2>1 DEF RepositoryOK
  <2>3. QED
    BY <1>1, <1>6, <2>1, <2>2 DEF CountsOK
<1>11. ASSUME NEW s \in Session, ConversationForked(s) PROVE CountsOK'
  BY <1>1, <1>6, <1>11 DEF ConversationForked, CountsOK
<1>12. ASSUME NEW s \in Session, AgentEdits(s) \/ AgentCommits(s) \/ AgentStashes(s) PROVE CountsOK'
  <2>1. home[s] \in Path
    BY <1>1, <1>12 DEF AgentEdits, AgentCommits, AgentStashes, Agent, PeopleOK, AtWork
  <2>2. UNCHANGED <<given, strays>> /\ late' \in {late, late \cup dirty[home[s]]} /\ dirty[home[s]] \in SUBSET Work
    BY <1>1, <1>12, <2>1 DEF AgentEdits, AgentCommits, AgentStashes, Agent, RepositoryOK
  <2>3. made' = made \/ (made' = made + 1 /\ made + faults < MaxWork)
    BY <1>12 DEF AgentEdits, AgentCommits, AgentStashes
  <2>4. made' \in 0..MaxWork
    BY <1>1, <2>3, GitAssumption DEF CountsOK
  <2>5. QED
    BY <1>1, <1>6, <2>2, <2>4 DEF CountsOK
<1>13. QED
  BY <1>4, <1>7, <1>9, <1>10, <1>11, <1>12

Steps == {"prepare", "switching", "fetch", "merge", "merging", "gather", "rehome", "remove", "removing",
          "delete", "deleting", "add", "adding", "settle", "stash", "ref", "branch", "apply", "restore",
          "list", "drop", "child", "cleanup", "quit", "remote"}
\* The operation is the one it was.
SameOperation ==
    /\ op' \in Operations /\ op'.kind = op.kind /\ op'.by = op.by /\ op'.branch = op.branch
    /\ op'.from = op.from /\ op'.force = op.force
\* It is where it was, and has done what it had.
SamePlace == op'.path = op.path /\ op'.moving = op.moving
SameProgress == op'.done = op.done /\ op'.failed = op.failed
SameStash == op'.had = op.had /\ op'.ref = op.ref /\ op'.index = op.index /\ op'.raced = op.raced

LEMMA Going ==
    ASSUME op \in Operations, NEW step \in Steps, op' = [op EXCEPT !.step = step]
    PROVE  SameOperation /\ SamePlace /\ SameProgress /\ SameStash /\ op'.step = step
BY DEF Operations, Steps, SameOperation, SamePlace, SameProgress, SameStash

LEMMA Checking ==
    ASSUME TypeInv, op # NoOp, NEW holds, NEW step \in Steps, Check(holds, step)
    PROVE  op' = NoOp \/ (holds /\ SameOperation /\ SamePlace /\ SameProgress /\ SameStash /\ op'.step = step)
<1>1. op \in Operations
  BY Started
<1>2. CASE holds
  <2>1. op' = [op EXCEPT !.step = step]
    BY <1>2 DEF Check, Go
  <2>2. QED
    BY <1>1, <1>2, <2>1, Going
<1>3. CASE ~holds
  BY <1>3 DEF Check, End
<1>4. QED
  BY <1>2, <1>3

LEMMA Starting ==
    ASSUME TypeInv,
           NEW kind \in {"merge", "delete", "create", "move", "switch", "fork", "remote"}, NEW s \in Session \cup {NoSession},
           NEW path \in Path \cup {Gone}, NEW branch \in Branch \cup {Main}, NEW step \in Steps,
           Start(kind, s, path, branch, step)
    PROVE  /\ op' \in Operations /\ op'.kind = kind /\ op'.by = s /\ op'.path = path /\ op'.branch = branch /\ op'.step = step
           /\ op'.from = (IF s = NoSession THEN Gone ELSE home[s])
           /\ op'.force = FALSE
<1> DEFINE from == IF s = NoSession THEN Gone ELSE home[s]
<1>1. from \in Path \cup {Gone}
  BY DEF TypeInv, TypeOK
<1>2. op' = [kind |-> kind, by |-> s, path |-> path, from |-> from, branch |-> branch, step |-> step, moving |-> {},
             force |-> FALSE, done |-> FALSE, failed |-> FALSE, had |-> {}, ref |-> {}, index |-> 0, raced |-> FALSE]
  BY DEF Start
<1> HIDE DEF from
<1>3. op' \in Operations
  BY <1>1, <1>2 DEF Operations, Steps
<1>4. QED
  BY <1>2, <1>3 DEF from

\* What an operation relies on, no agent takes away.
LEMMA ShapeStays ==
    ASSUME TypeInv, op' = op \/ op' = [op EXCEPT !.raced = TRUE],
           \A b \in Branch \cup {Main} : Exists(b)' <=> Exists(b),
           \A p \in Path : at'[p] = Gone <=> at[p] = Gone,
           op # NoOp => \A c \in Session \cap (op.moving \cup {op.by}) : forking[c] = Gone => forking'[c] = Gone,
           op # NoOp \/ op' = op
    PROVE  op' \in Operations \cup {NoOp} /\ (op' # NoOp => OpShape')
<1>1. CASE op = NoOp
  BY <1>1
<1>2. CASE op # NoOp
  <2>1. op \in Operations /\ OpShape
    BY <1>2, Started
  <2>2. SameOperation /\ SamePlace /\ SameProgress /\ op'.step = op.step /\ op'.ref = op.ref
    BY <2>1 DEF Operations, SameOperation, SamePlace, SameProgress
  <2>3. MergeShape' /\ DeleteShape' /\ RemoteShape' /\ (op'.step = "removing" => op'.path \notin {Gone, Checkout})
    BY <2>1, <2>2 DEF SameOperation, SamePlace, SameProgress, OpShape, MergeShape, DeleteShape, RemoteShape,
        Operations, Exists
  <2>4. ContextShape' /\ SwitchShape'
    BY <1>2, <2>1, <2>2 DEF SameOperation, SamePlace, SameProgress, OpShape, ContextShape, SwitchShape
  <2>5. ForkShape'
    <3>1. op.moving \subseteq Session
      BY <2>1 DEF Operations
    <3>2. QED
      BY <1>2, <2>1, <2>2, <3>1, Names DEF SameOperation, SamePlace, SameProgress, OpShape, ForkShape, Exists
  <2>6. QED
    BY <2>2, <2>3, <2>4, <2>5 DEF SameOperation, OpShape
<1>3. QED
  BY <1>1, <1>2

\* The requests: an operation begins where the code expects to be.
LEMMA ShapeOfRequest ==
    ASSUME TypeInv, Request, ~\E s, c \in Session : ConversationFork(s, c)
    PROVE  op' \in Operations /\ OpShape'
<1>1. RepositoryOK /\ PeopleOK /\ \A b \in Branch \cup {Main} : Exists(b) <=> tip[b] # NoBranch
  BY DEF TypeInv, TypeOK, RepositoryOK, PeopleOK, Exists
<1>2. UNCHANGED <<at, tip, forking>>
  BY DEF Request, RemoteAsked, DeleteAsked, MergeAsked, CreateAsked, MoveAsked, SwitchAsked, ForkAsked, Steady, git
<1>3. \A s \in Session : s # NoSession
  BY GitAssumption
<1>4. CASE RemoteAsked
  <2>1. Start("remote", NoSession, Gone, Main, "remote")
    BY <1>4 DEF RemoteAsked
  <2>2. op' \in Operations /\ op'.kind = "remote" /\ op'.step = "remote"
    BY <2>1, Starting DEF Steps
  <2>3. QED
    BY <2>2 DEF OpShape, MergeShape, DeleteShape, ContextShape, SwitchShape, ForkShape, RemoteShape
<1>5. ASSUME NEW b \in Branch, NEW force \in BOOLEAN, DeleteAsked(b, force) PROVE op' \in Operations /\ OpShape'
  <2> DEFINE p == CHOOSE q \in Path \cup {Gone} : IF Where(b) = {} THEN q = Gone ELSE q \in Where(b)
  <2>1. p \in Path \cup {Gone}
    BY DEF Where
  <2>2. op' = [kind |-> "delete", by |-> NoSession, path |-> p, from |-> Gone, branch |-> b,
               step |-> "prepare", moving |-> {}, force |-> force, done |-> FALSE, failed |-> FALSE,
               had |-> {}, ref |-> {}, index |-> 0, raced |-> FALSE]
    BY <1>5 DEF DeleteAsked
  <2> HIDE DEF p
  <2>3. op' \in Operations
    BY <2>1, <2>2 DEF Operations
  <2>4. QED
    BY <2>2, <2>3 DEF OpShape, MergeShape, DeleteShape, ContextShape, SwitchShape, ForkShape, RemoteShape
<1>6. ASSUME NEW s \in Session, MergeAsked(s) PROVE op' \in Operations /\ OpShape'
  <2>1. Start("merge", s, home[s], at[home[s]], "prepare") /\ home[s] \in Path /\ at[home[s]] \notin {Gone, Main}
    BY <1>1, <1>6 DEF MergeAsked, PeopleOK
  <2>2. at[home[s]] \in Branch \cup {Main} /\ Exists(at[home[s]])
    BY <1>1, <2>1 DEF RepositoryOK
  <2>3. /\ op' \in Operations /\ op'.kind = "merge" /\ op'.by = s /\ op'.path = home[s] /\ op'.branch = at[home[s]]
        /\ op'.step = "prepare" /\ ~op'.force
    <3> DEFINE path == home[s]
               branch == at[home[s]]
    <3>1. /\ s \in Session \cup {NoSession} /\ path \in Path \cup {Gone} /\ branch \in Branch \cup {Main} /\ "prepare" \in Steps
          /\ Start("merge", s, path, branch, "prepare")
      BY <2>1, <2>2 DEF Steps
    <3> HIDE DEF path, branch
    <3>2. /\ op' \in Operations /\ op'.kind = "merge" /\ op'.by = s /\ op'.path = path /\ op'.branch = branch
          /\ op'.step = "prepare" /\ op'.force = FALSE
      BY <3>1, Starting
    <3>3. QED
      BY <3>2 DEF path, branch
  <2>4. QED
    BY <1>2, <2>1, <2>2, <2>3 DEF OpShape, MergeShape, DeleteShape, ContextShape, SwitchShape, ForkShape, RemoteShape, Exists
<1>7. ASSUME NEW s \in Session, NEW b \in Branch \cup {Main}, CreateAsked(s, b) \/ MoveAsked(s, b) PROVE op' \in Operations /\ OpShape'
  <2>1. PICK kind \in {"create", "move"} :
           /\ Start(kind, s, Checkout, b, FirstStep(b)) /\ (kind = "create" => forking[s] = Gone)
           /\ kind = "move" => home[s] # Gone
    BY <1>7 DEF CreateAsked, MoveAsked
  <2>2. FirstStep(b) \in {"prepare", "add"} /\ (b = Main => FirstStep(b) = "prepare")
    BY DEF FirstStep
  <2>3. /\ op' \in Operations /\ op'.kind = kind /\ op'.by = s /\ op'.path = Checkout /\ op'.branch = b /\ op'.step = FirstStep(b)
        /\ op'.from = home[s]
    <3> DEFINE step == FirstStep(b)
    <3>1. /\ s \in Session \cup {NoSession} /\ s # NoSession /\ Checkout \in Path \cup {Gone} /\ step \in Steps
          /\ Start(kind, s, Checkout, b, step)
      BY <1>3, <2>1, <2>2, Names DEF Steps
    <3> HIDE DEF step
    <3>2. CASE kind = "create"
      BY <3>1, <3>2, Starting DEF step
    <3>3. CASE kind = "move"
      BY <3>1, <3>3, Starting DEF step
    <3>4. QED
      BY <3>2, <3>3
  <2>4. QED
    BY <1>2, <2>1, <2>2, <2>3, Names DEF OpShape, MergeShape, DeleteShape, ContextShape, SwitchShape, ForkShape, RemoteShape
<1>8. ASSUME NEW s \in Session, NEW b \in Branch \cup {Main}, SwitchAsked(s, b) PROVE op' \in Operations /\ OpShape'
  <2> DEFINE p == IF b = Main THEN Checkout ELSE home[s]
  <2>1. Start("switch", s, p, b, IF at[p] = b THEN "settle" ELSE "switching") /\ home[s] # Gone /\ at[home[s]] # Gone
    BY <1>8 DEF SwitchAsked
  <2>2. p \in Path /\ at[p] # Gone
    BY <1>1, <2>1, Names DEF RepositoryOK, PeopleOK
  <2> HIDE DEF p
  <2>3. /\ op' \in Operations /\ op'.kind = "switch" /\ op'.by = s /\ op'.path = p /\ op'.from = home[s]
        /\ op'.step \in {"settle", "switching"}
    <3> DEFINE step == IF at[p] = b THEN "settle" ELSE "switching"
    <3>1. /\ s \in Session \cup {NoSession} /\ s # NoSession /\ p \in Path \cup {Gone} /\ step \in Steps
          /\ step \in {"settle", "switching"} /\ Start("switch", s, p, b, step)
      BY <1>3, <2>1, <2>2 DEF Steps
    <3> HIDE DEF step
    <3>2. QED
      BY <3>1, Starting
  <2>4. QED
    BY <1>2, <2>1, <2>2, <2>3 DEF OpShape, MergeShape, DeleteShape, ContextShape, SwitchShape, ForkShape, RemoteShape
<1>9. ASSUME NEW s \in Session, NEW c \in Session, NEW b \in Branch, ForkAsked(s, c, b) PROVE op' \in Operations /\ OpShape'
  <2> DEFINE p == home[s]
             step == IF dirty[home[s]] = {} THEN "branch" ELSE "stash"
             had == dirty[home[s]]
  <2>1. /\ op' = [kind |-> "fork", by |-> s, path |-> p, from |-> p, branch |-> b, step |-> step, moving |-> {c}, force |-> FALSE,
                  done |-> FALSE, failed |-> FALSE, had |-> had, ref |-> {}, index |-> 0, raced |-> FALSE]
        /\ p # Gone /\ ~Exists(b) /\ forking[c] = Gone
    BY <1>9 DEF ForkAsked
  <2>2. p \in Path /\ had \in SUBSET Work /\ step \in {"branch", "stash"}
    BY <1>1, <2>1 DEF RepositoryOK, PeopleOK
  <2> HIDE DEF p, step, had
  <2>3. op' \in Operations
    BY <2>1, <2>2 DEF Operations
  <2>4. QED
    BY <1>2, <2>1, <2>2, <2>3 DEF OpShape, MergeShape, DeleteShape, ContextShape, SwitchShape, ForkShape, RemoteShape, Exists
<1>10. QED
  BY <1>4, <1>5, <1>6, <1>7, <1>8, <1>9 DEF Request

\* The steps of an operation: each leads where the next one expects to be.
LEMMA ShapeOfStep ==
    ASSUME TypeInv, Step, RepositoryOK'
    PROVE  op' \in Operations \cup {NoOp} /\ (op' # NoOp => OpShape')
<1>1. op # NoOp /\ op \in Operations /\ OpShape /\ RepositoryOK /\ UNCHANGED forking
  <2>1. op # NoOp
    BY DEF Step, Prepare, Switching, Fetch, Merge, Merging, Gather, Rehome, Rehomed, Remove, Removing, Delete,
        Deleting, Add, Adding,
       Settle, StashPush, StashRef, AddFork, Apply, Restore, StashList, StashDrop, ForkChild, Cleanup, Quit, Remote, Is
  <2>2. QED
    BY <2>1, Started DEF TypeInv, TypeOK, RepositoryOK, Step
<1>2. SUFFICES ASSUME op' # NoOp PROVE op' \in Operations /\ OpShape'
  OBVIOUS
<1> USE DEF OpShape
<1>3. CASE Prepare
  <2>1. PICK next \in Steps : /\ SameOperation /\ SamePlace /\ SameProgress /\ op'.step = next
                              /\ next \in {"switching", AfterMain} /\ op.step = "prepare"
    <3>1. AfterMain \in Steps /\ "switching" \in Steps
      BY DEF AfterMain, Steps
    <3>2. QED
      BY <1>1, <1>2, <1>3, <3>1, Checking DEF Prepare
  <2>2. UNCHANGED <<at, tip>>
    BY <1>3 DEF Prepare, git
  <2>3. op.kind \in {"merge", "delete", "create", "move"}
    BY <1>1, <2>1 DEF SwitchShape, ForkShape, RemoteShape, Operations
  <2>4. CASE op.kind = "merge"
    BY <1>1, <2>1, <2>2, <2>4 DEF SameOperation, SamePlace, SameProgress, MergeShape, DeleteShape, ContextShape, SwitchShape,
       ForkShape, RemoteShape, AfterMain, Exists
  <2>5. CASE op.kind = "delete"
    <3>1. AfterMain = "gather"
      BY <1>1, <2>5, Names DEF AfterMain, DeleteShape
    <3>2. QED
      BY <1>1, <2>1, <2>2, <2>5, <3>1 DEF SameOperation, SamePlace, SameProgress, MergeShape, DeleteShape,
          ContextShape, SwitchShape,
       ForkShape, RemoteShape
  <2>6. CASE op.kind \in {"create", "move"}
    <3>1. op.branch \in Branch \cup {Main}
      BY <1>1 DEF Operations
    <3>2. QED
      BY <1>1, <2>1, <2>2, <2>6, <3>1 DEF SameOperation, SamePlace, SameProgress, MergeShape, DeleteShape, ContextShape,
         SwitchShape, ForkShape, RemoteShape, AfterMain, RepositoryOK
  <2>7. QED
    BY <2>3, <2>4, <2>5, <2>6
<1>4. CASE Switching
  <2>1. op.step = "switching" /\ op.kind \in {"merge", "delete", "create", "move", "switch"} /\ UNCHANGED tip
    <3>1. op.step = "switching" /\ UNCHANGED tip
      BY <1>4 DEF Switching
    <3>2. QED
      BY <1>1, <3>1 DEF ForkShape, RemoteShape, Operations
  <2>2. PICK next \in Steps : /\ SameOperation /\ SamePlace /\ SameProgress /\ op'.step = next
                              /\ next = IF op.kind = "switch" THEN "settle" ELSE AfterMain
                              /\ op.kind = "switch" => at' = [at EXCEPT ![op.path] = op.branch]
    <3>1. AfterMain \in Steps /\ "settle" \in Steps
      BY DEF AfterMain, Steps
    <3>2. /\ Go(IF op.kind = "switch" THEN "settle" ELSE AfterMain)
          /\ op.kind = "switch" => at' = [at EXCEPT ![op.path] = op.branch]
      BY <1>2, <1>4 DEF Switching, Target, End
    <3>3. QED
      BY <1>1, <3>1, <3>2, Going DEF Go
  <2>3. CASE op.kind = "merge"
    BY <1>1, <2>1, <2>2, <2>3 DEF SameOperation, SamePlace, SameProgress, MergeShape, DeleteShape, ContextShape, SwitchShape,
       ForkShape, RemoteShape, AfterMain, Exists
  <2>4. CASE op.kind = "delete"
    <3>1. AfterMain = "gather"
      BY <1>1, <2>4, Names DEF AfterMain, DeleteShape
    <3>2. QED
      BY <1>1, <2>1, <2>2, <2>4, <3>1 DEF SameOperation, SamePlace, SameProgress, MergeShape, DeleteShape,
          ContextShape, SwitchShape,
       ForkShape, RemoteShape
  <2>5. CASE op.kind \in {"create", "move"}
    <3>1. op.branch \in Branch \cup {Main} /\ at'[Checkout] # Gone
      BY <1>1 DEF Operations, RepositoryOK
    <3>2. QED
      BY <1>1, <2>1, <2>2, <2>5, <3>1 DEF SameOperation, SamePlace, SameProgress, MergeShape, DeleteShape, ContextShape,
         SwitchShape, ForkShape, RemoteShape, AfterMain
  <2>6. CASE op.kind = "switch"
    <3>1. op.branch \in Branch \cup {Main} /\ op.branch # Gone /\ op.path \in Path
      BY <1>1, <2>6, Names DEF Operations, SwitchShape
    <3>2. at'[op.path] = op.branch
      BY <1>1, <2>2, <2>6, <3>1 DEF RepositoryOK
    <3>3. QED
      BY <1>1, <2>1, <2>2, <2>6, <3>1, <3>2 DEF SameOperation, SamePlace, SameProgress, MergeShape, DeleteShape,
          ContextShape,
         SwitchShape, ForkShape, RemoteShape
  <2>7. QED
    BY <2>1, <2>3, <2>4, <2>5, <2>6
<1>5. CASE Fetch
  <2>1. op.step = "fetch" /\ op.kind \in {"merge", "create", "move"} /\ UNCHANGED <<at, tip>>
    <3>1. op.step = "fetch" /\ UNCHANGED <<at, tip>>
      BY <1>5 DEF Fetch, Steady, git
    <3>2. QED
      BY <1>1, <3>1 DEF DeleteShape, SwitchShape, ForkShape, RemoteShape, Operations
  <2>2. PICK next \in Steps : /\ SameOperation /\ SamePlace /\ SameProgress /\ op'.step = next
                              /\ next = IF op.kind = "merge" THEN "merge" ELSE "add"
    <3> DEFINE next == IF op.kind = "merge" THEN "merge" ELSE "add"
    <3>1. next \in Steps
      BY DEF Steps
    <3>2. Check(dirty[Checkout] = {} /\ Valid, next)
      BY <1>2, <1>5 DEF Fetch, End
    <3> HIDE DEF next
    <3>3. SameOperation /\ SamePlace /\ SameProgress /\ op'.step = next
      BY <1>1, <1>2, <3>1, <3>2, Checking
    <3>4. QED
      BY <3>1, <3>3 DEF next
  <2>3. CASE op.kind = "merge"
    BY <1>1, <2>1, <2>2, <2>3 DEF SameOperation, SamePlace, SameProgress, MergeShape, DeleteShape, ContextShape, SwitchShape,
       ForkShape, RemoteShape, Exists
  <2>4. CASE op.kind \in {"create", "move"}
    BY <1>1, <2>1, <2>2, <2>4 DEF SameOperation, SamePlace, SameProgress, MergeShape, DeleteShape, ContextShape,
         SwitchShape, ForkShape, RemoteShape
  <2>5. QED
    BY <2>1, <2>3, <2>4
\* The merge, and what merging and deleting a branch have in common.
<1>6. CASE Merge \/ Rehomed \/ Remove \/ Delete
  <2>1. /\ op.kind \in {"merge", "delete"} /\ op.step \in {"merge", "rehome", "remove", "delete"} /\ UNCHANGED <<at, tip>>
        /\ op.step = "merge" => op.kind = "merge"
    BY <1>6 DEF Merge, Rehomed, Remove, Delete, Is, Steady, git
  <2>2. /\ SameOperation /\ SamePlace /\ SameProgress
        /\ op'.step = CASE op.step = "merge" -> "merging" [] op.step = "rehome" -> "remove"
                        [] op.step = "remove" -> (IF op.path \in {Gone, Checkout} THEN "delete" ELSE "removing")
                        [] op.step = "delete" -> "deleting"
    <3>1. CASE Merge
      BY <1>1, <1>2, <3>1, Checking DEF Merge, Is, Steps
    <3>2. CASE Rehomed
      BY <1>1, <3>2, Going DEF Rehomed, Is, Go, Steps
    <3>3. CASE Remove
      <4>1. op.step = "remove"
        BY <3>3 DEF Remove, Is
      <4>2. CASE op.path \in {Gone, Checkout}
        BY <1>1, <3>3, <4>1, <4>2, Going DEF Remove, Go, Steps
      <4>3. CASE op.path \notin {Gone, Checkout}
        BY <1>1, <1>2, <3>3, <4>1, <4>3, Checking DEF Remove, Steps
      <4>4. QED
        BY <4>2, <4>3
    <3>4. CASE Delete
      BY <1>1, <1>2, <3>4, Checking DEF Delete, Is, Steps
    <3>5. QED
      BY <1>6, <3>1, <3>2, <3>3, <3>4
  <2>3. QED
    BY <1>1, <2>1, <2>2 DEF SameOperation, SamePlace, SameProgress, MergeShape, DeleteShape, ContextShape, SwitchShape,
       ForkShape, RemoteShape, Exists
<1>7. CASE Merging
  <2>1. op.kind = "merge" /\ op' = [op EXCEPT !.step = "gather", !.done = TRUE] /\ UNCHANGED at
    BY <1>2, <1>7 DEF Merging, Is, End
  <2>2. SameOperation /\ SamePlace /\ op'.done /\ op'.step = "gather"
    BY <1>1, <2>1 DEF Operations, SameOperation, SamePlace
  <2>3. /\ op.branch \in Branch \cup {Main} /\ at[Checkout] \in Branch \cup {Main}
        /\ tip' = tip \/ tip' = [tip EXCEPT ![at[Checkout]] = @ \cup tip[op.branch]]
    <3>1. op.branch \in Branch \cup {Main}
      BY <1>1 DEF Operations
    <3>2. at[Checkout] \in Branch \cup {Main}
      BY <1>1, Names DEF RepositoryOK
    <3>3. QED
      BY <1>7, <3>1, <3>2 DEF Merging
  <2>4. Exists(op.branch)'
    <3>1. Exists(op.branch) /\ tip[op.branch] \in SUBSET Work /\ tip[at[Checkout]] \in SUBSET Work
      BY <1>1, <2>1, <2>3, Names DEF MergeShape, Exists, RepositoryOK
    <3>2. tip'[op.branch] # NoBranch
      BY <1>1, <2>3, <3>1, NoBranchIsNoWork DEF Exists, RepositoryOK
    <3>3. QED
      BY <2>2, <3>2 DEF SameOperation, Exists
  <2>5. QED
    BY <1>1, <2>1, <2>2, <2>4 DEF SameOperation, SamePlace, MergeShape, DeleteShape, ContextShape, SwitchShape,
        ForkShape, RemoteShape
<1>8. CASE Gather \/ \E s \in Session : Rehome(s)
  <2>1. op.kind \in {"merge", "delete"} /\ op.step \in {"gather", "rehome"} /\ UNCHANGED <<at, tip>>
    BY <1>8 DEF Gather, Rehome, Is, git
  <2>2. PICK S \in SUBSET Session : op' = [op EXCEPT !.step = "rehome", !.moving = S] /\ (op.path = Gone /\ op.kind = "delete" => S = {})
    <3>1. CASE Gather
      <4>1. op' = [op EXCEPT !.step = "rehome", !.moving = At(op.path)]
        BY <1>2, <3>1 DEF Gather, End
      <4>2. At(op.path) \in SUBSET Session /\ (op.path = Gone => At(op.path) = {})
        BY DEF At
      <4>3. QED
        BY <4>1, <4>2
    <3>2. ASSUME NEW s \in Session, Rehome(s)
          PROVE  \E S \in SUBSET Session : op' = [op EXCEPT !.step = "rehome", !.moving = S] /\ (op.path = Gone /\ op.kind = "delete" => S = {})
      <4> DEFINE S == op.moving \ {s}
      <4>1. op' = [op EXCEPT !.moving = S] /\ op.step = "rehome"
        BY <1>2, <3>2 DEF Rehome, End, Is
      <4>2. S \in SUBSET Session /\ (op.path = Gone /\ op.kind = "delete" => S = {})
        BY <1>1, <4>1 DEF Operations, DeleteShape
      <4> HIDE DEF S
      <4>3. op' = [op EXCEPT !.step = "rehome", !.moving = S]
        BY <1>1, <4>1 DEF Operations
      <4>4. QED
        BY <4>2, <4>3
    <3>3. QED
      BY <1>8, <3>1, <3>2
  <2>3. SameOperation /\ op'.path = op.path /\ op'.moving = S /\ op'.step = "rehome" /\ op'.done = op.done
    BY <1>1, <2>2 DEF Operations, SameOperation
  <2>4. QED
    BY <1>1, <2>1, <2>2, <2>3 DEF SameOperation, MergeShape, DeleteShape, ContextShape, SwitchShape, ForkShape,
        RemoteShape, Exists
<1>9. CASE Removing
  <2>1. op.kind \in {"merge", "delete"} /\ op.step = "removing" /\ UNCHANGED tip /\ Go("delete")
    BY <1>2, <1>9 DEF Removing, Is, End
  <2>2. SameOperation /\ SamePlace /\ SameProgress /\ op'.step = "delete"
    BY <1>1, <2>1, Going DEF Go, Steps
  <2>3. QED
    BY <1>1, <2>1, <2>2 DEF SameOperation, SamePlace, SameProgress, MergeShape, DeleteShape, ContextShape, SwitchShape,
       ForkShape, RemoteShape, Exists
<1>10. CASE Deleting \/ Settle \/ Remote \/ Cleanup \/ Quit
  BY <1>2, <1>10 DEF Deleting, Settle, Remote, Cleanup, Quit, End
<1>11. CASE Add
  <2>1. op.kind \in {"create", "move"} /\ op.step = "add" /\ UNCHANGED <<at, tip>> /\ op.branch \in Branch
    <3>1. op.kind \in {"create", "move"} /\ op.step = "add" /\ UNCHANGED <<at, tip>>
      BY <1>11 DEF Add, Is, Steady, git
    <3>2. QED
      BY <1>1, <3>1 DEF ContextShape
  <2>2. PICK p \in Path, next \in {"adding", "settle"} :
           op' = [op EXCEPT !.path = p, !.step = next] /\ (next = "adding" => p = op.branch) /\ (next = "settle" => at[p] # Gone)
    <3>1. CASE Where(op.branch) = {}
      <4>1. op.branch \in Path
        BY <2>1, Names
      <4>2. QED
        BY <1>11, <3>1, <4>1 DEF Add
    <3>2. CASE Where(op.branch) # {}
      <4> DEFINE p == CHOOSE q \in Where(op.branch) : TRUE
      <4>1. p \in Where(op.branch)
        BY <3>2
      <4>2. p \in Path /\ at[p] = op.branch /\ op.branch # Gone
        BY <2>1, <4>1, Names DEF Where
      <4>3. op' = [op EXCEPT !.path = p, !.step = "settle"]
        BY <1>11, <3>2 DEF Add
      <4> HIDE DEF p
      <4>4. QED
        BY <4>2, <4>3
    <3>3. QED
      BY <3>1, <3>2
  <2>3. SameOperation /\ op'.path = p /\ op'.step = next
    BY <1>1, <2>2 DEF Operations, SameOperation
  <2>4. QED
    BY <1>1, <2>1, <2>2, <2>3, Names DEF SameOperation, MergeShape, DeleteShape, ContextShape, SwitchShape, ForkShape,
        RemoteShape
<1>12. CASE Adding
  <2>1. /\ op.kind \in {"create", "move"} /\ op.step = "adding" /\ Go("settle") /\ at' = [at EXCEPT ![op.branch] = op.branch]
        /\ op.branch \in Branch /\ op.path = op.branch
    <3>1. op.kind \in {"create", "move"} /\ op.step = "adding" /\ Go("settle") /\ at' = [at EXCEPT ![op.branch] = op.branch]
      BY <1>2, <1>12 DEF Adding, Is, End
    <3>2. QED
      BY <1>1, <3>1 DEF ContextShape
  <2>2. SameOperation /\ SamePlace /\ SameProgress /\ op'.step = "settle"
    BY <1>1, <2>1, Going DEF Go, Steps
  <2>3. at'[op.branch] # Gone
    BY <1>1, <2>1, Names DEF RepositoryOK
  <2>4. QED
    BY <1>1, <2>1, <2>2, <2>3 DEF SameOperation, SamePlace, MergeShape, DeleteShape, ContextShape, SwitchShape,
        ForkShape, RemoteShape
\* The fork.
<1>13. ASSUME op.kind = "fork", SameOperation, SamePlace,
              op'.step \in {"stash", "ref", "branch"} => ~op'.done /\ ~op'.failed,
              op'.step \in {"apply", "child", "cleanup"} => op'.done,
              op'.step \in {"restore", "list", "drop"} /\ ~op'.failed => op'.done,
              op'.step \in {"apply", "restore", "list", "drop"} => op'.ref # {},
              op'.done => at'[op.branch] # Gone /\ op.path # op.branch,
              ~op'.done => tip'[op.branch] = NoBranch,
              op'.step \in {"stash", "ref", "branch", "apply", "restore", "list", "drop", "child", "cleanup", "quit"}
       PROVE  op' \in Operations /\ OpShape'
  BY <1>1, <1>13 DEF SameOperation, SamePlace, MergeShape, DeleteShape, ContextShape, SwitchShape, ForkShape,
      RemoteShape, Exists
<1>14. ASSUME op.kind = "fork" PROVE /\ op.branch \in Branch /\ op.path \in Path /\ (~op.done => tip[op.branch] = NoBranch)
                                     /\ op.done => at[op.branch] # Gone /\ op.path # op.branch
  BY <1>1, <1>14 DEF ForkShape, Exists
<1>15. CASE StashPush \/ StashRef
  <2>1. op.kind = "fork" /\ op.step \in {"stash", "ref"} /\ UNCHANGED <<at, tip>>
    BY <1>15 DEF StashPush, StashRef, Is, Steady, git
  <2>2. SameOperation /\ SamePlace /\ SameProgress /\ op'.step \in {"ref", "branch"}
    <3>1. CASE StashPush
      <4>1. op' = [op EXCEPT !.step = "ref", !.had = dirty[op.path]]
        BY <1>2, <3>1 DEF StashPush, End
      <4>2. dirty[op.path] \in SUBSET Work
        BY <1>1, <1>14, <2>1 DEF RepositoryOK
      <4>3. QED
        BY <1>1, <4>1, <4>2 DEF Operations, SameOperation, SamePlace, SameProgress
    <3>2. CASE StashRef
      <4>1. op' = [op EXCEPT !.step = "branch", !.ref = Head(stash)] /\ stash # <<>>
        BY <1>2, <3>2 DEF StashRef, End
      <4>2. Head(stash) \in SUBSET Work
        BY <1>1, <4>1 DEF RepositoryOK
      <4>3. QED
        BY <1>1, <4>1, <4>2 DEF Operations, SameOperation, SamePlace, SameProgress
    <3>3. QED
      BY <1>15, <3>1, <3>2
  <2>3. ~op.done /\ ~op.failed
    BY <1>1, <2>1 DEF ForkShape
  <2>4. QED
    BY <1>13, <1>14, <2>1, <2>2, <2>3 DEF SameProgress
<1>16. ASSUME op.kind = "fork", Undo, UNCHANGED <<at, tip>>, op.step \in {"branch", "apply"} PROVE op' \in Operations /\ OpShape'
  <2>1. op' = [op EXCEPT !.step = "restore", !.failed = TRUE] /\ op.ref # {}
    BY <1>2, <1>16 DEF Undo, End
  <2>2. SameOperation /\ SamePlace /\ op'.done = op.done /\ op'.failed /\ op'.step = "restore" /\ op'.ref = op.ref
    BY <1>1, <2>1 DEF Operations, SameOperation, SamePlace
  <2>3. QED
    BY <1>13, <1>14, <1>16, <2>1, <2>2
<1>17. CASE AddFork
  <2>1. op.kind = "fork" /\ op.step = "branch"
    BY <1>17 DEF AddFork, Is
  <2>2. CASE UNCHANGED <<at, tip>> /\ Undo
    BY <1>16, <2>1, <2>2
  <2>3. CASE ~(UNCHANGED <<at, tip>> /\ Undo)
    <3> DEFINE next == IF op.ref = {} THEN "child" ELSE "apply"
    <3>1. /\ op' = [op EXCEPT !.done = TRUE, !.step = next] /\ at' = [at EXCEPT ![op.branch] = op.branch]
          /\ at[op.path] # Gone /\ at[op.branch] = Gone
      BY <1>17, <2>3 DEF AddFork, CanAdd
    <3>2. next \in {"child", "apply"} /\ (next = "apply" => op.ref # {})
      OBVIOUS
    <3> HIDE DEF next
    <3>3. SameOperation /\ SamePlace /\ op'.done /\ op'.step = next /\ op'.ref = op.ref
      BY <1>1, <3>1, <3>2 DEF Operations, SameOperation, SamePlace
    <3>4. at'[op.branch] # Gone /\ op.path # op.branch
      BY <1>1, <1>14, <2>1, <3>1, Names DEF RepositoryOK
    <3>5. QED
      BY <1>13, <2>1, <3>2, <3>3, <3>4
  <2>4. QED
    BY <2>2, <2>3
<1>18. CASE Apply
  <2>1. op.kind = "fork" /\ op.step = "apply" /\ UNCHANGED <<at, tip>>
    BY <1>18 DEF Apply, Is
  <2>2. CASE Go("restore")
    <3>1. SameOperation /\ SamePlace /\ SameProgress /\ SameStash /\ op'.step = "restore"
      BY <1>1, <2>2, Going DEF Go, Steps
    <3>2. op.done /\ op.ref # {}
      BY <1>1, <2>1 DEF ForkShape
    <3>3. QED
      BY <1>13, <1>14, <2>1, <3>1, <3>2 DEF SameProgress, SameStash
  <2>3. CASE ~Go("restore")
    BY <1>16, <1>18, <2>1, <2>3 DEF Apply, FailedApply
  <2>4. QED
    BY <2>2, <2>3
<1>19. CASE Restore
  <2>1. op.kind = "fork" /\ op.step = "restore" /\ UNCHANGED <<at, tip>> /\ Go("list")
    BY <1>2, <1>19 DEF Restore, Is, End
  <2>2. SameOperation /\ SamePlace /\ SameProgress /\ SameStash /\ op'.step = "list"
    BY <1>1, <2>1, Going DEF Go, Steps
  <2>3. op.ref # {} /\ (~op.failed => op.done)
    BY <1>1, <2>1 DEF ForkShape
  <2>4. QED
    BY <1>13, <1>14, <2>1, <2>2, <2>3 DEF SameProgress, SameStash
<1>20. CASE StashList \/ StashDrop
  <2>1. op.kind = "fork" /\ op.step \in {"list", "drop"} /\ UNCHANGED <<at, tip>>
    BY <1>20 DEF StashList, StashDrop, Is, Steady, git
  <2>2. SameOperation /\ SamePlace /\ SameProgress /\ op'.step \in {"drop", Forked} /\ op'.ref = op.ref
    <3>1. CASE op' = [op EXCEPT !.step = Forked]
      <4>1. Forked \in Steps
        BY DEF Forked, Steps
      <4>2. QED
        BY <1>1, <3>1, <4>1, Going DEF SameStash
    <3>2. CASE op' # [op EXCEPT !.step = Forked]
      <4>1. PICK i \in DOMAIN stash : op' = [op EXCEPT !.step = "drop", !.index = i]
        BY <1>20, <3>2 DEF StashList, StashDrop
      <4>2. i \in Nat
        BY <1>1 DEF RepositoryOK
      <4>3. QED
        BY <1>1, <4>1, <4>2 DEF Operations, SameOperation, SamePlace, SameProgress
    <3>3. QED
      BY <3>1, <3>2
  <2>3. op.ref # {} /\ (~op.failed => op.done)
    BY <1>1, <2>1 DEF ForkShape
  <2>4. QED
    BY <1>13, <1>14, <2>1, <2>2, <2>3 DEF SameProgress, Forked
<1>21. ASSUME NEW c \in Session, ForkChild(c) PROVE op' \in Operations /\ OpShape'
  <2>1. op.kind = "fork" /\ op.step = "child" /\ UNCHANGED <<at, tip>> /\ Go("cleanup")
    BY <1>2, <1>21 DEF ForkChild, Is, End, git
  <2>2. SameOperation /\ SamePlace /\ SameProgress /\ SameStash /\ op'.step = "cleanup"
    BY <1>1, <2>1, Going DEF Go, Steps
  <2>3. op.done
    BY <1>1, <2>1 DEF ForkShape
  <2>4. QED
    BY <1>13, <1>14, <2>1, <2>2, <2>3 DEF SameProgress
<1>22. QED
  BY <1>3, <1>4, <1>5, <1>6, <1>7, <1>8, <1>9, <1>10, <1>11, <1>12, <1>15, <1>17, <1>18, <1>19, <1>20, <1>21 DEF Step

LEMMA RepositoryStep == TypeInv /\ [Next]_vars => TypeInv'
<1> SUFFICES ASSUME TypeInv, [Next]_vars PROVE TypeInv'
  OBVIOUS
<1>1. RepositoryOK' /\ PeopleOK' /\ CountsOK'
  BY RepositoryTyped, PeopleTyped, CountsTyped
<1>2. SUFFICES op' \in Operations \cup {NoOp} /\ (op' # NoOp => OpShape')
  BY <1>1 DEF TypeInv, TypeOK, RepositoryOK, PeopleOK, CountsOK
<1>3. (op # NoOp => op \in Operations /\ OpShape) /\ RepositoryOK /\ PeopleOK
  BY Started DEF TypeInv, TypeOK, RepositoryOK, PeopleOK
<1>4. CASE UNCHANGED vars
  <2>1. UNCHANGED <<op, at, tip, forking>>
    BY <1>4 DEF vars, git
  <2>2. QED
    BY <2>1, ShapeStays DEF Exists
<1>5. CASE Step
  BY <1>1, <1>5, ShapeOfStep
<1>6. CASE Request
  <2>1. ASSUME NEW s \in Session, NEW c \in Session, ConversationFork(s, c)
        PROVE  op' \in Operations \cup {NoOp} /\ (op' # NoOp => OpShape')
    <3>1. /\ UNCHANGED <<op, at, tip>> /\ forking' = [forking EXCEPT ![c] = home[s]]
          /\ op # NoOp => c \notin op.moving \cup {op.by}
      BY <2>1 DEF ConversationFork, git
    <3>2. op # NoOp => \A d \in Session \cap (op.moving \cup {op.by}) : forking[d] = Gone => forking'[d] = Gone
      BY <1>3, <3>1 DEF PeopleOK
    <3>3. QED
      BY <3>1, <3>2, ShapeStays DEF Exists
  <2>2. QED
    BY <1>6, <2>1, ShapeOfRequest
<1>7. ASSUME NEW s \in Session, TurnStarts(s) /\ UNCHANGED forking PROVE op' \in Operations \cup {NoOp} /\ (op' # NoOp => OpShape')
  <2>1. UNCHANGED <<op, at, tip, forking>>
    BY <1>7 DEF TurnStarts, git
  <2>2. QED
    BY <2>1, ShapeStays DEF Exists
<1>8. ASSUME NEW s \in Session, ConversationForked(s) \/ TurnEnds(s) PROVE op' \in Operations \cup {NoOp} /\ (op' # NoOp => OpShape')
  <2>1. UNCHANGED <<op, at, tip>> /\ (UNCHANGED forking \/ forking' = [forking EXCEPT ![s] = Gone])
    BY <1>8 DEF ConversationForked, TurnEnds, git
  <2>2. op # NoOp => \A d \in Session \cap (op.moving \cup {op.by}) : forking[d] = Gone => forking'[d] = Gone
    BY <1>3, <2>1 DEF PeopleOK
  <2>3. QED
    BY <2>1, <2>2, ShapeStays DEF Exists
<1>9. ASSUME NEW s \in Session, \/ AgentEdits(s) \/ AgentCommits(s) \/ AgentStashes(s)
                                \/ \E b \in Branch \cup {Main} : AgentSwitches(s, b)
      PROVE  op' \in Operations \cup {NoOp} /\ (op' # NoOp => OpShape')
  <2>1. home[s] \in Path /\ at[home[s]] # Gone /\ UNCHANGED forking
    BY <1>3, <1>9 DEF AgentEdits, AgentCommits, AgentStashes, AgentSwitches, Agent, PeopleOK, AtWork
  <2>2. \A p \in Path : at'[p] = Gone <=> at[p] = Gone
    <3>1. ASSUME NEW b \in Branch \cup {Main}, AgentSwitches(s, b) PROVE \A p \in Path : at'[p] = Gone <=> at[p] = Gone
      <4>1. b # Gone /\ at' = [at EXCEPT ![home[s]] = b]
        BY <3>1, Names DEF AgentSwitches
      <4>2. QED
        BY <1>3, <2>1, <4>1 DEF RepositoryOK
    <3>2. AgentEdits(s) \/ AgentCommits(s) \/ AgentStashes(s) => UNCHANGED at
      BY DEF AgentEdits, AgentCommits, AgentStashes
    <3>3. QED
      BY <1>9, <3>1, <3>2
  <2>3. \A b \in Branch \cup {Main} : Exists(b)' <=> Exists(b)
    <3>1. CASE AgentCommits(s)
      <4>1. tip' = [tip EXCEPT ![at[home[s]]] = @ \cup dirty[home[s]]]
        BY <3>1 DEF AgentCommits
      <4>2. tip[at[home[s]]] # NoBranch /\ tip[at[home[s]]] \cup dirty[home[s]] \in SUBSET Work
        BY <1>3, <2>1 DEF RepositoryOK
      <4>3. QED
        BY <1>3, <2>1, <4>1, <4>2, NoBranchIsNoWork DEF RepositoryOK, Exists
    <3>2. CASE ~AgentCommits(s)
      BY <1>9, <3>2 DEF AgentEdits, AgentStashes, AgentSwitches, Exists
    <3>3. QED
      BY <3>1, <3>2
  <2>4. (op' = op \/ op' = [op EXCEPT !.raced = TRUE]) /\ (op # NoOp \/ op' = op)
    BY <1>9 DEF AgentEdits, AgentCommits, AgentStashes, AgentSwitches
  <2>5. QED
    BY <2>1, <2>2, <2>3, <2>4, ShapeStays
<1>10. CASE Restart
  BY <1>10 DEF Restart
<1>11. QED
  BY <1>4, <1>5, <1>6, <1>7, <1>8, <1>9, <1>10 DEF Next, Turn

LEMMA RepositoryOfPlaces == (PlacesInit => Init) /\ ([PlacesNext]_placeVars => [Next]_vars)
BY DEF PlacesInit, PlacesNext, placeVars

LEMMA RepositoryTypeInv == PlacesSpec => []TypeInv
BY RepositoryStarts, RepositoryStep, RepositoryOfPlaces, PTL DEF PlacesSpec

(***************************************************************************)
(* No conversation is left in a workspace that is gone.                    *)
(***************************************************************************)

\* Between the last look and the removal, only a conversation whose fork was under way
\* comes to the workspace, and it is counted as a stray.
Vacant == op # NoOp /\ op.step = "removing" => At(op.path) \subseteq strays
HomesInv == Vacant /\ HomesExist

\* Only the removal of a worktree and the cleanup of a fork take a workspace away.
LEMMA NeverGone ==
    TypeInv /\ [Next]_vars => Removing \/ Cleanup \/ \A p \in Path : at[p] # Gone => at'[p] # Gone
<1> SUFFICES ASSUME TypeInv, [Next]_vars, ~Removing, ~Cleanup PROVE \A p \in Path : at[p] # Gone => at'[p] # Gone
  OBVIOUS
<1>1. at \in [Path -> Branch \cup {Main, Gone}] /\ (op # NoOp => op \in Operations /\ OpShape)
  BY Started DEF TypeInv, TypeOK
<1>2. UNCHANGED at \/ Switching \/ Adding \/ AddFork \/ \E s \in Session, b \in Branch \cup {Main} : AgentSwitches(s, b)
  BY GitFrame DEF git, Merging, Deleting, StashPush, Apply, Restore, StashDrop, AgentEdits, AgentCommits, AgentStashes
<1>3. CASE Switching
  <2>1. Target \in Branch \cup {Main}
    BY <1>1, <1>3 DEF Switching, Operations, Target
  <2>2. UNCHANGED at \/ at' = [at EXCEPT ![IF op.kind = "switch" THEN op.path ELSE Checkout] = Target]
    BY <1>3 DEF Switching
  <2>3. QED
    BY <1>1, <2>1, <2>2, Names
<1>4. CASE Adding \/ AddFork
  <2>1. op.branch \in Branch
    BY <1>1, <1>4 DEF Adding, AddFork, Is, OpShape, ContextShape, ForkShape
  <2>2. UNCHANGED at \/ at' = [at EXCEPT ![op.branch] = op.branch]
    BY <1>4 DEF Adding, AddFork
  <2>3. QED
    BY <1>1, <2>1, <2>2, Names
<1>5. ASSUME NEW s \in Session, NEW b \in Branch \cup {Main}, AgentSwitches(s, b) PROVE \A p \in Path : at[p] # Gone => at'[p] # Gone
  BY <1>1, <1>5, Names DEF AgentSwitches
<1>6. QED
  BY <1>2, <1>3, <1>4, <1>5

\* An operation comes to the removal from its last look.
LEMMA LastLook ==
    ASSUME TypeInv, [Next]_vars, op' # NoOp, op'.step = "removing"
    PROVE  op # NoOp /\ op'.path = op.path /\ (op.step = "removing" \/ (Remove /\ At(op.path) = {}))
<1>1. op # NoOp => op \in Operations
  BY Started
<1>2. CASE Step
  <2>1. op # NoOp
    BY <1>2 DEF Step, Prepare, Switching, Fetch, Merge, Merging, Gather, Rehome, Rehomed, Remove, Removing, Delete,
        Deleting, Add,
       Adding, Settle, StashPush, StashRef, AddFork, Apply, Restore, StashList, StashDrop, ForkChild, Cleanup, Quit, Remote, Is
  <2>2. ASSUME NEW step \in Steps, Go(step) PROVE step = "removing" /\ op'.path = op.path
    BY <1>1, <2>1, <2>2, Going DEF Go, SamePlace
  <2>3. ASSUME NEW step \in Steps, NEW holds, Check(holds, step) PROVE step = "removing" /\ op'.path = op.path /\ holds
    BY <2>1, <2>3, Checking DEF SamePlace
  <2>4. AfterMain \in Steps \ {"removing"} /\ Forked \in Steps \ {"removing"}
    BY DEF AfterMain, Forked, Steps
  <2>5. ~End("ok") /\ ~End("failed") /\ ~End("kept")
    BY DEF End
  <2>6. CASE Prepare \/ Fetch \/ Merge \/ Rehomed \/ Delete
    BY <2>2, <2>3, <2>4, <2>5, <2>6 DEF Prepare, Fetch, Merge, Rehomed, Delete, Steps
  <2>7. CASE Switching
    BY <2>2, <2>4, <2>5, <2>7 DEF Switching, Steps
  <2>8. CASE Removing \/ Deleting \/ Adding \/ Settle \/ Cleanup \/ Quit \/ Remote
    BY <2>2, <2>5, <2>8 DEF Removing, Deleting, Adding, Settle, Cleanup, Quit, Remote, Steps
  <2>9. CASE Remove
    <3>1. op.path \notin {Gone, Checkout} /\ Vacated
      BY <2>2, <2>3, <2>9 DEF Remove, Steps
    <3>2. op'.path = op.path
      BY <2>2, <2>3, <2>9 DEF Remove, Steps
    <3>3. QED
      BY <2>1, <2>9, <3>1, <3>2 DEF Vacated
  <2>10. CASE Restore
    BY <2>2, <2>5, <2>10 DEF Restore, Steps
  <2>11. CASE Apply
    <3>1. Undo => op' = [op EXCEPT !.step = "restore", !.failed = TRUE]
      BY <2>5 DEF Undo
    <3>2. ~Undo
      BY <1>1, <2>1, <3>1 DEF Operations
    <3>3. QED
      BY <2>2, <2>11, <3>2 DEF Apply, FailedApply, Steps
  <2>12. CASE AddFork
    <3>1. Undo => op' = [op EXCEPT !.step = "restore", !.failed = TRUE]
      BY <2>5 DEF Undo
    <3>2. \/ op' = [op EXCEPT !.step = "restore", !.failed = TRUE]
          \/ op' = [op EXCEPT !.done = TRUE, !.step = IF op.ref = {} THEN "child" ELSE "apply"]
      BY <2>12, <3>1 DEF AddFork
    <3>3. QED
      BY <1>1, <2>1, <3>2 DEF Operations
  <2>13. CASE Merging \/ Gather
    <3>1. \/ op' = [op EXCEPT !.step = "gather", !.done = TRUE]
          \/ op' = [op EXCEPT !.step = "rehome", !.moving = At(op.path)]
      BY <2>5, <2>13 DEF Merging, Gather
    <3>2. QED
      BY <1>1, <2>1, <3>1 DEF Operations
  <2>14. CASE Add
    BY <1>1, <2>1, <2>14 DEF Add, Operations
  <2>15. CASE StashPush \/ StashRef
    <3>1. \/ op' = [op EXCEPT !.step = "ref", !.had = dirty[op.path]]
          \/ op' = [op EXCEPT !.step = "branch", !.ref = Head(stash)]
      BY <2>5, <2>15 DEF StashPush, StashRef
    <3>2. QED
      BY <1>1, <2>1, <3>1 DEF Operations
  <2>16. CASE StashList \/ StashDrop
    <3>1. \/ op' = [op EXCEPT !.step = Forked]
          \/ \E i \in DOMAIN stash : op' = [op EXCEPT !.step = "drop", !.index = i]
      BY <2>16 DEF StashList, StashDrop
    <3>2. QED
      BY <1>1, <2>1, <2>4, <3>1 DEF Operations
  <2>17. ASSUME NEW s \in Session, Rehome(s) PROVE op.step = "removing" /\ op'.path = op.path
    <3>1. op' = [op EXCEPT !.moving = @ \ {s}]
      BY <2>5, <2>17 DEF Rehome
    <3>2. QED
      BY <1>1, <2>1, <3>1 DEF Operations
  <2>18. ASSUME NEW c \in Session, ForkChild(c) PROVE FALSE
    BY <2>2, <2>5, <2>18 DEF ForkChild, Steps
  <2>19. QED
    BY <1>2, <2>1, <2>6, <2>7, <2>8, <2>9, <2>10, <2>11, <2>12, <2>13, <2>14, <2>15, <2>16, <2>17, <2>18 DEF Step
<1>3. CASE Request
  <2>1. ASSUME NEW s \in Session, NEW c \in Session, ConversationFork(s, c) PROVE op' = op
    BY <2>1 DEF ConversationFork
  <2>2. ASSUME ~\E s, c \in Session : ConversationFork(s, c) PROVE FALSE
    <3>1. op' \in Operations /\ OpShape' /\ op'.path \notin {Gone, Checkout}
      BY <1>3, <2>2, ShapeOfRequest DEF OpShape
    <3>2. op'.step \in {"prepare", "add", "settle", "switching", "branch", "stash", "remote"}
      <4>1. FirstStep(Main) = "prepare" /\ \A b \in Branch : FirstStep(b) \in {"prepare", "add"}
        BY DEF FirstStep
      <4>2. ASSUME NEW s \in Session, MergeAsked(s) PROVE op'.step = "prepare"
        BY <4>2 DEF MergeAsked, Start
      <4>3. ASSUME NEW s \in Session, NEW b \in Branch \cup {Main}, CreateAsked(s, b) \/ MoveAsked(s, b)
            PROVE op'.step \in {"prepare", "add"}
        <5>1. op'.step = FirstStep(b)
          BY <4>3 DEF CreateAsked, MoveAsked, Start
        <5>2. QED
          BY <4>1, <5>1
      <4>4. ASSUME NEW s \in Session, NEW b \in Branch \cup {Main}, SwitchAsked(s, b) PROVE op'.step \in {"settle", "switching"}
        BY <4>4 DEF SwitchAsked, Start
      <4>5. ASSUME NEW s \in Session, NEW c \in Session, NEW b \in Branch, ForkAsked(s, c, b) PROVE op'.step \in {"branch", "stash"}
        BY <4>5 DEF ForkAsked
      <4>6. ASSUME NEW b \in Branch, NEW force \in BOOLEAN, DeleteAsked(b, force) PROVE op'.step = "prepare"
        BY <4>6 DEF DeleteAsked
      <4>7. RemoteAsked => op'.step = "remote"
        BY DEF RemoteAsked, Start
      <4>8. QED
        BY <1>3, <2>2, <4>2, <4>3, <4>4, <4>5, <4>6, <4>7 DEF Request
    <3>3. QED
      BY <3>2
  <2>3. QED
    BY <2>1, <2>2
<1>4. ASSUME \/ UNCHANGED vars \/ \E s \in Session : TurnStarts(s) \/ ConversationForked(s) \/ TurnEnds(s)
      PROVE  op' = op
  BY <1>4 DEF vars, TurnStarts, ConversationForked, TurnEnds
<1>5. ASSUME NEW s \in Session, \/ AgentEdits(s) \/ AgentCommits(s) \/ AgentStashes(s)
                                \/ \E b \in Branch \cup {Main} : AgentSwitches(s, b)
      PROVE  op # NoOp /\ op'.path = op.path /\ op.step = "removing"
  <2>1. op' = op \/ (op # NoOp /\ op' = [op EXCEPT !.raced = TRUE])
    BY <1>5 DEF AgentEdits, AgentCommits, AgentStashes, AgentSwitches
  <2>2. QED
    BY <1>1, <2>1 DEF Operations
<1>6. ~Restart
  BY DEF Restart
<1>7. QED
  BY <1>2, <1>3, <1>4, <1>5, <1>6 DEF Next, Turn

LEMMA HomesStart == Init => HomesInv
<1> SUFFICES ASSUME Init PROVE HomesInv
  OBVIOUS
<1>1. Vacant
  BY DEF Init, Vacant
<1>2. HomesExist
  <2>1. /\ at = [p \in Path |-> IF p \in {Checkout, Feature} THEN p ELSE Gone]
        /\ home = [s \in Session |-> IF s \in Moved THEN Feature ELSE IF s \in Early THEN Checkout ELSE Gone]
    BY DEF Init
  <2>2. Feature \in Path
    BY GitAssumption, Names
  <2>3. QED
    BY <2>1, <2>2, Names DEF HomesExist
<1>3. QED
  BY <1>1, <1>2 DEF HomesInv

LEMMA HomesStep == TypeInv /\ HomesInv /\ [Next]_vars => HomesInv'
<1> SUFFICES ASSUME TypeInv, HomesInv, [Next]_vars PROVE HomesInv'
  OBVIOUS
<1>1. RepositoryOK /\ PeopleOK /\ (op # NoOp => op \in Operations /\ OpShape)
  BY Started DEF TypeInv, TypeOK, RepositoryOK, PeopleOK
<1>2. UNCHANGED strays \/ \E c \in Session : ConversationForked(c)
  <2>1. Step => UNCHANGED strays
    BY DEF Step, Prepare, Switching, Fetch, Merge, Merging, Gather, Rehome, Rehomed, Remove, Removing, Delete,
        Deleting, Add, Adding,
       Settle, StashPush, StashRef, AddFork, Apply, Restore, StashList, StashDrop, ForkChild, Cleanup, Quit, Remote, Steady, history
  <2>2. Request => UNCHANGED strays
    BY RequestFrame DEF history
  <2>3. Turn => UNCHANGED strays \/ \E c \in Session : ConversationForked(c)
    BY DEF Turn, TurnEnds, AgentEdits, AgentCommits, AgentStashes, AgentSwitches, Agent, history
  <2>4. (\E s \in Session : TurnStarts(s)) \/ Restart => UNCHANGED strays
    BY DEF TurnStarts, Restart, history
  <2>5. QED
    BY <2>1, <2>2, <2>3, <2>4 DEF Next, vars, history
<1>3. CASE Removing
  <2>1. /\ op # NoOp /\ op.step = "removing" /\ UNCHANGED <<home, strays>>
        /\ UNCHANGED at \/ at' = [at EXCEPT ![op.path] = Gone]
    BY <1>3 DEF Removing, Is
  <2>2. op' = NoOp \/ op'.step # "removing"
    <3>1. Go("delete") => op'.step = "delete"
      BY <1>1, <2>1, Going DEF Go, Steps
    <3>2. QED
      BY <1>3, <3>1 DEF Removing, End
  <2>3. At(op.path) \subseteq strays
    BY <2>1 DEF HomesInv, Vacant
  <2>4. op.path # Gone /\ op.path \in Path
    BY <1>1, <2>1 DEF OpShape, Operations
  <2>5. ASSUME NEW s \in Session \ strays, home[s] # Gone PROVE at'[home[s]] # Gone
    <3>1. at[home[s]] # Gone /\ home[s] # op.path
      BY <2>3, <2>4, <2>5 DEF HomesInv, HomesExist, At
    <3>2. home[s] \in Path
      BY <1>1, <2>5 DEF PeopleOK
    <3>3. QED
      BY <1>1, <2>1, <3>1, <3>2 DEF RepositoryOK
  <2>6. QED
    BY <2>1, <2>2, <2>5 DEF HomesInv, Vacant, HomesExist
<1>4. CASE Cleanup
  <2>1. /\ op' = NoOp /\ UNCHANGED <<home, strays>> /\ op # NoOp /\ op.kind = "fork"
        /\ UNCHANGED at \/ (at' = [at EXCEPT ![op.branch] = Gone] /\ At(op.branch) = {})
    BY <1>4 DEF Cleanup, End, Is, history
  <2>2. op.branch # Gone
    BY <1>1, <2>1, Names DEF OpShape, ForkShape, Path
  <2>3. ASSUME NEW s \in Session \ strays, home[s] # Gone PROVE at'[home[s]] # Gone
    <3>1. at[home[s]] # Gone /\ (At(op.branch) = {} => home[s] # op.branch)
      BY <2>2, <2>3 DEF HomesInv, HomesExist, At
    <3>2. home[s] \in Path
      BY <1>1, <2>3 DEF PeopleOK
    <3>3. QED
      BY <1>1, <2>1, <3>1, <3>2 DEF RepositoryOK
  <2>4. QED
    BY <2>1, <2>3 DEF HomesInv, Vacant, HomesExist
<1>5. ASSUME ~Removing, ~Cleanup PROVE \A p \in Path : at[p] # Gone => at'[p] # Gone
  BY <1>5, NeverGone
<1>6. ASSUME ~Removing, ~Cleanup, UNCHANGED <<home, strays>> PROVE HomesInv'
  <2>1. HomesExist'
    BY <1>1, <1>5, <1>6 DEF HomesInv, HomesExist, PeopleOK
  <2>2. Vacant'
    <3>1. ASSUME op' # NoOp, op'.step = "removing" PROVE (At(op.path) \subseteq strays) /\ op'.path = op.path
      BY <3>1, LastLook DEF HomesInv, Vacant
    <3>2. QED
      BY <1>6, <3>1 DEF Vacant, At
  <2>3. QED
    BY <2>1, <2>2 DEF HomesInv
<1>7. ASSUME NEW s \in Session, NEW p \in Path \cup {Gone}, home' = [home EXCEPT ![s] = p], p # Gone => at'[p] # Gone,
             ~Removing, ~Cleanup, UNCHANGED strays
      PROVE  HomesExist'
  BY <1>1, <1>5, <1>7 DEF HomesInv, HomesExist, PeopleOK
<1>8. CASE Settle /\ home' # home
  <2>1. op # NoOp /\ op.kind \in {"create", "move", "switch"} /\ op.step = "settle" /\ op' = NoOp
        /\ home' = [home EXCEPT ![op.by] = op.path] /\ UNCHANGED <<at, strays>>
    BY <1>8 DEF Settle, Is, End, git, history
  <2>2. op.by \in Session /\ op.path \in Path /\ at[op.path] # Gone
    BY <1>1, <2>1 DEF OpShape, ContextShape, SwitchShape
  <2>3. ~Removing /\ ~Cleanup
    BY <2>1 DEF Removing, Cleanup, Is
  <2>4. QED
    BY <1>7, <2>1, <2>2, <2>3 DEF HomesInv, Vacant
<1>9. ASSUME NEW s \in Session, Rehome(s), home' # home PROVE HomesInv'
  <2>1. PICK p \in {Checkout, Gone} : home' = [home EXCEPT ![s] = p]
    BY <1>9 DEF Rehome
  <2>2. op # NoOp /\ op.step = "rehome" /\ UNCHANGED <<at, strays>>
    BY <1>9 DEF Rehome, Is, git, history
  <2>3. ~Removing /\ ~Cleanup /\ ~Remove
    BY <2>2 DEF Removing, Cleanup, Remove, Is
  <2>4. Vacant'
    BY <2>2, <2>3, LastLook DEF Vacant
  <2>5. QED
    BY <1>1, <1>7, <2>1, <2>2, <2>3, <2>4, Names DEF RepositoryOK, HomesInv
<1>10. ASSUME NEW c \in Session, ForkChild(c), home' # home PROVE HomesInv'
  <2>1. op # NoOp /\ op.kind = "fork" /\ op.step = "child" /\ op' = NoOp /\ UNCHANGED <<at, strays>> /\ home' = [home EXCEPT ![c] = op.branch]
    BY <1>10 DEF ForkChild, Is, End, git, history
  <2>2. op.branch \in Path /\ at[op.branch] # Gone
    BY <1>1, <2>1, Names DEF OpShape, ForkShape
  <2>3. ~Removing /\ ~Cleanup
    BY <2>1 DEF Removing, Cleanup, Is
  <2>4. QED
    BY <1>7, <2>1, <2>2, <2>3 DEF HomesInv, Vacant
<1>11. ASSUME NEW c \in Session, ConversationForked(c) PROVE HomesInv'
  <2>1. /\ forking[c] # Gone /\ home' = [home EXCEPT ![c] = forking[c]] /\ UNCHANGED <<at, op>>
        /\ strays' = IF Leaving(forking[c]) THEN strays \cup {c} ELSE strays
    BY <1>11 DEF ConversationForked, git
  <2>2. forking[c] \in Path
    BY <1>1, <2>1 DEF PeopleOK
  <2>3. \A s \in Session : home'[s] = IF s = c THEN forking[c] ELSE home[s]
    BY <1>1, <2>1 DEF PeopleOK
  <2>4. HomesExist'
    BY <2>1, <2>3 DEF HomesInv, HomesExist, Leaving
  <2>5. Vacant'
    BY <2>1, <2>3 DEF HomesInv, Vacant, At, Leaving
  <2>6. QED
    BY <2>4, <2>5 DEF HomesInv
<1>12. QED
  <2>1. UNCHANGED home \/ Settle \/ \E s \in Session : Rehome(s) \/ ForkChild(s) \/ ConversationForked(s)
    BY HomeFrame DEF Restart, ConversationFork
  <2>2. CASE home' = home /\ ~\E c \in Session : ConversationForked(c)
    BY <1>2, <1>3, <1>4, <1>6, <2>2
  <2>3. QED
    BY <1>8, <1>9, <1>10, <1>11, <2>1, <2>2

\* server/routes/workspaces.js, branches.js and contexts.js: a conversation's workspace is
\* there, except for one whose fork was under way when its workspace was last looked at.
LEMMA HomesExistAlways == PlacesSpec => []HomesExist
<1>1. HomesInv => HomesExist
  BY DEF HomesInv
<1>2. QED
  BY <1>1, RepositoryTypeInv, HomesStart, HomesStep, RepositoryOfPlaces, PTL DEF PlacesSpec

(***************************************************************************)
(* No work is lost.                                                        *)
(***************************************************************************)

\* What a step of no fork and no merge leaves of the operation; one of another kind, and
\* the steps of a fork and a merge that are not named here, may go on.
Plain ==
    op' # NoOp =>
        /\ op # NoOp /\ SameOperation /\ op'.done = op.done /\ op'.ref = op.ref /\ op'.index = op.index /\ op'.had = op.had
        /\ op.kind = "fork" => op'.path = op.path
        /\ op'.raced = op.raced \/ op'.raced = TRUE
        /\ op'.step = op.step \/ op'.step \notin {"stash", "ref", "branch", "apply", "restore", "list", "drop"}
Begun ==
    /\ op' \in Operations /\ op'.done = FALSE /\ op'.ref = {}
    /\ op'.kind = "fork" => \E s, c \in Session, b \in Branch : ForkAsked(s, c, b)
    /\ op'.step \in {"prepare", "add", "settle", "switching", "branch", "stash", "remote"}

LEMMA PlainOrNot ==
    TypeInv /\ [Next]_vars =>
        \/ Plain \/ (Begun /\ Request) \/ Merging
        \/ StashPush \/ StashRef \/ AddFork \/ Apply \/ Restore \/ StashList \/ StashDrop
<1> SUFFICES ASSUME TypeInv, [Next]_vars, ~Merging, ~StashPush, ~StashRef, ~AddFork, ~Apply, ~Restore, ~StashList, ~StashDrop
             PROVE  Plain \/ (Begun /\ Request)
  OBVIOUS
<1>1. op # NoOp => op \in Operations /\ OpShape
  BY Started
<1>2. op' = op \/ op' = NoOp => Plain
  BY <1>1 DEF Plain, SameOperation
<1>3. CASE Step
  <2>1. op # NoOp
    BY <1>3 DEF Step, Prepare, Switching, Fetch, Merge, Merging, Gather, Rehome, Rehomed, Remove, Removing, Delete,
        Deleting, Add,
       Adding, Settle, StashPush, StashRef, AddFork, Apply, Restore, StashList, StashDrop, ForkChild, Cleanup, Quit, Remote, Is
  <2> DEFINE Others == Steps \ {"stash", "ref", "branch", "apply", "restore", "list", "drop"}
  <2>2. ASSUME NEW step \in Others, Go(step) PROVE Plain
    BY <1>1, <2>1, <2>2, Going DEF Go, SamePlace, SameProgress, SameStash, Plain
  <2>3. ASSUME NEW step \in Others, NEW holds, Check(holds, step) PROVE Plain
    BY <2>1, <2>3, Checking DEF SamePlace, SameProgress, SameStash, Plain
  <2>4. AfterMain \in Others
    BY DEF AfterMain, Steps
  <2>5. \A how : End(how) => Plain
    BY <1>2 DEF End
  <2>6. CASE Prepare \/ Fetch \/ Merge \/ Rehomed \/ Delete \/ Remove \/ Switching
    <3>1. "switching" \in Others /\ "merge" \in Others /\ "add" \in Others /\ "merging" \in Others /\ "remove" \in Others
          /\ "deleting" \in Others /\ "delete" \in Others /\ "removing" \in Others /\ "settle" \in Others
      BY DEF Steps
    <3> HIDE DEF Others
    <3>2. CASE Prepare
      BY <2>3, <2>4, <3>1, <3>2 DEF Prepare
    <3>3. CASE Fetch
      BY <2>3, <2>5, <3>1, <3>3 DEF Fetch
    <3>4. CASE Merge \/ Rehomed \/ Delete
      BY <2>2, <2>3, <3>1, <3>4 DEF Merge, Rehomed, Delete
    <3>5. CASE Remove
      BY <2>2, <2>3, <3>1, <3>5 DEF Remove
    <3>6. CASE Switching
      BY <2>2, <2>4, <2>5, <3>1, <3>6 DEF Switching
    <3>7. QED
      BY <2>6, <3>2, <3>3, <3>4, <3>5, <3>6
  <2>7. CASE Removing \/ Deleting \/ Adding \/ Settle \/ Cleanup \/ Quit \/ Remote
    BY <2>2, <2>5, <2>7 DEF Removing, Deleting, Adding, Settle, Cleanup, Quit, Remote, Steps
  <2>8. CASE Gather
    <3>1. op' = NoOp \/ (op' = [op EXCEPT !.step = "rehome", !.moving = At(op.path)] /\ At(op.path) \in SUBSET Session)
      BY <2>8 DEF Gather, End, At
    <3>2. ASSUME NEW moving \in SUBSET Session, op' = [op EXCEPT !.step = "rehome", !.moving = moving]
          PROVE  SameOperation /\ op'.path = op.path /\ SameProgress /\ SameStash /\ op'.step = "rehome"
      BY <1>1, <2>1, <3>2 DEF Operations, SameOperation, SameProgress, SameStash
    <3>3. QED
      BY <2>1, <3>1, <3>2 DEF Plain, SameProgress, SameStash
  <2>9. CASE Add
    <3>1. PICK p \in Path : op' = [op EXCEPT !.path = p, !.step = "adding"] \/ op' = [op EXCEPT !.path = p, !.step = "settle"]
      <4>1. op.branch \in Path /\ op.kind \in {"create", "move"}
        BY <1>1, <2>1, <2>9, Names DEF Add, Is, OpShape, ContextShape
      <4>2. Where(op.branch) # {} => (CHOOSE p \in Where(op.branch) : TRUE) \in Path
        BY DEF Where
      <4>3. QED
        BY <2>9, <4>1, <4>2 DEF Add
    <3>2. op.kind # "fork"
      BY <2>9 DEF Add, Is
    <3>3. ASSUME NEW step \in {"adding", "settle"}, op' = [op EXCEPT !.path = p, !.step = step]
          PROVE  SameOperation /\ SameProgress /\ SameStash /\ op'.step = step
      BY <1>1, <2>1, <3>3 DEF Operations, SameOperation, SameProgress, SameStash
    <3>4. QED
      BY <2>1, <3>1, <3>2, <3>3 DEF Plain, SameProgress, SameStash
  <2>10. ASSUME NEW s \in Session, Rehome(s) PROVE Plain
    <3>1. op' = NoOp \/ (op' = [op EXCEPT !.moving = @ \ {s}])
      BY <2>10 DEF Rehome, End
    <3>2. ASSUME op' # NoOp PROVE SameOperation /\ op'.path = op.path /\ SameProgress /\ SameStash /\ op'.step = op.step
      BY <1>1, <2>1, <3>1, <3>2 DEF Operations, SameOperation, SameProgress, SameStash
    <3>3. QED
      BY <2>1, <3>2 DEF Plain, SameProgress, SameStash
  <2>11. ASSUME NEW c \in Session, ForkChild(c) PROVE Plain
    BY <2>2, <2>5, <2>11 DEF ForkChild, Steps
  <2>12. QED
    BY <1>3, <2>6, <2>7, <2>8, <2>9, <2>10, <2>11 DEF Step
<1>4. CASE Request
  <2>1. ASSUME NEW s \in Session, NEW c \in Session, ConversationFork(s, c) PROVE op' = op
    BY <2>1 DEF ConversationFork
  <2>2. ASSUME ~\E s, c \in Session : ConversationFork(s, c) PROVE Begun
    <3>1. op' \in Operations
      BY <1>4, <2>2, ShapeOfRequest
    <3> DEFINE New(kinds, steps) == op'.done = FALSE /\ op'.ref = {} /\ op'.kind \in kinds /\ op'.step \in steps
    <3>2. \A s \in Session : MergeAsked(s) => New({"merge"}, {"prepare"})
      BY DEF MergeAsked, Start
    <3>3. ASSUME NEW s \in Session, NEW b \in Branch \cup {Main}, CreateAsked(s, b) \/ MoveAsked(s, b)
          PROVE New({"create", "move"}, {"prepare", "add"})
      <4>1. FirstStep(b) \in {"prepare", "add"}
        BY DEF FirstStep
      <4>2. QED
        BY <3>3, <4>1 DEF CreateAsked, MoveAsked, Start
    <3>4. \A s \in Session, b \in Branch \cup {Main} : SwitchAsked(s, b) => New({"switch"}, {"settle", "switching"})
      BY DEF SwitchAsked, Start
    <3>5. \A s, c \in Session, b \in Branch : ForkAsked(s, c, b) => New({"fork"}, {"branch", "stash"})
      BY DEF ForkAsked
    <3>6. \A b \in Branch, force \in BOOLEAN : DeleteAsked(b, force) => New({"delete"}, {"prepare"})
      BY DEF DeleteAsked
    <3>7. RemoteAsked => New({"remote"}, {"remote"})
      BY DEF RemoteAsked, Start
    <3>8. QED
      BY <1>4, <2>2, <3>1, <3>2, <3>3, <3>4, <3>5, <3>6, <3>7 DEF Request, Begun
  <2>3. QED
    BY <1>2, <1>4, <2>1, <2>2
<1>5. ASSUME \/ UNCHANGED vars \/ \E s \in Session : TurnStarts(s) \/ ConversationForked(s) \/ TurnEnds(s)
      PROVE  op' = op
  BY <1>5 DEF vars, TurnStarts, ConversationForked, TurnEnds
<1>6. ASSUME NEW s \in Session, \/ AgentEdits(s) \/ AgentCommits(s) \/ AgentStashes(s)
                                \/ \E b \in Branch \cup {Main} : AgentSwitches(s, b)
      PROVE  Plain
  <2>1. op' = op \/ (op # NoOp /\ op' = [op EXCEPT !.raced = TRUE])
    BY <1>6 DEF AgentEdits, AgentCommits, AgentStashes, AgentSwitches
  <2>2. ASSUME op # NoOp, op' = [op EXCEPT !.raced = TRUE]
        PROVE  /\ SameOperation /\ op'.path = op.path /\ SameProgress /\ op'.had = op.had /\ op'.ref = op.ref
               /\ op'.index = op.index /\ op'.raced = TRUE /\ op'.step = op.step
    BY <1>1, <2>2 DEF Operations, SameOperation, SameProgress
  <2>3. QED
    BY <1>2, <2>1, <2>2 DEF Plain, SameProgress
<1>7. Restart => Plain
  BY <1>2 DEF Restart
<1>8. QED
  BY <1>2, <1>3, <1>4, <1>5, <1>6, <1>7 DEF Next, Turn

\* What the steps of a fork make of it.
LEMMA ForkSteps ==
    ASSUME TypeInv, StashPush \/ StashRef \/ AddFork \/ Apply \/ Restore \/ StashList \/ StashDrop
    PROVE  /\ op \in Operations /\ op.kind = "fork" /\ op.path \in Path /\ op.branch \in Branch
           /\ op' = NoOp \/ (SameOperation /\ op'.path = op.path /\ op'.raced = op.raced)
           /\ StashPush => op.step = "stash" /\ op.done = FALSE /\
                (op' = NoOp \/ (op'.step = "ref" /\ op'.had = dirty[op.path] /\ op'.done = FALSE))
           /\ StashRef => op.step = "ref" /\ op.done = FALSE /\
                \/ op' = NoOp /\ stash = <<>>
                \/ op'.step = "branch" /\ op'.ref = Head(stash) /\ stash # <<>> /\ op'.had = op.had /\ op'.done = FALSE
           /\ AddFork => op.step = "branch" /\ op.done = FALSE /\
                \/ op' = NoOp /\ op.ref = {} /\ UNCHANGED <<at, tip>>
                \/ op'.step = "restore" /\ op'.ref = op.ref /\ op'.had = op.had /\ op'.done = FALSE /\ UNCHANGED <<at, tip>>
                \/ /\ SameOperation /\ op'.step = (IF op.ref = {} THEN "child" ELSE "apply") /\ op'.ref = op.ref /\ op'.had = op.had /\ op'.done = TRUE
                   /\ at' = [at EXCEPT ![op.branch] = op.branch] /\ tip' = [tip EXCEPT ![op.branch] = tip[at[op.path]]]
                   /\ at[op.branch] = Gone /\ Where(op.branch) = {} /\ ~Exists(op.branch)
           /\ Apply => op.step = "apply" /\ op.done /\ op' # NoOp
                       /\ op'.step = "restore" /\ op'.ref = op.ref /\ op'.had = op.had /\ op'.done = op.done
           /\ Restore => op.step = "restore" /\
                \/ op' = NoOp /\ answer' = "kept" /\ UNCHANGED dirty
                \/ /\ op'.step = "list" /\ op'.ref = op.ref /\ op'.had = op.had /\ op'.done = op.done
                   /\ dirty' = [dirty EXCEPT ![op.path] = @ \cup op.ref]
           /\ StashList => op.step = "list" /\ op' # NoOp /\ op'.ref = op.ref /\ op'.had = op.had /\ op'.done = op.done /\
                \/ op'.step = Forked
                \/ op'.step = "drop" /\ \E i \in DOMAIN stash : stash[i] = op.ref /\ op'.index = i /\ \A j \in 1..i - 1 : stash[j] # op.ref
           /\ StashDrop => op.step = "drop" /\ op' # NoOp /\ op'.step = Forked /\ op'.ref = op.ref /\ op'.had = op.had
                           /\ op'.done = op.done
<1>1. op # NoOp /\ op.kind = "fork"
  BY DEF StashPush, StashRef, AddFork, Apply, Restore, StashList, StashDrop, Is
<1>2. op \in Operations /\ OpShape /\ op.path \in Path /\ op.branch \in Branch
  BY <1>1, Started DEF OpShape, ForkShape
<1>3. op.had \in SUBSET Work /\ op.ref \in SUBSET Work /\ op.index \in Nat /\ op.done \in BOOLEAN /\ op.failed \in BOOLEAN
  BY <1>2 DEF Operations
<1>4. Forked \in Steps
  BY DEF Forked, Steps
<1>5. dirty[op.path] \in SUBSET Work /\ (stash # <<>> => Head(stash) \in SUBSET Work) /\ DOMAIN stash \subseteq Nat
  BY <1>2 DEF TypeInv, TypeOK
<1>6. op.step \in {"stash", "ref", "branch"} => op.done = FALSE
  BY <1>1, <1>2, <1>3 DEF OpShape, ForkShape
<1>7. op.step = "apply" => op.done /\ op.ref # {}
  BY <1>1, <1>2 DEF OpShape, ForkShape
<1> DEFINE Kept3 == SameOperation /\ op'.path = op.path /\ op'.raced = op.raced
<1>8. ASSUME NEW step \in Steps, op' = [op EXCEPT !.step = step]
      PROVE  Kept3 /\ op' # NoOp /\ op'.step = step /\ op'.ref = op.ref /\ op'.had = op.had /\ op'.done = op.done
  BY <1>2, <1>8, Going, NoOpKind DEF SamePlace, SameProgress, SameStash, SameOperation, Operations
<1>9. ASSUME op' = [op EXCEPT !.step = "restore", !.failed = TRUE]
      PROVE  Kept3 /\ op' # NoOp /\ op'.step = "restore" /\ op'.ref = op.ref /\ op'.had = op.had /\ op'.done = op.done
  <2>1. Kept3 /\ op'.step = "restore" /\ op'.ref = op.ref /\ op'.had = op.had /\ op'.done = op.done
    BY <1>2, <1>9 DEF Operations, SameOperation
  <2>2. QED
    BY <1>1, <2>1 DEF SameOperation, NoOp
<1>10. Undo => \/ op' = NoOp /\ op.ref = {}
               \/ Kept3 /\ op' # NoOp /\ op'.step = "restore" /\ op'.ref = op.ref /\ op'.had = op.had /\ op'.done = op.done
  BY <1>9 DEF Undo, End
<1>11. ASSUME NEW i \in DOMAIN stash, op' = [op EXCEPT !.step = "drop", !.index = i]
       PROVE  Kept3 /\ op' # NoOp /\ op'.step = "drop" /\ op'.index = i /\ op'.ref = op.ref /\ op'.had = op.had /\ op'.done = op.done
  <2>1. Kept3 /\ op'.step = "drop" /\ op'.index = i /\ op'.ref = op.ref /\ op'.had = op.had /\ op'.done = op.done
    BY <1>2, <1>5, <1>11 DEF Operations, SameOperation
  <2>2. QED
    BY <1>1, <2>1 DEF SameOperation, NoOp
<1>12. ASSUME StashPush PROVE /\ op' = NoOp \/ (Kept3 /\ op'.step = "ref" /\ op'.had = dirty[op.path] /\ op'.done = FALSE)
                              /\ op.step = "stash" /\ op.done = FALSE
  <2>1. op.step = "stash" /\ (op' = NoOp \/ op' = [op EXCEPT !.step = "ref", !.had = dirty[op.path]])
    BY <1>12 DEF StashPush, Is, End
  <2>2. op' = [op EXCEPT !.step = "ref", !.had = dirty[op.path]] =>
          Kept3 /\ op'.step = "ref" /\ op'.had = dirty[op.path] /\ op'.done = op.done
    BY <1>2, <1>5 DEF Operations, SameOperation
  <2>3. QED
    BY <1>6, <2>1, <2>2
<1>13. ASSUME StashRef PROVE /\ \/ op' = NoOp /\ stash = <<>>
                                \/ /\ Kept3 /\ op'.step = "branch" /\ op'.ref = Head(stash) /\ stash # <<>>
                                   /\ op'.had = op.had /\ op'.done = FALSE
                             /\ op.step = "ref" /\ op.done = FALSE
  <2>1. op.step = "ref" /\ \/ op' = NoOp /\ stash = <<>>
                           \/ stash # <<>> /\ op' = [op EXCEPT !.step = "branch", !.ref = Head(stash)]
    BY <1>13 DEF StashRef, Is, End
  <2>2. stash # <<>> /\ op' = [op EXCEPT !.step = "branch", !.ref = Head(stash)] =>
          Kept3 /\ op'.step = "branch" /\ op'.ref = Head(stash) /\ op'.had = op.had /\ op'.done = op.done
    BY <1>2, <1>5 DEF Operations, SameOperation
  <2>3. QED
    BY <1>6, <2>1, <2>2
<1>14. ASSUME AddFork
       PROVE  /\ op.step = "branch" /\ op.done = FALSE
              /\ \/ op' = NoOp /\ op.ref = {} /\ UNCHANGED <<at, tip>>
                 \/ Kept3 /\ op'.step = "restore" /\ op'.ref = op.ref /\ op'.had = op.had /\ op'.done = FALSE /\ UNCHANGED <<at, tip>>
                 \/ /\ Kept3 /\ op'.step = (IF op.ref = {} THEN "child" ELSE "apply") /\ op'.ref = op.ref /\ op'.had = op.had /\ op'.done = TRUE
                    /\ at' = [at EXCEPT ![op.branch] = op.branch] /\ tip' = [tip EXCEPT ![op.branch] = tip[at[op.path]]]
                    /\ at[op.branch] = Gone /\ Where(op.branch) = {} /\ ~Exists(op.branch)
  <2> DEFINE next == IF op.ref = {} THEN "child" ELSE "apply"
  <2>1. op.step = "branch" /\ op.done = FALSE
    BY <1>6, <1>14 DEF AddFork, Is
  <2>2. next \in Steps
    BY DEF Steps
  <2>3. \/ UNCHANGED <<at, tip>> /\ Undo
        \/ /\ op' = [op EXCEPT !.done = TRUE, !.step = next]
           /\ at' = [at EXCEPT ![op.branch] = op.branch] /\ tip' = [tip EXCEPT ![op.branch] = tip[at[op.path]]]
           /\ at[op.branch] = Gone /\ Where(op.branch) = {} /\ ~Exists(op.branch)
    BY <1>14 DEF AddFork, CanAdd
  <2> HIDE DEF next
  <2>4. ASSUME op' = [op EXCEPT !.done = TRUE, !.step = next]
        PROVE  Kept3 /\ op'.step = next /\ op'.ref = op.ref /\ op'.had = op.had /\ op'.done = TRUE
    BY <1>2, <2>2, <2>4 DEF Operations, SameOperation, Steps
  <2>5. QED
    BY <1>10, <2>1, <2>3, <2>4 DEF next
<1>15. ASSUME Apply PROVE /\ op.step = "apply" /\ op.done /\ op' # NoOp /\ Kept3
                          /\ op'.step = "restore" /\ op'.ref = op.ref /\ op'.had = op.had /\ op'.done = op.done
  <2>1. op.step = "apply" /\ (Undo \/ op' = [op EXCEPT !.step = "restore"])
    BY <1>15 DEF Apply, FailedApply, Go, Is
  <2>2. "restore" \in Steps
    BY DEF Steps
  <2>3. QED
    BY <1>7, <1>8, <1>10, <2>1, <2>2
<1>16. ASSUME Restore
       PROVE  /\ op.step = "restore"
              /\ \/ op' = NoOp /\ answer' = "kept" /\ UNCHANGED dirty
                 \/ /\ Kept3 /\ op'.step = "list" /\ op'.ref = op.ref /\ op'.had = op.had /\ op'.done = op.done
                    /\ dirty' = [dirty EXCEPT ![op.path] = @ \cup op.ref]
  <2>1. "list" \in Steps
    BY DEF Steps
  <2>2. QED
    BY <1>8, <1>16, <2>1 DEF Restore, Is, Go, End
<1>17. ASSUME StashList
       PROVE  /\ op.step = "list" /\ op' # NoOp /\ op'.ref = op.ref /\ op'.had = op.had /\ op'.done = op.done /\ Kept3
              /\ \/ op'.step = Forked
                 \/ op'.step = "drop" /\ \E i \in DOMAIN stash : stash[i] = op.ref /\ op'.index = i /\ \A j \in 1..i - 1 : stash[j] # op.ref
  BY <1>4, <1>8, <1>11, <1>17 DEF StashList, Is
<1>18. ASSUME StashDrop PROVE /\ op.step = "drop" /\ op' # NoOp /\ op'.step = Forked /\ op'.ref = op.ref /\ op'.had = op.had
                              /\ op'.done = op.done /\ Kept3
  BY <1>4, <1>8, <1>18 DEF StashDrop, Is
<1>19. QED
  BY <1>1, <1>2, <1>12, <1>13, <1>14, <1>15, <1>16, <1>17, <1>18

\* Work outside the stash; x is a branch and workspace that may yet be taken away, or Gone.
OnTips(w, x) == \E b \in Branch \cup {Main} : b # x /\ tip[b] # NoBranch /\ w \in tip[b]
Placed(w, x) == w \in given \cup late \/ OnTips(w, x) \/ \E p \in Path : p # x /\ w \in dirty[p]
Kept(w, x) == Placed(w, x) \/ \E i \in DOMAIN stash : w \in stash[i]

\* The new worktree of a fork, while no conversation is in it: the failed fork takes it
\* away by force, with its branch.
Fresh == op.kind = "fork" /\ op.done /\ At(op.branch) = {}
Spots == {Gone} \cup {b \in Branch : Fresh /\ b = op.branch}

\* Nobody else has the branch of the new worktree; a merged branch is on another one;
\* what the stash still has for the parent is behind the agents' later entries.
FreshAlone == Fresh => \A p \in Path : (at[p] = op.branch) <=> (p = op.branch)
MergedKept == op.kind = "merge" /\ op.done => \A w \in tip[op.branch] : w \in given \cup late \/ OnTips(w, op.branch)
WorkApart == \A x \in Spots, w \in 1..made : Kept(w, x)
RefBack == op # NoOp /\ op.step \in {"list", "drop"} => \A x \in Spots, w \in op.ref : Placed(w, x)
StashShape ==
    /\ op # NoOp /\ op.step \in {"branch", "apply", "restore", "list"} /\ op.ref # {} =>
         \E k \in DOMAIN stash : stash[k] = op.ref /\ \A j \in 1..k - 1 : stash[j] \subseteq late
    /\ op # NoOp /\ op.step = "drop" =>
         op.index \in DOMAIN stash /\ \A j \in 1..op.index : stash[j] \subseteq late \/ stash[j] = op.ref
WorkInv == FreshAlone /\ MergedKept /\ WorkApart /\ RefBack /\ StashShape

LEMMA Stacked ==
    ASSUME stash \in Seq(SUBSET Work), NEW d \in SUBSET Work, stash' = <<d>> \o stash
    PROVE  /\ DOMAIN stash = 1..Len(stash) /\ DOMAIN stash' = 1..Len(stash) + 1 /\ Len(stash) \in Nat
           /\ stash' # <<>> /\ stash'[1] = d /\ \A i \in DOMAIN stash : stash'[i + 1] = stash[i]
OBVIOUS

LEMMA HistoryGrows ==
    [Next]_vars => given \subseteq given' /\ late \subseteq late' /\ (made' = made \/ \E s \in Session : AgentEdits(s))
<1>1. UNCHANGED <<made, history>> => given \subseteq given' /\ late \subseteq late' /\ made' = made
  BY DEF history
<1>2. Merging \/ Removing \/ Deleting => given \subseteq given' /\ late \subseteq late' /\ made' = made
  BY DEF Merging, Removing, Deleting
<1>3. \A s \in Session : ConversationForked(s) \/ AgentCommits(s) \/ AgentStashes(s)
                         => given \subseteq given' /\ late \subseteq late' /\ made' = made
  BY DEF ConversationForked, AgentCommits, AgentStashes, Agent
<1>4. \A s \in Session : AgentEdits(s) => given \subseteq given' /\ late \subseteq late'
  BY DEF AgentEdits, Agent
<1>5. QED
  BY <1>1, <1>2, <1>3, <1>4, HistoryFrame

\* Nobody leaves a workspace while a fork is under way.
LEMMA Staying == TypeInv /\ [Next]_vars /\ op.kind = "fork" => \A s \in Session : home[s] # Gone => home'[s] = home[s]
<1> SUFFICES ASSUME TypeInv, [Next]_vars, op.kind = "fork" PROVE \A s \in Session : home[s] # Gone => home'[s] = home[s]
  OBVIOUS
<1>1. PeopleOK
  BY DEF TypeInv, TypeOK, PeopleOK
<1>2. ~Settle /\ \A s \in Session : ~Rehome(s)
  BY DEF Settle, Rehome, Is
<1>3. ASSUME NEW c \in Session, ForkChild(c) PROVE \A s \in Session : home[s] # Gone => home'[s] = home[s]
  BY <1>1, <1>3 DEF ForkChild, PeopleOK
<1>4. ASSUME NEW c \in Session, ConversationForked(c) PROVE \A s \in Session : home[s] # Gone => home'[s] = home[s]
  BY <1>1, <1>4 DEF ConversationForked, PeopleOK, Single
<1>5. QED
  BY <1>2, <1>3, <1>4, HomeFrame DEF Restart, ConversationFork

ForkAdded ==
    /\ AddFork /\ op.step = "branch" /\ op.done = FALSE /\ op.kind = "fork" /\ op.branch \in Branch
    /\ op'.step = (IF op.ref = {} THEN "child" ELSE "apply") /\ op'.ref = op.ref /\ op'.had = op.had
    /\ op'.kind = "fork" /\ op'.branch = op.branch
    /\ at' = [at EXCEPT ![op.branch] = op.branch] /\ tip' = [tip EXCEPT ![op.branch] = tip[at[op.path]]]
    /\ at[op.branch] = Gone /\ Where(op.branch) = {} /\ ~Exists(op.branch)

\* A worktree is fresh from the step that adds it, and only until it is moved into.
LEMMA FreshKept ==
    ASSUME TypeInv, [Next]_vars
    PROVE  \/ (Fresh' => Fresh /\ op'.branch = op.branch) /\ Spots' \subseteq Spots
           \/ ForkAdded /\ Spots' \subseteq {Gone, op.branch}
<1>1. op # NoOp => op \in Operations /\ OpShape
  BY Started
<1>2. CASE ForkAdded
  <2>1. Spots' \subseteq {Gone, op'.branch}
    BY DEF Spots
  <2>2. QED
    BY <1>2, <2>1 DEF ForkAdded
<1>3. CASE ~ForkAdded
  <2>1. Fresh' => op.kind = "fork" /\ op.done /\ op'.branch = op.branch
    <3>1. op' = NoOp => ~Fresh'
      BY NoOpKind DEF Fresh
    <3>2. CASE Plain
      BY <3>1, <3>2 DEF Plain, SameOperation, Fresh
    <3>3. CASE Begun
      BY <3>3 DEF Begun, Fresh
    <3>4. CASE Merging
      <4>1. op' = NoOp \/ op' = [op EXCEPT !.step = "gather", !.done = TRUE]
        BY <3>4 DEF Merging, End
      <4>2. op # NoOp /\ op.kind = "merge"
        BY <3>4 DEF Merging, Is
      <4>3. op' = NoOp \/ op'.kind = "merge"
        BY <1>1, <4>1, <4>2 DEF Operations
      <4>4. QED
        BY <3>1, <4>3 DEF Fresh
    <3>5. CASE StashPush \/ StashRef \/ AddFork \/ Apply \/ Restore \/ StashList \/ StashDrop
      BY <1>3, <3>1, <3>5, ForkSteps DEF SameOperation, Fresh, ForkAdded
    <3>6. QED
      BY <3>2, <3>3, <3>4, <3>5, PlainOrNot
  <2>2. ASSUME Fresh' PROVE At(op.branch) = {}
    <3>1. op.kind = "fork" /\ \A s \in Session : op.branch # Gone => home'[s] # op.branch
      BY <2>1, <2>2 DEF Fresh, At
    <3>2. \A s \in Session : home[s] # Gone => home'[s] = home[s]
      BY <3>1, Staying
    <3>3. QED
      BY <3>1, <3>2 DEF At
  <2>3. Fresh' => Fresh /\ op'.branch = op.branch
    BY <2>1, <2>2 DEF Fresh
  <2>4. QED
    BY <2>3 DEF Spots
<1>4. QED
  BY <1>2, <1>3

\* Where an agent works, and where it commits, is no fresh worktree.
LEMMA WorksApart ==
    ASSUME TypeInv, FreshAlone, NEW s \in Session, Agent(s), NEW x \in Spots
    PROVE  /\ home[s] \in Path /\ home[s] # x /\ at[home[s]] \in Branch \cup {Main} /\ at[home[s]] # x
           /\ tip[at[home[s]]] \in SUBSET Work /\ dirty[home[s]] \in SUBSET Work
<1>1. RepositoryOK /\ PeopleOK /\ s \in running /\ at[home[s]] # Gone
  BY DEF TypeInv, TypeOK, RepositoryOK, PeopleOK, Agent
<1>2. home[s] \in Path /\ home[s] # Gone
  BY <1>1 DEF PeopleOK, AtWork
<1>3. at[home[s]] \in Branch \cup {Main} /\ tip[at[home[s]]] \in SUBSET Work /\ dirty[home[s]] \in SUBSET Work
  BY <1>1, <1>2 DEF RepositoryOK
<1>4. CASE x = Gone
  BY <1>1, <1>2, <1>3, <1>4
<1>5. CASE Fresh /\ x = op.branch
  <2>1. home[s] # op.branch
    BY <1>2, <1>5 DEF Fresh, At
  <2>2. at[home[s]] # op.branch
    BY <1>2, <1>5, <2>1 DEF FreshAlone
  <2>3. QED
    BY <1>2, <1>3, <1>5, <2>1, <2>2
<1>6. QED
  BY <1>4, <1>5 DEF Spots

LEMMA FreshAloneStep == TypeInv /\ FreshAlone /\ [Next]_vars => FreshAlone'
<1> SUFFICES ASSUME TypeInv, FreshAlone, [Next]_vars, Fresh' PROVE \A p \in Path : (at'[p] = op'.branch) <=> (p = op'.branch)
  BY DEF FreshAlone
<1>1. RepositoryOK /\ (op # NoOp => op \in Operations /\ OpShape)
  BY Started DEF TypeInv, TypeOK, RepositoryOK
<1>2. CASE ForkAdded
  <2>1. \A p \in Path : at[p] # op.branch
    BY <1>2 DEF ForkAdded, Where
  <2>2. QED
    BY <1>1, <1>2, <2>1, Names DEF ForkAdded, RepositoryOK
<1>3. CASE ~ForkAdded
  <2>1. Fresh /\ op'.branch = op.branch /\ op # NoOp /\ op.branch \in Branch
    <3>1. Fresh /\ op'.branch = op.branch
      BY <1>3, FreshKept
    <3>2. op # NoOp
      BY <3>1, NoOpKind DEF Fresh
    <3>3. QED
      BY <1>1, <3>1, <3>2 DEF Fresh, OpShape, ForkShape
  <2>2. UNCHANGED at => \A p \in Path : (at'[p] = op'.branch) <=> (p = op'.branch)
    BY <2>1 DEF FreshAlone
  <2>3. op' # NoOp
    BY NoOpKind DEF Fresh
  <2>4. ~Switching /\ ~Removing /\ ~Adding /\ ~Cleanup
    BY <1>1, <2>1, <2>3 DEF Switching, Removing, Adding, Cleanup, Is, Fresh, OpShape, ForkShape, End
  <2>5. ~AddFork
    BY <2>1, ForkSteps DEF Fresh
  <2>6. ASSUME NEW s \in Session, NEW b \in Branch \cup {Main}, AgentSwitches(s, b)
        PROVE  \A p \in Path : (at'[p] = op'.branch) <=> (p = op'.branch)
    <3>1. Agent(s) /\ Where(b) \subseteq {home[s]} /\ at' = [at EXCEPT ![home[s]] = b]
      BY <2>6 DEF AgentSwitches, CanSwitch
    <3>2. home[s] \in Path /\ home[s] # op.branch /\ at[home[s]] # op.branch
      <4>1. op.branch \in Spots
        BY <2>1 DEF Spots
      <4>2. QED
        BY <3>1, <4>1, WorksApart
    <3>3. at[op.branch] = op.branch /\ op.branch \in Path
      BY <2>1, Names DEF FreshAlone
    <3>4. b # op.branch
      BY <3>1, <3>2, <3>3 DEF Where
    <3>5. \A p \in Path : at'[p] = IF p = home[s] THEN b ELSE at[p]
      BY <1>1, <3>1 DEF RepositoryOK
    <3>6. QED
      BY <2>1, <3>2, <3>4, <3>5 DEF FreshAlone
  <2>7. UNCHANGED at \/ \E s \in Session, b \in Branch \cup {Main} : AgentSwitches(s, b)
    BY <2>4, <2>5, GitFrame DEF git, Merging, Deleting, StashPush, Apply, Restore, StashDrop, AgentEdits, AgentCommits,
        AgentStashes
  <2>8. QED
    BY <2>2, <2>6, <2>7
<1>4. QED
  BY <1>2, <1>3

\* A merged branch has nothing of its own: what is committed there later is the agents'.
LEMMA MergedStep == TypeInv /\ MergedKept /\ [Next]_vars => MergedKept'
<1> DEFINE Elsewhere(w) == w \in given' \cup late' \/ \E b \in Branch \cup {Main} : b # op.branch /\ tip'[b] # NoBranch /\ w \in tip'[b]
<1> SUFFICES ASSUME TypeInv, MergedKept, [Next]_vars, op'.kind = "merge", op'.done
             PROVE  op'.branch = op.branch /\ \A w \in tip'[op.branch] : Elsewhere(w)
  BY DEF MergedKept, OnTips
<1>1. RepositoryOK /\ (op # NoOp => op \in Operations /\ OpShape) /\ given \subseteq given' /\ late \subseteq late'
  BY Started, HistoryGrows DEF TypeInv, TypeOK, RepositoryOK
<1>2. op' # NoOp
  BY NoOpKind
<1>3. CASE Merging
  <2>1. /\ op # NoOp /\ op.kind = "merge" /\ op' = [op EXCEPT !.step = "gather", !.done = TRUE]
        /\ tip' = [tip EXCEPT ![at[Checkout]] = @ \cup tip[op.branch]]
        /\ late' = IF at[Checkout] = op.branch THEN late \cup tip[op.branch] ELSE late
    BY <1>2, <1>3 DEF Merging, Is, End
  <2>2. op'.branch = op.branch
    BY <1>1, <2>1 DEF Operations
  <2>3. at[Checkout] \in Branch \cup {Main} /\ op.branch \in Branch \cup {Main} /\ tip[at[Checkout]] # NoBranch /\ tip[op.branch] # NoBranch
    BY <1>1, <2>1, Names DEF RepositoryOK, Operations, OpShape, MergeShape, Exists
  <2>4. CASE at[Checkout] = op.branch
    <3>1. tip'[op.branch] = tip[op.branch]
      BY <1>1, <2>1, <2>3, <2>4 DEF RepositoryOK
    <3>2. QED
      BY <2>1, <2>2, <2>4, <3>1
  <2>5. CASE at[Checkout] # op.branch
    <3>1. tip'[op.branch] = tip[op.branch] /\ tip'[at[Checkout]] = tip[at[Checkout]] \cup tip[op.branch]
      BY <1>1, <2>1, <2>3, <2>5 DEF RepositoryOK
    <3>2. tip[at[Checkout]] \cup tip[op.branch] # NoBranch
      BY <1>1, <2>3, NoBranchIsNoWork DEF RepositoryOK
    <3>3. QED
      BY <2>2, <2>3, <2>5, <3>1, <3>2
  <2>6. QED
    BY <2>4, <2>5
<1>4. CASE Plain
  <2>1. op # NoOp /\ op.kind = "merge" /\ op.done /\ op'.branch = op.branch
    BY <1>2, <1>4 DEF Plain, SameOperation
  <2>2. op.branch \in Branch \cup {Main} /\ tip[op.branch] # NoBranch
    BY <1>1, <2>1 DEF OpShape, MergeShape, Operations, Exists
  <2>3. UNCHANGED tip => \A w \in tip'[op.branch] : Elsewhere(w)
    BY <1>1, <2>1 DEF MergedKept, OnTips
  <2>4. ASSUME NEW s \in Session, AgentCommits(s) PROVE \A w \in tip'[op.branch] : Elsewhere(w)
    <3>1. /\ Agent(s) /\ tip' = [tip EXCEPT ![at[home[s]]] = @ \cup dirty[home[s]]]
          /\ at[home[s]] = op.branch => late' = late \cup dirty[home[s]]
      BY <2>1, <2>4 DEF AgentCommits
    <3>2. at[home[s]] \in Branch \cup {Main} /\ tip[at[home[s]]] # NoBranch /\ dirty[home[s]] \in SUBSET Work
      BY <1>1, <3>1 DEF Agent, TypeInv, TypeOK, AtWork
    <3>3. tip[at[home[s]]] \cup dirty[home[s]] # NoBranch
      BY <1>1, <3>2, NoBranchIsNoWork DEF RepositoryOK
    <3>4. \A b \in Branch \cup {Main} : tip'[b] = IF b = at[home[s]] THEN tip[b] \cup dirty[home[s]] ELSE tip[b]
      BY <1>1, <3>1, <3>2 DEF RepositoryOK
    <3>5. ASSUME NEW w \in tip[op.branch] PROVE Elsewhere(w)
      <4>1. CASE w \in given \cup late
        BY <1>1, <4>1
      <4>2. CASE OnTips(w, op.branch)
        <5>1. PICK b \in Branch \cup {Main} : b # op.branch /\ tip[b] # NoBranch /\ w \in tip[b]
          BY <4>2 DEF OnTips
        <5>2. tip'[b] # NoBranch /\ w \in tip'[b]
          BY <3>3, <3>4, <5>1
        <5>3. QED
          BY <5>1, <5>2
      <4>3. QED
        BY <2>1, <4>1, <4>2 DEF MergedKept
    <3>6. QED
      BY <1>1, <2>2, <3>1, <3>4, <3>5
  <2>5. ~Adding /\ ~AddFork /\ ~Cleanup
    BY <2>1 DEF Adding, AddFork, Cleanup, Is
  <2>6. Deleting => UNCHANGED tip
    BY <1>2 DEF Deleting, End
  <2>7. Merging \/ UNCHANGED tip \/ \E s \in Session : AgentCommits(s)
    BY <2>5, <2>6, GitFrame DEF git, Switching, Removing, StashPush, Apply, Restore, StashDrop, AgentEdits,
        AgentSwitches, AgentStashes
  <2>8. QED
    BY <1>3, <2>1, <2>3, <2>4, <2>7
<1>5. ~Begun
  BY DEF Begun
<1>6. ~(StashPush \/ StashRef \/ AddFork \/ Apply \/ Restore \/ StashList \/ StashDrop)
  BY <1>2, ForkSteps DEF SameOperation
<1>7. QED
  BY <1>3, <1>4, <1>5, <1>6, PlainOrNot

LEMMA WhoUsesGit ==
    TypeInv /\ [Next]_vars /\ op.kind = "fork" =>
        \/ UNCHANGED git \/ StashPush \/ AddFork \/ Apply \/ Restore \/ StashDrop \/ Cleanup
        \/ \E s \in Session : AgentEdits(s) \/ AgentCommits(s) \/ AgentStashes(s)
                              \/ \E b \in Branch \cup {Main} : AgentSwitches(s, b)
<1> SUFFICES ASSUME TypeInv, [Next]_vars, op.kind = "fork", Switching \/ Merging \/ Removing \/ Deleting \/ Adding PROVE FALSE
  BY GitFrame
<1>1. op # NoOp /\ OpShape
  BY NoOpKind, Started
<1>2. QED
  BY <1>1 DEF Switching, Merging, Removing, Deleting, Adding, Is, OpShape, ForkShape

\* Agents move work to the tip of a branch ...
LEMMA AgentsMove ==
    ASSUME TypeInv, FreshAlone, NEW s \in Session,
           AgentEdits(s) \/ AgentCommits(s) \/ \E b \in Branch \cup {Main} : AgentSwitches(s, b),
           NEW x \in Spots, NEW w
    PROVE  /\ OnTips(w, x) => OnTips(w, x)'
           /\ \A p \in Path : w \in dirty[p] => w \in dirty'[p] \/ OnTips(w, x)'
<1>1. RepositoryOK /\ Agent(s)
  BY DEF TypeInv, TypeOK, RepositoryOK, AgentEdits, AgentCommits, AgentSwitches
<1>2. CASE \E b \in Branch \cup {Main} : AgentSwitches(s, b)
  BY <1>2 DEF AgentSwitches, OnTips
<1>3. CASE AgentEdits(s)
  <2>1. tip' = tip /\ dirty' = [dirty EXCEPT ![home[s]] = @ \cup {made + 1}]
    BY <1>3 DEF AgentEdits
  <2>2. \A p \in Path : dirty[p] \subseteq dirty'[p]
    BY <1>1, <2>1 DEF RepositoryOK
  <2>3. QED
    BY <2>1, <2>2 DEF OnTips
<1>4. CASE AgentCommits(s)
  <2>1. dirty' = [dirty EXCEPT ![home[s]] = {}] /\ tip' = [tip EXCEPT ![at[home[s]]] = @ \cup dirty[home[s]]]
    BY <1>4 DEF AgentCommits
  <2>2. at[home[s]] \in Branch \cup {Main} /\ at[home[s]] # x /\ tip[at[home[s]]] \cup dirty[home[s]] # NoBranch
    BY <1>1, WorksApart, NoBranchIsNoWork
  <2>3. \A b \in Branch \cup {Main} : tip'[b] = IF b = at[home[s]] THEN tip[b] \cup dirty[home[s]] ELSE tip[b]
    BY <1>1, <2>1, <2>2 DEF RepositoryOK
  <2>4. \A p \in Path : p # home[s] => dirty'[p] = dirty[p]
    BY <1>1, <2>1 DEF RepositoryOK
  <2>5. ASSUME OnTips(w, x) PROVE OnTips(w, x)'
    <3>1. PICK b \in Branch \cup {Main} : b # x /\ tip[b] # NoBranch /\ w \in tip[b]
      BY <2>5 DEF OnTips
    <3>2. tip'[b] # NoBranch /\ w \in tip'[b]
      BY <2>2, <2>3, <3>1
    <3>3. QED
      BY <3>1, <3>2 DEF OnTips
  <2>6. ASSUME w \in dirty[home[s]] PROVE OnTips(w, x)'
    <3>1. w \in tip'[at[home[s]]] /\ tip'[at[home[s]]] # NoBranch
      BY <2>2, <2>3, <2>6
    <3>2. QED
      BY <2>2, <3>1 DEF OnTips
  <2>7. QED
    BY <2>4, <2>5, <2>6
<1>5. QED
  BY <1>2, <1>3, <1>4

LEMMA AgentsKeep ==
    ASSUME TypeInv, FreshAlone, [Next]_vars, NEW s \in Session,
           AgentEdits(s) \/ AgentCommits(s) \/ \E b \in Branch \cup {Main} : AgentSwitches(s, b),
           NEW x \in Spots, NEW w, Placed(w, x)
    PROVE  Placed(w, x)'
<1>1. /\ OnTips(w, x) => OnTips(w, x)'
      /\ \A p \in Path : w \in dirty[p] => w \in dirty'[p] \/ OnTips(w, x)'
  BY AgentsMove
<1>2. given \subseteq given' /\ late \subseteq late'
  BY HistoryGrows
<1>3. QED
  BY <1>1, <1>2 DEF Placed

\* ... and to the stash.
LEMMA StashingKeeps ==
    ASSUME TypeInv, [Next]_vars, NEW s \in Session, AgentStashes(s), NEW x \in Spots, NEW w, Placed(w, x)
    PROVE  Placed(w, x)' \/ (w \in dirty[home[s]] /\ ~(op # NoOp /\ op.kind = "fork"))
<1>1. RepositoryOK /\ given \subseteq given' /\ late \subseteq late'
  BY HistoryGrows DEF TypeInv, TypeOK, RepositoryOK
<1>2. dirty' = [dirty EXCEPT ![home[s]] = {}] /\ tip' = tip /\ (op # NoOp /\ op.kind = "fork" => late' = late \cup dirty[home[s]])
  BY DEF AgentStashes
<1>3. \A p \in Path : p # home[s] => dirty'[p] = dirty[p]
  BY <1>1, <1>2 DEF RepositoryOK
<1>4. CASE w \in given \cup late \/ OnTips(w, x)
  BY <1>1, <1>2, <1>4 DEF Placed, OnTips
<1>5. ASSUME NEW p \in Path, p # x, w \in dirty[p], p # home[s] PROVE Placed(w, x)'
  BY <1>3, <1>5 DEF Placed
<1>6. CASE w \in dirty[home[s]]
  <2>1. op # NoOp /\ op.kind = "fork" => Placed(w, x)'
    BY <1>2, <1>6 DEF Placed
  <2>2. QED
    BY <1>6, <2>1
<1>7. QED
  BY <1>4, <1>5, <1>6 DEF Placed

LEMMA RefBackStep == TypeInv /\ FreshAlone /\ RefBack /\ [Next]_vars => RefBack'
<1> SUFFICES ASSUME TypeInv, FreshAlone, RefBack, [Next]_vars, op' # NoOp, op'.step \in {"list", "drop"}
             PROVE  \A x \in Spots', w \in op'.ref : Placed(w, x)'
  BY DEF RefBack
<1>1. RepositoryOK /\ (op # NoOp => op \in Operations /\ OpShape) /\ given \subseteq given' /\ late \subseteq late'
  BY Started, HistoryGrows DEF TypeInv, TypeOK, RepositoryOK
<1>2. op'.step \notin {"child", "apply"}
  OBVIOUS
<1>3. Spots' \subseteq Spots
  BY <1>2, FreshKept DEF ForkAdded
<1>4. CASE Plain
  <2>1. op # NoOp /\ op.step \in {"list", "drop"} /\ op'.ref = op.ref /\ op'.step = op.step
    BY <1>4 DEF Plain
  <2>2. op.kind = "fork"
    BY <1>1, <2>1 DEF Operations, OpShape, MergeShape, DeleteShape, ContextShape, SwitchShape, RemoteShape
  <2>3. ASSUME NEW x \in Spots', NEW w \in op'.ref PROVE Placed(w, x)'
    <3>1. x \in Spots /\ Placed(w, x)
      BY <1>3, <2>1, <2>3 DEF RefBack
    <3>2. UNCHANGED git => Placed(w, x)'
      BY <1>1, <3>1 DEF git, Placed, OnTips
    <3>3. ~StashPush /\ ~AddFork /\ ~Apply /\ ~Restore /\ ~Cleanup
      BY <2>1 DEF StashPush, AddFork, Apply, Restore, Cleanup, Is
    <3>4. ~StashDrop
      BY <2>1, ForkSteps DEF Forked
    <3>5. QED
      BY <2>1, <2>2, <3>1, <3>2, <3>3, <3>4, WhoUsesGit, AgentsKeep, StashingKeeps
  <2>4. QED
    BY <2>3
<1>5. CASE Restore
  <2>1. /\ op.kind = "fork" /\ op # NoOp /\ op'.ref = op.ref /\ op.path \in Path /\ dirty' = [dirty EXCEPT ![op.path] = @ \cup op.ref]
    BY <1>5, ForkSteps, NoOpKind
  <2>2. op.done => op.path # op.branch
    BY <1>1, <2>1 DEF OpShape, ForkShape
  <2>3. \A x \in Spots : x # op.path
    BY <2>1, <2>2, Names DEF Spots, Fresh
  <2>4. op.ref \subseteq dirty'[op.path]
    BY <1>1, <2>1 DEF RepositoryOK
  <2>5. QED
    BY <1>3, <2>1, <2>3, <2>4 DEF Placed
<1>6. CASE StashList
  <2>1. op.kind = "fork" /\ op # NoOp /\ op.step = "list" /\ op'.ref = op.ref /\ UNCHANGED git
    BY <1>6, ForkSteps, NoOpKind DEF StashList, Steady
  <2>2. \A x \in Spots, w \in op.ref : Placed(w, x)
    BY <2>1 DEF RefBack
  <2>3. QED
    BY <1>1, <1>3, <2>1, <2>2 DEF git, Placed, OnTips
<1>7. ~Begun /\ ~StashPush /\ ~StashRef /\ ~AddFork /\ ~Apply /\ ~StashDrop
  BY ForkSteps DEF Begun, Forked
<1>8. ~Merging
  <2>1. Merging => op # NoOp /\ op' = [op EXCEPT !.step = "gather", !.done = TRUE]
    BY DEF Merging, Is, End
  <2>2. QED
    BY <1>1, <2>1 DEF Operations
<1>9. QED
  BY <1>4, <1>5, <1>6, <1>7, <1>8, PlainOrNot

\* Above the entry that a fork believes its own there are only the agents' later ones.
OwnEntry == op.ref # {} => \E k \in DOMAIN stash : stash[k] = op.ref /\ \A j \in 1..k - 1 : stash[j] \subseteq late
FoundEntry == op.index \in DOMAIN stash /\ \A j \in 1..op.index : stash[j] \subseteq late \/ stash[j] = op.ref


LEMMA EntriesStay ==
    ASSUME TypeInv, [Next]_vars, op' # NoOp, op.kind = "fork", op'.ref = op.ref, op'.index = op.index,
           UNCHANGED stash \/ \E s \in Session : AgentStashes(s)
    PROVE  (OwnEntry => OwnEntry') /\ (FoundEntry => FoundEntry')
<1>1. op # NoOp /\ op \in Operations /\ stash \in Seq(SUBSET Work) /\ late \subseteq late'
  BY NoOpKind, Started, HistoryGrows DEF TypeInv, TypeOK
<1>2. CASE UNCHANGED stash
  BY <1>1, <1>2 DEF OwnEntry, FoundEntry
<1>3. ASSUME NEW s \in Session, AgentStashes(s) PROVE (OwnEntry => OwnEntry') /\ (FoundEntry => FoundEntry')
  <2> DEFINE d == dirty[home[s]]
  <2>1. d \in SUBSET Work
    BY <1>3 DEF AgentStashes, Agent, TypeInv, TypeOK, AtWork
  <2>2. stash' = <<d>> \o stash /\ late' = late \cup d
    BY <1>1, <1>3 DEF AgentStashes
  <2> HIDE DEF d
  <2>3. /\ DOMAIN stash = 1..Len(stash) /\ DOMAIN stash' = 1..Len(stash) + 1 /\ Len(stash) \in Nat
        /\ stash'[1] = d /\ \A i \in DOMAIN stash : stash'[i + 1] = stash[i]
    BY <1>1, <2>1, <2>2, Stacked
  <2>4. ASSUME OwnEntry, op.ref # {} PROVE \E k \in DOMAIN stash' : stash'[k] = op.ref /\ \A j \in 1..k - 1 : stash'[j] \subseteq late'
    <3>1. PICK k \in DOMAIN stash : stash[k] = op.ref /\ \A j \in 1..k - 1 : stash[j] \subseteq late
      BY <2>4 DEF OwnEntry
    <3>2. k + 1 \in DOMAIN stash' /\ stash'[k + 1] = op.ref
      BY <2>3, <3>1
    <3>3. ASSUME NEW j \in 1..(k + 1) - 1 PROVE stash'[j] \subseteq late'
      <4>1. CASE j = 1
        BY <2>2, <2>3, <4>1
      <4>2. CASE j # 1
        <5>1. j - 1 \in 1..k - 1 /\ j - 1 \in DOMAIN stash /\ (j - 1) + 1 = j
          BY <2>3, <3>1, <4>2
        <5>2. stash'[j] = stash[j - 1]
          BY <2>3, <5>1
        <5>3. QED
          BY <2>2, <3>1, <5>1, <5>2
      <4>3. QED
        BY <4>1, <4>2
    <3>4. QED
      BY <3>2, <3>3
  <2>5. ASSUME FoundEntry PROVE op.index \in DOMAIN stash' /\ \A j \in 1..op.index : stash'[j] \subseteq late' \/ stash'[j] = op.ref
    <3>1. op.index \in DOMAIN stash /\ \A j \in 1..op.index : stash[j] \subseteq late \/ stash[j] = op.ref
      BY <2>5 DEF FoundEntry
    <3>2. op.index \in DOMAIN stash'
      BY <2>3, <3>1
    <3>3. ASSUME NEW j \in 1..op.index PROVE stash'[j] \subseteq late' \/ stash'[j] = op.ref
      <4>1. CASE j = 1
        BY <2>2, <2>3, <4>1
      <4>2. CASE j # 1
        <5>1. j - 1 \in 1..op.index /\ j - 1 \in DOMAIN stash /\ (j - 1) + 1 = j
          BY <2>3, <3>1, <4>2
        <5>2. stash'[j] = stash[j - 1]
          BY <2>3, <5>1
        <5>3. QED
          BY <2>2, <3>1, <5>1, <5>2
      <4>3. QED
        BY <4>1, <4>2
    <3>4. QED
      BY <3>2, <3>3
  <2>6. QED
    BY <2>4, <2>5 DEF OwnEntry, FoundEntry
<1>4. QED
  BY <1>2, <1>3

LEMMA StashShapeStep == TypeInv /\ StashShape /\ [Next]_vars => StashShape'
<1> SUFFICES ASSUME TypeInv, StashShape, [Next]_vars, op' # NoOp
             PROVE  /\ op'.step \in {"branch", "apply", "restore", "list"} => OwnEntry'
                    /\ op'.step = "drop" => FoundEntry'
  BY DEF StashShape, OwnEntry, FoundEntry
<1>1. (op # NoOp => op \in Operations /\ OpShape) /\ stash \in Seq(SUBSET Work) /\ late \subseteq late'
  BY Started, HistoryGrows DEF TypeInv, TypeOK
<1> DEFINE Looked == {"branch", "apply", "restore", "list"}
<1>2. CASE Plain
  <2> SUFFICES ASSUME op'.step \in Looked \cup {"drop"} PROVE (op'.step \in Looked => OwnEntry') /\ (op'.step = "drop" => FoundEntry')
    OBVIOUS
  <2>1. op # NoOp /\ op.step = op'.step /\ op'.ref = op.ref /\ op'.index = op.index
    BY <1>2 DEF Plain
  <2>2. op.kind = "fork"
    BY <1>1, <2>1 DEF Operations, OpShape, MergeShape, DeleteShape, ContextShape, SwitchShape, RemoteShape
  <2>3. ~StashPush
    BY <2>1 DEF StashPush, Is
  <2>4. ~StashDrop
    BY <2>1, ForkSteps DEF Forked
  <2>5. UNCHANGED stash \/ \E s \in Session : AgentStashes(s)
    BY <2>2, <2>3, <2>4, WhoUsesGit DEF git, AddFork, Apply, Restore, Cleanup, AgentEdits, AgentCommits, AgentSwitches
  <2>6. (OwnEntry => OwnEntry') /\ (FoundEntry => FoundEntry')
    BY <2>1, <2>2, <2>5, EntriesStay
  <2>7. QED
    BY <2>1, <2>6 DEF StashShape, OwnEntry, FoundEntry
<1>3. CASE StashRef
  <2>1. stash' = stash /\ op'.ref = Head(stash) /\ stash # <<>> /\ op'.step = "branch"
    BY <1>3, ForkSteps DEF StashRef, Steady, git
  <2>2. 1 \in DOMAIN stash' /\ stash'[1] = op'.ref
    BY <1>1, <2>1
  <2>3. QED
    BY <2>1, <2>2 DEF OwnEntry
<1>4. CASE AddFork \/ Apply \/ Restore
  <2>1. stash' = stash /\ op # NoOp /\ op.step \in Looked /\ op'.ref = op.ref /\ op'.step # "drop"
    BY <1>4, ForkSteps, NoOpKind DEF AddFork, Apply, Restore
  <2>2. OwnEntry
    BY <2>1 DEF StashShape, OwnEntry
  <2>3. QED
    BY <1>1, <2>1, <2>2 DEF OwnEntry
<1>5. CASE StashList
  <2>1. stash' = stash /\ op # NoOp /\ op.step = "list" /\ op'.ref = op.ref /\ op.kind = "fork"
    BY <1>5, ForkSteps, NoOpKind DEF StashList, Steady, git
  <2>2. op.ref # {} /\ OwnEntry
    BY <1>1, <2>1 DEF StashShape, OwnEntry, OpShape, ForkShape
  <2>3. PICK k \in DOMAIN stash : stash[k] = op.ref /\ \A j \in 1..k - 1 : stash[j] \subseteq late
    BY <2>2 DEF OwnEntry
  <2>4. CASE op'.step = Forked
    BY <2>4 DEF Forked
  <2>5. CASE op'.step = "drop" /\ \E i \in DOMAIN stash : stash[i] = op.ref /\ op'.index = i /\ \A j \in 1..i - 1 : stash[j] # op.ref
    <3>1. PICK i \in DOMAIN stash : stash[i] = op.ref /\ op'.index = i /\ \A j \in 1..i - 1 : stash[j] # op.ref
      BY <2>5
    <3>2. i \in Nat /\ k \in Nat /\ i >= 1 /\ k >= 1
      BY <1>1, <2>3, <3>1
    <3>3. i <= k
      BY <2>3, <3>1, <3>2
    <3>4. \A j \in 1..i : stash[j] \subseteq late \/ stash[j] = op.ref
      BY <2>3, <3>1, <3>2, <3>3
    <3>5. QED
      BY <1>1, <2>1, <2>5, <3>1, <3>4 DEF FoundEntry
  <2>6. QED
    BY <1>5, <2>4, <2>5, ForkSteps
<1>6. ~StashPush \/ op'.step = "ref"
  BY ForkSteps
<1>7. ~StashDrop \/ op'.step \notin Looked \cup {"drop"}
  BY ForkSteps DEF Forked
<1>8. Merging => op'.step = "gather"
  <2>1. Merging => op # NoOp /\ op' = [op EXCEPT !.step = "gather", !.done = TRUE]
    BY DEF Merging, Is, End
  <2>2. QED
    BY <1>1, <2>1 DEF Operations
<1>9. Begun => op'.step \notin Looked \cup {"drop"} \/ (op'.ref = {} /\ op'.step # "drop")
  BY DEF Begun
<1>10. op'.ref = {} => OwnEntry'
  BY DEF OwnEntry
<1>11. QED
  BY <1>2, <1>3, <1>4, <1>5, <1>6, <1>7, <1>8, <1>9, <1>10, PlainOrNot

LEMMA WorkApartStep == TypeInv /\ WorkInv /\ [Next]_vars => WorkApart'
<1> SUFFICES ASSUME TypeInv, WorkInv, [Next]_vars PROVE \A x \in Spots', w \in 1..made' : Kept(w, x)'
  BY DEF WorkApart
<1>1. /\ RepositoryOK /\ (op # NoOp => op \in Operations /\ OpShape) /\ given \subseteq given' /\ late \subseteq late'
      /\ made \in Nat /\ (made' = made \/ \E s \in Session : AgentEdits(s))
  BY Started, HistoryGrows, GitAssumption DEF TypeInv, TypeOK, RepositoryOK
<1>2. DOMAIN stash = 1..Len(stash) /\ Len(stash) \in Nat
  BY <1>1 DEF RepositoryOK
<1>3. (\A x \in Spots, w \in 1..made : Kept(w, x)) /\ Gone \in Spots
  BY DEF WorkInv, WorkApart, Spots
<1>4. ASSUME NEW x \in Spots', x \in Spots, NEW w \in 1..made, tip' = tip /\ dirty' = dirty /\ stash' = stash PROVE Kept(w, x)'
  BY <1>1, <1>3, <1>4 DEF Kept, Placed, OnTips
\* With a fork.
<1>5. CASE ForkAdded
  <2>1. /\ AddFork /\ op # NoOp /\ op.branch \in Branch /\ ~Exists(op.branch) /\ at[op.branch] = Gone /\ made' = made
        /\ tip' = [tip EXCEPT ![op.branch] = tip[at[op.path]]] /\ dirty' = dirty /\ stash' = stash /\ Spots' \subseteq {Gone, op.branch}
    <3>1. /\ AddFork /\ op.branch \in Branch /\ ~Exists(op.branch) /\ at[op.branch] = Gone
          /\ tip' = [tip EXCEPT ![op.branch] = tip[at[op.path]]] /\ op.done = FALSE
      BY <1>5 DEF ForkAdded
    <3>2. op # NoOp /\ dirty' = dirty /\ stash' = stash /\ made' = made
      BY <3>1 DEF AddFork, Is
    <3>3. Spots = {Gone}
      BY <3>1 DEF Spots, Fresh
    <3>4. Spots' \subseteq {Gone, op.branch}
      BY <3>3, FreshKept
    <3>5. QED
      BY <3>1, <3>2, <3>4
  <2>2. \A b \in Branch \cup {Main} : tip[b] # NoBranch => b # op.branch /\ tip'[b] = tip[b]
    BY <1>1, <2>1 DEF RepositoryOK, Exists
  <2>3. dirty[op.branch] = {}
    BY <2>1, Names DEF TypeInv, NoDirt
  <2>4. ASSUME NEW x \in Spots', NEW w \in 1..made PROVE Kept(w, x)'
    <3>1. Kept(w, Gone) /\ x \in {Gone, op.branch}
      BY <1>3, <2>1
    <3>2. CASE OnTips(w, Gone)
      <4>1. PICK b \in Branch \cup {Main} : tip[b] # NoBranch /\ w \in tip[b] /\ b # Gone
        BY <3>2 DEF OnTips
      <4>2. QED
        BY <2>2, <3>1, <4>1 DEF Kept, Placed, OnTips
    <3>3. CASE \E p \in Path : p # Gone /\ w \in dirty[p]
      BY <2>1, <2>3, <3>1, <3>3, Names DEF Kept, Placed
    <3>4. QED
      BY <1>1, <2>1, <3>1, <3>2, <3>3 DEF Kept, Placed
  <2>5. QED
    BY <2>1, <2>4
<1>6. CASE ~ForkAdded
  <2>1. Spots' \subseteq Spots
    BY <1>6, FreshKept
  <2>2. CASE UNCHANGED git /\ made' = made
    BY <1>4, <2>1, <2>2 DEF git
  <2>3. ASSUME NEW s \in Session, AgentEdits(s) PROVE \A x \in Spots', w \in 1..made' : Kept(w, x)'
    <3>1. made' = made + 1 /\ dirty' = [dirty EXCEPT ![home[s]] = @ \cup {made + 1}] /\ stash' = stash /\ Agent(s)
      BY <2>3 DEF AgentEdits
    <3>2. ASSUME NEW x \in Spots', NEW w \in 1..made PROVE Kept(w, x)'
      <4>1. Placed(w, x) => Placed(w, x)'
        BY <2>1, <2>3, <3>2, AgentsKeep DEF WorkInv
      <4>2. QED
        BY <1>3, <2>1, <3>1, <3>2, <4>1 DEF Kept
    <3>3. ASSUME NEW x \in Spots' PROVE \E p \in Path : p # x /\ made' \in dirty'[p]
      <4>1. home[s] \in Path /\ home[s] # x
        BY <2>1, <3>1, <3>3, WorksApart DEF WorkInv
      <4>2. made' \in dirty'[home[s]]
        BY <1>1, <3>1, <4>1 DEF RepositoryOK
      <4>3. QED
        BY <4>1, <4>2
    <3>4. \A w \in 1..made' : w = made' \/ w \in 1..made
      BY <1>1, <3>1
    <3>5. QED
      BY <3>2, <3>3, <3>4 DEF Kept, Placed
  <2>4. ASSUME NEW s \in Session, AgentCommits(s) \/ \E b \in Branch \cup {Main} : AgentSwitches(s, b)
        PROVE  \A x \in Spots', w \in 1..made' : Kept(w, x)'
    <3>1. made' = made /\ stash' = stash
      BY <2>4 DEF AgentCommits, AgentSwitches
    <3>2. ASSUME NEW x \in Spots', NEW w \in 1..made PROVE Kept(w, x)'
      <4>1. Placed(w, x) => Placed(w, x)'
        BY <2>1, <2>4, <3>2, AgentsKeep DEF WorkInv
      <4>2. QED
        BY <1>3, <2>1, <3>1, <3>2, <4>1 DEF Kept
    <3>3. QED
      BY <3>1, <3>2
  <2>5. ASSUME NEW s \in Session, AgentStashes(s) PROVE \A x \in Spots', w \in 1..made' : Kept(w, x)'
    <3>1. made' = made /\ stash' = <<dirty[home[s]]>> \o stash /\ dirty[home[s]] \in SUBSET Work
      BY <2>5 DEF AgentStashes, Agent, TypeInv, TypeOK, AtWork
    <3>2. 1 \in DOMAIN stash' /\ stash'[1] = dirty[home[s]] /\ \A i \in DOMAIN stash : i + 1 \in DOMAIN stash' /\ stash'[i + 1] = stash[i]
      BY <1>1, <3>1, Stacked DEF RepositoryOK
    <3>3. ASSUME NEW x \in Spots', NEW w \in 1..made PROVE Kept(w, x)'
      <4>1. Placed(w, x) => Placed(w, x)' \/ w \in dirty[home[s]]
        BY <2>1, <2>5, <3>3, StashingKeeps DEF WorkInv
      <4>2. Kept(w, x)
        BY <1>3, <2>1, <3>3
      <4>3. QED
        BY <3>2, <4>1, <4>2 DEF Kept
    <3>4. QED
      BY <3>1, <3>3
\* The server's use of Git.
  <2>6. CASE Switching
    <3>1. tip' = tip /\ dirty' = dirty /\ stash' = stash /\ made' = made
      BY <2>6 DEF Switching
    <3>2. QED
      BY <1>4, <2>1, <3>1
  <2>7. CASE Merging \/ Adding
    <3>1. /\ dirty' = dirty /\ stash' = stash /\ made' = made
          /\ \/ tip' = tip
             \/ tip' = [tip EXCEPT ![at[Checkout]] = @ \cup tip[op.branch]] /\ Merging
             \/ tip' = [tip EXCEPT ![op.branch] = IF @ = NoBranch THEN tip[Main] ELSE @] /\ Adding
      BY <2>7 DEF Merging, Adding
    <3>2. \A b \in Branch \cup {Main} : tip[b] # NoBranch => tip'[b] # NoBranch /\ tip[b] \subseteq tip'[b]
      <4>1. CASE Merging /\ tip' = [tip EXCEPT ![at[Checkout]] = @ \cup tip[op.branch]]
        <5>1. op # NoOp /\ op.kind = "merge"
          BY <4>1 DEF Merging, Is
        <5>2. at[Checkout] \in Branch \cup {Main} /\ tip[at[Checkout]] \in SUBSET Work /\ tip[op.branch] \in SUBSET Work
          BY <1>1, <5>1, Names DEF RepositoryOK, Operations, OpShape, MergeShape, Exists
        <5>3. tip[at[Checkout]] \cup tip[op.branch] # NoBranch
          BY <5>2, NoBranchIsNoWork
        <5>4. QED
          BY <1>1, <4>1, <5>2, <5>3 DEF RepositoryOK
      <4>2. CASE tip' = [tip EXCEPT ![op.branch] = IF @ = NoBranch THEN tip[Main] ELSE @]
        <5>1. \A b \in Branch \cup {Main} : tip[b] # NoBranch => tip'[b] = tip[b]
          BY <1>1, <4>2 DEF RepositoryOK
        <5>2. QED
          BY <5>1
      <4>3. QED
        BY <3>1, <4>1, <4>2
    <3>3. ASSUME NEW x \in Spots', NEW w \in 1..made PROVE Kept(w, x)'
      <4>1. Kept(w, x)
        BY <1>3, <2>1, <3>3
      <4>2. OnTips(w, x) => OnTips(w, x)'
        BY <3>2 DEF OnTips
      <4>3. QED
        BY <1>1, <3>1, <4>1, <4>2 DEF Kept, Placed
    <3>4. QED
      BY <3>1, <3>3
  <2>8. CASE Removing
    <3>1. /\ op # NoOp /\ op.kind \in {"merge", "delete"} /\ op.step = "removing" /\ tip' = tip /\ stash' = stash /\ made' = made
          /\ \/ dirty' = dirty
             \/ dirty' = [dirty EXCEPT ![op.path] = {}] /\ (dirty[op.path] = {} \/ given' = given \cup dirty[op.path])
      BY <2>8 DEF Removing, Is, CanRemove
    <3>2. \A p \in Path : \A w \in dirty[p] : w \in dirty'[p] \/ w \in given'
      BY <1>1, <3>1 DEF RepositoryOK
    <3>3. ASSUME NEW x \in Spots', NEW w \in 1..made PROVE Kept(w, x)'
      <4>1. Kept(w, x)
        BY <1>3, <2>1, <3>3
      <4>2. QED
        BY <1>1, <3>1, <3>2, <4>1 DEF Kept, Placed, OnTips
    <3>4. QED
      BY <3>1, <3>3
  <2>9. CASE Deleting
    <3>1. /\ op # NoOp /\ op.kind \in {"merge", "delete"} /\ op.step = "deleting" /\ dirty' = dirty /\ stash' = stash /\ made' = made
          /\ \/ tip' = tip
             \/ tip' = [tip EXCEPT ![op.branch] = NoBranch] /\ (op.kind = "delete" => given' = given \cup tip[op.branch])
      BY <2>9 DEF Deleting, Is
    <3>2. op.branch \in Branch \cup {Main} /\ (op.kind = "merge" => op.done)
      BY <1>1, <3>1 DEF Operations, OpShape, MergeShape
    <3>3. ASSUME tip' = [tip EXCEPT ![op.branch] = NoBranch], NEW w \in tip[op.branch], tip[op.branch] # NoBranch
          PROVE  w \in given' \cup late' \/ \E b \in Branch \cup {Main} : b # op.branch /\ tip[b] # NoBranch /\ w \in tip[b]
      <4>1. CASE op.kind = "merge"
        BY <1>1, <3>2, <3>3, <4>1 DEF WorkInv, MergedKept, OnTips
      <4>2. CASE op.kind = "delete"
        <5>1. given' = given \cup tip[op.branch]
          <6>1. tip'[op.branch] = NoBranch
            BY <1>1, <3>2, <3>3 DEF RepositoryOK
          <6>2. QED
            BY <3>1, <3>3, <4>2, <6>1
        <5>2. QED
          BY <3>3, <5>1
      <4>3. QED
        BY <3>1, <4>1, <4>2
    <3>4. Gone \notin Branch \cup {Main} /\ \A x \in Spots : x = Gone
      BY <3>1, Names DEF Spots, Fresh
    <3>5. \A b \in Branch \cup {Main} : b # op.branch => tip'[b] = tip[b]
      BY <1>1, <3>1 DEF RepositoryOK
    <3>6. ASSUME NEW w \in 1..made, Placed(w, Gone) PROVE Placed(w, Gone)'
      <4>1. CASE OnTips(w, Gone) /\ tip' # tip
        <5>1. PICK b \in Branch \cup {Main} : tip[b] # NoBranch /\ w \in tip[b]
          BY <4>1 DEF OnTips
        <5>2. CASE b = op.branch
          BY <3>1, <3>3, <3>4, <3>5, <4>1, <5>1, <5>2 DEF Placed, OnTips
        <5>3. CASE b # op.branch
          BY <3>4, <3>5, <5>1, <5>3 DEF Placed, OnTips
        <5>4. QED
          BY <5>2, <5>3
      <4>2. CASE ~OnTips(w, Gone) \/ tip' = tip
        BY <1>1, <3>1, <3>6, <4>2 DEF Placed, OnTips
      <4>3. QED
        BY <4>1, <4>2
    <3>7. QED
      BY <1>3, <2>1, <3>1, <3>4, <3>6 DEF Kept
\* The other steps of a fork.
  <2>10. CASE AddFork
    <3>1. UNCHANGED <<at, tip>>
      BY <1>6, <2>10, ForkSteps DEF ForkAdded, SameOperation
    <3>2. dirty' = dirty /\ stash' = stash /\ made' = made
      BY <2>10 DEF AddFork
    <3>3. QED
      BY <1>4, <2>1, <3>1, <3>2
  <2>11. CASE StashPush
    <3>1. /\ op.path \in Path /\ op.kind = "fork" /\ op.done = FALSE /\ tip' = tip /\ made' = made
          /\ \/ dirty' = dirty /\ stash' = stash
             \/ dirty' = [dirty EXCEPT ![op.path] = {}] /\ dirty[op.path] = {} /\ stash' = stash
             \/ dirty' = [dirty EXCEPT ![op.path] = {}] /\ stash' = <<dirty[op.path]>> \o stash
      BY <2>11, ForkSteps DEF StashPush
    <3>2. \A p \in Path : \A w \in dirty[p] : w \in dirty'[p] \/ \E i \in DOMAIN stash' : w \in stash'[i]
      <4>1. CASE stash' = <<dirty[op.path]>> \o stash /\ dirty' = [dirty EXCEPT ![op.path] = {}]
        <5>1. 1 \in DOMAIN stash' /\ stash'[1] = dirty[op.path]
          BY <1>1, <3>1, <4>1, Stacked DEF RepositoryOK
        <5>2. QED
          BY <1>1, <3>1, <4>1, <5>1 DEF RepositoryOK
      <4>2. QED
        BY <1>1, <3>1, <4>1 DEF RepositoryOK
    <3>3. \A i \in DOMAIN stash : \E j \in DOMAIN stash' : stash'[j] = stash[i]
      <4>1. CASE stash' = <<dirty[op.path]>> \o stash
        <5>1. \A i \in DOMAIN stash : i + 1 \in DOMAIN stash' /\ stash'[i + 1] = stash[i]
          BY <1>1, <3>1, <4>1, Stacked DEF RepositoryOK
        <5>2. QED
          BY <5>1
      <4>2. QED
        BY <3>1, <4>1
    <3>4. \A x \in Spots : x = Gone
      BY <3>1 DEF Spots, Fresh
    <3>5. ASSUME NEW w \in 1..made PROVE Kept(w, Gone)'
      <4>1. Kept(w, Gone)
        BY <1>3
      <4>2. CASE \E p \in Path : w \in dirty[p]
        BY <3>2, <4>2, Names DEF Kept, Placed
      <4>3. QED
        BY <1>1, <3>1, <3>3, <4>1, <4>2 DEF Kept, Placed, OnTips
    <3>6. QED
      BY <2>1, <3>1, <3>4, <3>5
  <2>12. CASE Apply \/ Restore
    <3>1. /\ tip' = tip /\ stash' = stash /\ made' = made
          /\ \/ dirty' = dirty
             \/ \E p \in Path : dirty' = [dirty EXCEPT ![p] = @ \cup op.ref]
      BY <2>12, ForkSteps, Names DEF Apply, Restore
    <3>2. \A p \in Path : dirty[p] \subseteq dirty'[p]
      BY <1>1, <3>1 DEF RepositoryOK
    <3>3. ASSUME NEW x \in Spots', NEW w \in 1..made PROVE Kept(w, x)'
      BY <1>1, <1>3, <2>1, <3>1, <3>2, <3>3 DEF Kept, Placed, OnTips
    <3>4. QED
      BY <3>1, <3>3
  <2>13. CASE StashDrop
    <3>1. /\ op # NoOp /\ op.step = "drop" /\ tip' = tip /\ dirty' = dirty /\ made' = made
          /\ \/ stash' = stash
             \/ stash' = [i \in 1..Len(stash) - 1 |-> stash[IF i < op.index THEN i ELSE i + 1]]
      BY <2>13 DEF StashDrop, Is
    <3>2. op.index \in DOMAIN stash /\ \A j \in 1..op.index : stash[j] \subseteq late \/ stash[j] = op.ref
      BY <3>1 DEF WorkInv, StashShape
    <3>3. \A i \in DOMAIN stash : i # op.index => \E j \in DOMAIN stash' : stash'[j] = stash[i]
      <4>1. ASSUME NEW i \in DOMAIN stash, i # op.index, stash' = [j \in 1..Len(stash) - 1 |-> stash[IF j < op.index THEN j ELSE j + 1]]
            PROVE  \E j \in DOMAIN stash' : stash'[j] = stash[i]
        <5>1. DOMAIN stash' = 1..Len(stash) - 1
          BY <4>1
        <5>2. CASE i < op.index
          <6>1. i \in DOMAIN stash'
            BY <1>2, <3>2, <5>1, <5>2
          <6>2. stash'[i] = stash[i]
            BY <4>1, <5>1, <5>2, <6>1
          <6>3. QED
            BY <6>1, <6>2
        <5>3. CASE i > op.index
          <6>1. i - 1 \in DOMAIN stash' /\ ~(i - 1 < op.index) /\ (i - 1) + 1 = i
            BY <1>2, <3>2, <5>1, <5>3
          <6>2. stash'[i - 1] = stash[i]
            BY <4>1, <5>1, <6>1
          <6>3. QED
            BY <6>1, <6>2
        <5>4. QED
          BY <1>2, <3>2, <4>1, <5>2, <5>3
      <4>2. QED
        BY <3>1, <4>1
    <3>4. ASSUME NEW x \in Spots', NEW w \in 1..made PROVE Kept(w, x)'
      <4>1. Placed(w, x) => Placed(w, x)'
        BY <1>1, <3>1 DEF Placed, OnTips
      <4>2. ASSUME NEW i \in DOMAIN stash, w \in stash[i] PROVE Kept(w, x)'
        <5>1. CASE i # op.index
          BY <3>3, <4>2, <5>1 DEF Kept
        <5>2. CASE i = op.index
          <6>1. w \in late \/ w \in op.ref
            BY <1>2, <3>2, <4>2, <5>2
          <6>2. Placed(w, x)
            BY <2>1, <3>1, <3>4, <6>1 DEF Placed, WorkInv, RefBack
          <6>3. QED
            BY <4>1, <6>2 DEF Kept
        <5>3. QED
          BY <5>1, <5>2
      <4>3. QED
        BY <1>3, <2>1, <3>4, <4>1, <4>2 DEF Kept
    <3>5. QED
      BY <3>1, <3>4
  <2>14. CASE Cleanup
    <3>1. /\ op # NoOp /\ op.kind = "fork" /\ op.step = "cleanup" /\ stash' = stash /\ made' = made /\ op' = NoOp
          /\ \/ UNCHANGED <<dirty, tip>>
             \/ /\ At(op.branch) = {} /\ dirty' = [dirty EXCEPT ![op.branch] = {}]
                /\ tip' = tip \/ tip' = [tip EXCEPT ![op.branch] = NoBranch]
      BY <2>14 DEF Cleanup, Is, End
    <3>2. op.branch \in Branch /\ op.branch \in Path /\ op.done
      BY <1>1, <3>1, Names DEF OpShape, ForkShape
    <3>3. \A x \in Spots' : x = Gone
      BY <3>1, NoOpKind DEF Spots, Fresh
    <3>4. CASE UNCHANGED <<dirty, tip>>
      BY <1>4, <2>1, <3>1, <3>4
    <3>5. CASE /\ At(op.branch) = {} /\ dirty' = [dirty EXCEPT ![op.branch] = {}]
               /\ tip' = tip \/ tip' = [tip EXCEPT ![op.branch] = NoBranch]
      <4>1. op.branch \in Spots
        BY <3>1, <3>2, <3>5 DEF Spots, Fresh
      <4>2. /\ \A b \in Branch \cup {Main} : b # op.branch => tip'[b] = tip[b]
            /\ \A p \in Path : p # op.branch => dirty'[p] = dirty[p]
        BY <1>1, <3>5 DEF RepositoryOK
      <4>3. ASSUME NEW w \in 1..made PROVE Kept(w, Gone)'
        <5>1. Kept(w, op.branch)
          BY <1>3, <4>1
        <5>2. OnTips(w, op.branch) => OnTips(w, Gone)'
          BY <4>2, Names DEF OnTips
        <5>3. QED
          BY <1>1, <3>1, <4>2, <5>1, <5>2, Names DEF Kept, Placed
      <4>4. QED
        BY <3>1, <3>3, <4>3
    <3>6. QED
      BY <3>1, <3>4, <3>5
  <2>15. QED
    BY <1>1, <2>2, <2>3, <2>4, <2>5, <2>6, <2>7, <2>8, <2>9, <2>10, <2>11, <2>12, <2>13, <2>14, GitFrame
<1>7. QED
  BY <1>5, <1>6

LEMMA WorkStarts == Init => WorkInv
<1> SUFFICES ASSUME Init PROVE WorkInv
  OBVIOUS
<1>1. op.kind = "none" /\ op = NoOp /\ Feature \in Path /\ Feature # Gone
  BY GitAssumption, NoOpKind DEF Init, Path
<1>2. dirty[Feature] = 1..made
  BY <1>1 DEF Init
<1>3. Spots = {Gone}
  BY <1>1 DEF Spots, Fresh
<1>4. WorkApart
  BY <1>1, <1>2, <1>3 DEF WorkApart, Kept, Placed
<1>5. QED
  BY <1>1, <1>4 DEF WorkInv, FreshAlone, Fresh, MergedKept, RefBack, StashShape

LEMMA WorkStep == TypeInv /\ WorkInv /\ [Next]_vars => WorkInv'
BY FreshAloneStep, MergedStep, RefBackStep, StashShapeStep, WorkApartStep DEF WorkInv

LEMMA RepositoryInv == PlacesSpec => [](TypeInv /\ HomesInv /\ WorkInv)
BY RepositoryTypeInv, HomesStart, HomesStep, WorkStarts, WorkStep, RepositoryOfPlaces, PTL DEF PlacesSpec

\* server/workspaces.js, server/routes/workspaces.js and branches.js, and whatever the
\* agents do meanwhile: a piece of work is lost only if the user gave it up, or an agent
\* put it on a branch already merged into itself or elsewhere, or into the stash during a
\* fork; and only a conversation whose fork was under way at the last look loses its workspace.
THEOREM RepositoryKeptCorrect == PlacesSpec => []RepositoryKept
<1>1. TypeInv /\ HomesInv /\ WorkInv => RepositoryKept
  <2> SUFFICES ASSUME TypeInv, HomesInv, WorkInv PROVE RepositoryKept
    OBVIOUS
  <2>1. \A w \in 1..made : Kept(w, Gone)
    BY DEF WorkInv, WorkApart, Spots
  <2>2. WorkKept
    BY <2>1 DEF WorkKept, Kept, Placed, OnTips
  <2>3. QED
    BY <2>2 DEF RepositoryKept, HomesInv
<1>2. QED
  BY <1>1, RepositoryInv, PTL

(***************************************************************************)
(* A fork gives the parent its uncommitted work back.                      *)
(***************************************************************************)

AtParent(w, x) == w \in dirty[op.path] \/ OnTips(w, x)
HadBack ==
    op.kind = "fork" /\ op.raced = FALSE =>
        /\ op.step = "stash" => \A w \in op.had : AtParent(w, Gone)
        /\ op.step = "ref" => op.had = {} \/ (stash # <<>> /\ Head(stash) = op.had)
        /\ op.step \in {"branch", "apply", "restore"} => op.had = {} \/ op.ref = op.had
        /\ op.step \in {"list", "drop", "child", "cleanup", "quit"} => \A x \in Spots, w \in op.had : AtParent(w, x)

OwnStep == StashPush \/ StashRef \/ AddFork \/ Apply \/ Restore \/ StashList \/ StashDrop

LEMMA OneAtATime == op # NoOp /\ Request => op' = op
<1> SUFFICES ASSUME op # NoOp PROVE ~Request \/ op' = op
  OBVIOUS
<1>1. ~RemoteAsked /\ (\A b \in Branch, force \in BOOLEAN : ~DeleteAsked(b, force)) /\ \A s \in Session : ~MergeAsked(s)
  BY DEF RemoteAsked, DeleteAsked, MergeAsked, Start, Admitted
<1>2. \A s \in Session, b \in Branch \cup {Main} : ~CreateAsked(s, b) /\ ~MoveAsked(s, b) /\ ~SwitchAsked(s, b)
  BY DEF CreateAsked, MoveAsked, SwitchAsked, Start, Admitted
<1>3. \A s, c \in Session, b \in Branch : ~ForkAsked(s, c, b)
  BY DEF ForkAsked, Admitted
<1>4. \A s, c \in Session : ConversationFork(s, c) => op' = op
  BY DEF ConversationFork
<1>5. QED
  BY <1>1, <1>2, <1>3, <1>4 DEF Request

\* Apart from its own steps a fork stays where it is.
LEMMA ForkGoesOn ==
    ASSUME TypeInv, [Next]_vars, op.kind = "fork", op' # NoOp, ~OwnStep
    PROVE  /\ op \in Operations /\ Plain /\ (op'.step = op.step \/ op.step = "child")
           /\ UNCHANGED git \/ \E s \in Session : AgentEdits(s) \/ AgentCommits(s) \/ AgentStashes(s)
                                                  \/ \E b \in Branch \cup {Main} : AgentSwitches(s, b)
<1>1. op # NoOp /\ op \in Operations /\ OpShape
  BY NoOpKind, Started
<1>2. ~Merging
  BY <1>1 DEF Merging, Is
<1>3. ~Request \/ op' = op
  BY <1>1, OneAtATime
<1>4. Plain
  <2>1. op' = op => Plain
    BY <1>1 DEF Plain, SameOperation
  <2>2. QED
    BY <1>2, <1>3, <2>1, PlainOrNot DEF OwnStep
<1>5. ASSUME Step PROVE op.step = "child"
  <2>1. op.step \in {"stash", "ref", "branch", "apply", "restore", "list", "drop", "child", "cleanup", "quit"}
    BY <1>1 DEF OpShape, ForkShape
  <2>2. ~Prepare /\ ~Switching /\ ~Fetch /\ ~Merge /\ ~Gather /\ ~Rehomed /\ ~Remove /\ ~Removing /\ ~Delete /\ ~Deleting /\ ~Add
        /\ ~Adding /\ ~Settle /\ ~Remote /\ \A s \in Session : ~Rehome(s)
    BY <2>1 DEF Prepare, Switching, Fetch, Merge, Gather, Rehomed, Remove, Removing, Delete, Deleting, Add, Adding,
        Settle, Remote,
       Rehome, Is
  <2>3. ~Cleanup /\ ~Quit
    BY DEF Cleanup, Quit, End
  <2>4. QED
    BY <1>2, <1>5, <2>2, <2>3 DEF Step, OwnStep, ForkChild, Is
<1>6. ASSUME NEW s \in Session, \/ AgentEdits(s) \/ AgentCommits(s) \/ AgentStashes(s)
                                \/ \E b \in Branch \cup {Main} : AgentSwitches(s, b)
      PROVE  op'.step = op.step
  <2>1. op' = op \/ op' = [op EXCEPT !.raced = TRUE]
    BY <1>6 DEF AgentEdits, AgentCommits, AgentStashes, AgentSwitches
  <2>2. QED
    BY <1>1, <2>1 DEF Operations
<1>7. ASSUME \/ UNCHANGED vars \/ Restart \/ \E s \in Session : TurnStarts(s) \/ ConversationForked(s) \/ TurnEnds(s)
      PROVE  op'.step = op.step
  BY <1>7 DEF vars, TurnStarts, ConversationForked, TurnEnds, Restart
<1>8. op'.step = op.step \/ op.step = "child"
  BY <1>3, <1>5, <1>6, <1>7 DEF Next, Turn
<1>9. ~Cleanup
  BY DEF Cleanup, End
<1>10. QED
  BY <1>1, <1>4, <1>8, <1>9, WhoUsesGit DEF OwnStep

LEMMA HadStays ==
    ASSUME TypeInv, FreshAlone, [Next]_vars, op.kind = "fork", op' # NoOp, op'.raced = FALSE, ~OwnStep
    PROVE  /\ op.raced = FALSE /\ (op.step = "ref" => stash' = stash) /\ op'.path = op.path
           /\ \A x \in Spots, w \in op.had : AtParent(w, x) => AtParent(w, x)'
<1>1. /\ op \in Operations /\ Plain /\ op # NoOp
      /\ UNCHANGED git \/ \E s \in Session : AgentEdits(s) \/ AgentCommits(s) \/ AgentStashes(s)
                                             \/ \E b \in Branch \cup {Main} : AgentSwitches(s, b)
  BY ForkGoesOn, NoOpKind
<1>2. op.raced = FALSE /\ op'.path = op.path /\ op.path \in Path
  <2>1. op'.path = op.path /\ op.path \in Path
    BY <1>1, Started DEF Plain, OpShape, ForkShape
  <2>2. op'.raced = op.raced \/ op'.raced = TRUE
    BY <1>1 DEF Plain
  <2>3. QED
    BY <2>1, <2>2
<1>3. \A s \in Session : AgentStashes(s) => op.step # "ref" /\ home[s] # op.path
  <2>1. \A s \in Session : AgentStashes(s) /\ (op.step = "ref" \/ home[s] = op.path) => op' = [op EXCEPT !.raced = TRUE]
    BY <1>1 DEF AgentStashes, Races
  <2>2. op' = [op EXCEPT !.raced = TRUE] => op'.raced = TRUE
    BY <1>1 DEF Operations
  <2>3. QED
    BY <2>1, <2>2
<1>4. op.step = "ref" => stash' = stash
  BY <1>1, <1>3 DEF git, AgentEdits, AgentCommits, AgentSwitches
<1>5. ASSUME NEW x \in Spots, NEW w \in op.had, AtParent(w, x) PROVE AtParent(w, x)'
  <2>1. CASE UNCHANGED git
    BY <1>2, <1>5, <2>1 DEF AtParent, OnTips, git
  <2>2. CASE \E s \in Session : AgentEdits(s) \/ AgentCommits(s) \/ \E b \in Branch \cup {Main} : AgentSwitches(s, b)
    <3>1. /\ OnTips(w, x) => OnTips(w, x)'
          /\ \A p \in Path : w \in dirty[p] => w \in dirty'[p] \/ OnTips(w, x)'
      BY <2>2, AgentsMove
    <3>2. QED
      BY <1>2, <1>5, <3>1 DEF AtParent
  <2>3. ASSUME NEW s \in Session, AgentStashes(s) PROVE AtParent(w, x)'
    <3>1. tip' = tip /\ dirty' = [dirty EXCEPT ![home[s]] = {}] /\ home[s] # op.path
      BY <1>3, <2>3 DEF AgentStashes
    <3>2. dirty'[op.path] = dirty[op.path]
      BY <1>2, <3>1 DEF TypeInv, TypeOK
    <3>3. QED
      BY <1>2, <1>5, <3>1, <3>2 DEF AtParent, OnTips
  <2>4. QED
    BY <1>1, <2>1, <2>2, <2>3
<1>6. QED
  BY <1>2, <1>4, <1>5

LEMMA HadBackStep == TypeInv /\ FreshAlone /\ HadBack /\ [Next]_vars => HadBack'
<1> SUFFICES ASSUME TypeInv, FreshAlone, HadBack, [Next]_vars, op'.kind = "fork", op'.raced = FALSE
             PROVE  /\ op'.step = "stash" => \A w \in op'.had : AtParent(w, Gone)'
                    /\ op'.step = "ref" => op'.had = {} \/ (stash' # <<>> /\ Head(stash') = op'.had)
                    /\ op'.step \in {"branch", "apply", "restore"} => op'.had = {} \/ op'.ref = op'.had
                    /\ op'.step \in {"list", "drop", "child", "cleanup", "quit"} => \A x \in Spots', w \in op'.had : AtParent(w, x)'
  BY DEF HadBack, AtParent, OnTips
<1>1. op' # NoOp /\ RepositoryOK /\ Gone \in Spots
  BY NoOpKind DEF TypeInv, TypeOK, RepositoryOK, Spots
<1>2. CASE op.kind = "fork" /\ ~OwnStep
  <2>1. /\ op'.had = op.had /\ op'.ref = op.ref /\ (op'.step = op.step \/ op.step = "child")
        /\ op'.step = op.step \/ op'.step \notin {"stash", "ref", "branch", "apply", "restore", "list", "drop"}
    BY <1>1, <1>2, ForkGoesOn DEF Plain
  <2>2. op.raced = FALSE /\ (op.step = "ref" => stash' = stash) /\ \A x \in Spots, w \in op.had : AtParent(w, x) => AtParent(w, x)'
    BY <1>1, <1>2, HadStays
  <2>3. ~AddFork => Spots' \subseteq Spots
    BY FreshKept DEF ForkAdded
  <2>4. Spots' \subseteq Spots
    BY <1>2, <2>3 DEF OwnStep
  <2>5. CASE op'.step = "stash"
    BY <1>1, <1>2, <2>1, <2>2, <2>5 DEF HadBack
  <2>6. CASE op'.step = "ref"
    BY <1>2, <2>1, <2>2, <2>6 DEF HadBack
  <2>7. CASE op'.step \in {"branch", "apply", "restore"}
    BY <1>2, <2>1, <2>2, <2>7 DEF HadBack
  <2>8. CASE op'.step \in {"list", "drop", "child", "cleanup", "quit"}
    <3>1. op.step \in {"list", "drop", "child", "cleanup", "quit"}
      BY <2>1, <2>8
    <3>2. \A x \in Spots, w \in op.had : AtParent(w, x)
      BY <1>2, <2>2, <3>1 DEF HadBack
    <3>3. QED
      BY <2>1, <2>2, <2>4, <2>8, <3>2
  <2>9. QED
    BY <2>5, <2>6, <2>7, <2>8
<1>3. CASE OwnStep
  <2>0. StashPush \/ StashRef \/ AddFork \/ Apply \/ Restore \/ StashList \/ StashDrop
    BY <1>3 DEF OwnStep
  <2>1. op.kind = "fork" /\ op.path \in Path /\ op'.path = op.path /\ op'.raced = op.raced
    BY <1>1, <2>0, ForkSteps
  <2>2. op.raced = FALSE /\ op # NoOp /\ OpShape /\ op.had \in SUBSET Work
    BY <2>1, NoOpKind, Started DEF Operations
  <2>3. CASE StashPush
    <3>1. op'.step = "ref" /\ op'.had = dirty[op.path]
      BY <1>1, <2>3, ForkSteps
    <3>2. op'.had = {} \/ stash' = <<dirty[op.path]>> \o stash
      BY <1>1, <2>3, <3>1 DEF StashPush, End
    <3>3. stash' = <<dirty[op.path]>> \o stash => stash' # <<>> /\ Head(stash') = dirty[op.path]
      BY <1>1, <2>1 DEF RepositoryOK
    <3>4. QED
      BY <3>1, <3>2, <3>3
  <2>4. CASE StashRef
    <3>1. op.step = "ref" /\ op'.step = "branch" /\ op'.ref = Head(stash) /\ stash # <<>> /\ op'.had = op.had
      BY <1>1, <2>4, ForkSteps
    <3>2. QED
      BY <2>1, <2>2, <3>1 DEF HadBack
  <2>5. CASE AddFork
    <3>1. op.step = "branch" /\ op'.had = op.had /\ op'.ref = op.ref
          /\ (op'.step = "restore" \/ op'.step = (IF op.ref = {} THEN "child" ELSE "apply"))
      BY <1>1, <2>5, ForkSteps
    <3>2. op.had = {} \/ op.ref = op.had
      BY <2>1, <2>2, <3>1 DEF HadBack
    <3>3. QED
      BY <3>1, <3>2
  <2>6. CASE Apply
    <3>1. op.step = "apply" /\ op'.step = "restore" /\ op'.had = op.had /\ op'.ref = op.ref
      BY <1>1, <2>6, ForkSteps
    <3>2. QED
      BY <2>1, <2>2, <3>1 DEF HadBack
  <2>7. CASE Restore
    <3>1. op.step = "restore" /\ op'.step = "list" /\ op'.had = op.had /\ dirty' = [dirty EXCEPT ![op.path] = @ \cup op.ref]
      BY <1>1, <2>7, ForkSteps
    <3>2. op.had = {} \/ op.ref = op.had
      BY <2>1, <2>2, <3>1 DEF HadBack
    <3>3. op.ref \subseteq dirty'[op.path]
      BY <1>1, <2>1, <3>1 DEF RepositoryOK
    <3>4. QED
      BY <2>1, <3>1, <3>2, <3>3 DEF AtParent
  <2>8. CASE StashList \/ StashDrop
    <3>1. op.step \in {"list", "drop"} /\ op'.had = op.had /\ tip' = tip /\ dirty' = dirty
          /\ op'.step \in {"list", "drop", "child", "cleanup", "quit"}
      BY <2>8, ForkSteps DEF StashList, StashDrop, Steady, git, Forked
    <3>2. Spots' \subseteq Spots
      BY <3>1, FreshKept DEF ForkAdded
    <3>3. \A x \in Spots, w \in op.had : AtParent(w, x)
      BY <2>1, <2>2, <3>1 DEF HadBack
    <3>4. QED
      BY <2>1, <3>1, <3>2, <3>3 DEF AtParent, OnTips
  <2>9. QED
    BY <2>0, <2>3, <2>4, <2>5, <2>6, <2>7, <2>8
<1>4. CASE op.kind # "fork" /\ ~OwnStep
  <2>1. ~Plain /\ ~Merging
    <3>1. ~Plain
      BY <1>1, <1>4 DEF Plain, SameOperation
    <3>2. Merging => op # NoOp /\ op' = [op EXCEPT !.step = "gather", !.done = TRUE]
      BY <1>1 DEF Merging, End, Is
    <3>3. op # NoOp => op \in Operations
      BY Started
    <3>4. QED
      BY <1>4, <3>1, <3>2, <3>3 DEF Operations
  <2>2. PICK s \in Session, c \in Session, b \in Branch : ForkAsked(s, c, b)
    BY <1>4, <2>1, PlainOrNot DEF OwnStep, Begun
  <2>3. op'.path = home[s] /\ op'.had = dirty[home[s]] /\ op'.step = (IF dirty[home[s]] = {} THEN "branch" ELSE "stash") /\ dirty' = dirty
    BY <2>2 DEF ForkAsked, Steady, git
  <2>4. op'.had = {} \/ op'.step = "stash"
    BY <2>3
  <2>5. \A w \in op'.had : w \in dirty'[op'.path]
    BY <2>3
  <2>6. QED
    BY <2>3, <2>4, <2>5 DEF AtParent
<1>5. QED
  BY <1>2, <1>3, <1>4

LEMMA ParentRestoredStep ==
    ASSUME TypeInv, FreshAlone, HadBack, [Next]_vars, op # NoOp, op.kind = "fork", op' = NoOp,
           answer' \in {"ok", "failed"}, ~op.raced, NEW w \in op.had
    PROVE  w \in dirty'[op.path] \/ \E b \in Branch \cup {Main} : tip'[b] # NoBranch /\ w \in tip'[b]
<1> DEFINE Back == w \in dirty'[op.path] \/ \E b \in Branch \cup {Main} : tip'[b] # NoBranch /\ w \in tip'[b]
<1>1. RepositoryOK /\ Gone \in Spots /\ OpShape /\ op \in Operations /\ op.raced = FALSE
  BY Started DEF TypeInv, TypeOK, RepositoryOK, Spots, Operations
<1>2. AtParent(w, Gone) /\ dirty' = dirty /\ tip' = tip => Back
  BY DEF AtParent, OnTips
<1>3. OwnStep \/ Cleanup \/ Quit \/ \E c \in Session : ForkChild(c)
  <2>1. ASSUME Step PROVE OwnStep \/ Cleanup \/ Quit \/ \E c \in Session : ForkChild(c)
    <3>1. op.step \in {"stash", "ref", "branch", "apply", "restore", "list", "drop", "child", "cleanup", "quit"}
      BY <1>1 DEF OpShape, ForkShape
    <3>2. ~Prepare /\ ~Switching /\ ~Fetch /\ ~Merge /\ ~Merging /\ ~Gather /\ ~Rehomed /\ ~Remove /\ ~Removing /\ ~Delete
          /\ ~Deleting /\ ~Add /\ ~Adding /\ ~Settle /\ ~Remote /\ \A s \in Session : ~Rehome(s)
      BY <3>1 DEF Prepare, Switching, Fetch, Merge, Merging, Gather, Rehomed, Remove, Removing, Delete, Deleting, Add,
          Adding,
         Settle, Remote, Rehome, Is
    <3>3. QED
      BY <2>1, <3>2 DEF Step, OwnStep
  <2>2. ASSUME Turn \/ \E s \in Session : TurnStarts(s) PROVE FALSE
    <3>1. op' = op \/ op' = [op EXCEPT !.raced = TRUE]
      BY <2>2 DEF Turn, TurnStarts, ConversationForked, TurnEnds, AgentEdits, AgentCommits, AgentStashes, AgentSwitches
    <3>2. op'.kind = "fork"
      BY <1>1, <3>1 DEF Operations
    <3>3. QED
      BY <3>2, NoOpKind
  <2>3. ~Request /\ ~Restart /\ ~UNCHANGED vars
    BY OneAtATime DEF Restart, vars
  <2>4. QED
    BY <2>1, <2>2, <2>3 DEF Next
<1>4. CASE StashPush
  <2>1. op.step = "stash" /\ dirty' = dirty /\ tip' = tip
    <3>1. op.step = "stash" /\ op' # [op EXCEPT !.step = "ref", !.had = dirty[op.path]]
      <4>1. op.step = "stash"
        BY <1>4, ForkSteps
      <4>2. op' = [op EXCEPT !.step = "ref", !.had = dirty[op.path]] => op'.kind = "fork"
        BY <1>1 DEF Operations
      <4>3. QED
        BY <4>1, <4>2, NoOpKind
    <3>2. QED
      BY <1>4, <3>1 DEF StashPush
  <2>2. QED
    BY <1>1, <1>2, <2>1 DEF HadBack
<1>5. CASE StashRef
  <2>1. op.step = "ref" /\ stash = <<>>
    <3>1. op' = [op EXCEPT !.step = "branch", !.ref = Head(stash)] => op'.kind = "fork"
      BY <1>1 DEF Operations
    <3>2. QED
      BY <1>5, <3>1, NoOpKind, ForkSteps DEF StashRef
  <2>2. QED
    BY <1>1, <2>1 DEF HadBack
<1>6. CASE AddFork
  <2>1. op.step = "branch" /\ op.ref = {}
    <3>1. AddFork => op.step = "branch"
      BY ForkSteps
    <3>2. ASSUME op.ref # {} PROVE FALSE
      <4>1. \/ op' = [op EXCEPT !.done = TRUE, !.step = "apply"]
            \/ op' = [op EXCEPT !.step = "restore", !.failed = TRUE]
        BY <1>6, <3>2 DEF AddFork, Undo
      <4>2. op'.kind = "fork"
        BY <1>1, <4>1 DEF Operations
      <4>3. QED
        BY <4>2, NoOpKind
    <3>3. QED
      BY <1>6, <3>1, <3>2
  <2>2. QED
    BY <1>1, <2>1 DEF HadBack
<1>7. ~Apply /\ ~StashList /\ ~StashDrop /\ ~Restore
  <2>1. Restore => op' = [op EXCEPT !.step = "list"]
    BY DEF Restore, Go, End
  <2>2. op' # [op EXCEPT !.step = "list"]
    <3>1. op' = [op EXCEPT !.step = "list"] => op'.kind = "fork"
      BY <1>1 DEF Operations
    <3>2. QED
      BY <3>1, NoOpKind
  <2>3. QED
    BY <2>1, <2>2, ForkSteps
<1>8. CASE Quit \/ \E c \in Session : ForkChild(c)
  <2>1. op.step \in {"quit", "child"} /\ dirty' = dirty /\ tip' = tip
    BY <1>8 DEF Quit, ForkChild, Is, Steady, git
  <2>2. QED
    BY <1>1, <1>2, <2>1 DEF HadBack
<1>9. CASE Cleanup
  <2>1. /\ op.step = "cleanup"
        /\ \/ UNCHANGED <<dirty, tip>>
           \/ /\ At(op.branch) = {} /\ dirty' = [dirty EXCEPT ![op.branch] = {}]
              /\ tip' = tip \/ tip' = [tip EXCEPT ![op.branch] = NoBranch]
    BY <1>9 DEF Cleanup, Is
  <2>2. op.branch \in Branch /\ op.done /\ op.path # op.branch /\ op.path \in Path
    BY <1>1, <2>1 DEF OpShape, ForkShape
  <2>3. CASE UNCHANGED <<dirty, tip>>
    BY <1>1, <1>2, <2>1, <2>3 DEF HadBack
  <2>4. CASE /\ At(op.branch) = {} /\ dirty' = [dirty EXCEPT ![op.branch] = {}]
             /\ tip' = tip \/ tip' = [tip EXCEPT ![op.branch] = NoBranch]
    <3>1. AtParent(w, op.branch)
      <4>1. op.branch \in Spots
        BY <2>2, <2>4 DEF Spots, Fresh
      <4>2. QED
        BY <1>1, <2>1, <4>1 DEF HadBack
    <3>2. dirty'[op.path] = dirty[op.path] /\ \A b \in Branch \cup {Main} : b # op.branch => tip'[b] = tip[b]
      BY <1>1, <2>2, <2>4 DEF RepositoryOK
    <3>3. QED
      BY <3>1, <3>2 DEF AtParent, OnTips
  <2>5. QED
    BY <2>1, <2>3, <2>4
<1>10. QED
  BY <1>3, <1>4, <1>5, <1>6, <1>7, <1>8, <1>9 DEF OwnStep

\* server/workspaces.js, forkWorkspaceAsync: once a fork has answered, the parent has its
\* uncommitted work, or its agent has committed it, unless an entry came between the
\* fork's push and its reading of refs/stash or the parent's agent stashed the work.
THEOREM ParentRestoredCorrect == PlacesSpec => ParentRestored
<1>1. Init => HadBack
  BY NoOpKind DEF Init, HadBack
<1>2. WorkInv => FreshAlone
  BY DEF WorkInv
<1>3. TypeInv /\ FreshAlone /\ HadBack /\ [Next]_vars =>
        [op # NoOp /\ op.kind = "fork" /\ op' = NoOp /\ answer' \in {"ok", "failed"} /\ ~op.raced
         => \A w \in op.had : w \in dirty'[op.path]
                             \/ \E b \in Branch \cup {Main} : tip'[b] # NoBranch /\ w \in tip'[b]]_vars
  BY ParentRestoredStep
<1>4. QED
  BY <1>1, <1>2, <1>3, HadBackStep, RepositoryInv, RepositoryOfPlaces, PTL DEF PlacesSpec, ParentRestored

\* server/workspaces.js, config.js, bindings.js and the push of session-picker.js: each part
\* keeps the shapes of what it holds.
THEOREM PlacesTypeOKCorrect == PlacesSpec => []PlacesTypeOK
<1>1. TypeInv /\ AppInv /\ PushInv => PlacesTypeOK
  <2> SUFFICES ASSUME TypeInv, AppInv, PushInv PROVE PlacesTypeOK
    OBVIOUS
  <2>1. TypeOK /\ AppTypeOK /\ PushTypeOK
    BY DEF TypeInv, AppInv, PushInv
  <2>2. CASE inUse = "repository"
    BY <2>1, <2>2 DEF PlacesTypeOK
  <2>3. CASE inUse = "review"
    BY <2>1, <2>3 DEF PlacesTypeOK
  <2>4. CASE inUse # "repository" /\ inUse # "review"
    BY <2>1, <2>4 DEF PlacesTypeOK
  <2>5. QED
    BY <2>2, <2>3, <2>4
<1>2. PlacesSpec => []AppInv
  BY AppStarts, AppStep, AppOfPlaces, PTL DEF PlacesSpec
<1>3. PlacesSpec => []PushInv
  BY PushStarts, PushStep, PushOfPlaces, PTL DEF PlacesSpec
<1>4. QED
  BY <1>1, <1>2, <1>3, RepositoryTypeInv, PTL
=============================================================================
