------------------------------ MODULE AppState ------------------------------
(***************************************************************************)
(* What the server keeps in its home: config.json, bindings.json and       *)
(* closed.json (config.js).  Each is read and written whole, by renaming a *)
(* finished copy over it; nothing locks them between a request's reading   *)
(* and its writing.  With them go the clones of projects (repositories.js).*)
(* A write may fail, and the server may stop at any point and start again. *)
(***************************************************************************)
EXTENDS Naturals, FiniteSets

CONSTANTS
    Repo,      \* repositories that may be added as projects
    Entry,     \* conversations of the project
    NoEntry,
    AppReq,    \* requests under way
    MaxMoves,  \* bound: workspaces a conversation is moved to
    MaxTrouble \* bound: writes, clones and moves that fail, and stops of the server

ASSUME AppStateAssumption ==
    Entry # {} /\ NoEntry \notin Entry /\ {MaxMoves, MaxTrouble} \subseteq Nat

VARIABLES
    config,    \* config.json: the projects and the settings that were changed
    bindings,  \* bindings.json: per conversation its workspace, or 0
    closed,    \* closed.json
    clones,    \* repositories with a directory of theirs
    parent,    \* the conversations there are and what each was forked from
    appReq,    \* requests under way
    moves, trouble

appVars == <<config, bindings, closed, clones, parent, appReq, moves, trouble>>
files == <<config, bindings, closed>>

Setting == {"model", "other"}
AtRest == [kind |-> "rest", of |-> NoEntry, to |-> NoEntry, place |-> 0, target |-> 0,
           config |-> {}, tree |-> {}, step |-> "begun"]
AppTypeOK ==
    /\ config \subseteq Repo \cup Setting /\ bindings \in [Entry -> 0..MaxMoves + 1]
    /\ clones \subseteq Repo /\ DOMAIN parent \subseteq Entry /\ closed \subseteq DOMAIN parent
    /\ \A s \in DOMAIN parent : parent[s] \in DOMAIN parent \cup {NoEntry}
    /\ moves \in 0..MaxMoves /\ trouble \in 0..MaxTrouble
    /\ appReq \in [AppReq -> [kind : {"rest", "add", "model", "close", "move", "replace"},
            of : Repo \cup Entry \cup {NoEntry}, to : Entry \cup {NoEntry}, place : 0..MaxMoves + 1,
            target : 0..MaxMoves + 1, config : SUBSET (Repo \cup Setting),
            tree : SUBSET Entry, step : {"begun", "cloned", "read"}]]

AppInit ==
    LET first == CHOOSE s \in Entry : TRUE
    IN /\ config = {} /\ clones = {} /\ closed = {}
       /\ bindings = [s \in Entry |-> IF s = first THEN 1 ELSE 0]
       /\ parent = [s \in {first} |-> NoEntry]
       /\ appReq = [r \in AppReq |-> AtRest] /\ moves = 0 /\ trouble = 0

Trouble == trouble < MaxTrouble /\ trouble' = trouble + 1
Busy(kinds) == {r \in AppReq : appReq[r].kind \in kinds}
BeginRequest(r, q) == appReq[r].kind = "rest" /\ appReq' = [appReq EXCEPT ![r] = q]
EndRequest(r) == appReq' = [appReq EXCEPT ![r] = AtRest]
Fails(r) ==
    /\ appReq[r].kind # "rest" /\ Trouble /\ EndRequest(r)
    /\ UNCHANGED <<files, clones, parent, moves>>

\* POST /projects: the configuration is read before the clone is made and
\* written, with the project added, after it.
AddProject(r, repo) ==
    /\ repo \notin clones /\ \A q \in Busy({"add"}) : appReq[q].of # repo
    /\ BeginRequest(r, [AtRest EXCEPT !.kind = "add", !.of = repo, !.config = config])
    /\ UNCHANGED <<files, clones, parent, moves, trouble>>
Cloned(r) ==
    /\ r \in Busy({"add"}) /\ appReq[r].step = "begun"
    /\ clones' = clones \cup {appReq[r].of} /\ appReq' = [appReq EXCEPT ![r].step = "cloned"]
    /\ UNCHANGED <<files, parent, moves, trouble>>
\* POST /settings: a change of the model waits for the list of models.
ChangeModel(r) ==
    /\ BeginRequest(r, [AtRest EXCEPT !.kind = "model", !.config = config])
    /\ UNCHANGED <<files, clones, parent, moves, trouble>>
ConfigSaved(r) ==
    \/ r \in Busy({"add"}) /\ appReq[r].step = "cloned" /\ config' = appReq[r].config \cup {appReq[r].of}
    \/ r \in Busy({"model"}) /\ config' = appReq[r].config \cup {"model"}
SaveConfig(r) == ConfigSaved(r) /\ EndRequest(r) /\ UNCHANGED <<bindings, closed, clones, parent, moves, trouble>>
ChangeOther ==
    /\ config' = config \cup {"other"} /\ UNCHANGED <<bindings, closed, clones, parent, appReq, moves, trouble>>

\* descendantsOf
Above(tree) == LET up[s \in DOMAIN tree \cup {NoEntry}] ==
                       IF s = NoEntry THEN {} ELSE {tree[s]} \cup up[tree[s]]
               IN up
Descendants(s, tree) == {c \in DOMAIN tree : s \in Above(tree)[c]}
\* A fork is bound to the workspace it was made in as soon as it exists.
NewEntry == CHOOSE c \in Entry : c \notin DOMAIN parent
Fork(s, c) ==
    /\ s \in DOMAIN parent \ closed /\ DOMAIN parent # Entry /\ c = NewEntry
    /\ parent' = [d \in DOMAIN parent \cup {c} |-> IF d = c THEN s ELSE parent[d]]
    /\ bindings' = [bindings EXCEPT ![c] = bindings[s]]
    /\ UNCHANGED <<config, closed, clones, appReq, moves, trouble>>
\* closeSession: the conversations are listed, which takes a while.
Close(r, s) ==
    /\ s \in DOMAIN parent \ closed
    /\ BeginRequest(r, [AtRest EXCEPT !.kind = "close", !.of = s])
    /\ UNCHANGED <<files, clones, parent, moves, trouble>>
Listed(r) ==
    /\ r \in Busy({"close"}) /\ appReq[r].step = "begun"
    /\ appReq' = [appReq EXCEPT ![r].tree = Descendants(appReq[r].of, parent), ![r].step = "read"]
    /\ UNCHANGED <<files, clones, parent, moves, trouble>>
SaveClosed(r) ==
    /\ r \in Busy({"close"}) /\ appReq[r].step = "read" /\ closed' = closed \cup {appReq[r].of} \cup appReq[r].tree /\ EndRequest(r)
    /\ UNCHANGED <<config, bindings, clones, parent, moves, trouble>>

\* One conversation of a repository is moved at a time: to a workspace of its own.
Move(r, s) ==
    /\ s \in DOMAIN parent \ closed /\ Busy({"move"}) = {} /\ moves < MaxMoves /\ moves' = moves + 1
    /\ \A q \in Busy({"replace"}) : appReq[q].of # s
    /\ BeginRequest(r, [AtRest EXCEPT !.kind = "move", !.of = s, !.place = bindings[s], !.target = moves + 2])
    /\ UNCHANGED <<files, clones, parent, trouble>>
StillThere(r) == bindings[appReq[r].of] \in {appReq[r].place, appReq[r].target}
\* bindRehomedSession
EntryMoved(r) ==
    /\ r \in Busy({"move"}) /\ EndRequest(r)
    /\ IF StillThere(r)
       THEN bindings' = [bindings EXCEPT ![appReq[r].of] = appReq[r].target]
       ELSE UNCHANGED bindings
    /\ UNCHANGED <<config, closed, clones, parent, moves, trouble>>

\* A slash command replaces a conversation by another, known or new; its binding
\* is read now (prepareSessionVisibilityReplacement) and written at the end.
Replace(r, s, t) ==
    /\ s \in DOMAIN parent \ closed /\ t # s /\ (t \notin DOMAIN parent => t = NewEntry)
    /\ \A q \in Busy({"move", "replace"}) : appReq[q].of # s
    /\ parent' = [d \in DOMAIN parent \cup {t} |-> IF d \in DOMAIN parent THEN parent[d] ELSE NoEntry]
    /\ BeginRequest(r, [AtRest EXCEPT !.kind = "replace", !.of = s, !.to = t, !.place = bindings[s]])
    /\ UNCHANGED <<files, clones, moves, trouble>>
\* Mutant: the conversation is reopened before it is bound.
ReopenedFirst(r) == closed' = closed \ {appReq[r].to} /\ UNCHANGED bindings
BoundFirst(r) == bindings' = [bindings EXCEPT ![appReq[r].to] = appReq[r].place] /\ UNCHANGED closed
\* commit: a second write that fails undoes the first, if that can be written.
Commit(r) ==
    /\ r \in Busy({"replace"}) /\ UNCHANGED <<config, clones, parent, moves>>
    /\ \/ /\ bindings' = [bindings EXCEPT ![appReq[r].to] = appReq[r].place]
          /\ closed' = closed \ {appReq[r].to} /\ EndRequest(r) /\ UNCHANGED trouble
       \/ Trouble /\ EndRequest(r) /\ BoundFirst(r)
       \/ Trouble /\ BoundFirst(r) /\ appReq' = [q \in AppReq |-> AtRest]
\* The server stops: requests go, with the locks of clones and their temporary copies.
Stop ==
    /\ Trouble /\ Busy({"rest"}) # AppReq /\ appReq' = [r \in AppReq |-> AtRest]
    /\ UNCHANGED <<files, clones, parent, moves>>

\* The settings and the conversations are changed by different requests.
ConfigNext ==
    \/ ChangeOther \/ Stop
    \/ \E r \in AppReq :
        \/ \E repo \in Repo : AddProject(r, repo)
        \/ Fails(r) \/ Cloned(r) \/ ChangeModel(r) \/ SaveConfig(r)
EntriesNext ==
    \/ \E r \in AppReq :
        \/ Fails(r) \/ Listed(r) \/ SaveClosed(r) \/ EntryMoved(r) \/ Commit(r)
        \/ \E s \in Entry : Close(r, s) \/ Move(r, s) \/ \E t \in Entry : Replace(r, s, t)
    \/ \E s, c \in Entry : Fork(s, c)

\* What one request wrote, another does not undo, whatever fails and wherever the
\* server stops: only adding a project and changing the model lose what was set
\* while they waited; only the end of a replacement reopens a conversation, the
\* one it opens, in the workspace of the one it replaces; and a conversation is
\* moved only from where its mover saw it last.
StateKept ==
    [][/\ config \ config' # {} => \E r \in Busy({"add", "model"}) : appReq'[r].kind = "rest"
       /\ \A s \in closed \ closed' : \E r \in Busy({"replace"}) :
            appReq[r].to = s /\ appReq'[r].kind = "rest" /\ bindings'[s] = appReq[r].place
       /\ \A s \in DOMAIN parent : bindings'[s] # bindings[s] =>
            \E r \in AppReq : appReq'[r].kind = "rest" /\
                \/ appReq[r].kind = "move" /\ appReq[r].of = s /\ appReq[r].place = bindings[s]
                \/ appReq[r].kind = "replace" /\ appReq[r].to = s]_appVars
=============================================================================
