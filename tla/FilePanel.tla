----------------------------- MODULE FilePanel -----------------------------
(***************************************************************************)
(* The column of a workspace's files beside the conversation and the file  *)
(* that covers it: what is asked of the server, what is shown when answers *)
(* come late, and the browser's history.  public/js/app.js, files.js, the  *)
(* selections of shell.js, server/routes/files.js.                         *)
(***************************************************************************)
EXTENDS Naturals, FiniteSets

CONSTANTS
    Thread,     \* conversations of projects
    NoThread,   \* a chat: it has no files
    Place,      \* their workspaces
    NoFile,
    Doc,        \* paths
    MaxOpened,  \* bound: files opened
    MaxTrees,   \* bound: fetches of the tree
    MaxMoves    \* bound: changes of a conversation's workspace

ASSUME FilePanelAssumption == NoThread \notin Thread /\ NoFile \notin Doc /\ {MaxOpened, MaxTrees, MaxMoves} \subseteq Nat

VARIABLES
    seat,       \* the workspace of each conversation, as the page knows it
    seen,       \* the page: see PanelState
    treeAsks,   \* fetches of a tree on their way
    fileAsks,   \* fetches of a file on their way
    trees, moves,
    entry,      \* the browser's history: at "chat" or at "file"
    backs       \* history.back() calls that have not happened yet

panelVars == <<seat, seen, treeAsks, fileAsks, trees, moves, entry, backs>>

Target == {"origin", "primary"}
NoKey == [place |-> NoFile, target |-> "none"]
TreeKey == [place : Place, target : Target] \cup {NoKey}
NoView == [place |-> NoFile, path |-> NoFile, target |-> "none"]
View == [place : Place, path : Doc, target : Target] \cup {NoView}

PanelState ==
    [thread : Thread \cup {NoThread},
     open : BOOLEAN,                \* filesOpen
     files : TreeKey,               \* files: whose they are
     loadedKey : TreeKey,           \* filesLoadedKey
     loading : BOOLEAN,             \* filesLoading
     failed : BOOLEAN,              \* the tree could not be loaded
     activeKey : TreeKey, askedKey : TreeKey,    \* activeFilesKey, loadingFilesKey
     path : Doc \cup {NoFile}, view : View, viewLoading : BOOLEAN,  \* filePath, fileView, fileLoading
     target : Target,               \* fileTarget
     id : 0..(2 * MaxOpened + MaxTrees)]         \* requestId

PanelTypeOK ==
    /\ seat \in [Thread -> Place] /\ seen \in PanelState
    /\ treeAsks \subseteq [n : 1..MaxTrees, key : TreeKey]
    /\ \A a \in fileAsks : a.view \in View
    /\ trees \in 0..MaxTrees /\ moves \in 0..MaxMoves /\ entry \in {"chat", "file"} /\ backs \in 0..1

Bare == [thread |-> NoThread, open |-> FALSE, files |-> NoKey, loadedKey |-> NoKey, loading |-> FALSE, failed |-> FALSE,
         activeKey |-> NoKey, askedKey |-> NoKey, path |-> NoFile, view |-> NoView, viewLoading |-> FALSE, target |-> "origin", id |-> 0]

PanelInit ==
    /\ seat \in [Thread -> Place] /\ seen = Bare
    /\ treeAsks = {} /\ fileAsks = {} /\ trees = 0 /\ moves = 0 /\ entry = "chat" /\ backs = 0

(***************************************************************************)
(* app.js                                                                  *)
(***************************************************************************)
\* filesKey, with the conversations in the workspaces w.
Key(p, w) == IF p.thread = NoThread THEN NoKey ELSE [place |-> w[p.thread], target |-> p.target]

\* ensureFiles: the page after it; it fetches if the key asked for is another one then.
Left(p) == [p EXCEPT !.path = NoFile, !.view = NoView, !.viewLoading = FALSE, !.loading = FALSE]
Entered(p, key) == [(IF p.activeKey \notin {NoKey, key} THEN Left(p) ELSE p) EXCEPT !.activeKey = key]
Fetching(p, key) ==
    IF p.loadedKey = key THEN [p EXCEPT !.askedKey = key]
    ELSE [p EXCEPT !.askedKey = key, !.files = NoKey, !.loadedKey = NoKey, !.failed = FALSE, !.loading = TRUE]
Fetches(p, key, force) == p.askedKey # key /\ (force \/ p.loadedKey # key)
Ensured(p, key, force) ==
    IF p.thread = NoThread \/ ~p.open THEN p
    ELSE IF Fetches(p, key, force) THEN Fetching(Entered(p, key), key) ELSE Entered(p, key)
Ensures(p, key, force) ==
    \E q \in {Ensured(p, key, force)} :
        /\ seen' = q
        /\ IF q.askedKey # seen.askedKey
           THEN /\ trees < MaxTrees /\ trees' = trees + 1
                /\ treeAsks' = treeAsks \cup {[n |-> trees + 1, key |-> key]}
           ELSE UNCHANGED <<trees, treeAsks>>

\* store.set: sync, which ensures the files; where force, they are ensured once more,
\* which is the same as once with force.
ShowsIn(p, w, force) == \E q \in {p} : Ensures(q, Key(q, w), force)
Shows(p, force) == ShowsIn(p, seat, force) /\ UNCHANGED seat

KeyNow == Key(seen, seat)

\* Mutant: it is shown whatever is selected by now.
AnyCurrent(key) == TRUE
\* If the answer's key is not the one that is shown, nothing is done with it.
Current(key) == KeyNow = key
TreeOf(a) == IF Current(a.key) THEN [seen EXCEPT !.files = a.key, !.loadedKey = a.key, !.loading = FALSE, !.failed = FALSE] ELSE seen
NoTreeOf(a) == IF Current(a.key) THEN [seen EXCEPT !.loading = FALSE, !.failed = TRUE] ELSE seen
TreeAnswers(a) ==
    /\ treeAsks' = treeAsks \ {a}
    /\ \E p \in {TreeOf(a), NoTreeOf(a)} : seen' = [p EXCEPT !.askedKey = IF @ = a.key THEN NoKey ELSE @]
    /\ UNCHANGED <<seat, fileAsks, trees, moves, entry, backs>>

\* The timer.
Ticks ==
    /\ seen.open /\ seen.thread # NoThread /\ Fetches(seen, KeyNow, TRUE)
    /\ Shows(seen, TRUE) /\ UNCHANGED <<fileAsks, moves, entry, backs>>

(***************************************************************************)
(* files.js                                                                *)
(***************************************************************************)
\* clearFile
Cleared(p) == [p EXCEPT !.path = NoFile, !.view = NoView, !.viewLoading = FALSE, !.id = @ + 1]
\* closeFileView: by the browser's Back if the file has an entry there.
GoesBack == seen.path # NoFile /\ entry = "file"
Closing == IF seen.path # NoFile /\ entry = "chat" THEN Cleared(seen) ELSE seen
ClosesFile == backs' = IF GoesBack THEN backs + 1 ELSE backs

\* toggle-files
ToggleFiles ==
    /\ backs = 0 /\ seen.thread # NoThread
    /\ Shows([Left(Closing) EXCEPT !.open = ~@, !.failed = FALSE, !.loading = ~seen.open /\ seen.loadedKey # KeyNow], ~seen.open)
    /\ ClosesFile /\ UNCHANGED <<fileAsks, moves, entry>>

CloseColumn ==
    /\ backs = 0 /\ seen.open
    /\ Shows([Closing EXCEPT !.open = FALSE, !.loading = FALSE, !.failed = FALSE], FALSE)
    /\ ClosesFile /\ UNCHANGED <<fileAsks, moves, entry>>

\* Escape, or the button.
CloseFile ==
    /\ backs = 0 /\ seen.path # NoFile
    /\ Shows(Closing, FALSE) /\ ClosesFile /\ UNCHANGED <<fileAsks, moves, entry>>

ChangeTarget(t) ==
    /\ backs = 0 /\ seen.open /\ seen.thread # NoThread /\ t # seen.target
    /\ Shows([Left(Closing) EXCEPT !.target = t, !.files = NoKey, !.loadedKey = NoKey, !.loading = TRUE, !.failed = FALSE, !.id = @ + 1], FALSE)
    /\ ClosesFile /\ UNCHANGED <<fileAsks, moves, entry>>

\* Of the tree shown: an entry of its own, or the one of the file it replaces.
OpenFile(d) ==
    /\ seen.open /\ seen.thread # NoThread /\ seen.files # NoKey /\ seen.id < MaxOpened
    /\ Shows([seen EXCEPT !.path = d, !.view = NoView, !.viewLoading = TRUE, !.id = @ + 1], FALSE)
    /\ fileAsks' = fileAsks \cup {[id |-> seen.id + 1, view |-> [place |-> seat[seen.thread], path |-> d, target |-> seen.target]]}
    /\ entry' = "file" /\ UNCHANGED <<moves, backs>>

\* Mutant: only the path is compared.
AskedLast(a) == seen.path = a.view.path
StillAsked(a) == a.id = seen.id /\ seen.path = a.view.path
FileAnswers(a) ==
    /\ fileAsks' = fileAsks \ {a}
    /\ IF StillAsked(a)
       THEN \E v \in {a.view, NoView} : Shows([seen EXCEPT !.view = v, !.viewLoading = FALSE, !.target = IF v = NoView THEN @ ELSE v.target], FALSE)
       ELSE UNCHANGED <<seat, seen, trees, treeAsks>>
    /\ UNCHANGED <<moves, entry, backs>>

\* popstate: of a closeFileView, or of the browser's Back.
Back ==
    /\ entry = "file" /\ entry' = "chat" /\ backs' = 0
    /\ IF seen.path # NoFile THEN Shows(Cleared(seen), FALSE) ELSE UNCHANGED <<seat, seen, trees, treeAsks>>
    /\ UNCHANGED <<fileAsks, moves>>

(***************************************************************************)
(* shell.js, and what api.js brings.                                       *)
(***************************************************************************)
SelectThread(t) ==
    /\ t # seen.thread
    /\ Shows([Left(seen) EXCEPT !.thread = t, !.open = @ /\ t # NoThread, !.files = NoKey, !.loadedKey = NoKey, !.failed = FALSE, !.target = "origin"], FALSE)
    /\ UNCHANGED <<fileAsks, moves, entry, backs>>

\* refreshState after the conversation was moved to another branch.
ThreadMoves(t) ==
    /\ moves < MaxMoves /\ moves' = moves + 1 /\ \E w \in Place \ {seat[t]} : seat' = [seat EXCEPT ![t] = w]
    /\ ShowsIn(seen, seat', FALSE) /\ UNCHANGED <<fileAsks, entry, backs>>

PanelNext ==
    \/ \E a \in treeAsks : TreeAnswers(a)
    \/ \E a \in fileAsks : FileAnswers(a)
    \/ Ticks \/ ToggleFiles \/ CloseColumn \/ CloseFile \/ Back
    \/ \E t \in Target : ChangeTarget(t)
    \/ \E d \in Doc : OpenFile(d)
    \/ \E t \in Thread \cup {NoThread} : SelectThread(t)
    \/ \E t \in Thread : ThreadMoves(t)

PanelSpec == PanelInit /\ [][PanelNext]_panelVars

\* The files and the file shown are those of the conversation that is selected, in
\* the workspace it is in now and against the target that is chosen, whatever was
\* asked before and is answered late: where the column shows none of them, or others,
\* either they failed to load or they are on their way, and so is all that the page
\* says is loading.
Coming == \E a \in treeAsks : a.key = KeyNow
FilesRight ==
    /\ seen.files # NoKey => seen.files.target = seen.target
    /\ seen.open /\ ~seen.failed => seen.files = KeyNow \/ Coming
    /\ seen.loading => Coming
    /\ seen.view # NoView /\ (backs = 0 \/ seen.open) =>
           seen.view = [place |-> KeyNow.place, path |-> seen.path, target |-> KeyNow.target]
    /\ seen.viewLoading => \E a \in fileAsks : a.id = seen.id /\ a.view.path = seen.path
=============================================================================
