----------------------------- MODULE LinkProofs -----------------------------
(***************************************************************************)
(* What is proved of the links between the parts of module Parts, for      *)
(* every value of the constants: of the column of files and what it asks   *)
(* the server, of the workers that the server follows, of the logins it    *)
(* shares with them, of a page that reconnects, and of the profile that a  *)
(* server's sessions get from GitHub; and the types of all parts.          *)
(***************************************************************************)
EXTENDS PartsProofs

(***************************************************************************)
(* The column of files.                                                    *)
(***************************************************************************)

PanelRecord ==
    [thread : Thread \cup {NoThread}, open : BOOLEAN, files : TreeKey, loadedKey : TreeKey, loading : BOOLEAN,
     failed : BOOLEAN, activeKey : TreeKey, askedKey : TreeKey, path : Doc \cup {NoFile}, view : View,
     viewLoading : BOOLEAN, target : Target, id : Nat]

\* Files are of one key; a file that is shown is the one that was opened.
Sane(p) ==
    /\ p.open => p.thread # NoThread
    /\ p.files = p.loadedKey /\ (p.loading => p.open)
    /\ p.files # NoKey => p.files.target = p.target
    /\ p.view # NoView => p.path # NoFile /\ p.view.path = p.path /\ p.view.target = p.target

Asked(p, a) == a.id = p.id /\ p.path = a.view.path
\* What was asked of the server before has an older number, or is what is shown now.
AsksSound(p, asked) ==
    /\ \A a \in asked : /\ a.id \in Nat /\ a.id <= p.id /\ a.view \in View /\ a.view.path \in Doc
                        /\ Asked(p, a) => a.view.target = p.target
    /\ p.viewLoading => \E a \in asked : Asked(p, a)
PlacedIn(p, place, asked) ==
    /\ p.view # NoView => p.view.place = place
    /\ \A a \in asked : Asked(p, a) => a.view.place = place

\* Of a closed column only the way back can still show a file.
PanelInv ==
    /\ seat \in [Thread -> Place] /\ seen \in PanelRecord /\ backs \in {0, 1} /\ entry \in {"chat", "file"}
    /\ Sane(seen) /\ AsksSound(seen, fileAsks)
    /\ seen.open => seen.activeKey = KeyNow /\ PlacedIn(seen, KeyNow.place, fileAsks)
    /\ seen.path # NoFile => seen.open \/ backs = 1
    /\ seen.askedKey # NoKey => \E a \in treeAsks : a.key = seen.askedKey
    /\ FilesRight

LEMMA Keys ==
    ASSUME NEW p \in PanelRecord, NEW w \in [Thread -> Place]
    PROVE  /\ Key(p, w) \in TreeKey
           /\ p.thread # NoThread => /\ Key(p, w) # NoKey /\ Key(p, w).target = p.target
                                     /\ Key(p, w).place = w[p.thread] /\ p.thread \in Thread
           /\ NoView \in View /\ NoKey \in TreeKey
<1>1. NoView \in View /\ NoKey \in TreeKey /\ NoKey.target = "none"
  BY DEF View, TreeKey, NoKey
<1>2. CASE p.thread = NoThread
  BY <1>1, <1>2 DEF Key
<1>3. CASE p.thread # NoThread
  <2>1. p.thread \in Thread /\ w[p.thread] \in Place /\ p.target \in Target
    BY <1>3 DEF PanelRecord
  <2>2. Key(p, w) = [place |-> w[p.thread], target |-> p.target]
    BY <1>3 DEF Key
  <2>3. Key(p, w) \in TreeKey /\ Key(p, w).target = p.target /\ Key(p, w).place = w[p.thread]
    BY <2>1, <2>2 DEF TreeKey
  <2>4. QED
    BY <1>1, <2>1, <2>3 DEF Target
<1>4. QED
  BY <1>2, <1>3

\* ensureFiles
LEMMA Ensuring ==
    ASSUME NEW p \in PanelRecord, NEW key \in TreeKey, NEW force \in BOOLEAN, p.open => p.thread # NoThread
    PROVE  LET q == Ensured(p, key, force) IN
           /\ q \in PanelRecord
           /\ q.thread = p.thread /\ q.open = p.open /\ q.target = p.target /\ q.id = p.id
           /\ ~p.open => q = p
           /\ p.open => /\ q.activeKey = key
                        /\ q.askedKey = key \/ (q.askedKey = p.askedKey /\ q.loadedKey = key /\ ~force)
           /\ q.askedKey \in {p.askedKey, key}
           /\ (q.files = p.files /\ q.loadedKey = p.loadedKey) \/ (q.files = NoKey /\ q.loadedKey = NoKey /\ p.open)
           /\ p.open /\ q.loading => q.askedKey = key \/ (p.loading /\ p.activeKey \in {NoKey, key})
           /\ \/ q.path = p.path /\ q.view = p.view /\ q.viewLoading = p.viewLoading /\ (p.open => p.activeKey \in {NoKey, key})
              \/ q.path = NoFile /\ q.view = NoView /\ ~q.viewLoading
<1>1. NoView \in View /\ NoKey \in TreeKey
  BY DEF View, TreeKey
<1> DEFINE l == Left(p)
           e1 == IF p.activeKey \notin {NoKey, key} THEN l ELSE p
           e == [e1 EXCEPT !.activeKey = key]
           f1 == [e EXCEPT !.askedKey = key]
           f2 == [e EXCEPT !.askedKey = key, !.files = NoKey, !.loadedKey = NoKey, !.failed = FALSE, !.loading = TRUE]
<1>2. /\ l \in PanelRecord /\ l.thread = p.thread /\ l.open = p.open /\ l.target = p.target /\ l.id = p.id
      /\ l.askedKey = p.askedKey /\ l.files = p.files /\ l.loadedKey = p.loadedKey
      /\ ~l.loading /\ l.path = NoFile /\ l.view = NoView /\ ~l.viewLoading
  BY <1>1 DEF Left, PanelRecord
<1> HIDE DEF l
<1>3. /\ e1 \in PanelRecord /\ e1.thread = p.thread /\ e1.open = p.open /\ e1.target = p.target /\ e1.id = p.id
      /\ e1.askedKey = p.askedKey /\ e1.files = p.files /\ e1.loadedKey = p.loadedKey
      /\ e1.loading => p.loading /\ p.activeKey \in {NoKey, key}
      /\ \/ e1.path = p.path /\ e1.view = p.view /\ e1.viewLoading = p.viewLoading /\ p.activeKey \in {NoKey, key}
         \/ e1.path = NoFile /\ e1.view = NoView /\ ~e1.viewLoading
  BY <1>2
<1> HIDE DEF e1
<1>4. /\ e \in PanelRecord /\ e.thread = e1.thread /\ e.open = e1.open /\ e.target = e1.target /\ e.id = e1.id
      /\ e.askedKey = e1.askedKey /\ e.files = e1.files /\ e.loadedKey = e1.loadedKey /\ e.activeKey = key
      /\ e.loading = e1.loading /\ e.path = e1.path /\ e.view = e1.view /\ e.viewLoading = e1.viewLoading
  BY <1>3 DEF PanelRecord
<1>5. Entered(p, key) = e
  BY DEF Entered, e1, l
<1> HIDE DEF e
<1>6. /\ f1 \in PanelRecord /\ f1.thread = e.thread /\ f1.open = e.open /\ f1.target = e.target /\ f1.id = e.id
      /\ f1.askedKey = key /\ f1.files = e.files /\ f1.loadedKey = e.loadedKey /\ f1.activeKey = key
      /\ f1.loading = e.loading /\ f1.path = e.path /\ f1.view = e.view /\ f1.viewLoading = e.viewLoading
  BY <1>4 DEF PanelRecord
<1>7. /\ f2 \in PanelRecord /\ f2.thread = e.thread /\ f2.open = e.open /\ f2.target = e.target /\ f2.id = e.id
      /\ f2.askedKey = key /\ f2.files = NoKey /\ f2.loadedKey = NoKey /\ f2.activeKey = key
      /\ f2.path = e.path /\ f2.view = e.view /\ f2.viewLoading = e.viewLoading
  BY <1>1, <1>4 DEF PanelRecord
<1>8. Fetching(e, key) = IF e.loadedKey = key THEN f1 ELSE f2
  BY DEF Fetching
<1> HIDE DEF f1, f2
<1>9. CASE ~p.open
  BY <1>9 DEF Ensured
<1>10. CASE p.open /\ ~Fetches(p, key, force)
  <2>1. Ensured(p, key, force) = e
    BY <1>5, <1>10 DEF Ensured
  <2>2. p.askedKey = key \/ (p.loadedKey = key /\ ~force)
    BY <1>10 DEF Fetches
  <2>3. QED
    BY <1>3, <1>4, <1>10, <2>1, <2>2
<1>11. CASE p.open /\ Fetches(p, key, force)
  <2>1. Ensured(p, key, force) = IF e.loadedKey = key THEN f1 ELSE f2
    BY <1>5, <1>8, <1>11 DEF Ensured
  <2>2. CASE e.loadedKey = key
    <3>1. Ensured(p, key, force) = f1
      BY <2>1, <2>2
    <3>2. QED
      BY ZenonT(40), <1>3, <1>4, <1>6, <1>11, <3>1
  <2>3. CASE e.loadedKey # key
    <3>1. Ensured(p, key, force) = f2
      BY <2>1, <2>3
    <3>2. QED
      BY <1>3, <1>4, <1>7, <1>11, <3>1
  <2>4. QED
    BY <2>2, <2>3
<1>12. QED
  BY <1>9, <1>10, <1>11

\* store.set with the page p, while the conversations are in the workspaces w.
LEMMA PanelShown ==
    ASSUME PanelInv, NEW p \in PanelRecord, NEW w \in [Thread -> Place], NEW force \in BOOLEAN,
           ShowsIn(p, w, force), seat' = w, backs' \in {0, 1}, entry' \in {"chat", "file"},
           Sane(p), AsksSound(p, fileAsks'), p.askedKey = seen.askedKey,
           p.loading => force \/ p.loadedKey # Key(p, w) \/ (\E a \in treeAsks : a.key = Key(p, w))
                              \/ p.activeKey \notin {NoKey, Key(p, w)},
           p.open /\ p.activeKey \in {NoKey, Key(p, w)} => PlacedIn(p, Key(p, w).place, fileAsks'),
           p.path # NoFile => p.open \/ backs' = 1
    PROVE  PanelInv'
<1> DEFINE key == Key(p, w)
<1>1. PICK q \in {Ensured(p, key, force)} :
        /\ seen' = q
        /\ IF q.askedKey # seen.askedKey
           THEN /\ trees < MaxTrees /\ trees' = trees + 1
                /\ treeAsks' = treeAsks \cup {[n |-> trees + 1, key |-> key]}
           ELSE UNCHANGED <<trees, treeAsks>>
  BY DEF ShowsIn, Ensures
<1>2. /\ key \in TreeKey /\ NoView \in View /\ NoKey \in TreeKey
      /\ p.open => key # NoKey /\ key.target = p.target /\ key.place = w[p.thread]
  BY Keys DEF Sane
<1>3. /\ q \in PanelRecord
      /\ q.thread = p.thread /\ q.open = p.open /\ q.target = p.target /\ q.id = p.id
      /\ ~p.open => q = p
      /\ p.open => /\ q.activeKey = key
                   /\ q.askedKey = key \/ (q.askedKey = p.askedKey /\ q.loadedKey = key /\ ~force)
      /\ q.askedKey \in {p.askedKey, key}
      /\ (q.files = p.files /\ q.loadedKey = p.loadedKey) \/ (q.files = NoKey /\ q.loadedKey = NoKey /\ p.open)
      /\ p.open /\ q.loading => q.askedKey = key \/ (p.loading /\ p.activeKey \in {NoKey, key})
      /\ \/ q.path = p.path /\ q.view = p.view /\ q.viewLoading = p.viewLoading /\ (p.open => p.activeKey \in {NoKey, key})
         \/ q.path = NoFile /\ q.view = NoView /\ ~q.viewLoading
  BY <1>1, <1>2, Ensuring DEF Sane
<1>4. KeyNow' = key
  BY <1>1, <1>3 DEF KeyNow, Key
<1>5. (q.askedKey = key => key = NoKey \/ (\E a \in treeAsks' : a.key = key)) /\ treeAsks \subseteq treeAsks'
  <2>1. CASE q.askedKey # seen.askedKey
    <3>1. treeAsks' = treeAsks \cup {[n |-> trees + 1, key |-> key]}
      BY <1>1, <2>1
    <3>2. [n |-> trees + 1, key |-> key] \in treeAsks' /\ [n |-> trees + 1, key |-> key].key = key
      BY <3>1
    <3>3. QED
      BY <3>1, <3>2
  <2>2. CASE q.askedKey = seen.askedKey
    BY <1>1, <2>2 DEF PanelInv
  <2>3. QED
    BY <2>1, <2>2
<1>6. q.askedKey # NoKey => \E a \in treeAsks' : a.key = q.askedKey
  BY <1>3, <1>5 DEF PanelInv
<1> HIDE DEF key
<1>7. Sane(q)
  BY <1>2, <1>3 DEF Sane
<1>8. AsksSound(q, fileAsks')
  <2>1. CASE q.path = p.path /\ q.viewLoading = p.viewLoading
    BY <1>3, <2>1 DEF AsksSound, Asked
  <2>2. CASE q.path = NoFile /\ ~q.viewLoading
    BY <1>3, <2>2, FilePanelAssumption DEF AsksSound, Asked
  <2>3. QED
    BY <1>3, <2>1, <2>2
<1>9. q.open => q.activeKey = key /\ PlacedIn(q, key.place, fileAsks')
  <2> SUFFICES ASSUME q.open PROVE q.activeKey = key /\ PlacedIn(q, key.place, fileAsks')
    OBVIOUS
  <2>1. CASE q.path = p.path /\ q.view = p.view /\ p.activeKey \in {NoKey, key}
    BY <1>3, <2>1 DEF PlacedIn, Asked, key
  <2>2. CASE q.path = NoFile /\ q.view = NoView
    <3>1. \A a \in fileAsks' : a.view.path # NoFile
      BY FilePanelAssumption DEF AsksSound
    <3>2. QED
      BY <1>3, <2>2, <3>1 DEF PlacedIn, Asked
  <2>3. QED
    BY <1>3, <2>1, <2>2
<1>10. q.path # NoFile => q.open \/ backs' = 1
  BY <1>3
<1>11. q.loading => \E a \in treeAsks' : a.key = key
  <2> SUFFICES ASSUME q.loading PROVE \E a \in treeAsks' : a.key = key
    OBVIOUS
  <2>1. q.open /\ p.open /\ key # NoKey
    BY <1>2, <1>3, <1>7 DEF Sane
  <2>2. CASE q.askedKey = key
    BY <1>5, <2>1, <2>2
  <2>3. CASE q.askedKey # key
    <3>1. p.loading /\ p.activeKey \in {NoKey, key} /\ q.loadedKey = key /\ ~force
      BY <1>3, <2>1, <2>3
    <3>2. p.loadedKey = key
      BY <1>3, <2>1, <3>1
    <3>3. \E a \in treeAsks : a.key = key
      BY <3>1, <3>2 DEF key
    <3>4. QED
      BY <1>5, <3>3
  <2>4. QED
    BY <2>2, <2>3
<1>12. q.open => q.files = key \/ \E a \in treeAsks' : a.key = key
  BY <1>2, <1>3, <1>5, <1>7 DEF Sane
<1>13. q.view # NoView /\ (backs' = 0 \/ q.open) => q.view = [place |-> key.place, path |-> q.path, target |-> key.target]
  <2> SUFFICES ASSUME q.view # NoView, backs' = 0 \/ q.open
               PROVE  q.view = [place |-> key.place, path |-> q.path, target |-> key.target]
    OBVIOUS
  <2>1. q.open
    BY <1>7, <1>10 DEF Sane
  <2>2. q.view.place = key.place /\ q.view.path = q.path /\ q.view.target = key.target
    BY <1>2, <1>3, <1>7, <1>9, <2>1 DEF Sane, PlacedIn
  <2>3. q.view \in [place : Place, path : Doc, target : Target]
    BY <1>3 DEF PanelRecord, View
  <2>4. QED
    BY <2>2, <2>3
<1>14. FilesRight'
  <2>1. q.viewLoading => \E a \in fileAsks' : a.id = q.id /\ a.view.path = q.path
    BY <1>8 DEF AsksSound, Asked
  <2>2. QED
    BY <1>1, <1>4, <1>7, <1>11, <1>12, <1>13, <2>1 DEF FilesRight, Coming, Sane
<1>15. QED
  BY <1>1, <1>3, <1>4, <1>6, <1>7, <1>8, <1>9, <1>10, <1>14 DEF PanelInv

LEMMA PanelStarts == PanelInit => PanelInv
<1> SUFFICES ASSUME PanelInit PROVE PanelInv
  OBVIOUS
<1>1. NoView \in View /\ NoKey \in TreeKey
  BY DEF View, TreeKey
<1>2. Bare \in PanelRecord
  BY <1>1 DEF Bare, PanelRecord, Target
<1>3. seat \in [Thread -> Place] /\ seen = Bare /\ backs = 0 /\ entry = "chat" /\ fileAsks = {}
  BY DEF PanelInit
<1>4. Sane(seen) /\ AsksSound(seen, fileAsks) /\ FilesRight
  BY <1>3 DEF Bare, Sane, AsksSound, FilesRight
<1>5. QED
  BY <1>2, <1>3, <1>4 DEF PanelInv, Bare

\* closeFileView
LEMMA ClosingOf ==
    ASSUME PanelInv
    PROVE  /\ Closing \in PanelRecord
           /\ Closing.thread = seen.thread /\ Closing.open = seen.open /\ Closing.files = seen.files
           /\ Closing.loadedKey = seen.loadedKey /\ Closing.loading = seen.loading /\ Closing.activeKey = seen.activeKey
           /\ Closing.askedKey = seen.askedKey /\ Closing.target = seen.target
           /\ \/ Closing = seen /\ (seen.path # NoFile => GoesBack)
              \/ /\ Closing.path = NoFile /\ Closing.view = NoView /\ ~Closing.viewLoading
                 /\ Closing.id = seen.id + 1
<1>1. NoView \in View /\ seen \in PanelRecord
  BY DEF View, PanelInv
<1> DEFINE c == Cleared(seen)
           n == seen.id + 1
<1>1a. n \in Nat
  BY <1>1 DEF PanelRecord
<1>1b. c = [seen EXCEPT !.path = NoFile, !.view = NoView, !.viewLoading = FALSE, !.id = n]
  BY DEF Cleared
<1> HIDE DEF n
<1>2. /\ c \in PanelRecord
      /\ c.thread = seen.thread /\ c.open = seen.open /\ c.files = seen.files /\ c.loadedKey = seen.loadedKey
      /\ c.loading = seen.loading /\ c.activeKey = seen.activeKey /\ c.askedKey = seen.askedKey /\ c.target = seen.target
      /\ c.path = NoFile /\ c.view = NoView /\ ~c.viewLoading /\ c.id = n
  BY <1>1, <1>1a, <1>1b DEF PanelRecord
<1> HIDE DEF c
<1>3. Closing = IF seen.path # NoFile /\ entry = "chat" THEN c ELSE seen
  BY DEF Closing, c
<1>4. CASE seen.path # NoFile /\ entry = "chat"
  BY <1>2, <1>3, <1>4 DEF n
<1>5. CASE ~(seen.path # NoFile /\ entry = "chat")
  BY <1>1, <1>3, <1>5 DEF GoesBack, PanelInv
<1>6. QED
  BY <1>4, <1>5

\* A page that shows no file and waits for none.
LEMMA Closed ==
    ASSUME PanelInv, NEW p \in PanelRecord, p.path = NoFile, p.view = NoView, ~p.viewLoading, p.id >= seen.id,
           fileAsks' = fileAsks
    PROVE  AsksSound(p, fileAsks') /\ \A place : PlacedIn(p, place, fileAsks')
<1>1. seen.id \in Nat /\ p.id \in Nat /\ NoFile \notin Doc
  BY FilePanelAssumption DEF PanelInv, PanelRecord
<1>2. QED
  BY <1>1 DEF PanelInv, AsksSound, PlacedIn, Asked

LEMMA LeavesThePage ==
    ASSUME NEW p \in PanelRecord
    PROVE  /\ Left(p) \in PanelRecord
           /\ Left(p).thread = p.thread /\ Left(p).open = p.open /\ Left(p).files = p.files
           /\ Left(p).loadedKey = p.loadedKey /\ Left(p).askedKey = p.askedKey /\ Left(p).target = p.target
           /\ Left(p).activeKey = p.activeKey /\ Left(p).id = p.id /\ ~Left(p).loading
           /\ Left(p).path = NoFile /\ Left(p).view = NoView /\ ~Left(p).viewLoading
<1>1. NoView \in View
  BY DEF View
<1>2. QED
  BY <1>1 DEF Left, PanelRecord

LEMMA PanelStep == PanelInv /\ [PanelNext]_panelVars => PanelInv'
<1> SUFFICES ASSUME PanelInv, [PanelNext]_panelVars PROVE PanelInv'
  OBVIOUS
<1>1. /\ seen \in PanelRecord /\ seat \in [Thread -> Place] /\ backs \in {0, 1} /\ entry \in {"chat", "file"}
      /\ NoView \in View /\ NoKey \in TreeKey /\ NoFile \notin Doc
  BY FilePanelAssumption DEF PanelInv, View, TreeKey
<1>2. /\ KeyNow \in TreeKey
      /\ seen.thread # NoThread => /\ KeyNow # NoKey /\ KeyNow.target = seen.target
                                   /\ KeyNow.place = seat[seen.thread] /\ seen.thread \in Thread
  BY <1>1, Keys DEF KeyNow
<1>3. \A p \in PanelRecord : p.thread = seen.thread /\ p.target = seen.target => Key(p, seat) = KeyNow
  BY DEF Key, KeyNow
<1>4. seen.loading => seen.open /\ \E a \in treeAsks : a.key = KeyNow
  BY DEF PanelInv, FilesRight, Coming, Sane
<1>5. CASE UNCHANGED panelVars
  BY <1>5 DEF panelVars, PanelInv, FilesRight, Coming, KeyNow, Key
<1>6. CASE \E a \in treeAsks : TreeAnswers(a)
  <2>1. PICK a \in treeAsks : TreeAnswers(a)
    BY <1>6
  <2>2. PICK p \in {TreeOf(a), NoTreeOf(a)} : seen' = [p EXCEPT !.askedKey = IF @ = a.key THEN NoKey ELSE @]
    BY <2>1 DEF TreeAnswers
  <2>3. /\ treeAsks' = treeAsks \ {a}
        /\ UNCHANGED <<seat, fileAsks, trees, moves, entry, backs>>
    BY <2>1 DEF TreeAnswers
  <2>4. /\ p \in PanelRecord
        /\ p.thread = seen.thread /\ p.open = seen.open /\ p.target = seen.target /\ p.id = seen.id
        /\ p.activeKey = seen.activeKey /\ p.askedKey = seen.askedKey
        /\ p.path = seen.path /\ p.view = seen.view /\ p.viewLoading = seen.viewLoading
        /\ \/ /\ a.key = KeyNow /\ ~p.loading
              /\ \/ p.files = KeyNow /\ p.loadedKey = KeyNow
                 \/ p.failed /\ p.files = seen.files /\ p.loadedKey = seen.loadedKey
           \/ a.key # KeyNow /\ p = seen
    <3>1. CASE a.key = KeyNow
      <4>1. CASE p = TreeOf(a)
        BY <1>1, <1>2, <3>1, <4>1 DEF TreeOf, Current, PanelRecord
      <4>2. CASE p = NoTreeOf(a)
        BY <1>1, <1>2, <3>1, <4>2 DEF NoTreeOf, Current, PanelRecord
      <4>3. QED
        BY <4>1, <4>2
    <3>2. CASE a.key # KeyNow
      BY <1>1, <3>2 DEF TreeOf, NoTreeOf, Current
    <3>3. QED
      BY <3>1, <3>2
  <2> HIDE DEF TreeOf, NoTreeOf
  <2>5. /\ seen' \in PanelRecord
        /\ seen'.thread = p.thread /\ seen'.open = p.open /\ seen'.target = p.target /\ seen'.id = p.id
        /\ seen'.activeKey = p.activeKey /\ seen'.files = p.files /\ seen'.loadedKey = p.loadedKey
        /\ seen'.loading = p.loading /\ seen'.failed = p.failed
        /\ seen'.path = p.path /\ seen'.view = p.view /\ seen'.viewLoading = p.viewLoading
        /\ seen'.askedKey = IF p.askedKey = a.key THEN NoKey ELSE p.askedKey
    BY <1>1, <2>2, <2>4 DEF PanelRecord
  <2>6. KeyNow' = KeyNow
    BY <2>3, <2>4, <2>5 DEF KeyNow, Key
  <2>7. seen'.askedKey # NoKey => \E b \in treeAsks' : b.key = seen'.askedKey
    BY <2>3, <2>4, <2>5 DEF PanelInv
  <2>8. Sane(seen') /\ AsksSound(seen', fileAsks')
    BY <1>2, <2>3, <2>4, <2>5 DEF PanelInv, Sane, AsksSound, Asked, Key, KeyNow
  <2>9. /\ seen'.open => seen'.activeKey = KeyNow' /\ PlacedIn(seen', KeyNow'.place, fileAsks')
        /\ seen'.path # NoFile => seen'.open \/ backs' = 1
    BY <2>3, <2>4, <2>5, <2>6 DEF PanelInv, PlacedIn, Asked
  <2>10. a.key # KeyNow => (Coming => Coming') /\ seen'.loading = seen.loading /\ seen'.failed = seen.failed /\ seen'.files = seen.files
    BY <2>3, <2>4, <2>5, <2>6 DEF Coming
  <2>11. FilesRight'
    BY <2>3, <2>4, <2>5, <2>6, <2>8, <2>10 DEF PanelInv, FilesRight, Sane
  <2>12. QED
    BY <1>1, <2>3, <2>5, <2>7, <2>8, <2>9, <2>11 DEF PanelInv
<1>7. CASE \E a \in fileAsks : FileAnswers(a)
  <2>1. PICK a \in fileAsks : FileAnswers(a)
    BY <1>7
  <2>2. fileAsks' = fileAsks \ {a} /\ UNCHANGED <<moves, entry, backs>>
    BY <2>1 DEF FileAnswers
  <2>3. CASE StillAsked(a)
    <3>1. PICK v \in {a.view, NoView} :
            Shows([seen EXCEPT !.view = v, !.viewLoading = FALSE, !.target = IF v = NoView THEN @ ELSE v.target], FALSE)
      BY <2>1, <2>3 DEF FileAnswers
    <3> DEFINE p == [seen EXCEPT !.view = v, !.viewLoading = FALSE, !.target = IF v = NoView THEN @ ELSE v.target]
    <3>2. a.view \in View /\ a.view.path \in Doc /\ a.view.target = seen.target /\ a.view.path = seen.path /\ a.id = seen.id
      BY <2>3 DEF PanelInv, AsksSound, Asked, StillAsked
    <3>3. /\ p \in PanelRecord
          /\ p.thread = seen.thread /\ p.open = seen.open /\ p.target = seen.target /\ p.id = seen.id
          /\ p.activeKey = seen.activeKey /\ p.askedKey = seen.askedKey /\ p.path = seen.path /\ p.files = seen.files
          /\ p.loadedKey = seen.loadedKey /\ p.loading = seen.loading /\ p.view = v /\ ~p.viewLoading
      <4>1. (IF v = NoView THEN seen.target ELSE v.target) = seen.target
        BY <3>2
      <4>2. QED
        BY <1>1, <3>2, <4>1 DEF PanelRecord
    <3>4. ShowsIn(p, seat, FALSE) /\ seat' = seat
      BY <3>1 DEF Shows
    <3> HIDE DEF p
    <3>5. Sane(p)
      BY <1>1, <3>2, <3>3 DEF Sane, PanelInv
    <3>6. AsksSound(p, fileAsks')
      BY <2>2, <3>3 DEF AsksSound, Asked, PanelInv
    <3>7. Key(p, seat) = KeyNow
      BY <1>3, <3>3
    <3>8. p.open => PlacedIn(p, Key(p, seat).place, fileAsks')
      BY <2>2, <2>3, <3>2, <3>3, <3>7 DEF PlacedIn, Asked, PanelInv
    <3>9. p.path # NoFile => p.open \/ backs' = 1
      BY <2>2, <3>3 DEF PanelInv
    <3>10. QED
      BY <1>1, <1>4, <2>2, <3>3, <3>4, <3>5, <3>6, <3>7, <3>8, <3>9, PanelShown
  <2>4. CASE ~StillAsked(a)
    <3>1. UNCHANGED <<seat, seen, trees, treeAsks>>
      BY <2>1, <2>4 DEF FileAnswers
    <3>2. AsksSound(seen, fileAsks')
      BY <2>2, <2>4 DEF PanelInv, AsksSound, Asked, StillAsked
    <3>3. seen.open => PlacedIn(seen, KeyNow.place, fileAsks')
      BY <2>2 DEF PanelInv, PlacedIn
    <3>4. KeyNow' = KeyNow /\ Coming' = Coming
      BY <3>1 DEF KeyNow, Key, Coming
    <3>5. seen.viewLoading => \E b \in fileAsks' : b.id = seen.id /\ b.view.path = seen.path
      BY <3>2 DEF AsksSound, Asked
    <3>6. FilesRight'
      BY <2>2, <3>1, <3>4, <3>5 DEF PanelInv, FilesRight
    <3>7. QED
      BY <2>2, <3>1, <3>2, <3>3, <3>4, <3>6 DEF PanelInv
  <2>5. QED
    BY <2>3, <2>4
<1>8. CASE Ticks
  <2>1. ShowsIn(seen, seat, TRUE) /\ seat' = seat /\ UNCHANGED <<fileAsks, moves, entry, backs>>
    BY <1>8 DEF Ticks, Shows
  <2>2. /\ Sane(seen) /\ AsksSound(seen, fileAsks')
        /\ seen.open => PlacedIn(seen, Key(seen, seat).place, fileAsks')
        /\ seen.path # NoFile => seen.open \/ backs' = 1
    BY <1>3, <2>1 DEF PanelInv, KeyNow
  <2>3. QED
    BY <1>1, <2>1, <2>2, PanelShown
<1>9. CASE ToggleFiles
  <2> DEFINE l == Left(Closing)
             b == ~seen.open /\ seen.loadedKey # KeyNow
             p == [l EXCEPT !.open = ~@, !.failed = FALSE, !.loading = b]
  <2>1. /\ ShowsIn(p, seat, ~seen.open) /\ seat' = seat /\ UNCHANGED <<fileAsks, moves, entry>>
        /\ ClosesFile /\ backs = 0 /\ seen.thread # NoThread
    BY <1>9 DEF ToggleFiles, Shows
  <2>2. /\ l \in PanelRecord
        /\ l.thread = seen.thread /\ l.open = seen.open /\ l.files = seen.files /\ l.loadedKey = seen.loadedKey
        /\ l.askedKey = seen.askedKey /\ l.target = seen.target /\ l.activeKey = seen.activeKey /\ ~l.loading
        /\ l.path = NoFile /\ l.view = NoView /\ ~l.viewLoading /\ l.id >= seen.id
    BY ClosingOf, LeavesThePage DEF PanelInv, PanelRecord
  <2>3. seen.open \in BOOLEAN /\ b \in BOOLEAN /\ (b => ~seen.open)
    BY <1>1 DEF PanelRecord
  <2> HIDE DEF l, b
  <2>4. /\ p \in PanelRecord
        /\ p.thread = l.thread /\ p.open = ~l.open /\ p.target = l.target /\ p.id = l.id
        /\ p.activeKey = l.activeKey /\ p.askedKey = l.askedKey /\ p.path = l.path /\ p.files = l.files
        /\ p.loadedKey = l.loadedKey /\ p.loading = b /\ p.view = l.view /\ p.viewLoading = l.viewLoading
    BY <2>2, <2>3 DEF PanelRecord
  <2> HIDE DEF p
  <2>5. Sane(p)
    BY <2>1, <2>2, <2>3, <2>4 DEF Sane, PanelInv
  <2>6. AsksSound(p, fileAsks') /\ \A place : PlacedIn(p, place, fileAsks')
    BY <2>1, <2>2, <2>4, Closed
  <2>7. backs' \in {0, 1}
    BY <2>1 DEF ClosesFile
  <2>8. p.loading => ~seen.open
    BY <2>3, <2>4
  <2>9. QED
    BY <1>1, <2>1, <2>2, <2>3, <2>4, <2>5, <2>6, <2>7, <2>8, PanelShown
<1>10. CASE CloseColumn
  <2> DEFINE c == Closing
             p == [c EXCEPT !.open = FALSE, !.loading = FALSE, !.failed = FALSE]
  <2>1. /\ ShowsIn(p, seat, FALSE) /\ seat' = seat /\ UNCHANGED <<fileAsks, moves, entry>>
        /\ ClosesFile /\ backs = 0
    BY <1>10 DEF CloseColumn, Shows
  <2>2. /\ c \in PanelRecord /\ c.thread = seen.thread /\ c.files = seen.files /\ c.loadedKey = seen.loadedKey
        /\ c.askedKey = seen.askedKey /\ c.target = seen.target /\ c.activeKey = seen.activeKey
        /\ \/ c = seen /\ (seen.path # NoFile => GoesBack)
           \/ c.path = NoFile /\ c.view = NoView /\ ~c.viewLoading /\ c.id = seen.id + 1
    BY ClosingOf
  <2> HIDE DEF c
  <2>3. /\ p \in PanelRecord
        /\ p.thread = c.thread /\ ~p.open /\ p.target = c.target /\ p.id = c.id
        /\ p.activeKey = c.activeKey /\ p.askedKey = c.askedKey /\ p.path = c.path /\ p.files = c.files
        /\ p.loadedKey = c.loadedKey /\ ~p.loading /\ p.view = c.view /\ p.viewLoading = c.viewLoading
    BY <2>2 DEF PanelRecord
  <2> HIDE DEF p
  <2>4. Sane(p)
    BY <2>2, <2>3 DEF Sane, PanelInv
  <2>5. AsksSound(p, fileAsks')
    <3>1. CASE c = seen
      BY <2>1, <2>3, <3>1 DEF AsksSound, Asked, PanelInv
    <3>2. CASE c.path = NoFile /\ c.view = NoView /\ ~c.viewLoading /\ c.id = seen.id + 1
      <4>1. p.id >= seen.id
        BY <1>1, <2>3, <3>2 DEF PanelRecord
      <4>2. QED
        BY <2>1, <2>3, <3>2, <4>1, Closed
    <3>3. QED
      BY <2>2, <3>1, <3>2
  <2>6. backs' \in {0, 1} /\ (p.path # NoFile => backs' = 1)
    BY <2>1, <2>2, <2>3 DEF ClosesFile
  <2>7. QED
    BY <1>1, <2>1, <2>2, <2>3, <2>4, <2>5, <2>6, PanelShown
<1>11. CASE CloseFile
  <2> DEFINE c == Closing
  <2>1. /\ ShowsIn(c, seat, FALSE) /\ seat' = seat /\ UNCHANGED <<fileAsks, moves, entry>>
        /\ ClosesFile /\ backs = 0
    BY <1>11 DEF CloseFile, Shows
  <2>2. /\ c \in PanelRecord /\ c.thread = seen.thread /\ c.open = seen.open /\ c.files = seen.files
        /\ c.loadedKey = seen.loadedKey /\ c.loading = seen.loading
        /\ c.askedKey = seen.askedKey /\ c.target = seen.target /\ c.activeKey = seen.activeKey
        /\ \/ c = seen /\ (seen.path # NoFile => GoesBack)
           \/ c.path = NoFile /\ c.view = NoView /\ ~c.viewLoading /\ c.id = seen.id + 1
    BY ClosingOf
  <2> HIDE DEF c
  <2>3. Sane(c)
    BY <2>2 DEF Sane, PanelInv
  <2>4. Key(c, seat) = KeyNow
    BY <1>3, <2>2
  <2>5. AsksSound(c, fileAsks') /\ (c.open => PlacedIn(c, KeyNow.place, fileAsks'))
    <3>1. CASE c = seen
      BY <2>1, <3>1 DEF PanelInv
    <3>2. CASE c.path = NoFile /\ c.view = NoView /\ ~c.viewLoading /\ c.id = seen.id + 1
      <4>1. c.id >= seen.id
        BY <1>1, <3>2 DEF PanelRecord
      <4>2. QED
        BY <2>1, <2>2, <3>2, <4>1, Closed
    <3>3. QED
      BY <2>2, <3>1, <3>2
  <2>6. backs' \in {0, 1} /\ (c.path # NoFile => backs' = 1)
    BY <2>1, <2>2 DEF ClosesFile
  <2>7. QED
    BY <1>1, <1>4, <2>1, <2>2, <2>3, <2>4, <2>5, <2>6, PanelShown
<1>12. CASE Back
  <2>1. entry' = "chat" /\ backs' = 0 /\ UNCHANGED <<fileAsks, moves>>
    BY <1>12 DEF Back
  <2>2. CASE seen.path # NoFile
    <3> DEFINE p == Cleared(seen)
               n == seen.id + 1
    <3>1. ShowsIn(p, seat, FALSE) /\ seat' = seat
      BY <1>12, <2>2 DEF Back, Shows
    <3>1a. n \in Nat /\ n >= seen.id
      BY <1>1 DEF PanelRecord
    <3>1b. p = [seen EXCEPT !.path = NoFile, !.view = NoView, !.viewLoading = FALSE, !.id = n]
      BY DEF Cleared
    <3> HIDE DEF n
    <3>2. /\ p \in PanelRecord
          /\ p.thread = seen.thread /\ p.open = seen.open /\ p.target = seen.target
          /\ p.activeKey = seen.activeKey /\ p.askedKey = seen.askedKey /\ p.files = seen.files
          /\ p.loadedKey = seen.loadedKey /\ p.loading = seen.loading
          /\ p.path = NoFile /\ p.view = NoView /\ ~p.viewLoading /\ p.id >= seen.id
      BY <1>1, <3>1a, <3>1b DEF PanelRecord
    <3> HIDE DEF p
    <3>3. Sane(p)
      BY <3>2 DEF Sane, PanelInv
    <3>4. Key(p, seat) = KeyNow
      BY <1>3, <3>2
    <3>5. AsksSound(p, fileAsks') /\ \A place : PlacedIn(p, place, fileAsks')
      BY <2>1, <3>2, Closed
    <3>6. QED
      BY <1>1, <1>4, <2>1, <3>1, <3>2, <3>3, <3>4, <3>5, PanelShown
  <2>3. CASE seen.path = NoFile
    <3>1. UNCHANGED <<seat, seen, trees, treeAsks>>
      BY <1>12, <2>3 DEF Back
    <3>2. seen.view = NoView
      BY <2>3 DEF PanelInv, Sane
    <3>3. KeyNow' = KeyNow /\ Coming' = Coming
      BY <3>1 DEF KeyNow, Key, Coming
    <3>4. FilesRight'
      BY <2>1, <3>1, <3>2, <3>3 DEF PanelInv, FilesRight
    <3>5. QED
      BY <2>1, <2>3, <3>1, <3>3, <3>4 DEF PanelInv
  <2>4. QED
    BY <2>2, <2>3
<1>13. CASE \E t \in Target : ChangeTarget(t)
  <2>1. PICK t \in Target : ChangeTarget(t)
    BY <1>13
  <2> DEFINE l == Left(Closing)
             n == l.id + 1
             p == [l EXCEPT !.target = t, !.files = NoKey, !.loadedKey = NoKey, !.loading = TRUE, !.failed = FALSE, !.id = n]
  <2>2. /\ ShowsIn(p, seat, FALSE) /\ seat' = seat /\ UNCHANGED <<fileAsks, moves, entry>>
        /\ ClosesFile /\ backs = 0 /\ seen.open /\ seen.thread # NoThread
    BY <2>1 DEF ChangeTarget, Shows
  <2>3. /\ l \in PanelRecord /\ l.thread = seen.thread /\ l.open = seen.open
        /\ l.askedKey = seen.askedKey /\ l.activeKey = seen.activeKey
        /\ l.path = NoFile /\ l.view = NoView /\ ~l.viewLoading /\ l.id >= seen.id /\ l.id \in Nat /\ seen.id \in Nat
    BY ClosingOf, LeavesThePage DEF PanelInv, PanelRecord
  <2>3a. n \in Nat /\ n >= seen.id
    BY <2>3
  <2> HIDE DEF l, n
  <2>4. /\ p \in PanelRecord
        /\ p.thread = l.thread /\ p.open = l.open /\ p.target = t /\ p.id = n
        /\ p.activeKey = l.activeKey /\ p.askedKey = l.askedKey /\ p.path = l.path /\ p.files = NoKey
        /\ p.loadedKey = NoKey /\ p.loading /\ p.view = l.view /\ p.viewLoading = l.viewLoading
    BY <1>1, <2>3, <2>3a DEF PanelRecord
  <2> HIDE DEF p
  <2>5. Sane(p)
    BY <2>2, <2>3, <2>4 DEF Sane
  <2>6. p.id >= seen.id
    BY <2>4, <2>3a
  <2>7. AsksSound(p, fileAsks') /\ \A place : PlacedIn(p, place, fileAsks')
    BY <2>2, <2>3, <2>4, <2>6, Closed
  <2>8. p.loadedKey # Key(p, seat)
    BY <1>1, <2>2, <2>3, <2>4, Keys
  <2>9. backs' \in {0, 1}
    BY <2>2 DEF ClosesFile
  <2>10. QED
    BY <1>1, <2>2, <2>3, <2>4, <2>5, <2>7, <2>8, <2>9, PanelShown
<1>14. CASE \E d \in Doc : OpenFile(d)
  <2>1. PICK d \in Doc : OpenFile(d)
    BY <1>14
  <2> DEFINE i == seen.id + 1
             p == [seen EXCEPT !.path = d, !.view = NoView, !.viewLoading = TRUE, !.id = i]
             v == [place |-> seat[seen.thread], path |-> d, target |-> seen.target]
             n == [id |-> i, view |-> v]
  <2>2. /\ ShowsIn(p, seat, FALSE) /\ seat' = seat /\ fileAsks' = fileAsks \cup {n} /\ entry' = "file"
        /\ UNCHANGED <<moves, backs>> /\ seen.open /\ seen.thread # NoThread
    BY <2>1 DEF OpenFile, Shows
  <2>2a. i \in Nat /\ i = seen.id + 1
    BY <1>1 DEF PanelRecord
  <2> HIDE DEF i
  <2>3. /\ p \in PanelRecord
        /\ p.thread = seen.thread /\ p.open = seen.open /\ p.target = seen.target /\ p.id = i
        /\ p.activeKey = seen.activeKey /\ p.askedKey = seen.askedKey /\ p.path = d /\ p.files = seen.files
        /\ p.loadedKey = seen.loadedKey /\ p.loading = seen.loading /\ p.view = NoView /\ p.viewLoading
    BY <1>1, <2>2a DEF PanelRecord
  <2>4. v \in View /\ v.path = d /\ v.target = seen.target /\ v.place = KeyNow.place
    <3>1. seat[seen.thread] \in Place /\ seen.target \in Target
      BY <1>1, <1>2, <2>2 DEF PanelRecord
    <3>2. QED
      BY <1>2, <2>2, <3>1 DEF View
  <2>5. n.id = p.id /\ n.view = v /\ seen.id \in Nat
    BY <1>1, <2>3 DEF PanelRecord
  <2> HIDE DEF p, v, n
  <2>6. Sane(p)
    BY <2>3 DEF Sane, PanelInv
  <2>7. Key(p, seat) = KeyNow
    BY <1>3, <2>3
  <2>8. \A a \in fileAsks : a.id \in Nat /\ a.id <= seen.id /\ a.view \in View /\ a.view.path \in Doc /\ ~Asked(p, a)
    BY <2>3, <2>5, <2>2a DEF PanelInv, AsksSound, Asked
  <2>9. Asked(p, n)
    BY <2>3, <2>4, <2>5 DEF Asked
  <2>10. AsksSound(p, fileAsks')
    <3>1. \A a \in fileAsks' : a.id \in Nat /\ a.id <= p.id /\ a.view \in View /\ a.view.path \in Doc
      BY <2>2, <2>3, <2>4, <2>5, <2>8, <2>2a
    <3>2. \A a \in fileAsks' : Asked(p, a) => a.view.target = p.target
      BY <2>2, <2>3, <2>4, <2>5, <2>8
    <3>3. QED
      BY <2>2, <2>9, <3>1, <3>2 DEF AsksSound
  <2>11. PlacedIn(p, KeyNow.place, fileAsks')
    BY <2>2, <2>3, <2>4, <2>5, <2>8 DEF PlacedIn
  <2>12. QED
    BY <1>1, <1>4, <2>2, <2>3, <2>6, <2>7, <2>10, <2>11, PanelShown
<1>15. CASE \E t \in Thread \cup {NoThread} : SelectThread(t)
  <2>1. PICK t \in Thread \cup {NoThread} : SelectThread(t)
    BY <1>15
  <2> DEFINE l == Left(seen)
             b == seen.open /\ t # NoThread
             p == [l EXCEPT !.thread = t, !.open = b, !.files = NoKey, !.loadedKey = NoKey, !.failed = FALSE, !.target = "origin"]
  <2>2. /\ l \in PanelRecord /\ l.open = seen.open
        /\ l.askedKey = seen.askedKey /\ l.activeKey = seen.activeKey /\ ~l.loading
        /\ l.path = NoFile /\ l.view = NoView /\ ~l.viewLoading /\ l.id = seen.id
    BY <1>1, LeavesThePage
  <2>3. b \in BOOLEAN /\ (b => t # NoThread)
    BY <1>1 DEF PanelRecord
  <2> HIDE DEF l
  <2>4. [l EXCEPT !.thread = t, !.open = @ /\ t # NoThread, !.files = NoKey, !.loadedKey = NoKey, !.failed = FALSE, !.target = "origin"] = p
    BY <2>2
  <2>5. ShowsIn(p, seat, FALSE) /\ seat' = seat /\ UNCHANGED <<fileAsks, moves, entry, backs>>
    BY <2>1, <2>4 DEF SelectThread, Shows, l
  <2> HIDE DEF b
  <2>6. /\ p \in PanelRecord
        /\ p.thread = t /\ p.open = b /\ p.target = "origin" /\ p.id = l.id
        /\ p.activeKey = l.activeKey /\ p.askedKey = l.askedKey /\ p.path = l.path /\ p.files = NoKey
        /\ p.loadedKey = NoKey /\ p.loading = l.loading /\ p.view = l.view /\ p.viewLoading = l.viewLoading
    BY <1>1, <2>2, <2>3 DEF PanelRecord, Target
  <2> HIDE DEF p
  <2>7. Sane(p)
    BY <2>2, <2>3, <2>6 DEF Sane
  <2>8. AsksSound(p, fileAsks') /\ \A place : PlacedIn(p, place, fileAsks')
    <3>1. p.id >= seen.id
      BY <1>1, <2>2, <2>6 DEF PanelRecord
    <3>2. QED
      BY <2>2, <2>5, <2>6, <3>1, Closed
  <2>9. QED
    BY <1>1, <2>2, <2>5, <2>6, <2>7, <2>8, PanelShown
<1>16. CASE \E t \in Thread : ThreadMoves(t)
  <2>1. PICK t \in Thread : ThreadMoves(t)
    BY <1>16
  <2>2. PICK w \in Place : seat' = [seat EXCEPT ![t] = w]
    BY <2>1 DEF ThreadMoves
  <2> DEFINE s == [seat EXCEPT ![t] = w]
  <2>3. s \in [Thread -> Place]
    BY <1>1
  <2>4. ShowsIn(seen, s, FALSE) /\ seat' = s /\ UNCHANGED <<fileAsks, entry, backs>>
    BY <2>1, <2>2 DEF ThreadMoves
  <2> HIDE DEF s
  <2>5. seen.open => seen.activeKey = KeyNow /\ KeyNow # NoKey
    BY <1>2 DEF PanelInv, Sane
  <2>6. seen.open /\ seen.activeKey \in {NoKey, Key(seen, s)} => PlacedIn(seen, Key(seen, s).place, fileAsks')
    BY <2>4, <2>5 DEF PanelInv
  <2>7. seen.loading => (\E a \in treeAsks : a.key = Key(seen, s)) \/ seen.activeKey \notin {NoKey, Key(seen, s)}
    BY <1>4, <2>5
  <2>8. Sane(seen) /\ AsksSound(seen, fileAsks') /\ (seen.path # NoFile => seen.open \/ backs' = 1)
    BY <2>4 DEF PanelInv
  <2>9. QED
    BY <1>1, <2>3, <2>4, <2>6, <2>7, <2>8, PanelShown
<1>17. QED
  BY <1>5, <1>6, <1>7, <1>8, <1>9, <1>10, <1>11, <1>12, <1>13, <1>14, <1>15, <1>16 DEF PanelNext

LEMMA PanelOfParts == (PartsInit => PanelInit) /\ ([PartsNext]_partVars => [PanelNext]_panelVars)
BY DEF PartsInit, PartsNext, partVars, pageVars, linkVars

\* public/js/app.js, files.js: whatever was asked before and is answered late, the files
\* and the file that are shown are of the selected conversation, of its workspace as it is
\* now and of the chosen target; what the column lacks has failed or is on its way.
THEOREM FilesRightCorrect == PartsSpec => []FilesRight
<1>1. PanelInv => FilesRight
  BY DEF PanelInv
<1>2. QED
  BY <1>1, PanelStarts, PanelStep, PanelOfParts, PTL DEF PartsSpec

(***************************************************************************)
(* The types of the column of files: how many requests have been numbered. *)
(***************************************************************************)

\* Each file was opened once and is closed once; a number beyond that is a change of
\* the target, which fetches a tree.
Weight(p) == IF p.path # NoFile THEN p.id + 1 ELSE p.id
PanelCounted ==
    /\ trees \in 0..MaxTrees /\ moves \in 0..MaxMoves
    /\ treeAsks \subseteq [n : 1..MaxTrees, key : TreeKey]
    /\ seen.open /\ seen.askedKey # NoKey => seen.askedKey.target = seen.target
    /\ Weight(seen) <= 2 * MaxOpened + trees

LEMMA PanelTyped == PanelInv /\ PanelCounted => PanelTypeOK
<1> SUFFICES ASSUME PanelInv, PanelCounted PROVE PanelTypeOK
  OBVIOUS
<1>1. MaxOpened \in Nat /\ MaxTrees \in Nat
  BY FilePanelAssumption
<1>2. seen \in PanelRecord /\ seen.id \in Nat /\ trees \in 0..MaxTrees
  BY DEF PanelInv, PanelRecord, PanelCounted
<1>3. seen.id <= Weight(seen) /\ Weight(seen) \in Nat
  BY <1>2 DEF Weight
<1>4. seen.id \in 0..(2 * MaxOpened + MaxTrees)
  BY <1>1, <1>2, <1>3 DEF PanelCounted
<1>5. seen \in PanelState
  BY <1>2, <1>4 DEF PanelRecord, PanelState
<1>6. \A a \in fileAsks : a.view \in View
  BY DEF PanelInv, AsksSound
<1>7. backs \in 0..1
  BY DEF PanelInv
<1>8. QED
  BY <1>5, <1>6, <1>7 DEF PanelInv, PanelCounted, PanelTypeOK

\* store.set with the page p fetches at most one tree, and one if the target changes.
LEMMA PanelFetches ==
    ASSUME PanelInv, PanelCounted, NEW p \in PanelRecord, NEW w \in [Thread -> Place], NEW force \in BOOLEAN,
           ShowsIn(p, w, force), p.open => p.thread # NoThread, p.askedKey = seen.askedKey,
           p.open => force \/ p.loadedKey = NoKey \/ (seen.open /\ p.target = seen.target),
           \/ Weight(p) <= 2 * MaxOpened + trees
           \/ /\ Weight(p) <= 2 * MaxOpened + trees + 1 /\ p.open /\ p.loadedKey = NoKey
              /\ seen.open /\ p.target # seen.target
    PROVE  /\ trees' \in 0..MaxTrees /\ treeAsks' \subseteq [n : 1..MaxTrees, key : TreeKey]
           /\ seen'.open /\ seen'.askedKey # NoKey => seen'.askedKey.target = seen'.target
           /\ Weight(seen') <= 2 * MaxOpened + trees'
<1> DEFINE key == Key(p, w)
<1>1. PICK q \in {Ensured(p, key, force)} :
        /\ seen' = q
        /\ IF q.askedKey # seen.askedKey
           THEN /\ trees < MaxTrees /\ trees' = trees + 1
                /\ treeAsks' = treeAsks \cup {[n |-> trees + 1, key |-> key]}
           ELSE UNCHANGED <<trees, treeAsks>>
  BY DEF ShowsIn, Ensures
<1>2. /\ key \in TreeKey /\ NoView \in View /\ NoKey \in TreeKey
      /\ p.open => key # NoKey /\ key.target = p.target
  BY Keys
<1>3. /\ q \in PanelRecord
      /\ q.open = p.open /\ q.target = p.target /\ q.id = p.id
      /\ p.open => q.askedKey = key \/ (q.askedKey = p.askedKey /\ q.loadedKey = key /\ ~force)
      /\ q.loadedKey \in {p.loadedKey, NoKey}
      /\ q.path = p.path \/ q.path = NoFile
  BY <1>1, <1>2, Ensuring
<1>4. MaxOpened \in Nat /\ MaxTrees \in Nat /\ trees \in 0..MaxTrees /\ p.id \in Nat /\ q.id \in Nat
  BY <1>3, FilePanelAssumption DEF PanelCounted, PanelRecord
<1> HIDE DEF key
<1>5. trees' \in 0..MaxTrees /\ treeAsks' \subseteq [n : 1..MaxTrees, key : TreeKey] /\ trees' >= trees
  <2>1. CASE q.askedKey # seen.askedKey
    <3>1. [n |-> trees + 1, key |-> key] \in [n : 1..MaxTrees, key : TreeKey]
      BY <1>1, <1>2, <1>4, <2>1
    <3>2. QED
      BY <1>1, <1>4, <2>1, <3>1 DEF PanelCounted
  <2>2. CASE q.askedKey = seen.askedKey
    BY <1>1, <1>4, <2>2 DEF PanelCounted
  <2>3. QED
    BY <2>1, <2>2
<1>6. q.open => q.askedKey \in {key, NoKey} \/ q.askedKey.target = q.target
  BY <1>2, <1>3 DEF PanelCounted
<1>7. Weight(q) <= Weight(p) /\ Weight(p) \in Nat /\ Weight(q) \in Nat
  BY <1>3, <1>4 DEF Weight
<1>8. Weight(q) <= 2 * MaxOpened + trees'
  <2>1. CASE Weight(p) <= 2 * MaxOpened + trees
    BY <1>4, <1>5, <1>7, <2>1
  <2>2. CASE /\ Weight(p) <= 2 * MaxOpened + trees + 1 /\ p.open /\ p.loadedKey = NoKey
             /\ seen.open /\ p.target # seen.target
    <3>1. q.askedKey = key /\ key # NoKey /\ key.target # seen.target
      BY <1>2, <1>3, <2>2
    <3>2. key # seen.askedKey
      BY <2>2, <3>1 DEF PanelCounted
    <3>3. trees' = trees + 1
      BY <1>1, <3>1, <3>2
    <3>4. QED
      BY <1>4, <1>7, <2>2, <3>3
  <2>3. QED
    BY <2>1, <2>2
<1>9. QED
  BY <1>1, <1>2, <1>3, <1>5, <1>6, <1>8

LEMMA PanelCounts ==
    ASSUME PanelInv, PanelCounted, [PanelNext]_panelVars
    PROVE  PanelCounted'
<1>1. /\ seen \in PanelRecord /\ seat \in [Thread -> Place] /\ NoView \in View /\ NoKey \in TreeKey
      /\ MaxOpened \in Nat /\ MaxTrees \in Nat /\ MaxMoves \in Nat /\ trees \in Nat /\ seen.id \in Nat
      /\ seen.open \in BOOLEAN /\ NoFile \notin Doc
      /\ Weight(seen) <= 2 * MaxOpened + trees /\ Weight(seen) \in Nat
      /\ seen.id <= Weight(seen) /\ (seen.path # NoFile => Weight(seen) = seen.id + 1)
  BY FilePanelAssumption DEF PanelInv, PanelCounted, PanelRecord, View, TreeKey, Weight
<1>2. moves \in 0..MaxMoves /\ (seen.open => seen.thread # NoThread)
  BY DEF PanelInv, PanelCounted, Sane
<1>3. CASE UNCHANGED panelVars
  BY <1>3 DEF panelVars, PanelCounted, Weight
<1>4. ASSUME NEW a \in treeAsks, TreeAnswers(a) PROVE PanelCounted'
  <2>1. PICK p \in {TreeOf(a), NoTreeOf(a)} : seen' = [p EXCEPT !.askedKey = IF @ = a.key THEN NoKey ELSE @]
    BY <1>4 DEF TreeAnswers
  <2>2. treeAsks' = treeAsks \ {a} /\ UNCHANGED <<trees, moves>>
    BY <1>4 DEF TreeAnswers
  <2>3. a.key \in TreeKey
    BY DEF PanelCounted
  <2>3a. /\ p \in PanelRecord
         /\ p.open = seen.open /\ p.target = seen.target /\ p.id = seen.id
         /\ p.askedKey = seen.askedKey /\ p.path = seen.path
    BY <1>1, <2>3 DEF TreeOf, NoTreeOf, Current, PanelRecord
  <2>4. /\ seen'.open = seen.open /\ seen'.target = seen.target /\ seen'.id = seen.id /\ seen'.path = seen.path
        /\ seen'.askedKey \in {seen.askedKey, NoKey}
    BY <1>1, <2>1, <2>3a DEF PanelRecord
  <2>5. Weight(seen') = Weight(seen)
    BY <2>4 DEF Weight
  <2>6. QED
    BY <2>2, <2>4, <2>5 DEF PanelCounted
<1>5. ASSUME NEW p \in PanelRecord, NEW force \in BOOLEAN, ShowsIn(p, seat, force), UNCHANGED moves,
             p.open => p.thread # NoThread, p.askedKey = seen.askedKey,
             p.open => force \/ p.loadedKey = NoKey \/ (seen.open /\ p.target = seen.target),
             \/ Weight(p) <= Weight(seen)
             \/ /\ Weight(p) <= 2 * MaxOpened
             \/ /\ Weight(p) <= Weight(seen) + 1 /\ p.open /\ p.loadedKey = NoKey
                /\ seen.open /\ p.target # seen.target
      PROVE  PanelCounted'
  <2>1. Weight(p) \in Nat
    BY DEF Weight, PanelRecord
  <2>2. \/ Weight(p) <= 2 * MaxOpened + trees
        \/ /\ Weight(p) <= 2 * MaxOpened + trees + 1 /\ p.open /\ p.loadedKey = NoKey
           /\ seen.open /\ p.target # seen.target
    BY <1>1, <1>5, <2>1
  <2>3. /\ trees' \in 0..MaxTrees /\ treeAsks' \subseteq [n : 1..MaxTrees, key : TreeKey]
        /\ seen'.open /\ seen'.askedKey # NoKey => seen'.askedKey.target = seen'.target
        /\ Weight(seen') <= 2 * MaxOpened + trees'
    BY <1>1, <1>5, <2>2, PanelFetches
  <2>4. QED
    BY <1>2, <1>5, <2>3 DEF PanelCounted
<1>6. ASSUME NEW a \in fileAsks, FileAnswers(a) PROVE PanelCounted'
  <2>1. CASE StillAsked(a)
    <3>1. PICK v \in {a.view, NoView} :
            ShowsIn([seen EXCEPT !.view = v, !.viewLoading = FALSE, !.target = IF v = NoView THEN @ ELSE v.target], seat, FALSE)
      BY <1>6, <2>1 DEF FileAnswers, Shows
    <3>2. a.view \in View /\ a.view.target = seen.target
      BY <2>1 DEF PanelInv, AsksSound, Asked, StillAsked
    <3> DEFINE t == IF v = NoView THEN seen.target ELSE v.target
               p == [seen EXCEPT !.view = v, !.viewLoading = FALSE, !.target = t]
    <3>3. t = seen.target
      BY <3>2
    <3>4. ShowsIn(p, seat, FALSE)
      BY <1>1, <3>1 DEF PanelRecord
    <3> HIDE DEF t
    <3>5. /\ p \in PanelRecord /\ p.thread = seen.thread /\ p.open = seen.open /\ p.target = seen.target /\ p.id = seen.id
          /\ p.askedKey = seen.askedKey /\ p.path = seen.path
      BY <1>1, <3>2, <3>3 DEF PanelRecord
    <3> HIDE DEF p
    <3>6. Weight(p) <= Weight(seen)
      BY <1>1, <3>5 DEF Weight
    <3>7. UNCHANGED moves
      BY <1>6 DEF FileAnswers
    <3>8. QED
      BY <1>2, <1>5, <3>4, <3>5, <3>6, <3>7
  <2>2. CASE ~StillAsked(a)
    BY <1>6, <2>2 DEF FileAnswers, PanelCounted, Weight
  <2>3. QED
    BY <2>1, <2>2
<1>7. ASSUME Ticks PROVE PanelCounted'
  <2>1. ShowsIn(seen, seat, TRUE) /\ UNCHANGED moves
    BY <1>7 DEF Ticks, Shows
  <2>2. Weight(seen) <= Weight(seen) /\ TRUE \in BOOLEAN
    BY <1>1
  <2>3. QED
    BY <1>1, <1>2, <1>5, <2>1, <2>2
\* closeFileView
<1>8. /\ Closing \in PanelRecord /\ Closing.thread = seen.thread /\ Closing.open = seen.open
      /\ Closing.askedKey = seen.askedKey /\ Closing.target = seen.target
      /\ Closing.id \in Nat /\ Closing.id <= Weight(seen) /\ Weight(Closing) <= Weight(seen)
  <2> DEFINE c == Closing
  <2>1. /\ c \in PanelRecord /\ c.thread = seen.thread /\ c.open = seen.open
        /\ c.askedKey = seen.askedKey /\ c.target = seen.target
        /\ c = seen \/ (c.path = NoFile /\ c.id = seen.id + 1 /\ seen.path # NoFile)
    <3>1. Closing = seen \/ seen.path # NoFile
      BY DEF Closing
    <3>2. QED
      BY <3>1, ClosingOf
  <2> HIDE DEF c
  <2>2. c.id \in Nat /\ c.id <= Weight(seen) /\ Weight(c) <= Weight(seen)
    BY <1>1, <2>1 DEF Weight, PanelRecord
  <2>3. QED
    BY <2>1, <2>2 DEF c
\* A page that leaves the file of a page c, with other values.
<1>9. ASSUME ToggleFiles PROVE PanelCounted'
  <2> DEFINE l == Left(Closing)
             b == ~seen.open /\ seen.loadedKey # KeyNow
             p == [l EXCEPT !.open = ~@, !.failed = FALSE, !.loading = b]
  <2>1. /\ ShowsIn(p, seat, ~seen.open) /\ UNCHANGED moves /\ seen.thread # NoThread
    BY <1>9 DEF ToggleFiles, Shows
  <2>2. /\ l \in PanelRecord /\ l.thread = seen.thread /\ l.open = seen.open /\ l.askedKey = seen.askedKey
        /\ l.path = NoFile /\ l.id = Closing.id
    BY <1>8, LeavesThePage
  <2>3. b \in BOOLEAN
    BY <1>1
  <2> HIDE DEF l, b
  <2>4. /\ p \in PanelRecord /\ p.thread = l.thread /\ p.open = ~l.open /\ p.askedKey = l.askedKey
        /\ p.path = l.path /\ p.id = l.id
    BY <2>2, <2>3 DEF PanelRecord
  <2> HIDE DEF p
  <2>5. Weight(p) <= Weight(seen)
    BY <1>1, <1>8, <2>2, <2>4 DEF Weight
  <2>6. QED
    BY <1>1, <1>5, <2>1, <2>2, <2>4, <2>5
<1>10. ASSUME CloseColumn PROVE PanelCounted'
  <2> DEFINE c == Closing
             p == [c EXCEPT !.open = FALSE, !.loading = FALSE, !.failed = FALSE]
  <2>1. ShowsIn(p, seat, FALSE) /\ UNCHANGED moves
    BY <1>10 DEF CloseColumn, Shows
  <2>2. c \in PanelRecord /\ c.askedKey = seen.askedKey /\ Weight(c) <= Weight(seen)
    BY <1>8
  <2> HIDE DEF c
  <2>3. p \in PanelRecord /\ ~p.open /\ p.askedKey = c.askedKey /\ p.path = c.path /\ p.id = c.id
    BY <2>2 DEF PanelRecord
  <2> HIDE DEF p
  <2>4. Weight(p) <= Weight(seen)
    BY <2>2, <2>3 DEF Weight
  <2>5. QED
    BY <1>5, <2>1, <2>2, <2>3, <2>4
<1>11. ASSUME CloseFile PROVE PanelCounted'
  <2>1. ShowsIn(Closing, seat, FALSE) /\ UNCHANGED moves
    BY <1>11 DEF CloseFile, Shows
  <2>2. QED
    BY <1>2, <1>5, <1>8, <2>1
<1>12. ASSUME Back PROVE PanelCounted'
  <2>1. UNCHANGED moves
    BY <1>12 DEF Back
  <2>2. CASE seen.path # NoFile
    <3> DEFINE n == seen.id + 1
               p == [seen EXCEPT !.path = NoFile, !.view = NoView, !.viewLoading = FALSE, !.id = n]
    <3>1. ShowsIn(p, seat, FALSE)
      BY <1>12, <2>2 DEF Back, Shows, Cleared
    <3>2. n \in Nat /\ n <= Weight(seen)
      BY <1>1, <2>2
    <3> HIDE DEF n
    <3>3. /\ p \in PanelRecord /\ p.thread = seen.thread /\ p.open = seen.open /\ p.target = seen.target
          /\ p.askedKey = seen.askedKey /\ p.path = NoFile /\ p.id = n
      BY <1>1, <3>2 DEF PanelRecord
    <3> HIDE DEF p
    <3>4. Weight(p) <= Weight(seen)
      BY <3>2, <3>3 DEF Weight
    <3>5. QED
      BY <1>2, <1>5, <2>1, <3>1, <3>3, <3>4
  <2>3. CASE seen.path = NoFile
    BY <1>12, <2>3 DEF Back, PanelCounted, Weight
  <2>4. QED
    BY <2>2, <2>3
<1>13. ASSUME NEW t \in Target, ChangeTarget(t) PROVE PanelCounted'
  <2> DEFINE l == Left(Closing)
             n == l.id + 1
             p == [l EXCEPT !.target = t, !.files = NoKey, !.loadedKey = NoKey, !.loading = TRUE, !.failed = FALSE, !.id = n]
  <2>1. ShowsIn(p, seat, FALSE) /\ UNCHANGED moves /\ seen.open /\ seen.thread # NoThread /\ t # seen.target
    BY <1>13 DEF ChangeTarget, Shows
  <2>2. /\ l \in PanelRecord /\ l.thread = seen.thread /\ l.open = seen.open /\ l.askedKey = seen.askedKey
        /\ l.path = NoFile /\ l.id = Closing.id
    BY <1>8, LeavesThePage
  <2> HIDE DEF l
  <2>3. n \in Nat /\ n <= Weight(seen) + 1
    BY <1>1, <1>8, <2>2
  <2> HIDE DEF n
  <2>4. /\ p \in PanelRecord /\ p.thread = l.thread /\ p.open = l.open /\ p.askedKey = l.askedKey
        /\ p.path = l.path /\ p.id = n /\ p.target = t /\ p.loadedKey = NoKey
    BY <1>1, <2>2, <2>3 DEF PanelRecord
  <2> HIDE DEF p
  <2>5. Weight(p) <= Weight(seen) + 1
    BY <2>2, <2>3, <2>4 DEF Weight
  <2>6. QED
    BY <1>5, <2>1, <2>2, <2>4, <2>5
<1>14. ASSUME NEW d \in Doc, OpenFile(d) PROVE PanelCounted'
  <2> DEFINE n == seen.id + 1
             p == [seen EXCEPT !.path = d, !.view = NoView, !.viewLoading = TRUE, !.id = n]
  <2>1. ShowsIn(p, seat, FALSE) /\ UNCHANGED moves /\ seen.id < MaxOpened
    BY <1>14 DEF OpenFile, Shows
  <2>2. n \in Nat /\ n + 1 <= 2 * MaxOpened
    BY <1>1, <2>1
  <2> HIDE DEF n
  <2>3. /\ p \in PanelRecord /\ p.thread = seen.thread /\ p.open = seen.open /\ p.target = seen.target
        /\ p.askedKey = seen.askedKey /\ p.path = d /\ p.id = n
    BY <1>1, <2>2 DEF PanelRecord
  <2> HIDE DEF p
  <2>4. Weight(p) <= 2 * MaxOpened
    BY <1>1, <2>2, <2>3 DEF Weight
  <2>5. QED
    BY <1>2, <1>5, <2>1, <2>3, <2>4
<1>15. ASSUME NEW t \in Thread \cup {NoThread}, SelectThread(t) PROVE PanelCounted'
  <2> DEFINE l == Left(seen)
             b == seen.open /\ t # NoThread
             p == [l EXCEPT !.thread = t, !.open = b, !.files = NoKey, !.loadedKey = NoKey, !.failed = FALSE, !.target = "origin"]
  <2>1. l \in PanelRecord /\ l.open = seen.open /\ l.askedKey = seen.askedKey /\ l.path = NoFile /\ l.id = seen.id
    BY <1>1, LeavesThePage
  <2>2. b \in BOOLEAN /\ (b => t # NoThread)
    BY <1>1
  <2> HIDE DEF l
  <2>3. [l EXCEPT !.thread = t, !.open = @ /\ t # NoThread, !.files = NoKey, !.loadedKey = NoKey, !.failed = FALSE, !.target = "origin"] = p
    BY <2>1
  <2>4. ShowsIn(p, seat, FALSE) /\ UNCHANGED moves
    BY <1>15, <2>3 DEF SelectThread, Shows, l
  <2> HIDE DEF b
  <2>5. /\ p \in PanelRecord /\ p.thread = t /\ p.open = b /\ p.askedKey = l.askedKey
        /\ p.path = l.path /\ p.id = l.id /\ p.loadedKey = NoKey
    BY <1>1, <2>1, <2>2 DEF PanelRecord, Target
  <2> HIDE DEF p
  <2>6. Weight(p) <= Weight(seen)
    BY <1>1, <2>1, <2>5 DEF Weight
  <2>7. QED
    BY <1>5, <2>1, <2>2, <2>4, <2>5, <2>6
<1>16. ASSUME NEW t \in Thread, ThreadMoves(t) PROVE PanelCounted'
  <2>1. PICK w \in Place : seat' = [seat EXCEPT ![t] = w]
    BY <1>16 DEF ThreadMoves
  <2> DEFINE s == [seat EXCEPT ![t] = w]
  <2>2. s \in [Thread -> Place]
    BY <1>1
  <2>2a. ShowsIn(seen, s, FALSE) /\ moves < MaxMoves /\ moves' = moves + 1
    BY <1>16, <2>1 DEF ThreadMoves
  <2>2b. moves' \in 0..MaxMoves
    BY <1>1, <1>2, <2>2a
  <2> HIDE DEF s
  <2>3. /\ trees' \in 0..MaxTrees /\ treeAsks' \subseteq [n : 1..MaxTrees, key : TreeKey]
        /\ seen'.open /\ seen'.askedKey # NoKey => seen'.askedKey.target = seen'.target
        /\ Weight(seen') <= 2 * MaxOpened + trees'
    BY <1>1, <1>2, <2>2, <2>2a, PanelFetches
  <2>4. QED
    BY <2>2b, <2>3 DEF PanelCounted
<1>17. QED
  BY <1>3, <1>4, <1>6, <1>7, <1>9, <1>10, <1>11, <1>12, <1>13, <1>14, <1>15, <1>16 DEF PanelNext

LEMMA PanelCountStarts == PanelInit => PanelCounted
BY FilePanelAssumption DEF PanelInit, PanelCounted, Weight, Bare

(***************************************************************************)
(* What the web server knows of its workers.                               *)
(***************************************************************************)

ShownOwned == \A w \in Site : shots[w] # 0 => w \in owned
\* What is not on disk yet is saved by a call that is under way, or was to be.
Unsaved == onDisk => disk = shots \/ \E p \in Listing : listings[p].at = "asking" /\ listings[p].changed

RemoteInv == RemoteTypeOK /\ OneLoop /\ ShownOwned /\ Unsaved

LEMMA RemoteShown == RemoteInv => WorkersFollowed
BY DEF RemoteInv, WorkersFollowed, ShownIsOwned, ShownOwned, Unsaved

LEMMA NoListingTyped == NoListing \in ListingRecord
BY RemoteAssumption DEF NoListing, ListingRecord, SiteState, Rev

LEMMA RemoteStarts == RemoteInit => RemoteInv
<1> SUFFICES ASSUME RemoteInit PROVE RemoteInv
  OBVIOUS
<1>1. 0 \in Rev /\ 0 \in 0..MaxLoops /\ 0 \in 0..MaxSiteMoves /\ 0 \in 0..MaxWebStarts
  BY RemoteAssumption DEF Rev
<1>2. site \in [Site -> [state : SiteState, rev : Rev]]
  BY <1>1 DEF RemoteInit, SiteState
<1>3. shots \in [Site -> Rev] /\ disk = shots /\ onDisk \in BOOLEAN /\ owned = {} /\ \A w \in Site : shots[w] = 0
  BY <1>1 DEF RemoteInit
<1>4. listings \in [Listing -> ListingRecord]
  BY NoListingTyped DEF RemoteInit
<1>5. /\ loops \in [Site -> [Loop -> LoopState]] /\ streams \in [Site -> 0..MaxLoops]
      /\ \A w \in Site : streams[w] = 0 /\ \A i \in Loop : loops[w][i] = "idle"
  BY <1>1 DEF RemoteInit, NoLoops, LoopState
<1>6. opening \in [of : Site, at : {"none", "creating", "waiting", "posting"}]
  BY RemoteAssumption DEF RemoteInit, NotOpening
<1>7. siteMoves \in 0..MaxSiteMoves /\ webStarts \in 0..MaxWebStarts
  BY <1>1 DEF RemoteInit
<1>8. RemoteTypeOK
  BY <1>2, <1>3, <1>4, <1>5, <1>6, <1>7 DEF RemoteTypeOK
<1>9. OneLoop
  BY <1>5 DEF OneLoop, Following
<1>10. QED
  BY <1>3, <1>8, <1>9 DEF RemoteInv, ShownOwned, Unsaved

LEMMA SameListings ==
    ASSUME RemoteInv, RemoteTypeOK', OneLoop', UNCHANGED <<shots, disk, onDisk, listings>>, owned \subseteq owned'
    PROVE  RemoteInv'
BY DEF RemoteInv, ShownOwned, Unsaved

LEMMA SameLoops ==
    ASSUME RemoteInv, RemoteTypeOK', UNCHANGED <<loops, streams>>, ShownOwned', Unsaved'
    PROVE  RemoteInv'
BY DEF RemoteInv, OneLoop, Following

\* A loop goes on, or ends when nobody follows it.
LEMMA OneLoopMoves ==
    ASSUME RemoteInv, NEW w \in Site, NEW i \in Loop, NEW state \in LoopState,
           SetLoop(w, i, state), UNCHANGED streams,
           state \in {"asking", "open", "waiting"} => Following(w, i),
           streams[w] = i => state \in {"asking", "open", "waiting", "refused"}
    PROVE  loops' \in [Site -> [Loop -> LoopState]] /\ OneLoop'
<1>1. loops \in [Site -> [Loop -> LoopState]] /\ streams \in [Site -> 0..MaxLoops]
  BY DEF RemoteInv, RemoteTypeOK
<1>2. /\ loops' \in [Site -> [Loop -> LoopState]] /\ loops'[w][i] = state
      /\ \A v \in Site, k \in Loop : v # w \/ k # i => loops'[v][k] = loops[v][k]
  BY <1>1 DEF SetLoop
<1>3. \A v \in Site, k \in Loop : Following(v, k)' => Following(v, k)
  BY <1>2 DEF Following
<1>4. \A v \in Site : streams[v] # 0 => streams[v] \in Loop
  BY <1>1, RemoteAssumption DEF Loop
<1>5. \A v \in Site : streams[v] # 0 => Following(v, streams[v])' \/ loops'[v][streams[v]] = "refused"
  BY <1>2, <1>4 DEF RemoteInv, OneLoop, Following
<1>6. QED
  BY <1>2, <1>3, <1>5 DEF RemoteInv, OneLoop, Following

\* subscribe takes a loop that does nothing.
LEMMA SlotFree == ASSUME NEW w \in Site, Free(w) # {} PROVE Slot(w) \in Loop /\ loops[w][Slot(w)] = "idle"
BY DEF Slot, Free

LEMMA FollowKeeps ==
    ASSUME RemoteInv, NEW ws \in SUBSET Site, Follow(ws)
    PROVE  /\ loops' \in [Site -> [Loop -> LoopState]] /\ streams' \in [Site -> 0..MaxLoops]
           /\ OneLoop'
<1>1. loops \in [Site -> [Loop -> LoopState]] /\ streams \in [Site -> 0..MaxLoops] /\ Loop \subseteq 0..MaxLoops
  BY RemoteAssumption DEF RemoteInv, RemoteTypeOK, Loop
<1>2. ASSUME NEW w \in Site, w \notin ws
      PROVE  /\ loops'[w] = [i \in Loop |->
                   IF streams[w] = i /\ loops[w][i] # "refused" THEN "aborted" ELSE loops[w][i]]
             /\ streams'[w] = 0
  <2>1. loops'[w] = Aborted(Site \ ws)[w] /\ streams'[w] = 0
    BY <1>2 DEF Follow
  <2>2. QED
    BY <1>2, <2>1 DEF Aborted
<1>3. ASSUME NEW w \in ws, streams[w] = 0
      PROVE  /\ loops'[w] = [loops[w] EXCEPT ![Slot(w)] = "asking"] /\ streams'[w] = Slot(w)
             /\ Slot(w) \in Loop /\ loops[w][Slot(w)] = "idle"
  BY <1>3, SlotFree DEF Follow, NotFollowed
<1>4. ASSUME NEW w \in ws, streams[w] # 0 PROVE loops'[w] = loops[w] /\ streams'[w] = streams[w]
  <2>1. loops'[w] = Aborted(Site \ ws)[w] /\ streams'[w] = streams[w]
    BY <1>4 DEF Follow, NotFollowed
  <2>2. loops'[w] = [i \in Loop |-> loops[w][i]]
    BY <2>1 DEF Aborted
  <2>3. QED
    BY <1>1, <2>1, <2>2
<1>5. ASSUME NEW w \in Site
      PROVE  /\ loops'[w] \in [Loop -> LoopState] /\ streams'[w] \in 0..MaxLoops
             /\ \A i \in Loop : loops'[w][i] \in {"asking", "open", "waiting"} => streams'[w] = i
             /\ streams'[w] # 0 => loops'[w][streams'[w]] \in {"asking", "open", "waiting", "refused"}
  <2>1. /\ loops[w] \in [Loop -> LoopState] /\ streams[w] \in 0..MaxLoops
        /\ \A i \in Loop : loops[w][i] \in {"asking", "open", "waiting"} => streams[w] = i
        /\ streams[w] # 0 => loops[w][streams[w]] \in {"asking", "open", "waiting", "refused"}
        /\ \A i \in Loop : i \in 0..MaxLoops /\ i # 0
    BY <1>1, RemoteAssumption DEF RemoteInv, OneLoop, Following, Loop
  <2>2. CASE w \notin ws
    <3>1. \A i \in Loop : loops'[w][i] = "aborted" \/ (loops'[w][i] = loops[w][i] /\ (streams[w] # i \/ loops[w][i] = "refused"))
      BY <1>2, <2>2
    <3>2. loops'[w] \in [Loop -> LoopState]
      <4>1. \A i \in Loop : (IF streams[w] = i /\ loops[w][i] # "refused" THEN "aborted" ELSE loops[w][i]) \in LoopState
        BY <2>1 DEF LoopState
      <4>2. QED
        BY <1>2, <2>2, <4>1
    <3>3. streams'[w] = 0
      BY <1>2, <2>2
    <3>4. QED
      BY <2>1, <3>1, <3>2, <3>3, RemoteAssumption
  <2>3. CASE w \in ws /\ streams[w] = 0
    <3>1. PICK k \in Loop : loops'[w] = [loops[w] EXCEPT ![k] = "asking"] /\ streams'[w] = k
      BY <1>3, <2>3
    <3>2. /\ loops'[w][k] = "asking" /\ loops'[w] \in [Loop -> LoopState]
          /\ \A i \in Loop : i # k => loops'[w][i] = loops[w][i]
      BY <2>1, <3>1 DEF LoopState
    <3>3. QED
      BY <2>1, <2>3, <3>1, <3>2
  <2>4. CASE w \in ws /\ streams[w] # 0
    BY <1>4, <2>1, <2>4
  <2>5. QED
    BY <2>2, <2>3, <2>4
<1>6. loops' \in [Site -> [Loop -> LoopState]] /\ streams' \in [Site -> 0..MaxLoops]
  BY <1>5 DEF Follow
<1>7. QED
  BY <1>5, <1>6 DEF OneLoop, Following

\* The last call that changed something saves it.
LEMMA EndsWithSaves ==
    ASSUME RemoteInv, NEW p \in Listing, NEW r \in ListingRecord, EndsWith(p, r), shots' \in [Site -> Rev],
           r.at = "asking", shots' # shots => r.changed,
           listings[p].at = "asking" /\ listings[p].changed => r.changed
    PROVE  /\ listings' \in [Listing -> ListingRecord] /\ disk' \in [Site -> Rev] /\ Unsaved'
           /\ onDisk' \in BOOLEAN
<1>1. listings \in [Listing -> ListingRecord] /\ disk \in [Site -> Rev] /\ onDisk \in BOOLEAN
  BY DEF RemoteInv, RemoteTypeOK
<1>2. onDisk /\ disk # shots => \E q \in Listing : listings[q].at = "asking" /\ listings[q].changed
  BY DEF RemoteInv, Unsaved
<1>3. CASE r.left # {}
  <2>1. listings' = [listings EXCEPT ![p] = r] /\ UNCHANGED <<disk, onDisk>>
    BY <1>3 DEF EndsWith, SetListing
  <2>2. QED
    BY <1>1, <1>2, <2>1 DEF Unsaved
<1>4. CASE r.left = {}
  <2>1. /\ listings' = [listings EXCEPT ![p] = NoListing]
        /\ (r.changed /\ Saves) \/ (~r.changed /\ UNCHANGED <<disk, onDisk>>)
    BY <1>4 DEF EndsWith, SetListing
  <2>2. CASE r.changed /\ Saves
    BY <1>1, <2>1, <2>2, NoListingTyped DEF Unsaved, Saves
  <2>3. CASE ~r.changed /\ UNCHANGED <<disk, onDisk>>
    BY <1>1, <1>2, <2>1, <2>3, NoListingTyped DEF Unsaved
  <2>4. QED
    BY <2>1, <2>2, <2>3
<1>5. QED
  BY <1>3, <1>4

LEMMA RemoteStep == RemoteInv /\ [RemoteNext]_remoteVars => RemoteInv'
<1> SUFFICES ASSUME RemoteInv, [RemoteNext]_remoteVars PROVE RemoteInv'
  OBVIOUS
<1>1. RemoteTypeOK /\ OneLoop /\ ShownOwned /\ Unsaved
  BY DEF RemoteInv
<1>2. Loop \subseteq 0..MaxLoops /\ 0 \in Rev /\ Rev \subseteq Nat /\ 0 \in 0..MaxLoops
  BY RemoteAssumption DEF Loop, Rev
<1>3. CASE UNCHANGED remoteVars
  BY <1>1, <1>3, SameListings DEF remoteVars, RemoteTypeOK, OneLoop, Following
<1>4. ASSUME NEW p \in Listing, ListAsked(p) \/ ListTaken(p) \/ ListFails(p) PROVE RemoteInv'
  <2>1. PICK r \in ListingRecord : r.at # "asking" /\ listings[p].at # "asking" /\ listings' = [listings EXCEPT ![p] = r]
    <3>1. CASE ListAsked(p)
      <4> DEFINE r == [NoListing EXCEPT !.at = "asked"]
      <4>1. r \in ListingRecord /\ r.at = "asked"
        BY NoListingTyped DEF ListingRecord
      <4>2. listings' = [listings EXCEPT ![p] = r] /\ listings[p].at = "idle"
        BY <3>1 DEF ListAsked, SetListing
      <4>3. QED
        BY <4>1, <4>2
    <3>2. CASE ListTaken(p)
      <4> DEFINE r == [listings[p] EXCEPT !.at = "listed", !.list = [w \in Site |-> site[w].state]]
      <4>1. [w \in Site |-> site[w].state] \in [Site -> SiteState] /\ listings[p] \in ListingRecord
        BY <1>1 DEF RemoteTypeOK
      <4>2. r \in ListingRecord /\ r.at = "listed"
        BY <4>1 DEF ListingRecord
      <4>3. listings' = [listings EXCEPT ![p] = r] /\ listings[p].at = "asked"
        BY <3>2 DEF ListTaken, SetListing
      <4>4. QED
        BY <4>2, <4>3
    <3>3. CASE ListFails(p)
      <4>1. listings' = [listings EXCEPT ![p] = NoListing] /\ listings[p].at \in {"asked", "listed"}
        BY <3>3 DEF ListFails, SetListing
      <4>2. NoListing.at = "idle"
        BY DEF NoListing
      <4>3. QED
        BY <4>1, <4>2, NoListingTyped
    <3>4. QED
      BY <1>4, <3>1, <3>2, <3>3
  <2>2. UNCHANGED <<site, shots, disk, onDisk, owned, streams, loops, opening, siteMoves, webStarts>>
    BY <1>4 DEF ListAsked, ListTaken, ListFails
  <2>3. RemoteTypeOK'
    BY <1>1, <2>1, <2>2 DEF RemoteTypeOK
  <2>4. Unsaved' /\ ShownOwned'
    BY <1>1, <2>1, <2>2 DEF RemoteTypeOK, Unsaved, ShownOwned
  <2>5. QED
    BY <2>2, <2>3, <2>4, SameLoops
<1>5. ASSUME NEW p \in Listing, ListAnswered(p) PROVE RemoteInv'
  <2>1. PICK running \in SUBSET Site, vanished \in SUBSET Site :
           /\ shots' = [w \in Site |-> IF w \in vanished THEN 0 ELSE shots[w]] /\ Follow(running)
           /\ EndsWith(p, [NoListing EXCEPT !.at = "asking", !.left = running, !.changed = vanished # {}])
    BY <1>5 DEF ListAnswered
  <2>2. PICK b \in BOOLEAN : b <=> vanished # {}
    OBVIOUS
  <2> DEFINE r == [NoListing EXCEPT !.at = "asking", !.left = running, !.changed = b]
  <2>3. EndsWith(p, r)
    <3>1. b = (vanished # {})
      BY <2>2
    <3>2. QED
      BY <2>1, <3>1, Zenon
  <2>4. r \in ListingRecord /\ r.at = "asking" /\ r.changed = b
    BY NoListingTyped DEF ListingRecord
  <2>5. shots' \in [Site -> Rev] /\ (shots' # shots => r.changed)
    <3>1. shots \in [Site -> Rev]
      BY <1>1 DEF RemoteTypeOK
    <3>2. vanished = {} => shots' = shots
      BY <2>1, <3>1
    <3>3. QED
      BY <1>2, <2>1, <2>2, <2>4, <3>1, <3>2
  <2>6. listings[p].at # "asking" /\ UNCHANGED <<site, owned, opening, siteMoves, webStarts>>
    BY <1>5 DEF ListAnswered
  <2> HIDE DEF r
  <2>7. listings' \in [Listing -> ListingRecord] /\ disk' \in [Site -> Rev] /\ Unsaved'
        /\ onDisk' \in BOOLEAN
    BY <2>3, <2>4, <2>5, <2>6, EndsWithSaves
  <2>8. loops' \in [Site -> [Loop -> LoopState]] /\ streams' \in [Site -> 0..MaxLoops] /\ OneLoop'
    BY <2>1, FollowKeeps
  <2>9. RemoteTypeOK' /\ ShownOwned'
    BY <1>1, <2>1, <2>5, <2>6, <2>7, <2>8 DEF RemoteTypeOK, ShownOwned
  <2>10. QED
    BY <2>7, <2>8, <2>9 DEF RemoteInv
<1>6. ASSUME NEW p \in Listing, NEW w \in Site, StateTaken(p, w) PROVE RemoteInv'
  <2> DEFINE r == [listings[p] EXCEPT !.heard[w] = site[w].rev]
  <2>1. listings[p] \in ListingRecord /\ site[w].rev \in Rev
    BY <1>1 DEF RemoteTypeOK
  <2>2. r \in ListingRecord /\ r.at = listings[p].at /\ r.changed = listings[p].changed
    BY <2>1 DEF ListingRecord
  <2>3. /\ listings' = [listings EXCEPT ![p] = r]
        /\ UNCHANGED <<site, shots, disk, onDisk, owned, streams, loops, opening, siteMoves, webStarts>>
    BY <1>6 DEF StateTaken, SetListing
  <2> HIDE DEF r
  <2>4. RemoteTypeOK'
    BY <1>1, <2>2, <2>3 DEF RemoteTypeOK
  <2>5. Unsaved' /\ ShownOwned'
    BY <1>1, <2>2, <2>3 DEF RemoteTypeOK, Unsaved, ShownOwned
  <2>6. QED
    BY <2>3, <2>4, <2>5, SameLoops
<1>7. ASSUME NEW p \in Listing, NEW w \in Site, StateAnswered(p, w) PROVE RemoteInv'
  <2>1. PICK fresh \in {0, listings[p].heard[w]} :
           /\ shots' = IF fresh = 0 THEN shots ELSE [shots EXCEPT ![w] = fresh]
           /\ owned' = IF fresh = 0 THEN owned ELSE owned \cup {w}
           /\ EndsWith(p, [listings[p] EXCEPT !.left = @ \ {w}, !.heard[w] = 0,
                                              !.changed = @ \/ fresh \notin {0, shots[w]}])
    BY <1>7 DEF StateAnswered
  <2>2. PICK b \in BOOLEAN : b <=> listings[p].changed \/ fresh \notin {0, shots[w]}
    OBVIOUS
  <2> DEFINE r == [listings[p] EXCEPT !.left = @ \ {w}, !.heard[w] = 0, !.changed = b]
  <2>3. EndsWith(p, r)
    <3>1. b = (listings[p].changed \/ fresh \notin {0, shots[w]})
      BY <2>2
    <3>2. QED
      BY <2>1, <3>1, Zenon
  <2>4. listings[p] \in ListingRecord /\ shots \in [Site -> Rev] /\ owned \subseteq Site /\ fresh \in Rev
    BY <1>1, <1>2 DEF RemoteTypeOK, ListingRecord
  <2>5. r \in ListingRecord /\ r.at = "asking" /\ r.changed = b
    BY <1>2, <1>7, <2>4 DEF ListingRecord, StateAnswered
  <2>6. shots' \in [Site -> Rev] /\ (shots' # shots => r.changed)
    BY <2>1, <2>2, <2>4, <2>5
  <2>7. listings[p].changed => r.changed
    BY <2>2, <2>5
  <2> HIDE DEF r
  <2>8. listings' \in [Listing -> ListingRecord] /\ disk' \in [Site -> Rev] /\ Unsaved'
        /\ onDisk' \in BOOLEAN
    BY <2>3, <2>5, <2>6, <2>7, EndsWithSaves
  <2>9. owned' \subseteq Site /\ ShownOwned'
    BY <1>1, <2>1, <2>4 DEF ShownOwned
  <2>10. UNCHANGED <<site, streams, loops, opening, siteMoves, webStarts>>
    BY <1>7 DEF StateAnswered
  <2>11. RemoteTypeOK'
    BY <1>1, <2>6, <2>8, <2>9, <2>10 DEF RemoteTypeOK
  <2>12. QED
    BY <2>8, <2>9, <2>10, <2>11, SameLoops
<1>8. ASSUME NEW w \in Site, NEW i \in Loop, LoopAnswered(w, i) \/ LoopBreaks(w, i) \/ LoopRetries(w, i) \/ LoopEnds(w, i)
      PROVE  RemoteInv'
  <2>1. PICK state \in LoopState :
           /\ SetLoop(w, i, state)
           /\ \/ loops[w][i] \in {"asking", "open", "waiting"} /\ state \in {"asking", "open", "waiting", "refused"}
              \/ loops[w][i] = "aborted" /\ state = "idle"
    <3>1. CASE LoopAnswered(w, i)
      <4>1. site[w].state \in SiteState
        BY <1>1 DEF RemoteTypeOK
      <4>2. SetLoop(w, i, "open") \/ SetLoop(w, i, "refused") \/ SetLoop(w, i, "waiting")
        BY <3>1, <4>1 DEF LoopAnswered, SiteState, SetLoop
      <4>3. QED
        BY <3>1, <4>2 DEF LoopAnswered, LoopState
    <3>2. CASE LoopBreaks(w, i) \/ LoopRetries(w, i) \/ LoopEnds(w, i)
      BY <3>2 DEF LoopBreaks, LoopRetries, LoopEnds, LoopState
    <3>3. QED
      BY <1>8, <3>1, <3>2
  <2>2. UNCHANGED <<site, shots, disk, onDisk, owned, listings, streams, opening, siteMoves, webStarts>>
    BY <1>8 DEF LoopAnswered, LoopBreaks, LoopRetries, LoopEnds
  <2>3. streams[w] # 0 => Following(w, streams[w]) \/ loops[w][streams[w]] = "refused"
    BY <1>1 DEF OneLoop
  <2>4. /\ state \in {"asking", "open", "waiting"} => Following(w, i)
        /\ streams[w] = i => state \in {"asking", "open", "waiting", "refused"}
    BY <2>1, <2>3, RemoteAssumption DEF Following, Loop
  <2>5. loops' \in [Site -> [Loop -> LoopState]] /\ OneLoop'
    BY <2>1, <2>2, <2>4, OneLoopMoves
  <2>6. RemoteTypeOK'
    BY <1>1, <2>2, <2>5 DEF RemoteTypeOK
  <2>7. QED
    BY <2>2, <2>5, <2>6, SameListings
<1>9. ASSUME NEW w \in Site, NEW i \in Loop, LoopRefused(w, i) PROVE RemoteInv'
  <2>1. /\ loops \in [Site -> [Loop -> LoopState]] /\ streams \in [Site -> 0..MaxLoops]
        /\ loops[w][i] = "refused" /\ loops' = [loops EXCEPT ![w][i] = "idle"]
        /\ streams' = [streams EXCEPT ![w] = IF streams[w] = i THEN 0 ELSE streams[w]]
        /\ UNCHANGED <<site, shots, disk, onDisk, owned, listings, opening, siteMoves, webStarts>>
    BY <1>1, <1>9 DEF LoopRefused, SetLoop, RemoteTypeOK
  <2>2. /\ loops' \in [Site -> [Loop -> LoopState]] /\ streams' \in [Site -> 0..MaxLoops]
        /\ \A v \in Site, k \in Loop : v # w \/ k # i => loops'[v][k] = loops[v][k]
        /\ \A v \in Site : v # w => streams'[v] = streams[v]
        /\ loops'[w][i] = "idle" /\ streams'[w] = IF streams[w] = i THEN 0 ELSE streams[w]
    BY <1>2, <2>1 DEF LoopState
  <2>3. \A v \in Site, k \in Loop : Following(v, k)' => Following(v, k) /\ k # 0
    BY <2>2, RemoteAssumption DEF Following, Loop
  <2>4. \A v \in Site, k \in Loop : Following(v, k)' => streams'[v] = k
    BY <1>1, <2>1, <2>2, <2>3 DEF OneLoop, Following
  <2>5. \A v \in Site : streams[v] # 0 => streams[v] \in Loop
    BY <2>1, RemoteAssumption DEF Loop
  <2>6. ASSUME NEW v \in Site, streams'[v] # 0
        PROVE  loops'[v][streams'[v]] \in {"asking", "open", "waiting", "refused"}
    <3>1. streams'[v] = streams[v] /\ (v # w \/ streams[v] # i)
      BY <2>2, <2>6
    <3>2. QED
      BY <1>1, <2>2, <2>5, <2>6, <3>1 DEF OneLoop, Following
  <2>7. OneLoop'
    BY <2>4, <2>6 DEF OneLoop, Following
  <2>8. RemoteTypeOK'
    BY <1>1, <2>1, <2>2 DEF RemoteTypeOK
  <2>9. QED
    BY <2>1, <2>7, <2>8, SameListings
<1>10. ASSUME NEW w \in Site, \/ \E i \in Loop : LoopEvent(w, i)
                              \/ CreateAsked(w) \/ Created(w) \/ Posted(w) \/ SiteMoves(w) \/ SiteWorks(w) \/ OpeningFails
       PROVE  RemoteInv'
  <2>1. UNCHANGED <<shots, disk, onDisk, listings, streams, loops, webStarts>> /\ owned \subseteq owned' /\ owned' \subseteq Site
    BY <1>1, <1>10 DEF RemoteTypeOK, LoopEvent, CreateAsked, Created, Posted, SiteMoves, SiteWorks, OpeningFails, Moved
  <2>2. opening' \in [of : Site, at : {"none", "creating", "waiting", "posting"}]
    BY <1>1, <1>10, RemoteAssumption DEF RemoteTypeOK, LoopEvent, CreateAsked, Created, Posted, SiteMoves, SiteWorks,
       OpeningFails, NotOpening
  <2>3. site' \in [Site -> [state : SiteState, rev : Rev]] /\ siteMoves' \in 0..MaxSiteMoves
    <3>1. /\ site \in [Site -> [state : SiteState, rev : Rev]] /\ siteMoves \in 0..MaxSiteMoves
          /\ site[w].rev \in Rev /\ {"none", "asleep", "running"} \subseteq SiteState
      BY <1>1 DEF RemoteTypeOK, SiteState
    <3>2. ASSUME NEW state \in SiteState, NEW rev \in Rev, Moved(w, state, rev)
          PROVE  site' \in [Site -> [state : SiteState, rev : Rev]] /\ siteMoves' \in 0..MaxSiteMoves
      BY <3>1, <3>2, RemoteAssumption DEF Moved
    <3>3. CASE Created(w) \/ SiteMoves(w)
      BY <1>2, <3>1, <3>2, <3>3 DEF Created, SiteMoves
    <3>4. CASE Posted(w) \/ SiteWorks(w)
      <4>1. site[w].rev + 1 \in Rev /\ UNCHANGED siteMoves
        BY <1>2, <3>1, <3>4, RemoteAssumption DEF Posted, SiteWorks, Rev
      <4>2. CASE Posted(w)
        <5>1. site' = [site EXCEPT ![w] = [state |-> "running", rev |-> site[w].rev + 1]]
          BY <4>2 DEF Posted
        <5>2. QED
          BY <3>1, <4>1, <5>1
      <4>3. CASE SiteWorks(w)
        <5>1. site' = [site EXCEPT ![w].rev = site[w].rev + 1]
          BY <4>3 DEF SiteWorks
        <5>2. QED
          BY <3>1, <4>1, <5>1
      <4>4. QED
        BY <3>4, <4>2, <4>3
    <3>5. CASE (\E i \in Loop : LoopEvent(w, i)) \/ CreateAsked(w) \/ OpeningFails
      BY <3>1, <3>5 DEF LoopEvent, CreateAsked, OpeningFails
    <3>6. QED
      BY <1>10, <3>3, <3>4, <3>5
  <2>4. RemoteTypeOK' /\ OneLoop'
    BY <1>1, <2>1, <2>2, <2>3 DEF RemoteTypeOK, OneLoop, Following
  <2>5. QED
    BY <2>1, <2>4, SameListings
<1>11. ASSUME NEW w \in Site, Ready(w) PROVE RemoteInv'
  <2>1. /\ opening' = [of |-> w, at |-> "posting"] /\ site' = [site EXCEPT ![w].state = "running"]
        /\ UNCHANGED <<shots, disk, onDisk, owned, listings, siteMoves, webStarts>>
    BY <1>11 DEF Ready
  <2>2. loops' \in [Site -> [Loop -> LoopState]] /\ streams' \in [Site -> 0..MaxLoops] /\ OneLoop'
    <3>1. CASE streams[w] # 0
      BY <1>1, <1>11, <3>1 DEF Ready, NotFollowed, RemoteTypeOK, OneLoop, Following
    <3>2. CASE streams[w] = 0
      <4>1. PICK k \in Loop : /\ loops' = [loops EXCEPT ![w][k] = "asking"]
                              /\ streams' = [streams EXCEPT ![w] = k]
        BY <1>11, <3>2, SlotFree DEF Ready, NotFollowed
      <4>2. /\ loops' \in [Site -> [Loop -> LoopState]] /\ streams' \in [Site -> 0..MaxLoops]
            /\ \A v \in Site, i \in Loop : v # w \/ i # k => loops'[v][i] = loops[v][i]
            /\ \A v \in Site : v # w => streams'[v] = streams[v]
            /\ loops'[w][k] = "asking" /\ streams'[w] = k
        BY <1>1, <1>2, <4>1 DEF RemoteTypeOK, LoopState
      <4>3. \A v \in Site : streams[v] # 0 => streams[v] \in Loop
        BY <1>1, RemoteAssumption DEF RemoteTypeOK, Loop
      <4>4. \A i \in Loop : ~Following(w, i)
        BY <1>1, <3>2, RemoteAssumption DEF OneLoop, Loop
      <4>5. QED
        BY <1>1, <4>2, <4>3, <4>4 DEF OneLoop, Following
    <3>3. QED
      BY <3>1, <3>2
  <2>3. site' \in [Site -> [state : SiteState, rev : Rev]]
    BY <1>1, <2>1 DEF RemoteTypeOK, SiteState
  <2>4. RemoteTypeOK'
    BY <1>1, <2>1, <2>2, <2>3 DEF RemoteTypeOK
  <2>5. QED
    BY <2>1, <2>2, <2>4, SameListings
<1>12. CASE WebStarts
  <2>1. /\ shots' = disk /\ owned' = {w \in Site : disk[w] # 0} /\ UNCHANGED <<site, disk, siteMoves>>
        /\ onDisk' = TRUE
        /\ listings' = [p \in Listing |-> NoListing] /\ streams' = [w \in Site |-> 0] /\ loops' = NoLoops
        /\ opening' = NotOpening /\ webStarts' = webStarts + 1 /\ webStarts < MaxWebStarts
    BY <1>12 DEF WebStarts
  <2>2. /\ loops' \in [Site -> [Loop -> LoopState]] /\ streams' \in [Site -> 0..MaxLoops]
        /\ \A w \in Site : streams'[w] = 0 /\ \A i \in Loop : loops'[w][i] = "idle"
    BY <1>2, <2>1 DEF NoLoops, LoopState
  <2>3. OneLoop' /\ ShownOwned' /\ Unsaved'
    BY <2>1, <2>2 DEF OneLoop, Following, ShownOwned, Unsaved
  <2>4. opening' \in [of : Site, at : {"none", "creating", "waiting", "posting"}] /\ webStarts' \in 0..MaxWebStarts
    BY <1>1, <2>1, RemoteAssumption DEF RemoteTypeOK, NotOpening
  <2>5. listings' \in [Listing -> ListingRecord]
    BY <2>1, NoListingTyped
  <2>6. RemoteTypeOK'
    BY <1>1, <2>1, <2>2, <2>4, <2>5 DEF RemoteTypeOK
  <2>7. QED
    BY <2>3, <2>6 DEF RemoteInv
<1>13. CASE OpeningFails
  BY <1>10, <1>13, RemoteAssumption
<1>14. QED
  BY <1>3, <1>4, <1>5, <1>6, <1>7, <1>8, <1>9, <1>10, <1>11, <1>12, <1>13 DEF RemoteNext

LEMMA RemoteOfParts == (PartsInit => RemoteInit) /\ ([PartsNext]_partVars => [RemoteNext]_remoteVars)
BY DEF PartsInit, PartsNext, partVars, linkVars

\* server/remote-workspaces.js: each worker that the map names is followed by one loop, no
\* loop goes on that nobody can stop, and what is shown of a worker can be opened and,
\* unless the last save of it failed, is on disk once no call
\* is under way, in whatever order answers arrive.
THEOREM WorkersFollowedCorrect == PartsSpec => []WorkersFollowed
<1>1. QED
  BY RemoteStarts, RemoteStep, RemoteShown, RemoteOfParts, PTL DEF PartsSpec

(***************************************************************************)
(* Logins at model providers, shared with the workers.                     *)
(***************************************************************************)

TextsKnown ==
    /\ published.known => published.text <= authText
    /\ \A u \in Pushing : pushings[u].text <= authText
\* A call that sent its contents when no other's were out, and none followed.
AloneIsOnly == \A u, o \in Pushing : Sent(u) /\ pushings[u].alone /\ Sent(o) => u = o
OvertakenOrAlone == ~overtaken => \A u \in Pushing : Sent(u) => pushings[u].alone
\* What it wrote stays, and is newer than what was published.
AloneWrites ==
    \A u \in Pushing : Sent(u) /\ pushings[u].alone =>
        /\ \A n \in pushings[u].done : copies[n] = pushings[u].text
        /\ published.known => published.text < pushings[u].text
PublishedIsThere ==
    ~overtaken /\ published.known => published.text < authText \/ \A n \in Copy : copies[n] = published.text

SharedInv == SharedTypeOK /\ TextsKnown /\ AloneIsOnly /\ OvertakenOrAlone /\ AloneWrites /\ PublishedIsThere

PushingRecord == [at : {"idle", "refreshing", "sent", "lost"}, text : Text, done : SUBSET Copy, alone : BOOLEAN]

LEMMA PushingTyped == NoPushing \in PushingRecord
BY SharedAssumption DEF NoPushing, PushingRecord, Text

LEMMA SharedStarts == SharedInit => SharedInv
<1> SUFFICES ASSUME SharedInit PROVE SharedInv
  OBVIOUS
<1>1. SharedTypeOK
  <2>1. 0 \in Text /\ 1 \in Text
    BY SharedAssumption DEF Text
  <2>2. authText \in Text /\ published \in [known : BOOLEAN, text : Text] /\ overtaken \in BOOLEAN
    BY <2>1 DEF SharedInit
  <2>3. copies \in [Copy -> Text] /\ pushings \in [Pushing -> PushingRecord]
    BY <2>1, PushingTyped DEF SharedInit
  <2>4. QED
    BY <2>2, <2>3 DEF SharedTypeOK, PushingRecord
<1>2. \A u \in Pushing : pushings[u].text = 0 /\ ~Sent(u)
  BY DEF SharedInit, Sent, NoPushing
<1>3. QED
  BY <1>1, <1>2 DEF SharedInit, SharedInv, TextsKnown, AloneIsOnly, OvertakenOrAlone, AloneWrites, PublishedIsThere

\* A call that ends, or one that begins, sends nothing.
LEMMA PushingEnds ==
    ASSUME SharedInv, NEW u \in Pushing, NEW r \in PushingRecord,
           r.at \in {"idle", "refreshing"}, r.text <= authText,
           pushings' = [pushings EXCEPT ![u] = r], UNCHANGED <<authText, published, copies, overtaken>>
    PROVE  SharedInv'
<1>1. /\ pushings' \in [Pushing -> PushingRecord] /\ ~Sent(u)'
      /\ \A o \in Pushing : o # u => pushings'[o] = pushings[o] /\ (Sent(o)' <=> Sent(o))
      /\ pushings'[u].text <= authText
  BY DEF SharedInv, SharedTypeOK, PushingRecord, Sent
<1>2. QED
  BY <1>1 DEF SharedInv, SharedTypeOK, PushingRecord, TextsKnown, AloneIsOnly, OvertakenOrAlone, AloneWrites,
     PublishedIsThere

LEMMA SharedStep == SharedInv /\ [SharedNext]_sharedVars => SharedInv'
<1> SUFFICES ASSUME SharedInv, [SharedNext]_sharedVars PROVE SharedInv'
  OBVIOUS
<1> USE SharedAssumption
<1>1. /\ authText \in Nat /\ published.text \in Nat /\ pushings \in [Pushing -> PushingRecord]
      /\ \A u \in Pushing : pushings[u].text \in Nat
  BY DEF SharedInv, SharedTypeOK, PushingRecord, Text
<1>2. CASE UNCHANGED sharedVars
  BY <1>2 DEF sharedVars, SharedInv, SharedTypeOK, TextsKnown, AloneIsOnly, OvertakenOrAlone, AloneWrites,
     PublishedIsThere, Sent
<1>3. CASE LoginChanges
  <2>1. authText' \in Text /\ authText' = authText + 1 /\ UNCHANGED <<published, copies, pushings, overtaken>>
    BY <1>1, <1>3 DEF LoginChanges, Text
  <2>2. QED
    BY <1>1, <2>1 DEF SharedInv, SharedTypeOK, TextsKnown, AloneIsOnly, OvertakenOrAlone, AloneWrites,
       PublishedIsThere, Sent
<1>4. ASSUME NEW u \in Pushing, PushAsked(u) \/ LostEnds(u) PROVE SharedInv'
  <2>1. PICK r \in PushingRecord : /\ r.at \in {"idle", "refreshing"} /\ r.text <= authText
                                   /\ pushings' = [pushings EXCEPT ![u] = r]
    <3>1. 0 <= authText /\ NoPushing.text = 0 /\ NoPushing.at = "idle"
      BY <1>1 DEF NoPushing
    <3>2. CASE PushAsked(u)
      <4> DEFINE r == [NoPushing EXCEPT !.at = "refreshing"]
      <4>1. pushings' = [pushings EXCEPT ![u] = r]
        BY <3>2 DEF PushAsked
      <4>2. r \in PushingRecord /\ r.at = "refreshing" /\ r.text = 0
        BY PushingTyped DEF PushingRecord, NoPushing
      <4> HIDE DEF r
      <4>3. QED
        BY <3>1, <4>1, <4>2
    <3>3. CASE LostEnds(u)
      <4>1. pushings' = [pushings EXCEPT ![u] = NoPushing]
        BY <3>3 DEF LostEnds
      <4>2. QED
        BY <3>1, <4>1, PushingTyped
    <3>4. QED
      BY <1>4, <3>2, <3>3
  <2>2. QED
    BY <1>4, <2>1, PushingEnds DEF PushAsked, LostEnds
<1>5. ASSUME NEW u \in Pushing, PushReads(u) PROVE SharedInv'
  <2>1. authText' \in Text /\ authText <= authText' /\ UNCHANGED <<published, copies>>
    BY <1>1, <1>5 DEF PushReads, Publishes, SharedInv, SharedTypeOK, Text
  <2>2. CASE pushings' = [pushings EXCEPT ![u] = NoPushing] /\ UNCHANGED overtaken
    <3>1. /\ pushings' \in [Pushing -> PushingRecord] /\ ~Sent(u)'
          /\ \A o \in Pushing : o # u => pushings'[o] = pushings[o] /\ (Sent(o)' <=> Sent(o))
          /\ pushings'[u].text = 0
      BY <1>1, <2>2 DEF Sent, NoPushing, PushingRecord, Text
    <3>2. QED
      BY <1>1, <2>1, <2>2, <3>1 DEF SharedInv, SharedTypeOK, PushingRecord, TextsKnown, AloneIsOnly, OvertakenOrAlone,
         AloneWrites, PublishedIsThere, Text
  <2>3. CASE published # [known |-> TRUE, text |-> authText']
    <3> DEFINE alone == \A o \in Pushing : ~Sent(o)
    <3>1. PICK q \in BOOLEAN : q <=> alone
      OBVIOUS
    <3>2. /\ pushings' = [o \in Pushing |-> IF o = u THEN [at |-> "sent", text |-> authText', done |-> {}, alone |-> q]
                                          ELSE [pushings[o] EXCEPT !.alone = FALSE]]
          /\ overtaken' = (overtaken \/ ~q)
      BY <1>5, <2>3, <3>1, Zenon DEF PushReads
    <3>3. /\ pushings' \in [Pushing -> PushingRecord]
          /\ \A o \in Pushing : o # u => /\ pushings'[o].at = pushings[o].at /\ pushings'[o].text = pushings[o].text
                                         /\ ~pushings'[o].alone
          /\ pushings'[u].text = authText' /\ pushings'[u].done = {} /\ pushings'[u].alone = q /\ Sent(u)'
      BY <1>1, <2>1, <3>2 DEF PushingRecord, Sent
    <3>4. \A o \in Pushing : o # u => (Sent(o)' <=> Sent(o))
      BY <3>3 DEF Sent
    <3>5. overtaken' \in BOOLEAN /\ (overtaken' <=> overtaken \/ ~q)
      BY <3>2 DEF SharedInv, SharedTypeOK
    <3>6. published.known => published.text < authText'
      BY <1>1, <2>1, <2>3 DEF SharedInv, SharedTypeOK, TextsKnown
    <3>7. QED
      BY <1>1, <2>1, <3>1, <3>3, <3>4, <3>5, <3>6 DEF SharedInv, SharedTypeOK, PushingRecord, TextsKnown, AloneIsOnly,
         OvertakenOrAlone, AloneWrites, PublishedIsThere
  <2>4. QED
    BY <1>5, <2>2, <2>3 DEF PushReads
<1>6. ASSUME NEW u \in Pushing, NEW n \in Copy, CopyWritten(u, n) PROVE SharedInv'
  <2>1. /\ pushings' \in [Pushing -> PushingRecord] /\ copies' \in [Copy -> Text]
        /\ \A o \in Pushing : /\ pushings'[o].at = pushings[o].at /\ pushings'[o].text = pushings[o].text
                              /\ pushings'[o].alone = pushings[o].alone
                              /\ o # u => pushings'[o].done = pushings[o].done
        /\ pushings'[u].done = pushings[u].done \cup {n}
        /\ \A k \in Copy : copies'[k] = IF k = n THEN pushings[u].text ELSE copies[k]
        /\ UNCHANGED <<authText, published, overtaken>> /\ Sent(u)
    BY <1>1, <1>6 DEF CopyWritten, PushingRecord, SharedInv, SharedTypeOK
  <2>2. \A o \in Pushing : Sent(o)' <=> Sent(o)
    BY <2>1 DEF Sent
  <2>3. ~overtaken /\ published.known => published.text < authText
    BY <1>1, <2>1 DEF SharedInv, TextsKnown, OvertakenOrAlone, AloneWrites
  <2>4. AloneWrites'
    BY <1>1, <2>1, <2>2 DEF SharedInv, AloneIsOnly, AloneWrites, PushingRecord
  <2>5. QED
    BY <1>1, <2>1, <2>2, <2>3, <2>4 DEF SharedInv, SharedTypeOK, PushingRecord, TextsKnown, AloneIsOnly,
       OvertakenOrAlone, PublishedIsThere
<1>7. ASSUME NEW u \in Pushing, PushAnswered(u) PROVE SharedInv'
  <2>1. PICK q \in BOOLEAN : q <=> (overtaken /\ ~pushings[u].alone)
    OBVIOUS
  <2>2. /\ pushings' \in [Pushing -> PushingRecord] /\ ~Sent(u)' /\ Sent(u)
        /\ \A o \in Pushing : o # u => pushings'[o] = pushings[o] /\ (Sent(o)' <=> Sent(o))
        /\ pushings'[u].text = 0 /\ overtaken' = q
        /\ published' = [known |-> TRUE, text |-> pushings[u].text] /\ pushings[u].done = Copy
        /\ UNCHANGED <<authText, copies>>
    BY <1>1, <1>7, <2>1 DEF PushAnswered, Sent, NoPushing, PushingRecord, Text
  <2>3. published' \in [known : BOOLEAN, text : Text] /\ published'.text = pushings[u].text
    BY <1>1, <2>2 DEF PushingRecord
  <2>4. pushings[u].alone => \A o \in Pushing : ~Sent(o)'
    BY <2>2 DEF SharedInv, AloneIsOnly
  <2>5. ~overtaken' => pushings[u].alone
    BY <2>1, <2>2 DEF SharedInv, OvertakenOrAlone
  <2>6. ~overtaken' => \A n \in Copy : copies[n] = pushings[u].text
    BY <2>2, <2>5 DEF SharedInv, AloneWrites
  <2>7. \A o \in Pushing : Sent(o)' => ~pushings'[o].alone
    BY <2>2 DEF SharedInv, AloneIsOnly
  <2>8. QED
    BY <1>1, <2>1, <2>2, <2>3, <2>4, <2>5, <2>6, <2>7 DEF SharedInv, SharedTypeOK, PushingRecord, TextsKnown,
       AloneIsOnly, OvertakenOrAlone, AloneWrites, PublishedIsThere
<1>8. ASSUME NEW u \in Pushing, PushFails(u) PROVE SharedInv'
  <2>1. /\ pushings' \in [Pushing -> PushingRecord]
        /\ \A o \in Pushing : /\ (Sent(o)' <=> Sent(o)) /\ pushings'[o].text = pushings[o].text
                              /\ pushings'[o].alone = pushings[o].alone /\ pushings'[o].done = pushings[o].done
        /\ UNCHANGED <<authText, published, copies, overtaken>>
    BY <1>1, <1>8 DEF PushFails, Sent, PushingRecord
  <2>2. QED
    BY <1>1, <2>1 DEF SharedInv, SharedTypeOK, PushingRecord, TextsKnown, AloneIsOnly, OvertakenOrAlone, AloneWrites,
       PublishedIsThere
<1>9. QED
  BY <1>2, <1>3, <1>4, <1>5, <1>6, <1>7, <1>8 DEF SharedNext

LEMMA SharedShown == SharedInv => LoginsShared
<1> SUFFICES ASSUME SharedInv, published = [known |-> TRUE, text |-> authText], ~overtaken, NEW n \in Copy
             PROVE  copies[n] = authText
  BY DEF LoginsShared
<1>1. published.known /\ published.text = authText /\ authText \in Nat
  BY SharedAssumption DEF SharedInv, SharedTypeOK, Text
<1>2. QED
  BY <1>1 DEF SharedInv, PublishedIsThere

LEMMA SharedOfParts == (PartsInit => SharedInit) /\ ([PartsNext]_partVars => [SharedNext]_sharedVars)
BY DEF PartsInit, PartsNext, partVars, linkVars

\* server/remote-workspaces.js, pushModelAuth: what is not sent again has arrived everywhere.
THEOREM LoginsSharedCorrect == PartsSpec => []LoginsShared
<1>1. QED
  BY SharedStarts, SharedStep, SharedShown, SharedOfParts, PTL DEF PartsSpec

(***************************************************************************)
(* A page that lost its server.                                            *)
(***************************************************************************)

\* Without a network the event that says so is still to come.
LossComes == reconnecting /\ ~onLine => StillComes("offline")
LossEnds ==
    \A n \in 1..Len(linkEvents) :
        linkEvents[n] = "offline" => ~onLine \/ \E m \in (n + 1)..Len(linkEvents) : linkEvents[m] = "online"

RecoveryInv == RecoveryTypeOK /\ RecoveryGoesOn /\ LossComes /\ LossEnds

LEMMA RecoveryStarts == RecoveryInit => RecoveryInv
<1> SUFFICES ASSUME RecoveryInit PROVE RecoveryInv
  OBVIOUS
<1>1. /\ linkEvents \in Seq({"offline", "online"}) /\ Len(linkEvents) = 0
      /\ linkChanges \in 0..MaxLinkChanges /\ downtimes \in 0..MaxDowntimes /\ resumes \in 0..MaxResumes
  BY RecoveryAssumption DEF RecoveryInit
<1>2. RecoveryTypeOK
  BY <1>1 DEF RecoveryInit, RecoveryTypeOK
<1>3. reconnecting = FALSE /\ (offline => ~onLine)
  BY DEF RecoveryInit
<1>4. QED
  BY <1>1, <1>2, <1>3 DEF RecoveryInv, RecoveryGoesOn, LossComes, LossEnds

\* The events that come are the ones that came before, as long as nobody adds or takes one.
LEMMA SameLink ==
    ASSUME RecoveryInv, RecoveryTypeOK', UNCHANGED <<onLine, linkEvents>>,
           reconnecting' => (reconnecting \/ onLine),
           reconnecting' => recoveryTimer' \/ inFlight' # "none" \/ reloadIssued' \/ StillComes("offline"),
           offline' => (offline \/ ~onLine)
    PROVE  RecoveryInv'
BY DEF RecoveryInv, RecoveryGoesOn, LossComes, LossEnds, StillComes

LEMMA RecoveryStep == RecoveryInv /\ [RecoveryNext]_recoveryVars => RecoveryInv'
<1> SUFFICES ASSUME RecoveryInv, [RecoveryNext]_recoveryVars PROVE RecoveryInv'
  OBVIOUS
<1> USE RecoveryAssumption
<1>1. RecoveryTypeOK /\ linkEvents \in Seq({"offline", "online"})
  BY DEF RecoveryInv, RecoveryTypeOK
<1>2. /\ reconnecting => recoveryTimer \/ inFlight # "none" \/ reloadIssued \/ StillComes("offline")
      /\ offline => ~onLine \/ StillComes("online")
      /\ reconnecting /\ ~onLine => StillComes("offline")
  BY DEF RecoveryInv, RecoveryGoesOn, LossComes
<1>3. CASE UNCHANGED recoveryVars
  BY <1>1, <1>2, <1>3, SameLink DEF recoveryVars, bounds, RecoveryTypeOK
<1>4. CASE LinkChanges
  <2> DEFINE e == IF onLine THEN "offline" ELSE "online"
  <2>1. /\ linkEvents' = Append(linkEvents, e) /\ onLine' = ~onLine /\ e \in {"offline", "online"}
        /\ UNCHANGED <<recoveryTimer, inFlight, reloadIssued, reconnecting, offline>>
    BY <1>4 DEF LinkChanges
  <2>2. RecoveryTypeOK'
    BY <1>1, <1>4, <2>1 DEF LinkChanges, RecoveryTypeOK
  <2>3. /\ Len(linkEvents') = Len(linkEvents) + 1 /\ Len(linkEvents) \in Nat /\ linkEvents'[Len(linkEvents) + 1] = e
        /\ \A n \in 1..Len(linkEvents) : linkEvents'[n] = linkEvents[n]
    BY <1>1, <2>1
  <2>4. \A s \in {"offline", "online"} : StillComes(s)' <=> StillComes(s) \/ s = e
    BY <2>3 DEF StillComes
  <2>5. LossEnds'
    <3> SUFFICES ASSUME NEW n \in 1..Len(linkEvents'), linkEvents'[n] = "offline", onLine'
                 PROVE  \E m \in (n + 1)..Len(linkEvents') : linkEvents'[m] = "online"
      BY DEF LossEnds
    <3>1. e = "online" /\ n # Len(linkEvents) + 1
      BY <2>1, <2>3
    <3>2. QED
      BY <2>3, <3>1
  <2>6. QED
    BY <1>1, <1>2, <2>1, <2>2, <2>4, <2>5 DEF RecoveryInv, RecoveryGoesOn, LossComes
<1>5. CASE ServerChanges
  <2>1. RecoveryTypeOK'
    BY <1>1, <1>5 DEF ServerChanges, RecoveryTypeOK
  <2>2. UNCHANGED <<onLine, linkEvents, recoveryTimer, inFlight, reloadIssued, reconnecting, offline>>
    BY <1>5 DEF ServerChanges
  <2>3. QED
    BY <1>2, <2>1, <2>2, SameLink
<1>6. CASE TimerFires
  <2>1. RecoveryTypeOK'
    BY <1>1, <1>6 DEF TimerFires, Asks, bounds, RecoveryTypeOK
  <2>2. QED
    BY <1>2, <1>6, <2>1, SameLink DEF TimerFires, Asks, bounds
<1>7. CASE HealthAnswered
  <2>1. /\ UNCHANGED <<onLine, linkEvents, server, eventSource, linkChanges, downtimes, resumes>>
        /\ \/ inFlight' = "none" /\ reloadIssued' = TRUE /\ UNCHANGED <<recoveryTimer, reconnecting, offline>>
           \/ inFlight' = "state" /\ UNCHANGED <<recoveryTimer, reloadIssued, reconnecting, offline>>
           \/ inFlight' = "none" /\ recoveryTimer' = FALSE /\ reconnecting' = FALSE /\ offline' = FALSE
              /\ UNCHANGED reloadIssued
    BY <1>7 DEF HealthAnswered, StopRecovery, bounds
  <2>2. RecoveryTypeOK'
    BY <1>1, <2>1 DEF RecoveryTypeOK
  <2>3. QED
    BY <1>2, <2>1, <2>2, SameLink
<1>8. CASE StateRefreshed
  <2>1. RecoveryTypeOK'
    BY <1>1, <1>8 DEF StateRefreshed, StopRecovery, bounds, RecoveryTypeOK
  <2>2. QED
    BY <1>2, <1>8, <2>1, SameLink DEF StateRefreshed, StopRecovery, bounds
<1>9. CASE AttemptFails
  <2>1. RecoveryTypeOK'
    BY <1>1, <1>9 DEF AttemptFails, Reschedules, bounds, RecoveryTypeOK
  <2>2. QED
    BY <1>2, <1>9, <2>1, SameLink DEF AttemptFails, Reschedules, bounds
<1>10. CASE SourceOpens
  <2>1. RecoveryTypeOK'
    BY <1>1, <1>10 DEF SourceOpens, Reachable, Asks, bounds, RecoveryTypeOK
  <2>2. QED
    BY <1>2, <1>10, <2>1, SameLink DEF SourceOpens, Reachable, Asks, bounds
<1>11. CASE SourceBreaks
  <2>1. RecoveryTypeOK'
    BY <1>1, <1>11 DEF SourceBreaks, StartRecovery, bounds, RecoveryTypeOK
  <2>2. QED
    BY <1>2, <1>11, <2>1, SameLink DEF SourceBreaks, StartRecovery, bounds
<1>12. ASSUME linkEvents # <<>>, linkEvents' = Tail(linkEvents)
       PROVE  /\ linkEvents' \in Seq({"offline", "online"})
              /\ \A s \in {"offline", "online"} : StillComes(s) => Head(linkEvents) = s \/ StillComes(s)'
              /\ onLine' = onLine => LossEnds'
              /\ Head(linkEvents) = "offline" /\ onLine => StillComes("online")'
  <2>1. /\ linkEvents' \in Seq({"offline", "online"}) /\ Len(linkEvents') = Len(linkEvents) - 1 /\ Len(linkEvents) \in Nat
        /\ \A n \in 1..Len(linkEvents') : linkEvents'[n] = linkEvents[n + 1]
        /\ Len(linkEvents) >= 1 /\ Head(linkEvents) = linkEvents[1]
    BY <1>1, <1>12
  <2>2. \A n \in 2..Len(linkEvents) : n - 1 \in 1..Len(linkEvents') /\ linkEvents'[n - 1] = linkEvents[n]
    BY <2>1
  <2>3. \A s \in {"offline", "online"} : StillComes(s) => Head(linkEvents) = s \/ StillComes(s)'
    BY <2>1, <2>2 DEF StillComes
  <2>4. \A n \in 1..Len(linkEvents) : linkEvents[n] = "offline" /\ onLine =>
          \E m \in (n + 1)..Len(linkEvents) : linkEvents[m] = "online"
    BY DEF RecoveryInv, LossEnds
  <2>5. ASSUME onLine' = onLine PROVE LossEnds'
    <3> SUFFICES ASSUME NEW n \in 1..Len(linkEvents'), linkEvents'[n] = "offline", onLine
                 PROVE  \E m \in (n + 1)..Len(linkEvents') : linkEvents'[m] = "online"
      BY <2>5 DEF LossEnds
    <3>1. PICK m \in (n + 2)..Len(linkEvents) : linkEvents[m] = "online"
      BY <2>1, <2>4
    <3>2. m - 1 \in (n + 1)..Len(linkEvents') /\ linkEvents'[m - 1] = "online"
      BY <2>1, <2>2, <3>1
    <3>3. QED
      BY <3>2
  <2>6. ASSUME Head(linkEvents) = "offline", onLine PROVE StillComes("online")'
    <3>1. PICK m \in 2..Len(linkEvents) : linkEvents[m] = "online"
      BY <2>1, <2>4, <2>6
    <3>2. QED
      BY <2>2, <3>1 DEF StillComes
  <2>7. QED
    BY <2>1, <2>3, <2>5, <2>6
<1>13. CASE OfflineHandled
  <2>1. /\ linkEvents # <<>> /\ Head(linkEvents) = "offline" /\ linkEvents' = Tail(linkEvents)
        /\ offline' = TRUE /\ reconnecting' = FALSE /\ onLine' = onLine
    BY <1>13 DEF OfflineHandled
  <2>2. RecoveryTypeOK'
    BY <1>1, <1>12, <1>13, <2>1 DEF OfflineHandled, bounds, RecoveryTypeOK
  <2>3. QED
    BY <1>12, <2>1, <2>2 DEF RecoveryInv, RecoveryGoesOn, LossComes
<1>14. CASE OnlineHandled
  <2>1. /\ linkEvents # <<>> /\ Head(linkEvents) = "online" /\ linkEvents' = Tail(linkEvents)
        /\ offline' = ~onLine /\ reconnecting' = (reconnecting /\ onLine) /\ onLine' = onLine
        /\ UNCHANGED <<recoveryTimer, reloadIssued>> /\ inFlight' \in {inFlight, "health"}
    BY <1>14 DEF OnlineHandled, Resume, Asks
  <2>2. RecoveryTypeOK'
    BY <1>1, <1>12, <1>14, <2>1 DEF OnlineHandled, Resume, RecoveryTypeOK
  <2>3. StillComes("offline") => StillComes("offline")'
    BY <1>12, <2>1
  <2>4. QED
    BY <1>2, <1>12, <2>1, <2>2, <2>3 DEF RecoveryInv, RecoveryGoesOn, LossComes
<1>15. CASE Resumed
  <2>1. /\ offline' = ~onLine /\ reconnecting' = (reconnecting /\ onLine) /\ UNCHANGED <<onLine, linkEvents>>
        /\ UNCHANGED <<recoveryTimer, reloadIssued>> /\ inFlight' \in {inFlight, "health"}
    BY <1>15 DEF Resumed, Resume, Asks
  <2>2. RecoveryTypeOK'
    BY <1>1, <1>15, <2>1 DEF Resumed, Resume, RecoveryTypeOK
  <2>3. QED
    BY <1>1, <1>2, <2>1, <2>2, SameLink
<1>16. QED
  BY <1>3, <1>4, <1>5, <1>6, <1>7, <1>8, <1>9, <1>10, <1>11, <1>13, <1>14, <1>15 DEF RecoveryNext

LEMMA RecoveryOfParts == (PartsInit => RecoveryInit) /\ ([PartsNext]_partVars => [RecoveryNext]_recoveryVars)
BY DEF PartsInit, PartsNext, partVars, linkVars

\* public/js/api.js: a page that says it reconnects goes on trying, and one that says it
\* is offline is, or is about to hear that it is not.
THEOREM RecoveryGoesOnCorrect == PartsSpec => []RecoveryGoesOn
<1>1. RecoveryInv => RecoveryGoesOn
  BY DEF RecoveryInv
<1>2. QED
  BY <1>1, RecoveryStarts, RecoveryStep, RecoveryOfParts, PTL DEF PartsSpec

(***************************************************************************)
(* The Pi configuration.                                                   *)
(***************************************************************************)

CallRecord ==
    [at : {"free", "ref", "settings", "resources", "done"}, src : Source \cup {NoSource}, ref : Ref,
     status : {"none", "loaded", "cached", "error"}, settings : Content, resources : Content]

SessionRecord ==
    [at : {"none", "queued", "resolving", "again", "loading", "opening", "live"},
     call : Resolve \cup {NoResolve},
     mode : {"all", "known", "probe", "working", "without"},
     todo : SUBSET Package, works : SUBSET Package, with : Content,
     status : {"none", "loaded", "cached", "error"}, packs : SUBSET Package]

PiCounted ==
    [reloads : 0..MaxReloads, faults : 0..MaxPiFaults, pushes : 0..MaxPushes, breaks : 0..MaxBreaks]

\* A content of profile s, and not nothing.
IsOf(content, s) == content[1] = s /\ s # NoSource

\* A call answers what is of its own profile, or nothing; and not nothing
\* when it was loaded or cached.
CallOk(c) ==
    /\ c.at \in {"ref", "settings", "resources"} => c.src \in Remote
    /\ c.at = "resources" => IsOf(c.settings, c.src)
    /\ c.at = "done" =>
         /\ c.settings = Nothing \/ IsOf(c.settings, c.src)
         /\ c.resources = Nothing \/ (IsOf(c.resources, c.src) /\ c.src \in Remote)
         /\ c.status \in {"loaded", "cached"} => IsOf(c.settings, c.src)

CacheOk ==
    profileCache.src # NoSource =>
        IsOf(profileCache.settings, profileCache.src) /\ IsOf(profileCache.resources, profileCache.src)

\* The remembered call is of the profile it is remembered for; any other under
\* way for that profile was so when the remembered one began.
RememberedOk ==
    resolved.call # NoResolve =>
        /\ resolves[resolved.call].at # "free"
        /\ resolves[resolved.call].src = resolved.src
        /\ \A q \in Resolve : UnderWay(q) /\ q # resolved.call /\ resolves[q].src = resolved.src
               => resolved.src \in crossed

CallsInv == CacheOk /\ RememberedOk /\ NamedIsThere /\ \A r \in Resolve : CallOk(resolves[r])

\* What a session waits for is not forgotten; one whose turn has not come
\* holds nothing.
SessionHolds(k) ==
    /\ session[k].call # NoResolve => resolves[session[k].call].at # "free"
    /\ session[k].at \in {"none", "queued"} =>
         /\ session[k].call = NoResolve
         /\ session[k].packs = {} /\ session[k].todo = {} /\ session[k].works = {}

\* A call of profile s, begun when it held push n.
CallFresh(c, s, n) ==
    /\ c.src = s
    /\ c.at = "resources" \/ (c.at = "done" /\ c.status = "loaded") => c.settings[2] >= n

PacksOf(P, s) == \A p \in P : p[1] = s

RunsWith(run, s, n) ==
    run.at \in {"loading", "opening", "live"} =>
        /\ run.with # Nothing => run.with[1] = s
        /\ run.status = "loaded" => run.with[2] >= n
        /\ run.packs \subseteq PackagesOf(run.with)

SessionFresh(run, s, n) ==
    /\ PacksOf(run.packs, s) /\ PacksOf(run.todo, s) /\ PacksOf(run.works, s)
    /\ RunsWith(run, s, n)

\* Since the last reload, if that found no session being created.
SinceReload ==
    /\ floor[1] = saved
    /\ saved # NoSource => head[saved] >= floor[2]
    /\ resolved.call # NoResolve /\ resolved.src = saved => CallFresh(resolves[resolved.call], saved, floor[2])
    /\ PacksOf(packages.works, saved)
    /\ \A k \in PiSession :
         /\ session[k].call # NoResolve => CallFresh(resolves[session[k].call], saved, floor[2])
         /\ SessionFresh(session[k], saved, floor[2])

PiInv ==
    /\ PiTypeOK
    /\ \A s \in Source : head[s] <= piBudget.pushes + 1
    /\ CallsInv
    /\ \A k \in PiSession : SessionHolds(k)
    /\ ~mixed /\ ~reloading => SinceReload
    /\ LocalKept

LEMMA PiKinds ==
    /\ PiTypeOK <=>
         /\ saved \in Source \cup {NoSource}
         /\ head \in [Source -> 1..(MaxPushes + 1)]
         /\ resolves \in [Resolve -> CallRecord]
         /\ resolved \in [src : Source \cup {NoSource}, call : Resolve \cup {NoResolve}]
         /\ profileCache \in [src : Remote \cup {NoSource}, ref : Ref, settings : Content, resources : Content]
         /\ roots \in [Location -> Content]
         /\ broken \subseteq Package
         /\ packages \in [failed : BOOLEAN, works : SUBSET Package]
         /\ creating \in Seq(PiSession)
         /\ session \in [PiSession -> SessionRecord]
         /\ reloading \in BOOLEAN
         /\ local \in Settings
         /\ piBudget \in PiCounted
         /\ piTrouble \in {"network", "packages"}
         /\ mixed \in BOOLEAN /\ crossed \subseteq Remote
         /\ floor \in Content
    /\ Nothing \in Content /\ FreeResolve \in CallRecord /\ NoSession \in SessionRecord
    /\ \A s \in Source : \A n \in 1..(MaxPushes + 1) : <<s, n>> \in Content
    /\ \A c \in Content : c[1] \in Source \cup {NoSource} /\ c[2] \in Nat
                          /\ (c[1] = NoSource <=> c = Nothing) /\ PackagesOf(c) \in SUBSET Package
    /\ \A c \in Content : c[1] # NoSource => c[2] \in 1..(MaxPushes + 1)
<1> USE PiAssumption DEF PiCounted
<1>1. Nothing \in Content
  BY DEF Nothing, Content
<1>2. \A s \in Source : \A n \in 1..(MaxPushes + 1) : <<s, n>> \in Content
  BY DEF Content
<1>3. \A c \in Content : c[1] \in Source \cup {NoSource} /\ c[2] \in Nat
                          /\ (c[1] = NoSource <=> c = Nothing) /\ PackagesOf(c) \in SUBSET Package
  BY DEF Content, Nothing, PackagesOf
<1>4. \A c \in Content : c[1] # NoSource => c[2] \in 1..(MaxPushes + 1)
  BY DEF Content
<1>5. FreeResolve \in CallRecord /\ NoSession \in SessionRecord
  BY <1>1 DEF FreeResolve, NoSession, CallRecord, SessionRecord, Ref, NoResolve
<1>6. QED
  BY <1>1, <1>2, <1>3, <1>4, <1>5 DEF PiTypeOK, CallRecord, SessionRecord

LEMMA PiStarts == PiInit => PiInv
<1> SUFFICES ASSUME PiInit PROVE PiInv
  OBVIOUS
<1> USE PiAssumption DEF PiCounted
<1>1. saved \in Source \cup {NoSource} /\ AtHead(saved) \in Content
      /\ AtHead(saved)[1] = saved /\ (saved # NoSource => head[saved] >= AtHead(saved)[2])
  <2>1. saved \in Source \cup {NoSource}
    BY DEF PiInit
  <2>2. saved # NoSource => head[saved] = 1
    BY <2>1 DEF PiInit
  <2>3. QED
    BY <2>1, <2>2 DEF AtHead, Content
<1>2. PiTypeOK
  <2>1. resolves \in [Resolve -> CallRecord] /\ session \in [PiSession -> SessionRecord]
        /\ roots \in [Location -> Content]
    BY PiKinds DEF PiInit
  <2>2. /\ resolved \in [src : Source \cup {NoSource}, call : Resolve \cup {NoResolve}]
        /\ profileCache \in [src : Remote \cup {NoSource}, ref : Ref, settings : Content, resources : Content]
        /\ packages \in [failed : BOOLEAN, works : SUBSET Package]
        /\ creating \in Seq(PiSession)
    BY PiKinds DEF PiInit, AllUntried, Ref
  <2>3. /\ head \in [Source -> 1..(MaxPushes + 1)]
        /\ piBudget \in PiCounted
    BY DEF PiInit
  <2>4. /\ broken \subseteq Package /\ reloading \in BOOLEAN /\ local \in Settings
        /\ piTrouble \in {"network", "packages"} /\ mixed \in BOOLEAN /\ crossed \subseteq Remote
        /\ floor \in Content
    BY <1>1, PiKinds DEF PiInit, Settings
  <2>5. QED
    BY <1>1, <2>1, <2>2, <2>3, <2>4, PiKinds
<1>3. CallsInv
  BY DEF PiInit, CallsInv, CacheOk, RememberedOk, NamedIsThere, CallOk, FreeResolve, NoResolve
<1>4. \A k \in PiSession : SessionHolds(k)
  BY DEF PiInit, SessionHolds, NoSession
<1>5. SinceReload
  BY <1>1 DEF PiInit, SinceReload, SessionFresh, PacksOf, RunsWith, NoSession, AllUntried
<1>6. QED
  BY <1>2, <1>3, <1>4, <1>5 DEF PiInit, PiInv, LocalKept

LEMMA BegunCall ==
    ASSUME PiTypeOK, NEW s \in Source \cup {NoSource}, NEW c \in Begun(s)
    PROVE  /\ c \in CallRecord /\ CallOk(c) /\ c.src = s
           /\ c.at # "free" /\ c.resources = Nothing
           /\ c.at \in {"ref", "settings", "resources"} => s \in Remote
           /\ \A n \in Nat : (s # NoSource => head[s] >= n) => CallFresh(c, s, n)
<1> USE PiAssumption DEF PiCounted
<1>1. FreeResolve \in CallRecord /\ Nothing \in Content /\ (s \in Source => <<s, head[s]>> \in Content)
  BY PiKinds
<1>2. c \in CallRecord
  BY <1>1 DEF Begun, CallRecord, FreeResolve
<1>3. CASE s \in Remote
  BY <1>2, <1>3 DEF Begun, CallOk, CallFresh, FreeResolve
<1>4. CASE s = NoSource
  BY <1>2, <1>4 DEF Begun, CallOk, CallFresh, FreeResolve
<1>5. CASE s \notin Remote /\ s # NoSource
  <2>1. CASE c = [FreeResolve EXCEPT !.at = "done", !.src = s, !.status = "loaded", !.settings = <<s, head[s]>>]
    <3>1. /\ c.at = "done" /\ c.src = s /\ c.status = "loaded" /\ c.resources = Nothing
          /\ c.settings[1] = s /\ c.settings[2] = head[s]
      BY <2>1 DEF FreeResolve
    <3>2. QED
      BY <1>2, <1>5, <3>1 DEF CallOk, CallFresh, IsOf
  <2>2. CASE c = [FreeResolve EXCEPT !.at = "done", !.src = s, !.status = "error"]
    BY <1>2, <1>5, <2>2 DEF CallOk, CallFresh, FreeResolve
  <2>3. QED
    BY <1>5, <2>1, <2>2 DEF Begun
<1>6. QED
  BY <1>3, <1>4, <1>5

\* resolve(): what others wait for stays; the call that is remembered, old or
\* new, is of the profile that is saved.
LEMMA AskedCall ==
    ASSUME PiTypeOK, CallsInv, NEW r \in Resolve, NEW force \in BOOLEAN, NEW wanted,
           ResolveAsked(r, force, wanted), UNCHANGED <<profileCache, roots>>
    PROVE  /\ resolves' \in [Resolve -> CallRecord]
           /\ resolved' = [src |-> saved, call |-> r] /\ crossed' \subseteq Remote
           /\ CallsInv'
           /\ resolves'[r].at # "free" /\ resolves'[r].src = saved
           /\ \A q \in wanted \cap Resolve : resolves[q].at # "free" => resolves'[q] = resolves[q]
           /\ \A n \in Nat :
                 /\ saved # NoSource => head[saved] >= n
                 /\ ~force /\ resolved.call # NoResolve /\ resolved.src = saved
                        => CallFresh(resolves[resolved.call], saved, n)
                 => CallFresh(resolves'[r], saved, n)
<1> USE PiAssumption DEF PiCounted
<1> DEFINE others == Forgotten(resolves, wanted)
           again == ~force /\ resolved.call # NoResolve /\ resolved.src = saved
<1>0. /\ resolves \in [Resolve -> CallRecord] /\ saved \in Source \cup {NoSource}
      /\ resolved \in [src : Source \cup {NoSource}, call : Resolve \cup {NoResolve}]
      /\ FreeResolve \in CallRecord /\ crossed \subseteq Remote
      /\ CacheOk /\ RememberedOk /\ NamedIsThere /\ \A q \in Resolve : CallOk(resolves[q])
  BY PiKinds DEF CallsInv
<1>1. CASE again
  <2>1. r = resolved.call /\ UNCHANGED <<resolves, resolved, crossed>>
    BY <1>1 DEF ResolveAsked
  <2>2. resolved = [src |-> saved, call |-> r]
    BY <1>0, <1>1, <2>1
  <2>3. CallsInv'
    BY <2>1 DEF CallsInv, CacheOk, RememberedOk, NamedIsThere, UnderWay
  <2>4. resolves[r].at # "free" /\ resolves[r].src = saved
    BY <1>0, <1>1, <2>1 DEF RememberedOk, NoResolve
  <2>5. QED
    BY <1>0, <1>1, <2>1, <2>2, <2>3, <2>4
<1>2. CASE ~again
  <2>0. ResolveAsked(r, force, wanted) <=>
           /\ r \in {q \in Resolve : others[q].at = "free"}
           /\ \A q \in {q \in Resolve : others[q].at = "free"} : r <= q
           /\ \E c \in Begun(saved) : resolves' = [others EXCEPT ![r] = c]
           /\ resolved' = [src |-> saved, call |-> r]
           /\ crossed' = crossed \cup {s \in Remote : s = saved /\ \E q \in Resolve : UnderWay(q) /\ resolves[q].src = s}
    BY <1>2, Zenon DEF ResolveAsked
  <2>1. PICK c \in Begun(saved) : resolves' = [others EXCEPT ![r] = c]
    BY <2>0
  <2>2. /\ others[r].at = "free" /\ resolved' = [src |-> saved, call |-> r]
        /\ crossed' = crossed \cup {s \in Remote : s = saved /\ \E q \in Resolve : UnderWay(q) /\ resolves[q].src = s}
    BY <2>0
  <2>3. /\ c \in CallRecord /\ CallOk(c) /\ c.src = saved /\ c.at # "free" /\ c.resources = Nothing
        /\ c.at \in {"ref", "settings", "resources"} => saved \in Remote
        /\ \A n \in Nat : (saved # NoSource => head[saved] >= n) => CallFresh(c, saved, n)
    BY <1>0, BegunCall
  <2>4. /\ others \in [Resolve -> CallRecord]
        /\ \A q \in Resolve : others[q] = resolves[q] \/ others[q] = FreeResolve
        /\ \A q \in wanted \cap Resolve : others[q] = resolves[q]
    BY <1>0 DEF Forgotten
  <2>5. /\ resolves' \in [Resolve -> CallRecord] /\ resolves'[r] = c
        /\ \A q \in Resolve \ {r} : resolves'[q] = resolves[q] \/ resolves'[q] = FreeResolve
        /\ \A q \in wanted \cap Resolve : resolves[q].at # "free" => resolves'[q] = resolves[q]
    BY <2>1, <2>2, <2>3, <2>4
  <2>6. \A q \in Resolve : CallOk(resolves'[q])
    BY <1>0, <2>3, <2>5 DEF CallOk, FreeResolve
  <2>7. RememberedOk'
    <3>1. ASSUME NEW q \in Resolve, resolves'[q].at \in {"ref", "settings", "resources"}, q # r, resolves'[q].src = saved
          PROVE  saved \in crossed'
      <4>1. resolves'[q] = resolves[q]
        BY <2>5, <3>1 DEF FreeResolve
      <4>2. saved \in Remote
        BY <1>0, <3>1, <4>1 DEF CallOk
      <4>3. QED
        BY <2>2, <3>1, <4>1, <4>2 DEF UnderWay
    <3>2. QED
      BY <2>2, <2>3, <2>5, <3>1 DEF RememberedOk, UnderWay
  <2>8. NamedIsThere'
    BY <2>2, <2>3, <2>5 DEF NamedIsThere
  <2>9. CallsInv'
    BY <1>0, <2>6, <2>7, <2>8 DEF CallsInv, CacheOk
  <2>10. QED
    BY <1>0, <1>2, <2>2, <2>3, <2>5, <2>9
<1>3. QED
  BY <1>1, <1>2

\* A call ends: what others wait for stays, and what the remembered one names
\* is on disk.
LEMMA EndedCall ==
    ASSUME PiTypeOK, CallsInv, NEW r \in Resolve, UnderWay(r),
           NEW status \in {"loaded", "cached", "error"}, NEW settings \in Content, NEW resources \in Content,
           Ends(r, status, settings, resources), UNCHANGED <<resolved, crossed>>,
           settings = Nothing \/ IsOf(settings, resolves[r].src),
           resources = Nothing \/ IsOf(resources, resolves[r].src),
           status \in {"loaded", "cached"} => IsOf(settings, resolves[r].src),
           (resources = Nothing /\ roots' = roots) \/ Materialized(resolves[r], resources)
    PROVE  /\ resolves' \in [Resolve -> CallRecord] /\ roots' \in [Location -> Content]
           /\ \A q \in Resolve : CallOk(resolves'[q])
           /\ RememberedOk' /\ NamedIsThere'
           /\ \A q \in (AwaitedBy(PiSession) \cup {resolved.call}) \cap Resolve :
                 IF q = r
                 THEN /\ resolves'[q].at = "done" /\ resolves'[q].src = resolves[q].src
                      /\ resolves'[q].status = status /\ resolves'[q].settings = settings
                 ELSE resolves'[q] = resolves[q]
<1> USE PiAssumption DEF PiCounted
<1> DEFINE c == resolves[r]
           wanted == AwaitedBy(PiSession) \cup {resolved.call}
<1>0. /\ resolves \in [Resolve -> CallRecord] /\ roots \in [Location -> Content]
      /\ resolved \in [src : Source \cup {NoSource}, call : Resolve \cup {NoResolve}]
      /\ FreeResolve \in CallRecord
      /\ RememberedOk /\ NamedIsThere /\ \A q \in Resolve : CallOk(resolves[q])
      /\ c \in CallRecord /\ c.src \in Remote /\ c.at \in {"ref", "settings", "resources"}
  BY PiKinds DEF CallsInv, CallOk, UnderWay
<1> DEFINE e == [c EXCEPT !.at = "done", !.status = status, !.settings = settings, !.resources = resources]
           ended == [resolves EXCEPT ![r] = e]
<1>1. e \in CallRecord /\ CallOk(e) /\ e.at = "done" /\ e.src = c.src /\ e.ref = c.ref
      /\ e.status = status /\ e.settings = settings /\ e.resources = resources
  BY <1>0 DEF CallRecord, CallOk
<1>2. resolves' = [q \in Resolve |-> IF ended[q].at = "done" /\ q \notin wanted THEN FreeResolve ELSE ended[q]]
  <2>1. [resolves EXCEPT ![r].at = "done", ![r].status = status, ![r].settings = settings,
                         ![r].resources = resources] = ended
    BY <1>0
  <2>2. QED
    BY <2>1 DEF Ends, Forgotten
<1>3. ended \in [Resolve -> CallRecord] /\ ended[r] = e /\ \A q \in Resolve \ {r} : ended[q] = resolves[q]
  BY <1>0, <1>1
<1>4. /\ resolves' \in [Resolve -> CallRecord]
      /\ \A q \in Resolve : resolves'[q] = ended[q] \/ resolves'[q] = FreeResolve
      /\ \A q \in wanted \cap Resolve : resolves'[q] = ended[q]
  BY <1>0, <1>2, <1>3
<1>5. \A q \in Resolve : CallOk(resolves'[q])
  <2>1. CallOk(FreeResolve)
    BY DEF CallOk, FreeResolve
  <2>2. QED
    BY <1>0, <1>1, <1>3, <1>4, <2>1
<1>6. RememberedOk'
  <2>1. ASSUME NEW q \in Resolve, resolves'[q].at \in {"ref", "settings", "resources"}
        PROVE  resolves'[q] = resolves[q]
    <3>1. resolves'[q] # FreeResolve
      BY <2>1 DEF FreeResolve
    <3>2. resolves'[q] = ended[q] /\ q # r
      BY <1>1, <1>3, <1>4, <2>1, <3>1
    <3>3. QED
      BY <1>3, <3>2
  <2>2. resolved.call # NoResolve => resolves'[resolved.call].at # "free" /\ resolves'[resolved.call].src = resolved.src
    BY <1>0, <1>1, <1>3, <1>4 DEF RememberedOk
  <2>3. QED
    BY <1>0, <2>1, <2>2 DEF RememberedOk, UnderWay
<1>7. roots' \in [Location -> Content]
  BY <1>0 DEF Materialized
<1>8. NamedIsThere'
  <2> SUFFICES ASSUME NEW q \in Resolve, q = resolved.call, resolves'[q].at = "done",
                      resolves'[q].resources # Nothing, resolves'[q].src \notin crossed
               PROVE  roots'[<<resolves'[q].src, resolves'[q].ref>>] = resolves'[q].resources
    BY DEF NamedIsThere
  <2>1. resolves'[q] = ended[q]
    BY <1>4
  <2>2. CASE q = r
    <3>1. resolves'[q] = e /\ resources # Nothing /\ <<c.src, c.ref>> \in Location
      BY <1>0, <1>3, <2>1, <2>2 DEF Location, CallRecord
    <3>2. QED
      BY <1>0, <1>1, <3>1 DEF Materialized
  <2>3. CASE q # r
    <3>1. resolves'[q] = resolves[q]
      BY <1>3, <2>1, <2>3
    <3>2. resolves[q].src \in Remote /\ resolves[q].ref \in Ref
      BY <1>0, <3>1 DEF CallOk, CallRecord
    <3>3. resolves[q].src # c.src
      <4>1. resolved.call # NoResolve
        BY DEF NoResolve, Resolve
      <4>2. QED
        BY <1>0, <2>3, <3>1, <4>1 DEF RememberedOk, UnderWay
    <3>4. roots'[<<resolves[q].src, resolves[q].ref>>] = roots[<<resolves[q].src, resolves[q].ref>>]
      <4>1. <<resolves[q].src, resolves[q].ref>> \in Location /\ <<resolves[q].src, resolves[q].ref>> # <<c.src, c.ref>>
        BY <3>2, <3>3 DEF Location
      <4>2. QED
        BY <1>0, <4>1 DEF Materialized
    <3>5. QED
      BY <1>0, <3>1, <3>4 DEF NamedIsThere
  <2>4. QED
    BY <2>2, <2>3
<1>9. QED
  BY <1>1, <1>3, <1>4, <1>5, <1>6, <1>7, <1>8

\* One answer to a call: it goes on, or ends with what is of its profile.
LEMMA CallMoves ==
    ASSUME PiInv, NEW r \in Resolve, ResolveStep(r)
    PROVE  /\ resolves' \in [Resolve -> CallRecord] /\ roots' \in [Location -> Content]
           /\ profileCache' \in [src : Remote \cup {NoSource}, ref : Ref, settings : Content, resources : Content]
           /\ CallsInv'
           /\ \A q \in (AwaitedBy(PiSession) \cup {resolved.call}) \cap Resolve :
                 resolves[q].at # "free" =>
                    /\ resolves'[q].at # "free"
                    /\ \A n \in Nat : /\ saved # NoSource => head[saved] >= n
                                      /\ CallFresh(resolves[q], saved, n)
                                      => CallFresh(resolves'[q], saved, n)
<1> USE PiAssumption DEF PiCounted
<1> DEFINE c == resolves[r]
           wanted == AwaitedBy(PiSession) \cup {resolved.call}
           AsGood == \A q \in wanted \cap Resolve :
                 resolves[q].at # "free" =>
                    /\ resolves'[q].at # "free"
                    /\ \A n \in Nat : /\ saved # NoSource => head[saved] >= n
                                      /\ CallFresh(resolves[q], saved, n)
                                      => CallFresh(resolves'[q], saved, n)
<1>0. /\ resolves \in [Resolve -> CallRecord] /\ roots \in [Location -> Content]
      /\ profileCache \in [src : Remote \cup {NoSource}, ref : Ref, settings : Content, resources : Content]
      /\ resolved \in [src : Source \cup {NoSource}, call : Resolve \cup {NoResolve}]
      /\ head \in [Source -> 1..(MaxPushes + 1)]
      /\ CacheOk /\ RememberedOk /\ NamedIsThere /\ \A q \in Resolve : CallOk(resolves[q])
      /\ PiTypeOK /\ CallsInv
      /\ UNCHANGED <<resolved, crossed, saved, head>>
  BY PiKinds DEF PiInv, CallsInv, ResolveStep, worldVars, pastVars
<1> HIDE DEF c
<1>10. ASSUME NEW b \in CallRecord
       PROVE  /\ \A x \in Ref : LET d == [b EXCEPT !.at = "settings", !.ref = x] IN
                  d \in CallRecord /\ d.at = "settings" /\ d.src = b.src
              /\ \A x \in Content : LET d == [b EXCEPT !.at = "resources", !.settings = x] IN
                  d \in CallRecord /\ d.at = "resources" /\ d.src = b.src /\ d.settings = x
  BY DEF CallRecord
<1>11. c \in CallRecord
  BY <1>0 DEF c
<1> USE DEF c
<1>1. ASSUME NEW d \in CallRecord, resolves' = [resolves EXCEPT ![r] = d], UNCHANGED <<profileCache, roots>>,
             c.at \in {"ref", "settings"}, d.at \in {"settings", "resources"}, d.src = c.src,
             d.at = "resources" => d.settings = <<c.src, head[c.src]>>
      PROVE  resolves' \in [Resolve -> CallRecord] /\ CallsInv' /\ AsGood
  <2>1. /\ resolves' \in [Resolve -> CallRecord] /\ resolves'[r] = d
        /\ \A q \in Resolve \ {r} : resolves'[q] = resolves[q]
    BY <1>0, <1>1
  <2>2. c.src \in Remote /\ c.src # NoSource /\ c.src \in Source
    BY <1>0, <1>1 DEF CallOk
  <2>3. CallOk(d)
    BY <1>1, <2>2 DEF CallOk, IsOf
  <2>4. RememberedOk'
    BY <1>0, <1>1, <2>1 DEF RememberedOk, UnderWay
  <2>5. NamedIsThere'
    BY <1>0, <1>1, <2>1 DEF NamedIsThere
  <2>6. AsGood
    BY <1>0, <1>1, <2>1, <2>2 DEF CallFresh
  <2>7. CallsInv'
    BY <1>0, <1>1, <2>1, <2>3, <2>4, <2>5 DEF CallsInv, CacheOk
  <2>8. QED
    BY <2>1, <2>6, <2>7
<1>2. ASSUME NEW status \in {"loaded", "cached", "error"}, NEW settings \in Content, NEW resources \in Content,
             Ends(r, status, settings, resources),
             c.at \in {"settings", "resources"},
             settings = Nothing \/ IsOf(settings, c.src),
             resources = Nothing \/ IsOf(resources, c.src),
             status \in {"loaded", "cached"} => IsOf(settings, c.src),
             status = "loaded" => c.at = "resources" /\ settings = c.settings,
             (resources = Nothing /\ roots' = roots) \/ Materialized(c, resources)
      PROVE  /\ resolves' \in [Resolve -> CallRecord] /\ roots' \in [Location -> Content]
             /\ CacheOk' => CallsInv'
             /\ AsGood
  <2>1. UnderWay(r)
    BY <1>2 DEF UnderWay
  <2>2. /\ resolves' \in [Resolve -> CallRecord] /\ roots' \in [Location -> Content]
        /\ \A q \in Resolve : CallOk(resolves'[q])
        /\ RememberedOk' /\ NamedIsThere'
        /\ \A q \in wanted \cap Resolve :
              IF q = r
              THEN /\ resolves'[q].at = "done" /\ resolves'[q].src = resolves[q].src
                   /\ resolves'[q].status = status /\ resolves'[q].settings = settings
              ELSE resolves'[q] = resolves[q]
    BY <1>0, <1>2, <2>1, EndedCall
  <2>3. AsGood
    BY <1>2, <2>2 DEF CallFresh
  <2>4. QED
    BY <2>2, <2>3 DEF CallsInv
<1>3. CASE RefAnswered(r)
  <2>1. PICK x \in Ref : resolves' = [resolves EXCEPT ![r].at = "settings", ![r].ref = x]
    BY <1>0, <1>3 DEF RefAnswered, Ref
  <2> DEFINE d == [c EXCEPT !.at = "settings", !.ref = x]
  <2>2. d \in CallRecord /\ d.at = "settings" /\ d.src = c.src /\ resolves' = [resolves EXCEPT ![r] = d]
    <3>1. d \in CallRecord /\ d.at = "settings" /\ d.src = c.src
      BY <1>10, <1>11
    <3>2. [resolves EXCEPT ![r].at = "settings", ![r].ref = x] = [resolves EXCEPT ![r] = d]
      BY <1>0
    <3>3. QED
      BY <2>1, <3>1, <3>2
  <2>3. c.at = "ref" /\ UNCHANGED <<profileCache, roots>>
    BY <1>3 DEF RefAnswered
  <2> HIDE DEF d
  <2>4. QED
    BY <1>0, <1>1, <2>2, <2>3
<1>4. CASE SettingsAnswered(r)
  <2> DEFINE now == <<c.src, head[c.src]>>
             d == [c EXCEPT !.at = "resources", !.settings = now]
  <2>1. c.at = "settings" /\ UNCHANGED <<profileCache, roots>>
    BY <1>4 DEF SettingsAnswered
  <2>2. now \in Content
    BY <1>0, <2>1, PiKinds DEF CallOk
  <2>3. resolves' = [resolves EXCEPT ![r] = d]
    BY <1>0, <1>4 DEF SettingsAnswered
  <2> HIDE DEF now
  <2>4. d \in CallRecord /\ d.at = "resources" /\ d.src = c.src /\ d.settings = now
    BY <2>2, <1>10, <1>11
  <2> HIDE DEF d
  <2> USE DEF now
  <2>5. QED
    BY <1>0, <1>1, <2>1, <2>3, <2>4
<1>5. CASE ResourcesAnswered(r)
  <2> DEFINE now == <<c.src, head[c.src]>>
  <2>1. /\ c.at = "resources" /\ Ends(r, "loaded", c.settings, now) /\ Materialized(c, now)
        /\ \/ profileCache' = [src |-> c.src, ref |-> c.ref, settings |-> c.settings, resources |-> now]
           \/ UNCHANGED profileCache
    BY <1>5 DEF ResourcesAnswered
  <2>2. /\ now \in Content /\ IsOf(now, c.src) /\ c.settings \in Content /\ IsOf(c.settings, c.src)
        /\ c.src \in Remote /\ c.ref \in Ref
    BY <1>0, <2>1, PiKinds DEF CallOk, IsOf, CallRecord
  <2> HIDE DEF now
  <2>3. /\ CacheOk'
        /\ profileCache' \in [src : Remote \cup {NoSource}, ref : Ref, settings : Content, resources : Content]
    BY <1>0, <2>1, <2>2 DEF CacheOk
  <2>4. QED
    BY <1>2, <2>1, <2>2, <2>3
<1>6. CASE ResourcesFailed(r)
  <2>1. c.at = "resources" /\ UNCHANGED profileCache
    BY <1>6 DEF ResourcesFailed
  <2>2. c.settings \in Content /\ IsOf(c.settings, c.src) /\ Nothing \in Content /\ CacheOk'
    BY <1>0, <2>1, PiKinds DEF CallOk, CallRecord, CacheOk
  <2>3. CASE CacheFits(c) /\ profileCache.resources # Nothing
    <3>1. Ends(r, "loaded", c.settings, profileCache.resources) /\ Materialized(c, profileCache.resources)
      BY <1>6, <2>3 DEF ResourcesFailed
    <3>2. profileCache.resources \in Content /\ IsOf(profileCache.resources, c.src)
      BY <1>0, <2>1, <2>3 DEF CacheFits, CacheOk, CallOk
    <3>3. QED
      BY <1>0, <1>2, <2>1, <2>2, <3>1, <3>2
  <2>4. CASE ~(CacheFits(c) /\ profileCache.resources # Nothing)
    <3>1. Ends(r, "loaded", c.settings, Nothing) /\ UNCHANGED roots
      BY <1>6, <2>4 DEF ResourcesFailed
    <3>2. QED
      BY <1>0, <1>2, <2>1, <2>2, <3>1
  <2>5. QED
    BY <2>3, <2>4
<1>7. CASE SettingsFailed(r)
  <2>1. c.at = "settings" /\ UNCHANGED profileCache
    BY <1>7 DEF SettingsFailed
  <2>2. Nothing \in Content /\ CacheOk'
    BY <1>0, <2>1, PiKinds DEF CacheOk
  <2>3. CASE CacheFits(c)
    <3>1. Ends(r, "cached", profileCache.settings, profileCache.resources) /\ Materialized(c, profileCache.resources)
      BY <1>7, <2>3 DEF SettingsFailed
    <3>2. /\ profileCache.resources \in Content /\ IsOf(profileCache.resources, c.src)
          /\ profileCache.settings \in Content /\ IsOf(profileCache.settings, c.src)
      BY <1>0, <2>1, <2>3 DEF CacheFits, CacheOk, CallOk
    <3>3. QED
      BY <1>0, <1>2, <2>1, <2>2, <3>1, <3>2
  <2>4. CASE ~CacheFits(c)
    <3>1. Ends(r, "error", Nothing, Nothing) /\ UNCHANGED roots
      BY <1>7, <2>4 DEF SettingsFailed
    <3>2. QED
      BY <1>0, <1>2, <2>1, <2>2, <3>1
  <2>5. QED
    BY <2>3, <2>4
<1>8. QED
  BY <1>3, <1>4, <1>5, <1>6, <1>7 DEF ResolveStep

\* One session moves, and the call it waits for may; what the others wait for
\* stays.
LEMMA SessionMoves ==
    ASSUME PiInv, NEW k \in PiSession, NEW run \in SessionRecord,
           session' = [session EXCEPT ![k] = run],
           UNCHANGED <<worldVars, fileVars, broken, reloading, local, mixed, floor>>,
           resolves' \in [Resolve -> CallRecord],
           resolved' \in [src : Source \cup {NoSource}, call : Resolve \cup {NoResolve}],
           packages' \in [failed : BOOLEAN, works : SUBSET Package],
           creating' \in Seq(PiSession), crossed' \subseteq Remote,
           piBudget' \in PiCounted,
           piBudget'.pushes = piBudget.pushes, CallsInv',
           \A q \in AwaitedBy(PiSession \ {k}) \cap Resolve :
              resolves[q].at # "free" => resolves'[q] = resolves[q],
           run.call # NoResolve => resolves'[run.call].at # "free",
           run.at \in {"none", "queued"} =>
              run.call = NoResolve /\ run.packs = {} /\ run.todo = {} /\ run.works = {},
           ~mixed /\ ~reloading /\ SinceReload =>
              /\ run.call # NoResolve => CallFresh(resolves'[run.call], saved, floor[2])
              /\ resolved'.call # NoResolve /\ resolved'.src = saved
                    => CallFresh(resolves'[resolved'.call], saved, floor[2])
              /\ SessionFresh(run, saved, floor[2])
              /\ PacksOf(packages'.works, saved)
    PROVE  PiInv'
<1> USE PiAssumption DEF PiCounted
<1>0. /\ session \in [PiSession -> SessionRecord]
      /\ UNCHANGED <<piTrouble, saved, head, profileCache, roots, broken, reloading, local, mixed, floor>>
  BY PiKinds DEF PiInv, worldVars, fileVars
<1>1. /\ session' \in [PiSession -> SessionRecord] /\ session'[k] = run
      /\ \A j \in PiSession \ {k} : session'[j] = session[j]
  BY <1>0
<1>2. PiTypeOK'
  <2>1. PiTypeOK' <=>
         /\ saved' \in Source \cup {NoSource}
         /\ head' \in [Source -> 1..(MaxPushes + 1)]
         /\ resolves' \in [Resolve -> CallRecord]
         /\ resolved' \in [src : Source \cup {NoSource}, call : Resolve \cup {NoResolve}]
         /\ profileCache' \in [src : Remote \cup {NoSource}, ref : Ref, settings : Content, resources : Content]
         /\ roots' \in [Location -> Content]
         /\ broken' \subseteq Package
         /\ packages' \in [failed : BOOLEAN, works : SUBSET Package]
         /\ creating' \in Seq(PiSession)
         /\ session' \in [PiSession -> SessionRecord]
         /\ reloading' \in BOOLEAN
         /\ local' \in Settings
         /\ piBudget' \in PiCounted
         /\ piTrouble' \in {"network", "packages"}
         /\ mixed' \in BOOLEAN /\ crossed' \subseteq Remote
         /\ floor' \in Content
    BY DEF PiTypeOK, CallRecord, SessionRecord
  <2>2. QED
    BY <1>0, <1>1, <2>1, PiKinds DEF PiInv
<1>3. \A s \in Source : head'[s] <= piBudget'.pushes + 1
  BY <1>0 DEF PiInv
<1>4. ASSUME NEW j \in PiSession \ {k}, session[j].call # NoResolve
      PROVE  resolves'[session[j].call] = resolves[session[j].call]
  <2>1. session[j].call \in AwaitedBy(PiSession \ {k}) \cap Resolve
    BY <1>0, <1>4 DEF AwaitedBy, SessionRecord
  <2>2. resolves[session[j].call].at # "free"
    BY <1>4 DEF PiInv, SessionHolds
  <2>3. QED
    BY <2>1, <2>2
<1>5. \A j \in PiSession : SessionHolds(j)'
  <2>1. SessionHolds(k)'
    BY <1>1 DEF SessionHolds
  <2>2. ASSUME NEW j \in PiSession \ {k} PROVE SessionHolds(j)'
    BY <1>1, <1>4, <2>2 DEF PiInv, SessionHolds
  <2>3. QED
    BY <2>1, <2>2
<1>6. ASSUME ~mixed', ~reloading' PROVE SinceReload'
  <2>0. SinceReload /\ ~mixed /\ ~reloading
    BY <1>0, <1>6 DEF PiInv
  <2>1. \A j \in PiSession : session'[j].call # NoResolve => CallFresh(resolves'[session'[j].call], saved, floor[2])
    BY <1>1, <1>4, <2>0 DEF SinceReload
  <2>2. \A j \in PiSession : SessionFresh(session'[j], saved, floor[2])
    BY <1>1, <2>0 DEF SinceReload
  <2>3. QED
    BY <1>0, <2>0, <2>1, <2>2 DEF SinceReload
<1>7. LocalKept'
  BY <1>0 DEF PiInv, LocalKept
<1>8. QED
  BY <1>2, <1>3, <1>5, <1>6, <1>7 DEF PiInv

\* A session asks for the configuration, to load with it.
LEMMA LoadsMoves ==
    ASSUME PiInv, NEW k \in PiSession, NEW s \in SessionRecord, NEW at \in {"resolving", "again"},
           NEW r \in Resolve, ResolveAsked(r, FALSE, AwaitedBy(PiSession \ {k})),
           session' = [session EXCEPT ![k] = [s EXCEPT !.at = at, !.call = r]],
           UNCHANGED <<worldVars, fileVars, broken, creating, reloading, local, piBudget, mixed, floor>>,
           packages' \in [failed : BOOLEAN, works : SUBSET Package],
           ~mixed /\ ~reloading /\ SinceReload =>
              /\ PacksOf(s.packs, saved) /\ PacksOf(s.todo, saved) /\ PacksOf(s.works, saved)
              /\ PacksOf(packages'.works, saved)
    PROVE  PiInv'
<1> USE PiAssumption DEF PiCounted
<1> DEFINE run == [s EXCEPT !.at = at, !.call = r]
<1>0. /\ UNCHANGED <<worldVars, fileVars, broken, reloading, local, mixed, floor>>
      /\ profileCache' = profileCache /\ roots' = roots /\ creating' = creating /\ piBudget' = piBudget
      /\ PiTypeOK /\ CallsInv /\ floor[2] \in Nat /\ saved \in Source \cup {NoSource}
      /\ creating \in Seq(PiSession)
      /\ piBudget \in PiCounted
  BY PiKinds DEF PiInv, fileVars
<1>1. /\ run \in SessionRecord /\ run.at = at /\ run.call = r
      /\ run.packs = s.packs /\ run.todo = s.todo /\ run.works = s.works
  BY DEF SessionRecord
<1>2. /\ resolves' \in [Resolve -> CallRecord]
      /\ resolved' = [src |-> saved, call |-> r] /\ crossed' \subseteq Remote
      /\ CallsInv'
      /\ resolves'[r].at # "free" /\ resolves'[r].src = saved
      /\ \A q \in AwaitedBy(PiSession \ {k}) \cap Resolve : resolves[q].at # "free" => resolves'[q] = resolves[q]
      /\ \A n \in Nat :
            /\ saved # NoSource => head[saved] >= n
            /\ resolved.call # NoResolve /\ resolved.src = saved
                  => CallFresh(resolves[resolved.call], saved, n)
            => CallFresh(resolves'[r], saved, n)
  BY <1>0, AskedCall
<1>3. resolved' \in [src : Source \cup {NoSource}, call : Resolve \cup {NoResolve}] /\ resolved'.call = r
  BY <1>0, <1>2
<1>4. ASSUME SinceReload, ~mixed, ~reloading
      PROVE  /\ CallFresh(resolves'[r], saved, floor[2])
             /\ SessionFresh(run, saved, floor[2]) /\ PacksOf(packages'.works, saved)
  <2>1. CallFresh(resolves'[r], saved, floor[2])
    BY <1>0, <1>2, <1>4 DEF SinceReload
  <2>2. QED
    BY <1>1, <1>4, <2>1 DEF SessionFresh, RunsWith
<1> HIDE DEF run
<1>5. session' = [session EXCEPT ![k] = run]
  BY DEF run
<1>6. /\ creating' \in Seq(PiSession) /\ piBudget'.pushes = piBudget.pushes
      /\ piBudget' \in PiCounted
      /\ run.call # NoResolve => resolves'[run.call].at # "free"
      /\ run.at \in {"none", "queued"} =>
           run.call = NoResolve /\ run.packs = {} /\ run.todo = {} /\ run.works = {}
  BY <1>0, <1>1, <1>2
<1>7. ~mixed /\ ~reloading /\ SinceReload =>
         /\ run.call # NoResolve => CallFresh(resolves'[run.call], saved, floor[2])
         /\ resolved'.call # NoResolve /\ resolved'.src = saved
               => CallFresh(resolves'[resolved'.call], saved, floor[2])
         /\ SessionFresh(run, saved, floor[2])
         /\ PacksOf(packages'.works, saved)
  BY <1>1, <1>3, <1>4
<1>8. QED
  BY <1>0, <1>1, <1>2, <1>3, <1>5, <1>6, <1>7, SessionMoves, ZenonT(60)

\* The sessions stay as they are, and the calls they wait for stay as good.
LEMMA SessionsStay ==
    ASSUME PiInv, UNCHANGED <<saved, head, session, packages, reloading, mixed, floor, local>>,
           PiTypeOK', piBudget'.pushes = piBudget.pushes, CallsInv',
           \A q \in AwaitedBy(PiSession) \cap Resolve :
              resolves[q].at # "free" =>
                 /\ resolves'[q].at # "free"
                 /\ \A n \in Nat : /\ saved # NoSource => head[saved] >= n
                                   /\ CallFresh(resolves[q], saved, n)
                                   => CallFresh(resolves'[q], saved, n),
           ~mixed /\ ~reloading /\ SinceReload =>
              (resolved'.call # NoResolve /\ resolved'.src = saved
                    => CallFresh(resolves'[resolved'.call], saved, floor[2]))
    PROVE  PiInv'
<1> USE PiAssumption DEF PiCounted
<1>0. session \in [PiSession -> SessionRecord] /\ floor[2] \in Nat
  BY PiKinds DEF PiInv
<1>1. ASSUME NEW j \in PiSession, session[j].call # NoResolve
      PROVE  /\ resolves'[session[j].call].at # "free"
             /\ SinceReload => CallFresh(resolves'[session[j].call], saved, floor[2])
  <2>1. session[j].call \in AwaitedBy(PiSession) \cap Resolve
    BY <1>0, <1>1 DEF AwaitedBy, SessionRecord
  <2>2. resolves[session[j].call].at # "free"
    BY <1>1 DEF PiInv, SessionHolds
  <2>3. SinceReload => /\ saved # NoSource => head[saved] >= floor[2]
                       /\ CallFresh(resolves[session[j].call], saved, floor[2])
    BY <1>1 DEF SinceReload
  <2>4. QED
    BY <1>0, <2>1, <2>2, <2>3
<1>2. \A j \in PiSession : SessionHolds(j)'
  BY <1>1 DEF PiInv, SessionHolds
<1>3. ASSUME ~mixed', ~reloading' PROVE SinceReload'
  <2>0. SinceReload /\ ~mixed /\ ~reloading
    BY <1>3 DEF PiInv
  <2>1. \A j \in PiSession : session[j].call # NoResolve => CallFresh(resolves'[session[j].call], saved, floor[2])
    BY <1>1, <2>0
  <2>2. QED
    BY <2>0, <2>1 DEF SinceReload
<1>4. LocalKept' /\ \A s \in Source : head'[s] <= piBudget'.pushes + 1
  BY DEF PiInv, LocalKept
<1>5. QED
  BY <1>2, <1>3, <1>4 DEF PiInv

LEMMA CallStepKeeps == ASSUME PiInv, NEW r \in Resolve, ResolveStep(r) PROVE PiInv'
<1> USE PiAssumption DEF PiCounted
<1>1. /\ resolves' \in [Resolve -> CallRecord] /\ roots' \in [Location -> Content]
      /\ profileCache' \in [src : Remote \cup {NoSource}, ref : Ref, settings : Content, resources : Content]
      /\ CallsInv'
      /\ \A q \in (AwaitedBy(PiSession) \cup {resolved.call}) \cap Resolve :
            resolves[q].at # "free" =>
               /\ resolves'[q].at # "free"
               /\ \A n \in Nat : /\ saved # NoSource => head[saved] >= n
                                 /\ CallFresh(resolves[q], saved, n)
                                 => CallFresh(resolves'[q], saved, n)
  BY CallMoves
<1>2. /\ UNCHANGED <<saved, head, session, packages, reloading, mixed, floor, local>>
      /\ UNCHANGED <<piTrouble, resolved, broken, creating, crossed>>
  BY DEF ResolveStep, worldVars, sessionVars, pastVars
<1>3. /\ piBudget' \in PiCounted
      /\ piBudget'.pushes = piBudget.pushes
  <2>1. piBudget \in PiCounted
    BY DEF PiInv, PiTypeOK
  <2>2. UNCHANGED piBudget \/ Fault
    BY DEF ResolveStep, RefAnswered, SettingsAnswered, ResourcesAnswered, ResourcesFailed, SettingsFailed
  <2>3. QED
    BY <2>1, <2>2 DEF Fault
<1>4. PiTypeOK'
  <2>1. PiTypeOK
    BY DEF PiInv
  <2>2. QED
    BY <1>1, <1>2, <1>3, <2>1 DEF PiTypeOK, CallRecord
<1>5. ~mixed /\ ~reloading /\ SinceReload =>
         (resolved'.call # NoResolve /\ resolved'.src = saved
               => CallFresh(resolves'[resolved'.call], saved, floor[2]))
  <2>1. resolved.call # NoResolve => resolved.call \in Resolve /\ resolves[resolved.call].at # "free"
    BY PiKinds DEF PiInv, CallsInv, RememberedOk
  <2>2. floor[2] \in Nat
    BY PiKinds DEF PiInv
  <2>3. QED
    BY <1>1, <1>2, <2>1, <2>2 DEF SinceReload
<1>6. QED
  BY <1>1, <1>2, <1>3, <1>4, <1>5, SessionsStay, ZenonT(60)

LEMMA AskKeeps == ASSUME PiInv, NEW r \in Resolve, StateAsked(r) PROVE PiInv'
<1> USE PiAssumption DEF PiCounted
<1>0. /\ ResolveAsked(r, FALSE, AwaitedBy(PiSession)) /\ UNCHANGED <<profileCache, roots>>
      /\ UNCHANGED <<saved, head, session, packages, reloading, mixed, floor, local>>
      /\ UNCHANGED <<piTrouble, broken, creating, piBudget>>
      /\ PiTypeOK /\ CallsInv
  BY DEF StateAsked, worldVars, fileVars, sessionVars, PiInv
<1>1. floor[2] \in Nat /\ saved \in Source \cup {NoSource}
  BY PiKinds, <1>0
<1>2. /\ resolves' \in [Resolve -> CallRecord]
      /\ resolved' = [src |-> saved, call |-> r] /\ crossed' \subseteq Remote
      /\ CallsInv'
      /\ \A q \in AwaitedBy(PiSession) \cap Resolve : resolves[q].at # "free" => resolves'[q] = resolves[q]
      /\ \A n \in Nat :
            /\ saved # NoSource => head[saved] >= n
            /\ resolved.call # NoResolve /\ resolved.src = saved
                  => CallFresh(resolves[resolved.call], saved, n)
            => CallFresh(resolves'[r], saved, n)
  BY <1>0, AskedCall
<1>3. PiTypeOK'
  <2>1. resolved' \in [src : Source \cup {NoSource}, call : Resolve \cup {NoResolve}]
    BY <1>1, <1>2
  <2>2. QED
    BY <1>0, <1>2, <2>1 DEF PiTypeOK, CallRecord
<1>4. SinceReload => (resolved'.call # NoResolve /\ resolved'.src = saved
                        => CallFresh(resolves'[resolved'.call], saved, floor[2]))
  BY <1>1, <1>2 DEF SinceReload
<1>5. /\ piBudget'.pushes = piBudget.pushes
      /\ \A q \in AwaitedBy(PiSession) \cap Resolve :
            resolves[q].at # "free" =>
               /\ resolves'[q].at # "free"
               /\ \A n \in Nat : /\ saved # NoSource => head[saved] >= n
                                 /\ CallFresh(resolves[q], saved, n)
                                 => CallFresh(resolves'[q], saved, n)
  BY <1>0, <1>2
<1>6. QED
  BY <1>0, <1>2, <1>3, <1>4, <1>5, SessionsStay, ZenonT(60)

LEMMA PiCounts ==
    ASSUME NEW b \in PiCounted
    PROVE  LET more == [b EXCEPT !.reloads = @ + 1]
               pushed == [b EXCEPT !.pushes = @ + 1]
           IN
           /\ b.reloads < MaxReloads => more \in PiCounted /\ more.pushes = b.pushes
           /\ b.pushes < MaxPushes => pushed \in PiCounted /\ pushed.pushes = b.pushes + 1
<1>1. MaxReloads \in Nat /\ MaxPushes \in Nat
  BY PiAssumption
<1>2. b.reloads \in Nat /\ b.pushes \in Nat
  BY DEF PiCounted
<1>3. QED
  BY <1>1, <1>2 DEF PiCounted

\* A reload drops what is live; what it finds being created makes it mixed.
LEMMA ResetKeeps == ASSUME PiInv, Reset PROVE PiInv'
<1> USE PiAssumption DEF PiCounted
<1>0. PICK r \in Resolve : ResolveAsked(r, TRUE, AwaitedBy(PiSession))
  BY DEF Reset
<1>1. /\ session' = [k \in PiSession |-> IF session[k].at = "live" THEN NoSession ELSE session[k]]
      /\ packages' = AllUntried /\ reloading' = FALSE /\ floor' = AtHead(saved)
      /\ mixed' = \E k \in PiSession : session[k].at \notin {"none", "queued", "live"}
      /\ UNCHANGED <<piTrouble, saved, head, profileCache, roots, broken, creating, local, piBudget>>
  BY DEF Reset, worldVars, fileVars
<1>2. /\ PiTypeOK /\ CallsInv /\ saved \in Source \cup {NoSource} /\ head \in [Source -> 1..(MaxPushes + 1)]
      /\ resolves \in [Resolve -> CallRecord]
      /\ session \in [PiSession -> SessionRecord] /\ NoSession \in SessionRecord
  BY PiKinds DEF PiInv
<1>3. /\ floor' \in Content /\ floor'[1] = saved /\ floor'[2] \in Nat
      /\ saved # NoSource => head[saved] >= floor'[2]
  BY <1>1, <1>2 DEF AtHead, Content
<1>4. /\ resolves' \in [Resolve -> CallRecord]
      /\ resolved' = [src |-> saved, call |-> r] /\ crossed' \subseteq Remote
      /\ CallsInv'
      /\ \A q \in AwaitedBy(PiSession) \cap Resolve : resolves[q].at # "free" => resolves'[q] = resolves[q]
      /\ \A n \in Nat : (saved # NoSource => head[saved] >= n) => CallFresh(resolves'[r], saved, n)
  BY <1>0, <1>1, <1>2, AskedCall
<1>5. session' \in [PiSession -> SessionRecord]
  BY <1>1, <1>2
<1>6. PiTypeOK'
  <2>1. resolved' \in [src : Source \cup {NoSource}, call : Resolve \cup {NoResolve}]
        /\ packages' \in [failed : BOOLEAN, works : SUBSET Package] /\ mixed' \in BOOLEAN
    BY <1>1, <1>2, <1>4 DEF AllUntried
  <2>2. QED
    BY <1>1, <1>2, <1>3, <1>4, <1>5, <2>1 DEF PiTypeOK, CallRecord, SessionRecord
<1>7. \A k \in PiSession : SessionHolds(k)'
  <2> SUFFICES ASSUME NEW k \in PiSession PROVE SessionHolds(k)'
    OBVIOUS
  <2>1. CASE session[k].at = "live"
    BY <1>1, <2>1 DEF SessionHolds, NoSession
  <2>2. CASE session[k].at # "live"
    <3>1. session'[k] = session[k] /\ SessionHolds(k)
      BY <1>1, <2>2 DEF PiInv
    <3>2. session[k].call # NoResolve => session[k].call \in AwaitedBy(PiSession) \cap Resolve
      BY <1>2 DEF AwaitedBy, SessionRecord
    <3>3. QED
      BY <1>4, <3>1, <3>2 DEF SessionHolds
  <2>3. QED
    BY <2>1, <2>2
<1>8. ASSUME ~mixed' PROVE SinceReload'
  <2>1. ASSUME NEW k \in PiSession
        PROVE  session'[k].call = NoResolve /\ SessionFresh(session'[k], saved, floor'[2])
    <3>1. session'[k].at \in {"none", "queued"} /\ SessionHolds(k)'
      BY <1>1, <1>7, <1>8 DEF NoSession
    <3>2. QED
      BY <3>1 DEF SessionHolds, SessionFresh, PacksOf, RunsWith
  <2>2. PacksOf(packages'.works, saved)
    BY <1>1 DEF AllUntried, PacksOf
  <2>3. CallFresh(resolves'[r], saved, floor'[2])
    BY <1>3, <1>4
  <2>4. QED
    BY <1>1, <1>3, <1>4, <2>1, <2>2, <2>3 DEF SinceReload
<1>9. QED
  BY <1>1, <1>4, <1>6, <1>7, <1>8 DEF PiInv, LocalKept

LEMMA ReloadAskedKeeps == ASSUME PiInv, NEW s \in Source \cup {NoSource}, ReloadAsked(s) PROVE PiInv'
<1> USE PiAssumption DEF PiCounted
<1>1. /\ saved' = s /\ reloading' = TRUE /\ piBudget.reloads < MaxReloads
      /\ piBudget' = [piBudget EXCEPT !.reloads = @ + 1]
      /\ UNCHANGED <<piTrouble, head, resolves, resolved, profileCache, roots, broken, packages, creating,
                     session, local, mixed, crossed, floor>>
  BY DEF ReloadAsked, callVars, fileVars, pastVars
<1>2. piBudget' \in PiCounted /\ piBudget'.pushes = piBudget.pushes
  <2>1. piBudget \in PiCounted
    BY DEF PiInv, PiTypeOK
  <2>2. QED
    BY <1>1, <2>1, PiCounts
<1>3. PiTypeOK'
  BY <1>1, <1>2 DEF PiInv, PiTypeOK
<1>4. CallsInv'
  BY <1>1 DEF PiInv, CallsInv, CacheOk, RememberedOk, NamedIsThere, UnderWay
<1>5. \A k \in PiSession : SessionHolds(k)'
  BY <1>1 DEF PiInv, SessionHolds
<1>6. QED
  BY <1>1, <1>2, <1>3, <1>4, <1>5 DEF PiInv, LocalKept

\* A later push leaves what was found at the reload behind.
LEMMA PushKeeps == ASSUME PiInv, NEW s \in Source, Push(s) PROVE PiInv'
<1> USE PiAssumption DEF PiCounted
<1>1. /\ piBudget.pushes < MaxPushes
      /\ piBudget' = [piBudget EXCEPT !.pushes = @ + 1]
      /\ head' = [head EXCEPT ![s] = @ + 1]
      /\ UNCHANGED <<piTrouble, saved, resolves, resolved, profileCache, roots, broken, packages, creating,
                     session, reloading, local, mixed, crossed, floor>>
  BY DEF Push, callVars, fileVars, sessionVars, pastVars
<1>2. piBudget' \in PiCounted /\ piBudget'.pushes = piBudget.pushes + 1
  <2>1. piBudget \in PiCounted
    BY DEF PiInv, PiTypeOK
  <2>2. QED
    BY <1>1, <2>1, PiCounts
<1>3. head \in [Source -> 1..(MaxPushes + 1)] /\ \A t \in Source : head[t] <= piBudget.pushes + 1
  BY DEF PiInv, PiTypeOK
<1>4. /\ head' \in [Source -> 1..(MaxPushes + 1)]
      /\ \A t \in Source : head'[t] <= piBudget'.pushes + 1 /\ head'[t] >= head[t]
  <2>1. ASSUME NEW t \in Source
        PROVE  head'[t] \in 1..(MaxPushes + 1) /\ head'[t] <= piBudget'.pushes + 1 /\ head'[t] >= head[t]
    <3>1. piBudget.pushes \in Nat /\ head[t] \in Nat /\ head[t] >= 1 /\ head[t] <= piBudget.pushes + 1
      BY <1>3 DEF PiInv, PiTypeOK
    <3>2. head'[t] = head[t] \/ head'[t] = head[t] + 1
      BY <1>1, <1>3
    <3>3. QED
      BY <1>1, <1>2, <3>1, <3>2
  <2>2. QED
    BY <1>1, <1>3, <2>1
<1>5. PiTypeOK'
  BY <1>1, <1>2, <1>4 DEF PiInv, PiTypeOK
<1>6. CallsInv'
  BY <1>1 DEF PiInv, CallsInv, CacheOk, RememberedOk, NamedIsThere, UnderWay
<1>7. \A k \in PiSession : SessionHolds(k)'
  BY <1>1 DEF PiInv, SessionHolds
<1>8. ASSUME SinceReload PROVE SinceReload'
  <2>1. saved # NoSource => head'[saved] >= floor[2]
    <3>1. saved # NoSource => saved \in Source /\ head[saved] >= floor[2] /\ head[saved] \in Nat
                              /\ head'[saved] \in Nat /\ head'[saved] >= head[saved]
      <4>1. (saved # NoSource => saved \in Source /\ head[saved] >= floor[2])
            /\ \A t \in Source : head[t] \in Nat /\ head'[t] \in Nat
        <5>1. saved \in Source \cup {NoSource}
          BY DEF PiInv, PiTypeOK
        <5>2. saved # NoSource => head[saved] >= floor[2]
          BY <1>8 DEF SinceReload
        <5>3. \A t \in Source : head[t] \in 1..(MaxPushes + 1) /\ head'[t] \in 1..(MaxPushes + 1)
          BY <1>3, <1>4
        <5>4. QED
          BY <5>1, <5>2, <5>3
      <4>2. QED
        BY <1>4, <4>1
    <3>2. floor[2] \in Nat
      BY PiKinds DEF PiInv
    <3>3. QED
      BY <3>1, <3>2
  <2>2. QED
    BY <1>1, <1>8, <2>1 DEF SinceReload
<1>9. QED
  BY <1>1, <1>4, <1>5, <1>6, <1>7, <1>8 DEF PiInv, LocalKept

\* A change in a session is written so that of the profile's values at most
\* the one beside a changed one in the group is kept.
LEMMA SettingWritten ==
    ASSUME PiInv, NEW k \in PiSession, SetSetting(k)
    PROVE  local' \in Settings /\ LocalKept'
<1> USE PiKinds
<1> DEFINE overlaid == Presented(k)
<1>1. /\ local \in Settings /\ local.packages \in {Nothing, Own}
      /\ local.group.shared \in {Nothing, Own} \/ local.group.free = Own
      /\ local.group \in [shared : Content \cup {Own}, free : {Nothing, Own}]
  BY DEF PiInv, PiTypeOK, LocalKept, Settings
<1>2. session[k].with \in Content
  BY DEF PiInv, PiTypeOK, SessionRecord
<1>3. /\ overlaid = [packages |-> overlaid.packages, group |-> overlaid.group]
      /\ overlaid.packages \in Content \cup {Own, Empty}
      /\ overlaid.group \in [shared : Content \cup {Own}, free : {Nothing, Own}]
      /\ overlaid.group.free = local.group.free
  BY <1>1, <1>2 DEF Presented, Settings
<1> HIDE DEF overlaid
<1>4. PICK next \in {overlaid, [overlaid EXCEPT !.packages = Own],
                     [overlaid EXCEPT !.group.shared = Own], [overlaid EXCEPT !.group.free = Own]} :
        local' = Written(overlaid, next)
  BY DEF SetSetting, overlaid
<1>5. /\ local'.packages = IF next.packages = overlaid.packages THEN local.packages ELSE next.packages
      /\ local'.group = IF next.group = overlaid.group THEN local.group ELSE next.group
      /\ local' = [packages |-> local'.packages, group |-> local'.group]
  BY <1>4 DEF Written
<1>6. /\ local'.packages \in {Nothing, Own}
      /\ local'.group \in [shared : Content \cup {Own}, free : {Nothing, Own}]
      /\ local'.group.shared \in {Nothing, Own} \/ local'.group.free = Own
  <2>1. CASE next = overlaid
    BY <1>1, <1>5, <2>1
  <2>2. CASE next = [overlaid EXCEPT !.packages = Own]
    BY <1>1, <1>3, <1>5, <2>2
  <2>3. CASE next = [overlaid EXCEPT !.group.shared = Own]
    BY <1>1, <1>3, <1>5, <2>3
  <2>4. CASE next = [overlaid EXCEPT !.group.free = Own]
    BY <1>1, <1>3, <1>5, <2>4
  <2>5. QED
    BY <1>4, <2>1, <2>2, <2>3, <2>4
<1>7. QED
  BY <1>5, <1>6 DEF LocalKept, Settings

LEMMA OutsideKeeps ==
    ASSUME PiInv, UNCHANGED piVars \/ (\E p \in Package : Break(p)) \/ (\E k \in PiSession : SetSetting(k))
    PROVE  PiInv'
<1> USE PiAssumption DEF PiCounted
<1>1. /\ UNCHANGED <<piTrouble, saved, head, resolves, resolved, profileCache, roots, packages, creating,
                     session, reloading, mixed, crossed, floor>>
      /\ broken' \subseteq Package /\ local' \in Settings /\ LocalKept'
      /\ piBudget' \in PiCounted
      /\ piBudget'.pushes = piBudget.pushes
  <2>0. /\ broken \subseteq Package /\ local \in Settings /\ LocalKept
        /\ piBudget \in PiCounted
    BY DEF PiInv, PiTypeOK
  <2>1. CASE UNCHANGED piVars
    BY <2>0, <2>1 DEF piVars, LocalKept
  <2>2. CASE \E p \in Package : Break(p)
    BY <2>0, <2>2 DEF Break, Breaks, worldVars, callVars, fileVars, sessionVars, pastVars, LocalKept
  <2>3. CASE \E k \in PiSession : SetSetting(k)
    BY <2>0, <2>3, SettingWritten DEF SetSetting, worldVars, callVars, fileVars, sessionVars, pastVars
  <2>4. QED
    BY <2>1, <2>2, <2>3
<1>2. PiTypeOK'
  BY <1>1 DEF PiInv, PiTypeOK
<1>3. CallsInv'
  BY <1>1 DEF PiInv, CallsInv, CacheOk, RememberedOk, NamedIsThere, UnderWay
<1>4. (\A k \in PiSession : SessionHolds(k)') /\ (SinceReload => SinceReload')
  BY <1>1 DEF PiInv, SessionHolds, SinceReload
<1>5. QED
  BY <1>1, <1>2, <1>3, <1>4 DEF PiInv

\* Where a session may go as it is, or with nothing more to try.
LEMMA SessionGoes ==
    ASSUME NEW s \in SessionRecord, NEW at \in {"queued", "opening", "live"}
    PROVE  LET run == [s EXCEPT !.at = at]
               done == [s EXCEPT !.at = at, !.todo = {}, !.works = {}]
           IN
           /\ run \in SessionRecord /\ run.at = at /\ run.call = s.call /\ run.with = s.with
           /\ run.status = s.status /\ run.packs = s.packs /\ run.todo = s.todo /\ run.works = s.works
           /\ done \in SessionRecord /\ done.at = at /\ done.call = s.call /\ done.with = s.with
           /\ done.status = s.status /\ done.packs = s.packs /\ done.todo = {} /\ done.works = {}
BY DEF SessionRecord

LEMMA PiKept ==
    ASSUME PiInv
    PROVE  /\ resolves \in [Resolve -> CallRecord]
           /\ resolved \in [src : Source \cup {NoSource}, call : Resolve \cup {NoResolve}]
           /\ packages \in [failed : BOOLEAN, works : SUBSET Package]
           /\ creating \in Seq(PiSession) /\ crossed \subseteq Remote
           /\ session \in [PiSession -> SessionRecord]
           /\ piBudget \in PiCounted
           /\ floor[2] \in Nat /\ saved \in Source \cup {NoSource}
           /\ CallsInv
BY PiKinds DEF PiInv

\* A session moves and the calls stay as they are.
LEMMA OnlySession ==
    ASSUME PiInv, NEW k \in PiSession, NEW run \in SessionRecord,
           session' = [session EXCEPT ![k] = run],
           UNCHANGED <<worldVars, callVars, fileVars, broken, reloading, local, pastVars>>,
           packages' \in [failed : BOOLEAN, works : SUBSET Package],
           creating' \in Seq(PiSession),
           piBudget' \in PiCounted,
           piBudget'.pushes = piBudget.pushes,
           run.call = NoResolve \/ run.call = session[k].call,
           run.at \in {"none", "queued"} =>
              run.call = NoResolve /\ run.packs = {} /\ run.todo = {} /\ run.works = {},
           ~mixed /\ ~reloading /\ SinceReload =>
              SessionFresh(run, saved, floor[2]) /\ PacksOf(packages'.works, saved)
    PROVE  PiInv'
<1>1. /\ UNCHANGED <<worldVars, fileVars, broken, reloading, local, mixed, floor>>
      /\ resolves' = resolves /\ resolved' = resolved /\ crossed' = crossed
      /\ profileCache' = profileCache /\ roots' = roots
  BY DEF callVars, pastVars, fileVars
<1>2. CallsInv'
  BY <1>1, PiKept DEF CallsInv, CacheOk, RememberedOk, NamedIsThere, UnderWay
<1>3. /\ resolves' \in [Resolve -> CallRecord] /\ crossed' \subseteq Remote
      /\ resolved' \in [src : Source \cup {NoSource}, call : Resolve \cup {NoResolve}]
  BY <1>1, PiKept
<1>4. run.call # NoResolve => resolves'[run.call].at # "free"
  BY <1>1 DEF PiInv, SessionHolds
<1>5. ~mixed /\ ~reloading /\ SinceReload =>
              /\ run.call # NoResolve => CallFresh(resolves'[run.call], saved, floor[2])
              /\ resolved'.call # NoResolve /\ resolved'.src = saved
                    => CallFresh(resolves'[resolved'.call], saved, floor[2])
              /\ SessionFresh(run, saved, floor[2])
              /\ PacksOf(packages'.works, saved)
  BY <1>1 DEF SinceReload
<1>6. \A q \in AwaitedBy(PiSession \ {k}) \cap Resolve :
              resolves[q].at # "free" => resolves'[q] = resolves[q]
  BY <1>1
<1>7. QED
  BY <1>1, <1>2, <1>3, <1>4, <1>5, <1>6, SessionMoves, ZenonT(60)

\* A session joins the queue, is made, given up, or let go.
LEMMA QueueKeeps ==
    ASSUME PiInv, NEW k \in PiSession, Create(k) \/ CreateEnds(k) \/ Released(k)
    PROVE  PiInv'
<1> USE PiAssumption DEF PiCounted
<1> DEFINE s == session[k]
<1>0. /\ s \in SessionRecord /\ SessionHolds(k) /\ NoSession \in SessionRecord
      /\ creating \in Seq(PiSession)
      /\ packages \in [failed : BOOLEAN, works : SUBSET Package]
      /\ session \in [PiSession -> SessionRecord]
      /\ piBudget \in PiCounted
      /\ SinceReload => SessionFresh(s, saved, floor[2]) /\ PacksOf(packages.works, saved)
      /\ SessionFresh(NoSession, saved, floor[2])
  BY PiKept, PiKinds DEF PiInv, SinceReload, NoSession, SessionFresh, PacksOf, RunsWith
<1>1. NoSession.call = NoResolve /\ NoSession.packs = {} /\ NoSession.todo = {} /\ NoSession.works = {}
  BY DEF NoSession
<1>2. CASE Create(k)
  <2> DEFINE run == [s EXCEPT !.at = "queued"]
  <2>1. /\ run \in SessionRecord /\ run.at = "queued" /\ run.call = s.call /\ run.packs = s.packs
        /\ run.todo = s.todo /\ run.works = s.works
    BY <1>0, SessionGoes
  <2>2. /\ session' = [session EXCEPT ![k] = run] /\ s.at = "none"
        /\ creating' \in Seq(PiSession) /\ packages' = packages /\ piBudget' = piBudget
        /\ UNCHANGED <<worldVars, callVars, fileVars, broken, reloading, local, pastVars>>
    BY <1>0, <1>2 DEF Create
  <2>3. run.call = NoResolve /\ run.packs = {} /\ run.todo = {} /\ run.works = {}
    BY <1>0, <2>1, <2>2 DEF SessionHolds
  <2>4. SinceReload => SessionFresh(run, saved, floor[2])
    BY <2>1, <2>3 DEF SessionFresh, PacksOf, RunsWith
  <2> HIDE DEF run
  <2>5. QED
    BY <1>0, <2>1, <2>2, <2>3, <2>4, OnlySession, ZenonT(60)
<1>3. CASE CreateEnds(k)
  <2>1. /\ creating # <<>> /\ creating' = Tail(creating)
        /\ UNCHANGED <<worldVars, callVars, fileVars, broken, packages, reloading, local, pastVars>>
    BY <1>3 DEF CreateEnds, Opened, CreateFails, First
  <2>2. creating' \in Seq(PiSession)
    BY <1>0, <2>1
  <2>3. /\ piBudget' \in PiCounted
        /\ piBudget'.pushes = piBudget.pushes
    BY <1>0, <1>3 DEF CreateEnds, Opened, CreateFails, Breaks
  <2>4. CASE Opened(k)
    <3> DEFINE run == [s EXCEPT !.at = "live"]
    <3>1. /\ run \in SessionRecord /\ run.at = "live" /\ run.call = s.call /\ run.packs = s.packs
          /\ run.todo = s.todo /\ run.works = s.works /\ run.with = s.with /\ run.status = s.status
      BY <1>0, SessionGoes
    <3>2. session' = [session EXCEPT ![k] = run] /\ s.at = "opening"
      BY <1>0, <2>4 DEF Opened
    <3>3. SinceReload => SessionFresh(run, saved, floor[2])
      BY <1>0, <3>1, <3>2 DEF SessionFresh, RunsWith
    <3>4. run.at \notin {"none", "queued"} /\ packages' = packages
      BY <2>1, <3>1
    <3> HIDE DEF run
    <3>5. QED
      BY <1>0, <2>1, <2>2, <2>3, <3>1, <3>2, <3>3, <3>4, OnlySession, ZenonT(60)
  <2>5. CASE CreateFails(k)
    <3>1. session' = [session EXCEPT ![k] = NoSession] /\ packages' = packages
      BY <2>1, <2>5 DEF CreateFails
    <3>2. QED
      BY <1>0, <1>1, <2>1, <2>2, <2>3, <3>1, OnlySession, ZenonT(60)
  <2>6. QED
    BY <1>3, <2>4, <2>5 DEF CreateEnds
<1>4. CASE Released(k)
  <2>1. /\ session' = [session EXCEPT ![k] = NoSession]
        /\ creating' = creating /\ packages' = packages /\ piBudget' = piBudget
        /\ UNCHANGED <<worldVars, callVars, fileVars, broken, reloading, local, pastVars>>
    BY <1>4 DEF Released
  <2>2. creating' \in Seq(PiSession)
    BY <1>0, <2>1
  <2>3. QED
    BY <1>0, <1>1, <2>1, <2>2, OnlySession, ZenonT(60)
<1>5. QED
  BY <1>2, <1>3, <1>4

LEMMA ForgottenKeeps ==
    ASSUME PiInv, NEW wanted, resolved.call \in wanted, resolves' = Forgotten(resolves, wanted),
           resolved' = resolved, crossed' = crossed, profileCache' = profileCache, roots' = roots
    PROVE  /\ resolves' \in [Resolve -> CallRecord] /\ CallsInv'
           /\ \A q \in wanted \cap Resolve : resolves'[q] = resolves[q]
<1>0. /\ resolves \in [Resolve -> CallRecord] /\ FreeResolve \in CallRecord
      /\ resolved.call \in Resolve \cup {NoResolve}
      /\ CacheOk /\ RememberedOk /\ NamedIsThere /\ \A q \in Resolve : CallOk(resolves[q])
  BY PiKept, PiKinds DEF CallsInv
<1>1. /\ resolves' \in [Resolve -> CallRecord]
      /\ \A q \in Resolve : resolves'[q] = resolves[q] \/ resolves'[q] = FreeResolve
      /\ \A q \in wanted \cap Resolve : resolves'[q] = resolves[q]
  BY <1>0 DEF Forgotten
<1>2. \A q \in Resolve : CallOk(resolves'[q])
  <2>1. CallOk(FreeResolve)
    BY DEF CallOk, FreeResolve
  <2>2. QED
    BY <1>0, <1>1, <2>1
<1>3. RememberedOk'
  <2>1. \A q \in Resolve : resolves'[q].at \in {"ref", "settings", "resources"} => resolves'[q] = resolves[q]
    BY <1>1 DEF FreeResolve
  <2>2. resolved.call # NoResolve => resolves'[resolved.call] = resolves[resolved.call]
    BY <1>0, <1>1
  <2>3. QED
    BY <1>0, <2>1, <2>2 DEF RememberedOk, UnderWay
<1>4. NamedIsThere'
  BY <1>0, <1>1 DEF NamedIsThere
<1>5. CacheOk'
  BY <1>0 DEF CacheOk
<1>6. QED
  BY <1>1, <1>2, <1>3, <1>4, <1>5 DEF CallsInv

\* What an answered session is to load is of the profile that is saved.
LEMMA AnsweredFresh ==
    ASSUME PiInv, NEW k \in PiSession, Answered(k)
    PROVE  LET out == resolves[session[k].call] IN
           /\ session[k].call \in Resolve /\ out \in CallRecord /\ out.at = "done"
           /\ PackagesOf(out.settings) \in SUBSET Package
           /\ SinceReload =>
                /\ PacksOf(PackagesOf(out.settings), saved)
                /\ out.settings # Nothing => out.settings[1] = saved
                /\ out.status = "loaded" => out.settings[2] >= floor[2]
<1> USE PiAssumption DEF PiCounted
<1> DEFINE out == resolves[session[k].call]
<1>1. session[k].call \in Resolve /\ out \in CallRecord /\ out.at = "done" /\ CallOk(out) /\ out.settings \in Content
  BY PiKept DEF Answered, SessionRecord, CallsInv, CallRecord
<1>2. PackagesOf(out.settings) \in SUBSET Package
  BY <1>1, PiKinds
<1>3. ASSUME SinceReload
      PROVE  /\ PacksOf(PackagesOf(out.settings), saved)
             /\ out.settings # Nothing => out.settings[1] = saved
             /\ out.status = "loaded" => out.settings[2] >= floor[2]
  <2>1. CallFresh(out, saved, floor[2])
    BY <1>3 DEF SinceReload, Answered
  <2>2. out.settings # Nothing => out.settings[1] = saved
    BY <1>1, <2>1 DEF CallOk, CallFresh, IsOf
  <2>3. PackagesOf(Nothing) = {}
    BY DEF PackagesOf, Package, Nothing
  <2>4. \A p \in PackagesOf(out.settings) : p[1] = out.settings[1]
    BY DEF PackagesOf
  <2>5. PacksOf(PackagesOf(out.settings), saved)
    BY <2>2, <2>3, <2>4 DEF PacksOf
  <2>6. QED
    BY <1>1, <2>1, <2>2, <2>5 DEF CallFresh
<1>4. QED
  BY <1>1, <1>2, <1>3

\* A session's turn: it asks, and what is answered is laid over its settings.
LEMMA TurnKeeps ==
    ASSUME PiInv, NEW k \in PiSession, CreateBegins(k) \/ Configured(k) \/ Overlaid(k)
    PROVE  PiInv'
<1> USE PiAssumption DEF PiCounted
<1> DEFINE s == session[k]
<1>0. /\ s \in SessionRecord /\ SessionHolds(k)
      /\ packages \in [failed : BOOLEAN, works : SUBSET Package]
      /\ session \in [PiSession -> SessionRecord]
      /\ SinceReload => SessionFresh(s, saved, floor[2]) /\ PacksOf(packages.works, saved)
  BY PiKept DEF PiInv, SinceReload
<1>1. CASE CreateBegins(k)
  <2>1. /\ UNCHANGED <<worldVars, fileVars, broken, creating, reloading, local, piBudget, mixed, floor>>
        /\ packages' = packages /\ s.at = "queued"
    BY <1>1 DEF CreateBegins
  <2>2. PICK r \in Resolve : /\ ResolveAsked(r, FALSE, AwaitedBy(PiSession \ {k}))
                             /\ session' = [session EXCEPT ![k].at = "resolving", ![k].call = r]
    BY <1>1 DEF CreateBegins
  <2>3. session' = [session EXCEPT ![k] = [s EXCEPT !.at = "resolving", !.call = r]]
    BY <1>0, <2>2
  <2>4. SinceReload => PacksOf(s.packs, saved) /\ PacksOf(s.todo, saved) /\ PacksOf(s.works, saved)
    BY <1>0 DEF SessionFresh
  <2> HIDE DEF s
  <2>5. QED
    BY <1>0, <2>1, <2>2, <2>3, <2>4, LoadsMoves
<1>2. CASE Configured(k)
  <2> DEFINE configured == PackagesOf(resolves[s.call].settings)
  <2>1. /\ UNCHANGED <<worldVars, fileVars, broken, creating, reloading, local, piBudget, mixed, floor>>
        /\ packages' = packages /\ Answered(k)
    BY <1>2 DEF Configured
  <2>2. configured \in SUBSET Package /\ (SinceReload => PacksOf(configured, saved))
    BY <2>1, AnsweredFresh
  <2> HIDE DEF configured
  <2>3. PICK t \in SessionRecord :
              /\ Loads(k, t)
              /\ t.todo = configured /\ t.works = s.works /\ t.packs \in {s.packs, packages.works}
    <3> DEFINE known == [s EXCEPT !.mode = "known", !.packs = packages.works, !.todo = configured]
               all == [s EXCEPT !.mode = "all", !.todo = configured]
    <3>1. known \in SessionRecord /\ known.todo = configured /\ known.works = s.works /\ known.packs = packages.works
      BY <1>0, <2>2 DEF SessionRecord
    <3>2. all \in SessionRecord /\ all.todo = configured /\ all.works = s.works /\ all.packs = s.packs
      BY <1>0, <2>2 DEF SessionRecord
    <3>3. Loads(k, known) \/ Loads(k, all)
      BY <1>2 DEF Configured, configured
    <3> HIDE DEF known, all
    <3>4. QED
      BY <3>1, <3>2, <3>3
  <2>4. PICK r \in Resolve : /\ ResolveAsked(r, FALSE, AwaitedBy(PiSession \ {k}))
                             /\ session' = [session EXCEPT ![k] = [t EXCEPT !.at = "again", !.call = r]]
    BY <2>3 DEF Loads
  <2>5. SinceReload => PacksOf(t.packs, saved) /\ PacksOf(t.todo, saved) /\ PacksOf(t.works, saved)
    BY <1>0, <2>2, <2>3 DEF SessionFresh
  <2>6. QED
    BY <1>0, <2>1, <2>4, <2>5, LoadsMoves
<1>3. CASE Overlaid(k)
  <2> DEFINE out == resolves[s.call]
             over == out.status \in {"loaded", "cached"}
             packs == IF ~over \/ s.mode = "without" THEN {}
                      ELSE IF s.mode = "all" THEN PackagesOf(out.settings) ELSE s.packs
             run == [s EXCEPT !.at = "loading", !.call = NoResolve, !.with = out.settings,
                              !.status = out.status, !.packs = packs]
             wanted == AwaitedBy(PiSession \ {k}) \cup {resolved.call}
  <2>1. /\ Answered(k) /\ resolves' = Forgotten(resolves, wanted)
        /\ UNCHANGED <<worldVars, resolved, fileVars, broken, packages, creating, reloading, local, piBudget, pastVars>>
    BY <1>3 DEF Overlaid
  <2>2. session' = [session EXCEPT ![k] = run]
    BY <1>0, <1>3 DEF Overlaid
  <2>3. /\ out \in CallRecord /\ PackagesOf(out.settings) \in SUBSET Package
        /\ out.at = "done" /\ s.call \in Resolve
        /\ SinceReload =>
             /\ PacksOf(PackagesOf(out.settings), saved)
             /\ out.settings # Nothing => out.settings[1] = saved
             /\ out.status = "loaded" => out.settings[2] >= floor[2]
    BY <2>1, AnsweredFresh
  <2>4. packs \in SUBSET Package /\ out.settings \in Content
        /\ out.status \in {"none", "loaded", "cached", "error"}
    BY <1>0, <2>3 DEF SessionRecord, CallRecord
  <2>5. ASSUME SinceReload PROVE PacksOf(packs, saved) /\ packs \subseteq PackagesOf(out.settings)
    <3>1. PacksOf(packs, saved)
      BY <1>0, <2>3, <2>5 DEF SessionFresh, PacksOf
    <3>2. over => out.settings[1] = saved
      <4>1. CallOk(out)
        BY <2>3, PiKept DEF CallsInv
      <4>2. CallFresh(out, saved, floor[2])
        BY <2>1, <2>5 DEF SinceReload, Answered
      <4>3. QED
        BY <2>3, <4>1, <4>2 DEF CallOk, CallFresh, IsOf
    <3>3. over => packs \subseteq PackagesOf(out.settings)
      BY <2>4, <3>1, <3>2 DEF PacksOf, PackagesOf
    <3>4. QED
      BY <3>1, <3>3
  <2> HIDE DEF out, over, packs
  <2>6. /\ run \in SessionRecord /\ run.at = "loading" /\ run.call = NoResolve /\ run.with = out.settings
        /\ run.status = out.status /\ run.packs = packs /\ run.todo = s.todo /\ run.works = s.works
    BY <1>0, <2>4 DEF SessionRecord
  <2>7. ASSUME SinceReload PROVE SessionFresh(run, saved, floor[2])
    BY <1>0, <2>3, <2>5, <2>6, <2>7 DEF SessionFresh, RunsWith, out
  <2> HIDE DEF run
  <2>8. /\ UNCHANGED <<worldVars, fileVars, broken, reloading, local, mixed, floor>>
        /\ resolved' = resolved /\ crossed' = crossed /\ packages' = packages /\ creating' = creating
        /\ piBudget' = piBudget /\ profileCache' = profileCache /\ roots' = roots
    BY <2>1 DEF pastVars, fileVars
  <2>9. /\ resolves' \in [Resolve -> CallRecord] /\ CallsInv'
        /\ \A q \in wanted \cap Resolve : resolves'[q] = resolves[q]
    BY <2>1, <2>8, ForgottenKeeps
  <2>10. /\ resolved' \in [src : Source \cup {NoSource}, call : Resolve \cup {NoResolve}]
         /\ packages' \in [failed : BOOLEAN, works : SUBSET Package]
         /\ creating' \in Seq(PiSession) /\ crossed' \subseteq Remote
         /\ piBudget' \in PiCounted
         /\ piBudget'.pushes = piBudget.pushes
    BY <2>8, PiKept
  <2>11. /\ \A q \in AwaitedBy(PiSession \ {k}) \cap Resolve : resolves[q].at # "free" => resolves'[q] = resolves[q]
         /\ run.call # NoResolve => resolves'[run.call].at # "free"
         /\ run.at \in {"none", "queued"} =>
              run.call = NoResolve /\ run.packs = {} /\ run.todo = {} /\ run.works = {}
    BY <2>6, <2>9
  <2>12. ~mixed /\ ~reloading /\ SinceReload =>
              /\ run.call # NoResolve => CallFresh(resolves'[run.call], saved, floor[2])
              /\ resolved'.call # NoResolve /\ resolved'.src = saved
                    => CallFresh(resolves'[resolved'.call], saved, floor[2])
              /\ SessionFresh(run, saved, floor[2])
              /\ PacksOf(packages'.works, saved)
    <3>1. resolved'.call # NoResolve => resolves'[resolved'.call] = resolves[resolved.call]
      BY <2>8, <2>9, <2>10
    <3>2. QED
      BY <1>0, <2>6, <2>7, <2>8, <3>1 DEF SinceReload
  <2>13. QED
    BY <2>2, <2>6, <2>8, <2>9, <2>10, <2>11, <2>12, SessionMoves, ZenonT(60)
<1>4. QED
  BY <1>1, <1>2, <1>3

\* A session loads: with all packages, with each alone, with those that worked
\* together, or with none.
LEMMA LoadingKeeps == ASSUME PiInv, NEW k \in PiSession, CreateStep(k) PROVE PiInv'
<1> USE PiAssumption DEF PiCounted
<1> DEFINE s == session[k]
<1>0. /\ s \in SessionRecord /\ SessionHolds(k) /\ broken \subseteq Package
      /\ packages \in [failed : BOOLEAN, works : SUBSET Package]
      /\ session \in [PiSession -> SessionRecord]
      /\ SinceReload => SessionFresh(s, saved, floor[2]) /\ PacksOf(packages.works, saved)
      /\ s.packs \in SUBSET Package /\ s.todo \in SUBSET Package /\ s.works \in SUBSET Package
      /\ UNCHANGED <<worldVars, fileVars, broken, creating, reloading, local, piBudget, mixed, floor>>
  BY PiKept DEF PiInv, SinceReload, PiTypeOK, SessionRecord, CreateStep
<1>1. ASSUME NEW t \in SessionRecord, Loads(k, t),
             packages' \in [failed : BOOLEAN, works : SUBSET Package],
             SinceReload => /\ PacksOf(t.packs, saved) /\ PacksOf(t.todo, saved) /\ PacksOf(t.works, saved)
                            /\ PacksOf(packages'.works, saved)
      PROVE  PiInv'
  <2>1. PICK r \in Resolve : /\ ResolveAsked(r, FALSE, AwaitedBy(PiSession \ {k}))
                             /\ session' = [session EXCEPT ![k] = [t EXCEPT !.at = "again", !.call = r]]
    BY <1>1 DEF Loads
  <2>2. QED
    BY <1>0, <1>1, <2>1, LoadsMoves
<1>2. ASSUME NEW t \in SessionRecord, Probe(k, t), t.packs = s.packs, t.todo = s.todo,
             SinceReload => PacksOf(t.works, saved)
      PROVE  PiInv'
  <2>1. ASSUME NEW p \in t.todo, Loads(k, [t EXCEPT !.mode = "probe", !.packs = {p}, !.todo = @ \ {p}]),
               packages' = packages
        PROVE  PiInv'
    <3> DEFINE u == [t EXCEPT !.mode = "probe", !.packs = {p}, !.todo = @ \ {p}]
    <3>1. u \in SessionRecord /\ u.packs = {p} /\ u.todo = t.todo \ {p} /\ u.works = t.works
      BY DEF SessionRecord
    <3>2. SinceReload => PacksOf(u.packs, saved) /\ PacksOf(u.todo, saved) /\ PacksOf(u.works, saved)
      BY <1>0, <1>2, <3>1 DEF SessionFresh, PacksOf
    <3>3. Loads(k, u)
      BY <2>1
    <3> HIDE DEF u
    <3>4. QED
      BY <1>0, <1>1, <2>1, <3>1, <3>2, <3>3
  <2>2. ASSUME Loads(k, [t EXCEPT !.mode = "working", !.packs = t.works, !.works = {}]),
               packages' = [failed |-> TRUE, works |-> t.works]
        PROVE  PiInv'
    <3> DEFINE u == [t EXCEPT !.mode = "working", !.packs = t.works, !.works = {}]
    <3>1. u \in SessionRecord /\ u.packs = t.works /\ u.todo = t.todo /\ u.works = {}
      BY DEF SessionRecord
    <3>2. packages' \in [failed : BOOLEAN, works : SUBSET Package] /\ packages'.works = t.works
      BY <2>2 DEF SessionRecord
    <3>3. SinceReload => /\ PacksOf(u.packs, saved) /\ PacksOf(u.todo, saved) /\ PacksOf(u.works, saved)
                         /\ PacksOf(packages'.works, saved)
      BY <1>0, <1>2, <3>1, <3>2 DEF SessionFresh, PacksOf
    <3>4. Loads(k, u)
      BY <2>2
    <3> HIDE DEF u
    <3>5. QED
      BY <1>1, <3>1, <3>2, <3>3, <3>4
  <2>3. QED
    BY <1>2, <2>1, <2>2 DEF Probe
<1>3. CASE LoadedAll(k)
  <2> DEFINE run == [s EXCEPT !.at = "opening", !.todo = {}, !.works = {}]
  <2>1. /\ s.at = "loading" /\ session' = [session EXCEPT ![k] = run]
        /\ packages' \in {packages, AllUntried} /\ UNCHANGED <<resolves, resolved, crossed>>
    BY <1>0, <1>3 DEF LoadedAll, Loading
  <2>2. /\ run \in SessionRecord /\ run.at = "opening" /\ run.call = s.call /\ run.with = s.with
        /\ run.status = s.status /\ run.packs = s.packs /\ run.todo = {} /\ run.works = {}
    BY <1>0, SessionGoes
  <2> HIDE DEF run
  <2>3. /\ packages' \in [failed : BOOLEAN, works : SUBSET Package]
        /\ SinceReload => PacksOf(packages'.works, saved)
    <3>1. AllUntried \in [failed : BOOLEAN, works : SUBSET Package] /\ AllUntried.works = {}
      BY DEF AllUntried
    <3>2. PacksOf(AllUntried.works, saved)
      BY <3>1 DEF PacksOf
    <3>3. QED
      BY <1>0, <2>1, <3>1, <3>2
  <2>4. SinceReload => SessionFresh(run, saved, floor[2])
    BY <1>0, <2>1, <2>2 DEF SessionFresh, RunsWith, PacksOf
  <2>5. /\ UNCHANGED <<worldVars, callVars, fileVars, broken, reloading, local, pastVars>>
        /\ creating' = creating /\ piBudget' = piBudget
    BY <1>0, <2>1 DEF callVars, pastVars
  <2>6. /\ creating' \in Seq(PiSession) /\ piBudget'.pushes = piBudget.pushes
        /\ piBudget' \in PiCounted
        /\ run.call = NoResolve \/ run.call = session[k].call
        /\ run.at \notin {"none", "queued"}
    BY <2>2, <2>5, PiKept
  <2>7. QED
    BY <2>1, <2>2, <2>3, <2>4, <2>5, <2>6, OnlySession, ZenonT(60)
<1>4. CASE ProbingBegins(k)
  <2>1. Probe(k, s) /\ (SinceReload => PacksOf(s.works, saved))
    BY <1>0, <1>4 DEF ProbingBegins, SessionFresh
  <2>2. QED
    BY <1>0, <1>2, <2>1
<1>5. CASE Probed(k)
  <2> DEFINE t == [s EXCEPT !.works = @ \cup (s.packs \ broken)]
  <2>1. Probe(k, t)
    BY <1>5 DEF Probed
  <2>2. t \in SessionRecord /\ t.packs = s.packs /\ t.todo = s.todo /\ t.works = s.works \cup (s.packs \ broken)
    BY <1>0 DEF SessionRecord
  <2>3. SinceReload => PacksOf(t.works, saved)
    BY <1>0, <2>2 DEF SessionFresh, PacksOf
  <2> HIDE DEF t
  <2>4. QED
    BY <1>2, <2>1, <2>2, <2>3
<1>6. CASE NoneWork(k)
  <2> DEFINE u == [s EXCEPT !.mode = "without", !.packs = {}, !.todo = {}]
  <2>1. Loads(k, u) /\ packages' = [failed |-> TRUE, works |-> {}]
    BY <1>6 DEF NoneWork
  <2>2. u \in SessionRecord /\ u.packs = {} /\ u.todo = {} /\ u.works = s.works
    BY <1>0 DEF SessionRecord
  <2>3. packages' \in [failed : BOOLEAN, works : SUBSET Package] /\ packages'.works = {}
    BY <2>1
  <2>4. SinceReload => /\ PacksOf(u.packs, saved) /\ PacksOf(u.todo, saved) /\ PacksOf(u.works, saved)
                       /\ PacksOf(packages'.works, saved)
    BY <1>0, <2>2, <2>3 DEF SessionFresh, PacksOf
  <2> HIDE DEF u
  <2>5. QED
    BY <1>1, <2>1, <2>2, <2>3, <2>4
<1>7. QED
  BY <1>3, <1>4, <1>5, <1>6 DEF CreateStep

LEMMA PiStep == PiInv /\ [PiNext]_piVars => PiInv'
<1> SUFFICES ASSUME PiInv, [PiNext]_piVars PROVE PiInv'
  OBVIOUS
<1>1. ASSUME NEW r \in Resolve, ResolveStep(r) \/ StateAsked(r) PROVE PiInv'
  BY <1>1, CallStepKeeps, AskKeeps
<1>2. ASSUME NEW k \in PiSession,
             \/ Create(k) \/ CreateBegins(k) \/ Configured(k) \/ Overlaid(k) \/ CreateStep(k) \/ CreateEnds(k)
             \/ Released(k) \/ SetSetting(k)
      PROVE  PiInv'
  BY <1>2, QueueKeeps, TurnKeeps, LoadingKeeps, OutsideKeeps
<1>3. ASSUME NEW s \in Source \cup {NoSource}, ReloadAsked(s) PROVE PiInv'
  BY <1>3, ReloadAskedKeeps
<1>4. CASE Reset
  BY <1>4, ResetKeeps
<1>5. ASSUME NEW s \in Source, Push(s) PROVE PiInv'
  BY <1>5, PushKeeps
<1>6. CASE UNCHANGED piVars \/ \E p \in Package : Break(p)
  BY <1>6, OutsideKeeps
<1>7. QED
  BY <1>1, <1>2, <1>3, <1>4, <1>5, <1>6 DEF PiNext

LEMMA PiConfigured == PiInv => ConfigurationTrue
<1> SUFFICES ASSUME PiInv PROVE ConfigurationTrue
  OBVIOUS
<1> USE PiAssumption DEF PiCounted
<1>1. OwnContent
  <2> SUFFICES ASSUME NEW r \in Resolve, resolves[r].at = "done"
               PROVE  {resolves[r].settings, resolves[r].resources} \subseteq {Nothing} \cup ({resolves[r].src} \X Nat)
    BY DEF OwnContent
  <2>1. CallOk(resolves[r]) /\ resolves[r] \in CallRecord
    BY PiKept DEF CallsInv
  <2>2. \A x \in Content : IsOf(x, resolves[r].src) => x \in {resolves[r].src} \X Nat
    BY DEF Content, IsOf
  <2>3. QED
    BY <2>1, <2>2 DEF CallOk, CallRecord
<1>2. ReloadedInForce
  BY DEF PiInv, ReloadedInForce, SinceReload, SessionFresh, RunsWith
<1>3. QED
  BY <1>1, <1>2 DEF PiInv, CallsInv, ConfigurationTrue

LEMMA PiOfParts ==
    /\ PartsInit => PiInit
    /\ [PartsNext]_partVars => [PiNext]_piVars
BY DEF PartsInit, PartsNext, partVars, serverVars, pageVars, linkVars

\* What a server resolves is of the profile it asked for; what the remembered answer
\* names is on disk; a session runs with what the last reload found or later, and with
\* packages of that profile; and settings.json never takes over the profile's values,
\* whatever is pushed, fails, is reloaded or is being created meanwhile.
THEOREM ConfigurationTrueCorrect == PartsSpec => []ConfigurationTrue
<1>1. PartsSpec => []PiInv
  BY PiStarts, PiStep, PiOfParts, PTL DEF PartsSpec
<1>2. QED
  BY <1>1, PiConfigured, PTL

(***************************************************************************)
(* The types of all parts.                                                 *)
(***************************************************************************)

\* Every part keeps its types, and with them its bounds: a message queue of the page's
\* dialogs or cards, the events that the panel of a hook keeps, the numbers of the file
\* requests, the stores of agents' cards whatever is reduced, pruned and laid over them.
THEOREM PartsTypeOKCorrect == PartsSpec => []PartsTypeOK
<1>1. PartsSpec => [](KInv /\ DialogsInv)
  <2>1. KInv /\ [KNext]_kVars => KInv'
    BY KStep
  <2>2. DialogsInv /\ [DialogsNext]_dialogVars => DialogsInv'
    BY DialogsStep
  <2>3. QED
    BY <2>1, <2>2, KStarts, KOfParts, DialogsStarts, DialogsOfParts, PTL DEF PartsSpec
<1>2. PartsSpec => [](ComposerInv /\ PiInv)
  BY ComposerStarts, ComposerStep, ComposerOfParts, PiStarts, PiStep, PiOfParts, PTL DEF PartsSpec
<1>3. PartsSpec => [](CardsInv /\ HooksInv)
  BY CardsStarts, CardsStep, CardsOfParts, HooksStart, HooksStep, HooksOfParts, PTL DEF PartsSpec
<1>4. PartsSpec => []SelectionInv
  BY SelectionStarts, SelectionSteps, SelectionOfParts, PTL DEF PartsSpec
<1>5. PartsSpec => [](PanelInv /\ PanelCounted)
  <2>1. PanelInv /\ PanelCounted /\ [PanelNext]_panelVars => PanelInv' /\ PanelCounted'
    BY PanelStep, PanelCounts
  <2>2. QED
    BY <2>1, PanelStarts, PanelCountStarts, PanelOfParts, PTL DEF PartsSpec
<1>6. PartsSpec => [](SettingsInv /\ LoginInv)
  BY SettingsStarts, SettingsStep, LoginStarts, LoginStep, SettingsOfParts, PTL DEF PartsSpec
<1>7. PartsSpec => [](RemoteInv /\ SharedInv /\ RecoveryInv)
  BY RemoteStarts, RemoteStep, RemoteOfParts, SharedStarts, SharedStep, SharedOfParts,
     RecoveryStarts, RecoveryStep, RecoveryOfParts, PTL DEF PartsSpec
<1>8. KInv /\ DialogsInv /\ ComposerInv /\ PiInv /\ SettingsInv /\ LoginInv =>
        KTypeOK /\ DialogsTypeOK /\ ComposerTypeOK /\ PiTypeOK /\ SettingsTypeOK /\ LoginTypeOK
  BY DEF KInv, DialogsInv, ComposerInv, PiInv, SettingsInv, LoginInv
<1>9. RemoteInv /\ SharedInv /\ RecoveryInv => RemoteTypeOK /\ SharedTypeOK /\ RecoveryTypeOK
  BY DEF RemoteInv, SharedInv, RecoveryInv
<1>10. CardsInv /\ HooksInv /\ SelectionInv /\ PanelInv /\ PanelCounted =>
        CardsTypeOK /\ OperationsTypeOK /\ SelectionTypeOK /\ PanelTypeOK
  BY CardsTyped, HooksTyped, SelectionTyped, PanelTyped
<1>11. /\ KInv /\ DialogsInv /\ ComposerInv /\ PiInv /\ SettingsInv /\ LoginInv
       /\ RemoteInv /\ SharedInv /\ RecoveryInv
       /\ CardsInv /\ HooksInv /\ SelectionInv /\ PanelInv /\ PanelCounted
       => PartsTypeOK
  BY <1>8, <1>9, <1>10 DEF PartsTypeOK
<1>12. QED
  BY <1>1, <1>2, <1>3, <1>4, <1>5, <1>6, <1>7, <1>11, PTL
=============================================================================
