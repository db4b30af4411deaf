-------------------------- MODULE RemoteWorkspaces --------------------------
(***************************************************************************)
(* server/remote-workspaces.js: the web server's picture of the workers of *)
(* workspaced.  projects() lists them, asks the running ones for their     *)
(* state and follows their events; what it learns stays in the sidebar     *)
(* while a worker sleeps, and on disk.  Calls overlap, answers are late or *)
(* lost, workers and the web server come and go.                           *)
(***************************************************************************)
EXTENDS Naturals

CONSTANTS
    Site,          \* names of workers
    Listing,       \* calls of projects() that may overlap
    MaxLoops,      \* bound: event loops of one worker at a time, aborted ones with them
    MaxRevs,       \* bound: revisions of what a worker has to show
    MaxSiteMoves,  \* bound: workers that are made, sleep, wake or go
    MaxWebStarts   \* bound: restarts of the web server

ASSUME RemoteAssumption ==
    Site # {} /\ MaxLoops \in Nat \ {0} /\ {MaxRevs, MaxSiteMoves, MaxWebStarts} \subseteq Nat

VARIABLES
    site,      \* workspaced's workers: [Site -> state, and revision of the projects]
    shots,     \* snapshots: the revision last seen, 0 for none
    disk,      \* the same in remote-projects.json
    onDisk,    \* whether the last save of it succeeded
    owned,     \* workers named by the maps of owners
    listings,  \* [Listing -> a call of projects()]
    streams,   \* the loop whose controller the map streams holds, 0 for none
    loops,     \* [Site -> [1..MaxLoops -> an event loop]]
    opening,   \* createProject: the worker, and what is awaited
    siteMoves, webStarts

remoteVars == <<site, shots, disk, onDisk, owned, listings, streams, loops, opening, siteMoves, webStarts>>

SiteState == {"none", "asleep", "running"}
Loop == 1..MaxLoops
Rev == 0..MaxRevs
\* heard: states of workers on their way to this call.
ListingRecord ==
    [at : {"idle", "asked", "listed", "asking"}, list : [Site -> SiteState], left : SUBSET Site,
     heard : [Site -> Rev], changed : BOOLEAN]
\* refused: 503 was answered, which the loop has not seen yet.
LoopState == {"idle", "asking", "refused", "open", "waiting", "aborted"}

RemoteTypeOK ==
    /\ site \in [Site -> [state : SiteState, rev : Rev]]
    /\ {shots, disk} \subseteq [Site -> Rev] /\ onDisk \in BOOLEAN
    /\ owned \subseteq Site
    /\ listings \in [Listing -> ListingRecord]
    /\ streams \in [Site -> 0..MaxLoops]
    /\ loops \in [Site -> [Loop -> LoopState]]
    /\ opening \in [of : Site, at : {"none", "creating", "waiting", "posting"}]
    /\ siteMoves \in 0..MaxSiteMoves /\ webStarts \in 0..MaxWebStarts

NoListing == [at |-> "idle", list |-> [w \in Site |-> "none"], left |-> {},
              heard |-> [w \in Site |-> 0], changed |-> FALSE]
NotOpening == [of |-> CHOOSE w \in Site : TRUE, at |-> "none"]

NoLoops == [w \in Site |-> [i \in Loop |-> "idle"]]

RemoteInit ==
    /\ site = [w \in Site |-> [state |-> "none", rev |-> 0]]
    /\ shots = [w \in Site |-> 0] /\ disk = shots /\ onDisk = TRUE
    /\ owned = {}
    /\ listings = [p \in Listing |-> NoListing]
    /\ streams = [w \in Site |-> 0] /\ loops = NoLoops
    /\ opening = NotOpening
    /\ siteMoves = 0 /\ webStarts = 0

-----------------------------------------------------------------------------
(* Streams of events.                                                      *)

\* unsubscribe: the fetch of an aborted loop rejects, later.
Aborted(ws) ==
    [w \in Site |-> [i \in Loop |->
        IF w \in ws /\ streams[w] = i /\ loops[w][i] # "refused" THEN "aborted" ELSE loops[w][i]]]

\* A bug to catch: a worker that is followed already is followed again.
NotKnown(w) == TRUE

\* subscribe begins no loop for a worker that the map has.
NotFollowed(w) == streams[w] = 0

Free(w) == {i \in Loop : loops[w][i] = "idle"}
Slot(w) == CHOOSE i \in Free(w) : TRUE

\* ws are to be followed, nothing else is.
Follow(ws) ==
    LET news == {w \in ws : NotFollowed(w)}
        aborted == Aborted(Site \ ws)
    IN /\ \A w \in news : Free(w) # {}
       /\ loops' = [w \in Site |-> IF w \in news THEN [loops[w] EXCEPT ![Slot(w)] = "asking"] ELSE aborted[w]]
       /\ streams' = [w \in Site |-> IF w \notin ws THEN 0 ELSE IF w \in news THEN Slot(w) ELSE streams[w]]

SetLoop(w, i, state) == loops' = [loops EXCEPT ![w][i] = state]

\* The request for events is answered: by the worker, or by workspaced for it.
LoopAnswered(w, i) ==
    /\ loops[w][i] = "asking"
    /\ SetLoop(w, i, CASE site[w].state = "running" -> "open"
                       [] site[w].state = "asleep" -> "refused"
                       [] site[w].state = "none" -> "waiting")
    /\ UNCHANGED <<site, shots, disk, onDisk, owned, listings, streams, opening, siteMoves, webStarts>>

\* Asleep: no stream until projects() sees it running again.
LoopRefused(w, i) ==
    /\ loops[w][i] = "refused"
    /\ SetLoop(w, i, "idle")
    /\ streams' = [streams EXCEPT ![w] = IF @ = i THEN 0 ELSE @]
    /\ UNCHANGED <<site, shots, disk, onDisk, owned, listings, opening, siteMoves, webStarts>>

\* An event of a conversation names its worker.
LoopEvent(w, i) ==
    /\ loops[w][i] = "open" /\ site[w].state = "running" /\ w \notin owned
    /\ owned' = owned \cup {w}
    /\ UNCHANGED <<site, shots, disk, onDisk, listings, streams, loops, opening, siteMoves, webStarts>>

LoopBreaks(w, i) ==
    /\ loops[w][i] \in {"asking", "open"}
    /\ SetLoop(w, i, "waiting")
    /\ UNCHANGED <<site, shots, disk, onDisk, owned, listings, streams, opening, siteMoves, webStarts>>

LoopRetries(w, i) ==
    /\ loops[w][i] = "waiting"
    /\ SetLoop(w, i, "asking")
    /\ UNCHANGED <<site, shots, disk, onDisk, owned, listings, streams, opening, siteMoves, webStarts>>

LoopEnds(w, i) ==
    /\ loops[w][i] = "aborted"
    /\ SetLoop(w, i, "idle")
    /\ UNCHANGED <<site, shots, disk, onDisk, owned, listings, streams, opening, siteMoves, webStarts>>

-----------------------------------------------------------------------------
(* projects().                                                             *)

SetListing(p, r) == listings' = [listings EXCEPT ![p] = r]

\* GET /state, or owner() of an id that nobody is known for.
ListAsked(p) ==
    /\ listings[p].at = "idle"
    /\ SetListing(p, [NoListing EXCEPT !.at = "asked"])
    /\ UNCHANGED <<site, shots, disk, onDisk, owned, streams, loops, opening, siteMoves, webStarts>>

\* workspaced takes the list.
ListTaken(p) ==
    /\ listings[p].at = "asked"
    /\ SetListing(p, [listings[p] EXCEPT !.at = "listed", !.list = [w \in Site |-> site[w].state]])
    /\ UNCHANGED <<site, shots, disk, onDisk, owned, streams, loops, opening, siteMoves, webStarts>>

ListFails(p) ==
    /\ listings[p].at \in {"asked", "listed"}
    /\ SetListing(p, NoListing)
    /\ UNCHANGED <<site, shots, disk, onDisk, owned, streams, loops, opening, siteMoves, webStarts>>

\* saveSnapshots: an error is swallowed.  With no cachePath nothing is ever saved,
\* as when each save fails.
Saves ==
    \/ disk' = shots' /\ onDisk' = TRUE
    \/ UNCHANGED disk /\ onDisk' = FALSE

\* Every worker has answered or failed to: what changed is saved, once.
EndsWith(p, r) ==
    \/ r.left # {} /\ SetListing(p, r) /\ UNCHANGED <<disk, onDisk>>
    \/ r.left = {} /\ r.changed /\ SetListing(p, NoListing) /\ Saves
    \/ r.left = {} /\ ~r.changed /\ SetListing(p, NoListing) /\ UNCHANGED <<disk, onDisk>>

ListAnswered(p) ==
    /\ listings[p].at = "listed"
    /\ LET list == listings[p].list
           running == {w \in Site : list[w] = "running"}
           gone == {w \in Site : list[w] = "none" /\ shots[w] # 0}
       IN /\ shots' = [w \in Site |-> IF w \in gone THEN 0 ELSE shots[w]]
          /\ Follow(running)
          /\ EndsWith(p, [NoListing EXCEPT !.at = "asking", !.left = running, !.changed = gone # {}])
    /\ UNCHANGED <<site, owned, opening, siteMoves, webStarts>>

\* A worker takes its state for this call.
StateTaken(p, w) ==
    /\ listings[p].at = "asking" /\ w \in listings[p].left /\ listings[p].heard[w] = 0
    /\ site[w].state = "running" /\ site[w].rev # 0
    /\ SetListing(p, [listings[p] EXCEPT !.heard[w] = site[w].rev])
    /\ UNCHANGED <<site, shots, disk, onDisk, owned, streams, loops, opening, siteMoves, webStarts>>

\* The answer, maybe a late one; or none in time.
StateAnswered(p, w) ==
    /\ listings[p].at = "asking" /\ w \in listings[p].left
    /\ \E fresh \in {0, listings[p].heard[w]} :
          /\ shots' = IF fresh = 0 THEN shots ELSE [shots EXCEPT ![w] = fresh]
          /\ owned' = IF fresh = 0 THEN owned ELSE owned \cup {w}
          /\ EndsWith(p, [listings[p] EXCEPT !.left = @ \ {w}, !.heard[w] = 0,
                                             !.changed = @ \/ fresh \notin {0, shots[w]}])
    /\ UNCHANGED <<site, streams, loops, opening, siteMoves, webStarts>>

-----------------------------------------------------------------------------
(* createProject, and the worker it makes.                                 *)

Moved(w, state, rev) ==
    /\ siteMoves < MaxSiteMoves
    /\ site' = [site EXCEPT ![w] = [state |-> state, rev |-> rev]]
    /\ siteMoves' = siteMoves + 1

CreateAsked(w) ==
    /\ opening.at = "none" /\ site[w].state = "none"
    /\ opening' = [of |-> w, at |-> "creating"]
    /\ UNCHANGED <<site, shots, disk, onDisk, owned, listings, streams, loops, siteMoves, webStarts>>

\* POST /workspaces makes the worker and is answered.
Created(w) ==
    /\ opening = [of |-> w, at |-> "creating"]
    /\ Moved(w, "asleep", 0)
    /\ opening' = [of |-> w, at |-> "waiting"]
    /\ UNCHANGED <<shots, disk, onDisk, owned, listings, streams, loops, webStarts>>

\* waitReady: GET /health wakes the worker.
Ready(w) ==
    /\ opening = [of |-> w, at |-> "waiting"] /\ site[w].state # "none"
    /\ site' = [site EXCEPT ![w].state = "running"]
    /\ NotFollowed(w) => Free(w) # {}
    /\ loops' = IF NotFollowed(w) THEN [loops EXCEPT ![w][Slot(w)] = "asking"] ELSE loops
    /\ streams' = IF NotFollowed(w) THEN [streams EXCEPT ![w] = Slot(w)] ELSE streams
    /\ opening' = [of |-> w, at |-> "posting"]
    /\ UNCHANGED <<shots, disk, onDisk, owned, listings, siteMoves, webStarts>>

\* POST /projects of the worker connects the repository.
Posted(w) ==
    /\ opening = [of |-> w, at |-> "posting"] /\ site[w].state # "none" /\ site[w].rev < MaxRevs
    /\ site' = [site EXCEPT ![w] = [state |-> "running", rev |-> @.rev + 1]]
    /\ owned' = owned \cup {w}
    /\ opening' = NotOpening
    /\ UNCHANGED <<shots, disk, onDisk, listings, streams, loops, siteMoves, webStarts>>

\* Refused, not ready in time, or the answer is lost.
OpeningFails ==
    /\ opening.at # "none"
    /\ opening' = NotOpening
    /\ UNCHANGED <<site, shots, disk, onDisk, owned, listings, streams, loops, siteMoves, webStarts>>

-----------------------------------------------------------------------------
(* The workers, by themselves, and the web server.                         *)

SiteMoves(w) ==
    /\ site[w].state # "none"
    /\ \/ Moved(w, "running", site[w].rev) /\ site[w].state = "asleep"
       \/ Moved(w, "asleep", site[w].rev) /\ site[w].state = "running"
       \/ Moved(w, "none", 0)
    /\ UNCHANGED <<shots, disk, onDisk, owned, listings, streams, loops, opening, webStarts>>

\* A conversation begins or ends there.
SiteWorks(w) ==
    /\ site[w].state = "running" /\ site[w].rev \in 1..(MaxRevs - 1)
    /\ site' = [site EXCEPT ![w].rev = @ + 1]
    /\ UNCHANGED <<shots, disk, onDisk, owned, listings, streams, loops, opening, siteMoves, webStarts>>

\* What the file says is shown, and its owners are known.
WebStarts ==
    /\ webStarts < MaxWebStarts
    /\ webStarts' = webStarts + 1
    /\ shots' = disk
    /\ owned' = {w \in Site : disk[w] # 0}
    /\ listings' = [p \in Listing |-> NoListing]
    /\ streams' = [w \in Site |-> 0] /\ loops' = NoLoops
    /\ opening' = NotOpening
    /\ onDisk' = TRUE
    /\ UNCHANGED <<site, disk, siteMoves>>

RemoteNext ==
    \/ \E p \in Listing :
          \/ ListAsked(p) \/ ListTaken(p) \/ ListFails(p) \/ ListAnswered(p)
          \/ \E w \in Site : StateTaken(p, w) \/ StateAnswered(p, w)
    \/ \E w \in Site :
          \/ \E i \in Loop : \/ LoopAnswered(w, i) \/ LoopRefused(w, i) \/ LoopEvent(w, i) \/ LoopBreaks(w, i)
                             \/ LoopRetries(w, i) \/ LoopEnds(w, i)
          \/ CreateAsked(w) \/ Created(w) \/ Ready(w) \/ Posted(w)
          \/ SiteMoves(w) \/ SiteWorks(w)
    \/ OpeningFails \/ WebStarts

-----------------------------------------------------------------------------
(* Properties.                                                             *)

Following(w, i) == loops[w][i] \in {"asking", "open", "waiting"}

\* Each event of a worker reaches the pages once: one loop follows it, the one the
\* map can stop.  A worker with an entry in the map is followed, so that no subscribe
\* passes it over.
OneLoop ==
    \A w \in Site :
        /\ \A i \in Loop : Following(w, i) => streams[w] = i
        /\ streams[w] # 0 => Following(w, streams[w]) \/ loops[w][streams[w]] = "refused"

\* What the sidebar shows of a worker that sleeps can be opened, and is on disk once
\* no call is under way, unless the last save of it failed: that is not tried
\* again before something else changes.
ShownIsOwned ==
    /\ \A w \in Site : shots[w] # 0 => w \in owned
    /\ onDisk /\ (\A p \in Listing : listings[p].at = "idle") => disk = shots
=============================================================================
