--------------------------- MODULE LocalProvider ---------------------------
(***************************************************************************)
(* workspaced/local.js: workers as child processes of workspaced, with the *)
(* registry file that survives workspaced, and the callers of its          *)
(* operations (workspaced/lifecycle.js and workspaced/index.js) reduced to *)
(* the check each makes before its call.  JavaScript runs to the next      *)
(* await, so an action is the code between two awaits: the only await      *)
(* inside the provider is freePort() in start().                           *)
(***************************************************************************)
EXTENDS Integers, FiniteSets

CONSTANTS
    Name,         \* workspace names
    Child,        \* process identities; one is used again after it exited
    NoChild,      \* "procs has no entry"
    NoName,       \* "this identity is not a running process"
    MaxRestarts,  \* maxRestarts of local.js (3 in production)
    MaxStarts,    \* bound: overlapping start() calls per workspace
    MaxTimers,    \* bound: pending restart timers per workspace
    MaxCrashes,   \* bound: crashes of one window that are counted
    Serial        \* TRUE: calls on one workspace never overlap a start

ASSUME ProviderAssumption ==
    /\ NoChild \notin Child
    /\ NoName \notin Name
    /\ MaxRestarts \in Nat
    /\ MaxStarts \in Nat \ {0}
    /\ MaxTimers \in Nat \ {0}
    /\ MaxCrashes \in Nat /\ MaxCrashes > MaxRestarts
    /\ Serial \in BOOLEAN

Request == {"wake", "restart", "reset"}

VARIABLES
    listed,    \* names in workspaces.json
    sleeping,  \* their "sleeping" flag, on disk
    pinned,    \* their "pinned" flag, on disk
    procs,     \* the procs map: the child each name is served by
    runs,      \* the name a live process runs, whether procs knows it or not
    killed,    \* live processes that were sent SIGTERM
    starts,    \* start() calls waiting in freePort(), per name
    timers,    \* restart timers set by onExit and not fired yet
    recent,    \* crashes[name].times.length, crashes still in the window
    fatal,     \* names with crashes[name].fatal
    unstarted, \* names whose last start() threw
    booting,   \* names init() has not started yet
    asked      \* checks made by a caller whose call comes later

disk == <<listed, sleeping, pinned>>
vars == <<listed, sleeping, pinned, procs, runs, killed, starts, timers,
          recent, fatal, unstarted, booting, asked>>

TypeOK ==
    /\ listed \subseteq Name
    /\ sleeping \subseteq Name
    /\ pinned \subseteq Name
    /\ procs \in [Name -> Child \cup {NoChild}]
    /\ runs \in [Child -> Name \cup {NoName}]
    /\ killed \subseteq Child
    /\ starts \in [Name -> 0 .. MaxStarts]
    /\ timers \in [Name -> 0 .. MaxTimers]
    /\ recent \in [Name -> 0 .. MaxCrashes]
    /\ fatal \subseteq Name
    /\ unstarted \subseteq Name
    /\ booting \subseteq Name
    /\ asked \subseteq Request \X Name

\* The state list() reports for a registered name.
StateOf(n) ==
    IF procs[n] # NoChild THEN "running"
    ELSE IF n \in sleeping THEN "sleeping"
    ELSE IF n \in fatal THEN "failed" ELSE "starting"

-----------------------------------------------------------------------------
(* start(): returns at once when a child is registered, else waits for a   *)
(* free port; Spawn is what follows the await.                             *)

BeginStart(n, registered) ==
    /\ registered \/ starts[n] < MaxStarts
    /\ starts' = IF registered THEN starts ELSE [starts EXCEPT ![n] = @ + 1]
    /\ unstarted' = unstarted \ {n}

Spawn(n) ==
    /\ starts[n] > 0
    /\ starts' = [starts EXCEPT ![n] = @ - 1]
    /\ booting' = booting \ {n}
    /\ \E c \in Child :
          /\ runs[c] = NoName
          /\ runs' = [runs EXCEPT ![c] = n]
          /\ procs' = [procs EXCEPT ![n] = c]
    /\ UNCHANGED <<disk, killed, timers, recent, fatal, unstarted, asked>>

\* freePort() or spawn() threw: the caller, or the timer's catch, gets it.
\* While init() runs this ends workspaced, which is ServerRestart.
StartFails(n) ==
    /\ starts[n] > 0
    /\ booting = {}
    /\ starts' = [starts EXCEPT ![n] = @ - 1]
    /\ unstarted' = unstarted \cup {n}
    /\ UNCHANGED <<disk, procs, runs, killed, timers, recent, fatal, booting, asked>>

\* procs.delete(name), then SIGTERM: onExit takes the exit as intended.
Detach(n) == procs' = [procs EXCEPT ![n] = NoChild]

SignalUnchecked(n) == killed' = killed \cup {procs[n]}  \* mutated Terminate: no "?."
Terminate(n) == killed' = IF procs[n] = NoChild THEN killed ELSE killed \cup {procs[n]}

-----------------------------------------------------------------------------
(* Exits, the crash history and the restart timer.                         *)

ForgetTimer(n) == UNCHANGED timers  \* mutated RestartLater: no setTimeout
RestartLater(n) ==
    /\ timers[n] < MaxTimers
    /\ timers' = [timers EXCEPT ![n] = @ + 1]

\* onExit of the child procs knows: it died on its own.
Crash(n) ==
    /\ procs[n] # NoChild
    /\ recent[n] < MaxCrashes
    /\ runs' = [runs EXCEPT ![procs[n]] = NoName]
    /\ Detach(n)
    /\ recent' = [recent EXCEPT ![n] = @ + 1]
    /\ IF recent[n] + 1 > MaxRestarts
       THEN /\ fatal' = fatal \cup {n}
            /\ UNCHANGED timers
       ELSE /\ fatal' = fatal \ {n}
            /\ RestartLater(n)
    /\ UNCHANGED <<disk, killed, starts, unstarted, booting, asked>>

\* Mutated Exit: onExit without its first line counts every exit.
ExitCounted(c) ==
    /\ runs[c] # NoName
    /\ procs[runs[c]] # c
    /\ recent[runs[c]] < MaxCrashes
    /\ runs' = [runs EXCEPT ![c] = NoName]
    /\ killed' = killed \ {c}
    /\ recent' = [recent EXCEPT ![runs[c]] = @ + 1]
    /\ UNCHANGED <<disk, procs, starts, timers, fatal, unstarted, booting, asked>>

\* onExit of any other child returns at its first line.
Exit(c) ==
    /\ runs[c] # NoName
    /\ procs[runs[c]] # c
    /\ runs' = [runs EXCEPT ![c] = NoName]
    /\ killed' = killed \ {c}
    /\ UNCHANGED <<disk, procs, starts, timers, recent, fatal, unstarted, booting, asked>>

TimerFires(n) ==
    /\ timers[n] > 0
    /\ Serial => starts[n] = 0
    /\ timers' = [timers EXCEPT ![n] = @ - 1]
    /\ IF n \in listed /\ n \notin sleeping /\ procs[n] = NoChild
       THEN BeginStart(n, FALSE)
       ELSE UNCHANGED <<starts, unstarted>>
    /\ UNCHANGED <<disk, procs, runs, killed, recent, fatal, booting, asked>>

\* The oldest crash leaves the window; the window is far longer than the
\* restart delay, so the timer of that crash has fired.
Age(n) ==
    /\ recent[n] > timers[n]
    /\ recent' = [recent EXCEPT ![n] = @ - 1]
    /\ UNCHANGED <<disk, procs, runs, killed, starts, timers, fatal, unstarted, booting, asked>>

-----------------------------------------------------------------------------
(* The callers.  The state they check is the one list() gave, possibly     *)
(* from the 3 s cache; the call follows after further awaits (queued       *)
(* wakes, health probes, making room).                                     *)

Serving == booting = {}
Free(n) == Serial => starts[n] = 0

\* ensureAwake's and refuseAsleep's check.  A wake already queued is joined.
Ask(r, n) ==
    /\ Serving
    /\ n \in listed
    /\ <<r, n>> \notin asked
    /\ IF r = "wake" THEN /\ StateOf(n) \in {"sleeping", "starting"}
                          /\ n \in fatal => n \in sleeping
                     ELSE StateOf(n) # "sleeping"
    /\ asked' = asked \cup {<<r, n>>}
    /\ UNCHANGED <<disk, procs, runs, killed, starts, timers, recent, fatal, unstarted, booting>>

\* The call was given up: refused as busy, or a room-making step failed.
Withdraw(r, n) ==
    /\ <<r, n>> \in asked
    /\ asked' = asked \ {<<r, n>>}
    /\ UNCHANGED <<disk, procs, runs, killed, starts, timers, recent, fatal, unstarted, booting>>

\* scale(name, 1), from doWake: the entry is dropped, nothing is killed.
ScaleUp(n) ==
    /\ <<"wake", n>> \in asked
    /\ n \in listed
    /\ Free(n)
    /\ Serial => procs[n] = NoChild
    /\ asked' = asked \ {<<"wake", n>>}
    /\ sleeping' = sleeping \ {n}
    /\ Detach(n)
    /\ BeginStart(n, FALSE)
    /\ UNCHANGED <<listed, pinned, runs, killed, timers, recent, fatal, booting>>

\* scale(name, 0), from an eviction, the idle sweep or the sleep route.
ScaleDown(n) ==
    /\ Serving
    /\ n \in listed
    /\ Free(n)
    /\ sleeping' = sleeping \cup {n}
    /\ Detach(n)
    /\ Terminate(n)
    /\ UNCHANGED <<listed, pinned, runs, starts, timers, recent, fatal, unstarted, booting, asked>>

\* respawn(): restart, and reset, which also wipes the state directory.
Respawn(r, n) ==
    /\ <<r, n>> \in asked
    /\ n \in listed
    /\ Free(n)
    /\ asked' = asked \ {<<r, n>>}
    /\ Detach(n)
    /\ Terminate(n)
    /\ recent' = [recent EXCEPT ![n] = 0]
    /\ fatal' = fatal \ {n}
    /\ BeginStart(n, FALSE)
    /\ UNCHANGED <<disk, runs, timers, booting>>

\* create(): the entry's flags are kept when the name is already registered.
Create(n) ==
    /\ Serving
    /\ Free(n)
    /\ listed' = listed \cup {n}
    /\ BeginStart(n, procs[n] # NoChild)
    /\ UNCHANGED <<sleeping, pinned, procs, runs, killed, timers, recent, fatal, booting, asked>>

Remove(n) ==
    /\ Serving
    /\ Free(n)
    /\ listed' = listed \ {n}
    /\ sleeping' = sleeping \ {n}
    /\ pinned' = pinned \ {n}
    /\ Detach(n)
    /\ Terminate(n)
    /\ recent' = [recent EXCEPT ![n] = 0]
    /\ fatal' = fatal \ {n}
    /\ UNCHANGED <<runs, starts, timers, unstarted, booting, asked>>

SetPinned(n, keep) ==
    /\ Serving
    /\ n \in listed
    /\ pinned' = IF keep THEN pinned \cup {n} ELSE pinned \ {n}
    /\ UNCHANGED <<listed, sleeping, procs, runs, killed, starts, timers, recent, fatal,
                   unstarted, booting, asked>>

-----------------------------------------------------------------------------
(* workspaced itself: only the registry file survives it, and init()       *)
(* starts every worker that was not put to sleep.                          *)

Awake == listed \ sleeping
Each(value) == [n \in Name |-> value]
BootStarts == [n \in Name |-> IF n \in Awake THEN 1 ELSE 0]

Init ==
    /\ listed \in SUBSET Name
    /\ sleeping \in SUBSET listed
    /\ pinned \in SUBSET listed
    /\ booting = Awake
    /\ starts = BootStarts
    /\ procs = Each(NoChild)
    /\ runs = [c \in Child |-> NoName]
    /\ timers = Each(0)
    /\ recent = Each(0)
    /\ killed = {} /\ fatal = {} /\ unstarted = {} /\ asked = {}

ServerRestart ==
    /\ booting' = Awake
    /\ starts' = BootStarts
    /\ procs' = Each(NoChild)
    /\ runs' = [c \in Child |-> NoName]
    /\ timers' = Each(0)
    /\ recent' = Each(0)
    /\ killed' = {} /\ fatal' = {} /\ unstarted' = {} /\ asked' = {}
    /\ UNCHANGED disk

Next ==
    \/ \E n \in Name :
          \/ Spawn(n) \/ StartFails(n)
          \/ Crash(n) \/ TimerFires(n) \/ Age(n)
          \/ ScaleUp(n) \/ ScaleDown(n)
          \/ Create(n) \/ Remove(n)
          \/ \E keep \in BOOLEAN : SetPinned(n, keep)
          \/ \E r \in Request : Ask(r, n) \/ Withdraw(r, n)
          \/ \E r \in {"restart", "reset"} : Respawn(r, n)
    \/ \E c \in Child : Exit(c)
    \/ ServerRestart

\* The event loop runs what is ready: a free port is found, a due timer
\* fires, a process that was sent SIGTERM exits.
Fairness ==
    /\ \A n \in Name : WF_vars(Spawn(n)) /\ WF_vars(TimerFires(n))
    /\ \A c \in Child : WF_vars(c \in killed /\ Exit(c))

Spec == Init /\ [][Next]_vars /\ Fairness

-----------------------------------------------------------------------------
(* Properties.                                                             *)

\* Live processes of a workspace that nobody asked to stop.
Workers(n) == {c \in Child : runs[c] = n /\ c \notin killed}

\* What procs says is the truth: a registered child is alive, runs that very
\* workspace and was not told to stop.  A stop that killed before it deleted
\* the entry would be taken for a crash and undone by the restart timer.
RegisteredIsServing ==
    \A n \in Name : procs[n] # NoChild => procs[n] \in Workers(n)

\* No awake workspace is forgotten: without a registered child it is either
\* given up (fatal), or a start or a restart timer is on its way, or a start
\* threw and its caller was told.
NobodyStranded ==
    \A n \in Awake :
        \/ procs[n] # NoChild
        \/ n \in fatal \/ starts[n] > 0 \/ timers[n] > 0 \/ n \in unstarted

\* One worker per workspace: two live processes that were not told to stop
\* would share one state directory, and procs knows only the last of them.
OneWorker == \A n \in Name : \A c, d \in Workers(n) : c = d

\* Only a death nobody asked for is counted: the history grows in a step in
\* which a child that was not told to stop disappears from procs and exits.
OnlyCrashesCount ==
    [][\A n \in Name : recent'[n] > recent[n] =>
          /\ procs[n] # NoChild /\ procs[n] \notin killed
          /\ procs'[n] = NoChild /\ runs'[procs[n]] = NoName]_vars

\* Bound: every process identity of the model is taken.
Exhausted == \A c \in Child : runs[c] # NoName

\* A worker that crashed (or whose workspaced was restarted) comes back, unless
\* it is put to sleep, removed or given up.
Recovers ==
    \A n \in Name :
        n \in Awake /\ procs[n] = NoChild
            ~> \/ procs[n] # NoChild \/ n \notin listed \/ n \in sleeping
               \/ n \in fatal \/ n \in unstarted \/ Exhausted
=============================================================================
