----------------------------- MODULE Workspaced -----------------------------
(***************************************************************************)
(* workspaced/lifecycle.js behind the routes of workspaced/index.js: which *)
(* workers sleep and wake, and what a request meets.  The provider is      *)
(* abstract: what list() reports of each workspace, changed at once by the *)
(* provider's calls and at any time by the worker itself.  An action is    *)
(* the code between two awaits.                                            *)
(***************************************************************************)
EXTENDS Integers, Sequences, FiniteSets

CONSTANTS
    Name,        \* workspace names
    NoName,      \* "no workspace"
    Req,         \* proxied requests, wake and reload calls being served
    MaxAwake,    \* WORKSPACED_MAX_AWAKE; 0 disables the limit
    Old,         \* workers first running an older image than workspaced's
    Deployments  \* for each deployment, what happens in it: the kinds of request,
                 \* the administrative routes, the sweep's parts, the workers' faults,
                 \* and whether requests are served at once (a bound)

ASSUME WorkspacedAssumption ==
    /\ NoName \notin Name
    /\ IsFiniteSet(Name) /\ IsFiniteSet(Req)
    /\ MaxAwake \in Nat
    /\ Old \subseteq Name
    /\ \A d \in Deployments :
          d \subseteq {"user", "wake", "reload", "poll",
                      "create", "remove", "restart", "reset", "sleep", "pin",
                      "idle", "room", "upgrade",
                      "turn", "fail", "crash", "mute", "pair"}

Phase == {"none", "sleeping", "starting", "running", "failed"}
Maker == {"wake", "sweep", "admin"}     \* who may be putting workers to sleep
Kind == {"user", "wake", "reload", "poll"}
Route == {"create", "restart", "reset", "sleep"}

VARIABLES
    phase,     \* the provider: state of each workspace ("failed": fatal problem)
    pinned,    \* the provider: pinned workspaces
    turn,      \* workers whose health reports busy
    outdated,  \* the provider: workers on an older image
    inflight,  \* requests begun and not ended, per workspace
    known,     \* cache.byName
    fresh,     \* the cache is younger than cacheMs
    queue,     \* waking and wakeQueue: names being woken, the head by doWake
    wake,      \* where doWake of the head is
    sweep,     \* where sweep() is
    run,       \* each maker's loop over the list it read
    admin,     \* the administrative route being served
    reqs,      \* the requests being served; seen is the list() answer on its way
    ops        \* the deployment, which never changes

provider == <<phase, pinned, turn, outdated>>
cache == <<known, fresh>>
waking == <<queue, wake>>
moving == <<provider, inflight, cache, waking, sweep, run, admin, reqs>>
vars == <<moving, ops>>

\* todo: listed candidates left; slept: those upgrade() saw asleep; excess: how
\* many to put to sleep; probe: the worker whose health is awaited.
Run == [todo : SUBSET Name, slept : SUBSET Name, excess : Int, probe : Name \cup {NoName}]
NoRun == [todo |-> {}, slept |-> {}, excess |-> 0, probe |-> NoName]
Request == [pc : {"idle", "listing", "waiting", "sent"},
            name : Name \cup {NoName}, kind : Kind, seen : [Name -> Phase]]
Call == [pc : {"idle", "probe", "ready", "making"}, op : Route, name : Name \cup {NoName}]

TypeOK ==
    /\ phase \in [Name -> Phase]
    /\ pinned \subseteq Name /\ turn \subseteq Name /\ outdated \subseteq Name
    /\ inflight \in [Name -> Nat]
    /\ known \in [Name -> Phase] /\ fresh \in BOOLEAN
    /\ queue \in Seq(Name)
    /\ wake \in {"idle", "room", "poll"}
    /\ sweep \in {"off", "idle", "room", "upgrade"}
    /\ run \in [Maker -> Run]
    /\ admin \in Call
    /\ reqs \in [Req -> Request]
    /\ ops \in Deployments

Queued == {queue[i] : i \in 1 .. Len(queue)}
Awake(n) == phase[n] \in {"starting", "running"}
OverLimit == MaxAwake > 0 /\ Cardinality({n \in Name : Awake(n)}) > MaxAwake

NoSeen == [n \in Name |-> "none"]
IdleReq == [pc |-> "idle", name |-> NoName, kind |-> "poll", seen |-> NoSeen]
IdleAdmin == [pc |-> "idle", op |-> "sleep", name |-> NoName]

Init ==
    /\ ops \in Deployments
    /\ phase \in [Name -> {"none", "sleeping", "running"}]
    /\ outdated = {n \in Old : phase[n] # "none"}
    /\ pinned = {}
    /\ turn \in SUBSET {n \in Name : "turn" \in ops /\ phase[n] = "running"}
    /\ inflight = [n \in Name |-> 0]
    /\ known = NoSeen /\ fresh = FALSE
    /\ queue = <<>>
    /\ wake = "idle" /\ sweep = "off"
    /\ run = [m \in Maker |-> NoRun]
    /\ admin = IdleAdmin
    /\ reqs = [r \in Req |-> IdleReq]

-----------------------------------------------------------------------------
(* The workers, as the provider reports them.                              *)

Worker(n, from, to) ==
    /\ phase[n] \in from
    /\ phase' = [phase EXCEPT ![n] = to]
    /\ turn' = turn \ {n}
    /\ UNCHANGED <<pinned, outdated, inflight, cache, waking, sweep, run, admin, reqs>>

WorkerReady(n) == Worker(n, {"starting", "failed"}, "running")
WorkerFails(n) == "fail" \in ops /\ Worker(n, {"starting", "running"}, "failed")
WorkerCrashes(n) == "crash" \in ops /\ Worker(n, {"running"}, "starting")

\* A request starts an agent turn, which outlives the response.
TurnStarts(n) ==
    /\ "turn" \in ops
    /\ phase[n] = "running" /\ inflight[n] > 0 /\ n \notin turn
    /\ turn' = turn \cup {n}
    /\ UNCHANGED <<phase, pinned, outdated, inflight, cache, waking, sweep, run, admin, reqs>>

TurnEnds(n) ==
    /\ n \in turn
    /\ turn' = turn \ {n}
    /\ UNCHANGED <<phase, pinned, outdated, inflight, cache, waking, sweep, run, admin, reqs>>

\* health() of n as busy() and evictable() use it: no answer counts as idle.
HealthSays(n, busy) ==
    \/ busy = (n \in turn)
    \/ "mute" \in ops /\ ~busy

CacheExpires ==
    /\ fresh /\ fresh' = FALSE
    /\ UNCHANGED <<provider, inflight, known, waking, sweep, run, admin, reqs>>

\* refresh(): the cache becomes the provider's list.
Refresh == known' = phase /\ fresh' = TRUE

-----------------------------------------------------------------------------
(* makeRoom(keep, reserve): a fresh list, then its candidates one by one.  *)
(* What evictable() reads from the list (a running, unpinned worker) is    *)
(* decided here; inflight is read when a candidate's turn comes, health is *)
(* awaited, and nothing is read again before the provider is called.  The  *)
(* LRU order is abstracted: the candidates come in any order.              *)

Candidates(keep) == {n \in Name \ {keep} : phase[n] = "running" /\ n \notin pinned}

\* A bug to catch: one worker too many is let stay awake.
MakeRoomOffByOne(m, keep, reserve) ==
    /\ run' = [run EXCEPT ![m] =
           [NoRun EXCEPT !.todo = Candidates(keep),
               !.excess = Cardinality({n \in Name \ {keep} : Awake(n)}) + reserve - (MaxAwake + 1)]]
    /\ Refresh

MakeRoom(m, keep, reserve) ==
    IF MaxAwake = 0
    THEN UNCHANGED <<run, cache>>
    ELSE /\ run' = [run EXCEPT ![m] =
                [NoRun EXCEPT !.todo = Candidates(keep),
                    !.excess = Cardinality({n \in Name \ {keep} : Awake(n)}) + reserve - MaxAwake]]
         /\ Refresh

RoomDone(m) == run[m].probe = NoName /\ (run[m].excess <= 0 \/ run[m].todo = {})

\* evictable()'s checks before its await; a name with requests in flight is
\* passed over, and in the idle sweep one that was used lately.
Probe(m) ==
    /\ ~RoomDone(m) /\ run[m].probe = NoName
    /\ \E n \in run[m].todo \ run[m].slept :
          \E p \in {n, NoName} :
             /\ p = n => inflight[n] = 0
             /\ p = NoName => inflight[n] > 0 \/ (m = "sweep" /\ sweep = "idle")
             /\ run' = [run EXCEPT ![m].todo = @ \ {n}, ![m].probe = p]
    /\ UNCHANGED <<provider, inflight, cache, waking, sweep, admin, reqs>>

ProbedBusy(m) ==
    /\ run[m].probe # NoName /\ HealthSays(run[m].probe, TRUE)
    /\ run' = [run EXCEPT ![m].probe = NoName]
    /\ UNCHANGED <<provider, inflight, cache, waking, sweep, admin, reqs>>

\* provider.scale(name, 0) and the cache invalidation of sleep().
PutToSleep(n) ==
    /\ phase[n] # "none"
    /\ phase' = [phase EXCEPT ![n] = "sleeping"]
    /\ turn' = turn \ {n}
    /\ fresh' = FALSE
    /\ UNCHANGED <<pinned, outdated, known>>

\* Evictable: it sleeps.  A workspace removed meanwhile makes scale throw,
\* which is logged and frees nothing.
ProbedIdle(m) ==
    /\ run[m].probe # NoName /\ HealthSays(run[m].probe, FALSE)
    /\ m = "sweep" => sweep # "upgrade"
    /\ LET n == run[m].probe IN
       \/ /\ PutToSleep(n)
          /\ run' = [run EXCEPT ![m].probe = NoName, ![m].excess = @ - 1]
       \/ /\ phase[n] = "none"
          /\ run' = [run EXCEPT ![m].probe = NoName]
          /\ UNCHANGED <<provider, cache>>
    /\ UNCHANGED <<inflight, waking, sweep, admin, reqs>>

-----------------------------------------------------------------------------
(* sweep(): long-idle workers if idleMs is set, the limit, then upgrades   *)
(* (by the Kubernetes provider only).                                      *)

SweepStarts ==
    /\ sweep = "off" /\ "room" \in ops
    /\ IF "idle" \in ops
       THEN /\ sweep' = "idle"
            /\ run' = [run EXCEPT !["sweep"] = [NoRun EXCEPT !.todo = Candidates(NoName),
                                                   !.excess = Cardinality(Candidates(NoName))]]
            /\ Refresh
       ELSE /\ sweep' = "room"
            /\ MakeRoom("sweep", NoName, 0)
    /\ UNCHANGED <<provider, inflight, waking, admin, reqs>>

SweepLimit ==
    /\ sweep = "idle" /\ RoomDone("sweep")
    /\ sweep' = "room"
    /\ MakeRoom("sweep", NoName, 0)
    /\ UNCHANGED <<provider, inflight, waking, admin, reqs>>

\* upgrade(): the outdated workers that the list shows asleep or evictable.
SweepUpgrades ==
    /\ "upgrade" \in ops /\ sweep = "room" /\ RoomDone("sweep")
    /\ sweep' = "upgrade"
    /\ LET slept == {n \in outdated : phase[n] = "sleeping"}
           todo == slept \cup (outdated \cap Candidates(NoName))
       IN  run' = [run EXCEPT !["sweep"] = [todo |-> todo, slept |-> slept, probe |-> NoName,
                                            excess |-> Cardinality(todo)]]
    /\ Refresh
    /\ UNCHANGED <<provider, inflight, waking, admin, reqs>>

\* provider.upgrade: the worker rolls onto the new image; asleep, it stays so.
Upgrade ==
    /\ sweep = "upgrade"
    /\ \E n \in Name :
          /\ \/ /\ run["sweep"].probe = n /\ HealthSays(n, FALSE)
                /\ run' = [run EXCEPT !["sweep"].probe = NoName]
             \/ /\ run["sweep"].probe = NoName /\ n \in run["sweep"].todo \cap run["sweep"].slept
                /\ run' = [run EXCEPT !["sweep"].todo = @ \ {n}]
          /\ phase' = [phase EXCEPT ![n] = IF @ = "running" THEN "starting" ELSE @]
          /\ turn' = turn \ {n}
          /\ outdated' = outdated \ {n}
    /\ UNCHANGED <<pinned, inflight, cache, waking, sweep, admin, reqs>>

SweepEnds ==
    /\ sweep = "upgrade" \/ (sweep = "room" /\ "upgrade" \notin ops)
    /\ RoomDone("sweep")
    /\ sweep' = "off"
    /\ run' = [run EXCEPT !["sweep"] = NoRun]
    /\ UNCHANGED <<provider, inflight, cache, waking, admin, reqs>>

-----------------------------------------------------------------------------
(* The wake queue.  Wakes run one at a time; whoever asks for a name that  *)
(* is being woken waits for that wake.                                     *)

WakeStarts ==
    /\ wake = "idle" /\ queue # <<>>
    /\ wake' = "room"
    /\ MakeRoom("wake", Head(queue), 1)
    /\ UNCHANGED <<provider, inflight, queue, sweep, admin, reqs>>

\* provider.scale(name, 1).
WakeScales ==
    /\ wake = "room" /\ RoomDone("wake")
    /\ LET n == Head(queue) IN
       /\ phase[n] # "none"
       /\ phase' = [phase EXCEPT ![n] = IF @ = "sleeping" THEN "starting" ELSE @]
    /\ wake' = "poll"
    /\ UNCHANGED <<pinned, turn, outdated, inflight, cache, queue, sweep, run, admin, reqs>>

\* doWake settles.  Awake: the waiting users begin, wake calls are answered.
\* Starting: starting() asks info() for the problem, then answers.  Error: the
\* waiters answer 500.
After(outcome, q) ==
    IF outcome = "awake" /\ q.kind = "user" THEN [q EXCEPT !.pc = "sent"]
    ELSE IF outcome = "starting" /\ ~fresh
         THEN [q EXCEPT !.pc = "listing", !.kind = "poll", !.seen = phase]
    ELSE IdleReq

Waiters(n) == {r \in Req : reqs[r].pc = "waiting" /\ reqs[r].name = n}
Going(outcome, n) == {r \in Waiters(n) : After(outcome, reqs[r]).pc = "sent"}

Settle(outcome) ==
    LET n == Head(queue) IN
    /\ queue' = Tail(queue)
    /\ wake' = "idle"
    /\ run' = [run EXCEPT !["wake"] = NoRun]
    /\ reqs' = [r \in Req |-> IF r \in Waiters(n) THEN After(outcome, reqs[r]) ELSE reqs[r]]
    /\ inflight' = [inflight EXCEPT ![n] = @ + Cardinality(Going(outcome, n))]

\* A list fails, the workspace is gone, or its grant is no longer allowed.
WakeThrows ==
    /\ queue # <<>>
    /\ wake = "idle" \/ (wake = "room" /\ RoomDone("wake"))
    /\ Settle("error")
    /\ UNCHANGED <<provider, cache, sweep, admin>>

\* One turn of the poll loop: the cache says fatal, health answers, or the
\* list is refreshed for the next turn.
WakeFails ==
    /\ wake = "poll" /\ known[Head(queue)] = "failed"
    /\ Settle("starting")
    /\ UNCHANGED <<provider, cache, sweep, admin>>

WakeSucceeds ==
    /\ wake = "poll" /\ known[Head(queue)] # "failed" /\ phase[Head(queue)] = "running"
    /\ Settle("awake")
    /\ fresh' = FALSE
    /\ UNCHANGED <<provider, known, sweep, admin>>

WakePolls ==
    /\ wake = "poll" /\ known[Head(queue)] # "failed" /\ phase[Head(queue)] # "running"
    /\ Refresh
    /\ UNCHANGED <<provider, inflight, waking, sweep, run, admin, reqs>>

\* A bug to catch: the poll loop has no deadline.
WakeNeverTimesOut == wake = "poll" /\ UNCHANGED vars

WakeTimesOut ==
    /\ wake = "poll"
    /\ Settle("starting")
    /\ UNCHANGED <<provider, cache, sweep, admin>>

-----------------------------------------------------------------------------
(* Requests: the proxied API (user, or web's passive poll), POST wake and  *)
(* POST reload.  info() answers from the cache or waits for a list, whose  *)
(* snapshot is the provider's when it was taken.                           *)

\* begin(name), then the fetch.
Forward(r, n, k) ==
    /\ reqs' = [reqs EXCEPT ![r] = [pc |-> "sent", name |-> n, kind |-> k, seen |-> NoSeen]]
    /\ inflight' = [inflight EXCEPT ![n] = @ + 1]
    /\ UNCHANGED queue

Answer(r) ==
    /\ reqs' = [reqs EXCEPT ![r] = IdleReq]
    /\ UNCHANGED <<inflight, queue>>

\* ensureAwake joins the wake of n or queues one.
\* (The first is a bug to catch: every waiter queues a wake of its own.)
WaitAlone(r, n, k) ==
    /\ reqs' = [reqs EXCEPT ![r] = [pc |-> "waiting", name |-> n, kind |-> k, seen |-> NoSeen]]
    /\ queue' = Append(queue, n)
    /\ UNCHANGED inflight

Wait(r, n, k) ==
    /\ reqs' = [reqs EXCEPT ![r] = [pc |-> "waiting", name |-> n, kind |-> k, seen |-> NoSeen]]
    /\ queue' = IF n \in Queued THEN queue ELSE Append(queue, n)
    /\ UNCHANGED inflight

\* What a request does with the state info() gave it.
Decide(r, n, k, state) ==
    LET asks == k \in {"user", "wake"} IN
    \/ asks /\ state \in {"sleeping", "starting"} /\ Wait(r, n, k)
    \/ k = "user" /\ state \in {"none", "running"} /\ Forward(r, n, k)
    \/ k = "wake" /\ state \in {"none", "running"} /\ Answer(r)
    \/ asks /\ state = "failed" /\ Answer(r)
    \/ k = "reload" /\ state # "sleeping" /\ Forward(r, n, k)
    \/ k = "reload" /\ state = "sleeping" /\ Answer(r)
    \/ k = "poll" /\ Answer(r)

Arrive(r, n, k) ==
    /\ k \in ops
    /\ reqs[r].pc = "idle" /\ ("pair" \in ops \/ \A q \in Req : reqs[q].pc = "idle")
    /\ \/ fresh /\ Decide(r, n, k, known[n])
       \/ /\ ~fresh
          /\ reqs' = [reqs EXCEPT ![r] = [pc |-> "listing", name |-> n, kind |-> k, seen |-> phase]]
          /\ UNCHANGED <<inflight, queue>>
    /\ UNCHANGED <<provider, cache, wake, sweep, run, admin>>

Listed(r) ==
    /\ reqs[r].pc = "listing"
    /\ known' = reqs[r].seen
    /\ fresh' = TRUE
    /\ Decide(r, reqs[r].name, reqs[r].kind, reqs[r].seen[reqs[r].name])
    /\ UNCHANGED <<provider, wake, sweep, run, admin>>

\* The worker answers or the fetch fails; end(name) in the finally.
Done(r) ==
    /\ reqs[r].pc = "sent"
    /\ reqs' = [reqs EXCEPT ![r] = IdleReq]
    /\ inflight' = [inflight EXCEPT ![reqs[r].name] = IF @ > 0 THEN @ - 1 ELSE 0]
    /\ UNCHANGED <<provider, cache, waking, sweep, run, admin>>

-----------------------------------------------------------------------------
(* The administrative routes.                                              *)

Remove(n) ==
    /\ "remove" \in ops
    /\ phase[n] # "none"
    /\ phase' = [phase EXCEPT ![n] = "none"]
    /\ pinned' = pinned \ {n}
    /\ turn' = turn \ {n}
    /\ outdated' = outdated \ {n}
    /\ UNCHANGED <<inflight, cache, waking, sweep, run, admin, reqs>>

Pin(n) ==
    /\ "pin" \in ops
    /\ phase[n] # "none"
    /\ \E keep \in BOOLEAN : pinned' = IF keep THEN pinned \cup {n} ELSE pinned \ {n}
    /\ UNCHANGED <<phase, turn, outdated, inflight, cache, waking, sweep, run, admin, reqs>>

\* Past the refusals: create and restart make room first; reset and sleep call
\* the provider at once.  A reset leaves the worker starting on an empty volume.
Proceed(op, n, cached) ==
    /\ admin' = IF op \in {"create", "restart"} THEN [pc |-> "ready", op |-> op, name |-> n]
                                                ELSE IdleAdmin
    /\ phase' = [phase EXCEPT ![n] = IF @ = "none" THEN @
                                     ELSE CASE op = "reset" -> "starting"
                                            [] op = "sleep" -> "sleeping"
                                            [] OTHER -> @]
    /\ turn' = IF op \in {"reset", "sleep"} THEN turn \ {n} ELSE turn
    /\ fresh' = (cached /\ op # "sleep")

\* refuseAsleep (restart and reset), and refuseBusy up to its await; force
\* skips the latter.
AdminArrives(op, n, force) ==
    LET lists == op \in {"restart", "reset"} /\ ~fresh IN
    /\ admin.pc = "idle" /\ op \in ops
    /\ known' = IF lists THEN phase ELSE known
    /\ op \in {"restart", "reset"} => known'[n] # "sleeping"
    /\ \/ /\ op = "create" \/ force
          /\ Proceed(op, n, fresh \/ lists)
       \/ /\ op # "create" /\ ~force
          /\ inflight[n] = 0
          /\ admin' = [pc |-> "probe", op |-> op, name |-> n]
          /\ fresh' = (fresh \/ lists)
          /\ UNCHANGED <<phase, turn>>
    /\ UNCHANGED <<pinned, outdated, inflight, waking, sweep, run, reqs>>

\* refuseBusy's health answer.
AdminProbed ==
    /\ admin.pc = "probe"
    /\ \/ /\ HealthSays(admin.name, TRUE)
          /\ admin' = IdleAdmin
          /\ UNCHANGED <<phase, turn, fresh>>
       \/ /\ HealthSays(admin.name, FALSE)
          /\ Proceed(admin.op, admin.name, fresh)
    /\ UNCHANGED <<pinned, outdated, known, inflight, waking, sweep, run, reqs>>

\* makeRoom's list; the route goes on if it fails.
AdminMakesRoom ==
    /\ admin.pc = "ready"
    /\ admin' = [admin EXCEPT !.pc = "making"]
    /\ MakeRoom("admin", admin.name, 1) \/ UNCHANGED <<run, cache>>
    /\ UNCHANGED <<provider, inflight, waking, sweep, reqs>>

AdminEnds ==
    /\ admin' = IdleAdmin
    /\ run' = [run EXCEPT !["admin"] = NoRun]
    /\ UNCHANGED <<pinned, outdated, inflight, known, waking, sweep, reqs>>

\* provider.create: a registered workspace stays as it is, except that the
\* local provider starts a sleeping one.
Create ==
    /\ admin.pc = "making" /\ admin.op = "create" /\ RoomDone("admin")
    /\ \/ phase' = [phase EXCEPT ![admin.name] = IF @ \in {"none", "sleeping"} THEN "starting" ELSE @]
       \/ phase[admin.name] # "none" /\ UNCHANGED phase
    /\ AdminEnds
    /\ UNCHANGED <<turn, fresh>>

\* provider.restart: locally a new process whatever the registry says, on
\* Kubernetes a new pod if there is one.
Restart ==
    /\ admin.pc = "making" /\ admin.op = "restart" /\ RoomDone("admin")
    /\ LET n == admin.name IN
       IF phase[n] = "none"
       THEN UNCHANGED <<phase, turn, fresh>>
       ELSE /\ \/ phase' = [phase EXCEPT ![n] = "starting"]
               \/ phase[n] = "sleeping" /\ UNCHANGED phase
            /\ turn' = turn \ {n}
            /\ fresh' = FALSE
    /\ AdminEnds

-----------------------------------------------------------------------------
MakerStep(m) == Probe(m) \/ ProbedBusy(m) \/ ProbedIdle(m)
SweepStep == SweepStarts \/ SweepLimit \/ SweepUpgrades \/ Upgrade \/ SweepEnds
WakeStep == WakeStarts \/ WakeScales \/ WakeThrows \/ WakeFails \/ WakeSucceeds \/ WakePolls
            \/ WakeTimesOut
AdminStep == AdminProbed \/ AdminMakesRoom \/ Create \/ Restart
WorkerStep(n) == WorkerReady(n) \/ WorkerFails(n) \/ WorkerCrashes(n) \/ TurnStarts(n) \/ TurnEnds(n)

Step ==
    \/ \E n \in Name :
          \/ WorkerStep(n) \/ Remove(n) \/ Pin(n)
          \/ \E op \in Route, force \in BOOLEAN : AdminArrives(op, n, force)
          \/ \E r \in Req, k \in Kind : Arrive(r, n, k)
    \/ \E r \in Req : Listed(r) \/ Done(r)
    \/ \E m \in Maker : MakerStep(m)
    \/ SweepStep \/ WakeStep \/ AdminStep \/ CacheExpires

Next == Step /\ UNCHANGED ops

\* Health probes and lists are answered or time out, the sweep's timer fires,
\* and doWake's deadline passes.  Requests in flight may never end, a worker
\* may start for ever.
Fairness ==
    /\ \A m \in Maker : WF_moving(MakerStep(m))
    /\ WF_moving(SweepStep)
    /\ WF_moving(WakeStarts \/ WakeScales \/ WakeThrows)
    /\ WF_moving(WakeTimesOut)
    /\ \A r \in Req : WF_moving(Listed(r))

Spec == Init /\ [][Next]_vars /\ Fairness

-----------------------------------------------------------------------------
(* Properties.                                                             *)

\* The in-flight counters that keep a worker from being evicted count exactly
\* the requests between begin and end, through failures and woken waiters.
InflightExact ==
    \A n \in Name :
        inflight[n] = Cardinality({r \in Req : reqs[r].pc = "sent" /\ reqs[r].name = n})

\* A request that waits for a wake waits for one that is queued, and no name
\* is queued twice.
WaitersQueued ==
    /\ \A r \in Req : reqs[r].pc = "waiting" => reqs[r].name \in Queued
    /\ \A i, j \in 1 .. Len(queue) : queue[i] = queue[j] => i = j

\* The proxy's requests, both together: who waits is queued, who is sent is counted.
RequestsTracked == WaitersQueued /\ InflightExact

\* Web's own polling never wakes a worker: only a user's request or a wake
\* call puts a name in the queue, and a sleeping worker starts only at the head
\* of the queue or by an administrative route.
PassiveNeverWakes ==
    [][/\ \A n \in Queued' \ Queued :
             \E r \in Req : /\ reqs'[r].pc = "waiting" /\ reqs'[r].name = n
                            /\ reqs'[r].kind \in {"user", "wake"}
       /\ \A n \in Name : phase[n] = "sleeping" /\ phase'[n] \in {"starting", "running"} =>
             \/ queue # <<>> /\ n = Head(queue)
             \/ AdminStep \/ \E op \in Route : AdminArrives(op, n, TRUE)]_vars

\* A worker that makeRoom or the sweep puts to sleep, or restarts to upgrade,
\* is neither pinned nor busy at that moment.
EvictedIsIdle ==
    [][\A n \in Name :
          (\E m \in Maker : run[m].probe = n /\ run'[m].probe = NoName)
              /\ phase[n] = "running" /\ phase'[n] # "running"
          => n \notin pinned /\ n \notin turn /\ inflight[n] = 0]_vars

\* Every request that asks for a worker is forwarded or answered.
RequestsAnswered ==
    \A r \in Req : reqs[r].pc \in {"listing", "waiting"} ~> reqs[r].pc \in {"sent", "idle"}

Idle(n) == phase[n] = "running" /\ n \notin pinned /\ n \notin turn /\ inflight[n] = 0

\* Over the limit, no worker stays idle for good: the sweep puts one to sleep.
LimitRestored == "room" \in ops => \A n \in Name : []<>~(OverLimit /\ Idle(n))

\* A worker on an older image that is idle or asleep for good gets upgraded.
OutdatedUpgraded == "upgrade" \in ops =>
    \A n \in Name : []<>~(n \in outdated /\ (Idle(n) \/ phase[n] = "sleeping"))

\* The fleet settles within its limit and on the new image.
FleetSettles == LimitRestored /\ OutdatedUpgraded
=============================================================================
