# pi-ez-web: a verification project

TLA+ modules that model the core of pi-ez-web, TLC configurations that check
them on small instances, and theorems about them that TLAPS proves for every
value of their constants. `PROJECT.json` lists the components, the runs, the
hazards, the theorems, and which lines of the source each definition models.

    tlc -workers 2 -config Workspaced_lifecycle.cfg MCWorkspaced
    tlapm WorkspacedProofs.tla

## 1. The system

A browser talks to *web* (`src/server`), which serves its own conversations or
forwards to *workers*. *workspaced* (`src/workspaced`) keeps one worker per
project: the same server code in a child process or a Kubernetes pod, asleep
when nobody needs it. A worker runs conversations through the Pi SDK.
Conversations may be synchronized between devices by the external pi-sync.

    browser --HTTP, SSE--> web --HTTP--> workspaced --proxy--> worker (one per project)
                                             |                   |- Pi SDK sessions
                                             |- child processes  |- git worktrees, hooks
                                             '- or pods          '- pi-sync (external)

Every process is one JavaScript thread. Concurrency is what happens at each
`await`: whatever was read before it may be stale after it. An action of a
module is therefore the code between two awaits, and another request, a timer,
an event or a process exit may come between any two actions.

### Components

| Part | State it keeps | Operations | What is hard | What makes it correct |
|---|---|---|---|---|
| Local workers, `workspaced/local.js` | registry file, `procs`, crash history, restart timers | create, scale, restart, reset, remove, init, exits | a start awaits a port before it registers; deliberate exits against crashes; restarts of workspaced | an awake workspace gets a worker, only crashes count |
| Worker lifecycle, `workspaced/lifecycle.js`, `index.js` | list cache, wake queue, in-flight counts, pins | wake, sleep, sweep, upgrade, and the routes | stale lists, an eviction racing a request, one wake at a time | nobody waits for a wake nobody queued, counts are exact, the limit returns |
| Kubernetes workers, `workspaced/kubernetes.js` | objects of the API server | the same provider interface in several calls | a failure between two of its calls, pods that hold a volume | an answer ok tells the truth |
| AI logins, `server/auth-flows.js` | flows, active flow, prompts, timers | start, prompt, submit, cancel, deadline | the SDK answers late, or prompts after cancellation | no prompt left hanging, the next login is possible |
| GitHub login, `server/github.js` | flows, active flow, token file | start, poll, cancel, logout | a token that arrives after cancellation | only the active flow stores a token |
| Supervisor, `server/supervisor/real.js` | live runtimes, attach promises, sync operations, pending prompts, turns | message, command, `/sync`, bang, stop, reload | a runtime captured before an await and replaced during it | prompts are counted, run on the snapshot seen, their turns end in the browser |
| pi-sync web adapter, `server/sync/web-adapter.js` | bindings, dialogs, list cache | beforePrompt, autoCheck, dialogs | reconciliation ahead of a prompt, dialogs settled twice | no check while anything runs, one answer per dialog |
| pi-sync coordinator, `server/sync/coordinator.js` | enrolment, leases, heartbeats, blocks | prepare, commit, settle, release, recover | lost answers, expired leases, restarts | what another client uploaded stays; at rest all is uploaded or an error shown |
| Web fan-in, `server/remote-workspaces.js`, `server/events.js` | sequence numbers, loops, snapshots, owners, published logins | list, follow, forward, share logins | overlapping lists, late answers, two hubs that number | one loop per worker; nothing delivered is hidden |
| Browser, `public/js/*` | transcript gate, drafts, dialogs, files, settings, selection | load, apply, send, save, select, reconnect | late answers of requests for what is no longer shown | what was typed is kept, what is shown is true |
| Git workspaces and routes, `server/workspaces.js`, `server/routes/*.js` | branches, worktrees, stash, bindings | create, move, switch, fork, merge, delete, review, push | validation against commit, failing commands, agents that use Git | no work is lost; a push is what was reviewed |
| Bindings and configuration, `server/config.js`, `lifecycle.js`, `repositories.js` | three files, clones | save, close, fork, move, replace, add a project | files read, awaited and written whole; two files for one change | what one request saved another does not undo |
| Pi configuration, `server/pi-configuration.js` | remembered resolve, cache file, resources, overlay | resolve, create sessions, reload | a forced resolve overtaking another, fallbacks, packages that fail | a session runs the configuration saved when it was made |
| Subagent activity, `server/subagent-activity.js` and the extension | three bounded stores of cards | apply, prune, reduce, seed | late, repeated and reordered events reduced in three places | a page that followed shows what a page that loads shows |
| Hooks and operations, `server/hooks.js`, `operations.js` | process group, events, timers | run, stop, time out, report | output, exit, timeout, abort and a broken stream in any order | the page is told how it ended, processes are stopped |

They interact by calls (routes to the supervisor and lifecycle), by shared
state (`live`, `syncOperations`, `pendingPrompts` by every route of one
conversation; the provider's list by requests, sweep and administrative
routes), by callbacks (the SDK's events and login prompts, `onExit`), by timers
(restart, deadline, removal, polling), by files of the server's home and by
events over SSE.

## 2. How the project is laid out

| System modules | Runs them | Proofs |
|---|---|---|
| `LocalProvider`, `AuthFlows`, `GitHubDeviceFlow`, composed by `Managers` | `managers`, `one_worker` (`MCLocalProvider`) | `ManagersProofs` |
| `Workspaced` | `lifecycle`, `evicted` (`MCWorkspaced`) | `WorkspacedProofs` |
| `Conversation` | `conversation`, `superseded` (`MCConversation`) | `ConversationProofs` |
| `EventStream` | `reader`, `subscribed` (`MCEventStream`) | `EventStreamProofs` |
| `SyncCoordinator`, which implements `CanonicalSession` | `sync`, `retained` (`MCSyncCoordinator`) | `SyncProofs` |
| `GitWorkspaces`, `AppState`, `PushReview`, composed by `Workplaces` | `checkout` (`MCWorkplaces`) | `PlacesProofs` |
| `KubernetesProvider`, `ExtensionDialogs`, `Composer`, `PiConfiguration`, `AgentCards`, `Operations`, `Selection`, `FilePanel`, `SettingsPage`, `LoginPanel`, `RemoteWorkspaces`, `SharedLogins`, `Recovery`, composed by `Parts` | `parts` | `PartsProofs`, `LinkProofs` |

`Managers`, `Workplaces` and `Parts` compose modules that share no state: `inUse`
says which one moves, the others rest in one of their initial states. A product of
independent parts would show nothing their sum does not.

What is left of the plan: steering, `stop` and compaction in `Conversation`; the
list cache of the sync adapter; `switchCheckoutToMain` and
`returnSessionToMain` (`lifecycle.js:81`).

## 3. The modules

### LocalProvider - `workspaced/local.js`

`listed`, `sleeping`, `pinned` are the registry file; `procs`, `recent`,
`fatal`, `unstarted` the provider's maps; `runs` and `killed` the operating
system's processes, which live on whether `procs` knows them or not; `starts`
the `start()` calls that wait in `freePort()`, the only await inside the
provider; `timers` the restart timers of `onExit`; `asked` a check made by a
caller (`ensureAwake`, `refuseBusy`) whose call comes later. One action per
provider operation, one each for exit, crash, timer and the restart of
workspaced. The end of workspaced also ends its children (the assumption of a
container).

### Workspaced - `workspaced/lifecycle.js` behind `workspaced/index.js`

The provider is abstract: a phase per workspace, which list() reports, changed
by the provider's calls and by the worker itself. `queue` and `wake` are
`waking`, `wakeQueue` and the place of `doWake`; `run[m]` is the loop of
`makeRoom` or `sweep` over the list it read, for each of the three that may put
workers to sleep; `reqs[r].seen` is the answer of a `list()` on its way to a
request. `ensureAwake`, `makeRoom`, `evictable`, `sleep`, `sweep`, `upgrade`,
`doWake`, `restart` and the routes are actions.
Abstracted: the LRU order (any candidate may be next), the clock (the cache may
expire at any time, the idle limit too). Simplified: the lists of `makeRoom` and of
administrative routes are answered at once and those of the sweep succeed, one
sweep and one administrative route run at a time, `provider.reset` is atomic,
upgrades of sleeping workers go by the list. Requests meet only in a deployment with
`"pair"`, a bound.

### AuthFlows, GitHubDeviceFlow - `server/auth-flows.js`, `server/github.js`

`flow` holds the flow objects, `flows` the manager's map, `activeId` its guard.
The SDK is external and may prompt, withdraw a prompt, succeed or fail at any time
its login runs, also after cancellation. `gflow[f].await` is what a poll waits
for: the device endpoint or the account. Identities of flows are used again once
nothing refers to them.

### Conversation - `server/supervisor/real.js`, `sync/web-adapter.js`

One conversation. `live` is `live.get(id)`, `rt` the runtimes with the SDK's
`isStreaming` and the supervisor's `turnEnded`, `attaching` the promise in
`attachPromises`, `bound` the file of the binding (its hash is the snapshot
token), `op` the holder of `syncOperations`, `pending` the counter of
`pendingPrompts`, `swap` the `_replaceLiveSession` under way, `reload` the
runtime that `reloadPiConfiguration` disposes, `shown` what the browser believes
of the turn. A request goes from admission (`Admit`, `Refuse`) over attaching
(`AttachById`), `BeforePrompt` and the handler of `/sync` to `Prompt`; the
prompt goes on as a turn when its request is answered (`TurnStarts`, `AgentEnd`,
`TurnFails`, `Settle`, `Reject`).
A deployment is the set of things that happen: kinds of request, `move` (another device
switches the file), `fail` (a replacement or attach fails), `reload`.
Left out: steering and the bubbles of pending messages, `stop`, compaction,
template commands (they end in the same `_startPrompt`), requests without a
snapshot token, failures after the replacement is registered, replacements
by another conversation. After an abort no turn starts again until the runtime
is disposed (the SDK cancels its retries). `session_switched` makes the
browser load the transcript anew, which resets `shown`.
Runtimes nothing refers to are used again.

### EventStream - `server/events.js`, `server/remote-workspaces.js`, `public/js/api.js`

One conversation from the process that runs it to a browser that shows it. The
process is web itself or a worker behind it (`remote`). `log` is what happened,
in order; a frame is a number and the place of its event in `log`, 0 for events of
other conversations, which take numbers too. `hostSeq`, `webSeq` are the
counters of the two hubs, `up` and `down` what the two streams carry, read lowest
number first, `pairs` is `seqMaps.get(name)`, `load` the request of
`openTranscript` with its buffer. GET transcript is three steps, because the
number is taken before the awaits that read the records (`Capture`, `Read`,
`Respond`), and one more where web numbers a worker's answer (`ForwardAnswer`).
`view.times[n]` counts how often delta n was appended. `Deliver` is `onmessage`,
with the load that a live turn_end starts.
History variables: `lost` are the events a broken stream or request may have
cost, also those the numbers of a worker's snapshot may hide because web
forgot pairs meanwhile; `sent` the last event web had numbered; `stale` that the
browser compares with numbers of a web that has restarted.
Left out: the `streaming` flag, which every answer of GET /state overwrites
too; more than one conversation shown; synchronized conversations (`onopen` may load
them); an offline browser; a new build (it reloads the page); restarts of the worker; the
order of numbers from before and after a restart of web in one buffer. No
abstract log is refined: what the browser shows is not a prefix of what
happened (section 6).

### SyncCoordinator, CanonicalSession - `server/sync/coordinator.js`

`CanonicalSession` is what the service promises: one client writes at a time and
what was uploaded stays until the conversation is deleted. `SyncCoordinator` is
any number of web servers with their coordinators, the service they call and any
other client (`Peer`). A conversation is a set of entries, `local[w]` the file of
server w, `etag` the version. `job[w]` is the task that holds `_exclusive`;
a step is what happens up to and including one call of the service, which may be
lost before or after it took effect. `active`, `blocked`, `enrolled` are the
coordinator's maps, `change` is `withMutation`, `turn` the agent's run, and
`settle` (the supervisor's `agentSettled`), `finish` (a request's own
`commitSettled`), `giveUp` (`release`) and `doomed` (the release queued by
`_markBlocked`) what waits for the lock. Heartbeats come whenever the lock is free,
any number of them. A message either runs a turn, settles at once because nothing
streams, or is refused; POST /stop settles beside the turn it stops. A turn that ends
in an error is settled by nobody (`left`). Where requests overlap, the request of a
prompt may also settle before its turn streams: the supervisor starts the prompt
without waiting for it, so `isStreaming` is normally false then. The refinement maps
`doc` and `leased` of the service to the abstract variables; `mistaken` there names
the servers whose lease was taken anew for a version they never saw (`alien`).
Left out: the HTTP client, the file's format, `status` and its wording, the fake
coordinator of mock mode. The coordinator is used only where no adapter runs.

### GitWorkspaces - `server/workspaces.js`, the routes that use Git

One repository: `at` is what each workspace has checked out, `tip` and `dirty`
the work of branches and workspaces as sets, `stash` the stash they all share.
One admitted operation at a time (`op`, `withRepositoryAdmission`); its steps are
single Git commands or the code between two, so an agent may do anything between
a validation and the command it guards. `Races` are the two ways another
entry keeps a fork from giving the work back: one that comes between its `git stash
push` and its `rev-parse refs/stash`, and the parent's own agent stashing the work;
`ParentRestored` speaks of all other forks, with other agents' stashes at any other
moment. `MergeValid`, `DeleteValid`,
`SourceValid`, `Vacated` are the functions passed as `beforeMerge`,
`beforeUpdate`, `beforeRemove`, evaluated where the code calls them.
Left out: other people's commits, adoption of projects, POST /worktree's own
checks where they are those of /branch-context, changes of `synced`, the
synchronous twins of the functions.

### PushReview - `session-picker.js`, `dialogs.js`, `workspaces.js`, POST /push

`tabs[t]` is the review a page shows or asked for and `look` what the server has
read for it so far: first the base, then the head, then the list. A ref is the set
of commits it has beyond the default branch; equal sets are equal hashes. The
agent commits, amends, switches and pushes; other tabs pull; others push.
Base and candidates are read in one step.

### AppState - `server/config.js`, `repositories.js`, `routes/projects.js`, `lifecycle.js`

`config`, `bindings`, `closed` are the files, each written whole by renaming;
`appReq` the requests between their reading and their writing, `clones` the
directories of `cloneRepository` with its lock. A write may fail and the server
may stop between any two steps; requests are then gone and files stay.

### Parts

| Module | Code | State and steps |
|---|---|---|
| `KubernetesProvider` | `workspaced/kubernetes.js` | objects of the cluster, per namespace; a call awaits the API between its steps; pods and volumes take their time; an error answer of the list of pods counts as none (`waitGone` does not look at its status) |
| `ExtensionDialogs` | `web-adapter.js:181`, `public/js/dialogs.js` | the server's waiting dialogs, the stream, the page's one slot with its draft, requests under way |
| `Composer` | `store.js`, `thread.js`, `api.js` | drafts with the token they were begun on, sends, bubbles, `pendingSessionSwitches` |
| `PiConfiguration` | `pi-configuration.js`, `real.js` | calls of `#resolve` with their requests, cache file, materialized resources, the queue of session creations, overlay of the settings, a group of them merged deeply, reload |
| `AgentCards` | `subagent-activity.js`, `subagent-telemetry.js`, `real.js`, `api.js` | the extension's store, the session's entries, the supervisor's store, what is announced, the page's cards |
| `Operations` | `hooks.js`, `operations.js` of both sides | process group, SIGKILL timer, log events and answer (200, 404, 409, 500) on their way, the panel |
| `Selection` | `main.js`, `shell.js`, `api.js` | selected and stored conversation, `stateRefreshPromise` with its waiters, `session_closed` on its way |
| `FilePanel` | `app.js`, `files.js` | the column's key and content, the file view, requests under way, the browser's history |
| `SettingsPage` | `settings.js`, `routes/settings.js` | `this.drafts` (replaced as a map when the page is left), posts under way, what was heard |
| `LoginPanel` | `settings.js` | `this.flow`, its timer, polls, submissions and cancellation under way |
| `RemoteWorkspaces` | `server/remote-workspaces.js` | `projects()` calls that overlap, loops that follow workers, snapshots in memory and on disk, whether the last save succeeded (its failure is swallowed), owners, `createProject` |
| `SharedLogins` | `remote-workspaces.js:247`, `workspaced/index.js:143`, `kubernetes.js:88` | calls of `pushModelAuth`, the copies workers read, `publishedModelAuth` |
| `Recovery` | `api.js:297` | EventSource, health timer, the notice, the reload on a new build |

Simplifications inside them: the dialogs' page has one event stream; one reload
disposes at a time, only packages of the saved profile break, and network trouble
and package trouble are separate deployments (`piTrouble`); local and inline
packages, refs in the profile's address, prewarming and `recordRuntime` are left
out; navigation in the session's tree, throttling, grouping and text of cards
are left out; Escape pressed again before `popstate` has come (it goes back twice) is
excluded by the guard `backs = 0`.

## 4. The runs

| Run | Instance | Checks | Size alone |
|---|---|---|---|
| `managers` | 1 workspace, 3 processes, 2 overlapping starts, 1 timer, MaxRestarts 1, 2 crashes; 2 AI flows from 2 starts; 2 GitHub flows | `ManagersTypeOK`, `NobodyStranded`, `LoginsHeld`, `OnlyCrashesCount`, `Recovers`, `LoginsEnd` | 133 k states, 118 s |
| `one_worker` | 4 processes | **violated** `OneWorker`: two workers on one workspace | |
| `lifecycle` | 2 workspaces, limit 1, an outdated worker, 7 deployments; 2 requests, which overlap in one deployment | `RequestsTracked`, `RequestsAnswered`, `FleetSettles` | 479 k states, 172 s |
| `evicted` | 2 workspaces, 1 request | **violated** `EvictedIsIdle`: a pinned, called or busy worker is put to sleep | |
| `conversation` | 2 requests, 5 runtimes, 2 files, 8 deployments | `PendingExact`, `RefreshAlone`, `SnapshotRespected`, `TurnClosed`, `PromptOnLiveQuietly`, `OperationEnds` | 200 k states, 50 s |
| `superseded` | prompts whose reconciliation fails | **violated** `PromptOnLive`: a prompt is given to a disposed runtime | |
| `reader` | 3 events, 1 retry, 2 pairs of which 1 is dropped; web with 2 incidents or a worker with 1 | `NoSilentGap`, `LoadedOnce`, `CatchesUp` | 350 k states, 70 s |
| `subscribed` | web, no incident | **violated** `SubscribedFirst`: text said before the stream opens is missing | |
| `sync` | 1 server and any other client, 2 entries; requests in turn and 2 faults, or overlapping requests, changes and turns without faults | `SettledUploaded`, `ImplementsCanonical`, `LeaseReturned` | 202 k states, 52 s |
| `retained` | 1 server, 1 entry, 1 fault | **violated** `SettlementRetained`: a request's failed settlement releases the lease with what was still to be uploaded | |
| `checkout` | 3 conversations, 2 branches and the checkout, 2 pieces of work, 2 operations, 1 turn, 1 fault; 2 repositories, 3 conversations, 2 requests, 1 failure or stop; 1 page, 2 branches, 2 commits | `PlacesTypeOK`, `RepositoryKept`, `ParentRestored`, `StateKept`, `PushedAsReviewed` | 1.7 M states, 86 s |
| `parts` | see `Parts_each.cfg` | `PartsTypeOK` and one property for each part (below) | 2.0 M states, 150 s |

Properties that are conjunctions of what one part has to keep: `RequestsTracked`
(`WaitersQueued`, `InflightExact`), `FleetSettles` (`LimitRestored`,
`OutdatedUpgraded`), `LoginsHeld` (`PromptsHeld`, `ActiveIsLive`,
`OneGitHubFlow`), `RepositoryKept` (`WorkKept`, `HomesExist`), `SettingsTrue`
(`SettingsKept`, `LoginFollowed`), `WorkersFollowed` (`OneLoop`,
`ShownIsOwned`). Of the parts: `KubernetesAnswersTrue`, `DialogsKept`,
`NothingTypedLost` and `WrittenOnWhatWasSeen` (`Composer`), `ConfigurationTrue`,
`CardsKept`, `HooksTold` (`Operations`), `SelectionRight`, `FilesRight`,
`SettingsTrue` (`SettingsPage` and `LoginPanel`), `WorkersFollowed`,
`LoginsShared`, `RecoveryGoesOn`. The type invariants of `Workspaced`,
`Conversation`, `EventStream` and `SyncCoordinator` are proved and no longer run;
`ManagersTypeOK` is both.

Why the bounds are enough. Two requests, flows or starts suffice for a race of a
check against a later use: one that checks, one that interferes. Two
workspaces with a limit of one make every wake evict. Three processes are one
registered, one orphaned or dying and one starting. Five runtimes are the most two
requests, a replacement and a reload can refer to at a time, and one to
create. Two files are the snapshot seen and another. Three events are a turn with one delta, or a turn
in which text is said on both sides of a snapshot; an incident is anything the
user, another conversation or a failure does, so two of them are a fault and what
makes it matter. Two pairs with one dropped reach every case of `webSeq`. One server
suffices for the coordinator because `Peer` does whatever other servers can do to the service;
two entries are one uploaded and one not. Overlapping requests with one fault (906 k
states, 5 min) were run once without an error. Two operations on the repository are one that
leaves something behind and one that meets it; a turn and a fault are the two things that
can come between their commands. Two pushed versions, two conversations, two
dialogs, drafts, settings or lists are in each part the one shown or saved and the one that
a late answer brings. Three volumes are the one replaced, the new one, and the one of an
overlapping call; three network changes are a loss, a return and a loss that is
heard of late. A larger instance of the composer (three events, 12 M states) was run once
without an error.
A deployment restricts what may happen in one behaviour, never how it interleaves; the
deployments of a run together fire every action. CHECK_DEADLOCK is off because
a server without requests rests.

Fairness. A step of the server's own (a continuation of an await whose answer
has come, a timer, a queue that is processed) is weakly fair, because the
event loop runs it. Of the outside only what the code bounds is fair: `doWake`
gives up at its deadline, the GitHub fetches have timeouts, login deadlines
fire, a bang is killed after 60 s, dispose waits 5 s at most, calls of the
synchronization service end. Tasks that wait for `_exclusive` are strongly fair, because it
is a queue. An SDK turn, an AI
login's answer, a user and a worker's health owe nothing: a turn may last for ever.
The browser reconnects and retries by itself, and frames and answers
arrive unless an incident breaks what carries them, of which there are finitely many.
One assumption is the SDK's: an aborted turn ends. `OperationEnds` also takes for
granted that the handler of `/sync` returns. `Workplaces` and `Parts` claim no
liveness and state no fairness.

## 5. What is proved

For any sets of workspaces, processes, requests, flows, runtimes, files, pages and
so on, and any values of the bounds, under the named ASSUMEs of the modules (the
markers are no members, the sets that are counted are finite, bounds are
naturals). Each invariant was checked by TLC on a run's instance before it was proved.

`ManagersProofs`. `TypeCorrect`; `RegisteredCorrect` by the invariant that a
registered child is alive, not killed and runs that name; `NobodyStrandedCorrect`
with the bookkeeping of starts and timers; `OnlyCrashesCountCorrect`;
`OneWorkerCorrect`, under ASSUME Serial: without overlapping operations there is
one worker, so the overlap is the only way to the violation of `one_worker`.
`AuthTypeCorrect`, `PromptsHeldCorrect`, `ActiveIsLiveCorrect`, and
`OneActiveFlowCorrect` for starts that do not overlap (MaxStarts = 1).
`GitHubTypeCorrect`, `OneGitHubFlowCorrect`, `TokenOfActiveFlowCorrect`; the
invariant adds that a flow that is starting is the active one and that removed
flows have ended. `LoginsHeldCorrect` and `ManagersTypeCorrect` put them together.

`WorkspacedProofs`. `TypeCorrect`, `WaitersQueuedCorrect`, `InflightExactCorrect`,
`RequestsTrackedCorrect`, `PassiveNeverWakesCorrect`. TypeOK is not
inductive alone: a request being served names a workspace (`Named`), and the
queue is not empty while its head is woken (`HeadWoken`). `InflightExact` needs
the cardinality of the requests that go on together when a wake settles.

`ConversationProofs`. `TypeCorrect`, `PendingExactCorrect`, `RefreshAloneCorrect`,
from one inductive invariant (`InvCorrect`): a request that will use a runtime has
captured one (`RequestsSound`), a request holds the operation exactly between admission and
answer (`OpHeld`), a replacement belongs to a command in its handler (`SwapOwned`), the
counter is the number of prompts in flight, and a check that is admitted finds
none in flight (`CheckAlone`). The count needs all of it: the decrement is a
natural number because the prompt that settles is itself counted. On top of it
`SnapshotRespectedCorrect`: each prompt or bang that has passed the comparison of
tokens stays on the token it passed with (`OnToken`) because the operation it holds
keeps replacements out, and where a follow-up counts, no attach is under way on an
old binding (`AttachCalm`). `TurnClosedCorrect`: a turn the browser believes in
is a streaming runtime that is live or belongs to a replacement under way. And
`PromptOnLiveQuietlyCorrect`, by `LiveInv`: where nothing fails, no configuration is
reloaded and nobody lists commands meanwhile, whoever has attached a runtime, or is
about to be given one, has the live one (`LiveAt`), and nothing is attached beside a
runtime or during a replacement (`AttachApart`).

`EventStreamProofs`. `TypeCorrect`, `NoSilentGapCorrect`, `LoadedOnceCorrect`. Types
need that the frames on their way have a highest number (`Bounded`), because the
number shown is that of the last frame applied; lemmas state what `Applied`,
`Trimmed` and `WebSeq` return. The two properties speak of a browser at rest, so
neither is inductive; the invariant `Inv` (`InvCorrect`) follows an event on its way:

- `Reached`: text that is not shown is lost, not yet forwarded, or in a frame
  numbered above what is shown, so the gate will let it pass. `WebReaches` and
  `HostReaches` say the same of a snapshot that was read but not yet loaded, with
  web's number and with the worker's.
- `Marked`, `WebMarked`, `HostMarked`: a frame of text that was numbered before the
  load was asked for is not above the number shown, or about to be shown, so
  it is not replayed over the snapshot that holds it.
- `Pairs`: web's numbers grow with the worker's, and a frame has a remembered pair or
  precedes all of them. With it the mapping (`WebSeqBetween`) lies below every frame
  the worker's number has not reached and not below any other; this carries
  `HostReaches` to `WebReaches` and `HostMarked` to `WebMarked` when an answer is
  forwarded.
- `Frames`, `Upstream`, `Taken`: the numbers and positions of frames, buffers and
  snapshots, in the order the hubs gave them.

A restart of web ends it, since numbers start again: both properties are about a
browser that has loaded since (`~stale`).

`SyncProofs`. `TypeCorrect`, `CanonicalImplemented` (the refinement, initial states and
every step), `SettledUploadedCorrect`. The invariant says where the conversation of
the service comes from (`DocKept`: whoever holds the lease and the current version
has in his file, or gave up, whatever was uploaded) and what each server may believe
in each step of its task (`WebSound`); for `SettledUploaded` also that without
overlap one change or turn is under way (`OneAtATime`) and that what is not uploaded
is covered by an error, a task, a settlement to come or the exception of a turn that
nobody settled (`Cover`). Nothing is assumed of the heartbeats. The refinement has one
exception, named in `CanonicalSession` as `mistaken`: reacquiring writes the new
version into `active.etag` before it is compared, so a heartbeat that fails and one
that succeeds clear the block, and the pending content is uploaded over entries the
server never saw. The invariant says that every such lease is either to be released
or marked (`alien`), so no other lease can overwrite anything.

`PlacesProofs`. `PushedAsReviewedCorrect`: what the server has read for a page is
still so or the agent moved HEAD meanwhile (`LookSound`, `HeadCompared`), the list
shown has all that the remote lacks of the head (`ListFull`), and what is tracked
was on the remote (`TrackedIsRemote`). `StateKeptCorrect`: what a request under way
has read of the server's files fits the entries there are (`RequestTrue`).

The repository has three invariants, one on top of the other, for any number of
conversations, branches and pieces of work and any length of an operation's life:

- `TypeInv`: with the shapes, where each kind of operation is and what it may rely
  on there (`MergeShape`, `DeleteShape`, `ContextShape`, `SwitchShape`, `ForkShape`):
  that the branch of a fork exists exactly when its worktree was added, that a merge
  which cleans up has merged. No agent takes that away (`ShapeStays`), since no agent
  makes or removes a branch or a worktree.
- `HomesInv`: while a worktree is being removed only conversations whose fork was
  under way are in it (`Vacant`). It gives `HomesExist`.
- `WorkInv`: the work in a new worktree (`Fresh`) is also somewhere else, for the
  cleanup removes it by force (`WorkApart`); its branch is checked out nowhere else
  (`FreshAlone`); a merged branch has nothing of its own (`MergedKept`), so it may be
  deleted by force; the entry a fork looks for has only the agents' later ones above
  it (`StashShape`), and what it drops is back in a workspace (`RefBack`).
  `WorkKept` alone is not inductive: the step that loses work takes what the steps
  before it had to leave elsewhere.

`RepositoryKeptCorrect` follows from the last two. `ParentRestoredCorrect` needs
`HadBack` besides: step by step, for forks nothing races with, whether the parent's
work is in its workspace, at the top of the stash, in the entry the fork refers to, or
back. `PlacesTypeOKCorrect`
puts the type invariants together.

`PartsProofs` and `LinkProofs`. One inductive invariant per part:

- `ComposerInv`, for `NothingTypedLostCorrect` and
  `WrittenOnWhatWasSeenCorrect`: each message is in its place, drafts and commands
  belong to their conversation and carry the token they were begun on, one command
  per conversation is under way.
- `SettingsInv` and `LoginInv`, for `SettingsTrueCorrect`.
- `KInv`, for `KubernetesAnswersTrueCorrect`: what a call that overlapped no other has
  already taken away at each of its steps, and what the cluster may still bring back.
  Of the pods it says so unless the last list of them was an error answer.
- `DialogsInv`, for `DialogsKeptCorrect`, with a lemma that a finite set is the
  range of a sequence (`replayPending` sends the waiting dialogs).
- `HooksInv`, for `HooksToldCorrect`: what the server logged and numbered, the verdict
  as the last message of the stream unless the server threw, the status the page shows,
  and at most four logged events that are no outputs. `LatestKept` and `KeptNumbers` say what the
  page's bounded list holds.
- `PiInv`, for `ConfigurationTrueCorrect`: what each call holds at each of its steps
  is of the profile it was asked for; any other call under way for the remembered
  profile has crossed it; and, unless the last reload met a session being created,
  everything a session or the remembered call may still bring is at least as new as
  that reload. Of settings.json it says that a value of the profile is there only in a
  group of which the user has set another value.
- `SelectionInv`, for `SelectionRightCorrect`: what is closed never comes back, of a
  list on its way the page knows what was closed since (`ListKnown`), and a
  conversation that is shown is there, or its closing is on its way to the page or
  waits for the list to come (`ShownKnown`).
- `CardsInv` and `KeptInv`, for `CardsKeptCorrect`. What a session's entries are reduced
  to is a store with a record for each agent of whom there is an entry
  (`ReducedIsStore`), and one more entry lays one more card (`ReducedMore`). Three full
  stores prune apart: the supervisor's, the one the reduction keeps on its way, and the
  one a new runtime is filled with. `AgreeOn` says why they still agree on whatever is
  heard next: each has the records' own card or none, all have every agent at work, and
  the first two have the same of the agents of this process, since no other agent's
  card is newer (`PruneAgrees`: an agent is pruned by the cards beside it that are at
  work or newer, and those are in both). `SeededFits` is the third store. For the page,
  `PageFollows` puts for each agent the card shown, those announced and the record in
  one order of revisions, in which an end stays the end.
- `PanelInv`, for `FilesRightCorrect`: keys, content and pending fetches fit together.
  `PanelCounted` adds, for the types, that each number of a request is a file opened,
  a file closed or a tree fetched.
- `RemoteInv`, for `WorkersFollowedCorrect`: one loop, owners of what is shown, and
  whoever changed what is shown and has not saved it is still under way. A save that
  failed counts as none until something else changes.
- `SharedInv`, for `LoginsSharedCorrect`: what a call that was sent alone has written,
  place by place, is newer than what was published.
- `RecoveryInv`, for `RecoveryGoesOnCorrect`: a loss of the network that was not heard
  of is still in the queue (`LossComes`), and after each loss in the queue comes a
  return, or the network is away (`LossEnds`).

`PartsTypeOKCorrect` puts the types of all parts together. Three definitions recurse
over sequences of any length: `AfterWaiting`, `Reduced` and `Seeded`. The prover has
no rule of induction for them; `LeastNumber` (a set of numbers that is not empty has
a least one, by the well-foundedness of `<`) stands in for it: that the function
exists, and what it returns, fails for a least length or for none.

Three proof attempts failed for a good reason and changed the project.
`SnapshotRespected` does not hold for follow-ups where a configuration is reloaded or something
fails (section 6): the property says so. The first form of `FilesRight` is false
after five moves of a conversation, beyond the run's bound; TLC confirmed it with
that bound raised, and the property was restated for what the code does keep.
`LoginFollowed` turned out to hold with one exclusion fewer and was
strengthened. The last part of `HooksTold` compared the server's events on the page
with a suffix of those kept; restated without that filter it says which list the page
has, is stronger, and is proved.

Only model-checked is liveness, which the prover cannot treat under fairness:
`Recovers`, `LoginsEnd`, `RequestsAnswered`, `FleetSettles`, `OperationEnds`,
`CatchesUp`, `LeaseReturned`. Every other property of a passing run is a theorem.

## 6. Where code and documents disagree

The violation runs, with their findings in `PROJECT.json`: `one_worker`,
`evicted`, `superseded`, `subscribed`, `retained`. Seen while modelling and not given a run,
by part. Where a property excludes one of these, its comment says so.

Workers.

- `docs/workspaced.md:69`: a worker given up as failed keeps its `fatal` mark
  over sleep and wake; it runs again and is still answered 503. The crash history
  (`local.js:88`) is cleared by restart, reset and remove, not by sleep and wake.
- `index.js:80` says a sleeping worker is never woken by a refusal's check; an
  eviction can overlap `refuseAsleep`'s list and the health call that follows it.
- `docs/worker.md:27`, "the next request wakes it": a request whose list was read
  before a sleep is forwarded to the sleeping worker.
- `kubernetes.js:250`, "return only once the pod (and purged PVC) are gone": the status of
  the list of pods is not looked at (`:160`), so an answer of 403, 429 or 500 counts as no
  pods, and a removal answers ok with a pod left.
- `kubernetes.js:250`: a removal without purge followed by a purge, when the worker was in
  another grant's namespace, leaves that namespace's volume and answers ok. Two
  overlapping creates with different grants can make two Deployments.
- `docs/web.md:72` says that signing in to GitHub sends the login to workspaced;
  `pushGitHubAuth` is only called by `createProject`.
- `remote-workspaces.js:300`, remote ids never reach in-process routes: they do when
  `list()` fails or a sleeping worker is unknown. Overlapping lists that are answered
  out of order may drop a snapshot until the next poll. Owners are never cleared. A
  failed write of the snapshots is swallowed and not tried again before something changes
  (`remote-workspaces.js:40`): a restart shows the older ones.
- `pushModelAuth`: after a lost answer and a content that comes back, or when
  overlapping calls are reordered, workers keep an old login that is never sent again.

Conversations.

- `docs/worker.md:29`, a reload answers 409 while a turn runs:
  `reloadPiConfiguration` looks once, then awaits each dispose; a prompt accepted
  meanwhile is cut. An attach in flight across a reload registers a runtime with
  the old configuration, and on the old file when `/sync` moved the conversation
  meanwhile: a follow-up admitted on the new snapshot then joins it and runs on
  the old one, because `message()` looks at the snapshot again only for prompts
  (`real.js:719`; TLC finds it for `{followUp, sync, move, reload, read}`).
- `docs/plans/pi-sync-web-refresh.md:21`, attaching is passive: a GET of the
  commands between `live.delete` and the registration of a replacement starts
  a second runtime, and what registers last overwrites the other.
- A prompt that is rejected before its turn starts, after an earlier turn, is
  dropped without a word: `turnEnded` is still set (`real.js:429`).
- `stop()` marks an idle runtime aborted; the next turn is reported as stopped
  (`real.js:1198`).
- Pending messages are matched first in, first out, while steering overtakes
  follow-ups.
- The coordinator: a restart forgets `blocked`, and local entries that were not
  uploaded are overwritten by the next `materialize`; the lost answer of an upload
  that was applied is later reported as a change elsewhere (`coordinator.js:613`).
  `SettledUploaded` is claimed only where requests, changes and turns do not overlap.
- "finish the short mutation here instead" (`sessions.js:75`): a turn that ends in an
  error (`real.js:568`, `:755`) is settled neither by the supervisor nor by the
  request. The heartbeat renews the lease with nobody working, until a next request
  settles it, and what the turn wrote is not uploaded meanwhile.
- A conflict found while a lease is taken anew is hidden by a failed heartbeat and a
  successful one (`coordinator.js:657`, `:855`): what the other client uploaded is
  overwritten. While a lease is uncertain a stop is refused like any other request.
- A list in flight before an attach fills the adapter's cache with the old list: "no
  longer has this conversation" until it expires. Opening one conversation from
  two projects of one repository can write two files with one binding.

Logins and configuration.

- Overlapping starts give two live logins (`auth-flows.js:258`).
- A login that succeeds after its deadline turns "error" into "complete" with
  the error still set; one cancelled while the models are refreshed has stored its
  credential (`real.js:1430`); a withdrawn prompt leaves the flow waiting for input; a late SDK
  prompt revives a cancelled flow until its removal.
- A session whose creation began before a reload registers after it with the old
  configuration and decides the packages of later ones (message `settings.js:114`).
  Of overlapping resolves of one source the older may write last. Settings and
  resources are fetched separately and may be of different commits. A failing lookup of
  the default branch caches under HEAD. A key the profile owns that is set here is
  written but shadowed.
- `pi-configuration.js:473`, a routine change "does not copy the external profile
  permanently": settings are merged deeply (`:39`) but stripped by top-level keys, so a
  change of one value of a group copies the profile's other values of the group into
  settings.json, over the user's own.
- POST /projects loads the settings, clones for minutes and saves them whole: what was
  saved meanwhile is lost, and the project lost cannot be added again
  (`repository_exists`, `docs/configuration.md:18`). POST /settings with a model awaits
  between load and save too (`settings.js:66`).
- Bindings without `projectId` are written at `lifecycle.js:98`, `:132`,
  `workspaces.js:105`, `:176` against the comment at `config.js:2`. An unreadable file
  reads as empty, and the next save overwrites it.

Git.

- Commits on the source branch between the merge and `branch -D` are lost
  (`routes/workspaces.js:361`, `docs/implementation.md:103`); an agent that checks
  out, in the checkout, the branch being merged makes the merge a no-op before it is
  deleted. `WorkKept` excludes this work (`late`).
- "This avoids assuming another stash has not been created" (`workspaces.js:825`):
  `rev-parse refs/stash` after the push (`:853`) may name another's entry, which then goes
  to the parent and to the new worktree while the parent's work stays in the stash
  (`ParentRestored` leaves this window out); an entry found by list is dropped by position
  (`:871`), so another's may be dropped (`WorkKept` leaves out what is stashed during
  a fork).
- A conversation's fork takes no admission (`contexts.js:5`): one under way at the last look
  lands in a workspace that is removed (`strays`).
- A push compares heads by hash: an agent that switched to another branch at the same
  head pushes a branch the user did not review. At most 100 commits are listed. GET
  push-preview takes no admission.

The page.

- The transcript's sequence number is taken before the awaits that read the
  records: text streamed in between is in the snapshot and replayed from the buffer, until
  the turn's end loads the transcript again; for good when that turn_end is itself
  replayed, because a replay loads nothing (`api.js:702`). `api.js:621` calls the
  number a barrier.
- A load that fails drops what was buffered during it (`api.js:290`), although those
  events were delivered.
- When web's stream to a worker opens again between a worker's snapshot and web's
  answer, `webSeq` has no pairs and answers with its current number: events of
  that time are hidden by the gate. After a restart of web its numbers begin at 1; if
  the load then fails, the browser drops events until they exceed the old number.
- After a refusal as stale the draft keeps its token and is refused until it is emptied
  (`docs/pi-sync-integration-plan.md:92`). What an extension writes while a command is sent
  makes a failed command's text be lost. A reload drops a failed bubble when an older
  record has the same text.
- One slot for dialogs of all conversations: a request of another conversation replaces
  the one being answered, and opening a third one cancels it unseen (`api.js:521`).
- `session_closed` joins a refresh already in flight whose list is older, so the page may
  stay on the conversation closed (`docs/plans/codebase-simplification.md:64`,
  `test/dom.test.js:1502`); where it falls back to is not stored.
- The column of files: when a conversation moves between two workspaces five times
  around closing and reopening the column, files of the other workspace are shown,
  not marked as loading, until the answer comes (`ensureFiles` returns before it clears).
  Changing the target while `history.back()` is pending closes a file opened right
  after. Another conversation's selection leaves "#file/..." in the address.
- `pollAuth`'s catch drops whatever login is shown; a late answer of an input brings
  back a cancelled login that nobody polls; an answer of a cancellation drops a
  newer login. A failing save restores what was there before an overlapping one that succeeded.
- Hook events after the HTTP answer are shown twice until the operation completes; a
  lost answer after success shows an error; a failed hook still says "finished". To a 404
  the page adds an error event of its own to those of the server; after a 500 to
  what it had, and the server's operation stays unfinished.
- A full store of cards (100) forgets a finished agent; heard of late, it runs again
  (`docs/plans/subagent-activity-ui.md:35`). Agents that die with the worker run for ever
  on the page.
- An EventSource answered with an HTTP error is closed for good, and
  `recoverConnection` does not open it again until the page resumes (`api.js:499`). A health
  answer after the offline event clears the offline notice.
- The picker: errors of `pull()` and `push()` are shown without the check of the owner
  (`session-picker.js:395`); late pages of an older search of repositories may mix with newer.

## 7. What is not modelled

The mock supervisor is a script for tests. The file explorer's routes, the
listing of repositories, diffs, history and projects keep no state that two steps
could disagree about; nor do the pass-through routes for grants, pins and actions.
The pickers of branches and repositories, highlighting, rendering and styles are display
without a protocol, except for what is in section 3. Parsing, normalising and
redaction of settings, packages, cards and output are data. Manifests, scripts,
designs and start-up wiring have no behaviour. The Pi SDK, pi-sync, GitHub, Git, npm and
the Kubernetes API are external: they appear as what may happen at an await.
