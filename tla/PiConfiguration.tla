--------------------------- MODULE PiConfiguration ---------------------------
(***************************************************************************)
(* The Pi configuration of a server: config.json names a profile (a file,  *)
(* or settings and resources in a repository of GitHub), resolving it      *)
(* takes several requests and falls back to a cache file, sessions are     *)
(* created one after the other with its settings and packages, and a       *)
(* reload drops them all.  server/pi-configuration.js and                  *)
(* supervisor/real.js.  Contents are a source and the number of its push.  *)
(***************************************************************************)
EXTENDS Naturals, Sequences, FiniteSets

CONSTANTS Source, Remote,    \* profiles; those fetched from GitHub
          NoSource,
          PiSession,         \* sessions being created, or live
          MaxResolves,       \* calls of #resolve under way or remembered
          MaxPushes, MaxReloads, MaxPiFaults, MaxBreaks

ASSUME PiAssumption ==
    /\ NoSource \notin Source /\ Remote \subseteq Source
    /\ {MaxResolves, MaxPushes, MaxReloads, MaxPiFaults, MaxBreaks} \subseteq Nat

Resolve == 1..MaxResolves
NoResolve == 0

VARIABLES
    saved,        \* the profile config.json names
    head,         \* what each source holds now
    resolves,     \* the calls of #resolve
    resolved,     \* this.cache: the profile asked for and its call
    profileCache, \* pi-profile-cache.json
    roots,        \* the materialized resources of each location
    broken,       \* packages that cannot be set up
    packages,     \* packageSetupError and packageSources
    creating,     \* the queue of sessionCreateTail
    session,      \* the sessions, from their creation on
    reloading,    \* reloadPiConfiguration disposes the sessions
    local,        \* settings.json of the agent directory: the packages it names,
                  \* and a group of settings, one the profiles have and one they lack
    piBudget,     \* reloads and faults so far
    piTrouble,      \* what may go wrong here: requests, or packages and sessions
    mixed,        \* a session's creation was under way at the last reload
    crossed,      \* sources of which two resolves were once under way together
    floor         \* what the saved profile held at the last reload

piVars == <<saved, head, resolves, resolved, profileCache, roots, broken, packages,
            creating, session, reloading, local, piBudget, piTrouble, mixed, crossed, floor>>

worldVars == <<piTrouble, saved, head>>
fileVars == <<profileCache, roots>>
callVars == <<resolves, resolved>>
sessionVars == <<packages, creating, session, reloading>>
pastVars == <<mixed, crossed, floor>>

Ref == {"main", "HEAD"}
AtHead(s) == IF s = NoSource THEN <<NoSource, 0>> ELSE <<s, head[s]>>
Location == Remote \X Ref
Content == (Source \X (1..(MaxPushes + 1))) \cup {<<NoSource, 0>>}
Nothing == <<NoSource, 0>>
Own == <<NoSource, 1>>      \* a value the user set
Empty == <<NoSource, 2>>    \* the empty list of packages
Settings == [packages : Content \cup {Own, Empty},
             group : [shared : Content \cup {Own}, free : {Nothing, Own}]]
Package == Source \X {1, 2}
PackagesOf(content) == {p \in Package : p[1] = content[1]}

FreeResolve == [at |-> "free", src |-> NoSource, ref |-> "HEAD", status |-> "none",
                settings |-> Nothing, resources |-> Nothing]
AllUntried == [failed |-> FALSE, works |-> {}]
NoSession == [at |-> "none", call |-> NoResolve, mode |-> "all", todo |-> {}, works |-> {},
              with |-> Nothing, status |-> "none", packs |-> {}]

PiTypeOK ==
    /\ saved \in Source \cup {NoSource}
    /\ head \in [Source -> 1..(MaxPushes + 1)]
    /\ resolves \in [Resolve -> [at : {"free", "ref", "settings", "resources", "done"},
                                 src : Source \cup {NoSource}, ref : Ref,
                                 status : {"none", "loaded", "cached", "error"},
                                 settings : Content, resources : Content]]
    /\ resolved \in [src : Source \cup {NoSource}, call : Resolve \cup {NoResolve}]
    /\ profileCache \in [src : Remote \cup {NoSource}, ref : Ref, settings : Content, resources : Content]
    /\ roots \in [Location -> Content]
    /\ broken \subseteq Package
    /\ packages \in [failed : BOOLEAN, works : SUBSET Package]
    /\ creating \in Seq(PiSession)
    /\ session \in [PiSession -> [at : {"none", "queued", "resolving", "again", "loading", "opening", "live"},
                                  call : Resolve \cup {NoResolve},
                                  mode : {"all", "known", "probe", "working", "without"},
                                  todo : SUBSET Package, works : SUBSET Package, with : Content,
                                  status : {"none", "loaded", "cached", "error"}, packs : SUBSET Package]]
    /\ reloading \in BOOLEAN
    /\ local \in Settings
    /\ piBudget \in [reloads : 0..MaxReloads, faults : 0..MaxPiFaults, pushes : 0..MaxPushes, breaks : 0..MaxBreaks]
    /\ piTrouble \in {"network", "packages"}
    /\ mixed \in BOOLEAN /\ crossed \subseteq Remote
    /\ floor \in Content

\* The profiles that are fetched are alike: any one of them stands for all.
PiInit ==
    /\ saved \in (Source \ Remote) \cup {NoSource} \cup {s \in Remote : s = CHOOSE r \in Remote : TRUE}
    /\ head = [s \in Source |-> 1]
    /\ resolves = [r \in Resolve |-> FreeResolve]
    /\ resolved = [src |-> NoSource, call |-> NoResolve]
    /\ profileCache = [src |-> NoSource, ref |-> "HEAD", settings |-> Nothing, resources |-> Nothing]
    /\ roots = [l \in Location |-> Nothing]
    /\ broken = {}
    /\ packages = AllUntried
    /\ creating = <<>>
    /\ session = [k \in PiSession |-> NoSession]
    /\ reloading = FALSE
    /\ local = [packages |-> Nothing, group |-> [shared |-> Nothing, free |-> Nothing]]
    /\ piBudget = [reloads |-> 0, faults |-> 0, pushes |-> 0, breaks |-> 0]
    /\ piTrouble \in {"network", "packages"}
    /\ mixed = FALSE /\ crossed = {}
    /\ floor = AtHead(saved)

Fault ==
    /\ piTrouble = "network" /\ piBudget.faults < MaxPiFaults
    /\ piBudget' = [piBudget EXCEPT !.faults = @ + 1]
Breaks ==
    /\ piTrouble = "packages" /\ piBudget.breaks < MaxBreaks
    /\ piBudget' = [piBudget EXCEPT !.breaks = @ + 1]

\* Resolving.  A file is read on the spot; a repository is asked for its
\* default branch, the settings and the resources.
Begun(s) ==
    IF s \in Remote THEN {[FreeResolve EXCEPT !.at = "ref", !.src = s]}
    ELSE IF s = NoSource THEN {[FreeResolve EXCEPT !.at = "done"]}
    ELSE {[FreeResolve EXCEPT !.at = "done", !.src = s, !.status = "loaded", !.settings = <<s, head[s]>>],
          [FreeResolve EXCEPT !.at = "done", !.src = s, !.status = "error"]}

UnderWay(r) == resolves[r].at \in {"ref", "settings", "resources"}

\* A call nobody waits for and this.cache does not hold is forgotten.
AwaitedBy(K) == {session[k].call : k \in K}
Forgotten(rs, wanted) == [r \in Resolve |-> IF rs[r].at = "done" /\ r \notin wanted THEN FreeResolve ELSE rs[r]]

\* resolve(): the remembered call if it is for the saved profile, or a new one.
\* wanted are the calls others wait for.
ResolveAsked(r, force, wanted) ==
    LET others == Forgotten(resolves, wanted)
        free == {q \in Resolve : others[q].at = "free"}
    IN
    IF ~force /\ resolved.call # NoResolve /\ resolved.src = saved
    THEN r = resolved.call /\ UNCHANGED <<resolves, resolved, crossed>>
    ELSE /\ r \in free /\ \A q \in free : r <= q
         /\ \E c \in Begun(saved) : resolves' = [others EXCEPT ![r] = c]
         /\ resolved' = [src |-> saved, call |-> r]
         /\ crossed' = crossed \cup {s \in Remote : s = saved /\ \E q \in Resolve : UnderWay(q) /\ resolves[q].src = s}

\* Mutant: the cache of whatever profile was there last.
AnyCache(c) == profileCache.src # NoSource
\* readProfileCache: only of this source, at this ref.
CacheFits(c) == profileCache.src = c.src /\ profileCache.ref = c.ref

Ends(r, status, settings, resources) ==
    resolves' = Forgotten([resolves EXCEPT ![r].at = "done", ![r].status = status,
                                           ![r].settings = settings, ![r].resources = resources],
                          AwaitedBy(PiSession) \cup {resolved.call})
Materialized(c, resources) == roots' = [roots EXCEPT ![<<c.src, c.ref>>] = resources]

RefAnswered(r) ==
    LET hint == IF profileCache.src = resolves[r].src THEN profileCache.ref ELSE "HEAD" IN
    /\ resolves[r].at = "ref"
    /\ \/ resolves' = [resolves EXCEPT ![r].at = "settings", ![r].ref = "main"] /\ UNCHANGED piBudget
       \/ resolves' = [resolves EXCEPT ![r].at = "settings", ![r].ref = hint] /\ Fault
    /\ UNCHANGED <<profileCache, roots>>

SettingsAnswered(r) ==
    /\ resolves[r].at = "settings"
    /\ resolves' = [resolves EXCEPT ![r].at = "resources",
                                        ![r].settings = <<resolves[r].src, head[resolves[r].src]>>]
    /\ UNCHANGED <<profileCache, roots, piBudget>>

ResourcesAnswered(r) ==
    LET c == resolves[r]
        now == <<c.src, head[c.src]>>
    IN
    /\ c.at = "resources"
    /\ Ends(r, "loaded", c.settings, now)
    /\ Materialized(c, now)
    /\ \/ /\ profileCache' = [src |-> c.src, ref |-> c.ref, settings |-> c.settings, resources |-> now]
          /\ UNCHANGED piBudget
       \/ UNCHANGED profileCache /\ Fault

\* The settings are there but not the resources: those of the cache are used.
ResourcesFailed(r) ==
    LET c == resolves[r] IN
    /\ c.at = "resources" /\ Fault
    /\ IF CacheFits(c) /\ profileCache.resources # Nothing
       THEN Ends(r, "loaded", c.settings, profileCache.resources) /\ Materialized(c, profileCache.resources)
       ELSE Ends(r, "loaded", c.settings, Nothing) /\ UNCHANGED roots
    /\ UNCHANGED profileCache

SettingsFailed(r) ==
    LET c == resolves[r] IN
    /\ c.at = "settings" /\ Fault
    /\ IF CacheFits(c)
       THEN /\ Ends(r, "cached", profileCache.settings, profileCache.resources)
            /\ Materialized(c, profileCache.resources)
       ELSE Ends(r, "error", Nothing, Nothing) /\ UNCHANGED roots
    /\ UNCHANGED profileCache

ResolveStep(r) ==
    /\ RefAnswered(r) \/ SettingsAnswered(r) \/ ResourcesAnswered(r) \/ ResourcesFailed(r) \/ SettingsFailed(r)
    /\ UNCHANGED <<worldVars, resolved, broken, sessionVars, local, pastVars>>

\* GET of the state, of the commands, or the start of the server.
StateAsked(r) ==
    /\ ResolveAsked(r, FALSE, AwaitedBy(PiSession)) /\ r # resolved.call
    /\ UNCHANGED <<worldVars, fileVars, broken, sessionVars, local, piBudget, mixed, floor>>

\* A session is created when its turn in the queue comes.  It asks for the
\* configuration, and again for each way it tries to load resources.
Create(k) ==
    /\ session[k].at = "none"
    /\ session' = [session EXCEPT ![k].at = "queued"]
    /\ creating' = Append(creating, k)
    /\ UNCHANGED <<worldVars, callVars, fileVars, broken, packages, reloading, local, piBudget, pastVars>>

First(k) == creating # <<>> /\ Head(creating) = k

CreateBegins(k) ==
    /\ First(k) /\ session[k].at = "queued"
    /\ \E r \in Resolve : ResolveAsked(r, FALSE, AwaitedBy(PiSession \ {k})) /\ session' = [session EXCEPT ![k].at = "resolving", ![k].call = r]
    /\ UNCHANGED <<worldVars, fileVars, broken, packages, creating, reloading, local, piBudget, mixed, floor>>

\* loadResources: s is the session as it goes on to load.
Loads(k, s) ==
    \E r \in Resolve : ResolveAsked(r, FALSE, AwaitedBy(PiSession \ {k})) /\ session' = [session EXCEPT ![k] = [s EXCEPT !.at = "again", !.call = r]]

Answered(k) == session[k].call # NoResolve /\ resolves[session[k].call].at = "done"

Configured(k) ==
    LET configured == PackagesOf(resolves[session[k].call].settings) IN
    /\ First(k) /\ session[k].at = "resolving" /\ Answered(k)
    /\ IF packages.failed
       THEN Loads(k, [session[k] EXCEPT !.mode = "known", !.packs = packages.works, !.todo = configured])
       ELSE Loads(k, [session[k] EXCEPT !.mode = "all", !.todo = configured])
    /\ UNCHANGED <<worldVars, fileVars, broken, packages, creating, reloading, local, piBudget, mixed, floor>>

\* createSettingsManager: without a profile the given packages are not laid over.
Overlaid(k) ==
    LET out == resolves[session[k].call]
        overlay == out.status \in {"loaded", "cached"}
    IN
    /\ First(k) /\ session[k].at = "again" /\ Answered(k)
    /\ session' = [session EXCEPT ![k].at = "loading", ![k].call = NoResolve,
                                  ![k].with = out.settings, ![k].status = out.status,
                                  ![k].packs = IF ~overlay \/ session[k].mode = "without" THEN {}
                                               ELSE IF session[k].mode = "all" THEN PackagesOf(out.settings)
                                               ELSE @]
    /\ resolves' = Forgotten(resolves, AwaitedBy(PiSession \ {k}) \cup {resolved.call})
    /\ UNCHANGED <<worldVars, resolved, fileVars, broken, packages, creating, reloading, local, piBudget,
                   pastVars>>

Loading(k) == First(k) /\ session[k].at = "loading"
Unsound(k) == session[k].packs \cap broken # {}

\* All configured packages, or those known to work, could be set up.
LoadedAll(k) ==
    /\ Loading(k) /\ session[k].mode # "probe" /\ ~Unsound(k)
    /\ session' = [session EXCEPT ![k].at = "opening", ![k].todo = {}, ![k].works = {}]
    /\ packages' = IF session[k].mode = "all" THEN AllUntried ELSE packages
    /\ UNCHANGED <<resolves, resolved, crossed>>

\* One could not: each is tried alone, then those that work together.
Probe(k, s) ==
    IF s.todo # {}
    THEN /\ \E p \in s.todo : Loads(k, [s EXCEPT !.mode = "probe", !.packs = {p}, !.todo = @ \ {p}])
         /\ UNCHANGED packages
    ELSE /\ Loads(k, [s EXCEPT !.mode = "working", !.packs = s.works, !.works = {}])
         /\ packages' = [failed |-> TRUE, works |-> s.works]

ProbingBegins(k) == Loading(k) /\ session[k].mode = "all" /\ Unsound(k) /\ Probe(k, session[k])

Probed(k) ==
    /\ Loading(k) /\ session[k].mode = "probe"
    /\ Probe(k, [session[k] EXCEPT !.works = @ \cup (session[k].packs \ broken)])

\* Those that worked fail too: the session is loaded without packages.
NoneWork(k) ==
    /\ Loading(k) /\ session[k].mode \in {"known", "working"} /\ Unsound(k)
    /\ packages' = [failed |-> TRUE, works |-> {}]
    /\ Loads(k, [session[k] EXCEPT !.mode = "without", !.packs = {}, !.todo = {}])

CreateStep(k) ==
    /\ LoadedAll(k) \/ ProbingBegins(k) \/ Probed(k) \/ NoneWork(k)
    /\ UNCHANGED <<worldVars, fileVars, broken, creating, reloading, local, piBudget, mixed, floor>>

\* createAgentSession and bindExtensions; then the session is live, or any
\* other error ends its creation.
Opened(k) ==
    /\ First(k) /\ session[k].at = "opening"
    /\ session' = [session EXCEPT ![k].at = "live"]
    /\ UNCHANGED piBudget

CreateFails(k) ==
    /\ First(k) /\ Breaks
    /\ \/ session[k].at = "opening"
       \/ session[k].at = "loading" /\ session[k].mode \in {"all", "known", "without"}
    /\ session' = [session EXCEPT ![k] = NoSession]

CreateEnds(k) ==
    /\ Opened(k) \/ CreateFails(k)
    /\ creating' = Tail(creating)
    /\ UNCHANGED <<worldVars, callVars, fileVars, broken, packages, reloading, local, pastVars>>

\* A live session is closed, deleted or replaced.
Released(k) ==
    /\ session[k].at = "live"
    /\ session' = [session EXCEPT ![k] = NoSession]
    /\ UNCHANGED <<worldVars, callVars, fileVars, broken, packages, creating, reloading, local, piBudget,
                   pastVars>>

\* What a live session's SDK is shown: the profile's settings laid over the
\* user's, a group of settings value by value (mergeSettings).
Presented(k) ==
    LET overlaid == session[k].status \in {"loaded", "cached"} IN
    [packages |-> IF session[k].mode = "without" THEN Empty
                  ELSE IF overlaid THEN session[k].with ELSE local.packages,
     group |-> IF overlaid THEN [local.group EXCEPT !.shared = session[k].with] ELSE local.group]

\* It writes all it was shown with a change.  What is as it was shown is taken
\* out again, but key by key: a group with a change stays as a whole.
Written(presented, next) ==
    [key \in {"packages", "group"} |-> IF next[key] = presented[key] THEN local[key] ELSE next[key]]

\* The packages are set, a setting of the group, or some other setting.
SetSetting(k) ==
    LET shown == Presented(k) IN
    /\ piTrouble = "packages" /\ session[k].at = "live"
    /\ \E next \in {shown, [shown EXCEPT !.packages = Own],
                    [shown EXCEPT !.group.shared = Own], [shown EXCEPT !.group.free = Own]} :
          local' = Written(shown, next)
    /\ UNCHANGED <<worldVars, callVars, fileVars, broken, sessionVars, piBudget, pastVars>>

\* POST /settings with a profile, or POST /pi/reload: s is what is saved after it.
ReloadAsked(s) ==
    /\ ~reloading /\ piBudget.reloads < MaxReloads
    /\ saved' = s
    /\ reloading' = TRUE
    /\ piBudget' = [piBudget EXCEPT !.reloads = @ + 1]
    /\ UNCHANGED <<piTrouble, head, callVars, fileVars, broken, packages, creating, session, local, pastVars>>

\* The sessions are disposed: nothing is live, nothing is remembered.
Reset ==
    /\ reloading
    /\ session' = [k \in PiSession |-> IF session[k].at = "live" THEN NoSession ELSE session[k]]
    /\ packages' = AllUntried
    /\ \E r \in Resolve : ResolveAsked(r, TRUE, AwaitedBy(PiSession))
    /\ reloading' = FALSE
    /\ mixed' = \E k \in PiSession : session[k].at \notin {"none", "queued", "live"}
    /\ floor' = AtHead(saved)
    /\ UNCHANGED <<worldVars, fileVars, broken, creating, local, piBudget>>

\* Outside: a source changes, a package cannot be set up any more or can again.
Push(s) ==
    /\ piTrouble = "network"
    /\ piBudget.pushes < MaxPushes
    /\ piBudget' = [piBudget EXCEPT !.pushes = @ + 1]
    /\ head' = [head EXCEPT ![s] = @ + 1]
    /\ UNCHANGED <<piTrouble, saved, callVars, fileVars, broken, sessionVars, local, pastVars>>

Break(p) ==
    /\ Breaks
    /\ broken' = (broken \ {p}) \cup ({p} \ broken)
    /\ UNCHANGED <<worldVars, callVars, fileVars, sessionVars, local, pastVars>>

PiNext ==
    \/ \E r \in Resolve : ResolveStep(r) \/ StateAsked(r)
    \/ \E k \in PiSession :
          \/ Create(k) \/ CreateBegins(k) \/ Configured(k) \/ Overlaid(k) \/ CreateStep(k) \/ CreateEnds(k)
          \/ Released(k) \/ SetSetting(k)
    \/ \E s \in Source \cup {NoSource} : ReloadAsked(s)
    \/ Reset
    \/ \E s \in Source : Push(s)
    \/ \E p \in Package : p[1] = saved /\ Break(p)

PiSpec == PiInit /\ [][PiNext]_piVars

\* What a resolve answers is of the profile it was asked for, also when it
\* falls back on the cache file: a cache of another profile is never used.
OwnContent ==
    \A r \in Resolve : resolves[r].at = "done" =>
        {resolves[r].settings, resolves[r].resources} \subseteq {Nothing} \cup ({resolves[r].src} \X Nat)

\* The skills and extensions a remembered answer names are the ones on disk,
\* unless two resolves of the source were under way together: then the
\* earlier may have put its own there last.
NamedIsThere ==
    \A r \in Resolve :
        LET c == resolves[r] IN
        r = resolved.call /\ c.at = "done" /\ c.resources # Nothing /\ c.src \notin crossed
            => roots[<<c.src, c.ref>>] = c.resources

\* A session runs with what the last reload found or later content of the
\* same profile, the cached one apart, and with packages of that profile,
\* unless it was being created when the reload cleared the sessions.
ReloadedInForce ==
    ~mixed /\ ~reloading =>
        \A k \in PiSession : session[k].at = "live" =>
            /\ session[k].with # Nothing => session[k].with[1] = floor[1]
            /\ session[k].status = "loaded" => session[k].with[2] >= floor[2]
            /\ session[k].packs \subseteq PackagesOf(session[k].with)

\* settings.json holds what was set there.  A copy of the profile's value gets
\* into it only inside a group of which the user set another value: the group
\* is then written as the session was shown it.
LocalKept ==
    /\ local.packages \in {Nothing, Own}
    /\ local.group.shared \in {Nothing, Own} \/ local.group.free = Own

ConfigurationTrue == OwnContent /\ NamedIsThere /\ ReloadedInForce /\ LocalKept
=============================================================================
