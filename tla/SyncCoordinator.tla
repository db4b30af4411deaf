--------------------------- MODULE SyncCoordinator ---------------------------
(***************************************************************************)
(* One synchronized conversation, kept by several web servers, each with a *)
(* PiSyncCoordinator and a copy of its own, and by the synchronization     *)
(* service.  A conversation is a set of entries.  Every call of the        *)
(* service may be lost before or after it took effect; a lease may expire  *)
(* at any time; a web server may restart.                                  *)
(*                                                                         *)
(* _exclusive lets one task at a time use the coordinator's state of the   *)
(* conversation: job[w] is that task.  A step is what happens up to and    *)
(* including one call of the service.  A request that ends in an error and *)
(* changes nothing is no step.                                             *)
(***************************************************************************)
EXTENDS Naturals

CONSTANTS
    Web, NoWeb,
    Peer,           \* any other client of the service
    AllConversations,   \* whether every conversation is synchronized unasked
    MaxEntries,     \* bound: entries ever written
    Scenarios       \* bounds: whether requests, changes and turns overlap, and how
                    \* much fails (calls, changes, leases, restarts)

ASSUME SyncAssumption ==
    /\ NoWeb \notin Web /\ Peer \notin Web \cup {NoWeb} /\ AllConversations \in BOOLEAN
    /\ Scenarios \subseteq [overlap : BOOLEAN, faults : Nat]
    /\ MaxEntries \in Nat

VARIABLES
    doc, etag, leased,  \* the service: conversation, its version, its lease
    local,      \* the session file of each web server
    enrolled,   \* sync-sessions.json: whether this server synchronizes it
    active,     \* the lease a server believes it has, or NoLease
    blocked,    \* why the server refuses changes when it holds no lease
    job,        \* the task inside _exclusive and its next call
    change,     \* the change under withMutation
    turn,       \* whether the agent runs, under a lease or not
    settle,     \* whether agentSettled waits for _exclusive
    finish,     \* whether the settlement of a request does (finishStreamingMutation)
    giveUp,     \* whether release() waits for _exclusive
    scenario,   \* one of Scenarios
    written,    \* number of entries written so far
    faults,     \* number of faults so far
    uploaded,   \* history: every entry the service ever had
    abandoned,  \* history: entries each server gave up
    left        \* history: whether the last turn ended and nothing settled it

service == <<doc, etag, leased, uploaded>>
users == <<change, turn, settle, finish, giveUp, scenario>>
files == <<local, enrolled, written, abandoned, left>>
vars == <<service, active, blocked, job, users, files, faults>>

Clients == Web \cup {Peer}
Docs == SUBSET (1..MaxEntries)
NoDoc == {0}    \* no conversation; a conversation may be empty
NoLease == [held |-> FALSE]
Leases == [held : {TRUE},
    valid : BOOLEAN,        \* the service still accepts its token
    etag : Nat, seen : Docs,    \* the version it knows, and its content
    pending : Docs \cup {NoDoc},    \* the content still to be uploaded
    fresh : BOOLEAN,        \* taken by a refresh
    gone : BOOLEAN,         \* the service said that the token is invalid
    doomed : BOOLEAN,       \* a release is queued, maybe behind heartbeats
    alien : BOOLEAN,        \* its version is one whose content it never saw
    releasePending : BOOLEAN,
    block : {"none", "uncertain", "conflict", "missing", "taken", "failed"}]
Kinds == {"change", "message", "stop", "refresh"}
Free == [step |-> "free"]
Jobs == [step : {"free", "beat"}] \cup [step : {"upload", "release"}, request : BOOLEAN]
    \cup [step : {"acquire", "materialize"}, for : Kinds]
    \cup [step : {"renew", "resend", "reacquire", "reupload", "rebuild"}, for : {"change"}]

TypeOK ==
    /\ doc \in Docs \cup {NoDoc} /\ etag \in Nat /\ leased \in Clients \cup {NoWeb}
    /\ uploaded \in Docs
    /\ local \in [Web -> Docs] /\ enrolled \in [Web -> BOOLEAN]
    /\ active \in [Web -> Leases \cup {NoLease}]
    /\ blocked \in [Web -> {"none", "conflict", "missing", "failed"}]
    /\ job \in [Web -> Jobs]
    /\ change \in [Web -> {"none", "run", "local", "settle", "abandon"}]
    /\ turn \in [Web -> {"no", "leased", "local"}]
    /\ settle \in [Web -> BOOLEAN] /\ finish \in [Web -> BOOLEAN] /\ giveUp \in [Web -> BOOLEAN]
    /\ scenario \in Scenarios
    /\ written \in 0..MaxEntries /\ faults \in 0..scenario.faults
    /\ abandoned \in [Web -> Docs] /\ left \in [Web -> BOOLEAN]

Init ==
    /\ doc = NoDoc /\ etag = 0 /\ leased = NoWeb /\ uploaded = {}
    /\ local = [w \in Web |-> {}] /\ enrolled = [w \in Web |-> FALSE]
    /\ active = [w \in Web |-> NoLease] /\ blocked = [w \in Web |-> "none"]
    /\ job = [w \in Web |-> Free]
    /\ change = [w \in Web |-> "none"] /\ turn = [w \in Web |-> "no"]
    /\ settle = [w \in Web |-> FALSE] /\ finish = [w \in Web |-> FALSE] /\ giveUp = [w \in Web |-> FALSE]
    /\ scenario \in Scenarios
    /\ written = 0 /\ faults = 0 /\ abandoned = [w \in Web |-> {}] /\ left = [w \in Web |-> FALSE]

(***************************************************************************)
(* Calls of the service.                                                   *)
(***************************************************************************)
Answered == UNCHANGED faults
Fault == faults < scenario.faults /\ faults' = faults + 1

Now(w, j) == job' = [job EXCEPT ![w] = j]
Step(w, s) == job[w].step = s
Idle(w) == job[w] = Free

\* Whether the service would lease the conversation.
Grantable == doc # NoDoc /\ leased = NoWeb

\* What the service answers to a request with the server's token.
Answer(w) == CASE doc = NoDoc -> "missing"
               [] doc # NoDoc /\ ~active[w].valid -> "gone"
               [] doc # NoDoc /\ active[w].valid /\ active[w].etag = etag -> "ok"
               [] OTHER -> "stale"

\* The service stores what the server has pending.
Store(w) ==
    /\ doc' = active[w].pending /\ etag' = etag + 1
    /\ uploaded' = uploaded \cup active[w].pending /\ UNCHANGED leased

\* active.blocked is set, and for good reasons blocked too, and a release is
\* queued (_markBlocked).
MarkBlocked(w, why) ==
    /\ active' = [active EXCEPT ![w].block = why, ![w].doomed = TRUE]
    /\ blocked' = [blocked EXCEPT ![w] = why]

Uncertain(w, invalid) ==
    /\ active' = [active EXCEPT ![w].block = "uncertain", ![w].gone = invalid]
    /\ UNCHANGED blocked

\* client.release answers, or its answer is lost and it is to be repeated.
Released(w, next) ==
    /\ Answered
    /\ leased' = IF active[w].valid THEN NoWeb ELSE leased
    /\ active' = [active EXCEPT ![w] = NoLease]
    /\ Now(w, next)
    /\ UNCHANGED <<doc, etag, uploaded>>
Unreleased(w, queued, next) ==
    /\ Fault
    /\ \E applied \in {FALSE, active[w].valid} :
        /\ leased' = IF applied THEN NoWeb ELSE leased
        /\ active' = [active EXCEPT ![w].valid = @ /\ ~applied, ![w].releasePending = TRUE,
                        ![w].block = "uncertain", ![w].doomed = @ /\ ~queued]
    /\ Now(w, next)
    /\ UNCHANGED <<doc, etag, uploaded>>
ReleaseCall(w, queued) == Released(w, Free) \/ Unreleased(w, queued, Free)

(***************************************************************************)
(* prepareMutation, for a change (withMutation), a message                 *)
(* (beginMutation, streaming allowed) or a refresh (a fresh lease).        *)
(***************************************************************************)
Refreshable(w) == enrolled[w] /\ turn[w] = "no"

\* The release queued by _markBlocked is still to come.
Doomed(w) == active[w].held /\ active[w].doomed

\* A message and a stop may come while the agent runs.
CanAsk(w, k) ==
    /\ Idle(w)
    /\ k \in {"message", "stop"} \/ turn[w] = "no"
    /\ k = "change" => change[w] = "none" /\ ~Doomed(w)
    /\ k = "refresh" => Refreshable(w)
    /\ scenario.overlap \/ (change[w] = "none" /\ ~settle[w] /\ ~finish[w] /\ ~giveUp[w] /\ ~Doomed(w)
                            /\ (k = "stop" \/ turn[w] = "no"))

\* The prompt's turn runs; where requests overlap the request may be settled
\* before the turn streams.
Prompted(w) ==
    /\ turn' = [turn EXCEPT ![w] = "leased"]
    /\ UNCHANGED finish \/ (scenario.overlap /\ finish' = [finish EXCEPT ![w] = TRUE])
    /\ UNCHANGED <<change, settle, giveUp, scenario>>
\* No turn streams, so the request settles at once.
Unstreamed(w) == finish' = [finish EXCEPT ![w] = TRUE] /\ UNCHANGED <<change, turn, settle, giveUp, scenario>>
\* The turn is aborted and ends, unless another one has begun; both the
\* supervisor and the request settle.
Stopped(w) ==
    /\ turn' = [turn EXCEPT ![w] = "no"] \/ (scenario.overlap /\ turn' = turn)
    /\ settle' = [settle EXCEPT ![w] = TRUE] /\ finish' = [finish EXCEPT ![w] = TRUE]
    /\ UNCHANGED <<change, giveUp, scenario>>
\* The prompt is refused or the stop fails, as a refresh ends: the lease is
\* given up.
Refused(w) == giveUp' = [giveUp EXCEPT ![w] = TRUE] /\ UNCHANGED <<change, turn, settle, finish, scenario>>

\* The request has its lease.
Granted(w, k) ==
    \/ k = "change" /\ change' = [change EXCEPT ![w] = "run"] /\ UNCHANGED <<turn, settle, finish, giveUp, scenario>>
    \/ k = "message" /\ (Prompted(w) \/ Unstreamed(w) \/ Refused(w))
    \/ k = "stop" /\ (Stopped(w) \/ (scenario.overlap /\ Refused(w)))
    \/ k = "refresh" /\ Refused(w)

\* A lease whose release failed is released first.
ReleaseFirst(w, k) ==
    /\ CanAsk(w, k) /\ active[w].held /\ active[w].releasePending
    /\ \/ Released(w, IF blocked[w] = "none" THEN [step |-> "acquire", for |-> k] ELSE Free)
       \/ Unreleased(w, FALSE, Free)
    /\ UNCHANGED <<blocked, users, files>>

\* The request uses the lease that is there.
Join(w, k) ==
    /\ CanAsk(w, k) /\ active[w].held
    /\ ~active[w].releasePending /\ ~active[w].fresh /\ active[w].block = "none" /\ k # "refresh"
    /\ Granted(w, k)
    /\ UNCHANGED <<service, active, blocked, job, files, faults>>

\* An uncertain lease is verified first.
Recover(w) ==
    /\ CanAsk(w, "change") /\ active[w].held
    /\ ~active[w].releasePending /\ ~active[w].fresh /\ active[w].block = "uncertain"
    /\ Now(w, [step |-> IF active[w].gone THEN "reacquire" ELSE "renew", for |-> "change"])
    /\ UNCHANGED <<service, active, blocked, users, files, faults>>

\* A conversation that is not synchronized needs no lease.
Unmanaged(w, k) ==
    /\ CanAsk(w, k) /\ ~active[w].held /\ blocked[w] = "none" /\ ~enrolled[w] /\ ~AllConversations
    /\ \/ k = "change" /\ change' = [change EXCEPT ![w] = "local"] /\ UNCHANGED turn
       \/ k = "message" /\ turn' = [turn EXCEPT ![w] = "local"] /\ UNCHANGED change
    /\ UNCHANGED <<service, active, blocked, job, settle, finish, giveUp, scenario, files, faults>>

Ask(w, k) ==
    /\ CanAsk(w, k) /\ ~active[w].held /\ blocked[w] = "none" /\ enrolled[w]
    /\ Now(w, [step |-> "acquire", for |-> k])
    /\ UNCHANGED <<service, active, blocked, users, files, faults>>

Acquire(w) ==
    /\ Step(w, "acquire")
    /\ \/ /\ Answered /\ Grantable
          /\ leased' = w
          /\ active' = [active EXCEPT ![w] = [held |-> TRUE, valid |-> TRUE, etag |-> etag, seen |-> doc,
                            pending |-> NoDoc, fresh |-> job[w].for = "refresh", gone |-> FALSE,
                            doomed |-> FALSE, alien |-> FALSE, releasePending |-> FALSE, block |-> "none"]]
          /\ Now(w, [step |-> "materialize", for |-> job[w].for])
       \/ Answered /\ Now(w, Free) /\ UNCHANGED <<leased, active>>    \* refused
       \/ Fault /\ Now(w, Free) /\ leased' \in {leased, IF Grantable THEN w ELSE leased} /\ UNCHANGED active
    /\ UNCHANGED <<doc, etag, uploaded, blocked, users, files>>

Unfit(w) == (turn[w] # "no" /\ Answered) \/ Fault

Replaced(w) ==
    /\ turn[w] = "no" /\ local' = [local EXCEPT ![w] = active[w].seen]
    /\ left' = [left EXCEPT ![w] = FALSE]

\* The session file is replaced by the service's content, unless the agent
\* runs or the workspace does not fit.
Materialize(w) ==
    /\ Step(w, "materialize")
    /\ \/ /\ Answered /\ Replaced(w)
          /\ blocked' = [blocked EXCEPT ![w] = "none"]
          /\ Now(w, Free) /\ Granted(w, job[w].for) /\ UNCHANGED active
       \/ /\ Unfit(w)
          /\ active' = [active EXCEPT ![w].block = "failed"]
          /\ Now(w, [step |-> "release", request |-> FALSE]) /\ UNCHANGED <<blocked, local, left, users>>
    /\ UNCHANGED <<service, enrolled, written, abandoned>>

(***************************************************************************)
(* _recoverActive: verify or replace an uncertain lease.                   *)
(***************************************************************************)
Recovered(w) == Now(w, Free) /\ Granted(w, "change")
Fixed(w) == active' = [active EXCEPT ![w].block = "none", ![w].gone = FALSE]
StillUncertain(w) == Uncertain(w, FALSE) /\ Now(w, Free) /\ UNCHANGED users

Renew(w) ==
    /\ Step(w, "renew")
    /\ \/ Answered /\ Answer(w) = "ok" /\ active[w].pending # NoDoc
          /\ Now(w, [step |-> "resend", for |-> "change"]) /\ UNCHANGED <<active, blocked, users>>
       \/ Answered /\ Answer(w) = "ok" /\ active[w].pending = NoDoc
          /\ Fixed(w) /\ Recovered(w) /\ UNCHANGED blocked
       \/ Answered /\ Answer(w) = "stale"    \* blocked, and then marked uncertain by the catch
          /\ active' = [active EXCEPT ![w].block = "uncertain", ![w].doomed = TRUE]
          /\ blocked' = [blocked EXCEPT ![w] = "conflict"]
          /\ Now(w, Free) /\ UNCHANGED users
       \/ Answered /\ Answer(w) = "gone"
          /\ Uncertain(w, TRUE) /\ Now(w, [step |-> "reacquire", for |-> "change"]) /\ UNCHANGED users
       \/ Answered /\ Answer(w) = "missing" /\ StillUncertain(w)
       \/ Fault /\ StillUncertain(w)
    /\ UNCHANGED <<service, files>>

Resend(w) ==
    /\ Step(w, "resend")
    /\ \/ Answered /\ Answer(w) = "ok" /\ Store(w)
          /\ active' = [active EXCEPT ![w].etag = etag + 1, ![w].seen = active[w].pending, ![w].pending = NoDoc,
                            ![w].alien = FALSE, ![w].block = "none", ![w].gone = FALSE]
          /\ Recovered(w) /\ UNCHANGED blocked
       \/ Answered /\ Answer(w) = "gone" /\ UNCHANGED service
          /\ Uncertain(w, TRUE) /\ Now(w, [step |-> "reacquire", for |-> "change"]) /\ UNCHANGED users
       \/ Answered /\ Answer(w) \in {"stale", "missing"} /\ UNCHANGED service /\ StillUncertain(w)
       \/ Fault /\ StillUncertain(w) /\ (UNCHANGED service \/ (Answer(w) = "ok" /\ Store(w)))
    /\ UNCHANGED files

\* Mutant: the version of the new lease is taken for the known one.
ReacquireAny(w) ==
    /\ Step(w, "reacquire") /\ Answered /\ Grantable /\ leased' = w
    /\ active' = [active EXCEPT ![w].valid = TRUE, ![w].etag = etag,
                    ![w].seen = IF active[w].pending = NoDoc THEN doc ELSE @]
    /\ Now(w, [step |-> IF active[w].pending = NoDoc THEN "rebuild" ELSE "reupload", for |-> "change"])
    /\ UNCHANGED <<doc, etag, uploaded, blocked, users, files>>
\* A new lease; only one for the version that the server knows is of use.
Reacquire(w) ==
    /\ Step(w, "reacquire")
    /\ \/ Answered /\ Grantable /\ leased' = w /\ active[w].etag = etag /\ UNCHANGED blocked
          /\ active' = [active EXCEPT ![w].valid = TRUE, ![w].seen = IF active[w].pending = NoDoc THEN doc ELSE @]
          /\ Now(w, [step |-> IF active[w].pending = NoDoc THEN "rebuild" ELSE "reupload", for |-> "change"])
       \/ Answered /\ Grantable /\ leased' = w /\ active[w].etag # etag /\ Now(w, Free)
          /\ active' = [active EXCEPT ![w].valid = TRUE, ![w].etag = etag, ![w].alien = TRUE,
                            ![w].block = "conflict", ![w].doomed = TRUE]
          /\ blocked' = [blocked EXCEPT ![w] = "conflict"]
       \/ /\ Answered /\ ~Grantable /\ Now(w, Free) /\ UNCHANGED <<leased, blocked>>
          /\ active' = [active EXCEPT ![w].block = IF doc = NoDoc THEN @ ELSE "taken"]
       \/ Fault /\ Now(w, Free) /\ leased' \in {leased, IF Grantable THEN w ELSE leased}
          /\ UNCHANGED <<active, blocked>>
    /\ UNCHANGED <<doc, etag, uploaded, users, files>>

Reupload(w) ==
    /\ Step(w, "reupload")
    /\ \/ Answered /\ Answer(w) = "ok" /\ Store(w)
          /\ active' = [active EXCEPT ![w].etag = etag + 1, ![w].seen = active[w].pending, ![w].pending = NoDoc,
                            ![w].alien = FALSE, ![w].block = "none", ![w].gone = FALSE]
          /\ Recovered(w) /\ UNCHANGED blocked
       \/ Answered /\ Answer(w) = "stale" /\ MarkBlocked(w, "conflict") /\ Now(w, Free) /\ UNCHANGED <<service, users>>
       \/ Answered /\ Answer(w) \in {"gone", "missing"} /\ UNCHANGED <<service, users>>
          /\ Uncertain(w, Answer(w) = "gone") /\ Now(w, Free)
       \/ Fault /\ StillUncertain(w) /\ (UNCHANGED service \/ (Answer(w) = "ok" /\ Store(w)))
    /\ UNCHANGED files

Rebuild(w) ==
    /\ Step(w, "rebuild")
    /\ \/ /\ Answered /\ Replaced(w)
          /\ active' = [active EXCEPT ![w].alien = FALSE, ![w].block = "none", ![w].gone = FALSE]
          /\ Recovered(w)
       \/ /\ Unfit(w)
          /\ active' = [active EXCEPT ![w].block = "failed"]
          /\ Now(w, [step |-> "release", request |-> FALSE]) /\ UNCHANGED <<local, left, users>>
    /\ UNCHANGED <<service, blocked, enrolled, written, abandoned>>

(***************************************************************************)
(* commitSettled, heartbeats and release.                                  *)
(***************************************************************************)
Normalized(w) == local[w]

\* Who settles: a change, the agent, or a request.  The turn left is settled too.
Settling(w, by) ==
    /\ \/ by = "change" /\ change[w] = "settle" /\ change' = [change EXCEPT ![w] = "none"] /\ UNCHANGED <<settle, finish>>
       \/ by = "agent" /\ settle[w] /\ settle' = [settle EXCEPT ![w] = FALSE] /\ UNCHANGED <<change, finish>>
       \/ by = "request" /\ finish[w] /\ finish' = [finish EXCEPT ![w] = FALSE] /\ UNCHANGED <<change, settle>>
    /\ left' = [left EXCEPT ![w] = @ /\ ~active[w].held]

\* A request whose settlement fails gives the lease up.
Fails(w, request) == giveUp' = [giveUp EXCEPT ![w] = @ \/ request]

\* Mutant: an uncertain lease is noticed before the content is taken.
CommitCertain(w) ==
    /\ Idle(w)
    /\ \E by \in {"change", "agent", "request"} :
        /\ Settling(w, by)
        /\ IF ~active[w].held \/ active[w].block # "none"
           THEN UNCHANGED <<active, job>> /\ Fails(w, by = "request" /\ active[w].held)
           ELSE /\ active' = [active EXCEPT ![w].pending = local[w]]
                /\ Now(w, [step |-> IF active[w].seen = local[w] THEN "release" ELSE "upload", request |-> by = "request"])
                /\ UNCHANGED giveUp
    /\ UNCHANGED <<service, blocked, turn, scenario, local, enrolled, written, abandoned, faults>>
\* The settled content is what is to be uploaded, whatever became of the lease.
Commit(w) ==
    /\ Idle(w)
    /\ \E by \in {"change", "agent", "request"} :
        /\ Settling(w, by)
        /\ \/ Answered /\ ~active[w].held /\ UNCHANGED <<active, blocked, job, giveUp>>
           \/ /\ Answered /\ active[w].held /\ UNCHANGED blocked
              /\ active' = [active EXCEPT ![w].pending = Normalized(w)]
              /\ IF active[w].block # "none" THEN UNCHANGED job /\ Fails(w, by = "request")
                 ELSE /\ Now(w, [step |-> IF active[w].seen = local[w] THEN "release" ELSE "upload",
                                 request |-> by = "request"])
                      /\ UNCHANGED giveUp
           \/ Fault /\ active[w].held /\ MarkBlocked(w, "failed") /\ UNCHANGED job /\ Fails(w, by = "request")
    /\ UNCHANGED <<service, turn, scenario, local, enrolled, written, abandoned>>

Upload(w) ==
    /\ Step(w, "upload")
    /\ \/ Answered /\ Answer(w) = "ok" /\ Store(w) /\ UNCHANGED <<blocked, giveUp>>
          /\ active' = [active EXCEPT ![w].etag = etag + 1, ![w].seen = active[w].pending, ![w].pending = NoDoc,
                            ![w].alien = FALSE]
          /\ Now(w, [step |-> "release", request |-> job[w].request])
       \/ /\ \/ Answered /\ Answer(w) \in {"stale", "missing"} /\ UNCHANGED service
                /\ MarkBlocked(w, IF doc = NoDoc THEN "missing" ELSE "conflict")
             \/ Answered /\ Answer(w) = "gone" /\ UNCHANGED service /\ Uncertain(w, active[w].gone)
             \/ Fault /\ Uncertain(w, active[w].gone) /\ (UNCHANGED service \/ (Answer(w) = "ok" /\ Store(w)))
          /\ Now(w, Free) /\ Fails(w, job[w].request)
    /\ UNCHANGED <<change, turn, settle, finish, scenario, files>>

Release(w) ==
    /\ Step(w, "release")
    /\ \/ Released(w, Free) /\ UNCHANGED giveUp
       \/ Unreleased(w, FALSE, Free) /\ Fails(w, job[w].request)
    /\ UNCHANGED <<blocked, change, turn, settle, finish, scenario, files>>

\* release(): of a failed change, a refused prompt, a failed settlement of a
\* request, or a refresh.  What is still to be uploaded is dropped.
GiveUp(w) ==
    /\ Idle(w)
    /\ \/ change[w] = "abandon" /\ change' = [change EXCEPT ![w] = "none"] /\ UNCHANGED giveUp
       \/ giveUp[w] /\ giveUp' = [giveUp EXCEPT ![w] = FALSE] /\ UNCHANGED change
    /\ IF active[w].held THEN ReleaseCall(w, FALSE) ELSE UNCHANGED <<service, active, job, faults>>
    /\ abandoned' = [abandoned EXCEPT ![w] = IF active[w].held /\ active[w].pending # NoDoc
                                                THEN @ \cup (active[w].pending \ uploaded) ELSE @]
    /\ UNCHANGED <<blocked, turn, settle, finish, scenario, local, enrolled, written, left>>

\* The release queued by _markBlocked.
ReleaseDoomed(w) ==
    /\ Idle(w) /\ Doomed(w)
    /\ ReleaseCall(w, TRUE) /\ UNCHANGED <<blocked, users, files>>

\* The interval queues heartbeats whatever else waits.
Beats(w) == Idle(w) /\ active[w].held

\* Mutant: a lease to be released is renewed first of all.
HeartbeatKeeps(w) ==
    /\ Beats(w) /\ active[w].releasePending /\ Now(w, [step |-> "beat"])
    /\ UNCHANGED <<service, active, blocked, users, files, faults>>
\* Heartbeat of a lease to be released; if that fails it renews.
HeartbeatRelease(w) ==
    /\ Beats(w) /\ active[w].releasePending
    /\ Released(w, Free) \/ Unreleased(w, FALSE, [step |-> "beat"])
    /\ UNCHANGED <<blocked, users, files>>

\* Renewed, the lease is certain again, and what is pending can be uploaded.
Heartbeat(w) ==
    /\ (Beats(w) /\ ~active[w].releasePending) \/ Step(w, "beat")
    /\ LET a == active[w]
           block == IF a.block = "uncertain" /\ ~a.releasePending THEN "none" ELSE a.block
       IN
       \/ Answered /\ Answer(w) = "ok"
          /\ active' = [active EXCEPT ![w].block = block]
          /\ Now(w, IF a.pending # NoDoc /\ block = "none" THEN [step |-> "upload", request |-> FALSE] ELSE Free)
          /\ UNCHANGED blocked
       \/ Answered /\ Answer(w) \in {"stale", "missing"}
          /\ MarkBlocked(w, IF doc = NoDoc THEN "missing" ELSE "conflict") /\ Now(w, Free)
       \/ /\ (Answered /\ Answer(w) = "gone") \/ Fault
          /\ active' = [active EXCEPT ![w].block = "uncertain",
                            ![w].gone = Answer(w) = "gone" /\ faults' = faults]
          /\ Now(w, Free) /\ UNCHANGED blocked
    /\ UNCHANGED <<service, users, files>>

(***************************************************************************)
(* Enrolment.                                                              *)
(***************************************************************************)
EnrolAsked(w) == Idle(w) /\ turn[w] = "no" /\ (scenario.overlap \/ (change[w] = "none" /\ ~Doomed(w)))

\* The list of conversations may be two seconds old.
Listed == etag > 0

MarkEnrolled(w) == enrolled' = [enrolled EXCEPT ![w] = TRUE]

\* Asked for by the user; with AllConversations also by reconcile and by the
\* first change.  The service has the conversation, or had when it was last
\* listed: what only this server has is given up.
EnrolKnown(w) ==
    /\ EnrolAsked(w) /\ Listed /\ MarkEnrolled(w)
    /\ blocked' = [blocked EXCEPT ![w] = "none"]
    /\ abandoned' = [abandoned EXCEPT ![w] = @ \cup (local[w] \ uploaded)]
    /\ UNCHANGED <<service, active, job, users, local, written, left, faults>>

\* The local copy is uploaded; unasked only if it never was.
EnrolNew(w) ==
    /\ EnrolAsked(w) /\ doc = NoDoc
    /\ \/ Answered /\ MarkEnrolled(w) /\ blocked' = [blocked EXCEPT ![w] = "none"]
       \/ Fault /\ UNCHANGED <<enrolled, blocked>>
    /\ doc' = local[w] /\ etag' = etag + 1 /\ uploaded' = uploaded \cup local[w]
    /\ UNCHANGED <<leased, active, job, users, local, written, abandoned, left>>

(***************************************************************************)
(* Changes, the agent, and what goes wrong.                                *)
(***************************************************************************)
WriteEntry(w) ==
    /\ change[w] \in {"run", "local"} \/ turn[w] # "no"
    /\ written < MaxEntries /\ written' = written + 1
    /\ local' = [local EXCEPT ![w] = @ \cup {written + 1}]
    /\ UNCHANGED <<service, active, blocked, job, users, enrolled, abandoned, left, faults>>

ChangeEnds(w) ==
    /\ change[w] \in {"run", "local"}
    /\ \/ /\ change' = [change EXCEPT ![w] = IF @ = "run" THEN "settle" ELSE "none"]
          /\ UNCHANGED <<abandoned, faults>>
       \/ /\ Fault /\ change' = [change EXCEPT ![w] = IF @ = "run" THEN "abandon" ELSE "none"]
          /\ abandoned' = [abandoned EXCEPT ![w] = @ \cup (local[w] \ uploaded)]
    /\ UNCHANGED <<service, active, blocked, job, turn, settle, finish, giveUp, scenario, local, enrolled, written, left>>

\* The end of a turn is settled, but not if the turn ended in an error or the
\* session still streams when it is told.
TurnEnds(w) ==
    /\ turn[w] # "no" /\ turn' = [turn EXCEPT ![w] = "no"]
    /\ \/ settle' = [settle EXCEPT ![w] = TRUE] /\ UNCHANGED left
       \/ left' = [left EXCEPT ![w] = @ \/ turn[w] = "leased"] /\ UNCHANGED settle
    /\ UNCHANGED <<service, active, blocked, job, change, finish, giveUp, scenario, local, enrolled, written, abandoned, faults>>

Restart(w) ==
    /\ Fault
    /\ active' = [active EXCEPT ![w] = NoLease] /\ blocked' = [blocked EXCEPT ![w] = "none"]
    /\ Now(w, Free)
    /\ change' = [change EXCEPT ![w] = "none"] /\ turn' = [turn EXCEPT ![w] = "no"]
    /\ settle' = [settle EXCEPT ![w] = FALSE] /\ finish' = [finish EXCEPT ![w] = FALSE]
    /\ giveUp' = [giveUp EXCEPT ![w] = FALSE] /\ left' = [left EXCEPT ![w] = FALSE]
    /\ abandoned' = [abandoned EXCEPT ![w] = @ \cup (local[w] \ uploaded)]
    /\ UNCHANGED <<service, scenario, local, enrolled, written>>

Invalid(S) == active' = [w \in Web |-> IF w \in S /\ active[w].held THEN [active[w] EXCEPT !.valid = FALSE] ELSE active[w]]

\* A lease that nobody renews runs out; so may another, after a long delay.
Stranded == leased \in Web /\ ~(active[leased].held /\ active[leased].valid)
Expire ==
    /\ leased \in Web /\ leased' = NoWeb /\ Invalid({leased})
    /\ IF Stranded THEN Answered ELSE Fault
    /\ UNCHANGED <<doc, etag, uploaded, blocked, job, users, files>>

Delete ==
    /\ Fault /\ doc # NoDoc /\ doc' = NoDoc /\ leased' = NoWeb /\ Invalid(Web)
    /\ UNCHANGED <<etag, uploaded, blocked, job, users, files>>

\* Another client leases the conversation, adds to it, and gives the lease back.
PeerStep ==
    /\ doc # NoDoc
    /\ \/ leased = NoWeb /\ leased' = Peer /\ UNCHANGED <<doc, etag, uploaded, written>>
       \/ leased = Peer /\ leased' = NoWeb /\ UNCHANGED <<doc, etag, uploaded, written>>
       \/ /\ leased = Peer /\ written < MaxEntries /\ written' = written + 1
          /\ doc' = doc \cup {written + 1} /\ uploaded' = uploaded \cup {written + 1}
          /\ etag' = etag + 1 /\ UNCHANGED leased
    /\ UNCHANGED <<active, blocked, job, users, local, enrolled, abandoned, left, faults>>

Work(w) ==
    \/ Acquire(w) \/ Materialize(w) \/ Renew(w) \/ Resend(w) \/ Reacquire(w) \/ Reupload(w) \/ Rebuild(w)
    \/ Commit(w) \/ Upload(w) \/ Release(w) \/ GiveUp(w) \/ ReleaseDoomed(w) \/ HeartbeatRelease(w) \/ Heartbeat(w)

Asked(w) ==
    \/ Recover(w) \/ EnrolKnown(w) \/ EnrolNew(w) \/ WriteEntry(w) \/ ChangeEnds(w) \/ TurnEnds(w) \/ Restart(w)
    \/ \E k \in Kinds : ReleaseFirst(w, k) \/ Join(w, k) \/ Unmanaged(w, k) \/ Ask(w, k)

Next == Expire \/ Delete \/ PeerStep \/ \E w \in Web : Work(w) \/ Asked(w)

Spec == Init /\ [][Next]_vars

\* Tasks enter _exclusive in the order in which they were queued, so each has
\* its turn; heartbeats come again and again.
Fairness ==
    /\ WF_vars(Expire /\ Stranded)
    /\ \A w \in Web :
        /\ WF_vars(Work(w) /\ ~Idle(w))
        /\ SF_vars(Commit(w)) /\ SF_vars(GiveUp(w)) /\ SF_vars(ReleaseDoomed(w))
        /\ SF_vars(HeartbeatRelease(w) \/ Heartbeat(w))

FairSpec == Spec /\ Fairness

(***************************************************************************)
(* Properties.                                                             *)
(***************************************************************************)
Canonical == INSTANCE CanonicalSession
    WITH Web <- Clients, mistaken <- {w \in Web : active[w].held /\ active[w].alien}
\* The coordinators and the service behave like the service's promise: only
\* the lease holder uploads, and no upload drops what another client uploaded.
\* The exception is the promise's: a lease taken anew for a version that the
\* server does not know, if a heartbeat then hides the conflict.
ImplementsCanonical == Canonical!Spec

\* Nothing is under way for the server, and it shows no error.
AtRest(w) ==
    /\ Idle(w) /\ change[w] = "none" /\ turn[w] = "no" /\ ~settle[w] /\ ~finish[w] /\ ~giveUp[w]
    /\ IF active[w].held THEN active[w].block = "none" /\ ~active[w].doomed ELSE blocked[w] = "none"

\* A server that synchronizes the conversation, reports no error and works on
\* nothing, whether it holds a lease or not, has uploaded every entry but
\* those given up: with a failed change, a failed settlement of a request, a
\* restart, or the user's consent to take the service's copy.  A turn that
\* ended without being settled is an exception until something settles it.
SettledUploaded ==
    ~scenario.overlap => \A w \in Web : AtRest(w) /\ enrolled[w] /\ ~left[w] => local[w] \subseteq uploaded \cup abandoned[w]

\* No server keeps the lease: whoever is done with the conversation gives the
\* lease back in the end, whatever calls were lost, unless its turn ended
\* without being settled.
LeaseReturned ==
    \A w \in Web : [](leased = w => <>(leased # w \/ change[w] # "none" \/ turn[w] # "no" \/ left[w]))

\* "A failed settlement retains the uncertain lease and pending envelope so a
\* later heartbeat can retry safely": what the service never had is not
\* dropped with the lease, unless an error is shown or the server restarts.
Unsent(w) == active[w].held /\ active[w].pending # NoDoc /\ ~(active[w].pending \subseteq uploaded)
SettlementRetained ==
    [][\A w \in Web : Unsent(w) /\ ~active'[w].held => blocked[w] # "none" \/ Restart(w)]_vars
=============================================================================
