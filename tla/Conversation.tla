---------------------------- MODULE Conversation ----------------------------
(***************************************************************************)
(* server/supervisor/real.js for one conversation synchronized by pi-sync: *)
(* its live runtime, the admission of prompts, bangs and sync commands,    *)
(* the replacement of the runtime by /sync, the reload of the Pi           *)
(* configuration, and the turns that outlive the request that started      *)
(* them.  The Pi SDK and the pi-sync extension are external: a turn ends   *)
(* or fails when it likes, a /sync command replaces the runtime or not.    *)
(* An action is the code between two awaits.                               *)
(***************************************************************************)
EXTENDS Integers, FiniteSets

CONSTANTS
    Runtime,     \* runtimes (sessions of the SDK); one is used again once gone
    NoRuntime,   \* "not attached"
    File,        \* session files, the snapshots of the conversation
    Req,         \* requests being served, prompts with their turn
    NoReq,       \* "no synchronization operation"
    Deployments  \* for each deployment, what happens in it

Kind == {"prompt", "followUp", "sync", "check", "bang", "read"}

ASSUME ConversationAssumption ==
    /\ NoRuntime \notin Runtime
    /\ NoReq \notin Req
    /\ IsFiniteSet(Req)
    /\ File # {}
    /\ \A d \in Deployments : d \subseteq Kind \cup {"move", "fail", "reload"}

VARIABLES
    live,       \* live.get(id)
    rt,         \* each runtime: what it opened, and where its turn is
    attaching,  \* attachPromises.get(id): where _attachByIdOnce is
    bound,      \* the binding's materializedFile; its hash is the snapshot token
    op,         \* syncOperations.get(id): the request that holds the operation
    pending,    \* pendingPrompts.get(id)
    reqs,       \* the requests, and the prompts in flight
    swap,       \* _replaceLiveSession, run by a /sync command
    reload,     \* the runtime reloadPiConfiguration disposes, or NoRuntime
    shown,      \* a turn_start went out with no turn_end after it
    ops         \* the deployment, which never changes

moving == <<live, rt, attaching, bound, op, pending, reqs, swap, reload, shown>>
vars == <<moving, ops>>

\* open: subscribed and not disposed; ended: turnEnded.
Session == [file : File, open : BOOLEAN, streaming : BOOLEAN, ended : BOOLEAN]
Attach == [at : {"none", "discover", "create"}, file : File]
Swap == [at : {"none", "before", "abort", "dispose", "create", "restore"},
         by : Req \cup {NoReq}, old : Runtime \cup {NoRuntime}, file : File]
\* token: the snapshot the sender saw; st: the runtime the handler captured;
\* before: the one beforePrompt captured; next: where it goes once attached.
Request == [pc : {"idle", "waiting", "joined", "attached", "handler", "handled", "assert",
                  "running", "submitted", "turn", "ended"},
            next : {"attached", "handler"}, kind : Kind, token : File,
            st : Runtime \cup {NoRuntime}, before : Runtime \cup {NoRuntime}]

TypeOK ==
    /\ live \in Runtime \cup {NoRuntime}
    /\ rt \in [Runtime -> Session]
    /\ attaching \in Attach
    /\ bound \in File
    /\ op \in Req \cup {NoReq}
    /\ pending \in Nat
    /\ reqs \in [Req -> Request]
    /\ swap \in Swap
    /\ reload \in Runtime \cup {NoRuntime}
    /\ shown \in BOOLEAN
    /\ ops \in Deployments

InFlight == {r \in Req : reqs[r].pc \in {"submitted", "turn", "ended"}}
Streaming == live # NoRuntime /\ rt[live].streaming     \* isStreaming(id)

AnyFile == CHOOSE f \in File : TRUE
Unborn == [file |-> AnyFile, open |-> FALSE, streaming |-> FALSE, ended |-> FALSE]
Born(f) == [file |-> f, open |-> TRUE, streaming |-> FALSE, ended |-> FALSE]
NotAttaching == [at |-> "none", file |-> AnyFile]
NoSwap == [at |-> "none", by |-> NoReq, old |-> NoRuntime, file |-> AnyFile]
IdleReq == [pc |-> "idle", next |-> "attached", kind |-> "read", token |-> AnyFile,
            st |-> NoRuntime, before |-> NoRuntime]

Init ==
    /\ ops \in Deployments
    /\ live = NoRuntime
    /\ rt = [x \in Runtime |-> Unborn]
    /\ attaching = NotAttaching
    /\ bound = AnyFile
    /\ op = NoReq
    /\ pending = 0
    /\ reqs = [r \in Req |-> IdleReq]
    /\ swap = NoSwap
    /\ reload = NoRuntime
    /\ shown = FALSE

Go(r, pc) == [reqs EXCEPT ![r].pc = pc]
\* withSyncOperation's finally.
Released(r) == IF op = r THEN NoReq ELSE op
\* The request is answered.
Finish(r) == reqs' = [reqs EXCEPT ![r] = IdleReq] /\ op' = Released(r)

\* Runtimes nothing refers to: they do nothing any more, and their identity and
\* what they were is forgotten when the next runtime is created.
Free == {x \in Runtime \ {live, reload, swap.old} :
           \A r \in Req : reqs[r].st # x /\ reqs[r].before # x}
NewRuntime == CHOOSE x \in Free : TRUE

-----------------------------------------------------------------------------
(* Attaching: _attachById answers at once when the conversation is live,   *)
(* else it joins the attach in flight or starts one.                       *)

Has(q, x, next) == [q EXCEPT !.pc = next, !.st = IF next = "attached" THEN x ELSE @]
AttachById(r, q, next) ==
    IF live # NoRuntime
    THEN reqs' = [reqs EXCEPT ![r] = Has(q, live, next)] /\ UNCHANGED attaching
    ELSE /\ reqs' = [reqs EXCEPT ![r] = [q EXCEPT !.pc = "joined", !.next = next]]
         /\ attaching' = IF attaching.at = "none" THEN [attaching EXCEPT !.at = "discover"]
                         ELSE attaching

\* All who joined the attach go on with its runtime.
Attached(x) ==
    /\ reqs' = [r \in Req |-> IF reqs[r].pc = "joined" THEN Has(reqs[r], x, reqs[r].next) ELSE reqs[r]]
    /\ attaching' = NotAttaching

\* _discover has answered: _attach looks again whether the conversation is
\* live, and opens the file the binding names.
Discovered ==
    /\ attaching.at = "discover"
    /\ IF live # NoRuntime THEN Attached(live)
       ELSE attaching' = [at |-> "create", file |-> bound] /\ UNCHANGED reqs
    /\ UNCHANGED <<live, rt, bound, op, pending, swap, reload, shown>>

\* _registerLiveSession overwrites what is registered.
Register(f) ==
    /\ Free # {}
    /\ rt' = [x \in Runtime |-> IF x = NewRuntime THEN Born(f)
                              ELSE IF x \in Free THEN Unborn ELSE rt[x]]
    /\ live' = NewRuntime

AttachDone ==
    /\ attaching.at = "create"
    /\ Register(attaching.file)
    /\ Attached(NewRuntime)
    /\ UNCHANGED <<bound, op, pending, swap, reload, shown>>

\* beforePrompt swallows a failed command and the prompt goes on as if unswitched.
Unswitched(q) == [q EXCEPT !.pc = "assert", !.before = NoRuntime]
Survives(r) == reqs[r].next = "handler" /\ reqs[r].kind = "prompt"
AttachFails ==
    /\ "fail" \in ops
    /\ attaching.at = "create"
    /\ attaching' = NotAttaching
    /\ reqs' = [r \in Req |-> IF reqs[r].pc # "joined" THEN reqs[r]
                              ELSE IF Survives(r) THEN Unswitched(reqs[r]) ELSE IdleReq]
    /\ op' = IF op # NoReq /\ reqs[op].pc = "joined" /\ ~Survives(op) THEN NoReq ELSE op
    /\ UNCHANGED <<live, rt, bound, pending, swap, reload, shown>>

-----------------------------------------------------------------------------
(* Admission: one operation at a time, and none while a prompt is queued   *)
(* and its turn has not started.                                           *)

Send(r, k) ==
    /\ reqs[r].pc = "idle"
    /\ k \in ops
    /\ reqs' = [reqs EXCEPT ![r] = [IdleReq EXCEPT !.pc = "waiting", !.kind = k, !.token = bound]]
    /\ UNCHANGED <<live, rt, attaching, bound, op, pending, swap, reload, shown>>

Queued == pending > 0 /\ ~Streaming     \* a prompt neither streams nor is settled
\* assertSnapshot: the token is of another snapshot, or the file of another one.
Stale(token, file) == token # bound \/ file # bound
StaleHere(r) == Stale(reqs[r].token, IF live # NoRuntime THEN rt[live].file ELSE bound)

\* withSyncOperation, and withAdmission's check of the snapshot for a message
\* or a bang; trySyncOperation for an automatic check, which never waits.
AdmissibleAnyway(r) == op = NoReq /\ ~Queued    \* mutated: a check is admitted like the rest
Admissible(r) ==
    /\ op = NoReq /\ ~Queued
    /\ reqs[r].kind = "check" => pending = 0 /\ ~Streaming
Admit(r) ==
    /\ reqs[r].pc = "waiting" /\ reqs[r].kind # "read"
    /\ Admissible(r)
    /\ reqs[r].kind \in {"sync", "check"} \/ ~StaleHere(r)
    /\ op' = r
    /\ IF reqs[r].kind = "bang" THEN reqs' = Go(r, "running") /\ UNCHANGED attaching
       ELSE AttachById(r, reqs[r], "attached")
    /\ UNCHANGED <<live, rt, bound, pending, swap, reload, shown>>

\* Refused: busy after 15 s of waiting for the operation (an automatic check at
\* once), busy with a queued prompt, or stale.
Refuse(r) ==
    /\ reqs[r].pc = "waiting" /\ reqs[r].kind # "read"
    /\ \/ op # NoReq
       \/ ~Admissible(r)
       \/ reqs[r].kind \in {"prompt", "followUp", "bang"} /\ StaleHere(r)
    /\ Finish(r)
    /\ UNCHANGED <<live, rt, attaching, bound, pending, swap, reload, shown>>

\* GET /commands attaches without an operation.
Read(r) ==
    /\ reqs[r].pc = "waiting" /\ reqs[r].kind = "read"
    /\ AttachById(r, reqs[r], "attached")
    /\ UNCHANGED <<live, rt, bound, op, pending, swap, reload, shown>>

\* A bang ran, its record is appended to the conversation and the request ends;
\* so does a read that is attached.
Done(r) ==
    /\ \/ reqs[r].pc = "running"
       \/ reqs[r].pc = "attached" /\ reqs[r].kind = "read"
    /\ Finish(r)
    /\ UNCHANGED <<live, rt, attaching, bound, pending, swap, reload, shown>>

\* message() and command() look again once attached.
Busy(r) ==
    /\ reqs[r].pc = "attached" /\ reqs[r].kind # "read"
    /\ pending > 0 /\ ~rt[reqs[r].st].streaming
    /\ Finish(r)
    /\ UNCHANGED <<live, rt, attaching, bound, pending, swap, reload, shown>>

StillFree(r) == reqs[r].pc = "attached" /\ (pending = 0 \/ rt[reqs[r].st].streaming)

-----------------------------------------------------------------------------
(* The /sync command: by itself, as the automatic check, or as the         *)
(* reconciliation beforePrompt makes ahead of a prompt.                    *)

BeforePrompt(r) ==
    /\ StillFree(r) /\ reqs[r].kind = "prompt"
    /\ AttachById(r, [reqs[r] EXCEPT !.before = live], "handler")
    /\ UNCHANGED <<live, rt, bound, op, pending, swap, reload, shown>>

Command(r) ==
    /\ StillFree(r) /\ reqs[r].kind \in {"sync", "check"}
    /\ reqs' = Go(r, "handler")
    /\ UNCHANGED <<live, rt, attaching, bound, op, pending, swap, reload, shown>>

\* The handler replaces the runtime: by a new one on the same file (a catch-up)
\* or on another ("move").  pi-sync may record the file before or after.
SwitchSession(r, f) ==
    /\ reqs[r].pc = "handler" /\ swap.at = "none"
    /\ live # NoRuntime /\ ~Streaming
    /\ f = bound \/ "move" \in ops
    /\ swap' = [at |-> "before", by |-> r, old |-> live, file |-> f]
    /\ bound' \in {bound, f}
    /\ UNCHANGED <<live, rt, attaching, op, pending, reqs, reload, shown>>

\* After session_before_switch: a turn that began is aborted and awaited.
SwapBegins ==
    /\ swap.at = "before"
    /\ swap' = [swap EXCEPT !.at = IF rt[swap.old].streaming THEN "abort" ELSE "dispose"]
    /\ UNCHANGED <<live, rt, attaching, bound, op, pending, reqs, reload, shown>>

SwapAborted ==
    /\ swap.at = "abort" /\ ~rt[swap.old].streaming
    /\ swap' = [swap EXCEPT !.at = "dispose"]
    /\ UNCHANGED <<live, rt, attaching, bound, op, pending, reqs, reload, shown>>

Disposed(x) == rt' = [rt EXCEPT ![x].open = FALSE]
SwapDetaches ==
    /\ swap.at = "dispose"
    /\ Disposed(swap.old)
    /\ live' = NoRuntime
    /\ swap' = [swap EXCEPT !.at = "create"]
    /\ UNCHANGED <<attaching, bound, op, pending, reqs, reload, shown>>

SwapRegisters ==
    /\ swap.at = "create"
    /\ Register(swap.file)
    /\ bound' = swap.file
    /\ reqs' = Go(swap.by, "handled")
    /\ swap' = NoSwap
    /\ shown' = FALSE      \* session_switched: the browser loads the transcript anew
    /\ UNCHANGED <<attaching, op, pending, reload>>

\* The replacement cannot be created: the conversation is attached again on its
\* old file, unless it is live or that fails too, and the command throws.
SwapFails ==
    /\ "fail" \in ops
    /\ swap.at = "create"
    /\ swap' = [swap EXCEPT !.at = "restore"]
    /\ live' = NoRuntime
    /\ UNCHANGED <<rt, attaching, bound, op, pending, reqs, reload, shown>>

ThrowsHolding(r) ==       \* mutated Throws: the operation is released on success only
    IF reqs[r].kind = "prompt" THEN reqs' = [reqs EXCEPT ![r] = Unswitched(@)] /\ UNCHANGED op
    ELSE reqs' = [reqs EXCEPT ![r] = IdleReq] /\ UNCHANGED op
Throws(r) ==
    IF reqs[r].kind = "prompt" THEN reqs' = [reqs EXCEPT ![r] = Unswitched(@)] /\ UNCHANGED op
    ELSE Finish(r)
SwapRestores ==
    /\ swap.at = "restore"
    /\ \/ live = NoRuntime /\ Register(rt[swap.old].file)
       \/ UNCHANGED <<live, rt>>
    /\ Throws(swap.by)
    /\ swap' = NoSwap
    /\ UNCHANGED <<attaching, bound, pending, reload, shown>>

\* The runtime a reconciled prompt goes to: the new one when it was switched.
PromptedFirst(r) == reqs[r].st       \* mutated Prompted: not attached again
Prompted(r) == IF live \notin {NoRuntime, reqs[r].before} THEN live ELSE reqs[r].st

\* The handler ends, having replaced the runtime or not, or throws.
HandlerEnds(r) ==
    /\ \/ reqs[r].pc = "handler" /\ swap.by # r
       \/ reqs[r].pc = "handled"
    /\ IF reqs[r].kind # "prompt" THEN Finish(r)
       ELSE reqs' = [reqs EXCEPT ![r] = [Unswitched(@) EXCEPT !.st = Prompted(r)]] /\ UNCHANGED op
    /\ UNCHANGED <<live, rt, attaching, bound, pending, swap, reload, shown>>

-----------------------------------------------------------------------------
(* A message is given to the SDK: a follow-up joins the running turn, all  *)
(* else starts a prompt, which outlives the request and its operation.     *)

Count(n) == pending' = pending + n
Submit(r) ==
    /\ reqs' = Go(r, "submitted")
    /\ op' = Released(r)
    /\ Count(1)

PromptUnchecked(r) ==      \* mutated Prompt: the snapshot is not looked at again
    /\ reqs[r].pc = "assert"
    /\ Submit(r)
    /\ UNCHANGED <<live, rt, attaching, bound, swap, reload, shown>>
Prompt(r) ==
    /\ reqs[r].pc = "assert"
    /\ IF Stale(reqs[r].token, rt[reqs[r].st].file) THEN Finish(r) /\ UNCHANGED pending
       ELSE Submit(r)
    /\ UNCHANGED <<live, rt, attaching, bound, swap, reload, shown>>

FollowUp(r) ==
    /\ StillFree(r) /\ reqs[r].kind = "followUp"
    /\ IF rt[reqs[r].st].streaming THEN Finish(r) /\ UNCHANGED pending ELSE Submit(r)
    /\ UNCHANGED <<live, rt, attaching, bound, swap, reload, shown>>

-----------------------------------------------------------------------------
(* The SDK's turns and _onEvent, which a disposed runtime no longer calls. *)

\* agent_start
StartedStale(s) == [s EXCEPT !.streaming = TRUE]        \* mutated: turnEnded is not reset
Started(s) == [s EXCEPT !.streaming = TRUE, !.ended = @ /\ ~s.open]
TurnStarts(r) ==
    /\ reqs[r].pc \in {"submitted", "ended"}
    /\ LET x == reqs[r].st IN
       /\ ~rt[x].streaming
       /\ ~(swap.at = "abort" /\ swap.old = x)
       /\ rt' = [rt EXCEPT ![x] = Started(@)]
       /\ shown' = (shown \/ rt[x].open)
    /\ reqs' = Go(r, "turn")
    /\ UNCHANGED <<live, attaching, bound, op, pending, swap, reload>>

\* agent_end, or _endTurnWithError: turn_end goes out once per turn.
EndTurn(x, streaming) ==
    /\ rt' = [rt EXCEPT ![x].streaming = streaming, ![x].ended = TRUE]
    /\ shown' = (shown /\ rt[x].ended)

AgentEnd(r) ==
    /\ reqs[r].pc = "turn"
    /\ LET x == reqs[r].st IN
       IF rt[x].open THEN EndTurn(x, FALSE)
       ELSE rt' = [rt EXCEPT ![x].streaming = FALSE] /\ UNCHANGED shown
    /\ reqs' = Go(r, "ended")
    /\ UNCHANGED <<live, attaching, bound, op, pending, swap, reload>>

\* The model reports an error while the turn goes on.
TurnFails(r) ==
    /\ reqs[r].pc = "turn" /\ rt[reqs[r].st].open
    /\ EndTurn(reqs[r].st, TRUE)
    /\ UNCHANGED <<live, attaching, bound, op, pending, reqs, swap, reload>>

\* prompt() resolves after its turns, or without one when a handler took it.
Settle(r) ==
    /\ reqs[r].pc \in {"submitted", "ended"}
    /\ reqs[r].pc = "submitted" => ~rt[reqs[r].st].streaming
    /\ Count(-1)
    /\ reqs' = [reqs EXCEPT ![r] = IdleReq]
    /\ UNCHANGED <<live, rt, attaching, bound, op, swap, reload, shown>>

RejectUncounted(r) ==      \* mutated Reject: no "finally"
    /\ r \in InFlight
    /\ EndTurn(reqs[r].st, rt[reqs[r].st].streaming /\ reqs[r].pc # "turn")
    /\ reqs' = [reqs EXCEPT ![r] = IdleReq]
    /\ UNCHANGED <<live, attaching, bound, op, pending, swap, reload>>
\* prompt() rejects: while another prompt streams, before its turn, or out of it.
Reject(r) ==
    /\ r \in InFlight
    /\ Count(-1)
    /\ EndTurn(reqs[r].st, rt[reqs[r].st].streaming /\ reqs[r].pc # "turn")
    /\ reqs' = [reqs EXCEPT ![r] = IdleReq]
    /\ UNCHANGED <<live, attaching, bound, op, swap, reload>>

-----------------------------------------------------------------------------
(* reloadPiConfiguration: refused while a turn runs, else the live runtime *)
(* is disposed, and what was registered meanwhile after it; the map is     *)
(* cleared and the conversation attached again if the caller names it.     *)

ReloadStarts ==
    /\ "reload" \in ops
    /\ reload = NoRuntime
    /\ live # NoRuntime /\ ~Streaming
    /\ reload' = live
    /\ UNCHANGED <<live, rt, attaching, bound, op, pending, reqs, swap, shown>>

ReloadDisposes ==
    /\ reload # NoRuntime
    /\ Disposed(reload)
    /\ IF live \in {NoRuntime, reload}
       THEN /\ live' = NoRuntime /\ reload' = NoRuntime
            /\ \/ attaching.at = "none" /\ attaching' = [attaching EXCEPT !.at = "discover"]
               \/ UNCHANGED attaching
       ELSE UNCHANGED <<live, attaching>> /\ reload' = live
    /\ UNCHANGED <<bound, op, pending, reqs, swap, shown>>

-----------------------------------------------------------------------------

RequestStep(r) ==
    \/ Admit(r) \/ Refuse(r) \/ Read(r) \/ Done(r) \/ Busy(r)
    \/ BeforePrompt(r) \/ Command(r) \/ HandlerEnds(r) \/ Prompt(r) \/ FollowUp(r)

SwapStep == SwapBegins \/ SwapAborted \/ SwapDetaches \/ SwapRegisters \/ SwapFails \/ SwapRestores

AttachStep == Discovered \/ AttachDone \/ AttachFails

Step ==
    \/ \E r \in Req : RequestStep(r) \/ \E k \in Kind : Send(r, k)
    \/ \E r \in Req, f \in File : SwitchSession(r, f)
    \/ SwapStep \/ AttachStep
    \/ \E r \in Req : TurnStarts(r) \/ AgentEnd(r) \/ TurnFails(r) \/ Settle(r) \/ Reject(r)
    \/ ReloadStarts \/ ReloadDisposes

Next == Step /\ UNCHANGED ops

\* The server's own steps are taken, a /sync command and a shell command end, and
\* an aborted turn ends.  A turn left alone may last for ever.
Fairness ==
    /\ \A r \in Req : WF_moving(RequestStep(r) /\ UNCHANGED ops)
    /\ \A r \in Req : WF_moving(swap.at = "abort" /\ AgentEnd(r) /\ UNCHANGED ops)
    /\ WF_moving(SwapStep /\ UNCHANGED ops)
    /\ WF_moving(AttachStep /\ UNCHANGED ops)
    /\ WF_moving(ReloadDisposes /\ UNCHANGED ops)

Spec == Init /\ [][Next]_vars /\ Fairness

-----------------------------------------------------------------------------
(* Properties.                                                             *)

\* pendingPrompts counts the prompts that are not settled: busy() (real.js:1267),
\* by which workspaced keeps the worker awake, never forgets one and never keeps
\* one for ever.
PendingExact == pending = Cardinality(InFlight)

\* An automatic check replaces the runtime only while no prompt is queued or in a
\* turn and no bang runs, up to the registration of the new one
\* (docs/plans/pi-sync-web-refresh.md:23).
RefreshAlone ==
    swap.at # "none" /\ reqs[swap.by].kind = "check" =>
        /\ InFlight = {}
        /\ \A r \in Req : reqs[r].pc # "running"

\* A prompt runs on the snapshot its sender saw, even when the reconciliation ahead
\* of it replaced the runtime; so does a follow-up, which is not looked at again once
\* attached (real.js:719), while no configuration is reloaded and nothing fails; and
\* the snapshot does not change under a bang up to its record
\* (docs/plans/pi-sync-web-refresh.md:31).
SnapshotRespected ==
    \A r \in Req :
        /\ r \in InFlight /\ (reqs[r].kind = "prompt" \/ ops \cap {"reload", "fail"} = {}) =>
             rt[reqs[r].st].file = reqs[r].token
        /\ reqs[r].pc = "running" => bound = reqs[r].token

\* A prompt is given to the runtime that is live ("Recheck the current runtime
\* before acting", docs/plans/pi-sync-web-refresh.md:23).
PromptOnLive == [][\A r \in Req : r \notin InFlight /\ r \in InFlight' => reqs'[r].st = live]_vars

\* ... as long as no replacement fails, no configuration is reloaded and nobody
\* lists the commands while the runtime is replaced.
PromptOnLiveQuietly ==
    [][ops \cap {"fail", "reload", "read"} = {} =>
         \A r \in Req : r \notin InFlight /\ r \in InFlight' => reqs'[r].st = live]_vars

\* Whatever ends a turn, its turn_end goes out, or session_switched instead: the
\* browser shows a turn only while one runs (_onEvent, _endTurnWithError), unless a
\* replacement is on its way, one failed, or a reload cut in.
TurnClosed ==
    ops \cap {"fail", "reload"} = {} /\ swap.at = "none" /\ shown =>
        \E r \in Req : reqs[r].pc = "turn"

\* Every operation ends and lets the next one in (docs/plans/pi-sync-web-refresh.md:25,
\* "no request deadlocks").
OperationEnds == op # NoReq ~> op = NoReq
=============================================================================
