----------------------------- MODULE Operations -----------------------------
(***************************************************************************)
(* One run of a project's hook: its processes, the operation the server    *)
(* reports it by, the events and the answer that tell the page of it, and  *)
(* what the page shows.  server/hooks.js, server/operations.js,            *)
(* server/routes/hooks.js, public/js/operations.js, panel-utils.js.        *)
(***************************************************************************)
EXTENDS Naturals, Sequences, SequencesExt

CONSTANTS
    MaxKept,    \* MAX_EVENTS: what an operation keeps
    MaxOutputs,    \* bound: outputs of the hook
    MaxCuts     \* bound: breaks of the event stream

ASSUME OperationsAssumption == MaxKept \in Nat \ {0} /\ {MaxOutputs, MaxCuts} \subseteq Nat

VARIABLES
    hook,       \* the request and runHook: [at, stop: why it was stopped, ok: how the shell
                \* exited]; it is over settled, refused with a 404 or thrown, with a 500
    procs,      \* the process group: the shell, a child that shares its output, one that does not
    killer,     \* whether the SIGKILL timer is set
    logged,     \* the number of events the operation has logged
    stream,     \* operation_log and operation_complete events on their way
    reply,      \* the answer to the page's request
    panel,      \* the page's operation: [status, events]
    outputs, cuts,
    cutOff      \* history: operation_complete was lost with the stream

opVars == <<hook, procs, killer, logged, stream, reply, panel, outputs, cuts, cutOff>>

Holding == {"shell", "child"}
Reasons == {"none", "limit", "timeout", "abort"}
Client == 0     \* an event of the page itself
Concluded == {"settled", "refused"}      \* the operation is finished
Over == Concluded \cup {"thrown"}
Entries == 0..(MaxOutputs + 5)
OpMessage == [kind : {"log"}, n : Entries] \cup [kind : {"complete"}, n : Entries, ok : BOOLEAN]

OperationsTypeOK ==
    /\ hook \in [at : {"idle", "begun", "running"} \cup Over, stop : Reasons, ok : BOOLEAN]
    /\ procs \subseteq Holding \cup {"daemon"} /\ killer \in BOOLEAN
    /\ logged \in Entries /\ \A i \in DOMAIN stream : stream[i] \in OpMessage
    /\ reply \in {"none", "asked", "sent", "got", "lost"}
    /\ panel.status \in {"none", "running", "success", "error"}
    /\ Len(panel.events) <= MaxKept /\ \A i \in DOMAIN panel.events : panel.events[i] \in Entries
    /\ outputs \in 0..MaxOutputs /\ cuts \in 0..MaxCuts /\ cutOff \in BOOLEAN

OpInit ==
    /\ hook = [at |-> "idle", stop |-> "none", ok |-> FALSE] /\ procs = {} /\ killer = FALSE
    /\ logged = 0 /\ stream = <<>> /\ reply = "none" /\ panel = [status |-> "none", events |-> <<>>]
    /\ outputs = 0 /\ cuts = 0 /\ cutOff = FALSE

Latest(s) == SubSeq(s, IF Len(s) > MaxKept THEN Len(s) - MaxKept + 1 ELSE 1, Len(s))
Kept(n) == Latest([i \in 1..n |-> i])

(***************************************************************************)
(* The page.                                                               *)
(***************************************************************************)
\* runningPickerOperation
Busy == panel.status = "running"

\* runHook: beginOperation, and the request.
Press ==
    /\ ~Busy /\ reply = "none"
    /\ panel' = [status |-> "running", events |-> <<Client>>] /\ reply' = "asked"
    /\ UNCHANGED <<hook, procs, killer, logged, stream, outputs, cuts, cutOff>>

\* appendOperationEvent, with no look at whether the operation is over.
Noted(n) == [panel EXCEPT !.events = Latest(Append(@, n))]
\* completeOperation with a result: its status and its events replace the page's.
Completed(n, ok) == [status |-> IF ok THEN "success" ELSE "error", events |-> Kept(n)]
\* completeOperation with an error that brings no operation.
Failed == [status |-> "error", events |-> Latest(Append(panel.events, Client))]

StreamDelivers ==
    /\ stream # <<>> /\ stream' = Tail(stream)
    /\ panel' = LET m == Head(stream) IN IF m.kind = "log" THEN Noted(m.n) ELSE Completed(m.n, m.ok)
    /\ UNCHANGED <<hook, procs, killer, logged, reply, outputs, cuts, cutOff>>

StreamBreaks ==
    /\ stream # <<>> /\ cuts < MaxCuts /\ cuts' = cuts + 1 /\ stream' = <<>>
    /\ cutOff' = (cutOff \/ Last(stream).kind = "complete")
    /\ UNCHANGED <<hook, procs, killer, logged, reply, panel, outputs>>

\* A 200 carries the hook's exit, failed or not, and a 409 the message of the
\* operation's last event.  To a 404, whose message is none of its events, the
\* page adds an event of its own; a 500 brings no operation.
HookAnswer ==
    CASE hook.at = "settled" -> Completed(logged, hook.ok)
      [] hook.at = "refused" -> [status |-> "error", events |-> Latest(Append(Kept(logged), Client))]
      [] OTHER -> Failed
ReplyArrives ==
    /\ reply = "sent" /\ reply' = "got" /\ panel' = HookAnswer
    /\ UNCHANGED <<hook, procs, killer, logged, stream, outputs, cuts, cutOff>>

ReplyLost ==
    /\ reply \in {"asked", "sent"} /\ reply' = "lost" /\ panel' = Failed
    /\ UNCHANGED <<hook, procs, killer, logged, stream, outputs, cuts, cutOff>>

(***************************************************************************)
(* The server.                                                             *)
(***************************************************************************)
\* createOperationReporter: log
Logged(k) == [i \in 1..k |-> [kind |-> "log", n |-> logged + i]]
Log(k) == logged' = logged + k /\ stream' = stream \o Logged(k)

HookReply == IF reply = "asked" THEN "sent" ELSE reply

\* finish of the operation and the answer, in one go; before it, k events.
Completes(k, ok) ==
    /\ logged' = logged + k
    /\ stream' = stream \o Logged(k) \o <<[kind |-> "complete", n |-> logged + k, ok |-> ok]>>
    /\ reply' = HookReply

\* POST /sessions/:id/hooks/:name.  The request may come although the page has
\* given it up, and goes on if the page gives it up now.
Begins ==
    /\ hook.at = "idle" /\ reply \in {"asked", "lost"} /\ hook' = [hook EXCEPT !.at = "begun"] /\ Log(1)
    /\ UNCHANGED <<procs, killer, reply, panel, outputs, cuts, cutOff>>

\* No workspace, no project or no such hook; no environment; or no shell.
Refused ==
    /\ hook.at = "begun"
    /\ \E at \in Concluded, k \in {1, 3} :
          (at = "refused" => k = 1) /\ hook' = [hook EXCEPT !.at = at] /\ Completes(k, FALSE)
    /\ UNCHANGED <<procs, killer, panel, outputs, cuts, cutOff>>

\* Any other error: the operation is not finished.
Throws ==
    /\ hook.at = "begun" /\ hook' = [hook EXCEPT !.at = "thrown"] /\ reply' = HookReply
    /\ UNCHANGED <<procs, killer, logged, stream, panel, outputs, cuts, cutOff>>

Spawned ==
    /\ hook.at = "begun" /\ hook' = [hook EXCEPT !.at = "running"]
    /\ procs' = {"shell"} /\ Log(1)
    /\ UNCHANGED <<killer, reply, panel, outputs, cuts, cutOff>>

\* Mutant: the timer is always cleared.
NoTimer(stop) == FALSE
\* The SIGKILL of a stop comes even if the hook has ended by then.
Timer(stop) == killer /\ stop # "none"
\* finish in runHook: what it was stopped for counts.
Settle(stop, group) ==
    LET ok == stop = "none" /\ hook.ok
    IN /\ hook' = [at |-> "settled", stop |-> stop, ok |-> ok]
       /\ killer' = (Timer(stop) /\ group # {})
       /\ procs' = group /\ Completes(2, ok)
Closes ==
    /\ hook.at = "running" /\ procs \cap Holding = {} /\ Settle(hook.stop, procs)
    /\ UNCHANGED <<panel, outputs, cuts, cutOff>>

\* stop: SIGTERM to the group, which some of it may outlive, and the timer.
Stop(reason) ==
    /\ hook' = [hook EXCEPT !.stop = reason] /\ killer' = TRUE
    /\ \E rest \in SUBSET procs : procs' = rest
Stoppable == hook.at = "running" /\ hook.stop = "none"

\* consume
Says ==
    /\ hook.at = "running" /\ procs \cap Holding # {} /\ outputs < MaxOutputs /\ outputs' = outputs + 1 /\ Log(1)
    /\ \/ UNCHANGED <<hook, procs, killer>>
       \/ Stoppable /\ Stop("limit")
    /\ UNCHANGED <<reply, panel, cuts, cutOff>>
TimesOut == Stoppable /\ Stop("timeout") /\ UNCHANGED <<logged, stream, reply, panel, outputs, cuts, cutOff>>
Aborts == Stoppable /\ reply = "lost" /\ Stop("abort") /\ UNCHANGED <<logged, stream, reply, panel, outputs, cuts, cutOff>>

\* The timer: SIGKILL to the group, and the hook settles if it had not.
Kills ==
    /\ killer
    /\ IF hook.at = "running" THEN Settle(hook.stop, {})
       ELSE killer' = FALSE /\ procs' = {} /\ UNCHANGED <<hook, logged, stream, reply>>
    /\ UNCHANGED <<panel, outputs, cuts, cutOff>>

\* The hook's own processes.
Forks ==
    /\ "shell" \in procs /\ \E m \in {"child", "daemon"} \ procs : procs' = procs \cup {m}
    /\ UNCHANGED <<hook, killer, logged, stream, reply, panel, outputs, cuts, cutOff>>
Exits ==
    /\ \E m \in procs :
          /\ procs' = procs \ {m}
          /\ IF m = "shell" /\ hook.at = "running" THEN \E ok \in BOOLEAN : hook' = [hook EXCEPT !.ok = ok] ELSE UNCHANGED hook
    /\ UNCHANGED <<killer, logged, stream, reply, panel, outputs, cuts, cutOff>>

OpNext ==
    \/ Press \/ StreamDelivers \/ StreamBreaks \/ ReplyArrives \/ ReplyLost
    \/ Begins \/ Refused \/ Throws \/ Spawned \/ Closes \/ Says \/ TimesOut \/ Aborts \/ Kills \/ Forks \/ Exits

OpSpec == OpInit /\ [][OpNext]_opVars

Quiet == hook.at \in Over /\ reply \in {"got", "lost"} /\ stream = <<>>

\* What is told of a hook is true, in whatever order its answer and its events
\* arrive: a hook that was stopped is no success, nor is one on the page that the
\* server did not call so; none of a stopped hook's processes is left running
\* with nobody to kill it; and when all is told, the page has the server's
\* verdict, unless the answer was lost, and, unless the stream broke over the
\* last one or the server threw, exactly the events the server kept, with one of
\* its own after them at most if the answer was lost or was a 404.
HooksTold ==
    /\ hook.ok /\ hook.at \in Over => hook.stop = "none"
    /\ panel.status = "success" => hook.ok /\ hook.at = "settled"
    /\ hook.at \in Over /\ hook.stop # "none" /\ procs # {} => killer
    /\ Quiet => panel.status # "running"
    /\ Quiet /\ reply = "got" => panel.status = IF hook.ok THEN "success" ELSE "error"
    /\ Quiet /\ ~cutOff /\ hook.at # "thrown" =>
          \/ panel.events = Kept(logged)
          \/ /\ reply = "lost" \/ hook.at = "refused"
             /\ panel.events = Latest(Append(Kept(logged), Client))
=============================================================================
