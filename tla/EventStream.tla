---------------------------- MODULE EventStream ----------------------------
(***************************************************************************)
(* How the text of one conversation reaches a browser that shows it.       *)
(* The process that runs the conversation emits events through its hub     *)
(* (server/events.js).  For a project of a worker, web reads the worker's  *)
(* events and emits them again with numbers of its own                     *)
(* (server/remote-workspaces.js).  The browser (public/js/api.js) applies  *)
(* live events, and now and then replaces what it shows by a snapshot      *)
(* (GET /sessions/:id/transcript) while it buffers events.                 *)
(* A stream is a set of numbered frames that is read lowest first; what is *)
(* shown of a delta is how often it was appended.                          *)
(***************************************************************************)
EXTENDS Integers, Sequences, FiniteSets

CONSTANTS
    Deployments, \* remote: a worker runs the conversation, not web itself; incidents:
                 \*   bound on what the user, other conversations and failures do
    MaxLog,      \* bound: events of the conversation
    Retries,     \* delays.length of fetchTranscriptWithRetry
    PairsCap,    \* numbers of a worker that web remembers,
    PairsDrop    \* and how many it then forgets at a time

ASSUME EventStreamAssumption ==
    /\ Deployments \subseteq [remote : BOOLEAN, incidents : Nat]
    /\ MaxLog \in Nat /\ Retries \in Nat
    /\ PairsCap \in Nat /\ PairsDrop \in 1..PairsCap

VARIABLES
    deployment,  \* which never changes
    log,         \* the events of the conversation, in the order they happened
    hostSeq,     \* the sequence number of the worker's hub
    upstream,    \* web is subscribed to the worker
    up,          \* frames on the way from the worker to web
    webSeq,      \* the sequence number of web's hub
    pairs,       \* seqMaps.get(name): worker numbers and web's, recent ones
    stream,      \* the browser's EventSource is connected
    down,        \* frames on the way from web to the browser
    view,        \* the browser's transcript
    load,        \* openTranscript: its request, its buffer
    incidents,   \* how many there were
    lost,        \* history: events a broken stream or request may have cost
    sent,        \* history: the last event web's hub has emitted
    stale        \* history: the numbers the browser compares with are of an earlier web

hub == <<log, hostSeq, webSeq, pairs, sent>>
streams == <<upstream, up, stream, down>>
browser == <<view, load, stale>>
vars == <<deployment, log, hostSeq, upstream, up, webSeq, pairs, stream, down, view, load,
          incidents, lost, sent, stale>>

Event == {"turn_start", "text_delta", "turn_end"}
Place == 1..MaxLog
Frame == [seq : Nat, at : 0..MaxLog]  \* at = 0: of another conversation
\* times: how often each delta was appended; mark: history.
View == [times : [Place -> Nat], seq : Int, mark : 0..MaxLog]
\* again: reloadAfterLoad; seq, upto: the snapshot; mark, old: history.
Loading == [at : {"none", "asked", "captured", "read", "answered", "sent", "broken"},
            tries : Nat, buffer : SUBSET Frame, again : BOOLEAN, seq : Int,
            upto : 0..MaxLog, mark : 0..MaxLog, old : BOOLEAN]

TypeOK ==
    /\ deployment \in Deployments
    /\ log \in Seq(Event) /\ Len(log) <= MaxLog
    /\ hostSeq \in Nat /\ webSeq \in Nat
    /\ upstream \in BOOLEAN /\ stream \in BOOLEAN
    /\ up \subseteq Frame /\ down \subseteq Frame
    /\ pairs \in Seq([host : Nat, web : Nat]) /\ Len(pairs) <= PairsCap
    /\ view \in View
    /\ load \in Loading
    /\ incidents \in Nat
    /\ lost \subseteq Place /\ sent \in 0..MaxLog /\ stale \in BOOLEAN

-----------------------------------------------------------------------------
(* The conversation, its hub and, for a worker, web's fan-in.              *)

remote == deployment.remote
Incident == incidents < deployment.incidents /\ incidents' = incidents + 1
InTurn == log # <<>> /\ log[Len(log)] # "turn_end"
IsText(n) == n \in DOMAIN log /\ log[n] = "text_delta"
Places(frames) == {f.at : f \in frames} \ {0}
First(f, frames) == \A g \in frames : f.seq <= g.seq

\* web's hub numbers event n (0: of another conversation) for whoever listens.
Publish(n) ==
    /\ webSeq' = webSeq + 1
    /\ down' = IF stream /\ n > 0 THEN down \cup {[seq |-> webSeq + 1, at |-> n]} ELSE down
    /\ sent' = IF n > 0 THEN n ELSE sent

\* The worker's hub does: nobody but web listens to it.
PublishAtHost(n) ==
    /\ hostSeq' = hostSeq + 1
    /\ up' = IF upstream THEN up \cup {[seq |-> hostSeq + 1, at |-> n]} ELSE up

Heard == IF remote THEN upstream ELSE stream

Emit(event) ==
    LET n == Len(log) + 1 IN
    /\ n <= MaxLog
    /\ log' = Append(log, event)
    /\ IF remote THEN PublishAtHost(n) /\ UNCHANGED <<webSeq, down, sent>>
                 ELSE Publish(n) /\ UNCHANGED <<hostSeq, up>>
    /\ lost' = IF Heard THEN lost ELSE lost \cup {n}
    /\ UNCHANGED <<deployment, upstream, pairs, stream, browser, incidents>>

TurnStart == ~InTurn /\ Emit("turn_start")
TextDelta == InTurn /\ Emit("text_delta")
TurnEnd == InTurn /\ Emit("turn_end")

\* Another conversation, of the same worker or of any other process.
Other ==
    /\ Incident
    /\ \/ remote /\ PublishAtHost(0) /\ UNCHANGED <<webSeq, down, sent>>
       \/ Publish(0) /\ UNCHANGED <<hostSeq, up>>
    /\ UNCHANGED <<deployment, log, upstream, pairs, stream, browser, lost>>

\* A snapshot read before web numbered these may come to hide them.
Unread == IF load.at \in {"read", "answered"} THEN (load.upto + 1)..sent ELSE {}

Trimmed(ps) == IF Len(ps) > PairsCap THEN SubSeq(ps, PairsDrop + 1, Len(ps)) ELSE ps

\* subscribe: the next frame of the worker is emitted again and its number kept.
Forward == \E f \in up :
    /\ First(f, up)
    /\ up' = up \ {f}
    /\ Publish(f.at)
    /\ LET grown == Append(pairs, [host |-> f.seq, web |-> webSeq + 1]) IN
       /\ pairs' = Trimmed(grown)
       /\ lost' = lost \cup (IF stream THEN {} ELSE {f.at} \ {0})
                       \cup (IF Trimmed(grown) # grown THEN Unread ELSE {})
    /\ UNCHANGED <<deployment, log, hostSeq, upstream, stream, browser, incidents>>

WebSeqRaw(hostNumber) == hostNumber      \* mutated WebSeq: not mapped

\* webSeq(): web's number for a worker's.
WebSeq(hostNumber) ==
    LET older == {i \in DOMAIN pairs : pairs[i].host <= hostNumber} IN
    IF pairs = <<>> THEN webSeq
    ELSE IF pairs[Len(pairs)].host < hostNumber THEN webSeq
    ELSE IF older = {} THEN pairs[1].web - 1
    ELSE pairs[CHOOSE i \in older : \A j \in older : j <= i].web

-----------------------------------------------------------------------------
(* The browser: live events, the transcript's snapshot, the event buffer.  *)

Idle == [at |-> "none", tries |-> 0, buffer |-> {}, again |-> FALSE, seq |-> -1,
         upto |-> 0, mark |-> 0, old |-> FALSE]
Asked == [Idle EXCEPT !.at = "asked", !.mark = sent]

\* openTranscript while a load runs is done after it.
OpenTranscript == IF load.at = "none" THEN Asked ELSE [load EXCEPT !.again = TRUE]
\* The end of openTranscript: the buffer goes, a queued load starts.
Finished == IF load.again THEN Asked ELSE Idle

\* A snapshot as far as event n.
Snapshot(n) == [p \in Place |-> IF p <= n /\ IsText(p) THEN 1 ELSE 0]
AppendOnce(times, ps) == [p \in Place |-> times[p] + IF p \in ps /\ IsText(p) THEN 1 ELSE 0]

Highest(frames) == CHOOSE s \in {f.seq : f \in frames} : \A g \in frames : g.seq <= s
AppliedAll(v, frames) ==
    [v EXCEPT !.times = AppendOnce(v.times, Places(frames)),
              !.seq = IF frames = {} THEN v.seq ELSE Highest(frames)]
\* applyEvent for frames in order: those the gate on the number lets pass.
Applied(v, frames) == AppliedAll(v, {f \in frames : f.seq > v.seq})

\* onmessage: buffered while loading, else applied; a live turn_end that
\* passes the gate loads the transcript again.
Deliver == \E f \in down :
    /\ First(f, down)
    /\ down' = down \ {f}
    /\ IF load.at # "none"
       THEN load' = [load EXCEPT !.buffer = @ \cup {f}] /\ UNCHANGED view
       ELSE /\ view' = Applied(view, {f})
            /\ load' = IF f.seq > view.seq /\ log[f.at] = "turn_end"
                       THEN OpenTranscript ELSE load
    /\ UNCHANGED <<deployment, hub, upstream, up, stream, incidents, lost, stale>>

\* The user opens the conversation.
Select ==
    /\ Incident
    /\ load' = OpenTranscript
    /\ UNCHANGED <<deployment, hub, streams, view, lost, stale>>

\* GET /sessions/:id/transcript: the number first,
Capture ==
    /\ load.at = "asked"
    /\ load' = [load EXCEPT !.at = "captured", !.seq = IF remote THEN hostSeq ELSE webSeq]
    /\ UNCHANGED <<deployment, hub, streams, view, incidents, lost, stale>>

\* after awaits the records,
Read ==
    /\ load.at = "captured"
    /\ load' = [load EXCEPT !.at = "read", !.upto = Len(log)]
    /\ UNCHANGED <<deployment, hub, streams, view, incidents, lost, stale>>

RespondNumbered ==      \* mutated Respond: the number last
    /\ load.at = "read"
    /\ load' = [load EXCEPT !.at = IF remote THEN "answered" ELSE "sent",
                            !.seq = IF remote THEN hostSeq ELSE webSeq]
    /\ UNCHANGED <<deployment, hub, streams, view, incidents, lost, stale>>

\* after more awaits the answer.
Respond ==
    /\ load.at = "read"
    /\ load' = [load EXCEPT !.at = IF remote THEN "answered" ELSE "sent"]
    /\ UNCHANGED <<deployment, hub, streams, view, incidents, lost, stale>>

\* forward(): web gives the answer of a worker its own number.
ForwardAnswer ==
    /\ load.at = "answered"
    /\ load' = [load EXCEPT !.at = "sent", !.seq = WebSeq(load.seq)]
    /\ UNCHANGED <<deployment, hub, streams, view, incidents, lost, stale>>

\* The snapshot replaces what is shown, then the buffer is replayed.  Text that
\* was lost before is shown now.
Load ==
    /\ load.at = "sent"
    /\ view' = Applied([times |-> Snapshot(load.upto), seq |-> load.seq, mark |-> load.mark],
                       load.buffer)
    /\ load' = Finished
    /\ lost' = lost \ {n \in 1..load.upto : IsText(n)}
    /\ stale' = load.old
    /\ UNCHANGED <<deployment, hub, streams, incidents>>

\* No answer, or 409 sync_snapshot_stale.
RequestBreaks ==
    /\ load.at \notin {"none", "broken"}
    /\ Incident
    /\ load' = [load EXCEPT !.at = "broken"]
    /\ UNCHANGED <<deployment, hub, streams, view, lost, stale>>

\* fetchTranscriptWithRetry.
Retry ==
    /\ load.at = "broken" /\ load.tries < Retries
    /\ load' = [load EXCEPT !.at = "asked", !.tries = @ + 1]
    /\ UNCHANGED <<deployment, hub, streams, view, incidents, lost, stale>>

\* openTranscript: catch, finally.  What was buffered is dropped.
LoadFails ==
    /\ load' = Finished
    /\ lost' = lost \cup Places(load.buffer)
    /\ UNCHANGED <<deployment, hub, streams, view, stale>>
GiveUpLate == load.at = "broken" /\ load.tries > Retries /\ LoadFails /\ UNCHANGED incidents      \* mutated GiveUp
GiveUp == load.at = "broken" /\ load.tries = Retries /\ LoadFails /\ UNCHANGED incidents
\* Any other answer than the transcript, such as 502 workspace_unavailable.
Refused ==
    /\ load.at \in {"asked", "captured", "read", "answered"}
    /\ Incident
    /\ LoadFails

-----------------------------------------------------------------------------
(* Streams break and come back.                                            *)

\* onerror: the transcript is loaded while the EventSource reconnects.
StreamBreaks ==
    /\ stream /\ Incident
    /\ stream' = FALSE /\ down' = {}
    /\ load' = OpenTranscript
    /\ lost' = lost \cup Places(down)
    /\ UNCHANGED <<deployment, hub, upstream, up, view, stale>>

\* resumeConnection: a page that becomes visible opens its stream again.
Resume ==
    /\ Incident
    /\ stream' = FALSE /\ down' = {}
    /\ lost' = lost \cup Places(down)
    /\ UNCHANGED <<deployment, hub, upstream, up, browser>>

StreamOpens ==
    /\ ~stream /\ stream' = TRUE
    /\ UNCHANGED <<deployment, hub, upstream, up, down, browser, incidents, lost>>

UpstreamBreaks ==
    /\ upstream /\ Incident
    /\ upstream' = FALSE /\ up' = {}
    /\ lost' = lost \cup Places(up)
    /\ UNCHANGED <<deployment, hub, stream, down, browser>>

\* subscribe: a new connection forgets the numbers of the one before.
UpstreamOpens ==
    /\ remote /\ ~upstream /\ upstream' = TRUE
    /\ pairs' = <<>>
    /\ lost' = lost \cup Unread
    /\ UNCHANGED <<deployment, log, hostSeq, webSeq, sent, up, stream, down, browser, incidents>>

\* Web starts again, from number 0; the worker and its turn go on.  A buffer keeps
\* the frames of the earlier web; being a set it mixes them with new ones, which
\* only a load marked old can replay: what it shows is stale.
WebRestarts ==
    /\ remote /\ Incident
    /\ webSeq' = 0 /\ pairs' = <<>>
    /\ upstream' = FALSE /\ up' = {} /\ stream' = FALSE /\ down' = {}
    /\ lost' = lost \cup Places(up) \cup Places(down)
    /\ load' = IF load.at = "none" THEN Asked
               ELSE [load EXCEPT !.at = "broken", !.again = TRUE, !.old = TRUE]
    /\ stale' = TRUE
    /\ UNCHANGED <<deployment, log, hostSeq, sent, view>>

\* main.js: connectSSE(), then at once the transcript of the saved conversation.
Init ==
    /\ deployment \in Deployments
    /\ log = <<>> /\ hostSeq = 0 /\ webSeq = 0 /\ pairs = <<>> /\ sent = 0
    /\ upstream = FALSE /\ up = {} /\ stream = FALSE /\ down = {}
    /\ view = [times |-> [p \in Place |-> 0], seq |-> -1, mark |-> 0]
    /\ load = Asked
    /\ incidents = 0
    /\ lost = {} /\ stale = FALSE

Conversation == TurnStart \/ TextDelta \/ TurnEnd \/ Other
Route == Capture \/ Read \/ Respond \/ ForwardAnswer
Loads == Load \/ Retry \/ GiveUp
Opens == StreamOpens \/ UpstreamOpens
Breaks == RequestBreaks \/ Refused \/ StreamBreaks \/ UpstreamBreaks \/ WebRestarts

Next == Conversation \/ Forward \/ Deliver \/ Route \/ Loads \/ Opens \/ Select \/ Resume \/ Breaks

Fairness == WF_vars(Forward) /\ WF_vars(Deliver) /\ WF_vars(Route) /\ WF_vars(Loads) /\ WF_vars(Opens)
Spec == Init /\ [][Next]_vars
FairSpec == Spec /\ Fairness

-----------------------------------------------------------------------------
(* Nothing is on its way to the browser, which waits for nothing.          *)
Quiet ==
    /\ stream /\ down = {} /\ load.at = "none"
    /\ remote => upstream /\ up = {}

\* What a quiet browser does not show was lost by a broken stream or request:
\* the gate on numbers and the mapping of a worker's snapshot hide nothing else.
NoSilentGap ==
    Quiet /\ ~stale => \A n \in Place : IsText(n) /\ view.times[n] = 0 => n \in lost

\* Text that web had numbered before the browser asked for the snapshot it
\* shows is shown once: in the snapshot, and not appended again from the buffer.
LoadedOnce == ~stale => \A n \in 1..view.mark : IsText(n) => view.times[n] = 1

\* Every delta is shown in the end, or a stream or request broke.
CatchesUp == \A n \in Place : (IsText(n)) ~> (view.times[n] > 0 \/ n \in lost \/ stale)

\* api.js: "subscribe first, buffer, snapshot, apply": nothing is missing once
\* the browser is connected and has loaded.
SubscribedFirst == Quiet /\ ~stale => \A n \in Place : IsText(n) => view.times[n] > 0
=============================================================================
