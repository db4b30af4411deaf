------------------------------ MODULE Recovery ------------------------------
(***************************************************************************)
(* public/js/api.js: a page that lost its server.  The browser reconnects  *)
(* the stream of events, a timer asks for the server's health, with longer *)
(* and longer delays, and the page says that it is offline or reconnecting *)
(* until an answer comes.                                                  *)
(***************************************************************************)
EXTENDS Naturals, Sequences

CONSTANTS
    MaxLinkChanges,  \* bound: changes of the browser's network
    MaxDowntimes,    \* bound: times the server goes away or is replaced
    MaxResumes       \* bound: times the page becomes visible again

ASSUME RecoveryAssumption == {MaxLinkChanges, MaxDowntimes, MaxResumes} \subseteq Nat

VARIABLES
    onLine,         \* navigator.onLine
    linkEvents,     \* "offline" and "online" events the page has not handled yet
    server,         \* "up", "down", or "new": up with another build than the page's
    eventSource,    \* what the EventSource does
    recoveryTimer,  \* a timer is set
    inFlight,       \* what recoverConnection awaits
    reloadIssued, reconnecting, offline,
    linkChanges, downtimes, resumes

bounds == <<linkChanges, downtimes, resumes>>
recoveryVars == <<onLine, linkEvents, server, eventSource, recoveryTimer, inFlight, reloadIssued,
                  reconnecting, offline, bounds>>

RecoveryTypeOK ==
    /\ {onLine, recoveryTimer, reloadIssued, reconnecting, offline} \subseteq BOOLEAN
    /\ linkEvents \in Seq({"offline", "online"})
    /\ server \in {"up", "down", "new"}
    /\ eventSource \in {"connecting", "open", "closed"}
    /\ inFlight \in {"none", "health", "state"}
    /\ linkChanges \in 0..MaxLinkChanges /\ downtimes \in 0..MaxDowntimes /\ resumes \in 0..MaxResumes

RecoveryInit ==
    /\ onLine \in BOOLEAN /\ offline = ~onLine
    /\ linkEvents = <<>> /\ server = "up" /\ eventSource = "connecting"
    /\ recoveryTimer = FALSE /\ inFlight = "none" /\ reloadIssued = FALSE /\ reconnecting = FALSE
    /\ linkChanges = 0 /\ downtimes = 0 /\ resumes = 0

-----------------------------------------------------------------------------
(* The browser and the server.                                             *)

LinkChanges ==
    /\ linkChanges < MaxLinkChanges
    /\ onLine' = ~onLine
    /\ linkEvents' = Append(linkEvents, IF onLine THEN "offline" ELSE "online")
    /\ linkChanges' = linkChanges + 1
    /\ UNCHANGED <<server, eventSource, recoveryTimer, inFlight, reloadIssued, reconnecting, offline, downtimes, resumes>>

ServerChanges ==
    /\ downtimes < MaxDowntimes
    /\ server' \in {"up", "down", "new"} \ {server}
    /\ downtimes' = downtimes + 1
    /\ UNCHANGED <<onLine, linkEvents, eventSource, recoveryTimer, inFlight, reloadIssued, reconnecting, offline,
                   linkChanges, resumes>>

Reachable == onLine /\ server # "down"

-----------------------------------------------------------------------------
(* recoverConnection, startRecovery and their timer.                       *)

\* recoverConnection until its first await.
Asks == inFlight' = IF reloadIssued \/ inFlight # "none" \/ ~onLine THEN inFlight ELSE "health"

TimerFires ==
    /\ recoveryTimer
    /\ recoveryTimer' = FALSE /\ Asks
    /\ UNCHANGED <<onLine, linkEvents, server, eventSource, reloadIssued, reconnecting, offline, bounds>>

StartRecovery ==
    LET begins == onLine /\ ~recoveryTimer /\ inFlight = "none" /\ ~reloadIssued IN
    /\ recoveryTimer' = (recoveryTimer \/ begins)
    /\ reconnecting' = (onLine /\ (reconnecting \/ begins))
    /\ offline' = (offline \/ ~onLine)

StopRecovery == recoveryTimer' = FALSE /\ reconnecting' = FALSE /\ offline' = FALSE

\* The health is known: with another build the page reloads, else it gets the state,
\* unless a picker or a question is open.
HealthAnswered ==
    /\ inFlight = "health" /\ Reachable
    /\ \/ /\ server = "new"
          /\ inFlight' = "none" /\ reloadIssued' = TRUE
          /\ UNCHANGED <<recoveryTimer, reconnecting, offline>>
       \/ server = "up" /\ inFlight' = "state" /\ UNCHANGED <<recoveryTimer, reloadIssued, reconnecting, offline>>
       \/ server = "up" /\ inFlight' = "none" /\ StopRecovery /\ UNCHANGED reloadIssued
    /\ UNCHANGED <<onLine, linkEvents, server, eventSource, bounds>>

StateRefreshed ==
    /\ inFlight = "state"
    /\ inFlight' = "none" /\ StopRecovery
    /\ UNCHANGED <<onLine, linkEvents, server, eventSource, reloadIssued, bounds>>

\* A bug to catch: an attempt that failed is the last.
GivesUp == UNCHANGED recoveryTimer

\* scheduleRecovery.
Reschedules == recoveryTimer' = (recoveryTimer \/ ~reloadIssued)

\* catch: the next attempt, later.
AttemptFails ==
    /\ inFlight # "none"
    /\ inFlight' = "none"
    /\ Reschedules
    /\ UNCHANGED <<onLine, linkEvents, server, eventSource, reloadIssued, reconnecting, offline, bounds>>

-----------------------------------------------------------------------------
(* The handlers of the stream and of the window.                           *)

SourceOpens ==
    /\ eventSource = "connecting" /\ Reachable
    /\ eventSource' = "open"
    /\ IF recoveryTimer \/ inFlight # "none" THEN recoveryTimer' = FALSE /\ Asks ELSE UNCHANGED <<recoveryTimer, inFlight>>
    /\ UNCHANGED <<onLine, linkEvents, server, reloadIssued, reconnecting, offline, bounds>>

\* onerror: the browser goes on by itself, but not after an answer with an HTTP error.
SourceBreaks ==
    /\ eventSource # "closed"
    /\ eventSource' \in {"connecting", "closed"}
    /\ StartRecovery
    /\ UNCHANGED <<onLine, linkEvents, server, inFlight, reloadIssued, bounds>>

OfflineHandled ==
    /\ linkEvents # <<>> /\ Head(linkEvents) = "offline"
    /\ linkEvents' = Tail(linkEvents)
    /\ offline' = TRUE /\ reconnecting' = FALSE
    /\ UNCHANGED <<onLine, server, eventSource, recoveryTimer, inFlight, reloadIssued, bounds>>

\* resumeConnection: the old stream is closed, a new one begins.
Resume ==
    /\ offline' = ~onLine
    /\ reconnecting' = (reconnecting /\ onLine)
    /\ eventSource' = IF onLine THEN "connecting" ELSE eventSource
    /\ Asks
    /\ UNCHANGED <<onLine, server, recoveryTimer, reloadIssued, linkChanges, downtimes>>

OnlineHandled ==
    /\ linkEvents # <<>> /\ Head(linkEvents) = "online"
    /\ linkEvents' = Tail(linkEvents)
    /\ Resume
    /\ UNCHANGED resumes

Resumed ==
    /\ resumes < MaxResumes /\ resumes' = resumes + 1
    /\ Resume
    /\ UNCHANGED linkEvents

RecoveryNext ==
    \/ LinkChanges \/ ServerChanges
    \/ TimerFires \/ HealthAnswered \/ StateRefreshed \/ AttemptFails
    \/ SourceOpens \/ SourceBreaks \/ OfflineHandled \/ OnlineHandled \/ Resumed

-----------------------------------------------------------------------------
(* Properties.                                                             *)

StillComes(event) == \E n \in 1..Len(linkEvents) : linkEvents[n] = event

\* A page that says it reconnects does: a timer is set, a question is out, the page
\* reloads, or the browser is about to say that there is no network.  And one that says
\* it is offline is, or is about to hear that it is not.
RecoveryGoesOn ==
    /\ reconnecting => recoveryTimer \/ inFlight # "none" \/ reloadIssued \/ StillComes("offline")
    /\ offline => ~onLine \/ StillComes("online")
=============================================================================
