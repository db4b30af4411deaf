-------------------------- MODULE GitHubDeviceFlow --------------------------
(***************************************************************************)
(* server/github.js, GitHubDeviceFlowManager: the login to GitHub by       *)
(* device code, polled by the server until the user has confirmed it, and  *)
(* the stored token.  An action is the code between two awaits; GitHub is  *)
(* external and answers anything, late or with an error.                   *)
(***************************************************************************)
EXTENDS FiniteSets

CONSTANTS
    GFlow,   \* flow identities; one is used again once nothing refers to it
    NoGFlow  \* "no active flow"

ASSUME GitHubAssumption == NoGFlow \notin GFlow /\ IsFiniteSet(GFlow)

GTerminal == {"complete", "error", "cancelled"}

VARIABLES
    gactive,   \* GitHubDeviceFlowManager.activeId
    gstarting, \* start() calls awaiting the device code
    gflows,    \* keys of GitHubDeviceFlowManager.flows
    gflow,     \* the flow objects
    token      \* a token is in the auth file

gitHubVars == <<gactive, gstarting, gflows, gflow, token>>

\* await: what poll() of the flow awaits; lapsed: past expiresAt.
GRecord ==
    [state : {"waiting_user"} \cup GTerminal, aborted : BOOLEAN, lapsed : BOOLEAN,
     timer : {"none", "poll", "delete"}, await : {"none", "device", "account"}]

GitHubTypeOK ==
    /\ gactive \in GFlow \cup {NoGFlow}
    /\ gstarting \subseteq GFlow /\ gflows \subseteq GFlow
    /\ gflow \in [GFlow -> GRecord]
    /\ token \in BOOLEAN

NewGFlow == [state |-> "waiting_user", aborted |-> FALSE, lapsed |-> FALSE,
             timer |-> "poll", await |-> "none"]

GitHubInit ==
    /\ gactive = NoGFlow
    /\ gstarting = {} /\ gflows = {}
    /\ gflow = [f \in GFlow |-> [NewGFlow EXCEPT !.timer = "none"]]
    /\ token \in BOOLEAN

-----------------------------------------------------------------------------
(* start(): the flow is active before the device code is asked for.        *)

Unused(f) == /\ f \notin gflows \cup gstarting
             /\ gflow[f].timer = "none" /\ gflow[f].await = "none"

GStart(f) ==
    /\ gactive = NoGFlow /\ Unused(f)
    /\ gactive' = f
    /\ gstarting' = gstarting \cup {f}
    /\ UNCHANGED <<gflows, gflow, token>>

GRelease(f) == gactive' = IF gactive = f THEN NoGFlow ELSE gactive

DeviceCode(f) ==
    /\ f \in gstarting
    /\ gstarting' = gstarting \ {f}
    /\ gflows' = gflows \cup {f}
    /\ gflow' = [gflow EXCEPT ![f] = NewGFlow]
    /\ UNCHANGED <<gactive, token>>

NoDeviceCode(f) ==
    /\ f \in gstarting
    /\ gstarting' = gstarting \ {f}
    /\ GRelease(f)
    /\ UNCHANGED <<gflows, gflow, token>>

-----------------------------------------------------------------------------
(* poll(), in its three parts, and finish().                               *)

\* A bug to catch: the flow is active for ever.
FinishedStaysActive(f, r, state) ==
    /\ gflow' = [gflow EXCEPT ![f] = [r EXCEPT !.state = state, !.timer = "delete"]]
    /\ UNCHANGED gactive

\* finish() of a flow whose record is r by then.
Finish(f, r, state) ==
    /\ gflow' = [gflow EXCEPT ![f] = [r EXCEPT !.state = state, !.timer = "delete"]]
    /\ GRelease(f)

Poll(f) ==
    /\ gflow[f].timer = "poll"
    /\ LET given == f \notin gflows \/ gflow[f].aborted IN
       \/ /\ given
          /\ gflow' = [gflow EXCEPT ![f].timer = "none"]
          /\ UNCHANGED gactive
       \/ ~given /\ gflow[f].lapsed /\ Finish(f, gflow[f], "error")
       \/ /\ ~given /\ ~gflow[f].lapsed
          /\ gflow' = [gflow EXCEPT ![f] = [@ EXCEPT !.timer = "none", !.await = "device"]]
          /\ UNCHANGED gactive
    /\ UNCHANGED <<gstarting, gflows, token>>

\* The poll in flight has settled.
Answered(f) == [gflow[f] EXCEPT !.await = "none"]

\* Checked again after each await: nobody cancelled or deleted the flow.
Abandoned(f) == f \notin gflows \/ gflow[f].aborted \/ gflow[f].state # "waiting_user"

\* An answer that comes too late, or the abort of the request, changes nothing.
TooLate(f) ==
    /\ gflow[f].await # "none" /\ Abandoned(f)
    /\ gflow' = [gflow EXCEPT ![f].await = "none"]
    /\ UNCHANGED <<gactive, gstarting, gflows, token>>

Pending(f) ==
    /\ gflow[f].await = "device" /\ ~Abandoned(f)
    /\ gflow' = [gflow EXCEPT ![f] = [@ EXCEPT !.await = "none", !.timer = "poll"]]
    /\ UNCHANGED <<gactive, gstarting, gflows, token>>

Confirmed(f) ==
    /\ gflow[f].await = "device" /\ ~Abandoned(f)
    /\ gflow' = [gflow EXCEPT ![f].await = "account"]
    /\ UNCHANGED <<gactive, gstarting, gflows, token>>

\* The code expired, access was denied, a fetch failed, the token is refused.
PollFails(f) ==
    /\ gflow[f].await # "none" /\ ~Abandoned(f)
    /\ Finish(f, Answered(f), "error")
    /\ UNCHANGED <<gstarting, gflows, token>>

\* The account is known: saveToken, then finish; or saveToken throws.
SaveToken(f) ==
    /\ gflow[f].await = "account" /\ ~Abandoned(f)
    /\ token' = TRUE
    /\ Finish(f, Answered(f), "complete")
    /\ UNCHANGED <<gstarting, gflows>>

-----------------------------------------------------------------------------
GCancel(f) ==
    /\ f \in gflows /\ gflow[f].state \notin GTerminal
    /\ Finish(f, [gflow[f] EXCEPT !.aborted = TRUE], "cancelled")
    /\ UNCHANGED <<gstarting, gflows, token>>

GForget(f) ==
    /\ gflow[f].timer = "delete"
    /\ gflow' = [gflow EXCEPT ![f].timer = "none"]
    /\ gflows' = gflows \ {f}
    /\ UNCHANGED <<gactive, gstarting, token>>

\* Time passes expiresAt.
Lapse(f) ==
    /\ f \in gflows /\ ~gflow[f].lapsed
    /\ gflow' = [gflow EXCEPT ![f].lapsed = TRUE]
    /\ UNCHANGED <<gactive, gstarting, gflows, token>>

\* POST /github/logout removes the file, flows go on.
GLogout ==
    /\ token' = FALSE
    /\ UNCHANGED <<gactive, gstarting, gflows, gflow>>

GitHubNext ==
    \/ GLogout
    \/ \E f \in GFlow :
          \/ GStart(f) \/ DeviceCode(f) \/ NoDeviceCode(f)
          \/ Poll(f) \/ TooLate(f) \/ Pending(f) \/ Confirmed(f) \/ PollFails(f) \/ SaveToken(f)
          \/ GCancel(f) \/ GForget(f) \/ Lapse(f)

\* Fetches are answered or fail, timers fire and time passes.
GitHubFairness ==
    \A f \in GFlow :
        /\ WF_gitHubVars(DeviceCode(f) \/ NoDeviceCode(f))
        /\ WF_gitHubVars(Poll(f)) /\ WF_gitHubVars(Lapse(f)) /\ WF_gitHubVars(GForget(f))
        /\ WF_gitHubVars(TooLate(f) \/ Pending(f) \/ Confirmed(f) \/ PollFails(f) \/ SaveToken(f))

GitHubSpec == GitHubInit /\ [][GitHubNext]_gitHubVars /\ GitHubFairness

-----------------------------------------------------------------------------
(* Properties.                                                             *)

\* One device login at a time, from the request for its code to its end, and
\* it is the active one: nothing else blocks the next login.
OneGitHubFlow ==
    \A f \in GFlow :
        (f \in gstarting \/ (f \in gflows /\ gflow[f].state = "waiting_user")) <=> gactive = f

\* A token is stored only by the completion of the active flow: a login that
\* was cancelled or has expired while GitHub was asked never connects.
TokenOfActiveFlow ==
    [][token' /\ ~token =>
          \E f \in GFlow : /\ gactive = f /\ ~gflow[f].aborted
                           /\ gflow[f].state = "waiting_user"
                           /\ gflow'[f].state = "complete"]_gitHubVars

\* Every device login ends: confirmed, refused, cancelled or expired.
GitHubFlowEnds == \A f \in GFlow : gactive = f ~> gactive # f
=============================================================================
