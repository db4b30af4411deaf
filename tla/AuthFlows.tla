------------------------------ MODULE AuthFlows ------------------------------
(***************************************************************************)
(* server/auth-flows.js: the logins to AI providers that a browser drives  *)
(* prompt by prompt, one at a time, on top of the Pi SDK's login (external) *)
(* called by loginProvider of server/supervisor/real.js.  An action is the *)
(* code between two awaits; the SDK may prompt, withdraw a prompt, succeed *)
(* or fail whenever its login is running, cancelled or not.                *)
(***************************************************************************)
EXTENDS Integers, FiniteSets

CONSTANTS
    Flow,       \* flow identities; one is used again once nothing refers to it
    NoFlow,     \* "no active flow"
    MaxLogins   \* bound: start() calls overlapping in listProviders()

ASSUME AuthAssumption == NoFlow \notin Flow /\ IsFiniteSet(Flow) /\ MaxLogins \in Nat \ {0}

Terminal == {"complete", "error", "cancelled"}

VARIABLES
    logins,    \* start() calls past their check, awaiting listProviders()
    activeId,  \* AuthFlowManager.activeId
    flows,     \* keys of AuthFlowManager.flows
    flow       \* the AuthFlow objects

authVars == <<logins, activeId, flows, flow>>

\* prompt: pendingInput is set; unsettled: prompt promises the SDK still waits
\* for; login: what run() awaits ("refresh": the credential is stored, the model
\* list is being fetched).
FlowRecord ==
    [state : {"pending", "waiting_input"} \cup Terminal,
     error : {"none", "timeout", "cancelled", "failed"},
     prompt : BOOLEAN, unsettled : Nat, aborted : BOOLEAN,
     timer : {"none", "ttl", "remove"}, login : {"none", "sdk", "refresh"}]

AuthTypeOK ==
    /\ logins \in 0 .. MaxLogins
    /\ activeId \in Flow \cup {NoFlow}
    /\ flows \subseteq Flow
    /\ flow \in [Flow -> FlowRecord]

\* A bug to catch: a flow without a deadline.
NewFlowUntimed == [state |-> "pending", error |-> "none", prompt |-> FALSE, unsettled |-> 0,
                   aborted |-> FALSE, timer |-> "none", login |-> "sdk"]

NewFlow == [state |-> "pending", error |-> "none", prompt |-> FALSE, unsettled |-> 0,
            aborted |-> FALSE, timer |-> "ttl", login |-> "sdk"]

AuthInit ==
    /\ logins = 0
    /\ activeId = NoFlow
    /\ flows = {}
    /\ flow = [f \in Flow |-> [NewFlow EXCEPT !.timer = "none", !.login = "none"]]

-----------------------------------------------------------------------------
(* AuthFlowManager.start: the check, then what follows listProviders().    *)

StartLogin ==
    /\ activeId = NoFlow
    /\ logins < MaxLogins
    /\ logins' = logins + 1
    /\ UNCHANGED <<activeId, flows, flow>>

\* Unknown provider or method, or the provider list fails.
LoginRefused ==
    /\ logins > 0
    /\ logins' = logins - 1
    /\ UNCHANGED <<activeId, flows, flow>>

LoginStarts(f) ==
    /\ logins > 0
    /\ f \notin flows /\ flow[f].timer = "none" /\ flow[f].login = "none"
    /\ logins' = logins - 1
    /\ flow' = [flow EXCEPT ![f] = NewFlow]
    /\ flows' = flows \cup {f}
    /\ activeId' = f

-----------------------------------------------------------------------------
(* The SDK's side: waitForInput, a prompt's own abort signal, and the two  *)
(* awaits of loginProvider.                                                *)

\* A bug to catch: no look at whether a prompt is pending.
SettledAlways(r) == r.unsettled - 1

Settled(r) == IF r.prompt THEN r.unsettled - 1 ELSE r.unsettled

Prompt(f) ==
    /\ flow[f].login = "sdk"
    /\ flow' = [flow EXCEPT ![f] = [@ EXCEPT !.prompt = TRUE, !.state = "waiting_input",
                                             !.unsettled = Settled(flow[f]) + 1]]
    /\ UNCHANGED <<logins, activeId, flows>>

\* The state stays waiting_input.
WithdrawPrompt(f) ==
    /\ flow[f].prompt
    /\ flow' = [flow EXCEPT ![f] = [@ EXCEPT !.prompt = FALSE, !.unsettled = Settled(flow[f])]]
    /\ UNCHANGED <<logins, activeId, flows>>

LoggedIn(f) ==
    /\ flow[f].login = "sdk"
    /\ flow' = [flow EXCEPT ![f].login = "refresh"]
    /\ UNCHANGED <<logins, activeId, flows>>

\* clearActive(id)
Release(f) == activeId' = IF activeId = f THEN NoFlow ELSE activeId

\* run()'s catch or its try's end, then its finally.  The SDK's error is an
\* abort, or any other.
Outcome(r, how) ==
    IF how = "done" THEN IF r.state = "cancelled" THEN r ELSE [r EXCEPT !.state = "complete"]
    ELSE IF r.state = "error" THEN r
    ELSE IF r.aborted \/ how = "abort"
         THEN [r EXCEPT !.state = "cancelled", !.error = "cancelled"]
    ELSE [r EXCEPT !.state = "error", !.error = "failed"]

RunEnds(f) ==
    /\ \E how \in {"done", "abort", "fail"} :
          /\ \/ flow[f].login = "refresh"
             \/ flow[f].login = "sdk" /\ how # "done"
          /\ flow' = [flow EXCEPT ![f] =
                [Outcome(@, how) EXCEPT !.unsettled = Settled(flow[f]), !.prompt = FALSE,
                                        !.timer = "remove", !.login = "none"]]
    /\ Release(f)
    /\ UNCHANGED <<logins, flows>>

-----------------------------------------------------------------------------
(* The browser's side and the timers.                                      *)

\* An answer to any other prompt, or no listed option, is refused.
Submit(f) ==
    /\ f \in flows /\ flow[f].prompt
    /\ flow' = [flow EXCEPT ![f] = [@ EXCEPT !.prompt = FALSE, !.state = "pending",
                                             !.unsettled = Settled(flow[f])]]
    /\ UNCHANGED <<logins, activeId, flows>>

\* What fail() and cancel() do to a flow that has not ended.
Ended(r, state, error) ==
    [r EXCEPT !.state = state, !.error = error, !.aborted = TRUE, !.prompt = FALSE,
              !.unsettled = Settled(r), !.timer = "remove"]

Cancel(f) ==
    /\ f \in flows /\ flow[f].state \notin Terminal
    /\ flow' = [flow EXCEPT ![f] = Ended(@, "cancelled", "cancelled")]
    /\ Release(f)
    /\ UNCHANGED <<logins, flows>>

\* A bug to catch: fail() leaves the flow active.
TimeoutStaysActive(f) ==
    /\ flow[f].timer = "ttl"
    /\ flow' = [flow EXCEPT ![f] = IF @.state \in Terminal THEN [@ EXCEPT !.timer = "none"]
                                   ELSE Ended(@, "error", "timeout")]
    /\ UNCHANGED <<logins, activeId, flows>>

\* The deadline of a flow: fail(auth_flow_timeout).
Timeout(f) ==
    /\ flow[f].timer = "ttl"
    /\ flow' = [flow EXCEPT ![f] = IF @.state \in Terminal THEN [@ EXCEPT !.timer = "none"]
                                   ELSE Ended(@, "error", "timeout")]
    /\ IF flow[f].state \in Terminal THEN UNCHANGED activeId ELSE Release(f)
    /\ UNCHANGED <<logins, flows>>

\* manager.remove; a flow that an SDK prompt brought back is cancelled first.
Forget(f) ==
    /\ flow[f].timer = "remove"
    /\ flow' = [flow EXCEPT ![f] = IF f \in flows /\ @.state \notin Terminal
                                   THEN Ended(@, "cancelled", "cancelled")
                                   ELSE [@ EXCEPT !.timer = "none"]]
    /\ flows' = flows \ {f}
    /\ Release(f)
    /\ UNCHANGED logins

AuthNext ==
    \/ StartLogin \/ LoginRefused
    \/ \E f \in Flow :
          \/ LoginStarts(f)
          \/ Prompt(f) \/ WithdrawPrompt(f) \/ LoggedIn(f) \/ RunEnds(f)
          \/ Submit(f) \/ Cancel(f) \/ Timeout(f) \/ Forget(f)

\* Timers fire; the provider list is answered or fails; the SDK need not settle.
AuthFairness ==
    \A f \in Flow : WF_authVars(Timeout(f)) /\ WF_authVars(Forget(f))

AuthSpec == AuthInit /\ [][AuthNext]_authVars /\ AuthFairness

-----------------------------------------------------------------------------
(* Properties.                                                             *)

\* No prompt promise is lost: the SDK waits at most for the prompt the browser
\* is shown, so that a login whose prompt was replaced, withdrawn, cancelled or
\* timed out is never left hanging in an await.
PromptsHeld == \A f \in Flow : flow[f].unsettled = IF flow[f].prompt THEN 1 ELSE 0

\* Whoever blocks other logins with auth_flow_active is a live flow the browser
\* can still cancel, with its deadline armed and its login running.
ActiveIsLive ==
    activeId # NoFlow =>
        /\ activeId \in flows
        /\ flow[activeId].state \notin Terminal /\ ~flow[activeId].aborted
        /\ flow[activeId].timer = "ttl" /\ flow[activeId].login # "none"

\* No login is left hanging, neither in the SDK nor as the one that blocks others.
LoginsHeld == PromptsHeld /\ ActiveIsLive

\* A flow that nobody cancelled and that has not ended.
Live(f) == f \in flows /\ flow[f].state \notin Terminal /\ ~flow[f].aborted

\* test/auth-flows.test.js: only one active flow.
OneActiveFlow == \A f, g \in Flow : Live(f) /\ Live(g) => f = g

\* Another login can always be started in the end, whatever the SDK and the
\* browser do.
NextLoginPossible == []<>(activeId = NoFlow)

=============================================================================
