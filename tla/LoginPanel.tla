----------------------------- MODULE LoginPanel -----------------------------
(***************************************************************************)
(* The login with a provider that a page shows and follows: its polls, its *)
(* inputs and its cancel, whose answers cross.  public/js/settings.js.     *)
(***************************************************************************)
EXTENDS Naturals

CONSTANTS
    Flow,       \* logins with a provider
    NoFlow,
    MaxPolls    \* bound: timers of the login

ASSUME LoginPanelAssumption == NoFlow \notin Flow /\ MaxPolls \in Nat

VARIABLES
    login,      \* [flow: this.flow, timer: flowTimer's, starting, cancelling, sending: requests under way]
    polls,      \* polls under way
    polled,
    flows,      \* the server's logins
    left,       \* history: logins that were cancelled here
    tangled     \* history: an input's late answer brought back a login that was gone

loginVars == <<login, polls, polled, flows, left, tangled>>

Ids == Flow \cup {NoFlow}

LoginTypeOK ==
    /\ login \in [flow : Ids, timer : Ids, starting : 0..2, cancelling : SUBSET Flow, sending : SUBSET Flow]
    /\ polls \subseteq Flow /\ polled \in 0..MaxPolls
    /\ flows \in [Flow -> {"new", "pending", "ended"}] /\ left \subseteq Flow /\ tangled \in BOOLEAN

LoginInit ==
    /\ login = [flow |-> NoFlow, timer |-> NoFlow, starting |-> 0, cancelling |-> {}, sending |-> {}]
    /\ polls = {} /\ polled = 0 /\ flows = [f \in Flow |-> "new"] /\ left = {} /\ tangled = FALSE

\* startAuth: nothing keeps a second start from being asked before the first is answered.
StartLogin ==
    /\ login.flow = NoFlow /\ login.starting < 2 /\ \E f \in Flow : flows[f] = "new"
    /\ login' = [login EXCEPT !.starting = @ + 1]
    /\ UNCHANGED <<polls, polled, flows, left, tangled>>

\* Its answer: a login, polled at once; or a refusal.
LoginStarted ==
    /\ login.starting > 0
    /\ \/ \E f \in Flow :
            /\ flows[f] = "new" /\ \A g \in Flow : flows[g] # "pending"
            /\ flows' = [flows EXCEPT ![f] = "pending"] /\ polls' = polls \cup {f}
            /\ login' = [login EXCEPT !.starting = @ - 1, !.flow = f, !.timer = NoFlow]
       \/ login' = [login EXCEPT !.starting = @ - 1] /\ UNCHANGED <<flows, polls>>
    /\ UNCHANGED <<polled, left, tangled>>

\* Mutant: the answer is shown whatever login is followed by now.
FollowsAny(f) == TRUE
\* pollAuth's answer
Follows(f) == login.flow = f
PollAnswered(f) ==
    /\ f \in polls /\ polls' = polls \ {f}
    /\ login' = IF ~Follows(f) THEN login
                ELSE IF flows[f] = "pending" THEN [login EXCEPT !.flow = f, !.timer = f]
                ELSE [login EXCEPT !.flow = NoFlow]
    /\ UNCHANGED <<polled, flows, left, tangled>>
\* It does not look which login it failed for.
PollFailed(f) ==
    /\ f \in polls /\ polls' = polls \ {f} /\ login' = [login EXCEPT !.flow = NoFlow]
    /\ UNCHANGED <<polled, flows, left, tangled>>
PollAgain ==
    /\ login.timer # NoFlow /\ polled < MaxPolls /\ polled' = polled + 1
    /\ polls' = polls \cup {login.timer} /\ login' = [login EXCEPT !.timer = NoFlow]
    /\ UNCHANGED <<flows, left, tangled>>

\* submitAuth
SendInput ==
    /\ login.flow # NoFlow /\ login' = [login EXCEPT !.sending = @ \cup {login.flow}]
    /\ UNCHANGED <<polls, polled, flows, left, tangled>>
InputAnswered(f) ==
    /\ f \in login.sending
    /\ \E g \in {f, login.flow} :
           login' = [login EXCEPT !.sending = @ \ {f}, !.flow = g] /\ tangled' = (tangled \/ g # login.flow)
    /\ UNCHANGED <<polls, polled, flows, left>>

\* cancelAuth
CancelLogin ==
    /\ login.flow # NoFlow
    /\ login' = [login EXCEPT !.timer = NoFlow, !.cancelling = @ \cup {login.flow}]
    /\ UNCHANGED <<polls, polled, flows, left, tangled>>
CancelAnswered(f) ==
    /\ f \in login.cancelling /\ login' = [login EXCEPT !.cancelling = @ \ {f}, !.flow = NoFlow]
    /\ flows' \in {flows, [flows EXCEPT ![f] = "ended"]}
    /\ left' = left \cup {f} /\ UNCHANGED <<polls, polled, tangled>>

\* At the server: it is done, fails, or times out.
LoginEnds(f) == flows[f] = "pending" /\ flows' = [flows EXCEPT ![f] = "ended"] /\ UNCHANGED <<login, polls, polled, left, tangled>>

LoginNext ==
    \/ StartLogin \/ LoginStarted \/ PollAgain \/ SendInput \/ CancelLogin
    \/ \E f \in Flow : PollAnswered(f) \/ PollFailed(f) \/ InputAnswered(f) \/ CancelAnswered(f) \/ LoginEnds(f)

LoginSpec == LoginInit /\ [][LoginNext]_loginVars

\* A login that is shown is followed until it ends, and one that was cancelled
\* is not shown again by an answer that was on its way, other than an input's.
LoginFollowed ==
    login.flow # NoFlow /\ ~tangled =>
        /\ login.flow \notin left
        /\ login.flow \in polls \cup login.cancelling \/ login.timer = login.flow
=============================================================================
