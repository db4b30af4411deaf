--------------------------- MODULE ManagersProofs ---------------------------
(***************************************************************************)
(* What is proved of the managers, for every value of the constants: of    *)
(* the logins to AI providers and the GitHub device logins, for any number *)
(* of flows, and of workspaced's child processes, for any set of           *)
(* workspaces and processes and any bounds.                                *)
(***************************************************************************)
EXTENDS Managers, TLAPS

(***************************************************************************)
(* Logins to AI providers.                                                 *)
(***************************************************************************)

\* The inductive invariant, flow by flow: besides type and PromptsHeld, a flow
\* that has ended while its run() goes on was aborted, which is what keeps a
\* late prompt from bringing it back as a live one; and so is an answer, since
\* a pending prompt means that the flow waits for it.
Sound(r) ==
    /\ r \in FlowRecord
    /\ r.unsettled = IF r.prompt THEN 1 ELSE 0
    /\ r.prompt => r.state = "waiting_input"
    /\ r.login # "none" /\ r.state \in Terminal => r.aborted

FlowInv ==
    /\ logins \in 0 .. MaxLogins
    /\ activeId \in Flow \cup {NoFlow}
    /\ flows \subseteq Flow
    /\ flow \in [Flow -> FlowRecord]
    /\ \A f \in Flow : Sound(flow[f])

(* The record operations keep a record sound.                              *)

LEMMA NewFlowSound == Sound(NewFlow) /\ Sound([NewFlow EXCEPT !.timer = "none", !.login = "none"])
  BY DEF Sound, NewFlow, FlowRecord, Terminal

LEMMA SettledIsZero == ASSUME NEW r, Sound(r) PROVE Settled(r) = 0
  BY DEF Sound, FlowRecord, Settled

LEMMA PromptSound ==
  ASSUME NEW r, Sound(r), NEW n, n = 1, r.login = "sdk"
  PROVE  Sound([r EXCEPT !.prompt = TRUE, !.state = "waiting_input", !.unsettled = n])
  BY DEF Sound, FlowRecord, Terminal

LEMMA WithdrawSound ==
  ASSUME NEW r, Sound(r), NEW n, n = 0
  PROVE  Sound([r EXCEPT !.prompt = FALSE, !.unsettled = n])
  BY DEF Sound, FlowRecord, Terminal

LEMMA SubmitSound ==
  ASSUME NEW r, Sound(r), NEW n, n = 0
  PROVE  Sound([r EXCEPT !.prompt = FALSE, !.state = "pending", !.unsettled = n])
  BY DEF Sound, FlowRecord, Terminal

LEMMA LoggedInSound ==
  ASSUME NEW r, Sound(r), r.login = "sdk" PROVE Sound([r EXCEPT !.login = "refresh"])
  BY DEF Sound, FlowRecord, Terminal

LEMMA EndedFields ==
  ASSUME NEW r, r \in FlowRecord, NEW n, n = 0,
         NEW e \in {"timeout", "cancelled"}, NEW s \in {"error", "cancelled"}
  PROVE  Sound([r EXCEPT !.state = s, !.error = e, !.aborted = TRUE, !.prompt = FALSE,
                         !.unsettled = n, !.timer = "remove"])
  BY DEF Sound, FlowRecord, Terminal

LEMMA EndedSound ==
  ASSUME NEW r, Sound(r), NEW e \in {"timeout", "cancelled"}, NEW s \in {"error", "cancelled"}
  PROVE  Sound(Ended(r, s, e))
<1>1. Settled(r) = 0 BY SettledIsZero
<1>2. r \in FlowRecord BY DEF Sound
<1> QED BY <1>1, <1>2, EndedFields DEF Ended

LEMMA UntimedSound ==
  ASSUME NEW r, Sound(r) PROVE Sound([r EXCEPT !.timer = "none"])
  BY DEF Sound, FlowRecord, Terminal

LEMMA OutcomeFields ==
  ASSUME NEW r, Sound(r), NEW how \in {"done", "abort", "fail"}
  PROVE  /\ Outcome(r, how) \in FlowRecord
         /\ Outcome(r, how).state \in Terminal
  BY DEF Sound, FlowRecord, Terminal, Outcome

LEMMA RunEndsSound ==
  ASSUME NEW r, r \in FlowRecord, NEW n, n = 0
  PROVE  Sound([r EXCEPT !.unsettled = n, !.prompt = FALSE, !.timer = "remove", !.login = "none"])
  BY DEF Sound, FlowRecord, Terminal

(* The invariant and its preservation.                                     *)

LEMMA FlowInvInit == AuthInit => FlowInv
<1> SUFFICES ASSUME AuthInit PROVE FlowInv
    OBVIOUS
<1>1. \A f \in Flow : Sound(flow[f]) BY NewFlowSound DEF AuthInit
<1>2. \A f \in Flow : flow[f] \in FlowRecord BY <1>1 DEF Sound
<1> QED BY <1>1, <1>2, AuthAssumption DEF AuthInit, FlowInv

\* A step that replaces one record by a sound one.
LEMMA OneFlowChanges ==
  ASSUME FlowInv, NEW f \in Flow, NEW r, Sound(r), flow' = [flow EXCEPT ![f] = r]
  PROVE  flow' \in [Flow -> FlowRecord] /\ \A g \in Flow : Sound(flow'[g])
  BY DEF FlowInv, Sound

LEMMA FlowInvStep == FlowInv /\ [AuthNext]_authVars => FlowInv'
<1> SUFFICES ASSUME FlowInv, [AuthNext]_authVars PROVE FlowInv'
    OBVIOUS
<1>sound. \A f \in Flow : Sound(flow[f]) /\ Settled(flow[f]) = 0 /\ flow[f] \in FlowRecord
    BY SettledIsZero DEF FlowInv
<1>1. CASE StartLogin BY <1>1, AuthAssumption DEF StartLogin, FlowInv, Sound
<1>2. CASE LoginRefused BY <1>2, AuthAssumption DEF LoginRefused, FlowInv, Sound
<1>3. ASSUME NEW f \in Flow, LoginStarts(f) PROVE FlowInv'
  <2>1. flow' \in [Flow -> FlowRecord] /\ \A g \in Flow : Sound(flow'[g])
        BY <1>3, NewFlowSound, OneFlowChanges DEF LoginStarts
  <2> QED BY <1>3, <2>1, AuthAssumption DEF LoginStarts, FlowInv, Sound
<1>4. ASSUME NEW f \in Flow, Prompt(f) PROVE FlowInv'
  <2>1. flow' \in [Flow -> FlowRecord] /\ \A g \in Flow : Sound(flow'[g])
    <3>1. Settled(flow[f]) + 1 = 1 BY <1>sound
    <3> QED BY <1>4, <3>1, <1>sound, PromptSound, OneFlowChanges DEF Prompt
  <2> QED BY <1>4, <2>1 DEF Prompt, FlowInv, Sound
<1>5. ASSUME NEW f \in Flow, WithdrawPrompt(f) PROVE FlowInv'
  <2>1. flow' \in [Flow -> FlowRecord] /\ \A g \in Flow : Sound(flow'[g])
        BY <1>5, <1>sound, WithdrawSound, OneFlowChanges DEF WithdrawPrompt
  <2> QED BY <1>5, <2>1 DEF WithdrawPrompt, FlowInv, Sound
<1>6. ASSUME NEW f \in Flow, LoggedIn(f) PROVE FlowInv'
  <2>1. flow' \in [Flow -> FlowRecord] /\ \A g \in Flow : Sound(flow'[g])
        BY <1>6, <1>sound, LoggedInSound, OneFlowChanges DEF LoggedIn
  <2> QED BY <1>6, <2>1 DEF LoggedIn, FlowInv, Sound
<1>7. ASSUME NEW f \in Flow, RunEnds(f) PROVE FlowInv'
  <2>1. flow' \in [Flow -> FlowRecord] /\ \A g \in Flow : Sound(flow'[g])
        BY <1>7, <1>sound, OutcomeFields, RunEndsSound, OneFlowChanges DEF RunEnds
  <2> QED BY <1>7, <2>1 DEF RunEnds, Release, FlowInv, Sound
<1>8. ASSUME NEW f \in Flow, Submit(f) PROVE FlowInv'
  <2>1. flow' \in [Flow -> FlowRecord] /\ \A g \in Flow : Sound(flow'[g])
        BY <1>8, <1>sound, SubmitSound, OneFlowChanges DEF Submit
  <2> QED BY <1>8, <2>1 DEF Submit, FlowInv, Sound
<1>9. ASSUME NEW f \in Flow, Cancel(f) PROVE FlowInv'
  <2>1. flow' \in [Flow -> FlowRecord] /\ \A g \in Flow : Sound(flow'[g])
        BY <1>9, <1>sound, EndedSound, OneFlowChanges DEF Cancel
  <2> QED BY <1>9, <2>1 DEF Cancel, Release, FlowInv, Sound
<1>10. ASSUME NEW f \in Flow, Timeout(f) PROVE FlowInv'
  <2>1. flow' \in [Flow -> FlowRecord] /\ \A g \in Flow : Sound(flow'[g])
        BY <1>10, <1>sound, EndedSound, UntimedSound, OneFlowChanges DEF Timeout
  <2> QED BY <1>10, <2>1 DEF Timeout, Release, FlowInv, Sound
<1>11. ASSUME NEW f \in Flow, Forget(f) PROVE FlowInv'
  <2>1. flow' \in [Flow -> FlowRecord] /\ \A g \in Flow : Sound(flow'[g])
        BY <1>11, <1>sound, EndedSound, UntimedSound, OneFlowChanges DEF Forget
  <2> QED BY <1>11, <2>1 DEF Forget, Release, FlowInv, Sound
<1>12. CASE UNCHANGED authVars BY <1>12 DEF authVars, FlowInv, Sound
<1> QED BY <1>1, <1>2, <1>3, <1>4, <1>5, <1>6, <1>7, <1>8, <1>9, <1>10, <1>11, <1>12 DEF AuthNext

(* Who is active.                                                          *)

\* ActiveIsLive and its preservation, on top of FlowInv.
LEMMA ActiveStep == FlowInv /\ ActiveIsLive /\ [AuthNext]_authVars => ActiveIsLive'
<1> SUFFICES ASSUME FlowInv, ActiveIsLive, [AuthNext]_authVars, activeId' # NoFlow
             PROVE  /\ activeId' \in flows'
                    /\ flow'[activeId'].state \notin Terminal /\ ~flow'[activeId'].aborted
                    /\ flow'[activeId'].timer = "ttl" /\ flow'[activeId'].login # "none"
    BY DEF ActiveIsLive
<1> USE AuthAssumption DEF FlowInv, FlowRecord, Terminal
<1>0. activeId' \in Flow BY FlowInvStep
<1>1. CASE StartLogin \/ LoginRefused \/ UNCHANGED authVars
      BY <1>1 DEF ActiveIsLive, StartLogin, LoginRefused, authVars
<1>2. ASSUME NEW f \in Flow, LoginStarts(f) PROVE activeId' \in flows' /\ flow'[activeId'] = NewFlow
      BY <1>2 DEF LoginStarts
<1>3. ASSUME NEW f \in Flow,
             Prompt(f) \/ WithdrawPrompt(f) \/ LoggedIn(f) \/ Submit(f)
      PROVE  /\ activeId' = activeId /\ flows' = flows
             /\ flow'[activeId].state \notin Terminal \/ flow'[activeId].state = flow[activeId].state
             /\ flow'[activeId].aborted = flow[activeId].aborted
             /\ flow'[activeId].timer = flow[activeId].timer
             /\ flow[activeId].login # "none" => flow'[activeId].login # "none"
  <2>0. activeId' = activeId /\ flows' = flows /\ activeId \in Flow
        BY <1>0, <1>3 DEF Prompt, WithdrawPrompt, LoggedIn, Submit
  <2>1. CASE Prompt(f) BY <2>0, <2>1 DEF Prompt
  <2>2. CASE WithdrawPrompt(f) BY <2>0, <2>2 DEF WithdrawPrompt
  <2>3. CASE LoggedIn(f) BY <2>0, <2>3 DEF LoggedIn
  <2>4. CASE Submit(f) BY <2>0, <2>4 DEF Submit
  <2> QED BY <1>3, <2>1, <2>2, <2>3, <2>4
<1>4. ASSUME NEW f \in Flow, RunEnds(f) \/ Cancel(f) \/ Timeout(f) \/ Forget(f)
      PROVE  /\ activeId' = activeId /\ activeId # f
             /\ activeId \in flows => activeId \in flows'
             /\ flow'[activeId] = flow[activeId]
  <2>1. CASE RunEnds(f) BY <1>0, <2>1 DEF RunEnds, Release
  <2>2. CASE Cancel(f) BY <1>0, <2>2 DEF Cancel, Release
  <2>3. CASE Timeout(f) BY <1>0, <2>3 DEF Timeout, Release, ActiveIsLive
  <2>4. CASE Forget(f) BY <1>0, <2>4 DEF Forget, Release
  <2> QED BY <1>4, <2>1, <2>2, <2>3, <2>4
<1>5. NewFlow.state \notin Terminal /\ ~NewFlow.aborted /\ NewFlow.timer = "ttl" /\ NewFlow.login # "none"
      BY DEF NewFlow
<1> QED BY <1>1, <1>2, <1>3, <1>4, <1>5 DEF AuthNext, ActiveIsLive

\* With calls of start() that do not overlap, the check of activeId is enough:
\* only the active flow is live, and none is while start() awaits the providers.
Alone ==
    /\ \A f \in Flow : Live(f) => f = activeId
    /\ logins > 0 => activeId = NoFlow

LEMMA AloneStep ==
  ASSUME MaxLogins = 1, FlowInv, ActiveIsLive, Alone, [AuthNext]_authVars
  PROVE  Alone'
<1> USE AuthAssumption DEF FlowInv, FlowRecord
<1>1. CASE StartLogin \/ LoginRefused \/ UNCHANGED authVars
      BY <1>1 DEF Alone, Live, StartLogin, LoginRefused, authVars
<1>2. ASSUME NEW f \in Flow, LoginStarts(f) PROVE Alone'
  <2>1. logins = 1 /\ logins' = 0 /\ activeId = NoFlow /\ activeId' = f
        BY <1>2 DEF LoginStarts, Alone
  <2>2. \A g \in Flow : g # f => ~Live(g)' BY <1>2, <2>1 DEF LoginStarts, Alone, Live
  <2> QED BY <2>1, <2>2 DEF Alone
<1>3. ASSUME NEW f \in Flow, Prompt(f) \/ WithdrawPrompt(f) \/ LoggedIn(f) \/ Submit(f)
      PROVE  Alone'
  <2>1. activeId' = activeId /\ flows' = flows /\ logins' = logins
        BY <1>3 DEF Prompt, WithdrawPrompt, LoggedIn, Submit
  <2>2. ASSUME NEW g \in Flow, Live(g)' PROVE Live(g)
    <3>1. CASE Prompt(f) BY <2>2, <3>1 DEF Prompt, Live, Sound
    <3>2. CASE WithdrawPrompt(f) BY <2>2, <3>2 DEF WithdrawPrompt, Live
    <3>3. CASE LoggedIn(f) BY <2>2, <3>3 DEF LoggedIn, Live
    <3>4. CASE Submit(f) BY <2>2, <3>4 DEF Submit, Live, Sound, Terminal
    <3> QED BY <1>3, <3>1, <3>2, <3>3, <3>4
  <2> QED BY <2>1, <2>2 DEF Alone
<1>4. ASSUME NEW f \in Flow, RunEnds(f) \/ Cancel(f) \/ Timeout(f) \/ Forget(f)
      PROVE  Alone'
  <2>1. logins' = logins /\ (activeId' = activeId \/ (activeId = f /\ activeId' = NoFlow))
        BY <1>4 DEF RunEnds, Cancel, Timeout, Forget, Release
  <2>2. ASSUME NEW g \in Flow, Live(g)' PROVE Live(g) /\ (activeId' = activeId \/ g # f)
    <3>1. CASE RunEnds(f) BY <2>1, <2>2, <3>1, OutcomeFields DEF RunEnds, Live, Sound
    <3>2. CASE Cancel(f) BY <2>1, <2>2, <3>2 DEF Cancel, Ended, Live
    <3>3. CASE Timeout(f) BY <2>1, <2>2, <3>3 DEF Timeout, Ended, Live
    <3>4. CASE Forget(f) BY <2>1, <2>2, <3>4 DEF Forget, Ended, Live
    <3> QED BY <1>4, <3>1, <3>2, <3>3, <3>4
  <2> QED BY <2>1, <2>2 DEF Alone
<1> QED BY <1>1, <1>2, <1>3, <1>4 DEF AuthNext

(* The theorems.                                                           *)

\* The flows of auth-flows.js are always well formed.
THEOREM AuthTypeCorrect == AuthSpec => []AuthTypeOK
<1>1. FlowInv => AuthTypeOK BY DEF FlowInv, AuthTypeOK
<1> QED BY <1>1, FlowInvInit, FlowInvStep, PTL DEF AuthSpec

\* No prompt promise is lost, however prompts, answers, cancellations and
\* deadlines interleave.
THEOREM PromptsHeldCorrect == AuthSpec => []PromptsHeld
<1>1. FlowInv => PromptsHeld BY DEF FlowInv, Sound, PromptsHeld
<1> QED BY <1>1, FlowInvInit, FlowInvStep, PTL DEF AuthSpec

\* The flow that blocks other logins is live, cancellable and has a deadline.
THEOREM ActiveIsLiveCorrect == AuthSpec => []ActiveIsLive
<1>1. AuthInit => ActiveIsLive BY DEF AuthInit, ActiveIsLive
<1> QED BY <1>1, FlowInvInit, FlowInvStep, ActiveStep, PTL DEF AuthSpec

\* Both together, as the runs check them: no login is left hanging in the SDK or
\* as the active one.
THEOREM LoginsHeldCorrect == AuthSpec => []LoginsHeld
<1>1. PromptsHeld /\ ActiveIsLive => LoginsHeld BY DEF LoginsHeld
<1> QED BY <1>1, PromptsHeldCorrect, ActiveIsLiveCorrect, PTL

\* Two flows need two overlapping calls of start(): one call at a time, at most
\* one login is live.
THEOREM OneActiveFlowCorrect == ASSUME MaxLogins = 1 PROVE AuthSpec => []OneActiveFlow
<1>1. AuthInit => ActiveIsLive /\ Alone BY DEF AuthInit, ActiveIsLive, Alone, Live
<1>2. FlowInv /\ ActiveIsLive /\ Alone /\ [AuthNext]_authVars => Alone' BY AloneStep
<1>3. Alone => OneActiveFlow BY DEF Alone, OneActiveFlow
<1> QED BY <1>1, <1>2, <1>3, FlowInvInit, FlowInvStep, ActiveStep, PTL DEF AuthSpec

(***************************************************************************)
(* GitHub device logins.                                                   *)
(***************************************************************************)

\* A flow being started is not registered yet, and a flow waits to be deleted
\* only when it has ended: what makes OneGitHubFlow inductive.
Started == \A f \in GFlow : f \in gstarting => f \notin gflows
DeletedEnded == \A f \in GFlow : gflow[f].timer = "delete" => gflow[f].state \in GTerminal

GitHubInv == GitHubTypeOK /\ Started /\ DeletedEnded /\ OneGitHubFlow

LEMMA GitHubInvInit == GitHubInit => GitHubInv
  BY ZenonT(40), GitHubAssumption
     DEF GitHubInit, GitHubInv, GitHubTypeOK, Started, DeletedEnded, OneGitHubFlow,
         NewGFlow, GRecord, GTerminal

\* A step that leaves the flow's state alone and does not set its delete timer.
LEMMA QuietStep ==
  ASSUME GitHubInv, NEW f \in GFlow, NEW r \in GRecord,
         r.state = gflow[f].state, r.timer # "delete",
         gflow' = [gflow EXCEPT ![f] = r], UNCHANGED <<gactive, gstarting, gflows, token>>
  PROVE  GitHubInv'
  BY DEF GitHubInv, GitHubTypeOK, Started, DeletedEnded, OneGitHubFlow

LEMMA FinishFields ==
  ASSUME NEW r \in GRecord, NEW s \in GTerminal
  PROVE  LET q == [r EXCEPT !.state = s, !.timer = "delete"] IN q \in GRecord /\ q.state = s
  BY DEF GRecord, GTerminal

\* A step that ends the flow.
LEMMA FinishStep ==
  ASSUME GitHubInv, NEW f \in gflows, NEW s \in GTerminal, NEW r \in GRecord,
         Finish(f, r, s), UNCHANGED <<gstarting, gflows>>, token' \in BOOLEAN
  PROVE  GitHubInv' /\ gflow'[f].state = s
<1> DEFINE q == [r EXCEPT !.state = s, !.timer = "delete"]
<1>0. f \in GFlow BY DEF GitHubInv, GitHubTypeOK
<1>1. gflow' = [gflow EXCEPT ![f] = q] BY DEF Finish
<1>2. q \in GRecord /\ q.state = s BY FinishFields
<1>3. gactive' = IF gactive = f THEN NoGFlow ELSE gactive BY DEF Finish, GRelease
<1>4. s # "waiting_user" BY DEF GTerminal
<1> HIDE DEF q
<1>5. /\ gflow' \in [GFlow -> GRecord] /\ gflow'[f].state = s
      /\ \A g \in GFlow \ {f} : gflow'[g] = gflow[g]
      BY <1>0, <1>1, <1>2 DEF GitHubInv, GitHubTypeOK
<1>6. GitHubTypeOK' /\ Started' BY <1>3, <1>5 DEF GitHubInv, GitHubTypeOK, Started
<1>7. DeletedEnded' BY <1>5 DEF GitHubInv, DeletedEnded
<1>8. OneGitHubFlow'
      BY <1>0, <1>3, <1>4, <1>5, GitHubAssumption DEF GitHubInv, OneGitHubFlow, Started
<1> QED BY <1>5, <1>6, <1>7, <1>8 DEF GitHubInv

LEMMA RecordsTyped ==
  ASSUME GitHubInv, NEW f \in GFlow
  PROVE  gflow[f] \in GRecord /\ Answered(f) \in GRecord
         /\ [gflow[f] EXCEPT !.aborted = TRUE] \in GRecord
  BY DEF GitHubInv, GitHubTypeOK, GRecord, Answered

LEMMA GitHubInvStep == GitHubInv /\ [GitHubNext]_gitHubVars => GitHubInv'
<1> SUFFICES ASSUME GitHubInv, [GitHubNext]_gitHubVars PROVE GitHubInv'
    OBVIOUS
<1> USE GitHubAssumption
    DEF GitHubInv, GitHubTypeOK, Started, DeletedEnded, OneGitHubFlow, GRecord, GTerminal
<1>1. CASE GLogout \/ UNCHANGED gitHubVars BY <1>1 DEF GLogout, gitHubVars
<1>2. ASSUME NEW f \in GFlow, GStart(f) PROVE GitHubInv'
      BY <1>2 DEF GStart, Unused
<1>3. ASSUME NEW f \in GFlow, DeviceCode(f) PROVE GitHubInv'
      BY <1>3 DEF DeviceCode, NewGFlow
<1>4. ASSUME NEW f \in GFlow, NoDeviceCode(f) PROVE GitHubInv'
      BY <1>4 DEF NoDeviceCode, GRelease
<1>5. ASSUME NEW f \in GFlow, Poll(f) PROVE GitHubInv'
  <2> DEFINE given == f \notin gflows \/ gflow[f].aborted
             q == [gflow[f] EXCEPT !.timer = "none"]
             r == [gflow[f] EXCEPT !.timer = "none", !.await = "device"]
  <2>0. UNCHANGED <<gstarting, gflows, token>> BY <1>5 DEF Poll
  <2>1. CASE gflow' = [gflow EXCEPT ![f] = q] /\ UNCHANGED gactive
    <3>1. q \in GRecord /\ q.state = gflow[f].state /\ q.timer # "delete" OBVIOUS
    <3> HIDE DEF q
    <3> QED BY <2>0, <2>1, <3>1, QuietStep
  <2>2. CASE f \in gflows /\ Finish(f, gflow[f], "error")
        BY <2>0, <2>2, FinishStep, RecordsTyped
  <2>3. CASE gflow' = [gflow EXCEPT ![f] = r] /\ UNCHANGED gactive
    <3>1. r \in GRecord /\ r.state = gflow[f].state /\ r.timer # "delete" OBVIOUS
    <3> HIDE DEF r
    <3> QED BY <2>0, <2>3, <3>1, QuietStep
  <2> QED BY ONLY <1>5, <2>1, <2>2, <2>3 DEF Poll
<1>6. ASSUME NEW f \in GFlow, TooLate(f) PROVE GitHubInv'
      BY <1>6 DEF TooLate
<1>7. ASSUME NEW f \in GFlow, Pending(f) PROVE GitHubInv'
  <2> DEFINE r == [gflow[f] EXCEPT !.await = "none", !.timer = "poll"]
  <2>1. gflow' = [gflow EXCEPT ![f] = r] /\ UNCHANGED <<gactive, gstarting, gflows, token>>
        BY <1>7 DEF Pending
  <2>2. r \in GRecord /\ r.state = gflow[f].state /\ r.timer # "delete" OBVIOUS
  <2> HIDE DEF r
  <2> QED BY <2>1, <2>2, QuietStep
<1>8. ASSUME NEW f \in GFlow, Confirmed(f) PROVE GitHubInv'
      BY <1>8 DEF Confirmed
<1>9. ASSUME NEW f \in GFlow, PollFails(f) PROVE GitHubInv'
      BY ZenonT(40), <1>9, FinishStep, RecordsTyped DEF PollFails, Abandoned
<1>10. ASSUME NEW f \in GFlow, SaveToken(f) PROVE GitHubInv'
      BY <1>10, FinishStep, RecordsTyped DEF SaveToken, Abandoned
<1>11. ASSUME NEW f \in GFlow, GCancel(f) PROVE GitHubInv'
      BY <1>11, FinishStep, RecordsTyped DEF GCancel
<1>12. ASSUME NEW f \in GFlow, GForget(f) PROVE GitHubInv'
      BY <1>12 DEF GForget
<1>13. ASSUME NEW f \in GFlow, Lapse(f) PROVE GitHubInv'
      BY ZenonT(40), <1>13 DEF Lapse
<1> QED BY <1>1, <1>2, <1>3, <1>4, <1>5, <1>6, <1>7, <1>8, <1>9, <1>10, <1>11, <1>12, <1>13
        DEF GitHubNext

\* Only SaveToken stores a token, and its flow is the active one.
LEMMA TokenStep ==
  GitHubInv /\ [GitHubNext]_gitHubVars =>
    (token' /\ ~token =>
        \E f \in GFlow : /\ gactive = f /\ ~gflow[f].aborted
                         /\ gflow[f].state = "waiting_user"
                         /\ gflow'[f].state = "complete")
<1> SUFFICES ASSUME GitHubInv, [GitHubNext]_gitHubVars, token', ~token
             PROVE  \E f \in GFlow : /\ gactive = f /\ ~gflow[f].aborted
                                     /\ gflow[f].state = "waiting_user"
                                     /\ gflow'[f].state = "complete"
    OBVIOUS
<1>1. PICK f \in GFlow : SaveToken(f)
  <2>1. ~(UNCHANGED gitHubVars) /\ ~GLogout BY DEF gitHubVars, GLogout
  <2>2. ASSUME NEW f \in GFlow
        PROVE  /\ ~GStart(f) /\ ~DeviceCode(f) /\ ~NoDeviceCode(f) /\ ~Poll(f) /\ ~TooLate(f)
               /\ ~Pending(f) /\ ~Confirmed(f) /\ ~PollFails(f) /\ ~GCancel(f) /\ ~GForget(f)
               /\ ~Lapse(f)
        BY DEF GStart, DeviceCode, NoDeviceCode, Poll, TooLate, Pending, Confirmed, PollFails,
               GCancel, GForget, Lapse
  <2> QED BY <2>1, <2>2 DEF GitHubNext
<1>2. /\ ~Abandoned(f) /\ Finish(f, Answered(f), "complete")
      /\ UNCHANGED <<gstarting, gflows>> /\ token' \in BOOLEAN
      BY <1>1 DEF SaveToken
<1>3. gflow'[f].state = "complete"
      BY <1>2, FinishStep, RecordsTyped DEF Abandoned, GTerminal
<1>4. gactive = f BY <1>2 DEF Abandoned, GitHubInv, OneGitHubFlow
<1> QED BY <1>2, <1>3, <1>4 DEF Abandoned

\* The flows of GitHubDeviceFlowManager are always well formed.
THEOREM GitHubTypeCorrect == GitHubSpec => []GitHubTypeOK
<1>1. GitHubInv => GitHubTypeOK BY DEF GitHubInv
<1> QED BY <1>1, GitHubInvInit, GitHubInvStep, PTL DEF GitHubSpec

\* One device login at a time: the one that is starting or waiting is the one
\* that makes start() refuse others.
THEOREM OneGitHubFlowCorrect == GitHubSpec => []OneGitHubFlow
<1>1. GitHubInv => OneGitHubFlow BY DEF GitHubInv
<1> QED BY <1>1, GitHubInvInit, GitHubInvStep, PTL DEF GitHubSpec

\* A cancelled, expired or superseded device login never stores a token.
THEOREM TokenOfActiveFlowCorrect == GitHubSpec => TokenOfActiveFlow
<1>1. GitHubInv /\ [GitHubNext]_gitHubVars =>
        [token' /\ ~token =>
          \E f \in GFlow : /\ gactive = f /\ ~gflow[f].aborted
                           /\ gflow[f].state = "waiting_user"
                           /\ gflow'[f].state = "complete"]_gitHubVars
      BY TokenStep
<1> QED BY <1>1, GitHubInvInit, GitHubInvStep, PTL DEF GitHubSpec, TokenOfActiveFlow

(***************************************************************************)
(* Child processes of workspaced.                                          *)
(***************************************************************************)

USE DEF disk, Each

(***************************************************************************)
(* Every variable keeps its type.                                          *)
(***************************************************************************)

LEMMA TypeStep == TypeOK /\ [Next]_vars => TypeOK'
<1> SUFFICES ASSUME TypeOK, [Next]_vars PROVE TypeOK'
  OBVIOUS
<1> USE ProviderAssumption DEF TypeOK, BeginStart, Detach, Terminate, Request
<1>1. ASSUME NEW n \in Name, Spawn(n) PROVE TypeOK'
  BY <1>1 DEF Spawn
<1>2. ASSUME NEW n \in Name, StartFails(n) PROVE TypeOK'
  BY <1>2 DEF StartFails
<1>3. ASSUME NEW n \in Name, Crash(n) PROVE TypeOK'
  BY <1>3 DEF Crash, RestartLater
<1>4. ASSUME NEW n \in Name, TimerFires(n) PROVE TypeOK'
  BY <1>4 DEF TimerFires
<1>5. ASSUME NEW n \in Name, Age(n) PROVE TypeOK'
  BY <1>5 DEF Age
<1>6. ASSUME NEW n \in Name, ScaleUp(n) PROVE TypeOK'
  BY <1>6 DEF ScaleUp
<1>7. ASSUME NEW n \in Name, ScaleDown(n) PROVE TypeOK'
  BY <1>7 DEF ScaleDown
<1>8. ASSUME NEW n \in Name, Create(n) PROVE TypeOK'
  BY <1>8 DEF Create
<1>9. ASSUME NEW n \in Name, Remove(n) PROVE TypeOK'
  BY <1>9 DEF Remove
<1>10. ASSUME NEW n \in Name, NEW keep \in BOOLEAN, SetPinned(n, keep) PROVE TypeOK'
  BY <1>10 DEF SetPinned
<1>11. ASSUME NEW n \in Name, NEW r \in Request, Ask(r, n) \/ Withdraw(r, n) PROVE TypeOK'
  BY <1>11 DEF Ask, Withdraw
<1>12. ASSUME NEW n \in Name, NEW r \in {"restart", "reset"}, Respawn(r, n) PROVE TypeOK'
  BY <1>12 DEF Respawn
<1>13. ASSUME NEW c \in Child, Exit(c) PROVE TypeOK'
  BY <1>13 DEF Exit
<1>14. CASE ServerRestart
  BY <1>14 DEF ServerRestart, BootStarts, Awake
<1>15. CASE UNCHANGED vars
  BY <1>15 DEF vars
<1>16. QED
  BY <1>1, <1>2, <1>3, <1>4, <1>5, <1>6, <1>7, <1>8, <1>9, <1>10, <1>11, <1>12, <1>13,
     <1>14, <1>15 DEF Next

\* Every variable keeps its type in every behaviour of the provider.
THEOREM TypeCorrect == Spec => []TypeOK
<1>1. Init => TypeOK
  BY ProviderAssumption DEF Init, TypeOK, BootStarts, Awake
<1>2. QED
  BY <1>1, TypeStep, PTL DEF Spec

(***************************************************************************)
(* procs tells the truth.  Spawn takes an identity no process has, so the  *)
(* invariant also needs that a process that was told to stop is still one. *)
(***************************************************************************)

KilledAreProcesses == \A c \in killed : runs[c] # NoName
ServingInv == TypeOK /\ RegisteredIsServing /\ KilledAreProcesses

LEMMA ServingStep == ServingInv /\ [Next]_vars => ServingInv'
<1> SUFFICES ASSUME ServingInv, [Next]_vars
             PROVE  RegisteredIsServing' /\ KilledAreProcesses'
  BY TypeStep DEF ServingInv
<1> DEFINE Goal == RegisteredIsServing' /\ KilledAreProcesses'
<1> USE ProviderAssumption DEF ServingInv, TypeOK, RegisteredIsServing, KilledAreProcesses,
        Workers, Detach, Terminate
<1>1. ASSUME NEW n \in Name, Spawn(n) PROVE Goal
  BY <1>1 DEF Spawn
<1>2. ASSUME NEW n \in Name, StartFails(n) PROVE Goal
  BY <1>2 DEF StartFails
<1>3. ASSUME NEW n \in Name, Crash(n) PROVE Goal
  BY <1>3 DEF Crash
<1>4. ASSUME NEW n \in Name, TimerFires(n) PROVE Goal
  BY <1>4 DEF TimerFires
<1>5. ASSUME NEW n \in Name, Age(n) PROVE Goal
  BY <1>5 DEF Age
<1>6. ASSUME NEW n \in Name, ScaleUp(n) PROVE Goal
  BY <1>6 DEF ScaleUp
<1>7. ASSUME NEW n \in Name, ScaleDown(n) PROVE Goal
  BY <1>7 DEF ScaleDown
<1>8. ASSUME NEW n \in Name, Create(n) PROVE Goal
  BY <1>8 DEF Create
<1>9. ASSUME NEW n \in Name, Remove(n) PROVE Goal
  BY <1>9 DEF Remove
<1>10. ASSUME NEW n \in Name, NEW keep \in BOOLEAN, SetPinned(n, keep) PROVE Goal
  BY <1>10 DEF SetPinned
<1>11. ASSUME NEW n \in Name, NEW r \in Request, Ask(r, n) \/ Withdraw(r, n) PROVE Goal
  BY <1>11 DEF Ask, Withdraw
<1>12. ASSUME NEW n \in Name, NEW r \in {"restart", "reset"}, Respawn(r, n) PROVE Goal
  BY <1>12 DEF Respawn
<1>13. ASSUME NEW c \in Child, Exit(c) PROVE Goal
  BY <1>13 DEF Exit
<1>14. CASE ServerRestart
  BY <1>14 DEF ServerRestart
<1>15. CASE UNCHANGED vars
  BY <1>15 DEF vars
<1>16. QED
  BY <1>1, <1>2, <1>3, <1>4, <1>5, <1>6, <1>7, <1>8, <1>9, <1>10, <1>11, <1>12, <1>13,
     <1>14, <1>15 DEF Next

\* A registered child is alive, runs that workspace and was not told to stop.
THEOREM RegisteredCorrect == Spec => []RegisteredIsServing
<1>1. Init => ServingInv
  BY ProviderAssumption
     DEF Init, ServingInv, TypeOK, RegisteredIsServing, KilledAreProcesses, BootStarts, Awake
<1>2. ServingInv => RegisteredIsServing
  BY DEF ServingInv
<1>3. QED
  BY <1>1, <1>2, ServingStep, PTL DEF Spec

(***************************************************************************)
(* No awake workspace is forgotten.  The invariant is inductive with the   *)
(* type invariant: whoever empties procs leaves a start, a timer or the    *)
(* fatal mark behind, and whoever uses one of these up fills procs.        *)
(***************************************************************************)

StrandedInv == TypeOK /\ NobodyStranded

LEMMA StrandedStep == StrandedInv /\ [Next]_vars => StrandedInv'
<1> SUFFICES ASSUME StrandedInv, [Next]_vars PROVE NobodyStranded'
  BY TypeStep DEF StrandedInv
<1> USE ProviderAssumption DEF StrandedInv, TypeOK, NobodyStranded, Awake, BeginStart, Detach, Request
<1>1. ASSUME NEW n \in Name, Spawn(n) PROVE NobodyStranded'
  BY <1>1 DEF Spawn
<1>2. ASSUME NEW n \in Name, StartFails(n) PROVE NobodyStranded'
  BY <1>2 DEF StartFails
<1>3. ASSUME NEW n \in Name, Crash(n) PROVE NobodyStranded'
  BY <1>3 DEF Crash, RestartLater
<1>4. ASSUME NEW n \in Name, TimerFires(n) PROVE NobodyStranded'
  BY <1>4 DEF TimerFires
<1>5. ASSUME NEW n \in Name, Age(n) PROVE NobodyStranded'
  BY <1>5 DEF Age
<1>6. ASSUME NEW n \in Name, ScaleUp(n) PROVE NobodyStranded'
  BY <1>6 DEF ScaleUp
<1>7. ASSUME NEW n \in Name, ScaleDown(n) PROVE NobodyStranded'
  BY <1>7 DEF ScaleDown
<1>8. ASSUME NEW n \in Name, Create(n) PROVE NobodyStranded'
  BY <1>8 DEF Create
<1>9. ASSUME NEW n \in Name, Remove(n) PROVE NobodyStranded'
  BY <1>9 DEF Remove
<1>10. ASSUME NEW n \in Name, NEW keep \in BOOLEAN, SetPinned(n, keep) PROVE NobodyStranded'
  BY <1>10 DEF SetPinned
<1>11. ASSUME NEW n \in Name, NEW r \in Request, Ask(r, n) \/ Withdraw(r, n) PROVE NobodyStranded'
  BY <1>11 DEF Ask, Withdraw
<1>12. ASSUME NEW n \in Name, NEW r \in {"restart", "reset"}, Respawn(r, n) PROVE NobodyStranded'
  BY <1>12 DEF Respawn
<1>13. ASSUME NEW c \in Child, Exit(c) PROVE NobodyStranded'
  BY <1>13 DEF Exit
<1>14. CASE ServerRestart
  BY <1>14 DEF ServerRestart, BootStarts
<1>15. CASE UNCHANGED vars
  BY <1>15 DEF vars
<1>16. QED
  BY <1>1, <1>2, <1>3, <1>4, <1>5, <1>6, <1>7, <1>8, <1>9, <1>10, <1>11, <1>12, <1>13,
     <1>14, <1>15 DEF Next

\* An awake workspace without a worker has a start or a restart on its way,
\* was given up, or a caller was told that its start failed.
THEOREM NobodyStrandedCorrect == Spec => []NobodyStranded
<1>1. Init => StrandedInv
  BY ProviderAssumption DEF Init, StrandedInv, TypeOK, NobodyStranded, BootStarts, Awake
<1>2. StrandedInv => NobodyStranded
  BY DEF StrandedInv
<1>3. QED
  BY <1>1, <1>2, StrandedStep, PTL DEF Spec

(***************************************************************************)
(* One worker per workspace, when calls do not overlap a start.  A start   *)
(* in flight is then the only one, and no child is registered meanwhile.   *)
(***************************************************************************)

OnlyRegistered == \A c \in Child, n \in Name : c \in Workers(n) => procs[n] = c
StartsAlone == \A n \in Name : starts[n] > 0 => starts[n] = 1 /\ procs[n] = NoChild
OneInv == ServingInv /\ OnlyRegistered /\ StartsAlone

LEMMA OneStep == Serial /\ OneInv /\ [Next]_vars => OneInv'
<1> SUFFICES ASSUME Serial, OneInv, [Next]_vars PROVE OnlyRegistered' /\ StartsAlone'
  BY ServingStep DEF OneInv
<1> DEFINE Goal == OnlyRegistered' /\ StartsAlone'
<1> USE ProviderAssumption DEF OneInv, ServingInv, TypeOK, RegisteredIsServing,
        KilledAreProcesses, OnlyRegistered, StartsAlone, Workers, BeginStart, Detach,
        Terminate, Free
<1>1. ASSUME NEW n \in Name, Spawn(n) PROVE Goal
  BY <1>1 DEF Spawn
<1>2. ASSUME NEW n \in Name, StartFails(n) PROVE Goal
  BY <1>2 DEF StartFails
<1>3. ASSUME NEW n \in Name, Crash(n) PROVE Goal
  BY <1>3 DEF Crash, RestartLater
<1>4. ASSUME NEW n \in Name, TimerFires(n) PROVE Goal
  BY <1>4 DEF TimerFires
<1>5. ASSUME NEW n \in Name, Age(n) PROVE Goal
  BY <1>5 DEF Age
<1>6. ASSUME NEW n \in Name, ScaleUp(n) PROVE Goal
  BY <1>6 DEF ScaleUp
<1>7. ASSUME NEW n \in Name, ScaleDown(n) PROVE Goal
  BY <1>7 DEF ScaleDown
<1>8. ASSUME NEW n \in Name, Create(n) PROVE Goal
  BY <1>8 DEF Create
<1>9. ASSUME NEW n \in Name, Remove(n) PROVE Goal
  BY <1>9 DEF Remove
<1>10. ASSUME NEW n \in Name, NEW keep \in BOOLEAN, SetPinned(n, keep) PROVE Goal
  BY <1>10 DEF SetPinned
<1>11. ASSUME NEW n \in Name, NEW r \in Request, Ask(r, n) \/ Withdraw(r, n) PROVE Goal
  BY <1>11 DEF Ask, Withdraw
<1>12. ASSUME NEW n \in Name, NEW r \in {"restart", "reset"}, Respawn(r, n) PROVE Goal
  BY <1>12 DEF Respawn
<1>13. ASSUME NEW c \in Child, Exit(c) PROVE Goal
  BY <1>13 DEF Exit
<1>14. CASE ServerRestart
  BY <1>14 DEF ServerRestart, BootStarts
<1>15. CASE UNCHANGED vars
  BY <1>15 DEF vars
<1>16. QED
  BY <1>1, <1>2, <1>3, <1>4, <1>5, <1>6, <1>7, <1>8, <1>9, <1>10, <1>11, <1>12, <1>13,
     <1>14, <1>15 DEF Next

\* With calls that never overlap a start, a workspace never has two workers.
THEOREM OneWorkerCorrect == ASSUME Serial PROVE Spec => []OneWorker
<1>1. Init => OneInv
  BY ProviderAssumption
     DEF Init, OneInv, ServingInv, TypeOK, RegisteredIsServing, KilledAreProcesses,
         OnlyRegistered, StartsAlone, Workers, BootStarts, Awake
<1>2. OneInv => OneWorker
  BY DEF OneInv, OnlyRegistered, OneWorker, Workers
<1>3. OneInv /\ [Next]_vars => OneInv'
  BY OneStep
<1>4. QED
  BY <1>1, <1>2, <1>3, PTL DEF Spec

\* Only a death nobody asked for is counted as a crash.
THEOREM OnlyCrashesCountCorrect == Spec => OnlyCrashesCount
<1> DEFINE Counted ==
      \A n \in Name : recent'[n] > recent[n] =>
          /\ procs[n] # NoChild /\ procs[n] \notin killed
          /\ procs'[n] = NoChild /\ runs'[procs[n]] = NoName
<1>1. ServingInv /\ [Next]_vars => [Counted]_vars
  <2> SUFFICES ASSUME ServingInv, [Next]_vars PROVE Counted
    OBVIOUS
  <2> USE ProviderAssumption DEF ServingInv, TypeOK, RegisteredIsServing, Workers, Detach
  <2>1. ASSUME NEW n \in Name, Spawn(n) PROVE Counted
    BY <2>1 DEF Spawn
  <2>2. ASSUME NEW n \in Name, StartFails(n) PROVE Counted
    BY <2>2 DEF StartFails
  <2>3. ASSUME NEW n \in Name, Crash(n) PROVE Counted
    BY <2>3 DEF Crash, RestartLater
  <2>4. ASSUME NEW n \in Name, TimerFires(n) PROVE Counted
    BY <2>4 DEF TimerFires
  <2>5. ASSUME NEW n \in Name, Age(n) PROVE Counted
    BY <2>5 DEF Age
  <2>6. ASSUME NEW n \in Name, ScaleUp(n) PROVE Counted
    BY <2>6 DEF ScaleUp
  <2>7. ASSUME NEW n \in Name, ScaleDown(n) PROVE Counted
    BY <2>7 DEF ScaleDown
  <2>8. ASSUME NEW n \in Name, Create(n) PROVE Counted
    BY <2>8 DEF Create
  <2>9. ASSUME NEW n \in Name, Remove(n) PROVE Counted
    BY <2>9 DEF Remove
  <2>10. ASSUME NEW n \in Name, NEW keep \in BOOLEAN, SetPinned(n, keep) PROVE Counted
    BY <2>10 DEF SetPinned
  <2>11. ASSUME NEW n \in Name, NEW r \in Request, Ask(r, n) \/ Withdraw(r, n) PROVE Counted
    BY <2>11 DEF Ask, Withdraw
  <2>12. ASSUME NEW n \in Name, NEW r \in {"restart", "reset"}, Respawn(r, n) PROVE Counted
    BY <2>12 DEF Respawn
  <2>13. ASSUME NEW c \in Child, Exit(c) PROVE Counted
    BY <2>13 DEF Exit
  <2>14. CASE ServerRestart
    BY <2>14 DEF ServerRestart, BootStarts
  <2>15. CASE UNCHANGED vars
    BY <2>15 DEF vars
  <2>16. QED
    BY <2>1, <2>2, <2>3, <2>4, <2>5, <2>6, <2>7, <2>8, <2>9, <2>10, <2>11, <2>12, <2>13,
       <2>14, <2>15 DEF Next
<1>2. Init => ServingInv
  BY ProviderAssumption
     DEF Init, ServingInv, TypeOK, RegisteredIsServing, KilledAreProcesses, BootStarts, Awake
<1>3. QED
  BY <1>1, <1>2, ServingStep, PTL DEF Spec, OnlyCrashesCount

(***************************************************************************)
(* The three together.                                                     *)
(***************************************************************************)

\* Every variable of the three managers keeps its type.
THEOREM ManagersTypeCorrect == ManagersSpec => []ManagersTypeOK
<1>1. ManagersInit => TypeOK /\ FlowInv /\ GitHubInv
  <2>1. Init => TypeOK
    BY ProviderAssumption DEF Init, TypeOK, BootStarts, Awake
  <2>2. QED
    BY <2>1, FlowInvInit, GitHubInvInit DEF ManagersInit
<1>2. [ManagersNext]_managerVars => [Next]_vars /\ [AuthNext]_authVars /\ [GitHubNext]_gitHubVars
  BY DEF ManagersNext, managerVars
<1>3. FlowInv => AuthTypeOK
  BY DEF FlowInv, AuthTypeOK
<1>4. GitHubInv => GitHubTypeOK
  BY DEF GitHubInv
<1>5. QED
  BY <1>1, <1>2, <1>3, <1>4, TypeStep, FlowInvStep, GitHubInvStep, PTL DEF ManagersSpec, ManagersTypeOK
=============================================================================
