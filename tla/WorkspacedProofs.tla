-------------------------- MODULE WorkspacedProofs --------------------------
(***************************************************************************)
(* Theorems about Workspaced, for any set of workspaces and requests, any  *)
(* limit and any choice of operations.                                     *)
(***************************************************************************)
EXTENDS Workspaced, FiniteSetTheorems, SequenceTheorems, TLAPS

USE DEF provider, cache, waking, moving

\* The abbreviations that every step unfolds.
LEMMA Constants == /\ NoSeen \in [Name -> Phase] /\ IdleReq \in Request
                   /\ NoRun \in Run /\ IdleAdmin \in Call
BY DEF NoSeen, IdleReq, Request, NoRun, Run, IdleAdmin, Call, Kind, Route, Phase

\* Counting workspaces or requests gives a natural number.
LEMMA Counting ==
    /\ \A S \in SUBSET Name : Cardinality(S) \in Nat
    /\ \A S \in SUBSET Req : IsFiniteSet(S) /\ Cardinality(S) \in Nat
BY WorkspacedAssumption, FS_Subset, FS_CardinalityType

(***************************************************************************)
(* Every variable keeps its type.                                          *)
(***************************************************************************)

LEMMA RoomTypes ==
    ASSUME TypeOK, NEW m \in Maker, NEW keep \in Name \cup {NoName}, NEW reserve \in {0, 1},
           MakeRoom(m, keep, reserve)
    PROVE  run' \in [Maker -> Run] /\ known' \in [Name -> Phase] /\ fresh' \in BOOLEAN
<1>1. {n \in Name \ {keep} : Awake(n)} \in SUBSET Name /\ Candidates(keep) \in SUBSET Name
  BY DEF Candidates
<1>2. Cardinality({n \in Name \ {keep} : Awake(n)}) + reserve - MaxAwake \in Int
  BY <1>1, Counting, WorkspacedAssumption
<1>3. [NoRun EXCEPT !.todo = Candidates(keep),
                    !.excess = Cardinality({n \in Name \ {keep} : Awake(n)}) + reserve - MaxAwake]
        \in Run
  BY <1>1, <1>2 DEF NoRun, Run
<1>4. QED
  BY <1>3 DEF MakeRoom, Refresh, TypeOK

LEMMA SettleTypes ==
    ASSUME TypeOK, queue # <<>>, NEW outcome \in {"awake", "starting", "error"}, Settle(outcome)
    PROVE  /\ queue' \in Seq(Name) /\ wake' \in {"idle", "room", "poll"}
           /\ run' \in [Maker -> Run] /\ reqs' \in [Req -> Request] /\ inflight' \in [Name -> Nat]
<1>1. Head(queue) \in Name /\ Tail(queue) \in Seq(Name)
  BY HeadTailProperties DEF TypeOK
<1>2. \A r \in Req : After(outcome, reqs[r]) \in Request
  BY Constants DEF After, TypeOK, Request, Kind
<1>3. Cardinality(Going(outcome, Head(queue))) \in Nat
  BY Counting DEF Going, Waiters
<1>4. inflight' \in [Name -> Nat]
  BY <1>1, <1>3 DEF Settle, TypeOK
<1>5. run' \in [Maker -> Run]
  BY Constants DEF Settle, TypeOK
<1>6. QED
  BY <1>1, <1>2, <1>4, <1>5 DEF Settle, TypeOK

LEMMA DecideTypes ==
    ASSUME TypeOK, NEW r \in Req, NEW n \in Name, NEW k \in Kind, NEW state \in Phase,
           Decide(r, n, k, state)
    PROVE  /\ reqs' \in [Req -> Request] /\ inflight' \in [Name -> Nat] /\ queue' \in Seq(Name)
<1>1. CASE Forward(r, n, k)
  <2>1. [pc |-> "sent", name |-> n, kind |-> k, seen |-> NoSeen] \in Request
    BY Constants DEF Request
  <2>2. QED
    BY <1>1, <2>1 DEF Forward, TypeOK
<1>2. CASE Answer(r)
  BY <1>2, Constants DEF Answer, TypeOK
<1>3. CASE Wait(r, n, k)
  <2>1. [pc |-> "waiting", name |-> n, kind |-> k, seen |-> NoSeen] \in Request
    BY Constants DEF Request
  <2>2. QED
    BY <1>3, <2>1, AppendProperties DEF Wait, TypeOK
<1>4. QED
  BY <1>1, <1>2, <1>3 DEF Decide

\* A request that is being served names a workspace.
Named == \A r \in Req : reqs[r].pc # "idle" => reqs[r].name \in Name

\* What Proceed changes.
LEMMA ProceedTypes ==
    ASSUME TypeOK, NEW op \in Route, NEW n \in Name \cup {NoName}, NEW cached \in BOOLEAN,
           Proceed(op, n, cached)
    PROVE  /\ admin' \in Call /\ phase' \in [Name -> Phase] /\ turn' \subseteq Name
           /\ fresh' \in BOOLEAN
<1>1. admin' \in Call
  BY Constants DEF Proceed, Call
<1>2. phase' \in [Name -> Phase]
  BY DEF Proceed, TypeOK, Phase
<1>3. QED
  BY <1>1, <1>2 DEF Proceed, TypeOK

\* doWake runs for the head of the queue.
HeadWoken == wake # "idle" => queue # <<>>

TypeInv == TypeOK /\ Named /\ HeadWoken

LEMMA NamedStep == TypeInv /\ [Next]_vars => Named'
<1> SUFFICES ASSUME TypeInv, [Next]_vars, NEW q \in Req, reqs'[q].pc # "idle"
             PROVE  reqs'[q].name \in Name
  BY DEF Named
<1> USE DEF TypeInv
<1>1. reqs'[q] = reqs[q] => reqs'[q].name \in Name
  BY DEF Named
<1>2. ASSUME NEW n \in Name, NEW r \in Req, NEW k \in Kind, Arrive(r, n, k)
      PROVE reqs'[q].name \in Name
  BY <1>1, <1>2 DEF Arrive, Decide, Forward, Answer, Wait, TypeOK, IdleReq
<1>3. ASSUME NEW r \in Req, Listed(r) PROVE reqs'[q].name \in Name
  BY <1>1, <1>3 DEF Listed, Decide, Forward, Answer, Wait, TypeOK, IdleReq, Named
<1>4. ASSUME NEW r \in Req, Done(r) PROVE reqs'[q].name \in Name
  BY <1>1, <1>4 DEF Done, TypeOK, IdleReq
<1>5. CASE WakeStep
  <2>1. ASSUME NEW outcome \in {"awake", "starting", "error"}, Settle(outcome)
        PROVE reqs'[q].name \in Name
    BY <1>1, <2>1 DEF Settle, After, Waiters, TypeOK, IdleReq, Request, Named
  <2>2. QED
    BY <1>1, <1>5, <2>1 DEF WakeStep, WakeStarts, WakeScales, WakeThrows, WakeFails,
       WakeSucceeds, WakePolls, WakeTimesOut
<1>6. ASSUME NEW n \in Name, NEW op \in Route, NEW force \in BOOLEAN, AdminArrives(op, n, force)
      PROVE reqs'[q].name \in Name
  BY <1>1, <1>6 DEF AdminArrives
<1>7. QED
  <2>1. ASSUME NEW n \in Name, WorkerStep(n) \/ Remove(n) \/ Pin(n) PROVE reqs' = reqs
    BY <2>1 DEF WorkerStep, WorkerReady, WorkerFails, WorkerCrashes, Worker, TurnStarts,
       TurnEnds, Remove, Pin
  <2>2. ASSUME NEW m \in Maker, MakerStep(m) PROVE reqs' = reqs
    BY <2>2 DEF MakerStep, Probe, ProbedBusy, ProbedIdle
  <2>3. SweepStep \/ AdminStep \/ CacheExpires \/ UNCHANGED vars => reqs' = reqs
    BY DEF SweepStep, SweepStarts, SweepLimit, SweepUpgrades, Upgrade, SweepEnds, AdminStep,
       AdminProbed, AdminMakesRoom, Create, Restart, AdminEnds, CacheExpires, vars
  <2>4. QED
    BY <1>1, <1>2, <1>3, <1>4, <1>5, <1>6, <2>1, <2>2, <2>3 DEF Next, Step

LEMMA HeadStep == TypeInv /\ [Next]_vars => HeadWoken'
<1> SUFFICES ASSUME TypeOK, Named, HeadWoken, [Next]_vars PROVE HeadWoken'
  BY DEF TypeInv
<1>1. ASSUME NEW r \in Req, NEW n \in Name, NEW k \in Kind, NEW state, Decide(r, n, k, state)
      PROVE  queue # <<>> => queue' # <<>>
  BY <1>1, AppendProperties DEF Decide, Forward, Answer, Wait, TypeOK
<1>2. ASSUME NEW n \in Name, NEW r \in Req, NEW k \in Kind, Arrive(r, n, k) PROVE HeadWoken'
  BY <1>1, <1>2 DEF Arrive, HeadWoken
<1>3. ASSUME NEW r \in Req, Listed(r) PROVE HeadWoken'
  <2>1. reqs[r].name \in Name /\ reqs[r].kind \in Kind
    BY <1>3 DEF Listed, Named, TypeOK, Request
  <2>2. QED
    BY <1>1, <1>3, <2>1 DEF Listed, HeadWoken
<1>4. CASE WakeStep
  BY <1>4 DEF WakeStep, WakeStarts, WakeScales, WakeThrows, WakeFails, WakeSucceeds, WakePolls,
     WakeTimesOut, Settle, HeadWoken
<1>5. QED
  <2>1. ASSUME NEW n \in Name, WorkerStep(n) \/ Remove(n) \/ Pin(n) PROVE UNCHANGED waking
    BY <2>1 DEF WorkerStep, WorkerReady, WorkerFails, WorkerCrashes, Worker, TurnStarts,
       TurnEnds, Remove, Pin
  <2>2. ASSUME NEW n \in Name, NEW op \in Route, NEW force \in BOOLEAN, AdminArrives(op, n, force)
        PROVE UNCHANGED waking
    BY <2>2 DEF AdminArrives
  <2>3. ASSUME NEW m \in Maker, MakerStep(m) PROVE UNCHANGED waking
    BY <2>3 DEF MakerStep, Probe, ProbedBusy, ProbedIdle
  <2>4. ASSUME NEW r \in Req, Done(r) PROVE UNCHANGED waking
    BY <2>4 DEF Done
  <2>5. SweepStep \/ AdminStep \/ CacheExpires \/ UNCHANGED vars => UNCHANGED waking
    BY DEF SweepStep, SweepStarts, SweepLimit, SweepUpgrades, Upgrade, SweepEnds, AdminStep,
       AdminProbed, AdminMakesRoom, Create, Restart, AdminEnds, CacheExpires, vars
  <2>6. QED
    BY <1>2, <1>3, <1>4, <2>1, <2>2, <2>3, <2>4, <2>5 DEF Next, Step, HeadWoken

LEMMA TypeStep == TypeInv /\ [Next]_vars => TypeOK'
<1> SUFFICES ASSUME TypeOK, Named, HeadWoken, [Next]_vars PROVE TypeOK'
  BY DEF TypeInv
<1>0. ops' \in Deployments
  BY DEF Next, TypeOK, vars
<1> USE <1>0
<1>1. ASSUME NEW n \in Name, WorkerStep(n) PROVE TypeOK'
  <2>1. phase' \in [Name -> Phase] /\ turn' \subseteq Name
    BY <1>1 DEF WorkerStep, WorkerReady, WorkerFails, WorkerCrashes, Worker, TurnStarts,
       TurnEnds, TypeOK, Phase
  <2>2. UNCHANGED <<pinned, outdated, inflight, cache, waking, sweep, run, admin, reqs>>
    BY <1>1 DEF WorkerStep, WorkerReady, WorkerFails, WorkerCrashes, Worker, TurnStarts, TurnEnds
  <2>3. QED
    BY <2>1, <2>2 DEF TypeOK
<1>2. ASSUME NEW n \in Name, Remove(n) \/ Pin(n) PROVE TypeOK'
  BY <1>2 DEF Remove, Pin, TypeOK, Phase
<1>3. ASSUME NEW n \in Name, NEW op \in Route, NEW force \in BOOLEAN, AdminArrives(op, n, force)
      PROVE TypeOK'
  <2>1. known' \in [Name -> Phase]
    BY <1>3 DEF AdminArrives, TypeOK
  <2>2. /\ admin' \in Call /\ phase' \in [Name -> Phase] /\ turn' \subseteq Name
        /\ fresh' \in BOOLEAN
    <3>1. CASE \E cached \in BOOLEAN : Proceed(op, n, cached)
      BY <3>1, ProceedTypes
    <3>2. CASE /\ admin' = [pc |-> "probe", op |-> op, name |-> n]
               /\ fresh' \in BOOLEAN /\ UNCHANGED <<phase, turn>>
      BY <3>2 DEF Call, TypeOK
    <3>3. QED
      BY <1>3, <3>1, <3>2 DEF AdminArrives, TypeOK
  <2>3. QED
    BY <1>3, <2>1, <2>2 DEF AdminArrives, TypeOK
<1>4. ASSUME NEW n \in Name, NEW r \in Req, NEW k \in Kind, Arrive(r, n, k) PROVE TypeOK'
  <2>1. /\ reqs' \in [Req -> Request] /\ inflight' \in [Name -> Nat] /\ queue' \in Seq(Name)
    <3>1. CASE Decide(r, n, k, known[n])
      BY <3>1, DecideTypes DEF TypeOK
    <3>2. CASE /\ reqs' = [reqs EXCEPT ![r] = [pc |-> "listing", name |-> n, kind |-> k,
                                               seen |-> phase]]
               /\ UNCHANGED <<inflight, queue>>
      <4>1. [pc |-> "listing", name |-> n, kind |-> k, seen |-> phase] \in Request
        BY DEF Request, TypeOK
      <4>2. QED
        BY <3>2, <4>1 DEF TypeOK
    <3>3. QED
      BY <1>4, <3>1, <3>2 DEF Arrive
  <2>2. QED
    BY <1>4, <2>1 DEF Arrive, TypeOK
<1>5. ASSUME NEW r \in Req, Listed(r) PROVE TypeOK'
  <2>1. /\ reqs[r].name \in Name /\ reqs[r].kind \in Kind /\ reqs[r].seen \in [Name -> Phase]
    BY <1>5 DEF Listed, Named, TypeOK, Request
  <2>2. /\ reqs' \in [Req -> Request] /\ inflight' \in [Name -> Nat] /\ queue' \in Seq(Name)
    BY <1>5, <2>1, DecideTypes DEF Listed
  <2>3. QED
    BY <1>5, <2>1, <2>2 DEF Listed, TypeOK
<1>6. ASSUME NEW r \in Req, Done(r) PROVE TypeOK'
  <2>1. /\ reqs' \in [Req -> Request] /\ inflight' \in [Name -> Nat]
    BY <1>6, Constants DEF Done, TypeOK, Named
  <2>2. QED
    BY <1>6, <2>1 DEF Done, TypeOK
<1>7. ASSUME NEW m \in Maker, MakerStep(m) PROVE TypeOK'
  <2>1. run' \in [Maker -> Run]
    <3>1. run[m] \in Run
      BY DEF TypeOK
    <3>2. CASE Probe(m)
      <4>1. run[m].todo \subseteq Name
        BY <3>1 DEF Run
      <4>2. PICK n \in run[m].todo, p \in Name \cup {NoName} :
               run' = [run EXCEPT ![m].todo = @ \ {n}, ![m].probe = p]
        BY ZenonT(40), <3>2, <4>1 DEF Probe
      <4>3. [run[m] EXCEPT !.todo = @ \ {n}, !.probe = p] \in Run
        BY <3>1 DEF Run
      <4>4. run' = [run EXCEPT ![m] = [run[m] EXCEPT !.todo = @ \ {n}, !.probe = p]]
        BY <4>2
      <4>5. QED
        BY <4>3, <4>4 DEF TypeOK
    <3>3. CASE ProbedBusy(m)
      BY <3>1, <3>3 DEF ProbedBusy, TypeOK, Run
    <3>4. CASE ProbedIdle(m)
      <4> DEFINE fewer == run[m].excess - 1
      <4>1. [run[m] EXCEPT !.probe = NoName, !.excess = fewer] \in Run
        <5>1. fewer \in Int
          BY <3>1 DEF Run
        <5> HIDE DEF fewer
        <5>2. QED
          BY <3>1, <5>1 DEF Run
      <4>2. [run[m] EXCEPT !.probe = NoName] \in Run
        BY <3>1 DEF Run
      <4>3. \/ run' = [run EXCEPT ![m] = [run[m] EXCEPT !.probe = NoName, !.excess = fewer]]
            \/ run' = [run EXCEPT ![m] = [run[m] EXCEPT !.probe = NoName]]
        BY <3>4 DEF ProbedIdle
      <4>4. QED
        BY <4>1, <4>2, <4>3 DEF TypeOK
    <3>5. QED
      BY <1>7, <3>2, <3>3, <3>4 DEF MakerStep
  <2>2. /\ phase' \in [Name -> Phase] /\ turn' \subseteq Name /\ fresh' \in BOOLEAN
    BY <1>7 DEF MakerStep, Probe, ProbedBusy, ProbedIdle, PutToSleep, TypeOK, Phase
  <2>3. UNCHANGED <<pinned, outdated, inflight, known, waking, sweep, admin, reqs>>
    BY <1>7 DEF MakerStep, Probe, ProbedBusy, ProbedIdle, PutToSleep
  <2>4. QED
    BY <2>1, <2>2, <2>3 DEF TypeOK
<1>8. CASE SweepStep
  <2> DEFINE Kept == UNCHANGED <<pinned, inflight, waking, admin, reqs>>
  <2>1. CASE SweepStarts
    <3>1. CASE MakeRoom("sweep", NoName, 0)
      BY <2>1, <3>1, RoomTypes DEF SweepStarts, TypeOK, Maker
    <3>2. CASE "idle" \in ops
      <4>1. [NoRun EXCEPT !.todo = Candidates(NoName), !.excess = Cardinality(Candidates(NoName))]
              \in Run
        <5>1. Candidates(NoName) \in SUBSET Name
          BY DEF Candidates
        <5>2. Cardinality(Candidates(NoName)) \in Int
          BY <5>1, Counting
        <5>3. QED
          BY <5>1, <5>2 DEF NoRun, Run
      <4>2. QED
        BY <2>1, <3>2, <4>1 DEF SweepStarts, Refresh, TypeOK
    <3>3. QED
      BY <2>1, <3>1, <3>2 DEF SweepStarts
  <2>2. CASE SweepLimit
    BY <2>2, RoomTypes DEF SweepLimit, TypeOK, Maker
  <2>3. CASE SweepUpgrades
    <3> DEFINE slept == {n \in outdated : phase[n] = "sleeping"}
               todo == slept \cup (outdated \cap Candidates(NoName))
    <3>1. slept \subseteq Name /\ todo \subseteq Name
      BY DEF TypeOK
    <3>2. Cardinality(todo) \in Int
      BY <3>1, Counting
    <3>3. [todo |-> todo, slept |-> slept, probe |-> NoName, excess |-> Cardinality(todo)] \in Run
      BY <3>1, <3>2 DEF Run
    <3>4. QED
      BY <2>3, <3>3 DEF SweepUpgrades, Refresh, TypeOK
  <2>4. CASE Upgrade
    <3>1. run["sweep"] \in Run
      BY DEF TypeOK, Maker
    <3>2. run' \in [Maker -> Run]
      <4>1. PICK n \in Name :
               \/ run' = [run EXCEPT !["sweep"].probe = NoName]
               \/ run' = [run EXCEPT !["sweep"].todo = @ \ {n}]
        BY <2>4 DEF Upgrade
      <4>2. /\ [run["sweep"] EXCEPT !.probe = NoName] \in Run
            /\ [run["sweep"] EXCEPT !.todo = @ \ {n}] \in Run
        BY <3>1 DEF Run
      <4>3. \/ run' = [run EXCEPT !["sweep"] = [run["sweep"] EXCEPT !.probe = NoName]]
            \/ run' = [run EXCEPT !["sweep"] = [run["sweep"] EXCEPT !.todo = @ \ {n}]]
        BY <4>1
      <4>4. QED
        BY <4>2, <4>3 DEF TypeOK
    <3>3. phase' \in [Name -> Phase] /\ turn' \subseteq Name /\ outdated' \subseteq Name
      BY <2>4 DEF Upgrade, TypeOK, Phase
    <3>4. QED
      BY <2>4, <3>2, <3>3 DEF Upgrade, TypeOK
  <2>5. CASE SweepEnds
    BY <2>5, Constants DEF SweepEnds, TypeOK
  <2>6. QED
    BY <1>8, <2>1, <2>2, <2>3, <2>4, <2>5 DEF SweepStep
<1>9. CASE WakeStep
  <2>1. CASE WakeStarts
    <3>1. Head(queue) \in Name
      BY <2>1, HeadTailProperties DEF WakeStarts, TypeOK
    <3>2. QED
      BY <2>1, <3>1, RoomTypes DEF WakeStarts, TypeOK, Maker
  <2>2. CASE WakeScales
    BY <2>2 DEF WakeScales, TypeOK, Phase
  <2>3. CASE WakeThrows \/ WakeFails \/ WakeSucceeds \/ WakeTimesOut
    <3>1. queue # <<>> /\ \E outcome \in {"awake", "starting", "error"} : Settle(outcome)
      BY <2>3 DEF WakeThrows, WakeFails, WakeSucceeds, WakeTimesOut, HeadWoken
    <3>2. /\ queue' \in Seq(Name) /\ wake' \in {"idle", "room", "poll"}
          /\ run' \in [Maker -> Run] /\ reqs' \in [Req -> Request] /\ inflight' \in [Name -> Nat]
      BY <3>1, SettleTypes
    <3>3. QED
      BY <2>3, <3>2 DEF WakeThrows, WakeFails, WakeSucceeds, WakeTimesOut, TypeOK
  <2>4. CASE WakePolls
    BY <2>4 DEF WakePolls, Refresh, TypeOK
  <2>5. QED
    BY <1>9, <2>1, <2>2, <2>3, <2>4 DEF WakeStep
<1>10. CASE AdminStep
  <2>1. admin.op \in Route /\ admin.name \in Name \cup {NoName}
    BY DEF TypeOK, Call
  <2>2. CASE AdminProbed
    <3>1. /\ admin' \in Call /\ phase' \in [Name -> Phase] /\ turn' \subseteq Name
          /\ fresh' \in BOOLEAN
      <4>1. CASE Proceed(admin.op, admin.name, fresh)
        BY <2>1, <4>1, ProceedTypes DEF TypeOK
      <4>2. CASE admin' = IdleAdmin /\ UNCHANGED <<phase, turn, fresh>>
        BY <4>2, Constants DEF TypeOK
      <4>3. QED
        BY <2>2, <4>1, <4>2 DEF AdminProbed
    <3>2. QED
      BY <2>2, <3>1 DEF AdminProbed, TypeOK
  <2>3. CASE AdminMakesRoom
    <3>1. admin' \in Call
      BY <2>3 DEF AdminMakesRoom, TypeOK, Call
    <3>2. run' \in [Maker -> Run] /\ known' \in [Name -> Phase] /\ fresh' \in BOOLEAN
      BY <2>1, <2>3, RoomTypes DEF AdminMakesRoom, TypeOK, Maker
    <3>3. QED
      BY <2>3, <3>1, <3>2 DEF AdminMakesRoom, TypeOK
  <2>4. CASE Create \/ Restart
    <3>1. phase' \in [Name -> Phase] /\ turn' \subseteq Name /\ fresh' \in BOOLEAN
      BY <2>4 DEF Create, Restart, TypeOK, Phase
    <3>2. admin' \in Call /\ run' \in [Maker -> Run]
      BY <2>4, Constants DEF Create, Restart, AdminEnds, TypeOK
    <3>3. QED
      BY <2>4, <3>1, <3>2 DEF Create, Restart, AdminEnds, TypeOK
  <2>5. QED
    BY <1>10, <2>2, <2>3, <2>4 DEF AdminStep
<1>11. CASE CacheExpires
  BY <1>11 DEF CacheExpires, TypeOK
<1>12. CASE UNCHANGED vars
  BY <1>12 DEF vars, TypeOK
<1>13. QED
  BY <1>1, <1>2, <1>3, <1>4, <1>5, <1>6, <1>7, <1>8, <1>9, <1>10, <1>11, <1>12 DEF Next, Step

LEMMA InvStep == TypeInv /\ [Next]_vars => TypeInv'
BY TypeStep, NamedStep, HeadStep DEF TypeInv

LEMMA InvInit == Init => TypeInv
<1> SUFFICES ASSUME Init PROVE TypeInv
  OBVIOUS
<1>1. TypeOK
  BY Constants, EmptySeq, WorkspacedAssumption DEF Init, TypeOK, Phase
<1>2. Named /\ HeadWoken
  BY DEF Init, Named, HeadWoken, IdleReq
<1>3. QED
  BY <1>1, <1>2 DEF TypeInv

\* Every variable keeps its type in every behaviour of workspaced.
THEOREM TypeCorrect == Spec => []TypeOK
<1>1. TypeInv => TypeOK
  BY DEF TypeInv
<1>2. QED
  BY <1>1, InvInit, InvStep, PTL DEF Spec

(***************************************************************************)
(* The steps by what they do to the requests: a request arrives or its     *)
(* list does, it ends, a wake settles, or nothing of it changes.           *)
(***************************************************************************)

Deciding(r) ==
    /\ reqs[r].pc \in {"idle", "listing"}
    /\ \E n \in Name, k \in Kind, state \in Phase : Decide(r, n, k, state)

Listing(r) ==
    /\ reqs[r].pc = "idle"
    /\ reqs'[r].pc = "listing"
    /\ reqs' = [reqs EXCEPT ![r] = reqs'[r]]
    /\ UNCHANGED <<inflight, queue>>

Settling == queue # <<>> /\ \E outcome \in {"awake", "starting", "error"} : Settle(outcome)

LEMMA RequestSteps ==
    ASSUME TypeInv, [Next]_vars
    PROVE  \/ \E r \in Req : Deciding(r) \/ Listing(r) \/ Done(r)
           \/ Settling
           \/ UNCHANGED <<reqs, inflight, queue>>
<1> USE DEF TypeInv
<1>1. ASSUME NEW n \in Name, NEW r \in Req, NEW k \in Kind, Arrive(r, n, k)
      PROVE  Deciding(r) \/ Listing(r)
  <2>1. known[n] \in Phase
    BY DEF TypeOK
  <2>2. CASE Decide(r, n, k, known[n])
    BY <1>1, <2>1, <2>2 DEF Arrive, Deciding
  <2>3. CASE /\ reqs' = [reqs EXCEPT ![r] = [pc |-> "listing", name |-> n, kind |-> k,
                                             seen |-> phase]]
             /\ UNCHANGED <<inflight, queue>>
    BY <1>1, <2>3 DEF Arrive, Listing, TypeOK
  <2>4. QED
    BY <1>1, <2>2, <2>3 DEF Arrive
<1>2. ASSUME NEW r \in Req, Listed(r) PROVE Deciding(r)
  <2>1. reqs[r].name \in Name /\ reqs[r].kind \in Kind /\ reqs[r].seen \in [Name -> Phase]
    BY <1>2 DEF Listed, Named, TypeOK, Request
  <2>2. QED
    BY <1>2, <2>1 DEF Listed, Deciding
<1>3. CASE WakeStep
  BY <1>3 DEF WakeStep, WakeStarts, WakeScales, WakeThrows, WakeFails, WakeSucceeds, WakePolls,
     WakeTimesOut, Settling, HeadWoken
<1>4. ASSUME NEW n \in Name, WorkerStep(n) \/ Remove(n) \/ Pin(n)
      PROVE  UNCHANGED <<reqs, inflight, queue>>
  BY <1>4 DEF WorkerStep, WorkerReady, WorkerFails, WorkerCrashes, Worker, TurnStarts,
     TurnEnds, Remove, Pin
<1>5. ASSUME NEW n \in Name, NEW op \in Route, NEW force \in BOOLEAN, AdminArrives(op, n, force)
      PROVE  UNCHANGED <<reqs, inflight, queue>>
  BY <1>5 DEF AdminArrives
<1>6. ASSUME NEW m \in Maker, MakerStep(m) PROVE UNCHANGED <<reqs, inflight, queue>>
  BY <1>6 DEF MakerStep, Probe, ProbedBusy, ProbedIdle
<1>7. SweepStep \/ AdminStep \/ CacheExpires \/ UNCHANGED vars => UNCHANGED <<reqs, inflight, queue>>
  BY DEF SweepStep, SweepStarts, SweepLimit, SweepUpgrades, Upgrade, SweepEnds, AdminStep,
     AdminProbed, AdminMakesRoom, Create, Restart, AdminEnds, CacheExpires, vars
<1>8. QED
  BY <1>1, <1>2, <1>3, <1>4, <1>5, <1>6, <1>7 DEF Next, Step

\* A settled waiter no longer waits, and is sent, if at all, where it asked.
LEMMA SettledRequest ==
    ASSUME NEW q \in Request, NEW outcome
    PROVE  /\ After(outcome, q).pc # "waiting"
           /\ After(outcome, q).pc = "sent" => After(outcome, q).name = q.name
BY DEF After, IdleReq, Request

(***************************************************************************)
(* Waiters and the wake queue.                                             *)
(***************************************************************************)

LEMMA WaitersStep == TypeInv /\ WaitersQueued /\ [Next]_vars => WaitersQueued'
<1> SUFFICES ASSUME TypeInv, WaitersQueued, [Next]_vars PROVE WaitersQueued'
  OBVIOUS
<1> USE DEF WaitersQueued, Queued
<1>1. ASSUME NEW r \in Req, Deciding(r) PROVE WaitersQueued'
  <2> PICK n \in Name, k \in Kind, state \in Phase : Decide(r, n, k, state)
    BY <1>1 DEF Deciding
  <2>1. CASE Forward(r, n, k) \/ Answer(r)
    <3>1. queue' = queue /\ reqs'[r].pc # "waiting" /\ \A q \in Req \ {r} : reqs'[q] = reqs[q]
      BY <2>1 DEF Forward, Answer, IdleReq, TypeInv, TypeOK
    <3>2. QED
      BY <3>1
  <2>2. CASE Wait(r, n, k) /\ n \in Queued
    BY <2>2 DEF Wait, TypeInv, TypeOK
  <2>3. CASE Wait(r, n, k) /\ n \notin Queued
    <3>1. /\ queue \in Seq(Name) /\ queue' = Append(queue, n)
          /\ reqs' = [reqs EXCEPT ![r] = [pc |-> "waiting", name |-> n, kind |-> k,
                                          seen |-> NoSeen]]
      BY <2>3 DEF Wait, TypeInv, TypeOK
    <3>2. /\ Len(queue) \in Nat /\ Len(queue') = Len(queue) + 1
          /\ \A i \in 1 .. Len(queue) : queue'[i] = queue[i]
          /\ queue'[Len(queue) + 1] = n
      BY <3>1, AppendProperties, LenProperties
    <3>3. Queued' = Queued \cup {n}
      BY <3>2
    <3>4. \A q \in Req : reqs'[q].pc = "waiting" => reqs'[q].name \in Queued'
      BY <3>1, <3>3 DEF TypeInv, TypeOK
    <3>5. \A i, j \in 1 .. Len(queue') : queue'[i] = queue'[j] => i = j
      BY <2>3, <3>2
    <3>6. QED
      BY <3>4, <3>5
  <2>4. QED
    BY <2>1, <2>2, <2>3 DEF Decide, Wait
<1>2. ASSUME NEW r \in Req, Listing(r) \/ Done(r) PROVE WaitersQueued'
  <2>1. queue' = queue /\ reqs'[r].pc # "waiting" /\ \A q \in Req \ {r} : reqs'[q] = reqs[q]
    BY <1>2 DEF Listing, Done, IdleReq, TypeInv, TypeOK
  <2>2. QED
    BY <2>1
<1>3. CASE Settling
  <2> PICK outcome \in {"awake", "starting", "error"} : Settle(outcome)
    BY <1>3 DEF Settling
  <2> DEFINE n == Head(queue)
  <2>1. queue \in Seq(Name) /\ queue # <<>> /\ queue' = Tail(queue)
    BY <1>3 DEF Settling, Settle, TypeInv, TypeOK
  <2>2. /\ Len(queue) \in Nat \ {0} /\ Len(queue') = Len(queue) - 1
        /\ \A i \in 1 .. Len(queue') : queue'[i] = queue[i + 1]
        /\ n = queue[1]
    BY <2>1, HeadTailProperties, EmptySeq
  <2>3. \A i, j \in 1 .. Len(queue') : queue'[i] = queue'[j] => i = j
    BY <2>2
  <2>4. Queued \subseteq Queued' \cup {n}
    <3>1. ASSUME NEW i \in 1 .. Len(queue), i # 1 PROVE queue[i] \in Queued'
      <4>1. i - 1 \in 1 .. Len(queue') /\ queue'[i - 1] = queue[i]
        BY <2>2, <3>1
      <4>2. QED
        BY <4>1
    <3>2. SUFFICES ASSUME NEW i \in 1 .. Len(queue) PROVE queue[i] \in Queued' \cup {n}
      OBVIOUS
    <3>3. QED
      BY <2>2, <3>1
  <2>5. ASSUME NEW q \in Req, reqs'[q].pc = "waiting" PROVE reqs'[q].name \in Queued'
    <3>1. q \notin Waiters(n) /\ reqs'[q] = reqs[q]
      BY <2>5, SettledRequest DEF Settle, TypeInv, TypeOK
    <3>2. QED
      BY <2>4, <2>5, <3>1 DEF Waiters
  <2>6. QED
    BY <2>3, <2>5
<1>4. CASE UNCHANGED <<reqs, inflight, queue>>
  BY <1>4
<1>5. QED
  BY <1>1, <1>2, <1>3, <1>4, RequestSteps

\* Every request that waits for a wake waits for a queued one, and no name is
\* queued twice.
THEOREM WaitersQueuedCorrect == Spec => []WaitersQueued
<1>1. Init => WaitersQueued
  BY DEF Init, WaitersQueued, IdleReq
<1>2. QED
  BY <1>1, InvInit, InvStep, WaitersStep, PTL DEF Spec

(***************************************************************************)
(* The in-flight counters.                                                 *)
(***************************************************************************)

SentTo(n) == {r \in Req : reqs[r].pc = "sent" /\ reqs[r].name = n}

LEMMA InflightStep == TypeInv /\ InflightExact /\ [Next]_vars => InflightExact'
<1> SUFFICES ASSUME TypeInv, InflightExact, [Next]_vars, NEW m \in Name
             PROVE  inflight'[m] = Cardinality(SentTo(m)')
  BY DEF InflightExact, SentTo
<1>1. /\ inflight[m] = Cardinality(SentTo(m)) /\ IsFiniteSet(SentTo(m))
      /\ inflight \in [Name -> Nat] /\ reqs \in [Req -> Request]
  BY Counting DEF InflightExact, SentTo, TypeInv, TypeOK
<1>2. ASSUME NEW r \in Req, Deciding(r) PROVE inflight'[m] = Cardinality(SentTo(m)')
  <2> PICK n \in Name, k \in Kind, state \in Phase : Decide(r, n, k, state)
    BY <1>2 DEF Deciding
  <2>1. r \notin SentTo(m)
    BY <1>2 DEF Deciding, SentTo
  <2>2. CASE Forward(r, n, k) /\ n = m
    <3>1. SentTo(m)' = SentTo(m) \cup {r}
      BY <1>1, <2>2 DEF Forward, SentTo
    <3>2. inflight'[m] = inflight[m] + 1
      BY <1>1, <2>2 DEF Forward
    <3>3. QED
      BY <1>1, <2>1, <3>1, <3>2, FS_AddElement
  <2>3. CASE (Forward(r, n, k) /\ n # m) \/ Answer(r) \/ Wait(r, n, k)
    <3>1. SentTo(m)' = SentTo(m)
      BY <1>1, <2>1, <2>3 DEF Forward, Answer, Wait, IdleReq, SentTo
    <3>2. inflight'[m] = inflight[m]
      BY <1>1, <2>3 DEF Forward, Answer, Wait
    <3>3. QED
      BY <1>1, <3>1, <3>2
  <2>4. QED
    BY <2>2, <2>3 DEF Decide
<1>3. ASSUME NEW r \in Req, Listing(r) PROVE inflight'[m] = Cardinality(SentTo(m)')
  <2>1. SentTo(m)' = SentTo(m)
    BY <1>1, <1>3 DEF Listing, SentTo
  <2>2. QED
    BY <1>1, <1>3, <2>1 DEF Listing
<1>4. ASSUME NEW r \in Req, Done(r) PROVE inflight'[m] = Cardinality(SentTo(m)')
  <2>1. SentTo(m)' = SentTo(m) \ {r}
    BY <1>1, <1>4 DEF Done, SentTo, IdleReq
  <2>2. Cardinality(SentTo(m)') = IF r \in SentTo(m) THEN inflight[m] - 1 ELSE inflight[m]
    BY ZenonT(40), <1>1, <2>1, FS_RemoveElement
  <2>3. CASE r \in SentTo(m)
    <3>1. inflight[m] > 0
      BY <1>1, <2>3, FS_EmptySet
    <3>2. inflight'[m] = inflight[m] - 1
      BY <1>1, <1>4, <2>3, <3>1 DEF Done, SentTo
    <3>3. QED
      BY <2>2, <2>3, <3>2
  <2>4. CASE r \notin SentTo(m)
    BY <1>1, <1>4, <2>2, <2>4 DEF Done, SentTo
  <2>5. QED
    BY <2>3, <2>4
<1>5. CASE Settling
  <2> PICK outcome \in {"awake", "starting", "error"} : Settle(outcome)
    BY <1>5 DEF Settling
  <2>1. CASE m = Head(queue)
    <3>1. SentTo(m)' = SentTo(m) \cup Going(outcome, m)
      <4> SUFFICES ASSUME NEW r \in Req
                   PROVE  r \in SentTo(m)' <=> r \in SentTo(m) \/ r \in Going(outcome, m)
        BY DEF SentTo, Going, Waiters
      <4>1. CASE r \in Waiters(m)
        BY <1>1, <2>1, <4>1, SettledRequest DEF Settle, SentTo, Going, Waiters
      <4>2. CASE r \notin Waiters(m)
        BY <1>1, <2>1, <4>2 DEF Settle, SentTo, Going
      <4>3. QED
        BY <4>1, <4>2
    <3>2. SentTo(m) \cap Going(outcome, m) = {}
      BY DEF SentTo, Going, Waiters
    <3>3. IsFiniteSet(Going(outcome, m)) /\ Cardinality(Going(outcome, m)) \in Nat
      BY Counting DEF Going, Waiters
    <3>4. Cardinality(SentTo(m)') = Cardinality(SentTo(m)) + Cardinality(Going(outcome, m))
      <4>1. /\ Cardinality(SentTo(m) \cup Going(outcome, m)) = Cardinality(SentTo(m))
                 + Cardinality(Going(outcome, m)) - Cardinality(SentTo(m) \cap Going(outcome, m))
        BY <1>1, <3>3, FS_Union
      <4>2. Cardinality(SentTo(m) \cap Going(outcome, m)) = 0
        BY <3>2, FS_EmptySet
      <4>3. Cardinality(SentTo(m)) \in Nat
        BY <1>1, FS_CardinalityType
      <4>4. QED
        BY <3>1, <3>3, <4>1, <4>2, <4>3
    <3>5. inflight'[m] = inflight[m] + Cardinality(Going(outcome, m))
      BY <1>1, <2>1 DEF Settle
    <3>6. QED
      BY <1>1, <3>4, <3>5
  <2>2. CASE m # Head(queue)
    <3>1. SentTo(m)' = SentTo(m)
      <4> SUFFICES ASSUME NEW r \in Req PROVE r \in SentTo(m)' <=> r \in SentTo(m)
        BY DEF SentTo
      <4>1. CASE r \in Waiters(Head(queue))
        BY <1>1, <2>2, <4>1, SettledRequest DEF Settle, SentTo, Waiters
      <4>2. CASE r \notin Waiters(Head(queue))
        BY <1>1, <2>2, <4>2 DEF Settle, SentTo
      <4>3. QED
        BY <4>1, <4>2
    <3>2. QED
      BY <1>1, <2>2, <3>1 DEF Settle
  <2>3. QED
    BY <2>1, <2>2
<1>6. CASE UNCHANGED <<reqs, inflight, queue>>
  BY <1>1, <1>6 DEF SentTo
<1>7. QED
  BY <1>2, <1>3, <1>4, <1>5, <1>6, RequestSteps

\* The counters that protect a worker from eviction count exactly the requests
\* in flight to it.
THEOREM InflightExactCorrect == Spec => []InflightExact
<1>1. Init => InflightExact
  <2> SUFFICES ASSUME Init, NEW m \in Name PROVE inflight[m] = Cardinality(SentTo(m))
    BY DEF InflightExact, SentTo
  <2>1. SentTo(m) = {}
    BY DEF Init, SentTo, IdleReq
  <2>2. QED
    BY <2>1, FS_EmptySet DEF Init
<1>2. QED
  BY <1>1, InvInit, InvStep, InflightStep, PTL DEF Spec

(***************************************************************************)
(* Web's polling wakes nobody.                                             *)
(***************************************************************************)

OnlyAsked ==
    \A n \in Queued' \ Queued :
       \E r \in Req : /\ reqs'[r].pc = "waiting" /\ reqs'[r].name = n
                      /\ reqs'[r].kind \in {"user", "wake"}

OnlyHeadStarts ==
    \A n \in Name : phase[n] = "sleeping" /\ phase'[n] \in {"starting", "running"} =>
       \/ queue # <<>> /\ n = Head(queue)
       \/ AdminStep \/ \E op \in Route : AdminArrives(op, n, TRUE)

LEMMA AskedStep == ASSUME TypeInv, [Next]_vars PROVE OnlyAsked
<1>1. ASSUME NEW r \in Req, Deciding(r) PROVE OnlyAsked
  <2> PICK n \in Name, k \in Kind, state \in Phase : Decide(r, n, k, state)
    BY <1>1 DEF Deciding
  <2>1. CASE Forward(r, n, k) \/ Answer(r)
    BY <2>1 DEF Forward, Answer, OnlyAsked, Queued
  <2>2. CASE Wait(r, n, k) /\ k \in {"user", "wake"}
    <3>1. Queued' \subseteq Queued \cup {n}
      BY <2>2, AppendProperties, LenProperties DEF Wait, Queued, TypeInv, TypeOK
    <3>2. reqs'[r] = [pc |-> "waiting", name |-> n, kind |-> k, seen |-> NoSeen]
      BY <2>2 DEF Wait, TypeInv, TypeOK
    <3>3. QED
      BY <2>2, <3>1, <3>2 DEF OnlyAsked
  <2>3. QED
    BY <2>1, <2>2 DEF Decide
<1>2. ASSUME NEW r \in Req, Listing(r) \/ Done(r) PROVE OnlyAsked
  BY <1>2 DEF Listing, Done, OnlyAsked, Queued
<1>3. CASE Settling
  <2>1. queue \in Seq(Name) /\ queue # <<>> /\ queue' = Tail(queue)
    BY <1>3 DEF Settling, Settle, TypeInv, TypeOK
  <2>2. Len(queue) \in Nat /\ Len(queue') = Len(queue) - 1
        /\ \A i \in 1 .. Len(queue') : queue'[i] = queue[i + 1]
    BY <2>1, HeadTailProperties, LenProperties
  <2>3. QED
    BY <2>2 DEF OnlyAsked, Queued
<1>4. CASE UNCHANGED <<reqs, inflight, queue>>
  BY <1>4 DEF OnlyAsked, Queued
<1>5. QED
  BY <1>1, <1>2, <1>3, <1>4, RequestSteps

LEMMA StartsStep == ASSUME TypeInv, [Next]_vars PROVE OnlyHeadStarts
<1> SUFFICES ASSUME NEW n \in Name, phase[n] = "sleeping", phase'[n] \in {"starting", "running"},
                    ~AdminStep, ~(\E op \in Route : AdminArrives(op, n, TRUE))
             PROVE  queue # <<>> /\ n = Head(queue)
  BY DEF OnlyHeadStarts
<1> USE DEF TypeInv, TypeOK
<1>1. phase' # phase
  OBVIOUS
<1>2. ASSUME NEW w \in Name, WorkerStep(w) \/ Remove(w) \/ Pin(w) PROVE FALSE
  BY <1>1, <1>2 DEF WorkerStep, WorkerReady, WorkerFails, WorkerCrashes, Worker, TurnStarts,
     TurnEnds, Remove, Pin
<1>3. ASSUME NEW w \in Name, NEW op \in Route, NEW force \in BOOLEAN, AdminArrives(op, w, force)
      PROVE  FALSE
  <2>1. CASE w = n /\ force
    BY <1>3, <2>1
  <2>2. CASE w = n /\ ~force
    BY <1>1, <1>3, <2>2 DEF AdminArrives, Proceed
  <2>3. CASE w # n
    BY <1>3, <2>3 DEF AdminArrives, Proceed
  <2>4. QED
    BY <2>1, <2>2, <2>3
<1>4. ASSUME NEW m \in Maker, MakerStep(m) PROVE FALSE
  BY <1>1, <1>4 DEF MakerStep, Probe, ProbedBusy, ProbedIdle, PutToSleep
<1>5. ASSUME SweepStep PROVE FALSE
  BY <1>1, <1>5 DEF SweepStep, SweepStarts, SweepLimit, SweepUpgrades, Upgrade, SweepEnds
<1>6. ASSUME WakeStep PROVE queue # <<>> /\ n = Head(queue)
  BY <1>1, <1>6 DEF WakeStep, WakeStarts, WakeScales, WakeThrows, WakeFails, WakeSucceeds,
     WakePolls, WakeTimesOut, HeadWoken
<1>7. ASSUME NEW w \in Name, NEW r \in Req, NEW k \in Kind, Arrive(r, w, k) PROVE FALSE
  BY <1>1, <1>7 DEF Arrive
<1>8. ASSUME NEW r \in Req, Listed(r) \/ Done(r) PROVE FALSE
  BY <1>1, <1>8 DEF Listed, Done
<1>9. ASSUME CacheExpires \/ UNCHANGED vars PROVE FALSE
  BY <1>1, <1>9 DEF CacheExpires, vars
<1>10. QED
  BY <1>2, <1>3, <1>4, <1>5, <1>6, <1>7, <1>8, <1>9 DEF Next, Step

\* Every request that waits is queued for, and every one that is sent is counted.
THEOREM RequestsTrackedCorrect == Spec => []RequestsTracked
<1>1. WaitersQueued /\ InflightExact => RequestsTracked
  BY DEF RequestsTracked
<1>2. QED
  BY <1>1, WaitersQueuedCorrect, InflightExactCorrect, PTL


\* Only a user's request or a wake call puts a name in the wake queue, and only
\* the queue or an administrative route starts a sleeping worker.
THEOREM PassiveNeverWakesCorrect == Spec => PassiveNeverWakes
<1>1. TypeInv /\ [Next]_vars => [OnlyAsked /\ OnlyHeadStarts]_vars
  BY AskedStep, StartsStep
<1>2. [OnlyAsked /\ OnlyHeadStarts]_vars =>
        [/\ \A n \in Queued' \ Queued :
               \E r \in Req : /\ reqs'[r].pc = "waiting" /\ reqs'[r].name = n
                              /\ reqs'[r].kind \in {"user", "wake"}
         /\ \A n \in Name : phase[n] = "sleeping" /\ phase'[n] \in {"starting", "running"} =>
               \/ queue # <<>> /\ n = Head(queue)
               \/ AdminStep \/ \E op \in Route : AdminArrives(op, n, TRUE)]_vars
  BY DEF OnlyAsked, OnlyHeadStarts
<1>3. QED
  BY <1>1, <1>2, InvInit, InvStep, PTL DEF Spec, PassiveNeverWakes

=============================================================================
