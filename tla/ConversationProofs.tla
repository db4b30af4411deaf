------------------------- MODULE ConversationProofs -------------------------
(***************************************************************************)
(* Theorems about Conversation, for any set of runtimes, files and         *)
(* requests and any choice of what happens.                                *)
(***************************************************************************)
EXTENDS Conversation, FiniteSetTheorems, TLAPS

USE DEF moving

(***************************************************************************)
(* The inductive invariant.                                                *)
(***************************************************************************)

\* A request that goes to a runtime has captured one ...
Captured(q) ==
    \/ q.pc \in {"attached", "assert", "submitted", "turn", "ended"}
    \/ q.kind = "prompt" /\ q.pc \in {"handler", "handled"}
    \/ q.pc = "joined" /\ q.next = "handler"

\* ... and only commands and prompts run the handler of /sync, only a prompt
\* attaches for it and goes on after it.
Sound(q) ==
    /\ Captured(q) => q.st \in Runtime
    /\ q.pc \in {"handler", "handled"} => q.kind \in {"prompt", "sync", "check"}
    /\ q.pc = "joined" /\ q.next = "handler" => q.kind = "prompt"
    /\ q.pc = "assert" => q.kind = "prompt"
    /\ q.pc = "running" => q.kind = "bang"

\* A request that is past its admission holds the operation until it is answered
\* or its prompt is submitted.
Holding(q) ==
    /\ q.kind # "read"
    /\ q.pc \in {"joined", "attached", "handler", "handled", "assert", "running"}

RequestsSound == \A r \in Req : Sound(reqs[r])
OpHeld == \A r \in Req : Holding(reqs[r]) <=> op = r

\* A replacement belongs to a command that is in its handler.
SwapOwned ==
    swap.at # "none" =>
        /\ swap.by \in Req /\ reqs[swap.by].pc = "handler"
        /\ swap.old \in Runtime

IInv == TypeOK /\ RequestsSound /\ OpHeld /\ SwapOwned

\* An automatic check that is admitted is alone with its operation.
CheckAlone == \A r \in Req : reqs[r].kind = "check" /\ Holding(reqs[r]) => InFlight = {}

(***************************************************************************)
(* What the helpers yield.                                                 *)
(***************************************************************************)

LEMMA Constants ==
    /\ AnyFile \in File /\ Unborn \in Session /\ (\A f \in File : Born(f) \in Session)
    /\ NotAttaching \in Attach /\ NoSwap \in Swap
    /\ IdleReq \in Request /\ Sound(IdleReq) /\ ~Holding(IdleReq)
<1>1. AnyFile \in File
  BY ConversationAssumption DEF AnyFile
<1>2. QED
  BY <1>1 DEF Unborn, Born, Session, NotAttaching, Attach, NoSwap, Swap, IdleReq, Request, Kind,
              Sound, Captured, Holding

\* _registerLiveSession makes a runtime live.
LEMMA RegisterTypes ==
    ASSUME TypeOK, NEW f \in File, Register(f)
    PROVE  live' \in Runtime /\ live' = NewRuntime /\ rt' \in [Runtime -> Session]
<1>1. NewRuntime \in Runtime
  BY DEF Register, NewRuntime, Free
<1>2. QED
  BY <1>1, Constants DEF Register, TypeOK

\* One request moves and keeps, takes or releases the operation.
LEMMA OneMoves ==
    ASSUME IInv, NEW r \in Req, NEW q \in Request, Sound(q),
           reqs' = [reqs EXCEPT ![r] = q],
           \/ op' = op /\ (Holding(q) <=> op = r)
           \/ op' = Released(r) /\ ~Holding(q)
           \/ op = NoReq /\ op' = r /\ Holding(q)
    PROVE  /\ reqs' \in [Req -> Request] /\ op' \in Req \cup {NoReq}
           /\ RequestsSound' /\ OpHeld'
<1>1. reqs' \in [Req -> Request] /\ (\A s \in Req : reqs'[s] = IF s = r THEN q ELSE reqs[s])
  BY DEF IInv, TypeOK
<1>2. RequestsSound'
  BY <1>1 DEF IInv, RequestsSound
<1>3. OpHeld' /\ op' \in Req \cup {NoReq}
  BY <1>1, ConversationAssumption DEF IInv, TypeOK, OpHeld, Released
<1>4. QED
  BY <1>1, <1>2, <1>3

\* ... and is not the one whose replacement is under way.
LEMMA SwapKept ==
    ASSUME IInv, NEW r \in Req, NEW q \in Request, reqs' = [reqs EXCEPT ![r] = q],
           swap' = swap, swap.at # "none" => reqs[r].pc # "handler" \/ swap.by # r
    PROVE  SwapOwned'
BY DEF IInv, SwapOwned, TypeOK

\* The request is answered.
LEMMA FinishMoves ==
    ASSUME IInv, NEW r \in Req, Finish(r)
    PROVE  /\ reqs' \in [Req -> Request] /\ op' \in Req \cup {NoReq}
           /\ RequestsSound' /\ OpHeld'
BY OneMoves, Constants DEF Finish

\* _attachById lets the request go on, or join the attach in flight.
LEMMA AttachMoves ==
    ASSUME IInv, NEW r \in Req, NEW q \in Request, NEW next \in {"attached", "handler"},
           AttachById(r, q, next), next = "handler" => q.st \in Runtime
    PROVE  /\ attaching' \in Attach
           /\ \E new \in Request :
                /\ reqs' = [reqs EXCEPT ![r] = new] /\ new.kind = q.kind
                /\ \/ new.pc = next
                   \/ new.pc = "joined" /\ new.next = next
                /\ new.pc = "attached" \/ next = "handler" => new.st \in Runtime
<1>1. CASE live # NoRuntime
  <2> DEFINE new == Has(q, live, next)
  <2>1. live \in Runtime
    BY <1>1 DEF IInv, TypeOK
  <2>2. new \in Request /\ new.kind = q.kind /\ new.pc = next
        /\ (next = "attached" => new.st = live) /\ (next = "handler" => new.st = q.st)
    BY <2>1 DEF Has, Request
  <2>3. reqs' = [reqs EXCEPT ![r] = new] /\ attaching' = attaching
    BY <1>1 DEF AttachById
  <2>4. QED
    BY <2>1, <2>2, <2>3 DEF IInv, TypeOK
<1>2. CASE live = NoRuntime
  <2> DEFINE new == [q EXCEPT !.pc = "joined", !.next = next]
  <2>1. new \in Request /\ new.kind = q.kind /\ new.pc = "joined" /\ new.next = next /\ new.st = q.st
    BY DEF Request
  <2>2. reqs' = [reqs EXCEPT ![r] = new] /\ attaching' \in Attach
    BY <1>2 DEF AttachById, IInv, TypeOK, Attach
  <2>3. QED
    BY <2>1, <2>2
<1>3. QED
  BY <1>1, <1>2

\* All who joined an attach go on, with the operation they hold.
LEMMA JoinedMove ==
    ASSUME IInv, NEW x \in Runtime, Attached(x), op' = op, swap' = swap
    PROVE  /\ attaching' \in Attach /\ reqs' \in [Req -> Request]
           /\ RequestsSound' /\ OpHeld' /\ SwapOwned'
<1> DEFINE new(r) == Has(reqs[r], x, reqs[r].next)
<1>1. \A r \in Req : reqs[r] \in Request
  BY DEF IInv, TypeOK
<1>2. \A r \in Req : reqs'[r] = IF reqs[r].pc = "joined" THEN new(r) ELSE reqs[r]
  BY DEF Attached
<1>3. ASSUME NEW r \in Req, reqs[r].pc = "joined"
      PROVE  /\ new(r) \in Request /\ new(r).kind = reqs[r].kind /\ new(r).pc = reqs[r].next
             /\ new(r).pc \in {"attached", "handler"}
             /\ new(r).st = IF reqs[r].next = "attached" THEN x ELSE reqs[r].st
  BY <1>1, <1>3 DEF Has, Request
<1>4. reqs' \in [Req -> Request]
  BY <1>1, <1>3 DEF Attached
<1>5. RequestsSound'
  BY <1>2, <1>3 DEF IInv, RequestsSound, Sound, Captured
<1>6. OpHeld'
  BY <1>2, <1>3 DEF IInv, OpHeld, Holding
<1>7. SwapOwned'
  BY <1>2 DEF IInv, SwapOwned, TypeOK
<1>8. QED
  BY <1>4, <1>5, <1>6, <1>7, Constants DEF Attached

(***************************************************************************)
(* The actions keep the invariant.                                         *)
(***************************************************************************)

LEMMA RequestSteps ==
    ASSUME IInv, NEW r \in Req, RequestStep(r), ops' = ops
    PROVE  IInv'
<1> USE DEF IInv
<1>1. reqs[r] \in Request /\ Sound(reqs[r]) /\ (Holding(reqs[r]) <=> op = r)
  BY DEF TypeOK, RequestsSound, OpHeld
<1>2. ASSUME Finish(r), reqs[r].pc # "handler" \/ swap.by # r, swap' = swap
      PROVE  /\ reqs' \in [Req -> Request] /\ op' \in Req \cup {NoReq}
             /\ RequestsSound' /\ OpHeld' /\ SwapOwned'
  BY <1>2, FinishMoves, SwapKept, Constants DEF Finish
<1>3. CASE Admit(r)
  <2>1. CASE reqs[r].kind = "bang"
    <3> DEFINE new == [reqs[r] EXCEPT !.pc = "running"]
    <3>1. new \in Request /\ Sound(new) /\ Holding(new)
      BY <1>1, <2>1 DEF Request, Sound, Captured, Holding
    <3>2. reqs' = [reqs EXCEPT ![r] = new] /\ op = NoReq /\ op' = r
      BY <1>3, <2>1 DEF Admit, Admissible, Go, TypeOK
    <3>3. SwapOwned'
      BY <1>3, <3>1, <3>2, SwapKept DEF Admit
    <3>4. QED
      BY <1>3, <2>1, <3>1, <3>2, <3>3, OneMoves DEF Admit, TypeOK
  <2>2. CASE reqs[r].kind # "bang"
    <3>1. AttachById(r, reqs[r], "attached") /\ op = NoReq /\ op' = r
      BY <1>3, <2>2 DEF Admit, Admissible
    <3>2. PICK new \in Request :
            /\ reqs' = [reqs EXCEPT ![r] = new] /\ new.kind = reqs[r].kind
            /\ new.pc = "attached" \/ (new.pc = "joined" /\ new.next = "attached")
            /\ new.pc = "attached" => new.st \in Runtime
      BY <1>1, <3>1, AttachMoves
    <3>3. Sound(new) /\ Holding(new)
      BY <1>3, <3>2 DEF Admit, Sound, Captured, Holding
    <3>4. SwapOwned' /\ attaching' \in Attach
      BY <1>1, <1>3, <3>1, <3>2, SwapKept, AttachMoves DEF Admit
    <3>5. QED
      BY <1>3, <3>1, <3>2, <3>3, <3>4, OneMoves DEF Admit, TypeOK
  <2>3. QED
    BY <2>1, <2>2
<1>4. CASE Refuse(r)
  BY <1>2, <1>4 DEF Refuse, TypeOK
<1>5. CASE Read(r)
  <2>1. AttachById(r, reqs[r], "attached") /\ op' = op
    BY <1>5 DEF Read
  <2>2. PICK new \in Request :
          /\ reqs' = [reqs EXCEPT ![r] = new] /\ new.kind = reqs[r].kind
          /\ new.pc = "attached" \/ (new.pc = "joined" /\ new.next = "attached")
          /\ new.pc = "attached" => new.st \in Runtime
    BY <1>1, <2>1, AttachMoves
  <2>3. Sound(new) /\ ~Holding(new) /\ op # r
    BY <1>1, <1>5, <2>2 DEF Read, Sound, Captured, Holding
  <2>4. SwapOwned' /\ attaching' \in Attach
    BY <1>1, <1>5, <2>1, <2>2, SwapKept, AttachMoves DEF Read
  <2>5. QED
    BY <1>5, <2>1, <2>2, <2>3, <2>4, OneMoves DEF Read, TypeOK
<1>6. CASE Done(r)
  BY <1>2, <1>6 DEF Done, TypeOK
<1>7. CASE Busy(r)
  BY <1>2, <1>7 DEF Busy, TypeOK
<1>8. CASE BeforePrompt(r)
  <2> DEFINE q == [reqs[r] EXCEPT !.before = live]
  <2>1. q \in Request /\ q.kind = "prompt" /\ q.st \in Runtime /\ op = r
    BY <1>1, <1>8 DEF BeforePrompt, StillFree, Request, TypeOK, Sound, Captured, Holding
  <2>2. AttachById(r, q, "handler") /\ op' = op
    BY <1>8 DEF BeforePrompt
  <2> HIDE DEF q
  <2>3. PICK new \in Request :
          /\ reqs' = [reqs EXCEPT ![r] = new] /\ new.kind = q.kind
          /\ new.pc = "handler" \/ (new.pc = "joined" /\ new.next = "handler")
          /\ new.st \in Runtime
    BY <2>1, <2>2, AttachMoves
  <2>4. Sound(new) /\ Holding(new)
    BY <2>1, <2>3 DEF Sound, Captured, Holding
  <2>5. SwapOwned' /\ attaching' \in Attach
    BY <1>8, <2>1, <2>2, <2>3, SwapKept, AttachMoves DEF BeforePrompt, StillFree
  <2>6. QED
    BY <1>8, <2>1, <2>2, <2>3, <2>4, <2>5, OneMoves DEF BeforePrompt, TypeOK
<1>9. CASE Command(r)
  <2> DEFINE new == [reqs[r] EXCEPT !.pc = "handler"]
  <2>1. new \in Request /\ Sound(new) /\ Holding(new) /\ op = r
    BY <1>1, <1>9 DEF Command, StillFree, Request, Sound, Captured, Holding
  <2>2. reqs' = [reqs EXCEPT ![r] = new] /\ op' = op
    BY <1>9 DEF Command, Go, TypeOK
  <2>3. SwapOwned'
    BY <1>9, <2>1, <2>2, SwapKept DEF Command, StillFree
  <2>4. QED
    BY <1>9, <2>1, <2>2, <2>3, OneMoves DEF Command, TypeOK
<1>10. CASE HandlerEnds(r)
  <2>1. CASE reqs[r].kind # "prompt"
    BY <1>2, <1>10, <2>1 DEF HandlerEnds, TypeOK
  <2>2. CASE reqs[r].kind = "prompt"
    <3> DEFINE new == [Unswitched(reqs[r]) EXCEPT !.st = Prompted(r)]
    <3>1. reqs[r].st \in Runtime /\ op = r
      BY <1>1, <1>10, <2>2 DEF HandlerEnds, Sound, Captured, Holding
    <3>2. Prompted(r) \in Runtime
      BY <3>1 DEF Prompted, TypeOK
    <3>3. new \in Request /\ new.pc = "assert" /\ new.kind = "prompt" /\ new.st = Prompted(r)
      BY <1>1, <2>2, <3>2 DEF Unswitched, Request
    <3>4. Sound(new) /\ Holding(new)
      BY <3>2, <3>3 DEF Sound, Captured, Holding
    <3>5. reqs' = [reqs EXCEPT ![r] = new] /\ op' = op
      BY <1>10, <2>2 DEF HandlerEnds, TypeOK
    <3>6. SwapOwned'
      BY <1>10, <3>3, <3>5, SwapKept DEF HandlerEnds
    <3>7. QED
      BY <1>10, <3>1, <3>3, <3>4, <3>5, <3>6, OneMoves DEF HandlerEnds, TypeOK
  <2>3. QED
    BY <2>1, <2>2
<1> DEFINE submitted == [reqs[r] EXCEPT !.pc = "submitted"]
<1>11. ASSUME Submit(r), reqs[r].st \in Runtime, reqs[r].pc # "handler", swap' = swap
       PROVE  /\ reqs' \in [Req -> Request] /\ op' \in Req \cup {NoReq} /\ pending' \in Nat
              /\ RequestsSound' /\ OpHeld' /\ SwapOwned'
  <2>1. submitted \in Request /\ Sound(submitted) /\ ~Holding(submitted)
    BY <1>1, <1>11 DEF Request, Sound, Captured, Holding
  <2>2. reqs' = [reqs EXCEPT ![r] = submitted] /\ op' = Released(r) /\ pending' \in Nat
    BY <1>11 DEF Submit, Go, Count, TypeOK
  <2>3. QED
    BY <1>11, <2>1, <2>2, OneMoves, SwapKept
<1>12. CASE Prompt(r)
  <2>1. reqs[r].st \in Runtime /\ reqs[r].pc # "handler"
    BY <1>1, <1>12 DEF Prompt, Sound, Captured
  <2>2. QED
    BY <1>2, <1>11, <1>12, <2>1 DEF Prompt, TypeOK
<1>13. CASE FollowUp(r)
  <2>1. reqs[r].st \in Runtime /\ reqs[r].pc # "handler"
    BY <1>1, <1>13 DEF FollowUp, StillFree, Sound, Captured
  <2>2. QED
    BY <1>2, <1>11, <1>13, <2>1 DEF FollowUp, TypeOK
<1>14. QED
  BY <1>3, <1>4, <1>5, <1>6, <1>7, <1>8, <1>9, <1>10, <1>12, <1>13 DEF RequestStep

LEMMA AttachSteps ==
    ASSUME IInv, AttachStep, ops' = ops
    PROVE  IInv'
<1> USE DEF IInv
<1>1. CASE Discovered
  <2>1. CASE live # NoRuntime
    <3>1. live \in Runtime /\ Attached(live)
      BY <1>1, <2>1 DEF Discovered, TypeOK
    <3>2. QED
      BY <1>1, <2>1, <3>1, JoinedMove DEF Discovered, TypeOK
  <2>2. CASE live = NoRuntime
    <3>1. attaching' \in Attach /\ reqs' = reqs
      BY <1>1, <2>2 DEF Discovered, Attach, TypeOK
    <3>2. QED
      BY <1>1, <2>2, <3>1 DEF Discovered, TypeOK, RequestsSound, OpHeld, SwapOwned
  <2>3. QED
    BY <2>1, <2>2
<1>2. CASE AttachDone
  <2>1. attaching.file \in File
    BY DEF TypeOK, Attach
  <2>2. live' = NewRuntime /\ live' \in Runtime /\ rt' \in [Runtime -> Session]
    BY <1>2, <2>1, RegisterTypes DEF AttachDone
  <2>3. Attached(NewRuntime) /\ NewRuntime \in Runtime
    BY <1>2, <2>2 DEF AttachDone
  <2>4. QED
    BY <1>2, <2>2, <2>3, JoinedMove DEF AttachDone, TypeOK
<1>3. CASE AttachFails
  <2>1. \A r \in Req : reqs[r] \in Request /\ Sound(reqs[r]) /\ (Holding(reqs[r]) <=> op = r)
    BY DEF TypeOK, RequestsSound, OpHeld
  <2>2. \A r \in Req : reqs'[r] = IF reqs[r].pc # "joined" THEN reqs[r]
                                 ELSE IF Survives(r) THEN Unswitched(reqs[r]) ELSE IdleReq
    BY <1>3 DEF AttachFails
  <2>3. ASSUME NEW r \in Req, reqs[r].pc = "joined", Survives(r)
        PROVE  /\ Unswitched(reqs[r]) \in Request /\ Sound(Unswitched(reqs[r]))
               /\ Holding(Unswitched(reqs[r]))
    BY <2>1, <2>3 DEF Survives, Unswitched, Request, Sound, Captured, Holding
  <2>4. \A r \in Req : reqs'[r] \in Request /\ Sound(reqs'[r])
    BY <2>1, <2>2, <2>3, Constants
  <2>5. reqs' \in [Req -> Request]
    BY <1>3, <2>1, <2>3, Constants DEF AttachFails
  <2>6. op' = IF op # NoReq /\ reqs[op].pc = "joined" /\ ~Survives(op) THEN NoReq ELSE op
    BY <1>3 DEF AttachFails
  <2>7. ASSUME NEW r \in Req PROVE Holding(reqs'[r]) <=> op' = r
    <3>1. CASE reqs[r].pc # "joined"
      BY <2>1, <2>2, <2>6, <3>1, ConversationAssumption
    <3>2. CASE reqs[r].pc = "joined" /\ Survives(r)
      BY <2>1, <2>2, <2>3, <2>6, <3>2, ConversationAssumption DEF Holding, Survives
    <3>3. CASE reqs[r].pc = "joined" /\ ~Survives(r)
      BY <2>1, <2>2, <2>6, <3>3, Constants, ConversationAssumption
    <3>4. QED
      BY <3>1, <3>2, <3>3
  <2>8. SwapOwned'
    BY <1>3, <2>2 DEF AttachFails, SwapOwned
  <2>9. QED
    BY <1>3, <2>4, <2>5, <2>6, <2>7, <2>8, Constants
    DEF AttachFails, TypeOK, RequestsSound, OpHeld
<1>4. QED
  BY <1>1, <1>2, <1>3 DEF AttachStep

\* The command throws: a prompt goes on, another request is answered.
LEMMA ThrowsMoves ==
    ASSUME IInv, NEW r \in Req, reqs[r].pc = "handler", Throws(r)
    PROVE  /\ reqs' \in [Req -> Request] /\ op' \in Req \cup {NoReq}
           /\ RequestsSound' /\ OpHeld'
<1>1. reqs[r] \in Request /\ Sound(reqs[r]) /\ (Holding(reqs[r]) <=> op = r)
  BY DEF IInv, TypeOK, RequestsSound, OpHeld
<1>2. CASE reqs[r].kind = "prompt"
  <2> DEFINE new == Unswitched(reqs[r])
  <2>1. new \in Request /\ Sound(new) /\ Holding(new) /\ op = r
    BY <1>1, <1>2 DEF Unswitched, Request, Sound, Captured, Holding
  <2>2. reqs' = [reqs EXCEPT ![r] = new] /\ op' = op
    BY <1>2 DEF Throws, IInv, TypeOK
  <2>3. QED
    BY <2>1, <2>2, OneMoves
<1>3. CASE reqs[r].kind # "prompt"
  BY <1>3, FinishMoves DEF Throws
<1>4. QED
  BY <1>2, <1>3

LEMMA SwapSteps ==
    ASSUME IInv, SwapStep, ops' = ops
    PROVE  IInv'
<1> USE DEF IInv
<1>1. swap \in Swap /\ swap.at # "none"
  BY DEF SwapStep, SwapBegins, SwapAborted, SwapDetaches, SwapRegisters, SwapFails, SwapRestores, TypeOK
<1>2. swap.by \in Req /\ reqs[swap.by].pc = "handler" /\ swap.old \in Runtime
  BY <1>1 DEF SwapOwned
<1>3. ASSUME NEW at \in {"abort", "dispose", "create", "restore"}, swap' = [swap EXCEPT !.at = at],
             reqs' = reqs, op' = op
      PROVE  swap' \in Swap /\ SwapOwned' /\ RequestsSound' /\ OpHeld'
  BY <1>1, <1>2, <1>3 DEF Swap, SwapOwned, RequestsSound, OpHeld
<1>4. CASE SwapBegins
  BY <1>3, <1>4 DEF SwapBegins, TypeOK
<1>5. CASE SwapAborted
  BY <1>3, <1>5 DEF SwapAborted, TypeOK
<1>6. CASE SwapDetaches
  <2>1. rt' \in [Runtime -> Session]
    BY <1>2, <1>6 DEF SwapDetaches, Disposed, TypeOK, Session
  <2>2. QED
    BY <1>3, <1>6, <2>1 DEF SwapDetaches, TypeOK
<1>7. CASE SwapRegisters
  <2> DEFINE new == [reqs[swap.by] EXCEPT !.pc = "handled"]
  <2>1. swap.file \in File
    BY <1>1 DEF Swap
  <2>2. live' \in Runtime /\ rt' \in [Runtime -> Session]
    BY <1>7, <2>1, RegisterTypes DEF SwapRegisters
  <2>3. new \in Request /\ Sound(new) /\ (Holding(new) <=> op = swap.by)
    <3>1. reqs[swap.by] \in Request /\ Sound(reqs[swap.by]) /\ (Holding(reqs[swap.by]) <=> op = swap.by)
      BY <1>2 DEF TypeOK, RequestsSound, OpHeld
    <3>2. QED
      BY <1>2, <3>1 DEF Request, Sound, Captured, Holding
  <2>4. reqs' = [reqs EXCEPT ![swap.by] = new] /\ op' = op
    BY <1>7 DEF SwapRegisters, Go, TypeOK
  <2>5. reqs' \in [Req -> Request] /\ RequestsSound' /\ OpHeld'
    BY <1>2, <2>3, <2>4, OneMoves
  <2>6. swap' = NoSwap /\ SwapOwned'
    BY <1>7 DEF SwapRegisters, SwapOwned, NoSwap
  <2>7. QED
    BY <1>7, <2>1, <2>2, <2>5, <2>6, Constants DEF SwapRegisters, TypeOK
<1>8. CASE SwapFails
  BY <1>3, <1>8 DEF SwapFails, TypeOK
<1>9. CASE SwapRestores
  <2>1. live' \in Runtime \cup {NoRuntime} /\ rt' \in [Runtime -> Session]
    <3>1. rt[swap.old].file \in File
      BY <1>2 DEF TypeOK, Session
    <3>2. QED
      BY <1>9, <3>1, RegisterTypes DEF SwapRestores, TypeOK
  <2>2. reqs' \in [Req -> Request] /\ op' \in Req \cup {NoReq} /\ RequestsSound' /\ OpHeld'
    BY <1>2, <1>9, ThrowsMoves DEF SwapRestores
  <2>3. swap' = NoSwap /\ SwapOwned'
    BY <1>9 DEF SwapRestores, SwapOwned, NoSwap
  <2>4. QED
    BY <1>9, <2>1, <2>2, <2>3, Constants DEF SwapRestores, TypeOK
<1>10. QED
  BY <1>4, <1>5, <1>6, <1>7, <1>8, <1>9 DEF SwapStep

\* The SDK's turns; a prompt in flight holds nothing.
TurnStep(r) == TurnStarts(r) \/ AgentEnd(r) \/ TurnFails(r) \/ Settle(r) \/ Reject(r)

LEMMA TurnSteps ==
    ASSUME IInv, PendingExact, NEW r \in Req, TurnStep(r), ops' = ops
    PROVE  IInv'
<1> USE DEF IInv
<1>1. reqs[r] \in Request /\ reqs[r].pc \in {"submitted", "turn", "ended"} /\ op # r
      /\ reqs[r].st \in Runtime
  BY DEF TurnStep, TurnStarts, AgentEnd, TurnFails, Settle, Reject, InFlight, TypeOK, RequestsSound,
         OpHeld, Sound, Captured, Holding
<1>2. ASSUME NEW new \in Request, Sound(new), ~Holding(new), reqs' = [reqs EXCEPT ![r] = new],
             op' = op, swap' = swap
      PROVE  reqs' \in [Req -> Request] /\ RequestsSound' /\ OpHeld' /\ SwapOwned'
  BY <1>1, <1>2, OneMoves, SwapKept
<1>3. ASSUME NEW pc \in {"turn", "ended"}
      PROVE  LET new == [reqs[r] EXCEPT !.pc = pc]
             IN  new \in Request /\ Sound(new) /\ ~Holding(new)
  BY <1>1 DEF Request, Sound, Captured, Holding
<1>4. ASSUME NEW streaming \in BOOLEAN, EndTurn(reqs[r].st, streaming)
      PROVE  rt' \in [Runtime -> Session] /\ shown' \in BOOLEAN
  BY <1>1, <1>4 DEF EndTurn, TypeOK, Session
<1>5. rt[reqs[r].st] \in Session
  BY <1>1 DEF TypeOK
<1>6. pending - 1 \in Nat
  <2>1. r \in InFlight /\ IsFiniteSet(InFlight)
    BY <1>1, ConversationAssumption, FS_Subset DEF InFlight
  <2>2. Cardinality(InFlight) \in Nat /\ Cardinality(InFlight) # 0
    BY <2>1, FS_CardinalityType, FS_EmptySet
  <2>3. QED
    BY <2>2 DEF PendingExact
<1>7. CASE TurnStarts(r)
  <2>1. rt' \in [Runtime -> Session] /\ shown' \in BOOLEAN
    BY <1>1, <1>5, <1>7 DEF TurnStarts, Started, TypeOK, Session
  <2>2. QED
    BY <1>2, <1>3, <1>7, <2>1 DEF TurnStarts, Go, TypeOK
<1>8. CASE AgentEnd(r)
  <2>1. rt' \in [Runtime -> Session] /\ shown' \in BOOLEAN
    <3>1. CASE rt[reqs[r].st].open
      <4>1. EndTurn(reqs[r].st, FALSE)
        BY <1>8, <3>1 DEF AgentEnd
      <4>2. QED
        BY <1>4, <4>1
    <3>2. CASE ~rt[reqs[r].st].open
      <4>1. rt' = [rt EXCEPT ![reqs[r].st].streaming = FALSE] /\ shown' = shown
        BY <1>8, <3>2 DEF AgentEnd
      <4>2. QED
        BY <1>1, <4>1 DEF TypeOK, Session
    <3>3. QED
      BY <3>1, <3>2
  <2>2. QED
    BY <1>2, <1>3, <1>8, <2>1 DEF AgentEnd, Go, TypeOK
<1>9. CASE TurnFails(r)
  BY <1>4, <1>9 DEF TurnFails, TypeOK, RequestsSound, OpHeld, SwapOwned
<1>10. CASE Settle(r)
  BY <1>2, <1>6, <1>10, Constants DEF Settle, Count, TypeOK
<1>11. CASE Reject(r)
  <2>1. (rt[reqs[r].st].streaming /\ reqs[r].pc # "turn") \in BOOLEAN
    BY <1>5 DEF Session
  <2>2. rt' \in [Runtime -> Session] /\ shown' \in BOOLEAN
    BY <1>4, <1>11, <2>1 DEF Reject
  <2>3. QED
    BY <1>2, <1>6, <1>11, <2>2, Constants DEF Reject, Count, TypeOK
<1>12. QED
  BY <1>7, <1>8, <1>9, <1>10, <1>11 DEF TurnStep

LEMMA OtherSteps ==
    ASSUME IInv, ops' = ops,
           \/ \E r \in Req, k \in Kind : Send(r, k)
           \/ \E r \in Req, f \in File : SwitchSession(r, f)
           \/ ReloadStarts \/ ReloadDisposes
    PROVE  IInv'
<1> USE DEF IInv
<1>1. ASSUME NEW r \in Req, NEW k \in Kind, Send(r, k) PROVE IInv'
  <2> DEFINE new == [IdleReq EXCEPT !.pc = "waiting", !.kind = k, !.token = bound]
  <2>1. new \in Request /\ Sound(new) /\ ~Holding(new)
    BY Constants DEF IdleReq, TypeOK, Request, Sound, Captured, Holding
  <2>2. op # r /\ reqs' = [reqs EXCEPT ![r] = new] /\ op' = op
    BY <1>1 DEF Send, OpHeld, Holding
  <2>3. reqs' \in [Req -> Request] /\ RequestsSound' /\ OpHeld'
    BY <2>1, <2>2, OneMoves
  <2>4. SwapOwned'
    BY <1>1, <2>1, <2>2, SwapKept DEF Send
  <2>5. QED
    BY <1>1, <2>2, <2>3, <2>4 DEF Send, TypeOK
<1>2. ASSUME NEW r \in Req, NEW f \in File, SwitchSession(r, f) PROVE IInv'
  <2>1. swap' \in Swap /\ SwapOwned'
    BY <1>2 DEF SwitchSession, Swap, SwapOwned, TypeOK
  <2>2. QED
    BY <1>2, <2>1 DEF SwitchSession, TypeOK, RequestsSound, OpHeld
<1>3. CASE ReloadStarts
  BY <1>3 DEF ReloadStarts, TypeOK, RequestsSound, OpHeld, SwapOwned
<1>4. CASE ReloadDisposes
  <2>1. rt' \in [Runtime -> Session]
    BY <1>4 DEF ReloadDisposes, Disposed, TypeOK, Session
  <2>2. live' \in Runtime \cup {NoRuntime} /\ attaching' \in Attach /\ reload' \in Runtime \cup {NoRuntime}
    BY <1>4 DEF ReloadDisposes, TypeOK, Attach
  <2>3. QED
    BY <1>4, <2>1, <2>2 DEF ReloadDisposes, TypeOK, RequestsSound, OpHeld, SwapOwned
<1>5. QED
  BY <1>1, <1>2, <1>3, <1>4

(***************************************************************************)
(* pendingPrompts counts the prompts in flight.                            *)
(***************************************************************************)

Flying(q) == q.pc \in {"submitted", "turn", "ended"}

\* Counting goes with the one request that moves.
LEMMA OneCounted ==
    ASSUME TypeOK, NEW r \in Req, NEW q \in Request, reqs' = [reqs EXCEPT ![r] = q]
    PROVE  /\ (Flying(q) <=> Flying(reqs[r])) => InFlight' = InFlight
           /\ Flying(q) /\ ~Flying(reqs[r]) => Cardinality(InFlight') = Cardinality(InFlight) + 1
           /\ ~Flying(q) /\ Flying(reqs[r]) => Cardinality(InFlight') = Cardinality(InFlight) - 1
<1>1. \A s \in Req : reqs'[s] = IF s = r THEN q ELSE reqs[s]
  BY DEF TypeOK
<1>2. InFlight = {s \in Req : Flying(reqs[s])} /\ InFlight' = {s \in Req : Flying(reqs'[s])}
  BY DEF InFlight, Flying
<1>3. IsFiniteSet(InFlight)
  BY <1>2, ConversationAssumption, FS_Subset
<1>4. Cardinality(InFlight) \in Nat
  BY <1>3, FS_CardinalityType
<1>5. CASE Flying(q) /\ ~Flying(reqs[r])
  <2>1. InFlight' = InFlight \cup {r} /\ r \notin InFlight
    BY <1>1, <1>2, <1>5
  <2>2. QED
    BY <1>3, <1>5, <2>1, FS_AddElement
<1>6. CASE ~Flying(q) /\ Flying(reqs[r])
  <2>1. InFlight' = InFlight \ {r} /\ r \in InFlight
    BY <1>1, <1>2, <1>6
  <2>2. QED
    BY <1>3, <1>4, <1>6, <2>1, FS_RemoveElement
<1>7. CASE Flying(q) <=> Flying(reqs[r])
  BY <1>1, <1>2, <1>7
<1>8. QED
  BY <1>5, <1>6, <1>7

\* A request that is answered before its prompt is submitted.
LEMMA FinishCounted ==
    ASSUME TypeOK, NEW r \in Req, ~Flying(reqs[r]), Finish(r)
    PROVE  InFlight' = InFlight
<1>1. reqs' = [reqs EXCEPT ![r] = IdleReq] /\ IdleReq \in Request /\ ~Flying(IdleReq)
  BY Constants DEF Finish, IdleReq, Flying
<1>2. QED
  BY <1>1, OneCounted

\* Attaching is no prompt.
LEMMA AttachCounted ==
    ASSUME IInv, NEW r \in Req, NEW q \in Request, NEW next \in {"attached", "handler"},
           AttachById(r, q, next), next = "handler" => q.st \in Runtime, ~Flying(reqs[r])
    PROVE  InFlight' = InFlight
<1>1. PICK new \in Request : reqs' = [reqs EXCEPT ![r] = new] /\ ~Flying(new)
  BY AttachMoves DEF Flying
<1>2. QED
  BY <1>1, OneCounted DEF IInv

LEMMA NoneInFlight == ASSUME PendingExact, pending = 0 PROVE InFlight = {}
BY ConversationAssumption, FS_Subset, FS_EmptySet DEF PendingExact, InFlight

LEMMA CheckKept ==
    ASSUME IInv, CheckAlone, NEW r \in Req, NEW q \in Request, reqs' = [reqs EXCEPT ![r] = q],
           InFlight' \subseteq InFlight, q.kind = "check" /\ Holding(q) => InFlight' = {}
    PROVE  CheckAlone'
<1>1. \A s \in Req : reqs'[s] = IF s = r THEN q ELSE reqs[s]
  BY DEF IInv, TypeOK
<1>2. QED
  BY <1>1 DEF CheckAlone

LEMMA FinishCheck ==
    ASSUME IInv, CheckAlone, NEW r \in Req, ~Flying(reqs[r]), Finish(r)
    PROVE  InFlight' = InFlight /\ CheckAlone'
<1>1. InFlight' = InFlight
  BY FinishCounted DEF IInv
<1>2. QED
  BY <1>1, CheckKept, Constants DEF Finish

LEMMA AttachCheck ==
    ASSUME IInv, CheckAlone, NEW r \in Req, NEW q \in Request, NEW next \in {"attached", "handler"},
           AttachById(r, q, next), next = "handler" => q.st \in Runtime, ~Flying(reqs[r]),
           q.kind = "check" => InFlight = {}
    PROVE  InFlight' = InFlight /\ CheckAlone'
<1>1. InFlight' = InFlight
  BY AttachCounted
<1>2. PICK new \in Request : reqs' = [reqs EXCEPT ![r] = new] /\ new.kind = q.kind
  BY AttachMoves
<1>3. QED
  BY <1>1, <1>2, CheckKept

\* A prompt is submitted by the request that holds the operation: no check does.
LEMMA SubmitCounted ==
    ASSUME IInv, PendingExact, CheckAlone, NEW r \in Req, Submit(r),
           Holding(reqs[r]), reqs[r].kind # "check"
    PROVE  PendingExact' /\ CheckAlone'
<1> DEFINE new == [reqs[r] EXCEPT !.pc = "submitted"]
<1>1. new \in Request /\ Flying(new) /\ ~Flying(reqs[r]) /\ ~Holding(new)
  BY DEF IInv, TypeOK, Request, Flying, Holding
<1>2. reqs' = [reqs EXCEPT ![r] = new] /\ pending' = pending + 1
  BY DEF Submit, Go, Count, IInv, TypeOK
<1> HIDE DEF new
<1>3. PendingExact'
  BY <1>1, <1>2, OneCounted DEF PendingExact, IInv
<1>4. ASSUME NEW s \in Req PROVE ~(reqs'[s].kind = "check" /\ Holding(reqs'[s]))
  <2>1. reqs'[s] = IF s = r THEN new ELSE reqs[s]
    BY <1>2 DEF IInv, TypeOK
  <2>2. s # r => ~Holding(reqs[s])
    BY DEF IInv, OpHeld
  <2>3. QED
    BY <1>1, <2>1, <2>2
<1>5. QED
  BY <1>3, <1>4 DEF CheckAlone

LEMMA RequestStepsCounted ==
    ASSUME IInv, PendingExact, CheckAlone, NEW r \in Req, RequestStep(r)
    PROVE  PendingExact' /\ CheckAlone'
<1>1. reqs[r] \in Request /\ Sound(reqs[r])
  BY DEF IInv, TypeOK, RequestsSound
<1>2. ASSUME Finish(r), ~Flying(reqs[r]), pending' = pending PROVE PendingExact' /\ CheckAlone'
  BY <1>2, FinishCheck DEF PendingExact
<1>3. ASSUME NEW q \in Request, NEW next \in {"attached", "handler"}, AttachById(r, q, next),
             next = "handler" => q.st \in Runtime, ~Flying(reqs[r]),
             q.kind = "check" => InFlight = {}, pending' = pending
      PROVE PendingExact' /\ CheckAlone'
  BY <1>3, AttachCheck DEF PendingExact
<1>4. ASSUME NEW q \in Request, reqs' = [reqs EXCEPT ![r] = q], ~Flying(reqs[r]), ~Flying(q),
             q.kind = "check" /\ Holding(q) => InFlight = {}, pending' = pending
      PROVE PendingExact' /\ CheckAlone'
  <2>1. InFlight' = InFlight
    BY <1>4, OneCounted DEF IInv
  <2>2. QED
    BY <1>4, <2>1, CheckKept DEF PendingExact
<1>5. CASE Admit(r)
  <2>1. reqs[r].kind = "check" => InFlight = {}
    BY <1>5, NoneInFlight DEF Admit, Admissible
  <2>2. CASE reqs[r].kind = "bang"
    <3> DEFINE new == [reqs[r] EXCEPT !.pc = "running"]
    <3>1. new \in Request /\ new.kind = "bang" /\ ~Flying(new)
      BY <1>1, <2>2 DEF Request, Flying
    <3>2. reqs' = [reqs EXCEPT ![r] = new] /\ ~Flying(reqs[r]) /\ pending' = pending
      BY <1>5, <2>2 DEF Admit, Go, Flying, IInv, TypeOK
    <3>3. QED
      BY <1>4, <3>1, <3>2
  <2>3. CASE reqs[r].kind # "bang"
    BY <1>1, <1>3, <1>5, <2>1, <2>3 DEF Admit, Flying
  <2>4. QED
    BY <2>2, <2>3
<1>6. CASE Refuse(r) \/ Done(r) \/ Busy(r)
  BY <1>2, <1>6 DEF Refuse, Done, Busy, Flying
<1>7. CASE Read(r)
  BY <1>1, <1>3, <1>7 DEF Read, Flying
<1>8. CASE BeforePrompt(r)
  <2> DEFINE q == [reqs[r] EXCEPT !.before = live]
  <2>1. q \in Request /\ q.kind = "prompt" /\ q.st \in Runtime /\ ~Flying(reqs[r])
    BY <1>1, <1>8 DEF BeforePrompt, StillFree, Request, IInv, TypeOK, Sound, Captured, Flying
  <2>2. AttachById(r, q, "handler") /\ pending' = pending
    BY <1>8 DEF BeforePrompt
  <2> HIDE DEF q
  <2>3. QED
    BY <1>3, <2>1, <2>2
<1>9. CASE Command(r)
  <2> DEFINE new == [reqs[r] EXCEPT !.pc = "handler"]
  <2>1. new \in Request /\ new.kind = reqs[r].kind /\ ~Flying(new) /\ ~Flying(reqs[r])
    BY <1>1, <1>9 DEF Command, StillFree, Request, Flying
  <2>2. reqs[r].kind = "check" => InFlight = {}
    BY <1>9 DEF Command, StillFree, CheckAlone, Holding
  <2>3. reqs' = [reqs EXCEPT ![r] = new] /\ pending' = pending
    BY <1>9 DEF Command, Go, IInv, TypeOK
  <2> HIDE DEF new
  <2>4. QED
    BY <1>4, <2>1, <2>2, <2>3
<1>10. CASE HandlerEnds(r)
  <2>1. CASE reqs[r].kind # "prompt"
    BY <1>2, <1>10, <2>1 DEF HandlerEnds, Flying
  <2>2. CASE reqs[r].kind = "prompt"
    <3> DEFINE new == [Unswitched(reqs[r]) EXCEPT !.st = Prompted(r)]
    <3>1. reqs[r].st \in Runtime
      BY <1>1, <1>10, <2>2 DEF HandlerEnds, Sound, Captured
    <3>2. Prompted(r) \in Runtime
      BY <3>1 DEF Prompted, IInv, TypeOK
    <3>3. new \in Request /\ new.kind = "prompt" /\ ~Flying(new) /\ ~Flying(reqs[r])
      BY <1>1, <1>10, <2>2, <3>2 DEF HandlerEnds, Unswitched, Request, Flying
    <3>4. reqs' = [reqs EXCEPT ![r] = new] /\ pending' = pending
      BY <1>10, <2>2 DEF HandlerEnds, IInv, TypeOK
    <3> HIDE DEF new
    <3>5. QED
      BY <1>4, <3>3, <3>4
  <2>3. QED
    BY <2>1, <2>2
<1>11. CASE Prompt(r)
  <2>1. Holding(reqs[r]) /\ reqs[r].kind # "check" /\ ~Flying(reqs[r])
    BY <1>1, <1>11 DEF Prompt, Sound, Holding, Flying
  <2>2. QED
    BY <1>2, <1>11, <2>1, SubmitCounted DEF Prompt
<1>12. CASE FollowUp(r)
  <2>1. Holding(reqs[r]) /\ reqs[r].kind # "check" /\ ~Flying(reqs[r])
    BY <1>12 DEF FollowUp, StillFree, Holding, Flying
  <2>2. QED
    BY <1>2, <1>12, <2>1, SubmitCounted DEF FollowUp
<1>13. QED
  BY <1>5, <1>6, <1>7, <1>8, <1>9, <1>10, <1>11, <1>12 DEF RequestStep

LEMMA TurnStepsCounted ==
    ASSUME IInv, PendingExact, CheckAlone, NEW r \in Req, TurnStep(r)
    PROVE  PendingExact' /\ CheckAlone'
<1>1. reqs[r] \in Request /\ Flying(reqs[r])
  BY DEF TurnStep, TurnStarts, AgentEnd, TurnFails, Settle, Reject, InFlight, Flying, IInv, TypeOK
<1>2. CASE TurnStarts(r) \/ AgentEnd(r)
  <2>1. PICK pc \in {"turn", "ended"} : reqs' = Go(r, pc) /\ pending' = pending
    BY <1>2 DEF TurnStarts, AgentEnd
  <2> DEFINE new == [reqs[r] EXCEPT !.pc = pc]
  <2>2. new \in Request /\ Flying(new) /\ ~Holding(new)
    BY <1>1, <2>1 DEF Request, Flying, Holding
  <2>3. reqs' = [reqs EXCEPT ![r] = new]
    BY <2>1 DEF Go, IInv, TypeOK
  <2> HIDE DEF new
  <2>4. InFlight' = InFlight
    BY <1>1, <2>2, <2>3, OneCounted DEF IInv
  <2>5. QED
    BY <2>1, <2>2, <2>3, <2>4, CheckKept DEF PendingExact
<1>3. CASE TurnFails(r)
  BY <1>3 DEF TurnFails, PendingExact, CheckAlone, InFlight
<1>4. CASE Settle(r) \/ Reject(r)
  <2>1. reqs' = [reqs EXCEPT ![r] = IdleReq] /\ pending' = pending - 1
    BY <1>4 DEF Settle, Reject, Count, IInv, TypeOK
  <2>2. IdleReq \in Request /\ ~Flying(IdleReq) /\ ~Holding(IdleReq)
    BY Constants DEF IdleReq, Flying
  <2>3. PendingExact'
    BY <1>1, <2>1, <2>2, OneCounted DEF PendingExact, IInv
  <2>4. InFlight' \subseteq InFlight
    BY <2>1, <2>2 DEF InFlight, Flying, IInv, TypeOK
  <2>5. QED
    BY <2>1, <2>2, <2>3, <2>4, CheckKept
<1>5. QED
  BY <1>2, <1>3, <1>4 DEF TurnStep

\* An attach or a replacement moves no prompt, and a check goes on as it was.
LEMMA AttachStepsCounted ==
    ASSUME IInv, PendingExact, CheckAlone, AttachStep
    PROVE  PendingExact' /\ CheckAlone'
<1>1. ASSUME \A r \in Req : /\ Flying(reqs'[r]) <=> Flying(reqs[r])
                            /\ reqs'[r].kind = "check" /\ Holding(reqs'[r])
                                 => reqs[r].kind = "check" /\ Holding(reqs[r]),
             pending' = pending
      PROVE  PendingExact' /\ CheckAlone'
  <2>1. InFlight' = InFlight
    BY <1>1 DEF InFlight, Flying
  <2>2. QED
    BY <1>1, <2>1 DEF PendingExact, CheckAlone
<1>2. \A r \in Req : reqs[r] \in Request
  BY DEF IInv, TypeOK
<1>3. ASSUME NEW x, Attached(x), pending' = pending PROVE PendingExact' /\ CheckAlone'
  <2>1. ASSUME NEW r \in Req, reqs[r].pc = "joined"
        PROVE  reqs'[r].kind = reqs[r].kind /\ ~Flying(reqs'[r])
    BY <1>2, <1>3, <2>1 DEF Attached, Has, Request, Flying
  <2>2. \A r \in Req : reqs[r].pc # "joined" => reqs'[r] = reqs[r]
    BY <1>3 DEF Attached
  <2>3. QED
    BY <1>1, <1>3, <2>1, <2>2 DEF Holding, Flying
<1>4. CASE Discovered
  <2>1. CASE live # NoRuntime
    BY <1>3, <1>4, <2>1 DEF Discovered
  <2>2. CASE live = NoRuntime
    BY <1>1, <1>4, <2>2 DEF Discovered
  <2>3. QED
    BY <2>1, <2>2
<1>5. CASE AttachDone
  BY <1>3, <1>5 DEF AttachDone
<1>6. CASE AttachFails
  <2>1. \A r \in Req : reqs[r].pc # "joined" => reqs'[r] = reqs[r]
    BY <1>6 DEF AttachFails
  <2>2. ASSUME NEW r \in Req, reqs[r].pc = "joined"
        PROVE  reqs'[r].kind # "check" /\ ~Flying(reqs'[r])
    <3>1. CASE Survives(r)
      BY <1>2, <1>6, <2>2, <3>1 DEF AttachFails, Survives, Unswitched, Request, Flying
    <3>2. CASE ~Survives(r)
      BY <1>6, <2>2, <3>2 DEF AttachFails, IdleReq, Flying
    <3>3. QED
      BY <3>1, <3>2
  <2>3. QED
    BY <1>1, <1>6, <2>1, <2>2 DEF AttachFails, Flying
<1>7. QED
  BY <1>4, <1>5, <1>6 DEF AttachStep

LEMMA SwapStepsCounted ==
    ASSUME IInv, PendingExact, CheckAlone, SwapStep
    PROVE  PendingExact' /\ CheckAlone'
<1>1. CASE SwapBegins \/ SwapAborted \/ SwapDetaches \/ SwapFails
  BY <1>1 DEF SwapBegins, SwapAborted, SwapDetaches, SwapFails, PendingExact, CheckAlone, InFlight
<1>2. CASE SwapRegisters \/ SwapRestores
  <2> DEFINE r == swap.by
  <2>1. /\ r \in Req /\ reqs[r].pc = "handler" /\ reqs[r] \in Request
        /\ Holding(reqs[r]) /\ ~Flying(reqs[r])
    BY <1>2 DEF SwapRegisters, SwapRestores, SwapOwned, IInv, TypeOK, RequestsSound, Sound, Holding, Flying
  <2>2. pending' = pending
    BY <1>2 DEF SwapRegisters, SwapRestores
  <2>3. CASE SwapRestores /\ reqs[r].kind # "prompt"
    <3>1. Finish(r)
      BY <2>3 DEF SwapRestores, Throws
    <3>2. QED
      BY <2>1, <2>2, <3>1, FinishCheck DEF PendingExact
  <2>4. CASE SwapRegisters \/ reqs[r].kind = "prompt"
    <3>1. PICK new \in Request :
            /\ reqs' = [reqs EXCEPT ![r] = new]
            /\ new.kind = reqs[r].kind /\ ~Flying(new)
      <4>1. CASE SwapRegisters
        <5> DEFINE new == [reqs[r] EXCEPT !.pc = "handled"]
        <5>1. new \in Request /\ new.kind = reqs[r].kind /\ ~Flying(new)
          BY <2>1 DEF Request, Flying
        <5>2. reqs' = [reqs EXCEPT ![r] = new]
          BY <2>1, <4>1 DEF SwapRegisters, Go, IInv, TypeOK
        <5>3. QED
          BY <5>1, <5>2
      <4>2. CASE SwapRestores /\ reqs[r].kind = "prompt"
        <5> DEFINE new == Unswitched(reqs[r])
        <5>1. new \in Request /\ new.kind = reqs[r].kind /\ ~Flying(new)
          BY <2>1 DEF Unswitched, Request, Flying
        <5>2. reqs' = [reqs EXCEPT ![r] = new]
          BY <2>1, <4>2 DEF SwapRestores, Throws, IInv, TypeOK
        <5>3. QED
          BY <5>1, <5>2
      <4>3. QED
        BY <1>2, <2>4, <4>1, <4>2
    <3>2. InFlight' = InFlight
      BY <2>1, <3>1, OneCounted DEF IInv
    <3>3. reqs[r].kind = "check" => InFlight = {}
      BY <2>1 DEF CheckAlone
    <3>4. QED
      BY <2>1, <2>2, <3>1, <3>2, <3>3, CheckKept DEF PendingExact
  <2>5. QED
    BY <1>2, <2>3, <2>4
<1>3. QED
  BY <1>1, <1>2 DEF SwapStep

LEMMA OtherStepsCounted ==
    ASSUME IInv, PendingExact, CheckAlone,
           \/ \E r \in Req, k \in Kind : Send(r, k)
           \/ \E r \in Req, f \in File : SwitchSession(r, f)
           \/ ReloadStarts \/ ReloadDisposes
    PROVE  PendingExact' /\ CheckAlone'
<1>1. ASSUME NEW r \in Req, NEW k \in Kind, Send(r, k) PROVE PendingExact' /\ CheckAlone'
  <2> DEFINE new == [IdleReq EXCEPT !.pc = "waiting", !.kind = k, !.token = bound]
  <2>1. new \in Request /\ ~Holding(new) /\ ~Flying(new)
    BY Constants DEF IdleReq, IInv, TypeOK, Request, Holding, Flying
  <2>2. reqs' = [reqs EXCEPT ![r] = new] /\ ~Flying(reqs[r]) /\ pending' = pending
    BY <1>1 DEF Send, Flying
  <2> HIDE DEF new
  <2>3. InFlight' = InFlight
    BY <2>1, <2>2, OneCounted DEF IInv
  <2>4. QED
    BY <2>1, <2>2, <2>3, CheckKept DEF PendingExact
<1>2. ASSUME NEW r \in Req, NEW f \in File, SwitchSession(r, f) PROVE PendingExact' /\ CheckAlone'
  BY <1>2 DEF SwitchSession, PendingExact, CheckAlone, InFlight
<1>3. CASE ReloadStarts \/ ReloadDisposes
  BY <1>3 DEF ReloadStarts, ReloadDisposes, PendingExact, CheckAlone, InFlight
<1>4. QED
  BY <1>1, <1>2, <1>3

(***************************************************************************)
(* The theorems.                                                           *)
(***************************************************************************)

\* The invariant is inductive: what a request captured and holds, and the count of
\* the prompts in flight, go together.
Inv == IInv /\ PendingExact /\ CheckAlone

THEOREM InvCorrect == Spec => []Inv
<1>1. Init => Inv
  <2> SUFFICES ASSUME Init PROVE Inv
    OBVIOUS
  <2>1. TypeOK
    BY Constants DEF Init, TypeOK
  <2>2. InFlight = {}
    BY DEF Init, InFlight, IdleReq
  <2>3. Cardinality(InFlight) = 0
    BY <2>2, FS_EmptySet
  <2>4. RequestsSound /\ OpHeld /\ SwapOwned
    BY Constants, ConversationAssumption DEF Init, RequestsSound, OpHeld, SwapOwned, NoSwap
  <2>5. QED
    BY <2>1, <2>2, <2>3, <2>4 DEF Init, Inv, IInv, PendingExact, CheckAlone
<1>2. Inv /\ [Next]_vars => Inv'
  <2> SUFFICES ASSUME Inv, [Next]_vars PROVE Inv'
    OBVIOUS
  <2> USE DEF Inv
  <2>1. ASSUME Next PROVE Inv'
    <3>1. ops' = ops
      BY <2>1 DEF Next
    <3>2. CASE \E r \in Req : RequestStep(r)
      BY <3>1, <3>2, RequestSteps, RequestStepsCounted
    <3>3. CASE SwapStep
      BY <3>1, <3>3, SwapSteps, SwapStepsCounted
    <3>4. CASE AttachStep
      BY <3>1, <3>4, AttachSteps, AttachStepsCounted
    <3>5. CASE \E r \in Req : TurnStep(r)
      BY <3>1, <3>5, TurnSteps, TurnStepsCounted
    <3>6. CASE \/ \E r \in Req, k \in Kind : Send(r, k)
               \/ \E r \in Req, f \in File : SwitchSession(r, f)
               \/ ReloadStarts \/ ReloadDisposes
      BY <3>1, <3>6, OtherSteps, OtherStepsCounted
    <3>7. QED
      BY <2>1, <3>2, <3>3, <3>4, <3>5, <3>6 DEF Next, Step, TurnStep
  <2>2. ASSUME UNCHANGED vars PROVE Inv'
    BY <2>2 DEF vars, IInv, TypeOK, RequestsSound, OpHeld, SwapOwned, PendingExact, CheckAlone, InFlight
  <2>3. QED
    BY <2>1, <2>2
<1>3. QED
  BY <1>1, <1>2, PTL DEF Spec

\* Every variable keeps its type.
THEOREM TypeCorrect == Spec => []TypeOK
<1>1. Inv => TypeOK
  BY DEF Inv, IInv
<1>2. QED
  BY <1>1, InvCorrect, PTL

\* pendingPrompts counts exactly the prompts that are not settled, whatever is
\* replaced, reloaded, refused or rejected meanwhile.
THEOREM PendingExactCorrect == Spec => []PendingExact
<1>1. Inv => PendingExact
  BY DEF Inv
<1>2. QED
  BY <1>1, InvCorrect, PTL

\* No prompt is queued or in a turn and no bang runs while an automatic check
\* replaces the runtime.
THEOREM RefreshAloneCorrect == Spec => []RefreshAlone
<1>1. Inv => RefreshAlone
  <2> SUFFICES ASSUME Inv, swap.at # "none", reqs[swap.by].kind = "check"
               PROVE  InFlight = {} /\ \A r \in Req : reqs[r].pc # "running"
    BY DEF RefreshAlone
  <2>1. swap.by \in Req /\ reqs[swap.by].pc = "handler" /\ Holding(reqs[swap.by])
    BY DEF Inv, IInv, SwapOwned, Holding
  <2>2. op = swap.by
    BY <2>1 DEF Inv, IInv, OpHeld
  <2>3. InFlight = {}
    BY <2>1 DEF Inv, CheckAlone
  <2>4. ASSUME NEW r \in Req, reqs[r].pc = "running" PROVE FALSE
    <3>1. reqs[r].kind # "read"
      BY <2>4 DEF Inv, IInv, RequestsSound, Sound
    <3>2. QED
      BY <2>1, <2>2, <2>4, <3>1 DEF Inv, IInv, OpHeld, Holding
  <2>5. QED
    BY <2>3, <2>4
<1>2. QED
  BY <1>1, InvCorrect, PTL

(***************************************************************************)
(* What was attached or prompted is still the snapshot its sender saw.     *)
(***************************************************************************)
Calm == ops \cap {"reload", "fail"} = {}

\* A prompt in flight and a bang that runs are on their snapshot; without reloads
\* and failures so is a follow-up, from the moment it joins an attach.
OnToken(r) ==
    LET q == reqs[r] IN
    /\ Flying(q) => q.kind \in {"prompt", "followUp"}
    /\ Flying(q) /\ q.kind = "prompt" => rt[q.st].file = q.token
    /\ q.pc = "running" => bound = q.token
    /\ Calm /\ q.kind = "followUp" =>
         /\ q.pc = "joined" => live = NoRuntime /\ bound = q.token
         /\ q.pc = "attached" \/ Flying(q) => rt[q.st].file = q.token

\* Without them the attach of a conversation that is not live opens what is bound.
AttachCalm ==
    Calm => /\ reload = NoRuntime /\ swap.at # "restore"
            /\ live = NoRuntime /\ swap.at = "none" /\ attaching.at = "create" => attaching.file = bound

SnapInv == AttachCalm /\ \A r \in Req : OnToken(r)

\* A runtime that something refers to keeps its file.
LEMMA RegisterKept ==
    ASSUME TypeOK, NEW f \in File, Register(f)
    PROVE  /\ \A x \in Runtime \ Free : rt'[x] = rt[x]
           /\ NewRuntime \in Free /\ rt'[NewRuntime].file = f
<1>1. NewRuntime \in Free
  BY DEF Register, NewRuntime
<1>2. \A x \in Runtime : rt'[x] = IF x = NewRuntime THEN Born(f) ELSE IF x \in Free THEN Unborn ELSE rt[x]
  BY DEF Register
<1>3. NewRuntime \in Runtime /\ Born(f).file = f
  BY <1>1 DEF Free, Born
<1>4. QED
  BY <1>1, <1>2, <1>3

LEMMA FileKept ==
    ASSUME IInv, Step, NEW x \in Runtime, x \notin Free
    PROVE  rt'[x].file = rt[x].file
<1> USE DEF IInv
<1>1. rt[x] \in Session /\ rt[x].file \in File
  BY DEF TypeOK, Session
<1>2. CASE rt' = rt
  BY <1>2
<1>3. CASE \E f \in File : Register(f)
  BY <1>3, RegisterKept
<1>4. ASSUME NEW y, Disposed(y) PROVE rt'[x].file = rt[x].file
  BY <1>1, <1>4 DEF Disposed, TypeOK, Session
<1>5. ASSUME NEW y, NEW b, EndTurn(y, b) PROVE rt'[x].file = rt[x].file
  BY <1>1, <1>5 DEF EndTurn, TypeOK, Session
<1>6. ASSUME NEW r \in Req, TurnStarts(r) PROVE rt'[x].file = rt[x].file
  BY <1>1, <1>6 DEF TurnStarts, Started, TypeOK, Session
<1>7. ASSUME NEW r \in Req, AgentEnd(r) PROVE rt'[x].file = rt[x].file
  <2>1. CASE rt' = [rt EXCEPT ![reqs[r].st].streaming = FALSE]
    BY <1>1, <2>1 DEF TypeOK, Session
  <2>2. QED
    BY <1>5, <1>7, <2>1 DEF AgentEnd
<1>8. CASE SwapStep
  <2>1. SwapRegisters => \E f \in File : Register(f)
    BY DEF SwapRegisters, TypeOK, Swap
  <2>2. SwapRestores => rt' = rt \/ \E f \in File : Register(f)
    BY DEF SwapRestores, SwapOwned, TypeOK, Session
  <2>3. QED
    BY <1>2, <1>3, <1>4, <1>8, <2>1, <2>2 DEF SwapStep, SwapBegins, SwapAborted, SwapDetaches, SwapFails
<1>9. CASE AttachStep
  <2>1. AttachDone => \E f \in File : Register(f)
    BY DEF AttachDone, TypeOK, Attach
  <2>2. QED
    BY <1>2, <1>3, <1>9, <2>1 DEF AttachStep, Discovered, AttachFails
<1>10. CASE \E r \in Req : RequestStep(r) \/ \E k \in Kind : Send(r, k)
  BY <1>2, <1>10 DEF RequestStep, Send, Admit, Refuse, Read, Done, Busy, BeforePrompt, Command, HandlerEnds, Prompt, FollowUp
<1>11. CASE \E r \in Req : TurnStep(r)
  BY <1>2, <1>5, <1>6, <1>7, <1>11 DEF TurnStep, TurnFails, Settle, Reject
<1>12. CASE ReloadStarts \/ ReloadDisposes \/ \E r \in Req, f \in File : SwitchSession(r, f)
  BY <1>2, <1>4, <1>12 DEF ReloadStarts, ReloadDisposes, SwitchSession
<1>13. QED
  BY <1>8, <1>9, <1>10, <1>11, <1>12 DEF Step, TurnStep

\* Only the request that holds the operation, in its handler, changes the binding or
\* has a replacement.
LEMMA HolderKeeps ==
    ASSUME IInv, Step, NEW r \in Req, Holding(reqs[r]), reqs[r].pc # "handler"
    PROVE  swap.at = "none" /\ bound' = bound
<1> USE DEF IInv
<1>1. ASSUME NEW s \in Req, reqs[s].pc = "handler" PROVE FALSE
  <2>1. Holding(reqs[s])
    BY <1>1 DEF RequestsSound, Sound, Holding
  <2>2. QED
    BY <1>1, <2>1 DEF OpHeld
<1>2. swap.at = "none"
  BY <1>1 DEF SwapOwned
<1>3. bound' = bound
  <2>1. ~SwapStep
    BY <1>2 DEF SwapStep, SwapBegins, SwapAborted, SwapDetaches, SwapRegisters, SwapFails, SwapRestores
  <2>2. \A s \in Req, f \in File : ~SwitchSession(s, f)
    BY <1>1 DEF SwitchSession
  <2>3. QED
    BY <2>1, <2>2 DEF Step, AttachStep, Discovered, AttachDone, AttachFails, RequestStep, Send, Admit, Refuse, Read, Done, Busy,
        BeforePrompt, Command, HandlerEnds, Prompt, FollowUp, TurnStarts, AgentEnd, TurnFails, Settle, Reject,
        ReloadStarts, ReloadDisposes
<1>4. QED
  BY <1>2, <1>3

LEMMA AttachCalmKept ==
    ASSUME IInv, SnapInv, Step, ops' = ops
    PROVE  AttachCalm'
<1> USE DEF IInv
<1> SUFFICES ASSUME Calm
             PROVE  /\ reload' = NoRuntime /\ swap'.at # "restore"
                    /\ live' = NoRuntime /\ swap'.at = "none" /\ attaching'.at = "create" => attaching'.file = bound'
  BY DEF AttachCalm, Calm
<1>1. /\ "reload" \notin ops /\ "fail" \notin ops
      /\ reload = NoRuntime /\ swap.at # "restore"
      /\ live = NoRuntime /\ swap.at = "none" /\ attaching.at = "create" => attaching.file = bound
  BY DEF Calm, SnapInv, AttachCalm
<1>2. attaching \in Attach
  BY DEF TypeOK
<1>3. CASE UNCHANGED <<live, bound, swap, reload, attaching>>
  BY <1>1, <1>3
<1>4. ASSUME NEW r \in Req, NEW q, NEW next, AttachById(r, q, next), UNCHANGED <<live, bound, swap, reload>>
      PROVE  /\ reload' = NoRuntime /\ swap'.at # "restore"
             /\ live' = NoRuntime /\ swap'.at = "none" /\ attaching'.at = "create" => attaching'.file = bound'
  BY <1>1, <1>2, <1>4 DEF AttachById, Attach
<1>5. CASE \E r \in Req : RequestStep(r) \/ \E k \in Kind : Send(r, k)
  <2>1. PICK r \in Req : RequestStep(r) \/ \E k \in Kind : Send(r, k)
    BY <1>5
  <2>2. CASE Admit(r) \/ Read(r) \/ BeforePrompt(r)
    <3>1. UNCHANGED <<live, bound, swap, reload>>
      BY <2>2 DEF Admit, Read, BeforePrompt
    <3>2. attaching' = attaching \/ \E q, next : AttachById(r, q, next)
      BY <2>2 DEF Admit, Read, BeforePrompt
    <3>3. QED
      BY <1>3, <1>4, <3>1, <3>2
  <2>3. QED
    BY <1>3, <2>1, <2>2 DEF RequestStep, Send, Refuse, Done, Busy, Command, HandlerEnds, Prompt, FollowUp
<1>6. CASE \E r \in Req, f \in File : SwitchSession(r, f)
  BY <1>1, <1>6 DEF SwitchSession
<1>7. CASE SwapStep
  <2>1. swap \in Swap
    BY DEF TypeOK
  <2>2. CASE SwapBegins \/ SwapAborted \/ SwapDetaches
    <3>1. swap'.at \in {"abort", "dispose", "create"} /\ reload' = reload
      BY <2>1, <2>2 DEF SwapBegins, SwapAborted, SwapDetaches, Swap
    <3>2. QED
      BY <1>1, <3>1
  <2>3. CASE SwapRegisters
    <3>1. live' \in Runtime
      BY <2>1, <2>3, RegisterTypes DEF SwapRegisters, Swap
    <3>2. swap'.at = "none" /\ reload' = reload
      BY <2>3 DEF SwapRegisters, NoSwap
    <3>3. QED
      BY <1>1, <3>1, <3>2, ConversationAssumption
  <2>4. QED
    BY <1>1, <1>7, <2>2, <2>3 DEF SwapStep, SwapFails, SwapRestores
<1>8. CASE AttachStep
  <2>1. ASSUME NEW x, Attached(x) PROVE attaching'.at = "none"
    BY <2>1 DEF Attached, NotAttaching
  <2>2. CASE Discovered
    BY <1>1, <2>1, <2>2 DEF Discovered
  <2>3. CASE AttachDone
    BY <1>1, <2>1, <2>3 DEF AttachDone
  <2>4. QED
    BY <1>1, <1>8, <2>2, <2>3 DEF AttachStep, AttachFails
<1>9. CASE \E r \in Req : TurnStarts(r) \/ AgentEnd(r) \/ TurnFails(r) \/ Settle(r) \/ Reject(r)
  BY <1>3, <1>9 DEF TurnStarts, AgentEnd, TurnFails, Settle, Reject
<1>10. QED
  BY <1>1, <1>5, <1>6, <1>7, <1>8, <1>9 DEF Step, ReloadStarts, ReloadDisposes

\* A request that does not move stays on its token.
LEMMA UnmovedOnToken ==
    ASSUME IInv, SnapInv, Step, ops' = ops, NEW r \in Req, reqs'[r] = reqs[r]
    PROVE  OnToken(r)'
<1> USE DEF IInv
<1>1. reqs[r] \in Request /\ Sound(reqs[r]) /\ OnToken(r) /\ (Calm' <=> Calm)
  BY DEF TypeOK, RequestsSound, SnapInv, Calm
<1>2. ASSUME Flying(reqs[r]) \/ reqs[r].pc = "attached" PROVE rt'[reqs[r].st].file = rt[reqs[r].st].file
  <2>1. reqs[r].st \in Runtime
    BY <1>1, <1>2 DEF Sound, Captured, Flying
  <2>2. reqs[r].st \notin Free
    BY DEF Free
  <2>3. QED
    BY <2>1, <2>2, FileKept
<1>3. ASSUME reqs[r].pc = "running" PROVE bound' = bound
  <2>1. Holding(reqs[r])
    BY <1>1, <1>3 DEF Holding, Sound
  <2>2. QED
    BY <1>3, <2>1, HolderKeeps
<1>4. ASSUME Calm, reqs[r].kind = "followUp", reqs[r].pc = "joined" PROVE live' = NoRuntime /\ bound' = bound
  <2>1. Holding(reqs[r])
    BY <1>4 DEF Holding
  <2>2. swap.at = "none" /\ bound' = bound /\ live = NoRuntime /\ reload = NoRuntime
    BY <1>1, <1>4, <2>1, HolderKeeps DEF OnToken, SnapInv, AttachCalm
  <2>3. ~AttachDone
    <3> SUFFICES ASSUME AttachDone PROVE FALSE
      OBVIOUS
    <3>1. reqs'[r] = Has(reqs[r], NewRuntime, reqs[r].next) /\ reqs[r].next \in {"attached", "handler"}
      BY <1>1, <1>4 DEF AttachDone, Attached, Request
    <3>2. reqs'[r].pc = reqs[r].next
      BY <1>1, <3>1 DEF Has, Request
    <3>3. QED
      BY <1>4, <3>1, <3>2
  <2>4. ~SwapStep
    BY <2>2 DEF SwapStep, SwapBegins, SwapAborted, SwapDetaches, SwapRegisters, SwapFails, SwapRestores
  <2>5. live' = live
    BY <2>2, <2>3, <2>4 DEF Step, AttachStep, Discovered, AttachFails, RequestStep, Send, Admit, Refuse, Read, Done, Busy,
        BeforePrompt, Command, HandlerEnds, Prompt, FollowUp, SwitchSession, TurnStarts, AgentEnd, TurnFails, Settle, Reject,
        ReloadStarts, ReloadDisposes
  <2>6. QED
    BY <2>2, <2>5
<1>5. QED
  BY <1>1, <1>2, <1>3, <1>4 DEF OnToken


\* Nothing is asked of a request that neither runs nor is a follow-up on its way.
LEMMA HarmlessOnToken ==
    ASSUME NEW r \in Req, ~Flying(reqs'[r]), reqs'[r].pc # "running",
           reqs'[r].kind # "followUp" \/ reqs'[r].pc \notin {"joined", "attached"}
    PROVE  OnToken(r)'
BY DEF OnToken, Flying

LEMMA FinishedOnToken ==
    ASSUME IInv, NEW r \in Req, reqs'[r] = IdleReq
    PROVE  OnToken(r)'
BY HarmlessOnToken DEF IdleReq, Flying

\* A request that is served is admitted, attached and prompted on its token.
LEMMA RequestOnToken ==
    ASSUME IInv, SnapInv, NEW r \in Req, RequestStep(r), ops' = ops
    PROVE  OnToken(r)'
<1> USE DEF IInv
<1>1. reqs[r] \in Request /\ Sound(reqs[r]) /\ OnToken(r) /\ (Calm' <=> Calm) /\ live \in Runtime \cup {NoRuntime}
  BY DEF TypeOK, RequestsSound, SnapInv, Calm
<1>2. UNCHANGED <<live, rt, bound>>
  BY DEF RequestStep, Admit, Refuse, Read, Done, Busy, BeforePrompt, Command, HandlerEnds, Prompt, FollowUp
<1>3. ASSUME Finish(r) PROVE OnToken(r)'
  BY <1>3, FinishedOnToken DEF Finish, TypeOK
<1>4. CASE Refuse(r) \/ Done(r) \/ Busy(r)
  BY <1>3, <1>4 DEF Refuse, Done, Busy
<1>5. CASE Admit(r)
  <2>1. CASE reqs[r].kind \in {"sync", "check"}
    <3>1. AttachById(r, reqs[r], "attached")
      BY <1>5, <2>1 DEF Admit
    <3>2. PICK new \in Request : /\ reqs' = [reqs EXCEPT ![r] = new] /\ new.kind = reqs[r].kind
                                 /\ new.pc = "attached" \/ new.pc = "joined"
      BY <1>1, <3>1, AttachMoves
    <3>3. QED
      BY <2>1, <3>2, HarmlessOnToken DEF Flying, TypeOK
  <2>2. CASE reqs[r].kind \notin {"sync", "check"}
    <3>1. ~StaleHere(r)
      BY <1>5, <2>2 DEF Admit
    <3>2. reqs[r].token = bound /\ (live # NoRuntime => rt[live].file = bound)
      BY <3>1 DEF StaleHere, Stale
    <3>3. CASE reqs[r].kind = "bang"
      <4>1. reqs'[r] = [reqs[r] EXCEPT !.pc = "running"]
        BY <1>5, <3>3 DEF Admit, Go, TypeOK
      <4>2. reqs'[r].pc = "running" /\ reqs'[r].token = reqs[r].token /\ reqs'[r].kind = "bang"
        BY <1>1, <3>3, <4>1 DEF Request
      <4>3. QED
        BY <1>2, <3>2, <4>2 DEF OnToken, Flying
    <3>4. CASE reqs[r].kind # "bang" /\ live # NoRuntime
      <4>1. reqs'[r] = Has(reqs[r], live, "attached")
        BY <1>5, <3>4 DEF Admit, AttachById, TypeOK
      <4>2. reqs'[r].pc = "attached" /\ reqs'[r].st = live /\ reqs'[r].token = reqs[r].token
        BY <1>1, <4>1 DEF Has, Request
      <4>3. QED
        BY <1>2, <3>2, <3>4, <4>2 DEF OnToken, Flying
    <3>5. CASE reqs[r].kind # "bang" /\ live = NoRuntime
      <4>1. reqs'[r] = [reqs[r] EXCEPT !.pc = "joined", !.next = "attached"]
        BY <1>5, <3>5 DEF Admit, AttachById, TypeOK
      <4>2. reqs'[r].pc = "joined" /\ reqs'[r].token = reqs[r].token
        BY <1>1, <4>1 DEF Request
      <4>3. QED
        BY <1>2, <3>2, <3>5, <4>2 DEF OnToken, Flying
    <3>6. QED
      BY <3>3, <3>4, <3>5
  <2>3. QED
    BY <2>1, <2>2
<1>6. CASE Read(r)
  <2>1. AttachById(r, reqs[r], "attached") /\ reqs[r].kind = "read"
    BY <1>6 DEF Read
  <2>2. PICK new \in Request : /\ reqs' = [reqs EXCEPT ![r] = new] /\ new.kind = reqs[r].kind
                               /\ new.pc = "attached" \/ new.pc = "joined"
    BY <1>1, <2>1, AttachMoves
  <2>3. QED
    BY <2>1, <2>2, HarmlessOnToken DEF Flying, TypeOK
<1>7. CASE BeforePrompt(r)
  <2> DEFINE q == [reqs[r] EXCEPT !.before = live]
  <2>1. q \in Request /\ q.kind = "prompt" /\ q.st \in Runtime
    BY <1>1, <1>7 DEF BeforePrompt, StillFree, Request, Sound, Captured
  <2>2. AttachById(r, q, "handler")
    BY <1>7 DEF BeforePrompt
  <2> HIDE DEF q
  <2>3. PICK new \in Request : /\ reqs' = [reqs EXCEPT ![r] = new] /\ new.kind = q.kind
                               /\ new.pc = "handler" \/ new.pc = "joined"
    BY <2>1, <2>2, AttachMoves
  <2>4. QED
    BY <2>1, <2>3, HarmlessOnToken DEF Flying, TypeOK
<1>8. CASE Command(r)
  <2>1. reqs'[r] = [reqs[r] EXCEPT !.pc = "handler"]
    BY <1>8 DEF Command, Go, TypeOK
  <2>2. reqs'[r].pc = "handler"
    BY <1>1, <2>1 DEF Request
  <2>3. QED
    BY <2>2, HarmlessOnToken DEF Flying
<1>9. CASE HandlerEnds(r)
  <2>1. CASE reqs[r].kind # "prompt"
    BY <1>3, <1>9, <2>1 DEF HandlerEnds
  <2>2. CASE reqs[r].kind = "prompt"
    <3>1. reqs'[r] = [Unswitched(reqs[r]) EXCEPT !.st = Prompted(r)]
      BY <1>9, <2>2 DEF HandlerEnds, TypeOK
    <3>2. reqs'[r].pc = "assert"
      BY <1>1, <3>1 DEF Unswitched, Request
    <3>3. QED
      BY <3>2, HarmlessOnToken DEF Flying
  <2>3. QED
    BY <2>1, <2>2
<1>10. ASSUME Submit(r), rt[reqs[r].st].file = reqs[r].token, reqs[r].kind \in {"prompt", "followUp"}
       PROVE  OnToken(r)'
  <2>1. reqs'[r] = [reqs[r] EXCEPT !.pc = "submitted"]
    BY <1>10 DEF Submit, Go, TypeOK
  <2>2. /\ reqs'[r].pc = "submitted" /\ reqs'[r].st = reqs[r].st
        /\ reqs'[r].token = reqs[r].token /\ reqs'[r].kind = reqs[r].kind
    BY <1>1, <2>1 DEF Request
  <2>3. QED
    BY <1>2, <1>10, <2>2 DEF OnToken
<1>11. CASE Prompt(r)
  <2>1. CASE Stale(reqs[r].token, rt[reqs[r].st].file)
    BY <1>3, <1>11, <2>1 DEF Prompt
  <2>2. CASE ~Stale(reqs[r].token, rt[reqs[r].st].file)
    BY <1>1, <1>10, <1>11, <2>2 DEF Prompt, Stale, Sound
  <2>3. QED
    BY <2>1, <2>2
<1>12. CASE FollowUp(r)
  <2>1. CASE rt[reqs[r].st].streaming
    BY <1>3, <1>12, <2>1 DEF FollowUp
  <2>2. CASE ~rt[reqs[r].st].streaming
    <3>1. Submit(r) /\ reqs[r].pc = "attached" /\ reqs[r].kind = "followUp"
      BY <1>12, <2>2 DEF FollowUp, StillFree
    <3>2. CASE Calm
      BY <1>1, <1>10, <3>1, <3>2 DEF OnToken
    <3>3. CASE ~Calm
      <4>1. reqs'[r] = [reqs[r] EXCEPT !.pc = "submitted"]
        BY <3>1 DEF Submit, Go, TypeOK
      <4>2. reqs'[r].pc = "submitted" /\ reqs'[r].kind = "followUp"
        BY <1>1, <3>1, <4>1 DEF Request
      <4>3. QED
        BY <1>1, <3>3, <4>2 DEF OnToken
    <3>4. QED
      BY <3>2, <3>3
  <2>3. QED
    BY <2>1, <2>2
<1>13. QED
  BY <1>4, <1>5, <1>6, <1>7, <1>8, <1>9, <1>11, <1>12 DEF RequestStep

\* An attach that ends opens what its followers were admitted for.
LEMMA AttachOnToken ==
    ASSUME IInv, SnapInv, AttachStep, ops' = ops, NEW r \in Req, reqs'[r] # reqs[r]
    PROVE  OnToken(r)'
<1> USE DEF IInv
<1>1. reqs[r] \in Request /\ Sound(reqs[r]) /\ OnToken(r) /\ (Calm' <=> Calm) /\ AttachCalm
  BY DEF TypeOK, RequestsSound, SnapInv, Calm
<1>2. reqs[r].pc = "joined"
  BY DEF AttachStep, Discovered, AttachDone, AttachFails, Attached
<1>3. CASE AttachFails
  <2>1. reqs'[r] = IF Survives(r) THEN Unswitched(reqs[r]) ELSE IdleReq
    BY <1>2, <1>3 DEF AttachFails
  <2>2. Unswitched(reqs[r]).pc = "assert"
    BY <1>1 DEF Unswitched, Request
  <2>3. QED
    BY <2>1, <2>2, FinishedOnToken, HarmlessOnToken DEF Flying
<1>4. ASSUME NEW x \in Runtime, Attached(x),
             Calm /\ reqs[r].kind = "followUp" => rt'[x].file = reqs[r].token
      PROVE  OnToken(r)'
  <2>1. reqs'[r] = Has(reqs[r], x, reqs[r].next) /\ reqs[r].next \in {"attached", "handler"}
    BY <1>1, <1>2, <1>4 DEF Attached, Request
  <2>2. /\ reqs'[r].pc = reqs[r].next /\ reqs'[r].kind = reqs[r].kind
        /\ reqs'[r].token = reqs[r].token
        /\ reqs[r].next = "attached" => reqs'[r].st = x
    BY <1>1, <2>1 DEF Has, Request
  <2>3. QED
    BY <1>1, <1>4, <2>1, <2>2 DEF OnToken, Flying
<1>5. CASE Discovered
  <2>1. live # NoRuntime
    BY <1>5 DEF Discovered
  <2>2. Attached(live) /\ live \in Runtime
    BY <1>5, <2>1 DEF Discovered, TypeOK
  <2>3. ~(Calm /\ reqs[r].kind = "followUp")
    BY <1>1, <1>2, <2>1 DEF OnToken
  <2>4. QED
    BY <1>4, <2>2, <2>3
<1>6. CASE AttachDone
  <2>1. attaching.file \in File /\ Register(attaching.file) /\ Attached(NewRuntime)
    BY <1>6 DEF AttachDone, TypeOK, Attach
  <2>2. NewRuntime \in Runtime /\ rt'[NewRuntime].file = attaching.file
    BY <2>1, RegisterKept DEF Free
  <2>3. ASSUME Calm, reqs[r].kind = "followUp" PROVE attaching.file = reqs[r].token
    <3>1. live = NoRuntime /\ bound = reqs[r].token
      BY <1>1, <1>2, <2>3 DEF OnToken
    <3>2. swap.at = "none"
      BY <1>2, <2>3, HolderKeeps DEF Holding, Step
    <3>3. attaching.at = "create"
      BY <1>6 DEF AttachDone
    <3>4. QED
      BY <1>1, <2>3, <3>1, <3>2, <3>3 DEF AttachCalm
  <2>4. QED
    BY <1>4, <2>1, <2>2, <2>3
<1>7. QED
  BY <1>3, <1>5, <1>6 DEF AttachStep

\* A turn goes on with the runtime it was given to.
LEMMA TurnOnToken ==
    ASSUME IInv, SnapInv, NEW r \in Req, TurnStep(r), ops' = ops, reqs'[r] # reqs[r]
    PROVE  OnToken(r)'
<1> USE DEF IInv
<1>1. reqs[r] \in Request /\ Sound(reqs[r]) /\ OnToken(r) /\ (Calm' <=> Calm)
  BY DEF TypeOK, RequestsSound, SnapInv, Calm
<1>2. CASE Settle(r) \/ Reject(r)
  BY <1>2, FinishedOnToken DEF Settle, Reject, TypeOK
<1>3. CASE TurnStarts(r) \/ AgentEnd(r)
  <2>1. Flying(reqs[r]) /\ \E pc \in {"turn", "ended"} : reqs'[r] = [reqs[r] EXCEPT !.pc = pc]
    BY <1>3 DEF TurnStarts, AgentEnd, Flying, Go, TypeOK
  <2>2. /\ reqs'[r].pc \in {"turn", "ended"} /\ reqs'[r].st = reqs[r].st
        /\ reqs'[r].token = reqs[r].token /\ reqs'[r].kind = reqs[r].kind
    BY <1>1, <2>1 DEF Request
  <2>3. reqs[r].st \in Runtime \ Free
    BY <1>1, <2>1 DEF Sound, Captured, Flying, Free
  <2>4. Step
    BY <1>3 DEF Step
  <2>5. rt'[reqs[r].st].file = rt[reqs[r].st].file
    BY <2>3, <2>4, FileKept
  <2>6. QED
    BY <1>1, <2>1, <2>2, <2>5 DEF OnToken, Flying
<1>4. QED
  BY <1>2, <1>3 DEF TurnStep, TurnFails

LEMMA SnapStep ==
    ASSUME IInv, SnapInv, Step, ops' = ops
    PROVE  SnapInv'
<1> USE DEF IInv
<1>1. SUFFICES ASSUME NEW r \in Req, reqs'[r] # reqs[r] PROVE OnToken(r)'
  BY AttachCalmKept, UnmovedOnToken DEF SnapInv
<1>2. ASSUME NEW s \in Req, RequestStep(s) PROVE OnToken(r)'
  <2>1. s = r
    BY <1>1, <1>2 DEF RequestStep, Admit, Refuse, Read, Done, Busy, BeforePrompt, Command, HandlerEnds,
                      Prompt, FollowUp, Finish, Submit, Go, AttachById, TypeOK
  <2>2. QED
    BY <1>2, <2>1, RequestOnToken
<1>3. ASSUME NEW s \in Req, NEW k \in Kind, Send(s, k) PROVE OnToken(r)'
  <2>1. reqs'[r] = [IdleReq EXCEPT !.pc = "waiting", !.kind = k, !.token = bound]
    BY <1>1, <1>3 DEF Send, TypeOK
  <2>2. reqs'[r].pc = "waiting"
    BY <2>1 DEF IdleReq
  <2>3. QED
    BY <2>2, HarmlessOnToken DEF Flying
<1>4. CASE SwapStep
  <2>1. reqs[r] \in Request
    BY DEF TypeOK
  <2>2. CASE SwapRegisters
    <3>1. reqs'[r] = [reqs[r] EXCEPT !.pc = "handled"]
      BY <1>1, <2>2 DEF SwapRegisters, Go, TypeOK
    <3>2. reqs'[r].pc = "handled"
      BY <2>1, <3>1 DEF Request
    <3>3. QED
      BY <3>2, HarmlessOnToken DEF Flying
  <2>3. CASE SwapRestores
    <3>1. reqs'[r] \in {IdleReq, Unswitched(reqs[r])}
      BY <1>1, <2>3 DEF SwapRestores, Throws, Finish, TypeOK
    <3>2. Unswitched(reqs[r]).pc = "assert"
      BY <2>1 DEF Unswitched, Request
    <3>3. QED
      BY <3>1, <3>2, FinishedOnToken, HarmlessOnToken DEF Flying
  <2>4. QED
    BY <1>1, <1>4, <2>2, <2>3 DEF SwapStep, SwapBegins, SwapAborted, SwapDetaches, SwapFails
<1>5. ASSUME NEW s \in Req, TurnStep(s) PROVE OnToken(r)'
  <2>1. s = r
    BY <1>1, <1>5 DEF TurnStep, TurnStarts, AgentEnd, TurnFails, Settle, Reject, Go, TypeOK
  <2>2. QED
    BY <1>1, <1>5, <2>1, TurnOnToken
<1>6. QED
  BY <1>1, <1>2, <1>3, <1>4, <1>5, AttachOnToken
     DEF Step, TurnStep, SwitchSession, ReloadStarts, ReloadDisposes

\* The invariant that carries it.
THEOREM SnapInvCorrect == Spec => []SnapInv
<1>1. Init => SnapInv
  <2> SUFFICES ASSUME Init PROVE SnapInv
    OBVIOUS
  <2>1. \A r \in Req : OnToken(r)
    BY DEF Init, OnToken, IdleReq, Flying
  <2>2. AttachCalm
    BY DEF Init, AttachCalm, NotAttaching, NoSwap
  <2>3. QED
    BY <2>1, <2>2 DEF SnapInv
<1>2. Inv /\ SnapInv /\ [Next]_vars => SnapInv'
  <2> SUFFICES ASSUME Inv, SnapInv, [Next]_vars PROVE SnapInv'
    OBVIOUS
  <2>1. CASE Next
    BY <2>1, SnapStep DEF Next, Inv
  <2>2. CASE UNCHANGED vars
    BY <2>2 DEF vars, SnapInv, AttachCalm, OnToken, Calm
  <2>3. QED
    BY <2>1, <2>2
<1>3. QED
  BY <1>1, <1>2, InvCorrect, PTL DEF Spec

\* Whatever replaces the runtime meanwhile, a prompt runs on the snapshot its sender saw,
\* and a bang's record goes into the one it was sent for; so does a follow-up where no
\* configuration is reloaded and nothing fails.
THEOREM SnapshotRespectedCorrect == Spec => []SnapshotRespected
<1>1. SnapInv => SnapshotRespected
  BY DEF SnapInv, OnToken, SnapshotRespected, InFlight, Flying, Calm
<1>2. QED
  BY <1>1, SnapInvCorrect, PTL

(***************************************************************************)
(* A turn the browser is shown is one that runs.                           *)
(***************************************************************************)

\* Somebody's turn runs on a runtime that is open, and it was not closed.
Running(r) ==
    LET x == reqs[r].st IN reqs[r].pc = "turn" /\ rt[x].open /\ ~rt[x].ended

\* Between the disposal of a runtime and the registration of the next one nobody
\* tells the browser; the registration does.
TurnInv == Calm /\ shown /\ swap.at # "create" => \E r \in Req : Running(r)

\* What a step does to another runtime leaves the turn running.
LEMMA StillRunning ==
    ASSUME NEW r \in Req, Running(r), reqs'[r] = reqs[r], rt'[reqs[r].st] = rt[reqs[r].st]
    PROVE  Running(r)'
BY DEF Running

\* A turn_end goes out once, for the runtime whose turn it was.
LEMMA EndedElsewhere ==
    ASSUME IInv, NEW r \in Req, Running(r), NEW x, NEW b, EndTurn(x, b), shown'
    PROVE  x # reqs[r].st /\ rt'[reqs[r].st] = rt[reqs[r].st]
<1>1. rt[x].ended
  BY DEF EndTurn
<1>2. x # reqs[r].st
  BY <1>1 DEF Running
<1>3. QED
  BY <1>2 DEF EndTurn, Running, IInv, TypeOK, RequestsSound, Sound, Captured

LEMMA TurnClosedStep ==
    ASSUME IInv, AttachCalm, TurnInv, Step, ops' = ops
    PROVE  TurnInv'
<1> USE DEF IInv
<1> SUFFICES ASSUME Calm, shown', swap'.at # "create" PROVE \E r \in Req : Running(r)'
  BY DEF TurnInv, Calm
<1>1. "reload" \notin ops /\ "fail" \notin ops /\ reload = NoRuntime /\ swap.at # "restore"
  BY DEF Calm, AttachCalm
<1>2. \A r \in Req : reqs[r] \in Request /\ Sound(reqs[r])
  BY DEF TypeOK, RequestsSound
<1>3. \A r \in Req : Running(r) => reqs[r].st \in Runtime \ Free
  BY <1>2 DEF Running, Sound, Captured, Free
<1>4. ASSUME shown, swap.at # "create",
             \A r \in Req : Running(r) => reqs'[r] = reqs[r] /\ rt'[reqs[r].st] = rt[reqs[r].st]
      PROVE  \E r \in Req : Running(r)'
  BY <1>4, StillRunning DEF TurnInv
<1>5. CASE \E r \in Req : RequestStep(r) \/ \E k \in Kind : Send(r, k)
  <2>1. PICK r \in Req : RequestStep(r) \/ \E k \in Kind : Send(r, k)
    BY <1>5
  <2>2. UNCHANGED <<rt, shown, swap>> /\ reqs[r].pc # "turn"
    BY <2>1 DEF RequestStep, Admit, Refuse, Read, Done, Busy, BeforePrompt, Command, HandlerEnds,
                Prompt, FollowUp, StillFree, Send
  <2>3. \A w \in Req : w # r => reqs'[w] = reqs[w]
    BY <2>1 DEF RequestStep, Admit, Refuse, Read, Done, Busy, BeforePrompt, Command, HandlerEnds,
                Prompt, FollowUp, Finish, Submit, Go, AttachById, Send, TypeOK
  <2>4. QED
    BY <1>4, <2>2, <2>3 DEF Running
<1>6. CASE \E r \in Req, f \in File : SwitchSession(r, f)
  BY <1>4, <1>6 DEF SwitchSession
<1>7. CASE SwapStep
  <2>1. CASE SwapBegins \/ SwapAborted
    BY <1>4, <2>1 DEF SwapBegins, SwapAborted
  <2>2. ~SwapDetaches
    BY DEF SwapDetaches, TypeOK, Swap
  <2>3. QED
    BY <1>1, <1>7, <2>1, <2>2 DEF SwapStep, SwapRegisters, SwapFails, SwapRestores
<1>8. CASE AttachStep
  <2>1. ASSUME NEW x, Attached(x) PROVE \A r \in Req : Running(r) => reqs'[r] = reqs[r]
    BY <2>1 DEF Attached, Running
  <2>2. CASE Discovered
    BY <1>4, <2>1, <2>2 DEF Discovered
  <2>3. CASE AttachDone
    <3>1. attaching.file \in File /\ Register(attaching.file) /\ Attached(NewRuntime)
      BY <2>3 DEF AttachDone, TypeOK, Attach
    <3>2. \A x \in Runtime \ Free : rt'[x] = rt[x]
      BY <3>1, RegisterKept
    <3>3. shown /\ swap.at # "create"
      BY <2>3 DEF AttachDone
    <3>4. QED
      BY <1>3, <1>4, <2>1, <3>1, <3>2, <3>3
  <2>4. QED
    BY <1>1, <1>8, <2>2, <2>3 DEF AttachStep, AttachFails
<1>9. ASSUME NEW r \in Req, TurnStep(r) PROVE \E s \in Req : Running(s)'
  <2>1. swap' = swap /\ reqs[r] \in Request /\ Flying(reqs[r])
    BY <1>2, <1>9 DEF TurnStep, TurnStarts, AgentEnd, TurnFails, Settle, Reject, Flying, InFlight
  <2>2. reqs[r].st \in Runtime /\ rt[reqs[r].st] \in Session
    BY <1>2, <2>1 DEF Sound, Captured, Flying, TypeOK
  <2>3. \A w \in Req : w # r => reqs'[w] = reqs[w]
    BY <1>9 DEF TurnStep, TurnStarts, AgentEnd, TurnFails, Settle, Reject, Go, TypeOK
  <2>4. ASSUME NEW b, EndTurn(reqs[r].st, b), reqs[r].pc = "turn" \/ reqs'[r] = reqs[r] \/ Reject(r)
        PROVE  \E s \in Req : Running(s)'
    BY <1>4, <2>1, <2>3, <2>4, EndedElsewhere DEF EndTurn
  <2>5. CASE TurnStarts(r)
    <3>1. /\ reqs[r].pc # "turn" /\ shown' = (shown \/ rt[reqs[r].st].open)
          /\ rt' = [rt EXCEPT ![reqs[r].st] = Started(@)]
          /\ reqs'[r] = [reqs[r] EXCEPT !.pc = "turn"]
      BY <2>5 DEF TurnStarts, Go, TypeOK
    <3>2. CASE rt[reqs[r].st].open
      <4>1. reqs'[r].pc = "turn" /\ reqs'[r].st = reqs[r].st
        BY <2>1, <3>1 DEF Request
      <4>2. rt'[reqs[r].st] = Started(rt[reqs[r].st])
        BY <2>2, <3>1 DEF TypeOK
      <4>3. rt'[reqs[r].st].open /\ ~rt'[reqs[r].st].ended
        BY <2>2, <3>2, <4>2 DEF Started, Session
      <4>4. QED
        BY <4>1, <4>3 DEF Running
    <3>3. CASE ~rt[reqs[r].st].open
      <4>1. \A w \in Req : Running(w) => w # r /\ reqs[w].st # reqs[r].st
        BY <3>1, <3>3 DEF Running
      <4>2. \A w \in Req : Running(w) => rt'[reqs[w].st] = rt[reqs[w].st]
        BY <1>3, <3>1, <4>1 DEF TypeOK
      <4>3. QED
        BY <1>4, <2>1, <2>3, <3>1, <3>3, <4>1, <4>2
    <3>4. QED
      BY <3>2, <3>3
  <2>6. CASE AgentEnd(r)
    <3>1. CASE rt[reqs[r].st].open
      BY <2>4, <2>6, <3>1 DEF AgentEnd
    <3>2. CASE ~rt[reqs[r].st].open
      <4>1. \A w \in Req : Running(w) => w # r /\ reqs[w].st # reqs[r].st
        BY <3>2 DEF Running
      <4>2. shown' = shown /\ rt' = [rt EXCEPT ![reqs[r].st].streaming = FALSE]
        BY <2>6, <3>2 DEF AgentEnd
      <4>3. \A w \in Req : Running(w) => rt'[reqs[w].st] = rt[reqs[w].st]
        BY <1>3, <4>1, <4>2 DEF TypeOK
      <4>4. QED
        BY <1>4, <2>1, <2>3, <4>1, <4>2, <4>3
    <3>3. QED
      BY <3>1, <3>2
  <2>7. CASE TurnFails(r)
    BY <2>4, <2>7 DEF TurnFails
  <2>8. CASE Settle(r)
    <3>1. reqs[r].pc # "turn" /\ rt' = rt /\ shown' = shown
      BY <2>8 DEF Settle
    <3>2. QED
      BY <1>4, <2>1, <2>3, <3>1 DEF Running
  <2>9. CASE Reject(r)
    BY <2>4, <2>9 DEF Reject
  <2>10. QED
    BY <1>9, <2>5, <2>6, <2>7, <2>8, <2>9 DEF TurnStep
<1>10. QED
  BY <1>1, <1>5, <1>6, <1>7, <1>8, <1>9 DEF Step, TurnStep, ReloadStarts, ReloadDisposes

\* Whatever ends a turn, the browser is told, by its turn_end or by the registration of
\* the runtime that replaces the one it ran on.
THEOREM TurnClosedCorrect == Spec => []TurnClosed
<1>1. Init => TurnInv
  BY DEF Init, TurnInv
<1>2. Inv /\ SnapInv /\ TurnInv /\ [Next]_vars => TurnInv'
  <2> SUFFICES ASSUME Inv, SnapInv, TurnInv, [Next]_vars PROVE TurnInv'
    OBVIOUS
  <2>1. CASE Next
    BY <2>1, TurnClosedStep DEF Next, Inv, SnapInv
  <2>2. CASE UNCHANGED vars
    BY <2>2 DEF vars, TurnInv, Running, Calm
  <2>3. QED
    BY <2>1, <2>2
<1>3. TurnInv => TurnClosed
  BY DEF TurnInv, TurnClosed, Running, Calm
<1>4. QED
  BY <1>1, <1>2, <1>3, InvCorrect, SnapInvCorrect, PTL DEF Spec
(***************************************************************************)
(* A prompt is given to the runtime that is live.                          *)
(***************************************************************************)
Quiet == ops \cap {"fail", "reload", "read"} = {}

\* Who is attached, or about to be given to a runtime, has the live one; who runs the
\* handler of /sync had it, and finds another one after a replacement.
LiveAt(r) ==
    LET q == reqs[r] IN
    /\ q.pc # "idle" => q.kind # "read"
    /\ q.pc \in {"attached", "assert"} => q.st = live
    /\ q.pc = "joined" => q.next = "attached" /\ live = NoRuntime
    /\ q.kind = "prompt" /\ q.pc = "handler" /\ swap.at # "create" => q.st = live /\ q.before = live
    /\ q.kind = "prompt" /\ q.pc = "handled" => live \notin {NoRuntime, q.before}

\* Nothing is attached beside a runtime or during a replacement.
AttachApart == attaching.at # "none" => live = NoRuntime /\ swap.at = "none"

LiveInv == Quiet => AttachApart /\ \A r \in Req : LiveAt(r)

\* Two requests do not hold the operation, so nobody else has it in a handler.
LEMMA OneHolds ==
    ASSUME IInv, NEW r \in Req, NEW s \in Req, Holding(reqs[r]), Holding(reqs[s])
    PROVE  r = s
BY DEF IInv, OpHeld

LEMMA SwapHolds ==
    ASSUME IInv, swap.at # "none"
    PROVE  swap.by \in Req /\ reqs[swap.by].pc = "handler" /\ Holding(reqs[swap.by])
BY DEF IInv, SwapOwned, RequestsSound, Sound, Holding

\* A request that does not move while the live runtime does not change, and no
\* replacement is given up.
LEMMA LiveStill ==
    ASSUME NEW r \in Req, LiveAt(r), reqs'[r] = reqs[r], live' = live,
           swap'.at # "create" => swap.at # "create"
    PROVE  LiveAt(r)'
BY DEF LiveAt

\* A request that is answered, or whose prompt is with its runtime.
LEMMA LiveElsewhere ==
    ASSUME NEW r \in Req,
           reqs'[r].pc = "idle" \/ (reqs'[r].kind # "read" /\ reqs'[r].pc \in {"waiting", "running", "submitted", "turn", "ended"})
    PROVE  LiveAt(r)'
BY DEF LiveAt

LEMMA LiveRequests ==
    ASSUME IInv, LiveInv, Quiet, NEW r \in Req, RequestStep(r), ops' = ops
    PROVE  AttachApart' /\ LiveAt(r)'
<1> USE DEF IInv
<1>1. /\ reqs[r] \in Request /\ Sound(reqs[r]) /\ LiveAt(r) /\ AttachApart
      /\ live \in Runtime \cup {NoRuntime} /\ attaching \in Attach /\ reqs \in [Req -> Request]
  BY DEF TypeOK, RequestsSound, LiveInv
<1>2. UNCHANGED <<live, swap>>
  BY DEF RequestStep, Admit, Refuse, Read, Done, Busy, BeforePrompt, Command, HandlerEnds, Prompt, FollowUp
<1>3. reqs[r].pc # "idle" /\ reqs[r].kind # "read"
  BY <1>1 DEF LiveAt, RequestStep, Admit, Refuse, Read, Done, Busy, BeforePrompt, Command, HandlerEnds, Prompt, FollowUp, StillFree
<1>4. ASSUME Finish(r) PROVE LiveAt(r)'
  <2>1. reqs'[r] = IdleReq
    BY <1>1, <1>4 DEF Finish
  <2>2. QED
    BY <2>1, LiveElsewhere DEF IdleReq
<1>5. ASSUME attaching' = attaching PROVE AttachApart'
  BY <1>1, <1>2, <1>5 DEF AttachApart
<1>6. CASE Refuse(r) \/ Done(r) \/ Busy(r)
  BY <1>4, <1>5, <1>6 DEF Refuse, Done, Busy
<1>7. CASE Admit(r)
  <2>1. op = NoReq
    BY <1>7 DEF Admit, Admissible
  <2>2. swap.at = "none"
    BY <2>1, SwapHolds, ConversationAssumption DEF OpHeld
  <2>3. CASE reqs[r].kind = "bang"
    <3>1. reqs'[r] = [reqs[r] EXCEPT !.pc = "running"] /\ attaching' = attaching
      BY <1>1, <1>7, <2>3 DEF Admit, Go
    <3>2. reqs'[r].pc = "running" /\ reqs'[r].kind = "bang"
      BY <1>1, <2>3, <3>1 DEF Request
    <3>3. QED
      BY <1>5, <3>1, <3>2, LiveElsewhere
  <2>4. CASE reqs[r].kind # "bang" /\ live # NoRuntime
    <3>1. reqs'[r] = Has(reqs[r], live, "attached") /\ attaching' = attaching
      BY <1>1, <1>7, <2>4 DEF Admit, AttachById
    <3>2. reqs'[r].pc = "attached" /\ reqs'[r].st = live /\ reqs'[r].kind = reqs[r].kind
      BY <1>1, <3>1 DEF Has, Request
    <3>3. QED
      BY <1>2, <1>3, <1>5, <3>1, <3>2 DEF LiveAt
  <2>5. CASE reqs[r].kind # "bang" /\ live = NoRuntime
    <3>1. reqs'[r] = [reqs[r] EXCEPT !.pc = "joined", !.next = "attached"]
      BY <1>1, <1>7, <2>5 DEF Admit, AttachById
    <3>2. reqs'[r].pc = "joined" /\ reqs'[r].next = "attached" /\ reqs'[r].kind = reqs[r].kind
      BY <1>1, <3>1 DEF Request
    <3>3. QED
      BY <1>2, <1>3, <2>2, <2>5, <3>2 DEF LiveAt, AttachApart
  <2>6. QED
    BY <2>3, <2>4, <2>5
<1>8. CASE BeforePrompt(r)
  <2>1. reqs[r].pc = "attached" /\ reqs[r].kind = "prompt" /\ reqs[r].st = live /\ live \in Runtime
    BY <1>1, <1>8 DEF BeforePrompt, StillFree, LiveAt, Sound, Captured
  <2>2. live # NoRuntime
    BY <2>1, ConversationAssumption
  <2>3. reqs'[r] = Has([reqs[r] EXCEPT !.before = live], live, "handler") /\ attaching' = attaching
    BY <1>1, <1>8, <2>2 DEF BeforePrompt, AttachById
  <2>4. /\ reqs'[r].pc = "handler" /\ reqs'[r].kind = "prompt"
        /\ reqs'[r].st = live /\ reqs'[r].before = live
    BY <1>1, <2>1, <2>3 DEF Has, Request
  <2>5. QED
    BY <1>2, <1>5, <2>3, <2>4 DEF LiveAt
<1>9. CASE Command(r)
  <2>1. reqs'[r] = [reqs[r] EXCEPT !.pc = "handler"] /\ attaching' = attaching /\ reqs[r].kind \in {"sync", "check"}
    BY <1>1, <1>9 DEF Command, Go
  <2>2. reqs'[r].pc = "handler" /\ reqs'[r].kind = reqs[r].kind
    BY <1>1, <2>1 DEF Request
  <2>3. QED
    BY <1>5, <2>1, <2>2 DEF LiveAt
<1>10. CASE HandlerEnds(r)
  <2>1. CASE reqs[r].kind # "prompt"
    BY <1>4, <1>5, <1>10, <2>1 DEF HandlerEnds
  <2>2. CASE reqs[r].kind = "prompt"
    <3>1. reqs'[r] = [Unswitched(reqs[r]) EXCEPT !.st = Prompted(r)] /\ attaching' = attaching
      BY <1>1, <1>10, <2>2 DEF HandlerEnds
    <3>2. reqs'[r].pc = "assert" /\ reqs'[r].kind = "prompt" /\ reqs'[r].st = Prompted(r)
      BY <1>1, <2>2, <3>1 DEF Unswitched, Request
    <3>3. Prompted(r) = live
      <4>1. CASE reqs[r].pc = "handler" /\ swap.by # r
        <5>1. Holding(reqs[r])
          BY <1>3, <4>1 DEF Holding
        <5>2. swap.at = "none"
          BY <4>1, <5>1, OneHolds, SwapHolds
        <5>3. reqs[r].st = live
          BY <1>1, <2>2, <4>1, <5>2 DEF LiveAt
        <5>4. QED
          BY <5>3 DEF Prompted
      <4>2. CASE reqs[r].pc = "handled"
        BY <1>1, <2>2, <4>2 DEF LiveAt, Prompted
      <4>3. QED
        BY <1>10, <4>1, <4>2 DEF HandlerEnds
    <3>4. QED
      BY <1>2, <1>5, <3>1, <3>2, <3>3 DEF LiveAt
  <2>3. QED
    BY <2>1, <2>2
<1>11. ASSUME Submit(r) PROVE LiveAt(r)'
  <2>1. reqs'[r] = [reqs[r] EXCEPT !.pc = "submitted"]
    BY <1>1, <1>11 DEF Submit, Go
  <2>2. reqs'[r].pc = "submitted" /\ reqs'[r].kind = reqs[r].kind
    BY <1>1, <2>1 DEF Request
  <2>3. QED
    BY <1>3, <2>2, LiveElsewhere
<1>12. CASE Prompt(r) \/ FollowUp(r)
  BY <1>4, <1>5, <1>11, <1>12 DEF Prompt, FollowUp
<1>13. ~Read(r)
  BY <1>3 DEF Read
<1>14. QED
  BY <1>6, <1>7, <1>8, <1>9, <1>10, <1>12, <1>13 DEF RequestStep

\* An attach gives all who joined it the runtime that becomes live.
LEMMA LiveAttaches ==
    ASSUME IInv, LiveInv, Quiet, AttachStep, ops' = ops
    PROVE  AttachApart' /\ \A r \in Req : LiveAt(r)'
<1> USE DEF IInv
<1>1. /\ AttachApart /\ (\A r \in Req : reqs[r] \in Request /\ Sound(reqs[r]) /\ LiveAt(r))
      /\ live = NoRuntime /\ swap.at = "none" /\ swap' = swap
  BY DEF TypeOK, RequestsSound, LiveInv, AttachApart, AttachStep, Discovered, AttachDone, AttachFails
<1>2. CASE Discovered
  BY <1>1, <1>2, LiveStill DEF Discovered, AttachApart
<1>3. CASE AttachDone
  <2>1. attaching.file \in File /\ Register(attaching.file) /\ Attached(NewRuntime)
    BY <1>3 DEF AttachDone, TypeOK, Attach
  <2>2. live' = NewRuntime /\ live' \in Runtime
    BY <2>1, RegisterTypes
  <2>3. AttachApart'
    BY <2>1 DEF Attached, NotAttaching, AttachApart
  <2>4. ASSUME NEW r \in Req PROVE LiveAt(r)'
    <3>1. CASE reqs[r].pc = "joined"
      <4>1. reqs'[r] = Has(reqs[r], NewRuntime, "attached")
        BY <1>1, <2>1, <3>1 DEF Attached, LiveAt
      <4>2. reqs'[r].pc = "attached" /\ reqs'[r].st = NewRuntime /\ reqs'[r].kind = reqs[r].kind
        BY <1>1, <4>1 DEF Has, Request
      <4>3. QED
        BY <1>1, <2>2, <3>1, <4>2 DEF LiveAt
    <3>2. CASE reqs[r].pc # "joined"
      <4>1. reqs'[r] = reqs[r]
        BY <2>1, <3>2 DEF Attached
      <4>2. reqs[r].pc \notin {"attached", "assert", "handled"} \/ (reqs[r].pc = "handled" /\ reqs[r].kind # "prompt")
        BY <1>1, ConversationAssumption DEF LiveAt, Sound, Captured
      <4>3. ~(reqs[r].pc = "handler" /\ reqs[r].kind = "prompt")
        BY <1>1, ConversationAssumption DEF LiveAt, Sound, Captured
      <4>4. QED
        BY <1>1, <3>2, <4>1, <4>2, <4>3 DEF LiveAt
    <3>3. QED
      BY <3>1, <3>2
  <2>5. QED
    BY <2>3, <2>4
<1>4. ~AttachFails
  BY DEF AttachFails, Quiet
<1>5. QED
  BY <1>2, <1>3, <1>4 DEF AttachStep

\* A replacement takes the runtime from its own command, which finds the new one.
LEMMA LiveSwaps ==
    ASSUME IInv, AttachCalm, LiveInv, Quiet, SwapStep, ops' = ops
    PROVE  AttachApart' /\ \A r \in Req : LiveAt(r)'
<1> USE DEF IInv
<1>1. /\ AttachApart /\ (\A r \in Req : reqs[r] \in Request /\ Sound(reqs[r]) /\ LiveAt(r))
      /\ swap \in Swap /\ reqs \in [Req -> Request]
  BY DEF TypeOK, RequestsSound, LiveInv
<1>2. swap.at # "none" /\ swap.at # "restore"
  BY DEF AttachCalm, Quiet, Calm, SwapStep, SwapBegins, SwapAborted, SwapDetaches, SwapRegisters, SwapFails, SwapRestores
<1>3. PICK b \in Req : b = swap.by /\ reqs[b].pc = "handler" /\ Holding(reqs[b])
  BY <1>2, SwapHolds
<1>4. attaching.at = "none" /\ attaching' = attaching
  BY <1>1, <1>2 DEF AttachApart, SwapStep, SwapBegins, SwapAborted, SwapDetaches, SwapRegisters, SwapFails, SwapRestores
<1>5. ASSUME NEW r \in Req, r # b
      PROVE  reqs[r].pc \notin {"joined", "attached", "handler", "handled", "assert"}
  <2>1. reqs[r].pc # "idle" => reqs[r].kind # "read"
    BY <1>1 DEF LiveAt
  <2>2. ~Holding(reqs[r])
    BY <1>3, <1>5, OneHolds
  <2>3. QED
    BY <2>1, <2>2 DEF Holding
<1>6. ASSUME NEW r \in Req, r # b, reqs'[r] = reqs[r] PROVE LiveAt(r)'
  BY <1>1, <1>5, <1>6 DEF LiveAt
<1>7. CASE SwapBegins \/ SwapAborted
  <2>1. swap.at # "create" /\ live' = live /\ reqs' = reqs
    BY <1>7 DEF SwapBegins, SwapAborted
  <2>2. QED
    BY <1>1, <1>4, <2>1, LiveStill DEF AttachApart
<1>8. CASE SwapDetaches
  <2>1. reqs' = reqs /\ swap'.at = "create"
    BY <1>1, <1>8 DEF SwapDetaches, Swap
  <2>2. LiveAt(b)'
    BY <1>1, <1>3, <2>1 DEF LiveAt, Holding
  <2>3. QED
    BY <1>3, <1>4, <1>6, <2>1, <2>2 DEF AttachApart
<1>9. CASE SwapRegisters
  <2>1. reqs[b].pc = "handler" /\ Holding(reqs[b])
    BY <1>3
  <2>2. swap.file \in File /\ Register(swap.file) /\ reqs' = [reqs EXCEPT ![b] = [reqs[b] EXCEPT !.pc = "handled"]]
    BY <1>1, <1>3, <1>9 DEF SwapRegisters, Go, Swap
  <2>3. live' \in Runtime /\ live' = NewRuntime /\ NewRuntime \in Free
    BY <2>2, RegisterTypes, RegisterKept
  <2>4. reqs[b].before # live' /\ live' # NoRuntime
    BY <2>1, <2>3, ConversationAssumption DEF Free
  <2>5. reqs'[b].pc = "handled" /\ reqs'[b].before = reqs[b].before /\ reqs'[b].kind = reqs[b].kind
    BY <1>1, <2>1, <2>2 DEF Request
  <2>6. LiveAt(b)'
    BY <2>1, <2>4, <2>5 DEF LiveAt, Holding
  <2>7. \A r \in Req : r # b => reqs'[r] = reqs[r]
    BY <1>1, <2>2
  <2>8. QED
    BY <1>4, <1>6, <2>6, <2>7 DEF AttachApart
<1>10. ~SwapFails /\ ~SwapRestores
  BY <1>2 DEF SwapFails, SwapRestores, Quiet
<1>11. QED
  BY <1>7, <1>8, <1>9, <1>10 DEF SwapStep

LEMMA LiveStep ==
    ASSUME IInv, AttachCalm, LiveInv, Step, ops' = ops
    PROVE  LiveInv'
<1> USE DEF IInv
<1> SUFFICES ASSUME Quiet PROVE AttachApart' /\ \A r \in Req : LiveAt(r)'
  BY DEF LiveInv, Quiet
<1>1. /\ AttachApart /\ (\A r \in Req : reqs[r] \in Request /\ LiveAt(r)) /\ reqs \in [Req -> Request]
      /\ {"reload", "fail", "read"} \cap ops = {} /\ reload = NoRuntime
  BY DEF TypeOK, LiveInv, AttachCalm, Quiet, Calm
<1>2. ASSUME NEW r \in Req, RequestStep(r) PROVE AttachApart' /\ \A s \in Req : LiveAt(s)'
  <2>1. UNCHANGED <<live, swap>>
    BY <1>2 DEF RequestStep, Admit, Refuse, Read, Done, Busy, BeforePrompt, Command, HandlerEnds, Prompt, FollowUp
  <2>2. \A s \in Req : s # r => reqs'[s] = reqs[s]
    BY <1>1, <1>2 DEF RequestStep, Admit, Refuse, Read, Done, Busy, BeforePrompt, Command, HandlerEnds,
                Prompt, FollowUp, Finish, Submit, Go, AttachById
  <2>3. QED
    BY <1>1, <1>2, <2>1, <2>2, LiveRequests, LiveStill
<1>3. ASSUME NEW r \in Req, NEW k \in Kind, Send(r, k) PROVE AttachApart' /\ \A s \in Req : LiveAt(s)'
  <2>1. UNCHANGED <<live, swap, attaching>> /\ k # "read"
    BY <1>1, <1>3 DEF Send
  <2>2. reqs' = [reqs EXCEPT ![r] = [IdleReq EXCEPT !.pc = "waiting", !.kind = k, !.token = bound]]
    BY <1>3 DEF Send
  <2>3. reqs'[r].pc = "waiting" /\ reqs'[r].kind = k /\ \A s \in Req : s # r => reqs'[s] = reqs[s]
    BY <1>1, <2>2 DEF IdleReq
  <2>4. LiveAt(r)'
    BY <2>1, <2>3, LiveElsewhere
  <2>5. QED
    BY <1>1, <2>1, <2>3, <2>4, LiveStill DEF AttachApart
<1>4. ASSUME NEW r \in Req, NEW f \in File, SwitchSession(r, f) PROVE AttachApart' /\ \A s \in Req : LiveAt(s)'
  <2>1. UNCHANGED <<live, reqs, attaching>> /\ live # NoRuntime /\ swap.at = "none"
    BY <1>4 DEF SwitchSession
  <2>2. QED
    BY <1>1, <2>1, LiveStill DEF AttachApart
<1>5. ASSUME NEW r \in Req, TurnStep(r) PROVE AttachApart' /\ \A s \in Req : LiveAt(s)'
  <2>1. UNCHANGED <<live, swap, attaching>> /\ reqs[r].pc \in {"submitted", "turn", "ended"}
    BY <1>5 DEF TurnStep, TurnStarts, AgentEnd, TurnFails, Settle, Reject, InFlight
  <2>2. \A s \in Req : s # r => reqs'[s] = reqs[s]
    BY <1>1, <1>5 DEF TurnStep, TurnStarts, AgentEnd, TurnFails, Settle, Reject, Go
  <2>3. reqs'[r] = reqs[r] \/ reqs'[r] = IdleReq \/ \E pc \in {"turn", "ended"} : reqs'[r] = [reqs[r] EXCEPT !.pc = pc]
    BY <1>1, <1>5 DEF TurnStep, TurnStarts, AgentEnd, TurnFails, Settle, Reject, Go
  <2>4. reqs[r].kind # "read"
    BY <1>1, <2>1 DEF LiveAt
  <2>5. reqs'[r].pc = "idle" \/ (reqs'[r].kind # "read" /\ reqs'[r].pc \in {"submitted", "turn", "ended"})
    BY <1>1, <2>1, <2>3, <2>4 DEF IdleReq, Request
  <2>6. QED
    BY <1>1, <2>1, <2>2, <2>5, LiveElsewhere, LiveStill DEF AttachApart
<1>6. ~ReloadStarts /\ ~ReloadDisposes
  BY <1>1 DEF ReloadStarts, ReloadDisposes
<1>7. QED
  BY <1>2, <1>3, <1>4, <1>5, <1>6, LiveAttaches, LiveSwaps DEF Step, TurnStep

\* Who is given to a runtime is given to the live one.
LEMMA GivenToLive ==
    ASSUME IInv, LiveInv, Quiet, Step, NEW r \in Req, r \notin InFlight, (r \in InFlight)'
    PROVE  reqs'[r].st = live
<1> USE DEF IInv
<1>1. reqs \in [Req -> Request] /\ reqs[r] \in Request /\ LiveAt(r) /\ reqs'[r] # reqs[r]
      /\ reqs[r].pc \notin {"submitted", "turn", "ended"} /\ reqs'[r].pc \in {"submitted", "turn", "ended"}
  BY DEF TypeOK, LiveInv, InFlight
<1>2. ASSUME NEW s \in Req, RequestStep(s) PROVE reqs'[r].st = live
  <2>1. s = r
    BY <1>1, <1>2 DEF RequestStep, Admit, Refuse, Read, Done, Busy, BeforePrompt, Command, HandlerEnds,
                      Prompt, FollowUp, Finish, Submit, Go, AttachById
  <2>2. ASSUME Submit(r), reqs[r].pc \in {"assert", "attached"} PROVE reqs'[r].st = live
    <3>1. reqs'[r] = [reqs[r] EXCEPT !.pc = "submitted"]
      BY <1>1, <2>2 DEF Submit, Go
    <3>2. QED
      BY <1>1, <2>2, <3>1 DEF LiveAt, Request
  <2>3. ~Finish(r)
    BY <1>1 DEF Finish, IdleReq
  <2>4. CASE Prompt(r) \/ FollowUp(r)
    BY <2>2, <2>3, <2>4 DEF Prompt, FollowUp, StillFree
  <2>5. ASSUME NEW q \in Request, NEW next \in {"attached", "handler"}, AttachById(r, q, next) PROVE FALSE
    <3>1. Has(q, live, next).pc = next /\ [q EXCEPT !.pc = "joined", !.next = next].pc = "joined"
      BY DEF Has, Request
    <3>2. reqs'[r] = Has(q, live, next) \/ reqs'[r] = [q EXCEPT !.pc = "joined", !.next = next]
      BY <1>1, <2>5 DEF AttachById
    <3>3. QED
      BY <1>1, <3>1, <3>2
  <2>6. ~BeforePrompt(r)
    <3>1. [reqs[r] EXCEPT !.before = live] \in Request
      BY <1>1 DEF TypeOK, Request
    <3>2. QED
      BY <2>5, <3>1 DEF BeforePrompt
  <2>7. ASSUME NEW pc \in {"running", "handler"}, reqs' = Go(r, pc) PROVE FALSE
    BY <1>1, <2>7 DEF Go, Request
  <2>8. ~Admit(r) /\ ~Read(r) /\ ~Command(r)
    BY <1>1, <2>5, <2>7 DEF Admit, Read, Command
  <2>9. ~HandlerEnds(r)
    <3>1. [Unswitched(reqs[r]) EXCEPT !.st = Prompted(r)].pc = "assert"
      BY <1>1 DEF Unswitched, Request
    <3>2. QED
      BY <1>1, <2>3, <3>1 DEF HandlerEnds
  <2>10. QED
    BY <1>2, <2>1, <2>3, <2>4, <2>6, <2>8, <2>9 DEF RequestStep, Refuse, Done, Busy
<1>3. ASSUME NEW s \in Req, NEW k \in Kind, Send(s, k) PROVE FALSE
  <2>1. reqs'[r] = [IdleReq EXCEPT !.pc = "waiting", !.kind = k, !.token = bound]
    BY <1>1, <1>3 DEF Send
  <2>2. QED
    BY <1>1, <2>1 DEF IdleReq
<1>4. ASSUME SwapStep PROVE FALSE
  <2>1. Unswitched(reqs[r]).pc = "assert" /\ [reqs[r] EXCEPT !.pc = "handled"].pc = "handled" /\ IdleReq.pc = "idle"
    BY <1>1 DEF Unswitched, Request, IdleReq
  <2>2. reqs'[r] \in {Unswitched(reqs[r]), [reqs[r] EXCEPT !.pc = "handled"], IdleReq}
    BY <1>1, <1>4 DEF SwapStep, SwapBegins, SwapAborted, SwapDetaches, SwapRegisters, SwapFails, SwapRestores,
                      Throws, Finish, Go
  <2>3. QED
    BY <1>1, <2>1, <2>2
<1>5. ASSUME AttachStep PROVE FALSE
  <2>1. ASSUME NEW x, NEW next \in {"attached", "handler"} PROVE Has(reqs[r], x, next).pc = next
    BY <1>1 DEF Has, Request
  <2>2. Unswitched(reqs[r]).pc = "assert" /\ IdleReq.pc = "idle" /\ reqs[r].next \in {"attached", "handler"}
    BY <1>1 DEF Unswitched, Request, IdleReq
  <2>3. QED
    BY <1>1, <1>5, <2>1, <2>2 DEF AttachStep, Discovered, AttachDone, AttachFails, Attached
<1>6. ASSUME NEW s \in Req, TurnStep(s) PROVE FALSE
  BY <1>1, <1>6 DEF TurnStep, TurnStarts, AgentEnd, TurnFails, Settle, Reject, Go, InFlight, IdleReq
<1>7. QED
  BY <1>1, <1>2, <1>3, <1>4, <1>5, <1>6 DEF Step, TurnStep, SwitchSession, ReloadStarts, ReloadDisposes

\* Where no replacement fails, no configuration is reloaded and nobody lists the
\* commands meanwhile, every prompt is given to the runtime that is live.
THEOREM PromptOnLiveQuietlyCorrect == Spec => PromptOnLiveQuietly
<1>1. Init => LiveInv
  BY DEF Init, LiveInv, AttachApart, LiveAt, NotAttaching, IdleReq
<1>2. Inv /\ SnapInv /\ LiveInv /\ [Next]_vars => LiveInv'
  <2> SUFFICES ASSUME Inv, SnapInv, LiveInv, [Next]_vars PROVE LiveInv'
    OBVIOUS
  <2>1. CASE Next
    BY <2>1, LiveStep DEF Next, Inv, SnapInv
  <2>2. CASE UNCHANGED vars
    BY <2>2 DEF vars, LiveInv, AttachApart, LiveAt, Quiet
  <2>3. QED
    BY <2>1, <2>2
<1> DEFINE OnLive == \A r \in Req : r \notin InFlight /\ r \in InFlight' => reqs'[r].st = live
<1>3. Inv /\ LiveInv /\ [Next]_vars => [ops \cap {"fail", "reload", "read"} = {} => OnLive]_vars
  <2> SUFFICES ASSUME Inv, LiveInv, Next, Quiet, NEW r \in Req, r \notin InFlight, (r \in InFlight)'
               PROVE  reqs'[r].st = live
    BY DEF Quiet
  <2>1. QED
    BY GivenToLive DEF Next, Inv
<1>4. PromptOnLiveQuietly <=> [][ops \cap {"fail", "reload", "read"} = {} => OnLive]_vars
  BY DEF PromptOnLiveQuietly
<1> HIDE DEF OnLive
<1>5. QED
  BY <1>1, <1>2, <1>3, <1>4, InvCorrect, SnapInvCorrect, PTL DEF Spec
=============================================================================
