------------------------- MODULE EventStreamProofs -------------------------
(***************************************************************************)
(* For any deployments, any number of events, any bounds: EventStream is   *)
(* well typed, what a quiet browser does not show was lost by a broken     *)
(* stream or request, and what web had numbered before a load is shown     *)
(* once.  The last two follow from an inductive invariant, Inv.            *)
(***************************************************************************)
EXTENDS EventStream, SequenceTheorems, WellFoundedInduction, TLAPS

(***************************************************************************)
(* Numbers, frames and sequences of pairs.                                 *)

\* A bounded set of natural numbers has a greatest element.
LEMMA Greatest ==
    ASSUME NEW S \in SUBSET Nat, S # {}, NEW b \in Nat, \A s \in S : s <= b
    PROVE  \E m \in S : \A s \in S : s <= m
<1> DEFINE T == {b - s : s \in S}
<1>1. T \subseteq Nat /\ T # {}
  <2>1. ASSUME NEW t \in T PROVE t \in Nat
    <3>1. PICK s \in S : t = b - s
      OBVIOUS
    <3> QED
      BY <3>1
  <2>2. PICK s \in S : TRUE
    OBVIOUS
  <2>3. b - s \in T
    OBVIOUS
  <2> QED
    BY <2>1, <2>3
<1>2. \E x \in T : \A y \in T : ~ (<<y, x>> \in OpToRel(<, Nat))
  <2> HIDE DEF T
  <2> QED
    BY <1>1, NatLessThanWellFounded, WFMin
<1>3. PICK x \in T : \A y \in T : ~ (y < x)
  BY <1>1, <1>2 DEF OpToRel
<1>4. PICK m \in S : x = b - m
  BY <1>3
<1>5. \A s \in S : s <= m
  <2> TAKE s \in S
  <2>1. b - s \in T
    OBVIOUS
  <2>2. ~ (b - s < b - m)
    BY <2>1, <1>3, <1>4
  <2>3. s \in Nat /\ m \in Nat
    OBVIOUS
  <2> QED
    BY <2>2, <2>3
<1> QED
  BY <1>5

\* The number of the last of some frames.
LEMMA HighestIs ==
    ASSUME NEW frames \in SUBSET Frame, frames # {}, NEW b \in Nat, \A f \in frames : f.seq <= b
    PROVE  /\ Highest(frames) \in {f.seq : f \in frames}
           /\ \A g \in frames : g.seq <= Highest(frames)
<1> DEFINE S == {f.seq : f \in frames}
<1>1. S \in SUBSET Nat /\ S # {} /\ \A s \in S : s <= b
  BY DEF Frame
<1>2. PICK m \in S : \A s \in S : s <= m
  <2> HIDE DEF S
  <2> QED
    BY <1>1, Greatest
<1>3. m \in {f.seq : f \in frames} /\ \A g \in frames : g.seq <= m
  BY <1>2
<1> QED
  BY <1>3 DEF Highest

\* What web remembers is what it had, without some of the oldest.
LEMMA TrimmedIs ==
    ASSUME NEW S, NEW ps \in Seq(S), ps # <<>>, Len(ps) <= PairsCap + 1
    PROVE  /\ Trimmed(ps) \in Seq(S) /\ Trimmed(ps) # <<>> /\ Len(Trimmed(ps)) <= PairsCap
           /\ \E d \in Nat : /\ Len(ps) = Len(Trimmed(ps)) + d
                             /\ \A i \in DOMAIN Trimmed(ps) : Trimmed(ps)[i] = ps[i + d]
                             /\ Trimmed(ps) = ps => d = 0
<1>1. CASE Len(ps) <= PairsCap
  <2>1. Trimmed(ps) = ps
    BY <1>1, EventStreamAssumption DEF Trimmed
  <2> QED
    BY <2>1, <1>1
<1>2. CASE Len(ps) = PairsCap + 1
  <2> DEFINE t == SubSeq(ps, PairsDrop + 1, Len(ps))
  <2>1. PairsDrop \in 1..PairsCap /\ PairsCap \in Nat
    BY EventStreamAssumption
  <2>2. Trimmed(ps) = t
    BY <1>2, <2>1 DEF Trimmed
  <2>3. /\ t \in Seq(S)
        /\ Len(t) = Len(ps) - PairsDrop
        /\ \A i \in 1..Len(t) : t[i] = ps[i + PairsDrop]
    <3>1. \A i \in (PairsDrop + 1)..Len(ps) : ps[i] \in S
      BY <2>1
    <3>2. /\ t \in Seq(S)
          /\ Len(t) = Len(ps) - PairsDrop
          /\ \A i \in 1..(Len(ps) - (PairsDrop + 1) + 1) : t[i] = ps[PairsDrop + 1 + i - 1]
      BY <3>1, <2>1, <1>2, SubSeqProperties
    <3> QED
      BY <3>2, <2>1
  <2>5. DOMAIN t = 1..Len(t)
    BY <2>3
  <2> HIDE DEF t
  <2>4. Len(t) >= 1 /\ Len(t) <= PairsCap /\ t # <<>> /\ t # ps
    BY <2>1, <2>3, <1>2
  <2>6. /\ Len(ps) = Len(t) + PairsDrop
        /\ \A i \in DOMAIN t : t[i] = ps[i + PairsDrop]
    BY <2>1, <2>3, <2>5, <1>2
  <2> QED
    BY <2>1, <2>2, <2>3, <2>4, <2>6
<1> QED
  BY <1>1, <1>2, EventStreamAssumption

-----------------------------------------------------------------------------
(* Type correctness.                                                       *)

\* Some number is above those of all frames on their way to the browser.
Bounded == \E b \in Nat : \A f \in down \cup load.buffer : f.seq <= b

\* What the browser shows after some frames.
LEMMA AppliedIs ==
    ASSUME NEW v \in View, NEW frames \in SUBSET Frame,
           NEW b \in Nat, \A f \in frames : f.seq <= b
    PROVE  LET w == Applied(v, frames) IN
           /\ w \in View /\ w.mark = v.mark
           /\ v.seq <= w.seq /\ \A f \in frames : f.seq <= w.seq
           /\ w.seq = v.seq \/ \E f \in frames : w.seq = f.seq
           /\ \A p \in Place :
                 w.times[p] = v.times[p] + IF IsText(p) /\ \E f \in frames : f.at = p /\ f.seq > v.seq
                                           THEN 1 ELSE 0
<1> DEFINE passed == {f \in frames : f.seq > v.seq}
           w == Applied(v, frames)
<1>1. passed \in SUBSET Frame /\ \A f \in passed : f.seq <= b
  OBVIOUS
<1>2. /\ passed # {} => /\ Highest(passed) \in {f.seq : f \in passed}
                        /\ \A g \in passed : g.seq <= Highest(passed)
  <2> HIDE DEF passed
  <2> QED
    BY <1>1, HighestIs
<1>3. w = [v EXCEPT !.times = AppendOnce(v.times, Places(passed)),
                    !.seq = IF passed = {} THEN v.seq ELSE Highest(passed)]
  BY DEF Applied, AppliedAll
<1>4. AppendOnce(v.times, Places(passed)) \in [Place -> Nat]
  BY DEF AppendOnce, View
<1>6. /\ (IF passed = {} THEN v.seq ELSE Highest(passed)) \in Int
      /\ v.seq <= (IF passed = {} THEN v.seq ELSE Highest(passed))
      /\ \A f \in frames : f.seq <= (IF passed = {} THEN v.seq ELSE Highest(passed))
      /\ \/ (IF passed = {} THEN v.seq ELSE Highest(passed)) = v.seq
         \/ \E f \in frames : (IF passed = {} THEN v.seq ELSE Highest(passed)) = f.seq
  <2>1. CASE passed = {}
    <3>1. \A f \in frames : f.seq \in Nat /\ ~ (f.seq > v.seq)
      BY <2>1 DEF Frame
    <3> QED
      BY <2>1, <3>1 DEF View
  <2>2. CASE passed # {}
    <3>1. PICK g \in passed : Highest(passed) = g.seq
      BY <1>2, <2>2
    <3>2. g \in frames /\ g.seq > v.seq /\ g.seq \in Nat /\ v.seq \in Int
      BY DEF Frame, View
    <3>3. \A f \in frames : f.seq \in Nat /\ (f.seq > v.seq => f.seq <= g.seq)
      BY <1>2, <2>2, <3>1 DEF Frame
    <3>4. (IF passed = {} THEN v.seq ELSE Highest(passed)) = g.seq
      BY <2>2, <3>1
    <3>5. \A f \in frames : f.seq <= g.seq
      <4> HIDE DEF passed
      <4> QED
        BY <3>2, <3>3
    <3> HIDE DEF passed
    <3> QED
      BY <3>2, <3>4, <3>5
  <2> QED
    BY <2>1, <2>2
<1>7. \A p \in Place : AppendOnce(v.times, Places(passed))[p]
                       = v.times[p] + IF IsText(p) /\ \E f \in frames : f.at = p /\ f.seq > v.seq
                                      THEN 1 ELSE 0
  <2> TAKE p \in Place
  <2>1. p \in Places(passed) <=> \E f \in frames : f.at = p /\ f.seq > v.seq
    BY DEF Places, Place
  <2> QED
    BY <2>1 DEF AppendOnce
<1> HIDE DEF passed
<1> QED
  BY <1>3, <1>4, <1>6, <1>7 DEF View

\* A request that starts, one that is queued behind it, the end of one.
LEMMA AskedIs ==
    ASSUME TypeOK
    PROVE  /\ Asked \in Loading
           /\ Asked.at = "asked" /\ Asked.buffer = {} /\ ~Asked.old /\ Asked.mark = sent
<1>1. sent \in 0..MaxLog /\ 0 \in 0..MaxLog
  BY EventStreamAssumption DEF TypeOK
<1>2. Idle \in Loading
  BY <1>1 DEF Loading, Idle
<1>3. Asked \in Loading /\ Asked.mark = sent /\ Asked.at = "asked"
  BY <1>1, <1>2 DEF Asked, Loading
<1> QED
  BY <1>3 DEF Asked, Idle

\* A load that is asked for starts at once or after the one that runs.
LEMMA OpenIs ==
    ASSUME TypeOK
    PROVE  LET open == OpenTranscript IN
           /\ open \in Loading
           /\ load.at = "none" => open = Asked
           /\ load.at # "none" => /\ open.at = load.at /\ open.buffer = load.buffer
                                 /\ open.old = load.old /\ open.mark = load.mark
                                 /\ open.seq = load.seq /\ open.upto = load.upto
BY AskedIs DEF TypeOK, Loading, OpenTranscript

\* After a load the browser waits for nothing, or for the load queued behind it.
LEMMA FinishedIs ==
    ASSUME TypeOK
    PROVE  /\ Finished \in Loading
           /\ Finished.at \in {"none", "asked"} /\ Finished.buffer = {}
           /\ ~Finished.old /\ Finished.mark \in {0, sent}
BY AskedIs, EventStreamAssumption DEF TypeOK, Loading, Finished, Idle

\* Frames come with the next number of web's hub, or were there.
LEMMA BoundedStep == TypeOK /\ Bounded /\ [Next]_vars => Bounded'
<1> SUFFICES ASSUME TypeOK, Bounded, [Next]_vars
             PROVE  Bounded'
  OBVIOUS
<1> USE DEF hub, streams, browser
<1>1. \A f \in down' \cup load'.buffer : f \in down \cup load.buffer \/ f.seq = webSeq + 1
  <2>1. CASE TurnStart
    BY <2>1 DEF TypeOK, Loading, TurnStart, Emit, Publish, PublishAtHost
  <2>2. CASE TextDelta
    BY <2>2 DEF TypeOK, Loading, TextDelta, Emit, Publish, PublishAtHost
  <2>3. CASE TurnEnd
    BY <2>3 DEF TypeOK, Loading, TurnEnd, Emit, Publish, PublishAtHost
  <2>4. CASE Other
    BY <2>4 DEF TypeOK, Loading, Other, Publish, PublishAtHost
  <2>5. CASE Forward
    BY <2>5 DEF TypeOK, Loading, Forward, Publish
  <2>6. CASE Deliver
    <3>1. PICK f \in down : /\ down' = down \ {f}
                            /\ \/ load' = [load EXCEPT !.buffer = @ \cup {f}]
                               \/ load' = OpenTranscript
                               \/ load' = load
      BY <2>6 DEF Deliver
    <3>2. load'.buffer \subseteq load.buffer \cup {f}
      BY <3>1, OpenIs, AskedIs DEF TypeOK, Loading
    <3> QED
      BY <3>1, <3>2
  <2>7. CASE Capture
    BY <2>7 DEF TypeOK, Loading, Capture
  <2>8. CASE Read
    BY <2>8 DEF TypeOK, Loading, Read
  <2>9. CASE Respond
    BY <2>9 DEF TypeOK, Loading, Respond
  <2>10. CASE ForwardAnswer
    BY <2>10 DEF TypeOK, Loading, ForwardAnswer
  <2>11. CASE Load
    BY <2>11 DEF TypeOK, Loading, Load, Finished, Asked, Idle
  <2>12. CASE Retry
    BY <2>12 DEF TypeOK, Loading, Retry
  <2>13. CASE GiveUp
    BY <2>13 DEF TypeOK, Loading, GiveUp, LoadFails, Finished, Asked, Idle
  <2>14. CASE StreamOpens
    BY <2>14 DEF TypeOK, Loading, StreamOpens
  <2>15. CASE UpstreamOpens
    BY <2>15 DEF TypeOK, Loading, UpstreamOpens
  <2>16. CASE Select
    BY <2>16 DEF TypeOK, Loading, Select, OpenTranscript, Asked, Idle
  <2>17. CASE Resume
    BY <2>17 DEF TypeOK, Loading, Resume
  <2>18. CASE RequestBreaks
    BY <2>18 DEF TypeOK, Loading, RequestBreaks
  <2>19. CASE Refused
    BY <2>19 DEF TypeOK, Loading, Refused, LoadFails, Finished, Asked, Idle
  <2>20. CASE StreamBreaks
    BY <2>20 DEF TypeOK, Loading, StreamBreaks, OpenTranscript, Asked, Idle
  <2>21. CASE UpstreamBreaks
    BY <2>21 DEF TypeOK, Loading, UpstreamBreaks
  <2>22. CASE WebRestarts
    BY <2>22 DEF TypeOK, Loading, WebRestarts, Asked, Idle
  <2>23. CASE UNCHANGED vars
    BY <2>23 DEF vars
  <2> QED
    BY <2>1, <2>2, <2>3, <2>4, <2>5, <2>6, <2>7, <2>8, <2>9, <2>10, <2>11, <2>12, <2>13, <2>14, <2>15, <2>16, <2>17, <2>18, <2>19, <2>20, <2>21, <2>22, <2>23 DEF Next, Conversation, Route, Loads, Opens, Breaks
<1>2. PICK b \in Nat : \A f \in down \cup load.buffer : f.seq <= b
  BY DEF Bounded
<1>3. PICK c \in Nat : c >= b /\ c >= webSeq + 1
  <2>1. b + webSeq + 1 \in Nat /\ b + webSeq + 1 >= b /\ b + webSeq + 1 >= webSeq + 1
    BY DEF TypeOK
  <2> QED
    BY <2>1
<1>4. \A f \in down' \cup load'.buffer : f.seq <= c
  <2>1. \A f \in down \cup load.buffer : f.seq \in Nat
    BY DEF TypeOK, Loading, Frame
  <2> QED
    BY <1>1, <1>2, <1>3, <2>1 DEF TypeOK
<1> QED
  BY <1>4 DEF Bounded

\* The log and what web has emitted of it are bounded.
LEMMA Lengths == TypeOK => /\ sent \in Nat /\ sent <= MaxLog /\ Len(log) \in Nat /\ Len(log) <= MaxLog
                           /\ MaxLog \in Nat
BY EventStreamAssumption DEF TypeOK

\* Frames carry events of the conversation or none.
LEMMA PlacesIs == ASSUME NEW frames \in SUBSET Frame PROVE Places(frames) \subseteq Place
BY DEF Places, Frame, Place

\* What a snapshot on its way does not hold are events of the conversation.
LEMMA UnreadIs == TypeOK => Unread \subseteq Place
<1> SUFFICES ASSUME TypeOK, load.at \in {"read", "answered"} PROVE (load.upto + 1)..sent \subseteq Place
  BY DEF Unread
<1> QED
  BY Lengths DEF TypeOK, Loading, Place

\* The number web gives a worker's snapshot is an integer: the pair it chooses exists.
LEMMA WebSeqIs ==
    ASSUME TypeOK, NEW h \in Int
    PROVE  WebSeq(h) \in Int
<1> DEFINE older == {i \in DOMAIN pairs : pairs[i].host <= h}
           k == CHOOSE i \in older : \A j \in older : j <= i
<1>5. pairs \in Seq([host : Nat, web : Nat])
  BY DEF TypeOK
<1>1. \A i \in DOMAIN pairs : pairs[i] \in [host : Nat, web : Nat] /\ i \in 1..Len(pairs)
  BY <1>5, ElementOfSeq, LenProperties
<1>2. older # {} => \E i \in older : \A j \in older : j <= i
  <2>1. older \in SUBSET Nat /\ Len(pairs) \in Nat /\ \A i \in older : i <= Len(pairs)
    BY <1>1 DEF TypeOK
  <2> HIDE DEF older
  <2> QED
    BY <2>1, Greatest
<1>3. older # {} => k \in DOMAIN pairs
  BY <1>2
<1>4. pairs # <<>> => 1 \in DOMAIN pairs
  BY DEF TypeOK
<1>6. \/ WebSeq(h) = webSeq
      \/ pairs # <<>> /\ WebSeq(h) = pairs[1].web - 1
      \/ older # {} /\ WebSeq(h) = pairs[k].web
  BY DEF WebSeq
<1> HIDE DEF k, older
<1>7. pairs # <<>> => pairs[1].web \in Nat
  BY <1>1, <1>4
<1>8. older # {} => pairs[k].web \in Nat
  BY <1>1, <1>3
<1>9. CASE WebSeq(h) = webSeq
  BY <1>9 DEF TypeOK
<1>10. CASE pairs # <<>> /\ WebSeq(h) = pairs[1].web - 1
  <2>1. \A x \in Nat : x - 1 \in Int
    OBVIOUS
  <2> QED
    BY <1>7, <1>10, <2>1, Zenon
<1>11. CASE older # {} /\ WebSeq(h) = pairs[k].web
  BY <1>8, <1>11
<1> QED
  BY <1>6, <1>9, <1>10, <1>11

\* Every step keeps the types.
LEMMA TypeStep == TypeOK /\ Bounded /\ [Next]_vars => TypeOK'
<1> SUFFICES ASSUME TypeOK, Bounded, [Next]_vars
             PROVE  TypeOK'
  OBVIOUS
<1> USE DEF hub, streams, browser
<1>1. ASSUME NEW event \in Event, Emit(event)
      PROVE  TypeOK'
  <2> DEFINE n == Len(log) + 1
  <2>1. n \in 1..MaxLog /\ n > 0 /\ n \in 0..MaxLog
    BY <1>1, Lengths DEF Emit
  <2>2. log' \in Seq(Event) /\ Len(log') = n
    BY <1>1, AppendProperties DEF Emit, TypeOK
  <2>3. [seq |-> hostSeq + 1, at |-> n] \in Frame /\ [seq |-> webSeq + 1, at |-> n] \in Frame
    BY <2>1 DEF Frame, TypeOK
  <2>4. lost' \subseteq lost \cup {n} /\ n \in Place
    BY <1>1, <2>1 DEF Emit, Place
  <2>5. /\ \/ PublishAtHost(n) /\ UNCHANGED <<webSeq, down, sent>>
           \/ Publish(n) /\ UNCHANGED <<hostSeq, up>>
        /\ UNCHANGED <<deployment, upstream, pairs, stream, browser, incidents>>
    BY <1>1 DEF Emit
  <2> HIDE DEF n
  <2>6. CASE PublishAtHost(n) /\ UNCHANGED <<webSeq, down, sent>>
    BY <2>1, <2>2, <2>3, <2>4, <2>5, <2>6 DEF TypeOK, PublishAtHost
  <2>7. CASE Publish(n) /\ UNCHANGED <<hostSeq, up>>
    BY <2>1, <2>2, <2>3, <2>4, <2>5, <2>7 DEF TypeOK, Publish
  <2> QED
    BY <2>5, <2>6, <2>7
<1>2. CASE Other
  <2>1. 0 \in 0..MaxLog /\ [seq |-> hostSeq + 1, at |-> 0] \in Frame /\ incidents' \in Nat
    BY <1>2, Lengths DEF TypeOK, Other, Incident, Frame
  <2>2. /\ \/ PublishAtHost(0) /\ UNCHANGED <<webSeq, down, sent>>
           \/ Publish(0) /\ UNCHANGED <<hostSeq, up>>
        /\ UNCHANGED <<deployment, log, upstream, pairs, stream, browser, lost>>
    BY <1>2 DEF Other
  <2>3. CASE PublishAtHost(0) /\ UNCHANGED <<webSeq, down, sent>>
    BY <2>1, <2>2, <2>3 DEF TypeOK, PublishAtHost
  <2>4. CASE Publish(0) /\ UNCHANGED <<hostSeq, up>>
    BY <2>2, <2>1, <2>4 DEF TypeOK, Publish
  <2> QED
    BY <2>2, <2>3, <2>4
<1>3. CASE Forward
  <2>1. PICK f \in up :
          /\ up' = up \ {f}
          /\ Publish(f.at)
          /\ pairs' = Trimmed(Append(pairs, [host |-> f.seq, web |-> webSeq + 1]))
          /\ lost' \subseteq lost \cup ({f.at} \ {0}) \cup Unread
          /\ UNCHANGED <<deployment, log, hostSeq, upstream, stream, view, load, stale, incidents>>
    BY <1>3 DEF Forward
  <2>2. f \in Frame /\ f.at \in 0..MaxLog /\ f.seq \in Nat
    BY DEF TypeOK, Frame
  <2>3. [host |-> f.seq, web |-> webSeq + 1] \in [host : Nat, web : Nat]
    BY <2>2 DEF TypeOK
  <2>4. /\ Append(pairs, [host |-> f.seq, web |-> webSeq + 1]) \in Seq([host : Nat, web : Nat])
        /\ Append(pairs, [host |-> f.seq, web |-> webSeq + 1]) # <<>>
        /\ Len(Append(pairs, [host |-> f.seq, web |-> webSeq + 1])) <= PairsCap + 1
    BY <2>3, AppendProperties, EventStreamAssumption DEF TypeOK
  <2>5. pairs' \in Seq([host : Nat, web : Nat]) /\ Len(pairs') <= PairsCap
    BY <2>1, <2>4, TrimmedIs
  <2>6. lost' \subseteq Place
    BY <2>1, <2>2, UnreadIs DEF TypeOK, Place
  <2>7. down' \subseteq Frame /\ sent' \in 0..MaxLog /\ webSeq' \in Nat
    BY <2>1, <2>2 DEF Publish, TypeOK, Frame
  <2> QED
    BY <2>1, <2>5, <2>6, <2>7 DEF TypeOK
<1>4. CASE Deliver
  <2>1. PICK f \in down :
          /\ down' = down \ {f}
          /\ \/ load' = [load EXCEPT !.buffer = @ \cup {f}] /\ view' = view
             \/ view' = Applied(view, {f}) /\ load' \in {load, OpenTranscript}
          /\ UNCHANGED <<deployment, log, hostSeq, webSeq, pairs, sent, upstream, up, stream, incidents, lost, stale>>
    BY <1>4 DEF Deliver
  <2>2. f \in Frame /\ f.seq \in Nat
    BY DEF TypeOK, Frame
  <2>3. Applied(view, {f}) \in View
    BY <2>2, AppliedIs DEF TypeOK
  <2>4. [load EXCEPT !.buffer = @ \cup {f}] \in Loading
    BY <2>2 DEF TypeOK, Loading
  <2> QED
    BY <2>1, <2>3, <2>4, OpenIs DEF TypeOK
<1>5. CASE Capture
  <2>1. load' \in Loading
    <3>1. (IF remote THEN hostSeq ELSE webSeq) \in Int
      BY DEF TypeOK
    <3> QED
      BY <1>5, <3>1 DEF TypeOK, Loading, Capture
  <2> QED
    BY <1>5, <2>1 DEF TypeOK, Capture
<1>6. CASE Read
  <2>1. load' \in Loading
    <3>1. Len(log) \in 0..MaxLog
      BY Lengths
    <3> QED
      BY <1>6, <3>1 DEF TypeOK, Loading, Read
  <2> QED
    BY <1>6, <2>1 DEF TypeOK, Read
<1>7. CASE Respond
  <2>1. load' \in Loading
    BY <1>7, Lengths DEF TypeOK, Loading, Respond, InTurn
  <2> QED
    BY <1>7, <2>1 DEF TypeOK, Respond
<1>8. CASE ForwardAnswer
  <2>1. load' \in Loading
    BY <1>8, WebSeqIs DEF TypeOK, Loading, ForwardAnswer
  <2> QED
    BY <1>8, <2>1 DEF TypeOK, ForwardAnswer
<1>9. CASE Load
  <2> DEFINE v == [times |-> Snapshot(load.upto), seq |-> load.seq, mark |-> load.mark]
  <2>1. v \in View /\ load.buffer \in SUBSET Frame /\ load.old \in BOOLEAN
    BY DEF TypeOK, Loading, View, Snapshot
  <2>2. PICK b \in Nat : \A f \in load.buffer : f.seq <= b
    BY DEF Bounded
  <2>3. Applied(v, load.buffer) \in View
    <3> HIDE DEF v
    <3> QED
      BY <2>1, <2>2, AppliedIs
  <2> QED
    BY <1>9, <2>1, <2>3, FinishedIs DEF TypeOK, Load
<1>10. CASE Retry
  <2>1. load' \in Loading
    <3>1. load \in Loading /\ load.tries \in Nat /\ load.tries + 1 \in Nat
      BY DEF TypeOK, Loading
    <3> QED
      BY <1>10, <3>1 DEF Loading, Retry
  <2> QED
    BY <1>10, <2>1 DEF TypeOK, Retry
<1>11. CASE GiveUp
  <2>1. Places(load.buffer) \subseteq Place
    BY PlacesIs DEF TypeOK, Loading
  <2> QED
    BY <1>11, <2>1, FinishedIs DEF TypeOK, GiveUp, LoadFails
<1>12. CASE StreamOpens
  BY <1>12 DEF TypeOK, StreamOpens
<1>13. CASE UpstreamOpens
  BY <1>13, UnreadIs, EventStreamAssumption DEF TypeOK, UpstreamOpens
<1>14. CASE Select
  BY <1>14, OpenIs DEF TypeOK, Select, Incident
<1>15. CASE Resume
  <2>1. Places(up) \subseteq Place /\ Places(down) \subseteq Place
    BY PlacesIs DEF TypeOK
  <2>2. lost' \subseteq Place
    BY <1>15, <2>1 DEF Resume, TypeOK
  <2>3. incidents' \in Nat
    BY <1>15 DEF Resume, Incident, TypeOK
  <2> QED
    BY <1>15, <2>2, <2>3 DEF TypeOK, Resume, Incident
<1>16. CASE RequestBreaks
  <2>1. load' \in Loading
    BY <1>16, EventStreamAssumption DEF TypeOK, Loading, RequestBreaks
  <2> QED
    BY <1>16, <2>1 DEF TypeOK, RequestBreaks, Incident
<1>17. CASE Refused
  <2>1. Places(load.buffer) \subseteq Place
    BY PlacesIs DEF TypeOK, Loading
  <2> QED
    BY <1>17, <2>1, FinishedIs DEF TypeOK, Refused, LoadFails, Incident
<1>18. CASE StreamBreaks
  <2>1. Places(up) \subseteq Place /\ Places(down) \subseteq Place
    BY PlacesIs DEF TypeOK
  <2>2. lost' \subseteq Place
    BY <1>18, <2>1 DEF StreamBreaks, TypeOK
  <2>3. incidents' \in Nat
    BY <1>18 DEF StreamBreaks, Incident, TypeOK
  <2> QED
    BY <1>18, <2>2, <2>3, OpenIs DEF TypeOK, StreamBreaks, Incident
<1>19. CASE UpstreamBreaks
  <2>1. Places(up) \subseteq Place /\ Places(down) \subseteq Place
    BY PlacesIs DEF TypeOK
  <2>2. lost' \subseteq Place
    BY <1>19, <2>1 DEF UpstreamBreaks, TypeOK
  <2>3. incidents' \in Nat
    BY <1>19 DEF UpstreamBreaks, Incident, TypeOK
  <2> QED
    BY <1>19, <2>2, <2>3 DEF TypeOK, UpstreamBreaks, Incident
<1>20. CASE WebRestarts
  <2>1. load' \in Loading
    BY <1>20, AskedIs DEF TypeOK, Loading, WebRestarts
  <2>2. Places(up) \subseteq Place /\ Places(down) \subseteq Place
    BY PlacesIs DEF TypeOK
  <2>3. lost' \subseteq Place
    BY <1>20, <2>2 DEF WebRestarts, TypeOK
  <2>4. pairs' \in Seq([host : Nat, web : Nat]) /\ Len(pairs') <= PairsCap
    <3>1. pairs' = <<>> /\ 0 <= PairsCap
      BY <1>20, EventStreamAssumption DEF WebRestarts
    <3> QED
      BY <3>1
  <2>5. /\ webSeq' \in Nat /\ incidents' \in Nat
        /\ upstream' \in BOOLEAN /\ stream' \in BOOLEAN /\ stale' \in BOOLEAN
        /\ up' \subseteq Frame /\ down' \subseteq Frame
    <3>1. /\ webSeq' = 0 /\ incidents' = incidents + 1
          /\ upstream' = FALSE /\ up' = {} /\ stream' = FALSE /\ down' = {} /\ stale' = TRUE
      BY <1>20 DEF WebRestarts, Incident
    <3>2. incidents \in Nat
      BY DEF TypeOK
    <3>3. webSeq' \in Nat /\ incidents' \in Nat
      BY <3>1, <3>2
    <3>4. upstream' \in BOOLEAN /\ stream' \in BOOLEAN /\ stale' \in BOOLEAN
      BY <3>1, Zenon
    <3>5. up' \subseteq Frame /\ down' \subseteq Frame
      BY <3>1, Zenon
    <3> QED
      BY <3>3, <3>4, <3>5
  <2>6. UNCHANGED <<deployment, log, hostSeq, sent, view>>
    BY <1>20 DEF WebRestarts
  <2> QED
    BY <2>1, <2>3, <2>4, <2>5, <2>6 DEF TypeOK
<1>21. CASE UNCHANGED vars
  BY <1>21 DEF TypeOK, vars
<1> QED
  BY <1>1, <1>2, <1>3, <1>4, <1>5, <1>6, <1>7, <1>8, <1>9, <1>10, <1>11, <1>12, <1>13, <1>14, <1>15, <1>16, <1>17, <1>18, <1>19, <1>20, <1>21
     DEF Next, Conversation, TurnStart, TextDelta, TurnEnd, Event, Route, Loads, Opens, Breaks

\* At the start nothing is on its way.
LEMMA InitIs == Init => TypeOK /\ Bounded
<1> SUFFICES ASSUME Init
             PROVE  TypeOK /\ Bounded
  OBVIOUS
<1>1. TypeOK
  <2>1. 0 \in Nat /\ 0 \in 0..MaxLog /\ -1 \in Int /\ 0 <= MaxLog /\ 0 <= PairsCap
    BY EventStreamAssumption
  <2>2. view \in View
    BY <2>1 DEF Init, View
  <2>3. load \in Loading
    BY <2>1 DEF Init, Loading, Asked, Idle
  <2>4. /\ log \in Seq(Event) /\ Len(log) <= MaxLog
        /\ pairs \in Seq([host : Nat, web : Nat]) /\ Len(pairs) <= PairsCap
    BY <2>1 DEF Init
  <2>5. /\ hostSeq \in Nat /\ webSeq \in Nat /\ incidents \in Nat /\ sent \in 0..MaxLog
        /\ deployment \in Deployments
    BY <2>1 DEF Init
  <2>6. /\ upstream \in BOOLEAN /\ stream \in BOOLEAN /\ stale \in BOOLEAN
        /\ up \subseteq Frame /\ down \subseteq Frame /\ lost \subseteq Place
    BY DEF Init
  <2> QED
    BY <2>2, <2>3, <2>4, <2>5, <2>6 DEF TypeOK
<1>2. Bounded
  <2>1. down \cup load.buffer = {}
    BY DEF Init, Asked, Idle
  <2> QED
    BY <2>1 DEF Bounded
<1> QED
  BY <1>1, <1>2

\* Every variable keeps its type, whatever is delivered, loaded or broken: in
\* particular the browser's number and the pairs web remembers.
THEOREM TypeCorrect == Spec => []TypeOK
<1>1. Init => TypeOK /\ Bounded
  BY InitIs
<1>2. TypeOK /\ Bounded /\ [Next]_vars => (TypeOK /\ Bounded)'
  BY TypeStep, BoundedStep
<1> QED
  BY <1>1, <1>2, PTL DEF Spec

-----------------------------------------------------------------------------
(* The inductive invariant.                                                *)

\* Frames the browser has not applied; those of an earlier web do not count.
Coming == IF load.old THEN down ELSE down \cup load.buffer

\* Frames are numbered by web's hub, in order; an idle browser has no buffer.
Frames ==
    /\ \A f \in down \cup load.buffer : f.at \in 1..sent
    /\ \A f \in Coming : f.seq <= webSeq
    /\ \A f, g \in down : f.seq = g.seq => f = g
    /\ ~load.old => \A f \in load.buffer, g \in down : f.seq < g.seq
    /\ load.at = "none" => load.buffer = {} /\ ~load.old
    /\ load.old => stale
    /\ ~stale => view.seq <= webSeq
    /\ load.mark <= sent /\ view.mark <= sent /\ sent <= Len(log)

\* A worker's frames are numbered in the order of the log, behind what web has emitted.
Upstream ==
    /\ ~upstream => up = {}
    /\ ~remote => ~upstream /\ load.at # "answered" /\ pairs = <<>>
    /\ \A f \in up : f.seq <= hostSeq /\ f.at <= Len(log) /\ (f.at > 0 => f.at > sent)
    /\ \A f, g \in up : f.seq = g.seq => f = g
    /\ \A f, g \in up : f.seq < g.seq /\ g.at > 0 => f.at < g.at

\* web's numbers grow with the worker's; a frame is numbered by a pair that
\* is remembered, or before all of them.
Pairs ==
    /\ \A i \in DOMAIN pairs : /\ pairs[i].host <= hostSeq /\ pairs[i].web <= webSeq
                               /\ \A f \in up : pairs[i].host < f.seq
    /\ \A i, j \in DOMAIN pairs : i < j => /\ pairs[i].host < pairs[j].host
                                           /\ pairs[i].web < pairs[j].web
    /\ pairs # <<>> => \A f \in Coming : \/ f.seq < pairs[1].web
                                         \/ \E i \in DOMAIN pairs : pairs[i].web = f.seq

\* A snapshot's number was given before; it holds what web had emitted when it was asked for.
Taken ==
    /\ load.at \in {"captured", "read", "answered"} =>
          /\ remote => load.seq <= hostSeq
          /\ ~remote => load.seq <= webSeq
    /\ load.at = "sent" => load.seq <= webSeq
    /\ load.at \in {"read", "answered", "sent"} => load.mark <= load.upto /\ load.upto <= Len(log)

\* An event on its way to a browser that applies what is numbered after s.
OnItsWay(n, s) == n \in lost \/ n \in Places(up) \/ \E f \in Coming : f.at = n /\ f.seq > s

\* The same while the number s is the worker's.
OnItsWayAtHost(n, s) ==
    \/ n \in lost
    \/ \E f \in up : f.at = n /\ f.seq > s
    \/ \E f \in Coming : f.at = n /\ \E i \in DOMAIN pairs : pairs[i].web = f.seq /\ pairs[i].host > s

\* Whose number the snapshot on its way has.
AtHost == remote /\ load.at \in {"read", "answered"}
AtWeb == load.at = "sent" \/ (~remote /\ load.at = "read")

\* What the browser does not show, or what a snapshot does not hold, is on its way.
Reached == ~stale => \A n \in Place : IsText(n) => view.times[n] > 0 \/ OnItsWay(n, view.seq)
WebReaches ==
    AtWeb /\ ~load.old =>
        \A n \in Place : IsText(n) => n <= load.upto \/ OnItsWay(n, load.seq)
HostReaches ==
    AtHost /\ ~load.old =>
        \A n \in Place : IsText(n) => n <= load.upto \/ OnItsWayAtHost(n, load.seq)
Reaches == Reached /\ WebReaches /\ HostReaches

\* Frames numbered before a load began are not replayed over its snapshot.
Marked == ~stale => \A f \in Coming : f.at <= view.mark => f.seq <= view.seq
WebMarked ==
    ~load.old /\ (load.at = "sent" \/ (~remote /\ load.at \in {"captured", "read"})) =>
        \A f \in Coming : f.at <= load.mark => f.seq <= load.seq
HostMarked ==
    ~load.old /\ remote /\ load.at \in {"captured", "read", "answered"} =>
        \A f \in Coming : f.at <= load.mark =>
            \A i \in DOMAIN pairs : pairs[i].host > load.seq => f.seq < pairs[i].web
Once == Marked /\ WebMarked /\ HostMarked

Reading == Frames /\ Upstream /\ Pairs /\ Taken /\ Reaches /\ Once /\ LoadedOnce
Inv == TypeOK /\ Bounded /\ Reading

\* What the proofs below need of the types.
LEMMA Kinds ==
    ASSUME TypeOK
    PROVE  /\ webSeq \in Nat /\ hostSeq \in Nat /\ sent \in Nat /\ Len(log) \in Nat
           /\ view.seq \in Int /\ view.mark \in Nat
           /\ load.seq \in Int /\ load.upto \in Nat /\ load.mark \in Nat
           /\ \A f \in up \cup down \cup load.buffer : f.seq \in Nat /\ f.at \in Nat
<1>1. up \cup down \cup load.buffer \subseteq Frame
  BY DEF TypeOK, Loading
<1>2. sent \in Nat /\ Len(log) \in Nat
  BY Lengths
<1>3. view.seq \in Int /\ view.mark \in Nat
  BY EventStreamAssumption DEF TypeOK, View
<1>4. load.seq \in Int /\ load.upto \in Nat /\ load.mark \in Nat
  BY EventStreamAssumption DEF TypeOK, Loading
<1>5. \A f \in Frame : f.seq \in Nat /\ f.at \in Nat
  BY EventStreamAssumption DEF Frame
<1> QED
  BY <1>1, <1>2, <1>3, <1>4, <1>5 DEF TypeOK

\* The same of the remembered pairs.
LEMMA PairKinds ==
    ASSUME TypeOK
    PROVE  /\ DOMAIN pairs = 1..Len(pairs) /\ Len(pairs) \in Nat
           /\ \A i \in DOMAIN pairs : pairs[i].host \in Nat /\ pairs[i].web \in Nat
           /\ pairs # <<>> => 1 \in DOMAIN pairs /\ Len(pairs) \in DOMAIN pairs
<1>1. pairs \in Seq([host : Nat, web : Nat])
  BY DEF TypeOK
<1>2. \A i \in DOMAIN pairs : pairs[i] \in [host : Nat, web : Nat]
  BY <1>1, ElementOfSeq, LenProperties
<1> QED
  BY <1>1, <1>2

\* The log only grows, by one event.
LEMMA TextIs ==
    ASSUME TypeOK, NEW event, log' = Append(log, event)
    PROVE  /\ Len(log') = Len(log) + 1
           /\ \A n : IsText(n)' => IsText(n) \/ n = Len(log) + 1
           /\ \A n : IsText(n) => n \in Nat /\ n <= Len(log)
<1>1. /\ log \in Seq(Event)
      /\ \A n \in 1..Len(log) : log'[n] = log[n]
      /\ Len(log') = Len(log) + 1 /\ DOMAIN log' = 1..(Len(log) + 1) /\ DOMAIN log = 1..Len(log)
      /\ Len(log) \in Nat
  BY DEF TypeOK
<1> QED
  BY <1>1 DEF IsText

\* An event of the conversation: numbered after all that is on its way, and
\* later than what web had numbered when a load began.
LEMMA EmitStep ==
    ASSUME Inv, NEW event \in Event, Emit(event)
    PROVE  Reading'
<1>1. TypeOK /\ Frames /\ Upstream /\ Pairs /\ Taken /\ Reaches /\ Once /\ LoadedOnce
  BY DEF Inv, Reading
<1>0. PICK n \in Nat : n = Len(log) + 1
  BY <1>1, Kinds
<1>2. /\ n \in Nat /\ n > sent /\ n > 0 /\ n \in Place
      /\ Len(log') = n /\ n = Len(log) + 1
      /\ \A m : IsText(m)' => IsText(m) \/ m = n
      /\ \A m : IsText(m) => m \in Nat /\ m < n
  <2>1. log' = Append(log, event) /\ n <= MaxLog
    BY <1>0 DEF Emit
  <2> QED
    BY <1>0, <1>1, <2>1, TextIs, Kinds, Lengths DEF Frames, Place
<1>3. UNCHANGED <<deployment, upstream, pairs, stream, view, load, stale>>
  BY DEF Emit, browser
<1>4. CASE remote
  <2>1. /\ hostSeq' = hostSeq + 1
        /\ up' = IF upstream THEN up \cup {[seq |-> hostSeq + 1, at |-> n]} ELSE up
        /\ UNCHANGED <<webSeq, down, sent>>
        /\ lost' = IF upstream THEN lost ELSE lost \cup {n}
    BY <1>0, <1>4 DEF Emit, PublishAtHost, Heard
  <2>2. Frames'
    BY <1>1, <1>2, <1>3, <2>1, Kinds DEF Frames, Coming
  <2> DEFINE e == [seq |-> hostSeq + 1, at |-> n]
  <2>9. up' \subseteq up \cup {e} /\ (~upstream => up' = up) /\ e.seq = hostSeq + 1 /\ e.at = n
    BY <2>1
  <2> HIDE DEF e
  <2>10. hostSeq \in Nat /\ \A f \in up : f.seq \in Nat /\ f.at \in Nat /\ f.seq < e.seq /\ f.at < e.at
    BY <1>1, <1>2, <2>9, Kinds DEF Upstream
  <2>3. Upstream'
    <3>1. \A f \in up' : f.seq <= hostSeq' /\ f.at <= Len(log') /\ (f.at > 0 => f.at > sent')
      BY <1>1, <1>2, <2>1, <2>9, <2>10 DEF Upstream
    <3>2. /\ \A f, g \in up' : f.seq = g.seq => f = g
          /\ \A f, g \in up' : f.seq < g.seq /\ g.at > 0 => f.at < g.at
      BY <1>1, <1>2, <2>9, <2>10 DEF Upstream
    <3> QED
      BY <1>1, <1>3, <1>4, <2>9, <3>1, <3>2 DEF Upstream, remote
  <2>4. Pairs'
    <3>1. Coming' = Coming
      BY <1>3, <2>1 DEF Coming
    <3>2. \A i \in DOMAIN pairs : pairs[i].host <= hostSeq' /\ \A f \in up' : pairs[i].host < f.seq
      BY <1>1, <2>1, <2>9, <2>10, PairKinds DEF Pairs
    <3> QED
      BY <1>1, <1>3, <2>1, <3>1, <3>2 DEF Pairs
  <2>5. Taken'
    BY <1>1, <1>2, <1>3, <2>1, Kinds DEF Taken, remote
  <2>6. Reaches'
    <3>1. /\ view' = view /\ load' = load /\ (stale' <=> stale) /\ pairs' = pairs
          /\ (AtHost' <=> AtHost) /\ (AtWeb' <=> AtWeb) /\ Coming' = Coming
          /\ up \subseteq up' /\ lost \subseteq lost'
      BY <1>3, <2>1 DEF AtHost, AtWeb, Coming, remote
    <3>2. \A m, k :
             /\ OnItsWay(m, k) => OnItsWay(m, k)'
             /\ OnItsWayAtHost(m, k) => OnItsWayAtHost(m, k)'
      BY <3>1 DEF OnItsWay, OnItsWayAtHost, Places
    <3>3. n \in lost' \/ [seq |-> hostSeq + 1, at |-> n] \in up'
      BY <2>1
    <3>4. \A k \in Int : OnItsWay(n, k)'
      BY <1>2, <3>3 DEF OnItsWay, Places
    <3>5. AtHost => OnItsWayAtHost(n, load.seq)'
      BY <1>1, <3>1, <3>3, Kinds DEF OnItsWayAtHost, Taken, AtHost
    <3> QED
      BY <1>1, <1>2, <3>1, <3>2, <3>4, <3>5, Kinds DEF Reaches, Reached, WebReaches, HostReaches
  <2>7. Once'
    BY <1>1, <1>2, <1>3, <2>1 DEF Once, Marked, WebMarked, HostMarked, Coming, remote
  <2>8. LoadedOnce'
    BY <1>1, <1>2, <1>3, <2>1, Kinds DEF LoadedOnce, Frames
  <2> QED
    BY <2>2, <2>3, <2>4, <2>5, <2>6, <2>7, <2>8 DEF Reading
<1>5. CASE ~remote
  <2>1. /\ webSeq' = webSeq + 1
        /\ down' = IF stream THEN down \cup {[seq |-> webSeq + 1, at |-> n]} ELSE down
        /\ sent' = n
        /\ UNCHANGED <<hostSeq, up>>
        /\ lost' = IF stream THEN lost ELSE lost \cup {n}
    BY <1>0, <1>2, <1>5 DEF Emit, Publish, Heard
  <2> DEFINE e == [seq |-> webSeq + 1, at |-> n]
  <2>9. down' \subseteq down \cup {e} /\ Coming' \subseteq Coming \cup {e} /\ e.seq = webSeq + 1 /\ e.at = n
    BY <1>3, <2>1 DEF Coming
  <2> HIDE DEF e
  <2>10. /\ \A f \in Coming \cup down : f.seq \in Nat /\ f.seq < e.seq
         /\ ~load.old => \A f \in load.buffer : f.seq < e.seq
    BY <1>1, <2>9, Kinds DEF Frames, Coming
  <2>2. Frames'
    <3>1. \A f \in down' \cup load.buffer : f.at \in 1..n
      BY <1>1, <1>2, <2>9, Kinds DEF Frames
    <3>2. \A f \in Coming' : f.seq <= webSeq'
      BY <1>1, <2>1, <2>9, <2>10, Kinds
    <3>3. /\ \A f, g \in down' : f.seq = g.seq => f = g
          /\ ~load.old => \A f \in load.buffer, g \in down' : f.seq < g.seq
      BY <1>1, <2>9, <2>10, Kinds DEF Frames
    <3>4. /\ ~stale => view.seq <= webSeq'
          /\ load.mark <= sent' /\ view.mark <= sent' /\ sent' <= Len(log')
      BY <1>1, <1>2, <2>1, Kinds DEF Frames
    <3> QED
      BY <1>1, <1>3, <2>1, <3>1, <3>2, <3>3, <3>4 DEF Frames
  <2>3. Upstream'
    BY <1>1, <1>2, <1>3, <1>5, <2>1, Kinds DEF Upstream, Frames, remote
  <2>4. Pairs'
    BY <1>1, <1>2, <1>3, <1>5, <2>1, Kinds, PairKinds DEF Pairs, Coming, Upstream
  <2>5. Taken'
    BY <1>1, <1>2, <1>3, <2>1, Kinds DEF Taken, remote
  <2>6. Reaches'
    <3>1. /\ UNCHANGED <<view, load, stale, remote, AtHost, AtWeb, up>>
          /\ Coming \subseteq Coming' /\ lost \subseteq lost'
      BY <1>3, <2>1 DEF AtHost, AtWeb, Coming, remote
    <3>2. \A m, k : OnItsWay(m, k) => OnItsWay(m, k)'
      BY <3>1 DEF OnItsWay
    <3>3. n \in lost' \/ [seq |-> webSeq + 1, at |-> n] \in Coming'
      BY <2>1 DEF Coming
    <3>4. \A k \in Int : k <= webSeq => OnItsWay(n, k)'
      BY <1>1, <3>3, Kinds DEF OnItsWay
    <3>5. (~stale => view.seq <= webSeq) /\ (AtWeb => load.seq <= webSeq)
      BY <1>1, <1>5 DEF Frames, Taken, AtWeb
    <3> QED
      BY <1>1, <1>2, <1>5, <3>1, <3>2, <3>4, <3>5, Kinds DEF Reaches, Reached, WebReaches, HostReaches, AtHost
  <2>7. Once'
    BY <1>1, <1>2, <1>3, <1>5, <2>1, Kinds DEF Once, Marked, WebMarked, HostMarked, Coming, remote, Frames
  <2>8. LoadedOnce'
    BY <1>1, <1>2, <1>3, <2>1, Kinds DEF LoadedOnce, Frames
  <2> QED
    BY <2>2, <2>3, <2>4, <2>5, <2>6, <2>7, <2>8 DEF Reading
<1> QED
  BY <1>4, <1>5

\* Another conversation takes a number.
LEMMA OtherStep == Inv /\ Other => Reading'
<1> SUFFICES ASSUME Inv, Other
             PROVE  Reading'
  OBVIOUS
<1>1. TypeOK /\ Frames /\ Upstream /\ Pairs /\ Taken /\ Reaches /\ Once /\ LoadedOnce
  BY DEF Inv, Reading
<1>2. /\ deployment' = deployment /\ log' = log /\ upstream' = upstream /\ pairs' = pairs
      /\ view' = view /\ load' = load /\ stale' = stale /\ lost' = lost
      /\ down' = down /\ sent' = sent
      /\ hostSeq' \in Nat /\ webSeq' \in Nat /\ hostSeq <= hostSeq' /\ webSeq <= webSeq'
      /\ \/ up' = up
         \/ remote /\ upstream /\ hostSeq' = hostSeq + 1 /\ up' = up \cup {[seq |-> hostSeq + 1, at |-> 0]}
  BY <1>1, Kinds DEF Other, Publish, PublishAtHost, browser
<1>3. Frames'
  BY <1>1, <1>2, Kinds DEF Frames, Coming
<1> DEFINE e == [seq |-> hostSeq + 1, at |-> 0]
<1>10. /\ e.seq = hostSeq + 1 /\ e.at = 0
       /\ up' = up \/ (remote /\ upstream /\ hostSeq' = e.seq /\ up' = up \cup {e})
  BY <1>2
<1> HIDE DEF e
<1>11. \A f \in up : f.seq \in Nat /\ f.at \in Nat /\ f.seq <= hostSeq /\ f.seq < e.seq
  BY <1>1, <1>10, Kinds DEF Upstream
<1>4. Upstream'
  <2>1. \A f \in up' : f.seq <= hostSeq' /\ f.at <= Len(log') /\ (f.at > 0 => f.at > sent')
    BY <1>1, <1>2, <1>10, <1>11, Kinds DEF Upstream
  <2>2. /\ \A f, g \in up' : f.seq = g.seq => f = g
        /\ \A f, g \in up' : f.seq < g.seq /\ g.at > 0 => f.at < g.at
    BY <1>1, <1>10, <1>11 DEF Upstream
  <2> QED
    BY <1>1, <1>2, <1>10, <2>1, <2>2 DEF Upstream, remote
<1>5. Pairs'
  <2>1. Coming' = Coming
    BY <1>2 DEF Coming
  <2>2. \A i \in DOMAIN pairs : /\ pairs[i].host <= hostSeq' /\ pairs[i].web <= webSeq'
                                /\ \A f \in up' : pairs[i].host < f.seq
    <3> TAKE i \in DOMAIN pairs
    <3>1. pairs[i].host \in Nat /\ pairs[i].web \in Nat /\ hostSeq \in Nat /\ webSeq \in Nat
      BY <1>1, Kinds, PairKinds
    <3>2. /\ pairs[i].host <= hostSeq /\ pairs[i].web <= webSeq
          /\ \A f \in up : pairs[i].host < f.seq
      BY <1>1 DEF Pairs
    <3>3. \A f \in up' : pairs[i].host < f.seq
      BY <1>10, <3>1, <3>2
    <3> QED
      BY <1>2, <3>1, <3>2, <3>3
  <2> QED
    BY <1>1, <1>2, <2>1, <2>2 DEF Pairs
<1>6. Taken'
  BY <1>1, <1>2, Kinds DEF Taken, remote
<1>7. Reaches'
  <2>1. \A m, k :
           /\ OnItsWay(m, k) => OnItsWay(m, k)'
           /\ OnItsWayAtHost(m, k) => OnItsWayAtHost(m, k)'
    BY <1>2 DEF OnItsWay, OnItsWayAtHost, Places, Coming
  <2>2. (AtHost' <=> AtHost) /\ (AtWeb' <=> AtWeb) /\ \A m : IsText(m)' => IsText(m)
    BY <1>2 DEF AtHost, AtWeb, remote, IsText
  <2> QED
    BY <1>1, <1>2, <2>1, <2>2, Kinds DEF Reaches, Reached, WebReaches, HostReaches
<1>8. Once'
  BY <1>1, <1>2 DEF Once, Marked, WebMarked, HostMarked, Coming, remote
<1>9. LoadedOnce'
  BY <1>1, <1>2 DEF LoadedOnce, IsText
<1> QED
  BY <1>3, <1>4, <1>5, <1>6, <1>7, <1>8, <1>9 DEF Reading

\* A request goes on: the buffer and what is on its way stay.
LEMMA RequestKeeps ==
    ASSUME Inv, UNCHANGED <<deployment, hub, streams, view, lost, stale>>,
           load'.buffer = load.buffer, load'.old = load.old, load'.mark \in {load.mark, sent},
           load'.at # "none", load'.at = "answered" => remote
    PROVE  /\ Frames' /\ Upstream' /\ Pairs' /\ Reached' /\ Marked' /\ LoadedOnce'
           /\ Coming' = Coming
           /\ \A m, k : OnItsWay(m, k) => OnItsWay(m, k)'
           /\ \A m, k : OnItsWayAtHost(m, k) => OnItsWayAtHost(m, k)'
           /\ \A m : IsText(m)' => IsText(m)
<1>1. TypeOK /\ Frames /\ Upstream /\ Pairs /\ Reached /\ Marked /\ LoadedOnce
  BY DEF Inv, Reading, Reaches, Once
<1>2. /\ deployment' = deployment /\ log' = log /\ upstream' = upstream /\ pairs' = pairs
      /\ view' = view /\ stale' = stale /\ lost' = lost
      /\ down' = down /\ sent' = sent /\ up' = up /\ hostSeq' = hostSeq /\ webSeq' = webSeq
  BY DEF hub, streams
<1>3. Coming' = Coming
  BY <1>2 DEF Coming
<1>4. /\ \A m, k : OnItsWay(m, k) => OnItsWay(m, k)'
      /\ \A m, k : OnItsWayAtHost(m, k) => OnItsWayAtHost(m, k)'
  BY <1>2, <1>3 DEF OnItsWay, OnItsWayAtHost
<1>5. Frames'
  BY <1>1, <1>2, <1>3, Kinds DEF Frames
<1>6. Upstream'
  BY <1>1, <1>2 DEF Upstream, remote
<1>7. Pairs'
  BY <1>1, <1>2, <1>3 DEF Pairs
<1>8. \A m : IsText(m)' => IsText(m)
  BY <1>2 DEF IsText
<1>9. Reached'
  BY <1>1, <1>2, <1>4, <1>8 DEF Reached
<1>10. Marked'
  BY <1>1, <1>2, <1>3 DEF Marked
<1>11. LoadedOnce'
  BY <1>1, <1>2, <1>8 DEF LoadedOnce
<1> QED
  BY <1>3, <1>4, <1>5, <1>6, <1>7, <1>8, <1>9, <1>10, <1>11

\* A request that is asked, broken or captured by a load that started: no
\* snapshot is on its way yet.
LEMMA WaitingStep ==
    ASSUME Inv, UNCHANGED <<deployment, hub, streams, view, lost, stale>>,
           load'.buffer = load.buffer, load'.old = load.old, load'.mark \in {load.mark, sent},
           load'.at \in {"asked", "broken"}
    PROVE  Reading'
<1>1. /\ Frames' /\ Upstream' /\ Pairs' /\ Reached' /\ Marked' /\ LoadedOnce'
  BY RequestKeeps
<1>2. Taken' /\ WebReaches' /\ HostReaches' /\ WebMarked' /\ HostMarked'
  BY DEF Taken, WebReaches, HostReaches, WebMarked, HostMarked, AtHost, AtWeb
<1> QED
  BY <1>1, <1>2 DEF Reading, Reaches, Once

\* What a load asked for leaves of the one that runs.
LEMMA OpenStep ==
    ASSUME Inv, load' \in {load, OpenTranscript}
    PROVE  /\ load'.buffer = load.buffer /\ load'.old = load.old /\ load'.mark \in {load.mark, sent}
           /\ load.at = "none" /\ load' # load => load' = Asked /\ load'.at = "asked"
           /\ load.at # "none" => /\ load'.at = load.at /\ load'.mark = load.mark
                                 /\ load'.seq = load.seq /\ load'.upto = load.upto
<1>1. TypeOK /\ (load.at = "none" => load.buffer = {} /\ ~load.old)
  BY DEF Inv, Reading, Frames
<1>2. load.old \in BOOLEAN /\ Asked.old \in BOOLEAN
  BY <1>1 DEF TypeOK, Loading, Asked, Idle
<1>3. CASE load' = load
  BY <1>3
<1>4. CASE load' = OpenTranscript
  BY <1>1, <1>2, <1>4, OpenIs, AskedIs
<1> QED
  BY <1>3, <1>4

\* A selection starts a load that holds nothing yet, or queues one.
LEMMA SelectStep == Inv /\ Select => Reading'
<1> SUFFICES ASSUME Inv, Select
             PROVE  Reading'
  OBVIOUS
<1>1. /\ TypeOK /\ Taken /\ WebReaches /\ HostReaches /\ WebMarked /\ HostMarked
      /\ UNCHANGED <<deployment, hub, streams, view, lost, stale>>
      /\ load' = OpenTranscript
  BY DEF Inv, Reading, Reaches, Once, Select
<1>2. CASE load.at = "none"
  BY <1>1, <1>2, OpenStep, OpenIs, AskedIs, WaitingStep
<1>3. CASE load.at # "none"
  <2>1. /\ load'.buffer = load.buffer /\ load'.old = load.old /\ load'.mark = load.mark
        /\ load'.at = load.at /\ load'.seq = load.seq /\ load'.upto = load.upto
    BY <1>1, <1>3, OpenStep
  <2>2. load'.at = "answered" => remote
    BY <1>3, <2>1 DEF Inv, Reading, Upstream
  <2>3. /\ Frames' /\ Upstream' /\ Pairs' /\ Reached' /\ Marked' /\ LoadedOnce'
        /\ Coming' = Coming
        /\ \A m, k : OnItsWay(m, k) => OnItsWay(m, k)'
        /\ \A m, k : OnItsWayAtHost(m, k) => OnItsWayAtHost(m, k)'
        /\ \A m : IsText(m)' => IsText(m)
    BY <1>1, <1>3, <2>1, <2>2, RequestKeeps
  <2>4. /\ deployment' = deployment /\ hostSeq' = hostSeq /\ webSeq' = webSeq /\ log' = log
        /\ pairs' = pairs
    BY <1>1 DEF hub
  <2>5. Taken'
    BY <1>1, <2>1, <2>4 DEF Taken, remote
  <2>6. WebReaches' /\ HostReaches'
    BY <1>1, <2>1, <2>3, <2>4 DEF WebReaches, HostReaches, AtHost, AtWeb, remote
  <2>7. WebMarked' /\ HostMarked'
    BY <1>1, <2>1, <2>3, <2>4 DEF WebMarked, HostMarked, remote
  <2> QED
    BY <2>3, <2>5, <2>6, <2>7 DEF Reading, Reaches, Once
<1> QED
  BY <1>2, <1>3

\* The worker's or web's number is the highest yet, so it marks all that is on its way.
LEMMA CaptureStep == Inv /\ Capture => Reading'
<1> SUFFICES ASSUME Inv, Capture
             PROVE  Reading'
  OBVIOUS
<1>1. /\ TypeOK /\ Frames /\ Pairs
      /\ UNCHANGED <<deployment, hub, streams, view, lost, stale>>
      /\ load' = [load EXCEPT !.at = "captured", !.seq = IF remote THEN hostSeq ELSE webSeq]
  BY DEF Inv, Reading, Capture
<1>2. /\ load'.buffer = load.buffer /\ load'.old = load.old /\ load'.mark = load.mark
      /\ load'.at = "captured" /\ load'.seq = IF remote THEN hostSeq ELSE webSeq
  BY <1>1 DEF TypeOK, Loading
<1>3. /\ Frames' /\ Upstream' /\ Pairs' /\ Reached' /\ Marked' /\ LoadedOnce'
      /\ Coming' = Coming
  BY <1>1, <1>2, RequestKeeps
<1>4. /\ deployment' = deployment /\ hostSeq' = hostSeq /\ webSeq' = webSeq /\ log' = log
      /\ pairs' = pairs
  BY <1>1 DEF hub
<1>5. Taken' /\ WebReaches' /\ HostReaches'
  BY <1>1, <1>2, <1>4, Kinds DEF Taken, WebReaches, HostReaches, AtHost, AtWeb, remote
<1>6. WebMarked'
  BY <1>1, <1>2, <1>3, <1>4 DEF WebMarked, remote, Frames
<1>7. HostMarked'
  BY <1>1, <1>2, <1>3, <1>4, Kinds, PairKinds DEF HostMarked, remote, Pairs
<1> QED
  BY <1>3, <1>5, <1>6, <1>7 DEF Reading, Reaches, Once

\* The records hold all that happened, so also what web had numbered before.
LEMMA ReadStep == Inv /\ Read => Reading'
<1> SUFFICES ASSUME Inv, Read
             PROVE  Reading'
  OBVIOUS
<1>1. /\ TypeOK /\ Frames /\ Taken /\ WebMarked /\ HostMarked
      /\ UNCHANGED <<deployment, hub, streams, view, lost, stale>>
      /\ load.at = "captured"
      /\ load' = [load EXCEPT !.at = "read", !.upto = Len(log)]
  BY DEF Inv, Reading, Read, Once
<1>2. /\ load'.buffer = load.buffer /\ load'.old = load.old /\ load'.mark = load.mark
      /\ load'.at = "read" /\ load'.seq = load.seq /\ load'.upto = Len(log)
  BY <1>1 DEF TypeOK, Loading
<1>3. /\ Frames' /\ Upstream' /\ Pairs' /\ Reached' /\ Marked' /\ LoadedOnce'
      /\ Coming' = Coming
      /\ \A m : IsText(m)' => IsText(m)
  BY <1>1, <1>2, RequestKeeps
<1>4. /\ deployment' = deployment /\ hostSeq' = hostSeq /\ webSeq' = webSeq /\ log' = log
      /\ pairs' = pairs
  BY <1>1 DEF hub
<1>5. Taken'
  BY <1>1, <1>2, <1>4, Kinds DEF Taken, Frames, remote
<1>6. \A m : IsText(m)' => m <= load'.upto
  BY <1>1, <1>2, <1>3 DEF IsText, TypeOK
<1>7. WebReaches' /\ HostReaches'
  BY <1>6 DEF WebReaches, HostReaches
<1>8. WebMarked' /\ HostMarked'
  BY <1>1, <1>2, <1>3, <1>4 DEF WebMarked, HostMarked, remote
<1> QED
  BY <1>3, <1>5, <1>7, <1>8 DEF Reading, Reaches, Once

\* The answer keeps the number that was taken before the records were read.
LEMMA RespondStep == Inv /\ Respond => Reading'
<1> SUFFICES ASSUME Inv, Respond
             PROVE  Reading'
  OBVIOUS
<1>1. /\ TypeOK /\ Taken /\ WebReaches /\ HostReaches /\ WebMarked /\ HostMarked
      /\ UNCHANGED <<deployment, hub, streams, view, lost, stale>>
      /\ load.at = "read"
      /\ load' = [load EXCEPT !.at = IF remote THEN "answered" ELSE "sent"]
  BY DEF Inv, Reading, Respond, Reaches, Once
<1>2. /\ load'.buffer = load.buffer /\ load'.old = load.old /\ load'.mark = load.mark
      /\ load'.seq = load.seq /\ load'.upto = load.upto
      /\ remote => load'.at = "answered"
      /\ ~remote => load'.at = "sent"
  BY <1>1 DEF TypeOK, Loading
<1>3. /\ Frames' /\ Upstream' /\ Pairs' /\ Reached' /\ Marked' /\ LoadedOnce'
      /\ Coming' = Coming
      /\ \A m, k : OnItsWay(m, k) => OnItsWay(m, k)'
      /\ \A m, k : OnItsWayAtHost(m, k) => OnItsWayAtHost(m, k)'
      /\ \A m : IsText(m)' => IsText(m)
  BY <1>1, <1>2, RequestKeeps
<1>4. /\ deployment' = deployment /\ hostSeq' = hostSeq /\ webSeq' = webSeq /\ log' = log
      /\ pairs' = pairs
  BY <1>1 DEF hub
<1>5. Taken'
  BY <1>1, <1>2, <1>4 DEF Taken, remote
<1>6. WebReaches' /\ HostReaches'
  BY <1>1, <1>2, <1>3, <1>4 DEF WebReaches, HostReaches, AtHost, AtWeb, remote
<1>7. WebMarked' /\ HostMarked'
  BY <1>1, <1>2, <1>3, <1>4 DEF WebMarked, HostMarked, remote
<1> QED
  BY <1>3, <1>5, <1>6, <1>7 DEF Reading, Reaches, Once

\* Web's number for a worker's: below that of every later frame, and not below
\* that of a frame which is no later.
LEMMA WebSeqBetween ==
    ASSUME TypeOK, Frames, Pairs, NEW h \in Int
    PROVE  /\ WebSeq(h) <= webSeq
           /\ \A i \in DOMAIN pairs : pairs[i].host > h => WebSeq(h) < pairs[i].web
           /\ \A f \in Coming : (\A i \in DOMAIN pairs : pairs[i].host > h => f.seq < pairs[i].web)
                                => f.seq <= WebSeq(h)
<1> DEFINE older == {i \in DOMAIN pairs : pairs[i].host <= h}
           last == Len(pairs)
<1>1. /\ \A f \in Coming : f.seq <= webSeq /\ f.seq \in Nat
      /\ webSeq \in Nat
  BY Kinds DEF Frames, Coming
<1>2. /\ \A i \in DOMAIN pairs : i \in Nat /\ i <= last /\ pairs[i].host \in Nat /\ pairs[i].web \in Nat
      /\ \A i \in DOMAIN pairs : pairs[i].web <= webSeq
      /\ \A i, j \in DOMAIN pairs : i < j => pairs[i].host < pairs[j].host /\ pairs[i].web < pairs[j].web
      /\ pairs # <<>> => 1 \in DOMAIN pairs /\ last \in DOMAIN pairs
      /\ \A i \in DOMAIN pairs : 1 <= i
      /\ pairs # <<>> => \A f \in Coming : f.seq < pairs[1].web \/ \E i \in DOMAIN pairs : pairs[i].web = f.seq
  BY PairKinds DEF Pairs
<1>3. CASE pairs = <<>>
  <2>1. WebSeq(h) = webSeq /\ DOMAIN pairs = {}
    BY <1>3 DEF WebSeq
  <2> QED
    BY <1>1, <2>1
<1>4. CASE pairs # <<>> /\ pairs[last].host < h
  <2>1. WebSeq(h) = webSeq
    BY <1>4 DEF WebSeq
  <2>2. \A i \in DOMAIN pairs : pairs[i].host <= pairs[last].host
    BY <1>2, <1>4
  <2>3. \A i \in DOMAIN pairs : ~ (pairs[i].host > h)
    BY <1>2, <1>4, <2>2
  <2> QED
    BY <1>1, <2>1, <2>3
<1>5. CASE pairs # <<>> /\ ~ (pairs[last].host < h) /\ older = {}
  <2>1. WebSeq(h) = pairs[1].web - 1
    BY <1>5 DEF WebSeq
  <2>2. /\ 1 \in DOMAIN pairs /\ ~ (pairs[1].host <= h)
        /\ \A i \in DOMAIN pairs : pairs[1].web <= pairs[i].web
    BY <1>2, <1>5
  <2>3. pairs[1].host > h /\ pairs[1].web \in Nat /\ pairs[1].web <= webSeq
    BY <1>2, <2>2
  <2>4. WebSeq(h) <= webSeq
    BY <1>1, <2>1, <2>3
  <2>5. \A i \in DOMAIN pairs : WebSeq(h) < pairs[i].web
    BY <1>2, <2>1, <2>2
  <2>6. \A f \in Coming : f.seq < pairs[1].web => f.seq <= WebSeq(h)
    BY <1>1, <2>1, <2>3
  <2> QED
    BY <2>2, <2>3, <2>4, <2>5, <2>6
<1>6. CASE pairs # <<>> /\ ~ (pairs[last].host < h) /\ older # {}
  <2>1. older \in SUBSET Nat /\ last \in Nat /\ \A i \in older : i <= last
    BY <1>2, PairKinds
  <2>2. \E i \in older : \A j \in older : j <= i
    <3> HIDE DEF older, last
    <3> QED
      BY <1>6, <2>1, Greatest
  <2>3. PICK j \in older : WebSeq(h) = pairs[j].web /\ \A i \in older : i <= j
    BY <1>6, <2>2 DEF WebSeq
  <2>4. /\ j \in DOMAIN pairs /\ pairs[j].host <= h
        /\ \A i \in DOMAIN pairs : i > j => pairs[i].host > h
    BY <1>2, <2>3
  <2>5. \A i \in DOMAIN pairs : pairs[i].host > h => i > j
    <3> TAKE i \in DOMAIN pairs
    <3> HAVE pairs[i].host > h
    <3>1. i # j /\ ~ (i < j)
      BY <1>2, <2>4
    <3> QED
      BY <1>2, <2>4, <3>1
  <2>6. WebSeq(h) <= webSeq
    BY <1>2, <2>3, <2>4
  <2>7. \A i \in DOMAIN pairs : pairs[i].host > h => WebSeq(h) < pairs[i].web
    BY <1>2, <2>3, <2>4, <2>5
  <2>8. ASSUME NEW f \in Coming, \A i \in DOMAIN pairs : pairs[i].host > h => f.seq < pairs[i].web
        PROVE  f.seq <= pairs[j].web
    <3>1. CASE f.seq < pairs[1].web
      <4>1. 1 \in DOMAIN pairs /\ pairs[1].web <= pairs[j].web
        BY <1>2, <1>6, <2>4
      <4> QED
        BY <1>1, <1>2, <2>4, <3>1, <4>1
    <3>2. CASE \E i \in DOMAIN pairs : pairs[i].web = f.seq
      <4>1. PICK i \in DOMAIN pairs : pairs[i].web = f.seq
        BY <3>2
      <4>2. ~ (pairs[i].host > h)
        BY <1>2, <2>8, <4>1
      <4>3. ~ (i > j)
        BY <2>4, <4>2
      <4> QED
        BY <1>2, <2>4, <4>1, <4>3
    <3> QED
      BY <1>2, <1>6, <3>1, <3>2
  <2> QED
    BY <2>3, <2>6, <2>7, <2>8
<1> QED
  BY <1>3, <1>4, <1>5, <1>6

\* Web's number for a worker's hides nothing and repeats nothing: this is WebSeqBetween.
LEMMA ForwardAnswerStep == Inv /\ ForwardAnswer => Reading'
<1> SUFFICES ASSUME Inv, ForwardAnswer
             PROVE  Reading'
  OBVIOUS
<1>1. /\ TypeOK /\ Frames /\ Upstream /\ Pairs /\ Taken /\ HostReaches /\ HostMarked
      /\ UNCHANGED <<deployment, hub, streams, view, lost, stale>>
      /\ load.at = "answered" /\ remote
      /\ load' = [load EXCEPT !.at = "sent", !.seq = WebSeq(load.seq)]
  BY DEF Inv, Reading, ForwardAnswer, Reaches, Once, Upstream
<1>2. /\ load'.buffer = load.buffer /\ load'.old = load.old /\ load'.mark = load.mark
      /\ load'.at = "sent" /\ load'.seq = WebSeq(load.seq) /\ load'.upto = load.upto
  BY <1>1 DEF TypeOK, Loading
<1>3. /\ Frames' /\ Upstream' /\ Pairs' /\ Reached' /\ Marked' /\ LoadedOnce'
      /\ Coming' = Coming
      /\ \A m : IsText(m)' => IsText(m)
  BY <1>1, <1>2, RequestKeeps
<1>4. /\ deployment' = deployment /\ hostSeq' = hostSeq /\ webSeq' = webSeq /\ log' = log
      /\ pairs' = pairs /\ up' = up /\ lost' = lost
  BY <1>1 DEF hub, streams
<1>5. /\ WebSeq(load.seq) <= webSeq
      /\ \A i \in DOMAIN pairs : pairs[i].host > load.seq => WebSeq(load.seq) < pairs[i].web
      /\ \A f \in Coming : (\A i \in DOMAIN pairs : pairs[i].host > load.seq => f.seq < pairs[i].web)
                           => f.seq <= WebSeq(load.seq)
  BY <1>1, Kinds, WebSeqBetween
<1>6. Taken'
  BY <1>1, <1>2, <1>4, <1>5 DEF Taken, remote
<1>7. WebReaches'
  <2>1. ASSUME NEW m, m # 0, OnItsWayAtHost(m, load.seq)
        PROVE  m \in lost \/ m \in Places(up) \/ \E f \in Coming : f.at = m /\ f.seq > WebSeq(load.seq)
    <3>1. CASE m \in lost
      BY <3>1
    <3>2. CASE \E f \in up : f.at = m /\ f.seq > load.seq
      BY <2>1, <3>2 DEF Places
    <3>3. CASE \E f \in Coming : f.at = m /\ \E i \in DOMAIN pairs : pairs[i].web = f.seq /\ pairs[i].host > load.seq
      <4>1. PICK f \in Coming : f.at = m /\ \E i \in DOMAIN pairs : pairs[i].web = f.seq /\ pairs[i].host > load.seq
        BY <3>3
      <4>2. PICK i \in DOMAIN pairs : pairs[i].web = f.seq /\ pairs[i].host > load.seq
        BY <4>1
      <4>3. WebSeq(load.seq) < f.seq /\ WebSeq(load.seq) \in Int /\ f.seq \in Nat
        BY <1>1, <1>5, <4>2, WebSeqIs, Kinds, PairKinds
      <4> QED
        BY <4>1, <4>3
    <3> QED
      BY <2>1, <3>1, <3>2, <3>3 DEF OnItsWayAtHost
  <2>2. ASSUME NEW m \in Place, IsText(m)', ~load.old, ~ (m <= load.upto)
        PROVE  OnItsWay(m, load.seq)'
    <3>1. OnItsWayAtHost(m, load.seq) /\ m # 0
      BY <1>1, <1>3, <2>2 DEF HostReaches, AtHost, Place
    <3> QED
      BY <1>2, <1>3, <1>4, <2>1, <3>1 DEF OnItsWay
  <2> QED
    BY <1>2, <2>2 DEF WebReaches
<1>8. HostReaches' /\ HostMarked'
  BY <1>2 DEF HostReaches, HostMarked, AtHost
<1>9. WebMarked'
  BY <1>1, <1>2, <1>3, <1>5 DEF WebMarked, HostMarked
<1> QED
  BY <1>3, <1>6, <1>7, <1>8, <1>9 DEF Reading, Reaches, Once

\* A request that breaks, or is sent again, leaves the buffer as it is.
LEMMA RetryStep == Inv /\ (Retry \/ RequestBreaks) => Reading'
<1> SUFFICES ASSUME Inv, Retry \/ RequestBreaks
             PROVE  Reading'
  OBVIOUS
<1>1. /\ UNCHANGED <<deployment, hub, streams, view, lost, stale>>
      /\ load'.buffer = load.buffer /\ load'.old = load.old /\ load'.mark = load.mark
      /\ load'.at \in {"asked", "broken"}
  BY DEF Inv, TypeOK, Loading, Retry, RequestBreaks
<1> QED
  BY <1>1, WaitingStep

\* The browser goes on with what it showed; what is dropped from the buffer counts as lost.
LEMMA FailStep == Inv /\ LoadFails => Reading'
<1> SUFFICES ASSUME Inv, LoadFails
             PROVE  Reading'
  OBVIOUS
<1>1. TypeOK /\ Frames /\ Upstream /\ Pairs /\ Reached /\ Marked /\ LoadedOnce
  BY DEF Inv, Reading, Reaches, Once
<1>2. /\ deployment' = deployment /\ log' = log /\ upstream' = upstream /\ pairs' = pairs
      /\ view' = view /\ stale' = stale /\ lost' = lost \cup Places(load.buffer)
      /\ down' = down /\ sent' = sent /\ up' = up /\ hostSeq' = hostSeq /\ webSeq' = webSeq
      /\ load' = Finished
  BY DEF LoadFails, hub, streams
<1>3. /\ load'.buffer = {} /\ ~load'.old /\ load'.mark \in {0, sent} /\ load'.at \in {"none", "asked"}
  BY <1>1, <1>2, FinishedIs
<1>4. Coming' = down /\ down \subseteq Coming
  BY <1>2, <1>3 DEF Coming
<1>5. Frames'
  BY <1>1, <1>2, <1>3, <1>4, Kinds DEF Frames
<1>6. Upstream'
  BY <1>1, <1>2, <1>3 DEF Upstream, remote
<1>7. Pairs'
  BY <1>1, <1>2, <1>4 DEF Pairs
<1>8. Reached'
  <2>1. \A m, k : m # 0 /\ OnItsWay(m, k) => OnItsWay(m, k)'
    BY <1>2, <1>4 DEF OnItsWay, Coming, Places
  <2> QED
    BY <1>1, <1>2, <2>1 DEF Reached, IsText, Place
<1>9. Marked'
  BY <1>1, <1>2, <1>4 DEF Marked
<1>10. LoadedOnce'
  BY <1>1, <1>2 DEF LoadedOnce, IsText
<1>11. Taken' /\ WebReaches' /\ HostReaches' /\ WebMarked' /\ HostMarked'
  BY <1>3 DEF Taken, WebReaches, HostReaches, WebMarked, HostMarked, AtHost, AtWeb
<1> QED
  BY <1>5, <1>6, <1>7, <1>8, <1>9, <1>10, <1>11 DEF Reading, Reaches, Once

\* The snapshot holds what web had numbered before the load, and none of the
\* buffer passes the gate for it; the rest is in the buffer or comes after it.
LEMMA LoadStep == Inv /\ Load => Reading'
<1> SUFFICES ASSUME Inv, Load
             PROVE  Reading'
  OBVIOUS
<1> DEFINE v == [times |-> Snapshot(load.upto), seq |-> load.seq, mark |-> load.mark]
           w == Applied(v, load.buffer)
<1>1. /\ TypeOK /\ Bounded /\ Frames /\ Upstream /\ Pairs /\ Taken /\ WebReaches /\ WebMarked
  BY DEF Inv, Reading, Reaches, Once
<1>2. /\ deployment' = deployment /\ log' = log /\ upstream' = upstream /\ pairs' = pairs
      /\ view' = w /\ stale' = load.old
      /\ lost' = lost \ {n \in 1..load.upto : IsText(n)}
      /\ down' = down /\ sent' = sent /\ up' = up /\ hostSeq' = hostSeq /\ webSeq' = webSeq
      /\ load' = Finished /\ load.at = "sent"
  BY DEF Load, hub, streams
<1>3. /\ load'.buffer = {} /\ ~load'.old /\ load'.mark \in {0, sent} /\ load'.at \in {"none", "asked"}
  BY <1>1, <1>2, FinishedIs
<1>4. Coming' = down /\ down \subseteq Coming
  BY <1>2, <1>3 DEF Coming
<1>5. /\ w \in View /\ w.mark = load.mark
      /\ load.seq <= w.seq /\ \A f \in load.buffer : f.seq <= w.seq
      /\ w.seq = load.seq \/ \E f \in load.buffer : w.seq = f.seq
      /\ \A p \in Place :
            w.times[p] = (IF p <= load.upto /\ IsText(p) THEN 1 ELSE 0)
                         + IF IsText(p) /\ \E f \in load.buffer : f.at = p /\ f.seq > load.seq
                           THEN 1 ELSE 0
  <2>1. v \in View /\ load.buffer \in SUBSET Frame
    BY <1>1 DEF TypeOK, Loading, View, Snapshot
  <2>2. v.seq = load.seq /\ v.mark = load.mark
        /\ \A p \in Place : v.times[p] = IF p <= load.upto /\ IsText(p) THEN 1 ELSE 0
    BY DEF Snapshot
  <2>3. PICK b \in Nat : \A f \in load.buffer : f.seq <= b
    BY <1>1 DEF Bounded
  <2>4. /\ w \in View /\ w.mark = v.mark
        /\ v.seq <= w.seq /\ \A f \in load.buffer : f.seq <= w.seq
        /\ w.seq = v.seq \/ \E f \in load.buffer : w.seq = f.seq
        /\ \A p \in Place :
              w.times[p] = v.times[p] + IF IsText(p) /\ \E f \in load.buffer : f.at = p /\ f.seq > v.seq
                                        THEN 1 ELSE 0
    <3> HIDE DEF v
    <3> QED
      BY <2>1, <2>3, AppliedIs
  <2> HIDE DEF v, w
  <2> QED
    BY <2>2, <2>4
<1> HIDE DEF v, w
<1>6. w.seq \in Int
  BY <1>5 DEF View
<1>7. Frames'
  <2>1. ~load.old => w.seq <= webSeq
    BY <1>1, <1>2, <1>5 DEF Frames, Taken, Coming
  <2> QED
    BY <1>1, <1>2, <1>3, <1>4, <1>5, <2>1, Kinds DEF Frames
<1>8. Upstream'
  BY <1>1, <1>2, <1>3 DEF Upstream, remote
<1>9. Pairs'
  BY <1>1, <1>2, <1>4 DEF Pairs
<1>10. Reached'
  <2>1. SUFFICES ASSUME ~load.old, NEW m \in Place, IsText(m)
                 PROVE  w.times[m] > 0 \/ OnItsWay(m, view.seq)'
    BY <1>2 DEF Reached, IsText
  <2>2. CASE m <= load.upto
    BY <1>5, <2>1, <2>2
  <2>3. CASE ~ (m <= load.upto) /\ OnItsWay(m, load.seq)
    <3>1. CASE m \in lost \/ m \in Places(up)
      <4>1. m \in lost => m \in lost'
        BY <1>2, <2>3
      <4> QED
        BY <1>2, <3>1, <4>1 DEF OnItsWay
    <3>2. CASE \E f \in load.buffer : f.at = m /\ f.seq > load.seq
      BY <1>5, <2>1, <3>2
    <3>3. CASE \E f \in down : f.at = m /\ f.seq > load.seq
      <4>1. PICK f \in down : f.at = m /\ f.seq > load.seq
        BY <3>3
      <4>2. \A g \in load.buffer : g.seq < f.seq
        BY <1>1, <2>1 DEF Frames
      <4>3. f.seq > w.seq
        BY <1>1, <1>5, <1>6, <4>1, <4>2, Kinds
      <4> QED
        BY <1>2, <1>4, <4>1, <4>3 DEF OnItsWay
    <3> QED
      BY <2>3, <3>1, <3>2, <3>3 DEF OnItsWay, Coming
  <2> QED
    BY <1>1, <1>2, <2>1, <2>2, <2>3 DEF WebReaches, AtWeb
<1>11. Marked'
  <2>1. SUFFICES ASSUME ~load.old, NEW f \in down, f.at <= load.mark
                 PROVE  f.seq <= w.seq
    BY <1>2, <1>4, <1>5 DEF Marked
  <2>2. f.seq <= load.seq
    BY <1>1, <1>2, <1>4, <2>1 DEF WebMarked
  <2> QED
    BY <1>1, <1>5, <1>6, <2>2, Kinds
<1>12. LoadedOnce'
  <2>1. SUFFICES ASSUME ~load.old, NEW m \in 1..load.mark, IsText(m)
                 PROVE  w.times[m] = 1
    BY <1>2, <1>5 DEF LoadedOnce, IsText
  <2>2. m \in Place /\ m <= load.upto
    BY <1>1, <1>2, <2>1, Kinds, Lengths DEF Taken, Place
  <2>3. \A f \in load.buffer : f.at = m => ~ (f.seq > load.seq)
    BY <1>1, <1>2, <2>1, Kinds DEF WebMarked, Coming
  <2> QED
    BY <1>5, <2>1, <2>2, <2>3
<1>13. Taken' /\ WebReaches' /\ HostReaches' /\ WebMarked' /\ HostMarked'
  BY <1>3 DEF Taken, WebReaches, HostReaches, WebMarked, HostMarked, AtHost, AtWeb
<1> QED
  BY <1>7, <1>8, <1>9, <1>10, <1>11, <1>12, <1>13 DEF Reading, Reaches, Once

\* A frame is read: it goes to the buffer, or the gate lets it pass once.
LEMMA DeliverStep == Inv /\ Deliver => Reading'
<1> SUFFICES ASSUME Inv, Deliver
             PROVE  Reading'
  OBVIOUS
<1>1. /\ TypeOK /\ Frames /\ Upstream /\ Pairs /\ Taken /\ LoadedOnce
      /\ Reached /\ WebReaches /\ HostReaches /\ Marked /\ WebMarked /\ HostMarked
  BY DEF Inv, Reading, Reaches, Once
<1>2. PICK f \in down :
        /\ First(f, down)
        /\ down' = down \ {f}
        /\ \/ load.at # "none" /\ load' = [load EXCEPT !.buffer = @ \cup {f}] /\ view' = view
           \/ load.at = "none" /\ view' = Applied(view, {f}) /\ load' \in {load, OpenTranscript}
        /\ UNCHANGED <<deployment, hub, upstream, up, stream, incidents, lost, stale>>
  BY DEF Deliver
<1>3. /\ deployment' = deployment /\ log' = log /\ upstream' = upstream /\ pairs' = pairs
      /\ stale' = stale /\ lost' = lost
      /\ sent' = sent /\ up' = up /\ hostSeq' = hostSeq /\ webSeq' = webSeq
      /\ \A m : IsText(m)' => IsText(m)
  BY <1>2 DEF hub, IsText
<1>4. /\ f \in Frame /\ f.seq \in Nat /\ f.at \in Nat
      /\ \A g \in down : g # f => f.seq < g.seq
  <2>1. f \in Frame /\ f.seq \in Nat /\ f.at \in Nat /\ \A g \in down : g.seq \in Nat
    BY <1>1, Kinds DEF TypeOK
  <2>2. \A g \in down : f.seq <= g.seq /\ (f.seq = g.seq => f = g)
    BY <1>1, <1>2 DEF First, Frames
  <2> QED
    BY <2>1, <2>2
<1>5. CASE load.at # "none"
  <2>1. /\ load'.buffer = load.buffer \cup {f} /\ load'.old = load.old /\ load'.mark = load.mark
        /\ load'.at = load.at /\ load'.seq = load.seq /\ load'.upto = load.upto
        /\ view' = view
    BY <1>1, <1>2, <1>5 DEF TypeOK, Loading
  <2>2. /\ Coming' \subseteq Coming
        /\ ~load.old => Coming' = Coming
        /\ f \in Coming
    BY <1>2, <2>1 DEF Coming
  <2>3. ~load.old =>
           /\ \A m, k : OnItsWay(m, k) => OnItsWay(m, k)'
           /\ \A m, k : OnItsWayAtHost(m, k) => OnItsWayAtHost(m, k)'
    BY <1>3, <2>2 DEF OnItsWay, OnItsWayAtHost
  <2>4. Frames'
    <3>1. ~load.old => \A h \in load.buffer \cup {f}, g \in down \ {f} : h.seq < g.seq
      BY <1>1, <1>4 DEF Frames
    <3> QED
      BY <1>1, <1>2, <1>3, <1>5, <2>1, <2>2, <3>1 DEF Frames
  <2>5. Upstream'
    BY <1>1, <1>3, <2>1 DEF Upstream, remote
  <2>6. Pairs'
    BY <1>1, <1>3, <2>2 DEF Pairs
  <2>7. Taken'
    BY <1>1, <1>3, <2>1 DEF Taken, remote
  <2>8. Reached' /\ WebReaches' /\ HostReaches'
    BY <1>1, <1>3, <2>1, <2>3 DEF Reached, WebReaches, HostReaches, AtHost, AtWeb, remote, Frames
  <2>9. Marked' /\ WebMarked' /\ HostMarked'
    BY <1>1, <1>3, <2>1, <2>2 DEF Marked, WebMarked, HostMarked, remote
  <2>10. LoadedOnce'
    BY <1>1, <1>3, <2>1 DEF LoadedOnce
  <2> QED
    BY <2>4, <2>5, <2>6, <2>7, <2>8, <2>9, <2>10 DEF Reading, Reaches, Once
<1>6. CASE load.at = "none"
  <2> DEFINE w == Applied(view, {f})
  <2>1. view' = w
    BY <1>2, <1>6
  <2>2. /\ w \in View /\ w.mark = view.mark /\ view.seq <= w.seq /\ f.seq <= w.seq
        /\ w.seq = view.seq \/ w.seq = f.seq
        /\ \A p \in Place : w.times[p] = view.times[p] + IF IsText(p) /\ f.at = p /\ f.seq > view.seq
                                                         THEN 1 ELSE 0
    <3>1. /\ w \in View /\ w.mark = view.mark
          /\ view.seq <= w.seq /\ \A g \in {f} : g.seq <= w.seq
          /\ w.seq = view.seq \/ \E g \in {f} : w.seq = g.seq
          /\ \A p \in Place :
                w.times[p] = view.times[p] + IF IsText(p) /\ \E g \in {f} : g.at = p /\ g.seq > view.seq
                                             THEN 1 ELSE 0
      <4>1. view \in View /\ {f} \in SUBSET Frame /\ \A g \in {f} : g.seq <= f.seq
        BY <1>1, <1>4 DEF TypeOK
      <4> QED
        BY <1>4, <4>1, AppliedIs
    <3> HIDE DEF w
    <3> QED
      BY <3>1
  <2> HIDE DEF w
  <2>3. w.seq \in Int /\ \A p \in Place : w.times[p] \in Nat /\ view.times[p] \in Nat
    BY <1>1, <2>2 DEF TypeOK, View
  <2>4. /\ load'.buffer = {} /\ ~load'.old /\ load'.mark \in {load.mark, sent}
        /\ load'.at \in {"none", "asked"} /\ load.buffer = {} /\ ~load.old
    <3>1. load' \in {load, OpenTranscript} /\ load.buffer = {} /\ ~load.old
      BY <1>1, <1>2, <1>6 DEF Frames
    <3> QED
      BY <1>1, <1>6, <3>1, OpenIs, AskedIs
  <2>5. Coming' = down \ {f} /\ Coming = down
    BY <1>2, <2>4 DEF Coming
  <2>6. Frames'
    <3>1. load'.buffer = {} /\ ~load'.old /\ load'.mark <= sent' /\ sent' <= Len(log')
      BY <1>1, <1>3, <2>4, Kinds DEF Frames
    <3>2. /\ \A g \in down' : g.at \in 1..sent'
          /\ \A g, h \in down' : g.seq = h.seq => g = h
      BY <1>1, <1>2, <1>3 DEF Frames
    <3>3. f \in Coming /\ \A g \in Coming' : g \in Coming
      BY <2>5
    <3>4. (~stale' => view'.seq <= webSeq') /\ view'.mark <= sent'
      BY <1>1, <1>3, <2>1, <2>2, <3>3 DEF Frames
    <3> QED
      BY <1>1, <1>3, <3>1, <3>2, <3>3, <3>4 DEF Frames
  <2>7. Upstream'
    BY <1>1, <1>3, <2>4 DEF Upstream, remote
  <2>8. Pairs'
    BY <1>1, <1>3, <2>5 DEF Pairs
  <2>9. Reached'
    <3>1. SUFFICES ASSUME ~stale, NEW m \in Place, IsText(m)
                   PROVE  view'.times[m] > 0 \/ OnItsWay(m, view.seq)'
      BY <1>3 DEF Reached
    <3>2. CASE view.times[m] > 0
      BY <2>1, <2>2, <2>3, <3>2
    <3>3. CASE m \in lost \/ m \in Places(up)
      BY <1>3, <3>3 DEF OnItsWay
    <3>4. CASE \E g \in down : g.at = m /\ g.seq > view.seq
      <4>1. PICK g \in down : g.at = m /\ g.seq > view.seq
        BY <3>4
      <4>2. CASE g = f
        BY <2>1, <2>2, <2>3, <3>1, <4>1, <4>2
      <4>3. CASE g # f
        <5>1. g \in down \ {f} /\ g.seq > w.seq
          BY <1>4, <2>2, <4>1, <4>3
        <5> QED
          BY <2>1, <2>5, <4>1, <5>1 DEF OnItsWay
      <4> QED
        BY <4>2, <4>3
    <3> QED
      BY <1>1, <2>5, <3>1, <3>2, <3>3, <3>4 DEF Reached, OnItsWay
  <2>10. Marked'
    <3>1. SUFFICES ASSUME ~stale, NEW g \in Coming', g.at <= view.mark
                   PROVE  g.seq <= w.seq
      BY <1>3, <2>1, <2>2 DEF Marked
    <3>2. g \in Coming /\ g.seq \in Nat /\ view.seq \in Int
      BY <1>1, <2>5, Kinds
    <3>3. g.seq <= view.seq
      BY <1>1, <3>1, <3>2 DEF Marked
    <3> QED
      BY <2>2, <2>3, <3>2, <3>3
  <2>11. LoadedOnce'
    <3>1. SUFFICES ASSUME ~stale, NEW m \in 1..view.mark, IsText(m)
                   PROVE  w.times[m] = 1
      BY <1>3, <2>1, <2>2 DEF LoadedOnce
    <3>2. m \in Place
      BY <1>1, Kinds, Lengths DEF Frames, Place
    <3>3. f.at = m => f.seq <= view.seq
      BY <1>1, <2>5, <3>1, Kinds DEF Marked
    <3>4. view.times[m] = 1
      BY <1>1, <3>1 DEF LoadedOnce
    <3>5. ~ (f.at = m /\ f.seq > view.seq)
      BY <1>1, <1>4, <3>3, Kinds
    <3>6. w.times[m] = view.times[m] + 0
      BY <2>2, <3>2, <3>5
    <3> QED
      BY <3>4, <3>6
  <2>12. Taken' /\ WebReaches' /\ HostReaches' /\ WebMarked' /\ HostMarked'
    BY <2>4 DEF Taken, WebReaches, HostReaches, WebMarked, HostMarked, AtHost, AtWeb
  <2> QED
    BY <2>6, <2>7, <2>8, <2>9, <2>10, <2>11, <2>12 DEF Reading, Reaches, Once
<1> QED
  BY <1>5, <1>6

\* What a broken stream carried counts as lost.
LEMMA StreamStep == Inv /\ (StreamBreaks \/ Resume) => Reading'
<1> SUFFICES ASSUME Inv, StreamBreaks \/ Resume
             PROVE  Reading'
  OBVIOUS
<1>1. /\ TypeOK /\ Frames /\ Upstream /\ Pairs /\ Taken /\ LoadedOnce
      /\ Reached /\ WebReaches /\ HostReaches /\ Marked /\ WebMarked /\ HostMarked
  BY DEF Inv, Reading, Reaches, Once
<1>2. /\ deployment' = deployment /\ log' = log /\ upstream' = upstream /\ pairs' = pairs
      /\ view' = view /\ stale' = stale /\ lost' = lost \cup Places(down)
      /\ down' = {} /\ sent' = sent /\ up' = up /\ hostSeq' = hostSeq /\ webSeq' = webSeq
      /\ load' \in {load, OpenTranscript}
      /\ \A m : IsText(m)' => IsText(m)
  BY DEF StreamBreaks, Resume, hub, browser, IsText
<1>3. /\ load'.buffer = load.buffer /\ load'.old = load.old /\ load'.mark \in {load.mark, sent}
      /\ load.at = "none" /\ load' # load => load'.at = "asked"
      /\ load.at # "none" => /\ load'.at = load.at /\ load'.mark = load.mark
                            /\ load'.seq = load.seq /\ load'.upto = load.upto
  BY <1>2, OpenStep
<1>4. load'.at \in {"none", "asked"} \/ (load.at # "none" /\ load'.at = load.at)
  BY <1>3
<1>5. /\ Coming' = IF load.old THEN {} ELSE load.buffer
      /\ Coming' \subseteq Coming
  BY <1>2, <1>3 DEF Coming
<1>6. /\ \A m, k : m # 0 /\ OnItsWay(m, k) => OnItsWay(m, k)'
      /\ \A m, k : m # 0 /\ OnItsWayAtHost(m, k) => OnItsWayAtHost(m, k)'
  BY <1>2, <1>5 DEF OnItsWay, OnItsWayAtHost, Coming, Places
<1>7. Frames'
  BY <1>1, <1>2, <1>3, <1>5, Kinds DEF Frames
<1>8. Upstream'
  BY <1>1, <1>2, <1>3, <1>4 DEF Upstream, remote
<1>9. Pairs'
  BY <1>1, <1>2, <1>5 DEF Pairs
<1>10. Taken'
  BY <1>1, <1>2, <1>3, <1>4 DEF Taken, remote
<1>11. Reached' /\ WebReaches' /\ HostReaches'
  <2>1. \A m \in Place : m # 0
    BY DEF Place
  <2> QED
    BY <1>1, <1>2, <1>3, <1>4, <1>6, <2>1 DEF Reached, WebReaches, HostReaches, AtHost, AtWeb, remote
<1>12. Marked' /\ WebMarked' /\ HostMarked'
  BY <1>1, <1>2, <1>3, <1>4, <1>5 DEF Marked, WebMarked, HostMarked, remote
<1>13. LoadedOnce'
  BY <1>1, <1>2 DEF LoadedOnce
<1> QED
  BY <1>7, <1>8, <1>9, <1>10, <1>11, <1>12, <1>13 DEF Reading, Reaches, Once

\* A new stream carries nothing yet.
LEMMA StreamOpensStep == Inv /\ StreamOpens => Reading'
<1> SUFFICES ASSUME Inv, StreamOpens
             PROVE  Reading'
  OBVIOUS
<1>1. UNCHANGED <<deployment, log, upstream, pairs, view, stale, lost, down, sent, up, hostSeq, webSeq, load>>
  BY DEF StreamOpens, hub, browser
<1> QED
  BY <1>1 DEF Inv, Reading, Frames, Upstream, Pairs, Taken, LoadedOnce, Reaches, Once, Reached, WebReaches,
     HostReaches, Marked, WebMarked, HostMarked, OnItsWay, OnItsWayAtHost, Coming, AtHost, AtWeb, remote, IsText

\* What a broken subscription carried counts as lost.
LEMMA UpstreamBreaksStep == Inv /\ UpstreamBreaks => Reading'
<1> SUFFICES ASSUME Inv, UpstreamBreaks
             PROVE  Reading'
  OBVIOUS
<1>1. /\ TypeOK /\ Frames /\ Upstream /\ Pairs /\ Taken /\ LoadedOnce
      /\ Reached /\ WebReaches /\ HostReaches /\ Marked /\ WebMarked /\ HostMarked
  BY DEF Inv, Reading, Reaches, Once
<1>2. /\ deployment' = deployment /\ log' = log /\ upstream' = FALSE /\ pairs' = pairs
      /\ view' = view /\ stale' = stale /\ lost' = lost \cup Places(up)
      /\ down' = down /\ sent' = sent /\ up' = {} /\ hostSeq' = hostSeq /\ webSeq' = webSeq
      /\ load' = load
      /\ \A m : IsText(m)' => IsText(m)
  BY DEF UpstreamBreaks, hub, browser, IsText
<1>3. Coming' = Coming
  BY <1>2 DEF Coming
<1>4. /\ \A m, k : m # 0 /\ OnItsWay(m, k) => OnItsWay(m, k)'
      /\ \A m, k : m # 0 /\ OnItsWayAtHost(m, k) => OnItsWayAtHost(m, k)'
  BY <1>2, <1>3 DEF OnItsWay, OnItsWayAtHost, Places
<1>5. Frames' /\ Upstream' /\ Pairs' /\ Taken'
  BY <1>1, <1>2, <1>3 DEF Frames, Upstream, Pairs, Taken, remote
<1>6. Reached' /\ WebReaches' /\ HostReaches'
  <2>1. \A m \in Place : m # 0
    BY DEF Place
  <2> QED
    BY <1>1, <1>2, <1>4, <2>1 DEF Reached, WebReaches, HostReaches, AtHost, AtWeb, remote
<1>7. Marked' /\ WebMarked' /\ HostMarked'
  BY <1>1, <1>2, <1>3 DEF Marked, WebMarked, HostMarked, remote
<1>8. LoadedOnce'
  BY <1>1, <1>2 DEF LoadedOnce
<1> QED
  BY <1>5, <1>6, <1>7, <1>8 DEF Reading, Reaches, Once

\* A new subscription forgets the pairs; what a snapshot of the worker may now
\* hide counts as lost.
LEMMA UpstreamOpensStep == Inv /\ UpstreamOpens => Reading'
<1> SUFFICES ASSUME Inv, UpstreamOpens
             PROVE  Reading'
  OBVIOUS
<1>1. /\ TypeOK /\ Frames /\ Upstream /\ Pairs /\ Taken /\ LoadedOnce
      /\ Reached /\ WebReaches /\ HostReaches /\ Marked /\ WebMarked /\ HostMarked
  BY DEF Inv, Reading, Reaches, Once
<1>2. /\ deployment' = deployment /\ log' = log /\ remote /\ ~upstream /\ upstream' = TRUE /\ pairs' = <<>>
      /\ view' = view /\ stale' = stale /\ lost' = lost \cup Unread
      /\ down' = down /\ sent' = sent /\ up' = up /\ hostSeq' = hostSeq /\ webSeq' = webSeq
      /\ load' = load
      /\ \A m : IsText(m)' => IsText(m)
  BY DEF UpstreamOpens, browser, IsText
<1>3. Coming' = Coming /\ DOMAIN pairs' = {}
  BY <1>2 DEF Coming
<1>4. Frames' /\ Upstream' /\ Pairs' /\ Taken'
  BY <1>1, <1>2, <1>3 DEF Frames, Upstream, Pairs, Taken, remote
<1>5. \A m, k : OnItsWay(m, k) => OnItsWay(m, k)'
  BY <1>2, <1>3 DEF OnItsWay
<1>6. Reached' /\ WebReaches'
  BY <1>1, <1>2, <1>5 DEF Reached, WebReaches, AtWeb, remote
<1>7. HostReaches'
  <2>1. SUFFICES ASSUME AtHost, ~load.old, NEW m \in Place, IsText(m), ~ (m <= load.upto)
                 PROVE  OnItsWayAtHost(m, load.seq)'
    BY <1>2 DEF HostReaches, AtHost, remote
  <2>2. OnItsWayAtHost(m, load.seq) /\ load.at \in {"read", "answered"}
    BY <1>1, <2>1 DEF HostReaches, AtHost
  <2>3. CASE \E f \in Coming : f.at = m
    <3>1. m \in Nat /\ m <= sent
      BY <1>1, <2>3, Kinds DEF Frames, Coming
    <3>2. m \in Unread
      BY <1>1, <2>1, <2>2, <3>1, Kinds DEF Unread
    <3> QED
      BY <1>2, <3>2 DEF OnItsWayAtHost
  <2>4. CASE m \in lost \/ \E f \in up : f.at = m /\ f.seq > load.seq
    BY <1>2, <2>4 DEF OnItsWayAtHost
  <2> QED
    BY <2>2, <2>3, <2>4 DEF OnItsWayAtHost
<1>8. Marked' /\ WebMarked' /\ HostMarked'
  BY <1>1, <1>2, <1>3 DEF Marked, WebMarked, HostMarked, remote
<1>9. LoadedOnce'
  BY <1>1, <1>2 DEF LoadedOnce
<1> QED
  BY <1>4, <1>6, <1>7, <1>8, <1>9 DEF Reading, Reaches, Once

\* A restart of web leaves numbers of which the invariant says nothing.
LEMMA RestartStep == Inv /\ WebRestarts => Reading'
<1> SUFFICES ASSUME Inv, WebRestarts
             PROVE  Reading'
  OBVIOUS
<1>1. TypeOK /\ Frames /\ Upstream /\ Taken
  BY DEF Inv, Reading
<1>2. /\ deployment' = deployment /\ log' = log /\ upstream' = FALSE /\ pairs' = <<>>
      /\ view' = view /\ stale' = TRUE
      /\ down' = {} /\ sent' = sent /\ up' = {} /\ hostSeq' = hostSeq /\ webSeq' = 0
      /\ load' = IF load.at = "none" THEN Asked
                 ELSE [load EXCEPT !.at = "broken", !.again = TRUE, !.old = TRUE]
  BY DEF WebRestarts
<1>3. /\ load'.at \in {"asked", "broken"} /\ load'.buffer = load.buffer /\ load'.mark \in {load.mark, sent}
      /\ ~load'.old => load'.buffer = {}
  <2>1. CASE load.at = "none"
    BY <1>1, <1>2, <2>1, AskedIs DEF Frames
  <2>2. CASE load.at # "none"
    BY <1>1, <1>2, <2>2 DEF TypeOK, Loading
  <2> QED
    BY <2>1, <2>2
<1>4. Coming' = {}
  BY <1>2, <1>3 DEF Coming
<1>5. Frames'
  BY <1>1, <1>2, <1>3, <1>4, Kinds DEF Frames
<1>6. Upstream'
  BY <1>1, <1>2, <1>3 DEF Upstream, remote
<1>7. Pairs'
  BY <1>2 DEF Pairs
<1>8. Taken' /\ Reaches' /\ Once' /\ LoadedOnce'
  BY <1>2, <1>3 DEF Taken, Reaches, Reached, WebReaches, HostReaches, AtHost, AtWeb, Once, Marked, WebMarked, HostMarked,
     LoadedOnce
<1> QED
  BY <1>5, <1>6, <1>7, <1>8 DEF Reading

\* ps is the remembered pairs and one more, p: the new one is last, the others
\* have moved down.
Grown(ps, p) ==
    /\ DOMAIN ps = 1..Len(ps) /\ Len(ps) \in Nat /\ Len(ps) >= 1 /\ ps # <<>>
    /\ ps[Len(ps)] = p
    /\ \E d \in Nat :
          /\ Len(pairs) + 1 = Len(ps) + d
          /\ \A i \in DOMAIN ps : i < Len(ps) => i + d \in DOMAIN pairs /\ ps[i] = pairs[i + d]
          /\ ps = Append(pairs, p) => d = 0

\* What web remembers after it has numbered one more frame.
LEMMA GrownIs ==
    ASSUME TypeOK, NEW p \in [host : Nat, web : Nat], NEW ps, ps = Trimmed(Append(pairs, p))
    PROVE  Grown(ps, p)
<1> DEFINE P == [host : Nat, web : Nat]
           grown == Append(pairs, p)
<1>1. pairs \in Seq(P) /\ Len(pairs) <= PairsCap /\ PairsCap \in Nat
  BY EventStreamAssumption DEF TypeOK
<1> HIDE DEF P
<1>2. p \in P
  BY DEF P
<1>3. /\ grown \in Seq(P) /\ grown # <<>>
      /\ Len(grown) = Len(pairs) + 1 /\ Len(pairs) \in Nat /\ DOMAIN pairs = 1..Len(pairs)
      /\ \A i \in 1..Len(pairs) : grown[i] = pairs[i]
      /\ grown[Len(pairs) + 1] = p
  BY <1>1, <1>2, AppendProperties
<1>4. Len(grown) <= PairsCap + 1
  BY <1>1, <1>3
<1>5. /\ Trimmed(grown) \in Seq(P) /\ Trimmed(grown) # <<>>
      /\ \E d \in Nat : /\ Len(grown) = Len(Trimmed(grown)) + d
                        /\ \A i \in DOMAIN Trimmed(grown) : Trimmed(grown)[i] = grown[i + d]
                        /\ Trimmed(grown) = grown => d = 0
  <2> HIDE DEF grown
  <2> QED
    BY <1>3, <1>4, TrimmedIs
<1>6. ps = Trimmed(grown)
  OBVIOUS
<1> HIDE DEF grown
<1>7. PICK d \in Nat : /\ Len(grown) = Len(ps) + d
                       /\ \A i \in DOMAIN ps : ps[i] = grown[i + d]
                       /\ ps = grown => d = 0
  BY <1>5, <1>6
<1>8. DOMAIN ps = 1..Len(ps) /\ Len(ps) \in Nat /\ ps # <<>>
  BY <1>5, <1>6
<1>9. Len(ps) >= 1
  BY <1>5, <1>6
<1>10. ps[Len(ps)] = p
  <2>1. Len(ps) \in DOMAIN ps /\ Len(ps) + d = Len(pairs) + 1
    BY <1>3, <1>7, <1>8, <1>9
  <2>2. ps[Len(ps)] = grown[Len(ps) + d]
    BY <1>7, <2>1
  <2> QED
    BY <1>3, <2>1, <2>2
<1>11. \A i \in DOMAIN ps : i < Len(ps) => i + d \in DOMAIN pairs /\ ps[i] = pairs[i + d]
  <2> TAKE i \in DOMAIN ps
  <2> HAVE i < Len(ps)
  <2>1. i \in Nat /\ i >= 1 /\ i + d \in 1..Len(pairs)
    BY <1>3, <1>7, <1>8
  <2>2. ps[i] = grown[i + d]
    BY <1>7
  <2> QED
    BY <1>3, <2>1, <2>2
<1>12. Len(pairs) + 1 = Len(ps) + d
  BY <1>3, <1>7
<1> QED
  BY <1>7, <1>8, <1>9, <1>10, <1>11, <1>12 DEF grown, Grown

\* Web numbers the next frame of the worker and remembers the pair.
LEMMA ForwardStep == Inv /\ Forward => Reading'
<1> SUFFICES ASSUME Inv, Forward
             PROVE  Reading'
  OBVIOUS
<1>1. /\ TypeOK /\ Frames /\ Upstream /\ Pairs /\ Taken /\ LoadedOnce
      /\ Reached /\ WebReaches /\ HostReaches /\ Marked /\ WebMarked /\ HostMarked
  BY DEF Inv, Reading, Reaches, Once
<1>2. PICK f \in up :
        /\ First(f, up)
        /\ up' = up \ {f}
        /\ webSeq' = webSeq + 1
        /\ down' = IF stream /\ f.at > 0 THEN down \cup {[seq |-> webSeq + 1, at |-> f.at]} ELSE down
        /\ sent' = IF f.at > 0 THEN f.at ELSE sent
        /\ pairs' = Trimmed(Append(pairs, [host |-> f.seq, web |-> webSeq + 1]))
        /\ lost' = lost \cup (IF stream THEN {} ELSE {f.at} \ {0})
                        \cup (IF pairs' # Append(pairs, [host |-> f.seq, web |-> webSeq + 1]) THEN Unread ELSE {})
        /\ UNCHANGED <<deployment, log, hostSeq, upstream, stream, browser, incidents>>
  BY DEF Forward, Publish
<1>3. /\ deployment' = deployment /\ log' = log /\ hostSeq' = hostSeq /\ upstream' = upstream
      /\ view' = view /\ load' = load /\ stale' = stale
      /\ \A m : IsText(m)' => IsText(m)
  BY <1>2 DEF browser, IsText
<1>4. /\ f.seq \in Nat /\ f.at \in Nat
      /\ \A g \in up : g # f => f.seq < g.seq
      /\ upstream /\ remote
  BY <1>1, <1>2, Kinds DEF First, Upstream
<1>5. f.seq <= hostSeq /\ f.at <= Len(log) /\ (f.at > 0 => f.at > sent)
  BY <1>1 DEF Upstream
<1> DEFINE n == [seq |-> webSeq + 1, at |-> f.at]
           p == [host |-> f.seq, web |-> webSeq + 1]
<1>6. /\ Coming \subseteq Coming' /\ Coming' \subseteq Coming \cup {n}
      /\ n \in Coming' /\ n \notin Coming => f.at > 0
      /\ stream /\ f.at > 0 => n \in Coming'
  BY <1>2, <1>3 DEF Coming
<1>7. p \in [host : Nat, web : Nat] /\ p.host = f.seq /\ p.web = webSeq + 1
  BY <1>1, <1>4, Kinds
<1>8. Grown(pairs', p)
  <2>1. pairs' = Trimmed(Append(pairs, p))
    BY <1>2
  <2>2. TypeOK /\ p \in [host : Nat, web : Nat]
    BY <1>1, <1>7
  <2> HIDE DEF p
  <2>3. Grown(Trimmed(Append(pairs, p)), p)
    BY <2>2, GrownIs
  <2> QED
    BY <2>1, <2>3, Zenon
<1>9. PICK d \in Nat :
            /\ Len(pairs) + 1 = Len(pairs') + d
            /\ \A i \in DOMAIN pairs' : i < Len(pairs') => i + d \in DOMAIN pairs /\ pairs'[i] = pairs[i + d]
            /\ pairs' = Append(pairs, p) => d = 0
  BY <1>8, Zenon DEF Grown
<1>10. PICK l \in Nat : l = Len(pairs') /\ l >= 1 /\ DOMAIN pairs' = 1..l /\ pairs'[l] = p
  BY <1>8, Zenon DEF Grown
<1> HIDE DEF n, p
<1>11. n.seq = webSeq + 1 /\ n.at = f.at
  BY DEF n
<1>12. \A g \in Coming : g.seq \in Nat /\ g.at \in Nat /\ g.seq <= webSeq /\ g.at <= sent
  BY <1>1, Kinds DEF Frames, Coming
<1>13. Frames'
  <2>1. \A g \in down' \cup load'.buffer : g.at \in 1..sent'
    BY <1>1, <1>2, <1>3, <1>4, <1>5, Kinds DEF Frames
  <2>2. \A g \in Coming' : g.seq <= webSeq'
    <3>1. webSeq \in Nat /\ webSeq' = webSeq + 1
      BY <1>1, <1>2, Kinds
    <3> QED
      BY <1>6, <1>11, <1>12, <3>1
  <2>3. \A g, h \in down' : g.seq = h.seq => g = h
    <3>1. \A g \in down : g.seq <= webSeq
      BY <1>12 DEF Coming
    <3> QED
      BY <1>1, <1>2, <3>1, Kinds DEF Frames
  <2>4. ~load.old => \A g \in load.buffer, h \in down' : g.seq < h.seq
    <3>1. ~load.old => \A g \in load.buffer : g.seq <= webSeq
      BY <1>12 DEF Coming
    <3> QED
      BY <1>1, <1>2, <3>1, Kinds DEF Frames
  <2>5. /\ load.mark <= sent' /\ view.mark <= sent' /\ sent' <= Len(log)
        /\ ~stale => view.seq <= webSeq'
    <3>1. /\ webSeq \in Nat /\ webSeq' = webSeq + 1 /\ view.seq \in Int
          /\ load.mark \in Nat /\ view.mark \in Nat /\ sent \in Nat /\ Len(log) \in Nat
      BY <1>1, <1>2, Kinds
    <3>2. sent' \in {sent, f.at} /\ (sent' = f.at => sent <= f.at) /\ f.at <= Len(log)
      BY <1>1, <1>2, <1>4, <1>5, <3>1 DEF Frames
    <3> QED
      BY <1>1, <1>4, <3>1, <3>2 DEF Frames
  <2> QED
    BY <1>1, <1>3, <2>1, <2>2, <2>3, <2>4, <2>5 DEF Frames
<1>14. Upstream'
  BY <1>1, <1>2, <1>3, <1>4, Kinds DEF Upstream, remote
<1>15. Pairs'
  <2>1. /\ \A i \in DOMAIN pairs : i \in 1..Len(pairs) /\ pairs[i].host \in Nat /\ pairs[i].web \in Nat
        /\ Len(pairs) \in Nat /\ DOMAIN pairs = 1..Len(pairs)
    BY <1>1, PairKinds
  <2>2. /\ \A i \in DOMAIN pairs : pairs[i].host < f.seq /\ pairs[i].web <= webSeq
        /\ \A i, j \in DOMAIN pairs : i < j => pairs[i].host < pairs[j].host /\ pairs[i].web < pairs[j].web
    BY <1>1 DEF Pairs
  <2>3. \A i \in DOMAIN pairs' : i # l => i < l /\ i + d \in DOMAIN pairs /\ pairs'[i] = pairs[i + d]
    BY <1>9, <1>10
  <2>4. \A i \in DOMAIN pairs' : /\ pairs'[i].host <= hostSeq /\ pairs'[i].web <= webSeq'
                                 /\ \A g \in up' : pairs'[i].host < g.seq
    <3> TAKE i \in DOMAIN pairs'
    <3>3. webSeq \in Nat /\ webSeq' = webSeq + 1 /\ up' \subseteq up
      BY <1>1, <1>2, Kinds
    <3>1. CASE i = l
      BY <1>2, <1>4, <1>5, <1>7, <1>10, <3>1, <3>3
    <3>2. CASE i # l
      <4>1. i + d \in DOMAIN pairs /\ pairs'[i] = pairs[i + d]
        BY <2>3, <3>2
      <4>2. /\ pairs[i + d].host <= hostSeq /\ pairs[i + d].web <= webSeq /\ pairs[i + d].web \in Nat
            /\ \A g \in up : pairs[i + d].host < g.seq
        BY <1>1, <2>1, <4>1 DEF Pairs
      <4> QED
        BY <3>3, <4>1, <4>2
    <3> QED
      BY <3>1, <3>2
  <2>5. \A i, j \in DOMAIN pairs' : i < j => /\ pairs'[i].host < pairs'[j].host
                                            /\ pairs'[i].web < pairs'[j].web
    <3> TAKE i, j \in DOMAIN pairs'
    <3> HAVE i < j
    <3>1. i # l
      BY <1>10
    <3>4. i + d \in DOMAIN pairs /\ pairs'[i] = pairs[i + d]
      BY <2>3, <3>1
    <3>2. CASE j = l
      <4>1. pairs[i + d].host < f.seq /\ pairs[i + d].web <= webSeq /\ pairs[i + d].web \in Nat /\ webSeq \in Nat
        BY <1>1, <2>1, <2>2, <3>4, Kinds
      <4> QED
        BY <1>7, <1>10, <3>2, <3>4, <4>1
    <3>3. CASE j # l
      <4>1. j + d \in DOMAIN pairs /\ pairs'[j] = pairs[j + d]
        BY <2>3, <3>3
      <4>2. i + d < j + d
        BY <1>9, <1>10
      <4> QED
        BY <2>2, <3>4, <4>1, <4>2
    <3> QED
      BY <3>2, <3>3
  <2>6. ASSUME NEW g \in Coming
        PROVE  g.seq < pairs'[1].web \/ \E i \in DOMAIN pairs' : pairs'[i].web = g.seq
    <3>1. CASE l = 1
      BY <1>1, <1>7, <1>10, <1>12, <3>1, Kinds
    <3>2. CASE l # 1
      <4>1. 1 \in DOMAIN pairs' /\ 1 + d \in DOMAIN pairs /\ pairs'[1] = pairs[1 + d] /\ pairs # <<>>
        BY <1>10, <2>1, <2>3, <3>2
      <4>2. CASE g.seq < pairs[1].web
        <5>1. 1 \in DOMAIN pairs /\ pairs[1].web <= pairs[1 + d].web
          BY <1>9, <2>1, <2>2, <4>1
        <5> QED
          BY <1>12, <2>1, <4>1, <4>2, <5>1
      <4>3. CASE \E i \in DOMAIN pairs : pairs[i].web = g.seq
        <5>1. PICK k \in DOMAIN pairs : pairs[k].web = g.seq
          BY <4>3
        <5>2. CASE k <= d
          BY <1>9, <2>1, <2>2, <4>1, <5>1, <5>2
        <5>3. CASE ~ (k <= d)
          <6>1. k - d \in DOMAIN pairs' /\ k - d # l
            BY <1>9, <1>10, <2>1, <5>3
          <6>2. pairs'[k - d] = pairs[k]
            <7>1. pairs'[k - d] = pairs[(k - d) + d]
              BY <2>3, <6>1
            <7> QED
              BY <1>9, <2>1, <7>1
          <6> QED
            BY <5>1, <6>1, <6>2
        <5> QED
          BY <5>2, <5>3
      <4> QED
        BY <1>1, <4>1, <4>2, <4>3 DEF Pairs
    <3> QED
      BY <3>1, <3>2
  <2>7. pairs'[l].web = n.seq /\ l \in DOMAIN pairs'
    BY <1>7, <1>10, <1>11
  <2> QED
    BY <1>3, <1>6, <2>4, <2>5, <2>6, <2>7 DEF Pairs
<1>16. Taken'
  BY <1>1, <1>2, <1>3, <1>4, Kinds DEF Taken, remote
<1>17. ASSUME NEW m \in Place, NEW k \in Int, k <= webSeq, OnItsWay(m, k)
       PROVE  OnItsWay(m, k)'
  <2>1. m # 0
    BY DEF Place
  <2>2. CASE m \in lost
    BY <1>2, <2>2 DEF OnItsWay
  <2>3. CASE m \in Places(up)
    <3>1. CASE m = f.at /\ stream
      BY <1>1, <1>4, <1>6, <1>11, <1>17, <2>1, <3>1, Kinds DEF OnItsWay
    <3>2. CASE m = f.at /\ ~stream
      BY <1>2, <2>1, <3>2 DEF OnItsWay
    <3>3. CASE m # f.at
      BY <1>2, <2>3, <3>3 DEF OnItsWay, Places
    <3> QED
      BY <3>1, <3>2, <3>3
  <2>4. CASE \E g \in Coming : g.at = m /\ g.seq > k
    BY <1>6, <2>4 DEF OnItsWay
  <2> QED
    BY <1>17, <2>2, <2>3, <2>4 DEF OnItsWay
<1>18. Reached' /\ WebReaches'
  <2>1. (~stale => view.seq <= webSeq) /\ (AtWeb => load.seq <= webSeq)
    BY <1>1, <1>4 DEF Frames, Taken, AtWeb
  <2>2. AtWeb' <=> AtWeb
    BY <1>3 DEF AtWeb, remote
  <2> QED
    BY <1>1, <1>3, <1>17, <2>1, <2>2, Kinds DEF Reached, WebReaches
<1>19. HostReaches'
  <2>1. SUFFICES ASSUME AtHost, ~load.old, NEW m \in Place, IsText(m), ~ (m <= load.upto)
                 PROVE  OnItsWayAtHost(m, load.seq)'
    BY <1>3 DEF HostReaches, AtHost, remote
  <2>2. OnItsWayAtHost(m, load.seq) /\ load.at \in {"read", "answered"} /\ m # 0 /\ m \in Nat
    BY <1>1, <2>1 DEF HostReaches, AtHost, Place
  <2>3. CASE m \in lost
    BY <1>2, <2>3 DEF OnItsWayAtHost
  <2>4. CASE \E g \in up : g.at = m /\ g.seq > load.seq
    <3>1. PICK g \in up : g.at = m /\ g.seq > load.seq
      BY <2>4
    <3>2. CASE g = f /\ stream
      <4>1. n \in Coming' /\ n.at = m /\ l \in DOMAIN pairs' /\ pairs'[l].web = n.seq /\ pairs'[l].host > load.seq
        BY <1>4, <1>6, <1>7, <1>10, <1>11, <2>2, <3>1, <3>2
      <4> QED
        BY <1>3, <4>1 DEF OnItsWayAtHost
    <3>3. CASE g = f /\ ~stream
      BY <1>2, <2>2, <3>1, <3>3 DEF OnItsWayAtHost
    <3>4. CASE g # f
      BY <1>2, <1>3, <3>1, <3>4 DEF OnItsWayAtHost
    <3> QED
      BY <3>2, <3>3, <3>4
  <2>5. CASE \E g \in Coming : g.at = m /\ \E i \in DOMAIN pairs : pairs[i].web = g.seq /\ pairs[i].host > load.seq
    <3>1. PICK g \in Coming : g.at = m /\ \E i \in DOMAIN pairs : pairs[i].web = g.seq /\ pairs[i].host > load.seq
      BY <2>5
    <3>2. PICK i \in DOMAIN pairs : pairs[i].web = g.seq /\ pairs[i].host > load.seq
      BY <3>1
    <3>3. CASE pairs' = Append(pairs, p)
      <4>1. d = 0 /\ i \in 1..Len(pairs) /\ Len(pairs) \in Nat
        BY <1>1, <1>9, <3>3, PairKinds
      <4>2. i \in DOMAIN pairs' /\ i < Len(pairs') /\ i + d = i
        BY <1>9, <1>10, <4>1
      <4>3. pairs'[i] = pairs[i]
        BY <1>9, <4>2
      <4> QED
        BY <1>3, <1>6, <3>1, <3>2, <4>2, <4>3 DEF OnItsWayAtHost
    <3>4. CASE pairs' # Append(pairs, p)
      <4>1. m \in Unread
        BY <1>1, <1>12, <2>1, <2>2, <3>1, Kinds DEF Unread
      <4> QED
        BY <1>2, <3>4, <4>1 DEF OnItsWayAtHost, p
    <3> QED
      BY <3>3, <3>4
  <2> QED
    BY <2>2, <2>3, <2>4, <2>5 DEF OnItsWayAtHost
<1>20. Marked' /\ WebMarked'
  <2>1. n \in Coming' /\ n \notin Coming => n.at > sent
    BY <1>5, <1>6, <1>11
  <2>2. view.mark <= sent /\ load.mark <= sent
    BY <1>1 DEF Frames
  <2> QED
    BY <1>1, <1>3, <1>4, <1>6, <1>11, <2>1, <2>2, Kinds DEF Marked, WebMarked, remote
<1>21. HostMarked'
  <2>1. SUFFICES ASSUME ~load.old, remote, load.at \in {"captured", "read", "answered"},
                        NEW g \in Coming', g.at <= load.mark,
                        NEW i \in DOMAIN pairs', pairs'[i].host > load.seq
                 PROVE  g.seq < pairs'[i].web
    BY <1>3 DEF HostMarked, remote
  <2>2. g \in Coming
    <3>1. n \in Coming' /\ n \notin Coming => n.at > sent
      BY <1>5, <1>6, <1>11
    <3>2. load.mark <= sent
      BY <1>1 DEF Frames
    <3> QED
      BY <1>1, <1>4, <1>6, <1>11, <2>1, <3>1, <3>2, Kinds
  <2>3. CASE i = l
    BY <1>1, <1>7, <1>10, <1>12, <2>2, <2>3, Kinds
  <2>4. CASE i # l
    <3>1. i + d \in DOMAIN pairs /\ pairs'[i] = pairs[i + d]
      BY <1>9, <1>10, <2>4
    <3> QED
      BY <1>1, <2>1, <2>2, <3>1 DEF HostMarked
  <2> QED
    BY <2>3, <2>4
<1>22. LoadedOnce'
  BY <1>1, <1>3 DEF LoadedOnce
<1> QED
  BY <1>13, <1>14, <1>15, <1>16, <1>18, <1>19, <1>20, <1>21, <1>22 DEF Reading, Reaches, Once

\* At the start the log is empty and nothing is on its way.
LEMMA InitReading == Init => Reading
<1> SUFFICES ASSUME Init
             PROVE  Reading
  OBVIOUS
<1>1. TypeOK
  BY InitIs
<1>2. /\ log = <<>> /\ hostSeq = 0 /\ webSeq = 0 /\ pairs = <<>> /\ sent = 0
      /\ upstream = FALSE /\ up = {} /\ down = {} /\ stale = FALSE
      /\ view.seq = -1 /\ view.mark = 0
  BY DEF Init
<1>3. load.at = "asked" /\ load.buffer = {} /\ ~load.old /\ load.mark = 0
  BY <1>1, <1>2, AskedIs DEF Init
<1>4. Len(log) = 0 /\ DOMAIN log = {} /\ DOMAIN pairs = {}
  BY <1>2
<1>5. Coming = {} /\ \A n : ~IsText(n)
  BY <1>2, <1>3, <1>4 DEF Coming, IsText
<1>6. Frames /\ Upstream /\ Pairs /\ Taken
  BY <1>2, <1>3, <1>4, <1>5 DEF Frames, Upstream, Pairs, Taken
<1>7. Reaches /\ Once /\ LoadedOnce
  BY <1>2, <1>3, <1>5 DEF Reaches, Reached, WebReaches, HostReaches, Once, Marked, WebMarked, HostMarked, LoadedOnce
<1> QED
  BY <1>6, <1>7 DEF Reading

\* A step that changes nothing keeps the invariant.
LEMMA IdleStep == Inv /\ UNCHANGED vars => Reading'
BY DEF vars, Inv, Reading, Frames, Upstream, Pairs, Taken, LoadedOnce, Reaches, Once, Reached, WebReaches,
   HostReaches, Marked, WebMarked, HostMarked, OnItsWay, OnItsWayAtHost, Coming, AtHost, AtWeb, remote, IsText

\* Every step keeps the invariant.
LEMMA InvStep == Inv /\ [Next]_vars => Inv'
<1> SUFFICES ASSUME Inv, [Next]_vars
             PROVE  Inv'
  OBVIOUS
<1>1. TypeOK' /\ Bounded'
  BY TypeStep, BoundedStep DEF Inv
<1>2. Reading'
  <2>1. CASE TurnStart \/ TextDelta \/ TurnEnd
    BY <2>1, EmitStep DEF TurnStart, TextDelta, TurnEnd, Event
  <2>2. CASE Other
    BY <2>2, OtherStep
  <2>3. CASE Forward
    BY <2>3, ForwardStep
  <2>4. CASE Deliver
    BY <2>4, DeliverStep
  <2>5. CASE Capture
    BY <2>5, CaptureStep
  <2>6. CASE Read
    BY <2>6, ReadStep
  <2>7. CASE Respond
    BY <2>7, RespondStep
  <2>8. CASE ForwardAnswer
    BY <2>8, ForwardAnswerStep
  <2>9. CASE Load
    BY <2>9, LoadStep
  <2>10. CASE Retry \/ RequestBreaks
    BY <2>10, RetryStep
  <2>11. CASE GiveUp \/ Refused
    BY <2>11, FailStep DEF GiveUp, Refused
  <2>12. CASE StreamOpens
    BY <2>12, StreamOpensStep
  <2>13. CASE UpstreamOpens
    BY <2>13, UpstreamOpensStep
  <2>14. CASE Select
    BY <2>14, SelectStep
  <2>15. CASE StreamBreaks \/ Resume
    BY <2>15, StreamStep
  <2>16. CASE UpstreamBreaks
    BY <2>16, UpstreamBreaksStep
  <2>17. CASE WebRestarts
    BY <2>17, RestartStep
  <2>18. CASE UNCHANGED vars
    BY <2>18, IdleStep
  <2> QED
    BY <2>1, <2>2, <2>3, <2>4, <2>5, <2>6, <2>7, <2>8, <2>9, <2>10, <2>11, <2>12, <2>13, <2>14, <2>15,
       <2>16, <2>17, <2>18 DEF Next, Conversation, Route, Loads, Opens, Breaks
<1> QED
  BY <1>1, <1>2 DEF Inv

\* The inductive invariant: where every event is that the browser does not show,
\* and in what order web's and the worker's numbers stand to each other.
THEOREM InvCorrect == Spec => []Inv
<1>1. Init => Inv
  BY InitIs, InitReading DEF Inv
<1> QED
  BY <1>1, InvStep, PTL DEF Spec

\* Whatever the order of events, snapshots and failures: what a quiet browser
\* does not show was lost by a broken stream or request.  The gate on numbers
\* and the mapping of a worker's snapshot hide nothing else.
THEOREM NoSilentGapCorrect == Spec => []NoSilentGap
<1>1. Inv => NoSilentGap
  <2> SUFFICES ASSUME Inv, Quiet, ~stale, NEW n \in Place, IsText(n), view.times[n] = 0
               PROVE  n \in lost
    BY DEF NoSilentGap
  <2>1. OnItsWay(n, view.seq)
    BY DEF Inv, Reading, Reaches, Reached
  <2>2. Coming = {}
    BY DEF Inv, Reading, Frames, Quiet, Coming
  <2>3. up = {}
    BY DEF Inv, Reading, Upstream, Quiet
  <2> QED
    BY <2>1, <2>2, <2>3 DEF OnItsWay, Places
<1> QED
  BY <1>1, InvCorrect, PTL

\* Text that web had numbered before the browser asked for the snapshot it shows
\* is shown once, whatever was buffered while the snapshot was on its way.
THEOREM LoadedOnceCorrect == Spec => []LoadedOnce
<1>1. Inv => LoadedOnce
  BY DEF Inv, Reading
<1> QED
  BY <1>1, InvCorrect, PTL
=============================================================================
