----------------------------- MODULE SyncProofs -----------------------------
(***************************************************************************)
(* Theorems about SyncCoordinator, for any number of web servers, entries  *)
(* and faults.                                                             *)
(***************************************************************************)
EXTENDS SyncCoordinator, TLAPS

(***************************************************************************)
(* The inductive invariant of the lease and of what is uploaded under it.  *)
(***************************************************************************)

\* A lease that is not to be released: its content may still be uploaded.
Trusted(w) == ~active[w].doomed /\ ~active[w].releasePending

Recovering(w) == job[w].step \in {"renew", "resend", "reacquire", "reupload", "rebuild"}

\* A token that the service accepts is that of the lease holder; a lease whose
\* release failed is refused to everyone, and one for an unknown version is to
\* be released.
LeaseSound(w) ==
    LET a == active[w] IN
    a.held =>
        /\ a.valid => leased = w /\ doc # NoDoc
        /\ a.etag <= etag
        /\ a.seen \subseteq uploaded
        /\ a.alien => a.doomed \/ a.releasePending
        /\ a.releasePending => a.block # "none"
        /\ Step(w, "free") /\ a.block = "none" => a.pending = NoDoc

\* What the task inside _exclusive relies on between its calls.
JobSound(w) ==
    LET a == active[w] IN
    /\ Step(w, "acquire") => ~a.held
    /\ job[w].step \notin {"free", "acquire"} => a.held
    /\ Step(w, "upload") => a.block = "none"
    /\ Recovering(w) \/ Step(w, "materialize") => Trusted(w)
    /\ Recovering(w) => a.block = "uncertain"
    /\ job[w].step \in {"upload", "resend", "reupload"} => a.pending # NoDoc
    /\ job[w].step \in {"materialize", "rebuild"} => a.pending = NoDoc
    /\ Step(w, "beat") => a.releasePending

\* Under the version it knows the service still has what was seen, the session
\* file has it too, and so has what is to be uploaded.  Only for a version that
\* it never saw does a server not know what the service has.
ContentSound(w) ==
    LET a == active[w] IN
    a.held /\ ~a.releasePending =>
        /\ ~a.alien /\ a.etag = etag /\ doc # NoDoc => a.seen = doc
        /\ a.pending # NoDoc => a.seen \subseteq a.pending /\ a.pending \subseteq local[w]
        /\ job[w].step \notin {"materialize", "release"} => a.seen \subseteq local[w]

WebSound(w) == LeaseSound(w) /\ JobSound(w) /\ ContentSound(w)
DocKept == doc # NoDoc => doc \subseteq uploaded
IInv == TypeOK /\ DocKept /\ \A w \in Web : WebSound(w)

(***************************************************************************)
(* What a step of one server leaves to the others.                         *)
(***************************************************************************)

LEMMA Constants ==
    NoDoc \notin Docs /\ Web \subseteq Clients /\ Peer \notin Web /\ NoWeb \notin Clients
BY SyncAssumption DEF NoDoc, Docs, Clients

LEMMA HeldLease ==
    ASSUME TypeOK, NEW w \in Web
    PROVE  /\ active[w] \in Leases \cup {NoLease}
           /\ active[w].held => active[w] \in Leases
           /\ ~active[w].held => active[w] = NoLease
<1>1. \A a \in Leases : a.held = TRUE
  BY DEF Leases
<1>2. NoLease.held = FALSE
  BY DEF NoLease
<1>3. active[w] \in Leases \cup {NoLease}
  BY DEF TypeOK
<1>4. QED
  BY <1>1, <1>2, <1>3, Zenon

LEMMA JobTypes ==
    /\ Free \in Jobs /\ Free.step = "free"
    /\ \A s \in {"free", "beat"} : [step |-> s] \in Jobs
    /\ \A s \in {"upload", "release"}, r \in BOOLEAN : [step |-> s, request |-> r] \in Jobs
    /\ \A s \in {"acquire", "materialize"}, k \in Kinds : [step |-> s, for |-> k] \in Jobs
    /\ \A s \in {"renew", "resend", "reacquire", "reupload", "rebuild"} : [step |-> s, for |-> "change"] \in Jobs
BY DEF Jobs, Free, Kinds

LEMMA JobOf ==
    ASSUME NEW j \in Jobs
    PROVE  /\ j.step = "free" <=> j = Free
           /\ j.step \in {"acquire", "materialize"} => j.for \in Kinds
           /\ j.step \in {"upload", "release"} => j.request \in BOOLEAN
BY DEF Jobs, Free, Kinds

\* What a step may do to the tasks of a server's users, and to its files.
UsersTyped ==
    /\ change' \in [Web -> {"none", "run", "local", "settle", "abandon"}]
    /\ turn' \in [Web -> {"no", "leased", "local"}]
    /\ settle' \in [Web -> BOOLEAN] /\ finish' \in [Web -> BOOLEAN] /\ giveUp' \in [Web -> BOOLEAN]
    /\ scenario' = scenario
FilesTyped == UNCHANGED <<local, enrolled, written>> /\ abandoned' \in [Web -> Docs] /\ left' \in [Web -> BOOLEAN]

LEMMA UsersUnchanged == TypeOK /\ UNCHANGED users => UsersTyped
BY DEF TypeOK, users, UsersTyped

LEMMA FilesUnchanged == TypeOK /\ UNCHANGED files => FilesTyped
BY DEF TypeOK, files, FilesTyped

LEMMA GrantedTyped ==
    ASSUME TypeOK, NEW w \in Web, NEW k \in Kinds, Granted(w, k)
    PROVE  UsersTyped
BY ZenonT(30) DEF TypeOK, Granted, Prompted, Unstreamed, Stopped, Refused, UsersTyped

LEMMA FailsTyped ==
    ASSUME TypeOK, NEW w \in Web, NEW r \in BOOLEAN, Fails(w, r) \/ giveUp' = giveUp
    PROVE  giveUp' \in [Web -> BOOLEAN]
<1>1. giveUp \in [Web -> BOOLEAN] /\ (giveUp[w] \/ r) \in BOOLEAN
  BY DEF TypeOK
<1>2. QED
  BY <1>1 DEF Fails

\* What a server's step may do to the service.
Quiet == doc' = doc /\ etag' = etag /\ leased' = leased
Grants(w) == doc' = doc /\ etag' = etag /\ leased = NoWeb /\ leased' = w
Frees(w) == doc' = doc /\ etag' = etag /\ leased = w /\ leased' = NoWeb
Stores(w) == leased = w /\ leased' = w /\ doc # NoDoc /\ doc' # NoDoc /\ etag' = etag + 1
Enrols == doc = NoDoc /\ doc' # NoDoc /\ etag' = etag + 1 /\ leased' = leased
ServiceMoves(w) == Quiet \/ Grants(w) \/ Frees(w) \/ Stores(w) \/ Enrols

LEMMA OthersKept ==
    ASSUME IInv, NEW w \in Web, NEW v \in Web, v # w, ServiceMoves(w), uploaded \subseteq uploaded',
           active'[v] = active[v], job'[v] = job[v], local'[v] = local[v]
    PROVE  WebSound(v)'
<1>1. WebSound(v) /\ etag \in Nat /\ v # NoWeb
  BY SyncAssumption DEF IInv, TypeOK
<1>2. active[v].held => active[v].etag \in Nat /\ (active[v].valid => leased = v)
  BY <1>1, HeldLease DEF WebSound, LeaseSound, Leases, IInv
<1>3. LeaseSound(v)'
  BY <1>1, <1>2 DEF WebSound, LeaseSound, ServiceMoves, Quiet, Grants, Frees, Stores, Enrols, Step
<1>4. JobSound(v)'
  BY <1>1 DEF WebSound, JobSound, Step, Trusted, Recovering
<1>5. ContentSound(v)'
  <2>1. ASSUME active[v].held, active[v].etag = etag', doc' # NoDoc PROVE active[v].etag = etag /\ doc # NoDoc /\ doc' = doc
    BY <1>1, <1>2, <2>1 DEF WebSound, LeaseSound, ServiceMoves, Quiet, Grants, Frees, Stores, Enrols
  <2>2. QED
    BY <1>1, <2>1 DEF WebSound, ContentSound, Trusted, Step
<1>6. QED
  BY <1>3, <1>4, <1>5 DEF WebSound

LEMMA Assembled ==
    ASSUME IInv, NEW w \in Web, ServiceMoves(w), uploaded \subseteq uploaded', DocKept', TypeOK', WebSound(w)',
           \A v \in Web \ {w} : active'[v] = active[v] /\ job'[v] = job[v] /\ local'[v] = local[v]
    PROVE  IInv'
<1>1. \A v \in Web \ {w} : WebSound(v)'
  BY OthersKept
<1>2. QED
  BY <1>1 DEF IInv

LEMMA JoinKeeps ==
    ASSUME IInv, NEW w \in Web, NEW k \in Kinds, Join(w, k)
    PROVE  IInv'
<1> USE DEF IInv
<1>1. TypeOK'
  BY GrantedTyped DEF Join, TypeOK, UsersTyped, service, files
<1>2. WebSound(w)'
  BY DEF Join, WebSound, LeaseSound, JobSound, ContentSound, Trusted, Recovering, Step, service, files
<1>3. QED
  BY <1>1, <1>2, Assembled DEF Join, service, files, ServiceMoves, Quiet, DocKept

LEMMA AcquireKeeps ==
    ASSUME IInv, NEW w \in Web, Acquire(w)
    PROVE  IInv'
<1> USE DEF IInv
<1>1. job[w] \in Jobs /\ job[w].for \in Kinds /\ ~active[w].held /\ WebSound(w)
  BY JobOf DEF Acquire, TypeOK, Step, WebSound, JobSound
<1>2. CASE /\ Answered /\ Grantable /\ leased' = w
           /\ active' = [active EXCEPT ![w] = [held |-> TRUE, valid |-> TRUE, etag |-> etag, seen |-> doc,
                            pending |-> NoDoc, fresh |-> job[w].for = "refresh", gone |-> FALSE,
                            doomed |-> FALSE, alien |-> FALSE, releasePending |-> FALSE, block |-> "none"]]
           /\ Now(w, [step |-> "materialize", for |-> job[w].for])
  <2> DEFINE a == [held |-> TRUE, valid |-> TRUE, etag |-> etag, seen |-> doc,
                            pending |-> NoDoc, fresh |-> job[w].for = "refresh", gone |-> FALSE,
                            doomed |-> FALSE, alien |-> FALSE, releasePending |-> FALSE, block |-> "none"]
             j == [step |-> "materialize", for |-> job[w].for]
  <2>1. a \in Leases /\ j \in Jobs
    BY <1>1, <1>2, Constants, JobTypes DEF Leases, Grantable, TypeOK
  <2>2. TypeOK'
    BY <1>2, <2>1, Constants DEF Acquire, TypeOK, Now, Answered, users, files
  <2>3. active'[w] = a /\ job'[w] = j /\ j.step = "materialize"
    BY <1>2 DEF TypeOK, Now
  <2>4. WebSound(w)'
    BY <1>2, <2>3 DEF WebSound, LeaseSound, JobSound, ContentSound, Trusted, Recovering, Step, TypeOK, Grantable,
        DocKept, Acquire
  <2>5. QED
    BY <1>2, <2>2, <2>4, Assembled DEF Acquire, Now, ServiceMoves, Grants, Grantable, DocKept, files, TypeOK
<1>3. CASE active' = active /\ job' = [job EXCEPT ![w] = Free] /\ leased' \in {leased, IF Grantable THEN w ELSE leased} /\ (Answered \/ Fault)
  <2>1. TypeOK'
    BY <1>3, Constants, JobTypes, SyncAssumption DEF Acquire, TypeOK, Answered, Fault, users, files
  <2>2. WebSound(w)'
    BY <1>1, <1>3, JobTypes DEF WebSound, LeaseSound, JobSound, ContentSound, Trusted, Recovering, Step, TypeOK
  <2>3. QED
    BY <1>3, <2>1, <2>2, Assembled DEF Acquire, ServiceMoves, Quiet, Grants, Grantable, DocKept, files, TypeOK
<1>4. QED
  BY <1>2, <1>3 DEF Acquire, Now

LEMMA AnswerOk ==
    ASSUME NEW w \in Web, Answer(w) = "ok"
    PROVE  doc # NoDoc /\ active[w].valid /\ active[w].etag = etag
BY DEF Answer

\* An upload adds to what the service has, if the lease is for a known version.
LEMMA StoreAdds ==
    ASSUME IInv, NEW w \in Web, active[w].held, ~active[w].releasePending, active[w].pending # NoDoc,
           Answer(w) = "ok", Store(w)
    PROVE  /\ Stores(w) /\ (active[w].alien \/ doc \subseteq doc') /\ doc' \in Docs /\ uploaded' \in Docs /\ etag' \in Nat
           /\ uploaded \subseteq uploaded' /\ DocKept' /\ leased' = leased
           /\ active[w].pending \subseteq local[w] /\ active[w].pending = doc' /\ active[w].etag < etag'
<1>1. active[w] \in Leases /\ WebSound(w)
  BY HeldLease DEF IInv
<1>2. doc # NoDoc /\ active[w].valid /\ active[w].etag = etag
  BY AnswerOk
<1>3. active[w].pending \in Docs
  BY <1>1 DEF Leases
<1>4. leased = w /\ (active[w].alien \/ active[w].seen = doc) /\ active[w].seen \subseteq active[w].pending /\ active[w].pending \subseteq local[w]
  BY <1>1, <1>2 DEF WebSound, LeaseSound, ContentSound
<1>5. etag \in Nat /\ uploaded \in Docs /\ doc \in Docs
  BY <1>2 DEF IInv, TypeOK
<1>6. doc' = active[w].pending /\ etag' = etag + 1 /\ uploaded' = uploaded \cup active[w].pending /\ leased' = leased
  BY DEF Store
<1>7. doc' # NoDoc /\ doc' \in Docs /\ uploaded' \in Docs /\ DocKept'
  BY <1>3, <1>5, <1>6 DEF Docs, DocKept
<1>8. QED
  BY <1>2, <1>4, <1>5, <1>6, <1>7 DEF Stores

LEMMA MaterializeKeeps ==
    ASSUME IInv, NEW w \in Web, Materialize(w)
    PROVE  IInv'
<1> USE DEF IInv
<1>1. /\ job[w] \in Jobs /\ job[w].for \in Kinds /\ active[w].held /\ active[w] \in Leases
      /\ WebSound(w) /\ Trusted(w) /\ active[w].pending = NoDoc /\ job[w].step = "materialize"
  BY JobOf, HeldLease DEF Materialize, TypeOK, Step, WebSound, JobSound
<1>2. CASE /\ Answered /\ Replaced(w)
           /\ blocked' = [blocked EXCEPT ![w] = "none"]
           /\ Now(w, Free) /\ Granted(w, job[w].for) /\ UNCHANGED active
  <2>1. TypeOK'
    <3>1. active[w].seen \in Docs /\ UsersTyped /\ Free \in Jobs
      BY <1>1, <1>2, GrantedTyped, JobTypes DEF Leases
    <3>2. local' \in [Web -> Docs] /\ left' \in [Web -> BOOLEAN]
      BY <1>2, <3>1 DEF Replaced, TypeOK
    <3>3. QED
      BY <1>2, <3>1, <3>2 DEF Materialize, TypeOK, Now, Answered, UsersTyped, service
  <2>2. local'[w] = active[w].seen /\ job'[w] = Free
    BY <1>2 DEF TypeOK, Now, Replaced
  <2>3. WebSound(w)'
    BY <1>1, <1>2, <2>2, JobTypes DEF WebSound, LeaseSound, JobSound, ContentSound, Trusted, Recovering, Step,
        service,
        Materialize
  <2>4. QED
    BY <1>2, <2>1, <2>3, Assembled DEF Materialize, Now, Replaced, ServiceMoves, Quiet, DocKept, service, TypeOK
<1>3. CASE /\ Unfit(w)
           /\ active' = [active EXCEPT ![w].block = "failed"]
           /\ Now(w, [step |-> "release", request |-> FALSE]) /\ UNCHANGED <<blocked, local, left, users>>
  <2> DEFINE a == [active[w] EXCEPT !.block = "failed"]
  <2>1. a \in Leases /\ active' = [active EXCEPT ![w] = a]
    BY <1>1, <1>3 DEF Leases, TypeOK
  <2>2. TypeOK'
    <3>1. UsersTyped /\ faults' \in 0..scenario.faults
      BY <1>3, UsersUnchanged, SyncAssumption DEF Unfit, Answered, Fault, TypeOK
    <3>2. job' \in [Web -> Jobs]
      BY <1>3, JobTypes DEF Now, TypeOK
    <3>3. active' \in [Web -> Leases \cup {NoLease}]
      BY <2>1 DEF TypeOK
    <3>4. UNCHANGED <<service, blocked, local, left, enrolled, written, abandoned>>
      BY <1>3 DEF Materialize
    <3>5. QED
      BY <3>1, <3>2, <3>3, <3>4 DEF TypeOK, UsersTyped, service
  <2>3. active'[w] = a /\ job'[w] = [step |-> "release", request |-> FALSE]
    BY <1>3, <2>1 DEF TypeOK, Now
  <2>4. WebSound(w)'
    BY <1>1, <1>3, <2>3 DEF WebSound, LeaseSound, JobSound, ContentSound, Trusted, Recovering, Step, service,
        Materialize
  <2>5. QED
    BY <1>3, <2>2, <2>4, Assembled DEF Materialize, Now, ServiceMoves, Quiet, DocKept, service, TypeOK
<1>4. QED
  BY <1>2, <1>3 DEF Materialize

\* A task that ends with its lease uncertain: of Renew, Resend, Reupload, Upload.
LEMMA UncertainKeeps ==
    ASSUME IInv, NEW w \in Web, NEW invalid \in BOOLEAN, NEW j \in {Free, [step |-> "reacquire", for |-> "change"]},
           active[w].held, Trusted(w) \/ j = Free, job[w].step \notin {"materialize", "release"}, Uncertain(w,
           invalid),
           Now(w, j), ServiceMoves(w), uploaded \subseteq uploaded', DocKept', UsersTyped, UNCHANGED files,
           doc' \in Docs \cup {NoDoc},
           uploaded' \in Docs, etag' \in Nat, leased' = leased, Answered \/ Fault
    PROVE  IInv'
<1> USE DEF IInv
<1> DEFINE a == [active[w] EXCEPT !.block = "uncertain", !.gone = invalid]
<1>11. active[w] \in Leases /\ WebSound(w)
  BY HeldLease
<1>12. a \in Leases
  BY <1>11 DEF Leases
<1>13. j \in Jobs
  BY JobTypes
<1>1. active[w] \in Leases /\ a \in Leases /\ j \in Jobs /\ WebSound(w)
  BY <1>11, <1>12, <1>13
<1>2. active' = [active EXCEPT ![w] = a] /\ active'[w] = a /\ job'[w] = j
  BY DEF Uncertain, TypeOK, Now
<1> HIDE DEF a
<1>9. j.step \in {"free", "reacquire"}
  BY JobTypes
<1>10. /\ a.held = active[w].held /\ a.valid = active[w].valid /\ a.etag = active[w].etag /\ a.seen = active[w].seen
       /\ a.pending = active[w].pending /\ a.block = "uncertain" /\ a.doomed = active[w].doomed
       /\ a.alien = active[w].alien /\ a.releasePending = active[w].releasePending
  BY <1>1 DEF a, Leases
<1>3. TypeOK'
  <2>1. faults' \in 0..scenario.faults
    BY SyncAssumption DEF Answered, Fault, TypeOK
  <2>2. QED
    BY <1>1, <1>2, <2>1 DEF TypeOK, Now, Uncertain, UsersTyped, files
<1>4. WebSound(w)'
  <2>1. active[w].etag \in Nat /\ etag \in Nat
    BY <1>1 DEF Leases, TypeOK
  <2>2. active[w].valid => leased' = w /\ doc' # NoDoc
    BY <1>1 DEF WebSound, LeaseSound, ServiceMoves, Quiet, Grants, Frees, Stores, Enrols
  <2>3. active[w].etag <= etag' /\ active[w].seen \subseteq uploaded'
    BY <1>1, <2>1 DEF WebSound, LeaseSound, ServiceMoves, Quiet, Grants, Frees, Stores, Enrols
  <2>4. LeaseSound(w)'
    BY <1>1, <1>2, <1>10, <2>2, <2>3 DEF WebSound, LeaseSound
  <2>5. JobSound(w)'
    BY <1>2, <1>9, <1>10, JobTypes DEF JobSound, Trusted, Step, Recovering
  <2>6. ASSUME active[w].etag = etag', doc' # NoDoc PROVE active[w].etag = etag /\ doc # NoDoc /\ doc' = doc
    BY <1>1, <2>1, <2>6 DEF WebSound, LeaseSound, ServiceMoves, Quiet, Grants, Frees, Stores, Enrols
  <2>7. ~active[w].releasePending =>
          /\ ~active[w].alien /\ active[w].etag = etag /\ doc # NoDoc => active[w].seen = doc
          /\ active[w].pending # NoDoc => active[w].seen \subseteq active[w].pending /\ active[w].pending \subseteq local[w]
          /\ active[w].seen \subseteq local[w]
    BY <1>1 DEF WebSound, ContentSound
  <2>8. ContentSound(w)'
    BY <1>2, <1>10, <2>6, <2>7 DEF ContentSound, files
  <2>9. QED
    BY <2>4, <2>5, <2>8 DEF WebSound
<1>5. QED
  BY <1>3, <1>4, Assembled DEF Uncertain, Now, files, TypeOK

LEMMA RenewKeeps ==
    ASSUME IInv, NEW w \in Web, Renew(w)
    PROVE  IInv'
<1> USE DEF IInv
<1>1. /\ job[w].step = "renew" /\ active[w].held /\ active[w] \in Leases /\ WebSound(w) /\ Trusted(w)
  BY HeldLease DEF Renew, Step, WebSound, JobSound, Recovering
<1>2. CASE /\ Answered /\ Answer(w) = "ok" /\ active[w].pending # NoDoc
           /\ Now(w, [step |-> "resend", for |-> "change"]) /\ UNCHANGED <<active, blocked, users>>
  <2>1. TypeOK' /\ job'[w] = [step |-> "resend", for |-> "change"]
    BY <1>2, JobTypes DEF Renew, TypeOK, Now, Answered, users, service, files
  <2>2. WebSound(w)'
    BY <1>1, <1>2, <2>1 DEF Renew, WebSound, LeaseSound, JobSound, ContentSound, Trusted, Recovering, Step,
        service, files
  <2>3. QED
    BY <1>2, <2>1, <2>2, Assembled DEF Renew, Now, ServiceMoves, Quiet, DocKept, service, files, TypeOK
<1>3. CASE /\ Answered /\ Answer(w) = "ok" /\ active[w].pending = NoDoc
           /\ Fixed(w) /\ Recovered(w) /\ UNCHANGED blocked
  <2> DEFINE a == [active[w] EXCEPT !.block = "none", !.gone = FALSE]
  <2>1. a \in Leases /\ active' = [active EXCEPT ![w] = a]
    BY <1>1, <1>3 DEF Leases, TypeOK, Fixed
  <2>2. TypeOK' /\ active'[w] = a /\ job'[w] = Free
    <3>1. UsersTyped /\ Free \in Jobs
      BY <1>3, GrantedTyped, JobTypes DEF Recovered, Kinds
    <3>2. QED
      BY <1>3, <2>1, <3>1 DEF Renew, TypeOK, Now, Answered, Recovered, UsersTyped, service, files
  <2>3. WebSound(w)'
    BY <1>1, <1>3, <2>2, JobTypes DEF Renew, WebSound, LeaseSound, JobSound, ContentSound, Trusted, Recovering,
        Step,
        service, files
  <2>4. QED
    BY <1>3, <2>1, <2>2, <2>3, Assembled DEF Renew, Recovered, Now, ServiceMoves, Quiet, DocKept, service,
        files, TypeOK
<1>4. CASE /\ Answered /\ Answer(w) = "stale"
           /\ active' = [active EXCEPT ![w].block = "uncertain", ![w].doomed = TRUE]
           /\ blocked' = [blocked EXCEPT ![w] = "conflict"]
           /\ Now(w, Free) /\ UNCHANGED users
  <2> DEFINE a == [active[w] EXCEPT !.block = "uncertain", !.doomed = TRUE]
  <2>1. a \in Leases /\ active' = [active EXCEPT ![w] = a]
    BY <1>1, <1>4 DEF Leases, TypeOK
  <2>2. TypeOK' /\ active'[w] = a /\ job'[w] = Free
    BY <1>4, <2>1, JobTypes DEF Renew, TypeOK, Now, Answered, users, service, files
  <2>3. active[w].valid => active[w].etag # etag
    BY <1>4 DEF Answer
  <2>4. doc # NoDoc /\ active[w].valid
    BY <1>4 DEF Answer
  <2> HIDE DEF a
  <2>10. /\ a.held /\ a.valid = active[w].valid /\ a.etag = active[w].etag /\ a.seen = active[w].seen
         /\ a.block = "uncertain" /\ a.doomed /\ a.alien = active[w].alien /\ a.pending = active[w].pending
         /\ a.releasePending = active[w].releasePending
    BY <1>1 DEF a, Leases
  <2>5. LeaseSound(w)'
    BY <1>1, <1>4, <2>2, <2>3, <2>4, <2>10 DEF Renew, WebSound, LeaseSound, service
  <2>6. JobSound(w)'
    BY <2>2, <2>10, JobTypes DEF WebSound, JobSound, Recovering, Step
  <2>7. ContentSound(w)'
    BY <1>1, <2>2, <2>10 DEF Renew, WebSound, ContentSound, service, files
  <2>8. WebSound(w)'
    BY <2>5, <2>6, <2>7 DEF WebSound
  <2>9. QED
    BY <1>4, <2>1, <2>2, <2>8, Assembled DEF Renew, Now, ServiceMoves, Quiet, DocKept, service, files, TypeOK
<1>5. CASE Answered /\ Answer(w) = "gone" /\ Uncertain(w, TRUE) /\ Now(w, [step |-> "reacquire", for |-> "change"]) /\ UNCHANGED users
  BY <1>1, <1>5, UncertainKeeps, UsersUnchanged DEF Renew, service, files, ServiceMoves, Quiet, DocKept, TypeOK
<1>6. CASE StillUncertain(w) /\ (Answered \/ Fault)
  BY <1>1, <1>6, UncertainKeeps, UsersUnchanged DEF Renew, StillUncertain, service, files, ServiceMoves, Quiet,
      DocKept, TypeOK
<1>7. QED
  BY <1>2, <1>3, <1>4, <1>5, <1>6 DEF Renew

\* An upload that is answered: the lease knows the new version (Resend,
\* Reupload, Upload).
LEMMA StoredKeeps ==
    ASSUME IInv, NEW w \in Web, NEW a \in Leases, NEW j \in Jobs, active[w].held,
           ~active[w].releasePending, active[w].pending # NoDoc, Answer(w) = "ok", Store(w),
           job[w].step \notin {"materialize", "release"},
           active' = [active EXCEPT ![w] = a], Now(w, j), UNCHANGED <<files, faults, blocked>>,
           a.valid = active[w].valid, a.etag = etag + 1, a.seen = active[w].pending, a.pending = NoDoc,
           a.block = "none",
           ~a.alien, ~a.releasePending, j.step \in {"free", "release"}, UsersTyped
    PROVE  IInv'
<1> USE DEF IInv
<1>1. /\ Stores(w) /\ doc' \in Docs /\ uploaded' \in Docs /\ etag' \in Nat /\ DocKept' /\ uploaded \subseteq uploaded'
      /\ active[w].pending \subseteq local[w] /\ active[w].pending = doc' /\ leased' = leased
  BY StoreAdds
<1>2. etag' = etag + 1 /\ doc' \subseteq uploaded'
  BY <1>1 DEF Store, DocKept, Stores
<1>3. TypeOK'
  BY <1>1 DEF TypeOK, Now, files, UsersTyped
<1>41. local' = local
  BY DEF files
<1>4. active'[w] = a /\ job'[w] = j /\ j.step \in {"free", "release"} /\ a.held /\ local' = local
  BY <1>41 DEF TypeOK, Now, Leases
<1>5. LeaseSound(w)'
  BY <1>1, <1>2, <1>4 DEF LeaseSound, Stores
<1>6. JobSound(w)'
  BY <1>4 DEF JobSound, Trusted, Recovering, Step
<1>7. ContentSound(w)'
  BY <1>1, <1>4 DEF ContentSound
<1>8. QED
  BY <1>1, <1>3, <1>4, <1>5, <1>6, <1>7, Assembled DEF WebSound, ServiceMoves, Now, TypeOK

\* The lease is blocked for good and a release is queued.
LEMMA BlockedKeeps ==
    ASSUME IInv, NEW w \in Web, NEW why \in {"conflict", "missing", "failed"}, active[w].held, MarkBlocked(w, why),
           Now(w, Free), UNCHANGED service, UsersTyped, FilesTyped, Answered \/ Fault,
           job[w].step \notin {"materialize", "release"}
    PROVE  IInv'
<1> USE DEF IInv
<1> DEFINE a == [active[w] EXCEPT !.block = why, !.doomed = TRUE]
<1>1. active[w] \in Leases /\ WebSound(w)
  BY HeldLease
<1>3. a \in Leases /\ active' = [active EXCEPT ![w] = a] /\ active'[w] = a
  BY <1>1 DEF Leases, MarkBlocked, TypeOK
<1> HIDE DEF a
<1>4. /\ a.held /\ a.valid = active[w].valid /\ a.etag = active[w].etag /\ a.seen = active[w].seen
      /\ a.pending = active[w].pending /\ a.alien = active[w].alien /\ a.releasePending = active[w].releasePending
      /\ a.block = why /\ a.doomed
  BY <1>1 DEF a, Leases
<1>51. blocked' \in [Web -> {"none", "conflict", "missing", "failed"}] /\ job' \in [Web -> Jobs] /\ faults' \in 0..scenario.faults
  BY JobTypes, SyncAssumption DEF TypeOK, Now, MarkBlocked, Answered, Fault
<1>5. TypeOK'
  BY <1>3, <1>51 DEF TypeOK, UsersTyped, FilesTyped, service
<1>6. job'[w] = Free
  BY DEF TypeOK, Now
<1>7. LeaseSound(w)'
  BY <1>1, <1>3, <1>4 DEF LeaseSound, WebSound, service
<1>8. JobSound(w)'
  BY <1>3, <1>4, <1>6, JobTypes DEF JobSound, Trusted, Recovering, Step
<1>9. ContentSound(w)'
  BY <1>1, <1>3, <1>4 DEF WebSound, ContentSound, service, FilesTyped
<1>10. QED
  BY <1>3, <1>5, <1>7, <1>8, <1>9, Assembled DEF WebSound, ServiceMoves, Quiet, DocKept, service, Now,
      FilesTyped, TypeOK

\* The lease is given back.
LEMMA ReleasedKeeps ==
    ASSUME IInv, NEW w \in Web, NEW j \in Jobs, j.step \in {"free", "acquire"}, active[w].held, Released(w, j),
           UNCHANGED blocked, UsersTyped, FilesTyped
    PROVE  IInv'
<1> USE DEF IInv
<1>1. active[w] \in Leases /\ WebSound(w)
  BY HeldLease
<1>2. ServiceMoves(w)
  BY <1>1 DEF Released, WebSound, LeaseSound, ServiceMoves, Quiet, Frees
<1>3. TypeOK'
  BY SyncAssumption DEF TypeOK, Released, Now, Answered, UsersTyped, FilesTyped
<1>4. active'[w] = NoLease /\ job'[w] = j
  BY DEF TypeOK, Released, Now
<1>5. WebSound(w)'
  BY <1>4 DEF WebSound, LeaseSound, JobSound, ContentSound, Trusted, Recovering, Step, NoLease
<1>6. QED
  BY <1>2, <1>3, <1>5, Assembled DEF Released, Now, FilesTyped, DocKept, TypeOK

\* A release whose answer is lost, whether or not it was applied.
LEMMA UnreleasedKeeps ==
    ASSUME IInv, NEW w \in Web, NEW queued \in BOOLEAN, NEW j \in {Free, [step |-> "beat"]}, active[w].held,
           Unreleased(w, queued, j), UNCHANGED blocked, UsersTyped, FilesTyped
    PROVE  IInv'
<1> USE DEF IInv
<1>1. active[w] \in Leases /\ WebSound(w)
  BY HeldLease
<1>2. PICK applied \in {FALSE, active[w].valid} :
        /\ leased' = IF applied THEN NoWeb ELSE leased
        /\ active' = [active EXCEPT ![w].valid = @ /\ ~applied, ![w].releasePending = TRUE,
                        ![w].block = "uncertain", ![w].doomed = @ /\ ~queued]
  BY DEF Unreleased
<1> DEFINE v == active[w].valid /\ ~applied
           d == active[w].doomed /\ ~queued
           a == [active[w] EXCEPT !.valid = v, !.releasePending = TRUE, !.block = "uncertain", !.doomed = d]
<1>3. active[w].valid \in BOOLEAN /\ active[w].doomed \in BOOLEAN
  BY <1>1 DEF Leases
<1>4. v \in BOOLEAN /\ d \in BOOLEAN
  BY <1>3
<1> HIDE DEF v, d
<1>5. a \in Leases
  BY <1>1, <1>4 DEF Leases
<1>6. active' = [active EXCEPT ![w] = a] /\ active'[w] = a
  BY <1>2 DEF TypeOK, v, d
<1> HIDE DEF a
<1>7. /\ a.held /\ a.valid = v /\ a.etag = active[w].etag /\ a.seen = active[w].seen
      /\ a.block = "uncertain" /\ a.releasePending
  BY <1>1 DEF a, Leases
<1>8. j \in Jobs /\ j.step \in {"free", "beat"} /\ job' = [job EXCEPT ![w] = j] /\ job'[w] = j
  BY JobTypes DEF Unreleased, Now, TypeOK
<1>9. doc' = doc /\ etag' = etag /\ uploaded' = uploaded /\ (leased' = leased \/ (leased = w /\ leased' = NoWeb))
  BY <1>1, <1>2 DEF Unreleased, WebSound, LeaseSound
<1>10. TypeOK'
  BY <1>5, <1>6, <1>8, <1>9, SyncAssumption DEF TypeOK, Unreleased, UsersTyped, FilesTyped, Fault
<1>11. v => active[w].valid /\ leased' = leased
  BY <1>2 DEF v
<1>12. LeaseSound(w)'
  BY <1>1, <1>6, <1>7, <1>9, <1>11 DEF LeaseSound, WebSound
<1>13. JobSound(w)'
  BY <1>6, <1>7, <1>8 DEF JobSound, Recovering, Step
<1>14. ContentSound(w)'
  BY <1>6, <1>7 DEF ContentSound
<1>15. QED
  BY <1>6, <1>8, <1>9, <1>10, <1>12, <1>13, <1>14, Assembled DEF WebSound, ServiceMoves, Quiet, Frees,
      FilesTyped, DocKept, TypeOK

LEMMA ReleaseCallKeeps ==
    ASSUME IInv, NEW w \in Web, NEW queued \in BOOLEAN, active[w].held, ReleaseCall(w, queued),
           UNCHANGED blocked, UsersTyped, FilesTyped
    PROVE  IInv'
BY ReleasedKeeps, UnreleasedKeeps, JobTypes DEF ReleaseCall

LEMMA ResendKeeps ==
    ASSUME IInv, NEW w \in Web, Resend(w) \/ Reupload(w)
    PROVE  IInv'
<1> USE DEF IInv
<1>1. /\ job[w].step \in {"resend", "reupload"} /\ active[w].held /\ active[w] \in Leases /\ WebSound(w) /\ Trusted(w)
      /\ active[w].pending # NoDoc
  BY HeldLease DEF Resend, Reupload, Step, WebSound, JobSound, Recovering
<1>2. UNCHANGED files
  BY DEF Resend, Reupload
<1>3. CASE /\ Answered /\ Answer(w) = "ok" /\ Store(w)
           /\ active' = [active EXCEPT ![w].etag = etag + 1, ![w].seen = active[w].pending, ![w].pending = NoDoc,
                            ![w].alien = FALSE, ![w].block = "none", ![w].gone = FALSE]
           /\ Recovered(w) /\ UNCHANGED blocked
  <2> DEFINE a == [active[w] EXCEPT !.etag = etag + 1, !.seen = active[w].pending, !.pending = NoDoc,
                            !.alien = FALSE, !.block = "none", !.gone = FALSE]
  <2>1. active[w].pending \in Docs /\ etag + 1 \in Nat
    BY <1>1 DEF Leases, TypeOK
  <2>2. a \in Leases
    BY <1>1, <2>1 DEF Leases
  <2>3. active' = [active EXCEPT ![w] = a]
    BY <1>3 DEF TypeOK
  <2>4. /\ a.valid = active[w].valid /\ a.etag = etag + 1 /\ a.seen = active[w].pending /\ a.pending = NoDoc
        /\ a.block = "none" /\ ~a.alien /\ ~a.releasePending
    BY <1>1 DEF Leases, Trusted
  <2> HIDE DEF a
  <2>5. /\ Free \in Jobs /\ Free.step = "free" /\ Now(w, Free) /\ UsersTyped
        /\ job[w].step \notin {"materialize", "release"} /\ ~active[w].releasePending
    BY <1>1, <1>3, JobTypes, GrantedTyped DEF Recovered, Kinds, Trusted
  <2>6. QED
    BY <1>1, <1>2, <1>3, <2>2, <2>3, <2>4, <2>5, StoredKeeps DEF Answered
<1>4. CASE /\ Answered /\ Answer(w) = "gone" /\ UNCHANGED service
           /\ Uncertain(w, TRUE) /\ Now(w, [step |-> "reacquire", for |-> "change"]) /\ UNCHANGED users
  BY <1>1, <1>2, <1>4, UncertainKeeps, UsersUnchanged DEF service, ServiceMoves, Quiet, DocKept, TypeOK
<1>5. CASE /\ Answered \/ Fault
           /\ UNCHANGED <<service, users>> /\ Now(w, Free) /\ \E invalid \in BOOLEAN : Uncertain(w, invalid)
  BY <1>1, <1>2, <1>5, UncertainKeeps, UsersUnchanged DEF service, ServiceMoves, Quiet, DocKept, TypeOK
<1>6. CASE Fault /\ StillUncertain(w) /\ Answer(w) = "ok" /\ Store(w)
  <2>1. /\ Stores(w) /\ doc' \in Docs /\ uploaded' \in Docs /\ etag' \in Nat /\ DocKept' /\ uploaded \subseteq uploaded'
        /\ leased' = leased
    BY <1>1, <1>6, StoreAdds DEF Trusted
  <2>2. Uncertain(w, FALSE) /\ Now(w, Free) /\ UsersTyped /\ job[w].step \notin {"materialize", "release"}
    BY <1>1, <1>6, UsersUnchanged DEF StillUncertain
  <2>3. QED
    BY <1>1, <1>2, <1>6, <2>1, <2>2, UncertainKeeps DEF ServiceMoves
<1>7. CASE Answered /\ Answer(w) = "stale" /\ MarkBlocked(w, "conflict") /\ Now(w, Free) /\ UNCHANGED <<service, users>>
  BY <1>1, <1>2, <1>7, BlockedKeeps, UsersUnchanged, FilesUnchanged
<1>8. CASE Resend(w)
  BY <1>3, <1>4, <1>5, <1>6, <1>8 DEF Resend, StillUncertain
<1>9. CASE Reupload(w)
  BY <1>3, <1>5, <1>6, <1>7, <1>9 DEF Reupload, StillUncertain
<1>10. QED
  BY <1>8, <1>9

LEMMA UploadKeeps ==
    ASSUME IInv, NEW w \in Web, Upload(w)
    PROVE  IInv'
<1> USE DEF IInv
<1>1. /\ job[w].step = "upload" /\ active[w].held /\ active[w] \in Leases /\ WebSound(w)
      /\ active[w].pending # NoDoc /\ active[w].block = "none"
  BY HeldLease DEF Upload, Step, WebSound, JobSound
<1>2. /\ UNCHANGED <<change, turn, settle, finish, scenario>> /\ UNCHANGED files /\ ~active[w].releasePending
      /\ job[w].request \in BOOLEAN /\ UsersTyped
  <2>1. job[w].request \in BOOLEAN
    BY <1>1, JobOf DEF TypeOK
  <2>2. giveUp' \in [Web -> BOOLEAN]
    BY <2>1, FailsTyped DEF Upload
  <2>3. QED
    BY <1>1, <2>1, <2>2 DEF Upload, WebSound, LeaseSound, TypeOK, UsersTyped
<1>3. CASE /\ Answered /\ Answer(w) = "ok" /\ Store(w)
           /\ active' = [active EXCEPT ![w].etag = etag + 1, ![w].seen = active[w].pending, ![w].pending = NoDoc,
                            ![w].alien = FALSE]
           /\ Now(w, [step |-> "release", request |-> job[w].request]) /\ UNCHANGED blocked
  <2> DEFINE a == [active[w] EXCEPT !.etag = etag + 1, !.seen = active[w].pending, !.pending = NoDoc, !.alien = FALSE]
             j == [step |-> "release", request |-> job[w].request]
  <2>1. active[w].pending \in Docs /\ etag + 1 \in Nat
    BY <1>1 DEF Leases, TypeOK
  <2>2. a \in Leases
    BY <1>1, <2>1 DEF Leases
  <2>3. active' = [active EXCEPT ![w] = a]
    BY <1>3 DEF TypeOK
  <2>4. /\ a.valid = active[w].valid /\ a.etag = etag + 1 /\ a.seen = active[w].pending /\ a.pending = NoDoc
        /\ a.block = "none" /\ ~a.alien /\ ~a.releasePending
    BY <1>1, <1>2 DEF Leases
  <2>5. j \in Jobs /\ Now(w, j) /\ j.step \in {"free", "release"}
    BY <1>2, <1>3, JobTypes
  <2> HIDE DEF a, j
  <2>6. QED
    BY <1>1, <1>2, <1>3, <2>2, <2>3, <2>4, <2>5, StoredKeeps DEF Answered
<1>4. CASE /\ Answered /\ Answer(w) \in {"stale", "missing"} /\ UNCHANGED service
           /\ MarkBlocked(w, IF doc = NoDoc THEN "missing" ELSE "conflict") /\ Now(w, Free)
  <2>1. PICK why \in {"missing", "conflict"} : MarkBlocked(w, why)
    BY <1>4
  <2>2. QED
    BY <1>1, <1>2, <1>4, <2>1, BlockedKeeps, FilesUnchanged
<1>5. CASE (Answered \/ Fault) /\ UNCHANGED service /\ Uncertain(w, active[w].gone) /\ Now(w, Free)
  <2>1. active[w].gone \in BOOLEAN
    BY <1>1 DEF Leases
  <2>2. QED
    BY <1>1, <1>2, <1>5, <2>1, UncertainKeeps DEF service, ServiceMoves, Quiet, DocKept, TypeOK
<1>6. CASE Fault /\ Uncertain(w, active[w].gone) /\ Now(w, Free) /\ Answer(w) = "ok" /\ Store(w)
  <2>1. active[w].gone \in BOOLEAN
    BY <1>1 DEF Leases
  <2>2. /\ Stores(w) /\ doc' \in Docs /\ uploaded' \in Docs /\ etag' \in Nat /\ DocKept' /\ uploaded \subseteq uploaded'
        /\ leased' = leased
    BY <1>1, <1>2, <1>6, StoreAdds
  <2>3. QED
    BY <1>1, <1>2, <1>6, <2>1, <2>2, UncertainKeeps DEF ServiceMoves
<1>7. QED
  BY <1>3, <1>4, <1>5, <1>6 DEF Upload

LEMMA RebuildKeeps ==
    ASSUME IInv, NEW w \in Web, Rebuild(w)
    PROVE  IInv'
<1> USE DEF IInv
<1>1. /\ job[w].step = "rebuild" /\ active[w].held /\ active[w] \in Leases /\ WebSound(w) /\ Trusted(w)
      /\ active[w].pending = NoDoc
  BY HeldLease DEF Rebuild, Step, WebSound, JobSound, Recovering
<1>2. CASE /\ Answered /\ Replaced(w)
           /\ active' = [active EXCEPT ![w].alien = FALSE, ![w].block = "none", ![w].gone = FALSE]
           /\ Recovered(w)
  <2> DEFINE a == [active[w] EXCEPT !.alien = FALSE, !.block = "none", !.gone = FALSE]
  <2>1. a \in Leases /\ active' = [active EXCEPT ![w] = a] /\ active'[w] = a
    BY <1>1, <1>2 DEF Leases, TypeOK
  <2>2. /\ a.held /\ a.valid = active[w].valid /\ a.etag = active[w].etag /\ a.seen = active[w].seen /\ a.pending = NoDoc
        /\ a.block = "none" /\ ~a.alien /\ ~active[w].alien /\ a.doomed = active[w].doomed
        /\ a.releasePending = active[w].releasePending
    BY <1>1 DEF Leases, WebSound, LeaseSound, Trusted
  <2>3. active[w].seen \in Docs /\ UsersTyped
    BY <1>1, <1>2, GrantedTyped DEF Leases, Recovered, Kinds
  <2> HIDE DEF a
  <2>4. TypeOK'
    <3>1. local' \in [Web -> Docs] /\ left' \in [Web -> BOOLEAN]
      BY <1>2, <2>3 DEF Replaced, TypeOK
    <3>2. QED
      BY <1>2, <2>1, <2>3, <3>1, JobTypes DEF Rebuild, TypeOK, Now, Answered, Recovered, UsersTyped, service
  <2>5. local'[w] = active[w].seen /\ job'[w] = Free
    BY <1>2 DEF TypeOK, Now, Replaced, Recovered
  <2>6. WebSound(w)'
    BY <1>1, <2>1, <2>2, <2>5, JobTypes DEF WebSound, LeaseSound, JobSound, ContentSound, Trusted, Recovering,
        Step,
        service, Rebuild
  <2>7. QED
    BY <1>2, <2>1, <2>4, <2>6, Assembled DEF Rebuild, Now, Replaced, Recovered, ServiceMoves, Quiet, DocKept,
        service, TypeOK
<1>3. CASE /\ Unfit(w)
           /\ active' = [active EXCEPT ![w].block = "failed"]
           /\ Now(w, [step |-> "release", request |-> FALSE]) /\ UNCHANGED <<local, left, users>>
  <2> DEFINE a == [active[w] EXCEPT !.block = "failed"]
  <2>1. a \in Leases /\ active' = [active EXCEPT ![w] = a]
    BY <1>1, <1>3 DEF Leases, TypeOK
  <2>2. TypeOK'
    <3>1. UsersTyped /\ faults' \in 0..scenario.faults
      BY <1>3, UsersUnchanged, SyncAssumption DEF Unfit, Answered, Fault, TypeOK
    <3>2. job' \in [Web -> Jobs]
      BY <1>3, JobTypes DEF Now, TypeOK
    <3>3. active' \in [Web -> Leases \cup {NoLease}]
      BY <2>1 DEF TypeOK
    <3>4. UNCHANGED <<service, blocked, local, left, enrolled, written, abandoned>>
      BY <1>3 DEF Rebuild
    <3>5. QED
      BY <3>1, <3>2, <3>3, <3>4 DEF TypeOK, UsersTyped, service
  <2>3. active'[w] = a /\ job'[w] = [step |-> "release", request |-> FALSE]
    BY <1>3, <2>1 DEF TypeOK, Now
  <2>4. WebSound(w)'
    BY <1>1, <1>3, <2>3 DEF WebSound, LeaseSound, JobSound, ContentSound, Trusted, Recovering, Step, service,
        Rebuild
  <2>5. QED
    BY <1>3, <2>2, <2>4, Assembled DEF Rebuild, Now, ServiceMoves, Quiet, DocKept, service, TypeOK
<1>4. QED
  BY <1>2, <1>3 DEF Rebuild

LEMMA ReacquireKeeps ==
    ASSUME IInv, NEW w \in Web, Reacquire(w)
    PROVE  IInv'
<1> USE DEF IInv
<1>1. /\ job[w].step = "reacquire" /\ active[w].held /\ active[w] \in Leases /\ WebSound(w) /\ Trusted(w)
      /\ active[w].block = "uncertain"
  BY HeldLease DEF Reacquire, Step, WebSound, JobSound, Recovering
<1>2. etag \in Nat /\ (doc # NoDoc => doc \subseteq uploaded)
  BY DEF TypeOK, DocKept
<1>3. UNCHANGED <<doc, etag, uploaded, users, files>>
  BY DEF Reacquire
<1>4. CASE Answered /\ Grantable /\ leased' = w /\ active[w].etag = etag /\ UNCHANGED blocked
           /\ active' = [active EXCEPT ![w].valid = TRUE, ![w].seen = IF active[w].pending = NoDoc THEN doc ELSE @]
           /\ Now(w, [step |-> IF active[w].pending = NoDoc THEN "rebuild" ELSE "reupload", for |-> "change"])
  <2> DEFINE a == [active[w] EXCEPT !.valid = TRUE]
             j == [step |-> IF active[w].pending = NoDoc THEN "rebuild" ELSE "reupload", for |-> "change"]
  <2>1. a \in Leases
    BY <1>1 DEF Leases
  <2>2. active[w].seen = doc /\ a = [active[w] EXCEPT !.valid = TRUE, !.seen = active[w].seen]
    BY <1>1, <1>4 DEF Leases, WebSound, LeaseSound, ContentSound, Trusted, Grantable
  <2>21. active' = [active EXCEPT ![w] = [active[w] EXCEPT !.valid = TRUE, !.seen = active[w].seen]]
    BY <1>4, <2>2 DEF TypeOK
  <2>3. active' = [active EXCEPT ![w] = a] /\ active'[w] = a
    BY <2>2, <2>21 DEF TypeOK
  <2>4. /\ a.held /\ a.etag = active[w].etag /\ a.seen = active[w].seen /\ a.pending = active[w].pending
        /\ a.block = "uncertain" /\ a.doomed = active[w].doomed /\ a.releasePending = active[w].releasePending
        /\ a.alien = active[w].alien
    BY <1>1 DEF Leases
  <2>5. j \in Jobs /\ j.step = (IF active[w].pending = NoDoc THEN "rebuild" ELSE "reupload")
    BY JobTypes
  <2> HIDE DEF a, j
  <2>6. blocked' = blocked
    BY <1>4 DEF TypeOK
  <2>7. job' = [job EXCEPT ![w] = j] /\ job'[w] = j
    BY <1>4 DEF Now, TypeOK, j
  <2>8. TypeOK'
    BY <1>3, <1>4, <2>1, <2>3, <2>5, <2>6, <2>7, Constants DEF TypeOK, Answered, users, files
  <2>9. LeaseSound(w)'
    BY <1>1, <1>3, <1>4, <2>3, <2>4, <2>5, <2>7 DEF LeaseSound, WebSound, Grantable, Step, Trusted
  <2>10. JobSound(w)'
    BY <1>1, <2>3, <2>4, <2>5, <2>7 DEF JobSound, Trusted, Recovering, Step
  <2>11. ContentSound(w)'
    BY <1>1, <1>3, <2>3, <2>4, <2>5, <2>7 DEF ContentSound, WebSound, Trusted, files
  <2>12. QED
    BY <1>3, <1>4, <2>3, <2>7, <2>8, <2>9, <2>10, <2>11, Assembled DEF WebSound, ServiceMoves, Grants, Grantable,
        DocKept, files, TypeOK
<1>5. CASE Answered /\ Grantable /\ leased' = w /\ active[w].etag # etag /\ Now(w, Free)
           /\ active' = [active EXCEPT ![w].valid = TRUE, ![w].etag = etag, ![w].alien = TRUE,
                            ![w].block = "conflict", ![w].doomed = TRUE]
           /\ blocked' = [blocked EXCEPT ![w] = "conflict"]
  <2> DEFINE a == [active[w] EXCEPT !.valid = TRUE, !.etag = etag, !.alien = TRUE, !.block = "conflict", !.doomed = TRUE]
  <2>2. a \in Leases
    BY <1>1, <1>2 DEF Leases
  <2>3. active' = [active EXCEPT ![w] = a] /\ active'[w] = a
    BY <1>5 DEF TypeOK
  <2>4. /\ a.held /\ a.etag = etag /\ a.seen = active[w].seen /\ a.block = "conflict" /\ a.doomed /\ a.alien
        /\ a.pending = active[w].pending /\ a.releasePending = active[w].releasePending
    BY <1>1 DEF Leases
  <2> HIDE DEF a
  <2>5. job' = [job EXCEPT ![w] = Free] /\ job'[w] = Free
    BY <1>5 DEF Now, TypeOK
  <2>6. TypeOK'
    BY <1>3, <1>5, <2>2, <2>3, <2>5, JobTypes, Constants DEF TypeOK, Answered, users, files
  <2>71. doc' = doc /\ etag' = etag /\ uploaded' = uploaded /\ leased' = w /\ doc # NoDoc /\ active[w].seen \subseteq uploaded
    BY <1>1, <1>3, <1>5 DEF WebSound, LeaseSound, Grantable
  <2>7. LeaseSound(w)'
    BY <1>2, <2>3, <2>4, <2>71 DEF LeaseSound
  <2>8. JobSound(w)'
    BY <2>3, <2>4, <2>5, JobTypes DEF JobSound, Recovering, Step
  <2>9. ContentSound(w)'
    BY <1>1, <1>3, <2>3, <2>4, <2>5 DEF ContentSound, WebSound, Trusted, files
  <2>10. QED
    BY <1>3, <1>5, <2>3, <2>5, <2>6, <2>7, <2>8, <2>9, Assembled DEF WebSound, ServiceMoves, Grants, Grantable,
        DocKept, files, TypeOK
<1>6. CASE \E b \in {"uncertain", "taken"} :
             /\ (Answered \/ Fault) /\ Now(w, Free) /\ UNCHANGED blocked
             /\ leased' \in {leased, IF Grantable THEN w ELSE leased}
             /\ active' = [active EXCEPT ![w].block = b]
  <2>1. PICK b \in {"uncertain", "taken"} : active' = [active EXCEPT ![w].block = b]
    BY <1>6
  <2> DEFINE a == [active[w] EXCEPT !.block = b]
  <2>2. a \in Leases
    BY <1>1 DEF Leases
  <2>3. active' = [active EXCEPT ![w] = a] /\ active'[w] = a
    BY <2>1 DEF TypeOK
  <2>4. /\ a.held /\ a.valid = active[w].valid /\ a.etag = active[w].etag /\ a.seen = active[w].seen
        /\ a.pending = active[w].pending /\ a.block = b /\ a.doomed = active[w].doomed
        /\ a.alien = active[w].alien /\ a.releasePending = active[w].releasePending
    BY <1>1 DEF Leases
  <2> HIDE DEF a
  <2>5. job' = [job EXCEPT ![w] = Free] /\ job'[w] = Free
    BY <1>6 DEF Now, TypeOK
  <2>61. faults' \in 0..scenario.faults /\ leased' \in Clients \cup {NoWeb}
    BY <1>6, SyncAssumption, Constants DEF Answered, Fault, TypeOK
  <2>6. TypeOK'
    BY <1>3, <1>6, <2>2, <2>3, <2>5, <2>61, JobTypes DEF TypeOK, users, files
  <2>7. LeaseSound(w)'
    BY <1>1, <1>3, <1>6, <2>3, <2>4 DEF LeaseSound, WebSound, Grantable, Trusted
  <2>8. JobSound(w)'
    BY <2>3, <2>4, <2>5, JobTypes DEF JobSound, Recovering, Step
  <2>9. ContentSound(w)'
    BY <1>1, <1>3, <2>3, <2>4, <2>5 DEF ContentSound, WebSound, Trusted, files
  <2>10. QED
    BY <1>3, <1>6, <2>3, <2>5, <2>6, <2>7, <2>8, <2>9, Assembled DEF WebSound, ServiceMoves, Grants, Quiet,
        Grantable,
        DocKept, files, TypeOK
<1>7. ASSUME active' = active PROVE active' = [active EXCEPT ![w].block = "uncertain"]
  <2>1. [active[w] EXCEPT !.block = "uncertain"] = active[w]
    BY <1>1 DEF Leases
  <2>2. QED
    BY <1>7, <2>1 DEF TypeOK
<1>8. CASE /\ Answered /\ ~Grantable /\ Now(w, Free) /\ UNCHANGED <<leased, blocked>>
           /\ active' = [active EXCEPT ![w].block = IF doc = NoDoc THEN @ ELSE "taken"]
  BY <1>1, <1>6, <1>8
<1>9. QED
  BY <1>4, <1>5, <1>6, <1>7, <1>8 DEF Reacquire

LEMMA CommitKeeps ==
    ASSUME IInv, NEW w \in Web, Commit(w)
    PROVE  IInv'
<1> USE DEF IInv
<1>1. /\ job[w] = Free /\ WebSound(w) /\ UNCHANGED <<service, turn, scenario, local, enrolled, written, abandoned>>
  BY DEF Commit, Idle
<1>11. PICK by \in {"change", "agent", "request"} :
        /\ Settling(w, by)
        /\ \/ Answered /\ ~active[w].held /\ UNCHANGED <<active, blocked, job, giveUp>>
           \/ /\ Answered /\ active[w].held /\ UNCHANGED blocked
              /\ active' = [active EXCEPT ![w].pending = Normalized(w)]
              /\ IF active[w].block # "none" THEN UNCHANGED job /\ Fails(w, by = "request")
                 ELSE /\ Now(w, [step |-> IF active[w].seen = local[w] THEN "release" ELSE "upload",
                                 request |-> by = "request"])
                      /\ UNCHANGED giveUp
           \/ Fault /\ active[w].held /\ MarkBlocked(w, "failed") /\ UNCHANGED job /\ Fails(w, by = "request")
  BY DEF Commit
<1>12. UsersTyped /\ FilesTyped
  <2>1. giveUp' \in [Web -> BOOLEAN]
    <3>1. (by = "request") \in BOOLEAN
      OBVIOUS
    <3>2. Fails(w, by = "request") \/ giveUp' = giveUp
      BY <1>11
    <3>3. QED
      BY <3>1, <3>2, FailsTyped
  <2>2. /\ change' \in [Web -> {"none", "run", "local", "settle", "abandon"}] /\ settle' \in [Web -> BOOLEAN]
        /\ finish' \in [Web -> BOOLEAN]
    BY <1>11 DEF Settling, TypeOK
  <2>3. left' \in [Web -> BOOLEAN]
    <3>1. left \in [Web -> BOOLEAN] /\ (left[w] /\ ~active[w].held) \in BOOLEAN
      BY DEF TypeOK
    <3>2. QED
      BY <1>11, <3>1 DEF Settling
  <2>4. QED
    BY <1>1, <2>1, <2>2, <2>3 DEF UsersTyped, FilesTyped, TypeOK
<1>2. CASE Answered /\ ~active[w].held /\ UNCHANGED <<active, blocked, job>>
  <2>1. TypeOK'
    BY <1>1, <1>12, <1>2 DEF TypeOK, Answered, service, UsersTyped, FilesTyped
  <2>2. WebSound(w)'
    BY <1>1, <1>2 DEF WebSound, LeaseSound, JobSound, ContentSound, Trusted, Recovering, Step, service
  <2>3. QED
    BY <1>1, <1>2, <2>1, <2>2, Assembled DEF ServiceMoves, Quiet, DocKept, service
<1>3. CASE /\ Answered /\ active[w].held /\ UNCHANGED blocked
           /\ active' = [active EXCEPT ![w].pending = Normalized(w)]
           /\ IF active[w].block # "none" THEN UNCHANGED job
              ELSE Now(w, [step |-> IF active[w].seen = local[w] THEN "release" ELSE "upload", request |-> by = "request"])
  <2> DEFINE a == [active[w] EXCEPT !.pending = local[w]]
             r == by = "request"
             j == IF active[w].block # "none" THEN Free
                  ELSE [step |-> IF active[w].seen = local[w] THEN "release" ELSE "upload", request |-> r]
  <2>1. active[w] \in Leases /\ local[w] \in Docs /\ local[w] # NoDoc
    BY <1>3, HeldLease, Constants DEF TypeOK
  <2>2. a \in Leases
    BY <2>1 DEF Leases
  <2>3. active' = [active EXCEPT ![w] = a] /\ active'[w] = a
    BY <1>3 DEF TypeOK, Normalized
  <2>4. /\ a.held /\ a.valid = active[w].valid /\ a.etag = active[w].etag /\ a.seen = active[w].seen
        /\ a.pending = local[w] /\ a.block = active[w].block /\ a.doomed = active[w].doomed
        /\ a.releasePending = active[w].releasePending /\ a.alien = active[w].alien
    BY <2>1 DEF Leases
  <2>51. r \in BOOLEAN
    OBVIOUS
  <2>6. job' = [job EXCEPT ![w] = j] /\ job'[w] = j
    BY <1>1, <1>3 DEF Now, TypeOK
  <2> HIDE DEF r
  <2>5. /\ j \in Jobs
        /\ j.step = IF active[w].block # "none" THEN "free"
                      ELSE IF active[w].seen = local[w] THEN "release" ELSE "upload"
    BY <2>51, JobTypes
  <2> HIDE DEF a, j
  <2>7. TypeOK'
    BY <1>1, <1>12, <1>3, <2>2, <2>3, <2>5, <2>6 DEF TypeOK, Answered, service, UsersTyped, FilesTyped
  <2>12. job[w].step = "free" /\ doc' = doc /\ etag' = etag /\ leased' = leased /\ uploaded' = uploaded /\ local' = local
    BY <1>1, JobTypes DEF service
  <2>13. j.step = "free" => active[w].block # "none"
    BY <2>5
  <2>14. LeaseSound(w)
    BY <1>1 DEF WebSound
  <2>15. ContentSound(w)
    BY <1>1 DEF WebSound
  <2>8. LeaseSound(w)'
    BY <2>14, <1>3, <2>12, <2>13, <2>3, <2>4, <2>6 DEF LeaseSound, Step
  <2>9. JobSound(w)'
    BY <2>1, <2>3, <2>4, <2>5, <2>6 DEF JobSound, Recovering, Step
  <2>10. ContentSound(w)'
    BY <2>15, <1>3, <2>12, <2>3, <2>4 DEF ContentSound
  <2>11. QED
    BY <1>1, <2>3, <2>6, <2>7, <2>8, <2>9, <2>10, Assembled DEF WebSound, ServiceMoves, Quiet, DocKept,
        service, TypeOK
<1>4. CASE Fault /\ active[w].held /\ MarkBlocked(w, "failed") /\ UNCHANGED job
  <2>1. Now(w, Free)
    BY <1>1, <1>4 DEF Now, TypeOK
  <2>2. QED
    BY <1>1, <1>12, <1>4, <2>1, BlockedKeeps, JobTypes
<1>5. QED
  BY <1>11, <1>2, <1>3, <1>4

LEMMA ReleasesKeep ==
    ASSUME IInv, NEW w \in Web, Release(w) \/ GiveUp(w) \/ ReleaseDoomed(w) \/ HeartbeatRelease(w)
    PROVE  IInv'
<1> USE DEF IInv
<1>1. WebSound(w)
  OBVIOUS
<1>2. CASE Release(w)
  <2>1. active[w].held /\ job[w].request \in BOOLEAN /\ blocked' = blocked
    BY <1>1, <1>2, JobOf DEF Release, WebSound, JobSound, Step, TypeOK
  <2>2. giveUp' \in [Web -> BOOLEAN]
    BY <1>2, <2>1, FailsTyped DEF Release
  <2>3. UsersTyped /\ FilesTyped
    BY <1>2, <2>2, FilesUnchanged DEF Release, UsersTyped, TypeOK
  <2>4. QED
    BY <1>2, <2>1, <2>3, ReleasedKeeps, UnreleasedKeeps, JobTypes DEF Release
<1>3. CASE GiveUp(w)
  <2>1. UsersTyped
    BY <1>3 DEF GiveUp, TypeOK, UsersTyped
  <2>11. FilesTyped
    <3>1. active[w].held /\ active[w].pending # NoDoc => active[w].pending \in Docs
      BY HeldLease DEF Leases
    <3>2. abandoned \in [Web -> Docs]
      BY DEF TypeOK
    <3>3. abandoned' \in [Web -> Docs]
      BY <1>3, <3>1, <3>2 DEF GiveUp, Docs
    <3>4. QED
      BY <1>3, <3>3 DEF GiveUp, TypeOK, FilesTyped
  <2>2. CASE active[w].held
    BY <1>3, <2>1, <2>11, <2>2, ReleaseCallKeeps DEF GiveUp
  <2>3. CASE ~active[w].held
    <3>1. UNCHANGED <<service, active, job, faults, blocked>>
      BY <1>3, <2>3 DEF GiveUp
    <3>2. TypeOK'
      BY <2>1, <2>11, <3>1 DEF TypeOK, service, UsersTyped, FilesTyped
    <3>3. WebSound(w)'
      BY <1>1, <2>11, <3>1 DEF WebSound, LeaseSound, JobSound, ContentSound, Trusted, Recovering, Step,
          service, FilesTyped
    <3>4. QED
      BY <2>11, <3>1, <3>2, <3>3, Assembled DEF ServiceMoves, Quiet, DocKept, service, FilesTyped
  <2>4. QED
    BY <2>2, <2>3
<1>4. CASE ReleaseDoomed(w)
  BY <1>4, ReleaseCallKeeps, UsersUnchanged, FilesUnchanged DEF ReleaseDoomed, Doomed
<1>5. CASE HeartbeatRelease(w)
  BY <1>5, ReleasedKeeps, UnreleasedKeeps, JobTypes, UsersUnchanged, FilesUnchanged DEF HeartbeatRelease, Beats
<1>6. QED
  BY <1>2, <1>3, <1>4, <1>5

LEMMA ReleaseFirstKeeps ==
    ASSUME IInv, NEW w \in Web, NEW k \in Kinds, ReleaseFirst(w, k)
    PROVE  IInv'
<1> USE DEF IInv
<1> DEFINE j == IF blocked[w] = "none" THEN [step |-> "acquire", for |-> k] ELSE Free
<1>1. j \in Jobs /\ j.step \in {"free", "acquire"}
  BY JobTypes
<1>2. active[w].held /\ (Released(w, j) \/ Unreleased(w, FALSE, Free)) /\ UNCHANGED <<blocked, users, files>>
  BY DEF ReleaseFirst
<1> HIDE DEF j
<1>3. QED
  BY <1>1, <1>2, ReleasedKeeps, UnreleasedKeeps, UsersUnchanged, FilesUnchanged

\* A heartbeat may hide why a lease is to be released, but not that its version
\* is unknown.
LEMMA HeartbeatKeepsInv ==
    ASSUME IInv, NEW w \in Web, Heartbeat(w)
    PROVE  IInv'
<1> USE DEF IInv
<1> DEFINE b == IF active[w].block = "uncertain" /\ ~active[w].releasePending THEN "none" ELSE active[w].block
<1>1. /\ WebSound(w) /\ active[w].held /\ active[w] \in Leases /\ job[w].step \in {"free", "beat"}
      /\ UNCHANGED <<service, users, files>>
  BY HeldLease, JobTypes DEF Heartbeat, Beats, Idle, Step, WebSound, JobSound
<1>2. active[w].block \in {"none", "uncertain", "conflict", "missing", "taken", "failed"}
  BY <1>1 DEF Leases
<1>4. b \in {"none", "uncertain", "conflict", "missing", "taken", "failed"}
  BY <1>2
<1>5. CASE /\ Answered /\ Answer(w) = "ok"
           /\ active' = [active EXCEPT ![w].block = b]
           /\ Now(w, IF active[w].pending # NoDoc /\ b = "none" THEN [step |-> "upload", request |-> FALSE] ELSE Free)
           /\ UNCHANGED blocked
  <2> DEFINE a == [active[w] EXCEPT !.block = b]
             j == IF active[w].pending # NoDoc /\ b = "none" THEN [step |-> "upload", request |-> FALSE] ELSE Free
  <2>1. b = "none" => ~active[w].releasePending
    BY <1>1 DEF WebSound, LeaseSound
  <2>2. job' = [job EXCEPT ![w] = j] /\ job'[w] = j
    BY <1>5 DEF Now, TypeOK
  <2>3. j \in Jobs /\ j.step = IF active[w].pending # NoDoc /\ b = "none" THEN "upload" ELSE "free"
    BY JobTypes
  <2> HIDE DEF b, j
  <2>4. a \in Leases
    BY <1>1, <1>4 DEF Leases
  <2>5. active' = [active EXCEPT ![w] = a] /\ active'[w] = a
    BY <1>5 DEF TypeOK
  <2>6. /\ a.held /\ a.valid = active[w].valid /\ a.etag = active[w].etag /\ a.seen = active[w].seen
        /\ a.pending = active[w].pending /\ a.block = b /\ a.doomed = active[w].doomed
        /\ a.alien = active[w].alien /\ a.releasePending = active[w].releasePending
    BY <1>1 DEF Leases
  <2> HIDE DEF a
  <2>7. TypeOK'
    BY <1>1, <1>5, <2>2, <2>3, <2>4, <2>5 DEF TypeOK, Answered, service, users, files
  <2>8. LeaseSound(w)'
    BY <1>1, <1>4, <2>1, <2>2, <2>3, <2>5, <2>6 DEF LeaseSound, WebSound, Step, service
  <2>9. JobSound(w)'
    BY <2>2, <2>3, <2>5, <2>6 DEF JobSound, Recovering, Step
  <2>10. ContentSound(w)'
    BY <1>1, <1>4, <2>5, <2>6 DEF ContentSound, WebSound, Trusted, service, files
  <2>11. QED
    BY <1>1, <2>2, <2>5, <2>7, <2>8, <2>9, <2>10, Assembled DEF WebSound, ServiceMoves, Quiet, DocKept,
        service, files,
        TypeOK
<1>6. CASE /\ Answered /\ MarkBlocked(w, IF doc = NoDoc THEN "missing" ELSE "conflict") /\ Now(w, Free)
  <2>1. PICK why \in {"missing", "conflict"} : MarkBlocked(w, why)
    BY <1>6
  <2>2. QED
    BY <1>1, <1>6, <2>1, BlockedKeeps, UsersUnchanged, FilesUnchanged
<1>7. CASE /\ Answered \/ Fault
           /\ active' = [active EXCEPT ![w].block = "uncertain",
                            ![w].gone = Answer(w) = "gone" /\ faults' = faults]
           /\ Now(w, Free) /\ UNCHANGED blocked
  <2> DEFINE g == Answer(w) = "gone" /\ faults' = faults
             a == [active[w] EXCEPT !.block = "uncertain", !.gone = g]
  <2>1. g \in BOOLEAN
    OBVIOUS
  <2> HIDE DEF b, g
  <2>2. a \in Leases
    BY <1>1, <1>4, <2>1 DEF Leases
  <2>3. active' = [active EXCEPT ![w] = a] /\ active'[w] = a
    BY <1>7 DEF TypeOK, g
  <2>4. /\ a.held /\ a.valid = active[w].valid /\ a.etag = active[w].etag /\ a.seen = active[w].seen
        /\ a.pending = active[w].pending /\ a.block = "uncertain" /\ a.doomed = active[w].doomed
        /\ a.alien = active[w].alien /\ a.releasePending = active[w].releasePending
    BY <1>1 DEF Leases
  <2> HIDE DEF a
  <2>5. job' = [job EXCEPT ![w] = Free] /\ job'[w] = Free /\ faults' \in 0..scenario.faults
    BY <1>7, SyncAssumption DEF Now, TypeOK, Answered, Fault
  <2>6. TypeOK'
    BY <1>1, <1>7, <2>2, <2>3, <2>5, JobTypes DEF TypeOK, service, users, files
  <2>7. LeaseSound(w)'
    BY <1>1, <1>4, <2>3, <2>4 DEF LeaseSound, WebSound, service
  <2>8. JobSound(w)'
    BY <2>3, <2>4, <2>5, JobTypes DEF JobSound, Recovering, Step
  <2>9. ContentSound(w)'
    BY <1>1, <1>4, <2>3, <2>4, <2>5 DEF ContentSound, WebSound, Trusted, service, files
  <2>10. QED
    BY <1>1, <2>3, <2>5, <2>6, <2>7, <2>8, <2>9, Assembled DEF WebSound, ServiceMoves, Quiet, DocKept, service,
        files, TypeOK
<1>8. QED
  BY <1>5, <1>6, <1>7 DEF Heartbeat

\* Steps that touch neither the lease nor the task of a server.
LEMMA AskedKeeps ==
    ASSUME IInv, NEW w \in Web,
           \/ EnrolKnown(w) \/ EnrolNew(w) \/ WriteEntry(w) \/ ChangeEnds(w) \/ TurnEnds(w)
           \/ \E k \in Kinds : Unmanaged(w, k)
    PROVE  IInv'
<1> USE DEF IInv
<1>1. WebSound(w) /\ (active[w].held => active[w] \in Leases) /\ etag \in Nat
  BY HeldLease DEF TypeOK
<1>2. active' = active /\ job' = job /\ local[w] \subseteq local'[w] /\ \A v \in Web \ {w} : local'[v] = local[v]
  BY DEF EnrolKnown, EnrolNew, WriteEntry, ChangeEnds, TurnEnds, Unmanaged, files, TypeOK
<1>3. CASE EnrolNew(w)
  <2>1. local[w] \in Docs /\ local[w] # NoDoc
    BY Constants DEF TypeOK
  <2>2. doc' = local[w] /\ etag' = etag + 1 /\ uploaded' = uploaded \cup local[w] /\ leased' = leased /\ doc = NoDoc
    BY <1>3 DEF EnrolNew
  <2>30. uploaded \in Docs
    BY DEF TypeOK
  <2>33. uploaded' \in Docs
    BY <2>1, <2>2, <2>30 DEF Docs
  <2>3. doc' \in Docs /\ uploaded' \in Docs /\ etag' \in Nat
    BY <1>1, <2>1, <2>2, <2>33
  <2>31. faults' \in 0..scenario.faults
    BY <1>3, SyncAssumption DEF EnrolNew, Answered, Fault, TypeOK
  <2>32. enrolled' \in [Web -> BOOLEAN] /\ blocked' \in [Web -> {"none", "conflict", "missing", "failed"}]
    BY <1>3 DEF EnrolNew, MarkEnrolled, TypeOK
  <2>4. TypeOK'
    BY <1>3, <1>2, <2>2, <2>3, <2>31, <2>32 DEF EnrolNew, TypeOK, users
  <2>41. active[w].held => active[w].etag \in Nat
    BY <1>1 DEF Leases
  <2>42. active[w].held => active[w].etag <= etag /\ ~active[w].valid
    BY <1>1, <2>2 DEF WebSound, LeaseSound
  <2>5. active[w].held => active[w].etag # etag' /\ ~active[w].valid /\ active[w].etag <= etag'
    BY <1>1, <2>2, <2>41, <2>42
  <2>6. LeaseSound(w)'
    BY <1>1, <1>2, <2>2, <2>5 DEF WebSound, LeaseSound, Step
  <2>7. JobSound(w)'
    BY <1>1, <1>2 DEF WebSound, JobSound, Step, Trusted, Recovering
  <2>8. ContentSound(w)'
    BY <1>1, <1>2, <2>5 DEF WebSound, ContentSound, Step, Trusted
  <2>9. QED
    BY <1>2, <2>1, <2>2, <2>4, <2>6, <2>7, <2>8, Assembled DEF WebSound, ServiceMoves, Enrols, DocKept
<1>4. CASE ~EnrolNew(w)
  <2>1. UNCHANGED service
    BY <1>4 DEF EnrolKnown, WriteEntry, ChangeEnds, TurnEnds, Unmanaged
  <2>7. TypeOK'
    <3>1. CASE EnrolKnown(w)
      BY <3>1 DEF EnrolKnown, MarkEnrolled, TypeOK, service, users, Docs
    <3>2. CASE WriteEntry(w)
      <4>1. written + 1 \in 1..MaxEntries
        BY <3>2, SyncAssumption DEF WriteEntry, TypeOK
      <4>2. local' \in [Web -> Docs] /\ written' \in 0..MaxEntries
        BY <3>2, <4>1 DEF WriteEntry, TypeOK, Docs
      <4>3. QED
        BY <3>2, <4>2 DEF WriteEntry, TypeOK, service, users
    <3>3. CASE ChangeEnds(w)
      <4>1. /\ change' \in [Web -> {"none", "run", "local", "settle", "abandon"}] /\ faults' \in 0..scenario.faults
            /\ abandoned' \in [Web -> Docs]
        BY <3>3, SyncAssumption DEF ChangeEnds, TypeOK, Fault, Docs
      <4>2. QED
        BY <3>3, <4>1 DEF ChangeEnds, TypeOK, service
    <3>4. CASE TurnEnds(w)
      <4>1. left' \in [Web -> BOOLEAN]
        <5>1. left \in [Web -> BOOLEAN] /\ (left[w] \/ turn[w] = "leased") \in BOOLEAN
          BY DEF TypeOK
        <5>2. QED
          BY <3>4, <5>1 DEF TurnEnds
      <4>2. QED
        BY <3>4, <4>1 DEF TurnEnds, TypeOK, service
    <3>5. CASE \E k \in Kinds : Unmanaged(w, k)
      BY <3>5 DEF Unmanaged, TypeOK, service, files
    <3>6. QED
      BY <1>4, <3>1, <3>2, <3>3, <3>4, <3>5
  <2>8. WebSound(w)'
    BY <1>1, <1>2, <2>1 DEF WebSound, LeaseSound, JobSound, ContentSound, Trusted, Recovering, Step, service
  <2>9. QED
    BY <1>2, <2>1, <2>7, <2>8, Assembled DEF ServiceMoves, Quiet, DocKept, service
<1>5. QED
  BY <1>3, <1>4

LEMMA StartKeeps ==
    ASSUME IInv, NEW w \in Web, Recover(w) \/ \E k \in Kinds : Ask(w, k)
    PROVE  IInv'
<1> USE DEF IInv
<1>1. WebSound(w) /\ job[w] = Free /\ UNCHANGED <<service, active, blocked, users, files, faults>>
  BY DEF Recover, Ask, CanAsk, Idle
<1>2. CASE Recover(w)
  <2> DEFINE j == [step |-> IF active[w].gone THEN "reacquire" ELSE "renew", for |-> "change"]
  <2>1. j \in Jobs /\ j.step \in {"reacquire", "renew"}
    BY JobTypes
  <2>2. job' = [job EXCEPT ![w] = j] /\ job'[w] = j
    BY <1>2 DEF Recover, Now, TypeOK
  <2> HIDE DEF j
  <2>3. TypeOK'
    BY <1>1, <2>1, <2>2 DEF TypeOK, service, users, files
  <2>4. active[w].held /\ Trusted(w) /\ active[w].block = "uncertain"
    BY <1>2 DEF Recover, CanAsk, Doomed, Trusted
  <2>5. WebSound(w)'
    BY <1>1, <2>1, <2>2, <2>4, JobTypes DEF WebSound, LeaseSound, JobSound, ContentSound, Trusted, Recovering,
        Step,
        service, files
  <2>6. QED
    BY <1>1, <2>2, <2>3, <2>5, Assembled DEF ServiceMoves, Quiet, DocKept, service, files, TypeOK
<1>3. CASE \E k \in Kinds : Ask(w, k)
  <2>1. PICK k \in Kinds : Ask(w, k)
    BY <1>3
  <2> DEFINE j == [step |-> "acquire", for |-> k]
  <2>2. j \in Jobs /\ j.step = "acquire" /\ ~active[w].held
    BY <2>1, JobTypes DEF Ask
  <2>3. job' = [job EXCEPT ![w] = j] /\ job'[w] = j
    BY <2>1 DEF Ask, Now, TypeOK
  <2> HIDE DEF j
  <2>4. TypeOK'
    BY <1>1, <2>2, <2>3 DEF TypeOK, service, users, files
  <2>5. WebSound(w)'
    BY <1>1, <2>2, <2>3 DEF WebSound, LeaseSound, JobSound, ContentSound, Trusted, Recovering, Step, service,
        files
  <2>6. QED
    BY <1>1, <2>3, <2>4, <2>5, Assembled DEF ServiceMoves, Quiet, DocKept, service, files, TypeOK
<1>4. QED
  BY <1>2, <1>3

LEMMA RestartKeeps ==
    ASSUME IInv, NEW w \in Web, Restart(w)
    PROVE  IInv'
<1> USE DEF IInv
<1>1. /\ UNCHANGED <<service, scenario, local, enrolled, written>> /\ active' = [active EXCEPT ![w] = NoLease]
      /\ job' = [job EXCEPT ![w] = Free] /\ active'[w] = NoLease /\ job'[w] = Free
  BY DEF Restart, Now, TypeOK
<1>2. faults' \in 0..scenario.faults /\ abandoned' \in [Web -> Docs]
  BY SyncAssumption DEF Restart, Fault, TypeOK, Docs
<1>3. TypeOK'
  BY <1>1, <1>2, JobTypes DEF Restart, TypeOK, service
<1>4. WebSound(w)'
  BY <1>1, JobTypes DEF WebSound, LeaseSound, JobSound, ContentSound, Trusted, Recovering, Step, NoLease
<1>5. QED
  BY <1>1, <1>3, <1>4, Assembled DEF ServiceMoves, Quiet, DocKept, service, TypeOK

\* The service invalidates leases: one that ran out, or all when the
\* conversation is deleted.
LEMMA InvalidKeeps ==
    ASSUME IInv, Expire \/ Delete
    PROVE  IInv'
<1> USE DEF IInv
<1>1. PICK S \in SUBSET Web :
        /\ Invalid(S) /\ leased' = NoWeb /\ (leased \in Web => leased \in S)
        /\ doc' = doc \/ doc' = NoDoc
        /\ UNCHANGED <<etag, uploaded, blocked, job, users, files>> /\ (Answered \/ Fault)
  BY SyncAssumption DEF Expire, Delete
<1>2. doc' \in Docs \cup {NoDoc} /\ faults' \in 0..scenario.faults
  BY <1>1, SyncAssumption DEF TypeOK, Answered, Fault
<1>3. ASSUME NEW w \in Web, active[w].held
      PROVE  /\ active'[w] \in Leases /\ active'[w].held /\ ~active'[w].valid
             /\ \A f \in {"etag", "seen", "pending", "fresh", "gone", "doomed", "alien", "releasePending", "block"} : active'[w][f] = active[w][f]
  <2>1. active[w] \in Leases /\ WebSound(w)
    BY <1>3, HeldLease
  <2>2. CASE w \in S
    <3>1. active'[w] = [active[w] EXCEPT !.valid = FALSE]
      BY <1>1, <1>3, <2>2 DEF Invalid
    <3>2. QED
      BY ZenonT(40), <2>1, <3>1 DEF Leases
  <2>3. CASE w \notin S
    <3>1. active'[w] = active[w]
      BY <1>1, <2>3 DEF Invalid
    <3>2. ~active[w].valid
      BY <1>1, <1>3, <2>1, <2>3 DEF WebSound, LeaseSound
    <3>3. QED
      BY <1>3, <2>1, <3>1, <3>2
  <2>4. QED
    BY <2>2, <2>3
<1>4. ASSUME NEW w \in Web, ~active[w].held PROVE active'[w] = active[w]
  BY <1>1, <1>4 DEF Invalid
<1>5. ASSUME NEW w \in Web PROVE active'[w] \in Leases \cup {NoLease}
  BY <1>3, <1>4 DEF TypeOK
<1>6. active' \in [Web -> Leases \cup {NoLease}]
  BY <1>1, <1>5 DEF Invalid
<1>7. TypeOK'
  BY <1>1, <1>2, <1>6 DEF TypeOK, users, files
<1>8. ASSUME NEW w \in Web PROVE WebSound(w)'
  <2>1. WebSound(w) /\ job' = job /\ local' = local /\ etag' = etag /\ uploaded' = uploaded
    BY <1>1 DEF files
  <2>2. CASE active[w].held
    <3>1. /\ active'[w].held /\ ~active'[w].valid /\ active'[w].etag = active[w].etag /\ active'[w].seen = active[w].seen
          /\ active'[w].pending = active[w].pending /\ active'[w].doomed = active[w].doomed
          /\ active'[w].alien = active[w].alien
          /\ active'[w].releasePending = active[w].releasePending /\ active'[w].block = active[w].block
      BY <1>3, <2>2
    <3>2. LeaseSound(w)'
      BY <2>1, <2>2, <3>1 DEF WebSound, LeaseSound, Step
    <3>3. JobSound(w)'
      BY <2>1, <2>2, <3>1 DEF WebSound, JobSound, Trusted, Recovering, Step
    <3>4. ContentSound(w)'
      BY <1>1, <2>1, <2>2, <3>1 DEF WebSound, ContentSound, Trusted
    <3>5. QED
      BY <3>2, <3>3, <3>4 DEF WebSound
  <2>3. CASE ~active[w].held
    BY <1>4, <2>1, <2>3 DEF WebSound, LeaseSound, JobSound, ContentSound, Trusted, Recovering, Step
  <2>4. QED
    BY <2>2, <2>3
<1>9. DocKept'
  BY <1>1 DEF DocKept
<1>10. QED
  BY <1>7, <1>8, <1>9

LEMMA PeerKeeps ==
    ASSUME IInv, PeerStep
    PROVE  IInv'
<1> USE DEF IInv
<1>1. UNCHANGED <<active, blocked, job, users, local, enrolled, abandoned, left, faults>> /\ leased \in {NoWeb, Peer}
  BY DEF PeerStep
<1>2. CASE UNCHANGED <<doc, etag, uploaded, written>> /\ leased' \in {NoWeb, Peer}
  <2>1. TypeOK'
    BY <1>1, <1>2 DEF TypeOK, users, Clients
  <2>2. ASSUME NEW w \in Web PROVE WebSound(w)'
    <3>1. WebSound(w) /\ (active[w].held => ~active[w].valid)
      BY <1>1, SyncAssumption DEF WebSound, LeaseSound
    <3>2. QED
      BY <1>1, <1>2, <3>1 DEF WebSound, LeaseSound, JobSound, ContentSound, Trusted, Recovering, Step
  <2>3. QED
    BY <1>2, <2>1, <2>2 DEF DocKept
<1>3. CASE /\ leased = Peer /\ written < MaxEntries /\ written' = written + 1 /\ doc # NoDoc
           /\ doc' = doc \cup {written + 1} /\ uploaded' = uploaded \cup {written + 1}
           /\ etag' = etag + 1 /\ UNCHANGED leased
  <2>1. written' \in 0..MaxEntries /\ written + 1 \in 1..MaxEntries /\ etag \in Nat /\ etag' \in Nat
    BY <1>3, SyncAssumption DEF TypeOK
  <2>2. doc' \in Docs /\ uploaded' \in Docs
    BY <1>3, <2>1 DEF TypeOK, Docs
  <2>3. TypeOK'
    BY <1>1, <1>3, <2>1, <2>2 DEF TypeOK, users
  <2>4. ASSUME NEW w \in Web PROVE WebSound(w)'
    <3>1. WebSound(w) /\ (active[w].held => ~active[w].valid)
      BY <1>1, SyncAssumption DEF WebSound, LeaseSound
    <3>2. active[w].held => active[w].etag \in Nat
      BY HeldLease DEF Leases
    <3>3. active[w].held => active[w].etag <= etag
      BY <3>1 DEF WebSound, LeaseSound
    <3>4. active[w].held => active[w].etag <= etag' /\ active[w].etag # etag'
      BY <1>3, <2>1, <3>2, <3>3
    <3>5. LeaseSound(w)'
      BY <1>1, <1>3, <3>1, <3>4 DEF WebSound, LeaseSound, Step
    <3>6. JobSound(w)'
      BY <1>1, <3>1 DEF WebSound, JobSound, Trusted, Recovering, Step
    <3>7. ContentSound(w)'
      BY <1>1, <3>1, <3>4 DEF WebSound, ContentSound, Trusted, Step
    <3>8. QED
      BY <3>5, <3>6, <3>7 DEF WebSound
  <2>5. DocKept'
    BY <1>3 DEF DocKept
  <2>6. QED
    BY <2>3, <2>4, <2>5
<1>4. QED
  BY <1>2, <1>3 DEF PeerStep

LEMMA NextKeeps ==
    ASSUME IInv, [Next]_vars
    PROVE  IInv'
<1>1. CASE UNCHANGED vars
  BY <1>1 DEF IInv, TypeOK, DocKept, WebSound, LeaseSound, JobSound, ContentSound, Trusted, Recovering, Step,
      vars, service, users, files
<1>2. CASE Expire \/ Delete
  BY <1>2, InvalidKeeps
<1>3. CASE PeerStep
  BY <1>3, PeerKeeps
<1>4. ASSUME NEW w \in Web, Work(w) PROVE IInv'
  BY <1>4, AcquireKeeps, MaterializeKeeps, RenewKeeps, ResendKeeps, ReacquireKeeps, RebuildKeeps, CommitKeeps,
      UploadKeeps, ReleasesKeep, HeartbeatKeepsInv DEF Work
<1>5. ASSUME NEW w \in Web, Asked(w) PROVE IInv'
  BY <1>5, StartKeeps, AskedKeeps, RestartKeeps, ReleaseFirstKeeps, JoinKeeps DEF Asked
<1>6. QED
  BY <1>1, <1>2, <1>3, <1>4, <1>5 DEF Next

LEMMA InitHolds == Init => IInv
<1> SUFFICES ASSUME Init PROVE IInv
  OBVIOUS
<1>1. TypeOK
  <2>1. 0 \in 0..MaxEntries /\ 0 \in 0..scenario.faults
    BY SyncAssumption DEF Init
  <2>2. QED
    BY <2>1, JobTypes DEF Init, TypeOK, Docs
<1>2. DocKept
  BY DEF Init, DocKept
<1>3. ASSUME NEW w \in Web PROVE WebSound(w)
  BY JobTypes DEF Init, WebSound, LeaseSound, JobSound, ContentSound, Recovering, Step, NoLease
<1>4. QED
  BY <1>1, <1>2, <1>3 DEF IInv

LEMMA Invariant == Spec => []IInv
<1>1. IInv /\ [Next]_vars => IInv'
  BY NextKeeps
<1>2. QED
  BY <1>1, InitHolds, PTL DEF Spec

\* Every variable keeps its type, the record of a lease and the task inside
\* _exclusive among them.
THEOREM TypeCorrect == Spec => []TypeOK
<1>1. IInv => TypeOK
  BY DEF IInv
<1>2. QED
  BY <1>1, Invariant, PTL

\* What a step of one server may do to what the bookkeeping of another is about.
OthersAlone(v) ==
    /\ uploaded \subseteq uploaded'
    /\ active'[v] = active[v] /\ job'[v] = job[v] /\ blocked'[v] = blocked[v]
    /\ change'[v] = change[v] /\ turn'[v] = turn[v] /\ settle'[v] = settle[v]
    /\ finish'[v] = finish[v] /\ giveUp'[v] = giveUp[v] /\ left'[v] = left[v]
    /\ enrolled'[v] = enrolled[v] /\ local'[v] = local[v] /\ abandoned'[v] = abandoned[v]

LEMMA OthersLeft ==
    ASSUME TypeOK, NEW w \in Web, NEW v \in Web, v # w, Work(w) \/ Asked(w)
    PROVE  OthersAlone(v)
<1>1. /\ v \in Web /\ w \in Web /\ v # w
      /\ active \in [Web -> Leases \cup {NoLease}]
      /\ DOMAIN job = Web /\ DOMAIN blocked = Web /\ DOMAIN change = Web /\ DOMAIN turn = Web /\ DOMAIN settle = Web
      /\ DOMAIN finish = Web /\ DOMAIN giveUp = Web /\ DOMAIN left = Web
      /\ DOMAIN enrolled = Web /\ DOMAIN local = Web /\ DOMAIN abandoned = Web
  BY DEF TypeOK
<1>2. CASE Acquire(w)
  BY <1>1, <1>2 DEF OthersAlone, Acquire, users, files, Answered, Fault, Now
<1>3. CASE Materialize(w)
  BY <1>1, <1>3 DEF OthersAlone, Materialize, service, users, Answered, Now, Granted, Prompted, Unstreamed,
      Stopped, Refused,
      Unfit, Replaced, Fault
<1>4. CASE Renew(w)
  BY <1>1, <1>4 DEF OthersAlone, Renew, service, users, files, Answered, Fault, Now, Uncertain, Recovered, Fixed,
      StillUncertain, Granted, Prompted, Unstreamed, Stopped, Refused
<1>5. CASE Resend(w)
  BY <1>1, <1>5 DEF OthersAlone, Resend, service, users, files, Answered, Fault, Now, Store, Uncertain, Recovered,
      StillUncertain, Granted, Prompted, Unstreamed, Stopped, Refused
<1>6. CASE Reacquire(w)
  BY <1>1, <1>6 DEF OthersAlone, Reacquire, users, files, Answered, Fault, Now
<1>7. CASE Reupload(w)
  BY <1>1, <1>7 DEF OthersAlone, Reupload, service, users, files, Answered, Fault, Now, Store, MarkBlocked,
      Uncertain,
      Recovered, StillUncertain, Granted, Prompted, Unstreamed, Stopped, Refused
<1>8. CASE Rebuild(w)
  BY <1>1, <1>8 DEF OthersAlone, Rebuild, service, users, Answered, Now, Unfit, Replaced, Recovered, Fault,
      Granted, Prompted, Unstreamed, Stopped, Refused
<1>9. CASE Commit(w)
  BY <1>1, <1>9 DEF OthersAlone, Commit, Settling, Fails, service, Answered, Fault, Now, MarkBlocked
<1>10. CASE Upload(w)
  BY <1>1, <1>10 DEF OthersAlone, Upload, Fails, service, files, Answered, Fault, Now, Store, MarkBlocked,
      Uncertain
<1>11. CASE Release(w)
  BY <1>1, <1>11 DEF OthersAlone, Release, Fails, files, Released, Unreleased, Answered, Now, Fault
<1>12. CASE GiveUp(w)
  BY <1>1, <1>12 DEF OthersAlone, GiveUp, service, ReleaseCall, Released, Unreleased, Answered, Now, Fault
<1>13. CASE ReleaseDoomed(w)
  BY <1>1, <1>13 DEF OthersAlone, ReleaseDoomed, users, files, ReleaseCall, Released, Unreleased, Answered,
      Now, Fault
<1>14. CASE HeartbeatRelease(w)
  BY <1>1, <1>14 DEF OthersAlone, HeartbeatRelease, users, files, Released, Unreleased, Answered, Now, Fault
<1>15. CASE Heartbeat(w)
  BY <1>1, <1>15 DEF OthersAlone, Heartbeat, service, users, files, Answered, Fault, Now, MarkBlocked
<1>16. CASE Recover(w)
  BY <1>1, <1>16 DEF OthersAlone, Recover, service, users, files, Now
<1>17. CASE EnrolKnown(w)
  BY <1>1, <1>17 DEF OthersAlone, EnrolKnown, service, users, MarkEnrolled
<1>18. CASE EnrolNew(w)
  BY <1>1, <1>18 DEF OthersAlone, EnrolNew, users, Answered, Fault, MarkEnrolled
<1>19. CASE WriteEntry(w)
  BY <1>1, <1>19 DEF OthersAlone, WriteEntry, service, users
<1>20. CASE ChangeEnds(w)
  BY <1>1, <1>20 DEF OthersAlone, ChangeEnds, service, Fault
<1>21. CASE TurnEnds(w)
  BY <1>1, <1>21 DEF OthersAlone, TurnEnds, service
<1>22. CASE Restart(w)
  BY <1>1, <1>22 DEF OthersAlone, Restart, service, Fault, Now
<1>23. ASSUME NEW k \in Kinds, ReleaseFirst(w, k) PROVE OthersAlone(v)
  BY <1>1, <1>23 DEF OthersAlone, ReleaseFirst, users, files, Released, Unreleased, Answered, Now, Fault
<1>24. ASSUME NEW k \in Kinds, Join(w, k) PROVE OthersAlone(v)
  BY <1>1, <1>24 DEF OthersAlone, Join, service, files, Granted, Prompted, Unstreamed, Stopped, Refused
<1>25. ASSUME NEW k \in Kinds, Unmanaged(w, k) PROVE OthersAlone(v)
  BY <1>1, <1>25 DEF OthersAlone, Unmanaged, service, files
<1>26. ASSUME NEW k \in Kinds, Ask(w, k) PROVE OthersAlone(v)
  BY <1>1, <1>26 DEF OthersAlone, Ask, service, users, files, Now
<1>27. QED
  BY <1>2, <1>3, <1>4, <1>5, <1>6, <1>7, <1>8, <1>9, <1>10, <1>11, <1>12, <1>13, <1>14, <1>15, <1>16, <1>17,
      <1>18,
      <1>19, <1>20, <1>21, <1>22, <1>23, <1>24, <1>25, <1>26 DEF Work, Asked

(***************************************************************************)
(* The refinement of CanonicalSession.                                     *)
(***************************************************************************)

\* The servers whose lease is for a version they do not know.
Mistaken == {w \in Web : active[w].held /\ active[w].alien}

LEMMA CanonicalService ==
    ASSUME IInv, NEW w \in Web, ServiceMoves(w), doc # NoDoc => doc \subseteq doc' \/ w \in Mistaken,
           Grants(w) => doc # NoDoc, Mistaken' \subseteq Mistaken \/ (Grants(w) /\ Mistaken' \subseteq Mistaken \cup {w})
    PROVE  [Canonical!Next]_<<doc, leased, Mistaken>>
<1>1. w \in Clients
  BY Constants
<1>2. CASE Grants(w)
  BY <1>1, <1>2 DEF Grants, Canonical!Next, Canonical!Lease, Mistaken
<1>3. CASE Stores(w) /\ ~Grants(w)
  BY <1>1, <1>3 DEF Stores, Canonical!Next, Canonical!Write, Mistaken
<1>4. CASE (Quiet \/ Frees(w)) /\ ~Grants(w)
  BY <1>4 DEF Quiet, Frees, Canonical!Next, Canonical!Free, Mistaken
<1>5. CASE Enrols /\ ~Grants(w)
  BY <1>5 DEF Enrols, Canonical!Next, Canonical!Enrol, Mistaken
<1>6. QED
  BY <1>2, <1>3, <1>4, <1>5 DEF ServiceMoves

\* Only a new lease may be for a version that the server does not know.
LEMMA MistakenKept ==
    ASSUME IInv, NEW w \in Web, Work(w) \/ Asked(w)
    PROVE  Mistaken' \subseteq Mistaken \/ (Grants(w) /\ Mistaken' \subseteq Mistaken \cup {w})
<1>1. \A v \in Web \ {w} : active'[v] = active[v]
  BY OthersLeft DEF IInv, OthersAlone
<1>2. active \in [Web -> Leases \cup {NoLease}] /\ (active[w].held => active[w] \in Leases)
  BY HeldLease DEF IInv, TypeOK
<1>3. ASSUME active'[w].held, active'[w].alien, ~(active[w].held /\ active[w].alien) PROVE Grants(w)
  <2>8. JobSound(w) /\ job[w] \in Jobs
    BY DEF IInv, WebSound, TypeOK
  <2>1. CASE Acquire(w) \/ Reacquire(w)
    <3>1. CASE Acquire(w)
      BY <1>2, <1>3, <3>1, SyncAssumption DEF Acquire, Grantable, Grants
    <3>2. CASE Reacquire(w)
      <4>1. active[w].held /\ active[w] \in Leases
        BY <1>2, <2>8, <3>2 DEF Reacquire, JobSound, Step
      <4>2. QED
        BY <1>2, <1>3, <3>2, <4>1, SyncAssumption DEF Reacquire, Grantable, Grants, Leases
    <3>3. QED
      BY <2>1, <3>1, <3>2
  <2>2. CASE \/ Materialize(w) \/ Renew(w) \/ Resend(w) \/ Reupload(w) \/ Rebuild(w)
    <3>1. active[w].held /\ active[w] \in Leases
      BY <1>2, <2>2, <2>8 DEF Materialize, Renew, Resend, Reupload, Rebuild, JobSound, Step
    <3>2. QED
      BY <1>2, <1>3, <2>2, <3>1 DEF Materialize, Renew, Resend, Reupload, Rebuild, Fixed, Uncertain,
          StillUncertain, MarkBlocked,
        Leases
  <2>3. CASE Commit(w) \/ Upload(w) \/ Heartbeat(w)
    <3>1. (active[w].held /\ active[w] \in Leases) \/ UNCHANGED active
      BY <1>2, <2>3, <2>8 DEF Commit, Upload, Heartbeat, Beats, JobSound, Step
    <3>5. active' # active
      BY <1>3
    <3>6. active[w].held /\ active[w] \in Leases
      BY <3>1, <3>5
    <3>2. CASE Commit(w) \/ Upload(w)
      BY <1>2, <1>3, <3>2, <3>5, <3>6 DEF Commit, Upload, Uncertain, MarkBlocked, Leases
    <3>3. CASE Heartbeat(w)
      <4> DEFINE b == IF active[w].block = "uncertain" /\ ~active[w].releasePending THEN "none" ELSE active[w].block
                 g == Answer(w) = "gone" /\ faults' = faults
      <4>1. \/ active' = [active EXCEPT ![w].block = b]
            \/ MarkBlocked(w, "missing") \/ MarkBlocked(w, "conflict")
            \/ active' = [active EXCEPT ![w].block = "uncertain", ![w].gone = g]
        BY <3>3 DEF Heartbeat
      <4> HIDE DEF b, g
      <4>2. QED
        BY <1>2, <1>3, <3>6, <4>1 DEF MarkBlocked, Leases
    <3>4. QED
      BY <2>3, <3>2, <3>3
  <2>4. CASE Release(w) \/ GiveUp(w) \/ ReleaseDoomed(w) \/ HeartbeatRelease(w) \/ \E k \in Kinds : ReleaseFirst(w, k)
    <3>1. (active[w].held /\ active[w] \in Leases) \/ UNCHANGED active
      BY <1>2, <2>4, <2>8 DEF Release, GiveUp, ReleaseDoomed, Doomed, HeartbeatRelease, Beats, ReleaseFirst,
          JobSound, Step
    <3>2. \/ UNCHANGED active \/ active' = [active EXCEPT ![w] = NoLease]
          \/ \E queued \in BOOLEAN, j \in Jobs : Unreleased(w, queued, j)
      BY <2>4, JobTypes DEF Release, GiveUp, ReleaseDoomed, HeartbeatRelease, ReleaseFirst, ReleaseCall, Released
    <3>3. ASSUME NEW queued \in BOOLEAN, NEW j \in Jobs, Unreleased(w, queued, j), active[w] \in Leases
          PROVE  active'[w].alien = active[w].alien /\ active[w].held
      <4>1. PICK v \in BOOLEAN, d \in BOOLEAN :
              active' = [active EXCEPT ![w].valid = v, ![w].releasePending = TRUE, ![w].block = "uncertain",
              ![w].doomed = d]
        BY <3>3 DEF Unreleased, Leases
      <4>2. QED
        BY <1>2, <3>3, <4>1 DEF Leases
    <3>4. active' # active
      BY <1>3
    <3>5. active' # [active EXCEPT ![w] = NoLease]
      BY <1>2, <1>3 DEF NoLease
    <3>6. active[w].held /\ active[w] \in Leases
      BY <3>1, <3>4
    <3>7. ~\E queued \in BOOLEAN, j \in Jobs : Unreleased(w, queued, j)
      BY <1>3, <3>3, <3>6
    <3>8. QED
      BY <3>2, <3>4, <3>5, <3>7
  <2>5. CASE UNCHANGED active
    BY <1>3, <2>5
  <2>6. CASE Restart(w)
    BY <1>2, <1>3, <2>6 DEF Restart, NoLease
  <2>7. QED
    BY <2>1, <2>2, <2>3, <2>4, <2>5, <2>6 DEF Work, Asked, Recover, EnrolKnown, EnrolNew, WriteEntry,
        ChangeEnds, TurnEnds,
        Join, Unmanaged, Ask
<1>4. CASE w \in Mistaken \/ w \notin Mistaken'
  BY <1>1, <1>4 DEF Mistaken
<1>5. CASE w \notin Mistaken /\ w \in Mistaken'
  BY <1>1, <1>3, <1>5 DEF Mistaken
<1>6. QED
  BY <1>4, <1>5

\* An upload under a lease for a known version drops nothing.
LEMMA WorkCanonical ==
    ASSUME IInv, NEW w \in Web, Work(w)
    PROVE  ServiceMoves(w) /\ (doc # NoDoc => doc \subseteq doc' \/ w \in Mistaken) /\ (Grants(w) => doc # NoDoc)
<1>1. WebSound(w) /\ (active[w].held => active[w] \in Leases)
  BY HeldLease DEF IInv
<1>2. CASE UNCHANGED service
  BY <1>2, SyncAssumption DEF service, ServiceMoves, Quiet, Grants
<1>3. CASE Acquire(w) \/ Reacquire(w)
  BY <1>3, SyncAssumption DEF Acquire, Reacquire, Grantable, ServiceMoves, Quiet, Grants
<1>4. CASE Answer(w) = "ok" /\ Store(w) /\ job[w].step \in {"resend", "reupload", "upload"}
  <2>1. active[w].held /\ active[w].pending # NoDoc /\ ~active[w].releasePending
    BY <1>1, <1>4 DEF WebSound, JobSound, LeaseSound, Recovering, Step, Trusted
  <2>2. Stores(w) /\ (active[w].alien \/ doc \subseteq doc')
    BY <1>4, <2>1, StoreAdds
  <2>3. QED
    BY <2>1, <2>2, SyncAssumption DEF ServiceMoves, Grants, Stores, Mistaken
<1>5. CASE active[w].held /\ UNCHANGED <<doc, etag>> /\ (leased' = leased \/ (active[w].valid /\ leased' = NoWeb))
  BY <1>1, <1>5, SyncAssumption DEF WebSound, LeaseSound, ServiceMoves, Quiet, Frees, Grants
<1>6. CASE Resend(w) \/ Reupload(w) \/ Upload(w)
  BY <1>2, <1>4, <1>6 DEF Resend, Reupload, Upload, Step
<1>7. CASE \E next \in Jobs : active[w].held /\ (Released(w, next) \/ Unreleased(w, TRUE, next) \/ Unreleased(w, FALSE, next))
  BY <1>5, <1>7 DEF Released, Unreleased
<1>8. CASE Release(w) \/ GiveUp(w) \/ ReleaseDoomed(w) \/ HeartbeatRelease(w)
  <2>1. Release(w) => active[w].held
    BY <1>1 DEF Release, WebSound, JobSound, Step
  <2>2. QED
    BY <1>2, <1>7, <1>8, <2>1, JobTypes DEF Release, GiveUp, ReleaseDoomed, Doomed, HeartbeatRelease,
        ReleaseCall, Beats
<1>9. CASE Materialize(w) \/ Renew(w) \/ Rebuild(w) \/ Commit(w) \/ Heartbeat(w)
  BY <1>2, <1>9 DEF Materialize, Renew, Rebuild, Commit, Heartbeat
<1>10. QED
  BY <1>3, <1>6, <1>8, <1>9 DEF Work

LEMMA AskedCanonical ==
    ASSUME IInv, NEW w \in Web, Asked(w)
    PROVE  ServiceMoves(w) /\ (doc # NoDoc => doc \subseteq doc' \/ w \in Mistaken) /\ (Grants(w) => doc # NoDoc)
<1>1. CASE UNCHANGED service
  BY <1>1, SyncAssumption DEF service, ServiceMoves, Quiet, Grants
<1>2. CASE EnrolNew(w)
  BY <1>2, Constants DEF EnrolNew, ServiceMoves, Enrols, Grants, IInv, TypeOK
<1>3. CASE \E k \in Kinds : ReleaseFirst(w, k)
  <2>1. UNCHANGED <<doc, etag>> /\ active[w].held /\ (leased' = leased \/ (active[w].valid /\ leased' = NoWeb))
    BY <1>3 DEF ReleaseFirst, Released, Unreleased
  <2>2. WebSound(w)
    BY DEF IInv
  <2>3. QED
    BY <2>1, <2>2, SyncAssumption DEF WebSound, LeaseSound, ServiceMoves, Quiet, Frees, Grants
<1>4. QED
  BY <1>1, <1>2, <1>3 DEF Asked, Recover, EnrolKnown, WriteEntry, ChangeEnds, TurnEnds, Restart, Join,
      Unmanaged, Ask

LEMMA StepCanonical ==
    ASSUME IInv, [Next]_vars
    PROVE  [Canonical!Next]_<<doc, leased, Mistaken>>
<1>1. CASE UNCHANGED vars
  BY <1>1 DEF vars, service, Mistaken
<1>2. CASE Expire \/ Delete
  <2>1. PICK S \in SUBSET Web : Invalid(S)
    BY <1>2 DEF Expire, Delete
  <2>2. ASSUME NEW w \in Web PROVE active'[w].held = active[w].held /\ (active[w].held => active'[w].alien = active[w].alien)
    <3>1. active[w].held => active[w] \in Leases
      BY HeldLease DEF IInv
    <3>2. QED
      BY <2>1, <3>1 DEF Invalid, Leases
  <2>3. Mistaken' \subseteq Mistaken
    BY <2>2 DEF Mistaken
  <2>4. QED
    BY <1>2, <2>3 DEF Expire, Delete, Canonical!Next, Canonical!Free, Canonical!Delete, Mistaken
<1>3. CASE PeerStep
  <2>1. Mistaken' = Mistaken /\ Peer \in Clients
    BY <1>3 DEF PeerStep, Mistaken, Clients
  <2>2. QED
    BY <1>3, <2>1, Constants DEF PeerStep, Canonical!Next, Canonical!Free, Canonical!Lease, Canonical!Write,
        NoDoc,
        IInv, TypeOK, Docs, Mistaken
<1>4. CASE \E w \in Web : Work(w) \/ Asked(w)
  BY <1>4, WorkCanonical, AskedCanonical, MistakenKept, CanonicalService
<1>5. QED
  BY <1>1, <1>2, <1>3, <1>4 DEF Next

\* The coordinators with the service do what the service promises, however
\* many heartbeats come between: only the lease holder uploads, and an upload
\* keeps what another client uploaded, unless the lease is one taken anew for a
\* version whose content the server never saw.
THEOREM CanonicalImplemented == Spec => ImplementsCanonical
<1>1. Init => Canonical!Init
  BY DEF Init, Canonical!Init, NoLease
<1>2. IInv /\ [Next]_vars => [Canonical!Next]_<<doc, leased, Mistaken>>
  BY StepCanonical
<1>3. QED
  BY <1>1, <1>2, Invariant, PTL DEF Spec, ImplementsCanonical, Canonical!Spec, Mistaken

(***************************************************************************)
(* What is uploaded when a server is done, as long as prompts and changes  *)
(* do not overlap.                                                         *)
(***************************************************************************)
Saved(w) == local[w] \subseteq uploaded \cup abandoned[w]
\* Nothing of the session file is missing, or the server says that it may be.
Accounted(w) == Saved(w) \/ ~enrolled[w] \/ blocked[w] # "none"
Writing(w) == change[w] \in {"run", "local"} \/ turn[w] # "no"
Prompting(w) == change[w] # "none" \/ turn[w] # "no"
Settles(w) == change[w] = "settle" \/ settle[w] \/ finish[w]
\* The turn that ended without being settled is an exception until a settlement.
Excused(w) == Accounted(w) \/ (left[w] /\ ~Settles(w))

OneAtATime(w) ==
    /\ Prompting(w) => job[w].step \in {"free", "beat"} /\ ~settle[w] /\ ~finish[w] /\ ~giveUp[w]
    /\ Prompting(w) /\ active[w].held => active[w].pending = NoDoc
    /\ change[w] # "none" => turn[w] = "no"
    /\ settle[w] \/ finish[w] \/ giveUp[w] => job[w].step \in {"free", "beat", "upload", "release"}
    /\ change[w] = "local" \/ turn[w] = "local" => ~enrolled[w]
    /\ active[w].held /\ active[w].pending # NoDoc => active[w].pending = local[w]
    /\ job[w].step = "acquire" => blocked[w] = "none"
    /\ active[w].held /\ blocked[w] # "none" => ~Trusted(w)
    /\ active[w].held \/ job[w].step = "acquire" => enrolled[w]

\* Whatever is not accounted for is under a lease that will upload it.
Cover(w) ==
    /\ Writing(w) /\ enrolled[w] /\ blocked[w] = "none" => active[w].held /\ Trusted(w)
    /\ Settles(w) => active[w].held \/ Accounted(w)
    /\ change[w] = "abandon" \/ giveUp[w] => Excused(w) \/ (active[w].held /\ active[w].pending = local[w])
    /\ active[w].held /\ ~Trusted(w) => Excused(w)
    /\ job[w].step \in {"release", "acquire", "materialize"} => Excused(w)
    /\ \/ Excused(w) \/ Writing(w) \/ Settles(w)
       \/ active[w].held /\ active[w].pending = local[w]

Covered(w) == OneAtATime(w) /\ Cover(w)
CoverInv == ~scenario.overlap => \A w \in Web : Covered(w)

LEMMA CoverOthers ==
    ASSUME NEW v \in Web, Covered(v), uploaded \subseteq uploaded', active'[v] = active[v], job'[v] = job[v],
           change'[v] = change[v], turn'[v] = turn[v], settle'[v] = settle[v], finish'[v] = finish[v],
           giveUp'[v] = giveUp[v],
           enrolled'[v] = enrolled[v], blocked'[v] = blocked[v], local'[v] = local[v],
           abandoned'[v] = abandoned[v], left'[v] = left[v]
    PROVE  Covered(v)'
BY DEF Covered, OneAtATime, Cover, Accounted, Saved, Prompting, Settles, Excused, Writing, Trusted

\* What a request gets under its lease, when requests come in turn.
LEMMA GrantedInTurn ==
    ASSUME TypeOK, NEW w \in Web, NEW k \in Kinds, ~scenario.overlap, Granted(w, k)
    PROVE  \/ k = "change" /\ change'[w] = "run" /\ UNCHANGED <<turn, settle, finish, giveUp>>
           \/ turn'[w] = "leased" /\ UNCHANGED <<change, settle, finish, giveUp>>
           \/ finish'[w] /\ k # "stop" /\ UNCHANGED <<change, turn, settle, giveUp>>
           \/ k = "stop" /\ turn'[w] = "no" /\ settle'[w] /\ finish'[w] /\ UNCHANGED <<change, giveUp>>
           \/ giveUp'[w] /\ k # "stop" /\ UNCHANGED <<change, turn, settle, finish>>
BY DEF TypeOK, Granted, Prompted, Unstreamed, Stopped, Refused

LEMMA CoverAcquire ==
    ASSUME IInv, NEW w \in Web, ~scenario.overlap, Covered(w), Acquire(w)
    PROVE  Covered(w)'
<1>1. TypeOK /\ WebSound(w)
  BY DEF IInv
<1>2. /\ job[w].step = "acquire" /\ ~active[w].held
      /\ UNCHANGED <<uploaded, blocked, change, turn, settle, finish, giveUp, local, enrolled, abandoned, left>>
  BY <1>1 DEF Acquire, Step, users, files, WebSound, JobSound
<1>3. ~Prompting(w) /\ ~settle[w] /\ ~finish[w] /\ ~giveUp[w] /\ blocked[w] = "none" /\ Excused(w) /\ enrolled[w]
  BY <1>2 DEF Covered, OneAtATime, Cover
<1>4. \/ active'[w].held /\ active'[w].pending = NoDoc /\ Trusted(w)' /\ job'[w].step = "materialize"
      \/ active' = active /\ job'[w].step = "free"
  BY <1>1, JobTypes DEF Acquire, Now, TypeOK, Trusted
<1>5. OneAtATime(w)'
  BY <1>2, <1>3, <1>4 DEF OneAtATime, Prompting
<1>6. Cover(w)'
  BY <1>2, <1>3, <1>4 DEF Cover, Accounted, Saved, Prompting, Settles, Excused, Writing
<1>7. QED
  BY <1>5, <1>6 DEF Covered

LEMMA CoverMaterialize ==
    ASSUME IInv, NEW w \in Web, ~scenario.overlap, Covered(w), Materialize(w)
    PROVE  Covered(w)'
<1>1. TypeOK /\ WebSound(w) /\ (active[w].held => active[w] \in Leases)
  BY HeldLease DEF IInv
<1>2. /\ job[w].step = "materialize" /\ job[w].for \in Kinds /\ active[w].held /\ active[w] \in Leases /\ Trusted(w)
      /\ active[w].pending = NoDoc /\ active[w].seen \subseteq uploaded /\ local[w] # NoDoc
      /\ UNCHANGED <<uploaded, enrolled, abandoned>>
  BY <1>1, Constants, JobOf DEF Materialize, Step, WebSound, JobSound, LeaseSound, service, TypeOK
<1>3. CASE active'[w].held /\ active'[w].pending = NoDoc /\ (Trusted(w)' <=> Trusted(w)) /\ job'[w].step = "release"
           /\ UNCHANGED <<blocked, local, left, users>>
  <2>1. OneAtATime(w)'
    BY <1>2, <1>3 DEF Covered, OneAtATime, Prompting, users
  <2>2. Cover(w)'
    BY <1>2, <1>3 DEF Covered, OneAtATime, Cover, Accounted, Saved, Prompting, Settles, Excused, Writing, users
  <2>3. QED
    BY <2>1, <2>2 DEF Covered
<1>4. CASE /\ UNCHANGED active /\ job'[w].step = "free" /\ blocked'[w] = "none"
           /\ turn[w] = "no" /\ local'[w] = active[w].seen /\ ~left'[w] /\ Granted(w, job[w].for)
  <2>1. local'[w] \subseteq uploaded /\ ~settle[w] /\ ~finish[w] /\ ~giveUp[w] /\ change[w] = "none" /\ enrolled'[w]
        /\ local'[w] # NoDoc
    <3>1. active[w].seen # NoDoc
      BY <1>2, Constants DEF Leases
    <3>2. QED
      BY <1>2, <1>4, <3>1 DEF Covered, OneAtATime, Prompting
  <2>2. (active'[w].held /\ active'[w].pending = NoDoc /\ Trusted(w)') /\ Saved(w)'
    BY <1>2, <1>4, <2>1 DEF Trusted, Saved
  <2>3. \/ change'[w] = "run" /\ UNCHANGED <<turn, settle, finish, giveUp>>
        \/ turn'[w] = "leased" /\ UNCHANGED <<change, settle, finish, giveUp>>
        \/ finish'[w] /\ UNCHANGED <<change, turn, settle, giveUp>>
        \/ turn'[w] = "no" /\ settle'[w] /\ finish'[w] /\ UNCHANGED <<change, giveUp>>
        \/ giveUp'[w] /\ UNCHANGED <<change, turn, settle, finish>>
    BY <1>1, <1>2, <1>4, GrantedInTurn
  <2>4. OneAtATime(w)'
    BY <1>4, <2>1, <2>2, <2>3 DEF OneAtATime, Prompting
  <2>5. Cover(w)'
    BY <1>4, <2>1, <2>2, <2>3 DEF Cover, Accounted, Settles, Excused, Writing
  <2>6. QED
    BY <2>4, <2>5 DEF Covered
<1>5. QED
  <2>1. CASE /\ Answered /\ Replaced(w)
             /\ blocked' = [blocked EXCEPT ![w] = "none"]
             /\ Now(w, Free) /\ Granted(w, job[w].for) /\ UNCHANGED active
    BY <1>1, <1>4, <2>1, JobTypes DEF Now, Replaced, TypeOK
  <2>2. CASE /\ active' = [active EXCEPT ![w].block = "failed"]
             /\ Now(w, [step |-> "release", request |-> FALSE]) /\ UNCHANGED <<blocked, local, left, users>>
    BY <1>1, <1>2, <1>3, <2>2 DEF Now, TypeOK, Leases, Trusted
  <2>3. QED
    BY <2>1, <2>2 DEF Materialize

\* What a release does to the lease of a server.
LEMMA ReleasedLease ==
    ASSUME IInv, NEW w \in Web, NEW queued \in BOOLEAN, NEW j \in Jobs, NEW k \in Jobs, active[w].held,
           Released(w, j) \/ Unreleased(w, queued, k)
    PROVE  /\ uploaded' = uploaded
           /\ \/ ~active'[w].held /\ job'[w] = j
              \/ active'[w].held /\ ~Trusted(w)' /\ active'[w].pending = active[w].pending /\ job'[w] = k
<1>1. TypeOK /\ active[w] \in Leases
  BY HeldLease DEF IInv
<1>2. CASE Released(w, j)
  BY <1>1, <1>2 DEF Released, Now, TypeOK, NoLease
<1>3. CASE Unreleased(w, queued, k)
  <2>1. PICK v \in BOOLEAN, d \in BOOLEAN :
          active' = [active EXCEPT ![w].valid = v, ![w].releasePending = TRUE, ![w].block = "uncertain",
          ![w].doomed = d]
    BY <1>1, <1>3 DEF Unreleased, Leases
  <2>2. active'[w].held /\ active'[w].pending = active[w].pending /\ active'[w].releasePending
    BY <1>1, <2>1 DEF TypeOK, Leases
  <2>3. QED
    BY <1>1, <1>3, <2>2 DEF Unreleased, Now, Trusted, TypeOK
<1>4. QED
  BY <1>2, <1>3

LEMMA CoverRelease ==
    ASSUME IInv, NEW w \in Web, ~scenario.overlap, Covered(w), Release(w)
    PROVE  Covered(w)'
<1>1. TypeOK /\ WebSound(w) /\ (active[w].held => active[w] \in Leases)
  BY HeldLease DEF IInv
<1>2. /\ job[w].step = "release" /\ active[w].held /\ job[w].request \in BOOLEAN
      /\ UNCHANGED <<change, turn, settle, finish, blocked, local, enrolled, abandoned, left>>
  BY <1>1, JobOf DEF Release, Step, WebSound, JobSound, files, TypeOK
<1>3. (Released(w, Free) /\ giveUp' = giveUp) \/ (Unreleased(w, FALSE, Free) /\ giveUp'[w] \in BOOLEAN)
  BY <1>1, <1>2, FailsTyped DEF Release
<1>4. /\ uploaded' = uploaded /\ job'[w] = Free /\ job'[w].step = "free"
      /\ \/ ~active'[w].held /\ giveUp' = giveUp
         \/ active'[w].held /\ ~Trusted(w)' /\ active'[w].pending = active[w].pending
  <2>1. CASE Released(w, Free) /\ giveUp' = giveUp
    BY <1>1, <2>1, JobTypes DEF Released, Now, TypeOK, NoLease
  <2>2. CASE Unreleased(w, FALSE, Free)
    <3>1. PICK v \in BOOLEAN :
            active' = [active EXCEPT ![w].valid = v, ![w].releasePending = TRUE, ![w].block = "uncertain", ![w].doomed = @ /\ TRUE]
      BY <1>1, <1>2, <2>2 DEF Unreleased, Leases
    <3>2. active'[w].held /\ active'[w].pending = active[w].pending /\ active'[w].releasePending
      BY <1>1, <1>2, <3>1 DEF TypeOK, Leases
    <3>3. QED
      BY <1>1, <2>2, <3>2, JobTypes DEF Unreleased, Now, Trusted, TypeOK
  <2>3. QED
    BY <1>3, <2>1, <2>2
<1>5. OneAtATime(w)'
  BY <1>2, <1>4 DEF Covered, OneAtATime, Prompting
<1>6. Cover(w)'
  BY <1>2, <1>4 DEF Covered, OneAtATime, Cover, Accounted, Saved, Prompting, Settles, Excused, Writing
<1>7. QED
  BY <1>5, <1>6 DEF Covered

LEMMA CoverGiveUp ==
    ASSUME IInv, NEW w \in Web, ~scenario.overlap, Covered(w), GiveUp(w)
    PROVE  Covered(w)'
<1>1. TypeOK /\ WebSound(w) /\ (active[w].held => active[w] \in Leases)
  BY HeldLease DEF IInv
<1>2. /\ job[w].step = "free" /\ UNCHANGED <<turn, settle, finish, blocked, local, enrolled, left>>
      /\ \/ change[w] = "abandon" /\ change'[w] = "none" /\ giveUp' = giveUp
         \/ giveUp[w] /\ ~giveUp'[w] /\ change' = change
  BY <1>1, JobTypes DEF GiveUp, Idle, TypeOK
<1>3. /\ abandoned[w] \subseteq abandoned'[w]
      /\ active[w].held /\ active[w].pending # NoDoc => active[w].pending \subseteq uploaded \cup abandoned'[w]
  BY <1>1 DEF GiveUp, TypeOK
<1>4. /\ uploaded' = uploaded /\ job'[w].step = "free"
      /\ \/ ~active[w].held /\ active' = active
         \/ active[w].held /\ ~active'[w].held
         \/ active[w].held /\ active'[w].held /\ ~Trusted(w)' /\ active'[w].pending = active[w].pending
  <2>1. CASE active[w].held
    BY <2>1, ReleasedLease, JobTypes DEF GiveUp, ReleaseCall
  <2>2. CASE ~active[w].held
    BY <1>2, <2>2 DEF GiveUp, service
  <2>3. QED
    BY <2>1, <2>2
<1>5. local[w] # NoDoc
  BY <1>1, Constants DEF TypeOK
<1>6. OneAtATime(w)'
  BY <1>2, <1>4 DEF Covered, OneAtATime, Prompting
<1>7. (Excused(w) => Excused(w)') /\ (active[w].held /\ active[w].pending = local[w] => Excused(w)')
  BY <1>2, <1>3, <1>4, <1>5 DEF Excused, Accounted, Saved, Settles
<1>8. Cover(w)'
  BY <1>2, <1>4, <1>7 DEF Covered, OneAtATime, Cover, Accounted, Saved, Prompting, Settles, Excused, Writing
<1>9. QED
  BY <1>6, <1>8 DEF Covered

LEMMA CoverReleaseDoomed ==
    ASSUME IInv, NEW w \in Web, ~scenario.overlap, Covered(w), ReleaseDoomed(w)
    PROVE  Covered(w)'
<1>2. /\ job[w].step = "free" /\ active[w].held /\ ~Trusted(w)
      /\ UNCHANGED <<change, turn, settle, finish, giveUp, blocked, local, enrolled, abandoned, left>>
  BY JobTypes DEF ReleaseDoomed, Doomed, Idle, Trusted, users, files
<1>3. /\ uploaded' = uploaded /\ job'[w].step = "free"
      /\ ~active'[w].held \/ (active'[w].held /\ ~Trusted(w)' /\ active'[w].pending = active[w].pending)
  BY <1>2, ReleasedLease, JobTypes DEF ReleaseDoomed, ReleaseCall
<1>5. OneAtATime(w)'
  BY <1>2, <1>3 DEF Covered, OneAtATime, Prompting
<1>6. Cover(w)'
  BY <1>2, <1>3 DEF Covered, OneAtATime, Cover, Accounted, Saved, Prompting, Settles, Excused, Writing
<1>7. QED
  BY <1>5, <1>6 DEF Covered

LEMMA CoverHeartbeatRelease ==
    ASSUME IInv, NEW w \in Web, ~scenario.overlap, Covered(w), HeartbeatRelease(w)
    PROVE  Covered(w)'
<1>2. /\ job[w].step = "free" /\ active[w].held /\ ~Trusted(w)
      /\ UNCHANGED <<change, turn, settle, finish, giveUp, blocked, local, enrolled, abandoned, left>>
  BY JobTypes DEF HeartbeatRelease, Beats, Idle, Trusted, users, files
<1>3. /\ uploaded' = uploaded /\ job'[w].step \in {"free", "beat"}
      /\ ~active'[w].held \/ (active'[w].held /\ ~Trusted(w)' /\ active'[w].pending = active[w].pending)
  <2>1. [step |-> "beat"] \in Jobs /\ [step |-> "beat"].step = "beat"
    BY JobTypes DEF Jobs
  <2>2. Released(w, Free) \/ Unreleased(w, FALSE, [step |-> "beat"])
    BY DEF HeartbeatRelease
  <2>3. QED
    BY <1>2, <2>1, <2>2, ReleasedLease, JobTypes
<1>5. OneAtATime(w)'
  BY <1>2, <1>3 DEF Covered, OneAtATime, Prompting
<1>6. Cover(w)'
  BY <1>2, <1>3 DEF Covered, OneAtATime, Cover, Accounted, Saved, Prompting, Settles, Excused, Writing
<1>7. QED
  BY <1>5, <1>6 DEF Covered

LEMMA CoverRecover ==
    ASSUME IInv, NEW w \in Web, ~scenario.overlap, Covered(w), Recover(w)
    PROVE  Covered(w)'
<1>1. TypeOK /\ WebSound(w) /\ (active[w].held => active[w] \in Leases)
  BY HeldLease DEF IInv
<1>2. OneAtATime(w)'
  BY <1>1 DEF Recover, Idle, Now, CanAsk, Doomed, service, users, files, Covered, OneAtATime, Cover, Prompting,
      Settles, Excused, Writing, Trusted
<1>3. Cover(w)'
  BY <1>1 DEF Recover, Idle, Now, CanAsk, Doomed, service, users, files, Covered, OneAtATime, Cover, Accounted,
      Saved, Prompting, Settles, Excused,
      Writing, Trusted
<1>4. QED
  BY <1>2, <1>3 DEF Covered

LEMMA CoverEnrolKnown ==
    ASSUME IInv, NEW w \in Web, ~scenario.overlap, Covered(w), EnrolKnown(w)
    PROVE  Covered(w)'
<1>1. TypeOK /\ WebSound(w) /\ (active[w].held => active[w] \in Leases)
  BY HeldLease DEF IInv
<1>2. OneAtATime(w)'
  BY <1>1 DEF TypeOK, EnrolKnown, Idle, EnrolAsked, Doomed, MarkEnrolled, service, users, Covered, OneAtATime,
      Cover, Prompting, Settles, Excused, Writing, Trusted
<1>3. Cover(w)'
  BY <1>1 DEF EnrolKnown, Idle, EnrolAsked, Doomed, MarkEnrolled, service, users, Covered, OneAtATime, Cover,
      Accounted, Saved,
      Prompting, Settles, Excused, Writing, Trusted, TypeOK
<1>4. QED
  BY <1>2, <1>3 DEF Covered

LEMMA CoverEnrolNew ==
    ASSUME IInv, NEW w \in Web, ~scenario.overlap, Covered(w), EnrolNew(w)
    PROVE  Covered(w)'
<1>1. TypeOK /\ WebSound(w) /\ (active[w].held => active[w] \in Leases)
  BY HeldLease DEF IInv
<1>2. OneAtATime(w)'
  BY <1>1 DEF TypeOK, EnrolNew, Idle, Answered, EnrolAsked, Doomed, MarkEnrolled, users, Covered, OneAtATime,
      Cover, Prompting, Settles, Excused, Writing, Trusted
<1>3. Cover(w)'
  BY <1>1 DEF EnrolNew, Idle, Answered, EnrolAsked, Doomed, MarkEnrolled, users, Covered, OneAtATime, Cover,
      Accounted, Saved,
      Prompting, Settles, Excused, Writing, Trusted
<1>4. QED
  BY <1>2, <1>3 DEF Covered

LEMMA CoverWriteEntry ==
    ASSUME IInv, NEW w \in Web, ~scenario.overlap, Covered(w), WriteEntry(w)
    PROVE  Covered(w)'
<1>1. TypeOK /\ WebSound(w) /\ (active[w].held => active[w] \in Leases)
  BY HeldLease DEF IInv
<1>2. OneAtATime(w)'
  BY <1>1 DEF WriteEntry, service, users, Covered, OneAtATime, Cover, Prompting, Settles, Excused, Writing,
      Trusted
<1>3. Cover(w)'
  BY <1>1 DEF WriteEntry, service, users, Covered, OneAtATime, Cover, Accounted, Saved, Prompting, Settles,
      Excused, Writing, Trusted
<1>4. QED
  BY <1>2, <1>3 DEF Covered

LEMMA CoverChangeEnds ==
    ASSUME IInv, NEW w \in Web, ~scenario.overlap, Covered(w), ChangeEnds(w)
    PROVE  Covered(w)'
<1>1. TypeOK /\ WebSound(w) /\ (active[w].held => active[w] \in Leases)
  BY HeldLease DEF IInv
<1>2. OneAtATime(w)'
  BY <1>1 DEF ChangeEnds, service, Covered, OneAtATime, Cover, Prompting, Settles, Excused, Writing, Trusted,
      TypeOK
<1>3. Cover(w)'
  BY <1>1 DEF ChangeEnds, service, Covered, OneAtATime, Cover, Accounted, Saved, Prompting, Settles, Excused,
      Writing, Trusted, TypeOK
<1>4. QED
  BY <1>2, <1>3 DEF Covered

LEMMA CoverTurnEnds ==
    ASSUME IInv, NEW w \in Web, ~scenario.overlap, Covered(w), TurnEnds(w)
    PROVE  Covered(w)'
<1>1. TypeOK /\ WebSound(w) /\ (active[w].held => active[w] \in Leases)
  BY HeldLease DEF IInv
<1>2. OneAtATime(w)'
  BY <1>1 DEF TurnEnds, service, files, Covered, OneAtATime, Cover, Prompting, Settles, Excused, Writing,
      Trusted, TypeOK
<1>3. Cover(w)'
  BY <1>1 DEF TurnEnds, service, files, Covered, OneAtATime, Cover, Accounted, Saved, Prompting, Settles,
      Excused, Writing, Trusted, TypeOK
<1>4. QED
  BY <1>2, <1>3 DEF Covered

LEMMA CoverRestart ==
    ASSUME IInv, NEW w \in Web, ~scenario.overlap, Covered(w), Restart(w)
    PROVE  Covered(w)'
<1>1. TypeOK /\ WebSound(w) /\ (active[w].held => active[w] \in Leases)
  BY HeldLease DEF IInv
<1>2. OneAtATime(w)'
  BY <1>1, JobTypes DEF Restart, Now, service, Covered, OneAtATime, Prompting, TypeOK, NoLease
<1>3. Cover(w)'
  BY <1>1 DEF Restart, Now, service, Covered, OneAtATime, Cover, Accounted, Saved, Prompting, Settles, Excused,
      Writing, Trusted, TypeOK, NoLease
<1>4. QED
  BY <1>2, <1>3 DEF Covered

LEMMA CoverReleaseFirst ==
    ASSUME IInv, NEW w \in Web, ~scenario.overlap, Covered(w), NEW k \in Kinds, ReleaseFirst(w, k)
    PROVE  Covered(w)'
<1>1. /\ job[w].step = "free" /\ active[w].held /\ ~Trusted(w) /\ ~giveUp[w] /\ ~settle[w] /\ ~finish[w]
      /\ change[w] = "none" /\ (k = "stop" \/ turn[w] = "no")
      /\ UNCHANGED <<change, turn, settle, finish, giveUp, blocked, local, enrolled, abandoned, left>>
  BY JobTypes DEF ReleaseFirst, CanAsk, Idle, Trusted, users, files
<1> DEFINE j == IF blocked[w] = "none" THEN [step |-> "acquire", for |-> k] ELSE Free
<1>2. j \in Jobs /\ j.step \in {"free", "acquire"} /\ (j.step = "acquire" => blocked[w] = "none")
  BY JobTypes
<1>3. Released(w, j) \/ Unreleased(w, FALSE, Free)
  BY DEF ReleaseFirst
<1> HIDE DEF j
<1>4. /\ uploaded' = uploaded
      /\ \/ ~active'[w].held /\ job'[w] = j
         \/ job'[w].step = "free" /\ active'[w].held /\ ~Trusted(w)' /\ active'[w].pending = active[w].pending
  BY <1>1, <1>2, <1>3, ReleasedLease, JobTypes
<1>5. OneAtATime(w)'
  BY <1>1, <1>2, <1>4 DEF Covered, OneAtATime, Cover, Prompting, Writing
<1>6. Cover(w)'
  BY <1>1, <1>2, <1>4 DEF Covered, OneAtATime, Cover, Accounted, Saved, Prompting, Settles, Excused, Writing
<1>7. QED
  BY <1>5, <1>6 DEF Covered

LEMMA CoverUnmanaged ==
    ASSUME IInv, NEW w \in Web, ~scenario.overlap, Covered(w), NEW k \in Kinds, Unmanaged(w, k)
    PROVE  Covered(w)'
<1>1. TypeOK /\ WebSound(w) /\ (active[w].held => active[w] \in Leases)
  BY HeldLease DEF IInv
<1>2. OneAtATime(w)'
  BY <1>1, JobTypes DEF Unmanaged, Idle, CanAsk, Doomed, service, files, Covered, OneAtATime
<1>3. Cover(w)'
  BY <1>1 DEF Unmanaged, Idle, CanAsk, Doomed, service, files, Covered, OneAtATime, Cover, Accounted, Saved,
      Prompting, Settles, Excused, Writing, Trusted
<1>4. QED
  BY <1>2, <1>3 DEF Covered

LEMMA CoverAsk ==
    ASSUME IInv, NEW w \in Web, ~scenario.overlap, Covered(w), NEW k \in Kinds, Ask(w, k)
    PROVE  Covered(w)'
<1>1. TypeOK /\ WebSound(w) /\ (active[w].held => active[w] \in Leases)
  BY HeldLease DEF IInv
<1>2. OneAtATime(w)'
  BY <1>1 DEF Ask, Idle, Now, CanAsk, Doomed, service, users, files, Covered, OneAtATime, Cover, Prompting,
      Settles, Excused, Writing, Trusted
<1>3. Cover(w)'
  BY <1>1 DEF Ask, Idle, Now, CanAsk, Doomed, service, users, files, Covered, OneAtATime, Cover, Accounted,
      Saved, Prompting, Settles, Excused,
      Writing, Trusted
<1>4. QED
  BY <1>2, <1>3 DEF Covered

LEMMA CoverRenew ==
    ASSUME IInv, NEW w \in Web, ~scenario.overlap, Covered(w), Renew(w)
    PROVE  Covered(w)'
<1>1. TypeOK /\ WebSound(w) /\ (active[w].held => active[w] \in Leases)
  BY HeldLease DEF IInv
<1>2. /\ job[w].step = "renew" /\ active[w].held /\ active[w] \in Leases /\ Trusted(w)
      /\ uploaded' = uploaded /\ local' = local /\ enrolled' = enrolled /\ abandoned' = abandoned /\ left' = left
  BY <1>1 DEF Renew, Step, WebSound, JobSound, Recovering, service, files
<1>3. /\ active'[w].held /\ active'[w].pending = active[w].pending
      /\ job'[w].step \in {"free", "resend", "reacquire"}
      /\ \/ blocked' = blocked /\ Trusted(w)' /\ UNCHANGED <<change, turn, settle, finish, giveUp>>
         \/ blocked'[w] = "conflict" /\ ~Trusted(w)' /\ UNCHANGED <<change, turn, settle, finish, giveUp>>
         \/ /\ blocked' = blocked /\ Trusted(w)' /\ UNCHANGED <<turn, settle, finish, giveUp>>
            /\ active[w].pending = NoDoc /\ change'[w] = "run" /\ job'[w].step = "free"
  BY <1>1, <1>2, JobTypes DEF Renew, Now, Answered, Recovered, Granted, Fixed, StillUncertain, Uncertain, users,
      TypeOK, Leases, Trusted
<1>6. OneAtATime(w)'
  BY <1>1, <1>2, <1>3 DEF Covered, OneAtATime, Prompting, Settles, Excused
<1>7. Cover(w)'
  BY <1>1, <1>2, <1>3 DEF Covered, OneAtATime, Cover, Accounted, Saved, Prompting, Settles, Excused, Writing
<1>8. QED
  BY <1>6, <1>7 DEF Covered

LEMMA CoverResend ==
    ASSUME IInv, NEW w \in Web, ~scenario.overlap, Covered(w), Resend(w) \/ Reupload(w)
    PROVE  Covered(w)'
<1>1. TypeOK /\ WebSound(w) /\ (active[w].held => active[w] \in Leases)
  BY HeldLease DEF IInv
<1>2. /\ job[w].step \in {"resend", "reupload"} /\ active[w].held /\ active[w] \in Leases /\ Trusted(w)
      /\ local' = local /\ enrolled' = enrolled /\ abandoned' = abandoned /\ left' = left /\ uploaded \subseteq uploaded'
  BY <1>1 DEF Resend, Reupload, Step, WebSound, JobSound, Recovering, service, files, Store
<1>3. /\ active'[w].held
      /\ job'[w].step \in {"free", "reacquire"}
      /\ \/ /\ active'[w].pending = active[w].pending
            /\ blocked' = blocked /\ Trusted(w)' /\ UNCHANGED <<change, turn, settle, finish, giveUp>>
         \/ /\ active'[w].pending = active[w].pending
            /\ blocked'[w] = "conflict" /\ ~Trusted(w)' /\ UNCHANGED <<change, turn, settle, finish, giveUp>>
         \/ /\ active'[w].pending = NoDoc /\ blocked' = blocked /\ Trusted(w)' /\ UNCHANGED <<turn, settle, finish, giveUp>>
            /\ change'[w] = "run" /\ job'[w].step = "free"
  BY <1>1, <1>2, JobTypes DEF Resend, Reupload, Now, Answered, Recovered, Granted, StillUncertain, Uncertain,
      MarkBlocked, users, TypeOK, Leases, Trusted
<1>6. OneAtATime(w)'
  BY <1>1, <1>2, <1>3 DEF Covered, OneAtATime, Prompting, Settles, Excused
<1>7. Cover(w)'
  BY <1>1, <1>2, <1>3 DEF Covered, OneAtATime, Cover, Accounted, Saved, Prompting, Settles, Excused, Writing
<1>8. QED
  BY <1>6, <1>7 DEF Covered

LEMMA CoverReacquire ==
    ASSUME IInv, NEW w \in Web, ~scenario.overlap, Covered(w), Reacquire(w)
    PROVE  Covered(w)'
<1>1. TypeOK /\ WebSound(w) /\ (active[w].held => active[w] \in Leases)
  BY HeldLease DEF IInv
<1>2. /\ job[w].step = "reacquire" /\ active[w].held /\ active[w] \in Leases /\ Trusted(w)
      /\ uploaded' = uploaded /\ local' = local /\ enrolled' = enrolled /\ abandoned' = abandoned
      /\ UNCHANGED <<change, turn, settle, finish, giveUp, left>>
  BY <1>1 DEF Reacquire, Step, WebSound, JobSound, Recovering, users, files
<1>3. /\ active'[w].held /\ active'[w].pending = active[w].pending
      /\ job'[w].step \in {"free", "rebuild", "reupload"}
      /\ (blocked' = blocked /\ Trusted(w)') \/ (blocked'[w] = "conflict" /\ ~Trusted(w)')
  BY <1>1, <1>2, JobTypes DEF Reacquire, Now, Answered, TypeOK, Leases, Trusted
<1>6. OneAtATime(w)'
  BY <1>1, <1>2, <1>3 DEF Covered, OneAtATime, Prompting, Settles, Excused
<1>7. Cover(w)'
  BY <1>1, <1>2, <1>3 DEF Covered, OneAtATime, Cover, Accounted, Saved, Prompting, Settles, Excused, Writing
<1>8. QED
  BY <1>6, <1>7 DEF Covered

LEMMA CoverRebuild ==
    ASSUME IInv, NEW w \in Web, ~scenario.overlap, Covered(w), Rebuild(w)
    PROVE  Covered(w)'
<1>1. TypeOK /\ WebSound(w) /\ (active[w].held => active[w] \in Leases)
  BY HeldLease DEF IInv
<1>2. /\ job[w].step = "rebuild" /\ active[w].held /\ active[w] \in Leases /\ Trusted(w) /\ active[w].pending = NoDoc
      /\ uploaded' = uploaded /\ enrolled' = enrolled /\ abandoned' = abandoned /\ blocked' = blocked
      /\ active[w].seen \subseteq uploaded /\ local[w] # NoDoc
  BY <1>1, Constants DEF Rebuild, Step, WebSound, JobSound, LeaseSound, Recovering, service, TypeOK
<1>3. CASE /\ active' = [active EXCEPT ![w].block = "failed"]
           /\ Now(w, [step |-> "release", request |-> FALSE]) /\ UNCHANGED <<local, left, users>>
  <2>1. active'[w].held /\ active'[w].pending = NoDoc /\ Trusted(w)' /\ job'[w].step = "release"
    BY <1>1, <1>2, <1>3 DEF Now, TypeOK, Leases, Trusted
  <2>2. OneAtATime(w)'
    BY <1>2, <1>3, <2>1 DEF Covered, OneAtATime, Prompting, users
  <2>3. Excused(w)
    BY <1>2 DEF Covered, OneAtATime, Cover, Excused, Writing, Settles, Prompting
  <2>4. Cover(w)'
    BY <1>2, <1>3, <2>1, <2>3 DEF Covered, OneAtATime, Cover, Accounted, Saved, Prompting, Settles, Excused,
        Writing, users
  <2>5. QED
    BY <2>2, <2>4 DEF Covered
<1>4. CASE /\ Replaced(w) /\ Recovered(w)
           /\ active' = [active EXCEPT ![w].alien = FALSE, ![w].block = "none", ![w].gone = FALSE]
  <2>1. active'[w].held /\ active'[w].pending = NoDoc /\ Trusted(w)' /\ job'[w].step = "free"
    BY <1>1, <1>2, <1>4, JobTypes DEF Recovered, Now, TypeOK, Leases, Trusted
  <2>2. /\ local'[w] = active[w].seen /\ turn[w] = "no" /\ change'[w] = "run" /\ UNCHANGED <<turn, settle, finish, giveUp>>
    BY <1>1, <1>4 DEF Replaced, Recovered, Granted, TypeOK
  <2>3. ~settle[w] /\ ~finish[w] /\ ~giveUp[w] /\ Saved(w)' /\ change[w] = "none"
    BY <1>2, <2>2 DEF Covered, OneAtATime, Saved, Prompting
  <2>4. local'[w] # NoDoc
    BY <1>2, <2>2, Constants DEF Leases
  <2>5. OneAtATime(w)'
    BY <1>2, <2>1, <2>2, <2>3, <2>4 DEF Covered, OneAtATime, Prompting
  <2>6. Cover(w)'
    BY <1>2, <2>1, <2>2, <2>3 DEF Cover, Accounted, Settles, Excused, Writing
  <2>7. QED
    BY <2>5, <2>6 DEF Covered
<1>5. QED
  BY <1>3, <1>4 DEF Rebuild

LEMMA CoverCommit ==
    ASSUME IInv, NEW w \in Web, ~scenario.overlap, Covered(w), Commit(w)
    PROVE  Covered(w)'
<1>1. TypeOK /\ WebSound(w) /\ (active[w].held => active[w] \in Leases)
  BY HeldLease DEF IInv
<1>2. PICK by \in {"change", "agent", "request"} :
        /\ Settling(w, by)
        /\ \/ Answered /\ ~active[w].held /\ UNCHANGED <<active, blocked, job, giveUp>>
           \/ /\ Answered /\ active[w].held /\ UNCHANGED blocked
              /\ active' = [active EXCEPT ![w].pending = Normalized(w)]
              /\ IF active[w].block # "none" THEN UNCHANGED job /\ Fails(w, by = "request")
                 ELSE /\ Now(w, [step |-> IF active[w].seen = local[w] THEN "release" ELSE "upload",
                                 request |-> by = "request"])
                      /\ UNCHANGED giveUp
           \/ Fault /\ active[w].held /\ MarkBlocked(w, "failed") /\ UNCHANGED job /\ Fails(w, by = "request")
  BY DEF Commit
<1>3. /\ job[w].step = "free" /\ UNCHANGED <<turn, local, enrolled, abandoned, uploaded>> /\ Settles(w)
      /\ left'[w] = (left[w] /\ ~active[w].held)
      /\ \/ change[w] = "settle" /\ change'[w] = "none" /\ settle' = settle /\ finish' = finish
         \/ settle[w] /\ ~settle'[w] /\ change' = change /\ finish' = finish
         \/ finish[w] /\ ~finish'[w] /\ change' = change /\ settle' = settle
  BY <1>1, <1>2, JobTypes DEF Commit, Idle, service, Settling, TypeOK, Settles
<1>4. Fails(w, by = "request") => giveUp'[w] \in BOOLEAN
  BY <1>1 DEF Fails, TypeOK
<1>5. local[w] # NoDoc
  BY <1>1, Constants DEF TypeOK
<1>6. \/ ~active[w].held /\ UNCHANGED <<active, blocked, job, giveUp>>
      \/ /\ active[w].held /\ active'[w].held /\ blocked' = blocked /\ active'[w].pending = local[w]
         /\ (Trusted(w)' <=> Trusted(w)) /\ job'[w].step \in {"free", "release", "upload"}
         /\ job'[w].step = "release" => local[w] \subseteq uploaded
         /\ giveUp' = giveUp \/ job'[w].step = "free"
      \/ active[w].held /\ active'[w].held /\ blocked'[w] = "failed" /\ job' = job /\ active'[w].pending = active[w].pending
         /\ ~Trusted(w)'
  <2>1. CASE active[w].held /\ MarkBlocked(w, "failed") /\ job' = job
    BY <1>1, <2>1 DEF MarkBlocked, TypeOK, Leases, Trusted
  <2>2. CASE /\ active[w].held /\ blocked' = blocked /\ active' = [active EXCEPT ![w].pending = local[w]]
             /\ (active[w].block # "none" /\ job' = job)
                 \/ (giveUp' = giveUp /\ \E r \in BOOLEAN :
                      Now(w, [step |-> IF active[w].seen = local[w] THEN "release" ELSE "upload", request |-> r]))
    <3>1. active'[w].held /\ active'[w].pending = local[w] /\ (Trusted(w)' <=> Trusted(w))
      BY <1>1, <2>2 DEF TypeOK, Leases, Trusted
    <3>2. active[w].seen \subseteq uploaded
      BY <1>1, <2>2 DEF WebSound, LeaseSound
    <3>3. CASE job' = job
      BY <1>3, <2>2, <3>1, <3>3
    <3>4. ASSUME NEW r \in BOOLEAN, giveUp' = giveUp,
                 Now(w, [step |-> IF active[w].seen = local[w] THEN "release" ELSE "upload", request |-> r])
          PROVE  /\ job'[w].step \in {"release", "upload"} /\ giveUp' = giveUp
                 /\ job'[w].step = "release" => local[w] \subseteq uploaded
      <4>1. job'[w] = [step |-> IF active[w].seen = local[w] THEN "release" ELSE "upload", request |-> r]
        BY <1>1, <3>4 DEF Now, TypeOK
      <4>2. QED
        BY <3>2, <3>4, <4>1
    <3>5. QED
      BY <2>2, <3>1, <3>3, <3>4
  <2>3. QED
    BY <1>2, <2>1, <2>2 DEF Normalized
<1>7. giveUp'[w] => giveUp[w] \/ active[w].held
  <2>1. CASE giveUp' = giveUp
    BY <2>1
  <2>2. CASE active[w].held
    BY <2>2
  <2>3. QED
    BY <1>2, <2>1, <2>2
<1>8. OneAtATime(w)'
  BY <1>1, <1>3, <1>5, <1>6, <1>7 DEF Covered, OneAtATime, Prompting, Settles
<1>9. Cover(w)'
  BY <1>1, <1>3, <1>5, <1>6, <1>7 DEF Covered, OneAtATime, Cover, Accounted, Saved, Prompting, Settles,
      Excused, Writing
<1>10. QED
  BY <1>8, <1>9 DEF Covered

LEMMA CoverUpload ==
    ASSUME IInv, NEW w \in Web, ~scenario.overlap, Covered(w), Upload(w)
    PROVE  Covered(w)'
<1>1. TypeOK /\ WebSound(w) /\ (active[w].held => active[w] \in Leases)
  BY HeldLease DEF IInv
<1>2. /\ job[w].step = "upload" /\ active[w].held /\ active[w] \in Leases /\ active[w].pending # NoDoc
      /\ uploaded \subseteq uploaded'
      /\ UNCHANGED <<change, turn, settle, finish, local, enrolled, abandoned, left>>
  BY <1>1 DEF Upload, Step, WebSound, JobSound, service, files, Store
<1>3. active[w].pending = local[w]
  BY <1>2 DEF Covered, OneAtATime
<1>4. CASE /\ active' = [active EXCEPT ![w].etag = etag + 1, ![w].seen = active[w].pending, ![w].pending = NoDoc,
                            ![w].alien = FALSE]
           /\ Store(w) /\ UNCHANGED <<blocked, giveUp>> /\ Now(w, [step |-> "release", request |-> job[w].request])
  <2>1. active'[w].held /\ active'[w].pending = NoDoc /\ (Trusted(w)' <=> Trusted(w)) /\ job'[w].step = "release"
    BY <1>1, <1>2, <1>4 DEF Now, TypeOK, Leases, Trusted
  <2>2. Saved(w)'
    BY <1>2, <1>3, <1>4 DEF Saved, Store
  <2>3. OneAtATime(w)'
    BY <1>2, <1>4, <2>1 DEF Covered, OneAtATime, Prompting
  <2>4. Cover(w)'
    BY <1>2, <1>4, <2>1, <2>2 DEF Covered, OneAtATime, Cover, Accounted, Settles, Excused, Writing, Prompting
  <2>5. QED
    BY <2>3, <2>4 DEF Covered
<1>5. CASE /\ \/ MarkBlocked(w, "missing") \/ MarkBlocked(w, "conflict")
              \/ Uncertain(w, active[w].gone)
           /\ Now(w, Free) /\ Fails(w, job[w].request)
  <2>1. /\ active'[w].held /\ active'[w].pending = active[w].pending /\ job'[w].step = "free" /\ giveUp'[w] \in BOOLEAN
        /\ \/ blocked' = blocked /\ (Trusted(w)' <=> Trusted(w))
           \/ blocked'[w] # "none" /\ ~Trusted(w)'
    <3>1. giveUp' \in [Web -> BOOLEAN]
      BY <1>1, <1>2, <1>5, JobOf, FailsTyped DEF TypeOK
    <3>2. job'[w].step = "free"
      BY <1>1, <1>5, JobTypes DEF Now, TypeOK
    <3>3. CASE MarkBlocked(w, "missing") \/ MarkBlocked(w, "conflict")
      BY <1>1, <1>2, <3>1, <3>2, <3>3 DEF MarkBlocked, TypeOK, Leases, Trusted
    <3>4. CASE Uncertain(w, active[w].gone)
      BY <1>1, <1>2, <3>1, <3>2, <3>4 DEF Uncertain, TypeOK, Leases, Trusted
    <3>5. QED
      BY <1>5, <3>3, <3>4
  <2>2. OneAtATime(w)'
    BY <1>2, <1>3, <2>1 DEF Covered, OneAtATime, Prompting
  <2>3. Cover(w)'
    BY <1>2, <1>3, <2>1 DEF Covered, OneAtATime, Cover, Accounted, Saved, Settles, Excused, Writing, Prompting
  <2>4. QED
    BY <2>2, <2>3 DEF Covered
<1>6. QED
  BY <1>4, <1>5 DEF Upload

LEMMA CoverHeartbeat ==
    ASSUME IInv, NEW w \in Web, ~scenario.overlap, Covered(w), Heartbeat(w)
    PROVE  Covered(w)'
<1>1. TypeOK /\ WebSound(w) /\ (active[w].held => active[w] \in Leases)
  BY HeldLease DEF IInv
<1>2. /\ job[w].step \in {"free", "beat"} /\ active[w].held /\ active[w] \in Leases
      /\ UNCHANGED <<local, enrolled, abandoned, uploaded, change, turn, settle, finish, giveUp, left>>
  BY <1>1, JobTypes DEF Heartbeat, Beats, Idle, Step, WebSound, JobSound, service, users, files
<1>3. /\ active'[w].held /\ active'[w].pending = active[w].pending
      /\ job'[w].step \in {"free", "upload"}
      /\ job'[w].step = "upload" => active[w].pending # NoDoc
      /\ (blocked' = blocked /\ (Trusted(w)' <=> Trusted(w))) \/ (blocked'[w] # "none" /\ ~Trusted(w)')
  <2> DEFINE b == IF active[w].block = "uncertain" /\ ~active[w].releasePending THEN "none" ELSE active[w].block
             g == Answer(w) = "gone" /\ faults' = faults
  <2>1. \/ /\ active' = [active EXCEPT ![w].block = b] /\ blocked' = blocked
           /\ Now(w, IF active[w].pending # NoDoc /\ b = "none" THEN [step |-> "upload", request |-> FALSE] ELSE Free)
        \/ /\ MarkBlocked(w, "missing") \/ MarkBlocked(w, "conflict")
           /\ Now(w, Free)
        \/ /\ blocked' = blocked /\ Now(w, Free)
           /\ active' = [active EXCEPT ![w].block = "uncertain", ![w].gone = g]
    BY DEF Heartbeat
  <2> HIDE DEF b, g
  <2>2. QED
    BY <1>1, <1>2, <2>1, JobTypes DEF MarkBlocked, Now, TypeOK, Leases, Trusted
<1>6. OneAtATime(w)'
  BY <1>1, <1>2, <1>3 DEF Covered, OneAtATime, Prompting
<1>7. Cover(w)'
  BY <1>1, <1>2, <1>3 DEF Covered, OneAtATime, Cover, Accounted, Saved, Prompting, Settles, Excused, Writing
<1>8. QED
  BY <1>6, <1>7 DEF Covered

LEMMA CoverJoin ==
    ASSUME IInv, NEW w \in Web, ~scenario.overlap, Covered(w), NEW k \in Kinds, Join(w, k)
    PROVE  Covered(w)'
<1>1. TypeOK /\ WebSound(w) /\ (active[w].held => active[w] \in Leases)
  BY HeldLease DEF IInv
<1>2. /\ job[w] = Free /\ job[w].step = "free" /\ active[w].held /\ active[w].pending = NoDoc /\ ~active[w].doomed
      /\ change[w] = "none" /\ (k = "stop" \/ turn[w] = "no") /\ ~giveUp[w] /\ ~settle[w] /\ ~finish[w]
      /\ UNCHANGED <<active, job, blocked, local, enrolled, abandoned, uploaded, left>> /\ Granted(w, k)
      /\ ~active[w].releasePending
  BY <1>1, JobTypes DEF Join, CanAsk, Doomed, Idle, Step, WebSound, LeaseSound, service, files
<1>3. \/ k = "change" /\ change'[w] = "run" /\ UNCHANGED <<turn, settle, finish, giveUp>>
      \/ turn'[w] = "leased" /\ UNCHANGED <<change, settle, finish, giveUp>>
      \/ finish'[w] /\ k # "stop" /\ UNCHANGED <<change, turn, settle, giveUp>>
      \/ k = "stop" /\ turn'[w] = "no" /\ settle'[w] /\ finish'[w] /\ UNCHANGED <<change, giveUp>>
      \/ giveUp'[w] /\ k # "stop" /\ UNCHANGED <<change, turn, settle, finish>>
  BY <1>1, <1>2, GrantedInTurn
<1>4. local[w] # NoDoc
  BY <1>1, Constants DEF TypeOK
<1>6. OneAtATime(w)'
  BY <1>1, <1>2, <1>3, <1>4 DEF Covered, OneAtATime, Prompting, Trusted
<1>7. Cover(w)'
  BY <1>1, <1>2, <1>3, <1>4 DEF Covered, OneAtATime, Cover, Accounted, Saved, Prompting, Settles, Excused,
      Writing, Trusted
<1>8. QED
  BY <1>6, <1>7 DEF Covered

LEMMA CoverKeeps ==
    ASSUME IInv, CoverInv, [Next]_vars
    PROVE  CoverInv'
<1> SUFFICES ASSUME ~scenario.overlap PROVE \A w \in Web : Covered(w)'
  <2>1. scenario' = scenario
    <3>1. CASE UNCHANGED vars \/ Expire \/ Delete \/ PeerStep
      BY <3>1 DEF vars, users, Expire, Delete, PeerStep
    <3>2. ASSUME NEW w \in Web, Work(w) PROVE scenario' = scenario
      <4>1. CASE Acquire(w) \/ Materialize(w) \/ Renew(w) \/ Resend(w) \/ Reacquire(w) \/ Reupload(w) \/ Rebuild(w)
        BY <4>1 DEF Acquire, Materialize, Granted, Prompted, Unstreamed, Stopped, Refused, Renew, Recovered,
            StillUncertain, Resend, Reacquire, Reupload,
            Rebuild, users
      <4>2. CASE \/ Commit(w) \/ Upload(w) \/ Release(w) \/ GiveUp(w) \/ ReleaseDoomed(w) \/ HeartbeatRelease(w) \/ Heartbeat(w)
        BY <4>2 DEF Commit, Upload, Release, GiveUp, ReleaseDoomed, HeartbeatRelease, Heartbeat, users
      <4>3. QED
        BY <3>2, <4>1, <4>2 DEF Work
    <3>3. ASSUME NEW w \in Web, Asked(w) PROVE scenario' = scenario
      BY <3>3 DEF Asked, Recover, EnrolKnown, EnrolNew, WriteEntry, ChangeEnds, TurnEnds, Restart,
          ReleaseFirst, Join,
          Granted, Prompted, Unstreamed, Stopped, Refused,
          Unmanaged, Ask, users
    <3>4. QED
      BY <3>1, <3>2, <3>3 DEF Next
  <2>2. QED
    BY <2>1 DEF CoverInv
<1>1. \A w \in Web : Covered(w)
  BY DEF CoverInv
<1>2. CASE UNCHANGED vars
  BY <1>1, <1>2, CoverOthers DEF vars, service, users, files
<1>3. CASE PeerStep
  BY <1>1, <1>3, CoverOthers DEF PeerStep, users
<1>4. CASE Expire \/ Delete
  <2>1. PICK S \in SUBSET Web : Invalid(S) /\ UNCHANGED <<uploaded, blocked, job, users, files>>
    BY <1>4 DEF Expire, Delete
  <2>2. TAKE w \in Web
  <2>3. /\ active'[w].held <=> active[w].held
        /\ active[w].held => /\ active'[w].pending = active[w].pending /\ active'[w].doomed = active[w].doomed
                             /\ active'[w].releasePending = active[w].releasePending
    <3>1. active[w].held => active[w] \in Leases
      BY HeldLease DEF IInv
    <3>2. QED
      BY <2>1, <3>1 DEF Invalid, Leases
  <2>4. QED
    BY <1>1, <2>1, <2>3 DEF Covered, OneAtATime, Cover, Accounted, Saved, Prompting, Settles, Excused, Writing,
        Trusted, users, files
<1>5. ASSUME NEW w \in Web, Work(w) \/ Asked(w) PROVE \A v \in Web : Covered(v)'
  <2>1. Covered(w)'
    BY <1>1, <1>5, CoverAcquire, CoverMaterialize, CoverRelease, CoverGiveUp, CoverReleaseDoomed,
        CoverHeartbeatRelease,
        CoverRecover, CoverEnrolKnown, CoverEnrolNew, CoverWriteEntry, CoverChangeEnds, CoverTurnEnds,
        CoverRestart,
        CoverReleaseFirst, CoverUnmanaged, CoverAsk, CoverRenew, CoverResend, CoverReacquire, CoverRebuild,
        CoverCommit,
        CoverUpload, CoverHeartbeat, CoverJoin DEF Work, Asked
  <2>2. ASSUME NEW v \in Web, v # w PROVE Covered(v)'
    <3>1. OthersAlone(v)
      BY <1>5, <2>2, OthersLeft DEF IInv
    <3>2. QED
      BY <1>1, <3>1, CoverOthers DEF OthersAlone
  <2>3. QED
    BY <2>1, <2>2
<1>6. QED
  BY <1>2, <1>3, <1>4, <1>5 DEF Next

LEMMA CoverInit == Init => CoverInv
<1> SUFFICES ASSUME Init, NEW w \in Web PROVE Covered(w)
  BY DEF CoverInv
<1>1. /\ ~active[w].held /\ job[w].step = "free" /\ change[w] = "none" /\ turn[w] = "no" /\ local[w] = {}
      /\ ~settle[w] /\ ~finish[w] /\ ~giveUp[w] /\ ~enrolled[w]
  BY JobTypes DEF Init, NoLease
<1>2. QED
  BY <1>1 DEF Covered, OneAtATime, Cover, Accounted, Prompting, Settles, Excused, Writing

\* A server that synchronizes the conversation, reports no error and works on
\* nothing has uploaded every entry but those given up, unless its last turn
\* ended and nothing has settled it since.
THEOREM SettledUploadedCorrect == Spec => []SettledUploaded
<1>1. IInv /\ CoverInv => SettledUploaded
  <2> SUFFICES ASSUME IInv, CoverInv, ~scenario.overlap, NEW w \in Web, AtRest(w), enrolled[w], ~left[w]
               PROVE  local[w] \subseteq uploaded \cup abandoned[w]
    BY DEF SettledUploaded
  <2>1. TypeOK /\ LeaseSound(w) /\ Covered(w) /\ job[w].step = "free" /\ local[w] # NoDoc
    BY JobTypes, Constants DEF IInv, WebSound, CoverInv, AtRest, Idle, TypeOK
  <2>2. ~Writing(w) /\ ~Settles(w)
    BY DEF AtRest, Writing, Settles
  <2>3. CASE active[w].held
    <3>1. active[w].pending = NoDoc /\ Trusted(w)
      BY <2>1, <2>3 DEF AtRest, LeaseSound, Step, Trusted
    <3>2. blocked[w] = "none"
      BY <2>1, <2>3, <3>1 DEF Covered, OneAtATime
    <3>3. QED
      BY <2>1, <2>2, <3>1, <3>2 DEF Covered, Cover, Excused, Accounted, Saved
  <2>4. CASE ~active[w].held
    BY <2>1, <2>2, <2>4 DEF AtRest, Covered, Cover, Excused, Accounted, Saved
  <2>5. QED
    BY <2>3, <2>4
<1>2. IInv /\ CoverInv /\ [Next]_vars => CoverInv'
  BY CoverKeeps
<1>3. QED
  BY <1>1, <1>2, CoverInit, Invariant, PTL DEF Spec
=============================================================================
