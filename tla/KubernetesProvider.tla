------------------------- MODULE KubernetesProvider -------------------------
(***************************************************************************)
(* workspaced/kubernetes.js: one worker as a Deployment and a volume in a  *)
(* cluster, in the namespace of its grant.  Nothing serializes the calls;  *)
(* each awaits the cluster's API between its steps, and the cluster takes  *)
(* its time: pods start and go, and a deleted volume goes when no running  *)
(* pod holds it.  The cluster is external; any request may fail.           *)
(***************************************************************************)
EXTENDS Naturals

CONSTANTS
    KCall,      \* calls of the provider: create, remove, reset, scale
    Space,      \* the namespaces of the grants
    KHome,      \* the default one
    NoSpace,
    MaxVolumes, \* bound: volumes made
    MaxKFaults  \* bound: requests that fail or time out

ASSUME KubernetesAssumption ==
    /\ KHome \in Space /\ NoSpace \notin Space
    /\ MaxVolumes \in Nat \ {0} /\ MaxKFaults \in Nat

VARIABLES
    deployment, \* per namespace: number of replicas wanted, or NoDeployment
    pod,        \* per namespace: none, pending or on
    volume,     \* per namespace: the volume, by its number, or 0
    doomed,     \* namespaces whose volume is being deleted
    located,    \* the provider's note of where the worker is
    volumes, kfaults, kcall

kVars == <<deployment, pod, volume, doomed, located, volumes, kfaults, kcall>>
cluster == <<deployment, pod, volume, doomed, volumes>>

NoDeployment == 2
Kinds == {"create", "remove", "purge", "reset", "sleep", "wake"}
KRest == [kind |-> "none", step |-> "rest", space |-> NoSpace, old |-> 0, answer |-> "none", alone |-> TRUE]
KTypeOK ==
    /\ deployment \in [Space -> {0, 1, NoDeployment}] /\ pod \in [Space -> {"none", "pending", "on"}]
    /\ volume \in [Space -> 0..MaxVolumes] /\ doomed \subseteq Space /\ \A n \in doomed : volume[n] # 0
    /\ located \in Space \cup {NoSpace} /\ volumes \in 0..MaxVolumes /\ kfaults \in 0..MaxKFaults
    /\ kcall \in [KCall -> [kind : Kinds \cup {"none"}, answer : {"none", "ok", "failed"}, alone : BOOLEAN,
           step : {"rest", "locate", "down", "gone", "wipe", "wiped", "volume", "deploy", "up"},
           space : Space \cup {NoSpace}, old : 0..MaxVolumes]]

KInit ==
    /\ \E n \in Space :
        /\ deployment = [m \in Space |-> IF m = n THEN 1 ELSE NoDeployment]
        /\ pod = [m \in Space |-> IF m = n THEN "on" ELSE "none"]
        /\ volume = [m \in Space |-> IF m = n THEN 1 ELSE 0]
    /\ doomed = {} /\ located = NoSpace /\ volumes = 1 /\ kfaults = 0
    /\ kcall = [c \in KCall |-> KRest]

\* What one of two overlapping calls undoes is not held against the other.
KCalled(c, kind, space) ==
    /\ kcall[c].step = "rest" /\ kcall[c].kind = "none"
    /\ kcall' = [d \in KCall |->
        IF d = c THEN [KRest EXCEPT !.kind = kind, !.step = "locate", !.space = space, !.old = 0,
                                    !.alone = \A e \in KCall : kcall[e].step = "rest"]
        ELSE IF kcall[d].step # "rest" THEN [kcall[d] EXCEPT !.alone = FALSE] ELSE kcall[d]]
    /\ UNCHANGED <<cluster, located, kfaults>>

To(c, step) == kcall' = [kcall EXCEPT ![c].step = step]
KAnswer(c, how) == kcall' = [kcall EXCEPT ![c].step = "rest", ![c].answer = how]
KFault == kfaults < MaxKFaults /\ kfaults' = kfaults + 1
On(c, kinds, step) == kcall[c].step = step /\ kcall[c].kind \in kinds
KFails(c) ==
    /\ kcall[c].step # "rest" /\ KFault /\ KAnswer(c, "failed") /\ UNCHANGED <<cluster, located>>

Deployed == {n \in Space : deployment[n] # NoDeployment}

\* locate, and what each call makes of it: the noted namespace is tried first.
Found == IF located \in Deployed THEN located ELSE CHOOSE n \in Deployed : TRUE
Locate(c) ==
    /\ kcall[c].step = "locate"
    /\ IF Deployed = {}
       THEN /\ located' = NoSpace
            /\ CASE kcall[c].kind = "create" -> To(c, "volume")
                 [] kcall[c].kind \in {"remove", "purge"} -> kcall' = [kcall EXCEPT ![c].step = "down", ![c].space = KHome]
                 [] OTHER -> KAnswer(c, "failed")
       ELSE /\ located' = Found
            /\ IF kcall[c].kind = "create" /\ Found # kcall[c].space THEN KAnswer(c, "failed")
               ELSE kcall' = [kcall EXCEPT ![c].space = Found, ![c].old = volume[Found],
                                ![c].step = CASE kcall[c].kind = "create" -> "volume" [] kcall[c].kind = "wake" -> "up" [] OTHER -> "down"]
    /\ UNCHANGED <<cluster, kfaults>>

\* A patch locates the Deployment once more.
Patch(c, replicas, then) ==
    /\ IF Deployed = {} THEN KAnswer(c, "failed") /\ UNCHANGED <<deployment, located>>
       ELSE /\ located' = Found /\ deployment' = [deployment EXCEPT ![Found] = replicas]
            /\ IF then = "rest" THEN KAnswer(c, "ok") ELSE To(c, then)
    /\ UNCHANGED <<pod, volume, doomed, volumes, kfaults>>
ScaleDown(c) == On(c, {"sleep", "reset"}, "down") /\ Patch(c, 0, IF kcall[c].kind = "sleep" THEN "rest" ELSE "gone")
ScaleUp(c) == On(c, {"wake", "reset"}, "up") /\ Patch(c, 1, "rest")

\* DELETE of the Deployment, and for a purge of the volume.
DeleteDeployment(c) ==
    /\ On(c, {"remove", "purge"}, "down")
    /\ deployment' = [deployment EXCEPT ![kcall[c].space] = NoDeployment]
    /\ To(c, IF kcall[c].kind = "purge" THEN "wipe" ELSE "gone")
    /\ UNCHANGED <<pod, volume, doomed, located, volumes, kfaults>>
DeleteVolume(c) ==
    /\ On(c, {"purge", "reset"}, "wipe") /\ To(c, "wiped")
    /\ doomed' = IF volume[kcall[c].space] # 0 THEN doomed \cup {kcall[c].space} ELSE doomed
    /\ UNCHANGED <<deployment, pod, volume, located, volumes, kfaults>>

PodsGone(c) == pod[kcall[c].space] = "none"
\* The status of the answer with the pods is not looked at: an error has no pods.
PodsSeenGone(c) == (PodsGone(c) /\ UNCHANGED kfaults) \/ KFault
\* Mutant: only the pods are waited for.
VolumeIgnored(c) == kcall[c].step = "wiped"
VolumeGone(c) == volume[kcall[c].space] = 0
\* waitGone
WaitGone(c) ==
    /\ \/ On(c, {"remove"}, "gone") /\ KAnswer(c, "ok") /\ located' = NoSpace
       \/ On(c, {"reset"}, "gone") /\ To(c, "wipe") /\ UNCHANGED located
       \/ On(c, {"purge"}, "wiped") /\ VolumeGone(c) /\ KAnswer(c, "ok") /\ located' = NoSpace
       \/ On(c, {"reset"}, "wiped") /\ VolumeGone(c) /\ To(c, "volume") /\ UNCHANGED located
    /\ PodsSeenGone(c) /\ UNCHANGED cluster

\* create: what is already there, or on its way out, is left as it is (409).
CreateVolume(c) ==
    /\ On(c, {"create", "reset"}, "volume") /\ To(c, IF kcall[c].kind = "reset" THEN "up" ELSE "deploy")
    /\ IF volume[kcall[c].space] # 0 THEN UNCHANGED <<volume, volumes>>
       ELSE /\ volumes < MaxVolumes /\ volumes' = volumes + 1
            /\ volume' = [volume EXCEPT ![kcall[c].space] = volumes + 1]
    /\ UNCHANGED <<deployment, pod, doomed, located, kfaults>>
CreateDeployment(c) ==
    /\ On(c, {"create"}, "deploy") /\ KAnswer(c, "ok") /\ located' = kcall[c].space
    /\ deployment' = [deployment EXCEPT ![kcall[c].space] = IF @ = NoDeployment THEN 1 ELSE @]
    /\ UNCHANGED <<pod, volume, doomed, volumes, kfaults>>

\* The cluster.
PodChanges(n) ==
    /\ \/ pod[n] = "none" /\ deployment[n] = 1 /\ pod' = [pod EXCEPT ![n] = "pending"]
       \/ pod[n] = "pending" /\ volume[n] # 0 /\ n \notin doomed /\ pod' = [pod EXCEPT ![n] = "on"]
       \/ pod[n] # "none" /\ deployment[n] # 1 /\ pod' = [pod EXCEPT ![n] = "none"]
    /\ UNCHANGED <<deployment, volume, doomed, located, volumes, kfaults, kcall>>
VolumeGoes(n) ==
    /\ n \in doomed /\ pod[n] # "on"
    /\ volume' = [volume EXCEPT ![n] = 0] /\ doomed' = doomed \ {n}
    /\ UNCHANGED <<deployment, pod, located, volumes, kfaults, kcall>>

KNext ==
    \/ \E c \in KCall :
        \/ \E kind \in Kinds : \E n \in IF kind = "create" THEN Space ELSE {NoSpace} : KCalled(c, kind, n)
        \/ KFails(c) \/ Locate(c) \/ ScaleDown(c) \/ ScaleUp(c) \/ DeleteDeployment(c) \/ DeleteVolume(c)
        \/ WaitGone(c) \/ CreateVolume(c) \/ CreateDeployment(c)
    \/ \E n \in Space : PodChanges(n) \/ VolumeGoes(n)

\* A call that overlapped no other tells the truth when it answers: after a reset
\* the worker is to run on a volume that is new and stays, after a removal no
\* Deployment is left where it looked, after a purge no volume; and no pods,
\* unless the last list of them was an error, which waitGone takes for none.
Misread == kfaults' # kfaults
KubernetesAnswersTrue ==
    [][kcall' # kcall => \A c \in KCall :
        LET n == kcall'[c].space
        IN kcall[c].step # "rest" /\ kcall'[c].answer = "ok" /\ kcall'[c].alone =>
            CASE kcall[c].kind = "reset" -> volume'[n] \notin {0, kcall[c].old} /\ n \notin doomed' /\ deployment'[n] = 1
              [] kcall[c].kind \in {"remove", "purge"} ->
                    /\ deployment'[n] = NoDeployment /\ (pod'[n] = "none" \/ Misread)
                    /\ kcall[c].kind = "purge" => volume'[n] = 0
              [] OTHER -> TRUE]_kVars
=============================================================================
