----------------------------- MODULE ClusterState -----------------------------
(***************************************************************************)
(* The state the Runner controller shares with the rest of the cluster:    *)
(* one Runner name, its Pod and its registration token Secret on the API   *)
(* server, the informer caches the controller reads, and what Github knows *)
(* of the registrations made under that name.                              *)
(*                                                                         *)
(*   runner       the Runner object on the API server.  A name can be      *)
(*                deleted and created again: uid tells the incarnations    *)
(*                apart, alive says whether the current one still exists.  *)
(*   pod, secret  the objects podForRunner and secretForRunner name;       *)
(*                owner is the uid in their controller reference, 0 when   *)
(*                the object does not exist.                               *)
(*   runnerCache, podCache, secretCache                                    *)
(*                their copies in the informer caches.                     *)
(*   stale        the copies that are behind the server: "runner", "pod"   *)
(*                and "secret" name the caches, "resp" the answer to the   *)
(*                first patch of a reconcile.  It stands for comparing     *)
(*                resourceVersions: an object may change and change back.  *)
(*   agent        agentId in the .runner file of the running container,    *)
(*                0 when there is no such file.                            *)
(*   github       registration id -> what the Github API says of it.       *)
(*   hooks        workflow_job "in_progress" deliveries on their way.      *)
(*   queued       the key waits in the controller's work queue.            *)
(*   pc, before, mem, locked, requeue                                      *)
(*                the one reconcile in progress: its position, the object  *)
(*                as read, the object in memory, whether its second patch  *)
(*                carries the resourceVersion the first one answered, and  *)
(*                whether the key goes back to the queue at the end.       *)
(***************************************************************************)
EXTENDS Naturals, FiniteSets

CONSTANTS
    MaxUid,            \* incarnations of the Runner name
    MaxRegistrations,  \* registrations Github hands out to that name
    EvictionPolicy,    \* spec.evictionPolicy of the Runner
    Faults             \* what may go wrong: see FaultKinds

(***************************************************************************)
(*   "call"   an API server, exec or Github call of the reconciler fails   *)
(*   "denied" Github answers 403 or 404 because access was withdrawn       *)
(*   "hook"   a webhook delivery is lost, or its handler's patch fails     *)
(*   "crash"  the manager process dies and is started again                *)
(*   "container" the runner container crashes and is restarted             *)
(*   "pod"    the kubelet fails the pod                                    *)
(*   "evict"  the cluster autoscaler evicts the pod where it may           *)
(*   "expiry" a registration token grows old while it is in use            *)
(***************************************************************************)
FaultKinds == {"call", "denied", "hook", "crash", "container", "pod", "evict", "expiry"}

ASSUME ConstantsAssumption ==
    /\ MaxUid \in Nat
    /\ MaxRegistrations \in Nat
    /\ EvictionPolicy \in {"Never", "IfNotActive"}
    /\ Faults \subseteq FaultKinds

VARIABLES
    runner, pod, secret, runnerCache, podCache, secretCache, stale, agent,
    github, hooks, queued, pc, before, mem, locked, requeue

objects  == <<runner, pod, secret>>
caches   == <<runnerCache, podCache, secretCache>>
outside  == <<agent, github, hooks>>
worker   == <<pc, before, mem, locked, requeue>>
vars     == <<runner, pod, secret, runnerCache, podCache, secretCache, stale,
              agent, github, hooks, queued, pc, before, mem, locked, requeue>>

-----------------------------------------------------------------------------
Uid            == 0..MaxUid
RegistrationID == 0..MaxRegistrations          \* 0: spec.id is nil

\* status.phase; "" before the first status write
RunnerPhase    == {"", "Pending", "Idle", "Active", "Complete"}

\* the runner.octorun.github.io/Online condition; "" when it is absent
OnlineStatus   == {"", "True", "False"}

RunnerObject   == [alive     : BOOLEAN,
                   uid       : Uid,
                   deleting  : BOOLEAN,         \* deletionTimestamp is set
                   finalizer : BOOLEAN,         \* RunnerController finalizer
                   id        : RegistrationID,  \* spec.id
                   os        : BOOLEAN,         \* spec.os is filled in
                   phase     : RunnerPhase,
                   online    : OnlineStatus]

PodObject      == [owner       : Uid,
                   phase       : {"Pending", "Running", "Succeeded", "Failed"},
                   ready       : BOOLEAN,
                   terminating : BOOLEAN,
                   evict       : {"", "true", "false"}]   \* safe-to-evict

\* a token is "fresh", then within the five minutes IsTokenExpired adds
\* ("expiring"), then refused by Github ("expired")
SecretObject   == [owner : Uid, token : {"fresh", "expiring", "expired"}]

Registration   == {"unused", "offline", "online", "busy", "gone"}

Copies == {"runner", "pod", "secret", "resp"}

Steps == {"idle", "checkBusy", "refreshSecret", "deletePod", "deleteSecret",
          "ensureSecret", "ensurePod", "findID", "getRunner", "annotatePod",
          "patchMeta", "patchStatus"}

NewRunner(u) == [alive |-> TRUE, uid |-> u, deleting |-> FALSE,
                 finalizer |-> FALSE, id |-> 0, os |-> FALSE,
                 phase |-> "", online |-> ""]
NoRunner(u)  == [NewRunner(u) EXCEPT !.alive = FALSE]

\* podForRunner: the annotation is there from the start for IfNotActive
NewPod(u)    == [owner |-> u, phase |-> "Pending", ready |-> FALSE,
                 terminating |-> FALSE,
                 evict |-> IF EvictionPolicy = "IfNotActive" THEN "true" ELSE ""]
NoPod        == [NewPod(0) EXCEPT !.evict = ""]

NoSecret     == [owner |-> 0, token |-> "expired"]

PodExists    == pod.owner # 0
SecretExists == secret.owner # 0

\* the Pod's container runs
Running      == PodExists /\ pod.phase = "Running"

\* the object an owner reference with uid u points at still exists
OwnerAlive(u) == runner.alive /\ runner.uid = u

\* a write of an object leaves every copy of it behind; one that changes
\* nothing leaves the resourceVersion alone
WriteRunner(r) ==
    /\ runner' = r
    /\ stale' = IF r = runner THEN stale
                ELSE stale \cup {"runner"} \cup (IF locked THEN {"resp"} ELSE {})
WritePod(p) ==
    /\ pod' = p
    /\ stale' = IF p = pod THEN stale ELSE stale \cup {"pod"}
WriteSecret(s) ==
    /\ secret' = s
    /\ stale' = stale \cup {"secret"}

\* mutant: the five minutes are forgotten
IsTokenExpiredNoMargin(s) == s.owner = 0 \/ s.token = "expired"

\* no annotation, or an expiry time before now plus five minutes
IsTokenExpired(s) == s.owner = 0 \/ s.token # "fresh"

\* Every object, cached copy and step of the reconcile has its type: what
\* Reconcile writes into a status is a Runner phase, never a Pod phase.
TypeOK ==
    /\ runner \in RunnerObject
    /\ pod \in PodObject
    /\ secret \in SecretObject
    /\ runnerCache \in RunnerObject
    /\ podCache \in PodObject
    /\ secretCache \in SecretObject
    /\ stale \subseteq Copies
    /\ agent \in RegistrationID
    /\ github \in [1..MaxRegistrations -> Registration]
    /\ hooks \subseteq 1..MaxRegistrations
    /\ queued \in BOOLEAN
    /\ pc \in Steps
    /\ before \in RunnerObject
    /\ mem \in RunnerObject
    /\ locked \in BOOLEAN
    /\ requeue \in BOOLEAN

=============================================================================
