----------------------------- MODULE RunnerSystem -----------------------------
(***************************************************************************)
(* One Runner name with everything that acts on it: the users, the Runner  *)
(* controller, the informers that feed it, the Github webhook handler, and *)
(* the Pod with its registration.                                          *)
(***************************************************************************)
EXTENDS RunnerController, RunnerPod, GithubHook

Init ==
    /\ runner = NoRunner(0) /\ runnerCache = NoRunner(0)
    /\ pod = NoPod /\ podCache = NoPod
    /\ secret = NoSecret /\ secretCache = NoSecret
    /\ stale = {}
    /\ agent = 0
    /\ github = [i \in 1..MaxRegistrations |-> "unused"]
    /\ hooks = {}
    /\ queued = FALSE
    /\ pc = "idle"
    /\ before = NoRunner(0) /\ mem = NoRunner(0)
    /\ locked = FALSE /\ requeue = FALSE

-----------------------------------------------------------------------------
(* Users (or a RunnerSet) create and delete the Runner.                    *)

CreateRunner ==
    /\ ~runner.alive /\ runner.uid < MaxUid
    /\ WriteRunner(NewRunner(runner.uid + 1))
    /\ UNCHANGED <<pod, secret, caches, outside, queued, worker>>

DeleteRunner ==
    /\ runner.alive /\ ~runner.deleting
    /\ WriteRunner(IF runner.finalizer THEN [runner EXCEPT !.deleting = TRUE]
                                       ELSE NoRunner(runner.uid))
    /\ UNCHANGED <<pod, secret, caches, outside, queued, worker>>

-----------------------------------------------------------------------------
(* SetupWithManager: For(Runner) and Owns(Pod).  A change that reaches the *)
(* cache is an event for the work queue; Secrets are cached, not watched.  *)

SyncRunner ==
    /\ "runner" \in stale
    /\ runnerCache' = runner
    /\ stale' = stale \ {"runner"}
    /\ queued' = TRUE
    /\ UNCHANGED <<objects, podCache, secretCache, outside, worker>>

SyncPod ==
    /\ "pod" \in stale
    /\ podCache' = pod
    /\ stale' = stale \ {"pod"}
    /\ queued' = TRUE
    /\ UNCHANGED <<objects, runnerCache, secretCache, outside, worker>>

SyncSecret ==
    /\ "secret" \in stale
    /\ secretCache' = secret
    /\ stale' = stale \ {"secret"}
    /\ UNCHANGED <<objects, runnerCache, podCache, outside, queued, worker>>

\* the manager dies at any step and is started again: its caches are listed
\* anew and every listed object is an event
RestartController ==
    /\ "crash" \in Faults
    /\ pc # "idle"
    /\ runnerCache' = runner /\ podCache' = pod /\ secretCache' = secret
    /\ stale' = {}
    /\ pc' = "idle"
    /\ queued' = TRUE
    /\ mem' = NoRunner(0) /\ before' = NoRunner(0)
    /\ locked' = FALSE /\ requeue' = FALSE
    /\ UNCHANGED <<objects, outside>>

Environment == CreateRunner \/ DeleteRunner \/ SyncRunner \/ SyncPod \/ SyncSecret
               \/ RestartController

Next == ReconcileStep \/ PodStep \/ HookStep \/ Environment

Spec == Init /\ [][Next]_vars

Kubelet   == PodStarts \/ PodReady \/ PodSucceeds \/ TerminatePod
Container == RegisterRunner \/ RegisterFails \/ RunnerOnline \/ JobDone

(***************************************************************************)
(* Fairness.  The worker takes keys from its queue and finishes what it    *)
(* started; informers deliver; the kubelet, the garbage collector and the  *)
(* Github runner make progress; Github delivers its webhooks.  Users,      *)
(* Github's choice to assign a job, faults and the clock owe nothing.      *)
(***************************************************************************)
Fairness ==
    /\ WF_vars(ReconcileStep)
    /\ WF_vars(SyncRunner) /\ WF_vars(SyncPod) /\ WF_vars(SyncSecret)
    /\ WF_vars(Kubelet) /\ WF_vars(Container) /\ WF_vars(GCPod \/ GCSecret)
    /\ \A i \in 1..MaxRegistrations : WF_vars(ProcessWorkflowJobEvent(i))

FairSpec == Spec /\ Fairness

-----------------------------------------------------------------------------
(* Safety.                                                                 *)

\* the Pod is gone or on its way out
PodReleased == PodExists => pod.terminating

\* A Runner that held the controller's finalizer leaves the API server only
\* after its Pod was deleted (or is terminating) and its token Secret is
\* gone: Reconcile removes the finalizer last, whatever failed before.
TeardownBeforeRelease ==
    [][runner.alive /\ runner.finalizer /\ ~runner'.alive
         => PodReleased /\ ~SecretExists]_vars

Life == INSTANCE RunnerLife
          WITH exists <- runner.alive, deleting <- runner.deleting,
               held <- runner.finalizer, phase <- runner.phase,
               inUse <- ~(PodReleased /\ ~SecretExists)

\* Pod, Secret, caches and patches implement the simple life of a Runner its
\* owner counts on: no stale patch withdraws a deletion, takes the finalizer
\* off early, empties the status or lets go of a Runner still in use.
ImplementsLife == Life!LifeSpec

\* The steps of the deletion branch leave their trace in this order: the
\* finalizer stays in memory until the Secret is deleted, the Secret is
\* deleted after the Pod, and nothing brings either back in between.
ReleaseOrder ==
    /\ runner.deleting => runner.finalizer
    /\ runnerCache.deleting => runnerCache.finalizer
    /\ pc \notin {"idle", "patchMeta", "patchStatus"} => mem.finalizer
    /\ pc = "deleteSecret" => PodReleased
    /\ pc = "patchMeta" /\ ~mem.finalizer => PodReleased /\ ~SecretExists

\* No reconcile of an earlier incarnation, working from a stale cache,
\* deletes the Pod or the Secret of the Runner that has the name now, or
\* strips its finalizer, unless that Runner is itself being deleted.
SparesLiveRunner ==
    [][runner.alive /\ ~runner.deleting /\ pc # "idle" /\ pc' # pc =>
         /\ pod.owner = runner.uid => pod'.terminating = pod.terminating
         /\ secret.owner = runner.uid => secret'.owner = runner.uid
         /\ runner.finalizer => runner'.finalizer]_vars

\* Why that holds: a reconcile works on the incarnation it read, no Pod or
\* Secret belongs to a later one, and a deletion that a cache or a reconcile
\* has seen is either still pending or long over for a Runner without the
\* finalizer.
IncarnationOrder ==
    /\ pod.owner <= runnerCache.uid /\ secret.owner <= runnerCache.uid
    /\ runnerCache.uid <= runner.uid
    /\ runner.alive => runner.uid > 0
    /\ runner.deleting => runner.alive
    /\ runnerCache.deleting =>
         \/ runnerCache.uid = runner.uid /\ (runner.alive => runner.deleting)
         \/ runnerCache.uid < runner.uid /\ ~runner.finalizer
    /\ pc \notin {"idle", "patchStatus"} =>
         /\ pod.owner <= mem.uid /\ secret.owner <= mem.uid
         /\ mem.uid <= runnerCache.uid
         /\ IF mem.deleting
            THEN /\ before.finalizer
                 /\ \/ mem.uid = runner.uid /\ (runner.alive => runner.deleting)
                    \/ mem.uid < runner.uid /\ ~runner.finalizer
            ELSE /\ mem.finalizer
                 /\ pc \notin {"checkBusy", "refreshSecret", "deletePod", "deleteSecret"}
                 /\ runnerCache.deleting =>
                      runnerCache.uid = runner.uid /\ runner.deleting

\* When the controller creates the Pod of a Runner that still exists, the
\* Secret its volume mounts is there, belongs to the same Runner, and holds
\* a token Github still accepts.
PodStartsWithUsableToken ==
    [][~PodExists /\ pod'.owner # 0 /\ OwnerAlive(pod'.owner)
         => secret.owner = pod'.owner /\ secret.token # "expired"]_vars

\* Nothing is under way that could still wake the controller.
Quiescent ==
    /\ pc = "idle" /\ ~queued /\ hooks = {}
    /\ {"runner", "pod"} \cap stale = {}

\* what status.phase should say of the Pod and the registration
RightPhase ==
    \/ pod.phase = "Pending" /\ runner.phase = "Pending"
    \/ pod.phase = "Failed" /\ runner.phase = "Pending"
    \/ pod.phase = "Running" /\ ~pod.ready /\ runner.phase = "Pending"
    \/ pod.phase = "Succeeded" /\ runner.phase = "Complete" /\ runner.online = "False"
    \/ /\ pod.phase = "Running" /\ pod.ready
       /\ agent = runner.id /\ runner.os /\ runner.online = "True"
       /\ \/ github[agent] = "online" /\ runner.phase = "Idle"
          \/ /\ github[agent] \in {"busy", "gone"} /\ runner.phase = "Active"
             /\ EvictionPolicy = "IfNotActive" => pod.evict = "false"

\* nothing is left to do, and the Runner is as it should be; its status says so
RestsWith(status) ==
    Quiescent /\ runner.alive =>
        /\ ~runner.deleting
        /\ runner.finalizer
        /\ pod.owner = runner.uid
        /\ status

\* No wake-up is lost: whenever the controller has nothing left to do, no
\* deletion is pending, and a live Runner has its finalizer, its Pod and a
\* status that tells the truth about both Pod and Github, whatever order
\* patches, cache updates and webhook deliveries came in.
QuiescentStatus == RestsWith(RightPhase)

\* the job the status does not know of
HiddenJob ==
    /\ pod.phase = "Running" /\ pod.ready
    /\ agent = runner.id /\ runner.os /\ runner.online = "True"
    /\ github[agent] \in {"busy", "gone"} /\ runner.phase = "Idle"

\* Github does not deliver twice, and the handler does not try twice
\* (github_hook.go:180).  A delivery that is lost, or whose patch fails, costs
\* no more than the phase Active: a registered Runner stays Idle, and
\* everything else the status says is true.
LostDeliveryHidesJobOnly == RestsWith(RightPhase \/ HiddenJob)

\* A Runner becomes Active only once its Pod is protected from eviction:
\* the annotation is patched before the status.
ActiveIsProtected ==
    [][runner'.alive /\ runner'.phase = "Active" /\ runner.phase # "Active"
         /\ pod.owner = runner'.uid /\ EvictionPolicy = "IfNotActive"
         => pod.evict = "false"]_vars

\* Complete is final for a Runner whose name is used once and whose Pod is
\* not evicted: a stale cache never takes it back to an earlier phase.
CompleteIsFinal ==
    [][runner.phase = "Complete" /\ runner'.alive /\ runner'.uid = runner.uid
         => runner'.phase = "Complete"]_vars

-----------------------------------------------------------------------------
(* Statements of the repository's comments, documents and tests that the   *)
(* code does not keep.                                                     *)

\* "If the runner is in the active phase wait until finish its job."
\* (runner_controller.go:105)
ActiveWaitsForJob ==
    [][pc = "deletePod" /\ pc' # pc /\ pod.owner = runner.uid
         /\ runner.phase = "Active" /\ agent # 0 /\ agent = runner.id
         /\ github[agent] = "busy"
         => pod'.terminating = pod.terminating]_vars

\* A Status Patch is issued when "the beforeStatus and afterStatus copies
\* differ" (util/patch/patch.go:111), and the caller's object is "Expected
\* after to be the same after patching" (util/patch/patch_test.go:97): the
\* first patch leaves the status alone that the second is to store.
PatchKeepsStatus ==
    [][pc = "patchMeta" /\ pc' = "patchStatus"
         => mem'.phase = mem.phase /\ mem'.online = mem.online]_vars

-----------------------------------------------------------------------------
(* Liveness.                                                               *)

\* A deleted Runner goes away, even if it was running a job.
DeletionCompletes == runner.deleting ~> ~runner.deleting

\* A Runner that is left alone comes up: it is registered and Idle, or has
\* gone on from there, unless the token in its Secret expires first;
\* although the first Idle status may be lost to the Patcher's two patches.
RunnerComesUp ==
    (runner.alive /\ ~runner.deleting)
        ~> (~runner.alive \/ runner.deleting
            \/ (SecretExists /\ secret.token = "expired")
            \/ runner.phase \in {"Idle", "Active", "Complete"})

\* A container that cannot register because its token has expired gets a
\* new one: its restarts wake the controller, which refreshes the Secret.
ExpiredTokenIsReplaced ==
    (Running /\ agent = 0 /\ secret.token = "expired")
        ~> (secret.token # "expired" \/ ~Running \/ pod.terminating)

=============================================================================
