----------------------- MODULE RunnerIncarnationProofs -----------------------
(***************************************************************************)
(* A Runner name that is used again: TLAPS proves that reconciles working  *)
(* from a stale cache spare the Runner that has the name now.              *)
(***************************************************************************)
EXTENDS RunnerSystemProofs

Incarnations == Release /\ IncarnationOrder

\* The uids that are compared are numbers.
LEMMA UidsAreNumbers ==
    ASSUME TypeOK
    PROVE  /\ runner.uid \in Nat /\ runnerCache.uid \in Nat /\ mem.uid \in Nat
           /\ pod.owner \in Nat /\ secret.owner \in Nat
<1>1. \A u \in Uid : u \in Nat
  BY ConstantsAssumption DEF Uid
<1>2. /\ runner.uid \in Uid /\ runnerCache.uid \in Uid /\ mem.uid \in Uid
      /\ pod.owner \in Uid /\ secret.owner \in Uid
  BY DEF TypeOK, RunnerObject, PodObject, SecretObject
<1>3. QED
  BY <1>1, <1>2

\* What the actions do to the fields that IncarnationOrder reads.
LEMMA RunnerFields ==
    ASSUME TypeOK
    PROVE  /\ NewRunner(runner.uid + 1).uid = runner.uid + 1
           /\ ~NewRunner(runner.uid + 1).deleting
           /\ ~NewRunner(runner.uid + 1).finalizer
           /\ NewRunner(runner.uid + 1).alive
           /\ NoRunner(runner.uid).uid = runner.uid
           /\ ~NoRunner(runner.uid).deleting
           /\ ~NoRunner(runner.uid).finalizer
           /\ ~NoRunner(runner.uid).alive
           /\ [runner EXCEPT !.deleting = TRUE].uid = runner.uid
           /\ [runner EXCEPT !.deleting = TRUE].deleting
           /\ [runner EXCEPT !.deleting = TRUE].finalizer = runner.finalizer
           /\ [runner EXCEPT !.deleting = TRUE].alive = runner.alive
BY DEF NewRunner, NoRunner, TypeOK, RunnerObject

\* No incarnation exists in an empty cluster.
LEMMA InitIncarnations == Init => Incarnations
<1>1. Init => Release
  BY InitRelease
<1>2. /\ NoRunner(0).uid = 0 /\ ~NoRunner(0).deleting /\ ~NoRunner(0).alive
      /\ NoPod.owner = 0 /\ NoSecret.owner = 0
  BY DEF NoRunner, NewRunner, NoPod, NewPod, NoSecret
<1>3. Init => IncarnationOrder
  BY <1>2 DEF Init, IncarnationOrder
<1>4. QED
  BY <1>1, <1>3 DEF Incarnations

\* The kubelet, the garbage collector and the clock never raise an owner.
LEMMA PodStepIncarnations == ASSUME Incarnations, PodStep PROVE IncarnationOrder'
<1>1. UNCHANGED <<runner, runnerCache, pc, mem, before>>
  BY DEF PodStep, RegisterRunner, RegisterFails, RunnerOnline, AssignJob, JobDone,
         PodChanges, PodStarts, PodReady, PodSucceeds, ContainerCrash, PodFails,
         TerminatePod, EvictPod, GCPod, GCSecret, TokenAges, objects, caches, worker
<1>2. pod'.owner = pod.owner \/ pod'.owner = 0
  BY DEF PodStep, RegisterRunner, RegisterFails, RunnerOnline, AssignJob, JobDone,
         PodChanges, PodStarts, PodReady, PodSucceeds, ContainerCrash, PodFails,
         TerminatePod, EvictPod, GCPod, GCSecret, TokenAges, objects, WritePod,
         NoPod, NewPod, Incarnations, Release, TypeOK, PodObject
<1>3. secret'.owner = secret.owner \/ secret'.owner = 0
  BY DEF PodStep, RegisterRunner, RegisterFails, RunnerOnline, AssignJob, JobDone,
         PodChanges, PodStarts, PodReady, PodSucceeds, ContainerCrash, PodFails,
         TerminatePod, EvictPod, GCPod, GCSecret, TokenAges, objects, WriteSecret,
         NoSecret, Incarnations, Release, TypeOK, SecretObject
<1>4. QED
  BY <1>1, <1>2, <1>3, UidsAreNumbers DEF Incarnations, Release, IncarnationOrder

\* The webhook handler changes no uid and no finalizer.
LEMMA HookIncarnations == ASSUME Incarnations, HookStep PROVE IncarnationOrder'
BY DEF HookStep, ProcessWorkflowJobEvent, HookLost, objects, caches, worker,
       Incarnations, IncarnationOrder

\* A new incarnation is later than all others and has no finalizer.
LEMMA UserIncarnations ==
    ASSUME Incarnations, CreateRunner \/ DeleteRunner PROVE IncarnationOrder'
<1>1. UNCHANGED <<pod, secret, runnerCache, pc, mem, before>>
  BY DEF CreateRunner, DeleteRunner, caches, worker
<1>2. CASE CreateRunner
  <2>1. /\ runner'.uid = runner.uid + 1 /\ ~runner'.deleting
        /\ ~runner'.finalizer /\ runner'.alive
    BY <1>2, RunnerFields DEF CreateRunner, WriteRunner, Incarnations, Release
  <2>2. ~runner.deleting
    BY <1>2 DEF CreateRunner, Incarnations, IncarnationOrder
  <2>3. QED
    BY <1>1, <2>1, <2>2, UidsAreNumbers DEF Incarnations, Release, IncarnationOrder
<1>3. CASE DeleteRunner
  <2>1. /\ runner'.uid = runner.uid
        /\ runner'.alive => runner'.deleting
        /\ runner'.deleting => runner'.alive
        /\ runner'.finalizer => runner.finalizer
    BY <1>3, RunnerFields DEF DeleteRunner, WriteRunner, Incarnations, Release
  <2>2. runner.alive /\ ~runner.deleting
    BY <1>3 DEF DeleteRunner
  <2>3. QED
    BY <1>1, <2>1, <2>2, UidsAreNumbers DEF Incarnations, Release, IncarnationOrder
<1>4. QED
  BY <1>2, <1>3

\* Informers move a cache forward only, to what the server has.
LEMMA ManagerIncarnations ==
    ASSUME Incarnations, SyncRunner \/ SyncPod \/ SyncSecret \/ RestartController
    PROVE  IncarnationOrder'
<1>1. CASE SyncRunner
  BY <1>1, UidsAreNumbers
  DEF SyncRunner, objects, worker, Incarnations, Release, IncarnationOrder
<1>2. CASE SyncPod \/ SyncSecret
  BY <1>2 DEF SyncPod, SyncSecret, objects, worker, Incarnations, IncarnationOrder
<1>3. CASE RestartController
  BY <1>3, UidsAreNumbers
  DEF RestartController, objects, Incarnations, Release, IncarnationOrder
<1>4. QED
  BY <1>1, <1>2, <1>3

\* A reconcile starts on the incarnation in the cache.
LEMMA ReconcileIncarnations == ASSUME Incarnations, Reconcile PROVE IncarnationOrder'
<1>1. UNCHANGED <<runner, pod, secret, runnerCache>>
  BY DEF Reconcile, objects, caches
<1>2. CASE ~runnerCache.alive
  BY <1>1, <1>2 DEF Reconcile, StartActiveDeletion, StartDeletion, StartNormal,
                    Incarnations, IncarnationOrder
<1>3. CASE runnerCache.alive
  <2>1. /\ before' = runnerCache
        /\ mem'.uid = runnerCache.uid
        /\ mem'.deleting = runnerCache.deleting
        /\ ~runnerCache.deleting => mem'.finalizer /\ pc' = "ensureSecret"
    BY <1>3 DEF Reconcile, StartActiveDeletion, StartDeletion, StartNormal,
                Incarnations, Release, TypeOK, RunnerObject
  <2>2. runnerCache.deleting => before'.finalizer
    BY <2>1 DEF Incarnations, Release, ReleaseOrder
  <2>3. QED
    BY <1>1, <2>1, <2>2, UidsAreNumbers DEF Incarnations, Release, IncarnationOrder
<1>4. QED
  BY <1>2, <1>3

\* The steps of a reconcile keep what it read, and write its own uid.
LEMMA BranchIncarnations ==
    ASSUME Incarnations,
           \/ CheckBusy \/ RefreshSecret \/ DeletePod \/ DeleteSecret
           \/ EnsureSecret \/ EnsurePod \/ FindID \/ GetRunner \/ AnnotatePod
           \/ ReturnError
    PROVE  IncarnationOrder'
<1>1. UNCHANGED <<runner, runnerCache, before>>
  BY DEF CheckBusy, RefreshSecret, DeletePod, DeleteSecret, EnsureSecret, EnsurePod,
         PodStatus, FindID, GetRunner, AnnotatePod, ReturnError, objects, caches,
         Goto, Return
<1>2. /\ mem'.uid = mem.uid /\ mem'.deleting = mem.deleting
      /\ mem'.finalizer = mem.finalizer \/ pc = "deleteSecret"
  BY DEF CheckBusy, RefreshSecret, DeletePod, DeleteSecret, EnsureSecret, EnsurePod,
         PodStatus, FindID, GetRunner, AnnotatePod, ReturnError,
         Incarnations, Release, TypeOK, RunnerObject
<1>3. pod'.owner = pod.owner \/ pod'.owner = mem.uid
  <2>1. CASE DeletePod
    BY <2>1 DEF DeletePod, WritePod, Incarnations, Release, TypeOK, PodObject
  <2>2. CASE EnsurePod
    <3>1. /\ NewPod(mem.uid).owner = mem.uid
          /\ [pod EXCEPT !.owner = mem.uid].owner = mem.uid
      BY DEF NewPod, Incarnations, Release, TypeOK, PodObject
    <3>2. QED
      BY <2>2, <3>1 DEF EnsurePod, WritePod
  <2>3. CASE AnnotatePod
    BY <2>3 DEF AnnotatePod, WritePod, Incarnations, Release, TypeOK, PodObject
  <2>4. QED
    BY <2>1, <2>2, <2>3 DEF CheckBusy, RefreshSecret, DeleteSecret, EnsureSecret,
                            FindID, GetRunner, ReturnError, objects
<1>4. secret'.owner = secret.owner \/ secret'.owner = mem.uid \/ secret'.owner = 0
  <2>1. CASE DeleteSecret
    BY <2>1 DEF DeleteSecret, WriteSecret, NoSecret
  <2>2. CASE RefreshSecret \/ EnsureSecret
    <3>1. ASSUME NEW t, SecretWritten(t) PROVE secret'.owner = mem.uid
      BY <3>1 DEF SecretWritten, WriteSecret
    <3>2. QED
      BY <2>2, <3>1 DEF RefreshSecret, EnsureSecret, SecretKept, SecretRefused, SecretDenied
  <2>3. QED
    BY <2>1, <2>2 DEF CheckBusy, DeletePod, EnsurePod, FindID, GetRunner, AnnotatePod,
                      ReturnError, objects
<1>5. /\ pc \notin {"idle", "patchStatus", "patchMeta"}
      /\ pc' \in {"checkBusy", "refreshSecret", "deletePod", "deleteSecret"} =>
           pc \in {"checkBusy", "refreshSecret", "deletePod", "deleteSecret"}
  BY DEF CheckBusy, RefreshSecret, DeletePod, DeleteSecret, EnsureSecret, EnsurePod,
         PodStatus, FindID, GetRunner, AnnotatePod, ReturnError, Goto, Return
<1>6. QED
  BY <1>1, <1>2, <1>3, <1>4, <1>5, UidsAreNumbers
  DEF Incarnations, Release, IncarnationOrder

\* A patch keeps the incarnation, and gives a Runner the finalizer only if
\* the reconcile did not set out to delete.
LEMMA PatchFields ==
    ASSUME TypeOK
    PROVE  /\ PatchedRunner.uid = runner.uid
           /\ PatchedRunner.alive =>
                /\ runner.alive
                /\ PatchedRunner.deleting = runner.deleting
           /\ PatchedRunner.deleting => PatchedRunner.alive \/ ~runner.alive
           /\ PatchedRunner.finalizer =>
                runner.finalizer \/ (mem.finalizer /\ ~before.finalizer)
           /\ PatchedStatus.uid = runner.uid
           /\ PatchedStatus.alive = runner.alive
           /\ PatchedStatus.deleting = runner.deleting
           /\ PatchedStatus.finalizer = runner.finalizer
BY DEF PatchedRunner, PatchedStatus, MergeField, NoRunner, NewRunner, TypeOK, RunnerObject

\* The patches of a reconcile keep the order of incarnations.
LEMMA PatchIncarnations ==
    ASSUME Incarnations, PatchMeta \/ PatchStatus PROVE IncarnationOrder'
<1>1. UNCHANGED <<pod, secret, runnerCache>> /\ pc' \in {"idle", "patchStatus"}
  BY DEF PatchMeta, PatchStatus, ThenStatus, Done, caches
<1>2. CASE PatchStatus
  <2>1. /\ runner'.uid = runner.uid /\ runner'.alive = runner.alive
        /\ runner'.deleting = runner.deleting /\ runner'.finalizer = runner.finalizer
    BY <1>2, PatchFields DEF PatchStatus, Incarnations, Release
  <2>2. QED
    BY <1>1, <2>1 DEF Incarnations, IncarnationOrder
<1>3. CASE PatchMeta
  <2>1. CASE runner' = runner
    BY <1>1, <2>1 DEF Incarnations, IncarnationOrder
  <2>2. CASE runner.alive /\ runner' = PatchedRunner
    <3>1. pc = "patchMeta"
      BY <1>3 DEF PatchMeta
    <3>2. runnerCache.deleting /\ runnerCache.uid < runner.uid => ~PatchedRunner.finalizer
      BY <3>1, PatchFields, UidsAreNumbers DEF Incarnations, Release, IncarnationOrder
    <3>3. QED
      BY <1>1, <2>2, <3>2, PatchFields, UidsAreNumbers
      DEF Incarnations, Release, IncarnationOrder
  <2>3. QED
    BY <1>3, <2>1, <2>2 DEF PatchMeta, WriteRunner
<1>4. QED
  BY <1>2, <1>3

\* Every step keeps the order of incarnations.
LEMMA IncarnationsStep == ASSUME Incarnations, [Next]_vars PROVE Incarnations'
<1>1. Release'
  BY ReleaseStep DEF Incarnations
<1>2. CASE ReconcileStep
  BY <1>1, <1>2, ReconcileIncarnations, BranchIncarnations, PatchIncarnations
  DEF ReconcileStep, Incarnations
<1>3. CASE PodStep
  BY <1>1, <1>3, PodStepIncarnations DEF Incarnations
<1>4. CASE HookStep
  BY <1>1, <1>4, HookIncarnations DEF Incarnations
<1>5. CASE Environment
  BY <1>1, <1>5, UserIncarnations, ManagerIncarnations DEF Environment, Incarnations
<1>6. CASE UNCHANGED vars
  BY <1>1, <1>6 DEF vars, Incarnations, IncarnationOrder
<1>7. QED
  BY <1>2, <1>3, <1>4, <1>5, <1>6 DEF Next

\* The order of incarnations survives every interleaving, failure and restart.
THEOREM IncarnationOrderHolds == Spec => []IncarnationOrder
<1>1. Incarnations /\ [Next]_vars => Incarnations'
  BY IncarnationsStep
<1>2. Incarnations => IncarnationOrder
  BY DEF Incarnations
<1>3. QED
  BY <1>1, <1>2, InitIncarnations, PTL DEF Spec

\* What a step of a reconcile may do to a Runner that is not being deleted.
LEMMA SparingStep ==
    ASSUME Incarnations, [Next]_vars, runner.alive, ~runner.deleting,
           pc # "idle", pc' # pc
    PROVE  /\ pod.owner = runner.uid => pod'.terminating = pod.terminating
           /\ secret.owner = runner.uid => secret'.owner = runner.uid
           /\ runner.finalizer => runner'.finalizer
<1> USE DEF Incarnations, Release
<1>1. CASE RestartController
  BY <1>1 DEF RestartController, objects
<1>2. CASE CheckBusy \/ FindID \/ GetRunner \/ ReturnError
  BY <1>2 DEF CheckBusy, FindID, GetRunner, ReturnError, objects
<1>3. CASE RefreshSecret \/ EnsureSecret
  <2>1. UNCHANGED <<runner, pod>>
    BY <1>3 DEF RefreshSecret, EnsureSecret
  <2>2. secret' = secret \/ secret'.owner = mem.uid
    <3>1. ASSUME NEW t, SecretWritten(t) PROVE secret'.owner = mem.uid
      BY <3>1 DEF SecretWritten, WriteSecret
    <3>2. QED
      BY <1>3, <3>1 DEF RefreshSecret, EnsureSecret, SecretKept, SecretRefused, SecretDenied
  <2>3. secret.owner <= mem.uid /\ mem.uid <= runner.uid
    <3>1. pc \in {"refreshSecret", "ensureSecret"}
      BY <1>3 DEF RefreshSecret, EnsureSecret
    <3>2. /\ secret.owner <= mem.uid /\ mem.uid <= runnerCache.uid
          /\ runnerCache.uid <= runner.uid
      BY <3>1 DEF IncarnationOrder
    <3>3. QED
      BY <3>2, UidsAreNumbers
  <2>4. QED
    BY <2>1, <2>2, <2>3, UidsAreNumbers
<1>4. CASE DeletePod \/ DeleteSecret
  <2>1. /\ mem.deleting /\ mem.uid < runner.uid
        /\ pod.owner <= mem.uid /\ secret.owner <= mem.uid
    BY <1>4, UidsAreNumbers DEF DeletePod, DeleteSecret, IncarnationOrder
  <2>2. pod.owner # runner.uid /\ secret.owner # runner.uid
    BY <2>1, UidsAreNumbers
  <2>3. QED
    BY <1>4, <2>2 DEF DeletePod, DeleteSecret
<1>5. CASE EnsurePod \/ AnnotatePod
  <2>1. UNCHANGED <<runner, secret>>
    BY <1>5 DEF EnsurePod, AnnotatePod
  <2>2. CASE AnnotatePod
    BY <2>1, <2>2 DEF AnnotatePod, WritePod, TypeOK, PodObject
  <2>3. CASE EnsurePod
    <3>1. [pod EXCEPT !.owner = mem.uid].terminating = pod.terminating
      BY DEF TypeOK, PodObject
    <3>2. PodExists => pod'.terminating = pod.terminating
      BY <2>3, <3>1 DEF EnsurePod, WritePod
    <3>3. pod.owner = runner.uid => PodExists
      BY UidsAreNumbers DEF PodExists, IncarnationOrder
    <3>4. QED
      BY <2>1, <3>2, <3>3
  <2>4. QED
    BY <1>5, <2>2, <2>3
<1>6. CASE PatchMeta
  <2>1. UNCHANGED <<pod, secret>>
    BY <1>6 DEF PatchMeta
  <2>2. runner.finalizer => PatchedRunner.finalizer
    <3>1. runner.finalizer => mem.finalizer
      BY <1>6, UidsAreNumbers DEF PatchMeta, IncarnationOrder
    <3>2. QED
      BY <3>1 DEF PatchedRunner, MergeField, TypeOK, RunnerObject
  <2>3. QED
    BY <1>6, <2>1, <2>2 DEF PatchMeta, WriteRunner
<1>7. CASE PatchStatus
  BY <1>7, PatchFields DEF PatchStatus
<1>8. CASE \/ Reconcile \/ PodStep \/ HookStep \/ CreateRunner \/ DeleteRunner
           \/ SyncRunner \/ SyncPod \/ SyncSecret \/ UNCHANGED vars
  <2>1. ~Reconcile
    BY DEF Reconcile
  <2>2. ASSUME PodStep PROVE pc' = pc
    BY <2>2 DEF PodStep, RegisterRunner, RegisterFails, RunnerOnline, AssignJob, JobDone,
                PodChanges, PodStarts, PodReady, PodSucceeds, ContainerCrash, PodFails,
                TerminatePod, EvictPod, GCPod, GCSecret, TokenAges, worker
  <2>3. QED
    BY <1>8, <2>1, <2>2 DEF HookStep, ProcessWorkflowJobEvent, HookLost, CreateRunner,
       DeleteRunner, SyncRunner, SyncPod, SyncSecret, worker, vars
<1>9. QED
  BY <1>1, <1>2, <1>3, <1>4, <1>5, <1>6, <1>7, <1>8
  DEF Next, ReconcileStep, Environment

\* No reconcile, however stale the cache it read, deletes the Pod or the
\* Secret of a Runner that is not being deleted, or strips its finalizer.
THEOREM LiveRunnerIsSpared == Spec => SparesLiveRunner
<1>1. Incarnations /\ [Next]_vars => Incarnations'
  BY IncarnationsStep
<1>2. Incarnations /\ [Next]_vars =>
        [runner.alive /\ ~runner.deleting /\ pc # "idle" /\ pc' # pc =>
           /\ pod.owner = runner.uid => pod'.terminating = pod.terminating
           /\ secret.owner = runner.uid => secret'.owner = runner.uid
           /\ runner.finalizer => runner'.finalizer]_vars
  BY SparingStep
<1>3. QED
  BY <1>1, <1>2, InitIncarnations, PTL DEF Spec, SparesLiveRunner

=============================================================================
