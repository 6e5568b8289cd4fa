-------------------------- MODULE RunnerSystemProofs --------------------------
(***************************************************************************)
(* What TLAPS proves of RunnerSystem, for any number of incarnations and   *)
(* registrations, any eviction policy and any set of faults.               *)
(***************************************************************************)
EXTENDS RunnerSystem, TLAPS

-----------------------------------------------------------------------------
(* The values the actions build have their types.                          *)

\* The bounds admit "none": uid 0 and registration id 0.
LEMMA Zero == 0 \in Uid /\ 0 \in RegistrationID
BY ConstantsAssumption DEF Uid, RegistrationID

\* A Runner as it is created, and its absence, are Runner objects.
LEMMA NewRunnerType ==
    ASSUME NEW u \in Uid
    PROVE  NewRunner(u) \in RunnerObject /\ NoRunner(u) \in RunnerObject
BY Zero DEF NewRunner, NoRunner, RunnerObject, RunnerPhase, OnlineStatus

\* Writing the fields the controller manages keeps a Runner object one.
LEMMA RunnerFieldsType ==
    ASSUME NEW r \in RunnerObject, NEW f \in BOOLEAN, NEW i \in RegistrationID,
           NEW os \in BOOLEAN, NEW ph \in RunnerPhase, NEW on \in OnlineStatus
    PROVE  /\ [r EXCEPT !.finalizer = f] \in RunnerObject
           /\ [r EXCEPT !.id = i] \in RunnerObject
           /\ [r EXCEPT !.phase = ph] \in RunnerObject
           /\ [r EXCEPT !.os = os, !.online = on] \in RunnerObject
           /\ [r EXCEPT !.phase = ph, !.online = on] \in RunnerObject
           /\ [r EXCEPT !.os = os, !.online = on, !.phase = ph] \in RunnerObject
           /\ [r EXCEPT !.finalizer = f, !.id = i, !.os = os] \in RunnerObject
BY DEF RunnerObject

\* A Pod as podForRunner describes it, and its absence, are Pod objects.
LEMMA NewPodType ==
    /\ NoPod \in PodObject
    /\ \A u \in Uid : NewPod(u) \in PodObject
BY Zero DEF NewPod, NoPod, PodObject

\* The writes leave objects of the right kind, and the names of copies.
LEMMA WriteRunnerType ==
    ASSUME TypeOK, NEW r \in RunnerObject, WriteRunner(r)
    PROVE  runner' \in RunnerObject /\ stale' \subseteq Copies
BY DEF TypeOK, WriteRunner, Copies

\* The same for a write of the Pod.
LEMMA WritePodType ==
    ASSUME TypeOK, NEW p \in PodObject, WritePod(p)
    PROVE  pod' \in PodObject /\ stale' \subseteq Copies
BY DEF TypeOK, WritePod, Copies

\* The same for a write of the Secret.
LEMMA WriteSecretType ==
    ASSUME TypeOK, NEW s \in SecretObject, WriteSecret(s)
    PROVE  secret' \in SecretObject /\ stale' \subseteq Copies
BY DEF TypeOK, WriteSecret, Copies

\* The absence of the Secret is a Secret object.
LEMMA NoSecretType == NoSecret \in SecretObject
BY Zero DEF NoSecret, SecretObject

-----------------------------------------------------------------------------
(* TypeOK is inductive.                                                    *)

\* An empty cluster has its type.
LEMMA InitType == Init => TypeOK
<1>1. NoRunner(0) \in RunnerObject
  BY Zero, NewRunnerType
<1>2. QED
  BY <1>1, Zero, NewPodType, NoSecretType DEF Init, TypeOK, Registration, Steps, Copies

\* Reading the Runner (Reconcile, up to its first call) keeps the types.
LEMMA ReconcileType == ASSUME TypeOK, Reconcile PROVE TypeOK'
<1>1. runnerCache \in RunnerObject
  BY DEF TypeOK
<1>2. /\ [runnerCache EXCEPT !.phase = "Complete"] \in RunnerObject
      /\ [runnerCache EXCEPT !.finalizer = TRUE] \in RunnerObject
  BY <1>1 DEF RunnerObject, RunnerPhase
<1>3. /\ pc' \in Steps /\ mem' \in RunnerObject
      /\ before' \in RunnerObject /\ requeue' \in BOOLEAN
  BY <1>1, <1>2
  DEF TypeOK, Reconcile, StartActiveDeletion, StartDeletion, StartNormal, Steps
<1>4. QED
  BY <1>3 DEF TypeOK, Reconcile, objects, caches, outside

\* Goto leaves the reconcile at a step.
LEMMA GotoType == ASSUME TypeOK, NEW s \in Steps, Goto(s)
                  PROVE  /\ pc' \in Steps /\ requeue' \in BOOLEAN
                         /\ before' \in RunnerObject /\ locked' \in BOOLEAN
BY DEF TypeOK, Goto

\* Return leaves it at the deferred Patch.
LEMMA ReturnType == ASSUME TypeOK, NEW b \in BOOLEAN, Return(b)
                    PROVE  /\ pc' \in Steps /\ requeue' \in BOOLEAN
                           /\ before' \in RunnerObject /\ locked' \in BOOLEAN
BY DEF TypeOK, Return, Steps

\* Asking Github whether a deleted Runner is busy keeps the types.
LEMMA CheckBusyType == ASSUME TypeOK, CheckBusy PROVE TypeOK'
<1>1. [mem EXCEPT !.phase = "Complete"] \in RunnerObject
  BY DEF TypeOK, RunnerObject, RunnerPhase
<1>2. mem' \in RunnerObject
  BY <1>1 DEF TypeOK, CheckBusy
<1>3. QED
  BY <1>2, ReturnType DEF TypeOK, CheckBusy, objects, caches, outside

\* CreateOrUpdate on the Secret keeps its type, kept, written or refused.
LEMMA SecretWrittenType ==
    ASSUME TypeOK, NEW token \in {"fresh", "expired"}, SecretWritten(token)
    PROVE  secret' \in SecretObject /\ stale' \subseteq Copies
<1>1. mem.uid \in Uid
  BY DEF TypeOK, RunnerObject
<1> DEFINE s == [owner |-> mem.uid,
                 token |-> IF IsTokenExpired(secretCache) THEN token ELSE "fresh"]
<1>2. s \in SecretObject
  BY <1>1 DEF SecretObject
<1>3. QED
  BY <1>2, WriteSecretType DEF SecretWritten

\* Refreshing the token before the teardown keeps the types.
LEMMA RefreshSecretType == ASSUME TypeOK, RefreshSecret PROVE TypeOK'
<1>1. secret' \in SecretObject /\ stale' \subseteq Copies
  BY SecretWrittenType DEF RefreshSecret, SecretKept, SecretRefused, TypeOK
<1>2. /\ pc' \in Steps /\ requeue' \in BOOLEAN
      /\ before' \in RunnerObject /\ locked' \in BOOLEAN
  BY GotoType, ReturnType DEF RefreshSecret, Steps
<1>3. QED
  BY <1>1, <1>2 DEF TypeOK, RefreshSecret, caches, outside

\* Deleting the Pod keeps the types.
LEMMA DeletePodType == ASSUME TypeOK, DeletePod PROVE TypeOK'
<1>1. (IF PodExists THEN [pod EXCEPT !.terminating = TRUE] ELSE pod) \in PodObject
  BY DEF TypeOK, PodObject
<1>2. pod' \in PodObject /\ stale' \subseteq Copies
  BY <1>1, WritePodType DEF DeletePod
<1>3. /\ pc' \in Steps /\ requeue' \in BOOLEAN
      /\ before' \in RunnerObject /\ locked' \in BOOLEAN
  BY GotoType DEF DeletePod, Steps
<1>4. QED
  BY <1>2, <1>3 DEF TypeOK, DeletePod, caches, outside

\* Deleting the Secret and removing the finalizer keeps the types.
LEMMA DeleteSecretType == ASSUME TypeOK, DeleteSecret PROVE TypeOK'
<1>1. [mem EXCEPT !.finalizer = FALSE] \in RunnerObject
  BY DEF TypeOK, RunnerObject
<1>2. secret' \in SecretObject /\ stale' \subseteq Copies
  BY WriteSecretType, NoSecretType DEF DeleteSecret, TypeOK
<1>3. /\ pc' \in Steps /\ requeue' \in BOOLEAN
      /\ before' \in RunnerObject /\ locked' \in BOOLEAN
  BY ReturnType DEF DeleteSecret
<1>4. QED
  BY <1>1, <1>2, <1>3 DEF TypeOK, DeleteSecret, caches, outside

\* Creating or refreshing the Secret keeps the types.
LEMMA EnsureSecretType == ASSUME TypeOK, EnsureSecret PROVE TypeOK'
<1>1. secret' \in SecretObject /\ stale' \subseteq Copies
  BY SecretWrittenType DEF EnsureSecret, SecretKept, SecretRefused, SecretDenied, TypeOK
<1>2. /\ pc' \in Steps /\ requeue' \in BOOLEAN
      /\ before' \in RunnerObject /\ locked' \in BOOLEAN
  BY GotoType, ReturnType DEF EnsureSecret, Steps
<1>3. QED
  BY <1>1, <1>2 DEF TypeOK, EnsureSecret, caches, outside

\* What reconcileStatus makes of a Pod is a Runner phase.
LEMMA PodStatusType ==
    ASSUME TypeOK, NEW p, PodStatus(p)
    PROVE  /\ mem' \in RunnerObject /\ pc' \in Steps /\ requeue' \in BOOLEAN
           /\ before' \in RunnerObject /\ locked' \in BOOLEAN
<1>1. /\ [mem EXCEPT !.phase = "Pending"] \in RunnerObject
      /\ [mem EXCEPT !.phase = "Complete", !.online = "False"] \in RunnerObject
  BY DEF TypeOK, RunnerObject, RunnerPhase, OnlineStatus
<1>2. QED
  BY <1>1, GotoType, ReturnType DEF PodStatus, Steps

\* CreateOrUpdate on the Pod keeps the types.
LEMMA EnsurePodType == ASSUME TypeOK, EnsurePod PROVE TypeOK'
<1>1. NewPod(mem.uid) \in PodObject /\ [pod EXCEPT !.owner = mem.uid] \in PodObject
  <2>1. mem.uid \in Uid
    BY DEF TypeOK, RunnerObject
  <2>2. QED
    BY <2>1, NewPodType DEF TypeOK, PodObject
<1>2. pod' \in PodObject /\ stale' \subseteq Copies
  BY <1>1, WritePodType DEF EnsurePod, TypeOK
<1>3. /\ mem' \in RunnerObject /\ pc' \in Steps /\ requeue' \in BOOLEAN
      /\ before' \in RunnerObject /\ locked' \in BOOLEAN
  BY PodStatusType, ReturnType DEF EnsurePod, TypeOK
<1>4. QED
  BY <1>2, <1>3 DEF TypeOK, EnsurePod, caches, outside

\* The id read from the container is a registration id.
LEMMA FindIDType == ASSUME TypeOK, FindID PROVE TypeOK'
<1>1. [mem EXCEPT !.id = agent] \in RunnerObject
  BY DEF TypeOK, RunnerObject
<1>2. mem' \in RunnerObject
  BY <1>1 DEF TypeOK, FindID
<1>3. /\ pc' \in Steps /\ requeue' \in BOOLEAN
      /\ before' \in RunnerObject /\ locked' \in BOOLEAN
  BY GotoType, ReturnType DEF FindID, Steps
<1>4. QED
  BY <1>2, <1>3 DEF TypeOK, FindID, objects, caches, outside

\* What reconcileStatus makes of Github's answer is a Runner status.
LEMMA GetRunnerType == ASSUME TypeOK, GetRunner PROVE TypeOK'
<1>1. /\ [mem EXCEPT !.os = TRUE, !.online = "False"] \in RunnerObject
      /\ [mem EXCEPT !.os = TRUE, !.online = "True", !.phase = "Idle"] \in RunnerObject
      /\ [mem EXCEPT !.os = TRUE, !.online = "True", !.phase = "Active"] \in RunnerObject
  BY DEF TypeOK, RunnerObject, RunnerPhase, OnlineStatus
<1>2. mem' \in RunnerObject
  BY <1>1 DEF TypeOK, GetRunner
<1>3. /\ pc' \in Steps /\ requeue' \in BOOLEAN
      /\ before' \in RunnerObject /\ locked' \in BOOLEAN
  BY GotoType, ReturnType DEF GetRunner, Steps
<1>4. QED
  BY <1>2, <1>3 DEF TypeOK, GetRunner, objects, caches, outside

\* Annotating the Pod of an Active Runner keeps the types.
LEMMA AnnotatePodType == ASSUME TypeOK, AnnotatePod PROVE TypeOK'
<1>1. [pod EXCEPT !.evict = "false"] \in PodObject
  BY DEF TypeOK, PodObject
<1>2. pod' \in PodObject /\ stale' \subseteq Copies
  BY <1>1, WritePodType DEF AnnotatePod, TypeOK
<1>3. /\ pc' \in Steps /\ requeue' \in BOOLEAN
      /\ before' \in RunnerObject /\ locked' \in BOOLEAN
  BY ReturnType DEF AnnotatePod
<1>4. QED
  BY <1>2, <1>3 DEF TypeOK, AnnotatePod, caches, outside

\* A failed call keeps the types.
LEMMA ReturnErrorType == ASSUME TypeOK, ReturnError PROVE TypeOK'
BY ReturnType DEF TypeOK, ReturnError, objects, caches, outside

\* What the server makes of either patch, and what is decoded from its
\* answer, are Runner objects.
LEMMA PatchedRunnerType ==
    ASSUME TypeOK
    PROVE  PatchedRunner \in RunnerObject /\ DecodedRunner \in RunnerObject
<1>1. /\ MergeField(before.finalizer, mem.finalizer, runner.finalizer) \in BOOLEAN
      /\ MergeField(before.id, mem.id, runner.id) \in RegistrationID
      /\ MergeField(before.os, mem.os, runner.os) \in BOOLEAN
  BY DEF TypeOK, RunnerObject, MergeField
<1>2. NoRunner(runner.uid) \in RunnerObject
  BY NewRunnerType DEF TypeOK, RunnerObject
<1> DEFINE r == [runner EXCEPT
                   !.finalizer = MergeField(before.finalizer, mem.finalizer, @),
                   !.id        = MergeField(before.id, mem.id, @),
                   !.os        = MergeField(before.os, mem.os, @)]
<1>3. r \in RunnerObject /\ r.uid = runner.uid
  BY <1>1 DEF TypeOK, RunnerObject
<1>4. PatchedRunner \in RunnerObject
  BY <1>2, <1>3 DEF PatchedRunner
<1>5. /\ DecodeField(mem.phase, PatchedRunner.phase, "") \in RunnerPhase
      /\ DecodeField(mem.online, PatchedRunner.online, "") \in OnlineStatus
  BY <1>4 DEF TypeOK, RunnerObject, DecodeField
<1>6. QED
  BY <1>4, <1>5 DEF DecodedRunner, RunnerObject

\* The end of a reconcile leaves no object in memory.
LEMMA DoneType ==
    ASSUME TypeOK, NEW b \in BOOLEAN, Done(b)
    PROVE  /\ pc' \in Steps /\ queued' \in BOOLEAN /\ mem' \in RunnerObject
           /\ before' \in RunnerObject /\ locked' \in BOOLEAN /\ requeue' \in BOOLEAN
BY Zero, NewRunnerType DEF TypeOK, Done, Steps

\* Going on to the status patch, or not, keeps the types.
LEMMA ThenStatusType ==
    ASSUME TypeOK, NEW m \in RunnerObject, NEW l \in BOOLEAN, NEW b \in BOOLEAN,
           ThenStatus(m, l, b)
    PROVE  /\ pc' \in Steps /\ queued' \in BOOLEAN /\ mem' \in RunnerObject
           /\ before' \in RunnerObject /\ locked' \in BOOLEAN /\ requeue' \in BOOLEAN
BY DoneType DEF ThenStatus, TypeOK, Steps

\* The first patch keeps the types.
LEMMA PatchMetaType == ASSUME TypeOK, PatchMeta PROVE TypeOK'
<1>1. runner' \in RunnerObject /\ stale' \subseteq Copies
  BY PatchedRunnerType, WriteRunnerType DEF PatchMeta, TypeOK
<1>2. /\ pc' \in Steps /\ queued' \in BOOLEAN /\ mem' \in RunnerObject
      /\ before' \in RunnerObject /\ locked' \in BOOLEAN /\ requeue' \in BOOLEAN
  BY PatchedRunnerType, ThenStatusType DEF PatchMeta, TypeOK
<1>3. QED
  BY <1>1, <1>2 DEF TypeOK, PatchMeta, caches, outside

\* The second patch keeps the types.
LEMMA PatchStatusType == ASSUME TypeOK, PatchStatus PROVE TypeOK'
<1>1. PatchedStatus \in RunnerObject
  BY DEF TypeOK, PatchedStatus, RunnerObject, MergeField
<1>2. runner' \in RunnerObject /\ stale' \subseteq Copies
  BY <1>1 DEF PatchStatus, TypeOK, Copies
<1>3. /\ pc' \in Steps /\ queued' \in BOOLEAN /\ mem' \in RunnerObject
      /\ before' \in RunnerObject /\ locked' \in BOOLEAN /\ requeue' \in BOOLEAN
  BY DoneType DEF PatchStatus, TypeOK
<1>4. QED
  BY <1>2, <1>3 DEF TypeOK, PatchStatus, caches, outside

\* A stopped container leaves a registration state.
LEMMA UnregisteredType ==
    ASSUME TypeOK, NEW outcome \in {"gone", "offline"}
    PROVE  Unregistered(outcome) \in [1..MaxRegistrations -> Registration]
BY DEF TypeOK, Unregistered, Registration

\* The steps of the container, of Github and of the kubelet.
LEMMA RegisterType ==
    ASSUME TypeOK,
           RegisterRunner \/ RegisterFails \/ RunnerOnline \/ AssignJob \/ JobDone
    PROVE  TypeOK'
<1>1. CASE RegisterRunner
  <2>1. agent' \in RegistrationID
    BY <1>1, ConstantsAssumption DEF RegisterRunner, TypeOK, RegistrationID
  <2>2. github' \in [1..MaxRegistrations -> Registration]
    BY <1>1 DEF RegisterRunner, TypeOK, Registration
  <2>3. QED
    BY <1>1, <2>1, <2>2 DEF RegisterRunner, TypeOK, objects, caches, worker
<1>2. CASE RegisterFails
  BY <1>2 DEF RegisterFails, TypeOK, objects, caches, outside, worker
<1>3. ASSUME NEW x \in Registration, github' = [github EXCEPT ![agent] = x]
      PROVE  github' \in [1..MaxRegistrations -> Registration]
  BY <1>3 DEF TypeOK
<1>4. CASE RunnerOnline
  BY <1>3, <1>4 DEF RunnerOnline, TypeOK, Registration, objects, caches, worker
<1>5. CASE AssignJob
  <2>1. agent \in 1..MaxRegistrations
    BY <1>5, ConstantsAssumption DEF AssignJob, TypeOK, RegistrationID
  <2>2. QED
    BY <1>3, <1>5, <2>1 DEF AssignJob, TypeOK, Registration, objects, caches, worker
<1>6. CASE JobDone
  BY <1>3, <1>6 DEF JobDone, TypeOK, Registration, objects, caches, worker
<1>7. QED
  BY <1>1, <1>2, <1>4, <1>5, <1>6

\* A change of the Pod by the kubelet keeps the types.
LEMMA PodChangesType ==
    ASSUME TypeOK, NEW p \in PodObject, PodChanges(p),
           agent' \in RegistrationID,
           github' \in [1..MaxRegistrations -> Registration]
    PROVE  TypeOK'
<1>1. pod' \in PodObject /\ stale' \subseteq Copies
  BY WritePodType DEF PodChanges
<1>2. QED
  BY <1>1 DEF PodChanges, TypeOK, caches, worker

\* Starting, readiness, success, failure and termination keep the types.
LEMMA KubeletType ==
    ASSUME TypeOK,
           \/ PodStarts \/ PodReady \/ PodSucceeds \/ ContainerCrash \/ PodFails
           \/ TerminatePod \/ EvictPod \/ GCPod
    PROVE  TypeOK'
<1>1. /\ [pod EXCEPT !.phase = "Running"] \in PodObject
      /\ [pod EXCEPT !.ready = TRUE] \in PodObject
      /\ [pod EXCEPT !.ready = FALSE] \in PodObject
      /\ [pod EXCEPT !.phase = "Succeeded", !.ready = FALSE] \in PodObject
      /\ [pod EXCEPT !.phase = "Failed", !.ready = FALSE] \in PodObject
      /\ [pod EXCEPT !.terminating = TRUE] \in PodObject
  BY DEF TypeOK, PodObject
<1>2. agent' \in RegistrationID
  BY Zero DEF TypeOK, PodStarts, PodReady, PodSucceeds, ContainerCrash, PodFails,
              TerminatePod, EvictPod, GCPod
<1>3. github' \in [1..MaxRegistrations -> Registration]
  BY UnregisteredType
  DEF TypeOK, PodStarts, PodReady, PodSucceeds, ContainerCrash, PodFails,
      TerminatePod, EvictPod, GCPod
<1>4. \E p \in PodObject : PodChanges(p)
  BY <1>1, NewPodType
  DEF PodStarts, PodReady, PodSucceeds, ContainerCrash, PodFails,
      TerminatePod, EvictPod, GCPod
<1>5. QED
  BY <1>2, <1>3, <1>4, PodChangesType

\* Garbage collection of the Secret keeps the types.
LEMMA GCSecretType == ASSUME TypeOK, GCSecret PROVE TypeOK'
<1>1. secret' \in SecretObject /\ stale' \subseteq Copies
  BY WriteSecretType, NoSecretType DEF GCSecret
<1>2. QED
  BY <1>1 DEF GCSecret, TypeOK, caches, outside, worker

\* The clock keeps the types.
LEMMA TokenAgesType == ASSUME TypeOK, TokenAges PROVE TypeOK'
<1>1. secret' \in SecretObject /\ secretCache' \in SecretObject
  BY DEF TokenAges, TypeOK, SecretObject, Older
<1>2. QED
  BY <1>1 DEF TokenAges, TypeOK, outside, worker

\* The webhook handler keeps the types.
LEMMA HookType == ASSUME TypeOK, HookStep PROVE TypeOK'
<1>1. stale' \subseteq Copies /\ hooks' \subseteq 1..MaxRegistrations
  BY DEF HookStep, ProcessWorkflowJobEvent, TriggerRunnerReconciliation, HookLost,
         TypeOK, Copies
<1>2. QED
  BY <1>1 DEF HookStep, ProcessWorkflowJobEvent, HookLost, TypeOK, objects, caches, worker

\* Creating and deleting the Runner keeps the types.
LEMMA UserType == ASSUME TypeOK, CreateRunner \/ DeleteRunner PROVE TypeOK'
<1>1. CreateRunner => NewRunner(runner.uid + 1) \in RunnerObject
  <2>1. CreateRunner => runner.uid + 1 \in Uid
    BY ConstantsAssumption DEF CreateRunner, TypeOK, RunnerObject, Uid
  <2>2. QED
    BY <2>1, NewRunnerType
<1>2. (IF runner.finalizer THEN [runner EXCEPT !.deleting = TRUE]
                           ELSE NoRunner(runner.uid)) \in RunnerObject
  <2>1. NoRunner(runner.uid) \in RunnerObject
    BY NewRunnerType DEF TypeOK, RunnerObject
  <2>2. QED
    BY <2>1 DEF TypeOK, RunnerObject
<1>3. runner' \in RunnerObject /\ stale' \subseteq Copies
  BY <1>1, <1>2, WriteRunnerType DEF CreateRunner, DeleteRunner
<1>4. QED
  BY <1>3 DEF CreateRunner, DeleteRunner, TypeOK, caches, outside, worker

\* Informers and a restart of the manager keep the types.
LEMMA ManagerType ==
    ASSUME TypeOK, SyncRunner \/ SyncPod \/ SyncSecret \/ RestartController
    PROVE  TypeOK'
<1>1. CASE SyncRunner
  BY <1>1 DEF SyncRunner, TypeOK, objects, outside, worker
<1>2. CASE SyncPod
  BY <1>2 DEF SyncPod, TypeOK, objects, outside, worker
<1>3. CASE SyncSecret
  BY <1>3 DEF SyncSecret, TypeOK, objects, outside, worker
<1>4. CASE RestartController
  <2>1. NoRunner(0) \in RunnerObject
    BY Zero, NewRunnerType
  <2>2. QED
    BY <1>4, <2>1 DEF RestartController, TypeOK, objects, outside, Steps
<1>5. QED
  BY <1>1, <1>2, <1>3, <1>4

\* Every step keeps the types.
LEMMA TypeStep == ASSUME TypeOK, [Next]_vars PROVE TypeOK'
<1>1. CASE ReconcileStep
  BY <1>1, ReconcileType, CheckBusyType, RefreshSecretType, DeletePodType,
     DeleteSecretType, EnsureSecretType, EnsurePodType, FindIDType, GetRunnerType,
     AnnotatePodType, ReturnErrorType, PatchMetaType, PatchStatusType
  DEF ReconcileStep
<1>2. CASE PodStep
  BY <1>2, RegisterType, KubeletType, GCSecretType, TokenAgesType DEF PodStep
<1>3. CASE HookStep
  BY <1>3, HookType
<1>4. CASE Environment
  BY <1>4, UserType, ManagerType DEF Environment
<1>5. CASE UNCHANGED vars
  BY <1>5 DEF vars, TypeOK
<1>6. QED
  BY <1>1, <1>2, <1>3, <1>4, <1>5 DEF Next

\* Every object on the API server, in the caches and in the reconcile in
\* progress keeps its type, whatever the controller, the users, the kubelet,
\* Github and the faults do.
THEOREM TypeCorrect == Spec => []TypeOK
<1>1. TypeOK /\ [Next]_vars => TypeOK'
  BY TypeStep
<1>2. QED
  BY <1>1, InitType, PTL DEF Spec

-----------------------------------------------------------------------------
(* ReleaseOrder, on top of TypeOK, is inductive, and it is what makes      *)
(* removing the finalizer safe.                                            *)

Release == TypeOK /\ ReleaseOrder

\* Nothing is to be released in an empty cluster.
LEMMA InitRelease == Init => Release
BY InitType DEF Init, Release, ReleaseOrder, NoRunner, NewRunner

\* Between two steps of the controller nobody brings back its Pod or Secret.
LEMMA PodStepRelease == ASSUME Release, PodStep PROVE ReleaseOrder'
<1>1. UNCHANGED <<runner, runnerCache, pc, mem>>
  BY DEF PodStep, RegisterRunner, RegisterFails, RunnerOnline, AssignJob, JobDone,
         PodChanges, PodStarts, PodReady, PodSucceeds, ContainerCrash, PodFails,
         TerminatePod, EvictPod, GCPod, GCSecret, TokenAges, objects, caches, worker
<1>2. PodReleased => PodReleased'
  BY DEF PodStep, RegisterRunner, RegisterFails, RunnerOnline, AssignJob, JobDone,
         PodChanges, PodStarts, PodReady, PodSucceeds, ContainerCrash, PodFails,
         TerminatePod, EvictPod, GCPod, GCSecret, TokenAges, objects, WritePod,
         PodReleased, PodExists, NoPod, NewPod, Release, TypeOK, PodObject
<1>3. ~SecretExists => ~SecretExists'
  BY DEF PodStep, RegisterRunner, RegisterFails, RunnerOnline, AssignJob, JobDone,
         PodChanges, PodStarts, PodReady, PodSucceeds, ContainerCrash, PodFails,
         TerminatePod, EvictPod, GCPod, GCSecret, TokenAges, objects, WriteSecret,
         SecretExists, NoSecret, Release, TypeOK, SecretObject
<1>4. QED
  BY <1>1, <1>2, <1>3 DEF Release, ReleaseOrder

\* The webhook handler touches nothing that is to be released.
LEMMA HookRelease == ASSUME Release, HookStep PROVE ReleaseOrder'
BY DEF HookStep, ProcessWorkflowJobEvent, HookLost, objects, caches, worker,
       Release, ReleaseOrder, PodReleased, PodExists, SecretExists

\* Users, informers and a restart keep the order of release.
LEMMA EnvironmentRelease == ASSUME Release, Environment PROVE ReleaseOrder'
<1>1. CASE CreateRunner \/ DeleteRunner
  <2>1. runner'.deleting => runner'.finalizer
    <3>1. /\ ~NewRunner(runner.uid + 1).deleting
          /\ ~NoRunner(runner.uid).deleting
      BY DEF NewRunner, NoRunner
    <3>2. runner.finalizer => [runner EXCEPT !.deleting = TRUE].finalizer
      BY DEF Release, TypeOK, RunnerObject
    <3>3. QED
      BY <1>1, <3>1, <3>2 DEF CreateRunner, DeleteRunner, WriteRunner
  <2>2. QED
    BY <1>1, <2>1 DEF CreateRunner, DeleteRunner, caches, worker, Release,
                      ReleaseOrder, PodReleased, PodExists, SecretExists
<1>2. CASE SyncRunner \/ SyncPod \/ SyncSecret
  BY <1>2 DEF SyncRunner, SyncPod, SyncSecret, objects, worker, Release,
              ReleaseOrder, PodReleased, PodExists, SecretExists
<1>3. CASE RestartController
  BY <1>3 DEF RestartController, objects, Release, ReleaseOrder
<1>4. QED
  BY <1>1, <1>2, <1>3 DEF Environment

\* A reconcile starts with the finalizer in memory.
LEMMA ReconcileRelease == ASSUME Release, Reconcile PROVE ReleaseOrder'
<1>1. pc' # "deleteSecret"
  BY DEF Reconcile, StartActiveDeletion, StartDeletion, StartNormal
<1>2. pc' # "idle" => mem'.finalizer
  BY DEF Reconcile, StartActiveDeletion, StartDeletion, StartNormal,
         Release, ReleaseOrder, TypeOK, RunnerObject
<1>3. QED
  BY <1>1, <1>2 DEF Reconcile, objects, caches, Release, ReleaseOrder

\* A step before the Secret's deletion keeps the finalizer in memory.
LEMMA BranchRelease ==
    ASSUME Release,
           \/ CheckBusy \/ RefreshSecret \/ EnsureSecret \/ EnsurePod \/ FindID
           \/ GetRunner \/ AnnotatePod \/ ReturnError
    PROVE  ReleaseOrder'
<1>1. mem.finalizer
  BY DEF CheckBusy, RefreshSecret, EnsureSecret, EnsurePod, FindID, GetRunner,
         AnnotatePod, ReturnError, Release, ReleaseOrder
<1>2. mem'.finalizer
  BY <1>1 DEF CheckBusy, RefreshSecret, EnsureSecret, EnsurePod, PodStatus, FindID,
              GetRunner, AnnotatePod, ReturnError, Release, TypeOK, RunnerObject
<1>3. pc' # "deleteSecret"
  BY DEF CheckBusy, RefreshSecret, EnsureSecret, EnsurePod, PodStatus, FindID,
         GetRunner, AnnotatePod, ReturnError, Goto, Return
<1>4. UNCHANGED <<runner, runnerCache>>
  BY DEF CheckBusy, RefreshSecret, EnsureSecret, EnsurePod, FindID, GetRunner,
         AnnotatePod, ReturnError, objects, caches
<1>5. QED
  BY <1>2, <1>3, <1>4 DEF Release, ReleaseOrder

\* The Pod is deleted before the Secret, the Secret before the finalizer.
LEMMA DeleteRelease == ASSUME Release, DeletePod \/ DeleteSecret PROVE ReleaseOrder'
<1>1. CASE DeletePod
  <2>1. PodReleased'
    BY <1>1 DEF DeletePod, WritePod, PodReleased, PodExists, Release, TypeOK, PodObject
  <2>2. QED
    BY <1>1, <2>1 DEF DeletePod, Goto, caches, Release, ReleaseOrder
<1>2. CASE DeleteSecret
  <2>1. ~SecretExists'
    BY <1>2 DEF DeleteSecret, WriteSecret, SecretExists, NoSecret
  <2>2. PodReleased'
    BY <1>2 DEF DeleteSecret, Release, ReleaseOrder, PodReleased, PodExists
  <2>3. QED
    BY <1>2, <2>1, <2>2 DEF DeleteSecret, Return, caches, Release, ReleaseOrder
<1>3. QED
  BY <1>1, <1>2

\* The patches write the finalizer that is in memory, and end the reconcile.
LEMMA PatchRelease == ASSUME Release, PatchMeta \/ PatchStatus PROVE ReleaseOrder'
<1>1. pc' \in {"idle", "patchStatus"}
  BY DEF PatchMeta, PatchStatus, ThenStatus, Done
<1>2. PatchedRunner.deleting => PatchedRunner.finalizer
  BY DEF PatchedRunner, NoRunner, NewRunner
<1>3. PatchedStatus.deleting => PatchedStatus.finalizer
  BY DEF PatchedStatus, Release, ReleaseOrder, TypeOK, RunnerObject
<1>4. runner'.deleting => runner'.finalizer
  BY <1>2, <1>3 DEF PatchMeta, PatchStatus, WriteRunner, Release, ReleaseOrder
<1>5. runnerCache' = runnerCache
  BY DEF PatchMeta, PatchStatus, caches
<1>6. QED
  BY <1>1, <1>4, <1>5 DEF Release, ReleaseOrder

\* Every step keeps the order of release.
LEMMA ReleaseStep == ASSUME Release, [Next]_vars PROVE Release'
<1>1. TypeOK'
  BY TypeStep DEF Release
<1>2. CASE ReconcileStep
  BY <1>1, <1>2, ReconcileRelease, BranchRelease, DeleteRelease, PatchRelease
  DEF ReconcileStep, Release
<1>3. CASE PodStep
  BY <1>1, <1>3, PodStepRelease DEF Release
<1>4. CASE HookStep
  BY <1>1, <1>4, HookRelease DEF Release
<1>5. CASE Environment
  BY <1>1, <1>5, EnvironmentRelease DEF Release
<1>6. CASE UNCHANGED vars
  BY <1>1, <1>6 DEF vars, Release, ReleaseOrder, PodReleased, PodExists, SecretExists
<1>7. QED
  BY <1>2, <1>3, <1>4, <1>5, <1>6 DEF Next

\* The order in which the deletion branch releases the Pod, the Secret and
\* the finalizer survives every interleaving, failure and restart.
THEOREM ReleaseOrderHolds == Spec => []ReleaseOrder
<1>1. Release /\ [Next]_vars => Release'
  BY ReleaseStep
<1>2. Release => ReleaseOrder
  BY DEF Release
<1>3. QED
  BY <1>1, <1>2, InitRelease, PTL DEF Spec

\* Only the first patch of a reconcile can remove a Runner that holds the
\* finalizer, and then the finalizer was removed in memory.
LEMMA RemovalStep ==
    ASSUME Release, [Next]_vars, runner.alive, runner.finalizer, ~runner'.alive
    PROVE  PodReleased /\ ~SecretExists
<1>1. CASE PatchMeta
  <2>1. ~PatchedRunner.alive
    BY <1>1 DEF PatchMeta, WriteRunner
  <2>2. ~mem.finalizer
    BY <2>1 DEF PatchedRunner, MergeField, Release, TypeOK, RunnerObject
  <2>3. QED
    BY <1>1, <2>2 DEF PatchMeta, Release, ReleaseOrder
<1>2. CASE PatchStatus
  BY <1>2 DEF PatchStatus, PatchedStatus, Release, TypeOK, RunnerObject
<1>3. CASE CreateRunner \/ DeleteRunner
  BY <1>3 DEF CreateRunner, DeleteRunner, WriteRunner, Release, TypeOK, RunnerObject
<1>4. CASE \/ Reconcile \/ CheckBusy \/ RefreshSecret \/ DeletePod \/ DeleteSecret
           \/ EnsureSecret \/ EnsurePod \/ FindID \/ GetRunner \/ AnnotatePod
           \/ ReturnError
  BY <1>4 DEF Reconcile, CheckBusy, RefreshSecret, DeletePod, DeleteSecret,
              EnsureSecret, EnsurePod, FindID, GetRunner, AnnotatePod, ReturnError, objects
<1>5. CASE PodStep
  BY <1>5 DEF PodStep, RegisterRunner, RegisterFails, RunnerOnline, AssignJob, JobDone,
              PodChanges, PodStarts, PodReady, PodSucceeds, ContainerCrash, PodFails,
              TerminatePod, EvictPod, GCPod, GCSecret, TokenAges, objects
<1>6. CASE HookStep
  BY <1>6 DEF HookStep, ProcessWorkflowJobEvent, HookLost, objects
<1>7. CASE SyncRunner \/ SyncPod \/ SyncSecret \/ RestartController
  BY <1>7 DEF SyncRunner, SyncPod, SyncSecret, RestartController, objects
<1>8. CASE UNCHANGED vars
  BY <1>8 DEF vars
<1>9. QED
  BY <1>1, <1>2, <1>3, <1>4, <1>5, <1>6, <1>7, <1>8
  DEF Next, ReconcileStep, Environment

\* A Runner with the controller's finalizer never leaves the API server
\* before its Pod is deleted or terminating and its Secret is gone.
THEOREM TeardownIsComplete == Spec => TeardownBeforeRelease
<1>1. Release /\ [Next]_vars => Release'
  BY ReleaseStep
<1>2. Release /\ [Next]_vars =>
        [runner.alive /\ runner.finalizer /\ ~runner'.alive
           => PodReleased /\ ~SecretExists]_vars
  BY RemovalStep
<1>3. QED
  BY <1>1, <1>2, InitRelease, PTL DEF Spec, TeardownBeforeRelease

=============================================================================
