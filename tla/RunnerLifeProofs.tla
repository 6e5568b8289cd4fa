--------------------------- MODULE RunnerLifeProofs ---------------------------
(***************************************************************************)
(* What the owner of a Runner sees of it.  RunnerSystem implements         *)
(* RunnerLife, whatever Pod, Secret, caches and patches do; and once the   *)
(* controller has nothing left to do, the status of the Runner tells the   *)
(* truth.                                                                  *)
(***************************************************************************)
EXTENDS RunnerPodProofs

\* A reconcile never has an empty phase to write over one it has read.
PhaseNotEmptied == mem.phase # "" \/ mem.phase = before.phase

\* What the refinement rests on.
LifeInv == Incarnations /\ PhaseNotEmptied

-----------------------------------------------------------------------------
(* PhaseNotEmptied is inductive.                                           *)

\* Nothing is in memory in an empty cluster.
LEMMA InitLifeInv == Init => LifeInv
BY InitIncarnations DEF LifeInv, Init, PhaseNotEmptied

\* Reading the Runner copies its phase, or completes it.
LEMMA ReconcilePhase == ASSUME LifeInv, Reconcile PROVE PhaseNotEmptied'
<1>1. runnerCache \in RunnerObject
  BY DEF LifeInv, Incarnations, Release, TypeOK
<1>2. QED
  BY <1>1 DEF LifeInv, Reconcile, StartActiveDeletion, StartDeletion, StartNormal,
              PhaseNotEmptied, RunnerObject

\* The branches of a reconcile only ever set a phase.
LEMMA BranchPhase ==
    ASSUME LifeInv,
           \/ CheckBusy \/ RefreshSecret \/ DeletePod \/ DeleteSecret
           \/ EnsureSecret \/ EnsurePod \/ FindID \/ GetRunner \/ AnnotatePod
           \/ ReturnError
    PROVE  PhaseNotEmptied'
<1>1. mem \in RunnerObject
  BY DEF LifeInv, Incarnations, Release, TypeOK
<1>2. before' = before
  BY DEF CheckBusy, RefreshSecret, DeletePod, DeleteSecret, EnsureSecret, EnsurePod,
         PodStatus, FindID, GetRunner, AnnotatePod, ReturnError, Goto, Return
<1>3. mem'.phase = mem.phase \/ mem'.phase # ""
  BY <1>1 DEF CheckBusy, RefreshSecret, DeletePod, DeleteSecret, EnsureSecret,
              EnsurePod, PodStatus, FindID, GetRunner, AnnotatePod, ReturnError,
              RunnerObject
<1>4. QED
  BY <1>2, <1>3 DEF LifeInv, PhaseNotEmptied

\* The answer to the first patch brings a phase, or leaves the one in memory.
LEMMA PatchPhase ==
    ASSUME LifeInv, PatchMeta \/ PatchStatus PROVE PhaseNotEmptied'
<1>1. PatchedRunner \in RunnerObject
  BY PatchedRunnerType DEF LifeInv, Incarnations, Release
<1>2. DecodedRunner.phase = mem.phase \/ DecodedRunner.phase # ""
  BY <1>1 DEF DecodedRunner, DecodeField, RunnerObject
<1>3. ASSUME Done(TRUE) \/ Done(FALSE) \/ Done(requeue) PROVE PhaseNotEmptied'
  BY <1>3 DEF Done, PhaseNotEmptied
<1>4. CASE PatchStatus
  BY <1>3, <1>4 DEF PatchStatus
<1>5. ASSUME NEW m, NEW l, NEW b, ThenStatus(m, l, b),
             m.phase = mem.phase \/ m.phase # ""
      PROVE  PhaseNotEmptied'
  BY <1>5 DEF ThenStatus, Done, LifeInv, PhaseNotEmptied
<1>6. CASE PatchMeta
  BY <1>2, <1>5, <1>6 DEF PatchMeta
<1>7. QED
  BY <1>4, <1>6

\* Every step keeps what the refinement rests on.
LEMMA LifeInvStep == ASSUME LifeInv, [Next]_vars PROVE LifeInv'
<1>1. Incarnations'
  BY IncarnationsStep DEF LifeInv
<1>2. CASE ReconcileStep
  BY <1>1, <1>2, ReconcilePhase, BranchPhase, PatchPhase DEF ReconcileStep, LifeInv
<1>3. CASE PodStep
  BY <1>1, <1>3 DEF PodStep, RegisterRunner, RegisterFails, RunnerOnline, AssignJob,
     JobDone, PodChanges, PodStarts, PodReady, PodSucceeds, ContainerCrash, PodFails,
     TerminatePod, EvictPod, GCPod, GCSecret, TokenAges, worker, LifeInv, PhaseNotEmptied
<1>4. CASE HookStep
  BY <1>1, <1>4 DEF HookStep, ProcessWorkflowJobEvent, HookLost, worker, LifeInv,
                    PhaseNotEmptied
<1>5. CASE Environment
  BY <1>1, <1>5 DEF Environment, CreateRunner, DeleteRunner, SyncRunner, SyncPod,
                    SyncSecret, RestartController, worker, LifeInv, PhaseNotEmptied
<1>6. CASE UNCHANGED vars
  BY <1>1, <1>6 DEF vars, LifeInv, PhaseNotEmptied
<1>7. QED
  BY <1>2, <1>3, <1>4, <1>5, <1>6 DEF Next

-----------------------------------------------------------------------------
(* Every step is a step of RunnerLife, or changes nothing it mentions.     *)

\* A Runner nobody has created is absent.
LEMMA InitLife == Init => Life!LifeInit
<1>1. /\ NoRunner(0).alive = FALSE /\ NoRunner(0).deleting = FALSE
      /\ NoRunner(0).finalizer = FALSE /\ NoRunner(0).phase = ""
      /\ NoPod.owner = 0 /\ NoSecret.owner = 0
  BY DEF NoRunner, NewRunner, NoPod, NewPod, NoSecret
<1>2. Init => PodReleased /\ ~SecretExists
  BY <1>1 DEF Init, PodReleased, PodExists, SecretExists
<1>3. Init => Life!Absent
  BY <1>1 DEF Init, Life!Absent
<1>4. QED
  BY <1>2, <1>3, Zenon DEF Life!LifeInit

\* What changes only Pod and Secret is a use of the Runner.
LEMMA UseStep == ASSUME runner' = runner PROVE Life!LifeNext
BY DEF Life!LifeNext, Life!Use

\* Users create and delete.
LEMMA UserLife ==
    ASSUME LifeInv, CreateRunner \/ DeleteRunner PROVE Life!LifeNext
<1>1. UNCHANGED <<pod, secret>>
  BY DEF CreateRunner, DeleteRunner
<1>2. (~(PodReleased /\ ~SecretExists))' = ~(PodReleased /\ ~SecretExists)
  BY <1>1 DEF PodReleased, PodExists, SecretExists
<1>3. runner \in RunnerObject
  BY DEF LifeInv, Incarnations, Release, TypeOK
<1>4. CASE CreateRunner
  <2>1. Life!Create
    BY <1>2, <1>4 DEF CreateRunner, WriteRunner, NewRunner, Life!Create
  <2>2. QED
    BY <2>1 DEF Life!LifeNext
<1>5. CASE DeleteRunner
  <2>1. CASE runner.finalizer
    <3>1. /\ runner'.deleting = TRUE /\ runner'.alive = runner.alive
          /\ runner'.finalizer = runner.finalizer /\ runner'.phase = runner.phase
      BY <1>3, <1>5, <2>1 DEF DeleteRunner, WriteRunner, RunnerObject
    <3>2. QED
      BY <1>2, <1>5, <2>1, <3>1 DEF DeleteRunner, Life!Delete, Life!LifeNext
  <2>2. CASE ~runner.finalizer
    <3>1. /\ runner'.alive = FALSE /\ runner'.deleting = FALSE
          /\ runner'.finalizer = FALSE /\ runner'.phase = ""
      BY <1>5, <2>2 DEF DeleteRunner, WriteRunner, NoRunner, NewRunner
    <3>2. QED
      BY <1>2, <1>5, <2>2, <3>1 DEF DeleteRunner, Life!Delete, Life!Absent, Life!LifeNext
  <2>3. QED
    BY <2>1, <2>2
<1>6. QED
  BY <1>4, <1>5

\* The first patch holds the Runner, releases it, or changes nothing that
\* its owner sees.
LEMMA PatchMetaLife ==
    ASSUME LifeInv, PatchMeta PROVE Life!LifeNext \/ UNCHANGED Life!lifeVars
<1>1. CASE runner' = runner
  BY <1>1, UseStep
<1>2. CASE runner.alive /\ runner' = PatchedRunner
  <2>1. Release /\ Incarnations /\ runner \in RunnerObject /\ [Next]_vars
    BY DEF LifeInv, Incarnations, Release, TypeOK, Next, ReconcileStep
  <2>2. (~(PodReleased /\ ~SecretExists))' = ~(PodReleased /\ ~SecretExists)
    BY DEF PatchMeta, PodReleased, PodExists, SecretExists
  <2>3. pc = "patchMeta" /\ pc' # pc
    BY DEF PatchMeta, ThenStatus, Done
  <2>4. CASE ~PatchedRunner.alive
    <3>1. runner.deleting
      BY <1>2, <2>1, <2>4 DEF PatchedRunner, RunnerObject
    <3>2. PodReleased /\ ~SecretExists
      BY <1>2, <2>1, <2>4, <3>1, RemovalStep DEF Release, ReleaseOrder
    <3>3. /\ runner'.alive = FALSE /\ runner'.deleting = FALSE
          /\ runner'.finalizer = FALSE /\ runner'.phase = ""
      BY <1>2, <2>1, <2>4 DEF PatchedRunner, NoRunner, NewRunner, RunnerObject
    <3>4. QED
      BY <2>2, <3>1, <3>2, <3>3 DEF Life!Release, Life!Absent, Life!LifeNext
  <2>5. CASE PatchedRunner.alive
    <3>1. /\ runner'.alive = runner.alive /\ runner'.deleting = runner.deleting
          /\ runner'.phase = runner.phase
      BY <1>2, <2>1, <2>5 DEF PatchedRunner, NoRunner, NewRunner, RunnerObject
    <3>2. PatchedRunner \in RunnerObject
      BY <2>1, PatchedRunnerType DEF Release
    <3>3. CASE runner.deleting
      <4>1. runner.finalizer /\ runner'.finalizer
        BY <1>2, <2>1, <2>5, <3>3 DEF PatchedRunner, NoRunner, NewRunner, RunnerObject,
                                      Release, ReleaseOrder
      <4>2. runner'.finalizer = runner.finalizer
        BY <1>2, <2>1, <3>2, <4>1 DEF RunnerObject
      <4>3. QED
        BY <2>2, <3>1, <4>2 DEF Life!lifeVars
    <3>4. CASE ~runner.deleting
      <4>1. runner.finalizer => runner'.finalizer
        BY <1>2, <2>1, <2>3, <3>4, SparingStep
      <4>2. runner'.finalizer = runner.finalizer \/ runner'.finalizer = TRUE
        BY <1>2, <2>1, <3>2, <4>1 DEF RunnerObject
      <4>3. QED
        BY <1>2, <2>2, <3>1, <3>4, <4>2 DEF Life!Hold, Life!LifeNext, Life!lifeVars
    <3>5. QED
      BY <3>3, <3>4
  <2>6. QED
    BY <2>4, <2>5
<1>3. QED
  BY <1>1, <1>2 DEF PatchMeta, WriteRunner

\* The second patch reports a phase, or leaves the one there is.
LEMMA PatchStatusLife ==
    ASSUME LifeInv, PatchStatus PROVE Life!LifeNext \/ UNCHANGED Life!lifeVars
<1>1. CASE runner' = runner
  BY <1>1, UseStep
<1>2. CASE runner.alive /\ runner' = PatchedStatus
  <2>1. runner \in RunnerObject /\ mem \in RunnerObject
    BY DEF LifeInv, Incarnations, Release, TypeOK
  <2>2. (~(PodReleased /\ ~SecretExists))' = ~(PodReleased /\ ~SecretExists)
    BY DEF PatchStatus, PodReleased, PodExists, SecretExists
  <2>3. /\ runner'.alive = runner.alive /\ runner'.deleting = runner.deleting
        /\ runner'.finalizer = runner.finalizer
        /\ runner'.phase = MergeField(before.phase, mem.phase, runner.phase)
    BY <1>2, <2>1 DEF PatchedStatus, RunnerObject
  <2>4. runner'.phase = runner.phase \/ runner'.phase \in Life!Reported
    BY <2>1, <2>3 DEF MergeField, LifeInv, PhaseNotEmptied, RunnerObject, RunnerPhase,
                      Life!Reported
  <2>5. QED
    BY <1>2, <2>2, <2>3, <2>4 DEF Life!Report, Life!LifeNext, Life!lifeVars
<1>3. QED
  BY <1>1, <1>2 DEF PatchStatus, StatusRefused

\* Every step of the system is a step of RunnerLife or invisible to it.
LEMMA LifeStep ==
    ASSUME LifeInv, [Next]_vars PROVE [Life!LifeNext]_Life!lifeVars
<1>1. CASE PatchMeta
  BY <1>1, PatchMetaLife
<1>2. CASE PatchStatus
  BY <1>2, PatchStatusLife
<1>3. CASE CreateRunner \/ DeleteRunner
  BY <1>3, UserLife
<1>4. CASE \/ Reconcile \/ CheckBusy \/ RefreshSecret \/ DeletePod \/ DeleteSecret
           \/ EnsureSecret \/ EnsurePod \/ FindID \/ GetRunner \/ AnnotatePod
           \/ ReturnError
  <2>1. runner' = runner
    BY <1>4 DEF Reconcile, CheckBusy, RefreshSecret, DeletePod, DeleteSecret,
       EnsureSecret, EnsurePod, FindID, GetRunner, AnnotatePod, ReturnError, objects
  <2>2. QED
    BY <2>1, UseStep
<1>5. CASE PodStep
  <2>1. runner' = runner
    BY <1>5 DEF PodStep, RegisterRunner, RegisterFails, RunnerOnline, AssignJob,
       JobDone, PodChanges, PodStarts, PodReady, PodSucceeds, ContainerCrash, PodFails,
       TerminatePod, EvictPod, GCPod, GCSecret, TokenAges, objects
  <2>2. QED
    BY <2>1, UseStep
<1>6. CASE \/ HookStep \/ SyncRunner \/ SyncPod \/ SyncSecret \/ RestartController
           \/ UNCHANGED vars
  <2>1. runner' = runner
    BY <1>6 DEF HookStep, ProcessWorkflowJobEvent, HookLost, SyncRunner, SyncPod,
                SyncSecret, RestartController, objects, vars
  <2>2. QED
    BY <2>1, UseStep
<1>7. QED
  BY <1>1, <1>2, <1>3, <1>4, <1>5, <1>6 DEF Next, ReconcileStep, Environment

\* RunnerSystem implements RunnerLife for any number of incarnations, any
\* eviction policy and any set of faults.
THEOREM SystemImplementsLife == Spec => ImplementsLife
<1>1. LifeInv /\ [Next]_vars => LifeInv'
  BY LifeInvStep
<1>2. LifeInv /\ [Next]_vars => [Life!LifeNext]_Life!lifeVars
  BY LifeStep
<1>3. QED
  BY <1>1, <1>2, InitLifeInv, InitLife, PTL DEF Spec, ImplementsLife, Life!LifeSpec

-----------------------------------------------------------------------------
(* The status at rest.  Nothing but a change of the Runner, a change of    *)
(* the Pod or an error puts the key back into the queue.  So when nothing  *)
(* is queued, the last reconcile has seen the last Runner and the last     *)
(* Pod, and has changed neither; what it worked out is what they say.      *)

\* Github does not refuse the manager: without access a reconcile ends and
\* is not tried again.
AccessGranted == "denied" \notin Faults

\* Github's deliveries arrive and are handled.
DeliveriesArrive == "hook" \notin Faults

\* A copy that is not behind is the object.
CopiesFresh ==
    /\ "runner" \notin stale => runnerCache = runner
    /\ "pod" \notin stale => podCache = pod

\* The startup probe looks for the .runner file.
ReadyIsRegistered == pod.ready => Running /\ agent # 0

\* A cache that has changed since the reconcile began has queued the key.
AsRead ==
    /\ pc # "idle" /\ ~queued => before = runnerCache
    /\ Working => mem.deleting = before.deleting

\* A reconcile of a Runner that is being deleted does not end in peace: it
\* is repeated, or it takes the finalizer off.
BranchTaken ==
    /\ pc \in {"ensureSecret", "ensurePod", "findID", "getRunner", "annotatePod"}
         => ~mem.deleting
    /\ pc = "patchMeta" /\ mem.deleting => requeue \/ (before.finalizer /\ ~mem.finalizer)

\* Nothing has happened to the Runner or its Pod since the reconcile began.
Undisturbed ==
    ~queued /\ "runner" \notin stale /\ "pod" \notin stale /\ runner.alive

\* what r, a Runner or its object in memory, says of Pod and registration
SaysRegistered(r) ==
    /\ pod.phase = "Running" /\ pod.ready
    /\ agent = r.id /\ r.os /\ r.online = "True"

SaysIdle(r) ==
    /\ SaysRegistered(r) /\ r.phase = "Idle"
    /\ \/ github[agent] = "online"
       \/ /\ github[agent] \in {"busy", "gone"}
          /\ agent \in hooks \/ ~DeliveriesArrive \/ agent # runnerCache.id

SaysActive(r) ==
    SaysRegistered(r) /\ r.phase = "Active" /\ github[agent] \in {"busy", "gone"}

SaysPod(r) ==
    \/ /\ pod.phase \in {"Pending", "Failed"} \/ (pod.phase = "Running" /\ ~pod.ready)
       /\ r.phase = "Pending"
    \/ pod.phase = "Succeeded" /\ r.phase = "Complete" /\ r.online = "False"

EvictionBarred == EvictionPolicy = "IfNotActive" => pod.evict = "false"

Truthful(r) ==
    /\ pod.owner = r.uid
    /\ SaysPod(r) \/ SaysIdle(r) \/ (SaysActive(r) /\ EvictionBarred)

\* How the reconcile that is not disturbed works out the truth.
Knows ==
    Undisturbed =>
        /\ pc = "idle" => ~runner.deleting /\ runner.finalizer /\ Truthful(runner)
        /\ pc \in {"findID", "getRunner", "annotatePod"} =>
             pod.owner = mem.uid /\ pod.phase = "Running" /\ pod.ready
        /\ pc = "getRunner" => mem.id = agent
        /\ pc = "annotatePod" => SaysActive(mem)
        /\ pc = "patchMeta" /\ ~requeue /\ ~mem.deleting => Truthful(mem)
        /\ pc = "patchStatus" => StatusChanged

StatusFacts == CopiesFresh /\ ReadyIsRegistered /\ AsRead /\ BranchTaken /\ Knows

StatusInv == FlowInv /\ StatusFacts

\* Nothing is known of an empty cluster.
LEMMA InitStatus == Init => StatusInv
<1>1. ~NoRunner(0).alive /\ ~NoPod.ready
  BY DEF NoRunner, NewRunner, NoPod, NewPod
<1>2. Init => StatusFacts
  BY <1>1 DEF Init, StatusFacts, CopiesFresh, ReadyIsRegistered, AsRead, BranchTaken,
              Knows, Undisturbed, Working
<1>3. QED
  BY <1>2, InitFlow DEF StatusInv

-----------------------------------------------------------------------------
(* Copies and the Pod.                                                     *)

\* A step that changes the Runner or the Pod leaves its copy behind.
LEMMA FreshStep == ASSUME TypeOK, CopiesFresh, [Next]_vars PROVE CopiesFresh'
<1>1. CASE ReconcileStep
  <2>1. CASE Reconcile \/ CheckBusy \/ FindID \/ GetRunner \/ ReturnError
    BY <2>1 DEF Reconcile, CheckBusy, FindID, GetRunner, ReturnError, CopiesFresh,
                objects, caches
  <2>2. CASE RefreshSecret \/ DeleteSecret \/ EnsureSecret
    BY <2>2 DEF RefreshSecret, DeleteSecret, EnsureSecret, SecretWritten, SecretKept,
                SecretRefused, SecretDenied, WriteSecret, CopiesFresh, caches
  <2>3. CASE DeletePod \/ EnsurePod \/ AnnotatePod
    BY <2>3 DEF DeletePod, EnsurePod, AnnotatePod, WritePod, CopiesFresh, caches
  <2>4. CASE PatchMeta \/ PatchStatus
    BY <2>4 DEF PatchMeta, PatchStatus, WriteRunner, CopiesFresh, caches
  <2>5. QED
    BY <1>1, <2>1, <2>2, <2>3, <2>4 DEF ReconcileStep
<1>2. CASE PodStep
  BY <1>2 DEF PodStep, RegisterRunner, RegisterFails, RunnerOnline, AssignJob, JobDone,
     PodChanges, PodStarts, PodReady, PodSucceeds, ContainerCrash, PodFails,
     TerminatePod, EvictPod, GCPod, GCSecret, TokenAges, WritePod, WriteSecret, objects,
     caches, CopiesFresh
<1>3. CASE HookStep \/ Environment \/ UNCHANGED vars
  BY <1>3 DEF HookStep, ProcessWorkflowJobEvent, TriggerRunnerReconciliation, HookLost,
     Environment, CreateRunner, DeleteRunner, SyncRunner, SyncPod, SyncSecret,
     RestartController, WriteRunner, objects, caches, vars, CopiesFresh
<1>4. QED
  BY <1>1, <1>2, <1>3 DEF Next

\* What a step of the Pod does that is not seen in the Pod.
LEMMA UnseenPodStep ==
    ASSUME TypeOK, ReadyIsRegistered, pod.ready, PodStep, pod' = pod
    PROVE  /\ agent' = agent /\ hooks \subseteq hooks'
           /\ \/ github'[agent] = github[agent]
              \/ github[agent] \notin {"online", "busy", "gone"}
              \/ github[agent] = "online" /\ github'[agent] = "busy" /\ agent \in hooks'
              \/ github[agent] = "busy" /\ github'[agent] = "gone"
<1>1. /\ Running /\ agent # 0 /\ pod \in PodObject
      /\ github \in [1..MaxRegistrations -> Registration] /\ agent \in 1..MaxRegistrations
  BY ConstantsAssumption DEF ReadyIsRegistered, TypeOK, RegistrationID
<1>2. CASE RegisterRunner \/ RegisterFails \/ GCSecret \/ TokenAges
  BY <1>1, <1>2 DEF RegisterRunner, RegisterFails, GCSecret, TokenAges, outside
<1>3. CASE RunnerOnline \/ AssignJob \/ JobDone
  BY <1>1, <1>3 DEF RunnerOnline, AssignJob, JobDone
<1>4. CASE PodStarts \/ PodReady \/ EvictPod \/ GCPod
  BY <1>4 DEF PodStarts, PodReady, EvictPod, GCPod, PodChanges
<1>5. CASE PodSucceeds \/ ContainerCrash \/ PodFails
  BY <1>1, <1>5 DEF PodSucceeds, ContainerCrash, PodFails, PodChanges, WritePod, PodObject
<1>6. CASE TerminatePod
  BY <1>1, <1>6 DEF TerminatePod, PodChanges, WritePod, NoPod, NewPod, PodExists, PodObject
<1>7. QED
  BY <1>2, <1>3, <1>4, <1>5, <1>6 DEF PodStep

\* A Pod is Ready as long as its container is registered.
LEMMA ReadyStep == ASSUME FlowInv, ReadyIsRegistered, [Next]_vars PROVE ReadyIsRegistered'
<1>1. TypeOK /\ pod \in PodObject
  BY DEF FlowInv, Incarnations, Release, TypeOK
<1>2. CASE PodStep
  <2>1. CASE RegisterRunner \/ RegisterFails \/ RunnerOnline \/ AssignJob \/ JobDone
             \/ GCSecret \/ TokenAges
    BY <1>1, <2>1, ConstantsAssumption DEF RegisterRunner, RegisterFails, RunnerOnline,
       AssignJob, JobDone, GCSecret, TokenAges, objects, outside, ReadyIsRegistered,
       Running, PodExists, TypeOK
  <2>2. CASE PodStarts \/ PodReady \/ PodSucceeds \/ ContainerCrash \/ PodFails
             \/ TerminatePod \/ EvictPod \/ GCPod
    BY <1>1, <2>2 DEF PodStarts, PodReady, PodSucceeds, ContainerCrash, PodFails,
       TerminatePod, EvictPod, GCPod, PodChanges, WritePod, NoPod, NewPod,
       ReadyIsRegistered, Running, PodExists, PodObject
  <2>3. QED
    BY <1>2, <2>1, <2>2 DEF PodStep
<1>3. CASE DeletePod \/ EnsurePod \/ AnnotatePod
  <2>1. mem.uid \in Nat /\ (EnsurePod => mem.uid > 0)
    BY <1>1, MoreUidsAreNumbers DEF EnsurePod, FlowInv, FlowFacts, OneRunner, Working
  <2>2. agent' = agent
    BY <1>3 DEF DeletePod, EnsurePod, AnnotatePod, outside
  <2>3. /\ pod'.ready => pod.ready
        /\ pod.ready => pod'.phase = pod.phase /\ (pod'.owner = 0 => pod.owner = 0)
    <3>1. CASE EnsurePod
      <4>1. ~NewPod(mem.uid).ready /\ [pod EXCEPT !.owner = mem.uid].owner = mem.uid
        BY <1>1 DEF NewPod, PodObject
      <4>2. pod.ready => PodExists
        BY DEF ReadyIsRegistered, Running
      <4>3. \/ pod' = pod \/ (~PodExists /\ pod' = NewPod(mem.uid))
            \/ pod' = [pod EXCEPT !.owner = mem.uid]
        BY <3>1 DEF EnsurePod, WritePod
      <4>4. mem.uid # 0
        BY <2>1, <3>1
      <4>5. QED
        BY <1>1, <4>1, <4>2, <4>3, <4>4 DEF PodExists, PodObject
    <3>2. CASE DeletePod \/ AnnotatePod
      BY <1>1, <3>2 DEF DeletePod, AnnotatePod, WritePod, PodObject
    <3>3. QED
      BY <1>3, <3>1, <3>2
  <2>4. QED
    BY <2>2, <2>3 DEF ReadyIsRegistered, Running, PodExists
<1>4. CASE UNCHANGED <<pod, agent>>
  BY <1>4 DEF ReadyIsRegistered, Running, PodExists
<1>5. QED
  BY <1>2, <1>3, <1>4 DEF Next, ReconcileStep, Reconcile, CheckBusy, RefreshSecret,
     DeleteSecret, EnsureSecret, FindID, GetRunner, ReturnError, PatchMeta, PatchStatus,
     HookStep, ProcessWorkflowJobEvent, HookLost, Environment, CreateRunner, DeleteRunner,
     SyncRunner, SyncPod, SyncSecret, RestartController, objects, outside, vars

-----------------------------------------------------------------------------
(* Steps outside the reconcile.                                            *)

\* The registration moves on: a job that is given to it is announced, and
\* the announcement that is gone has woken the controller or was lost.
MovesOn ==
    pod.ready =>
        /\ agent' = agent
        /\ \/ github'[agent] = github[agent]
           \/ github[agent] \notin {"online", "busy", "gone"}
           \/ github[agent] = "online" /\ github'[agent] = "busy" /\ agent \in hooks'
           \/ github[agent] = "busy" /\ github'[agent] = "gone"
        /\ agent \in hooks =>
             agent \in hooks' \/ ~DeliveriesArrive \/ agent # runnerCache.id

\* What is said of the Pod stays true while the Pod does not change.
LEMMA TruthStands ==
    ASSUME MovesOn, UNCHANGED <<pod, runnerCache>>
    PROVE  /\ mem' = mem /\ Truthful(mem) => Truthful(mem)'
           /\ mem' = mem /\ SaysActive(mem) => SaysActive(mem)'
           /\ runner' = runner /\ Truthful(runner) => Truthful(runner)'
BY DEF MovesOn, Truthful, SaysPod, SaysIdle, SaysActive, SaysRegistered, EvictionBarred

\* A step outside the reconcile either disturbs it or changes nothing it has
\* found out.
LEMMA OutsideStatus ==
    ASSUME StatusInv, UNCHANGED worker, queued => queued',
           UNCHANGED runnerCache \/ queued',
           Undisturbed' =>
              Undisturbed /\ UNCHANGED <<runner, pod, runnerCache>> /\ MovesOn
    PROVE  AsRead' /\ BranchTaken' /\ Knows'
<1>1. UNCHANGED <<pc, before, mem, requeue>>
  BY DEF worker
<1>2. AsRead' /\ BranchTaken'
  BY <1>1 DEF StatusInv, StatusFacts, AsRead, BranchTaken, Working
<1>3. Knows'
  <2> SUFFICES ASSUME Undisturbed'
               PROVE  Knows'
    BY DEF Knows
  <2>1. Undisturbed /\ UNCHANGED <<runner, pod, runnerCache>> /\ MovesOn
    OBVIOUS
  <2>2. pc \in {"getRunner"} => agent' = agent
    BY <2>1 DEF MovesOn, StatusInv, StatusFacts, Knows
  <2>3. QED
    BY <1>1, <2>1, <2>2, TruthStands DEF StatusInv, StatusFacts, Knows, StatusChanged
<1>4. QED
  BY <1>2, <1>3

\* The Pod and its registration.
LEMMA PodStepStatus == ASSUME StatusInv, PodStep PROVE AsRead' /\ BranchTaken' /\ Knows'
<1>1. UNCHANGED <<runner, runnerCache, worker>>
  BY PodStepWorker
<1>2. /\ UNCHANGED queued \/ queued' = TRUE
      /\ stale' \in {stale, stale \cup {"secret"}, stale \cup {"pod"}}
      /\ pod' = pod \/ "pod" \in stale'
  <2>1. CASE RegisterRunner \/ RegisterFails \/ RunnerOnline \/ AssignJob \/ JobDone
             \/ GCSecret \/ TokenAges
    BY <2>1 DEF RegisterRunner, RegisterFails, RunnerOnline, AssignJob, JobDone,
       GCSecret, TokenAges, objects, WriteSecret
  <2>2. CASE PodStarts \/ PodReady \/ PodSucceeds \/ ContainerCrash \/ PodFails
             \/ TerminatePod \/ EvictPod \/ GCPod
    <3>1. UNCHANGED queued /\ \E p : WritePod(p)
      BY <2>2 DEF PodStarts, PodReady, PodSucceeds, ContainerCrash, PodFails,
         TerminatePod, EvictPod, GCPod, PodChanges
    <3>2. QED
      BY <3>1 DEF WritePod
  <2>3. QED
    BY <2>1, <2>2 DEF PodStep
<1>3. ASSUME Undisturbed'
      PROVE  Undisturbed /\ pod' = pod
  BY <1>1, <1>2, <1>3 DEF Undisturbed
<1>4. ASSUME pod' = pod
      PROVE  MovesOn
  <2>1. TypeOK /\ ReadyIsRegistered
    BY DEF StatusInv, StatusFacts, FlowInv, Incarnations, Release
  <2>2. QED
    BY <1>4, <2>1, UnseenPodStep DEF MovesOn
<1>5. QED
  BY <1>1, <1>2, <1>3, <1>4, OutsideStatus

\* A delivery that finds the Runner in the index changes it.
LEMMA HookStatus == ASSUME StatusInv, HookStep PROVE AsRead' /\ BranchTaken' /\ Knows'
<1>1. /\ UNCHANGED <<runner, pod, runnerCache, queued, agent, github, worker>>
      /\ stale \subseteq stale'
  BY DEF HookStep, ProcessWorkflowJobEvent, TriggerRunnerReconciliation, HookLost,
         objects, caches
<1>2. ASSUME Undisturbed'
      PROVE  Undisturbed /\ MovesOn
  <2>1. Undisturbed
    BY <1>1, <1>2 DEF Undisturbed
  <2>2. runnerCache = runner
    BY <2>1 DEF StatusInv, StatusFacts, CopiesFresh, Undisturbed
  <2>3. PICK i \in 1..MaxRegistrations : ProcessWorkflowJobEvent(i) \/ HookLost(i)
    BY DEF HookStep
  <2>4. hooks' = hooks \ {i} /\ (i = runnerCache.id => ~DeliveriesArrive)
    BY <1>2, <2>1, <2>2, <2>3 DEF ProcessWorkflowJobEvent, HookLost, IndexedRunner,
       TriggerRunnerReconciliation, Undisturbed, DeliveriesArrive
  <2>5. QED
    BY <1>1, <2>1, <2>4 DEF MovesOn
<1>3. QED
  BY <1>1, <1>2, OutsideStatus

\* Users, the informers and a restart.
LEMMA EnvironmentStatus ==
    ASSUME StatusInv, Environment \/ UNCHANGED vars PROVE AsRead' /\ BranchTaken' /\ Knows'
<1>1. CASE CreateRunner \/ DeleteRunner
  <2>1. UNCHANGED <<pod, runnerCache, queued, worker>>
    BY <1>1 DEF CreateRunner, DeleteRunner, caches
  <2>2. "runner" \in stale'
    <3>1. runner' # runner
      <4>1. /\ runner \in RunnerObject /\ NewRunner(runner.uid + 1).alive
            /\ ~NoRunner(runner.uid).alive /\ [runner EXCEPT !.deleting = TRUE].deleting
        BY RunnerFields DEF StatusInv, FlowInv, Incarnations, Release, TypeOK
      <4>2. QED
        BY <1>1, <4>1 DEF CreateRunner, DeleteRunner, WriteRunner
    <3>2. QED
      BY <1>1, <3>1 DEF CreateRunner, DeleteRunner, WriteRunner
  <2>3. QED
    BY <2>1, <2>2, OutsideStatus DEF Undisturbed
<1>2. CASE SyncRunner \/ SyncPod
  BY <1>2, OutsideStatus DEF SyncRunner, SyncPod, Undisturbed
<1>3. CASE SyncSecret \/ UNCHANGED vars
  <2>1. /\ UNCHANGED <<runner, pod, runnerCache, queued, agent, github, hooks, worker>>
        /\ "runner" \in stale' <=> "runner" \in stale
        /\ "pod" \in stale' <=> "pod" \in stale
    BY <1>3 DEF SyncSecret, objects, outside, worker, vars
  <2>2. QED
    BY <2>1, OutsideStatus DEF Undisturbed, MovesOn
<1>4. CASE RestartController
  BY <1>4 DEF RestartController, AsRead, BranchTaken, Knows, Undisturbed, Working
<1>5. QED
  BY <1>1, <1>2, <1>3, <1>4 DEF Environment

-----------------------------------------------------------------------------
(* The reconcile.                                                          *)

\* It begins with the copies as they are.
LEMMA ReconcileStatus == ASSUME StatusInv, Reconcile PROVE AsRead' /\ BranchTaken' /\ Knows'
<1>1. /\ pc = "idle" /\ UNCHANGED <<runner, runnerCache, stale>>
      /\ TypeOK /\ CopiesFresh
  BY DEF Reconcile, objects, caches, StatusInv, StatusFacts, FlowInv, Incarnations, Release
<1>2. CASE ~runnerCache.alive
  <2>1. pc' = "idle"
    BY <1>1, <1>2 DEF Reconcile
  <2>2. ~Undisturbed'
    BY <1>1, <1>2 DEF Undisturbed, CopiesFresh
  <2>3. QED
    BY <2>1, <2>2 DEF AsRead, BranchTaken, Knows, Working
<1>3. CASE runnerCache.alive
  <2>1. pc' = "patchMeta" => requeue' = TRUE /\ mem'.deleting
    BY <1>1, <1>3, Started DEF Reconcile, StartActiveDeletion, StartDeletion, StartNormal
  <2>2. QED
    BY <1>1, <1>3, <2>1, Started DEF AsRead, BranchTaken, Knows, Working
<1>4. QED
  BY <1>2, <1>3

\* What the steps of a branch leave to be shown.
LEMMA BranchEnough ==
    ASSUME StatusInv, Branch, UNCHANGED queued, BranchTaken',
           Undisturbed' => Knows'
    PROVE  AsRead' /\ BranchTaken' /\ Knows'
<1>1. AsRead'
  BY BranchStep DEF StatusInv, StatusFacts, FlowInv, Incarnations, Release, AsRead, Working
<1>2. QED
  BY <1>1 DEF Knows

\* The deletion branch ends with the finalizer taken off, or is repeated.
LEMMA TeardownStatus ==
    ASSUME StatusInv, CheckBusy \/ RefreshSecret \/ DeletePod \/ DeleteSecret \/ ReturnError
    PROVE  AsRead' /\ BranchTaken' /\ Knows'
<1>1. Branch /\ TypeOK /\ mem \in RunnerObject
  BY DEF Branch, StatusInv, FlowInv, Incarnations, Release, TypeOK
<1>2. UNCHANGED queued
  BY DEF CheckBusy, RefreshSecret, DeletePod, DeleteSecret, ReturnError
<1>3. /\ pc' \in {"deletePod", "deleteSecret", "patchMeta"}
      /\ pc' = "patchMeta" => requeue' = TRUE \/ (DeleteSecret /\ ~mem'.finalizer)
  BY <1>1 DEF CheckBusy, RefreshSecret, DeletePod, DeleteSecret, ReturnError, Goto, Return,
     RunnerObject
<1>4. DeleteSecret => mem.deleting /\ before.finalizer
  BY DEF DeleteSecret, StatusInv, FlowInv, Incarnations, IncarnationOrder
<1>5. mem'.deleting = mem.deleting /\ UNCHANGED <<before, runner>> /\ stale \subseteq stale'
  <2>1. stale \subseteq stale'
    BY DEF CheckBusy, RefreshSecret, DeletePod, DeleteSecret, ReturnError, SecretWritten,
       SecretKept, SecretRefused, WriteSecret, WritePod
  <2>2. QED
    BY <1>1, <2>1, BranchStep
<1>6. BranchTaken'
  BY <1>3, <1>4, <1>5 DEF BranchTaken
<1>7. Undisturbed' => Undisturbed
  BY <1>2, <1>5 DEF Undisturbed
<1>8. Knows'
  BY <1>3, <1>4, <1>5 DEF Knows
<1>9. QED
  BY <1>1, <1>2, <1>6, <1>7, <1>8, BranchEnough

\* With access to Github the Secret is followed by the Pod, or tried again.
LEMMA EnsureSecretStatus ==
    ASSUME StatusInv, AccessGranted, EnsureSecret PROVE AsRead' /\ BranchTaken' /\ Knows'
<1>1. /\ UNCHANGED <<queued, mem, runner>> /\ stale \subseteq stale' /\ ~mem.deleting
      /\ pc' = "ensurePod" \/ (pc' = "patchMeta" /\ requeue' = TRUE)
  BY DEF EnsureSecret, SecretWritten, SecretKept, SecretRefused, SecretDenied, WriteSecret,
     Goto, Return, AccessGranted, Denied, StatusInv, StatusFacts, BranchTaken
<1>2. BranchTaken' /\ Knows'
  BY <1>1 DEF BranchTaken, Knows
<1>3. QED
  BY <1>1, <1>2, BranchEnough DEF Branch, Undisturbed

\* A Pod that is created or taken over is a change; one that is there says
\* what the phase is.
LEMMA EnsurePodStatus == ASSUME StatusInv, EnsurePod PROVE AsRead' /\ BranchTaken' /\ Knows'
<1>1. /\ TypeOK /\ mem \in RunnerObject /\ pod \in PodObject /\ CopiesFresh
      /\ mem.uid > 0 /\ mem.uid \in Nat /\ ~mem.deleting
  BY MoreUidsAreNumbers DEF EnsurePod, StatusInv, StatusFacts, FlowInv, FlowFacts, OneRunner,
     Working, Incarnations, Release, TypeOK, BranchTaken
<1>2. /\ pc' \in {"findID", "patchMeta"} /\ mem'.deleting = mem.deleting
      /\ UNCHANGED <<queued, runner, runnerCache>> /\ stale \subseteq stale'
  BY <1>1 DEF EnsurePod, PodStatus, Goto, Return, WritePod, caches, RunnerObject
<1>3. BranchTaken'
  BY <1>1, <1>2 DEF BranchTaken
<1>4. ASSUME Undisturbed' PROVE Undisturbed /\ Knows'
  <2>1. Undisturbed /\ podCache = pod
    BY <1>1, <1>2, <1>4 DEF Undisturbed, CopiesFresh
  <2>2. \/ podCache.owner = mem.uid /\ PodStatus(podCache) /\ UNCHANGED pod
        \/ pc' = "patchMeta" /\ requeue' = TRUE
    <3>1. ASSUME pod.owner = 0, WritePod(NewPod(mem.uid)) PROVE FALSE
      <4>1. NewPod(mem.uid).owner = mem.uid
        BY DEF NewPod
      <4>2. QED
        BY <1>1, <1>4, <3>1, <4>1 DEF WritePod, Undisturbed
    <3>2. ASSUME pod.owner # mem.uid, WritePod([pod EXCEPT !.owner = mem.uid]) PROVE FALSE
      <4>1. [pod EXCEPT !.owner = mem.uid].owner = mem.uid
        BY <1>1 DEF PodObject
      <4>2. QED
        BY <1>4, <3>2, <4>1 DEF WritePod, Undisturbed
    <3>3. QED
      BY <2>1, <3>1, <3>2 DEF EnsurePod, PodExists, Return
  <2>3. CASE podCache.owner = mem.uid /\ PodStatus(podCache) /\ UNCHANGED pod
    <3>1. /\ pc' = "findID" => pod.phase = "Running" /\ pod.ready
          /\ pc' = "patchMeta" => SaysPod(mem)'
          /\ mem'.uid = mem.uid
      BY <1>1, <2>1, <2>3 DEF PodStatus, Goto, Return, SaysPod, RunnerObject, PodObject
    <3>2. QED
      BY <1>2, <2>1, <2>3, <3>1 DEF Knows, Truthful
  <2>4. QED
    BY <1>2, <2>1, <2>2, <2>3 DEF Knows
<1>5. QED
  BY <1>2, <1>3, <1>4, BranchEnough DEF Branch

\* Asking the container and Github.
LEMMA AskStatus ==
    ASSUME StatusInv, FindID \/ GetRunner PROVE AsRead' /\ BranchTaken' /\ Knows'
<1>1. TypeOK /\ mem \in RunnerObject /\ ~mem.deleting
  BY DEF FindID, GetRunner, StatusInv, StatusFacts, FlowInv, Incarnations, Release, TypeOK,
     BranchTaken
<1>2. /\ UNCHANGED <<runner, pod, runnerCache, stale, agent, github, hooks, queued>>
      /\ mem'.deleting = mem.deleting /\ mem'.uid = mem.uid
  BY <1>1 DEF FindID, GetRunner, objects, caches, outside, RunnerObject
<1>3. BranchTaken'
  BY <1>1, <1>2 DEF BranchTaken
<1>4. ASSUME Undisturbed' PROVE Undisturbed /\ Knows'
  <2>1. Undisturbed /\ pod.owner = mem.uid /\ pod.phase = "Running" /\ pod.ready
    BY <1>2, <1>4 DEF Undisturbed, StatusInv, StatusFacts, Knows, FindID, GetRunner
  <2>2. CASE FindID
    <3>1. (pc' = "getRunner" /\ mem'.id = agent) \/ (pc' = "patchMeta" /\ requeue' = TRUE)
      BY <1>1, <2>2 DEF FindID, Goto, Return, RunnerObject
    <3>2. QED
      BY <1>2, <2>1, <3>1 DEF Knows
  <2>3. CASE GetRunner
    <3>1. mem.id = agent
      BY <2>1, <2>3 DEF GetRunner, StatusInv, StatusFacts, Knows
    <3>2. \/ pc' = "patchMeta" /\ requeue' = TRUE
          \/ pc' = "patchMeta" /\ SaysIdle(mem)'
          \/ pc' \in {"annotatePod", "patchMeta"} /\ SaysActive(mem)'
             /\ (pc' = "patchMeta" => EvictionPolicy # "IfNotActive")
      BY <1>1, <1>2, <2>1, <2>3, <3>1 DEF GetRunner, Goto, Return, SaysIdle, SaysActive,
         SaysRegistered, RunnerObject
    <3>3. QED
      BY <1>2, <2>1, <3>2 DEF Knows, Truthful, EvictionBarred
  <2>4. QED
    BY <2>2, <2>3
<1>5. QED
  BY <1>2, <1>3, <1>4, BranchEnough DEF Branch

\* The annotation is a change, or is there already.
LEMMA AnnotateStatus == ASSUME StatusInv, AnnotatePod PROVE AsRead' /\ BranchTaken' /\ Knows'
<1>1. /\ UNCHANGED <<runner, runnerCache, agent, github, hooks, queued, mem>>
      /\ pc' = "patchMeta" /\ ~mem.deleting /\ pod \in PodObject /\ stale \subseteq stale'
  BY DEF AnnotatePod, Return, WritePod, caches, outside, StatusInv, StatusFacts, BranchTaken,
     FlowInv, Incarnations, Release, TypeOK
<1>2. BranchTaken'
  BY <1>1 DEF BranchTaken
<1>3. ASSUME Undisturbed' PROVE Undisturbed /\ Knows'
  <2>1. Undisturbed /\ pod.owner = mem.uid /\ SaysActive(mem)
    BY <1>1, <1>3 DEF Undisturbed, StatusInv, StatusFacts, Knows, AnnotatePod
  <2>2. requeue' = TRUE \/ (pod' = pod /\ pod.evict = "false")
    BY <1>1, <1>3 DEF AnnotatePod, Return, WritePod, Undisturbed, PodObject
  <2>3. QED
    BY <1>1, <2>1, <2>2 DEF Knows, Truthful, SaysActive, SaysRegistered, EvictionBarred
<1>4. QED
  BY <1>1, <1>2, <1>3, BranchEnough DEF Branch

\* The fields the patches write.
LEMMA PatchedFields ==
    ASSUME TypeOK
    PROVE  /\ PatchedRunner.alive =>
                /\ PatchedRunner.finalizer
                     = MergeField(before.finalizer, mem.finalizer, runner.finalizer)
                /\ PatchedRunner.id = MergeField(before.id, mem.id, runner.id)
                /\ PatchedRunner.os = MergeField(before.os, mem.os, runner.os)
           /\ PatchedStatus.phase = MergeField(before.phase, mem.phase, runner.phase)
           /\ PatchedStatus.online = MergeField(before.online, mem.online, runner.online)
<1>1. runner \in RunnerObject
  BY DEF TypeOK
<1>2. PatchedRunner.alive =>
        /\ PatchedRunner.finalizer
             = MergeField(before.finalizer, mem.finalizer, runner.finalizer)
        /\ PatchedRunner.id = MergeField(before.id, mem.id, runner.id)
        /\ PatchedRunner.os = MergeField(before.os, mem.os, runner.os)
  BY <1>1 DEF PatchedRunner, NoRunner, NewRunner, RunnerObject
<1>3. /\ PatchedStatus.phase = MergeField(before.phase, mem.phase, runner.phase)
      /\ PatchedStatus.online = MergeField(before.online, mem.online, runner.online)
  BY <1>1 DEF PatchedStatus, RunnerObject
<1>4. QED
  BY <1>2, <1>3

\* A patch that writes is a change; one that has nothing to write leaves a
\* Runner that is what the reconcile worked out.
LEMMA PatchMetaStatus == ASSUME StatusInv, PatchMeta PROVE AsRead' /\ BranchTaken' /\ Knows'
<1>1. TypeOK /\ CopiesFresh /\ AsRead /\ BranchTaken /\ Knows /\ pc = "patchMeta"
  BY DEF StatusInv, StatusFacts, FlowInv, Incarnations, Release, PatchMeta
<1>2. /\ UNCHANGED <<pod, runnerCache, agent, github, hooks>>
      /\ pc' = "idle" \/ (pc' = "patchStatus" /\ UNCHANGED <<before, queued>>)
  BY DEF PatchMeta, ThenStatus, Done, caches, outside
<1>3. AsRead' /\ BranchTaken'
  BY <1>1, <1>2 DEF AsRead, BranchTaken, Working
<1>4. ASSUME Undisturbed' PROVE Knows'
  <2>1. /\ stale \subseteq stale' /\ (queued' = FALSE => queued = FALSE) /\ queued \in BOOLEAN
        /\ runner' = runner \/ "runner" \in stale'
    BY <1>1 DEF PatchMeta, ThenStatus, Done, WriteRunner, TypeOK
  <2>2. Undisturbed /\ before = runnerCache /\ runnerCache = runner /\ runner' = runner
    BY <1>1, <1>4, <2>1 DEF Undisturbed, CopiesFresh, AsRead, TypeOK
  <2>3. CASE ~MetaChanged
    <3>1. ThenStatus(mem, FALSE, requeue)
      BY <2>3 DEF PatchMeta
    <3>2. CASE StatusChanged
      BY <3>1, <3>2 DEF ThenStatus, Knows, StatusChanged
    <3>3. CASE ~StatusChanged
      <4>1. pc' = "idle" /\ ~requeue /\ mem.uid = runner.uid
        BY <1>1, <1>4, <2>2, <3>1, <3>3 DEF ThenStatus, Done, Undisturbed, TypeOK, StatusInv,
           FlowInv, FlowFacts, OneRunner, Working
      <4>2. mem.deleting = runner.deleting /\ ~mem.deleting
        BY <1>1, <2>2, <2>3, <4>1 DEF AsRead, BranchTaken, MetaChanged, Working
      <4>3. mem.finalizer /\ Truthful(mem)
        BY <1>1, <2>2, <4>1, <4>2 DEF Knows, StatusInv, FlowInv, Incarnations,
           IncarnationOrder
      <4>4. Truthful(runner)
        BY <2>2, <2>3, <3>3, <4>1, <4>3 DEF MetaChanged, StatusChanged, Truthful, SaysPod,
           SaysIdle, SaysActive, SaysRegistered
      <4>5. Truthful(runner)'
        BY <1>2, <2>2, <4>4 DEF Truthful, SaysPod, SaysIdle, SaysActive, SaysRegistered,
           EvictionBarred
      <4>6. runner.finalizer
        BY <2>2, <2>3, <4>3 DEF MetaChanged
      <4>7. QED
        BY <2>2, <4>1, <4>2, <4>5, <4>6 DEF Knows
    <3>4. QED
      BY <3>2, <3>3
  <2>4. CASE MetaChanged /\ runner.alive /\ WriteRunner(PatchedRunner)
    <3>1. PatchedRunner = runner
      BY <2>2, <2>4 DEF WriteRunner
    <3>2. QED
      BY <1>1, <2>2, <2>4, <3>1, PatchedFields DEF MetaChanged, MergeField
  <2>5. CASE MetaChanged /\ ThenStatus(mem, FALSE, TRUE)
    <3>1. CASE StatusChanged
      BY <2>5, <3>1 DEF ThenStatus, Knows, StatusChanged
    <3>2. CASE ~StatusChanged
      BY <1>4, <2>5, <3>2 DEF ThenStatus, Done, Undisturbed
    <3>3. QED
      BY <3>1, <3>2
  <2>6. QED
    BY <2>3, <2>4, <2>5 DEF PatchMeta
<1>5. QED
  BY <1>3, <1>4 DEF Knows

\* So is a status that is written.
LEMMA PatchStatusStatus == ASSUME StatusInv, PatchStatus PROVE AsRead' /\ BranchTaken' /\ Knows'
<1>1. TypeOK /\ CopiesFresh /\ AsRead /\ Knows /\ pc = "patchStatus" /\ pc' = "idle"
  BY DEF StatusInv, StatusFacts, FlowInv, Incarnations, Release, PatchStatus, Done
<1>2. ASSUME Undisturbed' PROVE FALSE
  <2>1. ~StatusRefused /\ runner' = PatchedStatus /\ queued' = (queued \/ requeue)
        /\ stale' = IF PatchedStatus = runner THEN stale ELSE stale \cup {"runner"}
    BY <1>2 DEF PatchStatus, Done, Undisturbed
  <2>2. PatchedStatus = runner /\ Undisturbed
    BY <1>2, <2>1 DEF Undisturbed
  <2>3. StatusChanged /\ before = runner
    BY <1>1, <2>2 DEF Undisturbed, CopiesFresh, AsRead, Knows
  <2>4. QED
    BY <1>1, <2>2, <2>3, PatchedFields DEF StatusChanged, MergeField
<1>3. QED
  BY <1>1, <1>2 DEF AsRead, BranchTaken, Knows, Working

\* Every step keeps what is known.
LEMMA StatusInvStep == ASSUME StatusInv, AccessGranted, [Next]_vars PROVE StatusInv'
<1>1. FlowInv' /\ CopiesFresh' /\ ReadyIsRegistered'
  BY FlowStep, FreshStep, ReadyStep
  DEF StatusInv, StatusFacts, FlowInv, Incarnations, Release
<1>2. AsRead' /\ BranchTaken' /\ Knows'
  BY ReconcileStatus, TeardownStatus, EnsureSecretStatus, EnsurePodStatus, AskStatus,
     AnnotateStatus, PatchMetaStatus, PatchStatusStatus, PodStepStatus, HookStatus,
     EnvironmentStatus DEF Next, ReconcileStep
<1>3. QED
  BY <1>1, <1>2 DEF StatusInv, StatusFacts

\* At rest the status is right, or silent about a job Github did not announce.
LEMMA RestIsTruthful ==
    ASSUME StatusInv, Quiescent, runner.alive
    PROVE  /\ ~runner.deleting /\ runner.finalizer /\ pod.owner = runner.uid
           /\ RightPhase \/ HiddenJob
           /\ DeliveriesArrive => RightPhase
<1>1. Undisturbed /\ pc = "idle" /\ hooks = {}
  BY DEF Quiescent, Undisturbed
<1>2. ~runner.deleting /\ runner.finalizer /\ Truthful(runner) /\ runnerCache = runner
  BY <1>1 DEF StatusInv, StatusFacts, Knows, CopiesFresh, Undisturbed
<1>3. CASE SaysPod(runner)
  BY <1>2, <1>3 DEF SaysPod, RightPhase, Truthful
<1>4. CASE SaysIdle(runner)
  BY <1>1, <1>2, <1>4 DEF SaysIdle, SaysRegistered, RightPhase, HiddenJob, Truthful
<1>5. CASE SaysActive(runner) /\ EvictionBarred
  BY <1>2, <1>5 DEF SaysActive, SaysRegistered, RightPhase, EvictionBarred, Truthful
<1>6. QED
  BY <1>2, <1>3, <1>4, <1>5 DEF Truthful

\* As long as Github does not withdraw access and its deliveries arrive, a
\* Runner the controller is done with has its finalizer, its Pod and a status
\* that tells the truth: for any number of incarnations and registrations,
\* with failing calls and patches, crashes, evictions, expired tokens, and
\* containers and Pods that fail.
THEOREM StatusRightAtRest ==
    ASSUME AccessGranted, DeliveriesArrive PROVE Spec => []QuiescentStatus
<1>1. StatusInv /\ [Next]_vars => StatusInv'
  BY StatusInvStep
<1>2. StatusInv => QuiescentStatus
  BY RestIsTruthful DEF QuiescentStatus, RestsWith
<1>3. QED
  BY <1>1, <1>2, InitStatus, PTL DEF Spec

\* When deliveries are lost as well, all that can be wrong at rest is that a
\* Runner with a job is reported Idle.
THEOREM LostDeliveryCostsActiveOnly ==
    ASSUME AccessGranted PROVE Spec => []LostDeliveryHidesJobOnly
<1>1. StatusInv /\ [Next]_vars => StatusInv'
  BY StatusInvStep
<1>2. StatusInv => LostDeliveryHidesJobOnly
  BY RestIsTruthful DEF LostDeliveryHidesJobOnly, RestsWith
<1>3. QED
  BY <1>1, <1>2, InitStatus, PTL DEF Spec

=============================================================================
