---------------------------- MODULE RunnerPodProofs ----------------------------
(***************************************************************************)
(* What the Runner controller does to the Pod: TLAPS proves that a Pod is  *)
(* created only next to a token it can register with, and that a Runner is *)
(* reported Active only once its Pod is protected from eviction.           *)
(***************************************************************************)
EXTENDS RunnerIncarnationProofs

\* The reconcile in progress has read a Runner and not patched it yet.
Working == pc \notin {"idle", "patchStatus"}

\* The cached Secret belongs to no later Runner than the cached Runner, or
\* than the Runner the reconcile in progress works on.
SecretOrder ==
    /\ secretCache.owner <= runnerCache.uid
    /\ Working => secretCache.owner <= mem.uid

\* A reconcile that found its Runner being deleted read that in the cache,
\* which has not forgotten it.
SeenDeleting ==
    Working /\ mem.deleting /\ mem.uid = runnerCache.uid /\ OwnerAlive(mem.uid)
        => runnerCache.deleting

\* The cached Secret of Runner u tells the truth as long as u exists: it is
\* behind the server only about a token that has become fresher.
CacheTrue(u) ==
    secretCache.owner = u /\ OwnerAlive(u) =>
        /\ secret.owner = u
        /\ secretCache.token = "fresh" => secret.token = "fresh"

\* What the normal branch of a reconcile relies on when it goes from the
\* Secret to the Pod.
TokenKnown ==
    /\ ~runnerCache.deleting => CacheTrue(runnerCache.uid)
    /\ pc = "ensureSecret" => CacheTrue(mem.uid)
    /\ pc = "ensurePod" /\ OwnerAlive(mem.uid) =>
         secret.owner = mem.uid /\ secret.token = "fresh"

TokenFacts == SecretOrder /\ SeenDeleting /\ TokenKnown

TokenInv == Incarnations /\ TokenFacts

-----------------------------------------------------------------------------
(* TokenInv is inductive.                                                  *)

\* The uids that are compared here are numbers.
LEMMA MoreUidsAreNumbers ==
    ASSUME TypeOK
    PROVE  /\ runner.uid \in Nat /\ runnerCache.uid \in Nat /\ mem.uid \in Nat
           /\ before.uid \in Nat /\ pod.owner \in Nat
           /\ secret.owner \in Nat /\ secretCache.owner \in Nat
<1>1. \A u \in Uid : u \in Nat
  BY ConstantsAssumption DEF Uid
<1>2. secretCache.owner \in Uid /\ before.uid \in Uid
  BY DEF TypeOK, SecretObject, RunnerObject
<1>3. QED
  BY <1>1, <1>2, UidsAreNumbers

\* There is no Secret in an empty cluster, and no Runner to have one.
LEMMA InitToken == Init => TokenInv
<1>1. /\ NoRunner(0).uid = 0 /\ ~NoRunner(0).alive /\ NoSecret.owner = 0
  BY DEF NoRunner, NewRunner, NoSecret
<1>2. Init => TokenFacts
  BY <1>1 DEF Init, TokenFacts, SecretOrder, SeenDeleting, TokenKnown, CacheTrue,
              OwnerAlive, Working
<1>3. QED
  BY <1>2, InitIncarnations DEF TokenInv

\* A step that leaves Runner, Secret and their copies alone, and goes on with
\* neither the Secret nor the Pod, disturbs nothing.
LEMMA QuietToken ==
    ASSUME TokenInv, UNCHANGED <<runner, secret, runnerCache, secretCache>>,
           \/ UNCHANGED <<pc, mem>>
           \/ /\ Working /\ pc' \notin {"ensureSecret", "ensurePod"}
              /\ mem'.uid = mem.uid /\ mem'.deleting = mem.deleting
    PROVE  TokenFacts'
BY DEF TokenInv, TokenFacts, SecretOrder, SeenDeleting, TokenKnown, CacheTrue,
       OwnerAlive, Working

\* Deciding, deleting the Pod, creating it and asking Github leave the Secret
\* alone.
LEMMA BranchToken ==
    ASSUME TokenInv,
           \/ CheckBusy \/ DeletePod \/ EnsurePod \/ FindID \/ GetRunner
           \/ AnnotatePod \/ ReturnError
    PROVE  TokenFacts'
<1>1. UNCHANGED <<runner, secret, runnerCache, secretCache>>
  BY DEF CheckBusy, DeletePod, EnsurePod, FindID, GetRunner, AnnotatePod, ReturnError,
         objects, caches
<1>2. mem'.uid = mem.uid /\ mem'.deleting = mem.deleting
  BY DEF CheckBusy, DeletePod, EnsurePod, PodStatus, FindID, GetRunner, AnnotatePod,
         ReturnError, TokenInv, Incarnations, Release, TypeOK, RunnerObject
<1>3. Working /\ pc' \notin {"ensureSecret", "ensurePod"}
  BY DEF CheckBusy, DeletePod, EnsurePod, PodStatus, FindID, GetRunner, AnnotatePod,
         ReturnError, Goto, Return, Working
<1>4. QED
  BY <1>1, <1>2, <1>3, QuietToken

\* The deletion branch writes or deletes the Secret of a Runner the cache
\* knows to be deleted, or of an earlier one.
LEMMA TeardownToken ==
    ASSUME TokenInv, RefreshSecret \/ DeleteSecret PROVE TokenFacts'
<1>1. /\ UNCHANGED <<runner, runnerCache, secretCache>>
      /\ mem'.uid = mem.uid /\ mem'.deleting = mem.deleting
  BY DEF RefreshSecret, DeleteSecret, caches, TokenInv, Incarnations, Release, TypeOK,
         RunnerObject
<1>2. /\ pc \in {"refreshSecret", "deleteSecret"}
      /\ pc' \in {"deletePod", "patchMeta"}
  BY DEF RefreshSecret, DeleteSecret, Goto, Return
<1>3. mem.deleting
  BY <1>2 DEF TokenInv, Incarnations, IncarnationOrder
<1>4. ASSUME ~runnerCache.deleting, secretCache.owner = runnerCache.uid,
             OwnerAlive(runnerCache.uid)
      PROVE  FALSE
  <2>1. mem.uid <= runnerCache.uid /\ secretCache.owner <= mem.uid
    BY <1>2 DEF TokenInv, TokenFacts, SecretOrder, Incarnations, IncarnationOrder, Working
  <2>2. mem.uid = runnerCache.uid
    BY <1>4, <2>1, MoreUidsAreNumbers DEF TokenInv, Incarnations, Release
  <2>3. QED
    BY <1>2, <1>3, <1>4, <2>2 DEF TokenInv, TokenFacts, SeenDeleting, Working
<1>5. QED
  BY <1>1, <1>2, <1>4 DEF TokenInv, TokenFacts, SecretOrder, SeenDeleting, TokenKnown,
                          CacheTrue, OwnerAlive, Working

\* The normal branch goes on to the Pod with a Secret it found fresh in the
\* cache, or has just written.
LEMMA EnsureToken == ASSUME TokenInv, EnsureSecret PROVE TokenFacts'
<1>1. UNCHANGED <<runner, runnerCache, secretCache, mem>> /\ pc = "ensureSecret"
  BY DEF EnsureSecret, caches
<1>2. CASE secret' = secret /\ pc' = "patchMeta"
  BY <1>1, <1>2 DEF TokenInv, TokenFacts, SecretOrder, SeenDeleting, TokenKnown,
                    CacheTrue, OwnerAlive, Working
<1>3. CASE SecretKept /\ pc' = "ensurePod"
  <2>1. secret' = secret /\ secretCache.owner = mem.uid /\ secretCache.token = "fresh"
    BY <1>3 DEF SecretKept, MustWriteSecret, IsTokenExpired
  <2>2. OwnerAlive(mem.uid) => secret.owner = mem.uid /\ secret.token = "fresh"
    BY <1>1, <2>1 DEF TokenInv, TokenFacts, TokenKnown, CacheTrue
  <2>3. QED
    BY <1>1, <1>3, <2>1, <2>2 DEF TokenInv, TokenFacts, SecretOrder, SeenDeleting,
       TokenKnown, CacheTrue, OwnerAlive, Working
<1>4. CASE SecretWritten("fresh") /\ pc' = "ensurePod"
  <2>1. secret'.owner = mem.uid /\ secret'.token = "fresh"
    BY <1>4 DEF SecretWritten, WriteSecret
  <2>2. mem.uid <= runnerCache.uid /\ secretCache.owner <= mem.uid
    BY <1>1 DEF TokenInv, TokenFacts, SecretOrder, Incarnations, IncarnationOrder, Working
  <2>3. secretCache.owner = runnerCache.uid => mem.uid = runnerCache.uid
    BY <2>2, MoreUidsAreNumbers DEF TokenInv, Incarnations, Release
  <2>4. QED
    BY <1>1, <1>4, <2>1, <2>3 DEF TokenInv, TokenFacts, SecretOrder, SeenDeleting,
       TokenKnown, CacheTrue, OwnerAlive, Working
<1>5. QED
  BY <1>2, <1>3, <1>4 DEF EnsureSecret, Goto, Return, SecretRefused, SecretDenied

\* A reconcile starts with what the cache says.
LEMMA ReconcileToken == ASSUME TokenInv, Reconcile PROVE TokenFacts'
<1>1. UNCHANGED <<runner, secret, runnerCache, secretCache>>
  BY DEF Reconcile, objects, caches
<1>2. CASE ~runnerCache.alive
  BY <1>1, <1>2, QuietToken
  DEF Reconcile, StartActiveDeletion, StartDeletion, StartNormal
<1>3. CASE runnerCache.alive
  <2>1. /\ mem'.uid = runnerCache.uid /\ mem'.deleting = runnerCache.deleting
        /\ pc' = "ensureSecret" => ~runnerCache.deleting
        /\ pc' # "ensurePod"
    BY <1>3 DEF Reconcile, StartActiveDeletion, StartDeletion, StartNormal,
                TokenInv, Incarnations, Release, TypeOK, RunnerObject
  <2>2. QED
    BY <1>1, <2>1 DEF TokenInv, TokenFacts, SecretOrder, SeenDeleting, TokenKnown,
                      CacheTrue, OwnerAlive, Working
<1>4. QED
  BY <1>2, <1>3

\* Neither a patch nor a delete brings a Runner into existence.
LEMMA OwnersDie ==
    ASSUME TokenInv, PatchMeta \/ PatchStatus \/ DeleteRunner
    PROVE  runner'.uid = runner.uid /\ (runner'.alive => runner.alive)
<1>1. CASE PatchMeta \/ PatchStatus
  BY <1>1, PatchFields DEF PatchMeta, PatchStatus, WriteRunner, TokenInv, Incarnations,
                           Release
<1>2. CASE DeleteRunner
  BY <1>2, RunnerFields DEF DeleteRunner, WriteRunner, TokenInv, Incarnations, Release
<1>3. QED
  BY <1>1, <1>2

\* The patches and the users' deletes only take Runners away.
LEMMA PatchToken ==
    ASSUME TokenInv, PatchMeta \/ PatchStatus \/ DeleteRunner PROVE TokenFacts'
<1>1. UNCHANGED <<secret, runnerCache, secretCache>>
  BY DEF PatchMeta, PatchStatus, DeleteRunner, caches
<1>2. pc' \in {"idle", "patchStatus"} \/ UNCHANGED <<pc, mem>>
  BY DEF PatchMeta, PatchStatus, ThenStatus, Done, DeleteRunner, worker
<1>3. runner'.uid = runner.uid /\ (runner'.alive => runner.alive)
  BY OwnersDie
<1>4. QED
  BY <1>1, <1>2, <1>3 DEF TokenInv, TokenFacts, SecretOrder, SeenDeleting, TokenKnown,
                          CacheTrue, OwnerAlive, Working

\* A new Runner is later than every copy, so that no copy speaks of it.
LEMMA CreateToken == ASSUME TokenInv, CreateRunner PROVE TokenFacts'
<1>1. UNCHANGED <<secret, runnerCache, secretCache, pc, mem>>
  BY DEF CreateRunner, caches, worker
<1>2. runner'.uid = runner.uid + 1
  BY RunnerFields DEF CreateRunner, WriteRunner, TokenInv, Incarnations, Release
<1>3. /\ runnerCache.uid <= runner.uid
      /\ Working => mem.uid <= runnerCache.uid
  BY DEF TokenInv, Incarnations, IncarnationOrder, Working
<1>4. runnerCache.uid # runner'.uid /\ (Working => mem.uid # runner'.uid)
  BY <1>2, <1>3, MoreUidsAreNumbers DEF TokenInv, Incarnations, Release
<1>5. QED
  BY <1>1, <1>4 DEF TokenInv, TokenFacts, SecretOrder, SeenDeleting, TokenKnown,
                    CacheTrue, OwnerAlive, Working

\* The informer of the Runner brings news of the current Runner only, and
\* never takes back a deletion.
LEMMA SyncRunnerToken == ASSUME TokenInv, SyncRunner PROVE TokenFacts'
<1>1. /\ UNCHANGED <<runner, secret, secretCache, pc, mem>>
      /\ runnerCache' = runner
  BY DEF SyncRunner, objects, worker
<1>2. runnerCache.uid <= runner.uid /\ secretCache.owner <= runnerCache.uid
  BY DEF TokenInv, TokenFacts, SecretOrder, Incarnations, IncarnationOrder
<1>3. secretCache.owner <= runner.uid
  BY <1>2, MoreUidsAreNumbers DEF TokenInv, Incarnations, Release
<1>4. ASSUME Working, mem.deleting, mem.uid = runner.uid, OwnerAlive(mem.uid)
      PROVE  runner.deleting
  BY <1>4, MoreUidsAreNumbers
  DEF TokenInv, Incarnations, Release, IncarnationOrder, Working, OwnerAlive
<1>5. ASSUME ~runner.deleting PROVE CacheTrue(runner.uid)
  <2>1. CASE secretCache.owner = runner.uid /\ OwnerAlive(runner.uid)
    <3>1. runnerCache.uid = runner.uid
      BY <1>2, <2>1, MoreUidsAreNumbers DEF TokenInv, Incarnations, Release
    <3>2. ~runnerCache.deleting
      BY <1>5, <2>1, <3>1, MoreUidsAreNumbers
      DEF TokenInv, Incarnations, Release, IncarnationOrder, OwnerAlive
    <3>3. QED
      BY <3>1, <3>2 DEF TokenInv, TokenFacts, TokenKnown
  <2>2. QED
    BY <2>1 DEF CacheTrue
<1>6. QED
  BY <1>1, <1>3, <1>4, <1>5 DEF TokenInv, TokenFacts, SecretOrder, SeenDeleting,
                                TokenKnown, CacheTrue, OwnerAlive, Working

\* A copy of the Secret that was just made tells the truth.
LEMMA FreshCopyToken ==
    ASSUME TokenInv, SyncSecret \/ RestartController PROVE TokenFacts'
<1>1. UNCHANGED <<runner, secret>> /\ secretCache' = secret
  BY DEF SyncSecret, RestartController, objects
<1>2. CASE SyncSecret
  <2>1. UNCHANGED <<runnerCache, pc, mem>>
    BY <1>2 DEF SyncSecret, worker
  <2>2. secret.owner <= runnerCache.uid /\ (Working => secret.owner <= mem.uid)
    BY DEF TokenInv, Incarnations, IncarnationOrder, Working
  <2>3. QED
    BY <1>1, <2>1, <2>2 DEF TokenInv, TokenFacts, SecretOrder, SeenDeleting, TokenKnown,
                            CacheTrue, OwnerAlive, Working
<1>3. CASE RestartController
  <2>1. runnerCache' = runner /\ pc' = "idle"
    BY <1>3 DEF RestartController
  <2>2. secret.owner <= runnerCache.uid /\ runnerCache.uid <= runner.uid
    BY DEF TokenInv, Incarnations, IncarnationOrder
  <2>3. secret.owner <= runner.uid
    BY <2>2, MoreUidsAreNumbers DEF TokenInv, Incarnations, Release
  <2>4. QED
    BY <1>1, <2>1, <2>3 DEF TokenInv, TokenFacts, SecretOrder, SeenDeleting, TokenKnown,
                            CacheTrue, OwnerAlive, Working
<1>4. QED
  BY <1>2, <1>3

\* The garbage collector spares the Secret of a Runner that exists.
LEMMA GCSecretToken == ASSUME TokenInv, GCSecret PROVE TokenFacts'
<1>1. UNCHANGED <<runner, runnerCache, secretCache, pc, mem>>
  BY DEF GCSecret, caches, worker
<1>2. ~OwnerAlive(secret.owner)
  BY DEF GCSecret
<1>3. QED
  BY <1>1, <1>2 DEF TokenInv, TokenFacts, SecretOrder, SeenDeleting, TokenKnown,
                    CacheTrue, OwnerAlive, Working

\* The clock ages the copy together with the Secret, and ages no fresh token
\* under a reconcile.
LEMMA TokenAgesToken == ASSUME TokenInv, TokenAges PROVE TokenFacts'
<1>1. UNCHANGED <<runner, runnerCache, pc, mem>>
  BY DEF TokenAges, worker
<1>2. secret'.owner = secret.owner /\ secretCache'.owner = secretCache.owner
  BY DEF TokenAges, TokenInv, Incarnations, Release, TypeOK, SecretObject
<1>3. secretCache.owner # 0 => secretCache'.token # "fresh"
  BY DEF TokenAges, Older, TokenInv, Incarnations, Release, TypeOK, SecretObject
<1>4. ~OwnerAlive(0)
  BY MoreUidsAreNumbers
  DEF OwnerAlive, TokenInv, Incarnations, Release, IncarnationOrder
<1>5. secret.token = "fresh" => pc = "idle"
  BY DEF TokenAges
<1>6. QED
  BY <1>1, <1>2, <1>3, <1>4, <1>5
  DEF TokenInv, TokenFacts, SecretOrder, SeenDeleting, TokenKnown, CacheTrue,
      OwnerAlive, Working

\* Every step keeps what the controller knows of the token.
LEMMA TokenStep == ASSUME TokenInv, [Next]_vars PROVE TokenInv'
<1>1. Incarnations'
  BY IncarnationsStep DEF TokenInv
<1>2. CASE ReconcileStep
  BY <1>1, <1>2, ReconcileToken, BranchToken, TeardownToken, EnsureToken, PatchToken
  DEF ReconcileStep, TokenInv
<1>3. CASE GCSecret \/ TokenAges
  BY <1>1, <1>3, GCSecretToken, TokenAgesToken DEF TokenInv
<1>4. CASE PodStep /\ ~GCSecret /\ ~TokenAges
  <2>1. UNCHANGED <<runner, secret, runnerCache, secretCache, pc, mem>>
    BY <1>4 DEF PodStep, RegisterRunner, RegisterFails, RunnerOnline, AssignJob, JobDone,
       PodChanges, PodStarts, PodReady, PodSucceeds, ContainerCrash, PodFails,
       TerminatePod, EvictPod, GCPod, objects, caches, worker
  <2>2. QED
    BY <1>1, <2>1, QuietToken DEF TokenInv
<1>5. CASE HookStep \/ SyncPod \/ UNCHANGED vars
  <2>1. UNCHANGED <<runner, secret, runnerCache, secretCache, pc, mem>>
    BY <1>5 DEF HookStep, ProcessWorkflowJobEvent, HookLost, SyncPod, objects, caches,
                worker, vars
  <2>2. QED
    BY <1>1, <2>1, QuietToken DEF TokenInv
<1>6. CASE Environment
  BY <1>1, <1>5, <1>6, CreateToken, PatchToken, SyncRunnerToken, FreshCopyToken
  DEF Environment, TokenInv
<1>7. QED
  BY <1>2, <1>3, <1>4, <1>5, <1>6 DEF Next, PodStep

-----------------------------------------------------------------------------
(* The Pod and its token.                                                  *)

\* Only EnsurePod creates a Pod, for the Runner it works on.
LEMMA PodCreated ==
    ASSUME TokenInv, [Next]_vars, ~PodExists, pod'.owner # 0
    PROVE  pc = "ensurePod" /\ pod'.owner = mem.uid /\ UNCHANGED runner
<1>1. ASSUME pod' = pod PROVE FALSE
  BY <1>1 DEF PodExists
<1>2. CASE EnsurePod
  <2>1. /\ NewPod(mem.uid).owner = mem.uid
        /\ [pod EXCEPT !.owner = mem.uid].owner = mem.uid
    BY DEF NewPod, TokenInv, Incarnations, Release, TypeOK, PodObject
  <2>2. QED
    BY <1>1, <1>2, <2>1 DEF EnsurePod, WritePod
<1>3. CASE DeletePod \/ AnnotatePod
  BY <1>1, <1>3 DEF DeletePod, AnnotatePod, WritePod
<1>4. CASE PodStep
  BY <1>1, <1>4 DEF PodStep, RegisterRunner, RegisterFails, RunnerOnline, AssignJob,
     JobDone, PodChanges, PodStarts, PodReady, PodSucceeds, ContainerCrash, PodFails,
     TerminatePod, EvictPod, GCPod, GCSecret, TokenAges, objects, Running, PodExists
<1>5. CASE \/ Reconcile \/ CheckBusy \/ RefreshSecret \/ DeleteSecret \/ EnsureSecret
           \/ FindID \/ GetRunner \/ ReturnError \/ PatchMeta \/ PatchStatus
  BY <1>1, <1>5 DEF Reconcile, CheckBusy, RefreshSecret, DeleteSecret, EnsureSecret,
     FindID, GetRunner, ReturnError, PatchMeta, PatchStatus, objects
<1>6. CASE HookStep \/ Environment \/ UNCHANGED vars
  BY <1>1, <1>6 DEF HookStep, ProcessWorkflowJobEvent, HookLost, Environment,
     CreateRunner, DeleteRunner, SyncRunner, SyncPod, SyncSecret, RestartController,
     objects, vars
<1>7. QED
  BY <1>2, <1>3, <1>4, <1>5, <1>6 DEF Next, ReconcileStep

\* Whatever the caches lag behind, and whatever fails, the Pod of a Runner
\* that exists is created next to a Secret of that Runner whose token Github
\* still accepts.
THEOREM PodFindsItsToken == Spec => PodStartsWithUsableToken
<1>1. TokenInv /\ [Next]_vars => TokenInv'
  BY TokenStep
<1>2. TokenInv /\ [Next]_vars =>
        [~PodExists /\ pod'.owner # 0 /\ OwnerAlive(pod'.owner)
           => secret.owner = pod'.owner /\ secret.token # "expired"]_vars
  <2>1. ASSUME TokenInv, [Next]_vars, ~PodExists, pod'.owner # 0, OwnerAlive(pod'.owner)
        PROVE  secret.owner = pod'.owner /\ secret.token # "expired"
    BY <2>1, PodCreated DEF TokenInv, TokenFacts, TokenKnown
  <2>2. QED
    BY <2>1
<1>3. QED
  BY <1>1, <1>2, InitToken, PTL DEF Spec, PodStartsWithUsableToken

-----------------------------------------------------------------------------
(* The phase in memory, and the Runner it belongs to.                      *)

\* The phase in memory is the one that was read until the Pod is looked at,
\* Pending until Github has answered, and Active when the Pod is annotated.
PhaseSoFar ==
    /\ pc \in {"checkBusy", "refreshSecret", "deletePod", "deleteSecret",
               "ensureSecret", "ensurePod"} => mem.phase = before.phase
    /\ pc \in {"findID", "getRunner"} => mem.phase = "Pending"
    /\ pc = "annotatePod" => mem.phase = "Active"

\* The reconcile works on a Runner that was created, and the Pod belongs to
\* no later one.
OneRunner ==
    /\ runnerCache.alive => runnerCache.uid > 0
    /\ pc # "idle" =>
         before.uid > 0 /\ pod.owner <= before.uid /\ before.uid <= runner.uid
    /\ Working => mem.uid = before.uid

FlowFacts == PhaseSoFar /\ OneRunner

FlowInv == Incarnations /\ FlowFacts

\* Nothing is reconciled in an empty cluster.
LEMMA InitFlow == Init => FlowInv
<1>1. ~NoRunner(0).alive
  BY DEF NoRunner, NewRunner
<1>2. Init => FlowFacts
  BY <1>1 DEF Init, FlowFacts, PhaseSoFar, OneRunner, Working
<1>3. QED
  BY <1>2, InitIncarnations DEF FlowInv

\* The kubelet, the autoscaler and the garbage collector leave the annotation
\* alone, or take the Pod away.
LEMMA PodStepPod ==
    ASSUME TypeOK, PodStep
    PROVE  pod'.owner = 0 \/ (pod'.owner = pod.owner /\ pod'.evict = pod.evict)
BY DEF PodStep, RegisterRunner, RegisterFails, RunnerOnline, AssignJob, JobDone,
       PodChanges, PodStarts, PodReady, PodSucceeds, ContainerCrash, PodFails,
       TerminatePod, EvictPod, GCPod, GCSecret, TokenAges, objects, WritePod, NoPod,
       NewPod, TypeOK, PodObject

\* The environment leaves the reconcile alone.
LEMMA PodStepWorker == ASSUME PodStep PROVE UNCHANGED <<runner, runnerCache, worker>>
BY DEF PodStep, RegisterRunner, RegisterFails, RunnerOnline, AssignJob, JobDone,
       PodChanges, PodStarts, PodReady, PodSucceeds, ContainerCrash, PodFails,
       TerminatePod, EvictPod, GCPod, GCSecret, TokenAges, objects, caches, worker

\* The webhook handler and the informers leave objects and reconcile alone.
LEMMA DeliveryStep ==
    ASSUME HookStep \/ SyncRunner \/ SyncPod \/ SyncSecret \/ UNCHANGED vars
    PROVE  /\ UNCHANGED <<runner, pod, worker>>
           /\ runnerCache' \in {runner, runnerCache}
           /\ podCache' \in {pod, podCache}
           /\ "resp" \in stale => "resp" \in stale'
BY DEF HookStep, ProcessWorkflowJobEvent, TriggerRunnerReconciliation, HookLost,
       SyncRunner, SyncPod, SyncSecret, objects, caches, worker, vars

\* A step outside the reconcile that does not create a Pod keeps the flow.
LEMMA OutsideFlow ==
    ASSUME FlowInv, UNCHANGED worker,
           runner'.uid = runner.uid \/ runner'.uid = runner.uid + 1,
           pod'.owner = 0 \/ pod'.owner = pod.owner,
           runnerCache' \in {runner, runnerCache}
    PROVE  FlowFacts'
<1>1. /\ runner.uid \in Nat /\ runnerCache.uid \in Nat /\ before.uid \in Nat
      /\ pod.owner \in Nat
  BY MoreUidsAreNumbers DEF FlowInv, Incarnations, Release
<1>2. runner.alive => runner.uid > 0
  BY DEF FlowInv, Incarnations, IncarnationOrder
<1>3. UNCHANGED <<pc, mem, before>>
  BY DEF worker
<1>4. OneRunner'
  BY <1>1, <1>2, <1>3 DEF FlowInv, FlowFacts, OneRunner, Working
<1>5. QED
  BY <1>3, <1>4 DEF FlowInv, FlowFacts, PhaseSoFar

\* What a user does to the Runner.
LEMMA UserStep ==
    ASSUME TypeOK, CreateRunner \/ DeleteRunner
    PROVE  /\ UNCHANGED <<pod, runnerCache, podCache, worker>>
           /\ runner'.uid = runner.uid \/ runner'.uid = runner.uid + 1
           /\ runner'.phase \in {runner.phase, ""}
<1>1. /\ NewRunner(runner.uid + 1).phase = "" /\ NoRunner(runner.uid).phase = ""
      /\ [runner EXCEPT !.deleting = TRUE].phase = runner.phase
  BY DEF NoRunner, NewRunner, TypeOK, RunnerObject
<1>2. QED
  BY <1>1, RunnerFields DEF CreateRunner, DeleteRunner, WriteRunner, caches

\* A reconcile that starts on a deleted Runner without an id completes it;
\* any other keeps the phase it read.
LEMMA Started ==
    ASSUME TypeOK, Reconcile, runnerCache.alive
    PROVE  /\ before' = runnerCache
           /\ mem'.uid = runnerCache.uid /\ mem'.deleting = runnerCache.deleting
           /\ \/ /\ pc' = "patchMeta" /\ mem'.phase = "Complete"
                 /\ runnerCache.deleting
              \/ /\ pc' \in {"checkBusy", "refreshSecret"} /\ runnerCache.deleting
                 /\ mem'.phase = runnerCache.phase
              \/ /\ pc' = "ensureSecret" /\ ~runnerCache.deleting
                 /\ mem'.phase = runnerCache.phase
BY DEF Reconcile, StartActiveDeletion, StartDeletion, StartNormal, TypeOK, RunnerObject

\* Starting a reconcile keeps the flow.
LEMMA ReconcileFlow == ASSUME FlowInv, Reconcile PROVE FlowFacts'
<1>1. UNCHANGED <<runner, pod, runnerCache>> /\ pc = "idle"
  BY DEF Reconcile, objects, caches
<1>2. CASE ~runnerCache.alive
  BY <1>1, <1>2 DEF Reconcile, StartActiveDeletion, StartDeletion, StartNormal, FlowInv,
                    FlowFacts, PhaseSoFar, OneRunner, Working
<1>3. CASE runnerCache.alive
  <2>1. pod.owner <= runnerCache.uid /\ runnerCache.uid <= runner.uid
    BY DEF FlowInv, Incarnations, IncarnationOrder
  <2>2. OneRunner'
    BY <1>1, <1>3, <2>1, Started
    DEF FlowInv, Incarnations, Release, FlowFacts, OneRunner, Working
  <2>3. PhaseSoFar'
    BY <1>3, Started DEF FlowInv, Incarnations, Release, PhaseSoFar
  <2>4. QED
    BY <2>2, <2>3 DEF FlowFacts
<1>4. QED
  BY <1>2, <1>3

Branch == \/ CheckBusy \/ RefreshSecret \/ DeletePod \/ DeleteSecret
          \/ EnsureSecret \/ EnsurePod \/ FindID \/ GetRunner \/ AnnotatePod
          \/ ReturnError

\* What every step of a branch has in common.
LEMMA BranchStep ==
    ASSUME TypeOK, Branch
    PROVE  /\ UNCHANGED <<runner, runnerCache, podCache, before>>
           /\ mem'.uid = mem.uid /\ mem'.deleting = mem.deleting
           /\ Working /\ pc # "patchMeta" /\ pc' \notin {"idle", "patchStatus"}
<1>1. /\ UNCHANGED <<runner, runnerCache, podCache, before>>
      /\ mem'.uid = mem.uid /\ mem'.deleting = mem.deleting
  BY DEF Branch, CheckBusy, RefreshSecret, DeletePod, DeleteSecret, EnsureSecret,
         EnsurePod, PodStatus, FindID, GetRunner, AnnotatePod, ReturnError, objects,
         caches, Goto, Return, TypeOK, RunnerObject
<1>2. Working /\ pc # "patchMeta" /\ pc' \notin {"idle", "patchStatus"}
  BY DEF Branch, CheckBusy, RefreshSecret, DeletePod, DeleteSecret, EnsureSecret,
         EnsurePod, PodStatus, FindID, GetRunner, AnnotatePod, ReturnError, Goto, Return,
         Working, Steps
<1>3. QED
  BY <1>1, <1>2

\* Where a branch goes, and with which phase.
LEMMA BranchPhases ==
    ASSUME TypeOK, PhaseSoFar, Branch
    PROVE  \/ /\ CheckBusy /\ pc' = "patchMeta"
              /\ mem'.phase = before.phase \/ (mem'.phase = "Complete")
           \/ /\ RefreshSecret \/ DeletePod \/ DeleteSecret \/ EnsureSecret
              /\ pc' \in {"deletePod", "deleteSecret", "ensurePod", "patchMeta"}
              /\ mem'.phase = before.phase
           \/ EnsurePod /\ pc' = "findID" /\ mem'.phase = "Pending"
           \/ /\ EnsurePod /\ pc' = "patchMeta"
              /\ mem'.phase \in {before.phase, "Pending", "Complete"}
           \/ FindID /\ pc' \in {"getRunner", "patchMeta"} /\ mem'.phase = "Pending"
           \/ GetRunner /\ pc' = "annotatePod" /\ mem'.phase = "Active"
           \/ /\ GetRunner /\ pc' = "patchMeta"
              /\ \/ mem'.phase \in {"Pending", "Idle"}
                 \/ mem'.phase = "Active" /\ EvictionPolicy # "IfNotActive"
           \/ AnnotatePod /\ pc' = "patchMeta" /\ mem' = mem
           \/ ReturnError /\ pc' = "patchMeta" /\ mem' = mem
<1>1. CASE CheckBusy
  BY <1>1 DEF CheckBusy, Return, PhaseSoFar, TypeOK, RunnerObject
<1>2. CASE RefreshSecret \/ DeletePod \/ DeleteSecret \/ EnsureSecret
  BY <1>2 DEF RefreshSecret, DeletePod, DeleteSecret, EnsureSecret, Goto, Return,
              PhaseSoFar, TypeOK, RunnerObject
<1>3. CASE EnsurePod
  BY <1>3 DEF EnsurePod, PodStatus, Goto, Return, PhaseSoFar, TypeOK, RunnerObject
<1>4. CASE FindID
  BY <1>4 DEF FindID, Goto, Return, PhaseSoFar, TypeOK, RunnerObject
<1>5. CASE GetRunner
  BY <1>5 DEF GetRunner, Goto, Return, PhaseSoFar, TypeOK, RunnerObject
<1>6. CASE AnnotatePod \/ ReturnError
  BY <1>6 DEF AnnotatePod, ReturnError, Return
<1>7. QED
  BY <1>1, <1>2, <1>3, <1>4, <1>5, <1>6 DEF Branch

\* The branches create a Pod for the Runner they work on only.
LEMMA BranchPod ==
    ASSUME TypeOK, Branch PROVE pod'.owner = pod.owner \/ pod'.owner = mem.uid
<1>1. CASE EnsurePod
  <2>1. /\ NewPod(mem.uid).owner = mem.uid
        /\ [pod EXCEPT !.owner = mem.uid].owner = mem.uid
    BY DEF NewPod, TypeOK, PodObject
  <2>2. QED
    BY <1>1, <2>1 DEF EnsurePod, WritePod
<1>2. CASE DeletePod \/ AnnotatePod
  BY <1>2 DEF DeletePod, AnnotatePod, WritePod, TypeOK, PodObject
<1>3. QED
  BY <1>1, <1>2 DEF Branch, CheckBusy, RefreshSecret, DeleteSecret, EnsureSecret, FindID,
                    GetRunner, ReturnError, objects

\* The branches keep the flow.
LEMMA BranchFlow == ASSUME FlowInv, Branch PROVE FlowFacts'
<1> USE DEF FlowInv, Incarnations, Release
<1>1. OneRunner'
  <2>1. mem.uid = before.uid /\ before.uid > 0 /\ pod.owner <= before.uid
    BY BranchStep DEF FlowFacts, OneRunner, Working
  <2>2. pod'.owner <= before.uid
    BY <2>1, BranchPod, MoreUidsAreNumbers
  <2>3. QED
    BY <2>1, <2>2, BranchStep DEF FlowFacts, OneRunner, Working
<1>2. PhaseSoFar'
  <2>1. before' = before
    BY BranchStep
  <2>2. QED
    BY <2>1, BranchPhases DEF FlowFacts, PhaseSoFar
<1>3. QED
  BY <1>1, <1>2 DEF FlowFacts

\* Where the patches go, and what they do to the Runner.
LEMMA PatchStep ==
    ASSUME TypeOK, PatchMeta \/ PatchStatus
    PROVE  /\ UNCHANGED <<pod, runnerCache, podCache>> /\ runner'.uid = runner.uid
           /\ runner'.alive => runner.alive
           /\ \/ pc' = "idle"
              \/ /\ PatchMeta /\ pc' = "patchStatus" /\ before' = before
                 /\ \/ mem' = mem /\ runner' = runner
                    \/ /\ mem' = DecodedRunner /\ locked' = TRUE
                       /\ runner' = PatchedRunner
<1>1. UNCHANGED <<pod, runnerCache, podCache>>
  BY DEF PatchMeta, PatchStatus, caches
<1>2. runner'.uid = runner.uid /\ (runner'.alive => runner.alive)
  BY PatchFields DEF PatchMeta, PatchStatus, WriteRunner
<1>3. CASE PatchStatus
  BY <1>1, <1>2, <1>3 DEF PatchStatus, Done
<1>4. CASE PatchMeta
  BY <1>1, <1>2, <1>4 DEF PatchMeta, ThenStatus, Done, WriteRunner
<1>5. QED
  BY <1>3, <1>4

\* The patches keep the flow.
LEMMA PatchFlow == ASSUME FlowInv, PatchMeta \/ PatchStatus PROVE FlowFacts'
<1>1. /\ UNCHANGED <<pod, runnerCache>> /\ runner'.uid = runner.uid
      /\ pc' = "idle" \/ (pc' = "patchStatus" /\ pc # "idle" /\ before' = before)
  BY PatchStep DEF PatchMeta, FlowInv, Incarnations, Release
<1>2. QED
  BY <1>1 DEF FlowInv, FlowFacts, PhaseSoFar, OneRunner, Working

\* Every step keeps the flow.
LEMMA FlowStep == ASSUME FlowInv, [Next]_vars PROVE FlowInv'
<1>1. Incarnations' /\ TypeOK
  BY IncarnationsStep DEF FlowInv, Incarnations, Release
<1>2. CASE ReconcileStep
  BY <1>1, <1>2, ReconcileFlow, BranchFlow, PatchFlow DEF ReconcileStep, Branch, FlowInv
<1>3. CASE PodStep
  BY <1>1, <1>3, PodStepPod, PodStepWorker, OutsideFlow DEF FlowInv
<1>4. CASE HookStep \/ SyncRunner \/ SyncPod \/ SyncSecret \/ UNCHANGED vars
  BY <1>1, <1>4, DeliveryStep, OutsideFlow DEF FlowInv
<1>5. CASE CreateRunner \/ DeleteRunner
  BY <1>1, <1>5, UserStep, OutsideFlow DEF FlowInv
<1>6. CASE RestartController
  <2>1. runnerCache' = runner /\ pc' = "idle" /\ (runner.alive => runner.uid > 0)
        /\ runner' = runner
    BY <1>6 DEF RestartController, objects, FlowInv, Incarnations, IncarnationOrder
  <2>2. QED
    BY <1>1, <2>1 DEF FlowInv, FlowFacts, PhaseSoFar, OneRunner, Working
<1>7. QED
  BY <1>2, <1>3, <1>4, <1>5, <1>6 DEF Next, Environment

-----------------------------------------------------------------------------
(* Active and the eviction policy.                                         *)

\* No call of the reconciler fails: an error of the annotation would end the
\* reconcile with the phase Active in memory, and the deferred Patch would
\* write it.
CallsAnswered == "call" \notin Faults

\* The Pod of the Runner the reconcile read may not be evicted.
Shielded ==
    EvictionPolicy = "IfNotActive" /\ pod.owner = before.uid => pod.evict = "false"

\* The reconcile has decided that its Runner becomes Active.
TurnsActive == mem.phase = "Active" /\ before.phase # "Active"

\* When the patches are due, the Pod of a Runner that becomes Active has its
\* annotation; the exception is an Active phase that the first answer brought
\* along, which the second patch cannot write unless the server still has it.
ShieldFirst ==
    /\ pc = "patchMeta" /\ TurnsActive => Shielded
    /\ pc = "patchStatus" /\ TurnsActive =>
         Shielded \/ (locked /\ ("resp" \in stale \/ runner.phase = "Active"))

ShieldInv == FlowInv /\ ShieldFirst

\* A step outside the reconcile keeps the annotation, and one that changes
\* the Runner between the two patches makes the second one fail.
LEMMA OutsideShield ==
    ASSUME ShieldInv, UNCHANGED worker,
           pod'.owner = 0 \/ (pod'.owner = pod.owner /\ pod'.evict = pod.evict),
           runner' = runner \/ (locked => "resp" \in stale'),
           "resp" \in stale => "resp" \in stale'
    PROVE  ShieldFirst'
<1>1. UNCHANGED <<pc, mem, before, locked>>
  BY DEF worker
<1>2. pc # "idle" => before.uid # 0
  BY MoreUidsAreNumbers
  DEF ShieldInv, FlowInv, Incarnations, Release, FlowFacts, OneRunner
<1>3. pc # "idle" /\ Shielded => Shielded'
  BY <1>1, <1>2 DEF Shielded
<1>4. QED
  BY <1>1, <1>3 DEF ShieldInv, ShieldFirst, TurnsActive

\* The branches of a reconcile turn a Runner Active only in GetRunner, and
\* annotate the Pod before they return.
LEMMA BranchShield ==
    ASSUME ShieldInv, CallsAnswered, Branch PROVE ShieldFirst'
<1> USE DEF ShieldInv, FlowInv, Incarnations, Release
<1>1. before' = before /\ pc' # "patchStatus"
  BY BranchStep
<1>2. CASE AnnotatePod
  <2>1. pod'.evict = "false" \/ pod'.owner = 0
    BY <1>2 DEF AnnotatePod, WritePod, PodExists, TypeOK, PodObject
  <2>2. before.uid # 0
    BY BranchStep, MoreUidsAreNumbers DEF FlowFacts, OneRunner, Working
  <2>3. QED
    BY <1>1, <2>1, <2>2 DEF ShieldFirst, Shielded
<1>3. ~ReturnError
  BY DEF CallsAnswered, ReturnError
<1>4. QED
  BY <1>1, <1>2, <1>3, BranchPhases DEF FlowFacts, ShieldFirst, TurnsActive, Shielded

\* The first patch leaves the phase on the server alone; its answer either
\* keeps the phase in memory or brings the one on the server.
LEMMA PatchShield == ASSUME ShieldInv, PatchMeta \/ PatchStatus PROVE ShieldFirst'
<1> USE DEF ShieldInv, FlowInv, Incarnations, Release
<1>1. pod' = pod
  BY PatchStep
<1>2. CASE pc' = "idle"
  BY <1>2 DEF ShieldFirst
<1>3. CASE PatchMeta /\ pc' = "patchStatus" /\ before' = before /\ mem' = mem
  BY <1>1, <1>3 DEF PatchMeta, ShieldFirst, TurnsActive, Shielded
<1>4. CASE /\ PatchMeta /\ pc' = "patchStatus" /\ before' = before
           /\ mem' = DecodedRunner /\ locked' = TRUE /\ runner' = PatchedRunner
  <2>1. PatchedRunner \in RunnerObject
    BY PatchedRunnerType
  <2>2. mem'.phase = mem.phase \/ mem'.phase = runner'.phase
    BY <1>4, <2>1 DEF DecodedRunner, DecodeField, RunnerObject
  <2>3. QED
    BY <1>1, <1>4, <2>2 DEF PatchMeta, ShieldFirst, TurnsActive, Shielded
<1>5. QED
  BY <1>2, <1>3, <1>4, PatchStep

\* Every step annotates before it reports.
LEMMA ShieldStep == ASSUME ShieldInv, CallsAnswered, [Next]_vars PROVE ShieldInv'
<1>1. FlowInv' /\ TypeOK
  BY FlowStep DEF ShieldInv, FlowInv, Incarnations, Release
<1>2. CASE Reconcile
  <2>1. CASE ~runnerCache.alive
    BY <2>1, <1>1, <1>2 DEF Reconcile, StartActiveDeletion, StartDeletion, StartNormal,
                            ShieldInv, ShieldFirst
  <2>2. CASE runnerCache.alive
    BY <2>2, <1>1, <1>2, Started DEF ShieldInv, ShieldFirst, TurnsActive
  <2>3. QED
    BY <2>1, <2>2
<1>3. CASE Branch \/ PatchMeta \/ PatchStatus
  BY <1>1, <1>3, BranchShield, PatchShield DEF ShieldInv
<1>4. CASE PodStep
  <2>1. "resp" \in stale => "resp" \in stale'
    BY <1>4 DEF PodStep, RegisterRunner, RegisterFails, RunnerOnline, AssignJob, JobDone,
       PodChanges, PodStarts, PodReady, PodSucceeds, ContainerCrash, PodFails,
       TerminatePod, EvictPod, GCPod, GCSecret, TokenAges, WritePod, WriteSecret
  <2>2. QED
    BY <1>1, <1>4, <2>1, PodStepPod, PodStepWorker, OutsideShield DEF ShieldInv
<1>5. CASE HookStep \/ SyncRunner \/ SyncPod \/ SyncSecret \/ UNCHANGED vars
  BY <1>1, <1>5, DeliveryStep, OutsideShield DEF ShieldInv
<1>6. CASE CreateRunner \/ DeleteRunner
  <2>1. /\ runner' = runner \/ (locked => "resp" \in stale')
        /\ "resp" \in stale => "resp" \in stale'
    BY <1>6 DEF CreateRunner, DeleteRunner, WriteRunner
  <2>2. QED
    BY <1>1, <1>6, <2>1, UserStep, OutsideShield DEF ShieldInv
<1>7. CASE RestartController
  BY <1>1, <1>7 DEF RestartController, ShieldInv, ShieldFirst
<1>8. QED
  BY <1>2, <1>3, <1>4, <1>5, <1>6, <1>7 DEF Next, ReconcileStep, Branch, Environment

\* The first patch leaves the phase alone, or takes the Runner away.
LEMMA PatchedPhase ==
    ASSUME TypeOK PROVE PatchedRunner.phase = runner.phase \/ ~PatchedRunner.alive
BY DEF PatchedRunner, NoRunner, NewRunner, TypeOK, RunnerObject

\* Which steps change the phase on the server.
LEMMA PhaseWritten ==
    ASSUME TypeOK, [Next]_vars
    PROVE  \/ runner' = runner
           \/ PatchMeta /\ (runner'.phase = runner.phase \/ ~runner'.alive)
           \/ CreateRunner \/ DeleteRunner
           \/ PatchStatus /\ runner' = PatchedStatus /\ ~StatusRefused
<1>1. CASE PatchMeta
  BY <1>1, PatchedPhase DEF PatchMeta, WriteRunner
<1>2. CASE PatchStatus
  BY <1>2 DEF PatchStatus
<1>3. CASE Reconcile \/ Branch
  BY <1>3, BranchStep DEF Reconcile, objects
<1>4. CASE PodStep
  BY <1>4, PodStepWorker
<1>5. CASE HookStep \/ SyncRunner \/ SyncPod \/ SyncSecret \/ UNCHANGED vars
  BY <1>5, DeliveryStep
<1>6. CASE RestartController
  BY <1>6 DEF RestartController, objects
<1>7. QED
  BY <1>1, <1>2, <1>3, <1>4, <1>5, <1>6 DEF Next, ReconcileStep, Branch, Environment

\* What the second patch makes of the phase.
LEMMA PhasePatched ==
    ASSUME TypeOK
    PROVE  PatchedStatus.phase = IF before.phase # mem.phase THEN mem.phase
                                                             ELSE runner.phase
BY DEF PatchedStatus, MergeField, TypeOK, RunnerObject

\* Only the second patch makes a Runner Active, and by then its Pod has the
\* annotation.
LEMMA ActiveStep ==
    ASSUME ShieldInv, [Next]_vars, runner'.alive, runner'.phase = "Active",
           runner.phase # "Active", pod.owner = runner'.uid,
           EvictionPolicy = "IfNotActive"
    PROVE  pod.evict = "false"
<1> USE DEF ShieldInv, FlowInv, Incarnations, Release
<1>1. PatchStatus /\ runner' = PatchedStatus /\ ~StatusRefused
  BY PhaseWritten, UserStep
<1>2. pc = "patchStatus" /\ ~(locked /\ "resp" \in stale)
  BY <1>1 DEF PatchStatus, StatusRefused
<1>3. TurnsActive
  BY <1>1, PhasePatched DEF TurnsActive
<1>4. Shielded
  BY <1>2, <1>3 DEF ShieldFirst
<1>5. pod.owner = before.uid
  <2>1. runner'.uid = runner.uid
    BY <1>1, PatchFields
  <2>2. pod.owner <= before.uid /\ before.uid <= runner.uid
    BY <1>2 DEF FlowFacts, OneRunner
  <2>3. QED
    BY <2>1, <2>2, MoreUidsAreNumbers
<1>6. QED
  BY <1>4, <1>5 DEF Shielded

\* When no call of the reconciler fails, a Runner becomes Active only after
\* its Pod was protected from eviction, whatever the caches lag behind and
\* whoever else writes the Runner between the two patches.
THEOREM ActiveMeansShielded ==
    ASSUME CallsAnswered PROVE Spec => ActiveIsProtected
<1>1. ShieldInv /\ [Next]_vars => ShieldInv'
  BY ShieldStep
<1>2. ShieldInv /\ [Next]_vars =>
        [runner'.alive /\ runner'.phase = "Active" /\ runner.phase # "Active"
           /\ pod.owner = runner'.uid /\ EvictionPolicy = "IfNotActive"
           => pod.evict = "false"]_vars
  BY ActiveStep
<1>3. Init => ShieldInv
  BY InitFlow DEF Init, ShieldInv, ShieldFirst
<1>4. QED
  BY <1>1, <1>2, <1>3, PTL DEF Spec, ActiveIsProtected

-----------------------------------------------------------------------------
(* Complete is final.                                                      *)

\* No second Runner is created under the name: a later Runner takes over the
\* Pod of the one before, and with it a phase that ends when that Pod goes.
NameUsedOnce == MaxUid <= 1

\* Nobody evicts the Pod: a Runner whose finished Pod was evicted gets a new
\* one and starts again.
NotEvicted == "evict" \notin Faults

\* A reconcile stays in the branch it chose, and the copies belong to the
\* Runner that was read.
Loyal ==
    /\ Working => mem.deleting = before.deleting
    /\ Working /\ before.deleting =>
         pc \in {"checkBusy", "refreshSecret", "deletePod", "deleteSecret", "patchMeta"}
    /\ runnerCache.deleting => runnerCache.alive
    /\ podCache.owner <= runnerCache.uid

\* From now on every reconcile takes the deletion branch.
Committed == runnerCache.deleting /\ (pc = "idle" \/ before.deleting)

\* Until then the Pod of the Runner stays, and the cache knows no more of it
\* than is true.
PodStays ==
    runner.alive /\ ~Committed =>
        /\ pod.owner = runner.uid => ~pod.terminating
        /\ podCache.owner = runner.uid =>
             /\ pod.owner = runner.uid
             /\ podCache.phase = "Succeeded" => pod.phase = "Succeeded"

\* What makes Complete final: the deletion, or the Pod that succeeded.
Grounded ==
    Committed \/ (podCache.owner = runner.uid /\ podCache.phase = "Succeeded")

\* A phase Complete, on the server or about to be written, has its ground,
\* and no reconcile has another phase to write over it.
CompleteStands ==
    runner.alive =>
        /\ runner.phase = "Complete" =>
             /\ Grounded
             /\ pc \notin {"findID", "getRunner", "annotatePod"}
             /\ pc \in {"patchMeta", "patchStatus"} =>
                  mem.phase \in {"Complete", before.phase}
        /\ pc \in {"patchMeta", "patchStatus"} /\ mem.phase = "Complete"
             /\ before.phase # "Complete" => Grounded

FinalFacts == Loyal /\ PodStays /\ CompleteStands

FinalInv == TokenInv /\ FlowInv /\ FinalFacts

\* Nothing is Complete in an empty cluster.
LEMMA InitFinal == Init => FinalInv
<1>1. /\ ~NoRunner(0).alive /\ ~NoRunner(0).deleting /\ NoRunner(0).uid = 0
      /\ NoPod.owner = 0
  BY DEF NoRunner, NewRunner, NoPod, NewPod
<1>2. Init => FinalFacts
  BY <1>1 DEF Init, FinalFacts, Loyal, PodStays, CompleteStands, Working
<1>3. QED
  BY <1>2, InitToken, InitFlow DEF FinalInv

\* There is one Runner, and everything that has an owner is its.
LEMMA OneUid ==
    ASSUME FinalInv, NameUsedOnce
    PROVE  /\ runner.alive => runner.uid = 1
           /\ runnerCache.alive => runnerCache.uid = 1 /\ runner.uid = 1
           /\ pc # "idle" => before.uid = 1 /\ runner.uid = 1
           /\ Working => mem.uid = 1 /\ runnerCache.uid = 1
           /\ pod.owner \in {0, 1} /\ podCache.owner \in {0, 1}
           /\ podCache.owner = 1 => runnerCache.uid = 1 /\ runner.uid = 1
           /\ pod.owner = 1 => runner.uid = 1
<1> USE DEF FinalInv, TokenInv, FlowInv, Incarnations, Release
<1>1. \A u \in Uid : u \in {0, 1}
  BY ConstantsAssumption DEF Uid, NameUsedOnce
<1>2. /\ runner.uid \in {0, 1} /\ runnerCache.uid \in {0, 1} /\ mem.uid \in {0, 1}
      /\ before.uid \in {0, 1} /\ pod.owner \in {0, 1} /\ podCache.owner \in {0, 1}
  BY <1>1 DEF TypeOK, RunnerObject, PodObject
<1>3. /\ runnerCache.uid <= runner.uid /\ pod.owner <= runnerCache.uid
      /\ runner.alive => runner.uid > 0
      /\ Working => mem.uid <= runnerCache.uid
  BY DEF IncarnationOrder, Working
<1>4. /\ runnerCache.alive => runnerCache.uid > 0
      /\ pc # "idle" => before.uid > 0 /\ before.uid <= runner.uid
      /\ Working => mem.uid = before.uid /\ pc # "idle"
  BY DEF FlowFacts, OneRunner, Working
<1>5. podCache.owner <= runnerCache.uid
  BY DEF FinalFacts, Loyal
<1>6. QED
  BY <1>2, <1>3, <1>4, <1>5

\* A deletion that the cache has seen is not taken back.
LEMMA DeletionIsKnown ==
    ASSUME FinalInv, NameUsedOnce, runner.alive
    PROVE  /\ runnerCache.deleting => runner.deleting
           /\ Working /\ before.deleting => runnerCache.deleting
<1>1. runnerCache.deleting => runner.deleting
  <2>1. runnerCache.deleting => runnerCache.uid = runner.uid
    BY OneUid DEF FinalInv, FinalFacts, Loyal
  <2>2. QED
    BY <2>1, MoreUidsAreNumbers
    DEF FinalInv, TokenInv, Incarnations, Release, IncarnationOrder
<1>2. Working /\ before.deleting => runnerCache.deleting
  BY OneUid DEF FinalInv, TokenInv, TokenFacts, SeenDeleting, OwnerAlive, FinalFacts,
                Loyal
<1>3. QED
  BY <1>1, <1>2

\* A step outside the reconcile that neither touches a live Runner's Pod nor
\* its phase keeps Complete final.
LEMMA OutsideFinal ==
    ASSUME FinalInv, NameUsedOnce, UNCHANGED worker,
           runner'.uid = runner.uid, runner'.alive => runner.alive,
           runner'.alive => runner'.phase = runner.phase,
           runnerCache' \in {runner, runnerCache}, podCache' \in {pod, podCache},
           runner'.alive /\ pod.owner = runner.uid /\ ~pod.terminating =>
             /\ pod'.owner = pod.owner /\ ~pod'.terminating
             /\ pod.phase = "Succeeded" => pod'.phase = "Succeeded",
           pod'.owner = pod.owner \/ pod'.owner = 0
    PROVE  FinalFacts'
<1> USE DEF FinalInv
<1>1. UNCHANGED <<pc, mem, before>>
  BY DEF worker
<1>2. Loyal'
  <2>1. runner.deleting => runner.alive
    BY DEF TokenInv, Incarnations, IncarnationOrder
  <2>2. podCache'.owner <= runnerCache'.uid
    <3>1. /\ pod.owner <= runnerCache.uid /\ runnerCache.uid <= runner.uid
          /\ podCache.owner <= runnerCache.uid
      BY DEF TokenInv, Incarnations, IncarnationOrder, FinalFacts, Loyal
    <3>2. podCache.owner \in Nat
      BY OneUid
    <3>3. QED
      BY <3>1, <3>2, MoreUidsAreNumbers DEF TokenInv, Incarnations, Release
  <2>3. QED
    BY <1>1, <2>1, <2>2 DEF FinalFacts, Loyal, Working
<1>3. ASSUME runner'.alive, Committed PROVE Committed'
  BY <1>1, <1>3, DeletionIsKnown DEF Committed
<1>4. PodStays'
  BY <1>1, <1>3, OneUid DEF FinalFacts, PodStays
<1>5. ASSUME runner'.alive, Grounded PROVE Grounded'
  BY <1>3, <1>5 DEF Grounded, FinalFacts, PodStays
<1>6. CompleteStands'
  BY <1>1, <1>5 DEF FinalFacts, CompleteStands
<1>7. QED
  BY <1>2, <1>4, <1>6 DEF FinalFacts

\* A Pod that nobody deletes or evicts stays, and success is its last phase.
LEMMA PodStepFinal ==
    ASSUME FinalInv, NameUsedOnce, NotEvicted, PodStep PROVE FinalFacts'
<1>1. UNCHANGED <<runner, runnerCache, worker>>
  BY PodStepWorker
<1>2. podCache' = podCache
  BY DEF PodStep, RegisterRunner, RegisterFails, RunnerOnline, AssignJob, JobDone,
         PodChanges, PodStarts, PodReady, PodSucceeds, ContainerCrash, PodFails,
         TerminatePod, EvictPod, GCPod, GCSecret, TokenAges, caches
<1>3. pod \in PodObject
  BY DEF FinalInv, TokenInv, Incarnations, Release, TypeOK
<1>4. ASSUME OwnerAlive(pod.owner), ~pod.terminating
      PROVE  /\ pod'.owner = pod.owner /\ ~pod'.terminating
             /\ pod.phase = "Succeeded" => pod'.phase = "Succeeded"
  BY <1>3, <1>4 DEF PodStep, RegisterRunner, RegisterFails, RunnerOnline, AssignJob,
     JobDone, PodChanges, PodStarts, PodReady, PodSucceeds, ContainerCrash, PodFails,
     TerminatePod, EvictPod, NotEvicted, GCPod, GCSecret, TokenAges, objects, WritePod,
     Running, PodObject
<1>5. pod'.owner = pod.owner \/ pod'.owner = 0
  BY PodStepPod DEF FinalInv, TokenInv, Incarnations, Release
<1>6. QED
  BY <1>1, <1>2, <1>4, <1>5, OutsideFinal DEF OwnerAlive

\* The informers and the webhook handler change no object.
LEMMA DeliveryFinal ==
    ASSUME FinalInv, NameUsedOnce,
           HookStep \/ SyncRunner \/ SyncPod \/ SyncSecret \/ UNCHANGED vars
    PROVE  FinalFacts'
BY DeliveryStep, OutsideFinal

\* A deletion leaves the phase alone, and the first create finds nothing.
LEMMA UserFinal ==
    ASSUME FinalInv, NameUsedOnce, CreateRunner \/ DeleteRunner PROVE FinalFacts'
<1> USE DEF FinalInv, TokenInv, Incarnations, Release
<1>1. UNCHANGED <<pod, runnerCache, podCache, worker>>
  BY UserStep
<1>2. CASE DeleteRunner
  <2>1. runner'.uid = runner.uid /\ runner.alive
    BY <1>2, RunnerFields DEF DeleteRunner, WriteRunner
  <2>2. runner'.alive => runner'.phase = runner.phase
    <3>1. /\ [runner EXCEPT !.deleting = TRUE].phase = runner.phase
          /\ ~NoRunner(runner.uid).alive
      BY DEF NoRunner, NewRunner, TypeOK, RunnerObject
    <3>2. QED
      BY <1>2, <3>1 DEF DeleteRunner, WriteRunner
  <2>3. QED
    BY <1>1, <2>1, <2>2, OutsideFinal
<1>3. CASE CreateRunner
  <2>1. runner'.uid = runner.uid + 1 /\ runner.uid < MaxUid /\ runner'.phase = ""
    BY <1>3, RunnerFields DEF CreateRunner, WriteRunner, NewRunner
  <2>2. runner.uid # 1 /\ runner'.uid = 1
    <3>1. \A u \in Uid : u + 1 \in Uid => u # 1 /\ u + 1 = 1
      BY ConstantsAssumption DEF Uid, NameUsedOnce
    <3>2. runner.uid \in Uid /\ runner'.uid \in Uid
      <4>1. TypeOK'
        BY UserType
      <4>2. QED
        BY <4>1 DEF TypeOK, RunnerObject
    <3>3. runner'.uid = runner.uid + 1
      BY <2>1
    <3>4. QED
      BY <3>1, <3>2, <3>3
  <2>3. pc = "idle" /\ pod.owner # 1 /\ podCache.owner # 1 /\ UNCHANGED <<pc, mem, before>>
    BY <1>1, <2>2, OneUid DEF worker
  <2>4. QED
    BY <1>1, <2>1, <2>2, <2>3
    DEF FinalFacts, Loyal, PodStays, CompleteStands, Committed, Working
<1>4. QED
  BY <1>2, <1>3

\* A manager that starts again lists what there is.
LEMMA RestartFinal ==
    ASSUME FinalInv, NameUsedOnce, RestartController PROVE FinalFacts'
<1> USE DEF FinalInv, TokenInv, Incarnations, Release
<1>1. /\ UNCHANGED <<runner, pod>> /\ runnerCache' = runner /\ podCache' = pod
      /\ pc' = "idle"
  BY DEF RestartController, objects
<1>2. Loyal'
  <2>1. /\ runner.deleting => runner.alive
        /\ pod.owner <= runnerCache.uid /\ runnerCache.uid <= runner.uid
    BY DEF IncarnationOrder
  <2>2. pod.owner <= runner.uid
    BY <2>1, MoreUidsAreNumbers
  <2>3. QED
    BY <1>1, <2>1, <2>2 DEF Loyal, Working
<1>3. ASSUME runner.alive, Committed PROVE Committed'
  BY <1>1, <1>3, DeletionIsKnown DEF Committed
<1>4. PodStays'
  BY <1>1, <1>3 DEF FinalFacts, PodStays
<1>5. ASSUME runner.alive, Grounded PROVE Grounded'
  BY <1>1, <1>3, <1>5 DEF Grounded, FinalFacts, PodStays
<1>6. CompleteStands'
  BY <1>1, <1>5 DEF FinalFacts, CompleteStands
<1>7. QED
  BY <1>2, <1>4, <1>6 DEF FinalFacts

\* A reconcile starts with the phase it read, or completes a Runner that is
\* being deleted.
LEMMA ReconcileFinal ==
    ASSUME FinalInv, NameUsedOnce, Reconcile PROVE FinalFacts'
<1>1. UNCHANGED <<runner, pod, runnerCache, podCache>> /\ pc = "idle"
  BY DEF Reconcile, objects, caches
<1>2. CASE ~runnerCache.alive
  <2>1. UNCHANGED <<pc, mem, before>>
    BY <1>2 DEF Reconcile, StartActiveDeletion, StartDeletion, StartNormal
  <2>2. QED
    BY <1>1, <2>1 DEF FinalInv, FinalFacts, Loyal, PodStays, CompleteStands, Committed,
                      Grounded, Working
<1>3. CASE runnerCache.alive
  <2>1. /\ before' = runnerCache /\ mem'.deleting = runnerCache.deleting
        /\ \/ pc' \in {"checkBusy", "refreshSecret", "patchMeta"} /\ runnerCache.deleting
           \/ pc' = "ensureSecret" /\ ~runnerCache.deleting
        /\ pc' = "patchMeta" => mem'.phase = "Complete"
    BY <1>3, Started DEF FinalInv, TokenInv, Incarnations, Release
  <2>2. Committed' <=> Committed
    BY <1>1, <2>1 DEF Committed
  <2>3. Loyal'
    BY <1>1, <2>1 DEF FinalInv, FinalFacts, Loyal, Working
  <2>4. PodStays'
    BY <1>1, <2>2 DEF FinalInv, FinalFacts, PodStays
  <2>5. Grounded' <=> Grounded
    BY <1>1, <2>2 DEF Grounded
  <2>6. pc' = "patchMeta" => Grounded'
    BY <1>1, <2>1, <2>5 DEF Committed, Grounded
  <2>7. CompleteStands'
    BY <1>1, <2>1, <2>5, <2>6 DEF FinalInv, FinalFacts, CompleteStands
  <2>8. QED
    BY <2>3, <2>4, <2>7 DEF FinalFacts
<1>4. QED
  BY <1>2, <1>3

\* What the branches do to the Pod of the Runner they work on: only the
\* deletion branch ends it.
LEMMA BranchKeepsPod ==
    ASSUME FinalInv, NameUsedOnce, Branch, runner.alive
    PROVE  /\ pod.owner = runner.uid =>
                /\ pod'.owner = runner.uid /\ pod'.phase = pod.phase
                /\ pod'.terminating = pod.terminating \/ DeletePod
           /\ pod.owner # runner.uid /\ pod'.owner = runner.uid => ~pod'.terminating
<1> USE DEF FinalInv, TokenInv, Incarnations, Release
<1>1. pod \in PodObject /\ mem.uid = 1 /\ runner.uid = 1
  BY OneUid, BranchStep DEF TypeOK
<1>2. CASE DeletePod \/ AnnotatePod
  BY <1>1, <1>2 DEF DeletePod, AnnotatePod, WritePod, PodExists, PodObject
<1>3. CASE EnsurePod
  <2>1. /\ [pod EXCEPT !.owner = mem.uid].owner = mem.uid
        /\ [pod EXCEPT !.owner = mem.uid].phase = pod.phase
        /\ [pod EXCEPT !.owner = mem.uid].terminating = pod.terminating
        /\ NewPod(mem.uid).owner = mem.uid /\ NewPod(mem.uid).terminating = FALSE
    BY <1>1 DEF PodObject, NewPod
  <2>2. podCache.owner \in {0, mem.uid}
    BY <1>1, OneUid
  <2>3. pod' = pod \/ (~PodExists /\ pod' = NewPod(mem.uid))
    BY <1>3, <2>2 DEF EnsurePod, WritePod
  <2>4. QED
    BY <1>1, <2>1, <2>3 DEF PodExists
<1>4. CASE ~DeletePod /\ ~AnnotatePod /\ ~EnsurePod
  <2>1. pod' = pod
    BY <1>4 DEF Branch, CheckBusy, RefreshSecret, DeleteSecret, EnsureSecret, FindID,
                GetRunner, ReturnError, objects
  <2>2. QED
    BY <2>1
<1>5. QED
  BY <1>2, <1>3, <1>4

\* The branches keep Complete final.
LEMMA BranchFinal ==
    ASSUME FinalInv, NameUsedOnce, Branch PROVE FinalFacts'
<1> USE DEF FinalInv, TokenInv, Incarnations, Release
<1>1. /\ UNCHANGED <<runner, runnerCache, podCache, before>>
      /\ mem'.deleting = mem.deleting
      /\ Working /\ pc # "patchMeta" /\ pc' \notin {"idle", "patchStatus"}
  BY BranchStep
<1>2. pc # "idle" /\ (Committed' <=> Committed)
  BY <1>1 DEF Committed, Working
<1>3. Loyal'
  <2>1. before.deleting =>
          pc' \in {"checkBusy", "refreshSecret", "deletePod", "deleteSecret", "patchMeta"}
    <3>1. before.deleting => pc \in {"checkBusy", "refreshSecret", "deletePod",
                                     "deleteSecret"}
      BY <1>1 DEF FinalFacts, Loyal
    <3>2. QED
      BY <3>1 DEF Branch, CheckBusy, RefreshSecret, DeletePod, DeleteSecret, EnsureSecret,
                  EnsurePod, FindID, GetRunner, AnnotatePod, ReturnError, Goto, Return
  <2>2. QED
    BY <1>1, <2>1 DEF FinalFacts, Loyal, Working
<1>4. ASSUME runner.alive, DeletePod \/ CheckBusy PROVE Committed
  <2>1. mem.deleting
    BY <1>4 DEF DeletePod, CheckBusy, IncarnationOrder
  <2>2. before.deleting
    BY <1>1, <2>1 DEF FinalFacts, Loyal
  <2>3. QED
    BY <1>1, <1>4, <2>2, DeletionIsKnown DEF Committed
<1>5. PodStays'
  BY <1>1, <1>2, <1>4, BranchKeepsPod DEF FinalFacts, PodStays
<1>6. Grounded' <=> Grounded
  BY <1>1, <1>2 DEF Grounded
<1>7. ASSUME EnsurePod, runner.alive, mem'.phase = "Complete", before.phase # "Complete"
      PROVE  podCache.owner = runner.uid /\ podCache.phase = "Succeeded"
  <2>1. mem.phase = before.phase /\ mem \in RunnerObject /\ mem.uid = 1 /\ runner.uid = 1
    BY <1>1, <1>7, OneUid DEF EnsurePod, FlowInv, FlowFacts, PhaseSoFar, TypeOK
  <2>2. ASSUME NEW p, PodStatus(p) PROVE p.phase = "Succeeded"
    BY <1>7, <2>1, <2>2 DEF PodStatus, RunnerObject
  <2>3. NewPod(mem.uid).phase # "Succeeded"
    BY DEF NewPod
  <2>4. podCache.owner \in {0, mem.uid}
    BY <2>1, OneUid
  <2>5. mem' # mem
    BY <1>7, <2>1
  <2>6. podCache.owner = mem.uid /\ PodStatus(podCache)
    BY <1>7, <2>2, <2>3, <2>4, <2>5 DEF EnsurePod
  <2>7. QED
    BY <2>1, <2>2, <2>6
<1>8. ASSUME EnsurePod, runner.alive, runner.phase = "Complete"
      PROVE  pc' # "findID" /\ mem'.phase \in {"Complete", before.phase}
  <2>1. ~Committed
    BY <1>8, <1>2 DEF EnsurePod, Committed, FinalFacts, Loyal, Working
  <2>2. podCache.owner = runner.uid /\ podCache.phase = "Succeeded"
    BY <1>8, <2>1 DEF FinalFacts, CompleteStands, Grounded
  <2>3. mem.phase = before.phase /\ mem \in RunnerObject /\ mem.uid = runner.uid
        /\ runner.uid # 0
    BY <1>1, <1>8, OneUid DEF EnsurePod, FlowInv, FlowFacts, PhaseSoFar, TypeOK
  <2>4. PodStatus(podCache)
    BY <1>8, <2>2, <2>3 DEF EnsurePod
  <2>5. QED
    BY <2>2, <2>3, <2>4 DEF PodStatus, Return, RunnerObject
<1>9. PhaseSoFar
  BY DEF FlowInv, FlowFacts
<1>10. CompleteStands'
  <2>1. ASSUME runner.alive, runner.phase = "Complete"
        PROVE  /\ pc' \notin {"findID", "getRunner", "annotatePod"}
               /\ pc' = "patchMeta" => mem'.phase \in {"Complete", before.phase}
    <3>1. ~FindID /\ ~GetRunner /\ ~AnnotatePod
      BY <2>1 DEF FinalFacts, CompleteStands, FindID, GetRunner, AnnotatePod
    <3>2. ReturnError => mem.phase = before.phase
      BY <1>1, <1>9, <2>1 DEF FinalFacts, CompleteStands, ReturnError, Steps, PhaseSoFar
    <3>3. QED
      BY <1>8, <1>9, <2>1, <3>1, <3>2, BranchPhases
  <2>2. ASSUME runner.alive, pc' = "patchMeta", mem'.phase = "Complete",
               before.phase # "Complete"
        PROVE  Grounded
    <3>1. AnnotatePod \/ ReturnError => mem.phase # "Complete"
      BY <1>9, <2>2 DEF AnnotatePod, ReturnError, Steps, PhaseSoFar
    <3>2. CheckBusy \/ EnsurePod
      BY <1>9, <2>2, <3>1, BranchPhases
    <3>3. QED
      BY <1>4, <1>7, <2>2, <3>2 DEF Grounded
  <2>3. QED
    BY <1>1, <1>6, <2>1, <2>2 DEF FinalFacts, CompleteStands
<1>11. QED
  BY <1>3, <1>5, <1>10 DEF FinalFacts

\* The patches write no phase over Complete that another reconcile wrote, and
\* Complete only with its ground.
LEMMA PatchFinal ==
    ASSUME FinalInv, NameUsedOnce, PatchMeta \/ PatchStatus PROVE FinalFacts'
<1> USE DEF FinalInv, TokenInv, Incarnations, Release
<1>1. /\ UNCHANGED <<pod, runnerCache, podCache>> /\ runner'.uid = runner.uid
      /\ runner'.alive => runner.alive
      /\ pc # "idle" /\ pc' \in {"idle", "patchStatus"}
      /\ pc' = "patchStatus" => before' = before /\ PatchMeta
  BY PatchStep DEF PatchMeta, PatchStatus
<1>2. Loyal'
  BY <1>1 DEF FinalFacts, Loyal, Working
<1>3. Committed => Committed'
  BY <1>1 DEF Committed
<1>4. PodStays'
  BY <1>1, <1>3 DEF FinalFacts, PodStays
<1>5. Grounded => Grounded'
  BY <1>1, <1>3 DEF Grounded
<1>6. CASE PatchMeta
  <2>1. runner'.alive => runner'.phase = runner.phase
    <3>1. PatchedRunner.phase = runner.phase \/ ~PatchedRunner.alive
      BY PatchedPhase
    <3>2. QED
      BY <1>6, <3>1 DEF PatchMeta, WriteRunner
  <2>2. ASSUME pc' = "patchStatus", runner'.alive
        PROVE  mem'.phase = mem.phase \/ mem'.phase = runner.phase
    <3>1. CASE mem' = mem
      BY <3>1
    <3>2. CASE mem' = DecodedRunner /\ runner' = PatchedRunner
      <4>1. PatchedRunner \in RunnerObject
        BY PatchedRunnerType
      <4>2. mem'.phase = mem.phase \/ mem'.phase = runner'.phase
        BY <3>2, <4>1 DEF DecodedRunner, DecodeField, RunnerObject
      <4>3. QED
        BY <2>1, <2>2, <4>2
    <3>3. QED
      BY <2>2, <3>1, <3>2, PatchStep
  <2>3. pc = "patchMeta"
    BY <1>6 DEF PatchMeta
  <2>4. CompleteStands'
    BY <1>1, <1>5, <2>1, <2>2, <2>3 DEF FinalFacts, CompleteStands
  <2>5. QED
    BY <1>2, <1>4, <2>4 DEF FinalFacts
<1>7. CASE PatchStatus
  <2>1. pc = "patchStatus" /\ pc' = "idle"
    BY <1>7 DEF PatchStatus, Done
  <2>2. ASSUME runner'.alive, runner'.phase = "Complete" PROVE Grounded
    <3>1. CASE runner' = runner
      BY <2>2, <3>1 DEF FinalFacts, CompleteStands
    <3>2. CASE runner' = PatchedStatus
      BY <1>1, <2>1, <2>2, <3>2, PhasePatched DEF FinalFacts, CompleteStands
    <3>3. QED
      BY <1>7, <3>1, <3>2 DEF PatchStatus
  <2>3. CompleteStands'
    BY <1>5, <2>1, <2>2 DEF CompleteStands
  <2>4. QED
    BY <1>2, <1>4, <2>3 DEF FinalFacts
<1>8. QED
  BY <1>6, <1>7

\* Every step keeps Complete final.
LEMMA FinalStep ==
    ASSUME FinalInv, NameUsedOnce, NotEvicted, [Next]_vars PROVE FinalInv'
<1>1. TokenInv' /\ FlowInv'
  BY TokenStep, FlowStep DEF FinalInv
<1>2. CASE ReconcileStep
  BY <1>1, <1>2, ReconcileFinal, BranchFinal, PatchFinal
  DEF ReconcileStep, Branch, FinalInv
<1>3. CASE PodStep
  BY <1>1, <1>3, PodStepFinal DEF FinalInv
<1>4. CASE HookStep \/ SyncRunner \/ SyncPod \/ SyncSecret \/ UNCHANGED vars
  BY <1>1, <1>4, DeliveryFinal DEF FinalInv
<1>5. CASE CreateRunner \/ DeleteRunner \/ RestartController
  BY <1>1, <1>5, UserFinal, RestartFinal DEF FinalInv
<1>6. QED
  BY <1>2, <1>3, <1>4, <1>5 DEF Next, Environment

\* No step takes a Runner out of Complete.
LEMMA CompleteStep ==
    ASSUME FinalInv, [Next]_vars, runner.phase = "Complete", runner'.alive,
           runner'.uid = runner.uid
    PROVE  runner'.phase = "Complete"
<1> USE DEF FinalInv, TokenInv, Incarnations, Release
<1>1. CASE PatchStatus /\ runner' = PatchedStatus /\ ~StatusRefused
  <2>1. runner.alive /\ pc = "patchStatus"
    BY <1>1 DEF PatchStatus, StatusRefused
  <2>2. mem.phase \in {"Complete", before.phase}
    BY <2>1 DEF FinalFacts, CompleteStands
  <2>3. QED
    BY <1>1, <2>2, PhasePatched
<1>2. CASE CreateRunner
  BY <1>2, RunnerFields, MoreUidsAreNumbers DEF CreateRunner, WriteRunner
<1>3. CASE DeleteRunner
  <2>1. /\ [runner EXCEPT !.deleting = TRUE].phase = runner.phase
        /\ ~NoRunner(runner.uid).alive
    BY DEF NoRunner, NewRunner, TypeOK, RunnerObject
  <2>2. QED
    BY <1>3, <2>1 DEF DeleteRunner, WriteRunner
<1>4. QED
  BY <1>1, <1>2, <1>3, PhaseWritten

\* A Runner whose name is used once and whose Pod nobody evicts stays
\* Complete once it is: no reconcile on a stale cache, failed call, crashed
\* manager or failing container takes it back to an earlier phase.
THEOREM CompleteStays ==
    ASSUME NameUsedOnce, NotEvicted PROVE Spec => CompleteIsFinal
<1>1. FinalInv /\ [Next]_vars => FinalInv'
  BY FinalStep
<1>2. FinalInv /\ [Next]_vars =>
        [runner.phase = "Complete" /\ runner'.alive /\ runner'.uid = runner.uid
           => runner'.phase = "Complete"]_vars
  BY CompleteStep
<1>3. QED
  BY <1>1, <1>2, InitFinal, PTL DEF Spec, CompleteIsFinal

=============================================================================
