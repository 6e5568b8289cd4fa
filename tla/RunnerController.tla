-------------------------- MODULE RunnerController --------------------------
(***************************************************************************)
(* controllers/runner_controller.go: RunnerReconciler.Reconcile.           *)
(*                                                                         *)
(* One reconcile is cut at every call that leaves the process: between two *)
(* of its steps users, the kubelet, Github, the garbage collector and the  *)
(* informers may act.  Reads (r.Get and the Get inside CreateOrUpdate) are *)
(* served by the informer caches, writes go to the API server.  Whatever   *)
(* the reconcile returns, the deferred Patcher.Patch runs: PatchMeta, then *)
(* PatchStatus.  One worker reconciles (MaxConcurrentReconciles is 1), in  *)
(* one manager (leader election), so there is at most one reconcile.       *)
(***************************************************************************)
EXTENDS ClusterState, Patcher

\* the reconcile goes on at step s
Goto(s) == pc' = s /\ UNCHANGED <<requeue, before, locked>>

\* the reconcile returns; again: with an error, Requeue or RequeueAfter
Return(again) == pc' = "patchMeta" /\ requeue' = again /\ UNCHANGED <<before, locked>>

\* a request that may be refused by Github for want of access
Denied == "denied" \in Faults

-----------------------------------------------------------------------------
(* Reading the Runner: lines 75-116 and 168-169.                           *)

\* Active and being deleted: ask Github, or complete if it has no id
StartActiveDeletion ==
    /\ runnerCache.deleting /\ runnerCache.phase = "Active"
    /\ before' = runnerCache
    /\ \/ /\ runnerCache.id = 0
          /\ mem' = [runnerCache EXCEPT !.phase = "Complete"]
          /\ pc' = "patchMeta"
          /\ requeue' = TRUE
       \/ /\ runnerCache.id # 0
          /\ mem' = runnerCache
          /\ pc' = "checkBusy"
          /\ requeue' = FALSE

\* mutant: what an earlier incarnation left behind is cleaned up first
StartDeletionOfLeftovers ==
    /\ \/ runnerCache.deleting /\ runnerCache.phase # "Active"
       \/ podCache.owner \notin {0, runnerCache.uid}
    /\ before' = runnerCache
    /\ mem' = runnerCache
    /\ pc' = "refreshSecret"
    /\ requeue' = FALSE

StartDeletion ==
    /\ runnerCache.deleting /\ runnerCache.phase # "Active"
    /\ before' = runnerCache
    /\ mem' = runnerCache
    /\ pc' = "refreshSecret"
    /\ requeue' = FALSE

StartNormal ==
    /\ ~runnerCache.deleting
    /\ before' = runnerCache
    /\ mem' = [runnerCache EXCEPT !.finalizer = TRUE]
    /\ pc' = "ensureSecret"
    /\ requeue' = FALSE

Reconcile ==
    /\ pc = "idle" /\ queued
    /\ queued' = FALSE
    /\ \/ ~runnerCache.alive /\ UNCHANGED <<pc, mem, requeue, before>>
       \/ runnerCache.alive /\ (StartActiveDeletion \/ StartDeletion \/ StartNormal)
    /\ UNCHANGED <<objects, caches, stale, outside, locked>>

-----------------------------------------------------------------------------
(* The deletion branch: lines 117-165.                                     *)

\* 403 and 404 leave ghrunner nil, and nil is not busy
SaysBusy(i) == github[i] = "busy"

CheckBusy ==
    /\ pc = "checkBusy"
    /\ \/ SaysBusy(mem.id) /\ mem' = mem
       \/ /\ ~SaysBusy(mem.id) \/ Denied
          /\ mem' = [mem EXCEPT !.phase = "Complete"]
    /\ Return(TRUE)
    /\ UNCHANGED <<objects, caches, stale, outside, queued>>

(***************************************************************************)
(* ctrl.CreateOrUpdate on the Secret, with a token of age `token` when the *)
(* mutate function asks Github for one.  SetControllerReference compares   *)
(* owners by kind and name, so it takes over the Secret of an earlier      *)
(* incarnation.                                                            *)
(***************************************************************************)
\* mutant: a Secret that exists is never refreshed
MustWriteSecretOnce == secretCache.owner # mem.uid

MustWriteSecret == IsTokenExpired(secretCache) \/ secretCache.owner # mem.uid

\* Create needs the name to be free, Update the version that was read
SecretAccepts == IF secretCache.owner = 0 THEN ~SecretExists ELSE "secret" \notin stale

SecretWritten(token) ==
    /\ MustWriteSecret /\ SecretAccepts
    /\ WriteSecret([owner |-> mem.uid,
                    token |-> IF IsTokenExpired(secretCache) THEN token ELSE "fresh"])

SecretKept == ~MustWriteSecret /\ UNCHANGED <<secret, stale>>

\* AlreadyExists, Conflict or NotFound: the cache is behind the server
SecretRefused == MustWriteSecret /\ ~SecretAccepts /\ UNCHANGED <<secret, stale>>

\* mutant: the Pod is left to the garbage collector
RefreshSecretOnly ==
    /\ pc = "refreshSecret"
    /\ \/ (SecretKept \/ SecretWritten("fresh")) /\ Goto("deleteSecret")
       \/ SecretRefused /\ Return(TRUE)
    /\ UNCHANGED <<runner, pod, caches, outside, queued, mem>>

\* a refused token request stores an empty token with a zero expiry time
RefreshSecret ==
    /\ pc = "refreshSecret"
    /\ \/ (SecretKept \/ SecretWritten("fresh")) /\ Goto("deletePod")
       \/ Denied /\ SecretWritten("expired") /\ Goto("deletePod")
       \/ SecretRefused /\ Return(TRUE)
    /\ UNCHANGED <<runner, pod, caches, outside, queued, mem>>

DeletePod ==
    /\ pc = "deletePod"
    /\ WritePod(IF PodExists THEN [pod EXCEPT !.terminating = TRUE] ELSE pod)
    /\ Goto("deleteSecret")
    /\ UNCHANGED <<runner, secret, caches, outside, queued, mem>>

\* mutant: the Secret is left to the garbage collector
DeleteSecretNot ==
    /\ pc = "deleteSecret"
    /\ mem' = [mem EXCEPT !.finalizer = FALSE]
    /\ Return(FALSE)
    /\ UNCHANGED <<objects, caches, stale, outside, queued>>

\* mutant: the finalizer is not removed
DeleteSecretKeepsFinalizer ==
    /\ pc = "deleteSecret"
    /\ IF SecretExists THEN WriteSecret(NoSecret) ELSE UNCHANGED <<secret, stale>>
    /\ Return(FALSE)
    /\ UNCHANGED <<runner, pod, caches, outside, queued, mem>>

DeleteSecret ==
    /\ pc = "deleteSecret"
    /\ IF SecretExists THEN WriteSecret(NoSecret) ELSE UNCHANGED <<secret, stale>>
    /\ mem' = [mem EXCEPT !.finalizer = FALSE]
    /\ Return(FALSE)
    /\ UNCHANGED <<runner, pod, caches, outside, queued>>

-----------------------------------------------------------------------------
(* The normal branch: lines 171-222.                                       *)

\* without access to Github the reconcile ends, and is not tried again
SecretDenied == Denied /\ IsTokenExpired(secretCache) /\ UNCHANGED <<secret, stale>>

\* mutant: a conflict on the Secret ends the reconcile without a retry
EnsureSecretNoRetry ==
    /\ pc = "ensureSecret"
    /\ \/ (SecretKept \/ SecretWritten("fresh")) /\ Goto("ensurePod")
       \/ SecretRefused /\ Return(FALSE)
    /\ UNCHANGED <<runner, pod, caches, outside, queued, mem>>

EnsureSecret ==
    /\ pc = "ensureSecret"
    /\ \/ (SecretKept \/ SecretWritten("fresh")) /\ Goto("ensurePod")
       \/ SecretRefused /\ Return(TRUE)
       \/ SecretDenied /\ Return(FALSE)
    /\ UNCHANGED <<runner, pod, caches, outside, queued, mem>>

\* mutant: the Pod's phase is copied
PodStatusCopied(p) == mem' = [mem EXCEPT !.phase = p.phase] /\ Return(FALSE)

\* mutant: a Pod that succeeded is cleaned up at once
PodStatusCleansUp(p) ==
    \/ /\ p.phase = "Succeeded"
       /\ mem' = [mem EXCEPT !.phase = "Complete", !.online = "False"]
       /\ Goto("deletePod")
    \/ /\ p.phase # "Succeeded"
       /\ mem' = [mem EXCEPT !.phase = "Pending"]
       /\ IF p.phase = "Running" /\ p.ready THEN Goto("findID") ELSE Return(FALSE)

\* reconcileStatus on pod p, as far as it goes without leaving the process
PodStatus(p) ==
    \/ /\ p.phase = "Running" /\ p.ready
       /\ mem' = [mem EXCEPT !.phase = "Pending"]
       /\ Goto("findID")
    \/ /\ p.phase = "Succeeded"
       /\ mem' = [mem EXCEPT !.phase = "Complete", !.online = "False"]
       /\ Return(FALSE)
    \/ /\ p.phase \in {"Pending", "Failed"} \/ (p.phase = "Running" /\ ~p.ready)
       /\ mem' = [mem EXCEPT !.phase = "Pending"]
       /\ Return(FALSE)

\* CreateOrUpdate on the Pod: an update can only change its owner
EnsurePod ==
    /\ pc = "ensurePod"
    /\ \/ /\ podCache.owner = mem.uid
          /\ PodStatus(podCache)
          /\ UNCHANGED <<pod, stale>>
       \/ /\ podCache.owner = 0 /\ ~PodExists
          /\ WritePod(NewPod(mem.uid))
          /\ PodStatus(NewPod(mem.uid))
       \/ /\ podCache.owner \notin {0, mem.uid} /\ "pod" \notin stale
          /\ WritePod([pod EXCEPT !.owner = mem.uid])
          /\ PodStatus(pod)
       \/ /\ IF podCache.owner = 0 THEN PodExists
                                  ELSE podCache.owner # mem.uid /\ "pod" \in stale
          /\ Return(TRUE)
          /\ UNCHANGED <<pod, stale, mem>>
    /\ UNCHANGED <<runner, secret, caches, outside, queued>>

-----------------------------------------------------------------------------
(* reconcileStatus for a Ready Pod: lines 242-301.                         *)

\* FindRunnerIDFromPod executes in the container that runs now
FindID ==
    /\ pc = "findID"
    /\ \/ /\ Running /\ agent # 0
          /\ mem' = [mem EXCEPT !.id = agent]
          /\ Goto("getRunner")
       \/ /\ ~(Running /\ agent # 0)
          /\ mem' = mem
          /\ Return(TRUE)
    /\ UNCHANGED <<objects, caches, stale, outside, queued>>

\* mutant: an offline runner is not looked at again
GetRunnerNoRequeue ==
    /\ pc = "getRunner"
    /\ \/ github[mem.id] = "gone" /\ mem' = mem
       \/ /\ github[mem.id] = "offline"
          /\ mem' = [mem EXCEPT !.os = TRUE, !.online = "False"]
       \/ /\ github[mem.id] = "online"
          /\ mem' = [mem EXCEPT !.os = TRUE, !.online = "True", !.phase = "Idle"]
       \/ /\ github[mem.id] = "busy"
          /\ mem' = [mem EXCEPT !.os = TRUE, !.online = "True", !.phase = "Active"]
    /\ Return(github[mem.id] = "gone")
    /\ UNCHANGED <<objects, caches, stale, outside, queued>>

GetRunner ==
    /\ pc = "getRunner"
    /\ \/ /\ github[mem.id] = "gone" \/ Denied
          /\ mem' = mem
          /\ Return(TRUE)
       \/ /\ github[mem.id] = "offline"
          /\ mem' = [mem EXCEPT !.os = TRUE, !.online = "False"]
          /\ Return(TRUE)
       \/ /\ github[mem.id] = "online"
          /\ mem' = [mem EXCEPT !.os = TRUE, !.online = "True", !.phase = "Idle"]
          /\ Return(FALSE)
       \/ /\ github[mem.id] = "busy"
          /\ mem' = [mem EXCEPT !.os = TRUE, !.online = "True", !.phase = "Active"]
          /\ IF EvictionPolicy = "IfNotActive" THEN Goto("annotatePod")
                                               ELSE Return(FALSE)
    /\ UNCHANGED <<objects, caches, stale, outside, queued>>

\* mutant: the annotation says the opposite
AnnotatePodEvictable ==
    /\ pc = "annotatePod"
    /\ \/ PodExists /\ WritePod([pod EXCEPT !.evict = "true"]) /\ Return(FALSE)
       \/ ~PodExists /\ Return(TRUE) /\ UNCHANGED <<pod, stale>>
    /\ UNCHANGED <<runner, secret, caches, outside, queued, mem>>

\* a merge patch: it needs the Pod to be there, not to be unchanged
AnnotatePod ==
    /\ pc = "annotatePod"
    /\ \/ PodExists /\ WritePod([pod EXCEPT !.evict = "false"]) /\ Return(FALSE)
       \/ ~PodExists /\ Return(TRUE) /\ UNCHANGED <<pod, stale>>
    /\ UNCHANGED <<runner, secret, caches, outside, queued, mem>>

\* mutant: an error of the Pod's deletion is ignored
ReturnErrorNotFromDelete ==
    /\ "call" \in Faults
    /\ pc \in Steps \ {"idle", "patchMeta", "patchStatus"}
    /\ IF pc = "deletePod" THEN Goto("deleteSecret") ELSE Return(TRUE)
    /\ UNCHANGED <<objects, caches, stale, outside, queued, mem>>

\* any of these calls may fail, and its "return ctrl.Result{}, err" puts the
\* key back into the queue; the two deletions of 153-161 and, in the same
\* form, lines 120, 150, 202, 213, 246, 253 and 296
ReturnError ==
    /\ "call" \in Faults
    /\ pc \in Steps \ {"idle", "patchMeta", "patchStatus"}
    /\ Return(TRUE)
    /\ UNCHANGED <<objects, caches, stale, outside, queued, mem>>

-----------------------------------------------------------------------------
(* The deferred Patcher.Patch: util/patch/patch.go 76-119.                 *)

\* mutant: the id is not compared
MetaChangedButID == \/ before.finalizer # mem.finalizer
                    \/ before.os # mem.os

MetaChanged   == \/ before.finalizer # mem.finalizer
                 \/ before.id # mem.id
                 \/ before.os # mem.os
StatusChanged == \/ before.phase # mem.phase
                 \/ before.online # mem.online

\* what the API server makes of the first patch; an object being deleted
\* goes away with its last finalizer
PatchedRunner ==
    LET r == [runner EXCEPT
                !.finalizer = MergeField(before.finalizer, mem.finalizer, @),
                !.id        = MergeField(before.id, mem.id, @),
                !.os        = MergeField(before.os, mem.os, @)]
    IN  IF r.deleting /\ ~r.finalizer THEN NoRunner(r.uid) ELSE r

\* the reconcile is over: its key goes back to the queue if it must
Done(again) ==
    /\ pc' = "idle"
    /\ queued' = (queued \/ again)
    /\ mem' = NoRunner(0) /\ before' = NoRunner(0)
    /\ locked' = FALSE /\ requeue' = FALSE

\* the status patch follows when the status differed before the first patch
ThenStatus(m, lock, again) ==
    IF StatusChanged
    THEN /\ pc' = "patchStatus"
         /\ mem' = m
         /\ locked' = lock
         /\ requeue' = again
         /\ UNCHANGED <<queued, before>>
    ELSE Done(again)

\* the object in memory after the answer to the first patch was decoded
DecodedRunner ==
    [PatchedRunner EXCEPT !.phase  = DecodeField(mem.phase, @, ""),
                          !.online = DecodeField(mem.online, @, "")]

PatchMeta ==
    /\ pc = "patchMeta"
    /\ \/ /\ ~MetaChanged
          /\ ThenStatus(mem, FALSE, requeue)
          /\ UNCHANGED <<runner, stale>>
       \/ /\ MetaChanged /\ runner.alive
          /\ WriteRunner(PatchedRunner)
          /\ ThenStatus(DecodedRunner, TRUE, requeue)
       \/ /\ MetaChanged /\ (~runner.alive \/ "call" \in Faults)
          /\ ThenStatus(mem, FALSE, TRUE)
          /\ UNCHANGED <<runner, stale>>
    /\ UNCHANGED <<pod, secret, caches, outside>>

\* NotFound, or Conflict on the resourceVersion of the first answer
StatusRefused == ~runner.alive \/ (locked /\ "resp" \in stale)

PatchedStatus ==
    [runner EXCEPT !.phase  = MergeField(before.phase, mem.phase, @),
                   !.online = MergeField(before.online, mem.online, @)]

PatchStatus ==
    /\ pc = "patchStatus"
    /\ \/ /\ ~StatusRefused
          /\ runner' = PatchedStatus
          /\ stale' = IF PatchedStatus = runner THEN stale ELSE stale \cup {"runner"}
          /\ Done(requeue)
       \/ /\ StatusRefused \/ "call" \in Faults
          /\ runner' = runner
          /\ stale' = stale \ {"resp"}
          /\ Done(TRUE)
    /\ UNCHANGED <<pod, secret, caches, outside>>

ReconcileStep ==
    \/ Reconcile \/ CheckBusy \/ RefreshSecret \/ DeletePod \/ DeleteSecret
    \/ EnsureSecret \/ EnsurePod \/ FindID \/ GetRunner \/ AnnotatePod
    \/ ReturnError \/ PatchMeta \/ PatchStatus

=============================================================================
