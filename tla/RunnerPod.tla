------------------------------ MODULE RunnerPod ------------------------------
(***************************************************************************)
(* The runner Pod and its registration: runner/entrypoint.sh in the        *)
(* container, and the kubelet, the cluster autoscaler, the garbage         *)
(* collector and Github around it, as far as the controller depends on     *)
(* them.                                                                   *)
(***************************************************************************)
EXTENDS ClusterState

\* what becomes of the registration in use when its container is stopped:
\* runner::cleanup removed it, or could not and it goes offline
Unregistered(outcome) ==
    IF agent # 0 /\ github[agent] \in {"offline", "online", "busy"}
    THEN [github EXCEPT ![agent] = outcome] ELSE github

-----------------------------------------------------------------------------
(* runner/entrypoint.sh and the Github runner it starts.                   *)

\* config.sh --replace: the registration of that name that is offline is
\* used again, or replaced by a new one
RegisterRunner ==
    /\ Running /\ agent = 0
    /\ SecretExists /\ secret.token # "expired"
    /\ \E i \in DOMAIN github :
         /\ \/ github[i] = "offline"
            \/ github[i] = "unused" /\ \A j \in 1..(i - 1) : github[j] # "unused"
         /\ agent' = i
         /\ github' = [j \in DOMAIN github |->
                         IF j = i THEN "offline"
                         ELSE IF github[j] = "offline" THEN "gone" ELSE github[j]]
    /\ UNCHANGED <<objects, caches, stale, hooks, queued, worker>>

\* config.sh is refused and the container exits with an error: the kubelet
\* counts a restart in the Pod's status, which is an event for the controller
RegisterFails ==
    /\ Running /\ agent = 0
    /\ SecretExists /\ secret.token = "expired"
    /\ ~queued /\ queued' = TRUE
    /\ UNCHANGED <<objects, caches, stale, outside, worker>>

RunnerOnline ==
    /\ Running /\ agent # 0 /\ github[agent] = "offline"
    /\ github' = [github EXCEPT ![agent] = "online"]
    /\ UNCHANGED <<objects, caches, stale, agent, hooks, queued, worker>>

\* Github gives the runner a job and announces it to the webhook
AssignJob ==
    /\ Running /\ agent # 0 /\ github[agent] = "online"
    /\ github' = [github EXCEPT ![agent] = "busy"]
    /\ hooks' = hooks \cup {agent}
    /\ UNCHANGED <<objects, caches, stale, agent, queued, worker>>

\* --ephemeral: Github forgets the runner after one job
JobDone ==
    /\ Running /\ agent # 0 /\ github[agent] = "busy"
    /\ github' = [github EXCEPT ![agent] = "gone"]
    /\ UNCHANGED <<objects, caches, stale, agent, hooks, queued, worker>>

-----------------------------------------------------------------------------
(* The kubelet.                                                            *)

PodChanges(p) == WritePod(p) /\ UNCHANGED <<runner, secret, caches, hooks, queued, worker>>

\* the registration-token volume needs the Secret
PodStarts ==
    /\ PodExists /\ pod.phase = "Pending" /\ ~pod.terminating /\ SecretExists
    /\ PodChanges([pod EXCEPT !.phase = "Running"])
    /\ UNCHANGED <<agent, github>>

\* StartupProbe: cat .runner
PodReady ==
    /\ Running /\ agent # 0 /\ ~pod.ready
    /\ PodChanges([pod EXCEPT !.ready = TRUE])
    /\ UNCHANGED <<agent, github>>

PodSucceeds ==
    /\ Running /\ agent # 0 /\ github[agent] = "gone"
    /\ PodChanges([pod EXCEPT !.phase = "Succeeded", !.ready = FALSE])
    /\ agent' = 0
    /\ UNCHANGED github

\* restartPolicy OnFailure: a new container with an empty file system
ContainerCrash ==
    /\ "container" \in Faults
    /\ Running /\ agent # 0
    /\ PodChanges([pod EXCEPT !.ready = FALSE])
    /\ agent' = 0
    /\ github' = Unregistered("offline")

PodFails ==
    /\ "pod" \in Faults
    /\ PodExists /\ pod.phase \in {"Pending", "Running"}
    /\ PodChanges([pod EXCEPT !.phase = "Failed", !.ready = FALSE])
    /\ agent' = 0
    /\ \E outcome \in {"gone", "offline"} : github' = Unregistered(outcome)

TerminatePod ==
    /\ PodExists /\ pod.terminating
    /\ PodChanges(NoPod)
    /\ agent' = 0
    /\ \E outcome \in {"gone", "offline"} : github' = Unregistered(outcome)

-----------------------------------------------------------------------------
(* The cluster autoscaler, the garbage collector and the clock.            *)

EvictPod ==
    /\ "evict" \in Faults
    /\ PodExists /\ pod.evict = "true" /\ ~pod.terminating
    /\ PodChanges([pod EXCEPT !.terminating = TRUE])
    /\ UNCHANGED <<agent, github>>

GCPod ==
    /\ PodExists /\ ~OwnerAlive(pod.owner) /\ ~pod.terminating
    /\ PodChanges([pod EXCEPT !.terminating = TRUE])
    /\ UNCHANGED <<agent, github>>

GCSecret ==
    /\ SecretExists /\ ~OwnerAlive(secret.owner)
    /\ WriteSecret(NoSecret)
    /\ UNCHANGED <<runner, pod, caches, outside, queued, worker>>

Older(token) == IF token = "fresh" THEN "expiring" ELSE "expired"

\* The clock ages the token and its cached copy.  A reconcile takes less
\* than the five minutes IsTokenExpired allows for, so a token it found
\* fresh does not expire before it ends: such a token ages between two.
TokenAges ==
    /\ "expiry" \in Faults
    /\ SecretExists /\ secret.token # "expired"
    /\ secret.token = "fresh" => pc = "idle"
    /\ secret' = [secret EXCEPT !.token = Older(@)]
    /\ secretCache' = IF secretCache.owner = 0 THEN secretCache
                      ELSE [secretCache EXCEPT !.token = Older(@)]
    /\ UNCHANGED <<runner, pod, runnerCache, podCache, stale, outside, queued, worker>>

PodStep ==
    \/ RegisterRunner \/ RegisterFails \/ RunnerOnline \/ AssignJob \/ JobDone
    \/ PodStarts \/ PodReady \/ PodSucceeds \/ ContainerCrash \/ PodFails
    \/ TerminatePod \/ EvictPod \/ GCPod \/ GCSecret \/ TokenAges

=============================================================================
