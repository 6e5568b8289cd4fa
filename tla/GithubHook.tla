------------------------------ MODULE GithubHook ------------------------------
(***************************************************************************)
(* hooks/github_hook.go: the handler of workflow_job deliveries.  It looks *)
(* the Runner up in the cache by name and spec.id (the composite index)    *)
(* and annotates it, which wakes the Runner controller.  Github does not   *)
(* deliver twice, and the handler does not try twice.                      *)
(***************************************************************************)
EXTENDS ClusterState

\* the Runners the composite index lists for registration i
IndexedRunner(i) == runnerCache.alive /\ runnerCache.id = i

\* the assigned-job-at annotation is a merge patch with the current time: it
\* changes nothing the controller reads, but it is a change of the Runner
TriggerRunnerReconciliation ==
    stale' = IF runner.alive
             THEN stale \cup {"runner"} \cup (IF locked THEN {"resp"} ELSE {})
             ELSE stale

ProcessWorkflowJobEvent(i) ==
    /\ i \in hooks
    /\ hooks' = hooks \ {i}
    /\ IF IndexedRunner(i) THEN TriggerRunnerReconciliation ELSE UNCHANGED stale
    /\ UNCHANGED <<objects, caches, agent, github, queued, worker>>

\* the delivery never arrives, ServeHTTP refuses it, or listing or patching
\* fails
HookLost(i) ==
    /\ "hook" \in Faults
    /\ i \in hooks
    /\ hooks' = hooks \ {i}
    /\ UNCHANGED <<objects, caches, stale, agent, github, queued, worker>>

HookStep == \E i \in 1..MaxRegistrations : ProcessWorkflowJobEvent(i) \/ HookLost(i)

=============================================================================
