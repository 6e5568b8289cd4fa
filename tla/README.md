# A TLA+ model of octorun

octorun runs self-hosted Github Actions runners on Kubernetes. A `Runner` object
stands for one ephemeral runner, a `RunnerSet` keeps a number of them. This
directory holds TLA+ modules that model the code, TLC configurations that check
them on small instances, and proofs checked by TLAPS.

There are two models. The first covers the life of one Runner: its controller,
the write-back helper, the Pod with its registration at Github, and the webhook
handler. The second covers a RunnerSet: its controller, the revision history, the
admission webhooks, the older API version and the metrics. What the second one
assumes of a Runner is the abstract specification `RunnerLife`, which the first
one is shown to implement.

## Inventory

| Part | State | Operations | Talks to |
|---|---|---|---|
| Runner controller (`controllers/runner_controller.go`) | nothing of its own; one work queue | `Reconcile`, `reconcileStatus` | API server (reads through informer caches), Github API, exec into the Pod |
| Patcher (`util/patch`) | the object as read | `NewPatcher`, `Patch` | API server: up to two merge patches |
| Token annotations (`util/annotations`) | expiry time on the Secret | `AnnotateTokenExpires`, `IsTokenExpired` | the clock |
| Runner Pod (`runner/entrypoint.sh`) | `.runner` file with the agent id | register, run one job, clean up on TERM | Github, kubelet |
| Webhook handler (`hooks/github_hook.go`) | index of Runners by name and id | `processWorkflowJobEvent` | annotates the Runner, which wakes its controller |
| RunnerSet controller (`controllers/runnerset_controller.go`) | status counters, revision names | `findRunners`, `adoptRunner`, `syncRunners` | API server, revision history |
| Deletion priority (`util/sortable`) | - | sort | RunnerSet controller |
| Revision history (`pkg/revision`) | ControllerRevisions | `MakeHistory`, `TruncateHistory` | RunnerSet controller |
| Admission webhooks (`webhooks`) | - | default, validate | API server |
| API conversion (`api/v1alpha1`) | - | convert to and from v1alpha2 | API server |
| State metrics (`metrics`, `pkg/statemetrics`) | - | scrape | caches |
| Github client, webhook server, remote exec, `main` | connections, wiring | I/O | - |

What is hard in the Runner part, and what makes it correct:

* Every read is from a cache. A reconcile may work on a Runner that has been
  deleted and created again under the same name, and it deletes by name. It must
  spare the Runner that has the name now (`SparesLiveRunner`).
* The teardown is several calls, each of which can fail or be the last one
  before a crash. The finalizer must go last (`TeardownBeforeRelease`).
* Each reconcile ends in two patches, and the answer to the first is decoded
  over the status the second is to write.
* Github, the Pod and the Runner change independently. The controller learns of
  the changes by Pod and Runner events, by a webhook that is delivered once, and
  by a few requeues. None may be missed (`QuiescentStatus`).
* Tokens expire, containers restart and register again, Pods are evicted.

And in the RunnerSet part:

* Runners and revisions are counted in caches, and nothing waits for what was just
  written to appear there. Too many Runners, or a second revision, may be made;
  the set must still settle (`QuiescentSet`, `Converges`).
* Calls are issued one by one and may fail half way; the manager may crash before
  the status is stored.
* Runners come and go while the set is read: deleted by users, adopted by another
  controller, finished, or gone before the informer saw them.
* A scale-down must not take a busy Runner while another would do
  (`ActiveScaledDownLast`), a deleted set must not replace what is taken from it
  (`SetDeletionCompletes`).
* The history must know a template that comes back, keep what is in use, and end
  the search for a free name (`RollbackIsNewest`, `UniqueRevisions`,
  `TruncationKeepsUsed`, `NeverPanics`).

The hazards, with the line where each bites and the properties that cover it,
are in `PROJECT.json`.

## Modules of the Runner model

`ClusterState` holds the shared state: one Runner name, its Pod and Secret on
the API server, their cached copies, Github's registrations, and the reconcile
in progress. The three modules of actions extend it, and `RunnerSystem`
composes them.

| Module | Models |
|---|---|
| `ClusterState` | variables, types, API server writes, `IsTokenExpired` |
| `Patcher` | what a merge patch writes and what its answer overwrites |
| `RunnerController` | `Reconcile`, `reconcileStatus` and the deferred `Patch` |
| `RunnerPod` | `entrypoint.sh`; kubelet, autoscaler, garbage collector, Github, clock |
| `GithubHook` | `workflow_job` deliveries |
| `RunnerSystem` | users, informers, manager restarts; `Spec`, fairness, properties |
| `RunnerLife` | the abstract specification of a Runner, for its owner |
| `RunnerSystemProofs` | proofs about types and teardown |
| `RunnerIncarnationProofs` | proofs about reused names |
| `RunnerPodProofs` | proofs about the token, the eviction annotation and `Complete` |
| `RunnerLifeProofs` | proofs that `RunnerSystem` implements `RunnerLife`, and about the status at rest |

How the state and the actions correspond to the code:

* **A reconcile is cut at every call that leaves the process.** `pc` names the
  call that comes next, so anything may happen between two calls. `before` is
  the Patcher's copy, `mem` the Go object `runner`, and `Return` leads to the
  deferred patch with `requeue` saying whether the result is an error or a
  requeue. There is one worker (the default `MaxConcurrentReconciles`) in one
  manager (`--leader-elect` in `config/manager/manager.yaml`).
* **Caches.** `r.Get` and the Get in `CreateOrUpdate` read `runnerCache`,
  `podCache`, `secretCache`. `SyncRunner` and `SyncPod` update a cache and
  queue the key (`For`, `Owns`); Secrets are cached and not watched. `stale`
  says which copies are behind; it replaces resource versions, which only serve
  to be compared. A Create is refused when the object exists, an Update when the
  cached copy is behind, a merge patch only when there is no object.
* **Incarnations.** `uid` grows each time the name is created. Owner references
  are the `owner` of Pod and Secret. `SetControllerReference` compares owners by
  kind and name, so it takes over the objects of an earlier incarnation.
* **The two patches.** `PatchMeta` writes the finalizer, `spec.id` and
  `spec.os` that differ from `before`, then decodes the answer into `mem`.
  `PatchStatus` follows if the status differed before the first patch. It then
  carries the resource version of that answer (`locked`), because the status
  patch is computed against the object as it was read.
* **Tokens** are fresh, expiring (within the five minutes of `IsTokenExpired`) or
  expired. A reconcile takes less than five minutes, so a fresh token ages only
  between reconciles.
* **Github.** A registration is unused, offline, online, busy or gone. `--ephemeral`
  makes it gone after one job, `--replace` reuses or replaces an offline one.

Abstracted away: names, labels, images and the rest of the Pod template, events
and logging, condition reasons, and the times of requeues (a requeued key may be
taken at once or after anything else happened).

### RunnerLife

`RunnerLife` is what a RunnerSet or a user may rely on: a Runner exists, is held
by the controller's finalizer, is being deleted, has a phase, and is in use while
its Pod runs or its token Secret exists. A new Runner starts from nothing; a
deletion is never withdrawn; the finalizer goes only together with the Runner, and
a Runner that was held leaves only when nothing of it is in use; a phase, once
there, never disappears. `RunnerSystem` instantiates it (`Life`), mapping `held`
to the finalizer and `inUse` to Pod and Secret, and `ImplementsLife` says that
every step is a step of `LifeSpec` or a stutter. `TeardownBeforeRelease` is one of
its consequences; the refinement also rules out a status that vanishes and a
Runner that inherits anything from the one before it.

## Modules of the RunnerSet model

| Module | Models |
|---|---|
| `RunnerSetState` | variables, types and constants; writes of Runners, reads of caches |
| `Revision` | `pkg/revision/util.go`, `ListRevision`, `NextRevision` |
| `Admission` | `Default`, `ValidateCreate`, `ValidateUpdate` of the webhooks |
| `Conversion` | the round trip of a spec through v1alpha1 |
| `Metrics` | the gauges of a RunnerSet and the scrape of the collector |
| `RunnerSetController` | `Reconcile`, `findRunners`, `adoptRunner`, `syncRunners`, `MakeHistory`, `TruncateHistory`, the deferred `Patch` |
| `RunnerSetSystem` | users, Runners, another controller, garbage collector, informers, restarts; `Spec`, fairness, properties |
| `MCRunnerSet` | values of the constants |
| `RunnerSetProofs` | proof of the types, with the invariant the others rest on |
| `RunnerSetScalingProofs` | proofs about which Runners and revisions are deleted, and how many Runners are made |
| `RunnerSetHistoryProofs` | proofs about the revision history and the metrics |
| `RunnerSetRestProofs` | proofs about the set at rest |

* **A reconcile is cut at every read of a cache and every call**, as in the Runner
  model. `before` is the set as read, `st` the status in memory, `rev` the revision
  `MakeHistory` returns, `kept` the Runners `findRunners` returns, `todo` those it
  still has to adopt or delete, `left`, `victims` and `drop` what `syncRunners` and
  `TruncateHistory` have yet to create and delete. Runners that need no call are
  sorted out at once, as nothing can happen in between. The order of the list is
  not defined, so `todo` is a set.
* **Errors.** A failed adoption or deletion in `findRunners` is only logged; a
  failed creation or deletion in `syncRunners` is collected, the loop goes on and
  the reconcile is tried again; the first failed deletion of a revision ends
  `TruncateHistory`. Whatever is returned, the deferred patch runs.
* **The patch** changes the status only, so it is one merge patch, field by field
  against the copy that was read (`MergeField` of `Patcher`).
* **Caches.** Watch events come in order, so the cached Runners are what the server
  had at some moment. `owed` says that an event of a Runner this set owns, or
  owned, is on its way; it wakes the controller even if the Runner was never seen
  in the cache. Revisions are cached and not watched, orphans wake nobody.
  A read of a cache that is behind counts as an event of kind `lag`, so a run can
  leave it out ("while the caches keep up") or bound it with the other events.
* **Names.** `Names` are what `generateName` can hand out; when they are used up
  the API server refuses the creation, as a quota does.
* **Runners** report any phase at any time (`ReportPhase`), and one that is being
  deleted goes away (`RunnerGone`): `RunnerLife` promises no more, and
  `DeletionCompletes` of the Runner model promises the latter. A Runner without a
  phase has no finalizer yet, and its deletion may be immediate.
* **Templates** are told apart by labels, by whether the URL is Github's, by the
  eviction policy, which v1alpha1 does not know, and by a version for the rest.
* **The hash** is a constant operator of template and collision count. `Distinct`
  never collides, `Colliding` does for two templates. The collision count is nil
  or 0, as the loop that would raise it never ends.
* `RoleDeletesRevisions` says whether the manager may delete ControllerRevisions.
  The role shipped with the repository (`runnerset_controller.go:57`) does not
  allow it.

Abstracted away: `status.selector`, a selector with `matchExpressions` (with which
`findRunners` returns an error each time), annotations, events, logging, and
errors of a read from a cache.

## Runs

No run checks for deadlock: a Runner or a set that is left alone legitimately
comes to rest.

### The Runner

These runs use module `RunnerSystem`. Bounds: `MaxUid` incarnations of the
name, `MaxRegistrations` registrations; `Faults` selects what may go wrong.
`MaxUid = 2` is the smallest value with a reused name; a third incarnation only
repeats the relation between two, and the proofs cover any number.
One registration suffices except where a container registers anew.

| Run | uid, reg. | Faults | Checks |
|---|---|---|---|
| `RunnerLifecycle` | 1, 1 | crash, expiry | types, `QuiescentStatus`, teardown, usable tokens, protection from eviction, `CompleteIsFinal`, `ImplementsLife` |
| `RunnerRecreated` | 2, 0 | call, crash, expiry, evict, pod | `IncarnationOrder`, `SparesLiveRunner`, teardown, `QuiescentStatus`, `ImplementsLife` for a name used twice. Without registrations no Pod becomes ready, on which none of these depends |
| `RunnerApiFailures` | 1, 1 | call, denied, hook | `ReleaseOrder`, teardown |
| `RunnerReregistered` | 1, 2 | container, hook | `LostDeliveryHidesJobOnly`, when a container returns, perhaps under another id, and deliveries get lost: at rest the status is right, or a Runner with a job is still Idle |
| `RunnerLiveness` | 1, 1 | expiry, hook | `DeletionCompletes`, `RunnerComesUp` (or the token in the Secret expires: Github's clock may always win), `ExpiredTokenIsReplaced` |

The policy is IfNotActive, except in `RunnerReregistered` and `RunnerLiveness`,
which have nothing to do with eviction and use Never. They have the most states
(4.1 million, and 260 thousand with three temporal properties) and take a few
minutes; the others take a minute or so.

`QuiescentStatus` is the central one: when the queue is empty, no reconcile or
webhook is under way and the watched caches are current, a live Runner has its
finalizer, its own Pod, and a phase, id and Online condition that agree with Pod
and Github. It holds in every order of events, although the Patcher can
lose a status: its own write of `spec.id` wakes the controller again. A lost
delivery breaks it, as the handler does not retry; `LostDeliveryHidesJobOnly` says
that Idle instead of Active is then all that can be wrong.

Fairness (`FairSpec`): the worker takes queued keys and goes on with a reconcile;
informers deliver; kubelet, garbage collector and container make progress; a job
ends; the webhook handler takes what Github delivers, though a delivery may be
lost. controller-runtime and Kubernetes retry each of these until they succeed.
Nothing is assumed of users, of Github's choice to give a job, of faults or of
the clock.

### The RunnerSet

These runs use module `MCRunnerSet`. `Events` selects what may happen from outside
and `MaxEvents` bounds how often, all kinds together; everything the controller,
its informers and the garbage collector do is unbounded.

| Run | Names | Runners asked for | Events | Checks |
|---|---|---|---|---|
| `RunnerSetScaling` | 2 | 1, 2 | 3 of scale, phase, remove, orphan, adopt, delete, lag, call, crash | types, `QuiescentSet`, `ActiveScaledDownLast` |
| `RunnerSetRollout` | 2 | 1 | 3 of template, strategy, v1alpha1, phase; colliding hash, role may delete | `RollbackIsNewest`, `NoOvershoot`, `UniqueRevisions`, `NeverPanics`, `RatioSane`, `TruncationKeepsUsed` |
| `RunnerSetLiveness` | 2 | 0, 2 | 2 of template, scale, delete, phase, lag, call, crash | `Converges`, `SetDeletionCompletes` |

Two names are enough for a choice between Runners in a scale-down and for a Runner
too many next to one asked for. A scale-down of several that fails between two
deletions is beyond them (three names are out of TLC's reach with these events) and
left to the proof of `ActiveScaledDownLast`. `RunnerSetLiveness` scales by two, so
that a loop of creations or deletions fails in the middle. Three events are the shortest way to
a template that comes back with a change in between (`RunnerSetRollout`), or to a
fault while the set recovers from another one. An update of a revision that meets
a conflict takes more: templates that change and return twice behind a lagging
cache. That `QuiescentSet` holds from there on is shown by its proof, not by a run.
Names are interchangeable (`NameSymmetry`, not used with liveness), and so are
templates that differ in their version only (`FirstFairSpec`).

`QuiescentSet` is to the set what `QuiescentStatus` is to the Runner: when no
reconcile, event or deletion is under way, the set has exactly the Runners it asks
for, the status counts them, and it names the revision of the template. It
depends on every wake-up: on `owed` events, on errors that are retried, on the
controller's own status writes.

`NoOvershoot`, `UniqueRevisions`, `NeverPanics`, `RatioSane` and `RollbackIsNewest`
hold while the caches keep up, and only then. With one lagging read the controller
creates Runners it has created already (later reconciles delete the surplus), makes
a second revision of the same template (the hash changes once `collisionCount` is
stored), panics because the current revision is not listed yet (the restarted
manager goes on), or stores counters of two reconciles side by side. `QuiescentSet`
and `Converges` include lagging reads and show that the set recovers from these.
From the last one it does not: after several changes of the template the cached
revision in use looks like the newest although another one has been given a higher
number meanwhile, or `RetryOnConflict` gives up a number that is already set in
memory but not stored. Nothing wakes the controller then; Runners and status
are right, the order of the history is not.

Fairness (`FairSpec`): the worker goes on with a reconcile and takes queued keys,
informers deliver, a manager that panicked is started again by its Deployment, the
garbage collector works, and a Runner that is being deleted goes away, which is
`DeletionCompletes`. Nothing is assumed of users, Runners' phases or faults; there
are finitely many of those, so `Converges` is about the time after the last one.
`ReconcileStep` as a whole is weakly fair: there is one worker, and it has one
step to take at a time.

### What the code does not keep

Four runs expect a violation. Each checks what a comment, document or test of the
repository says.

| Run | Statement | What happens |
|---|---|---|
| `ActiveRunnerTornDown` | "If the runner is in the active phase wait until finish its job." (`runner_controller.go:105`) | the deletion reaches the cache before the Active status does, and the busy Pod is deleted |
| `StatusPatchLost` | a Status Patch is issued when "the beforeStatus and afterStatus copies differ" (`patch.go:111`), and the object is "Expected after to be the same after patching" (`patch_test.go:97`) | the answer to the first patch replaces the status the second was to store. The test changes one part at a time, and compares with the object that was overwritten |
| `TemplateEscapesSelector` | a Runner is created "when actual owned runners is less than desired runners" (`docs/concepts/runnerset.md:25`) | `ValidateUpdate` admits a template without a selected label; its Runners are not found again and each reconcile makes more |
| `CollisionNeverEnds` | "a collision avoidance mechanism when it needs to create the name" (`runnerset_types.go:107`) | the loop of `MakeHistory` never computes another name and keeps the only worker for ever |

Observations without a run of their own:

* Active is not left for Complete only, as `docs/concepts/runner.md:29` draws it:
  once the job is done Github answers 404, and the deferred patch stores Pending
  until the Pod has succeeded.
* `ActiveIsProtected` holds without failed calls (`RunnerLifecycle`); when the
  annotation of the Pod fails (`runner_controller.go:294`) the deferred patch
  stores Active all the same.
* `CompleteIsFinal` likewise holds only as long as no finished Pod is taken away: if
  the autoscaler removes one that still says `safe-to-evict: "true"`, the next
  reconcile makes a new Pod and the Runner is Pending again.
* Although `runner_controller.go:207` says that the Pod is never updated,
  `SetControllerReference` gives the Pod of an earlier Runner of the same name a
  new owner; `RunnerRecreated` shows that the new Runner still ends up with a Pod
  of its own.
* With the shipped role no revision is ever deleted: the history grows beyond
  `revisionHistoryLimit` ("The maximum number of revision history to keep",
  `runnerset_types.go:74`), and every reconcile beyond it ends in an error. Runners
  and status settle all the same (`RunnerSetLiveness`).
* Adoption is a merge patch without a resource version: it takes a Runner that
  another controller adopted after the list was read.
* A client of v1alpha1 that scales a set resets its strategy, history limit and
  eviction policy, and the last one makes a new revision.
* The active ratio of a set without Runners is `int(NaN)`; `RatioSane` leaves that
  case out.

## Proofs

The runs check small instances; TLAPS proves the following for every value of the
constants. Each proof is an invariant, shown inductive action by action, from which
the property follows. What each assumes of the constants is named with it.

### The Runner

For every `MaxUid`, `MaxRegistrations`, policy and set of faults, from
`ConstantsAssumption` alone:

1. `TypeCorrect`: `TypeOK` is inductive, one lemma per action.
2. `ReleaseOrderHolds`: `ReleaseOrder` with `TypeOK` is inductive. It says that the
   finalizer stays in memory until `DeleteSecret`, that at `deleteSecret` the Pod
   is released, and that both are still released when the patch is about to
   remove the finalizer. The last two need that nobody else creates a Pod or a
   Secret: only the one reconcile in progress does.
3. `TeardownIsComplete`: `TeardownBeforeRelease`. A Runner with the finalizer can
   leave only by `PatchMeta`, and only if the finalizer was removed in memory.
4. `IncarnationOrderHolds`: `IncarnationOrder` on top of both. Owners of Pod and
   Secret never exceed the uid in the cache, the cache never the server, and a
   deletion seen in a cache or by a reconcile is pending or over. The
   strengthening that makes it inductive: if it is over, the Runner that has the
   name now has no finalizer yet, because only a reconcile that read it could
   have added one, and that reconcile would have needed a newer cache.
5. `LiveRunnerIsSpared`: `SparesLiveRunner` follows step by step.
6. `SystemImplementsLife`: `ImplementsLife`. Initial states map to initial states,
   and every action to one of `LifeNext` or a stutter. Besides the order of
   incarnations it needs that a reconcile never has an empty phase to write over
   one it read (`PhaseNotEmptied`), which is about what `DecodeField` does to
   fields the server leaves out.
7. `PodFindsItsToken`: `PodStartsWithUsableToken`. The controller decides from the
   cached Secret, so the invariant (`TokenKnown`) is about when that copy can be
   trusted: the copy of the Secret of a Runner that exists is wrong only about a
   token that has become fresher. It is kept because only the deletion branch
   deletes a Secret or stores a useless token, and it works on a Runner the cache
   already knows to be deleted (`SeenDeleting`).

The others have hypotheses; TLC finds a counterexample if any of them is dropped.

8. `ActiveMeansShielded`: `ActiveIsProtected`, if no call fails (`CallsAnswered`).
   When the annotation fails, the deferred patch still stores `Active`. The
   invariant (`ShieldFirst`) covers a phase `Active` that the answer to the first
   patch brought along from the server: the second patch carries its resource
   version, so it fails if the phase changed since.
9. `CompleteStays`: `CompleteIsFinal`, if the name is used once (`NameUsedOnce`, as
   it is for the generated names of a RunnerSet) and nobody evicts the Pod
   (`NotEvicted`). The invariant (`CompleteStands`) says that a phase `Complete`
   has a lasting ground, a Pod that succeeded and that the cache knows of, or a
   deletion every later reconcile will see, and that no reconcile in progress holds
   another phase. Without the hypotheses the Pod can go while the Runner stays: a
   Runner that took over the finished Pod of an earlier one loses it to the garbage
   collector, gets a Pod of its own and is `Pending` again.
10. `StatusRightAtRest`: `QuiescentStatus`, if Github does not refuse access
    (`AccessGranted`; without it a reconcile ends for good) and deliveries arrive
    (`DeliveriesArrive`). An invariant about rest has to say, for every reason a
    status can be wrong, what is going to repair it. `StatusFacts` says it the other
    way round: as long as nothing is queued and no watched copy is behind
    (`Undisturbed`), the reconcile in progress knows the truth at each of its calls
    (`Knows`): it has the Runner that is in the cache (`AsRead`), the Pod it found is
    the Pod there is, the ID is the agent's, what it is about to write is true. Every
    change of Runner or Pod ends that state. A status patch does so as well, so only a
    reconcile that has nothing to write ends at rest.
11. `LostDeliveryCostsActiveOnly`: `LostDeliveryHidesJobOnly`, from `AccessGranted`
    alone and the same invariant.

### The RunnerSet

For every set of names, templates, counts, strategies and limits, every hash and
any number of events, from `SetConstantsAssumption` alone:

1. `SetTypeCorrect`: `SetTypeOK`. What a reconcile stores was computed steps before
   it is written, so `SetInv` also says which variables are set at which step, that
   a set is only reconciled if it was read, that a revision name stands for one
   revision, and that stored templates are defaulted ones.
2. `ActiveRunnersLast`: `ActiveScaledDownLast`, with every fault allowed. The
   invariant (`Chosen`) is that the Runners still to be deleted are part of one
   choice `RunnersToDelete` could have made. That such a choice takes an Active
   Runner only if there are more than the set asks for is a counting argument; it
   uses the cardinality theorems of the library.

One holds for caches that are behind by any amount, calls that fail anywhere and a
manager that crashes anywhere:

3. `SetRightAtRest`: `QuiescentSet`. The invariant (`RestInv`) is built like that of
   `StatusRightAtRest`. No change of a Runner of the set goes unnoticed: the cache is
   right about them unless an event is owed (`CacheKnowsOurs`). While none is owed, the
   key is not queued and no Runner is on its way out (`Undisturbed`), `findRunners`
   keeps exactly the Runners it should, `syncRunners` either finds their number right
   or does something that owes an event or is retried, and the status in memory is the
   right one (`Knows`). A status write makes the cached set differ from the stored one
   until the informer has queued the next reconcile. The part about revisions
   (`HistoryKnown`) says that the one `MakeHistory` settles on exists and has the
   template as its data, whichever of the three branches found it, also after a
   conflict whose retry wrote nothing. It takes that a revision the cache shows still
   exists (`ListedRevisionsExist`): either caches keep up, or the role may not delete
   revisions, as the shipped one. Otherwise TLC finds a set at rest whose status
   names a revision that is gone: a failed status patch, a template changed back and a
   revision cache that lags throughout, or a longer run with the lag alone. With the
   shipped role and a history beyond its limit the set does not come to rest, and
   `Converges` is what covers it.

The others hold while the caches keep up (`CachesKeepUp`: no read of a cache that is
behind), and some need more. The hypotheses are constant formulas about `Events` and
`Templates`; the run `RunnerSetRollout` satisfies them all, and each table entry is
a hypothesis without which TLC finds a counterexample, except the one in brackets.

| Theorem | Property | Also assumes | Invariant |
|---|---|---|---|
| `OneRevisionPerTemplate` | `UniqueRevisions` | templates match the selector | what was listed is still the whole history when a revision is created or bumped (`ListIsTrue`) |
| `ScrapedRatioSane` | `RatioSane` | nothing | only this reconcile writes the status, so that the merge patch writes the counters of one reconcile (`StatusIsOurs`) |
| `UsedRevisionsSurvive` | `TruncationKeepsUsed` | calls succeed, [templates match] | every Runner that stays is listed, kept, or made from the new revision (`Accounted`) |
| `SetNeverOvershoots` | `NoOvershoot` | calls succeed, templates match, no orphans | Runners that stay and Runners still to be made are together within the count that was read (`Room`) |
| `RolledBackRevisionNewest` | `RollbackIsNewest` | templates match the selector | as for `SetRightAtRest`; a revision about to be written has a number above all others, and the one settled on comes last (`RevisionFound`) |
| `HistoryNeverPanics` | `NeverPanics` | calls succeed, templates match, no crash | the current revision, in memory and, between reconciles, in the stored status, is one of the history's (`CurrentExists`), and truncation spares it (`DropSpares`) |

The brackets: with templates that do not match, `Accounted` is false, but whether the
property is then violated depends on two templates sharing a revision name.

`HistoryNeverPanics` shows a weakness. A reconcile that moves `status.currentRevision` on may
truncate the revision it moved away from before the deferred patch stores the move. If
the manager dies or the patch fails in between, the stored status names a revision
that is gone, and every reconcile from then on dereferences the nil pointer of
`revision.go:150`. The shipped role cannot delete revisions, which hides it.

### Checked by TLC only

* Liveness (`DeletionCompletes`, `RunnerComesUp`, `ExpiredTokenIsReplaced`, `Converges`,
  `SetDeletionCompletes`): the prover does not do fairness. Every other property of
  a passing run is also a theorem.

## Not modelled

* The Github client, the webhook server and the exec stream: pure I/O; their
  outcomes (an answer, a refusal, a failure, a lost delivery) are in the model.
* The docker daemon part of `entrypoint.sh`, flags and wiring in `main.go`.
* Deep copies and the conversion of Runners and lists: generated code without
  control flow. A Runner's spec is immutable, so its conversion loses nothing that
  could be written back.
* `RunnerWebhook.Default` and `ValidateUpdate`: labels, group and work directory of
  a Runner, and the immutability of its spec; nothing in the two models depends
  on them.
* The gauges of a Runner, which restate its status.
* Several RunnerSets at once: `OtherAdopts` is all that a second one can do to the
  Runners of the first.
