--------------------------- MODULE RunnerSetSystem ---------------------------
(***************************************************************************)
(* One RunnerSet with everything that acts on it: users of both API        *)
(* versions behind the admission webhooks, the RunnerSet controller and    *)
(* its informers, the Runners with their own controller, another           *)
(* controller with the same selector, and the garbage collector.           *)
(***************************************************************************)
EXTENDS RunnerSetController, Conversion, Metrics

\* the set has just been created
Init ==
    /\ \E t \in Templates, n \in Counts, y \in Strategies, l \in Limits :
          LET s == Default([runners |-> n, template |-> t, strategy |-> y, limit |-> l])
          IN ValidateCreate(s) /\ set = NewSet(s)
    /\ setCache = NoSet
    /\ runners = [n \in Names |-> NoRunner] /\ runnerCache = [n \in Names |-> NoRunner]
    /\ revs = {} /\ revCache = {}
    /\ owed = FALSE /\ queued = FALSE /\ events = 0
    /\ pc = "idle" /\ before = NoSet /\ st = NewStatus /\ listed = {} /\ rev = NoRevision
    /\ todo = NoneListed /\ kept = NoneListed
    /\ left = 0 /\ victims = {} /\ drop = {} /\ requeue = FALSE

-----------------------------------------------------------------------------
(* Users.                                                                  *)

\* s replaces the spec if the webhooks let it in
EditSpec(s) ==
    /\ set.alive /\ s # set.spec
    /\ ValidateUpdate(set.spec, s)
    /\ set' = [set EXCEPT !.spec = s]
    /\ UNCHANGED <<runners, owed, revs, caches, queued, worker>>

EditSet ==
    \/ /\ Happens("scale")
       /\ \E n \in Counts : EditSpec(Default([set.spec EXCEPT !.runners = n]))
    \/ /\ Happens("template")
       /\ \E t \in Templates : EditSpec(Default([set.spec EXCEPT !.template = t]))
    \/ /\ Happens("strategy")
       /\ \E y \in Strategies : EditSpec(Default([set.spec EXCEPT !.strategy = y]))
    \/ /\ Happens("v1alpha1")
       /\ \E n \in Counts : EditSpec(Default(ScaledByV1alpha1(set.spec, n)))

\* in the foreground the set stays until its Runners are gone
DeleteSet ==
    /\ set.alive /\ ~set.deleting
    /\ Happens("delete")
    /\ set' \in {NoSet, [set EXCEPT !.deleting = TRUE]}
    /\ UNCHANGED <<runners, owed, revs, caches, queued, worker>>

\* a user deletes a Runner, or creates one the selector matches
RemoveRunner(n) ==
    /\ runners[n].exists /\ ~runners[n].deleting
    /\ Happens("remove")
    /\ Deleted(n)
    /\ UNCHANGED <<set, revs, caches, queued, worker>>

CreateOrphan(n) ==
    /\ n \in FreshNames
    /\ Happens("orphan")
    /\ WriteRunner(n, [NoRunner EXCEPT !.exists = TRUE, !.match = TRUE])
    /\ UNCHANGED <<set, revs, caches, queued, worker>>

OtherAdopts(n) ==
    /\ runners[n].exists /\ runners[n].owner = "none"
    /\ Happens("adopt")
    /\ WriteRunner(n, [runners[n] EXCEPT !.owner = "other"])
    /\ UNCHANGED <<set, revs, caches, queued, worker>>

-----------------------------------------------------------------------------
(* The Runners, as RunnerLife promises, and the garbage collector.         *)

\* the deferred patch of a Runner's own controller stores another phase
ReportPhase(n) ==
    /\ runners[n].exists
    /\ Happens("phase")
    /\ \E p \in Phases \ {runners[n].phase} :
          WriteRunner(n, [runners[n] EXCEPT !.phase = p])
    /\ UNCHANGED <<set, revs, caches, queued, worker>>

RunnerGone(n) ==
    /\ runners[n].exists /\ runners[n].deleting
    /\ WriteRunner(n, NoRunner)
    /\ UNCHANGED <<set, revs, caches, queued, events, worker>>

Owned == {n \in Names : runners[n].exists /\ runners[n].owner = "us"}

CollectRunner(n) ==
    /\ n \in Owned /\ ~runners[n].deleting
    /\ ~set.alive \/ set.deleting
    /\ Deleted(n)
    /\ UNCHANGED <<set, revs, caches, queued, events, worker>>

CollectSet ==
    /\ set.deleting /\ Owned = {}
    /\ set' = NoSet
    /\ UNCHANGED <<runners, owed, revs, caches, queued, events, worker>>

-----------------------------------------------------------------------------
(* SetupWithManager: For(RunnerSet) and Owns(Runner).  Revisions are       *)
(* cached, not watched.                                                    *)

SyncSet ==
    /\ setCache # set
    /\ setCache' = set
    /\ queued' = TRUE
    /\ UNCHANGED <<server, runnerCache, revCache, events, worker>>

\* Watch events arrive in the order of the writes, so the cache is what the
\* server had at some moment.  An event of a Runner wakes the controller it
\* had or has, and none is lost: not that of a Runner gone before it was seen.
SyncRunnerCache ==
    /\ owed \/ runnerCache # runners
    /\ runnerCache' = runners
    /\ queued' = (queued \/ owed) /\ owed' = FALSE
    /\ UNCHANGED <<set, runners, revs, setCache, revCache, events, worker>>

SyncRevisions ==
    /\ revCache # revs
    /\ revCache' = revs
    /\ UNCHANGED <<server, setCache, runnerCache, queued, events, worker>>

\* the manager dies, or has panicked, and is started again
Restart ==
    /\ setCache' = set /\ runnerCache' = runners /\ revCache' = revs
    /\ owed' = FALSE
    /\ Done(set.alive)
    /\ UNCHANGED <<set, runners, revs>>

RestartManager ==
    \/ pc \notin {"idle", "panic"} /\ Happens("crash") /\ Restart
    \/ pc = "panic" /\ Restart /\ UNCHANGED events

-----------------------------------------------------------------------------
Runners == \E n \in Names : ReportPhase(n) \/ RunnerGone(n) \/ CollectRunner(n)
Users   == EditSet \/ DeleteSet
           \/ \E n \in Names : RemoveRunner(n) \/ CreateOrphan(n) \/ OtherAdopts(n)
Informers == SyncSet \/ SyncRunnerCache \/ SyncRevisions

Next == ReconcileStep \/ Users \/ Runners \/ CollectSet \/ Informers \/ RestartManager

Spec == Init /\ [][Next]_vars

(***************************************************************************)
(* Fairness.  The worker and the informers make progress, a manager that   *)
(* panicked is started again, the garbage collector works, and a Runner    *)
(* that is being deleted goes away.  Users, Runners and faults owe         *)
(* nothing.                                                                *)
(***************************************************************************)
Fairness ==
    /\ WF_vars(ReconcileStep) /\ WF_vars(pc = "panic" /\ RestartManager)
    /\ WF_vars(SyncSet) /\ WF_vars(SyncRunnerCache) /\ WF_vars(SyncRevisions)
    /\ WF_vars(CollectSet)
    /\ \A n \in Names : WF_vars(RunnerGone(n)) /\ WF_vars(CollectRunner(n))

FairSpec == Spec /\ Fairness

-----------------------------------------------------------------------------
\* Every object, cached copy and variable of the reconcile has its type.
SetTypeOK ==
    /\ set \in SetObject \cup {NoSet}
    /\ setCache \in SetObject \cup {NoSet}
    /\ runners \in [Names -> RunnerCopy] /\ runnerCache \in [Names -> RunnerCopy]
    /\ revs \subseteq RevisionObject /\ revCache \subseteq RevisionObject
    /\ owed \in BOOLEAN /\ queued \in BOOLEAN /\ events \in 0..MaxEvents /\ requeue \in BOOLEAN
    /\ pc \in Steps
    /\ before \in SetObject \cup {NoSet} /\ st \in SetStatus
    /\ listed \subseteq RevisionObject /\ rev \in RevisionObject \cup {NoRevision}
    /\ DOMAIN todo \subseteq Names /\ DOMAIN kept \subseteq Names
    /\ left \in Nat /\ victims \subseteq Names /\ drop \subseteq RevName

\* Nothing is under way that could still wake the controller.
Quiescent == /\ pc = "idle" /\ ~queued /\ ~owed
             /\ setCache = set /\ runnerCache = runners /\ revCache = revs
             /\ \A n \in Names : ~runners[n].deleting

\* the Runners findRunners would keep for RunnerSet s, knowing everything
Counted(s) == {n \in Owned : /\ runners[n].match
                             /\ ~Discarded(runners[n], s.spec.strategy, s.status.next)}

\* the revisions of the template that the status names as the next one
NextRevisions(s) == {r \in revs : r.name = s.status.next /\ r.data = s.spec.template}

\* the set has what its spec asks for, and its status says so
Settled(s) ==
    LET phase(p) == Cardinality({n \in Counted(s) : runners[n].phase = p})
    IN /\ Cardinality(Counted(s)) = s.spec.runners
       /\ s.status.runners = s.spec.runners
       /\ s.status.idle = phase("Idle") /\ s.status.active = phase("Active")
       /\ NextRevisions(s) # {}
       /\ (\A n \in Counted(s) : runners[n].rev = s.status.next)
             => s.status.current = s.status.next

\* No wake-up is lost: whenever the controller has nothing left to do, the
\* set has as many Runners as it asks for, its status counts them rightly and
\* names the revision of its template, although reconciles read caches that
\* are behind, calls fail half way, a conflict on a revision is not resolved
\* (revision.go:89) and the manager may crash.  With a role that may delete
\* revisions, caches that are behind may name one that is gone.
QuiescentSet == Quiescent /\ set.alive /\ ~set.deleting => Settled(set)

\* "we will roll back by incrementing the Revision of the equivalent revision"
\* (revision.go:86)  While the caches keep up, the set at rest is as in
\* QuiescentSet, and the revision of its template has the highest number,
\* however often templates came and went.
RollbackIsNewest ==
    Quiescent /\ set.alive /\ ~set.deleting
        => Settled(set) /\ \E r \in NextRevisions(set) : \A q \in revs : ~Less(r, q)

\* A scale-down takes an Active Runner only when the reconcile found more
\* Active Runners than the set asks for (sortable.RunnersToDelete), also
\* when an earlier attempt failed half way.
ActiveScaledDownLast ==
    [][\A n \in victims \ victims' :
         pc = "deleteRunner" /\ kept[n].phase = "Active" /\ ~kept[n].deleting
            => InPhase(kept, "Active") > before.spec.runners]_vars

\* Runners of the set that run or will run
Alive == {n \in Owned : ~runners[n].deleting /\ runners[n].phase # "Complete"}

\* "Creating a Runner when actual owned runners is less than desired
\* runners." (docs/concepts/runnerset.md:25)  The set never owns more than
\* some user asked for: no Runner is created twice, or for one that is only
\* about to be replaced.
NoOvershoot == \E c \in Counts : Cardinality(Alive) <= c

\* While the caches keep up, one template has one revision: it is found by
\* its data, although its hash changes once collisionCount is set.
UniqueRevisions == \A r, q \in revs : IsEqual(r, q) => r = q

\* While the caches keep up and no call or manager fails, MakeHistory finds
\* the revision status names: TruncateHistory spared it, and currentRevision
\* is not nil (revision.go:150).
NeverPanics == pc # "panic"

\* TruncateHistory never deletes the revision a Runner of the set was made
\* from, unless that Runner is going away.
TruncationKeepsUsed ==
    [][\A name \in NamesOf(revs) \ NamesOf(revs'), n \in Owned :
          runners[n].deleting \/ runners[n].rev # name]_vars

\* While the caches keep up, a scrape at any moment, and not only at rest,
\* finds a ratio of active Runners between 0 and 1: the counters it is
\* computed from are those of one reconcile (runnerset_metric.go:143).
RatioSane == \A g \in Scrape({setCache}) :
                g.status_runners > 0 => g.runner_active_ratio \in 0..100

\* "to maintain a set of Runners running at any given time"
\* (docs/concepts/runnerset.md:19)  Once users and faults leave it alone, the
\* set settles for good, and Runners it discarded are gone.
Converges == <>[](set.alive /\ ~set.deleting =>
                    /\ Settled(set)
                    /\ \A n \in Owned \ Counted(set) : ~runners[n].match)

\* A set that is deleted goes away with all its Runners: the controller does
\* not replace the ones the garbage collector takes.
SetDeletionCompletes == set.deleting \/ ~set.alive ~> ~set.alive /\ Owned = {}

\* "a collision avoidance mechanism when it needs to create the name for the
\* newest ControllerRevision" (api/v1alpha2/runnerset_types.go:107)
CollisionIsAvoided == pc = "create" ~> pc # "create"

=============================================================================
