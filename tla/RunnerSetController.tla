------------------------- MODULE RunnerSetController -------------------------
(***************************************************************************)
(* controllers/runnerset_controller.go: RunnerSetReconciler.Reconcile with *)
(* pkg/revision MakeHistory and TruncateHistory.                           *)
(*                                                                         *)
(* One reconcile is cut at every read of a cache and at every call to the  *)
(* API server.  There is one worker in one elected manager, so at most one *)
(* reconcile.  Whatever it returns, the deferred Patcher.Patch runs; it    *)
(* changes the status only.  status.selector, written from the immutable   *)
(* spec.selector, is left out.                                             *)
(***************************************************************************)
EXTENDS Revision, Admission

Goto(s) == pc' = s /\ UNCHANGED requeue

\* return err, as far as the deferred patch
ReturnError == pc' = "patch" /\ requeue' = TRUE

\* the call of this step fails; nothing reached the server
CallFails == Happens("call") /\ UNCHANGED server

-----------------------------------------------------------------------------
(* Lines 69-100: the RunnerSet is read.  The deferred patch of a set that  *)
(* is being deleted has nothing to write.                                  *)

\* mutant: a set that is being deleted is reconciled like any other
ReconcileWhileDeleting ==
    /\ pc = "idle" /\ queued
    /\ queued' = FALSE
    /\ Reads(setCache, set)
    /\ \/ ~setCache.alive /\ UNCHANGED <<pc, before, st>>
       \/ /\ setCache.alive
          /\ before' = setCache
          /\ st' = setCache.status
          /\ pc' = "history"
    /\ UNCHANGED <<server, caches, listed, rev, todo, kept, left, victims, drop,
                   requeue>>

Reconcile ==
    /\ pc = "idle" /\ queued
    /\ queued' = FALSE
    /\ Reads(setCache, set)
    /\ \/ /\ ~setCache.alive \/ setCache.deleting
          /\ UNCHANGED <<pc, before, st>>
       \/ /\ setCache.alive /\ ~setCache.deleting
          /\ before' = setCache
          /\ st' = setCache.status
          /\ pc' = "history"
    /\ UNCHANGED <<server, caches, listed, rev, todo, kept, left, victims, drop,
                   requeue>>

-----------------------------------------------------------------------------
(* MakeHistory.                                                            *)

\* the end of MakeHistory: a current revision that was not listed is a nil
\* pointer; otherwise the names go into the status in memory
Settle(name, revisions) ==
    \/ /\ st.current \notin NamesOf(revisions) \cup {NoName}
       /\ Goto("panic")
       /\ UNCHANGED st
    \/ /\ st.current \in NamesOf(revisions) \cup {NoName}
       /\ st' = [st EXCEPT !.current = IF @ = NoName THEN name ELSE @,
                           !.next = name, !.collisions = "0"]
       /\ Goto("find")

\* the revisions are listed; the template's one is the last of them, an
\* earlier one, or none
MakeHistory ==
    /\ pc = "history"
    /\ Reads(revCache, revs)
    /\ LET revisions == ListRevision
           next  == NextRevision(before.spec, st.collisions, revisions)
           equal == FindEqual(revisions, next)
       IN /\ listed' = revisions
          /\ \/ /\ equal # {} /\ IsEqual(Latest(revisions), Latest(equal))
                /\ rev' = Latest(revisions)
                /\ Settle(Latest(revisions).name, revisions)
             \/ /\ equal # {} /\ ~IsEqual(Latest(revisions), Latest(equal))
                /\ rev' = [Latest(equal) EXCEPT !.number = next.number]
                /\ Goto("bump")
                /\ UNCHANGED st
             \/ /\ equal = {}
                /\ rev' = next
                /\ Goto("create")
                /\ UNCHANGED st
    /\ UNCHANGED <<server, caches, queued, before, todo, kept, left, victims, drop>>

\* mutant: the number is raised in memory only
BumpRevisionInMemory ==
    /\ pc = "bump"
    /\ Settle(rev.name, listed)
    /\ UNCHANGED <<server, caches, events, queued, before, listed, rev, todo, kept,
                   left, victims, drop>>

\* Update of the copy that was listed.  A conflict is retried, but the retry
\* finds the new number already in memory and returns nil.
BumpRevision ==
    LET onServer == {r \in revs : r.name = rev.name}
    IN /\ pc = "bump"
       /\ \/ /\ onServer # {}
             /\ revs' = IF onServer \subseteq listed
                        THEN (revs \ onServer) \cup {rev} ELSE revs
             /\ Settle(rev.name, listed)
             /\ UNCHANGED <<set, runners, owed, events>>
          \/ /\ IF onServer = {} THEN UNCHANGED <<server, events>> ELSE CallFails
             /\ ReturnError /\ UNCHANGED st
       /\ UNCHANGED <<caches, queued, before, listed, rev, todo, kept, left,
                      victims, drop>>

\* Create, and on AlreadyExists a Get from the cache.  When that revision has
\* other data the loop goes round again with the same name.
CreateRevision ==
    LET onServer == {r \in revs : r.name = rev.name}
        inCache  == {r \in revCache : r.name = rev.name}
    IN /\ pc = "create"
       /\ \/ /\ onServer = {}
             /\ revs' = revs \cup {[rev EXCEPT !.born = Born(revs)]}
             /\ Settle(rev.name, listed)
             /\ UNCHANGED <<set, runners, owed, events>>
          \/ /\ onServer # {} /\ \E r \in inCache : IsEqual(r, rev)
             /\ Settle(rev.name, listed)
             /\ Reads(revCache, revs) /\ UNCHANGED server
          \/ /\ onServer # {} /\ \E r \in inCache : ~IsEqual(r, rev)
             /\ Reads(revCache, revs) /\ UNCHANGED <<server, pc, requeue, st>>
          \/ /\ onServer # {} /\ inCache = {}
             /\ ReturnError
             /\ Reads(revCache, revs) /\ UNCHANGED <<server, st>>
          \/ CallFails /\ ReturnError /\ UNCHANGED st
       /\ UNCHANGED <<caches, queued, before, listed, rev, todo, kept, left,
                      victims, drop>>

-----------------------------------------------------------------------------
(* findRunners.                                                            *)

\* an Idle Runner of another revision goes in a rolling update, a Complete
\* one always; next is the name of the revision to be used
Discarded(r, strategy, next) ==
    \/ r.phase = "Idle" /\ strategy = "RollingUpdate" /\ r.rev # next
    \/ r.phase = "Complete"

MustGo(r) == Discarded(r, before.spec.strategy, rev.name)

\* mutant: a Runner counts once it has been heard of
FindRunnersHeardOf ==
    LET found == {n \in Names : /\ runnerCache[n].exists /\ runnerCache[n].match
                                /\ runnerCache[n].owner # "other"
                                /\ runnerCache[n].phase # "Pending"}
        plain == {n \in found : runnerCache[n].owner = "us" /\ ~MustGo(runnerCache[n])}
    IN /\ pc = "find"
       /\ Reads(runnerCache, runners)
       /\ kept' = [n \in plain |-> runnerCache[n]]
       /\ todo' = [n \in found \ plain |-> runnerCache[n]]
       /\ listed' = {}
       /\ Goto("examine")
       /\ UNCHANGED <<server, caches, queued, before, st, rev, left, victims, drop>>

\* the Runners the selector finds in the cache, without those of others;
\* what can be kept without a call is kept at once
FindRunners ==
    LET found == {n \in Names : /\ runnerCache[n].exists /\ runnerCache[n].match
                                /\ runnerCache[n].owner # "other"}
        plain == {n \in found : runnerCache[n].owner = "us" /\ ~MustGo(runnerCache[n])}
    IN /\ pc = "find"
       /\ Reads(runnerCache, runners)
       /\ kept' = [n \in plain |-> runnerCache[n]]
       /\ todo' = [n \in found \ plain |-> runnerCache[n]]
       /\ listed' = {}                       \* no longer needed
       /\ Goto("examine")
       /\ UNCHANGED <<server, caches, queued, before, st, rev, left, victims, drop>>

Without(f, n) == [m \in DOMAIN f \ {n} |-> f[m]]
With(f, n, r) == [m \in DOMAIN f \cup {n} |-> IF m = n THEN r ELSE f[m]]

\* adoptRunner: a merge patch of ownerReferences, without a resourceVersion;
\* the answer is decoded into the Runner.  An error skips the Runner.
AdoptRunner(n) ==
    /\ pc = "examine" /\ n \in DOMAIN todo
    /\ todo[n].owner = "none"
    /\ \/ /\ runners[n].exists
          /\ WriteRunner(n, [runners[n] EXCEPT !.owner = "us"])
          /\ IF MustGo(runners[n])
             THEN todo' = [todo EXCEPT ![n] = runners'[n]] /\ UNCHANGED kept
             ELSE todo' = Without(todo, n) /\ kept' = With(kept, n, runners'[n])
          /\ UNCHANGED <<set, revs, events>>
       \/ /\ ~runners[n].exists /\ UNCHANGED <<server, events>>
          /\ todo' = Without(todo, n) /\ UNCHANGED kept
       \/ /\ CallFails
          /\ todo' = Without(todo, n) /\ UNCHANGED kept
    /\ UNCHANGED <<caches, queued, before, st, listed, rev, left, victims, drop,
                   pc, requeue>>

\* Delete of a Runner: one that has no finalizer yet goes at once
Deleted(n) ==
    \/ ~runners[n].exists /\ UNCHANGED <<runners, owed>>
    \/ runners[n].exists /\ WriteRunner(n, [runners[n] EXCEPT !.deleting = TRUE])
    \/ /\ runners[n].exists /\ runners[n].phase = "Pending" /\ ~runners[n].deleting
       /\ WriteRunner(n, NoRunner)

\* a Runner that is Complete, or Idle and outdated, is deleted and not kept;
\* an error is only logged
DiscardRunner(n) ==
    /\ pc = "examine" /\ n \in DOMAIN todo
    /\ todo[n].owner = "us"
    /\ \/ Deleted(n) /\ UNCHANGED <<set, revs, events>>
       \/ CallFails
    /\ todo' = Without(todo, n)
    /\ UNCHANGED <<caches, queued, before, st, listed, rev, kept, left, victims,
                   drop, pc, requeue>>

-----------------------------------------------------------------------------
(* syncRunners.                                                            *)

\* mutant: the phase does not matter
PriorityAnyPhase(r) == IF r.deleting THEN 100 ELSE 50

\* sortable.RunnersToDelete
Priority(r) == IF r.deleting THEN 100 ELSE IF r.phase = "Active" THEN 0 ELSE 50

\* prioritizedRunnersToDelete: the sort is not stable
ToDelete(f, diff) ==
    {V \in SUBSET DOMAIN f :
        /\ Cardinality(V) = diff
        /\ \A v \in V, k \in DOMAIN f \ V : Priority(f[v]) >= Priority(f[k])}

InPhase(f, p) == Cardinality({n \in DOMAIN f : f[n].phase = p})

\* mutant: the counters go on from the stored ones
CountedStatusOnTop ==
    [st EXCEPT !.runners = Cardinality(DOMAIN kept),
               !.idle = @ + InPhase(kept, "Idle"), !.active = @ + InPhase(kept, "Active")]

\* the end of findRunners
CountedStatus ==
    [st EXCEPT !.runners = Cardinality(DOMAIN kept),
               !.idle = InPhase(kept, "Idle"), !.active = InPhase(kept, "Active")]

\* mutant: the difference keeps its sign
ToCreateSigned(want, have) == have - want

ToCreate(want, have) == want - have

\* the decision of syncRunners
SyncRunners ==
    LET have == Cardinality(DOMAIN kept)
        want == before.spec.runners
    IN /\ pc = "examine" /\ DOMAIN todo = {}
       /\ st' = CountedStatus
       /\ \/ /\ have < want
             /\ left' = ToCreate(want, have)
             /\ Goto("createRunner")
             /\ UNCHANGED victims
          \/ /\ have > want
             /\ victims' \in ToDelete(kept, have - want)
             /\ Goto("deleteRunner")
             /\ UNCHANGED left
          \/ /\ have = want
             /\ Goto("finish")
             /\ UNCHANGED <<left, victims>>
       /\ UNCHANGED <<server, caches, queued, events, before, listed, rev, todo,
                      kept, drop>>

\* a loop of calls whose errors are collected: on to s, or return them
LoopTo(s, done, failed) ==
    /\ requeue' = (requeue \/ failed)
    /\ pc' = IF ~done THEN pc ELSE IF requeue' THEN "patch" ELSE s

FreshNames == {n \in Names : /\ ~runners[n].exists /\ ~runnerCache[n].exists
                             /\ n \notin DOMAIN kept}

NewRunner == [exists |-> TRUE, owner |-> "us", phase |-> "Pending",
              deleting |-> FALSE, rev |-> rev.name,
              match |-> Selects(before.spec.template)]

\* mutant: the errors are not collected
CreateRunnerNoErrors ==
    /\ pc = "createRunner"
    /\ \/ \E n \in FreshNames :
             /\ ValidateCreateRunner(before.spec.template)
             /\ WriteRunner(n, NewRunner)
             /\ UNCHANGED <<set, revs, events>>
       \/ /\ FreshNames = {} \/ ~ValidateCreateRunner(before.spec.template)
          /\ UNCHANGED <<server, events>>
       \/ CallFails
    /\ LoopTo("finish", left = 1, FALSE)
    /\ left' = left - 1
    /\ UNCHANGED <<caches, queued, before, st, listed, rev, todo, kept, victims, drop>>

\* the API server refuses a Runner that is not valid, or one too many
CreateRunner ==
    /\ pc = "createRunner"
    /\ \/ \E n \in FreshNames :
             /\ ValidateCreateRunner(before.spec.template)
             /\ WriteRunner(n, NewRunner)
             /\ LoopTo("finish", left = 1, FALSE)
             /\ UNCHANGED <<set, revs, events>>
       \/ /\ FreshNames = {} \/ ~ValidateCreateRunner(before.spec.template)
          /\ LoopTo("finish", left = 1, TRUE)
          /\ UNCHANGED <<server, events>>
       \/ CallFails /\ LoopTo("finish", left = 1, TRUE)
    /\ left' = left - 1
    /\ UNCHANGED <<caches, queued, before, st, listed, rev, todo, kept, victims, drop>>

DeleteRunner(n) ==
    /\ pc = "deleteRunner" /\ n \in victims
    /\ \/ /\ Deleted(n) /\ UNCHANGED <<set, revs, events>>
          /\ LoopTo("finish", victims = {n}, FALSE)
       \/ CallFails /\ LoopTo("finish", victims = {n}, TRUE)
    /\ victims' = victims \ {n}
    /\ UNCHANGED <<caches, queued, before, st, listed, rev, todo, kept, left, drop>>

-----------------------------------------------------------------------------
(* Lines 116-133, TruncateHistory and the deferred patch.                  *)

CurrentRevision ==
    IF st.runners = Cardinality({n \in DOMAIN kept : kept[n].rev = rev.name})
    THEN rev.name ELSE st.current

\* mutant: only the next revision is spared
HistoriesButNext == NamesOf(ListRevision) \ {st.next}

\* revisions beyond the limit that are not in use, in no particular order
Histories == NamesOf(ListRevision)
                \ ({CurrentRevision, st.next} \cup {kept[n].rev : n \in DOMAIN kept})

Surplus == {D \in SUBSET Histories :
               Cardinality(D) + before.spec.limit = Cardinality(Histories)}

Finish ==
    /\ pc = "finish"
    /\ Reads(revCache, revs)
    /\ st' = [st EXCEPT !.current = CurrentRevision]
    /\ \/ /\ Cardinality(Histories) <= before.spec.limit
          /\ Goto("patch")
          /\ UNCHANGED drop
       \/ /\ Cardinality(Histories) > before.spec.limit
          /\ drop' \in Surplus
          /\ Goto("truncate")
    /\ UNCHANGED <<server, caches, queued, before, listed, rev, todo, kept, left,
                   victims>>

\* the first deletion that fails ends it
TruncateHistory(name) ==
    LET onServer == {r \in revs : r.name = name}
    IN /\ pc = "truncate" /\ name \in drop
       /\ \/ /\ RoleDeletesRevisions /\ onServer # {}
             /\ revs' = revs \ onServer
             /\ Goto(IF drop = {name} THEN "patch" ELSE "truncate")
             /\ UNCHANGED <<set, runners, owed, events>>
          \/ /\ ~RoleDeletesRevisions \/ onServer = {}
             /\ ReturnError
             /\ UNCHANGED <<server, events>>
          \/ CallFails /\ ReturnError
       /\ drop' = drop \ {name}
       /\ UNCHANGED <<caches, queued, before, st, listed, rev, todo, kept, left, victims>>

MergedStatus == [f \in DOMAIN st |-> MergeField(before.status[f], st[f], set.status[f])]

\* the reconcile is over; again: it returned an error
Done(again) ==
    /\ pc' = "idle"
    /\ queued' = (queued \/ again)
    /\ before' = NoSet /\ st' = NewStatus /\ listed' = {} /\ rev' = NoRevision
    /\ todo' = NoneListed /\ kept' = NoneListed
    /\ left' = 0 /\ victims' = {} /\ drop' = {} /\ requeue' = FALSE

PatchStatus ==
    /\ pc = "patch"
    /\ \/ st = before.status /\ Done(requeue) /\ UNCHANGED <<server, events>>
       \/ /\ st # before.status /\ set.alive
          /\ set' = [set EXCEPT !.status = MergedStatus]
          /\ Done(requeue)
          /\ UNCHANGED <<runners, owed, revs, events>>
       \/ /\ st # before.status /\ ~set.alive
          /\ Done(TRUE)
          /\ UNCHANGED <<server, events>>
       \/ st # before.status /\ CallFails /\ Done(TRUE)
    /\ UNCHANGED caches

ReconcileStep ==
    \/ Reconcile \/ MakeHistory \/ BumpRevision \/ CreateRevision
    \/ FindRunners \/ SyncRunners \/ CreateRunner \/ Finish \/ PatchStatus
    \/ \E n \in Names : AdoptRunner(n) \/ DiscardRunner(n) \/ DeleteRunner(n)
    \/ \E name \in drop : TruncateHistory(name)

=============================================================================
